-------------------------- MODULE StreamPumpProofs --------------------------
(* The pump keeps its bound, accounts for what it holds, loses no wake-up,   *)
(* outlives no poll, and implements the stream.                              *)
EXTENDS StreamPump, SequenceTheorems, WellFoundedInduction, TLAPS

(* Facts about sequences.                                                    *)

\* A sequence is its head before its tail.
LEMMA HeadThenTail ==
  ASSUME NEW S, NEW t \in Seq(S), t # <<>>
  PROVE  <<Head(t)>> \o Tail(t) = t
<1> DEFINE c == <<Head(t)>> \o Tail(t)
<1>1. /\ Head(t) \in S /\ Tail(t) \in Seq(S) /\ Len(Tail(t)) = Len(t) - 1
      /\ \A i \in 1 .. Len(Tail(t)) : Tail(t)[i] = t[i+1]
  BY HeadTailProperties
<1>2. Len(t) \in Nat \ {0}
  BY EmptySeq
<1>3. <<Head(t)>> \in Seq(S) /\ Len(<<Head(t)>>) = 1 /\ <<Head(t)>>[1] = t[1]
  BY <1>1, <1>2
<1>4. /\ c \in Seq(S) /\ Len(c) = 1 + Len(Tail(t))
      /\ \A i \in 1 .. 1 + Len(Tail(t)) :
            c[i] = IF i <= 1 THEN <<Head(t)>>[i] ELSE Tail(t)[i - 1]
  BY <1>1, <1>3, ConcatProperties
<1>5. Len(c) = Len(t)
  BY <1>1, <1>2, <1>4
<1>6. ASSUME NEW i \in 1 .. Len(c)  PROVE c[i] = t[i]
  <2>1. CASE i = 1
    BY <2>1, <1>2, <1>3, <1>4, <1>5
  <2>2. CASE i > 1
    <3>1. i - 1 \in 1 .. Len(Tail(t)) /\ (i - 1) + 1 = i
      BY <2>2, <1>1, <1>2, <1>5
    <3>2. Tail(t)[i - 1] = t[(i - 1) + 1]
      BY <3>1, <1>1
    <3> QED  BY <2>2, <3>1, <3>2, <1>1, <1>2, <1>4, <1>5
  <2> QED  BY <2>1, <2>2
<1> HIDE DEF c
<1>7. c = t
  BY <1>4, <1>5, <1>6, SeqEqual
<1> QED  BY <1>7 DEF c

\* Moving the head of one sequence to the end of the one before it keeps their
\* concatenation.
LEMMA MoveHead ==
  ASSUME NEW S, NEW s \in Seq(S), NEW t \in Seq(S), t # <<>>
  PROVE  Append(s, Head(t)) \o Tail(t) = s \o t
<1>1. Head(t) \in S /\ Tail(t) \in Seq(S) /\ <<Head(t)>> \in Seq(S)
  BY HeadTailProperties
<1>2. Append(s, Head(t)) = s \o <<Head(t)>>
  BY <1>1, AppendIsConcat
<1>3. (s \o <<Head(t)>>) \o Tail(t) = s \o (<<Head(t)>> \o Tail(t))
  BY <1>1, ConcatAssociative
<1> QED  BY <1>2, <1>3, HeadThenTail

\* What follows s in s \o t \o u is the head of t.
LEMMA FirstAfter ==
  ASSUME NEW S, NEW s \in Seq(S), NEW t \in Seq(S), NEW u \in Seq(S), t # <<>>
  PROVE  /\ Len(s) < Len((s \o t) \o u)
         /\ ((s \o t) \o u)[Len(s) + 1] = Head(t)
<1>1. Len(s) \in Nat /\ Len(t) \in Nat \ {0} /\ Len(u) \in Nat
  BY EmptySeq, LenProperties
<1>2. /\ s \o t \in Seq(S) /\ Len(s \o t) = Len(s) + Len(t)
      /\ \A i \in 1 .. Len(s) + Len(t) :
            (s \o t)[i] = IF i <= Len(s) THEN s[i] ELSE t[i - Len(s)]
  BY ConcatProperties
<1>3. /\ Len((s \o t) \o u) = Len(s \o t) + Len(u)
      /\ \A i \in 1 .. Len(s \o t) + Len(u) :
            ((s \o t) \o u)[i] = IF i <= Len(s \o t) THEN (s \o t)[i]
                                 ELSE u[i - Len(s \o t)]
  BY <1>2, ConcatProperties
<1>4. Len(s) + 1 \in 1 .. Len(s) + Len(t) /\ (Len(s) + 1) - Len(s) = 1
  BY <1>1
<1>5. (s \o t)[Len(s) + 1] = t[1]
  BY <1>1, <1>2, <1>4
<1>6. ((s \o t) \o u)[Len(s) + 1] = (s \o t)[Len(s) + 1]
  BY <1>1, <1>2, <1>3, <1>4
<1>7. t[1] = Head(t)
  BY <1>1
<1> QED  BY <1>1, <1>2, <1>3, <1>5, <1>6, <1>7

-----------------------------------------------------------------------------
(* Types and the bound.                                                      *)

\* A charge is a natural number, and no larger than what Room provides for.
LEMMA ChargeBound ==
  ASSUME NEW m \in Message
  PROVE  Charge(m) \in Nat /\ Charge(m) <= PollSize + Overhead
<1>1. Size[m] \in 1 .. PollSize /\ PollSize \in Nat /\ Overhead \in Nat
  BY ConstantsAssumption
<1> QED  BY <1>1 DEF Charge

\* A poll goes on only while the largest result would still fit.
Reserved == drain = "poll" => HasRoom

BoundInv == TypeOK /\ Batched /\ Reserved /\ Bounded

LEMMA InitBound == Init => BoundInv
<1> SUFFICES ASSUME Init PROVE BoundInv
  OBVIOUS
<1>1. <<>> \in Seq(Message)
  BY EmptySeq
<1>2. TypeOK
  <2>1. cost \in Int
    BY DEF Init
  <2>2. /\ msgs \in Seq(Message) /\ batch \in Seq(Message)
        /\ polled \in Seq(Message) /\ wire \in Seq(Message)
    BY <1>1 DEF Init
  <2>3. Batched
    BY DEF Init, Batched
  <2> QED  BY <2>1, <2>2, <2>3 DEF Init, TypeOK
<1>3. Batched /\ Reserved
  BY DEF Init, Batched, Reserved
<1>4. Bounded
  BY ConstantsAssumption DEF Init, Bounded
<1> QED  BY <1>2, <1>3, <1>4 DEF BoundInv

LEMMA StepType ==
  ASSUME TypeOK, Batched, [Next]_vars
  PROVE  TypeOK' /\ Batched'
<1> USE DEF TypeOK, Batched
<1>1. CASE DrainCheck
  BY <1>1 DEF DrainCheck
<1>2. CASE Room
  BY <1>2 DEF Room
<1>3. ASSUME NEW m \in Message, PollMessage(m)  PROVE TypeOK' /\ Batched'
  <2>1. polled' \in Seq(Message) /\ msgs' \in Seq(Message)
    BY <1>3, AppendProperties DEF PollMessage
  <2>2. cost' \in Int
    BY <1>3, ChargeBound DEF PollMessage
  <2> QED  BY <1>3, <2>1, <2>2 DEF PollMessage
<1>4. CASE PollNothing \/ PollEnd \/ Signal
  BY <1>4 DEF PollNothing, PollEnd, Signal
<1>5. CASE Idle
  BY <1>5 DEF Idle
<1>6. CASE Take
  BY <1>6, EmptySeq DEF Take
<1>7. CASE Wake
  BY <1>7 DEF Wake
<1>8. CASE Flush
  BY <1>8, EmptySeq DEF Flush
<1>9. CASE Write
  <2>1. batch # <<>> /\ Head(batch) \in Message /\ Tail(batch) \in Seq(Message)
    BY <1>9, HeadTailProperties DEF Write
  <2>2. wire' \in Seq(Message)
    BY <1>9, <2>1, AppendProperties DEF Write
  <2>3. cost' \in Int
    BY <1>9, <2>1, ChargeBound DEF Write
  <2> QED  BY <1>9, <2>1, <2>2, <2>3 DEF Write
<1>10. CASE WriteFails
  <2>1. Head(batch) \in Message
    BY <1>10, HeadTailProperties DEF WriteFails
  <2>2. cost' \in Int
    BY <1>10, <2>1, ChargeBound DEF WriteFails
  <2> QED  BY <1>10, <2>2 DEF WriteFails
<1>11. CASE Close \/ Join \/ ConnDone
  BY <1>11 DEF Close, Join, ConnDone
<1>12. CASE UNCHANGED vars
  BY <1>12 DEF vars
<1> QED
  BY <1>1, <1>2, <1>3, <1>4, <1>5, <1>6, <1>7, <1>8, <1>9, <1>10, <1>11, <1>12
     DEF Next, Drain, WriterStep, Returned

\* Room that there is for the largest poll result stays when the cost falls.
LEMMA RoomStays ==
  ASSUME NEW c \in Int, NEW d \in Int, d <= c
  PROVE  c + PollSize + Overhead <= MaxQueued => d + PollSize + Overhead <= MaxQueued
<1>1. PollSize \in Nat /\ Overhead \in Nat /\ MaxQueued \in Nat
  BY ConstantsAssumption
<1> QED  BY <1>1

LEMMA StepBound ==
  ASSUME BoundInv, [Next]_vars
  PROVE  BoundInv'
<1>1. TypeOK' /\ Batched'
  BY StepType DEF BoundInv
<1>2. cost \in Int /\ Bounded /\ Reserved
  BY DEF BoundInv, TypeOK
<1>3. /\ cost \in Int
      /\ PollSize \in Nat /\ Overhead \in Nat /\ MaxQueued \in Nat
  BY <1>2, ConstantsAssumption
<1>4. Reserved' /\ Bounded'
  <2>1. CASE Room
    <3>1. cost' = cost /\ (drain' = "poll" => HasRoom)
      BY <2>1 DEF Room
    <3> QED  BY <1>2, <3>1 DEF Reserved, Bounded, HasRoom
  <2>2. ASSUME NEW m \in Message, PollMessage(m)  PROVE Reserved' /\ Bounded'
    <3>1. Charge(m) \in Nat /\ Charge(m) <= PollSize + Overhead
      BY ChargeBound
    <3>2. cost + PollSize + Overhead <= MaxQueued
      BY <1>2, <2>2 DEF PollMessage, Reserved, HasRoom
    <3>3. cost' <= MaxQueued
      BY <1>2, <1>3, <2>2, <3>1, <3>2 DEF PollMessage
    <3> QED  BY <2>2, <3>3 DEF PollMessage, Reserved, Bounded
  <2>3. CASE Write \/ WriteFails
    <3>1. Head(batch) \in Message
      BY <2>3, HeadTailProperties DEF Write, WriteFails, BoundInv, Batched, TypeOK
    <3>2. Charge(Head(batch)) \in Nat
      BY <3>1, ChargeBound
    <3>3. cost' <= cost /\ drain' = drain /\ cost' \in Int
      BY <1>2, <2>3, <3>2 DEF Write, WriteFails
    <3>4. cost' <= MaxQueued
      BY <1>2, <1>3, <3>3 DEF Bounded
    <3>5. cost + PollSize + Overhead <= MaxQueued =>
             cost' + PollSize + Overhead <= MaxQueued
      <4>1. cost' \in Int /\ cost' <= cost
        BY <3>3
      <4> QED  BY <1>3, <4>1, RoomStays
    <3> QED  BY <1>2, <3>3, <3>4, <3>5 DEF Reserved, Bounded, HasRoom
  <2>4. CASE DrainCheck \/ PollNothing \/ PollEnd \/ Signal \/ Idle
    <3>1. cost' = cost /\ drain' # "poll"
      BY <2>4 DEF DrainCheck, PollNothing, PollEnd, Signal, Idle
    <3> QED  BY <1>2, <3>1 DEF Reserved, Bounded
  <2>5. CASE Take \/ Wake \/ Flush \/ Close \/ Join \/ ConnDone \/ UNCHANGED vars
    <3>1. cost' = cost /\ drain' = drain
      BY <2>5 DEF Take, Wake, Flush, Close, Join, ConnDone, vars
    <3> QED  BY <1>2, <3>1 DEF Reserved, Bounded, HasRoom
  <2> QED
    BY <2>1, <2>2, <2>3, <2>4, <2>5 DEF Next, Drain, WriterStep, Returned
<1> QED  BY <1>1, <1>4 DEF BoundInv

LEMMA BoundAlways == Spec => []BoundInv
<1>1. Init => BoundInv
  BY InitBound
<1>2. BoundInv /\ [Next]_vars => BoundInv'
  BY StepBound
<1> QED  BY <1>1, <1>2, PTL DEF Spec

\* Every variable of the pump keeps its type.
THEOREM TypeCorrect == Spec => []TypeOK
<1>1. BoundInv => TypeOK
  BY DEF BoundInv
<1> QED  BY <1>1, BoundAlways, PTL

\* However slow the client, the connection never holds more than
\* pumpMaxQueued: only the drain adds, and it asks for room before it polls.
THEOREM BacklogBounded == Spec => []Bounded
<1>1. BoundInv => Bounded
  BY DEF BoundInv
<1> QED  BY <1>1, BoundAlways, PTL

-----------------------------------------------------------------------------
(* The accounting: what Charges computes, and that the cost is just that.    *)

\* A non-empty set of natural numbers has a least element, which is how a fact
\* about every number is proved below: none is the least to break it.
LEMMA Least ==
  ASSUME NEW T, T \subseteq Nat, T # {}
  PROVE  \E n \in T : \A m \in T : ~(m < n)
<1> DEFINE R == OpToRel(<, Nat)
<1>1. IsWellFoundedOn(R, Nat)
  BY NatLessThanWellFounded
<1>2. \E n \in T : \A m \in T : ~(<<m, n>> \in R)
  <2> HIDE DEF R
  <2> QED  BY <1>1, WFMin
<1>3. \A m, n \in Nat : m < n => <<m, n>> \in R
  BY DEF OpToRel
<1> QED  BY <1>2, <1>3

\* f holds the sums of the charges of the first n messages of s.
SumsUpTo(f, s, n) ==
    /\ f \in [0 .. n -> Int] /\ f[0] = 0
    /\ \A i \in 1 .. n : f[i] = f[i - 1] + Charge(s[i])

LEMMA SumsExist ==
  ASSUME NEW s \in Seq(Message)
  PROVE  \E f : SumsUpTo(f, s, Len(s))
<1> DEFINE T == {n \in 0 .. Len(s) : ~\E f : SumsUpTo(f, s, n)}
<1>0. Len(s) \in Nat
  OBVIOUS
<1>1. SUFFICES ASSUME T # {}  PROVE FALSE
  BY <1>0
<1>2. PICK n \in T : \A m \in T : ~(m < n)
  <2>1. T \subseteq Nat
    BY <1>0
  <2> HIDE DEF T
  <2> QED  BY <1>1, <2>1, Least
<1>3. n \in 0 .. Len(s) /\ ~\E f : SumsUpTo(f, s, n)
  BY <1>2
<1>4. SumsUpTo([i \in 0 .. 0 |-> 0], s, 0)
  BY DEF SumsUpTo
<1>5. n \in 1 .. Len(s) /\ n - 1 \in 0 .. Len(s) /\ ~(n - 1 \in T)
  BY <1>0, <1>2, <1>3, <1>4
<1>6. PICK f : SumsUpTo(f, s, n - 1)
  BY <1>5
<1>7. Charge(s[n]) \in Int
  BY <1>5, ChargeBound
<1> DEFINE g == [i \in 0 .. n |-> IF i = n THEN f[n - 1] + Charge(s[n]) ELSE f[i]]
<1>8. f \in [0 .. n - 1 -> Int] /\ f[0] = 0
      /\ \A i \in 1 .. n - 1 : f[i] = f[i - 1] + Charge(s[i])
  BY <1>6 DEF SumsUpTo
<1> HIDE DEF T
<1>9. g \in [0 .. n -> Int]
  <2>1. ASSUME NEW i \in 0 .. n  PROVE g[i] \in Int
    BY <1>5, <1>7, <1>8
  <2> QED  BY <2>1
<1>10. g[0] = 0
  BY <1>5, <1>8
<1>11. ASSUME NEW i \in 1 .. n  PROVE g[i] = g[i - 1] + Charge(s[i])
  BY <1>5, <1>8
<1>12. SumsUpTo(g, s, n)
  BY <1>9, <1>10, <1>11 DEF SumsUpTo
<1> QED  BY <1>3, <1>12

\* The sum that Charges yields, by whatever function it is found.
LEMMA ChargesIs ==
  ASSUME NEW s \in Seq(Message), NEW f, SumsUpTo(f, s, Len(s))
  PROVE  Charges(s) = f[Len(s)]
<1> DEFINE Def(g) == [i \in 0 .. Len(s) |->
                        IF i = 0 THEN 0 ELSE g[i - 1] + Charge(s[i])]
           h == CHOOSE g : g = Def(g)
<1>1. Len(s) \in Nat
  OBVIOUS
<1>2. f = Def(f)
  BY <1>1 DEF SumsUpTo
<1>3. h = Def(h)
  <2> HIDE DEF Def
  <2> QED  BY <1>2
<1>4. /\ h = [i \in 0 .. Len(s) |-> h[i]]
      /\ h[0] = 0
      /\ \A i \in 1 .. Len(s) : h[i] = h[i - 1] + Charge(s[i])
  <2> HIDE DEF h
  <2> QED  BY <1>1, <1>3
<1>5. Charges(s) = h[Len(s)]
  BY DEF Charges
<1> HIDE DEF h
<1> DEFINE T == {m \in 0 .. Len(s) : h[m] # f[m]}
<1>6. T = {}
  <2> SUFFICES ASSUME T # {}  PROVE FALSE
    OBVIOUS
  <2>1. PICK m \in T : \A k \in T : ~(k < m)
    <3>1. T \subseteq Nat
      BY <1>1
    <3> HIDE DEF T
    <3> QED  BY <3>1, Least
  <2>2. m \in 1 .. Len(s) /\ m - 1 \in 0 .. Len(s) /\ ~(m - 1 \in T)
    BY <1>4, <2>1 DEF SumsUpTo
  <2>3. h[m - 1] = f[m - 1]
    BY <2>2
  <2>4. h[m] = f[m]
    BY <1>4, <2>2, <2>3 DEF SumsUpTo
  <2> QED  BY <2>1, <2>4
<1> QED  BY <1>1, <1>5, <1>6

LEMMA ChargesEmpty == Charges(<<>>) = 0
<1>1. <<>> \in Seq(Message) /\ Len(<<>>) = 0
  OBVIOUS
<1>2. SumsUpTo([i \in 0 .. 0 |-> 0], <<>>, 0)
  BY DEF SumsUpTo
<1> QED  BY <1>1, <1>2, ChargesIs

LEMMA ChargesAppend ==
  ASSUME NEW s \in Seq(Message), NEW m \in Message
  PROVE  Charges(Append(s, m)) = Charges(s) + Charge(m)
<1>1. PICK f : SumsUpTo(f, s, Len(s))
  BY SumsExist
<1> DEFINE n == Len(s)
           t == Append(s, m)
           g == [i \in 0 .. n + 1 |-> IF i = n + 1 THEN f[n] + Charge(m) ELSE f[i]]
<1>2. /\ n \in Nat /\ t \in Seq(Message) /\ Len(t) = n + 1 /\ t[n + 1] = m
      /\ \A i \in 1 .. n : t[i] = s[i]
  BY AppendProperties
<1>3. /\ f \in [0 .. n -> Int] /\ f[0] = 0
      /\ \A i \in 1 .. n : f[i] = f[i - 1] + Charge(s[i])
  BY <1>1 DEF SumsUpTo
<1>4. Charge(m) \in Int
  BY ChargeBound
<1> HIDE DEF n, t
<1>5. g \in [0 .. n + 1 -> Int]
  <2>1. ASSUME NEW i \in 0 .. n + 1  PROVE g[i] \in Int
    BY <1>2, <1>3, <1>4
  <2> QED  BY <2>1
<1>6. ASSUME NEW i \in 1 .. n + 1  PROVE g[i] = g[i - 1] + Charge(t[i])
  <2>1. CASE i = n + 1
    BY <1>2, <2>1
  <2>2. CASE i # n + 1
    BY <1>2, <1>3, <2>2
  <2> QED  BY <2>1, <2>2
<1>7. SumsUpTo(g, t, Len(t))
  BY <1>2, <1>3, <1>5, <1>6 DEF SumsUpTo
<1>8. Charges(t) = g[n + 1]
  BY <1>2, <1>7, ChargesIs
<1>9. Charges(s) = f[n]
  BY <1>1, ChargesIs DEF n
<1> QED  BY <1>2, <1>8, <1>9 DEF t

LEMMA ChargesTail ==
  ASSUME NEW s \in Seq(Message), s # <<>>
  PROVE  Charges(Tail(s)) = Charges(s) - Charge(Head(s))
<1>1. PICK f : SumsUpTo(f, s, Len(s))
  BY SumsExist
<1> DEFINE n == Len(s)
           t == Tail(s)
           g == [i \in 0 .. n - 1 |-> f[i + 1] - f[1]]
<1>2. /\ n \in Nat \ {0} /\ t \in Seq(Message) /\ Len(t) = n - 1
      /\ Head(s) = s[1] /\ Head(s) \in Message
      /\ \A i \in 1 .. n - 1 : t[i] = s[i + 1]
  BY EmptySeq, HeadTailProperties
<1>3. /\ f \in [0 .. n -> Int] /\ f[0] = 0
      /\ \A i \in 1 .. n : f[i] = f[i - 1] + Charge(s[i])
  BY <1>1 DEF SumsUpTo
<1>4. Charge(Head(s)) \in Int
  BY <1>2, ChargeBound
<1> HIDE DEF n, t
<1>5. f[1] = Charge(Head(s))
  BY <1>2, <1>3, <1>4
<1>6. g \in [0 .. n - 1 -> Int] /\ g[0] = 0
  BY <1>2, <1>3
<1>7. ASSUME NEW i \in 1 .. n - 1  PROVE g[i] = g[i - 1] + Charge(t[i])
  <2>1. i + 1 \in 1 .. n /\ (i + 1) - 1 = i /\ i - 1 \in 0 .. n - 1
    BY <1>2
  <2>2. f[i + 1] = f[i] + Charge(s[i + 1])
    BY <1>3, <2>1
  <2>3. Charge(s[i + 1]) \in Int
    <3>1. s[i + 1] \in Message
      BY <2>1, ElementOfSeq DEF n
    <3> QED  BY <3>1, ChargeBound
  <2>4. f[i] \in Int /\ f[1] \in Int
    BY <1>2, <1>3, <2>1
  <2> QED  BY <1>2, <2>1, <2>2, <2>3, <2>4
<1>8. SumsUpTo(g, t, Len(t))
  BY <1>2, <1>6, <1>7 DEF SumsUpTo
<1>9. Charges(t) = g[n - 1]
  BY <1>2, <1>8, ChargesIs
<1>10. Charges(s) = f[n]
  BY <1>1, ChargesIs DEF n
<1> QED  BY <1>2, <1>5, <1>9, <1>10 DEF t

LEMMA ChargesNat ==
  ASSUME NEW s \in Seq(Message)
  PROVE  Charges(s) \in Nat
<1>1. PICK f : SumsUpTo(f, s, Len(s))
  BY SumsExist
<1>2. Len(s) \in Nat /\ Charges(s) = f[Len(s)]
  BY <1>1, ChargesIs
<1> DEFINE T == {n \in 0 .. Len(s) : ~(f[n] \in Nat)}
<1>3. T = {}
  <2> SUFFICES ASSUME T # {}  PROVE FALSE
    OBVIOUS
  <2>1. PICK n \in T : \A m \in T : ~(m < n)
    <3>1. T \subseteq Nat
      BY <1>2
    <3> HIDE DEF T
    <3> QED  BY <3>1, Least
  <2>2. n \in 1 .. Len(s) /\ n - 1 \in 0 .. Len(s) /\ ~(n - 1 \in T)
    BY <1>1, <2>1 DEF SumsUpTo
  <2>3. Charge(s[n]) \in Nat
    BY <2>2, ElementOfSeq, ChargeBound
  <2>4. f[n - 1] \in Nat
    BY <2>2
  <2> QED  BY <1>1, <2>1, <2>2, <2>3, <2>4 DEF SumsUpTo
<1> QED  BY <1>2, <1>3

CostInv == TypeOK /\ Batched /\ CostExact

LEMMA StepCost ==
  ASSUME CostInv, [Next]_vars
  PROVE  CostInv'
<1>1. /\ TypeOK /\ Batched /\ CostExact
      /\ msgs \in Seq(Message) /\ batch \in Seq(Message) /\ cost \in Int
      /\ Charges(msgs) \in Nat /\ Charges(batch) \in Nat
  BY ChargesNat DEF CostInv, TypeOK
<1>2. TypeOK' /\ Batched'
  BY <1>1, StepType
<1>3. CASE \E m \in Message : PollMessage(m)
  <2>1. PICK m \in Message : PollMessage(m)
    BY <1>3
  <2>2. /\ cost' = cost + Charge(m) /\ Charges(msgs') = Charges(msgs) + Charge(m)
        /\ batch' = batch /\ writer' = writer
    BY <1>1, <2>1, ChargesAppend DEF PollMessage
  <2>3. Charge(m) \in Nat /\ (Failed => Charge(Head(batch)) \in Nat)
    BY <1>1, ChargeBound, HeadTailProperties DEF Failed
  <2>4. CostExact'
    BY <1>1, <2>2, <2>3 DEF CostExact, Failed
  <2> QED  BY <1>2, <2>4 DEF CostInv
<1>4. CASE Take \/ Flush
  <2>1. batch = <<>> /\ batch' = msgs /\ msgs' = <<>> /\ cost' = cost /\ ~Failed
    BY <1>1, <1>4 DEF Take, Flush, Batched, Failed
  <2>2. ~Failed'
    BY <1>4 DEF Take, Flush, Failed
  <2>3. CostExact'
    BY <1>1, <2>1, <2>2, ChargesEmpty DEF CostExact
  <2> QED  BY <1>2, <2>3 DEF CostInv
<1>5. CASE Write
  <2>1. batch # <<>> /\ ~Failed /\ ~Failed'
    BY <1>1, <1>5 DEF Write, Batched, Failed
  <2>2. /\ cost' = cost - Charge(Head(batch)) /\ msgs' = msgs
        /\ Charges(batch') = Charges(batch) - Charge(Head(batch))
    BY <1>1, <1>5, <2>1, ChargesTail DEF Write
  <2>3. Charge(Head(batch)) \in Nat
    BY <1>1, <2>1, ChargeBound, HeadTailProperties
  <2>4. CostExact'
    BY <1>1, <2>1, <2>2, <2>3 DEF CostExact
  <2> QED  BY <1>2, <2>4 DEF CostInv
<1>6. CASE WriteFails
  <2>1. batch # <<>> /\ ~Failed /\ Failed'
    BY <1>1, <1>6 DEF WriteFails, Batched, Failed
  <2>2. cost' = cost - Charge(Head(batch)) /\ msgs' = msgs /\ batch' = batch
    BY <1>6 DEF WriteFails
  <2>3. Charge(Head(batch)) \in Nat
    BY <1>1, <2>1, ChargeBound, HeadTailProperties
  <2>4. cost' = Charges(msgs) + Charges(batch) - Charge(Head(batch))
    BY <1>1, <2>1, <2>2, <2>3 DEF CostExact
  <2>5. CostExact'
    BY <2>1, <2>2, <2>4 DEF CostExact
  <2> QED  BY <1>2, <2>5 DEF CostInv
<1>7. CASE \/ DrainCheck \/ Room \/ PollNothing \/ PollEnd \/ Signal \/ Idle
          \/ Wake \/ Close \/ Join \/ ConnDone \/ UNCHANGED vars
  <2>1. cost' = cost /\ msgs' = msgs /\ batch' = batch /\ Failed' = Failed
    BY <1>7 DEF DrainCheck, Room, PollNothing, PollEnd, Signal, Idle, Wake, Close,
       Join, ConnDone, vars, Failed
  <2>2. CostExact'
    BY <1>1, <2>1 DEF CostExact
  <2> QED  BY <1>2, <2>2 DEF CostInv
<1> QED
  BY <1>3, <1>4, <1>5, <1>6, <1>7 DEF Next, Drain, WriterStep, Returned

\* What the queue is charged for is what it holds, whatever the sizes, and
\* however long the stream: nothing is counted twice and nothing stays counted.
THEOREM CostIsHeld == Spec => []CostExact
<1>1. Init => CostInv
  <2> SUFFICES ASSUME Init  PROVE CostInv
    OBVIOUS
  <2>1. TypeOK /\ Batched
    BY InitBound DEF BoundInv
  <2>2. CostExact
    BY ChargesEmpty DEF Init, CostExact, Failed
  <2> QED  BY <2>1, <2>2 DEF CostInv
<1>2. CostInv /\ [Next]_vars => CostInv'
  BY StepCost
<1>3. CostInv => CostExact
  BY DEF CostInv
<1> QED  BY <1>1, <1>2, <1>3, PTL DEF Spec

\* So the bound on the counter bounds what is there: queue and batch together
\* never take more than pumpMaxQueued, as long as no write has failed (then the
\* rest of the batch is dropped).
THEOREM HeldIsBounded ==
  Spec => [](~Failed => Charges(msgs) + Charges(batch) <= MaxQueued)
<1>1. TypeOK /\ CostExact /\ Bounded =>
          (~Failed => Charges(msgs) + Charges(batch) <= MaxQueued)
  <2> SUFFICES ASSUME TypeOK, CostExact, Bounded, ~Failed
               PROVE  Charges(msgs) + Charges(batch) <= MaxQueued
    OBVIOUS
  <2>1. Charges(msgs) \in Nat /\ Charges(batch) \in Nat
    BY ChargesNat DEF TypeOK
  <2>2. cost = Charges(msgs) + Charges(batch)
    BY <2>1 DEF CostExact
  <2> QED  BY <2>2 DEF Bounded
<1> QED  BY <1>1, TypeCorrect, CostIsHeld, BacklogBounded, PTL

-----------------------------------------------------------------------------
(* Wake-ups and the end.                                                     *)

\* The writer never sleeps on a message nobody will tell it of.
THEOREM NoLostWakeup == Spec => []WakeupPending
<1>1. Init => WakeupPending
  BY DEF Init, WakeupPending
<1>2. WakeupPending /\ [Next]_vars => WakeupPending'
  <2> SUFFICES ASSUME WakeupPending, [Next]_vars PROVE WakeupPending'
    OBVIOUS
  <2> USE DEF WakeupPending
  <2>1. CASE Drain
    BY <2>1 DEF Drain, DrainCheck, Room, PollMessage, PollNothing, PollEnd,
       Signal, Idle
  <2>2. CASE WriterStep
    BY <2>2 DEF WriterStep, Take, Wake, Flush, Close, Join
  <2>3. CASE Write \/ WriteFails \/ ConnDone \/ UNCHANGED vars
    BY <2>3 DEF Write, WriteFails, ConnDone, vars
  <2> QED  BY <2>1, <2>2, <2>3 DEF Next, Returned
<1> QED  BY <1>1, <1>2, PTL DEF Spec

\* "PumpTransmit returns only after the drain goroutine has exited": nothing
\* calls poll any more, and the module behind it may be destroyed.
PollerGone == writer = "returned" => drain = "exited"

LEMMA NoPollAfterReturn == Spec => []PollerGone
<1>1. Init => PollerGone
  BY DEF Init, PollerGone
<1>2. PollerGone /\ [Next]_vars => PollerGone'
  <2> SUFFICES ASSUME PollerGone, [Next]_vars PROVE PollerGone'
    OBVIOUS
  <2> USE DEF PollerGone
  <2>1. CASE Drain
    BY <2>1 DEF Drain, DrainCheck, Room, PollMessage, PollNothing, PollEnd,
       Signal, Idle
  <2>2. CASE WriterStep
    BY <2>2 DEF WriterStep, Take, Wake, Flush, Close, Join
  <2>3. CASE Write \/ WriteFails \/ ConnDone \/ UNCHANGED vars
    BY <2>3 DEF Write, WriteFails, ConnDone, vars
  <2> QED  BY <2>1, <2>2, <2>3 DEF Next, Returned
<1> QED  BY <1>1, <1>2, PTL DEF Spec

-----------------------------------------------------------------------------
(* The pump implements the stream.                                           *)

\* What was polled is what was sent, then what is being written, then the queue.
Conserved == polled = (wire \o batch) \o msgs

\* A stream that ends without a failed write has nothing left.
EndsEmpty ==
    writer \in {"close", "join", "returned"} /\ batch = <<>> =>
        msgs = <<>> /\ drain = "exited"

FifoInv == TypeOK /\ Batched /\ PollerGone /\ EndsEmpty /\ Conserved

LEMMA InitFifo == Init => FifoInv /\ Fifo!Init
<1> SUFFICES ASSUME Init PROVE FifoInv /\ Fifo!Init
  OBVIOUS
<1>1. <<>> \in Seq(Message)
  BY EmptySeq
<1>2. (<<>> \o <<>>) \o <<>> = <<>>
  BY <1>1, ConcatEmptySeq
<1>3. TypeOK /\ Batched
  BY InitBound DEF BoundInv
<1> QED
  BY <1>2, <1>3 DEF Init, FifoInv, PollerGone, EndsEmpty, Conserved, Fifo!Init,
     Failed

LEMMA StepFifo ==
  ASSUME FifoInv, [Next]_vars
  PROVE  (EndsEmpty /\ Conserved)' /\ [Fifo!Next]_(Fifo!fifo)
<1>1. /\ msgs \in Seq(Message) /\ batch \in Seq(Message)
      /\ polled \in Seq(Message) /\ wire \in Seq(Message)
  BY DEF FifoInv, TypeOK
<1>2. polled = (wire \o batch) \o msgs /\ wire \o batch \in Seq(Message)
  BY <1>1, ConcatProperties DEF FifoInv, Conserved
<1>3. EndsEmpty /\ Batched /\ PollerGone
  BY DEF FifoInv
<1> USE DEF EndsEmpty, Conserved, Failed
<1> DEFINE Goal == (EndsEmpty /\ Conserved)' /\ [Fifo!Next]_(Fifo!fifo)
<1>4. ASSUME NEW m \in Message, PollMessage(m)  PROVE Goal
  <2> HIDE DEF EndsEmpty, Conserved, Failed
  <2>1. Append((wire \o batch) \o msgs, m) = (wire \o batch) \o Append(msgs, m)
    <3>1. /\ wire \o batch \in Seq(Message) /\ msgs \in Seq(Message)
          /\ <<m>> \in Seq(Message) /\ (wire \o batch) \o msgs \in Seq(Message)
      BY <1>1, <1>2, <1>4, ConcatProperties
    <3>2. /\ Append((wire \o batch) \o msgs, m) = ((wire \o batch) \o msgs) \o <<m>>
          /\ Append(msgs, m) = msgs \o <<m>>
      BY <3>1, <1>4, AppendIsConcat
    <3>3. ((wire \o batch) \o msgs) \o <<m>> = (wire \o batch) \o (msgs \o <<m>>)
      BY <3>1, ConcatAssociative
    <3> QED  BY <3>2, <3>3
  <2> USE DEF EndsEmpty, Conserved, Failed
  <2>2. Conserved'
    BY <1>2, <1>4, <2>1 DEF PollMessage
  <2>3. EndsEmpty'
    BY <1>3, <1>4 DEF PollMessage
  <2>4. Fifo!Accept(m)
    BY <1>3, <1>4 DEF PollMessage, PollerGone, Fifo!Accept
  <2> QED  BY <2>2, <2>3, <2>4 DEF Fifo!Next
<1>5. CASE Write
  <2>1. batch # <<>> /\ Head(batch) \in Message
    BY <1>1, <1>3, <1>5, HeadTailProperties DEF Write, Batched
  <2>2. Append(wire, Head(batch)) \o Tail(batch) = wire \o batch
    BY <1>1, <2>1, MoveHead
  <2>3. Conserved'
    BY <1>2, <1>5, <2>2 DEF Write
  <2>4. Len(wire) < Len(polled) /\ polled[Len(wire) + 1] = Head(batch)
    BY <1>1, <1>2, <2>1, FirstAfter
  <2>5. Fifo!Emit
    BY <1>5, <2>4 DEF Write, Fifo!Emit
  <2>6. EndsEmpty'
    BY <1>5 DEF Write
  <2> QED  BY <2>3, <2>5, <2>6 DEF Fifo!Next
<1>6. CASE WriteFails
  <2>1. batch # <<>>
    BY <1>3, <1>6 DEF WriteFails, Batched
  <2>2. Fifo!Break
    BY <1>6, <2>1 DEF WriteFails, Fifo!Break
  <2> QED  BY <1>2, <1>6, <2>1, <2>2 DEF WriteFails, Fifo!Next
<1>7. CASE Take
  <2>1. batch = <<>>
    BY <1>3, <1>7 DEF Take, Batched
  <2>2. wire \o <<>> = wire /\ (wire \o msgs) \o <<>> = wire \o msgs
    BY <1>1, ConcatProperties, ConcatEmptySeq
  <2> QED  BY <1>2, <1>7, <2>1, <2>2 DEF Take, Fifo!fifo
<1>8. CASE Flush
  <2>1. batch = <<>>
    BY <1>3, <1>8 DEF Flush, Batched
  <2>2. wire \o <<>> = wire /\ (wire \o msgs) \o <<>> = wire \o msgs
    BY <1>1, ConcatProperties, ConcatEmptySeq
  <2> QED  BY <1>2, <1>8, <2>1, <2>2 DEF Flush, Fifo!fifo
<1>9. CASE Join
  <2>1. batch = <<>> => polled = wire
    BY <1>1, <1>2, <1>3, <1>9, ConcatEmptySeq DEF Join
  <2>2. Fifo!Close
    BY <1>9, <2>1 DEF Join, Fifo!Close
  <2> QED  BY <1>2, <1>3, <1>9, <2>2 DEF Join, Fifo!Next
<1>10. CASE Close
  BY <1>2, <1>3, <1>10 DEF Close, Fifo!fifo
<1>11. CASE DrainCheck \/ Room \/ PollNothing \/ PollEnd \/ Signal \/ Idle
  BY <1>2, <1>3, <1>11 DEF DrainCheck, Room, PollNothing, PollEnd, Signal, Idle,
     Fifo!fifo
<1>12. CASE Wake \/ ConnDone \/ UNCHANGED vars
  BY <1>2, <1>3, <1>12 DEF Wake, ConnDone, vars, Fifo!fifo
<1> QED
  BY <1>4, <1>5, <1>6, <1>7, <1>8, <1>9, <1>10, <1>11, <1>12
     DEF Next, Drain, WriterStep, Returned

\* Order, nothing twice, nothing lost unless a write failed, and nothing asked
\* of the producer after the end: the pump is a stream, whatever the sizes, the
\* bound and the number of messages.
THEOREM ImplementsFifo == Spec => InOrder
<1>1. Init => FifoInv /\ Fifo!Init
  BY InitFifo
<1>2. FifoInv /\ [Next]_vars => (EndsEmpty /\ Conserved)' /\ [Fifo!Next]_(Fifo!fifo)
  BY StepFifo
<1>3. BoundInv => TypeOK /\ Batched
  BY DEF BoundInv
<1>4. TypeOK /\ Batched /\ PollerGone /\ EndsEmpty /\ Conserved <=> FifoInv
  BY DEF FifoInv
<1> QED
  BY <1>1, <1>2, <1>3, <1>4, BoundAlways, NoPollAfterReturn, PTL
     DEF Spec, InOrder, Fifo!Spec
=============================================================================
