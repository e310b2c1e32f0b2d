--------------------------- MODULE BackPlotProofs ---------------------------
(* A sample is shown once, and in order: what is in the plot, under way, in   *)
(* the hands of a push loop and in the buffer are four stretches of the same  *)
(* increasing sequence, whatever was lost between them; and a connected       *)
(* client has a sampler.                                                     *)
EXTENDS BackPlot, SequenceTheorems, TLAPS

-----------------------------------------------------------------------------
(* Increasing sequences of samples.                                          *)

Increasing(s) == \A i, j \in DOMAIN s : i < j => s[i] < s[j]
Before(s, t) == \A i \in DOMAIN s, j \in DOMAIN t : s[i] < t[j]
UpTo(s, n) == \A i \in DOMAIN s : s[i] <= n

\* Nothing is in order with everything.
LEMMA EmptyInOrder ==
  ASSUME NEW t, NEW n
  PROVE  Increasing(<<>>) /\ UpTo(<<>>, n) /\ Before(<<>>, t) /\ Before(t, <<>>)
<1>1. DOMAIN <<>> = {}
  OBVIOUS
<1> QED  BY <1>1 DEF Increasing, UpTo, Before

\* Two batches in order make one.
LEMMA ConcatInOrder ==
  ASSUME NEW s \in Batch, NEW t \in Batch, NEW n,
         Increasing(s), Increasing(t), Before(s, t), UpTo(s, n), UpTo(t, n)
  PROVE  /\ s \o t \in Batch
         /\ Increasing(s \o t) /\ UpTo(s \o t, n)
         /\ \A u : Before(s, u) /\ Before(t, u) => Before(s \o t, u)
<1> DEFINE c == s \o t
<1>1. /\ c \in Batch /\ Len(c) = Len(s) + Len(t)
      /\ \A i \in 1 .. Len(s) + Len(t) : c[i] = IF i <= Len(s) THEN s[i] ELSE t[i - Len(s)]
  BY ConcatProperties DEF Batch
<1>2. Len(s) \in Nat /\ Len(t) \in Nat /\ DOMAIN s = 1..Len(s) /\ DOMAIN t = 1..Len(t)
  BY LenProperties DEF Batch
<1>3. DOMAIN c = 1 .. Len(s) + Len(t)
  BY <1>1, LenProperties DEF Batch
<1> HIDE DEF c
<1>4. ASSUME NEW i \in DOMAIN c
      PROVE  \/ i \in DOMAIN s /\ c[i] = s[i]
             \/ i - Len(s) \in DOMAIN t /\ i > Len(s) /\ c[i] = t[i - Len(s)]
  BY <1>1, <1>2, <1>3
<1>5. Increasing(c)
  <2> SUFFICES ASSUME NEW i \in DOMAIN c, NEW j \in DOMAIN c, i < j
               PROVE  c[i] < c[j]
    BY DEF Increasing
  <2>1. i \in Nat /\ j \in Nat
    BY <1>2, <1>3
  <2>2. CASE i \in DOMAIN s /\ c[i] = s[i] /\ j \in DOMAIN s /\ c[j] = s[j]
    BY <2>2 DEF Increasing
  <2>3. CASE /\ i \in DOMAIN s /\ c[i] = s[i]
             /\ j - Len(s) \in DOMAIN t /\ c[j] = t[j - Len(s)]
    BY <2>3 DEF Before
  <2>4. CASE /\ i - Len(s) \in DOMAIN t /\ c[i] = t[i - Len(s)]
             /\ j - Len(s) \in DOMAIN t /\ c[j] = t[j - Len(s)]
    BY <2>4, <2>1, <1>2 DEF Increasing
  <2> QED  BY <2>1, <2>2, <2>3, <2>4, <1>2, <1>4
<1>6. UpTo(c, n)
  BY <1>4 DEF UpTo
<1>7. ASSUME NEW u, Before(s, u), Before(t, u)  PROVE Before(c, u)
  BY <1>4, <1>7 DEF Before
<1> QED  BY <1>1, <1>5, <1>6, <1>7 DEF c

\* What is left of a batch is in order with what the batch was.
LEMMA RestInOrder ==
  ASSUME NEW s \in Batch, NEW d \in Nat, d < Len(s), NEW n, Increasing(s), UpTo(s, n)
  PROVE  LET r == SubSeq(s, d + 1, Len(s))
         IN  /\ r \in Batch /\ Len(r) = Len(s) - d
             /\ Increasing(r) /\ UpTo(r, n)
             /\ \A u : Before(u, s) => Before(u, r)
<1> DEFINE r == SubSeq(s, d + 1, Len(s))
<1>1. Len(s) \in Nat /\ DOMAIN s = 1..Len(s) /\ \A i \in 1..Len(s) : s[i] \in 1..MaxLog
  BY LenProperties, ElementOfSeq DEF Batch
<1>2. \A i \in d + 1 .. Len(s) : s[i] \in 1..MaxLog
  BY <1>1
<1>3. /\ r \in Seq(1..MaxLog)
      /\ Len(r) = IF d + 1 <= Len(s) THEN Len(s) - (d + 1) + 1 ELSE 0
      /\ \A i \in 1 .. Len(s) - (d + 1) + 1 : r[i] = s[(d + 1) + i - 1]
  BY <1>1, <1>2, SubSeqProperties
<1>4. DOMAIN r = 1..Len(r)
  BY <1>3, LenProperties
<1>5. Len(r) = Len(s) - d
  <2>1. \A m \in Nat : d < m =>
          (IF d + 1 <= m THEN m - (d + 1) + 1 ELSE 0) = m - d
    OBVIOUS
  <2> QED  BY <2>1, <1>1, <1>3
<1> HIDE DEF r
<1>6. ASSUME NEW i \in DOMAIN r  PROVE i \in Nat /\ i + d \in DOMAIN s /\ r[i] = s[i + d]
  <2>1. i \in 1 .. Len(s) - (d + 1) + 1
    BY <1>1, <1>4, <1>5
  <2>2. i \in Nat /\ (d + 1) + i - 1 = i + d /\ i + d \in 1..Len(s)
    BY <2>1, <1>1
  <2>3. r[i] = s[(d + 1) + i - 1]
    BY <2>1, <1>3
  <2> QED  BY <2>2, <2>3, <1>1
<1>7. Increasing(r)
  BY <1>6 DEF Increasing
<1>8. UpTo(r, n)
  BY <1>6 DEF UpTo
<1>9. ASSUME NEW u, Before(u, s)  PROVE Before(u, r)
  BY <1>6, <1>9 DEF Before
<1> QED  BY <1>3, <1>5, <1>7, <1>8, <1>9 DEF r, Batch

\* A new sample comes after all that were taken before.
LEMMA AppendInOrder ==
  ASSUME NEW s \in Batch, NEW n \in Nat, n + 1 \in 1..MaxLog, Increasing(s), UpTo(s, n)
  PROVE  LET a == Append(s, n + 1)
         IN  /\ a \in Batch /\ Len(a) = Len(s) + 1
             /\ Increasing(a) /\ UpTo(a, n + 1)
             /\ \A u \in Batch : UpTo(u, n) /\ Before(u, s) => Before(u, a)
<1> DEFINE a == Append(s, n + 1)
<1>1. /\ a \in Batch /\ Len(a) = Len(s) + 1
      /\ \A i \in 1 .. Len(s) : a[i] = s[i]
      /\ a[Len(s) + 1] = n + 1
  BY AppendProperties DEF Batch
<1>2. /\ Len(s) \in Nat /\ DOMAIN s = 1..Len(s) /\ \A i \in 1..Len(s) : s[i] \in 1..MaxLog
      /\ DOMAIN a = 1..Len(a)
  BY <1>1, LenProperties, ElementOfSeq DEF Batch
<1> HIDE DEF a
<1>3. ASSUME NEW i \in DOMAIN a
      PROVE  \/ i \in DOMAIN s /\ a[i] = s[i] /\ a[i] <= n
             \/ i = Len(s) + 1 /\ a[i] = n + 1
  BY <1>1, <1>2 DEF UpTo
<1>4. Increasing(a)
  <2> SUFFICES ASSUME NEW i \in DOMAIN a, NEW j \in DOMAIN a, i < j
               PROVE  a[i] < a[j]
    BY DEF Increasing
  <2>1. i \in DOMAIN s /\ a[i] = s[i] /\ a[i] <= n /\ a[i] \in Nat
    BY <1>1, <1>2, <1>3
  <2>2. CASE j = Len(s) + 1 /\ a[j] = n + 1
    BY <2>1, <2>2
  <2>3. CASE j \in DOMAIN s /\ a[j] = s[j]
    BY <2>1, <2>3 DEF Increasing
  <2> QED  BY <1>3, <2>2, <2>3
<1>5. UpTo(a, n + 1)
  <2> SUFFICES ASSUME NEW i \in DOMAIN a  PROVE a[i] <= n + 1
    BY DEF UpTo
  <2>1. a[i] \in Nat
    BY <1>1, <1>2
  <2> QED  BY <2>1, <1>3
<1>6. ASSUME NEW u \in Batch, UpTo(u, n), Before(u, s)  PROVE Before(u, a)
  <2> SUFFICES ASSUME NEW i \in DOMAIN u, NEW j \in DOMAIN a  PROVE u[i] < a[j]
    BY DEF Before
  <2>0. u \in Seq(1..MaxLog) /\ i \in 1..Len(u)
    BY LenProperties DEF Batch
  <2>1. u[i] <= n
    BY <1>6 DEF UpTo
  <2>4. u[i] \in 1..MaxLog
    BY <2>0, ElementOfSeq
  <2>2. CASE j = Len(s) + 1 /\ a[j] = n + 1
    BY <2>1, <2>2, <2>4
  <2>3. CASE j \in DOMAIN s /\ a[j] = s[j]
    BY <1>6, <2>3 DEF Before
  <2> QED  BY <1>3, <2>2, <2>3
<1> QED  BY <1>1, <1>4, <1>5, <1>6 DEF a
-----------------------------------------------------------------------------
(* Types.                                                                    *)

\* A connection that is not made yet has nothing at either end.
Unmade == \A k \in Connection : k > nconn => up[k] = <<>> /\ loop[k] = "none" /\ held[k] = <<>>

\* A push loop holds no more than the buffer did.
Held == \A k \in Connection : Len(held[k]) <= MaxPending

Shape == TypeOK /\ Unmade /\ Held

LEMMA InitShape == Init => Shape
<1> SUFFICES ASSUME Init  PROVE Shape
  OBVIOUS
<1> USE ConstantsAssumption
<1>1. <<>> \in Batch /\ <<>> \in Seq(Batch) /\ Len(<<>>) = 0
      /\ <<>> \in Seq({"subscribe", "start", "clear", "stop"})
  BY EmptySeq DEF Batch
<1>2. MaxPending \in Nat /\ MaxConns \in Nat /\ MaxLog \in Nat /\ MaxSessions \in Nat
  BY DEF ConstantsAssumption
<1>3. /\ session \in 0..MaxSessions /\ ws \in {0, nconn} /\ nconn \in 0..MaxConns
      /\ epoch \in 0..MaxConns /\ count \in 0..MaxLog /\ pending \in Batch
      /\ Len(pending) <= MaxPending /\ shown \in Batch /\ down \in Seq(Batch)
  BY <1>1, <1>2 DEF Init
<1>4. /\ held \in [Connection -> Batch] /\ prev \in [Connection -> 0..MaxPending]
      /\ up \in [Connection -> Seq({"subscribe", "start", "clear", "stop"})]
      /\ stopCh \in [Sampler -> 0..MaxConns]
  BY <1>1, <1>2 DEF Init
<1>5. TypeOK
  BY <1>3, <1>4 DEF Init, TypeOK
<1>6. Unmade /\ Held
  BY <1>1, <1>2 DEF Init, Unmade, Held
<1> QED  BY <1>5, <1>6 DEF Shape

\* The steps of the user interface's thread.
LEMMA InterfaceShape == Shape /\ (Start \/ Stop \/ Clear) => Shape'
<1> SUFFICES ASSUME Shape, Start \/ Stop \/ Clear  PROVE Shape'
  OBVIOUS
<1> USE ConstantsAssumption DEF ConstantsAssumption, Shape, TypeOK, Unmade, Held, net, pushes, samplers, buffer
<1>1. <<>> \in Batch
  BY EmptySeq DEF Batch
<1>2. CASE Start
  <2>1. session' \in 0..MaxSessions
    BY <1>2 DEF Start
  <2>2. /\ thread' = "connect" /\ stopping' = FALSE /\ shutdown' = "none"
        /\ cancel' = FALSE /\ clearing' = FALSE /\ cleared' \in {cleared, FALSE}
        /\ shown' = <<>> /\ UNCHANGED <<net, pushes, samplers, buffer>>
    BY <1>2 DEF Start
  <2> QED  BY <1>1, <2>1, <2>2
<1>3. CASE Stop
  BY <1>3 DEF Stop
<1>4. CASE Clear
  BY <1>1, <1>4 DEF Clear
<1> QED  BY <1>2, <1>3, <1>4

\* A call that is sent goes to the connection the client has.
LEMMA SendShape ==
  ASSUME Shape, NEW call \in {"subscribe", "start", "clear", "stop"}, Open, Send(ws, call)
  PROVE  /\ up' \in [Connection -> Seq({"subscribe", "start", "clear", "stop"})]
         /\ \A k \in Connection : k > nconn => up'[k] = up[k]
<1> USE ConstantsAssumption DEF ConstantsAssumption
<1>1. /\ ws = nconn /\ ws \in Connection
      /\ up \in [Connection -> Seq({"subscribe", "start", "clear", "stop"})]
  BY DEF Shape, TypeOK, Open, Connection
<1>2. Append(up[ws], call) \in Seq({"subscribe", "start", "clear", "stop"})
  BY <1>1, AppendProperties
<1>3. up' = [up EXCEPT ![ws] = Append(up[ws], call)]
  BY DEF Send
<1>4. \A k \in Connection : k > nconn => k # ws
  BY <1>1 DEF Connection
<1> QED  BY <1>1, <1>2, <1>3, <1>4

LEMMA TrySendShape ==
  ASSUME Shape, NEW call \in {"subscribe", "start", "clear", "stop"},
         NEW next \in {"start", "clear", "recv"}, TrySend(call, next)
  PROVE  /\ up' \in [Connection -> Seq({"subscribe", "start", "clear", "stop"})]
         /\ \A k \in Connection : k > nconn => up'[k] = up[k]
         /\ thread' \in {"start", "clear", "recv", "close"}
<1>1. CASE Open /\ Send(ws, call) /\ Goto(next)
  BY <1>1, SendShape DEF Goto
<1>2. CASE UNCHANGED up /\ thread' \in {next, "close"}
  BY <1>2 DEF Shape, TypeOK
<1> QED  BY <1>1, <1>2 DEF TrySend, Raise, Goto

\* The steps of the client's loop thread.
LEMMA MainShape == Shape /\ (Connect \/ ConnectFails \/ Main) => Shape'
<1> SUFFICES ASSUME Shape, Connect \/ ConnectFails \/ Main  PROVE Shape'
  OBVIOUS
<1> USE ConstantsAssumption DEF ConstantsAssumption, pushes, samplers, buffer
<1>1. <<>> \in Seq(Batch)
  BY EmptySeq
<1>2. CASE Connect
  <2>1. /\ nconn' = nconn + 1 /\ ws' = nconn' /\ live' = TRUE /\ thread' = "subscribe"
        /\ nconn < MaxConns /\ nconn \in 0..MaxConns
        /\ UNCHANGED <<session, stopping, shutdown, cancel, cleared, clearing, shown,
                       up, down, pushes, samplers, buffer>>
    BY <1>2 DEF Connect, Goto, Shape, TypeOK
  <2>2. nconn' \in 0..MaxConns
    BY <2>1
  <2>3. TypeOK'
    BY <2>1, <2>2 DEF Shape, TypeOK
  <2>4. Unmade' /\ Held'
    BY <2>1 DEF Shape, Unmade, Held, Connection
  <2> QED  BY <2>3, <2>4 DEF Shape
<1>3. CASE ConnectFails
  BY <1>3 DEF Shape, TypeOK, Unmade, Held, ConnectFails, Goto, net
<1>4. CASE Subscribe
  <2>1. TrySend("subscribe", "start")
    BY <1>4 DEF Subscribe
  <2> QED  BY <1>4, <2>1, TrySendShape DEF Shape, TypeOK, Unmade, Held, Subscribe
<1>5. CASE OnConnect
  <2>1. PICK next \in {"clear", "recv"} : TrySend("start", next)
    BY <1>5 DEF OnConnect
  <2> QED  BY <1>5, <2>1, TrySendShape DEF Shape, TypeOK, Unmade, Held, OnConnect
<1>6. CASE FirstClear
  <2>1. TrySend("clear", "recv")
    BY <1>6 DEF FirstClear
  <2> QED  BY <1>6, <2>1, TrySendShape DEF Shape, TypeOK, Unmade, Held, FirstClear
<1>7. CASE Receive
  <2>1. down \in Seq(Batch) /\ down # <<>> /\ shown \in Batch
    BY <1>7 DEF Receive, Shape, TypeOK
  <2>2. Head(down) \in Batch /\ Tail(down) \in Seq(Batch)
    BY <2>1, HeadTailProperties
  <2>3. shown \o Head(down) \in Batch
    BY <2>1, <2>2, ConcatProperties DEF Batch
  <2> QED  BY <1>7, <2>2, <2>3 DEF Shape, TypeOK, Unmade, Held, Receive
<1>8. CASE ReceiveEnds
  BY <1>8 DEF Shape, TypeOK, Unmade, Held, ReceiveEnds, Goto, net
<1>9. CASE Close
  BY <1>1, <1>9 DEF Shape, TypeOK, Unmade, Held, Close, Goto
<1>10. CASE Sleep
  BY <1>10 DEF Shape, TypeOK, Unmade, Held, Sleep, Goto, net
<1>11. CASE Cancelled
  BY <1>11 DEF Shape, TypeOK, Unmade, Held, Cancelled, Goto, net
<1> QED  BY <1>2, <1>3, <1>4, <1>5, <1>6, <1>7, <1>8, <1>9, <1>10, <1>11 DEF Main

\* The steps of the loop's other coroutines.
LEMMA CoroutineShape == Shape /\ Coroutine => Shape'
<1> SUFFICES ASSUME Shape, Coroutine  PROVE Shape'
  OBVIOUS
<1> USE ConstantsAssumption DEF ConstantsAssumption, pushes, samplers, buffer
<1>1. CASE ClearCall
  <2>1. /\ clearing' = FALSE
        /\ UNCHANGED <<session, thread, stopping, shutdown, cancel, cleared, shown,
                       ws, nconn, live, down, pushes, samplers, buffer>>
    BY <1>1 DEF ClearCall
  <2>2. /\ up' \in [Connection -> Seq({"subscribe", "start", "clear", "stop"})]
        /\ \A k \in Connection : k > nconn => up'[k] = up[k]
    <3>1. CASE Open /\ Send(ws, "clear")
      BY <3>1, SendShape
    <3>2. CASE UNCHANGED up
      BY <3>2 DEF Shape, TypeOK
    <3> QED  BY <1>1, <3>1, <3>2 DEF ClearCall
  <2>3. clearing' \in BOOLEAN
    BY <2>1
  <2>4. TypeOK'
    BY <2>1, <2>2, <2>3 DEF Shape, TypeOK
  <2>5. Unmade' /\ Held'
    BY <2>1, <2>2 DEF Shape, TypeOK, Unmade, Held
  <2> QED  BY <2>4, <2>5 DEF Shape
<1>2. CASE FinalCall
  <2>1. CASE Open /\ Send(ws, "stop")
    BY <1>2, <2>1, SendShape DEF Shape, TypeOK, Unmade, Held, FinalCall
  <2>2. CASE UNCHANGED up
    BY <1>2, <2>2 DEF Shape, TypeOK, Unmade, Held, FinalCall
  <2> QED  BY <1>2, <2>1, <2>2 DEF FinalCall
<1>3. CASE CloseSocket
  BY <1>3 DEF Shape, TypeOK, Unmade, Held, CloseSocket
<1>4. CASE CancelMain
  BY <1>4 DEF Shape, TypeOK, Unmade, Held, CancelMain, net
<1> QED  BY <1>1, <1>2, <1>3, <1>4 DEF Coroutine

\* A sequence cut short is still one.
LEMMA CutShort ==
  ASSUME NEW S, NEW s \in Seq(S), NEW n \in 0..Len(s)
  PROVE  /\ SubSeq(s, 1, n) \in Seq(S) /\ Len(SubSeq(s, 1, n)) = n
         /\ \A i \in 1..n : SubSeq(s, 1, n)[i] = s[i]
<1>1. Len(s) \in Nat
  BY LenProperties
<1>2. n \in Int /\ \A i \in 1..n : s[i] \in S
  BY <1>1, ElementOfSeq
<1>3. /\ SubSeq(s, 1, n) \in Seq(S)
      /\ Len(SubSeq(s, 1, n)) = IF 1 <= n THEN n - 1 + 1 ELSE 0
      /\ \A i \in 1 .. n - 1 + 1 : SubSeq(s, 1, n)[i] = s[1 + i - 1]
  BY <1>2, SubSeqProperties
<1>4. n - 1 + 1 = n /\ (\A i \in 1..n : 1 + i - 1 = i) /\ (~(1 <= n) => n = 0)
  BY <1>1
<1> QED  BY <1>3, <1>4

\* What the network and a restart of the server do.
LEMMA NetworkShape == Shape /\ (DropConnection \/ Restart) => Shape'
<1> SUFFICES ASSUME Shape, DropConnection \/ Restart  PROVE Shape'
  OBVIOUS
<1> USE ConstantsAssumption DEF ConstantsAssumption
<1> DEFINE Calls == Seq({"subscribe", "start", "clear", "stop"})
<1>1. /\ <<>> \in Batch /\ <<>> \in Calls /\ Len(<<>>) = 0 /\ 0 \in 0..MaxConns
      /\ 0 \in 0..MaxPending
  BY EmptySeq DEF Batch
<1>2. down \in Seq(Batch)
  BY DEF Shape, TypeOK
<1>3. \A n \in 0..Len(down) : SubSeq(down, 1, n) \in Seq(Batch)
  BY <1>2, CutShort
<1>4. CASE DropConnection
  <2>1. PICK n \in 0..Len(up[nconn]) : up' = [up EXCEPT ![nconn] = SubSeq(up[nconn], 1, n)]
    BY <1>4 DEF DropConnection
  <2>2. up' \in [Connection -> Calls]
    <3>1. CASE nconn \in Connection
      <4>1. up[nconn] \in Calls
        BY <3>1 DEF Shape, TypeOK
      <4>2. SubSeq(up[nconn], 1, n) \in Calls
        BY <4>1, CutShort
      <4> HIDE DEF Calls
      <4> QED  BY <2>1, <4>2 DEF Shape, TypeOK, Calls
    <3>2. CASE nconn \notin Connection
      BY <2>1, <3>2 DEF Shape, TypeOK
    <3> QED  BY <3>1, <3>2
  <2>3. \A k \in Connection : k > nconn => up'[k] = up[k]
    <3>1. nconn \in Nat /\ up \in [Connection -> Calls]
      BY DEF Shape, TypeOK
    <3> QED  BY <2>1, <3>1 DEF Connection
  <2>4. live' = FALSE /\ UNCHANGED <<client, ws, nconn, pushes, samplers, buffer>>
        /\ down' \in Seq(Batch)
    BY <1>3, <1>4 DEF DropConnection
  <2>5. TypeOK'
    <3>1. live' \in BOOLEAN
      BY <2>4
    <3> QED  BY <2>2, <2>4, <3>1 DEF Shape, TypeOK, client, pushes, samplers, buffer
  <2>6. Unmade' /\ Held'
    BY <2>3, <2>4 DEF Shape, TypeOK, Unmade, Held, client, pushes, samplers, buffer
  <2> QED  BY <2>5, <2>6 DEF Shape
<1>5. CASE Restart
  <2>1. /\ live' = FALSE /\ running' = FALSE /\ pending' = <<>> /\ down' \in Seq(Batch)
        /\ UNCHANGED <<client, ws, nconn, epoch, count>>
    BY <1>3, <1>5 DEF Restart
  <2>2. /\ up' = [k \in Connection |-> <<>>] /\ held' = [k \in Connection |-> <<>>]
        /\ prev' = [k \in Connection |-> 0] /\ stopCh' = [s \in Sampler |-> 0]
        /\ loop' = [k \in Connection |-> IF loop[k] = "none" THEN "none" ELSE "ended"]
        /\ sampler' = [s \in Sampler |-> IF sampler[s] = "none" THEN "none" ELSE "ended"]
    BY <1>5 DEF Restart
  <2>3. /\ up' \in [Connection -> Calls] /\ held' \in [Connection -> Batch]
        /\ prev' \in [Connection -> 0..MaxPending] /\ stopCh' \in [Sampler -> 0..MaxConns]
        /\ loop' \in [Connection -> {"none", "wait", "write", "ended"}]
        /\ sampler' \in [Sampler -> {"none", "go", "select", "ended"}]
    BY <1>1, <2>2
  <2>4. pending' \in Batch /\ Len(pending') <= MaxPending
    BY <1>1, <2>1
  <2>5. TypeOK'
    BY <2>1, <2>3, <2>4 DEF Shape, TypeOK, client
  <2>6. Unmade' /\ Held'
    BY <1>1, <2>1, <2>2 DEF Shape, Unmade, Held
  <2> QED  BY <2>5, <2>6 DEF Shape
<1> QED  BY <1>4, <1>5

\* The calls a connection's reader serves, and the end of its push loop.
LEMMA ServeShape ==
  ASSUME Shape, NEW k \in Connection, Serve(k) \/ Hangup(k)
  PROVE  Shape'
<1> USE ConstantsAssumption DEF ConstantsAssumption
<1> DEFINE Calls == Seq({"subscribe", "start", "clear", "stop"})
<1>1. /\ <<>> \in Batch /\ Len(<<>>) = 0 /\ 0 \in 0..MaxPending
  BY EmptySeq DEF Batch
<1>2. ASSUME up[k] # <<>>, up' = [up EXCEPT ![k] = Tail(up[k])]
      PROVE  /\ up' \in [Connection -> Calls]
             /\ \A c \in Connection : c > nconn => c # k /\ up'[c] = up[c]
  <2>1. up \in [Connection -> Calls]
    BY DEF Shape, TypeOK
  <2>2. Tail(up[k]) \in Calls
    BY <1>2, <2>1, HeadTailProperties
  <2>3. \A c \in Connection : c > nconn => c # k
    BY <1>2 DEF Shape, Unmade
  <2> QED  BY <1>2, <2>1, <2>2, <2>3
<1>3. CASE ServeSubscribe(k)
  <2>1. loop' = [loop EXCEPT ![k] = "wait"]
        /\ UNCHANGED <<client, ws, nconn, live, down, held, prev, samplers, buffer>>
    BY <1>3 DEF ServeSubscribe
  <2>2. /\ up' \in [Connection -> Calls]
        /\ \A c \in Connection : c > nconn => c # k /\ up'[c] = up[c]
    BY <1>2, <1>3 DEF ServeSubscribe
  <2>3. TypeOK'
    <3>1. loop' \in [Connection -> {"none", "wait", "write", "ended"}]
      BY <2>1 DEF Shape, TypeOK
    <3> QED  BY <2>1, <2>2, <3>1 DEF Shape, TypeOK, client, samplers, buffer
  <2>4. Unmade' /\ Held'
    BY <2>1, <2>2 DEF Shape, TypeOK, Unmade, Held
  <2> QED  BY <2>3, <2>4 DEF Shape
<1>4. CASE ServeStart(k)
  <2>1. UNCHANGED <<client, ws, nconn, live, down, pushes, buffer>>
    BY <1>4 DEF ServeStart
  <2>2. /\ up' \in [Connection -> Calls]
        /\ \A c \in Connection : c > nconn => c # k /\ up'[c] = up[c]
    BY <1>2, <1>4 DEF ServeStart
  <2>3. /\ running' \in BOOLEAN /\ epoch' \in 0..MaxConns
        /\ sampler' \in [Sampler -> {"none", "go", "select", "ended"}]
        /\ stopCh' \in [Sampler -> 0..MaxConns]
    <3>1. CASE running
      BY <1>4, <3>1 DEF ServeStart, Shape, TypeOK, samplers
    <3>2. CASE ~running
      <4>1. /\ epoch < MaxConns /\ running' = TRUE /\ epoch' = epoch + 1
            /\ sampler' = [sampler EXCEPT ![epoch'] = "go"] /\ UNCHANGED stopCh
        BY <1>4, <3>2 DEF ServeStart
      <4>2. epoch' \in 0..MaxConns
        BY <4>1 DEF Shape, TypeOK
      <4> QED  BY <4>1, <4>2 DEF Shape, TypeOK
    <3> QED  BY <3>1, <3>2
  <2>4. TypeOK'
    BY <2>1, <2>2, <2>3 DEF Shape, TypeOK, client, pushes, buffer
  <2>5. Unmade' /\ Held'
    BY <2>1, <2>2 DEF Shape, TypeOK, Unmade, Held, pushes
  <2> QED  BY <2>4, <2>5 DEF Shape
<1>5. CASE ServeStop(k)
  <2>1. running' = FALSE
        /\ UNCHANGED <<client, ws, nconn, live, down, pushes, epoch, sampler, stopCh, buffer>>
    BY <1>5 DEF ServeStop
  <2>2. /\ up' \in [Connection -> Calls]
        /\ \A c \in Connection : c > nconn => c # k /\ up'[c] = up[c]
    BY <1>2, <1>5 DEF ServeStop
  <2>3. TypeOK'
    <3>1. running' \in BOOLEAN
      BY <2>1
    <3> QED  BY <2>1, <2>2, <3>1 DEF Shape, TypeOK, client, pushes, buffer
  <2>4. Unmade' /\ Held'
    BY <2>1, <2>2 DEF Shape, TypeOK, Unmade, Held, pushes
  <2> QED  BY <2>3, <2>4 DEF Shape
<1>6. CASE ServeClear(k)
  <2>1. pending' = <<>>
        /\ UNCHANGED <<client, ws, nconn, live, down, pushes, samplers, count>>
    BY <1>6 DEF ServeClear
  <2>2. /\ up' \in [Connection -> Calls]
        /\ \A c \in Connection : c > nconn => c # k /\ up'[c] = up[c]
    BY <1>2, <1>6 DEF ServeClear
  <2>3. pending' \in Batch /\ Len(pending') <= MaxPending
    BY <1>1, <2>1
  <2>4. TypeOK'
    BY <2>1, <2>2, <2>3 DEF Shape, TypeOK, client, pushes, samplers
  <2>5. Unmade' /\ Held'
    BY <2>1, <2>2 DEF Shape, TypeOK, Unmade, Held, pushes
  <2> QED  BY <2>4, <2>5 DEF Shape
<1>7. CASE Hangup(k)
  <2>1. /\ loop[k] \in {"wait", "write"} /\ loop' = [loop EXCEPT ![k] = "ended"]
        /\ held' = [held EXCEPT ![k] = <<>>] /\ prev' = [prev EXCEPT ![k] = 0]
        /\ UNCHANGED <<client, net, samplers, buffer>>
    BY <1>7 DEF Hangup
  <2>2. /\ held' \in [Connection -> Batch] /\ prev' \in [Connection -> 0..MaxPending]
        /\ loop' \in [Connection -> {"none", "wait", "write", "ended"}]
    BY <1>1, <2>1 DEF Shape, TypeOK
  <2>3. TypeOK'
    BY <2>1, <2>2 DEF Shape, TypeOK, client, net, samplers, buffer
  <2>4. Unmade' /\ Held'
    BY <1>1, <2>1 DEF Shape, TypeOK, Unmade, Held, net
  <2> QED  BY <2>3, <2>4 DEF Shape
<1> QED  BY <1>3, <1>4, <1>5, <1>6, <1>7 DEF Serve

\* The steps of a push loop.
LEMMA PushShape ==
  ASSUME Shape, NEW k \in Connection, Push(k)
  PROVE  Shape'
<1> USE ConstantsAssumption DEF ConstantsAssumption
<1>1. /\ <<>> \in Batch /\ Len(<<>>) = 0 /\ 0 \in 0..MaxPending
  BY EmptySeq DEF Batch
<1>2. loop[k] # "none" => \A c \in Connection : c > nconn => c # k
  BY DEF Shape, Unmade
<1>3. CASE Drain(k)
  <2>1. /\ loop[k] = "wait" /\ pending' = <<>>
        /\ UNCHANGED <<client, net, prev, samplers, count>>
    BY <1>3 DEF Drain
  <2>2. pending' \in Batch /\ Len(pending') <= MaxPending
    BY <1>1, <2>1
  <2>3. \/ UNCHANGED <<loop, held>>
        \/ loop' = [loop EXCEPT ![k] = "write"] /\ held' = [held EXCEPT ![k] = pending]
    BY <1>3 DEF Drain
  <2>4. /\ held' \in [Connection -> Batch]
        /\ loop' \in [Connection -> {"none", "wait", "write", "ended"}]
    <3>1. /\ pending \in Batch /\ held \in [Connection -> Batch]
          /\ loop \in [Connection -> {"none", "wait", "write", "ended"}]
      BY DEF Shape, TypeOK
    <3> QED  BY <2>3, <3>1
  <2>5. TypeOK'
    BY <2>1, <2>2, <2>4 DEF Shape, TypeOK, client, net, samplers
  <2>6. Held'
    BY <2>3 DEF Shape, TypeOK, Held
  <2>7. Unmade'
    BY <1>2, <2>1, <2>3 DEF Shape, TypeOK, Unmade, net
  <2> QED  BY <2>5, <2>6, <2>7 DEF Shape
<1>4. CASE Write(k)
  <2>1. /\ loop[k] = "write" /\ held' = [held EXCEPT ![k] = <<>>]
        /\ UNCHANGED <<client, ws, nconn, live, up, samplers, buffer>>
    BY <1>4 DEF Write
  <2>2. /\ loop' \in {[loop EXCEPT ![k] = "wait"], [loop EXCEPT ![k] = "ended"]}
        /\ prev' \in {[prev EXCEPT ![k] = Len(held[k])], [prev EXCEPT ![k] = 0]}
        /\ down' \in {down, Append(down, held[k])}
    BY <1>4 DEF Write
  <2>3. Len(held[k]) \in 0..MaxPending /\ held[k] \in Batch
    <3>1. held[k] \in Batch
      BY DEF Shape, TypeOK
    <3>2. Len(held[k]) \in Nat
      BY <3>1, LenProperties DEF Batch
    <3> QED  BY <3>1, <3>2 DEF Shape, Held
  <2>4. /\ prev' \in [Connection -> 0..MaxPending] /\ held' \in [Connection -> Batch]
        /\ loop' \in [Connection -> {"none", "wait", "write", "ended"}]
    <3>1. /\ held \in [Connection -> Batch] /\ prev \in [Connection -> 0..MaxPending]
          /\ loop \in [Connection -> {"none", "wait", "write", "ended"}]
      BY DEF Shape, TypeOK
    <3> QED  BY <1>1, <2>1, <2>2, <2>3, <3>1
  <2>5. down' \in Seq(Batch)
    <3>1. down \in Seq(Batch)
      BY DEF Shape, TypeOK
    <3>2. Append(down, held[k]) \in Seq(Batch)
      BY <2>3, <3>1, AppendProperties
    <3> QED  BY <2>2, <3>1, <3>2
  <2>6. TypeOK'
    BY <2>1, <2>4, <2>5 DEF Shape, TypeOK, client, samplers, buffer
  <2>7. Held'
    BY <1>1, <2>1 DEF Shape, TypeOK, Held
  <2>8. Unmade'
    BY <1>2, <2>1, <2>2 DEF Shape, TypeOK, Unmade
  <2> QED  BY <2>6, <2>7, <2>8 DEF Shape
<1> QED  BY <1>3, <1>4 DEF Push

\* The buffer after a sample: the new one follows what has been kept.
LEMMA AppendPointInOrder ==
  ASSUME Shape, Increasing(pending), UpTo(pending, count), count < MaxLog
  PROVE  LET p == AppendPoint(count + 1)
         IN  /\ p \in Batch /\ Len(p) <= MaxPending
             /\ Increasing(p) /\ UpTo(p, count + 1)
             /\ \A u \in Batch : UpTo(u, count) /\ Before(u, pending) => Before(u, p)
<1> DEFINE kept == IF Len(pending) >= MaxPending
                   THEN SubSeq(pending, Drop + 1, Len(pending)) ELSE pending
<1>1. /\ count \in Nat /\ count + 1 \in 1..MaxLog /\ pending \in Batch
      /\ Len(pending) \in Nat /\ Len(pending) <= MaxPending
      /\ MaxPending \in Nat /\ Drop \in 1..MaxPending
  BY ConstantsAssumption, LenProperties DEF ConstantsAssumption, Shape, TypeOK, Batch
<1>2. /\ kept \in Batch /\ Len(kept) < MaxPending /\ Len(kept) \in Nat
      /\ Increasing(kept) /\ UpTo(kept, count)
      /\ \A u : Before(u, pending) => Before(u, kept)
  <2>1. CASE Len(pending) >= MaxPending
    <3>1. Drop \in Nat /\ Drop <= Len(pending) /\ Drop >= 1
      BY <1>1, <2>1
    <3>2. CASE Drop < Len(pending)
      <4>1. /\ kept \in Batch /\ Len(kept) = Len(pending) - Drop
            /\ Increasing(kept) /\ UpTo(kept, count)
            /\ \A u : Before(u, pending) => Before(u, kept)
        BY <1>1, <2>1, <3>1, <3>2, RestInOrder
      <4> QED  BY <4>1, <1>1, <3>1, <3>2
    <3>3. CASE Drop = Len(pending)
      <4>1. kept = <<>>
        BY <1>1, <2>1, <3>1, <3>3, SubSeqEmpty
      <4>2. <<>> \in Batch /\ Len(<<>>) = 0
        BY EmptySeq DEF Batch
      <4>3. \A u : Before(u, <<>>)
        BY EmptyInOrder
      <4>4. Increasing(<<>>) /\ UpTo(<<>>, count)
        BY EmptyInOrder
      <4>5. 0 < MaxPending /\ 0 \in Nat
        BY <1>1
      <4> HIDE DEF kept
      <4> QED  BY <4>1, <4>2, <4>3, <4>4, <4>5
    <3> QED  BY <1>1, <3>1, <3>2, <3>3
  <2>2. CASE Len(pending) < MaxPending
    BY <1>1, <2>2
  <2> QED  BY <1>1, <2>1, <2>2
<1>3. AppendPoint(count + 1) = Append(kept, count + 1)
  BY DEF AppendPoint
<1> HIDE DEF kept
<1>4. /\ Append(kept, count + 1) \in Batch /\ Len(Append(kept, count + 1)) = Len(kept) + 1
      /\ Increasing(Append(kept, count + 1)) /\ UpTo(Append(kept, count + 1), count + 1)
      /\ \A u \in Batch : UpTo(u, count) /\ Before(u, kept)
                              => Before(u, Append(kept, count + 1))
  BY <1>1, <1>2, AppendInOrder
<1>5. Len(kept) + 1 <= MaxPending
  BY <1>1, <1>2
<1> QED  BY <1>2, <1>3, <1>4, <1>5

-----------------------------------------------------------------------------
(* The order of the samples.                                                 *)

\* What has left for the plot comes before what a live connection's push loop
\* holds, and before what is still in the buffer.
Sent(s) ==
    /\ Increasing(s) /\ UpTo(s, count) /\ Before(s, pending)
    /\ \A k \in Connection : Alive(k) => Before(s, held[k])

Plotted == Sent(shown)

UnderWay ==
    /\ \A n \in DOMAIN down : Sent(down[n]) /\ Before(shown, down[n])
    /\ \A m, n \in DOMAIN down : m < n => Before(down[m], down[n])

Taken ==
    \A k \in Connection : /\ Increasing(held[k]) /\ UpTo(held[k], count)
                          /\ Before(held[k], pending)

Buffered == Increasing(pending) /\ UpTo(pending, count)

Order == Plotted /\ UnderWay /\ Taken /\ Buffered

LEMMA InitOrder == Init => Order
<1>1. /\ DOMAIN <<>> = {}
      /\ \A t : Increasing(<<>>) /\ Before(<<>>, t) /\ Before(t, <<>>) /\ UpTo(<<>>, t)
  BY EmptyInOrder
<1> QED  BY <1>1 DEF Init, Order, Plotted, UnderWay, Taken, Buffered, Sent

\* The same of the next state.
SentNext(s) ==
    /\ Increasing(s) /\ UpTo(s, count') /\ Before(s, pending')
    /\ \A k \in Connection : Alive(k)' => Before(s, held'[k])

LEMMA OrderNext ==
  /\ SentNext(shown') => Plotted'
  /\ (/\ \A n \in DOMAIN down' : SentNext(down'[n]) /\ Before(shown', down'[n])
      /\ \A m, n \in DOMAIN down' : m < n => Before(down'[m], down'[n])) => UnderWay'
BY DEF SentNext, Sent, Plotted, UnderWay

\* A step that adds nothing to the plot, to what is under way or to the buffer,
\* and at most empties some of them or loses the connection.
LEMMA LossOrder ==
  ASSUME Shape, Order,
         shown' \in {shown, <<>>}, pending' \in {pending, <<>>}, UNCHANGED count,
         \A k \in Connection : held'[k] \in {held[k], <<>>},
         \A k \in Connection : Alive(k)' => Alive(k) \/ held'[k] = <<>>,
         DOMAIN down' \subseteq DOMAIN down, \A n \in DOMAIN down' : down'[n] = down[n]
  PROVE  Order'
<1>1. \A t : Increasing(<<>>) /\ Before(<<>>, t) /\ Before(t, <<>>) /\ UpTo(<<>>, t)
  BY EmptyInOrder
<1>2. ASSUME NEW s, Sent(s)  PROVE Sent(s)'
  <2>1. Increasing(s) /\ UpTo(s, count') /\ Before(s, pending')
    BY <1>1, <1>2 DEF Sent
  <2>2. \A k \in Connection : Alive(k)' => Before(s, held'[k])
    BY <1>1, <1>2 DEF Sent
  <2> QED  BY <2>1, <2>2 DEF Sent
<1>3. Plotted'
  BY <1>1, <1>2 DEF Order, Plotted, Sent
<1>4. UnderWay'
  BY <1>1, <1>2 DEF Order, UnderWay, Sent
<1>5. Taken' /\ Buffered'
  BY <1>1 DEF Order, Taken, Buffered
<1> QED  BY <1>3, <1>4, <1>5 DEF Order

\* What is received was ahead of what is still under way.
LEMMA ReceiveOrder == Shape /\ Order /\ Receive => Order'
<1> SUFFICES ASSUME Shape, Order, Receive  PROVE Order'
  OBVIOUS
<1>1. /\ down # <<>> /\ shown' = shown \o Head(down) /\ down' = Tail(down)
      /\ UNCHANGED <<nconn, live, held, pending, count>>
  BY DEF Receive, pushes, buffer
<1>2. down \in Seq(Batch) /\ shown \in Batch
  BY DEF Shape, TypeOK
<1>3. /\ Len(down) \in Nat \ {0} /\ DOMAIN down = 1..Len(down) /\ Head(down) = down[1]
      /\ DOMAIN Tail(down) = 1 .. Len(down) - 1
      /\ \A n \in 1 .. Len(down) - 1 : Tail(down)[n] = down[n + 1]
      /\ down[1] \in Batch
  BY <1>1, <1>2, HeadTailProperties, LenProperties, EmptySeq
<1>4. 1 \in DOMAIN down /\ \A n \in DOMAIN down' : n + 1 \in DOMAIN down /\ 1 < n + 1
                                                     /\ down'[n] = down[n + 1]
  BY <1>1, <1>3
<1>5. \A s : Sent(s) => SentNext(s)
  BY <1>1 DEF Sent, SentNext, Alive
<1>6. Sent(shown) /\ Sent(down[1]) /\ Before(shown, down[1])
  BY <1>4 DEF Order, Plotted, UnderWay
<1>7. /\ Increasing(shown \o down[1]) /\ UpTo(shown \o down[1], count)
      /\ \A u : Before(shown, u) /\ Before(down[1], u) => Before(shown \o down[1], u)
  BY <1>2, <1>3, <1>6, ConcatInOrder DEF Sent
<1>8. Plotted'
  <2>1. Sent(shown \o down[1])
    BY <1>6, <1>7 DEF Sent
  <2>2. shown' = shown \o down[1]
    BY <1>1, <1>3
  <2> QED  BY <1>5, <2>1, <2>2, OrderNext
<1>9. UnderWay'
  <2>1. ASSUME NEW n \in DOMAIN down'  PROVE SentNext(down'[n]) /\ Before(shown', down'[n])
    <3>1. Sent(down[n + 1]) /\ Before(shown, down[n + 1]) /\ Before(down[1], down[n + 1])
      BY <1>4 DEF Order, UnderWay
    <3>2. Before(shown', down'[n])
      BY <1>1, <1>3, <1>4, <1>7, <3>1
    <3>3. SentNext(down'[n])
      BY <1>4, <1>5, <3>1
    <3> QED  BY <3>2, <3>3
  <2>2. ASSUME NEW m \in DOMAIN down', NEW n \in DOMAIN down', m < n
        PROVE  Before(down'[m], down'[n])
    <3>1. m + 1 < n + 1
      BY <2>2, <1>1, <1>3
    <3> QED  BY <3>1, <1>4 DEF Order, UnderWay
  <2> QED  BY <2>1, <2>2, OrderNext
<1>10. Taken' /\ Buffered'
  BY <1>1 DEF Order, Taken, Buffered
<1> QED  BY <1>8, <1>9, <1>10 DEF Order

\* What is drained follows all that was sent, and precedes what will be sampled.
LEMMA DrainOrder ==
  ASSUME Shape, Order, NEW k \in Connection, Drain(k)
  PROVE  Order'
<1>1. /\ pending' = <<>> /\ UNCHANGED <<shown, nconn, live, down, count>>
      /\ held' \in {held, [held EXCEPT ![k] = pending]}
      /\ held \in [Connection -> Batch]
  BY DEF Drain, client, net, Shape, TypeOK
<1>2. \A c \in Connection : held'[c] \in {held[c], pending}
  BY <1>1
<1>3. \A t : Increasing(<<>>) /\ Before(<<>>, t) /\ Before(t, <<>>) /\ UpTo(<<>>, t)
  BY EmptyInOrder
<1>4. ASSUME NEW s, Sent(s)  PROVE Sent(s)'
  <2>1. Before(s, pending') /\ Increasing(s) /\ UpTo(s, count')
    BY <1>1, <1>3, <1>4 DEF Sent
  <2>2. \A c \in Connection : Alive(c)' => Before(s, held'[c])
    BY <1>1, <1>2, <1>4 DEF Sent, Alive
  <2> QED  BY <2>1, <2>2 DEF Sent
<1>5. Plotted'
  BY <1>1, <1>4 DEF Order, Plotted, Sent
<1>6. UnderWay'
  BY <1>1, <1>4 DEF Order, UnderWay, Sent
<1>7. Taken' /\ Buffered'
  BY <1>1, <1>2, <1>3 DEF Order, Taken, Buffered
<1> QED  BY <1>5, <1>6, <1>7 DEF Order

\* What is written follows what was written before.
LEMMA WriteOrder ==
  ASSUME Shape, Order, NEW k \in Connection, Write(k)
  PROVE  Order'
<1>1. /\ held' = [held EXCEPT ![k] = <<>>] /\ UNCHANGED <<shown, nconn, live, pending, count>>
      /\ down' = down \/ (Alive(k) /\ down' = Append(down, held[k]))
      /\ held \in [Connection -> Batch] /\ down \in Seq(Batch)
  BY DEF Write, client, buffer, Shape, TypeOK
<1>2. \A c \in Connection : held'[c] \in {held[c], <<>>}
  BY <1>1
<1>3. \A t : Increasing(<<>>) /\ Before(<<>>, t) /\ Before(t, <<>>) /\ UpTo(<<>>, t)
  BY EmptyInOrder
<1>4. CASE down' = down
  BY <1>1, <1>2, <1>4, LossOrder DEF Alive
<1>5. CASE Alive(k) /\ down' = Append(down, held[k])
  <2>1. /\ Len(down) \in Nat /\ DOMAIN down = 1..Len(down)
        /\ DOMAIN down' = 1 .. Len(down) + 1
        /\ \A n \in 1..Len(down) : down'[n] = down[n]
        /\ down'[Len(down) + 1] = held[k]
    BY <1>1, <1>5, AppendProperties, LenProperties
  <2>2. ASSUME NEW s, Sent(s)  PROVE SentNext(s) /\ Before(s, held[k])
    <3>1. Before(s, held[k]) /\ Before(s, pending') /\ Increasing(s) /\ UpTo(s, count')
      BY <1>1, <1>5, <2>2 DEF Sent
    <3>2. \A c \in Connection : Alive(c)' => Before(s, held'[c])
      BY <1>1, <1>2, <1>3, <2>2 DEF Sent, Alive
    <3> QED  BY <3>1, <3>2 DEF SentNext
  <2>3. SentNext(held[k])
    <3>1. /\ Increasing(held[k]) /\ UpTo(held[k], count') /\ Before(held[k], pending')
      BY <1>1 DEF Order, Taken
    <3>2. \A c \in Connection : Alive(c)' => held'[c] = <<>>
      BY <1>1, <1>5 DEF Alive
    <3>3. \A c \in Connection : Alive(c)' => Before(held[k], held'[c])
      BY <1>3, <3>2
    <3> QED  BY <3>1, <3>3 DEF SentNext
  <2>4. Plotted'
    <3>1. SentNext(shown)
      BY <2>2 DEF Order, Plotted
    <3>2. shown' = shown
      BY <1>1
    <3> QED  BY <3>1, <3>2, OrderNext
  <2>5. \A n \in DOMAIN down' : \/ n \in DOMAIN down /\ down'[n] = down[n] /\ n <= Len(down)
                                \/ n = Len(down) + 1 /\ down'[n] = held[k]
    BY <2>1
  <2>6. ASSUME NEW n \in DOMAIN down'  PROVE SentNext(down'[n]) /\ Before(shown', down'[n])
    <3>1. CASE n \in DOMAIN down /\ down'[n] = down[n]
      <4>1. SentNext(down[n]) /\ Before(shown, down[n])
        BY <2>2, <3>1 DEF Order, UnderWay
      <4>2. shown' = shown
        BY <1>1
      <4> QED  BY <3>1, <4>1, <4>2
    <3>2. CASE down'[n] = held[k]
      <4>1. Before(shown, held[k])
        BY <2>2 DEF Order, Plotted
      <4>2. shown' = shown
        BY <1>1
      <4> QED  BY <2>3, <3>2, <4>1, <4>2
    <3> QED  BY <2>5, <3>1, <3>2
  <2>7. ASSUME NEW m \in DOMAIN down', NEW n \in DOMAIN down', m < n
        PROVE  Before(down'[m], down'[n])
    <3>1. m \in DOMAIN down /\ down'[m] = down[m]
      BY <2>1, <2>7
    <3>2. CASE n \in DOMAIN down /\ down'[n] = down[n]
      BY <2>7, <3>1, <3>2 DEF Order, UnderWay
    <3>3. CASE down'[n] = held[k]
      BY <2>2, <3>1, <3>3 DEF Order, UnderWay
    <3> QED  BY <2>5, <3>2, <3>3
  <2>8. UnderWay'
    BY <2>6, <2>7, OrderNext
  <2>9. Taken' /\ Buffered'
    BY <1>1, <1>2, <1>3 DEF Order, Taken, Buffered
  <2> QED  BY <2>4, <2>8, <2>9 DEF Order
<1> QED  BY <1>1, <1>4, <1>5

\* A sample follows all that were taken before it, wherever they are.
LEMMA SampleOrder ==
  ASSUME Shape, Order, NEW s \in Sampler, Sample(s)
  PROVE  Order' /\ pending' \in Batch /\ Len(pending') <= MaxPending /\ count' \in 0..MaxLog
<1>1. /\ UNCHANGED <<shown, nconn, live, down, held>>
      /\ held \in [Connection -> Batch] /\ down \in Seq(Batch) /\ shown \in Batch
  BY DEF Sample, client, net, pushes, Shape, TypeOK
<1>2. CASE UNCHANGED buffer
  <2>1. UNCHANGED <<pending, count>>
    BY <1>2 DEF buffer
  <2>2. Order'
    BY <1>1, <2>1, LossOrder DEF Alive
  <2> QED  BY <2>1, <2>2 DEF Shape, TypeOK
<1>3. CASE count < MaxLog /\ count' = count + 1 /\ pending' = AppendPoint(count')
  <2>1. Increasing(pending) /\ UpTo(pending, count)
    BY DEF Order, Buffered
  <2>2. /\ pending' \in Batch /\ Len(pending') <= MaxPending
        /\ Increasing(pending') /\ UpTo(pending', count')
        /\ \A u \in Batch : UpTo(u, count) /\ Before(u, pending) => Before(u, pending')
    BY <1>3, <2>1, AppendPointInOrder
  <2>3. count \in Nat /\ count' \in 0..MaxLog
    BY <1>3, ConstantsAssumption DEF ConstantsAssumption, Shape, TypeOK
  <2>4. ASSUME NEW u \in Batch, UpTo(u, count)  PROVE UpTo(u, count')
    <3>1. \A i \in DOMAIN u : u[i] \in Nat
      <4>1. u \in Seq(1..MaxLog) /\ DOMAIN u = 1..Len(u)
        BY LenProperties DEF Batch
      <4>2. \A i \in 1..Len(u) : u[i] \in 1..MaxLog
        BY <4>1, ElementOfSeq
      <4>3. \A v \in 1..MaxLog : v \in Nat
        OBVIOUS
      <4> QED  BY <4>1, <4>2, <4>3
    <3>2. \A v \in Nat : v <= count => v <= count + 1
      BY <2>3
    <3> QED  BY <1>3, <2>4, <3>1, <3>2 DEF UpTo
  <2>5. ASSUME NEW u \in Batch, Sent(u)  PROVE SentNext(u)
    BY <1>1, <2>2, <2>4, <2>5 DEF Sent, SentNext, Alive
  <2>6. \A n \in DOMAIN down : down[n] \in Batch
    BY <1>1, LenProperties, ElementOfSeq
  <2>7. Plotted'
    <3>1. SentNext(shown) /\ shown' = shown
      BY <1>1, <2>5 DEF Order, Plotted
    <3> QED  BY <3>1, OrderNext
  <2>8. UnderWay'
    <3>1. down' = down /\ shown' = shown
      BY <1>1
    <3>2. \A n \in DOMAIN down : SentNext(down[n])
      BY <2>5, <2>6 DEF Order, UnderWay
    <3> QED  BY <3>1, <3>2, OrderNext DEF Order, UnderWay
  <2>9. Taken' /\ Buffered'
    BY <1>1, <2>2, <2>4 DEF Order, Taken, Buffered
  <2> QED  BY <2>2, <2>3, <2>7, <2>8, <2>9 DEF Order
<1> QED  BY <1>2, <1>3 DEF Sample

LEMMA SamplerInv ==
  ASSUME Shape, Order, NEW s \in Sampler, SampleStep(s)
  PROVE  Shape' /\ Order'
<1>1. /\ epoch \in 0..MaxConns /\ 0 \in 0..MaxConns /\ stopCh \in [Sampler -> 0..MaxConns]
      /\ sampler \in [Sampler -> {"none", "go", "select", "ended"}]
  BY ConstantsAssumption DEF ConstantsAssumption, Shape, TypeOK
<1>2. CASE ReadStopCh(s) \/ Ends(s)
  <2>1. UNCHANGED <<client, net, pushes, running, epoch, buffer>>
    BY <1>2 DEF ReadStopCh, Ends
  <2>2. /\ sampler' \in {[sampler EXCEPT ![s] = "select"], [sampler EXCEPT ![s] = "ended"]}
        /\ stopCh' \in {[stopCh EXCEPT ![s] = epoch], [stopCh EXCEPT ![s] = 0]}
    BY <1>2 DEF ReadStopCh, Ends
  <2>3. /\ sampler' \in [Sampler -> {"none", "go", "select", "ended"}]
        /\ stopCh' \in [Sampler -> 0..MaxConns]
    BY <1>1, <2>2
  <2>4. Shape'
    BY <2>1, <2>3 DEF Shape, TypeOK, Unmade, Held, client, net, pushes, buffer
  <2>5. Order'
    BY <2>1, LossOrder DEF client, net, pushes, buffer, Alive
  <2> QED  BY <2>4, <2>5
<1>3. CASE Sample(s)
  <2>1. Order' /\ pending' \in Batch /\ Len(pending') <= MaxPending /\ count' \in 0..MaxLog
    BY <1>3, SampleOrder
  <2>2. /\ UNCHANGED <<client, net, pushes, running, epoch, sampler>>
        /\ stopCh' = [stopCh EXCEPT ![s] = epoch]
    BY <1>3 DEF Sample
  <2>3. stopCh' \in [Sampler -> 0..MaxConns]
    BY <1>1, <2>2
  <2>4. Shape'
    BY <2>1, <2>2, <2>3 DEF Shape, TypeOK, Unmade, Held, client, net, pushes
  <2> QED  BY <2>1, <2>4
<1> QED  BY <1>2, <1>3 DEF SampleStep

-----------------------------------------------------------------------------
(* The theorems.                                                             *)

\* The steps of the client, and what the network does, only lose samples.
LEMMA ClientOrder ==
  ASSUME Shape, Order,
         Start \/ Stop \/ Clear \/ Connect \/ ConnectFails \/ Main \/ Coroutine
  PROVE  Order'
<1>1. down \in Seq(Batch) /\ DOMAIN <<>> = {}
  BY DEF Shape, TypeOK
<1>2. CASE Receive
  BY <1>2, ReceiveOrder
<1>3. CASE Connect
  <2>1. /\ nconn' = nconn + 1 /\ nconn \in Nat
        /\ UNCHANGED <<shown, down, held, pending, count>>
    BY <1>3 DEF Connect, Shape, TypeOK, pushes, buffer
  <2>2. \A k \in Connection : Alive(k)' => held'[k] = <<>>
    BY <2>1 DEF Alive, Shape, Unmade
  <2> QED  BY <2>1, <2>2, LossOrder
<1>4. CASE Start \/ Stop \/ Clear
  <2>1. shown' \in {shown, <<>>} /\ UNCHANGED <<nconn, live, down, held, pending, count>>
    BY <1>4 DEF Start, Stop, Clear, net, pushes, buffer
  <2> QED  BY <2>1, LossOrder DEF Alive
<1>5. CASE Close \/ CloseSocket
  <2>1. /\ UNCHANGED <<shown, nconn, held, pending, count>> /\ (live' => live)
        /\ down' \in {down, <<>>}
    BY <1>5 DEF Close, CloseSocket, pushes, buffer
  <2> QED  BY <1>1, <2>1, LossOrder DEF Alive
<1>6. CASE \/ ConnectFails \/ Subscribe \/ OnConnect \/ FirstClear \/ ReceiveEnds \/ Sleep
           \/ Cancelled \/ ClearCall \/ FinalCall \/ CancelMain
  <2>1. UNCHANGED <<shown, nconn, live, down, held, pending, count>>
    BY <1>6 DEF ConnectFails, Subscribe, OnConnect, FirstClear, ReceiveEnds, Sleep,
                Cancelled, ClearCall, FinalCall, CancelMain, net, pushes, buffer
  <2> QED  BY <2>1, LossOrder DEF Alive
<1> QED  BY <1>2, <1>3, <1>4, <1>5, <1>6 DEF Main, Coroutine

LEMMA ServerOrder ==
  ASSUME Shape, Order,
         \/ DropConnection \/ Restart
         \/ \E k \in Connection : Serve(k) \/ Hangup(k) \/ Push(k)
  PROVE  Order'
<1>1. CASE DropConnection \/ Restart
  <2>1. PICK n \in 0..Len(down) : down' = SubSeq(down, 1, n)
    BY <1>1 DEF DropConnection, Restart
  <2>2. down \in Seq(Batch) /\ DOMAIN down = 1..Len(down) /\ Len(down) \in Nat
    BY LenProperties DEF Shape, TypeOK
  <2>3. DOMAIN down' \subseteq DOMAIN down /\ \A i \in DOMAIN down' : down'[i] = down[i]
    <3>1. /\ down' \in Seq(Batch) /\ Len(down') = n /\ \A i \in 1..n : down'[i] = down[i]
      BY <2>1, <2>2, CutShort
    <3>2. DOMAIN down' = 1..n
      BY <3>1, LenProperties
    <3> QED  BY <2>2, <3>1, <3>2
  <2>4. /\ live' = FALSE /\ pending' \in {pending, <<>>} /\ UNCHANGED <<shown, count>>
        /\ held' \in {held, [k \in Connection |-> <<>>]}
    BY <1>1 DEF DropConnection, Restart, client, pushes, buffer
  <2> QED  BY <2>3, <2>4, LossOrder DEF Alive
<1>2. ASSUME NEW k \in Connection, Drain(k) \/ Write(k)  PROVE Order'
  BY <1>2, DrainOrder, WriteOrder
<1>3. ASSUME NEW k \in Connection, Serve(k) \/ Hangup(k)  PROVE Order'
  <2>1. /\ UNCHANGED <<shown, nconn, live, down, count>> /\ pending' \in {pending, <<>>}
        /\ held' \in {held, [held EXCEPT ![k] = <<>>]} /\ held \in [Connection -> Batch]
    BY <1>3 DEF Serve, ServeSubscribe, ServeStart, ServeStop, ServeClear, Hangup,
                client, net, pushes, buffer, Shape, TypeOK
  <2> QED  BY <2>1, LossOrder DEF Alive
<1> QED  BY <1>1, <1>2, <1>3 DEF Push

LEMMA StepInv == Shape /\ Order /\ [Next]_vars => (Shape /\ Order)'
<1> SUFFICES ASSUME Shape, Order, [Next]_vars  PROVE Shape' /\ Order'
  OBVIOUS
<1>1. CASE UNCHANGED vars
  <2>1. /\ UNCHANGED <<session, thread, stopping, shutdown, cancel, cleared, clearing, shown>>
        /\ UNCHANGED <<ws, nconn, live, up, down, loop, held, prev>>
        /\ UNCHANGED <<running, epoch, sampler, stopCh, pending, count>>
    BY <1>1 DEF vars, client, net, pushes, samplers, buffer
  <2>2. Shape'
    BY <2>1 DEF Shape, TypeOK, Unmade, Held
  <2>3. Order'
    BY <2>1, LossOrder DEF Alive
  <2> QED  BY <2>2, <2>3
<1>2. CASE Start \/ Stop \/ Clear \/ Connect \/ ConnectFails \/ Main \/ Coroutine
  BY <1>2, ClientOrder, InterfaceShape, MainShape, CoroutineShape
<1>3. CASE DropConnection \/ Restart \/ \E k \in Connection : Serve(k) \/ Hangup(k) \/ Push(k)
  BY <1>3, ServerOrder, NetworkShape, ServeShape, PushShape
<1>4. CASE \E s \in Sampler : SampleStep(s)
  BY <1>4, SamplerInv
<1> QED  BY <1>1, <1>2, <1>3, <1>4 DEF Next

LEMMA Inductive == Spec => [](Shape /\ Order)
<1>1. Init => Shape /\ Order
  BY InitShape, InitOrder
<1> QED  BY <1>1, StepInv, PTL DEF Spec

\* The type invariant, with the buffer's bound (poslogMaxPending).
THEOREM TypeCorrect == Spec => []TypeOK
<1>1. Shape => TypeOK
  BY DEF Shape
<1> QED  BY <1>1, Inductive, PTL

\* However often the connection is lost, the server restarted, the plot cleared
\* or the logger started, no sample is shown twice or before an earlier one.
THEOREM OnceInOrder == Spec => []ShownOnce
<1>1. Order => ShownOnce
  BY DEF Order, Plotted, Sent, Increasing, ShownOnce
<1> QED  BY <1>1, Inductive, PTL

-----------------------------------------------------------------------------
(* A client that is set up has a sampler.                                    *)

Call == {"subscribe", "start", "clear", "stop"}
Starts(s) == \E i \in 1..Len(s) : s[i] = "start"

\* Nobody has stopped the logger before stop() of the first session.
First == session \in {0, 1}
NotStopped == /\ session = 0 => thread = "none" /\ ~stopping
              /\ First /\ ~stopping =>
                    /\ shutdown # "final"
                    /\ \A k \in Connection : up[k] \in Seq(Call \ {"stop"})

\* The call that starts the sampler is on its way, or was served.
Starting == First /\ live /\ ~stopping /\ thread \in {"clear", "recv"} =>
                running \/ Starts(up[nconn])

\* A call that is sent comes after those that are under way.
LEMMA SendStarts ==
  ASSUME Shape, NotStopped, NEW call \in Call, Open, Send(ws, call)
  PROVE  /\ Starts(up[nconn]) \/ call = "start" => Starts(up'[nconn])
         /\ call # "stop" => \A k \in Connection : up[k] \in Seq(Call \ {"stop"}) =>
                                 up'[k] \in Seq(Call \ {"stop"})
<1>1. ws = nconn /\ nconn \in Connection /\ up \in [Connection -> Seq(Call)]
  BY ConstantsAssumption
     DEF ConstantsAssumption, Shape, TypeOK, Open, Connection, Call
<1>2. up' = [up EXCEPT ![nconn] = Append(up[nconn], call)]
  BY <1>1 DEF Send
<1>3. /\ Len(Append(up[nconn], call)) = Len(up[nconn]) + 1
      /\ \A i \in 1..Len(up[nconn]) : Append(up[nconn], call)[i] = up[nconn][i]
      /\ Append(up[nconn], call)[Len(up[nconn]) + 1] = call
      /\ Len(up[nconn]) \in Nat
  BY <1>1, AppendProperties, LenProperties
<1>4. up'[nconn] = Append(up[nconn], call)
  BY <1>1, <1>2
<1>5. Starts(up[nconn]) \/ call = "start" => Starts(up'[nconn])
  BY <1>3, <1>4 DEF Starts
<1>6. ASSUME call # "stop", NEW k \in Connection, up[k] \in Seq(Call \ {"stop"})
      PROVE  up'[k] \in Seq(Call \ {"stop"})
  <2>1. call \in Call \ {"stop"}
    BY <1>6
  <2>2. k = nconn => Append(up[nconn], call) \in Seq(Call \ {"stop"})
    BY <1>6, <2>1, AppendProperties
  <2> QED  BY <1>1, <1>2, <1>6, <2>2
<1> QED  BY <1>5, <1>6

\* The steps of the client that send nothing.
QuietStep == /\ UNCHANGED <<up, running, nconn>>
             /\ First' => First
             /\ session' = 0 => session = 0 /\ UNCHANGED <<thread, stopping>>
             /\ First' /\ ~stopping' => ~stopping /\ shutdown' # "final"
             /\ live' /\ thread' \in {"clear", "recv"} =>
                    live /\ thread \in {"clear", "recv"}

LEMMA ClientStarts ==
  ASSUME Shape, NotStopped, Starting,
         Start \/ Stop \/ Clear \/ Connect \/ ConnectFails \/ Main \/ Coroutine
  PROVE  (NotStopped /\ Starting)'
<1> USE DEF Goto, First
<1>1. ASSUME QuietStep  PROVE (NotStopped /\ Starting)'
  BY <1>1 DEF QuietStep, NotStopped, Starting
<1>2. ASSUME NEW call \in Call \ {"stop"}, Open, Send(ws, call),
             UNCHANGED <<session, stopping, shutdown, running, nconn>>,
             thread = "none" => UNCHANGED thread,
             call = "start" \/ thread \in {"clear", "recv"}
                            \/ thread' \notin {"clear", "recv"}
      PROVE  (NotStopped /\ Starting)'
  <2>1. /\ Starts(up[nconn]) \/ call = "start" => Starts(up'[nconn])
        /\ \A k \in Connection : up[k] \in Seq(Call \ {"stop"}) =>
               up'[k] \in Seq(Call \ {"stop"})
    BY <1>2, SendStarts
  <2>2. NotStopped'
    BY <1>2, <2>1 DEF NotStopped
  <2>3. Starting'
    BY <1>2, <2>1 DEF Starting, Open
  <2> QED  BY <2>2, <2>3
<1>3. CASE Start
  <2>1. session' # 0 /\ (session # 0 => session' \notin {0, 1})
    <3>1. session \in 0..MaxSessions /\ session' = session + 1
      BY <1>3 DEF Start, Shape, TypeOK
    <3> QED  BY <3>1, ConstantsAssumption DEF ConstantsAssumption
  <2>2. CASE session = 0
    <3>1. QuietStep
      BY <1>3, <2>1, <2>2 DEF Start, QuietStep, First, NotStopped, net, samplers
    <3> QED  BY <1>1, <3>1
  <2>3. CASE session # 0
    BY <2>1, <2>3 DEF First, NotStopped, Starting
  <2> QED  BY <2>2, <2>3
<1>4. CASE Stop \/ Clear
  <2>1. session # 0
    BY <1>4 DEF Stop, Clear, NotStopped
  <2> QED  BY <1>1, <1>4, <2>1 DEF Stop, Clear, QuietStep, net, samplers, NotStopped
<1>5. CASE Connect
  BY <1>5 DEF Connect, NotStopped, Starting, samplers
<1>6. CASE ConnectFails \/ Receive \/ ReceiveEnds \/ Close \/ Sleep \/ Cancelled
  <2>1. QuietStep
    BY <1>6 DEF ConnectFails, Receive, ReceiveEnds, Close, Sleep, Cancelled, QuietStep,
                net, samplers, NotStopped
  <2> QED  BY <1>1, <2>1
<1>7. ASSUME NEW call \in Call \ {"stop"}, NEW next, TrySend(call, next),
             UNCHANGED <<session, stopping, shutdown, running, nconn, live>>,
             thread # "none",
             call = "start" \/ thread \in {"clear", "recv"} \/ next = "start"
      PROVE  (NotStopped /\ Starting)'
  <2>1. CASE Open /\ Send(ws, call) /\ Goto(next)
    BY <1>2, <1>7, <2>1
  <2>2. CASE UNCHANGED up /\ ~live
    BY <1>7, <2>2 DEF NotStopped, Starting
  <2>3. CASE UNCHANGED up /\ thread' = "close"
    BY <1>7, <2>3 DEF NotStopped, Starting
  <2> QED  BY <1>7, <2>1, <2>2, <2>3 DEF TrySend, Raise
<1>8. CASE Subscribe
  BY <1>7, <1>8 DEF Subscribe, samplers, Call
<1>9. CASE OnConnect
  BY <1>7, <1>9 DEF OnConnect, samplers, Call
<1>10. CASE FirstClear
  BY <1>7, <1>10 DEF FirstClear, samplers, Call
<1>11. CASE ClearCall
  <2>1. CASE Open /\ Send(ws, "clear")
    BY <1>2, <1>11, <2>1 DEF ClearCall, samplers, Call
  <2>2. CASE UNCHANGED up
    BY <1>1, <1>11, <2>2 DEF ClearCall, QuietStep, samplers, NotStopped
  <2> QED  BY <1>11, <2>1, <2>2 DEF ClearCall
<1>12. CASE FinalCall
  BY <1>12 DEF FinalCall, NotStopped, Starting
<1>13. CASE CloseSocket \/ CancelMain
  BY <1>1, <1>13 DEF CloseSocket, CancelMain, QuietStep, net, samplers, NotStopped
<1> QED  BY <1>3, <1>4, <1>5, <1>6, <1>8, <1>9, <1>10, <1>11, <1>12, <1>13
         DEF Main, Coroutine

\* The call at the head is served, and those behind it stay.
LEMMA ServeStarts ==
  ASSUME Shape, NotStopped, Starting, NEW k \in Connection, Serve(k)
  PROVE  (NotStopped /\ Starting)'
<1>1. /\ up \in [Connection -> Seq(Call)] /\ up[k] # <<>>
      /\ up' = [up EXCEPT ![k] = Tail(up[k])]
      /\ Head(up[k]) \in {"start", "stop"} \/ running' = running
      /\ Head(up[k]) = "start" => running'
      /\ UNCHANGED <<client, nconn, live>>
  BY DEF Serve, ServeSubscribe, ServeStart, ServeStop, ServeClear, Shape, TypeOK, Call,
         samplers
<1>2. ASSUME NEW S, up[k] \in Seq(S)
      PROVE  Head(up[k]) \in S /\ Tail(up[k]) \in Seq(S)
  BY <1>1, <1>2, HeadTailProperties
<1>3. NotStopped'
  <2> SUFFICES ASSUME First, ~stopping, NEW j \in Connection  PROVE up'[j] \in Seq(Call \ {"stop"})
    BY <1>1 DEF NotStopped, First, client
  <2>1. up[j] \in Seq(Call \ {"stop"}) /\ up[k] \in Seq(Call \ {"stop"})
    BY DEF NotStopped
  <2> QED  BY <1>1, <1>2, <2>1
<1>4. Starting'
  <2> SUFFICES ASSUME First, live, ~stopping, thread \in {"clear", "recv"}
               PROVE  running' \/ Starts(up'[nconn])
    BY <1>1 DEF Starting, First, client
  <2>1. Head(up[k]) # "stop"
    BY <1>2 DEF NotStopped
  <2>2. CASE running
    BY <1>1, <2>1, <2>2
  <2>3. CASE Starts(up[nconn]) /\ nconn # k
    BY <1>1, <2>3 DEF Starts
  <2>4. CASE Starts(up[nconn]) /\ nconn = k /\ Head(up[k]) # "start"
    <3>1. PICK i \in 1..Len(up[k]) : up[k][i] = "start"
      BY <2>4 DEF Starts
    <3>2. /\ Len(up[k]) \in Nat /\ Len(Tail(up[k])) = Len(up[k]) - 1
          /\ \A n \in 1..Len(Tail(up[k])) : Tail(up[k])[n] = up[k][n + 1]
      BY <1>1, HeadTailProperties, LenProperties
    <3>3. Head(up[k]) = up[k][1]
      BY <1>1
    <3>4. i # 1
      BY <2>4, <3>1, <3>3
    <3>5. i - 1 \in 1..Len(Tail(up[k])) /\ (i - 1) + 1 = i
      BY <3>2, <3>4
    <3>6. Tail(up[k])[i - 1] = "start"
      BY <3>1, <3>2, <3>5
    <3> QED  BY <1>1, <2>4, <3>5, <3>6 DEF Starts
  <2> QED  BY <1>1, <2>2, <2>3, <2>4 DEF Starting
<1> QED  BY <1>3, <1>4

LEMMA StepStarts ==
  ASSUME Shape, NotStopped, Starting, [Next]_vars
  PROVE  (NotStopped /\ Starting)'
<1>1. CASE DropConnection
  <2>1. /\ live' = FALSE /\ UNCHANGED <<session, thread, stopping, shutdown>>
        /\ \E n \in 0..Len(up[nconn]) : up' = [up EXCEPT ![nconn] = SubSeq(up[nconn], 1, n)]
    BY <1>1 DEF DropConnection, client
  <2>2. up \in [Connection -> Seq(Call)]
    BY DEF Shape, TypeOK, Call
  <2>3. ASSUME NEW k \in Connection, up[k] \in Seq(Call \ {"stop"})
        PROVE  up'[k] \in Seq(Call \ {"stop"})
    <3>1. \A n \in 0..Len(up[k]) : SubSeq(up[k], 1, n) \in Seq(Call \ {"stop"})
      BY <2>3, CutShort
    <3> QED  BY <2>1, <2>2, <2>3, <3>1
  <2> QED  BY <2>1, <2>3 DEF First, NotStopped, Starting
<1>2. CASE Restart
  <2>1. <<>> \in Seq(Call \ {"stop"})
    BY EmptySeq
  <2> QED  BY <1>2, <2>1 DEF Restart, First, NotStopped, Starting, client
<1>3. CASE \/ \E k \in Connection : Hangup(k) \/ Push(k)
           \/ \E s \in Sampler : SampleStep(s)
           \/ UNCHANGED vars
  <2>1. UNCHANGED <<client, nconn, live, up, running>>
    BY <1>3 DEF Hangup, Push, Drain, Write, SampleStep, ReadStopCh, Ends, Sample, vars,
                client, net, samplers
  <2> QED  BY <2>1 DEF First, NotStopped, Starting, client
<1> QED  BY <1>1, <1>2, <1>3, ClientStarts, ServeStarts DEF Next

\* A client of the first session that is connected, and whose calls were served,
\* has a sampler, however often its connection was lost or the server restarted.
THEOREM ConnectedIsSampled == Spec => []Sampled
<1>1. Init => NotStopped /\ Starting
  <2>1. <<>> \in Seq(Call \ {"stop"})
    BY EmptySeq
  <2> QED  BY <2>1 DEF Init, First, NotStopped, Starting
<1>2. Shape /\ NotStopped /\ Starting /\ [Next]_vars => (NotStopped /\ Starting)'
  BY StepStarts
<1>3. Starting => Sampled
  <2>1. Len(<<>>) = 0 /\ 1..0 = {}
    OBVIOUS
  <2> QED  BY <2>1 DEF First, Starting, Starts, Sampled
<1> QED  BY <1>1, <1>2, <1>3, Inductive, PTL DEF Spec
=============================================================================
