-------------------------- MODULE WatchServerProofs --------------------------
(***************************************************************************)
(* Theorems about WatchServer for any number of connections, subscriptions,*)
(* loads and messages: its types, the registry, a safe unload, and the     *)
(* order in which a client sees the message list.                          *)
(***************************************************************************)
EXTENDS WatchServer, FiniteSetTheorems, WellFoundedInduction, TLAPS

(* The message list.                                                       *)

\* A list that is not empty has an oldest message.
LEMMA OldestExists ==
  ASSUME NEW l \in SUBSET Message, IsFiniteSet(l), l # {}
  PROVE  Oldest(l) # {}
<1> DEFINE upto(x) == {y \in l : y.id <= x.id}
           U == {upto(x) : x \in l}
<1>1. U \subseteq FiniteSubsetsOf(l) /\ U # {}
  <2>1. \A x \in l : upto(x) \in SUBSET l
    OBVIOUS
  <2>2. FiniteSubsetsOf(l) = SUBSET l
    BY FS_FiniteSubsetsOfFinite
  <2> HIDE DEF upto
  <2> QED  BY <2>1, <2>2
<1>2. PICK s \in U : \A t \in U : ~(<<t, s>> \in StrictSubsetOrdering(l))
  <2>1. IsWellFoundedOn(StrictSubsetOrdering(l), FiniteSubsetsOf(l))
    BY FS_StrictSubsetOrderingWellFounded
  <2> HIDE DEF U
  <2> QED  BY <1>1, <2>1, WFMin
<1>3. PICK x \in l : s = upto(x)
  OBVIOUS
<1>4. \A y \in l : y.id \in Nat
  BY ConstantsAssumption DEF Message
<1>5. ASSUME NEW y \in l, y.id < x.id  PROVE FALSE
  <2>1. upto(y) \subseteq upto(x) /\ x \in upto(x) /\ x \notin upto(y)
    BY <1>4, <1>5
  <2>2. upto(y) \in SUBSET l /\ upto(x) \in SUBSET l
    OBVIOUS
  <2>3. <<upto(y), upto(x)>> \in StrictSubsetOrdering(l)
    <3> HIDE DEF upto
    <3> QED  BY <2>1, <2>2 DEF StrictSubsetOrdering
  <2> QED  BY <1>2, <1>3, <2>3
<1> QED  BY <1>4, <1>5 DEF Oldest

Listed(l) == l \in SUBSET Message /\ IsFiniteSet(l) /\ Cardinality(l) <= MaxList

\* appendMessage keeps the list within its bound.
LEMMA AppendedListed ==
  ASSUME NEW l, Listed(l), NEW msg \in Message
  PROVE  Listed(Appended(l, msg))
<1>1. Cardinality(l) \in Nat /\ MaxList \in Nat \ {0}
  BY FS_CardinalityType, ConstantsAssumption DEF Listed
<1>2. ASSUME NEW k \in SUBSET l, Cardinality(k) < MaxList
      PROVE  Listed(k \cup {msg})
  <2>1. IsFiniteSet(k)
    BY FS_Subset DEF Listed
  <2>2. /\ IsFiniteSet(k \cup {msg}) /\ Cardinality(k) \in Nat
        /\ Cardinality(k \cup {msg}) <= Cardinality(k) + 1
    BY <2>1, FS_AddElement, FS_CardinalityType
  <2>3. Cardinality(k \cup {msg}) \in Nat
    BY <2>2, FS_CardinalityType
  <2> QED  BY <1>1, <1>2, <2>2, <2>3 DEF Listed
<1>3. CASE Cardinality(l) >= MaxList
  <2>1. l # {}
    BY <1>1, <1>3, FS_EmptySet
  <2>2. PICK x \in l : x \in Oldest(l)
    BY <2>1, OldestExists DEF Listed, Oldest
  <2>3. IsFiniteSet(l \ {x}) /\ Cardinality(l \ {x}) = Cardinality(l) - 1
    BY FS_RemoveElement DEF Listed
  <2>4. l \ Oldest(l) \in SUBSET (l \ {x})
    BY <2>2
  <2>5. /\ Cardinality(l \ Oldest(l)) <= Cardinality(l) - 1
        /\ IsFiniteSet(l \ Oldest(l))
    BY <2>3, <2>4, FS_Subset
  <2>6. Cardinality(l \ Oldest(l)) < MaxList
    BY <1>1, <2>5, FS_CardinalityType DEF Listed
  <2> QED  BY <1>2, <1>3, <2>6 DEF Appended
<1>4. CASE ~(Cardinality(l) >= MaxList)
  BY <1>1, <1>2, <1>4 DEF Appended
<1> QED  BY <1>3, <1>4

\* So does every command on the list.
LEMMA ChangedListed ==
  ASSUME NEW l, Listed(l), version \in Nat, version < MaxVersion, NEW n \in Changed(l)
  PROVE  Listed(n)
<1>1. ASSUME NEW k \in Kind  PROVE Listed(Appended(l, [id |-> version + 1, kind |-> k]))
  BY AppendedListed, ConstantsAssumption DEF Message
<1>2. ASSUME n \in SUBSET l  PROVE Listed(n)
  <2>1. IsFiniteSet(n) /\ Cardinality(n) <= Cardinality(l)
    BY <1>2, FS_Subset DEF Listed
  <2> QED  BY <1>2, <2>1, FS_CardinalityType, ConstantsAssumption DEF Listed
<1> QED  BY <1>1, <1>2 DEF Changed

-----------------------------------------------------------------------------
(* Types.                                                                  *)

\* What a reader looked up is a module, and so is what a loop calls.
Resolved == \A c \in Conn :
    reader[c] \in {"subscribe", "track", "call"} => resolved[c] \in Module

Bound == \A i \in Loop : Counted(i) => mod[i] \in Module /\ group[i] \in Module

\* A reader in a factory is there for its connection's subscription, which is
\* not polling yet.
InFactory ==
    \A c \in Conn : reader[c] \in {"factory", "drop"} =>
        sub[c] \in Loop /\ pc[sub[c]] = "factory" /\ conn[sub[c]] = c

\* Subscriptions are numbered in turn, and belong to their connection.
Numbered ==
    /\ \A i \in Loop : i > subSeq => pc[i] = "none" /\ i \notin tracked
    /\ \A c \in Conn : sub[c] # 0 => sub[c] <= subSeq /\ conn[sub[c]] = c

Finite == \A m \in Module : IsFiniteSet(list[m])

Shape == TypeOK /\ Resolved /\ Bound /\ InFactory /\ Numbered /\ Finite

LEMMA InitShape == Init => Shape
<1> SUFFICES ASSUME Init  PROVE Shape
  OBVIOUS
<1> USE ConstantsAssumption
<1>1. \A m \in Module : IsFiniteSet(list[m]) /\ Cardinality(list[m]) <= MaxList
  BY FS_EmptySet DEF Init
<1>2. list \in [Module -> SUBSET Message]
  BY DEF Init
<1>3. (CHOOSE c \in Conn : TRUE) \in Conn
  OBVIOUS
<1>4. conn \in [Loop -> Conn]
  BY <1>3 DEF Init
<1>5. TypeOK
  BY <1>1, <1>2, <1>4 DEF Init, TypeOK
<1> QED
  BY <1>1, <1>5 DEF Init, Shape, Resolved, Bound, InFactory, Numbered, Finite, Counted

\* A change of one list leaves lists.
LEMMA ListType ==
  ASSUME Shape, NEW m, NEW l, m \in Module => Listed(l), list' = [list EXCEPT ![m] = l]
  PROVE  list' \in [Module -> SUBSET Message] /\ \A n \in Module : Listed(list'[n])
<1>1. list \in [Module -> SUBSET Message] /\ \A n \in Module : Listed(list[n])
  BY DEF Shape, TypeOK, Finite, Listed
<1> QED  BY <1>1 DEF Listed

\* The steps that change a list keep the types.
LEMMA MessageShape ==
  ASSUME Shape, Operator \/ \E c \in Conn : Call(c)
  PROVE  Shape'
<1>1. /\ version \in 0..MaxVersion /\ version \in Nat
      /\ \A n \in Module : Listed(list[n])
  BY ConstantsAssumption DEF Shape, TypeOK, Finite, Listed
<1>2. version' \in 0..MaxVersion
  BY <1>1, ConstantsAssumption DEF Operator, Call, ChangeList, messages
<1>3. list' \in [Module -> SUBSET Message] /\ \A n \in Module : Listed(list'[n])
  <2>1. ASSUME NEW m, NEW l, m \in Module => Listed(l), list' = [list EXCEPT ![m] = l]
        PROVE  list' \in [Module -> SUBSET Message] /\ \A n \in Module : Listed(list'[n])
    BY <2>1, ListType
  <2>2. CASE Operator
    <3>1. PICK m \in Module, k \in Kind :
            list' = [list EXCEPT ![m] = Appended(list[m], [id |-> version + 1, kind |-> k])]
      BY <2>2 DEF Operator
    <3>2. [id |-> version + 1, kind |-> k] \in Message
      BY <1>1, <2>2, ConstantsAssumption DEF Operator, Message
    <3>3. Listed(Appended(list[m], [id |-> version + 1, kind |-> k]))
      BY <1>1, <3>2, AppendedListed
    <3> QED  BY <2>1, <3>1, <3>3
  <2>3. ASSUME NEW c \in Conn, Call(c)
        PROVE  list' \in [Module -> SUBSET Message] /\ \A n \in Module : Listed(list'[n])
    <3>1. CASE UNCHANGED messages
      BY <1>1, <3>1 DEF messages, Shape, TypeOK
    <3>2. CASE ChangeList(resolved[c])
      <4>1. version < MaxVersion
        BY <3>2 DEF ChangeList
      <4>2. PICK l \in Changed(list[resolved[c]]) : list' = [list EXCEPT ![resolved[c]] = l]
        BY <3>2 DEF ChangeList
      <4>3. resolved[c] \in Module => Listed(l)
        BY <1>1, <4>1, <4>2, ChangedListed
      <4> QED  BY <2>1, <4>2, <4>3
    <3> QED  BY <2>3, <3>1, <3>2 DEF Call
  <2> QED  BY <2>2, <2>3
<1>4. Finite' /\ \A n \in Module : Cardinality(list'[n]) <= MaxList
  BY <1>3 DEF Finite, Listed
<1>5. CASE Operator
  <2>1. UNCHANGED <<api, stage, gaveUp, subSeq, tracked, reader, resolved, sub, open,
                    writeMu, pc, conn, mod, group, val, prev, cancelled, seen>>
    BY <1>5 DEF Operator, module, loops
  <2>2. TypeOK'
    BY <1>2, <1>3, <1>4, <2>1 DEF Shape, TypeOK
  <2> QED
    BY <1>4, <2>1, <2>2 DEF Shape, Resolved, Bound, InFactory, Numbered, Counted
<1>6. ASSUME NEW c \in Conn, Call(c)  PROVE Shape'
  <2>1. /\ UNCHANGED <<api, stage, gaveUp, subSeq, tracked, sub, open,
                       writeMu, pc, conn, mod, group, val, prev, cancelled, seen>>
        /\ reader' = [reader EXCEPT ![c] = "reply"]
        /\ resolved' = [resolved EXCEPT ![c] = NoModule]
    BY <1>6 DEF Call, Read, module, loops
  <2>2. TypeOK'
    BY <1>2, <1>3, <1>4, <2>1 DEF Shape, TypeOK
  <2> QED
    BY <1>4, <2>1, <2>2 DEF Shape, TypeOK, Resolved, Bound, InFactory, Numbered, Counted
<1> QED  BY <1>5, <1>6

\* The steps of an unload keep the types.
LEMMA ModuleShape ==
  ASSUME Shape, NEW m \in Module, Load(m) \/ Sweep(m) \/ Destroy(m) \/ GiveUp(m)
  PROVE  Shape'
<1> USE DEF Shape, TypeOK, Resolved, Bound, InFactory, Numbered, Finite, Counted,
            loops, messages
<1>1. CASE Load(m)  BY <1>1 DEF Load
<1>2. CASE Sweep(m)  BY <1>2 DEF Sweep
<1>3. CASE Destroy(m)  BY <1>3 DEF Destroy
<1>4. CASE GiveUp(m)  BY <1>4 DEF GiveUp
<1> QED  BY <1>1, <1>2, <1>3, <1>4

\* A new subscription is well formed.
LEMMA TrackShape ==
  ASSUME Shape, NEW c \in Conn, Track(c)
  PROVE  Shape'
<1>1. resolved[c] \in Module
  BY DEF Shape, Resolved, Track
<1>2. CASE api = NoModule
  BY <1>2, ConstantsAssumption
     DEF Track, Read, Shape, TypeOK, Resolved, Bound, InFactory, Numbered, Finite,
         Counted, module, messages
<1>3. CASE api # NoModule
  <2> DEFINE i == subSeq + 1
  <2>1. i \in Loop /\ i > subSeq /\ subSeq \in Nat /\ pc[i] = "none" /\ api \in Module
    BY <1>3, ConstantsAssumption DEF Track, Shape, TypeOK, Numbered, Loop
  <2>2. \A j \in Loop : j > i => j > subSeq
    BY <2>1 DEF Loop
  <2>3. \A j \in Loop : j <= subSeq => j <= i /\ j # i
    BY <2>1 DEF Loop
  <2>4. /\ subSeq' = i
        /\ cancelled' = cancelled \cup (IF open[c] THEN {} ELSE {i})
        /\ tracked' = tracked \cup {i}
        /\ sub' = [sub EXCEPT ![c] = i] /\ conn' = [conn EXCEPT ![i] = c]
        /\ mod' = [mod EXCEPT ![i] = resolved[c]]
        /\ group' = [group EXCEPT ![i] = api]
        /\ \/ /\ pc' = [pc EXCEPT ![i] = "poll"]
              /\ reader' = [reader EXCEPT ![c] = "read"]
           \/ /\ pc' = [pc EXCEPT ![i] = "factory"]
              /\ reader' = [reader EXCEPT ![c] = "factory"]
        /\ resolved' = [resolved EXCEPT ![c] = NoModule]
        /\ UNCHANGED <<api, stage, gaveUp, open, writeMu, val, prev, list, version, seen>>
    BY <1>3 DEF Track, Goto, Read, module, messages
  <2> HIDE DEF i
  <2>5. subSeq' \in 0..MaxSubs
    BY <2>1, <2>4, ConstantsAssumption DEF Loop
  <2>6. TypeOK'
    <3>2. tracked' \subseteq Loop /\ cancelled' \subseteq Loop
      BY <2>1, <2>4 DEF Shape, TypeOK
    <3>3. /\ reader' \in [Conn -> {"read", "subscribe", "track", "factory", "drop",
                                  "call", "reply", "closed"}]
          /\ resolved' \in [Conn -> Module \cup {NoModule}]
          /\ sub' \in [Conn -> Loop \cup {0}]
      BY <2>1, <2>4 DEF Shape, TypeOK
    <3>4. /\ pc' \in [Loop -> {"none", "factory", "poll", "write", "writing",
                              "wait", "done"}]
          /\ conn' \in [Loop -> Conn]
          /\ mod' \in [Loop -> Module \cup {NoModule}]
          /\ group' \in [Loop -> Module \cup {NoModule}]
      BY <1>1, <2>1, <2>4 DEF Shape, TypeOK
    <3> QED  BY <2>4, <2>5, <3>2, <3>3, <3>4 DEF Shape, TypeOK
  <2>7. Resolved' /\ Bound'
    BY <1>1, <2>1, <2>4 DEF Shape, TypeOK, Resolved, Bound, Counted
  <2>8. InFactory'
    BY <2>1, <2>4 DEF Shape, TypeOK, InFactory
  <2>9. Numbered'
    <3>1. ASSUME NEW j \in Loop, j > i  PROVE pc'[j] = "none" /\ j \notin tracked'
      <4>1. j > subSeq /\ j # i
        BY <2>1, <2>2, <3>1 DEF Loop
      <4> QED  BY <2>1, <2>4, <4>1 DEF Shape, TypeOK, Numbered
    <3>2. ASSUME NEW d \in Conn, sub'[d] # 0  PROVE sub'[d] <= i /\ conn'[sub'[d]] = d
      <4>1. CASE d = c
        <5>1. sub'[d] = i /\ i <= i
          BY <2>1, <2>4, <4>1 DEF Shape, TypeOK, Loop
        <5> QED  BY <2>1, <2>4, <4>1, <5>1 DEF Shape, TypeOK
      <4>2. CASE d # c
        <5>1. sub'[d] = sub[d] /\ sub[d] \in Loop /\ sub[d] <= subSeq /\ conn[sub[d]] = d
          BY <2>4, <3>2, <4>2 DEF Shape, TypeOK, Numbered
        <5>2. sub[d] <= i /\ sub[d] # i
          BY <2>3, <5>1
        <5> QED  BY <2>4, <5>1, <5>2 DEF Shape, TypeOK
      <4> QED  BY <4>1, <4>2
    <3> QED  BY <2>4, <3>1, <3>2 DEF Numbered
  <2> QED  BY <2>4, <2>6, <2>7, <2>8, <2>9 DEF Shape, Finite
<1> QED  BY <1>2, <1>3

\* The other steps of a reader keep the types.
LEMMA ReaderShape ==
  ASSUME Shape, NEW c \in Conn,
         \/ Lookup(c) \/ Subscribe(c) \/ Factory(c) \/ FactoryFailed(c)
         \/ Unsubscribe(c) \/ Reply(c) \/ ReadFails(c) \/ Keepalive(c)
  PROVE  Shape'
<1> USE ConstantsAssumption
    DEF Shape, TypeOK, Resolved, Bound, InFactory, Numbered, Finite, Counted,
        module, loops, messages, Read, Goto
<1>1. CASE Lookup(c)  BY <1>1 DEF Lookup
<1>2. CASE Factory(c)  BY <1>2 DEF Factory
<1>3. CASE FactoryFailed(c)  BY <1>3 DEF FactoryFailed
<1>4. CASE Unsubscribe(c)  BY <1>4 DEF Unsubscribe
<1>5. CASE Reply(c)  BY <1>5 DEF Reply
<1>6. CASE ReadFails(c)  BY <1>6 DEF ReadFails
<1>7. CASE Keepalive(c)  BY <1>7 DEF Keepalive
<1>8. CASE Subscribe(c)  BY <1>8 DEF Subscribe, Supersedes
<1> QED  BY <1>1, <1>2, <1>3, <1>4, <1>5, <1>6, <1>7, <1>8

\* So do those of a push loop.
LEMMA LoopShape ==
  ASSUME Shape, NEW i \in Loop, LoopStep(i)
  PROVE  Shape'
<1> USE ConstantsAssumption
    DEF Shape, TypeOK, Resolved, Bound, InFactory, Numbered, Finite, Counted,
        module, messages, Goto, Finish
<1>1. CASE Poll(i)
  <2>1. [version |-> version, list |-> list[mod[i]]] \in Frame
    BY <1>1 DEF Poll, Frame
  <2> QED  BY <1>1, <2>1 DEF Poll
<1>2. CASE WriteBegin(i)
  <2>1. /\ UNCHANGED <<api, stage, gaveUp, subSeq, tracked, reader, resolved, sub, open, conn,
                       mod, group, cancelled, list, version, seen>>
        /\ conn[i] \in Conn /\ pc[i] = "write"
    BY <1>2 DEF WriteBegin
  <2>2. CASE Dropped(i)
    BY <1>2, <2>1, <2>2 DEF WriteBegin
  <2>3. CASE ~Dropped(i)
    BY <1>2, <2>1, <2>3 DEF WriteBegin
  <2> QED  BY <2>2, <2>3
<1>3. CASE WriteEnd(i)
  <2>1. UNCHANGED <<api, stage, gaveUp, subSeq, tracked, reader, resolved, sub, conn,
                    mod, group, cancelled, list, version>>
    BY <1>3 DEF WriteEnd
  <2>2. /\ writeMu' \in [Conn -> Loop \cup {Free}]
        /\ open' \in [Conn -> BOOLEAN]
    <3>1. writeMu' = [writeMu EXCEPT ![conn[i]] = Free]
      BY <1>3 DEF WriteEnd
    <3>2. open' = open \/ open' = [open EXCEPT ![conn[i]] = FALSE]
      BY <1>3 DEF WriteEnd
    <3>3. open \in [Conn -> BOOLEAN] /\ writeMu \in [Conn -> Loop \cup {Free}]
      OBVIOUS
    <3> QED  BY ONLY <3>1, <3>2, <3>3
  <2>3. /\ val' \in [Loop -> Frame \cup {NoFrame}]
        /\ prev' \in [Loop -> Frame \cup {NoFrame}]
        /\ seen' \in [Conn -> Frame \cup {NoFrame}]
    BY <1>3 DEF WriteEnd
  <2>4. /\ pc[i] = "writing"
        /\ pc' = [pc EXCEPT ![i] = "wait"] \/ pc' = [pc EXCEPT ![i] = "done"]
    BY <1>3 DEF WriteEnd
  <2>5. TypeOK'
    BY <2>1, <2>2, <2>3, <2>4
  <2>6. (Resolved /\ Bound /\ Finite)'
    BY <2>1, <2>4
  <2>7. InFactory'
    BY <2>1, <2>4
  <2>8. Numbered'
    BY <2>1, <2>4
  <2> QED  BY <2>5, <2>6, <2>7, <2>8
<1>4. CASE Tick(i)  BY <1>4 DEF Tick
<1>5. CASE Leave(i)  BY <1>5 DEF Leave
<1> QED  BY <1>1, <1>2, <1>3, <1>4, <1>5 DEF LoopStep

LEMMA StepShape == Shape /\ [Next]_vars => Shape'
<1> SUFFICES ASSUME Shape, [Next]_vars  PROVE Shape'
  OBVIOUS
<1>1. CASE UNCHANGED vars
  BY <1>1 DEF vars, module, loops, messages, Shape, TypeOK, Resolved, Bound, InFactory,
              Numbered, Finite, Counted
<1>2. CASE Next
  BY <1>2, MessageShape, ModuleShape, TrackShape, ReaderShape, LoopShape
     DEF Next, ReaderStep
<1> QED  BY <1>1, <1>2

\* The type invariant: the registry's ids, every reader and push loop, the
\* frames, and message lists within maxMessageList.
THEOREM TypeCorrect == Spec => []TypeOK
<1>1. Shape => TypeOK
  BY DEF Shape
<1> QED  BY <1>1, InitShape, StepShape, PTL DEF Spec

-----------------------------------------------------------------------------
(* The registry, and the unload.                                           *)

\* A registered module is loaded, and with none registered none is tracked.
Registered == /\ api \in Module => stage[api] = "loaded"
              /\ api = NoModule => tracked = {}

\* A module is destroyed once the loops of its group have ended, or given up.
Waited == \A i \in Loop : Counted(i) => stage[group[i]] # "destroyed" \/ group[i] \in gaveUp

\* What a connection is about to supersede is no longer tracked.
Superseded == \A c \in Conn : reader[c] = "track" => sub[c] \notin tracked

Registry == Registered /\ TrackedExactly /\ Waited /\ Superseded

\* The 0 of a connection without a subscription is none of them.
LEMMA NoneIsNoLoop == 0 \notin Loop
BY DEF Loop

LEMMA InitRegistry == Init => Registry
BY ConstantsAssumption DEF Init, Registry, Registered, TrackedExactly, Waited, Superseded, Counted

\* Loading and unloading keep the registry.
LEMMA ModuleRegistry ==
  ASSUME Shape, Registry, NEW m \in Module, Load(m) \/ Sweep(m) \/ Destroy(m) \/ GiveUp(m)
  PROVE  Registry'
<1> USE ConstantsAssumption
    DEF Shape, TypeOK, Bound, Registry, Registered, TrackedExactly, Waited, Superseded,
        Counted, loops
<1>1. CASE Load(m)  BY <1>1 DEF Load
<1>2. CASE Sweep(m)  BY <1>2 DEF Sweep
<1>3. CASE Destroy(m)  BY <1>3 DEF Destroy, WaitedOut
<1>4. CASE GiveUp(m)  BY <1>4 DEF GiveUp
<1> QED  BY <1>1, <1>2, <1>3, <1>4

\* A new subscription is tracked; the one it supersedes was cancelled before.
LEMMA TrackRegistry ==
  ASSUME Shape, Registry, NEW c \in Conn, Track(c)
  PROVE  Registry'
<1> USE ConstantsAssumption DEF Registry, Registered, TrackedExactly, Waited, Superseded
<1>0. sub[c] \notin tracked
  BY DEF Track
<1>1. CASE api = NoModule
  BY <1>0, <1>1, NoneIsNoLoop DEF Track, Read, Shape, TypeOK, Bound, Counted, module
<1>2. CASE api # NoModule
  <2> DEFINE i == subSeq + 1
  <2>1. i \in Loop /\ i > subSeq /\ pc[i] = "none" /\ api \in Module
    BY <1>2 DEF Track, Shape, TypeOK, Numbered, Loop
  <2>2. \A d \in Conn : sub[d] # i
    <3>1. /\ subSeq \in Nat /\ \A d \in Conn : sub[d] \in Loop \cup {0}
          /\ \A d \in Conn : sub[d] # 0 => sub[d] <= subSeq
      BY DEF Shape, TypeOK, Numbered
    <3> QED  BY <2>1, <3>1 DEF Loop
  <2>3. /\ cancelled \subseteq cancelled'
        /\ tracked' = tracked \cup {i}
        /\ sub' = [sub EXCEPT ![c] = i] /\ conn' = [conn EXCEPT ![i] = c]
        /\ group' = [group EXCEPT ![i] = api]
        /\ \/ pc' = [pc EXCEPT ![i] = "poll"]
           \/ pc' = [pc EXCEPT ![i] = "factory"]
        /\ UNCHANGED <<api, stage, gaveUp>>
    BY <1>2 DEF Track, Goto, module
  <2>4. i \notin tracked
    BY <2>1 DEF Shape, Numbered
  <2> HIDE DEF i
  <2>5. Registered'
    BY <1>2, <2>1, <2>3
  <2>6. ASSUME NEW j \in Loop, Counted(j)', j \notin cancelled'  PROVE j \in tracked'
    <3>1. CASE j = i
      BY <2>3, <3>1
    <3>2. CASE j # i
      <4>1. Counted(j) /\ j \notin cancelled
        BY <2>1, <2>3, <2>6, <3>2 DEF Counted, Shape, TypeOK
      <4> QED  BY <2>3, <4>1
    <3> QED  BY <3>1, <3>2
  <2>7. ASSUME NEW j \in tracked'  PROVE sub'[conn'[j]] = j /\ group'[j] = api'
    <3>1. CASE j = i
      BY <2>1, <2>3, <3>1 DEF Shape, TypeOK
    <3>2. CASE j # i
      <4>1. j \in tracked /\ j # sub[c] /\ sub[conn[j]] = j /\ conn[j] \in Conn /\ j \in Loop
        BY <1>0, <2>3, <2>7, <3>2 DEF Shape, TypeOK
      <4> QED  BY <2>3, <3>2, <4>1 DEF Shape, TypeOK
    <3> QED  BY <3>1, <3>2
  <2>8. Waited'
    BY <2>1, <2>3 DEF Counted, Shape, TypeOK
  <2>9. Superseded'
    BY <1>2, <2>2, <2>3 DEF Track, Read, Shape, TypeOK
  <2> QED  BY <2>5, <2>6, <2>7, <2>8, <2>9
<1> QED  BY <1>1, <1>2

\* The other steps of a reader keep the registry; what a subscribe supersedes is
\* cancelled before it is no longer tracked.
LEMMA ReaderRegistry ==
  ASSUME Shape, Registry, NEW c \in Conn,
         \/ Lookup(c) \/ Subscribe(c) \/ Factory(c) \/ FactoryFailed(c)
         \/ Unsubscribe(c) \/ Call(c) \/ Reply(c) \/ ReadFails(c) \/ Keepalive(c)
  PROVE  Registry'
<1> USE DEF Shape, TypeOK, InFactory, Numbered, Registry, Registered, TrackedExactly,
            Waited, Superseded, Counted, module, loops, Goto, Read
<1>1. CASE Lookup(c)  BY <1>1 DEF Lookup
<1>2. CASE Factory(c)  BY <1>2 DEF Factory
<1>3. CASE FactoryFailed(c)  BY <1>3 DEF FactoryFailed
<1>4. CASE Unsubscribe(c)  BY <1>4 DEF Unsubscribe
<1>5. CASE Call(c)  BY <1>5 DEF Call
<1>6. CASE Reply(c)  BY <1>6 DEF Reply
<1>7. CASE ReadFails(c)  BY <1>7, NoneIsNoLoop DEF ReadFails
<1>8. CASE Keepalive(c)  BY <1>8 DEF Keepalive
<1>9. CASE Subscribe(c)  BY <1>9, NoneIsNoLoop DEF Subscribe, Supersedes
<1> QED  BY <1>1, <1>2, <1>3, <1>4, <1>5, <1>6, <1>7, <1>8, <1>9

\* So do those of a push loop, which can only end.
LEMMA LoopRegistry ==
  ASSUME Shape, Registry, NEW i \in Loop, LoopStep(i)
  PROVE  Registry'
<1>1. /\ UNCHANGED <<api, stage, gaveUp, tracked, sub, conn, group, cancelled>>
      /\ Counted(i)
      /\ \E step : pc' = [pc EXCEPT ![i] = step]
  BY DEF LoopStep, Poll, WriteBegin, WriteEnd, Tick, Leave, Goto, Finish, Counted, module
<1>2. UNCHANGED reader
  BY DEF LoopStep, Poll, WriteBegin, WriteEnd, Tick, Leave
<1> QED
  BY <1>1, <1>2 DEF Shape, TypeOK, Registry, Registered, TrackedExactly, Waited, Superseded,
                    Counted

LEMMA StepRegistry == Shape /\ Registry /\ [Next]_vars => Registry'
<1> SUFFICES ASSUME Shape, Registry, [Next]_vars  PROVE Registry'
  OBVIOUS
<1>1. CASE UNCHANGED vars \/ Operator
  BY <1>1 DEF vars, Operator, module, loops, Registry, Registered, TrackedExactly, Waited,
              Superseded, Counted
<1>2. CASE Next /\ ~Operator
  BY <1>2, ModuleRegistry, TrackRegistry, ReaderRegistry, LoopRegistry
     DEF Next, ReaderStep
<1> QED  BY <1>1, <1>2

LEMMA RegistryAlways == Spec => [](Shape /\ Registry)
<1>1. Init => Shape /\ Registry
  BY InitShape, InitRegistry
<1>2. Shape /\ Registry /\ [Next]_vars => (Shape /\ Registry)'
  BY StepShape, StepRegistry
<1> QED  BY <1>1, <1>2, PTL DEF Spec

\* A push loop that runs on is tracked, and only the subscription a connection
\* has now is (trackSub, untrackSub, UnregisterByInstance).
THEOREM Tracked == Spec => []TrackedExactly
<1>1. Registry => TrackedExactly
  BY DEF Registry
<1> QED  BY <1>1, RegistryAlways, PTL

\* An unload destroys no module that a push loop of its group may call into,
\* unless it gave up waiting (UnregisterByInstance).
THEOREM UnloadIsSafe == Spec => []UnloadSafe
<1>1. Registry => UnloadSafe
  BY DEF Registry, Waited, UnloadSafe, Counted
<1> QED  BY <1>1, RegistryAlways, PTL

-----------------------------------------------------------------------------
(* What a client is shown.  The writes of a connection are in turn, and so *)
(* are the loops that may still write: the one subscription it has polled  *)
(* after whatever an earlier one is about to send.                         *)

\* A frame is held while it waits to be written, and written under the lock.
Held ==
    /\ \A i \in Loop : val[i] # NoFrame <=> pc[i] \in {"write", "writing"}
    /\ \A i \in Loop : pc[i] = "writing" => writeMu[conn[i]] = i

\* Frames are of the past.
Past == /\ \A i \in Loop : val[i] # NoFrame => val[i].version <= version
        /\ \A c \in Conn : seen[c] # NoFrame => seen[c].version <= version

\* A frame that may be sent is not older than the one the client has ...
NotBehind ==
    \A i \in Loop :
        val[i] # NoFrame /\ (i \notin cancelled \/ pc[i] = "writing") /\ seen[conn[i]] # NoFrame
        => seen[conn[i]].version <= val[i].version

\* ... nor than the one that is on its way.
InTurn ==
    \A i, j \in Loop :
        val[i] # NoFrame /\ i \notin cancelled /\ pc[j] = "writing" /\ conn[j] = conn[i]
        => val[j].version <= val[i].version

Order == Held /\ Past /\ NotBehind /\ InTurn

LEMMA InitOrder == Init => Order
<1> SUFFICES ASSUME Init  PROVE Order
  OBVIOUS
<1>1. \A i \in Loop : val[i] = NoFrame /\ pc[i] = "none"
  BY DEF Init
<1>2. \A c \in Conn : seen[c] = NoFrame
  BY DEF Init
<1> QED  BY <1>1, <1>2 DEF Order, Held, Past, NotBehind, InTurn

\* A frame has a version.
LEMMA FrameVersion ==
  ASSUME Shape
  PROVE  /\ version \in Nat
         /\ \A i \in Loop : val[i] # NoFrame => val[i].version \in Nat
         /\ \A c \in Conn : seen[c] # NoFrame => seen[c].version \in Nat
<1>1. \A f \in Frame : f.version \in Nat
  BY ConstantsAssumption DEF Frame
<1>2. /\ \A i \in Loop : val[i] \in Frame \cup {NoFrame}
      /\ \A c \in Conn : seen[c] \in Frame \cup {NoFrame}
      /\ version \in 0..MaxVersion
  BY DEF Shape, TypeOK
<1> QED  BY <1>1, <1>2, ConstantsAssumption

LEMMA LaterStill ==
  ASSUME NEW a \in Nat, NEW b \in Nat, a <= b, NEW d, d = b \/ d = b + 1
  PROVE  a <= d
OBVIOUS

\* A step that neither polls nor writes keeps the order, whatever it cancels
\* and whatever new subscription it brings.
LEMMA QuietOrder ==
  ASSUME Shape, Order, UNCHANGED <<val, seen, writeMu>>, cancelled \subseteq cancelled',
         version' = version \/ version' = version + 1,
         \A i \in Loop : val[i] # NoFrame => conn'[i] = conn[i] /\ pc'[i] = pc[i],
         \A i \in Loop : val[i] = NoFrame => pc'[i] \notin {"write", "writing"}
  PROVE  Order'
<1>1. Held'
  BY DEF Order, Held
<1>2. Past'
  <2>1. ASSUME NEW i \in Loop, val[i] # NoFrame  PROVE val[i].version <= version'
    BY <2>1, FrameVersion, LaterStill DEF Order, Past
  <2>2. ASSUME NEW c \in Conn, seen[c] # NoFrame  PROVE seen[c].version <= version'
    BY <2>2, FrameVersion, LaterStill DEF Order, Past
  <2> QED  BY <2>1, <2>2 DEF Past
<1>3. NotBehind'
  BY DEF Order, NotBehind
<1>4. InTurn'
  BY <1>1 DEF Order, InTurn, Held
<1> QED  BY <1>1, <1>2, <1>3, <1>4 DEF Order

\* Of two loops of one connection that are not cancelled, one holds no frame.
LEMMA OneFrame ==
  ASSUME Registry, Order, NEW i \in Loop, NEW j \in Loop, conn[i] = conn[j],
         i \notin cancelled, j \notin cancelled, val[i] # NoFrame, val[j] # NoFrame
  PROVE  i = j
<1>1. i \in tracked /\ j \in tracked
  BY DEF Registry, TrackedExactly, Counted, Order, Held
<1> QED  BY <1>1 DEF Registry, TrackedExactly

LEMMA PollOrder ==
  ASSUME Shape, Order, NEW i \in Loop, Poll(i)
  PROVE  Order'
<1>1. /\ pc[i] = "poll" /\ val[i] = NoFrame
      /\ UNCHANGED <<seen, writeMu, cancelled, version, conn>>
  BY DEF Poll, Order, Held, messages
<1>2. CASE UnchangedSince(i)
  BY <1>1, <1>2, QuietOrder DEF Poll, Goto, Shape, TypeOK, Order, Held
<1>3. CASE ~UnchangedSince(i)
  <2> DEFINE f == [version |-> version, list |-> list[mod[i]]]
  <2>1. pc' = [pc EXCEPT ![i] = "write"] /\ val' = [val EXCEPT ![i] = f]
    BY <1>3 DEF Poll, Goto
  <2>2. f.version = version /\ f \in Frame /\ f # NoFrame
    BY <1>1, ConstantsAssumption DEF Frame, Shape, TypeOK, Bound, Counted
  <2> HIDE DEF f
  <2>3. /\ val'[i] = f /\ pc'[i] = "write"
        /\ \A j \in Loop : j # i => val'[j] = val[j] /\ pc'[j] = pc[j]
    BY <2>1 DEF Shape, TypeOK
  <2>4. Held'
    BY <1>1, <2>2, <2>3 DEF Order, Held
  <2>5. version <= version
    BY FrameVersion
  <2>6. Past'
    BY <1>1, <2>2, <2>3, <2>5 DEF Order, Past
  <2>7. NotBehind'
    <3>1. conn[i] \in Conn
      BY DEF Shape, TypeOK
    <3> QED  BY <1>1, <2>2, <2>3, <3>1 DEF Order, NotBehind, Past
  <2>8. InTurn'
    <3>1. \A j \in Loop : pc[j] = "writing" => val[j].version <= version
      BY DEF Order, Past, Held
    <3> QED  BY <1>1, <2>2, <2>3, <3>1 DEF Order, InTurn
  <2> QED  BY <2>4, <2>6, <2>7, <2>8 DEF Order
<1> QED  BY <1>2, <1>3

LEMMA WriteBeginOrder ==
  ASSUME Shape, Registry, Order, NEW i \in Loop, WriteBegin(i)
  PROVE  Order'
<1>1. /\ pc[i] = "write" /\ val[i] # NoFrame /\ writeMu[conn[i]] = Free
      /\ UNCHANGED <<seen, cancelled, version, conn>>
  BY DEF WriteBegin, Order, Held, messages
<1>2. CASE Dropped(i)
  <2>1. /\ val'[i] = NoFrame /\ pc'[i] = "done" /\ UNCHANGED writeMu
        /\ \A j \in Loop : j # i => val'[j] = val[j] /\ pc'[j] = pc[j]
    BY <1>2 DEF WriteBegin, Finish, Goto, Shape, TypeOK
  <2> QED  BY <1>1, <2>1 DEF Order, Held, Past, NotBehind, InTurn
<1>3. CASE ~Dropped(i)
  <2>1. /\ pc'[i] = "writing" /\ UNCHANGED val /\ writeMu' = [writeMu EXCEPT ![conn[i]] = i]
        /\ \A j \in Loop : j # i => pc'[j] = pc[j]
    BY <1>3 DEF WriteBegin, Goto, Shape, TypeOK
  <2>2. i \notin cancelled
    BY <1>3 DEF Dropped
  <2>3. \A j \in Loop : pc[j] = "writing" => conn[j] # conn[i]
    BY <1>1, ConstantsAssumption DEF Order, Held
  <2>4. Held'
    BY <1>1, <2>1, <2>3 DEF Order, Held, Shape, TypeOK
  <2>5. Past' /\ NotBehind'
    BY <1>1, <2>1, <2>2 DEF Order, Past, NotBehind
  <2>6. InTurn'
    <3>1. ASSUME NEW k \in Loop, NEW j \in Loop, val'[k] # NoFrame, k \notin cancelled',
                 pc'[j] = "writing", conn'[j] = conn'[k]
          PROVE  val'[j].version <= val'[k].version
      <4>1. CASE j = i
        <5>1. k = i
          BY <1>1, <2>1, <2>2, <3>1, <4>1, OneFrame
        <5>2. val[i].version <= val[i].version
          BY <1>1, FrameVersion
        <5> QED  BY <2>1, <4>1, <5>1, <5>2
      <4>2. CASE j # i
        BY <1>1, <2>1, <3>1, <4>2 DEF Order, InTurn
      <4> QED  BY <4>1, <4>2
    <3> QED  BY <3>1 DEF InTurn
  <2> QED  BY <2>4, <2>5, <2>6 DEF Order
<1> QED  BY <1>2, <1>3

LEMMA WriteEndOrder ==
  ASSUME Shape, Order, NEW i \in Loop, WriteEnd(i)
  PROVE  Order'
<1>1. /\ pc[i] = "writing" /\ val[i] # NoFrame /\ writeMu[conn[i]] = i /\ conn[i] \in Conn
      /\ UNCHANGED <<cancelled, version, conn>>
      /\ writeMu' = [writeMu EXCEPT ![conn[i]] = Free]
      /\ val'[i] = NoFrame /\ pc'[i] \notin {"write", "writing"}
      /\ \A j \in Loop : j # i => val'[j] = val[j] /\ pc'[j] = pc[j]
  BY DEF WriteEnd, Finish, Goto, Order, Held, messages, Shape, TypeOK
<1>2. \A j \in Loop : pc[j] = "writing" /\ j # i => conn[j] # conn[i]
  BY <1>1 DEF Order, Held
<1>3. Held'
  BY <1>1, <1>2 DEF Order, Held, Shape, TypeOK
<1>4. InTurn'
  BY <1>1 DEF Order, InTurn
<1>5. CASE UNCHANGED seen
  BY <1>1, <1>3, <1>4, <1>5 DEF Order, Past, NotBehind
<1>6. CASE seen' = [seen EXCEPT ![conn[i]] = val[i]]
  <2>1. /\ seen'[conn[i]] = val[i]
        /\ \A c \in Conn : c # conn[i] => seen'[c] = seen[c]
    BY <1>1, <1>6 DEF Shape, TypeOK
  <2>2. Past'
    BY <1>1, <2>1 DEF Order, Past
  <2>3. ASSUME NEW j \in Loop, val'[j] # NoFrame, j \notin cancelled' \/ pc'[j] = "writing",
               seen'[conn'[j]] # NoFrame
        PROVE  seen'[conn'[j]].version <= val'[j].version
    <3>1. j # i /\ conn[j] \in Conn
      BY <1>1, <2>3 DEF Shape, TypeOK
    <3>2. CASE conn[j] = conn[i]
      <4>1. j \notin cancelled
        BY <1>1, <1>2, <2>3, <3>1, <3>2
      <4> QED  BY <1>1, <2>1, <2>3, <3>1, <3>2, <4>1 DEF Order, InTurn
    <3>3. CASE conn[j] # conn[i]
      BY <1>1, <2>1, <2>3, <3>1, <3>3 DEF Order, NotBehind
    <3> QED  BY <3>2, <3>3
  <2> QED  BY <1>3, <1>4, <2>2, <2>3 DEF Order, NotBehind
<1> QED  BY <1>5, <1>6 DEF WriteEnd

\* The steps that neither poll nor write are quiet.
LEMMA ReaderOrder ==
  ASSUME Shape, Order, NEW c \in Conn, ~Track(c),
         \/ ReaderStep(c) \/ Lookup(c) \/ Unsubscribe(c) \/ ReadFails(c) \/ Keepalive(c)
  PROVE  Order'
<1>1. /\ UNCHANGED <<val, seen, writeMu, conn>> /\ cancelled \subseteq cancelled'
      /\ version' = version \/ version' = version + 1
  BY DEF ReaderStep, Lookup, Subscribe, Factory, FactoryFailed, Unsubscribe, Call, ChangeList,
         Reply, ReadFails, Keepalive, loops, messages
<1>2. \A i \in Loop : \/ pc'[i] = pc[i]
                      \/ pc[i] = "factory" /\ pc'[i] \in {"poll", "done"}
  BY DEF ReaderStep, Lookup, Subscribe, Factory, FactoryFailed, Unsubscribe, Call, Reply, ReadFails,
         Keepalive, loops, Goto, Shape, TypeOK, InFactory
<1> QED  BY <1>1, <1>2, QuietOrder DEF Order, Held

LEMMA TrackOrder ==
  ASSUME Shape, Order, NEW c \in Conn, Track(c)
  PROVE  Order'
<1>1. UNCHANGED <<val, seen, writeMu, version>> /\ cancelled \subseteq cancelled'
  BY DEF Track, messages
<1>2. subSeq + 1 \in Loop => pc[subSeq + 1] = "none"
  BY DEF Shape, TypeOK, Numbered, Loop
<1>3. \A i \in Loop : \/ pc'[i] = pc[i] /\ conn'[i] = conn[i]
                      \/ pc[i] = "none" /\ pc'[i] \in {"poll", "factory"}
  BY <1>2 DEF Track, Goto, Shape, TypeOK
<1> QED  BY <1>1, <1>3, QuietOrder DEF Order, Held

LEMMA StepOrder == Shape /\ Registry /\ Order /\ [Next]_vars => Order'
<1> SUFFICES ASSUME Shape, Registry, Order, [Next]_vars  PROVE Order'
  OBVIOUS
<1>1. CASE UNCHANGED vars \/ Operator \/ \E m \in Module : Load(m) \/ Sweep(m) \/ Destroy(m) \/ GiveUp(m)
  <2>1. /\ UNCHANGED <<val, seen, writeMu, conn, pc>> /\ cancelled \subseteq cancelled'
        /\ version' = version \/ version' = version + 1
    BY <1>1 DEF vars, Operator, Load, Sweep, Destroy, GiveUp, loops, messages
  <2> QED  BY <2>1, QuietOrder DEF Order, Held
<1>2. ASSUME NEW c \in Conn,
             Lookup(c) \/ Unsubscribe(c) \/ ReadFails(c) \/ Keepalive(c) \/ ReaderStep(c)
      PROVE  Order'
  BY <1>2, ReaderOrder, TrackOrder
<1>3. ASSUME NEW i \in Loop, Tick(i) \/ Leave(i)  PROVE Order'
  <2>1. /\ UNCHANGED <<seen, writeMu, conn, version, cancelled>> /\ pc[i] = "wait"
        /\ val' = val \/ val' = [val EXCEPT ![i] = NoFrame]
        /\ pc' = [pc EXCEPT ![i] = "poll"] \/ pc' = [pc EXCEPT ![i] = "done"]
    BY <1>3 DEF Tick, Leave, Goto, Finish, messages
  <2>2. UNCHANGED val
    BY <1>3, <2>1 DEF Order, Held, Shape, TypeOK
  <2> QED  BY <1>3, <2>1, <2>2, QuietOrder DEF Order, Held, Shape, TypeOK
<1>4. ASSUME NEW i \in Loop, Poll(i) \/ WriteBegin(i) \/ WriteEnd(i)  PROVE Order'
  BY <1>4, PollOrder, WriteBeginOrder, WriteEndOrder
<1> QED  BY <1>1, <1>2, <1>3, <1>4 DEF Next, LoopStep

\* A client is never shown an older list after a newer one (writeUpdate): not by
\* the loop of a subscription it has given up, nor by two loops that overtake
\* each other.
THEOREM NeverOlder == Spec => NeverBack
<1> DEFINE Forward == \A c \in Conn : seen[c] # NoFrame => seen'[c].version >= seen[c].version
<1>1. Init => Shape /\ Registry /\ Order
  BY InitShape, InitRegistry, InitOrder
<1>2. Shape /\ Registry /\ Order /\ [Next]_vars => (Shape /\ Registry /\ Order)'
  BY StepShape, StepRegistry, StepOrder
<1>3. ASSUME Shape, Order, [Next]_vars  PROVE Forward
  <2>1. CASE UNCHANGED seen
    BY <1>3, <2>1, FrameVersion
  <2>2. ASSUME NEW i \in Loop, WriteEnd(i), ~UNCHANGED seen  PROVE Forward
    <3>1. /\ seen' = [seen EXCEPT ![conn[i]] = val[i]] /\ pc[i] = "writing"
          /\ val[i] # NoFrame
      BY <1>3, <2>2 DEF WriteEnd, Order, Held
    <3>2. seen[conn[i]] # NoFrame =>
            /\ seen[conn[i]].version <= val[i].version
            /\ seen[conn[i]].version \in Nat /\ val[i].version \in Nat
      BY <1>3, <2>2, <3>1, FrameVersion DEF Order, NotBehind, Shape, TypeOK
    <3>3. \A c \in Conn : seen[c] # NoFrame => seen[c].version >= seen[c].version
      BY <1>3, FrameVersion
    <3> QED  BY <1>3, <3>1, <3>2, <3>3 DEF Shape, TypeOK
  <2>3. UNCHANGED seen \/ \E i \in Loop : WriteEnd(i)
    BY <1>3 DEF Next, vars, Operator, Load, Sweep, Destroy, GiveUp, Lookup, Unsubscribe,
                ReadFails, Keepalive, ReaderStep, Subscribe, Track, Factory, FactoryFailed, Call,
                Reply, LoopStep, Poll, WriteBegin, Tick, Leave
  <2> QED  BY <2>1, <2>2, <2>3
<1>4. Shape /\ Registry /\ Order /\ [Next]_vars => [Forward]_vars
  BY <1>3
<1> QED  BY <1>1, <1>2, <1>4, PTL DEF Spec, NeverBack
=============================================================================
