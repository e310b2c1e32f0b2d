----------------------------- MODULE WatchServer -----------------------------
(***************************************************************************)
(* The API server's watch channel (ws_handler.go) in front of milltask's   *)
(* message list (messages.go).  A client connection has one reader         *)
(* goroutine, which serves subscribe, unsubscribe and call messages, and   *)
(* one push goroutine per subscription, which polls a watch function of    *)
(* the module and sends what changed.  Unloading the module takes its API  *)
(* out of the registry, cancels its push loops and waits for them before   *)
(* the module is destroyed; a module of the same name may be loaded again. *)
(*                                                                         *)
(* One watched function is modelled: each connection has at most one        *)
(* subscription, which a second subscribe supersedes.                      *)
(***************************************************************************)
EXTENDS Naturals, FiniteSets

CONSTANTS
    Conn,                  \* client connections
    Module, NoModule,      \* loads of the module, one after the other
    Kind,                  \* message kinds
    Free, NoFrame,         \* no holder of a write lock; nothing sent yet
    MaxList,               \* maxMessageList
    MaxSubs, MaxVersion,   \* bounds of the model: subscriptions, list changes
    Env                    \* "wedged", "factory", "change": see below

Loop == 1..MaxSubs         \* subscriptions and their push loops, by subSeq

\* Identifiers grow with every message, so a list in order is a set of messages.
Message == [id : 1..MaxVersion, kind : Kind]
Frame == [version : 0..MaxVersion, list : SUBSET Message]

ASSUME ConstantsAssumption ==
    /\ Conn # {} /\ NoModule \notin Module /\ Free \notin Loop /\ NoFrame \notin Frame
    /\ MaxList \in Nat \ {0} /\ MaxSubs \in Nat /\ MaxVersion \in Nat
    /\ Env \subseteq {"wedged", "factory", "change"}

VARIABLES
    api, stage,            \* the registered module, and how far each is
    gaveUp,                \* modules destroyed after the five seconds
    subSeq, tracked,       \* the registry: ids given, subscriptions tracked
    reader, resolved,      \* per connection: the reader's step, the API it got
    sub, open, writeMu,    \* its subscription (0: none), whether it lives, lock
    pc, conn, mod, group,  \* per loop: step, connection, module it calls, and
                           \* the module whose unload waits for it
    cancelled,             \* loops whose context is cancelled
    val, prev,             \* what a loop polled, what it sent last
    list, version,         \* each task's message list; all changes, counted
    seen                   \* the last frame each client was sent

module == <<api, stage, gaveUp>>
loops == <<pc, conn, mod, group, val, prev>>
messages == <<list, version>>
vars == <<module, subSeq, tracked, reader, resolved, sub, open, writeMu, loops,
          cancelled, messages, seen>>

TypeOK ==
    /\ api \in Module \cup {NoModule} /\ gaveUp \subseteq Module
    /\ stage \in [Module -> {"new", "loaded", "waiting", "destroyed"}]
    /\ subSeq \in 0..MaxSubs /\ tracked \subseteq Loop /\ cancelled \subseteq Loop
    /\ reader \in [Conn -> {"read", "subscribe", "track", "factory", "drop",
                            "call", "reply", "closed"}]
    /\ resolved \in [Conn -> Module \cup {NoModule}]
    /\ sub \in [Conn -> Loop \cup {0}]
    /\ open \in [Conn -> BOOLEAN]
    /\ writeMu \in [Conn -> Loop \cup {Free}]
    /\ pc \in [Loop -> {"none", "factory", "poll", "write", "writing", "wait", "done"}]
    /\ conn \in [Loop -> Conn]
    /\ mod \in [Loop -> Module \cup {NoModule}]
    /\ group \in [Loop -> Module \cup {NoModule}]
    /\ val \in [Loop -> Frame \cup {NoFrame}] /\ prev \in [Loop -> Frame \cup {NoFrame}]
    /\ list \in [Module -> SUBSET Message]
    /\ \A m \in Module : Cardinality(list[m]) <= MaxList
    /\ version \in 0..MaxVersion
    /\ seen \in [Conn -> Frame \cup {NoFrame}]

Init ==
    /\ api = NoModule /\ stage = [m \in Module |-> "new"] /\ gaveUp = {}
    /\ subSeq = 0 /\ tracked = {} /\ cancelled = {}
    /\ reader = [c \in Conn |-> "read"] /\ resolved = [c \in Conn |-> NoModule]
    /\ sub = [c \in Conn |-> 0] /\ open = [c \in Conn |-> TRUE]
    /\ writeMu = [c \in Conn |-> Free]
    /\ pc = [i \in Loop |-> "none"] /\ conn \in [Loop -> {CHOOSE c \in Conn : TRUE}]
    /\ mod = [i \in Loop |-> NoModule] /\ group = [i \in Loop |-> NoModule]
    /\ val = [i \in Loop |-> NoFrame] /\ prev = [i \in Loop |-> NoFrame]
    /\ list = [m \in Module |-> {}] /\ version = 0
    /\ seen = [c \in Conn |-> NoFrame]

Read(c, step) == reader' = [reader EXCEPT ![c] = step]
Goto(i, step) == pc' = [pc EXCEPT ![i] = step]
Finish(i) == /\ Goto(i, "done")
             /\ val' = [val EXCEPT ![i] = NoFrame] /\ prev' = [prev EXCEPT ![i] = NoFrame]
Counted(i) == pc[i] \notin {"none", "done"}    \* in its WaitGroup

-----------------------------------------------------------------------------
(* The message list.                                                       *)

Oldest(l) == {msg \in l : \A other \in l : msg.id <= other.id}

AppendedMutant(l, msg) ==          \* room is made one message too late
    (IF Cardinality(l) > MaxList THEN l \ Oldest(l) ELSE l) \cup {msg}

\* appendMessage drops the oldest beyond the bound.
Appended(l, msg) ==
    (IF Cardinality(l) >= MaxList THEN l \ Oldest(l) ELSE l) \cup {msg}

\* What the commands make of a list: publish, ack_all, ack_message, ack_error
\* and its like.  Messages are numbered as the list changes.
Changed(l) ==
    {Appended(l, [id |-> version + 1, kind |-> k]) : k \in Kind}
    \cup {{}}
    \cup {l \ {msg} : msg \in l}
    \cup {{msg \in l : msg.kind # k} : k \in Kind}

ChangeList(m) ==
    /\ version < MaxVersion
    /\ \E l \in Changed(list[m]) \ {list[m]} : list' = [list EXCEPT ![m] = l]
    /\ version' = version + 1

\* operatorError and its like, from any goroutine of the task.
Operator ==
    /\ "change" \in Env /\ version < MaxVersion
    /\ \E m \in Module, k \in Kind :
           /\ stage[m] \in {"loaded", "waiting"}
           /\ list' = [list EXCEPT ![m] = Appended(list[m], [id |-> version + 1, kind |-> k])]
    /\ version' = version + 1
    /\ UNCHANGED <<module, subSeq, tracked, reader, resolved, sub, open, writeMu,
                   loops, cancelled, seen>>

-----------------------------------------------------------------------------
(* Load and unload.                                                        *)

\* A module of the name is loaded when there is none (bound: not again after an
\* unload that gave up).
Load(m) ==
    /\ stage[m] = "new" /\ gaveUp = {} /\ \A n \in Module : stage[n] \in {"new", "destroyed"}
    /\ stage' = [stage EXCEPT ![m] = "loaded"] /\ api' = m
    /\ UNCHANGED <<gaveUp, subSeq, tracked, reader, resolved, sub, open, writeMu,
                   loops, cancelled, messages, seen>>

\* UnregisterByInstance: no new subscription finds the API, and those that run
\* are cancelled, in one hold of the registry's lock ...
Sweep(m) ==
    /\ stage[m] = "loaded"
    /\ api' = NoModule
    /\ cancelled' = cancelled \cup tracked
    /\ tracked' = {}
    /\ stage' = [stage EXCEPT ![m] = "waiting"]
    /\ UNCHANGED <<gaveUp, subSeq, reader, resolved, sub, open, writeMu, loops,
                   messages, seen>>

WaitedOutMutant(m) == \A i \in Loop : group[i] = m => i \in cancelled
WaitedOut(m) == \A i \in Loop : Counted(i) => group[i] # m

\* ... then their loops are waited for, and the module is destroyed ...
Destroy(m) ==
    /\ stage[m] = "waiting" /\ WaitedOut(m)
    /\ stage' = [stage EXCEPT ![m] = "destroyed"]
    /\ UNCHANGED <<api, gaveUp, subSeq, tracked, reader, resolved, sub, open,
                   writeMu, loops, cancelled, messages, seen>>

\* ... or destroyed anyway: a wedged callback degrades an unload.
GiveUp(m) ==
    /\ "wedged" \in Env /\ stage[m] = "waiting"
    /\ stage' = [stage EXCEPT ![m] = "destroyed"]
    /\ gaveUp' = gaveUp \cup {m}
    /\ UNCHANGED <<api, subSeq, tracked, reader, resolved, sub, open, writeMu,
                   loops, cancelled, messages, seen>>

-----------------------------------------------------------------------------
(* The reader of a connection.                                             *)

\* A subscribe or a call is read and its API looked up; an unknown API is
\* answered with an error.
Lookup(c) ==
    /\ reader[c] = "read" /\ open[c]
    /\ resolved' = [resolved EXCEPT ![c] = api]
    /\ \E step \in {"subscribe", "call"} :
           /\ step = "subscribe" => subSeq < MaxSubs
           /\ Read(c, IF api = NoModule THEN "reply" ELSE step)
    /\ UNCHANGED <<module, subSeq, tracked, sub, open, writeMu, loops, cancelled,
                   messages, seen>>

SupersedesMutant(c) == {}          \* the old loop runs on
Supersedes(c) == {sub[c]} \ {0}

\* handleSubscribe: the connection's old subscription is cancelled, and its
\* tracking undone.  The cancellation needs no lock; that the two are one step,
\* here and wherever else they follow each other, loses nothing: only Sweep looks
\* at what is tracked, to cancel it once more ...
Subscribe(c) ==
    /\ reader[c] = "subscribe"
    /\ cancelled' = cancelled \cup Supersedes(c)
    /\ tracked' = tracked \ {sub[c]}
    /\ Read(c, "track")
    /\ UNCHANGED <<module, subSeq, resolved, sub, open, writeMu, loops, messages,
                   seen>>

\* ... and in a second hold of the registry's lock the new one is tracked, or
\* refused if no API of the name is registered any more.  The new loop starts
\* polling, or a factory makes its watch function first.
Track(c) ==
    /\ reader[c] = "track"
    /\ IF api = NoModule
       THEN /\ sub' = [sub EXCEPT ![c] = 0]
            /\ Read(c, "reply")
            /\ UNCHANGED <<subSeq, tracked, cancelled, pc, conn, mod, group>>
       ELSE LET i == subSeq + 1 IN
            /\ i \in Loop
            /\ subSeq' = i
            /\ cancelled' = cancelled \cup (IF open[c] THEN {} ELSE {i})
            /\ tracked' = tracked \cup {i}
            /\ sub' = [sub EXCEPT ![c] = i]
            /\ conn' = [conn EXCEPT ![i] = c]
            /\ mod' = [mod EXCEPT ![i] = resolved[c]]
            /\ group' = [group EXCEPT ![i] = api]
            /\ \/ Goto(i, "poll") /\ Read(c, "read")
               \/ "factory" \in Env /\ Goto(i, "factory") /\ Read(c, "factory")
    /\ resolved' = [resolved EXCEPT ![c] = NoModule]
    /\ UNCHANGED <<module, open, writeMu, val, prev, messages, seen>>

\* The factory returns a watch function, and the loop starts, or an error.
Factory(c) ==
    /\ reader[c] = "factory"
    /\ \/ Goto(sub[c], "poll") /\ Read(c, "read")
       \/ Read(c, "drop") /\ UNCHANGED pc
    /\ UNCHANGED <<module, subSeq, tracked, resolved, sub, open, writeMu, conn,
                   mod, group, val, prev, cancelled, messages, seen>>

\* Once the error is sent the subscription is taken back.
FactoryFailed(c) ==
    /\ reader[c] = "drop" /\ writeMu[c] = Free
    /\ cancelled' = cancelled \cup {sub[c]}
    /\ Goto(sub[c], "done")
    /\ tracked' = tracked \ {sub[c]}
    /\ sub' = [sub EXCEPT ![c] = 0]
    /\ Read(c, "read")
    /\ UNCHANGED <<module, subSeq, resolved, open, writeMu, conn, mod, group, val,
                   prev, messages, seen>>

Unsubscribe(c) ==
    /\ reader[c] = "read" /\ open[c] /\ sub[c] # 0
    /\ cancelled' = cancelled \cup {sub[c]}
    /\ tracked' = tracked \ {sub[c]}
    /\ sub' = [sub EXCEPT ![c] = 0]
    /\ UNCHANGED <<module, subSeq, reader, resolved, open, writeMu, loops, messages,
                   seen>>

\* A command runs on the reader's goroutine: publish or an acknowledgement.
\* One that changes nothing is a step of the reader only.
Call(c) ==
    /\ reader[c] = "call"
    /\ ChangeList(resolved[c]) \/ UNCHANGED messages
    /\ Read(c, "reply")
    /\ resolved' = [resolved EXCEPT ![c] = NoModule]
    /\ UNCHANGED <<module, subSeq, tracked, sub, open, writeMu, loops,
                   cancelled, seen>>

\* Results and errors are written under the connection's write lock.
Reply(c) ==
    /\ reader[c] = "reply" /\ writeMu[c] = Free
    /\ Read(c, "read")
    /\ UNCHANGED <<module, subSeq, tracked, resolved, sub, open, writeMu, loops,
                   cancelled, messages, seen>>

\* The read fails, the client being gone: dropAll, and the context ends.
ReadFails(c) ==
    /\ reader[c] = "read"
    /\ open' = [open EXCEPT ![c] = FALSE]
    /\ cancelled' = cancelled \cup {i \in Loop : Counted(i) /\ conn[i] = c}
    /\ tracked' = tracked \ {sub[c]}
    /\ sub' = [sub EXCEPT ![c] = 0]
    /\ Read(c, "closed")
    /\ UNCHANGED <<module, subSeq, resolved, writeMu, loops, messages, seen>>

\* A ping goes unanswered: keepalive ends the context and the connection.
Keepalive(c) ==
    /\ open[c] /\ reader[c] # "closed"
    /\ open' = [open EXCEPT ![c] = FALSE]
    /\ cancelled' = cancelled \cup {i \in Loop : Counted(i) /\ conn[i] = c}
    /\ UNCHANGED <<module, subSeq, tracked, reader, resolved, sub, writeMu, loops,
                   messages, seen>>

ReaderStep(c) == \/ Subscribe(c) \/ Track(c) \/ Factory(c) \/ FactoryFailed(c)
                 \/ Call(c) \/ Reply(c) \/ (~open[c] /\ ReadFails(c))

-----------------------------------------------------------------------------
(* A push loop.                                                            *)

UnchangedMutant(i) ==              \* as many messages as before
    prev[i] # NoFrame /\ Cardinality(prev[i].list) = Cardinality(list[mod[i]])
UnchangedSince(i) == prev[i] # NoFrame /\ prev[i].list = list[mod[i]]

\* The watch function is called into; the loop sends what it returns unless it
\* equals what was sent last.  The first poll looks at no context.
Poll(i) ==
    /\ pc[i] = "poll"
    /\ IF UnchangedSince(i)
       THEN Goto(i, "wait") /\ UNCHANGED val
       ELSE /\ Goto(i, "write")
            /\ val' = [val EXCEPT ![i] = [version |-> version, list |-> list[mod[i]]]]
    /\ UNCHANGED <<module, subSeq, tracked, reader, resolved, sub, open, writeMu,
                   conn, mod, group, prev, cancelled, messages, seen>>

DroppedMutant(i) == ~open[conn[i]] \* only a lost connection stops a write
Dropped(i) == i \in cancelled

\* writeUpdate drops the frame of a cancelled subscription, looking under the
\* lock that orders all writes of the connection ...
WriteBegin(i) ==
    /\ pc[i] = "write" /\ writeMu[conn[i]] = Free
    /\ IF Dropped(i)
       THEN Finish(i) /\ UNCHANGED writeMu
       ELSE /\ Goto(i, "writing") /\ writeMu' = [writeMu EXCEPT ![conn[i]] = i]
            /\ UNCHANGED <<val, prev>>
    /\ UNCHANGED <<module, subSeq, tracked, reader, resolved, sub, open, conn, mod,
                   group, cancelled, messages, seen>>

\* ... and holds it until the client has taken the frame, or the write fails,
\* which ends the loop: because the connection is gone, or because a context
\* cancelled in mid-write closes it.
WriteEnd(i) ==
    /\ pc[i] = "writing"
    /\ writeMu' = [writeMu EXCEPT ![conn[i]] = Free]
    /\ \/ /\ open[conn[i]]
          /\ seen' = [seen EXCEPT ![conn[i]] = val[i]]
          /\ prev' = [prev EXCEPT ![i] = val[i]]
          /\ val' = [val EXCEPT ![i] = NoFrame]
          /\ Goto(i, "wait")
          /\ UNCHANGED open
       \/ /\ ~open[conn[i]] \/ i \in cancelled
          /\ open' = [open EXCEPT ![conn[i]] = FALSE]
          /\ Finish(i)
          /\ UNCHANGED seen
    /\ UNCHANGED <<module, subSeq, tracked, reader, resolved, sub, conn, mod, group,
                   cancelled, messages>>

\* The next tick ...
Tick(i) ==
    /\ pc[i] = "wait" /\ Goto(i, "poll")
    /\ UNCHANGED <<module, subSeq, tracked, reader, resolved, sub, open, writeMu,
                   conn, mod, group, val, prev, cancelled, messages, seen>>

LeaveMutant(i) ==                  \* the connection's context, not its own
    /\ pc[i] = "wait" /\ ~open[conn[i]] /\ Finish(i)
    /\ UNCHANGED <<module, subSeq, tracked, reader, resolved, sub, open, writeMu,
                   conn, mod, group, cancelled, messages, seen>>

\* ... or the cancelled context; select takes either when both are ready.
Leave(i) ==
    /\ pc[i] = "wait" /\ i \in cancelled /\ Finish(i)
    /\ UNCHANGED <<module, subSeq, tracked, reader, resolved, sub, open, writeMu,
                   conn, mod, group, cancelled, messages, seen>>

LoopStep(i) == Poll(i) \/ WriteBegin(i) \/ WriteEnd(i) \/ Tick(i) \/ Leave(i)

-----------------------------------------------------------------------------
Next ==
    \/ Operator
    \/ \E m \in Module : Load(m) \/ Sweep(m) \/ Destroy(m) \/ GiveUp(m)
    \/ \E c \in Conn : \/ Lookup(c) \/ Unsubscribe(c) \/ ReadFails(c) \/ Keepalive(c)
                       \/ ReaderStep(c)
    \/ \E i \in Loop : LoopStep(i)

Spec == Init /\ [][Next]_vars

\* Goroutines run.  A write comes to an end because keepalive closes the
\* connection of a client that does not read.  Strong fairness stands for
\* select, which picks at random among what is ready.
Fairness ==
    /\ \A m \in Module : WF_vars(Destroy(m))
    /\ \A c \in Conn : WF_vars(ReaderStep(c))
    /\ \A i \in Loop : WF_vars(LoopStep(i)) /\ SF_vars(Leave(i))

FairSpec == Spec /\ Fairness

-----------------------------------------------------------------------------
\* A push loop that nobody has cancelled is tracked, so that an unload can
\* reach it; and only the subscription a connection has now is tracked, so that
\* the registry does not grow with the subscriptions that are gone.
TrackedExactly ==
    /\ \A i \in Loop : Counted(i) /\ i \notin cancelled => i \in tracked
    /\ \A i \in tracked : sub[conn[i]] = i /\ group[i] = api

\* No push loop calls into a module that its unload has destroyed, unless the
\* unload gave up waiting.  A loop whose API was looked up before a reload and
\* tracked after it polls the old module; no unload waits for it, and it is
\* exempt here and in ListConverges.
UnloadSafe ==
    \A i \in Loop : pc[i] \in {"factory", "poll"} /\ mod[i] = group[i] =>
        stage[mod[i]] # "destroyed" \/ mod[i] \in gaveUp

\* A client is never shown an older list after a newer one, however often it
\* subscribed, unsubscribed and subscribed again (the promise of writeUpdate).
NeverBack ==
    [][\A c \in Conn : seen[c] # NoFrame => seen'[c].version >= seen[c].version]_vars

\* Once the list no longer changes, a client that is subscribed shows it: no
\* change is lost between two polls, two subscriptions or two loads.
Shows(c) == seen[c] # NoFrame /\ seen[c].list = list[api]
ListConverges ==
    \A c \in Conn : <>[](sub[c] \in tracked /\ mod[sub[c]] = api => Shows(c))

\* An unload does not wait for ever: every loop of the module comes to its end.
UnloadEnds == (\E m \in Module : stage[m] = "waiting") ~> (\A m \in Module : stage[m] # "waiting")
=============================================================================
