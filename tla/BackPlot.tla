------------------------------ MODULE BackPlot ------------------------------
(***************************************************************************)
(* The back plot of a user interface.  A PositionLogger (positionlogger.py)*)
(* keeps a WebSocket connection open through a WatchClient (_watch.py): a  *)
(* thread with an asyncio loop that connects, subscribes, sets the server  *)
(* up, receives, and starts again after a drop until it is stopped.  At    *)
(* the other end milltask's posLogger (poslog.go) samples the machine      *)
(* position, and the push loop of each connection (ws_handler.go) drains   *)
(* what was sampled and sends it.                                          *)
(*                                                                         *)
(* A connection is a number, and so is a sample: the n-th point that was   *)
(* put into the buffer.                                                    *)
(***************************************************************************)
EXTENDS Naturals, Sequences

CONSTANTS
    MaxPending, Drop,      \* poslogMaxPending and a tenth of it
    MaxSessions, MaxConns, \* bounds of the model: start()s, connections,
    MaxLog,                \* samples
    Env                    \* "drop", "restart", "clear": see below

ASSUME ConstantsAssumption ==
    /\ MaxPending \in Nat /\ Drop \in 1..MaxPending
    /\ MaxSessions \in Nat /\ MaxConns \in Nat /\ MaxLog \in Nat
    /\ Env \subseteq {"drop", "restart", "clear"}

Connection == 1..MaxConns
Sampler == 1..MaxConns   \* a connection starts one at most

VARIABLES
    session,               \* start()s so far
    thread, ws,            \* step of _main; self._ws (0: None)
    stopping, shutdown,    \* self._stopping; step of _shutdown
    cancel,                \* a cancellation of _main that is not delivered yet
    cleared,               \* self._cleared_server
    clearing,              \* a clear_logger call that is not sent yet
    shown,                 \* samples in the plot
    nconn, live,           \* connections made; the last one has both its ends
    up, down,              \* calls under way, per connection; updates of the last
    loop, held, prev,      \* its push loop: step, batch to write, size of the last
    running, epoch,        \* posLogger; stop channels made
    sampler, stopCh,       \* per goroutine: step, and the stop channel it read
    pending, count         \* posLogger; samples taken

client == <<session, thread, stopping, shutdown, cancel, cleared, clearing, shown>>
net == <<ws, nconn, live, up, down>>
pushes == <<loop, held, prev>>
samplers == <<running, epoch, sampler, stopCh>>
buffer == <<pending, count>>
vars == <<client, net, pushes, samplers, buffer>>

Batch == Seq(1..MaxLog)

TypeOK ==
    /\ session \in 0..MaxSessions
    /\ thread \in {"none", "connect", "subscribe", "start", "clear", "recv",
                   "close", "exit", "sleep", "ended"}
    /\ ws \in {0, nconn}
    /\ stopping \in BOOLEAN /\ cancel \in BOOLEAN /\ cleared \in BOOLEAN
    /\ clearing \in BOOLEAN
    /\ shutdown \in {"none", "final", "close", "cancel"}
    /\ nconn \in 0..MaxConns /\ live \in BOOLEAN
    /\ up \in [Connection -> Seq({"subscribe", "start", "clear", "stop"})]
    /\ down \in Seq(Batch)
    /\ loop \in [Connection -> {"none", "wait", "write", "ended"}]
    /\ held \in [Connection -> Batch]
    /\ prev \in [Connection -> 0..MaxPending]
    /\ running \in BOOLEAN /\ epoch \in 0..MaxConns
    /\ sampler \in [Sampler -> {"none", "go", "select", "ended"}]
    /\ stopCh \in [Sampler -> 0..MaxConns]
    /\ pending \in Batch /\ Len(pending) <= MaxPending
    /\ count \in 0..MaxLog /\ shown \in Batch

Init ==
    /\ session = 0 /\ thread = "none" /\ ws = 0
    /\ stopping = FALSE /\ shutdown = "none" /\ cancel = FALSE
    /\ cleared = FALSE /\ clearing = FALSE /\ shown = <<>>
    /\ nconn = 0 /\ live = FALSE
    /\ up = [k \in Connection |-> <<>>] /\ down = <<>>
    /\ loop = [k \in Connection |-> "none"]
    /\ held = [k \in Connection |-> <<>>] /\ prev = [k \in Connection |-> 0]
    /\ running = FALSE /\ epoch = 0
    /\ sampler = [s \in Sampler |-> "none"] /\ stopCh = [s \in Sampler |-> 0]
    /\ pending = <<>> /\ count = 0

-----------------------------------------------------------------------------
(* The user interface's thread.                                            *)

\* start(): a new WatchClient, and an empty plot.  The PositionLogger may be a
\* new one, or the one that was stopped before (bounds: a connection is left to
\* make, and stop() has waited for the thread and did not run into its timeout).
Start ==
    /\ session < MaxSessions /\ nconn < MaxConns /\ thread \in {"none", "ended"}
    /\ session' = session + 1
    /\ thread' = "connect" /\ stopping' = FALSE /\ shutdown' = "none"
    /\ cancel' = FALSE /\ clearing' = FALSE
    /\ cleared' \in {cleared, FALSE}
    /\ shown' = <<>>
    /\ UNCHANGED <<net, pushes, samplers, buffer>>

\* stop(): _shutdown is scheduled on the thread's loop, which is joined.
Stop ==
    /\ thread \notin {"none", "ended"} /\ ~stopping
    /\ stopping' = TRUE /\ shutdown' = "final"
    /\ UNCHANGED <<session, thread, cancel, cleared, clearing, shown, net,
                   pushes, samplers, buffer>>

\* clear() empties the plot at once and schedules the call.
Clear ==
    /\ "clear" \in Env /\ thread \notin {"none", "ended"} /\ ~stopping /\ ~clearing
    /\ shown # <<>>
    /\ shown' = <<>> /\ clearing' = TRUE
    /\ UNCHANGED <<session, thread, stopping, shutdown, cancel, cleared, net,
                   pushes, samplers, buffer>>

-----------------------------------------------------------------------------
(* The client's loop thread: _main.                                        *)

Goto(step) == thread' = step
Open == ws # 0 /\ live
Send(k, call) == up' = [up EXCEPT ![k] = Append(@, call)]

\* An exception ends the pass: the finally clause closes the socket.
Raise == Goto("close") /\ UNCHANGED up

\* acall and the sends of _main fail on a socket that is gone; on one whose
\* other end is lost they may seem to succeed.
TrySend(call, next) ==
    \/ Open /\ Send(ws, call) /\ Goto(next)
    \/ ws # 0 /\ ~live /\ Goto(next) /\ UNCHANGED up
    \/ ~Open /\ Raise

Connect ==
    /\ thread = "connect" /\ nconn < MaxConns
    /\ nconn' = nconn + 1 /\ ws' = nconn' /\ live' = TRUE
    /\ Goto("subscribe")
    /\ UNCHANGED <<session, stopping, shutdown, cancel, cleared, clearing, shown,
                   up, down, pushes, samplers, buffer>>

ConnectFails ==
    /\ thread = "connect" /\ Goto("close")
    /\ UNCHANGED <<session, stopping, shutdown, cancel, cleared, clearing, shown,
                   net, pushes, samplers, buffer>>

Subscribe ==
    /\ thread = "subscribe" /\ TrySend("subscribe", "start")
    /\ UNCHANGED <<session, stopping, shutdown, cancel, cleared, clearing, shown,
                   ws, nconn, live, down, pushes, samplers, buffer>>

\* start_logger goes with clear_logger to the first connect alone.
OnConnectMutant ==
    /\ thread = "start"
    /\ IF cleared THEN Goto("recv") /\ UNCHANGED up ELSE TrySend("start", "clear")
    /\ UNCHANGED <<session, stopping, shutdown, cancel, cleared, clearing, shown,
                   ws, nconn, live, down, pushes, samplers, buffer>>

\* _on_connect: start_logger on every connect ...
OnConnect ==
    /\ thread = "start" /\ TrySend("start", IF cleared THEN "recv" ELSE "clear")
    /\ UNCHANGED <<session, stopping, shutdown, cancel, cleared, clearing, shown,
                   ws, nconn, live, down, pushes, samplers, buffer>>

\* ... clear_logger on the first.
FirstClear ==
    /\ thread = "clear" /\ cleared' = TRUE /\ TrySend("clear", "recv")
    /\ UNCHANGED <<session, stopping, shutdown, cancel, clearing, shown,
                   ws, nconn, live, down, pushes, samplers, buffer>>

\* An update adds its points to the plot.
Receive ==
    /\ thread = "recv" /\ down # <<>>
    /\ shown' = shown \o Head(down)
    /\ down' = Tail(down)
    /\ UNCHANGED <<session, thread, stopping, shutdown, cancel, cleared, clearing,
                   ws, nconn, live, up, pushes, samplers, buffer>>

\* The socket is closed, by either end, or a ping went unanswered.
ReceiveEnds ==
    /\ thread = "recv" /\ ~live /\ down = <<>>
    /\ Goto("close")
    /\ UNCHANGED <<session, stopping, shutdown, cancel, cleared, clearing, shown,
                   net, pushes, samplers, buffer>>

\* The pass after a lost connection is the last.
CloseMutant ==
    /\ thread \in {"close", "exit"}
    /\ ws' = 0 /\ live' = FALSE /\ down' = <<>> /\ Goto("ended")
    /\ UNCHANGED <<session, stopping, shutdown, cancel, cleared, clearing, shown,
                   nconn, up, pushes, samplers, buffer>>

\* The finally clause; "exit" when the cancellation is on its way up.  What
\* was received and not read goes with the socket.
Close ==
    /\ thread \in {"close", "exit"}
    /\ ws' = 0 /\ live' = FALSE /\ down' = <<>>
    /\ Goto(IF thread = "exit" \/ stopping THEN "ended" ELSE "sleep")
    /\ UNCHANGED <<session, stopping, shutdown, cancel, cleared, clearing, shown,
                   nconn, up, pushes, samplers, buffer>>

\* The back-off, after which the loop looks at _stopping.
Sleep ==
    /\ thread = "sleep" /\ Goto(IF stopping THEN "ended" ELSE "connect")
    /\ UNCHANGED <<session, stopping, shutdown, cancel, cleared, clearing, shown,
                   net, pushes, samplers, buffer>>

\* A cancellation is delivered at any await: it returns from the pass and from
\* the back-off; within the finally clause it is caught and dropped.
Cancelled ==
    /\ cancel /\ thread \notin {"none", "exit", "ended"}
    /\ cancel' = FALSE
    /\ Goto(CASE thread = "sleep" -> "ended"
              [] thread = "close" -> "close"
              [] OTHER            -> "exit")
    /\ UNCHANGED <<session, stopping, shutdown, cleared, clearing, shown, net,
                   pushes, samplers, buffer>>

Main == \/ Subscribe \/ OnConnect \/ FirstClear \/ Receive \/ ReceiveEnds
        \/ Close \/ Sleep \/ Cancelled

-----------------------------------------------------------------------------
(* Other coroutines of the loop.                                           *)

\* call() from the other thread: sent, or logged as failed.
ClearCall ==
    /\ clearing /\ clearing' = FALSE
    /\ IF Open /\ thread # "ended" THEN Send(ws, "clear") ELSE UNCHANGED up
    /\ UNCHANGED <<session, thread, stopping, shutdown, cancel, cleared, shown,
                   ws, nconn, live, down, pushes, samplers, buffer>>

\* _shutdown: the final call, if there is a socket; close it; cancel _main.
\* The loop's end takes an unfinished _shutdown with it.
FinalCall ==
    /\ shutdown = "final" /\ shutdown' = IF thread = "ended" THEN "none" ELSE "close"
    /\ IF Open /\ thread # "ended" THEN Send(ws, "stop") ELSE UNCHANGED up
    /\ UNCHANGED <<session, thread, stopping, cancel, cleared, clearing, shown,
                   ws, nconn, live, down, pushes, samplers, buffer>>

CloseSocket ==
    /\ shutdown = "close" /\ shutdown' = IF thread = "ended" THEN "none" ELSE "cancel"
    /\ IF thread = "ended" THEN UNCHANGED <<ws, live>>
                           ELSE ws' = 0 /\ live' = (live /\ ws = 0)
    /\ UNCHANGED <<session, thread, stopping, cancel, cleared, clearing, shown,
                   nconn, up, down, pushes, samplers, buffer>>

\* _shutdown closes the socket and leaves _main to notice.
CancelMutant ==
    /\ shutdown = "cancel" /\ shutdown' = "none" /\ UNCHANGED cancel
    /\ UNCHANGED <<session, thread, stopping, cleared, clearing, shown, net,
                   pushes, samplers, buffer>>

CancelMain ==
    /\ shutdown = "cancel" /\ shutdown' = "none" /\ cancel' = (thread # "ended")
    /\ UNCHANGED <<session, thread, stopping, cleared, clearing, shown, net,
                   pushes, samplers, buffer>>

Coroutine == ClearCall \/ FinalCall \/ CloseSocket \/ CancelMain

-----------------------------------------------------------------------------
(* The network and the server's end of a connection.                       *)

\* The connection is lost, and what was under way with it (bound: not the last
\* one that the model may make).
DropConnection ==
    /\ "drop" \in Env /\ live /\ nconn < MaxConns
    /\ live' = FALSE
    /\ \E n \in 0..Len(up[nconn]) : up' = [up EXCEPT ![nconn] = SubSeq(@, 1, n)]
    /\ \E n \in 0..Len(down) : down' = SubSeq(down, 1, n)
    /\ UNCHANGED <<client, ws, nconn, pushes, samplers, buffer>>

\* The server restarts: its connections and goroutines are gone, and so is what
\* it had sampled.
Restart ==
    /\ "restart" \in Env /\ nconn < MaxConns
    /\ live' = FALSE
    /\ up' = [k \in Connection |-> <<>>]
    /\ \E n \in 0..Len(down) : down' = SubSeq(down, 1, n)
    /\ loop' = [k \in Connection |-> IF loop[k] = "none" THEN "none" ELSE "ended"]
    /\ held' = [k \in Connection |-> <<>>] /\ prev' = [k \in Connection |-> 0]
    /\ running' = FALSE
    /\ sampler' = [s \in Sampler |-> IF sampler[s] = "none" THEN "none" ELSE "ended"]
    /\ stopCh' = [s \in Sampler |-> 0]
    /\ pending' = <<>>
    /\ UNCHANGED <<client, ws, nconn, epoch, count>>

Alive(k) == k = nconn /\ live

\* The reader serves the calls one after the other.
ServeSubscribe(k) ==
    /\ up[k] # <<>> /\ Head(up[k]) = "subscribe"
    /\ up' = [up EXCEPT ![k] = Tail(@)]
    /\ loop' = [loop EXCEPT ![k] = "wait"]
    /\ UNCHANGED <<client, ws, nconn, live, down, held, prev, samplers, buffer>>

\* startLogger does nothing while a sampler runs, or makes a stop channel and
\* starts one.
ServeStart(k) ==
    /\ up[k] # <<>> /\ Head(up[k]) = "start"
    /\ up' = [up EXCEPT ![k] = Tail(@)]
    /\ IF running THEN UNCHANGED samplers
       ELSE /\ epoch < MaxConns
            /\ running' = TRUE /\ epoch' = epoch + 1
            /\ sampler' = [sampler EXCEPT ![epoch'] = "go"]
            /\ UNCHANGED stopCh
    /\ UNCHANGED <<client, ws, nconn, live, down, pushes, buffer>>

ServeStop(k) ==
    /\ up[k] # <<>> /\ Head(up[k]) = "stop"
    /\ up' = [up EXCEPT ![k] = Tail(@)]
    /\ running' = FALSE
    /\ UNCHANGED <<client, ws, nconn, live, down, pushes, epoch, sampler, stopCh,
                    buffer>>

ServeClear(k) ==
    /\ up[k] # <<>> /\ Head(up[k]) = "clear"
    /\ up' = [up EXCEPT ![k] = Tail(@)]
    /\ pending' = <<>>
    /\ UNCHANGED <<client, ws, nconn, live, down, pushes, samplers, count>>

Serve(k) == ServeSubscribe(k) \/ ServeStart(k) \/ ServeStop(k) \/ ServeClear(k)

\* The server notices, by a failed read or ping, that the connection is gone,
\* and cancels its push loop.
Hangup(k) ==
    /\ ~Alive(k) /\ up[k] = <<>> /\ loop[k] \in {"wait", "write"}
    /\ loop' = [loop EXCEPT ![k] = "ended"]
    /\ held' = [held EXCEPT ![k] = <<>>] /\ prev' = [prev EXCEPT ![k] = 0]
    /\ UNCHANGED <<client, net, samplers, buffer>>

\* pollPositions hands out what is pending and keeps it.
DrainMutant(k) ==
    /\ loop[k] = "wait" /\ pending # <<>>
    /\ \/ Len(pending) = prev[k] /\ UNCHANGED <<loop, held>>
       \/ loop' = [loop EXCEPT ![k] = "write"] /\ held' = [held EXCEPT ![k] = pending]
    /\ UNCHANGED <<client, net, prev, samplers, buffer>>

\* pollPositions takes all that is pending; a batch that reads as the one
\* before, as one of its length may, is taken for no change.
Drain(k) ==
    /\ loop[k] = "wait" /\ pending # <<>>
    /\ pending' = <<>>
    /\ \/ Len(pending) = prev[k] /\ UNCHANGED <<loop, held>>
       \/ loop' = [loop EXCEPT ![k] = "write"] /\ held' = [held EXCEPT ![k] = pending]
    /\ UNCHANGED <<client, net, prev, samplers, count>>

\* The batch is written, into the void if the connection is lost; or the write
\* fails, which ends the loop.
Write(k) ==
    /\ loop[k] = "write"
    /\ held' = [held EXCEPT ![k] = <<>>]
    /\ \/ /\ loop' = [loop EXCEPT ![k] = "wait"]
          /\ prev' = [prev EXCEPT ![k] = Len(held[k])]
          /\ down' = IF Alive(k) THEN Append(down, held[k]) ELSE down
       \/ /\ ~Alive(k)
          /\ loop' = [loop EXCEPT ![k] = "ended"]
          /\ prev' = [prev EXCEPT ![k] = 0]
          /\ UNCHANGED down
    /\ UNCHANGED <<client, ws, nconn, live, up, samplers, buffer>>

Push(k) == Drain(k) \/ Write(k)

-----------------------------------------------------------------------------
(* posLogger's sampling goroutines, and the machine.                       *)

\* sampleLoop reads the stop channel without the lock, before its first pass ...
ReadStopCh(s) ==
    /\ sampler[s] = "go"
    /\ stopCh' = [stopCh EXCEPT ![s] = epoch]
    /\ sampler' = [sampler EXCEPT ![s] = "select"]
    /\ UNCHANGED <<client, net, pushes, running, epoch, buffer>>

\* stopLogger leaves the channel open; the next startLogger replaces it.
EndsMutant(s) ==
    /\ sampler[s] = "select" /\ stopCh[s] # epoch
    /\ sampler' = [sampler EXCEPT ![s] = "ended"]
    /\ stopCh' = [stopCh EXCEPT ![s] = 0]
    /\ UNCHANGED <<client, net, pushes, running, epoch, buffer>>

\* The channel it read is closed, whatever has been made since ...
Ends(s) ==
    /\ sampler[s] = "select" /\ (stopCh[s] # epoch \/ ~running)
    /\ sampler' = [sampler EXCEPT ![s] = "ended"]
    /\ stopCh' = [stopCh EXCEPT ![s] = 0]
    /\ UNCHANGED <<client, net, pushes, running, epoch, buffer>>

\* A buffer that nobody drains grows.
AppendMutant(n) == Append(pending, n)

\* appendPoint: the oldest make room in a buffer that nobody drains.
AppendPoint(n) ==
    Append(IF Len(pending) >= MaxPending THEN SubSeq(pending, Drop + 1, Len(pending))
           ELSE pending, n)

\* ... or its ticker fires, which select may choose although the channel is
\* closed: the machine's position is sampled unless it is the one before (bound:
\* MaxLog samples), and the stop channel read anew, which may be another by then.
Sample(s) ==
    /\ sampler[s] = "select"
    /\ stopCh' = [stopCh EXCEPT ![s] = epoch]
    /\ \/ UNCHANGED buffer
       \/ /\ count < MaxLog
          /\ count' = count + 1 /\ pending' = AppendPoint(count')
    /\ UNCHANGED <<client, net, pushes, running, epoch, sampler>>

SampleStep(s) == ReadStopCh(s) \/ Ends(s) \/ Sample(s)

-----------------------------------------------------------------------------
Next ==
    \/ Start \/ Stop \/ Clear
    \/ Connect \/ ConnectFails \/ Main \/ Coroutine \/ DropConnection \/ Restart
    \/ \E k \in Connection : Serve(k) \/ Hangup(k) \/ Push(k)
    \/ \E s \in Sampler : SampleStep(s)

\* The loop thread and its coroutines run, and an attempt to connect ends one
\* way or the other; the server's goroutines run.  A server that can be reached
\* again and again is reached at last, and a sampler whose stop channel is
\* closed takes that branch of its select at last.
Fairness ==
    /\ WF_vars(Connect \/ ConnectFails) /\ SF_vars(Connect) /\ WF_vars(Main)
    /\ WF_vars(ClearCall) /\ WF_vars(FinalCall) /\ WF_vars(CloseSocket) /\ WF_vars(CancelMain)
    /\ \A k \in Connection : WF_vars(Serve(k)) /\ WF_vars(Hangup(k)) /\ WF_vars(Push(k))
    /\ \A s \in Sampler : WF_vars(ReadStopCh(s)) /\ WF_vars(Ends(s))

Spec == Init /\ [][Next]_vars
FairSpec == Spec /\ Fairness

-----------------------------------------------------------------------------
(* Properties.                                                             *)

\* A sample is in the plot once at most and the samples are in order, through
\* lost connections, the drains of an old push loop next to a new one, and
\* clears (pollPositions hands out what it takes, _process_chunk appends).
ShownOnce == \A i, j \in DOMAIN shown : i < j => shown[i] < shown[j]

\* "a restarted server has no sampler running" (_on_connect): a client that is
\* connected and whose calls were served has one, whatever the server went
\* through (in the first session: the stop of an earlier one, served late, would
\* stop the sampler of this one too).
Sampled ==
    session = 1 /\ thread = "recv" /\ live /\ ~stopping /\ up[nconn] = <<>> => running

\* stop() ends the thread, wherever it is: connecting, setting the server up,
\* receiving, closing the socket or waiting to try again.
ThreadEnds == []<>(stopping => thread = "ended")

\* Until then a client is connected again after every loss.
Reconnects == []<>(thread = "recv" \/ stopping \/ session = 0)

\* A logger that is stopped for good leaves no sampling goroutine, although one
\* of an earlier start may have read the channel of a later one, and two may
\* have sampled side by side (sampleLoop reads pl.stopCh without the lock).
SamplersEnd ==
    []<>(running \/ \A s \in Sampler : sampler[s] \in {"none", "ended"})
=============================================================================
