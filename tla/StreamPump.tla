----------------------------- MODULE StreamPump -----------------------------
(***************************************************************************)
(* PumpTransmit of the API server (stream_pump.go): one goroutine drains a *)
(* producer, typically a realtime ring, through its poll callback; the     *)
(* handler's goroutine writes what was drained to a WebSocket connection.  *)
(* They share a queue under a mutex, a wake-up channel of capacity one,    *)
(* and two channels that say that the other side has stopped.              *)
(***************************************************************************)
EXTENDS Integers, Sequences

CONSTANTS
    Message,      \* poll results
    Size,         \* bytes of each
    PollSize,     \* the largest (pumpPollSize)
    Overhead,     \* accounted per queued message (pumpMsgOverhead)
    MaxQueued,    \* bound on what a connection holds (pumpMaxQueued)
    MaxPolls      \* bound of the model: messages the producer makes

ASSUME ConstantsAssumption ==
    /\ PollSize \in Nat \ {0} /\ Size \in [Message -> 1..PollSize]
    /\ Overhead \in Nat /\ MaxQueued \in Nat /\ MaxPolls \in Nat

VARIABLES
    drain,        \* step of the drain goroutine; "exited": drained is closed
    writer,       \* step of PumpTransmit's own goroutine
    msgs, cost,   \* pumpQueue
    batch,        \* what the writer took and has not written
    ready,        \* the wake-up channel holds a token
    stop,         \* the stop channel is closed
    done,         \* the connection's context has ended
    polled, wire  \* history: what poll returned, what the client was sent

vars == <<drain, writer, msgs, cost, batch, ready, stop, done, polled, wire>>

\* The writer writes what it took before it looks at the queue again.
Batched ==
    /\ writer = "write" => batch # <<>>
    /\ writer \in {"take", "wait"} => batch = <<>>

TypeOK ==
    /\ drain \in {"check", "room", "poll", "signal", "idle", "exited"}
    /\ writer \in {"take", "wait", "write", "close", "join", "returned"}
    /\ msgs \in Seq(Message) /\ batch \in Seq(Message) /\ cost \in Int
    /\ polled \in Seq(Message) /\ wire \in Seq(Message)
    /\ ready \in BOOLEAN /\ stop \in BOOLEAN /\ done \in BOOLEAN
    /\ Batched

Init ==
    /\ drain = "check" /\ writer = "take"
    /\ msgs = <<>> /\ cost = 0 /\ batch = <<>>
    /\ ready = FALSE /\ stop = FALSE /\ done = FALSE
    /\ polled = <<>> /\ wire = <<>>

Charge(m) == Size[m] + Overhead

\* What a sequence of messages is accounted for.
Charges(s) ==
    LET sum[i \in 0 .. Len(s)] == IF i = 0 THEN 0 ELSE sum[i - 1] + Charge(s[i])
    IN  sum[Len(s)]

-----------------------------------------------------------------------------
(* The drain goroutine.                                                    *)

\* Mutant: the drain goroutine does not watch the connection.
DrainCheckMutant ==
    /\ drain = "check"
    /\ drain' = IF stop THEN "exited" ELSE "room"
    /\ UNCHANGED <<writer, msgs, cost, batch, ready, stop, done, polled, wire>>

\* It looks whether it has to stop ...
DrainCheck ==
    /\ drain = "check"
    /\ drain' = IF stop \/ done THEN "exited" ELSE "room"
    /\ UNCHANGED <<writer, msgs, cost, batch, ready, stop, done, polled, wire>>

HasRoom == cost + PollSize + Overhead <= MaxQueued

\* Mutant: room for what is queued, not for what may come.
RoomMutant ==
    /\ drain = "room"
    /\ drain' = IF cost <= MaxQueued THEN "poll" ELSE "idle"
    /\ UNCHANGED <<writer, msgs, cost, batch, ready, stop, done, polled, wire>>

\* Mutant: polls only once everything has been written.
RoomAlternateMutant ==
    /\ drain = "room"
    /\ drain' = IF cost = 0 THEN "poll" ELSE "idle"
    /\ UNCHANGED <<writer, msgs, cost, batch, ready, stop, done, polled, wire>>

\* ... and whether the largest poll result would still fit.
Room ==
    /\ drain = "room"
    /\ drain' = IF HasRoom THEN "poll" ELSE "idle"
    /\ UNCHANGED <<writer, msgs, cost, batch, ready, stop, done, polled, wire>>

\* poll, a call into the module, returns a message, which is pushed ...
PollMessage(m) ==
    /\ drain = "poll" /\ Len(polled) < MaxPolls
    /\ polled' = Append(polled, m)
    /\ msgs' = Append(msgs, m)
    /\ cost' = cost + Charge(m)
    /\ drain' = "signal"
    /\ UNCHANGED <<writer, batch, ready, stop, done, wire>>

\* ... or nothing, or the end of the stream.
PollNothing ==
    /\ drain = "poll"
    /\ drain' = "idle"
    /\ UNCHANGED <<writer, msgs, cost, batch, ready, stop, done, polled, wire>>

PollEnd ==
    /\ drain = "poll"
    /\ drain' = "exited"
    /\ UNCHANGED <<writer, msgs, cost, batch, ready, stop, done, polled, wire>>

\* Mutant: an unbuffered channel, so only a writer already in its select wakes.
SignalMutant ==
    /\ drain = "signal"
    /\ ready' \in {ready, writer = "wait"} /\ drain' = "check"
    /\ UNCHANGED <<writer, msgs, cost, batch, stop, done, polled, wire>>

\* The wake-up follows the push outside the lock; a token already there serves.
Signal ==
    /\ drain = "signal"
    /\ ready' = TRUE /\ drain' = "check"
    /\ UNCHANGED <<writer, msgs, cost, batch, stop, done, polled, wire>>

\* pumpIdle passes, or one of the channels comes first.
Idle ==
    /\ drain = "idle"
    /\ drain' \in {"check"} \cup (IF stop \/ done THEN {"exited"} ELSE {})
    /\ UNCHANGED <<writer, msgs, cost, batch, ready, stop, done, polled, wire>>

Drain == \/ DrainCheck \/ Room \/ PollNothing \/ PollEnd \/ Signal \/ Idle
         \/ \E m \in Message : PollMessage(m)

-----------------------------------------------------------------------------
(* The writer.                                                             *)

\* Mutant: does not look whether there was anything to take.
TakeMutant ==
    /\ writer = "take"
    /\ batch' = msgs /\ msgs' = <<>>
    /\ writer' = "write"
    /\ UNCHANGED <<drain, cost, ready, stop, done, polled, wire>>

Take ==
    /\ writer = "take"
    /\ batch' = msgs /\ msgs' = <<>>
    /\ writer' = IF msgs = <<>> THEN "wait" ELSE "write"
    /\ UNCHANGED <<drain, cost, ready, stop, done, polled, wire>>

Wake ==
    /\ writer = "wait" /\ ready
    /\ ready' = FALSE /\ writer' = "take"
    /\ UNCHANGED <<drain, msgs, cost, batch, stop, done, polled, wire>>

\* Mutant: the end of the stream ends the writer at once.
FlushMutant ==
    /\ writer = "wait" /\ drain = "exited"
    /\ writer' = "close"
    /\ UNCHANGED <<drain, msgs, cost, batch, ready, stop, done, polled, wire>>

\* The drain has exited: whatever it left behind still goes out.
Flush ==
    /\ writer = "wait" /\ drain = "exited"
    /\ batch' = msgs /\ msgs' = <<>>
    /\ writer' = IF msgs = <<>> THEN "close" ELSE "write"
    /\ UNCHANGED <<drain, cost, ready, stop, done, polled, wire>>

\* Mutant: the overhead of a written message stays counted.
WriteMutant ==
    /\ writer = "write"
    /\ wire' = Append(wire, Head(batch))
    /\ cost' = cost - Size[Head(batch)]
    /\ batch' = Tail(batch)
    /\ writer' = IF Tail(batch) = <<>> THEN "take" ELSE "write"
    /\ UNCHANGED <<drain, msgs, ready, stop, done, polled>>

\* One message is written and no longer counted.
Write ==
    /\ writer = "write"
    /\ wire' = Append(wire, Head(batch))
    /\ cost' = cost - Charge(Head(batch))
    /\ batch' = Tail(batch)
    /\ writer' = IF Tail(batch) = <<>> THEN "take" ELSE "write"
    /\ UNCHANGED <<drain, msgs, ready, stop, done, polled>>

\* A failed write ends the stream; the rest of the batch is dropped.
WriteFails ==
    /\ writer = "write"
    /\ cost' = cost - Charge(Head(batch))
    /\ writer' = "close"
    /\ UNCHANGED <<drain, msgs, batch, ready, stop, done, polled, wire>>

\* The deferred close(stop) and the wait for the drain goroutine.
Close ==
    /\ writer = "close"
    /\ stop' = TRUE /\ writer' = "join"
    /\ UNCHANGED <<drain, msgs, cost, batch, ready, done, polled, wire>>

Join ==
    /\ writer = "join" /\ drain = "exited"
    /\ writer' = "returned"
    /\ UNCHANGED <<drain, msgs, cost, batch, ready, stop, done, polled, wire>>

WriterStep == Take \/ Wake \/ Flush \/ Close \/ Join

-----------------------------------------------------------------------------
\* The client goes away, or the server shuts down.
ConnDone ==
    /\ ~done /\ done' = TRUE
    /\ UNCHANGED <<drain, writer, msgs, cost, batch, ready, stop, polled, wire>>

Returned == writer = "returned" /\ UNCHANGED vars

Next == Drain \/ WriterStep \/ Write \/ WriteFails \/ ConnDone \/ Returned

Spec == Init /\ [][Next]_vars

\* Both goroutines are scheduled and poll, which never blocks, returns.  A
\* write may block as long as the client likes; it ends once the connection's
\* context does.
Fairness ==
    /\ WF_vars(Drain) /\ WF_vars(WriterStep)
    /\ WF_vars(done /\ (Write \/ WriteFails))

FairSpec == Spec /\ Fairness

-----------------------------------------------------------------------------
(* Properties.                                                             *)

\* A message in the queue of a waiting writer is one it will be told of, so a
\* wake-up is never lost although queue and channel are separate.
WakeupPending ==
    writer = "wait" /\ msgs # <<>> => ready \/ drain \in {"signal", "exited"}

\* The backlog of a slow client stays below its bound.
Bounded == cost <= MaxQueued

\* The stream as its two ends see it.
Failed == writer \in {"close", "join", "returned"} /\ batch # <<>>

\* The cost is that of the messages held, queued or being written (a message
\* whose write failed is no longer counted): neither leaks, so a long stream
\* neither stalls nor outgrows its bound.
CostExact ==
    cost = Charges(msgs) + Charges(batch)
                         - (IF Failed THEN Charge(Head(batch)) ELSE 0)

Fifo == INSTANCE StreamFifo
        WITH in <- polled, out <- wire,
             state <- IF writer = "returned" THEN "closed"
                      ELSE IF Failed THEN "broken" ELSE "open"

\* The pump implements the stream: order, nothing twice, nothing lost unless a
\* write failed, and no message asked of the producer after the end.
InOrder == Fifo!Spec

\* How fast the producer is drained does not depend on the client: with room in
\* the queue polling goes on, also while a write blocks for ever.
DrainGoesOn == []<>(drain \in {"poll", "exited"} \/ ~HasRoom)

\* When the connection has ended the handler returns.
DoneReturns == done ~> writer = "returned"
=============================================================================
