---------------------------- MODULE McodeHandler ----------------------------
(***************************************************************************)
(* User M-codes (M100-M199) in milltask: the worker goroutine that runs    *)
(* the handlers one at a time (mcode_handler.go), the sequencer goroutine  *)
(* that submits an M-code and polls for its result (McodeCmd.Execute), and *)
(* the teardowns that abandon it.                                          *)
(*                                                                         *)
(* Every submission makes an abort channel and a result channel of its     *)
(* own, so a job names all three: it is in signalled when its abort channel *)
(* is closed, and result holds what its result channel buffers.  Names are *)
(* reused once nothing refers to them.  The sequencer is reduced to what   *)
(* it does with M-codes; TaskSequencer models the rest of it, and why one   *)
(* goroutine at a time runs it.                                            *)
(***************************************************************************)
EXTENDS Naturals, Sequences

CONSTANTS
    Job,           \* submissions: an M-code with its two channels
    Client,        \* goroutines serving Abort
    Monitor,       \* the monitor's errorStop
    Producer,      \* runProgram, whose faultProgram is a teardown too
    Recoverer,     \* recoverSeqFault
    NoJob, Free,   \* "none" values: job, mutex owner
    Env            \* "trip", "badLine", "error": what may go wrong

Thread == Client \cup {Monitor, Producer, Recoverer}
Result == {"ok", "error", "aborted"}      \* 0 and 32-63, other codes, -2

ASSUME ConstantsAssumption ==
    /\ NoJob \notin Job /\ Free \notin Thread
    /\ Monitor # Producer /\ Recoverer \notin {Monitor, Producer}
    /\ Client \cap {Monitor, Producer, Recoverer} = {}
    /\ Env \subseteq {"trip", "badLine", "error"}

VARIABLES
    seqAbort,      \* the current generation's abort channel is closed
    seqFaulted,
    seq, mine,     \* the sequencer: its step, the job in hand
    abortCh,       \* h.abortCh: the job whose abort channel it is
    signalled,     \* jobs whose abort channel is closed
    jobCh,         \* jobs handed to the worker, a buffered channel of one
    running,       \* job whose handler runs
    result,        \* what each job's result channel holds
    pc,            \* per thread: step
    cmdMu, seqLifeMu

vars == <<seqAbort, seqFaulted, seq, mine, abortCh, signalled, jobCh, running,
          result, pc, cmdMu, seqLifeMu>>
handler == <<abortCh, signalled, jobCh, running, result>>
teardown == <<pc, cmdMu, seqLifeMu>>

TypeOK ==
    /\ {seqAbort, seqFaulted} \subseteq BOOLEAN
    /\ seq \in {"select", "submit", "put", "poll", "exited"}
    /\ {mine, abortCh, running} \subseteq Job \cup {NoJob}
    /\ signalled \subseteq Job
    /\ jobCh \in Seq(Job) /\ Len(jobCh) <= 1
    /\ result \in [Job -> Result \cup {"none"}]
    /\ pc \in [Thread -> {"idle", "signal", "lock", "close", "abort",
                          "restart", "join"}]
    /\ {cmdMu, seqLifeMu} \subseteq Thread \cup {Free}

Init ==
    /\ seqAbort = FALSE /\ seqFaulted = FALSE
    /\ seq = "select" /\ mine = NoJob
    /\ abortCh = NoJob /\ signalled = {}
    /\ jobCh = <<>> /\ running = NoJob
    /\ result = [j \in Job |-> "none"]
    /\ pc = [t \in Thread |-> "idle"]
    /\ cmdMu = Free /\ seqLifeMu = Free

Goto(t, step) == pc' = [pc EXCEPT ![t] = step]

\* Jobs the worker has, and those that nothing refers to any more.
InWork == {running} \cup {jobCh[i] : i \in DOMAIN jobCh}
Unused == Job \ (InWork \cup {mine, abortCh})

-----------------------------------------------------------------------------
(* The sequencer.                                                          *)

\* An M-code is dequeued.  A select with the abort channel closed may do so
\* as well as return.  One follows another at once if the program left a
\* compensated move buffered; otherwise the producer waits for each to finish.
Take == /\ seq = "select"
        /\ seq' = "submit"
        /\ UNCHANGED <<seqAbort, seqFaulted, mine, handler, teardown>>

SeqStop == /\ seq = "select" /\ seqAbort
           /\ seq' = "exited"
           /\ UNCHANGED <<seqAbort, seqFaulted, mine, handler, teardown>>

\* Mutant: the handler keeps the abort channel of the previous job.
SubmitMutant ==
    /\ seq = "submit"
    /\ seq' = "put" /\ mine' \in {CHOOSE j \in Job : j \in Unused}
    /\ UNCHANGED <<seqAbort, seqFaulted, handler, teardown>>

\* Submit: a fresh abort channel and a fresh result channel for this job
\* (it does not matter which of the unused names it gets) ...
Submit ==
    /\ seq = "submit" /\ Unused # {}
    /\ seq' = "put"
    /\ mine' = CHOOSE j \in Job : j \in Unused
    /\ abortCh' = mine'
    /\ signalled' = signalled \cap InWork
    /\ UNCHANGED <<seqAbort, seqFaulted, jobCh, running, result, teardown>>

\* Mutant: blocks on a full jobCh whether aborted or not.
PutMutant ==
    /\ seq = "put" /\ jobCh = <<>>
    /\ jobCh' = <<mine>> /\ seq' = "poll"
    /\ UNCHANGED <<seqAbort, seqFaulted, mine, abortCh, signalled, running,
                   result, teardown>>

\* Mutant: queues without regard to the capacity of jobCh.
PutUnboundedMutant ==
    /\ seq = "put"
    /\ jobCh' = Append(jobCh, mine) /\ seq' = "poll"
    /\ UNCHANGED <<seqAbort, seqFaulted, mine, abortCh, signalled, running,
                   result, teardown>>

\* ... and it is queued, unless the abort comes first.
Put ==
    /\ seq = "put"
    /\ \/ jobCh = <<>> /\ jobCh' = <<mine>> /\ seq' = "poll" /\ UNCHANGED mine
       \/ seqAbort /\ seq' = "exited" /\ mine' = NoJob /\ UNCHANGED jobCh
    /\ UNCHANGED <<seqAbort, seqFaulted, abortCh, signalled, running, result,
                   teardown>>

\* Mutant: a failed handler ends the sequencer without a fault.
PollMutant ==
    /\ seq = "poll"
    /\ \/ seqAbort /\ seq' = "exited"
       \/ result[mine] = "ok" /\ seq' = "select"
       \/ result[mine] \in {"aborted", "error"} /\ seq' = "exited"
    /\ mine' = NoJob
    /\ result' = [result EXCEPT ![mine] = "none"]
    /\ UNCHANGED <<seqAbort, seqFaulted, abortCh, signalled, jobCh, running,
                   teardown>>

\* pollUntil, then the result decides.  An error is a sequencer fault, unless
\* the abort came first; "aborted" ends the goroutine like an abort does.
Poll ==
    /\ seq = "poll"
    /\ \/ /\ seqAbort
          /\ seq' = "exited"
          /\ UNCHANGED <<seqAbort, seqFaulted, pc>>
       \/ /\ result[mine] = "ok"
          /\ seq' = "select"
          /\ UNCHANGED <<seqAbort, seqFaulted, pc>>
       \/ /\ result[mine] = "aborted"
          /\ seq' = "exited"
          /\ UNCHANGED <<seqAbort, seqFaulted, pc>>
       \/ /\ result[mine] = "error" /\ ~seqAbort
          /\ seq' = "exited" /\ seqAbort' = TRUE /\ seqFaulted' = TRUE
          /\ Goto(Recoverer, IF pc[Recoverer] = "idle" THEN "lock"
                             ELSE pc[Recoverer])   \* a pending one serves both
    /\ mine' = NoJob
    /\ result' = [result EXCEPT ![mine] = "none"]
    /\ UNCHANGED <<abortCh, signalled, jobCh, running, cmdMu, seqLifeMu>>

SequencerStep == Take \/ SeqStop \/ Submit \/ Put \/ Poll

-----------------------------------------------------------------------------
(* The worker.                                                             *)

WorkerTake ==
    /\ running = NoJob /\ jobCh # <<>>
    /\ running' = Head(jobCh) /\ jobCh' = Tail(jobCh)
    /\ UNCHANGED <<seqAbort, seqFaulted, seq, mine, abortCh, signalled, result,
                   teardown>>

\* Mutant: the completion goes to whoever waits now (a bare "done" flag).
WorkerReturnMutant ==
    /\ running # NoJob
    /\ running' = NoJob
    /\ result' = IF mine = NoJob THEN result ELSE [result EXCEPT ![mine] = "ok"]
    /\ UNCHANGED <<seqAbort, seqFaulted, seq, mine, abortCh, signalled, jobCh,
                   teardown>>

\* A handler returns: it may report "aborted" once its abort channel is closed.
\* Nobody reads what an abandoned one says.
WorkerReturn ==
    /\ running # NoJob
    /\ running' = NoJob
    /\ \E r \in {"ok"} \cup (IF "error" \in Env THEN {"error"} ELSE {})
                       \cup (IF running \in signalled THEN {"aborted"} ELSE {}) :
          result' = [result EXCEPT ![running] = IF running = mine THEN r ELSE @]
    /\ signalled' = signalled \ ({running} \ {mine, abortCh})
    /\ UNCHANGED <<seqAbort, seqFaulted, seq, mine, abortCh, jobCh, teardown>>

-----------------------------------------------------------------------------
(* Teardowns.                                                              *)

\* Abort closes the abort channel and aborts the handler before it locks.
SignalAbort(c) ==
    /\ c \in Client /\ pc[c] = "idle"
    /\ seqAbort' = TRUE /\ Goto(c, "signal")
    /\ UNCHANGED <<seqFaulted, seq, mine, handler, cmdMu, seqLifeMu>>

\* The monitor's errorStop starts at stopSignals, without a lock.
MonitorTrip ==
    /\ "trip" \in Env /\ pc[Monitor] = "idle"
    /\ Goto(Monitor, "close")
    /\ UNCHANGED <<seqAbort, seqFaulted, seq, mine, handler, cmdMu, seqLifeMu>>

\* faultProgram stops motion and restarts the sequencer; it does not abort
\* the M-code handler.  The block that queued the M-code may be the bad one
\* (M101 G1 X1 without a feed rate): its G-codes are executed after M-codes.
FaultProgram ==
    /\ "badLine" \in Env /\ pc[Producer] = "idle"
    /\ Goto(Producer, "restart")
    /\ UNCHANGED <<seqAbort, seqFaulted, seq, mine, handler, cmdMu, seqLifeMu>>

\* mcodeHandler.Abort closes the channel that h.abortCh holds at this moment.
McodeAbort(t) ==
    /\ \/ pc[t] = "signal" /\ Goto(t, "lock")
       \/ pc[t] = "abort" /\ Goto(t, IF t = Monitor THEN "lock" ELSE "restart")
    /\ signalled' = signalled \cup ({abortCh} \ {NoJob})
    /\ UNCHANGED <<seqAbort, seqFaulted, seq, mine, abortCh, jobCh, running,
                   result, cmdMu, seqLifeMu>>

Lock(t) ==
    /\ pc[t] = "lock" /\ cmdMu = Free
    /\ cmdMu' = t
    /\ Goto(t, IF t \in Client THEN "close" ELSE "restart")
    /\ UNCHANGED <<seqAbort, seqFaulted, seq, mine, handler, seqLifeMu>>

AbortSequencer(t) ==
    /\ pc[t] = "close"
    /\ seqAbort' = TRUE /\ Goto(t, "abort")
    /\ UNCHANGED <<seqFaulted, seq, mine, handler, cmdMu, seqLifeMu>>

\* StartSequencer aborts and joins the old goroutine.  The teardowns under
\* cmdMu first wait for the producer; recovery looks at seqFaulted.
StartSequencer(t) ==
    /\ pc[t] = "restart" /\ seqLifeMu = Free
    /\ t # Producer => pc[Producer] = "idle"
    /\ IF t = Recoverer /\ ~seqFaulted
       THEN /\ Goto(t, "idle") /\ cmdMu' = Free
            /\ UNCHANGED <<seqAbort, seqLifeMu>>
       ELSE /\ seqAbort' = TRUE /\ seqLifeMu' = t /\ Goto(t, "join")
            /\ UNCHANGED cmdMu
    /\ UNCHANGED <<seqFaulted, seq, mine, handler>>

SpawnSequencer(t) ==
    /\ pc[t] = "join" /\ seq = "exited"
    /\ seqAbort' = FALSE /\ seqFaulted' = FALSE
    /\ seq' = "select"
    /\ seqLifeMu' = Free
    /\ cmdMu' = IF t = Producer THEN cmdMu ELSE Free
    /\ Goto(t, "idle")
    /\ UNCHANGED <<mine, handler>>

TeardownStep(t) == \/ McodeAbort(t) \/ Lock(t) \/ AbortSequencer(t)
                   \/ StartSequencer(t) \/ SpawnSequencer(t)

-----------------------------------------------------------------------------
Next == \/ SequencerStep \/ WorkerTake \/ WorkerReturn
        \/ (\E c \in Client : SignalAbort(c)) \/ MonitorTrip \/ FaultProgram
        \/ \E t \in Thread : TeardownStep(t)

Spec == Init /\ [][Next]_vars

\* The sequencer, the producer and whoever holds cmdMu are scheduled, and an
\* abort that waits for cmdMu gets it in the end.  A Go select that keeps
\* finding the abort channel ready takes it in the end.  Nothing is assumed of
\* the worker: a handler may never return.
Fairness == /\ WF_vars(SequencerStep) /\ SF_vars(SeqStop)
            /\ WF_vars(TeardownStep(Producer))
            /\ SF_vars(\E t \in Thread : cmdMu = t /\ TeardownStep(t))
            /\ \A c \in Client : SF_vars(cmdMu # c /\ TeardownStep(c))

FairSpec == Spec /\ Fairness

-----------------------------------------------------------------------------
(* Safety.                                                                 *)

\* An M-code that the program counts as done is one whose handler has run to
\* its end: neither still queued nor still running (Submit, "silently
\* reporting M-codes as complete that never ran").
OwnResult ==
    [][seq = "poll" /\ seq' = "select" =>
          mine # running /\ \A i \in DOMAIN jobCh : jobCh[i] # mine]_vars

\* An abort reaches the M-code that the program waits for, whatever the worker
\* is still busy with.
AbortReachesWaited ==
    [][\A t \in Thread : McodeAbort(t) /\ seq \in {"put", "poll"} =>
          mine \in signalled']_vars

\* The sequencer does not end unnoticed: its abort channel is closed, or a
\* teardown that will replace it is on its way (an abort that is late for one
\* generation can end the M-code of the next).
ExitIsNoticed ==
    seq = "exited" => seqAbort \/ \E t \in Thread : pc[t] # "idle"

-----------------------------------------------------------------------------
(* Liveness.                                                               *)

\* An operator's abort returns even if no handler ever does.
AbortReturns == \A c \in Client : pc[c] # "idle" ~> pc[c] = "idle"

=============================================================================
