--------------------------- MODULE TaskSequencer ---------------------------
(***************************************************************************)
(* How milltask runs a G-code program and how everything that stops a      *)
(* program tears it down (src/src/stmak/internal/task).                    *)
(*                                                                         *)
(* Goroutines.  Clients issue AUTO commands and Abort; the monitor trips   *)
(* on a motion or IO error; a recoverer is spawned by every sequencer      *)
(* fault; a producer (runProgram) reads the program and enqueues canon     *)
(* commands; a sequencer goroutine, one per generation, dequeues them and  *)
(* drives motion.  Clients, monitor and recoverers serialize on cmdMu;     *)
(* whoever replaces the sequencer generation holds seqLifeMu; a hold of    *)
(* t.mu is one atomic step.                                                *)
(*                                                                         *)
(* A channel that is closed to signal is a set membership (closed) or a    *)
(* boolean (pauseCh, resumeCh); the channels and the goroutine of one      *)
(* generation are named by one element of Gen, reused once nothing refers  *)
(* to it any more.                                                         *)
(***************************************************************************)
EXTENDS TrajQueue, Sequences, FiniteSets

CONSTANTS
    Client,        \* goroutines serving emccmd requests
    Monitor,       \* the safety loop of monitor.go
    Recoverer,     \* goroutines available to run recoverSeqFault: a bound,
                   \* the code spawns one for every fault
    Producer,      \* goroutines available to run runProgram, a bound as well
    Gen,           \* sequencer generations
    NoGen, Free, NoRun,   \* "none" values: generation, mutex owner, runDone
    QueueSize,     \* interpQueueSize
    TPHighWater,   \* tpQueueHighWater
    Kinds,         \* canon commands the program may contain
    Ops,           \* requests the clients issue
    Env            \* what the environment may do (see EnvEvents)

CanonCmd  == {"move", "params", "aux", "m0", "tapOn", "tapOff"}
Cmd       == CanonCmd \cup {"sync", "done"}
Requests  == {"run", "abort", "pause", "resume", "step"}
EnvEvents == {"trip",       \* motion or IO error seen by the monitor
              "refuse",     \* a motion or IO command fails, a status is lost
              "paramsFail", \* motion refuses a parameter setting
              "badLine",    \* the interpreter reports an error
              "openFails",  \* the program file cannot be re-opened
              "seek"}       \* Run from line N

Thread == Client \cup {Monitor} \cup Recoverer \cup Producer

ASSUME ConstantsAssumption ==
    /\ QueueSize \in Nat \ {0}
    /\ TPHighWater \in 1 .. TPSize
    /\ Kinds \subseteq CanonCmd
    /\ Ops \subseteq Requests
    /\ Env \subseteq EnvEvents
    /\ IsFiniteSet(Gen) /\ Gen # {}
    /\ NoGen \notin Gen /\ NoRun \notin Producer /\ Free \notin Thread
    /\ Monitor \notin Client \cup Recoverer \cup Producer
    /\ Client \cap Recoverer = {} /\ Client \cap Producer = {}
    /\ Recoverer \cap Producer = {}

VARIABLES
    interpState, execState,   \* reported state, guarded by t.mu
    stepping, interpActive,
    cur,                      \* generation whose channels the Task holds
    closed,                   \* generations whose seqAbort is closed (a name
                              \* not in use counts as closed)
    queue,                    \* interpQueue of each generation
    pauseCh, resumeCh,        \* is seqPauseCh / seqResumeCh closed
    seqFaulted, inflight, tapping, tpAbortPending,
    cmdMu, seqLifeMu,         \* owner of each mutex
    pc, op, old,              \* per thread: step, purpose, captured generation
    runDone,                  \* producer whose exit closes t.runDone
    mine,                     \* per producer: its generation's abort channel
    emit, tgt,                \* per producer: EnqueueCmd in progress
    spc, cmd,                 \* per generation: step, command in hand
    tp                        \* the motion queue

reported == <<interpState, execState, stepping, interpActive>>
chans    == <<cur, closed, queue, pauseCh, resumeCh>>
flags    == <<seqFaulted, inflight, tapping, tpAbortPending>>
locks    == <<cmdMu, seqLifeMu>>
threads  == <<pc, op, old>>
prods    == <<runDone, mine, emit, tgt>>
seqs     == <<spc, cmd>>
vars     == <<reported, chans, flags, locks, threads, prods, seqs, tp>>

-----------------------------------------------------------------------------
(* Types.                                                                  *)

InterpState == {"Idle", "Reading", "Paused"}
ExecState   == {"Done", "Error", "Waiting"}

Op == {"none", "run", "frontdoor", "abort", "trip", "recover", "fault"}

\* Steps of a client, the monitor or a recoverer, then those of a producer.
AgentPc == {"idle", "sigStop", "sigAbort", "lock", "clobber", "close", "flush",
            "stop", "motAbort", "waitRun", "interp", "life", "join", "spawn",
            "commit", "restore", "faulted", "guard", "open", "launch",
            "motPause", "motResume", "stepWake"}
ProducerPc == {"reserved", "start", "seek", "head", "read", "exec", "put",
               "putSync", "putDone", "drain", "drainCheck", "synch",
               "faultStop", "faultAbort", "exit"}

SeqPc == {"exited", "check", "paused", "refresh", "select", "got", "pre",
          "tpwait", "space", "exec", "wait", "post", "stepwait", "faultStop",
          "faultAbort"}

TypeOK ==
    /\ interpState \in InterpState
    /\ execState \in ExecState
    /\ {stepping, interpActive, pauseCh, resumeCh} \subseteq BOOLEAN
    /\ {seqFaulted, inflight, tapping, tpAbortPending} \subseteq BOOLEAN
    /\ cur \in Gen
    /\ closed \subseteq Gen
    /\ queue \in [Gen -> Seq(Cmd)]
    /\ cmdMu \in Thread \cup {Free}
    /\ seqLifeMu \in Thread \cup {Free}
    /\ pc \in [Thread -> AgentPc \cup ProducerPc]
    /\ op \in [Thread -> Op]
    /\ old \in [Thread -> Gen \cup {NoGen}]
    /\ runDone \in Producer \cup {NoRun}
    /\ mine \in [Producer -> Gen \cup {NoGen}]
    /\ emit \in [Producer -> Cmd]
    /\ tgt \in [Producer -> Gen \cup {NoGen}]
    /\ spc \in [Gen -> SeqPc]
    /\ cmd \in [Gen -> Cmd]
    /\ tp \in TPState

\* NewTask plus the StartSequencer of the module's Start: a live, idle
\* first generation, no program run yet.
Init ==
    /\ interpState = "Idle" /\ execState = "Done"
    /\ stepping = FALSE /\ interpActive = FALSE
    /\ cur \in Gen
    /\ closed = Gen \ {cur}
    /\ queue = [s \in Gen |-> <<>>]
    /\ pauseCh = FALSE /\ resumeCh = FALSE
    /\ seqFaulted = FALSE /\ inflight = FALSE
    /\ tapping = FALSE /\ tpAbortPending = FALSE
    /\ cmdMu = Free /\ seqLifeMu = Free
    /\ pc = [t \in Thread |-> "idle"]
    /\ op = [t \in Thread |-> "none"]
    /\ old = [t \in Thread |-> NoGen]
    /\ runDone = NoRun
    /\ mine = [p \in Producer |-> NoGen]
    /\ emit = [p \in Producer |-> "done"]
    /\ tgt = [p \in Producer |-> NoGen]
    /\ spc = [s \in Gen |-> IF s = cur THEN "check" ELSE "exited"]
    /\ cmd = [s \in Gen |-> "done"]
    /\ tp = TPInit

-----------------------------------------------------------------------------
(* Helpers.                                                                *)

programBusy == interpState # "Idle" \/ interpActive

\* t.runDone is nil or closed: the producer it belongs to has returned.
RunDoneClosed == runDone \in Producer => pc[runDone] = "idle"

Goto(t, step) == pc' = [pc EXCEPT ![t] = step]

\* The thread's request is over: it gives cmdMu back and comes to rest.
Return(t) == /\ Goto(t, "idle")
             /\ op' = [op EXCEPT ![t] = "none"]
             /\ cmdMu' = Free

Begin(t, purpose, step) == /\ Goto(t, step)
                           /\ op' = [op EXCEPT ![t] = purpose]

\* abortMotion: the abort is marked pending, and then motion.Abort is sent; a
\* sequencer may clear the mark of an empty queue, or queue a segment, between.
MarkAbort == tpAbortPending' = TRUE /\ UNCHANGED tp
SendAbort == tp' = MotAbort(tp) /\ UNCHANGED tpAbortPending

\* Generation names that no channel, goroutine or captured variable uses.
Unused == {s \in Gen : /\ s # cur /\ spc[s] = "exited"
                        /\ \A p \in Producer : mine[p] # s /\ tgt[p] # s
                        /\ \A t \in Thread : old[t] # s}

\* Threads that are inside a call of the (not thread-safe) interpreter.
\* Canon enqueues from within Interp::execute, so "put" counts.
InterpUsers == {t \in Thread : pc[t] \in {"interp", "restore", "open", "seek",
                                         "read", "exec", "put", "synch"}}

-----------------------------------------------------------------------------
(* Signals that need no cmdMu: Abort's signalAbort, the monitor's trip,    *)
(* pause, resume and step.                                                 *)

\* Abort: signalAbort closes the abort channel of the current generation ...
Abort(c) ==
    /\ "abort" \in Ops /\ pc[c] = "idle"
    /\ closed' = closed \cup {cur}
    /\ Begin(c, "abort", "sigStop")
    /\ UNCHANGED <<reported, cur, queue, pauseCh, resumeCh, flags, locks, old,
                   prods, seqs, tp>>

\* ... and aborts motion, before it queues on cmdMu.
AbortSigStop(c) ==
    /\ \/ pc[c] = "sigStop" /\ MarkAbort /\ Goto(c, "sigAbort")
       \/ pc[c] = "sigAbort" /\ SendAbort /\ Goto(c, "lock")
    /\ UNCHANGED <<reported, chans, seqFaulted, inflight, tapping, locks, op,
                   old, prods, seqs>>

\* errorStop on a motion or IO error: the machine stays ON, the reported
\* state is committed at once, and the stop signals follow without cmdMu.
MonitorTrip ==
    /\ "trip" \in Env /\ pc[Monitor] = "idle"
    /\ interpState' = "Idle" /\ stepping' = FALSE
    /\ Begin(Monitor, "trip", "close")
    /\ UNCHANGED <<execState, interpActive, chans, flags, locks, old, prods,
                   seqs, tp>>

\* doPauseLocked: a no-op unless the interpreter is reading.
Pause(c) ==
    /\ "pause" \in Ops /\ pc[c] = "idle" /\ interpState = "Reading"
    /\ interpState' = "Paused"
    /\ pauseCh' = TRUE
    /\ Goto(c, "motPause")
    /\ UNCHANGED <<execState, stepping, interpActive, cur, closed, queue,
                   resumeCh, flags, locks, op, old, prods, seqs, tp>>

\* motion.Pause, sent after t.mu is released.
PauseMotion(c) ==
    /\ pc[c] = "motPause"
    /\ tp' = MotPause(tp)
    /\ Goto(c, "idle")
    /\ UNCHANGED <<reported, chans, flags, locks, op, old, prods, seqs>>

\* Mutant: the sequencer is not woken.
ResumeMutant(c) ==
    /\ "resume" \in Ops /\ pc[c] = "idle" /\ interpState = "Paused"
    /\ interpState' = "Reading" /\ stepping' = FALSE
    /\ Goto(c, "motResume")
    /\ UNCHANGED <<execState, interpActive, chans, flags, locks, op, old,
                   prods, seqs, tp>>

\* doResumeLocked: a no-op unless paused.
Resume(c) ==
    /\ "resume" \in Ops /\ pc[c] = "idle" /\ interpState = "Paused"
    /\ interpState' = "Reading" /\ stepping' = FALSE
    /\ resumeCh' = TRUE
    /\ Goto(c, "motResume")
    /\ UNCHANGED <<execState, interpActive, cur, closed, queue, pauseCh,
                   flags, locks, op, old, prods, seqs, tp>>

ResumeMotion(c) ==
    /\ pc[c] = "motResume"
    /\ tp' = MotResume(tp)
    /\ Goto(c, "idle")
    /\ UNCHANGED <<reported, chans, flags, locks, op, old, prods, seqs>>

\* doStepActiveLocked on a program that is not idle; while it runs, the
\* flag is all there is to it.
Step(c) ==
    /\ "step" \in Ops /\ pc[c] = "idle" /\ interpState # "Idle"
    /\ stepping' = TRUE
    /\ Goto(c, IF interpState = "Paused" THEN "stepWake" ELSE "idle")
    /\ UNCHANGED <<interpState, execState, interpActive, chans, flags, locks,
                   op, old, prods, seqs, tp>>

\* Paused: motion steps one segment, or the sequencer is woken for more.
StepWake(c) ==
    /\ pc[c] = "stepWake"
    /\ IF tp.depth > 0
       THEN tp' = MotStep(tp) /\ UNCHANGED resumeCh
       ELSE resumeCh' = TRUE /\ UNCHANGED tp
    /\ Goto(c, "idle")
    /\ UNCHANGED <<reported, cur, closed, queue, pauseCh, flags, locks, op,
                   old, prods, seqs>>

-----------------------------------------------------------------------------
(* Serialized part of a request or teardown.                               *)

AfterLock(purpose) == IF purpose = "abort" THEN "clobber"
                      ELSE IF purpose = "trip" THEN "waitRun" ELSE "faulted"

Lock(t) ==
    /\ pc[t] = "lock" /\ cmdMu = Free
    /\ cmdMu' = t
    /\ Goto(t, AfterLock(op[t]))
    /\ UNCHANGED <<reported, chans, flags, seqLifeMu, op, old, prods, seqs, tp>>

\* abortMachineLocked, first hold of t.mu.
AbortClobber(c) ==
    /\ pc[c] = "clobber"
    /\ interpState' = "Idle" /\ execState' = "Done" /\ stepping' = FALSE
    /\ Goto(c, "close")
    /\ UNCHANGED <<interpActive, chans, flags, locks, op, old, prods, seqs, tp>>

\* Mutant: the second close is forgotten (signalAbort already closed "it").
AbortSequencerMutant(t) ==
    /\ pc[t] = "close"
    /\ old' = [old EXCEPT ![t] = cur]
    /\ Goto(t, "flush")
    /\ UNCHANGED <<reported, cur, closed, queue, pauseCh, resumeCh, flags,
                   locks, op, prods, seqs, tp>>

\* AbortSequencer: close the abort channel, then drop what is queued.
AbortSequencer(t) ==
    /\ pc[t] = "close"
    /\ closed' = closed \cup {cur}
    /\ old' = [old EXCEPT ![t] = cur]
    /\ Goto(t, "flush")
    /\ UNCHANGED <<reported, cur, queue, pauseCh, resumeCh, flags, locks, op,
                   prods, seqs, tp>>

FlushQueue(t) ==
    /\ pc[t] = "flush"
    /\ queue' = [queue EXCEPT ![old[t]] = <<>>]
    /\ old' = [old EXCEPT ![t] = NoGen]
    /\ Goto(t, "stop")
    /\ UNCHANGED <<reported, cur, closed, pauseCh, resumeCh, flags, locks, op,
                   prods, seqs, tp>>

\* Motion stops; the monitor only now queues on cmdMu.
StopMotion(t) ==
    /\ \/ pc[t] = "stop" /\ MarkAbort /\ Goto(t, "motAbort")
       \/ /\ pc[t] = "motAbort" /\ SendAbort
          /\ Goto(t, IF op[t] = "trip" THEN "lock" ELSE "waitRun")
    /\ UNCHANGED <<reported, chans, seqFaulted, inflight, tapping, locks, op,
                   old, prods, seqs>>

\* Mutant: only the front door of Run recovers.
FaultCheckMutant(t) ==
    /\ pc[t] = "faulted"
    /\ IF op[t] = "run"
       THEN Begin(t, IF seqFaulted THEN "frontdoor" ELSE "run",
                  IF seqFaulted THEN "waitRun" ELSE "guard") /\ UNCHANGED cmdMu
       ELSE Return(t)
    /\ UNCHANGED <<reported, chans, flags, seqLifeMu, old, prods, seqs, tp>>

\* recoverSeqFaultLocked, also the front door of Run.
FaultCheck(t) ==
    /\ pc[t] = "faulted"
    /\ IF seqFaulted
       THEN /\ Begin(t, IF op[t] = "run" THEN "frontdoor" ELSE op[t], "waitRun")
            /\ UNCHANGED cmdMu
       ELSE IF op[t] = "run"
            THEN Goto(t, "guard") /\ UNCHANGED <<op, cmdMu>>
            ELSE Return(t)
    /\ UNCHANGED <<reported, chans, flags, seqLifeMu, old, prods, seqs, tp>>

\* Mutant: the interpreter is reset without waiting for the producer.
WaitRunDoneMutant(t) ==
    /\ pc[t] = "waitRun"
    /\ Goto(t, "interp")
    /\ UNCHANGED <<reported, chans, flags, locks, op, old, prods, seqs, tp>>

\* waitRunProgramDone; a recovery looks at seqFaulted once more after it.
WaitRunDone(t) ==
    /\ pc[t] = "waitRun" /\ RunDoneClosed
    /\ IF op[t] \in {"abort", "trip"} \/ seqFaulted
       THEN Goto(t, "interp") /\ UNCHANGED <<op, cmdMu>>
       ELSE IF op[t] = "frontdoor"
            THEN Begin(t, "run", "guard") /\ UNCHANGED cmdMu
            ELSE Return(t)
    /\ UNCHANGED <<reported, chans, flags, seqLifeMu, old, prods, seqs, tp>>

\* Mutant: the error is committed before the old goroutine has returned.
InterpResetMutant(t) ==
    /\ pc[t] = "interp"
    /\ Goto(t, "life")
    /\ IF op[t] = "abort" THEN UNCHANGED <<interpState, execState>>
       ELSE interpState' = "Idle" /\ execState' = "Error"
    /\ UNCHANGED <<stepping, interpActive, chans, flags, locks, op, old, prods,
                   seqs, tp>>

\* abortInterp, and for a full teardown Close, Reset, Synch.
InterpReset(t) ==
    /\ pc[t] = "interp"
    /\ Goto(t, "life")
    /\ UNCHANGED <<reported, chans, flags, locks, op, old, prods, seqs, tp>>

-----------------------------------------------------------------------------
(* StartSequencer: replace the sequencer generation.                       *)

StartSequencer(t) ==
    /\ pc[t] = "life" /\ seqLifeMu = Free
    /\ seqLifeMu' = t
    /\ closed' = closed \cup {cur}
    /\ old' = [old EXCEPT ![t] = cur]
    /\ Goto(t, "join")
    /\ UNCHANGED <<reported, cur, queue, pauseCh, resumeCh, flags, cmdMu, op,
                   prods, seqs, tp>>

\* Mutant: the new generation does not wait for the old one.
JoinSequencerMutant(t) ==
    /\ pc[t] = "join"
    /\ Goto(t, "spawn")
    /\ UNCHANGED <<reported, chans, flags, locks, op, old, prods, seqs, tp>>

\* <-oldDone: the previous goroutine has returned.
JoinSequencer(t) ==
    /\ pc[t] = "join" /\ spc[old[t]] = "exited"
    /\ Goto(t, "spawn")
    /\ UNCHANGED <<reported, chans, flags, locks, op, old, prods, seqs, tp>>

\* Fresh channels and a goroutine that receives from them.  Nothing receives
\* from the replaced queue any more: what is left in it is forgotten.
SpawnSequencer(t) ==
    /\ pc[t] = "spawn"
    /\ \E s \in Unused :
          /\ cur' = s
          /\ closed' = closed \ {s}
          /\ queue' = [queue EXCEPT ![s] = <<>>, ![cur] = <<>>]
          /\ spc' = [spc EXCEPT ![s] = "check"]
    /\ pauseCh' = FALSE /\ resumeCh' = FALSE
    /\ seqFaulted' = FALSE /\ tapping' = FALSE
    /\ seqLifeMu' = Free
    /\ old' = [old EXCEPT ![t] = NoGen]
    /\ Goto(t, IF op[t] = "run" THEN "open" ELSE "commit")
    /\ UNCHANGED <<reported, inflight, tpAbortPending, cmdMu, op, prods, cmd, tp>>

\* Mutant: the provisional state of AbortClobber is taken for final.
CommitTerminalMutant(t) ==
    /\ pc[t] = "commit"
    /\ \/ op[t] = "abort" /\ Goto(t, "restore") /\ UNCHANGED <<op, cmdMu>>
       \/ op[t] = "frontdoor" /\ Begin(t, "run", "guard") /\ UNCHANGED cmdMu
       \/ op[t] = "fault" /\ Begin(t, "none", "exit") /\ UNCHANGED cmdMu
       \/ op[t] \in {"trip", "recover"} /\ Return(t)
    /\ UNCHANGED <<reported, chans, flags, seqLifeMu, old, prods, seqs, tp>>

\* restartSequencer commits the terminal state after the join.
CommitTerminal(t) ==
    /\ pc[t] = "commit"
    /\ interpState' = "Idle"
    /\ execState' = IF op[t] = "abort" THEN "Done" ELSE "Error"
    /\ \/ op[t] = "abort" /\ Goto(t, "restore") /\ UNCHANGED <<op, cmdMu>>
       \/ op[t] = "frontdoor" /\ Begin(t, "run", "guard") /\ UNCHANGED cmdMu
       \/ op[t] = "fault" /\ Begin(t, "none", "exit") /\ UNCHANGED cmdMu
       \/ op[t] \in {"trip", "recover"} /\ Return(t)
    /\ UNCHANGED <<stepping, interpActive, chans, flags, seqLifeMu, old, prods,
                   seqs, tp>>

\* RestoreFromTag: the modal state is rolled back to the segment that was
\* executing, through the fresh sequencer if anything has to be sent.
AbortRestore(c) ==
    /\ pc[c] = "restore"
    /\ \/ UNCHANGED queue
       \/ /\ cur \notin closed /\ Len(queue[cur]) < QueueSize
          /\ queue' = [queue EXCEPT ![cur] = Append(@, "params")]
    /\ Return(c)
    /\ UNCHANGED <<reported, cur, closed, pauseCh, resumeCh, flags, seqLifeMu,
                   old, prods, seqs, tp>>

-----------------------------------------------------------------------------
(* AutoCommand(AutoRun), and AutoStep on an idle program.                  *)

\* The preflight refuses a busy machine before the request queues on cmdMu.
Run(c) ==
    /\ "run" \in Ops /\ pc[c] = "idle" /\ ~programBusy
    /\ Begin(c, "run", "lock")
    /\ UNCHANGED <<reported, chans, flags, locks, old, prods, seqs, tp>>

\* autoRunGuardLocked again, under cmdMu; a fresh runDone channel.  One that
\* a failed Run left behind (see RunOpen) is dropped here.
RunGuard(c) ==
    /\ pc[c] = "guard"
    /\ IF programBusy
       THEN Return(c) /\ UNCHANGED <<reported, runDone>>
       ELSE /\ interpState' = "Reading"
            /\ stepping' \in IF "step" \in Ops THEN BOOLEAN ELSE {FALSE}
            /\ \E p \in {q \in Producer : pc[q] \in {"idle", "reserved"}} :
                  /\ runDone' = p
                  /\ pc' = [q \in Thread |->
                              IF q = p THEN "reserved"
                              ELSE IF q = c THEN "life"
                              ELSE IF q \in Producer /\ pc[q] = "reserved"
                                   THEN "idle" ELSE pc[q]]
            /\ UNCHANGED <<execState, interpActive, op, cmdMu>>
    /\ UNCHANGED <<chans, flags, seqLifeMu, old, mine, emit, tgt, seqs, tp>>

\* interp.Close, Open, Synch.  A file that cannot be re-opened ends the
\* request; runDone stays, with no producer that would ever close it.
RunOpen(c) ==
    /\ pc[c] = "open"
    /\ \/ Goto(c, "launch") /\ UNCHANGED <<interpState, op, cmdMu>>
       \/ "openFails" \in Env /\ interpState' = "Idle" /\ Return(c)
    /\ UNCHANGED <<execState, stepping, interpActive, chans, flags, seqLifeMu,
                   old, prods, seqs, tp>>

\* go runProgram, with the abort channel of the generation just started.
RunLaunch(c) ==
    /\ pc[c] = "launch"
    /\ mine' = [mine EXCEPT ![runDone] = cur]
    /\ pc' = [pc EXCEPT ![runDone] = "start", ![c] = "idle"]
    /\ op' = [op EXCEPT ![c] = "none"]
    /\ cmdMu' = Free
    /\ UNCHANGED <<reported, chans, flags, seqLifeMu, old, runDone, emit, tgt,
                   seqs, tp>>

-----------------------------------------------------------------------------
(* runProgram: the producer goroutine.                                     *)

\* Move on; a step that enqueues captures the current queue and abort
\* channel as it starts, as EnqueueCmd does.
Proceed(p, step) ==
    /\ Goto(p, step)
    /\ emit' = [emit EXCEPT ![p] = IF step = "putSync" THEN "sync" ELSE "done"]
    /\ tgt' = [tgt EXCEPT ![p] = IF step \in {"putSync", "putDone"}
                                 THEN cur ELSE NoGen]

ProgramStart(p) ==
    /\ pc[p] = "start"
    /\ interpActive' = TRUE
    /\ \E step \in {"head"} \cup (Env \cap {"seek"}) : Goto(p, step)
    /\ UNCHANGED <<interpState, execState, stepping, chans, flags, locks, op,
                   old, prods, seqs, tp>>

\* seekToLine: lines run into a discarded canon until the start line is
\* read.  Only the error path writes a state before it gives up.  The
\* syncTermCond that follows goes straight to motion, past the sequencer's
\* queue, and sets a blending mode that TrajQueue abstracts away.
SeekToLine(p) ==
    /\ pc[p] = "seek"
    /\ \/ /\ mine[p] \in closed
          /\ Goto(p, "exit") /\ UNCHANGED interpState
       \/ /\ "badLine" \in Env
          /\ Goto(p, "exit") /\ interpState' = "Idle"
       \/ /\ Goto(p, "exit") /\ UNCHANGED interpState      \* end of file
       \/ /\ mine[p] \notin closed                          \* line found
          /\ Goto(p, "exec") /\ UNCHANGED interpState
    /\ UNCHANGED <<execState, stepping, interpActive, chans, flags, locks, op,
                   old, prods, seqs, tp>>

\* Between lines the producer looks at its own generation's abort channel.
NextLine(p) ==
    /\ pc[p] = "head"
    /\ Goto(p, IF mine[p] \in closed THEN "exit" ELSE "read")
    /\ UNCHANGED <<reported, chans, flags, locks, op, old, prods, seqs, tp>>

ReadLine(p) ==
    /\ pc[p] = "read"
    /\ \E step \in {"exec", "putDone"}
                   \cup (IF "badLine" \in Env THEN {"faultStop"} ELSE {}) :
          Proceed(p, step)
    /\ UNCHANGED <<reported, chans, flags, locks, op, old, runDone, mine, seqs, tp>>

\* interp.Execute: the line emits any number of canon commands, and then the
\* result is OK, EXECUTE_FINISH, EXIT or an error.
ExecuteLine(p) ==
    /\ pc[p] = "exec"
    /\ \/ \E step \in {"head", "putSync", "putDone"}
                      \cup (IF "badLine" \in Env THEN {"faultStop"} ELSE {}) :
             Proceed(p, step)
       \/ \E k \in Kinds : /\ Goto(p, "put")
                          /\ emit' = [emit EXCEPT ![p] = k]
                          /\ tgt' = [tgt EXCEPT ![p] = cur]
    /\ UNCHANGED <<reported, chans, flags, locks, op, old, runDone, mine, seqs, tp>>

AfterPut(step) == IF step = "put" THEN "exec"
                  ELSE IF step = "putSync" THEN "drain" ELSE "exit"

\* Mutant: a producer blocked on a full queue does not look at the abort.
EnqueueCmdMutant(p) ==
    /\ pc[p] \in {"put", "putSync", "putDone"}
    /\ Len(queue[tgt[p]]) < QueueSize
    /\ queue' = [queue EXCEPT ![tgt[p]] = Append(@, emit[p])]
    /\ Proceed(p, AfterPut(pc[p]))
    /\ UNCHANGED <<reported, cur, closed, pauseCh, resumeCh, flags, locks, op,
                   old, runDone, mine, seqs, tp>>

\* EnqueueCmd blocks while the queue is full and ends on abort; the producer
\* does not learn which of the two it was.
EnqueueCmd(p) ==
    /\ pc[p] \in {"put", "putSync", "putDone"}
    /\ \/ tgt[p] \in closed /\ UNCHANGED queue
       \/ /\ Len(queue[tgt[p]]) < QueueSize
          /\ queue' = [queue EXCEPT ![tgt[p]] = Append(@, emit[p])]
    /\ Proceed(p, AfterPut(pc[p]))
    /\ UNCHANGED <<reported, cur, closed, pauseCh, resumeCh, flags, locks, op,
                   old, runDone, mine, seqs, tp>>

\* waitSequencerDrain polls the queue and execState in one hold of t.mu ...
DrainSnapshot(p) ==
    /\ pc[p] = "drain"
    /\ IF queue[cur] = <<>> /\ execState = "Done"
       THEN Goto(p, "drainCheck") /\ tgt' = [tgt EXCEPT ![p] = cur]
       ELSE cur \in closed /\ Goto(p, "exit") /\ UNCHANGED tgt
    /\ UNCHANGED <<reported, chans, flags, locks, op, old, runDone, mine, emit,
                   seqs, tp>>

\* ... and seqInflight after it; not drained, it polls again or is aborted.
DrainInflight(p) ==
    /\ pc[p] = "drainCheck"
    /\ \/ ~inflight /\ Goto(p, "synch")
       \/ inflight /\ Goto(p, "drain")
       \/ inflight /\ tgt[p] \in closed /\ Goto(p, "exit")
    /\ tgt' = [tgt EXCEPT ![p] = NoGen]
    /\ UNCHANGED <<reported, chans, flags, locks, op, old, runDone, mine, emit,
                   seqs, tp>>

ProgramSynch(p) ==
    /\ pc[p] = "synch"
    /\ Goto(p, "head")
    /\ UNCHANGED <<reported, chans, flags, locks, op, old, prods, seqs, tp>>

\* faultProgram, on the producer itself and without cmdMu: motion stops,
\* then on_abort and restartSequencer.
FaultProgram(p) ==
    /\ \/ pc[p] = "faultStop" /\ MarkAbort /\ Goto(p, "faultAbort") /\ UNCHANGED op
       \/ pc[p] = "faultAbort" /\ SendAbort /\ Begin(p, "fault", "interp")
    /\ UNCHANGED <<reported, chans, seqFaulted, inflight, tapping, locks, old,
                   prods, seqs>>

ProgramExit(p) ==
    /\ pc[p] = "exit"
    /\ interpActive' = FALSE
    /\ mine' = [mine EXCEPT ![p] = NoGen]
    /\ Goto(p, "idle")
    /\ UNCHANGED <<interpState, execState, stepping, chans, flags, locks, op,
                   old, runDone, emit, tgt, seqs, tp>>

-----------------------------------------------------------------------------
(* sequencerLoop: the sequencer goroutine.                                 *)

SeqGoto(s, step) == spc' = [spc EXCEPT ![s] = step]

\* The goroutine returns.  It writes no reported state: after an abort the
\* aborter owns that.
SeqReturn(s) == /\ SeqGoto(s, "exited")
                /\ cmd' = [cmd EXCEPT ![s] = "done"]
                /\ inflight' = FALSE

\* Commands whose failure is examined as a motion command's.
MotionCmd == {"move", "params"}

MayRefuse(s) == \/ "paramsFail" \in Env /\ cmd[s] = "params"
                \/ cmd[s] = "move" /\ ("refuse" \in Env \/ ~Accepts(tp))

\* Mutant: recovery is left to the producer's fault path.
SeqFaultNoRecovery(s) ==
    /\ execState' = "Error" /\ interpState' = "Idle"
    /\ seqFaulted' = TRUE
    /\ closed' = closed \cup {cur}
    /\ UNCHANGED <<pc, op>>
    /\ SeqGoto(s, "faultStop")

\* seqFaultExit, the commit under t.mu and the spawned recovery, which takes
\* one of the idle Recoverer goroutines.
SeqFault(s) ==
    /\ execState' = "Error" /\ interpState' = "Idle"
    /\ seqFaulted' = TRUE
    /\ closed' = closed \cup {cur}
    /\ \E r \in Recoverer : pc[r] = "idle" /\ Begin(r, "recover", "lock")
    /\ SeqGoto(s, "faultStop")

\* seqCheckPause at the loop head and after a single step.  Inside a tap
\* cycle it never blocks.
SeqCheckPause(s) ==
    /\ spc[s] = "check"
    /\ \/ /\ ~tapping /\ s \in closed
          /\ SeqReturn(s) /\ UNCHANGED interpState
       \/ /\ ~tapping /\ pauseCh
          /\ SeqGoto(s, "paused") /\ interpState' = "Paused"
          /\ UNCHANGED <<cmd, inflight>>
       \/ /\ tapping \/ (s \notin closed /\ ~pauseCh)
          /\ SeqGoto(s, IF inflight THEN "check" ELSE "select")
          /\ inflight' = FALSE
          /\ UNCHANGED <<interpState, cmd>>
    /\ UNCHANGED <<execState, stepping, interpActive, chans, seqFaulted,
                   tapping, tpAbortPending, locks, threads, prods, tp>>

SeqPaused(s) ==
    /\ spc[s] = "paused"
    /\ \/ s \in closed /\ SeqReturn(s) /\ UNCHANGED interpState
       \/ /\ resumeCh
          /\ SeqGoto(s, "refresh") /\ interpState' = "Reading"
          /\ UNCHANGED <<cmd, inflight>>
    /\ UNCHANGED <<execState, stepping, interpActive, chans, seqFaulted,
                   tapping, tpAbortPending, locks, threads, prods, tp>>

\* Fresh pause and resume channels, in a hold of t.mu of their own.
SeqRefresh(s) ==
    /\ spc[s] = "refresh"
    /\ pauseCh' = FALSE /\ resumeCh' = FALSE
    /\ SeqGoto(s, IF inflight THEN "check" ELSE "select")
    /\ inflight' = FALSE
    /\ UNCHANGED <<reported, cur, closed, queue, seqFaulted, tapping,
                   tpAbortPending, locks, threads, prods, cmd, tp>>

SeqSelect(s) ==
    /\ spc[s] = "select"
    /\ \/ s \in closed /\ SeqReturn(s) /\ UNCHANGED queue
       \/ /\ queue[s] # <<>>
          /\ cmd' = [cmd EXCEPT ![s] = Head(queue[s])]
          /\ queue' = [queue EXCEPT ![s] = Tail(@)]
          /\ SeqGoto(s, "got")
          /\ UNCHANGED inflight
    /\ UNCHANGED <<reported, cur, closed, pauseCh, resumeCh, seqFaulted,
                   tapping, tpAbortPending, locks, threads, prods, tp>>

\* setSeqInflight, and the wait a command's Precondition asks for.
SeqMark(s) ==
    /\ spc[s] = "got"
    /\ inflight' = TRUE
    /\ SeqGoto(s, IF cmd[s] = "aux" THEN "pre"
                  ELSE IF cmd[s] = "move" THEN "tpwait" ELSE "exec")
    /\ execState' = IF cmd[s] = "aux" THEN "Waiting" ELSE execState
    /\ UNCHANGED <<interpState, stepping, interpActive, chans, seqFaulted,
                   tapping, tpAbortPending, locks, threads, prods, cmd, tp>>

\* waitMotionDone: polls until motion has drained, the abort channel is
\* closed, or motion stops answering.
WaitMotionDone(s, step) ==
    \/ /\ s \in closed
       /\ SeqReturn(s)
       /\ UNCHANGED <<interpState, execState, closed, pauseCh, seqFaulted, pc, op>>
    \/ /\ Drained(tp)
       /\ execState' = "Done"
       /\ IF step = "stepped"         \* seqEnterPause, then seqCheckPause
          THEN /\ interpState' = "Paused" /\ pauseCh' = TRUE
               /\ SeqGoto(s, "check") /\ cmd' = [cmd EXCEPT ![s] = "done"]
          ELSE SeqGoto(s, step) /\ UNCHANGED <<interpState, pauseCh, cmd>>
       /\ UNCHANGED <<closed, seqFaulted, inflight, pc, op>>
    \/ /\ "refuse" \in Env
       /\ SeqFault(s)
       /\ UNCHANGED <<pauseCh, inflight, cmd>>

SeqWait(s) ==
    /\ \/ spc[s] = "pre" /\ WaitMotionDone(s, "exec")
       \/ spc[s] = "wait" /\ WaitMotionDone(s, "post")
       \/ spc[s] = "stepwait" /\ WaitMotionDone(s, "stepped")
    /\ UNCHANGED <<stepping, interpActive, cur, queue, resumeCh, tapping,
                   tpAbortPending, locks, old, prods, tp>>

\* waitTPAbortDone: an empty queue means a pending abort is over.  The test
\* and the store are one step: this goroutine alone fills the queue, so an abort
\* marked and sent between the two is one whose mark is cleared before the send.
SeqWaitTPAbort(s) ==
    /\ spc[s] = "tpwait"
    /\ \/ ~tpAbortPending /\ SeqGoto(s, "space") /\ UNCHANGED <<flags, cmd>>
       \/ /\ tpAbortPending /\ Drained(tp)
          /\ tpAbortPending' = FALSE
          /\ SeqGoto(s, "space")
          /\ UNCHANGED <<seqFaulted, inflight, tapping, cmd>>
       \/ /\ tpAbortPending /\ s \in closed
          /\ SeqReturn(s)
          /\ UNCHANGED <<seqFaulted, tapping, tpAbortPending>>
    /\ UNCHANGED <<reported, chans, locks, threads, prods, tp>>

\* Mutant: off by one at the high-water mark.
SeqWaitSpaceMutant(s) ==
    /\ spc[s] = "space"
    /\ \/ /\ tp.depth <= TPHighWater \/ "refuse" \in Env
          /\ SeqGoto(s, "exec") /\ UNCHANGED <<inflight, cmd>>
       \/ /\ tp.depth > TPHighWater /\ s \in closed
          /\ SeqReturn(s)
    /\ UNCHANGED <<reported, chans, seqFaulted, tapping, tpAbortPending, locks,
                   threads, prods, tp>>

\* waitForQueueSpace; a status that cannot be read counts as space.
SeqWaitSpace(s) ==
    /\ spc[s] = "space"
    /\ \/ /\ tp.depth < TPHighWater \/ "refuse" \in Env
          /\ SeqGoto(s, "exec") /\ UNCHANGED <<inflight, cmd>>
       \/ /\ tp.depth >= TPHighWater /\ s \in closed
          /\ SeqReturn(s)
    /\ UNCHANGED <<reported, chans, seqFaulted, tapping, tpAbortPending, locks,
                   threads, prods, tp>>

\* Execute of a motion command (a segment, or the acceleration and blending
\* parameters).  Only a refusal while the queue is full is retried, and not
\* for ever; any other is a fault.
SeqExecMotion(s) ==
    /\ spc[s] = "exec" /\ cmd[s] \in MotionCmd
    /\ \/ /\ IF cmd[s] = "move"
             THEN Accepts(tp) /\ tp' = AddSegment(tp)
             ELSE UNCHANGED tp
          /\ SeqGoto(s, "post")
          /\ UNCHANGED <<interpState, execState, closed, seqFaulted, inflight,
                         pc, op, cmd>>
       \/ /\ MayRefuse(s)
          /\ SeqFault(s)
          /\ UNCHANGED <<inflight, cmd, tp>>
       \/ /\ MayRefuse(s) /\ tp.depth >= TPHighWater
          /\ IF s \in closed
             THEN SeqReturn(s)
             ELSE /\ SeqGoto(s, IF cmd[s] = "move" THEN "tpwait" ELSE "exec")
                  /\ UNCHANGED <<inflight, cmd>>
          /\ UNCHANGED <<interpState, execState, closed, seqFaulted, pc, op, tp>>
    /\ UNCHANGED <<stepping, interpActive, cur, queue, pauseCh, resumeCh,
                   tapping, tpAbortPending, locks, old, prods>>

\* Execute of any other command: markers have nothing to do but wait.  A
\* failure under abort is expected and ends the goroutine quietly.
SeqExecOther(s) ==
    /\ spc[s] = "exec" /\ cmd[s] \notin MotionCmd
    /\ tapping' = IF cmd[s] = "tapOn" THEN TRUE
                  ELSE IF cmd[s] = "tapOff" THEN FALSE ELSE tapping
    /\ \/ /\ IF cmd[s] \in {"m0", "sync", "done"}
             THEN SeqGoto(s, "wait") /\ execState' = "Waiting"
             ELSE SeqGoto(s, "post") /\ UNCHANGED execState
          /\ UNCHANGED <<interpState, closed, seqFaulted, inflight, pc, op, cmd>>
       \/ /\ "refuse" \in Env /\ cmd[s] \in {"aux", "tapOn", "tapOff"}
          /\ IF s \in closed
             THEN SeqReturn(s) /\ UNCHANGED <<interpState, execState, closed,
                                              seqFaulted, pc, op>>
             ELSE SeqFault(s) /\ UNCHANGED <<inflight, cmd>>
    /\ UNCHANGED <<stepping, interpActive, cur, queue, pauseCh, resumeCh,
                   tpAbortPending, locks, old, prods, tp>>

\* PostWait and single step.  M0 pauses; the end-of-program marker returns
\* to idle unless a pause came in; a stepped move waits for motion first.
SeqPost(s) ==
    /\ spc[s] = "post"
    /\ interpState' = IF cmd[s] = "m0" THEN "Paused"
                      ELSE IF cmd[s] = "done" /\ interpState # "Paused"
                           THEN "Idle" ELSE interpState
    /\ pauseCh' = (pauseCh \/ cmd[s] = "m0")
    /\ IF cmd[s] = "move" /\ stepping
       THEN /\ SeqGoto(s, "stepwait") /\ execState' = "Waiting"
            /\ UNCHANGED <<inflight, cmd>>
       ELSE /\ SeqGoto(s, "check") /\ inflight' = FALSE
            /\ cmd' = [cmd EXCEPT ![s] = "done"]
            /\ execState' = IF cmd[s] = "done" THEN "Done" ELSE execState
    /\ UNCHANGED <<stepping, interpActive, cur, closed, queue, resumeCh,
                   seqFaulted, tapping, tpAbortPending, locks, threads, prods, tp>>

\* Mutant: the exiting goroutine writes a state of its own.
SeqFaultStopMutant(s) ==
    /\ \/ spc[s] = "faultStop" /\ MarkAbort /\ SeqGoto(s, "faultAbort")
          /\ UNCHANGED <<execState, cmd, inflight>>
       \/ spc[s] = "faultAbort" /\ SendAbort /\ SeqReturn(s)
          /\ execState' = "Done"
    /\ UNCHANGED <<interpState, stepping, interpActive, chans, seqFaulted,
                   tapping, locks, threads, prods>>

\* The hardware stop of seqFaultExit, and the end of the goroutine.
SeqFaultStop(s) ==
    /\ \/ spc[s] = "faultStop" /\ MarkAbort /\ SeqGoto(s, "faultAbort")
          /\ UNCHANGED <<cmd, inflight>>
       \/ spc[s] = "faultAbort" /\ SendAbort /\ SeqReturn(s)
    /\ UNCHANGED <<reported, chans, seqFaulted, tapping, locks, threads, prods>>

-----------------------------------------------------------------------------
\* Motion advances by one servo cycle.
Servo == /\ tp' \in Cycle(tp)
         /\ UNCHANGED <<reported, chans, flags, locks, threads, prods, seqs>>

Request(c) == \/ Abort(c) \/ Pause(c) \/ Resume(c) \/ Step(c) \/ Run(c)

\* The threads that contend for a mutex.
Acquire(t) == Lock(t) \/ StartSequencer(t)

ThreadStep(t) ==
    \/ AbortSequencer(t) \/ FlushQueue(t) \/ StopMotion(t)
    \/ FaultCheck(t) \/ WaitRunDone(t) \/ InterpReset(t)
    \/ JoinSequencer(t) \/ SpawnSequencer(t) \/ CommitTerminal(t)
    \/ /\ t \in Client
       /\ \/ AbortSigStop(t) \/ PauseMotion(t) \/ ResumeMotion(t)
          \/ StepWake(t) \/ AbortClobber(t) \/ AbortRestore(t)
          \/ RunGuard(t) \/ RunOpen(t) \/ RunLaunch(t)
    \/ /\ t \in Producer
       /\ \/ ProgramStart(t) \/ SeekToLine(t) \/ NextLine(t)
          \/ ReadLine(t) \/ ExecuteLine(t) \/ EnqueueCmd(t)
          \/ DrainSnapshot(t) \/ DrainInflight(t) \/ ProgramSynch(t)
          \/ FaultProgram(t) \/ ProgramExit(t)

SeqStep(s) == \/ SeqCheckPause(s) \/ SeqPaused(s) \/ SeqRefresh(s)
              \/ SeqSelect(s) \/ SeqMark(s) \/ SeqWait(s)
              \/ SeqWaitTPAbort(s) \/ SeqWaitSpace(s)
              \/ SeqExecMotion(s) \/ SeqExecOther(s) \/ SeqPost(s)
              \/ SeqFaultStop(s)

Next == \/ \E c \in Client : Request(c)
        \/ MonitorTrip
        \/ \E t \in Thread : Acquire(t) \/ ThreadStep(t)
        \/ \E s \in Gen : SeqStep(s)
        \/ Servo

Spec == Init /\ [][Next]_vars

\* Goroutines are scheduled fairly, the servo thread keeps running, and a
\* waiter of a Go mutex gets it in the end (its starvation mode hands it
\* over).  A line of the program emits finitely many commands, so its Execute
\* returns.  Requests, the monitor's trip and the lines to come are not fair.
Fairness == /\ \A t \in Thread : WF_vars(ThreadStep(t)) /\ SF_vars(Acquire(t))
            /\ \A p \in Producer : SF_vars(ExecuteLine(p) /\ pc'[p] # "put")
            /\ \A s \in Gen : WF_vars(SeqStep(s))
            /\ WF_vars(Servo)

FairSpec == Spec /\ Fairness

-----------------------------------------------------------------------------
(* Safety.                                                                 *)

\* One consumer per queue: a goroutine of a replaced generation has returned
\* before its successor runs (StartSequencer, "two consumers on one queue").
SingleSequencer == \A s \in Gen : spc[s] # "exited" => s = cur

\* The interpreter ownership rule of task.go: the interpreter is touched by
\* one goroutine at a time.
InterpExclusive == Cardinality(InterpUsers) <= 1

\* waitRunProgramDone: "the caller must already have signalled the abort", so
\* a teardown that waits under cmdMu waits for a producer told to stop.
WaitersSignalled ==
    \A t \in Thread : pc[t] = "waitRun" =>
        \/ RunDoneClosed
        \/ pc[runDone] # "reserved" /\ mine[runDone] \in closed

\* No thread is at work.  A producer in reserve is no goroutine: it is the
\* runDone channel of a Run, or what one that failed has left of it.
NobodyAtWork == \A t \in Thread : pc[t] \in {"idle", "reserved"}

\* Nothing is being served, and the sequencer waits on an empty queue.
AtRest == /\ NobodyAtWork
          /\ spc[cur] = "select" /\ queue[cur] = <<>> /\ cur \notin closed

\* A machine at rest says so: no leftover "reading", "paused" or "waiting"
\* that would refuse every later command as busy (doPauseLocked, on C10:
\* "wedging programBusy() until Abort/E-stop").
RestIsIdle == AtRest => /\ ~programBusy
                        /\ execState \in {"Done", "Error"} /\ ~inflight

\* Whoever takes the sequencer down brings one up again: with no request,
\* teardown or program under way, commands enqueued next are executed.
SequencerServes ==
    NobodyAtWork => spc[cur] # "exited" /\ cur \notin closed /\ ~seqFaulted

\* An operator's abort is in progress.
Aborting == \E c \in Client : op[c] = "abort"

\* A Run has passed its guard and is replacing the sequencer.
Starting == \E c \in Client : op[c] = "run" /\ pc[c] \in {"life", "join", "spawn"}

\* A sequencer fault stays visible until it has been recovered from: only an
\* operator's abort or a program about to start may replace the error it
\* latched (seqFaultExit).
FaultVisible ==
    seqFaulted => \/ Aborting \/ Starting
                  \/ execState = "Error" /\ interpState = "Idle"

\* An error that a teardown has committed is not clobbered by a late write of
\* the goroutine it took down: it goes away with an operator's abort, with the
\* next program, or while the next teardown runs (restartSequencer: "nothing
\* else can clobber this commit").
ErrorLatched ==
    [][execState = "Error" /\ execState' # "Error" =>
          Aborting \/ interpState # "Idle"]_vars

\* The planner's queue never grows past the high-water mark, so that motion,
\* which takes an overfull queue for a fatal error, never sees one.
BelowHighWater == tp.depth <= TPHighWater

\* A sequencer that blocks in a pause can be woken: clients see the program
\* paused (Resume is a no-op otherwise), or it was already told to go on.
PausedIsResumable ==
    \A s \in Gen : spc[s] = "paused" =>
        \/ interpState = "Paused" \/ resumeCh \/ s \in closed
        \/ \E t \in Thread : pc[t] = "close"

-----------------------------------------------------------------------------
(* A claim of the code's comments that the code does not keep; a run         *)
(* exhibits the counterexample.                                             *)

\* doResumeLocked: a stray resume must not leave seqResumeCh closed, or it
\* disarms "a mandatory M0 stop, which the machine would then run straight
\* through".
MandatoryStopArmed ==
    \A s \in Gen : spc[s] = "post" /\ cmd[s] = "m0" => ~resumeCh

-----------------------------------------------------------------------------
(* Liveness.                                                               *)

\* No teardown hangs: every abort, recovery and start of a program gives
\* cmdMu back, whether the producer it waits for drains, executes a line or is
\* blocked on the full queue of a sequencer that is gone (the deadlocks
\* signalAbort and waitRunProgramDone warn of).
RequestsReturn ==
    \A t \in Thread \ Producer : []<>(pc[t] = "idle")

\* A sequencer fault is always recovered from (recoverSeqFault): the fault
\* latch never stays set.
FaultRecovered == []<>~seqFaulted
=============================================================================
