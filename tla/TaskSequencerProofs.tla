------------------------- MODULE TaskSequencerProofs -------------------------
(***************************************************************************)
(* Theorems about TaskSequencer for every value of its constants: its type *)
(* invariant, the single consumer of a sequencer queue, and the high-water *)
(* mark of the planner's queue.                                            *)
(***************************************************************************)
EXTENDS TaskSequencer, SequenceTheorems, TLAPS

-----------------------------------------------------------------------------
(* The planner's queue: what every command and servo cycle leaves behind.   *)

\* The cleared queue of tpClear is a queue.
LEMMA TPInitType == TPInit \in TPState
  BY TPSizeAssumption DEF TPInit, TPState

\* An abort (EMCMOT_ABORT) turns a queue into a queue.
LEMMA MotAbortType ==
  ASSUME NEW q \in TPState  PROVE MotAbort(q) \in TPState
  BY DEF MotAbort, TPState

\* So does a pause,
LEMMA MotPauseType ==
  ASSUME NEW q \in TPState  PROVE MotPause(q) \in TPState
  BY DEF MotPause, TPState

\* a resume,
LEMMA MotResumeType ==
  ASSUME NEW q \in TPState  PROVE MotResume(q) \in TPState
  BY DEF MotResume, TPState

\* and a single step, refused or not.
LEMMA MotStepType ==
  ASSUME NEW q \in TPState  PROVE MotStep(q) \in TPState
  BY DEF MotStep, TPState

\* A segment that the planner accepts fits into its queue.
LEMMA AddSegmentType ==
  ASSUME NEW q \in TPState, Accepts(q)  PROVE AddSegment(q) \in TPState
  BY TPSizeAssumption DEF Accepts, AddSegment, TPState

\* No servo cycle, whichever of its branches it takes, takes the depth out of
\* its range: nothing completes that was not queued.
LEMMA CycleType ==
  ASSUME NEW q \in TPState, NEW next \in Cycle(q)  PROVE next \in TPState
<1>1. CASE next \in EmptyCycle(q)
  BY <1>1 DEF EmptyCycle, TPState
<1>2. CASE next \in AbortCycle(q)
  <2>1. next = [q EXCEPT !.depth = 0, !.pausing = FALSE, !.aborting = FALSE]
    BY <1>2 DEF AbortCycle
  <2>2. 0 \in 0 .. TPSize
    BY TPSizeAssumption
  <2> QED  BY <2>1, <2>2 DEF TPState
<1>3. CASE next \in MoveCycle(q)
  <2>1. q.depth > 0 /\ q.depth \in 0 .. TPSize
    BY <1>3 DEF MoveCycle, TPState
  <2>2. CASE q.stepping
    <3>1. PICK d \in {q.depth, q.depth - 1} :
             next = [q EXCEPT !.depth = d, !.pausing = TRUE,
                               !.stepping = FALSE, !.paused = TRUE]
      BY <1>3, <2>2 DEF MoveCycle
    <3>2. d \in 0 .. TPSize
      BY <2>1, TPSizeAssumption
    <3> QED  BY <3>1, <3>2 DEF TPState
  <2>3. CASE ~q.stepping
    <3>1. next = [q EXCEPT !.depth = q.depth - 1]
      BY <1>3, <2>3 DEF MoveCycle
    <3>2. q.depth - 1 \in 0 .. TPSize
      BY <2>1, TPSizeAssumption
    <3> QED  BY <3>1, <3>2 DEF TPState
  <2> QED  BY <2>2, <2>3
<1> QED  BY <1>1, <1>2, <1>3 DEF Cycle

\* The commands of the motion handler neither queue nor drop a segment
\* themselves,
LEMMA CommandDepth ==
  ASSUME NEW q \in TPState
  PROVE  /\ MotAbort(q).depth = q.depth /\ MotPause(q).depth = q.depth
         /\ MotResume(q).depth = q.depth /\ MotStep(q).depth = q.depth
<1>1. MotAbort(q).depth = q.depth
  BY DEF MotAbort, TPState
<1>2. MotPause(q).depth = q.depth
  BY DEF MotPause, TPState
<1>3. MotResume(q).depth = q.depth
  BY DEF MotResume, TPState
<1>4. MotStep(q).depth = q.depth
  BY DEF MotStep, TPState
<1> QED  BY <1>1, <1>2, <1>3, <1>4

\* a new segment takes one slot,
LEMMA AddSegmentDepth ==
  ASSUME NEW q \in TPState  PROVE AddSegment(q).depth = q.depth + 1
BY DEF AddSegment, TPState

\* and a servo cycle never takes one.
LEMMA CycleDepth ==
  ASSUME NEW q \in TPState, NEW next \in Cycle(q)
  PROVE  next.depth <= q.depth
<1>0. q.depth \in Nat
  BY DEF TPState
<1>1. CASE next \in EmptyCycle(q)
  <2>1. next = [q EXCEPT !.pausing = FALSE, !.aborting = FALSE]
    BY <1>1 DEF EmptyCycle
  <2>2. next.depth = q.depth
    BY <2>1 DEF TPState
  <2> QED  BY <1>0, <2>2
<1>2. CASE next \in AbortCycle(q)
  <2>1. next = [q EXCEPT !.depth = 0, !.pausing = FALSE, !.aborting = FALSE]
    BY <1>2 DEF AbortCycle
  <2>2. next.depth = 0
    BY <2>1 DEF TPState
  <2> QED  BY <1>0, <2>2
<1>3. CASE next \in MoveCycle(q)
  <2>1. \E d \in {q.depth, q.depth - 1} :
           \/ next = [q EXCEPT !.depth = d, !.pausing = TRUE,
                                !.stepping = FALSE, !.paused = TRUE]
           \/ next = [q EXCEPT !.depth = d]
    BY <1>3 DEF MoveCycle
  <2>2. next.depth \in {q.depth, q.depth - 1}
    BY <2>1 DEF TPState
  <2> QED  BY <1>0, <2>2
<1> QED  BY <1>1, <1>2, <1>3 DEF Cycle

-----------------------------------------------------------------------------
(* Sequences of commands, with Cmd left folded.                             *)

\* Clearing a queue leaves a queue (AbortSequencer, StartSequencer).
LEMMA ClearType ==
  ASSUME queue \in [Gen -> Seq(Cmd)], NEW g
  PROVE  [queue EXCEPT ![g] = <<>>] \in [Gen -> Seq(Cmd)]
BY EmptySeq

\* So does appending a command (EnqueueCmd), or giving up on it.
LEMMA AppendType ==
  ASSUME queue \in [Gen -> Seq(Cmd)], NEW g, NEW e \in Cmd,
         UNCHANGED queue \/ queue' = [queue EXCEPT ![g] = Append(@, e)]
  PROVE  queue' \in [Gen -> Seq(Cmd)]
<1>1. CASE queue' = queue
  BY <1>1
<1>2. CASE queue' # queue /\ g \in Gen
  <2>1. Append(queue[g], e) \in Seq(Cmd)
    BY <1>2, AppendProperties
  <2> QED  BY <1>2, <2>1
<1>3. CASE queue' # queue /\ g \notin Gen
  <2>1. [queue EXCEPT ![g] = Append(@, e)] = queue
    BY <1>3
  <2> QED  BY <1>3, <2>1
<1> QED  BY <1>1, <1>2, <1>3

\* So does taking the first command off a queue that has one (sequencerLoop).
LEMMA TakeType ==
  ASSUME queue \in [Gen -> Seq(Cmd)], NEW s \in Gen, queue[s] # <<>>
  PROVE  /\ Head(queue[s]) \in Cmd
         /\ [queue EXCEPT ![s] = Tail(@)] \in [Gen -> Seq(Cmd)]
<1>1. Head(queue[s]) \in Cmd /\ Tail(queue[s]) \in Seq(Cmd)
  BY HeadTailProperties
<1> QED  BY <1>1

-----------------------------------------------------------------------------
(* Type correctness: one lemma per kind of actor, one step per action.      *)

\* The state NewTask leaves is well typed.
LEMMA InitType == Init => TypeOK
<1> SUFFICES ASSUME Init  PROVE TypeOK
  OBVIOUS
<1>1. queue \in [Gen -> Seq(Cmd)]
  BY EmptySeq DEF Init
<1>2. "done" \in Cmd
  BY DEF Cmd
<1>3. cmd \in [Gen -> Cmd] /\ emit \in [Producer -> Cmd]
  BY <1>2 DEF Init
<1>4. spc \in [Gen -> SeqPc] /\ pc \in [Thread -> AgentPc \cup ProducerPc]
      /\ op \in [Thread -> Op]
  BY DEF Init, SeqPc, AgentPc, Op
<1>5. tp \in TPState
  BY TPInitType DEF Init
<1>6. interpState \in InterpState /\ execState \in ExecState
  BY DEF Init, InterpState, ExecState
<1>7. cur \in Gen /\ closed \subseteq Gen
      /\ cmdMu \in Thread \cup {Free} /\ seqLifeMu \in Thread \cup {Free}
      /\ old \in [Thread -> Gen \cup {NoGen}] /\ runDone \in Producer \cup {NoRun}
      /\ mine \in [Producer -> Gen \cup {NoGen}]
      /\ tgt \in [Producer -> Gen \cup {NoGen}]
      /\ {stepping, interpActive, pauseCh, resumeCh} \subseteq BOOLEAN
      /\ {seqFaulted, inflight, tapping, tpAbortPending} \subseteq BOOLEAN
  BY DEF Init
<1> QED  BY <1>1, <1>3, <1>4, <1>5, <1>6, <1>7 DEF TypeOK

\* The steps of a client keep the types: its requests, the unserialized
\* signals, and its own part of an abort or a Run.
LEMMA ClientType ==
  ASSUME TypeOK, NEW c \in Client,
         \/ Request(c) \/ AbortSigStop(c) \/ PauseMotion(c) \/ ResumeMotion(c)
         \/ StepWake(c) \/ AbortClobber(c) \/ AbortRestore(c)
         \/ RunGuard(c) \/ RunOpen(c) \/ RunLaunch(c)
  PROVE  TypeOK'
<1> USE DEF TypeOK, reported, chans, flags, locks, threads, prods, seqs,
        Goto, Begin, Return, Thread, AgentPc, Op, InterpState, ExecState
<1>1. CASE Abort(c)  BY <1>1 DEF Abort
<1>2. CASE Pause(c)  BY <1>2 DEF Pause
<1>3. CASE Resume(c)  BY <1>3 DEF Resume
<1>4. CASE Step(c)  BY <1>4 DEF Step
<1>5. CASE Run(c)  BY <1>5 DEF Run
<1>6. CASE AbortSigStop(c)
  <2>1. tp' \in TPState
    BY <1>6, MotAbortType DEF AbortSigStop, MarkAbort, SendAbort
  <2>2. pc' \in [Thread -> AgentPc \cup ProducerPc]
    BY <1>6 DEF AbortSigStop
  <2>3. tpAbortPending' \in BOOLEAN
    BY <1>6 DEF AbortSigStop, MarkAbort, SendAbort
  <2>4. UNCHANGED <<reported, chans, seqFaulted, inflight, tapping, locks, op,
                    old, prods, seqs>>
    BY <1>6 DEF AbortSigStop
  <2> QED  BY <2>1, <2>2, <2>3, <2>4
<1>7. CASE PauseMotion(c)  BY <1>7, MotPauseType DEF PauseMotion
<1>8. CASE ResumeMotion(c)  BY <1>8, MotResumeType DEF ResumeMotion
<1>9. CASE StepWake(c)  BY <1>9, MotStepType DEF StepWake
<1>10. CASE AbortClobber(c)  BY <1>10 DEF AbortClobber
<1>11. CASE AbortRestore(c)
  <2>1. "params" \in Cmd
    BY DEF Cmd, CanonCmd
  <2>2. UNCHANGED queue \/ queue' = [queue EXCEPT ![cur] = Append(@, "params")]
    BY <1>11 DEF AbortRestore
  <2>3. queue' \in [Gen -> Seq(Cmd)]
    <3>1. queue \in [Gen -> Seq(Cmd)]
      OBVIOUS
    <3> QED  BY ONLY <2>1, <2>2, <3>1, AppendType
  <2> QED  BY <1>11, <2>3 DEF AbortRestore
<1>12. CASE RunGuard(c)
  <2>1. CASE programBusy  BY <1>12, <2>1 DEF RunGuard
  <2>2. CASE ~programBusy
    <3>1. PICK p \in Producer :
             /\ runDone' = p
             /\ pc' = [q \in Thread |->
                         IF q = p THEN "reserved"
                         ELSE IF q = c THEN "life"
                         ELSE IF q \in Producer /\ pc[q] = "reserved"
                              THEN "idle" ELSE pc[q]]
      BY <1>12, <2>2 DEF RunGuard
    <3>2. pc' \in [Thread -> AgentPc \cup ProducerPc]
      BY <3>1 DEF ProducerPc
    <3>3. stepping' \in BOOLEAN /\ interpState' \in InterpState
      BY <1>12, <2>2 DEF RunGuard
    <3>4. UNCHANGED <<execState, interpActive, op, cmdMu, chans, flags,
                      seqLifeMu, old, mine, emit, tgt, seqs, tp>>
      BY <1>12, <2>2 DEF RunGuard
    <3> QED  BY <3>1, <3>2, <3>3, <3>4
  <2> QED  BY <2>1, <2>2
<1>13. CASE RunOpen(c)  BY <1>13 DEF RunOpen
<1>14. CASE RunLaunch(c)  BY <1>14 DEF RunLaunch, ProducerPc
<1> QED  BY <1>1, <1>2, <1>3, <1>4, <1>5, <1>6, <1>7, <1>8, <1>9, <1>10,
            <1>11, <1>12, <1>13, <1>14 DEF Request

\* The steps that a client, the monitor, a recoverer and a failing producer
\* share keep the types: the locks, the teardown, the new generation.
LEMMA TeardownType ==
  ASSUME TypeOK, NEW t \in Thread,
         \/ MonitorTrip \/ Acquire(t) \/ AbortSequencer(t) \/ FlushQueue(t)
         \/ StopMotion(t) \/ FaultCheck(t) \/ WaitRunDone(t) \/ InterpReset(t)
         \/ JoinSequencer(t) \/ SpawnSequencer(t) \/ CommitTerminal(t)
  PROVE  TypeOK'
<1> USE DEF TypeOK, reported, chans, flags, locks, threads, prods, seqs,
        Goto, Begin, Return, Thread, AgentPc, Op, InterpState, ExecState
<1>1. CASE Lock(t)  BY <1>1 DEF Lock, AfterLock
<1>2. CASE StartSequencer(t)  BY <1>2 DEF StartSequencer
<1>3. CASE AbortSequencer(t)  BY <1>3 DEF AbortSequencer
<1>4. CASE FlushQueue(t)
  <2>1. queue' \in [Gen -> Seq(Cmd)]
    BY <1>4, ClearType DEF FlushQueue
  <2> QED  BY <1>4, <2>1 DEF FlushQueue
<1>5. CASE StopMotion(t)
  <2>1. tp' \in TPState
    BY <1>5, MotAbortType DEF StopMotion, MarkAbort, SendAbort
  <2>2. pc' \in [Thread -> AgentPc \cup ProducerPc]
    BY <1>5 DEF StopMotion
  <2>3. tpAbortPending' \in BOOLEAN
    BY <1>5 DEF StopMotion, MarkAbort, SendAbort
  <2>4. UNCHANGED <<reported, chans, seqFaulted, inflight, tapping, locks, op,
                    old, prods, seqs>>
    BY <1>5 DEF StopMotion
  <2> QED  BY <2>1, <2>2, <2>3, <2>4
<1>6. CASE FaultCheck(t)  BY <1>6 DEF FaultCheck
<1>7. CASE WaitRunDone(t)  BY <1>7 DEF WaitRunDone
<1>8. CASE InterpReset(t)  BY <1>8 DEF InterpReset
<1>9. CASE JoinSequencer(t)  BY <1>9 DEF JoinSequencer
<1>10. CASE SpawnSequencer(t)
  <2>1. PICK s \in Gen : /\ cur' = s
                         /\ closed' = closed \ {s}
                         /\ queue' = [queue EXCEPT ![s] = <<>>, ![cur] = <<>>]
                         /\ spc' = [spc EXCEPT ![s] = "check"]
    BY <1>10 DEF SpawnSequencer, Unused
  <2>2. queue' \in [Gen -> Seq(Cmd)]
    BY <2>1, EmptySeq
  <2>3. spc' \in [Gen -> SeqPc]
    BY <2>1 DEF SeqPc
  <2>4. /\ pauseCh' = FALSE /\ resumeCh' = FALSE
        /\ seqFaulted' = FALSE /\ tapping' = FALSE /\ seqLifeMu' = Free
        /\ old' \in [Thread -> Gen \cup {NoGen}]
        /\ pc' \in [Thread -> AgentPc \cup ProducerPc]
        /\ UNCHANGED <<reported, inflight, tpAbortPending, cmdMu, op, prods,
                       cmd, tp>>
    BY <1>10 DEF SpawnSequencer
  <2> QED  BY <2>1, <2>2, <2>3, <2>4
<1>11. CASE CommitTerminal(t)  BY <1>11 DEF CommitTerminal, ProducerPc
<1>12. CASE MonitorTrip  BY <1>12 DEF MonitorTrip
<1> QED  BY <1>1, <1>2, <1>3, <1>4, <1>5, <1>6, <1>7, <1>8, <1>9, <1>10,
            <1>11, <1>12 DEF Acquire

\* The producer's steps keep the types.
LEMMA ProducerType ==
  ASSUME TypeOK, NEW p \in Producer,
         \/ ProgramStart(p) \/ SeekToLine(p) \/ NextLine(p)
         \/ ReadLine(p) \/ ExecuteLine(p) \/ EnqueueCmd(p)
         \/ DrainSnapshot(p) \/ DrainInflight(p) \/ ProgramSynch(p)
         \/ FaultProgram(p) \/ ProgramExit(p)
  PROVE  TypeOK'
<1> USE DEF TypeOK, reported, chans, flags, locks, threads, prods, seqs,
        Goto, Begin, Thread, ProducerPc
<1>1. CASE ProgramStart(p)  BY <1>1 DEF ProgramStart
<1>2. CASE SeekToLine(p)  BY <1>2 DEF SeekToLine, InterpState
<1>3. CASE NextLine(p)  BY <1>3 DEF NextLine
<1>4. CASE ReadLine(p)  BY <1>4 DEF ReadLine, Proceed, Cmd
<1>5. CASE ExecuteLine(p)
  <2>1. CASE \E step \in ProducerPc : Proceed(p, step)
    BY <1>5, <2>1 DEF ExecuteLine, Proceed, Cmd
  <2>2. CASE ~\E step \in ProducerPc : Proceed(p, step)
    <3>1. PICK k \in Kinds : /\ Goto(p, "put")
                             /\ emit' = [emit EXCEPT ![p] = k]
                             /\ tgt' = [tgt EXCEPT ![p] = cur]
      BY <1>5, <2>2 DEF ExecuteLine
    <3>2. k \in Cmd
      BY ConstantsAssumption DEF Cmd
    <3> QED  BY <1>5, <3>1, <3>2 DEF ExecuteLine
  <2> QED  BY <2>1, <2>2
<1>6. CASE EnqueueCmd(p)
  <2>1. AfterPut(pc[p]) \in ProducerPc
    BY DEF AfterPut
  <2>2. \/ UNCHANGED queue
        \/ queue' = [queue EXCEPT ![tgt[p]] = Append(@, emit[p])]
    BY <1>6 DEF EnqueueCmd
  <2>3. queue' \in [Gen -> Seq(Cmd)]
    <3>1. queue \in [Gen -> Seq(Cmd)] /\ emit[p] \in Cmd
      OBVIOUS
    <3> QED  BY ONLY <2>2, <3>1, AppendType
  <2>4. pc' \in [Thread -> AgentPc \cup ProducerPc] /\ emit' \in [Producer -> Cmd]
        /\ tgt' \in [Producer -> Gen \cup {NoGen}]
    BY <1>6, <2>1 DEF EnqueueCmd, Proceed, Cmd
  <2> QED  BY <1>6, <2>3, <2>4 DEF EnqueueCmd
<1>7. CASE DrainSnapshot(p)  BY <1>7 DEF DrainSnapshot
<1>8. CASE DrainInflight(p)  BY <1>8 DEF DrainInflight
<1>9. CASE ProgramSynch(p)  BY <1>9 DEF ProgramSynch
<1>10. CASE FaultProgram(p)
  BY <1>10, MotAbortType DEF FaultProgram, MarkAbort, SendAbort, AgentPc, Op
<1>11. CASE ProgramExit(p)
  BY <1>11, ConstantsAssumption DEF ProgramExit, AgentPc
<1> QED  BY <1>1, <1>2, <1>3, <1>4, <1>5, <1>6, <1>7, <1>8, <1>9, <1>10, <1>11

\* A sequencer fault keeps the types (seqFaultExit).
LEMMA SeqFaultType ==
  ASSUME TypeOK, NEW s \in Gen, SeqFault(s)
  PROVE  /\ execState' \in ExecState /\ interpState' \in InterpState
         /\ seqFaulted' \in BOOLEAN /\ closed' \subseteq Gen
         /\ pc' \in [Thread -> AgentPc \cup ProducerPc]
         /\ op' \in [Thread -> Op] /\ spc' \in [Gen -> SeqPc]
<1>1. PICK r \in Recoverer : Begin(r, "recover", "lock")
  BY DEF SeqFault
<1>2. pc' \in [Thread -> AgentPc \cup ProducerPc] /\ op' \in [Thread -> Op]
  BY <1>1 DEF TypeOK, Begin, Goto, Thread, AgentPc, Op
<1>3. spc' \in [Gen -> SeqPc]
  BY DEF TypeOK, SeqFault, SeqGoto, SeqPc
<1> QED  BY <1>2, <1>3 DEF TypeOK, SeqFault, ExecState, InterpState

\* A wait for motion keeps the types, whichever step it leads to.
LEMMA WaitMotionDoneType ==
  ASSUME TypeOK, NEW s \in Gen, NEW step \in SeqPc \cup {"stepped"},
         WaitMotionDone(s, step)
  PROVE  /\ execState' \in ExecState /\ interpState' \in InterpState
         /\ seqFaulted' \in BOOLEAN /\ pauseCh' \in BOOLEAN
         /\ inflight' \in BOOLEAN /\ closed' \subseteq Gen
         /\ pc' \in [Thread -> AgentPc \cup ProducerPc]
         /\ op' \in [Thread -> Op] /\ spc' \in [Gen -> SeqPc]
         /\ cmd' \in [Gen -> Cmd]
<1>1. CASE SeqFault(s) /\ UNCHANGED <<pauseCh, inflight, cmd>>
  BY <1>1, SeqFaultType DEF TypeOK
<1>2. CASE ~(SeqFault(s) /\ UNCHANGED <<pauseCh, inflight, cmd>>)
  BY <1>2 DEF TypeOK, WaitMotionDone, SeqGoto, SeqReturn, SeqPc, Cmd,
              ExecState, InterpState
<1> QED  BY <1>1, <1>2

\* The sequencer's steps keep the types.
LEMMA SequencerType ==
  ASSUME TypeOK, NEW s \in Gen, SeqStep(s)
  PROVE  TypeOK'
<1> USE DEF TypeOK, reported, chans, flags, locks, threads, prods, seqs,
        SeqGoto, SeqReturn, SeqPc, InterpState, ExecState
<1>0. "done" \in Cmd
  BY DEF Cmd
<1>1. CASE SeqCheckPause(s)  BY <1>0, <1>1 DEF SeqCheckPause
<1>2. CASE SeqPaused(s)  BY <1>0, <1>2 DEF SeqPaused
<1>3. CASE SeqRefresh(s)  BY <1>3 DEF SeqRefresh
<1>4. CASE SeqSelect(s)
  <2>1. CASE UNCHANGED queue /\ SeqReturn(s)
    BY <1>0, <1>4, <2>1 DEF SeqSelect
  <2>2. CASE ~(UNCHANGED queue /\ SeqReturn(s))
    <3>1. /\ queue[s] # <<>>
          /\ cmd' = [cmd EXCEPT ![s] = Head(queue[s])]
          /\ queue' = [queue EXCEPT ![s] = Tail(@)]
          /\ spc' = [spc EXCEPT ![s] = "got"] /\ UNCHANGED inflight
      BY <1>4, <2>2 DEF SeqSelect
    <3>2. cmd' \in [Gen -> Cmd] /\ queue' \in [Gen -> Seq(Cmd)]
      BY <3>1, TakeType
    <3> QED  BY <1>4, <3>1, <3>2 DEF SeqSelect
  <2> QED  BY <2>1, <2>2
<1>5. CASE SeqMark(s)  BY <1>5 DEF SeqMark
<1>6. CASE SeqWait(s)
  <2>1. PICK step \in SeqPc \cup {"stepped"} : WaitMotionDone(s, step)
    BY <1>6 DEF SeqWait
  <2> QED  BY <1>6, <2>1, WaitMotionDoneType DEF SeqWait
<1>7. CASE SeqWaitTPAbort(s)  BY <1>0, <1>7 DEF SeqWaitTPAbort
<1>8. CASE SeqWaitSpace(s)  BY <1>0, <1>8 DEF SeqWaitSpace
<1>9. CASE SeqExecMotion(s)
  <2>1. CASE SeqFault(s) /\ UNCHANGED <<inflight, cmd, tp>>
    BY <1>9, <2>1, SeqFaultType DEF SeqExecMotion
  <2>2. CASE ~(SeqFault(s) /\ UNCHANGED <<inflight, cmd, tp>>)
    <3>1. tp' \in TPState
      BY <1>9, <2>2, AddSegmentType DEF SeqExecMotion
    <3> QED  BY <1>0, <1>9, <2>2, <3>1 DEF SeqExecMotion
  <2> QED  BY <2>1, <2>2
<1>10. CASE SeqExecOther(s)
  <2>1. CASE SeqFault(s) /\ UNCHANGED <<inflight, cmd>>
    BY <1>10, <2>1, SeqFaultType DEF SeqExecOther
  <2>2. CASE ~(SeqFault(s) /\ UNCHANGED <<inflight, cmd>>)
    <3>1. tapping' \in BOOLEAN
      BY <1>10 DEF SeqExecOther
    <3>2. execState' \in ExecState
      BY <1>10, <2>2 DEF SeqExecOther
    <3>3. UNCHANGED <<interpState, closed, seqFaulted, pc, op>>
      BY <1>10, <2>2 DEF SeqExecOther
    <3>4. \/ SeqReturn(s)
          \/ /\ \E step \in {"wait", "post"} : SeqGoto(s, step)
             /\ UNCHANGED <<inflight, cmd>>
      BY <1>10, <2>2 DEF SeqExecOther
    <3>5. spc' \in [Gen -> SeqPc] /\ cmd' \in [Gen -> Cmd] /\ inflight' \in BOOLEAN
      BY <1>0, <3>4
    <3> QED  BY <1>10, <3>1, <3>2, <3>3, <3>5 DEF SeqExecOther
  <2> QED  BY <2>1, <2>2
<1>11. CASE SeqPost(s)  BY <1>0, <1>11 DEF SeqPost
<1>12. CASE SeqFaultStop(s)
  BY <1>0, <1>12, MotAbortType DEF SeqFaultStop, MarkAbort, SendAbort
<1> QED  BY <1>1, <1>2, <1>3, <1>4, <1>5, <1>6, <1>7, <1>8, <1>9, <1>10,
            <1>11, <1>12 DEF SeqStep

\* Every step keeps the types.
LEMMA StepType == TypeOK /\ [Next]_vars => TypeOK'
<1> SUFFICES ASSUME TypeOK, [Next]_vars  PROVE TypeOK'
  OBVIOUS
<1>1. CASE \E c \in Client : Request(c)
  BY <1>1, ClientType
<1>2. CASE MonitorTrip
  BY <1>2, TeardownType DEF Thread
<1>3. CASE \E t \in Thread : Acquire(t) \/ ThreadStep(t)
  BY <1>3, ClientType, TeardownType, ProducerType DEF ThreadStep
<1>4. CASE \E s \in Gen : SeqStep(s)
  BY <1>4, SequencerType
<1>5. CASE Servo
  BY <1>5, CycleType
     DEF Servo, TypeOK, reported, chans, flags, locks, threads, prods, seqs
<1>6. CASE UNCHANGED vars
  BY <1>6
     DEF vars, TypeOK, reported, chans, flags, locks, threads, prods, seqs
<1> QED  BY <1>1, <1>2, <1>3, <1>4, <1>5, <1>6 DEF Next

\* Every state milltask reaches is well typed, for any number of clients,
\* producers and generations and any sizes of the two queues: in particular
\* no servo cycle completes a segment of an empty planner queue, and none is
\* added to a full one.
THEOREM TypeCorrect == Spec => []TypeOK
BY InitType, StepType, PTL DEF Spec

-----------------------------------------------------------------------------
(* One sequencer.  The generation changes only in the hands of the thread   *)
(* that owns seqLifeMu, and only after the old goroutine has returned.      *)

\* A thread past the lock of StartSequencer owns seqLifeMu, and what it
\* captured as the old generation is still the current one.
ReplacerOwns ==
    \A t \in Thread : pc[t] \in {"join", "spawn"} => seqLifeMu = t /\ old[t] = cur

\* After the join the old goroutine has returned, and no step revives it.
JoinedIsOver == \A t \in Thread : pc[t] = "spawn" => spc[cur] = "exited"

Replacement == SingleSequencer /\ ReplacerOwns /\ JoinedIsOver

\* A step that leaves the generation, its goroutine and seqLifeMu alone, and
\* brings no thread into StartSequencer's critical section, keeps it.
LEMMA ReplacementFrame ==
  ASSUME Replacement, UNCHANGED <<cur, spc, seqLifeMu>>,
         \A t \in Thread : pc'[t] \in {"join", "spawn"} =>
                               pc'[t] = pc[t] /\ old'[t] = old[t]
  PROVE  Replacement'
BY DEF Replacement, SingleSequencer, ReplacerOwns, JoinedIsOver

\* A step of a goroutine that is running keeps it too: the goroutine is that
\* of the current generation, and no thread has joined it yet.
LEMMA SeqFrame ==
  ASSUME TypeOK, Replacement, NEW s \in Gen, spc[s] # "exited",
         UNCHANGED <<cur, seqLifeMu, old>>,
         \A g \in Gen : g # s => spc'[g] = spc[g],
         \A t \in Thread : pc'[t] \in {"join", "spawn"} => pc'[t] = pc[t]
  PROVE  Replacement'
BY DEF TypeOK, Replacement, SingleSequencer, ReplacerOwns, JoinedIsOver

\* The steps of clients, of the teardown and of the producer, but for the
\* three of StartSequencer, fall under the first frame.
LEMMA ThreadReplacement ==
  ASSUME TypeOK, Replacement, NEW t \in Thread,
         \/ MonitorTrip
         \/ /\ t \in Client
            /\ \/ Request(t) \/ AbortSigStop(t) \/ PauseMotion(t)
               \/ ResumeMotion(t) \/ StepWake(t) \/ AbortClobber(t)
               \/ AbortRestore(t) \/ RunGuard(t) \/ RunOpen(t) \/ RunLaunch(t)
         \/ Lock(t) \/ AbortSequencer(t) \/ FlushQueue(t) \/ StopMotion(t)
         \/ FaultCheck(t) \/ WaitRunDone(t) \/ InterpReset(t) \/ CommitTerminal(t)
         \/ /\ t \in Producer
            /\ \/ ProgramStart(t) \/ SeekToLine(t) \/ NextLine(t)
               \/ ReadLine(t) \/ ExecuteLine(t) \/ EnqueueCmd(t)
               \/ DrainSnapshot(t) \/ DrainInflight(t) \/ ProgramSynch(t)
               \/ FaultProgram(t) \/ ProgramExit(t)
  PROVE  Replacement'
<1> USE DEF TypeOK, reported, chans, flags, locks, threads, prods, seqs,
        Goto, Begin, Return
<1> DEFINE Outside == \A u \in Thread : pc'[u] \in {"join", "spawn"} =>
                                           pc'[u] = pc[u] /\ old'[u] = old[u]
<1>1. CASE MonitorTrip
  BY <1>1, ReplacementFrame DEF MonitorTrip
<1>2. CASE t \in Client /\ Request(t)
  <2>1. UNCHANGED <<cur, spc, seqLifeMu>> /\ Outside
    BY <1>2 DEF Request, Abort, Pause, Resume, Step, Run
  <2> QED  BY <2>1, ReplacementFrame
<1>3. CASE t \in Client /\ (AbortSigStop(t) \/ PauseMotion(t) \/ ResumeMotion(t)
                           \/ StepWake(t) \/ AbortClobber(t) \/ AbortRestore(t))
  <2>1. UNCHANGED <<cur, spc, seqLifeMu>> /\ Outside
    BY <1>3 DEF AbortSigStop, PauseMotion, ResumeMotion, StepWake,
                AbortClobber, AbortRestore
  <2> QED  BY <2>1, ReplacementFrame
<1>4. CASE t \in Client /\ (RunGuard(t) \/ RunOpen(t) \/ RunLaunch(t))
  <2>1. UNCHANGED <<cur, spc, seqLifeMu>> /\ Outside
    BY <1>4 DEF RunGuard, RunOpen, RunLaunch
  <2> QED  BY <2>1, ReplacementFrame
<1>5. CASE Lock(t) \/ AbortSequencer(t) \/ FlushQueue(t) \/ StopMotion(t)
  <2>1. UNCHANGED <<cur, spc, seqLifeMu>> /\ Outside
    BY <1>5 DEF Lock, AfterLock, AbortSequencer, FlushQueue, StopMotion
  <2> QED  BY <2>1, ReplacementFrame
<1>6. CASE FaultCheck(t) \/ WaitRunDone(t) \/ InterpReset(t) \/ CommitTerminal(t)
  <2>1. UNCHANGED <<cur, spc, seqLifeMu>> /\ Outside
    BY <1>6 DEF FaultCheck, WaitRunDone, InterpReset, CommitTerminal
  <2> QED  BY <2>1, ReplacementFrame
<1>7. CASE t \in Producer /\ (ProgramStart(t) \/ SeekToLine(t) \/ NextLine(t)
                             \/ ReadLine(t) \/ ExecuteLine(t))
  <2>1. UNCHANGED <<cur, spc, seqLifeMu>> /\ Outside
    BY <1>7, ConstantsAssumption
       DEF ProgramStart, SeekToLine, NextLine, ReadLine, ExecuteLine, Proceed
  <2> QED  BY <2>1, ReplacementFrame
<1>8. CASE t \in Producer /\ EnqueueCmd(t)
  <2>1. AfterPut(pc[t]) \notin {"join", "spawn"}
    BY <1>8 DEF AfterPut, ProducerPc
  <2>2. UNCHANGED <<cur, spc, seqLifeMu>> /\ Outside
    BY <1>8, <2>1 DEF EnqueueCmd, Proceed
  <2> QED  BY <2>2, ReplacementFrame
<1>9. CASE t \in Producer /\ (DrainSnapshot(t) \/ DrainInflight(t)
                             \/ ProgramSynch(t) \/ FaultProgram(t) \/ ProgramExit(t))
  <2>1. UNCHANGED <<cur, spc, seqLifeMu>> /\ Outside
    BY <1>9 DEF DrainSnapshot, DrainInflight, ProgramSynch, FaultProgram, ProgramExit
  <2> QED  BY <2>1, ReplacementFrame
<1> QED  BY <1>1, <1>2, <1>3, <1>4, <1>5, <1>6, <1>7, <1>8, <1>9

\* The three steps of StartSequencer.  Only here seqLifeMu matters.
LEMMA StartReplacement ==
  ASSUME TypeOK, Replacement, NEW t \in Thread,
         StartSequencer(t) \/ JoinSequencer(t) \/ SpawnSequencer(t)
  PROVE  Replacement'
<1> USE DEF TypeOK, Goto, Replacement, SingleSequencer, ReplacerOwns, JoinedIsOver
<1>1. CASE StartSequencer(t)
  <2>1. \A u \in Thread : pc[u] \notin {"join", "spawn"}
    BY <1>1, ConstantsAssumption DEF StartSequencer
  <2> QED  BY <1>1, <2>1 DEF StartSequencer, seqs
<1>2. CASE JoinSequencer(t)
  BY <1>2 DEF JoinSequencer, seqs, chans, locks
<1>3. CASE SpawnSequencer(t)
  <2>1. \A g \in Gen : spc[g] = "exited"
    BY <1>3 DEF SpawnSequencer
  <2>2. \A u \in Thread : u # t => pc[u] \notin {"join", "spawn"}
    BY <1>3 DEF SpawnSequencer
  <2>3. \A u \in Thread : pc'[u] \notin {"join", "spawn"}
    BY <1>3, <2>2 DEF SpawnSequencer
  <2>4. SingleSequencer'
    BY <1>3, <2>1 DEF SpawnSequencer, Unused
  <2> QED  BY <2>3, <2>4
<1> QED  BY <1>1, <1>2, <1>3

\* The steps of the sequencer fall under the second frame.
LEMMA SeqReplacement ==
  ASSUME TypeOK, Replacement, NEW s \in Gen, SeqStep(s)
  PROVE  Replacement'
<1>1. /\ spc[s] # "exited" /\ UNCHANGED <<cur, seqLifeMu, old>>
      /\ \E step \in SeqPc : SeqGoto(s, step)
      /\ UNCHANGED pc \/ \E r \in Recoverer : Begin(r, "recover", "lock")
  <2> USE DEF SeqReturn, SeqPc, reported, chans, flags, locks, threads, prods
  <2>1. CASE SeqCheckPause(s) \/ SeqPaused(s) \/ SeqRefresh(s) \/ SeqSelect(s)
    BY <2>1 DEF SeqCheckPause, SeqPaused, SeqRefresh, SeqSelect
  <2>2. CASE SeqMark(s) \/ SeqWaitTPAbort(s) \/ SeqWaitSpace(s)
    BY <2>2 DEF SeqMark, SeqWaitTPAbort, SeqWaitSpace
  <2>3. CASE SeqWait(s)
    BY <2>3 DEF SeqWait, WaitMotionDone, SeqFault
  <2>4. CASE SeqExecMotion(s)
    BY <2>4 DEF SeqExecMotion, SeqFault
  <2>5. CASE SeqExecOther(s)
    BY <2>5 DEF SeqExecOther, SeqFault
  <2>6. CASE SeqPost(s) \/ SeqFaultStop(s)
    BY <2>6 DEF SeqPost, SeqFaultStop
  <2> QED  BY <2>1, <2>2, <2>3, <2>4, <2>5, <2>6 DEF SeqStep
<1>2. \A g \in Gen : g # s => spc'[g] = spc[g]
  BY <1>1 DEF SeqGoto, TypeOK
<1>3. \A t \in Thread : pc'[t] \in {"join", "spawn"} => pc'[t] = pc[t]
  BY <1>1 DEF Begin, Goto, TypeOK
<1> QED  BY <1>1, <1>2, <1>3, SeqFrame

LEMMA InitReplacement == Init => Replacement
<1> SUFFICES ASSUME Init  PROVE Replacement
  OBVIOUS
<1>1. SingleSequencer /\ \A t \in Thread : pc[t] = "idle"
  BY DEF Init, SingleSequencer
<1> QED  BY <1>1 DEF Replacement, ReplacerOwns, JoinedIsOver

\* Every step keeps it.
LEMMA StepReplacement ==
  ASSUME TypeOK, Replacement, [Next]_vars
  PROVE  Replacement'
<1>1. CASE \E c \in Client : Request(c)
  BY <1>1, ThreadReplacement DEF Thread
<1>2. CASE MonitorTrip
  BY <1>2, ThreadReplacement DEF Thread
<1>3. CASE \E t \in Thread : Acquire(t) \/ ThreadStep(t)
  BY <1>3, ThreadReplacement, StartReplacement DEF Acquire, ThreadStep
<1>4. CASE \E s \in Gen : SeqStep(s)
  BY <1>4, SeqReplacement
<1>5. CASE Servo \/ UNCHANGED vars
  BY <1>5, ReplacementFrame DEF Servo, vars, chans, locks, threads, seqs
<1> QED  BY <1>1, <1>2, <1>3, <1>4, <1>5 DEF Next

\* There is never a second consumer of the sequencer's queue, however many
\* teardowns, recoveries and starts of programs contend for it.
THEOREM OneSequencer == Spec => []SingleSequencer
<1>1. Init => Replacement
  BY InitReplacement
<1>2. TypeOK /\ Replacement /\ [Next]_vars => Replacement'
  BY StepReplacement
<1>3. Replacement => SingleSequencer
  BY DEF Replacement
<1> QED  BY <1>1, <1>2, <1>3, TypeCorrect, PTL DEF Spec

-----------------------------------------------------------------------------
(* The high-water mark.  A move is checked against it one step before it is *)
(* queued; it holds because nobody else can queue one in between.           *)

\* A goroutine about to queue a move has just seen space for it.
RoomToMove ==
    \A s \in Gen : spc[s] = "exec" /\ cmd[s] = "move" => tp.depth < TPHighWater

\* Only an auxiliary command waits before it executes.
WaitIsAux == \A s \in Gen : spc[s] = "pre" => cmd[s] = "aux"

Room == BelowHighWater /\ RoomToMove /\ WaitIsAux

\* A step that queues nothing and brings no goroutine to its execute or wait
\* step keeps it.
LEMMA RoomFrame ==
  ASSUME TypeOK, TypeOK', Room, tp'.depth <= tp.depth,
         \A s \in Gen : spc'[s] \in {"exec", "pre"} =>
                            spc'[s] = spc[s] /\ cmd'[s] = cmd[s]
  PROVE  Room'
<1>1. tp.depth \in Nat /\ tp'.depth \in Nat /\ TPHighWater \in Nat
  BY ConstantsAssumption, TPSizeAssumption DEF TypeOK, TPState
<1> QED  BY <1>1 DEF Room, BelowHighWater, RoomToMove, WaitIsAux

\* No thread but the sequencer queues a segment or moves the sequencer on.
LEMMA ThreadRoom ==
  ASSUME TypeOK, NEW t \in Thread,
         MonitorTrip \/ (t \in Client /\ Request(t)) \/ Acquire(t) \/ ThreadStep(t)
  PROVE  /\ tp'.depth = tp.depth
         /\ \A s \in Gen : spc'[s] \in {"exec", "pre"} =>
                               spc'[s] = spc[s] /\ cmd'[s] = cmd[s]
<1> USE DEF seqs
<1>0. tp \in TPState
  BY DEF TypeOK
<1>1. CASE MonitorTrip \/ (t \in Client /\ Request(t))
  BY <1>1 DEF MonitorTrip, Request, Abort, Pause, Resume, Step, Run
<1>2. CASE t \in Client /\ (AbortSigStop(t) \/ PauseMotion(t) \/ ResumeMotion(t)
                           \/ StepWake(t))
  BY <1>0, <1>2, CommandDepth
     DEF AbortSigStop, PauseMotion, ResumeMotion, StepWake, MarkAbort, SendAbort
<1>3. CASE t \in Client /\ (AbortClobber(t) \/ AbortRestore(t)
                           \/ RunGuard(t) \/ RunOpen(t) \/ RunLaunch(t))
  BY <1>3 DEF AbortClobber, AbortRestore, RunGuard, RunOpen, RunLaunch
<1>4. CASE StopMotion(t) \/ (t \in Producer /\ FaultProgram(t))
  BY <1>0, <1>4, CommandDepth DEF StopMotion, FaultProgram, MarkAbort, SendAbort
<1>5. CASE Lock(t) \/ AbortSequencer(t) \/ FlushQueue(t) \/ FaultCheck(t)
           \/ WaitRunDone(t) \/ InterpReset(t) \/ StartSequencer(t)
           \/ JoinSequencer(t) \/ CommitTerminal(t)
  BY <1>5 DEF Lock, AbortSequencer, FlushQueue, FaultCheck, WaitRunDone,
              InterpReset, StartSequencer, JoinSequencer, CommitTerminal
<1>6. CASE SpawnSequencer(t)
  BY <1>6 DEF SpawnSequencer, TypeOK
<1>7. CASE t \in Producer /\ (ProgramStart(t) \/ SeekToLine(t) \/ NextLine(t)
                             \/ ReadLine(t) \/ ExecuteLine(t) \/ EnqueueCmd(t))
  BY <1>7 DEF ProgramStart, SeekToLine, NextLine, ReadLine, ExecuteLine, EnqueueCmd
<1>8. CASE t \in Producer /\ (DrainSnapshot(t) \/ DrainInflight(t)
                             \/ ProgramSynch(t) \/ ProgramExit(t))
  BY <1>8 DEF DrainSnapshot, DrainInflight, ProgramSynch, ProgramExit
<1> QED  BY <1>1, <1>2, <1>3, <1>4, <1>5, <1>6, <1>7, <1>8 DEF Acquire, ThreadStep

\* The sequencer queues a move only into the space it has seen, as the one
\* goroutine that queues any.
LEMMA SeqRoom ==
  ASSUME "refuse" \notin Env, TypeOK, TypeOK', SingleSequencer, Room,
         NEW s \in Gen, SeqStep(s)
  PROVE  Room'
<1> USE DEF TypeOK, SeqGoto, SeqReturn, seqs
<1> DEFINE Frame == \A g \in Gen : spc'[g] \in {"exec", "pre"} =>
                                      spc'[g] = spc[g] /\ cmd'[g] = cmd[g]
<1>0. /\ tp.depth \in Nat /\ tp'.depth \in Nat /\ TPHighWater \in Nat
      /\ tp \in TPState
  BY ConstantsAssumption, TPSizeAssumption DEF TPState
<1>1. CASE SeqCheckPause(s) \/ SeqPaused(s) \/ SeqRefresh(s) \/ SeqSelect(s)
           \/ SeqWaitTPAbort(s) \/ SeqPost(s)
  <2>1. tp' = tp /\ Frame
    BY <1>1 DEF SeqCheckPause, SeqPaused, SeqRefresh, SeqSelect, SeqWaitTPAbort,
                SeqPost
  <2> QED  BY <1>0, <2>1, RoomFrame
<1>2. CASE SeqMark(s)
  <2>1. tp' = tp /\ cmd' = cmd /\ \A g \in Gen \ {s} : spc'[g] = spc[g]
    BY <1>2 DEF SeqMark
  <2>2. /\ spc'[s] = "exec" => cmd[s] # "move"
        /\ spc'[s] = "pre" => cmd[s] = "aux"
    BY <1>2 DEF SeqMark
  <2> QED  BY <2>1, <2>2 DEF Room, BelowHighWater, RoomToMove, WaitIsAux
<1>3. CASE SeqWait(s)
  <2>1. tp' = tp
    BY <1>3 DEF SeqWait
  <2>2. \A g \in Gen \ {s} : spc'[g] = spc[g] /\ cmd'[g] = cmd[g]
    BY <1>3 DEF SeqWait, WaitMotionDone, SeqFault
  <2>3. spc'[s] # "pre" /\ (spc'[s] = "exec" => spc[s] = "pre" /\ cmd' = cmd)
    BY <1>3 DEF SeqWait, WaitMotionDone, SeqFault
  <2> QED  BY <2>1, <2>2, <2>3 DEF Room, BelowHighWater, RoomToMove, WaitIsAux
<1>4. CASE SeqWaitSpace(s)
  <2>1. tp' = tp /\ \A g \in Gen \ {s} : spc'[g] = spc[g] /\ cmd'[g] = cmd[g]
    BY <1>4 DEF SeqWaitSpace
  <2>2. spc'[s] # "pre" /\ (spc'[s] = "exec" => tp.depth < TPHighWater)
    BY <1>4 DEF SeqWaitSpace
  <2> QED  BY <2>1, <2>2 DEF Room, BelowHighWater, RoomToMove, WaitIsAux
<1>5. CASE SeqExecMotion(s)
  <2>1. \A g \in Gen \ {s} : spc[g] = "exited" /\ spc'[g] = spc[g]
    BY <1>5 DEF SeqExecMotion, SeqFault, SingleSequencer
  <2>2. CASE cmd[s] = "move" /\ tp' = AddSegment(tp) /\ SeqGoto(s, "post")
    <3>1. tp'.depth = tp.depth + 1
      BY <1>0, <2>2, AddSegmentDepth
    <3>2. tp.depth < TPHighWater
      BY <1>5, <2>2 DEF SeqExecMotion, Room, RoomToMove
    <3>3. \A g \in Gen : spc'[g] \notin {"exec", "pre"}
      BY <2>1, <2>2
    <3> QED  BY <1>0, <3>1, <3>2, <3>3 DEF Room, BelowHighWater, RoomToMove, WaitIsAux
  <2>3. CASE ~(cmd[s] = "move" /\ tp' = AddSegment(tp) /\ SeqGoto(s, "post"))
    <3>1. tp' = tp
      BY <1>5, <2>3 DEF SeqExecMotion
    <3>2. spc'[s] # "pre" /\ (spc'[s] = "exec" => cmd[s] # "move" /\ cmd' = cmd)
      BY <1>5, <2>3 DEF SeqExecMotion, SeqFault
    <3> QED  BY <2>1, <3>1, <3>2 DEF Room, BelowHighWater, RoomToMove, WaitIsAux
  <2> QED  BY <2>2, <2>3
<1>6. CASE SeqExecOther(s)
  <2>1. tp' = tp /\ Frame
    BY <1>6 DEF SeqExecOther, SeqFault
  <2> QED  BY <1>0, <2>1, RoomFrame
<1>7. CASE SeqFaultStop(s)
  <2>1. tp'.depth = tp.depth /\ Frame
    BY <1>0, <1>7, CommandDepth DEF SeqFaultStop, MarkAbort, SendAbort
  <2> QED  BY <1>0, <2>1, RoomFrame
<1> QED  BY <1>1, <1>2, <1>3, <1>4, <1>5, <1>6, <1>7 DEF SeqStep

\* As long as motion's status can be read, the planner's queue never grows
\* past the high-water mark, whatever its size and whoever pauses, aborts,
\* faults or restarts the program.
THEOREM HighWater ==
  ASSUME "refuse" \notin Env  PROVE Spec => []BelowHighWater
<1>1. Init => Room
  <2> SUFFICES ASSUME Init  PROVE Room
    OBVIOUS
  <2>1. tp.depth = 0 /\ \A s \in Gen : spc[s] \in {"check", "exited"}
    BY DEF Init, TPInit
  <2> QED  BY <2>1, ConstantsAssumption
           DEF Room, BelowHighWater, RoomToMove, WaitIsAux
<1>2. TypeOK /\ TypeOK' /\ SingleSequencer /\ Room /\ [Next]_vars => Room'
  <2> SUFFICES ASSUME TypeOK, TypeOK', SingleSequencer, Room, [Next]_vars
               PROVE  Room'
    OBVIOUS
  <2>0. /\ tp.depth \in Nat /\ tp'.depth \in Nat /\ tp \in TPState
    BY TPSizeAssumption DEF TypeOK, TPState
  <2>1. CASE \/ MonitorTrip \/ \E c \in Client : Request(c)
             \/ \E t \in Thread : Acquire(t) \/ ThreadStep(t)
    <3>1. /\ tp'.depth = tp.depth
          /\ \A s \in Gen : spc'[s] \in {"exec", "pre"} =>
                                spc'[s] = spc[s] /\ cmd'[s] = cmd[s]
      BY <2>1, ThreadRoom DEF Thread
    <3> QED  BY <2>0, <3>1, RoomFrame
  <2>2. CASE \E s \in Gen : SeqStep(s)
    BY <2>2, SeqRoom
  <2>3. CASE Servo
    <3>1. tp'.depth <= tp.depth
      BY <2>0, <2>3, CycleDepth DEF Servo
    <3> QED  BY <2>3, <3>1, RoomFrame DEF Servo, seqs
  <2>4. CASE UNCHANGED vars
    BY <2>0, <2>4, RoomFrame DEF vars, seqs
  <2> QED  BY <2>1, <2>2, <2>3, <2>4 DEF Next
<1>3. Room => BelowHighWater
  BY DEF Room
<1> QED  BY <1>1, <1>2, <1>3, TypeCorrect, OneSequencer, PTL DEF Spec
=============================================================================
