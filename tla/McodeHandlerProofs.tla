------------------------- MODULE McodeHandlerProofs -------------------------
(***************************************************************************)
(* Theorems about McodeHandler for every value of its constants.           *)
(***************************************************************************)
EXTENDS McodeHandler, SequenceTheorems, TLAPS

(* The inductive invariant.                                                *)

\* The sequencer's job in hand is the one whose abort channel the handler
\* keeps, and the worker does not have it before it is queued.
InHand ==
    /\ IF seq \in {"put", "poll"} THEN mine \in Job /\ mine = abortCh
                                  ELSE mine = NoJob
    /\ seq = "put" => mine \notin InWork

\* A job is queued or running, never both.
InWorkOnce == \A i \in DOMAIN jobCh : jobCh[i] # running

\* A buffered result is that of the job in hand, which the worker is done with;
\* it says "aborted" only if the job was told to abort.
ResultIsMine ==
    \A j \in Job : result[j] # "none" =>
        /\ seq = "poll" /\ j = mine /\ j \notin InWork
        /\ result[j] = "aborted" => j \in signalled

\* Threads that abort an M-code, between their first step and the spawn.
Stopping == \E t \in Thread \ {Recoverer} : pc[t] # "idle"

\* Whoever aborts the job in hand, or ends the sequencer, is still at it.
StopIsFinished ==
    /\ pc[Recoverer] \notin {"signal", "close", "abort"}
    /\ mine \in signalled => Stopping
    /\ seq = "exited" => seqAbort \/ Stopping

IInv == TypeOK /\ InHand /\ InWorkOnce /\ ResultIsMine /\ StopIsFinished

-----------------------------------------------------------------------------
(* Sequences and choices, once.                                            *)

\* A queue of at most one job is empty or holds exactly one.
LEMMA OneJob ==
  ASSUME TypeOK  PROVE jobCh = <<>> \/ \E j \in Job : jobCh = <<j>>
<1> SUFFICES ASSUME jobCh # <<>>  PROVE \E j \in Job : jobCh = <<j>>
  OBVIOUS
<1>1. jobCh \in Seq(Job) /\ Len(jobCh) \in Nat /\ Len(jobCh) <= 1
  BY LenProperties DEF TypeOK
<1>2. Len(jobCh) # 0
  BY <1>1, EmptySeq
<1>3. Len(jobCh) = 1
  BY <1>1, <1>2
<1>4. jobCh[1] \in Job
  BY <1>1, <1>3, ElementOfSeq
<1>5. jobCh = <<jobCh[1]>>
  BY <1>1, <1>3, <1>4, SeqEqual
<1> QED  BY <1>4, <1>5

\* What the worker has is what runs and what is queued.
LEMMA InWorkIs ==
  /\ jobCh = <<>> => InWork = {running}
  /\ \A j : jobCh = <<j>> => InWork = {running, j}
BY DEF InWork

\* Submit takes a name that nothing refers to.
LEMMA SubmitIsFresh ==
  ASSUME Submit
  PROVE  /\ mine' \in Job /\ mine' \notin InWork /\ mine' = abortCh'
         /\ mine' # mine /\ mine' # abortCh
<1>1. PICK j \in Job : j \in Unused
  BY DEF Submit, Unused
<1>2. mine' \in Job /\ mine' \in Unused
  BY <1>1 DEF Submit
<1> QED  BY <1>2 DEF Submit, Unused

-----------------------------------------------------------------------------
(* Type correctness.                                                       *)

\* The state that newMcodeHandler and the first StartSequencer leave.
LEMMA InitType == Init => TypeOK
<1> SUFFICES ASSUME Init  PROVE TypeOK
  OBVIOUS
<1>1. jobCh \in Seq(Job) /\ Len(jobCh) <= 1
  BY EmptySeq DEF Init
<1> QED  BY <1>1 DEF Init, TypeOK, Thread

\* Every step of the sequencer, the worker and a teardown keeps the types; that
\* what is queued is a job takes InHand.
LEMMA NextType ==
  ASSUME TypeOK, InHand, [Next]_vars  PROVE TypeOK'
<1> USE DEF TypeOK, handler, teardown, Goto, Thread, Result
<1>0. CASE UNCHANGED vars  BY <1>0 DEF vars
<1>1. CASE Take  BY <1>1 DEF Take
<1>2. CASE SeqStop  BY <1>2 DEF SeqStop
<1>3. CASE Submit  BY <1>3, SubmitIsFresh DEF Submit
<1>4. CASE Put
  <2>1. CASE jobCh' = jobCh /\ mine' = NoJob /\ seq' = "exited"
    BY <1>4, <2>1 DEF Put
  <2>2. CASE jobCh = <<>> /\ jobCh' = <<mine>> /\ seq' = "poll" /\ mine' = mine
    <3>1. mine \in Job
      BY <1>4 DEF Put, InHand
    <3>2. jobCh' \in Seq(Job) /\ Len(jobCh') <= 1
      BY <2>2, <3>1
    <3> QED  BY <1>4, <2>2, <3>2 DEF Put
  <2> QED  BY <1>4, <2>1, <2>2 DEF Put
<1>5. CASE Poll  BY <1>5 DEF Poll
<1>6. CASE WorkerTake  BY <1>6, HeadTailProperties DEF WorkerTake
<1>7. CASE WorkerReturn  BY <1>7 DEF WorkerReturn
<1>8. CASE \E c \in Client : SignalAbort(c)  BY <1>8 DEF SignalAbort
<1>9. CASE MonitorTrip  BY <1>9 DEF MonitorTrip
<1>10. CASE FaultProgram  BY <1>10 DEF FaultProgram
<1>11. ASSUME NEW t \in Thread, TeardownStep(t)  PROVE TypeOK'
  <2>1. CASE McodeAbort(t)  BY <2>1 DEF McodeAbort
  <2>2. CASE Lock(t)  BY <2>2 DEF Lock
  <2>3. CASE AbortSequencer(t)  BY <2>3 DEF AbortSequencer
  <2>4. CASE StartSequencer(t)  BY <2>4 DEF StartSequencer
  <2>5. CASE SpawnSequencer(t)  BY <2>5 DEF SpawnSequencer
  <2> QED  BY <1>11, <2>1, <2>2, <2>3, <2>4, <2>5 DEF TeardownStep
<1> QED  BY <1>0, <1>1, <1>2, <1>3, <1>4, <1>5, <1>6, <1>7, <1>8, <1>9,
            <1>10, <1>11 DEF Next, SequencerStep

-----------------------------------------------------------------------------
(* Jobs and their results.                                                 *)

\* The three conjuncts hold before anything is submitted.
LEMMA InitJobs == Init => InHand /\ InWorkOnce /\ ResultIsMine
BY ConstantsAssumption DEF Init, InHand, InWorkOnce, ResultIsMine, InWork

\* The job in hand changes only with Submit, Put, Poll, and the worker only
\* takes what is queued.
LEMMA NextInHand ==
  ASSUME TypeOK, InHand, [Next]_vars  PROVE InHand'
<1> USE ConstantsAssumption DEF InHand, handler, teardown
<1>0. CASE UNCHANGED vars  BY <1>0 DEF vars, InWork
<1>1. CASE Take  BY <1>1 DEF Take, InWork
<1>2. CASE SeqStop  BY <1>2 DEF SeqStop
<1>3. CASE Submit
  <2>1. InWork' = InWork
    BY <1>3 DEF Submit, InWork
  <2> QED  BY <1>3, <2>1, SubmitIsFresh DEF Submit
<1>4. CASE Put  BY <1>4 DEF Put
<1>5. CASE Poll  BY <1>5 DEF Poll
<1>6. CASE WorkerTake
  <2>1. PICK j \in Job : jobCh = <<j>>
    BY <1>6, OneJob DEF WorkerTake
  <2>2. running' = j /\ jobCh' = <<>>
    BY <1>6, <2>1 DEF WorkerTake
  <2>3. InWork = {running, j} /\ InWork' = {j}
    BY <2>1, <2>2 DEF InWork
  <2> QED  BY <1>6, <2>3 DEF WorkerTake
<1>7. CASE WorkerReturn
  <2>1. InWork' \subseteq InWork \cup {NoJob}
    BY <1>7 DEF WorkerReturn, InWork
  <2> QED  BY <1>7, <2>1 DEF WorkerReturn
<1>8. CASE \E c \in Client : SignalAbort(c)  BY <1>8 DEF SignalAbort, InWork
<1>9. CASE MonitorTrip  BY <1>9 DEF MonitorTrip, InWork
<1>10. CASE FaultProgram  BY <1>10 DEF FaultProgram, InWork
<1>11. ASSUME NEW t \in Thread, TeardownStep(t)  PROVE InHand'
  <2>1. CASE McodeAbort(t)  BY <2>1 DEF McodeAbort, InWork
  <2>2. CASE Lock(t)  BY <2>2 DEF Lock, InWork
  <2>3. CASE AbortSequencer(t)  BY <2>3 DEF AbortSequencer, InWork
  <2>4. CASE StartSequencer(t)  BY <2>4 DEF StartSequencer, InWork
  <2>5. CASE SpawnSequencer(t)  BY <2>5 DEF SpawnSequencer, InWork
  <2> QED  BY <1>11, <2>1, <2>2, <2>3, <2>4, <2>5 DEF TeardownStep
<1> QED  BY <1>0, <1>1, <1>2, <1>3, <1>4, <1>5, <1>6, <1>7, <1>8, <1>9,
            <1>10, <1>11 DEF Next, SequencerStep

\* A step that leaves jobCh and running alone leaves what the worker has.
LEMMA WorkerIdle ==
  ASSUME UNCHANGED <<jobCh, running>>
  PROVE  InWork' = InWork /\ (InWorkOnce => InWorkOnce')
BY DEF InWork, InWorkOnce

\* A job is put into the channel once, and leaves it for the worker.
LEMMA NextInWorkOnce ==
  ASSUME TypeOK, InHand, InWorkOnce, [Next]_vars  PROVE InWorkOnce'
<1> USE ConstantsAssumption DEF handler, teardown
<1>1. CASE UNCHANGED <<jobCh, running>>  BY <1>1, WorkerIdle
<1>2. CASE Put
  <2>1. CASE jobCh' = jobCh  BY <1>2, <2>1, WorkerIdle DEF Put
  <2>2. CASE jobCh' = <<mine>>
    <3>1. mine # running /\ running' = running
      BY <1>2 DEF Put, InHand, InWork
    <3> QED  BY <2>2, <3>1 DEF InWorkOnce
  <2> QED  BY <1>2, <2>1, <2>2 DEF Put
<1>3. CASE WorkerTake
  <2>1. PICK j \in Job : jobCh = <<j>>
    BY <1>3, OneJob DEF WorkerTake
  <2> QED  BY <1>3, <2>1 DEF WorkerTake, InWorkOnce
<1>4. CASE WorkerReturn
  <2>1. \A i \in DOMAIN jobCh : jobCh[i] \in Job
    BY OneJob
  <2> QED  BY <1>4, <2>1 DEF WorkerReturn, InWorkOnce
<1>5. UNCHANGED <<jobCh, running>> \/ Put \/ WorkerTake \/ WorkerReturn
  BY DEF vars, Next, SequencerStep, Take, SeqStop, Submit, Poll, SignalAbort,
         MonitorTrip, FaultProgram, TeardownStep, McodeAbort, Lock,
         AbortSequencer, StartSequencer, SpawnSequencer
<1> QED  BY <1>1, <1>2, <1>3, <1>4, <1>5

\* A result is buffered when its handler returns, while its submitter waits,
\* and is gone when that stops waiting.
LEMMA NextResultIsMine ==
  ASSUME TypeOK, InHand, InWorkOnce, ResultIsMine, [Next]_vars
  PROVE  ResultIsMine'
<1> USE ConstantsAssumption DEF handler, teardown
<1>1. CASE UNCHANGED <<seq, mine, jobCh, running, result, signalled>>
  BY <1>1, WorkerIdle DEF ResultIsMine
<1>2. CASE Take \/ SeqStop \/ Submit \/ Put
  <2>1. seq # "poll" /\ result' = result
    BY <1>2 DEF Take, SeqStop, Submit, Put
  <2> QED  BY <2>1 DEF ResultIsMine
<1>3. CASE Poll
  <2>1. result' = [result EXCEPT ![mine] = "none"] /\ result \in [Job -> Result \cup {"none"}]
    BY <1>3 DEF Poll, TypeOK
  <2> QED  BY <2>1 DEF ResultIsMine
<1>4. CASE WorkerTake
  <2>1. PICK j \in Job : jobCh = <<j>>
    BY <1>4, OneJob DEF WorkerTake
  <2>2. InWork' \subseteq InWork
    BY <1>4, <2>1 DEF WorkerTake, InWork
  <2> QED  BY <1>4, <2>2 DEF WorkerTake, ResultIsMine
<1>5. CASE WorkerReturn
  <2>1. InWork' = (InWork \ {running}) \cup {NoJob}
    BY <1>5 DEF WorkerReturn, InWork, InWorkOnce
  <2>2. mine = running => seq = "poll" /\ mine \in Job
    BY <1>5 DEF WorkerReturn, InHand, InWork
  <2>3. mine \in signalled => mine \in signalled'
    BY <1>5 DEF WorkerReturn
  <2>4. ASSUME NEW j \in Job, result'[j] # "none"
        PROVE  /\ seq' = "poll" /\ j = mine' /\ j \notin InWork'
               /\ result'[j] = "aborted" => j \in signalled'
    <3>1. CASE j = running
      <4>1. j = mine
        BY <1>5, <2>4, <3>1 DEF WorkerReturn, ResultIsMine, InWork, TypeOK
      <4> QED  BY <1>5, <2>1, <2>2, <2>3, <3>1, <4>1 DEF WorkerReturn, TypeOK
    <3>2. CASE j # running
      <4>1. result'[j] = result[j]
        BY <1>5, <3>2 DEF WorkerReturn, TypeOK
      <4> QED  BY <1>5, <2>1, <2>3, <2>4, <4>1 DEF WorkerReturn, ResultIsMine
    <3> QED  BY <3>1, <3>2
  <2> QED  BY <2>4 DEF ResultIsMine
<1>6. ASSUME NEW t \in Thread, McodeAbort(t)  PROVE ResultIsMine'
  BY <1>6, WorkerIdle DEF McodeAbort, ResultIsMine
<1>7. ASSUME NEW t \in Thread, SpawnSequencer(t)  PROVE ResultIsMine'
  BY <1>7 DEF SpawnSequencer, ResultIsMine
<1>8. \/ UNCHANGED <<seq, mine, jobCh, running, result, signalled>>
      \/ Take \/ SeqStop \/ Submit \/ Put \/ Poll \/ WorkerTake \/ WorkerReturn
      \/ \E t \in Thread : McodeAbort(t) \/ SpawnSequencer(t)
  BY DEF vars, Next, SequencerStep, SignalAbort, MonitorTrip, FaultProgram,
         TeardownStep, Lock, AbortSequencer, StartSequencer
<1> QED  BY <1>1, <1>2, <1>3, <1>4, <1>5, <1>6, <1>7, <1>8

-----------------------------------------------------------------------------
(* Who ends the sequencer.                                                 *)

\* A teardown that aborts an M-code is not over before the sequencer has
\* returned and a new one, with nothing in hand, has been spawned.  Recovery
\* and faultProgram abort none.
LEMMA NextStopIsFinished ==
  ASSUME TypeOK, InHand, ResultIsMine, StopIsFinished, [Next]_vars
  PROVE  StopIsFinished'
<1> USE ConstantsAssumption DEF handler, teardown, Goto, TypeOK
<1>1. CASE UNCHANGED <<pc, mine, signalled, seq, seqAbort>>
  BY <1>1 DEF StopIsFinished, Stopping
<1>2. CASE Take \/ SeqStop \/ Put
  <2>1. pc' = pc /\ signalled' = signalled /\ seqAbort' = seqAbort
        /\ mine' \in {mine, NoJob} /\ (seq' = "exited" => seqAbort)
    BY <1>2 DEF Take, SeqStop, Put
  <2> QED  BY <2>1 DEF StopIsFinished, Stopping
<1>3. CASE Submit
  <2>1. mine' \notin signalled'
    BY <1>3, SubmitIsFresh DEF Submit
  <2> QED  BY <1>3, <2>1 DEF Submit, StopIsFinished, Stopping
<1>4. CASE Poll
  <2>1. mine' = NoJob /\ signalled' = signalled
    BY <1>4 DEF Poll
  <2>2. \A t \in Thread \ {Recoverer} : pc'[t] = pc[t]
    BY <1>4 DEF Poll
  <2>3. pc'[Recoverer] \in {pc[Recoverer], "lock"}
    BY <1>4 DEF Poll, Thread
  <2>4. seq' = "exited" => seqAbort' \/ Stopping
    <3>1. CASE result[mine] = "aborted"
      BY <1>4, <3>1 DEF Poll, InHand, ResultIsMine, StopIsFinished
    <3>2. CASE result[mine] # "aborted"
      BY <1>4, <3>2 DEF Poll
    <3> QED  BY <3>1, <3>2
  <2> QED  BY <2>1, <2>2, <2>3, <2>4 DEF StopIsFinished, Stopping
<1>5. CASE WorkerReturn
  BY <1>5 DEF WorkerReturn, StopIsFinished, Stopping
<1>6. ASSUME NEW t \in Thread, t # Recoverer, pc'[t] # "idle",
             \A u \in Thread \ {t} : pc'[u] = pc[u]
      PROVE  StopIsFinished'
  BY <1>6 DEF StopIsFinished, Stopping, Thread
<1>7. CASE \E c \in Client : SignalAbort(c)
  BY <1>6, <1>7 DEF SignalAbort, Thread
<1>8. CASE MonitorTrip  BY <1>6, <1>8 DEF MonitorTrip, Thread
<1>9. CASE FaultProgram  BY <1>6, <1>9 DEF FaultProgram, Thread
<1>10. ASSUME NEW t \in Thread, TeardownStep(t)  PROVE StopIsFinished'
  <2>1. CASE McodeAbort(t)
    <3>1. t # Recoverer
      BY <2>1 DEF McodeAbort, StopIsFinished
    <3> QED  BY <1>6, <2>1, <3>1 DEF McodeAbort
  <2>2. CASE AbortSequencer(t)
    <3>1. t # Recoverer
      BY <2>2 DEF AbortSequencer, StopIsFinished
    <3> QED  BY <1>6, <2>2, <3>1 DEF AbortSequencer
  <2>3. CASE (Lock(t) \/ StartSequencer(t)) /\ t # Recoverer
    BY <1>6, <2>3 DEF Lock, StartSequencer
  <2>4. CASE (Lock(t) \/ StartSequencer(t)) /\ t = Recoverer
    <3>1. pc'[t] \in {"restart", "idle", "join"}
          /\ \A u \in Thread \ {t} : pc'[u] = pc[u]
      BY <2>4 DEF Lock, StartSequencer
    <3>2. UNCHANGED <<mine, signalled, seq>> /\ (seqAbort => seqAbort')
      BY <2>4 DEF Lock, StartSequencer
    <3> QED  BY <2>4, <3>1, <3>2 DEF StopIsFinished, Stopping
  <2>5. CASE SpawnSequencer(t)
    <3>1. mine' = NoJob /\ signalled' = signalled /\ seq' = "select"
      BY <2>5 DEF SpawnSequencer, InHand
    <3>2. pc'[Recoverer] \in {pc[Recoverer], "idle"}
      BY <2>5 DEF SpawnSequencer, Thread
    <3> QED  BY <3>1, <3>2 DEF StopIsFinished
  <2> QED  BY <1>10, <2>1, <2>2, <2>3, <2>4, <2>5 DEF TeardownStep
<1>11. UNCHANGED <<pc, mine, signalled, seq, seqAbort>>
       \/ Take \/ SeqStop \/ Put \/ Submit \/ Poll \/ WorkerReturn
       \/ (\E c \in Client : SignalAbort(c)) \/ MonitorTrip \/ FaultProgram
       \/ \E t \in Thread : TeardownStep(t)
  BY DEF vars, Next, SequencerStep, WorkerTake
<1> QED  BY <1>1, <1>2, <1>3, <1>4, <1>5, <1>7, <1>8, <1>9, <1>10, <1>11

-----------------------------------------------------------------------------
(* Theorems.                                                               *)

\* The inductive invariant holds initially,
LEMMA InitInv == Init => IInv
BY InitType, InitJobs, ConstantsAssumption
   DEF IInv, StopIsFinished, Stopping, Init, Thread

\* every step keeps it,
LEMMA NextInv == IInv /\ [Next]_vars => IInv'
BY NextType, NextInHand, NextInWorkOnce, NextResultIsMine, NextStopIsFinished
   DEF IInv

\* and so it always holds.
THEOREM Inductive == Spec => []IInv
<1> QED  BY InitInv, NextInv, PTL DEF Spec

\* The types of the worker's, the sequencer's and the teardowns' variables.
THEOREM TypeCorrect == Spec => []TypeOK
<1>1. IInv => TypeOK
  BY DEF IInv
<1> QED  BY <1>1, Inductive, PTL

\* A sequencer that has returned has its abort channel closed, or a teardown
\* that will replace it under way (McodeCmd.Execute, result -2).
THEOREM ExitNoticed == Spec => []ExitIsNoticed
<1>1. IInv => ExitIsNoticed
  BY DEF IInv, StopIsFinished, Stopping, ExitIsNoticed
<1> QED  BY <1>1, Inductive, PTL

\* The program counts an M-code as done only when the worker has run that very
\* job to its end (Submit: completion is per job).
THEOREM CompletionIsOwn == Spec => OwnResult
<1>1. IInv /\ [Next]_vars =>
        [seq = "poll" /\ seq' = "select" =>
           mine # running /\ \A i \in DOMAIN jobCh : jobCh[i] # mine]_vars
  <2> SUFFICES ASSUME IInv, Next, seq = "poll", seq' = "select"
               PROVE  mine # running /\ \A i \in DOMAIN jobCh : jobCh[i] # mine
    BY DEF IInv
  <2>1. Poll
    BY DEF Next, SequencerStep, Take, SeqStop, Submit, Put, WorkerTake,
           WorkerReturn, SignalAbort, MonitorTrip, FaultProgram, TeardownStep,
           McodeAbort, Lock, AbortSequencer, StartSequencer, SpawnSequencer,
           handler
  <2>2. mine \in Job /\ result[mine] # "none"
    BY <2>1 DEF Poll, IInv, InHand
  <2>3. mine \notin InWork
    BY <2>2 DEF IInv, ResultIsMine
  <2> QED  BY <2>3 DEF InWork
<1> QED  BY <1>1, Inductive, PTL DEF Spec, OwnResult

\* An abort closes the abort channel of the job that the program waits for,
\* whatever the worker is busy with (Abort, h.abortCh).
THEOREM AbortIsSeen == Spec => AbortReachesWaited
<1>1. IInv =>
        [\A t \in Thread : McodeAbort(t) /\ seq \in {"put", "poll"} =>
           mine \in signalled']_vars
  BY ConstantsAssumption DEF IInv, InHand, McodeAbort
<1> QED  BY <1>1, Inductive, PTL DEF Spec, AbortReachesWaited
=============================================================================
