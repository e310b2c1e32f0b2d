-------------------------- MODULE TaskProgramProofs --------------------------
(***************************************************************************)
(* Theorems about TaskSequencer: one program at a time, and what that      *)
(* means for the interpreter, for the state a fault latches, for the error *)
(* a teardown commits, for a machine at rest and for a pause.              *)
(***************************************************************************)
EXTENDS TaskOwnershipProofs, FiniteSetTheorems

-----------------------------------------------------------------------------
(* One program, and where the sequencer is while the task reports idle.     *)

Waiting == {"check", "paused", "refresh", "select"}
InHand  == {"got", "pre", "tpwait", "space", "exec", "wait", "post", "stepwait"}

\* The generation has been given nothing yet.
Fresh == queue[cur] = <<>> /\ spc[cur] \in Waiting \cup {"exited"}

\* Its goroutine has ended, or is about to after a fault.
Dead == spc[cur] \in {"faultStop", "faultAbort", "exited"}

\* It has nothing to do but what RestoreFromTag sends after an abort.
Calm == /\ \A i \in 1 .. Len(queue[cur]) : queue[cur][i] = "params"
        /\ \/ spc[cur] \in Waiting
           \/ spc[cur] \in {"got", "exec", "post"} /\ cmd[cur] = "params"

\* The program will send nothing any more.
Over(p) == pc[p] \in {"idle", "reserved", "exit"} \/ op[p] = "fault"
Ended == \A p \in Producer : Over(p)

\* Only the program whose end t.runDone reports is under way, and
\* interpActive says so.
One == \A p \in Producer : pc[p] # "idle" => p = runDone
Active == \A p \in Producer : pc[p] \notin {"idle", "reserved", "start"} => interpActive

\* An abort that has clobbered the reported state, before its teardown has
\* seen the program return, and before it has replaced the sequencer.
Clobbered == {"close", "flush", "stop", "motAbort", "waitRun"}
TearingDown == Clobbered \cup {"interp", "life", "join", "spawn"}
Stopping == \E c \in Client : op[c] = "abort" /\ pc[c] \in Clobbered
TakingDown == \E c \in Client : op[c] = "abort" /\ pc[c] \in TearingDown

\* A program that has been launched is reported until it reports itself.
Busy == \A p \in Producer : pc[p] = "start" => interpState # "Idle" \/ Stopping

\* Steps at which the generation was replaced and nothing has been sent.
Before == {"commit", "restore", "open", "launch", "start", "seek"}
Begun == \A t \in Thread : pc[t] \in Before => Fresh

\* A Run that is past its guard stays reported, and finds the sequencer calm.
RunSlot == \A c \in Client : op[c] = "run" /\ pc[c] \in Starts =>
               interpState # "Idle" /\ (Calm \/ Dead)

\* A teardown that is past its wait has no program beside it.
Past == {"interp", "life", "join", "spawn", "commit", "restore"}
Alone == \A t \in Agent : op[t] # "run" /\ pc[t] \in Past =>
             \A p \in Producer : ~Live(p)

\* An idle task has a sequencer that is about to be replaced, or will be after
\* its end, or that has nothing of a program left to do.
IdleCalm == interpState = "Idle" => TakingDown \/ Dead \/ (Calm /\ Ended)

\* The end-of-program marker is the last thing a generation is given.
DoneLast ==
    /\ \A i \in 1 .. Len(queue[cur]) :
           queue[cur][i] = "done" => i = Len(queue[cur]) /\ Ended
    /\ spc[cur] \in InHand /\ cmd[cur] = "done" => queue[cur] = <<>> /\ Ended

\* A program enqueues to the current generation, and the marker at its end.
Target == \A p \in Producer :
    /\ pc[p] \in {"put", "putSync", "putDone"} => tgt[p] = cur
    /\ pc[p] \in {"put", "putSync"} => emit[p] # "done"

ProgramInv == /\ One /\ Active /\ Busy /\ Begun /\ RunSlot
              /\ Alone /\ IdleCalm /\ DoneLast /\ Target

-----------------------------------------------------------------------------
(* The sequencer's own steps.                                               *)

\* A command more or less: a goroutine that has nothing to do stays so until it
\* ends, and reports idle only as it ends or with the marker.
LEMMA SeqEffect ==
  ASSUME TypeOK, "paramsFail" \notin Env, SeqStep(cur)
  PROVE  /\ UNCHANGED <<cur, runDone, interpActive, tgt, emit>>
         /\ Fresh => Fresh'
         /\ Calm => Calm' \/ Dead'
         /\ Dead => Dead'
         /\ \/ /\ queue'[cur] = queue[cur]
               /\ spc'[cur] \in InHand /\ cmd'[cur] = "done" =>
                      spc[cur] \in InHand /\ cmd[cur] = "done"
            \/ /\ queue[cur] # <<>> /\ queue'[cur] = Tail(queue[cur])
               /\ cmd'[cur] = Head(queue[cur])
         /\ \/ interpState' = "Idle" => interpState = "Idle"
            \/ ~Fresh /\ ~Calm /\ ~Dead /\ Dead'
            \/ /\ spc[cur] = "post" /\ cmd[cur] = "done" /\ ~Calm
               /\ spc'[cur] = "check" /\ queue'[cur] = queue[cur]
<1> USE DEF TypeOK, SeqReturn, SeqGoto, reported, chans, flags, prods, seqs,
            Fresh, Calm, Dead, Waiting, InHand
<1>1. CASE SeqCheckPause(cur) \/ SeqPaused(cur) \/ SeqRefresh(cur)
  BY <1>1 DEF SeqCheckPause, SeqPaused, SeqRefresh
<1>2. CASE SeqSelect(cur)
  <2>1. CASE cur \in closed /\ SeqReturn(cur) /\ UNCHANGED queue
    BY <1>2, <2>1 DEF SeqSelect
  <2>2. CASE /\ queue[cur] # <<>>
             /\ cmd' = [cmd EXCEPT ![cur] = Head(queue[cur])]
             /\ queue' = [queue EXCEPT ![cur] = Tail(@)]
             /\ SeqGoto(cur, "got")
    <3>1. /\ queue'[cur] = Tail(queue[cur]) /\ cmd'[cur] = Head(queue[cur])
          /\ spc'[cur] = "got" /\ spc[cur] = "select" /\ cur' = cur
          /\ UNCHANGED <<runDone, interpActive, tgt, emit, interpState>>
      BY <1>2, <2>2 DEF SeqSelect
    <3>2. Calm => Calm'
      <4> SUFFICES ASSUME Calm  PROVE Calm'
        OBVIOUS
      <4>1. /\ queue[cur] \in Seq(Cmd)
            /\ \A i \in 1 .. Len(queue[cur]) : queue[cur][i] = "params"
        OBVIOUS
      <4>2. Head(queue[cur]) = "params"
        BY <2>2, <4>1, HeadTailProperties
      <4>3. \A i \in 1 .. Len(Tail(queue[cur])) : Tail(queue[cur])[i] = "params"
        BY <2>2, <4>1, HeadTailProperties
      <4> QED  BY <3>1, <4>2, <4>3
    <3> HIDE DEF Calm
    <3> QED  BY <2>2, <3>1, <3>2
  <2> QED  BY <1>2, <2>1, <2>2 DEF SeqSelect
<1>3. CASE SeqMark(cur) \/ SeqWaitTPAbort(cur) \/ SeqWaitSpace(cur)
  BY <1>3 DEF SeqMark, SeqWaitTPAbort, SeqWaitSpace
<1>4. CASE SeqWait(cur)
  BY <1>4 DEF SeqWait, WaitMotionDone, SeqFault
<1>5. CASE SeqExecMotion(cur)
  BY <1>5 DEF SeqExecMotion, SeqFault, MayRefuse, MotionCmd
<1>6. CASE SeqExecOther(cur)
  BY <1>6 DEF SeqExecOther, SeqFault, MotionCmd
<1>7. CASE SeqPost(cur)
  BY <1>7 DEF SeqPost
<1>8. CASE SeqFaultStop(cur)
  BY <1>8 DEF SeqFaultStop, MarkAbort, SendAbort
<1> QED  BY <1>1, <1>2, <1>3, <1>4, <1>5, <1>6, <1>7, <1>8 DEF SeqStep

\* No step of a sequencer brings a client or a program to a new place.
LEMMA SeqProgram ==
  ASSUME TypeOK, Served, Replacement, ProgramInv, "paramsFail" \notin Env,
         NEW s \in Gen, SeqStep(s)
  PROVE  ProgramInv'
<1>0. /\ Client \subseteq Thread /\ Recoverer \subseteq Thread
      /\ Producer \subseteq Thread /\ Agent \subseteq Thread
      /\ Client \cap Recoverer = {} /\ Recoverer \cap Producer = {}
      /\ Client \subseteq Agent
  BY ConstantsAssumption DEF Thread, Agent
<1>1. s = cur
  BY SeqEnds DEF Replacement, SingleSequencer
<1>2. /\ UNCHANGED <<cur, runDone, interpActive, tgt, emit>>
      /\ Fresh => Fresh'
      /\ Calm => Calm' \/ Dead'
      /\ Dead => Dead'
      /\ \/ /\ queue'[cur] = queue[cur]
            /\ spc'[cur] \in InHand /\ cmd'[cur] = "done" =>
                   spc[cur] \in InHand /\ cmd[cur] = "done"
         \/ /\ queue[cur] # <<>> /\ queue'[cur] = Tail(queue[cur])
            /\ cmd'[cur] = Head(queue[cur])
      /\ \/ interpState' = "Idle" => interpState = "Idle"
         \/ ~Fresh /\ ~Calm /\ ~Dead /\ Dead'
         \/ /\ spc[cur] = "post" /\ cmd[cur] = "done" /\ ~Calm
            /\ spc'[cur] = "check" /\ queue'[cur] = queue[cur]
  BY <1>1, SeqEffect
<1>3. \A t \in Thread : \/ pc'[t] = pc[t] /\ op'[t] = op[t]
                        \/ /\ t \in Recoverer /\ pc[t] = "idle"
                           /\ pc'[t] = "lock" /\ op'[t] = "recover"
  <2>1. UNCHANGED <<pc, op>> \/ \E r \in Recoverer : pc[r] = "idle" /\ Begin(r, "recover", "lock")
    BY SeqStarts
  <2> QED  BY <1>0, <2>1 DEF Begin, Goto, TypeOK
<1>4. /\ \A u \in Client \cup Producer : pc'[u] = pc[u] /\ op'[u] = op[u]
      /\ \A t \in Agent : pc'[t] \in Past \cup Before => pc'[t] = pc[t] /\ op'[t] = op[t]
      /\ \A t \in Thread : pc'[t] \in Before => pc'[t] = pc[t]
  BY <1>0, <1>3 DEF Past, Before
<1>5. /\ Ended => Ended'
      /\ TakingDown <=> TakingDown'
      /\ Stopping <=> Stopping'
      /\ \A p \in Producer : Live(p)' <=> Live(p)
  BY <1>4 DEF Ended, Over, TakingDown, Stopping, Live
<1>6. One' /\ Active' /\ Alone' /\ Target'
  BY <1>2, <1>4, <1>5 DEF ProgramInv, One, Active, Alone, Target
<1>7. Begun'
  BY <1>2, <1>4 DEF ProgramInv, Begun
<1>8. Busy'
  <2> SUFFICES ASSUME NEW p \in Producer, pc'[p] = "start", interpState' = "Idle"
               PROVE  Stopping
    BY <1>5 DEF Busy
  <2>1. Fresh
    BY <1>0, <1>4 DEF ProgramInv, Begun, Before
  <2>2. interpState = "Idle"
    BY <1>2, <2>1 DEF Fresh, Waiting
  <2> QED  BY <1>4, <2>2 DEF ProgramInv, Busy
<1>9. RunSlot'
  <2> SUFFICES ASSUME NEW c \in Client, op'[c] = "run", pc'[c] \in Starts
               PROVE  interpState' # "Idle" /\ (Calm' \/ Dead')
    BY DEF RunSlot
  <2>1. interpState # "Idle" /\ (Calm \/ Dead)
    BY <1>4 DEF ProgramInv, RunSlot
  <2> QED  BY <1>2, <2>1 DEF Dead, Calm
<1>10. DoneLast'
  <2>1. CASE /\ queue'[cur] = queue[cur]
             /\ spc'[cur] \in InHand /\ cmd'[cur] = "done" =>
                    spc[cur] \in InHand /\ cmd[cur] = "done"
    BY <1>2, <1>5, <2>1 DEF ProgramInv, DoneLast
  <2>2. CASE /\ queue[cur] # <<>> /\ queue'[cur] = Tail(queue[cur])
             /\ cmd'[cur] = Head(queue[cur])
    <3>1. queue[cur] \in Seq(Cmd) /\ Len(queue[cur]) \in Nat
      BY DEF TypeOK
    <3>2. /\ Head(queue[cur]) = queue[cur][1]
          /\ Len(Tail(queue[cur])) = Len(queue[cur]) - 1
          /\ \A i \in 1 .. Len(Tail(queue[cur])) :
                 i + 1 \in 1 .. Len(queue[cur]) /\ Tail(queue[cur])[i] = queue[cur][i + 1]
      BY <2>2, <3>1, HeadTailProperties
    <3>3. \A i \in 1 .. Len(queue[cur]) :
              queue[cur][i] = "done" => i = Len(queue[cur]) /\ Ended
      BY DEF ProgramInv, DoneLast
    <3>4. \A i \in 1 .. Len(Tail(queue[cur])) :
              Tail(queue[cur])[i] = "done" => i = Len(Tail(queue[cur])) /\ Ended
      <4> SUFFICES ASSUME NEW i \in 1 .. Len(Tail(queue[cur])),
                          Tail(queue[cur])[i] = "done"
                   PROVE  i = Len(Tail(queue[cur])) /\ Ended
        OBVIOUS
      <4>1. i + 1 = Len(queue[cur]) /\ Ended
        BY <3>2, <3>3
      <4>2. i = Len(queue[cur]) - 1
        BY <3>1, <4>1
      <4> QED  BY <3>2, <4>1, <4>2
    <3>5. Head(queue[cur]) = "done" => Tail(queue[cur]) = <<>> /\ Ended
      <4> SUFFICES ASSUME Head(queue[cur]) = "done"
                   PROVE  Tail(queue[cur]) = <<>> /\ Ended
        OBVIOUS
      <4>1. Len(queue[cur]) # 0
        BY <2>2, <3>1, EmptySeq
      <4>2. 1 \in 1 .. Len(queue[cur])
        BY <3>1, <4>1
      <4>3. 1 = Len(queue[cur]) /\ Ended
        BY <3>2, <3>3, <4>2
      <4>4. Tail(queue[cur]) \in Seq(Cmd) /\ Len(Tail(queue[cur])) = 0
        BY <2>2, <3>1, <3>2, <4>3, HeadTailProperties
      <4> QED  BY <4>3, <4>4, EmptySeq
    <3> QED  BY <1>2, <1>5, <2>2, <3>4, <3>5 DEF DoneLast
  <2> QED  BY <1>2, <2>1, <2>2
<1>11. IdleCalm'
  <2> SUFFICES ASSUME interpState' = "Idle"
               PROVE  TakingDown' \/ Dead' \/ (Calm' /\ Ended')
    BY DEF IdleCalm
  <2>1. CASE interpState = "Idle"
    BY <1>2, <1>5, <2>1 DEF ProgramInv, IdleCalm
  <2>2. CASE /\ spc[cur] = "post" /\ cmd[cur] = "done"
             /\ spc'[cur] = "check" /\ queue'[cur] = queue[cur]
    <3>1. queue[cur] = <<>> /\ Ended
      BY <2>2 DEF ProgramInv, DoneLast, InHand
    <3> QED  BY <1>2, <1>5, <2>2, <3>1 DEF Calm, Waiting
  <2> QED  BY <1>2, <2>1, <2>2
<1> QED  BY <1>6, <1>7, <1>8, <1>9, <1>10, <1>11 DEF ProgramInv

-----------------------------------------------------------------------------
(* Requests and teardowns.                                                  *)

\* cmdMu has one owner.
LEMMA OneServes ==
  ASSUME Served, NEW t \in Agent, pc[t] \in Serving
  PROVE  \A u \in Agent : u # t => pc[u] \notin Serving
BY DEF Served, Holds

\* Beside a Run past its guard, or a teardown past its wait, no program runs.
LEMMA NoneLive ==
  ASSUME Served, ProgramInv, NEW t \in Agent,
         \/ op[t] = "run" /\ pc[t] \in Starts
         \/ op[t] # "run" /\ pc[t] \in Past
  PROVE  \A p \in Producer : ~Live(p)
<1>1. CASE op[t] # "run" /\ pc[t] \in Past
  BY <1>1 DEF ProgramInv, Alone
<1>2. CASE op[t] = "run" /\ pc[t] \in Starts
  <2>1. t \in Client
    BY <1>2 DEF Agent, Served, Roles, RecovererFits, Starts, Teardown
  <2>2. runDone \in Producer /\ pc[runDone] = "reserved"
    BY <1>2, <2>1 DEF Served, SlotHeld
  <2> QED  BY <2>2 DEF ProgramInv, One, Live
<1> QED  BY <1>1, <1>2

\* A step of one request that moves no program, sends nothing and leaves the
\* reported state idle or not.
LEMMA AgentFrame ==
  ASSUME TypeOK, ProgramInv, NEW t \in Agent,
         \A u \in Thread : u # t => pc'[u] = pc[u] /\ op'[u] = op[u],
         UNCHANGED <<cur, spc, cmd, runDone, interpActive, tgt, emit>>,
         queue'[cur] = queue[cur] \/ queue'[cur] = <<>>,
         interpState' = "Idle" <=> interpState = "Idle",
         pc'[t] \in Before => pc[t] \in Before,
         op'[t] = "run" /\ pc'[t] \in Starts => op[t] = "run" /\ pc[t] \in Starts,
         op'[t] # "run" /\ pc'[t] \in Past => op[t] # "run" /\ pc[t] \in Past,
         op[t] = "abort" /\ pc[t] \in Clobbered => op'[t] = "abort" /\ pc'[t] \in Clobbered,
         op[t] = "abort" /\ pc[t] \in TearingDown => op'[t] = "abort" /\ pc'[t] \in TearingDown
  PROVE  ProgramInv'
<1>1. /\ Agent \subseteq Thread /\ Producer \subseteq Thread /\ Client \subseteq Agent
      /\ t \notin Producer
  BY ConstantsAssumption DEF Agent, Thread
<1>2. \A p \in Producer : pc'[p] = pc[p] /\ op'[p] = op[p]
  BY <1>1
<1>3. (Fresh => Fresh') /\ (Calm => Calm') /\ (Dead => Dead')
  BY DEF Fresh, Calm, Dead
<1>4. /\ Ended' <=> Ended
      /\ Stopping => Stopping'
      /\ TakingDown => TakingDown'
      /\ \A p \in Producer : Live(p)' <=> Live(p)
  BY <1>1, <1>2 DEF Ended, Over, Stopping, TakingDown, Live
<1>5. One' /\ Active' /\ Busy' /\ Target'
  BY <1>2, <1>4 DEF ProgramInv, One, Active, Busy, Target
<1>6. Begun'
  BY <1>1, <1>3 DEF ProgramInv, Begun
<1>7. RunSlot'
  <2> SUFFICES ASSUME NEW c \in Client, op'[c] = "run", pc'[c] \in Starts
               PROVE  interpState' # "Idle" /\ (Calm' \/ Dead')
    BY DEF RunSlot
  <2>1. op[c] = "run" /\ pc[c] \in Starts
    BY <1>1
  <2> QED  BY <1>3, <2>1 DEF ProgramInv, RunSlot
<1>8. Alone'
  <2> SUFFICES ASSUME NEW u \in Agent, op'[u] # "run", pc'[u] \in Past
               PROVE  \A p \in Producer : ~Live(p)
    BY <1>4 DEF Alone
  <2>1. op[u] # "run" /\ pc[u] \in Past
    BY <1>1
  <2> QED  BY <2>1 DEF ProgramInv, Alone
<1>9. IdleCalm'
  BY <1>3, <1>4 DEF ProgramInv, IdleCalm
<1>10. DoneLast'
  BY <1>4 DEF ProgramInv, DoneLast
<1> QED  BY <1>5, <1>6, <1>7, <1>8, <1>9, <1>10 DEF ProgramInv

\* The steps this covers.
LEMMA QuietProgram ==
  ASSUME TypeOK, Served, ProgramInv, NEW t \in Agent,
         \/ Lock(t) \/ AbortSequencer(t) \/ FlushQueue(t) \/ StopMotion(t)
         \/ FaultCheck(t) \/ InterpReset(t) \/ StartSequencer(t) \/ JoinSequencer(t)
         \/ /\ t \in Client
            /\ \/ Request(t) \/ AbortSigStop(t) \/ PauseMotion(t)
               \/ ResumeMotion(t) \/ StepWake(t)
  PROVE  ProgramInv'
<1> USE DEF TypeOK, Goto, Begin, Return, reported, chans, flags, locks,
            threads, prods, seqs
<1>1. t \in Thread /\ t # Monitor
  BY ConstantsAssumption DEF Agent, Thread
<1>2. /\ t \in Client => ClientFits(op[t], pc[t])
      /\ t \in Recoverer => RecovererFits(op[t], pc[t])
  BY DEF Served, Roles
<1> DEFINE Same == /\ \A u \in Thread : u # t => pc'[u] = pc[u] /\ op'[u] = op[u]
                   /\ UNCHANGED <<cur, spc, cmd, runDone, interpActive, tgt, emit>>
                   /\ queue'[cur] = queue[cur] \/ queue'[cur] = <<>>
                   /\ interpState' = "Idle" <=> interpState = "Idle"
           Places ==
             /\ pc'[t] \in Before => pc[t] \in Before
             /\ op'[t] = "run" /\ pc'[t] \in Starts => op[t] = "run" /\ pc[t] \in Starts
             /\ op'[t] # "run" /\ pc'[t] \in Past => op[t] # "run" /\ pc[t] \in Past
             /\ op[t] = "abort" /\ pc[t] \in Clobbered =>
                    op'[t] = "abort" /\ pc'[t] \in Clobbered
             /\ op[t] = "abort" /\ pc[t] \in TearingDown =>
                    op'[t] = "abort" /\ pc'[t] \in TearingDown
<1>3. Same
  <2>1. CASE Lock(t) \/ AbortSequencer(t) \/ FlushQueue(t) \/ StopMotion(t) \/ FaultCheck(t)
    BY <1>1, <2>1 DEF Lock, AbortSequencer, FlushQueue, StopMotion, FaultCheck
  <2>2. CASE InterpReset(t) \/ StartSequencer(t) \/ JoinSequencer(t)
    BY <1>1, <2>2 DEF InterpReset, StartSequencer, JoinSequencer
  <2>3. CASE t \in Client /\ (Request(t) \/ AbortSigStop(t) \/ PauseMotion(t)
                              \/ ResumeMotion(t) \/ StepWake(t))
    BY <1>1, <2>3 DEF Request, Abort, Pause, Resume, Step, Run, AbortSigStop,
                      PauseMotion, ResumeMotion, StepWake
  <2> QED  BY <2>1, <2>2, <2>3
<1>4. Places
  <2> USE DEF Before, Starts, Past, Clobbered, TearingDown
  <2>1. CASE Lock(t)
    BY <1>1, <1>2, <2>1 DEF Lock, AfterLock, Agent
  <2>2. CASE AbortSequencer(t) \/ FlushQueue(t)
    BY <1>1, <1>2, <2>2 DEF AbortSequencer, FlushQueue
  <2>3. CASE StopMotion(t) \/ FaultCheck(t)
    BY <1>1, <1>2, <2>3 DEF StopMotion, FaultCheck
  <2>4. CASE InterpReset(t)
    <3>1. op[t] # "run"
      BY <1>2, <2>4 DEF InterpReset, Agent, ClientFits, RecovererFits
    <3> QED  BY <1>1, <2>4, <3>1 DEF InterpReset
  <2>5. CASE StartSequencer(t) \/ JoinSequencer(t)
    BY <1>1, <1>2, <2>5 DEF StartSequencer, JoinSequencer
  <2>6. CASE t \in Client /\ (Request(t) \/ AbortSigStop(t) \/ PauseMotion(t)
                              \/ ResumeMotion(t) \/ StepWake(t))
    BY <1>1, <2>6 DEF Request, Abort, Pause, Resume, Step, Run, AbortSigStop,
                      PauseMotion, ResumeMotion, StepWake
  <2> QED  BY <2>1, <2>2, <2>3, <2>4, <2>5, <2>6
<1> HIDE DEF TypeOK, Before, Starts, Past, Clobbered, TearingDown
<1> QED  BY <1>3, <1>4, AgentFrame

\* The steps that make more of a difference.  Of the provisional Idle of an
\* abort, its own teardown takes care.
LEMMA ClobberProgram ==
  ASSUME TypeOK, Served, ProgramInv, NEW c \in Client, AbortClobber(c)
  PROVE  ProgramInv'
<1>1. /\ c \in Thread /\ c \in Agent /\ c \notin Producer
      /\ Agent \subseteq Thread /\ Producer \subseteq Thread /\ Client \subseteq Agent
  BY ConstantsAssumption DEF Agent, Thread
<1>2. op[c] = "abort" /\ pc[c] \in Serving
  BY DEF AbortClobber, Served, Roles, ClientFits, Starts, Teardown, Serving
<1>3. /\ pc' = [pc EXCEPT ![c] = "close"] /\ op' = op /\ interpState' = "Idle"
      /\ UNCHANGED <<cur, spc, cmd, queue, runDone, interpActive, tgt, emit>>
      /\ pc[c] = "clobber"
  BY DEF AbortClobber, Goto, reported, chans, threads, prods, seqs
<1>4. Stopping' /\ TakingDown'
  BY <1>1, <1>2, <1>3 DEF Stopping, TakingDown, TearingDown, Clobbered, TypeOK
<1>5. /\ \A u \in Thread : u # c => pc'[u] = pc[u]
      /\ pc'[c] = "close"
  BY <1>1, <1>3 DEF TypeOK
<1>6. (Fresh' <=> Fresh) /\ (Calm' <=> Calm) /\ (Dead' <=> Dead) /\ (Ended' <=> Ended)
      /\ \A p \in Producer : Live(p)' <=> Live(p)
  BY <1>1, <1>3, <1>5 DEF Fresh, Calm, Dead, Ended, Over, Live
<1>7. One' /\ Active' /\ Busy' /\ Target' /\ IdleCalm' /\ DoneLast'
  BY <1>1, <1>3, <1>4, <1>5, <1>6
     DEF ProgramInv, One, Active, Busy, Target, IdleCalm, DoneLast
<1>8. Begun' /\ Alone'
  BY <1>1, <1>3, <1>5, <1>6 DEF ProgramInv, Begun, Alone, Before, Past
<1>9. RunSlot'
  <2> SUFFICES ASSUME NEW d \in Client, op'[d] = "run", pc'[d] \in Starts  PROVE FALSE
    BY DEF RunSlot
  <2>1. d # c /\ pc[d] \in Serving
    BY <1>1, <1>2, <1>3, <1>5 DEF Starts, Serving
  <2> QED  BY <1>1, <1>2, <2>1, OneServes
<1> QED  BY <1>7, <1>8, <1>9 DEF ProgramInv

\* Nobody passes the wait before the program has returned.
LEMMA WaitProgram ==
  ASSUME TypeOK, ProgramInv, NEW t \in Agent, WaitRunDone(t)
  PROVE  ProgramInv'
<1>1. /\ t \in Thread /\ t \notin Producer
      /\ Agent \subseteq Thread /\ Producer \subseteq Thread /\ Client \subseteq Agent
  BY ConstantsAssumption DEF Agent, Thread
<1>2. /\ UNCHANGED <<cur, spc, cmd, queue, interpState, runDone, interpActive, tgt, emit>>
      /\ \A u \in Thread : u # t => pc'[u] = pc[u] /\ op'[u] = op[u]
      /\ pc'[t] \in {"interp", "guard", "idle"} /\ pc[t] = "waitRun"
      /\ op[t] = "abort" => pc'[t] = "interp" /\ op'[t] = "abort"
  BY <1>1 DEF WaitRunDone, Goto, Begin, Return, TypeOK, reported, chans, prods, seqs
<1>3. \A p \in Producer : pc[p] = "idle"
  BY DEF WaitRunDone, RunDoneClosed, ProgramInv, One
<1>4. \A p \in Producer : pc'[p] = "idle"
  BY <1>1, <1>2, <1>3
<1>5. (Fresh' <=> Fresh) /\ (Calm' <=> Calm) /\ (Dead' <=> Dead)
      /\ Ended' /\ \A p \in Producer : ~Live(p)'
  BY <1>2, <1>4 DEF Fresh, Calm, Dead, Ended, Over, Live
<1>6. TakingDown => TakingDown'
  BY <1>1, <1>2 DEF TakingDown, TearingDown, Clobbered
<1>7. One' /\ Active' /\ Busy' /\ Alone' /\ Target'
  BY <1>4, <1>5 DEF One, Active, Busy, Alone, Target
<1>8. IdleCalm' /\ DoneLast'
  BY <1>2, <1>5, <1>6 DEF ProgramInv, IdleCalm, DoneLast
<1>9. Begun' /\ RunSlot'
  BY <1>1, <1>2, <1>5 DEF ProgramInv, Begun, RunSlot, Before, Starts
<1> QED  BY <1>7, <1>8, <1>9 DEF ProgramInv

\* A new generation, whoever starts it, is fresh, and no program sends to it.
LEMMA SpawnProgram ==
  ASSUME TypeOK, Served, ProgramInv, NEW t \in Agent \cup Producer, SpawnSequencer(t)
  PROVE  ProgramInv'
<1>1. /\ t \in Thread /\ Agent \cap Producer = {} /\ Client \subseteq Agent
      /\ Agent \subseteq Thread /\ Producer \subseteq Thread
  BY ConstantsAssumption DEF Agent, Thread
<1>2. /\ UNCHANGED <<interpState, runDone, interpActive, tgt, emit, op>>
      /\ pc[t] = "spawn" /\ pc'[t] = IF op[t] = "run" THEN "open" ELSE "commit"
      /\ \A u \in Thread : u # t => pc'[u] = pc[u]
  BY <1>1 DEF SpawnSequencer, Goto, TypeOK, reported, prods
<1>3. cur' \in Gen /\ queue'[cur'] = <<>> /\ spc'[cur'] = "check"
  BY DEF SpawnSequencer, Unused, TypeOK
<1>4. Fresh' /\ Calm' /\ ~Dead'
  BY <1>3, EmptySeq DEF Fresh, Calm, Dead, Waiting
<1>5. \A p \in Producer : Live(p) => p = t /\ op[t] = "fault"
  <2>1. CASE t \in Agent
    BY <1>1, <1>2, <2>1, NoneLive DEF Starts, Past
  <2>2. CASE t \in Producer
    <3>1. op[t] = "fault"
      BY <1>2, <2>2 DEF Served, Roles, ProducerFits, ProducerPc
    <3> QED  BY <1>2, <2>2, <3>1 DEF ProgramInv, One, Live
  <2> QED  BY <2>1, <2>2
<1>6. \A p \in Producer : (Live(p)' <=> Live(p)) /\ Over(p)'
  BY <1>1, <1>2, <1>5 DEF Live, Over
<1>7. One' /\ Active'
  BY <1>1, <1>2, <1>6 DEF ProgramInv, One, Active, Live
<1>8. Busy' /\ Target'
  BY <1>1, <1>2, <1>5 DEF Busy, Target, Live
<1>9. Begun' /\ IdleCalm' /\ DoneLast'
  BY <1>3, <1>4, <1>6, EmptySeq DEF Begun, IdleCalm, DoneLast, Ended, InHand
<1>10. RunSlot'
  <2> SUFFICES ASSUME NEW c \in Client, op'[c] = "run", pc'[c] \in Starts
               PROVE  interpState # "Idle"
    BY <1>2, <1>4 DEF RunSlot
  <2>1. op[c] = "run" /\ pc[c] \in Starts
    BY <1>1, <1>2 DEF Starts
  <2> QED  BY <2>1 DEF ProgramInv, RunSlot
<1>11. Alone'
  <2> SUFFICES ASSUME NEW u \in Agent, op'[u] # "run", pc'[u] \in Past
               PROVE  \A p \in Producer : ~Live(p)
    BY <1>6 DEF Alone
  <2>1. op[u] # "run" /\ pc[u] \in Past
    BY <1>1, <1>2 DEF Past
  <2> QED  BY <2>1 DEF ProgramInv, Alone
<1> QED  BY <1>7, <1>8, <1>9, <1>10, <1>11 DEF ProgramInv

\* The terminal state is committed on a fresh generation, beside no program.
LEMMA CommitProgram ==
  ASSUME TypeOK, Served, ProgramInv, NEW t \in Agent \cup Producer, CommitTerminal(t)
  PROVE  ProgramInv'
<1>1. /\ t \in Thread /\ Agent \cap Producer = {} /\ Client \subseteq Agent
      /\ Agent \subseteq Thread /\ Producer \subseteq Thread
  BY ConstantsAssumption DEF Agent, Thread
<1>2. /\ UNCHANGED <<cur, spc, cmd, queue, runDone, interpActive, tgt, emit>>
      /\ pc[t] = "commit" /\ interpState' = "Idle"
      /\ \A u \in Thread : u # t => pc'[u] = pc[u] /\ op'[u] = op[u]
      /\ \/ op[t] = "abort" /\ pc'[t] = "restore" /\ op'[t] = "abort"
         \/ op[t] = "frontdoor" /\ pc'[t] = "guard"
         \/ op[t] = "fault" /\ pc'[t] = "exit"
         \/ op[t] \in {"trip", "recover"} /\ pc'[t] = "idle"
  BY <1>1 DEF CommitTerminal, Goto, Begin, Return, TypeOK, reported, chans, prods, seqs
<1>3. /\ t \in Producer => op[t] = "fault"
      /\ t \in Agent => op[t] \in {"abort", "frontdoor", "recover"}
  BY <1>2 DEF Served, Roles, ProducerFits, ProducerPc, ClientFits, RecovererFits,
              Starts, Agent
<1>4. \A p \in Producer : Live(p) => p = t
  <2>1. CASE t \in Agent
    BY <1>2, <1>3, <2>1, NoneLive DEF Past
  <2>2. CASE t \in Producer
    BY <1>2, <2>2 DEF ProgramInv, One, Live
  <2> QED  BY <2>1, <2>2
<1>5. Fresh' /\ (Calm' \/ Dead')
  <2>1. Fresh
    BY <1>1, <1>2 DEF ProgramInv, Begun, Before
  <2> QED  BY <1>2, <2>1, EmptySeq DEF Fresh, Calm, Dead
<1>6. \A p \in Producer : (Live(p)' <=> Live(p)) /\ Over(p)'
  BY <1>1, <1>2, <1>3, <1>4 DEF Live, Over
<1>7. One' /\ Active'
  BY <1>1, <1>2, <1>3, <1>6 DEF ProgramInv, One, Active, Live
<1>8. Busy' /\ Target'
  BY <1>1, <1>2, <1>3, <1>4 DEF Busy, Target, Live
<1>9. Begun' /\ IdleCalm' /\ DoneLast'
  BY <1>5, <1>6, EmptySeq DEF Begun, IdleCalm, DoneLast, Ended, Fresh, Waiting, InHand
<1>10. RunSlot'
  <2> SUFFICES ASSUME NEW c \in Client, op'[c] = "run", pc'[c] \in Starts  PROVE FALSE
    BY DEF RunSlot
  <2>1. c # t /\ op[c] = "run" /\ pc[c] \in Starts
    BY <1>1, <1>2, <1>3 DEF Starts
  <2>2. CASE t \in Agent
    BY <1>1, <1>2, <2>1, <2>2, OneServes DEF Starts, Serving
  <2>3. CASE t \in Producer
    BY <1>1, <1>2, <2>1, <2>3, NoneLive DEF Live
  <2> QED  BY <2>2, <2>3
<1>11. Alone'
  <2> SUFFICES ASSUME NEW u \in Agent, op'[u] # "run", pc'[u] \in Past
               PROVE  \A p \in Producer : ~Live(p)
    BY <1>6 DEF Alone
  <2>1. op[u] # "run" /\ pc[u] \in Past
    BY <1>1, <1>2, <1>3 DEF Past
  <2> QED  BY <2>1 DEF ProgramInv, Alone
<1> QED  BY <1>7, <1>8, <1>9, <1>10, <1>11 DEF ProgramInv

\* What an abort sends to restore the modal state is all that is sent.
LEMMA RestoreProgram ==
  ASSUME TypeOK, Served, Quiet, ProgramInv, NEW c \in Client, AbortRestore(c)
  PROVE  ProgramInv'
<1>1. /\ c \in Thread /\ c \in Agent /\ c \notin Producer
      /\ Agent \subseteq Thread /\ Producer \subseteq Thread /\ Client \subseteq Agent
      /\ Thread = Agent \cup Producer \cup {Monitor}
      /\ Monitor # c /\ Monitor \in Thread
  BY ConstantsAssumption DEF Agent, Thread
<1>2. /\ UNCHANGED <<cur, spc, cmd, interpState, runDone, interpActive, tgt, emit>>
      /\ pc[c] = "restore" /\ pc'[c] = "idle"
      /\ \A u \in Thread : u # c => pc'[u] = pc[u] /\ op'[u] = op[u]
      /\ queue'[cur] \in {queue[cur], Append(queue[cur], "params")}
  BY <1>1 DEF AbortRestore, Return, Goto, TypeOK, reported, prods, seqs
<1>3. \A p \in Producer : ~Live(p)
  <2>1. op[c] # "run"
    BY <1>2 DEF Served, Roles, ClientFits, Starts
  <2> QED  BY <1>1, <1>2, <2>1, NoneLive DEF Past
<1>4. queue[cur] = <<>> /\ spc[cur] \in Waiting \cup {"exited"}
  BY <1>1, <1>2 DEF ProgramInv, Begun, Before, Fresh
<1>5. \A i \in 1 .. Len(queue'[cur]) : queue'[cur][i] = "params"
  <2>1. CASE queue'[cur] = <<>>
    BY <2>1, EmptySeq
  <2>2. CASE queue'[cur] = Append(<<>>, "params")
    <3>1. <<>> \in Seq(Cmd) /\ "params" \in Cmd /\ Len(<<>>) = 0
      BY EmptySeq DEF Cmd, CanonCmd
    <3>2. /\ Len(Append(<<>>, "params")) = 1
          /\ Append(<<>>, "params")[1] = "params"
      BY <3>1, AppendProperties
    <3> QED  BY <2>2, <3>2
  <2> QED  BY <1>2, <1>4, <2>1, <2>2
<1>6. /\ Calm' \/ Dead'
      /\ spc'[cur'] \notin InHand
      /\ \A p \in Producer : ~Live(p)' /\ Over(p)'
  BY <1>1, <1>2, <1>3, <1>4, <1>5 DEF Calm, Dead, Waiting, InHand, Live, Over
<1>7. One' /\ Active' /\ Busy' /\ Alone' /\ Target' /\ IdleCalm'
  BY <1>1, <1>2, <1>6
     DEF ProgramInv, One, Active, Busy, Alone, Target, IdleCalm, Ended, Live
<1>8. DoneLast'
  BY <1>2, <1>5, <1>6 DEF DoneLast
<1>9. \A u \in Agent : pc'[u] \notin Serving
  BY <1>1, <1>2, OneServes DEF Serving
<1>10. Begun'
  <2> SUFFICES ASSUME NEW u \in Thread, pc'[u] \in Before  PROVE FALSE
    BY DEF Begun
  <2>1. u # c
    BY <1>2 DEF Before
  <2>2. pc'[u] = pc[u]
    BY <1>2, <2>1
  <2>3. CASE u \in Agent
    <3>1. pc[u] # "seek" /\ pc[u] # "start"
      BY <2>3 DEF Served, Roles, ClientFits, RecovererFits, Starts, Teardown, Agent
    <3> QED  BY <1>9, <2>2, <2>3, <3>1 DEF Before, Serving
  <2>4. CASE u \in Producer
    BY <1>6, <2>4 DEF Live, Before
  <2>5. CASE u = Monitor
    BY <1>1, <2>2, <2>5 DEF Quiet, Before
  <2> QED  BY <1>1, <2>3, <2>4, <2>5
<1>11. RunSlot'
  BY <1>1, <1>9 DEF RunSlot, Starts, Serving
<1> QED  BY <1>7, <1>8, <1>10, <1>11 DEF ProgramInv

\* A Run that is let through finds no program, and a sequencer with nothing of
\* one left.
LEMMA GuardProgram ==
  ASSUME TypeOK, Served, ProgramInv, NEW c \in Client, RunGuard(c)
  PROVE  ProgramInv'
<1>1. /\ c \in Thread /\ c \in Agent /\ c \notin Producer
      /\ Agent \subseteq Thread /\ Producer \subseteq Thread /\ Client \subseteq Agent
  BY ConstantsAssumption DEF Agent, Thread
<1>2. /\ pc[c] = "guard" /\ op[c] = "run"
      /\ UNCHANGED <<cur, spc, cmd, queue, interpActive, tgt, emit>>
  BY DEF RunGuard, Served, Roles, ClientFits, Teardown, reported, chans, seqs
<1>3. CASE programBusy
  <2>1. /\ UNCHANGED <<interpState, runDone>>
        /\ \A u \in Thread : u # c => pc'[u] = pc[u] /\ op'[u] = op[u]
        /\ pc'[c] = "idle" /\ op'[c] = "none"
    BY <1>1, <1>3 DEF RunGuard, Return, Goto, TypeOK, reported
  <2> QED  BY <1>1, <1>2, <2>1, AgentFrame
           DEF Before, Starts, Past, Clobbered, TearingDown
<1>4. CASE ~programBusy
  <2>1. PICK p \in Producer :
           /\ runDone' = p
           /\ pc' = [q \in Thread |->
                        IF q = p THEN "reserved"
                        ELSE IF q = c THEN "life"
                        ELSE IF q \in Producer /\ pc[q] = "reserved"
                             THEN "idle" ELSE pc[q]]
    BY <1>4 DEF RunGuard
  <2>2. op' = op /\ interpState' = "Reading"
    BY <1>4 DEF RunGuard
  <2>3. \A u \in Agent : u # c => pc[u] \notin Serving
    BY <1>1, <1>2, OneServes DEF Serving
  <2>4. ~Stopping /\ ~TakingDown
    BY <1>1, <1>2, <2>3 DEF Stopping, TakingDown, TearingDown, Clobbered, Serving
  <2>5. \A q \in Producer : ~Live(q)
    <3> SUFFICES ASSUME NEW q \in Producer, Live(q)  PROVE FALSE
      OBVIOUS
    <3>1. pc[q] = "start"
      BY <1>4 DEF ProgramInv, Active, programBusy, Live
    <3> QED  BY <1>4, <2>4, <3>1 DEF ProgramInv, Busy, programBusy
  <2>6. Calm \/ Dead
    BY <1>4, <2>4 DEF ProgramInv, IdleCalm, programBusy
  <2>7. /\ \A q \in Producer : pc'[q] = IF q = p THEN "reserved" ELSE "idle"
        /\ \A u \in Thread : u # c /\ u \notin Producer => pc'[u] = pc[u]
        /\ pc'[c] = "life"
    BY <1>1, <2>1, <2>5 DEF Live
  <2>8. /\ (Fresh' <=> Fresh) /\ (Calm' <=> Calm) /\ (Dead' <=> Dead)
        /\ Ended' /\ \A q \in Producer : ~Live(q)'
    BY <1>2, <2>7 DEF Fresh, Calm, Dead, Ended, Over, Live
  <2>9. One' /\ Active' /\ Busy' /\ Alone' /\ IdleCalm' /\ Target'
    BY <2>1, <2>2, <2>7, <2>8 DEF One, Active, Busy, Alone, IdleCalm, Target, Live
  <2>10. DoneLast'
    BY <1>2, <2>8 DEF ProgramInv, DoneLast
  <2>11. Begun'
    BY <1>1, <2>7, <2>8 DEF ProgramInv, Begun, Before
  <2>12. RunSlot'
    BY <2>2, <2>6, <2>8 DEF RunSlot
  <2> QED  BY <2>9, <2>10, <2>11, <2>12 DEF ProgramInv
<1> QED  BY <1>3, <1>4

\* A file that cannot be re-opened leaves the fresh generation and no program.
LEMMA OpenProgram ==
  ASSUME TypeOK, Served, ProgramInv, NEW c \in Client, RunOpen(c)
  PROVE  ProgramInv'
<1>1. /\ c \in Thread /\ c \in Agent /\ c \notin Producer
      /\ Agent \subseteq Thread /\ Producer \subseteq Thread /\ Client \subseteq Agent
  BY ConstantsAssumption DEF Agent, Thread
<1>2. /\ pc[c] = "open" /\ op[c] = "run"
      /\ UNCHANGED <<cur, spc, cmd, queue, runDone, interpActive, tgt, emit>>
      /\ \A u \in Thread : u # c => pc'[u] = pc[u] /\ op'[u] = op[u]
  BY <1>1 DEF RunOpen, Served, Roles, ClientFits, Teardown, chans, seqs, prods,
              Return, Goto, TypeOK
<1>3. CASE Goto(c, "launch") /\ UNCHANGED <<interpState, op, cmdMu>>
  BY <1>1, <1>2, <1>3, AgentFrame
     DEF Goto, TypeOK, Before, Starts, Past, Clobbered, TearingDown
<1>4. CASE interpState' = "Idle" /\ Return(c)
  <2>1. pc'[c] = "idle" /\ op'[c] = "none"
    BY <1>1, <1>4 DEF Return, Goto, TypeOK
  <2>2. \A p \in Producer : ~Live(p)
    BY <1>1, <1>2, NoneLive DEF Starts
  <2>3. Fresh
    BY <1>1, <1>2 DEF ProgramInv, Begun, Before
  <2>4. /\ \A p \in Producer : pc'[p] = pc[p] /\ ~Live(p)' /\ Over(p)'
        /\ Fresh' /\ (Calm' \/ Dead')
    BY <1>1, <1>2, <2>2, <2>3, EmptySeq DEF Live, Over, Fresh, Calm, Dead
  <2>5. One' /\ Active' /\ Busy' /\ Alone' /\ IdleCalm' /\ Target'
    BY <1>2, <2>4 DEF ProgramInv, One, Active, Busy, Alone, IdleCalm, Ended, Target, Live
  <2>6. DoneLast' /\ Begun'
    BY <2>4, EmptySeq DEF DoneLast, Begun, Fresh, Waiting, InHand
  <2>7. RunSlot'
    <3> SUFFICES ASSUME NEW d \in Client, op'[d] = "run", pc'[d] \in Starts  PROVE FALSE
      BY DEF RunSlot
    <3>1. d # c /\ pc[d] \in Serving
      BY <1>1, <1>2, <2>1 DEF Starts, Serving
    <3> QED  BY <1>1, <1>2, <3>1, OneServes DEF Serving
  <2> QED  BY <2>5, <2>6, <2>7 DEF ProgramInv
<1> QED  BY <1>3, <1>4 DEF RunOpen

\* The program starts on the fresh generation, and is reported.
LEMMA LaunchProgram ==
  ASSUME TypeOK, Served, ProgramInv, NEW c \in Client, RunLaunch(c)
  PROVE  ProgramInv'
<1>1. /\ c \in Thread /\ c \in Agent /\ c \notin Producer
      /\ Agent \subseteq Thread /\ Producer \subseteq Thread /\ Client \subseteq Agent
  BY ConstantsAssumption DEF Agent, Thread
<1>2. pc[c] = "launch" /\ op[c] = "run"
  BY DEF RunLaunch, Served, Roles, ClientFits, Teardown
<1>3. runDone \in Producer /\ pc[runDone] = "reserved"
  BY <1>2 DEF Served, SlotHeld, Starts
<1>4. /\ UNCHANGED <<cur, spc, cmd, queue, interpState, runDone, interpActive, tgt, emit>>
      /\ \A u \in Thread : u # c => op'[u] = op[u] /\ (u # runDone => pc'[u] = pc[u])
      /\ pc'[c] = "idle" /\ pc'[runDone] = "start" /\ op'[c] = "none"
  BY <1>1, <1>3 DEF RunLaunch, TypeOK, reported, chans, seqs
<1>5. interpState # "Idle" /\ Fresh
  BY <1>1, <1>2 DEF ProgramInv, RunSlot, Begun, Before, Starts
<1>6. \A p \in Producer : ~Live(p)
  BY <1>1, <1>2, NoneLive DEF Starts
<1>7. Fresh' /\ queue'[cur'] = <<>> /\ spc'[cur'] \notin InHand
  BY <1>4, <1>5 DEF Fresh, Waiting, InHand
<1>8. \A u \in Agent : pc'[u] \notin Serving
  BY <1>1, <1>2, <1>3, <1>4, OneServes DEF Serving
<1>9. One' /\ Active' /\ Busy' /\ IdleCalm' /\ Target'
  BY <1>1, <1>3, <1>4, <1>5, <1>6
     DEF ProgramInv, One, Active, Busy, IdleCalm, Target, Live
<1>10. DoneLast' /\ Begun'
  BY <1>7, EmptySeq DEF DoneLast, Begun
<1>11. RunSlot' /\ Alone'
  BY <1>1, <1>8 DEF RunSlot, Alone, Starts, Past, Serving
<1> QED  BY <1>9, <1>10, <1>11 DEF ProgramInv

-----------------------------------------------------------------------------
(* The program.                                                             *)

\* A step of the program that sends nothing and reports nothing idle.
LEMMA ProducerFrame ==
  ASSUME ProgramInv, NEW p \in Producer, Live(p), Live(p)', pc'[p] # "start",
         \A u \in Thread : u # p => pc'[u] = pc[u] /\ op'[u] = op[u],
         \A q \in Producer : q # p => tgt'[q] = tgt[q] /\ emit'[q] = emit[q],
         UNCHANGED <<cur, queue, spc, cmd, runDone>>,
         interpState' = "Idle" <=> interpState = "Idle",
         interpActive',
         pc'[p] \in Before => pc[p] \in Before,
         Over(p) => Over(p)',
         pc'[p] \in {"put", "putSync", "putDone"} => tgt'[p] = cur,
         pc'[p] \in {"put", "putSync"} => emit'[p] # "done"
  PROVE  ProgramInv'
<1>1. /\ p \in Thread /\ p \notin Agent
      /\ Agent \subseteq Thread /\ Producer \subseteq Thread /\ Client \subseteq Agent
  BY ConstantsAssumption DEF Agent, Thread
<1>2. (Fresh' <=> Fresh) /\ (Calm' <=> Calm) /\ (Dead' <=> Dead)
  BY DEF Fresh, Calm, Dead
<1>3. /\ \A q \in Producer : Live(q)' <=> Live(q)
      /\ \A u \in Agent : pc'[u] = pc[u] /\ op'[u] = op[u]
      /\ Ended => Ended'
      /\ Stopping' <=> Stopping
      /\ TakingDown' <=> TakingDown
  BY <1>1 DEF Live, Ended, Over, Stopping, TakingDown
<1>4. One' /\ Active' /\ Busy' /\ Target'
  BY <1>1, <1>3 DEF ProgramInv, One, Active, Busy, Target, Live
<1>5. Begun' /\ RunSlot' /\ Alone' /\ IdleCalm' /\ DoneLast'
  BY <1>1, <1>2, <1>3
     DEF ProgramInv, Begun, RunSlot, Alone, IdleCalm, DoneLast
<1> QED  BY <1>4, <1>5 DEF ProgramInv

\* The steps this covers.
LEMMA LineProgram ==
  ASSUME TypeOK, Served, ProgramInv, NEW p \in Producer,
         \/ InterpReset(p) \/ StartSequencer(p) \/ JoinSequencer(p)
         \/ ProgramStart(p) \/ (SeekToLine(p) /\ interpState' = interpState)
         \/ NextLine(p) \/ ReadLine(p) \/ ExecuteLine(p) \/ DrainSnapshot(p)
         \/ DrainInflight(p) \/ ProgramSynch(p) \/ FaultProgram(p)
  PROVE  ProgramInv'
<1> USE DEF TypeOK, Goto, Begin, reported, chans, flags, locks, threads, prods, seqs
<1>1. p \in Thread /\ Env \subseteq EnvEvents /\ Kinds \subseteq CanonCmd
  BY ConstantsAssumption DEF Thread
<1>2. ProducerFits(op[p], pc[p])
  BY DEF Served, Roles
<1>a. pc[p] \notin {"idle", "reserved", "start"} => interpActive
  BY DEF ProgramInv, Active
<1> DEFINE Same == /\ \A u \in Thread : u # p => pc'[u] = pc[u] /\ op'[u] = op[u]
                   /\ \A q \in Producer : q # p => tgt'[q] = tgt[q] /\ emit'[q] = emit[q]
                   /\ UNCHANGED <<cur, queue, spc, cmd, runDone, interpState>>
                   /\ interpActive' /\ Live(p)
           Places ==
             /\ pc'[p] \notin {"idle", "reserved", "start"}
             /\ pc'[p] \in Before => pc[p] \in Before
             /\ Over(p) => Over(p)'
             /\ pc'[p] \in {"put", "putSync", "putDone"} => tgt'[p] = cur
             /\ pc'[p] \in {"put", "putSync"} => emit'[p] # "done"
<1>3. CASE InterpReset(p) \/ StartSequencer(p) \/ JoinSequencer(p)
  <2>1. Same
    BY <1>1, <1>a, <1>3 DEF InterpReset, StartSequencer, JoinSequencer, Live
  <2>2. Places
    BY <1>1, <1>2, <1>3 DEF InterpReset, StartSequencer, JoinSequencer, Before, Over
  <2> QED  BY <2>1, <2>2, ProducerFrame DEF Live
<1>4. CASE ProgramStart(p)
  <2>1. Same
    BY <1>1, <1>4 DEF ProgramStart, Live
  <2>2. Places
    BY <1>1, <1>2, <1>4
       DEF ProgramStart, Before, Over, EnvEvents, ProducerFits, Teardown
  <2> QED  BY <2>1, <2>2, ProducerFrame DEF Live
<1>5. CASE SeekToLine(p) /\ interpState' = interpState
  <2>1. Same
    BY <1>1, <1>a, <1>5 DEF SeekToLine, Live
  <2>2. Places
    BY <1>1, <1>2, <1>5 DEF SeekToLine, Before, Over, ProducerFits, Teardown
  <2> QED  BY <2>1, <2>2, ProducerFrame DEF Live
<1>6. CASE NextLine(p) \/ ProgramSynch(p) \/ FaultProgram(p)
  <2>1. Same
    BY <1>1, <1>a, <1>6 DEF NextLine, ProgramSynch, FaultProgram, Live
  <2>2. Places
    BY <1>1, <1>2, <1>6
       DEF NextLine, ProgramSynch, FaultProgram, Before, Over, ProducerFits, Teardown
  <2> QED  BY <2>1, <2>2, ProducerFrame DEF Live
<1>7. CASE ReadLine(p)
  <2>1. Same
    BY <1>1, <1>a, <1>7 DEF ReadLine, Proceed, Live
  <2>2. Places
    BY <1>1, <1>2, <1>7
       DEF ReadLine, Proceed, Before, Over, ProducerFits, Teardown
  <2> QED  BY <2>1, <2>2, ProducerFrame DEF Live
<1>8. CASE ExecuteLine(p)
  <2>1. Same
    BY <1>1, <1>a, <1>8 DEF ExecuteLine, Proceed, Live
  <2>2. Places
    BY <1>1, <1>2, <1>8
       DEF ExecuteLine, Proceed, CanonCmd, Before, Over, ProducerFits, Teardown
  <2> QED  BY <2>1, <2>2, ProducerFrame DEF Live
<1>9. CASE DrainSnapshot(p) \/ DrainInflight(p)
  <2>1. Same
    BY <1>1, <1>a, <1>9 DEF DrainSnapshot, DrainInflight, Live
  <2>2. Places
    BY <1>1, <1>2, <1>9
       DEF DrainSnapshot, DrainInflight, Before, Over, ProducerFits, Teardown
  <2> QED  BY <2>1, <2>2, ProducerFrame DEF Live
<1> QED  BY <1>3, <1>4, <1>5, <1>6, <1>7, <1>8, <1>9

\* A seek that meets a bad line reports idle before anything was sent.
LEMMA SeekProgram ==
  ASSUME TypeOK, Served, ProgramInv, NEW p \in Producer, SeekToLine(p),
         interpState' # interpState
  PROVE  ProgramInv'
<1>1. /\ p \in Thread /\ p \notin Agent
      /\ Agent \subseteq Thread /\ Producer \subseteq Thread /\ Client \subseteq Agent
  BY ConstantsAssumption DEF Agent, Thread
<1>2. /\ pc[p] = "seek" /\ pc'[p] = "exit" /\ interpState' = "Idle" /\ op' = op
      /\ \A u \in Thread : u # p => pc'[u] = pc[u]
      /\ UNCHANGED <<cur, queue, spc, cmd, runDone, interpActive, tgt, emit>>
  BY <1>1 DEF SeekToLine, Goto, TypeOK, chans, seqs, prods
<1>3. Fresh
  BY <1>1, <1>2 DEF ProgramInv, Begun, Before
<1>4. \A q \in Producer : Live(q) => q = p
  BY <1>2 DEF ProgramInv, One, Live
<1>5. /\ Fresh' /\ (Calm' \/ Dead')
      /\ \A q \in Producer : (Live(q)' <=> Live(q)) /\ Over(q)'
  BY <1>1, <1>2, <1>3, <1>4, EmptySeq DEF Fresh, Calm, Dead, Live, Over
<1>6. One' /\ Active' /\ Busy' /\ Target' /\ IdleCalm'
  BY <1>1, <1>2, <1>4, <1>5
     DEF ProgramInv, One, Active, Busy, Target, IdleCalm, Ended, Live
<1>7. Begun' /\ DoneLast'
  BY <1>5, EmptySeq DEF Begun, DoneLast, Fresh, Waiting, InHand
<1>8. Alone'
  BY <1>1, <1>2, <1>5 DEF ProgramInv, Alone
<1>9. RunSlot'
  BY <1>1, <1>2, NoneLive DEF RunSlot, Live
<1> QED  BY <1>6, <1>7, <1>8, <1>9 DEF ProgramInv

\* A program enqueues beside no request that relies on a calm sequencer, and
\* nothing after its marker.
LEMMA EnqueueProgram ==
  ASSUME TypeOK, Served, Quiet, ProgramInv, NEW p \in Producer, EnqueueCmd(p)
  PROVE  ProgramInv'
<1>1. /\ p \in Thread /\ p \notin Agent /\ p # Monitor
      /\ Agent \subseteq Thread /\ Producer \subseteq Thread /\ Client \subseteq Agent
      /\ Thread = Agent \cup Producer \cup {Monitor}
  BY ConstantsAssumption DEF Agent, Thread
<1>2. /\ pc[p] \in {"put", "putSync", "putDone"} /\ op' = op
      /\ pc'[p] = AfterPut(pc[p])
      /\ \A u \in Thread : u # p => pc'[u] = pc[u]
      /\ \A q \in Producer : q # p => tgt'[q] = tgt[q] /\ emit'[q] = emit[q]
      /\ UNCHANGED <<cur, interpState, interpActive, spc, cmd, runDone>>
  BY <1>1 DEF EnqueueCmd, Proceed, Goto, TypeOK, reported, seqs
<1>3. /\ Live(p) /\ ~Over(p) /\ ~Ended
      /\ \A q \in Producer : Live(q) => q = p
  <2>1. ProducerFits(op[p], pc[p])
    BY DEF Served, Roles
  <2> QED  BY <1>2, <2>1
           DEF ProgramInv, One, Live, Over, Ended, ProducerFits, Teardown
<1>4. /\ queue[cur] \in Seq(Cmd) /\ emit[p] \in Cmd /\ Len(queue[cur]) \in Nat
      /\ queue'[cur] \in {queue[cur], Append(queue[cur], emit[p])}
  BY <1>2 DEF EnqueueCmd, ProgramInv, Target, TypeOK
<1>5. \A u \in Agent : /\ ~(op[u] = "run" /\ pc[u] \in Starts)
                       /\ ~(op[u] # "run" /\ pc[u] \in Past)
                       /\ pc[u] \notin {"start", "seek"}
  BY <1>3, NoneLive
     DEF Served, Roles, ClientFits, RecovererFits, Agent, Starts, Teardown
<1>6. \A u \in Agent : pc[u] \notin Before
  BY <1>5 DEF Before, Past, Starts, Served, Roles, ClientFits, RecovererFits,
              Agent, Teardown
<1>7. \A q \in Producer : (Live(q)' <=> Live(q)) /\ (q # p => ~Live(q))
  BY <1>1, <1>2, <1>3 DEF Live, AfterPut
<1>8. One' /\ Active' /\ Busy' /\ Target'
  BY <1>1, <1>2, <1>3, <1>7
     DEF ProgramInv, One, Active, Busy, Target, Live, AfterPut
<1>9. Begun'
  BY <1>1, <1>2, <1>6, <1>7 DEF Begun, Before, Quiet, AfterPut, Live
<1>10. RunSlot' /\ Alone'
  BY <1>1, <1>2, <1>5 DEF RunSlot, Alone
<1>11. IdleCalm'
  <2>1. (Dead' <=> Dead) /\ (TakingDown' <=> TakingDown)
    BY <1>1, <1>2 DEF Dead, TakingDown
  <2> QED  BY <1>2, <1>3, <2>1 DEF ProgramInv, IdleCalm
<1>12. DoneLast'
  <2>1. /\ \A i \in 1 .. Len(queue[cur]) : queue[cur][i] # "done"
        /\ ~(spc[cur] \in InHand /\ cmd[cur] = "done")
    BY <1>3 DEF ProgramInv, DoneLast
  <2>2. emit[p] = "done" => Ended'
    <3>1. emit[p] = "done" => pc'[p] = "exit"
      BY <1>2 DEF ProgramInv, Target, AfterPut
    <3> QED  BY <1>1, <1>2, <1>7, <3>1 DEF Ended, Over, Live
  <2>3. CASE queue'[cur] = queue[cur]
    BY <1>2, <2>1, <2>3 DEF DoneLast
  <2>4. CASE queue'[cur] = Append(queue[cur], emit[p])
    <3>1. /\ Len(queue'[cur]) = Len(queue[cur]) + 1
          /\ \A i \in 1 .. Len(queue[cur]) : queue'[cur][i] = queue[cur][i]
          /\ queue'[cur][Len(queue[cur]) + 1] = emit[p]
      BY <1>4, <2>4, AppendProperties
    <3>2. \A i \in 1 .. Len(queue'[cur]) :
             i = Len(queue'[cur]) \/ i \in 1 .. Len(queue[cur])
      BY <1>4, <3>1
    <3>3. \A i \in 1 .. Len(queue'[cur]) :
             queue'[cur][i] = "done" => i = Len(queue'[cur]) /\ Ended'
      BY <2>1, <2>2, <3>1, <3>2
    <3> QED  BY <1>2, <2>1, <3>3 DEF DoneLast
  <2> QED  BY <1>4, <2>3, <2>4
<1> QED  BY <1>8, <1>9, <1>10, <1>11, <1>12 DEF ProgramInv

\* When the program returns there is none.
LEMMA ExitProgram ==
  ASSUME TypeOK, Served, ProgramInv, NEW p \in Producer, ProgramExit(p)
  PROVE  ProgramInv'
<1>1. /\ p \in Thread /\ p \notin Agent
      /\ Agent \subseteq Thread /\ Producer \subseteq Thread /\ Client \subseteq Agent
  BY ConstantsAssumption DEF Agent, Thread
<1>2. /\ pc[p] = "exit" /\ pc'[p] = "idle" /\ op' = op
      /\ \A u \in Thread : u # p => pc'[u] = pc[u]
      /\ UNCHANGED <<cur, queue, interpState, spc, cmd, runDone, tgt, emit>>
  BY <1>1 DEF ProgramExit, Goto, TypeOK, chans, seqs
<1>3. \A q \in Producer : pc'[q] = "idle"
  BY <1>1, <1>2 DEF ProgramInv, One
<1>4. /\ (Fresh' <=> Fresh) /\ (Calm' <=> Calm) /\ (Dead' <=> Dead)
      /\ (TakingDown' <=> TakingDown) /\ Ended'
      /\ \A q \in Producer : ~Live(q)'
  BY <1>1, <1>2, <1>3 DEF Fresh, Calm, Dead, TakingDown, Ended, Over, Live
<1>5. One' /\ Active' /\ Busy' /\ Target' /\ Alone'
  BY <1>3, <1>4 DEF One, Active, Busy, Target, Alone
<1>6. IdleCalm' /\ DoneLast'
  BY <1>2, <1>4 DEF ProgramInv, IdleCalm, DoneLast
<1>7. Begun' /\ RunSlot'
  BY <1>1, <1>2, <1>4 DEF ProgramInv, Begun, RunSlot, Before
<1> QED  BY <1>5, <1>6, <1>7 DEF ProgramInv

LEMMA StepProgram ==
  ASSUME "trip" \notin Env, "paramsFail" \notin Env,
         TypeOK, Served, Quiet, Replacement, ProgramInv, [Next]_vars
  PROVE  ProgramInv'
<1>1. /\ ~(MonitorTrip \/ Acquire(Monitor) \/ ThreadStep(Monitor))
      /\ Thread = Agent \cup Producer \cup {Monitor} /\ Client \subseteq Agent
      /\ Agent \cap Producer = {}
  BY StepQuiet, ConstantsAssumption DEF Agent, Thread
<1>2. CASE \E c \in Client : Request(c)
  BY <1>1, <1>2, QuietProgram
<1>3. ASSUME NEW t \in Agent, Acquire(t) \/ ThreadStep(t)  PROVE ProgramInv'
  <2>1. CASE \/ Lock(t) \/ AbortSequencer(t) \/ FlushQueue(t) \/ StopMotion(t)
             \/ FaultCheck(t) \/ InterpReset(t) \/ StartSequencer(t)
             \/ JoinSequencer(t)
             \/ /\ t \in Client
                /\ AbortSigStop(t) \/ PauseMotion(t) \/ ResumeMotion(t) \/ StepWake(t)
    BY <2>1, QuietProgram
  <2>2. CASE WaitRunDone(t) \/ SpawnSequencer(t) \/ CommitTerminal(t)
    BY <2>2, WaitProgram, SpawnProgram, CommitProgram
  <2>3. CASE t \in Client /\ (AbortClobber(t) \/ AbortRestore(t) \/ RunGuard(t)
                              \/ RunOpen(t) \/ RunLaunch(t))
    BY <2>3, ClobberProgram, RestoreProgram, GuardProgram, OpenProgram, LaunchProgram
  <2> QED  BY <1>1, <1>3, <2>1, <2>2, <2>3 DEF Acquire, ThreadStep
<1>4. ASSUME NEW p \in Producer, Acquire(p) \/ ThreadStep(p)  PROVE ProgramInv'
  <2>1. ~(\/ Lock(p) \/ AbortSequencer(p) \/ FlushQueue(p) \/ StopMotion(p)
          \/ FaultCheck(p) \/ WaitRunDone(p))
    <3>1. ProducerFits(op[p], pc[p])
      BY DEF Served, Roles
    <3> QED  BY <3>1 DEF ProducerFits, ProducerPc, Teardown, Lock, AbortSequencer,
                         FlushQueue, StopMotion, FaultCheck, WaitRunDone
  <2>2. CASE SpawnSequencer(p) \/ CommitTerminal(p)
    BY <2>2, SpawnProgram, CommitProgram
  <2>3. CASE SeekToLine(p) \/ EnqueueCmd(p) \/ ProgramExit(p)
    BY <2>3, LineProgram, SeekProgram, EnqueueProgram, ExitProgram
  <2>4. CASE \/ InterpReset(p) \/ StartSequencer(p) \/ JoinSequencer(p)
             \/ ProgramStart(p) \/ NextLine(p) \/ ReadLine(p) \/ ExecuteLine(p)
             \/ DrainSnapshot(p) \/ DrainInflight(p) \/ ProgramSynch(p)
             \/ FaultProgram(p)
    BY <2>4, LineProgram
  <2> QED  BY <1>1, <1>4, <2>1, <2>2, <2>3, <2>4 DEF Acquire, ThreadStep
<1>5. CASE \E s \in Gen : SeqStep(s)
  BY <1>5, SeqProgram
<1>6. CASE Servo \/ UNCHANGED vars
  BY <1>6 DEF Servo, vars, reported, chans, flags, locks, threads, prods, seqs,
              ProgramInv, One, Active, Busy, Begun, RunSlot, Alone, IdleCalm,
              DoneLast, Target, Fresh, Calm, Dead, Ended, Over, Stopping,
              TakingDown, Live
<1> QED  BY <1>1, <1>2, <1>3, <1>4, <1>5, <1>6 DEF Next

LEMMA InitProgram == Init => ProgramInv
<1> SUFFICES ASSUME Init  PROVE ProgramInv
  OBVIOUS
<1>1. /\ \A t \in Thread : pc[t] = "idle"
      /\ cur \in Gen /\ queue[cur] = <<>> /\ spc[cur] = "check"
  BY DEF Init
<1>2. Agent \subseteq Thread /\ Producer \subseteq Thread /\ Client \subseteq Thread
  BY DEF Agent, Thread
<1>3. Calm /\ Fresh
  BY <1>1, EmptySeq DEF Calm, Fresh, Waiting
<1>4. Ended
  BY <1>1, <1>2 DEF Ended, Over
<1>5. One /\ Active /\ Busy /\ Begun /\ RunSlot /\ Alone /\ Target
  BY <1>1, <1>2 DEF One, Active, Busy, Begun, Before, RunSlot, Starts, Alone,
                    Past, Target
<1>6. IdleCalm /\ DoneLast
  BY <1>1, <1>3, <1>4, EmptySeq DEF IdleCalm, DoneLast, InHand
<1> QED  BY <1>5, <1>6 DEF ProgramInv

\* Together with what the earlier theorems rest on, this is inductive.
LEMMA ProgramAlways ==
  ASSUME "trip" \notin Env, "paramsFail" \notin Env
  PROVE  Spec => [](Replacement /\ Served /\ Quiet /\ ProgramInv)
<1>1. Init => Replacement /\ Served /\ Quiet /\ ProgramInv
  BY InitReplacement, InitServed, InitProgram DEF Init, Quiet, Thread
<1>2. TypeOK /\ Replacement /\ [Next]_vars => Replacement'
  BY StepReplacement
<1>3. TypeOK /\ Served /\ Quiet /\ [Next]_vars => Served' /\ Quiet'
  BY StepServed, StepQuiet
<1>4. TypeOK /\ Served /\ Quiet /\ Replacement /\ ProgramInv /\ [Next]_vars => ProgramInv'
  BY StepProgram
<1> QED  BY <1>1, <1>2, <1>3, <1>4, TypeCorrect, PTL DEF Spec

\* Only one goroutine at a time is inside the interpreter, as task.go rules, if
\* the monitor does not trip and motion takes every parameter setting.
THEOREM InterpreterOwned ==
  ASSUME "trip" \notin Env, "paramsFail" \notin Env
  PROVE  Spec => []InterpExclusive
<1>1. TypeOK /\ Served /\ Quiet /\ ProgramInv => InterpExclusive
  <2> SUFFICES ASSUME TypeOK, Served, Quiet, ProgramInv  PROVE InterpExclusive
    OBVIOUS
  <2>1. ASSUME NEW t \in InterpUsers, NEW u \in InterpUsers  PROVE t = u
    <3>1. /\ t \in Thread /\ u \in Thread
          /\ {pc[t], pc[u]} \subseteq {"interp", "restore", "open", "seek", "read",
                                       "exec", "put", "synch"}
      BY DEF InterpUsers
    <3>2. t # Monitor /\ u # Monitor
      BY <3>1 DEF Quiet
    <3>3. ASSUME NEW v \in Agent, v \in InterpUsers
          PROVE  pc[v] \in Serving /\ \A p \in Producer : ~Live(p)
      <4>1. /\ pc[v] \in {"interp", "restore"} => op[v] # "run"
            /\ pc[v] = "open" => op[v] = "run"
            /\ pc[v] \in {"interp", "restore", "open"}
        BY <3>3 DEF InterpUsers, Served, Roles, ClientFits, RecovererFits,
                    Starts, Teardown, Agent
      <4> QED  BY <4>1, NoneLive DEF Past, Starts, Serving
    <3>4. CASE t \in Agent /\ u \in Agent
      BY <3>3, <3>4, OneServes
    <3>5. CASE t \in Producer /\ u \in Producer
      BY <3>1, <3>5 DEF ProgramInv, One
    <3>6. CASE (t \in Agent /\ u \in Producer) \/ (t \in Producer /\ u \in Agent)
      BY <3>1, <3>3, <3>6 DEF Live
    <3> QED  BY <3>1, <3>2, <3>4, <3>5, <3>6 DEF Thread, Agent
  <2>2. CASE InterpUsers = {}
    BY <2>2, FS_EmptySet DEF InterpExclusive
  <2>3. CASE InterpUsers # {}
    <3>1. PICK t \in InterpUsers : TRUE
      BY <2>3
    <3>2. InterpUsers = {t}
      BY <2>1, <3>1
    <3>3. Cardinality({t}) = 1
      BY FS_Singleton
    <3> QED  BY <3>2, <3>3 DEF InterpExclusive
  <2> QED  BY <2>2, <2>3
<1> QED  BY <1>1, TypeCorrect, ProgramAlways, PTL

-----------------------------------------------------------------------------
(* A sequencer fault stays visible.                                         *)

\* The goroutine that faulted is on its way out.
FaultDead == seqFaulted => Dead

\* An abort that has replaced the generation finds no fault on the new one.
Unfaulted == \A c \in Client : op[c] = "abort" /\ pc[c] \in {"commit", "restore"} =>
                 ~seqFaulted

\* A goroutine faults over a command, and does nothing more afterwards.
LEMMA SeqFaultAt ==
  ASSUME TypeOK, NEW s \in Gen, SeqStep(s)
  PROVE  /\ spc[s] \in {"faultStop", "faultAbort", "exited"} => SeqFaultStop(s)
         /\ spc[s] \in Waiting \cup {"faultStop", "faultAbort", "exited"} =>
                UNCHANGED <<seqFaulted, execState>>
<1> USE DEF SeqReturn, SeqGoto, Waiting, reported, chans, flags
<1>1. CASE SeqCheckPause(s) \/ SeqPaused(s) \/ SeqRefresh(s) \/ SeqSelect(s)
  BY <1>1 DEF SeqCheckPause, SeqPaused, SeqRefresh, SeqSelect
<1>2. CASE SeqMark(s) \/ SeqWaitTPAbort(s) \/ SeqWaitSpace(s) \/ SeqWait(s)
  BY <1>2 DEF SeqMark, SeqWaitTPAbort, SeqWaitSpace, SeqWait
<1>3. CASE SeqExecMotion(s) \/ SeqExecOther(s) \/ SeqPost(s)
  BY <1>3 DEF SeqExecMotion, SeqExecOther, SeqPost
<1>4. CASE SeqFaultStop(s)
  BY <1>4 DEF SeqFaultStop
<1> QED  BY <1>1, <1>2, <1>3, <1>4 DEF SeqStep

\* A step of a request, teardown or program leaves the fault visible, the last
\* one of an abort apart.
LEMMA ThreadShows ==
  ASSUME TypeOK, Served, seqFaulted, FaultVisible, NEW t \in Thread,
         ~SpawnSequencer(t), ~AbortRestore(t),
         \/ Acquire(t) \/ ThreadStep(t) \/ (t \in Client /\ Request(t))
  PROVE  \/ Aborting' \/ Starting'
         \/ execState' = "Error" /\ interpState' = "Idle"
<1> USE DEF TypeOK, Goto, Begin, Return, Proceed, threads, reported
<1>1. /\ Client \subseteq Thread /\ Client \cap Recoverer = {}
      /\ Client \cap Producer = {} /\ Monitor \notin Client
      /\ Recoverer \cap Producer = {} /\ Monitor \notin Recoverer \cup Producer
  BY ConstantsAssumption DEF Thread
<1>2. \A u \in Thread : u # t => op'[u] = op[u]
                                 /\ (u \in Client => pc'[u] = pc[u])
  BY <1>1, OthersStay
<1>3. /\ t \in Client => ClientFits(op[t], pc[t])
      /\ t \in Recoverer => RecovererFits(op[t], pc[t])
      /\ t \in Producer => ProducerFits(op[t], pc[t])
      /\ t = Monitor => MonitorFits(op[t], pc[t])
  BY DEF Served, Roles
<1>4. CASE Aborting
  <2>1. PICK c \in Client : op[c] = "abort"
    BY <1>4 DEF Aborting
  <2>2. CASE c = t
    <3>1. op[t] = "abort" /\ ClientFits(op[t], pc[t]) /\ t \in Client
      BY <1>3, <2>1, <2>2
    <3> USE DEF ClientFits, Teardown
    <3>2. CASE \/ Lock(t) \/ AbortSequencer(t) \/ FlushQueue(t) \/ StopMotion(t)
               \/ FaultCheck(t) \/ WaitRunDone(t) \/ InterpReset(t)
      BY <3>1, <3>2 DEF Lock, AbortSequencer, FlushQueue, StopMotion, FaultCheck,
                        WaitRunDone, InterpReset, Aborting
    <3>3. CASE \/ StartSequencer(t) \/ JoinSequencer(t) \/ CommitTerminal(t)
      BY <3>1, <3>3 DEF StartSequencer, JoinSequencer, CommitTerminal, Aborting
    <3>4. CASE \/ Request(t) \/ AbortSigStop(t) \/ PauseMotion(t) \/ ResumeMotion(t)
               \/ StepWake(t) \/ AbortClobber(t)
      BY <3>1, <3>4 DEF Request, Abort, Pause, Resume, Step, Run, AbortSigStop,
                        PauseMotion, ResumeMotion, StepWake, AbortClobber, Aborting
    <3>5. ~(RunGuard(t) \/ RunOpen(t) \/ RunLaunch(t))
      BY <3>1 DEF RunGuard, RunOpen, RunLaunch
    <3> QED  BY <1>1, <3>1, <3>2, <3>3, <3>4, <3>5 DEF Acquire, ThreadStep
  <2>3. CASE c # t
    BY <1>1, <1>2, <2>1, <2>3 DEF Aborting
  <2> QED  BY <2>2, <2>3
<1>5. CASE Starting
  <2>1. PICK c \in Client : op[c] = "run" /\ pc[c] \in {"life", "join", "spawn"}
    BY <1>5 DEF Starting
  <2>2. CASE c = t
    <3>1. CASE StartSequencer(t) \/ JoinSequencer(t)
      BY <1>1, <2>1, <2>2, <3>1 DEF StartSequencer, JoinSequencer, Starting
    <3>2. ~(\/ Lock(t) \/ AbortSequencer(t) \/ FlushQueue(t) \/ StopMotion(t)
            \/ FaultCheck(t) \/ WaitRunDone(t) \/ InterpReset(t) \/ CommitTerminal(t))
      BY <2>1, <2>2 DEF Lock, AbortSequencer, FlushQueue, StopMotion, FaultCheck,
                        WaitRunDone, InterpReset, CommitTerminal
    <3>3. ~(\/ Request(t) \/ AbortSigStop(t) \/ PauseMotion(t) \/ ResumeMotion(t)
            \/ StepWake(t) \/ AbortClobber(t) \/ RunGuard(t) \/ RunOpen(t)
            \/ RunLaunch(t))
      BY <2>1, <2>2 DEF Request, Abort, Pause, Resume, Step, Run, AbortSigStop,
                        PauseMotion, ResumeMotion, StepWake, AbortClobber,
                        RunGuard, RunOpen, RunLaunch
    <3> QED  BY <1>1, <2>1, <2>2, <3>1, <3>2, <3>3 DEF Acquire, ThreadStep
  <2>3. CASE c # t
    BY <1>1, <1>2, <2>1, <2>3 DEF Starting
  <2> QED  BY <2>2, <2>3
<1>6. CASE execState = "Error" /\ interpState = "Idle"
  <2>1. CASE \/ Lock(t) \/ AbortSequencer(t) \/ FlushQueue(t) \/ StopMotion(t)
             \/ FaultCheck(t) \/ WaitRunDone(t) \/ InterpReset(t)
             \/ StartSequencer(t) \/ JoinSequencer(t)
    BY <1>6, <2>1 DEF Lock, AbortSequencer, FlushQueue, StopMotion, FaultCheck,
                      WaitRunDone, InterpReset, StartSequencer, JoinSequencer
  <2>2. CASE CommitTerminal(t)
    <3>1. op[t] = "abort" => t \in Client
      BY <1>3 DEF RecovererFits, ProducerFits, MonitorFits, Thread
    <3>2. op[t] = "abort" => op'[t] = "abort"
      BY <2>2 DEF CommitTerminal
    <3>3. op[t] # "abort" => execState' = "Error" /\ interpState' = "Idle"
      BY <2>2 DEF CommitTerminal
    <3> QED  BY <3>1, <3>2, <3>3 DEF Aborting
  <2>3. CASE t \in Client /\ AbortClobber(t)
    <3>1. op[t] = "abort" /\ op' = op
      BY <1>3, <2>3 DEF AbortClobber, ClientFits, Starts, Teardown
    <3> QED  BY <2>3, <3>1 DEF Aborting
  <2>4. CASE t \in Client /\ RunGuard(t)
    <3>1. op[t] = "run"
      BY <1>3, <2>4 DEF RunGuard, ClientFits, Teardown
    <3>2. CASE programBusy
      BY <1>6, <2>4, <3>2 DEF RunGuard
    <3>3. CASE ~programBusy
      <4>1. op' = op /\ pc'[t] = "life"
        BY <1>1, <2>4, <3>3 DEF RunGuard
      <4> QED  BY <2>4, <3>1, <4>1 DEF Starting
    <3> QED  BY <3>2, <3>3
  <2>5. CASE t \in Client /\ (Request(t) \/ AbortSigStop(t) \/ PauseMotion(t)
                              \/ ResumeMotion(t) \/ StepWake(t) \/ RunOpen(t)
                              \/ RunLaunch(t))
    BY <1>6, <2>5 DEF Request, Abort, Pause, Resume, Step, Run, AbortSigStop,
                      PauseMotion, ResumeMotion, StepWake, RunOpen, RunLaunch
  <2>6. CASE t \in Producer /\ (ProgramStart(t) \/ SeekToLine(t) \/ NextLine(t)
                                \/ ReadLine(t) \/ ExecuteLine(t) \/ EnqueueCmd(t))
    BY <1>6, <2>6
       DEF ProgramStart, SeekToLine, NextLine, ReadLine, ExecuteLine, EnqueueCmd
  <2>7. CASE t \in Producer /\ (DrainSnapshot(t) \/ DrainInflight(t) \/ ProgramSynch(t)
                                \/ FaultProgram(t) \/ ProgramExit(t))
    BY <1>6, <2>7
       DEF DrainSnapshot, DrainInflight, ProgramSynch, FaultProgram, ProgramExit
  <2> QED  BY <1>1, <2>1, <2>2, <2>3, <2>4, <2>5, <2>6, <2>7 DEF Acquire, ThreadStep
<1> QED  BY <1>4, <1>5, <1>6 DEF FaultVisible

LEMMA StepShows ==
  ASSUME "trip" \notin Env, "paramsFail" \notin Env, TypeOK, Served, Quiet,
         Replacement, ProgramInv, FaultDead, Unfaulted, FaultVisible, [Next]_vars
  PROVE  FaultDead' /\ Unfaulted' /\ FaultVisible'
<1>0. /\ ~(MonitorTrip \/ Acquire(Monitor) \/ ThreadStep(Monitor))
      /\ Client \subseteq Thread /\ Client \cap Recoverer = {}
      /\ Client \cap Producer = {}
  BY StepQuiet, ConstantsAssumption DEF Thread
<1>1. ASSUME NEW t \in Thread, SpawnSequencer(t)
      PROVE  FaultDead' /\ Unfaulted' /\ FaultVisible'
  BY <1>1 DEF SpawnSequencer, FaultDead, Unfaulted, FaultVisible
<1>2. ASSUME NEW t \in Thread, ~SpawnSequencer(t),
             Acquire(t) \/ ThreadStep(t) \/ (t \in Client /\ Request(t))
      PROVE  FaultDead' /\ Unfaulted' /\ FaultVisible'
  <2>1. UNCHANGED <<cur, spc, seqFaulted>>
    BY <1>2, ThreadCloses
  <2>2. FaultDead'
    BY <2>1 DEF FaultDead, Dead
  <2>3. Unfaulted'
    <3> SUFFICES ASSUME NEW c \in Client, op'[c] = "abort", pc'[c] \in {"commit", "restore"}
                 PROVE  ~seqFaulted
      BY <2>1 DEF Unfaulted
    <3>1. op[c] = "abort" /\ pc[c] \in {"commit", "restore"}
      <4>1. CASE c # t
        BY <1>0, <1>2, <4>1, OthersStay
      <4>2. CASE c = t
        <5>1. ClientFits(op[t], pc[t])
          BY <4>2 DEF Served, Roles
        <5> USE DEF TypeOK, Goto, Begin, Return, threads, ClientFits, Starts, Teardown
        <5>2. CASE \/ Lock(t) \/ AbortSequencer(t) \/ FlushQueue(t) \/ StopMotion(t)
                   \/ FaultCheck(t)
          BY <4>2, <5>2 DEF Lock, AfterLock, AbortSequencer, FlushQueue, StopMotion,
                            FaultCheck
        <5>3. CASE \/ WaitRunDone(t) \/ InterpReset(t) \/ StartSequencer(t)
                   \/ JoinSequencer(t) \/ CommitTerminal(t)
          BY <4>2, <5>3 DEF WaitRunDone, InterpReset, StartSequencer, JoinSequencer,
                            CommitTerminal
        <5>4. CASE \/ Request(t) \/ AbortSigStop(t) \/ PauseMotion(t)
                   \/ ResumeMotion(t) \/ StepWake(t) \/ AbortClobber(t)
                   \/ AbortRestore(t)
          BY <4>2, <5>4 DEF Request, Abort, Pause, Resume, Step, Run, AbortSigStop,
                            PauseMotion, ResumeMotion, StepWake, AbortClobber,
                            AbortRestore
        <5>5. CASE RunGuard(t) \/ RunOpen(t) \/ RunLaunch(t)
          BY <4>2, <5>1, <5>5 DEF RunGuard, RunOpen, RunLaunch
        <5> QED  BY <1>0, <1>2, <4>2, <5>2, <5>3, <5>4, <5>5 DEF Acquire, ThreadStep
      <4> QED  BY <4>1, <4>2
    <3> QED  BY <3>1 DEF Unfaulted
  <2>4. FaultVisible'
    <3> SUFFICES ASSUME seqFaulted
                 PROVE  \/ Aborting' \/ Starting'
                        \/ execState' = "Error" /\ interpState' = "Idle"
      BY <2>1 DEF FaultVisible
    <3>1. CASE AbortRestore(t)
      <4>1. t \in Client /\ op[t] = "abort" /\ pc[t] = "restore"
        BY <3>1, ConstantsAssumption
           DEF AbortRestore, Thread, Served, Roles, ClientFits, RecovererFits,
               ProducerFits, ProducerPc, MonitorFits, Starts, Teardown
      <4> QED  BY <4>1 DEF Unfaulted
    <3>2. CASE ~AbortRestore(t)
      BY <1>2, <3>2, ThreadShows
    <3> QED  BY <3>1, <3>2
  <2> QED  BY <2>2, <2>3, <2>4
<1>3. ASSUME NEW s \in Gen, SeqStep(s)
      PROVE  FaultDead' /\ Unfaulted' /\ FaultVisible'
  <2>1. /\ s = cur /\ cur' = cur
        /\ UNCHANGED seqFaulted \/ SeqFault(s)
    BY <1>3, SeqEnds DEF Replacement, SingleSequencer
  <2>2. /\ spc[s] \in {"faultStop", "faultAbort", "exited"} => SeqFaultStop(s)
        /\ spc[s] \in Waiting \cup {"faultStop", "faultAbort", "exited"} => UNCHANGED seqFaulted
    BY <1>3, SeqFaultAt
  <2>3. Dead => Dead'
    BY <1>3, <2>1, SeqEffect
  <2>4. \A c \in Client : pc'[c] = pc[c] /\ op'[c] = op[c]
    <3>1. UNCHANGED <<pc, op>> \/ \E r \in Recoverer : Begin(r, "recover", "lock")
      BY <1>3, SeqStarts
    <3> QED  BY <1>0, <3>1 DEF Begin, Goto, TypeOK
  <2>5. FaultDead'
    BY <2>1, <2>3 DEF FaultDead, Dead, SeqFault, SeqGoto, TypeOK
  <2>6. Unfaulted'
    <3> SUFFICES ASSUME NEW c \in Client, op[c] = "abort", pc[c] \in {"commit", "restore"}
                 PROVE  ~seqFaulted'
      BY <2>4 DEF Unfaulted
    <3>1. Fresh /\ ~seqFaulted
      BY <1>0 DEF ProgramInv, Begun, Before, Unfaulted
    <3> QED  BY <2>1, <2>2, <3>1 DEF Fresh
  <2>7. FaultVisible'
    <3>1. CASE SeqFault(s)
      BY <3>1 DEF SeqFault, FaultVisible
    <3>2. CASE UNCHANGED seqFaulted /\ seqFaulted
      <4>1. SeqFaultStop(s)
        BY <2>1, <2>2, <3>2 DEF FaultDead, Dead
      <4> QED  BY <2>4, <3>2, <4>1
               DEF FaultVisible, SeqFaultStop, Aborting, Starting, reported
    <3>3. CASE UNCHANGED seqFaulted /\ ~seqFaulted
      BY <3>3 DEF FaultVisible
    <3> QED  BY <2>1, <3>1, <3>2, <3>3
  <2> QED  BY <2>5, <2>6, <2>7
<1>4. CASE Servo \/ UNCHANGED vars
  BY <1>4 DEF Servo, vars, reported, chans, flags, threads, seqs, FaultDead, Dead,
              Unfaulted, FaultVisible, Aborting, Starting
<1> QED  BY <1>0, <1>1, <1>2, <1>3, <1>4 DEF Next

\* A sequencer fault is reported as an error until an operator's abort or the
\* start of a program replaces it, under the same two conditions.
THEOREM FaultIsShown ==
  ASSUME "trip" \notin Env, "paramsFail" \notin Env
  PROVE  Spec => []FaultVisible
<1>1. Init => FaultDead /\ Unfaulted /\ FaultVisible
  BY DEF Init, FaultDead, Unfaulted, FaultVisible
<1>2. /\ TypeOK /\ Replacement /\ Served /\ Quiet /\ ProgramInv
      /\ FaultDead /\ Unfaulted /\ FaultVisible /\ [Next]_vars
      => FaultDead' /\ Unfaulted' /\ FaultVisible'
  BY StepShows
<1> QED  BY <1>1, <1>2, TypeCorrect, ProgramAlways, PTL DEF Spec

-----------------------------------------------------------------------------
(* The error of a teardown is not overwritten by what it took down.         *)

\* A goroutine with nothing to do, or gone, leaves execState alone.
LEMMA CalmKeeps ==
  ASSUME TypeOK, "paramsFail" \notin Env, SeqStep(cur), Calm \/ Dead
  PROVE  execState' = execState
<1>1. CASE spc[cur] \in Waiting \cup {"faultStop", "faultAbort", "exited"}
  BY <1>1, SeqFaultAt DEF TypeOK
<1>2. CASE spc[cur] \in {"got", "exec", "post"} /\ cmd[cur] = "params"
  <2> USE DEF reported
  <2>1. CASE SeqMark(cur)
    BY <1>2, <2>1 DEF SeqMark
  <2>2. CASE SeqExecMotion(cur)
    BY <1>2, <2>2 DEF SeqExecMotion, MayRefuse
  <2>3. CASE SeqExecOther(cur)
    BY <1>2, <2>3 DEF SeqExecOther, MotionCmd
  <2>4. CASE SeqPost(cur)
    BY <1>2, <2>4 DEF SeqPost
  <2>5. CASE \/ SeqCheckPause(cur) \/ SeqPaused(cur) \/ SeqRefresh(cur)
             \/ SeqSelect(cur) \/ SeqWait(cur) \/ SeqWaitTPAbort(cur)
             \/ SeqWaitSpace(cur) \/ SeqFaultStop(cur)
    BY <1>2, <2>5 DEF SeqCheckPause, SeqPaused, SeqRefresh, SeqSelect, SeqWait,
                      SeqWaitTPAbort, SeqWaitSpace, SeqFaultStop
  <2> QED  BY <2>1, <2>2, <2>3, <2>4, <2>5 DEF SeqStep
<1> QED  BY <1>1, <1>2 DEF Calm, Dead

\* Of the threads only an abort, and the commit of a teardown, write it.
LEMMA ThreadKeeps ==
  ASSUME TypeOK, Served, NEW t \in Thread,
         \/ Acquire(t) \/ ThreadStep(t) \/ (t \in Client /\ Request(t))
  PROVE  Aborting \/ execState' \in {execState, "Error"}
<1> USE DEF reported, Aborting
<1>1. CASE CommitTerminal(t) \/ (t \in Client /\ AbortClobber(t))
  <2>1. op[t] = "abort" => t \in Client
    BY ConstantsAssumption DEF Served, Roles, RecovererFits, ProducerFits,
                               MonitorFits, Thread
  <2>2. t \in Client /\ AbortClobber(t) => op[t] = "abort"
    BY DEF AbortClobber, Served, Roles, ClientFits, Starts, Teardown
  <2> QED  BY <1>1, <2>1, <2>2 DEF CommitTerminal
<1>2. CASE \/ Lock(t) \/ AbortSequencer(t) \/ FlushQueue(t) \/ StopMotion(t)
           \/ FaultCheck(t) \/ WaitRunDone(t) \/ InterpReset(t)
           \/ StartSequencer(t) \/ JoinSequencer(t) \/ SpawnSequencer(t)
  BY <1>2 DEF Lock, AbortSequencer, FlushQueue, StopMotion, FaultCheck, WaitRunDone,
              InterpReset, StartSequencer, JoinSequencer, SpawnSequencer
<1>3. CASE t \in Client /\ (Request(t) \/ AbortSigStop(t) \/ PauseMotion(t)
                            \/ ResumeMotion(t) \/ StepWake(t) \/ AbortRestore(t)
                            \/ RunGuard(t) \/ RunOpen(t) \/ RunLaunch(t))
  BY <1>3 DEF Request, Abort, Pause, Resume, Step, Run, AbortSigStop, PauseMotion,
              ResumeMotion, StepWake, AbortRestore, RunGuard, RunOpen, RunLaunch
<1>4. CASE t \in Producer /\ (ProgramStart(t) \/ SeekToLine(t) \/ NextLine(t)
                              \/ ReadLine(t) \/ ExecuteLine(t) \/ EnqueueCmd(t))
  BY <1>4 DEF ProgramStart, SeekToLine, NextLine, ReadLine, ExecuteLine, EnqueueCmd
<1>5. CASE t \in Producer /\ (DrainSnapshot(t) \/ DrainInflight(t) \/ ProgramSynch(t)
                              \/ FaultProgram(t) \/ ProgramExit(t))
  BY <1>5 DEF DrainSnapshot, DrainInflight, ProgramSynch, FaultProgram, ProgramExit
<1> QED  BY <1>1, <1>2, <1>3, <1>4, <1>5 DEF Acquire, ThreadStep

\* What a teardown has committed as an error stays one until an operator's
\* abort or the next program: no late write of the goroutines it took down
\* replaces it, under the same two conditions.
THEOREM ErrorStays ==
  ASSUME "trip" \notin Env, "paramsFail" \notin Env
  PROVE  Spec => ErrorLatched
<1>1. /\ TypeOK /\ Replacement /\ Served /\ Quiet /\ ProgramInv /\ [Next]_vars
      => [execState = "Error" /\ execState' # "Error" =>
              Aborting \/ interpState # "Idle"]_vars
  <2> SUFFICES ASSUME TypeOK, Replacement, Served, Quiet, ProgramInv, Next,
                      execState = "Error", execState' # "Error", interpState = "Idle"
               PROVE  Aborting
    OBVIOUS
  <2>1. ~(MonitorTrip \/ Acquire(Monitor) \/ ThreadStep(Monitor)) /\ Client \subseteq Thread
    BY StepQuiet DEF Thread
  <2>2. CASE \/ \E c \in Client : Request(c)
             \/ \E t \in Thread : Acquire(t) \/ ThreadStep(t)
    BY <2>1, <2>2, ThreadKeeps
  <2>3. ASSUME NEW s \in Gen, SeqStep(s)  PROVE Aborting
    <3>1. s = cur
      BY <2>3, SeqEnds DEF Replacement, SingleSequencer
    <3>2. TakingDown
      BY <2>3, <3>1, CalmKeeps DEF ProgramInv, IdleCalm
    <3> QED  BY <3>2 DEF TakingDown, Aborting
  <2>4. ~Servo
    BY DEF Servo, reported
  <2> QED  BY <2>1, <2>2, <2>3, <2>4 DEF Next
<1> QED  BY <1>1, TypeCorrect, ProgramAlways, PTL DEF Spec, ErrorLatched

-----------------------------------------------------------------------------
(* A machine at rest says so.                                               *)

\* It takes one command at a time from its queue.
LEMMA SeqTakes ==
  ASSUME TypeOK, NEW s \in Gen, SeqStep(s)
  PROVE  /\ UNCHANGED emit
         /\ \/ queue'[s] = queue[s]
            \/ /\ queue[s] # <<>> /\ queue'[s] = Tail(queue[s])
               /\ cmd'[s] = Head(queue[s]) /\ spc'[s] = "got"
<1> USE DEF TypeOK, SeqReturn, SeqGoto, chans, prods
<1>1. CASE SeqCheckPause(s) \/ SeqPaused(s) \/ SeqRefresh(s) \/ SeqSelect(s)
  BY <1>1 DEF SeqCheckPause, SeqPaused, SeqRefresh, SeqSelect
<1>2. CASE SeqMark(s) \/ SeqWait(s) \/ SeqWaitTPAbort(s) \/ SeqWaitSpace(s)
  BY <1>2 DEF SeqMark, SeqWait, SeqWaitTPAbort, SeqWaitSpace
<1>3. CASE SeqExecMotion(s) \/ SeqExecOther(s) \/ SeqPost(s) \/ SeqFaultStop(s)
  BY <1>3 DEF SeqExecMotion, SeqExecOther, SeqPost, SeqFaultStop
<1> QED  BY <1>1, <1>2, <1>3 DEF SeqStep

\* A program pauses only where it asks for that, or is stepped: nobody pauses it.
\* (A tap cycle does not stop for a pause, so that the marker of the program's end
\* may meet the one that an M0 or a step within the cycle has left.)
NobodyPauses == /\ "trip" \notin Env /\ "paramsFail" \notin Env /\ "seek" \notin Env
                /\ "pause" \notin Ops
                /\ "tapOn" \in Kinds => "m0" \notin Kinds /\ "step" \notin Ops

\* What a program does not contain is nowhere.
Barred == {"m0", "tapOn"} \ Kinds
Contents ==
    /\ \A g \in Gen : /\ cmd[g] \notin Barred
                      /\ \A i \in 1 .. Len(queue[g]) : queue[g][i] \notin Barred
    /\ \A p \in Producer : emit[p] \notin Barred /\ pc[p] # "seek"

\* A program listens to the channel of the generation it sends to.
Mine == \A p \in Producer :
    /\ Live(p) /\ op[p] = "none" /\ pc[p] # "exit" => mine[p] = cur
    /\ pc[p] = "drainCheck" => tgt[p] = cur

\* interpActive is lowered with the program, inflight with the command.
ActiveIsLive == interpActive =>
    \E p \in Producer : pc[p] \notin {"idle", "reserved", "start"}
InflightIsHeld == spc[cur] \in {"select", "got", "exited"} => inflight = FALSE

LEMMA AppendAllowed ==
  ASSUME NEW q \in Seq(Cmd), NEW k \in Cmd, k \notin Barred,
         \A i \in 1 .. Len(q) : q[i] \notin Barred
  PROVE  \A i \in 1 .. Len(Append(q, k)) : Append(q, k)[i] \notin Barred
<1> SUFFICES ASSUME NEW i \in 1 .. Len(Append(q, k))
             PROVE  Append(q, k)[i] \notin Barred
  OBVIOUS
<1>1. Len(q) \in Nat /\ i \in 1 .. Len(q) + 1
  BY AppendProperties
<1> QED  BY <1>1, AppendProperties

LEMMA ThreadContents ==
  ASSUME "seek" \notin Env, TypeOK, Contents, NEW t \in Thread,
         Acquire(t) \/ ThreadStep(t) \/ (t \in Client /\ Request(t))
  PROVE  Contents'
<1> USE DEF Contents, TypeOK, Goto, Begin, Return, Proceed, chans, threads, prods, seqs
<1>0. /\ \A k \in Kinds : k \notin Barred
      /\ "params" \notin Barred /\ "sync" \notin Barred /\ "done" \notin Barred
      /\ "params" \in Cmd
  BY DEF Barred, Cmd, CanonCmd
<1>1. CASE \/ Lock(t) \/ AbortSequencer(t) \/ StopMotion(t) \/ FaultCheck(t)
           \/ WaitRunDone(t) \/ InterpReset(t) \/ StartSequencer(t)
           \/ JoinSequencer(t) \/ CommitTerminal(t)
  <2>1. UNCHANGED <<cmd, queue, emit>>
    BY <1>1 DEF Lock, AbortSequencer, StopMotion, FaultCheck, WaitRunDone, InterpReset,
                StartSequencer, JoinSequencer, CommitTerminal
  <2>2. \A u \in Thread : pc'[u] = "seek" => pc[u] = "seek"
    BY <1>1 DEF Lock, AfterLock, AbortSequencer, StopMotion, FaultCheck, WaitRunDone,
                InterpReset, StartSequencer, JoinSequencer, CommitTerminal
  <2> QED  BY <2>1, <2>2 DEF Thread
<1>2. CASE FlushQueue(t) \/ SpawnSequencer(t)
  <2>1. /\ UNCHANGED <<cmd, emit>>
        /\ \A g \in Gen : queue'[g] \in {queue[g], <<>>}
        /\ pc' \in {[pc EXCEPT ![t] = "stop"], [pc EXCEPT ![t] = "open"],
                    [pc EXCEPT ![t] = "commit"]}
    BY <1>2 DEF FlushQueue, SpawnSequencer
  <2> QED  BY <2>1, EmptySeq DEF Thread
<1>3. CASE t \in Client /\ (Request(t) \/ AbortSigStop(t) \/ PauseMotion(t)
                            \/ ResumeMotion(t) \/ StepWake(t) \/ AbortClobber(t)
                            \/ RunGuard(t) \/ RunOpen(t) \/ RunLaunch(t))
  <2>1. UNCHANGED <<cmd, queue, emit>>
    BY <1>3 DEF Request, Abort, Pause, Resume, Step, Run, AbortSigStop, PauseMotion,
                ResumeMotion, StepWake, AbortClobber, RunGuard, RunOpen, RunLaunch
  <2>2. \A u \in Thread : pc'[u] = "seek" => pc[u] = "seek"
    BY <1>3 DEF Request, Abort, Pause, Resume, Step, Run, AbortSigStop, PauseMotion,
                ResumeMotion, StepWake, AbortClobber, RunGuard, RunOpen, RunLaunch
  <2> QED  BY <2>1, <2>2 DEF Thread
<1>4. CASE t \in Client /\ AbortRestore(t)
  <2>1. /\ UNCHANGED <<cmd, emit>>
        /\ \A g \in Gen : queue'[g] \in {queue[g], Append(queue[g], "params")}
        /\ pc' = [pc EXCEPT ![t] = "idle"]
    BY <1>4 DEF AbortRestore
  <2> QED  BY <1>0, <2>1, AppendAllowed DEF Thread
<1>5. CASE t \in Producer /\ (ProgramStart(t) \/ SeekToLine(t) \/ NextLine(t)
                              \/ DrainSnapshot(t) \/ DrainInflight(t)
                              \/ ProgramSynch(t) \/ FaultProgram(t) \/ ProgramExit(t))
  <2>1. UNCHANGED <<cmd, queue, emit>>
    BY <1>5 DEF ProgramStart, SeekToLine, NextLine, DrainSnapshot, DrainInflight,
                ProgramSynch, FaultProgram, ProgramExit
  <2>2. \A u \in Thread : pc'[u] = "seek" => pc[u] = "seek"
    BY <1>5 DEF ProgramStart, SeekToLine, NextLine, DrainSnapshot, DrainInflight,
                ProgramSynch, FaultProgram, ProgramExit
  <2> QED  BY <2>1, <2>2 DEF Thread
<1>6. CASE t \in Producer /\ (ReadLine(t) \/ ExecuteLine(t))
  <2>1. UNCHANGED <<cmd, queue>>
    BY <1>6 DEF ReadLine, ExecuteLine
  <2>2. CASE \E k \in {"sync", "done"} \cup Kinds :
                \E step \in {"head", "exec", "put", "putSync", "putDone", "faultStop"} :
                    /\ pc' = [pc EXCEPT ![t] = step]
                    /\ emit' = [emit EXCEPT ![t] = k]
    BY <1>0, <2>1, <2>2 DEF Thread
  <2> QED  BY <1>6, <2>2 DEF ReadLine, ExecuteLine
<1>7. CASE t \in Producer /\ EnqueueCmd(t)
  <2>1. /\ cmd' = cmd
        /\ \A p \in Producer : emit'[p] \notin Barred
        /\ \A g \in Gen : queue'[g] \in {queue[g], Append(queue[g], emit[t])}
    BY <1>0, <1>7 DEF EnqueueCmd
  <2>2. \A u \in Thread : pc'[u] = "seek" => pc[u] = "seek"
    BY <1>7 DEF EnqueueCmd, AfterPut
  <2>3. \A g \in Gen : \A i \in 1 .. Len(queue'[g]) : queue'[g][i] \notin Barred
    <3>1. emit[t] \in Cmd /\ emit[t] \notin Barred
      BY <1>7
    <3> QED  BY <2>1, <3>1, AppendAllowed
  <2> QED  BY <2>1, <2>2, <2>3 DEF Thread
<1> QED  BY <1>1, <1>2, <1>3, <1>4, <1>5, <1>6, <1>7 DEF Acquire, ThreadStep

LEMMA SeqContents ==
  ASSUME TypeOK, Contents, NEW s \in Gen, SeqStep(s)
  PROVE  Contents'
<1> USE DEF TypeOK, SeqReturn, SeqGoto, chans, prods
<1>1. emit' = emit /\ \A p \in Producer : pc'[p] # "seek"
  <2>1. UNCHANGED pc \/ \E r \in Recoverer : Begin(r, "recover", "lock")
    BY SeqStarts
  <2>2. \A p \in Producer : pc'[p] # "seek"
    BY <2>1, ConstantsAssumption DEF Begin, Goto, Thread, Contents
  <2> QED  BY <2>2, SeqTakes
<1>2. /\ \/ queue' = queue
         \/ /\ queue[s] # <<>> /\ queue' = [queue EXCEPT ![s] = Tail(@)]
            /\ cmd' = [cmd EXCEPT ![s] = Head(queue[s])]
      /\ \/ queue' # queue
         \/ cmd' = cmd
         \/ cmd' = [cmd EXCEPT ![s] = "done"]
         \/ /\ queue[s] # <<>> /\ cmd' = [cmd EXCEPT ![s] = Head(queue[s])]
  <2>1. CASE SeqCheckPause(s) \/ SeqPaused(s) \/ SeqRefresh(s) \/ SeqSelect(s)
    BY <2>1 DEF SeqCheckPause, SeqPaused, SeqRefresh, SeqSelect
  <2>2. CASE SeqMark(s) \/ SeqWait(s) \/ SeqWaitTPAbort(s) \/ SeqWaitSpace(s)
    BY <2>2 DEF SeqMark, SeqWait, WaitMotionDone, SeqWaitTPAbort, SeqWaitSpace
  <2>3. CASE SeqExecMotion(s) \/ SeqExecOther(s) \/ SeqPost(s) \/ SeqFaultStop(s)
    BY <2>3 DEF SeqExecMotion, SeqExecOther, SeqPost, SeqFaultStop
  <2> QED  BY <2>1, <2>2, <2>3 DEF SeqStep
<1>3. queue[s] # <<>> =>
          /\ Head(queue[s]) \notin Barred
          /\ \A i \in 1 .. Len(Tail(queue[s])) : Tail(queue[s])[i] \notin Barred
  <2> SUFFICES ASSUME queue[s] # <<>>
               PROVE  /\ Head(queue[s]) \notin Barred
                      /\ \A i \in 1 .. Len(Tail(queue[s])) : Tail(queue[s])[i] \notin Barred
    OBVIOUS
  <2>1. /\ queue[s] \in Seq(Cmd) /\ Len(queue[s]) \in Nat
        /\ \A i \in 1 .. Len(queue[s]) : queue[s][i] \notin Barred
    BY DEF Contents
  <2>2. /\ Head(queue[s]) = queue[s][1] /\ Len(queue[s]) # 0
        /\ Len(Tail(queue[s])) = Len(queue[s]) - 1
        /\ \A i \in 1 .. Len(Tail(queue[s])) :
               i + 1 \in 1 .. Len(queue[s]) /\ Tail(queue[s])[i] = queue[s][i + 1]
    BY <2>1, HeadTailProperties, EmptySeq
  <2>3. 1 \in 1 .. Len(queue[s])
    BY <2>1, <2>2
  <2> QED  BY <2>1, <2>2, <2>3
<1>4. "done" \notin Barred
  BY DEF Barred
<1> QED  BY <1>1, <1>2, <1>3, <1>4 DEF Contents

\* A thread that will commit a terminal state, or make way for the run's own
\* program, before the request it serves is over.
Committing(t) == \/ pc[t] = "commit"
                 \/ Restarting(t) /\ ~(op[t] = "run" /\ pc[t] \in Starts)
RunUnderWay == \E c \in Client : op[c] = "run" /\ pc[c] \in Starts

\* A Run reaches the steps past its guard only through it.
LEMMA OwnPlace ==
  ASSUME TypeOK, Served, NEW t \in Thread,
         Acquire(t) \/ ThreadStep(t) \/ (t \in Client /\ Request(t))
  PROVE  /\ pc[t] = "commit" => CommitTerminal(t)
         /\ op'[t] = "run" /\ pc'[t] \in Starts =>
                (op[t] = "run" /\ pc[t] \in Starts) \/ pc[t] = "guard"
<1> USE DEF TypeOK, Goto, Begin, Return, Proceed, Starts, threads
<1>1. CASE \/ Lock(t) \/ AbortSequencer(t) \/ FlushQueue(t) \/ StopMotion(t)
           \/ FaultCheck(t)
  BY <1>1 DEF Lock, AfterLock, AbortSequencer, FlushQueue, StopMotion, FaultCheck
<1>2. CASE WaitRunDone(t) \/ StartSequencer(t) \/ JoinSequencer(t) \/ SpawnSequencer(t)
  BY <1>2 DEF WaitRunDone, StartSequencer, JoinSequencer, SpawnSequencer
<1>3. CASE InterpReset(t)
  <2>1. op[t] # "run"
    BY <1>3, ConstantsAssumption
       DEF InterpReset, Served, Roles, ClientFits, RecovererFits, ProducerFits,
           MonitorFits, ProducerPc, Teardown, Thread
  <2> QED  BY <1>3, <2>1 DEF InterpReset
<1>4. CASE CommitTerminal(t)
  BY <1>4 DEF CommitTerminal
<1>5. CASE t \in Client /\ (Request(t) \/ AbortSigStop(t) \/ PauseMotion(t)
                            \/ ResumeMotion(t) \/ StepWake(t) \/ AbortClobber(t)
                            \/ AbortRestore(t) \/ RunGuard(t))
  BY <1>5 DEF Request, Abort, Pause, Resume, Step, Run, AbortSigStop, PauseMotion,
              ResumeMotion, StepWake, AbortClobber, AbortRestore, RunGuard
<1>6. CASE t \in Client /\ (RunOpen(t) \/ RunLaunch(t))
  <2>1. pc[t] \in {"open", "launch"} /\ op[t] = "run"
    BY <1>6 DEF RunOpen, RunLaunch, Served, Roles, ClientFits, Teardown
  <2> QED  BY <2>1
<1>7. CASE t \in Producer /\ (ProgramStart(t) \/ SeekToLine(t) \/ NextLine(t)
                              \/ ReadLine(t) \/ ExecuteLine(t) \/ EnqueueCmd(t))
  BY <1>7 DEF ProgramStart, SeekToLine, NextLine, ReadLine, ExecuteLine, EnqueueCmd,
              AfterPut
<1>8. CASE t \in Producer /\ (DrainSnapshot(t) \/ DrainInflight(t) \/ ProgramSynch(t)
                              \/ FaultProgram(t) \/ ProgramExit(t))
  BY <1>8 DEF DrainSnapshot, DrainInflight, ProgramSynch, FaultProgram, ProgramExit
<1> QED  BY <1>1, <1>2, <1>3, <1>4, <1>5, <1>6, <1>7, <1>8 DEF Acquire, ThreadStep

\* It gets there, unless the fault it was to recover from was taken care of by
\* a Run that has started a sequencer in the meantime.
LEMMA CommitsOn ==
  ASSUME TypeOK, Served, NEW t \in Thread, ~CommitTerminal(t),
         Acquire(t) \/ ThreadStep(t) \/ (t \in Client /\ Request(t)),
         NEW u \in Thread, Committing(u)
  PROVE  \/ Committing(u)' \/ Committing(t)'
         \/ seqFaulted /\ SpawnSequencer(t) /\ op[t] = "run"
<1>1. u # t => pc'[u] = pc[u] /\ op'[u] = op[u]
  <2>1. pc[u] \notin {"idle", "reserved"}
    BY DEF Committing, Restarting
  <2> QED  BY <2>1, OthersStay
<1>2. CASE SpawnSequencer(t)
  <2>1. /\ pc'[t] = (IF op[t] = "run" THEN "open" ELSE "commit")
        /\ pc[t] = "spawn"
    BY <1>2 DEF SpawnSequencer, Goto, TypeOK
  <2>2. CASE op[t] # "run"
    BY <2>1, <2>2 DEF Committing
  <2>3. CASE op[t] = "run" /\ ~seqFaulted
    <3>1. u # t
      BY <2>1, <2>3 DEF Committing, Starts
    <3> QED  BY <1>1, <2>3, <3>1 DEF Committing, Restarting
  <2> QED  BY <1>2, <2>2, <2>3
<1>3. CASE ~SpawnSequencer(t)
  <2>1. seqFaulted' = seqFaulted
    BY <1>3, ThreadCloses
  <2>2. CASE u # t
    BY <1>1, <2>1, <2>2 DEF Committing, Restarting
  <2>3. CASE u = t
    <3>1. /\ pc[t] # "commit" /\ Restarting(t) /\ ~(op[t] = "run" /\ pc[t] \in Starts)
          /\ pc[t] # "guard"
      BY <2>3, OwnPlace DEF Committing, Restarting
    <3>2. Restarting(t)'
      BY <1>3, <2>1, <3>1, RestartGoesOn
    <3>3. ~(op'[t] = "run" /\ pc'[t] \in Starts)
      BY <3>1, OwnPlace
    <3> QED  BY <3>2, <3>3 DEF Committing
  <2> QED  BY <2>2, <2>3
<1> QED  BY <1>2, <1>3

\* A closed channel is replaced by one or the other.
LEMMA ClosedEnds ==
  ASSUME Served, Provided, cur \in closed
  PROVE  RunUnderWay \/ \E t \in Thread : Committing(t)
<1>1. PICK t \in Thread : Restarting(t)
  BY DEF Provided
<1>2. op[t] = "run" => t \in Client
  BY ConstantsAssumption DEF Served, Roles, RecovererFits, ProducerFits,
                             MonitorFits, Thread
<1> QED  BY <1>1, <1>2 DEF RunUnderWay, Committing

\* A tap cycle takes no pause; where there is one, nothing pauses.
Tapped == IF "tapOn" \in Kinds
          THEN /\ ~stepping /\ ~pauseCh /\ interpState # "Paused"
               /\ spc[cur] \notin {"paused", "stepwait"}
          ELSE ~tapping

\* A pause is taken between two commands, by the sequencer itself, and holds
\* until it is resumed or taken down.
Stepped == spc[cur] = "stepwait" => cmd[cur] = "move"
Pausing == spc[cur] = "paused" => pauseCh
BetweenCommands == pauseCh => spc[cur] \in {"check", "paused", "refresh", "exited"}
PausedHere == interpState = "Paused" =>
    \/ pauseCh /\ spc[cur] # "refresh"
    \/ \E t \in Thread : Committing(t)
IdleUnpaused == interpState = "Idle" /\ pauseCh => TakingDown
RunUnpaused == RunUnderWay => interpState # "Paused" /\ ~pauseCh
CommitUnpaused == \A t \in Thread : pc[t] = "commit" => ~pauseCh

Pauses == /\ Tapped /\ Stepped /\ Pausing /\ BetweenCommands /\ PausedHere
          /\ IdleUnpaused /\ RunUnpaused /\ CommitUnpaused

\* The marker is what the end of a program enqueues.
PutsDone == \A p \in Producer : pc[p] = "putDone" => emit[p] = "done"
Marked == \E i \in 1 .. Len(queue[cur]) : queue[cur][i] = "done"

\* Of the threads only a Run past its guard makes the machine busy, and none
\* makes it wait or pauses it.
LEMMA ThreadReports ==
  ASSUME "pause" \notin Ops, TypeOK, Served, Contents, NEW t \in Thread,
         Acquire(t) \/ ThreadStep(t) \/ (t \in Client /\ Request(t))
  PROVE  /\ execState' = "Waiting" => execState = "Waiting"
         /\ interpState' = "Paused" => interpState = "Paused"
         /\ \/ interpState' = "Idle" \/ interpState # "Idle"
            \/ /\ t \in Client /\ op'[t] = "run" /\ pc'[t] = "life"
               /\ pc[t] = "guard"
         /\ interpState' = "Idle" =>
                \/ interpState = "Idle" \/ CommitTerminal(t)
                \/ t \in Client /\ (AbortClobber(t) \/ RunOpen(t))
         /\ CommitTerminal(t) => interpState' = "Idle" /\ execState' # "Waiting"
         /\ stepping' => stepping \/ "step" \in Ops
         /\ pc'[t] = "life" /\ pc[t] = "guard" =>
                interpState' = "Reading" /\ interpState = "Idle"
         /\ pc'[t] = "commit" => pc[t] = "commit" \/ SpawnSequencer(t)
<1> USE DEF TypeOK, Goto, Begin, Return, Proceed, reported
<1>1. CASE \/ Lock(t) \/ AbortSequencer(t) \/ FlushQueue(t) \/ StopMotion(t)
           \/ FaultCheck(t) \/ WaitRunDone(t) \/ InterpReset(t)
           \/ StartSequencer(t) \/ JoinSequencer(t) \/ SpawnSequencer(t)
  BY <1>1 DEF Lock, AfterLock, AbortSequencer, FlushQueue, StopMotion, FaultCheck,
              WaitRunDone, InterpReset, StartSequencer, JoinSequencer, SpawnSequencer,
              CommitTerminal
<1>2. CASE CommitTerminal(t)
  BY <1>2 DEF CommitTerminal
<1>3. CASE t \in Client /\ RunGuard(t)
  <2>1. op[t] = "run" /\ pc[t] = "guard"
    BY <1>3 DEF RunGuard, Served, Roles, ClientFits, Teardown
  <2>2. t \in Thread /\ t \notin Producer
    BY <1>3, ConstantsAssumption DEF Thread
  <2>3. CASE programBusy
    <3>1. UNCHANGED reported /\ pc'[t] = "idle"
      BY <1>3, <2>2, <2>3 DEF RunGuard
    <3> QED  BY <2>1, <3>1 DEF CommitTerminal
  <2>4. CASE ~programBusy
    <3>1. /\ interpState' = "Reading" /\ interpState = "Idle" /\ execState' = execState
          /\ pc'[t] = "life" /\ op'[t] = "run"
      BY <1>3, <2>1, <2>2, <2>4 DEF RunGuard, programBusy
    <3>2. stepping' => "step" \in Ops
      BY <1>3, <2>4 DEF RunGuard
    <3> QED  BY <1>3, <2>1, <3>1, <3>2 DEF CommitTerminal
  <2> QED  BY <2>3, <2>4
<1>4. CASE t \in Client /\ (Request(t) \/ AbortSigStop(t) \/ PauseMotion(t)
                            \/ ResumeMotion(t) \/ StepWake(t) \/ AbortClobber(t)
                            \/ AbortRestore(t) \/ RunOpen(t) \/ RunLaunch(t))
  <2>1. t \notin Producer
    BY <1>4, ConstantsAssumption DEF Thread
  <2>2. ~(t \in Client /\ Pause(t))
    BY DEF Pause
  <2>3. CASE Request(t) \/ AbortSigStop(t) \/ PauseMotion(t) \/ ResumeMotion(t)
             \/ StepWake(t) \/ AbortClobber(t)
    BY <1>4, <2>2, <2>3 DEF Request, Abort, Resume, Step, Run, AbortSigStop,
                PauseMotion, ResumeMotion, StepWake, AbortClobber, CommitTerminal
  <2>4. CASE AbortRestore(t) \/ RunOpen(t)
    BY <1>4, <2>4 DEF AbortRestore, RunOpen, CommitTerminal
  <2>5. CASE RunLaunch(t)
    <3>1. /\ UNCHANGED reported /\ pc[t] = "launch"
          /\ pc' = [pc EXCEPT ![runDone] = "start", ![t] = "idle"]
      BY <2>5 DEF RunLaunch
    <3>2. pc'[t] \in {"start", "idle"}
      BY <3>1
    <3> QED  BY <3>1, <3>2 DEF CommitTerminal
  <2> QED  BY <1>4, <2>3, <2>4, <2>5
<1>5. CASE t \in Producer /\ (ProgramStart(t) \/ SeekToLine(t) \/ NextLine(t)
                              \/ ReadLine(t) \/ ExecuteLine(t) \/ EnqueueCmd(t))
  <2>1. ~SeekToLine(t)
    BY <1>5 DEF SeekToLine, Contents
  <2> QED  BY <1>5, <2>1 DEF ProgramStart, NextLine, ReadLine, ExecuteLine, EnqueueCmd,
              AfterPut, CommitTerminal
<1>6. CASE t \in Producer /\ (DrainSnapshot(t) \/ DrainInflight(t) \/ ProgramSynch(t)
                              \/ FaultProgram(t) \/ ProgramExit(t))
  BY <1>6 DEF DrainSnapshot, DrainInflight, ProgramSynch, FaultProgram, ProgramExit,
              CommitTerminal
<1> QED  BY <1>1, <1>2, <1>3, <1>4, <1>5, <1>6 DEF Acquire, ThreadStep

\* What the threads leave alone.
LEMMA ThreadLeaves ==
  ASSUME "pause" \notin Ops, TypeOK, NEW t \in Thread,
         Acquire(t) \/ ThreadStep(t) \/ (t \in Client /\ Request(t))
  PROVE  /\ UNCHANGED <<cmd, inflight>>
         /\ SpawnSequencer(t) \/ UNCHANGED <<pauseCh, tapping>>
         /\ t \notin Producer =>
                /\ UNCHANGED <<interpActive, tgt, emit>>
                /\ UNCHANGED mine \/ (t \in Client /\ RunLaunch(t))
<1> USE DEF reported, chans, flags, prods, seqs
<1>1. CASE \/ Lock(t) \/ AbortSequencer(t) \/ FlushQueue(t) \/ StopMotion(t)
           \/ FaultCheck(t) \/ WaitRunDone(t) \/ InterpReset(t)
           \/ StartSequencer(t) \/ JoinSequencer(t) \/ SpawnSequencer(t)
           \/ CommitTerminal(t)
  BY <1>1 DEF Lock, AbortSequencer, FlushQueue, StopMotion, FaultCheck, WaitRunDone,
              InterpReset, StartSequencer, JoinSequencer, SpawnSequencer,
              CommitTerminal, MarkAbort, SendAbort
<1>2. CASE t \in Client /\ (Request(t) \/ AbortSigStop(t) \/ PauseMotion(t)
                            \/ ResumeMotion(t) \/ StepWake(t) \/ AbortClobber(t)
                            \/ AbortRestore(t) \/ RunGuard(t) \/ RunOpen(t)
                            \/ RunLaunch(t))
  BY <1>2 DEF Request, Abort, Pause, Resume, Step, Run, AbortSigStop, PauseMotion,
              ResumeMotion, StepWake, AbortClobber, AbortRestore, RunGuard, RunOpen,
              RunLaunch, MarkAbort, SendAbort
<1>3. CASE t \in Producer /\ (ProgramStart(t) \/ SeekToLine(t) \/ NextLine(t)
                              \/ ReadLine(t) \/ ExecuteLine(t) \/ EnqueueCmd(t)
                              \/ DrainSnapshot(t) \/ DrainInflight(t)
                              \/ ProgramSynch(t) \/ FaultProgram(t) \/ ProgramExit(t))
  BY <1>3 DEF ProgramStart, SeekToLine, NextLine, ReadLine, ExecuteLine, EnqueueCmd,
              DrainSnapshot, DrainInflight, ProgramSynch, FaultProgram, ProgramExit,
              MarkAbort, SendAbort
<1> QED  BY <1>1, <1>2, <1>3 DEF Acquire, ThreadStep

\* An abort takes the sequencer down to the end.
LEMMA TakesDown ==
  ASSUME TypeOK, Served, TakingDown, NEW t \in Thread, t # Monitor, ~SpawnSequencer(t),
         Acquire(t) \/ ThreadStep(t) \/ (t \in Client /\ Request(t))
  PROVE  TakingDown'
<1>1. PICK c \in Client : op[c] = "abort" /\ pc[c] \in TearingDown
  BY DEF TakingDown
<1>2. c \in Thread
  BY DEF Thread
<1>3. CASE c # t
  <2>1. op'[c] = op[c] /\ pc'[c] = pc[c]
    BY <1>1, <1>2, <1>3, OthersStay, ConstantsAssumption DEF TearingDown, Clobbered, Thread
  <2> QED  BY <1>1, <2>1 DEF TakingDown
<1>4. CASE c = t
  <2> USE DEF TypeOK, Goto, TearingDown, Clobbered
  <2>1. \/ AbortSequencer(t) \/ FlushQueue(t) \/ StopMotion(t) \/ WaitRunDone(t)
        \/ InterpReset(t) \/ StartSequencer(t) \/ JoinSequencer(t)
    <3>1. ~(\/ Lock(t) \/ FaultCheck(t) \/ CommitTerminal(t) \/ Request(t)
            \/ AbortSigStop(t) \/ PauseMotion(t) \/ ResumeMotion(t) \/ StepWake(t)
            \/ AbortClobber(t) \/ AbortRestore(t) \/ RunGuard(t) \/ RunOpen(t)
            \/ RunLaunch(t))
      BY <1>1, <1>4 DEF Lock, FaultCheck, CommitTerminal, Request, Abort, Pause, Resume,
         Step, Run, AbortSigStop, PauseMotion, ResumeMotion, StepWake, AbortClobber,
         AbortRestore, RunGuard, RunOpen, RunLaunch
    <3>2. t \notin Producer
      BY <1>4, ConstantsAssumption
    <3> QED  BY <3>1, <3>2 DEF Acquire, ThreadStep
  <2>2. CASE AbortSequencer(t) \/ FlushQueue(t) \/ StopMotion(t)
    BY <1>1, <1>4, <2>2 DEF AbortSequencer, FlushQueue, StopMotion, TakingDown
  <2>3. CASE WaitRunDone(t) \/ InterpReset(t) \/ StartSequencer(t) \/ JoinSequencer(t)
    BY <1>1, <1>4, <2>3 DEF WaitRunDone, InterpReset, StartSequencer, JoinSequencer,
                            TakingDown
  <2> QED  BY <2>1, <2>2, <2>3
<1> QED  BY <1>3, <1>4

\* It is among those that will commit.
LEMMA TakingCommits ==
  ASSUME TakingDown
  PROVE  \E t \in Thread : Committing(t)
<1>1. PICK c \in Client : op[c] = "abort" /\ pc[c] \in TearingDown
  BY DEF TakingDown
<1>2. Committing(c)
  BY <1>1 DEF Committing, Restarting, TearingDown, Clobbered
<1> QED  BY <1>2 DEF Thread

LEMMA GuardStep ==
  ASSUME NEW t \in Client, pc[t] = "guard", Acquire(t) \/ ThreadStep(t) \/ Request(t)
  PROVE  RunGuard(t)
<1>1. t \notin Producer
  BY ConstantsAssumption DEF Thread
<1>2. ~(\/ Lock(t) \/ AbortSequencer(t) \/ FlushQueue(t) \/ StopMotion(t)
        \/ FaultCheck(t) \/ WaitRunDone(t) \/ InterpReset(t) \/ StartSequencer(t)
        \/ JoinSequencer(t) \/ SpawnSequencer(t) \/ CommitTerminal(t))
  BY DEF Lock, AbortSequencer, FlushQueue, StopMotion, FaultCheck, WaitRunDone,
         InterpReset, StartSequencer, JoinSequencer, SpawnSequencer, CommitTerminal
<1>3. ~(\/ Request(t) \/ AbortSigStop(t) \/ PauseMotion(t) \/ ResumeMotion(t)
        \/ StepWake(t) \/ AbortClobber(t) \/ AbortRestore(t) \/ RunOpen(t)
        \/ RunLaunch(t))
  BY DEF Request, Abort, Pause, Resume, Step, Run, AbortSigStop, PauseMotion,
         ResumeMotion, StepWake, AbortClobber, AbortRestore, RunOpen, RunLaunch
<1> QED  BY <1>1, <1>2, <1>3 DEF Acquire, ThreadStep

\* The sequencer's steps leave the threads alone, but for the recoverer that a
\* fault starts.
LEMMA SeqThreads ==
  ASSUME TypeOK, NEW s \in Gen, SeqStep(s)
  PROVE  /\ \A c \in Client : c \in Thread /\ pc'[c] = pc[c] /\ op'[c] = op[c]
         /\ \A p \in Producer : p \in Thread /\ pc'[p] = pc[p] /\ op'[p] = op[p]
         /\ \A t \in Thread : pc'[t] = "commit" => pc[t] = "commit"
         /\ \A t \in Thread : Committing(t) => Committing(t)'
<1>1. /\ Client \subseteq Thread /\ Producer \subseteq Thread
      /\ Client \cap Recoverer = {} /\ Recoverer \cap Producer = {}
  BY ConstantsAssumption DEF Thread
<1>2. \A u \in Thread : \/ pc'[u] = pc[u] /\ op'[u] = op[u]
                        \/ u \in Recoverer /\ pc[u] = "idle" /\ pc'[u] = "lock"
  <2>1. CASE UNCHANGED <<pc, op>>
    BY <2>1
  <2>2. CASE \E r \in Recoverer : pc[r] = "idle" /\ Begin(r, "recover", "lock")
    BY <2>2 DEF Begin, Goto, TypeOK
  <2> QED  BY <2>1, <2>2, SeqStarts
<1>3. UNCHANGED seqFaulted \/ seqFaulted'
  BY SeqEnds
<1>4. ASSUME NEW u \in Thread, Committing(u)  PROVE Committing(u)'
  <2>1. pc'[u] = pc[u] /\ op'[u] = op[u]
    BY <1>2, <1>4 DEF Committing, Restarting
  <2> QED  BY <1>3, <1>4, <2>1 DEF Committing, Restarting
<1>5. \A c \in Client : pc'[c] = pc[c] /\ op'[c] = op[c]
  BY <1>1, <1>2
<1>6. \A p \in Producer : pc'[p] = pc[p] /\ op'[p] = op[p]
  BY <1>1, <1>2
<1> QED  BY <1>1, <1>2, <1>4, <1>5, <1>6

LEMMA ThreadHolds ==
  ASSUME NobodyPauses, TypeOK, Served, Contents, Pauses,
         NEW t \in Thread, t # Monitor, ~SpawnSequencer(t),
         Acquire(t) \/ ThreadStep(t) \/ (t \in Client /\ Request(t))
  PROVE  Pauses'
<1>1. UNCHANGED <<cur, spc, cmd, seqFaulted, pauseCh, tapping>>
  <2>1. UNCHANGED <<cmd, pauseCh, tapping>>
    BY ThreadLeaves DEF NobodyPauses
  <2> QED  BY <2>1, ThreadCloses
<1>2. /\ interpState' = "Paused" => interpState = "Paused"
      /\ interpState' = "Idle" =>
             \/ interpState = "Idle" \/ CommitTerminal(t)
             \/ t \in Client /\ (AbortClobber(t) \/ RunOpen(t))
      /\ CommitTerminal(t) => interpState' = "Idle"
      /\ stepping' => stepping \/ "step" \in Ops
      /\ pc'[t] = "life" /\ pc[t] = "guard" =>
             interpState' = "Reading" /\ interpState = "Idle"
      /\ pc'[t] = "commit" => pc[t] = "commit" \/ SpawnSequencer(t)
  BY ThreadReports DEF NobodyPauses
<1>3. \A u \in Thread : u # t => op'[u] = op[u] /\ (pc'[u] = pc[u]
          \/ (u \in Producer /\ pc'[u] \in {"idle", "reserved", "start"}))
  BY OthersStay
<1>4. /\ Client \subseteq Thread /\ Client \cap Producer = {}
      /\ Client \subseteq Agent
  BY ConstantsAssumption DEF Thread, Agent
<1>5. Tapped'
  <2>1. CASE "tapOn" \in Kinds
    <3>1. ~stepping /\ ~stepping'
      BY <1>2, <2>1 DEF Pauses, Tapped, NobodyPauses
    <3> QED  BY <1>1, <1>2, <2>1, <3>1 DEF Pauses, Tapped
  <2>2. CASE "tapOn" \notin Kinds
    BY <1>1, <2>2 DEF Pauses, Tapped
  <2> QED  BY <2>1, <2>2
<1>6. Stepped' /\ Pausing' /\ BetweenCommands'
  BY <1>1 DEF Pauses, Stepped, Pausing, BetweenCommands
<1>7. PausedHere'
  <2> SUFFICES ASSUME interpState' = "Paused", NEW u \in Thread, Committing(u)
               PROVE  \E v \in Thread : Committing(v)'
    BY <1>1, <1>2 DEF Pauses, PausedHere
  <2> QED  BY <1>2, CommitsOn
<1>8. IdleUnpaused'
  <2> SUFFICES ASSUME interpState' = "Idle", pauseCh  PROVE TakingDown'
    BY <1>1 DEF IdleUnpaused
  <2>1. CASE interpState = "Idle"
    BY <2>1, TakesDown DEF Pauses, IdleUnpaused
  <2>2. ~CommitTerminal(t)
    BY DEF CommitTerminal, Pauses, CommitUnpaused
  <2>3. CASE t \in Client /\ AbortClobber(t)
    <3>1. op[t] = "abort"
      BY <2>3 DEF AbortClobber, Served, Roles, ClientFits, Starts, Teardown
    <3>2. pc'[t] = "close" /\ op' = op
      BY <2>3 DEF AbortClobber, Goto, TypeOK
    <3> QED  BY <2>3, <3>1, <3>2 DEF TakingDown, TearingDown, Clobbered
  <2>4. ~(t \in Client /\ RunOpen(t))
    <3>1. ASSUME t \in Client, RunOpen(t)  PROVE FALSE
      <4>1. op[t] = "run" /\ pc[t] \in Starts
        BY <3>1 DEF RunOpen, Served, Roles, ClientFits, Teardown, Starts
      <4> QED  BY <3>1, <4>1 DEF Pauses, RunUnpaused, RunUnderWay
    <3> QED  BY <3>1
  <2> QED  BY <1>2, <2>1, <2>2, <2>3, <2>4
<1>9. RunUnpaused'
  <2> SUFFICES ASSUME NEW c \in Client, op'[c] = "run", pc'[c] \in Starts
               PROVE  interpState' # "Paused" /\ ~pauseCh
    BY <1>1 DEF RunUnpaused, RunUnderWay
  <2>1. CASE op[c] = "run" /\ pc[c] \in Starts
    BY <1>2, <2>1 DEF Pauses, RunUnpaused, RunUnderWay
  <2>2. CASE ~(op[c] = "run" /\ pc[c] \in Starts)
    <3>1. c = t
      BY <1>3, <1>4, <2>2
    <3>2. pc[t] = "guard"
      BY <2>2, <3>1, OwnPlace
    <3>3. pc'[t] = "life" /\ pc[t] = "guard"
      <4>1. RunGuard(t)
        BY <3>1, <3>2, GuardStep
      <4>2. t \in Thread /\ t \notin Producer
        BY <1>4, <3>1
      <4>3. pc'[t] \in {"idle", "life"}
        BY <4>1, <4>2 DEF RunGuard, Return, Goto, TypeOK
      <4> QED  BY <3>1, <3>2, <4>3 DEF Starts
    <3>4. ~TakingDown
      <4> SUFFICES ASSUME NEW d \in Client, op[d] = "abort", pc[d] \in TearingDown
                   PROVE  FALSE
        BY DEF TakingDown
      <4>1. d # t /\ pc[d] \in Serving /\ pc[t] \in Serving
        BY <3>2 DEF TearingDown, Clobbered, Serving
      <4> QED  BY <1>4, <3>1, <4>1, OneServes
    <3> QED  BY <1>2, <3>3, <3>4 DEF Pauses, IdleUnpaused
  <2> QED  BY <2>1, <2>2
<1>10. CommitUnpaused'
  <2> SUFFICES ASSUME NEW u \in Thread, pc'[u] = "commit"  PROVE ~pauseCh
    BY <1>1 DEF CommitUnpaused
  <2>1. pc[u] = "commit"
    BY <1>2, <1>3
  <2> QED  BY <2>1 DEF Pauses, CommitUnpaused
<1> QED  BY <1>5, <1>6, <1>7, <1>8, <1>9, <1>10 DEF Pauses

LEMMA SpawnHolds ==
  ASSUME TypeOK, Served, Pauses, NEW t \in Thread, t # Monitor, SpawnSequencer(t)
  PROVE  Pauses'
<1>1. /\ pc'[t] = (IF op[t] = "run" THEN "open" ELSE "commit") /\ op' = op
      /\ \A u \in Thread : u # t => pc'[u] = pc[u]
      /\ UNCHANGED <<interpState, stepping>>
      /\ spc'[cur'] = "check" /\ pauseCh' = FALSE /\ tapping' = FALSE /\ pc[t] = "spawn"
  <2>1. spc'[cur'] = "check"
    BY DEF SpawnSequencer, Unused, TypeOK
  <2>2. /\ pc' = [pc EXCEPT ![t] = IF op[t] = "run" THEN "open" ELSE "commit"]
        /\ UNCHANGED <<interpState, stepping, op>>
        /\ pauseCh' = FALSE /\ tapping' = FALSE /\ pc[t] = "spawn"
    BY DEF SpawnSequencer, Goto, reported
  <2> QED  BY <2>1, <2>2 DEF TypeOK
<1>2. op[t] = "run" => t \in Client
  BY ConstantsAssumption DEF Served, Roles, RecovererFits, ProducerFits,
                             MonitorFits, Thread
<1>3. /\ op[t] # "run" => Committing(t)'
      /\ op[t] = "run" => RunUnderWay
  BY <1>1, <1>2 DEF Committing, RunUnderWay, Starts
<1>4. Tapped' /\ Stepped' /\ Pausing' /\ BetweenCommands' /\ IdleUnpaused' /\ CommitUnpaused'
  BY <1>1 DEF Pauses, Tapped, Stepped, Pausing, BetweenCommands, IdleUnpaused,
              CommitUnpaused
<1>5. PausedHere'
  BY <1>1, <1>3 DEF Pauses, PausedHere, RunUnpaused
<1>6. RunUnpaused'
  <2>1. RunUnderWay' => RunUnderWay
    BY <1>1, <1>3 DEF RunUnderWay, Starts, Thread
  <2> QED  BY <1>1, <2>1 DEF Pauses, RunUnpaused
<1> QED  BY <1>4, <1>5, <1>6 DEF Pauses

\* A sequencer's step and the pause.
LEMMA SeqHolds ==
  ASSUME NobodyPauses, TypeOK, Contents, Tapped, Stepped, Pausing, BetweenCommands,
         SeqStep(cur)
  PROVE  /\ cur' = cur
         /\ Tapped' /\ Stepped' /\ Pausing' /\ BetweenCommands'
         /\ interpState' = "Paused" =>
                \/ pauseCh' /\ spc'[cur] # "refresh"
                \/ interpState = "Paused" /\ (pauseCh => spc[cur] = "refresh")
         /\ interpState' = "Idle" /\ pauseCh' => interpState = "Idle" /\ pauseCh
         /\ (Calm \/ Dead) /\ ~pauseCh =>
                ~pauseCh' /\ (interpState' = "Paused" => interpState = "Paused")
<1> USE DEF TypeOK, Stepped, Pausing, BetweenCommands, SeqReturn, SeqGoto, reported,
            chans, flags
<1>0. /\ "m0" \notin Kinds => cmd[cur] # "m0"
      /\ "tapOn" \notin Kinds => cmd[cur] # "tapOn"
      /\ "tapOn" \in Kinds => "m0" \notin Kinds
      /\ Calm \/ Dead => spc[cur] \notin {"pre", "wait", "stepwait"}
      /\ (Calm \/ Dead) /\ spc[cur] \in {"exec", "post"} => cmd[cur] = "params"
  BY DEF Contents, Barred, NobodyPauses, Calm, Dead, Waiting
<1>1. CASE SeqCheckPause(cur)
  BY <1>1 DEF SeqCheckPause, Tapped
<1>2. CASE SeqPaused(cur)
  BY <1>2 DEF SeqPaused, Tapped
<1>3. CASE SeqRefresh(cur)
  BY <1>3 DEF SeqRefresh, Tapped
<1>4. CASE SeqSelect(cur) \/ SeqMark(cur) \/ SeqWaitTPAbort(cur) \/ SeqWaitSpace(cur)
  BY <1>4 DEF SeqSelect, SeqMark, SeqWaitTPAbort, SeqWaitSpace, Tapped
<1>5. CASE SeqWait(cur)
  BY <1>0, <1>5 DEF SeqWait, WaitMotionDone, SeqFault, Tapped
<1>6. CASE SeqExecMotion(cur)
  BY <1>6 DEF SeqExecMotion, SeqFault, Tapped
<1>7. CASE SeqExecOther(cur)
  BY <1>0, <1>7 DEF SeqExecOther, SeqFault, Tapped
<1>8. CASE SeqPost(cur)
  BY <1>0, <1>8 DEF SeqPost, Tapped
<1>9. CASE SeqFaultStop(cur)
  BY <1>9 DEF SeqFaultStop, MarkAbort, SendAbort, Tapped
<1> QED  BY <1>1, <1>2, <1>3, <1>4, <1>5, <1>6, <1>7, <1>8, <1>9 DEF SeqStep

LEMMA StepHolds ==
  ASSUME NobodyPauses, TypeOK, Served, Contents, ProgramInv, Pauses, SeqStep(cur)
  PROVE  Pauses'
<1>1. /\ cur' = cur
      /\ Tapped' /\ Stepped' /\ Pausing' /\ BetweenCommands'
      /\ interpState' = "Paused" =>
             \/ pauseCh' /\ spc'[cur] # "refresh"
             \/ interpState = "Paused" /\ (pauseCh => spc[cur] = "refresh")
      /\ interpState' = "Idle" /\ pauseCh' => interpState = "Idle" /\ pauseCh
      /\ (Calm \/ Dead) /\ ~pauseCh =>
             ~pauseCh' /\ (interpState' = "Paused" => interpState = "Paused")
  BY SeqHolds DEF Pauses
<1>2. /\ \A c \in Client : c \in Thread /\ pc'[c] = pc[c] /\ op'[c] = op[c]
      /\ \A t \in Thread : pc'[t] = "commit" => pc[t] = "commit"
      /\ \A t \in Thread : Committing(t) => Committing(t)'
  <2>1. cur \in Gen
    BY DEF TypeOK
  <2> QED  BY <2>1, SeqThreads
<1>3. PausedHere'
  BY <1>1, <1>2 DEF Pauses, PausedHere
<1>4. IdleUnpaused'
  BY <1>1, <1>2 DEF Pauses, IdleUnpaused, TakingDown
<1>5. RunUnpaused'
  <2> SUFFICES ASSUME NEW c \in Client, op[c] = "run", pc[c] \in Starts
               PROVE  interpState' # "Paused" /\ ~pauseCh'
    BY <1>2 DEF RunUnpaused, RunUnderWay
  <2> QED  BY <1>1 DEF Pauses, RunUnpaused, RunUnderWay, ProgramInv, RunSlot
<1>6. CommitUnpaused'
  <2> SUFFICES ASSUME NEW t \in Thread, pc[t] = "commit"  PROVE ~pauseCh'
    BY <1>2 DEF CommitUnpaused
  <2>1. ~pauseCh /\ Fresh
    BY DEF Pauses, CommitUnpaused, ProgramInv, Begun, Before
  <2>2. Calm \/ Dead
    BY <2>1, EmptySeq DEF Fresh, Calm, Dead
  <2> QED  BY <1>1, <2>1, <2>2
<1> QED  BY <1>1, <1>3, <1>4, <1>5, <1>6 DEF Pauses

\* A marker in the queue goes only with the queue.
LEMMA ThreadMarks ==
  ASSUME TypeOK, Marked, NEW t \in Thread, ~SpawnSequencer(t), ~FlushQueue(t),
         Acquire(t) \/ ThreadStep(t) \/ (t \in Client /\ Request(t))
  PROVE  Marked'
<1>1. UNCHANGED <<cur, spc, seqFaulted>>
  BY ThreadCloses
<1>2. /\ cur \in Gen /\ queue[cur] \in Seq(Cmd) /\ Len(queue[cur]) \in Nat
      /\ emit \in [Producer -> Cmd] /\ "params" \in Cmd /\ queue \in [Gen -> Seq(Cmd)]
  BY DEF TypeOK, Cmd, CanonCmd
<1>3. UNCHANGED queue
      \/ \E k \in Cmd : \E g \in Gen : queue' = [queue EXCEPT ![g] = Append(@, k)]
  <2> USE DEF chans
  <2>1. CASE \/ Lock(t) \/ AbortSequencer(t) \/ StopMotion(t) \/ FaultCheck(t)
             \/ WaitRunDone(t) \/ InterpReset(t) \/ StartSequencer(t)
             \/ JoinSequencer(t) \/ CommitTerminal(t)
    BY <2>1 DEF Lock, AbortSequencer, StopMotion, FaultCheck, WaitRunDone, InterpReset,
                StartSequencer, JoinSequencer, CommitTerminal
  <2>2. CASE t \in Client /\ (Request(t) \/ AbortSigStop(t) \/ PauseMotion(t)
                              \/ ResumeMotion(t) \/ StepWake(t) \/ AbortClobber(t)
                              \/ RunGuard(t) \/ RunOpen(t) \/ RunLaunch(t))
    BY <2>2 DEF Request, Abort, Pause, Resume, Step, Run, AbortSigStop, PauseMotion,
                ResumeMotion, StepWake, AbortClobber, RunGuard, RunOpen, RunLaunch
  <2>3. CASE t \in Client /\ AbortRestore(t)
    BY <1>2, <2>3 DEF AbortRestore
  <2>4. CASE t \in Producer /\ (ProgramStart(t) \/ SeekToLine(t) \/ NextLine(t)
                                \/ ReadLine(t) \/ ExecuteLine(t))
    BY <2>4 DEF ProgramStart, SeekToLine, NextLine, ReadLine, ExecuteLine
  <2>5. CASE t \in Producer /\ EnqueueCmd(t)
    <3>1. CASE UNCHANGED queue
      BY <3>1
    <3>2. CASE queue' = [queue EXCEPT ![tgt[t]] = Append(@, emit[t])] /\ tgt[t] \in Gen
      BY <1>2, <2>5, <3>2
    <3>3. CASE queue' = [queue EXCEPT ![tgt[t]] = Append(@, emit[t])] /\ tgt[t] \notin Gen
      <4>1. queue' = queue
        BY <1>2, <3>3
      <4> QED  BY <4>1
    <3> QED  BY <2>5, <3>1, <3>2, <3>3 DEF EnqueueCmd
  <2>6. CASE t \in Producer /\ (DrainSnapshot(t) \/ DrainInflight(t) \/ ProgramSynch(t)
                                \/ FaultProgram(t) \/ ProgramExit(t))
    BY <2>6 DEF DrainSnapshot, DrainInflight, ProgramSynch, FaultProgram, ProgramExit
  <2> QED  BY <2>1, <2>2, <2>3, <2>4, <2>5, <2>6 DEF Acquire, ThreadStep
<1>4. CASE UNCHANGED queue
  BY <1>1, <1>4 DEF Marked
<1>5. ASSUME NEW k \in Cmd, NEW g \in Gen, queue' = [queue EXCEPT ![g] = Append(@, k)]
      PROVE  Marked'
  <2>1. PICK i \in 1 .. Len(queue[cur]) : queue[cur][i] = "done"
    BY DEF Marked
  <2>2. queue'[cur] = queue[cur] \/ queue'[cur] = Append(queue[cur], k)
    BY <1>2, <1>5
  <2>3. i \in 1 .. Len(queue'[cur]) /\ queue'[cur][i] = "done"
    BY <1>2, <2>1, <2>2, AppendProperties
  <2> QED  BY <1>1, <2>3 DEF Marked
<1> QED  BY <1>3, <1>4, <1>5

\* Beside a thread that replaces the generation no program sends to it, but the
\* one that does so for its own fault.
LEMMA SpawnAlone ==
  ASSUME Served, ProgramInv, NEW t \in Thread, t # Monitor, SpawnSequencer(t),
         NEW p \in Producer, Live(p)
  PROVE  p = t /\ op[p] = "fault"
<1>1. Producer \subseteq Thread /\ Thread = Agent \cup Producer \cup {Monitor}
  BY DEF Thread, Agent
<1>2. pc[t] = "spawn"
  BY DEF SpawnSequencer
<1>3. t \notin Agent
  BY <1>2, NoneLive DEF Starts, Past
<1>4. t \in Producer /\ op[t] = "fault"
  BY <1>1, <1>2, <1>3 DEF Served, Roles, ProducerFits, ProducerPc
<1> QED  BY <1>2, <1>4 DEF ProgramInv, One, Live

\* What a program does before its end, and what ends it.
LEMMA ProgramGoesOn ==
  ASSUME NobodyPauses, TypeOK, Served, Contents, ProgramInv, Mine, PutsDone,
         NEW t \in Producer, Acquire(t) \/ ThreadStep(t)
  PROVE  /\ \/ pc'[t] \notin {"idle", "reserved", "start", "exit"}
            \/ pc[t] = "exit" /\ pc'[t] = "idle" /\ interpActive' = FALSE
            \/ CommitTerminal(t) /\ pc'[t] = "exit"
            \/ pc'[t] = "exit" /\ cur \in closed /\ ~SpawnSequencer(t)
            \/ pc'[t] = "exit" /\ Marked' /\ ~SpawnSequencer(t)
         /\ pc'[t] = "putDone" => emit'[t] = "done"
         /\ pc'[t] = "drainCheck" => tgt'[t] = cur /\ op'[t] = op[t]
         /\ \A p \in Producer : p # t => emit'[p] = emit[p] /\ tgt'[p] = tgt[p]
                                         /\ mine'[p] = mine[p]
         /\ mine'[t] = mine[t] \/ pc'[t] = "idle"
         /\ op'[t] = "none" => op[t] = "none" \/ pc'[t] = "exit"
         /\ pc'[t] \notin {"exit", "idle"} =>
                pc[t] \notin {"idle", "reserved", "exit"}
<1> USE DEF TypeOK, Goto, Begin, Proceed, chans, prods, threads, reported
<1>1. t \in Thread /\ ProducerFits(op[t], pc[t])
  BY DEF Thread, Served, Roles
<1>0. pc[t] # "spawn" => ~SpawnSequencer(t)
  BY DEF SpawnSequencer
<1>2. CASE Acquire(t) \/ JoinSequencer(t) \/ SpawnSequencer(t) \/ InterpReset(t)
  BY <1>1, <1>2 DEF Acquire, Lock, StartSequencer, JoinSequencer, SpawnSequencer,
                    InterpReset, AfterLock
<1>3. CASE CommitTerminal(t)
  <2>1. op[t] = "fault"
    BY <1>1, <1>3 DEF CommitTerminal, ProducerFits, ProducerPc
  <2> QED  BY <1>1, <1>3, <2>1 DEF CommitTerminal
<1>4. CASE ProgramStart(t) \/ ReadLine(t) \/ ExecuteLine(t) \/ ProgramSynch(t)
           \/ FaultProgram(t)
  BY <1>1, <1>4 DEF ProgramStart, ReadLine, ExecuteLine, ProgramSynch, FaultProgram,
                    NobodyPauses
<1>5. CASE SeekToLine(t)
  BY <1>5 DEF SeekToLine, Contents
<1>6. CASE NextLine(t)
  <2>1. op[t] = "none" /\ mine[t] = cur
    BY <1>1, <1>6 DEF NextLine, ProducerFits, Teardown, Mine, Live
  <2> QED  BY <1>0, <1>1, <1>6, <2>1 DEF NextLine
<1>7. CASE EnqueueCmd(t)
  <2>1. /\ tgt[t] = cur /\ (pc[t] = "putDone" => emit[t] = "done")
        /\ pc[t] \in {"put", "putSync", "putDone"}
    BY <1>7 DEF EnqueueCmd, ProgramInv, Target, PutsDone
  <2>2. /\ pc'[t] = AfterPut(pc[t]) /\ emit'[t] = "done" /\ mine' = mine /\ op' = op
        /\ cur' = cur
        /\ \A p \in Producer : p # t => emit'[p] = emit[p] /\ tgt'[p] = tgt[p]
    <3>1. AfterPut(pc[t]) \notin {"putSync", "putDone"}
      BY DEF AfterPut
    <3> QED  BY <1>1, <1>7, <3>1 DEF EnqueueCmd
  <2>3. CASE tgt[t] \in closed
    BY <1>0, <1>1, <2>1, <2>2, <2>3 DEF AfterPut
  <2>4. CASE queue' = [queue EXCEPT ![cur] = Append(@, emit[t])]
    <3>1. queue[cur] \in Seq(Cmd) /\ emit[t] \in Cmd /\ Len(queue[cur]) \in Nat
          /\ queue'[cur] = Append(queue[cur], emit[t])
      BY <2>4
    <3>2. /\ Len(queue'[cur]) = Len(queue[cur]) + 1
          /\ queue'[cur][Len(queue[cur]) + 1] = emit[t]
      BY <3>1, AppendProperties
    <3>3. Len(queue[cur]) + 1 \in 1 .. Len(queue'[cur])
      BY <3>1, <3>2
    <3>4. emit[t] = "done" => Marked'
      BY <2>2, <3>2, <3>3 DEF Marked
    <3> QED  BY <1>0, <1>1, <2>1, <2>2, <3>4 DEF AfterPut
  <2> QED  BY <1>7, <2>1, <2>3, <2>4 DEF EnqueueCmd
<1>8. CASE DrainSnapshot(t)
  <2>1. /\ UNCHANGED <<emit, mine, op>> /\ pc[t] = "drain"
        /\ \A p \in Producer : p # t => tgt'[p] = tgt[p]
    BY <1>8 DEF DrainSnapshot
  <2>2. \/ pc'[t] = "drainCheck" /\ tgt'[t] = cur
        \/ pc'[t] = "exit" /\ cur \in closed
    BY <1>1, <1>8 DEF DrainSnapshot
  <2> QED  BY <1>0, <2>1, <2>2
<1>9. CASE DrainInflight(t)
  <2>1. tgt[t] = cur
    BY <1>9 DEF DrainInflight, Mine
  <2>2. /\ UNCHANGED <<emit, mine, op>> /\ pc[t] = "drainCheck"
        /\ \A p \in Producer : p # t => tgt'[p] = tgt[p]
        /\ pc'[t] \in {"synch", "drain"} \/ (pc'[t] = "exit" /\ cur \in closed)
    BY <1>1, <1>9, <2>1 DEF DrainInflight
  <2> QED  BY <1>0, <2>2
<1>10. CASE ProgramExit(t)
  BY <1>1, <1>10 DEF ProgramExit
<1>11. CASE \/ AbortSequencer(t) \/ FlushQueue(t) \/ StopMotion(t) \/ FaultCheck(t)
            \/ WaitRunDone(t)
  BY <1>1, <1>11 DEF AbortSequencer, FlushQueue, StopMotion, FaultCheck, WaitRunDone,
                     ProducerFits, ProducerPc, Teardown
<1> QED  BY <1>2, <1>3, <1>4, <1>5, <1>6, <1>7, <1>8, <1>9, <1>10, <1>11,
            ConstantsAssumption DEF ThreadStep

\* A program that is reported has something left that ends it: itself, its
\* marker, the Run it is part of, or the teardown that takes it down.
Terminates == interpState # "Idle" =>
    \/ \E p \in Producer : Live(p) /\ pc[p] # "exit"
    \/ Marked
    \/ spc[cur] \in InHand /\ cmd[cur] = "done"
    \/ RunUnderWay
    \/ \E t \in Thread : Committing(t)

\* A machine that is reported to wait does, or is being taken down.
WaitsFor == execState = "Waiting" =>
    \/ spc[cur] \in {"pre", "wait", "stepwait"}
    \/ \E t \in Thread : Committing(t)
FaultNotWaiting == seqFaulted => execState # "Waiting"

Rest == /\ Terminates /\ WaitsFor /\ FaultNotWaiting
        /\ ActiveIsLive /\ InflightIsHeld /\ Mine /\ PutsDone

LEMMA SpawnRests ==
  ASSUME NobodyPauses, TypeOK, Served, ProgramInv, Rest,
         NEW t \in Thread, t # Monitor, SpawnSequencer(t)
  PROVE  Rest'
<1>1. /\ pc'[t] = (IF op[t] = "run" THEN "open" ELSE "commit") /\ op' = op
      /\ \A u \in Thread : u # t => pc'[u] = pc[u]
      /\ UNCHANGED <<interpState, execState, interpActive, mine, tgt, emit>>
      /\ spc'[cur'] = "check" /\ seqFaulted' = FALSE /\ pc[t] = "spawn"
  <2>1. spc'[cur'] = "check"
    BY DEF SpawnSequencer, Unused, TypeOK
  <2>2. /\ pc' = [pc EXCEPT ![t] = IF op[t] = "run" THEN "open" ELSE "commit"]
        /\ UNCHANGED <<interpState, execState, interpActive, mine, tgt, emit, op>>
        /\ seqFaulted' = FALSE /\ pc[t] = "spawn"
    BY DEF SpawnSequencer, Goto, reported, prods
  <2> QED  BY <2>1, <2>2 DEF TypeOK
<1>2. op[t] = "run" => t \in Client
  BY ConstantsAssumption DEF Served, Roles, RecovererFits, ProducerFits,
                             MonitorFits, Thread
<1>3. op[t] # "run" => Committing(t)'
  BY <1>1 DEF Committing
<1>4. op[t] = "run" => RunUnderWay'
  BY <1>1, <1>2 DEF RunUnderWay, Starts
<1>5. Terminates' /\ FaultNotWaiting' /\ InflightIsHeld'
  BY <1>1, <1>3, <1>4 DEF Terminates, FaultNotWaiting, InflightIsHeld
<1>6. WaitsFor'
  <2> SUFFICES ASSUME execState = "Waiting", op[t] = "run"
               PROVE  \E u \in Thread : Committing(u)'
    BY <1>1, <1>3 DEF WaitsFor
  <2>1. Calm \/ Dead
    BY <1>1, <1>2 DEF ProgramInv, RunSlot, Starts
  <2>2. PICK u \in Thread : Committing(u)
    BY <2>1 DEF Rest, WaitsFor, Calm, Dead, Waiting
  <2>3. ~seqFaulted /\ u # t
    BY <1>1, <2>2 DEF Rest, FaultNotWaiting, Committing, Starts
  <2> QED  BY <1>1, <2>2, <2>3 DEF Committing, Restarting
<1>7. \A p \in Producer : Live(p) => p = t /\ op[p] = "fault"
  BY SpawnAlone
<1>8. /\ Producer \subseteq Thread
      /\ \A p \in Producer : p # t => ~Live(p)'
  BY <1>1, <1>7 DEF Thread, Live
<1>9. Mine' /\ PutsDone'
  BY <1>1, <1>7, <1>8 DEF Mine, PutsDone, Live
<1>10. ActiveIsLive'
  <2> SUFFICES ASSUME interpActive
               PROVE  \E p \in Producer : pc'[p] \notin {"idle", "reserved", "start"}
    BY <1>1 DEF ActiveIsLive
  <2>1. PICK p \in Producer : pc[p] \notin {"idle", "reserved", "start"}
    BY DEF Rest, ActiveIsLive
  <2>2. p = t
    BY <1>7, <2>1 DEF Live
  <2> QED  BY <1>1, <2>1, <2>2
<1> QED  BY <1>5, <1>6, <1>9, <1>10 DEF Rest

\* A Run past its guard goes on to open the file and launch the program.
LEMMA RunGoesOn ==
  ASSUME TypeOK, Served, NEW c \in Client, op[c] = "run", pc[c] \in Starts,
         Acquire(c) \/ ThreadStep(c) \/ Request(c)
  PROVE  \/ op'[c] = "run" /\ pc'[c] \in Starts
         \/ interpState' = "Idle" /\ "openFails" \in Env
         \/ RunLaunch(c)
<1> USE DEF TypeOK, Goto, Begin, Return, Starts
<1>1. c \in Thread /\ c \notin Producer
  BY ConstantsAssumption DEF Thread
<1>2. CASE \/ StartSequencer(c) \/ JoinSequencer(c) \/ SpawnSequencer(c) \/ RunOpen(c)
  BY <1>1, <1>2 DEF StartSequencer, JoinSequencer, SpawnSequencer, RunOpen
<1>3. ~(\/ Lock(c) \/ AbortSequencer(c) \/ FlushQueue(c) \/ StopMotion(c)
        \/ FaultCheck(c) \/ WaitRunDone(c) \/ InterpReset(c) \/ CommitTerminal(c)
        \/ Request(c) \/ AbortSigStop(c) \/ PauseMotion(c) \/ ResumeMotion(c)
        \/ StepWake(c) \/ AbortClobber(c) \/ AbortRestore(c) \/ RunGuard(c))
  BY DEF Lock, AbortSequencer, FlushQueue, StopMotion, FaultCheck, WaitRunDone,
         InterpReset, CommitTerminal, Request, Abort, Pause, Resume, Step, Run,
         AbortSigStop, PauseMotion, ResumeMotion, StepWake, AbortClobber,
         AbortRestore, RunGuard
<1> QED  BY <1>1, <1>2, <1>3 DEF Acquire, ThreadStep

\* The other steps of the threads.
LEMMA ThreadRests ==
  ASSUME NobodyPauses, TypeOK, Served, Provided, Contents, ProgramInv, Rest,
         NEW t \in Thread, t # Monitor, ~SpawnSequencer(t),
         Acquire(t) \/ ThreadStep(t) \/ (t \in Client /\ Request(t))
  PROVE  Rest'
<1>1. /\ UNCHANGED <<cur, spc, cmd, seqFaulted, inflight>>
      /\ closed' = closed \/ (closed' = closed \cup {cur} /\ Restarting(t)')
  <2>1. UNCHANGED <<cmd, inflight>>
    BY ThreadLeaves DEF NobodyPauses
  <2> QED  BY <2>1, ThreadCloses
<1>2. \A u \in Thread : u # t =>
          /\ op'[u] = op[u]
          /\ \/ pc'[u] = pc[u]
             \/ /\ u \in Producer /\ pc[u] \in {"idle", "reserved"}
                /\ pc'[u] \in {"idle", "reserved", "start"}
                /\ t \in Client /\ (RunGuard(t) \/ RunLaunch(t))
  BY OthersStay
<1>3. /\ execState' = "Waiting" => execState = "Waiting"
      /\ \/ interpState' = "Idle" \/ interpState # "Idle"
         \/ t \in Client /\ op'[t] = "run" /\ pc'[t] = "life"
      /\ CommitTerminal(t) => interpState' = "Idle" /\ execState' # "Waiting"
  BY ThreadReports DEF NobodyPauses
<1>4. /\ Client \subseteq Thread /\ Producer \subseteq Thread
      /\ Client \cap Producer = {}
  BY ConstantsAssumption DEF Thread
<1>5. ASSUME NEW u \in Thread, Committing(u), ~CommitTerminal(t)
      PROVE  \E v \in Thread : Committing(v)'
  BY <1>5, CommitsOn
<1>6. ASSUME RunUnderWay, interpState' # "Idle"
      PROVE  RunUnderWay' \/ \E p \in Producer : pc'[p] = "start"
  <2>1. PICK c \in Client : op[c] = "run" /\ pc[c] \in Starts
    BY <1>6 DEF RunUnderWay
  <2>2. CASE c # t
    <3>1. op'[c] = op[c] /\ pc'[c] = pc[c]
      BY <1>2, <1>4, <2>2
    <3> QED  BY <2>1, <3>1 DEF RunUnderWay
  <2>3. CASE c = t /\ ~RunLaunch(t)
    BY <1>6, <2>1, <2>3, RunGoesOn DEF RunUnderWay
  <2>4. CASE c = t /\ RunLaunch(t)
    <3>1. runDone \in Producer /\ t \notin Producer
      BY <1>4, <2>1, <2>4 DEF Served, SlotHeld
    <3>2. pc'[runDone] = "start"
      BY <1>4, <2>4, <3>1 DEF RunLaunch, TypeOK
    <3> QED  BY <3>1, <3>2
  <2> QED  BY <2>2, <2>3, <2>4
<1>7. Terminates'
  <2> SUFFICES ASSUME interpState' # "Idle", ~CommitTerminal(t),
                      ~(t \in Client /\ op'[t] = "run" /\ pc'[t] = "life")
               PROVE  \/ \E p \in Producer : Live(p)' /\ pc'[p] # "exit"
                      \/ Marked'
                      \/ spc'[cur'] \in InHand /\ cmd'[cur'] = "done"
                      \/ RunUnderWay'
                      \/ \E u \in Thread : Committing(u)'
    BY <1>3 DEF Terminates, RunUnderWay, Starts
  <2>1. interpState # "Idle"
    BY <1>3
  <2>2. ASSUME RunUnderWay \/ \E u \in Thread : Committing(u)
        PROVE  \/ \E p \in Producer : Live(p)' /\ pc'[p] # "exit"
               \/ RunUnderWay'
               \/ \E u \in Thread : Committing(u)'
    BY <1>5, <1>6, <2>2 DEF Live
  <2>3. ASSUME NEW p \in Producer, Live(p), pc[p] # "exit", p # t
        PROVE  \E q \in Producer : Live(q)' /\ pc'[q] # "exit"
    BY <1>2, <1>4, <2>3 DEF Live
  <2>4. CASE t \in Producer /\ Live(t) /\ pc[t] # "exit"
    <3>1. \/ pc'[t] \notin {"idle", "reserved", "start", "exit"}
          \/ cur \in closed
          \/ Marked'
      BY <2>4, ProgramGoesOn, ConstantsAssumption DEF Rest
    <3>2. CASE cur \in closed
      BY <2>2, <3>2, ClosedEnds
    <3> QED  BY <2>4, <3>1, <3>2 DEF Live
  <2>5. CASE Marked
    <3>1. CASE FlushQueue(t)
      <4>1. pc'[t] = "stop"
        BY <3>1 DEF FlushQueue, Goto, TypeOK
      <4> QED  BY <4>1 DEF Committing, Restarting, Starts
    <3> QED  BY <2>5, <3>1, ThreadMarks
  <2>6. CASE spc[cur] \in InHand /\ cmd[cur] = "done"
    BY <1>1, <2>6
  <2> QED  BY <2>1, <2>2, <2>3, <2>4, <2>5, <2>6 DEF Rest, Terminates
<1>8. WaitsFor' /\ FaultNotWaiting' /\ InflightIsHeld'
  BY <1>1, <1>3, <1>5 DEF Rest, WaitsFor, FaultNotWaiting, InflightIsHeld
<1>9. CASE t \in Producer
  <2>1. /\ \/ pc'[t] \notin {"idle", "reserved", "start", "exit"}
           \/ pc[t] = "exit" /\ pc'[t] = "idle" /\ interpActive' = FALSE
           \/ pc'[t] = "exit"
        /\ pc'[t] = "putDone" => emit'[t] = "done"
        /\ pc'[t] = "drainCheck" => tgt'[t] = cur /\ op'[t] = op[t]
        /\ \A p \in Producer : p # t => emit'[p] = emit[p] /\ tgt'[p] = tgt[p]
                                        /\ mine'[p] = mine[p]
        /\ mine'[t] = mine[t] \/ pc'[t] = "idle"
        /\ op'[t] = "none" => op[t] = "none" \/ pc'[t] = "exit"
        /\ pc'[t] \notin {"exit", "idle"} =>
               pc[t] \notin {"idle", "reserved", "exit"}
    BY <1>4, <1>9, ProgramGoesOn DEF Rest
  <2>2. \A p \in Producer : p # t => pc'[p] = pc[p] /\ op'[p] = op[p]
    BY <1>2, <1>4, <1>9
  <2>3. Mine'
    BY <1>1, <2>1, <2>2 DEF Rest, Mine, Live
  <2>4. PutsDone' /\ ActiveIsLive'
    BY <1>9, <2>1, <2>2 DEF Rest, PutsDone, ActiveIsLive
  <2> QED  BY <1>7, <1>8, <2>3, <2>4 DEF Rest
<1>10. CASE t \notin Producer
  <2>1. /\ UNCHANGED <<interpActive, tgt, emit>>
        /\ UNCHANGED mine \/ (t \in Client /\ RunLaunch(t))
    BY <1>10, ThreadLeaves DEF NobodyPauses
  <2>2. \A p \in Producer : /\ op'[p] = op[p]
                             /\ \/ pc'[p] = pc[p]
                                \/ /\ pc[p] \in {"idle", "reserved"}
                                   /\ pc'[p] \in {"idle", "reserved", "start"}
                                   /\ t \in Client /\ (RunGuard(t) \/ RunLaunch(t))
    BY <1>2, <1>4, <1>10
  <2>3. ActiveIsLive' /\ PutsDone'
    BY <2>1, <2>2 DEF Rest, ActiveIsLive, PutsDone
  <2>4. CASE t \in Client /\ RunLaunch(t)
    <3>1. mine' = [mine EXCEPT ![runDone] = cur]
          /\ pc' = [pc EXCEPT ![runDone] = "start", ![t] = "idle"]
      BY <2>4 DEF RunLaunch
    <3>2. \A p \in Producer : p # runDone => pc'[p] = pc[p] /\ mine'[p] = mine[p]
      BY <1>4, <2>4, <3>1 DEF TypeOK
    <3>3. runDone \in Producer => mine'[runDone] = cur /\ pc'[runDone] = "start"
      BY <1>4, <2>4, <3>1 DEF TypeOK
    <3>4. Mine'
      BY <1>1, <2>1, <2>2, <3>2, <3>3 DEF Rest, Mine, Live
    <3> QED  BY <1>7, <1>8, <2>3, <3>4 DEF Rest
  <2>5. CASE UNCHANGED mine /\ ~(t \in Client /\ RunLaunch(t))
    <3>1. t \in Client /\ RunGuard(t) =>
              \A p \in Producer : pc'[p] \in {"idle", "reserved", pc[p]}
      BY <1>4 DEF RunGuard, Return, Goto, TypeOK
    <3>2. Mine'
      BY <1>1, <2>1, <2>2, <2>5, <3>1 DEF Rest, Mine, Live
    <3> QED  BY <1>7, <1>8, <2>3, <3>2 DEF Rest
  <2> QED  BY <2>1, <2>4, <2>5
<1> QED  BY <1>9, <1>10

\* What a sequencer's step reports: it ends the goroutine, or leaves one that
\* still has its marker, its wait and its command.
LEMMA SeqRests ==
  ASSUME NobodyPauses, TypeOK, Pauses, SeqStep(cur)
  PROVE  /\ interpActive' = interpActive /\ mine' = mine /\ tgt' = tgt
         /\ interpState = "Idle" => interpState' = "Idle" \/ pauseCh \/ ~(Calm \/ Dead)
         /\ spc'[cur] \in {"select", "got", "exited"} =>
                inflight' = FALSE \/ (spc[cur] = "select" /\ UNCHANGED inflight)
         /\ execState' = "Waiting" =>
                \/ spc'[cur] \in {"pre", "wait", "stepwait"}
                \/ execState = "Waiting" /\ spc[cur] \notin {"pre", "wait", "stepwait"}
                \/ execState = "Waiting" /\ cur \in closed
         /\ spc[cur] \in {"faultStop", "faultAbort", "exited"} => execState' = execState
         /\ spc[cur] \in InHand /\ cmd[cur] = "done" =>
                \/ spc'[cur] \in InHand /\ cmd'[cur] = "done"
                \/ interpState' = "Idle" \/ interpState = "Paused" \/ cur \in closed
<1> USE DEF InHand, TypeOK, SeqReturn, SeqGoto, reported, chans, flags, prods
<1>0. /\ spc[cur] = "stepwait" => cmd[cur] = "move"
      /\ spc[cur] = "paused" => pauseCh
      /\ spc[cur] = "stepwait" => ~(Calm \/ Dead)
      /\ spc[cur] = "post" /\ cmd[cur] = "m0" => ~(Calm \/ Dead)
  BY DEF Pauses, Stepped, Pausing, Calm, Dead, Waiting
<1>1. CASE SeqCheckPause(cur) \/ SeqPaused(cur) \/ SeqRefresh(cur) \/ SeqSelect(cur)
  BY <1>0, <1>1 DEF SeqCheckPause, SeqPaused, SeqRefresh, SeqSelect
<1>2. CASE SeqMark(cur) \/ SeqWaitTPAbort(cur) \/ SeqWaitSpace(cur)
  BY <1>2 DEF SeqMark, SeqWaitTPAbort, SeqWaitSpace
<1>3. CASE SeqWait(cur)
  BY <1>0, <1>3 DEF SeqWait, WaitMotionDone, SeqFault
<1>4. CASE SeqExecMotion(cur)
  BY <1>4 DEF SeqExecMotion, SeqFault, MotionCmd
<1>5. CASE SeqExecOther(cur)
  BY <1>5 DEF SeqExecOther, SeqFault, MotionCmd
<1>6. CASE SeqPost(cur)
  BY <1>0, <1>6 DEF SeqPost
<1>7. CASE SeqFaultStop(cur)
  BY <1>7 DEF SeqFaultStop, MarkAbort, SendAbort
<1> QED  BY <1>1, <1>2, <1>3, <1>4, <1>5, <1>6, <1>7 DEF SeqStep

\* It takes the marker out of the queue only to have it in hand.
LEMMA SeqMarks ==
  ASSUME TypeOK, Marked, SeqStep(cur)
  PROVE  Marked' \/ (spc'[cur] = "got" /\ cmd'[cur] = "done")
<1>1. cur \in Gen /\ queue[cur] \in Seq(Cmd) /\ Len(queue[cur]) \in Nat /\ cur' = cur
  <2>1. cur \in Gen /\ queue[cur] \in Seq(Cmd)
    BY DEF TypeOK
  <2> QED  BY <2>1, SeqEnds
<1>2. PICK i \in 1 .. Len(queue[cur]) : queue[cur][i] = "done"
  BY DEF Marked
<1>3. CASE queue'[cur] = queue[cur]
  BY <1>1, <1>2, <1>3 DEF Marked
<1>4. CASE /\ queue[cur] # <<>> /\ queue'[cur] = Tail(queue[cur])
           /\ cmd'[cur] = Head(queue[cur]) /\ spc'[cur] = "got"
  <2>1. /\ Head(queue[cur]) = queue[cur][1]
        /\ Len(Tail(queue[cur])) = Len(queue[cur]) - 1
        /\ \A j \in 1 .. Len(Tail(queue[cur])) : Tail(queue[cur])[j] = queue[cur][j + 1]
    BY <1>1, <1>4, HeadTailProperties
  <2>2. CASE i = 1
    BY <1>2, <1>4, <2>1, <2>2
  <2>3. CASE i # 1
    <3>1. i - 1 \in 1 .. Len(Tail(queue[cur])) /\ (i - 1) + 1 = i
      BY <1>1, <1>2, <2>1, <2>3
    <3>2. Tail(queue[cur])[i - 1] = "done"
      BY <1>2, <2>1, <3>1
    <3> QED  BY <1>1, <1>4, <3>1, <3>2 DEF Marked
  <2> QED  BY <2>2, <2>3
<1> QED  BY <1>1, <1>3, <1>4, SeqTakes

\* The steps of the sequencer: it gives up what it has in hand only when it
\* reports idle or its channel is closed, and a pause is taken beside nothing
\* or while it is being taken down.
LEMMA SeqStepRests ==
  ASSUME NobodyPauses, TypeOK, Served, Replacement, Provided, Pauses, ProgramInv,
         FaultDead, Rest, NEW s \in Gen, SeqStep(s)
  PROVE  Rest'
<1>1. /\ s = cur /\ spc[s] # "exited" /\ cur' = cur
      /\ \/ UNCHANGED seqFaulted
         \/ seqFaulted' /\ SeqFault(s)
  BY SeqEnds DEF Replacement, SingleSequencer
<1>2. /\ interpActive' = interpActive /\ mine' = mine /\ tgt' = tgt
      /\ interpState = "Idle" => interpState' = "Idle" \/ pauseCh \/ ~(Calm \/ Dead)
      /\ spc'[s] \in {"select", "got", "exited"} =>
             inflight' = FALSE \/ (spc[s] = "select" /\ UNCHANGED inflight)
      /\ execState' = "Waiting" =>
             \/ spc'[s] \in {"pre", "wait", "stepwait"}
             \/ execState = "Waiting" /\ spc[s] \notin {"pre", "wait", "stepwait"}
             \/ execState = "Waiting" /\ s \in closed
      /\ spc[s] \in {"faultStop", "faultAbort", "exited"} => execState' = execState
      /\ spc[s] \in InHand /\ cmd[s] = "done" =>
             \/ spc'[s] \in InHand /\ cmd'[s] = "done"
             \/ interpState' = "Idle" \/ interpState = "Paused" \/ s \in closed
  BY <1>1, SeqRests
<1>3. /\ \A p \in Producer : pc'[p] = pc[p] /\ op'[p] = op[p]
      /\ \A c \in Client : pc'[c] = pc[c] /\ op'[c] = op[c]
      /\ \A u \in Thread : Committing(u) => Committing(u)'
  BY SeqThreads
<1>4. \A p \in Producer : pc'[p] = pc[p] /\ op'[p] = op[p]
  BY <1>3
<1>5. ASSUME NEW u \in Thread, Committing(u)  PROVE Committing(u)'
  BY <1>3, <1>5
<1>6. RunUnderWay => RunUnderWay'
  BY <1>3 DEF RunUnderWay
<1>7. Terminates'
  <2> SUFFICES ASSUME interpState' # "Idle"
               PROVE  \/ \E p \in Producer : Live(p)' /\ pc'[p] # "exit"
                      \/ Marked'
                      \/ spc'[cur] \in InHand /\ cmd'[cur] = "done"
                      \/ RunUnderWay'
                      \/ \E u \in Thread : Committing(u)'
    BY <1>1 DEF Terminates
  <2>5. CASE TakingDown
    BY <1>5, <2>5, TakingCommits
  <2>6. CASE interpState = "Idle" /\ ~TakingDown
    <3>1. ~pauseCh /\ (Calm \/ Dead)
      BY <2>6 DEF Pauses, IdleUnpaused, ProgramInv, IdleCalm
    <3> QED  BY <1>2, <2>6, <3>1
  <2>1. CASE \E p \in Producer : Live(p) /\ pc[p] # "exit"
    BY <1>4, <2>1 DEF Live
  <2>2. CASE RunUnderWay \/ \E u \in Thread : Committing(u)
    BY <1>5, <1>6, <2>2
  <2>3. CASE spc[cur] \in InHand /\ cmd[cur] = "done"
    <3>1. CASE cur \in closed
      BY <1>5, <1>6, <3>1, ClosedEnds
    <3>2. CASE interpState = "Paused"
      <4>1. ~pauseCh
        BY <2>3 DEF Pauses, BetweenCommands, InHand
      <4>2. \E u \in Thread : Committing(u)
        BY <3>2, <4>1 DEF Pauses, PausedHere
      <4> QED  BY <1>5, <4>2
    <3> QED  BY <1>1, <1>2, <2>3, <3>1, <3>2
  <2>4. CASE Marked
    BY <1>1, <2>4, SeqMarks DEF InHand
  <2> QED  BY <2>1, <2>2, <2>3, <2>4, <2>5, <2>6 DEF Rest, Terminates
<1>8. WaitsFor'
  <2> SUFFICES ASSUME execState' = "Waiting", spc'[cur] \notin {"pre", "wait", "stepwait"}
               PROVE  \E u \in Thread : Committing(u)'
    BY <1>1 DEF WaitsFor
  <2>1. \/ execState = "Waiting" /\ spc[s] \notin {"pre", "wait", "stepwait"}
        \/ execState = "Waiting" /\ spc[s] \in {"pre", "wait", "stepwait"} /\ s \in closed
    BY <1>1, <1>2
  <2>2. CASE execState = "Waiting" /\ spc[s] \notin {"pre", "wait", "stepwait"}
    BY <1>1, <1>5, <2>2 DEF Rest, WaitsFor
  <2>3. CASE spc[s] \in {"pre", "wait", "stepwait"} /\ s \in closed
    <3>1. ~RunUnderWay
      BY <1>1, <2>3 DEF RunUnderWay, ProgramInv, RunSlot, Calm, Dead, Waiting
    <3> QED  BY <1>1, <1>5, <2>3, <3>1, ClosedEnds
  <2> QED  BY <2>1, <2>2, <2>3
<1>9. FaultNotWaiting'
  <2>1. CASE seqFaulted
    BY <1>1, <1>2, <2>1 DEF Rest, FaultNotWaiting, FaultDead, Dead
  <2>2. CASE SeqFault(s)
    BY <2>2 DEF SeqFault, FaultNotWaiting
  <2> QED  BY <1>1, <2>1, <2>2 DEF FaultNotWaiting
<1>10. InflightIsHeld'
  BY <1>1, <1>2 DEF Rest, InflightIsHeld
<1>11. ActiveIsLive' /\ Mine'
  BY <1>1, <1>2, <1>4 DEF Rest, ActiveIsLive, Mine, Live
<1>12. PutsDone'
  BY <1>4, SeqTakes DEF Rest, PutsDone
<1> QED  BY <1>7, <1>8, <1>9, <1>10, <1>11, <1>12 DEF Rest

LEMMA StepRests ==
  ASSUME NobodyPauses, TypeOK, Served, Quiet, Replacement, Provided, ProgramInv,
         FaultDead, Contents, Pauses, Rest, [Next]_vars
  PROVE  Contents' /\ Pauses' /\ Rest'
<1>1. /\ ~(MonitorTrip \/ Acquire(Monitor) \/ ThreadStep(Monitor))
      /\ Client \subseteq Thread /\ Monitor \notin Client
  BY StepQuiet, ConstantsAssumption DEF Thread, NobodyPauses
<1>2. ASSUME NEW t \in Thread, t # Monitor,
             Acquire(t) \/ ThreadStep(t) \/ (t \in Client /\ Request(t))
      PROVE  Contents' /\ Pauses' /\ Rest'
  <2>1. Contents'
    BY <1>2, ThreadContents DEF NobodyPauses
  <2>2. CASE SpawnSequencer(t)
    BY <1>2, <2>1, <2>2, SpawnHolds, SpawnRests
  <2> QED  BY <1>2, <2>1, <2>2, ThreadHolds, ThreadRests
<1>3. ASSUME NEW s \in Gen, SeqStep(s)  PROVE Contents' /\ Pauses' /\ Rest'
  <2>1. s = cur
    BY <1>3, SeqEnds DEF Replacement, SingleSequencer
  <2> QED  BY <1>3, <2>1, SeqContents, StepHolds, SeqStepRests
<1>4. CASE Servo \/ UNCHANGED vars
  <2>1. UNCHANGED <<reported, chans, flags, locks, threads, prods, seqs>>
    BY <1>4 DEF Servo, vars
  <2>2. Contents' /\ Pauses'
    BY <2>1 DEF reported, chans, flags, threads, prods, seqs, Contents, Pauses, Tapped,
                Stepped, Pausing, BetweenCommands, PausedHere, IdleUnpaused,
                RunUnpaused, CommitUnpaused, TakingDown, RunUnderWay, Committing,
                Restarting
  <2>3. Rest'
    BY <2>1 DEF reported, chans, flags, threads, prods, seqs, Rest, Terminates,
                WaitsFor, FaultNotWaiting, ActiveIsLive, InflightIsHeld, Mine,
                PutsDone, Marked, RunUnderWay, Committing, Restarting, Live
  <2> QED  BY <2>2, <2>3
<1> QED  BY <1>1, <1>2, <1>3, <1>4 DEF Next

\* A machine that has come to rest reports itself idle and done, and accepts the
\* next command, for any number of clients that run programs from their first
\* line, step, resume and abort them, if nobody pauses them, with lines in error,
\* refused commands, lost status and files that do not open; programs that tap
\* contain no mandatory stop and are not stepped.
THEOREM RestIsReported ==
  ASSUME NobodyPauses
  PROVE  Spec => []RestIsIdle
<1>1. Init => /\ Provided /\ FaultDead /\ Unfaulted /\ FaultVisible
              /\ Contents /\ Pauses /\ Rest
  <2> SUFFICES ASSUME Init  PROVE Provided /\ Contents /\ Pauses /\ Rest
    BY DEF Init, FaultDead, Unfaulted, FaultVisible
  <2>1. /\ \A t \in Thread : pc[t] = "idle"
        /\ Producer \subseteq Thread /\ cur \in Gen
        /\ spc = [s \in Gen |-> IF s = cur THEN "check" ELSE "exited"]
        /\ closed = Gen \ {cur} /\ queue = [s \in Gen |-> <<>>]
    BY DEF Init, Thread
  <2>2. Provided
    BY <2>1 DEF Init, Provided, FaultClosed
  <2>3. Contents
    BY <2>1, EmptySeq DEF Init, Contents, Barred
  <2>5. Pauses
    BY <2>1 DEF Init, Pauses, Tapped, Stepped, Pausing, BetweenCommands, PausedHere,
                IdleUnpaused, RunUnpaused, CommitUnpaused, RunUnderWay, Starts, Thread
  <2>4. Rest
    BY <2>1 DEF Init, Rest, Terminates, WaitsFor, FaultNotWaiting, ActiveIsLive,
                InflightIsHeld, Mine, PutsDone, Live
  <2> QED  BY <2>2, <2>3, <2>4, <2>5
<1>2. /\ TypeOK /\ Replacement /\ Served /\ Quiet /\ ProgramInv /\ Provided
      /\ FaultDead /\ Unfaulted /\ FaultVisible /\ Contents /\ Pauses /\ Rest /\ [Next]_vars
      => Provided' /\ FaultDead' /\ Unfaulted' /\ FaultVisible' /\ Contents' /\ Pauses' /\ Rest'
  BY StepProvided, StepShows, StepRests DEF NobodyPauses
<1>3. Rest /\ TypeOK => RestIsIdle
  <2> SUFFICES ASSUME Rest, TypeOK, AtRest
               PROVE  ~programBusy /\ execState \in {"Done", "Error"} /\ ~inflight
    BY DEF RestIsIdle
  <2>1. /\ \A t \in Thread : pc[t] \in {"idle", "reserved"}
        /\ spc[cur] = "select" /\ queue[cur] = <<>>
        /\ Client \subseteq Thread /\ Producer \subseteq Thread
    BY DEF AtRest, NobodyAtWork, Thread
  <2>2. ~RunUnderWay /\ \A t \in Thread : ~Committing(t)
    BY <2>1 DEF RunUnderWay, Starts, Committing, Restarting
  <2>3. ~Marked
    BY <2>1, EmptySeq DEF Marked
  <2>4. interpState = "Idle"
    BY <2>1, <2>2, <2>3 DEF Rest, Terminates, Live, InHand
  <2>5. ~interpActive /\ ~inflight
    BY <2>1 DEF Rest, ActiveIsLive, InflightIsHeld
  <2>6. execState # "Waiting"
    BY <2>1, <2>2 DEF Rest, WaitsFor
  <2> QED  BY <2>4, <2>5, <2>6 DEF programBusy, TypeOK, ExecState
<1> QED  BY <1>1, <1>2, <1>3, TypeCorrect, ProgramAlways, PTL DEF Spec, NobodyPauses

-----------------------------------------------------------------------------
(* A machine at rest says so, with the monitor tripping at any moment.      *)

\* Nothing stops a program half way: it is not paused, stepped or started from a
\* later line, contains no mandatory stop, and its file opens.  The monitor may
\* trip it, at the same time as anything else goes wrong.
Straight == /\ Env \cap {"seek", "openFails"} = {}
            /\ Ops \cap {"pause", "step"} = {}
            /\ "m0" \notin Kinds

Unstopped == /\ interpState # "Paused" /\ pauseCh = FALSE /\ stepping = FALSE
             /\ spc[cur] \notin {"paused", "refresh", "stepwait"}

\* While the monitor trips, the program of an earlier generation may still run
\* beside the next.  What ends the report of a program is the one that listens to
\* the channel of the current generation, its marker, the Run it is part of, or a
\* teardown.
Underway == \/ RunUnderWay
            \/ \E t \in Thread : Committing(t)
            \/ Marked
            \/ spc[cur] \in InHand /\ cmd[cur] = "done"
            \/ \E p \in Producer : mine[p] = cur /\ ~Over(p)
ReportEnds == interpState # "Idle" => Underway
WaitEnds == execState = "Waiting" => spc[cur] \in {"pre", "wait"} \/ Underway

\* The current program sends to the current generation.
ToOwn == \A p \in Producer :
    mine[p] = cur /\ pc[p] \in {"put", "putSync", "putDone", "drainCheck"} => tgt[p] = cur

Passing == /\ Unstopped /\ ReportEnds /\ WaitEnds /\ ToOwn /\ PutsDone
           /\ ActiveIsLive /\ InflightIsHeld

\* A program goes on until its marker is in the queue, its channel is closed or
\* it takes itself down.
LEMMA OwnGoesOn ==
  ASSUME Straight, TypeOK, Served, Contents, ToOwn, PutsDone,
         NEW t \in Producer, Acquire(t) \/ ThreadStep(t)
  PROVE  /\ mine[t] = cur /\ ~Over(t) =>
                \/ cur' = cur /\ mine'[t] = mine[t] /\ ~Over(t)'
                \/ pc'[t] = "interp"
                \/ cur \in closed /\ cur' = cur
                \/ Marked'
         /\ \/ pc'[t] \notin {"idle", "reserved", "start"}
            \/ interpActive' = FALSE
         /\ pc'[t] = "putDone" => emit'[t] = "done"
         /\ \/ mine'[t] = NoGen
            \/ /\ mine'[t] = mine[t]
               /\ mine[t] = cur /\ pc'[t] \in {"put", "putSync", "putDone", "drainCheck"}
                  => tgt'[t] = cur
         /\ \A p \in Producer : p # t => emit'[p] = emit[p] /\ tgt'[p] = tgt[p]
                                         /\ mine'[p] = mine[p]
<1> USE DEF TypeOK, Goto, Begin, Proceed, chans, prods, threads, reported, Over
<1>1. t \in Thread /\ ProducerFits(op[t], pc[t])
  BY DEF Thread, Served, Roles
<1>2. CASE Acquire(t) \/ JoinSequencer(t) \/ SpawnSequencer(t) \/ InterpReset(t)
  BY <1>1, <1>2 DEF Acquire, Lock, StartSequencer, JoinSequencer, SpawnSequencer,
                    InterpReset, AfterLock, ProducerFits, ProducerPc
<1>3. CASE CommitTerminal(t)
  <2>1. op[t] = "fault"
    BY <1>1, <1>3 DEF CommitTerminal, ProducerFits, ProducerPc
  <2> QED  BY <1>1, <1>3, <2>1 DEF CommitTerminal
<1>4. CASE ProgramStart(t) \/ ReadLine(t) \/ ExecuteLine(t) \/ ProgramSynch(t)
           \/ FaultProgram(t)
  BY <1>1, <1>4 DEF ProgramStart, ReadLine, ExecuteLine, ProgramSynch, FaultProgram,
                    Straight
<1>5. CASE SeekToLine(t)
  BY <1>5 DEF SeekToLine, Contents
<1>6. CASE NextLine(t)
  BY <1>1, <1>6 DEF NextLine
<1>7. CASE EnqueueCmd(t)
  <2>1. /\ pc[t] = "putDone" => emit[t] = "done"
        /\ pc[t] \in {"put", "putSync", "putDone"}
    BY <1>7 DEF EnqueueCmd, PutsDone
  <2>2. /\ pc'[t] = AfterPut(pc[t]) /\ emit'[t] = "done" /\ mine' = mine /\ op' = op
        /\ cur' = cur /\ interpActive' = interpActive
        /\ \A p \in Producer : p # t => emit'[p] = emit[p] /\ tgt'[p] = tgt[p]
    <3>1. AfterPut(pc[t]) \notin {"putSync", "putDone"}
      BY DEF AfterPut
    <3> QED  BY <1>1, <1>7, <3>1 DEF EnqueueCmd
  <2>3. AfterPut(pc[t]) \in {"exec", "drain", "exit"} /\ (AfterPut(pc[t]) = "exit" => pc[t] = "putDone")
    BY <2>1 DEF AfterPut
  <2>4. mine[t] = cur /\ pc[t] = "putDone" => cur \in closed \/ Marked'
    <3> SUFFICES ASSUME mine[t] = cur, pc[t] = "putDone", cur \notin closed
                 PROVE  Marked'
      OBVIOUS
    <3>1. tgt[t] = cur
      BY DEF ToOwn
    <3>2. queue[cur] \in Seq(Cmd) /\ Len(queue[cur]) \in Nat
          /\ queue'[cur] = Append(queue[cur], "done") /\ "done" \in Cmd
      BY <1>7, <2>1, <3>1 DEF EnqueueCmd, Cmd
    <3>3. /\ Len(queue'[cur]) = Len(queue[cur]) + 1
          /\ queue'[cur][Len(queue[cur]) + 1] = "done"
      BY <3>2, AppendProperties
    <3>4. Len(queue[cur]) + 1 \in 1 .. Len(queue'[cur])
      BY <3>2, <3>3
    <3> QED  BY <2>2, <3>3, <3>4 DEF Marked
  <2> QED  BY <1>1, <2>2, <2>3, <2>4
<1>8. CASE DrainSnapshot(t)
  <2>1. /\ UNCHANGED <<emit, mine, op, cur>> /\ pc[t] = "drain"
        /\ \A p \in Producer : p # t => tgt'[p] = tgt[p]
    BY <1>8 DEF DrainSnapshot
  <2>2. \/ pc'[t] = "drainCheck" /\ tgt'[t] = cur
        \/ pc'[t] = "exit" /\ cur \in closed
    BY <1>1, <1>8 DEF DrainSnapshot
  <2> QED  BY <1>1, <2>1, <2>2
<1>9. CASE DrainInflight(t)
  <2>1. mine[t] = cur => tgt[t] = cur
    BY <1>9 DEF DrainInflight, ToOwn
  <2>2. /\ UNCHANGED <<emit, mine, op, cur>> /\ pc[t] = "drainCheck"
        /\ \A p \in Producer : p # t => tgt'[p] = tgt[p]
        /\ pc'[t] \in {"synch", "drain"} \/ (pc'[t] = "exit" /\ tgt[t] \in closed)
    BY <1>1, <1>9 DEF DrainInflight
  <2> QED  BY <1>1, <2>1, <2>2
<1>10. CASE ProgramExit(t)
  BY <1>1, <1>10 DEF ProgramExit
<1>11. CASE \/ AbortSequencer(t) \/ FlushQueue(t) \/ StopMotion(t) \/ FaultCheck(t)
            \/ WaitRunDone(t)
  BY <1>1, <1>11 DEF AbortSequencer, FlushQueue, StopMotion, FaultCheck, WaitRunDone,
                     ProducerFits, ProducerPc, Teardown
<1> QED  BY <1>2, <1>3, <1>4, <1>5, <1>6, <1>7, <1>8, <1>9, <1>10, <1>11,
            ConstantsAssumption DEF ThreadStep

\* The sequencer gives up what it has in hand only when it reports idle or its
\* channel is closed, and takes no pause.
LEMMA SeqPasses ==
  ASSUME Straight, TypeOK, Contents, Unstopped, SeqStep(cur)
  PROVE  /\ UNCHANGED <<interpActive, mine, tgt>>
         /\ interpState' # "Paused" /\ pauseCh' = FALSE /\ stepping' = FALSE
         /\ spc'[cur] \notin {"paused", "refresh", "stepwait"}
         /\ interpState = "Idle" => interpState' = "Idle"
         /\ spc'[cur] \in {"select", "got", "exited"} =>
                inflight' = FALSE \/ (spc[cur] = "select" /\ UNCHANGED inflight)
         /\ execState' = "Waiting" =>
                \/ spc'[cur] \in {"pre", "wait"}
                \/ execState = "Waiting" /\ spc[cur] \notin {"pre", "wait"}
                \/ execState = "Waiting" /\ cur \in closed
         /\ spc[cur] \in InHand /\ cmd[cur] = "done" =>
                \/ spc'[cur] \in InHand /\ cmd'[cur] = "done"
                \/ interpState' = "Idle" /\ execState' # "Waiting"
                \/ cur \in closed
<1> USE DEF Unstopped, InHand, TypeOK, SeqReturn, SeqGoto, reported, chans, flags, prods
<1>0. cmd[cur] # "m0"
  BY DEF Contents, Barred, Straight
<1>1. CASE SeqCheckPause(cur) \/ SeqPaused(cur) \/ SeqRefresh(cur) \/ SeqSelect(cur)
  BY <1>1 DEF SeqCheckPause, SeqPaused, SeqRefresh, SeqSelect
<1>2. CASE SeqMark(cur) \/ SeqWaitTPAbort(cur) \/ SeqWaitSpace(cur)
  BY <1>2 DEF SeqMark, SeqWaitTPAbort, SeqWaitSpace
<1>3. CASE SeqWait(cur)
  BY <1>3 DEF SeqWait, WaitMotionDone, SeqFault
<1>4. CASE SeqExecMotion(cur)
  BY <1>4 DEF SeqExecMotion, SeqFault, MotionCmd
<1>5. CASE SeqExecOther(cur)
  BY <1>5 DEF SeqExecOther, SeqFault, MotionCmd
<1>6. CASE SeqPost(cur)
  BY <1>0, <1>6 DEF SeqPost
<1>7. CASE SeqFaultStop(cur)
  BY <1>7 DEF SeqFaultStop, MarkAbort, SendAbort
<1> QED  BY <1>1, <1>2, <1>3, <1>4, <1>5, <1>6, <1>7 DEF SeqStep

\* A fresh generation is there for somebody.
LEMMA SpawnUnderway ==
  ASSUME TypeOK, Served, NEW t \in Thread, SpawnSequencer(t)
  PROVE  /\ Underway' /\ spc'[cur'] = "check" /\ pauseCh' = FALSE
         /\ UNCHANGED <<reported, prods>>
         /\ \A p \in Producer : mine[p] # cur'
<1>1. /\ pc'[t] = (IF op[t] = "run" THEN "open" ELSE "commit") /\ op' = op
      /\ spc'[cur'] = "check" /\ pauseCh' = FALSE
      /\ \A p \in Producer : mine[p] # cur'
  BY DEF SpawnSequencer, Unused, Goto, TypeOK
<1>2. op[t] = "run" => t \in Client
  BY ConstantsAssumption DEF Served, Roles, RecovererFits, ProducerFits,
                             MonitorFits, Thread
<1>3. UNCHANGED <<reported, prods>>
  BY DEF SpawnSequencer
<1>4. CASE op[t] = "run"
  BY <1>1, <1>2, <1>3, <1>4 DEF Underway, RunUnderWay, Starts
<1>5. CASE op[t] # "run"
  <2>1. Committing(t)'
    BY <1>1, <1>5 DEF Committing
  <2> QED  BY <1>1, <1>3, <2>1 DEF Underway
<1> QED  BY <1>4, <1>5

\* What a program is reported for goes on to its end.
LEMMA ThreadUnderway ==
  ASSUME Straight, TypeOK, Served, Provided, Contents, ToOwn, PutsDone, Underway,
         NEW t \in Thread,
         \/ Acquire(t) \/ ThreadStep(t) \/ (t \in Client /\ Request(t))
  PROVE  Underway' \/ (interpState' = "Idle" /\ execState' # "Waiting")
<1> SUFFICES ASSUME ~CommitTerminal(t)  PROVE Underway'
  BY ThreadReports DEF Straight
<1>1. CASE SpawnSequencer(t)
  BY <1>1, SpawnUnderway
<1>2. CASE ~SpawnSequencer(t)
  <2>1. /\ UNCHANGED <<cur, spc, cmd, seqFaulted>>
        /\ t \notin Producer => UNCHANGED mine \/ (t \in Client /\ RunLaunch(t))
    BY <1>2, ThreadLeaves, ThreadCloses DEF Straight
  <2>2. \A u \in Thread : u # t =>
            /\ op'[u] = op[u]
            /\ \/ pc'[u] = pc[u]
               \/ u \in Producer /\ pc[u] \in {"idle", "reserved"}
    BY OthersStay
  <2>3. /\ Client \subseteq Thread /\ Producer \subseteq Thread
        /\ Client \cap Producer = {}
    BY ConstantsAssumption DEF Thread
  <2>4. ASSUME NEW u \in Thread, Committing(u)  PROVE Underway'
    BY <1>2, <2>4, CommitsOn DEF Underway
  <2>5. ASSUME NEW c \in Client, op[c] = "run", pc[c] \in Starts  PROVE Underway'
    <3>1. CASE c # t
      <4>1. op'[c] = op[c] /\ pc'[c] = pc[c]
        BY <2>2, <2>3, <3>1
      <4> QED  BY <2>5, <4>1 DEF Underway, RunUnderWay
    <3>2. CASE c = t /\ ~RunLaunch(t)
      BY <2>5, <3>2, RunGoesOn DEF Underway, RunUnderWay, Straight
    <3>3. CASE c = t /\ RunLaunch(t)
      <4>1. runDone \in Producer /\ pc[runDone] = "reserved" /\ t \notin Producer
        BY <2>3, <2>5, <3>3 DEF Served, SlotHeld
      <4>2. pc'[runDone] = "start" /\ mine'[runDone] = cur /\ cur' = cur
        BY <2>1, <2>3, <3>3, <4>1 DEF RunLaunch, TypeOK
      <4>3. op'[runDone] = "none"
        <5>1. op[runDone] = "none"
          BY <4>1 DEF Served, Roles, ProducerFits, Teardown
        <5> QED  BY <2>2, <2>3, <4>1, <5>1
      <4> QED  BY <4>1, <4>2, <4>3 DEF Underway, Over
    <3> QED  BY <3>1, <3>2, <3>3
  <2>6. CASE Marked
    <3>1. CASE FlushQueue(t)
      <4>1. pc'[t] = "stop"
        BY <3>1 DEF FlushQueue, Goto, TypeOK
      <4> QED  BY <4>1 DEF Underway, Committing, Restarting, Starts
    <3> QED  BY <1>2, <2>6, <3>1, ThreadMarks DEF Underway
  <2>7. ASSUME cur \in closed  PROVE Underway'
    BY <2>4, <2>5, <2>7, ClosedEnds DEF RunUnderWay
  <2>8. ASSUME NEW p \in Producer, mine[p] = cur, ~Over(p)  PROVE Underway'
    <3>1. CASE p = t
      <4>1. \/ cur' = cur /\ mine'[t] = mine[t] /\ ~Over(t)'
            \/ pc'[t] = "interp"
            \/ cur \in closed
            \/ Marked'
        BY <2>3, <2>8, <3>1, OwnGoesOn
      <4>2. pc'[t] = "interp" => Committing(t)'
        BY DEF Committing, Restarting, Starts
      <4> QED  BY <2>3, <2>7, <2>8, <3>1, <4>1, <4>2 DEF Underway
    <3>2. CASE p # t
      <4>1. op'[p] = op[p] /\ pc'[p] = pc[p] /\ ~Over(p)'
        <5>1. op'[p] = op[p] /\ pc'[p] = pc[p]
          BY <2>2, <2>3, <2>8, <3>2 DEF Over
        <5> QED  BY <2>8, <5>1 DEF Over
      <4>2. mine'[p] = mine[p]
        <5>1. CASE t \in Producer
          BY <3>2, <5>1, OwnGoesOn, <2>3
        <5>2. CASE t \in Client /\ RunLaunch(t)
          <6>1. op[t] = "run" /\ pc[t] \in Starts
            BY <5>2 DEF RunLaunch, Served, Roles, ClientFits, Teardown, Starts
          <6>2. pc[runDone] = "reserved" /\ mine' = [mine EXCEPT ![runDone] = cur]
            BY <5>2, <6>1 DEF RunLaunch, Served, SlotHeld
          <6> QED  BY <2>8, <6>2 DEF Over, TypeOK
        <5> QED  BY <2>1, <5>1, <5>2
      <4> QED  BY <2>1, <2>8, <4>1, <4>2 DEF Underway
    <3> QED  BY <3>1, <3>2
  <2>9. CASE spc[cur] \in InHand /\ cmd[cur] = "done"
    BY <2>1, <2>9 DEF Underway
  <2> QED  BY <2>4, <2>5, <2>6, <2>8, <2>9 DEF Underway, RunUnderWay
<1> QED  BY <1>1, <1>2

LEMMA ThreadPasses ==
  ASSUME Straight, TypeOK, TypeOK', Served, Provided, Contents, Passing,
         NEW t \in Thread,
         Acquire(t) \/ ThreadStep(t) \/ (t \in Client /\ Request(t))
  PROVE  Passing'
<1> USE DEF Passing
<1>1. /\ execState' = "Waiting" => execState = "Waiting"
      /\ interpState' = "Paused" => interpState = "Paused"
      /\ \/ interpState' = "Idle" \/ interpState # "Idle"
         \/ t \in Client /\ op'[t] = "run" /\ pc'[t] = "life"
      /\ stepping' => stepping \/ "step" \in Ops
  BY ThreadReports DEF Straight
<1>2. /\ UNCHANGED <<cmd, inflight>>
      /\ SpawnSequencer(t) \/ UNCHANGED pauseCh
      /\ t \notin Producer => /\ UNCHANGED <<interpActive, tgt, emit>>
                              /\ UNCHANGED mine \/ (t \in Client /\ RunLaunch(t))
  BY ThreadLeaves DEF Straight
<1>3. SpawnSequencer(t) \/ UNCHANGED <<cur, spc>>
  BY ThreadCloses
<1>4. /\ SpawnSequencer(t) => /\ Underway' /\ spc'[cur'] = "check" /\ pauseCh' = FALSE
                              /\ \A p \in Producer : mine[p] # cur'
      /\ Underway => Underway' \/ (interpState' = "Idle" /\ execState' # "Waiting")
  BY SpawnUnderway, ThreadUnderway
<1>5. \A p \in Producer : p # t => /\ op'[p] = op[p]
                                   /\ \/ pc'[p] = pc[p]
                                      \/ /\ pc[p] \in {"idle", "reserved"}
                                         /\ pc'[p] \in {"idle", "reserved", "start"}
                                         /\ t \in Client /\ (RunGuard(t) \/ RunLaunch(t))
  BY OthersStay DEF Thread
<1>6. Unstopped'
  <2>1. stepping' = FALSE
    <3>1. ~stepping'
      BY <1>1 DEF Unstopped, Straight
    <3> QED  BY <3>1 DEF TypeOK
  <2> QED  BY <1>1, <1>2, <1>3, <1>4, <2>1 DEF Unstopped
<1>7. ReportEnds'
  BY <1>1, <1>4 DEF ReportEnds, Underway, RunUnderWay, Starts
<1>8. WaitEnds'
  BY <1>1, <1>3, <1>4 DEF WaitEnds
<1>9. InflightIsHeld'
  BY <1>2, <1>3, <1>4 DEF InflightIsHeld
<1>10. CASE t \in Producer
  <2>1. /\ \/ pc'[t] \notin {"idle", "reserved", "start"}
           \/ interpActive' = FALSE
        /\ pc'[t] = "putDone" => emit'[t] = "done"
        /\ \/ mine'[t] = NoGen
           \/ /\ mine'[t] = mine[t]
              /\ mine[t] = cur /\ pc'[t] \in {"put", "putSync", "putDone", "drainCheck"}
                 => tgt'[t] = cur
        /\ \A p \in Producer : p # t => emit'[p] = emit[p] /\ tgt'[p] = tgt[p]
                                        /\ mine'[p] = mine[p]
    BY <1>10, OwnGoesOn, ConstantsAssumption
  <2>2. \A p \in Producer : p # t => pc'[p] = pc[p]
    BY <1>5, <1>10, ConstantsAssumption
  <2>3. ToOwn'
    <3>1. cur' # NoGen
      BY ConstantsAssumption DEF TypeOK
    <3> QED  BY <1>3, <1>4, <2>1, <2>2, <3>1 DEF ToOwn
  <2>4. PutsDone'
    BY <2>1, <2>2 DEF PutsDone
  <2>5. ActiveIsLive'
    BY <1>10, <2>1 DEF ActiveIsLive
  <2> QED  BY <1>6, <1>7, <1>8, <1>9, <2>3, <2>4, <2>5
<1>11. CASE t \notin Producer
  <2>1. \A p \in Producer : pc'[p] = pc[p] \/ (/\ pc[p] \in {"idle", "reserved"}
                                                /\ pc'[p] \in {"idle", "reserved", "start"})
    BY <1>5, <1>11
  <2>2. ToOwn'
    <3>1. CASE UNCHANGED mine
      BY <1>2, <1>3, <1>4, <1>11, <2>1, <3>1 DEF ToOwn
    <3>2. CASE t \in Client /\ RunLaunch(t)
      <4>1. /\ mine' = [mine EXCEPT ![runDone] = cur] /\ cur' = cur
            /\ pc' = [pc EXCEPT ![runDone] = "start", ![t] = "idle"]
        BY <3>2 DEF RunLaunch, chans
      <4>2. \A p \in Producer : \/ p # runDone /\ mine'[p] = mine[p]
                                \/ pc'[p] = "start"
        BY <1>11, <4>1 DEF TypeOK, Thread
      <4> QED  BY <1>2, <1>11, <2>1, <4>1, <4>2 DEF ToOwn
    <3> QED  BY <1>2, <1>11, <3>1, <3>2
  <2>3. PutsDone' /\ ActiveIsLive'
    BY <1>2, <1>11, <2>1 DEF PutsDone, ActiveIsLive
  <2> QED  BY <1>6, <1>7, <1>8, <1>9, <2>2, <2>3
<1> QED  BY <1>10, <1>11

LEMMA SeqStepPasses ==
  ASSUME Straight, TypeOK, Served, Replacement, Provided, Contents, Passing,
         NEW s \in Gen, SeqStep(s)
  PROVE  Passing'
<1> USE DEF Passing
<1>1. /\ s = cur /\ cur' = cur
  BY SeqEnds DEF Replacement, SingleSequencer
<1>2. /\ UNCHANGED <<interpActive, mine, tgt>>
      /\ interpState' # "Paused" /\ pauseCh' = FALSE /\ stepping' = FALSE
      /\ spc'[cur] \notin {"paused", "refresh", "stepwait"}
      /\ interpState = "Idle" => interpState' = "Idle"
      /\ spc'[cur] \in {"select", "got", "exited"} =>
             inflight' = FALSE \/ (spc[cur] = "select" /\ UNCHANGED inflight)
      /\ execState' = "Waiting" =>
             \/ spc'[cur] \in {"pre", "wait"}
             \/ execState = "Waiting" /\ spc[cur] \notin {"pre", "wait"}
             \/ execState = "Waiting" /\ cur \in closed
      /\ spc[cur] \in InHand /\ cmd[cur] = "done" =>
             \/ spc'[cur] \in InHand /\ cmd'[cur] = "done"
             \/ interpState' = "Idle" /\ execState' # "Waiting"
             \/ cur \in closed
  BY <1>1, SeqPasses
<1>3. /\ \A p \in Producer : pc'[p] = pc[p] /\ op'[p] = op[p]
      /\ \A c \in Client : pc'[c] = pc[c] /\ op'[c] = op[c]
      /\ \A u \in Thread : Committing(u) => Committing(u)'
  BY SeqThreads
<1>4. RunUnderWay \/ (\E u \in Thread : Committing(u)) => Underway'
  <2>1. RunUnderWay => RunUnderWay'
    BY <1>3 DEF RunUnderWay
  <2>2. ASSUME NEW u \in Thread, Committing(u)  PROVE Committing(u)'
    BY <1>3, <2>2
  <2> QED  BY <2>1, <2>2 DEF Underway
<1>5. cur \in closed => Underway'
  BY <1>4, ClosedEnds
<1>6. Underway => Underway' \/ (interpState' = "Idle" /\ execState' # "Waiting")
  <2>1. CASE Marked
    BY <1>1, <2>1, SeqMarks DEF Underway, InHand
  <2>2. CASE spc[cur] \in InHand /\ cmd[cur] = "done"
    BY <1>1, <1>2, <1>5, <2>2 DEF Underway
  <2>3. ASSUME NEW p \in Producer, mine[p] = cur, ~Over(p)
        PROVE  Underway'
    <3>1. pc'[p] = pc[p] /\ op'[p] = op[p] /\ mine'[p] = mine[p]
      BY <1>2, <1>3
    <3>2. mine'[p] = cur' /\ ~Over(p)'
      BY <1>1, <2>3, <3>1 DEF Over
    <3> QED  BY <3>2 DEF Underway
  <2> QED  BY <1>4, <2>1, <2>2, <2>3 DEF Underway
<1>7. Unstopped' /\ ReportEnds' /\ WaitEnds' /\ InflightIsHeld'
  BY <1>1, <1>2, <1>5, <1>6 DEF Unstopped, ReportEnds, WaitEnds, InflightIsHeld
<1>8. ActiveIsLive' /\ ToOwn'
  <2>1. \A p \in Producer : pc'[p] = pc[p]
    BY <1>3
  <2> QED  BY <1>1, <1>2, <2>1 DEF ActiveIsLive, ToOwn
<1>9. PutsDone'
  <2>1. \A p \in Producer : pc'[p] = pc[p]
    BY <1>3
  <2> QED  BY <2>1, SeqTakes DEF PutsDone
<1> QED  BY <1>7, <1>8, <1>9

LEMMA StepPasses ==
  ASSUME Straight, TypeOK, TypeOK', Served, Replacement, Provided, Contents, Passing,
         [Next]_vars
  PROVE  Contents' /\ Passing'
<1>1. Client \subseteq Thread /\ Producer \subseteq Thread /\ Monitor \in Thread
      /\ Monitor \notin Producer
  BY ConstantsAssumption DEF Thread
<1>2. ASSUME NEW t \in Thread,
             Acquire(t) \/ ThreadStep(t) \/ (t \in Client /\ Request(t))
      PROVE  Contents' /\ Passing'
  BY <1>2, ThreadContents, ThreadPasses DEF Straight
<1>3. ASSUME NEW s \in Gen, SeqStep(s)  PROVE Contents' /\ Passing'
  BY <1>3, SeqContents, SeqStepPasses
<1>4. CASE MonitorTrip
  <2>1. /\ UNCHANGED <<execState, interpActive, chans, flags, prods, seqs>>
        /\ interpState' = "Idle" /\ stepping' = FALSE
        /\ pc'[Monitor] = "close"
        /\ \A p \in Producer : pc'[p] = pc[p]
    BY <1>1, <1>4 DEF MonitorTrip, Begin, Goto, TypeOK
  <2>2. Underway'
    BY <1>1, <2>1 DEF Underway, Committing, Restarting, Starts
  <2>3. Contents'
    BY <2>1 DEF Contents, chans, prods, seqs
  <2>4. Unstopped' /\ ReportEnds' /\ WaitEnds' /\ ToOwn'
    BY <2>1, <2>2 DEF Passing, Unstopped, ReportEnds, WaitEnds, ToOwn, chans, prods, seqs
  <2>5. PutsDone' /\ ActiveIsLive' /\ InflightIsHeld'
    BY <2>1 DEF Passing, PutsDone, ActiveIsLive, InflightIsHeld, chans, prods, seqs, flags
  <2> QED  BY <2>3, <2>4, <2>5 DEF Passing
<1>5. CASE Servo \/ UNCHANGED vars
  <2>1. UNCHANGED <<reported, chans, flags, locks, threads, prods, seqs>>
    BY <1>5 DEF Servo, vars
  <2>2. Contents'
    BY <2>1 DEF chans, threads, prods, seqs, Contents
  <2>3. Passing'
    BY <2>1 DEF reported, chans, flags, threads, prods, seqs, Passing, Unstopped,
                ReportEnds, WaitEnds, Underway, Over, ToOwn, ActiveIsLive,
                InflightIsHeld, PutsDone, Marked, RunUnderWay, Committing, Restarting
  <2> QED  BY <2>2, <2>3
<1> QED  BY <1>1, <1>2, <1>3, <1>4, <1>5 DEF Next

\* A machine that has come to rest reports itself idle and done, and accepts the
\* next command, also if the monitor may trip at any moment, with lines in error,
\* refused commands and parameters and lost status, for any number of clients
\* that run programs without a mandatory stop from their first line, and abort
\* them, if nobody pauses or steps them and their files open.
THEOREM RestAfterTrip ==
  ASSUME Straight
  PROVE  Spec => []RestIsIdle
<1>1. Init => Served /\ Replacement /\ Provided /\ Contents /\ Passing
  <2> SUFFICES ASSUME Init  PROVE Provided /\ Contents /\ Passing
    BY InitServed, InitReplacement
  <2>1. /\ \A t \in Thread : pc[t] = "idle"
        /\ Producer \subseteq Thread /\ cur \in Gen
        /\ spc = [s \in Gen |-> IF s = cur THEN "check" ELSE "exited"]
        /\ closed = Gen \ {cur} /\ queue = [s \in Gen |-> <<>>]
    BY DEF Init, Thread
  <2>2. Provided
    BY <2>1 DEF Init, Provided, FaultClosed
  <2>3. Contents
    BY <2>1, EmptySeq DEF Init, Contents, Barred
  <2>4. Passing
    BY <2>1 DEF Init, Passing, Unstopped, ReportEnds, WaitEnds, ToOwn, PutsDone,
                ActiveIsLive, InflightIsHeld
  <2> QED  BY <2>2, <2>3, <2>4
<1>2. /\ TypeOK /\ TypeOK' /\ Served /\ Replacement /\ Provided /\ Contents /\ Passing
      /\ [Next]_vars
      => Served' /\ Replacement' /\ Provided' /\ Contents' /\ Passing'
  BY StepServed, StepReplacement, StepProvided, StepPasses
<1>3. Passing /\ TypeOK => RestIsIdle
  <2> SUFFICES ASSUME Passing, TypeOK, AtRest
               PROVE  ~programBusy /\ execState \in {"Done", "Error"} /\ ~inflight
    BY DEF RestIsIdle
  <2>1. /\ \A t \in Thread : pc[t] \in {"idle", "reserved"}
        /\ spc[cur] = "select" /\ queue[cur] = <<>>
        /\ Client \subseteq Thread /\ Producer \subseteq Thread
    BY DEF AtRest, NobodyAtWork, Thread
  <2>2. ~RunUnderWay /\ \A t \in Thread : ~Committing(t)
    BY <2>1 DEF RunUnderWay, Starts, Committing, Restarting
  <2>3. ~Marked
    BY <2>1, EmptySeq DEF Marked
  <2>4. ~Underway
    BY <2>1, <2>2, <2>3 DEF Underway, Over, InHand
  <2>5. interpState = "Idle" /\ execState # "Waiting"
    BY <2>1, <2>4 DEF Passing, ReportEnds, WaitEnds
  <2>6. ~interpActive /\ ~inflight
    BY <2>1 DEF Passing, ActiveIsLive, InflightIsHeld
  <2> QED  BY <2>5, <2>6 DEF programBusy, TypeOK, ExecState
<1> QED  BY <1>1, <1>2, <1>3, TypeCorrect, PTL DEF Spec

-----------------------------------------------------------------------------
(* A paused program can be resumed.                                         *)

\* The program is not taken down while it may be paused: it is neither aborted
\* nor in error, and there is no second client to pause a Run whose file cannot
\* be re-opened.
NoTakeDown == /\ "abort" \notin Ops
              /\ Env \cap {"trip", "paramsFail", "badLine"} = {}
              /\ "openFails" \in Env => \A c, d \in Client : c = d
Untouched == /\ \A c \in Client : op[c] # "abort"
             /\ \A p \in Producer : op[p] = "none" /\ pc[p] \notin {"faultStop", "faultAbort"}

\* A recovery from a fault of the sequencer finds the fault latched until it has
\* replaced the sequencer, and nothing pauses the new one before its commit.
Recovery == {"interp", "life", "join", "spawn"}
Faulty == \A t \in Agent : op[t] # "run" /\ pc[t] \in Recovery => seqFaulted
Settled == \A t \in Agent : op[t] # "run" /\ pc[t] = "commit" =>
               interpState = "Idle" /\ pauseCh = FALSE /\ spc[cur] # "paused"
Opening == "openFails" \in Env => \A c \in Client : pc[c] = "open" =>
               pauseCh = FALSE /\ spc[cur] # "paused"
Resumable == spc[cur] = "paused" => interpState = "Paused" \/ resumeCh \/ cur \in closed

PauseInv == Untouched /\ Faulty /\ Settled /\ Opening /\ Resumable

\* The places that these parts speak of.
LEMMA ThreadRecovers ==
  ASSUME NoTakeDown, TypeOK, Served, Untouched, NEW t \in Thread, t # Monitor,
         Acquire(t) \/ ThreadStep(t) \/ (t \in Client /\ Request(t))
  PROVE  /\ Untouched'
         /\ op'[t] # "run" /\ pc'[t] \in Recovery =>
                \/ op[t] # "run" /\ pc[t] \in Recovery
                \/ WaitRunDone(t) /\ seqFaulted
         /\ op'[t] # "run" /\ pc'[t] = "commit" =>
                SpawnSequencer(t) /\ op[t] # "run"
         /\ pc'[t] = "open" => SpawnSequencer(t)
         /\ CommitTerminal(t) \/ SpawnSequencer(t) => t \in Agent
         /\ CommitTerminal(t) => op[t] # "run"
<1> USE DEF TypeOK, Goto, Begin, Return, Proceed, Recovery, Untouched, threads
<1>1. /\ Client \subseteq Thread /\ Producer \subseteq Thread
      /\ Thread = Agent \cup Producer \cup {Monitor}
      /\ Client \cap Producer = {} /\ Agent \cap Producer = {}
  BY ConstantsAssumption DEF Thread, Agent
<1>2. /\ t \in Client => ClientFits(op[t], pc[t]) /\ op[t] # "abort"
      /\ t \in Recoverer => RecovererFits(op[t], pc[t])
      /\ t \in Producer => pc[t] \in ProducerPc \cup {"idle"} /\ op[t] = "none"
  BY <1>1 DEF Served, Roles, ProducerFits
<1>3. CASE t \in Producer
  <2>1. ~(\/ Acquire(t) \/ AbortSequencer(t) \/ FlushQueue(t) \/ StopMotion(t)
          \/ FaultCheck(t) \/ WaitRunDone(t) \/ InterpReset(t) \/ JoinSequencer(t)
          \/ SpawnSequencer(t) \/ CommitTerminal(t) \/ FaultProgram(t))
    BY <1>2, <1>3 DEF Acquire, Lock, StartSequencer, AbortSequencer, FlushQueue,
          StopMotion, FaultCheck, WaitRunDone, InterpReset, JoinSequencer,
          SpawnSequencer, CommitTerminal, FaultProgram, ProducerPc
  <2>2. pc'[t] \notin Recovery \cup {"commit", "faultStop", "faultAbort", "open"} /\ op' = op
        /\ \A u \in Thread : u # t => pc'[u] = pc[u]
    <3>1. CASE ProgramStart(t) \/ SeekToLine(t) \/ NextLine(t) \/ ReadLine(t)
               \/ ExecuteLine(t)
      BY <1>1, <1>3, <3>1 DEF ProgramStart, SeekToLine, NextLine, ReadLine, ExecuteLine,
                              NoTakeDown
    <3>2. CASE EnqueueCmd(t) \/ DrainSnapshot(t) \/ DrainInflight(t)
               \/ ProgramSynch(t) \/ ProgramExit(t)
      BY <1>1, <1>3, <3>2 DEF EnqueueCmd, AfterPut, DrainSnapshot, DrainInflight,
                              ProgramSynch, ProgramExit
    <3> QED  BY <1>1, <1>3, <2>1, <3>1, <3>2 DEF ThreadStep
  <2> QED  BY <1>1, <1>3, <2>1, <2>2
<1>4. CASE t \in Agent
  <2>1. /\ op'[t] # "abort"
        /\ op'[t] # "run" /\ pc'[t] \in Recovery =>
               \/ op[t] # "run" /\ pc[t] \in Recovery
               \/ WaitRunDone(t) /\ seqFaulted
        /\ op'[t] # "run" /\ pc'[t] = "commit" => SpawnSequencer(t) /\ op[t] # "run"
        /\ pc'[t] = "open" => SpawnSequencer(t)
        /\ CommitTerminal(t) => op[t] # "run"
    <3> USE DEF Agent, ClientFits, RecovererFits, Teardown, Starts
    <3>1. CASE Lock(t) \/ FaultCheck(t)
      BY <1>1, <1>2, <1>4, <3>1 DEF Lock, AfterLock, FaultCheck, CommitTerminal
    <3>2. CASE WaitRunDone(t)
      BY <1>1, <1>2, <1>4, <3>2 DEF WaitRunDone, CommitTerminal
    <3>3. CASE InterpReset(t) \/ StartSequencer(t) \/ JoinSequencer(t)
      BY <1>1, <1>2, <1>4, <3>3 DEF InterpReset, StartSequencer, JoinSequencer,
                                    CommitTerminal
    <3>4. CASE SpawnSequencer(t)
      BY <1>1, <1>2, <1>4, <3>4 DEF SpawnSequencer, CommitTerminal
    <3>5. CASE CommitTerminal(t)
      BY <1>1, <1>2, <1>4, <3>5 DEF CommitTerminal
    <3>6. CASE t \in Client /\ (Request(t) \/ PauseMotion(t) \/ ResumeMotion(t)
                                \/ StepWake(t))
      BY <1>1, <1>2, <3>6 DEF Request, Abort, Pause, Resume, Step, Run, PauseMotion,
                              ResumeMotion, StepWake, NoTakeDown, CommitTerminal
    <3>7. CASE t \in Client /\ (RunGuard(t) \/ RunOpen(t) \/ RunLaunch(t))
      BY <1>1, <1>2, <3>7 DEF RunGuard, RunOpen, RunLaunch, CommitTerminal
    <3>8. ~(\/ AbortSequencer(t) \/ FlushQueue(t) \/ StopMotion(t)
            \/ t \in Client /\ (AbortSigStop(t) \/ AbortClobber(t) \/ AbortRestore(t)))
      BY <1>2, <1>4 DEF AbortSequencer, FlushQueue, StopMotion, AbortSigStop,
                        AbortClobber, AbortRestore
    <3> QED  BY <1>1, <1>4, <3>1, <3>2, <3>3, <3>4, <3>5, <3>6, <3>7, <3>8
             DEF Acquire, ThreadStep
  <2>2. \A u \in Thread : u # t => op'[u] = op[u] /\
            (pc'[u] = pc[u] \/ pc'[u] \in {"idle", "reserved", "start"})
    BY OthersStay
  <2> QED  BY <1>1, <1>4, <2>1, <2>2
<1> QED  BY <1>1, <1>3, <1>4

\* Who reports what about a pause.
LEMMA ThreadPauses ==
  ASSUME NoTakeDown, TypeOK, Served, Untouched, NEW t \in Thread, t # Monitor,
         ~SpawnSequencer(t), ~CommitTerminal(t),
         Acquire(t) \/ ThreadStep(t) \/ (t \in Client /\ Request(t))
  PROVE  /\ resumeCh => resumeCh'
         /\ t \notin Client => UNCHANGED pauseCh
         /\ \/ UNCHANGED <<interpState, pauseCh>>
            \/ interpState = "Reading" /\ interpState' = "Paused"
            \/ interpState = "Paused" /\ resumeCh'
            \/ interpState = "Idle" /\ t \in Client /\ RunGuard(t)
            \/ "openFails" \in Env /\ t \in Client /\ RunOpen(t)
<1> USE DEF TypeOK, Goto, Begin, Return, reported, chans
<1>1. CASE \/ Lock(t) \/ AbortSequencer(t) \/ FlushQueue(t) \/ StopMotion(t)
           \/ FaultCheck(t) \/ WaitRunDone(t) \/ InterpReset(t)
           \/ StartSequencer(t) \/ JoinSequencer(t)
  BY <1>1 DEF Lock, AbortSequencer, FlushQueue, StopMotion, FaultCheck, WaitRunDone,
              InterpReset, StartSequencer, JoinSequencer
<1>2. CASE t \in Client /\ (Request(t) \/ PauseMotion(t) \/ ResumeMotion(t)
                            \/ StepWake(t) \/ RunLaunch(t))
  BY <1>2 DEF Request, Abort, Pause, Resume, Step, Run, PauseMotion, ResumeMotion,
              StepWake, RunLaunch, NoTakeDown
<1>3. CASE t \in Client /\ (RunGuard(t) \/ RunOpen(t))
  <2>1. CASE t \in Client /\ RunGuard(t)
    <3>1. UNCHANGED <<resumeCh, pauseCh>>
      BY <2>1 DEF RunGuard
    <3>2. interpState = "Idle" \/ interpState' = interpState
      BY <2>1 DEF RunGuard, programBusy
    <3> QED  BY <2>1, <3>1, <3>2
  <2>2. CASE RunOpen(t)
    BY <1>3, <2>2 DEF RunOpen
  <2> QED  BY <1>3, <2>1, <2>2
<1>4. ~(t \in Client /\ (AbortSigStop(t) \/ AbortClobber(t) \/ AbortRestore(t)))
  <2>1. t \in Client => ClientFits(op[t], pc[t]) /\ op[t] # "abort"
    BY DEF Served, Roles, Untouched
  <2> QED  BY <2>1 DEF AbortSigStop, AbortClobber, AbortRestore, ClientFits, Teardown,
                       Starts
<1>5. CASE t \in Producer /\ (ProgramStart(t) \/ SeekToLine(t) \/ NextLine(t)
                              \/ ReadLine(t) \/ ExecuteLine(t) \/ EnqueueCmd(t))
  BY <1>5 DEF ProgramStart, SeekToLine, NextLine, ReadLine, ExecuteLine, EnqueueCmd,
              NoTakeDown
<1>6. CASE t \in Producer /\ (DrainSnapshot(t) \/ DrainInflight(t) \/ ProgramSynch(t)
                              \/ FaultProgram(t) \/ ProgramExit(t))
  BY <1>6 DEF DrainSnapshot, DrainInflight, ProgramSynch, FaultProgram, ProgramExit
<1> QED  BY <1>1, <1>2, <1>3, <1>4, <1>5, <1>6 DEF Acquire, ThreadStep

\* A recovery that has replaced the sequencer reports idle until its commit.
LEMMA ThreadSettles ==
  ASSUME NoTakeDown, TypeOK, Served, ProgramInv, FaultVisible, PauseInv,
         NEW t \in Thread, t # Monitor,
         Acquire(t) \/ ThreadStep(t) \/ (t \in Client /\ Request(t))
  PROVE  PauseInv'
<1>1. /\ Untouched'
      /\ op'[t] # "run" /\ pc'[t] \in Recovery =>
             \/ op[t] # "run" /\ pc[t] \in Recovery
             \/ WaitRunDone(t) /\ seqFaulted
      /\ op'[t] # "run" /\ pc'[t] = "commit" => SpawnSequencer(t) /\ op[t] # "run"
      /\ pc'[t] = "open" => SpawnSequencer(t)
      /\ CommitTerminal(t) \/ SpawnSequencer(t) => t \in Agent
      /\ CommitTerminal(t) => op[t] # "run"
  BY ThreadRecovers DEF PauseInv
<1>2. \A u \in Agent : u # t => op'[u] = op[u] /\ pc'[u] = pc[u]
  <2>1. Agent \subseteq Thread /\ Agent \cap Producer = {}
    BY ConstantsAssumption DEF Agent, Thread
  <2> QED  BY <2>1, OthersStay
<1>3. \A u, v \in Agent : pc[u] \in Serving /\ pc[v] \in Serving => u = v
  BY OneServes
<1>4. ~SpawnSequencer(t) =>
          /\ UNCHANGED <<cur, spc, seqFaulted>>
          /\ closed' = closed \/ closed' = closed \cup {cur}
  BY ThreadCloses
<1>5. Faulty'
  <2> SUFFICES ASSUME NEW u \in Agent, op'[u] # "run", pc'[u] \in Recovery
               PROVE  seqFaulted'
    BY DEF Faulty
  <2>1. \/ op[u] # "run" /\ pc[u] \in Recovery
        \/ u = t /\ WaitRunDone(t) /\ seqFaulted
    BY <1>1, <1>2
  <2>2. seqFaulted /\ pc[u] \in Serving
    BY <2>1 DEF PauseInv, Faulty, Recovery, Serving, WaitRunDone
  <2>3. ~SpawnSequencer(t)
    <3> SUFFICES ASSUME SpawnSequencer(t)  PROVE FALSE
      OBVIOUS
    <3>1. t \in Agent /\ pc[t] = "spawn" /\ pc'[t] \in {"open", "commit"}
      BY <1>1 DEF SpawnSequencer, Goto, TypeOK
    <3> QED  BY <1>3, <2>2, <3>1 DEF Recovery, Serving
  <2> QED  BY <1>4, <2>2, <2>3
<1>6. Settled'
  <2> SUFFICES ASSUME NEW u \in Agent, op'[u] # "run", pc'[u] = "commit"
               PROVE  interpState' = "Idle" /\ pauseCh' = FALSE /\ spc'[cur'] # "paused"
    BY DEF Settled
  <2>1. CASE SpawnSequencer(t)
    <3>1. /\ pc[t] = "spawn" /\ interpState' = interpState /\ pauseCh' = FALSE
          /\ t \in Agent
      BY <1>1, <2>1 DEF SpawnSequencer, reported
    <3>2. spc'[cur'] = "check"
      BY <2>1 DEF SpawnSequencer, Unused, TypeOK
    <3>3. u = t /\ op[t] # "run"
      BY <1>1, <1>2, <1>3, <3>1 DEF Serving
    <3>4. seqFaulted
      BY <3>1, <3>3 DEF PauseInv, Faulty, Recovery
    <3>5. ~Aborting /\ ~Starting
      BY <1>3, <3>1, <3>3 DEF PauseInv, Untouched, Aborting, Starting, Serving, Agent
    <3> QED  BY <3>1, <3>2, <3>4, <3>5 DEF FaultVisible
  <2>2. CASE ~SpawnSequencer(t)
    <3>1. u # t /\ op[u] # "run" /\ pc[u] = "commit"
      BY <1>1, <1>2, <2>2
    <3>2. interpState = "Idle" /\ pauseCh = FALSE /\ spc[cur] # "paused"
      BY <3>1 DEF PauseInv, Settled
    <3>3. ~CommitTerminal(t) /\ ~(t \in Client /\ (RunGuard(t) \/ RunOpen(t)))
      BY <1>1, <1>3, <3>1 DEF CommitTerminal, RunGuard, RunOpen, Serving, Agent
    <3>4. UNCHANGED <<interpState, pauseCh>>
      BY <2>2, <3>2, <3>3, ThreadPauses DEF PauseInv
    <3> QED  BY <1>4, <2>2, <3>2, <3>4
  <2> QED  BY <2>1, <2>2
<1>7. Resumable'
  <2>1. CASE SpawnSequencer(t)
    <3>1. spc'[cur'] = "check"
      BY <2>1 DEF SpawnSequencer, Unused, TypeOK
    <3> QED  BY <3>1 DEF Resumable
  <2>2. CASE CommitTerminal(t)
    <3>1. spc[cur] # "paused" /\ ~SpawnSequencer(t)
      BY <1>1, <2>2 DEF PauseInv, Settled, CommitTerminal, SpawnSequencer
    <3> QED  BY <1>4, <3>1 DEF Resumable
  <2>3. CASE ~SpawnSequencer(t) /\ ~CommitTerminal(t)
    <3>1. /\ resumeCh => resumeCh'
          /\ \/ UNCHANGED <<interpState, pauseCh>>
             \/ interpState = "Reading" /\ interpState' = "Paused"
             \/ interpState = "Paused" /\ resumeCh'
             \/ interpState = "Idle" /\ t \in Client /\ RunGuard(t)
             \/ "openFails" \in Env /\ t \in Client /\ RunOpen(t)
      BY <2>3, ThreadPauses DEF PauseInv
    <3>2. CASE "openFails" \in Env /\ t \in Client /\ RunOpen(t)
      <4>1. spc[cur] # "paused"
        BY <3>2 DEF PauseInv, Opening, RunOpen
      <4> QED  BY <1>4, <2>3, <4>1 DEF Resumable
    <3> QED  BY <1>4, <2>3, <3>1, <3>2 DEF PauseInv, Resumable
  <2> QED  BY <2>1, <2>2, <2>3
<1>8. Opening'
  <2> SUFFICES ASSUME "openFails" \in Env, NEW c \in Client, pc'[c] = "open"
               PROVE  pauseCh' = FALSE /\ spc'[cur'] # "paused"
    BY DEF Opening
  <2>1. c \in Agent /\ c \in Thread
    BY DEF Agent, Thread
  <2>2. CASE SpawnSequencer(t)
    BY <2>2 DEF SpawnSequencer, Unused, TypeOK
  <2>3. CASE ~SpawnSequencer(t)
    <3>1. c # t /\ pc[c] = "open"
      BY <1>1, <1>2, <2>1, <2>3
    <3>2. pauseCh = FALSE /\ spc[cur] # "paused"
      BY <3>1 DEF PauseInv, Opening
    <3>3. t \notin Client
      BY <3>1 DEF NoTakeDown
    <3>4. ~CommitTerminal(t)
      BY <1>1, <1>3, <2>1, <3>1 DEF CommitTerminal, Serving
    <3>5. UNCHANGED pauseCh
      BY <2>3, <3>3, <3>4, ThreadPauses DEF PauseInv
    <3> QED  BY <1>4, <2>3, <3>2, <3>5
  <2> QED  BY <2>2, <2>3
<1> QED  BY <1>1, <1>5, <1>6, <1>7, <1>8 DEF PauseInv

\* The sequencer blocks in a pause only when it reports it.
LEMMA SeqPauses ==
  ASSUME TypeOK, SeqStep(cur)
  PROVE  /\ cur' = cur
         /\ spc'[cur] = "paused" => interpState' = "Paused" /\ pauseCh
         /\ spc[cur] \in {"check", "refresh", "select", "exited"} =>
                /\ pauseCh' => pauseCh
                /\ interpState' = interpState \/ pauseCh
<1> USE DEF TypeOK, SeqReturn, SeqGoto, reported, chans
<1>1. CASE SeqCheckPause(cur) \/ SeqPaused(cur) \/ SeqRefresh(cur) \/ SeqSelect(cur)
  BY <1>1 DEF SeqCheckPause, SeqPaused, SeqRefresh, SeqSelect
<1>2. CASE SeqMark(cur) \/ SeqWaitTPAbort(cur) \/ SeqWaitSpace(cur)
  BY <1>2 DEF SeqMark, SeqWaitTPAbort, SeqWaitSpace
<1>3. CASE SeqWait(cur)
  BY <1>3 DEF SeqWait, WaitMotionDone, SeqFault
<1>4. CASE SeqExecMotion(cur) \/ SeqExecOther(cur)
  BY <1>4 DEF SeqExecMotion, SeqExecOther, SeqFault
<1>5. CASE SeqPost(cur) \/ SeqFaultStop(cur)
  BY <1>5 DEF SeqPost, SeqFaultStop
<1> QED  BY <1>1, <1>2, <1>3, <1>4, <1>5 DEF SeqStep

LEMMA StepPauses ==
  ASSUME NoTakeDown, TypeOK, Served, Quiet, Replacement, ProgramInv, FaultVisible,
         PauseInv, [Next]_vars
  PROVE  PauseInv'
<1>1. /\ ~(MonitorTrip \/ Acquire(Monitor) \/ ThreadStep(Monitor))
      /\ Client \subseteq Thread /\ Monitor \notin Client
      /\ Producer \subseteq Thread /\ Agent \subseteq Thread
      /\ Client \cap Recoverer = {} /\ Recoverer \cap Producer = {}
  BY StepQuiet, ConstantsAssumption DEF Thread, Agent, NoTakeDown
<1>2. CASE \/ \E c \in Client : Request(c)
           \/ \E t \in Thread : Acquire(t) \/ ThreadStep(t)
  BY <1>1, <1>2, ThreadSettles
<1>3. ASSUME NEW s \in Gen, SeqStep(s)  PROVE PauseInv'
  <2>1. /\ s = cur
        /\ seqFaulted => seqFaulted'
    BY <1>3, SeqEnds DEF Replacement, SingleSequencer
  <2>2. /\ cur' = cur
        /\ spc'[cur] = "paused" => interpState' = "Paused" /\ pauseCh
        /\ spc[cur] \in {"check", "refresh", "select", "exited"} =>
               /\ pauseCh' => pauseCh
               /\ interpState' = interpState \/ pauseCh
    BY <1>3, <2>1, SeqPauses
  <2>3. \A u \in Thread : \/ pc'[u] = pc[u] /\ op'[u] = op[u]
                          \/ u \in Recoverer /\ pc'[u] = "lock"
    <3>1. CASE UNCHANGED <<pc, op>>
      BY <3>1
    <3>2. CASE \E r \in Recoverer : pc[r] = "idle" /\ Begin(r, "recover", "lock")
      BY <3>2 DEF Begin, Goto, TypeOK
    <3> QED  BY <1>3, <3>1, <3>2, SeqStarts
  <2>4. Untouched' /\ Faulty'
    BY <1>1, <2>1, <2>3 DEF PauseInv, Untouched, Faulty, Recovery
  <2>5. Settled'
    <3> SUFFICES ASSUME NEW u \in Agent, op'[u] # "run", pc'[u] = "commit"
                 PROVE  /\ interpState' = "Idle" /\ pauseCh' = FALSE
                        /\ spc'[cur'] # "paused"
      BY DEF Settled
    <3>1. op[u] # "run" /\ pc[u] = "commit"
      BY <1>1, <2>3
    <3>2. interpState = "Idle" /\ pauseCh = FALSE /\ spc[cur] # "paused"
      BY <3>1 DEF PauseInv, Settled
    <3>3. spc[cur] \in {"check", "refresh", "select", "exited"}
      BY <1>1, <3>1, <3>2 DEF ProgramInv, Begun, Before, Fresh, Waiting
    <3>4. pauseCh' \in BOOLEAN
      BY StepType DEF TypeOK
    <3> QED  BY <2>2, <3>2, <3>3, <3>4
  <2>6. Opening'
    <3> SUFFICES ASSUME "openFails" \in Env, NEW c \in Client, pc'[c] = "open"
                 PROVE  pauseCh' = FALSE /\ spc'[cur'] # "paused"
      BY DEF Opening
    <3>1. pc[c] = "open"
      BY <1>1, <2>3
    <3>2. pauseCh = FALSE /\ spc[cur] # "paused"
      BY <3>1 DEF PauseInv, Opening
    <3>3. spc[cur] \in {"check", "refresh", "select", "exited"}
      BY <1>1, <3>1, <3>2 DEF ProgramInv, Begun, Before, Fresh, Waiting
    <3>4. pauseCh' \in BOOLEAN
      BY StepType DEF TypeOK
    <3> QED  BY <2>2, <3>2, <3>3, <3>4
  <2>7. Resumable'
    BY <2>2 DEF Resumable
  <2> QED  BY <2>4, <2>5, <2>6, <2>7 DEF PauseInv
<1>4. CASE Servo \/ UNCHANGED vars
  BY <1>4 DEF Servo, vars, reported, chans, flags, threads, seqs, PauseInv, Untouched,
              Faulty, Settled, Opening, Resumable
<1> QED  BY <1>1, <1>2, <1>3, <1>4 DEF Next

\* A sequencer that blocks in a pause can be woken, for any number of clients,
\* whatever they pause, resume and step and whatever motion refuses, as long as
\* nothing takes the program itself down, and no other client is there to pause
\* a Run whose file cannot be re-opened.
THEOREM PausesEnd ==
  ASSUME NoTakeDown
  PROVE  Spec => []PausedIsResumable
<1>1. Init => FaultDead /\ Unfaulted /\ FaultVisible /\ PauseInv
  <2> SUFFICES ASSUME Init  PROVE PauseInv
    BY DEF Init, FaultDead, Unfaulted, FaultVisible
  <2>1. /\ \A t \in Thread : pc[t] = "idle" /\ op[t] = "none"
        /\ Agent \subseteq Thread /\ Producer \subseteq Thread
        /\ Client \subseteq Thread /\ cur \in Gen
        /\ spc = [s \in Gen |-> IF s = cur THEN "check" ELSE "exited"]
    BY DEF Init, Thread, Agent
  <2> QED  BY <2>1 DEF PauseInv, Untouched, Faulty, Settled, Opening, Resumable,
                      Recovery
<1>2. /\ TypeOK /\ Replacement /\ Served /\ Quiet /\ ProgramInv
      /\ FaultDead /\ Unfaulted /\ FaultVisible /\ PauseInv /\ [Next]_vars
      => FaultDead' /\ Unfaulted' /\ FaultVisible' /\ PauseInv'
  BY StepShows, StepPauses DEF NoTakeDown
<1>3. Replacement /\ PauseInv => PausedIsResumable
  BY DEF Replacement, SingleSequencer, PauseInv, Resumable, PausedIsResumable
<1>4. "trip" \notin Env /\ "paramsFail" \notin Env
  BY DEF NoTakeDown
<1> QED  BY <1>1, <1>2, <1>3, <1>4, TypeCorrect, ProgramAlways, PTL DEF Spec
=============================================================================
