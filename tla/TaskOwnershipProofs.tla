------------------------- MODULE TaskOwnershipProofs -------------------------
(***************************************************************************)
(* Theorems about TaskSequencer: who serves a request and what it holds,   *)
(* that whoever takes the sequencer down brings one up again, and that a   *)
(* teardown waits only for a producer that was told to stop, for every     *)
(* value of the constants.  The last one leaves out the two events that    *)
(* open windows of the code ("trip", "openFails").                         *)
(***************************************************************************)
EXTENDS TaskSequencerProofs

-----------------------------------------------------------------------------
(* Who does what, and who holds cmdMu.                                     *)

\* Steps that are made with cmdMu held (by all but a producer).
Serving == {"clobber", "close", "flush", "stop", "motAbort", "waitRun", "interp",
            "life", "join", "spawn", "commit", "restore", "faulted", "guard",
            "open", "launch"}

\* From waiting for the producer to the terminal state.
Teardown == {"waitRun", "interp", "life", "join", "spawn", "commit"}

\* From the guard of a Run to its program.
Starts == {"life", "join", "spawn", "open", "launch"}

\* What a thread at step s may be there for.
ClientFits(o, s) ==
    \/ o = "none" /\ s \in {"idle", "motPause", "motResume", "stepWake"}
    \/ /\ o = "abort"
       /\ s \in Teardown \cup {"sigStop", "sigAbort", "lock", "clobber", "close",
                               "flush", "stop", "motAbort", "restore"}
    \/ o = "run" /\ s \in Starts \cup {"lock", "faulted", "guard"}
    \/ o = "frontdoor" /\ s \in Teardown
RecovererFits(o, s) ==
    \/ o = "none" /\ s = "idle"
    \/ o = "recover" /\ s \in Teardown \cup {"lock", "faulted"}
ProducerFits(o, s) ==
    \/ o = "none" /\ s \in ProducerPc \cup {"idle"}
    \/ o = "fault" /\ s \in Teardown \ {"waitRun"}

MonitorFits(o, s) ==
    \/ o = "none" /\ s = "idle"
    \/ o = "trip" /\ s \in Teardown \cup {"close", "flush", "stop", "motAbort", "lock"}

Agent == Client \cup Recoverer

Roles == /\ MonitorFits(op[Monitor], pc[Monitor])
         /\ \A c \in Client : ClientFits(op[c], pc[c])
         /\ \A r \in Recoverer : RecovererFits(op[r], pc[r])
         /\ \A p \in Producer : ProducerFits(op[p], pc[p])

\* A request or teardown that is being served holds cmdMu; the monitor's trip
\* signals without it.
Holds == /\ \A t \in Agent : pc[t] \in Serving => cmdMu = t
         /\ pc[Monitor] \in Teardown => cmdMu = Monitor

\* A Run that is past its guard has a producer in reserve, which nothing but
\* the end of that Run moves.
SlotHeld == \A c \in Client : op[c] = "run" /\ pc[c] \in Starts =>
                runDone \in Producer /\ pc[runDone] = "reserved"

Served == Roles /\ Holds /\ SlotHeld

\* A step of one thread that fits its role, and holds cmdMu if it must.
LEMMA ServedFrame ==
  ASSUME TypeOK, Served, NEW t \in Thread, NEW s, NEW o,
         pc' = [pc EXCEPT ![t] = s], op' = [op EXCEPT ![t] = o],
         runDone' = runDone, t \in Producer => pc[t] # "reserved",
         o = "run" /\ s \in Starts => op[t] = "run" /\ pc[t] \in Starts,
         t \in Client => ClientFits(o, s),
         t \in Recoverer => RecovererFits(o, s),
         t \in Producer => ProducerFits(o, s),
         t = Monitor => MonitorFits(o, s),
         \/ /\ cmdMu' = cmdMu
            /\ t \in Agent /\ s \in Serving => cmdMu = t
            /\ t = Monitor /\ s \in Teardown => cmdMu = t
         \/ cmdMu = Free /\ cmdMu' = t /\ t \notin Producer
         \/ cmdMu = t /\ t \notin Producer /\ s \notin Serving
  PROVE  Served'
<1> USE DEF TypeOK, Served, Thread, Agent
<1>1. /\ Monitor \notin Client /\ Monitor \notin Recoverer /\ Monitor \notin Producer
      /\ Free \notin Thread
      /\ Client \cap Recoverer = {} /\ Client \cap Producer = {}
      /\ Recoverer \cap Producer = {}
  BY ConstantsAssumption
<1>2. \A u \in Thread : u # t => pc'[u] = pc[u] /\ op'[u] = op[u]
  OBVIOUS
<1>3. pc'[t] = s /\ op'[t] = o
  OBVIOUS
<1>4. Roles'
  BY <1>1, <1>2, <1>3 DEF Roles
<1>5. Holds'
  BY <1>1, <1>2, <1>3 DEF Holds, Teardown, Serving
<1>6. SlotHeld'
  BY <1>1, <1>2, <1>3 DEF SlotHeld
<1> QED  BY <1>4, <1>5, <1>6

\* The steps of a request or teardown, those of RunGuard and RunLaunch apart.
LEMMA AgentServed ==
  ASSUME TypeOK, Served, NEW t \in Agent,
         \/ Lock(t) \/ AbortSequencer(t) \/ FlushQueue(t) \/ StopMotion(t)
         \/ FaultCheck(t) \/ WaitRunDone(t) \/ InterpReset(t)
         \/ StartSequencer(t) \/ JoinSequencer(t) \/ SpawnSequencer(t)
         \/ CommitTerminal(t)
         \/ /\ t \in Client
            /\ \/ Request(t) \/ AbortSigStop(t) \/ PauseMotion(t)
               \/ ResumeMotion(t) \/ StepWake(t) \/ AbortClobber(t)
               \/ AbortRestore(t) \/ RunOpen(t)
  PROVE  Served'
<1> USE DEF Goto, Begin, Return, locks, threads, Agent, Serving, Teardown, Starts
<1>1. t \in Thread /\ t # Monitor /\ t \notin Producer /\ (t \in Recoverer <=> t \notin Client)
  BY ConstantsAssumption DEF Thread
<1>2. /\ t \in Client => ClientFits(op[t], pc[t])
      /\ t \in Recoverer => RecovererFits(op[t], pc[t])
      /\ pc[t] \in Serving => cmdMu = t
  BY DEF Served, Roles, Holds
<1>3. \E s, o : /\ pc' = [pc EXCEPT ![t] = s] /\ op' = [op EXCEPT ![t] = o]
                /\ t \in Client => ClientFits(o, s)
                /\ t \in Recoverer => RecovererFits(o, s)
                /\ o = "run" /\ s \in Starts => op[t] = "run" /\ pc[t] \in Starts
                /\ \/ cmdMu' = cmdMu /\ (s \in Serving => cmdMu = t)
                   \/ cmdMu = Free /\ cmdMu' = t
                   \/ cmdMu = t /\ cmdMu' = Free /\ s \notin Serving
  <2> USE DEF ClientFits, RecovererFits
  <2>0. op = [op EXCEPT ![t] = op[t]]
    BY <1>1 DEF TypeOK
  <2>1. CASE Lock(t)
    BY <1>1, <1>2, <2>0, <2>1 DEF Lock, AfterLock
  <2>2. CASE AbortSequencer(t) \/ FlushQueue(t) \/ StopMotion(t)
    BY <1>1, <1>2, <2>0, <2>2 DEF AbortSequencer, FlushQueue, StopMotion
  <2>3. CASE FaultCheck(t)
    BY <1>1, <1>2, <2>0, <2>3 DEF FaultCheck
  <2>4. CASE WaitRunDone(t)
    BY <1>1, <1>2, <2>0, <2>4 DEF WaitRunDone
  <2>5. CASE InterpReset(t) \/ StartSequencer(t) \/ JoinSequencer(t)
    BY <1>1, <1>2, <2>0, <2>5 DEF InterpReset, StartSequencer, JoinSequencer
  <2>6. CASE SpawnSequencer(t)
    BY <1>1, <1>2, <2>0, <2>6 DEF SpawnSequencer
  <2>7. CASE CommitTerminal(t)
    BY <1>1, <1>2, <2>0, <2>7 DEF CommitTerminal
  <2>8. CASE t \in Client /\ Request(t)
    BY <1>1, <1>2, <2>0, <2>8 DEF Request, Abort, Pause, Resume, Step, Run
  <2>9. CASE t \in Client /\ (AbortSigStop(t) \/ PauseMotion(t) \/ ResumeMotion(t)
                              \/ StepWake(t) \/ AbortClobber(t))
    BY <1>1, <1>2, <2>0, <2>9
       DEF AbortSigStop, PauseMotion, ResumeMotion, StepWake, AbortClobber
  <2>10. CASE t \in Client /\ AbortRestore(t)
    <3>1. /\ pc' = [pc EXCEPT ![t] = "idle"] /\ op' = [op EXCEPT ![t] = "none"]
          /\ pc[t] = "restore" /\ cmdMu' = Free
      BY <2>10 DEF AbortRestore
    <3>2. cmdMu = t /\ "idle" \notin Serving /\ ClientFits("none", "idle")
      BY <1>2, <3>1
    <3> HIDE DEF Serving, ClientFits, RecovererFits, Starts
    <3> QED  BY <1>1, <2>10, <3>1, <3>2
  <2>11. CASE t \in Client /\ RunOpen(t)
    BY <1>1, <1>2, <2>0, <2>11 DEF RunOpen
  <2> QED  BY <2>1, <2>2, <2>3, <2>4, <2>5, <2>6, <2>7, <2>8, <2>9, <2>10, <2>11
<1>4. PICK s, o : /\ pc' = [pc EXCEPT ![t] = s] /\ op' = [op EXCEPT ![t] = o]
                  /\ t \in Client => ClientFits(o, s)
                  /\ t \in Recoverer => RecovererFits(o, s)
                  /\ o = "run" /\ s \in Starts => op[t] = "run" /\ pc[t] \in Starts
                  /\ \/ cmdMu' = cmdMu /\ (s \in Serving => cmdMu = t)
                     \/ cmdMu = Free /\ cmdMu' = t
                     \/ cmdMu = t /\ cmdMu' = Free /\ s \notin Serving
  BY <1>3
<1>5. runDone' = runDone
  BY DEF Lock, AbortSequencer, FlushQueue, StopMotion, FaultCheck, WaitRunDone,
         InterpReset, StartSequencer, JoinSequencer, SpawnSequencer,
         CommitTerminal, Request, Abort, Pause, Resume, Step, Run,
         AbortSigStop, PauseMotion, ResumeMotion, StepWake, AbortClobber,
         AbortRestore, RunOpen, prods
<1> QED  BY <1>1, <1>4, <1>5, ServedFrame

\* RunGuard and RunLaunch move a producer too.
LEMMA RunServed ==
  ASSUME TypeOK, Served, NEW c \in Client, RunGuard(c) \/ RunLaunch(c)
  PROVE  Served'
<1> USE DEF TypeOK, Goto, Return, Thread, Agent, Serving, Starts, Teardown, Served
<1>1. /\ Monitor \notin Client /\ Monitor \notin Recoverer /\ Monitor \notin Producer
      /\ Client \cap Recoverer = {} /\ Client \cap Producer = {}
      /\ Recoverer \cap Producer = {} /\ NoRun \notin Producer
  BY ConstantsAssumption
<1>2. cmdMu = c /\ ClientFits(op[c], pc[c])
  BY DEF RunGuard, RunLaunch, Holds, Roles
<1>3. CASE RunGuard(c) /\ programBusy
  <2>1. ClientFits("none", "idle")
    BY DEF ClientFits
  <2>2. /\ pc' = [pc EXCEPT ![c] = "idle"] /\ op' = [op EXCEPT ![c] = "none"]
        /\ cmdMu' = Free /\ runDone' = runDone
    BY <1>3 DEF RunGuard
  <2> QED  BY <1>1, <1>2, <2>1, <2>2, ServedFrame
<1>4. CASE RunGuard(c) /\ ~programBusy
  <2>1. PICK p \in Producer :
           /\ pc' = [q \in Thread |->
                    IF q = p THEN "reserved"
                    ELSE IF q = c THEN "life"
                    ELSE IF q \in Producer /\ pc[q] = "reserved"
                         THEN "idle" ELSE pc[q]]
           /\ pc[p] \in {"idle", "reserved"} /\ runDone' = p
    BY <1>4 DEF RunGuard
  <2>2. op' = op /\ cmdMu' = cmdMu
    BY <1>4 DEF RunGuard
  <2>3. \A u \in Agent : pc'[u] = IF u = c THEN "life" ELSE pc[u]
    BY <1>1, <2>1
  <2>4. \A q \in Producer : pc'[q] \in {pc[q], "idle", "reserved"}
                            /\ (pc'[q] # pc[q] => pc[q] \in {"idle", "reserved"})
    BY <1>1, <2>1
  <2>5. \A q \in Producer : ProducerFits(op'[q], pc'[q])
    <3> SUFFICES ASSUME NEW q \in Producer  PROVE ProducerFits(op'[q], pc'[q])
      OBVIOUS
    <3>1. ProducerFits(op[q], pc[q])
      BY DEF Roles
    <3> QED  BY <2>2, <2>4, <3>1 DEF ProducerFits, ProducerPc
  <2>6. op[c] = "run" /\ ClientFits("run", "life")
    BY <1>2, <1>4 DEF RunGuard, ClientFits
  <2>7. pc'[Monitor] = pc[Monitor] /\ op'[Monitor] = op[Monitor]
    BY <1>1, <2>1, <2>2
  <2>8. Roles'
    BY <1>1, <2>2, <2>3, <2>5, <2>6, <2>7 DEF Roles
  <2>9. Holds'
    BY <1>1, <1>2, <2>2, <2>3, <2>7 DEF Holds
  <2>10. runDone' \in Producer /\ pc'[runDone'] = "reserved"
    BY <2>1
  <2> QED  BY <2>8, <2>9, <2>10 DEF SlotHeld
<1>5. CASE RunLaunch(c)
  <2>1. /\ pc' = [pc EXCEPT ![runDone] = "start", ![c] = "idle"]
        /\ op' = [op EXCEPT ![c] = "none"]
        /\ runDone' = runDone /\ pc[c] = "launch" /\ cmdMu' = Free
    BY <1>5 DEF RunLaunch, prods
  <2>2. op[c] = "run"
    BY <1>2, <2>1 DEF ClientFits
  <2>3. runDone \in Producer /\ pc[runDone] = "reserved"
    BY <2>1, <2>2 DEF SlotHeld
  <2>4. \A u \in Agent : /\ pc'[u] = IF u = c THEN "idle" ELSE pc[u]
                         /\ op'[u] = IF u = c THEN "none" ELSE op[u]
    BY <1>1, <2>1, <2>3
  <2>5. \A q \in Producer : pc'[q] = IF q = runDone THEN "start" ELSE pc[q]
    BY <1>1, <2>1
  <2>6. \A q \in Producer : ProducerFits(op'[q], pc'[q])
    <3> SUFFICES ASSUME NEW q \in Producer  PROVE ProducerFits(op'[q], pc'[q])
      OBVIOUS
    <3>1. ProducerFits(op[q], pc[q]) /\ op'[q] = op[q]
      BY <1>1, <2>1 DEF Roles
    <3> QED  BY <2>3, <2>5, <3>1 DEF ProducerFits, ProducerPc
  <2>7. pc'[Monitor] = pc[Monitor] /\ op'[Monitor] = op[Monitor]
    BY <1>1, <2>1, <2>3
  <2>8. ClientFits("none", "idle")
    BY DEF ClientFits
  <2>9. Roles'
    BY <1>1, <2>4, <2>6, <2>7, <2>8 DEF Roles
  <2>10. Holds'
    BY <1>1, <1>2, <2>1, <2>4, <2>7 DEF Holds
  <2>11. SlotHeld'
    BY <1>2, <2>1, <2>4 DEF Holds, SlotHeld
  <2> QED  BY <2>9, <2>10, <2>11
<1> QED  BY <1>3, <1>4, <1>5

\* The producer only ever leaves the program through its own fault.
LEMMA ProducerServed ==
  ASSUME TypeOK, Served, NEW p \in Producer,
         \/ ThreadStep(p) \/ Acquire(p)
  PROVE  Served'
<1> USE DEF Goto, Begin, Proceed, threads, prods, locks
<1>1. /\ p \in Thread /\ p # Monitor /\ p \notin Client /\ p \notin Recoverer
      /\ p \notin Agent /\ Env \subseteq EnvEvents
  BY ConstantsAssumption DEF Thread, Agent
<1>2. ProducerFits(op[p], pc[p])
  BY DEF Served, Roles
<1>3. \E s, o : /\ pc' = [pc EXCEPT ![p] = s] /\ op' = [op EXCEPT ![p] = o]
                /\ pc[p] # "reserved" /\ ProducerFits(o, s)
                /\ cmdMu' = cmdMu /\ runDone' = runDone /\ o # "run"
  <2>0. op = [op EXCEPT ![p] = op[p]] /\ op[p] # "run"
    BY <1>1, <1>2 DEF TypeOK, ProducerFits
  <2> USE DEF ProducerFits, ProducerPc, Teardown
  <2>1. CASE InterpReset(p) \/ StartSequencer(p) \/ JoinSequencer(p)
    BY <1>2, <2>0, <2>1 DEF InterpReset, StartSequencer, JoinSequencer
  <2>2. CASE SpawnSequencer(p)
    BY <1>2, <2>0, <2>2 DEF SpawnSequencer
  <2>3. CASE CommitTerminal(p)
    BY <1>2, <2>0, <2>3 DEF CommitTerminal
  <2>4. CASE Lock(p) \/ AbortSequencer(p) \/ FlushQueue(p) \/ StopMotion(p)
             \/ FaultCheck(p) \/ WaitRunDone(p)
    BY <1>2, <2>4
       DEF Lock, AbortSequencer, FlushQueue, StopMotion, FaultCheck, WaitRunDone
  <2>5. CASE ProgramStart(p) \/ SeekToLine(p) \/ NextLine(p) \/ ReadLine(p)
    BY <1>2, <2>0, <2>5 DEF ProgramStart, SeekToLine, NextLine, ReadLine
  <2>6. CASE ExecuteLine(p)
    BY <1>2, <2>0, <2>6 DEF ExecuteLine
  <2>7. CASE EnqueueCmd(p)
    BY <1>2, <2>0, <2>7 DEF EnqueueCmd, AfterPut
  <2>8. CASE DrainSnapshot(p) \/ DrainInflight(p) \/ ProgramSynch(p)
    BY <1>2, <2>0, <2>8 DEF DrainSnapshot, DrainInflight, ProgramSynch
  <2>9. CASE FaultProgram(p) \/ ProgramExit(p)
    BY <1>2, <2>0, <2>9 DEF FaultProgram, ProgramExit
  <2> QED  BY <1>1, <2>1, <2>2, <2>3, <2>4, <2>5, <2>6, <2>7, <2>8, <2>9
           DEF ThreadStep, Acquire
<1>4. PICK s, o : /\ pc' = [pc EXCEPT ![p] = s] /\ op' = [op EXCEPT ![p] = o]
                  /\ pc[p] # "reserved" /\ ProducerFits(o, s)
                  /\ cmdMu' = cmdMu /\ runDone' = runDone /\ o # "run"
  BY <1>3
<1> QED  BY <1>1, <1>4, ServedFrame

\* A sequencer fault only brings a recoverer to the lock.
LEMMA SeqServed ==
  ASSUME TypeOK, Served, NEW s \in Gen, SeqStep(s)
  PROVE  Served'
<1>1. /\ UNCHANGED <<cmdMu, runDone>>
      /\ UNCHANGED <<pc, op>> \/ \E r \in Recoverer : Begin(r, "recover", "lock") /\ pc[r] = "idle"
  <2> USE DEF SeqReturn, reported, chans, flags, locks, threads, prods
  <2>1. CASE SeqCheckPause(s) \/ SeqPaused(s) \/ SeqRefresh(s) \/ SeqSelect(s)
    BY <2>1 DEF SeqCheckPause, SeqPaused, SeqRefresh, SeqSelect
  <2>2. CASE SeqMark(s) \/ SeqWaitTPAbort(s) \/ SeqWaitSpace(s)
    BY <2>2 DEF SeqMark, SeqWaitTPAbort, SeqWaitSpace
  <2>3. CASE SeqWait(s)
    BY <2>3 DEF SeqWait, WaitMotionDone, SeqFault
  <2>4. CASE SeqExecMotion(s)
    BY <2>4 DEF SeqExecMotion, SeqFault
  <2>5. CASE SeqExecOther(s)
    BY <2>5 DEF SeqExecOther, SeqFault
  <2>6. CASE SeqPost(s) \/ SeqFaultStop(s)
    BY <2>6 DEF SeqPost, SeqFaultStop
  <2> QED  BY <2>1, <2>2, <2>3, <2>4, <2>5, <2>6 DEF SeqStep
<1>2. CASE UNCHANGED <<pc, op>>
  BY <1>1, <1>2 DEF Served, Roles, Holds, SlotHeld
<1>3. ASSUME NEW r \in Recoverer, Begin(r, "recover", "lock")  PROVE Served'
  <2>1. r \in Thread /\ r # Monitor /\ r \notin Client /\ r \notin Producer
    BY ConstantsAssumption DEF Thread
  <2>2. RecovererFits("recover", "lock")
    BY DEF RecovererFits
  <2> QED  BY <1>1, <1>3, <2>1, <2>2, ServedFrame DEF Begin, Goto, Serving
<1> QED  BY <1>1, <1>2, <1>3

\* The monitor takes cmdMu between its signals and its teardown.
LEMMA MonitorServed ==
  ASSUME TypeOK, Served, MonitorTrip \/ Acquire(Monitor) \/ ThreadStep(Monitor)
  PROVE  Served'
<1> USE DEF Goto, Begin, Return, locks, threads, Teardown, Serving
<1>1. /\ Monitor \in Thread /\ Monitor \notin Agent /\ Monitor \notin Client
      /\ Monitor \notin Recoverer /\ Monitor \notin Producer
  BY ConstantsAssumption DEF Thread, Agent
<1>2. /\ MonitorFits(op[Monitor], pc[Monitor])
      /\ pc[Monitor] \in Teardown => cmdMu = Monitor
  BY DEF Served, Roles, Holds
<1>3. /\ \A u \in Thread : u # Monitor => pc'[u] = pc[u] /\ op'[u] = op[u]
      /\ MonitorFits(op'[Monitor], pc'[Monitor])
      /\ \/ cmdMu' = cmdMu /\ (pc'[Monitor] \in Teardown => cmdMu = Monitor)
         \/ cmdMu = Free /\ cmdMu' = Monitor
         \/ cmdMu = Monitor /\ pc'[Monitor] \notin Serving
  <2> USE DEF MonitorFits, TypeOK
  <2>1. CASE MonitorTrip
    BY <1>1, <1>2, <2>1 DEF MonitorTrip
  <2>2. CASE Lock(Monitor)
    BY <1>1, <1>2, <2>2 DEF Lock, AfterLock
  <2>3. CASE \/ AbortSequencer(Monitor) \/ FlushQueue(Monitor) \/ StopMotion(Monitor)
             \/ FaultCheck(Monitor) \/ WaitRunDone(Monitor)
    BY <1>1, <1>2, <2>3
       DEF AbortSequencer, FlushQueue, StopMotion, FaultCheck, WaitRunDone
  <2>4. CASE \/ InterpReset(Monitor) \/ StartSequencer(Monitor)
             \/ JoinSequencer(Monitor)
    BY <1>1, <1>2, <2>4 DEF InterpReset, StartSequencer, JoinSequencer
  <2>5. CASE SpawnSequencer(Monitor) \/ CommitTerminal(Monitor)
    BY <1>1, <1>2, <2>5 DEF SpawnSequencer, CommitTerminal
  <2> QED  BY <1>1, <2>1, <2>2, <2>3, <2>4, <2>5 DEF Acquire, ThreadStep
<1>4. /\ \A u \in Client \cup Recoverer \cup Producer : pc'[u] = pc[u] /\ op'[u] = op[u]
      /\ \A u \in Agent : pc'[u] \in Serving => cmdMu' = u
      /\ pc'[Monitor] \in Teardown => cmdMu' = Monitor
  BY <1>1, <1>3, ConstantsAssumption DEF Thread, Agent, Served, Holds
<1>5. runDone' = runDone
  BY <1>1
     DEF MonitorTrip, Acquire, ThreadStep, Lock, AbortSequencer, FlushQueue,
         StopMotion, FaultCheck, WaitRunDone, InterpReset, StartSequencer,
         JoinSequencer, SpawnSequencer, CommitTerminal, prods
<1> QED  BY <1>3, <1>4, <1>5 DEF Served, Roles, Holds, SlotHeld

\* Every step of the system leaves every thread in its role and cmdMu with the
\* one it serves.
LEMMA StepServed ==
  ASSUME TypeOK, Served, [Next]_vars
  PROVE  Served'
<1>1. CASE \E c \in Client : Request(c)
  BY <1>1, AgentServed DEF Agent
<1>2. CASE MonitorTrip
  BY <1>2, MonitorServed
<1>3. ASSUME NEW t \in Agent, Acquire(t) \/ ThreadStep(t)  PROVE Served'
  <2>1. t \notin Producer
    BY ConstantsAssumption DEF Agent
  <2> QED  BY <1>3, <2>1, AgentServed, RunServed DEF Acquire, ThreadStep
<1>4. ASSUME NEW p \in Producer, Acquire(p) \/ ThreadStep(p)  PROVE Served'
  BY <1>4, ProducerServed
<1>5. ASSUME Acquire(Monitor) \/ ThreadStep(Monitor)  PROVE Served'
  BY <1>5, MonitorServed
<1>6. CASE \E s \in Gen : SeqStep(s)
  BY <1>6, SeqServed
<1>7. CASE Servo \/ UNCHANGED vars
  BY <1>7 DEF Servo, vars, threads, locks, prods, Served, Roles, Holds, SlotHeld
<1> QED  BY <1>1, <1>2, <1>3, <1>4, <1>5, <1>6, <1>7 DEF Next, Thread, Agent

LEMMA InitServed == Init => Served
<1> SUFFICES ASSUME Init  PROVE Served
  OBVIOUS
<1>1. \A t \in Thread : pc[t] = "idle" /\ op[t] = "none"
  BY DEF Init
<1>2. Client \subseteq Thread /\ Recoverer \subseteq Thread
      /\ Producer \subseteq Thread /\ Monitor \in Thread
  BY DEF Thread
<1>3. Roles
  BY <1>1, <1>2 DEF Roles, ClientFits, RecovererFits, ProducerFits,
                         MonitorFits
<1>4. Holds /\ SlotHeld
  BY <1>1, <1>2 DEF Holds, SlotHeld, Agent, Serving, Teardown
<1> QED  BY <1>3, <1>4 DEF Served

-----------------------------------------------------------------------------
(* A teardown waits for a producer that was told to stop.                  *)

\* The monitor has seen no error.
Quiet == pc[Monitor] = "idle"

\* What a step of one thread leaves of the others: all but the producer that a
\* Run reserves, drops or launches.
LEMMA OthersStay ==
  ASSUME TypeOK, Served, NEW t \in Thread,
         \/ Acquire(t) \/ ThreadStep(t) \/ (t \in Client /\ Request(t))
         \/ (t = Monitor /\ MonitorTrip)
  PROVE  \A u \in Thread : u # t =>
            /\ op'[u] = op[u]
            /\ \/ pc'[u] = pc[u]
               \/ /\ u \in Producer /\ pc[u] \in {"idle", "reserved"}
                  /\ pc'[u] \in {"idle", "reserved", "start"}
                  /\ t \in Client /\ (RunGuard(t) \/ RunLaunch(t))
<1> USE DEF TypeOK, Goto, Begin, Return, Proceed, threads
<1>1. CASE t \in Client /\ RunGuard(t)
  BY <1>1 DEF RunGuard
<1>2. CASE t \in Client /\ RunLaunch(t)
  <2>1. op[t] = "run" /\ t \in Agent
    BY <1>2, ConstantsAssumption
       DEF RunLaunch, Served, Roles, ClientFits, Teardown, Agent
  <2>2. runDone \in Producer /\ pc[runDone] = "reserved"
    BY <1>2, <2>1 DEF RunLaunch, Served, SlotHeld, Starts
  <2> QED  BY <1>2, <2>2 DEF RunLaunch
<1>3. CASE \/ Lock(t) \/ StartSequencer(t) \/ AbortSequencer(t) \/ FlushQueue(t)
           \/ StopMotion(t) \/ FaultCheck(t) \/ WaitRunDone(t) \/ InterpReset(t)
  BY <1>3 DEF Lock, StartSequencer, AbortSequencer, FlushQueue, StopMotion,
              FaultCheck, WaitRunDone, InterpReset
<1>4. CASE \/ JoinSequencer(t) \/ SpawnSequencer(t) \/ CommitTerminal(t)
           \/ t = Monitor /\ MonitorTrip
  BY <1>4 DEF JoinSequencer, SpawnSequencer, CommitTerminal, MonitorTrip
<1>5. CASE t \in Client /\ (Request(t) \/ AbortSigStop(t) \/ PauseMotion(t)
                            \/ ResumeMotion(t) \/ StepWake(t) \/ AbortClobber(t)
                            \/ AbortRestore(t) \/ RunOpen(t))
  BY <1>5 DEF Request, Abort, Pause, Resume, Step, Run, AbortSigStop, PauseMotion,
              ResumeMotion, StepWake, AbortClobber, AbortRestore, RunOpen
<1>6. CASE t \in Producer /\ (ProgramStart(t) \/ SeekToLine(t) \/ NextLine(t)
                              \/ ReadLine(t) \/ ExecuteLine(t) \/ EnqueueCmd(t))
  <2>1. \E step : pc' = [pc EXCEPT ![t] = step]
    BY <1>6 DEF ProgramStart, SeekToLine, NextLine, ReadLine, ExecuteLine, EnqueueCmd
  <2>2. op' = op
    BY <1>6 DEF ProgramStart, SeekToLine, NextLine, ReadLine, ExecuteLine, EnqueueCmd
  <2> QED  BY <2>1, <2>2
<1>7. CASE t \in Producer /\ (DrainSnapshot(t) \/ DrainInflight(t)
                              \/ ProgramSynch(t) \/ FaultProgram(t) \/ ProgramExit(t))
  BY <1>7 DEF DrainSnapshot, DrainInflight, ProgramSynch, FaultProgram, ProgramExit
<1> QED  BY <1>1, <1>2, <1>3, <1>4, <1>5, <1>6, <1>7 DEF Acquire, ThreadStep

\* A step of the sequencer starts a recoverer at most.
LEMMA SeqStarts ==
  ASSUME TypeOK, NEW s \in Gen, SeqStep(s)
  PROVE  /\ runDone' = runDone /\ cmdMu' = cmdMu
         /\ \/ UNCHANGED <<pc, op>>
            \/ /\ SeqFault(s)
               /\ \E r \in Recoverer : pc[r] = "idle" /\ Begin(r, "recover", "lock")
<1> USE DEF SeqReturn, SeqFault, threads, prods, locks
<1>1. CASE SeqCheckPause(s) \/ SeqPaused(s) \/ SeqRefresh(s) \/ SeqSelect(s)
  BY <1>1 DEF SeqCheckPause, SeqPaused, SeqRefresh, SeqSelect
<1>2. CASE SeqMark(s) \/ SeqWaitTPAbort(s) \/ SeqWaitSpace(s) \/ SeqWait(s)
  BY <1>2 DEF SeqMark, SeqWaitTPAbort, SeqWaitSpace, SeqWait, WaitMotionDone
<1>3. CASE SeqExecMotion(s) \/ SeqExecOther(s)
  BY <1>3 DEF SeqExecMotion, SeqExecOther
<1>4. CASE SeqPost(s) \/ SeqFaultStop(s)
  BY <1>4 DEF SeqPost, SeqFaultStop
<1> QED  BY <1>1, <1>2, <1>3, <1>4 DEF SeqStep

\* Without the trip the monitor takes no step.
LEMMA StepQuiet ==
  ASSUME "trip" \notin Env, TypeOK, Served, Quiet, [Next]_vars
  PROVE  /\ Quiet'
         /\ ~(MonitorTrip \/ Acquire(Monitor) \/ ThreadStep(Monitor))
<1> USE DEF Quiet
<1>1. /\ Monitor \in Thread /\ Monitor \notin Agent /\ Monitor \notin Producer
      /\ Monitor \notin Client /\ Monitor \notin Recoverer /\ Client \subseteq Thread
  BY ConstantsAssumption DEF Thread, Agent
<1>2. ~(MonitorTrip \/ Acquire(Monitor) \/ ThreadStep(Monitor))
  BY <1>1 DEF MonitorTrip, Acquire, ThreadStep, Lock, StartSequencer,
              AbortSequencer, FlushQueue, StopMotion, FaultCheck, WaitRunDone,
              InterpReset, JoinSequencer, SpawnSequencer, CommitTerminal
<1>3. CASE \E s \in Gen : SeqStep(s)
  <2>1. UNCHANGED pc \/ \E r \in Recoverer : Begin(r, "recover", "lock")
    BY <1>3, SeqStarts
  <2> QED  BY <1>1, <1>2, <2>1 DEF Begin, Goto, TypeOK
<1>4. CASE \/ \E c \in Client : Request(c)
           \/ \E t \in Thread : Acquire(t) \/ ThreadStep(t)
  <2>1. PICK t \in Thread : /\ t # Monitor
                            /\ Acquire(t) \/ ThreadStep(t) \/ (t \in Client /\ Request(t))
    BY <1>1, <1>2, <1>4
  <2> QED  BY <1>1, <1>2, <2>1, OthersStay
<1>5. CASE Servo \/ UNCHANGED vars
  BY <1>2, <1>5 DEF Servo, vars, threads
<1> QED  BY <1>2, <1>3, <1>4, <1>5 DEF Next

\* A program whose goroutine has been launched and has not returned.
Live(p) == pc[p] \notin {"idle", "reserved"}

\* A program listens to the current abort channel or to one that is closed.
Listening == \A p \in Producer : Live(p) => mine[p] \in closed \cup {cur}

\* Whoever replaces the generation has closed the channel of the old one.
ReplacedClosed == \A t \in Thread : pc[t] \in {"join", "spawn"} => cur \in closed

\* A fault has closed the channel of its generation.
FaultClosed == seqFaulted => cur \in closed

\* A teardown that waits, or is about to, has every program told.
Told == \A t \in Agent : pc[t] \in {"flush", "stop", "motAbort", "waitRun"} =>
            \A p \in Producer : Live(p) => mine[p] \in closed

Signal == Listening /\ ReplacedClosed /\ FaultClosed /\ Told

\* A step that closes channels at most, and brings nobody to a new place.
LEMMA SignalFrame ==
  ASSUME Signal, cur' = cur, closed \subseteq closed', seqFaulted' = seqFaulted,
         \A p \in Producer : pc'[p] \notin {"idle", "reserved"} =>
             pc[p] \notin {"idle", "reserved"} /\ mine'[p] = mine[p],
         \A t \in Thread : pc'[t] \in {"join", "spawn"} => pc[t] \in {"join", "spawn"},
         \A t \in Agent : pc'[t] \in {"flush", "stop", "motAbort", "waitRun"} =>
                              pc[t] \in {"flush", "stop", "motAbort", "waitRun"}
  PROVE  Signal'
BY DEF Signal, Listening, ReplacedClosed, FaultClosed, Told, Live

\* The steps of requests and programs that this covers.
LEMMA ThreadSignal ==
  ASSUME TypeOK, Served, Signal, NEW t \in Thread, t # Monitor,
         \/ Lock(t) \/ FlushQueue(t) \/ StopMotion(t) \/ WaitRunDone(t)
         \/ InterpReset(t) \/ JoinSequencer(t) \/ CommitTerminal(t)
         \/ /\ t \in Client
            /\ \/ Request(t) \/ AbortSigStop(t) \/ PauseMotion(t)
               \/ ResumeMotion(t) \/ StepWake(t) \/ AbortClobber(t)
               \/ AbortRestore(t) \/ RunGuard(t) \/ RunOpen(t)
         \/ /\ t \in Producer
            /\ \/ ProgramStart(t) \/ SeekToLine(t) \/ NextLine(t)
               \/ ReadLine(t) \/ ExecuteLine(t) \/ EnqueueCmd(t)
               \/ DrainSnapshot(t) \/ DrainInflight(t) \/ ProgramSynch(t)
               \/ FaultProgram(t) \/ ProgramExit(t)
  PROVE  Signal'
<1> USE DEF TypeOK, Goto, Begin, Return, Proceed, reported, chans, flags,
            locks, threads, prods, seqs
<1>0. /\ t \in Agent \/ t \in Producer
      /\ t \in Agent => t \notin Producer
      /\ Agent \subseteq Thread /\ Producer \subseteq Thread
  BY ConstantsAssumption DEF Agent, Thread
<1>a. /\ t \in Client => ClientFits(op[t], pc[t])
      /\ t \in Recoverer => RecovererFits(op[t], pc[t])
      /\ t \in Producer => ProducerFits(op[t], pc[t])
  BY DEF Served, Roles
<1> DEFINE Places ==
             /\ \A p \in Producer : pc'[p] \notin {"idle", "reserved"} =>
                    pc[p] \notin {"idle", "reserved"} /\ mine'[p] = mine[p]
             /\ \A u \in Thread : pc'[u] \in {"join", "spawn"} =>
                                      pc[u] \in {"join", "spawn"}
             /\ \A u \in Agent : pc'[u] \in {"flush", "stop", "motAbort", "waitRun"} =>
                                     pc[u] \in {"flush", "stop", "motAbort", "waitRun"}
           Same == cur' = cur /\ closed \subseteq closed' /\ seqFaulted' = seqFaulted
<1>1. CASE Lock(t)
  <2>1. op[t] # "trip" /\ op[t] # "none"
    BY <1>0, <1>1, <1>a DEF Lock, ClientFits, RecovererFits, ProducerFits,
                            ProducerPc, Teardown, Agent, Starts
  <2>2. Same /\ Places
    BY <1>0, <1>1, <1>a, <2>1
       DEF Lock, AfterLock, ProducerFits, ProducerPc, Teardown
  <2> QED  BY <2>2, SignalFrame
<1>2. CASE FlushQueue(t) \/ StopMotion(t) \/ WaitRunDone(t) \/ InterpReset(t)
  <2>1. Same /\ Places
    BY <1>0, <1>2 DEF FlushQueue, StopMotion, MarkAbort, SendAbort, WaitRunDone, InterpReset
  <2> QED  BY <2>1, SignalFrame
<1>3. CASE JoinSequencer(t) \/ CommitTerminal(t)
  <2>1. Same /\ Places
    BY <1>0, <1>3 DEF JoinSequencer, CommitTerminal
  <2> QED  BY <2>1, SignalFrame
<1>4. CASE t \in Client /\ Request(t)
  <2>1. Same /\ Places
    BY <1>0, <1>4 DEF Request, Abort, Pause, Resume, Step, Run, Agent
  <2> QED  BY <2>1, SignalFrame
<1>5. CASE t \in Client /\ (AbortSigStop(t) \/ PauseMotion(t) \/ ResumeMotion(t)
                            \/ StepWake(t) \/ AbortClobber(t) \/ AbortRestore(t)
                            \/ RunOpen(t))
  <2>1. Same /\ Places
    BY <1>0, <1>5 DEF AbortSigStop, MarkAbort, SendAbort, PauseMotion, ResumeMotion,
                      StepWake, AbortClobber, AbortRestore, RunOpen, Agent
  <2> QED  BY <2>1, SignalFrame
<1>6. CASE t \in Client /\ RunGuard(t)
  <2>1. Same /\ Places
    BY <1>0, <1>6 DEF RunGuard, Agent
  <2> QED  BY <2>1, SignalFrame
<1>7. CASE t \in Producer /\ (ProgramStart(t) \/ SeekToLine(t) \/ NextLine(t)
                              \/ ReadLine(t) \/ ExecuteLine(t))
  <2>1. Same /\ Places
    BY <1>0, <1>7, ConstantsAssumption
       DEF ProgramStart, SeekToLine, NextLine, ReadLine, ExecuteLine, EnvEvents
  <2> QED  BY <2>1, SignalFrame
<1>8. CASE t \in Producer /\ EnqueueCmd(t)
  <2>1. Same /\ Places
    BY <1>0, <1>8 DEF EnqueueCmd, AfterPut
  <2> QED  BY <2>1, SignalFrame
<1>9. CASE t \in Producer /\ (DrainSnapshot(t) \/ DrainInflight(t)
                              \/ ProgramSynch(t) \/ FaultProgram(t) \/ ProgramExit(t))
  <2>1. Same /\ Places
    BY <1>0, <1>9 DEF DrainSnapshot, DrainInflight, ProgramSynch, FaultProgram,
                      MarkAbort, SendAbort, ProgramExit
  <2> QED  BY <2>1, SignalFrame
<1> QED  BY <1>1, <1>2, <1>3, <1>4, <1>5, <1>6, <1>7, <1>8, <1>9

\* The steps that bring a thread to a new place: the channel is closed there,
\* or was when the fault was latched, or nobody waits.
LEMMA PlaceSignal ==
  ASSUME TypeOK, Served, Replacement, Signal, NEW t \in Thread, t # Monitor,
         \/ AbortSequencer(t) \/ FaultCheck(t) \/ StartSequencer(t)
         \/ SpawnSequencer(t) \/ (t \in Client /\ RunLaunch(t))
  PROVE  Signal'
<1> USE DEF TypeOK, Goto, Begin, Return, reported, chans, flags, locks,
            threads, prods, seqs
<1>0. /\ Agent \subseteq Thread /\ Producer \subseteq Thread
      /\ Agent \cap Producer = {} /\ Client \subseteq Agent
  BY ConstantsAssumption DEF Agent, Thread
<1>1. CASE AbortSequencer(t)
  BY <1>0, <1>1 DEF AbortSequencer, Signal, Listening, ReplacedClosed,
                    FaultClosed, Told, Live
<1>2. CASE FaultCheck(t)
  <2>1. /\ UNCHANGED <<cur, closed, seqFaulted, mine>>
        /\ \A u \in Thread : u # t => pc'[u] = pc[u]
        /\ pc'[t] \in {"waitRun", "guard", "idle"} /\ pc[t] = "faulted"
        /\ pc'[t] = "waitRun" => seqFaulted
    BY <1>2 DEF FaultCheck
  <2>2. t \notin Producer
    <3>1. t \in Producer => ProducerFits(op[t], pc[t])
      BY DEF Served, Roles
    <3> QED  BY <2>1, <3>1 DEF ProducerFits, ProducerPc, Teardown
  <2> QED  BY <1>0, <2>1, <2>2
           DEF Signal, Listening, ReplacedClosed, FaultClosed, Told, Live
<1>3. CASE StartSequencer(t)
  BY <1>0, <1>3 DEF StartSequencer, Signal, Listening, ReplacedClosed,
                    FaultClosed, Told, Live
<1>4. CASE SpawnSequencer(t)
  <2>1. PICK g \in Unused : cur' = g /\ closed' = closed \ {g}
    BY <1>4 DEF SpawnSequencer
  <2>2. cur \in closed /\ g # cur /\ \A p \in Producer : mine[p] # g
    BY <1>4, <2>1 DEF SpawnSequencer, Signal, ReplacedClosed, Unused
  <2>3. \A u \in Thread : u # t => pc[u] \notin {"join", "spawn"}
    BY <1>4 DEF SpawnSequencer, Replacement, ReplacerOwns
  <2>4. /\ mine' = mine /\ seqFaulted' = FALSE
        /\ \A u \in Thread : u # t => pc'[u] = pc[u]
        /\ pc'[t] \in {"open", "commit"} /\ pc[t] = "spawn"
    BY <1>4 DEF SpawnSequencer
  <2>5. \A p \in Producer : pc'[p] \notin {"idle", "reserved"} =>
                                pc[p] \notin {"idle", "reserved"}
    BY <1>0, <2>4
  <2>6. Listening'
    BY <2>1, <2>2, <2>4, <2>5 DEF Signal, Listening, Live
  <2>7. Told'
    BY <1>0, <2>1, <2>2, <2>4, <2>5 DEF Signal, Told, Live
  <2>8. ReplacedClosed' /\ FaultClosed'
    BY <2>3, <2>4 DEF ReplacedClosed, FaultClosed
  <2> QED  BY <2>6, <2>7, <2>8 DEF Signal
<1>5. CASE t \in Client /\ RunLaunch(t)
  <2>1. /\ UNCHANGED <<cur, closed, seqFaulted>> /\ pc[t] = "launch"
        /\ mine' = [mine EXCEPT ![runDone] = cur]
        /\ pc' = [pc EXCEPT ![runDone] = "start", ![t] = "idle"]
    BY <1>5 DEF RunLaunch
  <2>2. runDone \in Producer /\ cmdMu = t
    <3>1. op[t] = "run"
      BY <1>5, <2>1 DEF Served, Roles, ClientFits, Teardown
    <3> QED  BY <1>0, <1>5, <2>1, <3>1
             DEF Served, Holds, SlotHeld, Starts, Serving
  <2>3. \A u \in Agent : pc[u] \in {"flush", "stop", "motAbort", "waitRun"} => u = t
    BY <2>2 DEF Served, Holds, Serving
  <2>4. \A u \in Agent : pc'[u] \notin {"flush", "stop", "motAbort", "waitRun"}
    BY <1>0, <1>5, <2>1, <2>2, <2>3
  <2>5. Told'
    BY <2>4 DEF Told
  <2>6. \A p \in Producer : p # runDone => pc'[p] = pc[p] /\ mine'[p] = mine[p]
    BY <1>0, <1>5, <2>1
  <2>7. Listening'
    BY <1>0, <2>1, <2>2, <2>6 DEF Signal, Listening, Live
  <2>8. ReplacedClosed' /\ FaultClosed'
    BY <1>0, <2>1, <2>2 DEF Signal, ReplacedClosed, FaultClosed
  <2> QED  BY <2>5, <2>7, <2>8 DEF Signal
<1> QED  BY <1>1, <1>2, <1>3, <1>4, <1>5

\* A sequencer fault closes the channel as it latches; no other step of the
\* sequencer touches any of this.
LEMMA SeqSignal ==
  ASSUME TypeOK, Replacement, Signal, NEW s \in Gen, SeqStep(s)
  PROVE  Signal'
<1>1. /\ UNCHANGED <<cur, mine>>
      /\ \/ UNCHANGED <<closed, seqFaulted>>
         \/ closed' = closed \cup {cur} /\ seqFaulted'
      /\ UNCHANGED pc \/ \E r \in Recoverer : Begin(r, "recover", "lock")
  <2> USE DEF SeqReturn, reported, chans, flags, threads, prods
  <2>1. CASE SeqCheckPause(s) \/ SeqPaused(s) \/ SeqRefresh(s) \/ SeqSelect(s)
    BY <2>1 DEF SeqCheckPause, SeqPaused, SeqRefresh, SeqSelect
  <2>2. CASE SeqMark(s) \/ SeqWaitTPAbort(s) \/ SeqWaitSpace(s)
    BY <2>2 DEF SeqMark, SeqWaitTPAbort, SeqWaitSpace
  <2>3. CASE SeqWait(s)
    BY <2>3 DEF SeqWait, WaitMotionDone, SeqFault
  <2>4. CASE SeqExecMotion(s)
    BY <2>4 DEF SeqExecMotion, SeqFault
  <2>5. CASE SeqExecOther(s)
    BY <2>5 DEF SeqExecOther, SeqFault
  <2>6. CASE SeqPost(s) \/ SeqFaultStop(s)
    BY <2>6 DEF SeqPost, SeqFaultStop
  <2> QED  BY <2>1, <2>2, <2>3, <2>4, <2>5, <2>6 DEF SeqStep
<1>2. /\ Agent \subseteq Thread /\ Producer \subseteq Thread
      /\ Recoverer \cap Producer = {}
  BY ConstantsAssumption DEF Agent, Thread
<1>3. /\ \A p \in Producer : pc'[p] = pc[p]
      /\ \A t \in Thread : pc'[t] \in {"join", "spawn", "flush", "stop", "motAbort", "waitRun"}
                               => pc'[t] = pc[t]
  BY <1>1, <1>2 DEF Begin, Goto, TypeOK
<1> QED  BY <1>1, <1>2, <1>3
         DEF Signal, Listening, ReplacedClosed, FaultClosed, Told, Live

\* A producer in reserve belongs to a Run that is being served: if the file
\* can always be re-opened, no Run leaves one behind.
ReserveServed == runDone \in Producer /\ pc[runDone] = "reserved" =>
                     \E c \in Client : op[c] = "run" /\ pc[c] \in Starts

LEMMA ReserveFrame ==
  ASSUME ReserveServed, runDone' = runDone,
         \A p \in Producer : pc'[p] = "reserved" => pc[p] = "reserved",
         \A c \in Client : op[c] = "run" /\ pc[c] \in Starts =>
                               op'[c] = "run" /\ pc'[c] \in Starts
  PROVE  ReserveServed'
BY DEF ReserveServed

LEMMA StepReserve ==
  ASSUME "trip" \notin Env, "openFails" \notin Env, TypeOK, Served, Quiet,
         ReserveServed, [Next]_vars
  PROVE  ReserveServed'
<1> USE DEF TypeOK, Goto, Begin, Return, locks, threads, prods
<1>0. /\ Client \subseteq Thread /\ Recoverer \subseteq Thread
      /\ Producer \subseteq Thread
      /\ Client \cap Recoverer = {} /\ Client \cap Producer = {}
      /\ Recoverer \cap Producer = {} /\ Monitor \notin Client
  BY ConstantsAssumption DEF Thread
<1>1. CASE \E c \in Client : Request(c)
  <2>1. PICK c \in Client : Request(c)
    BY <1>1
  <2>2. /\ runDone' = runDone
        /\ \A p \in Producer : pc'[p] = pc[p]
        /\ \A u \in Client : u # c => pc'[u] = pc[u] /\ op'[u] = op[u]
        /\ pc[c] = "idle"
    BY <1>0, <2>1 DEF Request, Abort, Pause, Resume, Step, Run
  <2> QED  BY <2>2, ReserveFrame DEF Starts
<1>2. CASE MonitorTrip
  BY <1>2 DEF MonitorTrip
<1>3. ASSUME NEW c \in Client, RunGuard(c)  PROVE ReserveServed'
  <2>1. op[c] = "run"
    BY <1>3 DEF RunGuard, Served, Roles, ClientFits, Teardown
  <2>2. CASE programBusy
    <3>1. /\ runDone' = runDone /\ pc[c] = "guard"
          /\ pc' = [pc EXCEPT ![c] = "idle"] /\ op' = [op EXCEPT ![c] = "none"]
      BY <1>3, <2>2 DEF RunGuard
    <3> QED  BY <1>0, <3>1, ReserveFrame DEF Starts
  <2>3. CASE ~programBusy
    <3>1. pc'[c] = "life" /\ op'[c] = "run"
      BY <1>0, <1>3, <2>1, <2>3 DEF RunGuard
    <3> QED  BY <3>1 DEF ReserveServed, Starts
  <2> QED  BY <2>2, <2>3
<1>4. ASSUME NEW c \in Client, RunLaunch(c)  PROVE ReserveServed'
  <2>1. op[c] = "run" /\ runDone \in Producer
    BY <1>4 DEF RunLaunch, Served, SlotHeld, Roles, ClientFits, Teardown, Starts
  <2>2. pc'[runDone'] = "start"
    BY <1>0, <1>4, <2>1 DEF RunLaunch
  <2> QED  BY <2>2 DEF ReserveServed
<1>5. ASSUME NEW c \in Client,
             \/ AbortSigStop(c) \/ PauseMotion(c) \/ ResumeMotion(c) \/ StepWake(c)
             \/ AbortClobber(c) \/ AbortRestore(c) \/ RunOpen(c)
      PROVE  ReserveServed'
  <2>1. /\ runDone' = runDone
        /\ \A p \in Producer : pc'[p] = pc[p]
        /\ \A u \in Client : u # c => pc'[u] = pc[u] /\ op'[u] = op[u]
    BY <1>0, <1>5 DEF AbortSigStop, PauseMotion, ResumeMotion, StepWake,
                      AbortClobber, AbortRestore, RunOpen
  <2>2. pc[c] \in Starts => op'[c] = op[c] /\ pc'[c] \in Starts
    BY <1>0, <1>5 DEF AbortSigStop, PauseMotion, ResumeMotion, StepWake,
                      AbortClobber, AbortRestore, RunOpen, Starts
  <2> QED  BY <2>1, <2>2, ReserveFrame
<1>6. ASSUME NEW t \in Agent,
             \/ Lock(t) \/ AbortSequencer(t) \/ FlushQueue(t) \/ StopMotion(t)
             \/ FaultCheck(t) \/ WaitRunDone(t) \/ InterpReset(t)
             \/ StartSequencer(t) \/ JoinSequencer(t) \/ SpawnSequencer(t)
             \/ CommitTerminal(t)
      PROVE  ReserveServed'
  <2>1. t \in Thread /\ t \notin Producer
    BY <1>0 DEF Agent, Thread
  <2>2. /\ runDone' = runDone
        /\ \A u \in Thread : u # t => pc'[u] = pc[u] /\ op'[u] = op[u]
    BY <1>6 DEF Lock, AbortSequencer, FlushQueue, StopMotion, FaultCheck,
                WaitRunDone, InterpReset, StartSequencer, JoinSequencer,
                SpawnSequencer, CommitTerminal
  <2>3. op[t] = "run" /\ pc[t] \in Starts => op'[t] = "run" /\ pc'[t] \in Starts
    BY <1>6, <2>1 DEF Lock, AbortSequencer, FlushQueue, StopMotion, FaultCheck,
                WaitRunDone, InterpReset, StartSequencer, JoinSequencer,
                SpawnSequencer, CommitTerminal, Starts
  <2> QED  BY <1>0, <2>1, <2>2, <2>3, ReserveFrame
<1>7. ASSUME NEW p \in Producer, Acquire(p) \/ ThreadStep(p)
      PROVE  ReserveServed'
  <2>1. /\ runDone' = runDone
        /\ \A u \in Thread : u # p => pc'[u] = pc[u] /\ op'[u] = op[u]
        /\ pc'[p] # "reserved"
    <3>1. ProducerFits(op[p], pc[p]) /\ p \notin Client /\ Env \subseteq EnvEvents
      BY <1>0, ConstantsAssumption DEF Served, Roles
    <3>2. CASE \/ Lock(p) \/ AbortSequencer(p) \/ FlushQueue(p) \/ StopMotion(p)
               \/ FaultCheck(p) \/ WaitRunDone(p) \/ InterpReset(p)
               \/ StartSequencer(p) \/ JoinSequencer(p) \/ SpawnSequencer(p)
               \/ CommitTerminal(p)
      BY <1>0, <3>1, <3>2
         DEF Lock, AfterLock, AbortSequencer, FlushQueue, StopMotion, FaultCheck,
             WaitRunDone, InterpReset, StartSequencer, JoinSequencer,
             SpawnSequencer, CommitTerminal
    <3>3. CASE \/ ProgramStart(p) \/ SeekToLine(p) \/ NextLine(p) \/ ReadLine(p)
               \/ ExecuteLine(p)
      BY <1>0, <3>1, <3>3
         DEF ProgramStart, SeekToLine, NextLine, ReadLine, ExecuteLine, Proceed,
             EnvEvents
    <3>4. CASE \/ EnqueueCmd(p) \/ DrainSnapshot(p) \/ DrainInflight(p)
               \/ ProgramSynch(p) \/ FaultProgram(p) \/ ProgramExit(p)
      BY <1>0, <3>4 DEF EnqueueCmd, AfterPut, Proceed, DrainSnapshot,
                        DrainInflight, ProgramSynch, FaultProgram, ProgramExit
    <3> QED  BY <1>7, <3>1, <3>2, <3>3, <3>4 DEF Acquire, ThreadStep
  <2> QED  BY <1>0, <2>1, ReserveFrame
<1>8. ~(Acquire(Monitor) \/ ThreadStep(Monitor))
  BY StepQuiet
<1>9. ASSUME NEW s \in Gen, SeqStep(s)  PROVE ReserveServed'
  <2>1. /\ runDone' = runDone
        /\ UNCHANGED <<pc, op>> \/ \E r \in Recoverer : Begin(r, "recover", "lock")
    BY <1>9, SeqStarts
  <2>2. /\ \A p \in Producer : pc'[p] = pc[p]
        /\ \A c \in Client : pc'[c] = pc[c] /\ op'[c] = op[c]
    BY <1>0, <2>1
  <2> QED  BY <2>1, <2>2, ReserveFrame
<1>10. CASE Servo \/ UNCHANGED vars
  BY <1>10 DEF Servo, vars, ReserveServed
<1>11. ASSUME NEW t \in Thread, Acquire(t) \/ ThreadStep(t)  PROVE ReserveServed'
  <2>1. CASE t \in Agent
    <3>1. t \notin Producer
      BY <1>0, <2>1 DEF Agent
    <3> QED  BY <1>3, <1>4, <1>5, <1>6, <1>11, <2>1, <3>1 DEF Acquire, ThreadStep
  <2> QED  BY <1>7, <1>8, <1>11, <2>1 DEF Thread, Agent
<1> QED  BY <1>1, <1>2, <1>9, <1>10, <1>11 DEF Next

\* As long as the monitor does not trip and the program can be opened, every
\* abort and every recovery that waits for a producer waits for one that was
\* told to stop, for any number of clients, programs and generations.
THEOREM TeardownsEnd ==
  ASSUME "trip" \notin Env, "openFails" \notin Env
  PROVE  Spec => []WaitersSignalled
<1>1. Init => Replacement /\ Served /\ Quiet /\ Signal /\ ReserveServed
  <2> SUFFICES ASSUME Init  PROVE Quiet /\ Signal /\ ReserveServed
    BY InitServed, InitReplacement
  <2>1. /\ \A t \in Thread : pc[t] = "idle"
        /\ runDone = NoRun /\ seqFaulted = FALSE
    BY DEF Init
  <2>2. /\ Agent \subseteq Thread /\ Producer \subseteq Thread
        /\ Monitor \in Thread /\ NoRun \notin Producer
    BY ConstantsAssumption DEF Agent, Thread
  <2> QED  BY <2>1, <2>2
           DEF Signal, Listening,
               ReplacedClosed, FaultClosed, Told, ReserveServed, Live, Quiet
<1>2. TypeOK /\ Replacement /\ [Next]_vars => Replacement'
  BY StepReplacement
<1>3. TypeOK /\ Served /\ [Next]_vars => Served'
  BY StepServed
<1>4. TypeOK /\ Served /\ Quiet /\ Replacement /\ Signal /\ [Next]_vars => Signal'
  <2> SUFFICES ASSUME TypeOK, Served, Quiet, Replacement, Signal, [Next]_vars
               PROVE  Signal'
    OBVIOUS
  <2>1. Client \subseteq Thread /\ Monitor \notin Client /\ Monitor \notin Producer
    BY ConstantsAssumption DEF Thread
  <2>2. CASE \E c \in Client : Request(c)
    BY <2>1, <2>2, ThreadSignal
  <2>3. CASE MonitorTrip
    BY <2>3 DEF MonitorTrip
  <2>4. ASSUME NEW t \in Thread, Acquire(t) \/ ThreadStep(t)  PROVE Signal'
    <3>1. t # Monitor
      BY <2>4, StepQuiet
    <3> QED  BY <2>4, <3>1, ThreadSignal, PlaceSignal DEF Acquire, ThreadStep
  <2>5. CASE \E s \in Gen : SeqStep(s)
    BY <2>5, SeqSignal
  <2>6. CASE Servo \/ UNCHANGED vars
    BY <2>6 DEF Servo, vars, chans, flags, threads, prods, Signal, Listening,
                ReplacedClosed, FaultClosed, Told, Live
  <2> QED  BY <2>2, <2>3, <2>4, <2>5, <2>6 DEF Next
<1>5. /\ TypeOK /\ Served /\ Quiet /\ [Next]_vars => Quiet'
      /\ TypeOK /\ Served /\ Quiet /\ ReserveServed /\ [Next]_vars => ReserveServed'
  BY StepQuiet, StepReserve
<1>6. TypeOK /\ Served /\ Quiet /\ Signal /\ ReserveServed => WaitersSignalled
  <2> SUFFICES ASSUME TypeOK, Served, Quiet, Signal, ReserveServed,
                      NEW t \in Thread, pc[t] = "waitRun", ~RunDoneClosed
               PROVE  pc[runDone] # "reserved" /\ mine[runDone] \in closed
    BY DEF WaitersSignalled
  <2>1. t \in Agent /\ cmdMu = t
    <3>1. t \in Producer => ProducerFits(op[t], pc[t])
      BY DEF Served, Roles
    <3>2. t \notin Producer /\ t # Monitor
      BY <3>1 DEF Quiet, ProducerFits, ProducerPc, Teardown
    <3> QED  BY <3>2 DEF Thread, Agent, Served, Holds, Serving
  <2>2. runDone \in Producer /\ pc[runDone] # "idle"
    BY DEF RunDoneClosed
  <2>3. pc[runDone] # "reserved"
    <3> SUFFICES ASSUME pc[runDone] = "reserved"  PROVE FALSE
      OBVIOUS
    <3>1. PICK c \in Client : pc[c] \in Starts
      BY <2>2 DEF ReserveServed
    <3>2. cmdMu = c
      BY <3>1 DEF Served, Holds, Agent, Starts, Serving
    <3> QED  BY <2>1, <3>1, <3>2 DEF Starts
  <2> QED  BY <2>1, <2>2, <2>3 DEF Signal, Told, Live
<1> QED  BY <1>1, <1>2, <1>3, <1>4, <1>5, <1>6, TypeCorrect, PTL DEF Spec

-----------------------------------------------------------------------------
(* Whoever takes the sequencer down brings one up again.                    *)

\* A thread that is bound to reach the spawn of a new generation.
Restarting(t) ==
    \/ pc[t] \in {"clobber", "close", "flush", "stop", "motAbort", "interp", "life",
                  "join", "spawn"}
    \/ pc[t] \in {"sigStop", "sigAbort", "lock", "waitRun"} /\ op[t] \in {"abort", "trip"}
    \/ pc[t] \in {"lock", "faulted", "waitRun"} /\ seqFaulted

\* A closed channel, and with it a latched fault or a goroutine that has ended,
\* is one that such a thread is on its way to replace.
Provided == /\ cur \in closed => \E t \in Thread : Restarting(t)
            /\ FaultClosed
            /\ spc[cur] \in {"exited", "faultStop", "faultAbort"} => cur \in closed

\* The steps of threads but for the spawn: none ends a goroutine, and one that
\* closes the channel goes on to replace it.
LEMMA ThreadCloses ==
  ASSUME TypeOK, NEW t \in Thread, ~SpawnSequencer(t),
         \/ Acquire(t) \/ ThreadStep(t) \/ (t \in Client /\ Request(t))
         \/ (t = Monitor /\ MonitorTrip)
  PROVE  /\ UNCHANGED <<cur, spc, seqFaulted>>
         /\ closed' = closed \/ (closed' = closed \cup {cur} /\ Restarting(t)')
<1> USE DEF TypeOK, Goto, Begin, chans, flags, seqs, threads
<1>1. CASE AbortSequencer(t) \/ StartSequencer(t)
  BY <1>1 DEF AbortSequencer, StartSequencer, Restarting
<1>2. CASE t \in Client /\ Request(t)
  BY <1>2 DEF Request, Abort, Pause, Resume, Step, Run, Restarting
<1>3. CASE Lock(t) \/ FlushQueue(t) \/ StopMotion(t) \/ FaultCheck(t) \/ WaitRunDone(t)
  BY <1>3 DEF Lock, FlushQueue, StopMotion, MarkAbort, SendAbort, FaultCheck, WaitRunDone
<1>4. CASE InterpReset(t) \/ JoinSequencer(t) \/ CommitTerminal(t) \/ MonitorTrip
  BY <1>4 DEF InterpReset, JoinSequencer, CommitTerminal, MonitorTrip
<1>5. CASE t \in Client /\ (AbortSigStop(t) \/ PauseMotion(t) \/ ResumeMotion(t)
                            \/ StepWake(t) \/ AbortClobber(t) \/ AbortRestore(t)
                            \/ RunGuard(t) \/ RunOpen(t) \/ RunLaunch(t))
  BY <1>5 DEF AbortSigStop, MarkAbort, SendAbort, PauseMotion, ResumeMotion, StepWake,
              AbortClobber, AbortRestore, RunGuard, RunOpen, RunLaunch
<1>6. CASE t \in Producer /\ (ProgramStart(t) \/ SeekToLine(t) \/ NextLine(t)
                              \/ ReadLine(t) \/ ExecuteLine(t) \/ EnqueueCmd(t))
  BY <1>6 DEF ProgramStart, SeekToLine, NextLine, ReadLine, ExecuteLine, EnqueueCmd
<1>7. CASE t \in Producer /\ (DrainSnapshot(t) \/ DrainInflight(t)
                              \/ ProgramSynch(t) \/ FaultProgram(t) \/ ProgramExit(t))
  BY <1>7 DEF DrainSnapshot, DrainInflight, ProgramSynch, FaultProgram,
              MarkAbort, SendAbort, ProgramExit
<1> QED  BY <1>1, <1>2, <1>3, <1>4, <1>5, <1>6, <1>7 DEF Acquire, ThreadStep

\* A thread on its way to the spawn stays on it.
LEMMA RestartGoesOn ==
  ASSUME TypeOK, Served, NEW t \in Thread, Restarting(t), ~SpawnSequencer(t),
         seqFaulted' = seqFaulted,
         \/ Acquire(t) \/ ThreadStep(t) \/ (t \in Client /\ Request(t))
         \/ (t = Monitor /\ MonitorTrip)
  PROVE  Restarting(t)'
<1> USE DEF TypeOK, Goto, Begin, Restarting, threads
<1>1. CASE Lock(t)
  BY <1>1 DEF Lock, AfterLock
<1>2. CASE StartSequencer(t) \/ AbortSequencer(t) \/ FlushQueue(t)
  BY <1>2 DEF StartSequencer, AbortSequencer, FlushQueue
<1>3. CASE FaultCheck(t)
  BY <1>3 DEF FaultCheck
<1>9. CASE WaitRunDone(t)
  BY <1>9 DEF WaitRunDone
<1>10. CASE InterpReset(t) \/ JoinSequencer(t)
  BY <1>10 DEF InterpReset, JoinSequencer
<1>11. CASE StopMotion(t)
  <2>1. op[t] \in {"abort", "trip"}
    BY <1>11, ConstantsAssumption
       DEF StopMotion, Thread, Served, Roles, ClientFits, RecovererFits,
           ProducerFits, ProducerPc, MonitorFits, Teardown, Starts
  <2>2. /\ op' = op
        /\ pc' \in {[pc EXCEPT ![t] = step] : step \in {"motAbort", "lock", "waitRun"}}
    BY <1>11 DEF StopMotion
  <2> QED  BY <2>1, <2>2
<1>4. CASE CommitTerminal(t) \/ (t = Monitor /\ MonitorTrip)
  BY <1>4 DEF CommitTerminal, MonitorTrip
<1>5. CASE t \in Client /\ (AbortSigStop(t) \/ AbortClobber(t))
  <2>1. pc[t] \in {"sigStop", "sigAbort"} => op[t] \in {"abort", "trip"}
    BY DEF Restarting
  <2> QED  BY <1>5, <2>1 DEF AbortSigStop, AbortClobber
<1>6. CASE t \in Client /\ (Request(t) \/ PauseMotion(t) \/ ResumeMotion(t)
                            \/ StepWake(t) \/ AbortRestore(t) \/ RunGuard(t)
                            \/ RunOpen(t) \/ RunLaunch(t))
  BY <1>6 DEF Request, Abort, Pause, Resume, Step, Run, PauseMotion, ResumeMotion,
              StepWake, AbortRestore, RunGuard, RunOpen, RunLaunch
<1>7. CASE t \in Producer /\ (ProgramStart(t) \/ SeekToLine(t) \/ NextLine(t)
                              \/ ReadLine(t) \/ ExecuteLine(t) \/ EnqueueCmd(t))
  BY <1>7 DEF ProgramStart, SeekToLine, NextLine, ReadLine, ExecuteLine, EnqueueCmd
<1>8. CASE t \in Producer /\ (DrainSnapshot(t) \/ DrainInflight(t)
                              \/ ProgramSynch(t) \/ FaultProgram(t) \/ ProgramExit(t))
  BY <1>8 DEF DrainSnapshot, DrainInflight, ProgramSynch, FaultProgram, ProgramExit
<1> QED  BY <1>1, <1>2, <1>3, <1>4, <1>5, <1>6, <1>7, <1>8, <1>9, <1>10,
         <1>11 DEF Acquire, ThreadStep

\* What the sequencer's goroutine does to its generation: it ends when it was
\* told to, or after a fault, which starts a recovery.
LEMMA SeqEnds ==
  ASSUME TypeOK, NEW s \in Gen, SeqStep(s)
  PROVE  /\ spc[s] # "exited" /\ cur' = cur /\ \A g \in Gen : g # s => spc'[g] = spc[g]
         /\ \/ UNCHANGED <<closed, seqFaulted>>
            \/ closed' = closed \cup {cur} /\ seqFaulted' /\ SeqFault(s)
         /\ spc'[s] \in {"exited", "faultStop", "faultAbort"} =>
                s \in closed \/ spc[s] \in {"faultStop", "faultAbort"} \/ SeqFault(s)
<1> USE DEF TypeOK, SeqReturn, SeqGoto, chans, flags
<1>1. CASE SeqCheckPause(s) \/ SeqPaused(s) \/ SeqRefresh(s) \/ SeqSelect(s)
  BY <1>1 DEF SeqCheckPause, SeqPaused, SeqRefresh, SeqSelect
<1>2. CASE SeqMark(s) \/ SeqWaitTPAbort(s) \/ SeqWaitSpace(s)
  BY <1>2 DEF SeqMark, SeqWaitTPAbort, SeqWaitSpace
<1>3. CASE SeqWait(s)
  BY <1>3 DEF SeqWait, WaitMotionDone, SeqFault
<1>4. CASE SeqExecMotion(s)
  BY <1>4 DEF SeqExecMotion, SeqFault
<1>5. CASE SeqExecOther(s)
  BY <1>5 DEF SeqExecOther, SeqFault
<1>6. CASE SeqPost(s) \/ SeqFaultStop(s)
  BY <1>6 DEF SeqPost, SeqFaultStop
<1> QED  BY <1>1, <1>2, <1>3, <1>4, <1>5, <1>6 DEF SeqStep

LEMMA StepProvided ==
  ASSUME TypeOK, Served, Replacement, Provided, [Next]_vars
  PROVE  Provided'
<1>1. ASSUME NEW t \in Thread, SpawnSequencer(t)  PROVE Provided'
  <2>1. /\ cur' \in Gen /\ cur' \notin closed' /\ seqFaulted' = FALSE
        /\ spc'[cur'] = "check"
    BY <1>1 DEF SpawnSequencer, Unused, TypeOK
  <2> QED  BY <2>1 DEF Provided, FaultClosed
<1>2. ASSUME NEW t \in Thread, ~SpawnSequencer(t),
             \/ Acquire(t) \/ ThreadStep(t) \/ (t \in Client /\ Request(t))
             \/ (t = Monitor /\ MonitorTrip)
      PROVE  Provided'
  <2>1. /\ UNCHANGED <<cur, spc, seqFaulted>>
        /\ closed' = closed \/ (closed' = closed \cup {cur} /\ Restarting(t)')
    BY <1>2, ThreadCloses
  <2>2. ASSUME NEW u \in Thread, Restarting(u)  PROVE Restarting(u)'
    <3>1. CASE u = t
      BY <1>2, <2>1, <2>2, <3>1, RestartGoesOn
    <3>2. CASE u # t
      <4>1. op'[u] = op[u] /\ (pc'[u] = pc[u] \/ pc[u] \in {"idle", "reserved"})
        BY <1>2, <3>2, OthersStay
      <4> QED  BY <2>1, <2>2, <4>1 DEF Restarting
    <3> QED  BY <3>1, <3>2
  <2> QED  BY <2>1, <2>2 DEF Provided, FaultClosed
<1>3. ASSUME NEW s \in Gen, SeqStep(s)  PROVE Provided'
  <2>1. /\ s = cur /\ spc[s] # "exited" /\ cur' = cur
        /\ \/ UNCHANGED <<closed, seqFaulted>>
           \/ closed' = closed \cup {cur} /\ seqFaulted' /\ SeqFault(s)
        /\ spc'[s] \in {"exited", "faultStop", "faultAbort"} =>
               s \in closed \/ spc[s] \in {"faultStop", "faultAbort"} \/ SeqFault(s)
    BY <1>3, SeqEnds DEF Replacement, SingleSequencer
  <2>2. CASE SeqFault(s)
    <3>1. /\ closed' = closed \cup {cur} /\ seqFaulted' = TRUE
          /\ \E r \in Recoverer : Begin(r, "recover", "lock")
      BY <2>2 DEF SeqFault
    <3>2. PICK r \in Recoverer : pc' = [pc EXCEPT ![r] = "lock"]
      BY <3>1 DEF Begin, Goto
    <3>3. Restarting(r)' /\ r \in Thread
      BY <3>1, <3>2 DEF Restarting, TypeOK, Thread
    <3> QED  BY <2>1, <3>1, <3>3 DEF Provided, FaultClosed, TypeOK
  <2>3. CASE ~SeqFault(s)
    <3>1. UNCHANGED <<closed, seqFaulted, cur, pc, op>>
      BY <1>3, <2>1, <2>3, SeqStarts
    <3> QED  BY <2>1, <2>3, <3>1 DEF Provided, FaultClosed, Restarting
  <2> QED  BY <2>2, <2>3
<1>4. CASE Servo \/ UNCHANGED vars
  BY <1>4 DEF Servo, vars, chans, flags, threads, seqs, Provided, FaultClosed,
              Restarting
<1> QED  BY <1>1, <1>2, <1>3, <1>4 DEF Next, Thread

\* Once every request, program and teardown is over there is a sequencer that
\* takes commands, whatever aborts, errors and faults went before, for any
\* number of clients, programs and generations.
THEOREM AlwaysServes == Spec => []SequencerServes
<1>1. Init => Served /\ Replacement /\ Provided
  <2> SUFFICES ASSUME Init  PROVE Provided
    BY InitServed, InitReplacement
  <2>1. /\ \A t \in Thread : pc[t] = "idle"
        /\ seqFaulted = FALSE /\ cur \in Gen /\ closed = Gen \ {cur}
        /\ spc = [s \in Gen |-> IF s = cur THEN "check" ELSE "exited"]
    BY DEF Init
  <2> QED  BY <2>1 DEF Provided, FaultClosed
<1>2. TypeOK /\ Served /\ Replacement /\ [Next]_vars => Served' /\ Replacement'
  BY StepServed, StepReplacement
<1>3. TypeOK /\ Served /\ Replacement /\ Provided /\ [Next]_vars => Provided'
  BY StepProvided
<1>4. Provided => SequencerServes
  BY DEF Provided, FaultClosed, Restarting, SequencerServes, NobodyAtWork
<1> QED  BY <1>1, <1>2, <1>3, <1>4, TypeCorrect, PTL DEF Spec
=============================================================================
