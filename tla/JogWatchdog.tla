----------------------------- MODULE JogWatchdog -----------------------------
(***************************************************************************)
(* Continuous jogs: who may leave an axis moving.  A user interface jogs   *)
(* with a command that it repeats while a button is held, and a watchdog   *)
(* in milltask's monitor stops a jog that is not repeated (commands.go,    *)
(* monitor.go).  The HAL panel jogs from pins, which send nothing while    *)
(* they are held; the watchdog leaves its jogs alone, and the panel has to *)
(* stop what it started (halui.go).  Motion moves joints in free mode and  *)
(* axes in teleop mode (command.c).                                        *)
(*                                                                         *)
(* A drive is a joint or an axis.  Both kinds share the records of the     *)
(* watchdog, which have an index only.                                     *)
(***************************************************************************)
EXTENDS Naturals, Sequences, FiniteSets

CONSTANTS
    Joints, Axes,     \* their indexes
    Buttons, Pinned,  \* of those a client has buttons for, that have jog pins
    Client, Hal,      \* user interfaces; the panel's goroutine
    Free, None,       \* nobody; no drive
    Env               \* "off", "between": what MachineOff and Level may do

ASSUME ConstantsAssumption ==
    /\ Joints \subseteq Nat /\ Axes \subseteq Nat /\ Buttons \subseteq Nat /\ Pinned \subseteq Nat
    /\ IsFiniteSet(Joints)
    /\ Hal \notin Client /\ Free \notin Client \cup {Hal}
    /\ Env \subseteq {"off", "between"}

Kind == {"joint", "axis"}
Drives(kind) == {kind} \X (IF kind = "joint" THEN Joints ELSE Axes)
Drive == Drives("joint") \cup Drives("axis")
ASSUME NoneAssumption == None \notin Drive
Own == {d \in Drive : d[2] \in Pinned}
Index == Joints \cup Axes
Caller == Client \cup {Hal}

VARIABLES
    on, mode, moving,     \* motion: enabled, what its mode moves, drives that jog
    cmdMu,                \* who holds the command mutex
    record,               \* activeJogs
    expired,              \* the watchdog's abort that is not sent yet
    held,                 \* per client: the drive whose button is held
    jog, stop,            \* per caller: a jog command's step and drive, a stop's
    old,                  \* the drives' own pins, as the panel saw them last
    oldSel,               \* per kind: the same of the selected drive's pin
    selected,             \* per kind: the selected drive
    todo                  \* the calls the panel's scan has to make

motion == <<on, mode, moving>>
calls == <<jog, stop>>
panel == <<old, oldSel, selected, todo>>
vars == <<motion, cmdMu, record, expired, held, calls, panel>>

Record == [active : BOOLEAN, kind : Kind, fromHAL : BOOLEAN]
Call == [op : {"cont", "stop"}, drive : Drive]

TypeOK ==
    /\ on \in BOOLEAN /\ mode \in Kind /\ moving \subseteq Drive
    /\ \A d \in moving : d[1] = mode
    /\ cmdMu \in Caller \cup {Free}
    /\ record \in [Index -> Record]
    /\ expired \in Drive \cup {None}
    /\ held \in [Client -> Drive \cup {None}]
    /\ jog \in [Caller -> [step : {"none", "lock", "mode"}, drive : Drive \cup {None}]]
    /\ \A c \in Caller : cmdMu = c <=> jog[c].step = "mode"
    /\ stop \in [Caller -> [step : {"none", "record", "abort"}, drive : Drive \cup {None}]]
    /\ old \in [Own -> BOOLEAN] /\ oldSel \in [Kind -> BOOLEAN]
    /\ selected \in [Kind -> Drive \cup {None}]
    /\ todo \in Seq(Call)

Idle == [step |-> "none", drive |-> None]
Inactive == [active |-> FALSE, kind |-> "joint", fromHAL |-> FALSE]

Lowest(k) == {d \in Drives(k) : \A e \in Drives(k) : d[2] <= e[2]}

Init ==
    /\ on = TRUE /\ mode = "joint" /\ moving = {}
    /\ cmdMu = Free /\ record = [i \in Index |-> Inactive] /\ expired = None
    /\ held = [c \in Client |-> None]
    /\ jog = [c \in Caller |-> Idle] /\ stop = [c \in Caller |-> Idle]
    /\ old = [d \in Own |-> FALSE] /\ oldSel = [k \in Kind |-> FALSE]
    /\ selected \in [Kind -> Drive \cup {None}]
    /\ \A k \in Kind : IF Drives(k) = {} THEN selected[k] = None ELSE selected[k] \in Lowest(k)
    /\ todo = <<>>

-----------------------------------------------------------------------------
(* Motion.                                                                 *)

InMode(d) == d[1] = mode

\* Mutant: in any mode.
JogContMutant(d, m) == on /\ moving' = moving \cup {d}

\* EMCMOT_JOG_CONT moves a drive of the mode m motion is in, and stops those of
\* the other; it is refused at a limit, by a machine that is off, and in the
\* other mode: the call names a joint or an axis and leaves the other number
\* negative, which the checks before the command's own case turn down
\* (command.c:533).
JogCont(d, m) ==
    \/ on /\ d[1] = m /\ moving' = {e \in moving : e[1] = d[1]} \cup {d}
    \/ UNCHANGED moving

\* EMCMOT_JOG_ABORT names a joint or an axis, and is for nobody in the mode of
\* the other.
JogAbort(d) == moving' = IF InMode(d) THEN moving \ {d} ELSE moving

\* Motion is disabled; what moves is stopped, without the command mutex.
MachineOff ==
    /\ "off" \in Env /\ on
    /\ on' = FALSE /\ moving' = {}
    /\ UNCHANGED <<mode, cmdMu, record, expired, held, calls, panel>>

MachineOn ==
    /\ ~on /\ cmdMu = Free /\ on' = TRUE
    /\ UNCHANGED <<mode, moving, cmdMu, record, expired, held, calls, panel>>

\* A request for free mode that motion did not honour while something moved, or
\* one of another command.
LateFree ==
    /\ mode = "axis" /\ moving = {} /\ mode' = "joint"
    /\ UNCHANGED <<on, moving, cmdMu, record, expired, held, calls, panel>>

-----------------------------------------------------------------------------
(* jogInternal.                                                            *)

Goto(c, step, d) == jog' = [jog EXCEPT ![c] = [step |-> step, drive |-> d]]
Done(c) == jog' = [jog EXCEPT ![c] = Idle]

Recorded(c, d) ==
    record' = [record EXCEPT ![d[2]] =
                 [active |-> TRUE, kind |-> d[1], fromHAL |-> c = Hal]]

\* The guards have failed: the machine is off, or a program runs.
JogRefused(c) ==
    /\ jog[c].step = "lock" /\ Done(c)
    /\ UNCHANGED <<motion, cmdMu, record, expired, held, stop, panel>>

\* Motion is in the mode of the jog: recorded and started under both mutexes.
\* Without a status of motion the jog is taken to be so too, and recorded
\* although motion will refuse it.
JogStart(c) ==
    /\ jog[c].step = "lock" /\ cmdMu = Free /\ on
    /\ Done(c) /\ Recorded(c, jog[c].drive) /\ JogCont(jog[c].drive, mode)
    /\ UNCHANGED <<on, mode, cmdMu, expired, held, stop, panel>>

\* It is not: ensureJogModeLocked asks for it and waits, with cmdMu held and
\* t.mu released.  EMCMOT_FREE stops the axes at once.
JogSwitch(c) ==
    /\ jog[c].step = "lock" /\ cmdMu = Free /\ on /\ ~InMode(jog[c].drive)
    /\ Goto(c, "mode", jog[c].drive) /\ cmdMu' = c
    /\ moving' = IF jog[c].drive[1] = "joint" THEN {} ELSE moving
    /\ UNCHANGED <<on, mode, record, expired, held, stop, panel>>

\* Motion switches when nothing moves; or the wait ends without it, and a jog
\* of an axis is given up.
JogSwitched(c) ==
    /\ jog[c].step = "mode"
    /\ \/ moving = {} /\ mode' = jog[c].drive[1]
       \/ jog[c].drive[1] = "joint" /\ UNCHANGED mode
    /\ Done(c) /\ cmdMu' = Free
    /\ Recorded(c, jog[c].drive) /\ JogCont(jog[c].drive, mode')
    /\ UNCHANGED <<on, expired, held, stop, panel>>

JogGivesUp(c) ==
    /\ jog[c].step = "mode" /\ jog[c].drive[1] = "axis"
    /\ Done(c) /\ cmdMu' = Free
    /\ UNCHANGED <<motion, record, expired, held, stop, panel>>

JogStep(c) == JogRefused(c) \/ JogStart(c) \/ JogSwitch(c) \/ JogSwitched(c) \/ JogGivesUp(c)

\* What an inactive record keeps is not read.
Forgotten(i) == record' = [record EXCEPT ![i] = Inactive]

\* A stop waits for nobody.  JOG_STOP as a type of Jog releases t.mu between the
\* record and motion ...
StopRecord(c) ==
    /\ stop[c].step = "record" /\ Forgotten(stop[c].drive[2])
    /\ stop' = [stop EXCEPT ![c].step = "abort"]
    /\ UNCHANGED <<motion, cmdMu, expired, held, jog, panel>>

StopMotion(c) ==
    /\ stop[c].step = "abort" /\ JogAbort(stop[c].drive)
    /\ stop' = [stop EXCEPT ![c] = Idle]
    /\ UNCHANGED <<on, mode, cmdMu, record, expired, held, jog, panel>>

\* ... the command JogStop does not.
StopAtOnce(c) ==
    /\ c # Hal /\ stop[c].step = "record"
    /\ Forgotten(stop[c].drive[2]) /\ JogAbort(stop[c].drive)
    /\ stop' = [stop EXCEPT ![c] = Idle]
    /\ UNCHANGED <<on, mode, cmdMu, expired, held, jog, panel>>

StopStep(c) == StopRecord(c) \/ StopMotion(c) \/ StopAtOnce(c)

-----------------------------------------------------------------------------
(* A user interface.                                                       *)

Press(c, d) ==
    /\ held[c] = None /\ stop[c] = Idle /\ d[2] \in Buttons
    /\ held' = [held EXCEPT ![c] = d]
    /\ UNCHANGED <<motion, cmdMu, record, expired, calls, panel>>

\* The first command, and its repetitions.
SendJog(c) ==
    /\ held[c] # None /\ jog[c] = Idle
    /\ Goto(c, "lock", held[c])
    /\ UNCHANGED <<motion, cmdMu, record, expired, held, stop, panel>>

\* The stop may overtake a jog that waits for the mutex.
Release(c) ==
    /\ held[c] # None
    /\ held' = [held EXCEPT ![c] = None]
    /\ stop' = [stop EXCEPT ![c] = [step |-> "record", drive |-> held[c]]]
    /\ UNCHANGED <<motion, cmdMu, record, expired, jog, panel>>

\* The client is gone, and sends no stop.
Disconnect(c) ==
    /\ held[c] # None
    /\ held' = [held EXCEPT ![c] = None]
    /\ UNCHANGED <<motion, cmdMu, record, expired, calls, panel>>

-----------------------------------------------------------------------------
(* checkJogWatchdog.                                                       *)

ExpiredMutant(i) == record[i].active /\ record[i].fromHAL
Expired(i) == record[i].active /\ ~record[i].fromHAL

\* jogTimeout passes without a repetition, which may also be late.  t.mu is
\* released between the record and motion.
Expire(i) ==
    /\ expired = None /\ Expired(i)
    /\ Forgotten(i) /\ expired' = <<record[i].kind, i>>
    /\ UNCHANGED <<motion, cmdMu, held, calls, panel>>

ExpireAbort ==
    /\ expired # None /\ JogAbort(expired) /\ expired' = None
    /\ UNCHANGED <<on, mode, cmdMu, record, held, calls, panel>>

-----------------------------------------------------------------------------
(* The HAL panel.                                                          *)

Busy == todo # <<>> \/ jog[Hal] # Idle \/ stop[Hal] # Idle

Do(pressed, d) == <<[op |-> IF pressed THEN "cont" ELSE "stop", drive |-> d]>>

\* checkJointJog, checkAxisJog: a pin that is not as it was is a jog or a stop.
ScanPin(d) ==
    /\ ~Busy /\ old' = [old EXCEPT ![d] = ~@]
    /\ todo' = Do(~old[d], d)
    /\ UNCHANGED <<motion, cmdMu, record, expired, held, calls, oldSel, selected>>

ScanSelected(k) ==
    /\ ~Busy /\ selected[k] # None
    /\ oldSel' = [oldSel EXCEPT ![k] = ~@]
    /\ todo' = Do(~oldSel[k], selected[k])
    /\ UNCHANGED <<motion, cmdMu, record, expired, held, calls, old, selected>>

\* What a pin is when it is read again: as it was, or another level since then.
Level(seen) == IF "between" \in Env THEN BOOLEAN ELSE {seen}

\* checkJointSelection: a held pin is re-targeted, joint by joint.  A joint that
\* its own pin jogs (joggingJoint) is not stopped.
Ascending(S) ==
    {s \in [1..Cardinality(S) -> S] :
        /\ \A d \in S : \E n \in DOMAIN s : s[n] = d
        /\ \A m, n \in DOMAIN s : m < n => s[m][2] < s[n][2]}

RetargetMutant(d, own) == {Do(TRUE, d)}
Retarget(d, own) ==
    {[n \in DOMAIN s |-> [op |-> IF s[n] = d THEN "cont" ELSE "stop", drive |-> s[n]]] :
        s \in Ascending(Drives("joint") \ (own \ {d}))}

SelectJoint(d) ==
    /\ ~Busy /\ selected' = [selected EXCEPT !["joint"] = d]
    /\ \E own \in {O \in SUBSET Own : \A e \in Own : (e \in O) \in Level(old[e])},
          pressed \in Level(oldSel["joint"]) :
         todo' \in IF pressed THEN Retarget(d, own) ELSE {<<>>}
    /\ UNCHANGED <<motion, cmdMu, record, expired, held, calls, old, oldSel>>

\* checkAxisSelection, SetJogAxis: the selection changes, and nothing else.
SelectAxis(d) ==
    /\ ~Busy /\ selected' = [selected EXCEPT !["axis"] = d]
    /\ UNCHANGED <<motion, cmdMu, record, expired, held, calls, old, oldSel, todo>>

\* JogFromHAL returns before the next call is made.
HalCall ==
    /\ todo # <<>> /\ jog[Hal] = Idle /\ stop[Hal] = Idle
    /\ todo' = Tail(todo)
    /\ IF Head(todo).op = "cont"
       THEN Goto(Hal, "lock", Head(todo).drive) /\ UNCHANGED stop
       ELSE /\ stop' = [stop EXCEPT ![Hal] = [step |-> "record", drive |-> Head(todo).drive]]
            /\ UNCHANGED jog
    /\ UNCHANGED <<motion, cmdMu, record, expired, held, old, oldSel, selected>>

HalStep ==
    \/ HalCall
    \/ \E d \in Own : ScanPin(d)
    \/ \E k \in Kind : ScanSelected(k)

-----------------------------------------------------------------------------
Next ==
    \/ MachineOff \/ MachineOn \/ LateFree
    \/ \E c \in Caller : JogStep(c) \/ StopStep(c)
    \/ \E c \in Client : (\E d \in Drive : Press(c, d)) \/ SendJog(c) \/ Release(c) \/ Disconnect(c)
    \/ \E i \in Index : Expire(i)
    \/ ExpireAbort
    \/ HalStep
    \/ \E d \in Drives("joint") : SelectJoint(d)
    \/ \E d \in Drives("axis") : SelectAxis(d)

Spec == Init /\ [][Next]_vars

\* The monitor's ticker looks at every record again and again; a stop that was
\* called goes on; the panel makes its calls, and they return.  Nothing is
\* assumed of user interfaces or of the pins.
Fairness ==
    /\ \A i \in Index : SF_vars(Expire(i))
    /\ WF_vars(ExpireAbort)
    /\ \A c \in Caller : WF_vars(StopStep(c))
    /\ WF_vars(HalCall)
    /\ WF_vars(JogStep(Hal))

FairSpec == Spec /\ Fairness

-----------------------------------------------------------------------------
(* Properties.                                                             *)

Pending(d) ==    \* a stop of d that will be made
    \/ expired = d
    \/ \E c \in Caller : stop[c].drive = d
    \/ \E n \in DOMAIN todo : todo[n] = [op |-> "stop", drive |-> d]

Watched(d) == LET r == record[d[2]] IN r.active /\ ~r.fromHAL /\ r.kind = d[1]

\* The panel drives d, from a pin whose release it will see and send to d.
Driven(d) == (d \in Own /\ old[d]) \/ (oldSel[d[1]] /\ selected[d[1]] = d)

\* "This prevents runaway jogs if a client disconnects" (checkJogWatchdog);
\* "HAL-pin-driven jogs are self-managing, skip watchdog" (activeJog).  Whatever
\* moves, the watchdog has its eye on it, a pin's release will stop it, or a
\* stop is on its way.
NoRunaway == \A d \in moving : Watched(d) \/ Driven(d) \/ Pending(d)

\* A drive that no button is held for stops, unless a pin has taken it over.
Deadman ==
    \A d \in Drive :
        d \in moving ~> (d \notin moving \/ Driven(d) \/ \E c \in Client : held[c] = d)
=============================================================================
