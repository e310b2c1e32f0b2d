------------------------- MODULE JogWatchdogProofs -------------------------
(***************************************************************************)
(* Theorems about JogWatchdog: its types, and that nothing runs away, for  *)
(* any number of joints, jog pins, buttons and user interfaces.            *)
(***************************************************************************)
EXTENDS JogWatchdog, FiniteSetTheorems, SequenceTheorems, TLAPS

(* The inductive invariants.                                               *)

\* What a step refers to is there.
Named ==
    /\ \A i \in Index : record[i].active => <<record[i].kind, i>> \in Drive
    /\ \A c \in Caller : jog[c].step # "none" => jog[c].drive \in Drive
    /\ \A c \in Caller : stop[c].step # "none" => stop[c].drive \in Drive
    /\ \A k \in Kind : selected[k] \in Drives(k) \cup {None}
    /\ \A k \in Kind : Drives(k) # {} => selected[k] # None

Shape == TypeOK /\ Named

\* A client with a button held has sent its last stop.
Released == \A c \in Client : held[c] # None => stop[c] = Idle

\* What the panel starts, or is about to start, is what its pins drive.
Calls == \A n \in DOMAIN todo : todo[n].op = "cont" => Driven(todo[n].drive)
FromPins == Calls /\ (jog[Hal].step # "none" => Driven(jog[Hal].drive))

Covered == NoRunaway /\ Released /\ FromPins

-----------------------------------------------------------------------------
(* Drives.                                                                 *)

\* A drive is its kind and its index.
LEMMA DriveIs ==
  ASSUME NEW d \in Drive
  PROVE  /\ d = <<d[1], d[2]>> /\ d[1] \in Kind /\ d[2] \in Index /\ d \in Drives(d[1])
         /\ d[1] = "joint" => d[2] \in Joints
         /\ d[1] = "axis" => d[2] \in Axes
  BY DEF Drive, Drives, Kind, Index

\* The drives of a kind are drives.
LEMMA DrivesAre ==
  ASSUME NEW k \in Kind, NEW d \in Drives(k)  PROVE d \in Drive /\ d[1] = k
  BY DEF Drive, Drives, Kind

\* No caller is nobody.
LEMMA CallersAre == Free \notin Caller /\ Hal \in Caller /\ Client \subseteq Caller /\ Hal \notin Client
  BY ConstantsAssumption DEF Caller

-----------------------------------------------------------------------------
(* Types.                                                                  *)

LEMMA InitShape == Init => Shape
<1> SUFFICES ASSUME Init  PROVE Shape
  OBVIOUS
<1>1. \A k \in Kind : selected[k] \in Drives(k) \cup {None} /\ (Drives(k) # {} => selected[k] # None)
  BY DrivesAre, NoneAssumption DEF Init, Lowest
<1>2. todo \in Seq(Call)
  BY DEF Init
<1>3. TypeOK
  BY <1>2, CallersAre DEF Init, TypeOK, Idle, Inactive, Record, Kind
<1> QED  BY <1>1, <1>3 DEF Init, Shape, Named, Idle, Inactive

\* JogCont keeps what moves within the mode.
LEMMA JogContShape ==
  ASSUME NEW d \in Drive, NEW m \in Kind, moving \subseteq Drive, JogCont(d, m),
         moving = {} \/ \A e \in moving : e[1] = m
  PROVE  moving' \subseteq Drive /\ \A e \in moving' : e[1] = m
  BY DEF JogCont

\* A recorded jog is that of a drive.
LEMMA RecordedShape ==
  ASSUME Shape, NEW c \in Caller, NEW d \in Drive, Recorded(c, d)
  PROVE  /\ record' \in [Index -> Record]
         /\ \A i \in Index : record'[i].active => <<record'[i].kind, i>> \in Drive
<1>1. record'[d[2]] = [active |-> TRUE, kind |-> d[1], fromHAL |-> c = Hal]
  BY DriveIs DEF Recorded, Shape, TypeOK
<1>2. \A i \in Index : i # d[2] => record'[i] = record[i]
  BY DriveIs DEF Recorded, Shape, TypeOK
<1>3. record' \in [Index -> Record]
  BY DriveIs DEF Recorded, Shape, TypeOK, Record
<1> QED  BY <1>1, <1>2, <1>3, DriveIs DEF Shape, Named

\* A forgotten one is nobody's.
LEMMA ForgottenShape ==
  ASSUME Shape, NEW i \in Index, Forgotten(i)
  PROVE  /\ record' \in [Index -> Record]
         /\ \A j \in Index : record'[j].active => record'[j] = record[j] /\ j # i
         /\ \A j \in Index : record'[j].active => <<record'[j].kind, j>> \in Drive
<1>1. record'[i] = Inactive /\ \A j \in Index : j # i => record'[j] = record[j]
  BY DEF Forgotten, Shape, TypeOK
<1>2. Inactive \in Record
  BY DEF Inactive, Record, Kind
<1>3. record' \in [Index -> Record]
  BY <1>1, <1>2 DEF Forgotten, Shape, TypeOK
<1> QED  BY <1>1, <1>3 DEF Inactive, Shape, Named

LEMMA JogStepShape ==
  ASSUME Shape, NEW c \in Caller, JogStep(c)  PROVE Shape'
<1> USE DEF Shape
<1>0. jog[c].drive \in Drive /\ jog[c].drive[1] \in Kind /\ Idle = [step |-> "none", drive |-> None]
  BY DriveIs DEF JogStep, JogRefused, JogStart, JogSwitch, JogSwitched, JogGivesUp, Named, Idle
<1>1. CASE JogRefused(c)
  BY <1>0, <1>1 DEF JogRefused, Done, TypeOK, Named, motion, panel
<1>2. CASE JogStart(c)
  <2>1. moving' \subseteq Drive /\ \A e \in moving' : e[1] = mode
    BY <1>0, <1>2, JogContShape DEF JogStart, TypeOK
  <2>2. jog' \in [Caller -> [step : {"none", "lock", "mode"}, drive : Drive \cup {None}]]
    BY <1>0, <1>2 DEF JogStart, Done, TypeOK
  <2>3. TypeOK'
    BY <1>0, <1>2, <2>1, <2>2, RecordedShape, CallersAre DEF JogStart, Done, TypeOK, panel
  <2> QED  BY <1>0, <1>2, <2>3, RecordedShape DEF JogStart, Done, TypeOK, Named, panel
<1>3. CASE JogSwitch(c)
  <2>1. moving' \subseteq moving
    BY <1>3 DEF JogSwitch
  <2>2. jog' \in [Caller -> [step : {"none", "lock", "mode"}, drive : Drive \cup {None}]]
    BY <1>0, <1>3 DEF JogSwitch, Goto, TypeOK
  <2>3. \A b \in Caller : cmdMu' = b <=> jog'[b].step = "mode"
    BY <1>0, <1>3, CallersAre DEF JogSwitch, Goto, TypeOK
  <2>4. TypeOK'
    BY <1>3, <2>1, <2>2, <2>3 DEF JogSwitch, TypeOK, panel
  <2> QED  BY <1>0, <1>3, <2>4 DEF JogSwitch, Goto, TypeOK, Named, panel
<1>4. CASE JogSwitched(c)
  <2>1. mode' \in Kind /\ (moving = {} \/ \A e \in moving : e[1] = mode')
    BY <1>0, <1>4 DEF JogSwitched, TypeOK
  <2>2. moving' \subseteq Drive /\ \A e \in moving' : e[1] = mode'
    <3>1. JogCont(jog[c].drive, mode')
      BY <1>4 DEF JogSwitched
    <3> QED  BY <1>0, <2>1, <3>1, JogContShape DEF TypeOK
  <2>3. jog' \in [Caller -> [step : {"none", "lock", "mode"}, drive : Drive \cup {None}]]
    BY <1>0, <1>4 DEF JogSwitched, Done, TypeOK
  <2>4. \A b \in Caller : cmdMu' = b <=> jog'[b].step = "mode"
    BY <1>0, <1>4, CallersAre DEF JogSwitched, Done, TypeOK
  <2>5. TypeOK'
    BY <1>0, <1>4, <2>1, <2>2, <2>3, <2>4, RecordedShape DEF JogSwitched, TypeOK, panel
  <2> QED  BY <1>0, <1>4, <2>5, RecordedShape DEF JogSwitched, Done, TypeOK, Named, panel
<1>5. CASE JogGivesUp(c)
  <2>1. jog' \in [Caller -> [step : {"none", "lock", "mode"}, drive : Drive \cup {None}]]
    BY <1>0, <1>5 DEF JogGivesUp, Done, TypeOK
  <2>2. \A b \in Caller : cmdMu' = b <=> jog'[b].step = "mode"
    BY <1>0, <1>5, CallersAre DEF JogGivesUp, Done, TypeOK
  <2>3. TypeOK'
    BY <1>5, <2>1, <2>2 DEF JogGivesUp, TypeOK, motion, panel
  <2> QED  BY <1>0, <1>5, <2>3 DEF JogGivesUp, Done, TypeOK, Named, motion, panel
<1> QED  BY <1>1, <1>2, <1>3, <1>4, <1>5 DEF JogStep

LEMMA StopStepShape ==
  ASSUME Shape, NEW c \in Caller, StopStep(c)  PROVE Shape'
<1> USE DEF Shape
<1>0. /\ stop[c].drive \in Drive /\ stop[c].drive[2] \in Index
      /\ Idle = [step |-> "none", drive |-> None]
  BY DriveIs DEF StopStep, StopRecord, StopMotion, StopAtOnce, Named, Idle
<1>1. CASE StopRecord(c)
  BY <1>0, <1>1, ForgottenShape DEF StopRecord, TypeOK, Named, motion, panel
<1>2. CASE StopMotion(c)
  BY <1>0, <1>2 DEF StopMotion, JogAbort, TypeOK, Named, panel
<1>3. CASE StopAtOnce(c)
  BY <1>0, <1>3, ForgottenShape DEF StopAtOnce, JogAbort, TypeOK, Named, panel
<1> QED  BY <1>1, <1>2, <1>3 DEF StopStep

LEMMA ClientShape ==
  ASSUME Shape, NEW c \in Client,
         (\E d \in Drive : Press(c, d)) \/ SendJog(c) \/ Release(c) \/ Disconnect(c)
  PROVE  Shape'
<1> USE DEF Shape
<1>0. c \in Caller /\ held[c] \in Drive \cup {None}
  BY CallersAre DEF TypeOK
<1>1. ASSUME NEW d \in Drive, Press(c, d)  PROVE Shape'
  BY <1>0, <1>1 DEF Press, TypeOK, Named, motion, calls, panel
<1>2. CASE SendJog(c)
  BY <1>0, <1>2 DEF SendJog, Goto, Idle, TypeOK, Named, motion, panel
<1>3. CASE Release(c)
  BY <1>0, <1>3 DEF Release, TypeOK, Named, motion, panel
<1>4. CASE Disconnect(c)
  BY <1>0, <1>4 DEF Disconnect, TypeOK, Named, motion, calls, panel
<1> QED  BY <1>1, <1>2, <1>3, <1>4

LEMMA WatchdogShape ==
  ASSUME Shape, (\E i \in Index : Expire(i)) \/ ExpireAbort  PROVE Shape'
<1> USE DEF Shape
<1>1. ASSUME NEW i \in Index, Expire(i)  PROVE Shape'
  BY <1>1, ForgottenShape DEF Expire, Expired, TypeOK, Named, motion, calls, panel
<1>2. CASE ExpireAbort
  BY <1>2 DEF ExpireAbort, JogAbort, TypeOK, Named, calls, panel
<1> QED  BY <1>1, <1>2

\* One call is a scan's.
LEMMA DoIs ==
  ASSUME NEW pressed \in BOOLEAN, NEW d \in Drive
  PROVE  /\ Do(pressed, d) \in Seq(Call) /\ DOMAIN Do(pressed, d) = {1}
         /\ Do(pressed, d)[1] = [op |-> IF pressed THEN "cont" ELSE "stop", drive |-> d]
  BY DEF Do, Call

\* A re-targeted pin makes one call per joint that is not its own.
LEMMA RetargetIs ==
  ASSUME NEW d \in Drives("joint"), NEW own, NEW t \in Retarget(d, own)
  PROVE  /\ t \in Seq(Call)
         /\ \A n \in DOMAIN t : t[n].op = "cont" => t[n].drive = d
         /\ \A e \in Drives("joint") : e # d /\ e \notin own =>
               \E n \in DOMAIN t : t[n] = [op |-> "stop", drive |-> e]
<1> DEFINE S == Drives("joint") \ (own \ {d})
<1>1. IsFiniteSet(Drives("joint"))
  <2>1. IsFiniteSet({"joint"} \X Joints)
    BY FS_Singleton, FS_Product, ConstantsAssumption
  <2> QED  BY <2>1 DEF Drives
<1>2. IsFiniteSet(S)
  BY <1>1, FS_Subset
<1>3. Cardinality(S) \in Nat
  BY <1>2, FS_CardinalityType
<1>4. PICK s \in Ascending(S) :
         t = [n \in DOMAIN s |-> [op |-> IF s[n] = d THEN "cont" ELSE "stop", drive |-> s[n]]]
  BY DEF Retarget
<1>5. /\ DOMAIN s = 1..Cardinality(S) /\ \A n \in DOMAIN s : s[n] \in Drive
      /\ \A e \in S : \E n \in DOMAIN s : s[n] = e
  BY DrivesAre DEF Ascending, Kind
<1> HIDE DEF S
<1>6. t \in [1..Cardinality(S) -> Call]
  BY <1>4, <1>5 DEF Call
<1>7. t \in Seq(Call)
  BY <1>3, <1>6
<1>8. ASSUME NEW e \in Drives("joint"), e # d, e \notin own
      PROVE  \E n \in DOMAIN t : t[n] = [op |-> "stop", drive |-> e]
  <2>1. PICK n \in DOMAIN s : s[n] = e
    BY <1>5, <1>8 DEF S
  <2> QED  BY <2>1, <1>4, <1>8
<1> QED  BY <1>4, <1>7, <1>8

\* The panel's next call is a jog's first step or a stop's.
LEMMA CallShape ==
  ASSUME Shape, NEW e \in Drive, jog[Hal] = Idle, todo' \in Seq(Call),
         \/ jog' = [jog EXCEPT ![Hal] = [step |-> "lock", drive |-> e]] /\ stop' = stop
         \/ stop' = [stop EXCEPT ![Hal] = [step |-> "record", drive |-> e]] /\ jog' = jog,
         UNCHANGED <<motion, cmdMu, record, expired, held, old, oldSel, selected>>
  PROVE  Shape'
<1> USE DEF Shape
<1>0. Hal \in Caller
  BY CallersAre
<1>1. CASE jog' = [jog EXCEPT ![Hal] = [step |-> "lock", drive |-> e]] /\ stop' = stop
  <2>1. jog' \in [Caller -> [step : {"none", "lock", "mode"}, drive : Drive \cup {None}]]
    BY <1>0, <1>1 DEF TypeOK
  <2>2. /\ \A c \in Caller : jog'[c].step = "mode" <=> jog[c].step = "mode"
        /\ \A c \in Caller : jog'[c].step # "none" => jog'[c].drive \in Drive
    BY <1>0, <1>1 DEF TypeOK, Named, Idle
  <2>3. TypeOK'
    BY <1>1, <2>1, <2>2 DEF TypeOK, motion
  <2> QED  BY <1>1, <2>2, <2>3 DEF Named, motion
<1>2. CASE stop' = [stop EXCEPT ![Hal] = [step |-> "record", drive |-> e]] /\ jog' = jog
  <2>1. stop' \in [Caller -> [step : {"none", "record", "abort"}, drive : Drive \cup {None}]]
    BY <1>0, <1>2 DEF TypeOK
  <2>2. \A c \in Caller : stop'[c].step # "none" => stop'[c].drive \in Drive
    BY <1>0, <1>2 DEF TypeOK, Named
  <2>3. TypeOK'
    BY <1>2, <2>1 DEF TypeOK, motion
  <2> QED  BY <1>2, <2>2, <2>3 DEF Named, motion
<1> QED  BY <1>1, <1>2

LEMMA PanelShape ==
  ASSUME Shape,
         \/ HalStep
         \/ \E d \in Drives("joint") : SelectJoint(d)
         \/ \E d \in Drives("axis") : SelectAxis(d)
  PROVE  Shape'
<1> USE DEF Shape
<1>1. CASE HalCall
  <2>1. Len(todo) > 0 /\ Head(todo) \in Call /\ Tail(todo) \in Seq(Call)
    BY <1>1, HeadTailProperties, EmptySeq, LenProperties DEF HalCall, TypeOK
  <2>2. Head(todo).drive \in Drive
    BY <2>1 DEF Call
  <2>3. Hal \in Caller
    BY CallersAre
  <2>4. CASE Head(todo).op = "cont"
    <3>1. /\ jog' = [jog EXCEPT ![Hal] = [step |-> "lock", drive |-> Head(todo).drive]]
          /\ stop' = stop
      BY <1>1, <2>3, <2>4 DEF HalCall, Goto
    <3> QED  BY <1>1, <2>1, <2>2, <3>1, CallShape DEF HalCall
  <2>5. CASE Head(todo).op # "cont"
    <3>1. /\ stop' = [stop EXCEPT ![Hal] = [step |-> "record", drive |-> Head(todo).drive]]
          /\ jog' = jog
      BY <1>1, <2>3, <2>5 DEF HalCall
    <3> QED  BY <1>1, <2>1, <2>2, <3>1, CallShape DEF HalCall
  <2> QED  BY <2>4, <2>5
<1>2. ASSUME NEW d \in Own, ScanPin(d)  PROVE Shape'
  <2>1. d \in Drive /\ old[d] \in BOOLEAN
    BY DEF Own, TypeOK
  <2>2. todo' \in Seq(Call)
    BY <1>2, <2>1, DoIs DEF ScanPin
  <2>3. old' \in [Own -> BOOLEAN]
    BY <1>2, <2>1 DEF ScanPin, TypeOK
  <2> QED  BY <1>2, <2>2, <2>3 DEF ScanPin, TypeOK, Named, motion, calls
<1>3. ASSUME NEW k \in Kind, ScanSelected(k)  PROVE Shape'
  <2>1. selected[k] \in Drive /\ oldSel[k] \in BOOLEAN
    BY <1>3 DEF ScanSelected, TypeOK
  <2>2. todo' \in Seq(Call)
    BY <1>3, <2>1, DoIs DEF ScanSelected
  <2>3. oldSel' \in [Kind -> BOOLEAN]
    BY <1>3, <2>1 DEF ScanSelected, TypeOK
  <2> QED  BY <1>3, <2>2, <2>3 DEF ScanSelected, TypeOK, Named, motion, calls
<1>4. ASSUME NEW d \in Drives("joint"), SelectJoint(d)  PROVE Shape'
  <2>1. todo' \in Seq(Call)
    <3>1. PICK own, pressed : todo' \in IF pressed THEN Retarget(d, own) ELSE {<<>>}
      BY <1>4 DEF SelectJoint
    <3>2. todo' \in Retarget(d, own) \/ todo' = <<>>
      BY <3>1
    <3>3. CASE todo' \in Retarget(d, own)
      BY <3>3, RetargetIs
    <3>4. CASE todo' = <<>>
      BY <3>4
    <3> QED  BY <3>2, <3>3, <3>4
  <2>2. d \in Drive /\ "joint" \in Kind
    BY DrivesAre DEF Kind
  <2>3. d # None
    BY <2>2, NoneAssumption
  <2> QED  BY <1>4, <2>1, <2>2, <2>3 DEF SelectJoint, TypeOK, Named, motion, calls
<1>5. ASSUME NEW d \in Drives("axis"), SelectAxis(d)  PROVE Shape'
  <2>1. d \in Drive /\ "axis" \in Kind
    BY DrivesAre DEF Kind
  <2>2. d # None
    BY <2>1, NoneAssumption
  <2> QED  BY <1>5, <2>1, <2>2 DEF SelectAxis, TypeOK, Named, motion, calls
<1> QED  BY <1>1, <1>2, <1>3, <1>4, <1>5 DEF HalStep

LEMMA NextShape == Shape /\ [Next]_vars => Shape'
<1> SUFFICES ASSUME Shape, [Next]_vars  PROVE Shape'
  OBVIOUS
<1>1. CASE MachineOff
  BY <1>1 DEF MachineOff, Shape, TypeOK, Named, calls, panel
<1>2. CASE MachineOn
  BY <1>2 DEF MachineOn, Shape, TypeOK, Named, calls, panel
<1>3. CASE LateFree
  BY <1>3 DEF LateFree, Shape, TypeOK, Named, Kind, calls, panel
<1>4. CASE UNCHANGED vars
  BY <1>4 DEF vars, motion, calls, panel, Shape, TypeOK, Named
<1> QED
  BY <1>1, <1>2, <1>3, <1>4, JogStepShape, StopStepShape, ClientShape, WatchdogShape, PanelShape
  DEF Next

\* The type invariant, for any set of drives, pins, buttons and clients.
THEOREM TypeCorrect == Spec => []TypeOK
<1>1. Spec => []Shape
  BY InitShape, NextShape, PTL DEF Spec
<1> QED  BY <1>1, PTL DEF Shape

-----------------------------------------------------------------------------
(* Nothing runs away.                                                      *)

\* Joints and axes do not share an index, there is one axis to select, and a
\* pin keeps its level during a scan.
Tame == Joints \cap Axes = {} /\ (\A a, b \in Axes : a = b) /\ "between" \notin Env

Kept(d) == Watched(d) \/ Driven(d) \/ Pending(d)

\* An index names one drive.
LEMMA OneDrive ==
  ASSUME Tame, NEW d \in Drive, NEW e \in Drive, d[2] = e[2]  PROVE d = e
<1>1. d[1] = e[1]
  BY DriveIs DEF Tame, Kind
<1> QED  BY <1>1, DriveIs

\* There is one axis.
LEMMA OneAxis ==
  ASSUME Tame, NEW d \in Drives("axis"), NEW e \in Drives("axis")  PROVE d = e
<1>1. d \in Drive /\ e \in Drive /\ d[1] = "axis" /\ e[1] = "axis"
  BY DrivesAre DEF Kind
<1>2. d[2] = e[2]
  BY <1>1, DriveIs DEF Tame
<1> QED  BY <1>1, <1>2, OneDrive

\* With the panel and the stops as they were, a drive stays kept if its record
\* is.
LEMMA StillKept ==
  ASSUME NEW d, Kept(d), UNCHANGED <<expired, stop, panel>>,
         record'[d[2]] = record[d[2]]
  PROVE  Kept(d)'
  BY DEF Kept, Watched, Driven, Pending, panel

\* A jog that starts is on record, or the panel's.
LEMMA RecordedKept ==
  ASSUME Tame, Shape, NoRunaway, NEW c \in Caller, NEW e \in Drive, c = Hal => Driven(e),
         Recorded(c, e), UNCHANGED <<expired, stop, panel>>, moving' \subseteq moving \cup {e}
  PROVE  NoRunaway'
<1>1. e[2] \in Index
  BY DriveIs
<1>2. /\ record'[e[2]] = [active |-> TRUE, kind |-> e[1], fromHAL |-> c = Hal]
      /\ \A i \in Index : i # e[2] => record'[i] = record[i]
  BY <1>1 DEF Recorded, Shape, TypeOK
<1>4. Kept(e)'
  <2>1. CASE c = Hal
    BY <2>1 DEF Kept, Driven, panel
  <2>2. CASE c # Hal
    <3>1. (c = Hal) = FALSE
      BY <2>2
    <3>2. record'[e[2]] = [active |-> TRUE, kind |-> e[1], fromHAL |-> FALSE]
      BY <1>2, <3>1, Zenon
    <3> QED  BY <3>2 DEF Kept, Watched
  <2> QED  BY <2>1, <2>2
<1>5. ASSUME NEW d \in moving, d # e  PROVE Kept(d)'
  <2>1. d \in Drive /\ d[2] \in Index /\ Kept(d)
    BY DriveIs DEF Shape, TypeOK, NoRunaway, Kept
  <2>2. record'[d[2]] = record[d[2]]
    BY <2>1, <1>1, <1>2, <1>5, OneDrive
  <2> QED  BY <2>1, <2>2, StillKept
<1> QED  BY <1>4, <1>5 DEF NoRunaway, Kept

\* What a stop or the watchdog takes off the record is stopped.
LEMMA ForgottenKept ==
  ASSUME Tame, Shape, NEW e \in Drive, Forgotten(e[2]),
         NEW d \in Drive, d # e, UNCHANGED <<expired, panel>>, Kept(d),
         \A b \in Caller : stop[b].drive = d => stop'[b].drive = d
  PROVE  Kept(d)'
<1>1. d[2] # e[2] /\ d[2] \in Index
  BY OneDrive, DriveIs
<1>2. record'[d[2]] = record[d[2]]
  BY <1>1, DriveIs DEF Forgotten, Shape, TypeOK
<1> QED  BY <1>2 DEF Kept, Watched, Driven, Pending, panel

\* An abort stops its drive.
LEMMA AbortStops ==
  ASSUME Shape, NEW e, JogAbort(e)  PROVE moving' \subseteq moving \ {e}
  BY DEF JogAbort, InMode, Shape, TypeOK

LEMMA JogStepKept ==
  ASSUME Tame, Shape, Covered, NEW c \in Caller, JogStep(c)  PROVE Covered'
<1>1. jog' = [jog EXCEPT ![c] = Idle] \/ JogSwitch(c)
  BY DEF JogStep, JogRefused, JogStart, JogSwitched, JogGivesUp, Done
<1>2. UNCHANGED <<held, stop, expired, panel>>
  BY DEF JogStep, JogRefused, JogStart, JogSwitch, JogSwitched, JogGivesUp
<1>3. FromPins'
  <2>1. jog'[Hal].step # "none" => jog[Hal].step # "none" /\ jog'[Hal].drive = jog[Hal].drive
    <3>1. Hal \in Caller /\ Idle.step = "none"
      BY CallersAre DEF Idle
    <3>2. CASE jog' = [jog EXCEPT ![c] = Idle]
      BY <3>1, <3>2 DEF Shape, TypeOK
    <3>3. CASE JogSwitch(c)
      BY <3>1, <3>3 DEF JogSwitch, Goto, Shape, TypeOK
    <3> QED  BY <1>1, <3>2, <3>3
  <2> QED  BY <1>2, <2>1 DEF Covered, FromPins, Calls, Driven, panel
<1>4. NoRunaway'
  <2>0. PICK e \in Drive : e = jog[c].drive /\ (c = Hal => Driven(e))
    BY DEF JogStep, JogRefused, JogStart, JogSwitch, JogSwitched, JogGivesUp, Shape, Named,
           Covered, FromPins
  <2>1. CASE JogRefused(c) \/ JogGivesUp(c)
    <3>1. UNCHANGED <<moving, record>>
      BY <2>1 DEF JogRefused, JogGivesUp, motion
    <3> QED  BY <1>2, <3>1, StillKept DEF Covered, NoRunaway, Kept
  <2>2. CASE JogStart(c)
    <3>1. moving' \subseteq moving \cup {e} /\ Recorded(c, e)
      BY <2>0, <2>2 DEF JogStart, JogCont
    <3> QED  BY <1>2, <2>0, <3>1, RecordedKept DEF Covered
  <2>3. CASE JogSwitch(c)
    <3>1. moving' \subseteq moving /\ UNCHANGED record
      BY <2>3 DEF JogSwitch
    <3> QED  BY <1>2, <3>1, StillKept DEF Covered, NoRunaway, Kept
  <2>4. CASE JogSwitched(c)
    <3>1. moving' \subseteq moving \cup {e} /\ Recorded(c, e)
      BY <2>0, <2>4 DEF JogSwitched, JogCont
    <3> QED  BY <1>2, <2>0, <3>1, RecordedKept DEF Covered
  <2> QED  BY <2>1, <2>2, <2>3, <2>4 DEF JogStep
<1> QED  BY <1>2, <1>3, <1>4 DEF Covered, Released

LEMMA StopStepKept ==
  ASSUME Tame, Shape, Covered, NEW c \in Caller, StopStep(c)  PROVE Covered'
<1>0. /\ stop[c].drive \in Drive
      /\ c \in Client => held[c] = None
  BY DEF StopStep, StopRecord, StopMotion, StopAtOnce, Shape, Named, Covered, Released, Idle
<1>1. PICK e \in Drive : e = stop[c].drive
  BY <1>0
<1>2. /\ UNCHANGED <<held, jog, expired, panel>>
      /\ \A b \in Caller : b # c => stop'[b] = stop[b]
  BY DEF StopStep, StopRecord, StopMotion, StopAtOnce, Shape, TypeOK
<1>3. Released' /\ FromPins'
  <2>1. Released'
    BY <1>0, <1>2, CallersAre DEF Covered, Released
  <2>2. FromPins'
    BY <1>2 DEF Covered, FromPins, Calls, Driven, panel
  <2> QED  BY <2>1, <2>2
<1>4. ASSUME NEW d \in moving'  PROVE Kept(d)'
  <2>1. d \in moving /\ d \in Drive /\ Kept(d)
    BY DEF StopStep, StopRecord, StopMotion, StopAtOnce, JogAbort, motion, Shape, TypeOK,
           Covered, NoRunaway, Kept
  <2>2. CASE StopRecord(c)
    <3>1. \A b \in Caller : stop'[b].drive = stop[b].drive
      BY <2>2 DEF StopRecord, Shape, TypeOK
    <3>2. CASE d = e
      BY <1>1, <3>1, <3>2 DEF Kept, Pending
    <3>3. CASE d # e
      <4>1. Forgotten(e[2])
        BY <1>1, <2>2 DEF StopRecord
      <4> QED  BY <1>2, <2>1, <3>1, <3>3, <4>1, ForgottenKept
    <3> QED  BY <3>2, <3>3
  <2>3. CASE StopMotion(c)
    <3>1. d # e
      BY <1>1, <2>3, AbortStops DEF StopMotion
    <3>2. \A b \in Caller : stop[b].drive = d => stop'[b].drive = d
      BY <1>1, <1>2, <3>1
    <3>3. UNCHANGED record
      BY <2>3 DEF StopMotion
    <3> QED  BY <1>2, <2>1, <3>2, <3>3 DEF Kept, Watched, Driven, Pending, panel
  <2>4. CASE StopAtOnce(c)
    <3>1. d # e
      BY <1>1, <2>4, AbortStops DEF StopAtOnce
    <3>2. \A b \in Caller : stop[b].drive = d => stop'[b].drive = d
      BY <1>1, <1>2, <3>1
    <3>3. Forgotten(e[2])
      BY <1>1, <2>4 DEF StopAtOnce
    <3> QED  BY <1>2, <2>1, <3>1, <3>2, <3>3, ForgottenKept
  <2> QED  BY <2>2, <2>3, <2>4 DEF StopStep
<1> QED  BY <1>3, <1>4 DEF Covered, NoRunaway, Kept

LEMMA ClientKept ==
  ASSUME Tame, Shape, Covered, NEW c \in Client,
         (\E d \in Drive : Press(c, d)) \/ SendJog(c) \/ Release(c) \/ Disconnect(c)
  PROVE  Covered'
<1>0. c \in Caller /\ c # Hal /\ Hal \in Caller
  BY CallersAre
<1>1. UNCHANGED <<moving, record, expired, panel>>
  BY DEF Press, SendJog, Release, Disconnect, motion, calls
<1>2. FromPins'
  <2>1. jog'[Hal] = jog[Hal]
    BY <1>0 DEF Press, SendJog, Release, Disconnect, Goto, calls, Shape, TypeOK
  <2> QED  BY <1>1, <2>1 DEF Covered, FromPins, Calls, Driven, panel
<1>3. Released'
  <2>1. ASSUME NEW d \in Drive, Press(c, d)  PROVE Released'
    BY <2>1 DEF Press, calls, Covered, Released, Shape, TypeOK
  <2>2. CASE SendJog(c)
    BY <2>2 DEF SendJog, Covered, Released
  <2>3. CASE Release(c)
    BY <2>3, CallersAre DEF Release, Covered, Released, Shape, TypeOK
  <2>4. CASE Disconnect(c)
    BY <2>4 DEF Disconnect, calls, Covered, Released, Shape, TypeOK
  <2> QED  BY <2>1, <2>2, <2>3, <2>4
<1>4. ASSUME NEW d \in moving  PROVE Kept(d)'
  <2>1. d \in Drive /\ Kept(d) /\ d # None
    BY NoneAssumption DEF Shape, TypeOK, Covered, NoRunaway, Kept
  <2>2. \A b \in Caller : stop[b].drive = d => stop'[b].drive = d
    BY <1>0, <2>1 DEF Press, SendJog, Release, Disconnect, calls, Covered, Released, Idle,
                      Shape, TypeOK
  <2> QED  BY <1>1, <2>1, <2>2 DEF Kept, Watched, Driven, Pending, panel
<1> QED  BY <1>1, <1>2, <1>3, <1>4 DEF Covered, NoRunaway, Kept

LEMMA WatchdogKept ==
  ASSUME Tame, Shape, Covered, (\E i \in Index : Expire(i)) \/ ExpireAbort  PROVE Covered'
<1>1. UNCHANGED <<held, calls, panel>> /\ moving' \subseteq moving
  BY DEF Expire, ExpireAbort, JogAbort, motion
<1>2. Released' /\ FromPins'
  BY <1>1 DEF Covered, Released, FromPins, Calls, Driven, calls, panel
<1>3. ASSUME NEW d \in moving'  PROVE Kept(d)'
  <2>1. d \in Drive /\ d[2] \in Index /\ Kept(d) /\ d # None /\ d = <<d[1], d[2]>>
    BY <1>1, DriveIs, NoneAssumption DEF Shape, TypeOK, Covered, NoRunaway, Kept
  <2>2. ASSUME NEW i \in Index, Expire(i)  PROVE Kept(d)'
    <3>1. CASE d[2] = i /\ Watched(d)
      BY <2>1, <2>2, <3>1 DEF Expire, Watched, Kept, Pending
    <3>2. CASE d[2] # i /\ Watched(d)
      BY <2>1, <2>2, <3>2 DEF Expire, Forgotten, Watched, Kept, Shape, TypeOK
    <3>3. CASE Driven(d) \/ Pending(d)
      BY <1>1, <2>1, <2>2, <3>3 DEF Expire, Driven, Pending, Kept, calls, panel
    <3> QED  BY <2>1, <3>1, <3>2, <3>3 DEF Kept
  <2>3. CASE ExpireAbort
    <3>1. d # expired
      BY <2>3, AbortStops DEF ExpireAbort
    <3> QED  BY <1>1, <2>1, <2>3, <3>1 DEF ExpireAbort, Kept, Watched, Driven, Pending, calls, panel
  <2> QED  BY <2>2, <2>3
<1> QED  BY <1>2, <1>3 DEF Covered, NoRunaway, Kept

\* What the panel does next is a jog of a drive its pins drive, or a stop.
LEMMA HalCallKept ==
  ASSUME Tame, Shape, Covered, HalCall  PROVE Covered'
<1>1. /\ todo \in Seq(Call) /\ Len(todo) \in Nat /\ Len(todo) > 0
      /\ DOMAIN todo = 1..Len(todo) /\ Head(todo) = todo[1]
  BY EmptySeq, LenProperties, HeadTailProperties DEF HalCall, Shape, TypeOK
<1>2. /\ Tail(todo) \in Seq(Call) /\ Len(Tail(todo)) = Len(todo) - 1
      /\ DOMAIN Tail(todo) = 1..(Len(todo) - 1)
      /\ \A n \in 1..(Len(todo) - 1) : Tail(todo)[n] = todo[n + 1]
  BY <1>1, HeadTailProperties, LenProperties, EmptySeq
<1>3. todo' = Tail(todo) /\ UNCHANGED <<moving, record, expired, held, old, oldSel, selected>>
  BY DEF HalCall, motion
<1>4. Hal \in Caller /\ Hal \notin Client /\ Client \subseteq Caller
  BY CallersAre
<1>5. Released'
  BY <1>3, <1>4 DEF HalCall, Covered, Released, Shape, TypeOK
<1>6. FromPins'
  <2>1. \A n \in DOMAIN todo' : todo'[n].op = "cont" => Driven(todo'[n].drive)
    <3>1. \A n \in DOMAIN todo' : n + 1 \in DOMAIN todo /\ todo'[n] = todo[n + 1]
      BY <1>1, <1>2, <1>3
    <3> QED  BY <3>1 DEF Covered, FromPins, Calls
  <2>2. jog'[Hal].step # "none" => Driven(jog'[Hal].drive)
    <3>1. CASE Head(todo).op = "cont"
      <4>1. jog'[Hal].drive = todo[1].drive /\ todo[1].op = "cont" /\ 1 \in DOMAIN todo
        BY <1>1, <1>4, <3>1 DEF HalCall, Goto, Shape, TypeOK
      <4> QED  BY <4>1 DEF Covered, FromPins, Calls
    <3>2. CASE Head(todo).op # "cont"
      BY <3>2 DEF HalCall, Idle
    <3> QED  BY <3>1, <3>2
  <2> QED  BY <1>3, <2>1, <2>2 DEF FromPins, Calls, Driven
<1>7. ASSUME NEW d \in moving  PROVE Kept(d)'
  <2>1. d \in Drive /\ Kept(d) /\ d # None
    BY NoneAssumption DEF Shape, TypeOK, Covered, NoRunaway, Kept
  <2>2. CASE Watched(d) \/ Driven(d) \/ expired = d
    BY <1>3, <2>2 DEF Kept, Watched, Driven, Pending
  <2>3. ASSUME NEW c \in Caller, stop[c].drive = d  PROVE Kept(d)'
    <3>1. c # Hal
      BY <2>1, <2>3 DEF HalCall, Idle
    <3>2. stop'[c] = stop[c]
      BY <3>1, <1>4 DEF HalCall, Shape, TypeOK
    <3> QED  BY <2>3, <3>2 DEF Kept, Pending
  <2>4. ASSUME NEW n \in DOMAIN todo, todo[n] = [op |-> "stop", drive |-> d]  PROVE Kept(d)'
    <3>1. CASE n = 1
      <4>1. Head(todo).op = "stop" /\ Head(todo).drive = d
        BY <1>1, <2>4, <3>1
      <4>2. stop'[Hal].drive = d
        BY <4>1, <1>4 DEF HalCall, Shape, TypeOK
      <4> QED  BY <1>4, <4>2 DEF Kept, Pending
    <3>2. CASE n # 1
      <4>1. n - 1 \in DOMAIN todo' /\ todo'[n - 1] = todo[n]
        BY <1>1, <1>2, <1>3, <3>2
      <4> QED  BY <2>4, <4>1 DEF Kept, Pending
    <3> QED  BY <3>1, <3>2
  <2> QED  BY <2>1, <2>2, <2>3, <2>4 DEF Kept, Pending
<1> QED  BY <1>3, <1>5, <1>6, <1>7 DEF Covered, NoRunaway, Kept

\* A scan finds the panel at rest, and changes only what the panel knows.
LEMMA ScanKept ==
  ASSUME Tame, Shape, Covered, ~Busy, UNCHANGED <<motion, cmdMu, record, expired, held, calls>>,
         Calls',
         \A d \in moving : Driven(d) =>
             Driven(d)' \/ \E n \in DOMAIN todo' : todo'[n] = [op |-> "stop", drive |-> d]
  PROVE  Covered'
<1>1. Released'
  BY DEF Covered, Released, calls
<1>2. jog'[Hal].step = "none" /\ todo = <<>>
  BY DEF Busy, Idle, calls
<1>3. FromPins'
  BY <1>2 DEF FromPins
<1>4. ASSUME NEW d \in moving  PROVE Kept(d)'
  <2>1. Kept(d)
    BY DEF Covered, NoRunaway, Kept
  <2>2. CASE Driven(d)
    BY <2>2 DEF Kept, Pending
  <2>3. CASE Watched(d)
    BY <2>3 DEF Kept, Watched
  <2>4. CASE Pending(d)
    BY <1>2, <2>4 DEF Kept, Pending, calls
  <2> QED  BY <2>1, <2>2, <2>3, <2>4 DEF Kept
<1> QED  BY <1>1, <1>3, <1>4 DEF Covered, NoRunaway, Kept, motion

LEMMA ScanPinKept ==
  ASSUME Tame, Shape, Covered, NEW e \in Own, ScanPin(e)  PROVE Covered'
<1>1. e \in Drive /\ old[e] \in BOOLEAN /\ UNCHANGED <<oldSel, selected>>
  BY DEF Own, ScanPin, Shape, TypeOK
<1>2. old'[e] = ~old[e] /\ \A d \in Own : d # e => old'[d] = old[d]
  BY DEF ScanPin, Shape, TypeOK
<1>3. /\ DOMAIN todo' = {1}
      /\ todo'[1] = [op |-> IF ~old[e] THEN "cont" ELSE "stop", drive |-> e]
  BY <1>1, DoIs DEF ScanPin
<1>4. Calls'
  <2>1. CASE old[e]
    BY <1>3, <2>1 DEF Calls
  <2>2. CASE ~old[e]
    <3>1. Driven(e)'
      BY <1>2, <2>2 DEF Driven
    <3>2. \A n \in DOMAIN todo' : todo'[n].drive = e
      BY <1>3
    <3> QED  BY <3>1, <3>2 DEF Calls
  <2> QED  BY <2>1, <2>2
<1>5. ASSUME NEW d \in moving, Driven(d)
      PROVE  Driven(d)' \/ \E n \in DOMAIN todo' : todo'[n] = [op |-> "stop", drive |-> d]
  <2>1. CASE d = e /\ old[e]
    BY <1>3, <2>1
  <2>2. CASE d # e
    BY <1>1, <1>2, <1>5, <2>2 DEF Driven
  <2>3. CASE d = e /\ ~old[e]
    BY <1>2, <2>3 DEF Driven
  <2> QED  BY <2>1, <2>2, <2>3
<1> QED  BY <1>4, <1>5, ScanKept DEF ScanPin

LEMMA ScanSelectedKept ==
  ASSUME Tame, Shape, Covered, NEW k \in Kind, ScanSelected(k)  PROVE Covered'
<1>0. PICK e \in Drive : e = selected[k] /\ e[1] = k
  BY DrivesAre DEF ScanSelected, Shape, TypeOK, Named
<1>1. oldSel[k] \in BOOLEAN /\ UNCHANGED <<old, selected>>
  BY DEF ScanSelected, Shape, TypeOK
<1>2. oldSel'[k] = ~oldSel[k] /\ \A j \in Kind : j # k => oldSel'[j] = oldSel[j]
  BY DEF ScanSelected, Shape, TypeOK
<1>3. /\ DOMAIN todo' = {1}
      /\ todo'[1] = [op |-> IF ~oldSel[k] THEN "cont" ELSE "stop", drive |-> e]
  BY <1>0, <1>1, DoIs DEF ScanSelected
<1>4. Calls'
  <2>1. CASE oldSel[k]
    BY <1>3, <2>1 DEF Calls
  <2>2. CASE ~oldSel[k]
    <3>1. Driven(e)'
      BY <1>0, <1>1, <1>2, <2>2 DEF Driven
    <3>2. \A n \in DOMAIN todo' : todo'[n].drive = e
      BY <1>3
    <3> QED  BY <3>1, <3>2 DEF Calls
  <2> QED  BY <2>1, <2>2
<1>5. ASSUME NEW d \in moving, Driven(d)
      PROVE  Driven(d)' \/ \E n \in DOMAIN todo' : todo'[n] = [op |-> "stop", drive |-> d]
  <2>0. d[1] \in Kind
    BY DriveIs DEF Shape, TypeOK
  <2>1. CASE d = e /\ oldSel[k]
    BY <1>3, <2>1
  <2>2. CASE d = e /\ ~oldSel[k]
    BY <1>0, <1>1, <1>2, <2>2 DEF Driven
  <2>3. CASE d # e
    BY <1>0, <1>1, <1>2, <1>5, <2>0, <2>3 DEF Driven
  <2> QED  BY <2>1, <2>2, <2>3
<1> QED  BY <1>4, <1>5, ScanKept DEF ScanSelected

\* The joint that is left is stopped, unless its own pin holds it.
LEMMA SelectJointKept ==
  ASSUME Tame, Shape, Covered, NEW e \in Drives("joint"), SelectJoint(e)  PROVE Covered'
<1>1. /\ e \in Drive /\ e[1] = "joint" /\ UNCHANGED <<old, oldSel>>
      /\ selected'["joint"] = e /\ selected'["axis"] = selected["axis"]
  BY DrivesAre DEF SelectJoint, Shape, TypeOK, Kind
<1>2. \A x : Level(x) = {x}
  BY DEF Tame, Level
<1>3. PICK own \in SUBSET Own :
        /\ \A d \in Own : (d \in own) = old[d]
        /\ todo' \in IF oldSel["joint"] THEN Retarget(e, own) ELSE {<<>>}
  BY <1>2 DEF SelectJoint
<1>4. CASE oldSel["joint"]
  <2>1. todo' \in Retarget(e, own)
    BY <1>3, <1>4
  <2>2. Calls'
    BY <1>1, <1>4, <2>1, RetargetIs DEF Calls, Driven
  <2>3. ASSUME NEW d \in moving, Driven(d)
        PROVE  Driven(d)' \/ \E n \in DOMAIN todo' : todo'[n] = [op |-> "stop", drive |-> d]
    <3>1. d \in Drive /\ d[1] \in Kind /\ (d[1] = "joint" => d \in Drives("joint"))
      BY DriveIs DEF Shape, TypeOK
    <3>2. CASE d = e
      BY <1>1, <1>4, <3>2 DEF Driven
    <3>3. CASE d \in Own /\ old[d]
      BY <1>1, <3>3 DEF Driven
    <3>4. CASE d[1] = "axis"
      BY <1>1, <2>3, <3>4 DEF Driven
    <3>5. CASE d[1] = "joint" /\ d # e /\ ~(d \in Own /\ old[d])
      <4>1. d \notin own
        BY <1>3, <3>5
      <4> QED  BY <2>1, <3>1, <3>5, <4>1, RetargetIs
    <3> QED  BY <3>1, <3>2, <3>3, <3>4, <3>5 DEF Kind
  <2> QED  BY <2>2, <2>3, ScanKept DEF SelectJoint
<1>5. CASE ~oldSel["joint"]
  <2>1. todo' = <<>>
    BY <1>3, <1>5
  <2>2. Calls'
    BY <2>1 DEF Calls
  <2>3. ASSUME NEW d \in moving, Driven(d)  PROVE Driven(d)'
    <3>1. d[1] \in Kind
      BY DriveIs DEF Shape, TypeOK
    <3> QED  BY <1>1, <1>5, <2>3, <3>1 DEF Driven, Kind
  <2> QED  BY <2>2, <2>3, ScanKept DEF SelectJoint
<1> QED  BY <1>4, <1>5

\* With one axis there is no other to select.
LEMMA SelectAxisKept ==
  ASSUME Tame, Shape, Covered, NEW e \in Drives("axis"), SelectAxis(e)  PROVE Covered'
<1>1. selected["axis"] = e
  <2>1. selected["axis"] \in Drives("axis")
    BY DEF Shape, Named, Kind
  <2> QED  BY <2>1, OneAxis
<1>2. UNCHANGED <<old, oldSel, selected, todo>>
  BY <1>1 DEF SelectAxis, Shape, TypeOK, Kind
<1>3. Calls'
  BY <1>2 DEF Covered, FromPins, Calls, Driven
<1>4. \A d \in moving : Driven(d) => Driven(d)'
  BY <1>2 DEF Driven
<1> QED  BY <1>3, <1>4, ScanKept DEF SelectAxis

LEMMA NextKept == Tame /\ Shape /\ Covered /\ [Next]_vars => Covered'
<1> SUFFICES ASSUME Tame, Shape, Covered, [Next]_vars  PROVE Covered'
  OBVIOUS
<1>1. CASE MachineOff \/ MachineOn \/ LateFree \/ UNCHANGED vars
  <2>1. moving' \subseteq moving /\ UNCHANGED <<record, expired, held, calls, panel>>
    BY <1>1 DEF MachineOff, MachineOn, LateFree, vars, motion
  <2>2. Released' /\ FromPins'
    BY <2>1 DEF Covered, Released, FromPins, Calls, Driven, calls, panel
  <2>3. ASSUME NEW d \in moving'  PROVE Kept(d)'
    BY <2>1, StillKept DEF Covered, NoRunaway, Kept, calls
  <2> QED  BY <2>2, <2>3 DEF Covered, NoRunaway, Kept
<1> QED
  BY <1>1, JogStepKept, StopStepKept, ClientKept, WatchdogKept, HalCallKept, ScanPinKept,
     ScanSelectedKept, SelectJointKept, SelectAxisKept
  DEF Next, HalStep

\* Whatever moves, the watchdog watches it, a pin drives it, or its stop is on
\* the way: for any number of joints, pins and user interfaces that press,
\* repeat, release and vanish, however commands overtake each other - if an
\* index is that of one drive, there is one axis, and pins keep their level
\* during a scan.
THEOREM NothingRunsAway ==
  ASSUME Joints \cap Axes = {}, \A a, b \in Axes : a = b, "between" \notin Env
  PROVE  Spec => []NoRunaway
<1>0. Tame
  BY DEF Tame
<1>1. Init => Covered
  <2> SUFFICES ASSUME Init  PROVE Covered
    OBVIOUS
  <2>1. NoRunaway /\ Calls
    BY DEF Init, NoRunaway, Calls
  <2>2. jog[Hal].step = "none" /\ \A c \in Client : held[c] = None
    BY CallersAre DEF Init, Idle
  <2> QED  BY <2>1, <2>2 DEF Covered, Released, FromPins
<1>2. Spec => []Shape
  BY InitShape, NextShape, PTL DEF Spec
<1>3. Shape /\ Covered /\ [Next]_vars => Covered'
  BY <1>0, NextKept
<1>4. Spec => []Covered
  BY <1>1, <1>2, <1>3, PTL DEF Spec
<1> QED  BY <1>4, PTL DEF Covered
=============================================================================
