----------------------------- MODULE TrajQueue -----------------------------
(***************************************************************************)
(* The coordinated-motion queue that milltask feeds, as the task sees it:  *)
(* the trajectory planner's segment queue (src/src/cnc/tp/tp.c) and the    *)
(* pause/step bits of the motion command handler (motion/command.c).       *)
(* Geometry is abstracted away: a segment is one unit of queue depth, and  *)
(* velocity reaching zero is a choice of the servo cycle.                  *)
(*                                                                         *)
(* The queue is a record, and every command or servo cycle is an operator  *)
(* from a record to the next record, so that a module which owns a         *)
(* variable of this shape can use them in its own actions.                 *)
(***************************************************************************)
EXTENDS Naturals

CONSTANT TPSize          \* DEFAULT_TC_QUEUE_SIZE: the planner's slots

ASSUME TPSizeAssumption == TPSize \in Nat \ {0}

\* depth    segments queued, the executing one included (status.depth)
\* pausing  tp->pausing: the planner holds velocity at zero
\* aborting tp->aborting: decelerating to drop the queue, refuses segments
\* stepping status.stepping: pause again when the executing id changes
\* paused   status.paused: the last of PAUSE and RESUME was a PAUSE
TPState == [depth    : 0 .. TPSize,
            pausing  : BOOLEAN,
            aborting : BOOLEAN,
            stepping : BOOLEAN,
            paused   : BOOLEAN]

TPInit == [depth |-> 0, pausing |-> FALSE, aborting |-> FALSE,
           stepping |-> FALSE, paused |-> FALSE]

-----------------------------------------------------------------------------
(* Commands of the motion command handler.                                 *)

\* EMCMOT_ABORT in coordinated mode: tpAbort, and the paused bit is cleared.
MotAbort(tp) == [tp EXCEPT !.pausing  = tp.pausing \/ ~tp.aborting,
                           !.aborting = TRUE,
                           !.paused   = FALSE]

MotPause(tp) == [tp EXCEPT !.pausing = TRUE, !.paused = TRUE]

MotResume(tp) == [tp EXCEPT !.pausing = FALSE, !.paused = FALSE,
                            !.stepping = FALSE]

\* EMCMOT_STEP is refused (with a message only) unless motion is paused.
MotStep(tp) == IF tp.paused
               THEN [tp EXCEPT !.pausing = FALSE, !.stepping = TRUE]
               ELSE tp

\* Whether a new segment is taken: tpErrorCheck refuses one while aborting,
\* and a full queue has no slot for it.
Accepts(tp) == ~tp.aborting /\ tp.depth < TPSize

AddSegment(tp) == [tp EXCEPT !.depth = tp.depth + 1]

-----------------------------------------------------------------------------
(* One servo cycle: the records the planner may leave.                     *)

\* tpHandleEmptyQueue: with nothing queued, abort and pause are both over.
EmptyCycle(tp) ==
    IF tp.depth = 0 /\ (tp.pausing \/ tp.aborting)
    THEN {[tp EXCEPT !.pausing = FALSE, !.aborting = FALSE]}
    ELSE {}

\* tpHandleAbort: velocity has reached zero, the queue is dropped.
AbortCycle(tp) ==
    IF tp.depth > 0 /\ tp.aborting
    THEN {[tp EXCEPT !.depth = 0, !.pausing = FALSE, !.aborting = FALSE]}
    ELSE {}

\* Mutant: a cycle that completes a segment of an empty queue.
MoveCycleMutant(tp) ==
    IF tp.pausing \/ tp.aborting THEN {} ELSE {[tp EXCEPT !.depth = tp.depth - 1]}

\* The executing segment completes.  Under STEP the executing id changes
\* with it, and control.c pauses the planner again; the id also changes
\* without a completion when the stepped segment had not started yet.
MoveCycle(tp) ==
    IF tp.depth > 0 /\ ~tp.pausing /\ ~tp.aborting
    THEN IF tp.stepping
         THEN {[tp EXCEPT !.depth = d, !.pausing = TRUE,
                          !.stepping = FALSE, !.paused = TRUE]
                  : d \in {tp.depth, tp.depth - 1}}
         ELSE {[tp EXCEPT !.depth = tp.depth - 1]}
    ELSE {}

Cycle(tp) == EmptyCycle(tp) \cup AbortCycle(tp) \cup MoveCycle(tp)

\* GetInpos = 1 and GetQueueDepth = 0, the task's test for drained motion.
Drained(tp) == tp.depth = 0
=============================================================================
