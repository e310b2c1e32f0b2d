---------------------------- MODULE MCStreamPump ----------------------------
(* StreamPump for TLC: two messages, one of them as large as a poll may be. *)
EXTENDS StreamPump

CONSTANTS small, large

MCSize == [m \in Message |-> IF m = small THEN 1 ELSE PollSize]
=============================================================================
