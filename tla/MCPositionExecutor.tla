------------------------- MODULE MCPositionExecutor -------------------------
(* The position executor under a small tree of targets. *)
EXTENDS PositionExecutor

Target(i, n, s, act, dir) ==
  [id |-> i, sequence |-> n, supersedes |-> s, action |-> act, direction |-> dir]

\* A first target, every kind of second one, third ones on top of some of them; 7 conflicts
\* with 2, 11 supersedes a target that may not be the current one.
TargetTree ==
  {Target(1, 1, None, "SET_TARGET", "LONG"),
   Target(2, 2, 1, "SET_TARGET", "SHORT"),
   Target(3, 2, 1, "FLATTEN", "FLAT"),
   Target(4, 2, 1, "HOLD_CURRENT", "FLAT"),
   Target(5, 2, 1, "FREEZE_INCREASES", "SHORT"),
   Target(6, 2, 1, "NO_DECISION", "LONG"),
   Target(7, 2, 1, "REDUCE_TO", "LONG"),
   Target(8, 3, 2, "SET_TARGET", "LONG"),
   Target(9, 3, 3, "SET_TARGET", "SHORT"),
   Target(10, 3, 7, "SET_TARGET", "SHORT"),
   Target(11, 4, 2, "FLATTEN", "FLAT"),
   Target(12, 4, 8, "REDUCE_TO", "SHORT")}

SmallPositions == -2..2
=============================================================================
