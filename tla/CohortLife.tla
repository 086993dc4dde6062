----------------------------- MODULE CohortLife -----------------------------
(***************************************************************************)
(* What the Challenger cohort promises of its verdict: decisions are kept  *)
(* one slot after another; the cohort either becomes complete, for good,   *)
(* and may then be evaluated, or is declared failed before that, and then  *)
(* nothing is ever added to it and it is never evaluated.                  *)
(***************************************************************************)
EXTENDS Naturals

VARIABLES kept,       \* decisions kept
          complete,   \* the whole window is there and no episode is open
          failed, evaluated

vars == <<kept, complete, failed, evaluated>>

Init == kept = 0 /\ complete = FALSE /\ failed = FALSE /\ evaluated = FALSE

Keep ==
    /\ ~failed
    /\ kept' = kept + 1
    /\ complete' \in {complete, TRUE}
    /\ UNCHANGED <<failed, evaluated>>

Fail ==
    /\ ~complete
    /\ failed' = TRUE
    /\ UNCHANGED <<kept, complete, evaluated>>

Evaluate ==
    /\ complete /\ ~failed
    /\ evaluated' = TRUE
    /\ UNCHANGED <<kept, complete, failed>>

Next == Keep \/ Fail \/ Evaluate

Spec == Init /\ [][Next]_vars
=============================================================================
