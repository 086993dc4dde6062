------------------------- MODULE MCChallengerCohort -------------------------
(* The Challenger cohort with one tool at work at a time, beside the runner. *)
EXTENDS ChallengerCohort, TLC

Busy ==
    {t \in Watchers : watch[t].pc # "off"}
        \cup (IF audit.pc = "off" THEN {} ELSE {"audit"})
        \cup (IF removal.pc = "off" THEN {} ELSE {"removal"})
OneTool == Cardinality(Busy) <= 1
=============================================================================
