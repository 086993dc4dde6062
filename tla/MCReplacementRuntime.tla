------------------------ MODULE MCReplacementRuntime ------------------------
(* The replacement runtime over a few slots, whose events all have a file  *)
(* name.  Nothing is symmetric here: the run checks a liveness property.   *)
EXTENDS ReplacementRuntime

Events == 3 * MaxSlots
=============================================================================
