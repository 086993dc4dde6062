------------------------ MODULE MCSystemPaperRuntime ------------------------
(* The System Paper economics on prices and quantities small enough for TLC. *)
EXTENDS SystemPaperRuntime

\* A fall of more than half, so that a quarter of the equity can lose every band.
WidePrices == {18, 13, 7}
ManyTargets == {100, 60}
=============================================================================
