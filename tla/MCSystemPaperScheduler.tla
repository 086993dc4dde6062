----------------------- MODULE MCSystemPaperScheduler -----------------------
(* Instances of the System Paper scheduler small enough for TLC. *)
EXTENDS SystemPaperScheduler, TLC

\* SYSTEM_PAPER_FROZEN_FAULT_POINTS: where the repository's own tests interrupt a run.
FrozenFaultPoints == {"claim", "provider", "parents", "input", "run", "result",
                      "publish", "succeed"}

\* A process can die anywhere.
AnyPoint == Steps \ {"idle"}

WorkerSymmetry == Permutations(Workers)
=============================================================================
