--------------------------- MODULE MCContextCycle ---------------------------
(* Instances of ContextCycle small enough for TLC. *)
EXTENDS ContextCycle, TLC

WorkerSymmetry == Permutations(Workers)

\* Bound: the second slot is entered by nested and lone calls only.
OneOrchestratedSlot == \A k \in Slots \ {1} : cycle[k].status = "UNSEEN"

\* Bound: a sidecar that runs alone meets orchestrations, and no other lone call.
Alone(w) == proc[w].pc \notin {"idle", "ended"} /\ ~Orchestrating(w)

SidecarAlone(w) ==
    /\ Alone(w)
    /\ proc[w].pc \in {"bundle", "contextPublish", "contextSucceed", "contextSnapshot",
                       "contextFail"}

OneSidecarAlone == \A v, w \in Workers : SidecarAlone(v) /\ Alone(w) => v = w
=============================================================================
