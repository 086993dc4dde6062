----------------------------- MODULE ContextLog -----------------------------
(***************************************************************************)
(* The event log of the context sidecar (paper_context_scheduler.py), on   *)
(* the slots of the paper schedule.  A prepared row holds the bundle: the  *)
(* captures it was built from.  Only SUCCEEDED is final here; nothing is   *)
(* recorded as missed or expired.  "supplied" is history, not in the log:  *)
(* whether the bundle was built by the sidecar's own command line.         *)
(***************************************************************************)
EXTENDS PaperLog

CONSTANTS MaxSkew   \* _MAX_SOURCE_SKEW (15 minutes)

ASSUME SkewAssumption == MaxSkew \in Nat

VARIABLES
    context,      \* what _project makes of the log, per slot
    contextLog    \* time of its last event, and how many there are

contextVars == <<context, contextLog>>

ContextInit ==
    /\ context = [k \in Slots |->
                    [status |-> "UNSEEN", attempt |-> 0, lease |-> 0, prepared |-> None,
                     supplied |-> FALSE]]
    /\ contextLog = [at |-> 0, events |-> 0]

ContextAppend(t) == contextLog' = [at |-> t, events |-> contextLog.events + 1]

ContextBusy(k, t) ==
    context[k].status \in {"CLAIMED", "PREPARED"} /\ t < context[k].lease

ContextClaimable(k, t) ==
    /\ Active(k, t)
    /\ context[k].status # "SUCCEEDED"
    /\ ~ContextBusy(k, t)
    /\ t >= contextLog.at

ClaimContext(k, t) ==
    /\ context' = [context EXCEPT
                     ![k].status = IF context[k].prepared = None THEN "CLAIMED" ELSE "PREPARED",
                     ![k].attempt = @ + 1,
                     ![k].lease = t + Lease]
    /\ ContextAppend(t)

OwnsContext(k, attempt, status, t) ==
    /\ context[k].status = status
    /\ context[k].attempt = attempt
    /\ t >= contextLog.at

Apart(s, t) == IF s < t THEN t - s ELSE s - t

(***************************************************************************)
(* _slot_and_pit and the slot check of prepare: the paper decision and the *)
(* perpetual source lie in slot k and close to each other, the bundle is   *)
(* built in the slot and after both.                                       *)
(***************************************************************************)
BundleFits(k, b, created) ==
    /\ Active(k, b.paper.at)
    /\ Active(k, b.perpetual.at)
    /\ Apart(b.perpetual.at, b.paper.at) <= MaxSkew
    /\ b.paper.at <= created /\ b.perpetual.at <= created
    /\ created < Expires(k)

PrepareContext(k, b, supplied, t) ==
    /\ context' = [context EXCEPT ![k].status = "PREPARED", ![k].prepared = b,
                                  ![k].supplied = supplied]
    /\ ContextAppend(t)

FinishContext(k, status, t) ==
    /\ context' = [context EXCEPT ![k].status = status]
    /\ ContextAppend(t)
=============================================================================
