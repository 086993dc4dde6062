--------------------------- MODULE OrderAggregate ---------------------------
(***************************************************************************)
(* The order state machine of orders.py: one order, fed with normalised    *)
(* events in whatever order, and as often, as they come.  An event that    *)
(* raises ContractError is rolled back whole, its id included, so that it  *)
(* takes no step here and may be applied later.  Quantities are numbers of *)
(* quantity steps.                                                         *)
(***************************************************************************)
EXTENDS Integers

CONSTANTS
  Quantity,   \* requested_quantity
  Ids,        \* event ids
  Delivered,  \* the events that may be offered to the order
  None        \* no cumulative quantity, no state before UNKNOWN

PreSubmit == {"CREATED", "RISK_APPROVED", "RISK_DENIED", "FAILED_PRE_SUBMIT"}
MayHaveLeft == {"SUBMITTING", "ACKNOWLEDGED", "PARTIALLY_FILLED", "CANCEL_PENDING"}
VenueTerminals == {"FILLED", "CANCELED", "REJECTED", "EXPIRED"}
TerminalStates == VenueTerminals \cup {"RISK_DENIED", "FAILED_PRE_SUBMIT"}
OrderStates == PreSubmit \cup MayHaveLeft \cup VenueTerminals \cup {"UNKNOWN"}

LocalTypes == {"RISK_PASS", "RISK_DENY", "SUBMIT_STARTED", "LOCAL_VALIDATION_FAILED",
               "CANCEL_REQUESTED"}
UncertainTypes == {"TIMEOUT", "DISCONNECT", "UNPARSEABLE"}
PartialFills == {"PARTIAL_FILL", "RECON_PARTIAL_FILL"}
FullFills == {"FULL_FILL", "RECON_FULL_FILL"}
FillTypes == PartialFills \cup FullFills
ReconTypes == {"RECON_ACK", "RECON_PARTIAL_FILL", "RECON_FULL_FILL", "RECON_CANCELED",
               "RECON_REJECTED", "RECON_EXPIRED", "RECON_UNRESOLVED"}
VenueTypes == {"ACK", "REJECT", "PARTIAL_FILL", "FULL_FILL", "VENUE_EXPIRED",
               "VENUE_CANCEL_CONFIRMED", "CANCEL_CONFIRMED"}
EventTypes == LocalTypes \cup UncertainTypes \cup ReconTypes \cup VenueTypes

\* The arguments of apply.  A reconciliation result id is there or it is not.
Events == [id : Ids, type : EventTypes, fill : Nat \cup {None}, evidence : BOOLEAN,
           precedesCancel : BOOLEAN, cancelPending : BOOLEAN]

ASSUME OrderAssumption ==
  /\ Quantity \in Nat \ {0}
  /\ None \notin Nat \cup OrderStates
  /\ Delivered \subseteq Events

VARIABLES
  state,          \* OrderAggregate.state
  filled,         \* cumulative_filled_quantity
  beforeUnknown,  \* _state_before_unknown
  processed       \* _processed_events

orderVars == <<state, filled, beforeUnknown, processed>>

-----------------------------------------------------------------------------
(* What apply accepts *)

\* _record_event: an id counts once; with other content it is refused.
Fresh(e) == \A f \in processed : f.id # e.id

\* RECON events need the UNKNOWN state and evidence, the others must carry none.
Admissible(e) ==
  IF e.type \in ReconTypes THEN state = "UNKNOWN" /\ e.evidence ELSE ~e.evidence

\* Mutant: a cumulative quantity may go down.
FillFitsAnyDirection(e) ==
  /\ e.fill # None
  /\ e.fill <= Quantity
  /\ e.type \in PartialFills => e.fill < Quantity
  /\ e.type \in FullFills => e.fill = Quantity

\* _apply_fill: cumulative, monotone, bounded, and partial exactly below the request.
FillFits(e) ==
  /\ e.fill # None
  /\ filled <= e.fill /\ e.fill <= Quantity
  /\ e.type \in PartialFills => e.fill < Quantity
  /\ e.type \in FullFills => e.fill = Quantity

\* Mutant: the quantity of a fill is taken for an increment.
IncrementalFill(e) == IF e.type \in FillTypes THEN filled + e.fill ELSE filled

\* The quantity after an event: only fills change it.
FilledAfter(e) == IF e.type \in FillTypes THEN e.fill ELSE filled

Becomes(e, newState, newFilled) ==
  /\ state' = newState
  /\ filled' = newFilled
  /\ processed' = processed \cup {e}

-----------------------------------------------------------------------------
(* The cases of _apply_unchecked, in the code's order *)

\* Everything that does not contradict the quantity is absorbed by FILLED.
AbsorbAfterFilled(e) ==
  /\ state = "FILLED"
  /\ e.fill \in {None, Quantity}
  /\ Becomes(e, state, filled)
  /\ UNCHANGED beforeUnknown

\* A fill that precedes the cancel in exchange time is still added, and may complete.
LateFill(e) ==
  /\ state = "CANCELED"
  /\ e.type \in {"PARTIAL_FILL", "FULL_FILL"}
  /\ e.precedesCancel /\ FillFits(e)
  /\ Becomes(e, IF e.fill = Quantity THEN "FILLED" ELSE state, e.fill)
  /\ UNCHANGED beforeUnknown

\* A request that may have left the process and got no clear answer is UNKNOWN.
LoseTrack(e) ==
  /\ e.type \in UncertainTypes
  /\ state \in MayHaveLeft
  /\ Becomes(e, "UNKNOWN", filled)
  /\ beforeUnknown' = state

\* Mutant: an order the venue does not find is taken for rejected.
UnresolvedIsRejected(type) ==
  CASE type = "RECON_ACK" -> "ACKNOWLEDGED"
    [] type = "RECON_FULL_FILL" -> "FILLED"
    [] type = "RECON_CANCELED" -> "CANCELED"
    [] type = "RECON_REJECTED" -> "REJECTED"
    [] type = "RECON_EXPIRED" -> "EXPIRED"
    [] type = "RECON_UNRESOLVED" -> "REJECTED"

\* The state that evidence puts in the place of UNKNOWN; a partial fill depends on more.
Resolved(type) ==
  CASE type = "RECON_ACK" -> "ACKNOWLEDGED"
    [] type = "RECON_FULL_FILL" -> "FILLED"
    [] type = "RECON_CANCELED" -> "CANCELED"
    [] type = "RECON_REJECTED" -> "REJECTED"
    [] type = "RECON_EXPIRED" -> "EXPIRED"
    [] type = "RECON_UNRESOLVED" -> "UNKNOWN"

\* UNKNOWN is left with reconciliation evidence only; a partial fill keeps the cancel that
\* was pending.
Reconcile(e) ==
  /\ state = "UNKNOWN"
  /\ e.type \in ReconTypes
  /\ e.type \in FillTypes => FillFits(e)
  /\ IF e.type = "RECON_PARTIAL_FILL"
     THEN Becomes(e, IF e.cancelPending \/ beforeUnknown = "CANCEL_PENDING"
                     THEN "CANCEL_PENDING" ELSE "PARTIALLY_FILLED", FilledAfter(e))
     ELSE Becomes(e, Resolved(e.type), FilledAfter(e))
  /\ UNCHANGED beforeUnknown

\* The transition table, with the late ACK after a fill.
Transition(from, type, to) ==
  \/ from = "CREATED" /\ type = "RISK_PASS" /\ to = "RISK_APPROVED"
  \/ from = "CREATED" /\ type = "RISK_DENY" /\ to = "RISK_DENIED"
  \/ from = "RISK_APPROVED" /\ type = "SUBMIT_STARTED" /\ to = "SUBMITTING"
  \/ from = "RISK_APPROVED" /\ type = "LOCAL_VALIDATION_FAILED" /\ to = "FAILED_PRE_SUBMIT"
  \/ from = "SUBMITTING" /\ type = "ACK" /\ to = "ACKNOWLEDGED"
  \/ from = "SUBMITTING" /\ type = "REJECT" /\ to = "REJECTED"
  \/ from = "PARTIALLY_FILLED" /\ type = "ACK" /\ to = "PARTIALLY_FILLED"
  \/ from \in MayHaveLeft /\ type = "FULL_FILL" /\ to = "FILLED"
  \/ from \in MayHaveLeft \ {"CANCEL_PENDING"} /\ type = "PARTIAL_FILL"
       /\ to = "PARTIALLY_FILLED"
  \/ from = "CANCEL_PENDING" /\ type = "PARTIAL_FILL" /\ to = "CANCEL_PENDING"
  \/ from = "CANCEL_PENDING" /\ type = "CANCEL_CONFIRMED" /\ to = "CANCELED"
  \/ /\ from \in {"ACKNOWLEDGED", "PARTIALLY_FILLED"}
     /\ \/ type = "CANCEL_REQUESTED" /\ to = "CANCEL_PENDING"
        \/ type = "VENUE_EXPIRED" /\ to = "EXPIRED"
        \/ type = "VENUE_CANCEL_CONFIRMED" /\ to = "CANCELED"

Advance(e) ==
  /\ e.type \in FillTypes => FillFits(e)
  /\ \E to \in OrderStates : Transition(state, e.type, to) /\ Becomes(e, to, FilledAfter(e))
  /\ UNCHANGED beforeUnknown

\* apply: a repeated event returns without effect, a refused one raises.
Apply(e) ==
  /\ Fresh(e) /\ Admissible(e)
  /\ AbsorbAfterFilled(e) \/ LateFill(e) \/ LoseTrack(e) \/ Reconcile(e) \/ Advance(e)

-----------------------------------------------------------------------------
(* The specification *)

Init ==
  /\ state = "CREATED"
  /\ filled = 0
  /\ beforeUnknown = None
  /\ processed = {}

Next == \E e \in Delivered : Apply(e)

Spec == Init /\ [][Next]_orderVars

-----------------------------------------------------------------------------
(* Properties *)

\* The state has its type, and an UNKNOWN order remembers where it was lost.
TypeOK ==
  /\ state \in OrderStates
  /\ filled \in 0..Quantity
  /\ beforeUnknown \in MayHaveLeft \cup {None}
  /\ state = "UNKNOWN" => beforeUnknown # None
  /\ processed \subseteq Delivered

\* The economic and the formal end of an order agree: it is FILLED exactly when its whole
\* quantity is, whatever mixture of fills, late fills and reconciliations got it there.
FilledIsWhole == state = "FILLED" <=> filled = Quantity

\* Fills are irrevocable: no event takes one back, reverses FILLED or reopens an order that
\* ended; the one change of an end is the late fill that completes a canceled order.
EconomicFactsStay ==
  [][/\ filled <= filled'
     /\ state \in TerminalStates =>
          state' = state \/ (state = "CANCELED" /\ state' = "FILLED")
     /\ state \notin PreSubmit => state' \notin PreSubmit]_orderVars
=============================================================================
