---------------------------- MODULE OrderAtVenue ----------------------------
(***************************************************************************)
(* One OrderAggregate and the venue it talks to.  The venue is external:   *)
(* it is what the event types of orders.py and the venue of the simulated  *)
(* broker say an exchange does.  Requests may be lost or arrive late; what *)
(* the venue reports may arrive in any order, late, again and again, or    *)
(* never; a query of the venue gives a reconciliation result that is       *)
(* applied some time later.                                                *)
(***************************************************************************)
EXTENDS OrderAggregate

CONSTANTS
  MaxUncertain,   \* bound on timeouts, disconnects and unparseable answers
  MaxQueries      \* bound on reconciliation queries

ASSUME VenueAssumption == MaxUncertain \in Nat /\ MaxQueries \in Nat

VARIABLES
  venue,      \* the order at the venue: its status and its cumulative fills
  requests,   \* requests that are on their way to the venue
  wire,       \* reports and reconciliation results on their way back
  uncertain,  \* uncertain answers so far
  queries     \* queries so far

vars == <<state, filled, beforeUnknown, processed, venue, requests, wire, uncertain, queries>>

Closed == {"filled", "canceled", "rejected", "expired"}
VenueStates == {"absent", "working"} \cup Closed

-----------------------------------------------------------------------------
(* Events *)

\* Events of one type and content are one event; its id is its name and a number.
Report(type, fill) ==
  [id |-> <<type, fill, 0>>, type |-> type, fill |-> fill, evidence |-> FALSE,
   precedesCancel |-> TRUE, cancelPending |-> FALSE]
Local(type, n) == [Report(type, None) EXCEPT !.id = <<type, None, n>>]
Evidence(type, fill, n) ==
  [Report(type, fill) EXCEPT !.id = <<type, fill, n>>, !.evidence = TRUE,
                             !.cancelPending = "cancel" \in requests]

\* What a query of the venue finds out.  An order that the venue does not know may still be
\* on its way, so that it stays unresolved.
Findings ==
  CASE venue.status = "absent" -> Evidence("RECON_UNRESOLVED", None, queries)
    [] venue.status = "working" /\ venue.filled = 0 -> Evidence("RECON_ACK", None, queries)
    [] venue.status = "working" /\ venue.filled > 0 ->
         Evidence("RECON_PARTIAL_FILL", venue.filled, queries)
    [] venue.status = "filled" -> Evidence("RECON_FULL_FILL", Quantity, queries)
    [] venue.status = "canceled" -> Evidence("RECON_CANCELED", venue.filled, queries)
    [] venue.status = "rejected" -> Evidence("RECON_REJECTED", None, queries)
    [] venue.status = "expired" -> Evidence("RECON_EXPIRED", venue.filled, queries)

-----------------------------------------------------------------------------
(* The local side *)

\* The risk gate, the local validation and the operator.
Decide ==
  /\ \E type \in {"RISK_PASS", "RISK_DENY", "LOCAL_VALIDATION_FAILED"} : Apply(Local(type, 0))
  /\ UNCHANGED <<venue, requests, wire, uncertain, queries>>

\* The state is recorded before the request leaves.
Submit ==
  /\ Apply(Local("SUBMIT_STARTED", 0))
  /\ requests' = requests \cup {"submit"}
  /\ UNCHANGED <<venue, wire, uncertain, queries>>

RequestCancel ==
  /\ Apply(Local("CANCEL_REQUESTED", 0))
  /\ requests' = requests \cup {"cancel"}
  /\ UNCHANGED <<venue, wire, uncertain, queries>>

\* No answer, or none that can be read.
HearNothing ==
  /\ uncertain < MaxUncertain
  /\ uncertain' = uncertain + 1
  /\ \E type \in UncertainTypes : Apply(Local(type, uncertain))
  /\ UNCHANGED <<venue, requests, wire, queries>>

\* A reconciliation query of an UNKNOWN order; its result is applied by Deliver.
Query ==
  /\ state = "UNKNOWN"
  /\ queries < MaxQueries
  /\ queries' = queries + 1
  /\ wire' = wire \cup {Findings}
  /\ UNCHANGED <<orderVars, venue, requests, uncertain>>

\* Anything on the wire may be delivered now, and again later: it stays there.
Deliver(e) ==
  /\ e \in wire
  /\ Apply(e)
  /\ UNCHANGED <<venue, requests, wire, uncertain, queries>>

-----------------------------------------------------------------------------
(* The venue *)

VenueSays(status, quantity, report) ==
  /\ venue' = [status |-> status, filled |-> quantity]
  /\ wire' = wire \cup {report}

ReceiveOrder ==
  /\ "submit" \in requests
  /\ requests' = requests \ {"submit"}
  /\ VenueSays("working", 0, Report("ACK", None)) \/ VenueSays("rejected", 0, Report("REJECT", None))
  /\ UNCHANGED <<orderVars, uncertain, queries>>

Trade ==
  /\ venue.status = "working"
  /\ \E q \in (venue.filled + 1)..Quantity :
       IF q = Quantity THEN VenueSays("filled", q, Report("FULL_FILL", q))
                       ELSE VenueSays("working", q, Report("PARTIAL_FILL", q))
  /\ UNCHANGED <<orderVars, requests, uncertain, queries>>

ReceiveCancel ==
  /\ "cancel" \in requests
  /\ requests' = requests \ {"cancel"}
  /\ IF venue.status = "working"
     THEN VenueSays("canceled", venue.filled, Report("CANCEL_CONFIRMED", None))
     ELSE UNCHANGED <<venue, wire>>
  /\ UNCHANGED <<orderVars, uncertain, queries>>

\* The venue ends a working order on its own.
EndOrder ==
  /\ venue.status = "working"
  /\ \/ VenueSays("expired", venue.filled, Report("VENUE_EXPIRED", None))
     \/ VenueSays("canceled", venue.filled, Report("VENUE_CANCEL_CONFIRMED", None))
  /\ UNCHANGED <<orderVars, requests, uncertain, queries>>

\* A request that is lost never arrives.
LoseRequest ==
  /\ \E r \in requests : requests' = requests \ {r}
  /\ UNCHANGED <<orderVars, venue, wire, uncertain, queries>>

-----------------------------------------------------------------------------
(* The specification *)

VenueInit ==
  /\ Init
  /\ venue = [status |-> "absent", filled |-> 0]
  /\ requests = {} /\ wire = {}
  /\ uncertain = 0 /\ queries = 0

DeliverSome == \E e \in wire : Deliver(e)

VenueNext ==
  \/ Decide \/ Submit \/ RequestCancel \/ HearNothing \/ Query \/ DeliverSome
  \/ ReceiveOrder \/ Trade \/ ReceiveCancel \/ EndOrder \/ LoseRequest

VenueSpec == VenueInit /\ [][VenueNext]_vars

-----------------------------------------------------------------------------
(* Properties *)

\* The state has its type.
VenueTypeOK ==
  /\ state \in OrderStates /\ filled \in 0..Quantity
  /\ venue \in [status : VenueStates, filled : 0..Quantity]
  /\ requests \subseteq {"submit", "cancel"}
  /\ uncertain \in 0..MaxUncertain /\ queries \in 0..MaxQueries

\* The order never claims a fill the venue did not make, although reports come late, out of
\* order and more than once, and reconciliation results are stale when applied.
NeverAheadOfVenue == filled <= venue.filled

\* The order is never over here while it can still trade there: every end it reached,
\* by reports or by reconciliation evidence, is the end the venue gave it.
EndedHereMeansEndedThere ==
  /\ state = "FILLED" => venue.status = "filled"
  /\ state = "CANCELED" => venue.status = "canceled"
  /\ state = "REJECTED" => venue.status = "rejected"
  /\ state = "EXPIRED" => venue.status = "expired"
=============================================================================
