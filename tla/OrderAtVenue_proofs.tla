------------------------- MODULE OrderAtVenue_proofs -------------------------
(***************************************************************************)
(* Theorems about an order and its venue for every quantity and any number *)
(* of uncertain answers and queries, whatever is lost, late, repeated or   *)
(* out of order between them.                                              *)
(***************************************************************************)
EXTENDS OrderAtVenue, TLAPS

-----------------------------------------------------------------------------
(* The order alone, under any events *)

\* Type correctness carries the agreement of FILLED and the quantity along: a fill below
\* the quantity moves to an open state and one of the whole quantity to FILLED.
OrderInv ==
  /\ state \in OrderStates /\ filled \in 0..Quantity
  /\ beforeUnknown \in MayHaveLeft \cup {None}
  /\ state = "UNKNOWN" => beforeUnknown # None
  /\ FilledIsWhole

Keeps ==
  /\ filled <= filled'
  /\ state \in TerminalStates => state' = state \/ (state = "CANCELED" /\ state' = "FILLED")
  /\ state \notin PreSubmit => state' \notin PreSubmit

\* The fill of an event that fits is a quantity the order may hold.
LEMMA FittingFill ==
  ASSUME OrderInv, NEW e, e.fill \in Nat \cup {None}, FillFits(e)
  PROVE  /\ e.fill \in 0..Quantity /\ filled <= e.fill
         /\ e.type \in PartialFills => e.fill < Quantity
         /\ e.type \in FullFills => e.fill = Quantity
BY OrderAssumption DEF OrderInv, FillFits

\* Every accepted event keeps the invariant and respects what is economically final.
LEMMA ApplyStep ==
  ASSUME OrderInv, NEW e, e.type \in EventTypes, e.fill \in Nat \cup {None}, Apply(e)
  PROVE  OrderInv' /\ Keeps
<1> USE DEF OrderStates, PreSubmit, MayHaveLeft, VenueTerminals, TerminalStates, Keeps
<1>1. Quantity \in Nat \ {0} /\ None \notin Nat /\ filled \in 0..Quantity
  BY OrderAssumption DEF OrderInv
<1>2. CASE AbsorbAfterFilled(e)
  BY <1>1, <1>2 DEF AbsorbAfterFilled, Becomes, OrderInv, FilledIsWhole
<1>3. CASE LateFill(e)
  BY <1>1, <1>3, FittingFill DEF LateFill, Becomes, OrderInv, FilledIsWhole
<1>4. CASE LoseTrack(e)
  BY <1>1, <1>4, OrderAssumption DEF LoseTrack, Becomes, OrderInv, FilledIsWhole
<1>5. CASE Reconcile(e)
  <2>1. CASE e.type = "RECON_PARTIAL_FILL"
    <3>1. /\ e.type \in FillTypes /\ e.type \in PartialFills
          /\ state' \in {"CANCEL_PENDING", "PARTIALLY_FILLED"} /\ filled' = e.fill
          /\ processed' = processed \cup {e} /\ UNCHANGED beforeUnknown
      BY <1>5, <2>1 DEF Reconcile, Becomes, FilledAfter, FillTypes, PartialFills
    <3>2. e.fill \in 0..Quantity /\ filled <= e.fill /\ e.fill < Quantity
      BY <1>1, <1>5, <3>1, FittingFill DEF Reconcile
    <3> QED
      BY <1>1, <1>5, <3>1, <3>2 DEF Reconcile, OrderInv, FilledIsWhole
  <2>2. CASE e.type = "RECON_FULL_FILL"
    <3>1. /\ e.type \in FillTypes /\ e.type \in FullFills
          /\ state' = "FILLED" /\ filled' = e.fill
          /\ processed' = processed \cup {e} /\ UNCHANGED beforeUnknown
      BY <1>5, <2>2 DEF Reconcile, Becomes, FilledAfter, FillTypes, FullFills, Resolved
    <3>2. e.fill \in 0..Quantity /\ filled <= e.fill /\ e.fill = Quantity
      BY <1>1, <1>5, <3>1, FittingFill DEF Reconcile
    <3> QED
      BY <1>1, <1>5, <3>1, <3>2 DEF Reconcile, OrderInv, FilledIsWhole
  <2>3. CASE e.type \in ReconTypes \ {"RECON_PARTIAL_FILL", "RECON_FULL_FILL"}
    <3>1. e.type \notin FillTypes
      BY <2>3 DEF FillTypes, PartialFills, FullFills, ReconTypes
    <3>2. /\ state' \in {"ACKNOWLEDGED", "CANCELED", "REJECTED", "EXPIRED", "UNKNOWN"}
          /\ filled' = filled /\ processed' = processed \cup {e} /\ UNCHANGED beforeUnknown
      BY <1>5, <2>3, <3>1 DEF Reconcile, Becomes, FilledAfter, Resolved, ReconTypes
    <3> QED
      BY <1>1, <1>5, <3>2 DEF Reconcile, OrderInv, FilledIsWhole
  <2> QED
    BY <1>5, <2>1, <2>2, <2>3 DEF Reconcile
<1>6. CASE Advance(e)
  <2>1. PICK to \in OrderStates : Transition(state, e.type, to) /\ Becomes(e, to, FilledAfter(e))
    BY <1>6 DEF Advance
  <2>2. CASE e.type \in FillTypes
    <3>1. /\ e.fill \in 0..Quantity /\ filled <= e.fill /\ filled' = e.fill
          /\ e.type \in PartialFills => e.fill < Quantity
          /\ e.type \in FullFills => e.fill = Quantity
      BY <1>1, <1>6, <2>1, <2>2, FittingFill DEF Advance, Becomes, FilledAfter
    <3>2. \/ e.type = "FULL_FILL" /\ to = "FILLED" /\ state \in MayHaveLeft
          \/ e.type = "PARTIAL_FILL" /\ to \in MayHaveLeft /\ state \in MayHaveLeft
      BY <2>1, <2>2 DEF Transition, FillTypes, PartialFills, FullFills
    <3> QED
      BY <1>1, <1>6, <2>1, <3>1, <3>2
         DEF Advance, Becomes, OrderInv, FilledIsWhole, PartialFills, FullFills
  <2>3. CASE e.type \notin FillTypes
    <3>1. /\ to # "FILLED" /\ state # "FILLED" /\ to # "UNKNOWN" /\ filled' = filled
          /\ state \notin TerminalStates /\ (state \notin PreSubmit => to \notin PreSubmit)
      BY <2>1, <2>3 DEF Transition, FillTypes, PartialFills, FullFills, Becomes, FilledAfter
    <3> QED
      BY <1>1, <1>6, <2>1, <3>1 DEF Advance, Becomes, OrderInv, FilledIsWhole
  <2> QED
    BY <2>2, <2>3
<1> QED
  BY <1>2, <1>3, <1>4, <1>5, <1>6 DEF Apply

\* Every step of the order keeps the invariant and its type.
LEMMA NextInv ==
  ASSUME TypeOK, FilledIsWhole, [Next]_orderVars
  PROVE  TypeOK' /\ FilledIsWhole' /\ (Keeps \/ UNCHANGED orderVars)
<1>1. OrderInv
  BY DEF TypeOK, OrderInv
<1>2. CASE Next
  <2>1. PICK e \in Delivered : Apply(e)
    BY <1>2 DEF Next
  <2>2. e.type \in EventTypes /\ e.fill \in Nat \cup {None}
    BY OrderAssumption DEF Events
  <2>3. OrderInv' /\ Keeps
    BY <1>1, <2>1, <2>2, ApplyStep
  <2>4. processed' = processed \cup {e}
    BY <2>1 DEF Apply, AbsorbAfterFilled, LateFill, LoseTrack, Reconcile, Advance, Becomes
  <2> QED
    BY <2>3, <2>4 DEF TypeOK, OrderInv
<1>3. CASE UNCHANGED orderVars
  BY <1>3 DEF orderVars, TypeOK, FilledIsWhole
<1> QED
  BY <1>2, <1>3

\* The type and FILLED in every reachable state of the order alone.
LEMMA OrderInvHolds == Spec => [](TypeOK /\ FilledIsWhole)
<1>1. Init => TypeOK /\ FilledIsWhole
  BY OrderAssumption DEF Init, TypeOK, FilledIsWhole, OrderStates, PreSubmit
<1>2. TypeOK /\ FilledIsWhole /\ [Next]_orderVars => (TypeOK /\ FilledIsWhole)'
  BY NextInv
<1> QED
  BY <1>1, <1>2, PTL DEF Spec

\* The order is well typed: the cumulative quantity never leaves 0..Quantity and an UNKNOWN
\* order always knows the state it was lost in (OrderAggregate.apply under any events).
THEOREM TypeCorrectness == Spec => []TypeOK
BY OrderInvHolds, PTL

\* An order is FILLED exactly when its cumulative quantity is the requested one, for every
\* sequence of reports, repetitions, late fills and reconciliation results.
THEOREM FilledExactlyWhenWhole == Spec => []FilledIsWhole
BY OrderInvHolds, PTL

\* Fills are never taken back and an ended order is never reopened, whatever events come.
THEOREM EconomicFactsAreFinal == Spec => EconomicFactsStay
<1>1. TypeOK /\ FilledIsWhole /\ [Next]_orderVars => [Keeps]_orderVars
  BY NextInv
<1> QED
  BY <1>1, OrderInvHolds, PTL DEF Spec, EconomicFactsStay, Keeps

-----------------------------------------------------------------------------
(* What an accepted event does to the order *)

FilledBy == {"FULL_FILL", "RECON_FULL_FILL"}
CanceledBy == {"CANCEL_CONFIRMED", "VENUE_CANCEL_CONFIRMED", "RECON_CANCELED"}
RejectedBy == {"REJECT", "RECON_REJECTED"}
ExpiredBy == {"VENUE_EXPIRED", "RECON_EXPIRED"}
NotSubmitted == {"CREATED", "RISK_APPROVED"}

\* Each end has its own causes, a quantity comes from a fill only, and an order that was
\* submitted is never taken for one that was not.
LEMMA EffectOfAnEvent ==
  ASSUME state \in OrderStates, filled \in 0..Quantity,
         NEW e, e.type \in EventTypes, e.fill \in Nat \cup {None}, Apply(e)
  PROVE  /\ state' \in OrderStates /\ filled' \in 0..Quantity
         /\ filled' = filled \/ (e.type \in FillTypes /\ filled' = e.fill)
         /\ state' = "FILLED" => state = "FILLED" \/ e.type \in FilledBy
         /\ state' = "CANCELED" => state = "CANCELED" \/ e.type \in CanceledBy
         /\ state' = "REJECTED" => state = "REJECTED" \/ e.type \in RejectedBy
         /\ state' = "EXPIRED" => state = "EXPIRED" \/ e.type \in ExpiredBy
         /\ state' \in NotSubmitted => state \in NotSubmitted
         /\ state' \notin PreSubmit => \/ state \notin PreSubmit
                                       \/ e.type = "SUBMIT_STARTED"
         /\ processed' = processed \cup {e} /\ Fresh(e)
         /\ e.type = "SUBMIT_STARTED" => state = "RISK_APPROVED" \/ state = "FILLED"
         /\ e.type \in {"SUBMIT_STARTED", "CANCEL_REQUESTED"} => state' \notin NotSubmitted
<1> USE DEF OrderStates, PreSubmit, MayHaveLeft, VenueTerminals, NotSubmitted
<1> DEFINE ends == /\ state' = "FILLED" => state = "FILLED" \/ e.type \in FilledBy
                   /\ state' = "CANCELED" => state = "CANCELED" \/ e.type \in CanceledBy
                   /\ state' = "REJECTED" => state = "REJECTED" \/ e.type \in RejectedBy
                   /\ state' = "EXPIRED" => state = "EXPIRED" \/ e.type \in ExpiredBy
           start == /\ state' \in NotSubmitted => state \in NotSubmitted
                    /\ state' \notin PreSubmit => \/ state \notin PreSubmit
                                                  \/ e.type = "SUBMIT_STARTED"
                    /\ e.type = "SUBMIT_STARTED" => state = "RISK_APPROVED" \/ state = "FILLED"
                    /\ e.type \in {"SUBMIT_STARTED", "CANCEL_REQUESTED"}
                         => state' \notin NotSubmitted
           typed == /\ state' \in OrderStates /\ filled' \in 0..Quantity
                    /\ filled' = filled \/ (e.type \in FillTypes /\ filled' = e.fill)
<1>1. Quantity \in Nat \ {0} /\ None \notin Nat
  BY OrderAssumption
<1>2. FillFits(e) => /\ e.fill \in 0..Quantity
                     /\ e.type \in PartialFills => e.fill # Quantity
  BY <1>1 DEF FillFits
<1>3. CASE AbsorbAfterFilled(e)
  BY <1>3 DEF AbsorbAfterFilled, Becomes, Apply
<1>4. CASE LateFill(e)
  <2>1. e.type \in {"PARTIAL_FILL", "FULL_FILL"} /\ FillFits(e) /\ state = "CANCELED"
        /\ state' \in {"CANCELED", "FILLED"} /\ (state' = "FILLED" => e.fill = Quantity)
        /\ filled' = e.fill /\ processed' = processed \cup {e}
    BY <1>4 DEF LateFill, Becomes
  <2>2. e.type \in FillTypes /\ (e.type = "PARTIAL_FILL" => e.type \in PartialFills)
    BY <2>1 DEF FillTypes, PartialFills, FullFills
  <2>3. ends
    BY <1>2, <2>1, <2>2 DEF FilledBy
  <2> QED
    BY <1>2, <2>1, <2>2, <2>3 DEF Apply
<1>5. CASE LoseTrack(e)
  BY <1>5 DEF LoseTrack, Becomes, UncertainTypes, Apply
<1>6. CASE Reconcile(e)
  <2>1. e.type \in FillTypes => FillFits(e)
    BY <1>6 DEF Reconcile
  <2>2. /\ e.type \in ReconTypes /\ state = "UNKNOWN"
        /\ filled' = FilledAfter(e) /\ processed' = processed \cup {e}
        /\ \/ e.type = "RECON_PARTIAL_FILL" /\ state' \in {"CANCEL_PENDING", "PARTIALLY_FILLED"}
           \/ e.type # "RECON_PARTIAL_FILL" /\ state' = Resolved(e.type)
    BY <1>6 DEF Reconcile, Becomes
  <2>3. filled' \in 0..Quantity /\ (filled' = filled \/ (e.type \in FillTypes /\ filled' = e.fill))
    BY <1>2, <2>1, <2>2 DEF FilledAfter
  <2>4. state' \in OrderStates /\ ends /\ state' \notin PreSubmit
    BY <2>2 DEF Resolved, ReconTypes, FilledBy, CanceledBy, RejectedBy, ExpiredBy
  <2>5. e.type # "SUBMIT_STARTED"
    BY <2>2 DEF ReconTypes
  <2> QED
    BY <2>2, <2>3, <2>4, <2>5 DEF Apply
<1>7. CASE Advance(e)
  <2>1. PICK to \in OrderStates : Transition(state, e.type, to) /\ Becomes(e, to, FilledAfter(e))
    BY <1>7 DEF Advance
  <2>2. state' = to /\ filled' = FilledAfter(e) /\ processed' = processed \cup {e}
    BY <2>1 DEF Becomes
  <2>3. typed
    BY <1>2, <1>7, <2>2 DEF Advance, FilledAfter
  <2>4. ends
    BY <2>1, <2>2 DEF Transition, FilledBy, CanceledBy, RejectedBy, ExpiredBy
  <2>5. start
    BY <2>1, <2>2 DEF Transition
  <2> QED
    BY <2>2, <2>3, <2>4, <2>5 DEF Apply
<1> QED
  BY <1>3, <1>4, <1>5, <1>6, <1>7 DEF Apply

-----------------------------------------------------------------------------
(* The inductive invariant *)

\* What a message on its way back says about the venue, for as long as it may be delivered:
\* an end is final there and a cumulative quantity is never taken back.
Truthful(e) ==
  /\ e.type \in VenueTypes \cup ReconTypes
  /\ e.fill \in Nat \cup {None}
  /\ e.type \in FillTypes => e.fill \in Nat /\ e.fill <= venue.filled
  /\ e.type \in FilledBy => venue.status = "filled"
  /\ e.type \in CanceledBy => venue.status = "canceled"
  /\ e.type \in RejectedBy => venue.status = "rejected"
  /\ e.type \in ExpiredBy => venue.status = "expired"
WireFits == \A e \in wire : Truthful(e)

\* A venue that filled the order filled all of it, and none before it had the order.
VenueFits ==
  /\ venue.status = "filled" => venue.filled = Quantity
  /\ venue.status = "absent" => venue.filled = 0

\* The order is submitted once: the event that records it is there for good, and while the
\* request travels the venue does not know the order.
Started == Local("SUBMIT_STARTED", 0)
RequestFits ==
  /\ state \in NotSubmitted => requests = {} /\ venue.status = "absent"
  /\ "submit" \in requests => venue.status = "absent"
  /\ state \notin PreSubmit => Started \in processed

VInv ==
  /\ VenueTypeOK /\ OrderInv
  /\ WireFits /\ VenueFits /\ RequestFits
  /\ NeverAheadOfVenue /\ EndedHereMeansEndedThere

\* The venue and what it says only go forward: what was said stays true.
Forward ==
  /\ venue.filled <= venue'.filled
  /\ venue.status \in Closed => venue'.status = venue.status

LEMMA TruthLasts ==
  ASSUME VenueTypeOK, VenueTypeOK', WireFits, Forward, NEW e \in wire
  PROVE  Truthful(e)'
<1>1. Truthful(e) /\ venue.filled \in Nat /\ venue'.filled \in Nat
  BY OrderAssumption DEF WireFits, VenueTypeOK
<1>2. e.type \in FillTypes => e.fill \in Nat /\ e.fill <= venue'.filled
  BY <1>1 DEF Truthful, Forward
<1> QED
  BY <1>1, <1>2 DEF Truthful, Forward, Closed

\* An accepted event keeps the invariant if it is local or true of the venue; only submit
\* and cancel add a request.
LEMMA LocalStep ==
  ASSUME VInv, NEW e, e.type \in EventTypes, e.fill \in Nat \cup {None}, Apply(e),
         UNCHANGED <<venue, wire>>,
         \/ Truthful(e) /\ requests' = requests
         \/ /\ e.type \in LocalTypes \cup UncertainTypes
            /\ e.type \notin {"SUBMIT_STARTED", "CANCEL_REQUESTED"} /\ requests' = requests
         \/ e = Started /\ requests' = requests \cup {"submit"}
         \/ e.type = "CANCEL_REQUESTED" /\ requests' = requests \cup {"cancel"},
         uncertain' \in 0..MaxUncertain, queries' \in 0..MaxQueries
  PROVE  VInv' /\ Keeps
<1>1. /\ state \in OrderStates /\ filled \in 0..Quantity /\ Quantity \in Nat
      /\ venue.filled \in 0..Quantity
  BY OrderAssumption DEF VInv, VenueTypeOK
<1> DEFINE local == e.type \in LocalTypes \cup UncertainTypes
<1>0. local \/ Truthful(e)
  BY DEF Started, Local, Report, LocalTypes
<1>2. local => /\ e.type \notin FillTypes \cup FilledBy \cup CanceledBy
               /\ e.type \notin RejectedBy \cup ExpiredBy
  BY DEF LocalTypes, UncertainTypes, FillTypes, PartialFills, FullFills, FilledBy, CanceledBy,
         RejectedBy, ExpiredBy
<1>3. VenueTypeOK'
  BY <1>1, EffectOfAnEvent DEF VInv, VenueTypeOK
<1>4. NeverAheadOfVenue'
  BY <1>0, <1>1, <1>2, EffectOfAnEvent DEF VInv, NeverAheadOfVenue, Truthful
<1>5. EndedHereMeansEndedThere'
  BY <1>0, <1>1, <1>2, EffectOfAnEvent DEF VInv, EndedHereMeansEndedThere, Truthful
<1>6. WireFits' /\ VenueFits'
  BY DEF VInv, WireFits, VenueFits, Truthful
<1>7. RequestFits'
  <2>1. Truthful(e) => e.type \notin {"SUBMIT_STARTED", "CANCEL_REQUESTED"}
    BY DEF Truthful, VenueTypes, ReconTypes
  <2>2. /\ state' \in NotSubmitted => state \in NotSubmitted
        /\ state' \notin PreSubmit => state \notin PreSubmit \/ e.type = "SUBMIT_STARTED"
        /\ processed' = processed \cup {e} /\ Fresh(e)
        /\ e.type = "SUBMIT_STARTED" => state = "RISK_APPROVED" \/ state = "FILLED"
        /\ e.type \in {"SUBMIT_STARTED", "CANCEL_REQUESTED"} => state' \notin NotSubmitted
    BY <1>1, EffectOfAnEvent
  <2>7. Started.type = "SUBMIT_STARTED"
    BY DEF Started, Local, Report
  <2>3. e.type = "SUBMIT_STARTED" => e = Started /\ state = "RISK_APPROVED"
    <3>1. e.type = "SUBMIT_STARTED" => e = Started
      BY <2>1
    <3>2. Started \in processed => ~Fresh(Started)
      BY DEF Fresh
    <3> QED
      BY <2>2, <3>1, <3>2 DEF VInv, RequestFits, PreSubmit
  <2>4. state' \notin PreSubmit => Started \in processed'
    BY <2>2, <2>3 DEF VInv, RequestFits
  <2>5. "submit" \in requests' => venue.status = "absent"
    BY <2>3, <2>7 DEF VInv, RequestFits, NotSubmitted
  <2>6. state' \in NotSubmitted => requests' = {} /\ venue.status = "absent"
    BY <2>2, <2>7 DEF VInv, RequestFits
  <2> QED
    BY <2>4, <2>5, <2>6 DEF RequestFits
<1>8. OrderInv' /\ Keeps
  BY ApplyStep DEF VInv
<1> QED
  BY <1>3, <1>4, <1>5, <1>6, <1>7, <1>8 DEF VInv

\* A step of the venue keeps the invariant if it goes forward and what it says is true.
LEMMA VenueStep ==
  ASSUME VInv, UNCHANGED <<orderVars, uncertain>>, queries' \in 0..MaxQueries,
         requests' \subseteq requests, VenueTypeOK', VenueFits', Forward,
         "submit" \in requests' => venue'.status = "absent",
         venue' = venue \/ venue.status # "absent" \/ "submit" \in requests,
         \/ wire' = wire
         \/ \E e : wire' = wire \cup {e} /\ Truthful(e)'
  PROVE  VInv'
<1>1. venue.filled \in Nat /\ venue'.filled \in Nat /\ filled \in Nat
  BY OrderAssumption DEF VInv, VenueTypeOK
<1>2. UNCHANGED <<state, filled, processed>>
  BY DEF orderVars
<1>3. WireFits'
  BY TruthLasts DEF VInv, WireFits
<1>4. NeverAheadOfVenue'
  BY <1>1, <1>2 DEF VInv, NeverAheadOfVenue, Forward
<1>5. EndedHereMeansEndedThere'
  BY <1>2 DEF VInv, EndedHereMeansEndedThere, Forward, Closed
<1>6. RequestFits'
  BY <1>2 DEF VInv, RequestFits
<1>7. OrderInv'
  BY DEF VInv, OrderInv, orderVars, FilledIsWhole
<1> QED
  BY <1>3, <1>4, <1>5, <1>6, <1>7 DEF VInv

\* The order's own steps: what is delivered is true of the venue, everything else is local.
LEMMA OrderSteps ==
  ASSUME VInv, Decide \/ Submit \/ RequestCancel \/ HearNothing \/ DeliverSome
  PROVE  VInv' /\ Keeps
<1>1. uncertain \in 0..MaxUncertain /\ queries \in 0..MaxQueries /\ MaxUncertain \in Nat
  BY VenueAssumption DEF VInv, VenueTypeOK
<1>2. ASSUME NEW type, NEW n
      PROVE  Local(type, n).type = type /\ Local(type, n).fill = None
  BY DEF Local, Report
<1>3. CASE Decide
  <2>1. PICK type \in {"RISK_PASS", "RISK_DENY", "LOCAL_VALIDATION_FAILED"} :
          Apply(Local(type, 0))
    BY <1>3 DEF Decide
  <2>2. type \in LocalTypes /\ type \in EventTypes
    BY DEF LocalTypes, EventTypes
  <2> QED
    BY <1>1, <1>2, <1>3, <2>1, <2>2, LocalStep DEF Decide
<1>4. CASE Submit
  <2>1. Started.type = "SUBMIT_STARTED" /\ Started.fill = None /\ Started.type \in EventTypes
    BY DEF Started, Local, Report, EventTypes, LocalTypes
  <2> QED
    BY <1>1, <1>4, <2>1, LocalStep DEF Submit, Started
<1>5. CASE RequestCancel
  <2>1. "CANCEL_REQUESTED" \in EventTypes
    BY DEF EventTypes, LocalTypes
  <2> QED
    BY <1>1, <1>2, <1>5, <2>1, LocalStep DEF RequestCancel
<1>6. CASE HearNothing
  <2>1. PICK type \in UncertainTypes : Apply(Local(type, uncertain))
    BY <1>6 DEF HearNothing
  <2>2. type \in EventTypes /\ type \notin {"SUBMIT_STARTED", "CANCEL_REQUESTED"}
    BY DEF UncertainTypes, EventTypes
  <2>3. uncertain' \in 0..MaxUncertain
    BY <1>1, <1>6 DEF HearNothing
  <2> QED
    BY <1>1, <1>2, <1>6, <2>1, <2>2, <2>3, LocalStep DEF HearNothing
<1>7. CASE DeliverSome
  <2>1. PICK e \in wire : Deliver(e)
    BY <1>7 DEF DeliverSome
  <2>2. Truthful(e) /\ e.type \in EventTypes /\ e.fill \in Nat \cup {None}
    BY DEF VInv, WireFits, Truthful, EventTypes
  <2> QED
    BY <1>1, <2>1, <2>2, LocalStep DEF Deliver
<1> QED
  BY <1>3, <1>4, <1>5, <1>6, <1>7

\* What a query finds out is true when it is asked, and stays true.
LEMMA FindingsAreTrue ==
  ASSUME VInv PROVE Truthful(Findings)
<1>1. venue.status \in VenueStates /\ venue.filled \in Nat /\ Quantity \in Nat
  BY OrderAssumption DEF VInv, VenueTypeOK
<1>2. ASSUME NEW type, NEW fill
      PROVE  /\ Evidence(type, fill, queries).type = type
             /\ Evidence(type, fill, queries).fill = fill
  BY DEF Evidence, Report
<1> USE DEF Truthful, FilledBy, CanceledBy, RejectedBy, ExpiredBy, FillTypes, PartialFills,
            FullFills, ReconTypes
<1>3. CASE venue.status \in {"absent", "working"}
  BY <1>1, <1>2, <1>3 DEF Findings
<1>4. CASE venue.status \in Closed
  BY <1>1, <1>2, <1>4 DEF Findings, Closed, VInv, VenueFits
<1> QED
  BY <1>1, <1>3, <1>4 DEF VenueStates

\* The venue's steps go forward and report what they did.
LEMMA VenueSteps ==
  ASSUME VInv, Query \/ ReceiveOrder \/ Trade \/ ReceiveCancel \/ EndOrder \/ LoseRequest
  PROVE  VInv' /\ UNCHANGED orderVars
<1>1. /\ venue \in [status : VenueStates, filled : 0..Quantity] /\ Quantity \in Nat \ {0}
      /\ queries \in 0..MaxQueries /\ MaxQueries \in Nat /\ requests \subseteq {"submit", "cancel"}
  BY VenueAssumption, OrderAssumption DEF VInv, VenueTypeOK
<1>2. ASSUME NEW type, NEW fill
      PROVE  Report(type, fill).type = type /\ Report(type, fill).fill = fill
  BY DEF Report
<1>3. ASSUME NEW status \in VenueStates, NEW q \in 0..Quantity, NEW report,
             VenueSays(status, q, report), Truthful(report)', requests' \subseteq requests,
             UNCHANGED <<orderVars, uncertain, queries>>,
             venue.filled <= q, venue.status \notin Closed, status = "filled" => q = Quantity, status # "absent",
             "submit" \notin requests',
             venue.status # "absent" \/ "submit" \in requests
      PROVE  VInv'
  <2>1. venue' = [status |-> status, filled |-> q] /\ wire' = wire \cup {report}
    BY <1>3 DEF VenueSays
  <2>2. VenueTypeOK' /\ VenueFits' /\ Forward
    BY <1>1, <1>3, <2>1 DEF VInv, VenueTypeOK, VenueFits, Forward, orderVars
  <2> QED
    BY <1>1, <1>3, <2>1, <2>2, VenueStep
<1>4. CASE Query
  <2>1. wire' = wire \cup {Findings} /\ UNCHANGED <<orderVars, venue, requests, uncertain>>
    BY <1>4 DEF Query
  <2>2. PICK e : e = Findings
    OBVIOUS
  <2>3. Truthful(e)'
    BY <2>1, <2>2, FindingsAreTrue DEF Truthful
  <2>4. queries' \in 0..MaxQueries
    BY <1>1, <1>4 DEF Query
  <2>5. VenueTypeOK' /\ VenueFits' /\ Forward
    BY <1>1, <2>1, <2>4 DEF VInv, VenueTypeOK, VenueFits, Forward, orderVars
  <2> QED
    BY <2>1, <2>2, <2>3, <2>4, <2>5, VenueStep DEF VInv, RequestFits
<1>5. CASE ReceiveOrder
  <2>1. "submit" \in requests /\ venue.status = "absent" /\ requests' = requests \ {"submit"}
    BY <1>5 DEF ReceiveOrder, VInv, RequestFits
  <2>2. venue.filled <= 0
    BY <2>1 DEF VInv, VenueFits
  <2>3. CASE VenueSays("working", 0, Report("ACK", None))
    <3>1. Truthful(Report("ACK", None))'
      BY <1>2 DEF Truthful, VenueTypes, FillTypes, PartialFills, FullFills, FilledBy, CanceledBy,
                  RejectedBy, ExpiredBy
    <3> QED
      BY <1>1, <1>3, <1>5, <2>1, <2>2, <2>3, <3>1 DEF ReceiveOrder, VenueStates, Closed
  <2>4. CASE VenueSays("rejected", 0, Report("REJECT", None))
    <3>1. Truthful(Report("REJECT", None))'
      BY <1>2, <2>4 DEF Truthful, VenueTypes, FillTypes, PartialFills, FullFills, FilledBy,
                        CanceledBy, RejectedBy, ExpiredBy, VenueSays
    <3> QED
      BY <1>1, <1>3, <1>5, <2>1, <2>2, <2>4, <3>1 DEF ReceiveOrder, VenueStates, Closed
  <2> QED
    BY <1>5, <2>3, <2>4 DEF ReceiveOrder
<1>6. CASE Trade
  <2>1. PICK q \in (venue.filled + 1)..Quantity :
          IF q = Quantity THEN VenueSays("filled", q, Report("FULL_FILL", q))
                          ELSE VenueSays("working", q, Report("PARTIAL_FILL", q))
    BY <1>6 DEF Trade
  <2>2. venue.status = "working" /\ UNCHANGED <<orderVars, requests, uncertain, queries>>
    BY <1>6 DEF Trade
  <2>3. q \in 0..Quantity /\ q \in Nat /\ venue.filled <= q /\ "submit" \notin requests
    BY <1>1, <2>2 DEF VInv, RequestFits
  <2>4. CASE q = Quantity
    <3>1. VenueSays("filled", q, Report("FULL_FILL", q))
      BY <2>1, <2>4
    <3>2. Truthful(Report("FULL_FILL", q))'
      BY <1>2, <2>3, <3>1 DEF Truthful, VenueTypes, FillTypes, PartialFills, FullFills, FilledBy,
                              CanceledBy, RejectedBy, ExpiredBy, VenueSays
    <3> QED
      BY <1>1, <1>3, <2>2, <2>3, <2>4, <3>1, <3>2 DEF VenueStates, Closed
  <2>5. CASE q # Quantity
    <3>1. VenueSays("working", q, Report("PARTIAL_FILL", q))
      BY <2>1, <2>5
    <3>2. Truthful(Report("PARTIAL_FILL", q))'
      BY <1>2, <2>3, <3>1 DEF Truthful, VenueTypes, FillTypes, PartialFills, FullFills, FilledBy,
                              CanceledBy, RejectedBy, ExpiredBy, VenueSays
    <3> QED
      BY <1>1, <1>3, <2>2, <2>3, <3>1, <3>2 DEF VenueStates, Closed
  <2> QED
    BY <2>4, <2>5
<1>7. CASE ReceiveCancel \/ EndOrder
  <2>1. CASE venue.status = "working" /\ ~UNCHANGED <<venue, wire>>
    <3>1. PICK end \in {<<"canceled", "CANCEL_CONFIRMED">>, <<"canceled", "VENUE_CANCEL_CONFIRMED">>,
                        <<"expired", "VENUE_EXPIRED">>} :
            VenueSays(end[1], venue.filled, Report(end[2], None))
      BY <1>7, <2>1 DEF ReceiveCancel, EndOrder
    <3>2. /\ requests' \subseteq requests /\ "submit" \notin requests
          /\ UNCHANGED <<orderVars, uncertain, queries>>
      BY <1>7, <2>1 DEF ReceiveCancel, EndOrder, VInv, RequestFits
    <3>3. Truthful(Report(end[2], None))'
      BY <1>2, <3>1 DEF Truthful, VenueTypes, FillTypes, PartialFills, FullFills, FilledBy,
                        CanceledBy, RejectedBy, ExpiredBy, VenueSays
    <3> QED
      BY <1>1, <1>3, <2>1, <3>1, <3>2, <3>3 DEF VenueStates, Closed
  <2>2. CASE UNCHANGED <<venue, wire>>
    <3>1. requests' \subseteq requests /\ UNCHANGED <<orderVars, uncertain, queries>>
      BY <1>7 DEF ReceiveCancel, EndOrder
    <3> QED
      BY <1>1, <2>2, <3>1, VenueStep
         DEF VInv, RequestFits, VenueTypeOK, VenueFits, Forward, orderVars
  <2> QED
    BY <1>7, <2>1, <2>2 DEF ReceiveCancel, EndOrder
<1>8. CASE LoseRequest
  <2>1. requests' \subseteq requests /\ UNCHANGED <<orderVars, venue, wire, uncertain, queries>>
    BY <1>8 DEF LoseRequest
  <2> QED
    BY <1>1, <2>1, VenueStep
       DEF VInv, RequestFits, VenueTypeOK, VenueFits, Forward, orderVars
<1> QED
  BY <1>4, <1>5, <1>6, <1>7, <1>8

\* Every step keeps the invariant, and what is economically final.
LEMMA VenueNextInv ==
  ASSUME VInv, [VenueNext]_vars PROVE VInv' /\ (Keeps \/ UNCHANGED orderVars)
<1>1. CASE VenueNext
  BY <1>1, OrderSteps, VenueSteps DEF VenueNext
<1>2. CASE UNCHANGED vars
  BY <1>2 DEF vars, orderVars, VInv, VenueTypeOK, OrderInv, FilledIsWhole, WireFits, Truthful,
              VenueFits, RequestFits, NeverAheadOfVenue, EndedHereMeansEndedThere
<1> QED
  BY <1>1, <1>2

\* The invariant holds in every reachable state of the order and its venue.
THEOREM VenueInvHolds == VenueSpec => []VInv
<1>1. VenueInit => VInv
  BY VenueAssumption, OrderAssumption
     DEF VenueInit, Init, VInv, VenueTypeOK, OrderInv, FilledIsWhole, OrderStates, PreSubmit,
         VenueStates, WireFits, VenueFits, RequestFits, NotSubmitted, NeverAheadOfVenue,
         EndedHereMeansEndedThere
<1>2. VInv /\ [VenueNext]_vars => VInv'
  BY VenueNextInv
<1> QED
  BY <1>1, <1>2, PTL DEF VenueSpec

\* The order and its venue are well typed.
THEOREM VenueTypeCorrectness == VenueSpec => []VenueTypeOK
<1>1. VInv => VenueTypeOK
  BY DEF VInv
<1> QED
  BY <1>1, VenueInvHolds, PTL

\* No order ever claims a fill its venue did not make, whatever is late, repeated, out of
\* order or stale between them.
THEOREM NeverAhead == VenueSpec => []NeverAheadOfVenue
<1>1. VInv => NeverAheadOfVenue
  BY DEF VInv
<1> QED
  BY <1>1, VenueInvHolds, PTL

\* An order that is over here is over at the venue, and in the same way: no report and no
\* reconciliation result ends an order that could still trade.
THEOREM EndsAgree == VenueSpec => []EndedHereMeansEndedThere
<1>1. VInv => EndedHereMeansEndedThere
  BY DEF VInv
<1> QED
  BY <1>1, VenueInvHolds, PTL

\* Between an order and its venue FILLED is exactly a whole fill, whatever mixture of reports,
\* late fills and stale reconciliation results got it there.
THEOREM VenueFillsAreWhole == VenueSpec => []FilledIsWhole
<1>1. VInv => FilledIsWhole
  BY DEF VInv, OrderInv
<1> QED
  BY <1>1, VenueInvHolds, PTL

\* Nothing that arrives from the venue takes a fill back, reverses FILLED or reopens an order
\* that ended.
THEOREM VenueFactsAreFinal == VenueSpec => EconomicFactsStay
<1>1. VInv /\ [VenueNext]_vars => [Keeps]_orderVars
  BY VenueNextInv
<1> QED
  BY <1>1, VenueInvHolds, PTL DEF VenueSpec, EconomicFactsStay, Keeps
=============================================================================
