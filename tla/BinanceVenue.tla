---------------------------- MODULE BinanceVenue ----------------------------
(***************************************************************************)
(* What the private runtime meets at the exchange.  External: it is what   *)
(* the queries, the response classes and the reconciliation of the runtime *)
(* take the exchange to be.  The order, the protective stops, the flatten  *)
(* orders and the short position; the stops and flatten orders only ever   *)
(* reduce it.  A request that got no answer may arrive later or never.     *)
(***************************************************************************)
EXTENDS PrivateOrderLog

VARIABLES
    order,      \* status and filled units of the order of the intent
    stops,      \* status of each stop; the stop of an earlier intent is 0
    flattens,   \* status, quantity and filled units of each flatten order
    short,      \* units of the short position
    wire,       \* requests that may still arrive
    sends       \* how often each create request was sent; history, capped at 2

venueVars == <<order, stops, flattens, short, wire, sends>>

Ids == 0..Quantity
Generations == 1..MaxGenerations

Ask(kind, n, quantity) == [kind |-> kind, n |-> n, quantity |-> quantity]
Creates == {<<"order", 0>>} \cup ({"stop"} \X (1..Quantity)) \cup ({"flatten"} \X Generations)

NoFlattenOrder == [status |-> "NONE", quantity |-> 0, filled |-> 0]

VenueInit ==
    /\ order = [status |-> "NONE", filled |-> 0]
    /\ short = IF action = "CLOSE_SHORT" THEN Quantity ELSE 0
    /\ stops = [i \in Ids |-> IF i = 0 /\ action = "CLOSE_SHORT" THEN "NEW" ELSE "NONE"]
    /\ flattens = [g \in Generations |-> NoFlattenOrder]
    /\ wire = {}
    /\ sends = [id \in Creates |-> 0]

StopQuantity(i) == IF i = 0 THEN Quantity ELSE i
Least(a, b) == IF a <= b THEN a ELSE b
ActiveStops == {i \in Ids : stops[i] = "NEW"}
OrderEnded == order.status \in {"FILLED", "CANCELED", "REJECTED"}
FlattenEnded(g) == flattens[g].status \in {"FILLED", "CANCELED"}

\* What a request does when it arrives.  A create with the name of an order that exists is
\* refused, and so is the cancel of a stop that is not active.
Effect(r) ==
    /\ order' = IF r.kind = "order" /\ order.status = "NONE"
                  THEN [order EXCEPT !.status = "NEW"] ELSE order
    /\ stops' = [i \in Ids |->
                   CASE r.kind = "stop" /\ r.n = i /\ stops[i] = "NONE" -> "NEW"
                     [] r.kind = "cancel" /\ r.n = i /\ stops[i] = "NEW" -> "CANCELED"
                     [] OTHER -> stops[i]]
    /\ flattens' = [g \in Generations |->
                      IF r.kind = "flatten" /\ r.n = g /\ flattens[g].status = "NONE"
                        THEN [status |-> "NEW", quantity |-> r.quantity, filled |-> 0]
                        ELSE flattens[g]]
    /\ UNCHANGED short

Count(r) ==
    sends' = [id \in Creates |->
                IF id = <<r.kind, r.n>> /\ sends[id] < 2 THEN sends[id] + 1 ELSE sends[id]]

\* The answers to a request: ACKNOWLEDGED, UNKNOWN (it may have been carried out, or may
\* arrive late, or never), and a refusal that proves that nothing was done.
Acknowledged(r) == Count(r) /\ Effect(r) /\ UNCHANGED wire
Unanswered(r) ==
    /\ Count(r)
    /\ \/ Effect(r) /\ UNCHANGED wire
       \/ wire' = wire \cup {r} /\ UNCHANGED <<order, stops, flattens, short>>
Refused(r) == Count(r) /\ UNCHANGED <<order, stops, flattens, short, wire>>

Arrive ==
    \E r \in wire : Effect(r) /\ wire' = wire \ {r} /\ UNCHANGED sends

\* Some units of the order are traded at once.
FillOrder ==
    \E n \in 1..(Quantity - order.filled) :
        /\ order.status = "NEW"
        /\ action = "CLOSE_SHORT" => n <= short
        /\ order' = [filled |-> order.filled + n,
                     status |-> IF order.filled + n = Quantity THEN "FILLED" ELSE "NEW"]
        /\ short' = CASE action = "OPEN_SHORT" -> short + n
                      [] action = "CLOSE_SHORT" -> short - n
                      [] OTHER -> short
        /\ UNCHANGED <<stops, flattens, wire, sends>>

\* A reduce-only order without a position has nothing left to do and ends as well.
EndOrder ==
    /\ order.status = "NEW"
    /\ \/ order' = [order EXCEPT !.status = "CANCELED"]
       \/ order.filled = 0 /\ order' = [order EXCEPT !.status = "REJECTED"]
    /\ UNCHANGED <<stops, flattens, short, wire, sends>>

\* The price passes the trigger.  Without a position, or when the order that it makes is
\* refused, the stop just ends.
Trigger ==
    \E i \in ActiveStops :
        /\ stops' = [stops EXCEPT ![i] = "FINISHED"]
        /\ short' \in {short, short - Least(short, StopQuantity(i))}
        /\ UNCHANGED <<order, flattens, wire, sends>>

FillFlatten ==
    \E g \in Generations, n \in 1..short :
        LET f == flattens[g] IN
        /\ f.status = "NEW"
        /\ f.filled + n <= f.quantity
        /\ flattens' = [flattens EXCEPT ![g].filled = f.filled + n,
                          ![g].status = IF f.filled + n = f.quantity THEN "FILLED" ELSE "NEW"]
        /\ short' = short - n
        /\ UNCHANGED <<order, stops, wire, sends>>

EndFlatten ==
    \E g \in Generations :
        /\ flattens[g].status = "NEW"
        /\ flattens' = [flattens EXCEPT ![g].status = "CANCELED"]
        /\ UNCHANGED <<order, stops, short, wire, sends>>

Venue == Arrive \/ FillOrder \/ EndOrder \/ Trigger \/ FillFlatten \/ EndFlatten

Requests == [kind : {"order", "stop", "cancel", "flatten"}, n : Nat, quantity : 0..Quantity]

VenueTypeOK ==
    /\ order \in OrderType
    /\ stops \in [Ids -> {"NONE", "NEW", "CANCELED", "FINISHED"}]
    /\ flattens \in [Generations -> [status : {"NONE", "NEW", "FILLED", "CANCELED"},
                                     quantity : 0..Quantity, filled : 0..Quantity]]
    /\ short \in 0..Quantity
    /\ wire \in SUBSET Requests
    /\ sends \in [Creates -> 0..2]
=============================================================================
