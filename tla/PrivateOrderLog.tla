--------------------------- MODULE PrivateOrderLog ---------------------------
(***************************************************************************)
(* The durable record of one private order, as the event contract          *)
(* (challenger_replacement_binance_private_contract.py) projects it: the   *)
(* order itself, the protective stop of a perpetual short, the emergency   *)
(* flatten and the cleanup of the stop of a closed short.  An event is     *)
(* appended only when the projection accepts it; an append that it refuses *)
(* raises and changes nothing, so that it is no step here.                 *)
(*                                                                         *)
(* The prefix BINANCE_ of event types is left out.  A request is named by  *)
(* the run that built it.  Hashes, time evidence and quantities in money   *)
(* are data; a quantity is a number of units.                              *)
(***************************************************************************)
EXTENDS Naturals

CONSTANTS
    Runs,           \* processes that run the intent
    Quantity,       \* units of the order
    MaxGenerations, \* bound on the generations of an emergency flatten; 100 in the code
    Nobody          \* no request yet

ASSUME LogAssumption ==
    /\ Quantity \in Nat \ {0}
    /\ MaxGenerations \in Nat \ {0}
    /\ Nobody \notin Runs

VARIABLES
    action,     \* what the intent asks for
    private     \* the projection of the private events

Actions == {"SPOT", "OPEN_SHORT", "CLOSE_SHORT"}

\* CANCELED and EXPIRED are handled alike everywhere; one stands for both.
OrderEnds == {"ORDER_FILLED", "ORDER_CANCELED", "ORDER_REJECTED"}
OrderStages == {"ORDER_ACKNOWLEDGED", "FILL_OBSERVED", "ORDER_PARTIALLY_FILLED"}
Unsent == {"NONE", "INTENT_AUTHORIZED", "ABSENCE_CHECKED", "SIGNED_REQUEST_SUPERSEDED",
           "SIGNED_REQUEST_PREPARED"}
Closing == {"RECONCILIATION_INPUTS_CAPTURED", "POSITION_BALANCE_RECONCILED",
            "PROTECTION_RECONCILED_IF_EXPOSED"}
Final == {"RECONCILIATION_SUCCEEDED", "RECONCILIATION_FAILED"}
MainStages == Unsent \cup {"REQUEST_SEND_STARTED", "ORDER_UNKNOWN", "UNKNOWN_QUERY_OBSERVED"}
              \cup OrderStages \cup OrderEnds \cup {"FILLS_FEES_REPLAYED"} \cup Closing \cup Final
NestedStages == {"NONE", "AUTHORIZED", "ABSENCE_CHECKED", "PREPARED", "SEND_STARTED", "UNKNOWN",
                 "ACKNOWLEDGED", "RECONCILED"}

NoStop == [id |-> 0, stage |-> "NONE", request |-> Nobody]
NoFlatten == [generation |-> 0, quantity |-> 0, stage |-> "NONE", request |-> Nobody]
NoCleanup == [id |-> 0, stage |-> "NONE", request |-> Nobody]
NoCapture == [order |-> [status |-> "NONE", filled |-> 0], position |-> 0, stop |-> 0,
              algos |-> {}, nested |-> <<>>]

\* Stop 0 is the one that protects the position before a CLOSE_SHORT; stop i is the one of
\* this intent for i units.  phase is the stage of the replacement record, new the id it
\* names, candidate the stop it creates.
LogInit ==
    private = [stage |-> "NONE", order |-> "NONE", fills |-> 0,
               request |-> Nobody, superseding |-> Nobody,
               stop |-> NoStop, phase |-> "NONE", new |-> 0, candidate |-> NoStop,
               emergency |-> NoFlatten, cleanup |-> NoCleanup, capture |-> NoCapture]

-----------------------------------------------------------------------------
(* The order *)

\* The stages in which an event of a type is accepted.
After(type) ==
    CASE type = "INTENT_AUTHORIZED" -> {"NONE"}
      [] type = "ABSENCE_CHECKED" -> {"INTENT_AUTHORIZED", "SIGNED_REQUEST_PREPARED"}
      [] type = "SIGNED_REQUEST_SUPERSEDED" -> {"ABSENCE_CHECKED"}
      [] type = "SIGNED_REQUEST_PREPARED" -> {"ABSENCE_CHECKED", "SIGNED_REQUEST_SUPERSEDED"}
      [] type = "REQUEST_SEND_STARTED" -> {"SIGNED_REQUEST_PREPARED"}
      [] type = "ORDER_ACKNOWLEDGED" -> {"REQUEST_SEND_STARTED", "UNKNOWN_QUERY_OBSERVED"}
      [] type = "FILL_OBSERVED" -> OrderStages \cup {"FILLS_FEES_REPLAYED"}
      [] type = "ORDER_PARTIALLY_FILLED" -> {"ORDER_ACKNOWLEDGED", "FILL_OBSERVED"}
      [] type \in {"ORDER_FILLED", "ORDER_CANCELED"} -> OrderStages
      [] type = "ORDER_REJECTED" -> {"REQUEST_SEND_STARTED"}
      [] type = "ORDER_UNKNOWN" -> OrderStages \cup {"REQUEST_SEND_STARTED"}
      [] type = "UNKNOWN_QUERY_OBSERVED" -> {"ORDER_UNKNOWN"}
      [] type = "FILLS_FEES_REPLAYED" -> OrderEnds \cup {"ORDER_PARTIALLY_FILLED"}
      [] type = "RECONCILIATION_INPUTS_CAPTURED" -> {"FILLS_FEES_REPLAYED"}
      [] type = "POSITION_BALANCE_RECONCILED" -> {"RECONCILIATION_INPUTS_CAPTURED"}
      [] type = "PROTECTION_RECONCILED_IF_EXPOSED" -> {"POSITION_BALANCE_RECONCILED"}
      [] type = "RECONCILIATION_SUCCEEDED" -> {"PROTECTION_RECONCILED_IF_EXPOSED"}
      [] type = "RECONCILIATION_FAILED" -> Closing
      [] OTHER -> {}

AppendStage(type) ==
    /\ private.stage \in After(type)
    /\ private' = [private EXCEPT !.stage = type]

\* An event of the order that the venue reports; the last of them decides how a run resumes.
AppendOrder(type) ==
    /\ private.stage \in After(type)
    /\ private' = [private EXCEPT !.stage = type,
                     !.order = IF type \in OrderEnds \cup {"ORDER_PARTIALLY_FILLED"}
                                 THEN type ELSE @,
                     !.fills = IF type = "FILL_OBSERVED" THEN @ + 1 ELSE @]

\* The order was not at the venue; old is the request that this proof is to supersede.
AppendAbsence(old) ==
    /\ \/ private.stage = "INTENT_AUTHORIZED" /\ old = Nobody
       \/ private.stage = "SIGNED_REQUEST_PREPARED" /\ old = private.request
    /\ AppendStage("ABSENCE_CHECKED")

AppendSuperseded(old, w) ==
    /\ private.stage \in After("SIGNED_REQUEST_SUPERSEDED")
    /\ old = private.request
    /\ private' = [private EXCEPT !.stage = "SIGNED_REQUEST_SUPERSEDED", !.superseding = w]

AppendPrepared(w) ==
    /\ private.stage \in After("SIGNED_REQUEST_PREPARED")
    /\ private.stage = "SIGNED_REQUEST_SUPERSEDED" => private.superseding = w
    /\ private' = [private EXCEPT !.stage = "SIGNED_REQUEST_PREPARED", !.request = w]

\* Everything in the log that an event after the capture can still change.
Nested == <<private.stop, private.phase, private.new, private.candidate, private.emergency,
            private.cleanup>>

AppendCapture(order, position, stop, algos) ==
    /\ private.stage \in After("RECONCILIATION_INPUTS_CAPTURED")
    /\ private' = [private EXCEPT !.stage = "RECONCILIATION_INPUTS_CAPTURED",
                     !.capture = [order |-> order, position |-> position, stop |-> stop,
                                  algos |-> algos, nested |-> Nested]]

-----------------------------------------------------------------------------
(* The protective stop; none of its events is accepted after the order's end in the log. *)

Open == private.stage \notin Final \cup {"NONE"}

AppendInherited ==
    /\ private.stop = NoStop
    /\ action = "CLOSE_SHORT"
    /\ private.stage = "FILLS_FEES_REPLAYED"
    /\ private' = [private EXCEPT !.stop = [id |-> 0, stage |-> "RECONCILED", request |-> Nobody]]

AppendStopAuthorized(i) ==
    LET made == [id |-> i, stage |-> "AUTHORIZED", request |-> Nobody] IN
    /\ action # "SPOT"
    /\ private.stage = "FILLS_FEES_REPLAYED"
    /\ \/ /\ private.stop = NoStop
          /\ private' = [private EXCEPT !.stop = made]
       \/ /\ private.phase = "STARTED"
          /\ private.candidate = NoStop
          /\ private.new = i
          /\ private' = [private EXCEPT !.candidate = made]

\* Where the log is with stop i.
Named(i) == IF private.candidate.id = i /\ private.candidate # NoStop
              THEN private.candidate ELSE private.stop

\* An event goes to the stop if that is in a stage it follows, and else to the candidate.
AppendStop(after, i, stage, request) ==
    LET made == [id |-> i, stage |-> stage, request |-> request] IN
    /\ Open
    /\ \/ /\ private.stop.stage \in after
          /\ private.stop.id = i
          /\ private' = [private EXCEPT !.stop = made]
       \/ /\ private.stop.stage \notin after
          /\ private.candidate.stage \in after
          /\ private.candidate.id = i
          /\ private' = [private EXCEPT !.candidate = made]

AppendStopAbsence(i) ==
    LET after == IF "AUTHORIZED" \in {private.stop.stage, private.candidate.stage}
                   THEN {"AUTHORIZED"} ELSE {"PREPARED"} IN
    AppendStop(after, i, "ABSENCE_CHECKED", Named(i).request)

\* A second request for a stop must say that it supersedes the first one.
AppendStopPrepared(i, old, w) ==
    /\ old = Named(i).request
    /\ AppendStop({"ABSENCE_CHECKED"}, i, "PREPARED", w)

AppendStopSendStarted(i, w) ==
    /\ w = Named(i).request
    /\ AppendStop({"PREPARED"}, i, "SEND_STARTED", w)

AppendStopAcknowledged(i) == AppendStop({"SEND_STARTED"}, i, "ACKNOWLEDGED", Named(i).request)

AppendStopReconciled(i) == AppendStop({"ACKNOWLEDGED"}, i, "RECONCILED", Named(i).request)

AppendReplacementStarted(i) ==
    /\ Open
    /\ private.stop.stage = "RECONCILED"
    /\ private.phase = "NONE"
    /\ private.stop.id # i
    /\ private' = [private EXCEPT !.phase = "STARTED", !.new = i]

AppendCancelSendStarted ==
    /\ Open
    /\ private.candidate.stage = "RECONCILED"
    /\ private.phase = "STARTED"
    /\ private' = [private EXCEPT !.phase = "CANCEL_SEND_STARTED"]

\* The record of the replacement stays with the new stop: there is never a second one.
AppendReplacementSucceeded ==
    /\ Open
    /\ private.candidate.stage = "RECONCILED"
    /\ private.phase = "CANCEL_SEND_STARTED"
    /\ private' = [private EXCEPT !.stop = private.candidate, !.candidate = NoStop,
                                  !.phase = "SUCCEEDED"]

-----------------------------------------------------------------------------
(* The cleanup of the stop after a close *)

AppendCleanupAuthorized(i) ==
    /\ private.cleanup = NoCleanup
    /\ action = "CLOSE_SHORT"
    /\ private.stage = "FILLS_FEES_REPLAYED"
    /\ private' = [private EXCEPT !.cleanup = [id |-> i, stage |-> "AUTHORIZED", request |-> Nobody]]

AppendCleanup(after, i, stage) ==
    /\ Open
    /\ private.cleanup.stage \in after
    /\ private.cleanup.id = i
    /\ private' = [private EXCEPT !.cleanup.stage = stage]

AppendCleanupPrepared(i, old, w) ==
    /\ Open
    /\ private.cleanup.stage \in {"AUTHORIZED", "PREPARED"}
    /\ private.cleanup.id = i
    /\ private.cleanup.request = old
    /\ private' = [private EXCEPT !.cleanup.stage = "PREPARED", !.cleanup.request = w]

AppendCleanupSendStarted(i, request) ==
    /\ private.cleanup.request = request
    /\ AppendCleanup({"PREPARED"}, i, "SEND_STARTED")

AppendCleanupReconciled(i) ==
    AppendCleanup({"AUTHORIZED", "PREPARED", "SEND_STARTED"}, i, "RECONCILED")

-----------------------------------------------------------------------------
(* The emergency flatten *)

AppendFlattenAuthorized(quantity) ==
    /\ Open
    /\ private.emergency = NoFlatten
    /\ action # "SPOT"
    /\ private' = [private EXCEPT !.emergency =
                     [generation |-> 1, quantity |-> quantity, stage |-> "AUTHORIZED",
                      request |-> Nobody]]

\* g is the generation that the run works on.  Its client order id is compared where the
\* event has one; PREPARED and SEND_STARTED have none.
AppendFlatten(after, g, stage) ==
    /\ Open
    /\ private.emergency.stage \in after
    /\ private.emergency.generation = g
    /\ private' = [private EXCEPT !.emergency.stage = stage]

AppendFlattenPrepared(old, w) ==
    /\ Open
    /\ private.emergency.stage = "ABSENCE_CHECKED"
    /\ private.emergency.request = old
    /\ private' = [private EXCEPT !.emergency.stage = "PREPARED", !.emergency.request = w]

\* Mutant: a send that was started is started again.
AppendFlattenSendStartedAgain(w) ==
    AppendFlatten({"PREPARED", "SEND_STARTED"}, private.emergency.generation, "SEND_STARTED")

AppendFlattenSendStarted(w) ==
    /\ private.emergency.request = w
    /\ AppendFlatten({"PREPARED"}, private.emergency.generation, "SEND_STARTED")

AppendRemainder(g, quantity) ==
    /\ Open
    /\ private.emergency.stage \in {"SEND_STARTED", "UNKNOWN"}
    /\ private.emergency.generation = g
    /\ g < MaxGenerations
    /\ private' = [private EXCEPT !.emergency =
                     [generation |-> g + 1, quantity |-> quantity, stage |-> "AUTHORIZED",
                      request |-> Nobody]]

-----------------------------------------------------------------------------
RequestNames == Runs \cup {Nobody}
StopType == [id : 0..Quantity, stage : NestedStages, request : RequestNames]
FlattenType == [generation : 0..MaxGenerations, quantity : 0..Quantity, stage : NestedStages,
                request : RequestNames]
PhaseType == {"NONE", "STARTED", "CANCEL_SEND_STARTED", "SUCCEEDED"}
NestedType == StopType \X PhaseType \X (0..Quantity) \X StopType \X FlattenType \X StopType
OrderType == [status : {"NONE", "NEW", "FILLED", "CANCELED", "REJECTED"}, filled : 0..Quantity]

LogTypeOK ==
    /\ action \in Actions
    /\ private \in [stage : MainStages,
                    order : OrderEnds \cup {"ORDER_PARTIALLY_FILLED", "NONE"},
                    fills : 0..Quantity,
                    request : RequestNames, superseding : RequestNames,
                    stop : StopType,
                    phase : PhaseType,
                    new : 0..Quantity, candidate : StopType,
                    emergency : FlattenType,
                    cleanup : StopType,
                    capture : [order : OrderType, position : 0..Quantity, stop : 0..Quantity,
                               algos : SUBSET (0..Quantity), nested : {<<>>} \cup NestedType]]
=============================================================================
