--------------------------- MODULE PrivateRuntime ---------------------------
(***************************************************************************)
(* run_challenger_replacement_binance_private_intent: processes that bring *)
(* one intent from its authorization to a reconciled end, over a durable   *)
(* log (PrivateOrderLog) and an exchange (BinanceVenue).  Any number of    *)
(* them may be launched, at once or one after another, and any of them may *)
(* end at any point: by a crash, by a query that fails, or by an append    *)
(* that is refused.                                                        *)
(*                                                                         *)
(* One step is one query, one request, or one append with the look at the  *)
(* log before it.  The time evidence that is appended before each request  *)
(* only ever makes another run's append fail, which Stop covers.           *)
(***************************************************************************)
EXTENDS BinanceVenue, Sequences

CONSTANT Intents    \* the actions that the intent may ask for

ASSUME RuntimeAssumption == Intents \subseteq Actions

VARIABLE local      \* what each process knows

vars == <<action, private, venueVars, local>>

PCs == {"idle", "query_absent", "absence", "supersede", "prepare", "send_started", "send",
        "record_unknown", "query_order", "query_position", "read_log", "apply", "fills_fees",
        "ensure", "inherit", "inherited", "stop_verify", "stop_position", "stop_authorize",
        "stop_query", "stop_absence", "stop_prepare", "stop_send_started", "stop_send",
        "stop_observe", "stop_acknowledge", "stop_reconcile", "swap_verify", "swap_start",
        "swap_cancel", "swap_check", "swap_done", "flatten", "flatten_query", "flatten_absence",
        "flatten_prepare", "flatten_send_started", "flatten_send", "flatten_unknown",
        "flatten_observe", "flatten_position", "flatten_reconcile", "flatten_remainder",
        "cleanup", "cleanup_next", "cleanup_query", "cleanup_prepare", "cleanup_send_started",
        "cleanup_send", "cleanup_check", "cleanup_reconcile", "sample_order",
        "sample_position", "sample_algos", "capture", "reconcile", "balance", "protection",
        "succeed"}

NoOrder == [status |-> "NONE", filled |-> 0]

\* old: the request a new one supersedes.  id: the stop that is worked on; gone: the one it
\* replaces.  guarded: whether a missing protection leads to the flatten.
Idle == [pc |-> "idle", old |-> Nobody, order |-> NoOrder, position |-> 0, fills |-> 0,
         todo |-> <<>>, next |-> "idle", id |-> 0, gone |-> 0, status |-> "NONE",
         guarded |-> FALSE, prepared |-> FALSE, generation |-> 0, quantity |-> 0, algos |-> {}]

Init ==
    /\ action \in Intents
    /\ LogInit
    /\ VenueInit
    /\ local = [w \in Runs |-> Idle]

At(w, pc) == local[w].pc = pc
Know(w, l) == local' = [local EXCEPT ![w] = l]
Goto(w, pc) == Know(w, [local[w] EXCEPT !.pc = pc])
Leave(w) == Know(w, Idle)
Query == UNCHANGED <<action, private, venueVars>>
Appending == UNCHANGED <<action, venueVars>>
Sending == UNCHANGED <<action, private>>

\* A raise, a crash, or a return of an operator's query that stays unresolved.
Stop(w) == ~At(w, "idle") /\ Leave(w) /\ Query

-----------------------------------------------------------------------------
(* Launch *)

Perpetual == action # "SPOT"
Replacing == private.candidate # NoStop

\* Where the work on stop i is taken up; the stop is looked at as the launch found it.
StopStep ==
    LET stage == IF Replacing THEN private.candidate.stage ELSE private.stop.stage IN
    CASE stage = "RECONCILED" /\ Replacing -> "swap_verify"
      [] stage = "RECONCILED" /\ ~Replacing -> "sample_order"
      [] stage = "PREPARED" -> "stop_query"
      [] stage \in {"SEND_STARTED", "ACKNOWLEDGED"} -> "stop_observe"
      [] OTHER -> "refused"

ResumeStop(w, l, i) ==
    LET current == IF Replacing THEN private.candidate ELSE private.stop IN
    /\ i > 0
    /\ current.id = i
    /\ StopStep # "refused"
    /\ Know(w, [l EXCEPT !.pc = IF l.guarded \/ StopStep = "sample_order" THEN StopStep
                                                                         ELSE "stop_position",
                         !.next = IF l.guarded \/ StopStep = "sample_order" THEN "idle"
                                                                          ELSE StopStep,
                         !.id = i,
                         !.old = IF StopStep = "stop_query" THEN current.request ELSE Nobody])

\* FILLS_FEES_REPLAYED of a perpetual order: what the log says of its end decides.
ResumeFills(w) ==
    \/ /\ private.order = "ORDER_PARTIALLY_FILLED"
       /\ Goto(w, "query_order")
    \/ /\ private.order \in OrderEnds
       /\ action = "CLOSE_SHORT"
       /\ Goto(w, "cleanup")
    \/ /\ private.order \in OrderEnds
       /\ action = "OPEN_SHORT"
       /\ IF private.stop = NoStop THEN Goto(w, "query_order")
                                   ELSE ResumeStop(w, Idle, private.fills)

Authorize(w) ==
    /\ At(w, "idle")
    /\ private.stage = "NONE"
    /\ AppendStage("INTENT_AUTHORIZED")
    /\ Goto(w, "query_absent")
    /\ Appending

\* A short whose flatten is UNKNOWN has an unresolved id that is not the order's own.
Launch(w) ==
    /\ At(w, "idle")
    /\ private.emergency.stage # "UNKNOWN"
    /\ \/ /\ private.stage = "SIGNED_REQUEST_PREPARED"
          /\ Know(w, [Idle EXCEPT !.pc = "query_absent", !.old = private.request])
       \/ /\ \/ private.stage \in OrderStages \cup {"REQUEST_SEND_STARTED", "ORDER_UNKNOWN"}
             \/ ~Perpetual /\ private.stage \in OrderEnds \cup {"FILLS_FEES_REPLAYED"}
          /\ Goto(w, "query_order")
       \/ /\ Perpetual /\ private.stage = "FILLS_FEES_REPLAYED"
          /\ ResumeFills(w)
       \/ /\ private.stage = "RECONCILIATION_INPUTS_CAPTURED"
          /\ Goto(w, "reconcile")
       \/ /\ private.stage = "POSITION_BALANCE_RECONCILED"
          /\ Perpetual => private.capture.position > 0
          /\ Goto(w, "protection")
    /\ Query

-----------------------------------------------------------------------------
(* The order is sent *)

ProveAbsent(w) ==
    /\ At(w, "query_absent")
    /\ order.status = "NONE"
    /\ Goto(w, "absence")
    /\ Query

RecordAbsence(w) ==
    /\ At(w, "absence")
    /\ AppendAbsence(local[w].old)
    /\ Goto(w, IF local[w].old = Nobody THEN "prepare" ELSE "supersede")
    /\ Appending

Supersede(w) ==
    /\ At(w, "supersede")
    /\ AppendSuperseded(local[w].old, w)
    /\ Goto(w, "prepare")
    /\ Appending

Prepare(w) ==
    /\ At(w, "prepare")
    /\ AppendPrepared(w)
    /\ Know(w, [Idle EXCEPT !.pc = "send_started"])
    /\ Appending

\* The request that is named is not compared with the one that was prepared last.
\* Mutant: the request is sent before the event is written.
StartSendUnwritten(w) ==
    /\ At(w, "send_started")
    /\ Goto(w, "send")
    /\ Query

StartSend(w) ==
    /\ At(w, "send_started")
    /\ AppendStage("REQUEST_SEND_STARTED")
    /\ Goto(w, "send")
    /\ Appending

Send(w) ==
    LET r == Ask("order", 0, Quantity) IN
    /\ At(w, "send")
    /\ \/ Acknowledged(r) /\ Goto(w, "query_order")
       \/ Unanswered(r) /\ Goto(w, "record_unknown")
       \/ Refused(r) /\ Leave(w)
    /\ Sending

RecordUnknown(w) ==
    /\ At(w, "record_unknown")
    /\ AppendStage("ORDER_UNKNOWN")
    /\ Leave(w)
    /\ Appending

-----------------------------------------------------------------------------
(* The order is observed *)

\* An order and its trades that do not agree raise, so that they are one sample.
QueryOrder(w) ==
    /\ At(w, "query_order")
    /\ order.status # "NONE"
    /\ Know(w, [local[w] EXCEPT !.pc = "query_position", !.order = order])
    /\ Query

QueryPosition(w) ==
    /\ At(w, "query_position")
    /\ Know(w, [local[w] EXCEPT !.pc = "read_log", !.position = short])
    /\ Query

RecordQueried(w) ==
    /\ At(w, "read_log")
    /\ private.stage = "ORDER_UNKNOWN"
    /\ AppendStage("UNKNOWN_QUERY_OBSERVED")
    /\ Goto(w, "read_log")
    /\ Appending

\* The last event an observation leads to, if it is more than an acknowledgement.  An order
\* that ended with a part of it filled is PARTIALLY_FILLED.
LastEvent(o) ==
    CASE o.filled = Quantity -> <<"ORDER_FILLED">>
      [] o.filled \in 1..(Quantity - 1) -> <<"ORDER_PARTIALLY_FILLED">>
      [] o.filled = 0 /\ o.status = "CANCELED" -> <<"ORDER_CANCELED">>
      [] o.filled = 0 /\ o.status = "REJECTED" -> <<"ORDER_REJECTED">>
      [] OTHER -> <<>>

Settles(o) == \E type \in OrderEnds : LastEvent(o) = <<type>>

\* The events that are new to the log, in their order.
News(o) ==
    LET known == private.fills
        fills == [k \in 1..(IF o.filled > known THEN o.filled - known ELSE 0) |-> "FILL_OBSERVED"]
    IN CASE private.stage \in OrderEnds -> <<>>
         [] private.stage = "FILLS_FEES_REPLAYED" ->
              IF o.filled > known THEN fills \o LastEvent(o) ELSE <<>>
         [] private.stage \in {"REQUEST_SEND_STARTED", "UNKNOWN_QUERY_OBSERVED"} ->
              <<"ORDER_ACKNOWLEDGED">> \o fills \o LastEvent(o)
         [] OTHER -> fills \o LastEvent(o)

\* What follows once they are recorded.
Route(o) ==
    CASE private.stage = "FILLS_FEES_REPLAYED" /\ o.filled <= private.fills
            /\ action = "OPEN_SHORT" -> "ensure"
      [] Settles(o) \/ (Perpetual /\ LastEvent(o) # <<>>) -> "fills_fees"
      [] OTHER -> "idle"

PlanEvents(w) ==
    LET o == local[w].order
        next == Route(o) IN
    /\ At(w, "read_log")
    /\ private.stage # "ORDER_UNKNOWN"
    /\ IF News(o) = <<>> /\ next = "idle" THEN Leave(w)
       ELSE Know(w, [local[w] EXCEPT !.todo = News(o), !.fills = private.fills, !.next = next,
                       !.guarded = Perpetual,
                       !.pc = IF News(o) = <<>> THEN next ELSE "apply"])
    /\ Query

\* Mutant: a fill that another process has recorded meanwhile is recorded again.
ApplyEventAgain(w) ==
    LET l == local[w]
        last == Tail(l.todo) = <<>> IN
    /\ At(w, "apply")
    /\ AppendOrder(Head(l.todo))
    /\ IF last /\ l.next = "idle" THEN Leave(w)
       ELSE Know(w, [l EXCEPT !.todo = Tail(l.todo),
                       !.pc = IF last THEN l.next ELSE "apply",
                       !.next = IF last THEN "idle" ELSE @])
    /\ Appending

\* A fill that is in the log already is refused.
ApplyEvent(w) ==
    LET l == local[w]
        type == Head(l.todo)
        last == Tail(l.todo) = <<>> IN
    /\ At(w, "apply")
    /\ type = "FILL_OBSERVED" => private.fills = l.fills
    /\ AppendOrder(type)
    /\ IF last /\ l.next = "idle" THEN Leave(w)
       ELSE Know(w, [l EXCEPT !.todo = Tail(l.todo),
                       !.fills = IF type = "FILL_OBSERVED" THEN @ + 1 ELSE @,
                       !.pc = IF last THEN l.next ELSE "apply",
                       !.next = IF last THEN "idle" ELSE @])
    /\ Appending

ReplayFills(w) ==
    LET o == local[w].order
        next == CASE action = "SPOT" -> "capture"
                  [] action = "CLOSE_SHORT" /\ Settles(o) -> "cleanup"
                  [] OTHER -> "ensure" IN
    /\ At(w, "fills_fees")
    /\ IF private.stage = "FILLS_FEES_REPLAYED" THEN UNCHANGED private
                                                ELSE AppendStage("FILLS_FEES_REPLAYED")
    /\ Know(w, [local[w] EXCEPT !.pc = next, !.next = "idle", !.fills = 0,
                                !.order = IF next = "capture" THEN o ELSE NoOrder])
    /\ Appending

-----------------------------------------------------------------------------
(* The protective stop *)

\* A guarded call turns the missing protection into the flatten; another one raises.
Unprotected(w) ==
    IF local[w].guarded
      THEN Know(w, [Idle EXCEPT !.pc = "flatten", !.position = local[w].position])
      ELSE Leave(w)

Desired(w) == IF action = "OPEN_SHORT" THEN private.fills ELSE local[w].position

Ensure(w) ==
    LET l == local[w]
        d == Desired(w) IN
    /\ At(w, "ensure")
    /\ IF private.stop = NoStop /\ action = "CLOSE_SHORT"
         THEN Know(w, [l EXCEPT !.pc = "inherit"]) /\ UNCHANGED private
         ELSE /\ d > 0
              /\ \/ /\ private.stop = NoStop
                    /\ Know(w, [l EXCEPT !.pc = "stop_authorize", !.id = d])
                    /\ UNCHANGED private
                 \/ /\ private.stop # NoStop /\ private.stop.id = d
                    /\ Know(w, [l EXCEPT !.pc = "stop_verify", !.id = d])
                    /\ UNCHANGED private
                 \/ /\ private.stop # NoStop /\ private.stop.id # d
                    /\ private.phase = "NONE"
                    /\ AppendReplacementStarted(d)
                    /\ Goto(w, "ensure")
                 \/ /\ private.stop # NoStop /\ private.stop.id # d
                    /\ private.phase # "NONE" /\ private.new = d
                    /\ CASE ~Replacing -> Know(w, [l EXCEPT !.pc = "stop_authorize", !.id = d])
                         [] Replacing /\ private.candidate.stage = "RECONCILED" ->
                              Know(w, [l EXCEPT !.pc = "swap_verify", !.id = d])
                         [] OTHER -> ResumeStop(w, l, d)
                    /\ UNCHANGED private
    /\ Appending

QueryInherited(w) ==
    /\ At(w, "inherit")
    /\ IF stops[0] = "NEW" /\ local[w].position > 0 THEN Goto(w, "inherited") ELSE Unprotected(w)
    /\ Query

Inherit(w) ==
    /\ At(w, "inherited")
    /\ AppendInherited
    /\ Goto(w, "ensure")
    /\ Appending

\* A stop that is there but does not fit raises an error that nothing turns into a flatten.
VerifyStop(w) ==
    /\ At(w, "stop_verify")
    /\ IF stops[local[w].id] = "NONE" THEN Unprotected(w) ELSE Leave(w)
    /\ Query

QueryStopPosition(w) ==
    /\ At(w, "stop_position")
    /\ Know(w, [local[w] EXCEPT !.pc = local[w].next, !.next = "idle", !.position = short])
    /\ Query

AuthorizeStop(w) ==
    /\ At(w, "stop_authorize")
    /\ AppendStopAuthorized(local[w].id)
    /\ Goto(w, "stop_query")
    /\ Appending

ProveStopAbsent(w) ==
    /\ At(w, "stop_query")
    /\ stops[local[w].id] = "NONE"
    /\ Goto(w, "stop_absence")
    /\ Query

RecordStopAbsence(w) ==
    /\ At(w, "stop_absence")
    /\ AppendStopAbsence(local[w].id)
    /\ Goto(w, "stop_prepare")
    /\ Appending

PrepareStop(w) ==
    /\ At(w, "stop_prepare")
    /\ AppendStopPrepared(local[w].id, local[w].old, w)
    /\ Know(w, [local[w] EXCEPT !.pc = "stop_send_started", !.old = Nobody])
    /\ Appending

StartStop(w) ==
    /\ At(w, "stop_send_started")
    /\ AppendStopSendStarted(local[w].id, w)
    /\ Goto(w, "stop_send")
    /\ Appending

SendStop(w) ==
    LET r == Ask("stop", local[w].id, local[w].id) IN
    /\ At(w, "stop_send")
    /\ \/ (Acknowledged(r) \/ Unanswered(r)) /\ Goto(w, "stop_observe")
       \/ Refused(r) /\ Unprotected(w)
    /\ Sending

\* Mutant: a stop that was sent is taken to be active without a query.
ObserveStopTrusting(w) ==
    /\ At(w, "stop_observe")
    /\ Know(w, [local[w] EXCEPT !.pc = "stop_acknowledge", !.status = "NEW"])
    /\ Query

ObserveStop(w) ==
    LET status == stops[local[w].id] IN
    /\ At(w, "stop_observe")
    /\ IF status = "NONE" THEN Unprotected(w)
       ELSE Know(w, [local[w] EXCEPT !.pc = "stop_acknowledge", !.status = status])
    /\ Query

\* The stop is active and covers exactly the position that was seen.
Covers(l) == l.status = "NEW" /\ l.position > 0 /\ l.id = l.position

AcknowledgeStop(w) ==
    LET l == local[w] IN
    /\ At(w, "stop_acknowledge")
    /\ IF Named(l.id).stage = "SEND_STARTED" THEN AppendStopAcknowledged(l.id)
                                             ELSE UNCHANGED private
    /\ IF Covers(l) THEN Goto(w, "stop_reconcile") ELSE Leave(w)
    /\ Appending

ReconcileStop(w) ==
    LET i == local[w].id IN
    /\ At(w, "stop_reconcile")
    /\ AppendStopReconciled(i)
    /\ IF Replacing /\ private.candidate.id = i
         THEN Know(w, [local[w] EXCEPT !.pc = "swap_verify", !.status = "NONE"])
         ELSE Leave(w)
    /\ Appending

-----------------------------------------------------------------------------
(* The replacement of a stop *)

\* The candidate covers the position, or both are gone.
VerifyCandidate(w) ==
    LET i == private.candidate.id
        l == local[w] IN
    /\ At(w, "swap_verify")
    /\ private.candidate.stage = "RECONCILED"
    /\ private.phase \in {"STARTED", "CANCEL_SEND_STARTED"}
    /\ CASE stops[i] = "NONE" -> Unprotected(w)
         [] \/ Covers([l EXCEPT !.id = i, !.status = stops[i]])
            \/ l.position = 0 /\ stops[i] \in {"CANCELED", "FINISHED"} ->
              Know(w, [l EXCEPT !.pc = IF private.phase = "STARTED" THEN "swap_start"
                                                                    ELSE "swap_check",
                                !.id = i, !.gone = private.stop.id])
         [] OTHER -> Leave(w)
    /\ Query

StartCancel(w) ==
    /\ At(w, "swap_start")
    /\ AppendCancelSendStarted
    /\ Goto(w, "swap_cancel")
    /\ Appending

CancelOld(w) ==
    LET r == Ask("cancel", local[w].gone, 0) IN
    /\ At(w, "swap_cancel")
    /\ \/ (Acknowledged(r) \/ Unanswered(r)) /\ Goto(w, "swap_check")
       \/ Refused(r) /\ Unprotected(w)
    /\ Sending

CheckOld(w) ==
    /\ At(w, "swap_check")
    /\ IF stops[local[w].gone] = "NEW" THEN Unprotected(w) ELSE Goto(w, "swap_done")
    /\ Query

FinishReplacement(w) ==
    /\ At(w, "swap_done")
    /\ AppendReplacementSucceeded
    /\ Leave(w)
    /\ Appending

-----------------------------------------------------------------------------
(* The emergency flatten *)

\* Generation 0: not looked at yet.  An intent that is recorded keeps its own quantity.
Flatten(w) ==
    LET l == local[w]
        e == private.emergency IN
    /\ At(w, "flatten")
    /\ \/ /\ e = NoFlatten
          /\ l.position > 0
          /\ AppendFlattenAuthorized(l.position)
          /\ Know(w, [l EXCEPT !.generation = 1])
       \/ /\ e # NoFlatten
          /\ l.generation \in {0, e.generation}
          /\ \/ /\ e.stage = "RECONCILED"
                /\ Leave(w)
             \/ /\ e.stage \in {"AUTHORIZED", "PREPARED", "SEND_STARTED", "UNKNOWN"}
                /\ Know(w, [Idle EXCEPT !.generation = e.generation, !.quantity = e.quantity,
                              !.old = e.request,
                              !.pc = IF e.stage \in {"AUTHORIZED", "PREPARED"}
                                       THEN "flatten_query" ELSE "flatten_observe"])
          /\ UNCHANGED private
    /\ Appending

QueryFlatten(w) ==
    /\ At(w, "flatten_query")
    /\ Goto(w, IF flattens[local[w].generation].status = "NONE" THEN "flatten_absence"
                                                              ELSE "flatten_observe")
    /\ Query

RecordFlattenAbsence(w) ==
    /\ At(w, "flatten_absence")
    /\ AppendFlatten({"AUTHORIZED", "PREPARED"}, local[w].generation, "ABSENCE_CHECKED")
    /\ Goto(w, "flatten_prepare")
    /\ Appending

PrepareFlatten(w) ==
    /\ At(w, "flatten_prepare")
    /\ AppendFlattenPrepared(local[w].old, w)
    /\ Goto(w, "flatten_send_started")
    /\ Appending

StartFlatten(w) ==
    /\ At(w, "flatten_send_started")
    /\ AppendFlattenSendStarted(w)
    /\ Goto(w, "flatten_send")
    /\ Appending

SendFlatten(w) ==
    LET r == Ask("flatten", local[w].generation, local[w].quantity) IN
    /\ At(w, "flatten_send")
    /\ \/ Acknowledged(r) /\ Goto(w, "flatten_observe")
       \/ Unanswered(r) /\ Goto(w, "flatten_unknown")
       \/ Refused(r) /\ Leave(w)
    /\ Sending

RecordFlattenUnknown(w) ==
    /\ At(w, "flatten_unknown")
    /\ AppendFlatten({"SEND_STARTED"}, local[w].generation, "UNKNOWN")
    /\ Leave(w)
    /\ Appending

ObserveFlatten(w) ==
    LET status == flattens[local[w].generation].status IN
    /\ At(w, "flatten_observe")
    /\ status # "NONE"
    /\ Know(w, [local[w] EXCEPT !.pc = "flatten_position", !.status = status])
    /\ Query

\* Mutant: a position that is left is flattened again although the order is still active.
QueryResidualEarly(w) ==
    /\ At(w, "flatten_position")
    /\ IF short = 0 THEN Goto(w, "flatten_reconcile")
       ELSE Know(w, [local[w] EXCEPT !.pc = "flatten_remainder", !.position = short])
    /\ Query

QueryResidual(w) ==
    LET l == local[w] IN
    /\ At(w, "flatten_position")
    /\ CASE short = 0 -> Goto(w, "flatten_reconcile")
         [] short > 0 /\ l.status # "NEW" ->
              Know(w, [l EXCEPT !.pc = "flatten_remainder", !.position = short])
         [] OTHER -> Leave(w)
    /\ Query

ReconcileFlatten(w) ==
    /\ At(w, "flatten_reconcile")
    /\ AppendFlatten({"SEND_STARTED", "UNKNOWN"}, local[w].generation, "RECONCILED")
    /\ Leave(w)
    /\ Appending

AuthorizeRemainder(w) ==
    /\ At(w, "flatten_remainder")
    /\ AppendRemainder(local[w].generation, local[w].position)
    /\ Leave(w)
    /\ Appending

-----------------------------------------------------------------------------
(* The stop of a closed short is cleaned up *)

\* The stop to cancel is the inherited one, unless the intent has made another.
Cleanup(w) ==
    LET client == IF private.stop.stage = "RECONCILED" THEN private.stop.id ELSE 0 IN
    /\ At(w, "cleanup")
    /\ IF private.cleanup = NoCleanup
         THEN AppendCleanupAuthorized(client)
         ELSE private.cleanup.id = client /\ UNCHANGED private
    /\ Know(w, [Idle EXCEPT !.pc = "cleanup_next", !.id = client])
    /\ Appending

CleanupNext(w) ==
    LET l == local[w]
        c == private.cleanup IN
    /\ At(w, "cleanup_next")
    /\ \/ c.stage = "AUTHORIZED" /\ Goto(w, "cleanup_query")
       \/ /\ c.stage = "PREPARED"
          /\ Know(w, [l EXCEPT !.pc = IF l.prepared THEN "cleanup_send_started"
                                                    ELSE "cleanup_query",
                                !.old = c.request])
       \/ c.stage = "SEND_STARTED" /\ Goto(w, "cleanup_check")
       \/ c.stage = "RECONCILED" /\ Know(w, [Idle EXCEPT !.pc = "sample_order"])
    /\ Query

QueryCleanup(w) ==
    /\ At(w, "cleanup_query")
    /\ Goto(w, IF stops[local[w].id] = "NEW" THEN "cleanup_prepare" ELSE "cleanup_reconcile")
    /\ Query

PrepareCleanup(w) ==
    LET l == local[w] IN
    /\ At(w, "cleanup_prepare")
    /\ AppendCleanupPrepared(l.id, l.old, w)
    /\ Know(w, IF l.old = Nobody THEN [l EXCEPT !.pc = "cleanup_next", !.prepared = TRUE]
                                 ELSE [l EXCEPT !.pc = "cleanup_send_started", !.old = w])
    /\ Appending

StartCleanup(w) ==
    /\ At(w, "cleanup_send_started")
    /\ AppendCleanupSendStarted(local[w].id, local[w].old)
    /\ Know(w, [Idle EXCEPT !.pc = "cleanup_send", !.id = local[w].id])
    /\ Appending

SendCleanup(w) ==
    LET r == Ask("cancel", local[w].id, 0) IN
    /\ At(w, "cleanup_send")
    /\ \/ (Acknowledged(r) \/ Unanswered(r)) /\ Goto(w, "cleanup_next")
       \/ Refused(r) /\ Leave(w)
    /\ Sending

\* A stop that is still active raises FLAT_ORPHAN_STOP_ACTIVE.
CheckCleanup(w) ==
    /\ At(w, "cleanup_check")
    /\ stops[local[w].id] # "NEW"
    /\ Goto(w, "cleanup_reconcile")
    /\ Query

ReconcileCleanup(w) ==
    /\ At(w, "cleanup_reconcile")
    /\ AppendCleanupReconciled(local[w].id)
    /\ Know(w, [Idle EXCEPT !.pc = "sample_order"])
    /\ Appending

-----------------------------------------------------------------------------
(* The reconciliation *)

SampleOrder(w) ==
    /\ At(w, "sample_order")
    /\ order.status # "NONE"
    /\ Know(w, [Idle EXCEPT !.pc = "sample_position", !.order = order, !.id = local[w].id])
    /\ Query

SamplePosition(w) ==
    /\ At(w, "sample_position")
    /\ Know(w, [local[w] EXCEPT !.pc = "sample_algos", !.position = short])
    /\ Query

SampleAlgos(w) ==
    /\ At(w, "sample_algos")
    /\ Know(w, [local[w] EXCEPT !.pc = "capture", !.algos = ActiveStops])
    /\ Query

Capture(w) ==
    LET l == local[w] IN
    /\ At(w, "capture")
    /\ AppendCapture(l.order, l.position, l.id, l.algos)
    /\ Know(w, [Idle EXCEPT !.pc = "reconcile"])
    /\ Appending

\* The facts of the log itself: the position follows from the fills, and a short has a stop.
FactsHold(c) ==
    Perpetual =>
        /\ c.position = IF action = "OPEN_SHORT" THEN private.fills ELSE Quantity - private.fills
        /\ c.position > 0 => c.stop # 0

\* Mutant: the active stops at the exchange are not compared.
VenueAgreesWithoutStops(c) == c.order.filled = private.fills /\ c.order.status # "NEW"

VenueAgrees(c) ==
    /\ c.order.filled = private.fills
    /\ c.order.status # "NEW"
    /\ Perpetual => c.algos = IF c.position > 0 THEN {c.stop} ELSE {}
    /\ c.position > 0 => c.stop = c.position

\* Facts that do not hold raise; a venue that does not agree ends the order as failed.
Reconcile(w) ==
    LET c == private.capture IN
    /\ At(w, "reconcile")
    /\ c.nested = Nested
    /\ FactsHold(c)
    /\ IF VenueAgrees(c) THEN Goto(w, "balance") /\ UNCHANGED private
                         ELSE AppendStage("RECONCILIATION_FAILED") /\ Leave(w)
    /\ Appending

RecordBalance(w) ==
    /\ At(w, "balance")
    /\ AppendStage("POSITION_BALANCE_RECONCILED")
    /\ Goto(w, "protection")
    /\ Appending

RecordProtection(w) ==
    /\ At(w, "protection")
    /\ AppendStage("PROTECTION_RECONCILED_IF_EXPOSED")
    /\ Goto(w, "succeed")
    /\ Appending

Succeed(w) ==
    /\ At(w, "succeed")
    /\ AppendStage("RECONCILIATION_SUCCEEDED")
    /\ Leave(w)
    /\ Appending

-----------------------------------------------------------------------------
SendSteps(w) ==
    \/ Authorize(w) \/ Launch(w) \/ ProveAbsent(w) \/ RecordAbsence(w) \/ Supersede(w)
    \/ Prepare(w) \/ StartSend(w) \/ Send(w) \/ RecordUnknown(w) \/ Stop(w)

ObserveSteps(w) ==
    \/ QueryOrder(w) \/ QueryPosition(w) \/ RecordQueried(w) \/ PlanEvents(w) \/ ApplyEvent(w)
    \/ ReplayFills(w)

StopSteps(w) ==
    \/ Ensure(w) \/ QueryInherited(w) \/ Inherit(w) \/ VerifyStop(w) \/ QueryStopPosition(w)
    \/ AuthorizeStop(w) \/ ProveStopAbsent(w) \/ RecordStopAbsence(w) \/ PrepareStop(w)
    \/ StartStop(w) \/ SendStop(w) \/ ObserveStop(w) \/ AcknowledgeStop(w) \/ ReconcileStop(w)
    \/ VerifyCandidate(w) \/ StartCancel(w) \/ CancelOld(w) \/ CheckOld(w) \/ FinishReplacement(w)

FlattenSteps(w) ==
    \/ Flatten(w) \/ QueryFlatten(w) \/ RecordFlattenAbsence(w) \/ PrepareFlatten(w)
    \/ StartFlatten(w) \/ SendFlatten(w) \/ RecordFlattenUnknown(w) \/ ObserveFlatten(w)
    \/ QueryResidual(w) \/ ReconcileFlatten(w) \/ AuthorizeRemainder(w)

CleanupSteps(w) ==
    \/ Cleanup(w) \/ CleanupNext(w) \/ QueryCleanup(w) \/ PrepareCleanup(w) \/ StartCleanup(w)
    \/ SendCleanup(w) \/ CheckCleanup(w) \/ ReconcileCleanup(w)

FinishSteps(w) ==
    \/ SampleOrder(w) \/ SamplePosition(w) \/ SampleAlgos(w) \/ Capture(w) \/ Reconcile(w)
    \/ RecordBalance(w) \/ RecordProtection(w) \/ Succeed(w)

VenueStep == Venue /\ UNCHANGED <<action, private, local>>

Next ==
    \/ \E w \in Runs : \/ SendSteps(w) \/ ObserveSteps(w) \/ StopSteps(w)
                       \/ FlattenSteps(w) \/ CleanupSteps(w) \/ FinishSteps(w)
    \/ VenueStep

Spec == Init /\ [][Next]_vars

-----------------------------------------------------------------------------
EventTypes == OrderEnds \cup {"ORDER_ACKNOWLEDGED", "FILL_OBSERVED", "ORDER_PARTIALLY_FILLED"}

LocalType ==
    [pc : PCs, old : RequestNames, order : OrderType, position : Ids, fills : Ids,
     todo : Seq(EventTypes), next : PCs, id : Ids, gone : Ids,
     status : {"NONE", "NEW", "FILLED", "CANCELED", "FINISHED"}, guarded : BOOLEAN,
     prepared : BOOLEAN, generation : 0..MaxGenerations, quantity : Ids, algos : SUBSET Ids]

\* Every variable keeps its type.
TypeOK == LogTypeOK /\ VenueTypeOK /\ local \in [Runs -> LocalType]

\* Each name of an order, a stop or a flatten generation is sent at most once, however many
\* processes run the intent and wherever they crash: after the event that a request is being
\* sent, a process only queries (_recover_after_send, _resume_stop, _emergency_flatten).
SentOnce == \A c \in Creates : sends[c] <= 1

StopSent == {"SEND_STARTED", "ACKNOWLEDGED", "RECONCILED"}

\* The log says that the request of the order, of stop i, of generation g is, or was, being
\* sent.
OrderPast == private.stage \notin Unsent

StopPast(i) ==
    \/ private.phase = "SUCCEEDED"
    \/ private.stop.id = i /\ private.stop.stage \in StopSent
    \/ private.candidate.id = i /\ private.candidate.stage \in StopSent

FlattenPast(g) ==
    \/ g < private.emergency.generation
    \/ /\ g = private.emergency.generation
       /\ private.emergency.stage \in {"SEND_STARTED", "UNKNOWN", "RECONCILED"}

\* Whatever was sent is in the log, so that a launch after a crash can tell a request that
\* never left from one that may have (run_..._private_intent, _create_stop, _emergency_flatten).
WrittenBeforeSent ==
    /\ sends[<<"order", 0>>] > 0 => OrderPast
    /\ \A i \in 1..Quantity : sends[<<"stop", i>>] > 0 => StopPast(i)
    /\ \A g \in Generations : sends[<<"flatten", g>>] > 0 => FlattenPast(g)

\* Two processes that record what they saw of one order never record a trade twice, nor an
\* end before the exchange reached it (_observe_order's fill_ids against its early replay).
LogFollowsVenue ==
    /\ private.fills <= order.filled
    /\ private.order \in OrderEnds => OrderEnded
    /\ private.order = "ORDER_FILLED" => private.fills = Quantity

\* From the first reconciled stop until the cleanup of a closed short, a short has an active
\* stop unless one was triggered: a replacement cancels the old one only when the new one is
\* there (_ensure_stop, _finish_stop_replacement).
ReplacementLeavesNoGap ==
    private.stop.stage = "RECONCILED" /\ private.cleanup = NoCleanup /\ short > 0
        => \E i \in Ids : stops[i] \in {"NEW", "FINISHED"}

\* What an order that succeeded says is so at the exchange: the order is over with just the
\* recorded fills, a closed short is gone, and of the stops that were seen none is active but
\* the one that is recorded for the short (_reconcile_captured, from documents that were
\* sampled one by one).
ReconciledIsTrue ==
    LET c == private.capture IN
    private.stage = "RECONCILIATION_SUCCEEDED" =>
        /\ OrderEnded
        /\ order.filled = private.fills
        /\ action = "CLOSE_SHORT" => short = 0
        /\ ActiveStops \cap c.algos \subseteq IF c.position > 0 THEN {c.stop} ELSE {}

\* A flatten order is not followed by another while it may still trade (_emergency_flatten's
\* REMAINDER_AUTHORIZED after a query of the order and then of the position).
OneFlattenAtATime ==
    \A g \in Generations : g > 1 /\ sends[<<"flatten", g>>] > 0 => FlattenEnded(g - 1)

\* Of the design of the private canary (section 4.7): it may not leave any short quantity
\* unprotected.  Here: when the cleanup of the stop is recorded as BINANCE_FLAT_STOP_CLEANED,
\* a short that is left has another stop (_cleanup_perpetual_stop).
CleanupLeavesNoShort ==
    private.cleanup.stage = "RECONCILED" /\ short > 0 => ActiveStops # {}
=============================================================================
