-------------------------- MODULE PositionExecutor --------------------------
(***************************************************************************)
(* PositionExecutor of orders.py with the TargetBook it asks: targets come *)
(* in any order and repeatedly, attempts report their order states, and    *)
(* the position is set to what the exchange says.  A call that raises      *)
(* ContractError changes nothing and is no step.  Who calls the executor   *)
(* is not in the repository: every method may be called at any time.       *)
(***************************************************************************)
EXTENDS Integers

CONSTANTS
  Targets,       \* the targets that may be offered: sequence, id, supersedes, action, direction
  Attempts,      \* child order attempts
  Reportable,    \* the order states that attempts report
  Positions,     \* signed quantities the exchange may report
  QuantityStep,
  None

NonTerminal == {"CREATED", "RISK_APPROVED", "SUBMITTING", "ACKNOWLEDGED",
                "PARTIALLY_FILLED", "CANCEL_PENDING", "UNKNOWN"}
Terminal == {"RISK_DENIED", "FAILED_PRE_SUBMIT", "FILLED", "CANCELED", "REJECTED", "EXPIRED"}

NonNumeric == {"NO_DECISION", "HOLD_CURRENT", "FREEZE_INCREASES"}
Numeric == {"SET_TARGET", "REDUCE_TO"}

\* A plan under way: the executor asks for orders, or waits for the exit it asked for.
Planning == {"CLOSING_OPPOSITE", "WAITING_FLAT", "OPENING_OR_ADJUSTING"}
ExecutorStates == Planning \cup {"PLANNED", "VERIFYING", "SATISFIED", "BLOCKED_UNKNOWN",
                                 "ABORTED_BY_RISK", "EXPIRED", "FAILED_PRE_SUBMIT"}

ASSUME ExecutorAssumption ==
  /\ Reportable \subseteq NonTerminal \cup Terminal
  /\ Positions \subseteq Int
  /\ QuantityStep \in Nat \ {0}
  /\ None \notin Targets /\ None \notin NonTerminal \cup Terminal

\* TargetPosition.__post_init__; the id is a hash of the content.
ASSUME TargetAssumption ==
  \A t \in Targets :
    /\ t.sequence \in Nat
    /\ t.action \in NonNumeric \cup Numeric \cup {"FLATTEN"}
    /\ t.direction \in {"LONG", "SHORT", "FLAT"}
    /\ t.action = "FLATTEN" => t.direction = "FLAT"
    /\ t.action \in Numeric => t.direction # "FLAT"
    /\ \A u \in Targets : t.id = u.id => t = u

VARIABLES
  state,           \* PositionExecutor.state
  position,        \* actual_position
  current,         \* current_target, which is the book's current target too
  unknown,         \* _unknown_attempt_ids
  activeOrder,     \* active_order_state
  cancelRequired,  \* cancel_active_attempt_required in the last ExecutorTargetResult
  order,           \* what each attempt's order has come to, None before it exists
  inTurn           \* history: so far each attempt began and ended before the next one

executorVars == <<state, position, current, unknown, activeOrder, cancelRequired>>
vars == <<executorVars, order, inTurn>>

Init ==
  /\ state = "PLANNED"
  /\ position = 0
  /\ current = None
  /\ unknown = {}
  /\ activeOrder = None
  /\ cancelRequired = FALSE
  /\ order = [a \in Attempts |-> None]
  /\ inTurn = TRUE

-----------------------------------------------------------------------------
(* Targets *)

Side(q) == IF q = 0 THEN "FLAT" ELSE IF q < 0 THEN "SHORT" ELSE "LONG"

\* TargetBook.accept: the first target supersedes nothing, each later one the current one.
Accepted(t) ==
  IF current = None
  THEN t.supersedes = None
  ELSE t.sequence > current.sequence /\ t.supersedes = current.id

\* TargetBook.accept: IGNORED_STALE or DUPLICATE.
Ignored(t) == current # None /\ (t.sequence < current.sequence \/ t = current)

\* What accept_target makes of a target that may be planned.
Plan(t) ==
  CASE t.action = "FLATTEN" -> IF position = 0 THEN "SATISFIED" ELSE "CLOSING_OPPOSITE"
    [] t.action # "FLATTEN" /\ Side(position) \notin {"FLAT", t.direction} -> "CLOSING_OPPOSITE"
    [] t.action \in NonNumeric /\ Side(position) \in {"FLAT", t.direction} -> "SATISFIED"
    [] t.action \in Numeric /\ Side(position) \in {"FLAT", t.direction} -> "OPENING_OR_ADJUSTING"

\* An attempt whose outcome is not known stops every plan.
Blocked == unknown # {}

\* Mutant: an order that is not acknowledged yet is not cancelled.
AcknowledgedIsLive == activeOrder \in {"ACKNOWLEDGED", "PARTIALLY_FILLED"}

\* active_order_state is set and not terminal.
ActiveOrderIsLive == activeOrder \notin Terminal \cup {None}

\* accept_target.  The clock is read here only, so a choice stands for it.
AcceptTarget(t, expired) ==
  /\ Accepted(t)
  /\ current' = t
  /\ state' = IF expired THEN "EXPIRED" ELSE IF Blocked THEN "BLOCKED_UNKNOWN" ELSE Plan(t)
  /\ cancelRequired' = (~expired /\ ~Blocked /\ ActiveOrderIsLive)
  /\ UNCHANGED <<position, unknown, activeOrder, order, inTurn>>

\* accept_target of a stale or repeated target.
IgnoreTarget(t) ==
  /\ Ignored(t)
  /\ cancelRequired' = FALSE
  /\ UNCHANGED <<state, position, current, unknown, activeOrder, order, inTurn>>

-----------------------------------------------------------------------------
(* Orders and positions *)

Live == {a \in Attempts : order[a] \in NonTerminal}

\* The life of an attempt's order, as far as the executor can tell: it is created under a
\* plan that asks for one, and even when it has ended an event may be repeated, or a fill
\* come late.
MayReport(a, s) ==
  \/ /\ order[a] = None /\ s \in NonTerminal
     /\ state \in {"CLOSING_OPPOSITE", "OPENING_OR_ADJUSTING"}
  \/ order[a] \in NonTerminal
  \/ order[a] \in Terminal /\ s = order[a]
  \/ order[a] = "CANCELED" /\ s = "FILLED"

\* Mutant: one resolved attempt clears them all.
UnknownAfterAnyResult(a, s) == IF s = "UNKNOWN" THEN unknown \cup {a} ELSE {}

\* The attempts in doubt after a report.
UnknownAfter(a, s) == IF s = "UNKNOWN" THEN unknown \cup {a} ELSE unknown \ {a}

\* on_order_state, at once when the order changes.
OnOrderState(a, s) ==
  /\ MayReport(a, s)
  /\ order' = [order EXCEPT ![a] = s]
  /\ activeOrder' = s
  /\ unknown' = UnknownAfter(a, s)
  /\ state' = IF s = "UNKNOWN" THEN "BLOCKED_UNKNOWN"
              ELSE IF a \in unknown /\ unknown' = {} THEN "VERIFYING" ELSE state
  /\ inTurn' = (inTurn /\ order[a] \notin Terminal /\ (order[a] = None => Live = {}))
  /\ UNCHANGED <<position, current, cancelRequired>>

\* update_actual_position.
UpdateActualPosition(q) ==
  /\ position' = q
  /\ state' = IF state = "CLOSING_OPPOSITE" /\ q = 0 THEN "WAITING_FLAT" ELSE state
  /\ UNCHANGED <<current, unknown, activeOrder, cancelRequired, order, inTurn>>

\* Mutant: WAITING_FLAT is taken for flat.
ConfirmFlatOnce ==
  /\ state = "WAITING_FLAT"
  /\ current # None
  /\ state' = IF current.action = "FLATTEN" THEN "SATISFIED" ELSE "OPENING_OR_ADJUSTING"
  /\ UNCHANGED <<position, current, unknown, activeOrder, cancelRequired, order, inTurn>>

\* confirm_flat_and_continue.
ConfirmFlatAndContinue ==
  /\ state = "WAITING_FLAT" /\ position = 0
  /\ current # None
  /\ state' = IF current.action = "FLATTEN" THEN "SATISFIED" ELSE "OPENING_OR_ADJUSTING"
  /\ UNCHANGED <<position, current, unknown, activeOrder, cancelRequired, order, inTurn>>

\* verify_satisfied.
VerifySatisfied(desired) ==
  /\ state' = IF desired - position \in -QuantityStep..QuantityStep
              THEN "SATISFIED" ELSE "VERIFYING"
  /\ UNCHANGED <<position, current, unknown, activeOrder, cancelRequired, order, inTurn>>

\* abort_by_risk and fail_pre_submit.
GiveUp(end) ==
  /\ state' = end
  /\ UNCHANGED <<position, current, unknown, activeOrder, cancelRequired, order, inTurn>>

Next ==
  \/ \E t \in Targets, expired \in BOOLEAN : AcceptTarget(t, expired)
  \/ \E t \in Targets : IgnoreTarget(t)
  \/ \E a \in Attempts, s \in Reportable : OnOrderState(a, s)
  \/ \E q \in Positions : UpdateActualPosition(q)
  \/ ConfirmFlatAndContinue
  \/ \E desired \in Positions : VerifySatisfied(desired)
  \/ \E end \in {"ABORTED_BY_RISK", "FAILED_PRE_SUBMIT"} : GiveUp(end)

Spec == Init /\ [][Next]_vars

-----------------------------------------------------------------------------
(* Properties *)

\* Types; no plan without a target.
TypeOK ==
  /\ state \in ExecutorStates
  /\ position \in Positions \cup {0}
  /\ current \in Targets \cup {None}
  /\ unknown \subseteq Attempts
  /\ activeOrder \in Reportable \cup {None}
  /\ cancelRequired \in BOOLEAN
  /\ order \in [Attempts -> Reportable \cup {None}]
  /\ inTurn \in BOOLEAN
  /\ state \in Planning => current # None

\* While the fate of any attempt is unknown, whoever else reports, and whatever target
\* comes, nothing is planned over it.
UnknownIsNeverPlannedOver ==
  (\E a \in Attempts : order[a] = "UNKNOWN") => state \notin Planning

\* The executor begins to open or adjust only when the exchange shows no position or one
\* on the side of the current target: a reversal goes through a confirmed flat.
ReversalPassesThroughFlat ==
  [][state # "OPENING_OR_ADJUSTING" /\ state' = "OPENING_OR_ADJUSTING"
       => Side(position) \in {"FLAT", current'.direction}]_vars

\* As long as attempts begin and end one after the other, a new target that is planned asks
\* for a cancel exactly if an order is live, though the executor remembers one state only.
\* Where attempts overlap, or an ended one reports again, it does not.
CancelIsAskedFor ==
  [][inTurn /\ current' # current /\ state' \notin {"EXPIRED", "BLOCKED_UNKNOWN"}
       => (cancelRequired' <=> Live # {})]_vars
=============================================================================
