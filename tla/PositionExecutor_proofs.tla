----------------------- MODULE PositionExecutor_proofs -----------------------
(***************************************************************************)
(* Theorems about the position executor: for any targets, attempts, order  *)
(* states and positions.                                                   *)
(***************************************************************************)
EXTENDS PositionExecutor, TLAPS

\* The executor's set of attempts in doubt is right.
UnknownIsRemembered == unknown = {a \in Attempts : order[a] = "UNKNOWN"}

\* While attempts come in turn, the one order state the executor keeps is that of the live
\* attempt, if there is one.
OneStateIsEnough ==
  inTurn => /\ \A a, b \in Live : a = b
            /\ \A a \in Live : activeOrder = order[a]
            /\ Live = {} => ~ActiveOrderIsLive

Inv == TypeOK /\ UnknownIsRemembered /\ UnknownIsNeverPlannedOver /\ OneStateIsEnough

-----------------------------------------------------------------------------

LEMMA InitInv == Init => Inv
<1> SUFFICES ASSUME Init PROVE Inv
  OBVIOUS
<1> USE DEF Init
<1>1. TypeOK
  BY DEF TypeOK, ExecutorStates, Planning
<1>2. \A a \in Attempts : order[a] \notin NonTerminal
  BY ExecutorAssumption
<1>3. UnknownIsRemembered /\ UnknownIsNeverPlannedOver
  BY <1>2 DEF UnknownIsRemembered, UnknownIsNeverPlannedOver, NonTerminal
<1>4. OneStateIsEnough
  BY <1>2 DEF OneStateIsEnough, Live, ActiveOrderIsLive
<1> QED
  BY <1>1, <1>3, <1>4 DEF Inv

\* A plan is one of the executor's states, and opens only towards the target.
LEMMA PlanFacts ==
  ASSUME NEW t \in Targets
  PROVE  /\ Plan(t) \in ExecutorStates
         /\ Plan(t) = "OPENING_OR_ADJUSTING" => Side(position) \in {"FLAT", t.direction}
<1>1. t.action \in NonNumeric \cup Numeric \cup {"FLATTEN"}
  BY TargetAssumption
<1>2. CASE t.action = "FLATTEN"
  BY <1>2 DEF Plan, ExecutorStates, Planning, NonNumeric, Numeric
<1>3. CASE t.action \in NonNumeric
  BY <1>3 DEF Plan, ExecutorStates, Planning, NonNumeric, Numeric
<1>4. CASE t.action \in Numeric
  BY <1>4 DEF Plan, ExecutorStates, Planning, NonNumeric, Numeric
<1> QED
  BY <1>1, <1>2, <1>3, <1>4

\* A call of accept_target keeps the invariant.
LEMMA AcceptStep ==
  ASSUME Inv, NEW t \in Targets, NEW expired \in BOOLEAN, AcceptTarget(t, expired)
  PROVE  Inv'
<1> USE DEF Inv
<1>1. TypeOK'
  <2>1. state' \in ExecutorStates
    BY PlanFacts DEF AcceptTarget, ExecutorStates
  <2>2. t # None /\ cancelRequired' \in BOOLEAN
    BY ExecutorAssumption DEF AcceptTarget
  <2> QED
    BY <2>1, <2>2 DEF TypeOK, AcceptTarget
<1>2. UnknownIsRemembered' /\ OneStateIsEnough'
  BY DEF AcceptTarget, UnknownIsRemembered, OneStateIsEnough, Live, ActiveOrderIsLive
<1>3. UnknownIsNeverPlannedOver'
  <2> SUFFICES ASSUME NEW a \in Attempts, order[a] = "UNKNOWN"
               PROVE  state' \notin Planning
    BY DEF AcceptTarget, UnknownIsNeverPlannedOver
  <2>1. Blocked
    BY DEF UnknownIsRemembered, Blocked
  <2> QED
    BY <2>1 DEF AcceptTarget, Planning
<1> QED
  BY <1>1, <1>2, <1>3

\* A report of an attempt keeps the invariant.
LEMMA ReportStep ==
  ASSUME Inv, NEW a \in Attempts, NEW s \in Reportable, OnOrderState(a, s)
  PROVE  Inv'
<1> USE DEF Inv
<1>1. /\ order' = [order EXCEPT ![a] = s]
      /\ order'[a] = s
      /\ \A b \in Attempts : b # a => order'[b] = order[b]
  BY DEF TypeOK, OnOrderState
<1>2. TypeOK'
  BY <1>1 DEF OnOrderState, UnknownAfter, TypeOK, ExecutorStates, Planning
<1>3. UnknownIsRemembered'
  BY <1>1 DEF OnOrderState, UnknownAfter, UnknownIsRemembered
<1>4. UnknownIsNeverPlannedOver'
  <2> SUFFICES ASSUME NEW b \in Attempts, order'[b] = "UNKNOWN"
               PROVE  state' \notin Planning
    BY DEF UnknownIsNeverPlannedOver
  <2>1. CASE s = "UNKNOWN"
    BY <2>1 DEF OnOrderState, Planning
  <2>2. CASE s # "UNKNOWN"
    <3>1. order[b] = "UNKNOWN" /\ state \notin Planning
      BY <1>1, <2>2 DEF UnknownIsNeverPlannedOver
    <3> QED
      BY <2>2, <3>1 DEF OnOrderState, Planning
  <2> QED
    BY <2>1, <2>2
<1>5. OneStateIsEnough'
  <2> SUFFICES ASSUME inTurn' PROVE OneStateIsEnough'
    BY DEF OneStateIsEnough
  <2>1. inTurn /\ order[a] \notin Terminal /\ (order[a] = None => Live = {})
    BY DEF OnOrderState
  <2>2. order[a] = None \/ order[a] \in NonTerminal
    BY <2>1, ExecutorAssumption DEF TypeOK
  <2>3. \A b \in Attempts : b # a => order[b] \notin NonTerminal
    <3>1. CASE order[a] = None
      BY <2>1, <3>1 DEF Live
    <3>2. CASE order[a] \in NonTerminal
      BY <2>1, <3>2 DEF Live, OneStateIsEnough
    <3> QED
      BY <2>2, <3>1, <3>2
  <2>4. Live' \subseteq {a} /\ (a \in Live' <=> s \in NonTerminal)
    BY <1>1, <2>3 DEF Live
  <2>5. activeOrder' = s /\ s \in NonTerminal \cup Terminal
    BY ExecutorAssumption DEF OnOrderState
  <2>6. Live' = {} => ~ActiveOrderIsLive'
    BY <2>4, <2>5 DEF ActiveOrderIsLive
  <2> QED
    BY <1>1, <2>4, <2>5, <2>6 DEF OneStateIsEnough
<1> QED
  BY <1>2, <1>3, <1>4, <1>5

\* The calls that neither bring a target nor a report keep the invariant, provided that a
\* plan they lead to follows a plan.
LEMMA QuietStep ==
  ASSUME Inv, state' \in ExecutorStates, position' \in Positions \cup {0},
         cancelRequired' \in BOOLEAN,
         state' \in Planning => state \in Planning,
         UNCHANGED <<current, unknown, activeOrder, order, inTurn>>
  PROVE  Inv'
<1>1. TypeOK'
  BY DEF Inv, TypeOK
<1>2. UnknownIsRemembered' /\ UnknownIsNeverPlannedOver'
  BY DEF Inv, UnknownIsRemembered, UnknownIsNeverPlannedOver
<1>3. OneStateIsEnough'
  BY DEF Inv, OneStateIsEnough, Live, ActiveOrderIsLive
<1> QED
  BY <1>1, <1>2, <1>3 DEF Inv

LEMMA NextInv == Inv /\ [Next]_vars => Inv'
<1> SUFFICES ASSUME Inv, [Next]_vars PROVE Inv'
  OBVIOUS
<1> USE DEF Inv, TypeOK, ExecutorStates, Planning
<1>1. CASE \E t \in Targets, expired \in BOOLEAN : AcceptTarget(t, expired)
  BY <1>1, AcceptStep
<1>2. CASE \E t \in Targets : IgnoreTarget(t)
  BY <1>2, QuietStep DEF IgnoreTarget
<1>3. CASE \E a \in Attempts, s \in Reportable : OnOrderState(a, s)
  BY <1>3, ReportStep
<1>4. CASE \E q \in Positions : UpdateActualPosition(q)
  BY <1>4, QuietStep DEF UpdateActualPosition
<1>5. CASE ConfirmFlatAndContinue
  BY <1>5, QuietStep DEF ConfirmFlatAndContinue
<1>6. CASE \E desired \in Positions : VerifySatisfied(desired)
  BY <1>6, QuietStep DEF VerifySatisfied
<1>7. CASE \E end \in {"ABORTED_BY_RISK", "FAILED_PRE_SUBMIT"} : GiveUp(end)
  BY <1>7, QuietStep DEF GiveUp
<1>8. CASE UNCHANGED vars
  BY <1>8, QuietStep DEF vars, executorVars
<1> QED
  BY <1>1, <1>2, <1>3, <1>4, <1>5, <1>6, <1>7, <1>8 DEF Next

THEOREM Invariance == Spec => []Inv
<1>1. Init => Inv
  BY InitInv
<1>2. Inv /\ [Next]_vars => Inv'
  BY NextInv
<1> QED
  BY <1>1, <1>2, PTL DEF Spec

\* The executor's variables keep their types, and no plan is without a target (orders.py
\* 436-553).
THEOREM TypeCorrectness == Spec => []TypeOK
<1>1. Inv => TypeOK
  BY DEF Inv
<1> QED
  BY <1>1, Invariance, PTL

\* An attempt of unknown fate stops all planning, whatever else is reported and whatever
\* targets come (on_order_state, accept_target).
THEOREM UnknownStopsPlanning == Spec => []UnknownIsNeverPlannedOver
<1>1. Inv => UnknownIsNeverPlannedOver
  BY DEF Inv
<1> QED
  BY <1>1, Invariance, PTL

\* The executor begins to open only from flat or on the side of the target (accept_target,
\* confirm_flat_and_continue).
THEOREM OpeningFollowsFlat == Spec => ReversalPassesThroughFlat
<1> DEFINE Opens == state # "OPENING_OR_ADJUSTING" /\ state' = "OPENING_OR_ADJUSTING"
<1>1. ASSUME Inv, [Next]_vars, Opens
      PROVE  Side(position) \in {"FLAT", current'.direction}
  <2>1. CASE \E t \in Targets, expired \in BOOLEAN : AcceptTarget(t, expired)
    BY <1>1, <2>1, PlanFacts DEF AcceptTarget
  <2>2. CASE \E t \in Targets : IgnoreTarget(t)
    BY <1>1, <2>2 DEF IgnoreTarget
  <2>3. CASE \E a \in Attempts, s \in Reportable : OnOrderState(a, s)
    BY <1>1, <2>3 DEF OnOrderState
  <2>4. CASE \E q \in Positions : UpdateActualPosition(q)
    BY <1>1, <2>4 DEF UpdateActualPosition
  <2>5. CASE ConfirmFlatAndContinue
    BY <2>5 DEF ConfirmFlatAndContinue, Side
  <2>6. CASE \E desired \in Positions : VerifySatisfied(desired)
    BY <1>1, <2>6 DEF VerifySatisfied
  <2>7. CASE \E end \in {"ABORTED_BY_RISK", "FAILED_PRE_SUBMIT"} : GiveUp(end)
    BY <1>1, <2>7 DEF GiveUp
  <2>8. CASE UNCHANGED vars
    BY <1>1, <2>8 DEF vars, executorVars
  <2> QED
    BY <1>1, <2>1, <2>2, <2>3, <2>4, <2>5, <2>6, <2>7, <2>8 DEF Next
<1>2. Inv /\ [Next]_vars
        => [Opens => Side(position) \in {"FLAT", current'.direction}]_vars
  BY <1>1
<1> QED
  BY <1>2, Invariance, PTL DEF Spec, ReversalPassesThroughFlat

\* One remembered order state is enough to ask for the cancel, while attempts come in turn
\* (accept_target, active_order_state).
THEOREM CancelFollowsLiveOrder == Spec => CancelIsAskedFor
<1> DEFINE Planned == /\ inTurn /\ current' # current
                      /\ state' \notin {"EXPIRED", "BLOCKED_UNKNOWN"}
<1>1. ASSUME Inv, [Next]_vars, Planned
      PROVE  cancelRequired' <=> Live # {}
  <2>1. PICK t \in Targets, expired \in BOOLEAN : AcceptTarget(t, expired)
    BY <1>1 DEF Next, vars, executorVars, IgnoreTarget, OnOrderState, UpdateActualPosition,
                ConfirmFlatAndContinue, VerifySatisfied, GiveUp
  <2>2. ~expired /\ ~Blocked
    BY <1>1, <2>1 DEF AcceptTarget
  <2>3. cancelRequired' <=> ActiveOrderIsLive
    BY <2>1, <2>2 DEF AcceptTarget
  <2>4. ASSUME Live # {} PROVE ActiveOrderIsLive
    <3>1. PICK a \in Live : TRUE
      BY <2>4
    <3>2. activeOrder = order[a] /\ order[a] \in NonTerminal
      BY <1>1, <3>1 DEF Inv, OneStateIsEnough, Live
    <3> QED
      BY <3>2, ExecutorAssumption DEF ActiveOrderIsLive, NonTerminal, Terminal
  <2>5. Live = {} => ~ActiveOrderIsLive
    BY <1>1 DEF Inv, OneStateIsEnough
  <2> QED
    BY <2>3, <2>4, <2>5
<1>2. Inv /\ [Next]_vars => [Planned => (cancelRequired' <=> Live # {})]_vars
  BY <1>1
<1> QED
  BY <1>2, Invariance, PTL DEF Spec, CancelIsAskedFor
=============================================================================
