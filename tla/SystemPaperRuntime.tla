------------------------- MODULE SystemPaperRuntime -------------------------
(***************************************************************************)
(* The economics of System Paper: the snapshots that run_system_paper_slot *)
(* (system_paper_runtime.py) hands from one slot to the next, with the     *)
(* order that SimulatedBroker (system_paper_broker.py) fills in between.   *)
(* Time, hashes and the ledger's legs are left out; the arithmetic is not: *)
(* prices, slippage, fees, caps and the rounding of Decimal decide what a  *)
(* slot may do.                                                            *)
(*                                                                         *)
(* One price tick and one quantity step are 1.  Cash is counted in         *)
(* 1/Unit of tick times step, in which a fee is exact; the cost basis in   *)
(* 1/Scale, fine enough for Precision significant digits.                  *)
(***************************************************************************)
EXTENDS Integers

CONSTANTS
  Equity,       \* starting_virtual_equity_usdt, in ticks times steps
  Bids,         \* best bid prices
  Spread,       \* ask less bid
  Targets,      \* target_notional_usdt of a LONG decision
  Scenarios,    \* fill scenarios of the inputs
  MinNotional,  \* min_notional of the instrument
  Precision,    \* significant digits of the Decimal context (28 in Python)
  MaxSlots      \* bound on the number of slots

Unit == 2000            \* 15 bps of a notional are 3 of these
Fee == 3                \* _FROZEN_TAKER_FEE_PER_SIDE, in 1/Unit
Scale == 1000
Hold == 0               \* no LONG decision: the target is what is held

FullKinds == {"IMMEDIATE_FULL", "PARTIAL_THEN_FULL", "DISCONNECT_THEN_FULL",
              "FILL_BEFORE_ACK_WITH_DUPLICATE"}
UnknownKinds == {"DISCONNECT_AFTER_SUBMIT", "TIMEOUT_AFTER_ACK"}
UnfilledKinds == {"REJECTED", "CANCEL_BEFORE_FILL"} \cup UnknownKinds
RatioKinds == {"PARTIAL_THEN_FULL", "FILL_BEFORE_CANCEL", "FILL_BEFORE_ACK_WITH_DUPLICATE"}
ScenarioKinds == FullKinds \cup UnfilledKinds \cup RatioKinds \cup {"IMPOSSIBLE_OVERFILL"}

\* The powers of ten.
Ten[i \in Nat] == IF i = 0 THEN 1 ELSE 10 * Ten[i - 1]

ASSUME RuntimeAssumption ==
  /\ Equity \in Nat \ {0} /\ MinNotional \in Nat \ {0}
  /\ Spread \in Nat /\ Precision \in Nat \ {0} /\ MaxSlots \in Nat
  /\ Bids \subseteq Nat \ {0}
  /\ Targets \subseteq 1..(Equity \div 4)       \* _RISK_BUCKET of the starting equity
  /\ Scenarios \subseteq ScenarioKinds

\* The digits can count ten times what the risk bucket may hold: with fewer, a sale that
\* leaves something may leave no cost.
ASSUME PrecisionAssumption == 10 * (Equity \div 4) < Ten[Precision]

VARIABLES
  cash,      \* cash_usdt
  position,  \* position_quantity
  cost,      \* position_cost_usdt
  average,   \* average_entry_price_or_null, 0 when there is none
  peak,      \* peak_equity_usdt
  locked,    \* risk_state is LOCKED
  active,    \* active_order_or_null is there
  bundle,    \* the public input of the last slot: bid price and requested target
  outcome,   \* how the last slot ended
  slots      \* completed slots

snapshot == <<cash, position, cost, average, peak, locked, active>>
vars == <<cash, position, cost, average, peak, locked, active, bundle, outcome, slots>>

Outcomes == {"COMPLETED", "SNAPSHOT_INVALID", "ACTIVE_ORDER_RECONCILIATION_REQUIRED",
             "SCENARIO_NOT_EXECUTABLE", "LEDGER_NEGATIVE_BALANCE"}

-----------------------------------------------------------------------------
(* Decimal arithmetic *)

\* The multiple of grid nearest to n / d, ties to the even one.
HalfEven(n, d, grid) ==
  LET q == n \div (d * grid)
      twice == 2 * (n - q * d * grid)
  IN IF twice > d * grid \/ (twice = d * grid /\ q % 2 = 1) THEN (q + 1) * grid ELSE q * grid

\* Decimal rounds every result to Precision significant digits: k of the digits of n / d
\* are dropped.
Rounded(n, d) ==
  LET k == CHOOSE i \in 0..n : /\ n < d * Ten[i + Precision]
                              /\ (i = 0 \/ n >= d * Ten[i - 1 + Precision])
  IN HalfEven(n, d, Ten[k])

\* The execution price: BBO and 10 bps, rounded against the order to the tick.
BuyPrice(ask) == (ask * 1001 + 999) \div 1000
SellPrice(bid) == (bid * 999) \div 1000

-----------------------------------------------------------------------------
(* Risk *)

AtLeast(drawdown, percent, of) == drawdown * 100 >= percent * of
Larger(a, b) == IF a > b THEN a ELSE b
Smaller(a, b) == IF a < b THEN a ELSE b

Marked(bid) == cash + position * bid * Unit
PeakAt(bid) == Larger(peak, Marked(bid))
Held(bid) == position * bid * Unit

\* DrawdownPolicy.classify on the frozen bands; HARD_BOUNDARY acts like HALT.
DrawdownState(bid) ==
  LET drawdown == PeakAt(bid) - Marked(bid)
  IN CASE AtLeast(drawdown, 15, PeakAt(bid)) -> "HALT"
       [] AtLeast(drawdown, 12, PeakAt(bid)) /\ ~AtLeast(drawdown, 15, PeakAt(bid)) -> "REDUCE"
       [] AtLeast(drawdown, 10, PeakAt(bid)) /\ ~AtLeast(drawdown, 12, PeakAt(bid)) -> "WARNING"
       [] OTHER -> "NORMAL"

Requested(bid, target) == IF target = Hold THEN Held(bid) ELSE target * Unit

\* Mutant: a risk lock of the parent does not bind the target.
ApprovedDespiteLock(bid, target) ==
  CASE DrawdownState(bid) = "HALT" -> 0
    [] DrawdownState(bid) = "REDUCE" -> Smaller(Held(bid), Requested(bid, target) \div 2)
    [] DrawdownState(bid) = "WARNING" -> Smaller(Held(bid), Requested(bid, target))
    [] OTHER -> Smaller(Requested(bid, target), Marked(bid))

\* Mutant: the risk bucket is left out of the target.
ApprovedWithoutBucket(bid, target) ==
  CASE locked \/ DrawdownState(bid) = "HALT" -> 0
    [] OTHER -> Smaller(4 * Requested(bid, target), Marked(bid))

\* approved_target_notional.
Approved(bid, target) ==
  CASE locked \/ DrawdownState(bid) = "HALT" -> 0
    [] ~locked /\ DrawdownState(bid) = "REDUCE" ->
         Smaller(Held(bid), Requested(bid, target) \div 2)
    [] ~locked /\ DrawdownState(bid) = "WARNING" -> Smaller(Held(bid), Requested(bid, target))
    [] OTHER -> Smaller(Requested(bid, target), Marked(bid))

-----------------------------------------------------------------------------
(* The order *)

\* target_quantity is the approved notional over this price.
TargetPrice(bid, approved) == IF approved >= Held(bid) THEN bid + Spread ELSE bid

\* quantity_delta times TargetPrice, in cash units.
Gap(bid, approved) == approved - position * TargetPrice(bid, approved) * Unit

\* Changes below the minimum notional are not traded.
Side(bid, approved) ==
  LET gap == Gap(bid, approved)
  IN CASE gap >= MinNotional * Unit -> "BUY"
       [] -gap * bid >= MinNotional * Unit * TargetPrice(bid, approved) -> "SELL"
       [] OTHER -> "NONE"

ExecutionPrice(bid, side) == IF side = "BUY" THEN BuyPrice(bid + Spread) ELSE SellPrice(bid)

\* Mutant: the notional cap of plan_order uses the quoted ask.
PlannedAtQuote(bid, approved, side) ==
  CASE side = "BUY" -> Gap(bid, approved) \div ((bid + Spread) * Unit)
    [] side = "SELL" -> (-Gap(bid, approved)) \div (TargetPrice(bid, approved) * Unit)
    [] side = "NONE" -> 0

\* plan_order: down to the quantity step, and for a buy down to what the approved
\* notional pays for at the conservative execution price.
Planned(bid, approved, side) ==
  CASE side = "BUY" -> Gap(bid, approved) \div (BuyPrice(bid + Spread) * Unit)
    [] side = "SELL" -> (-Gap(bid, approved)) \div (TargetPrice(bid, approved) * Unit)
    [] side = "NONE" -> 0

\* Submitted only when READY: a whole step and the minimum notional.
Submitted(bid, approved, side) ==
  LET q == Planned(bid, approved, side)
  IN IF q >= 1 /\ q * ExecutionPrice(bid, side) >= MinNotional THEN q ELSE 0

\* PARTIAL_FILL of 40%, the ratio of system_paper_runtime_cli.py.
Part(q) == (q * 4) \div 10

\* submit raises on an overfill and on a ratio that leaves nothing to fill or no rest.
Executable(scenario, q) ==
  q = 0 \/ (scenario # "IMPOSSIBLE_OVERFILL" /\ (scenario \in RatioKinds => Part(q) \in 1..(q - 1)))

\* Mutant: a partial fill is not reconciled in its slot.
OrderEndUnreconciled(scenario, q) ==
  CASE q = 0 -> "NONE"
    [] q > 0 /\ scenario = "PARTIAL_THEN_FULL" -> "PARTIALLY_FILLED"
    [] q > 0 /\ scenario \in FullKinds \ {"PARTIAL_THEN_FULL"} -> "FILLED"
    [] q > 0 /\ scenario \in {"FILL_BEFORE_CANCEL", "CANCEL_BEFORE_FILL"} -> "CANCELED"
    [] q > 0 /\ scenario = "REJECTED" -> "REJECTED"
    [] q > 0 /\ scenario \in UnknownKinds -> "UNKNOWN"

\* The state of the order after submit and, while it is open, reconcile.
OrderEnd(scenario, q) ==
  CASE q = 0 -> "NONE"
    [] q > 0 /\ scenario \in FullKinds -> "FILLED"
    [] q > 0 /\ scenario \in {"FILL_BEFORE_CANCEL", "CANCEL_BEFORE_FILL"} -> "CANCELED"
    [] q > 0 /\ scenario = "REJECTED" -> "REJECTED"
    [] q > 0 /\ scenario \in UnknownKinds -> "UNKNOWN"

Filled(scenario, q) ==
  CASE scenario \in FullKinds -> q
    [] scenario = "FILL_BEFORE_CANCEL" -> Part(q)
    [] OTHER -> 0

-----------------------------------------------------------------------------
(* The slot *)

\* _verify_snapshot on what the previous slot left.
SnapshotVerifies ==
  /\ cash >= 0 /\ position >= 0 /\ cost >= 0 /\ peak > 0
  /\ position = 0 <=> average = 0
  /\ cost = Rounded(position * average, 1)

\* Mutant: a sale that closes the position keeps the average entry price.
AverageKeptBySales(sold, costAfter, held) ==
  IF sold THEN average ELSE IF held = 0 THEN 0 ELSE Rounded(costAfter, held)

\* The average entry price of what is held; a sale keeps it.
AverageAfter(sold, costAfter, held) ==
  IF held = 0 THEN 0 ELSE IF sold THEN average ELSE Rounded(costAfter, held)

\* The snapshot after filled steps at the execution price; a sale relieves cost at the
\* average entry price.
Book(bid, side, filled, state) ==
  LET sold == side = "SELL"
      price == ExecutionPrice(bid, side)
      fee == filled * price * Fee
      costAfter == IF sold THEN Rounded(cost - Rounded(filled * average, 1), 1)
                           ELSE Rounded(cost + filled * price * Scale, 1)
  IN /\ position' = IF sold THEN position - filled ELSE position + filled
     /\ cash' = (IF sold THEN cash + filled * price * Unit
                         ELSE cash - filled * price * Unit) - fee
     /\ cost' = IF position' = 0 THEN 0 ELSE costAfter
     /\ average' = AverageAfter(sold, costAfter, position')
     /\ peak' = Larger(PeakAt(bid), cash' + position' * bid * Unit)
     /\ locked' = (locked \/ DrawdownState(bid) = "HALT" \/ state = "UNKNOWN")
     /\ active' = (state \in {"ACKNOWLEDGED", "PARTIALLY_FILLED", "CANCEL_PENDING", "UNKNOWN"})

Overdrawn(bid, side, filled) ==
  IF side = "SELL" THEN filled > position
  ELSE cash < filled * ExecutionPrice(bid, side) * (Unit + Fee)

Refuse(reason) == outcome' = reason /\ UNCHANGED <<snapshot, slots>>

\* run_system_paper_slot: a slot that raises leaves the parent snapshot where it is.
RunSlot(bid, target, scenario) ==
  LET approved == Approved(bid, target)
      side == Side(bid, approved)
      q == Submitted(bid, approved, side)
      filled == Filled(scenario, q)
  IN /\ slots < MaxSlots
     /\ outcome = "COMPLETED"
     /\ bundle' = [bid |-> bid, target |-> target]
     /\ IF ~SnapshotVerifies THEN Refuse("SNAPSHOT_INVALID")
        ELSE IF active THEN Refuse("ACTIVE_ORDER_RECONCILIATION_REQUIRED")
        ELSE IF ~Executable(scenario, q) THEN Refuse("SCENARIO_NOT_EXECUTABLE")
        ELSE IF Overdrawn(bid, side, filled) THEN Refuse("LEDGER_NEGATIVE_BALANCE")
        ELSE /\ Book(bid, side, filled, OrderEnd(scenario, q))
             /\ slots' = slots + 1
             /\ outcome' = "COMPLETED"

\* build_initial_system_paper_runtime_snapshot.
Init ==
  /\ cash = Equity * Unit /\ peak = Equity * Unit
  /\ position = 0 /\ cost = 0 /\ average = 0
  /\ locked = FALSE /\ active = FALSE
  /\ bundle = [bid |-> 0, target |-> Hold]
  /\ outcome = "COMPLETED"
  /\ slots = 0

\* A slot that raised is run again on the same durable input and raises again.
Next ==
  \E bid \in Bids, target \in Targets \cup {Hold}, scenario \in Scenarios :
    RunSlot(bid, target, scenario)

Spec == Init /\ [][Next]_vars

-----------------------------------------------------------------------------
(* Properties *)

\* The snapshot has its type; a cost basis and an average entry price are there exactly
\* while something is held.
TypeOK ==
  /\ cash \in Nat /\ position \in Nat /\ cost \in Nat /\ average \in Nat
  /\ position = 0 <=> average = 0
  /\ position = 0 <=> cost = 0
  /\ peak \in Nat \ {0}
  /\ locked \in BOOLEAN /\ active \in BOOLEAN
  /\ bundle \in [bid : Bids \cup {0}, target : Targets \cup {Hold}]
  /\ outcome \in Outcomes
  /\ slots \in 0..MaxSlots

\* An order that is left open always comes with the risk lock: a partial fill never
\* survives its slot, and an UNKNOWN order blocks new risk.
ActiveOrderIsLocked == active => locked

\* A slot never fails on its own purchases: whatever prices did before, the approved
\* target leaves the cash for slippage and fee, so that LEDGER_NEGATIVE_BALANCE is not met.
NeverOverdrawn == outcome # "LEDGER_NEGATIVE_BALANCE"

\* The risk lock is for good: it is never lifted, and no slot increases the position under it.
LockIsForGood == [][locked => locked' /\ position' <= position]_vars

\* Exposure only grows in a slot whose drawdown is below every band, and what is held and
\* bought, slippage included, stays inside the approved target.
FillsWithinApproval ==
  [][position' > position =>
       LET bid == bundle'.bid
           bought == position' - position
       IN /\ DrawdownState(bid) = "NORMAL"
          /\ position * (bid + Spread) + bought * BuyPrice(bid + Spread) <= bundle'.target]_vars

\* The snapshot a slot seals is one the next slot can start from: the runtime never refuses
\* what it wrote itself.
SnapshotsAreAccepted == outcome # "SNAPSHOT_INVALID"
=============================================================================
