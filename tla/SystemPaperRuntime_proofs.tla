---------------------- MODULE SystemPaperRuntime_proofs ----------------------
(***************************************************************************)
(* Theorems about the economics of a slot for every starting equity, every *)
(* set of prices, spread, targets and scenarios, and any number of slots.  *)
(*                                                                         *)
(* Two inductive invariants: RInv, about cash, peak and the lock, needs no *)
(* rounding; TInv, on top of it, says that cost and average follow what is *)
(* held in spite of it.  For TInv the powers of ten that Decimal rounds to *)
(* are shown to be well defined and to grow (by least counterexamples,     *)
(* from the well-foundedness of the finite subsets of the naturals), and a *)
(* rounded result to be near: so what is rounded once is never rounded     *)
(* away while the digits count ten times what the risk bucket may hold.    *)
(***************************************************************************)
EXTENDS SystemPaperRuntime, TLAPS, FiniteSetTheorems, WellFoundedInduction

-----------------------------------------------------------------------------
(* Arithmetic *)

\* A quotient times its divisor does not exceed the dividend.
LEMMA QuotientFits ==
  ASSUME NEW n \in Int, NEW d \in Nat \ {0}
  PROVE  /\ n \div d \in Int /\ (n \div d) * d <= n
         /\ 0 <= n => 0 <= n \div d
BY SMT

\* A product is monotone in a factor.
LEMMA ProductFits ==
  ASSUME NEW a \in Int, NEW b \in Int, NEW c \in Nat, a <= b
  PROVE  a * c <= b * c
BY SMT

\* A part of an order is not more than the order.
LEMMA PartFits ==
  ASSUME NEW q \in Nat
  PROVE  Part(q) \in Nat /\ Part(q) <= q /\ Part(0) = 0
<1>1. (q * 4) \div 10 \in Nat /\ (q * 4) \div 10 <= q
  BY SMT
<1>2. (0 * 4) \div 10 = 0
  BY SMT
<1> QED
  BY <1>1, <1>2 DEF Part

\* The price of a purchase is a positive number of ticks.
LEMMA PricesFit ==
  ASSUME NEW bid \in Bids
  PROVE  /\ bid \in Nat \ {0} /\ Spread \in Nat
         /\ BuyPrice(bid + Spread) \in Nat \ {0} /\ SellPrice(bid) \in Nat
<1>1. bid \in Nat \ {0} /\ Spread \in Nat
  BY RuntimeAssumption
<1>2. \A ask \in Nat \ {0} : (ask * 1001 + 999) \div 1000 \in Nat \ {0} /\ (ask * 999) \div 1000 \in Nat
  BY SMT
<1> QED
  BY <1>1, <1>2 DEF BuyPrice, SellPrice

-----------------------------------------------------------------------------
(* The inductive invariant *)

\* The peak never falls below the starting equity, a quarter of which is the most a target
\* may ask for.  That is what leaves the cash for a purchase and its fee.
RInv ==
  /\ cash \in Nat /\ position \in Nat /\ peak \in Int
  /\ locked \in BOOLEAN /\ active \in BOOLEAN
  /\ Equity * Unit <= peak
  /\ ActiveOrderIsLocked
  /\ NeverOverdrawn

\* A slot buys only when nothing restricts it, and never more than the approved target
\* leaves after what is held.
LEMMA PurchasesFit ==
  ASSUME RInv, NEW bid \in Bids, NEW target \in Targets \cup {Hold},
         Side(bid, Approved(bid, target)) = "BUY"
  PROVE  /\ ~locked /\ DrawdownState(bid) = "NORMAL" /\ target \in Targets
         /\ Gap(bid, Approved(bid, target)) \in Nat /\ Approved(bid, target) \in Int
         /\ Approved(bid, target) <= target * Unit /\ Approved(bid, target) <= Marked(bid)
         /\ Gap(bid, Approved(bid, target))
              = Approved(bid, target) - position * (bid + Spread) * Unit
<1> DEFINE approved == Approved(bid, target)
           held == position * bid * Unit
           full == position * (bid + Spread) * Unit
<1>1. /\ bid \in Nat \ {0} /\ Spread \in Nat /\ MinNotional \in Nat \ {0} /\ Unit = 2000
      /\ position \in Nat /\ cash \in Nat /\ peak \in Int
  BY PricesFit, RuntimeAssumption DEF RInv, Unit
<1>2. held \in Nat /\ full \in Nat /\ held <= full /\ Held(bid) = held
  <2>1. position * bid \in Nat /\ position * (bid + Spread) \in Nat
        /\ position * bid <= position * (bid + Spread)
    BY <1>1, SMT
  <2> QED
    BY <1>1, <2>1 DEF Held
<1>3. target \in Nat /\ Requested(bid, target) \in Nat /\ Marked(bid) \in Int
  <2>1. Targets \subseteq Nat
    BY RuntimeAssumption
  <2> QED
    BY <1>1, <1>2, <2>1 DEF Requested, Marked, Hold
<1>4. MinNotional * Unit \in Nat \ {0}
  BY <1>1
<1>5. Gap(bid, approved) >= MinNotional * Unit
  BY DEF Side
<1>6. Approved(bid, target) \in Int
  BY <1>1, <1>2, <1>3 DEF Approved, Smaller
<1>7. /\ Approved(bid, target) > held
      /\ Gap(bid, Approved(bid, target)) = Approved(bid, target) - full
  <2>1. CASE approved >= Held(bid)
    <3>1. TargetPrice(bid, approved) = bid + Spread
      BY <2>1 DEF TargetPrice
    <3>2. Gap(bid, approved) = approved - full
      BY <3>1 DEF Gap
    <3> QED
      BY <1>2, <1>4, <1>5, <1>6, <3>2
  <2>2. CASE ~(approved >= Held(bid))
    <3>1. TargetPrice(bid, approved) = bid
      BY <2>2 DEF TargetPrice
    <3>2. Gap(bid, approved) = approved - held
      BY <3>1 DEF Gap
    <3> QED
      BY <1>2, <1>4, <1>5, <1>6, <2>2, <3>2
  <2> QED
    BY <2>1, <2>2
<1>8. DrawdownState(bid) \in {"HALT", "REDUCE", "WARNING", "NORMAL"}
  BY DEF DrawdownState
<1>9. ~locked /\ DrawdownState(bid) = "NORMAL"
  <2>1. Approved(bid, target) # 0 /\ ~(Approved(bid, target) <= Held(bid))
    BY <1>2, <1>6, <1>7
  <2>2. \A b \in Int : Smaller(Held(bid), b) <= Held(bid)
    BY <1>2 DEF Smaller
  <2>3. Requested(bid, target) \div 2 \in Int
    BY <1>3
  <2> QED
    BY <1>3, <1>8, <2>1, <2>2, <2>3 DEF Approved, RInv
<1>10. Approved(bid, target) = Smaller(Requested(bid, target), Marked(bid))
  BY <1>9 DEF Approved
<1>11. Approved(bid, target) <= Requested(bid, target) /\ Approved(bid, target) <= Marked(bid)
  BY <1>3, <1>10 DEF Smaller
<1>12. target # Hold /\ Requested(bid, target) = target * Unit
  BY <1>2, <1>3, <1>6, <1>7, <1>11 DEF Requested
<1> QED
  BY <1>2, <1>4, <1>5, <1>6, <1>7, <1>9, <1>11, <1>12

\* What a slot submits: for a purchase what its price pays for, for a sale no more than is
\* held.
LEMMA SubmissionsFit ==
  ASSUME RInv, NEW bid \in Bids, NEW target \in Targets \cup {Hold}
  PROVE  LET approved == Approved(bid, target)
             side == Side(bid, approved)
             q == Submitted(bid, approved, side)
         IN /\ q \in Nat /\ side \in {"BUY", "SELL", "NONE"}
            /\ side = "BUY" => q * BuyPrice(bid + Spread) * Unit <= Gap(bid, approved)
            /\ side = "SELL" => q <= position
            /\ side = "NONE" => q = 0
<1> DEFINE approved == Approved(bid, target)
           side == Side(bid, approved)
           n == Planned(bid, approved, side)
           q == Submitted(bid, approved, side)
           price == BuyPrice(bid + Spread)
<1>1. /\ bid \in Nat \ {0} /\ Spread \in Nat /\ MinNotional \in Nat \ {0} /\ Unit = 2000
      /\ position \in Nat /\ cash \in Nat /\ peak \in Int /\ price \in Nat \ {0}
  BY PricesFit, RuntimeAssumption DEF RInv, Unit
<1>2. side \in {"BUY", "SELL", "NONE"}
  BY DEF Side
<1>3. n \in Int => q \in Nat /\ (q = n \/ q = 0)
  BY DEF Submitted
<1>4. CASE side = "BUY"
  <2>1. Gap(bid, approved) \in Nat
    BY <1>4, PurchasesFit
  <2>2. price * Unit \in Nat \ {0}
    BY <1>1, SMT
  <2>3. n = Gap(bid, approved) \div (price * Unit)
    BY <1>4 DEF Planned
  <2>4. n \in Int /\ n * (price * Unit) <= Gap(bid, approved)
    BY <2>1, <2>2, <2>3, QuotientFits
  <2>5. q * (price * Unit) <= Gap(bid, approved)
    BY <1>3, <2>1, <2>2, <2>4
  <2>6. q * (price * Unit) = q * price * Unit
    BY <1>1, <1>3, <2>4, SMT
  <2> QED
    BY <1>3, <1>4, <2>4, <2>5, <2>6
<1>5. CASE side = "SELL"
  <2> DEFINE tp == TargetPrice(bid, approved)
  <2>1. tp \in Nat \ {0} /\ tp * Unit \in Nat \ {0}
    BY <1>1 DEF TargetPrice
  <2>2. approved \in Int /\ 0 <= approved
    <3>1. Held(bid) \in Nat /\ Marked(bid) \in Nat
      BY <1>1, SMT DEF Held, Marked
    <3>2. Requested(bid, target) \in Nat /\ Requested(bid, target) \div 2 \in Nat
      <4>1. Requested(bid, target) \in Nat
        BY <1>1, <3>1, RuntimeAssumption DEF Requested, Hold
      <4> QED
        BY <4>1, SMT
    <3> QED
      BY <3>1, <3>2 DEF Approved, Smaller
  <2>3. n = (-Gap(bid, approved)) \div (tp * Unit)
    BY <1>5 DEF Planned
  <2> DEFINE d == tp * Unit
  <2>4. Gap(bid, approved) = approved - position * d
    <3>1. position * tp * Unit = position * (tp * Unit)
      BY <1>1, <2>1, SMT
    <3> QED
      BY <3>1 DEF Gap
  <2> HIDE DEF d, approved
  <2>5. (-Gap(bid, approved)) <= position * d /\ -Gap(bid, approved) \in Int
        /\ position * d \in Nat
    BY <1>1, <2>1, <2>2, <2>4, SMT DEF d
  <2>6. n \in Int /\ n * d <= -Gap(bid, approved)
    BY <2>1, <2>3, <2>5, QuotientFits DEF d
  <2>7. n * d <= position * d
    BY <1>1, <2>1, <2>5, <2>6 DEF d
  <2>8. n <= position
    <3>1. \A a, b \in Int, c \in Nat \ {0} : a * c <= b * c => a <= b
      BY SMT
    <3> QED
      BY <1>1, <2>1, <2>6, <2>7, <3>1 DEF d
  <2> QED
    BY <1>1, <1>3, <1>5, <2>6, <2>8 DEF approved
<1>6. CASE side = "NONE"
  <2>1. n = 0
    BY <1>6 DEF Planned
  <2> QED
    BY <1>3, <1>6, <2>1
<1> QED
  BY <1>2, <1>4, <1>5, <1>6

\* Without a restriction the marked equity is above nine tenths of the starting equity.
LEMMA NormalIsNearThePeak ==
  ASSUME RInv, NEW bid \in Bids, DrawdownState(bid) = "NORMAL"
  PROVE  9 * Equity * Unit <= 10 * Marked(bid)
<1>1. /\ bid \in Nat /\ Equity \in Nat /\ Unit = 2000 /\ cash \in Nat /\ position \in Nat
      /\ peak \in Int /\ Equity * Unit <= peak
  BY PricesFit, RuntimeAssumption DEF RInv, Unit
<1>2. Marked(bid) \in Nat
  BY <1>1, SMT DEF Marked
<1>3. PeakAt(bid) \in Int /\ Equity * Unit <= PeakAt(bid)
  BY <1>1, <1>2 DEF PeakAt, Larger
<1>4. ~AtLeast(PeakAt(bid) - Marked(bid), 10, PeakAt(bid))
  <2>1. \A x, y \in Int : x * 100 >= 15 * y \/ ~(x * 100 >= 15 * y)
    OBVIOUS
  <2> QED
    BY <1>2, <1>3 DEF DrawdownState, AtLeast
<1> QED
  BY <1>1, <1>2, <1>3, <1>4 DEF AtLeast

\* The slot can always pay for what its scenario fills, slippage and fee included, and sells
\* no more than it holds.
LEMMA FillsAreAffordable ==
  ASSUME RInv, NEW bid \in Bids, NEW target \in Targets \cup {Hold}, NEW scenario
  PROVE  LET approved == Approved(bid, target)
             side == Side(bid, approved)
             q == Submitted(bid, approved, side)
             filled == Filled(scenario, q)
         IN /\ q \in Nat /\ filled \in Nat /\ filled <= q
            /\ side \in {"BUY", "SELL", "NONE"}
            /\ side = "NONE" => filled = 0
            /\ side = "SELL" => filled <= position
            /\ side = "BUY" =>
                 filled * BuyPrice(bid + Spread) * Unit <= Gap(bid, approved)
            /\ ~Overdrawn(bid, side, filled)
<1> DEFINE approved == Approved(bid, target)
           side == Side(bid, approved)
           q == Submitted(bid, approved, side)
           filled == Filled(scenario, q)
           price == BuyPrice(bid + Spread)
<1>1. /\ q \in Nat /\ side \in {"BUY", "SELL", "NONE"}
      /\ side = "BUY" => q * price * Unit <= Gap(bid, approved)
      /\ side = "SELL" => q <= position
      /\ side = "NONE" => q = 0
  BY SubmissionsFit
<1>2. filled \in Nat /\ filled <= q
  BY <1>1, PartFits DEF Filled
<1>3. price \in Nat \ {0} /\ Unit = 2000 /\ Fee = 3 /\ cash \in Nat /\ position \in Nat
      /\ SellPrice(bid) \in Nat /\ bid \in Nat \ {0} /\ Spread \in Nat /\ Equity \in Nat
  BY PricesFit, RuntimeAssumption DEF Unit, Fee, RInv
<1>4. CASE side = "BUY"
  <2> DEFINE paid == filled * price
             full == position * (bid + Spread) * Unit
             held == position * bid * Unit
  <2>1. paid \in Nat /\ paid <= q * price /\ q * price \in Nat
    BY <1>1, <1>2, <1>3, ProductFits
  <2>2. /\ DrawdownState(bid) = "NORMAL" /\ target \in Targets
        /\ Gap(bid, approved) \in Nat /\ approved \in Int
        /\ approved <= target * Unit
        /\ Gap(bid, approved) = approved - full
    BY <1>4, PurchasesFit
  <2>3. paid * Unit <= Gap(bid, approved)
    <3> DEFINE most == q * price
    <3>1. most * Unit <= Gap(bid, approved)
      BY <1>1, <1>4
    <3> HIDE DEF most
    <3>2. most \in Nat /\ paid <= most
      BY <2>1 DEF most
    <3> QED
      BY <1>3, <2>1, <2>2, <3>1, <3>2
  <2>4. 4 * target <= Equity /\ target \in Nat
    <3>1. target \in 1..(Equity \div 4)
      BY <2>2, RuntimeAssumption
    <3> QED
      BY <1>3, <3>1, SMT
  <2>5. held \in Nat /\ full \in Nat /\ held <= full
    <3>1. position * bid \in Nat /\ position * (bid + Spread) \in Nat
          /\ position * bid <= position * (bid + Spread)
      BY <1>3, SMT
    <3> QED
      BY <1>3, <3>1
  <2>6. Marked(bid) = cash + held /\ 9 * Equity * Unit <= 10 * Marked(bid)
    BY <2>2, NormalIsNearThePeak DEF Marked
  <2> HIDE DEF paid, full, held, approved
  <2>7. paid * (Unit + Fee) <= cash
    BY <1>3, <2>1, <2>2, <2>3, <2>4, <2>5, <2>6
  <2> USE DEF paid, full, held, approved
  <2>8. ~Overdrawn(bid, side, filled)
    <3>1. ExecutionPrice(bid, side) = price
      BY <1>4 DEF ExecutionPrice
    <3>2. filled * price * (Unit + Fee) \in Nat
      BY <1>3, <2>1
    <3> QED
      BY <1>3, <1>4, <2>7, <3>1, <3>2 DEF Overdrawn
  <2> QED
    BY <1>1, <1>2, <1>4, <2>3, <2>8
<1>5. CASE side = "SELL"
  BY <1>1, <1>2, <1>3, <1>5 DEF Overdrawn
<1>6. CASE side = "NONE"
  <2>1. filled = 0 /\ ExecutionPrice(bid, side) = SellPrice(bid)
    BY <1>1, <1>2, <1>6 DEF ExecutionPrice
  <2> QED
    BY <1>1, <1>3, <1>6, <2>1 DEF Overdrawn
<1> QED
  BY <1>1, <1>4, <1>5, <1>6

\* An order is left open only as UNKNOWN, which locks risk.
LEMMA OpenIsUnknown ==
  ASSUME NEW q \in Nat, NEW scenario \in Scenarios, Executable(scenario, q),
         OrderEnd(scenario, q) \in {"ACKNOWLEDGED", "PARTIALLY_FILLED", "CANCEL_PENDING", "UNKNOWN"}
  PROVE  OrderEnd(scenario, q) = "UNKNOWN"
<1>1. scenario \in ScenarioKinds
  BY RuntimeAssumption
<1>2. q = 0 => OrderEnd(scenario, q) = "NONE"
  BY DEF OrderEnd
<1>3. q > 0 => scenario \in FullKinds \cup UnknownKinds
                           \cup {"FILL_BEFORE_CANCEL", "CANCEL_BEFORE_FILL", "REJECTED"}
  BY <1>1 DEF Executable, ScenarioKinds, FullKinds, UnfilledKinds, UnknownKinds, RatioKinds
<1> QED
  BY <1>2, <1>3 DEF OrderEnd, FullKinds, UnknownKinds

\* What one step of the properties says about a slot.
StaysLocked == locked => locked' /\ position' <= position
StaysApproved ==
  position' > position =>
    LET bid == bundle'.bid
        bought == position' - position
    IN /\ DrawdownState(bid) = "NORMAL"
       /\ position * (bid + Spread) + bought * BuyPrice(bid + Spread) <= bundle'.target

\* A slot keeps the invariant, the lock and the approval.
LEMMA SlotStep ==
  ASSUME RInv, NEW bid \in Bids, NEW target \in Targets \cup {Hold}, NEW scenario \in Scenarios,
         RunSlot(bid, target, scenario)
  PROVE  RInv' /\ StaysLocked /\ StaysApproved
<1> DEFINE approved == Approved(bid, target)
           side == Side(bid, approved)
           q == Submitted(bid, approved, side)
           filled == Filled(scenario, q)
           price == ExecutionPrice(bid, side)
           state == OrderEnd(scenario, q)
<1>1. /\ q \in Nat /\ filled \in Nat /\ filled <= q
      /\ side \in {"BUY", "SELL", "NONE"}
      /\ side = "NONE" => filled = 0
      /\ side = "SELL" => filled <= position
      /\ side = "BUY" => filled * BuyPrice(bid + Spread) * Unit <= Gap(bid, approved)
      /\ ~Overdrawn(bid, side, filled)
  BY FillsAreAffordable
<1>2. /\ cash \in Nat /\ position \in Nat /\ peak \in Int /\ Equity * Unit <= peak
      /\ Unit = 2000 /\ Fee = 3 /\ bid \in Nat \ {0} /\ Spread \in Nat /\ Equity \in Nat
      /\ price \in Nat
  BY PricesFit, RuntimeAssumption DEF Unit, Fee, RInv, ExecutionPrice
<1>3. CASE \E reason \in {"SNAPSHOT_INVALID", "ACTIVE_ORDER_RECONCILIATION_REQUIRED",
                          "SCENARIO_NOT_EXECUTABLE"} : Refuse(reason)
  <2>1. UNCHANGED <<cash, position, peak, locked, active>> /\ outcome' # "LEDGER_NEGATIVE_BALANCE"
    BY <1>3 DEF Refuse, snapshot
  <2> QED
    BY <1>2, <2>1 DEF RInv, ActiveOrderIsLocked, NeverOverdrawn, StaysLocked, StaysApproved
<1>4. CASE /\ Executable(scenario, q) /\ Book(bid, side, filled, state)
           /\ outcome' = "COMPLETED" /\ bundle' = [bid |-> bid, target |-> target]
  <2> DEFINE paid == filled * price
  <2>1. paid \in Nat
    BY <1>1, <1>2, SMT
  <2>2. /\ position' = IF side = "SELL" THEN position - filled ELSE position + filled
        /\ cash' = (IF side = "SELL" THEN cash + paid * Unit ELSE cash - paid * Unit) - paid * Fee
        /\ peak' = Larger(PeakAt(bid), cash' + position' * bid * Unit)
        /\ locked' = (locked \/ DrawdownState(bid) = "HALT" \/ state = "UNKNOWN")
        /\ active' = (state \in {"ACKNOWLEDGED", "PARTIALLY_FILLED", "CANCEL_PENDING", "UNKNOWN"})
    BY <1>4 DEF Book
  <2>3. position' \in Nat
    BY <1>1, <1>2, <2>2
  <2>4. cash' \in Nat
    <3>1. CASE side = "SELL"
      BY <1>2, <2>1, <2>2, <3>1
    <3>2. CASE side # "SELL"
      <4>1. ~(cash < paid * (Unit + Fee))
        BY <1>1, <3>2 DEF Overdrawn
      <4> HIDE DEF paid
      <4> QED
        BY <1>2, <2>1, <2>2, <3>2, <4>1
    <3> QED
      BY <3>1, <3>2
  <2>5. peak' \in Int /\ Equity * Unit <= peak'
    <3>1. cash' + position' * bid * Unit \in Int /\ Marked(bid) \in Int
      BY <1>2, <2>3, <2>4, SMT DEF Marked
    <3> QED
      BY <1>2, <2>2, <3>1 DEF PeakAt, Larger
  <2>6. locked' \in BOOLEAN /\ active' \in BOOLEAN /\ (active' => locked')
    <3>1. locked' \in BOOLEAN /\ active' \in BOOLEAN
      BY <2>2
    <3>2. active' => state = "UNKNOWN"
      BY <1>1, <1>4, <2>2, OpenIsUnknown
    <3> QED
      BY <2>2, <3>1, <3>2
  <2>7. StaysLocked
    <3>1. side = "BUY" => ~locked
      BY PurchasesFit
    <3>2. locked => locked'
      BY <2>2
    <3>3. side # "BUY" => position' <= position
      BY <1>1, <1>2, <2>2
    <3> QED
      BY <3>1, <3>2, <3>3 DEF StaysLocked
  <2>8. StaysApproved
    <3> SUFFICES ASSUME position' > position
                 PROVE  /\ DrawdownState(bid) = "NORMAL"
                        /\ position * (bid + Spread)
                             + (position' - position) * BuyPrice(bid + Spread) <= target
      BY <1>4 DEF StaysApproved
    <3>1. side = "BUY" /\ position' - position = filled
      BY <1>1, <1>2, <2>2
    <3> DEFINE held == position * (bid + Spread)
               bought == filled * BuyPrice(bid + Spread)
    <3>2. /\ DrawdownState(bid) = "NORMAL" /\ target \in Targets
          /\ approved \in Int /\ approved <= target * Unit
          /\ Gap(bid, approved) = approved - held * Unit
      BY <3>1, PurchasesFit
    <3>3. bought * Unit <= Gap(bid, approved)
      BY <1>1, <3>1
    <3>4. held \in Nat /\ bought \in Nat /\ target \in Nat
      <4>1. Targets \subseteq Nat
        BY RuntimeAssumption
      <4> QED
        BY <1>1, <1>2, <3>2, <4>1, PricesFit
    <3> HIDE DEF held, bought, approved
    <3>5. held + bought <= target
      BY <1>2, <3>2, <3>3, <3>4
    <3> QED
      BY <3>1, <3>2, <3>5 DEF held, bought
  <2> QED
    BY <1>4, <2>2, <2>3, <2>4, <2>5, <2>6, <2>7, <2>8 DEF RInv, ActiveOrderIsLocked, NeverOverdrawn
<1> QED
  BY <1>1, <1>3, <1>4 DEF RunSlot

\* The invariant holds in every reachable state.
THEOREM RInvHolds == Spec => []RInv
<1>1. Init => RInv
  <2>1. Equity * Unit \in Nat /\ Equity * Unit <= Equity * Unit
    BY RuntimeAssumption DEF Unit
  <2> SUFFICES ASSUME Init PROVE RInv
    OBVIOUS
  <2>2. cash \in Nat /\ peak \in Int /\ Equity * Unit <= peak /\ position \in Nat
    BY <2>1 DEF Init
  <2>3. locked \in BOOLEAN /\ active \in BOOLEAN /\ ~active /\ outcome = "COMPLETED"
    BY DEF Init
  <2> QED
    BY <2>2, <2>3 DEF RInv, ActiveOrderIsLocked, NeverOverdrawn
<1>2. RInv /\ [Next]_vars => RInv'
  <2>1. RInv /\ Next => RInv'
    BY SlotStep DEF Next
  <2>2. RInv /\ UNCHANGED vars => RInv'
    BY DEF vars, RInv, ActiveOrderIsLocked, NeverOverdrawn
  <2> QED
    BY <2>1, <2>2
<1> QED
  BY <1>1, <1>2, PTL DEF Spec

\* A slot never fails on its own purchases: no price path, scenario or rounding precision
\* makes the ledger of a slot meet a negative balance.
THEOREM PurchasesAreCovered == Spec => []NeverOverdrawn
<1>1. RInv => NeverOverdrawn
  BY DEF RInv
<1> QED
  BY <1>1, RInvHolds, PTL

\* An order that is left open comes with the risk lock, for every mixture of scenarios.
THEOREM OpenOrdersAreLocked == Spec => []ActiveOrderIsLocked
<1>1. RInv => ActiveOrderIsLocked
  BY DEF RInv
<1> QED
  BY <1>1, RInvHolds, PTL

\* The risk lock is never lifted and no slot adds to the position under it.
THEOREM LocksAreForGood == Spec => LockIsForGood
<1>1. RInv /\ [Next]_vars => [locked => locked' /\ position' <= position]_vars
  BY SlotStep DEF Next, StaysLocked
<1> QED
  BY <1>1, RInvHolds, PTL DEF Spec, LockIsForGood

\* What is held and bought, slippage included, stays inside the approved target, and nothing
\* is bought in a drawdown.
THEOREM FillsAreApproved == Spec => FillsWithinApproval
<1>1. RInv /\ [Next]_vars =>
        [position' > position =>
           LET bid == bundle'.bid
               bought == position' - position
           IN /\ DrawdownState(bid) = "NORMAL"
              /\ position * (bid + Spread) + bought * BuyPrice(bid + Spread) <= bundle'.target]_vars
  BY SlotStep DEF Next, StaysApproved
<1> QED
  BY <1>1, RInvHolds, PTL DEF Spec, FillsWithinApproval

-----------------------------------------------------------------------------
(* The powers of ten *)

\* A set of naturals that is not empty has a least element: of the segments below its
\* elements, one contains no other.
LEMMA LeastElement ==
  ASSUME NEW T \in SUBSET Nat, T # {}
  PROVE  \E x \in T : \A y \in T : x <= y
<1> DEFINE S == {0..x : x \in T}
           R == StrictSubsetOrdering(Nat)
<1>1. S \subseteq FiniteSubsetsOf(Nat)
  <2>1. \A x \in T : 0..x \subseteq Nat /\ IsFiniteSet(0..x)
    BY FS_Interval
  <2> QED
    BY <2>1 DEF FiniteSubsetsOf
<1>2. IsWellFoundedOn(R, FiniteSubsetsOf(Nat))
  BY FS_StrictSubsetOrderingWellFounded
<1>3. S # {}
  OBVIOUS
<1>4. PICK s \in S : \A t \in S : ~(<<t, s>> \in R)
  <2> HIDE DEF S, R
  <2> QED
    BY <1>1, <1>2, <1>3, WFMin
<1>5. PICK x \in T : s = 0..x
  OBVIOUS
<1>6. ASSUME NEW y \in T, y < x
      PROVE  FALSE
  <2>1. 0..y \in SUBSET Nat /\ 0..x \in SUBSET Nat /\ 0..y \subseteq 0..x /\ 0..y # 0..x
    <3>1. x \in 0..x /\ x \notin 0..y
      BY <1>6
    <3> QED
      BY <1>6, <3>1
  <2>2. <<0..y, 0..x>> \in R
    BY <2>1 DEF StrictSubsetOrdering
  <2> QED
    BY <1>4, <1>5, <1>6, <2>2
<1> QED
  BY <1>6

\* The start of the powers of ten.
TensUpTo(n, h) == h \in [0..n -> Nat] /\ h[0] = 1 /\ \A i \in 1..n : h[i] = 10 * h[i - 1]

\* There is a start of every length.
LEMMA TensExist ==
  \A n \in Nat : \E h : TensUpTo(n, h)
<1> DEFINE T == {n \in Nat : ~\E h : TensUpTo(n, h)}
<1> SUFFICES ASSUME T # {} PROVE FALSE
  OBVIOUS
<1>1. PICK x \in T : \A y \in T : x <= y
  <2> HIDE DEF T
  <2>1. T \in SUBSET Nat
    BY DEF T
  <2> QED
    BY <2>1, LeastElement
<1>2. x # 0
  <2>1. TensUpTo(0, [i \in 0..0 |-> 1])
    BY DEF TensUpTo
  <2> QED
    BY <2>1
<1>3. x - 1 \in Nat /\ x - 1 \notin T
  BY <1>1, <1>2
<1>4. PICK h : TensUpTo(x - 1, h)
  BY <1>3
<1> DEFINE k == [i \in 0..x |-> IF i = x THEN 10 * h[x - 1] ELSE h[i]]
<1>5. TensUpTo(x, k)
  <2>1. h[x - 1] \in Nat
    BY <1>3, <1>4 DEF TensUpTo
  <2>2. \A i \in 0..x : i # x => i \in 0..(x - 1)
    OBVIOUS
  <2>3. k \in [0..x -> Nat]
    BY <1>4, <2>1, <2>2 DEF TensUpTo
  <2>4. k[0] = 1
    BY <1>2, <1>4 DEF TensUpTo
  <2>5. \A i \in 1..x : k[i] = 10 * k[i - 1]
    BY <1>4 DEF TensUpTo
  <2> QED
    BY <2>3, <2>4, <2>5 DEF TensUpTo
<1> QED
  BY <1>1, <1>5

\* Two starts agree.
LEMMA TensAgree ==
  ASSUME NEW n \in Nat, NEW m \in Nat, NEW h, NEW k, TensUpTo(n, h), TensUpTo(m, k)
  PROVE  \A i \in Nat : i <= n /\ i <= m => h[i] = k[i]
<1> DEFINE T == {i \in Nat : i <= n /\ i <= m /\ h[i] # k[i]}
<1> SUFFICES ASSUME T # {} PROVE FALSE
  OBVIOUS
<1>1. PICK x \in T : \A y \in T : x <= y
  <2> HIDE DEF T
  <2>1. T \in SUBSET Nat
    BY DEF T
  <2> QED
    BY <2>1, LeastElement
<1>2. x # 0
  BY DEF TensUpTo
<1>3. x - 1 \in Nat /\ x - 1 \notin T
  BY <1>1, <1>2
<1>4. h[x - 1] = k[x - 1]
  BY <1>3
<1> QED
  BY <1>2, <1>4 DEF TensUpTo

\* The powers of ten are well defined.
LEMMA TenStep ==
  \A n \in Nat : Ten[n] = IF n = 0 THEN 1 ELSE 10 * Ten[n - 1]
<1> DEFINE start(n) == CHOOSE h : TensUpTo(n, h)
           f == [n \in Nat |-> start(n)[n]]
<1>1. \A n \in Nat : TensUpTo(n, start(n))
  BY TensExist
<1>2. \A n \in Nat : f[n] = IF n = 0 THEN 1 ELSE 10 * f[n - 1]
  <2> TAKE n \in Nat
  <2>1. CASE n = 0
    BY <1>1, <2>1 DEF TensUpTo
  <2>2. CASE n # 0
    <3> HIDE DEF start
    <3>1. n - 1 \in Nat /\ n \in 1..n
      BY <2>2
    <3>2. start(n)[n] = 10 * start(n)[n - 1]
      BY <1>1, <3>1 DEF TensUpTo
    <3>3. start(n)[n - 1] = start(n - 1)[n - 1]
      BY <1>1, <3>1, TensAgree
    <3> QED
      BY <2>2, <3>1, <3>2, <3>3
  <2> QED
    BY <2>1, <2>2
<1>3. f = [n \in Nat |-> IF n = 0 THEN 1 ELSE 10 * f[n - 1]]
  <2>1. f = [n \in Nat |-> f[n]]
    <3> HIDE DEF start
    <3> QED
      OBVIOUS
  <2> HIDE DEF f
  <2>2. [n \in Nat |-> f[n]] = [n \in Nat |-> IF n = 0 THEN 1 ELSE 10 * f[n - 1]]
    BY <1>2
  <2> QED
    BY <2>1, <2>2
<1>4. Ten = [n \in Nat |-> IF n = 0 THEN 1 ELSE 10 * Ten[n - 1]]
  <2> HIDE DEF f
  <2> QED
    BY <1>3 DEF Ten
<1> QED
  BY <1>4

\* They are positive,
LEMMA TenPositive ==
  \A n \in Nat : Ten[n] \in Nat \ {0}
<1> DEFINE T == {n \in Nat : Ten[n] \notin Nat \ {0}}
<1> SUFFICES ASSUME T # {} PROVE FALSE
  OBVIOUS
<1>1. PICK x \in T : \A y \in T : x <= y
  <2> HIDE DEF T
  <2>1. T \in SUBSET Nat
    BY DEF T
  <2> QED
    BY <2>1, LeastElement
<1>2. x # 0
  BY TenStep
<1>3. x - 1 \in Nat /\ x - 1 \notin T
  BY <1>1, <1>2
<1>4. Ten[x - 1] \in Nat \ {0}
  BY <1>3
<1>5. Ten[x] = 10 * Ten[x - 1]
  BY <1>2, TenStep
<1> QED
  BY <1>1, <1>4, <1>5

\* greater than their exponent,
LEMMA TenGrows ==
  \A n \in Nat : n < Ten[n]
<1> DEFINE T == {n \in Nat : ~(n < Ten[n])}
<1> SUFFICES ASSUME T # {} PROVE FALSE
  OBVIOUS
<1>1. PICK x \in T : \A y \in T : x <= y
  <2> HIDE DEF T
  <2>1. T \in SUBSET Nat
    BY DEF T
  <2> QED
    BY <2>1, LeastElement
<1>2. x # 0
  BY TenStep
<1>3. x - 1 \in Nat /\ x - 1 \notin T
  BY <1>1, <1>2
<1>4. x - 1 < Ten[x - 1] /\ Ten[x - 1] \in Nat
  BY <1>3, TenPositive
<1>5. Ten[x] = 10 * Ten[x - 1]
  BY <1>2, TenStep
<1>6. x < Ten[x]
  BY <1>2, <1>4, <1>5
<1> QED
  BY <1>6

\* and the sum of the exponents gives the product.
LEMMA TenSum ==
  \A m \in Nat : \A n \in Nat : Ten[n + m] = Ten[n] * Ten[m]
<1> TAKE m \in Nat
<1> DEFINE T == {n \in Nat : Ten[n + m] # Ten[n] * Ten[m]}
<1> SUFFICES ASSUME T # {} PROVE FALSE
  OBVIOUS
<1>1. PICK x \in T : \A y \in T : x <= y
  <2> HIDE DEF T
  <2>1. T \in SUBSET Nat
    BY DEF T
  <2> QED
    BY <2>1, LeastElement
<1>0. Ten[0] = 1 /\ Ten[m] \in Nat
  BY TenStep, TenPositive
<1>2. x # 0
  BY <1>0
<1>3. x - 1 \in Nat /\ x - 1 \notin T
  BY <1>1, <1>2
<1>4. Ten[(x - 1) + m] = Ten[x - 1] * Ten[m] /\ Ten[x - 1] \in Nat
  BY <1>3, TenPositive
<1>5. Ten[x] = 10 * Ten[x - 1]
  BY <1>2, TenStep
<1>6. Ten[x + m] = 10 * Ten[(x - 1) + m]
  <2>1. /\ x + m \in Nat /\ x + m # 0
        /\ (x + m) - 1 = (x - 1) + m
    BY <1>2
  <2> QED
    BY <2>1, TenStep
<1>7. \A a, b \in Nat : 10 * (a * b) = (10 * a) * b
  BY SMT
<1> QED
  BY <1>0, <1>4, <1>5, <1>6, <1>7

-----------------------------------------------------------------------------
(* Rounding *)

\* The nearest multiple of a grid is at most half of the grid away.
LEMMA HalfEvenIsNear ==
  ASSUME NEW n \in Nat, NEW d \in Nat \ {0}, NEW g \in Nat \ {0}
  PROVE  LET r == HalfEven(n, d, g)
         IN /\ r \in Nat
            /\ 2 * (r * d - n) <= d * g
            /\ 2 * (n - r * d) <= d * g
<1> DEFINE e == d * g
           q == n \div e
<1>1. e \in Nat \ {0}
  BY SMT
<1>2. q \in Nat /\ q * e <= n /\ n < (q + 1) * e
  <2> HIDE DEF e
  <2> QED
    BY <1>1, SMT
<1>3. q * d * g = q * e /\ (q + 1) * g * d = (q + 1) * e /\ q * g * d = q * e
  <2>1. \A a, b, c \in Nat : a * b * c = a * (b * c) /\ a * c * b = a * (b * c)
    BY SMT
  <2> HIDE DEF q
  <2> QED
    BY <1>2, <2>1
<1>4. (q + 1) * g \in Nat /\ q * g \in Nat
  <2> HIDE DEF q
  <2> QED
    BY <1>2, SMT
<1>5. (q + 1) * e = q * e + e
  <2> HIDE DEF q, e
  <2> QED
    BY <1>1, <1>2, SMT
<1> DEFINE twice == 2 * (n - q * d * g)
<1>6. HalfEven(n, d, g) = IF twice > e \/ (twice = e /\ q % 2 = 1) THEN (q + 1) * g ELSE q * g
  BY DEF HalfEven
<1>7. twice = 2 * (n - q * e)
  BY <1>3
<1> HIDE DEF q, e, twice
<1>8. q * e \in Nat
  BY <1>1, <1>2, SMT
<1>9. CASE twice > e \/ (twice = e /\ q % 2 = 1)
  <2>1. HalfEven(n, d, g) = (q + 1) * g
    BY <1>6, <1>9
  <2>2. /\ 2 * ((q * e + e) - n) <= e
        /\ 2 * (n - (q * e + e)) <= e
    BY <1>1, <1>2, <1>5, <1>7, <1>8, <1>9
  <2> QED
    BY <1>3, <1>4, <1>5, <2>1, <2>2 DEF e
<1>10. CASE ~(twice > e \/ (twice = e /\ q % 2 = 1))
  <2>1. HalfEven(n, d, g) = q * g
    BY <1>6, <1>10
  <2>2. /\ 2 * (q * e - n) <= e
        /\ 2 * (n - q * e) <= e
    <3>1. ~(twice > e)
      BY <1>10
    <3> QED
      BY <1>1, <1>2, <1>7, <1>8, <3>1
  <2> QED
    BY <1>3, <1>4, <2>1, <2>2 DEF e
<1> QED
  BY <1>9, <1>10

\* A result is off by less than half of the last of its Precision digits: it is exact where
\* it has no digit to drop, and else the digit counts little in the result.
LEMMA RoundedIsNear ==
  ASSUME NEW n \in Nat, NEW d \in Nat \ {0}
  PROVE  /\ Rounded(n, d) \in Nat
         /\ \E g \in Nat \ {0} :
              /\ 2 * (Rounded(n, d) * d - n) <= d * g
              /\ 2 * (n - Rounded(n, d) * d) <= d * g
              /\ g = 1 \/ d * g * Ten[Precision] <= 10 * n
<1> DEFINE Fits(i) == n < d * Ten[i + Precision]
           T == {i \in Nat : Fits(i)}
           Chosen(i) == Fits(i) /\ (i = 0 \/ n >= d * Ten[i - 1 + Precision])
           k == CHOOSE i \in 0..n : Chosen(i)
<1>0. Precision \in Nat
  BY RuntimeAssumption
<1>1. n \in T
  <2>1. n < Ten[n + Precision] /\ Ten[n + Precision] \in Nat
    <3>1. n + Precision \in Nat /\ n <= n + Precision
      BY <1>0
    <3> QED
      BY <1>0, <3>1, TenGrows, TenPositive
  <2>2. \A t \in Nat : t <= d * t
    BY SMT
  <2>3. d * Ten[n + Precision] \in Nat
    BY <2>1, SMT
  <2> QED
    BY <2>1, <2>2, <2>3
<1>2. PICK x \in T : \A y \in T : x <= y
  <2> HIDE DEF T
  <2>1. T \in SUBSET Nat
    BY DEF T
  <2> QED
    BY <1>1, <2>1, LeastElement
<1>3. x \in 0..n /\ Chosen(x)
  <2>1. x \in 0..n
    BY <1>1, <1>2
  <2>2. CASE x # 0
    <3>1. x - 1 \in Nat /\ x - 1 \notin T
      BY <1>2, <2>2
    <3>2. d * Ten[x - 1 + Precision] \in Nat
      <4>1. Ten[x - 1 + Precision] \in Nat
        BY <1>0, <3>1, TenPositive
      <4> QED
        BY <4>1, SMT
    <3> QED
      BY <1>2, <2>1, <3>1, <3>2
  <2> QED
    BY <1>2, <2>1, <2>2
<1>4. k \in 0..n /\ Chosen(k)
  <2> HIDE DEF Chosen
  <2> QED
    BY <1>3
<1>5. Rounded(n, d) = HalfEven(n, d, Ten[k])
  BY DEF Rounded
<1> HIDE DEF k
<1> DEFINE g == Ten[k]
<1>6. k \in Nat /\ g \in Nat \ {0}
  BY <1>4, TenPositive
<1>7. g = 1 \/ d * g * Ten[Precision] <= 10 * n
  <2>1. CASE k = 0
    BY <2>1, TenStep
  <2>2. CASE k # 0
    <3>1. n >= d * Ten[k - 1 + Precision]
      BY <1>4, <2>2
    <3>2. Ten[k + Precision] = 10 * Ten[k - 1 + Precision]
      <4>1. k + Precision \in Nat /\ k + Precision # 0 /\ (k + Precision) - 1 = k - 1 + Precision
        BY <1>0, <1>6, <2>2
      <4> QED
        BY <4>1, TenStep
    <3>3. Ten[k + Precision] = g * Ten[Precision]
      BY <1>0, <1>6, TenSum
    <3>4. Ten[k - 1 + Precision] \in Nat /\ Ten[Precision] \in Nat
      BY <1>0, <1>6, <2>2, TenPositive
    <3> DEFINE t == Ten[k - 1 + Precision]
               c == Ten[Precision]
    <3> HIDE DEF t, c, g
    <3>5. d * g * c = d * (g * c) /\ d * (10 * t) = 10 * (d * t) /\ d * t \in Nat
      BY <1>6, <3>4, SMT DEF t, c
    <3>6. g * c = 10 * t
      BY <3>2, <3>3 DEF t, c
    <3>7. n >= d * t
      BY <3>1 DEF t
    <3>8. d * g * c = 10 * (d * t)
      BY <3>5, <3>6
    <3> QED
      BY <3>5, <3>7, <3>8 DEF c
  <2> QED
    BY <2>1, <2>2
<1> HIDE DEF g
<1>8. LET r == HalfEven(n, d, g)
      IN r \in Nat /\ 2 * (r * d - n) <= d * g /\ 2 * (n - r * d) <= d * g
  BY <1>6, HalfEvenIsNear
<1>9. Rounded(n, d) = HalfEven(n, d, g)
  BY <1>5 DEF g
<1> QED
  BY <1>6, <1>7, <1>8, <1>9

\* With two digits or more a result is off by less than half of a unit, or by a twentieth of
\* its value.
LEMMA RoundedIsClose ==
  ASSUME Ten[Precision] >= 100, NEW n \in Nat, NEW d \in Nat \ {0}
  PROVE  LET r == Rounded(n, d)
         IN /\ r \in Nat
            /\ \/ 2 * (r * d - n) <= d /\ 2 * (n - r * d) <= d
               \/ 20 * (r * d - n) <= n /\ 20 * (n - r * d) <= n
<1> DEFINE r == Rounded(n, d)
           c == Ten[Precision]
<1>1. PICK g \in Nat \ {0} : /\ 2 * (r * d - n) <= d * g
                             /\ 2 * (n - r * d) <= d * g
                             /\ g = 1 \/ d * g * c <= 10 * n
  BY RoundedIsNear
<1>2. r \in Nat
  BY RoundedIsNear
<1>3. c \in Nat /\ c >= 100
  BY RuntimeAssumption, TenPositive
<1> HIDE DEF r, c
<1>4. r * d \in Nat
  BY <1>2, SMT
<1>5. CASE g = 1
  <2>1. d * g = d
    BY <1>5
  <2> QED
    BY <1>1, <1>2, <2>1 DEF r
<1>6. CASE d * g * c <= 10 * n
  <2> DEFINE e == d * g
  <2>1. e \in Nat
    BY SMT
  <2>2. \A a \in Nat : a * 100 <= a * c
    BY <1>3, SMT
  <2>3. e * c \in Nat /\ e * c <= 10 * n
    <3>1. e * c <= 10 * n
      BY <1>6
    <3> HIDE DEF e
    <3> QED
      BY <1>3, <2>1, <3>1, SMT
  <2>4. 2 * (r * d - n) <= e /\ 2 * (n - r * d) <= e
    BY <1>1
  <2> HIDE DEF e
  <2>5. e * 100 <= 10 * n
    BY <2>1, <2>2, <2>3
  <2>6. 20 * (r * d - n) <= n /\ 20 * (n - r * d) <= n
    BY <1>4, <2>1, <2>4, <2>5
  <2> QED
    BY <1>2, <2>6 DEF r
<1> QED
  BY <1>1, <1>5, <1>6

\* What fewer steps cost at the same average is strictly less, rounded as well, as long as the
\* digits can count ten times the steps.
LEMMA FewerCostLess ==
  ASSUME NEW p \in Nat \ {0}, NEW a \in Nat \ {0}, NEW f \in Nat, f < p,
         10 * p < Ten[Precision]
  PROVE  /\ Rounded(f * a, 1) \in Nat /\ Rounded(p * a, 1) \in Nat
         /\ Rounded(f * a, 1) < Rounded(p * a, 1)
<1> DEFINE c == Ten[Precision]
           x == f * a
           b == p * a
           rx == Rounded(x, 1)
           rb == Rounded(b, 1)
<1>1. x \in Nat /\ b \in Nat /\ x + a <= b /\ c \in Nat \ {0}
  <2>1. x \in Nat /\ b \in Nat /\ x + a = (f + 1) * a /\ (f + 1) * a <= b
    BY SMT
  <2> QED
    BY <2>1, RuntimeAssumption, TenPositive
<1>2. ASSUME NEW n \in Nat, n <= b
      PROVE  /\ Rounded(n, 1) \in Nat
             /\ \/ Rounded(n, 1) = n
                \/ 2 * (Rounded(n, 1) - n) < a /\ 2 * (n - Rounded(n, 1)) < a
  <2> DEFINE r == Rounded(n, 1)
  <2>0. \A d \in Nat \ {0} :
          /\ Rounded(n, d) \in Nat
          /\ \E g \in Nat \ {0} :
               /\ 2 * (Rounded(n, d) * d - n) <= d * g
               /\ 2 * (n - Rounded(n, d) * d) <= d * g
               /\ g = 1 \/ d * g * c <= 10 * n
    BY RoundedIsNear
  <2>1. PICK g \in Nat \ {0} : /\ 2 * (r * 1 - n) <= 1 * g
                               /\ 2 * (n - r * 1) <= 1 * g
                               /\ g = 1 \/ 1 * g * c <= 10 * n
    <3>1. 1 \in Nat \ {0}
      OBVIOUS
    <3> HIDE DEF c
    <3> QED
      BY <2>0, <3>1, Zenon
  <2>2. r \in Nat
    <3>1. 1 \in Nat \ {0}
      OBVIOUS
    <3> HIDE DEF c
    <3> QED
      BY <2>0, <3>1, Zenon
  <2> HIDE DEF r, c, b
  <2>3. /\ 2 * (r - n) <= g /\ 2 * (n - r) <= g
        /\ g = 1 \/ g * c <= 10 * n
    BY <2>1, <2>2
  <2>4. CASE g = 1
    BY <2>2, <2>3, <2>4 DEF r
  <2>5. CASE g * c <= 10 * n
    <3>1. g * c \in Nat /\ 10 * n <= 10 * b
      BY <1>1, <1>2, SMT
    <3>2. 10 * b = (10 * p) * a /\ (10 * p) * a < c * a
      <4>1. 10 * p < c
        BY DEF c
      <4>2. 10 * (p * a) = (10 * p) * a
        BY SMT
      <4>3. \A m \in Nat : m < c => m * a < c * a
        BY <1>1, SMT
      <4> QED
        BY <4>1, <4>2, <4>3 DEF b
    <3>3. g * c < a * c
      <4>1. c * a \in Nat /\ a * c = c * a
        BY <1>1, SMT
      <4> QED
        BY <1>1, <1>2, <2>5, <3>1, <3>2, <4>1
    <3>4. g < a
      <4>1. \A m \in Nat : m >= a => m * c >= a * c
        BY <1>1, SMT
      <4> QED
        BY <1>1, <3>1, <3>3, <4>1
    <3> QED
      BY <2>2, <2>3, <3>4 DEF r
  <2> QED
    BY <2>3, <2>4, <2>5
<1>3. x <= b
  BY <1>1
<1> HIDE DEF x, b
<1>4. /\ rx \in Nat /\ rb \in Nat
      /\ rx = x \/ (2 * (rx - x) < a /\ 2 * (x - rx) < a)
      /\ rb = b \/ (2 * (rb - b) < a /\ 2 * (b - rb) < a)
  BY <1>1, <1>2, <1>3
<1> HIDE DEF rx, rb
<1>5. rx < rb
  BY <1>1, <1>4
<1> QED
  BY <1>4, <1>5 DEF rx, rb, x, b

-----------------------------------------------------------------------------
(* The type of the snapshot *)

\* What is held never exceeds the risk bucket, in steps, so the digits count ten times as far.
TInv == TypeOK /\ position <= Equity \div 4

\* More than one digit is at least two.
LEMMA DigitsFit ==
  Ten[Precision] > 10 => Ten[Precision] >= 100
<1> DEFINE c == Ten[Precision]
<1>0. Precision \in Nat
  BY RuntimeAssumption
<1>1. Ten[0] = 1
  BY TenStep
<1>2. Ten[1] = 10
  BY <1>1, TenStep
<1>3. CASE Precision >= 2
  <2>1. /\ Precision - 1 \in Nat /\ Precision - 1 # 0 /\ Precision # 0
        /\ (Precision - 1) - 1 = Precision - 2 /\ Precision - 2 \in Nat
    BY <1>0, <1>3
  <2>2. c = 10 * Ten[Precision - 1] /\ Ten[Precision - 1] = 10 * Ten[Precision - 2]
    BY <1>0, <2>1, TenStep
  <2>3. Ten[Precision - 2] \in Nat \ {0}
    BY <2>1, TenPositive
  <2> QED
    BY <2>2, <2>3
<1>4. CASE Precision = 0 \/ Precision = 1
  BY <1>1, <1>2, <1>4
<1> QED
  BY <1>0, <1>3, <1>4

\* What is held, and its tenfold, is within the digits.
LEMMA HoldingsFit ==
  ASSUME TInv
  PROVE  /\ Equity \div 4 \in Nat /\ position \in Nat
         /\ position > 0 => 10 * position < Ten[Precision] /\ Ten[Precision] >= 100
<1> DEFINE c == Ten[Precision]
<1>1. Equity \div 4 \in Nat
  <2>1. Equity \in Nat
    BY RuntimeAssumption
  <2> QED
    BY <2>1, SMT
<1>2. 10 * (Equity \div 4) < c /\ c \in Nat /\ Precision \in Nat
  BY RuntimeAssumption, PrecisionAssumption, TenPositive
<1>3. position \in Nat /\ position <= Equity \div 4
  BY DEF TInv, TypeOK
<1>4. 10 * position < c
  <2> DEFINE b == Equity \div 4
  <2> HIDE DEF b, c
  <2>1. b \in Nat /\ 10 * b < c /\ position <= b
    BY <1>1, <1>2, <1>3 DEF b
  <2> QED
    BY <1>2, <1>3, <2>1
<1>5. c > 10 => c >= 100
  BY DigitsFit
<1> QED
  BY <1>1, <1>2, <1>3, <1>4, <1>5

\* A verified snapshot has a cost of about what is held at its average, so at least nineteen
\* twentieths of a unit for each step.
LEMMA CostCoversSteps ==
  ASSUME TInv, SnapshotVerifies
  PROVE  cost \in Nat /\ 19 * position <= 20 * cost
<1>1. cost \in Nat /\ position \in Nat /\ average \in Nat
  BY DEF TInv, TypeOK
<1>2. CASE position = 0
  BY <1>1, <1>2
<1>3. CASE position > 0
  <2> DEFINE n == position * average
  <2>1. average \in Nat \ {0} /\ cost = Rounded(n, 1) /\ Ten[Precision] >= 100
    BY <1>1, <1>3, HoldingsFit DEF SnapshotVerifies
  <2>2. n \in Nat /\ position <= n
    BY <1>1, <2>1, SMT
  <2> HIDE DEF n
  <2>3. LET r == Rounded(n, 1)
        IN \/ 2 * (r * 1 - n) <= 1 /\ 2 * (n - r * 1) <= 1
           \/ 20 * (r * 1 - n) <= n /\ 20 * (n - r * 1) <= n
    <3>1. 1 \in Nat \ {0}
      OBVIOUS
    <3> QED
      BY <2>1, <2>2, <3>1, RoundedIsClose
  <2>4. \/ 2 * (cost - n) <= 1 /\ 2 * (n - cost) <= 1
        \/ 20 * (n - cost) <= n
    BY <1>1, <2>1, <2>2, <2>3
  <2> QED
    BY <1>1, <2>2, <2>4
<1> QED
  BY <1>1, <1>2, <1>3

\* A purchase leaves a cost and an average for what is then held, also one of no steps.
LEMMA PurchasesKeepCost ==
  ASSUME Ten[Precision] >= 100, NEW held \in Nat \ {0}, NEW n \in Nat, 19 * held <= 20 * n
  PROVE  /\ Rounded(n, 1) \in Nat \ {0}
         /\ Rounded(Rounded(n, 1), held) \in Nat \ {0}
<1> DEFINE after == Rounded(n, 1)
           avg == Rounded(after, held)
<1>0. 1 \in Nat \ {0}
  OBVIOUS
<1>1. /\ after \in Nat
      /\ \/ 2 * (after * 1 - n) <= 1 /\ 2 * (n - after * 1) <= 1
         \/ 20 * (after * 1 - n) <= n /\ 20 * (n - after * 1) <= n
  BY <1>0, RoundedIsClose
<1> HIDE DEF after
<1>2. 19 * n <= 20 * after
  BY <1>1
<1>3. /\ avg \in Nat
      /\ \/ 2 * (avg * held - after) <= held /\ 2 * (after - avg * held) <= held
         \/ 20 * (avg * held - after) <= after /\ 20 * (after - avg * held) <= after
  BY <1>1, RoundedIsClose
<1> HIDE DEF avg
<1>4. after > 0 /\ 2 * after > held
  BY <1>1, <1>2
<1>5. avg # 0
  <2> SUFFICES ASSUME avg = 0 PROVE FALSE
    OBVIOUS
  <2>1. avg * held = 0
    OBVIOUS
  <2> QED
    BY <1>1, <1>3, <1>4, <2>1
<1> QED
  BY <1>1, <1>3, <1>4, <1>5 DEF after, avg

\* A sale that leaves something leaves a cost.
LEMMA SalesLeaveCost ==
  ASSUME TInv, SnapshotVerifies, NEW f \in Nat, f < position
  PROVE  Rounded(cost - Rounded(f * average, 1), 1) \in Nat \ {0}
<1>1. /\ position \in Nat \ {0} /\ average \in Nat \ {0} /\ cost = Rounded(position * average, 1)
      /\ 10 * position < Ten[Precision] /\ Ten[Precision] >= 100
  <2>1. position \in Nat /\ average \in Nat /\ position > 0
    BY DEF TInv, TypeOK
  <2> QED
    BY <2>1, HoldingsFit DEF SnapshotVerifies
<1> DEFINE n == cost - Rounded(f * average, 1)
<1>2. n \in Nat \ {0}
  <2> DEFINE x == Rounded(f * average, 1)
             y == Rounded(position * average, 1)
  <2>1. x \in Nat /\ y \in Nat /\ x < y
    BY <1>1, FewerCostLess
  <2>2. n = y - x
    BY <1>1
  <2> HIDE DEF x, y
  <2> QED
    BY <2>1, <2>2
<1> HIDE DEF n
<1>3. 19 * 1 <= 20 * n /\ 1 \in Nat \ {0}
  BY <1>2
<1>4. Rounded(n, 1) \in Nat \ {0}
  BY <1>1, <1>2, <1>3, PurchasesKeepCost
<1> QED
  BY <1>4 DEF n

\* A slot keeps the type of the snapshot.
LEMMA SlotKeepsType ==
  ASSUME RInv, TInv, NEW bid \in Bids, NEW target \in Targets \cup {Hold},
         NEW scenario \in Scenarios, RunSlot(bid, target, scenario)
  PROVE  TInv'
<1> DEFINE approved == Approved(bid, target)
           side == Side(bid, approved)
           q == Submitted(bid, approved, side)
           filled == Filled(scenario, q)
           price == ExecutionPrice(bid, side)
           state == OrderEnd(scenario, q)
<1>0. RInv' /\ StaysApproved
  BY SlotStep
<1>1. /\ filled \in Nat /\ side \in {"BUY", "SELL", "NONE"}
      /\ side = "NONE" => filled = 0
      /\ side = "SELL" => filled <= position
  BY FillsAreAffordable
<1>2. /\ cash \in Nat /\ position \in Nat /\ cost \in Nat /\ average \in Nat
      /\ slots \in 0..MaxSlots /\ MaxSlots \in Nat
  BY RuntimeAssumption DEF TInv, TypeOK
<1>3. bid \in Nat \ {0} /\ Spread \in Nat
      /\ BuyPrice(bid + Spread) \in Nat \ {0} /\ SellPrice(bid) \in Nat
  BY PricesFit
<1>4. bundle' = [bid |-> bid, target |-> target] /\ slots < MaxSlots
  BY DEF RunSlot
<1>5. bundle' \in [bid : Bids \cup {0}, target : Targets \cup {Hold}]
  BY <1>4
<1>6. CASE \E reason \in Outcomes : Refuse(reason)
  <2>1. UNCHANGED <<cash, position, cost, average, peak, locked, active, slots>>
        /\ outcome' \in Outcomes
    BY <1>6 DEF Refuse, snapshot
  <2> QED
    BY <1>5, <2>1 DEF TInv, TypeOK
<1>7. CASE /\ SnapshotVerifies /\ Book(bid, side, filled, state)
           /\ slots' = slots + 1 /\ outcome' = "COMPLETED"
  <2> DEFINE sold == side = "SELL"
             arg == IF sold THEN cost - Rounded(filled * average, 1)
                            ELSE cost + filled * price * Scale
  <2>1. /\ position' = IF sold THEN position - filled ELSE position + filled
        /\ cost' = IF position' = 0 THEN 0 ELSE Rounded(arg, 1)
        /\ average' = AverageAfter(sold, Rounded(arg, 1), position')
    <3>1. (IF sold THEN Rounded(cost - Rounded(filled * average, 1), 1)
                   ELSE Rounded(cost + filled * price * Scale, 1)) = Rounded(arg, 1)
      OBVIOUS
    <3> QED
      BY <1>7, <3>1 DEF Book
  <2>2. /\ cash' \in Nat /\ position' \in Nat /\ peak' \in Int /\ Equity * Unit <= peak'
        /\ locked' \in BOOLEAN /\ active' \in BOOLEAN
    BY <1>0 DEF RInv
  <2>3. peak' \in Nat \ {0}
    <3>1. Equity * Unit \in Nat \ {0}
      BY RuntimeAssumption DEF Unit
    <3> QED
      BY <2>2, <3>1
  <2>4. position' <= Equity \div 4
    <3>1. CASE position' <= position
      BY <1>2, <2>2, <3>1, HoldingsFit DEF TInv
    <3>2. CASE position' > position
      <4> DEFINE bought == position' - position
      <4>1. position * (bid + Spread) + bought * BuyPrice(bid + Spread) <= target
        BY <1>0, <1>4, <3>2 DEF StaysApproved
      <4>2. bought \in Nat /\ position + bought = position'
        <5>1. \A a, b \in Nat : b > a => b - a \in Nat /\ a + (b - a) = b
          OBVIOUS
        <5>2. position \in Nat /\ position' \in Nat
          BY <1>2, <2>2
        <5> QED
          BY <3>2, <5>1, <5>2
      <4>3. \A x, y \in Nat : x <= x * (y + 1)
        BY SMT
      <4>4. /\ position <= position * (bid + Spread)
            /\ bought <= bought * BuyPrice(bid + Spread)
        <5>1. (bid + Spread) - 1 \in Nat /\ ((bid + Spread) - 1) + 1 = bid + Spread
          BY <1>3
        <5>2. BuyPrice(bid + Spread) - 1 \in Nat
              /\ (BuyPrice(bid + Spread) - 1) + 1 = BuyPrice(bid + Spread)
          BY <1>3
        <5> HIDE DEF bought
        <5>3. position <= position * (((bid + Spread) - 1) + 1)
          BY <1>2, <4>3, <5>1
        <5>4. bought <= bought * ((BuyPrice(bid + Spread) - 1) + 1)
          BY <4>2, <4>3, <5>2
        <5> QED
          BY <5>1, <5>2, <5>3, <5>4
      <4>5. target \in 0..(Equity \div 4)
        BY RuntimeAssumption, HoldingsFit DEF Hold
      <4> DEFINE x == position * (bid + Spread)
                 y == bought * BuyPrice(bid + Spread)
      <4>6. x \in Nat /\ y \in Nat
        BY <1>2, <1>3, <4>2, SMT
      <4> HIDE DEF x, y, bought
      <4>7. x + y <= target /\ position <= x /\ bought <= y
        BY <4>1, <4>4 DEF x, y
      <4> QED
        BY <1>2, <4>2, <4>5, <4>6, <4>7, HoldingsFit
    <3> QED
      BY <1>2, <2>2, <3>1, <3>2
  <2>5. CASE position' = 0
    <3>1. cost' = 0 /\ average' = 0
      BY <2>1, <2>5 DEF AverageAfter
    <3> QED
      BY <1>2, <1>4, <1>5, <1>7, <2>2, <2>3, <2>4, <2>5, <3>1 DEF TInv, TypeOK, Outcomes
  <2>6. CASE position' # 0
    <3>1. cost' \in Nat \ {0} /\ average' \in Nat \ {0}
      <4>1. CASE sold
        <5>1. filled < position
          BY <1>1, <1>2, <2>1, <2>6, <4>1
        <5>2. average' = average /\ cost' = Rounded(cost - Rounded(filled * average, 1), 1)
          BY <2>1, <2>6, <4>1 DEF AverageAfter
        <5>3. average # 0
          BY <1>1, <1>2, <5>1 DEF TInv, TypeOK
        <5>4. Rounded(cost - Rounded(filled * average, 1), 1) \in Nat \ {0}
          <6> HIDE DEF filled
          <6> QED
            BY <1>1, <1>7, <5>1, SalesLeaveCost
        <5> QED
          BY <1>2, <5>2, <5>3, <5>4
      <4>2. CASE ~sold
        <5> DEFINE n == cost + filled * price * Scale
        <5>1. position' = position + filled /\ average' = Rounded(Rounded(n, 1), position')
              /\ cost' = Rounded(n, 1)
          BY <2>1, <2>6, <4>2 DEF AverageAfter
        <5>2. price \in Nat /\ (filled > 0 => price \in Nat \ {0})
          BY <1>1, <1>3, <4>2 DEF ExecutionPrice
        <5>3. filled * price * Scale \in Nat /\ filled <= filled * price * Scale
          <6>1. CASE filled = 0
            BY <5>2, <6>1 DEF Scale
          <6>2. CASE filled > 0
            <7>1. \A x \in Nat, y \in Nat \ {0} : x <= x * y /\ x * y \in Nat
              BY SMT
            <7> QED
              BY <1>1, <5>2, <6>2, <7>1 DEF Scale
          <6> QED
            BY <1>1, <6>1, <6>2
        <5>4. 19 * position <= 20 * cost
          BY <1>7, CostCoversSteps
        <5>5. n \in Nat /\ 19 * position' <= 20 * n
          <6> DEFINE paid == filled * price * Scale
          <6> HIDE DEF paid
          <6>1. paid \in Nat /\ filled <= paid /\ n = cost + paid
            BY <5>3 DEF paid
          <6> QED
            BY <1>1, <1>2, <5>1, <5>4, <6>1
        <5>6. Ten[Precision] >= 100
          <6>1. Equity \div 4 > 0
            BY <2>2, <2>4, <2>6, HoldingsFit
          <6>2. 10 * (Equity \div 4) < Ten[Precision]
            BY PrecisionAssumption
          <6>3. Ten[Precision] \in Nat /\ Equity \div 4 \in Nat
            BY RuntimeAssumption, TenPositive, HoldingsFit
          <6> DEFINE bucket == Equity \div 4
          <6> HIDE DEF bucket
          <6>4. bucket \in Nat /\ bucket > 0 /\ 10 * bucket < Ten[Precision]
            BY <6>1, <6>2, <6>3 DEF bucket
          <6> QED
            BY <6>3, <6>4, DigitsFit
        <5> HIDE DEF n
        <5> QED
          BY <2>2, <2>6, <5>1, <5>5, <5>6, PurchasesKeepCost
      <4> QED
        BY <4>1, <4>2
    <3> QED
      BY <1>2, <1>4, <1>5, <1>7, <2>2, <2>3, <2>4, <2>6, <3>1 DEF TInv, TypeOK, Outcomes
  <2> QED
    BY <2>5, <2>6
<1>8. {"SNAPSHOT_INVALID", "ACTIVE_ORDER_RECONCILIATION_REQUIRED",
       "SCENARIO_NOT_EXECUTABLE", "LEDGER_NEGATIVE_BALANCE"} \subseteq Outcomes
  BY DEF Outcomes
<1> QED
  BY <1>6, <1>7, <1>8 DEF RunSlot

\* The snapshot keeps its type: cash, cost and average are never negative, and a cost basis
\* and an average entry price are there exactly while something is held, in spite of the
\* rounding of every sum and quotient.
THEOREM TypeCorrectness == Spec => []TypeOK
<1>1. Init => TInv
  <2> SUFFICES ASSUME Init PROVE TInv
    OBVIOUS
  <2>1. Equity * Unit \in Nat \ {0} /\ MaxSlots \in Nat
    BY RuntimeAssumption DEF Unit
  <2>2. 0 <= Equity \div 4
    <3>1. Equity \in Nat
      BY RuntimeAssumption
    <3> QED
      BY <3>1, SMT
  <2>3. position <= Equity \div 4
    BY <2>2 DEF Init
  <2>4. TypeOK
    <3> DEFINE start == Equity * Unit
    <3>1. cash = start /\ peak = start /\ start \in Nat \ {0}
      BY <2>1 DEF Init
    <3> HIDE DEF start
    <3>2. bundle \in [bid : Bids \cup {0}, target : Targets \cup {Hold}]
      BY DEF Init
    <3>3. position = 0 /\ cost = 0 /\ average = 0 /\ slots = 0
      BY DEF Init
    <3>4. locked = FALSE /\ active = FALSE /\ outcome = "COMPLETED"
      BY DEF Init
    <3>5. slots \in 0..MaxSlots
      BY <2>1, <3>3
    <3> QED
      BY <3>1, <3>2, <3>3, <3>4, <3>5 DEF TypeOK, Outcomes
  <2> QED
    BY <2>3, <2>4 DEF TInv
<1>2. RInv /\ TInv /\ [Next]_vars => TInv'
  <2>1. RInv /\ TInv /\ Next => TInv'
    BY SlotKeepsType DEF Next
  <2>2. TInv /\ UNCHANGED vars => TInv'
    BY DEF vars, TInv, TypeOK
  <2> QED
    BY <2>1, <2>2
<1>3. TInv => TypeOK
  BY DEF TInv
<1> QED
  BY <1>1, <1>2, <1>3, RInvHolds, PTL DEF Spec

=============================================================================
