--------------------------- MODULE RoundTripProofs ---------------------------
(***************************************************************************)
(* The properties of RoundTrip for every scale, rate, ask, bid and amount. *)
(***************************************************************************)
EXTENDS RoundTrip, PaperMoneyProofs

\* What was bought, and what it cost, do not change: they are functions of the
\* ask and the capital, and both of those stay.
Entry ==
  /\ ask \in Asks /\ capital \in Amounts
  /\ Price \in Nat \ {0} /\ Price >= ask
  /\ Bought \in Nat
  /\ EntryGross(Price, Bought) \in Nat
  /\ EntryFees(Price, Bought) \in Nat
  /\ Spent = EntryGross(Price, Bought) + EntryFees(Price, Bought)

\* What sales brought in is bounded by the ask of the contracts that were sold.
IncomeBounded ==
  income * UnitsPerCent <= ask * (Bought - held)

BasisInv ==
  /\ held > 0 => BasisIsPathIndependent
  /\ held = 0 => gross = 0 /\ fees = 0

IInv == TypeOK /\ Entry /\ IncomeBounded /\ BasisInv

-----------------------------------------------------------------------------
LEMMA EntryHolds ==
  ASSUME ask \in Asks, capital \in Amounts
  PROVE  Entry
<1>1. ask \in Nat \ {0} /\ capital \in Nat
  BY CaseAssumption, OneType
<1>2. Price \in Nat \ {0} /\ Price >= ask
  BY <1>1, EntryPriceType DEF Price
<1>3. Bought \in Nat
  BY <1>1, <1>2, FillIsLargest DEF Bought
<1>4. /\ EntryGross(Price, Bought) \in Nat
      /\ EntryFees(Price, Bought) \in Nat
  BY <1>2, <1>3, EntryType
<1> QED
  BY <1>2, <1>3, <1>4 DEF Entry, Spent, EntryTotal

\* A fill costs at least the ask for each contract.
LEMMA SpentCoversAsk ==
  ASSUME Entry, ask \in Nat
  PROVE  ask * Bought <= Spent * UnitsPerCent
<1> DEFINE total == EntryGross(Price, Bought)
<1>1. Bought \in Nat /\ Price \in Nat /\ ask <= Price
  BY DEF Entry
<1>2. total \in Nat /\ Spent \in Nat /\ total <= Spent /\ total * UnitsPerCent >= Price * Bought
  <2>1. total * UnitsPerCent >= Price * Bought
    BY <1>1, EntryType
  <2>2. total \in Nat /\ EntryFees(Price, Bought) \in Nat
        /\ Spent = total + EntryFees(Price, Bought)
    BY DEF Entry
  <2> HIDE DEF total
  <2> QED
    BY <2>1, <2>2
<1>3. ask * Bought <= Price * Bought
  BY <1>1, ProductMonotone
<1>4. total * UnitsPerCent <= Spent * UnitsPerCent
  BY <1>2, ScaleAssumption, ProductMonotone
<1> HIDE DEF total
<1>5. /\ ask * Bought \in Int /\ Price * Bought \in Int
      /\ total * UnitsPerCent \in Int /\ Spent * UnitsPerCent \in Int
  BY <1>1, <1>2, ScaleAssumption
<1> QED
  BY <1>2, <1>3, <1>4, <1>5

\* A fill that buys anything costs something.
LEMMA SomethingCostsSomething ==
  ASSUME Entry, ask \in Nat \ {0}, Bought > 0
  PROVE  EntryGross(Price, Bought) > 0
<1>1. Price \in Nat \ {0} /\ Bought \in Nat \ {0} /\ EntryGross(Price, Bought) \in Nat
  BY DEF Entry
<1>2. EntryGross(Price, Bought) * UnitsPerCent >= Price * Bought
  BY <1>1, EntryType
<1>3. Price * Bought > 0
  BY <1>1
<1> QED
  BY <1>1, <1>2, <1>3, ScaleAssumption

LEMMA InitInv == Init => IInv
<1> SUFFICES ASSUME Init PROVE IInv
  OBVIOUS
<1>1. ask \in Asks /\ capital \in Amounts /\ ask \in Nat
  BY CaseAssumption, OneType DEF Init
<1>2. Entry
  BY <1>1, EntryHolds
<1>3. TypeOK
  BY <1>1, <1>2 DEF Init, TypeOK, Entry
<1>4. IncomeBounded
  <2>1. Bought - held = 0 /\ income = 0
    BY <1>2 DEF Init, Entry
  <2> QED
    BY <2>1, <1>1, ScaleAssumption DEF IncomeBounded
<1>5. BasisInv
  <2>1. CASE Bought = 0
    <3>1. EntryGross(Price, 0) = 0 /\ EntryFees(Price, 0) = 0
      <4>1. Price * 0 = 0 /\ CeilDiv(0, UnitsPerCent) = 0 /\ CeilDiv(0, BpsScale) = 0
        BY <1>2, ScaleAssumption DEF Entry, CeilDiv
      <4>2. EntryGross(Price, 0) = 0
        BY <4>1 DEF EntryGross, CeilCents
      <4>3. 0 * EntryFeeBps = 0
        BY RateAssumption, ScaleAssumption
      <4> QED
        BY <4>1, <4>2, <4>3 DEF EntryFees, Fee
    <3> QED
      BY <2>1, <3>1 DEF Init, BasisInv
  <2>2. CASE Bought # 0
    <3>1. Bought \in Nat \ {0} /\ Bought - held = 0 /\ held > 0
      BY <1>2, <2>2 DEF Init, Entry
    <3>2. /\ Allocation(EntryGross(Price, Bought), 0, Bought) = 0
          /\ Allocation(EntryFees(Price, Bought), 0, Bought) = 0
      BY <3>1, <1>2, AllocationStart DEF Entry
    <3> QED
      BY <3>1, <3>2, <1>2 DEF Init, BasisInv, BasisIsPathIndependent, Entry
  <2> QED
    BY <2>1, <2>2
<1> QED
  BY <1>2, <1>3, <1>4, <1>5 DEF IInv

LEMMA SellInv ==
  ASSUME IInv, NEW bid \in Bids, NEW quantity \in 1..held, Sell(bid, quantity)
  PROVE  IInv'
<1>1. /\ TypeOK /\ Entry /\ IncomeBounded /\ BasisInv
      /\ bid \in Nat /\ bid <= ask /\ ask \in Nat \ {0}
      /\ held \in 1..Bought /\ quantity \in 1..held /\ Bought \in Nat \ {0}
  BY CaseAssumption, OneType DEF IInv, TypeOK, Sell, Entry
<1>2. ask' = ask /\ capital' = capital
  BY DEF Sell
<1>3. /\ Price' = Price /\ Bought' = Bought /\ Spent' = Spent
      /\ EntryGross(Price, Bought)' = EntryGross(Price, Bought)
      /\ EntryFees(Price, Bought)' = EntryFees(Price, Bought)
  BY <1>2 DEF Price, Bought, Spent
<1>4. Entry'
  BY <1>1, <1>2, <1>3 DEF Entry
<1>5. held' = held - quantity /\ held' \in 0..(Bought - 1)
  BY <1>1 DEF Sell
<1> DEFINE G == EntryGross(Price, Bought)
           F == EntryFees(Price, Bought)
           before == Bought - held
           after == Bought - held + quantity
<1>6. G \in Nat /\ F \in Nat /\ before \in 0..Bought /\ after \in 1..Bought /\ before \in 0..after
  BY <1>1 DEF Entry
<1>7. /\ gross = G - Allocation(G, before, Bought)
      /\ fees = F - Allocation(F, before, Bought)
  BY <1>1 DEF BasisInv, BasisIsPathIndependent
<1>8. /\ gross' = G - Allocation(G, after, Bought)
      /\ fees' = F - Allocation(F, after, Bought)
  <2>1. /\ Allocation(G, before, Bought) \in 0..G /\ Allocation(G, after, Bought) \in 0..G
        /\ Allocation(F, before, Bought) \in 0..F /\ Allocation(F, after, Bought) \in 0..F
    BY <1>1, <1>6, AllocationBounds, SMTT(30)
  <2>2. CASE quantity = held
    <3>1. after = Bought
      BY <1>1, <2>2
    <3>2. gross' = gross - gross /\ fees' = fees - fees
      BY <2>2 DEF Sell, Released
    <3>3. Allocation(G, after, Bought) = G /\ Allocation(F, after, Bought) = F
      BY <3>1 DEF Allocation
    <3> HIDE DEF G, F, before, after
    <3> QED
      BY <3>2, <3>3, <2>1, <1>6, <1>7
  <2>3. CASE quantity # held
    <3>1. /\ gross' = gross - (Allocation(G, after, Bought) - Allocation(G, before, Bought))
          /\ fees' = fees - (Allocation(F, after, Bought) - Allocation(F, before, Bought))
      BY <2>3 DEF Sell, Released
    <3> HIDE DEF G, F, before, after
    <3> QED
      BY <3>1, <2>1, <1>6, <1>7
  <2> QED
    BY <2>2, <2>3
<1>9. gross' \in Nat /\ fees' \in Nat
  <2>1. Allocation(G, after, Bought) \in 0..G /\ Allocation(F, after, Bought) \in 0..F
    BY <1>1, <1>6, AllocationBounds, SMTT(30)
  <2> HIDE DEF G, F, after
  <2> QED
    BY <1>6, <1>8, <2>1
<1>10. /\ SaleProceeds(bid, quantity) \in Nat
       /\ SaleProceeds(bid, quantity) * UnitsPerCent <= bid * quantity
       /\ income' = income + SaleProceeds(bid, quantity)
  BY <1>1, SaleBounds DEF Sell
<1>11. TypeOK'
  BY <1>1, <1>2, <1>3, <1>5, <1>9, <1>10 DEF TypeOK
<1>12. IncomeBounded'
  <2> DEFINE sale == SaleProceeds(bid, quantity)
  <2>1. income * UnitsPerCent <= ask * before
    BY <1>1 DEF IncomeBounded
  <2>2. bid * quantity <= ask * quantity
    BY <1>1, ProductMonotone
  <2>3. sale \in Nat /\ sale * UnitsPerCent <= bid * quantity /\ income \in Nat
    BY <1>1, <1>10 DEF TypeOK
  <2>4. after = Bought' - held'
    BY <1>1, <1>3, <1>5
  <2> HIDE DEF sale
  <2>5. (income + sale) * UnitsPerCent <= ask * before + ask * quantity
    BY <1>1, <1>6, <2>1, <2>2, <2>3, ScaleAssumption
  <2>6. ask * before + ask * quantity = ask * after
    BY <1>1, <1>6
  <2> QED
    BY <1>2, <1>10, <2>4, <2>5, <2>6 DEF IncomeBounded, sale
<1>13. BasisInv'
  <2>1. after = Bought - held'
    BY <1>1, <1>5
  <2>2. held' > 0 => BasisIsPathIndependent'
    BY <1>3, <1>8, <2>1 DEF BasisIsPathIndependent
  <2>3. ASSUME held' = 0 PROVE gross' = 0 /\ fees' = 0
    BY <1>1, <1>5, <1>6, <1>8, <2>1, <2>3 DEF Allocation
  <2> QED
    BY <2>2, <2>3 DEF BasisInv
<1> QED
  BY <1>4, <1>11, <1>12, <1>13 DEF IInv

LEMMA NextInv == IInv /\ [Next]_vars => IInv'
<1> SUFFICES ASSUME IInv, [Next]_vars PROVE IInv'
  OBVIOUS
<1>1. CASE Next
  BY <1>1, SellInv DEF Next
<1>2. CASE UNCHANGED vars
  BY <1>2 DEF vars, IInv, TypeOK, Entry, IncomeBounded, BasisInv, BasisIsPathIndependent,
              Price, Bought, Spent
<1> QED
  BY <1>1, <1>2

LEMMA Invariance == Spec => []IInv
BY InitInv, NextInv, PTL DEF Spec

-----------------------------------------------------------------------------
\* For every scale, rate, ask and capital, the execution engine's downward
\* search returns the largest affordable fill.
THEOREM FillTheorem == Spec => []FillIsLargestAffordable
<1>1. IInv => FillIsLargestAffordable
  <2> SUFFICES ASSUME IInv PROVE FillIsLargestAffordable
    OBVIOUS
  <2>1. Price \in Nat \ {0} /\ capital \in Nat /\ Bought \in Nat
    BY CaseAssumption DEF IInv, Entry
  <2>2. /\ Bought > 0 => Spent <= capital
        /\ \A quantity \in Nat :
             quantity > Bought => EntryTotal(Price, quantity) > capital
    BY <2>1, FillIsLargest DEF Bought, Spent
  <2>3. capital * UnitsPerCent + 1 \in Nat
    BY <2>1, ScaleAssumption
  <2> QED
    BY <2>1, <2>2, <2>3 DEF FillIsLargestAffordable
<1> QED
  BY <1>1, Invariance, PTL

\* No round trip at bids up to the ask ever turns a profit.
THEOREM NoProfitTheorem == Spec => []RoundTripNeverProfits
<1>1. IInv => RoundTripNeverProfits
  <2> SUFFICES ASSUME IInv PROVE RoundTripNeverProfits
    OBVIOUS
  <2>1. /\ Entry /\ ask \in Nat /\ income \in Nat /\ held \in 0..Bought
        /\ Bought \in Nat /\ Spent \in Nat
        /\ income * UnitsPerCent <= ask * (Bought - held)
    BY CaseAssumption, OneType DEF IInv, TypeOK, Entry, IncomeBounded
  <2>2. ask * Bought <= Spent * UnitsPerCent
    BY <2>1, SpentCoversAsk
  <2>3. ask * (Bought - held) <= ask * Bought
    BY <2>1
  <2>4. income * UnitsPerCent <= Spent * UnitsPerCent
    BY <2>1, <2>2, <2>3, ScaleAssumption
  <2>5. income <= Spent
    BY <2>1, <2>4, ScaleAssumption
  <2> QED
    BY <2>5 DEF RoundTripNeverProfits
<1> QED
  BY <1>1, Invariance, PTL

\* The basis that is left depends only on how much of the position is left, and
\* it is there exactly as long as the position is.
THEOREM BasisTheorem == Spec => [](BasisIsPathIndependent /\ BasisLastsAsLongAsThePosition)
<1>1. IInv => BasisIsPathIndependent /\ BasisLastsAsLongAsThePosition
  <2> SUFFICES ASSUME IInv PROVE BasisIsPathIndependent /\ BasisLastsAsLongAsThePosition
    OBVIOUS
  <2>1. /\ Entry /\ BasisInv /\ ask \in Nat \ {0}
        /\ gross \in Nat /\ fees \in Nat /\ Bought \in Nat /\ held \in 0..Bought
    BY CaseAssumption, OneType DEF IInv, TypeOK, Entry
  <2>2. BasisIsPathIndependent
    BY <2>1 DEF BasisInv, BasisIsPathIndependent
  <2>3. CASE held = 0
    BY <2>1, <2>2, <2>3 DEF BasisInv, BasisLastsAsLongAsThePosition
  <2>4. CASE held > 0
    <3> DEFINE G == EntryGross(Price, Bought)
    <3>1. G \in Nat /\ G > 0 /\ Bought \in Nat \ {0}
      BY <2>1, <2>4, SomethingCostsSomething DEF Entry
    <3>2. Bought - held \in 0..Bought /\ Bought - held < Bought
      BY <2>1, <2>4
    <3>3. gross = G - Allocation(G, Bought - held, Bought)
      BY <2>2, <2>4 DEF BasisIsPathIndependent
    <3> HIDE DEF G
    <3>4. Allocation(G, Bought - held, Bought) \in 0..G /\ Allocation(G, Bought - held, Bought) < G
      BY <3>1, <3>2, AllocationBounds
    <3>5. gross > 0
      BY <3>1, <3>3, <3>4
    <3> QED
      BY <2>1, <2>2, <2>4, <3>5 DEF BasisLastsAsLongAsThePosition
  <2> QED
    BY <2>1, <2>2, <2>3, <2>4
<1> QED
  BY <1>1, Invariance, PTL
=============================================================================
