-------------------------- MODULE PaperMoneyProofs --------------------------
(***************************************************************************)
(* What the rounding operators of PaperMoney guarantee for all amounts.    *)
(***************************************************************************)
EXTENDS PaperMoney, NaturalInduction

LEMMA ProductMonotone ==
  ASSUME NEW a \in Int, NEW b \in Int, NEW c \in Nat, a <= b
  PROVE  a * c <= b * c
OBVIOUS

LEMMA DivBounds ==
  ASSUME NEW a \in Int, NEW b \in Nat \ {0}
  PROVE  /\ a \div b \in Int
         /\ (a \div b) * b <= a
         /\ a < (a \div b) * b + b
OBVIOUS

\* A floor of a nonnegative amount.
LEMMA FloorBounds ==
  ASSUME NEW a \in Nat, NEW b \in Nat \ {0}
  PROVE  /\ a \div b \in Nat
         /\ (a \div b) * b <= a
OBVIOUS

LEMMA CeilBounds ==
  ASSUME NEW a \in Nat, NEW b \in Nat \ {0}
  PROVE  /\ CeilDiv(a, b) \in Nat
         /\ CeilDiv(a, b) * b >= a
         /\ CeilDiv(a, b) * b < a + b
BY DEF CeilDiv

LEMMA OneType == One \in Nat
BY ScaleAssumption DEF One

LEMMA SlippageType ==
  ASSUME NEW bps \in 0..BpsScale
  PROVE  Slippage(bps) \in Nat
<1>1. bps * One \in Nat
  BY ScaleAssumption, OneType
<1> QED
  BY <1>1, ScaleAssumption, CeilBounds DEF Slippage

\* A fee never exceeds what it is charged on.
LEMMA FeeBounds ==
  ASSUME NEW cents \in Nat, NEW bps \in 0..BpsScale
  PROVE  Fee(cents, bps) \in 0..cents
<1> DEFINE fee == CeilDiv(cents * bps, BpsScale)
<1>1. cents * bps \in Nat /\ cents * bps <= cents * BpsScale
  BY ScaleAssumption
<1>2. fee \in Nat /\ fee * BpsScale < cents * bps + BpsScale
  BY <1>1, ScaleAssumption, CeilBounds
<1>3. fee * BpsScale < (cents + 1) * BpsScale
  BY <1>1, <1>2, ScaleAssumption
<1>4. fee < cents + 1
  BY <1>2, <1>3, ScaleAssumption
<1> QED
  BY <1>2, <1>4 DEF Fee

\* The fee on a larger amount is no smaller.
LEMMA FeeMonotone ==
  ASSUME NEW low \in Nat, NEW high \in Nat, low <= high, NEW bps \in 0..BpsScale
  PROVE  Fee(low, bps) <= Fee(high, bps)
<1> DEFINE l == CeilDiv(low * bps, BpsScale)
           h == CeilDiv(high * bps, BpsScale)
<1>1. low * bps \in Nat /\ high * bps \in Nat /\ low * bps <= high * bps
  BY ScaleAssumption
<1>2. /\ l \in Nat /\ l * BpsScale < low * bps + BpsScale
      /\ h \in Nat /\ h * BpsScale >= high * bps
  BY <1>1, ScaleAssumption, CeilBounds
<1>3. l * BpsScale < (h + 1) * BpsScale
  BY <1>1, <1>2, ScaleAssumption
<1>4. l < h + 1
  BY <1>2, <1>3, ScaleAssumption
<1> QED
  BY <1>2, <1>4 DEF Fee

-----------------------------------------------------------------------------
(* Entry.                                                                  *)

LEMMA EntryType ==
  ASSUME NEW price \in Nat, NEW quantity \in Nat
  PROVE  /\ EntryGross(price, quantity) \in Nat
         /\ EntryFees(price, quantity) \in Nat
         /\ EntryTotal(price, quantity) \in Nat
         /\ EntryGross(price, quantity) * UnitsPerCent >= price * quantity
         /\ EntryTotal(price, quantity) >= EntryGross(price, quantity)
<1>1. price * quantity \in Nat
  OBVIOUS
<1>2. /\ EntryGross(price, quantity) \in Nat
      /\ EntryGross(price, quantity) * UnitsPerCent >= price * quantity
  BY <1>1, ScaleAssumption, CeilBounds DEF EntryGross, CeilCents
<1>3. EntryFees(price, quantity) \in Nat
  BY <1>2, RateAssumption, FeeBounds DEF EntryFees
<1> QED
  BY <1>2, <1>3 DEF EntryTotal

LEMMA RequestedType ==
  ASSUME NEW price \in Nat \ {0}, NEW capital \in Nat
  PROVE  /\ RequestedQuantity(price, capital) \in Nat
         /\ price * (BpsScale + EntryFeeBps) \in Nat \ {0}
         /\ capital * UnitsPerCent * BpsScale
              < (RequestedQuantity(price, capital) + 1) * (price * (BpsScale + EntryFeeBps))
<1> DEFINE top == capital * UnitsPerCent * BpsScale
           bottom == price * (BpsScale + EntryFeeBps)
<1>1. top \in Nat /\ bottom \in Nat \ {0}
  BY ScaleAssumption, RateAssumption
<1>2. RequestedQuantity(price, capital) = top \div bottom
  BY DEF RequestedQuantity
<1> HIDE DEF top, bottom
<1>3. /\ top \div bottom \in Nat
      /\ top < (top \div bottom) * bottom + bottom
  BY <1>1, DivBounds, FloorBounds
<1>4. top < (top \div bottom + 1) * bottom
  BY <1>1, <1>3
<1> QED
  BY <1>1, <1>2, <1>3, <1>4 DEF top, bottom

\* Nothing above the estimate is affordable: the estimate leaves out only
\* rounding, and rounding only ever adds to a cost.
LEMMA AboveTheEstimate ==
  ASSUME NEW price \in Nat \ {0}, NEW capital \in Nat,
         NEW quantity \in Nat, quantity > RequestedQuantity(price, capital)
  PROVE  EntryTotal(price, quantity) > capital
<1> DEFINE gross == EntryGross(price, quantity)
           fees == EntryFees(price, quantity)
           rate == BpsScale + EntryFeeBps
<1>1. rate \in Nat /\ BpsScale \in Nat \ {0} /\ UnitsPerCent \in Nat \ {0}
      /\ EntryFeeBps \in Nat
  BY ScaleAssumption, RateAssumption
<1>2. /\ gross \in Nat /\ fees \in Nat
      /\ gross * UnitsPerCent >= price * quantity
  BY EntryType
<1>3. fees * BpsScale >= gross * EntryFeeBps
  <2>1. gross * EntryFeeBps \in Nat
    BY <1>1, <1>2
  <2> QED
    BY <2>1, <1>1, CeilBounds DEF EntryFees, Fee
<1>4. (gross + fees) * BpsScale >= gross * rate
  <2> HIDE DEF gross, fees
  <2> QED
    BY <1>1, <1>2, <1>3
<1>5. (gross + fees) * BpsScale * UnitsPerCent >= (price * quantity) * rate
  <2> HIDE DEF gross, fees, rate
  <2>1. (gross + fees) * BpsScale * UnitsPerCent >= gross * rate * UnitsPerCent
    BY <1>1, <1>2, <1>4
  <2>2. gross * UnitsPerCent * rate >= price * quantity * rate
    BY <1>1, <1>2
  <2> QED
    BY <1>1, <1>2, <2>1, <2>2
<1>6. (price * quantity) * rate > capital * UnitsPerCent * BpsScale
  <2> DEFINE requested == RequestedQuantity(price, capital)
             unit == price * rate
  <2>1. /\ requested \in Nat /\ unit \in Nat \ {0}
        /\ capital * UnitsPerCent * BpsScale < (requested + 1) * unit
    BY RequestedType
  <2>2. quantity * unit = (price * quantity) * rate
    <3> HIDE DEF rate
    <3> QED
      BY <1>1
  <2>3. requested + 1 <= quantity
    BY <2>1
  <2> HIDE DEF requested, unit
  <2>4. (requested + 1) * unit <= quantity * unit
    BY <2>1, <2>3, ProductMonotone
  <2>5. capital * UnitsPerCent * BpsScale \in Nat
    BY <1>1
  <2>6. (requested + 1) * unit \in Nat /\ quantity * unit \in Nat
    BY <2>1
  <2> HIDE DEF rate
  <2> QED
    BY <2>1, <2>2, <2>4, <2>5, <2>6
<1>7. (gross + fees) * (BpsScale * UnitsPerCent) > capital * (BpsScale * UnitsPerCent)
  <2> HIDE DEF gross, fees, rate
  <2> QED
    BY <1>1, <1>2, <1>5, <1>6
<1>8. gross + fees > capital
  <2> HIDE DEF gross, fees, rate
  <2> QED
    BY <1>1, <1>2, <1>7
<1> QED
  BY <1>8 DEF EntryTotal

-----------------------------------------------------------------------------
(* The search.  Its table is defined by recursion, so what it holds has to *)
(* be shown to exist before anything can be said of it.                    *)

Fits(price, capital, quantity) ==
  quantity = 0 \/ EntryTotal(price, quantity) <= capital

Searches(table, price, capital, n) ==
  table = [q \in 0..n |->
             IF q = 0 \/ EntryTotal(price, q) <= capital THEN q ELSE table[q - 1]]

\* A table of every length exists, and each entry is the largest fit up to there.
LEMMA SearchTable ==
  ASSUME NEW price, NEW capital
  PROVE  \A n \in Nat : \E table \in [0..n -> Nat] : Searches(table, price, capital, n)
<1> DEFINE Built == {n \in Nat : \E table \in [0..n -> Nat] : Searches(table, price, capital, n)}
<1>1. 0 \in Built
  <2> DEFINE table == [q \in 0..0 |-> 0]
  <2>1. table \in [0..0 -> Nat] /\ Searches(table, price, capital, 0)
    BY DEF Searches
  <2> QED
    BY <2>1
<1>2. ASSUME NEW n \in Nat, n \in Built
      PROVE  n + 1 \in Built
  <2>1. PICK table \in [0..n -> Nat] : Searches(table, price, capital, n)
    BY <1>2
  <2> DEFINE longer ==
        [q \in 0..(n + 1) |->
           IF q = n + 1
           THEN IF EntryTotal(price, q) <= capital THEN q ELSE table[n]
           ELSE table[q]]
  <2>2. longer \in [0..(n + 1) -> Nat]
    BY <2>1
  <2>3. \A q \in 0..n :
          table[q] = IF q = 0 \/ EntryTotal(price, q) <= capital THEN q ELSE table[q - 1]
    BY <2>1 DEF Searches
  <2>4. \A q \in 0..(n + 1) :
          longer[q] = IF q = 0 \/ EntryTotal(price, q) <= capital THEN q ELSE longer[q - 1]
    BY <2>3
  <2>5. Searches(longer, price, capital, n + 1)
    BY <2>4 DEF Searches
  <2> QED
    BY <2>2, <2>5
<1> HIDE DEF Built
<1>3. \A n \in Nat : n \in Built
  BY <1>1, <1>2, SetInduction
<1> QED
  BY <1>3 DEF Built

LEMMA SearchEquation ==
  ASSUME NEW price \in Nat \ {0}, NEW capital \in Nat
  PROVE  LET n == RequestedQuantity(price, capital)
             fill == Search(price, capital)
         IN  /\ fill \in [0..n -> Nat]
             /\ \A q \in 0..n :
                  fill[q] = IF q = 0 \/ EntryTotal(price, q) <= capital THEN q ELSE fill[q - 1]
<1> DEFINE n == RequestedQuantity(price, capital)
           fill == Search(price, capital)
<1>1. n \in Nat
  BY RequestedType
<1>2. PICK table \in [0..n -> Nat] : Searches(table, price, capital, n)
  BY <1>1, SearchTable
<1>3. fill = CHOOSE f : Searches(f, price, capital, n)
  BY DEF Search, Searches
<1>4. Searches(fill, price, capital, n)
  BY <1>2, <1>3
<1>5. fill = [q \in 0..n |-> fill[q]]
      /\ \A q \in 0..n :
           fill[q] = IF q = 0 \/ EntryTotal(price, q) <= capital THEN q ELSE fill[q - 1]
  BY <1>4 DEF Searches
<1> HIDE DEF n, fill
<1>6. \A q \in Nat : q <= n => fill[q] \in Nat
  <2> DEFINE Typed == {q \in Nat : q <= n => fill[q] \in Nat}
  <2>1. fill[0] = 0
    <3>1. 0 \in 0..n
      BY <1>1
    <3>2. fill[0] = IF 0 = 0 \/ EntryTotal(price, 0) <= capital THEN 0 ELSE fill[0 - 1]
      BY <1>5, <3>1
    <3> QED
      BY <3>2
  <2>2. ASSUME NEW q \in Nat, q \in Typed
        PROVE  q + 1 \in Typed
    <3>1. SUFFICES ASSUME q + 1 <= n PROVE fill[q + 1] \in Nat
      OBVIOUS
    <3>2. fill[q] \in Nat
      BY <1>1, <2>2, <3>1
    <3>3. q + 1 \in 0..n /\ (q + 1) - 1 = q
      BY <1>1, <3>1
    <3>4. fill[q + 1] \in {q + 1, fill[q]}
      BY <1>5, <3>3
    <3> QED
      BY <3>2, <3>4
  <2> HIDE DEF Typed
  <2>3. \A q \in Nat : q \in Typed
    <3>1. 0 \in Typed
      BY <2>1 DEF Typed
    <3> QED
      BY <2>2, <3>1, SetInduction
  <2> QED
    BY <2>3 DEF Typed
<1>7. fill \in [0..n -> Nat]
  BY <1>1, <1>5, <1>6
<1> QED
  BY <1>5, <1>7 DEF n, fill

\* The fill is affordable, and no larger quantity is.
LEMMA FillIsLargest ==
  ASSUME NEW price \in Nat \ {0}, NEW capital \in Nat
  PROVE  LET fill == FillQuantity(price, capital)
         IN  /\ fill \in Nat
             /\ fill > 0 => EntryTotal(price, fill) <= capital
             /\ \A quantity \in Nat :
                  quantity > fill => EntryTotal(price, quantity) > capital
<1> DEFINE n == RequestedQuantity(price, capital)
           table == Search(price, capital)
           Largest == {q \in Nat : q <= n =>
                         /\ table[q] \in 0..q
                         /\ table[q] > 0 => EntryTotal(price, table[q]) <= capital
                         /\ \A k \in 0..q : k > table[q] => EntryTotal(price, k) > capital}
<1>1. n \in Nat
  BY RequestedType
<1>2. \A q \in 0..n :
        table[q] = IF q = 0 \/ EntryTotal(price, q) <= capital THEN q ELSE table[q - 1]
  BY SearchEquation
<1>3. \A q \in Nat : EntryTotal(price, q) \in Nat
  BY EntryType
<1> HIDE DEF n, table
<1>4. 0 \in Largest
  BY <1>1, <1>2
<1>5. ASSUME NEW q \in Nat, q \in Largest
      PROVE  q + 1 \in Largest
  <2>1. SUFFICES ASSUME q + 1 <= n
                 PROVE  /\ table[q + 1] \in 0..(q + 1)
                        /\ table[q + 1] > 0 => EntryTotal(price, table[q + 1]) <= capital
                        /\ \A k \in 0..(q + 1) :
                             k > table[q + 1] => EntryTotal(price, k) > capital
    OBVIOUS
  <2>2. /\ table[q] \in 0..q
        /\ table[q] > 0 => EntryTotal(price, table[q]) <= capital
        /\ \A k \in 0..q : k > table[q] => EntryTotal(price, k) > capital
    BY <1>1, <1>5, <2>1
  <2>3. table[q + 1] = IF EntryTotal(price, q + 1) <= capital THEN q + 1 ELSE table[q]
    BY <1>1, <1>2, <2>1
  <2>4. CASE EntryTotal(price, q + 1) <= capital
    BY <2>3, <2>4
  <2>5. CASE ~(EntryTotal(price, q + 1) <= capital)
    BY <1>3, <2>2, <2>3, <2>5
  <2> QED
    BY <2>4, <2>5
<1> HIDE DEF Largest
<1>6. \A q \in Nat : q \in Largest
  BY <1>4, <1>5, SetInduction
<1>7. /\ table[n] \in 0..n
      /\ table[n] > 0 => EntryTotal(price, table[n]) <= capital
      /\ \A k \in 0..n : k > table[n] => EntryTotal(price, k) > capital
  BY <1>1, <1>6 DEF Largest
<1>8. \A k \in Nat : k > n => EntryTotal(price, k) > capital
  BY AboveTheEstimate DEF n
<1> QED
  BY <1>1, <1>7, <1>8 DEF FillQuantity, n, table

-----------------------------------------------------------------------------
(* Exit.                                                                   *)

LEMMA ExitPriceType ==
  ASSUME NEW bid \in Nat
  PROVE  ExitPrice(bid) \in 0..bid
<1>1. Slippage(ExitSlippageBps) \in Nat
  BY RateAssumption, SlippageType
<1> QED
  BY <1>1 DEF ExitPrice

LEMMA EntryPriceType ==
  ASSUME NEW ask \in Nat
  PROVE  EntryPrice(ask) \in Nat /\ EntryPrice(ask) >= ask
<1>1. Slippage(EntrySlippageBps) \in Nat
  BY RateAssumption, SlippageType
<1> QED
  BY <1>1 DEF EntryPrice

LEMMA MarketValueType ==
  ASSUME NEW price \in Nat, NEW quantity \in Nat
  PROVE  /\ MarketValue(price, quantity) \in Nat
         /\ SettlementProceeds(price, quantity) \in Nat
<1>1. price * quantity \in Nat
  OBVIOUS
<1> QED
  BY <1>1, ScaleAssumption, FloorBounds DEF MarketValue, SettlementProceeds, FloorCents

\* A sale never owes money, and pays at most the bid for each contract.
LEMMA SaleBounds ==
  ASSUME NEW bid \in Nat, NEW quantity \in Nat
  PROVE  /\ SaleProceeds(bid, quantity) \in Nat
         /\ SaleProceeds(bid, quantity) * UnitsPerCent <= bid * quantity
<1> DEFINE gross == FloorCents(ExitPrice(bid) * quantity)
<1>1. ExitPrice(bid) * quantity \in Nat /\ ExitPrice(bid) * quantity <= bid * quantity
  BY ExitPriceType
<1>2. gross \in Nat /\ gross * UnitsPerCent <= ExitPrice(bid) * quantity
  BY <1>1, ScaleAssumption, FloorBounds DEF FloorCents
<1>3. SaleProceeds(bid, quantity) = gross - Fee(gross, ExitFeeBps)
  BY DEF SaleProceeds
<1> HIDE DEF gross
<1>4. Fee(gross, ExitFeeBps) \in 0..gross
  BY <1>2, RateAssumption, FeeBounds
<1>5. gross - Fee(gross, ExitFeeBps) \in 0..gross
  BY <1>2, <1>4
<1>6. (gross - Fee(gross, ExitFeeBps)) * UnitsPerCent <= gross * UnitsPerCent
  BY <1>2, <1>5, ScaleAssumption, ProductMonotone
<1>7. gross * UnitsPerCent <= bid * quantity
  BY <1>1, <1>2, ScaleAssumption
<1>8. (gross - Fee(gross, ExitFeeBps)) * UnitsPerCent \in Nat
  BY <1>5, ScaleAssumption
<1> QED
  BY <1>2, <1>3, <1>5, <1>6, <1>7, <1>8, ScaleAssumption

\* A reduction disposes of something and leaves something.
LEMMA ReduceLeavesOne ==
  ASSUME NEW quantity \in Nat, quantity >= 2
  PROVE  ReduceQuantity(quantity) \in 1..(quantity - 1)
<1> DEFINE share == CeilDiv(quantity * ReduceNumerator, ReduceDenominator)
<1>1. quantity * ReduceNumerator \in Nat \ {0} /\ ReduceDenominator \in Nat \ {0}
  BY ReduceAssumption
<1>2. share \in Nat /\ share * ReduceDenominator >= quantity * ReduceNumerator
  BY <1>1, CeilBounds
<1>3. share # 0
  BY <1>1, <1>2
<1> QED
  BY <1>2, <1>3 DEF ReduceQuantity

-----------------------------------------------------------------------------
(* Cost basis.                                                             *)

\* An allocation lies within the amount, and until the last contract leaves,
\* strictly within it.
LEMMA AllocationBounds ==
  ASSUME NEW original \in Nat, NEW initial \in Nat \ {0}, NEW disposed \in 0..initial
  PROVE  /\ Allocation(original, disposed, initial) \in 0..original
         /\ disposed < initial /\ original > 0 =>
              Allocation(original, disposed, initial) < original
<1> DEFINE part == (original * disposed) \div initial
<1>1. original * disposed \in Nat /\ original * disposed <= original * initial
  OBVIOUS
<1>2. part \in Nat /\ part * initial <= original * disposed
  BY <1>1, FloorBounds
<1> HIDE DEF part
<1>3. part <= original
  BY <1>1, <1>2
<1>4. ASSUME disposed < initial, original > 0
      PROVE  part < original
  <2>1. original * disposed < original * initial
    BY <1>4
  <2> QED
    BY <1>2, <2>1
<1> QED
  BY <1>2, <1>3, <1>4 DEF Allocation, part

\* Disposing of more never takes less of the amount.
LEMMA AllocationMonotone ==
  ASSUME NEW original \in Nat, NEW initial \in Nat \ {0},
         NEW more \in 0..initial, NEW less \in 0..more
  PROVE  Allocation(original, less, initial) <= Allocation(original, more, initial)
<1>1. CASE more = initial
  BY <1>1, AllocationBounds DEF Allocation
<1>2. CASE more # initial
  <2> DEFINE small == original * less
             large == original * more
             l == small \div initial
             m == large \div initial
  <2>1. small \in Nat /\ large \in Nat /\ small <= large
    OBVIOUS
  <2>2. Allocation(original, less, initial) = l /\ Allocation(original, more, initial) = m
    BY <1>2 DEF Allocation
  <2> HIDE DEF small, large
  <2>3. /\ l \in Nat /\ l * initial <= small
        /\ m \in Nat /\ large < m * initial + initial
    BY <2>1, DivBounds, FloorBounds
  <2> HIDE DEF l, m
  <2>4. l * initial < (m + 1) * initial
    BY <2>1, <2>3
  <2>5. l < m + 1
    BY <2>3, <2>4
  <2> QED
    BY <2>2, <2>3, <2>5
<1> QED
  BY <1>1, <1>2

LEMMA AllocationStart ==
  ASSUME NEW original \in Nat, NEW initial \in Nat \ {0}
  PROVE  Allocation(original, 0, initial) = 0
BY DEF Allocation

\* Contracts that cost a cent or more each take some of the cost with them.
LEMMA AllocationRises ==
  ASSUME NEW original \in Nat, NEW initial \in Nat \ {0}, original >= initial,
         NEW less \in Nat, NEW more \in Nat, less < more, more < initial
  PROVE  Allocation(original, less, initial) < Allocation(original, more, initial)
<1> DEFINE small == original * less
           large == original * more
           s == small \div initial
           l == large \div initial
<1>1. small \in Nat /\ large \in Nat
  OBVIOUS
<1>2. small + initial <= large
  <2>1. original * (less + 1) <= original * more
    <3>1. (less + 1) * original <= more * original
      BY ProductMonotone
    <3> QED
      BY <3>1
  <2>2. original * (less + 1) = small + original
    OBVIOUS
  <2> QED
    BY <1>1, <2>1, <2>2
<1> HIDE DEF small, large
<1>3. /\ s \in Int /\ l \in Int
      /\ s * initial <= small /\ large < l * initial + initial
  BY <1>1, DivBounds
<1> HIDE DEF s, l
<1>4. s < l
  <2>1. s * initial < l * initial
    BY <1>1, <1>2, <1>3
  <2>2. s >= l => s * initial >= l * initial
    BY <1>3, ProductMonotone
  <2> QED
    BY <1>3, <2>1, <2>2
<1> QED
  BY <1>4 DEF Allocation, s, l, small, large

\* No contract is sold or settled for more than it can pay.
LEMMA ProceedsBound ==
  ASSUME NEW price \in 0..One, NEW quantity \in Nat, NEW proceeds \in Nat,
         proceeds * UnitsPerCent <= price * quantity
  PROVE  proceeds <= 100 * quantity
<1>1. UnitsPerCent \in Nat \ {0} /\ One = 100 * UnitsPerCent /\ price \in Nat /\ price <= One
  BY ScaleAssumption, OneType DEF One
<1>2. price * quantity <= One * quantity
  BY <1>1, OneType, ProductMonotone
<1>3. One * quantity = (100 * quantity) * UnitsPerCent
  BY <1>1
<1>4. price * quantity \in Nat /\ One * quantity \in Nat
  BY <1>1, OneType
<1>5. proceeds * UnitsPerCent <= (100 * quantity) * UnitsPerCent
  <2> DEFINE left == proceeds * UnitsPerCent
             right == (100 * quantity) * UnitsPerCent
             middle == price * quantity
             whole == One * quantity
  <2>1. left \in Nat /\ right \in Nat
    BY <1>1
  <2>2. left <= middle /\ middle <= whole /\ whole = right
    BY <1>2, <1>3
  <2>3. middle \in Nat /\ whole \in Nat
    BY <1>4
  <2> HIDE DEF left, right, middle, whole
  <2>4. left <= right
    BY <2>1, <2>2, <2>3
  <2> QED
    BY <2>4 DEF left, right
<1>6. CASE proceeds > 100 * quantity
  <2>1. proceeds >= 100 * quantity + 1
    BY <1>6
  <2>2. (100 * quantity + 1) * UnitsPerCent <= proceeds * UnitsPerCent
    BY <1>1, <2>1, ProductMonotone
  <2>3. (100 * quantity + 1) * UnitsPerCent = (100 * quantity) * UnitsPerCent + UnitsPerCent
    BY <1>1
  <2> DEFINE left == proceeds * UnitsPerCent
             right == (100 * quantity) * UnitsPerCent
  <2>4. left \in Nat /\ right \in Nat
    BY <1>1
  <2>5. left <= right /\ right + UnitsPerCent <= left
    BY <1>5, <2>2, <2>3
  <2> HIDE DEF left, right
  <2> QED
    BY <1>1, <2>4, <2>5
<1> QED
  BY <1>6
=============================================================================
