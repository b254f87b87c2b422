------------------------- MODULE PaperTradingProofs -------------------------
(***************************************************************************)
(* The ledger of a paper portfolio, proved for any number of decisions,    *)
(* markets and concurrent requests, and for every quote, rate and scale.   *)
(***************************************************************************)
EXTENDS Evaluation, PaperMoneyProofs

-----------------------------------------------------------------------------
(* Sums over the risk decisions.                                           *)

LEMMA TotalType ==
  ASSUME NEW amounts \in [Risks -> Int]
  PROVE  Total(amounts) \in Int
BY RowTotalType, CountAssumption DEF Total, Risks

\* Changing one amount changes the total by as much.
LEMMA TotalUpdate ==
  ASSUME NEW amounts \in [Risks -> Int], NEW r \in Risks, NEW amount \in Int
  PROVE  Total([amounts EXCEPT ![r] = amount]) = Total(amounts) - amounts[r] + amount
BY RowTotalUpdate, CountAssumption DEF Total, Risks

\* Nothing but nonnegative amounts makes a nonnegative total.
LEMMA TotalNonnegative ==
  ASSUME NEW amounts \in [Risks -> Nat]
  PROVE  Total(amounts) >= 0
BY RowTotalNonnegative, CountAssumption DEF Total, Risks

LEMMA TotalOfNothing ==
  ASSUME NEW amounts \in [Risks -> {0}]
  PROVE  Total(amounts) = 0
BY RowTotalOfNothing, CountAssumption DEF Total, Risks

-----------------------------------------------------------------------------
(* What a monitoring decision does to an open row.                         *)

\* An open row as the CHECK constraints know it.
Coherent(row) ==
  /\ row.quantity >= 1 /\ row.initial = row.quantity + row.disposed
  /\ row.total > 0 /\ row.total = row.gross + row.fees
  /\ row.unrealized = row.value - row.total

\* A decision on such a row moves exactly as much into cash and profit as it
\* takes out of the cost basis, and what it leaves open is still worth holding.
Sound(row, decision) ==
  LET after == decision.after
  IN  /\ decision.action \in {"hold", "reduce", "close", "settle"}
      /\ decision.quantity \in Nat /\ decision.proceeds \in Nat
      /\ after \in Rows
      /\ after.realized - row.realized = decision.proceeds - (row.total - after.total)
      /\ after.unrealized = after.value - after.total
      /\ after.status \in {"open", "closed", "settled"}
      /\ after.status = "open" => after.quantity >= 1
      /\ after.status # "open" => after.total = 0
      /\ after.market = row.market
      /\ after.quantity = row.quantity =>
           \A column \in {"status", "disposed", "total", "realized"} :
             after[column] = row[column]

LEMMA SoundHold ==
  ASSUME NEW row \in Rows, row.status = "open", Coherent(row)
  PROVE  Sound(row, Decision("hold", 0, 0, row))
BY DEF Sound, Decision, Coherent, Rows

LEMMA RowFields ==
  ASSUME NEW row \in Rows
  PROVE  /\ row.status \in {"none", "open", "closed", "settled"} /\ row.market \in Markets
         /\ row.initial \in Nat /\ row.quantity \in Nat /\ row.disposed \in Nat
         /\ row.originalGross \in Nat /\ row.originalFees \in Nat
         /\ row.gross \in Int /\ row.fees \in Int /\ row.total \in Int
         /\ row.mark \in 0..One /\ row.value \in Int /\ row.unrealized \in Int
         /\ row.realized \in Int /\ row.version \in Nat
BY DEF Rows

\* Rows change a few columns at a time.
LEMMA WithHolding ==
  ASSUME NEW row \in Rows, NEW status \in {"open", "closed", "settled"},
         NEW quantity \in Nat, NEW disposed \in Nat
  PROVE  [row EXCEPT !.status = status, !.quantity = quantity, !.disposed = disposed] \in Rows
BY DEF Rows

LEMMA WithCost ==
  ASSUME NEW row \in Rows, NEW gross \in Int, NEW fees \in Int, NEW total \in Int
  PROVE  [row EXCEPT !.gross = gross, !.fees = fees, !.total = total] \in Rows
BY DEF Rows

LEMMA WithMark ==
  ASSUME NEW row \in Rows, NEW mark \in 0..One, NEW basis \in {"bid", "ask", "exit", "payout"}
  PROVE  [row EXCEPT !.mark = mark, !.basis = basis] \in Rows
BY DEF Rows

LEMMA WithValue ==
  ASSUME NEW row \in Rows, NEW value \in Int, NEW unrealized \in Int
  PROVE  [row EXCEPT !.value = value, !.unrealized = unrealized] \in Rows
BY DEF Rows

LEMMA WithProfit ==
  ASSUME NEW row \in Rows, NEW realized \in Int
  PROVE  [row EXCEPT !.realized = realized] \in Rows
BY DEF Rows

LEMMA MarkedType ==
  ASSUME NEW row \in Rows, NEW bid \in 0..(One - 1)
  PROVE  /\ Marked(row, bid) \in Rows
         /\ Marked(row, bid).unrealized = Marked(row, bid).value - row.total
         /\ \A column \in {"status", "market", "initial", "quantity", "disposed", "gross",
                           "fees", "total", "realized"} :
              Marked(row, bid)[column] = row[column]
<1> DEFINE value == MarketValue(bid, row.quantity)
           unrealized == value - row.total
           priced == [row EXCEPT !.mark = bid, !.basis = "bid"]
<1>1. row.quantity \in Nat /\ row.total \in Int
  BY RowFields
<1>2. bid \in Nat /\ bid \in 0..One
  BY OneType
<1>3. value \in Int /\ unrealized \in Int
  <2>1. value \in Nat
    BY <1>1, <1>2, MarketValueType
  <2> HIDE DEF value
  <2> QED
    BY <1>1, <2>1
<1>4. Marked(row, bid) = [row EXCEPT !.mark = bid, !.basis = "bid", !.value = value,
                                     !.unrealized = unrealized]
  BY DEF Marked
<1> HIDE DEF value, unrealized
<1>5. priced \in Rows
  BY <1>2, WithMark
<1>6. Marked(row, bid) = [priced EXCEPT !.value = value, !.unrealized = unrealized]
  BY <1>4
<1>7. Marked(row, bid) \in Rows
  <2> HIDE DEF priced
  <2> QED
    BY <1>3, <1>5, <1>6, WithValue
<1>8. Marked(row, bid).unrealized = unrealized /\ Marked(row, bid).value = value
  BY <1>4 DEF Rows
<1>9. \A column \in {"status", "market", "initial", "quantity", "disposed", "gross",
                     "fees", "total", "realized"} :
        Marked(row, bid)[column] = row[column]
  BY <1>4 DEF Rows
<1> QED
  BY <1>7, <1>8, <1>9 DEF unrealized

LEMMA SoundMark ==
  ASSUME NEW row \in Rows, row.status = "open", Coherent(row), NEW bid \in 0..(One - 1)
  PROVE  Sound(row, Decision("hold", 0, 0, Marked(row, bid)))
<1> DEFINE after == Marked(row, bid)
<1>1. /\ after \in Rows /\ after.unrealized = after.value - row.total
      /\ after.status = "open" /\ after.market = row.market /\ after.quantity = row.quantity
      /\ after.disposed = row.disposed /\ after.total = row.total /\ after.realized = row.realized
  BY MarkedType
<1> HIDE DEF after
<1>2. Sound(row, Decision("hold", 0, 0, after))
  BY <1>1 DEF Sound, Decision, Coherent, Rows
<1> QED
  BY <1>2 DEF after

LEMMA EndedType ==
  ASSUME NEW row \in Rows, NEW status \in {"closed", "settled"},
         NEW price \in 0..One, NEW proceeds \in Nat
  PROVE  LET after == Ended(row, status, price, proceeds)
         IN  /\ after \in Rows
             /\ after.status = status /\ after.market = row.market
             /\ after.quantity = 0 /\ after.total = 0
             /\ after.value = 0 /\ after.unrealized = 0
             /\ after.realized = row.realized + proceeds - row.total
<1> DEFINE basis == IF status = "settled" THEN "payout" ELSE "exit"
           gain == row.realized + proceeds - row.total
           held == [row EXCEPT !.status = status, !.quantity = 0, !.disposed = row.initial]
           cost == [held EXCEPT !.gross = 0, !.fees = 0, !.total = 0]
           priced == [cost EXCEPT !.mark = price, !.basis = basis]
           valued == [priced EXCEPT !.value = 0, !.unrealized = 0]
           after == Ended(row, status, price, proceeds)
<1>1. after = [row EXCEPT !.status = status, !.quantity = 0, !.disposed = row.initial,
                          !.gross = 0, !.fees = 0, !.total = 0, !.mark = price,
                          !.basis = basis, !.value = 0, !.unrealized = 0, !.realized = gain]
  BY DEF Ended
<1>2. basis \in {"bid", "ask", "exit", "payout"} /\ gain \in Int /\ row.initial \in Nat
  BY RowFields
<1> HIDE DEF basis, gain
<1>3. after = [valued EXCEPT !.realized = gain]
  BY <1>1
<1>4. held \in Rows
  BY <1>2, WithHolding
<1> HIDE DEF held
<1>5. cost \in Rows
  <2>1. \A gross, fees, total \in Int :
          [held EXCEPT !.gross = gross, !.fees = fees, !.total = total] \in Rows
    BY <1>4, WithCost
  <2>2. 0 \in Int
    OBVIOUS
  <2> QED
    BY <2>1, <2>2, Zenon
<1> HIDE DEF cost
<1>6. priced \in Rows
  BY <1>2, <1>5, WithMark
<1> HIDE DEF priced
<1>7. valued \in Rows
  <2>1. \A value, unrealized \in Int :
          [priced EXCEPT !.value = value, !.unrealized = unrealized] \in Rows
    BY <1>6, WithValue
  <2>2. 0 \in Int
    OBVIOUS
  <2> QED
    BY <2>1, <2>2, Zenon
<1> HIDE DEF valued
<1>8. after \in Rows
  BY <1>2, <1>3, <1>7, WithProfit
<1>9. /\ after.status = status /\ after.market = row.market
      /\ after.quantity = 0 /\ after.total = 0
      /\ after.value = 0 /\ after.unrealized = 0
      /\ after.realized = gain
  BY <1>1 DEF Rows
<1> HIDE DEF after
<1>10. gain = row.realized + proceeds - row.total
  BY DEF gain
<1> QED
  BY <1>8, <1>9, <1>10 DEF after

LEMMA SoundEnd ==
  ASSUME NEW row \in Rows, row.status = "open", Coherent(row),
         NEW action \in {"close", "settle"}, NEW status \in {"closed", "settled"},
         NEW price \in 0..One, NEW proceeds \in Nat
  PROVE  Sound(row, Decision(action, row.quantity, proceeds,
                             Ended(row, status, price, proceeds)))
<1> DEFINE after == Ended(row, status, price, proceeds)
<1>1. /\ after \in Rows
      /\ after.status = status /\ after.market = row.market
      /\ after.quantity = 0 /\ after.total = 0
      /\ after.value = 0 /\ after.unrealized = 0
      /\ after.realized = row.realized + proceeds - row.total
  BY EndedType
<1>2. row.quantity \in Nat /\ row.realized \in Int /\ row.total \in Int /\ row.quantity >= 1
  BY DEF Rows, Coherent
<1> HIDE DEF after
<1>3. Sound(row, Decision(action, row.quantity, proceeds, after))
  BY <1>1, <1>2 DEF Sound, Decision
<1> QED
  BY <1>3 DEF after

LEMMA SoundClose ==
  ASSUME NEW row \in Rows, row.status = "open", Coherent(row), NEW bid \in 0..(One - 1)
  PROVE  Sound(row, Close(row, bid))
<1>1. bid \in Nat /\ row.quantity \in Nat
  BY OneType, RowFields
<1>2. ExitPrice(bid) \in 0..One
  BY <1>1, OneType, ExitPriceType
<1>3. SaleProceeds(bid, row.quantity) \in Nat
  BY <1>1, SaleBounds
<1> QED
  BY <1>2, <1>3, SoundEnd DEF Close

LEMMA SoundSettle ==
  ASSUME NEW row \in Rows, row.status = "open", Coherent(row), NEW payout \in Payouts
  PROVE  Sound(row, Settle(row, payout))
<1>1. payout \in 0..One
  BY QuoteAssumption
<1>2. SettlementProceeds(payout, row.quantity) \in Nat
  BY <1>1, OneType, MarketValueType DEF Rows
<1> QED
  BY <1>1, <1>2, SoundEnd DEF Settle

LEMMA SoundReduce ==
  ASSUME NEW row \in Rows, row.status = "open", Coherent(row), row.quantity >= 2,
         NEW bid \in 0..(One - 1)
  PROVE  Sound(row, Reduce(row, bid))
<1> DEFINE quantity == ReduceQuantity(row.quantity)
           proceeds == SaleProceeds(bid, quantity)
           disposed == row.disposed + quantity
           gross == row.gross - (Allocation(row.originalGross, disposed, row.initial)
                                   - Allocation(row.originalGross, row.disposed, row.initial))
           fees == row.fees - (Allocation(row.originalFees, disposed, row.initial)
                                 - Allocation(row.originalFees, row.disposed, row.initial))
           cut == [row EXCEPT !.quantity = @ - quantity, !.disposed = disposed,
                              !.gross = gross, !.fees = fees, !.total = gross + fees,
                              !.realized = @ + proceeds - (row.total - (gross + fees))]
           after == Marked(cut, bid)
<1>1. /\ row.quantity \in Nat /\ row.initial \in Nat \ {0} /\ row.disposed \in 0..row.initial
      /\ row.originalGross \in Nat /\ row.originalFees \in Nat
      /\ row.gross \in Int /\ row.fees \in Int /\ row.total \in Int /\ row.realized \in Int
  BY DEF Rows, Coherent
<1>2. quantity \in 1..(row.quantity - 1)
  BY <1>1, ReduceLeavesOne
<1>3. disposed \in 0..row.initial
  BY <1>1, <1>2 DEF Coherent
<1>4. proceeds \in Nat
  <2>1. bid \in Nat /\ quantity \in Nat
    BY <1>1, <1>2, OneType
  <2> HIDE DEF quantity
  <2> QED
    BY <2>1, SaleBounds
<1>5. gross \in Int /\ fees \in Int
  <2> HIDE DEF disposed
  <2>1. \A original \in Nat :
          /\ Allocation(original, disposed, row.initial) \in 0..original
          /\ Allocation(original, row.disposed, row.initial) \in 0..original
    BY <1>1, <1>3, AllocationBounds
  <2>2. \A original \in Nat :
          /\ Allocation(original, disposed, row.initial) \in Int
          /\ Allocation(original, row.disposed, row.initial) \in Int
    BY <2>1
  <2> QED
    BY <1>1, <2>2
<1>6. Reduced(row, quantity, bid) = after
  BY DEF Reduced
<1> HIDE DEF quantity, proceeds, disposed, gross, fees
<1>7. /\ cut \in Rows
      /\ cut.status = "open" /\ cut.market = row.market
      /\ cut.quantity = row.quantity - quantity
      /\ cut.total = gross + fees
      /\ cut.realized = row.realized + proceeds - (row.total - (gross + fees))
  <2> DEFINE held == [row EXCEPT !.status = "open", !.quantity = row.quantity - quantity,
                                 !.disposed = disposed]
             cost == [held EXCEPT !.gross = gross, !.fees = fees, !.total = gross + fees]
             gain == row.realized + proceeds - (row.total - (gross + fees))
  <2>1. row.quantity - quantity \in Nat /\ disposed \in Nat /\ gross + fees \in Int /\ gain \in Int
    BY <1>1, <1>2, <1>3, <1>4, <1>5
  <2>2. cut = [row EXCEPT !.quantity = row.quantity - quantity, !.disposed = disposed,
                          !.gross = gross, !.fees = fees, !.total = gross + fees,
                          !.realized = gain]
    BY DEF Rows
  <2> HIDE DEF gain
  <2>3. cut = [cost EXCEPT !.realized = gain]
    BY <2>2 DEF Rows
  <2>4. /\ cut.status = "open" /\ cut.market = row.market
        /\ cut.quantity = row.quantity - quantity
        /\ cut.total = gross + fees /\ cut.realized = gain
    BY <2>2 DEF Rows
  <2>5. held \in Rows
    BY <2>1, WithHolding
  <2> HIDE DEF held
  <2>6. cost \in Rows
    BY <1>5, <2>1, <2>5, WithCost
  <2> HIDE DEF cost, cut
  <2>7. cut \in Rows
    BY <2>1, <2>3, <2>6, WithProfit
  <2> QED
    BY <2>4, <2>7 DEF gain
<1> HIDE DEF cut
<1>8. /\ after \in Rows /\ after.unrealized = after.value - after.total
      /\ after.status = "open" /\ after.market = row.market
      /\ after.quantity = row.quantity - quantity
      /\ after.total = gross + fees
      /\ after.realized = row.realized + proceeds - (row.total - (gross + fees))
  BY <1>7, MarkedType
<1> HIDE DEF after
<1>9. Sound(row, Decision("reduce", quantity, proceeds, after))
  BY <1>1, <1>2, <1>4, <1>5, <1>8 DEF Sound, Decision
<1> QED
  BY <1>6, <1>9 DEF Reduce, quantity, proceeds

\* Every decision of the monitoring engine is sound.
LEMMA DecideSound ==
  ASSUME NEW row \in Rows, row.status = "open", Coherent(row), NEW source \in Sources
  PROVE  Sound(row, Decide(row, source))
<1> DEFINE bid == source.quote.bid
<1>1. CASE Final(source)
  <2>1. source.resolution \in Payouts
    BY <1>1 DEF Final
  <2> QED
    BY <1>1, <2>1, SoundSettle DEF Decide
<1>2. CASE ~Final(source) /\ ~Actionable(source)
  BY <1>2, SoundHold DEF Decide
<1>3. CASE ~Final(source) /\ Actionable(source)
  <2>1. bid \in 0..(One - 1)
    BY <1>3, QuoteAssumption DEF Actionable, Sources, QuoteRange
  <2>2. row.quantity \in Nat /\ row.quantity >= 1
    BY DEF Rows, Coherent
  <2>3. Sound(row, Close(row, bid)) /\ Sound(row, Decision("hold", 0, 0, Marked(row, bid)))
    BY <2>1, SoundClose, SoundMark
  <2>4. row.quantity # 1 => Sound(row, Reduce(row, bid))
    BY <2>1, <2>2, SoundReduce
  <2> QED
    BY <1>3, <2>3, <2>4 DEF Decide
<1> QED
  BY <1>1, <1>2, <1>3

-----------------------------------------------------------------------------
(* What a request writes back to a row it does not see.                    *)

Columns ==
  {"status", "market", "initial", "quantity", "disposed", "originalGross",
   "originalFees", "gross", "fees", "total", "mark", "basis", "value",
   "unrealized", "realized", "version"}

LEMMA FlushType ==
  ASSUME NEW stored \in Rows, NEW loaded \in Rows, NEW after \in Rows
  PROVE  /\ Flush(stored, loaded, after) \in Rows
         /\ \A column \in Columns : Flush(stored, loaded, after)[column] =
              IF after[column] = loaded[column] THEN stored[column] ELSE after[column]
<1> DEFINE row == Flush(stored, loaded, after)
<1>1. DOMAIN stored = Columns
  BY DEF Rows, Columns
<1>2. row = [column \in Columns |->
               IF after[column] = loaded[column] THEN stored[column] ELSE after[column]]
  BY <1>1 DEF Flush
<1>3. \A column \in Columns : row[column] \in {stored[column], after[column]}
  BY <1>2
<1>4. row = [status |-> row.status, market |-> row.market, initial |-> row.initial,
             quantity |-> row.quantity, disposed |-> row.disposed,
             originalGross |-> row.originalGross, originalFees |-> row.originalFees,
             gross |-> row.gross, fees |-> row.fees, total |-> row.total,
             mark |-> row.mark, basis |-> row.basis, value |-> row.value,
             unrealized |-> row.unrealized, realized |-> row.realized,
             version |-> row.version]
  BY <1>2 DEF Columns
<1>5. row \in Rows
  <2> HIDE DEF row
  <2>1. /\ row.status \in {"none", "open", "closed", "settled"} /\ row.market \in Markets
        /\ row.initial \in Nat /\ row.quantity \in Nat /\ row.disposed \in Nat
        /\ row.originalGross \in Nat /\ row.originalFees \in Nat
    BY <1>3 DEF Columns, Rows
  <2>2. /\ row.gross \in Int /\ row.fees \in Int /\ row.total \in Int
        /\ row.mark \in 0..One /\ row.basis \in {"bid", "ask", "exit", "payout"}
        /\ row.value \in Int /\ row.unrealized \in Int /\ row.realized \in Int
        /\ row.version \in Nat
    BY <1>3 DEF Columns, Rows
  <2> QED
    BY <1>4, <2>1, <2>2 DEF Rows
<1> QED
  BY <1>2, <1>5

-----------------------------------------------------------------------------
(* The inductive invariant.  The ledger's balances follow step by step only *)
(* if what a request loaded before it had the locks was a coherent open row *)
(* of a filled trade, and if a trade that is not filled has no row at all.  *)

RowsAreCoherent ==
  /\ \A r \in Risks :
       /\ trades[r].status # "filled" => positions[r] = NoRow
       /\ positions[r].status = "open" => Coherent(positions[r])
  /\ \A w \in Requests :
       /\ requests[w].kind = "execute" => approvals[requests[w].risk] # NoApproval
       /\ requests[w].kind = "monitor" =>
            /\ requests[w].loaded.status = "open" /\ Coherent(requests[w].loaded)
            /\ trades[requests[w].risk].status = "filled"

IInv ==
  /\ TypeOK /\ RowsAreCoherent
  /\ LedgerReconciles /\ SnapshotBalances /\ OneOpenPositionPerMarket

LEMMA NoRowType == NoRow \in Rows
<1>1. (CHOOSE m \in Markets : TRUE) \in Markets
  BY CountAssumption
<1>2. 0 \in 0..One
  BY OneType
<1> QED
  BY <1>1, <1>2 DEF NoRow, Rows

LEMMA ColumnType ==
  ASSUME NEW rows \in [Risks -> Rows],
         NEW column \in {"total", "value", "unrealized", "realized"}
  PROVE  OpenColumn(rows, column) \in [Risks -> Int] /\ Column(rows, column) \in [Risks -> Int]
<1>1. \A r \in Risks : rows[r][column] \in Int
  BY DEF Rows
<1> QED
  BY <1>1 DEF OpenColumn, Column

LEMMA Initially == Init => IInv
<1>1. SUFFICES ASSUME Init PROVE IInv
  OBVIOUS
<1>2. TypeOK
  <2> DEFINE First == [tick : {0}, quote : Quotes, eligible : {TRUE},
                       open : {TRUE}, resolution : {NoResolution}]
  <2>1. First \subseteq Sources
    <3>1. SUFFICES ASSUME NEW source \in First PROVE source \in Sources
      OBVIOUS
    <3>2. /\ source.tick \in {0} /\ source.quote \in Quotes
          /\ source.eligible \in {TRUE} /\ source.open \in {TRUE}
          /\ source.resolution \in {NoResolution}
      BY Zenon
    <3>3. source = [tick |-> source.tick, quote |-> source.quote,
                    eligible |-> source.eligible, open |-> source.open,
                    resolution |-> source.resolution]
      OBVIOUS
    <3> HIDE DEF First
    <3>4. /\ source.tick \in Nat
          /\ source.resolution \in {NoResolution, Conflict} \union Payouts
      BY <3>2
    <3>5. source.eligible \in BOOLEAN /\ source.open \in BOOLEAN
      BY <3>2, Zenon
    <3> QED
      BY <3>2, <3>3, <3>4, <3>5, Zenon DEF Sources
  <2>2. sources \in [Markets -> Sources] /\ changes \in [Markets -> Nat]
    <3>1. sources \in [Markets -> First] /\ changes = [m \in Markets |-> 0]
      BY <1>1 DEF Init
    <3> HIDE DEF First
    <3> QED
      BY <2>1, <3>1
  <2>3. snapshot \in Snapshots
    BY <1>1, MoneyAssumption DEF Init, Snapshots
  <2>4. trades \in [Risks -> [status : {"none", "filled", "rejected"}, opening : Rows]]
    BY <1>1, NoRowType DEF Init
  <2>5. positions \in [Risks -> Rows] /\ events \in [Risks -> Seq(Events)]
    BY <1>1, NoRowType DEF Init
  <2> QED
    BY <1>1, <2>2, <2>3, <2>4, <2>5 DEF Init, TypeOK
<1>3. RowsAreCoherent
  BY <1>1 DEF Init, RowsAreCoherent, NoRow, Idle
<1>4. LedgerReconciles
  <2>1. \A column \in {"total", "value", "unrealized"} :
          OpenColumn(positions, column) \in [Risks -> {0}]
    BY <1>1 DEF Init, OpenColumn, NoRow
  <2>2. Column(positions, "realized") \in [Risks -> {0}]
    BY <1>1 DEF Init, Column, NoRow
  <2>3. /\ Total(OpenColumn(positions, "total")) = 0
        /\ Total(OpenColumn(positions, "value")) = 0
        /\ Total(OpenColumn(positions, "unrealized")) = 0
        /\ Total(Column(positions, "realized")) = 0
    BY <2>1, <2>2, TotalOfNothing
  <2> QED
    BY <1>1, <2>3 DEF Init, LedgerReconciles, Reconciles
<1>5. SnapshotBalances
  BY <1>1, MoneyAssumption DEF Init, SnapshotBalances
<1>6. OneOpenPositionPerMarket
  BY <1>1 DEF Init, OneOpenPositionPerMarket, NoRow
<1> QED
  BY <1>2, <1>3, <1>4, <1>5, <1>6 DEF IInv

-----------------------------------------------------------------------------
(* A fill.                                                                 *)

LEMMA QuoteType ==
  ASSUME TypeOK, NEW m \in Markets
  PROVE  /\ sources[m] \in Sources
         /\ sources[m].quote.ask \in Nat /\ sources[m].quote.ask \in 0..One
         /\ sources[m].quote.bid # NoBid => sources[m].quote.bid \in 0..(One - 1)
<1>1. sources[m] \in Sources
  BY DEF TypeOK
<1>2. sources[m].quote \in QuoteRange
  BY <1>1, QuoteAssumption DEF Sources
<1> QED
  BY <1>1, <1>2, OneType DEF QuoteRange

\* What a fill opens is a coherent row that the authorised capital pays for.
LEMMA OpeningType ==
  ASSUME TypeOK, NEW r \in Risks, approvals[r] \in Approvals, Qualifies(r)
  PROVE  LET row == Opening(r)
         IN  /\ row \in Rows /\ Coherent(row)
             /\ row.status = "open" /\ row.market = approvals[r].market
             /\ row.total \in Nat /\ row.total <= snapshot.available
             /\ row.realized = 0
<1> DEFINE m == approvals[r].market
           capital == approvals[r].capital
           quote == sources[m].quote
           price == EntryPrice(quote.ask)
           quantity == FillQuantity(price, capital)
           gross == EntryGross(price, quantity)
           fees == EntryFees(price, quantity)
           total == EntryTotal(price, quantity)
           mark == IF quote.bid = NoBid THEN quote.ask ELSE quote.bid
           basis == IF quote.bid = NoBid THEN "ask" ELSE "bid"
           value == MarketValue(mark, quantity)
<1>1. m \in Markets /\ capital \in Nat /\ snapshot.available \in Int
  <2>1. m \in Markets /\ capital \in Nat
    BY MoneyAssumption DEF Approvals
  <2>2. snapshot.available \in Int
    BY DEF TypeOK, Snapshots
  <2> QED
    BY <2>1, <2>2
<1>2. /\ quote.ask \in Nat /\ quote.ask \in 0..One /\ quote.ask > 0
      /\ quote.bid # NoBid => quote.bid \in 0..(One - 1)
  BY <1>1, QuoteType DEF Qualifies, ValidBook
<1>3. quantity >= 1 /\ capital <= snapshot.available
  BY DEF Qualifies
<1>4. mark \in Nat /\ mark \in 0..One /\ basis \in {"bid", "ask", "exit", "payout"}
  BY <1>2, OneType
<1>5. Opening(r) =
        [status |-> "open", market |-> m, initial |-> quantity, quantity |-> quantity,
         disposed |-> 0, originalGross |-> gross, originalFees |-> fees,
         gross |-> gross, fees |-> fees, total |-> total, mark |-> mark,
         basis |-> basis, value |-> value, unrealized |-> value - total,
         realized |-> 0, version |-> 0]
  BY DEF Opening
<1> HIDE DEF m, capital, quote
<1>6. price \in Nat \ {0}
  BY <1>2, EntryPriceType
<1> HIDE DEF price
<1>7. quantity \in Nat /\ (quantity > 0 => EntryTotal(price, quantity) <= capital)
  BY <1>1, <1>6, FillIsLargest
<1> HIDE DEF quantity, mark, basis
<1>8. /\ gross \in Nat /\ fees \in Nat /\ total \in Nat
      /\ gross * UnitsPerCent >= price * quantity
  BY <1>6, <1>7, EntryType
<1>9. total = gross + fees
  BY DEF EntryTotal
<1>10. value \in Nat
  BY <1>4, <1>7, MarketValueType
<1>11. total <= capital
  BY <1>3, <1>7
<1> HIDE DEF gross, fees, total, value
<1>12. gross > 0
  <2>1. price * quantity > 0
    BY <1>3, <1>6, <1>7
  <2>2. gross = 0 => gross * UnitsPerCent = 0
    BY ScaleAssumption
  <2> QED
    BY <1>6, <1>7, <1>8, <2>1, <2>2
<1>13. Opening(r) \in Rows
  BY <1>1, <1>4, <1>5, <1>7, <1>8, <1>10 DEF Rows
<1>14. Coherent(Opening(r))
  BY <1>3, <1>5, <1>7, <1>8, <1>9, <1>12 DEF Coherent
<1>15. total \in Nat /\ total <= snapshot.available
  BY <1>1, <1>3, <1>8, <1>11
<1> QED
  BY <1>5, <1>13, <1>14, <1>15 DEF m

\* A filled decision had no row, so each column of the sums gains just its own.
LEMMA FillStep ==
  ASSUME IInv, NEW w \in Requests, Fill(w)
  PROVE  IInv'
<1> DEFINE r == requests[w].risk
           row == Opening(r)
<1>1. /\ TypeOK /\ RowsAreCoherent /\ LedgerReconciles /\ SnapshotBalances
      /\ OneOpenPositionPerMarket
  BY DEF IInv
<1>2. r \in Risks /\ requests[w].kind = "execute"
  BY <1>1 DEF Fill, TypeOK, Idle
<1>3. approvals[r] \in Approvals
  <2>1. approvals[r] # NoApproval
    BY <1>1, <1>2 DEF RowsAreCoherent
  <2> QED
    BY <1>1, <1>2, <2>1 DEF TypeOK
<1>4. trades[r].status = "none" /\ Qualifies(r)
  BY DEF Fill
<1>5. /\ snapshot' = AfterEntry(row)
      /\ trades' = [trades EXCEPT ![r] = [status |-> "filled", opening |-> row]]
      /\ positions' = [positions EXCEPT ![r] = row]
      /\ requests' = [requests EXCEPT ![w] = Idle]
      /\ UNCHANGED <<sources, changes, approvals, events>>
  BY DEF Fill
<1>6. /\ row \in Rows /\ Coherent(row)
      /\ row.status = "open" /\ row.market = approvals[r].market
      /\ row.total \in Nat /\ row.total <= snapshot.available
      /\ row.realized = 0
  BY <1>1, <1>2, <1>3, <1>4, OpeningType
<1>7. positions[r] = NoRow
  BY <1>1, <1>2, <1>4 DEF RowsAreCoherent
<1>8. ~HasOpenPosition(row.market)
  BY <1>4, <1>6 DEF Qualifies
<1> HIDE DEF r, row
<1>9. /\ snapshot \in Snapshots /\ positions \in [Risks -> Rows]
      /\ row.value \in Int /\ row.unrealized \in Int /\ row.total \in Int
  BY <1>1, <1>6 DEF TypeOK, Rows
<1>10. /\ snapshot' \in Snapshots
       /\ snapshot'.current = snapshot.current /\ snapshot'.realized = snapshot.realized
       /\ snapshot'.cash = snapshot.cash - row.total
       /\ snapshot'.committed = snapshot.committed + row.total
       /\ snapshot'.available = snapshot.available - row.total
       /\ snapshot'.openValue = snapshot.openValue + row.value
       /\ snapshot'.unrealized = snapshot.unrealized + row.unrealized
       /\ snapshot'.total = snapshot.cash - row.total + snapshot.openValue + row.value
  <2> DEFINE after == AfterEntry(row)
  <2>1. /\ snapshot.sequence \in Nat /\ snapshot.current \in Int /\ snapshot.realized \in Int
        /\ snapshot.cash \in Int /\ snapshot.committed \in Int /\ snapshot.available \in Int
        /\ snapshot.openValue \in Int /\ snapshot.unrealized \in Int
    BY <1>9 DEF Snapshots
  <2>2. /\ after.current = snapshot.current /\ after.realized = snapshot.realized
        /\ after.cash = snapshot.cash - row.total
        /\ after.committed = snapshot.committed + row.total
        /\ after.available = snapshot.available - row.total
        /\ after.openValue = snapshot.openValue + row.value
        /\ after.unrealized = snapshot.unrealized + row.unrealized
        /\ after.total = snapshot.cash - row.total + snapshot.openValue + row.value
    BY <1>9 DEF AfterEntry, Snapshots
  <2>3. after \in Snapshots
    <3>1. \A sequence \in Nat, cash, committed, available, value, unrealized, total \in Int :
            [snapshot EXCEPT !.sequence = sequence, !.cash = cash, !.committed = committed,
                             !.available = available, !.openValue = value,
                             !.unrealized = unrealized, !.total = total] \in Snapshots
      BY <1>9 DEF Snapshots
    <3>2. /\ snapshot.sequence + 1 \in Nat /\ snapshot.cash - row.total \in Int
          /\ snapshot.committed + row.total \in Int /\ snapshot.available - row.total \in Int
          /\ snapshot.openValue + row.value \in Int
          /\ snapshot.unrealized + row.unrealized \in Int
          /\ snapshot.cash - row.total + snapshot.openValue + row.value \in Int
      BY <1>9, <2>1
    <3> QED
      BY <3>1, <3>2, Zenon DEF AfterEntry
  <2> HIDE DEF after
  <2>4. snapshot' = after
    BY <1>5 DEF after
  <2> QED
    BY <2>2, <2>3, <2>4
<1>11. TypeOK'
  <2>1. trades' \in [Risks -> [status : {"none", "filled", "rejected"}, opening : Rows]]
    BY <1>1, <1>2, <1>5, <1>6 DEF TypeOK
  <2>2. positions' \in [Risks -> Rows]
    BY <1>2, <1>5, <1>6, <1>9
  <2> QED
    BY <1>1, <1>5, <1>10, <2>1, <2>2 DEF TypeOK
<1>12. RowsAreCoherent'
  <2>1. \A s \in Risks :
          /\ trades'[s].status # "filled" => positions'[s] = NoRow
          /\ positions'[s].status = "open" => Coherent(positions'[s])
    BY <1>1, <1>2, <1>5, <1>6, <1>9 DEF RowsAreCoherent, TypeOK
  <2>2. \A v \in Requests :
          requests'[v].kind = "execute" => approvals'[requests'[v].risk] # NoApproval
    BY <1>1, <1>5 DEF RowsAreCoherent, TypeOK, Idle
  <2>3. ASSUME NEW v \in Requests, requests'[v].kind = "monitor"
        PROVE  /\ requests'[v].loaded.status = "open" /\ Coherent(requests'[v].loaded)
               /\ trades'[requests'[v].risk].status = "filled"
    <3>1. v # w
      BY <1>1, <1>5, <2>3 DEF TypeOK, Idle
    <3>2. requests'[v] = requests[v]
      BY <1>1, <1>5, <3>1 DEF TypeOK
    <3>3. requests[v].risk \in Risks
      BY <1>1, <2>3, <3>2 DEF TypeOK, Idle
    <3>4. trades[requests[v].risk].status = "filled"
      BY <1>1, <2>3, <3>2 DEF RowsAreCoherent
    <3> QED
      BY <1>1, <1>2, <1>5, <2>3, <3>2, <3>3, <3>4 DEF RowsAreCoherent, TypeOK
  <2> QED
    BY <2>1, <2>2, <2>3 DEF RowsAreCoherent
<1>13. LedgerReconciles'
  <2>1. \A column \in {"total", "value", "unrealized"} :
          Total(OpenColumn(positions', column)) =
            Total(OpenColumn(positions, column)) + row[column]
    <3>1. TAKE column \in {"total", "value", "unrealized"}
    <3> DEFINE before == OpenColumn(positions, column)
    <3>2. before \in [Risks -> Int] /\ row[column] \in Int
      BY <1>9, ColumnType
    <3>3. before[r] = 0
      BY <1>2, <1>7 DEF OpenColumn, NoRow
    <3>4. OpenColumn(positions', column) = [before EXCEPT ![r] = row[column]]
      BY <1>2, <1>5, <1>6, <1>9 DEF OpenColumn
    <3> HIDE DEF before
    <3>5. Total([before EXCEPT ![r] = row[column]]) = Total(before) - before[r] + row[column]
      BY <1>2, <3>2, TotalUpdate
    <3>6. Total(before) \in Int
      BY <3>2, TotalType
    <3>7. Total(OpenColumn(positions', column)) = Total(before) + row[column]
      BY <3>2, <3>3, <3>4, <3>5, <3>6
    <3> QED
      BY <3>7 DEF before
  <2>2. Column(positions', "realized") = Column(positions, "realized")
    BY <1>2, <1>5, <1>6, <1>7, <1>9 DEF Column, NoRow
  <2>3. /\ snapshot.committed = Total(OpenColumn(positions, "total"))
        /\ snapshot.openValue = Total(OpenColumn(positions, "value"))
        /\ snapshot.unrealized = Total(OpenColumn(positions, "unrealized"))
        /\ snapshot.realized = Total(Column(positions, "realized"))
    BY <1>1 DEF LedgerReconciles, Reconciles
  <2>4. /\ snapshot'.committed = Total(OpenColumn(positions', "total"))
        /\ snapshot'.openValue = Total(OpenColumn(positions', "value"))
        /\ snapshot'.unrealized = Total(OpenColumn(positions', "unrealized"))
    BY <1>10, <2>1, <2>3
  <2>5. snapshot'.realized = Total(Column(positions', "realized"))
    BY <1>10, <2>2, <2>3
  <2> QED
    BY <2>4, <2>5 DEF LedgerReconciles, Reconciles
<1>14. SnapshotBalances'
  <2>1. row.unrealized = row.value - row.total
    BY <1>6 DEF Coherent
  <2>2. StartingBankroll \in Int
    BY MoneyAssumption
  <2>3. /\ snapshot.current = StartingBankroll + snapshot.realized
        /\ snapshot.cash = snapshot.current - snapshot.committed
        /\ snapshot.available = snapshot.cash
        /\ snapshot.openValue = snapshot.committed + snapshot.unrealized
        /\ snapshot.cash >= 0 /\ snapshot.committed >= 0
    BY <1>1 DEF SnapshotBalances
  <2>4. /\ snapshot.current \in Int /\ snapshot.cash \in Int /\ snapshot.committed \in Int
        /\ snapshot.available \in Int /\ snapshot.realized \in Int
        /\ snapshot.openValue \in Int /\ snapshot.unrealized \in Int
    BY <1>9 DEF Snapshots
  <2>5. /\ snapshot'.current = StartingBankroll + snapshot'.realized
        /\ snapshot'.cash = snapshot'.current - snapshot'.committed
        /\ snapshot'.available = snapshot'.cash
        /\ snapshot'.openValue = snapshot'.committed + snapshot'.unrealized
        /\ snapshot'.total = snapshot'.cash + snapshot'.openValue
        /\ snapshot'.cash >= 0 /\ snapshot'.committed >= 0
    BY <1>6, <1>9, <1>10, <2>1, <2>2, <2>3, <2>4
  <2> QED
    BY <2>5 DEF SnapshotBalances
<1>15. OneOpenPositionPerMarket'
  <2>1. \A s \in Risks : positions[s].status = "open" => positions[s].market # row.market
    BY <1>8 DEF HasOpenPosition
  <2> QED
    BY <1>1, <1>2, <1>5, <1>9, <2>1 DEF OneOpenPositionPerMarket
<1> QED
  BY <1>11, <1>12, <1>13, <1>14, <1>15 DEF IInv

-----------------------------------------------------------------------------
(* A recorded monitoring decision.                                         *)

\* What Outcome computes, by its parts.
LEMMA OutcomeType ==
  ASSUME TypeOK, RowsAreCoherent, NEW w \in Requests, requests[w].kind = "monitor"
  PROVE  LET r == requests[w].risk
             loaded == requests[w].loaded
             decision == Decide(loaded, sources[loaded.market])
             outcome == Outcome(w)
             after == outcome.event.after
         IN  /\ r \in Risks /\ loaded \in Rows /\ loaded.status = "open" /\ Coherent(loaded)
             /\ trades[r].status = "filled"
             /\ Sound(loaded, decision)
             /\ outcome.risk = r /\ outcome.event \in Events
             /\ outcome.positions =
                  [positions EXCEPT ![r] = Flush(positions[r], loaded, after)]
             /\ outcome.changed <=> decision.after # loaded
             /\ outcome.changed => outcome.snapshot = AfterDecision(loaded, decision)
             /\ ~outcome.changed => outcome.snapshot = snapshot /\ after = loaded
             /\ after \in Rows
             /\ \A column \in Columns \ {"version"} : after[column] = decision.after[column]
<1> DEFINE r == requests[w].risk
           loaded == requests[w].loaded
           source == sources[loaded.market]
           decision == Decide(loaded, source)
           changed == decision.after # loaded
           after == IF changed THEN [decision.after EXCEPT !.version = @ + 1] ELSE loaded
           event == [source |-> Fingerprint(source), action |-> decision.action,
                     before |-> loaded, after |-> after, quantity |-> decision.quantity,
                     proceeds |-> decision.proceeds, released |-> loaded.total - after.total]
<1>1. requests[w] \in [kind : {"monitor"}, risk : Risks, loaded : Rows]
  BY DEF TypeOK, Idle
<1>2. r \in Risks /\ loaded \in Rows
  BY <1>1
<1>3. loaded.status = "open" /\ Coherent(loaded) /\ trades[r].status = "filled"
  BY DEF RowsAreCoherent
<1>4. source \in Sources
  <2>1. loaded.market \in Markets
    BY <1>2, RowFields
  <2> QED
    BY <2>1, QuoteType
<1>5. Sound(loaded, decision)
  BY <1>2, <1>3, <1>4, DecideSound
<1>6. Outcome(w) =
        [risk |-> r, changed |-> changed,
         positions |-> [positions EXCEPT ![r] = Flush(positions[r], loaded, after)],
         snapshot |-> IF changed THEN AfterDecision(loaded, decision) ELSE snapshot,
         event |-> event]
  BY <1>2 DEF Outcome, EventRecord, TypeOK
<1> HIDE DEF r, loaded, source
<1>7. decision.after \in Rows /\ decision.after.version \in Nat
  <2>1. decision.after \in Rows
    BY <1>5 DEF Sound
  <2> QED
    BY <2>1, RowFields
<1>8. /\ decision.action \in {"hold", "reduce", "close", "settle"}
      /\ decision.quantity \in Nat /\ decision.proceeds \in Nat
  BY <1>5 DEF Sound
<1> HIDE DEF decision
<1>9. /\ after \in Rows
      /\ \A column \in Columns \ {"version"} : after[column] = decision.after[column]
  <2>1. CASE changed
    <3>1. [decision.after EXCEPT !.version = @ + 1] \in Rows
      BY <1>7 DEF Rows
    <3>2. \A column \in Columns \ {"version"} :
            [decision.after EXCEPT !.version = @ + 1][column] = decision.after[column]
      BY <1>7 DEF Rows, Columns
    <3> QED
      BY <2>1, <3>1, <3>2
  <2>2. CASE ~changed
    BY <1>2, <2>2
  <2> QED
    BY <2>1, <2>2
<1>10. ~changed => after = loaded
  OBVIOUS
<1> HIDE DEF changed, after
<1>11. Fingerprint(source) \in Sources
  BY <1>4 DEF Fingerprint, Sources
<1>12. loaded.total - after.total \in Int
  BY <1>2, <1>9, RowFields
<1>13. event \in Events
  BY <1>2, <1>8, <1>9, <1>11, <1>12 DEF Events
<1>14. event.after = after
  OBVIOUS
<1> HIDE DEF event
<1>15. /\ Outcome(w).risk = r /\ Outcome(w).event = event
       /\ Outcome(w).positions =
            [positions EXCEPT ![r] = Flush(positions[r], loaded, after)]
       /\ Outcome(w).changed = changed
       /\ Outcome(w).snapshot =
            IF changed THEN AfterDecision(loaded, decision) ELSE snapshot
  BY <1>6
<1> QED
  BY <1>2, <1>3, <1>5, <1>9, <1>10, <1>13, <1>14, <1>15
     DEF r, loaded, source, decision, changed

\* What the next snapshot says after a sound decision.
LEMMA AfterDecisionType ==
  ASSUME snapshot \in Snapshots, NEW loaded \in Rows, NEW decision, Sound(loaded, decision)
  PROVE  LET next == AfterDecision(loaded, decision)
             after == decision.after
             gain == after.realized - loaded.realized
             value == after.value - loaded.value
         IN  /\ next \in Snapshots
             /\ next.current = snapshot.current + gain
             /\ next.realized = snapshot.realized + gain
             /\ next.cash = snapshot.cash + decision.proceeds
             /\ next.available = snapshot.available + decision.proceeds
             /\ next.committed = snapshot.committed + after.total - loaded.total
             /\ next.openValue = snapshot.openValue + value
             /\ next.unrealized = snapshot.unrealized + after.unrealized - loaded.unrealized
             /\ next.total = snapshot.total + decision.proceeds + value
<1> DEFINE after == decision.after
           gain == after.realized - loaded.realized
           value == after.value - loaded.value
           next == AfterDecision(loaded, decision)
<1>1. after \in Rows /\ decision.proceeds \in Int
  BY DEF Sound
<1>2. /\ gain \in Int /\ value \in Int
      /\ after.total \in Int /\ loaded.total \in Int
      /\ after.unrealized \in Int /\ loaded.unrealized \in Int
  BY <1>1, RowFields
<1>3. next = [snapshot EXCEPT
                !.sequence = @ + 1, !.current = @ + gain, !.cash = @ + decision.proceeds,
                !.committed = @ + after.total - loaded.total,
                !.available = @ + decision.proceeds, !.realized = @ + gain,
                !.openValue = @ + value,
                !.unrealized = @ + after.unrealized - loaded.unrealized,
                !.total = @ + decision.proceeds + value]
  BY DEF AfterDecision
<1> HIDE DEF after, gain, value, next
<1>4. /\ next.current = snapshot.current + gain
      /\ next.realized = snapshot.realized + gain
      /\ next.cash = snapshot.cash + decision.proceeds
      /\ next.available = snapshot.available + decision.proceeds
      /\ next.committed = snapshot.committed + after.total - loaded.total
      /\ next.openValue = snapshot.openValue + value
      /\ next.unrealized = snapshot.unrealized + after.unrealized - loaded.unrealized
      /\ next.total = snapshot.total + decision.proceeds + value
  BY <1>3 DEF Snapshots
<1>5. next \in Snapshots
  <2>1. /\ snapshot.sequence \in Nat /\ snapshot.current \in Int /\ snapshot.realized \in Int
        /\ snapshot.cash \in Int /\ snapshot.committed \in Int /\ snapshot.available \in Int
        /\ snapshot.openValue \in Int /\ snapshot.unrealized \in Int /\ snapshot.total \in Int
    BY DEF Snapshots
  <2>2. /\ next.sequence \in Nat /\ next.current \in Int /\ next.realized \in Int
        /\ next.cash \in Int /\ next.committed \in Int /\ next.available \in Int
        /\ next.openValue \in Int /\ next.unrealized \in Int /\ next.total \in Int
    <3>1. next.sequence = snapshot.sequence + 1
      BY <1>3 DEF Snapshots
    <3> QED
      BY <1>1, <1>2, <1>4, <2>1, <3>1
  <2>3. next = [sequence |-> next.sequence, current |-> next.current, cash |-> next.cash,
                committed |-> next.committed, available |-> next.available,
                realized |-> next.realized, openValue |-> next.openValue,
                unrealized |-> next.unrealized, total |-> next.total]
    BY <1>3 DEF Snapshots
  <2> QED
    BY <2>2, <2>3 DEF Snapshots
<1> QED
  BY <1>4, <1>5 DEF after, gain, value, next

LEMMA RecordStep ==
  ASSUME IInv, NEW w \in Requests, Record(w)
  PROVE  IInv'
<1> DEFINE r == requests[w].risk
           loaded == requests[w].loaded
           decision == Decide(loaded, sources[loaded.market])
           outcome == Outcome(w)
           after == outcome.event.after
           row == Flush(positions[r], loaded, after)
<1>1. /\ TypeOK /\ RowsAreCoherent /\ LedgerReconciles /\ SnapshotBalances
      /\ OneOpenPositionPerMarket
  BY DEF IInv
<1>2. requests[w].kind = "monitor"
  BY DEF Record
<1>3. /\ Commits(outcome)
      /\ positions' = outcome.positions /\ snapshot' = outcome.snapshot
      /\ events' = [events EXCEPT ![outcome.risk] = Append(@, outcome.event)]
      /\ requests' = [requests EXCEPT ![w] = Idle]
      /\ UNCHANGED <<sources, changes, approvals, trades>>
  BY DEF Record
<1>4. /\ r \in Risks /\ loaded \in Rows /\ loaded.status = "open" /\ Coherent(loaded)
      /\ trades[r].status = "filled"
      /\ Sound(loaded, decision)
      /\ outcome.risk = r /\ outcome.event \in Events
      /\ outcome.positions = [positions EXCEPT ![r] = row]
      /\ outcome.changed <=> decision.after # loaded
      /\ outcome.changed => outcome.snapshot = AfterDecision(loaded, decision)
      /\ ~outcome.changed => outcome.snapshot = snapshot /\ after = loaded
      /\ after \in Rows
      /\ \A column \in Columns \ {"version"} : after[column] = decision.after[column]
  BY <1>1, <1>2, OutcomeType
<1> HIDE DEF r, loaded, decision, outcome, after
<1>5. positions[r] \in Rows /\ positions \in [Risks -> Rows] /\ snapshot \in Snapshots
  BY <1>1, <1>4 DEF TypeOK
<1>6. /\ row \in Rows
      /\ \A column \in Columns :
           row[column] = IF after[column] = loaded[column]
                         THEN positions[r][column] ELSE after[column]
  BY <1>4, <1>5, FlushType
<1> HIDE DEF row
<1>7. positions' = [positions EXCEPT ![r] = row]
  BY <1>3, <1>4
<1>8. row.status = "open" =>
        positions[r].status = "open" /\ row.market = positions[r].market
  <2>1. /\ row.status = IF after.status = loaded.status
                        THEN positions[r].status ELSE after.status
        /\ row.market = IF after.market = loaded.market
                        THEN positions[r].market ELSE after.market
    BY <1>6 DEF Columns
  <2>2. after.market = decision.after.market
    BY <1>4 DEF Columns
  <2>3. after.market = loaded.market
    BY <1>4, <2>2 DEF Sound
  <2> QED
    BY <1>4, <2>1, <2>3
<1>9. TypeOK'
  <2>1. events' \in [Risks -> Seq(Events)]
    BY <1>1, <1>3, <1>4 DEF TypeOK
  <2>2. positions' \in [Risks -> Rows]
    BY <1>5, <1>6, <1>7
  <2>3. snapshot' \in Snapshots
    BY <1>3, <1>4, <1>5, AfterDecisionType
  <2> QED
    BY <1>1, <1>3, <2>1, <2>2, <2>3 DEF TypeOK
<1>10. RowsAreCoherent'
  <2>1. row.status = "open" => Coherent(row)
    <3>1. CASE outcome.changed
      <4>1. Accepted(row)
        BY <1>3, <1>4, <1>5, <1>7, <3>1 DEF Commits
      <4> QED
        BY <4>1 DEF Accepted, Coherent
    <3>2. CASE ~outcome.changed
      <4>1. \A column \in Columns : row[column] = positions[r][column]
        BY <1>4, <1>6, <3>2
      <4>2. Coherent(positions[r]) => Coherent(row)
        BY <4>1 DEF Coherent, Columns
      <4>3. row.status = positions[r].status
        BY <4>1 DEF Columns
      <4> QED
        BY <1>1, <1>4, <4>2, <4>3 DEF RowsAreCoherent
    <3> QED
      BY <3>1, <3>2
  <2>2. \A s \in Risks :
          /\ trades'[s].status # "filled" => positions'[s] = NoRow
          /\ positions'[s].status = "open" => Coherent(positions'[s])
    BY <1>1, <1>3, <1>4, <1>5, <1>7, <2>1 DEF RowsAreCoherent
  <2>3. \A v \in Requests :
          /\ requests'[v].kind = "execute" => approvals'[requests'[v].risk] # NoApproval
          /\ requests'[v].kind = "monitor" =>
               /\ requests'[v].loaded.status = "open" /\ Coherent(requests'[v].loaded)
               /\ trades'[requests'[v].risk].status = "filled"
    BY <1>1, <1>3 DEF RowsAreCoherent, TypeOK, Idle
  <2> QED
    BY <2>2, <2>3 DEF RowsAreCoherent
<1>11. LedgerReconciles'
  <2>1. Reconciles(outcome.snapshot, outcome.positions)
    BY <1>3 DEF Commits
  <2> QED
    BY <1>3, <2>1 DEF LedgerReconciles, Reconciles
<1>12. SnapshotBalances'
  <2>1. CASE ~outcome.changed
    BY <1>1, <1>3, <1>4, <2>1 DEF SnapshotBalances
  <2>2. CASE outcome.changed
    <3> DEFINE kept == decision.after
    <3>1. snapshot' = AfterDecision(loaded, decision)
      BY <1>3, <1>4, <2>2
    <3>2. /\ snapshot'.current = snapshot.current + (kept.realized - loaded.realized)
          /\ snapshot'.realized = snapshot.realized + (kept.realized - loaded.realized)
          /\ snapshot'.cash = snapshot.cash + decision.proceeds
          /\ snapshot'.available = snapshot.available + decision.proceeds
          /\ snapshot'.committed = snapshot.committed + kept.total - loaded.total
          /\ snapshot'.openValue = snapshot.openValue + (kept.value - loaded.value)
          /\ snapshot'.unrealized =
               snapshot.unrealized + kept.unrealized - loaded.unrealized
          /\ snapshot'.total = snapshot.total + decision.proceeds + (kept.value - loaded.value)
      BY <1>4, <1>5, <3>1, AfterDecisionType
    <3>3. /\ kept.realized - loaded.realized = decision.proceeds - (loaded.total - kept.total)
          /\ kept.unrealized = kept.value - kept.total
          /\ loaded.unrealized = loaded.value - loaded.total
          /\ decision.proceeds \in Nat /\ kept \in Rows
      BY <1>4 DEF Sound, Coherent
    <3>4. /\ kept.total \in Int /\ kept.value \in Int /\ kept.realized \in Int
          /\ kept.unrealized \in Int
          /\ loaded.total \in Int /\ loaded.value \in Int /\ loaded.realized \in Int
          /\ loaded.unrealized \in Int
      BY <1>4, <3>3, RowFields
    <3>5. /\ snapshot.current = StartingBankroll + snapshot.realized
          /\ snapshot.cash = snapshot.current - snapshot.committed
          /\ snapshot.available = snapshot.cash
          /\ snapshot.openValue = snapshot.committed + snapshot.unrealized
          /\ snapshot.total = snapshot.cash + snapshot.openValue
          /\ snapshot.cash >= 0
      BY <1>1 DEF SnapshotBalances
    <3>6. /\ snapshot.current \in Int /\ snapshot.cash \in Int /\ snapshot.committed \in Int
          /\ snapshot.available \in Int /\ snapshot.realized \in Int /\ snapshot.total \in Int
          /\ snapshot.openValue \in Int /\ snapshot.unrealized \in Int
          /\ StartingBankroll \in Int
      BY <1>5, MoneyAssumption DEF Snapshots
    <3> HIDE DEF kept
    <3>7. /\ snapshot'.current = StartingBankroll + snapshot'.realized
          /\ snapshot'.cash = snapshot'.current - snapshot'.committed
          /\ snapshot'.available = snapshot'.cash
          /\ snapshot'.openValue = snapshot'.committed + snapshot'.unrealized
          /\ snapshot'.total = snapshot'.cash + snapshot'.openValue
          /\ snapshot'.cash >= 0
      <4>1. snapshot'.current = StartingBankroll + snapshot'.realized
        BY <3>2, <3>4, <3>5, <3>6
      <4>2. snapshot'.cash = snapshot'.current - snapshot'.committed
        BY <3>2, <3>3, <3>4, <3>5, <3>6
      <4>3. snapshot'.available = snapshot'.cash
        BY <3>2, <3>5
      <4>4. snapshot'.openValue = snapshot'.committed + snapshot'.unrealized
        <5> DEFINE c == snapshot.committed + kept.total - loaded.total
                   u == snapshot.unrealized + kept.unrealized - loaded.unrealized
        <5>1. c + u = snapshot.openValue + (kept.value - loaded.value)
          BY <3>3, <3>4, <3>5, <3>6
        <5> QED
          BY <3>2, <5>1
      <4>5. snapshot'.total = snapshot'.cash + snapshot'.openValue
        BY <3>2, <3>3, <3>4, <3>5, <3>6
      <4>6. snapshot'.cash >= 0
        BY <3>2, <3>3, <3>5, <3>6
      <4> QED
        BY <4>1, <4>2, <4>3, <4>4, <4>5, <4>6
    <3>8. snapshot'.committed >= 0
      <4>1. \A s \in Risks : OpenColumn(positions', "total")[s] \in Nat
        <5>1. TAKE s \in Risks
        <5>2. positions'[s].total \in Int
          BY <1>9, RowFields DEF TypeOK
        <5>3. positions'[s].status = "open" => positions'[s].total > 0
          BY <1>10 DEF RowsAreCoherent, Coherent
        <5> QED
          BY <5>2, <5>3 DEF OpenColumn
      <4>2. OpenColumn(positions', "total") \in [Risks -> Nat]
        BY <4>1 DEF OpenColumn
      <4> QED
        BY <1>11, <4>2, TotalNonnegative DEF LedgerReconciles, Reconciles
    <3> QED
      BY <3>7, <3>8 DEF SnapshotBalances
  <2> QED
    BY <2>1, <2>2
<1>13. OneOpenPositionPerMarket'
  <2>1. \A s \in Risks : positions'[s].status = "open" =>
          positions[s].status = "open" /\ positions'[s].market = positions[s].market
    BY <1>4, <1>5, <1>7, <1>8
  <2> QED
    BY <1>1, <2>1 DEF OneOpenPositionPerMarket
<1> QED
  BY <1>9, <1>10, <1>11, <1>12, <1>13 DEF IInv

-----------------------------------------------------------------------------
(* The other steps leave positions and snapshot alone.                     *)

LEMMA QuietStep ==
  ASSUME IInv, UNCHANGED <<snapshot, positions>>, TypeOK', RowsAreCoherent'
  PROVE  IInv'
<1>1. LedgerReconciles' /\ SnapshotBalances' /\ OneOpenPositionPerMarket'
  BY DEF IInv, LedgerReconciles, Reconciles, SnapshotBalances, OneOpenPositionPerMarket
<1> QED
  BY <1>1 DEF IInv

LEMMA SourceStep ==
  ASSUME IInv, NEW m \in Markets,
         \/ \E quote \in Quotes : Publish(m, quote)
         \/ Lapse(m)
         \/ ChangeStatus(m)
         \/ \E payout \in Payouts : Resolve(m, payout)
  PROVE  IInv'
<1>1. TypeOK /\ RowsAreCoherent
  BY DEF IInv
<1>2. /\ changes' = [changes EXCEPT ![m] = @ + 1]
      /\ UNCHANGED <<approvals, snapshot, trades, positions, events, requests>>
  BY DEF Publish, Lapse, ChangeStatus, Resolve, Change
<1>3. sources[m] \in Sources
  BY <1>1 DEF TypeOK
<1>4. sources' \in [Markets -> Sources]
  <2>1. ASSUME NEW quote \in Quotes, Publish(m, quote)
        PROVE  sources' \in [Markets -> Sources]
    <3>1. [sources[m] EXCEPT !.tick = @ + 1, !.quote = quote, !.eligible = TRUE] \in Sources
      <4>1. sources[m].tick + 1 \in Nat
        BY <1>3 DEF Sources
      <4>2. TRUE \in BOOLEAN
        OBVIOUS
      <4>3. \A tick \in Nat, eligible \in BOOLEAN :
              [sources[m] EXCEPT !.tick = tick, !.quote = quote, !.eligible = eligible] \in Sources
        BY <1>3, Zenon DEF Sources
      <4> QED
        BY <4>1, <4>2, <4>3, Zenon
    <3>2. sources' = [sources EXCEPT ![m] =
            [sources[m] EXCEPT !.tick = @ + 1, !.quote = quote, !.eligible = TRUE]]
      BY <1>1, <2>1 DEF Publish, TypeOK, Sources
    <3> QED
      BY <1>1, <3>1, <3>2 DEF TypeOK
  <2>2. ASSUME Lapse(m)
        PROVE  sources' \in [Markets -> Sources]
    <3>1. [sources[m] EXCEPT !.eligible = FALSE] \in Sources
      BY <1>3 DEF Sources
    <3> QED
      BY <1>1, <2>2, <3>1 DEF Lapse, TypeOK
  <2>3. ASSUME ChangeStatus(m)
        PROVE  sources' \in [Markets -> Sources]
    <3>1. [sources[m] EXCEPT !.open = ~@] \in Sources
      BY <1>3, Zenon DEF Sources
    <3> QED
      BY <1>1, <2>3, <3>1 DEF ChangeStatus, TypeOK
  <2>4. ASSUME NEW payout \in Payouts, Resolve(m, payout)
        PROVE  sources' \in [Markets -> Sources]
    <3> DEFINE resolution ==
                 IF sources[m].resolution = NoResolution THEN payout ELSE Conflict
    <3>1. [sources[m] EXCEPT !.resolution = resolution] \in Sources
      BY <1>3 DEF Sources
    <3>2. sources' = [sources EXCEPT ![m] = [sources[m] EXCEPT !.resolution = resolution]]
      BY <1>1, <2>4 DEF Resolve, TypeOK
    <3> QED
      BY <1>1, <3>1, <3>2 DEF TypeOK
  <2> QED
    BY <2>1, <2>2, <2>3, <2>4
<1>5. changes' \in [Markets -> Nat]
  BY <1>1, <1>2 DEF TypeOK
<1>6. TypeOK'
  BY <1>1, <1>2, <1>4, <1>5 DEF TypeOK
<1>7. RowsAreCoherent'
  BY <1>1, <1>2 DEF RowsAreCoherent
<1> QED
  BY <1>2, <1>6, <1>7, QuietStep

LEMMA AuthorizeStep ==
  ASSUME IInv, NEW r \in Risks, NEW m \in Markets, NEW capital \in Capitals,
         Authorize(r, m, capital)
  PROVE  IInv'
<1> DEFINE approval == [market |-> m, capital |-> capital, tick |-> sources[m].tick,
                        sequence |-> snapshot.sequence]
<1>1. TypeOK /\ RowsAreCoherent
  BY DEF IInv
<1>2. /\ approvals[r] = NoApproval
      /\ approvals' = [approvals EXCEPT ![r] = approval]
      /\ UNCHANGED <<sources, changes, snapshot, trades, positions, events, requests>>
  BY DEF Authorize
<1>3. approval \in Approvals
  <2>1. sources[m].tick \in Nat /\ snapshot.sequence \in Nat
    BY <1>1 DEF TypeOK, Sources, Snapshots
  <2>2. capital \in Capitals
    OBVIOUS
  <2> QED
    BY <2>1, <2>2, MoneyAssumption DEF Approvals
<1> HIDE DEF approval
<1>4. TypeOK'
  BY <1>1, <1>2, <1>3 DEF TypeOK
<1>5. \A v \in Requests :
        requests'[v].kind = "execute" => approvals'[requests'[v].risk] # NoApproval
  <2>1. SUFFICES ASSUME NEW v \in Requests, requests[v].kind = "execute"
                 PROVE  approvals'[requests[v].risk] # NoApproval
    BY <1>2
  <2>2. approvals[requests[v].risk] # NoApproval
    BY <1>1, <2>1 DEF RowsAreCoherent
  <2> QED
    BY <1>1, <1>2, <2>2 DEF TypeOK
<1>6. RowsAreCoherent'
  BY <1>1, <1>2, <1>5 DEF RowsAreCoherent
<1> QED
  BY <1>2, <1>4, <1>6, QuietStep

LEMMA RequestStep ==
  ASSUME IInv, NEW w \in Requests,
         \/ \E r \in Risks : BeginExecution(w, r) \/ BeginMonitoring(w, r)
         \/ \E unexpired \in BOOLEAN : Reject(w, unexpired)
         \/ ReplayExecution(w) \/ ReplayMonitoring(w) \/ Abandon(w)
  PROVE  IInv'
<1>1. TypeOK /\ RowsAreCoherent
  BY DEF IInv
<1>2. ASSUME NEW r \in Risks, BeginExecution(w, r)
      PROVE  IInv'
  <2>1. /\ approvals[r] # NoApproval
        /\ requests' = [requests EXCEPT ![w] = [kind |-> "execute", risk |-> r]]
        /\ UNCHANGED <<sources, changes, approvals, snapshot, trades, positions, events>>
    BY <1>2 DEF BeginExecution
  <2>2. TypeOK'
    BY <1>1, <2>1 DEF TypeOK
  <2>3. RowsAreCoherent'
    BY <1>1, <2>1 DEF RowsAreCoherent, TypeOK
  <2> QED
    BY <2>1, <2>2, <2>3, QuietStep
<1>3. ASSUME NEW r \in Risks, BeginMonitoring(w, r)
      PROVE  IInv'
  <2>1. /\ positions[r].status = "open"
        /\ requests' = [requests EXCEPT ![w] =
             [kind |-> "monitor", risk |-> r, loaded |-> positions[r]]]
        /\ UNCHANGED <<sources, changes, approvals, snapshot, trades, positions, events>>
    BY <1>3 DEF BeginMonitoring
  <2>2. TypeOK'
    BY <1>1, <2>1 DEF TypeOK
  <2>3. Coherent(positions[r]) /\ trades[r].status = "filled"
    <3>1. NoRow.status = "none"
      BY DEF NoRow
    <3>2. positions[r] # NoRow
      BY <2>1, <3>1
    <3> QED
      BY <1>1, <2>1, <3>2 DEF RowsAreCoherent
  <2>4. RowsAreCoherent'
    BY <1>1, <2>1, <2>3 DEF RowsAreCoherent, TypeOK
  <2> QED
    BY <2>1, <2>2, <2>4, QuietStep
<1>4. ASSUME NEW unexpired \in BOOLEAN, Reject(w, unexpired)
      PROVE  IInv'
  <2> DEFINE r == requests[w].risk
  <2>1. /\ requests[w].kind = "execute" /\ trades[r].status = "none"
        /\ trades' = [trades EXCEPT ![r].status = "rejected"]
        /\ requests' = [requests EXCEPT ![w] = Idle]
        /\ UNCHANGED <<sources, changes, approvals, snapshot, positions, events>>
    BY <1>4 DEF Reject
  <2>2. r \in Risks
    BY <1>1, <2>1 DEF TypeOK, Idle
  <2> HIDE DEF r
  <2>3. [trades[r] EXCEPT !.status = "rejected"]
          \in [status : {"none", "filled", "rejected"}, opening : Rows]
    <3>1. trades[r] \in [status : {"none", "filled", "rejected"}, opening : Rows]
      BY <1>1, <2>2 DEF TypeOK
    <3> QED
      BY <3>1
  <2>4. TypeOK'
    BY <1>1, <2>1, <2>2, <2>3 DEF TypeOK
  <2>5. \A s \in Risks : trades'[s].status = "filled" <=> trades[s].status = "filled"
    BY <1>1, <2>1, <2>2 DEF TypeOK
  <2>6. ASSUME NEW v \in Requests, requests'[v].kind = "monitor"
        PROVE  requests'[v] = requests[v] /\ requests[v].risk \in Risks
    <3>1. v # w
      BY <1>1, <2>1, <2>6 DEF TypeOK, Idle
    <3>2. requests'[v] = requests[v]
      BY <1>1, <2>1, <3>1 DEF TypeOK
    <3> QED
      BY <1>1, <2>6, <3>2 DEF TypeOK, Idle
  <2>7. RowsAreCoherent'
    BY <1>1, <2>1, <2>5, <2>6 DEF RowsAreCoherent, TypeOK, Idle
  <2> QED
    BY <2>1, <2>4, <2>7, QuietStep
<1>5. CASE ReplayExecution(w) \/ ReplayMonitoring(w) \/ Abandon(w)
  <2>1. /\ requests' = [requests EXCEPT ![w] = Idle]
        /\ UNCHANGED <<sources, changes, approvals, snapshot, trades, positions, events>>
    BY <1>5 DEF ReplayExecution, ReplayMonitoring, Abandon
  <2>2. TypeOK'
    BY <1>1, <2>1 DEF TypeOK
  <2>3. RowsAreCoherent'
    BY <1>1, <2>1 DEF RowsAreCoherent, TypeOK, Idle
  <2> QED
    BY <2>1, <2>2, <2>3, QuietStep
<1> QED
  BY <1>2, <1>3, <1>4, <1>5

LEMMA Stuttering ==
  ASSUME IInv, UNCHANGED vars
  PROVE  IInv'
<1>1. TypeOK' /\ RowsAreCoherent' /\ UNCHANGED <<snapshot, positions>>
  BY DEF IInv, vars, TypeOK, RowsAreCoherent
<1> QED
  BY <1>1, QuietStep

LEMMA Inductive == IInv /\ [Next]_vars => IInv'
<1>1. SUFFICES ASSUME IInv, [Next]_vars PROVE IInv'
  OBVIOUS
<1>2. CASE UNCHANGED vars
  BY <1>1, <1>2, Stuttering
<1>3. ASSUME NEW m \in Markets,
             \/ \E quote \in Quotes : Publish(m, quote)
             \/ Lapse(m)
             \/ ChangeStatus(m)
             \/ \E payout \in Payouts : Resolve(m, payout)
      PROVE  IInv'
  BY <1>1, <1>3, SourceStep
<1>4. ASSUME NEW r \in Risks, NEW m \in Markets, NEW capital \in Capitals,
             Authorize(r, m, capital)
      PROVE  IInv'
  BY <1>1, <1>4, AuthorizeStep
<1>5. ASSUME NEW w \in Requests, Fill(w)
      PROVE  IInv'
  BY <1>1, <1>5, FillStep
<1>6. ASSUME NEW w \in Requests, Record(w)
      PROVE  IInv'
  BY <1>1, <1>6, RecordStep
<1>7. ASSUME NEW w \in Requests,
             \/ \E r \in Risks : BeginExecution(w, r) \/ BeginMonitoring(w, r)
             \/ \E unexpired \in BOOLEAN : Reject(w, unexpired)
             \/ ReplayExecution(w) \/ ReplayMonitoring(w) \/ Abandon(w)
      PROVE  IInv'
  BY <1>1, <1>7, RequestStep
<1> QED
  BY <1>1, <1>2, <1>3, <1>4, <1>5, <1>6, <1>7 DEF Next

LEMMA Invariance == Spec => []IInv
BY Initially, Inductive, PTL DEF Spec

\* Whatever is requested and whatever the sources do, each variable keeps to its
\* table (the column types of models/execution.py and models/portfolio.py).
THEOREM TypeTheorem == Spec => []TypeOK
BY Invariance, PTL DEF IInv

\* Every commit leaves the four totals of the head snapshot equal to the sums
\* over the positions, though execution never compares them.
THEOREM LedgerTheorem == Spec => []LedgerReconciles
BY Invariance, PTL DEF IInv

\* Every snapshot satisfies the balance equations of its CHECK constraints and
\* cash never goes below zero, with any rates, quotes and number of requests.
THEOREM BalanceTheorem == Spec => []SnapshotBalances
BY Invariance, PTL DEF IInv

\* No two open positions of the portfolio share a market: a request that still
\* holds a row it loaded while open cannot bring it back.
THEOREM OneOpenTheorem == Spec => []OneOpenPositionPerMarket
BY Invariance, PTL DEF IInv

-----------------------------------------------------------------------------
(* What a step may never do.                                               *)

LEMMA SpentOnce ==
  ASSUME TypeOK, [Next]_vars
  PROVE  \A s \in Risks : trades[s].status # "none" => trades'[s] = trades[s]
<1>1. CASE UNCHANGED trades
  BY <1>1
<1>2. ASSUME NEW w \in Requests, Fill(w) \/ \E unexpired \in BOOLEAN : Reject(w, unexpired)
      PROVE  \A s \in Risks : trades[s].status # "none" => trades'[s] = trades[s]
  <2>1. \A s \in Risks : s # requests[w].risk => trades'[s] = trades[s]
    BY <1>2 DEF Fill, Reject, TypeOK
  <2>2. trades[requests[w].risk].status = "none"
    BY <1>2 DEF Fill, Reject
  <2> QED
    BY <2>1, <2>2
<1> QED
  BY <1>1, <1>2 DEF Next, vars, Publish, Lapse, ChangeStatus, Resolve, Change, Authorize,
     BeginExecution, BeginMonitoring, ReplayExecution, ReplayMonitoring, Record, Abandon

\* A trade, once filled or rejected, is never written again.
THEOREM SpentOnceTheorem == Spec => AuthorizationIsSpentOnce
<1>1. TypeOK /\ [Next]_vars =>
        [\A r \in Risks : trades[r].status # "none" => trades'[r] = trades[r]]_vars
  BY SpentOnce
<1> QED
  BY <1>1, TypeTheorem, PTL DEF Spec, AuthorizationIsSpentOnce

FinalColumns == {"status", "quantity", "disposed", "total", "value", "realized"}

\* A stale request that would take cost or value out of a row that is already
\* closed makes the totals disagree, so it does not commit; and one that would
\* only take contracts leaves a row that ck_positions_lifecycle refuses.
LEMMA FinalRecord ==
  ASSUME IInv, NEW w \in Requests, Record(w), NEW s \in Risks,
         positions[s].status \in {"closed", "settled"}
  PROVE  \A column \in FinalColumns : positions'[s][column] = positions[s][column]
<1> DEFINE r == requests[w].risk
           loaded == requests[w].loaded
           decision == Decide(loaded, sources[loaded.market])
           outcome == Outcome(w)
           after == outcome.event.after
           row == Flush(positions[r], loaded, after)
<1>1. TypeOK /\ RowsAreCoherent /\ LedgerReconciles /\ IInv'
  BY RecordStep DEF IInv
<1>2. requests[w].kind = "monitor" /\ Commits(outcome) /\ positions' = outcome.positions
      /\ snapshot' = outcome.snapshot
  BY DEF Record
<1>3. /\ r \in Risks /\ loaded \in Rows /\ loaded.status = "open" /\ Coherent(loaded)
      /\ Sound(loaded, decision) /\ outcome.risk = r
      /\ outcome.positions = [positions EXCEPT ![r] = row]
      /\ outcome.changed <=> decision.after # loaded
      /\ outcome.changed => outcome.snapshot = AfterDecision(loaded, decision)
      /\ ~outcome.changed => outcome.snapshot = snapshot /\ after = loaded
      /\ after \in Rows
      /\ \A column \in Columns \ {"version"} : after[column] = decision.after[column]
  BY <1>1, <1>2, OutcomeType
<1> HIDE DEF r, loaded, decision, outcome, after
<1>4. positions \in [Risks -> Rows] /\ snapshot \in Snapshots
  BY <1>1 DEF TypeOK
<1>5. /\ row \in Rows
      /\ \A column \in Columns :
           row[column] = IF after[column] = loaded[column]
                         THEN positions[r][column] ELSE after[column]
  BY <1>3, <1>4, FlushType
<1> HIDE DEF row
<1>6. positions' = [positions EXCEPT ![r] = row]
  BY <1>2, <1>3
<1>7. CASE s # r
  BY <1>3, <1>4, <1>6, <1>7
<1>8. CASE s = r /\ ~outcome.changed
  <2>1. \A column \in Columns : row[column] = positions[r][column]
    BY <1>3, <1>5, <1>8
  <2> QED
    BY <1>3, <1>4, <1>6, <1>8, <2>1 DEF Columns, FinalColumns
<1>9. CASE s = r /\ outcome.changed
  <2>1. row.status # "open"
    <3>1. row.status = IF after.status = loaded.status
                       THEN positions[r].status ELSE after.status
      BY <1>5 DEF Columns
    <3> QED
      BY <1>3, <1>9, <3>1
  <2>2. \A column \in {"total", "value"} :
          OpenColumn(positions', column) = OpenColumn(positions, column)
    BY <1>3, <1>4, <1>6, <1>9, <2>1 DEF OpenColumn
  <2>3. /\ snapshot'.committed = snapshot.committed
        /\ snapshot'.openValue = snapshot.openValue
    <3>1. Reconciles(snapshot, positions) /\ Reconciles(snapshot', positions')
      BY <1>2 DEF Commits
    <3> QED
      BY <2>2, <3>1 DEF Reconciles
  <2>4. /\ snapshot'.committed = snapshot.committed + decision.after.total - loaded.total
        /\ snapshot'.openValue = snapshot.openValue + (decision.after.value - loaded.value)
    <3>1. snapshot' = AfterDecision(loaded, decision)
      BY <1>2, <1>3, <1>9
    <3> QED
      BY <1>3, <1>4, <3>1, AfterDecisionType
  <2>5. decision.after \in Rows
    BY <1>3 DEF Sound
  <2>6. decision.after.total = loaded.total /\ decision.after.value = loaded.value
    <3>1. /\ decision.after.total \in Int /\ loaded.total \in Int
          /\ decision.after.value \in Int /\ loaded.value \in Int
      BY <1>3, <2>5, RowFields
    <3>2. snapshot.committed \in Int /\ snapshot.openValue \in Int
      BY <1>4 DEF Snapshots
    <3>3. /\ snapshot.committed = snapshot.committed + decision.after.total - loaded.total
          /\ snapshot.openValue = snapshot.openValue + (decision.after.value - loaded.value)
      BY <2>3, <2>4
    <3>4. decision.after.total = loaded.total
      BY <3>1, <3>2, <3>3
    <3>5. decision.after.value = loaded.value
      BY <3>1, <3>2, <3>3
    <3> QED
      BY <3>4, <3>5
  <2>7. decision.after.quantity = loaded.quantity
    <3>1. loaded.total > 0
      BY <1>3 DEF Coherent
    <3>2. decision.after.status = "open" /\ decision.after.quantity >= 1
      BY <1>3, <2>6, <3>1 DEF Sound
    <3>3. Accepted(row)
      BY <1>2, <1>3, <1>4, <1>9 DEF Commits
    <3>4. row.quantity = 0
      BY <2>1, <3>3 DEF Accepted
    <3>5. row.quantity = IF after.quantity = loaded.quantity
                         THEN positions[r].quantity ELSE after.quantity
      BY <1>5 DEF Columns
    <3>6. after.quantity = decision.after.quantity
      BY <1>3 DEF Columns
    <3> QED
      BY <3>2, <3>4, <3>5, <3>6
  <2>8. \A column \in FinalColumns : after[column] = loaded[column]
    <3>1. \A column \in FinalColumns : after[column] = decision.after[column]
      BY <1>3 DEF Columns, FinalColumns
    <3>2. \A column \in FinalColumns : decision.after[column] = loaded[column]
      BY <1>3, <2>6, <2>7 DEF Sound, FinalColumns
    <3> QED
      BY <3>1, <3>2
  <2>9. \A column \in FinalColumns : row[column] = positions[r][column]
    BY <1>5, <2>8 DEF Columns, FinalColumns
  <2> QED
    BY <1>3, <1>4, <1>6, <1>9, <2>9
<1> QED
  BY <1>7, <1>8, <1>9

LEMMA FinalFill ==
  ASSUME IInv, NEW w \in Requests, Fill(w), NEW s \in Risks,
         positions[s].status \in {"closed", "settled"}
  PROVE  positions'[s] = positions[s]
<1>1. trades[requests[w].risk].status = "none"
  BY DEF Fill
<1>2. requests[w].risk \in Risks
  BY DEF IInv, TypeOK, Fill, Idle
<1>3. positions[requests[w].risk] = NoRow
  BY <1>1, <1>2 DEF IInv, RowsAreCoherent
<1>4. s # requests[w].risk
  BY <1>3 DEF NoRow
<1> QED
  BY <1>4 DEF Fill, IInv, TypeOK

LEMMA FinalStep ==
  ASSUME IInv, [Next]_vars, NEW s \in Risks, positions[s].status \in {"closed", "settled"}
  PROVE  \A column \in FinalColumns : positions'[s][column] = positions[s][column]
<1>1. CASE UNCHANGED positions
  BY <1>1
<1>2. ASSUME NEW w \in Requests, Fill(w)
      PROVE  positions'[s] = positions[s]
  BY <1>2, FinalFill
<1>3. ASSUME NEW w \in Requests, Record(w)
      PROVE  \A column \in FinalColumns : positions'[s][column] = positions[s][column]
  BY <1>3, FinalRecord
<1> QED
  BY <1>1, <1>2, <1>3 DEF Next, vars, Publish, Lapse, ChangeStatus, Resolve, Change,
     Authorize, BeginExecution, BeginMonitoring, Reject, ReplayExecution,
     ReplayMonitoring, Abandon

\* A closed or settled position keeps its status, contracts, cost and profit for
\* good, though the row is flushed from an object loaded while it was open.
THEOREM FinalTheorem == Spec => TerminalIsFinal
<1>1. IInv /\ [Next]_vars =>
        [\A r \in Risks :
           positions[r].status \in {"closed", "settled"} =>
             \A column \in {"status", "quantity", "disposed", "total", "value", "realized"} :
               positions'[r][column] = positions[r][column]]_vars
  BY FinalStep DEF FinalColumns
<1> QED
  BY <1>1, Invariance, PTL DEF Spec, TerminalIsFinal

-----------------------------------------------------------------------------
(* Cash and the immutable records.                                         *)

Costs == [r \in Risks |-> trades[r].opening.total]

Incomes == [r \in Risks |-> SumOver(events[r], "proceeds")]

\* What is not filled has cost nothing.
Unopened == \A r \in Risks : trades[r].status # "filled" => trades[r].opening = NoRow

SumColumns == {"quantity", "proceeds", "released"}

LEMMA ColumnSumType ==
  ASSUME NEW history \in Seq(Events), NEW column \in SumColumns
  PROVE  SumOver(history, column) \in Int
<1> DEFINE amounts == [i \in 1..Len(history) |-> history[i][column]]
<1>1. Len(history) \in Nat /\ \A i \in 1..Len(history) : history[i] \in Events
  OBVIOUS
<1>2. amounts \in [1..Len(history) -> Int]
  BY <1>1 DEF Events, SumColumns
<1> HIDE DEF amounts
<1>3. TotalOf(Len(history), amounts) \in Int
  BY <1>1, <1>2, RowTotalType
<1> QED
  BY <1>3 DEF SumOver, amounts

\* An event more adds its amount.
LEMMA ColumnSumAppend ==
  ASSUME NEW history \in Seq(Events), NEW event \in Events, NEW column \in SumColumns
  PROVE  SumOver(Append(history, event), column) = SumOver(history, column) + event[column]
<1> DEFINE n == Len(history)
           longer == Append(history, event)
           amounts == [i \in 1..(n + 1) |-> longer[i][column]]
           shorter == [i \in 1..n |-> amounts[i]]
<1>1. /\ n \in Nat /\ longer \in Seq(Events) /\ Len(longer) = n + 1
      /\ \A i \in 1..n : longer[i] = history[i]
      /\ longer[n + 1] = event
  OBVIOUS
<1> HIDE DEF n, longer
<1>2. amounts \in [1..(n + 1) -> Int]
  <2>1. \A i \in 1..(n + 1) : longer[i] \in Events
    BY <1>1
  <2> QED
    BY <2>1 DEF Events, SumColumns
<1>3. amounts[n + 1] = event[column]
  BY <1>1
<1>4. shorter = [i \in 1..n |-> history[i][column]]
  BY <1>1
<1>5. SumOver(longer, column) = TotalOf(n + 1, amounts)
  BY <1>1 DEF SumOver
<1>6. SumOver(history, column) = TotalOf(n, shorter)
  BY <1>4 DEF SumOver, n
<1> HIDE DEF amounts
<1>7. TotalOf(n + 1, amounts) = TotalOf(n, shorter) + amounts[n + 1]
  BY <1>1, <1>2, RowTotalExtend
<1> QED
  BY <1>3, <1>5, <1>6, <1>7 DEF longer

LEMMA NothingSummed ==
  ASSUME NEW column \in SumColumns
  PROVE  SumOver(<<>>, column) = 0
<1> DEFINE amounts == [i \in 1..Len(<<>>) |-> <<>>[i][column]]
<1>1. Len(<<>>) = 0 /\ 0 \in Nat
  OBVIOUS
<1>2. amounts \in [1..0 -> {0}]
  BY <1>1
<1> HIDE DEF amounts
<1>3. TotalOf(0, amounts) = 0
  BY <1>1, <1>2, RowTotalOfNothing
<1> QED
  BY <1>1, <1>3 DEF SumOver, amounts

LEMMA CostsType ==
  ASSUME TypeOK
  PROVE  /\ Costs \in [Risks -> Int] /\ Incomes \in [Risks -> Int]
         /\ Total(Costs) \in Int /\ Total(Incomes) \in Int
<1>1. Costs \in [Risks -> Int]
  <2>1. \A r \in Risks : trades[r].opening \in Rows
    BY DEF TypeOK
  <2> QED
    BY <2>1, RowFields DEF Costs
<1>2. Incomes \in [Risks -> Int]
  <2>1. \A r \in Risks : events[r] \in Seq(Events)
    BY DEF TypeOK
  <2> QED
    BY <2>1, ColumnSumType DEF Incomes, SumColumns
<1> QED
  BY <1>1, <1>2, TotalType

LEMMA CashFill ==
  ASSUME IInv, CashFollowsHistory, Unopened, NEW w \in Requests, Fill(w)
  PROVE  CashFollowsHistory' /\ Unopened'
<1> DEFINE r == requests[w].risk
           row == Opening(r)
<1>1. TypeOK /\ RowsAreCoherent
  BY DEF IInv
<1>2. r \in Risks /\ requests[w].kind = "execute"
  BY <1>1 DEF Fill, TypeOK, Idle
<1>3. approvals[r] \in Approvals
  <2>1. approvals[r] # NoApproval
    BY <1>1, <1>2 DEF RowsAreCoherent
  <2> QED
    BY <1>1, <1>2, <2>1 DEF TypeOK
<1>4. trades[r].status = "none" /\ Qualifies(r)
  BY DEF Fill
<1>5. /\ snapshot' = AfterEntry(row)
      /\ trades' = [trades EXCEPT ![r] = [status |-> "filled", opening |-> row]]
      /\ UNCHANGED events
  BY DEF Fill
<1>6. row.total \in Int
  BY <1>1, <1>2, <1>3, <1>4, OpeningType
<1> HIDE DEF r, row
<1>7. trades[r].opening.total = 0
  <2>1. trades[r].opening = NoRow
    BY <1>2, <1>4 DEF Unopened
  <2>2. NoRow.total = 0
    BY DEF NoRow
  <2> QED
    BY <2>1, <2>2
<1>8. Costs' = [Costs EXCEPT ![r] = row.total] /\ Costs[r] = 0
  BY <1>1, <1>2, <1>5, <1>7 DEF Costs, TypeOK
<1>9. Incomes' = Incomes
  BY <1>5 DEF Incomes
<1>10. Total(Costs') = Total(Costs) + row.total
  <2>1. Costs \in [Risks -> Int] /\ Total(Costs) \in Int
    BY <1>1, CostsType
  <2>2. Total([Costs EXCEPT ![r] = row.total]) = Total(Costs) - Costs[r] + row.total
    BY <1>2, <1>6, <2>1, TotalUpdate
  <2> QED
    BY <1>6, <1>8, <2>1, <2>2
<1>11. snapshot'.cash = snapshot.cash - row.total
  BY <1>1, <1>5 DEF AfterEntry, TypeOK, Snapshots
<1>12. CashFollowsHistory'
  <2>1. Total(Costs) \in Int /\ Total(Incomes) \in Int
    BY <1>1, CostsType
  <2>2. snapshot.cash = StartingBankroll - Total(Costs) + Total(Incomes)
    BY DEF CashFollowsHistory, Costs, Incomes
  <2>3. snapshot'.cash = StartingBankroll - Total(Costs') + Total(Incomes')
    BY <1>6, <1>9, <1>10, <1>11, <2>1, <2>2, MoneyAssumption
  <2> QED
    BY <2>3 DEF CashFollowsHistory, Costs, Incomes
<1>13. Unopened'
  BY <1>1, <1>2, <1>5 DEF Unopened, TypeOK
<1> QED
  BY <1>12, <1>13

\* A stale row may spoil an event's proceeds, and then the snapshot has the same.
LEMMA CashRecord ==
  ASSUME IInv, CashFollowsHistory, Unopened, NEW w \in Requests, Record(w)
  PROVE  CashFollowsHistory' /\ Unopened'
<1> DEFINE r == requests[w].risk
           loaded == requests[w].loaded
           decision == Decide(loaded, sources[loaded.market])
           outcome == Outcome(w)
<1>1. TypeOK /\ RowsAreCoherent
  BY DEF IInv
<1>2. /\ requests[w].kind = "monitor" /\ snapshot' = outcome.snapshot
      /\ events' = [events EXCEPT ![outcome.risk] = Append(@, outcome.event)]
      /\ UNCHANGED trades
  BY DEF Record
<1>3. /\ r \in Risks /\ loaded \in Rows /\ Sound(loaded, decision)
      /\ outcome.risk = r /\ outcome.event \in Events
      /\ outcome.changed <=> decision.after # loaded
      /\ outcome.changed => outcome.snapshot = AfterDecision(loaded, decision)
      /\ ~outcome.changed => outcome.snapshot = snapshot
  BY <1>1, <1>2, OutcomeType
<1>4. outcome.event.proceeds = decision.proceeds
  BY DEF Outcome, EventRecord
<1> HIDE DEF r, loaded, decision, outcome
<1>5. decision.proceeds \in Int
  BY <1>3 DEF Sound
<1>6. snapshot'.cash = snapshot.cash + decision.proceeds
  <2>1. snapshot \in Snapshots
    BY <1>1 DEF TypeOK
  <2>2. CASE outcome.changed
    BY <1>2, <1>3, <2>1, <2>2, AfterDecisionType
  <2>3. CASE ~outcome.changed
    <3>1. decision.proceeds = 0
      <4>1. loaded.realized \in Int /\ loaded.total \in Int
        BY <1>3, RowFields
      <4>2. loaded.realized - loaded.realized = decision.proceeds - (loaded.total - loaded.total)
        BY <1>3, <2>3 DEF Sound
      <4> QED
        BY <1>5, <4>1, <4>2
    <3>2. snapshot.cash \in Int
      BY <2>1 DEF Snapshots
    <3> QED
      BY <1>2, <1>3, <2>3, <3>1, <3>2
  <2> QED
    BY <2>2, <2>3
<1>7. events[r] \in Seq(Events) /\ events \in [Risks -> Seq(Events)]
  BY <1>1, <1>3 DEF TypeOK
<1>8. Incomes' = [Incomes EXCEPT ![r] = Incomes[r] + decision.proceeds]
  <2>1. events' = [events EXCEPT ![r] = Append(events[r], outcome.event)]
    BY <1>2, <1>3
  <2>2. SumOver(Append(events[r], outcome.event), "proceeds")
          = SumOver(events[r], "proceeds") + decision.proceeds
    BY <1>3, <1>4, <1>7, ColumnSumAppend DEF SumColumns
  <2>3. \A s \in Risks : SumOver(events'[s], "proceeds") =
          IF s = r THEN SumOver(events[r], "proceeds") + decision.proceeds
          ELSE SumOver(events[s], "proceeds")
    <3>1. SUFFICES ASSUME NEW s \in Risks
                   PROVE  SumOver(events'[s], "proceeds") =
                            IF s = r THEN SumOver(events[r], "proceeds") + decision.proceeds
                            ELSE SumOver(events[s], "proceeds")
      OBVIOUS
    <3>2. events'[s] = IF s = r THEN Append(events[r], outcome.event) ELSE events[s]
      BY <1>7, <2>1
    <3> QED
      BY <2>2, <3>2
  <2> QED
    BY <1>3, <2>3 DEF Incomes
<1>9. Costs' = Costs
  BY <1>2 DEF Costs
<1>10. Total(Incomes') = Total(Incomes) + decision.proceeds
  <2>1. Incomes \in [Risks -> Int] /\ Incomes[r] \in Int /\ Total(Incomes) \in Int
    BY <1>1, <1>3, CostsType
  <2>2. Incomes[r] + decision.proceeds \in Int
    BY <1>5, <2>1
  <2>3. Total([Incomes EXCEPT ![r] = Incomes[r] + decision.proceeds])
          = Total(Incomes) - Incomes[r] + (Incomes[r] + decision.proceeds)
    BY <1>3, <2>1, <2>2, TotalUpdate
  <2> QED
    BY <1>5, <1>8, <2>1, <2>3
<1>11. CashFollowsHistory'
  <2>1. Total(Costs) \in Int /\ Total(Incomes) \in Int
    BY <1>1, CostsType
  <2>2. snapshot.cash = StartingBankroll - Total(Costs) + Total(Incomes)
    BY DEF CashFollowsHistory, Costs, Incomes
  <2>3. snapshot'.cash = StartingBankroll - Total(Costs') + Total(Incomes')
    BY <1>5, <1>6, <1>9, <1>10, <2>1, <2>2, MoneyAssumption
  <2> QED
    BY <2>3 DEF CashFollowsHistory, Costs, Incomes
<1>12. Unopened'
  BY <1>2 DEF Unopened
<1> QED
  BY <1>11, <1>12

LEMMA CashReject ==
  ASSUME TypeOK, CashFollowsHistory, Unopened,
         NEW w \in Requests, NEW unexpired \in BOOLEAN, Reject(w, unexpired)
  PROVE  CashFollowsHistory' /\ Unopened'
<1> DEFINE r == requests[w].risk
<1>1. /\ trades' = [trades EXCEPT ![r].status = "rejected"]
      /\ trades[r].status = "none" /\ UNCHANGED <<snapshot, events>>
  BY DEF Reject
<1> HIDE DEF r
<1>2. \A s \in Risks : trades'[s].opening = trades[s].opening
  BY <1>1 DEF TypeOK
<1>3. \A s \in Risks : trades'[s].status = "filled" <=> trades[s].status = "filled"
  BY <1>1 DEF TypeOK
<1> QED
  BY <1>1, <1>2, <1>3 DEF CashFollowsHistory, Unopened

LEMMA CashStep ==
  ASSUME IInv, CashFollowsHistory, Unopened, [Next]_vars
  PROVE  CashFollowsHistory' /\ Unopened'
<1>1. CASE UNCHANGED <<snapshot, trades, events>>
  BY <1>1 DEF CashFollowsHistory, Unopened
<1>2. ASSUME NEW w \in Requests, Fill(w)
      PROVE  CashFollowsHistory' /\ Unopened'
  BY <1>2, CashFill
<1>3. ASSUME NEW w \in Requests, Record(w)
      PROVE  CashFollowsHistory' /\ Unopened'
  BY <1>3, CashRecord
<1>4. ASSUME NEW w \in Requests, NEW unexpired \in BOOLEAN, Reject(w, unexpired)
      PROVE  CashFollowsHistory' /\ Unopened'
  BY <1>4, CashReject DEF IInv
<1> QED
  BY <1>1, <1>2, <1>3, <1>4 DEF Next, vars, Publish, Lapse, ChangeStatus, Resolve, Change,
     Authorize, BeginExecution, BeginMonitoring, ReplayExecution, ReplayMonitoring, Abandon

LEMMA CashInitially ==
  ASSUME Init
  PROVE  CashFollowsHistory /\ Unopened
<1>1. TypeOK
  BY Initially DEF IInv
<1>2. /\ snapshot.cash = StartingBankroll
      /\ trades = [r \in Risks |-> [status |-> "none", opening |-> NoRow]]
      /\ events = [r \in Risks |-> <<>>]
  BY DEF Init
<1>3. Costs \in [Risks -> {0}]
  BY <1>2 DEF Costs, NoRow
<1>4. Incomes \in [Risks -> {0}]
  <2>1. SumOver(<<>>, "proceeds") = 0
    BY NothingSummed DEF SumColumns
  <2> QED
    BY <1>2, <2>1 DEF Incomes
<1>5. Total(Costs) = 0 /\ Total(Incomes) = 0
  BY <1>3, <1>4, TotalOfNothing
<1>6. snapshot.cash = StartingBankroll - Total(Costs) + Total(Incomes)
  BY <1>2, <1>5, MoneyAssumption
<1> QED
  BY <1>2, <1>6 DEF CashFollowsHistory, Unopened, Costs, Incomes

\* The cash of the ledger is the starting bankroll less what the filled trades
\* cost plus what the events brought in, though no request ever adds them up and
\* a request may judge a row it loaded before it waited.
THEOREM CashTheorem == Spec => []CashFollowsHistory
<1>1. Init => CashFollowsHistory /\ Unopened
  BY CashInitially
<1>2. IInv /\ CashFollowsHistory /\ Unopened /\ [Next]_vars => CashFollowsHistory' /\ Unopened'
  BY CashStep
<1> QED
  BY <1>1, <1>2, Invariance, PTL DEF Spec

-----------------------------------------------------------------------------
(* What a decision does to the contracts and their cost.                   *)

\* The columns a hold leaves alone.
HoldingColumns ==
  {"status", "market", "initial", "quantity", "disposed", "originalGross",
   "originalFees", "gross", "fees", "total", "realized"}

\* A contract of the position cost a cent or more.
Worth(row) == row.originalGross >= row.initial

\* A decision says how many contracts it moves, and for at most what a contract
\* can pay; those of a cent or more take some of the cost along, and a decision
\* that moves none leaves the holding as it is.
Moves(row, decision) ==
  LET after == decision.after
  IN  /\ decision.quantity = row.quantity - after.quantity
      /\ after.disposed = row.disposed + decision.quantity
      /\ decision.proceeds <= 100 * decision.quantity
      /\ after.initial = row.initial /\ after.originalGross = row.originalGross
      /\ after.originalFees = row.originalFees /\ after.version = row.version
      /\ after.quantity = 0 <=> after.status # "open"
      /\ decision.action = "close" <=> after.status = "closed"
      /\ decision.action = "settle" <=> after.status = "settled"
      /\ IF decision.quantity = 0
         THEN \A column \in HoldingColumns : after[column] = row[column]
         ELSE Worth(row) => after.total < row.total

LEMMA MovesHold ==
  ASSUME NEW row \in Rows, row.status = "open", Coherent(row)
  PROVE  Moves(row, Decision("hold", 0, 0, row))
<1>1. row.quantity \in Nat /\ row.disposed \in Nat /\ row.quantity >= 1
  BY RowFields DEF Coherent
<1> QED
  BY <1>1 DEF Moves, Decision

LEMMA MovesMark ==
  ASSUME NEW row \in Rows, row.status = "open", Coherent(row), NEW bid \in 0..(One - 1)
  PROVE  Moves(row, Decision("hold", 0, 0, Marked(row, bid)))
<1>1. PICK after : after = Marked(row, bid)
  OBVIOUS
<1>2. row.quantity \in Nat /\ row.disposed \in Nat /\ row.quantity >= 1
  BY RowFields DEF Coherent
<1>3. \A column \in HoldingColumns \union {"version"} : after[column] = row[column]
  BY <1>1 DEF Marked, Rows, HoldingColumns
<1>4. /\ after.quantity = row.quantity /\ after.disposed = row.disposed
      /\ after.initial = row.initial /\ after.originalGross = row.originalGross
      /\ after.originalFees = row.originalFees /\ after.version = row.version
      /\ after.status = row.status
  BY <1>3 DEF HoldingColumns
<1>5. Moves(row, Decision("hold", 0, 0, after))
  BY <1>2, <1>3, <1>4 DEF Moves, Decision
<1> QED
  BY <1>1, <1>5

LEMMA MovesEnd ==
  ASSUME NEW row \in Rows, row.status = "open", Coherent(row),
         NEW status \in {"closed", "settled"},
         NEW action, action = IF status = "closed" THEN "close" ELSE "settle",
         NEW price \in 0..One, NEW proceeds \in Nat, proceeds <= 100 * row.quantity
  PROVE  Moves(row, Decision(action, row.quantity, proceeds,
                             Ended(row, status, price, proceeds)))
<1>1. PICK after : after = Ended(row, status, price, proceeds)
  OBVIOUS
<1>2. /\ row.quantity \in Nat /\ row.disposed \in Nat /\ row.initial \in Nat
      /\ row.quantity >= 1 /\ row.initial = row.quantity + row.disposed
      /\ row.total \in Int /\ row.total > 0
  BY RowFields DEF Coherent
<1>3. /\ after.quantity = 0 /\ after.disposed = row.initial /\ after.total = 0
      /\ after.status = status
      /\ after.initial = row.initial /\ after.originalGross = row.originalGross
      /\ after.originalFees = row.originalFees /\ after.version = row.version
  BY <1>1 DEF Ended, Rows
<1>4. Moves(row, Decision(action, row.quantity, proceeds, after))
  BY <1>2, <1>3 DEF Moves, Decision
<1> QED
  BY <1>1, <1>4

LEMMA MovesReduce ==
  ASSUME NEW row \in Rows, row.status = "open", Coherent(row), row.quantity >= 2,
         NEW bid \in 0..(One - 1)
  PROVE  Moves(row, Reduce(row, bid))
<1> DEFINE moved == ReduceQuantity(row.quantity)
           proceeds == SaleProceeds(bid, moved)
           costs == Allocation(row.originalGross, row.disposed + moved, row.initial)
           cost == Allocation(row.originalGross, row.disposed, row.initial)
           dues == Allocation(row.originalFees, row.disposed + moved, row.initial)
           due == Allocation(row.originalFees, row.disposed, row.initial)
           after == Reduced(row, moved, bid)
<1>1. /\ row.quantity \in Nat /\ row.initial \in Nat \ {0} /\ row.disposed \in Nat
      /\ row.originalGross \in Nat /\ row.originalFees \in Nat
      /\ row.gross \in Int /\ row.fees \in Int
      /\ row.initial = row.quantity + row.disposed
      /\ row.total = row.gross + row.fees
  BY RowFields DEF Coherent
<1>2. moved \in 1..(row.quantity - 1)
  BY <1>1, ReduceLeavesOne
<1>3. bid \in Nat /\ bid \in 0..One
  BY OneType
<1>4. Reduce(row, bid) = Decision("reduce", moved, proceeds, after)
  BY DEF Reduce
<1>5. /\ after.quantity = row.quantity - moved /\ after.disposed = row.disposed + moved
      /\ after.initial = row.initial /\ after.originalGross = row.originalGross
      /\ after.originalFees = row.originalFees /\ after.version = row.version
      /\ after.status = row.status
      /\ after.total = (row.gross - (costs - cost)) + (row.fees - (dues - due))
  BY DEF Reduced, Marked, Rows
<1> HIDE DEF moved, after
<1>6. proceeds \in Nat /\ proceeds <= 100 * moved
  <2>1. moved \in Nat
    BY <1>1, <1>2
  <2>2. proceeds \in Nat /\ proceeds * UnitsPerCent <= bid * moved
    BY <1>3, <2>1, SaleBounds
  <2> QED
    BY <1>3, <2>1, <2>2, ProceedsBound
<1>7. /\ row.disposed + moved \in 0..row.initial /\ row.disposed \in 0..row.initial
      /\ row.disposed \in 0..(row.disposed + moved)
      /\ row.disposed + moved \in Nat /\ row.disposed < row.disposed + moved
      /\ row.disposed + moved < row.initial
  BY <1>1, <1>2
<1>8. (Worth(row) => cost < costs) /\ cost \in Nat /\ costs \in Nat
  <2>1. cost \in 0..row.originalGross /\ costs \in 0..row.originalGross
    BY <1>1, <1>7, AllocationBounds
  <2>2. Worth(row) => cost < costs
    BY <1>1, <1>7, AllocationRises DEF Worth
  <2> HIDE DEF cost, costs
  <2> QED
    BY <1>1, <2>1, <2>2
<1>9. due <= dues /\ due \in Nat /\ dues \in Nat
  <2>1. due \in 0..row.originalFees /\ dues \in 0..row.originalFees
    BY <1>1, <1>7, AllocationBounds
  <2>2. due <= dues
    BY <1>1, <1>7, AllocationMonotone
  <2> HIDE DEF due, dues
  <2> QED
    BY <1>1, <2>1, <2>2
<1> HIDE DEF cost, costs, due, dues, proceeds
<1>10. Worth(row) => after.total < row.total
  BY <1>1, <1>5, <1>8, <1>9
<1>11. Moves(row, Decision("reduce", moved, proceeds, after))
  BY <1>1, <1>2, <1>5, <1>6, <1>10 DEF Moves, Decision
<1> QED
  BY <1>4, <1>11

LEMMA DecideMoves ==
  ASSUME NEW row \in Rows, row.status = "open", Coherent(row), NEW source \in Sources
  PROVE  Moves(row, Decide(row, source))
<1> DEFINE bid == source.quote.bid
<1>1. row.quantity \in Nat /\ row.quantity >= 1
  BY RowFields DEF Coherent
<1>2. CASE Final(source)
  <2>1. source.resolution \in 0..One
    BY <1>2, QuoteAssumption DEF Final
  <2> DEFINE payout == source.resolution
             proceeds == SettlementProceeds(payout, row.quantity)
  <2>2. proceeds \in Nat /\ proceeds * UnitsPerCent <= payout * row.quantity
    <3>1. payout * row.quantity \in Nat
      BY <1>1, <2>1, OneType
    <3> QED
      BY <3>1, ScaleAssumption, FloorBounds DEF SettlementProceeds, FloorCents
  <2>3. proceeds <= 100 * row.quantity
    BY <1>1, <2>1, <2>2, ProceedsBound
  <2>4. Moves(row, Settle(row, payout))
    BY <2>1, <2>2, <2>3, MovesEnd DEF Settle
  <2> QED
    BY <1>2, <2>4 DEF Decide
<1>3. CASE ~Final(source) /\ ~Actionable(source)
  BY <1>3, MovesHold DEF Decide
<1>4. CASE ~Final(source) /\ Actionable(source)
  <2>1. bid \in 0..(One - 1)
    BY <1>4, QuoteAssumption DEF Actionable, Sources, QuoteRange
  <2>2. bid \in Nat /\ bid \in 0..One
    BY <2>1, OneType
  <2>3. Moves(row, Close(row, bid))
    <3>1. /\ SaleProceeds(bid, row.quantity) \in Nat
          /\ SaleProceeds(bid, row.quantity) * UnitsPerCent <= bid * row.quantity
      BY <1>1, <2>2, SaleBounds
    <3>2. SaleProceeds(bid, row.quantity) <= 100 * row.quantity
      BY <1>1, <2>2, <3>1, ProceedsBound
    <3>3. ExitPrice(bid) \in 0..One
      BY <2>2, OneType, ExitPriceType
    <3> QED
      BY <3>1, <3>2, <3>3, MovesEnd DEF Close
  <2>4. Moves(row, Decision("hold", 0, 0, Marked(row, bid)))
    BY <2>1, MovesMark
  <2>5. row.quantity # 1 => Moves(row, Reduce(row, bid))
    BY <1>1, <2>1, MovesReduce
  <2> QED
    BY <1>4, <2>3, <2>4, <2>5 DEF Decide
<1> QED
  BY <1>2, <1>3, <1>4

\* Two rows of the same holding, however they are marked.
Agrees(stored, loaded) ==
  \A column \in HoldingColumns : stored[column] = loaded[column]

\* The row a request loaded is the row there is, or contracts have left that
\* row since and took some of the cost with them.
Current ==
  /\ \A r \in Risks : positions[r].status = "open" => Worth(positions[r])
  /\ \A w \in Requests :
       requests[w].kind = "monitor" =>
         LET stored == positions[requests[w].risk]
             loaded == requests[w].loaded
         IN  /\ Worth(loaded)
             /\ Agrees(stored, loaded) \/ stored.total < loaded.total

\* What an event says of a position is what it did to the stored row.
Booked(before, row, event) ==
  /\ row.disposed = before.disposed + event.quantity
  /\ row.total = before.total - event.released
  /\ row.realized = before.realized + event.proceeds - event.released

Traded(before, row, event) ==
  /\ Booked(before, row, event)
  /\ row.quantity = before.quantity - event.quantity
  /\ row.initial = before.initial /\ row.originalGross = before.originalGross
  /\ event.proceeds \in 0..(100 * event.quantity)
  /\ IF event.quantity = 0
     THEN Agrees(row, before)
     ELSE /\ before.status = "open" /\ event.released > 0
          /\ row.total \in Nat /\ row.status \in {"open", "closed", "settled"}
          /\ row.quantity = 0 <=> row.status # "open"
          /\ row.status # "open" => row.total = 0

\* A request that moves contracts commits only on the row there is: on any other
\* the committed capital would no longer be the sum of the positions.
LEMMA RecordTrades ==
  ASSUME IInv, Current, NEW w \in Requests, Record(w)
  PROVE  LET r == requests[w].risk
             event == Outcome(w).event
             row == positions'[r]
         IN  /\ r \in Risks /\ event \in Events /\ row \in Rows
             /\ requests[w].kind = "monitor"
             /\ positions' = [positions EXCEPT ![r] = row]
             /\ events' = [events EXCEPT ![r] = Append(events[r], event)]
             /\ requests' = [requests EXCEPT ![w] = Idle]
             /\ UNCHANGED trades
             /\ Traded(positions[r], row, event)
<1> DEFINE r == requests[w].risk
           loaded == requests[w].loaded
           decision == Decide(loaded, sources[loaded.market])
           outcome == Outcome(w)
           after == outcome.event.after
           row == Flush(positions[r], loaded, after)
<1>1. TypeOK /\ RowsAreCoherent
  BY DEF IInv
<1>2. /\ requests[w].kind = "monitor" /\ Commits(outcome) /\ positions' = outcome.positions
      /\ snapshot' = outcome.snapshot
      /\ events' = [events EXCEPT ![outcome.risk] = Append(@, outcome.event)]
      /\ requests' = [requests EXCEPT ![w] = Idle] /\ UNCHANGED trades
  BY DEF Record
<1>3. /\ r \in Risks /\ loaded \in Rows /\ loaded.status = "open" /\ Coherent(loaded)
      /\ Sound(loaded, decision) /\ outcome.risk = r /\ outcome.event \in Events
      /\ outcome.positions = [positions EXCEPT ![r] = row]
      /\ outcome.changed <=> decision.after # loaded
      /\ outcome.changed => outcome.snapshot = AfterDecision(loaded, decision)
      /\ ~outcome.changed => outcome.snapshot = snapshot /\ after = loaded
      /\ after \in Rows
      /\ \A column \in Columns \ {"version"} : after[column] = decision.after[column]
  BY <1>1, <1>2, OutcomeType
<1>4. Worth(loaded) /\ (Agrees(positions[r], loaded) \/ positions[r].total < loaded.total)
  BY <1>2 DEF Current
<1>5. Moves(loaded, decision)
  <2>1. loaded.market \in Markets
    BY <1>3, RowFields
  <2> QED
    BY <1>1, <1>3, <2>1, DecideMoves, QuoteType
<1>6. /\ outcome.event.quantity = decision.quantity
      /\ outcome.event.proceeds = decision.proceeds
      /\ outcome.event.released = loaded.total - after.total
  BY DEF Outcome, EventRecord
<1> HIDE DEF r, loaded, decision, outcome, after
<1>7. positions \in [Risks -> Rows] /\ snapshot \in Snapshots /\ positions[r] \in Rows
  BY <1>1, <1>3 DEF TypeOK
<1>8. /\ row \in Rows
      /\ \A column \in Columns :
           row[column] = IF after[column] = loaded[column]
                         THEN positions[r][column] ELSE after[column]
  BY <1>3, <1>7, FlushType
<1> HIDE DEF row
<1>9. positions' = [positions EXCEPT ![r] = row] /\ positions'[r] = row
  BY <1>2, <1>3, <1>7
<1>10. PICK stored : stored = positions[r]
  OBVIOUS
<1>11. PICK event : event = outcome.event
  OBVIOUS
<1>12. PICK kept : kept = decision.after
  OBVIOUS
<1>13. \A column \in HoldingColumns : after[column] = kept[column]
  BY <1>3, <1>12 DEF HoldingColumns, Columns
<1>14. kept \in Rows
  BY <1>3, <1>12 DEF Sound
<1>15. /\ loaded.quantity \in Nat /\ loaded.disposed \in Nat /\ loaded.total \in Int
       /\ loaded.realized \in Int /\ loaded.total > 0 /\ loaded.quantity >= 1
       /\ kept.quantity \in Nat /\ kept.disposed \in Nat /\ kept.total \in Int
       /\ kept.realized \in Int
       /\ stored.quantity \in Nat /\ stored.disposed \in Nat /\ stored.total \in Int
       /\ stored.realized \in Int
  BY <1>3, <1>7, <1>10, <1>14, RowFields DEF Coherent
<1>16. /\ event.quantity = loaded.quantity - kept.quantity
       /\ kept.disposed = loaded.disposed + event.quantity
       /\ event.released = loaded.total - kept.total
       /\ kept.realized - loaded.realized = event.proceeds - event.released
       /\ event.quantity \in Nat /\ event.proceeds \in Nat
       /\ event.proceeds <= 100 * event.quantity
       /\ kept.quantity = 0 <=> kept.status # "open"
       /\ kept.status \in {"open", "closed", "settled"}
       /\ kept.status # "open" => kept.total = 0
       /\ kept.initial = loaded.initial /\ kept.originalGross = loaded.originalGross
       /\ event.quantity = 0 => \A column \in HoldingColumns : kept[column] = loaded[column]
       /\ event.quantity # 0 => kept.total < loaded.total
  <2>1. after.total = kept.total
    BY <1>13 DEF HoldingColumns
  <2>2. /\ decision.quantity = loaded.quantity - kept.quantity
        /\ kept.disposed = loaded.disposed + decision.quantity
        /\ decision.proceeds <= 100 * decision.quantity
        /\ kept.quantity = 0 <=> kept.status # "open"
        /\ kept.initial = loaded.initial /\ kept.originalGross = loaded.originalGross
        /\ decision.quantity = 0 => \A column \in HoldingColumns : kept[column] = loaded[column]
        /\ decision.quantity # 0 => kept.total < loaded.total
    BY <1>4, <1>5, <1>12 DEF Moves
  <2>3. /\ kept.realized - loaded.realized = decision.proceeds - (loaded.total - kept.total)
        /\ decision.quantity \in Nat /\ decision.proceeds \in Nat
        /\ kept.status \in {"open", "closed", "settled"}
        /\ kept.status # "open" => kept.total = 0
    BY <1>3, <1>12 DEF Sound
  <2> QED
    BY <1>6, <1>11, <2>1, <2>2, <2>3
<1>17. \A column \in HoldingColumns :
         row[column] = IF kept[column] = loaded[column] THEN stored[column] ELSE kept[column]
  BY <1>8, <1>10, <1>13 DEF HoldingColumns, Columns
<1>18. Traded(stored, row, event)
  <2>1. CASE event.quantity = 0
    <3>1. Agrees(row, stored)
      BY <1>16, <1>17, <2>1 DEF Agrees
    <3>2. kept.realized = loaded.realized /\ kept.total = loaded.total
      BY <1>16, <2>1 DEF HoldingColumns
    <3>3. event.released = 0 /\ event.proceeds = 0
      BY <1>15, <1>16, <2>1, <3>2
    <3>4. /\ row.quantity = stored.quantity /\ row.disposed = stored.disposed
          /\ row.total = stored.total /\ row.realized = stored.realized
          /\ row.initial = stored.initial /\ row.originalGross = stored.originalGross
      BY <3>1 DEF Agrees, HoldingColumns
    <3> QED
      BY <1>15, <2>1, <3>1, <3>3, <3>4 DEF Traded, Booked
  <2>2. CASE event.quantity # 0
    <3>1. kept.total < loaded.total
      BY <1>16, <2>2
    <3>2. outcome.changed
      BY <1>3, <1>12, <1>15, <3>1
    <3>3. row.total = kept.total
      BY <1>15, <1>17, <3>1 DEF HoldingColumns
    <3>4. row.status = IF kept.status = "open" THEN stored.status ELSE kept.status
      BY <1>3, <1>17 DEF HoldingColumns
    <3> DEFINE Open(some) == IF some.status = "open" THEN some.total ELSE 0
               column == OpenColumn(positions, "total")
    <3>5. Open(row) - Open(stored) = kept.total - loaded.total
      <4>1. /\ snapshot.committed = Total(column)
            /\ snapshot'.committed = Total(OpenColumn(positions', "total"))
        <5>1. Reconciles(snapshot, positions) /\ Reconciles(snapshot', positions')
          BY <1>2 DEF Commits
        <5> QED
          BY <5>1 DEF Reconciles
      <4>2. snapshot'.committed = snapshot.committed + kept.total - loaded.total
        <5>1. snapshot' = AfterDecision(loaded, decision)
          BY <1>2, <1>3, <3>2
        <5> QED
          BY <1>3, <1>7, <1>12, <5>1, AfterDecisionType
      <4>3. column \in [Risks -> Int] /\ Total(column) \in Int /\ column[r] = Open(stored)
        BY <1>3, <1>7, <1>10, ColumnType, TotalType DEF OpenColumn
      <4>4. OpenColumn(positions', "total") = [column EXCEPT ![r] = Open(row)]
        BY <1>3, <1>7, <1>9 DEF OpenColumn
      <4>5. Open(row) \in Int /\ Open(stored) \in Int
        BY <1>15, <3>3
      <4> HIDE DEF column, Open
      <4>6. Total([column EXCEPT ![r] = Open(row)]) = Total(column) - column[r] + Open(row)
        BY <1>3, <4>3, <4>5, TotalUpdate
      <4>7. snapshot'.committed = Total(column) - Open(stored) + Open(row)
        BY <4>1, <4>3, <4>4, <4>6
      <4>8. snapshot'.committed = Total(column) + kept.total - loaded.total
        BY <4>1, <4>2
      <4>9. Total(column) \in Int
        BY <4>3
      <4> QED
        BY <1>15, <4>5, <4>7, <4>8, <4>9
    <3>6. row.status = "open" => row.total > 0
      <4>1. Accepted(row)
        BY <1>2, <1>3, <1>9, <3>2, <1>7 DEF Commits
      <4> QED
        BY <4>1 DEF Accepted
    <3>7. stored.status = "open" /\ stored.total = loaded.total
      <4>1. CASE row.status = "open"
        <5>1. stored.status = "open"
          BY <1>16, <3>4, <4>1
        <5>2. kept.total - stored.total = kept.total - loaded.total
          BY <3>3, <3>5, <4>1, <5>1
        <5> QED
          BY <1>15, <5>1, <5>2
      <4>2. CASE row.status # "open"
        <5>1. Open(row) = 0
          BY <4>2
        <5>2. stored.status = "open"
          BY <1>15, <3>1, <3>5, <5>1
        <5>3. kept.status # "open" /\ kept.total = 0
          BY <1>16, <3>4, <4>2, <5>2
        <5> QED
          BY <1>15, <3>5, <5>1, <5>2, <5>3
      <4> QED
        BY <4>1, <4>2
    <3> HIDE DEF Open
    <3>8. Agrees(stored, loaded)
      BY <1>4, <1>10, <1>15, <3>7
    <3>9. \A name \in HoldingColumns : row[name] = kept[name] /\ stored[name] = loaded[name]
      BY <1>17, <3>8 DEF Agrees
    <3>10. /\ row.quantity = kept.quantity /\ row.disposed = kept.disposed
           /\ row.total = kept.total /\ row.realized = kept.realized
           /\ row.initial = kept.initial /\ row.originalGross = kept.originalGross
           /\ row.status = kept.status
           /\ stored.quantity = loaded.quantity /\ stored.disposed = loaded.disposed
           /\ stored.realized = loaded.realized /\ stored.initial = loaded.initial
           /\ stored.originalGross = loaded.originalGross
      BY <3>9 DEF HoldingColumns
    <3>11. /\ row.quantity = stored.quantity - event.quantity
           /\ row.disposed = stored.disposed + event.quantity
           /\ row.total = stored.total - event.released
           /\ row.realized = stored.realized + event.proceeds - event.released
           /\ event.released > 0
      BY <1>15, <1>16, <3>1, <3>7, <3>10
    <3>12. row.total \in Nat
      BY <1>15, <1>16, <3>6, <3>10
    <3>13. event.proceeds \in 0..(100 * event.quantity)
      BY <1>16
    <3> QED
      BY <1>16, <2>2, <3>7, <3>10, <3>11, <3>12, <3>13 DEF Traded, Booked
  <2> QED
    BY <2>1, <2>2
<1> QED
  BY <1>2, <1>3, <1>8, <1>9, <1>10, <1>11, <1>18 DEF r, outcome

-----------------------------------------------------------------------------
(* The positions and their history.  The theorems of this part are about    *)
(* contracts that cost a cent or more: a cheaper one can leave a position   *)
(* without taking a cent of the cost along, and then the totals of the      *)
(* ledger do not always tell a row that is out of date.                     *)

\* No contract is bought for less than a cent, the unit that cost is kept in.
EntriesOfACent ==
  \A quote \in Quotes : quote.ask > 0 => EntryPrice(quote.ask) >= UnitsPerCent

\* One decision's part of PositionFollowsHistory.
Follows(opening, row, history) ==
  /\ row.disposed = SumOver(history, "quantity")
  /\ row.total = opening.total - SumOver(history, "released")
  /\ row.realized = SumOver(history, "proceeds") - SumOver(history, "released")

LEMMA FollowsEach ==
  PositionFollowsHistory <=>
    \A r \in Risks : Follows(trades[r].opening, positions[r], events[r])
BY DEF PositionFollowsHistory, Follows

\* A position that is opened is what no event has done anything to yet.
LEMMA FollowsFill ==
  ASSUME TypeOK, PositionFollowsHistory, NEW r \in Risks, NEW row \in Rows,
         row.realized = 0, row.disposed = 0,
         positions[r] = NoRow, trades[r].opening = NoRow,
         trades' = [trades EXCEPT ![r] = [status |-> "filled", opening |-> row]],
         positions' = [positions EXCEPT ![r] = row], UNCHANGED events
  PROVE  PositionFollowsHistory'
<1>1. /\ positions \in [Risks -> Rows] /\ events[r] \in Seq(Events)
      /\ trades \in [Risks -> [status : {"none", "filled", "rejected"}, opening : Rows]]
      /\ row.total \in Int
  BY RowFields DEF TypeOK
<1>2. \A s \in Risks : Follows(trades[s].opening, positions[s], events[s])
  BY FollowsEach
<1>3. Follows(row, row, events[r])
  <2>1. NoRow.disposed = 0 /\ NoRow.total = 0 /\ NoRow.realized = 0
    BY DEF NoRow
  <2>2. \A column \in SumColumns : SumOver(events[r], column) \in Int
    BY <1>1, ColumnSumType
  <2>3. /\ 0 = SumOver(events[r], "quantity") /\ 0 = 0 - SumOver(events[r], "released")
        /\ 0 = SumOver(events[r], "proceeds") - SumOver(events[r], "released")
    BY <1>2, <2>1 DEF Follows
  <2>4. /\ SumOver(events[r], "quantity") = 0 /\ SumOver(events[r], "released") = 0
        /\ SumOver(events[r], "proceeds") = 0
    BY <2>2, <2>3 DEF SumColumns
  <2> QED
    BY <1>1, <2>4 DEF Follows
<1>4. \A s \in Risks : Follows(trades'[s].opening, positions'[s], events'[s])
  BY <1>1, <1>2, <1>3
<1> QED
  BY <1>4 DEF PositionFollowsHistory, Follows

\* An event more is what is done to the row.
LEMMA FollowsRecord ==
  ASSUME TypeOK, PositionFollowsHistory, NEW r \in Risks, NEW row \in Rows,
         NEW event \in Events, Booked(positions[r], row, event),
         positions' = [positions EXCEPT ![r] = row],
         events' = [events EXCEPT ![r] = Append(events[r], event)], UNCHANGED trades
  PROVE  PositionFollowsHistory'
<1>1. /\ positions \in [Risks -> Rows] /\ events \in [Risks -> Seq(Events)]
      /\ events[r] \in Seq(Events)
  BY DEF TypeOK
<1>2. PICK stored : stored = positions[r]
  OBVIOUS
<1>3. PICK history : history = events[r]
  OBVIOUS
<1>4. PICK opening : opening = trades[r].opening
  OBVIOUS
<1>5. \A s \in Risks : Follows(trades[s].opening, positions[s], events[s])
  BY FollowsEach
<1>6. /\ stored.total \in Int /\ stored.realized \in Int /\ stored.disposed \in Nat
      /\ event.quantity \in Nat /\ event.released \in Int /\ event.proceeds \in Int
      /\ opening.total \in Int
  <2>1. stored.total \in Int /\ stored.realized \in Int /\ stored.disposed \in Nat
    BY <1>1, <1>2, RowFields
  <2>2. event.quantity \in Nat /\ event.released \in Int /\ event.proceeds \in Int
    BY DEF Events
  <2>3. opening \in Rows
    BY <1>4 DEF TypeOK
  <2> QED
    BY <2>1, <2>2, <2>3, RowFields
<1>7. Follows(opening, row, Append(history, event))
  <2>1. Follows(opening, stored, history)
    BY <1>2, <1>3, <1>4, <1>5
  <2>2. \A column \in SumColumns :
          /\ SumOver(history, column) \in Int
          /\ SumOver(Append(history, event), column) = SumOver(history, column) + event[column]
    BY <1>1, <1>3, ColumnSumType, ColumnSumAppend
  <2>3. PICK sold : sold = SumOver(history, "quantity")
    OBVIOUS
  <2>4. PICK income : income = SumOver(history, "proceeds")
    OBVIOUS
  <2>5. PICK released : released = SumOver(history, "released")
    OBVIOUS
  <2>6. /\ sold \in Int /\ income \in Int /\ released \in Int
        /\ SumOver(Append(history, event), "quantity") = sold + event.quantity
        /\ SumOver(Append(history, event), "proceeds") = income + event.proceeds
        /\ SumOver(Append(history, event), "released") = released + event.released
    BY <2>2, <2>3, <2>4, <2>5 DEF SumColumns
  <2>7. /\ stored.disposed = sold /\ stored.total = opening.total - released
        /\ stored.realized = income - released
    BY <2>1, <2>3, <2>4, <2>5 DEF Follows
  <2>8. /\ row.disposed = stored.disposed + event.quantity
        /\ row.total = stored.total - event.released
        /\ row.realized = stored.realized + event.proceeds - event.released
    BY <1>2 DEF Booked
  <2>9. /\ row.disposed = sold + event.quantity
        /\ row.total = opening.total - (released + event.released)
        /\ row.realized = (income + event.proceeds) - (released + event.released)
    BY <1>6, <2>6, <2>7, <2>8, SMTT(30)
  <2> QED
    BY <2>6, <2>9 DEF Follows
<1>8. ASSUME NEW s \in Risks
      PROVE  Follows(trades'[s].opening, positions'[s], events'[s])
  <2>1. CASE s = r
    <3>1. events'[s] = Append(history, event) /\ positions'[s] = row
          /\ trades'[s].opening = opening
      BY <1>1, <1>3, <1>4, <2>1
    <3> QED
      BY <1>7, <3>1
  <2>2. CASE s # r
    <3>1. events'[s] = events[s] /\ positions'[s] = positions[s] /\ trades' = trades
      BY <1>1, <2>2
    <3> QED
      BY <1>5, <3>1
  <2> QED
    BY <2>1, <2>2
<1> QED
  BY <1>8 DEF PositionFollowsHistory, Follows

LEMMA OpeningWorth ==
  ASSUME EntriesOfACent, TypeOK, NEW r \in Risks, approvals[r] \in Approvals, Qualifies(r)
  PROVE  Worth(Opening(r)) /\ Opening(r).disposed = 0 /\ Opening(r).quantity >= 1
<1> DEFINE m == approvals[r].market
           capital == approvals[r].capital
           quote == sources[m].quote
           price == EntryPrice(quote.ask)
           quantity == FillQuantity(price, capital)
           gross == EntryGross(price, quantity)
<1>1. m \in Markets /\ capital \in Nat
  BY MoneyAssumption DEF Approvals
<1>2. quote.ask \in Nat /\ quote.ask > 0 /\ quote \in Quotes
  <2>1. sources[m] \in Sources
    BY <1>1, QuoteType
  <2>2. quote \in Quotes
    BY <2>1 DEF Sources
  <2> QED
    BY <1>1, <2>2, QuoteType DEF Qualifies, ValidBook
<1>3. /\ Opening(r).originalGross = gross /\ Opening(r).initial = quantity
      /\ Opening(r).disposed = 0 /\ Opening(r).quantity = quantity /\ quantity >= 1
  BY DEF Opening, Qualifies
<1>4. price >= UnitsPerCent
  BY <1>2 DEF EntriesOfACent
<1> HIDE DEF m, capital, quote
<1>5. price \in Nat \ {0}
  BY <1>2, EntryPriceType
<1> HIDE DEF price
<1>6. quantity \in Nat
  BY <1>1, <1>5, FillIsLargest
<1> HIDE DEF quantity
<1>7. gross \in Nat /\ gross * UnitsPerCent >= price * quantity
  BY <1>5, <1>6, EntryType
<1> HIDE DEF gross
<1>8. gross >= quantity
  <2>1. UnitsPerCent \in Nat \ {0}
    BY ScaleAssumption
  <2>2. UnitsPerCent * quantity <= price * quantity
    BY <1>4, <1>5, <1>6, <2>1, ProductMonotone
  <2>3. quantity * UnitsPerCent <= gross * UnitsPerCent
    <3> DEFINE low == UnitsPerCent * quantity
               middle == price * quantity
               high == gross * UnitsPerCent
    <3>1. low \in Nat /\ middle \in Nat /\ high \in Nat /\ low = quantity * UnitsPerCent
      BY <1>5, <1>6, <1>7, <2>1
    <3>2. low <= middle /\ middle <= high
      BY <1>7, <2>2
    <3> HIDE DEF low, middle, high
    <3>3. low <= high
      BY <3>1, <3>2
    <3> QED
      BY <3>1, <3>3 DEF low, high
  <2>4. gross < quantity => (gross + 1) * UnitsPerCent <= quantity * UnitsPerCent
    BY <1>6, <1>7, <2>1, ProductMonotone
  <2>5. (gross + 1) * UnitsPerCent = gross * UnitsPerCent + UnitsPerCent
    BY <1>7, <2>1
  <2> DEFINE have == gross * UnitsPerCent
             want == quantity * UnitsPerCent
  <2>6. have \in Nat /\ want \in Nat
    BY <1>6, <1>7, <2>1
  <2>7. want <= have /\ (gross < quantity => have + UnitsPerCent <= want)
    BY <2>3, <2>4, <2>5
  <2> HIDE DEF have, want
  <2>8. ~(gross < quantity)
    BY <2>1, <2>6, <2>7
  <2> QED
    BY <1>6, <1>7, <2>8
<1> QED
  BY <1>3, <1>8 DEF Worth

HistoryInv == Current /\ PositionFollowsHistory

\* A fill opens the position its history starts at.
LEMMA HistoryFill ==
  ASSUME EntriesOfACent, IInv, Unopened, HistoryInv, NEW w \in Requests, Fill(w)
  PROVE  HistoryInv'
<1> DEFINE r == requests[w].risk
           row == Opening(r)
<1>1. TypeOK /\ RowsAreCoherent
  BY DEF IInv
<1>2. r \in Risks /\ requests[w].kind = "execute"
  BY <1>1 DEF Fill, TypeOK, Idle
<1>3. approvals[r] \in Approvals
  <2>1. approvals[r] # NoApproval
    BY <1>1, <1>2 DEF RowsAreCoherent
  <2> QED
    BY <1>1, <1>2, <2>1 DEF TypeOK
<1>4. trades[r].status = "none" /\ Qualifies(r)
  BY DEF Fill
<1>5. /\ trades' = [trades EXCEPT ![r] = [status |-> "filled", opening |-> row]]
      /\ positions' = [positions EXCEPT ![r] = row]
      /\ requests' = [requests EXCEPT ![w] = Idle] /\ UNCHANGED events
  BY DEF Fill
<1>6. row \in Rows /\ row.total \in Nat /\ row.realized = 0
  BY <1>1, <1>2, <1>3, <1>4, OpeningType
<1>7. Worth(row) /\ row.disposed = 0
  BY <1>1, <1>2, <1>3, <1>4, OpeningWorth
<1>8. positions[r] = NoRow /\ trades[r].opening = NoRow
  BY <1>1, <1>2, <1>4 DEF RowsAreCoherent, Unopened
<1> HIDE DEF r, row
<1>9. /\ positions \in [Risks -> Rows] /\ events[r] \in Seq(Events)
      /\ trades \in [Risks -> [status : {"none", "filled", "rejected"}, opening : Rows]]
  BY <1>1, <1>2 DEF TypeOK
<1>10. Current'
  <2>1. \A s \in Risks : positions'[s].status = "open" => Worth(positions'[s])
    BY <1>5, <1>7, <1>9 DEF HistoryInv, Current
  <2>2. ASSUME NEW v \in Requests, requests'[v].kind = "monitor"
        PROVE  LET stored == positions'[requests'[v].risk]
                   loaded == requests'[v].loaded
               IN  Worth(loaded) /\ (Agrees(stored, loaded) \/ stored.total < loaded.total)
    <3>1. v # w
      BY <1>1, <1>5, <2>2 DEF TypeOK, Idle
    <3>2. requests'[v] = requests[v]
      BY <1>1, <1>5, <3>1 DEF TypeOK
    <3>3. requests[v].risk \in Risks
      BY <1>1, <2>2, <3>2 DEF TypeOK, Idle
    <3>4. requests[v].risk # r
      BY <1>1, <1>4, <2>2, <3>2 DEF RowsAreCoherent, r
    <3>5. positions'[requests[v].risk] = positions[requests[v].risk]
      BY <1>5, <1>9, <3>3, <3>4
    <3> QED
      BY <2>2, <3>2, <3>5 DEF HistoryInv, Current
  <2> QED
    BY <2>1, <2>2 DEF Current
<1>11. PositionFollowsHistory'
  BY <1>1, <1>2, <1>5, <1>6, <1>7, <1>8, FollowsFill DEF HistoryInv
<1> QED
  BY <1>10, <1>11 DEF HistoryInv

\* An event that is recorded is what was done to the stored row; and a row that
\* contracts have left is out of date to every other request that holds it.
LEMMA HistoryRecord ==
  ASSUME IInv, HistoryInv, NEW w \in Requests, Record(w)
  PROVE  HistoryInv'
<1>1. TypeOK /\ RowsAreCoherent
  BY DEF IInv
<1>2. PICK r : r = requests[w].risk
  OBVIOUS
<1>3. PICK event : event = Outcome(w).event
  OBVIOUS
<1>4. PICK row : row = positions'[r]
  OBVIOUS
<1>5. PICK stored : stored = positions[r]
  OBVIOUS
<1>6. /\ r \in Risks /\ event \in Events /\ row \in Rows /\ requests[w].kind = "monitor"
      /\ positions' = [positions EXCEPT ![r] = row]
      /\ events' = [events EXCEPT ![r] = Append(events[r], event)]
      /\ requests' = [requests EXCEPT ![w] = Idle]
      /\ UNCHANGED trades
      /\ Traded(stored, row, event)
  BY <1>2, <1>3, <1>4, <1>5, RecordTrades DEF HistoryInv
<1>7. /\ positions \in [Risks -> Rows] /\ stored \in Rows /\ events[r] \in Seq(Events)
      /\ events \in [Risks -> Seq(Events)]
  BY <1>1, <1>5, <1>6 DEF TypeOK
<1>8. /\ stored.total \in Int /\ stored.realized \in Int /\ stored.disposed \in Nat
      /\ row.total \in Int
      /\ event.quantity \in Nat /\ event.released \in Int /\ event.proceeds \in Int
  <2>1. stored.total \in Int /\ stored.realized \in Int /\ stored.disposed \in Nat
    BY <1>7, RowFields
  <2>2. row.total \in Int
    BY <1>6, RowFields
  <2>3. event.quantity \in Nat /\ event.released \in Int /\ event.proceeds \in Int
    BY <1>6 DEF Events
  <2> QED
    BY <2>1, <2>2, <2>3
<1>9. Agrees(row, stored) \/ row.total < stored.total
  <2>1. CASE event.quantity = 0
    BY <1>6, <2>1 DEF Traded
  <2>2. CASE event.quantity # 0
    <3>1. event.released > 0 /\ row.total = stored.total - event.released
      BY <1>6, <2>2 DEF Traded, Booked
    <3> QED
      BY <1>8, <3>1
  <2> QED
    BY <2>1, <2>2
<1>10. Current'
  <2>1. row.status = "open" => Worth(row)
    <3>1. row.status = "open" => stored.status = "open"
      <4>1. CASE event.quantity = 0
        BY <1>6, <4>1 DEF Traded, Agrees, HoldingColumns
      <4>2. CASE event.quantity # 0
        BY <1>6, <4>2 DEF Traded
      <4> QED
        BY <4>1, <4>2
    <3>2. stored.status = "open" => Worth(stored)
      BY <1>5, <1>6 DEF HistoryInv, Current
    <3>3. row.initial = stored.initial /\ row.originalGross = stored.originalGross
      BY <1>6 DEF Traded
    <3> QED
      BY <3>1, <3>2, <3>3 DEF Worth
  <2>2. \A s \in Risks : positions'[s].status = "open" => Worth(positions'[s])
    BY <1>6, <1>7, <2>1 DEF HistoryInv, Current
  <2>3. ASSUME NEW v \in Requests, requests'[v].kind = "monitor"
        PROVE  LET now == positions'[requests'[v].risk]
                   loaded == requests'[v].loaded
               IN  Worth(loaded) /\ (Agrees(now, loaded) \/ now.total < loaded.total)
    <3>1. v # w
      BY <1>1, <1>6, <2>3 DEF TypeOK, Idle
    <3>2. requests'[v] = requests[v]
      BY <1>1, <1>6, <3>1 DEF TypeOK
    <3>3. requests[v].risk \in Risks /\ requests[v].loaded \in Rows
      BY <1>1, <2>3, <3>2 DEF TypeOK, Idle
    <3>4. PICK loaded : loaded = requests[v].loaded
      OBVIOUS
    <3>5. /\ Worth(loaded)
          /\ \/ Agrees(positions[requests[v].risk], loaded)
             \/ positions[requests[v].risk].total < loaded.total
      BY <2>3, <3>2, <3>4 DEF HistoryInv, Current
    <3>6. CASE requests[v].risk # r
      BY <1>6, <1>7, <3>2, <3>3, <3>4, <3>5, <3>6
    <3>7. CASE requests[v].risk = r
      <4>1. Agrees(stored, loaded) \/ stored.total < loaded.total
        BY <1>5, <3>5, <3>7
      <4>2. loaded.total \in Int
        BY <3>3, <3>4, RowFields
      <4>3. CASE Agrees(row, stored)
        <5>1. row.total = stored.total
          BY <4>3 DEF Agrees, HoldingColumns
        <5>2. Agrees(row, loaded) \/ row.total < loaded.total
          BY <4>1, <4>3, <5>1 DEF Agrees
        <5> QED
          BY <1>4, <3>2, <3>4, <3>5, <3>7, <5>2
      <4>4. CASE row.total < stored.total
        <5>1. stored.total <= loaded.total
          <6>1. Agrees(stored, loaded) => stored.total = loaded.total
            BY DEF Agrees, HoldingColumns
          <6> QED
            BY <1>8, <4>1, <4>2, <6>1
        <5>2. row.total < loaded.total
          BY <1>8, <4>2, <4>4, <5>1
        <5> QED
          BY <1>4, <3>2, <3>4, <3>5, <3>7, <5>2
      <4> QED
        BY <1>9, <4>3, <4>4
    <3> QED
      BY <3>6, <3>7
  <2> QED
    BY <2>2, <2>3 DEF Current
<1>11. PositionFollowsHistory'
  BY <1>1, <1>5, <1>6, FollowsRecord DEF HistoryInv, Traded
<1> QED
  BY <1>10, <1>11 DEF HistoryInv

LEMMA HistoryBegin ==
  ASSUME TypeOK, HistoryInv, NEW w \in Requests, NEW r \in Risks, BeginMonitoring(w, r)
  PROVE  HistoryInv'
<1>1. /\ positions[r].status = "open"
      /\ requests' = [requests EXCEPT ![w] =
           [kind |-> "monitor", risk |-> r, loaded |-> positions[r]]]
      /\ UNCHANGED <<trades, positions, events>>
  BY DEF BeginMonitoring
<1>2. PositionFollowsHistory'
  BY <1>1 DEF HistoryInv, PositionFollowsHistory
<1>3. ASSUME NEW v \in Requests, requests'[v].kind = "monitor"
      PROVE  LET stored == positions'[requests'[v].risk]
                 loaded == requests'[v].loaded
             IN  Worth(loaded) /\ (Agrees(stored, loaded) \/ stored.total < loaded.total)
  <2>1. CASE v = w
    <3>1. requests'[v].risk = r /\ requests'[v].loaded = positions[r]
      BY <1>1, <2>1 DEF TypeOK
    <3>2. Worth(positions[r]) /\ Agrees(positions[r], positions[r])
      BY <1>1 DEF HistoryInv, Current, Agrees
    <3> QED
      BY <1>1, <3>1, <3>2
  <2>2. CASE v # w
    <3>1. requests'[v] = requests[v]
      BY <1>1, <2>2 DEF TypeOK
    <3> QED
      BY <1>1, <1>3, <3>1 DEF HistoryInv, Current
  <2> QED
    BY <2>1, <2>2
<1>4. Current'
  BY <1>1, <1>3 DEF HistoryInv, Current
<1> QED
  BY <1>2, <1>4 DEF HistoryInv

\* A request that writes no position starts no monitoring either.
LEMMA HistoryQuiet ==
  ASSUME TypeOK, HistoryInv, UNCHANGED <<positions, events>>,
         \A s \in Risks : trades'[s].opening = trades[s].opening,
         \A v \in Requests : requests'[v].kind = "monitor" => requests'[v] = requests[v]
  PROVE  HistoryInv'
<1>1. PositionFollowsHistory'
  BY DEF HistoryInv, PositionFollowsHistory
<1>2. Current'
  BY DEF HistoryInv, Current
<1> QED
  BY <1>1, <1>2 DEF HistoryInv

LEMMA HistoryStep ==
  ASSUME EntriesOfACent, IInv, Unopened, HistoryInv, [Next]_vars
  PROVE  HistoryInv'
<1>1. TypeOK
  BY DEF IInv
<1>2. CASE UNCHANGED <<positions, events, trades, requests>>
  BY <1>1, <1>2, HistoryQuiet
<1>3. ASSUME NEW w \in Requests, Fill(w)
      PROVE  HistoryInv'
  BY <1>3, HistoryFill
<1>4. ASSUME NEW w \in Requests, Record(w)
      PROVE  HistoryInv'
  BY <1>4, HistoryRecord
<1>5. ASSUME NEW w \in Requests, NEW r \in Risks, BeginMonitoring(w, r)
      PROVE  HistoryInv'
  BY <1>1, <1>5, HistoryBegin
<1>6. ASSUME NEW w \in Requests, NEW r \in Risks, BeginExecution(w, r)
      PROVE  HistoryInv'
  <2>1. /\ UNCHANGED <<positions, events, trades>>
        /\ requests' = [requests EXCEPT ![w] = [kind |-> "execute", risk |-> r]]
    BY <1>6 DEF BeginExecution
  <2>2. \A v \in Requests : requests'[v].kind = "monitor" => requests'[v] = requests[v]
    BY <1>1, <2>1 DEF TypeOK
  <2> QED
    BY <1>1, <2>1, <2>2, HistoryQuiet
<1>7. ASSUME NEW w \in Requests,
             ReplayExecution(w) \/ ReplayMonitoring(w) \/ Abandon(w)
             \/ \E unexpired \in BOOLEAN : Reject(w, unexpired)
      PROVE  HistoryInv'
  <2>1. UNCHANGED <<positions, events>> /\ requests' = [requests EXCEPT ![w] = Idle]
    BY <1>7 DEF ReplayExecution, ReplayMonitoring, Abandon, Reject
  <2>2. \A v \in Requests : requests'[v].kind = "monitor" => requests'[v] = requests[v]
    BY <1>1, <2>1 DEF TypeOK, Idle
  <2>3. \A s \in Risks : trades'[s].opening = trades[s].opening
    <3>1. CASE UNCHANGED trades
      BY <3>1
    <3>2. CASE \E unexpired \in BOOLEAN : Reject(w, unexpired)
      BY <1>1, <3>2 DEF Reject, TypeOK
    <3> QED
      BY <1>7, <3>1, <3>2 DEF ReplayExecution, ReplayMonitoring, Abandon
  <2> QED
    BY <1>1, <2>1, <2>2, <2>3, HistoryQuiet
<1> QED
  BY <1>2, <1>3, <1>4, <1>5, <1>6, <1>7 DEF Next, vars, Publish, Lapse, ChangeStatus,
     Resolve, Change, Authorize

LEMMA HistoryInitially ==
  ASSUME Init
  PROVE  HistoryInv
<1>1. /\ trades = [r \in Risks |-> [status |-> "none", opening |-> NoRow]]
      /\ positions = [r \in Risks |-> NoRow]
      /\ events = [r \in Risks |-> <<>>]
      /\ requests = [w \in Requests |-> Idle]
  BY DEF Init
<1>2. /\ NoRow.status = "none" /\ NoRow.disposed = 0 /\ NoRow.total = 0
      /\ NoRow.realized = 0 /\ Idle.kind = "idle"
  BY DEF NoRow, Idle
<1>3. Current
  BY <1>1, <1>2 DEF Current
<1>4. \A column \in SumColumns : SumOver(<<>>, column) = 0
  BY NothingSummed
<1>5. PositionFollowsHistory
  <2>1. /\ SumOver(<<>>, "quantity") = 0 /\ SumOver(<<>>, "proceeds") = 0
        /\ SumOver(<<>>, "released") = 0
    BY <1>4 DEF SumColumns
  <2> QED
    BY <1>1, <1>2, <2>1 DEF PositionFollowsHistory
<1> QED
  BY <1>3, <1>5 DEF HistoryInv

LEMMA UnopenedInvariance == Spec => []Unopened
<1>1. Init => CashFollowsHistory /\ Unopened
  BY CashInitially
<1>2. IInv /\ CashFollowsHistory /\ Unopened /\ [Next]_vars => CashFollowsHistory' /\ Unopened'
  BY CashStep
<1> QED
  BY <1>1, <1>2, Invariance, PTL DEF Spec

LEMMA HistoryInvariance ==
  ASSUME EntriesOfACent
  PROVE  Spec => []HistoryInv
<1>1. Init => HistoryInv
  BY HistoryInitially
<1>2. IInv /\ Unopened /\ HistoryInv /\ [Next]_vars => HistoryInv'
  BY HistoryStep
<1> QED
  BY <1>1, <1>2, Invariance, UnopenedInvariance, PTL DEF Spec

\* A position is what its events did to the opening fill, with any number of
\* overlapping requests: what each of them wrote was computed from a row it had
\* loaded before the lock, and it committed only because that row was still the
\* one there was.
THEOREM HistoryTheorem ==
  ASSUME EntriesOfACent
  PROVE  Spec => []PositionFollowsHistory
BY HistoryInvariance, PTL DEF HistoryInv

-----------------------------------------------------------------------------
(* The positions as accounts of the paper ledger.                           *)

AccountTable == [r \in Risks |-> Account(positions[r])]

LedgerStarts == Ledger!LedgerInit

LedgerMoves == Ledger!LedgerNext

LEMMA LedgerInitially ==
  ASSUME Init
  PROVE  LedgerStarts
<1>1. positions = [r \in Risks |-> NoRow]
  BY DEF Init
<1>2. Account(NoRow) = Ledger!NoAccount
  BY DEF Account, NoRow, Ledger!NoAccount
<1> QED
  BY <1>1, <1>2 DEF LedgerStarts, Ledger!LedgerInit

\* One account changes at a time.
LEMMA OneAccount ==
  ASSUME positions \in [Risks -> Rows], NEW r \in Risks, NEW row \in Rows,
         positions' = [positions EXCEPT ![r] = row],
         Account(row) \in Ledger!AccountRows,
         \/ Account(positions[r]).stage = "none" /\ Ledger!Opened(Account(row))
         \/ Ledger!Sold(Account(positions[r]), Account(row))
  PROVE  LedgerMoves
<1>1. /\ AccountTable'[r] = Account(row) /\ AccountTable[r] = Account(positions[r])
      /\ AccountTable' = [AccountTable EXCEPT ![r] = Account(row)]
  BY DEF AccountTable
<1>2. /\ AccountTable'[r] \in Ledger!AccountRows
      /\ AccountTable' = [AccountTable EXCEPT ![r] = AccountTable'[r]]
      /\ \/ AccountTable[r].stage = "none" /\ Ledger!Opened(AccountTable'[r])
         \/ Ledger!Sold(AccountTable[r], AccountTable'[r])
  BY <1>1, Zenon
<1>3. Ledger!Move(r)
  BY <1>2 DEF Ledger!Move, AccountTable
<1> QED
  BY <1>3 DEF LedgerMoves, Ledger!LedgerNext

LEMMA LedgerFill ==
  ASSUME IInv, NEW w \in Requests, Fill(w)
  PROVE  LedgerMoves
<1> DEFINE r == requests[w].risk
           row == Opening(r)
<1>1. TypeOK /\ RowsAreCoherent
  BY DEF IInv
<1>2. r \in Risks /\ requests[w].kind = "execute"
  BY <1>1 DEF Fill, TypeOK, Idle
<1>3. approvals[r] \in Approvals
  <2>1. approvals[r] # NoApproval
    BY <1>1, <1>2 DEF RowsAreCoherent
  <2> QED
    BY <1>1, <1>2, <2>1 DEF TypeOK
<1>4. trades[r].status = "none" /\ Qualifies(r)
  BY DEF Fill
<1>5. positions' = [positions EXCEPT ![r] = row]
  BY DEF Fill
<1>6. row \in Rows /\ Coherent(row) /\ row.status = "open" /\ row.total \in Nat
      /\ row.realized = 0
  BY <1>1, <1>2, <1>3, <1>4, OpeningType
<1>7. positions[r] = NoRow /\ positions \in [Risks -> Rows]
  BY <1>1, <1>2, <1>4 DEF RowsAreCoherent, TypeOK
<1> HIDE DEF r, row
<1>8. row.quantity \in Nat /\ row.quantity >= 1 /\ row.total > 0
  BY <1>6, RowFields DEF Coherent
<1>9. Account(row) = [stage |-> "open", contracts |-> row.quantity, basis |-> row.total,
                      profit |-> 0]
  BY <1>6 DEF Account
<1>10. Account(row) \in Ledger!AccountRows
  BY <1>6, <1>8, <1>9 DEF Ledger!AccountRows, Ledger!Stages
<1>11. Ledger!Opened(Account(row))
  BY <1>8, <1>9 DEF Ledger!Opened
<1>12. Account(positions[r]).stage = "none"
  BY <1>7 DEF Account, NoRow
<1> QED
  BY <1>2, <1>5, <1>6, <1>7, <1>10, <1>11, <1>12, OneAccount

LEMMA LedgerRecord ==
  ASSUME IInv, HistoryInv, NEW w \in Requests, Record(w)
  PROVE  LedgerMoves \/ UNCHANGED AccountTable
<1>1. TypeOK /\ RowsAreCoherent
  BY DEF IInv
<1>2. PICK r : r = requests[w].risk
  OBVIOUS
<1>3. PICK event : event = Outcome(w).event
  OBVIOUS
<1>4. PICK row : row = positions'[r]
  OBVIOUS
<1>5. PICK stored : stored = positions[r]
  OBVIOUS
<1>6. /\ r \in Risks /\ event \in Events /\ row \in Rows
      /\ positions' = [positions EXCEPT ![r] = row]
      /\ Traded(stored, row, event)
  BY <1>2, <1>3, <1>4, <1>5, RecordTrades DEF HistoryInv
<1>7. positions \in [Risks -> Rows] /\ stored \in Rows
  BY <1>1, <1>5, <1>6 DEF TypeOK
<1>8. CASE event.quantity = 0
  <2>1. /\ row.status = stored.status /\ row.quantity = stored.quantity
        /\ row.total = stored.total /\ row.realized = stored.realized
    BY <1>6, <1>8 DEF Traded, Agrees, HoldingColumns
  <2>2. Account(row) = Account(stored)
    BY <2>1 DEF Account
  <2>3. \A s \in Risks : Account(positions'[s]) = Account(positions[s])
    BY <1>5, <1>6, <1>7, <2>2
  <2>4. UNCHANGED AccountTable
    BY <2>3 DEF AccountTable
  <2> QED
    BY <2>4
<1>9. CASE event.quantity # 0
  <2>1. /\ stored.quantity \in Nat /\ stored.total \in Int /\ stored.realized \in Int
        /\ row.quantity \in Nat /\ row.realized \in Int
        /\ event.quantity \in Nat /\ event.released \in Int /\ event.proceeds \in Int
    <3>1. stored.quantity \in Nat /\ stored.total \in Int /\ stored.realized \in Int
      BY <1>7, RowFields
    <3>2. row.quantity \in Nat /\ row.realized \in Int
      BY <1>6, RowFields
    <3>3. event.quantity \in Nat /\ event.released \in Int /\ event.proceeds \in Int
      BY <1>6 DEF Events
    <3> QED
      BY <3>1, <3>2, <3>3
  <2>2. /\ row.quantity = stored.quantity - event.quantity
        /\ row.total = stored.total - event.released
        /\ row.realized = stored.realized + event.proceeds - event.released
        /\ event.proceeds \in 0..(100 * event.quantity)
        /\ stored.status = "open" /\ event.released > 0
        /\ row.total \in Nat /\ row.status \in {"open", "closed", "settled"}
        /\ row.quantity = 0 <=> row.status # "open"
        /\ row.status # "open" => row.total = 0
    BY <1>6, <1>9 DEF Traded, Booked
  <2>3. /\ stored.quantity - row.quantity > 0 /\ stored.total - row.total >= 0
        /\ 0 <= (row.realized - stored.realized) + (stored.total - row.total)
        /\ (row.realized - stored.realized) + (stored.total - row.total)
             <= 100 * (stored.quantity - row.quantity)
    <3>1. /\ stored.quantity - row.quantity = event.quantity
          /\ stored.total - row.total = event.released
          /\ (row.realized - stored.realized) + (stored.total - row.total) = event.proceeds
      BY <2>1, <2>2
    <3> QED
      BY <1>9, <2>1, <2>2, <3>1
  <2> DEFINE stage == IF row.quantity = 0 THEN "ended" ELSE "open"
  <2>4. Account(stored) = [stage |-> "open", contracts |-> stored.quantity,
                           basis |-> stored.total, profit |-> stored.realized]
    BY <2>2 DEF Account
  <2>5. Account(row) = [stage |-> stage, contracts |-> row.quantity,
                        basis |-> row.total, profit |-> row.realized]
    BY <2>2 DEF Account
  <2>6. Account(row) \in Ledger!AccountRows
    BY <2>1, <2>2, <2>5 DEF Ledger!AccountRows, Ledger!Stages
  <2>7. Ledger!Sold(Account(stored), Account(row))
    BY <2>2, <2>3, <2>4, <2>5 DEF Ledger!Sold
  <2>8. LedgerMoves
    BY <1>5, <1>6, <1>7, <2>6, <2>7, OneAccount
  <2> QED
    BY <2>8
<1> QED
  BY <1>8, <1>9

LEMMA LedgerStep ==
  ASSUME IInv, HistoryInv, [Next]_vars
  PROVE  LedgerMoves \/ UNCHANGED AccountTable
<1>1. CASE UNCHANGED positions
  BY <1>1 DEF AccountTable
<1>2. ASSUME NEW w \in Requests, Fill(w)
      PROVE  LedgerMoves
  BY <1>2, LedgerFill
<1>3. ASSUME NEW w \in Requests, Record(w)
      PROVE  LedgerMoves \/ UNCHANGED AccountTable
  BY <1>3, LedgerRecord
<1> QED
  BY <1>1, <1>2, <1>3 DEF Next, vars, Publish, Lapse, ChangeStatus, Resolve, Change,
     Authorize, BeginExecution, BeginMonitoring, Reject, ReplayExecution,
     ReplayMonitoring, Abandon

\* A paper portfolio keeps the promises of a paper position: whatever requests
\* overlap, a contract leaves an account once, takes part of its cost with it and
\* brings in at most what it can pay, and an account that has ended has no cost.
THEOREM PromisesTheorem ==
  ASSUME EntriesOfACent
  PROVE  Spec => ImplementsLedger
<1>1. Init => LedgerStarts
  BY LedgerInitially
<1>2. IInv /\ HistoryInv /\ [Next]_vars => [LedgerMoves]_AccountTable
  BY LedgerStep
<1>3. Spec => LedgerStarts /\ [][LedgerMoves]_AccountTable
  BY <1>1, <1>2, Invariance, HistoryInvariance, PTL DEF Spec
<1>4. ImplementsLedger <=> LedgerStarts /\ [][LedgerMoves]_AccountTable
  BY DEF ImplementsLedger, Ledger!LedgerSpec, LedgerStarts, LedgerMoves, AccountTable
<1> QED
  BY <1>3, <1>4

-----------------------------------------------------------------------------
(* One request at a time.  What an evaluation demands of the histories is   *)
(* proved for requests that do not overlap: each loads what the one before  *)
(* it has committed.                                                        *)

OneRequestAtATime == \A v, w \in Requests : v = w

\* The row a request loaded is the row there is.
Fresh ==
  \A w \in Requests :
    requests[w].kind = "monitor" => requests[w].loaded = positions[requests[w].risk]

\* The row a fill opens.
Opened(approval, opening) ==
  /\ approval # NoApproval /\ opening.market = approval.market
  /\ opening.status = "open" /\ opening.version = 0 /\ opening.realized = 0
  /\ opening.quantity = opening.initial /\ opening.gross = opening.originalGross
  /\ opening.fees = opening.originalFees /\ opening.total = opening.gross + opening.fees

\* What becomes of that row.
Descends(opening, row) ==
  /\ \A column \in {"market", "initial", "originalGross", "originalFees"} :
       row[column] = opening[column]
  /\ row.status \in {"open", "closed", "settled"} /\ row.value >= 0
  /\ row.status # "open" => row.total = 0 /\ row.unrealized = 0

\* The events lead from the row that was opened to the row there is, and only
\* the last one can have ended the position.
Chained(opening, row, history) ==
  /\ \A i \in 1..Len(history) :
       /\ history[i].before = IF i = 1 THEN opening ELSE history[i - 1].after
       /\ history[i].before.status = "open"
       /\ history[i].action = "close" <=> history[i].after.status = "closed"
       /\ history[i].action = "settle" <=> history[i].after.status = "settled"
  /\ row = IF Len(history) = 0 THEN opening ELSE history[Len(history)].after

Lineage ==
  \A r \in Risks :
    /\ Chained(trades[r].opening, positions[r], events[r])
    /\ IF trades[r].status = "filled"
       THEN Opened(approvals[r], trades[r].opening) /\ Descends(trades[r].opening, positions[r])
       ELSE events[r] = <<>>

SerialInv == Fresh /\ Lineage /\ PositionFollowsHistory

LEMMA SameRow ==
  ASSUME NEW row \in Rows, NEW other \in Rows,
         \A column \in Columns : row[column] = other[column]
  PROVE  row = other
BY DEF Rows, Columns

\* What a request does that loaded the row there is.
Continues(before, row, event) ==
  /\ event.before = before /\ event.after = row
  /\ before.status = "open" /\ row.status \in {"open", "closed", "settled"}
  /\ event.action = "close" <=> row.status = "closed"
  /\ event.action = "settle" <=> row.status = "settled"
  /\ \A column \in {"market", "initial", "originalGross", "originalFees"} :
       row[column] = before[column]
  /\ Booked(before, row, event)
  /\ row # before => /\ row.value >= 0
                     /\ row.status # "open" => row.total = 0 /\ row.unrealized = 0

LEMMA SerialRecord ==
  ASSUME IInv, Fresh, NEW w \in Requests, Record(w)
  PROVE  LET r == requests[w].risk
             event == Outcome(w).event
             row == positions'[r]
         IN  /\ r \in Risks /\ event \in Events /\ row \in Rows
             /\ trades[r].status = "filled"
             /\ positions' = [positions EXCEPT ![r] = row]
             /\ events' = [events EXCEPT ![r] = Append(events[r], event)]
             /\ requests' = [requests EXCEPT ![w] = Idle]
             /\ UNCHANGED <<approvals, trades>>
             /\ Continues(positions[r], row, event)
             /\ IF row = positions[r] THEN snapshot' = snapshot
                ELSE snapshot'.sequence = snapshot.sequence + 1
<1> DEFINE r == requests[w].risk
           loaded == requests[w].loaded
           decision == Decide(loaded, sources[loaded.market])
           outcome == Outcome(w)
           after == outcome.event.after
           row == Flush(positions[r], loaded, after)
<1>1. TypeOK /\ RowsAreCoherent
  BY DEF IInv
<1>2. /\ requests[w].kind = "monitor" /\ Commits(outcome) /\ positions' = outcome.positions
      /\ snapshot' = outcome.snapshot
      /\ events' = [events EXCEPT ![outcome.risk] = Append(@, outcome.event)]
      /\ requests' = [requests EXCEPT ![w] = Idle] /\ UNCHANGED <<approvals, trades>>
  BY DEF Record
<1>3. /\ r \in Risks /\ loaded \in Rows /\ loaded.status = "open" /\ Coherent(loaded)
      /\ trades[r].status = "filled"
      /\ Sound(loaded, decision) /\ outcome.risk = r /\ outcome.event \in Events
      /\ outcome.positions = [positions EXCEPT ![r] = row]
      /\ outcome.changed <=> decision.after # loaded
      /\ outcome.changed => outcome.snapshot = AfterDecision(loaded, decision)
      /\ ~outcome.changed => outcome.snapshot = snapshot /\ after = loaded
      /\ after \in Rows
      /\ \A column \in Columns \ {"version"} : after[column] = decision.after[column]
  BY <1>1, <1>2, OutcomeType
<1>4. loaded = positions[r]
  BY <1>2 DEF Fresh
<1>5. Moves(loaded, decision)
  <2>1. loaded.market \in Markets
    BY <1>3, RowFields
  <2> QED
    BY <1>1, <1>3, <2>1, DecideMoves, QuoteType
<1>6. /\ outcome.event.quantity = decision.quantity
      /\ outcome.event.proceeds = decision.proceeds
      /\ outcome.event.released = loaded.total - after.total
      /\ outcome.event.action = decision.action
      /\ outcome.event.before = loaded
      /\ outcome.changed => after.version = decision.after.version + 1
  <2>1. outcome.changed => after = [decision.after EXCEPT !.version = @ + 1]
    BY DEF Outcome, EventRecord
  <2>2. /\ outcome.event.quantity = decision.quantity
        /\ outcome.event.proceeds = decision.proceeds
        /\ outcome.event.released = loaded.total - after.total
        /\ outcome.event.action = decision.action
        /\ outcome.event.before = loaded
    BY DEF Outcome, EventRecord
  <2>3. decision.after \in Rows
    BY <1>3 DEF Sound
  <2> HIDE DEF after, decision, loaded, outcome
  <2>4. outcome.changed => after.version = decision.after.version + 1
    BY <2>1, <2>3 DEF Rows
  <2> QED
    BY <2>2, <2>4
<1> HIDE DEF r, loaded, decision, outcome, after
<1>7. positions \in [Risks -> Rows] /\ snapshot \in Snapshots /\ positions[r] \in Rows
  BY <1>1, <1>3 DEF TypeOK
<1>8. row = after
  <2>1. /\ row \in Rows
        /\ \A column \in Columns :
             row[column] = IF after[column] = loaded[column]
                           THEN positions[r][column] ELSE after[column]
    BY <1>3, <1>7, FlushType
  <2>2. \A column \in Columns : row[column] = after[column]
    BY <1>4, <2>1
  <2> HIDE DEF row
  <2> QED
    BY <1>3, <2>1, <2>2, SameRow
<1> HIDE DEF row
<1>9. positions' = [positions EXCEPT ![r] = after] /\ positions'[r] = after
  BY <1>2, <1>3, <1>7, <1>8
<1>10. PICK kept : kept = decision.after
  OBVIOUS
<1>11. kept \in Rows /\ \A column \in Columns \ {"version"} : after[column] = kept[column]
  BY <1>3, <1>10 DEF Sound
<1>12. /\ after.status = kept.status /\ after.market = kept.market
       /\ after.initial = kept.initial /\ after.disposed = kept.disposed
       /\ after.originalGross = kept.originalGross /\ after.originalFees = kept.originalFees
       /\ after.total = kept.total /\ after.realized = kept.realized
  BY <1>11 DEF Columns
<1>13. /\ loaded.total \in Int /\ loaded.realized \in Int /\ loaded.disposed \in Nat
       /\ kept.total \in Int /\ kept.realized \in Int /\ kept.version \in Nat
  BY <1>3, <1>11, RowFields
<1>14. outcome.changed <=> after # loaded
  <2>1. outcome.changed => after.version = loaded.version + 1
    BY <1>5, <1>6 DEF Moves
  <2>2. loaded.version \in Nat
    BY <1>3, RowFields
  <2> QED
    BY <1>3, <2>1, <2>2
<1>15. outcome.changed => /\ after.value >= 0
                          /\ after.status # "open" => after.total = 0 /\ after.unrealized = 0
  <2>1. outcome.changed => Accepted(after)
    BY <1>2, <1>3, <1>9 DEF Commits
  <2> QED
    BY <2>1 DEF Accepted
<1>16. /\ kept.realized - loaded.realized = decision.proceeds - (loaded.total - kept.total)
       /\ kept.disposed = loaded.disposed + decision.quantity
       /\ kept.status \in {"open", "closed", "settled"}
       /\ kept.market = loaded.market /\ kept.initial = loaded.initial
       /\ kept.originalGross = loaded.originalGross /\ kept.originalFees = loaded.originalFees
       /\ decision.action = "close" <=> kept.status = "closed"
       /\ decision.action = "settle" <=> kept.status = "settled"
       /\ decision.proceeds \in Nat
  BY <1>3, <1>5, <1>10 DEF Sound, Moves
<1>17. Booked(loaded, after, outcome.event)
  <2>1. after.realized = loaded.realized + decision.proceeds - (loaded.total - after.total)
    BY <1>12, <1>13, <1>16
  <2>2. after.total = loaded.total - (loaded.total - after.total)
    BY <1>12, <1>13
  <2>3. after.disposed = loaded.disposed + decision.quantity
    BY <1>12, <1>16
  <2> QED
    BY <1>6, <2>1, <2>2, <2>3 DEF Booked
<1>18. Continues(loaded, after, outcome.event)
  <2>1. outcome.event.after = after
    BY DEF after
  <2> QED
    BY <1>3, <1>6, <1>12, <1>14, <1>15, <1>16, <1>17, <2>1 DEF Continues
<1>19. IF after = loaded THEN snapshot' = snapshot
       ELSE snapshot'.sequence = snapshot.sequence + 1
  <2>1. CASE after = loaded
    BY <1>2, <1>3, <1>14, <2>1
  <2>2. CASE after # loaded
    <3>1. snapshot' = AfterDecision(loaded, decision)
      BY <1>2, <1>3, <1>14, <2>2
    <3> QED
      BY <1>7, <2>2, <3>1 DEF AfterDecision, Snapshots
  <2> QED
    BY <2>1, <2>2
<1> QED
  BY <1>2, <1>3, <1>4, <1>9, <1>18, <1>19 DEF r, outcome

LEMMA OpeningOpened ==
  ASSUME TypeOK, NEW r \in Risks, approvals[r] \in Approvals, approvals[r] # NoApproval,
         Qualifies(r)
  PROVE  /\ Opened(approvals[r], Opening(r)) /\ Opening(r).disposed = 0
         /\ Opening(r).value >= 0
<1> DEFINE m == approvals[r].market
           quote == sources[m].quote
           quantity == FillQuantity(EntryPrice(quote.ask), approvals[r].capital)
           mark == IF quote.bid = NoBid THEN quote.ask ELSE quote.bid
<1>1. m \in Markets /\ approvals[r].capital \in Nat
  BY MoneyAssumption DEF Approvals
<1>2. /\ quote.ask \in Nat /\ quote.ask > 0
      /\ quote.bid # NoBid => quote.bid \in 0..(One - 1)
  BY <1>1, QuoteType DEF Qualifies, ValidBook
<1>3. mark \in Nat
  BY <1>2, OneType
<1>4. quantity \in Nat
  <2>1. EntryPrice(quote.ask) \in Nat \ {0}
    BY <1>2, EntryPriceType
  <2> HIDE DEF quote
  <2> QED
    BY <1>1, <2>1, FillIsLargest
<1>5. Opening(r).value = MarketValue(mark, quantity)
  BY DEF Opening
<1>6. Opened(approvals[r], Opening(r)) /\ Opening(r).disposed = 0
  BY DEF Opened, Opening, EntryTotal
<1> HIDE DEF mark, quantity
<1>7. MarketValue(mark, quantity) \in Nat
  BY <1>3, <1>4, MarketValueType
<1>8. PICK value : value = MarketValue(mark, quantity)
  OBVIOUS
<1>9. value >= 0
  BY <1>7, <1>8
<1> QED
  BY <1>5, <1>6, <1>8, <1>9

\* A history goes on from the row it has come to.
LEMMA ChainedOn ==
  ASSUME NEW opening, NEW before, NEW history \in Seq(Events), NEW row, NEW event \in Events,
         Chained(opening, before, history), Continues(before, row, event)
  PROVE  Chained(opening, row, Append(history, event))
<1> DEFINE n == Len(history)
           longer == Append(history, event)
<1>1. /\ n \in Nat /\ Len(longer) = n + 1 /\ longer[n + 1] = event
      /\ \A i \in 1..n : longer[i] = history[i]
  OBVIOUS
<1>2. /\ \A i \in 1..n :
           /\ history[i].before = IF i = 1 THEN opening ELSE history[i - 1].after
           /\ history[i].before.status = "open"
           /\ history[i].action = "close" <=> history[i].after.status = "closed"
           /\ history[i].action = "settle" <=> history[i].after.status = "settled"
      /\ before = IF n = 0 THEN opening ELSE history[n].after
  BY DEF Chained
<1> HIDE DEF n, longer
<1>3. ASSUME NEW i \in 1..(n + 1)
      PROVE  /\ longer[i].before = IF i = 1 THEN opening ELSE longer[i - 1].after
             /\ longer[i].before.status = "open"
             /\ longer[i].action = "close" <=> longer[i].after.status = "closed"
             /\ longer[i].action = "settle" <=> longer[i].after.status = "settled"
  <2>1. CASE i \in 1..n
    <3>1. longer[i] = history[i]
      BY <1>1, <2>1
    <3>2. i # 1 => i - 1 \in 1..n
      BY <1>1, <2>1
    <3>3. i # 1 => longer[i - 1] = history[i - 1]
      BY <1>1, <3>2
    <3> QED
      BY <1>2, <2>1, <3>1, <3>3
  <2>2. CASE i = n + 1
    <3>1. longer[i] = event
      BY <1>1, <2>2
    <3>2. before = IF i = 1 THEN opening ELSE longer[i - 1].after
      <4>1. CASE n = 0
        BY <1>2, <2>2, <4>1
      <4>2. CASE n # 0
        <5>1. n \in 1..n /\ i # 1 /\ i - 1 = n
          BY <1>1, <2>2, <4>2
        <5>2. longer[i - 1] = history[n]
          BY <1>1, <5>1
        <5> QED
          BY <1>2, <4>2, <5>1, <5>2
      <4> QED
        BY <4>1, <4>2
    <3> QED
      BY <3>1, <3>2 DEF Continues
  <2> QED
    BY <1>1, <2>1, <2>2
<1>4. row = longer[n + 1].after /\ n + 1 # 0
  BY <1>1 DEF Continues
<1> QED
  BY <1>1, <1>3, <1>4 DEF Chained, longer

LEMMA DescendsOn ==
  ASSUME NEW opening, NEW before, NEW row, NEW event,
         Descends(opening, before), Continues(before, row, event)
  PROVE  Descends(opening, row)
BY DEF Descends, Continues

LEMMA SerialFill ==
  ASSUME OneRequestAtATime, IInv, Unopened, SerialInv, NEW w \in Requests, Fill(w)
  PROVE  SerialInv'
<1> DEFINE r == requests[w].risk
           row == Opening(r)
<1>1. TypeOK /\ RowsAreCoherent
  BY DEF IInv
<1>2. r \in Risks /\ requests[w].kind = "execute"
  BY <1>1 DEF Fill, TypeOK, Idle
<1>3. approvals[r] \in Approvals /\ approvals[r] # NoApproval
  <2>1. approvals[r] # NoApproval
    BY <1>1, <1>2 DEF RowsAreCoherent
  <2> QED
    BY <1>1, <1>2, <2>1 DEF TypeOK
<1>4. trades[r].status = "none" /\ Qualifies(r)
  BY DEF Fill
<1>5. /\ trades' = [trades EXCEPT ![r] = [status |-> "filled", opening |-> row]]
      /\ positions' = [positions EXCEPT ![r] = row]
      /\ requests' = [requests EXCEPT ![w] = Idle] /\ UNCHANGED <<approvals, events>>
  BY DEF Fill
<1>6. row \in Rows /\ row.realized = 0
  BY <1>1, <1>2, <1>3, <1>4, OpeningType
<1>7. Opened(approvals[r], row) /\ row.disposed = 0 /\ row.value >= 0
  BY <1>1, <1>2, <1>3, <1>4, OpeningOpened
<1>8. positions[r] = NoRow /\ trades[r].opening = NoRow
  BY <1>1, <1>2, <1>4 DEF RowsAreCoherent, Unopened
<1>9. events[r] = <<>>
  BY <1>2, <1>4 DEF SerialInv, Lineage
<1> HIDE DEF r, row
<1>10. /\ positions \in [Risks -> Rows]
       /\ trades \in [Risks -> [status : {"none", "filled", "rejected"}, opening : Rows]]
  BY <1>1 DEF TypeOK
<1>11. Fresh'
  <2>1. \A v \in Requests : requests'[v].kind # "monitor"
    <3>1. requests'[w] = Idle /\ \A v \in Requests : v = w
      BY <1>1, <1>5 DEF TypeOK, OneRequestAtATime
    <3> QED
      BY <3>1 DEF Idle
  <2> QED
    BY <2>1 DEF Fresh
<1>12. Lineage'
  <2>1. ASSUME NEW s \in Risks
        PROVE  /\ Chained(trades'[s].opening, positions'[s], events'[s])
               /\ IF trades'[s].status = "filled"
                  THEN /\ Opened(approvals'[s], trades'[s].opening)
                       /\ Descends(trades'[s].opening, positions'[s])
                  ELSE events'[s] = <<>>
    <3>1. CASE s = r
      <4>1. /\ trades'[s].status = "filled" /\ trades'[s].opening = row
            /\ positions'[s] = row /\ events'[s] = <<>> /\ approvals'[s] = approvals[r]
        BY <1>2, <1>5, <1>9, <1>10, <3>1
      <4>2. Chained(row, row, <<>>)
        BY DEF Chained
      <4>3. Descends(row, row)
        BY <1>7 DEF Descends, Opened
      <4> QED
        BY <1>7, <4>1, <4>2, <4>3
    <3>2. CASE s # r
      <4>1. /\ trades'[s] = trades[s] /\ positions'[s] = positions[s]
            /\ events'[s] = events[s] /\ approvals'[s] = approvals[s]
        BY <1>5, <1>10, <3>2
      <4> QED
        BY <4>1 DEF SerialInv, Lineage
    <3> QED
      BY <3>1, <3>2
  <2> QED
    BY <2>1 DEF Lineage
<1>13. PositionFollowsHistory'
  BY <1>1, <1>2, <1>5, <1>6, <1>7, <1>8, FollowsFill DEF SerialInv
<1> QED
  BY <1>11, <1>12, <1>13 DEF SerialInv

LEMMA SerialRecorded ==
  ASSUME OneRequestAtATime, IInv, SerialInv, NEW w \in Requests, Record(w)
  PROVE  SerialInv'
<1>1. TypeOK
  BY DEF IInv
<1>2. PICK r : r = requests[w].risk
  OBVIOUS
<1>3. PICK event : event = Outcome(w).event
  OBVIOUS
<1>4. PICK row : row = positions'[r]
  OBVIOUS
<1>5. /\ r \in Risks /\ event \in Events /\ row \in Rows
      /\ trades[r].status = "filled"
      /\ positions' = [positions EXCEPT ![r] = row]
      /\ events' = [events EXCEPT ![r] = Append(events[r], event)]
      /\ requests' = [requests EXCEPT ![w] = Idle]
      /\ UNCHANGED <<approvals, trades>>
      /\ Continues(positions[r], row, event)
  BY <1>2, <1>3, <1>4, SerialRecord DEF SerialInv
<1>6. positions \in [Risks -> Rows] /\ events \in [Risks -> Seq(Events)]
  BY <1>1 DEF TypeOK
<1>7. Fresh'
  <2>1. \A v \in Requests : requests'[v].kind # "monitor"
    <3>1. requests'[w] = Idle /\ \A v \in Requests : v = w
      BY <1>1, <1>5 DEF TypeOK, OneRequestAtATime
    <3> QED
      BY <3>1 DEF Idle
  <2> QED
    BY <2>1 DEF Fresh
<1>8. Lineage'
  <2>1. ASSUME NEW s \in Risks
        PROVE  /\ Chained(trades'[s].opening, positions'[s], events'[s])
               /\ IF trades'[s].status = "filled"
                  THEN /\ Opened(approvals'[s], trades'[s].opening)
                       /\ Descends(trades'[s].opening, positions'[s])
                  ELSE events'[s] = <<>>
    <3>1. CASE s = r
      <4>1. /\ positions'[s] = row /\ events'[s] = Append(events[r], event)
            /\ trades'[s] = trades[r] /\ approvals'[s] = approvals[r]
        BY <1>5, <1>6, <3>1
      <4>2. /\ Chained(trades[r].opening, positions[r], events[r])
            /\ Opened(approvals[r], trades[r].opening)
            /\ Descends(trades[r].opening, positions[r])
        BY <1>5 DEF SerialInv, Lineage
      <4>3. events[r] \in Seq(Events)
        BY <1>5, <1>6
      <4>4. Chained(trades[r].opening, row, Append(events[r], event))
        BY <1>5, <4>2, <4>3, ChainedOn
      <4>5. Descends(trades[r].opening, row)
        BY <1>5, <4>2, DescendsOn
      <4> QED
        BY <1>5, <4>1, <4>2, <4>4, <4>5
    <3>2. CASE s # r
      <4>1. /\ trades'[s] = trades[s] /\ positions'[s] = positions[s]
            /\ events'[s] = events[s] /\ approvals'[s] = approvals[s]
        BY <1>5, <1>6, <3>2
      <4> QED
        BY <4>1 DEF SerialInv, Lineage
    <3> QED
      BY <3>1, <3>2
  <2> QED
    BY <2>1 DEF Lineage
<1>9. PositionFollowsHistory'
  BY <1>1, <1>5, FollowsRecord DEF SerialInv, Continues
<1> QED
  BY <1>7, <1>8, <1>9 DEF SerialInv

\* A step that writes no position, trade or event.
LEMMA SerialQuiet ==
  ASSUME TypeOK, SerialInv, UNCHANGED <<positions, events>>,
         \A s \in Risks :
           /\ trades'[s].opening = trades[s].opening
           /\ trades'[s].status = "filled" <=> trades[s].status = "filled"
           /\ trades[s].status = "filled" => approvals'[s] = approvals[s],
         \A v \in Requests : requests'[v].kind = "monitor" =>
           requests'[v].loaded = positions[requests'[v].risk]
  PROVE  SerialInv'
<1>1. Fresh'
  BY DEF Fresh
<1>2. Lineage'
  BY DEF SerialInv, Lineage
<1>3. PositionFollowsHistory'
  BY DEF SerialInv, PositionFollowsHistory
<1> QED
  BY <1>1, <1>2, <1>3 DEF SerialInv

LEMMA SerialStep ==
  ASSUME OneRequestAtATime, IInv, Unopened, SerialInv, [Next]_vars
  PROVE  SerialInv'
<1>1. TypeOK /\ Fresh
  BY DEF IInv, SerialInv
<1>2. ASSUME UNCHANGED <<approvals, trades, positions, events, requests>>
      PROVE  SerialInv'
  BY <1>1, <1>2, SerialQuiet DEF Fresh
<1>3. ASSUME NEW r \in Risks, NEW m \in Markets, NEW capital \in Capitals,
             Authorize(r, m, capital)
      PROVE  SerialInv'
  <2>1. /\ approvals[r] = NoApproval /\ UNCHANGED <<trades, positions, events, requests>>
        /\ \A s \in Risks : s # r => approvals'[s] = approvals[s]
    BY <1>1, <1>3 DEF Authorize, TypeOK
  <2>2. trades[r].status # "filled"
    BY <2>1 DEF SerialInv, Lineage, Opened
  <2>3. \A s \in Risks : trades[s].status = "filled" => approvals'[s] = approvals[s]
    BY <2>1, <2>2
  <2> QED
    BY <1>1, <2>1, <2>3, SerialQuiet DEF Fresh
<1>4. ASSUME NEW w \in Requests, Fill(w)
      PROVE  SerialInv'
  BY <1>4, SerialFill
<1>5. ASSUME NEW w \in Requests, Record(w)
      PROVE  SerialInv'
  BY <1>5, SerialRecorded
<1>6. ASSUME NEW w \in Requests, NEW r \in Risks, BeginExecution(w, r) \/ BeginMonitoring(w, r)
      PROVE  SerialInv'
  <2>1. /\ UNCHANGED <<approvals, positions, events, trades>>
        /\ \/ requests' = [requests EXCEPT ![w] = [kind |-> "execute", risk |-> r]]
           \/ requests' = [requests EXCEPT ![w] =
                [kind |-> "monitor", risk |-> r, loaded |-> positions[r]]]
    BY <1>6 DEF BeginExecution, BeginMonitoring
  <2>2. ASSUME NEW v \in Requests, requests'[v].kind = "monitor"
        PROVE  requests'[v].loaded = positions[requests'[v].risk]
    <3>1. CASE v = w
      BY <1>1, <2>1, <2>2, <3>1 DEF TypeOK
    <3>2. CASE v # w
      <4>1. requests'[v] = requests[v]
        BY <1>1, <2>1, <3>2 DEF TypeOK
      <4> QED
        BY <1>1, <2>2, <4>1 DEF Fresh
    <3> QED
      BY <3>1, <3>2
  <2> QED
    BY <1>1, <2>1, <2>2, SerialQuiet
<1>7. ASSUME NEW w \in Requests,
             ReplayExecution(w) \/ ReplayMonitoring(w) \/ Abandon(w)
             \/ \E unexpired \in BOOLEAN : Reject(w, unexpired)
      PROVE  SerialInv'
  <2>1. UNCHANGED <<approvals, positions, events>> /\ requests' = [requests EXCEPT ![w] = Idle]
    BY <1>7 DEF ReplayExecution, ReplayMonitoring, Abandon, Reject
  <2>2. ASSUME NEW v \in Requests, requests'[v].kind = "monitor"
        PROVE  requests'[v].loaded = positions[requests'[v].risk]
    <3>1. requests'[v] = requests[v]
      BY <1>1, <2>1, <2>2 DEF TypeOK, Idle
    <3> QED
      BY <1>1, <2>2, <3>1 DEF Fresh
  <2>3. \A s \in Risks :
          /\ trades'[s].opening = trades[s].opening
          /\ trades'[s].status = "filled" <=> trades[s].status = "filled"
    <3>1. CASE UNCHANGED trades
      BY <3>1
    <3>2. CASE \E unexpired \in BOOLEAN : Reject(w, unexpired)
      <4>1. /\ trades[requests[w].risk].status = "none"
            /\ trades' = [trades EXCEPT ![requests[w].risk].status = "rejected"]
        BY <3>2 DEF Reject
      <4> QED
        BY <1>1, <4>1 DEF TypeOK
    <3> QED
      BY <1>7, <3>1, <3>2 DEF ReplayExecution, ReplayMonitoring, Abandon
  <2> QED
    BY <1>1, <2>1, <2>2, <2>3, SerialQuiet
<1> QED
  BY <1>2, <1>3, <1>4, <1>5, <1>6, <1>7 DEF Next, vars, Publish, Lapse, ChangeStatus,
     Resolve, Change

LEMMA SerialInitially ==
  ASSUME Init
  PROVE  SerialInv
<1>1. /\ trades = [r \in Risks |-> [status |-> "none", opening |-> NoRow]]
      /\ positions = [r \in Risks |-> NoRow]
      /\ events = [r \in Risks |-> <<>>]
      /\ requests = [w \in Requests |-> Idle]
  BY DEF Init
<1>2. Fresh
  BY <1>1 DEF Fresh, Idle
<1>3. Lineage
  <2>1. Chained(NoRow, NoRow, <<>>)
    BY DEF Chained
  <2> QED
    BY <1>1, <2>1 DEF Lineage
<1>4. PositionFollowsHistory
  BY HistoryInitially DEF HistoryInv
<1> QED
  BY <1>2, <1>3, <1>4 DEF SerialInv

LEMMA SerialInvariance ==
  ASSUME OneRequestAtATime
  PROVE  Spec => []SerialInv
<1>1. Init => SerialInv
  BY SerialInitially
<1>2. IInv /\ Unopened /\ SerialInv /\ [Next]_vars => SerialInv'
  BY SerialStep
<1> QED
  BY <1>1, <1>2, Invariance, UnopenedInvariance, PTL DEF Spec

-----------------------------------------------------------------------------
(* The chain of snapshots.                                                  *)

\* What an evaluation demands of a snapshot holds of the head of the ledger: no
\* position is worth less than nothing.
HeadValid ==
  /\ SnapshotValid(snapshot)
  /\ snapshot.total = StartingBankroll + snapshot.realized + snapshot.unrealized

LEMMA HeadIsValid == IInv /\ SerialInv => HeadValid
<1>1. SUFFICES ASSUME IInv, SerialInv PROVE HeadValid
  OBVIOUS
<1>2. TypeOK /\ RowsAreCoherent /\ LedgerReconciles /\ SnapshotBalances
  BY <1>1 DEF IInv
<1>3. OpenColumn(positions, "value") \in [Risks -> Nat]
  <2>1. ASSUME NEW r \in Risks, positions[r].status = "open"
        PROVE  positions[r].value \in Nat
    <3>1. positions[r].value \in Int
      BY <1>2, RowFields DEF TypeOK
    <3>2. trades[r].status = "filled"
      <4>1. NoRow.status = "none"
        BY DEF NoRow
      <4>2. positions[r] # NoRow
        BY <2>1, <4>1
      <4> QED
        BY <1>2, <4>2 DEF RowsAreCoherent
    <3>3. positions[r].value >= 0
      BY <1>1, <3>2 DEF SerialInv, Lineage, Descends
    <3> QED
      BY <3>1, <3>3
  <2> QED
    BY <2>1 DEF OpenColumn
<1>4. Total(OpenColumn(positions, "value")) >= 0
  BY <1>3, TotalNonnegative
<1>5. snapshot.openValue >= 0
  BY <1>2, <1>4 DEF LedgerReconciles, Reconciles
<1>6. /\ snapshot.current = StartingBankroll + snapshot.realized
      /\ snapshot.cash = snapshot.current - snapshot.committed
      /\ snapshot.available = snapshot.cash
      /\ snapshot.openValue = snapshot.committed + snapshot.unrealized
      /\ snapshot.total = snapshot.cash + snapshot.openValue
      /\ snapshot.cash >= 0 /\ snapshot.committed >= 0
  BY <1>2 DEF SnapshotBalances
<1>7. /\ snapshot.current \in Int /\ snapshot.cash \in Int /\ snapshot.committed \in Int
      /\ snapshot.available \in Int /\ snapshot.openValue \in Int /\ snapshot.total \in Int
      /\ snapshot.realized \in Int /\ snapshot.unrealized \in Int
      /\ StartingBankroll \in Int
  BY <1>2, MoneyAssumption DEF TypeOK, Snapshots
<1>8. /\ snapshot.current \in Nat /\ snapshot.cash \in Nat /\ snapshot.committed \in Nat
      /\ snapshot.available \in Nat /\ snapshot.openValue \in Nat /\ snapshot.total \in Nat
      /\ snapshot.committed <= snapshot.current
      /\ snapshot.total = StartingBankroll + snapshot.realized + snapshot.unrealized
  BY <1>5, <1>6, <1>7
<1> QED
  BY <1>6, <1>8 DEF HeadValid, SnapshotValid

\* A step that writes a snapshot numbers it and writes one row; any other leaves
\* the positions as they are.
Commit(r) ==
  /\ snapshot'.sequence = snapshot.sequence + 1
  /\ r \in Risks /\ positions'[r] # positions[r]
  /\ \A s \in Risks : s # r => positions'[s] = positions[s]

LEMMA EachCommit ==
  ASSUME IInv, SerialInv, [Next]_vars
  PROVE  UNCHANGED <<snapshot, positions>> \/ \E r \in Risks : Commit(r)
<1>1. TypeOK /\ RowsAreCoherent /\ Fresh
  BY DEF IInv, SerialInv
<1>2. positions \in [Risks -> Rows] /\ snapshot \in Snapshots
  BY <1>1 DEF TypeOK
<1>3. ASSUME NEW w \in Requests, Fill(w)
      PROVE  \E r \in Risks : Commit(r)
  <2>1. PICK r : r = requests[w].risk
    OBVIOUS
  <2>2. PICK row : row = Opening(r)
    OBVIOUS
  <2>3. /\ requests[w].kind = "execute" /\ trades[r].status = "none"
        /\ snapshot' = AfterEntry(row) /\ positions' = [positions EXCEPT ![r] = row]
    BY <1>3, <2>1, <2>2 DEF Fill
  <2>4. r \in Risks
    BY <1>1, <2>1, <2>3 DEF TypeOK, Idle
  <2>5. positions[r].status = "none" /\ row.status = "open"
    <3>1. positions[r] = NoRow
      BY <1>1, <2>3, <2>4 DEF RowsAreCoherent
    <3> QED
      BY <2>2, <3>1 DEF NoRow, Opening
  <2>6. snapshot'.sequence = snapshot.sequence + 1
    BY <1>2, <2>3 DEF AfterEntry, Snapshots
  <2>7. positions'[r] = row /\ \A s \in Risks : s # r => positions'[s] = positions[s]
    BY <1>2, <2>3, <2>4
  <2> QED
    BY <2>4, <2>5, <2>6, <2>7 DEF Commit
<1>4. ASSUME NEW w \in Requests, Record(w)
      PROVE  UNCHANGED <<snapshot, positions>> \/ \E r \in Risks : Commit(r)
  <2>1. PICK r : r = requests[w].risk
    OBVIOUS
  <2>2. PICK row : row = positions'[r]
    OBVIOUS
  <2>3. /\ r \in Risks /\ row \in Rows
        /\ positions' = [positions EXCEPT ![r] = row]
        /\ IF row = positions[r] THEN snapshot' = snapshot
           ELSE snapshot'.sequence = snapshot.sequence + 1
    BY <1>1, <1>4, <2>1, <2>2, SerialRecord
  <2>4. CASE row = positions[r]
    <3>1. positions' = positions
      BY <1>2, <2>3, <2>4
    <3> QED
      BY <2>3, <2>4, <3>1
  <2>5. CASE row # positions[r]
    <3>1. positions'[r] = row /\ \A s \in Risks : s # r => positions'[s] = positions[s]
      BY <1>2, <2>3
    <3> QED
      BY <2>3, <2>5, <3>1 DEF Commit
  <2> QED
    BY <2>4, <2>5
<1>5. CASE UNCHANGED <<snapshot, positions>>
  BY <1>5
<1> QED
  BY <1>3, <1>4, <1>5 DEF Next, vars, Publish, Lapse, ChangeStatus, Resolve, Change, Authorize,
     BeginExecution, BeginMonitoring, Reject, ReplayExecution, ReplayMonitoring, Abandon

Links == [head : Snapshots, row : Rows]

\* A position nobody bid for.
Unbid(row) == row.status = "open" /\ row.basis = "ask"

ChainInv ==
  /\ chain \in Seq(Links) /\ Len(chain) >= 1
  /\ chain[Len(chain)].head = snapshot
  /\ chain[1].head.total = StartingBankroll
  /\ ChainValid
  /\ \A r \in Risks :
       Unbid(positions[r]) => \E j \in 1..Len(chain) : Unbid(chain[j].row)

LEMMA ChainInitially == EvaluationInit => ChainInv
<1>1. SUFFICES ASSUME EvaluationInit PROVE ChainInv
  OBVIOUS
<1>2. Init /\ chain = <<[head |-> snapshot, row |-> NoRow]>>
  BY <1>1 DEF EvaluationInit
<1>3. IInv /\ SerialInv
  BY <1>2, Initially, SerialInitially
<1>4. HeadValid /\ snapshot \in Snapshots
  BY <1>3, HeadIsValid DEF IInv, TypeOK
<1>5. snapshot.sequence = 0 /\ snapshot.total = StartingBankroll
  BY <1>2 DEF Init
<1>6. PICK link : link = [head |-> snapshot, row |-> NoRow]
  OBVIOUS
<1>7. link \in Links /\ link.head = snapshot
  BY <1>4, <1>6, NoRowType DEF Links
<1>8. /\ chain = <<link>> /\ chain \in Seq(Links) /\ Len(chain) = 1 /\ chain[1] = link
  BY <1>2, <1>6, <1>7
<1>9. ChainValid
  <2>1. \A i \in 1..1 : i = 1
    OBVIOUS
  <2> QED
    BY <1>4, <1>5, <1>7, <1>8, <2>1 DEF ChainValid, HeadValid
<1>10. \A r \in Risks : ~Unbid(positions[r])
  BY <1>2 DEF Init, Unbid, NoRow
<1> QED
  BY <1>5, <1>7, <1>8, <1>9, <1>10 DEF ChainInv

LEMMA WrittenRow ==
  ASSUME NEW r \in Risks, Commit(r)
  PROVE  Written = positions'[r]
<1>1. \A s \in Risks : positions'[s] # positions[s] <=> s = r
  BY DEF Commit
<1>2. (CHOOSE s \in Risks : positions'[s] # positions[s]) = r
  BY <1>1
<1> QED
  BY <1>2 DEF Written

LEMMA ChainStep ==
  IInv /\ SerialInv /\ ChainInv /\ IInv' /\ HeadValid' /\ [EvaluationNext]_<<vars, chain>>
    => ChainInv'
<1>1. SUFFICES ASSUME IInv, SerialInv, ChainInv, IInv', HeadValid',
                      [EvaluationNext]_<<vars, chain>>
               PROVE  ChainInv'
  OBVIOUS
<1>2. /\ chain \in Seq(Links) /\ Len(chain) >= 1 /\ Len(chain) \in Nat
      /\ chain[Len(chain)].head = snapshot
      /\ chain[1].head.total = StartingBankroll
      /\ ChainValid
      /\ \A r \in Risks :
           Unbid(positions[r]) => \E j \in 1..Len(chain) : Unbid(chain[j].row)
  BY <1>1 DEF ChainInv
<1>3. CASE UNCHANGED <<chain, snapshot, positions>>
  BY <1>2, <1>3 DEF ChainInv, ChainValid, SnapshotValid
<1>4. snapshot \in Snapshots /\ snapshot' \in Snapshots /\ positions' \in [Risks -> Rows]
  BY <1>1 DEF IInv, TypeOK
<1>5. ASSUME NEW r \in Risks, Commit(r), EvaluationNext
      PROVE  ChainInv'
  <2>1. PICK link : link = [head |-> snapshot', row |-> positions'[r]]
    OBVIOUS
  <2>2. link \in Links /\ link.head = snapshot' /\ link.row = positions'[r]
    BY <1>4, <2>1 DEF Links
  <2>3. snapshot.sequence \in Nat /\ snapshot'.sequence = snapshot.sequence + 1
    BY <1>4, <1>5 DEF Commit, Snapshots
  <2>4. chain' = Append(chain, link)
    <3>1. snapshot' # snapshot
      BY <2>3
    <3> QED
      BY <1>5, <2>1, <3>1, WrittenRow DEF EvaluationNext
  <2>5. PICK n : n = Len(chain)
    OBVIOUS
  <2>6. /\ n \in Nat /\ n >= 1 /\ chain' \in Seq(Links) /\ Len(chain') = n + 1
        /\ chain'[n + 1] = link /\ \A i \in 1..n : chain'[i] = chain[i]
    BY <1>2, <2>2, <2>4, <2>5
  <2>7. chain'[1].head.total = StartingBankroll /\ n \in 1..n /\ 1 \in 1..n
    BY <1>2, <2>6
  <2>8. snapshot'.sequence = (n + 1) - 1
    <3>1. snapshot.sequence = n - 1
      BY <1>2, <2>5, <2>7 DEF ChainValid
    <3> QED
      BY <2>3, <2>6, <3>1
  <2>9. ChainValid'
    <3>1. ASSUME NEW i \in 1..(n + 1)
          PROVE  /\ chain'[i].head.sequence = i - 1 /\ SnapshotValid(chain'[i].head)
                 /\ chain'[i].head.total = StartingBankroll + chain'[i].head.realized
                                             + chain'[i].head.unrealized
      <4>1. CASE i \in 1..n
        BY <1>2, <2>5, <2>6, <4>1 DEF ChainValid
      <4>2. CASE i = n + 1
        <5>1. chain'[i].head = snapshot'
          BY <2>2, <2>6, <4>2
        <5>2. SnapshotValid(snapshot')
              /\ snapshot'.total = StartingBankroll + snapshot'.realized + snapshot'.unrealized
          BY <1>1 DEF HeadValid, SnapshotValid
        <5> QED
          BY <2>8, <4>2, <5>1, <5>2
      <4> QED
        BY <2>6, <4>1, <4>2
    <3> QED
      BY <2>6, <3>1 DEF ChainValid, SnapshotValid
  <2>10. ASSUME NEW s \in Risks, Unbid(positions'[s])
         PROVE  \E j \in 1..Len(chain') : Unbid(chain'[j].row)
    <3>1. CASE s = r
      <4>1. Unbid(chain'[n + 1].row) /\ n + 1 \in 1..(n + 1)
        BY <2>2, <2>6, <2>10, <3>1
      <4> QED
        BY <2>6, <4>1
    <3>2. CASE s # r
      <4>1. Unbid(positions[s])
        BY <1>5, <2>10, <3>2 DEF Commit
      <4>2. PICK j \in 1..n : Unbid(chain[j].row)
        BY <1>2, <2>5, <4>1
      <4>3. j \in 1..(n + 1) /\ chain'[j] = chain[j]
        BY <2>6, <4>2
      <4> QED
        BY <2>6, <4>2, <4>3
    <3> QED
      BY <3>1, <3>2
  <2>11. chain'[Len(chain')].head = snapshot' /\ Len(chain') >= 1
    BY <2>2, <2>6
  <2>12. \A s \in Risks : Unbid(positions'[s]) => \E j \in 1..Len(chain') : Unbid(chain'[j].row)
    BY <2>10
  <2> QED
    BY <2>6, <2>7, <2>9, <2>11, <2>12 DEF ChainInv, Unbid
<1>6. CASE EvaluationNext
  <2>1. UNCHANGED <<snapshot, positions>> \/ \E r \in Risks : Commit(r)
    BY <1>1, <1>6, EachCommit DEF EvaluationNext
  <2>2. UNCHANGED snapshot => UNCHANGED chain
    BY <1>6 DEF EvaluationNext
  <2> QED
    BY <1>3, <1>5, <1>6, <2>1, <2>2
<1>7. CASE UNCHANGED <<vars, chain>>
  BY <1>3, <1>7 DEF vars
<1> QED
  BY <1>1, <1>6, <1>7

-----------------------------------------------------------------------------
(* The deepest fall of a chain, as the one pass over it finds it.           *)

\* That no fall is deeper is transitive, though it compares products.
LEMMA FallsCompare ==
  ASSUME NEW fa \in Int, NEW fb \in Int, NEW fc \in Int,
         NEW a \in Nat, NEW b \in Nat \ {0}, NEW c \in Nat,
         fa * b <= fb * a, fb * c <= fc * b
  PROVE  fa * c <= fc * a
<1>1. (fa * b) * c <= (fb * a) * c
  <2>1. fa * b \in Int /\ fb * a \in Int
    OBVIOUS
  <2> QED
    BY <2>1, ProductMonotone
<1>2. (fb * c) * a <= (fc * b) * a
  <2>1. fb * c \in Int /\ fc * b \in Int
    OBVIOUS
  <2> QED
    BY <2>1, ProductMonotone
<1>3. /\ (fa * b) * c = (fa * c) * b /\ (fb * a) * c = (fb * c) * a
      /\ (fc * b) * a = (fc * a) * b
  OBVIOUS
<1>4. PICK left : left = fa * c
  OBVIOUS
<1>5. PICK right : right = fc * a
  OBVIOUS
<1>6. left \in Int /\ right \in Int
  BY <1>4, <1>5
<1>7. left * b <= right * b
  <2> DEFINE middle == (fb * a) * c
             l == left * b
             h == right * b
  <2>1. l <= middle /\ middle <= h
    BY <1>1, <1>2, <1>3, <1>4, <1>5
  <2>2. l \in Int /\ middle \in Int /\ h \in Int
    BY <1>6
  <2> HIDE DEF l, middle, h
  <2>3. l <= h
    BY <2>1, <2>2
  <2> QED
    BY <2>3 DEF l, h
<1>8. CASE left > right
  <2>1. (right + 1) * b <= left * b
    BY <1>6, <1>8, ProductMonotone
  <2>2. (right + 1) * b = right * b + b
    BY <1>6
  <2> DEFINE l == left * b
             h == right * b
  <2>3. l \in Int /\ h \in Int /\ l <= h /\ h + b <= l
    BY <1>6, <1>7, <2>1, <2>2
  <2> HIDE DEF l, h
  <2> QED
    BY <2>3
<1> QED
  BY <1>4, <1>5, <1>6, <1>8

Pairs(n) == [peak : 1..n, trough : 1..n]

\* The values of a chain: never negative, and something to start with.
Valued(n) ==
  /\ n \in Nat \ {0}
  /\ \A i \in 1..n : Value(i) \in Nat
  /\ Value(1) > 0

LEMMA PairType ==
  ASSUME NEW n, Valued(n), NEW pair \in Pairs(n)
  PROVE  /\ pair.peak \in 1..n /\ pair.trough \in 1..n
         /\ Value(pair.peak) \in Nat /\ Value(pair.trough) \in Nat
         /\ Fall(pair) \in Int /\ Fall(pair) = Value(pair.peak) - Value(pair.trough)
<1>1. pair.peak \in 1..n /\ pair.trough \in 1..n
  BY DEF Pairs
<1>2. Value(pair.peak) \in Nat /\ Value(pair.trough) \in Nat
  BY <1>1 DEF Valued
<1> HIDE DEF Value
<1>3. Fall(pair) = Value(pair.peak) - Value(pair.trough)
  BY DEF Fall
<1> QED
  BY <1>1, <1>2, <1>3

\* A pair no deeper than one that is no deeper than a third.
LEMMA DeeperOrder ==
  ASSUME NEW n, Valued(n), NEW one \in Pairs(n), NEW two \in Pairs(n), NEW three \in Pairs(n),
         Value(two.peak) > 0, ~Deeper(one, two), ~Deeper(two, three)
  PROVE  ~Deeper(one, three)
<1>1. /\ Fall(one) \in Int /\ Fall(two) \in Int /\ Fall(three) \in Int
      /\ Value(one.peak) \in Nat /\ Value(two.peak) \in Nat \ {0} /\ Value(three.peak) \in Nat
  BY PairType
<1>2. /\ ~(Fall(one) * Value(two.peak) > Fall(two) * Value(one.peak))
      /\ ~(Fall(two) * Value(three.peak) > Fall(three) * Value(two.peak))
  BY DEF Deeper
<1> HIDE DEF Fall, Value
<1>3. /\ Fall(one) * Value(two.peak) <= Fall(two) * Value(one.peak)
      /\ Fall(two) * Value(three.peak) <= Fall(three) * Value(two.peak)
  BY <1>1, <1>2
<1>4. Fall(one) * Value(three.peak) <= Fall(three) * Value(one.peak)
  BY <1>1, <1>3, FallsCompare
<1> QED
  BY <1>1, <1>4 DEF Deeper

ScanStart == [peak |-> 1, worst |-> [peak |-> 1, trough |-> 1]]

ScanStep(before, i) ==
  LET peak == IF Value(i) > Value(before.peak) THEN i ELSE before.peak
      fall == [peak |-> peak, trough |-> i]
  IN  [peak |-> peak,
       worst |-> IF Deeper(fall, before.worst) THEN fall ELSE before.worst]

Scans(table, n) ==
  table = [i \in 1..n |-> IF i = 1 THEN ScanStart ELSE ScanStep(table[i - 1], i)]

LEMMA ScanTable ==
  \A n \in Nat : \E table : Scans(table, n)
<1> DEFINE Built == {n \in Nat : \E table : Scans(table, n)}
<1>1. 0 \in Built
  <2> DEFINE table == [i \in 1..0 |-> ScanStart]
  <2>1. Scans(table, 0)
    BY DEF Scans
  <2> QED
    BY <2>1
<1>2. ASSUME NEW n \in Nat, n \in Built
      PROVE  n + 1 \in Built
  <2>1. PICK table : Scans(table, n)
    BY <1>2
  <2> DEFINE longer ==
        [i \in 1..(n + 1) |-> IF i \in 1..n THEN table[i]
                              ELSE IF i = 1 THEN ScanStart ELSE ScanStep(table[i - 1], i)]
  <2>2. \A i \in 1..n : table[i] = IF i = 1 THEN ScanStart ELSE ScanStep(table[i - 1], i)
    BY <2>1 DEF Scans
  <2>3. \A i \in 1..(n + 1) :
          longer[i] = IF i = 1 THEN ScanStart ELSE ScanStep(longer[i - 1], i)
    <3>1. TAKE i \in 1..(n + 1)
    <3>2. i # 1 => i - 1 \in 1..n /\ i - 1 \in 1..(n + 1)
      OBVIOUS
    <3>3. i # 1 => longer[i - 1] = table[i - 1]
      BY <3>2
    <3> QED
      BY <2>2, <3>3
  <2>4. Scans(longer, n + 1)
    BY <2>3 DEF Scans
  <2> QED
    BY <2>4
<1> HIDE DEF Built
<1>3. \A n \in Nat : n \in Built
  BY <1>1, <1>2, SetInduction
<1> QED
  BY <1>3 DEF Built

\* What the pass knows at a place: the highest value up to there, and a fall
\* than which none up to there is deeper.
Sighted(entry, i) ==
  /\ entry.peak \in 1..i /\ Value(entry.peak) > 0
  /\ \A j \in 1..i : Value(j) <= Value(entry.peak)
  /\ entry.worst \in Pairs(i) /\ entry.worst.peak <= entry.worst.trough
  /\ Value(entry.worst.peak) > 0
  /\ \A pair \in Pairs(i) : pair.peak <= pair.trough => ~Deeper(pair, entry.worst)

LEMMA SightedStart ==
  ASSUME Valued(1)
  PROVE  Sighted(ScanStart, 1)
<1>1. PICK only : only = [peak |-> 1, trough |-> 1]
  OBVIOUS
<1>2. only \in Pairs(1) /\ \A pair \in Pairs(1) : pair = only
  BY <1>1 DEF Pairs
<1>3. /\ only.peak = 1 /\ only.trough = 1
      /\ ScanStart.peak = 1 /\ ScanStart.worst = only
  BY <1>1 DEF ScanStart
<1>4. Value(1) \in Nat /\ Value(1) > 0
  BY DEF Valued
<1>5. Fall(only) \in Int
  BY <1>2, PairType
<1> HIDE DEF Value, Fall
<1>6. ~Deeper(only, only)
  BY <1>3, <1>4, <1>5 DEF Deeper
<1> QED
  BY <1>2, <1>3, <1>4, <1>6 DEF Sighted

LEMMA SightedStep ==
  ASSUME NEW i \in Nat, i >= 2, Valued(i), NEW before, Sighted(before, i - 1)
  PROVE  Sighted(ScanStep(before, i), i)
<1> DEFINE top == IF Value(i) > Value(before.peak) THEN i ELSE before.peak
           last == [peak |-> top, trough |-> i]
           next == IF Deeper(last, before.worst) THEN last ELSE before.worst
<1>1. PICK peak : peak = top
  OBVIOUS
<1>2. PICK fall : fall = [peak |-> peak, trough |-> i]
  OBVIOUS
<1>3. PICK known : known = before.worst
  OBVIOUS
<1>4. PICK worst : worst = IF Deeper(fall, known) THEN fall ELSE known
  OBVIOUS
<1>5. ScanStep(before, i).peak = peak /\ ScanStep(before, i).worst = worst
  BY <1>1, <1>2, <1>3, <1>4 DEF ScanStep
<1>6. /\ before.peak \in 1..(i - 1) /\ Value(before.peak) > 0
      /\ \A j \in 1..(i - 1) : Value(j) <= Value(before.peak)
      /\ known \in Pairs(i - 1) /\ known.peak <= known.trough /\ Value(known.peak) > 0
      /\ \A pair \in Pairs(i - 1) : pair.peak <= pair.trough => ~Deeper(pair, known)
  BY <1>3 DEF Sighted
<1>7. \A j \in 1..i : Value(j) \in Nat
  BY DEF Valued
<1>8. peak \in 1..i /\ Value(peak) > 0 /\ \A j \in 1..i : Value(j) <= Value(peak)
  <2> HIDE DEF Value
  <2>1. before.peak \in 1..i /\ i \in 1..i
    BY <1>6
  <2>2. peak \in 1..i /\ Value(peak) \in Nat /\ Value(i) \in Nat /\ Value(before.peak) \in Nat
    BY <1>1, <1>7, <2>1
  <2>3. /\ Value(before.peak) <= Value(peak) /\ Value(i) <= Value(peak)
    BY <1>1, <2>2
  <2>4. ASSUME NEW j \in 1..i
        PROVE  Value(j) <= Value(peak)
    <3>1. CASE j = i
      BY <2>3, <3>1
    <3>2. CASE j # i
      <4>1. Value(j) <= Value(before.peak) /\ Value(j) \in Nat
        BY <1>6, <1>7, <3>2
      <4> QED
        BY <2>2, <2>3, <4>1
    <3> QED
      BY <3>1, <3>2
  <2> QED
    BY <1>6, <2>2, <2>3, <2>4
<1>9. /\ known \in Pairs(i) /\ fall \in Pairs(i)
      /\ fall.peak = peak /\ fall.trough = i /\ fall.peak <= fall.trough
      /\ Value(fall.peak) > 0
  <2>1. known \in Pairs(i)
    <3>1. 1..(i - 1) \subseteq 1..i
      OBVIOUS
    <3> QED
      BY <1>6, <3>1 DEF Pairs
  <2>2. fall \in Pairs(i)
    BY <1>2, <1>8 DEF Pairs
  <2> QED
    BY <1>2, <1>8, <2>1, <2>2
<1>10. worst \in Pairs(i) /\ worst.peak <= worst.trough /\ Value(worst.peak) > 0
  BY <1>4, <1>6, <1>9
<1>11. ~Deeper(known, worst) /\ ~Deeper(fall, worst)
  <2>1. ASSUME NEW pair \in Pairs(i)
        PROVE  ~Deeper(pair, pair)
    <3>1. Fall(pair) \in Int /\ Value(pair.peak) \in Nat
      BY <2>1, PairType
    <3> HIDE DEF Fall, Value
    <3> QED
      BY <3>1 DEF Deeper
  <2>2. CASE Deeper(fall, known)
    <3>1. worst = fall
      BY <1>4, <2>2
    <3>2. /\ Fall(fall) \in Int /\ Value(fall.peak) \in Nat
          /\ Fall(known) \in Int /\ Value(known.peak) \in Nat
      BY <1>9, PairType
    <3>3. ~Deeper(known, fall)
      <4> HIDE DEF Fall, Value
      <4>1. Fall(fall) * Value(known.peak) > Fall(known) * Value(fall.peak)
        BY <2>2 DEF Deeper
      <4> QED
        BY <3>2, <4>1 DEF Deeper
    <3> QED
      BY <1>9, <2>1, <3>1, <3>3
  <2>3. CASE ~Deeper(fall, known)
    BY <1>4, <1>9, <2>1, <2>3
  <2> QED
    BY <2>2, <2>3
<1>12. ASSUME NEW pair \in Pairs(i), pair.peak <= pair.trough
       PROVE  ~Deeper(pair, worst)
  <2>1. pair.peak \in 1..i /\ pair.trough \in 1..i
    BY DEF Pairs
  <2>2. CASE pair.trough # i
    <3>1. pair \in Pairs(i - 1)
      <4>1. pair.trough \in 1..(i - 1) /\ pair.peak \in 1..(i - 1)
        BY <1>12, <2>1, <2>2
      <4> QED
        BY <4>1 DEF Pairs
    <3>2. ~Deeper(pair, known)
      BY <1>6, <1>12, <3>1
    <3> QED
      BY <1>6, <1>9, <1>10, <1>11, <3>2, DeeperOrder
  <2>3. CASE pair.trough = i
    <3>1. /\ Fall(pair) = Value(pair.peak) - Value(i) /\ Value(pair.peak) \in Nat
          /\ Value(i) \in Nat
      BY <2>3, PairType
    <3>2. /\ Fall(fall) = Value(peak) - Value(i) /\ Value(peak) \in Nat
      BY <1>9, PairType
    <3>3. Value(pair.peak) <= Value(peak)
      BY <1>8, <2>1
    <3>4. ~Deeper(pair, fall)
      <4> HIDE DEF Fall, Value
      <4>1. PICK v : v = Value(pair.peak)
        OBVIOUS
      <4>2. PICK h : h = Value(peak)
        OBVIOUS
      <4>3. PICK l : l = Value(i)
        OBVIOUS
      <4>4. v \in Nat /\ h \in Nat /\ l \in Nat /\ v <= h
        BY <3>1, <3>2, <3>3, <4>1, <4>2, <4>3
      <4>5. v * l <= h * l
        BY <4>4, ProductMonotone
      <4>6. (v - l) * h = v * h - h * l /\ (h - l) * v = v * h - v * l
        BY <4>4
      <4>7. v * h \in Nat /\ h * l \in Nat /\ v * l \in Nat
        BY <4>4
      <4>8. (v - l) * h <= (h - l) * v
        <5> DEFINE whole == v * h
                   more == h * l
                   less == v * l
        <5>1. whole \in Nat /\ more \in Nat /\ less \in Nat /\ less <= more
          BY <4>5, <4>7
        <5>2. (v - l) * h = whole - more /\ (h - l) * v = whole - less
          BY <4>6
        <5> HIDE DEF whole, more, less
        <5>3. whole - more <= whole - less
          BY <5>1
        <5> QED
          BY <5>2, <5>3
      <4>9. Fall(pair) * Value(fall.peak) <= Fall(fall) * Value(pair.peak)
        BY <1>9, <3>1, <3>2, <4>1, <4>2, <4>3, <4>8
      <4>10. Fall(pair) * Value(fall.peak) \in Int /\ Fall(fall) * Value(pair.peak) \in Int
        BY <1>9, <3>1, <3>2
      <4> QED
        BY <4>9, <4>10 DEF Deeper
    <3> QED
      BY <1>9, <1>10, <1>11, <3>4, DeeperOrder
  <2> QED
    BY <2>2, <2>3
<1> QED
  BY <1>5, <1>8, <1>10, <1>12 DEF Sighted

\* No fall between two snapshots of the chain is deeper than the one reported.
LEMMA DrawdownIsDeepest ==
  ASSUME NEW n, Valued(n)
  PROVE  /\ MaximumDrawdown(n).peak <= MaximumDrawdown(n).trough
         /\ \A pair \in Pairs(n) :
              pair.peak <= pair.trough => ~Deeper(pair, MaximumDrawdown(n))
<1>1. n \in Nat /\ n >= 1
  BY DEF Valued
<1>2. PICK scan : scan = CHOOSE table : Scans(table, n)
  OBVIOUS
<1>3. Scans(scan, n)
  BY <1>1, <1>2, ScanTable
<1>4. MaximumDrawdown(n) = scan[n].worst
  BY <1>2 DEF MaximumDrawdown, Scans, ScanStart, ScanStep
<1>5. \A i \in 1..n : scan[i] = IF i = 1 THEN ScanStart ELSE ScanStep(scan[i - 1], i)
  BY <1>3 DEF Scans
<1>6. ASSUME NEW i \in 1..n
      PROVE  Valued(i)
  BY <1>1 DEF Valued
<1>7. \A i \in Nat : i + 1 \in 1..n => Sighted(scan[i + 1], i + 1)
  <2> DEFINE Sure == {i \in Nat : i + 1 \in 1..n => Sighted(scan[i + 1], i + 1)}
  <2>1. 0 \in Sure
    <3>1. 1 \in 1..n /\ 0 + 1 = 1
      BY <1>1
    <3>2. scan[1] = ScanStart /\ Valued(1)
      BY <1>5, <1>6, <3>1
    <3> QED
      BY <3>1, <3>2, SightedStart
  <2>2. ASSUME NEW i \in Nat, i \in Sure
        PROVE  i + 1 \in Sure
    <3>1. SUFFICES ASSUME (i + 1) + 1 \in 1..n
                   PROVE  Sighted(scan[(i + 1) + 1], (i + 1) + 1)
      OBVIOUS
    <3>2. PICK k : k = (i + 1) + 1
      OBVIOUS
    <3>3. k \in 1..n /\ k \in Nat /\ k >= 2 /\ k - 1 = i + 1 /\ i + 1 \in 1..n /\ k # 1
      BY <1>1, <3>1, <3>2
    <3>4. Sighted(scan[k - 1], k - 1)
      BY <2>2, <3>3
    <3>5. scan[k] = ScanStep(scan[k - 1], k) /\ Valued(k)
      BY <1>5, <1>6, <3>3
    <3>6. Sighted(ScanStep(scan[k - 1], k), k)
      BY <3>3, <3>4, <3>5, SightedStep
    <3> QED
      BY <3>2, <3>5, <3>6
  <2> HIDE DEF Sure
  <2>3. \A i \in Nat : i \in Sure
    BY <2>1, <2>2, SetInduction
  <2> QED
    BY <2>3 DEF Sure
<1>8. Sighted(scan[n], n)
  <2>1. n - 1 \in Nat /\ (n - 1) + 1 = n /\ n \in 1..n
    BY <1>1
  <2> QED
    BY <1>7, <2>1
<1> QED
  BY <1>4, <1>8 DEF Sighted

-----------------------------------------------------------------------------
(* What an evaluation demands and reports.                                  *)

LEMMA PositionedAreFilled ==
  ASSUME IInv, SerialInv
  PROVE  Filled = Positioned
<1>1. ASSUME NEW r \in Risks
      PROVE  trades[r].status = "filled" <=> positions[r].status # "none"
  <2>1. CASE trades[r].status = "filled"
    <3>1. positions[r].status \in {"open", "closed", "settled"}
      BY <2>1 DEF SerialInv, Lineage, Descends
    <3> QED
      BY <2>1, <3>1
  <2>2. CASE trades[r].status # "filled"
    <3>1. positions[r] = NoRow
      BY <2>2 DEF IInv, RowsAreCoherent
    <3> QED
      BY <2>2, <3>1 DEF NoRow
  <2> QED
    BY <2>1, <2>2
<1> QED
  BY <1>1 DEF Filled, Positioned

LEMMA HistoriesAreValid ==
  ASSUME TypeOK, SerialInv, NEW r \in Risks, trades[r].status = "filled"
  PROVE  EventsValid(r)
<1>1. PICK row : row = positions[r]
  OBVIOUS
<1>2. PICK history : history = events[r]
  OBVIOUS
<1>3. PICK opening : opening = trades[r].opening
  OBVIOUS
<1>4. PICK n : n = Len(history)
  OBVIOUS
<1>5. history \in Seq(Events) /\ n \in Nat
  BY <1>2, <1>4 DEF TypeOK
<1>6. /\ Chained(opening, row, history) /\ Opened(approvals[r], opening)
      /\ Descends(opening, row)
  BY <1>1, <1>2, <1>3 DEF SerialInv, Lineage
<1>7. /\ \A i \in 1..n :
           /\ history[i].before = IF i = 1 THEN opening ELSE history[i - 1].after
           /\ history[i].before.status = "open"
           /\ history[i].action = "close" <=> history[i].after.status = "closed"
           /\ history[i].action = "settle" <=> history[i].after.status = "settled"
      /\ row = IF n = 0 THEN opening ELSE history[n].after
  BY <1>4, <1>6 DEF Chained
<1>8. /\ opening.status = "open" /\ opening.version = 0 /\ opening.realized = 0
      /\ opening.quantity = row.initial /\ opening.gross = row.originalGross
      /\ opening.fees = row.originalFees
      /\ opening.total = row.originalGross + row.originalFees
  BY <1>6 DEF Opened, Descends
<1> DEFINE terminal == {i \in 1..n : history[i].action \in {"close", "settle"}}
           first == [version |-> 0, status |-> "open", quantity |-> row.initial,
                     gross |-> row.originalGross, fees |-> row.originalFees,
                     total |-> row.originalGross + row.originalFees, realized |-> 0]
<1>9. CASE n = 0
  BY <1>1, <1>2, <1>4, <1>7, <1>8, <1>9 DEF EventsValid
<1>10. CASE n # 0
  <2>1. n \in 1..n /\ 1 \in 1..n
    BY <1>5, <1>10
  <2>2. history[1].before = opening /\ history[n].after = row
    BY <1>7, <1>10, <2>1
  <2>3. Carried(opening) = first
    BY <1>8 DEF Carried
  <2>4. ASSUME NEW i \in 1..(n - 1)
        PROVE  history[i + 1].before = history[i].after /\ history[i].after.status = "open"
    <3>1. i + 1 \in 1..n /\ i + 1 # 1 /\ (i + 1) - 1 = i
      BY <1>5, <2>4
    <3> QED
      BY <1>7, <3>1
  <2>5. terminal \subseteq {n}
    <3>1. SUFFICES ASSUME NEW i \in 1..n, history[i].action \in {"close", "settle"}
                   PROVE  i = n
      OBVIOUS
    <3>2. CASE i \in 1..(n - 1)
      BY <1>7, <2>4, <3>1, <3>2
    <3>3. CASE i \notin 1..(n - 1)
      BY <1>5, <3>3
    <3> QED
      BY <3>2, <3>3
  <2>6. /\ row.status = "closed" <=> history[n].action = "close"
        /\ row.status = "settled" <=> history[n].action = "settle"
    BY <1>7, <2>1, <2>2
  <2>7. history[n].action \in {"close", "settle"} => terminal = {n}
    BY <2>1, <2>5
  <2>8. history[n].action \notin {"close", "settle"} => terminal = {}
    BY <2>1, <2>5
  <2>9. /\ row.status = "open" => terminal = {}
        /\ row.status = "closed" => terminal = {n} /\ history[n].action = "close"
        /\ row.status = "settled" => terminal = {n} /\ history[n].action = "settle"
    BY <2>6, <2>7, <2>8
  <2>10. \A i \in 1..(n - 1) : history[i].after = history[i + 1].before
    BY <2>4
  <2> HIDE DEF terminal
  <2>11. /\ history[1].before = opening /\ Carried(history[1].before) = first
         /\ \A i \in 1..(n - 1) : history[i].after = history[i + 1].before
         /\ history[n].after = row
         /\ row.status = "open" => terminal = {}
         /\ row.status = "closed" => terminal = {n} /\ history[n].action = "close"
         /\ row.status = "settled" => terminal = {n} /\ history[n].action = "settle"
    BY <2>2, <2>3, <2>9, <2>10
  <2> QED
    BY <1>1, <1>2, <1>3, <1>4, <1>10, <2>11 DEF EventsValid, terminal
<1> QED
  BY <1>9, <1>10

LEMMA FactsAreValid ==
  ASSUME TypeOK, SerialInv, NEW r \in Risks, trades[r].status = "filled"
  PROVE  FactValid(r)
<1>1. PICK row : row = positions[r]
  OBVIOUS
<1>2. PICK opening : opening = trades[r].opening
  OBVIOUS
<1>3. Opened(approvals[r], opening) /\ Descends(opening, row)
  BY <1>1, <1>2 DEF SerialInv, Lineage
<1>4. /\ row.originalGross + row.originalFees = opening.total
      /\ row.initial = opening.quantity
      /\ row.status # "open" => row.unrealized = 0
      /\ row.market = approvals[r].market /\ opening.market = approvals[r].market
  BY <1>3 DEF Opened, Descends
<1>5. LineageValid(r)
  BY <1>1, <1>2, <1>4 DEF LineageValid
<1>6. EventsValid(r)
  BY HistoriesAreValid
<1> QED
  BY <1>1, <1>2, <1>4, <1>5, <1>6 DEF FactValid

LEMMA HeadReconciled ==
  ASSUME IInv, SerialInv
  PROVE  HeadReconciles
<1>1. /\ snapshot.realized = Total(Column(positions, "realized"))
      /\ snapshot.unrealized = Total(OpenColumn(positions, "unrealized"))
  BY DEF IInv, LedgerReconciles, Reconciles
<1>2. \A r \in Risks : positions[r].status # "open" => positions[r].unrealized = 0
  <2>1. SUFFICES ASSUME NEW r \in Risks, positions[r].status # "open"
                 PROVE  positions[r].unrealized = 0
    OBVIOUS
  <2>2. CASE trades[r].status = "filled"
    BY <2>1, <2>2 DEF SerialInv, Lineage, Descends
  <2>3. CASE trades[r].status # "filled"
    <3>1. positions[r] = NoRow
      BY <2>3 DEF IInv, RowsAreCoherent
    <3> QED
      BY <3>1 DEF NoRow
  <2> QED
    BY <2>2, <2>3
<1>3. OpenColumn(positions, "unrealized") = Column(positions, "unrealized")
  BY <1>2 DEF OpenColumn, Column
<1> QED
  BY <1>1, <1>3 DEF HeadReconciles

LEMMA NothingIsRefused ==
  ASSUME IInv, SerialInv, ChainInv
  PROVE  Accepts
<1>1. TypeOK
  BY DEF IInv
<1>2. Filled = Positioned
  BY PositionedAreFilled
<1>3. \A r \in Positioned : FactValid(r)
  BY <1>1, <1>2, FactsAreValid DEF Filled
<1>4. ChainValid
  BY DEF ChainInv
<1>5. HeadReconciles
  BY HeadReconciled
<1> QED
  BY <1>2, <1>3, <1>4, <1>5 DEF Accepts

\* The profit of a position that has ended is what it brought in less what it cost.
LEMMA ProfitOfTheEnded ==
  ASSUME IInv, SerialInv, NEW r \in Completed
  PROVE  /\ positions[r].realized > 0 <=>
              SumOver(events[r], "proceeds") > trades[r].opening.total
         /\ positions[r].realized < 0 <=>
              SumOver(events[r], "proceeds") < trades[r].opening.total
<1>1. TypeOK
  BY DEF IInv
<1>2. r \in Risks /\ r \in Positioned /\ positions[r].status # "open"
  BY DEF Completed, Positioned
<1>3. trades[r].status = "filled"
  BY <1>2, PositionedAreFilled DEF Filled
<1>4. positions[r].total = 0
  BY <1>2, <1>3 DEF SerialInv, Lineage, Descends
<1>5. PICK income : income = SumOver(events[r], "proceeds")
  OBVIOUS
<1>6. PICK released : released = SumOver(events[r], "released")
  OBVIOUS
<1>7. PICK cost : cost = trades[r].opening.total
  OBVIOUS
<1>8. PICK profit : profit = positions[r].realized
  OBVIOUS
<1>9. income \in Int /\ released \in Int
  BY <1>1, <1>2, <1>5, <1>6, ColumnSumType DEF TypeOK, SumColumns
<1>10. cost \in Int /\ profit \in Int
  <2>1. trades[r].opening \in Rows /\ positions[r] \in Rows
    BY <1>1, <1>2 DEF TypeOK
  <2> QED
    BY <1>7, <1>8, <2>1, RowFields
<1>11. 0 = cost - released /\ profit = income - released
  BY <1>2, <1>4, <1>5, <1>6, <1>7, <1>8 DEF SerialInv, PositionFollowsHistory
<1>12. (profit > 0 <=> income > cost) /\ (profit < 0 <=> income < cost)
  BY <1>9, <1>10, <1>11
<1> QED
  BY <1>5, <1>7, <1>8, <1>12

LEMMA ReportIsSo ==
  ASSUME IInv, SerialInv, HeadValid, ChainInv
  PROVE  EvaluationIsSound
<1>1. PICK n : n = Len(chain)
  OBVIOUS
<1>2. n \in Nat \ {0}
  BY <1>1 DEF ChainInv
<1>3. Accepts
  BY NothingIsRefused
<1>4. Report.net = Report.cohort.net
  <2>1. /\ snapshot.realized = Total(Column(positions, "realized"))
        /\ snapshot.unrealized = Total(Column(positions, "unrealized"))
    BY HeadReconciled DEF HeadReconciles
  <2>2. snapshot.total = StartingBankroll + snapshot.realized + snapshot.unrealized
    BY DEF HeadValid
  <2>3. snapshot.realized \in Int /\ snapshot.unrealized \in Int /\ StartingBankroll \in Int
    BY MoneyAssumption DEF IInv, TypeOK, Snapshots
  <2>4. snapshot.total - StartingBankroll = snapshot.realized + snapshot.unrealized
    BY <2>2, <2>3
  <2> QED
    BY <2>1, <2>4 DEF Report, Cohort
<1>5. Report.cohort.wins =
        Cardinality({r \in Completed :
                       SumOver(events[r], "proceeds") > trades[r].opening.total})
  <2>1. {r \in Completed : positions[r].realized > 0} =
          {r \in Completed : SumOver(events[r], "proceeds") > trades[r].opening.total}
    BY ProfitOfTheEnded
  <2> QED
    BY <2>1 DEF Report, Cohort
<1>6. Report.cohort.losses =
        Cardinality({r \in Completed :
                       SumOver(events[r], "proceeds") < trades[r].opening.total})
  <2>1. {r \in Completed : positions[r].realized < 0} =
          {r \in Completed : SumOver(events[r], "proceeds") < trades[r].opening.total}
    BY ProfitOfTheEnded
  <2> QED
    BY <2>1 DEF Report, Cohort
<1>7. Valued(n)
  <2>1. \A i \in 1..n : Value(i) \in Nat
    BY <1>1 DEF ChainInv, ChainValid, SnapshotValid, Value
  <2>2. Value(1) > 0
    BY MoneyAssumption DEF ChainInv, Value
  <2> QED
    BY <1>2, <2>1, <2>2 DEF Valued
<1>8. Report.drawdown = MaximumDrawdown(n)
  BY <1>1 DEF Report
<1>9. /\ Report.drawdown.peak <= Report.drawdown.trough
      /\ \A pair \in [peak : 1..n, trough : 1..n] :
           pair.peak <= pair.trough => ~Deeper(pair, Report.drawdown)
  BY <1>7, <1>8, DrawdownIsDeepest DEF Pairs
<1>10. (\E r \in Positioned : positions[r].status = "open" /\ positions[r].basis = "ask")
         => Report.warned
  <2>1. SUFFICES ASSUME NEW r \in Positioned,
                        positions[r].status = "open" /\ positions[r].basis = "ask"
                 PROVE  Report.warned
    OBVIOUS
  <2>2. \E j \in 1..n : chain[j].row.status = "open" /\ chain[j].row.basis = "ask"
    BY <1>1, <2>1 DEF ChainInv, Unbid, Positioned
  <2>3. n \in Warned
    BY <1>1, <1>2, <2>2 DEF Warned
  <2> QED
    BY <1>1, <2>3 DEF Report
<1> QED
  BY <1>1, <1>3, <1>4, <1>5, <1>6, <1>9, <1>10 DEF EvaluationIsSound

\* With requests that do not overlap the events of a position are one history:
\* each takes up where the last one ended.
THEOREM ContiguousTheorem ==
  ASSUME OneRequestAtATime
  PROVE  Spec => []HistoryIsContiguous
<1>1. SerialInv => HistoryIsContiguous
  BY DEF SerialInv, Lineage, Chained, HistoryIsContiguous
<1> QED
  BY <1>1, SerialInvariance, PTL

\* With requests that do not overlap an evaluation refuses no history that
\* execution and monitoring write, and what it reports is so: the profit is that
\* of the positions, a win brought in more than it cost, no fall of the ledger is
\* deeper than the drawdown, and a price nobody bid is warned about.
THEOREM EvaluationTheorem ==
  ASSUME OneRequestAtATime
  PROVE  EvaluationSpec => []EvaluationIsSound
<1>1. EvaluationInit => Init /\ ChainInv
  BY ChainInitially DEF EvaluationInit
<1>2. [EvaluationNext]_<<vars, chain>> => [Next]_vars
  BY DEF EvaluationNext
<1>3. EvaluationSpec => Spec
  BY <1>1, <1>2, PTL DEF EvaluationSpec, Spec
<1>4. EvaluationSpec => [](IInv /\ SerialInv /\ HeadValid)
  BY <1>3, Invariance, SerialInvariance, HeadIsValid, PTL
<1>5. EvaluationSpec => []ChainInv
  BY <1>1, <1>4, ChainStep, PTL DEF EvaluationSpec
<1>6. IInv /\ SerialInv /\ HeadValid /\ ChainInv => EvaluationIsSound
  BY ReportIsSo
<1> QED
  BY <1>4, <1>5, <1>6, PTL
=============================================================================
