---------------------------- MODULE PaperTrading ----------------------------
(***************************************************************************)
(* One paper portfolio: its ledger of snapshots, the trades that risk      *)
(* decisions authorise, the positions they open, and the monitoring events *)
(* that mark, reduce, close and settle them.                               *)
(*                                                                         *)
(* Requests run concurrently, each in a database session of its own under  *)
(* READ COMMITTED.  A request is two steps here, because it is two steps   *)
(* to the others: what it reads before it holds the portfolio's row lock,  *)
(* and everything from the last lock to its commit, which no other request *)
(* can come between.                                                       *)
(*                                                                         *)
(* A risk decision opens at most one position, so the decision's number    *)
(* names its trade and its position too (the code derives the identifiers  *)
(* of both from the decision's).  A market's quote is the quote of the     *)
(* side the portfolio would hold.                                          *)
(***************************************************************************)
EXTENDS PaperMoney, Sequences, RowTotals

CONSTANTS
  RiskCount,           \* risk decisions 1..RiskCount
  Markets,
  Requests,            \* concurrent requests
  StartingBankroll,
  Capitals,            \* capital a risk decision may authorise, in cents
  Quotes,              \* what a market-price row and a forecast may say
  NoBid,               \* the bid of a book without one
  Payouts,             \* official held-side payouts, in price units
  NoResolution,        \* no resolution row
  Conflict,            \* resolution rows that disagree
  MinAdjustedEdge,     \* the edge an entry must keep, in price units
  MinHoldEdge,         \* PositionMonitoringPolicy.min_hold_edge
  ChangeLimit          \* bound: changes of the sources of one market

Risks == 1..RiskCount

QuoteRange ==
  [ask : 0..One, bid : (0..One - 1) \union {NoBid}, probability : 0..One]

ASSUME CountAssumption == RiskCount \in Nat \ {0} /\ Markets # {}
ASSUME MoneyAssumption ==
  /\ StartingBankroll \in Nat \ {0}
  /\ Capitals \subseteq Nat \ {0}
ASSUME QuoteAssumption ==
  /\ NoBid \notin Int
  /\ Quotes \subseteq QuoteRange
  /\ Payouts \subseteq 0..One
  /\ NoResolution \notin Int /\ Conflict \notin Int /\ NoResolution # Conflict
ASSUME EdgeAssumption ==
  MinAdjustedEdge \in 0..One /\ MinHoldEdge \in 0..One
ASSUME LimitAssumption == ChangeLimit \in Nat

VARIABLES
  sources,     \* per market: the latest price, forecast, match and resolution
  changes,     \* per market: how often they changed (the bound on behaviours)
  approvals,   \* per risk decision: what it authorised, and against what
  snapshot,    \* the latest row of portfolio_snapshots
  trades,      \* per risk decision: its row of trades
  positions,   \* per risk decision: its row of positions
  events,      \* per risk decision: its rows of position_events, in order
  requests     \* per request: what it is doing

vars == <<sources, changes, approvals, snapshot, trades, positions, events, requests>>

-----------------------------------------------------------------------------
(* Rows.                                                                   *)

\* tick numbers the latest publication, so equal sources are equal rows.
Sources ==
  [tick : Nat, quote : Quotes, eligible : BOOLEAN,
   open : BOOLEAN, resolution : {NoResolution, Conflict} \union Payouts]

Approvals ==
  [market : Markets, capital : Capitals, tick : Nat, sequence : Nat]

Snapshots ==
  [sequence : Nat, current : Int, cash : Int, committed : Int,
   available : Int, realized : Int, openValue : Int, unrealized : Int,
   total : Int]

Rows ==
  [status : {"none", "open", "closed", "settled"}, market : Markets,
   initial : Nat, quantity : Nat, disposed : Nat,
   originalGross : Nat, originalFees : Nat,
   gross : Int, fees : Int, total : Int,
   mark : 0..One, basis : {"bid", "ask", "exit", "payout"},
   value : Int, unrealized : Int, realized : Int, version : Nat]

NoRow ==
  [status |-> "none", market |-> CHOOSE m \in Markets : TRUE,
   initial |-> 0, quantity |-> 0, disposed |-> 0,
   originalGross |-> 0, originalFees |-> 0, gross |-> 0, fees |-> 0,
   total |-> 0, mark |-> 0, basis |-> "ask", value |-> 0, unrealized |-> 0,
   realized |-> 0, version |-> 0]

Events ==
  [source : Sources, action : {"hold", "reduce", "close", "settle"},
   before : Rows, after : Rows, quantity : Nat, proceeds : Int, released : Int]

NoApproval == [market |-> NoRow.market, capital |-> 0]

Idle == [kind |-> "idle"]

-----------------------------------------------------------------------------
(* The sums the database computes over the positions of the portfolio.     *)

Total(amounts) == TotalOf(RiskCount, amounts)

\* One column of the open positions; what is not open counts as nothing.
OpenColumn(rows, column) ==
  [r \in Risks |-> IF rows[r].status = "open" THEN rows[r][column] ELSE 0]

Column(rows, column) == [r \in Risks |-> rows[r][column]]

Reconciles(head, rows) ==
  /\ head.committed = Total(OpenColumn(rows, "total"))
  /\ head.openValue = Total(OpenColumn(rows, "value"))
  /\ head.unrealized = Total(OpenColumn(rows, "unrealized"))
  /\ head.realized = Total(Column(rows, "realized"))

-----------------------------------------------------------------------------
(* Sources: what ingestion, matching and forecasting publish.              *)

Final(source) == source.resolution \in Payouts

Change(m) ==
  /\ changes[m] < ChangeLimit
  /\ changes' = [changes EXCEPT ![m] = @ + 1]
  /\ UNCHANGED <<approvals, snapshot, trades, positions, events, requests>>

\* A new price, forecast or match row: current again, with a new identity.
Publish(m, quote) ==
  /\ Change(m)
  /\ sources' = [sources EXCEPT ![m].tick = @ + 1,
                                ![m].quote = quote,
                                ![m].eligible = TRUE]

\* A row outlives its maximum age, the game starts, or the match is withdrawn.
Lapse(m) ==
  /\ Change(m)
  /\ sources[m].eligible
  /\ sources' = [sources EXCEPT ![m].eligible = FALSE]

\* The provider closes the market, or opens it again.
ChangeStatus(m) ==
  /\ Change(m)
  /\ sources' = [sources EXCEPT ![m].open = ~@]

\* Resolutions are only ever added; two that differ leave none official.
Resolve(m, payout) ==
  /\ Change(m)
  /\ sources[m].resolution \notin {payout, Conflict}
  /\ sources' = [sources EXCEPT ![m].resolution =
                                IF @ = NoResolution THEN payout ELSE Conflict]

\* Variant: a position that monitoring has touched no longer counts as open.
HasUntouchedPosition(m) ==
  \E r \in Risks :
    /\ positions[r].status = "open" /\ positions[r].market = m
    /\ positions[r].version = 0

HasOpenPosition(m) ==
  \E r \in Risks : positions[r].status = "open" /\ positions[r].market = m

\* The risk service approves a proposal against what is current.  Decisions are
\* numbered in the order they are made.
Authorize(r, m, capital) ==
  /\ approvals[r] = NoApproval
  /\ \A earlier \in 1..(r - 1) : approvals[earlier] # NoApproval
  /\ sources[m].open /\ sources[m].eligible
  /\ capital <= snapshot.available /\ ~HasOpenPosition(m)
  /\ approvals' = [approvals EXCEPT ![r] =
       [market |-> m, capital |-> capital, tick |-> sources[m].tick,
        sequence |-> snapshot.sequence]]
  /\ UNCHANGED <<sources, changes, snapshot, trades, positions, events, requests>>

-----------------------------------------------------------------------------
(* Execution of a risk decision.                                           *)

\* The read before the locks finds no trade.  (One it finds is replayed.)
BeginExecution(w, r) ==
  /\ requests[w] = Idle
  /\ approvals[r] # NoApproval
  /\ trades[r].status = "none"
  /\ requests' = [requests EXCEPT ![w] = [kind |-> "execute", risk |-> r]]
  /\ UNCHANGED <<sources, changes, approvals, snapshot, trades, positions, events>>

ValidBook(quote) ==
  /\ 0 < quote.ask /\ quote.ask < One
  /\ quote.bid # NoBid => quote.bid <= quote.ask

\* The gates of the execution engine, save that the approval has not expired.
Qualifies(r) ==
  LET approval == approvals[r]
      source == sources[approval.market]
      quote == source.quote
      price == EntryPrice(quote.ask)
      quantity == FillQuantity(price, approval.capital)
  IN  /\ approval.tick = source.tick /\ source.open /\ source.eligible
      /\ approval.sequence = snapshot.sequence
      /\ ~HasOpenPosition(approval.market)
      /\ approval.capital <= snapshot.available
      /\ ValidBook(quote)
      /\ price < One
      /\ quantity >= 1
      /\ quote.probability - EffectiveUnitCost(price, quantity) >= MinAdjustedEdge

Opening(r) ==
  LET quote == sources[approvals[r].market].quote
      price == EntryPrice(quote.ask)
      quantity == FillQuantity(price, approvals[r].capital)
      total == EntryTotal(price, quantity)
      mark == IF quote.bid = NoBid THEN quote.ask ELSE quote.bid
      value == MarketValue(mark, quantity)
  IN  [status |-> "open", market |-> approvals[r].market,
       initial |-> quantity, quantity |-> quantity, disposed |-> 0,
       originalGross |-> EntryGross(price, quantity),
       originalFees |-> EntryFees(price, quantity),
       gross |-> EntryGross(price, quantity), fees |-> EntryFees(price, quantity),
       total |-> total, mark |-> mark,
       basis |-> IF quote.bid = NoBid THEN "ask" ELSE "bid",
       value |-> value, unrealized |-> value - total, realized |-> 0,
       version |-> 0]

\* Variant: the position enters the ledger at what it cost, not at its mark.
AfterEntryAtCost(row) ==
  [snapshot EXCEPT !.sequence = @ + 1,
                   !.cash = @ - row.total,
                   !.committed = @ + row.total,
                   !.available = @ - row.total,
                   !.openValue = @ + row.total,
                   !.total = snapshot.cash + snapshot.openValue]

\* Variant: the fees of the entry are not paid.
AfterEntryWithoutFees(row) ==
  [snapshot EXCEPT !.sequence = @ + 1,
                   !.cash = @ - row.gross,
                   !.committed = @ + row.total,
                   !.available = @ - row.gross,
                   !.openValue = @ + row.value,
                   !.unrealized = @ + row.unrealized,
                   !.total = snapshot.cash - row.gross + snapshot.openValue + row.value]

AfterEntry(row) ==
  [snapshot EXCEPT !.sequence = @ + 1,
                   !.cash = @ - row.total,
                   !.committed = @ + row.total,
                   !.available = @ - row.total,
                   !.openValue = @ + row.value,
                   !.unrealized = @ + row.unrealized,
                   !.total = snapshot.cash - row.total + snapshot.openValue + row.value]

\* The trade, the position and the snapshot commit together.
Fill(w) ==
  /\ requests[w].kind = "execute"
  /\ LET r == requests[w].risk IN
       /\ trades[r].status = "none"
       /\ Qualifies(r)
       /\ snapshot' = AfterEntry(Opening(r))
       /\ trades' = [trades EXCEPT ![r] = [status |-> "filled", opening |-> Opening(r)]]
       /\ positions' = [positions EXCEPT ![r] = Opening(r)]
  /\ requests' = [requests EXCEPT ![w] = Idle]
  /\ UNCHANGED <<sources, changes, approvals, events>>

\* Variant: the trade is not looked up again once the locks are held.
RejectWithoutRecheck(w, unexpired) ==
  /\ requests[w].kind = "execute"
  /\ LET r == requests[w].risk IN
       /\ ~(unexpired /\ Qualifies(r))
       /\ trades' = [trades EXCEPT ![r].status = "rejected"]
  /\ requests' = [requests EXCEPT ![w] = Idle]
  /\ UNCHANGED <<sources, changes, approvals, snapshot, positions, events>>

\* A gate fails, or the approval had expired once the locks were held.
Reject(w, unexpired) ==
  /\ requests[w].kind = "execute"
  /\ LET r == requests[w].risk IN
       /\ trades[r].status = "none"
       /\ ~(unexpired /\ Qualifies(r))
       /\ trades' = [trades EXCEPT ![r].status = "rejected"]
  /\ requests' = [requests EXCEPT ![w] = Idle]
  /\ UNCHANGED <<sources, changes, approvals, snapshot, positions, events>>

\* Another request finished this decision while this one waited for the locks.
ReplayExecution(w) ==
  /\ requests[w].kind = "execute"
  /\ trades[requests[w].risk].status # "none"
  /\ requests' = [requests EXCEPT ![w] = Idle]
  /\ UNCHANGED <<sources, changes, approvals, snapshot, trades, positions, events>>

-----------------------------------------------------------------------------
(* Monitoring: the decision.                                               *)

Marked(row, bid) ==
  [row EXCEPT !.mark = bid,
              !.basis = "bid",
              !.value = MarketValue(bid, row.quantity),
              !.unrealized = MarketValue(bid, row.quantity) - row.total]

Reduced(row, quantity, bid) ==
  LET disposed == row.disposed + quantity
      Left(remaining, original) ==
        remaining - (Allocation(original, disposed, row.initial)
                       - Allocation(original, row.disposed, row.initial))
      gross == Left(row.gross, row.originalGross)
      fees == Left(row.fees, row.originalFees)
      released == row.total - (gross + fees)
  IN  Marked([row EXCEPT !.quantity = @ - quantity, !.disposed = disposed,
                         !.gross = gross, !.fees = fees, !.total = gross + fees,
                         !.realized = @ + SaleProceeds(bid, quantity) - released],
             bid)

Ended(row, status, price, proceeds) ==
  [row EXCEPT !.status = status, !.quantity = 0, !.disposed = row.initial,
              !.gross = 0, !.fees = 0, !.total = 0, !.mark = price,
              !.basis = IF status = "settled" THEN "payout" ELSE "exit",
              !.value = 0, !.unrealized = 0,
              !.realized = @ + proceeds - row.total]

Decision(action, quantity, proceeds, after) ==
  [action |-> action, quantity |-> quantity, proceeds |-> proceeds, after |-> after]

Close(row, bid) ==
  Decision("close", row.quantity, SaleProceeds(bid, row.quantity),
           Ended(row, "closed", ExitPrice(bid), SaleProceeds(bid, row.quantity)))

\* Variant: the row is marked at what was paid instead of at the payout.
SettleMarkedAtProceeds(row, payout) ==
  Decision("settle", row.quantity, SettlementProceeds(payout, row.quantity),
           Ended(row, "settled", SettlementProceeds(payout, row.quantity),
                 SettlementProceeds(payout, row.quantity)))

Settle(row, payout) ==
  Decision("settle", row.quantity, SettlementProceeds(payout, row.quantity),
           Ended(row, "settled", payout, SettlementProceeds(payout, row.quantity)))

Reduce(row, bid) ==
  LET quantity == ReduceQuantity(row.quantity)
  IN  Decision("reduce", quantity, SaleProceeds(bid, quantity),
               Reduced(row, quantity, bid))

\* Evidence good enough to act on; without it a position is held unmarked.
Actionable(source) ==
  source.open /\ source.eligible /\ source.quote.bid # NoBid

HoldEdge(quote) == quote.probability - quote.bid

Exits(quote) ==
  \/ HoldEdge(quote) <= 0
  \/ HoldEdge(quote) < MinHoldEdge /\ 2 * quote.probability <= One

\* Settlement comes first, then evidence, then the edge that is left.
Decide(row, source) ==
  LET quote == source.quote
      bid == quote.bid
  IN  IF Final(source) THEN Settle(row, source.resolution)
      ELSE IF ~Actionable(source) THEN Decision("hold", 0, 0, row)
      ELSE IF Exits(quote) THEN Close(row, bid)
      ELSE IF HoldEdge(quote) >= MinHoldEdge THEN Decision("hold", 0, 0, Marked(row, bid))
      ELSE IF row.quantity = 1 THEN Close(row, bid)
      ELSE Reduce(row, bid)

\* The fingerprint leaves out what the position is; a conflict is no resolution.
Fingerprint(source) ==
  IF Final(source) THEN source ELSE [source EXCEPT !.resolution = NoResolution]

-----------------------------------------------------------------------------
(* Monitoring: the request.                                                *)

\* Variant: monitoring starts from the opening fill instead of the stored row.
BeginMonitoringAtOpening(w, r) ==
  /\ requests[w] = Idle
  /\ positions[r].status = "open"
  /\ requests' = [requests EXCEPT ![w] =
       [kind |-> "monitor", risk |-> r, loaded |-> trades[r].opening]]
  /\ UNCHANGED <<sources, changes, approvals, snapshot, trades, positions, events>>

\* The session reads the position without a lock and keeps the object it
\* built.  (One that is not open is replayed.)
BeginMonitoring(w, r) ==
  /\ requests[w] = Idle
  /\ positions[r].status = "open"
  /\ requests' = [requests EXCEPT ![w] =
       [kind |-> "monitor", risk |-> r, loaded |-> positions[r]]]
  /\ UNCHANGED <<sources, changes, approvals, snapshot, trades, positions, events>>

\* An UPDATE names only the columns the session knows it has changed.
Flush(stored, loaded, after) ==
  [column \in DOMAIN stored |->
     IF after[column] = loaded[column] THEN stored[column] ELSE after[column]]

\* ck_positions_accounting and ck_positions_lifecycle.
Accepted(row) ==
  /\ row.initial = row.quantity + row.disposed
  /\ row.gross \in 0..row.originalGross /\ row.fees \in 0..row.originalFees
  /\ row.total = row.gross + row.fees
  /\ row.value >= 0 /\ row.unrealized = row.value - row.total
  /\ IF row.status = "open"
     THEN row.quantity >= 1 /\ row.total > 0 /\ row.basis \in {"bid", "ask"}
     ELSE /\ row.quantity = 0 /\ row.total = 0 /\ row.value = 0
          /\ row.basis = IF row.status = "closed" THEN "exit" ELSE "payout"

\* Variant: a gain is paid out but does not grow the bankroll.
AfterDecisionWithoutGain(loaded, decision) ==
  LET after == decision.after
      value == after.value - loaded.value
  IN  [snapshot EXCEPT !.sequence = @ + 1,
                       !.cash = @ + decision.proceeds,
                       !.committed = @ + after.total - loaded.total,
                       !.available = @ + decision.proceeds,
                       !.realized = @ + after.realized - loaded.realized,
                       !.openValue = @ + value,
                       !.unrealized = @ + after.unrealized - loaded.unrealized,
                       !.total = @ + decision.proceeds + value]

AfterDecision(loaded, decision) ==
  LET after == decision.after
      gain == after.realized - loaded.realized
      value == after.value - loaded.value
  IN  [snapshot EXCEPT !.sequence = @ + 1,
                       !.current = @ + gain,
                       !.cash = @ + decision.proceeds,
                       !.committed = @ + after.total - loaded.total,
                       !.available = @ + decision.proceeds,
                       !.realized = @ + gain,
                       !.openValue = @ + value,
                       !.unrealized = @ + after.unrealized - loaded.unrealized,
                       !.total = @ + decision.proceeds + value]

\* The row of position_events: what the decision rested on, and the position
\* before and after it.
EventRecord(source, loaded, decision, after) ==
  [source |-> Fingerprint(source), action |-> decision.action,
   before |-> loaded, after |-> after,
   quantity |-> decision.quantity, proceeds |-> decision.proceeds,
   released |-> loaded.total - after.total]

\* What a monitoring request makes of the locked sources and the row it loaded.
\* The SELECT ... FOR UPDATE of the position returns the object the session
\* already has: it locks the row and does not refresh it.
Outcome(w) ==
  LET r == requests[w].risk
      loaded == requests[w].loaded
      source == sources[loaded.market]
      decision == Decide(loaded, source)
      changed == decision.after # loaded
      after == IF changed THEN [decision.after EXCEPT !.version = @ + 1] ELSE loaded
  IN  [risk |-> r,
       changed |-> changed,
       positions |-> [positions EXCEPT ![r] = Flush(@, loaded, after)],
       snapshot |-> IF changed THEN AfterDecision(loaded, decision) ELSE snapshot,
       event |-> EventRecord(source, loaded, decision, after)]

Seen(outcome) ==
  \E i \in DOMAIN events[outcome.risk] :
    events[outcome.risk][i].source = outcome.event.source

\* Variant: the totals are compared before the projection but not after it.
CommitsWithoutRecheck(outcome) ==
  /\ Reconciles(snapshot, positions)
  /\ outcome.changed => Accepted(outcome.positions[outcome.risk])

Commits(outcome) ==
  /\ Reconciles(snapshot, positions)
  /\ outcome.changed => Accepted(outcome.positions[outcome.risk])
  /\ Reconciles(outcome.snapshot, outcome.positions)

\* The projection, the event and the snapshot commit together.
Record(w) ==
  /\ requests[w].kind = "monitor"
  /\ LET outcome == Outcome(w) IN
       /\ ~Seen(outcome)
       /\ Commits(outcome)
       /\ positions' = outcome.positions
       /\ snapshot' = outcome.snapshot
       /\ events' = [events EXCEPT ![outcome.risk] = Append(@, outcome.event)]
  /\ requests' = [requests EXCEPT ![w] = Idle]
  /\ UNCHANGED <<sources, changes, approvals, trades>>

\* These sources have been judged before: the earlier event is the answer.
ReplayMonitoring(w) ==
  /\ requests[w].kind = "monitor"
  /\ Seen(Outcome(w))
  /\ requests' = [requests EXCEPT ![w] = Idle]
  /\ UNCHANGED <<sources, changes, approvals, snapshot, trades, positions, events>>

\* A constraint or the reconciliation refuses the row: everything rolls back.
Abandon(w) ==
  /\ requests[w].kind = "monitor"
  /\ ~Seen(Outcome(w))
  /\ ~Commits(Outcome(w))
  /\ requests' = [requests EXCEPT ![w] = Idle]
  /\ UNCHANGED <<sources, changes, approvals, snapshot, trades, positions, events>>

-----------------------------------------------------------------------------
Init ==
  /\ sources \in [Markets -> [tick : {0}, quote : Quotes, eligible : {TRUE},
                              open : {TRUE}, resolution : {NoResolution}]]
  /\ changes = [m \in Markets |-> 0]
  /\ approvals = [r \in Risks |-> NoApproval]
  /\ snapshot = [sequence |-> 0, current |-> StartingBankroll,
                 cash |-> StartingBankroll, committed |-> 0,
                 available |-> StartingBankroll, realized |-> 0,
                 openValue |-> 0, unrealized |-> 0, total |-> StartingBankroll]
  /\ trades = [r \in Risks |-> [status |-> "none", opening |-> NoRow]]
  /\ positions = [r \in Risks |-> NoRow]
  /\ events = [r \in Risks |-> <<>>]
  /\ requests = [w \in Requests |-> Idle]

Next ==
  \/ \E m \in Markets :
       \/ \E quote \in Quotes : Publish(m, quote)
       \/ Lapse(m)
       \/ ChangeStatus(m)
       \/ \E payout \in Payouts : Resolve(m, payout)
  \/ \E r \in Risks, m \in Markets, capital \in Capitals : Authorize(r, m, capital)
  \/ \E w \in Requests :
       \/ \E r \in Risks : BeginExecution(w, r) \/ BeginMonitoring(w, r)
       \/ \E unexpired \in BOOLEAN : Reject(w, unexpired)
       \/ Fill(w) \/ ReplayExecution(w)
       \/ Record(w) \/ ReplayMonitoring(w) \/ Abandon(w)

Spec == Init /\ [][Next]_vars
=============================================================================
