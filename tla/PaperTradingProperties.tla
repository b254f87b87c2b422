----------------------- MODULE PaperTradingProperties -----------------------
(***************************************************************************)
(* What must be true of a paper portfolio.                                 *)
(***************************************************************************)
EXTENDS PaperTrading

\* Every variable holds rows of its own table.
TypeOK ==
  /\ sources \in [Markets -> Sources]
  /\ changes \in [Markets -> Nat]
  /\ approvals \in [Risks -> Approvals \union {NoApproval}]
  /\ snapshot \in Snapshots
  /\ trades \in [Risks -> [status : {"none", "filled", "rejected"}, opening : Rows]]
  /\ positions \in [Risks -> Rows]
  /\ events \in [Risks -> Seq(Events)]
  /\ requests \in [Requests -> {Idle}
                     \union [kind : {"execute"}, risk : Risks]
                     \union [kind : {"monitor"}, risk : Risks, loaded : Rows]]

\* The head of the ledger is the sum of the positions after every commit, in
\* all four columns, whatever row a request had loaded before it got the locks
\* (_validate_portfolio_totals; execution never runs that check itself).
LedgerReconciles == Reconciles(snapshot, positions)

\* The balance equations that the CHECK constraints of portfolio_snapshots and
\* the PortfolioSnapshot validator demand: no request ever computes a snapshot
\* they would refuse, so neither can make a monitoring or execution request fail.
SnapshotBalances ==
  /\ snapshot.current = StartingBankroll + snapshot.realized
  /\ snapshot.cash = snapshot.current - snapshot.committed
  /\ snapshot.available = snapshot.cash
  /\ snapshot.openValue = snapshot.committed + snapshot.unrealized
  /\ snapshot.total = snapshot.cash + snapshot.openValue
  /\ snapshot.cash >= 0 /\ snapshot.committed >= 0

-----------------------------------------------------------------------------
\* One column of an event history, added up.
SumOver(history, column) ==
  TotalOf(Len(history), [i \in 1..Len(history) |-> history[i][column]])

\* Cash is what the immutable records say: the starting bankroll, less what the
\* filled trades cost, plus what the events brought in, though each snapshot is
\* computed from the one before it and never from the records.
CashFollowsHistory ==
  LET cost == [r \in Risks |-> trades[r].opening.total]
      income == [r \in Risks |-> SumOver(events[r], "proceeds")]
  IN  snapshot.cash = StartingBankroll - Total(cost) + Total(income)

\* A position is what its events did to the opening fill: no disposal is lost,
\* and no contract is sold twice, though rows are written column by column from
\* objects loaded before the lock.
PositionFollowsHistory ==
  \A r \in Risks :
    LET opening == trades[r].opening
        row == positions[r]
    IN  /\ row.disposed = SumOver(events[r], "quantity")
        /\ row.total = opening.total - SumOver(events[r], "released")
        /\ row.realized = SumOver(events[r], "proceeds") - SumOver(events[r], "released")

\* One open position to a portfolio and market: the partial unique index
\* uq_positions_open_portfolio_market never has anything to refuse.
OneOpenPositionPerMarket ==
  \A r, other \in Risks :
    /\ positions[r].status = "open" /\ positions[other].status = "open"
    /\ positions[r].market = positions[other].market
    => r = other

\* A risk decision is used at most once: neither a repeat nor a concurrent
\* request changes the terminal trade (uq_trades_risk_decision).
AuthorizationIsSpentOnce ==
  [][\A r \in Risks : trades[r].status # "none" => trades'[r] = trades[r]]_vars

\* A closed or settled position never opens again and never changes hands,
\* quantity, cost or profit, though a request may have loaded it while open.
TerminalIsFinal ==
  [][\A r \in Risks :
       positions[r].status \in {"closed", "settled"} =>
         \A column \in {"status", "quantity", "disposed", "total", "value", "realized"} :
           positions'[r][column] = positions[r][column]]_vars

\* The event history of a position starts at its opening projection, each event
\* takes up where the last one ended, and the position is where they all end
\* (TradingEvaluationService._validate_position_events).
HistoryIsContiguous ==
  \A r \in Risks :
    LET history == events[r]
        n == Len(history)
    IN  /\ \A i \in 1..n :
             history[i].before =
               IF i = 1 THEN trades[r].opening ELSE history[i - 1].after
        /\ positions[r] = IF n = 0 THEN trades[r].opening ELSE history[n].after

-----------------------------------------------------------------------------
\* A position as an account of the paper ledger.
Account(row) ==
  [stage |-> IF row.status \in {"none", "open"} THEN row.status ELSE "ended",
   contracts |-> row.quantity, basis |-> row.total, profit |-> row.realized]

Ledger ==
  INSTANCE PaperLedger WITH
    Accounts <- Risks, ContractPayout <- 100, accounts <- [r \in Risks |-> Account(positions[r])]

\* Every position keeps the promises of a paper position, overlapping requests
\* and stale rows notwithstanding: a contract leaves it once and for at most what
\* a contract pays, and the profit is proceeds less cost.
ImplementsLedger == Ledger!LedgerSpec
=============================================================================
