------------------------------ MODULE Evaluation ------------------------------
(***************************************************************************)
(* The evaluation of a portfolio's performance.  It locks the portfolio,   *)
(* reads the whole chain of snapshots, every filled trade with its         *)
(* position and every position event, refuses them unless they agree with  *)
(* each other, and reports what they come to.  It writes nothing, so it is *)
(* a value of the state and not an action: whatever an evaluation would    *)
(* see is what a state of the portfolio between two commits holds.         *)
(***************************************************************************)
EXTENDS PaperTradingProperties, FiniteSets

VARIABLE chain      \* portfolio_snapshots, each with the position row of its commit

EvaluationInit == Init /\ chain = <<[head |-> snapshot, row |-> NoRow]>>

Written == positions'[CHOOSE r \in Risks : positions'[r] # positions[r]]

EvaluationNext ==
  /\ Next
  /\ chain' = IF snapshot' = snapshot THEN chain
              ELSE Append(chain, [head |-> snapshot', row |-> Written])

EvaluationSpec == EvaluationInit /\ [][EvaluationNext]_<<vars, chain>>

-----------------------------------------------------------------------------
(* What an evaluation demands of its sources.                              *)

Positioned == {r \in Risks : positions[r].status # "none"}
Filled == {r \in Risks : trades[r].status = "filled"}
Completed == {r \in Positioned : positions[r].status # "open"}

\* _validate_position_events: the first event shows the fill in these columns, and
\* what it started from has the fingerprint of the opening row; every other starts
\* from all that the one before it has left, which is what its fingerprint covers.
Carried(row) ==
  [column \in {"version", "status", "quantity", "gross", "fees", "total", "realized"} |->
     row[column]]

EventsValid(r) ==
  LET row == positions[r]
      history == events[r]
      n == Len(history)
      terminal == {i \in 1..n : history[i].action \in {"close", "settle"}}
  IN  IF n = 0 THEN row.realized = 0 /\ row.version = 0 /\ row.status = "open"
      ELSE /\ history[1].before = trades[r].opening
           /\ Carried(history[1].before) =
                [version |-> 0, status |-> "open", quantity |-> row.initial,
                 gross |-> row.originalGross, fees |-> row.originalFees,
                 total |-> row.originalGross + row.originalFees, realized |-> 0]
           /\ \A i \in 1..(n - 1) : history[i].after = history[i + 1].before
           /\ history[n].after = row
           /\ row.status = "open" => terminal = {}
           /\ row.status = "closed" => terminal = {n} /\ history[n].action = "close"
           /\ row.status = "settled" => terminal = {n} /\ history[n].action = "settle"

\* _validate_entry_lineage: the position, its trade and its approval are of one market.
LineageValid(r) ==
  /\ trades[r].status = "filled"
  /\ {positions[r].market, trades[r].opening.market} = {approvals[r].market}

\* _position_fact; a disposal leaves nothing unrealized in what it ended.
FactValid(r) ==
  LET row == positions[r]
      opening == trades[r].opening
  IN  /\ row.originalGross + row.originalFees = opening.total
      /\ row.initial = opening.quantity
      /\ row.status # "open" => row.unrealized = 0
      /\ LineageValid(r)
      /\ EventsValid(r)

\* validate_accounting_equations, and the money columns that are never negative.
SnapshotValid(head) ==
  /\ head.current = StartingBankroll + head.realized
  /\ head.cash = head.current - head.committed
  /\ head.available = head.cash
  /\ head.openValue = head.committed + head.unrealized
  /\ head.total = head.cash + head.openValue
  /\ head.committed <= head.current
  /\ {head.current, head.cash, head.committed, head.available, head.openValue, head.total}
       \subseteq Nat

\* The chain of TradingEvaluationInput.
ChainValid ==
  \A i \in 1..Len(chain) :
    LET head == chain[i].head
    IN  /\ head.sequence = i - 1
        /\ SnapshotValid(head)
        /\ head.total = StartingBankroll + head.realized + head.unrealized

HeadReconciles ==
  /\ snapshot.realized = Total(Column(positions, "realized"))
  /\ snapshot.unrealized = Total(Column(positions, "unrealized"))

Accepts ==
  /\ Filled = Positioned
  /\ \A r \in Positioned : FactValid(r)
  /\ ChainValid
  /\ HeadReconciles

-----------------------------------------------------------------------------
(* What it reports.                                                        *)

\* _cohort_metrics.
Cohort ==
  [wins |-> Cardinality({r \in Completed : positions[r].realized > 0}),
   losses |-> Cardinality({r \in Completed : positions[r].realized < 0}),
   net |-> Total(Column(positions, "realized")) + Total(Column(positions, "unrealized"))]

\* A drawdown from one snapshot of the chain to a later one.
Value(i) == chain[i].head.total
Fall(pair) == Value(pair.peak) - Value(pair.trough)
Deeper(pair, other) == Fall(pair) * Value(other.peak) > Fall(other) * Value(pair.peak)

\* Variant: falls are measured from the starting bankroll.
MaximumDrawdownFromStart(last) ==
  LET scan[i \in 1..last] ==
        LET fall == [peak |-> 1, trough |-> i]
        IN  IF i = 1 \/ Deeper(fall, scan[i - 1]) THEN fall ELSE scan[i - 1]
  IN  scan[last]

\* _maximum_drawdown: one pass that keeps the highest value so far.
MaximumDrawdown(last) ==
  LET scan[i \in 1..last] ==
        IF i = 1 THEN [peak |-> 1, worst |-> [peak |-> 1, trough |-> 1]]
        ELSE LET before == scan[i - 1]
                 peak == IF Value(i) > Value(before.peak) THEN i ELSE before.peak
                 fall == [peak |-> peak, trough |-> i]
             IN  [peak |-> peak,
                  worst |-> IF Deeper(fall, before.worst) THEN fall ELSE before.worst]
  IN  scan[last].worst

\* The snapshots that are marked as including a price nobody bid: those from the
\* first commit that left a position at the ask.
Warned == {i \in 1..Len(chain) : \E j \in 1..i : chain[j].row.status = "open" /\ chain[j].row.basis = "ask"}

Report ==
  [net |-> snapshot.total - StartingBankroll, cohort |-> Cohort,
   drawdown |-> MaximumDrawdown(Len(chain)), warned |-> Len(chain) \in Warned]

-----------------------------------------------------------------------------
(* What must be true of it.                                                *)

\* An evaluation can be had at every moment and what it says is so, when each
\* request reads after the one before it has committed: no history that
\* execution and monitoring write is refused; the profit of the ledger is the
\* profit of the positions; a win is a position whose disposals brought in more
\* than its fill cost, by the immutable records; no fall between two snapshots
\* is deeper than the one reported; and a price nobody bid is warned about.
EvaluationIsSound ==
  LET income(r) == SumOver(events[r], "proceeds")
      cost(r) == trades[r].opening.total
      report == Report
      pairs == [peak : 1..Len(chain), trough : 1..Len(chain)]
  IN  /\ Accepts
      /\ report.net = report.cohort.net
      /\ report.cohort.wins = Cardinality({r \in Completed : income(r) > cost(r)})
      /\ report.cohort.losses = Cardinality({r \in Completed : income(r) < cost(r)})
      /\ \A pair \in pairs : pair.peak <= pair.trough => ~Deeper(pair, report.drawdown)
      /\ report.drawdown.peak <= report.drawdown.trough
      /\ (\E r \in Positioned : positions[r].status = "open" /\ positions[r].basis = "ask")
           => report.warned
=============================================================================
