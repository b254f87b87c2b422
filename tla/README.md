# A TLA+ verification project for Latm

Latm is a paper-trading system for sports prediction markets: a FastAPI
application over PostgreSQL (`src/backend/app`, 36.9k lines of Python) that
collects markets and games, matches them, forecasts, looks for edges, sizes and
approves trades, executes them on paper, monitors the positions and evaluates
the result. Everything that happens is a request; there is no scheduler and no
background worker in the repository (a desktop task outside of it calls the MLB
workflow, `docs/progress.md:466`). Each request has one database session
(`db/session.py:36-47`, READ COMMITTED, `expire_on_commit=False`), so what
requests share is the database, and what makes the system hard is what two
requests do to the same rows.

## 1. Inventory

| Component | State it keeps | Operations | Talks to | What makes it correct |
|---|---|---|---|---|
| Market ingestion (`services/markets`) | markets, prices, resolutions | upsert a market, append a price, append a resolution | Kalshi client; read by everything below | appends are idempotent; a conflict of two resolutions withdraws the official one |
| Sports ingestion (`services/sports`) | teams, games, results | upsert from a provider page | matching, forecasting | one game per provider identity |
| Matching (`services/matching`) | match decisions (append-only) | match markets to games | ingestion, forecasting | one current decision per market, ambiguous names never match |
| Forecasting (`services/forecasting`) | forecasts (append-only) | replay games into Elo ratings | sports, opportunities | only games before the cutoff count; zero-sum updates |
| Opportunities (`services/opportunities`) | opportunities (append-only) | compare forecast and price, orient to a side | sizing | edge computed on the side that would be bought |
| Sizing (`services/position_sizing`) | portfolio, first snapshot, proposals | create portfolio, size opportunities | risk | never more than the band allows of what is available |
| Risk (`services/risk`) | decisions with a window | approve, require a human, reject | execution | what is approved together fits the bankroll |
| Execution (`services/execution`) | trades, positions, snapshots | execute one risk decision | ledger | an authorisation buys once, at most what it authorised; one open position per market |
| Position monitoring (`services/position_monitoring`) | positions, events, snapshots | mark, reduce, close, settle | ledger, ingestion | ledger equals positions, a final position stays final, its history is one chain |
| Ledger (`models/portfolio.py`) | snapshots | append the next head | execution, monitoring | the balance equations; cash is what the history says |
| Performance evaluation (`services/evaluation`) | evaluation runs | evaluate forecasts and trades | reads everything | the histories it checks are contiguous |
| NFL pilot (`services/nfl_pilot`) | scenarios, entries, marks, decisions, positions, dispositions, settlements | enter, monitor, decide, dispose, settle | NFL forecasts and prices | caps hold; no contract is paid for twice |
| NFL research, shadow, forecasts, opportunities, preflights (`services/nfl_*`) | append-only research rows | snapshot a matched game, forecast a payout, compare it with the asks, cost one side, label | matching, ingestion, NFL pilot | what is committed rests on sources that are current at the commit; frozen before kick-off |
| MLB backfill (`services/mlb_backfill_workflow.py`) | checkpoint, batches | plan a page of a day, collect it, advance a cursor, finalize | MLB client, dataset | no game is passed over, the backfill ends |
| MLB collection, lineups, Statcast, modelling, quality | schedule, snapshots, labelled examples, fits | collect a day, label, select, fit, assess | MLB client | no leakage across first pitch or splits, fits on approved rows |
| API, schemas, providers, frontend, migrations | none of their own | validate, serialise, fetch, show | all | - |

How paper trading interacts: ingestion, matching and forecasting publish rows
that nobody locks while publishing; risk approves against the rows that are
current; execution and monitoring take the row lock of the portfolio, then of
the market and event (with `FOR UPDATE`, which also holds back inserts of prices
and resolutions that refer to them), then of the decision or the position, look
at everything again, and commit one transaction.

What is hard: a request that read a row before it waited for a lock (the session
keeps the object it built and a locking SELECT does not refresh it); the same
decision executed twice; two positions moved at once under one ledger;
resolutions that conflict or arrive late; market pages that arrive out of order;
rounding, eight rules of it, in two directions; a collection that takes five
transactions per game while the schedule is overwritten; append-only tables that
take a return to an earlier state for a replay. `PROJECT.json` lists these
hazards at their lines, with the properties that would catch them.

## 2. The modules

| Module | What it is |
|---|---|
| `PaperMoney` | The decimal arithmetic of entries, exits, settlements and cost basis as pure operators. |
| `RoundTrip` | One position from fill to last sale in any pieces: what the arithmetic adds up to. |
| `PaperTrading` | One portfolio: sources, approvals, ledger, trades, positions, events, and concurrent execution and monitoring requests. |
| `PaperTradingProperties` | What must be true of it. |
| `RiskAuthorization` | Opportunity to spent authorisation: sizing and risk requests, a clock, windows, several approvals against one head of the ledger, and execution as the one who uses them. |
| `PaperLedger` | Abstract: what a paper position promises, whichever part of the system keeps it. Implemented by `PaperTrading`, and by `NflPilot` as long as its requests do not overlap. |
| `NflPilot` | One scenario of the NFL paper pilot: entries, positions, monitoring passes, dispositions and settlements, each request step by step under the advisory lock it takes. |
| `NflPilotProperties` | What must be true of it. |
| `RowTotals` | The sum a database computes over numbered rows. |
| `Evaluation` | Performance evaluation of the portfolio of `PaperTrading`, with the chain of snapshots: what it refuses and what it reports. |
| `Evidence` | Games, markets and quotes as they are ingested, and the matching, forecast and opportunity runs over them. |
| `ForecastScores` | The evaluation of forecasts over `Evidence`: scores, the report and its calibration. |
| `NflResearch` | The locked requests of the NFL research chain over `Evidence`, and labels. |
| `ResearchProperties` | What must be true of `Evidence`, `ForecastScores` and `NflResearch`. |
| `MlbDataset` | MLB collection stage by stage, labels, canonical selection, readiness, audit and fits. |
| `MlbBackfill` | Checkpoint, cursors, batches and workers that drive `MlbDataset`. |
| `MlbBackfillProperties` | What must be true of both. |
| `MCRoundTrip`, `MCPaperTrading`, `MCEvaluation`, `MCRiskAuthorization`, `MCNflPilot`, `MCResearch`, `MCMlbBackfill` | Small instances for TLC. |
| `NaturalInduction`, `PaperMoneyProofs`, `RoundTripProofs`, `PaperTradingProofs`, `RiskAuthorizationProofs`, `NflPilotProofs`, `MlbBackfillProofs`, `ResearchProofs` | Lemmas and theorems. |

Operators that a comment calls a *variant* state how a plausible bug would have
written the definition next to them. Nothing refers to them; they are there to
show that each property notices the bug (`PROJECT.json`, "mutants").

### How `PaperTrading` corresponds to the code

* `sources[m]` is the latest price, forecast, match and the resolutions of a
  market, as `PositionMonitoringSources` and the execution lineage select them.
  `tick` is the identity of the latest publication, `eligible` is that every row
  is within its age limit, the game has not begun and the match stands; `quote`
  is the book of the held side. `Publish`, `Lapse`, `ChangeStatus` and `Resolve`
  change them at any time. Status goes either way: the upsert keeps no order.
* `approvals[r]` is a risk decision: the capital, and the price and snapshot it
  was made against. `Authorize` keeps its preconditions, not its 26 checks.
* `snapshot` is the head of `portfolio_snapshots`; `trades`, `positions` and
  `events` are rows by risk decision, since every identifier is derived from it.
* A request is two steps: the unlocked read (`BeginExecution`, `BeginMonitoring`)
  and everything from the last lock to the commit (`Fill`, `Reject`,
  `ReplayExecution`; `Record`, `ReplayMonitoring`, `Abandon`). The second is
  atomic because the portfolio row is locked throughout and the locks on market
  and event hold back their publishers. `BeginMonitoring` keeps `loaded`, the
  row as the session read it; `Outcome` decides on that row and not on the
  stored one, and `Flush` writes only the columns the session believes changed.
* A replay found before the locks changes nothing and is a stutter.
* `Qualifies` stands for the gates of `ImmediatePaperExecutionEngine.evaluate`.
  Revalidating the decision means: same sources, market open, eligible, same
  head of the ledger. Whether the window has expired is a free choice
  (`unexpired`), as no clock is modelled. Capital authorised by *other* pending
  decisions is part of the fingerprint the code revalidates, so the code rejects
  some fills the model admits: safety holds for more behaviours than the code has.
* `Commits` is the two comparisons of `_validate_portfolio_totals` and the CHECK
  constraints of `positions` (`Accepted`). The pydantic validators and the CHECKs
  of `portfolio_snapshots` are no guard of the model; they are the invariants
  `SnapshotBalances`, `PositionFollowsHistory` and `EvaluationIsSound`, so the runs
  show that they never have anything to refuse.
* Abstracted: identifiers, provenance columns, wording of reasons, alerts,
  timestamps. A projection fingerprint is the row itself.

### How `RiskAuthorization` corresponds to the code

* `sources[m]` is the latest opportunity of a market (`tick`), the sides that are
  trade candidates, the band of the sizing policy its edge falls into, and the
  times between which none of its evidence is dated in the future or too old.
  `Current` is the SQL of `list_opportunities(current_only=True)`, and likewise the
  checks of the risk engine on match, price, forecast, market and event.
* `proposals`, `decisions` and `trades` are rows in the order they were committed;
  `at` is the reading of the clock, taken before the first lock (`RiskService.run`,
  line 160), except that an execution reads the clock of the database when it has
  its locks. Every reading is a `Tick`, so equal timestamps do not occur.
* A sizing request is three steps (read, insert, compare), a risk request is one
  for the clock and, per proposal, one for everything under the portfolio lock
  (`Evaluate`) and one for the comparison after the commit (`CheckBalance`). A
  request that fails on the comparison is `blamed`, and its client may call again.
  So does one whose INSERT the table refuses (`FailToRecord`): its later proposals stay
  unevaluated.
* `InForce` filters, then `Counted` ranks, as the query does. Thus a rejection does
  not take an earlier approval of the same proposal out of what counts. This errs on
  the safe side: execution only accepts the *latest* decision (`Latest`), so money
  stays set aside until the window ends for an approval nobody can use.
* A judgement with a known fingerprint adds no row. The fingerprint contains what is
  authorised for others, so approving a second proposal makes the first fail its
  revalidation; whichever is executed first is rejected and used up. That is what
  `OneFillPerSnapshot` rests on besides the head of the ledger.
* `Fill` and `Monitor` are the parts of `PaperTrading` that matter here: a new head,
  and how much is available. `Reject` is also chosen when the price leaves too little
  edge. A decision that is no automatic approval is refused before anything changes.

### How `NflPilot` corresponds to the code

* `entries[e]` is the immutable fill of a preflight, `positions[e]` its row of
  `nfl_pilot_positions` (`none` until the first mark or settlement makes it),
  `marks`, `settlements` and `dispositions` are its events, `decisions`, `alerts`
  and `checks` what monitoring has recorded. `quote` is the newest price of the
  market, `forecasts` the payout forecasts with the newest last.
* `mark`, `settle` and `dispose` are three steps each: take the advisory lock and
  read the position (`BeginLifecycle`, `BeginDisposal`, `CallMark`), read the
  evidence and compute (`Judge`, or `Replay`, or `Refuse` for a `ValueError`), and
  commit (`Commit`, or `Reject` when a CHECK refuses the row). `Lock` is the point:
  marks and settlements take one lock per *entry*, dispositions another one per
  *position*, and no row is locked. `Flush` writes the columns the session changed.
* A pass (`monitor`) is one step for the rows it loads, and then per position a
  decision, an alert and a check, each with its own commit, and a `mark` on the row
  loaded at the start: the session neither expires it on commit nor refreshes it on
  a SELECT. A rollback inside `mark` does expire it, so a pass whose mark is refused
  is left at `expired`. Looking for an existing decision and inserting one is a single
  step; two passes that collide there meet a unique key and one of them fails, which
  is a `Stop` of that pass.
* `Enter` is one step, because the scenario's advisory lock is held from the sum to
  the commit and positions that end in between only lower the sum. Which preflights
  are fresh and qualified is the free choice of `fill`.
* `Account(e)`, the refinement to `PaperLedger`, reads an entry without a row as the
  open position that its first mark would make.
* `summary`, the query of balances, is not modelled. It adds up position rows, so an
  entry without one counts against the cap and not yet as committed capital.
* Left out: scenario registration, the audit journal and the other queries, replays of a
  client's own idempotency key (they answer from the stored event and change
  nothing), the branches for a market without any price or forecast, and resolutions
  whose payouts agree (one resolution row stands for them).

### How `Evaluation` corresponds to the code

* An evaluation locks the portfolio, reads and writes nothing. So it is no action
  but a predicate of the state, `Accepts`, and a record, `Report`: whatever an
  evaluation can see is what some commit has left.
* `chain` keeps each snapshot with the position row of its commit. `SnapshotValid`,
  `ChainValid`, `EventsValid`, `LineageValid` and `FactValid` are the validators of
  `TradingEvaluationInput` and of `evaluation/service.py`, up to provenance columns.
* `MaximumDrawdown` is the code's one pass with a running peak; the property
  compares it with every pair of snapshots. Ratios are compared by products.

### How `Evidence` and `ForecastScores` correspond to the code

* A tick of the clock is a day (`HoursPerTick`), an age is a number of ticks. `events`,
  `markets` and `prices` are what ingestion stores (`IngestEvent`, `IngestMarket`);
  what a provider may report next is `Reports` and the books and anchors of the
  `crew`, which also bounds how many runs of each kind a behaviour has, which games
  forecasts are asked for (`targets`) and how far the clock goes (`last`).
* Each run is as many steps as it has statements that could see different data:
  matching reads its market, then the games, then inserts under the lock of the
  market; a forecast run takes the time (`BeginForecast`), reads its target
  (`ReadTarget`), then the history, and inserts; an opportunity run takes the time
  (`BeginOpportunities`), reads market, match, quote and game one after the other
  (`ReadMarket`, `ReadMatch`, `ReadPrice`, `ReadGame`), then the forecast, and inserts.
  A run of several markets or games is a run for each. A matching run that names its
  market reads it whatever its date (`named`).
* So a match may be newer than the time of the run that compares on it. Nothing in
  the code objects: `_bundle_skip_reason` and the validator of
  `domain/opportunities.py:148-154` compare the times of the quote and of the forecast
  with that of the run, and no time of the match. `OpportunityIsOfItsEvidence` demands
  the same, and of the match that its game is the one compared.
* `Match` is `MarketEventMatcher.match` without the text: which teams a market names
  and whether its contract is recognised are constants. Temporal windows, scores to
  four decimals, the confidence threshold and the ambiguity margin are the code's.
* `Usable` has every reason of `_bundle_skip_reason` but `invalid_market_book`, which
  compares bids with asks: a quote has only asks here, so the model compares on some
  books the code would skip.
* `AppendNew` is ON CONFLICT DO NOTHING on a fingerprint; a fingerprint is the record
  it is taken over. `Newest` is ORDER BY time, then id.
* Elo ratings are integers and the logistic curve is a constant, `HomeChance`.
* `Evaluate` locks the games of all candidate forecasts from the first read to the
  commit, so it is one step. `Reported` is the query behind every report: a score
  counts while it is of the newest forecast and of the game as it stands.

### How `NflResearch` corresponds to the code

* A request asks (`Begin...`, before any lock), locks market and game and matches them
  anew (`Validate`), looks at the clock and the newest match again (`Capture`), and
  commits or rolls back. `locked` is what transactions hold `FOR UPDATE`; it holds
  back ingestion, the insert of a match and other requests.
* A payout forecast takes its time from the captured snapshot, a comparison and a
  preflight from the moment they were asked for, as the code does.
* A key that is used already is answered from the stored row and changes nothing:
  `Unused` leaves it out. Every gate that fails is a `Rollback`, as is a lost connection.
* The matched game is `eligible` only for the NBA; for the NFL the model keeps what
  `shadow_repository.py` demands instead (`Eligible`), since no NFL match is marked
  eligible for execution today (`matcher.py:261`).
* `Label` locks the game, judges and inserts in one step.

### How `MlbDataset` and `MlbBackfill` correspond to the code

* A collection is a `job` that moves one game after another through events, lineup,
  Statcast, vector and, for a backfill, label. Each stage is two steps: what it reads
  (`Fetch`, from the provider or from stored rows) and its transaction (`Persist...`).
  A stage compares with `view`, the event row its session loaded: a locking SELECT
  does not refresh it. Only the label candidate is read afresh (`populate_existing`).
* `Stored` is the append-only insert: the key is what the input fingerprint covers,
  and neither the time nor whether it was before first pitch is part of it.
* `Canonical` ranks as `_canonical_example_ranking` does, `Shortfall` is the readiness,
  `QualityErrors` the audit of one example. `Fit` selects anew after `StartFit` has
  read the readiness, under the CHECK of the model table.
* A `work` is a batch of a worker: `Open` the checkpoint, `Plan`, collect, `Review`,
  `PersistBatch` or `Finalize`. `held` is the checkpoint object of the session. It is
  the same object before and after the lock unless a conflict has rolled the session
  back (`rolledBack`), so both fingerprint comparisons compare it with itself; what
  stops a second worker are the unique keys of the batches. `PersistBatch` and
  `Finalize` write only the columns that differ from `held`, as a flush does.
* `crew` says who backfills and collects, which games change, which have no lineup or
  a missing feature, and how many faults a behaviour has (a failing source, a worker
  that stops between two transactions).
* Abstracted: scores, player rows, metrics and the regression; counters and the JSON
  of results; skips for an unsupported game type; the endpoints that call one stage
  alone are the stages of a collection.

## 3. Runs

A cent is two price units here (four in `round_trip`), so prices fall between
cents; rates are per mille so slippage and fees round. None of the runs checks
for deadlock: decisions, quotes and changes of sources are bounded, and a model in
which they are used up stops.

| Run | Bounds | What it shows |
|---|---|---|
| `paper_trading` | 2 decisions, 1 market, 2 requests, 3 changes of the market's sources; 262 thousand states | Ledger, balances, histories, one open position, one use per decision, finality, and that every position is an account of `PaperLedger`. Two decisions for one market is where duplicates happen; two requests is where a stale row happens; three changes suffice for price, resolution and a conflict |
| `evaluation` | 2 decisions, 2 markets, 1 request at a time, 2 changes per market; 1.1 million states | Two open positions share a ledger; every commit leaves what an evaluation accepts; profit, wins, drawdown and the warning about a price nobody bid are those of the immutable records. Two positions and two changes suffice for a loss in one market between two peaks of the other |
| `overlapping_monitors` | 1 decision, 2 requests, 2 changes | With overlap it is not: expected violation, see section 6 |
| `round_trip` | asks, bids and capital of `MCRoundTrip`, rates that round | Largest fill, no profit, basis independent of the path |
| `authorization` | 1 market, one or both sides of it candidates, 2 requests, 2 proposals of 40, 60 or 80 %, 2 decisions, clock to 5 with windows of 5, 2 heads; 2.8 million states | Two approvals of one snapshot that fit together, and two that do not; an escalation that blocks its side; windows that end before an approval is used; a second fill after the first position has ended |
| `nfl_pilot` | 1 entry of 5 contracts, 2 requests of any kind, a price published twice, forecasts of two kinds, payouts of nothing and everything; 1.8 million states | Five contracts for 252 cents halve twice (to 2, to 1) and leave a rest of the basis to round. Open positions follow their dispositions, a decision sells once, nothing is written into a position that has ended. A second quote suffices for the newest to change between any two steps, two requests for every pair of overlapping kinds |
| `nfl_serial` | 1 entry, 1 request at a time, 2 quotes of which one may lack a bid, 2 forecasts; 1.3 million states | Position, value and events agree, and the entry is an account of `PaperLedger` |
| `nfl_monitor` | 2 entries of which one fits under the cap, 2 requests, fair; 160 thousand states | The second entry is let in only after the first position has ended; a pass that goes past its alert has an alert, also where the pass that decided was lost; every pass ends |
| `nfl_paid_twice` | 1 entry, 2 requests | Expected violation, see section 6 |
| `mlb_backfill` | 4 games in a season of one day per split, 2 workers: two backfillers with one fault, or one worker that backfills and collects while two games change; with and without a missing lineup or feature; clock to 3 with two backfillers and to 4 with one worker; 129 thousand states | The dataset passes its audit, models are fitted on approved rows, no game is passed over, the backfill ends. `BatchLimit` 1 makes every game a page, so cursors turn within a day and across days; one fault suffices for a stop between any two transactions |
| `research` | 2 games, an NBA and an NFL market, 2 workers, eight crews of at most 7 runs, requests and changes, clock to 2, 3 or 4 as their games need it; 276 thousand states | What opportunities, forecasts, payouts, comparisons, preflights, labels and scores rest on, and that no lock is left behind. Each crew has the runs of one chain and the reports that can come between them. Two matching runs suffice for a match that is newer than the run that reads it |
| `rematched` | 1 worker, 3 matching runs, 2 changes | Expected violation, see section 6 |

The quotes are three that make the branches of the decision happen: an edge that
qualifies for an entry and later for holding, an edge between zero and the
holding threshold (reduce, or close a last contract), and a book without a bid
whose ask is far from its forecast. Payouts are nothing and everything.

In `research` the edges are the defaults of both policies (3 cents to watch, 8 to be
a candidate, `domain/opportunities.py:52` and `domain/nfl_opportunities.py:15`) and the
curve has four steps, so that each status of an opportunity, a comparison and a
preflight occurs; a game may be moved into the past of another, exchanged home and
away, postponed, finished, tied or corrected.

**Fairness.** No liveness is claimed for paper trading: a position is marked, and
settled, when somebody calls the endpoint, and nothing in the repository calls it.
What can be promised without a caller is safety. Three runs assume fairness:

* `nfl_monitor`, only of requests that run: `WF(Advance(w))` because the event loop
  keeps running a request that waits for nobody, and `SF(CallMark(w))` because the
  queue of a PostgreSQL lock is first come, first served, so a pass that waits for a
  lock that is free again and again gets it. No request is assumed to be made, and
  any may be lost (`Stop`).
* `research`, likewise only of what runs: `WF(RequestProceeds(w))`, a request with
  or without locks goes on or rolls back, and `SF(RunProceeds(w))`, a run that waits
  for a row lock gets it when it is free again and again.
* `mlb_backfill`: `WF(JobStep(w))` for a collection that runs, and `SF(BatchStep(w))`
  because a recurring task makes one batch per run ("The recurring desktop task invokes
  exactly one batch per run", `docs/progress.md:466`, in the slots of line 599) until
  the checkpoint is terminal. It is strong because a worker may be stopped and
  started anew in between; faults are finite.

## 4. Proofs

`tlapm` proves, for every number of decisions, markets and requests, every
scale, rate, quote and payout that the named assumptions of the modules admit:

* `RoundTripProofs`: `FillTheorem`, `NoProfitTheorem`, `BasisTheorem`. The
  search for a fill is a recursive function; `SearchEquation` gives its unfolding
  by a set-based induction (`NaturalInduction`), `AboveTheEstimate` shows that the
  starting estimate is never too low although the cost is rounded up twice. No
  profit: the invariant bounds income, plus what the held contracts could bring
  at the ask, by what was spent.
* `PaperTradingProofs`: `TypeTheorem`, `LedgerTheorem`, `BalanceTheorem`,
  `OneOpenTheorem`, `SpentOnceTheorem`, `FinalTheorem`, `CashTheorem`. None of these
  is inductive by itself. The inductive invariant is

      IInv == TypeOK /\ RowsAreCoherent /\ LedgerReconciles
                /\ SnapshotBalances /\ OneOpenPositionPerMarket

  where `RowsAreCoherent` says of every stored row and of every row a request has
  loaded that its sums hold and that a final one carries nothing. The argument
  for `Record` with a stale row is the comparison of totals: `Commits` compares
  the head with the positions before and after, so even a flush of a mixture of
  old and new columns reconciles or rolls back. `FinalTheorem` follows from the
  same comparison: if a stale monitor wrote anything on a closed row, the totals
  would move by an amount the row can not show. `CashTheorem` is inductive over
  `IInv` with `Unopened` (what has no trade has no events): each step that moves the
  head's cash appends one trade or one event, and the amount is a column of that row.

  `HistoryTheorem` (`PositionFollowsHistory`) and `PromisesTheorem` (`PaperTrading`
  implements `PaperLedger`) need more: that the totals notice every stale row. Contracts
  that leave a row surely take cost with them only where each costs a cent at least.
  Below a cent a reduction can release no cent of basis and bring no proceeds, and the
  totals stay as they were. Hence the hypothesis `EntriesOfACent`, and the invariant
  `Current`: a row some request has loaded is the stored row still, or contracts have
  left it and taken cost. The instance the runs check satisfies the hypothesis.

  `ContiguousTheorem` and `EvaluationTheorem` have the hypothesis
  `OneRequestAtATime`, the regime of run `evaluation`; the code does not guarantee it,
  and run `overlapping_monitors` shows what is lost without. `SerialInv`: what is
  loaded is what is stored, and each history leads from its opening row to the present
  one, with at most its last event ending it. `ChainInv`: every commit has written one
  row, every link of the chain is valid and the last is the snapshot, and an open
  position without a bid is in it. The drawdown is a scan that compares
  fractions by cross-multiplication; `DrawdownIsDeepest` unfolds the recursive function
  by a set-based induction and needs that "no deeper" is transitive (`DeeperOrder`).

* `RiskAuthorizationProofs`: `EvidenceTheorem`, `OneFillTheorem`, `OneIntentTheorem`,
  `CapitalTheorem`, `TypeTheorem`.
  The first needs no invariant: an approval that is revalidated equals, up to its two
  times, a judgement made now. The second adds that a filled decision's head has been
  replaced. The third is inductive only for all decisions in force instead of the
  latest of each proposal (`NoRivals`); the step for `Evaluate` needs that whatever is
  in force at the clock was in force at the request's earlier reading of it, and that
  among finitely many decisions one is the latest (`LatestExists`, by induction). The
  fourth adds `Amounts`, `Kinds` and `Fits`. A sum over the latest decision of each
  proposal is hard to follow from step to step, so `Fits` sums over the proposals that
  have an automatic authority in force, latest or not (`Forced`); the two are equal
  because against one head of the ledger everything in force about a proposal is of
  one kind (`Kinds`, `CountedIsForced`). An evaluation leaves its own proposal out and
  counts as of its earlier reading of the clock, when everything that is in force now
  was in force already (`ForcedBefore`): what it adds its capital to is no less than
  what the others hold now. A new head of the ledger ends every authority.
  `TypeTheorem` is inductive next to that invariant and `Readings`: what was sized at
  the present head was sized against the bankroll that head has.

* `NflPilotProofs`: `TypeTheorem`, `CapTheorem`, `UsedOnceTheorem`, `EndedTheorem`,
  `AlertTheorem`.
  The inductive invariant is

      IInv == TypeOK /\ JudgedOpen /\ Excluded /\ EndedEmpty
                /\ AggregateCapHolds /\ DecisionIsUsedOnce

  `JudgedOpen`: whatever a request has computed, it has computed from a row it found
  open. `Excluded`: of the requests that hold a lock no two hold the same, and no
  disposition holds a decision that has been disposed of. `EndedEmpty`: what has
  ended holds nothing. The cap is preserved by `Commit` because no flush takes a
  position from ended to open: a changed status is never "open" when the row was
  read as open, and an unchanged one leaves the stored status alone. Likewise
  `EndedTheorem`: a stale mark may still change columns of a closed row, and it is
  the CHECK constraint that then refuses it unless it leaves the row empty.
  `AlertTheorem` needs that a pass that waits for its mark, and goes on from there
  afterwards, has told before (`CallerTold`). `DispositionsTheorem`
  (`OpenPositionFollowsDispositions`) adds `MoneyInv`: while a position is open its
  columns are the sums over its dispositions (`Accounted`), and an open row that a
  disposition has read is the stored one but for its mark, because its lock keeps other
  dispositions away (`Grounded`).

  `EventsTheorem`, `ValueTheorem` and `LedgerTheorem` are about one request at a time, as
  a hypothesis (`OneAtATime`): the regime of run `nfl_serial`. The code does not
  guarantee it, and run `nfl_paid_twice` shows the first of the three violated by two
  requests. `SerialInv`: what the one request has read and not yet acted on is what is
  stored (`Current`), and each row is the sum of its dispositions and its settlement
  (`Settled`).

* `MlbBackfillProofs`: `TypeTheorem`, `AuditTheorem`, `FittedTheorem`,
  `ExaminedTheorem`. The inductive
  invariant is

      IInv == World /\ Tables /\ Jobs /\ Works

  `World`: the clock and the schedule, of which nothing is seen in the future.
  `Tables`: every stored row is of its table and about a known game, every example is
  `Audited`, every model `Approved`. `Jobs`: what a collection has in hand at each of
  its stages (`InHand`), which is what makes the example it stores in the end an
  audited one. `Works`: checkpoint, plans and cursors are within their splits.
  `Growth` says what no step takes back (schedule rows stay, clock and vectors only grow);
  it carries what one worker has in hand over the steps of another. A fit needs that
  `Canonical` chooses one eligible example of each game that has any, so that the rows
  fitted are as many as the readiness counts: `MaximalExists` (`NaturalInduction`), by
  induction over the cardinality. Assumptions: `DatasetAssumption`, `RowsAssumption`,
  `BackfillAssumption`.

  `ExaminedTheorem` (`ExaminedBehindTheCursor`) has two hypotheses about the provider,
  because pages by offset are exact only under them (`docs/progress.md:600` calls the
  rest "a best-effort offset-pagination limitation"; a page has at most ten games,
  `domain/mlb_modeling.py:393`, and a day may have more). The listing is refreshed before
  each page, so a game that leaves the day shifts the offsets of those behind it.
  `Pageable(steady)`: on the days in `steady`, which may be any, the provider keeps the
  games of the first schedule; every other day has fewer games listed than a page holds,
  and those may move as they like. `NoReturn`: a game that left its first day does not
  come back to it (it could come back behind the cursor). A provider that moves
  no game satisfies both. The run assumes neither: its games move, and the property holds
  there because each of its days has one game at first.
  The invariant is `PassInv == Rows /\ Calls /\ Accounted` next to `IInv`. `Calls`: a
  game of the day is on the page a call works on, or on a steady day and before or
  behind the page (`Paged`). `Accounted`: each cursor, of the checkpoint and of every
  copy a worker holds, has passed only games that a committed batch answered (`Honest`),
  and what a worker is about to commit covers the distance its cursor moves (`Covers`).
  `ReviewCovers` is the step that matters: a page that is not full was the last of its
  day, which needs that a full page of a steady day injects into the games examined.

* `ResearchProofs`: `SourcesTheorem` (`ResearchSpec => RestsOnCurrentSources`) and
  `LabelTheorem`. The inductive invariant of the first is

      IInv == Tables /\ Judged /\ Lineage /\ Requested /\ Apart

  `Requested`: a request past its validation holds its market and its game, the match
  it was asked about is still the newest, and the snapshot it has captured has the
  teams the game has now. `Apart`: no two requests hold the same row, so the release
  at the end of one leaves the others locked. A report and a new decision need the
  lock of the game or the market and so cannot disturb `Requested`. `Lineage`: a
  payout forecast pays what the teams of its snapshot say. Then a comparison or a
  preflight that finds its own snapshot stored under the key of the one its forecast
  names (`StoredShadow`, ON CONFLICT DO NOTHING) knows that the forecast speaks of the
  game as it stands (`StillCurrent`). `Judged` and the matched rows being of known
  games is what makes the locked row a game at all. `LabelTheorem` adds `LInv`: two
  teams play every game (the CHECK constraint of `models/sports.py:63` for the
  schedule, and no report undoes it), the YES side of a validated market has one of
  them, and every snapshot was taken ahead of its game. From validation to commit that
  holds only because the game is locked (`EvidenceKeeps`).

  `TrainingTheorem` (`TrainsOnEarlierGames`) rests on `Games` and `LearnInv`: the game an
  operational run has picked was and is ahead of its clock, the one of a replay is over,
  whatever the provider reports in between; the history it then reads is a sorted
  enumeration (`SortedEnumeration`), so no later game is in it. `EvidenceTheorem`
  (`OpportunityIsOfItsEvidence`) rests on `SourceInv`: every row names rows that exist,
  and after each of its reads a run has in hand what belongs together (`ReadTogether`):
  the match it has read is still in the table because matches and forecasts are only
  ever appended. That quote and forecast are not newer than the run is what `Usable`
  checks; of the match no such thing holds.
  `TypeTheorem` holds under `CurveIsAChance`: the logistic curve gives a chance between
  0 and 100 for every rating difference. It is a hypothesis and not an ASSUME because
  TLC would have to evaluate it over all integers; the curve of the runs is constant
  outside a range and satisfies it.

  `ReportTheorem` (`ReportFollowsTheResults`, also under `CurveIsAChance`) has the
  invariant `ScoreInv`: a score is that of the forecast it names on the result it
  carries, of a cutoff that is not after the start and a training that ends before the
  cutoff. Of a game one forecast is canonical, so a report has one score per game
  (`ReportedOnce`). The bins partition the scores (`SumOfClasses`), the calibration of
  a bin is off by at most 100 for each of its samples (`SumWithin`), and what the bins
  are off together is at least what the whole is (`CalibrationAddsUp`, the triangle
  inequality). Assumptions: `EvidenceAssumption`, `ResearchAssumption`.

`NaturalInduction` also proves what the sums of the models compute, which are
`SumFunction` of the community modules. It unfolds that definition by a set-based induction
over finite sets (`SubsetInduction`) and derives: a sum of integers is an integer that moves
by the difference when one row changes, is not negative when no row is, zero when all are,
and no more than another that is nowhere less; a row more adds that row; the sums over the
classes of a partition add up to the whole (`SumOfClasses`). Totals of a column
(`RowTotals`) are corollaries. Beyond sums: a finite set that is not empty has a maximal
member, and a finite set of rows can be enumerated in the order of a key.

Only model-checked:

* NFL pilot: `PassEnds`;
* research: `RunsFinish`;
* MLB: `BackfillEnds`.

Out of the prover's reach: liveness, ENABLED, induction with an operator parameter
(hence the set-based induction) and RECURSIVE operators (none is used).

## 5. Plan

Order of the work that remains, most important behaviour first.

1. `PaperTrading`'s `Authorize` shown to admit every approval that `RiskAuthorization`
   makes, and the reading of a snapshot with a zero value by sizing.
2. `LockOrder`: the locks that execution, monitoring (also a run over several
   positions), matching and the market upsert take, one by one; absence of a cycle and,
   where there is one, the run that shows it.
3. What is a parameter today: feature values and coverage, the logistic curve and the
   regression in fixed-point arithmetic, filtering and classification of markets.

## 6. Findings

Three disagreements are shown by a run.

**An overlapping monitor forks the event history** (run `overlapping_monitors`).
`PositionMonitoringService.evaluate` loads the position at line 165, waits for
its lock at line 178, and goes on with the object of line 165: the ORM does not
refresh what the session already has. When another monitor has settled the
position in between and the official resolution has since been withdrawn by a
conflicting one, the waiting monitor still sees an open position and appends a
hold from the old projection after the settlement. No money moves
(the totals are compared), but `services/evaluation/service.py:610` refuses the
history as "not contiguous", and every later evaluation of that portfolio fails.

**A position of the NFL pilot is paid twice** (run `nfl_paid_twice`). `dispose`
locks `nfl-pilot-disposition:{position}` (`nfl_pilot/lifecycle.py:368`), `settle` locks
`nfl-pilot-lifecycle:{entry}` (line 280). When they overlap both read the open row,
and both record proceeds for the same contracts. Both may commit: each sets the
quantities to the same values, and the later profit overwrites the earlier. The row
is no longer what its events say.

**A game that changes back keeps the match of the change** (run `rematched`).
`insert_decisions` ignores a decision whose market, matcher and input fingerprint are
in the table, however old that row is (`matching/repository.py:155`), and every reader
takes the newest row (lines 255-267). When inputs go from A to B and back to A, the
third decision is dropped and the match about B stays the newest, however often
matching is run again. `docs/decisions/0003-deterministic-market-event-matching.md:23`
says "A changed semantic input appends history instead of overwriting it." NFL research
then refuses the market and asks to "rerun matching" (`shadow_repository.py:198`),
which does not help. Elo forecasts are stored in the same way
(`forecasting/repository.py:190`). The MLB modules know the case: "Compare only the
latest observation: A -> B -> A is a new correction" (`mlb_modeling/repository.py:317`).

### Observed while modelling

Read in the code and kept in the models where they are within them; no run is made
for these.

* Sizing and risk compare the portfolio before and after their own commit and raise
  "... mutated the paper portfolio balance" when it differs
  (`position_sizing/service.py:274-276`, `risk/service.py:198-203`). The second read
  holds no lock, so a fill or mark that commits in between raises it. The rows are
  committed, the caller gets an error, and a risk run leaves the rest unevaluated
  (state `blamed` of `RiskAuthorization`).
* A stale proposal whose capital exceeds what is available now has a recomputed
  exposure above one (`risk/engine.py:483-489`), which the table refuses; nothing
  catches the error (`FailToRecord`).
* An NFL pass checks the quote it has read and calls `mark`, which reads the newest
  quote again (`nfl_pilot/lifecycle.py:959`, 221). One that arrives in between is
  marked under the key of the checked one, where `docs/paper-trading.md:15` says that
  unusable quotes cannot create a mark.
* `mark` rolls back before it raises (line 272), and a rollback expires every row of
  the session. `monitor` counts a skip and continues, but the next position's
  `market_id` (line 903) would have to be loaded by an attribute access, which an
  asynchronous session refuses: the positions that follow are not visited. The MLB
  backfill had the same defect and was repaired (`docs/progress.md:546` and after).
* `summary` counts an entry without a position row against the cap but not as
  committed capital (line 499); a disposition judges its decision by the forecast the
  decision names (line 420); two passes that decide alike at once meet a unique key
  and one fails (line 565).
* A mark of the NFL pilot that was computed before a disposition and commits after it
  leaves a value of the contracts that have been sold (`nfl_pilot/lifecycle.py:465`),
  until the next mark. TLC finds it with the bounds of
  `nfl_paid_twice`; `ValueIsOfContractsHeld` is therefore of one request at a time.
* A comparison reads the newest forecast before it takes its locks
  (`nfl_opportunities/repository.py:94-107`), so a forecast that commits in between
  is not noticed, where ADR 0025:36 says that "An explicit older forecast cannot
  bypass a newer snapshot". `RestsOnCurrentSources` demands of a comparison what the
  locks do give.
* A preflight reads its clock before the locks (`nfl_preflights/repository.py:64`), does
  not compare direction and cap when a key is used again (line 56), and leaves a cost
  that reaches the payout to the CHECK `ck_nfl_paper_preflight_math`.
* A terminal MLB checkpoint may still gain a batch from a worker that was persisting
  one, where `docs/progress.md:453` says that concurrent changes fail closed; and
  the backfill is `exhausted` when the window of the split it works on ends, though
  others may remain.
* Ingestion overwrites a game or market with an older report that arrives later.
* Matching locks a market, then games; a market upsert locks in the order of its page:
  two of them can wait for each other. So can two monitoring runs over several
  positions (`position_monitoring/service.py:153`).
* Sizing reads a zero value of open positions as a missing one
  (`position_sizing/service.py:306-308`).

## 7. Not modelled

Entirely: the HTTP API with its schemas and configuration (it validates and
serialises, and keeps nothing), migrations, the read-only frontend and deployment.

In part, by component:

* Markets: classification and filtering, and the NFL contract audit, are text
  recognition; the models take what a market names as a constant.
* Sizing: the bands are percentages, the reading of a zero value is left out.
* MLB: feature values, coverage, the regression and its metrics are floating-point
  data that the properties do not tell apart; player rows; the counters and JSON of
  results; distribution warnings and stored reports of the quality audit.
* NFL research: the ingestion of the season archive and the offline fitting of the
  frozen seed, each a single batch without concurrency.
* NFL pilot: scenario registration, the journal of audit verifications, queries.
* Evaluation: the comparison of two model versions and groups by entry lineage (the
  model has one of each).
* Provider clients: HTTP, paging and parsing. What normalisation makes of a report is
  modelled, and that a call may fail.
* Everywhere: provenance columns, the wording of reasons, logging.
