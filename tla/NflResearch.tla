---------------------------- MODULE NflResearch ----------------------------
\* The NFL research chain on top of the evidence: a frozen-model shadow snapshot
\* of a matched game, a payout forecast under an idempotency key, a comparison
\* of the forecast with the two asks, a costed preflight of one side, and the
\* labels that score a snapshot once its game is over.
\*
\* Each request is one transaction. Before it takes row locks it has read what
\* it was asked about; then it locks the market and the game of the match,
\* judges both again with everything the match rested on, builds its row, looks
\* at the clock and commits. A request that fails a gate, or loses its
\* connection, is rolled back and leaves nothing but free locks.
EXTENDS ForecastScores

CONSTANTS
  Keys,             \* idempotency keys
  FrozenRating,     \* the ratings of the pinned 2025 seed
  SourceAge,        \* 24 hours
  PayoutAge,        \* 15 minutes
  QuoteAge,         \* 900 seconds
  CandidateEdge,    \* comparisons: watch below it, paper candidate from it
  Caps,             \* capital caps of preflights, in cents
  Slippage,         \* cents on the ask
  FeeBps,
  MinimumEdge

VARIABLES
  shadows,          \* nfl_shadow_forecasts
  payouts,          \* nfl_payout_forecasts
  comparisons,      \* nfl_paper_opportunities
  preflights,       \* nfl_paper_preflights
  labels,           \* nfl_shadow_evaluations
  requests          \* what each request has read and not yet committed

tables == <<shadows, payouts, comparisons, preflights, labels, scores>>
researchVars == <<evidence, shadows, payouts, comparisons, preflights, labels, scores, requests>>

ASSUME ResearchAssumption ==
  /\ FrozenRating \in [Teams -> Int]
  /\ SourceAge \in Nat \ {0} /\ PayoutAge \in Nat \ {0} /\ QuoteAge \in Nat \ {0}
  /\ Caps \subseteq Nat \ {0} /\ Slippage \in Nat /\ FeeBps \in 0..10000
  /\ WatchEdge < CandidateEdge

-----------------------------------------------------------------------------
\* Rows

ShadowRows ==
  {r \in [market : Markets, match : Nat, event : Events, start : Starts, home : Teams, away : Teams,
          yes : 0..100, seen : Times, at : Times] :
     r.seen <= r.at /\ r.at < r.start /\ r.home # r.away}

PayoutRows ==
  {r \in [key : Keys, market : Markets, match : Nat, shadow : Nat, yes : 0..100, at : Times, until : Times] :
     r.at < r.until /\ r.until <= r.at + PayoutAge}

\* A comparison has a validity if and only if one of its sides can be compared.
ComparisonRows ==
  {r \in [key : Keys, payout : Nat, market : Markets, price : SUBSET Times,
          asks : UNION {[S -> 1..99] : S \in SUBSET {"yes", "no"}},
          status : [{"yes", "no"} -> {"ineligible", "ignore", "watch", "paper_candidate"}],
          at : Times, until : 0..Horizon] :
     /\ \A side \in {"yes", "no"} : r.status[side] = "ineligible" <=> side \notin DOMAIN r.asks
     /\ IF DOMAIN r.asks = {} THEN r.until = 0
        ELSE r.until > r.at /\ r.price # {} /\ \A at \in r.price : at <= r.at}

\* A preflight spends no more than its cap, and less than a contract can pay.
PreflightRows ==
  {r \in [key : Keys, comparison : Nat, market : Markets, side : {"yes", "no"}, cap : Caps, quantity : Nat, cost : Nat,
          status : {"cost_qualified", "cost_disqualified", "ineligible"}, at : Times, until : Times] :
     /\ r.cost <= r.cap /\ r.at < r.until
     /\ r.quantity = 0 <=> r.status = "ineligible"
     /\ r.quantity > 0 => 0 < r.cost /\ r.cost < 100 * r.quantity}

LabelRows ==
  [snapshot : Nat, won : {"home", "away", "tie"}, winner : SUBSET Teams, yes : {0, 50, 100}]

-----------------------------------------------------------------------------
\* What a locked transaction looks at

Fresh(seen, at) == at - SourceAge <= seen /\ seen <= at

Week == 168 \div HoursPerTick

\* The games a match is judged against again: those it was judged against, and
\* every game within a week of its own.
Candidates(row) ==
  (DOMAIN row.fingerprint.games)
    \cup {e \in Events : Distance(events[e].start, events[row.event].start) <= Week}

\* NflShadowForecastRepository._run: match i of market m is the newest, its game
\* and market are open and fresh, and matching them now gives the same decision.
Eligible(m, i, at) ==
  LET match == matches[m][i]
      game == events[match.event]
      again == Match(m, markets[m], [e \in Candidates(match) |-> events[e]], at)
  IN  /\ i \in NewestMatch(m)
      /\ League[m] = "nfl" /\ match.status = "matched" /\ match.at <= at
      /\ game.status = "scheduled" /\ ~game.postponed /\ game.start > at
      /\ markets[m].open /\ (markets[m].close # 0 => markets[m].close > at)
      /\ Fresh(game.seen, at) /\ Fresh(markets[m].seen, at)
      /\ YesTeam[m] \in {game.home, game.away}
      /\ again.status = "matched" /\ again.event = match.event
      /\ again.fingerprint = match.fingerprint

\* build_shadow_prediction: the ratings are those of the seed, whatever was played since.
FrozenChance(home, away) == HomeChance(FrozenRating[home] + HomeAdvantage - FrozenRating[away])

\* What the YES side is expected to pay, in per cent.
YesPayout(m, game) ==
  IF YesTeam[m] = game.home THEN FrozenChance(game.home, game.away)
                            ELSE 100 - FrozenChance(game.home, game.away)

Shadow(m, i, at) ==
  LET e == matches[m][i].event
      game == events[e]
  IN  [market |-> m, match |-> i, event |-> e, start |-> game.start, home |-> game.home,
       away |-> game.away, yes |-> YesPayout(m, game), seen |-> game.seen, at |-> at]

ShadowKey == {"market", "match", "event", "start", "home", "away"}

\* The row that holds a snapshot once it is inserted, ON CONFLICT DO NOTHING.
Stored(rows, row) == CHOOSE i \in DOMAIN rows : \A c \in ShadowKey : rows[i][c] = row[c]

-----------------------------------------------------------------------------
\* Rows built from a locked market and game

\* build_nfl_payout_forecast_candidate; a market must say when it closes.
Payout(m, i, shadow, key, at) ==
  LET game == events[matches[m][i].event]
  IN  [key |-> key, market |-> m, match |-> i, shadow |-> shadow, yes |-> YesPayout(m, game), at |-> at,
       until |-> Least({at + PayoutAge, game.start, markets[m].close,
                        game.seen + SourceAge, markets[m].seen + SourceAge})]

Expected(row, side) == IF side = "yes" THEN row.yes ELSE 100 - row.yes

\* A quote that is not from the future, not too old and not crossed.
Comparable(quote, at) ==
  /\ quote.at <= at /\ at < quote.at + QuoteAge
  /\ (quote.yes = 0 \/ quote.no = 0 \/ quote.yes + quote.no >= 100)

\* build_nfl_paper_opportunity_comparison: each side of the newest quote judged
\* on its own, and no validity unless a side can be compared.
Comparison(p, key, at) ==
  LET payout == payouts[p]
      asks == {q \in NewestPrice(payout.market) : Comparable(q, at)}
      sides == {s \in {"yes", "no"} : \E q \in asks : q[s] \in 1..99}
      ask(s) == (CHOOSE q \in asks : TRUE)[s]
      edge(s) == Expected(payout, s) - ask(s)
  IN  [key |-> key, payout |-> p, market |-> payout.market,
       price |-> {q.at : q \in NewestPrice(payout.market)},
       asks |-> [s \in sides |-> ask(s)],
       status |-> [s \in {"yes", "no"} |->
                     CASE s \notin sides -> "ineligible"
                       [] s \in sides /\ edge(s) < WatchEdge -> "ignore"
                       [] s \in sides /\ edge(s) \in WatchEdge..CandidateEdge - 1 -> "watch"
                       [] OTHER -> "paper_candidate"],
       at |-> at,
       until |-> IF sides = {} THEN 0
                 ELSE Least({payout.until} \cup {q.at + QuoteAge : q \in asks})]

CeilDiv(a, b) == (a + b - 1) \div b

\* evaluate_nfl_paper_preflight: the most contracts the cap pays for with its fee.
Cost(price, quantity) == price * quantity + CeilDiv(price * quantity * FeeBps, 10000)

QuantityBeforeFee(price, cap) == cap \div price \* Variant: the fee is left out.

Quantity(price, cap) ==
  CHOOSE q \in 0..cap \div price :
    Cost(price, q) <= cap /\ \A r \in q + 1..cap \div price : Cost(price, r) > cap

Preflight(c, side, cap, key, at) ==
  LET row == comparisons[c]
      price == row.asks[side] + Slippage
      quantity == IF price >= 100 THEN 0 ELSE Quantity(price, cap)
      chance == Expected(payouts[row.payout], side)
  IN  [key |-> key, comparison |-> c, market |-> row.market, side |-> side, cap |-> cap, quantity |-> quantity,
       cost |-> Cost(price, quantity),
       status |-> CASE quantity = 0 -> "ineligible"
                    [] quantity > 0 /\ (chance - MinimumEdge) * quantity >= Cost(price, quantity) -> "cost_qualified"
                    [] OTHER -> "cost_disqualified",
       at |-> at, until |-> row.until]

-----------------------------------------------------------------------------
\* Requests

Unused(kind, rows, key) ==
  /\ \A i \in DOMAIN rows : rows[i].key # key
  /\ \A w \in Workers : requests[w].kind = kind => requests[w].key # key

Request(kind, m, i, key, subject, side, cap) ==
  [kind |-> kind, stage |-> "asked", market |-> m, match |-> i, key |-> key, subject |-> subject,
   side |-> side, cap |-> cap, at |-> now, shadow |-> NoRow]

Ask(w, request) ==
  /\ Free(requests, w)
  /\ requests' = [requests EXCEPT ![w] = request]
  /\ UNCHANGED <<now, events, markets, prices, matches, forecasts, opportunities, locked, jobs, crew, tables>>

BeginShadow(w, m, i) ==
  /\ Runs("shadow")
  /\ Ask(w, Request("shadow", m, i, NoRow, 0, "yes", 0))

BeginPayout(w, m, i, key) ==
  /\ Runs("payout") /\ Unused("payout", payouts, key)
  /\ Ask(w, Request("payout", m, i, key, 0, "yes", 0))

NewestPayout(m) == Newest(payouts, LAMBDA row : row.market = m)

\* A comparison is asked for a forecast that is, before any lock, the newest of
\* its market and in force; that moment is its time.
BeginComparison(w, p, key) ==
  /\ Runs("comparison") /\ Unused("comparison", comparisons, key)
  /\ p \in NewestPayout(payouts[p].market) /\ payouts[p].at <= now /\ now < payouts[p].until
  /\ Ask(w, Request("comparison", payouts[p].market, payouts[p].match, key, p, "yes", 0))

\* So is a preflight, for a side and a cap, of a comparison that is in force.
BeginPreflight(w, c, side, cap, key) ==
  /\ Runs("preflight") /\ Unused("preflight", preflights, key)
  /\ comparisons[c].at <= now /\ now < comparisons[c].until
  /\ LET payout == payouts[comparisons[c].payout]
     IN Ask(w, Request("preflight", payout.market, payout.match, key, c, side, cap))

\* The rows that a request locks: SELECT ... FOR UPDATE on the market and the game.
RowsOfMarket(request) == {request.market} \* Variant: the game is read without a lock.

RowsOf(request) == {request.market, matches[request.market][request.match].event}

Held(request) == IF request.stage = "asked" THEN {} ELSE RowsOf(request)

\* The transaction gets the rows of the market and the game and validates them.
Validate(w) ==
  /\ requests[w] # Idle /\ requests[w].stage = "asked"
  /\ LET r == requests[w]
     IN /\ RowsOf(r) \cap locked = {}
        /\ Eligible(r.market, r.match, now)
        /\ locked' = locked \cup RowsOf(r)
  /\ requests' = [requests EXCEPT ![w].stage = "validated"]
  /\ UNCHANGED <<now, events, markets, prices, matches, forecasts, opportunities, jobs, left, crew, tables>>

\* With its snapshot built it looks at the clock and at the newest match again.
\* A payout forecast is generated here, a comparison and a preflight read the
\* newest quote, and neither the quote nor the match can change before the commit.
Capture(w) ==
  /\ requests[w] # Idle /\ requests[w].stage = "validated"
  /\ LET r == requests[w]
         game == events[matches[r.market][r.match].event]
     IN /\ game.start > now /\ (markets[r.market].close # 0 => markets[r.market].close > now)
        /\ Fresh(game.seen, now) /\ Fresh(markets[r.market].seen, now)
        /\ r.match \in NewestMatch(r.market)
        /\ r.kind = "payout" => markets[r.market].close # 0
        /\ requests' = [requests EXCEPT ![w].stage = "captured", ![w].shadow = Shadow(r.market, r.match, now)]
  /\ UNCHANGED <<evidence, tables>>

\* COMMIT: the snapshot is inserted unless it is there already, the row of the
\* request with it, and the locks are released.
Committing(w, kind) ==
  /\ requests[w] # Idle /\ requests[w].stage = "captured" /\ requests[w].kind = kind
  /\ shadows' = AppendNew(shadows, requests[w].shadow, ShadowKey)
  /\ locked' = locked \ Held(requests[w])
  /\ requests' = [requests EXCEPT ![w] = Idle]
  /\ UNCHANGED <<now, events, markets, prices, matches, forecasts, opportunities, jobs, left, crew, labels, scores>>

CommitShadow(w) ==
  /\ Committing(w, "shadow")
  /\ UNCHANGED <<payouts, comparisons, preflights>>

CommitPayout(w) ==
  /\ Committing(w, "payout")
  /\ LET r == requests[w]
         row == Payout(r.market, r.match, Stored(shadows', r.shadow), r.key, r.shadow.at)
     IN now < row.until /\ payouts' = Append(payouts, row)
  /\ UNCHANGED <<comparisons, preflights>>

CommitComparison(w) ==
  /\ Committing(w, "comparison")
  /\ LET r == requests[w]
         row == Comparison(r.subject, r.key, r.at)
     IN /\ Stored(shadows', r.shadow) = payouts[r.subject].shadow
        /\ now < payouts[r.subject].until /\ (row.until # 0 => now < row.until)
        /\ comparisons' = Append(comparisons, row)
  /\ UNCHANGED <<payouts, preflights>>

\* The quote must still be the newest; the clock is not read again. The table
\* refuses a contract whose cost with its fee is what it pays at most.
CommitPreflight(w) ==
  /\ Committing(w, "preflight")
  /\ LET r == requests[w]
         row == comparisons[r.subject]
         preflight == Preflight(r.subject, r.side, r.cap, r.key, r.at)
     IN /\ Stored(shadows', r.shadow) = payouts[row.payout].shadow
        /\ {q.at : q \in NewestPrice(r.market)} = row.price
        /\ r.side \in DOMAIN row.asks
        /\ preflight.quantity > 0 => preflight.cost < 100 * preflight.quantity
        /\ preflights' = Append(preflights, preflight)
  /\ UNCHANGED <<payouts, comparisons>>

RollbackKeepingLocks(w) == \* Variant: the transaction is left open.
  /\ requests[w] # Idle
  /\ requests' = [requests EXCEPT ![w] = Idle]
  /\ UNCHANGED <<evidence, tables>>

\* A gate that fails, or a lost connection: everything is undone.
Rollback(w) ==
  /\ requests[w] # Idle
  /\ locked' = locked \ Held(requests[w])
  /\ requests' = [requests EXCEPT ![w] = Idle]
  /\ UNCHANGED <<now, events, markets, prices, matches, forecasts, opportunities, jobs, left, crew, tables>>

-----------------------------------------------------------------------------
\* Labels

ScorableByTeams(shadow, game, at) == \* Variant: the pair of teams is compared, not who is at home.
  /\ game.start = shadow.start /\ {game.home, game.away} = {shadow.home, shadow.away}
  /\ game.status = "final" /\ ~game.postponed
  /\ shadow.at <= game.seen /\ game.start <= game.seen /\ game.seen <= at

\* _current_result and build_shadow_label: the game is over, was played as the
\* snapshot had it, and was seen so after the snapshot was taken.
Scorable(shadow, game, at) ==
  /\ <<game.start, game.home, game.away>> = <<shadow.start, shadow.home, shadow.away>>
  /\ game.status = "final" /\ ~game.postponed
  /\ shadow.at <= game.seen /\ game.start <= game.seen /\ game.seen <= at

HomePayout(won) == CASE won = "home" -> 100 [] won = "away" -> 0 [] OTHER -> 50

\* The winner is of the raw result that the label keeps for its audit.
LabelOf(s, game) ==
  [snapshot |-> s, won |-> game.won,
   winner |-> CASE game.won = "home" -> {game.home} [] game.won = "away" -> {game.away} [] OTHER -> {},
   yes |-> IF YesTeam[shadows[s].market] = shadows[s].home THEN HomePayout(game.won)
                                                           ELSE 100 - HomePayout(game.won)]

\* NflShadowEvaluationRepository.run: the game is locked, so no result comes between.
Label(w, s) ==
  /\ Runs("label") /\ requests[w] = Idle
  /\ shadows[s].event \notin locked
  /\ Scorable(shadows[s], events[shadows[s].event], now)
  /\ labels' = labels \cup {LabelOf(s, events[shadows[s].event])}
  /\ labels' # labels
  /\ UNCHANGED <<now, events, markets, prices, matches, forecasts, opportunities, locked, jobs, crew>>
  /\ UNCHANGED <<shadows, payouts, comparisons, preflights, scores, requests>>

-----------------------------------------------------------------------------
ResearchInit ==
  /\ EvidenceInit
  /\ shadows = <<>> /\ payouts = <<>> /\ comparisons = <<>> /\ preflights = <<>>
  /\ labels = {} /\ ScoresInit
  /\ requests = [w \in Workers |-> Idle]

RequestBegins(w) ==
  \/ \E m \in crew.markets : \E i \in 1..Len(matches[m]) :
       BeginShadow(w, m, i) \/ \E key \in Keys : BeginPayout(w, m, i, key)
  \/ \E p \in 1..Len(payouts), key \in Keys : BeginComparison(w, p, key)
  \/ \E c \in 1..Len(comparisons), side \in {"yes", "no"}, cap \in Caps, key \in Keys :
       BeginPreflight(w, c, side, cap, key)

RequestProceeds(w) ==
  \/ Validate(w) \/ Capture(w)
  \/ CommitShadow(w) \/ CommitPayout(w) \/ CommitComparison(w) \/ CommitPreflight(w)
  \/ Rollback(w)

EvidenceStep ==
  \/ \E w \in Workers : RunBegins(w) \/ RunProceeds(w)
  \/ ProviderStep
  \/ Tick

ResearchNext ==
  \/ EvidenceStep /\ UNCHANGED <<tables, requests>>
  \/ \E w \in Workers : RequestBegins(w) \/ RequestProceeds(w)
  \/ \E w \in Workers, s \in 1..Len(shadows) : Label(w, s)
  \/ /\ \E purpose \in {"operational", "replay"} : Evaluate(purpose)
     /\ UNCHANGED <<shadows, payouts, comparisons, preflights, labels, requests>>

\* A run or a request is a coroutine that its server resumes. PostgreSQL queues
\* for a row, so a run that waits for one that is free again and again gets it.
ResearchFairness ==
  \A w \in Workers :
    /\ WF_researchVars(RequestProceeds(w))
    /\ SF_researchVars(RunProceeds(w) /\ UNCHANGED <<tables, requests>>)

ResearchSpec == ResearchInit /\ [][ResearchNext]_researchVars /\ ResearchFairness
=============================================================================
