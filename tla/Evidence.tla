------------------------------ MODULE Evidence ------------------------------
\* The local evidence of the operational pipeline: games and markets as the
\* providers report them, and what three kinds of runs append about them.
\* Matching runs link a market to a game, forecast runs replay finished games
\* into an Elo probability, opportunity runs compare a probability with an ask.
\* Every run reads in several statements and commits at its end; the rows it
\* appends are immutable and carry a fingerprint of what they were judged on,
\* and a row with the fingerprint of an older one is not appended again.
\*
\* Time passes in ticks and every age is a number of ticks. The rows of a table
\* are numbered as they are inserted; "newest" goes by the time a row carries.
EXTENDS Integers, FiniteSets, SequencesExt

CONSTANTS
  Teams, Markets,
  Events,           \* the games, numbered in the order of their ids
  Workers,          \* requests that may be under way at once
  Horizon,          \* the clock stops here
  League,           \* [Markets -> {"nba", "mlb", "nfl"}], the classification
  Named,            \* the teams the text of a market names
  YesTeam,          \* the team a market's YES side pays on
  Supported,        \* the markets whose text and labels are a known winner contract
  GameDay,          \* the day in the rules of an NFL market
  Schedule,         \* the games before any change: start, home and away
  Starts,           \* the times a game may be moved to
  Outcomes,         \* how a game may end: "home", "away", "tie"
  Ranges,           \* the date ranges that matching is asked for
  HoursPerTick, WindowHours, MinConfidence, AmbiguityMargin,
  InitialRating, KFactor, HomeAdvantage,
  HomeChance(_),    \* the logistic curve: rating difference to per cent
  PriceAge, ForecastAge, WatchEdge, TradeEdge,
  Crews,            \* what a behaviour may contain: how many runs of each kind, which
                    \* changes, markets and books (an ask for each side in cents, 0 for
                    \* none), what a market may say of occurrence and close, 0 for nothing,
                    \* the games forecasts are asked for, and the last tick of the clock
  NoRow

VARIABLES
  now,
  events,           \* sports_events
  markets,          \* prediction_markets
  prices,           \* market_prices: one set of quotes for each market
  matches,          \* market_event_matches: one sequence for each market
  forecasts,        \* base_forecasts
  opportunities,    \* opportunities
  locked,           \* rows that a transaction holds FOR UPDATE
  jobs,             \* what each run has read and not yet committed
  left,             \* how many runs, reports and requests of each kind may still begin
  crew              \* bounds of the behaviour: what may run, change and be quoted

evidence == <<now, events, markets, prices, matches, forecasts, opportunities,
              locked, jobs, left, crew>>

Times == 1..Horizon
Idle == [kind |-> "idle"]

\* Everything but matching is decided by the text of a market, and the text stays.
ASSUME EvidenceAssumption ==
  /\ Events \subseteq Nat \ {0} /\ IsFiniteSet(Events) /\ Horizon \in Nat \ {0}
  /\ League \in [Markets -> {"nba", "mlb", "nfl"}]
  /\ Named \in [Markets -> SUBSET Teams] /\ YesTeam \in [Markets -> Teams]
  /\ Supported \subseteq Markets
  /\ Starts \subseteq Times /\ Outcomes \subseteq {"home", "away", "tie"}
  /\ Schedule \in [Events -> [start : Starts, home : Teams, away : Teams]]
  /\ \A e \in Events : Schedule[e].home # Schedule[e].away
  /\ \A c \in Crews : /\ c.markets \subseteq Markets
                       /\ c.targets \subseteq Events
                       /\ c.books \subseteq [yes : 0..100, no : 0..100]
                       /\ c.anchors \subseteq [occurrence : 0..Horizon, close : 0..Horizon + 1]
  /\ AmbiguityMargin > 0 /\ PriceAge \in Nat /\ ForecastAge \in Nat
  /\ WatchEdge \in Int /\ TradeEdge \in Int /\ WatchEdge < TradeEdge
  /\ InitialRating \in Int /\ KFactor \in Int /\ HomeAdvantage \in Int

-----------------------------------------------------------------------------
\* Rows

EventRows ==
  [start : Starts, home : Teams, away : Teams, status : {"scheduled", "final"},
   postponed : BOOLEAN, won : {"none", "home", "away", "tie"}, seen : Times]

MarketRows ==
  [occurrence : 0..Horizon, close : 0..Horizon + 1, open : BOOLEAN, seen : Times]

PriceRows == [at : Times, yes : 0..100, no : 0..100]

\* What a decision was made on; a matched one, and only a matched one, has a game.
Fingerprints ==
  [occurrence : 0..Horizon, close : 0..Horizon + 1,
   games : UNION {[E -> [start : Starts, home : Teams, away : Teams]] : E \in SUBSET Events}]

MatchRows(m) ==
  {r \in [fingerprint : Fingerprints, status : {"matched", "ambiguous", "unmatched"},
          event : Events \cup {0}, eligible : BOOLEAN, at : Times] :
     /\ r.status = "matched" <=> r.event \in Events
     /\ r.eligible <=> r.status = "matched" /\ League[m] = "nba"}

ForecastRows ==
  {r \in [event : Events, purpose : {"operational", "replay"}, start : Starts, home : Teams, away : Teams,
          status : {"scheduled", "final"}, chance : 0..100, at : Times, asOf : Times,
          training : Seq([game : Events, start : Starts, home : Teams, away : Teams, won : {"home", "away", "tie"}])] :
     /\ r.home # r.away
     /\ r.purpose = "operational" => r.asOf = r.at
     /\ r.purpose = "replay" => r.asOf = r.start}

\* An opportunity is classified by its raw edge and dies with the first of its inputs.
OpportunityRows ==
  {r \in [market : Markets, direction : {"yes", "no"}, price : Times, match : Nat, event : Events, forecast : Nat,
          team : Teams, chance : 0..100, ask : 1..99, status : {"ignore", "watch", "trade_candidate"},
          until : Times, shown : Seq(Nat \cup Teams), at : Times] :
     /\ r.status = "ignore" <=> r.chance - r.ask < WatchEdge
     /\ r.status = "trade_candidate" <=> r.chance - r.ask >= TradeEdge
     /\ r.direction = "yes" <=> r.team = YesTeam[r.market]
     /\ r.price <= r.at /\ r.at <= r.until}

\* The newest of the rows i for which Pick holds, by the time they carry.
Newest(rows, Pick(_)) ==
  LET picked == {i \in DOMAIN rows : Pick(rows[i])}
  IN {i \in picked : \A j \in picked : rows[j].at < rows[i].at \/ (rows[j].at = rows[i].at /\ j <= i)}

NewestMatch(m) == Newest(matches[m], LAMBDA row : TRUE)

\* The latest price of a market: a set, empty if it was never quoted.
NewestPrice(m) == {p \in prices[m] : \A q \in prices[m] : q.at <= p.at}

\* ON CONFLICT DO NOTHING: a row is appended unless an older one has its key.
AppendNew(rows, row, key) ==
  IF \E i \in DOMAIN rows : \A c \in key : rows[i][c] = row[c] THEN rows ELSE Append(rows, row)

\* A run or a request takes the first place that is free.
Free(places, w) == places[w] = Idle /\ \A v \in Workers : v < w => places[v] # Idle

\* A run has read one statement more.
Reads(w, job) ==
  /\ jobs' = [jobs EXCEPT ![w] = job]
  /\ UNCHANGED <<now, events, markets, prices, matches, forecasts, opportunities, locked, left, crew>>

-----------------------------------------------------------------------------
\* Ingestion

Runs(kind) == left[kind] > 0 /\ left' = [left EXCEPT ![kind] = @ - 1]
Changes(kind) == kind \in crew.changes

\* What the provider says of game e now: what it said before, moved to a time to
\* come, with the home right exchanged, postponed or not any more, over, or with another result.
Reports(e) ==
  LET row == [events[e] EXCEPT !.seen = now]
      ahead == row.status = "scheduled"
  IN  {row} \cup
      {[row EXCEPT !.start = s] : s \in {t \in Starts : Changes("move") /\ ahead /\ t > now}} \cup
      {[row EXCEPT !.home = row.away, !.away = row.home] : c \in {x \in {"swap"} : Changes(x) /\ ahead}} \cup
      {[row EXCEPT !.postponed = ~row.postponed] : c \in {x \in {"postpone"} : Changes(x) /\ ahead}} \cup
      {[row EXCEPT !.status = "final", !.won = won] :
         won \in IF Changes("finish") /\ row.start < now /\ ~row.postponed THEN Outcomes ELSE {}}

\* SportsRepository.upsert_events: the row is overwritten with the report.
IngestEvent(e) ==
  /\ Runs("events") /\ e \notin locked
  /\ \E report \in Reports(e) : report # events[e] /\ events' = [events EXCEPT ![e] = report]
  /\ UNCHANGED <<now, markets, prices, matches, forecasts, opportunities, locked, jobs, crew>>

\* MarketRepository.upsert_markets: the market is overwritten and its quote
\* appended under the time the provider was asked, which may be a tick ago; a
\* second quote for that time is dropped. The upsert locks the market's row first.
IngestMarket(m) ==
  /\ Runs("markets") /\ m \notin locked
  /\ \E at \in {now} \cup (IF Changes("late") THEN {now - 1} \cap Times ELSE {}),
        book \in crew.books,
        anchor \in IF Changes("anchor") THEN crew.anchors ELSE {[c \in {"occurrence", "close"} |-> markets[m][c]]},
        open \in IF Changes("close") THEN {markets[m].open, FALSE} ELSE {markets[m].open} :
       LET row == [occurrence |-> anchor.occurrence, close |-> anchor.close, open |-> open, seen |-> at]
           quoted == \E p \in prices[m] : p.at = at
       IN /\ markets' = [markets EXCEPT ![m] = row]
          /\ prices' = IF quoted THEN prices
                       ELSE [prices EXCEPT ![m] = @ \cup {[at |-> at, yes |-> book.yes, no |-> book.no]}]
          /\ <<markets', prices'>> # <<markets, prices>>
  /\ UNCHANGED <<now, events, matches, forecasts, opportunities, locked, jobs, crew>>

-----------------------------------------------------------------------------
\* Matching

Distance(s, t) == IF s < t THEN t - s ELSE s - t

\* The time a market is anchored at; an NFL market without one has its contract day.
Reference(row) == IF row.occurrence # 0 THEN row.occurrence ELSE row.close

ByContractDay(m, row) == League[m] = "nfl" /\ row.occurrence = 0

\* _temporal_score, to its four decimals.
TemporalScore(hours, row) ==
  LET score == CASE hours <= 3  -> 10000
                 [] hours <= 12 -> 8500
                 [] hours <= 24 -> 6000
                 [] OTHER       -> 3000
  IN  IF row.occurrence # 0 THEN score ELSE (score * 65) \div 100

\* Whether game g is close enough in time to the market to be a candidate.
WithinWindow(m, row, g) ==
  /\ League[m] = "nfl" => g.start = GameDay[m]
  /\ ~ByContractDay(m, row) => /\ Reference(row) # 0
                               /\ HoursPerTick * Distance(g.start, Reference(row)) <= WindowHours

\* Both teams are named outright, so teams give 70 of the 100 points; time gives
\* the other 30, half up to four decimals.
Confidence(m, row, g) ==
  LET score == IF ByContractDay(m, row) THEN 9500
               ELSE TemporalScore(HoursPerTick * Distance(g.start, Reference(row)), row)
  IN  7000 + (3 * score + 5) \div 10

\* MarketEventMatcher.match on a market row and the games that were read: the one
\* candidate that is confident enough and far enough ahead of every other.
Relevant(m, games) == {e \in DOMAIN games : {games[e].home, games[e].away} \subseteq Named[m]}

MatchFingerprint(m, row, games) ==
  [occurrence |-> row.occurrence, close |-> row.close,
   games |-> [e \in Relevant(m, games) |-> [c \in {"start", "home", "away"} |-> games[e][c]]]]

\* The gates on the text: a supported winner contract that names two teams.
Recognised(m) == m \in Supported /\ Cardinality(Named[m]) = 2

\* The candidate that is confident enough and ahead of every other: a set.
Clear(m, row, games, viable) ==
  LET score(e) == Confidence(m, row, games[e])
  IN  {e \in viable : /\ score(e) >= MinConfidence
                      /\ \A f \in viable \ {e} : score(e) - score(f) >= AmbiguityMargin}

Match(m, row, games, at) ==
  LET viable == {e \in Relevant(m, games) : WithinWindow(m, row, games[e])}
      clear == Clear(m, row, games, viable)
      anchored == Reference(row) # 0 \/ League[m] = "nfl"
      matched == Recognised(m) /\ clear # {}
      open == \/ viable # {}
              \/ ~anchored /\ Relevant(m, games) # {}
  IN  [fingerprint |-> MatchFingerprint(m, row, games),
       status |-> CASE matched -> "matched"
                    [] ~matched /\ Recognised(m) /\ open -> "ambiguous"
                    [] OTHER -> "unmatched",
       event |-> IF matched THEN CHOOSE e \in clear : TRUE ELSE 0,
       eligible |-> matched /\ League[m] = "nba",
       at |-> at]

MatchKey == {"fingerprint"}

Padding == (WindowHours + HoursPerTick - 1) \div HoursPerTick

\* MarketEventMatchingService.run reads the market if the request names it, or the
\* range it is asked for holds its time (for the NFL, its contract day) ...
BeginMatching(w, m, range, named) ==
  /\ Runs("match") /\ Free(jobs, w)
  /\ LET day == IF League[m] = "nfl" THEN GameDay[m] ELSE Reference(markets[m])
         pad == WindowHours \div HoursPerTick
     IN named \/ day \in range.from - pad..range.to + pad
  /\ jobs' = [jobs EXCEPT ![w] = [kind |-> "match", market |-> m, row |-> markets[m], range |-> range]]
  /\ UNCHANGED <<now, events, markets, prices, matches, forecasts, opportunities, locked, crew>>

\* ... then the games of that range and its padding, and judges ...
Judge(w) ==
  /\ jobs[w].kind = "match"
  /\ LET job == jobs[w]
         games == {e \in Events : events[e].start \in job.range.from - Padding..job.range.to + Padding}
         decision == Match(job.market, job.row, [e \in games |-> events[e]], now)
     IN jobs' = [jobs EXCEPT ![w] = [kind |-> "judged", market |-> job.market, decision |-> decision]]
  /\ UNCHANGED <<now, events, markets, prices, matches, forecasts, opportunities, locked, left, crew>>

\* ... and insert_decisions locks the market and appends what is new.
InsertDecision(w) ==
  /\ jobs[w].kind = "judged" /\ jobs[w].market \notin locked
  /\ matches' = [matches EXCEPT ![jobs[w].market] = AppendNew(@, jobs[w].decision, MatchKey)]
  /\ jobs' = [jobs EXCEPT ![w] = Idle]
  /\ UNCHANGED <<now, events, markets, prices, forecasts, opportunities, locked, left, crew>>

-----------------------------------------------------------------------------
\* Elo forecasts

\* Results in the order in which the games started.
Before(d, e) == events[d].start < events[e].start \/ (events[d].start = events[e].start /\ d < e)

Result(e) ==
  [game |-> e, start |-> events[e].start, home |-> events[e].home, away |-> events[e].away, won |-> events[e].won]

InOrder(played) ==
  LET order == CHOOSE f \in [1..Cardinality(played) -> played] :
                 \A i, j \in DOMAIN f : i < j => Before(f[i], f[j])
  IN  [i \in DOMAIN order |-> Result(order[i])]

Played == {e \in Events : events[e].status = "final" /\ ~events[e].postponed}

TrainingThrough(cutoff) == InOrder({e \in Played : events[e].start <= cutoff}) \* Variant: the cutoff is included.

\* Games that are over and started before the cutoff, in the order they started.
Training(cutoff) == InOrder({e \in Played : events[e].start < cutoff})

\* update_ratings: what the winner gains the loser gives. A tie changes nothing.
Rated(ratings, game) ==
  LET chance == HomeChance(ratings[game.home] + HomeAdvantage - ratings[game.away])
      gain == (KFactor * ((IF game.won = "home" THEN 100 ELSE 0) - chance)) \div 100
  IN  IF game.won = "tie" THEN ratings
      ELSE [ratings EXCEPT ![game.home] = @ + gain, ![game.away] = @ - gain]

Ratings(training) ==
  LET after[n \in 0..Len(training)] ==
        IF n = 0 THEN [t \in Teams |-> InitialRating] ELSE Rated(after[n - 1], training[n])
  IN  after[Len(training)]

ForecastKey == {"event", "purpose", "start", "home", "away", "status", "training", "chance"}

Forecast(job, asOf) ==
  LET game == job.row
      training == Training(asOf)
      ratings == Ratings(training)
  IN  [event |-> job.event, purpose |-> job.purpose, start |-> game.start, home |-> game.home,
       away |-> game.away, status |-> game.status, training |-> training,
       chance |-> HomeChance(ratings[game.home] + HomeAdvantage - ratings[game.away]),
       at |-> job.at, asOf |-> asOf]

\* Games the newest match of some market makes eligible for the pipeline.
EligibleEvents ==
  {e \in Events : \E m \in Markets : \E i \in NewestMatch(m) :
                    matches[m][i].eligible /\ matches[m][i].event = e}

\* list_forecast_targets: an operational forecast needs an eligible game that is
\* still to come; a historical replay needs one that has a winner.
Targets(purpose, at) ==
  {e \in Events : /\ ~events[e].postponed
                  /\ \/ /\ purpose = "operational"
                        /\ events[e].status = "scheduled" /\ events[e].start > at
                        /\ e \in EligibleEvents
                     \/ purpose = "replay" /\ events[e].won \in {"home", "away"}}

\* BaseForecastService.run takes the time ...
BeginForecast(w, purpose, e) ==
  /\ Runs(purpose) /\ Free(jobs, w)
  /\ jobs' = [jobs EXCEPT ![w] = [kind |-> "target", event |-> e, purpose |-> purpose, at |-> now]]
  /\ UNCHANGED <<now, events, markets, prices, matches, forecasts, opportunities, locked, crew>>

\* ... then reads the target, with which the run ends if it is none ...
ReadTarget(w) ==
  /\ jobs[w].kind = "target"
  /\ LET job == jobs[w]
     IN \/ /\ job.event \in Targets(job.purpose, job.at)
           /\ Reads(w, [kind |-> "forecast", event |-> job.event, row |-> events[job.event],
                        purpose |-> job.purpose, at |-> job.at])
        \/ job.event \notin Targets(job.purpose, job.at) /\ Reads(w, Idle)

\* ... then the history up to the target's cutoff, and appends what is new.
PersistForecast(w) ==
  /\ jobs[w].kind = "forecast"
  /\ LET job == jobs[w]
         asOf == IF job.purpose = "operational" THEN job.at ELSE job.row.start
     IN \E row \in {Forecast(job, asOf)} : forecasts' = AppendNew(forecasts, row, ForecastKey)
  /\ jobs' = [jobs EXCEPT ![w] = Idle]
  /\ UNCHANGED <<now, events, markets, prices, matches, opportunities, locked, left, crew>>

-----------------------------------------------------------------------------
\* Opportunities

\* The games that decisions of market m name, as they are now.
GamesOf(m, decisions) == [e \in {matches[m][i].event : i \in decisions} \cap Events |-> events[e]]

\* OpportunityService.run takes the time ...
BeginOpportunities(w, m) ==
  /\ Runs("opportunity") /\ Free(jobs, w)
  /\ jobs' = [jobs EXCEPT ![w] = [kind |-> "clock", market |-> m, at |-> now]]
  /\ UNCHANGED <<now, events, markets, prices, matches, forecasts, opportunities, locked, crew>>

\* ... and list_source_bundles reads the market, if it has a time to be found by ...
ReadMarket(w) ==
  /\ jobs[w].kind = "clock"
  /\ LET job == jobs[w]
         row == markets[job.market]
     IN \/ /\ Reference(row) # 0
           /\ Reads(w, [kind |-> "market", market |-> job.market, row |-> row, at |-> job.at])
        \/ Reference(row) = 0 /\ Reads(w, Idle)

\* ... then its newest match, which may be newer than the time of the run ...
ReadMatch(w) ==
  /\ jobs[w].kind = "market"
  /\ LET job == jobs[w]
     IN Reads(w, [kind |-> "bundle", market |-> job.market, row |-> job.row, match |-> NewestMatch(job.market),
                  at |-> job.at])

\* ... then its newest quote ...
ReadPrice(w) ==
  /\ jobs[w].kind = "bundle"
  /\ LET job == jobs[w]
     IN Reads(w, [kind |-> "quoted", market |-> job.market, row |-> job.row, match |-> job.match,
                  price |-> NewestPrice(job.market), at |-> job.at])

\* ... then the game of the match ...
ReadGame(w) ==
  /\ jobs[w].kind = "quoted"
  /\ LET job == jobs[w]
     IN Reads(w, [kind |-> "sources", market |-> job.market, row |-> job.row, match |-> job.match,
                  price |-> job.price, games |-> GamesOf(job.market, job.match), at |-> job.at])

UsableByTeams(job, match, price, e, game, forecast) == \* Variant: the pair of teams is compared, not the game.
  /\ job.row.open /\ (job.row.close # 0 => job.row.close > job.at)
  /\ match.status = "matched" /\ match.eligible
  /\ game.status = "scheduled" /\ ~game.postponed /\ game.start > job.at
  /\ price.at <= job.at /\ job.at - price.at <= PriceAge
  /\ forecast.at <= job.at /\ job.at - forecast.at <= ForecastAge
  /\ forecast.event = e /\ {forecast.home, forecast.away} = {game.home, game.away}

\* _bundle_skip_reason: what a bundle must be to be evaluated at all.
Usable(job, match, price, e, game, forecast) ==
  /\ job.row.open /\ (job.row.close # 0 => job.row.close > job.at)
  /\ match.status = "matched" /\ match.eligible
  /\ game.status = "scheduled" /\ ~game.postponed /\ game.start > job.at
  /\ price.at <= job.at /\ job.at - price.at <= PriceAge
  /\ forecast.at <= job.at /\ job.at - forecast.at <= ForecastAge
  /\ forecast.event = e
  /\ <<forecast.start, forecast.home, forecast.away, forecast.status>>
       = <<game.start, game.home, game.away, game.status>>

Least(S) == CHOOSE x \in S : \A y \in S : x <= y

\* resolve_outcome_orientation and RawEdgeOpportunityEngine.evaluate for one side.
Opportunity(job, i, price, e, game, f, side) ==
  LET m == job.market
      other == CHOOSE t \in {game.home, game.away} : t # YesTeam[m]
      team == IF side = "yes" THEN YesTeam[m] ELSE other
      ask == price[side]
      chance == IF team = game.home THEN forecasts[f].chance ELSE 100 - forecasts[f].chance
      edge == chance - ask
  IN  [market |-> m, direction |-> side, price |-> price.at, match |-> i, event |-> e, forecast |-> f,
       team |-> team, chance |-> chance, ask |-> ask,
       status |-> CASE edge < WatchEdge -> "ignore"
                    [] edge >= WatchEdge /\ edge < TradeEdge -> "watch"
                    [] OTHER -> "trade_candidate",
       until |-> Least({price.at + PriceAge, forecasts[f].at + ForecastAge, game.start}
                       \cup IF job.row.close # 0 THEN {job.row.close} ELSE {}),
       shown |-> <<job.row.occurrence, job.row.close, game.start, game.home, game.away>>,
       at |-> job.at]

OpportunityKey(row) == [c \in (DOMAIN row) \ {"at"} |-> row[c]]

NewestForecast(e) == Newest(forecasts, LAMBDA row : row.event = e /\ row.purpose = "operational")

\* ... then the newest forecast, and appends a comparison for each side with an ask.
PersistOpportunities(w) ==
  /\ jobs[w].kind = "sources"
  /\ LET job == jobs[w]
         bundles == {b \in job.match \X job.price \X (DOMAIN job.games) \X (DOMAIN forecasts) \X {"yes", "no"} :
                       /\ b[4] \in NewestForecast(b[3])
                       /\ Usable(job, matches[job.market][b[1]], b[2], b[3], job.games[b[3]], forecasts[b[4]])
                       /\ job.market \in Supported
                       /\ YesTeam[job.market] \in {job.games[b[3]].home, job.games[b[3]].away}
                       /\ b[2][b[5]] \in 1..99}
         found == {Opportunity(job, b[1], b[2], b[3], job.games[b[3]], b[4], b[5]) : b \in bundles}
     IN opportunities' = opportunities \cup
          {o \in found : o.until >= job.at /\ \A p \in opportunities : OpportunityKey(p) # OpportunityKey(o)}
  /\ jobs' = [jobs EXCEPT ![w] = Idle]
  /\ UNCHANGED <<now, events, markets, prices, matches, forecasts, locked, left, crew>>

-----------------------------------------------------------------------------
Tick ==
  /\ now < Horizon /\ now < crew.last
  /\ now' = now + 1
  /\ UNCHANGED <<events, markets, prices, matches, forecasts, opportunities, locked, jobs, left, crew>>

EvidenceInit ==
  /\ now = 1
  /\ events = [e \in Events |->
       [start |-> Schedule[e].start, home |-> Schedule[e].home, away |-> Schedule[e].away,
        status |-> "scheduled", postponed |-> FALSE, won |-> "none", seen |-> 1]]
  /\ crew \in Crews
  /\ markets \in [Markets -> {[occurrence |-> a.occurrence, close |-> a.close, open |-> TRUE, seen |-> 1] : a \in crew.anchors}]
  /\ prices = [m \in Markets |-> {}]
  /\ matches = [m \in Markets |-> <<>>]
  /\ forecasts = <<>>
  /\ opportunities = {}
  /\ locked = {}
  /\ jobs = [w \in Workers |-> Idle]
  /\ left = crew.runs

RunBegins(w) ==
  \/ \E m \in crew.markets, range \in Ranges, named \in BOOLEAN : BeginMatching(w, m, range, named)
  \/ \E purpose \in {"operational", "replay"}, e \in crew.targets : BeginForecast(w, purpose, e)
  \/ \E m \in crew.markets : BeginOpportunities(w, m)

RunProceeds(w) ==
  \/ Judge(w) \/ InsertDecision(w)
  \/ ReadTarget(w) \/ PersistForecast(w)
  \/ ReadMarket(w) \/ ReadMatch(w) \/ ReadPrice(w) \/ ReadGame(w) \/ PersistOpportunities(w)

ProviderStep ==
  \/ \E e \in Events : IngestEvent(e)
  \/ \E m \in crew.markets : IngestMarket(m)
=============================================================================
