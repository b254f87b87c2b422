------------------------- MODULE ResearchProperties -------------------------
\* What the evidence pipeline and the NFL research chain have to keep right.
EXTENDS NflResearch

\* Every table holds rows of its type, and a row is locked only by a request
\* that is past its validation.
TypeOK ==
  /\ now \in Times
  /\ events \in [Events -> EventRows]
  /\ markets \in [Markets -> MarketRows]
  /\ prices \in [Markets -> SUBSET PriceRows]
  /\ \A m \in Markets : matches[m] \in Seq(MatchRows(m))
  /\ forecasts \in Seq(ForecastRows)
  /\ opportunities \subseteq OpportunityRows
  /\ shadows \in Seq(ShadowRows) /\ payouts \in Seq(PayoutRows)
  /\ comparisons \in Seq(ComparisonRows) /\ preflights \in Seq(PreflightRows)
  /\ labels \subseteq LabelRows /\ scores \subseteq ScoreRows
  /\ locked = UNION {Held(requests[w]) : w \in {v \in Workers : requests[v] # Idle}}

\* An opportunity compares an ask with the chance of the team its side pays on,
\* as the forecast it names has it: whatever was ingested between the clock and the
\* reads of the market, the match, the quote, the game and the forecast, they are
\* of one game with one home team, the quote and the forecast are not from after
\* the evaluation, and the row is in force when it is made. The match may be newer
\* than the evaluation: nothing compares its time.
OpportunityIsOfItsEvidence ==
  \A o \in opportunities :
    LET match == matches[o.market][o.match]
        forecast == forecasts[o.forecast]
    IN  /\ match.event = o.event /\ forecast.event = o.event
        /\ o.team = YesTeam[o.market] <=> o.direction = "yes"
        /\ \/ o.team = forecast.home /\ o.chance = forecast.chance
           \/ o.team = forecast.away /\ o.chance = 100 - forecast.chance
        /\ forecast.at <= o.at /\ o.price <= o.at /\ o.at <= o.until

\* A forecast, a historical replay among them, learns only from games that
\* started before the game it is about.
TrainsOnEarlierGames ==
  \A i \in DOMAIN forecasts : \A k \in DOMAIN forecasts[i].training :
    forecasts[i].training[k].game # forecasts[i].event /\ forecasts[i].training[k].start < forecasts[i].start

Current(m, i, yes) ==
  /\ i \in NewestMatch(m)
  /\ yes = YesPayout(m, events[matches[m][i].event])

CurrentComparison(row) ==
  /\ Current(row.market, payouts[row.payout].match, payouts[row.payout].yes)
  /\ row.price = {q.at : q \in NewestPrice(row.market)}

Added(rows) == DOMAIN rows' \ DOMAIN rows

CommitsRestOnCurrentSources ==
  /\ \A p \in Added(payouts) : Current(payouts'[p].market, payouts'[p].match, payouts'[p].yes)
  /\ \A c \in Added(comparisons) : CurrentComparison(comparisons'[c])
  /\ \A c \in Added(preflights) : CurrentComparison(comparisons[preflights'[c].comparison])

\* Whatever a locked request commits rests on what is true at the commit: the
\* newest match of the market, the game as it stands, and for a comparison and a
\* preflight the newest quote.
RestsOnCurrentSources == [][CommitsRestOnCurrentSources]_researchVars

\* A label scores the YES side of a snapshot by who really won, and the snapshot
\* was taken before the game began.
LabelsScoreThePlayedGame ==
  \A l \in labels :
    LET shadow == shadows[l.snapshot]
    IN  /\ shadow.at < shadow.start
        /\ l.yes = CASE l.winner = {} -> 50 [] YesTeam[shadow.market] \in l.winner -> 100 [] OTHER -> 0

\* What is reported of a purpose is a score of one forecast for each game, of the
\* result the game has now, and the forecast was made before that game was
\* played, or knew no later game: corrections, reschedulings and newer forecasts
\* between the runs neither leave a stale score in the report nor two of one
\* game, which would make every report of the model fail ("one selected
\* evaluation per event is required"). Nor does what is stored ever make a run or
\* a report fail a validator: a favourite that wins is right, the bins hold every
\* score once, and together they are off by at least what the whole is off by.
ReportFollowsTheResults ==
  \A purpose \in {"operational", "replay"} :
    LET reported == Reported(purpose)
        summary == Summary(reported)
    IN  /\ Summarized(reported)
        /\ reported # {} =>
             /\ SummaryValid(summary)
             /\ summary.homeWins = Cardinality({e \in Events : events[e].won = "home" /\ \E s \in reported : s.event = e})
             /\ summary.calibration.error >= Gap(reported)
        /\ \A f \in Canonical(purpose) :
             LET game == events[forecasts[f].event]
             IN  Evaluable(forecasts[f], game) => InputValid(forecasts[f], game)
        /\ \A s \in reported :
             LET forecast == forecasts[s.forecast]
             IN  /\ s.brier = Brier(forecast.chance, events[s.event].won)
                 /\ forecast.asOf <= events[s.event].start
                 /\ \A k \in DOMAIN forecast.training : forecast.training[k].start < events[s.event].start

\* A run that has read its sources gets to its commit: no request leaves a row
\* locked behind it.
RunsFinish ==
  \A w \in Workers : jobs[w] # Idle ~> jobs[w] = Idle

\* "A changed semantic input appends history instead of overwriting it." A
\* decision on other inputs than those of the newest row becomes a row.
ChangedInputAppends ==
  [][\A w \in Workers :
       jobs[w].kind = "judged" /\ jobs'[w] = Idle =>
         LET m == jobs[w].market
         IN  (\A i \in NewestMatch(m) : matches[m][i].fingerprint # jobs[w].decision.fingerprint)
               => Len(matches'[m]) = Len(matches[m]) + 1]_researchVars
=============================================================================
