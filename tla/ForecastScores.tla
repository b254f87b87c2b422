---------------------------- MODULE ForecastScores ----------------------------
\* The scores of base forecasts. An evaluation run takes the newest forecast of
\* every game, locks the games and appends a score for each forecast whose game
\* is over; a score is immutable and carries the result it was made on. What is
\* reported are the scores that still agree with the newest forecast and with
\* the game as it stands, so a correction takes a score out and may bring an
\* older one back. The pipeline has one model version.
EXTENDS Evidence

VARIABLES
  scores            \* forecast_evaluations

\* The score of a certainty that was wrong and of an even chance, in ten-thousandths.
WorstBrier == 10000
EvenBrier == 2500

\* A score, and whether the favourite won; an even chance has no favourite.
ScoreRows ==
  {r \in [forecast : Nat, event : Events, start : Starts, home : Teams, away : Teams,
          won : {"home", "away"}, brier : 0..WorstBrier, correct : {"yes", "no", "abstained"}] :
     /\ r.correct = "abstained" <=> r.brier = EvenBrier
     /\ r.correct = "yes" <=> r.brier < EvenBrier}

\* The forecasts that are scored and reported: the newest of each game.
Canonical(purpose) ==
  UNION {Newest(forecasts, LAMBDA row : row.event = e /\ row.purpose = purpose) : e \in Events}

\* _skip_reason: an operational forecast was made before the game began, a replay
\* as of the moment it began.
Evaluable(forecast, game) ==
  /\ game.status = "final" /\ game.won # "tie" /\ ~game.postponed
  /\ <<forecast.home, forecast.away>> = <<game.home, game.away>>
  /\ forecast.purpose = "operational" => forecast.asOf = forecast.at /\ forecast.at < game.start
  /\ forecast.purpose = "replay" => forecast.asOf = game.start /\ forecast.at >= forecast.asOf

\* ForecastEvaluationInput refuses what the skips should have kept from it, and
\* its refusal ends the whole run.
InputValid(forecast, game) ==
  /\ forecast.home # forecast.away /\ game.home # game.away
  /\ <<forecast.home, forecast.away>> = <<game.home, game.away>>
  /\ game.won # "tie" /\ ~game.postponed
  /\ IF forecast.purpose = "operational"
     THEN forecast.asOf = forecast.at /\ forecast.asOf < game.start /\ forecast.at < game.start
     ELSE forecast.asOf = game.start /\ forecast.at >= forecast.asOf
  /\ forecast.at <= now

\* DeterministicForecastEvaluationEngine.evaluate.
Brier(chance, won) ==
  LET missed == chance - IF won = "home" THEN 100 ELSE 0
  IN  missed * missed

Score(f, game) ==
  LET chance == forecasts[f].chance
  IN  [forecast |-> f, event |-> forecasts[f].event, start |-> game.start, home |-> game.home,
       away |-> game.away, won |-> game.won, brier |-> Brier(chance, game.won),
       correct |-> CASE chance = 50 -> "abstained"
                     [] chance # 50 /\ (chance > 50 <=> game.won = "home") -> "yes"
                     [] OTHER -> "no"]

\* ForecastEvaluationService.run: the games are locked from the reading to the commit.
Evaluate(purpose) ==
  /\ Runs("evaluate")
  /\ LET candidates == Canonical(purpose)
         found == {f \in candidates : Evaluable(forecasts[f], events[forecasts[f].event])}
     IN /\ {forecasts[f].event : f \in candidates} \cap locked = {}
        /\ scores' = scores \cup {Score(f, events[forecasts[f].event]) : f \in found}
        /\ scores' # scores
  /\ UNCHANGED <<now, events, markets, prices, matches, forecasts, opportunities, locked, jobs, crew>>

ReportedByForecast(purpose) == \* Variant: a score of the newest forecast is reported whatever became of its game.
  {s \in scores : s.forecast \in Canonical(purpose)}

\* list_current_forecast_evaluations.
Reported(purpose) ==
  {s \in scores :
     LET game == events[s.event]
     IN  /\ s.forecast \in Canonical(purpose)
         /\ game.status = "final" /\ ~game.postponed
         /\ <<s.start, s.home, s.away, s.won>> = <<game.start, game.home, game.away, game.won>>}

-----------------------------------------------------------------------------
(* What is reported of the scores of one purpose.                            *)

\* calibrate: bins of equal width over the chance of the home team, certainty in
\* the last, and in each how far the forecast wins are from the wins there were,
\* in hundredths of a game.
BinCount == 10

Bin(score) ==
  LET k == (forecasts[score.forecast].chance * BinCount) \div 100
  IN  IF k < BinCount THEN k ELSE BinCount - 1

Gap(bin) ==
  LET won(score) == IF score.won = "home" THEN 100 ELSE 0
      difference == SumFunction([s \in bin |-> forecasts[s.forecast].chance - won(s)])
  IN  IF difference < 0 THEN -difference ELSE difference

Calibration(reported) ==
  LET bins == [k \in 0..BinCount - 1 |-> {s \in reported : Bin(s) = k}]
  IN  [samples |-> [k \in DOMAIN bins |-> Cardinality(bins[k])],
       wins |-> [k \in DOMAIN bins |-> Cardinality({s \in bins[k] : s.won = "home"})],
       brier |-> SumFunction([s \in reported |-> s.brier]),
       error |-> SumFunction([k \in DOMAIN bins |-> Gap(bins[k])])]

\* summarize_models, which refuses two scores of one game.
Summarized(reported) == Cardinality({s.event : s \in reported}) = Cardinality(reported)

Summary(reported) ==
  [sample |-> Cardinality(reported),
   homeWins |-> Cardinality({s \in reported : s.won = "home"}),
   decisive |-> Cardinality({s \in reported : s.correct # "abstained"}),
   correct |-> Cardinality({s \in reported : s.correct = "yes"}),
   calibration |-> Calibration(reported)]

\* The validators of ForecastCalibrationBin, ForecastCalibrationReport and
\* ModelEvaluationSummary.
SummaryValid(summary) ==
  LET calibration == summary.calibration
  IN  /\ \A k \in DOMAIN calibration.samples : calibration.wins[k] <= calibration.samples[k]
      /\ SumFunction(calibration.samples) = summary.sample
      /\ calibration.brier <= WorstBrier * summary.sample
      /\ calibration.error <= 100 * summary.sample
      /\ summary.homeWins <= summary.sample /\ summary.decisive <= summary.sample
      /\ summary.correct <= summary.decisive

ScoresInit == scores = {}
===============================================================================
