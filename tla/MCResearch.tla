----------------------------- MODULE MCResearch -----------------------------
EXTENDS ResearchProperties

CONSTANTS Bulls, Heat, nba, nfl

MCTeams == {Bulls, Heat}
MCMarkets == {nba, nfl}
MCLeague == nba :> "nba" @@ nfl :> "nfl"
MCNamed == [m \in MCMarkets |-> MCTeams]
MCYesTeam == [m \in MCMarkets |-> Bulls]
MCGameDay == [m \in MCMarkets |-> 3]
MCSchedule == <<[start |-> 1, home |-> Bulls, away |-> Heat],
                [start |-> 3, home |-> Bulls, away |-> Heat]>>
MCRanges == {[from |-> 3, to |-> 3]}
MCFrozenRating == Bulls :> 1500 @@ Heat :> 1480

\* Per cent of a win for a rating difference, rounded to the nearest.
MCHomeChance(d) == CASE d < 0 -> 40 [] d \in 0..60 -> 50 [] d \in 61..110 -> 60 [] OTHER -> 70

Kinds == {"match", "operational", "replay", "opportunity", "events", "markets",
          "shadow", "payout", "comparison", "preflight", "label", "evaluate"}
Upto(runs) == [k \in Kinds |-> IF k \in DOMAIN runs THEN runs[k] ELSE 0]

\* A winner market of the NBA and one of the NFL, which closes and has no occurrence.
Crew(runs, changes, market, books) ==
  [runs |-> Upto(runs), last |-> 4, targets |-> {1, 2}, changes |-> changes, markets |-> {market}, books |-> books,
   anchors |-> {IF market = nba THEN [occurrence |-> 3, close |-> 0] ELSE [occurrence |-> 0, close |-> 4]}]

Book(yes, no) == [yes |-> yes, no |-> no]

\* Game 2 starts at 3, so that a run is worth something only at 1 and at 2. The
\* home right of a game may go to the other team between two matching runs, and the
\* second match be read by an opportunity run that took its time before it.
OpportunityCrew == [Crew([match |-> 2, operational |-> 1, opportunity |-> 1, events |-> 1, markets |-> 1],
                         {"swap"}, nba, {Book(45, 55)}) EXCEPT !.last = 2, !.targets = {2}]
\* A market that says neither when it is played nor when it closes, or only later.
UndatedCrew == [Crew([match |-> 1, opportunity |-> 1, markets |-> 1], {"anchor"}, nba, {Book(45, 55)})
                  EXCEPT !.last = 2, !.anchors = {[occurrence |-> o, close |-> 0] : o \in {0, 3}}]
ReplayCrew == Crew([replay |-> 1, events |-> 3], {"move", "finish"}, nba, {})
NflCrew == [Crew([match |-> 1, payout |-> 1, comparison |-> 1, preflight |-> 1, events |-> 1, markets |-> 2],
                 {"swap", "late"}, nfl, {Book(40, 0), Book(98, 0)}) EXCEPT !.last = 3]
RematchCrew == Crew([match |-> 2, payout |-> 1, events |-> 1],
                {"swap"}, nfl, {Book(40, 0)})
ShadowCrew == Crew([match |-> 1, shadow |-> 2, label |-> 1, events |-> 2],
                {"swap", "finish"}, nfl, {Book(40, 0)})
\* A forecast, a move and a result, or a result and its correction, scored twice.
ScoreCrew == [Crew([match |-> 1, operational |-> 1, evaluate |-> 1, events |-> 2],
                   {"move", "finish"}, nba, {}) EXCEPT !.targets = {2}]
CorrectionCrew == Crew([replay |-> 1, evaluate |-> 2, events |-> 3],
                {"finish"}, nba, {})
\* The home right goes to the other team and back, with a matching run after each.
RematchedCrews == {Crew([match |-> 3, events |-> 2], {"swap"}, nfl, {Book(40, 0)})}

MCCrews == {OpportunityCrew, UndatedCrew, ReplayCrew, NflCrew, RematchCrew, ShadowCrew, ScoreCrew, CorrectionCrew}
=============================================================================
