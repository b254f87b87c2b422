----------------------------- MODULE MlbDataset -----------------------------
(***************************************************************************)
(* The MLB research dataset: the local copy of the official schedule, the   *)
(* append-only lineup, Statcast and feature-vector snapshots built from it, *)
(* the labelled examples, the canonical selection over them, its readiness  *)
(* and quality, and the fitted research models.                             *)
(*                                                                          *)
(* A collection call is a job of a worker.  It moves one event at a time    *)
(* through the stages events, lineup, statcast, vector (and label when it   *)
(* is the historical backfill).  A stage reads first (Fetch) and stores     *)
(* later (Persist) under the lock of the event row, each stage in a         *)
(* transaction of its own, so other workers run between any two steps.      *)
(*                                                                          *)
(* Data is abstracted: a day is one instant, a game has a winner instead of *)
(* a score, player rows and metrics are left out (a thin game is one        *)
(* with a selected feature missing), and a fingerprint is the record of     *)
(* what it is taken over.                                                   *)
(***************************************************************************)
EXTENDS Integers, Sequences, FiniteSets, SequencesExt

CONSTANTS
  Games,          \* the official games
  FirstStart,     \* the scheduled start each game first has
  Workers,        \* sessions that run a collection, a backfill or a fit
  SeasonStart, ValidationStart, TestStart, HoldoutStart,
  MinTrain, MinValidation, MinTest,   \* approved minimum counts
  NoRow,          \* no such row
  MaxTime,        \* bound: last instant
  Crews           \* bounds of a behaviour: who runs, what may change and fail

ASSUME DatasetAssumption ==
  /\ IsFiniteSet(Games) /\ FirstStart \in [Games -> 0..MaxTime]
  /\ HoldoutStart <= MaxTime
  /\ {SeasonStart, ValidationStart, TestStart, HoldoutStart, MaxTime} \subseteq Nat
  /\ Crews \subseteq [backfillers : SUBSET Workers, collectors : SUBSET Workers,
                     changing : SUBSET Games, unposted : SUBSET Games, thin : SUBSET Games,
                     until : 0..MaxTime, faults : Nat]
  /\ SeasonStart < ValidationStart
  /\ ValidationStart < TestStart
  /\ TestStart < HoldoutStart
  /\ {MinTrain, MinValidation, MinTest} \subseteq Nat \ {0}

VARIABLES
  crew,       \* the crew of this behaviour; it never changes
  now,        \* the clock the application and the database share
  feed,       \* what the official sources report (external)
  faults,     \* provider failures and stopped workers so far
  event,      \* sports_events: the local copy of the schedule
  lineups, statcasts, vectors, \* append-only snapshots
  examples,   \* mlb_labeled_feature_examples
  models,     \* mlb_fitted_research_models with their lineage
  job         \* the call each worker is running

tables == <<lineups, statcasts, vectors, examples>>
datasetVars == <<now, feed, faults, event, tables, models, job>>

Idle == [kind |-> "idle"]
Splits == {"train", "validation", "test", "prospective_holdout"}
Exploratory == Splits \ {"prospective_holdout"}

AssignSplit(start) ==
  CASE start < ValidationStart -> "train"
    [] start >= ValidationStart /\ start < TestStart -> "validation"
    [] start >= TestStart /\ start < HoldoutStart -> "test"
    [] OTHER -> "prospective_holdout"

-----------------------------------------------------------------------------
(* The rows the check constraints of the tables allow.                       *)

Instants == 0..MaxTime

EventRows ==
  [start : Instants, final : BOOLEAN, winner : {"home", "away"}, postponed : BOOLEAN,
   seen : Instants]

\* The value for a row that is not there is no row.
ASSUME RowsAssumption == NoRow \notin EventRows

LineupKeys == [game : Games, start : Instants, posted : BOOLEAN, final : BOOLEAN]

LineupRows ==
  {r \in [key : LineupKeys, at : Instants, operational : BOOLEAN] :
     r.operational => r.key.posted /\ ~r.key.final /\ r.at < r.key.start}

StatcastKeys == [lineup : LineupKeys, start : Instants]

StatcastRows ==
  {r \in [key : StatcastKeys, at : Instants, operational : BOOLEAN] :
     r.operational <=> r.at < r.key.start}

\* A vector is operational here when its availability is; the model input
\* eligibility of the row also needs it complete.
VectorRows ==
  {r \in [key : StatcastKeys, at : Instants, sourceAt : Instants,
          operational : BOOLEAN, complete : BOOLEAN] :
     r.operational => r.sourceAt < r.key.start /\ r.at < r.key.start}

ExampleRows ==
  {x \in [vector : VectorRows, game : Games, start : Instants, operational : BOOLEAN,
          winner : {"home", "away"}, split : Splits, seen : Instants, at : Instants] :
     x.split = AssignSplit(x.start) /\ x.seen >= x.start /\ x.at >= x.seen}

-----------------------------------------------------------------------------
(* Append-only tables.  A row is [key, at, operational, ...]; the key is     *)
(* what its input fingerprint covers: neither the time of the observation    *)
(* nor whether it came before first pitch is part of it.                     *)

Stored(table, row) ==
  IF \E r \in table : r.key = row.key
  THEN CHOOSE r \in table : r.key = row.key
  ELSE row

\* normalize_mlb_lineup_snapshot: pregame and complete only while the feed
\* still shows a scheduled game and the call is before its first pitch.
LineupOf(g) ==
  LET f == feed[g] IN
  [key |-> [game |-> g, start |-> f.start, posted |-> f.posted, final |-> f.final],
   at |-> now,
   operational |-> f.posted /\ ~f.final /\ now < f.start]

StatcastOf(start, lineup) ==
  [key |-> [lineup |-> lineup.key, start |-> start],
   at |-> now,
   operational |-> now < start]

\* Variant: the time of the build is not compared with first pitch.
LateVectorOf(statcast) ==
  [key |-> statcast.key, at |-> now, sourceAt |-> statcast.at,
   operational |-> statcast.operational,
   complete |-> statcast.key.lineup.game \notin crew.thin]

VectorOf(statcast) ==
  [key |-> statcast.key,
   at |-> now, sourceAt |-> statcast.at,
   operational |-> statcast.operational /\ now < statcast.key.start,
   complete |-> statcast.key.lineup.game \notin crew.thin]

\* What each repository checks again under the lock of the event row.  The row
\* it compares with is the one the session already holds: a locking SELECT
\* does not refresh a loaded object, so start is that of the job's view.
LineupMatches(start, row) == start = row.key.start

StatcastMatches(start, lineup, row) ==
  /\ lineup.key.posted
  /\ row.operational => lineup.operational
  /\ start = row.key.start

VectorMatches(start, lineup, row) ==
  /\ lineup.key.posted
  /\ row.operational /\ row.complete => lineup.operational
  /\ start = row.key.start

-----------------------------------------------------------------------------
(* Labels and the canonical selection.                                       *)

\* The newest label of a vector by observation of the outcome, then by label
\* time, as persist_labeled_example orders them.
Newer(a, b) == a.seen > b.seen \/ (a.seen = b.seen /\ a.at > b.at)

LabelsOf(v) == {x \in examples : x.vector.key = v.key}

LatestLabel(v) == CHOOSE x \in LabelsOf(v) : \A y \in LabelsOf(v) : ~Newer(y, x)

LabelOf(g, v) ==
  [vector |-> v, game |-> g, start |-> v.key.start, operational |-> v.operational,
   winner |-> event[g].winner, split |-> AssignSplit(v.key.start),
   seen |-> event[g].seen, at |-> now]

\* MlbGameFeatureService.label and DeterministicMlbDatasetContract.label.
LabelAllowed(g, v) ==
  /\ ~event[g].postponed
  /\ event[g].start = v.key.start
  /\ v.complete
  /\ event[g].final
  /\ event[g].seen >= v.key.start

\* An unchanged result replays the label it already has; anything else is a
\* revision.  The same observation never makes a second row.
LabelsAfter(g, v) ==
  LET x == LabelOf(g, v)
      replay == /\ LabelsOf(v) # {}
                /\ LatestLabel(v).winner = x.winner
      known == \E y \in LabelsOf(v) : y.winner = x.winner /\ y.seen = x.seen
  IN IF replay \/ known THEN examples ELSE examples \cup {x}

\* _canonical_example_ranking: operational evidence first, then the newest
\* vector, then the newest observation of the outcome.
Outranks(a, b) ==
  \/ a.operational /\ ~b.operational
  \/ /\ a.operational = b.operational
     /\ \/ a.vector.at > b.vector.at
        \/ a.vector.at = b.vector.at /\ Newer(a, b)

Eligible == {x \in examples : x.operational \/ x.split # "prospective_holdout"}

Canonical ==
  LET Of(g) == {x \in Eligible : x.game = g}
  IN {CHOOSE x \in Of(g) : \A y \in Of(g) : ~Outranks(y, x) :
        g \in {x.game : x \in Eligible}}

Minimum(s) ==
  CASE s = "train" -> MinTrain
    [] s = "validation" -> MinValidation
    [] OTHER -> MinTest

Count(rows, s) == Cardinality({x \in rows : x.split = s})

Shortfall(s) == Minimum(s) > Count(Canonical, s)

ExploratoryReady == \A s \in Exploratory : ~Shortfall(s)

\* The errors DeterministicMlbDatasetQualityEngine reports of one example.
QualityErrors(x) ==
  {code \in {"split_assignment_mismatch", "incomplete_feature_vector",
             "retrospective_prospective_holdout", "operational_timing_violation",
             "operational_eligibility_mismatch", "outcome_timing_violation",
             "label_timing_violation"} :
    CASE code = "split_assignment_mismatch" -> x.split # AssignSplit(x.start)
      [] code = "incomplete_feature_vector" -> ~x.vector.complete
      [] code = "retrospective_prospective_holdout" ->
           AssignSplit(x.start) = "prospective_holdout" /\ ~x.operational
      [] code = "operational_timing_violation" ->
           x.operational /\ (x.vector.sourceAt >= x.start \/ x.vector.at >= x.start)
      [] code = "operational_eligibility_mismatch" ->
           (x.vector.operational /\ x.vector.complete)
             # (/\ x.vector.complete
                /\ x.operational
                /\ x.vector.sourceAt < x.start
                /\ x.vector.at < x.start)
      [] code = "outcome_timing_violation" -> x.seen < x.start
      [] code = "label_timing_violation" -> x.at < x.seen}

-----------------------------------------------------------------------------
(* The official sources: time passes, and a game changes between two calls.  *)

\* A suspended game that was finished later is listed at its resumption.
GameChanges(g, t) ==
  LET f == feed[g] IN
    (IF f.posted THEN {} ELSE {[f EXCEPT !.posted = TRUE]})
    \cup {[f EXCEPT !.final = TRUE, !.winner = x] :
            x \in {y \in {"home", "away"} : ~f.final /\ ~f.postponed /\ f.start <= t}}
    \cup {[f EXCEPT !.winner = x] : x \in {y \in {"home", "away"} : f.final /\ y # f.winner}}
    \cup {[f EXCEPT !.start = x] :
            x \in {y \in 0..MaxTime : y # f.start /\ (f.final \/ y >= t)}}
    \cup (IF f.final THEN {} ELSE {[f EXCEPT !.postponed = ~@]})

Tick ==
  /\ now < crew.until
  /\ now' = now + 1
  /\ \/ UNCHANGED feed
     \/ \E g \in crew.changing : \E f \in GameChanges(g, now + 1) : feed' = [feed EXCEPT ![g] = f]
  /\ UNCHANGED <<faults, event, tables, models, job>>

-----------------------------------------------------------------------------
(* A job.                                                                    *)

NewJob(kind, day, offset, limit) ==
  [kind |-> kind, stage |-> "events", reading |-> TRUE, day |-> day,
   offset |-> offset, limit |-> limit, todo |-> << >>, draft |-> NoRow,
   view |-> NoRow,
   lineup |-> NoRow, statcast |-> NoRow, examined |-> {},
   unavailable |-> {}, rolledBack |-> FALSE]

Stage(w, stage) == job[w].kind \in {"prospective", "backfill"} /\ job[w].stage = stage

Game(w) == Head(job[w].todo).game

\* The event is done with: a result is appended and the next one is looked at.
NextEvent(j) ==
  [j EXCEPT !.stage = "select", !.reading = TRUE, !.draft = NoRow, !.lineup = NoRow,
            !.statcast = NoRow, !.view = NoRow, !.todo = Tail(j.todo),
            !.examined = j.examined \cup {Head(j.todo).game}]

\* A conflict under the lock rolls the session back, a provider failure does not.
Conflict(j) == [NextEvent(j) EXCEPT !.rolledBack = TRUE]
Unavailable(j) == [NextEvent(j) EXCEPT !.unavailable = @ \cup {Head(j.todo).game}]

Fault == faults < crew.faults /\ faults' = faults + 1

StartProspective(w, day) ==
  /\ job[w] = Idle
  /\ job' = [job EXCEPT ![w] = NewJob("prospective", day, 0, Cardinality(Games))]
  /\ UNCHANGED <<now, feed, faults, event, tables, models>>

\* normalize_mlb_game, stamped with the time of the call.
GameOf(g) ==
  LET f == feed[g] IN
  [start |-> f.start, final |-> f.final, winner |-> f.winner, postponed |-> f.postponed,
   seen |-> now]

\* get_games for the day; a failing provider ends the whole call.
FetchEvents(w) ==
  /\ Stage(w, "events") /\ job[w].reading
  /\ \/ /\ job' = [job EXCEPT
             ![w].reading = FALSE,
             ![w].draft = [g \in {h \in Games : feed[h].start = job[w].day} |-> GameOf(g)]]
        /\ UNCHANGED faults
     \/ Fault /\ job' = [job EXCEPT ![w] = Idle]
  /\ UNCHANGED <<now, feed, event, tables, models>>

\* list_events: the games of the day in a fixed order, cut at offset and limit,
\* each copied out of the session.
Page(rows, j) ==
  LET listed == SetToSeq({g \in Games : rows[g] # NoRow /\ rows[g].start = j.day})
      last == IF j.offset + j.limit < Len(listed) THEN j.offset + j.limit ELSE Len(listed)
  IN [i \in 1..(last - j.offset) |->
        [game |-> listed[j.offset + i], row |-> rows[listed[j.offset + i]]]]

\* upsert_events overwrites every column, whichever call read the feed last.
Upserted(fresh) == [g \in Games |-> IF g \in DOMAIN fresh THEN fresh[g] ELSE event[g]]

PersistEvents(w) ==
  /\ Stage(w, "events") /\ ~job[w].reading
  /\ event' = Upserted(job[w].draft)
  /\ job' = [job EXCEPT ![w].stage = "select", ![w].reading = TRUE, ![w].draft = NoRow,
                        ![w].todo = Page(event', job[w])]
  /\ UNCHANGED <<now, feed, faults, tables, models>>

\* The prospective collector takes games before their first pitch, the
\* backfill takes final games of before the holdout.
Skipped(j, row) ==
  \/ row.postponed
  \/ j.kind = "prospective" /\ (row.final \/ row.start <= now)
  \/ j.kind = "backfill" /\ (row.start >= HoldoutStart \/ ~row.final)

\* A game that is taken is loaded into the session (get_event).
Select(w) ==
  /\ Stage(w, "select") /\ job[w].todo # << >>
  /\ LET j == job[w]
         next == Head(j.todo)
     IN job' = [job EXCEPT ![w] =
          IF Skipped(j, next.row) THEN NextEvent(j)
          ELSE [j EXCEPT !.stage = "lineup", !.view = event[next.game]]]
  /\ UNCHANGED <<now, feed, faults, event, tables, models>>

\* The event row the session holds while it works on the game.
View(w) == job[w].view

\* Read for a stage: the provider (for a lineup or for player rows) and the
\* rows the draft is made from.
Fetch(w) ==
  /\ job[w] # Idle /\ job[w].kind # "fit"
  /\ job[w].stage \in {"lineup", "statcast", "vector"} /\ job[w].reading
  /\ \/ /\ job' = [job EXCEPT ![w].reading = FALSE, ![w].draft =
             CASE job[w].stage = "lineup" -> LineupOf(Game(w))
               [] job[w].stage = "statcast" -> StatcastOf(View(w).start, job[w].lineup)
               [] OTHER -> VectorOf(job[w].statcast)]
        /\ UNCHANGED faults
     \/ /\ job[w].stage # "vector" /\ Fault
        /\ job' = [job EXCEPT ![w] = Unavailable(@)]
  /\ UNCHANGED <<now, feed, event, tables, models>>

\* Store or replay the lineup; the call goes on with the stored row.
PersistLineup(w) ==
  /\ Stage(w, "lineup") /\ ~job[w].reading
  /\ LET row == Stored(lineups, job[w].draft)
         goesOn == IF job[w].kind = "prospective" THEN row.operational ELSE row.key.posted
     IN IF LineupMatches(View(w).start, job[w].draft)
        THEN /\ lineups' = lineups \cup {row}
             /\ job' = [job EXCEPT ![w] =
                  IF goesOn THEN [@ EXCEPT !.stage = "statcast", !.reading = TRUE,
                                           !.draft = NoRow, !.lineup = row]
                  ELSE NextEvent(@)]
        ELSE /\ job' = [job EXCEPT ![w] = Conflict(@)]
             /\ UNCHANGED lineups
  /\ UNCHANGED <<now, feed, faults, event, statcasts, vectors, examples, models>>

PersistStatcast(w) ==
  /\ Stage(w, "statcast") /\ ~job[w].reading
  /\ LET row == Stored(statcasts, job[w].draft)
     IN IF StatcastMatches(View(w).start, job[w].lineup, job[w].draft)
        THEN /\ statcasts' = statcasts \cup {row}
             /\ job' = [job EXCEPT ![w].stage = "vector", ![w].reading = TRUE,
                                   ![w].draft = NoRow, ![w].statcast = row]
        ELSE /\ job' = [job EXCEPT ![w] = Conflict(@)]
             /\ UNCHANGED statcasts
  /\ UNCHANGED <<now, feed, faults, event, lineups, vectors, examples, models>>

\* The backfill refuses a vector that is not retrospective and goes on to the
\* label of a complete one.
PersistVector(w) ==
  /\ Stage(w, "vector") /\ ~job[w].reading
  /\ LET row == Stored(vectors, job[w].draft)
     IN IF VectorMatches(View(w).start, job[w].lineup, job[w].draft)
        THEN /\ vectors' = vectors \cup {row}
             /\ job' = [job EXCEPT ![w] =
                  IF @.kind = "backfill" /\ ~row.operational /\ row.complete
                  THEN [@ EXCEPT !.stage = "label", !.draft = row]
                  ELSE NextEvent(@)]
        ELSE /\ job' = [job EXCEPT ![w] = Conflict(@)]
             /\ UNCHANGED vectors
  /\ UNCHANGED <<now, feed, faults, event, lineups, statcasts, examples, models>>

\* get_label_candidate locks the event and reads it afresh; the lock is held
\* until the label is committed.
LabelStage(w) ==
  /\ Stage(w, "label")
  /\ IF LabelAllowed(Game(w), job[w].draft)
     THEN examples' = LabelsAfter(Game(w), job[w].draft)
     ELSE UNCHANGED examples
  /\ job' = [job EXCEPT ![w] = NextEvent(@)]
  /\ UNCHANGED <<now, feed, faults, event, lineups, statcasts, vectors, models>>

\* POST /mlb-dataset-examples: label one stored vector.
Label(v) ==
  /\ v \in vectors
  /\ LabelAllowed(v.key.lineup.game, v)
  /\ examples' = LabelsAfter(v.key.lineup.game, v)
  /\ examples' # examples
  /\ UNCHANGED <<now, feed, faults, event, lineups, statcasts, vectors, models, job>>

FinishProspective(w) ==
  /\ Stage(w, "select") /\ job[w].todo = << >>
  /\ job[w].kind = "prospective"
  /\ job' = [job EXCEPT ![w] = Idle]
  /\ UNCHANGED <<now, feed, faults, event, tables, models>>

-----------------------------------------------------------------------------
(* Fitting: the readiness is read first, the selection later.                *)

StartFit(w) ==
  /\ job[w] = Idle
  /\ ExploratoryReady
  /\ job' = [job EXCEPT ![w] = [kind |-> "fit"]]
  /\ UNCHANGED <<now, feed, faults, event, tables, models>>

\* The check constraint of mlb_fitted_research_models.
ModelRowAllowed(rows) == \A s \in Exploratory : Count(rows, s) >= Minimum(s)

\* Variant: the canonical selection is fitted as it is.
EveryCanonicalRow == Canonical

\* _fitting_inputs leaves the holdout out.
FittingRows == {x \in Canonical : x.split # "prospective_holdout"}

\* The row and its lineage are stored in one transaction.
Fit(w) ==
  /\ job[w].kind = "fit"
  /\ job' = [job EXCEPT ![w] = Idle]
  /\ models' = IF ModelRowAllowed(FittingRows) THEN models \cup {FittingRows} ELSE models
  /\ UNCHANGED <<now, feed, faults, event, tables>>

\* A worker stops between two transactions; what it committed stays.
Crash(w) ==
  /\ job[w] # Idle
  /\ Fault
  /\ job' = [job EXCEPT ![w] = Idle]
  /\ UNCHANGED <<now, feed, event, tables, models>>

JobStep(w) ==
  \/ FetchEvents(w)
  \/ PersistEvents(w)
  \/ Select(w)
  \/ Fetch(w)
  \/ PersistLineup(w)
  \/ PersistStatcast(w)
  \/ PersistVector(w)
  \/ LabelStage(w)
  \/ FinishProspective(w)
  \/ Fit(w)

DatasetInit ==
  /\ crew \in Crews
  /\ now = HoldoutStart
  /\ feed = [g \in Games |->
       [start |-> FirstStart[g], final |-> FirstStart[g] < HoldoutStart,
        winner |-> "home", postponed |-> FALSE,
        posted |-> g \notin crew.unposted]]
  /\ faults = 0
  /\ event = [g \in Games |-> NoRow]
  /\ lineups = {} /\ statcasts = {} /\ vectors = {} /\ examples = {} /\ models = {}
  /\ job = [w \in Workers |-> Idle]
=============================================================================
