----------------------- MODULE MlbBackfillProperties -----------------------
(***************************************************************************)
(* What the MLB dataset and its backfill must keep.                         *)
(***************************************************************************)
EXTENDS MlbBackfill

\* Every stored row is one the check and unique constraints of its table allow,
\* although only the model table refuses a row here: the services never offer the
\* others a bad one.
TypeOK ==
  /\ now \in Instants /\ faults \in 0..crew.faults
  /\ \A g \in Games : event[g] \in EventRows \cup {NoRow}
  /\ lineups \subseteq LineupRows
  /\ \A r \in statcasts : r \in StatcastRows
  /\ \A r \in vectors : r \in VectorRows
  /\ \A x \in examples : x \in ExampleRows /\ x.vector \in vectors
  /\ models \subseteq SUBSET examples
  /\ checkpoint = NoRow \/ CheckpointRow(checkpoint)
  /\ BatchRows(batches)
  /\ \A w \in Workers : job[w].kind \in {"idle", "prospective", "backfill", "fit"}

\* No example a model may be fitted on or judged by gives the quality audit an
\* error: an operational one was observed, sourced and built before the first
\* pitch it is labelled under, the holdout has no other, every outcome was seen
\* after first pitch and before it was labelled, and the split is that of the
\* start.  Games move, results are corrected and snapshots are replayed between
\* any two stages of a collection.
DatasetPassesAudit == \A x \in Eligible : QualityErrors(x) = {}

\* A stored model was fitted on one example of each game, none of the holdout,
\* and on the approved number of each split, although the readiness was read
\* before the selection.
FittedModelsAreApproved ==
  \A rows \in models :
    /\ \A s \in Exploratory : Count(rows, s) >= Minimum(s)
    /\ \A x, y \in rows : x.game = y.game => x = y
    /\ \A x \in rows : x.split # "prospective_holdout"

Behind(s, g) ==
  /\ feed[g].start = FirstStart[g] /\ ~feed[g].postponed
  /\ LowerBound(s) <= FirstStart[g] /\ FirstStart[g] <= UpperBound(s)
  /\ FirstStart[g] > checkpoint.cursor[s].day

\* No game whose schedule stood still is passed over: when the cursor of its
\* split is behind its day, a committed batch of that split has examined it with
\* every source answering.
\* Sources fail, workers stop between collection and commit, and two workers
\* run batches from one checkpoint at once.
ExaminedBehindTheCursor ==
  checkpoint # NoRow =>
    \A s \in Exploratory, g \in Games :
      Behind(s, g) => \E b \in batches : b.input.split = s /\ g \in b.answered

\* The backfill ends: it becomes complete or exhausted and stays so, however the
\* runs of its workers fail, conflict or replay one another.
BackfillEnds == <>[](checkpoint # NoRow /\ checkpoint.status \in Terminal)
=============================================================================
