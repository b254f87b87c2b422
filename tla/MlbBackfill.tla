---------------------------- MODULE MlbBackfill ----------------------------
(***************************************************************************)
(* The resumable MLB backfill: one checkpoint row with a cursor for each    *)
(* exploratory split, append-only batch facts, and workers that each run    *)
(* one batch at a time.  A batch plans from a checkpoint and a readiness it *)
(* reads, collects one page of one day through the stages of MlbDataset,    *)
(* and then moves the cursor.  Nothing is locked in between.                *)
(*                                                                          *)
(* A session keeps the checkpoint object it loaded; only a rollback during  *)
(* the collection makes it read the row again.  So both fingerprint checks  *)
(* compare that object with itself, and what stops a second worker is the   *)
(* uniqueness of the batch sequence and of the batch input.                 *)
(***************************************************************************)
EXTENDS MlbDataset

CONSTANT BatchLimit    \* games of a page

ASSUME BackfillAssumption == BatchLimit \in Nat \ {0}

VARIABLES
  checkpoint,     \* mlb_backfill_checkpoints: the one row, or NoRow
  batches,        \* mlb_backfill_batches
  work            \* the batch each worker is at

backfillVars == <<checkpoint, batches, work>>
vars == <<crew, datasetVars, backfillVars>>

Resting == [stage |-> "rest"]
Terminal == {"complete", "exhausted"}

LowerBound(s) ==
  CASE s = "train" -> SeasonStart
    [] s = "validation" -> ValidationStart
    [] OTHER -> TestStart

UpperBound(s) ==
  CASE s = "train" -> ValidationStart - 1
    [] s = "validation" -> TestStart - 1
    [] OTHER -> HoldoutStart - 1

\* The columns the state fingerprint is taken over.
StateOf(row) ==
  [status |-> row.status, cursor |-> row.cursor, version |-> row.version,
   batches |-> row.batches]

NewCheckpoint ==
  LET values == [status |-> "active",
                 cursor |-> [s \in Exploratory |-> [day |-> UpperBound(s), offset |-> 0]],
                 version |-> 0, batches |-> 0]
  IN [status |-> values.status, cursor |-> values.cursor, version |-> 0, batches |-> 0,
      fingerprint |-> values]

\* The split that is short of examples, test before validation before train.
Wanted ==
  CASE Shortfall("test") -> "test"
    [] ~Shortfall("test") /\ Shortfall("validation") -> "validation"
    [] OTHER -> "train"

PlanOf(row) ==
  LET s == Wanted IN
  [split |-> s, day |-> row.cursor[s].day, offset |-> row.cursor[s].offset,
   fingerprint |-> row.fingerprint]

Cursors == [day : (SeasonStart - 1)..(HoldoutStart - 1), offset : Nat]

\* A cursor stays between the day before its split and the last day of it.
CheckpointRow(row) ==
  /\ row.status \in Terminal \cup {"active"}
  /\ row.cursor \in [Exploratory -> Cursors]
  /\ \A s \in Exploratory : row.cursor[s].day \in (LowerBound(s) - 1)..UpperBound(s)
  /\ row.version \in Nat /\ row.batches \in Nat

\* One batch of each input and of each sequence.
BatchRows(rows) ==
  /\ \A b \in rows : b.sequence \in Nat \ {0} /\ b.input.split \in Exploratory
  /\ \A a, b \in rows : a.input = b.input \/ a.sequence = b.sequence => a = b

-----------------------------------------------------------------------------
\* get_or_create_checkpoint: insert unless there, then load it.
Open(w) ==
  /\ w \in crew.backfillers
  /\ work[w] = Resting /\ job[w] = Idle
  /\ checkpoint' = IF checkpoint = NoRow THEN NewCheckpoint ELSE checkpoint
  /\ work' = [work EXCEPT ![w] = [stage |-> "plan", held |-> checkpoint', plan |-> NoRow]]
  /\ UNCHANGED <<datasetVars, batches>>

\* Read the readiness, and stop, finalize or start the collection of a page.
Plan(w) ==
  /\ work[w].stage = "plan"
  /\ LET held == work[w].held IN
       IF held.status \in Terminal
       THEN work' = [work EXCEPT ![w] = Resting] /\ UNCHANGED job
       ELSE IF ExploratoryReady \/ held.cursor[Wanted].day < LowerBound(Wanted)
       THEN /\ work' = [work EXCEPT ![w].stage = "finalize", ![w].plan =
                          IF ExploratoryReady THEN "complete" ELSE "exhausted"]
            /\ UNCHANGED job
       ELSE /\ work' = [work EXCEPT ![w].stage = "collect", ![w].plan = PlanOf(held)]
            /\ job' = [job EXCEPT ![w] = NewJob("backfill", PlanOf(held).day,
                                                PlanOf(held).offset, BatchLimit)]
  /\ UNCHANGED <<now, feed, faults, event, tables, models, checkpoint, batches>>

\* Variant: the status is computed and not stored.
NotFinalized(row, held, status) == row

Finalized(row, held, status) ==
  LET values == [StateOf(held) EXCEPT !.status = status, !.version = @ + 1]
  IN [row EXCEPT !.status = status, !.version = values.version, !.fingerprint = values]

\* finalize_checkpoint.  Under the row lock it still looks at the object the
\* session holds: status and fingerprint are those this worker read.
Finalize(w) ==
  /\ work[w].stage = "finalize"
  /\ checkpoint' = Finalized(checkpoint, work[w].held, work[w].plan)
  /\ work' = [work EXCEPT ![w] = Resting]
  /\ UNCHANGED <<datasetVars, batches>>

\* Variant: the next page may be two days down.
CursorFarAfter(plan, examined) ==
  IF examined < BatchLimit
  THEN [day |-> plan.day - 2, offset |-> 0]
  ELSE [day |-> plan.day, offset |-> plan.offset + BatchLimit]

\* A page that is not full was the last of its day.
CursorAfter(plan, examined) ==
  IF examined < BatchLimit
  THEN [day |-> plan.day - 1, offset |-> 0]
  ELSE [day |-> plan.day, offset |-> plan.offset + BatchLimit]

\* Variant: a page whose source failed counts as done.
AdvanceAnyway(j, seen, plan) == seen.fingerprint = plan.fingerprint

MayAdvance(j, seen, plan) == j.unavailable = {} /\ seen.fingerprint = plan.fingerprint

\* After the collection: a page with an unavailable source ends the run as it
\* is; otherwise the checkpoint is reloaded, refreshed only after a rollback,
\* and compared, and the readiness is read again.
Review(w) ==
  /\ work[w].stage = "collect"
  /\ Stage(w, "select") /\ job[w].todo = << >>
  /\ LET plan == work[w].plan
         seen == IF job[w].rolledBack THEN checkpoint ELSE work[w].held
         after == CursorAfter(plan, Cardinality(job[w].examined))
         status == IF ExploratoryReady THEN "complete"
                   ELSE IF after.day < LowerBound(plan.split) THEN "exhausted"
                   ELSE "active"
     IN work' = [work EXCEPT ![w] =
          IF MayAdvance(job[w], seen, plan)
          THEN [stage |-> "persist", held |-> seen, plan |-> plan, after |-> after,
                status |-> status, answered |-> job[w].examined \ job[w].unavailable]
          ELSE Resting]
  /\ job' = [job EXCEPT ![w] = Idle]
  /\ UNCHANGED <<now, feed, faults, event, tables, models, checkpoint, batches>>

\* The schedule could not be read: the run ends and the cursor stays.
GiveUp(w) ==
  /\ work[w].stage = "collect" /\ job[w] = Idle
  /\ work' = [work EXCEPT ![w] = Resting]
  /\ UNCHANGED <<datasetVars, checkpoint, batches>>

\* persist_batch.  A batch of the same input is replayed; a taken sequence
\* fails the insert and rolls back.  Only columns that differ from the object
\* the session holds are written, so an unchanged status stays as the row has it.
PersistBatch(w) ==
  /\ work[w].stage = "persist"
  /\ LET held == work[w].held
         plan == work[w].plan
         values == [status |-> work[w].status,
                    cursor |-> [held.cursor EXCEPT ![plan.split] = work[w].after],
                    version |-> held.version + 1, batches |-> held.batches + 1]
         batch == [sequence |-> values.batches, input |-> plan, after |-> work[w].after,
                   answered |-> work[w].answered]
     IN IF \E b \in batches : b.input = plan \/ b.sequence = batch.sequence
        THEN UNCHANGED <<checkpoint, batches>>
        ELSE /\ batches' = batches \cup {batch}
             /\ checkpoint' = [checkpoint EXCEPT
                  !.status = IF values.status # held.status THEN values.status ELSE @,
                  !.cursor[plan.split] = work[w].after,
                  !.version = values.version,
                  !.batches = values.batches,
                  !.fingerprint = values]
  /\ work' = [work EXCEPT ![w] = Resting]
  /\ UNCHANGED datasetVars

\* A worker stops; the rows its finished stages stored stay.
Stop(w) ==
  /\ work[w] # Resting
  /\ Fault
  /\ work' = [work EXCEPT ![w] = Resting]
  /\ job' = [job EXCEPT ![w] = Idle]
  /\ UNCHANGED <<now, feed, event, tables, models, checkpoint, batches>>

-----------------------------------------------------------------------------
Init ==
  /\ DatasetInit
  /\ checkpoint = NoRow
  /\ batches = {}
  /\ work = [w \in Workers |-> Resting]

BatchStep(w) ==
  \/ Open(w)
  \/ Plan(w)
  \/ Finalize(w)
  \/ Review(w)
  \/ GiveUp(w)
  \/ PersistBatch(w)

DatasetStep ==
  \/ Tick
  \/ \E w \in Workers : JobStep(w)
  \/ \E w \in crew.collectors : work[w] = Resting /\
       \/ \E d \in HoldoutStart..MaxTime : StartProspective(w, d)
       \/ StartFit(w)
       \/ Crash(w)
  \/ \E v \in vectors : Label(v)

Next ==
  /\ \/ DatasetStep /\ UNCHANGED backfillVars
     \/ \E w \in Workers : BatchStep(w) \/ Stop(w)
  /\ UNCHANGED crew

Spec == Init /\ [][Next]_vars

\* The scheduled runs go on: a worker takes its next step, and a run that ended
\* without a terminal checkpoint is started again.
FairSpec ==
  /\ Spec
  /\ \A w \in Workers :
       /\ SF_vars(BatchStep(w) /\ UNCHANGED crew)
       /\ WF_vars(JobStep(w) /\ UNCHANGED <<backfillVars, crew>>)
=============================================================================
