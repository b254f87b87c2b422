------------------------- MODULE MlbBackfillProofs -------------------------
(***************************************************************************)
(* What is proved of the MLB dataset and its backfill, for any number of   *)
(* games, workers, days and minimum counts, and whatever changes and fails.*)
(***************************************************************************)
EXTENDS MlbBackfillProperties, NaturalInduction

(***************************************************************************)
(* Types of the rows, of the calls and of the batches.                     *)
(***************************************************************************)

FeedRows ==
  [start : Instants, final : BOOLEAN, winner : {"home", "away"}, postponed : BOOLEAN,
   posted : BOOLEAN]

Pages == Seq([game : Games, row : EventRows])
Listings == UNION {[S -> EventRows] : S \in SUBSET Games}

Drafts == {NoRow} \cup Listings \cup LineupRows \cup StatcastRows \cup VectorRows
Views == EventRows \cup {NoRow}
LineupsInHand == LineupRows \cup {NoRow}
GameSets == SUBSET Games
StatcastsInHand == StatcastRows \cup {NoRow}

CollectionRows ==
  [kind : {"prospective", "backfill"},
   stage : {"events", "select", "lineup", "statcast", "vector", "label"},
   reading : BOOLEAN, day : Int, offset : Nat, limit : Nat, todo : Pages,
   draft : Drafts, view : Views, lineup : LineupsInHand, statcast : StatcastsInHand,
   examined : GameSets, unavailable : GameSets, rolledBack : BOOLEAN]

LEMMA NothingInHand ==
  {} \in GameSets /\ NoRow \in Drafts /\ NoRow \in Views /\ NoRow \in LineupsInHand /\ NoRow \in StatcastsInHand
BY DEF Drafts, Views, LineupsInHand, StatcastsInHand, GameSets

JobRows == {Idle, [kind |-> "fit"]} \cup CollectionRows

LEMMA ListOfRows ==
  ASSUME NEW Rows, NEW n \in Nat, NEW list \in [1..n -> Rows]
  PROVE  list \in Seq(Rows)
OBVIOUS

LEMMA RowOfList ==
  ASSUME NEW Rows, NEW list \in Seq(Rows), NEW i \in DOMAIN list
  PROVE  list[i] \in Rows
OBVIOUS

LEMMA EntryOfPage ==
  ASSUME NEW page \in Pages, NEW i \in DOMAIN page
  PROVE  page[i].game \in Games /\ page[i].row \in EventRows
<1>1. page[i] \in [game : Games, row : EventRows]
  BY RowOfList DEF Pages
<1> QED
  BY <1>1

LEMMA RestOfPage ==
  ASSUME NEW page \in Pages, page # << >>
  PROVE  /\ 1 \in DOMAIN page /\ Head(page) = page[1] /\ Tail(page) \in Pages
         /\ \A i \in DOMAIN Tail(page) : i + 1 \in DOMAIN page /\ Tail(page)[i] = page[i + 1]
BY DEF Pages

LEMMA PageRows ==
  ASSUME NEW rows \in [Games -> EventRows \cup {NoRow}],
         NEW j, j.offset \in Nat, j.limit \in Nat
  PROVE  /\ Page(rows, j) \in Pages
         /\ \A i \in DOMAIN Page(rows, j) : rows[Page(rows, j)[i].game] \in EventRows
<1> DEFINE shown == {g \in Games : rows[g] # NoRow /\ rows[g].start = j.day}
           listed == SetToSeq(shown)
           last == IF j.offset + j.limit < Len(listed) THEN j.offset + j.limit ELSE Len(listed)
           page == [i \in 1..(last - j.offset) |->
                      [game |-> listed[j.offset + i], row |-> rows[listed[j.offset + i]]]]
<1>1. IsFiniteSet(shown)
  BY DatasetAssumption, FS_Subset
<1>2. PICK n \in Nat : n = Cardinality(shown) /\ ExistsBijection(1..n, shown)
  BY <1>1, FS_CardinalityType
<1> HIDE DEF shown
<1>3. listed \in [1..n -> shown]
  BY <1>2 DEF SetToSeq, ExistsBijection, Bijection, Injection
<1>4. \A g \in shown : g \in Games /\ rows[g] \in EventRows
  BY DEF shown
<1> HIDE DEF listed
<1>5. Len(listed) = n
  BY <1>3
<1>6. last \in Int /\ last <= n
  BY <1>5
<1> HIDE DEF last
<1>7. \A i \in 1..(last - j.offset) : listed[j.offset + i] \in shown
  BY <1>3, <1>6
<1>8. page \in [1..(last - j.offset) -> [game : Games, row : EventRows]]
  BY <1>4, <1>7
<1>9. page \in Pages
  <2>1. CASE last - j.offset \in Nat
    BY <1>8, <2>1, ListOfRows DEF Pages
  <2>2. CASE last - j.offset \notin Nat
    <3>1. 1..(last - j.offset) = 1..0
      BY <1>6, <2>2
    <3>2. page \in [1..0 -> [game : Games, row : EventRows]]
      BY <1>8, <3>1
    <3> HIDE DEF page
    <3> QED
      BY <3>2, ListOfRows DEF Pages
  <2> QED
    BY <2>1, <2>2
<1>10. \A i \in DOMAIN page : rows[page[i].game] \in EventRows
  BY <1>4, <1>7
<1>11. Page(rows, j) = page
  BY DEF Page, page, last, listed, shown
<1> HIDE DEF page
<1> QED
  BY <1>9, <1>10, <1>11

(***************************************************************************)
(* The canonical selection holds one eligible example of each game.        *)
(***************************************************************************)

LEMMA OutranksOrders ==
  /\ \A x \in ExampleRows : ~Outranks(x, x)
  /\ \A x, y, z \in ExampleRows : Outranks(x, y) /\ Outranks(y, z) => Outranks(x, z)
BY DatasetAssumption DEF Outranks, Newer, ExampleRows, VectorRows, Instants

LEMMA CanonicalRows ==
  ASSUME IsFiniteSet(examples), examples \subseteq ExampleRows
  PROVE  /\ Canonical \subseteq Eligible
         /\ \A x, y \in Canonical : x.game = y.game => x = y
<1> DEFINE Of(g) == {x \in Eligible : x.game = g}
           Best(g) == CHOOSE x \in Of(g) : \A y \in Of(g) : ~Outranks(y, x)
<1>1. ASSUME NEW e \in Eligible
      PROVE  Best(e.game) \in Of(e.game)
  <2> DEFINE S == Of(e.game)
             R == {pair \in S \X S : Outranks(pair[2], pair[1])}
  <2>1. IsFiniteSet(S) /\ S \subseteq ExampleRows /\ S # {}
    BY <1>1, FS_Subset DEF Eligible
  <2>2. \A x, y \in S : <<x, y>> \in R <=> Outranks(y, x)
    OBVIOUS
  <2> HIDE DEF R, S
  <2>3. \A x \in S : <<x, x>> \notin R
    BY <2>1, <2>2, OutranksOrders
  <2>4. \A x, y, z \in S : <<x, y>> \in R /\ <<y, z>> \in R => <<x, z>> \in R
    BY <2>1, <2>2, OutranksOrders
  <2>5. \E x \in S : \A y \in S : <<x, y>> \notin R
    BY <2>1, <2>3, <2>4, MaximalExists
  <2>6. \E x \in S : \A y \in S : ~Outranks(y, x)
    BY <2>2, <2>5
  <2> QED
    BY <2>6 DEF S
<1>2. Canonical = {Best(g) : g \in {x.game : x \in Eligible}}
  BY DEF Canonical
<1> HIDE DEF Best
<1>3. \A x \in Canonical : x \in Eligible /\ x = Best(x.game)
  BY <1>1, <1>2
<1> QED
  BY <1>3

(***************************************************************************)
(* The invariant.                                                          *)
(***************************************************************************)

Known(g) == event[g] \in EventRows

World ==
  /\ crew \in Crews /\ now \in Instants /\ faults \in 0..crew.faults
  /\ feed \in [Games -> FeedRows]
  /\ event \in [Games -> EventRows \cup {NoRow}]
  /\ \A g \in Games : Known(g) => event[g].seen <= now

\* What the audit asks of an example and its columns do not say already.
Audited(x) ==
  /\ x.vector \in vectors /\ x.vector.complete
  /\ x.start = x.vector.key.start /\ x.operational = x.vector.operational

Approved(rows) ==
  /\ \A s \in Exploratory : Count(rows, s) >= Minimum(s)
  /\ \A x, y \in rows : x.game = y.game => x = y
  /\ \A x \in rows : x.split # "prospective_holdout"

Tables ==
  /\ lineups \subseteq LineupRows /\ statcasts \subseteq StatcastRows
  /\ vectors \subseteq VectorRows /\ examples \subseteq ExampleRows
  /\ \A r \in lineups : Known(r.key.game)
  /\ \A r \in statcasts \cup vectors : Known(r.key.lineup.game)
  /\ IsFiniteSet(examples) /\ \A x \in examples : Audited(x)
  /\ \A rows \in models : rows \subseteq examples /\ Approved(rows)

\* What a call has in hand at each stage.
InHand(j) ==
  /\ \A i \in DOMAIN j.todo : Known(j.todo[i].game)
  /\ j.stage = "select" => j.reading
  /\ j.stage = "events" /\ ~j.reading =>
       j.draft \in Listings /\ \A g \in DOMAIN j.draft : j.draft[g].seen <= now
  /\ j.stage \in {"lineup", "statcast", "vector", "label"} =>
       j.todo # << >> /\ j.view \in EventRows
  /\ j.stage = "lineup" /\ ~j.reading => j.draft \in LineupRows /\ Known(j.draft.key.game)
  /\ j.stage \in {"statcast", "vector"} => j.lineup \in LineupRows /\ Known(j.lineup.key.game)
  /\ j.stage = "statcast" /\ ~j.reading =>
       j.draft \in StatcastRows /\ Known(j.draft.key.lineup.game)
  /\ j.stage = "vector" => j.statcast \in StatcastRows /\ Known(j.statcast.key.lineup.game)
  /\ j.stage = "vector" /\ ~j.reading =>
       j.draft \in VectorRows /\ Known(j.draft.key.lineup.game)
  /\ j.stage = "label" => j.draft \in vectors

JobFits(j) == j \in CollectionRows => InHand(j)

Jobs == job \in [Workers -> JobRows] /\ \A w \in Workers : JobFits(job[w])

Within(s, cursor) ==
  cursor \in Cursors /\ cursor.day \in (LowerBound(s) - 1)..UpperBound(s)

StateRows ==
  [status : Terminal \cup {"active"}, cursor : [Exploratory -> Cursors], version : Nat,
   batches : Nat]

Checkpoints ==
  {row \in [status : Terminal \cup {"active"}, cursor : [Exploratory -> Cursors],
            version : Nat, batches : Nat, fingerprint : StateRows] :
     \A s \in Exploratory : Within(s, row.cursor[s])}

Plans ==
  {plan \in [split : Exploratory, day : Int, offset : Nat, fingerprint : StateRows] :
     plan.day \in LowerBound(plan.split)..UpperBound(plan.split)}

WorkRows ==
  {Resting}
    \cup [stage : {"plan"}, held : Checkpoints, plan : {NoRow}]
    \cup [stage : {"finalize"}, held : Checkpoints, plan : Terminal]
    \cup [stage : {"collect"}, held : Checkpoints, plan : Plans]
    \cup {row \in [stage : {"persist"}, held : Checkpoints, plan : Plans, after : Cursors,
                   status : Terminal \cup {"active"}, answered : SUBSET Games] :
            Within(row.plan.split, row.after)}

Works ==
  /\ checkpoint \in Checkpoints \cup {NoRow}
  /\ work \in [Workers -> WorkRows]
  /\ \A w \in Workers : work[w] # Resting => checkpoint \in Checkpoints
  /\ BatchRows(batches)

IInv == World /\ Tables /\ Jobs /\ Works

(***************************************************************************)
(* What no step takes back.                                                *)
(***************************************************************************)

\* A row of the schedule stays a row, the clock does not go back, and vectors
\* are not deleted.
Growth ==
  /\ \A g \in Games : Known(g) => Known(g)'
  /\ now \in Int /\ now' \in Int /\ now <= now'
  /\ vectors \subseteq vectors'

LEMMA JobKeeps ==
  ASSUME Jobs, Growth, NEW v \in Workers, job'[v] = job[v]
  PROVE  JobFits(job[v])'
<1> PICK j : j = job[v]
  OBVIOUS
<1>1. SUFFICES ASSUME j \in CollectionRows PROVE InHand(job[v])'
  BY DEF JobFits
<1>2. InHand(j)
  BY <1>1 DEF Jobs, JobFits
<1>3. j.draft \in Listings /\ (\A g \in DOMAIN j.draft : j.draft[g].seen <= now)
        => \A g \in DOMAIN j.draft : j.draft[g].seen <= now'
  BY DatasetAssumption DEF Growth, Listings, EventRows, Instants
<1>4. \A i \in DOMAIN j.todo : j.todo[i].game \in Games
  BY <1>1, EntryOfPage DEF CollectionRows
<1>5. /\ \A r \in LineupRows : r.key.game \in Games
      /\ \A r \in StatcastRows \cup VectorRows : r.key.lineup.game \in Games
  BY DEF LineupRows, LineupKeys, StatcastRows, StatcastKeys, VectorRows
<1> QED
  BY <1>2, <1>3, <1>4, <1>5 DEF Growth, InHand

LEMMA OthersKeep ==
  ASSUME Jobs, Growth, NEW w \in Workers, job' \in [Workers -> JobRows],
         \A v \in Workers \ {w} : job'[v] = job[v], JobFits(job[w])'
  PROVE  Jobs'
BY JobKeeps DEF Jobs

LEMMA JobsKeep ==
  ASSUME Jobs, Growth, UNCHANGED job
  PROVE  Jobs'
BY JobKeeps DEF Jobs

LEMMA TablesKeep ==
  ASSUME Tables, Growth, UNCHANGED <<tables, models, vectors>>
  PROVE  Tables'
<1>1. /\ \A r \in LineupRows : r.key.game \in Games
      /\ \A r \in StatcastRows \cup VectorRows : r.key.lineup.game \in Games
  BY DEF LineupRows, LineupKeys, StatcastRows, StatcastKeys, VectorRows
<1>2. \A r \in lineups : Known(r.key.game)'
  BY <1>1 DEF Tables, Growth
<1>3. \A r \in statcasts \cup vectors : Known(r.key.lineup.game)'
  BY <1>1 DEF Tables, Growth
<1> QED
  BY <1>2, <1>3 DEF Tables, tables, Audited, Approved, Count

(***************************************************************************)
(* The clock, the sources and the local schedule.                          *)
(***************************************************************************)

LEMMA Collecting ==
  ASSUME Jobs, NEW w \in Workers, NEW stage, Stage(w, stage)
  PROVE  job[w] \in CollectionRows /\ InHand(job[w]) /\ job[w].stage = stage
BY DEF Jobs, JobRows, JobFits, Stage, Idle

LEMMA CrewTypes ==
  ASSUME World
  PROVE  /\ crew.changing \subseteq Games /\ crew.until \in Instants /\ crew.faults \in Nat
         /\ crew.collectors \subseteq Workers /\ crew.backfillers \subseteq Workers
BY DatasetAssumption DEF World, Instants

LEMMA InstantsAreNumbers ==
  MaxTime \in Nat /\ \A t \in Instants : t \in Nat /\ t \in Int /\ t <= MaxTime
BY DatasetAssumption DEF Instants

LEMMA FeedStep ==
  ASSUME World, Tick
  PROVE  now' \in Instants /\ now' = now + 1 /\ feed' \in [Games -> FeedRows]
<1>1. now' = now + 1 /\ now < crew.until
  BY DEF Tick
<1>2. now' \in Instants
  BY <1>1, CrewTypes, InstantsAreNumbers DEF World, Instants
<1>3. ASSUME NEW g \in Games, NEW f \in GameChanges(g, now + 1)
      PROVE  f \in FeedRows
  <2> PICK old \in FeedRows : old = feed[g]
    BY DEF World
  <2> QED
    BY <1>3 DEF GameChanges, FeedRows, Instants
<1>4. CASE UNCHANGED feed
  BY <1>1, <1>2, <1>4 DEF World
<1>5. CASE \E g \in crew.changing : \E f \in GameChanges(g, now + 1) : feed' = [feed EXCEPT ![g] = f]
  BY <1>1, <1>2, <1>3, <1>5, CrewTypes DEF World
<1> QED
  BY <1>1, <1>2, <1>4, <1>5 DEF Tick

LEMMA ScheduleStep ==
  ASSUME World, Jobs, NEW w \in Workers, PersistEvents(w)
  PROVE  /\ event' \in [Games -> EventRows \cup {NoRow}]
         /\ \A g \in Games : Known(g) => Known(g)'
         /\ \A g \in Games : Known(g)' => event'[g].seen <= now
<1> PICK fresh : fresh = job[w].draft
  OBVIOUS
<1>1. fresh \in Listings /\ \A g \in DOMAIN fresh : fresh[g].seen <= now
  BY Collecting DEF PersistEvents, InHand
<1>2. \A g \in DOMAIN fresh : g \in Games /\ fresh[g] \in EventRows
  BY <1>1 DEF Listings
<1>3. event' = [g \in Games |-> IF g \in DOMAIN fresh THEN fresh[g] ELSE event[g]]
  BY DEF PersistEvents, Upserted
<1> QED
  BY <1>1, <1>2, <1>3 DEF World, Known

LEMMA WorldStep ==
  ASSUME IInv, [Next]_vars
  PROVE  World' /\ Growth
<1> USE DEF IInv
<1>1. now \in Int /\ faults \in 0..crew.faults /\ crew.faults \in Nat
  BY CrewTypes, InstantsAreNumbers DEF World
<1>2. CASE UNCHANGED <<crew, now, feed, event, vectors>> /\ (UNCHANGED faults \/ Fault)
  BY <1>1, <1>2 DEF World, Growth, Known, Fault
<1>3. CASE Tick /\ UNCHANGED crew
  <2>1. now' \in Instants /\ now' = now + 1 /\ feed' \in [Games -> FeedRows]
    BY <1>3, FeedStep
  <2>2. UNCHANGED <<faults, event, vectors>>
    BY <1>3 DEF Tick, tables
  <2>3. \A g \in Games : Known(g) => event[g].seen \in Int
    <3>1. \A g \in Games : Known(g) => event[g].seen \in Instants
      BY DEF Known, EventRows
    <3> QED
      BY <3>1, InstantsAreNumbers
  <2> QED
    BY <1>1, <1>3, <2>1, <2>2, <2>3, InstantsAreNumbers DEF World, Growth, Known
<1>4. CASE \E w \in Workers : PersistEvents(w) /\ UNCHANGED crew
  <2>1. PICK w \in Workers : PersistEvents(w) /\ UNCHANGED crew
    BY <1>4
  <2>2. UNCHANGED <<now, feed, faults, vectors>>
    BY <2>1 DEF PersistEvents, tables
  <2>3. /\ event' \in [Games -> EventRows \cup {NoRow}]
        /\ \A g \in Games : Known(g) => Known(g)'
        /\ \A g \in Games : Known(g)' => event'[g].seen <= now
    BY <2>1, ScheduleStep
  <2> QED
    BY <1>1, <2>1, <2>2, <2>3 DEF World, Growth
<1>5. CASE \E w \in Workers : PersistVector(w) /\ UNCHANGED crew
  BY <1>1, <1>5 DEF PersistVector, World, Growth, Known
<1>6. CASE UNCHANGED vars
  BY <1>2, <1>6 DEF vars, datasetVars, tables
<1>7. CASE \E w \in Workers : (BatchStep(w) \/ Stop(w)) /\ UNCHANGED crew
  BY <1>2, <1>7 DEF BatchStep, Stop, Open, Plan, Finalize, Review, GiveUp, PersistBatch, datasetVars, tables
<1>8. CASE \E w \in Workers : JobStep(w) /\ UNCHANGED crew
  BY <1>2, <1>4, <1>5, <1>8
     DEF JobStep, FetchEvents, Select, Fetch, PersistLineup, PersistStatcast, LabelStage,
         FinishProspective, Fit, tables
<1>9. CASE \E v \in vectors : Label(v) /\ UNCHANGED crew
  BY <1>2, <1>9 DEF Label, tables
<1>11. ASSUME NEW w \in Workers, UNCHANGED crew,
              (\E d \in HoldoutStart..MaxTime : StartProspective(w, d)) \/ StartFit(w) \/ Crash(w)
       PROVE  World' /\ Growth
  BY <1>2, <1>11 DEF StartProspective, StartFit, Crash, tables
<1>10. CASE DatasetStep /\ UNCHANGED crew
  <2>1. CASE Tick
    BY <1>3, <1>10, <2>1
  <2>2. CASE \E w \in Workers : JobStep(w)
    BY <1>8, <1>10, <2>2
  <2>3. CASE \E v \in vectors : Label(v)
    BY <1>9, <1>10, <2>3
  <2>4. CASE \E w \in crew.collectors : \/ \E d \in HoldoutStart..MaxTime : StartProspective(w, d)
                                        \/ StartFit(w)
                                        \/ Crash(w)
    <3>1. crew.collectors \subseteq Workers
      BY CrewTypes
    <3> QED
      BY <1>10, <1>11, <2>4, <3>1, Zenon
  <2> QED
    BY <1>10, <2>1, <2>2, <2>3, <2>4, Zenon DEF DatasetStep
<1> QED
  BY <1>6, <1>7, <1>10 DEF Next

(***************************************************************************)
(* The steps of a call.                                                    *)
(***************************************************************************)

LEMMA MarkedRows ==
  ASSUME NEW j \in CollectionRows, NEW names \in GameSets
  PROVE  /\ [j EXCEPT !.rolledBack = TRUE] \in CollectionRows
         /\ [j EXCEPT !.rolledBack = TRUE].stage = j.stage /\ [j EXCEPT !.rolledBack = TRUE].todo = j.todo
         /\ [j EXCEPT !.unavailable = names] \in CollectionRows
         /\ [j EXCEPT !.unavailable = names].stage = j.stage
         /\ [j EXCEPT !.rolledBack = TRUE].reading = j.reading
         /\ [j EXCEPT !.unavailable = names].reading = j.reading
         /\ [j EXCEPT !.unavailable = names].todo = j.todo
<1>1. PICK back : back = [j EXCEPT !.rolledBack = TRUE]
  OBVIOUS
<1>2. PICK missed : missed = [j EXCEPT !.unavailable = names]
  OBVIOUS
<1>3. back \in CollectionRows /\ back.stage = j.stage /\ back.todo = j.todo /\ back.reading = j.reading
  BY <1>1 DEF CollectionRows
<1>4. missed \in CollectionRows /\ missed.stage = j.stage /\ missed.todo = j.todo /\ missed.reading = j.reading
  BY <1>2 DEF CollectionRows
<1> QED
  BY <1>1, <1>2, <1>3, <1>4

\* A game that is done with leaves the page as it was.
LEMMA NextEventRows ==
  ASSUME NEW j \in CollectionRows, j.todo # << >>,
         NEW k \in {NextEvent(j), Conflict(j), Unavailable(j)}
  PROVE  /\ k \in CollectionRows /\ k.stage = "select" /\ k.reading /\ k.todo = Tail(j.todo)
         /\ Head(j.todo) = j.todo[1] /\ 1 \in DOMAIN j.todo
         /\ \A i \in DOMAIN k.todo : i + 1 \in DOMAIN j.todo /\ k.todo[i] = j.todo[i + 1]
<1>1. j.todo \in Pages
  BY DEF CollectionRows
<1>2. /\ 1 \in DOMAIN j.todo /\ Head(j.todo) = j.todo[1] /\ Tail(j.todo) \in Pages
      /\ \A i \in DOMAIN Tail(j.todo) : i + 1 \in DOMAIN j.todo /\ Tail(j.todo)[i] = j.todo[i + 1]
  BY <1>1, RestOfPage
<1>3. j.todo[1].game \in Games
  BY <1>1, <1>2, EntryOfPage
<1> PICK rest \in Pages, g \in Games : rest = Tail(j.todo) /\ g = Head(j.todo).game
  BY <1>2, <1>3
<1>4. PICK examined, unavailable \in GameSets :
        examined = j.examined \cup {g} /\ unavailable = j.unavailable \cup {g}
  BY DEF CollectionRows, GameSets
<1>5. NextEvent(j) = [j EXCEPT !.stage = "select", !.reading = TRUE, !.draft = NoRow, !.lineup = NoRow,
                               !.statcast = NoRow, !.view = NoRow, !.todo = rest,
                               !.examined = examined]
  BY <1>4 DEF NextEvent
<1> PICK m : m = [j EXCEPT !.stage = "select", !.reading = TRUE, !.draft = NoRow, !.lineup = NoRow]
  OBVIOUS
<1> PICK n : n = [m EXCEPT !.statcast = NoRow, !.view = NoRow, !.todo = rest, !.examined = examined]
  OBVIOUS
<1>9. m \in CollectionRows /\ m.stage = "select" /\ m.reading = TRUE /\ m.unavailable = j.unavailable
  BY NothingInHand DEF CollectionRows
<1>6. /\ n \in CollectionRows /\ n.stage = "select" /\ n.reading = TRUE /\ n.todo = rest
      /\ n.unavailable = j.unavailable
  BY <1>9, NothingInHand DEF CollectionRows
<1>10. n = NextEvent(j)
  BY <1>5
<1>7. /\ Conflict(j) = [n EXCEPT !.rolledBack = TRUE]
      /\ Unavailable(j) = [n EXCEPT !.unavailable = unavailable]
  BY <1>4, <1>6, <1>10 DEF Conflict, Unavailable
<1>8. /\ Conflict(j) \in CollectionRows /\ Conflict(j).stage = "select" /\ Conflict(j).todo = rest
      /\ Conflict(j).reading = TRUE /\ Unavailable(j).reading = TRUE
      /\ Unavailable(j) \in CollectionRows /\ Unavailable(j).stage = "select" /\ Unavailable(j).todo = rest
  <2>1. n \in CollectionRows /\ unavailable \in GameSets
    BY <1>4, <1>6
  <2>2. /\ [n EXCEPT !.rolledBack = TRUE] \in CollectionRows
        /\ [n EXCEPT !.rolledBack = TRUE].stage = n.stage /\ [n EXCEPT !.rolledBack = TRUE].todo = n.todo
        /\ [n EXCEPT !.unavailable = unavailable] \in CollectionRows
        /\ [n EXCEPT !.unavailable = unavailable].stage = n.stage
        /\ [n EXCEPT !.rolledBack = TRUE].reading = n.reading
        /\ [n EXCEPT !.unavailable = unavailable].reading = n.reading
        /\ [n EXCEPT !.unavailable = unavailable].todo = n.todo
    BY <2>1, MarkedRows, Zenon
  <2> QED
    BY <1>6, <1>7, <2>2, Zenon
<1>11. k \in CollectionRows /\ k.stage = "select" /\ k.reading = TRUE /\ k.todo = rest
  BY <1>6, <1>8, <1>10, Zenon
<1> QED
  BY <1>2, <1>11

LEMMA NextEventStep ==
  ASSUME Jobs, Growth, NEW w \in Workers, job[w] \in CollectionRows, job[w].todo # << >>,
         job' = [job EXCEPT ![w] = job'[w]],
         job'[w] \in {NextEvent(job[w]), Conflict(job[w]), Unavailable(job[w])}
  PROVE  Jobs'
<1> PICK j \in CollectionRows : j = job[w]
  OBVIOUS
<1> PICK k : k = job'[w]
  OBVIOUS
<1>1. /\ k \in CollectionRows /\ k.stage = "select" /\ k.reading
      /\ \A i \in DOMAIN k.todo : i + 1 \in DOMAIN j.todo /\ k.todo[i] = j.todo[i + 1]
  BY NextEventRows
<1>2. \A i \in DOMAIN j.todo : Known(j.todo[i].game) /\ j.todo[i].game \in Games
  BY EntryOfPage DEF Jobs, JobFits, InHand, CollectionRows
<1>3. JobFits(job[w])'
  BY <1>1, <1>2 DEF JobFits, InHand, Growth
<1>4. job' \in [Workers -> JobRows] /\ \A v \in Workers \ {w} : job'[v] = job[v]
  BY <1>1 DEF Jobs, JobRows
<1> QED
  BY <1>3, <1>4, OthersKeep

\* A call that ends, or that is a fit, has nothing in hand.
LEMMA EmptyHanded ==
  ASSUME Jobs, Growth, NEW w \in Workers,
         job' = [job EXCEPT ![w] = Idle] \/ job' = [job EXCEPT ![w] = [kind |-> "fit"]]
  PROVE  Jobs'
<1>1. job' \in [Workers -> JobRows] /\ \A v \in Workers \ {w} : job'[v] = job[v]
  BY DEF Jobs, JobRows
<1>2. job'[w].kind \in {"idle", "fit"}
  BY DEF Jobs, Idle
<1>3. JobFits(job[w])'
  BY <1>2 DEF JobFits, CollectionRows
<1> QED
  BY <1>1, <1>3, OthersKeep

LEMMA NewJobStep ==
  ASSUME Jobs, Growth, NEW w \in Workers,
         NEW kind \in {"prospective", "backfill"}, NEW day \in Int, NEW offset \in Nat, NEW limit \in Nat,
         job' = [job EXCEPT ![w] = NewJob(kind, day, offset, limit)]
  PROVE  Jobs'
<1>1. << >> \in Pages
  BY DEF Pages
<1> PICK k : k = NewJob(kind, day, offset, limit)
  OBVIOUS
<1>2. /\ k \in CollectionRows /\ k.stage = "events" /\ k.reading = TRUE /\ k.todo = << >>
  BY <1>1, NothingInHand DEF NewJob, CollectionRows
<1>3. job' \in [Workers -> JobRows] /\ job'[w] = k /\ \A v \in Workers \ {w} : job'[v] = job[v]
  BY <1>2 DEF Jobs, JobRows
<1>4. JobFits(job[w])'
  BY <1>2, <1>3 DEF JobFits, InHand
<1> QED
  BY <1>3, <1>4, OthersKeep

LEMMA FirstGame ==
  ASSUME Jobs, NEW w \in Workers, job[w] \in CollectionRows, job[w].todo # << >>
  PROVE  /\ Head(job[w].todo) = job[w].todo[1]
         /\ Game(w) \in Games /\ Known(Game(w)) /\ event[Game(w)] \in EventRows
<1> PICK j \in CollectionRows : j = job[w]
  OBVIOUS
<1>1. j.todo \in Pages
  BY DEF CollectionRows
<1>2. 1 \in DOMAIN j.todo /\ Head(j.todo) = j.todo[1]
  BY <1>1, RestOfPage
<1>3. j.todo[1].game \in Games
  BY <1>1, <1>2, EntryOfPage
<1>4. Known(j.todo[1].game)
  BY <1>2 DEF Jobs, JobFits, InHand
<1> QED
  BY <1>2, <1>3, <1>4 DEF Game, Known

LEMMA DraftedRows ==
  ASSUME NEW j \in CollectionRows, NEW d \in Drafts
  PROVE  \E k \in CollectionRows :
           /\ k = [j EXCEPT !.reading = FALSE, !.draft = d]
           /\ k.stage = j.stage /\ k.reading = FALSE /\ k.draft = d
           /\ k.todo = j.todo /\ k.view = j.view /\ k.lineup = j.lineup /\ k.statcast = j.statcast
<1> PICK k : k = [j EXCEPT !.reading = FALSE, !.draft = d]
  OBVIOUS
<1>1. /\ k \in CollectionRows
      /\ k.stage = j.stage /\ k.reading = FALSE /\ k.draft = d
      /\ k.todo = j.todo /\ k.view = j.view /\ k.lineup = j.lineup /\ k.statcast = j.statcast
  BY DEF CollectionRows
<1> QED
  BY <1>1

\* A call that changes its row into one that fits.
LEMMA JobBecomes ==
  ASSUME Jobs, Growth, NEW w \in Workers, NEW k \in CollectionRows, job' = [job EXCEPT ![w] = k],
         InHand(k)'
  PROVE  Jobs'
<1>1. job' \in [Workers -> JobRows] /\ job'[w] = k /\ \A v \in Workers \ {w} : job'[v] = job[v]
  BY DEF Jobs, JobRows
<1>2. JobFits(job[w])'
  BY <1>1 DEF JobFits
<1> QED
  BY <1>1, <1>2, OthersKeep

LEMMA FetchEventsStep ==
  ASSUME World, Jobs, Growth, NEW w \in Workers, FetchEvents(w)
  PROVE  Jobs'
<1> DEFINE listing == [g \in {h \in Games : feed[h].start = job[w].day} |-> GameOf(g)]
<1>1. CASE job' = [job EXCEPT ![w] = Idle]
  BY <1>1, EmptyHanded
<1>2. CASE job' = [job EXCEPT ![w].reading = FALSE, ![w].draft = listing]
  <2> PICK j \in CollectionRows : j = job[w] /\ InHand(j) /\ j.stage = "events"
    BY Collecting DEF FetchEvents
  <2> PICK d : d = listing
    OBVIOUS
  <2>1. \A g \in Games : GameOf(g) \in EventRows /\ GameOf(g).seen = now
    <3>1. ASSUME NEW g \in Games PROVE GameOf(g) \in EventRows /\ GameOf(g).seen = now
      <4>1. feed[g] \in FeedRows /\ now \in Instants
        BY DEF World
      <4> QED
        BY <4>1 DEF GameOf, FeedRows, EventRows
    <3> QED
      BY <3>1
  <2>2. d \in Listings /\ \A g \in DOMAIN d : d[g].seen = now
    BY <2>1 DEF Listings
  <2>3. d \in Drafts
    BY <2>2 DEF Drafts
  <2>4. PICK k \in CollectionRows :
          /\ k = [j EXCEPT !.reading = FALSE, !.draft = d]
          /\ k.stage = j.stage /\ k.reading = FALSE /\ k.draft = d
          /\ k.todo = j.todo /\ k.view = j.view /\ k.lineup = j.lineup /\ k.statcast = j.statcast
    BY <2>3, DraftedRows, Zenon
  <2>5. \A i \in DOMAIN j.todo : Known(j.todo[i].game)'
    <3>1. \A i \in DOMAIN j.todo : Known(j.todo[i].game) /\ j.todo[i].game \in Games
      BY EntryOfPage DEF InHand, CollectionRows
    <3> QED
      BY <3>1 DEF Growth
  <2>6. InHand(k)'
    BY <2>2, <2>4, <2>5 DEF InHand, Growth
  <2>7. job' = [job EXCEPT ![w] = k]
    BY <1>2, <2>4 DEF Jobs
  <2> QED
    BY <2>4, <2>6, <2>7, JobBecomes
<1> QED
  BY <1>1, <1>2 DEF FetchEvents

LEMMA PersistEventsStep ==
  ASSUME World', Jobs, Growth, NEW w \in Workers, PersistEvents(w)
  PROVE  Jobs'
<1> PICK j \in CollectionRows : j = job[w]
  BY Collecting DEF PersistEvents
<1> PICK page : page = Page(event', j)
  OBVIOUS
<1>1. j.offset \in Nat /\ j.limit \in Nat
  BY DEF CollectionRows
<1>2. event' \in [Games -> EventRows \cup {NoRow}]
  BY DEF World
<1>3. page \in Pages /\ \A i \in DOMAIN page : event'[page[i].game] \in EventRows
  BY <1>1, <1>2, PageRows
<1> PICK k : k = [j EXCEPT !.stage = "select", !.reading = TRUE, !.draft = NoRow, !.todo = page]
  OBVIOUS
<1>4. k \in CollectionRows /\ k.stage = "select" /\ k.reading = TRUE /\ k.todo = page
  BY <1>3, NothingInHand DEF CollectionRows
<1>5. InHand(k)'
  BY <1>3, <1>4 DEF InHand, Known
<1>6. job' = [job EXCEPT ![w] = k]
  BY DEF PersistEvents, Jobs
<1> QED
  BY <1>4, <1>5, <1>6, JobBecomes

\* The games of a page stay known.
LEMMA PageKeeps ==
  ASSUME Growth, NEW j \in CollectionRows, InHand(j)
  PROVE  \A i \in DOMAIN j.todo : Known(j.todo[i].game)'
<1>1. \A i \in DOMAIN j.todo : Known(j.todo[i].game) /\ j.todo[i].game \in Games
  BY EntryOfPage DEF InHand, CollectionRows
<1> QED
  BY <1>1 DEF Growth

LEMMA SelectStep ==
  ASSUME Jobs, Growth, NEW w \in Workers, Select(w)
  PROVE  Jobs'
<1> PICK j \in CollectionRows : j = job[w] /\ InHand(j) /\ j.stage = "select" /\ j.todo # << >>
  BY Collecting DEF Select
<1> PICK seen : seen = event[Game(w)]
  OBVIOUS
<1>1. seen \in EventRows
  BY FirstGame
<1>2. seen \in Views
  BY <1>1 DEF Views
<1>3. CASE job' = [job EXCEPT ![w] = NextEvent(j)]
  <2>1. job'[w] = NextEvent(j)
    BY <1>3 DEF Jobs
  <2> QED
    BY <1>3, <2>1, NextEventStep
<1> PICK k : k = [j EXCEPT !.stage = "lineup", !.view = seen]
  OBVIOUS
<1>4. CASE job' = [job EXCEPT ![w] = k]
  <2>1. k \in CollectionRows /\ k.stage = "lineup" /\ k.reading = j.reading /\ k.todo = j.todo /\ k.view = seen
    BY <1>2 DEF CollectionRows
  <2>2. InHand(k)'
    BY <1>1, <2>1, PageKeeps DEF InHand
  <2> QED
    BY <1>4, <2>1, <2>2, JobBecomes
<1>5. job' = [job EXCEPT ![w] = IF Skipped(j, Head(j.todo).row) THEN NextEvent(j) ELSE k]
  BY DEF Select, Game
<1> QED
  BY <1>3, <1>4, <1>5

\* What a stage may make of what it has read.
LEMMA DraftTypes ==
  ASSUME World, NEW w \in Workers, NEW j \in CollectionRows, j = job[w], InHand(j),
         Game(w) \in Games, Known(Game(w))
  PROVE  /\ j.stage = "lineup" => LineupOf(Game(w)) \in LineupRows
         /\ j.stage = "statcast" => StatcastOf(View(w).start, j.lineup) \in StatcastRows
         /\ j.stage = "vector" => VectorOf(j.statcast) \in VectorRows
<1>1. now \in Instants /\ feed[Game(w)] \in FeedRows
  BY DEF World
<1>2. CASE j.stage = "lineup"
  BY <1>1, <1>2 DEF LineupOf, LineupRows, LineupKeys, FeedRows
<1>3. CASE j.stage = "statcast"
  <2>1. j.view.start \in Instants /\ j.lineup.key \in LineupKeys
    BY <1>3 DEF InHand, EventRows, LineupRows
  <2> PICK s : s = StatcastOf(View(w).start, j.lineup)
    OBVIOUS
  <2>2. s.key = [lineup |-> j.lineup.key, start |-> j.view.start] /\ s.at = now
    BY DEF StatcastOf, View
  <2>3. s.key \in StatcastKeys
    BY <2>1, <2>2 DEF StatcastKeys
  <2>4. s \in [key : StatcastKeys, at : Instants, operational : BOOLEAN]
    BY <1>1, <2>2, <2>3 DEF StatcastOf
  <2>6. s.operational <=> s.at < s.key.start
    <3>1. s.operational = (now < View(w).start)
      BY Zenon DEF StatcastOf
    <3>2. View(w).start = s.key.start
      BY <2>2 DEF View
    <3> QED
      BY <2>2, <3>1, <3>2, Zenon
  <2>5. s \in StatcastRows
    BY <2>4, <2>6 DEF StatcastRows
  <2> QED
    BY <1>3, <2>5
<1>4. CASE j.stage = "vector"
  <2> PICK s \in StatcastRows : s = j.statcast
    BY <1>4 DEF InHand
  <2>1. s.key \in StatcastKeys /\ s.at \in Instants /\ s.operational \in BOOLEAN
        /\ (s.operational <=> s.at < s.key.start)
    BY DEF StatcastRows
  <2>2. VectorOf(s) \in [key : StatcastKeys, at : Instants, sourceAt : Instants,
                         operational : BOOLEAN, complete : BOOLEAN]
    BY <1>1, <2>1 DEF VectorOf
  <2>3. VectorOf(s).operational => VectorOf(s).sourceAt < VectorOf(s).key.start
                                     /\ VectorOf(s).at < VectorOf(s).key.start
    BY <2>1 DEF VectorOf
  <2> QED
    BY <1>4, <2>2, <2>3 DEF VectorRows
<1> QED
  BY <1>2, <1>3, <1>4

LEMMA FetchStep ==
  ASSUME World, Jobs, Growth, NEW w \in Workers, Fetch(w)
  PROVE  Jobs'
<1> PICK j \in CollectionRows : j = job[w] /\ InHand(j)
  BY DEF Fetch, Jobs, JobRows, JobFits, Idle
<1>1. j.todo # << >> /\ j.stage \in {"lineup", "statcast", "vector"}
  BY DEF Fetch, InHand
<1> PICK g : g = Game(w)
  OBVIOUS
<1>2. g \in Games /\ Known(g)
  BY <1>1, FirstGame
<1>3. CASE job' = [job EXCEPT ![w] = Unavailable(j)]
  <2>1. job'[w] = Unavailable(j)
    BY <1>3 DEF Jobs
  <2> QED
    BY <1>1, <1>3, <2>1, NextEventStep
<1> PICK d : d = CASE j.stage = "lineup" -> LineupOf(g)
                   [] j.stage = "statcast" -> StatcastOf(View(w).start, j.lineup)
                   [] OTHER -> VectorOf(j.statcast)
  OBVIOUS
<1>4. CASE job' = [job EXCEPT ![w] = [j EXCEPT !.reading = FALSE, !.draft = d]]
  <2>1. /\ j.stage = "lineup" => d \in LineupRows /\ d.key.game = g
        /\ j.stage = "statcast" => d \in StatcastRows /\ d.key.lineup = j.lineup.key
        /\ j.stage = "vector" => d \in VectorRows /\ d.key = j.statcast.key
    BY <1>1, <1>2, DraftTypes DEF LineupOf, StatcastOf, VectorOf
  <2>2. d \in Drafts
    BY <1>1, <2>1 DEF Drafts
  <2>3. PICK k \in CollectionRows :
          /\ k = [j EXCEPT !.reading = FALSE, !.draft = d]
          /\ k.stage = j.stage /\ k.reading = FALSE /\ k.draft = d
          /\ k.todo = j.todo /\ k.view = j.view /\ k.lineup = j.lineup /\ k.statcast = j.statcast
    BY <2>2, DraftedRows, Zenon
  <2>4. /\ j.stage \in {"statcast", "vector"} => j.lineup.key.game \in Games
        /\ j.stage = "vector" => j.statcast.key.lineup.game \in Games
    BY DEF InHand, LineupRows, LineupKeys, StatcastRows, StatcastKeys
  <2>5. /\ Known(g)'
        /\ j.stage \in {"statcast", "vector"} => Known(j.lineup.key.game)'
        /\ j.stage = "vector" => Known(j.statcast.key.lineup.game)'
    BY <1>2, <2>4 DEF InHand, Growth
  <2>6. \A i \in DOMAIN k.todo : Known(k.todo[i].game)'
    BY <2>3, PageKeeps
  <2>7. InHand(k)'
    <3>1. CASE j.stage = "lineup"
      BY <1>1, <2>1, <2>3, <2>5, <2>6, <3>1 DEF InHand
    <3>2. CASE j.stage = "statcast"
      BY <1>1, <2>1, <2>3, <2>5, <2>6, <3>2 DEF InHand
    <3>3. CASE j.stage = "vector"
      BY <1>1, <2>1, <2>3, <2>5, <2>6, <3>3 DEF InHand
    <3> QED
      BY <1>1, <3>1, <3>2, <3>3
  <2> QED
    BY <1>4, <2>3, <2>7, JobBecomes
<1> QED
  BY <1>3, <1>4 DEF Fetch, Jobs

(***************************************************************************)
(* Storing what a stage has made.                                          *)
(***************************************************************************)

LEMMA StoredRow ==
  ASSUME NEW Rows, NEW table \in SUBSET Rows, NEW draft \in Rows
  PROVE  Stored(table, draft) \in Rows /\ Stored(table, draft).key = draft.key
BY DEF Stored

\* A snapshot that is appended is a row about a game the schedule knows.
LEMMA SnapshotsKeep ==
  ASSUME Tables, Growth, UNCHANGED <<examples, models>>,
         lineups' \subseteq LineupRows, statcasts' \subseteq StatcastRows, vectors' \subseteq VectorRows,
         \A r \in lineups' \ lineups : Known(r.key.game)',
         \A r \in (statcasts' \ statcasts) \cup (vectors' \ vectors) : Known(r.key.lineup.game)'
  PROVE  Tables'
<1>1. /\ \A r \in LineupRows : r.key.game \in Games
      /\ \A r \in StatcastRows \cup VectorRows : r.key.lineup.game \in Games
  BY DEF LineupRows, LineupKeys, StatcastRows, StatcastKeys, VectorRows
<1>2. \A r \in lineups' : Known(r.key.game)'
  BY <1>1 DEF Tables, Growth
<1>3. \A r \in statcasts' \cup vectors' : Known(r.key.lineup.game)'
  BY <1>1 DEF Tables, Growth
<1>4. \A x \in examples : Audited(x)'
  BY DEF Tables, Growth, Audited
<1> QED
  BY <1>2, <1>3, <1>4 DEF Tables, Approved, Count

LEMMA PersistLineupStep ==
  ASSUME Tables, Jobs, Growth, NEW w \in Workers, PersistLineup(w)
  PROVE  Tables' /\ Jobs'
<1> PICK j \in CollectionRows : j = job[w] /\ InHand(j) /\ j.stage = "lineup" /\ ~j.reading
  BY Collecting DEF PersistLineup
<1>1. j.todo # << >> /\ j.draft \in LineupRows /\ Known(j.draft.key.game) /\ j.view \in EventRows
  BY DEF InHand
<1> PICK row : row = Stored(lineups, j.draft)
  OBVIOUS
<1>2. row \in LineupRows /\ row.key = j.draft.key
  <2>1. lineups \in SUBSET LineupRows
    BY DEF Tables
  <2> QED
    BY <1>1, <2>1, StoredRow, Zenon
<1>3. row.key.game \in Games /\ Known(row.key.game)'
  BY <1>1, <1>2 DEF LineupRows, LineupKeys, Growth
<1>4. lineups' = lineups \cup {row} \/ UNCHANGED lineups
  BY DEF PersistLineup
<1>5. Tables'
  BY <1>2, <1>3, <1>4, SnapshotsKeep DEF PersistLineup, Tables
<1> PICK k : k = [j EXCEPT !.stage = "statcast", !.reading = TRUE, !.draft = NoRow, !.lineup = row]
  OBVIOUS
<1>6. job' = [job EXCEPT ![w] = k] \/ job' = [job EXCEPT ![w] = NextEvent(j)] \/ job' = [job EXCEPT ![w] = Conflict(j)]
  BY DEF PersistLineup, Jobs
<1>7. ASSUME job' = [job EXCEPT ![w] = k]
      PROVE  Jobs'
  <2>1. row \in LineupsInHand
    BY <1>2 DEF LineupsInHand
  <2>2. /\ k \in CollectionRows /\ k.stage = "statcast" /\ k.reading = TRUE /\ k.todo = j.todo
        /\ k.view = j.view /\ k.lineup = row
    BY <2>1, NothingInHand DEF CollectionRows
  <2>3. InHand(k)'
    BY <1>1, <1>2, <1>3, <2>2, PageKeeps DEF InHand
  <2> QED
    BY <1>7, <2>2, <2>3, JobBecomes
<1>8. ASSUME job' = [job EXCEPT ![w] = NextEvent(j)] \/ job' = [job EXCEPT ![w] = Conflict(j)]
      PROVE  Jobs'
  <2>1. job'[w] \in {NextEvent(j), Conflict(j)} /\ job' = [job EXCEPT ![w] = job'[w]]
    BY <1>8 DEF Jobs
  <2> QED
    BY <1>1, <2>1, NextEventStep
<1> QED
  BY <1>5, <1>6, <1>7, <1>8

LEMMA PersistStatcastStep ==
  ASSUME Tables, Jobs, Growth, NEW w \in Workers, PersistStatcast(w)
  PROVE  Tables' /\ Jobs'
<1> PICK j \in CollectionRows : j = job[w] /\ InHand(j) /\ j.stage = "statcast" /\ ~j.reading
  BY Collecting DEF PersistStatcast
<1>1. /\ j.todo # << >> /\ j.draft \in StatcastRows /\ Known(j.draft.key.lineup.game)
      /\ j.view \in EventRows /\ j.lineup \in LineupRows /\ Known(j.lineup.key.game)
  BY DEF InHand
<1> PICK row : row = Stored(statcasts, j.draft)
  OBVIOUS
<1>2. row \in StatcastRows /\ row.key = j.draft.key
  <2>1. statcasts \in SUBSET StatcastRows
    BY DEF Tables
  <2> QED
    BY <1>1, <2>1, StoredRow, Zenon
<1>3. Known(row.key.lineup.game)' /\ Known(j.lineup.key.game)'
  BY <1>1, <1>2 DEF StatcastRows, StatcastKeys, LineupRows, LineupKeys, Growth
<1>4. statcasts' = statcasts \cup {row} \/ UNCHANGED statcasts
  BY DEF PersistStatcast
<1>5. Tables'
  BY <1>2, <1>3, <1>4, SnapshotsKeep DEF PersistStatcast, Tables
<1> PICK k : k = [j EXCEPT !.stage = "vector", !.reading = TRUE, !.draft = NoRow, !.statcast = row]
  OBVIOUS
<1>6. job' = [job EXCEPT ![w] = k] \/ job' = [job EXCEPT ![w] = Conflict(j)]
  BY DEF PersistStatcast, Jobs
<1>7. ASSUME job' = [job EXCEPT ![w] = k]
      PROVE  Jobs'
  <2>1. row \in StatcastsInHand
    BY <1>2 DEF StatcastsInHand
  <2>2. /\ k \in CollectionRows /\ k.stage = "vector" /\ k.reading = TRUE /\ k.todo = j.todo
        /\ k.view = j.view /\ k.lineup = j.lineup /\ k.statcast = row
    BY <2>1, NothingInHand DEF CollectionRows
  <2>3. InHand(k)'
    BY <1>1, <1>2, <1>3, <2>2, PageKeeps DEF InHand
  <2> QED
    BY <1>7, <2>2, <2>3, JobBecomes
<1>8. ASSUME job' = [job EXCEPT ![w] = Conflict(j)]
      PROVE  Jobs'
  <2>1. job'[w] = Conflict(j)
    BY <1>8 DEF Jobs
  <2> QED
    BY <1>1, <1>8, <2>1, NextEventStep
<1> QED
  BY <1>5, <1>6, <1>7, <1>8

LEMMA PersistVectorStep ==
  ASSUME Tables, Jobs, Growth, NEW w \in Workers, PersistVector(w)
  PROVE  Tables' /\ Jobs'
<1> PICK j \in CollectionRows : j = job[w] /\ InHand(j) /\ j.stage = "vector" /\ ~j.reading
  BY Collecting DEF PersistVector
<1>1. j.todo # << >> /\ j.draft \in VectorRows /\ Known(j.draft.key.lineup.game) /\ j.view \in EventRows
  BY DEF InHand
<1> PICK row : row = Stored(vectors, j.draft)
  OBVIOUS
<1>2. row \in VectorRows /\ row.key = j.draft.key
  <2>1. vectors \in SUBSET VectorRows
    BY DEF Tables
  <2> QED
    BY <1>1, <2>1, StoredRow, Zenon
<1>3. Known(row.key.lineup.game)'
  BY <1>1, <1>2 DEF VectorRows, StatcastKeys, LineupKeys, Growth
<1>4. vectors' = vectors \cup {row} \/ UNCHANGED vectors
  BY DEF PersistVector
<1>5. Tables'
  BY <1>2, <1>3, <1>4, SnapshotsKeep DEF PersistVector, Tables
<1> PICK k : k = [j EXCEPT !.stage = "label", !.draft = row]
  OBVIOUS
<1>6. \/ vectors' = vectors \cup {row} /\ job' = [job EXCEPT ![w] = k]
      \/ job' = [job EXCEPT ![w] = NextEvent(j)]
      \/ job' = [job EXCEPT ![w] = Conflict(j)]
  BY DEF PersistVector, Jobs
<1>7. ASSUME vectors' = vectors \cup {row} /\ job' = [job EXCEPT ![w] = k]
      PROVE  Jobs'
  <2>1. row \in Drafts
    BY <1>2 DEF Drafts
  <2>2. k \in CollectionRows /\ k.stage = "label" /\ k.todo = j.todo /\ k.view = j.view /\ k.draft = row
    BY <2>1 DEF CollectionRows
  <2>3. InHand(k)'
    BY <1>1, <1>7, <2>2, PageKeeps DEF InHand
  <2> QED
    BY <1>7, <2>2, <2>3, JobBecomes
<1>8. ASSUME job' = [job EXCEPT ![w] = NextEvent(j)] \/ job' = [job EXCEPT ![w] = Conflict(j)]
      PROVE  Jobs'
  <2>1. job'[w] \in {NextEvent(j), Conflict(j)} /\ job' = [job EXCEPT ![w] = job'[w]]
    BY <1>8 DEF Jobs
  <2> QED
    BY <1>1, <2>1, NextEventStep
<1> QED
  BY <1>5, <1>6, <1>7, <1>8

(***************************************************************************)
(* Labels and fitted models.                                               *)
(***************************************************************************)

\* A label that is allowed is a row the audit accepts.
LEMMA LabelRow ==
  ASSUME World, Tables, NEW g \in Games, NEW v \in vectors, Known(g), LabelAllowed(g, v)
  PROVE  LabelOf(g, v) \in ExampleRows /\ Audited(LabelOf(g, v))
<1> PICK row \in EventRows : row = event[g] /\ row.seen <= now
  BY DEF World, Known
<1> PICK x : x = LabelOf(g, v)
  OBVIOUS
<1>1. v \in VectorRows /\ v.complete /\ row.seen >= v.key.start
  BY DEF Tables, LabelAllowed
<1>2. v.key.start \in Instants /\ v.operational \in BOOLEAN
  BY <1>1 DEF VectorRows, StatcastKeys
<1>3. /\ x.vector = v /\ x.start = v.key.start /\ x.operational = v.operational
      /\ x.split = AssignSplit(x.start) /\ x.seen = row.seen /\ x.at = now
  BY DEF LabelOf
<1>4. AssignSplit(v.key.start) \in Splits
  BY DatasetAssumption, <1>2, InstantsAreNumbers DEF AssignSplit, Splits
<1>5. x \in [vector : VectorRows, game : Games, start : Instants, operational : BOOLEAN,
             winner : {"home", "away"}, split : Splits, seen : Instants, at : Instants]
  BY <1>1, <1>2, <1>4 DEF LabelOf, EventRows, World
<1>6. x.seen >= x.start /\ x.at >= x.seen
  BY <1>1, <1>2, <1>3, InstantsAreNumbers DEF EventRows, World
<1>7. x \in ExampleRows
  BY <1>3, <1>5, <1>6 DEF ExampleRows
<1> QED
  BY <1>1, <1>3, <1>7 DEF Audited

LEMMA LabelsKeep ==
  ASSUME World, Tables, Growth, NEW g \in Games, NEW v \in vectors, Known(g), LabelAllowed(g, v),
         examples' = LabelsAfter(g, v), UNCHANGED <<lineups, statcasts, vectors, models>>
  PROVE  Tables'
<1> PICK x : x = LabelOf(g, v)
  OBVIOUS
<1>1. x \in ExampleRows /\ Audited(x)
  BY LabelRow
<1>2. examples' = examples \/ examples' = examples \cup {x}
  BY DEF LabelsAfter
<1>3. examples \subseteq examples' /\ IsFiniteSet(examples')
  BY <1>2, FS_AddElement DEF Tables
<1>4. examples' \subseteq ExampleRows /\ \A y \in examples' : Audited(y)'
  BY <1>1, <1>2 DEF Tables, Audited
<1>5. /\ \A r \in LineupRows : r.key.game \in Games
      /\ \A r \in StatcastRows \cup VectorRows : r.key.lineup.game \in Games
  BY DEF LineupRows, LineupKeys, StatcastRows, StatcastKeys, VectorRows
<1>6. /\ \A r \in lineups : Known(r.key.game)'
      /\ \A r \in statcasts \cup vectors : Known(r.key.lineup.game)'
  BY <1>5 DEF Tables, Growth
<1> QED
  BY <1>3, <1>4, <1>6 DEF Tables, Approved, Count

LEMMA LabelStageStep ==
  ASSUME World, Tables, Jobs, Growth, NEW w \in Workers, LabelStage(w)
  PROVE  Tables' /\ Jobs'
<1> PICK j \in CollectionRows : j = job[w] /\ InHand(j) /\ j.stage = "label"
  BY Collecting DEF LabelStage
<1>1. j.todo # << >> /\ j.draft \in vectors
  BY DEF InHand
<1> PICK g, v : g = Game(w) /\ v = j.draft
  OBVIOUS
<1>2. g \in Games /\ Known(g) /\ v \in vectors
  BY <1>1, FirstGame
<1>3. Tables'
  <2>1. CASE LabelAllowed(g, v)
    BY <1>2, <2>1, LabelsKeep DEF LabelStage
  <2>2. CASE ~LabelAllowed(g, v)
    BY <2>2, TablesKeep DEF LabelStage, tables
  <2> QED
    BY <2>1, <2>2
<1>4. job' = [job EXCEPT ![w] = NextEvent(j)]
  BY DEF LabelStage, Jobs
<1>5. job'[w] = NextEvent(j)
  BY <1>4 DEF Jobs
<1> QED
  BY <1>1, <1>3, <1>4, <1>5, NextEventStep

LEMMA LabelStep ==
  ASSUME World, Tables, Jobs, Growth, NEW v \in vectors, Label(v)
  PROVE  Tables' /\ Jobs'
<1> PICK g : g = v.key.lineup.game
  OBVIOUS
<1>1. g \in Games /\ Known(g)
  BY DEF Tables, VectorRows, StatcastKeys, LineupKeys
<1>2. Tables'
  BY <1>1, LabelsKeep DEF Label
<1>3. UNCHANGED job
  BY DEF Label
<1> QED
  BY <1>2, <1>3, JobsKeep

LEMMA FitStep ==
  ASSUME Tables, Jobs, Growth, NEW w \in Workers, Fit(w)
  PROVE  Tables' /\ Jobs'
<1> PICK rows : rows = FittingRows
  OBVIOUS
<1>1. /\ rows \subseteq examples
      /\ \A x, y \in rows : x.game = y.game => x = y
      /\ \A x \in rows : x.split # "prospective_holdout"
  BY CanonicalRows DEF Tables, FittingRows, Eligible
<1>2. models' = models \/ (models' = models \cup {rows} /\ ModelRowAllowed(rows))
  BY DEF Fit
<1>3. \A s \in models' : s \subseteq examples /\ Approved(s)
  BY <1>1, <1>2 DEF Tables, Approved, ModelRowAllowed
<1>4. UNCHANGED tables /\ job' = [job EXCEPT ![w] = Idle]
  BY DEF Fit
<1>5. Tables'
  <2>1. /\ \A r \in LineupRows : r.key.game \in Games
        /\ \A r \in StatcastRows \cup VectorRows : r.key.lineup.game \in Games
    BY DEF LineupRows, LineupKeys, StatcastRows, StatcastKeys, VectorRows
  <2>2. /\ \A r \in lineups : Known(r.key.game)'
        /\ \A r \in statcasts \cup vectors : Known(r.key.lineup.game)'
    BY <2>1 DEF Tables, Growth
  <2> QED
    BY <1>3, <1>4, <2>2 DEF Tables, tables, Audited, Approved, Count
<1> QED
  BY <1>4, <1>5, EmptyHanded

(***************************************************************************)
(* Every step of the dataset.                                              *)
(***************************************************************************)

LEMMA JobStepKeeps ==
  ASSUME World, Tables, Jobs, World', Growth, NEW w \in Workers, JobStep(w)
  PROVE  Tables' /\ Jobs'
<1>1. CASE FetchEvents(w)
  BY <1>1, FetchEventsStep, TablesKeep DEF FetchEvents, tables
<1>2. CASE PersistEvents(w)
  BY <1>2, PersistEventsStep, TablesKeep DEF PersistEvents, tables
<1>3. CASE Select(w)
  BY <1>3, SelectStep, TablesKeep DEF Select, tables
<1>4. CASE Fetch(w)
  BY <1>4, FetchStep, TablesKeep DEF Fetch, tables
<1>5. CASE PersistLineup(w)
  BY <1>5, PersistLineupStep
<1>6. CASE PersistStatcast(w)
  BY <1>6, PersistStatcastStep
<1>7. CASE PersistVector(w)
  BY <1>7, PersistVectorStep
<1>8. CASE LabelStage(w)
  BY <1>8, LabelStageStep
<1>9. CASE FinishProspective(w)
  BY <1>9, EmptyHanded, TablesKeep DEF FinishProspective, tables
<1>10. CASE Fit(w)
  BY <1>10, FitStep
<1> QED
  BY <1>1, <1>2, <1>3, <1>4, <1>5, <1>6, <1>7, <1>8, <1>9, <1>10 DEF JobStep

LEMMA DatasetStepKeeps ==
  ASSUME World, Tables, Jobs, World', Growth, DatasetStep
  PROVE  Tables' /\ Jobs'
<1>1. CASE Tick
  BY <1>1, JobsKeep, TablesKeep DEF Tick, tables
<1>2. CASE \E w \in Workers : JobStep(w)
  BY <1>2, JobStepKeeps
<1>3. CASE \E v \in vectors : Label(v)
  BY <1>3, LabelStep
<1>4. ASSUME NEW w \in Workers, NEW d \in HoldoutStart..MaxTime, StartProspective(w, d)
      PROVE  Tables' /\ Jobs'
  <2>1. d \in Int /\ Cardinality(Games) \in Nat
    BY DatasetAssumption, FS_CardinalityType
  <2>2. job' = [job EXCEPT ![w] = NewJob("prospective", d, 0, Cardinality(Games))]
    BY <1>4 DEF StartProspective
  <2>3. Jobs'
    BY <2>1, <2>2, NewJobStep
  <2> QED
    BY <1>4, <2>3, TablesKeep DEF StartProspective, tables
<1>5. ASSUME NEW w \in Workers, StartFit(w) \/ Crash(w)
      PROVE  Tables' /\ Jobs'
  BY <1>5, EmptyHanded, TablesKeep DEF StartFit, Crash, tables
<1>6. crew.collectors \subseteq Workers
  BY CrewTypes
<1> QED
  BY <1>1, <1>2, <1>3, <1>4, <1>5, <1>6, Zenon DEF DatasetStep

(***************************************************************************)
(* The checkpoint and the batches.                                         *)
(***************************************************************************)

LEMMA SplitBounds ==
  \A s \in Exploratory :
    /\ LowerBound(s) \in Int /\ UpperBound(s) \in Int /\ LowerBound(s) <= UpperBound(s)
    /\ SeasonStart <= LowerBound(s) /\ UpperBound(s) <= HoldoutStart - 1
    /\ SeasonStart \in Int /\ HoldoutStart \in Int
BY DatasetAssumption DEF LowerBound, UpperBound, Exploratory, Splits

LEMMA WantedIsExploratory == Wanted \in Exploratory
BY DEF Wanted, Exploratory, Splits

LEMMA CheckpointTypes ==
  ASSUME NEW row \in Checkpoints
  PROVE  /\ row.status \in Terminal \cup {"active"} /\ row.cursor \in [Exploratory -> Cursors]
         /\ row.version \in Nat /\ row.batches \in Nat /\ row.fingerprint \in StateRows
         /\ \A s \in Exploratory : Within(s, row.cursor[s])
         /\ CheckpointRow(row)
BY DEF Checkpoints, CheckpointRow, Within

LEMMA NewCheckpointRow == NewCheckpoint \in Checkpoints
<1> DEFINE first == [s \in Exploratory |-> [day |-> UpperBound(s), offset |-> 0]]
<1>1. \A s \in Exploratory : Within(s, first[s])
  BY SplitBounds DEF Within, Cursors
<1>2. first \in [Exploratory -> Cursors]
  BY <1>1 DEF Within
<1>3. NewCheckpoint = [status |-> "active", cursor |-> first, version |-> 0, batches |-> 0,
                       fingerprint |-> [status |-> "active", cursor |-> first, version |-> 0, batches |-> 0]]
  BY DEF NewCheckpoint
<1> HIDE DEF first
<1>4. [status |-> "active", cursor |-> first, version |-> 0, batches |-> 0] \in StateRows
  BY <1>2 DEF StateRows
<1> QED
  BY <1>1, <1>2, <1>3, <1>4 DEF Checkpoints

LEMMA PlanRows ==
  ASSUME NEW row \in Checkpoints, row.cursor[Wanted].day >= LowerBound(Wanted)
  PROVE  PlanOf(row) \in Plans /\ PlanOf(row).day \in Int /\ PlanOf(row).offset \in Nat
<1> PICK s \in Exploratory : s = Wanted
  BY WantedIsExploratory
<1>1. Within(s, row.cursor[s]) /\ row.fingerprint \in StateRows
  BY CheckpointTypes
<1>2. row.cursor[s].day \in LowerBound(s)..UpperBound(s) /\ row.cursor[s].offset \in Nat
  BY <1>1, SplitBounds DEF Within, Cursors
<1>3. PlanOf(row) = [split |-> s, day |-> row.cursor[s].day, offset |-> row.cursor[s].offset,
                     fingerprint |-> row.fingerprint]
  BY DEF PlanOf
<1> QED
  BY <1>1, <1>2, <1>3, SplitBounds DEF Plans

LEMMA CursorKeepsWithin ==
  ASSUME NEW plan \in Plans, NEW n
  PROVE  CursorAfter(plan, n) \in Cursors /\ Within(plan.split, CursorAfter(plan, n))
<1> PICK s \in Exploratory : s = plan.split /\ plan.day \in LowerBound(s)..UpperBound(s) /\ plan.offset \in Nat
  BY DEF Plans
<1>1. CursorAfter(plan, n) \in {[day |-> plan.day - 1, offset |-> 0],
                                [day |-> plan.day, offset |-> plan.offset + BatchLimit]}
  BY DEF CursorAfter
<1> QED
  BY <1>1, SplitBounds, BackfillAssumption DEF Cursors, Within

\* A worker whose batch becomes another one, while the stored rows stay.
LEMMA WorkBecomes ==
  ASSUME Works, NEW w \in Workers, NEW row \in WorkRows, work' = [work EXCEPT ![w] = row],
         UNCHANGED <<checkpoint, batches>>, row = Resting \/ checkpoint \in Checkpoints
  PROVE  Works'
BY DEF Works, BatchRows

LEMMA WorkTypes ==
  ASSUME Works, NEW w \in Workers
  PROVE  /\ work[w] # Resting => work[w].held \in Checkpoints /\ checkpoint \in Checkpoints
         /\ work[w].stage = "finalize" => work[w].plan \in Terminal
         /\ work[w].stage \in {"collect", "persist"} => work[w].plan \in Plans
         /\ work[w].stage = "persist" =>
              /\ work[w].after \in Cursors /\ Within(work[w].plan.split, work[w].after)
              /\ work[w].status \in Terminal \cup {"active"}
         /\ Resting.stage = "rest" /\ Resting \in WorkRows
<1> PICK row \in WorkRows : row = work[w]
  BY DEF Works
<1>1. CASE row = Resting
  BY <1>1 DEF Resting, WorkRows
<1>2. CASE row # Resting
  BY <1>2 DEF Works, WorkRows, Resting
<1> QED
  BY <1>1, <1>2

LEMMA OpenStep ==
  ASSUME Works, NEW w \in Workers, Open(w)
  PROVE  Works'
<1> PICK row : row = checkpoint'
  OBVIOUS
<1>1. row \in Checkpoints
  BY NewCheckpointRow DEF Open, Works
<1> PICK next : next = [stage |-> "plan", held |-> row, plan |-> NoRow]
  OBVIOUS
<1>2. next \in WorkRows
  BY <1>1 DEF WorkRows
<1>3. work' = [work EXCEPT ![w] = next] /\ UNCHANGED batches
  BY DEF Open
<1> QED
  BY <1>1, <1>2, <1>3 DEF Works, BatchRows

LEMMA PlanStep ==
  ASSUME Works, Jobs, Growth, NEW w \in Workers, Plan(w)
  PROVE  Works' /\ Jobs'
<1>1. work[w].stage = "plan" /\ work[w] # Resting
  BY DEF Plan, Resting
<1> PICK held \in Checkpoints : held = work[w].held
  BY <1>1, WorkTypes
<1> PICK old \in WorkRows : old = work[w]
  BY DEF Works
<1>2. work[w] = old /\ work \in [Workers -> WorkRows]
  BY DEF Works
<1>9. old \in [stage : {"plan"}, held : Checkpoints, plan : {NoRow}]
  BY <1>1 DEF WorkRows, Resting
<1>3. checkpoint \in Checkpoints /\ UNCHANGED <<checkpoint, batches>>
  BY <1>1 DEF Works, Plan
<1>4. CASE work' = [work EXCEPT ![w] = Resting] /\ UNCHANGED job
  BY <1>3, <1>4, WorkTypes, WorkBecomes, JobsKeep
<1>5. ASSUME NEW end \in Terminal, work' = [work EXCEPT ![w].stage = "finalize", ![w].plan = end], UNCHANGED job
      PROVE  Works' /\ Jobs'
  <2> PICK next : next = [old EXCEPT !.stage = "finalize", !.plan = end]
    OBVIOUS
  <2>1. next \in [stage : {"finalize"}, held : Checkpoints, plan : Terminal]
    BY <1>9
  <2>2. work' = [work EXCEPT ![w] = next]
    BY <1>2, <1>5
  <2>3. next \in WorkRows
    BY <2>1 DEF WorkRows
  <2> QED
    BY <1>3, <1>5, <2>2, <2>3, WorkBecomes, JobsKeep
<1>6. ASSUME held.cursor[Wanted].day >= LowerBound(Wanted),
             work' = [work EXCEPT ![w].stage = "collect", ![w].plan = PlanOf(held)],
             job' = [job EXCEPT ![w] = NewJob("backfill", PlanOf(held).day, PlanOf(held).offset, BatchLimit)]
      PROVE  Works' /\ Jobs'
  <2> PICK plan : plan = PlanOf(held)
    OBVIOUS
  <2>1. plan \in Plans /\ plan.day \in Int /\ plan.offset \in Nat
    BY <1>6, PlanRows
  <2> PICK next : next = [old EXCEPT !.stage = "collect", !.plan = plan]
    OBVIOUS
  <2>2. next \in [stage : {"collect"}, held : Checkpoints, plan : Plans]
    BY <1>9, <2>1
  <2>3. work' = [work EXCEPT ![w] = next]
    BY <1>2, <1>6
  <2>4. Works'
    <3>1. next \in WorkRows
      BY <2>2 DEF WorkRows
    <3> QED
      BY <1>3, <2>3, <3>1, WorkBecomes
  <2>5. BatchLimit \in Nat
    BY BackfillAssumption
  <2>6. Jobs'
    BY <1>6, <2>1, <2>5, NewJobStep
  <2> QED
    BY <2>4, <2>6
<1>7. held.cursor[Wanted].day < LowerBound(Wanted) \/ held.cursor[Wanted].day >= LowerBound(Wanted)
  BY CheckpointTypes, WantedIsExploratory, SplitBounds DEF Within, Cursors
<1>8. {"complete", "exhausted"} \subseteq Terminal
  BY DEF Terminal
<1> QED
  BY <1>4, <1>5, <1>6, <1>7, <1>8 DEF Plan

LEMMA FinalizeStep ==
  ASSUME Works, NEW w \in Workers, Finalize(w)
  PROVE  Works'
<1>1. work[w].stage = "finalize" /\ work[w] # Resting
  BY DEF Finalize, Resting
<1> PICK row, held \in Checkpoints, end \in Terminal : row = checkpoint /\ held = work[w].held /\ end = work[w].plan
  BY <1>1, WorkTypes
<1> PICK values : values = [StateOf(held) EXCEPT !.status = end, !.version = @ + 1]
  OBVIOUS
<1>2. values \in StateRows /\ values.version \in Nat
  <2> PICK state : state = StateOf(held)
    OBVIOUS
  <2>1. state \in StateRows
    BY CheckpointTypes DEF StateOf, StateRows
  <2> PICK version \in Nat : version = state.version + 1
    BY <2>1 DEF StateRows
  <2>2. values = [state EXCEPT !.status = end, !.version = version]
    OBVIOUS
  <2>3. end \in Terminal \cup {"active"}
    OBVIOUS
  <2> QED
    BY <2>1, <2>2, <2>3 DEF StateRows
<1>3. checkpoint' = [row EXCEPT !.status = end, !.version = values.version, !.fingerprint = values]
  BY DEF Finalize, Finalized
<1>4. checkpoint' \in Checkpoints
  BY <1>2, <1>3, CheckpointTypes DEF Checkpoints
<1>5. work' = [work EXCEPT ![w] = Resting] /\ UNCHANGED batches
  BY DEF Finalize, datasetVars
<1> QED
  BY <1>4, <1>5, WorkTypes DEF Works, BatchRows

LEMMA ReviewStep ==
  ASSUME Works, Jobs, Growth, NEW w \in Workers, Review(w)
  PROVE  Works' /\ Jobs'
<1>1. work[w].stage = "collect" /\ work[w] # Resting
  BY DEF Review, Resting
<1>2. checkpoint \in Checkpoints /\ work[w].held \in Checkpoints /\ work[w].plan \in Plans
  BY <1>1, WorkTypes
<1>3. job' = [job EXCEPT ![w] = Idle] /\ UNCHANGED <<checkpoint, batches>>
  BY DEF Review
<1> PICK plan \in Plans, seen \in Checkpoints :
      plan = work[w].plan /\ seen = IF job[w].rolledBack THEN checkpoint ELSE work[w].held
  BY <1>2
<1> PICK after : after = CursorAfter(plan, Cardinality(job[w].examined))
  OBVIOUS
<1> PICK status : status = IF ExploratoryReady THEN "complete"
                           ELSE IF after.day < LowerBound(plan.split) THEN "exhausted" ELSE "active"
  OBVIOUS
<1> PICK answered : answered = job[w].examined \ job[w].unavailable
  OBVIOUS
<1>4. after \in Cursors /\ Within(plan.split, after)
  BY CursorKeepsWithin
<1>5. status \in Terminal \cup {"active"}
  BY DEF Terminal
<1>6. answered \subseteq Games
  BY Collecting DEF Review, CollectionRows, GameSets
<1> PICK next : next = [stage |-> "persist", held |-> seen, plan |-> plan, after |-> after,
                        status |-> status, answered |-> answered]
  OBVIOUS
<1>7. next \in WorkRows
  BY <1>4, <1>5, <1>6 DEF WorkRows
<1>8. work' = [work EXCEPT ![w] = next] \/ work' = [work EXCEPT ![w] = Resting]
  BY DEF Review
<1>9. Works'
  BY <1>2, <1>3, <1>7, <1>8, WorkTypes, WorkBecomes
<1> QED
  BY <1>3, <1>9, EmptyHanded

LEMMA PersistBatchStep ==
  ASSUME Works, NEW w \in Workers, PersistBatch(w)
  PROVE  Works'
<1>1. work[w].stage = "persist" /\ work[w] # Resting
  BY DEF PersistBatch, Resting
<1> PICK row, held \in Checkpoints, plan \in Plans, after \in Cursors, status \in Terminal \cup {"active"} :
      /\ row = checkpoint /\ held = work[w].held /\ plan = work[w].plan
      /\ after = work[w].after /\ status = work[w].status /\ Within(plan.split, after)
  BY <1>1, WorkTypes
<1>2. plan.split \in Exploratory
  BY DEF Plans
<1> PICK values : values = [status |-> status, cursor |-> [held.cursor EXCEPT ![plan.split] = after],
                            version |-> held.version + 1, batches |-> held.batches + 1]
  OBVIOUS
<1>3. /\ values \in StateRows /\ values.version \in Nat /\ values.batches \in Nat \ {0}
  BY <1>2, CheckpointTypes DEF StateRows
<1> PICK batch : batch = [sequence |-> values.batches, input |-> plan, after |-> after, answered |-> work[w].answered]
  OBVIOUS
<1>4. work' = [work EXCEPT ![w] = Resting]
  BY DEF PersistBatch
<1>5. CASE UNCHANGED <<checkpoint, batches>>
  BY <1>4, <1>5, WorkTypes, WorkBecomes
<1> PICK kept : kept = IF values.status # held.status THEN values.status ELSE row.status
  OBVIOUS
<1> PICK cursor : cursor = [row.cursor EXCEPT ![plan.split] = after]
  OBVIOUS
<1>6. ASSUME ~\E b \in batches : b.input = plan \/ b.sequence = batch.sequence,
             batches' = batches \cup {batch},
             checkpoint' = [row EXCEPT !.status = kept, !.cursor = cursor, !.version = values.version,
                                       !.batches = values.batches, !.fingerprint = values]
      PROVE  Works'
  <2>1. cursor \in [Exploratory -> Cursors] /\ \A s \in Exploratory : Within(s, cursor[s])
    BY <1>2, CheckpointTypes
  <2>2. kept \in Terminal \cup {"active"}
    BY <1>3, CheckpointTypes DEF StateRows
  <2>3. checkpoint' \in Checkpoints
    <3>1. checkpoint' = [status |-> kept, cursor |-> cursor, version |-> values.version,
                         batches |-> values.batches, fingerprint |-> values]
      BY <1>6 DEF Checkpoints
    <3> QED
      BY <1>3, <2>1, <2>2, <3>1 DEF Checkpoints
  <2>4. BatchRows(batches')
    BY <1>2, <1>3, <1>6 DEF Works, BatchRows
  <2> QED
    BY <1>4, <2>3, <2>4, WorkTypes DEF Works, BatchRows
<1>7. \/ UNCHANGED <<checkpoint, batches>>
      \/ /\ ~\E b \in batches : b.input = plan \/ b.sequence = batch.sequence
         /\ batches' = batches \cup {batch}
         /\ checkpoint' = [row EXCEPT !.status = kept, !.cursor = cursor, !.version = values.version,
                                      !.batches = values.batches, !.fingerprint = values]
  BY DEF PersistBatch
<1> QED
  BY <1>5, <1>6, <1>7

LEMMA StopStep ==
  ASSUME Works, Jobs, Growth, NEW w \in Workers, Stop(w)
  PROVE  Works' /\ Jobs'
<1>1. work' = [work EXCEPT ![w] = Resting] /\ UNCHANGED <<checkpoint, batches>>
  BY DEF Stop
<1>2. job' = [job EXCEPT ![w] = Idle]
  BY DEF Stop
<1> QED
  BY <1>1, <1>2, WorkTypes, WorkBecomes, EmptyHanded

LEMMA RestStep ==
  ASSUME Works, NEW w \in Workers, GiveUp(w)
  PROVE  Works'
BY WorkTypes, WorkBecomes DEF GiveUp

LEMMA BackfillStepKeeps ==
  ASSUME Tables, Jobs, Works, Growth, NEW w \in Workers, BatchStep(w) \/ Stop(w)
  PROVE  Tables' /\ Jobs' /\ Works'
<1>1. UNCHANGED <<tables, models>>
  BY DEF BatchStep, Open, Plan, Finalize, Review, GiveUp, PersistBatch, Stop, datasetVars, tables
<1>2. Tables'
  BY <1>1, TablesKeep DEF tables
<1>3. CASE UNCHANGED job /\ (Open(w) \/ Finalize(w) \/ GiveUp(w) \/ PersistBatch(w))
  BY <1>2, <1>3, OpenStep, FinalizeStep, RestStep, PersistBatchStep, JobsKeep
<1>4. CASE Plan(w) \/ Review(w) \/ Stop(w)
  BY <1>2, <1>4, PlanStep, ReviewStep, StopStep
<1>5. Open(w) \/ Finalize(w) \/ GiveUp(w) \/ PersistBatch(w) => UNCHANGED job
  BY DEF Open, Finalize, GiveUp, PersistBatch, datasetVars
<1> QED
  BY <1>3, <1>4, <1>5 DEF BatchStep

(***************************************************************************)
(* The invariant holds.                                                    *)
(***************************************************************************)

LEMMA InitInvariant == Init => IInv
<1> SUFFICES ASSUME Init PROVE IInv
  OBVIOUS
<1> USE DEF Init, DatasetInit
<1>1. World
  <2>1. crew \in Crews /\ now \in Instants
    BY DatasetAssumption DEF Instants
  <2>2. faults \in 0..crew.faults
    BY DatasetAssumption
  <2>3. feed \in [Games -> FeedRows]
    <3>1. ASSUME NEW g \in Games PROVE feed[g] \in FeedRows
      <4>1. FirstStart[g] \in Instants /\ (FirstStart[g] < HoldoutStart) \in BOOLEAN
            /\ (g \notin crew.unposted) \in BOOLEAN
        BY DatasetAssumption DEF Instants
      <4> QED
        BY <4>1 DEF FeedRows
    <3> QED
      BY <3>1
  <2>4. event \in [Games -> EventRows \cup {NoRow}] /\ \A g \in Games : event[g] = NoRow
    OBVIOUS
  <2>5. \A g \in Games : Known(g) => event[g].seen <= now
    <3>1. ASSUME NEW g \in Games, Known(g) PROVE event[g].seen <= now
      BY <2>4, <3>1, RowsAssumption DEF Known
    <3> QED
      BY <3>1
  <2> QED
    BY <2>1, <2>2, <2>3, <2>4, <2>5 DEF World
<1>2. Tables
  BY FS_EmptySet DEF Tables
<1>3. Jobs
  <2>1. Idle \notin CollectionRows
    BY DEF Idle, CollectionRows
  <2> QED
    BY <2>1 DEF Jobs, JobRows, JobFits
<1>4. Works
  BY DEF Works, WorkRows, BatchRows
<1> QED
  BY <1>1, <1>2, <1>3, <1>4 DEF IInv

LEMMA NextInvariant == IInv /\ [Next]_vars => IInv'
<1> SUFFICES ASSUME IInv, [Next]_vars PROVE IInv'
  OBVIOUS
<1>1. World' /\ Growth
  BY WorldStep
<1>2. World /\ Tables /\ Jobs /\ Works
  BY DEF IInv
<1>3. CASE DatasetStep /\ UNCHANGED backfillVars
  <2>1. Tables' /\ Jobs'
    BY <1>1, <1>2, <1>3, DatasetStepKeeps
  <2>2. Works'
    BY <1>2, <1>3 DEF Works, backfillVars, BatchRows
  <2> QED
    BY <1>1, <2>1, <2>2 DEF IInv
<1>4. CASE \E w \in Workers : BatchStep(w) \/ Stop(w)
  BY <1>1, <1>2, <1>4, BackfillStepKeeps DEF IInv
<1>5. CASE UNCHANGED vars
  <2>1. Tables' /\ Jobs'
    BY <1>1, <1>2, <1>5, JobsKeep, TablesKeep DEF vars, datasetVars, tables
  <2>2. Works'
    BY <1>2, <1>5 DEF Works, vars, backfillVars, BatchRows
  <2> QED
    BY <1>1, <2>1, <2>2 DEF IInv
<1> QED
  BY <1>3, <1>4, <1>5 DEF Next

LEMMA InvariantImplies == IInv => TypeOK /\ DatasetPassesAudit /\ FittedModelsAreApproved
<1> SUFFICES ASSUME IInv PROVE TypeOK /\ DatasetPassesAudit /\ FittedModelsAreApproved
  OBVIOUS
<1> USE DEF IInv
<1>1. TypeOK
  <2>1. \A w \in Workers : job[w].kind \in {"idle", "prospective", "backfill", "fit"}
    <3>1. ASSUME NEW w \in Workers PROVE job[w].kind \in {"idle", "prospective", "backfill", "fit"}
      <4> PICK j \in JobRows : j = job[w]
        BY DEF Jobs
      <4> QED
        BY DEF JobRows, Idle, CollectionRows
    <3> QED
      BY <3>1
  <2>2. models \subseteq SUBSET examples
    BY DEF Tables
  <2>3. checkpoint = NoRow \/ CheckpointRow(checkpoint)
    BY CheckpointTypes DEF Works
  <2> QED
    BY <2>1, <2>2, <2>3 DEF TypeOK, World, Tables, Works, Audited
<1>2. DatasetPassesAudit
  <2>1. ASSUME NEW x \in Eligible PROVE QualityErrors(x) = {}
    <3>1. x \in ExampleRows /\ Audited(x) /\ x.vector \in VectorRows
      BY DEF Eligible, Tables, Audited
    <3>2. /\ x.split = AssignSplit(x.start) /\ x.seen >= x.start /\ x.at >= x.seen
          /\ x.seen \in Int /\ x.start \in Int /\ x.at \in Int
      BY <3>1, InstantsAreNumbers DEF ExampleRows
    <3>3. /\ x.operational => x.vector.sourceAt < x.start /\ x.vector.at < x.start
          /\ x.vector.sourceAt \in Int /\ x.vector.at \in Int
      BY <3>1, InstantsAreNumbers DEF VectorRows, Audited
    <3>4. x.operational \/ x.split # "prospective_holdout"
      BY DEF Eligible
    <3>5. x.vector.complete = TRUE /\ x.vector.operational = x.operational /\ x.operational \in BOOLEAN
      BY <3>1 DEF Audited, VectorRows, ExampleRows
    <3>6. ASSUME NEW code \in QualityErrors(x) PROVE FALSE
      <4>1. CASE code = "split_assignment_mismatch"
        BY <3>2, <3>6, <4>1 DEF QualityErrors
      <4>2. CASE code = "incomplete_feature_vector"
        BY <3>5, <3>6, <4>2 DEF QualityErrors
      <4>3. CASE code = "retrospective_prospective_holdout"
        BY <3>2, <3>4, <3>6, <4>3 DEF QualityErrors
      <4>4. CASE code = "operational_timing_violation"
        BY <3>3, <3>2, <3>6, <4>4 DEF QualityErrors
      <4>5. CASE code = "operational_eligibility_mismatch"
        BY <3>3, <3>5, <3>6, <4>5 DEF QualityErrors
      <4>6. CASE code = "outcome_timing_violation"
        <5>1. x.seen < x.start
          BY <3>6, <4>6 DEF QualityErrors
        <5> QED
          BY <3>2, <5>1
      <4>7. CASE code = "label_timing_violation"
        <5>1. x.at < x.seen
          BY <3>6, <4>7 DEF QualityErrors
        <5> QED
          BY <3>2, <5>1
      <4> QED
        BY <3>6, <4>1, <4>2, <4>3, <4>4, <4>5, <4>6, <4>7 DEF QualityErrors
    <3> QED
      BY <3>6
  <2> QED
    BY <2>1 DEF DatasetPassesAudit
<1>3. FittedModelsAreApproved
  BY DEF FittedModelsAreApproved, Tables, Approved
<1> QED
  BY <1>1, <1>2, <1>3

(***************************************************************************)
(* No game is passed over.                                                 *)
(***************************************************************************)

Scheduled(d) == {g \in Games : FirstStart[g] = d}
Listed(d) == {g \in Games : event[g] # NoRow /\ event[g].start = d}

\* What pages by offset ask of the schedule.  A steady day keeps the games it had at
\* first; any other day has never a page full of them.
Pageable(steady) ==
  /\ \A d \in steady : {g \in Games : feed[g].start = d} = Scheduled(d)
  /\ \A d \in Int \ steady : Cardinality(Listed(d)) < BatchLimit

\* A game that leaves its first day does not come back to it.
NoReturn == \A g \in Games : feed[g].start # FirstStart[g] => feed'[g].start # FirstStart[g]

Kept(g) == feed[g].start = FirstStart[g]

\* The order in which the games of a steady day are listed.
Order(d) == SetToSeq(Scheduled(d))

Agrees(steady, g, t) ==
  /\ Kept(g) => t = FirstStart[g]
  /\ t \in steady => t = FirstStart[g]

Rows(steady) == \A g \in Games : Known(g) => Agrees(steady, g, event[g].start)

Drafted(steady, j) ==
  j.stage = "events" =>
    /\ j.examined = {}
    /\ ~j.reading =>
         /\ \A g \in Games : g \in DOMAIN j.draft => j.draft[g].start = j.day /\ Agrees(steady, g, j.day)
         /\ \A g \in Games : Kept(g) /\ FirstStart[g] = j.day => g \in DOMAIN j.draft

OnPage(j, g) == g \in j.examined \/ \E i \in DOMAIN j.todo : j.todo[i].game = g

\* A game of the day is on the page, or the day is steady and the game is before or
\* behind the page.  A page of any other day is not full.
Paged(steady, j) ==
  j.kind = "backfill" /\ j.stage # "events" =>
    /\ \A g \in Games : Kept(g) /\ FirstStart[g] = j.day =>
         \/ OnPage(j, g)
         \/ /\ j.day \in steady
            /\ \E i \in DOMAIN Order(j.day) :
                 Order(j.day)[i] = g /\ (i <= j.offset \/ i > j.offset + j.limit)
    /\ j.day \notin steady =>
         \E S \in SUBSET Games : Cardinality(S) < j.limit /\ \A g \in Games : OnPage(j, g) => g \in S

CallFits(steady, j) == j \in CollectionRows => Drafted(steady, j) /\ Paged(steady, j)

Calls(steady) ==
  \A w \in Workers : CallFits(steady, job[w])

\* A backfill call works on the plan of its batch, and no other call runs in a batch.
Paired(j, row) ==
  /\ j.kind = "backfill" =>
       /\ row.stage = "collect" /\ j.day = row.plan.day
       /\ j.offset = row.plan.offset /\ j.limit = BatchLimit
  /\ j.kind \in {"prospective", "fit"} => row = Resting

\* A cursor has passed what is later than its day or listed before its offset.
Passed(steady, cursor, g) ==
  \/ FirstStart[g] > cursor.day
  \/ /\ FirstStart[g] = cursor.day /\ cursor.day \in steady
     /\ \E i \in DOMAIN Order(cursor.day) : Order(cursor.day)[i] = g /\ i <= cursor.offset

Asked(s, g) == LowerBound(s) <= FirstStart[g] /\ FirstStart[g] <= UpperBound(s)
Answered(s, g) == \E b \in batches : b.input.split = s /\ g \in b.answered

Honest(steady, s, cursor) ==
  /\ cursor.day \notin steady => cursor.offset = 0
  /\ \A g \in Games : Kept(g) /\ Asked(s, g) /\ Passed(steady, cursor, g) => Answered(s, g)

HonestRow(steady, row) == \A s \in Exploratory : Honest(steady, s, row.cursor[s])

Covers(steady, plan, after, answered) ==
  /\ after.day \notin steady => after.offset = 0
  /\ \A g \in Games : Kept(g) /\ Passed(steady, after, g) => Passed(steady, plan, g) \/ g \in answered

Trusted(steady, row) ==
  /\ row # Resting => HonestRow(steady, row.held)
  /\ row.stage \in {"collect", "persist"} => Honest(steady, row.plan.split, row.plan)
  /\ row.stage = "persist" => Covers(steady, row.plan, row.after, row.answered)

\* There is a checkpoint, or a worker has opened one.
Started == checkpoint # NoRow \/ \E w \in Workers : work[w] # Resting

Accounted(steady) ==
  /\ Started => HonestRow(steady, checkpoint)
  /\ \A w \in Workers : Trusted(steady, work[w]) /\ Paired(job[w], work[w])

PassInv(steady) == Rows(steady) /\ Calls(steady) /\ Accounted(steady)

\* Games leave their first day and do not return, and batches are not deleted.
Onward == (\A g \in Games : Kept(g)' => Kept(g)) /\ batches \subseteq batches'

\* A list of the n members of a set, each of them once.
Enumerates(list, S, n) ==
  /\ n \in Nat /\ DOMAIN list = 1..n /\ Len(list) = n
  /\ \A i \in 1..n : list[i] \in S
  /\ \A i, k \in 1..n : list[i] = list[k] => i = k
  /\ \A x \in S : \E i \in 1..n : list[i] = x

LEMMA Listing ==
  ASSUME NEW S, IsFiniteSet(S)
  PROVE  Enumerates(SetToSeq(S), S, Cardinality(S))
<1> PICK n \in Nat : n = Cardinality(S) /\ ExistsBijection(1..n, S)
  BY FS_CardinalityType
<1> PICK list : list = SetToSeq(S)
  OBVIOUS
<1>1. list \in [1..n -> S] /\ IsInjective(list)
  BY DEF SetToSeq, ExistsBijection, Bijection, Injection
<1>2. list \in Injection(1..n, S)
  BY <1>1 DEF Injection
<1>3. Cardinality(1..n) = n
  BY FS_Interval
<1>4. list \in Surjection(1..n, S)
  BY <1>2, <1>3, FS_Injection
<1>5. Len(list) = n
  BY <1>1
<1> QED
  BY <1>1, <1>4, <1>5 DEF IsInjective, Surjection, Enumerates

LEMMA OnwardStep ==
  ASSUME [Next]_vars, [NoReturn]_feed
  PROVE  Onward
<1>1. batches \subseteq batches'
  BY DEF Next, DatasetStep, backfillVars, vars, BatchStep, Open, Plan, Finalize, Review, GiveUp,
         PersistBatch, Stop
<1>2. \A g \in Games : Kept(g)' => Kept(g)
  BY DEF NoReturn, Kept
<1> QED
  BY <1>1, <1>2 DEF Onward

LEMMA HonestKeeps ==
  ASSUME Onward, NEW steady, NEW s, NEW cursor, Honest(steady, s, cursor)
  PROVE  Honest(steady, s, cursor)'
BY DEF Onward, Honest, Asked, Passed, Answered

LEMMA RowKeeps ==
  ASSUME Onward, NEW steady, NEW row, HonestRow(steady, row)
  PROVE  HonestRow(steady, row)'
BY HonestKeeps DEF HonestRow

LEMMA TrustKeeps ==
  ASSUME Onward, NEW steady, NEW row, Trusted(steady, row)
  PROVE  Trusted(steady, row)'
<1>1. row.stage = "persist" => Covers(steady, row.plan, row.after, row.answered)'
  BY DEF Trusted, Covers, Onward, Passed
<1>2. row # Resting => HonestRow(steady, row.held)'
  BY RowKeeps DEF Trusted
<1>3. row.stage \in {"collect", "persist"} => Honest(steady, row.plan.split, row.plan)'
  BY HonestKeeps DEF Trusted
<1> QED
  BY <1>1, <1>2, <1>3 DEF Trusted

LEMMA CallKeeps ==
  ASSUME Onward, NEW steady, NEW j
  PROVE  /\ Drafted(steady, j) => Drafted(steady, j)'
         /\ Paged(steady, j) => Paged(steady, j)'
<1>1. Drafted(steady, j) => Drafted(steady, j)'
  BY DEF Onward, Drafted, Agrees
<1>2. Paged(steady, j) => Paged(steady, j)'
  BY DEF Onward, Paged
<1> QED
  BY <1>1, <1>2

\* A call that goes on in its page.
SamePage(j, k) ==
  /\ k \in CollectionRows /\ k.kind = j.kind /\ k.day = j.day /\ k.offset = j.offset
  /\ k.limit = j.limit /\ k.stage # "events"
  /\ \A g \in Games : OnPage(k, g) <=> OnPage(j, g)

LEMMA SameMarked ==
  ASSUME NEW j \in CollectionRows, j.stage # "events", NEW names \in GameSets
  PROVE  /\ SamePage(j, [j EXCEPT !.rolledBack = TRUE])
         /\ SamePage(j, [j EXCEPT !.unavailable = names])
<1>1. PICK back : back = [j EXCEPT !.rolledBack = TRUE]
  OBVIOUS
<1>2. PICK missed : missed = [j EXCEPT !.unavailable = names]
  OBVIOUS
<1>3. SamePage(j, back)
  BY <1>1 DEF CollectionRows, SamePage, OnPage
<1>4. SamePage(j, missed)
  BY <1>2 DEF CollectionRows, SamePage, OnPage
<1> QED
  BY <1>1, <1>2, <1>3, <1>4

LEMMA SameNext ==
  ASSUME NEW j \in CollectionRows, j.todo # << >>,
         NEW k \in {NextEvent(j), Conflict(j), Unavailable(j)}
  PROVE  SamePage(j, k)
<1>1. j.todo \in Pages
  BY DEF CollectionRows
<1>2. /\ 1 \in DOMAIN j.todo /\ Head(j.todo) = j.todo[1] /\ Tail(j.todo) \in Pages
      /\ \A i \in DOMAIN Tail(j.todo) : i + 1 \in DOMAIN j.todo /\ Tail(j.todo)[i] = j.todo[i + 1]
  BY <1>1, RestOfPage
<1>3. j.todo[1].game \in Games
  BY <1>1, <1>2, EntryOfPage
<1> PICK rest \in Pages, first \in Games : rest = Tail(j.todo) /\ first = j.todo[1].game
  BY <1>2, <1>3
<1>4. \A i \in DOMAIN j.todo : i # 1 => \E n \in DOMAIN rest : rest[n] = j.todo[i]
  <2>1. ASSUME NEW page \in Seq([game : Games, row : EventRows]), page # << >>,
               NEW i \in DOMAIN page, i # 1
        PROVE  i - 1 \in DOMAIN Tail(page) /\ Tail(page)[i - 1] = page[i]
    BY <2>1
  <2> QED
    BY <1>1, <2>1 DEF Pages
<1>5. PICK examined, unavailable \in GameSets :
        examined = j.examined \cup {first} /\ unavailable = j.unavailable \cup {first}
  BY DEF CollectionRows, GameSets
<1> PICK m : m = [j EXCEPT !.stage = "select", !.reading = TRUE, !.draft = NoRow, !.lineup = NoRow]
  OBVIOUS
<1> PICK n : n = [m EXCEPT !.statcast = NoRow, !.view = NoRow, !.todo = rest, !.examined = examined]
  OBVIOUS
<1>6. /\ m \in CollectionRows /\ m.kind = j.kind /\ m.day = j.day /\ m.offset = j.offset
      /\ m.limit = j.limit /\ m.stage = "select" /\ m.unavailable = j.unavailable
  BY NothingInHand DEF CollectionRows
<1>7. /\ n \in CollectionRows /\ n.kind = j.kind /\ n.day = j.day /\ n.offset = j.offset
      /\ n.limit = j.limit /\ n.stage = "select" /\ n.unavailable = j.unavailable
      /\ n.todo = rest /\ n.examined = examined
  BY <1>6, NothingInHand DEF CollectionRows
<1>8. \A g \in Games : OnPage(n, g) <=> OnPage(j, g)
  <2>1. ASSUME NEW g \in Games, OnPage(n, g) PROVE OnPage(j, g)
    BY <1>2, <1>5, <1>7, <2>1 DEF OnPage
  <2>2. ASSUME NEW g \in Games, OnPage(j, g) PROVE OnPage(n, g)
    BY <1>4, <1>5, <1>7, <2>2 DEF OnPage
  <2> QED
    BY <2>1, <2>2
<1>9. SamePage(j, n)
  BY <1>7, <1>8 DEF SamePage
<1>10. n = NextEvent(j)
  BY <1>2, <1>5 DEF NextEvent
<1>11. /\ Conflict(j) = [n EXCEPT !.rolledBack = TRUE]
       /\ Unavailable(j) = [n EXCEPT !.unavailable = unavailable]
  BY <1>2, <1>5, <1>7, <1>10 DEF Conflict, Unavailable
<1>12. /\ SamePage(n, [n EXCEPT !.rolledBack = TRUE])
       /\ SamePage(n, [n EXCEPT !.unavailable = unavailable])
  BY <1>5, <1>7, SameMarked
<1>13. ASSUME NEW o, SamePage(n, o) PROVE SamePage(j, o)
  BY <1>9, <1>13 DEF SamePage
<1>14. SamePage(n, Conflict(j)) /\ SamePage(n, Unavailable(j))
  BY <1>11, <1>12
<1>15. SamePage(j, Conflict(j)) /\ SamePage(j, Unavailable(j))
  BY <1>13, <1>14
<1> QED
  BY <1>9, <1>10, <1>15

\* Once its page is read a call stays in it until it ends.
LEMMA PageGoesOn ==
  ASSUME IInv, NEW w \in Workers, JobStep(w), IInv', job[w] \in CollectionRows, job[w].stage # "events"
  PROVE  job'[w] = Idle \/ SamePage(job[w], job'[w])
<1> PICK j \in CollectionRows : j = job[w] /\ InHand(j) /\ j.stage # "events"
  BY DEF IInv, Jobs, JobFits
<1> PICK k : k = job'[w]
  OBVIOUS
<1>0. job \in [Workers -> JobRows] /\ job' \in [Workers -> JobRows]
  BY DEF IInv, Jobs
<1>1. ASSUME k \in {NextEvent(j), Conflict(j), Unavailable(j)}, j.todo # << >>
      PROVE  SamePage(j, k)
  BY <1>1, SameNext
<1>2. ASSUME k \in CollectionRows, k.kind = j.kind, k.day = j.day, k.offset = j.offset,
             k.limit = j.limit, k.stage # "events", k.todo = j.todo, k.examined = j.examined
      PROVE  SamePage(j, k)
  BY <1>2 DEF SamePage, OnPage
<1>3. k.kind = j.kind => k \in CollectionRows
  BY <1>0 DEF JobRows, CollectionRows, Idle
<1>4. CASE Select(w)
  <2> PICK seen : seen = event[Game(w)]
    OBVIOUS
  <2> PICK m : m = [j EXCEPT !.stage = "lineup", !.view = seen]
    OBVIOUS
  <2>1. k = NextEvent(j) \/ k = m
    BY <1>0, <1>4 DEF Select, Game
  <2>2. m.kind = j.kind /\ m.day = j.day /\ m.offset = j.offset /\ m.limit = j.limit
        /\ m.stage = "lineup" /\ m.todo = j.todo /\ m.examined = j.examined
    BY DEF CollectionRows
  <2> QED
    BY <1>1, <1>2, <1>3, <1>4, <2>1, <2>2 DEF Select
<1>5. CASE Fetch(w)
  <2> PICK d : d = CASE job[w].stage = "lineup" -> LineupOf(Game(w))
                     [] job[w].stage = "statcast" -> StatcastOf(View(w).start, job[w].lineup)
                     [] OTHER -> VectorOf(job[w].statcast)
    OBVIOUS
  <2> PICK m : m = [j EXCEPT !.reading = FALSE, !.draft = d]
    OBVIOUS
  <2>1. k = Unavailable(j) \/ k = m
    BY <1>0, <1>5 DEF Fetch
  <2>2. m.kind = j.kind /\ m.day = j.day /\ m.offset = j.offset /\ m.limit = j.limit
        /\ m.stage = j.stage /\ m.todo = j.todo /\ m.examined = j.examined
    BY DEF CollectionRows
  <2>3. j.todo # << >>
    BY <1>5 DEF Fetch, InHand
  <2> QED
    BY <1>1, <1>2, <1>3, <2>1, <2>2, <2>3
<1>6. CASE PersistLineup(w)
  <2> PICK row : row = Stored(lineups, job[w].draft)
    OBVIOUS
  <2> PICK m : m = [j EXCEPT !.stage = "statcast", !.reading = TRUE, !.draft = NoRow, !.lineup = row]
    OBVIOUS
  <2>1. k \in {NextEvent(j), Conflict(j)} \/ k = m
    BY <1>0, <1>6 DEF PersistLineup
  <2>2. m.kind = j.kind /\ m.day = j.day /\ m.offset = j.offset /\ m.limit = j.limit
        /\ m.stage = "statcast" /\ m.todo = j.todo /\ m.examined = j.examined
    BY DEF CollectionRows
  <2>3. j.todo # << >>
    BY <1>6 DEF PersistLineup, Stage, InHand
  <2> QED
    BY <1>1, <1>2, <1>3, <2>1, <2>2, <2>3
<1>7. CASE PersistStatcast(w)
  BY <1>0, <1>1, <1>2, <1>3, <1>7 DEF PersistStatcast, Stage, CollectionRows, Idle, InHand
<1>8. CASE PersistVector(w)
  <2> PICK row : row = Stored(vectors, job[w].draft)
    OBVIOUS
  <2> PICK m : m = [j EXCEPT !.stage = "label", !.draft = row]
    OBVIOUS
  <2>1. k \in {NextEvent(j), Conflict(j)} \/ k = m
    BY <1>0, <1>8 DEF PersistVector
  <2>2. m.kind = j.kind /\ m.day = j.day /\ m.offset = j.offset /\ m.limit = j.limit
        /\ m.stage = "label" /\ m.todo = j.todo /\ m.examined = j.examined
    BY DEF CollectionRows
  <2>3. j.todo # << >>
    BY <1>8 DEF PersistVector, Stage, InHand
  <2> QED
    BY <1>1, <1>2, <1>3, <2>1, <2>2, <2>3
<1>9. CASE LabelStage(w)
  <2>1. k = NextEvent(j)
    BY <1>0, <1>9 DEF LabelStage
  <2>2. j.todo # << >>
    BY <1>9 DEF LabelStage, Stage, InHand
  <2> QED
    BY <1>1, <2>1, <2>2
<1>10. CASE FinishProspective(w) \/ Fit(w)
  BY <1>0, <1>10 DEF FinishProspective, Fit
<1>11. ~FetchEvents(w) /\ ~PersistEvents(w)
  BY DEF FetchEvents, PersistEvents, Stage
<1> QED
  BY <1>4, <1>5, <1>6, <1>7, <1>8, <1>9, <1>10, <1>11 DEF JobStep

LEMMA FetchedCall ==
  ASSUME IInv, NEW steady, PassInv(steady), Pageable(steady), NEW w \in Workers, FetchEvents(w)
  PROVE  CallFits(steady, job[w])'
<1> PICK j \in CollectionRows : j = job[w] /\ j.stage = "events"
  BY Collecting DEF IInv, FetchEvents
<1> PICK k : k = job'[w]
  OBVIOUS
<1>1. job \in [Workers -> JobRows] /\ UNCHANGED feed
  BY DEF IInv, Jobs, FetchEvents
<1>5. j.examined = {}
  BY DEF PassInv, Calls, CallFits, Drafted
<1> PICK d : d = [g \in {h \in Games : feed[h].start = j.day} |-> GameOf(g)]
  OBVIOUS
<1>2. \A g \in Games : /\ g \in DOMAIN d <=> feed[g].start = j.day
                       /\ g \in DOMAIN d => d[g].start = j.day
  BY DEF GameOf
<1>3. CASE k = Idle
  BY <1>3 DEF CallFits, Idle, CollectionRows
<1>4. CASE k = [j EXCEPT !.reading = FALSE, !.draft = d]
  <2>1. k.stage = "events" /\ k.day = j.day /\ k.draft = d /\ k.examined = {}
    BY <1>4, <1>5 DEF CollectionRows
  <2>2. ASSUME NEW g \in Games, feed[g].start = j.day, j.day \in steady
        PROVE  FirstStart[g] = j.day
    BY <2>2 DEF Pageable, Scheduled
  <2>3. Drafted(steady, k)'
    BY <1>1, <1>2, <2>1, <2>2 DEF Drafted, Agrees, Kept
  <2>4. Paged(steady, k)'
    BY <2>1 DEF Paged
  <2> QED
    BY <2>3, <2>4 DEF CallFits
<1>6. \/ job' = [job EXCEPT ![w].reading = FALSE, ![w].draft = d]
      \/ job' = [job EXCEPT ![w] = Idle]
  BY DEF FetchEvents
<1>7. k = Idle \/ k = [j EXCEPT !.reading = FALSE, !.draft = d]
  BY <1>1, <1>6
<1> QED
  BY <1>3, <1>4, <1>7

\* A page holds what a list has between its bounds.
Holds(page, list, S, j) ==
  /\ \A i \in DOMAIN page : page[i].game \in S
  /\ \A i \in DOMAIN list : j.offset < i /\ i <= j.offset + j.limit =>
       \E m \in DOMAIN page : page[m].game = list[i]

LEMMA PageGames ==
  ASSUME NEW rows \in [Games -> EventRows \cup {NoRow}], NEW j, j.offset \in Nat, j.limit \in Nat,
         NEW shown, shown = {g \in Games : rows[g] # NoRow /\ rows[g].start = j.day}
  PROVE  Holds(Page(rows, j), SetToSeq(shown), shown, j)
<1> PICK listed : listed = SetToSeq(shown)
  OBVIOUS
<1> PICK page : page = Page(rows, j)
  OBVIOUS
<1>2. IsFiniteSet(shown)
  BY DatasetAssumption, FS_Subset
<1> PICK n : n = Cardinality(shown) /\ Enumerates(listed, shown, n)
  BY <1>2, Listing
<1>3. n \in Nat /\ DOMAIN listed = 1..n /\ Len(listed) = n /\ \A i \in 1..n : listed[i] \in shown
  BY DEF Enumerates
<1> PICK last : last = IF j.offset + j.limit < n THEN j.offset + j.limit ELSE n
  OBVIOUS
<1>4. last \in Int /\ last <= n /\ \A i \in 1..n : i <= j.offset + j.limit => i <= last
  BY <1>3
<1>1. page = [i \in 1..(last - j.offset) |->
                [game |-> listed[j.offset + i], row |-> rows[listed[j.offset + i]]]]
  BY <1>3 DEF Page
<1>5. ASSUME NEW i \in 1..(last - j.offset)
      PROVE  page[i].game \in shown
  <2>1. j.offset + i \in 1..n
    BY <1>3, <1>4
  <2>2. page[i].game = listed[j.offset + i]
    BY <1>1
  <2> QED
    BY <1>3, <2>1, <2>2
<1>6. ASSUME NEW i \in 1..n, j.offset < i, i <= j.offset + j.limit
      PROVE  \E k \in DOMAIN page : page[k].game = listed[i]
  <2>1. i - j.offset \in 1..(last - j.offset) /\ j.offset + (i - j.offset) = i
    BY <1>4, <1>6
  <2>2. page[i - j.offset].game = listed[i]
    BY <1>1, <2>1
  <2> QED
    BY <1>1, <2>1, <2>2
<1>7. Holds(page, listed, shown, j)
  <2>1. DOMAIN page = 1..(last - j.offset) /\ DOMAIN listed = 1..n
    BY <1>1, <1>3
  <2>2. \A i \in DOMAIN page : page[i].game \in shown
    BY <1>5, <2>1
  <2> QED
    BY <1>6, <2>1, <2>2 DEF Holds
<1> QED
  BY <1>7

LEMMA ScheduledPage ==
  ASSUME IInv, IInv', NEW steady, steady \subseteq Int, Pageable(steady), Pageable(steady)',
         NEW w \in Workers, PassInv(steady), PersistEvents(w)
  PROVE  CallFits(steady, job[w])'
<1> PICK j \in CollectionRows : j = job[w] /\ j.stage = "events" /\ ~j.reading /\ InHand(j)
  BY Collecting DEF IInv, PersistEvents
<1> PICK page : page = Page(event', j)
  OBVIOUS
<1>1. j.offset \in Nat /\ j.limit \in Nat /\ j.day \in Int
  BY DEF CollectionRows
<1>2. event' \in [Games -> EventRows \cup {NoRow}] /\ UNCHANGED feed
  BY DEF World, IInv, PersistEvents
<1> PICK k : k = [j EXCEPT !.stage = "select", !.reading = TRUE, !.draft = NoRow, !.todo = page]
  OBVIOUS
<1>3. job'[w] = k
  BY DEF PersistEvents, IInv, Jobs
<1>4. /\ k.stage = "select" /\ k.todo = page /\ k.examined = j.examined /\ k.kind = j.kind
      /\ k.day = j.day /\ k.offset = j.offset /\ k.limit = j.limit
  BY DEF CollectionRows
<1>5. Drafted(steady, k)'
  BY <1>4 DEF Drafted
<1> SUFFICES ASSUME j.kind = "backfill" PROVE Paged(steady, k)'
  BY <1>3, <1>4, <1>5 DEF CallFits, Paged
<1>6. j.limit = BatchLimit /\ (j.day \notin steady => j.offset = 0)
  BY DEF PassInv, Accounted, Paired, Trusted, Honest
<1> PICK shown : shown = {g \in Games : event'[g] # NoRow /\ event'[g].start = j.day}
  OBVIOUS
<1>7. /\ \A g \in Games : g \in DOMAIN j.draft => j.draft[g].start = j.day
      /\ \A g \in Games : Kept(g) /\ FirstStart[g] = j.day => g \in DOMAIN j.draft
  BY DEF PassInv, Calls, CallFits, Drafted
<1>8. \A g \in Games : g \in DOMAIN j.draft => event'[g] = j.draft[g] /\ event'[g] # NoRow
  BY RowsAssumption DEF PersistEvents, Upserted, InHand, Listings
<1>9. \A g \in Games : Kept(g) /\ FirstStart[g] = j.day => g \in shown
  BY <1>7, <1>8
<1>11. IsFiniteSet(shown)
  BY DatasetAssumption, FS_Subset
<1> PICK list, n : list = SetToSeq(shown) /\ n = Cardinality(shown) /\ Enumerates(list, shown, n)
  BY <1>11, Listing
<1>15. n \in Nat /\ DOMAIN list = 1..n /\ \A g \in shown : \E i \in 1..n : list[i] = g
  BY DEF Enumerates
<1>10. /\ \A i \in DOMAIN page : page[i].game \in shown
       /\ \A i \in 1..n : j.offset < i /\ i <= j.offset + j.limit =>
            \E m \in DOMAIN page : page[m].game = list[i]
  <2>1. /\ \A i \in DOMAIN page : page[i].game \in shown
        /\ \A i \in DOMAIN list : j.offset < i /\ i <= j.offset + j.limit =>
             \E m \in DOMAIN page : page[m].game = list[i]
    <3>1. Holds(Page(event', j), SetToSeq(shown), shown, j)
      BY <1>1, <1>2, PageGames
    <3> QED
      BY <3>1 DEF Holds
  <2> QED
    BY <1>15, <2>1
<1>12. \A g \in Games : OnPage(k, g) <=> \E i \in DOMAIN page : page[i].game = g
  BY <1>4 DEF PassInv, Calls, CallFits, Drafted, OnPage
<1>13. CASE j.day \in steady
  <2>1. shown = Scheduled(j.day)
    <3>1. \A g \in Games : FirstStart[g] = j.day => Kept(g)
      BY <1>13 DEF Pageable, Scheduled, Kept
    <3>2. \A g \in Games : event'[g] \in EventRows /\ event'[g].start = j.day => FirstStart[g] = j.day
      <4>1. ASSUME NEW g \in Games, event'[g] \in EventRows, event'[g].start = j.day
            PROVE  FirstStart[g] = j.day
        <5>1. CASE g \in DOMAIN j.draft
          BY <1>13, <5>1 DEF PassInv, Calls, CallFits, Drafted, Agrees
        <5>2. CASE g \notin DOMAIN j.draft
          BY <1>13, <4>1, <5>2 DEF PassInv, Rows, Agrees, Known, PersistEvents, Upserted
        <5> QED
          BY <5>1, <5>2
      <4> QED
        BY <4>1
    <3> QED
      BY <1>2, <1>9, <3>1, <3>2 DEF Scheduled
  <2>3. Order(j.day) = list
    BY <2>1 DEF Order
  <2>4. ASSUME NEW g \in Games, Kept(g), FirstStart[g] = j.day
        PROVE  \/ OnPage(k, g)
               \/ \E i \in DOMAIN Order(j.day) :
                    Order(j.day)[i] = g /\ (i <= j.offset \/ i > j.offset + j.limit)
    <3> PICK i \in 1..n : list[i] = g
      BY <1>9, <1>15, <2>4
    <3>1. j.offset < i /\ i <= j.offset + j.limit => OnPage(k, g)
      BY <1>10, <1>12
    <3>2. (j.offset < i /\ i <= j.offset + j.limit) \/ i <= j.offset \/ i > j.offset + j.limit
      BY <1>1, <1>15
    <3> QED
      BY <1>15, <2>3, <3>1, <3>2
  <2> QED
    BY <1>2, <1>4, <1>13, <2>4 DEF Paged, Kept
<1>14. CASE j.day \notin steady
  <2>1. Cardinality(shown) < j.limit
    BY <1>1, <1>6, <1>14 DEF Pageable, Listed
  <2>2. \A g \in Games : OnPage(k, g) => g \in shown
    BY <1>10, <1>12
  <2>3. ASSUME NEW g \in shown PROVE OnPage(k, g)
    <3> PICK i \in 1..n : list[i] = g
      BY <1>15
    <3>2. j.offset < i /\ i <= j.offset + j.limit
      BY <1>1, <1>6, <1>14, <1>15, <2>1
    <3> QED
      BY <1>10, <1>12, <3>2
  <2> QED
    BY <1>2, <1>4, <1>9, <1>14, <2>1, <2>2, <2>3 DEF Paged, Kept
<1> QED
  BY <1>13, <1>14

LEMMA PageStep ==
  ASSUME IInv, IInv', Onward, NEW steady, Calls(steady), NEW w \in Workers, JobStep(w),
         job[w] \in CollectionRows, job[w].stage # "events"
  PROVE  CallFits(steady, job[w])'
<1> PICK j \in CollectionRows : j = job[w]
  OBVIOUS
<1> PICK k : k = job'[w]
  OBVIOUS
<1>1. CASE k = Idle
  BY <1>1 DEF CallFits, Idle, CollectionRows
<1>2. CASE SamePage(j, k)
  <2>1. Paged(steady, j)'
    BY CallKeeps DEF Calls, CallFits
  <2>2. j.kind = "backfill" => Paged(steady, k)'
    <3>1. ASSUME NEW S \in SUBSET Games, \A g \in Games : OnPage(j, g) => g \in S
          PROVE  \A g \in Games : OnPage(k, g) => g \in S
      BY <1>2, <3>1 DEF SamePage
    <3> QED
      BY <1>2, <2>1, <3>1 DEF SamePage, Paged
  <2>3. Drafted(steady, k)'
    BY <1>2 DEF SamePage, Drafted
  <2>4. j.kind # "backfill" => Paged(steady, k)'
    BY <1>2 DEF SamePage, Paged
  <2> QED
    BY <2>2, <2>3, <2>4 DEF CallFits
<1> QED
  BY <1>1, <1>2, PageGoesOn

LEMMA JobStepFits ==
  ASSUME IInv, IInv', Onward, NEW steady, steady \subseteq Int, Pageable(steady), Pageable(steady)',
         PassInv(steady), NEW w \in Workers, JobStep(w)
  PROVE  CallFits(steady, job[w])'
<1>1. CASE FetchEvents(w)
  BY <1>1, FetchedCall
<1>2. CASE PersistEvents(w)
  BY <1>2, ScheduledPage
<1>3. CASE job[w] \in CollectionRows /\ job[w].stage # "events"
  BY <1>3, PageStep DEF PassInv
<1>4. CASE Fit(w)
  <2>1. job'[w] = Idle
    BY <1>4 DEF Fit, IInv, Jobs
  <2> QED
    BY <2>1 DEF CallFits, Idle, CollectionRows
<1>5. JobStep(w) => FetchEvents(w) \/ PersistEvents(w) \/ Fit(w)
                      \/ (job[w] \in CollectionRows /\ job[w].stage # "events")
  <2>1. job[w] \in JobRows
    BY DEF IInv, Jobs
  <2> QED
    BY <2>1 DEF JobStep, Select, Fetch, PersistLineup, PersistStatcast, PersistVector, LabelStage,
           FinishProspective, Stage, JobRows, Idle
<1> QED
  BY <1>1, <1>2, <1>3, <1>4, <1>5

LEMMA JobStepAlone ==
  ASSUME IInv, NEW w \in Workers, JobStep(w), NEW v \in Workers \ {w}
  PROVE  job'[v] = job[v]
<1>1. job \in [Workers -> JobRows]
  BY DEF IInv, Jobs
<1> QED
  BY <1>1 DEF JobStep, FetchEvents, PersistEvents, Select, Fetch, PersistLineup, PersistStatcast,
         PersistVector, LabelStage, FinishProspective, Fit

\* What becomes of the call of a worker in a step.
LEMMA JobMoves ==
  ASSUME IInv, [Next]_vars, NEW v \in Workers
  PROVE  \/ job'[v] = job[v] \/ JobStep(v) \/ job'[v] \in {Idle, [kind |-> "fit"]}
         \/ \E kind, day, offset, limit : job'[v] = NewJob(kind, day, offset, limit)
<1>1. job \in [Workers -> JobRows]
  BY DEF IInv, Jobs
<1>2. CASE \E w \in Workers : JobStep(w)
  BY <1>2, JobStepAlone
<1>3. ASSUME NEW w \in Workers, NEW kind, NEW day, NEW offset, NEW limit,
             job' = [job EXCEPT ![w] = NewJob(kind, day, offset, limit)]
      PROVE  job'[v] = job[v] \/ job'[v] = NewJob(kind, day, offset, limit)
  BY <1>1, <1>3
<1>4. ASSUME NEW w \in Workers, NEW row \in {Idle, [kind |-> "fit"]}, job' = [job EXCEPT ![w] = row]
      PROVE  job'[v] = job[v] \/ job'[v] = row
  BY <1>1, <1>4
<1>5. crew.collectors \subseteq Workers
  BY CrewTypes DEF IInv
<1>6. CASE DatasetStep
  <2>1. ASSUME NEW w \in Workers, NEW d, StartProspective(w, d)
        PROVE  job'[v] = job[v] \/ \E kind, day, offset, limit : job'[v] = NewJob(kind, day, offset, limit)
    BY <1>3, <2>1 DEF StartProspective
  <2>2. ASSUME NEW w \in Workers, StartFit(w) \/ Crash(w)
        PROVE  job'[v] = job[v] \/ job'[v] \in {Idle, [kind |-> "fit"]}
    BY <1>4, <2>2 DEF StartFit, Crash
  <2>3. CASE Tick \/ \E x \in vectors : Label(x)
    BY <2>3 DEF Tick, Label
  <2> QED
    BY <1>2, <1>5, <1>6, <2>1, <2>2, <2>3 DEF DatasetStep
<1>7. ASSUME NEW w \in Workers, BatchStep(w) \/ Stop(w)
      PROVE  \/ job'[v] = job[v] \/ job'[v] = Idle
             \/ \E kind, day, offset, limit : job'[v] = NewJob(kind, day, offset, limit)
  <2>1. CASE Open(w) \/ Finalize(w) \/ GiveUp(w) \/ PersistBatch(w)
    BY <2>1 DEF Open, Finalize, GiveUp, PersistBatch, datasetVars
  <2>2. CASE Plan(w)
    BY <1>3, <2>2 DEF Plan
  <2>3. CASE Review(w) \/ Stop(w)
    BY <1>4, <2>3 DEF Review, Stop
  <2> QED
    BY <1>7, <2>1, <2>2, <2>3 DEF BatchStep
<1>8. CASE UNCHANGED vars
  BY <1>8 DEF vars, datasetVars
<1> QED
  BY <1>6, <1>7, <1>8 DEF Next

LEMMA CallsStep ==
  ASSUME IInv, IInv', Onward, NEW steady, steady \subseteq Int, Pageable(steady), Pageable(steady)',
         PassInv(steady), [Next]_vars
  PROVE  Calls(steady)'
<1>1. ASSUME NEW v \in Workers PROVE CallFits(steady, job[v])'
  <2> PICK k : k = job'[v]
    OBVIOUS
  <2>1. CASE k = job[v]
    <3>1. CallFits(steady, k)
      BY <2>1 DEF PassInv, Calls
    <3>2. CallFits(steady, k)'
      BY <3>1, CallKeeps DEF CallFits
    <3> QED
      BY <3>2
  <2>2. CASE JobStep(v)
    BY <2>2, JobStepFits
  <2>3. CASE k \in {Idle, [kind |-> "fit"]}
    BY <2>3 DEF CallFits, Idle, CollectionRows
  <2>4. ASSUME NEW kind, NEW day, NEW offset, NEW limit, k = NewJob(kind, day, offset, limit)
        PROVE  CallFits(steady, k)'
    <3>1. k.stage = "events" /\ k.reading = TRUE /\ k.examined = {}
      BY <2>4 DEF NewJob
    <3> QED
      BY <3>1 DEF CallFits, Drafted, Paged
  <2> QED
    BY <2>1, <2>2, <2>3, <2>4, JobMoves
<1> QED
  BY <1>1 DEF Calls

LEMMA RowsStep ==
  ASSUME IInv, Onward, NEW steady, PassInv(steady), [Next]_vars
  PROVE  Rows(steady)'
<1>1. CASE UNCHANGED event
  BY <1>1 DEF PassInv, Rows, Onward, Agrees, Known
<1>2. ASSUME NEW w \in Workers, PersistEvents(w)
      PROVE  Rows(steady)'
  <2> PICK j \in CollectionRows : j = job[w] /\ j.stage = "events" /\ ~j.reading
    BY <1>2, Collecting DEF IInv, PersistEvents
  <2>1. \A g \in Games : g \in DOMAIN j.draft => j.draft[g].start = j.day /\ Agrees(steady, g, j.day)
    BY DEF PassInv, Calls, CallFits, Drafted
  <2>2. \A g \in Games : event'[g] = IF g \in DOMAIN j.draft THEN j.draft[g] ELSE event[g]
    BY <1>2 DEF PersistEvents, Upserted
  <2>3. \A g \in Games : Known(g)' => Agrees(steady, g, event'[g].start)
    BY <2>1, <2>2 DEF PassInv, Rows, Known
  <2> QED
    BY <2>3 DEF Rows, Onward, Agrees
<1>3. UNCHANGED event \/ \E w \in Workers : PersistEvents(w)
  BY DEF Next, vars, datasetVars, DatasetStep, BatchStep, Stop, Tick, JobStep, StartProspective, StartFit,
     Crash, Label, FetchEvents, Select, Fetch, PersistLineup, PersistStatcast, PersistVector,
     LabelStage, FinishProspective, Fit, Open, Plan, Finalize, Review, GiveUp, PersistBatch
<1> QED
  BY <1>1, <1>2, <1>3

(* The calls and the batches they belong to. *)

LEMMA Counts ==
  ASSUME IInv, NEW g \in Games
  PROVE  FirstStart[g] \in Int
BY DatasetAssumption

\* A call keeps its kind and the bounds of its page.
LEMMA JobStepBounds ==
  ASSUME IInv, IInv', NEW w \in Workers, JobStep(w)
  PROVE  \/ job'[w] = Idle
         \/ /\ job'[w].kind = job[w].kind /\ job'[w].kind \in {"prospective", "backfill"}
            /\ job'[w].day = job[w].day /\ job'[w].offset = job[w].offset
            /\ job'[w].limit = job[w].limit
<1>1. job \in [Workers -> JobRows]
  BY DEF IInv, Jobs
<1>2. CASE job[w] \in CollectionRows /\ job[w].stage # "events"
  BY <1>2, PageGoesOn DEF SamePage, CollectionRows
<1>3. CASE FetchEvents(w)
  <2> PICK j \in CollectionRows : j = job[w]
    BY <1>3, Collecting DEF IInv, FetchEvents
  <2> PICK d : d = [g \in {h \in Games : feed[h].start = job[w].day} |-> GameOf(g)]
    OBVIOUS
  <2>1. job'[w] = Idle \/ job'[w] = [j EXCEPT !.reading = FALSE, !.draft = d]
    BY <1>1, <1>3 DEF FetchEvents
  <2> QED
    BY <2>1 DEF CollectionRows
<1>4. CASE PersistEvents(w)
  <2> PICK j \in CollectionRows : j = job[w]
    BY <1>4, Collecting DEF IInv, PersistEvents
  <2> PICK page : page = Page(event', j)
    OBVIOUS
  <2>1. job'[w] = [j EXCEPT !.stage = "select", !.reading = TRUE, !.draft = NoRow, !.todo = page]
    BY <1>1, <1>4 DEF PersistEvents
  <2> QED
    BY <2>1 DEF CollectionRows
<1>5. CASE Fit(w)
  BY <1>1, <1>5 DEF Fit
<1>6. FetchEvents(w) \/ PersistEvents(w) \/ Fit(w) \/ (job[w] \in CollectionRows /\ job[w].stage # "events")
  <2>1. job[w] \in JobRows
    BY <1>1
  <2> QED
    BY <2>1 DEF JobStep, Select, Fetch, PersistLineup, PersistStatcast, PersistVector, LabelStage,
           FinishProspective, Stage, JobRows, Idle
<1> QED
  BY <1>2, <1>3, <1>4, <1>5, <1>6

LEMMA PairsOfCalls ==
  ASSUME IInv, IInv', NEW v \in Workers, Paired(job[v], work[v]), DatasetStep, UNCHANGED work
  PROVE  Paired(job[v], work[v])'
<1> PICK row : row = work[v]
  OBVIOUS
<1>1. job \in [Workers -> JobRows]
  BY DEF IInv, Jobs
<1>2. CASE job'[v] = Idle \/ UNCHANGED job
  BY <1>2 DEF Paired, Idle
<1>3. ASSUME NEW w \in Workers, JobStep(w)
      PROVE  Paired(job[v], work[v])'
  BY <1>2, <1>3, JobStepAlone, JobStepBounds DEF Paired
<1>4. ASSUME NEW w \in Workers, work[w] = Resting, NEW k,
             k.kind \in {"prospective", "fit"}, job' = [job EXCEPT ![w] = k]
      PROVE  Paired(job[v], work[v])'
  BY <1>1, <1>4 DEF Paired
<1>5. ASSUME NEW w \in Workers, work[w] = Resting,
             (\E d \in HoldoutStart..MaxTime : StartProspective(w, d)) \/ StartFit(w) \/ Crash(w)
      PROVE  Paired(job[v], work[v])'
  <2>1. \A d : NewJob("prospective", d, 0, Cardinality(Games)).kind = "prospective"
    BY DEF NewJob
  <2>2. CASE Crash(w)
    BY <1>1, <1>2, <2>2 DEF Crash, Paired
  <2>3. CASE StartFit(w)
    <3> PICK k : k = [kind |-> "fit"]
      OBVIOUS
    <3>1. k.kind \in {"prospective", "fit"} /\ job' = [job EXCEPT ![w] = k] /\ work[w] = Resting
      BY <1>5, <2>3 DEF StartFit
    <3>2. CASE v = w
      BY <1>1, <3>1, <3>2 DEF Paired
    <3>3. CASE v # w
      BY <1>1, <3>1, <3>3 DEF Paired
    <3> QED
      BY <3>2, <3>3
  <2>4. ASSUME NEW d \in HoldoutStart..MaxTime, StartProspective(w, d)
        PROVE  Paired(job[v], work[v])'
    <3> PICK k : k = NewJob("prospective", d, 0, Cardinality(Games))
      OBVIOUS
    <3>1. k.kind \in {"prospective", "fit"} /\ job' = [job EXCEPT ![w] = k] /\ work[w] = Resting
      BY <1>5, <2>1, <2>4 DEF StartProspective
    <3>2. CASE v = w
      BY <1>1, <3>1, <3>2 DEF Paired
    <3>3. CASE v # w
      BY <1>1, <3>1, <3>3 DEF Paired
    <3> QED
      BY <3>2, <3>3
  <2> QED
    BY <1>5, <2>2, <2>3, <2>4
<1>6. crew.collectors \subseteq Workers
  BY CrewTypes DEF IInv
<1>7. Tick \/ (\E x \in vectors : Label(x)) => UNCHANGED job
  BY DEF Tick, Label
<1> QED
  BY <1>2, <1>3, <1>5, <1>6, <1>7 DEF DatasetStep

(* What a reviewed page lets the cursor pass. *)

LEMMA OrderOfDay ==
  ASSUME NEW d
  PROVE  \E n : n \in Nat /\ DOMAIN Order(d) = 1..n /\ Enumerates(Order(d), Scheduled(d), n)
<1>1. IsFiniteSet(Scheduled(d))
  BY DatasetAssumption, FS_Subset DEF Scheduled
<1> QED
  BY <1>1, Listing DEF Order, Enumerates

LEMMA ReviewCovers ==
  ASSUME IInv, NEW steady, steady \subseteq Int, Pageable(steady), PassInv(steady),
         NEW w \in Workers, Review(w), job[w].unavailable = {},
         NEW plan, plan = work[w].plan, NEW answered, answered = job[w].examined
  PROVE  Covers(steady, plan, CursorAfter(plan, Cardinality(answered)), answered)
<1>1. /\ work[w].stage = "collect" /\ work[w] # Resting
      /\ job[w].kind \in {"prospective", "backfill"} /\ job[w].stage = "select" /\ job[w].todo = << >>
  BY DEF Review, Resting, Stage
<1> PICK j \in CollectionRows : j = job[w]
  BY Collecting DEF IInv, Review
<1>2. /\ j.kind = "backfill" /\ j.day = plan.day /\ j.offset = plan.offset /\ j.limit = BatchLimit
      /\ Paged(steady, j) /\ (plan.day \notin steady => plan.offset = 0)
  BY <1>1 DEF PassInv, Accounted, Paired, Calls, CallFits, Trusted, Honest
<1>3. j.todo = << >> /\ j.examined = answered
  BY <1>1
<1>4. \A g \in Games : OnPage(j, g) <=> g \in answered
  BY <1>3 DEF OnPage
<1> PICK d \in Int, from \in Nat, limit \in Nat \ {0} : d = plan.day /\ from = plan.offset /\ limit = BatchLimit
  BY <1>2, BackfillAssumption DEF CollectionRows
<1>5. answered \subseteq Games /\ IsFiniteSet(answered) /\ Cardinality(answered) \in Nat
  BY <1>3, DatasetAssumption, FS_Subset, FS_CardinalityType DEF CollectionRows, GameSets
<1> PICK n \in Nat : DOMAIN Order(d) = 1..n /\ Enumerates(Order(d), Scheduled(d), n)
  BY OrderOfDay
<1> PICK order : order = Order(d)
  OBVIOUS
<1>6. /\ DOMAIN order = 1..n /\ \A i \in 1..n : order[i] \in Scheduled(d)
      /\ \A i, m \in 1..n : order[i] = order[m] => i = m
  BY DEF Enumerates
<1>7. ASSUME NEW g \in Games, Kept(g), FirstStart[g] = d
      PROVE  \/ g \in answered
             \/ d \in steady /\ \E i \in 1..n : order[i] = g /\ (i <= from \/ i > from + limit)
  BY <1>1, <1>2, <1>4, <1>6, <1>7 DEF Paged
<1>8. ASSUME d \in steady, Cardinality(answered) < limit, NEW i \in 1..n
      PROVE  i <= from + limit
  <2> SUFFICES ASSUME i > from + limit PROVE FALSE
    OBVIOUS
  <2>7. \A m \in 1..limit : from + m \in 1..n
    OBVIOUS
  <2> PICK page : page = [m \in 1..limit |-> order[from + m]]
    OBVIOUS
  <2>1. ASSUME NEW m \in 1..limit PROVE page[m] \in answered
    <3>1. from + m \in 1..n
      BY <2>7
    <3>7. ~(from + m <= from) /\ ~(from + m > from + limit)
      OBVIOUS
    <3> PICK g : g = order[from + m]
      OBVIOUS
    <3>2. g \in Games /\ FirstStart[g] = d /\ Kept(g)
      BY <1>6, <1>8, <3>1 DEF Scheduled, Pageable, Kept
    <3>3. \A k \in 1..n : order[k] = g => k = from + m
      BY <1>6, <3>1
    <3>4. g \in answered \/ \E k \in 1..n : order[k] = g /\ (k <= from \/ k > from + limit)
      BY <1>7, <3>2
    <3>5. g \in answered
      BY <3>3, <3>4, <3>7
    <3>6. page[m] = g
      OBVIOUS
    <3> QED
      BY <3>5, <3>6
  <2>2. ASSUME NEW m \in 1..limit, NEW k \in 1..limit, page[m] = page[k]
        PROVE  m = k
    <3>1. from + m \in 1..n /\ from + k \in 1..n
      BY <2>7
    <3>2. page[m] = order[from + m] /\ page[k] = order[from + k]
      OBVIOUS
    <3>3. from + m = from + k
      BY <1>6, <2>2, <3>1, <3>2
    <3> QED
      BY <3>3
  <2>6. page \in [1..limit -> answered]
    BY <2>1
  <2>3. page \in Injection(1..limit, answered)
    <3>1. DOMAIN page = 1..limit
      BY <2>6
    <3>2. ASSUME NEW m \in DOMAIN page, NEW k \in DOMAIN page, page[m] = page[k] PROVE m = k
      <4>1. m \in 1..limit /\ k \in 1..limit
        BY <3>1
      <4> QED
        BY <2>2, <3>2, <4>1
    <3> QED
      BY <2>6, <3>2, Zenon DEF Injection, IsInjective
  <2>4. Cardinality(1..limit) = limit
    BY FS_Interval
  <2>5. Cardinality(1..limit) <= Cardinality(answered)
    BY <1>5, <2>3, FS_Injection
  <2> QED
    BY <1>5, <1>8, <2>4, <2>5
<1> PICK after : after = CursorAfter(plan, Cardinality(answered))
  OBVIOUS
<1>9. CASE Cardinality(answered) < limit
  <2>1. after.day = d - 1 /\ after.offset = 0
    BY <1>9 DEF CursorAfter
  <2>2. ASSUME NEW g \in Games, Kept(g), Passed(steady, after, g)
        PROVE  Passed(steady, plan, g) \/ g \in answered
    <3>1. FirstStart[g] \in Int
      BY Counts
    <3>2. FirstStart[g] > d - 1
      <4>1. \A m \in Nat : \A i \in 1..m : ~(i <= 0)
        OBVIOUS
      <4>2. PICK m : m \in Nat /\ DOMAIN Order(d - 1) = 1..m
        BY OrderOfDay
      <4> QED
        BY <2>1, <2>2, <4>1, <4>2 DEF Passed
    <3>3. FirstStart[g] > d \/ FirstStart[g] = d
      BY <3>1, <3>2
    <3>4. CASE FirstStart[g] = d
      BY <1>6, <1>7, <1>8, <1>9, <2>2, <3>4 DEF Passed
    <3> QED
      BY <3>3, <3>4 DEF Passed
  <2> QED
    BY <2>1, <2>2 DEF Covers
<1>10. CASE ~(Cardinality(answered) < limit)
  <2>1. after.day = d /\ after.offset = from + limit
    BY <1>10 DEF CursorAfter
  <2>2. d \in steady
    <3> SUFFICES ASSUME d \notin steady PROVE FALSE
      OBVIOUS
    <3>1. PICK S \in SUBSET Games : Cardinality(S) < limit /\ \A g \in Games : OnPage(j, g) => g \in S
      BY <1>1, <1>2 DEF Paged
    <3>2. answered \subseteq S /\ IsFiniteSet(S)
      BY <1>4, <1>5, <3>1, DatasetAssumption, FS_Subset
    <3>3. Cardinality(answered) <= Cardinality(S) /\ Cardinality(S) \in Nat
      BY <3>2, FS_Subset, FS_CardinalityType
    <3> QED
      BY <1>5, <1>10, <3>1, <3>3
  <2>3. ASSUME NEW g \in Games, Kept(g), Passed(steady, after, g)
        PROVE  Passed(steady, plan, g) \/ g \in answered
    <3>1. CASE FirstStart[g] > d
      BY <3>1 DEF Passed
    <3>2. CASE FirstStart[g] = d
      <4>1. PICK i \in 1..n : order[i] = g /\ i <= from + limit
        BY <1>6, <2>1, <2>3, <3>2, Counts DEF Passed
      <4>2. \A m \in 1..n : order[m] = g => m = i
        BY <1>6, <4>1
      <4>3. g \in answered \/ i <= from
        BY <1>7, <2>3, <3>2, <4>1, <4>2
      <4> QED
        BY <1>6, <2>2, <3>2, <4>1, <4>3 DEF Passed
    <3> QED
      BY <2>1, <2>3, <3>1, <3>2 DEF Passed
  <2> QED
    BY <2>1, <2>2, <2>3 DEF Covers
<1> QED
  BY <1>9, <1>10

LEMMA HonestAt ==
  ASSUME NEW steady, NEW s, NEW c, NEW d, c.day = d.day, c.offset = d.offset, Honest(steady, s, c)
  PROVE  Honest(steady, s, d)
BY DEF Honest, Passed

LEMMA NewRowIsHonest ==
  ASSUME IInv, NEW steady
  PROVE  HonestRow(steady, NewCheckpoint)
<1>1. ASSUME NEW s \in Exploratory PROVE Honest(steady, s, NewCheckpoint.cursor[s])
  <2> PICK c : c = NewCheckpoint.cursor[s]
    OBVIOUS
  <2>1. c.day = UpperBound(s) /\ c.offset = 0
    BY DEF NewCheckpoint
  <2>2. ASSUME NEW g \in Games, Asked(s, g), Passed(steady, c, g) PROVE FALSE
    <3>1. FirstStart[g] <= UpperBound(s) /\ FirstStart[g] \in Int /\ UpperBound(s) \in Int
      BY <2>2, Counts, SplitBounds DEF Asked
    <3>2. PICK i \in DOMAIN Order(c.day) : i <= 0
      BY <2>1, <2>2, <3>1 DEF Passed
    <3> QED
      BY <3>2, OrderOfDay
  <2> QED
    BY <2>1, <2>2 DEF Honest
<1> QED
  BY <1>1 DEF HonestRow

\* A batch that is neither at rest nor collecting has no call.
LEMMA NoCall ==
  ASSUME NEW j, NEW row, Paired(j, row), row.stage \notin {"rest", "collect"}
  PROVE  \A next : Paired(j, next)
BY DEF Paired, Resting

LEMMA IdleIsPaired == \A row : Paired(Idle, row)
BY DEF Paired, Idle

\* What a step does to the checkpoint and to the batch of one worker.
LEMMA OneWorkerStep ==
  ASSUME IInv, IInv', Onward, NEW steady, PassInv(steady), NEW w \in Workers, NEW row,
         work' = [work EXCEPT ![w] = row], \A v \in Workers \ {w} : job'[v] = job[v],
         Trusted(steady, row)', Paired(job'[w], row),
         NEW top, checkpoint' = top,
         (top = checkpoint /\ work[w] # Resting) \/ HonestRow(steady, top)'
  PROVE  Accounted(steady)'
<1>1. work \in [Workers -> WorkRows]
  BY DEF IInv, Works
<1>2. ASSUME NEW v \in Workers PROVE (Trusted(steady, work[v]) /\ Paired(job[v], work[v]))'
  <2>1. CASE v = w
    BY <1>1, <2>1
  <2>2. CASE v # w
    <3>1. work'[v] = work[v] /\ job'[v] = job[v]
      BY <1>1, <2>2
    <3> PICK old : old = work[v]
      OBVIOUS
    <3>2. Trusted(steady, old)'
      BY TrustKeeps DEF PassInv, Accounted
    <3> QED
      BY <3>1, <3>2 DEF PassInv, Accounted
  <2> QED
    BY <2>1, <2>2
<1>3. HonestRow(steady, top)'
  BY RowKeeps DEF PassInv, Accounted, Started
<1> QED
  BY <1>2, <1>3 DEF Accounted

LEMMA OpenAccounts ==
  ASSUME IInv, IInv', Onward, NEW steady, PassInv(steady), NEW w \in Workers, Open(w)
  PROVE  Accounted(steady)'
<1> PICK top : top = checkpoint'
  OBVIOUS
<1>1. HonestRow(steady, top)
  BY NewRowIsHonest DEF Open, PassInv, Accounted, Started
<1>2. HonestRow(steady, top)'
  BY <1>1, RowKeeps
<1> PICK next : next = [stage |-> "plan", held |-> top, plan |-> NoRow]
  OBVIOUS
<1>3. next.stage = "plan" /\ next.held = top
  OBVIOUS
<1>4. Trusted(steady, next)'
  BY <1>2, <1>3 DEF Trusted
<1>5. work' = [work EXCEPT ![w] = next] /\ job' = job /\ job[w] = Idle
  BY DEF Open, datasetVars
<1>6. Paired(job'[w], next)
  BY <1>5, IdleIsPaired
<1> QED
  BY <1>2, <1>4, <1>5, <1>6, OneWorkerStep

\* A worker that ends its batch leaves the checkpoint alone.
LEMMA RestAccounts ==
  ASSUME IInv, IInv', Onward, NEW steady, PassInv(steady), NEW w \in Workers,
         work' = [work EXCEPT ![w] = Resting], \A v \in Workers \ {w} : job'[v] = job[v],
         Paired(job'[w], Resting), NEW top, checkpoint' = top,
         (top = checkpoint /\ work[w] # Resting) \/ HonestRow(steady, top)'
  PROVE  Accounted(steady)'
<1>1. Trusted(steady, Resting)'
  BY DEF Trusted, Resting
<1> QED
  BY <1>1, OneWorkerStep

LEMMA PlanAccounts ==
  ASSUME IInv, IInv', Onward, NEW steady, PassInv(steady), NEW w \in Workers, Plan(w)
  PROVE  Accounted(steady)'
<1>1. work[w].stage = "plan" /\ work[w] # Resting /\ checkpoint' = checkpoint
  BY DEF Plan, Resting
<1> PICK held \in Checkpoints : held = work[w].held
  BY <1>1, WorkTypes DEF IInv
<1> PICK old \in WorkRows : old = work[w]
  BY DEF IInv, Works
<1>2. work \in [Workers -> WorkRows] /\ job \in [Workers -> JobRows]
  BY DEF IInv, Works, Jobs
<1>3. old \in [stage : {"plan"}, held : Checkpoints, plan : {NoRow}]
  BY <1>1 DEF WorkRows, Resting
<1>4. Paired(job[w], work[w]) /\ HonestRow(steady, held)
  BY <1>1 DEF PassInv, Accounted, Trusted
<1>5. \A next : Paired(job[w], next)
  BY <1>1, <1>4, NoCall
<1>6. HonestRow(steady, held)'
  BY <1>4, RowKeeps
<1>7. CASE work' = [work EXCEPT ![w] = Resting] /\ UNCHANGED job
  BY <1>1, <1>5, <1>7, RestAccounts
<1>8. ASSUME NEW end, work' = [work EXCEPT ![w].stage = "finalize", ![w].plan = end], UNCHANGED job
      PROVE  Accounted(steady)'
  <2> PICK next : next = [old EXCEPT !.stage = "finalize", !.plan = end]
    OBVIOUS
  <2>1. next.stage = "finalize" /\ next.held = held
    BY <1>3
  <2>2. Trusted(steady, next)'
    BY <1>6, <2>1 DEF Trusted
  <2>3. work' = [work EXCEPT ![w] = next]
    BY <1>2, <1>8
  <2> QED
    BY <1>1, <1>5, <1>8, <2>2, <2>3, OneWorkerStep
<1>9. ASSUME work' = [work EXCEPT ![w].stage = "collect", ![w].plan = PlanOf(held)],
             job' = [job EXCEPT ![w] = NewJob("backfill", PlanOf(held).day, PlanOf(held).offset, BatchLimit)]
      PROVE  Accounted(steady)'
  <2> PICK s \in Exploratory : s = Wanted
    BY WantedIsExploratory
  <2> PICK plan : plan = PlanOf(held)
    OBVIOUS
  <2>1. plan.split = s /\ plan.day = held.cursor[s].day /\ plan.offset = held.cursor[s].offset
    BY DEF PlanOf
  <2> PICK next : next = [old EXCEPT !.stage = "collect", !.plan = plan]
    OBVIOUS
  <2>2. next.stage = "collect" /\ next.held = held /\ next.plan = plan
    BY <1>3
  <2> PICK cursor : cursor = held.cursor[s]
    OBVIOUS
  <2>3. Honest(steady, s, plan)
    BY <1>4, <2>1, HonestAt DEF HonestRow
  <2>4. Honest(steady, s, plan)'
    BY <2>3, HonestKeeps
  <2>5. Trusted(steady, next)'
    BY <1>6, <2>1, <2>2, <2>4 DEF Trusted
  <2>6. work' = [work EXCEPT ![w] = next]
    BY <1>2, <1>9
  <2> PICK k : k = NewJob("backfill", plan.day, plan.offset, BatchLimit)
    OBVIOUS
  <2>7. k.kind = "backfill" /\ k.day = plan.day /\ k.offset = plan.offset /\ k.limit = BatchLimit
    BY DEF NewJob
  <2>8. job'[w] = k /\ \A v \in Workers \ {w} : job'[v] = job[v]
    BY <1>2, <1>9
  <2>9. Paired(job'[w], next)
    BY <2>2, <2>7, <2>8 DEF Paired
  <2> QED
    BY <1>1, <2>5, <2>6, <2>8, <2>9, OneWorkerStep
<1> QED
  BY <1>7, <1>8, <1>9 DEF Plan

LEMMA FinalizeAccounts ==
  ASSUME IInv, IInv', Onward, NEW steady, PassInv(steady), NEW w \in Workers, Finalize(w)
  PROVE  Accounted(steady)'
<1>1. work[w].stage = "finalize" /\ work[w] # Resting
  BY DEF Finalize, Resting
<1> PICK row \in Checkpoints : row = checkpoint
  BY <1>1 DEF IInv, Works
<1> PICK top : top = checkpoint'
  OBVIOUS
<1>2. top.cursor = row.cursor
  BY DEF Finalize, Finalized, Checkpoints
<1>3. HonestRow(steady, row)'
  BY <1>1, RowKeeps DEF PassInv, Accounted, Started
<1>4. HonestRow(steady, top)'
  BY <1>2, <1>3 DEF HonestRow
<1>5. \A next : Paired(job[w], next)
  BY <1>1, NoCall DEF PassInv, Accounted
<1>6. work' = [work EXCEPT ![w] = Resting] /\ job' = job
  BY DEF Finalize, datasetVars
<1> QED
  BY <1>4, <1>5, <1>6, RestAccounts

LEMMA ReviewAccounts ==
  ASSUME IInv, IInv', Onward, NEW steady, steady \subseteq Int, Pageable(steady), PassInv(steady),
         NEW w \in Workers, Review(w)
  PROVE  Accounted(steady)'
<1>1. work[w].stage = "collect" /\ work[w] # Resting /\ checkpoint' = checkpoint
  BY DEF Review, Resting
<1>2. checkpoint \in Checkpoints /\ job \in [Workers -> JobRows]
  BY <1>1 DEF IInv, Works, Jobs
<1>3. job' = [job EXCEPT ![w] = Idle]
  BY DEF Review
<1>4. job'[w] = Idle /\ \A v \in Workers \ {w} : job'[v] = job[v]
  BY <1>2, <1>3
<1>5. \A next : Paired(job'[w], next)
  BY <1>4, IdleIsPaired
<1>6. CASE work' = [work EXCEPT ![w] = Resting]
  BY <1>1, <1>4, <1>5, <1>6, RestAccounts
<1> PICK plan, seen : plan = work[w].plan /\ seen = IF job[w].rolledBack THEN checkpoint ELSE work[w].held
  OBVIOUS
<1> PICK examined : examined = job[w].examined
  OBVIOUS
<1>7. ASSUME NEW status, job[w].unavailable = {},
             work' = [work EXCEPT ![w] =
               [stage |-> "persist", held |-> seen, plan |-> plan,
                after |-> CursorAfter(plan, Cardinality(examined)),
                status |-> status, answered |-> examined \ job[w].unavailable]]
      PROVE  Accounted(steady)'
  <2> PICK after : after = CursorAfter(plan, Cardinality(examined))
    OBVIOUS
  <2> PICK next : next = [stage |-> "persist", held |-> seen, plan |-> plan, after |-> after,
                          status |-> status, answered |-> examined \ job[w].unavailable]
    OBVIOUS
  <2>1. examined \ job[w].unavailable = examined
    BY <1>7
  <2>2. /\ next.stage = "persist" /\ next.held = seen /\ next.plan = plan
        /\ next.after = after /\ next.answered = examined
    BY <2>1
  <2>3. Covers(steady, plan, after, examined)
    BY <1>7, ReviewCovers
  <2>4. HonestRow(steady, seen) /\ Honest(steady, plan.split, plan)
    BY <1>1 DEF PassInv, Accounted, Started, Trusted
  <2>5. Trusted(steady, next)
    BY <2>2, <2>3, <2>4 DEF Trusted
  <2>6. Trusted(steady, next)'
    BY <2>5, TrustKeeps
  <2>7. work' = [work EXCEPT ![w] = next]
    BY <1>7
  <2> QED
    BY <1>1, <1>4, <1>5, <2>6, <2>7, OneWorkerStep
<1>8. \/ work' = [work EXCEPT ![w] = Resting]
      \/ /\ job[w].unavailable = {}
         /\ \E status : work' = [work EXCEPT ![w] =
               [stage |-> "persist", held |-> seen, plan |-> plan,
                after |-> CursorAfter(plan, Cardinality(examined)),
                status |-> status, answered |-> examined \ job[w].unavailable]]
  BY DEF Review, MayAdvance
<1> QED
  BY <1>6, <1>7, <1>8

LEMMA CommitAccounts ==
  ASSUME IInv, IInv', Onward, NEW steady, PassInv(steady), NEW w \in Workers, PersistBatch(w)
  PROVE  Accounted(steady)'
<1>1. work[w].stage = "persist" /\ work[w] # Resting
  BY DEF PersistBatch, Resting
<1> PICK row \in Checkpoints, plan \in Plans, after \in Cursors : row = checkpoint /\ plan = work[w].plan /\ after = work[w].after
  BY <1>1, WorkTypes DEF IInv
<1> PICK s \in Exploratory : s = plan.split
  BY DEF Plans
<1> PICK answered : answered = work[w].answered
  OBVIOUS
<1>2. /\ HonestRow(steady, row) /\ Honest(steady, s, plan)
      /\ Covers(steady, plan, after, answered) /\ Paired(job[w], work[w])
  BY <1>1 DEF PassInv, Accounted, Started, Trusted
<1>3. \A next : Paired(job[w], next)
  BY <1>1, <1>2, NoCall
<1>4. work' = [work EXCEPT ![w] = Resting] /\ job' = job
  BY DEF PersistBatch, datasetVars
<1>5. CASE UNCHANGED checkpoint
  BY <1>1, <1>3, <1>4, <1>5, RestAccounts
<1>6. ASSUME NEW batch, batch.input = plan, batch.answered = answered, batches' = batches \cup {batch},
             NEW top, checkpoint' = top, top.cursor = [row.cursor EXCEPT ![s] = after]
      PROVE  Accounted(steady)'
  <2>1. ASSUME NEW g \in Games, Kept(g)', Asked(s, g), Passed(steady, after, g)
        PROVE  Answered(s, g)'
    <3>1. Kept(g)
      BY <2>1 DEF Onward
    <3>2. CASE g \in answered
      BY <1>6, <3>2 DEF Answered
    <3>3. CASE Passed(steady, plan, g)
      <4>1. Answered(s, g)
        BY <1>2, <2>1, <3>1, <3>3 DEF Honest
      <4> QED
        BY <1>6, <4>1 DEF Answered
    <3> QED
      BY <1>2, <2>1, <3>1, <3>2, <3>3 DEF Covers
  <2>2. after.day \notin steady => after.offset = 0
    BY <1>2 DEF Covers
  <2>3. Honest(steady, s, after)'
    BY <2>1, <2>2 DEF Honest, Asked, Passed
  <2>4. row.cursor \in [Exploratory -> Cursors]
    BY CheckpointTypes
  <2>5. ASSUME NEW other \in Exploratory PROVE Honest(steady, other, top.cursor[other])'
    <3>1. CASE other = s
      <4>1. top.cursor[other] = after
        BY <1>6, <2>4, <3>1
      <4> QED
        BY <2>3, <3>1, <4>1
    <3>2. CASE other # s
      <4> PICK cursor : cursor = row.cursor[other]
        OBVIOUS
      <4>1. top.cursor[other] = cursor
        BY <1>6, <2>4, <3>2
      <4>2. Honest(steady, other, cursor)
        BY <1>2 DEF HonestRow
      <4>3. Honest(steady, other, cursor)'
        BY <4>2, HonestKeeps
      <4> QED
        BY <4>1, <4>3
    <3> QED
      BY <3>1, <3>2
  <2>6. HonestRow(steady, top)'
    BY <2>5 DEF HonestRow
  <2> QED
    BY <1>3, <1>4, <1>6, <2>6, RestAccounts
<1>7. \/ UNCHANGED checkpoint
      \/ \E batch : /\ batch.input = plan /\ batch.answered = answered /\ batches' = batches \cup {batch}
                    /\ checkpoint'.cursor = [row.cursor EXCEPT ![s] = after]
  <2> PICK values : values = [status |-> work[w].status, cursor |-> [work[w].held.cursor EXCEPT ![s] = after],
                              version |-> work[w].held.version + 1, batches |-> work[w].held.batches + 1]
    OBVIOUS
  <2> PICK batch : batch = [sequence |-> values.batches, input |-> plan, after |-> after, answered |-> answered]
    OBVIOUS
  <2> PICK kept : kept = IF values.status # work[w].held.status THEN values.status ELSE row.status
    OBVIOUS
  <2>1. \/ UNCHANGED checkpoint
        \/ /\ batches' = batches \cup {batch}
           /\ checkpoint' = [row EXCEPT !.status = kept, !.cursor[s] = after, !.version = values.version,
                                        !.batches = values.batches, !.fingerprint = values]
    BY DEF PersistBatch
  <2>2. checkpoint' = [row EXCEPT !.status = kept, !.cursor[s] = after, !.version = values.version,
                                  !.batches = values.batches, !.fingerprint = values]
          => checkpoint'.cursor = [row.cursor EXCEPT ![s] = after]
    BY DEF Checkpoints
  <2>3. batch.input = plan /\ batch.answered = answered
    OBVIOUS
  <2> QED
    BY <2>1, <2>2, <2>3
<1> QED
  BY <1>5, <1>6, <1>7

LEMMA StopAccounts ==
  ASSUME IInv, IInv', Onward, NEW steady, PassInv(steady), NEW w \in Workers, GiveUp(w) \/ Stop(w)
  PROVE  Accounted(steady)'
<1>1. job \in [Workers -> JobRows]
  BY DEF IInv, Jobs
<1>2. work' = [work EXCEPT ![w] = Resting] /\ checkpoint' = checkpoint /\ work[w] # Resting
  BY DEF GiveUp, Stop, Resting
<1>3. job'[w] = Idle /\ \A v \in Workers \ {w} : job'[v] = job[v]
  BY <1>1 DEF GiveUp, Stop, datasetVars
<1> QED
  BY <1>2, <1>3, IdleIsPaired, RestAccounts

LEMMA DatasetAccounts ==
  ASSUME IInv, IInv', Onward, NEW steady, PassInv(steady), UNCHANGED <<checkpoint, work>>,
         DatasetStep \/ UNCHANGED job
  PROVE  Accounted(steady)'
<1>1. ASSUME NEW v \in Workers PROVE (Trusted(steady, work[v]) /\ Paired(job[v], work[v]))'
  <2> PICK row : row = work[v]
    OBVIOUS
  <2>1. Trusted(steady, row)'
    BY TrustKeeps DEF PassInv, Accounted
  <2>2. Paired(job[v], work[v])'
    <3>1. Paired(job[v], work[v])
      BY DEF PassInv, Accounted
    <3>2. CASE DatasetStep
      BY <3>1, <3>2, PairsOfCalls
    <3>3. CASE UNCHANGED job
      BY <3>1, <3>3 DEF Paired
    <3> QED
      BY <3>2, <3>3
  <2> QED
    BY <2>1, <2>2
<1> PICK top : top = checkpoint
  OBVIOUS
<1>2. Started => HonestRow(steady, top)'
  BY RowKeeps DEF PassInv, Accounted
<1>3. Started' = Started
  BY DEF Started
<1> QED
  BY <1>1, <1>2, <1>3 DEF Accounted

LEMMA PassStep ==
  ASSUME NEW steady \in SUBSET Int
  PROVE  IInv /\ IInv' /\ Pageable(steady) /\ Pageable(steady)' /\ PassInv(steady)
           /\ [Next]_vars /\ [NoReturn]_feed => PassInv(steady)'
<1> SUFFICES ASSUME IInv, IInv', Pageable(steady), Pageable(steady)', PassInv(steady),
                    [Next]_vars, [NoReturn]_feed
             PROVE  PassInv(steady)'
  OBVIOUS
<1>1. Onward
  BY OnwardStep
<1>2. Accounted(steady)'
  <2>1. CASE DatasetStep /\ UNCHANGED backfillVars
    BY <1>1, <2>1, DatasetAccounts DEF backfillVars
  <2>2. ASSUME NEW w \in Workers, BatchStep(w) \/ Stop(w)
        PROVE  Accounted(steady)'
    BY <1>1, <2>2, OpenAccounts, PlanAccounts, FinalizeAccounts, ReviewAccounts, CommitAccounts,
       StopAccounts DEF BatchStep
  <2>3. CASE UNCHANGED vars
    BY <1>1, <2>3, DatasetAccounts DEF vars, datasetVars, backfillVars
  <2> QED
    BY <2>1, <2>2, <2>3 DEF Next
<1>3. Calls(steady)' /\ Rows(steady)'
  BY <1>1, CallsStep, RowsStep
<1> QED
  BY <1>2, <1>3 DEF PassInv

LEMMA PassInit ==
  ASSUME Init, NEW steady
  PROVE  PassInv(steady)
<1>1. Rows(steady)
  BY RowsAssumption DEF Init, DatasetInit, Rows, Known
<1>2. Calls(steady)
  BY DEF Init, DatasetInit, Calls, CallFits, Idle, CollectionRows
<1>3. Accounted(steady)
  <2>1. ~Started
    BY DEF Init, Started
  <2>2. Trusted(steady, Resting)
    BY DEF Trusted, Resting
  <2> QED
    BY <2>1, <2>2, IdleIsPaired DEF Init, DatasetInit, Accounted
<1> QED
  BY <1>1, <1>2, <1>3 DEF PassInv

LEMMA PassedIsExamined ==
  ASSUME IInv, NEW steady, PassInv(steady)
  PROVE  ExaminedBehindTheCursor
<1> SUFFICES ASSUME checkpoint # NoRow, NEW s \in Exploratory, NEW g \in Games, Behind(s, g)
             PROVE  \E b \in batches : b.input.split = s /\ g \in b.answered
  BY DEF ExaminedBehindTheCursor
<1>1. Honest(steady, s, checkpoint.cursor[s])
  BY DEF PassInv, Accounted, Started, HonestRow
<1>2. Kept(g) /\ Asked(s, g) /\ Passed(steady, checkpoint.cursor[s], g)
  BY DEF Behind, Kept, Asked, Passed
<1> QED
  BY <1>1, <1>2 DEF Honest, Answered

(***************************************************************************)
(* The theorems.                                                           *)
(***************************************************************************)

\* Every row of the schedule, the snapshots, the examples and the checkpoint is
\* one its table allows, and every batch has an input and a sequence of its own,
\* however collections, backfills and fits of any number of workers interleave.
THEOREM TypeTheorem == Spec => []TypeOK
BY InitInvariant, NextInvariant, InvariantImplies, PTL DEF Spec

\* No example that a model may be fitted on or judged by violates the dataset
\* audit: what the stages check on the row their session holds is enough for the
\* timing, the lineage and the split of every label, although the schedule is
\* overwritten and its games are moved and corrected between any two stages.
THEOREM AuditTheorem == Spec => []DatasetPassesAudit
BY InitInvariant, NextInvariant, InvariantImplies, PTL DEF Spec

\* A stored model has the approved number of rows of each split, one of each game
\* and none of the holdout, although readiness and selection are read apart and
\* examples are added in between.
THEOREM FittedTheorem == Spec => []FittedModelsAreApproved
BY InitInvariant, NextInvariant, InvariantImplies, PTL DEF Spec

\* Where pages by offset are exact, no game that stays on its day is passed over: when
\* the cursor of its split is behind its day, a committed batch of that split examined
\* it with every source answering, however many workers run batches from one
\* checkpoint, fail, replay one another or are stopped before they commit.  The
\* hypotheses are what the pages of list_events rely on and nothing checks: a day whose
\* listing changes while it is paged through has fewer games than a page, and a game
\* that left its day stays away from it.
THEOREM ExaminedTheorem ==
  ASSUME NEW CONSTANT steady \in SUBSET Int
  PROVE  Spec /\ []Pageable(steady) /\ [][NoReturn]_feed => []ExaminedBehindTheCursor
<1>1. Init => IInv
  BY InitInvariant
<1>2. IInv /\ [Next]_vars => IInv'
  BY NextInvariant
<1>3. Init => PassInv(steady)
  BY PassInit
<1>4. IInv /\ IInv' /\ Pageable(steady) /\ Pageable(steady)' /\ PassInv(steady)
        /\ [Next]_vars /\ [NoReturn]_feed => PassInv(steady)'
  BY PassStep
<1>5. IInv /\ PassInv(steady) => ExaminedBehindTheCursor
  BY PassedIsExamined
<1> QED
  BY <1>1, <1>2, <1>3, <1>4, <1>5, PTL DEF Spec
=============================================================================
