--------------------------- MODULE NflPilotProofs ---------------------------
(***************************************************************************)
(* The NFL pilot, proved for any number of entries and of concurrent       *)
(* requests, any caps and any quotes, forecasts and resolutions.           *)
(***************************************************************************)
EXTENDS NflPilotProperties, NaturalInduction

-----------------------------------------------------------------------------
(* Rows.                                                                   *)

LEMMA FloorCentsType ==
  ASSUME NEW price \in Nat, NEW quantity \in Nat
  PROVE  FloorCents(price * quantity) \in Int
<1>1. price * quantity \in Nat
  OBVIOUS
<1> QED
  BY <1>1, PriceAssumption DEF FloorCents

\* Rows change a few columns at a time.
LEMMA WithMark ==
  ASSUME NEW row \in Rows, NEW mark \in Nat, NEW value \in Int, NEW unrealized \in Int
  PROVE  [row EXCEPT !.mark = mark, !.value = value, !.unrealized = unrealized] \in Rows
BY DEF Rows

LEMMA WithContracts ==
  ASSUME NEW row \in Rows, NEW remaining \in Nat, NEW disposed \in Nat
  PROVE  [row EXCEPT !.remaining = remaining, !.disposed = disposed] \in Rows
BY DEF Rows

LEMMA WithMoney ==
  ASSUME NEW row \in Rows, NEW basis \in Int, NEW realized \in Int
  PROVE  [row EXCEPT !.basis = basis, !.realized = realized] \in Rows
BY DEF Rows

LEMMA WithStatus ==
  ASSUME NEW row \in Rows, NEW status \in {"none", "open", "closed", "settled"}
  PROVE  [row EXCEPT !.status = status] \in Rows /\ [row EXCEPT !.status = status].status = status
BY DEF Rows

LEMMA WithValues ==
  ASSUME NEW row \in Rows, NEW basis \in Int, NEW value \in Int, NEW unrealized \in Int
  PROVE  [row EXCEPT !.basis = basis, !.value = value, !.unrealized = unrealized] \in Rows
BY DEF Rows

LEMMA MarkedType ==
  ASSUME NEW row \in Rows, NEW price \in Nat
  PROVE  Marked(row, price) \in Rows /\ Marked(row, price).status = row.status
<1> DEFINE value == FloorCents(price * row.remaining)
           unrealized == value - row.basis
<1>1. row.remaining \in Nat /\ row.basis \in Int
  BY DEF Rows
<1>2. value \in Int
  BY <1>1, FloorCentsType
<1>3. Marked(row, price) = [row EXCEPT !.mark = price, !.value = value,
                                       !.unrealized = unrealized]
  BY DEF Marked
<1> HIDE DEF value
<1>4. unrealized \in Int
  BY <1>1, <1>2
<1> HIDE DEF unrealized
<1>5. Marked(row, price) \in Rows
  <2> DEFINE marked == [row EXCEPT !.mark = price, !.value = value,
                                   !.unrealized = unrealized]
  <2>1. marked \in Rows
    BY <1>2, <1>4, WithMark
  <2>2. Marked(row, price) = marked
    BY <1>3
  <2> HIDE DEF marked
  <2> QED
    BY <2>1, <2>2
<1>6. Marked(row, price).status = row.status
  BY <1>3 DEF Rows
<1> QED
  BY <1>5, <1>6

LEMMA EmptiedType ==
  ASSUME NEW row \in Rows, NEW status \in {"closed", "settled"}
  PROVE  Emptied(row, status) \in Rows /\ Emptied(row, status).status = status
<1> DEFINE ended == [row EXCEPT !.status = status]
<1>1. ended \in Rows /\ ended.status = status
  BY WithStatus
<1>2. PICK zero \in Int : zero = 0
  OBVIOUS
<1>3. Emptied(row, status) = [ended EXCEPT !.basis = zero, !.value = zero, !.unrealized = zero]
  BY <1>2 DEF Emptied
<1> HIDE DEF ended
<1>4. Emptied(row, status).status = status
  BY <1>1, <1>3 DEF Rows
<1>5. Emptied(row, status) \in Rows
  <2> DEFINE after == [ended EXCEPT !.basis = zero, !.value = zero, !.unrealized = zero]
  <2>1. after \in Rows
    BY <1>1, <1>2, WithValues
  <2>2. Emptied(row, status) = after
    BY <1>3
  <2> HIDE DEF after
  <2> QED
    BY <2>1, <2>2
<1> QED
  BY <1>4, <1>5

\* What is sold of a position is at most what is left of it.
LEMMA SoldType ==
  ASSUME NEW row \in Rows, NEW sale \in Events, sale.quantity <= row.remaining
  PROVE  Sold(row, sale) \in Rows /\ Sold(row, sale).status = row.status
<1> DEFINE remaining == row.remaining - sale.quantity
           disposed == row.disposed + sale.quantity
           basis == row.basis - sale.released
           realized == row.realized + (sale.proceeds - sale.released)
           moved == [row EXCEPT !.remaining = remaining, !.disposed = disposed]
           after == Sold(row, sale)
<1>1. sale.quantity \in Nat /\ sale.released \in Int /\ sale.proceeds \in Int
  BY DEF Events
<1>2. remaining \in Nat /\ disposed \in Nat /\ basis \in Int /\ realized \in Int
  BY <1>1 DEF Rows
<1>3. after = [row EXCEPT !.remaining = remaining, !.disposed = disposed,
                          !.basis = basis, !.realized = realized]
  BY DEF Sold
<1> HIDE DEF remaining, disposed, basis, realized, after
<1>4. moved \in Rows
  BY <1>2, WithContracts
<1>5. after = [moved EXCEPT !.basis = basis, !.realized = realized]
  BY <1>3
<1>6. after.status = row.status
  BY <1>3 DEF Rows
<1>7. after \in Rows
  <2> HIDE DEF moved
  <2> QED
    BY <1>2, <1>4, <1>5, WithMoney
<1> QED
  BY <1>6, <1>7 DEF after

LEMMA ShareType ==
  ASSUME NEW remaining \in Nat, remaining > 0
  PROVE  (remaining + 1) \div 2 \in 1..remaining
OBVIOUS

LEMMA AllocatedType ==
  ASSUME NEW row \in Rows, NEW quantity \in Nat, quantity <= row.remaining
  PROVE  Allocated(row, quantity) \in Int
<1>1. row.remaining \in Nat /\ row.basis \in Int
  BY DEF Rows
<1>2. row.basis * quantity \in Int
  BY <1>1
<1>3. quantity # row.remaining => (row.basis * quantity) \div row.remaining \in Int
  BY <1>1, <1>2
<1> QED
  BY <1>1, <1>3 DEF Allocated

LEMMA EventType ==
  ASSUME NEW job \in JobRows, NEW price \in Nat,
         NEW quantity \in Nat, quantity <= job.row.remaining
  PROVE  Event(job, quantity, price) \in Events
         /\ Event(job, quantity, price).quantity = quantity
<1> DEFINE released == Allocated(job.row, quantity)
           proceeds == FloorCents(price * quantity)
<1>1. job.row \in Rows /\ job.decision \in Decisions
  BY DEF JobRows
<1>2. released \in Int
  BY <1>1, AllocatedType
<1>3. proceeds \in Int
  BY FloorCentsType
<1>4. Event(job, quantity, price) =
        [decision |-> job.decision, quantity |-> quantity,
         released |-> released, proceeds |-> proceeds]
  BY DEF Event
<1> HIDE DEF released, proceeds
<1> QED
  BY <1>1, <1>2, <1>3, <1>4 DEF Events

LEMMA NoSaleType == NoSale \in Events
BY DEF NoSale, NoDecision, Events, Decisions

LEMMA DispositionType ==
  ASSUME NEW left \in Rows, left.status = "open", NEW bid \in Nat
  PROVE  Disposition(left, bid) \in Rows
         /\ Disposition(left, bid).status \in {"open", "closed"}
<1>1. Marked(left, bid) \in Rows /\ Marked(left, bid).status = "open"
  BY MarkedType
<1>2. Emptied(Marked(left, bid), "closed") \in Rows
      /\ Emptied(Marked(left, bid), "closed").status = "closed"
  BY <1>1, EmptiedType
<1> QED
  BY <1>1, <1>2 DEF Disposition

LEMMA PayoutType ==
  ASSUME TypeOK, NEW payout \in resolutions
  PROVE  payout \in Nat
<1>1. 0..(100 * UnitsPerCent) \subseteq Nat
  BY PriceAssumption
<1>2. Payouts \subseteq Nat /\ resolutions \subseteq Payouts
  BY <1>1, PriceAssumption DEF TypeOK
<1> QED
  BY <1>2

LEMMA SaleType ==
  ASSUME TypeOK, NEW job \in JobRows, Sound(job)
  PROVE  Sale(job) \in Events /\ Sale(job).quantity <= job.row.remaining
<1>1. /\ job.row \in Rows /\ job.decision \in Decisions
      /\ job.kind \in {"mark", "settle", "dispose"} /\ job.row.remaining \in Nat
  BY DEF JobRows, Rows
<1>2. CASE job.kind = "mark"
  BY <1>1, <1>2, NoSaleType DEF Sale, NoSale
<1>3. CASE job.kind = "settle"
  <2>1. OfficialPayout \in resolutions
    BY <1>3 DEF Sound, OfficialPayout
  <2>2. OfficialPayout \in Nat
    BY <2>1, PayoutType
  <2>3. Sale(job) = Event(job, job.row.remaining, OfficialPayout)
    BY <1>3 DEF Sale
  <2> QED
    BY <1>1, <2>2, <2>3, EventType
<1>4. CASE job.kind = "dispose"
  <2> DEFINE quantity == Share(job.row, job.decision.action)
  <2>1. job.row.remaining > 0
    BY <1>4 DEF Sound
  <2>2. quantity \in Nat /\ quantity <= job.row.remaining
    BY <1>1, <2>1, ShareType DEF Share
  <2>3. quote.bid \in Nat
    BY DEF TypeOK
  <2>4. Sale(job) = Event(job, quantity, quote.bid)
    BY <1>4 DEF Sale
  <2> HIDE DEF quantity
  <2> QED
    BY <2>2, <2>3, <2>4, EventType
<1> QED
  BY <1>1, <1>2, <1>3, <1>4

\* What a request is about to write is a row, and one that is open or ended.
LEMMA AfterType ==
  ASSUME TypeOK, NEW job \in JobRows, Sound(job)
  PROVE  After(job) \in Rows /\ After(job).status \in {"open", "closed", "settled"}
<1> DEFINE left == Sold(job.row, Sale(job))
<1>1. /\ job.row \in Rows /\ job.row.status = "open"
      /\ job.kind \in {"mark", "settle", "dispose"}
  BY DEF JobRows, Sound
<1>2. quote.bid \in Nat /\ quote.ask \in Nat
  BY DEF TypeOK
<1>3. left \in Rows /\ left.status = "open"
  BY <1>1, SaleType, SoldType
<1>4. CASE job.kind = "mark"
  <2>1. After(job) = Marked(job.row, MarkPrice) /\ MarkPrice \in Nat
    BY <1>2, <1>4 DEF After, MarkPrice
  <2> QED
    BY <1>1, <2>1, MarkedType
<1>5. CASE job.kind = "settle"
  <2>1. After(job) = Emptied(left, "settled")
    BY <1>5 DEF After
  <2> HIDE DEF left
  <2> QED
    BY <1>3, <2>1, EmptiedType
<1>6. CASE job.kind = "dispose"
  <2>1. After(job) = Disposition(left, quote.bid)
    BY <1>6 DEF After
  <2> HIDE DEF left
  <2> QED
    BY <1>2, <1>3, <2>1, DispositionType
<1> QED
  BY <1>1, <1>4, <1>5, <1>6

-----------------------------------------------------------------------------
(* The inductive invariant.                                                *)

\* A row is only written for a position that was open when it was read, and
\* what a disposition sells it sells for its decision.
JudgedRight(request) ==
  request \in JobRows /\ request.step = "judged" =>
    /\ request.row.status = "open"
    /\ request.after.status \in {"open", "closed", "settled"}
    /\ request.kind = "dispose" => request.sale.decision = request.decision

JudgedOpen == \A w \in Requests : JudgedRight(requests[w])

\* Two requests never hold one lock, and what a disposition is about to use is
\* unused.
Excluded ==
  /\ \A w, x \in Jobs :
       w # x => ~(/\ Lock(requests[w].kind) = Lock(requests[x].kind)
                  /\ requests[w].entry = requests[x].entry)
  /\ \A w \in Jobs :
       requests[w].kind = "dispose" => ~Disposed(requests[w].entry, requests[w].decision)

\* What has ended holds nothing.
EndedEmpty ==
  \A e \in Entries :
    positions[e].status \in {"closed", "settled"} =>
      \A column \in {"remaining", "basis", "value"} : positions[e][column] = 0

IInv ==
  /\ TypeOK /\ JudgedOpen /\ Excluded /\ EndedEmpty
  /\ AggregateCapHolds /\ DecisionIsUsedOnce

JobKinds == {"mark", "settle", "dispose"}

LEMMA KindOfRequest ==
  ASSUME TypeOK, NEW w \in Requests
  PROVE  /\ requests[w] \in RequestRows
         /\ w \in Jobs => requests[w] \in JobRows
         /\ requests[w].kind = "monitor" => requests[w] \in Passes
<1>1. requests[w] \in RequestRows
  BY DEF TypeOK
<1>2. Idle.kind = "idle" /\ \A p \in Passes : p.kind = "monitor"
  BY DEF Idle, Passes
<1>3. \A j \in JobRows : j.kind \in JobKinds
  BY DEF JobRows, JobKinds
<1> QED
  BY <1>1, <1>2, <1>3 DEF RequestRows, Jobs, JobKinds

LEMMA QuoteStatusType == QuoteStatus \in {"fresh", "stale", "unusable"}
BY DEF QuoteStatus

LEMMA DecisionRow ==
  ASSUME NEW p \in Nat, NEW f \in Nat, NEW a \in {"hold", "reduce", "close"},
         NEW b \in BOOLEAN
  PROVE  [price |-> p, forecast |-> f, action |-> a, attention |-> b] \in Decisions
BY Zenon DEF Decisions

LEMMA RecommendationType ==
  ASSUME TypeOK, NEW f \in Nat
  PROVE  Recommendation(f) \in Decisions
<1> DEFINE good == QuoteStatus = "fresh" /\ f \notin expired
           action == IF ~good \/ forecasts[f] - quote.bid >= HoldEdge THEN "hold"
                     ELSE IF forecasts[f] - quote.bid <= 0 THEN "close" ELSE "reduce"
           attention == ~good \/ action # "hold"
<1>1. action \in {"hold", "reduce", "close"}
  OBVIOUS
<1>2. attention \in BOOLEAN
  OBVIOUS
<1>3. quote.id \in Nat
  BY DEF TypeOK
<1>4. Recommendation(f) =
        [price |-> quote.id, forecast |-> f, action |-> action, attention |-> attention]
  BY DEF Recommendation
<1> HIDE DEF action, attention
<1>5. [price |-> quote.id, forecast |-> f, action |-> action, attention |-> attention]
        \in Decisions
  BY <1>1, <1>2, <1>3, DecisionRow
<1> QED
  BY <1>4, <1>5, Zenon

-----------------------------------------------------------------------------
(* Steps that change nothing but what one request is doing.                *)

\* A request becomes a job only if the lock is free, and keeps its lock, entry
\* and decision for as long as it is one.
Admitted(w, request) ==
  \/ request.kind \notin JobKinds
  \/ /\ w \in Jobs /\ request.kind = requests[w].kind
     /\ request.entry = requests[w].entry /\ request.decision = requests[w].decision
  \/ /\ Free(request.kind, request.entry)
     /\ request.kind = "dispose" => ~Disposed(request.entry, request.decision)

LEMMA QuietExclusion ==
  ASSUME TypeOK, Excluded, NEW w \in Requests, NEW request, Admitted(w, request),
         requests' = [requests EXCEPT ![w] = request], UNCHANGED dispositions
  PROVE  Excluded'
<1>1. requests'[w] = request /\ \A x \in Requests : x # w => requests'[x] = requests[x]
  BY DEF TypeOK
<1>2. Jobs' \subseteq Requests /\ \A x \in Requests : x # w => (x \in Jobs' <=> x \in Jobs)
  BY <1>1 DEF Jobs
<1>3. \A e, d : Disposed(e, d)' <=> Disposed(e, d)
  BY DEF Disposed
<1>4. ASSUME NEW x \in Jobs, x # w, w \in Jobs'
      PROVE  ~(Lock(request.kind) = Lock(requests[x].kind) /\ request.entry = requests[x].entry)
  <2>1. request.kind \in JobKinds
    BY <1>1, <1>4 DEF Jobs, JobKinds
  <2>2. CASE w \in Jobs /\ request.kind = requests[w].kind /\ request.entry = requests[w].entry
    BY <1>4, <2>2 DEF Excluded
  <2>3. CASE Free(request.kind, request.entry)
    BY <1>4, <2>3 DEF Free, Jobs
  <2> QED
    BY <2>1, <2>2, <2>3 DEF Admitted
<1>5. ASSUME NEW x \in Jobs', NEW y \in Jobs', x # y
      PROVE  ~(/\ Lock(requests'[x].kind) = Lock(requests'[y].kind)
               /\ requests'[x].entry = requests'[y].entry)
  <2>1. CASE x = w
    BY <1>1, <1>2, <1>4, <1>5, <2>1
  <2>2. CASE y = w
    BY <1>1, <1>2, <1>4, <1>5, <2>2
  <2>3. CASE x # w /\ y # w
    BY <1>1, <1>2, <1>5, <2>3 DEF Excluded
  <2> QED
    BY <2>1, <2>2, <2>3
<1>6. ASSUME NEW x \in Jobs', requests'[x].kind = "dispose"
      PROVE  ~Disposed(requests'[x].entry, requests'[x].decision)
  <2>1. CASE x # w
    BY <1>1, <1>2, <1>6, <2>1 DEF Excluded
  <2>2. CASE x = w
    BY <1>1, <1>6, <2>2 DEF Admitted, Excluded, JobKinds
  <2> QED
    BY <2>1, <2>2
<1> QED
  BY <1>3, <1>5, <1>6, Zenon DEF Excluded, Lock

JournalTypes(d, a, c) ==
  /\ d \in [Entries -> SUBSET Decisions] /\ a \in [Entries -> SUBSET Decisions]
  /\ c \in [Entries -> SUBSET [price : Nat, status : {"fresh", "stale", "unusable"}]]

LEMMA CapKept ==
  ASSUME AggregateCapHolds, UNCHANGED <<entries, positions>>
  PROVE  AggregateCapHolds'
BY DEF AggregateCapHolds, Committed, Exposure

LEMMA JudgedKept ==
  ASSUME TypeOK, JudgedOpen, NEW w \in Requests, NEW request, JudgedRight(request),
         requests' = [requests EXCEPT ![w] = request]
  PROVE  JudgedOpen'
<1>1. \A x \in Requests : requests'[x] = request \/ requests'[x] = requests[x]
  BY DEF TypeOK
<1>2. \A x \in Requests : JudgedRight(requests'[x])
  BY <1>1 DEF JudgedOpen
<1> QED
  BY <1>2 DEF JudgedOpen, JudgedRight

\* A step of one request that writes no ledger keeps the invariant.
LEMMA RequestStep ==
  ASSUME IInv, NEW w \in Requests, NEW request \in RequestRows, Admitted(w, request),
         JudgedRight(request), requests' = [requests EXCEPT ![w] = request],
         JournalTypes(decisions', alerts', checks'), UNCHANGED <<evidence, entries, ledger>>
  PROVE  IInv'
<1>1. requests' \in [Requests -> RequestRows]
  BY DEF IInv, TypeOK
<1>2. TypeOK'
  BY <1>1 DEF IInv, TypeOK, evidence, ledger, JournalTypes
<1>3. JudgedOpen'
  BY JudgedKept DEF IInv
<1>4. Excluded'
  BY QuietExclusion DEF IInv, ledger
<1>5. EndedEmpty'
  BY DEF IInv, EndedEmpty, ledger
<1>6. AggregateCapHolds'
  BY CapKept DEF IInv, ledger
<1>7. DecisionIsUsedOnce'
  BY DEF IInv, DecisionIsUsedOnce, ledger
<1> QED
  BY <1>2, <1>3, <1>4, <1>5, <1>6, <1>7 DEF IInv

\* The same when no journal is written either.
LEMMA QuietStep ==
  ASSUME IInv, NEW w \in Requests, NEW request \in RequestRows, Admitted(w, request),
         JudgedRight(request), requests' = [requests EXCEPT ![w] = request],
         UNCHANGED <<evidence, entries, journal, ledger>>
  PROVE  IInv'
<1>1. JournalTypes(decisions', alerts', checks')
  BY DEF IInv, TypeOK, journal, JournalTypes
<1> QED
  BY <1>1, RequestStep
-----------------------------------------------------------------------------
(* What each step makes of a request.                                      *)

LEMMA IdleRequest ==
  /\ Idle \in RequestRows /\ JudgedRight(Idle)
  /\ \A w : Admitted(w, Idle)
<1>1. Idle.kind = "idle"
  BY DEF Idle
<1>2. \A j \in JobRows : j.kind \in JobKinds
  BY DEF JobRows, JobKinds
<1>3. Idle.kind \notin JobKinds
  BY <1>1 DEF JobKinds
<1> QED
  BY <1>2, <1>3 DEF RequestRows, JudgedRight, Admitted

LEMMA PassRequest ==
  ASSUME NEW pass \in Passes
  PROVE  /\ pass \in RequestRows /\ JudgedRight(pass)
         /\ \A w : Admitted(w, pass)
<1>1. pass.kind = "monitor"
  BY DEF Passes
<1>2. \A j \in JobRows : j.kind \in JobKinds
  BY DEF JobRows, JobKinds
<1>3. pass.kind \notin JobKinds
  BY <1>1 DEF JobKinds
<1> QED
  BY <1>2, <1>3 DEF RequestRows, JudgedRight, Admitted

LEMMA PassAt ==
  ASSUME NEW pass \in Passes, NEW step \in {"next", "alert", "check", "mark", "expired"}
  PROVE  [pass EXCEPT !.step = step] \in Passes
BY DEF Passes

LEMMA HeldType ==
  ASSUME NEW kind \in JobKinds, NEW e \in Entries, NEW row \in Rows,
         NEW decision \in Decisions, NEW key \in Nat, NEW caller \in {Idle} \union Passes
  PROVE  LET job == Held(kind, e, row, decision, key, caller)
         IN  /\ job \in JobRows /\ job.step = "locked"
             /\ job.kind = kind /\ job.entry = e /\ job.decision = decision
<1>1. NoSale \in Events
  BY NoSaleType
<1> QED
  BY <1>1 DEF Held, JobRows, JobKinds

JudgedJob(job, after, sale, price) ==
  [job EXCEPT !.step = "judged", !.after = after, !.sale = sale, !.price = price]

LEMMA JudgedType ==
  ASSUME NEW job \in JobRows, NEW after \in Rows, NEW sale \in Events, NEW price \in Nat
  PROVE  LET judged == JudgedJob(job, after, sale, price)
         IN  /\ judged \in JobRows
             /\ judged.kind = job.kind /\ judged.entry = job.entry
             /\ judged.decision = job.decision /\ judged.row = job.row
             /\ judged.after = after /\ judged.sale = sale
<1> DEFINE judged == JudgedJob(job, after, sale, price)
           half == [job EXCEPT !.step = "judged", !.price = price]
<1>1. half \in JobRows
  BY DEF JobRows
<1>2. /\ half.kind = job.kind /\ half.entry = job.entry
      /\ half.decision = job.decision /\ half.row = job.row
  BY DEF JobRows
<1>3. judged = [half EXCEPT !.after = after, !.sale = sale]
  BY DEF JobRows, JudgedJob
<1> HIDE DEF half, judged
<1>4. judged \in JobRows
  BY <1>1, <1>3 DEF JobRows
<1>5. /\ judged.kind = half.kind /\ judged.entry = half.entry
      /\ judged.decision = half.decision /\ judged.row = half.row
      /\ judged.after = after /\ judged.sale = sale
  BY <1>1, <1>3 DEF JobRows
<1> QED
  BY <1>2, <1>4, <1>5 DEF judged

\* The row that a request of an entry finds or makes.
LEMMA PositionType ==
  ASSUME TypeOK, NEW e \in Entries
  PROVE  Position(e) \in Rows
<1>1. entries[e] \in [quantity : Nat, cost : Nat]
  BY CapAssumption DEF TypeOK, NoEntry
<1>2. NewRow(entries[e]) \in Rows
  BY <1>1 DEF NewRow, Rows
<1>3. positions[e] \in Rows
  BY DEF TypeOK
<1> QED
  BY <1>2, <1>3 DEF Position

LEMMA NoDecisionType == NoDecision \in Decisions
<1>1. FALSE \in BOOLEAN /\ 0 \in Nat /\ "hold" \in {"hold", "reduce", "close"}
  OBVIOUS
<1> QED
  BY <1>1, DecisionRow DEF NoDecision
-----------------------------------------------------------------------------
(* Exposure.                                                               *)

LEMMA ExposureType ==
  ASSUME TypeOK
  PROVE  /\ EntryCount \in Nat /\ Exposure \in [1..EntryCount -> Int]
         /\ \A e \in Entries : entries[e].cost \in Nat /\ Exposure[e] \in Nat
<1>1. \A e \in Entries : entries[e].cost \in Nat
  BY CapAssumption DEF TypeOK, NoEntry
<1>2. EntryCount \in Nat
  BY EntryAssumption
<1> QED
  BY <1>1, <1>2 DEF Exposure, Entries

LEMMA InitInv == Init => IInv
<1> SUFFICES ASSUME Init PROVE IInv
  OBVIOUS
<1>1. TypeOK
  <2>1. quote \in [id : Nat, bid : Nat, ask : Nat, stale : BOOLEAN]
    <3>1. PICK q \in Quotes : quote = [id |-> 1, bid |-> q.bid, ask |-> q.ask, stale |-> FALSE]
      BY DEF Init
    <3>2. q.bid \in Nat /\ q.ask \in Nat
      BY PriceAssumption
    <3>3. 1 \in Nat /\ FALSE \in BOOLEAN
      OBVIOUS
    <3> QED
      BY <3>1, <3>2, <3>3, Zenon
  <2>2. forecasts \in Seq(Nat)
    <3>1. PICK expected \in Nat : forecasts = <<expected>>
      BY PriceAssumption DEF Init
    <3> QED
      BY <3>1
  <2>3. NoRow \in Rows
    BY DEF NoRow, Rows
  <2>4. resolutions \subseteq Payouts /\ entries \in [Entries -> Fills \union {NoEntry}]
    BY DEF Init
  <2>5. positions \in [Entries -> Rows]
    BY <2>3 DEF Init
  <2>6. requests \in [Requests -> RequestRows]
    BY IdleRequest DEF Init
  <2> QED
    BY <2>1, <2>2, <2>4, <2>5, <2>6 DEF Init, TypeOK
<1>2. JudgedOpen
  BY IdleRequest DEF Init, JudgedOpen
<1>3. Excluded
  <2>1. Jobs = {}
    BY DEF Init, Jobs, Idle
  <2> QED
    BY <2>1 DEF Excluded
<1>4. EndedEmpty
  BY DEF Init, EndedEmpty, NoRow
<1>5. AggregateCapHolds
  <2>1. Exposure \in [1..EntryCount -> {0}]
    BY DEF Init, Exposure, NoEntry, Entries
  <2>2. Committed = 0
    BY <2>1, EntryAssumption, RowTotalOfNothing DEF Committed
  <2> QED
    BY <2>2, CapAssumption DEF AggregateCapHolds
<1>6. DecisionIsUsedOnce
  BY DEF Init, DecisionIsUsedOnce
<1> QED
  BY <1>1, <1>2, <1>3, <1>4, <1>5, <1>6 DEF IInv

\* Evidence that arrives touches nothing that the invariant speaks of.
LEMMA ArriveStep ==
  ASSUME IInv, Arrive
  PROVE  IInv'
<1>1. UNCHANGED <<entries, journal, ledger, requests>>
  BY DEF Arrive, Publish, GoStale, Forecast, Expire, Resolve
<1>2. quote' \in [id : Nat, bid : Nat, ask : Nat, stale : BOOLEAN]
  <2>1. quote \in [id : Nat, bid : Nat, ask : Nat, stale : BOOLEAN]
    BY DEF IInv, TypeOK
  <2>2. ASSUME NEW new \in Quotes, Publish(new)
        PROVE  quote' \in [id : Nat, bid : Nat, ask : Nat, stale : BOOLEAN]
    <3>1. quote' = [id |-> quote.id + 1, bid |-> new.bid, ask |-> new.ask, stale |-> FALSE]
      BY <2>2 DEF Publish
    <3>2. new.bid \in Nat /\ new.ask \in Nat
      BY PriceAssumption
    <3>3. quote.id + 1 \in Nat /\ FALSE \in BOOLEAN
      BY <2>1
    <3> QED
      BY <3>1, <3>2, <3>3, Zenon
  <2>3. CASE GoStale
    <3>1. quote' = [quote EXCEPT !.stale = TRUE]
      BY <2>3 DEF GoStale
    <3>2. quote' = [id |-> quote.id, bid |-> quote.bid, ask |-> quote.ask, stale |-> TRUE]
      BY <2>1, <3>1
    <3>3. quote.id \in Nat /\ quote.bid \in Nat /\ quote.ask \in Nat /\ TRUE \in BOOLEAN
      BY <2>1
    <3> QED
      BY <3>2, <3>3, Zenon
  <2>4. CASE quote' = quote
    BY <2>1, <2>4
  <2> QED
    BY <2>2, <2>3, <2>4 DEF Arrive, Forecast, Expire, Resolve
<1>3. forecasts' \in Seq(Nat)
  <2>1. forecasts \in Seq(Nat)
    BY DEF IInv, TypeOK
  <2>2. ASSUME NEW expected \in Nat, forecasts' = Append(forecasts, expected)
        PROVE  forecasts' \in Seq(Nat)
    BY <2>1, <2>2
  <2> QED
    BY <2>1, <2>2, PriceAssumption DEF Arrive, Publish, GoStale, Forecast, Expire, Resolve
<1>4. resolutions' \subseteq Payouts
  BY DEF IInv, TypeOK, Arrive, Publish, GoStale, Forecast, Expire, Resolve
<1>5. TypeOK'
  BY <1>1, <1>2, <1>3, <1>4 DEF IInv, TypeOK, journal, ledger
<1>6. JudgedOpen' /\ EndedEmpty' /\ DecisionIsUsedOnce'
  BY <1>1 DEF IInv, JudgedOpen, JudgedRight, EndedEmpty, DecisionIsUsedOnce, ledger
<1>7. Excluded'
  BY <1>1 DEF IInv, Excluded, Jobs, Disposed, ledger
<1>8. AggregateCapHolds'
  BY <1>1, CapKept DEF IInv, ledger
<1> QED
  BY <1>5, <1>6, <1>7, <1>8 DEF IInv

\* An entry that fits under the cap keeps it.
LEMMA EnterStep ==
  ASSUME IInv, NEW e \in Entries, NEW fill \in Fills, Enter(e, fill)
  PROVE  IInv'
<1> USE DEF IInv
<1>1. /\ entries[e] = NoEntry /\ fill.cost <= AggregateCap - Committed
      /\ entries' = [entries EXCEPT ![e] = fill]
      /\ UNCHANGED <<evidence, journal, ledger, requests>>
  BY DEF Enter
<1>2. fill.cost \in Nat
  BY CapAssumption
<1>3. TypeOK'
  BY <1>1 DEF TypeOK, evidence, journal, ledger
<1>4. JudgedOpen' /\ EndedEmpty' /\ DecisionIsUsedOnce'
  BY <1>1 DEF JudgedOpen, JudgedRight, EndedEmpty, DecisionIsUsedOnce, ledger
<1>5. Excluded'
  BY <1>1 DEF Excluded, Jobs, Disposed, ledger
<1>6. AggregateCapHolds'
  <2> DEFINE old == Exposure
             amount == Exposure'[e]
  <2>1. /\ EntryCount \in Nat /\ old \in [1..EntryCount -> Int] /\ e \in 1..EntryCount
        /\ old[e] = 0
    BY <1>1, ExposureType DEF Exposure, NoEntry, Entries
  <2>2. Exposure' = [old EXCEPT ![e] = amount]
    BY <1>1 DEF Exposure, TypeOK, ledger
  <2>3. amount \in Int /\ amount <= fill.cost
    BY <1>1, <1>2 DEF Exposure, TypeOK, ledger
  <2>4. Committed' = TotalOf(EntryCount, [old EXCEPT ![e] = amount])
    BY <2>2 DEF Committed
  <2>5. Committed = TotalOf(EntryCount, old) /\ TotalOf(EntryCount, old) \in Int
    BY <2>1, RowTotalType DEF Committed
  <2> HIDE DEF old, amount
  <2>6. Committed' = Committed - old[e] + amount
    BY <2>1, <2>3, <2>4, <2>5, RowTotalUpdate
  <2> QED
    BY <1>1, <1>2, <2>1, <2>3, <2>5, <2>6, CapAssumption DEF AggregateCapHolds
<1> QED
  BY <1>3, <1>4, <1>5, <1>6
-----------------------------------------------------------------------------
(* Requests that take a lock, judge, give up or end.                       *)

LEMMA BeginLifecycleStep ==
  ASSUME IInv, NEW w \in Requests, NEW e \in Entries, NEW kind \in {"mark", "settle"},
         BeginLifecycle(w, kind, e)
  PROVE  IInv'
<1> DEFINE job == Held(kind, e, Position(e), NoDecision, 0, Idle)
<1>1. /\ Free(kind, e) /\ requests' = [requests EXCEPT ![w] = job]
      /\ UNCHANGED <<evidence, entries, journal, ledger>>
  BY DEF BeginLifecycle
<1>2. Position(e) \in Rows
  BY PositionType DEF IInv
<1>3. kind \in JobKinds /\ 0 \in Nat
  BY DEF JobKinds
<1>4. job \in JobRows /\ job.step = "locked" /\ job.kind = kind /\ job.entry = e
  BY <1>2, <1>3, HeldType, NoDecisionType
<1> HIDE DEF job
<1>5. job \in RequestRows /\ JudgedRight(job)
  BY <1>4 DEF RequestRows, JudgedRight
<1>6. Admitted(w, job)
  BY <1>1, <1>4 DEF Admitted
<1> QED
  BY <1>1, <1>5, <1>6, QuietStep

LEMMA BeginDisposalStep ==
  ASSUME IInv, NEW w \in Requests, NEW e \in Entries, NEW decision \in decisions[e],
         BeginDisposal(w, e, decision)
  PROVE  IInv'
<1> DEFINE job == Held("dispose", e, positions[e], decision, 0, Idle)
<1>1. /\ Free("dispose", e) /\ ~Disposed(e, decision)
      /\ requests' = [requests EXCEPT ![w] = job]
      /\ UNCHANGED <<evidence, entries, journal, ledger>>
  BY DEF BeginDisposal
<1>2. positions[e] \in Rows /\ decision \in Decisions
  BY DEF IInv, TypeOK
<1>3. "dispose" \in JobKinds /\ 0 \in Nat
  BY DEF JobKinds
<1>4. /\ job \in JobRows /\ job.step = "locked"
      /\ job.kind = "dispose" /\ job.entry = e /\ job.decision = decision
  BY <1>2, <1>3, HeldType
<1> HIDE DEF job
<1>5. job \in RequestRows /\ JudgedRight(job)
  BY <1>4 DEF RequestRows, JudgedRight
<1>6. Admitted(w, job)
  BY <1>1, <1>4 DEF Admitted
<1> QED
  BY <1>1, <1>5, <1>6, QuietStep

LEMMA BeginPassStep ==
  ASSUME IInv, NEW w \in Requests, BeginPass(w)
  PROVE  IInv'
<1> DEFINE pass == [kind |-> "monitor", step |-> "next", loaded |-> positions, todo |-> Open,
                    entry |-> 1, decision |-> NoDecision, status |-> "fresh"]
<1>1. requests' = [requests EXCEPT ![w] = pass] /\ UNCHANGED <<evidence, entries, journal, ledger>>
  BY DEF BeginPass
<1>2. positions \in [Entries -> Rows] /\ Open \in SUBSET Entries /\ 1 \in Entries
  BY EntryAssumption DEF IInv, TypeOK, Open, Entries
<1>3. pass \in Passes
  <2> HIDE DEF Entries
  <2> QED
    BY <1>2, NoDecisionType DEF Passes
<1> HIDE DEF pass
<1> QED
  BY <1>1, <1>3, PassRequest, QuietStep

LEMMA JudgeStep ==
  ASSUME IInv, NEW w \in Requests, Judge(w)
  PROVE  IInv'
<1> DEFINE job == requests[w]
           judged == [job EXCEPT !.step = "judged", !.after = After(job), !.sale = Sale(job),
                                 !.price = quote.id]
<1>1. /\ w \in Jobs /\ Sound(job) /\ requests' = [requests EXCEPT ![w] = judged]
      /\ UNCHANGED <<evidence, entries, journal, ledger>>
  BY DEF Judge
<1>2. job \in JobRows
  BY <1>1, KindOfRequest DEF IInv
<1>3. /\ After(job) \in Rows /\ After(job).status \in {"open", "closed", "settled"}
      /\ Sale(job) \in Events /\ quote.id \in Nat
  BY <1>1, <1>2, AfterType, SaleType DEF IInv, TypeOK
<1>4. job.row.status = "open" /\ (job.kind = "dispose" => Sale(job).decision = job.decision)
  BY <1>1 DEF Sound, Sale, Event
<1>5. /\ judged \in JobRows
      /\ judged.kind = job.kind /\ judged.entry = job.entry
      /\ judged.decision = job.decision /\ judged.row = job.row
      /\ judged.after = After(job) /\ judged.sale = Sale(job)
  <2> DEFINE after == After(job)
             sale == Sale(job)
             price == quote.id
  <2>1. judged = JudgedJob(job, after, sale, price)
    BY DEF JudgedJob
  <2>2. job \in JobRows /\ after \in Rows /\ sale \in Events /\ price \in Nat
    BY <1>2, <1>3
  <2> HIDE DEF job, judged, after, sale, price
  <2> QED
    BY <2>1, <2>2, JudgedType DEF after, sale
<1> HIDE DEF judged
<1>6. judged \in RequestRows /\ JudgedRight(judged)
  BY <1>3, <1>4, <1>5 DEF RequestRows, JudgedRight
<1>7. Admitted(w, judged)
  BY <1>1, <1>5 DEF Admitted
<1> QED
  BY <1>1, <1>6, <1>7, QuietStep

\* A request that ends leaves its caller, a pass or nobody.
LEMMA CallerRequest ==
  ASSUME TypeOK, NEW w \in Jobs
  PROVE  /\ requests[w].caller \in RequestRows /\ JudgedRight(requests[w].caller)
         /\ Admitted(w, requests[w].caller)
         /\ requests[w].caller = Idle \/ requests[w].caller \in Passes
<1>1. w \in Requests
  BY DEF Jobs
<1>2. requests[w].caller = Idle \/ requests[w].caller \in Passes
  BY <1>1, KindOfRequest DEF JobRows
<1> QED
  BY <1>2, IdleRequest, PassRequest

LEMMA IdleStep ==
  ASSUME IInv, NEW w \in Requests, requests' = [requests EXCEPT ![w] = Idle],
         UNCHANGED <<evidence, entries, journal, ledger>>
  PROVE  IInv'
BY IdleRequest, QuietStep

LEMMA ReplayStep ==
  ASSUME IInv, NEW w \in Requests, Replay(w)
  PROVE  IInv'
<1>1. /\ w \in Jobs /\ requests' = [requests EXCEPT ![w] = requests[w].caller]
      /\ UNCHANGED <<evidence, entries, journal, ledger>>
  BY DEF Replay
<1> QED
  BY <1>1, CallerRequest, QuietStep DEF IInv

LEMMA RefuseStep ==
  ASSUME IInv, NEW w \in Requests, Refuse(w)
  PROVE  IInv'
<1> DEFINE caller == requests[w].caller
<1>1. /\ w \in Jobs
      /\ requests' = [requests EXCEPT ![w] =
           IF caller = Idle THEN Idle ELSE [caller EXCEPT !.step = "expired"]]
      /\ UNCHANGED <<evidence, entries, journal, ledger>>
  BY DEF Refuse
<1>2. caller = Idle \/ caller \in Passes
  BY <1>1, CallerRequest DEF IInv
<1>3. CASE caller = Idle
  BY <1>1, <1>3, IdleStep
<1>4. CASE caller # Idle
  <2> DEFINE pass == [caller EXCEPT !.step = "expired"]
  <2>1. caller \in Passes
    BY <1>2, <1>4
  <2>2. requests' = [requests EXCEPT ![w] = pass]
    BY <1>1, <1>4
  <2> HIDE DEF caller
  <2>3. pass \in Passes
    BY <2>1, PassAt
  <2> HIDE DEF pass
  <2> QED
    BY <1>1, <2>2, <2>3, PassRequest, QuietStep
<1> QED
  BY <1>3, <1>4

LEMMA CallMarkStep ==
  ASSUME IInv, NEW w \in Requests, CallMark(w)
  PROVE  IInv'
<1> DEFINE pass == requests[w]
           next == [pass EXCEPT !.step = "next"]
           job == Held("mark", pass.entry, pass.loaded[pass.entry], NoDecision,
                       pass.decision.price, next)
<1>1. /\ pass.kind = "monitor" /\ Free("mark", pass.entry)
      /\ requests' = [requests EXCEPT ![w] = job]
      /\ UNCHANGED <<evidence, entries, journal, ledger>>
  BY DEF CallMark, At
<1>2. pass \in Passes
  BY <1>1, KindOfRequest DEF IInv
<1>3. /\ pass.entry \in Entries /\ pass.loaded[pass.entry] \in Rows
      /\ pass.decision.price \in Nat
  BY <1>2 DEF Passes, Decisions
<1>4. next \in {Idle} \union Passes
  BY <1>2, PassAt
<1>5. "mark" \in JobKinds
  BY DEF JobKinds
<1> HIDE DEF next
<1>6. /\ job \in JobRows /\ job.step = "locked"
      /\ job.kind = "mark" /\ job.entry = pass.entry
  BY <1>3, <1>4, <1>5, NoDecisionType, HeldType
<1> HIDE DEF job
<1>7. job \in RequestRows /\ JudgedRight(job)
  BY <1>6 DEF RequestRows, JudgedRight
<1>8. Admitted(w, job)
  BY <1>1, <1>6 DEF Admitted
<1> QED
  BY <1>1, <1>7, <1>8, QuietStep
-----------------------------------------------------------------------------
(* What a pass writes.                                                     *)

LEMMA JournalNow ==
  ASSUME TypeOK
  PROVE  JournalTypes(decisions, alerts, checks)
BY DEF TypeOK, JournalTypes

LEMMA DecidedType ==
  ASSUME TypeOK, NEW e \in Entries, NEW judged \in Decisions
  PROVE  Decided(e, judged) \in Decisions
<1>1. decisions[e] \subseteq Decisions
  BY DEF TypeOK
<1>2. CASE \E d \in decisions[e] : d.price = judged.price /\ d.forecast = judged.forecast
  <2>1. PICK d \in decisions[e] : d.price = judged.price /\ d.forecast = judged.forecast
    BY <1>2
  <2>2. Decided(e, judged) \in decisions[e]
    BY <1>2 DEF Decided
  <2> QED
    BY <1>1, <2>2
<1>3. CASE ~\E d \in decisions[e] : d.price = judged.price /\ d.forecast = judged.forecast
  BY <1>3 DEF Decided
<1> QED
  BY <1>2, <1>3

LEMMA AssessStep ==
  ASSUME IInv, NEW w \in Requests, NEW e \in Entries, Assess(w, e)
  PROVE  IInv'
<1> DEFINE decision == Decided(e, Recommendation(Len(forecasts)))
           before == requests[w]
           pass == [kind |-> "monitor", step |-> "alert", loaded |-> before.loaded,
                    todo |-> before.todo \ {e}, entry |-> e, decision |-> decision,
                    status |-> QuoteStatus]
<1>1. TypeOK
  BY DEF IInv
<1>2. decision \in Decisions
  <2>1. Len(forecasts) \in Nat
    BY DEF IInv, TypeOK
  <2>2. Recommendation(Len(forecasts)) \in Decisions
    BY <1>1, <2>1, RecommendationType
  <2> QED
    BY <1>1, <2>2, DecidedType
<1>3. before \in Passes
  BY KindOfRequest DEF IInv, Assess, At
<1> HIDE DEF decision
<1>4. /\ decisions' = [decisions EXCEPT ![e] = @ \union {decision}]
      /\ requests' = [requests EXCEPT ![w] = pass]
      /\ UNCHANGED <<evidence, entries, alerts, checks, ledger>>
  BY <1>1 DEF Assess, decision, TypeOK
<1>5. JournalTypes(decisions', alerts', checks')
  <2>1. decisions' \in [Entries -> SUBSET Decisions]
    BY <1>1, <1>2, <1>4 DEF TypeOK
  <2> QED
    BY <1>1, <1>4, <2>1 DEF TypeOK, JournalTypes
<1>6. pass \in Passes
  <2>1. before.loaded \in [Entries -> Rows] /\ before.todo \ {e} \in SUBSET Entries
    BY <1>3 DEF Passes
  <2> HIDE DEF before
  <2> QED
    BY <1>2, <2>1, QuoteStatusType DEF Passes
<1> HIDE DEF pass
<1> QED
  BY <1>4, <1>5, <1>6, PassRequest, RequestStep

LEMMA AlertStep ==
  ASSUME IInv, NEW w \in Requests, Alert(w)
  PROVE  IInv'
<1> DEFINE before == requests[w]
           pass == [before EXCEPT !.step = "check"]
<1>1. TypeOK
  BY DEF IInv
<1>2. before \in Passes
  BY KindOfRequest DEF IInv, Alert, At
<1>3. before.entry \in Entries /\ before.decision \in Decisions
  BY <1>2 DEF Passes
<1>4. /\ alerts' = IF before.decision.attention
                   THEN [alerts EXCEPT ![before.entry] = @ \union {before.decision}]
                   ELSE alerts
      /\ requests' = [requests EXCEPT ![w] = pass]
      /\ UNCHANGED <<evidence, entries, decisions, checks, ledger>>
  BY DEF Alert
<1> HIDE DEF before
<1>5. JournalTypes(decisions', alerts', checks')
  <2>1. alerts' \in [Entries -> SUBSET Decisions]
    BY <1>1, <1>3, <1>4 DEF TypeOK
  <2> QED
    BY <1>1, <1>4, <2>1 DEF TypeOK, JournalTypes
<1>6. pass \in Passes
  BY <1>2, PassAt
<1> HIDE DEF pass
<1> QED
  BY <1>4, <1>5, <1>6, PassRequest, RequestStep

LEMMA CheckStep ==
  ASSUME IInv, NEW w \in Requests, Check(w)
  PROVE  IInv'
<1> DEFINE before == requests[w]
           step == IF before.status = "fresh" THEN "mark" ELSE "next"
           pass == [before EXCEPT !.step = step]
           check == [price |-> before.decision.price, status |-> before.status]
<1>1. TypeOK
  BY DEF IInv
<1>2. before \in Passes
  BY KindOfRequest DEF IInv, Check, At
<1>3. /\ before.entry \in Entries /\ before.decision.price \in Nat
      /\ before.status \in {"fresh", "stale", "unusable"}
  BY <1>2 DEF Passes, Decisions
<1>4. /\ \/ checks' = checks
         \/ checks' = [checks EXCEPT ![before.entry] = @ \union {check}]
      /\ requests' = [requests EXCEPT ![w] = pass]
      /\ UNCHANGED <<evidence, entries, decisions, alerts, ledger>>
  BY DEF Check
<1>5. check \in [price : Nat, status : {"fresh", "stale", "unusable"}]
  BY <1>3
<1>6. step \in {"next", "alert", "check", "mark", "expired"}
  OBVIOUS
<1> HIDE DEF before, check, step
<1>7. JournalTypes(decisions', alerts', checks')
  <2> DEFINE Row == [price : Nat, status : {"fresh", "stale", "unusable"}]
             table == checks
  <2>1. table \in [Entries -> SUBSET Row]
    BY <1>1 DEF TypeOK
  <2>2. check \in Row
    BY <1>5
  <2>3. checks' = table \/ checks' = [table EXCEPT ![before.entry] = @ \union {check}]
    BY <1>4
  <2> HIDE DEF Row, table
  <2>4. checks' \in [Entries -> SUBSET Row]
    BY <1>3, <2>1, <2>2, <2>3
  <2> QED
    BY <1>1, <1>4, <2>4 DEF TypeOK, JournalTypes, Row
<1>8. pass \in Passes
  BY <1>2, <1>6, PassAt
<1> HIDE DEF pass
<1> QED
  BY <1>4, <1>7, <1>8, PassRequest, RequestStep

-----------------------------------------------------------------------------
(* The commit.                                                             *)

LEMMA FlushType ==
  ASSUME NEW stored \in Rows, NEW loaded \in Rows, NEW after \in Rows
  PROVE  Flush(stored, loaded, after) \in Rows
BY DEF Flush, Rows

\* A position that has ended is not opened again by a row judged open.
LEMMA FlushStatus ==
  ASSUME NEW stored \in Rows, NEW loaded \in Rows, NEW after \in Rows,
         loaded.status = "open", after.status \in {"open", "closed", "settled"}
  PROVE  LET row == Flush(stored, loaded, after)
         IN  /\ row.status \in {"open", "closed", "settled"}
             /\ stored.status \in {"closed", "settled"} => row.status \in {"closed", "settled"}
BY DEF Flush, Rows
\* What a commit knows of its request.
LEMMA CommitJob ==
  ASSUME IInv, NEW w \in Requests, Commit(w)
  PROVE  LET job == requests[w]
             e == job.entry
         IN  /\ w \in Jobs /\ job \in JobRows /\ e \in Entries
             /\ Flushed(job) \in Rows
             /\ Flushed(job).status \in {"open", "closed", "settled"}
             /\ positions[e].status \in {"closed", "settled"} =>
                  Flushed(job).status \in {"closed", "settled"}
             /\ Flushed(job).status # "open" =>
                  \A column \in {"remaining", "basis", "value"} : Flushed(job)[column] = 0
             /\ job.sale \in Events
             /\ job.kind = "dispose" => job.sale.decision = job.decision
             /\ positions' = [positions EXCEPT ![e] = Flushed(job)]
             /\ requests' = [requests EXCEPT ![w] = job.caller]
             /\ UNCHANGED <<evidence, entries, journal>>
<1> DEFINE job == requests[w]
           e == job.entry
<1>1. w \in Jobs /\ job.step = "judged" /\ Accepted(Flushed(job), entries[e])
  BY DEF Commit
<1>2. /\ positions' = [positions EXCEPT ![e] = Flushed(job)]
      /\ requests' = [requests EXCEPT ![w] = job.caller]
      /\ UNCHANGED <<evidence, entries, journal>>
  BY DEF Commit
<1>3. job \in JobRows
  BY <1>1, KindOfRequest DEF IInv
<1>4. JudgedRight(job)
  BY DEF IInv, JudgedOpen
<1>5. /\ e \in Entries /\ job.row \in Rows /\ job.after \in Rows /\ job.sale \in Events
      /\ job.row.status = "open" /\ job.after.status \in {"open", "closed", "settled"}
      /\ job.kind = "dispose" => job.sale.decision = job.decision
  BY <1>1, <1>3, <1>4 DEF JudgedRight, JobRows
<1>6. positions[e] \in Rows
  BY <1>5 DEF IInv, TypeOK
<1>7. /\ Flushed(job) \in Rows
      /\ Flushed(job).status \in {"open", "closed", "settled"}
      /\ positions[e].status \in {"closed", "settled"} =>
           Flushed(job).status \in {"closed", "settled"}
  BY <1>5, <1>6, FlushType, FlushStatus DEF Flushed
<1>8. Flushed(job).status # "open" =>
        \A column \in {"remaining", "basis", "value"} : Flushed(job)[column] = 0
  BY <1>1 DEF Accepted
<1> QED
  BY <1>1, <1>2, <1>3, <1>5, <1>7, <1>8

LEMMA CommitType ==
  ASSUME IInv, NEW w \in Requests, Commit(w)
  PROVE  TypeOK'
<1> DEFINE job == requests[w]
           e == job.entry
<1>1. /\ w \in Jobs /\ job \in JobRows /\ e \in Entries
      /\ Flushed(job) \in Rows /\ job.sale \in Events
      /\ positions' = [positions EXCEPT ![e] = Flushed(job)]
      /\ requests' = [requests EXCEPT ![w] = job.caller]
      /\ UNCHANGED <<evidence, entries, journal>>
  BY CommitJob
<1>2. TypeOK
  BY DEF IInv
<1>3. job.caller \in RequestRows
  BY <1>1, <1>2, CallerRequest
<1>4. [price |-> job.price, key |-> job.key] \in [price : Nat, key : Nat]
  BY <1>1 DEF JobRows
<1>5. /\ marks' = Recorded(marks, job, "mark", [price |-> job.price, key |-> job.key])
      /\ dispositions' = Recorded(dispositions, job, "dispose", job.sale)
      /\ settlements' = Recorded(settlements, job, "settle", job.sale)
  BY DEF Commit
<1> DEFINE mark == [price |-> job.price, key |-> job.key]
           sale == job.sale
<1>6. mark \in [price : Nat, key : Nat] /\ sale \in Events
  BY <1>1, <1>4
<1> HIDE DEF mark, sale
<1>7. positions' \in [Entries -> Rows] /\ requests' \in [Requests -> RequestRows]
  BY <1>1, <1>2, <1>3 DEF TypeOK
<1>8. marks' \in [Entries -> SUBSET [price : Nat, key : Nat]]
  <2>1. marks' = Recorded(marks, job, "mark", mark)
    BY <1>5 DEF mark
  <2> QED
    BY <1>1, <1>2, <1>6, <2>1 DEF TypeOK, Recorded
<1>9. /\ dispositions' \in [Entries -> SUBSET Events]
      /\ settlements' \in [Entries -> SUBSET Events]
  <2>1. /\ dispositions' = Recorded(dispositions, job, "dispose", sale)
        /\ settlements' = Recorded(settlements, job, "settle", sale)
    BY <1>5 DEF sale
  <2> QED
    BY <1>1, <1>2, <1>6, <2>1 DEF TypeOK, Recorded
<1> QED
  BY <1>1, <1>2, <1>7, <1>8, <1>9 DEF TypeOK, evidence, journal

\* A commit only takes exposure away.
LEMMA CommitCap ==
  ASSUME IInv, NEW w \in Requests, Commit(w)
  PROVE  AggregateCapHolds'
<1> DEFINE job == requests[w]
           e == job.entry
           old == Exposure
           amount == Exposure'[e]
<1>1. /\ e \in Entries
      /\ Flushed(job).status \in {"open", "closed", "settled"}
      /\ positions[e].status \in {"closed", "settled"} =>
           Flushed(job).status \in {"closed", "settled"}
      /\ positions' = [positions EXCEPT ![e] = Flushed(job)]
      /\ UNCHANGED entries
  BY CommitJob
<1>2. positions[e].status \in {"none", "open", "closed", "settled"}
  BY <1>1 DEF IInv, TypeOK, Rows
<1>3. /\ EntryCount \in Nat /\ old \in [1..EntryCount -> Int] /\ e \in 1..EntryCount
      /\ entries[e].cost \in Nat
  BY <1>1, ExposureType DEF IInv, Entries
<1>4. Exposure' = [old EXCEPT ![e] = amount]
  BY <1>1 DEF Exposure, IInv, TypeOK
<1>5. positions'[e] = Flushed(job)
  BY <1>1 DEF IInv, TypeOK
<1>6. amount \in Int /\ amount <= old[e]
  BY <1>1, <1>2, <1>3, <1>5 DEF Exposure
<1>7. Committed' = TotalOf(EntryCount, [old EXCEPT ![e] = amount])
  BY <1>4 DEF Committed
<1>8. Committed = TotalOf(EntryCount, old) /\ TotalOf(EntryCount, old) \in Int
  BY <1>3, RowTotalType DEF Committed
<1>9. old[e] \in Int
  BY <1>3
<1> HIDE DEF old, amount, e
<1>10. Committed' = Committed - old[e] + amount
  BY <1>3, <1>6, <1>7, <1>8, RowTotalUpdate
<1> QED
  BY <1>6, <1>8, <1>9, <1>10, CapAssumption DEF AggregateCapHolds, IInv

\* A disposition uses a decision that is unused, and nobody else is about to
\* use it.
LEMMA CommitUse ==
  ASSUME IInv, NEW w \in Requests, Commit(w)
  PROVE  DecisionIsUsedOnce' /\ Excluded'
<1> DEFINE job == requests[w]
           e == job.entry
<1>1. /\ w \in Jobs /\ job \in JobRows /\ e \in Entries
      /\ job.kind = "dispose" => job.sale.decision = job.decision
      /\ requests' = [requests EXCEPT ![w] = job.caller]
  BY CommitJob
<1>2. dispositions' = Recorded(dispositions, job, "dispose", job.sale)
  BY DEF Commit
<1>3. TypeOK /\ Excluded /\ DecisionIsUsedOnce
  BY DEF IInv
<1>4. job.caller.kind \notin JobKinds
  BY <1>1, <1>3, CallerRequest DEF Idle, Passes, JobKinds
<1>5. CASE job.kind # "dispose"
  <2>1. dispositions' = dispositions
    BY <1>2, <1>5 DEF Recorded
  <2>2. Admitted(w, job.caller)
    BY <1>4 DEF Admitted
  <2>3. Excluded'
    BY <1>1, <1>3, <2>1, <2>2, QuietExclusion
  <2> QED
    BY <1>3, <2>1, <2>3 DEF DecisionIsUsedOnce
<1>6. CASE job.kind = "dispose"
  <2> DEFINE sale == job.sale
  <2>1. dispositions' = [dispositions EXCEPT ![e] = @ \union {sale}]
    BY <1>2, <1>6 DEF Recorded
  <2>2. \A d \in dispositions[e] : d.decision # sale.decision
    BY <1>1, <1>3, <1>6 DEF Excluded, Disposed
  <2>3. sale.decision = job.decision
    BY <1>1, <1>6
  <2> HIDE DEF sale
  <2>4. dispositions \in [Entries -> SUBSET Events]
    BY <1>3 DEF TypeOK
  <2>5. \A x \in Entries : dispositions'[x] =
          IF x = e THEN dispositions[e] \union {sale} ELSE dispositions[x]
    BY <1>1, <2>1, <2>4
  <2>6. DecisionIsUsedOnce'
    BY <1>1, <1>3, <2>2, <2>5 DEF DecisionIsUsedOnce
  <2>7. /\ requests'[w] = job.caller /\ w \notin Jobs'
        /\ \A x \in Requests : x # w => requests'[x] = requests[x]
    BY <1>1, <1>3, <1>4 DEF TypeOK, Jobs, JobKinds
  <2>8. \A x \in Jobs' : x \in Jobs /\ x # w /\ requests'[x] = requests[x]
    BY <2>7 DEF Jobs
  <2>9. \A x \in Jobs' : requests[x].kind = "dispose" => requests[x].entry # e
    BY <1>1, <1>3, <1>6, <2>8 DEF Excluded, Lock
  <2>10. \A x \in Jobs' : requests[x].entry \in Entries
    BY <1>3, <2>8, KindOfRequest DEF Jobs, JobRows
  <2>11. ASSUME NEW x \in Jobs', requests'[x].kind = "dispose"
         PROVE  ~\E d \in dispositions'[requests'[x].entry] :
                  d.decision = requests'[x].decision
    <3>1. ~Disposed(requests[x].entry, requests[x].decision)
      BY <1>3, <2>8, <2>11 DEF Excluded
    <3>2. dispositions'[requests[x].entry] = dispositions[requests[x].entry]
      BY <2>5, <2>8, <2>9, <2>10, <2>11
    <3> QED
      BY <2>8, <2>11, <3>1, <3>2 DEF Disposed
  <2>12. ASSUME NEW x \in Jobs', NEW y \in Jobs', x # y
         PROVE  ~(/\ Lock(requests'[x].kind) = Lock(requests'[y].kind)
                  /\ requests'[x].entry = requests'[y].entry)
    BY <1>3, <2>8, <2>12 DEF Excluded
  <2>13. Excluded'
    BY <2>11, <2>12 DEF Excluded, Disposed, Lock
  <2> QED
    BY <2>6, <2>13
<1> QED
  BY <1>5, <1>6

LEMMA CommitStep ==
  ASSUME IInv, NEW w \in Requests, Commit(w)
  PROVE  IInv'
<1> DEFINE job == requests[w]
           e == job.entry
<1>1. /\ w \in Jobs /\ e \in Entries
      /\ Flushed(job).status # "open" =>
           \A column \in {"remaining", "basis", "value"} : Flushed(job)[column] = 0
      /\ positions' = [positions EXCEPT ![e] = Flushed(job)]
      /\ requests' = [requests EXCEPT ![w] = job.caller]
  BY CommitJob
<1>2. TypeOK /\ JudgedOpen /\ EndedEmpty
  BY DEF IInv
<1>3. JudgedOpen'
  BY <1>1, <1>2, CallerRequest, JudgedKept
<1>4. EndedEmpty'
  <2>1. \A x \in Entries : positions'[x] = IF x = e THEN Flushed(job) ELSE positions[x]
    BY <1>1, <1>2 DEF TypeOK
  <2> QED
    BY <1>1, <1>2, <2>1 DEF EndedEmpty
<1> QED
  BY <1>3, <1>4, CommitType, CommitCap, CommitUse DEF IInv
-----------------------------------------------------------------------------
(* The theorems.                                                           *)

LEMMA StepInv == IInv /\ [Next]_vars => IInv'
<1> SUFFICES ASSUME IInv, [Next]_vars PROVE IInv'
  OBVIOUS
<1>1. CASE Arrive
  BY <1>1, ArriveStep
<1>2. CASE \E e \in Entries, fill \in Fills : Enter(e, fill)
  BY <1>2, EnterStep
<1>3. ASSUME NEW w \in Requests, Start(w)
      PROVE  IInv'
  <2>1. CASE \E e \in Entries, kind \in {"mark", "settle"} : BeginLifecycle(w, kind, e)
    BY <2>1, BeginLifecycleStep
  <2>2. CASE \E e \in Entries : \E decision \in decisions[e] : BeginDisposal(w, e, decision)
    BY <2>2, BeginDisposalStep
  <2>3. CASE BeginPass(w)
    BY <2>3, BeginPassStep
  <2> QED
    BY <1>3, <2>1, <2>2, <2>3 DEF Start
<1>4. ASSUME NEW w \in Requests, Advance(w)
      PROVE  IInv'
  <2>1. CASE Judge(w)
    BY <2>1, JudgeStep
  <2>2. CASE Replay(w)
    BY <2>2, ReplayStep
  <2>3. CASE Refuse(w)
    BY <2>3, RefuseStep
  <2>4. CASE Commit(w)
    BY <2>4, CommitStep
  <2>5. CASE Reject(w)
    BY <2>5, IdleStep DEF Reject
  <2>6. CASE \E e \in Entries : Assess(w, e)
    BY <2>6, AssessStep
  <2>7. CASE Alert(w)
    BY <2>7, AlertStep
  <2>8. CASE Check(w)
    BY <2>8, CheckStep
  <2>9. CASE EndPass(w)
    BY <2>9, IdleStep DEF EndPass
  <2> QED
    BY <1>4, <2>1, <2>2, <2>3, <2>4, <2>5, <2>6, <2>7, <2>8, <2>9 DEF Advance
<1>5. ASSUME NEW w \in Requests, CallMark(w)
      PROVE  IInv'
  BY <1>5, CallMarkStep
<1>6. ASSUME NEW w \in Requests, Stop(w)
      PROVE  IInv'
  BY <1>6, IdleStep DEF Stop
<1>7. CASE UNCHANGED vars
  <2>1. UNCHANGED <<evidence, entries, journal, ledger, requests>>
    BY <1>7 DEF vars
  <2>2. TypeOK'
    BY <2>1 DEF IInv, TypeOK, evidence, journal, ledger
  <2>3. JudgedOpen' /\ EndedEmpty' /\ DecisionIsUsedOnce'
    BY <2>1 DEF IInv, JudgedOpen, JudgedRight, EndedEmpty, DecisionIsUsedOnce, ledger
  <2>4. Excluded'
    BY <2>1 DEF IInv, Excluded, Jobs, Disposed, ledger
  <2>5. AggregateCapHolds'
    BY <2>1, CapKept DEF IInv, ledger
  <2> QED
    BY <2>2, <2>3, <2>4, <2>5 DEF IInv
<1> QED
  BY <1>1, <1>2, <1>3, <1>4, <1>5, <1>6, <1>7 DEF Next

LEMMA Invariance == Spec => []IInv
<1> QED
  BY InitInv, StepInv, PTL DEF Spec

\* Every row of the pilot stays within its table's types, whatever its requests
\* load, compute and write (models/nfl_pilot.py).
THEOREM TypeTheorem == Spec => []TypeOK
<1>1. IInv => TypeOK
  BY DEF IInv
<1> QED
  BY <1>1, Invariance, PTL

\* However many entries are filled and whatever becomes of their positions
\* meanwhile, the open ones never cost more than the scenario's aggregate share
\* of the bankroll (NflPilotEntryService.run).
THEOREM CapTheorem == Spec => []AggregateCapHolds
<1>1. IInv => AggregateCapHolds
  BY DEF IInv
<1> QED
  BY <1>1, Invariance, PTL

\* A monitoring decision is disposed of once, by any number of requests
\* (NflPilotLifecycleService.dispose).
THEOREM UsedOnceTheorem == Spec => []DecisionIsUsedOnce
<1>1. IInv => DecisionIsUsedOnce
  BY DEF IInv
<1> QED
  BY <1>1, Invariance, PTL

\* A position that is closed or settled stays so and holds nothing, though
\* passes and dispositions that loaded it before go on to write their columns
\* (NflPilotPositionRecord, ck_nfl_pilot_positions_values).
THEOREM EndedTheorem == Spec => EndedIsFinal
<1> DEFINE Final ==
             \A e \in Entries :
               positions[e].status \in {"closed", "settled"} =>
                 /\ positions'[e].status \in {"closed", "settled"}
                 /\ \A column \in {"remaining", "basis", "value"} : positions'[e][column] = 0
<1>1. IInv /\ [Next]_vars => [Final]_vars
  <2> SUFFICES ASSUME IInv, Next PROVE Final
    BY Zenon
  <2>1. EndedEmpty
    BY DEF IInv
  <2>2. CASE positions' = positions
    BY <2>1, <2>2 DEF EndedEmpty
  <2>3. ASSUME NEW w \in Requests, Commit(w)
        PROVE  Final
    <3> DEFINE job == requests[w]
               x == job.entry
    <3>1. /\ x \in Entries
          /\ positions[x].status \in {"closed", "settled"} =>
               Flushed(job).status \in {"closed", "settled"}
          /\ Flushed(job).status # "open" =>
               \A column \in {"remaining", "basis", "value"} : Flushed(job)[column] = 0
          /\ positions' = [positions EXCEPT ![x] = Flushed(job)]
      BY <2>3, CommitJob
    <3>2. \A e \in Entries : positions'[e] = IF e = x THEN Flushed(job) ELSE positions[e]
      BY <3>1 DEF IInv, TypeOK
    <3> QED
      BY <2>1, <3>1, <3>2 DEF EndedEmpty
  <2>4. (\E w \in Requests : Commit(w)) \/ positions' = positions
    <3>1. CASE Arrive
      BY <3>1 DEF Arrive, Publish, GoStale, Forecast, Expire, Resolve, ledger
    <3>2. CASE \E e \in Entries, fill \in Fills : Enter(e, fill)
      BY <3>2 DEF Enter, ledger
    <3>3. ASSUME NEW w \in Requests, Start(w) \/ CallMark(w) \/ Stop(w)
          PROVE  positions' = positions
      BY <3>3 DEF Start, BeginLifecycle, BeginDisposal, BeginPass, CallMark, Stop, ledger
    <3>4. ASSUME NEW w \in Requests, Advance(w), ~Commit(w)
          PROVE  positions' = positions
      BY <3>4 DEF Advance, Judge, Replay, Refuse, Reject, Assess, Alert, Check, EndPass, ledger
    <3> QED
      BY <3>1, <3>2, <3>3, <3>4 DEF Next
  <2> QED
    BY <2>2, <2>3, <2>4
<1> QED
  BY <1>1, Invariance, PTL DEF Spec, EndedIsFinal

-----------------------------------------------------------------------------
(* Decisions are alerted.                                                  *)

\* What a pass has decided and gone on from, somebody was told of if need be.
Told(request, table) ==
  request.kind = "monitor" /\ request.step # "alert" /\ request.decision.attention
    => request.decision \in table[request.entry]

\* A pass that waits for a mark has told before.
CallerTold(request, table) ==
  request.kind \in JobKinds /\ request.caller # Idle =>
    request.caller.step # "alert" /\ Told(request.caller, table)

AlertInvariant ==
  /\ IInv
  /\ \A w \in Requests : Told(requests[w], alerts) /\ CallerTold(requests[w], alerts)

\* One request goes on, and no alert is taken back.
LEMMA ToldStep ==
  ASSUME AlertInvariant, IInv', NEW w \in Requests, NEW next,
         requests' = [requests EXCEPT ![w] = next],
         \A e \in Entries : alerts[e] \subseteq alerts'[e],
         Told(next, alerts'), CallerTold(next, alerts')
  PROVE  AlertInvariant'
<1>1. ASSUME NEW x \in Requests
      PROVE  Told(requests'[x], alerts') /\ CallerTold(requests'[x], alerts')
  <2>1. CASE x = w
    BY <2>1 DEF AlertInvariant, IInv, TypeOK
  <2>2. CASE x # w
    <3>1. requests'[x] = requests[x]
      BY <2>2
    <3>2. requests[x].kind = "monitor" => requests[x].entry \in Entries
      BY KindOfRequest DEF AlertInvariant, IInv, Passes
    <3>3. requests[x].kind \in JobKinds /\ requests[x].caller # Idle => requests[x].caller.entry \in Entries
      BY KindOfRequest DEF AlertInvariant, IInv, Jobs, JobKinds, JobRows, Passes
    <3> QED
      BY <3>1, <3>2, <3>3 DEF AlertInvariant, Told, CallerTold
  <2> QED
    BY <2>1, <2>2
<1> QED
  BY <1>1 DEF AlertInvariant

LEMMA IdleTold ==
  ASSUME NEW table
  PROVE  Told(Idle, table) /\ CallerTold(Idle, table)
BY DEF Told, CallerTold, Idle, JobKinds

\* A caller is told as a pass and calls nobody.
LEMMA ResumedTold ==
  ASSUME AlertInvariant, NEW w \in Jobs, requests[w].caller # Idle
  PROVE  LET pass == requests[w].caller
         IN  /\ pass \in Passes /\ pass.step # "alert"
             /\ Told(pass, alerts) /\ CallerTold(pass, alerts)
<1>1. requests[w] \in JobRows /\ w \in Requests /\ requests[w].kind \in JobKinds
  BY KindOfRequest DEF AlertInvariant, IInv, Jobs, JobKinds
<1>2. requests[w].caller \in Passes
  BY <1>1 DEF JobRows
<1>3. requests[w].caller.kind \notin JobKinds
  BY <1>2 DEF Passes, JobKinds
<1>4. requests[w].caller.step # "alert" /\ Told(requests[w].caller, alerts)
  BY <1>1 DEF AlertInvariant, CallerTold
<1> QED
  BY <1>2, <1>3, <1>4 DEF CallerTold

\* The job is over, and its caller goes on or there is none.
LEMMA ReturnTold ==
  ASSUME AlertInvariant, IInv', NEW w \in Jobs, UNCHANGED alerts,
         \/ requests' = [requests EXCEPT ![w] = requests[w].caller]
         \/ requests' = [requests EXCEPT ![w] =
              IF requests[w].caller = Idle THEN Idle ELSE [requests[w].caller EXCEPT !.step = "expired"]]
  PROVE  AlertInvariant'
<1>1. w \in Requests
  BY DEF Jobs
<1>2. CASE requests[w].caller = Idle
  BY <1>1, <1>2, IdleTold, ToldStep
<1>3. CASE requests[w].caller # Idle
  <2> PICK pass : pass = requests[w].caller
    OBVIOUS
  <2>1. pass \in Passes /\ pass.step # "alert" /\ Told(pass, alerts) /\ CallerTold(pass, alerts)
    BY <1>3, ResumedTold
  <2> PICK late : late = [pass EXCEPT !.step = "expired"]
    OBVIOUS
  <2>2. late.kind = "monitor" /\ pass.kind = "monitor" /\ late.decision = pass.decision /\ late.entry = pass.entry
    BY <2>1 DEF Passes
  <2>3. Told(late, alerts) /\ CallerTold(late, alerts)
    BY <2>1, <2>2 DEF Told, CallerTold, JobKinds
  <2>4. CASE requests' = [requests EXCEPT ![w] = pass]
    BY <1>1, <2>1, <2>4, ToldStep
  <2>5. CASE requests' = [requests EXCEPT ![w] = late]
    BY <1>1, <2>3, <2>5, ToldStep
  <2> QED
    BY <1>3, <2>4, <2>5
<1> QED
  BY <1>2, <1>3

LEMMA AlertInvariantStep ==
  ASSUME AlertInvariant, [Next]_vars
  PROVE  AlertInvariant'
<1>1. IInv'
  BY StepInv DEF AlertInvariant
<1>2. CASE UNCHANGED <<requests, alerts>>
  BY <1>1, <1>2 DEF AlertInvariant
<1>3. ASSUME NEW w \in Requests, NEW job, job.kind \in JobKinds, job.caller = Idle,
             requests' = [requests EXCEPT ![w] = job], UNCHANGED alerts
      PROVE  AlertInvariant'
  <2>1. Told(job, alerts) /\ CallerTold(job, alerts)
    BY <1>3 DEF Told, CallerTold, JobKinds
  <2> QED
    BY <1>1, <1>3, <2>1, ToldStep
<1>4. ASSUME NEW w \in Requests, Start(w)
      PROVE  AlertInvariant'
  <2>1. ASSUME NEW e \in Entries, NEW kind \in {"mark", "settle"}, BeginLifecycle(w, kind, e)
        PROVE  AlertInvariant'
    <3> PICK job : job = Held(kind, e, Position(e), NoDecision, 0, Idle)
      OBVIOUS
    <3>1. job.kind \in JobKinds /\ job.caller = Idle
      BY DEF Held, JobKinds
    <3>2. requests' = [requests EXCEPT ![w] = job] /\ UNCHANGED alerts
      BY <2>1 DEF BeginLifecycle, journal
    <3> QED
      BY <1>3, <3>1, <3>2
  <2>2. ASSUME NEW e \in Entries, NEW decision \in decisions[e], BeginDisposal(w, e, decision)
        PROVE  AlertInvariant'
    <3> PICK job : job = Held("dispose", e, positions[e], decision, 0, Idle)
      OBVIOUS
    <3>1. job.kind \in JobKinds /\ job.caller = Idle
      BY DEF Held, JobKinds
    <3>2. requests' = [requests EXCEPT ![w] = job] /\ UNCHANGED alerts
      BY <2>2 DEF BeginDisposal, journal
    <3> QED
      BY <1>3, <3>1, <3>2
  <2>3. CASE BeginPass(w)
    <3> PICK pass : pass = [kind |-> "monitor", step |-> "next", loaded |-> positions, todo |-> Open,
                            entry |-> 1, decision |-> NoDecision, status |-> "fresh"]
      OBVIOUS
    <3>1. Told(pass, alerts) /\ CallerTold(pass, alerts)
      BY DEF Told, CallerTold, NoDecision, JobKinds
    <3>2. requests' = [requests EXCEPT ![w] = pass] /\ UNCHANGED alerts
      BY <2>3 DEF BeginPass, journal
    <3> QED
      BY <1>1, <3>1, <3>2, ToldStep
  <2> QED
    BY <1>4, <2>1, <2>2, <2>3 DEF Start
<1>5. ASSUME NEW w \in Requests, requests' = [requests EXCEPT ![w] = Idle], UNCHANGED alerts
      PROVE  AlertInvariant'
  BY <1>1, <1>5, IdleTold, ToldStep
<1>6. ASSUME NEW w \in Requests, Judge(w)
      PROVE  AlertInvariant'
  <2> PICK job, next : /\ job = requests[w]
                       /\ next = [job EXCEPT !.step = "judged", !.after = After(job), !.sale = Sale(job),
                                             !.price = quote.id]
    OBVIOUS
  <2>1. job \in JobRows /\ job.kind \in JobKinds
    BY <1>6, KindOfRequest DEF Judge, AlertInvariant, IInv, Jobs, JobKinds
  <2>2. next.kind = job.kind /\ next.caller = job.caller
    BY <2>1 DEF JobRows
  <2>3. CallerTold(job, alerts)
    BY DEF AlertInvariant
  <2>4. Told(next, alerts) /\ CallerTold(next, alerts)
    BY <2>1, <2>2, <2>3 DEF Told, CallerTold, JobKinds
  <2>5. requests' = [requests EXCEPT ![w] = next] /\ UNCHANGED alerts
    BY <1>6 DEF Judge, journal
  <2> QED
    BY <1>1, <2>4, <2>5, ToldStep
<1>7. ASSUME NEW w \in Requests, Replay(w) \/ Refuse(w) \/ Commit(w)
      PROVE  AlertInvariant'
  <2>1. w \in Jobs /\ UNCHANGED alerts
    BY <1>7 DEF Replay, Refuse, Commit, journal
  <2>2. \/ requests' = [requests EXCEPT ![w] = requests[w].caller]
        \/ requests' = [requests EXCEPT ![w] =
             IF requests[w].caller = Idle THEN Idle ELSE [requests[w].caller EXCEPT !.step = "expired"]]
    BY <1>7 DEF Replay, Refuse, Commit
  <2> QED
    BY <1>1, <2>1, <2>2, ReturnTold
<1>8. ASSUME NEW w \in Requests, NEW e \in Entries, Assess(w, e)
      PROVE  AlertInvariant'
  <2> PICK next : next = [kind |-> "monitor", step |-> "alert", loaded |-> requests[w].loaded,
                          todo |-> requests[w].todo \ {e}, entry |-> e,
                          decision |-> Decided(e, Recommendation(Len(forecasts))), status |-> QuoteStatus]
    OBVIOUS
  <2>1. Told(next, alerts) /\ CallerTold(next, alerts)
    BY DEF Told, CallerTold, JobKinds
  <2>2. requests' = [requests EXCEPT ![w] = next] /\ UNCHANGED alerts
    BY <1>8 DEF Assess, AlertInvariant, IInv, TypeOK
  <2> QED
    BY <1>1, <2>1, <2>2, ToldStep
<1>9. ASSUME NEW w \in Requests, Alert(w)
      PROVE  AlertInvariant'
  <2> PICK pass, next : pass = requests[w] /\ next = [pass EXCEPT !.step = "check"]
    OBVIOUS
  <2>1. pass \in Passes
    BY <1>9, KindOfRequest DEF Alert, At, AlertInvariant, IInv
  <2>2. /\ next.kind = "monitor" /\ next.decision = pass.decision
        /\ next.entry = pass.entry /\ pass.entry \in Entries
    BY <2>1 DEF Passes
  <2>3. /\ requests' = [requests EXCEPT ![w] = next]
        /\ alerts' = IF pass.decision.attention
                     THEN [alerts EXCEPT ![pass.entry] = @ \union {pass.decision}]
                     ELSE alerts
    BY <1>9 DEF Alert
  <2>4. \A e \in Entries : alerts[e] \subseteq alerts'[e]
    BY <2>3 DEF AlertInvariant, IInv, TypeOK
  <2>5. pass.decision.attention => pass.decision \in alerts'[pass.entry]
    BY <2>2, <2>3 DEF AlertInvariant, IInv, TypeOK
  <2>6. Told(next, alerts') /\ CallerTold(next, alerts')
    BY <2>2, <2>5 DEF Told, CallerTold, JobKinds
  <2> QED
    BY <1>1, <2>3, <2>4, <2>6, ToldStep
<1>10. ASSUME NEW w \in Requests, Check(w)
       PROVE  AlertInvariant'
  <2> PICK pass, next : /\ pass = requests[w]
                        /\ next = [pass EXCEPT !.step = IF pass.status = "fresh" THEN "mark" ELSE "next"]
    OBVIOUS
  <2>1. pass \in Passes /\ pass.step = "check"
    BY <1>10, KindOfRequest DEF Check, At, AlertInvariant, IInv
  <2>2. next.kind = "monitor" /\ pass.kind = "monitor" /\ next.decision = pass.decision /\ next.entry = pass.entry
    BY <2>1 DEF Passes
  <2>3. Told(pass, alerts)
    BY DEF AlertInvariant
  <2>4. Told(next, alerts) /\ CallerTold(next, alerts)
    BY <2>1, <2>2, <2>3 DEF Told, CallerTold, JobKinds
  <2>5. requests' = [requests EXCEPT ![w] = next] /\ UNCHANGED alerts
    BY <1>10 DEF Check
  <2> QED
    BY <1>1, <2>4, <2>5, ToldStep
<1>11. ASSUME NEW w \in Requests, CallMark(w)
       PROVE  AlertInvariant'
  <2> PICK pass, back : pass = requests[w] /\ back = [pass EXCEPT !.step = "next"]
    OBVIOUS
  <2> PICK next : next = Held("mark", pass.entry, pass.loaded[pass.entry], NoDecision,
                              pass.decision.price, back)
    OBVIOUS
  <2>1. pass \in Passes /\ pass.step = "mark"
    BY <1>11, KindOfRequest DEF CallMark, At, AlertInvariant, IInv
  <2>2. /\ back.kind = "monitor" /\ pass.kind = "monitor" /\ back.step = "next"
        /\ back.decision = pass.decision /\ back.entry = pass.entry
    BY <2>1 DEF Passes
  <2>3. Told(pass, alerts)
    BY DEF AlertInvariant
  <2>4. Told(back, alerts)
    BY <2>1, <2>2, <2>3 DEF Told
  <2>5. next.kind = "mark" /\ next.caller = back
    BY DEF Held
  <2>6. Told(next, alerts) /\ CallerTold(next, alerts)
    BY <2>2, <2>4, <2>5 DEF Told, CallerTold
  <2>7. requests' = [requests EXCEPT ![w] = next] /\ UNCHANGED alerts
    BY <1>11 DEF CallMark, journal
  <2> QED
    BY <1>1, <2>6, <2>7, ToldStep
<1>12. ASSUME NEW w \in Requests, Advance(w)
       PROVE  AlertInvariant'
  <2>1. CASE Reject(w) \/ EndPass(w)
    BY <1>5, <2>1 DEF Reject, EndPass, journal
  <2> QED
    BY <1>6, <1>7, <1>8, <1>9, <1>10, <1>12, <2>1 DEF Advance
<1>13. ASSUME NEW w \in Requests, Stop(w)
       PROVE  AlertInvariant'
  BY <1>5, <1>13 DEF Stop, journal
<1>14. CASE Arrive
  BY <1>2, <1>14 DEF Arrive, Publish, GoStale, Forecast, Expire, Resolve, journal
<1>15. CASE \E e \in Entries, fill \in Fills : Enter(e, fill)
  BY <1>2, <1>15 DEF Enter, journal
<1>16. CASE UNCHANGED vars
  BY <1>2, <1>16 DEF vars, journal
<1> QED
  BY <1>4, <1>11, <1>12, <1>13, <1>14, <1>15, <1>16 DEF Next

\* No pass goes on from a decision that needs attention before there is an alert
\* of it, also when it finds the decision made and the pass that made it lost.
THEOREM AlertTheorem == Spec => []DecisionIsAlerted
<1>1. Init => AlertInvariant
  <2>1. ASSUME Init
        PROVE  \A w \in Requests : requests[w] = Idle
    BY <2>1 DEF Init
  <2> QED
    BY <2>1, InitInv, IdleTold DEF AlertInvariant
<1>2. AlertInvariant => DecisionIsAlerted
  BY DEF AlertInvariant, Told, DecisionIsAlerted
<1> QED
  BY <1>1, <1>2, AlertInvariantStep, PTL DEF Spec

-----------------------------------------------------------------------------
(* An open position follows its dispositions.                              *)

SameMoney(row, other) ==
  /\ row.remaining = other.remaining /\ row.disposed = other.disposed
  /\ row.basis = other.basis /\ row.realized = other.realized

\* What a job sells of the row it has read.
Sells(job) ==
  /\ job.sale.decision = job.decision
  /\ job.sale.quantity <= job.row.remaining
  /\ job.sale.released = Allocated(job.row, job.sale.quantity)
  /\ 0 <= job.sale.proceeds /\ job.sale.proceeds <= 100 * job.sale.quantity

\* What a judged job is about to write, by the row it has read.
Computed(job) ==
  job.step = "judged" =>
    /\ job.kind = "mark" => \E price \in Nat : job.after = Marked(job.row, price)
    /\ job.kind = "settle" =>
         /\ Sells(job) /\ job.sale.quantity = job.row.remaining
         /\ job.after = Emptied(Sold(job.row, job.sale), "settled")
    /\ job.kind = "dispose" =>
         /\ Sells(job) /\ job.sale.quantity > 0
         /\ \E bid \in Nat : job.after = Disposition(Sold(job.row, job.sale), bid)

\* An open row that a job has read is the row of a filled entry: the new one, if
\* the position is not made yet, and for a disposition, whose lock keeps other
\* dispositions away, the row as it is but for its mark.
Grounded(job, entry, row) ==
  job.row.status = "open" =>
    /\ entry # NoEntry
    /\ row.status = "none" => job.kind # "dispose" /\ job.row = NewRow(entry)
    /\ job.kind = "dispose" /\ row.status = "open" => SameMoney(job.row, row)

\* A row that a pass has loaded is of a position that there is.
Known(loaded, rows) == \A e \in Entries : loaded[e].status # "none" => rows[e].status # "none"

\* A disposition acts on a decision to sell, a mark and a settlement on none.
Purposeful(job) ==
  IF job.kind = "dispose" THEN job.decision.action # "hold" ELSE job.decision = NoDecision

RequestGrounded(request, table, rows) ==
  /\ request.kind = "monitor" => Known(request.loaded, rows)
  /\ request.kind \in JobKinds =>
       /\ Purposeful(request)
       /\ Grounded(request, table[request.entry], rows[request.entry])
       /\ Computed(request)
       /\ request.caller # Idle => Known(request.caller.loaded, rows)

Accounted ==
  \A e \in Entries :
    /\ IsFiniteSet(dispositions[e])
    /\ positions[e].status = "none" => dispositions[e] = {}
    /\ positions[e].status # "none" => entries[e] # NoEntry
    /\ positions[e].status = "open" => Follows(positions[e], entries[e], dispositions[e])

MoneyInv ==
  /\ IInv /\ Accounted
  /\ \A w \in Requests : RequestGrounded(requests[w], entries, positions)

LEMMA MarkedMoney ==
  ASSUME NEW row \in Rows, NEW price \in Nat
  PROVE  SameMoney(Marked(row, price), row)
BY DEF Marked, SameMoney, Rows

LEMMA SoldMoney ==
  ASSUME NEW row \in Rows, NEW sale \in Events
  PROVE  LET left == Sold(row, sale)
         IN  /\ left.status = row.status
             /\ left.remaining = row.remaining - sale.quantity
             /\ left.disposed = row.disposed + sale.quantity
             /\ left.basis = row.basis - sale.released
             /\ left.realized = row.realized + (sale.proceeds - sale.released)
BY DEF Sold, Rows

\* What is released of the cost is a part of it, and all of it with the last contract.
LEMMA FollowsNothing ==
  ASSUME NEW entry, entry.cost \in Nat
  PROVE  Follows(NewRow(entry), entry, {})
BY ColumnTotalOfNothing DEF Follows, NewRow

LEMMA FollowsSame ==
  ASSUME NEW row, NEW other, SameMoney(row, other), NEW entry, NEW events,
         Follows(other, entry, events)
  PROVE  Follows(row, entry, events)
BY DEF Follows, SameMoney

EventColumns == {"quantity", "released", "proceeds"}

LEMMA EventTotal ==
  ASSUME NEW events, IsFiniteSet(events), events \subseteq Events, NEW column \in EventColumns
  PROVE  /\ ColumnTotal(events, column) \in Int
         /\ \A sale \in Events : sale \notin events =>
              ColumnTotal(events \union {sale}, column) = ColumnTotal(events, column) + sale[column]
<1>1. \A v \in Events : v[column] \in Int
  BY DEF Events, EventColumns
<1>2. \A v \in events : v[column] \in Int
  BY <1>1
<1> QED
  BY <1>1, <1>2, ColumnTotalType, ColumnTotalAdd

\* A sale moves a row by what it adds to the events.
LEMMA FollowsSale ==
  ASSUME NEW row \in Rows, NEW after, NEW entry, entry.cost \in Nat, NEW events, IsFiniteSet(events),
         events \subseteq Events, NEW sale \in Events, sale \notin events,
         Follows(row, entry, events),
         after.disposed = row.disposed + sale.quantity,
         after.basis = row.basis - sale.released,
         after.realized = row.realized + (sale.proceeds - sale.released)
  PROVE  Follows(after, entry, events \union {sale})
<1>1. "quantity" \in EventColumns /\ "released" \in EventColumns /\ "proceeds" \in EventColumns
  BY DEF EventColumns
<1>2. PICK q \in Int, r \in Int, p \in Int :
        /\ q = ColumnTotal(events, "quantity") /\ r = ColumnTotal(events, "released")
        /\ p = ColumnTotal(events, "proceeds")
  BY <1>1, EventTotal
<1>3. /\ ColumnTotal(events \union {sale}, "quantity") = q + sale.quantity
      /\ ColumnTotal(events \union {sale}, "released") = r + sale.released
      /\ ColumnTotal(events \union {sale}, "proceeds") = p + sale.proceeds
  BY <1>1, <1>2, EventTotal
<1>4. sale.quantity \in Int /\ sale.released \in Int /\ sale.proceeds \in Int
  BY DEF Events
<1>5. row.disposed = q /\ row.basis = entry.cost - r /\ row.realized = p - r
  BY <1>2 DEF Follows
<1>6. /\ after.disposed = q + sale.quantity
      /\ after.basis = entry.cost - (r + sale.released)
      /\ after.realized = (p + sale.proceeds) - (r + sale.released)
  BY <1>4, <1>5, <1>2
<1> QED
  BY <1>3, <1>6 DEF Follows

\* A price of at most a whole payout brings at most a payout for each contract.
LEMMA FloorCentsBound ==
  ASSUME NEW price \in Nat, price <= One, NEW quantity \in Nat
  PROVE  0 <= FloorCents(price * quantity) /\ FloorCents(price * quantity) <= 100 * quantity
<1>1. PICK unit \in Nat \ {0} : unit = UnitsPerCent
  BY PriceAssumption
<1>2. PICK amount \in Nat : amount = price * quantity
  OBVIOUS
<1>3. PICK cents \in Nat : cents = 100 * quantity
  OBVIOUS
<1>4. amount <= (100 * unit) * quantity
  <2>1. price <= 100 * unit
    BY <1>1 DEF One
  <2>2. price * quantity <= (100 * unit) * quantity
    BY <2>1
  <2> QED
    BY <1>2, <2>2
<1>5. (100 * unit) * quantity = unit * cents
  BY <1>3
<1>6. PICK share \in Int : share = amount \div unit
  OBVIOUS
<1>7. share \in Nat /\ unit * share <= amount
  BY <1>6
<1>8. unit * share <= unit * cents
  BY <1>4, <1>5, <1>7
<1>9. share <= cents
  <2>1. SUFFICES ASSUME share >= cents + 1 PROVE FALSE
    BY <1>7
  <2>2. unit * share >= unit * (cents + 1)
    BY <1>7, <2>1
  <2>3. unit * (cents + 1) = unit * cents + unit
    OBVIOUS
  <2> QED
    BY <1>7, <1>8, <2>2, <2>3
<1> QED
  BY <1>1, <1>2, <1>3, <1>6, <1>7, <1>9 DEF FloorCents

LEMMA EventSells ==
  ASSUME NEW job \in JobRows, NEW price \in Nat, price <= One,
         NEW quantity \in Nat, quantity <= job.row.remaining,
         NEW next, next.row = job.row, next.decision = job.decision,
         next.sale = Event(job, quantity, price)
  PROVE  Sells(next) /\ next.sale.quantity = quantity
<1>1. 0 <= FloorCents(price * quantity) /\ FloorCents(price * quantity) <= 100 * quantity
  BY FloorCentsBound
<1>2. /\ next.sale.decision = job.decision
      /\ next.sale.quantity = quantity /\ next.sale.released = Allocated(job.row, quantity)
      /\ next.sale.proceeds = FloorCents(price * quantity)
  BY DEF Event
<1> QED
  BY <1>1, <1>2 DEF Sells

\* Something is sold for a fresh quote only.
LEMMA SellingPrice ==
  ASSUME TypeOK, NEW f, Recommendation(f).action # "hold"
  PROVE  quote.bid <= One
<1>1. QuoteStatus = "fresh"
  BY DEF Recommendation
<1>2. Usable(quote.bid)
  BY <1>1 DEF QuoteStatus
<1>3. quote.bid \in Nat /\ One \in Nat
  BY PriceAssumption DEF TypeOK, One
<1> QED
  BY <1>2, <1>3 DEF Usable

LEMMA JudgeComputes ==
  ASSUME MoneyInv, NEW w \in Requests, Judge(w)
  PROVE  RequestGrounded(requests'[w], entries, positions)
<1>1. PICK job, after, sale, price, next :
        /\ job = requests[w] /\ after = After(job) /\ sale = Sale(job) /\ price = quote.id
        /\ next = JudgedJob(job, after, sale, price)
  OBVIOUS
<1>2. w \in Jobs /\ Sound(job) /\ requests' = [requests EXCEPT ![w] = next]
  BY <1>1 DEF Judge, JudgedJob
<1>3. TypeOK /\ job \in JobRows /\ job.kind \in JobKinds
  BY <1>1, <1>2, KindOfRequest DEF MoneyInv, IInv, Jobs, JobKinds
<1>4. after \in Rows /\ sale \in Events /\ price \in Nat
  BY <1>1, <1>2, <1>3, AfterType, SaleType DEF TypeOK
<1>5. /\ next \in JobRows /\ next.kind = job.kind /\ next.entry = job.entry
      /\ next.decision = job.decision /\ next.row = job.row
      /\ next.after = after /\ next.sale = sale
  BY <1>1, <1>3, <1>4, JudgedType
<1>6. next.caller = job.caller
  BY <1>1, <1>3 DEF JudgedJob, JobRows
<1>7. RequestGrounded(job, entries, positions)
  BY <1>1 DEF MoneyInv
<1>8. requests'[w] = next
  BY <1>2, <1>3 DEF TypeOK
<1>9. job.row \in Rows /\ job.row.remaining \in Nat
  BY <1>3 DEF JobRows, Rows
<1>10. Computed(next)
  <2>1. CASE job.kind = "mark"
    <3>1. after = Marked(job.row, MarkPrice)
      BY <1>1, <2>1 DEF After
    <3>2. MarkPrice \in Nat
      BY <1>3 DEF MarkPrice, TypeOK
    <3> QED
      BY <1>5, <2>1, <3>1, <3>2 DEF Computed
  <2>2. CASE job.kind = "settle"
    <3>1. OfficialPayout \in resolutions
      BY <1>2, <2>2 DEF Sound, OfficialPayout
    <3>2. OfficialPayout \in Nat /\ OfficialPayout <= One
      BY <1>3, <3>1, PriceAssumption DEF TypeOK, One
    <3>3. sale = Event(job, job.row.remaining, OfficialPayout) /\ after = Emptied(Sold(job.row, sale), "settled")
      BY <1>1, <2>2 DEF Sale, After
    <3>4. Sells(next) /\ next.sale.quantity = job.row.remaining
      BY <1>3, <1>5, <1>9, <3>2, <3>3, EventSells
    <3> QED
      BY <1>5, <2>2, <3>3, <3>4 DEF Computed
  <2>3. CASE job.kind = "dispose"
    <3>1. PICK quantity : quantity = Share(job.row, job.decision.action)
      OBVIOUS
    <3>2. job.row.remaining > 0 /\ job.decision = Recommendation(job.decision.forecast)
      BY <1>2, <2>3 DEF Sound
    <3>3. job.decision.action # "hold"
      BY <1>7, <2>3 DEF RequestGrounded, JobKinds, Purposeful
    <3>4. quote.bid \in Nat /\ quote.bid <= One
      BY <1>3, <3>2, <3>3, SellingPrice DEF TypeOK
    <3>5. quantity \in 1..job.row.remaining
      BY <1>9, <3>1, <3>2, ShareType DEF Share
    <3>6. sale = Event(job, quantity, quote.bid) /\ after = Disposition(Sold(job.row, sale), quote.bid)
      BY <1>1, <2>3, <3>1 DEF Sale, After
    <3>7. Sells(next) /\ next.sale.quantity = quantity
      BY <1>3, <1>5, <1>9, <3>4, <3>5, <3>6, EventSells
    <3>8. \E bid \in Nat : next.after = Disposition(Sold(next.row, next.sale), bid)
      BY <1>5, <3>4, <3>6
    <3> QED
      BY <1>5, <2>3, <3>5, <3>7, <3>8 DEF Computed
  <2> QED
    BY <1>3, <2>1, <2>2, <2>3 DEF JobKinds
<1> QED
  BY <1>3, <1>5, <1>6, <1>7, <1>8, <1>10 DEF RequestGrounded, Purposeful, Grounded, JobKinds

\* A step that writes no position and no disposition.
LEMMA QuietMoney ==
  ASSUME MoneyInv, IInv', NEW w \in Requests, NEW next,
         requests' = [requests EXCEPT ![w] = next],
         UNCHANGED <<entries, positions, dispositions>>,
         RequestGrounded(next, entries, positions)
  PROVE  MoneyInv'
<1>1. \A x \in Requests : requests'[x] = IF x = w THEN next ELSE requests[x]
  BY DEF MoneyInv, IInv, TypeOK
<1>2. \A x \in Requests : RequestGrounded(requests'[x], entries', positions')
  BY <1>1 DEF MoneyInv
<1>3. Accounted'
  BY DEF MoneyInv, Accounted
<1> QED
  BY <1>2, <1>3 DEF MoneyInv

LEMMA IdleGrounded ==
  ASSUME NEW table, NEW rows
  PROVE  RequestGrounded(Idle, table, rows)
BY DEF RequestGrounded, Idle, JobKinds

LEMMA PassGrounded ==
  ASSUME NEW table, NEW rows, NEW pass \in Passes, Known(pass.loaded, rows)
  PROVE  RequestGrounded(pass, table, rows)
BY DEF RequestGrounded, Passes, JobKinds

\* A job has only begun.
LEMMA HeldGrounded ==
  ASSUME NEW kind \in JobKinds, NEW e, NEW row, NEW decision, NEW key, NEW caller, NEW table, NEW rows,
         NEW job, job = Held(kind, e, row, decision, key, caller),
         IF kind = "dispose" THEN decision.action # "hold" ELSE decision = NoDecision,
         row.status = "open" =>
           /\ table[e] # NoEntry
           /\ rows[e].status = "none" => kind # "dispose" /\ row = NewRow(table[e])
           /\ kind = "dispose" /\ rows[e].status = "open" => SameMoney(row, rows[e]),
         caller # Idle => Known(caller.loaded, rows)
  PROVE  RequestGrounded(job, table, rows)
<1>1. /\ job.kind = kind /\ job.step = "locked" /\ job.entry = e /\ job.row = row
      /\ job.decision = decision /\ job.caller = caller
  BY DEF Held
<1>2. kind # "monitor"
  BY DEF JobKinds
<1>3. Purposeful(job)
  BY <1>1 DEF Purposeful
<1>4. Grounded(job, table[e], rows[e])
  BY <1>1 DEF Grounded
<1>5. Computed(job)
  BY <1>1 DEF Computed
<1> QED
  BY <1>1, <1>2, <1>3, <1>4, <1>5 DEF RequestGrounded

LEMMA StartMoney ==
  ASSUME MoneyInv, IInv', NEW w \in Requests, Start(w)
  PROVE  MoneyInv'
<1>1. TypeOK /\ Accounted
  BY DEF MoneyInv, IInv
<1>2. ASSUME NEW e \in Entries, NEW kind \in {"mark", "settle"}, BeginLifecycle(w, kind, e)
      PROVE  MoneyInv'
  <2>1. PICK job : job = Held(kind, e, Position(e), NoDecision, 0, Idle)
    OBVIOUS
  <2>2. /\ entries[e] # NoEntry /\ requests' = [requests EXCEPT ![w] = job]
        /\ UNCHANGED <<entries, positions, dispositions>>
    BY <1>2, <2>1 DEF BeginLifecycle, ledger
  <2>3. positions[e].status = "none" => Position(e) = NewRow(entries[e])
    BY DEF Position
  <2>4. kind \in JobKinds /\ kind # "dispose"
    BY DEF JobKinds
  <2>5. RequestGrounded(job, entries, positions)
    BY <2>1, <2>2, <2>3, <2>4, HeldGrounded
  <2> QED
    BY <2>2, <2>5, QuietMoney
<1>3. ASSUME NEW e \in Entries, NEW decision \in decisions[e], BeginDisposal(w, e, decision)
      PROVE  MoneyInv'
  <2>1. PICK job : job = Held("dispose", e, positions[e], decision, 0, Idle)
    OBVIOUS
  <2>2. /\ decision.action # "hold" /\ requests' = [requests EXCEPT ![w] = job]
        /\ UNCHANGED <<entries, positions, dispositions>>
    BY <1>3, <2>1 DEF BeginDisposal, ledger
  <2>3. positions[e].status = "open" => entries[e] # NoEntry
    BY <1>1 DEF Accounted
  <2>4. "dispose" \in JobKinds /\ SameMoney(positions[e], positions[e])
    BY DEF JobKinds, SameMoney
  <2>5. RequestGrounded(job, entries, positions)
    BY <2>1, <2>2, <2>3, <2>4, HeldGrounded
  <2> QED
    BY <2>2, <2>5, QuietMoney
<1>4. CASE BeginPass(w)
  <2>1. PICK pass : pass = [kind |-> "monitor", step |-> "next", loaded |-> positions, todo |-> Open,
                            entry |-> 1, decision |-> NoDecision, status |-> "fresh"]
    OBVIOUS
  <2>2. requests' = [requests EXCEPT ![w] = pass] /\ UNCHANGED <<entries, positions, dispositions>>
    BY <1>4, <2>1 DEF BeginPass, ledger
  <2>3. RequestGrounded(pass, entries, positions)
    BY <2>1 DEF RequestGrounded, Known, JobKinds
  <2> QED
    BY <2>2, <2>3, QuietMoney
<1> QED
  BY <1>2, <1>3, <1>4 DEF Start

LEMMA JobCaller ==
  ASSUME MoneyInv, NEW w \in Jobs
  PROVE  /\ w \in Requests /\ requests[w] \in JobRows /\ requests[w].kind \in JobKinds
         /\ RequestGrounded(requests[w], entries, positions)
         /\ requests[w].caller # Idle =>
              requests[w].caller \in Passes /\ Known(requests[w].caller.loaded, positions)
<1>1. w \in Requests /\ requests[w] \in JobRows /\ requests[w].kind \in JobKinds
  BY KindOfRequest DEF MoneyInv, IInv, Jobs, JobKinds
<1>2. RequestGrounded(requests[w], entries, positions)
  BY <1>1 DEF MoneyInv
<1> QED
  BY <1>1, <1>2 DEF RequestGrounded, JobRows

\* A pass that goes on loads nothing.
LEMMA PassMoney ==
  ASSUME MoneyInv, IInv', NEW w \in Requests, NEW pass \in Passes, Known(pass.loaded, positions),
         requests' = [requests EXCEPT ![w] = pass], UNCHANGED <<entries, positions, dispositions>>
  PROVE  MoneyInv'
BY PassGrounded, QuietMoney

LEMMA ReplayMoney ==
  ASSUME MoneyInv, IInv', NEW w \in Requests, Replay(w) \/ Refuse(w)
  PROVE  MoneyInv'
<1>1. w \in Jobs /\ UNCHANGED <<entries, positions, dispositions>>
  BY DEF Replay, Refuse, ledger
<1>2. PICK caller : caller = requests[w].caller
  OBVIOUS
<1>3. \/ requests' = [requests EXCEPT ![w] = caller]
      \/ requests' = [requests EXCEPT ![w] =
           IF caller = Idle THEN Idle ELSE [caller EXCEPT !.step = "expired"]]
  BY <1>2 DEF Replay, Refuse
<1>4. CASE caller = Idle
  BY <1>1, <1>3, <1>4, IdleGrounded, QuietMoney
<1>5. CASE caller # Idle
  <2>1. caller \in Passes /\ Known(caller.loaded, positions)
    BY <1>1, <1>2, <1>5, JobCaller
  <2>2. PICK late : late = [caller EXCEPT !.step = "expired"]
    OBVIOUS
  <2>3. late \in Passes /\ late.loaded = caller.loaded
    BY <2>1, <2>2 DEF Passes
  <2>4. requests' = [requests EXCEPT ![w] = caller] \/ requests' = [requests EXCEPT ![w] = late]
    BY <1>3, <1>5, <2>2
  <2> QED
    BY <1>1, <2>1, <2>3, <2>4, PassMoney
<1> QED
  BY <1>4, <1>5

LEMMA JudgeMoney ==
  ASSUME MoneyInv, IInv', NEW w \in Requests, Judge(w)
  PROVE  MoneyInv'
<1>1. PICK next : next = requests'[w]
  OBVIOUS
<1>2. requests' = [requests EXCEPT ![w] = next] /\ UNCHANGED <<entries, positions, dispositions>>
  BY <1>1 DEF Judge, ledger, MoneyInv, IInv, TypeOK
<1>3. RequestGrounded(next, entries, positions)
  BY <1>1, JudgeComputes
<1> QED
  BY <1>2, <1>3, QuietMoney

LEMMA PassLoaded ==
  ASSUME MoneyInv, NEW w \in Requests, requests[w].kind = "monitor"
  PROVE  requests[w] \in Passes /\ Known(requests[w].loaded, positions)
<1>1. requests[w] \in Passes
  BY KindOfRequest DEF MoneyInv, IInv
<1> QED
  BY <1>1 DEF MoneyInv, RequestGrounded

LEMMA MonitorMoney ==
  ASSUME MoneyInv, IInv', NEW w \in Requests, Alert(w) \/ Check(w) \/ \E e \in Entries : Assess(w, e)
  PROVE  MoneyInv'
<1>1. requests[w].kind = "monitor" /\ UNCHANGED <<entries, positions, dispositions>>
  BY DEF Alert, Check, Assess, At, ledger
<1>2. PICK pass : pass = requests[w]
  OBVIOUS
<1>3. pass \in Passes /\ Known(pass.loaded, positions)
  BY <1>1, <1>2, PassLoaded
<1>4. PICK next : next = requests'[w]
  OBVIOUS
<1>5. requests' = [requests EXCEPT ![w] = next]
  BY <1>4 DEF Alert, Check, Assess, MoneyInv, IInv, TypeOK
<1>6. next.kind = "monitor" /\ next.loaded = pass.loaded
  <2>1. CASE Alert(w)
    BY <1>2, <1>3, <1>4, <2>1 DEF Alert, MoneyInv, IInv, TypeOK, Passes
  <2>2. CASE Check(w)
    BY <1>2, <1>3, <1>4, <2>2 DEF Check, MoneyInv, IInv, TypeOK, Passes
  <2>3. CASE \E e \in Entries : Assess(w, e)
    BY <1>2, <1>4, <2>3 DEF Assess, MoneyInv, IInv, TypeOK
  <2> QED
    BY <2>1, <2>2, <2>3
<1>7. RequestGrounded(next, entries, positions)
  BY <1>3, <1>6 DEF RequestGrounded, JobKinds
<1> QED
  BY <1>1, <1>5, <1>7, QuietMoney

LEMMA CallMarkMoney ==
  ASSUME MoneyInv, IInv', NEW w \in Requests, CallMark(w)
  PROVE  MoneyInv'
<1>1. PICK pass, back : pass = requests[w] /\ back = [pass EXCEPT !.step = "next"]
  OBVIOUS
<1>2. pass.kind = "monitor" /\ pass \in Passes /\ Known(pass.loaded, positions)
  BY <1>1, PassLoaded DEF CallMark, At
<1>3. back.loaded = pass.loaded /\ pass.entry \in Entries
  BY <1>1, <1>2 DEF Passes
<1>4. PICK row, e : row = pass.loaded[pass.entry] /\ e = pass.entry
  OBVIOUS
<1>5. PICK job : job = Held("mark", e, row, NoDecision, pass.decision.price, back)
  OBVIOUS
<1>6. requests' = [requests EXCEPT ![w] = job] /\ UNCHANGED <<entries, positions, dispositions>>
  BY <1>1, <1>4, <1>5 DEF CallMark, ledger
<1>7. row.status = "open" => positions[e].status # "none" /\ entries[e] # NoEntry
  BY <1>2, <1>3, <1>4 DEF Known, MoneyInv, Accounted
<1>8. "mark" \in JobKinds /\ "mark" # "dispose"
  BY DEF JobKinds
<1>9. RequestGrounded(job, entries, positions)
  BY <1>2, <1>3, <1>5, <1>7, <1>8, HeldGrounded
<1> QED
  BY <1>6, <1>9, QuietMoney

LEMMA EnterMoney ==
  ASSUME MoneyInv, IInv', NEW e \in Entries, NEW fill \in Fills, Enter(e, fill)
  PROVE  MoneyInv'
<1>1. /\ entries[e] = NoEntry /\ UNCHANGED <<requests, positions, dispositions>>
      /\ \A x \in Entries : x # e => entries'[x] = entries[x]
  BY DEF Enter, ledger, MoneyInv, IInv, TypeOK
<1>2. entries'[e] = fill /\ fill # NoEntry
  BY CapAssumption DEF Enter, MoneyInv, IInv, TypeOK, NoEntry
<1>3. Accounted'
  BY <1>1, <1>2 DEF MoneyInv, Accounted
<1>4. ASSUME NEW w \in Requests
      PROVE  RequestGrounded(requests[w], entries', positions)
  <2>1. RequestGrounded(requests[w], entries, positions)
    BY DEF MoneyInv
  <2>2. ASSUME requests[w].kind \in JobKinds
        PROVE  Grounded(requests[w], entries'[requests[w].entry], positions[requests[w].entry])
    <3>1. requests[w].entry \in Entries
      BY <2>2, KindOfRequest DEF MoneyInv, IInv, Jobs, JobKinds, JobRows
    <3>2. Grounded(requests[w], entries[requests[w].entry], positions[requests[w].entry])
      BY <2>1, <2>2 DEF RequestGrounded
    <3> QED
      BY <1>1, <1>2, <3>1, <3>2 DEF Grounded
  <2> QED
    BY <2>1, <2>2 DEF RequestGrounded
<1> QED
  BY <1>1, <1>3, <1>4 DEF MoneyInv

\* A flush keeps what its session has not changed.
LEMMA FlushColumns ==
  ASSUME NEW stored \in Rows, NEW loaded \in Rows, NEW after \in Rows, NEW row,
         row = Flush(stored, loaded, after)
  PROVE  IF stored.status = "none" THEN row = after
         ELSE /\ row.status = IF after.status = loaded.status THEN stored.status ELSE after.status
              /\ row.remaining = IF after.remaining = loaded.remaining THEN stored.remaining ELSE after.remaining
              /\ row.disposed = IF after.disposed = loaded.disposed THEN stored.disposed ELSE after.disposed
              /\ row.basis = IF after.basis = loaded.basis THEN stored.basis ELSE after.basis
              /\ row.realized = IF after.realized = loaded.realized THEN stored.realized ELSE after.realized
BY DEF Flush, Rows

\* A disposition that leaves its position open has moved the row by its sale.
LEMMA DispositionMoney ==
  ASSUME NEW row \in Rows, NEW sale \in Events, NEW bid \in Nat, sale.quantity <= row.remaining,
         NEW after, after = Disposition(Sold(row, sale), bid), after.status = "open", row.status = "open"
  PROVE  /\ after.remaining = row.remaining - sale.quantity /\ after.remaining # 0
         /\ after.disposed = row.disposed + sale.quantity
         /\ after.basis = row.basis - sale.released
         /\ after.realized = row.realized + (sale.proceeds - sale.released)
<1>1. PICK left : left = Sold(row, sale)
  OBVIOUS
<1>2. left \in Rows
  BY <1>1, SoldType
<1>3. left.remaining # 0
  <2>1. SUFFICES ASSUME left.remaining = 0 PROVE FALSE
    OBVIOUS
  <2>2. after = Emptied(Marked(left, bid), "closed")
    BY <1>1, <2>1 DEF Disposition
  <2>3. after.status = "closed"
    BY <1>2, <2>2, MarkedType, EmptiedType
  <2> QED
    BY <2>3
<1>4. after = Marked(left, bid)
  BY <1>1, <1>3 DEF Disposition
<1>5. SameMoney(after, left)
  BY <1>2, <1>4, MarkedMoney
<1> QED
  BY <1>1, <1>3, <1>5, SoldMoney DEF SameMoney

\* What a commit of a grounded job makes of its row.
LEMMA CommitRow ==
  ASSUME MoneyInv, NEW w \in Requests, Commit(w),
         NEW job, job = requests[w], NEW e, e = job.entry, NEW new, new = Flushed(job)
  PROVE  /\ job.kind = "mark" /\ positions[e].status = "open" => SameMoney(new, positions[e])
         /\ job.kind = "mark" /\ positions[e].status = "none" => SameMoney(new, NewRow(entries[e]))
         /\ job.kind = "settle" => new.status # "open"
         /\ job.kind = "dispose" /\ new.status = "open" =>
              /\ positions[e].status = "open"
              /\ new.disposed = positions[e].disposed + job.sale.quantity
              /\ new.basis = positions[e].basis - job.sale.released
              /\ new.realized = positions[e].realized + (job.sale.proceeds - job.sale.released)
<1>1. /\ w \in Jobs /\ job \in JobRows /\ e \in Entries /\ job.sale \in Events /\ job.kind \in JobKinds
      /\ job.step = "judged"
  BY CommitJob, JobCaller DEF MoneyInv, Commit
<1>2. job.row.status = "open" /\ job.after \in Rows /\ job.row \in Rows
  BY <1>1 DEF MoneyInv, IInv, JudgedOpen, JudgedRight, JobRows
<1>3. PICK stored : stored = positions[e]
  OBVIOUS
<1>4. stored \in Rows
  BY <1>1, <1>3 DEF MoneyInv, IInv, TypeOK
<1>5. new = Flush(stored, job.row, job.after)
  BY <1>3 DEF Flushed
<1>6. Computed(job) /\ Grounded(job, entries[e], stored)
  BY <1>1, <1>3 DEF MoneyInv, RequestGrounded
<1>7. PICK row, after, sale : row = job.row /\ after = job.after /\ sale = job.sale
  OBVIOUS
<1>8. row \in Rows /\ after \in Rows /\ sale \in Events /\ row.status = "open"
      /\ new = Flush(stored, row, after)
  BY <1>1, <1>2, <1>5, <1>7
<1>9. IF stored.status = "none" THEN new = after
      ELSE /\ new.status = IF after.status = row.status THEN stored.status ELSE after.status
           /\ new.remaining = IF after.remaining = row.remaining THEN stored.remaining ELSE after.remaining
           /\ new.disposed = IF after.disposed = row.disposed THEN stored.disposed ELSE after.disposed
           /\ new.basis = IF after.basis = row.basis THEN stored.basis ELSE after.basis
           /\ new.realized = IF after.realized = row.realized THEN stored.realized ELSE after.realized
  BY <1>4, <1>8, FlushColumns
<1>10. CASE job.kind = "mark"
  <2>1. PICK price \in Nat : after = Marked(row, price)
    BY <1>1, <1>6, <1>7, <1>10 DEF Computed
  <2>2. SameMoney(after, row)
    BY <1>8, <2>1, MarkedMoney
  <2>3. stored.status = "none" => row = NewRow(entries[e])
    BY <1>2, <1>6, <1>7 DEF Grounded
  <2> QED
    BY <1>3, <1>9, <1>10, <2>2, <2>3 DEF SameMoney
<1>11. CASE job.kind = "settle"
  <2>1. after = Emptied(Sold(row, sale), "settled") /\ sale.quantity <= row.remaining
    BY <1>1, <1>6, <1>7, <1>11 DEF Computed, Sells
  <2>2. after.status = "settled"
    BY <1>8, <2>1, SoldType, EmptiedType
  <2> QED
    BY <1>8, <1>9, <1>11, <2>2
<1>12. CASE job.kind = "dispose"
  <2>1. SUFFICES ASSUME new.status = "open"
                 PROVE  /\ stored.status = "open"
                        /\ new.disposed = stored.disposed + sale.quantity
                        /\ new.basis = stored.basis - sale.released
                        /\ new.realized = stored.realized + (sale.proceeds - sale.released)
    BY <1>3, <1>7, <1>12
  <2>2. PICK bid \in Nat : after = Disposition(Sold(row, sale), bid)
    BY <1>1, <1>6, <1>7, <1>12 DEF Computed
  <2>3. sale.quantity <= row.remaining
    BY <1>1, <1>6, <1>7, <1>12 DEF Computed, Sells
  <2>4. stored.status # "none" /\ (stored.status = "open" => SameMoney(row, stored))
    BY <1>6, <1>7, <1>8, <1>12 DEF Grounded
  <2>5. after.status \in {"open", "closed"}
    BY <1>8, <2>2, <2>3, SoldType, DispositionType
  <2>6. after.status = "open" /\ stored.status = "open"
    BY <1>8, <1>9, <2>1, <2>4, <2>5
  <2>7. /\ after.disposed = row.disposed + sale.quantity
        /\ after.basis = row.basis - sale.released
        /\ after.realized = row.realized + (sale.proceeds - sale.released)
    BY <1>8, <2>2, <2>3, <2>6, DispositionMoney
  <2> QED
    BY <1>9, <2>4, <2>6, <2>7 DEF SameMoney
<1> QED
  BY <1>1, <1>10, <1>11, <1>12 DEF JobKinds

\* What a disposition is about to record is not recorded yet.
LEMMA CommitNew ==
  ASSUME IInv, NEW w \in Requests, Commit(w), requests[w].kind = "dispose"
  PROVE  requests[w].sale \notin dispositions[requests[w].entry]
<1>1. w \in Jobs /\ requests[w].sale.decision = requests[w].decision
  BY CommitJob
<1>2. ~Disposed(requests[w].entry, requests[w].decision)
  BY <1>1 DEF IInv, Excluded
<1> QED
  BY <1>1, <1>2 DEF Disposed

LEMMA CommitAccounted ==
  ASSUME MoneyInv, NEW w \in Requests, Commit(w)
  PROVE  Accounted'
<1>1. PICK job, e, new, sale :
        /\ job = requests[w] /\ e = job.entry /\ new = Flushed(job) /\ sale = job.sale
  OBVIOUS
<1>2. /\ w \in Jobs /\ job \in JobRows /\ e \in Entries /\ new \in Rows /\ sale \in Events
      /\ new.status \in {"open", "closed", "settled"}
      /\ positions[e].status \in {"closed", "settled"} => new.status \in {"closed", "settled"}
      /\ positions' = [positions EXCEPT ![e] = new]
      /\ UNCHANGED entries
  BY <1>1, CommitJob DEF MoneyInv
<1>3. /\ job.kind = "mark" /\ positions[e].status = "open" => SameMoney(new, positions[e])
      /\ job.kind = "mark" /\ positions[e].status = "none" => SameMoney(new, NewRow(entries[e]))
      /\ job.kind = "settle" => new.status # "open"
      /\ job.kind = "dispose" /\ new.status = "open" =>
           /\ positions[e].status = "open"
           /\ new.disposed = positions[e].disposed + sale.quantity
           /\ new.basis = positions[e].basis - sale.released
           /\ new.realized = positions[e].realized + (sale.proceeds - sale.released)
  BY <1>1, CommitRow
<1>4. dispositions' = IF job.kind = "dispose" THEN [dispositions EXCEPT ![e] = @ \union {sale}] ELSE dispositions
  BY <1>1 DEF Commit, Recorded
<1>5. /\ positions[e] \in Rows /\ dispositions \in [Entries -> SUBSET Events]
      /\ positions \in [Entries -> Rows]
  BY <1>2 DEF MoneyInv, IInv, TypeOK
<1>6. Accounted
  BY DEF MoneyInv
<1>7. /\ positions'[e] = new
      /\ \A x \in Entries : x # e => positions'[x] = positions[x] /\ dispositions'[x] = dispositions[x]
      /\ dispositions'[e] = IF job.kind = "dispose" THEN dispositions[e] \union {sale} ELSE dispositions[e]
  BY <1>2, <1>4, <1>5
<1>8. entries[e] # NoEntry /\ entries[e].cost \in Nat
  <2>1. entries[e].cost \in Nat
    BY <1>2, CapAssumption DEF MoneyInv, IInv, TypeOK, NoEntry
  <2>2. job.row.status = "open"
    BY <1>1, <1>2 DEF MoneyInv, IInv, JudgedOpen, JudgedRight, Commit
  <2>3. Grounded(job, entries[e], positions[e])
    BY <1>1, <1>2, JobCaller DEF RequestGrounded
  <2> QED
    BY <2>1, <2>2, <2>3 DEF Grounded
<1>9. IsFiniteSet(dispositions'[e])
  <2>1. PICK old : old = dispositions[e]
    OBVIOUS
  <2>2. IsFiniteSet(old)
    BY <1>2, <1>6, <2>1 DEF Accounted
  <2>3. IsFiniteSet(old \union {sale})
    BY <2>2, FS_AddElement
  <2> QED
    BY <1>7, <2>1, <2>2, <2>3
<1>10. ASSUME new.status = "open"
       PROVE  Follows(new, entries[e], dispositions'[e])
  <2>1. positions[e].status \in {"none", "open"}
    BY <1>2, <1>5, <1>10 DEF Rows
  <2>2. job.kind \in {"mark", "dispose"}
    BY <1>2, <1>3, <1>10 DEF JobRows
  <2>3. CASE job.kind = "mark" /\ positions[e].status = "open"
    <3>1. Follows(positions[e], entries[e], dispositions[e]) /\ SameMoney(new, positions[e])
      BY <1>2, <1>3, <1>6, <2>3 DEF Accounted
    <3>2. dispositions'[e] = dispositions[e]
      BY <1>7, <2>3
    <3> QED
      BY <3>1, <3>2, FollowsSame
  <2>4. CASE job.kind = "mark" /\ positions[e].status = "none"
    <3>1. dispositions'[e] = {} /\ SameMoney(new, NewRow(entries[e]))
      BY <1>2, <1>3, <1>6, <1>7, <2>4 DEF Accounted
    <3> QED
      BY <1>8, <3>1, FollowsNothing, FollowsSame
  <2>5. CASE job.kind = "dispose"
    <3>1. /\ positions[e].status = "open"
          /\ new.disposed = positions[e].disposed + sale.quantity
          /\ new.basis = positions[e].basis - sale.released
          /\ new.realized = positions[e].realized + (sale.proceeds - sale.released)
      BY <1>3, <1>10, <2>5
    <3>2. Follows(positions[e], entries[e], dispositions[e]) /\ IsFiniteSet(dispositions[e])
      BY <1>2, <1>6, <3>1 DEF Accounted
    <3>3. sale \notin dispositions[e]
      BY <1>1, <2>5, CommitNew DEF MoneyInv
    <3>4. dispositions[e] \subseteq Events
      BY <1>2, <1>5
    <3>5. Follows(new, entries[e], dispositions[e] \union {sale})
      BY <1>2, <1>5, <1>8, <3>1, <3>2, <3>3, <3>4, FollowsSale
    <3> QED
      BY <1>7, <2>5, <3>5
  <2> QED
    BY <2>1, <2>2, <2>3, <2>4, <2>5
<1> QED
  BY <1>2, <1>6, <1>7, <1>8, <1>9, <1>10 DEF Accounted

\* Whoever else has read a row of this entry has not read what a commit changes.
LEMMA CommitOthers ==
  ASSUME MoneyInv, NEW w \in Requests, Commit(w), NEW x \in Requests, x # w
  PROVE  RequestGrounded(requests[x], entries, positions')
<1>1. PICK job, e, new : job = requests[w] /\ e = job.entry /\ new = Flushed(job)
  OBVIOUS
<1>2. /\ w \in Jobs /\ job \in JobRows /\ e \in Entries /\ new \in Rows
      /\ new.status \in {"open", "closed", "settled"}
      /\ positions[e].status \in {"closed", "settled"} => new.status \in {"closed", "settled"}
      /\ positions' = [positions EXCEPT ![e] = new]
  BY <1>1, CommitJob DEF MoneyInv
<1>3. /\ job.kind = "mark" /\ positions[e].status = "open" => SameMoney(new, positions[e])
      /\ job.kind = "settle" => new.status # "open"
  BY <1>1, CommitRow
<1>4. positions \in [Entries -> Rows]
  BY DEF MoneyInv, IInv, TypeOK
<1>5. positions'[e] = new /\ \A y \in Entries : y # e => positions'[y] = positions[y]
  BY <1>2, <1>4
<1>6. \A y \in Entries : positions[y].status # "none" => positions'[y].status # "none"
  BY <1>2, <1>5
<1>7. RequestGrounded(requests[x], entries, positions)
  BY DEF MoneyInv
<1>8. \A loaded : Known(loaded, positions) => Known(loaded, positions')
  BY <1>6 DEF Known
<1>9. ASSUME requests[x].kind \in JobKinds
      PROVE  Grounded(requests[x], entries[requests[x].entry], positions'[requests[x].entry])
  <2>1. PICK other : other = requests[x]
    OBVIOUS
  <2>2. x \in Jobs /\ other \in JobRows /\ other.entry \in Entries
    BY <1>9, <2>1, KindOfRequest DEF MoneyInv, IInv, Jobs, JobKinds, JobRows
  <2>3. Grounded(other, entries[other.entry], positions[other.entry])
    BY <1>7, <1>9, <2>1 DEF RequestGrounded
  <2>4. CASE other.entry # e
    BY <1>5, <2>1, <2>2, <2>3, <2>4
  <2>5. CASE other.entry = e
    <3>1. other.kind = "dispose" => job.kind # "dispose"
      BY <1>1, <1>2, <2>1, <2>2, <2>5 DEF MoneyInv, IInv, Excluded, Lock
    <3>2. new.status # "none"
      BY <1>2
    <3>3. ASSUME other.row.status = "open", other.kind = "dispose", new.status = "open"
          PROVE  SameMoney(other.row, new)
      <4>1. positions[e].status = "open"
        <5>1. positions[e].status \in {"none", "open"}
          BY <1>2, <1>4, <3>3 DEF Rows
        <5>2. positions[e].status # "none"
          BY <2>3, <2>5, <3>3 DEF Grounded
        <5> QED
          BY <5>1, <5>2
      <4>2. SameMoney(other.row, positions[e])
        BY <2>3, <2>5, <3>3, <4>1 DEF Grounded
      <4>3. job.kind = "mark"
        BY <1>2, <1>3, <3>1, <3>3 DEF JobRows
      <4> QED
        BY <1>3, <4>1, <4>2, <4>3 DEF SameMoney
    <3> QED
      BY <1>5, <2>1, <2>3, <2>5, <3>2, <3>3 DEF Grounded
  <2> QED
    BY <2>4, <2>5
<1> QED
  BY <1>7, <1>8, <1>9 DEF RequestGrounded

LEMMA CommitMoney ==
  ASSUME MoneyInv, IInv', NEW w \in Requests, Commit(w)
  PROVE  MoneyInv'
<1>1. Accounted'
  BY CommitAccounted
<1>2. w \in Jobs /\ UNCHANGED entries /\ requests' = [requests EXCEPT ![w] = requests[w].caller]
  BY CommitJob DEF MoneyInv
<1>3. \A x \in Requests : requests'[x] = IF x = w THEN requests[w].caller ELSE requests[x]
  BY <1>2 DEF MoneyInv, IInv, TypeOK
<1>4. RequestGrounded(requests[w].caller, entries, positions')
  <2>1. PICK caller : caller = requests[w].caller
    OBVIOUS
  <2>2. CASE caller = Idle
    BY <2>1, <2>2, IdleGrounded
  <2>3. CASE caller # Idle
    <3>1. caller \in Passes /\ Known(caller.loaded, positions)
      BY <1>2, <2>1, <2>3, JobCaller
    <3>2. Known(caller.loaded, positions')
      <4>1. PICK e, new : e = requests[w].entry /\ new = Flushed(requests[w])
        OBVIOUS
      <4>2. e \in Entries /\ new.status \in {"open", "closed", "settled"} /\ positions' = [positions EXCEPT ![e] = new]
        BY <4>1, CommitJob DEF MoneyInv
      <4>3. \A y \in Entries : positions[y].status # "none" => positions'[y].status # "none"
        BY <4>2 DEF MoneyInv, IInv, TypeOK
      <4> QED
        BY <3>1, <4>3 DEF Known
    <3> QED
      BY <2>1, <3>1, <3>2, PassGrounded
  <2> QED
    BY <2>2, <2>3
<1>5. \A x \in Requests : RequestGrounded(requests'[x], entries', positions')
  BY <1>2, <1>3, <1>4, CommitOthers
<1> QED
  BY <1>1, <1>5 DEF MoneyInv

LEMMA MoneyStep ==
  ASSUME MoneyInv, [Next]_vars
  PROVE  MoneyInv'
<1>1. IInv'
  BY StepInv DEF MoneyInv
<1>2. CASE UNCHANGED <<requests, entries, positions, dispositions>>
  BY <1>1, <1>2 DEF MoneyInv, Accounted
<1>3. ASSUME NEW w \in Requests, requests' = [requests EXCEPT ![w] = Idle],
             UNCHANGED <<entries, positions, dispositions>>
      PROVE  MoneyInv'
  BY <1>1, <1>3, IdleGrounded, QuietMoney
<1>4. ASSUME NEW w \in Requests, Advance(w)
      PROVE  MoneyInv'
  <2>1. CASE Reject(w) \/ EndPass(w)
    BY <1>3, <2>1 DEF Reject, EndPass, ledger
  <2> QED
    BY <1>1, <1>4, <2>1, JudgeMoney, ReplayMoney, CommitMoney, MonitorMoney DEF Advance
<1>5. ASSUME NEW w \in Requests, Stop(w)
      PROVE  MoneyInv'
  BY <1>3, <1>5 DEF Stop, ledger
<1>6. CASE Arrive
  BY <1>2, <1>6 DEF Arrive, Publish, GoStale, Forecast, Expire, Resolve, ledger
<1>7. CASE \E e \in Entries, fill \in Fills : Enter(e, fill)
  BY <1>1, <1>7, EnterMoney
<1>8. CASE UNCHANGED vars
  BY <1>2, <1>8 DEF vars, ledger
<1> QED
  BY <1>1, <1>4, <1>5, <1>6, <1>7, <1>8, StartMoney, CallMarkMoney DEF Next

LEMMA MoneyInit == Init => MoneyInv
<1> SUFFICES ASSUME Init PROVE MoneyInv
  OBVIOUS
<1>1. IInv
  BY InitInv
<1>2. Accounted
  BY FS_EmptySet DEF Init, Accounted, NoRow
<1>3. \A w \in Requests : requests[w] = Idle
  BY DEF Init
<1> QED
  BY <1>1, <1>2, <1>3, IdleGrounded DEF MoneyInv

LEMMA MoneyInvariance == Spec => []MoneyInv
BY MoneyInit, MoneyStep, PTL DEF Spec

\* However many requests mark, dispose of and settle a position, an open one is
\* its entry less its dispositions: what a pass writes from a row that it loaded
\* long before undoes none, and none is lost or counted twice
\* (nfl_pilot/lifecycle.py, dispose and _apply_mark).
THEOREM DispositionsTheorem == Spec => []OpenPositionFollowsDispositions
<1>1. MoneyInv => OpenPositionFollowsDispositions
  BY DEF MoneyInv, Accounted, OpenPositionFollowsDispositions, Open
<1> QED
  BY <1>1, MoneyInvariance, PTL

-----------------------------------------------------------------------------
(* One request at a time.  The code does not guarantee it: with two, a      *)
(* disposition and a settlement can pay for the same contracts.            *)

OneAtATime == \A w, x \in Requests : w = x

Rowed(row, entry, events) ==
  /\ Follows(row, entry, events)
  /\ row.status = "open" =>
       /\ row.remaining > 0 /\ row.basis >= 0
       /\ row.mark # 0 => row = Marked(row, row.mark)

Settled ==
  \A e \in Entries :
    /\ IsFiniteSet(settlements[e])
    /\ \A d \in dispositions[e] : d.decision.action # "hold"
    /\ \A s \in settlements[e] : s.decision = NoDecision
    /\ positions[e].status \in {"none", "open"} => settlements[e] = {}
    /\ positions[e].status # "none" =>
         Rowed(positions[e], entries[e], dispositions[e] \union settlements[e])

\* Nobody else writes, so what a pass has loaded and not been at yet is as it
\* was, and so is what a job has read.
Unwritten(pass, rows) == \A e \in pass.todo : pass.loaded[e] = rows[e]

Current(request, rows) ==
  /\ request.kind = "monitor" =>
       /\ Unwritten(request, rows)
       /\ request.step \in {"alert", "check", "mark"} =>
            request.loaded[request.entry] = rows[request.entry] /\ request.entry \notin request.todo
  /\ request.kind \in JobKinds =>
       /\ rows[request.entry].status # "none" => request.row = rows[request.entry]
       /\ request.caller # Idle =>
            /\ Unwritten(request.caller, rows) /\ request.entry \notin request.caller.todo
            /\ request.caller.step = "next"

SerialInv ==
  /\ MoneyInv /\ Settled
  /\ \A w \in Requests : Current(requests[w], positions)

LEMMA FlushOfCurrent ==
  ASSUME NEW row \in Rows, NEW after \in Rows
  PROVE  Flush(row, row, after) = after
BY DEF Flush, Rows

LEMMA MarkedAgain ==
  ASSUME NEW row \in Rows, NEW price \in Nat, NEW after, after = Marked(row, price)
  PROVE  after.mark = price /\ Marked(after, after.mark) = after
<1>1. PICK value, unrealized : value = FloorCents(price * row.remaining) /\ unrealized = value - row.basis
  OBVIOUS
<1>2. after = [row EXCEPT !.mark = price, !.value = value, !.unrealized = unrealized]
  BY <1>1 DEF Marked
<1>3. /\ after.mark = price /\ after.remaining = row.remaining /\ after.basis = row.basis
  BY <1>2 DEF Rows
<1>4. Marked(after, price) = [after EXCEPT !.mark = price, !.value = value, !.unrealized = unrealized]
  BY <1>1, <1>3 DEF Marked
<1>5. [after EXCEPT !.mark = price, !.value = value, !.unrealized = unrealized] = after
  BY <1>2 DEF Rows
<1> QED
  BY <1>3, <1>4, <1>5

LEMMA AllocatedNatural ==
  ASSUME NEW row \in Rows, row.basis >= 0, NEW quantity \in Nat, quantity <= row.remaining
  PROVE  Allocated(row, quantity) \in Nat
<1>1. PICK basis \in Nat, remaining \in Nat : basis = row.basis /\ remaining = row.remaining
  BY DEF Rows
<1>2. basis * quantity \in Nat
  OBVIOUS
<1>3. quantity # remaining => (basis * quantity) \div remaining \in Nat
  BY <1>1, <1>2
<1> QED
  BY <1>1, <1>3 DEF Allocated

\* The row of a filled entry that is still to be made.
LEMMA NewRowed ==
  ASSUME MoneyInv, NEW e \in Entries, entries[e] # NoEntry
  PROVE  Rowed(NewRow(entries[e]), entries[e], {}) /\ NewRow(entries[e]).status = "open"
<1>1. entries[e].cost \in Nat /\ entries[e].quantity \in Nat /\ entries[e].quantity > 0 /\ entries[e].cost > 0
  BY CapAssumption DEF MoneyInv, IInv, TypeOK
<1>2. Follows(NewRow(entries[e]), entries[e], {})
  BY <1>1, FollowsNothing
<1> QED
  BY <1>1, <1>2 DEF Rowed, NewRow

LEMMA QuietSerial ==
  ASSUME SerialInv, MoneyInv', NEW w \in Requests, NEW next,
         requests' = [requests EXCEPT ![w] = next],
         UNCHANGED <<entries, positions, dispositions, settlements>>,
         Current(next, positions)
  PROVE  SerialInv'
<1>1. \A x \in Requests : requests'[x] = IF x = w THEN next ELSE requests[x]
  BY DEF SerialInv, MoneyInv, IInv, TypeOK
<1>2. \A x \in Requests : Current(requests'[x], positions')
  BY <1>1 DEF SerialInv
<1>3. Settled'
  BY DEF SerialInv, Settled
<1> QED
  BY <1>2, <1>3 DEF SerialInv

LEMMA IdleCurrent ==
  ASSUME NEW rows
  PROVE  Current(Idle, rows)
BY DEF Current, Idle, JobKinds

LEMMA HeldCurrent ==
  ASSUME NEW kind \in JobKinds, NEW e, NEW row, NEW decision, NEW key, NEW rows,
         NEW caller, NEW job, job = Held(kind, e, row, decision, key, caller),
         rows[e].status # "none" => row = rows[e],
         caller # Idle => Unwritten(caller, rows) /\ e \notin caller.todo /\ caller.step = "next"
  PROVE  Current(job, rows)
<1>1. job.kind = kind /\ job.entry = e /\ job.row = row /\ job.caller = caller
  BY DEF Held
<1>2. kind # "monitor"
  BY DEF JobKinds
<1> QED
  BY <1>1, <1>2 DEF Current

LEMMA StartSerial ==
  ASSUME SerialInv, MoneyInv', NEW w \in Requests, Start(w)
  PROVE  SerialInv'
<1>1. ASSUME NEW e \in Entries, NEW kind \in {"mark", "settle"}, BeginLifecycle(w, kind, e)
      PROVE  SerialInv'
  <2>1. PICK job : job = Held(kind, e, Position(e), NoDecision, 0, Idle)
    OBVIOUS
  <2>2. requests' = [requests EXCEPT ![w] = job] /\ UNCHANGED <<entries, positions, dispositions, settlements>>
    BY <1>1, <2>1 DEF BeginLifecycle, ledger
  <2>3. positions[e].status # "none" => Position(e) = positions[e]
    BY DEF Position
  <2>4. kind \in JobKinds
    BY DEF JobKinds
  <2>5. Current(job, positions)
    BY <2>1, <2>3, <2>4, HeldCurrent
  <2> QED
    BY <2>2, <2>5, QuietSerial
<1>2. ASSUME NEW e \in Entries, NEW decision \in decisions[e], BeginDisposal(w, e, decision)
      PROVE  SerialInv'
  <2>1. PICK job : job = Held("dispose", e, positions[e], decision, 0, Idle)
    OBVIOUS
  <2>2. requests' = [requests EXCEPT ![w] = job] /\ UNCHANGED <<entries, positions, dispositions, settlements>>
    BY <1>2, <2>1 DEF BeginDisposal, ledger
  <2>3. "dispose" \in JobKinds
    BY DEF JobKinds
  <2>4. Current(job, positions)
    BY <2>1, <2>3, HeldCurrent
  <2> QED
    BY <2>2, <2>4, QuietSerial
<1>3. CASE BeginPass(w)
  <2>1. PICK pass : pass = [kind |-> "monitor", step |-> "next", loaded |-> positions, todo |-> Open,
                            entry |-> 1, decision |-> NoDecision, status |-> "fresh"]
    OBVIOUS
  <2>2. requests' = [requests EXCEPT ![w] = pass] /\ UNCHANGED <<entries, positions, dispositions, settlements>>
    BY <1>3, <2>1 DEF BeginPass, ledger
  <2>3. Current(pass, positions)
    BY <2>1 DEF Current, Unwritten, JobKinds
  <2> QED
    BY <2>2, <2>3, QuietSerial
<1> QED
  BY <1>1, <1>2, <1>3 DEF Start

LEMMA JudgeSerial ==
  ASSUME SerialInv, MoneyInv', NEW w \in Requests, Judge(w)
  PROVE  SerialInv'
<1>1. PICK job, next : /\ job = requests[w]
                       /\ next = [job EXCEPT !.step = "judged", !.after = After(job), !.sale = Sale(job),
                                             !.price = quote.id]
  OBVIOUS
<1>2. job \in JobRows
  BY <1>1, JobCaller DEF Judge, SerialInv
<1>3. next.kind = job.kind /\ next.entry = job.entry /\ next.row = job.row /\ next.caller = job.caller
  BY <1>1, <1>2 DEF JobRows
<1>4. Current(next, positions)
  <2>1. Current(job, positions) /\ job.kind # "monitor"
    BY <1>1, <1>2 DEF SerialInv, JobRows
  <2> QED
    BY <1>3, <2>1 DEF Current
<1>5. requests' = [requests EXCEPT ![w] = next] /\ UNCHANGED <<entries, positions, dispositions, settlements>>
  BY <1>1 DEF Judge, ledger
<1> QED
  BY <1>4, <1>5, QuietSerial

LEMMA ReplaySerial ==
  ASSUME SerialInv, MoneyInv', NEW w \in Requests, Replay(w) \/ Refuse(w)
  PROVE  SerialInv'
<1>1. w \in Jobs /\ UNCHANGED <<entries, positions, dispositions, settlements>>
  BY DEF Replay, Refuse, ledger
<1>2. PICK caller : caller = requests[w].caller
  OBVIOUS
<1>3. \/ requests' = [requests EXCEPT ![w] = caller]
      \/ requests' = [requests EXCEPT ![w] =
           IF caller = Idle THEN Idle ELSE [caller EXCEPT !.step = "expired"]]
  BY <1>2 DEF Replay, Refuse
<1>4. CASE caller = Idle
  BY <1>1, <1>3, <1>4, IdleCurrent, QuietSerial
<1>5. CASE caller # Idle
  <2>1. caller \in Passes
    BY <1>1, <1>2, <1>5, JobCaller DEF SerialInv
  <2>2. Unwritten(caller, positions) /\ caller.step = "next"
    BY <1>1, <1>2, <1>5, JobCaller DEF SerialInv, Current
  <2>3. PICK late : late = [caller EXCEPT !.step = "expired"]
    OBVIOUS
  <2>4. /\ late.kind = "monitor" /\ caller.kind = "monitor" /\ late.loaded = caller.loaded
        /\ late.todo = caller.todo /\ late.step = "expired"
    BY <2>1, <2>3 DEF Passes
  <2>5. Current(caller, positions) /\ Current(late, positions)
    BY <2>2, <2>4 DEF Current, Unwritten, JobKinds
  <2>6. requests' = [requests EXCEPT ![w] = caller] \/ requests' = [requests EXCEPT ![w] = late]
    BY <1>3, <1>5, <2>3
  <2> QED
    BY <1>1, <2>5, <2>6, QuietSerial
<1> QED
  BY <1>4, <1>5

LEMMA MonitorSerial ==
  ASSUME SerialInv, MoneyInv', NEW w \in Requests, Alert(w) \/ Check(w)
  PROVE  SerialInv'
<1>1. PICK pass, next : pass = requests[w] /\ next = requests'[w]
  OBVIOUS
<1>2. /\ pass \in Passes /\ pass.kind = "monitor" /\ pass.step \in {"alert", "check"}
      /\ UNCHANGED <<entries, positions, dispositions, settlements>>
  BY <1>1, PassLoaded DEF Alert, Check, At, ledger, SerialInv
<1>3. requests' = [requests EXCEPT ![w] = next]
  BY <1>1 DEF Alert, Check, SerialInv, MoneyInv, IInv, TypeOK
<1>4. /\ next.kind = "monitor" /\ next.loaded = pass.loaded /\ next.todo = pass.todo
      /\ next.entry = pass.entry
  <2>1. CASE Alert(w)
    BY <1>1, <1>2, <2>1 DEF Alert, SerialInv, MoneyInv, IInv, TypeOK, Passes
  <2>2. CASE Check(w)
    BY <1>1, <1>2, <2>2 DEF Check, SerialInv, MoneyInv, IInv, TypeOK, Passes
  <2> QED
    BY <2>1, <2>2
<1>5. Current(pass, positions)
  BY <1>1 DEF SerialInv
<1>6. Current(next, positions)
  BY <1>2, <1>4, <1>5 DEF Current, Unwritten, JobKinds
<1> QED
  BY <1>2, <1>3, <1>6, QuietSerial

LEMMA AssessSerial ==
  ASSUME SerialInv, MoneyInv', NEW w \in Requests, NEW e \in Entries, Assess(w, e)
  PROVE  SerialInv'
<1>1. PICK pass : pass = requests[w]
  OBVIOUS
<1>2. PICK next : next = [kind |-> "monitor", step |-> "alert", loaded |-> pass.loaded,
                          todo |-> pass.todo \ {e}, entry |-> e,
                          decision |-> Decided(e, Recommendation(Len(forecasts))), status |-> QuoteStatus]
  OBVIOUS
<1>3. /\ requests' = [requests EXCEPT ![w] = next] /\ e \in pass.todo /\ pass.kind = "monitor"
      /\ UNCHANGED <<entries, positions, dispositions, settlements>>
  BY <1>1, <1>2 DEF Assess, At, ledger, SerialInv, MoneyInv, IInv, TypeOK
<1>4. Unwritten(pass, positions)
  BY <1>1, <1>3 DEF SerialInv, Current
<1>5. Current(next, positions)
  BY <1>2, <1>3, <1>4 DEF Current, Unwritten, JobKinds
<1> QED
  BY <1>3, <1>5, QuietSerial

LEMMA CallMarkSerial ==
  ASSUME SerialInv, MoneyInv', NEW w \in Requests, CallMark(w)
  PROVE  SerialInv'
<1>1. PICK pass, back : pass = requests[w] /\ back = [pass EXCEPT !.step = "next"]
  OBVIOUS
<1>2. pass \in Passes /\ pass.kind = "monitor" /\ pass.step = "mark"
  BY <1>1, PassLoaded DEF CallMark, At, SerialInv
<1>3. back.loaded = pass.loaded /\ back.todo = pass.todo /\ back.step = "next"
  BY <1>1, <1>2 DEF Passes
<1>4. PICK row, e : row = pass.loaded[pass.entry] /\ e = pass.entry
  OBVIOUS
<1>5. PICK job : job = Held("mark", e, row, NoDecision, pass.decision.price, back)
  OBVIOUS
<1>6. requests' = [requests EXCEPT ![w] = job] /\ UNCHANGED <<entries, positions, dispositions, settlements>>
  BY <1>1, <1>4, <1>5 DEF CallMark, ledger
<1>7. row = positions[e] /\ Unwritten(back, positions) /\ e \notin back.todo
  BY <1>1, <1>2, <1>3, <1>4 DEF SerialInv, Current, Unwritten
<1>8. "mark" \in JobKinds
  BY DEF JobKinds
<1>9. Current(job, positions)
  BY <1>3, <1>5, <1>7, <1>8, HeldCurrent
<1> QED
  BY <1>6, <1>9, QuietSerial

LEMMA EnterSerial ==
  ASSUME SerialInv, MoneyInv', NEW e \in Entries, NEW fill \in Fills, Enter(e, fill)
  PROVE  SerialInv'
<1>1. /\ entries[e] = NoEntry /\ UNCHANGED <<requests, positions, dispositions, settlements>>
      /\ \A x \in Entries : x # e => entries'[x] = entries[x]
  BY DEF Enter, ledger, SerialInv, MoneyInv, IInv, TypeOK
<1>2. positions[e].status = "none"
  BY <1>1 DEF SerialInv, MoneyInv, Accounted
<1>3. Settled'
  BY <1>1, <1>2 DEF SerialInv, Settled
<1> QED
  BY <1>1, <1>3 DEF SerialInv

\* What is left of an open row when something is sold of it.
SoldFrom(row, sale, after) ==
  /\ sale.quantity > 0 /\ sale.released \in Nat
  /\ 0 <= sale.proceeds /\ sale.proceeds <= 100 * sale.quantity
  /\ after.remaining = row.remaining - sale.quantity
  /\ after.disposed = row.disposed + sale.quantity
  /\ after.basis = row.basis - sale.released
  /\ after.realized = row.realized + (sale.proceeds - sale.released)
  /\ IF after.remaining = 0
     THEN after.status \in {"closed", "settled"} /\ after.basis = 0
     ELSE /\ after.status = "open"
          /\ after.mark # 0 => after = Marked(after, after.mark)

LEMMA EmptiedMoney ==
  ASSUME NEW left \in Rows, NEW status \in {"closed", "settled"}, left.basis = 0,
         NEW after, after = Emptied(left, status)
  PROVE  SameMoney(after, left) /\ after.status = status
BY DEF Emptied, SameMoney, Rows

LEMMA JobSells ==
  ASSUME NEW job \in JobRows, Computed(job), job.step = "judged", job.kind \in {"settle", "dispose"},
         job.row.status = "open", job.row.remaining > 0, job.row.basis >= 0
  PROVE  SoldFrom(job.row, job.sale, job.after)
<1>1. PICK row, sale, after : row = job.row /\ sale = job.sale /\ after = job.after
  OBVIOUS
<1>2. row \in Rows /\ sale \in Events /\ sale.quantity \in Nat /\ row.remaining \in Nat /\ row.basis \in Nat
  BY <1>1 DEF JobRows, Rows, Events
<1>3. /\ sale.quantity <= row.remaining /\ sale.released = Allocated(row, sale.quantity)
      /\ 0 <= sale.proceeds /\ sale.proceeds <= 100 * sale.quantity
  BY <1>1 DEF Computed, Sells
<1>4. sale.released \in Nat
  BY <1>2, <1>3, AllocatedNatural
<1>5. sale.quantity > 0
  BY <1>1 DEF Computed
<1>6. PICK left : left = Sold(row, sale)
  OBVIOUS
<1>7. left \in Rows /\ left.status = "open"
  BY <1>1, <1>2, <1>3, <1>6, SoldType
<1>8. /\ left.remaining = row.remaining - sale.quantity
      /\ left.disposed = row.disposed + sale.quantity
      /\ left.basis = row.basis - sale.released
      /\ left.realized = row.realized + (sale.proceeds - sale.released)
  BY <1>2, <1>6, SoldMoney
<1>9. left.remaining = 0 => left.basis = 0
  BY <1>2, <1>3, <1>8 DEF Allocated
<1>10. CASE job.kind = "settle"
  <2>1. after = Emptied(left, "settled") /\ sale.quantity = row.remaining
    BY <1>1, <1>6, <1>10 DEF Computed
  <2>2. left.remaining = 0 /\ left.basis = 0
    BY <1>2, <1>8, <1>9, <2>1
  <2>3. SameMoney(after, left) /\ after.status = "settled"
    BY <1>7, <2>1, <2>2, EmptiedMoney
  <2> QED
    BY <1>1, <1>3, <1>4, <1>5, <1>8, <2>2, <2>3 DEF SoldFrom, SameMoney
<1>11. CASE job.kind = "dispose"
  <2>1. PICK bid \in Nat : after = Disposition(left, bid)
    BY <1>1, <1>6, <1>11 DEF Computed
  <2>2. PICK marked : marked = Marked(left, bid)
    OBVIOUS
  <2>3. marked \in Rows /\ marked.status = "open" /\ SameMoney(marked, left)
        /\ Marked(marked, marked.mark) = marked
    BY <1>7, <2>2, MarkedType, MarkedMoney, MarkedAgain
  <2>4. CASE left.remaining = 0
    <3>1. after = Emptied(marked, "closed") /\ marked.basis = 0
      BY <1>9, <2>1, <2>2, <2>3, <2>4 DEF Disposition, SameMoney
    <3>2. SameMoney(after, marked) /\ after.status = "closed"
      BY <2>3, <3>1, EmptiedMoney
    <3> QED
      BY <1>1, <1>3, <1>4, <1>5, <1>8, <1>9, <2>3, <2>4, <3>2 DEF SoldFrom, SameMoney
  <2>5. CASE left.remaining # 0
    <3>1. after = marked
      BY <2>1, <2>2, <2>5 DEF Disposition
    <3> QED
      BY <1>1, <1>3, <1>4, <1>5, <1>8, <2>3, <2>5, <3>1 DEF SoldFrom, SameMoney
  <2> QED
    BY <2>4, <2>5
<1> QED
  BY <1>10, <1>11

\* A commit of one request at a time writes what it has computed from the row as
\* it is, or from the row it makes.
LEMMA SerialCommit ==
  ASSUME SerialInv, NEW w \in Requests, Commit(w),
         NEW job, job = requests[w], NEW e, e = job.entry
  PROVE  /\ job \in JobRows /\ e \in Entries /\ Computed(job) /\ job.step = "judged"
         /\ positions' = [positions EXCEPT ![e] = job.after]
         /\ positions'[e] = job.after /\ \A x \in Entries : x # e => positions'[x] = positions[x]
         /\ Accepted(job.after, entries[e]) /\ job.after \in Rows
         /\ job.row \in Rows /\ job.row.status = "open" /\ Position(e) = job.row
         /\ entries[e] # NoEntry /\ positions[e].status \in {"none", "open"}
         /\ Rowed(job.row, entries[e], dispositions[e]) /\ settlements[e] = {}
<1>1. MoneyInv /\ IInv /\ TypeOK
  BY DEF SerialInv, MoneyInv, IInv
<1>2. /\ w \in Jobs /\ job \in JobRows /\ e \in Entries /\ job.kind \in JobKinds
      /\ RequestGrounded(job, entries, positions)
      /\ positions' = [positions EXCEPT ![e] = Flushed(job)]
  BY <1>1, CommitJob, JobCaller
<1>3. job.step = "judged" /\ Accepted(Flushed(job), entries[e])
  BY DEF Commit
<1>4. Computed(job) /\ Grounded(job, entries[e], positions[e])
  BY <1>2 DEF RequestGrounded
<1>5. job.row \in Rows /\ job.after \in Rows /\ job.row.status = "open"
  BY <1>1, <1>2, <1>3 DEF IInv, JudgedOpen, JudgedRight, JobRows
<1>6. positions \in [Entries -> Rows]
  BY <1>1 DEF TypeOK
<1>7. positions[e].status # "none" => job.row = positions[e]
  BY <1>2 DEF SerialInv, Current
<1>8. positions[e].status = "none" => job.row = NewRow(entries[e])
  BY <1>4, <1>5 DEF Grounded
<1>9. entries[e] # NoEntry
  BY <1>4, <1>5 DEF Grounded
<1>10. Flushed(job) = job.after
  BY <1>5, <1>7, FlushOfCurrent DEF Flushed, Flush
<1>11. Position(e) = job.row
  BY <1>7, <1>8 DEF Position
<1>12. positions[e].status \in {"none", "open"}
  BY <1>5, <1>7
<1>13. settlements[e] = {}
  BY <1>2, <1>12 DEF SerialInv, Settled
<1>14. Rowed(job.row, entries[e], dispositions[e])
  <2>1. CASE positions[e].status = "none"
    <3>1. dispositions[e] = {}
      BY <1>1, <1>2, <2>1 DEF MoneyInv, Accounted
    <3> QED
      BY <1>1, <1>2, <1>8, <1>9, <2>1, <3>1, NewRowed
  <2>2. CASE positions[e].status # "none"
    <3>1. Rowed(positions[e], entries[e], dispositions[e] \union settlements[e])
      BY <1>2, <2>2 DEF SerialInv, Settled
    <3>2. dispositions[e] \union settlements[e] = dispositions[e]
      BY <1>13
    <3> QED
      BY <1>7, <2>2, <3>1, <3>2
  <2> QED
    BY <2>1, <2>2
<1>15. positions'[e] = job.after /\ \A x \in Entries : x # e => positions'[x] = positions[x]
  BY <1>2, <1>6, <1>10
<1> QED
  BY <1>2, <1>3, <1>4, <1>5, <1>9, <1>10, <1>11, <1>12, <1>13, <1>14, <1>15

LEMMA CommitSettled ==
  ASSUME SerialInv, NEW w \in Requests, Commit(w)
  PROVE  Settled'
<1>1. PICK job, e, sale : job = requests[w] /\ e = job.entry /\ sale = job.sale
  OBVIOUS
<1>2. /\ job \in JobRows /\ e \in Entries /\ Computed(job) /\ job.step = "judged"
      /\ positions'[e] = job.after /\ \A x \in Entries : x # e => positions'[x] = positions[x]
      /\ Accepted(job.after, entries[e]) /\ job.after \in Rows
      /\ job.row \in Rows /\ job.row.status = "open"
      /\ entries[e] # NoEntry
      /\ Rowed(job.row, entries[e], dispositions[e]) /\ settlements[e] = {}
  BY <1>1, SerialCommit
<1>3. TypeOK /\ MoneyInv /\ IInv /\ Settled /\ w \in Jobs
  BY DEF SerialInv, MoneyInv, IInv, Commit
<1>4. /\ dispositions' = IF job.kind = "dispose" THEN [dispositions EXCEPT ![e] = @ \union {sale}] ELSE dispositions
      /\ settlements' = IF job.kind = "settle" THEN [settlements EXCEPT ![e] = @ \union {sale}] ELSE settlements
      /\ UNCHANGED entries
  BY <1>1 DEF Commit, Recorded
<1>5. /\ dispositions \in [Entries -> SUBSET Events] /\ settlements \in [Entries -> SUBSET Events]
      /\ sale \in Events
  BY <1>1, <1>2, <1>3 DEF TypeOK, JobRows
<1>6. /\ \A x \in Entries : x # e => dispositions'[x] = dispositions[x] /\ settlements'[x] = settlements[x]
      /\ dispositions'[e] = IF job.kind = "dispose" THEN dispositions[e] \union {sale} ELSE dispositions[e]
      /\ settlements'[e] = IF job.kind = "settle" THEN {sale} ELSE {}
  BY <1>2, <1>4, <1>5
<1>7. job.kind \in JobKinds /\ Purposeful(job)
  BY <1>1, <1>3, JobCaller DEF RequestGrounded
<1>8. job.kind # "mark" => sale.decision = job.decision
  BY <1>1, <1>2, <1>7 DEF Computed, Sells, JobKinds
<1>9. PICK sold : sold = dispositions[e]
  OBVIOUS
<1>10. /\ IsFiniteSet(sold) /\ sold \subseteq Events /\ Follows(job.row, entries[e], sold)
       /\ \A d \in sold : d.decision.action # "hold"
  BY <1>2, <1>3, <1>5, <1>9 DEF MoneyInv, Accounted, Settled, Rowed
<1>11. entries[e].cost \in Nat
  BY <1>2, <1>3, CapAssumption DEF TypeOK, NoEntry
<1>12. job.row.remaining > 0 /\ job.row.basis >= 0
  BY <1>2 DEF Rowed
<1>13. ASSUME NEW x \in Entries, x # e
       PROVE  /\ IsFiniteSet(settlements'[x])
              /\ \A d \in dispositions'[x] : d.decision.action # "hold"
              /\ \A s \in settlements'[x] : s.decision = NoDecision
              /\ positions'[x].status \in {"none", "open"} => settlements'[x] = {}
              /\ positions'[x].status # "none" =>
                   Rowed(positions'[x], entries'[x], dispositions'[x] \union settlements'[x])
  BY <1>2, <1>3, <1>4, <1>6, <1>13 DEF Settled
<1>14. CASE job.kind = "mark"
  <2>1. PICK price \in Nat : job.after = Marked(job.row, price)
    BY <1>2, <1>14 DEF Computed
  <2>2. SameMoney(job.after, job.row) /\ job.after.status = "open"
        /\ Marked(job.after, job.after.mark) = job.after
    BY <1>2, <2>1, MarkedMoney, MarkedType, MarkedAgain
  <2>3. Follows(job.after, entries[e], sold)
    BY <1>10, <2>2, FollowsSame
  <2>4. Rowed(job.after, entries[e], sold)
    BY <1>12, <2>2, <2>3 DEF Rowed, SameMoney
  <2>5. dispositions'[e] = sold /\ settlements'[e] = {} /\ dispositions'[e] \union settlements'[e] = sold
    BY <1>6, <1>9, <1>14
  <2>6. \A d \in dispositions'[e] : d.decision.action # "hold"
    BY <1>10, <2>5
  <2>7. IsFiniteSet(settlements'[e]) /\ \A s \in settlements'[e] : s.decision = NoDecision
    BY <2>5, FS_EmptySet
  <2>8. Rowed(positions'[e], entries'[e], dispositions'[e] \union settlements'[e])
    BY <1>2, <1>4, <2>4, <2>5
  <2> QED
    BY <1>13, <2>5, <2>6, <2>7, <2>8 DEF Settled
<1>15. CASE job.kind \in {"settle", "dispose"}
  <2>1. SoldFrom(job.row, sale, job.after)
    BY <1>1, <1>2, <1>12, <1>15, JobSells
  <2>2. sale \notin sold
    <3>1. CASE job.kind = "dispose"
      BY <1>1, <1>3, <1>9, <3>1, CommitNew
    <3>2. CASE job.kind = "settle"
      <4>1. sale.decision = NoDecision
        BY <1>7, <1>8, <3>2 DEF Purposeful
      <4> QED
        BY <1>10, <4>1 DEF NoDecision
    <3> QED
      BY <1>15, <3>1, <3>2
  <2>3. Follows(job.after, entries[e], sold \union {sale})
    BY <1>2, <1>5, <1>10, <1>11, <2>1, <2>2, FollowsSale DEF SoldFrom
  <2>4. Rowed(job.after, entries[e], sold \union {sale})
    <3>1. job.after.status = "open" => job.after.remaining > 0 /\ job.after.basis >= 0
      BY <1>2, <2>1 DEF SoldFrom, Accepted, Rows
    <3> QED
      BY <2>1, <2>3, <3>1 DEF Rowed, SoldFrom
  <2>5. dispositions'[e] \union settlements'[e] = sold \union {sale}
    BY <1>6, <1>9, <1>15
  <2>6. \A d \in dispositions'[e] : d.decision.action # "hold"
    BY <1>6, <1>7, <1>8, <1>9, <1>10 DEF Purposeful
  <2>7. \A s \in settlements'[e] : s.decision = NoDecision
    BY <1>6, <1>7, <1>8 DEF Purposeful
  <2>8. IsFiniteSet(settlements'[e])
    BY <1>6, FS_EmptySet, FS_Singleton
  <2>9. job.after.status \in {"none", "open"} => settlements'[e] = {}
    <3>1. CASE job.kind = "dispose"
      BY <1>6, <3>1
    <3>2. CASE job.kind = "settle"
      <4>1. job.after.status = "settled"
        <5>1. job.after = Emptied(Sold(job.row, sale), "settled") /\ sale.quantity <= job.row.remaining
          BY <1>1, <1>2, <3>2 DEF Computed, Sells
        <5> QED
          BY <1>2, <1>5, <5>1, SoldType, EmptiedType
      <4> QED
        BY <4>1
    <3> QED
      BY <1>15, <3>1, <3>2
  <2> QED
    BY <1>2, <1>4, <1>13, <2>4, <2>5, <2>6, <2>7, <2>8, <2>9 DEF Settled
<1> QED
  BY <1>7, <1>14, <1>15 DEF JobKinds

LEMMA CommitSerial ==
  ASSUME OneAtATime, SerialInv, MoneyInv', NEW w \in Requests, Commit(w)
  PROVE  SerialInv'
<1>1. Settled'
  BY CommitSettled
<1>2. PICK job, e, caller : job = requests[w] /\ e = job.entry /\ caller = job.caller
  OBVIOUS
<1>3. /\ job \in JobRows /\ e \in Entries
      /\ \A x \in Entries : x # e => positions'[x] = positions[x]
  BY <1>2, SerialCommit
<1>4. w \in Jobs /\ requests' = [requests EXCEPT ![w] = caller]
  BY <1>2 DEF Commit
<1>5. \A x \in Requests : requests'[x] = caller
  BY <1>4 DEF OneAtATime, SerialInv, MoneyInv, IInv, TypeOK
<1>6. Current(caller, positions')
  <2>1. CASE caller = Idle
    BY <2>1, IdleCurrent
  <2>2. CASE caller # Idle
    <3>1. caller \in Passes
      BY <1>2, <1>4, <2>2, JobCaller DEF SerialInv
    <3>2. job.kind \in JobKinds
      BY <1>2, <1>4, JobCaller DEF SerialInv
    <3>3. Unwritten(caller, positions) /\ e \notin caller.todo /\ caller.step = "next"
      BY <1>2, <2>2, <3>2 DEF SerialInv, Current
    <3>4. Unwritten(caller, positions')
      BY <1>3, <3>1, <3>3 DEF Unwritten, Passes
    <3> QED
      BY <3>1, <3>3, <3>4 DEF Current, Passes, JobKinds
  <2> QED
    BY <2>1, <2>2
<1> QED
  BY <1>1, <1>5, <1>6 DEF SerialInv

LEMMA SerialStep ==
  ASSUME OneAtATime, SerialInv, [Next]_vars
  PROVE  SerialInv'
<1>1. MoneyInv'
  BY MoneyStep DEF SerialInv
<1>2. CASE UNCHANGED <<requests, entries, positions, dispositions, settlements>>
  BY <1>1, <1>2 DEF SerialInv, Settled
<1>3. ASSUME NEW w \in Requests, requests' = [requests EXCEPT ![w] = Idle],
             UNCHANGED <<entries, positions, dispositions, settlements>>
      PROVE  SerialInv'
  BY <1>1, <1>3, IdleCurrent, QuietSerial
<1>4. ASSUME NEW w \in Requests, Advance(w)
      PROVE  SerialInv'
  <2>1. CASE Reject(w) \/ EndPass(w)
    BY <1>3, <2>1 DEF Reject, EndPass, ledger
  <2> QED
    BY <1>1, <1>4, <2>1, JudgeSerial, ReplaySerial, CommitSerial, MonitorSerial, AssessSerial DEF Advance
<1>5. ASSUME NEW w \in Requests, Stop(w)
      PROVE  SerialInv'
  BY <1>3, <1>5 DEF Stop, ledger
<1>6. CASE Arrive
  BY <1>2, <1>6 DEF Arrive, Publish, GoStale, Forecast, Expire, Resolve, ledger
<1>7. CASE \E e \in Entries, fill \in Fills : Enter(e, fill)
  BY <1>1, <1>7, EnterSerial
<1>8. CASE UNCHANGED vars
  BY <1>2, <1>8 DEF vars, ledger
<1> QED
  BY <1>1, <1>4, <1>5, <1>6, <1>7, <1>8, StartSerial, CallMarkSerial DEF Next

LEMMA SerialInit == Init => SerialInv
<1> SUFFICES ASSUME Init PROVE SerialInv
  OBVIOUS
<1>1. MoneyInv
  BY MoneyInit
<1>2. Settled
  BY FS_EmptySet DEF Init, Settled, NoRow
<1>3. \A w \in Requests : requests[w] = Idle
  BY DEF Init
<1> QED
  BY <1>1, <1>2, <1>3, IdleCurrent DEF SerialInv

\* One request at a time, every position is its entry less its dispositions and
\* its settlement, and each contract is paid for once
\* (NflPilotPositionRecord: a projection derived from immutable events).
THEOREM EventsTheorem ==
  ASSUME OneAtATime
  PROVE  Spec => []PositionFollowsEvents
<1>1. SerialInv /\ [Next]_vars => SerialInv'
  BY SerialStep
<1>2. SerialInv => PositionFollowsEvents
  BY DEF SerialInv, Settled, Rowed, PositionFollowsEvents
<1> QED
  BY <1>1, <1>2, SerialInit, PTL DEF Spec

\* One request at a time, an open position is worth what its contracts are worth
\* at its mark (nfl_pilot/lifecycle.py, _apply_mark).
THEOREM ValueTheorem ==
  ASSUME OneAtATime
  PROVE  Spec => []ValueIsOfContractsHeld
<1>1. SerialInv /\ [Next]_vars => SerialInv'
  BY SerialStep
<1>2. SerialInv => ValueIsOfContractsHeld
  BY DEF SerialInv, Settled, Rowed, ValueIsOfContractsHeld, Open
<1> QED
  BY <1>1, <1>2, SerialInit, PTL DEF Spec

-----------------------------------------------------------------------------
(* One request at a time, the pilot keeps the promises of a paper ledger.  *)

RowAccount(row) ==
  [stage |-> IF row.status = "open" THEN "open" ELSE "ended",
   contracts |-> row.remaining, basis |-> row.basis, profit |-> row.realized]

LEMMA AccountOfFilled ==
  ASSUME NEW e \in Entries, entries[e] # NoEntry
  PROVE  Account(e) = RowAccount(Position(e))
BY DEF Account, RowAccount

\* A row that the table accepts is an account.
LEMMA RowAccountType ==
  ASSUME NEW row \in Rows, row.basis >= 0
  PROVE  RowAccount(row) \in Pilot!AccountRows
<1>1. row.remaining \in Nat /\ row.basis \in Nat /\ row.realized \in Int
  BY DEF Rows
<1>2. (IF row.status = "open" THEN "open" ELSE "ended") \in Pilot!Stages
  BY DEF Pilot!Stages
<1> QED
  BY <1>1, <1>2 DEF RowAccount, Pilot!AccountRows

LEMMA AccountsUnmoved ==
  ASSUME \A x \in Entries : Account(x)' = Account(x)
  PROVE  UNCHANGED Books
BY DEF Books

LEMMA AccountMoved ==
  ASSUME NEW e \in Entries, Account(e)' \in Pilot!AccountRows,
         \A x \in Entries : x # e => Account(x)' = Account(x),
         \/ Account(e).stage = "none" /\ Pilot!Opened(Account(e)')
         \/ Pilot!Sold(Account(e), Account(e)')
  PROVE  Pilot!LedgerNext
<1>1. Pilot!Move(e)
  BY DEF Pilot!Move, Books
<1> QED
  BY <1>1 DEF Pilot!LedgerNext

LEMMA QuietLedger ==
  ASSUME UNCHANGED <<entries, positions>>
  PROVE  UNCHANGED Books
<1>1. \A x \in Entries : Account(x)' = Account(x)
  BY DEF Account, Position
<1> QED
  BY <1>1, AccountsUnmoved

LEMMA EnterLedger ==
  ASSUME MoneyInv, NEW e \in Entries, NEW fill \in Fills, Enter(e, fill)
  PROVE  Pilot!LedgerNext
<1>1. TypeOK /\ Accounted
  BY DEF MoneyInv, IInv
<1>2. /\ entries[e] = NoEntry /\ entries' = [entries EXCEPT ![e] = fill]
      /\ UNCHANGED positions
  BY DEF Enter, ledger
<1>3. fill.quantity \in Nat \ {0} /\ fill.cost \in Nat \ {0}
  BY CapAssumption
<1>4. /\ entries'[e] = fill /\ fill # NoEntry
      /\ \A x \in Entries : x # e => entries'[x] = entries[x]
  BY <1>1, <1>2, <1>3 DEF TypeOK, NoEntry
<1>5. positions[e].status = "none"
  BY <1>1, <1>2 DEF Accounted
<1>6. Account(e)' = RowAccount(NewRow(fill))
  BY <1>2, <1>4, <1>5 DEF Account, Position, RowAccount
<1>7. Account(e)' = [stage |-> "open", contracts |-> fill.quantity, basis |-> fill.cost, profit |-> 0]
  BY <1>6 DEF RowAccount, NewRow
<1>8. Account(e)' \in Pilot!AccountRows /\ Pilot!Opened(Account(e)')
  BY <1>3, <1>7 DEF Pilot!AccountRows, Pilot!Stages, Pilot!Opened
<1>9. Account(e).stage = "none"
  BY <1>2 DEF Account
<1>10. \A x \in Entries : x # e => Account(x)' = Account(x)
  BY <1>2, <1>4 DEF Account, Position
<1> QED
  BY <1>8, <1>9, <1>10, AccountMoved

\* A sale from an open row with contracts is a sale from its account.
LEMMA SaleOfAccount ==
  ASSUME NEW row \in Rows, NEW after \in Rows, NEW sale \in Events, SoldFrom(row, sale, after),
         row.status = "open"
  PROVE  Pilot!Sold(RowAccount(row), RowAccount(after))
<1>1. PICK held, left \in Nat, sold \in Nat, basis \in Int, kept \in Int, released \in Nat,
           profit \in Int, now \in Int, proceeds \in Int :
        /\ held = row.remaining /\ left = after.remaining /\ sold = sale.quantity
        /\ basis = row.basis /\ kept = after.basis /\ released = sale.released
        /\ profit = row.realized /\ now = after.realized /\ proceeds = sale.proceeds
        /\ held \in Nat
  BY DEF Rows, Events, SoldFrom
<1>2. PICK from, to : from = RowAccount(row) /\ to = RowAccount(after)
  OBVIOUS
<1>3. /\ from.stage = "open" /\ from.contracts = held /\ from.basis = basis /\ from.profit = profit
      /\ to.contracts = left /\ to.basis = kept /\ to.profit = now
      /\ to.stage = IF after.status = "open" THEN "open" ELSE "ended"
  BY <1>1, <1>2 DEF RowAccount
<1>4. /\ left = held - sold /\ kept = basis - released /\ now = profit + (proceeds - released)
      /\ sold > 0 /\ 0 <= proceeds /\ proceeds <= 100 * sold
  BY <1>1 DEF SoldFrom
<1>5. /\ held - left = sold /\ basis - kept = released /\ (now - profit) + released = proceeds
  BY <1>1, <1>4
<1>6. IF left = 0 THEN to.stage = "ended" /\ kept = 0 ELSE to.stage = "open"
  BY <1>1, <1>3 DEF SoldFrom
<1>7. Pilot!Sold(from, to)
  BY <1>1, <1>3, <1>4, <1>5, <1>6 DEF Pilot!Sold
<1> QED
  BY <1>2, <1>7

LEMMA CommitLedger ==
  ASSUME SerialInv, NEW w \in Requests, Commit(w)
  PROVE  Pilot!LedgerNext \/ UNCHANGED Books
<1>1. PICK job, e, row, after, sale :
        /\ job = requests[w] /\ e = job.entry /\ row = job.row /\ after = job.after /\ sale = job.sale
  OBVIOUS
<1>2. /\ job \in JobRows /\ e \in Entries /\ Computed(job) /\ job.step = "judged"
      /\ positions'[e] = after /\ \A x \in Entries : x # e => positions'[x] = positions[x]
      /\ Accepted(after, entries[e]) /\ after \in Rows
      /\ row \in Rows /\ row.status = "open" /\ Position(e) = row
      /\ entries[e] # NoEntry /\ Rowed(row, entries[e], dispositions[e])
  BY <1>1, SerialCommit
<1>3. MoneyInv /\ w \in Jobs /\ UNCHANGED entries
  BY DEF SerialInv, Commit
<1>4. job.kind \in JobKinds /\ after.status # "none"
  BY <1>1, <1>2, <1>3, JobCaller DEF MoneyInv, IInv, JudgedOpen, JudgedRight
<1>5. sale \in Events /\ row.remaining > 0 /\ row.basis >= 0 /\ after.basis >= 0
  BY <1>1, <1>2 DEF JobRows, Rowed, Accepted
<1>6. Account(e) = RowAccount(row)
  BY <1>2, AccountOfFilled
<1>7. Account(e)' = RowAccount(after)
  BY <1>2, <1>3, <1>4 DEF Account, Position, RowAccount
<1>8. \A x \in Entries : x # e => Account(x)' = Account(x)
  BY <1>2, <1>3 DEF Account, Position
<1>9. CASE job.kind = "mark"
  <2>1. PICK price \in Nat : after = Marked(row, price)
    BY <1>1, <1>2, <1>9 DEF Computed
  <2>2. SameMoney(after, row) /\ after.status = row.status
    BY <1>2, <2>1, MarkedMoney, MarkedType
  <2>3. RowAccount(after) = RowAccount(row)
    BY <2>2 DEF SameMoney, RowAccount
  <2>4. \A x \in Entries : Account(x)' = Account(x)
    BY <1>6, <1>7, <1>8, <2>3
  <2> QED
    BY <2>4, AccountsUnmoved
<1>10. CASE job.kind \in {"settle", "dispose"}
  <2>1. SoldFrom(row, sale, after)
    BY <1>1, <1>2, <1>5, <1>10, JobSells
  <2>2. Pilot!Sold(Account(e), Account(e)')
    BY <1>2, <1>5, <1>6, <1>7, <2>1, SaleOfAccount
  <2>3. Account(e)' \in Pilot!AccountRows
    BY <1>2, <1>5, <1>7, RowAccountType
  <2> QED
    BY <1>2, <1>8, <2>2, <2>3, AccountMoved
<1> QED
  BY <1>4, <1>9, <1>10 DEF JobKinds

LEMMA LedgerStep ==
  ASSUME SerialInv, [Next]_vars
  PROVE  Pilot!LedgerNext \/ UNCHANGED Books
<1>1. CASE UNCHANGED <<entries, positions>>
  BY <1>1, QuietLedger
<1>2. ASSUME NEW w \in Requests, Advance(w)
      PROVE  Pilot!LedgerNext \/ UNCHANGED Books
  <2>1. CASE Commit(w)
    BY <2>1, CommitLedger
  <2>2. CASE ~Commit(w)
    <3>1. UNCHANGED <<entries, positions>>
      BY <1>2, <2>2 DEF Advance, Judge, Replay, Refuse, Reject, Assess, Alert, Check, EndPass, ledger
    <3> QED
      BY <1>1, <3>1
  <2> QED
    BY <2>1, <2>2
<1>3. ASSUME NEW w \in Requests, Start(w) \/ CallMark(w) \/ Stop(w)
      PROVE  UNCHANGED <<entries, positions>>
  BY <1>3 DEF Start, BeginLifecycle, BeginDisposal, BeginPass, CallMark, Stop, ledger
<1>4. CASE Arrive
  BY <1>1, <1>4 DEF Arrive, Publish, GoStale, Forecast, Expire, Resolve, ledger
<1>5. CASE \E e \in Entries, fill \in Fills : Enter(e, fill)
  BY <1>5, EnterLedger DEF SerialInv
<1>6. CASE UNCHANGED vars
  BY <1>1, <1>6 DEF vars, ledger
<1> QED
  BY <1>1, <1>2, <1>3, <1>4, <1>5, <1>6 DEF Next

LEMMA LedgerStart ==
  ASSUME Init
  PROVE  Pilot!LedgerInit
BY DEF Init, Books, Account, Pilot!LedgerInit, Pilot!NoAccount

\* One request at a time, the pilot implements the paper ledger: each contract
\* is sold once, at no more than a contract pays, and the profit is proceeds
\* less cost (nfl_pilot/lifecycle.py, settle and dispose).
THEOREM LedgerTheorem ==
  ASSUME OneAtATime
  PROVE  Spec => ImplementsLedger
<1>1. SerialInv /\ [Next]_vars => SerialInv'
  BY SerialStep
<1>2. SerialInv /\ [Next]_vars => [Pilot!LedgerNext]_Books
  BY LedgerStep
<1>3. Init => Pilot!LedgerInit
  BY LedgerStart
<1> QED
  BY <1>1, <1>2, <1>3, SerialInit, PTL DEF Spec, ImplementsLedger, Pilot!LedgerSpec
=============================================================================
