------------------------------ MODULE NflPilot ------------------------------
(***************************************************************************)
(* One scenario of the NFL paper pilot: entries filled under its caps, the *)
(* position each entry becomes, the monitor that judges open positions and *)
(* marks them, the dispositions that act on its decisions, and settlement. *)
(*                                                                         *)
(* Each request runs in a database session of its own, READ COMMITTED.     *)
(* Marks and settlements of an entry exclude one another by one advisory   *)
(* lock, dispositions of a position by another; no row is locked.  Such a  *)
(* request is three steps: it takes its lock and reads the position, reads *)
(* the evidence and computes the new row, and commits the columns it has   *)
(* changed.  A monitoring pass holds no lock but while it marks.           *)
(*                                                                         *)
(* The entries are in one market, and a quote, an expected payout and a    *)
(* resolution are those of the side held.  Money is in cents, a price in   *)
(* units of which UnitsPerCent make a cent.                                *)
(***************************************************************************)
EXTENDS Integers, Sequences, RowTotals

CONSTANTS
  EntryCount,      \* preflights that may be filled: entries 1..EntryCount
  Requests,        \* concurrent requests
  UnitsPerCent,
  EntryCap,        \* bankroll share one entry may cost
  AggregateCap,    \* bankroll share that open entries may cost together
  Fills,           \* what a cost-qualified preflight may ask for
  Quotes,          \* directional bid and ask; 0 is none
  Expectations,    \* expected payouts of a forecast
  Payouts,         \* official payouts
  HoldEdge,        \* the edge below which a position is reduced
  PriceLimit,      \* bound: quotes recorded
  ForecastLimit    \* bound: forecasts recorded

Entries == 1..EntryCount

ASSUME EntryAssumption == EntryCount \in Nat \ {0}

ASSUME PriceAssumption ==
  /\ UnitsPerCent \in Nat \ {0}
  /\ Quotes \subseteq [bid : Nat, ask : Nat]
  /\ Expectations \subseteq Nat /\ Payouts \subseteq 0..(100 * UnitsPerCent)

ASSUME CapAssumption ==
  /\ EntryCap \in Nat /\ AggregateCap \in Nat
  /\ Fills \subseteq [quantity : Nat \ {0}, cost : Nat \ {0}]

ASSUME BoundAssumption == PriceLimit \in Nat /\ ForecastLimit \in Nat /\ HoldEdge \in Nat \ {0}

VARIABLES
  quote,         \* the newest market price and whether it is over 15 minutes old
  forecasts,     \* expected payouts, the newest last
  expired,       \* forecasts past their validity
  resolutions,   \* official resolution rows
  entries,       \* per entry: its immutable fill
  positions,     \* per entry: its row of nfl_pilot_positions
  decisions,     \* per entry: monitoring decisions
  alerts,        \* per entry: decisions with an alert
  checks,        \* per entry: quote checks
  marks,         \* per entry: mark events
  dispositions,  \* per entry: disposition events
  settlements,   \* per entry: settlement events
  requests       \* per request: what it is doing

evidence == <<quote, forecasts, expired, resolutions>>
journal == <<decisions, alerts, checks>>
ledger == <<positions, marks, dispositions, settlements>>
vars == <<evidence, entries, journal, ledger, requests>>

One == 100 * UnitsPerCent

FloorCents(amount) == amount \div UnitsPerCent

-----------------------------------------------------------------------------
(* Rows.                                                                   *)

NoEntry == [quantity |-> 0, cost |-> 0]

Rows ==
  [status : {"none", "open", "closed", "settled"}, remaining : Nat, disposed : Nat,
   basis : Int, mark : Nat, value : Int, unrealized : Int, realized : Int]

NoRow ==
  [status |-> "none", remaining |-> 0, disposed |-> 0, basis |-> 0, mark |-> 0,
   value |-> 0, unrealized |-> 0, realized |-> 0]

\* The row a position starts from; its cost is a loss until it is marked.
NewRow(entry) ==
  [status |-> "open", remaining |-> entry.quantity, disposed |-> 0,
   basis |-> entry.cost, mark |-> 0, value |-> 0,
   unrealized |-> -entry.cost, realized |-> 0]

\* Variant: what has ended need not be empty.
AcceptedInPart(row, entry) ==
  /\ row.remaining >= 0 /\ row.disposed >= 0 /\ row.basis >= 0 /\ row.value >= 0
  /\ row.remaining + row.disposed = entry.quantity

\* ck_nfl_pilot_positions_values.
Accepted(row, entry) ==
  /\ row.remaining >= 0 /\ row.disposed >= 0 /\ row.basis >= 0 /\ row.value >= 0
  /\ row.remaining + row.disposed = entry.quantity
  /\ row.status # "open" => row.remaining = 0 /\ row.basis = 0 /\ row.value = 0

\* Variant: the whole row is written back.
FlushRow(stored, loaded, after) == after

\* An UPDATE names only the columns the session has changed; a row of the
\* session's own making is inserted.
Flush(stored, loaded, after) ==
  IF stored.status = "none" THEN after
  ELSE [column \in DOMAIN stored |->
          IF after[column] = loaded[column] THEN stored[column] ELSE after[column]]

Idle == [kind |-> "idle"]

-----------------------------------------------------------------------------
(* The evidence: quotes, forecasts and official resolutions arrive, age.   *)

Publish(new) ==
  /\ quote.id < PriceLimit
  /\ quote' = [id |-> quote.id + 1, bid |-> new.bid, ask |-> new.ask, stale |-> FALSE]
  /\ UNCHANGED <<forecasts, expired, resolutions, entries, journal, ledger, requests>>

GoStale ==
  /\ ~quote.stale
  /\ quote' = [quote EXCEPT !.stale = TRUE]
  /\ UNCHANGED <<forecasts, expired, resolutions, entries, journal, ledger, requests>>

Forecast(expected) ==
  /\ Len(forecasts) < ForecastLimit
  /\ forecasts' = Append(forecasts, expected)
  /\ UNCHANGED <<quote, expired, resolutions, entries, journal, ledger, requests>>

Expire(f) ==
  /\ f \notin expired
  /\ expired' = expired \union {f}
  /\ UNCHANGED <<quote, forecasts, resolutions, entries, journal, ledger, requests>>

Resolve(payout) ==
  /\ resolutions' = resolutions \union {payout}
  /\ UNCHANGED <<quote, forecasts, expired, entries, journal, ledger, requests>>

-----------------------------------------------------------------------------
(* Entry.                                                                  *)

\* Entries without a position and with an open one count in full.
Exposure ==
  [e \in Entries |->
     IF positions[e].status \in {"none", "open"} THEN entries[e].cost ELSE 0]

Committed == TotalOf(EntryCount, Exposure)

\* Variant: an entry counts once it has a position.
EnterCountingPositions(e, fill) ==
  /\ entries[e] = NoEntry
  /\ fill.cost <= EntryCap
  /\ fill.cost <= AggregateCap -
       TotalOf(EntryCount, [x \in Entries |->
                              IF positions[x].status = "open" THEN entries[x].cost ELSE 0])
  /\ entries' = [entries EXCEPT ![e] = fill]
  /\ UNCHANGED <<evidence, journal, ledger, requests>>

\* The scenario's lock is held from before the sum to the commit, so one step
\* will do: an open position that ends in between only lowers the sum.
Enter(e, fill) ==
  /\ entries[e] = NoEntry
  /\ fill.cost <= EntryCap
  /\ fill.cost <= AggregateCap - Committed
  /\ entries' = [entries EXCEPT ![e] = fill]
  /\ UNCHANGED <<evidence, journal, ledger, requests>>

-----------------------------------------------------------------------------
(* Locks and the position a request works on.                              *)

\* The advisory lock that each kind of request takes.
Lock(kind) == IF kind = "dispose" THEN "disposition" ELSE "lifecycle"

Free(kind, e) ==
  \A w \in Requests :
    requests[w].kind \in {"mark", "settle", "dispose"} =>
      ~(Lock(requests[w].kind) = Lock(kind) /\ requests[w].entry = e)

NoDecision == [price |-> 0, forecast |-> 0, action |-> "hold", attention |-> FALSE]

NoSale == [decision |-> NoDecision, quantity |-> 0, released |-> 0, proceeds |-> 0]

\* A request that holds its lock and has read its position.  "caller" is the
\* monitoring pass that awaits it, or Idle; "key" is the quote the pass is
\* about, 0 for a client's own idempotency key.
Held(kind, e, row, decision, key, caller) ==
  [kind |-> kind, step |-> "locked", entry |-> e, row |-> row,
   decision |-> decision, key |-> key, caller |-> caller,
   after |-> row, sale |-> NoSale, price |-> 0]

\* _position: the first mark or settlement of an entry makes its row.
Position(e) == IF positions[e].status = "none" THEN NewRow(entries[e]) ELSE positions[e]

BeginLifecycle(w, kind, e) ==
  /\ requests[w] = Idle
  /\ entries[e] # NoEntry /\ Free(kind, e)
  /\ requests' = [requests EXCEPT ![w] =
       Held(kind, e, Position(e), NoDecision, 0, Idle)]
  /\ UNCHANGED <<evidence, entries, journal, ledger>>

Disposed(e, decision) == \E d \in dispositions[e] : d.decision = decision

\* Variant: any decision will do, used or not.
BeginDisposalAgain(w, e, decision) ==
  /\ requests[w] = Idle
  /\ Free("dispose", e)
  /\ decision.action # "hold"
  /\ requests' = [requests EXCEPT ![w] =
       Held("dispose", e, positions[e], decision, 0, Idle)]
  /\ UNCHANGED <<evidence, entries, journal, ledger>>

\* A decision is used once.
BeginDisposal(w, e, decision) ==
  /\ requests[w] = Idle
  /\ Free("dispose", e)
  /\ ~Disposed(e, decision) /\ decision.action # "hold"
  /\ requests' = [requests EXCEPT ![w] =
       Held("dispose", e, positions[e], decision, 0, Idle)]
  /\ UNCHANGED <<evidence, entries, journal, ledger>>

-----------------------------------------------------------------------------
(* Judgement.                                                              *)

Usable(price) == 0 < price /\ price < One

QuoteStatus ==
  IF quote.stale THEN "stale"
  ELSE IF ~Usable(quote.bid) \/ ~Usable(quote.ask) \/ quote.ask < quote.bid
  THEN "unusable"
  ELSE "fresh"

\* What a forecast makes of the newest quote.  Without good evidence a position
\* is held, and somebody is told.
Recommendation(f) ==
  LET edge == forecasts[f] - quote.bid
      good == QuoteStatus = "fresh" /\ f \notin expired
      action == IF ~good \/ edge >= HoldEdge THEN "hold"
                ELSE IF edge <= 0 THEN "close" ELSE "reduce"
  IN  [price |-> quote.id, forecast |-> f, action |-> action,
       attention |-> ~good \/ action # "hold"]

-----------------------------------------------------------------------------
(* What a request computes from its evidence: the row to be and the event. *)

MarkPrice == IF quote.bid > 0 THEN quote.bid ELSE quote.ask

Marked(row, price) ==
  [row EXCEPT !.mark = price,
              !.value = FloorCents(price * row.remaining),
              !.unrealized = FloorCents(price * row.remaining) - row.basis]

\* Variant: half of the contracts that were bought.
ShareOfFill(row, action) ==
  IF action = "close" THEN row.remaining ELSE (row.remaining + row.disposed + 1) \div 2

\* The contracts a disposition sells: all of them, or half rounded up.
Share(row, action) == IF action = "close" THEN row.remaining ELSE (row.remaining + 1) \div 2

\* The last contract takes what basis is left.
Allocated(row, quantity) ==
  IF quantity = row.remaining THEN row.basis ELSE (row.basis * quantity) \div row.remaining

Event(job, quantity, price) ==
  [decision |-> job.decision, quantity |-> quantity,
   released |-> Allocated(job.row, quantity), proceeds |-> FloorCents(price * quantity)]

OfficialPayout == CHOOSE payout \in resolutions : TRUE

\* Variant: a settlement pays for the contracts that were bought.
SaleOfFill(job) ==
  CASE job.kind = "mark" -> NoSale
    [] job.kind = "settle" ->
         [Event(job, job.row.remaining, OfficialPayout) EXCEPT
            !.proceeds = FloorCents(OfficialPayout * (job.row.remaining + job.row.disposed))]
    [] job.kind = "dispose" -> Event(job, Share(job.row, job.decision.action), quote.bid)

\* What leaves the position, as its event says.
Sale(job) ==
  CASE job.kind = "mark" -> NoSale
    [] job.kind = "settle" -> Event(job, job.row.remaining, OfficialPayout)
    [] job.kind = "dispose" -> Event(job, Share(job.row, job.decision.action), quote.bid)

\* Variant: what the contracts cost is not taken off the profit.
SoldGross(row, sale) ==
  [row EXCEPT !.remaining = @ - sale.quantity, !.disposed = @ + sale.quantity,
              !.basis = @ - sale.released, !.realized = @ + sale.proceeds]

Sold(row, sale) ==
  [row EXCEPT !.remaining = @ - sale.quantity, !.disposed = @ + sale.quantity,
              !.basis = @ - sale.released, !.realized = @ + (sale.proceeds - sale.released)]

\* Both ends of a position: nothing is held, at no cost and no value.
Emptied(row, status) ==
  [row EXCEPT !.status = status, !.basis = 0, !.value = 0, !.unrealized = 0]

\* Variant: a reduction leaves the mark as it was.
DisposedUnmarked(left, bid) == IF left.remaining = 0 THEN Emptied(left, "closed") ELSE left

Disposition(left, bid) ==
  IF left.remaining = 0 THEN Emptied(Marked(left, bid), "closed") ELSE Marked(left, bid)

After(job) ==
  LET left == Sold(job.row, Sale(job)) IN
  CASE job.kind = "mark" -> Marked(job.row, MarkPrice)
    [] job.kind = "settle" -> Emptied(left, "settled")
    [] job.kind = "dispose" -> Disposition(left, quote.bid)

\* What makes each kind of request go ahead.
Sound(job) ==
  /\ job.row.status = "open"
  /\ job.kind = "mark" => ~quote.stale /\ Usable(MarkPrice)
  /\ job.kind = "settle" => \E payout \in resolutions : resolutions = {payout}
  /\ job.kind = "dispose" =>
       job.row.remaining > 0 /\ job.decision = Recommendation(job.decision.forecast)

Jobs == {w \in Requests : requests[w].kind \in {"mark", "settle", "dispose"}}

\* The pass has marked this position under the key of the quote it is about.
KeyUsed(job) == job.key # 0 /\ \E m \in marks[job.entry] : m.key = job.key

MarkedAlready(job) == job.kind = "mark" /\ \E m \in marks[job.entry] : m.price = quote.id

Judge(w) ==
  /\ w \in Jobs
  /\ LET job == requests[w] IN
       /\ job.step = "locked" /\ ~KeyUsed(job) /\ Sound(job) /\ ~MarkedAlready(job)
       /\ requests' = [requests EXCEPT ![w] =
            [job EXCEPT !.step = "judged", !.after = After(job), !.sale = Sale(job),
                        !.price = quote.id]]
  /\ UNCHANGED <<evidence, entries, journal, ledger>>

\* The event exists already: it is the answer, and the caller goes on.
Replay(w) ==
  /\ w \in Jobs
  /\ LET job == requests[w] IN
       /\ job.step = "locked" /\ (KeyUsed(job) \/ (Sound(job) /\ MarkedAlready(job)))
       /\ requests' = [requests EXCEPT ![w] = job.caller]
  /\ UNCHANGED <<evidence, entries, journal, ledger>>

\* Variant: the pass tries its mark again.
RefuseAndRetry(w) ==
  /\ w \in Jobs
  /\ LET job == requests[w] IN
       /\ job.step = "locked" /\ ~KeyUsed(job) /\ ~Sound(job)
       /\ requests' = [requests EXCEPT ![w] =
            IF job.caller = Idle THEN Idle ELSE [job.caller EXCEPT !.step = "mark"]]
  /\ UNCHANGED <<evidence, entries, journal, ledger>>

\* A ValueError.  The pass catches it, but the rollback has expired every row
\* that its session holds.
Refuse(w) ==
  /\ w \in Jobs
  /\ LET job == requests[w] IN
       /\ job.step = "locked" /\ ~KeyUsed(job) /\ ~Sound(job)
       /\ requests' = [requests EXCEPT ![w] =
            IF job.caller = Idle THEN Idle ELSE [job.caller EXCEPT !.step = "expired"]]
  /\ UNCHANGED <<evidence, entries, journal, ledger>>

Flushed(job) == Flush(positions[job.entry], job.row, job.after)

Recorded(table, job, kind, event) ==
  IF job.kind = kind THEN [table EXCEPT ![job.entry] = @ \union {event}] ELSE table

\* The row and its event commit together.
Commit(w) ==
  /\ w \in Jobs
  /\ LET job == requests[w] IN
       /\ job.step = "judged" /\ Accepted(Flushed(job), entries[job.entry])
       /\ positions' = [positions EXCEPT ![job.entry] = Flushed(job)]
       /\ marks' = Recorded(marks, job, "mark", [price |-> job.price, key |-> job.key])
       /\ dispositions' = Recorded(dispositions, job, "dispose", job.sale)
       /\ settlements' = Recorded(settlements, job, "settle", job.sale)
       /\ requests' = [requests EXCEPT ![w] = job.caller]
  /\ UNCHANGED <<evidence, entries, journal>>

\* The CHECK constraint refuses the row.  No pass catches an IntegrityError.
Reject(w) ==
  /\ w \in Jobs
  /\ requests[w].step = "judged"
  /\ ~Accepted(Flushed(requests[w]), entries[requests[w].entry])
  /\ requests' = [requests EXCEPT ![w] = Idle]
  /\ UNCHANGED <<evidence, entries, journal, ledger>>

-----------------------------------------------------------------------------
(* A monitoring pass.                                                      *)

Open == {e \in Entries : positions[e].status = "open"}

\* The session keeps the rows it loads here until the pass is over: neither a
\* commit nor a later SELECT refreshes them.
BeginPass(w) ==
  /\ requests[w] = Idle
  /\ Open # {}
  /\ requests' = [requests EXCEPT ![w] =
       [kind |-> "monitor", step |-> "next", loaded |-> positions, todo |-> Open,
        entry |-> 1, decision |-> NoDecision, status |-> "fresh"]]
  /\ UNCHANGED <<evidence, entries, journal, ledger>>

At(w, step) == requests[w].kind = "monitor" /\ requests[w].step = step

\* One decision to a position, quote and forecast: the first one made.
Decided(e, judged) ==
  IF \E d \in decisions[e] : d.price = judged.price /\ d.forecast = judged.forecast
  THEN CHOOSE d \in decisions[e] : d.price = judged.price /\ d.forecast = judged.forecast
  ELSE judged

\* Variant: only a new decision goes on to its alert.
AssessAnew(w, e) ==
  /\ At(w, "next") /\ e \in requests[w].todo
  /\ LET decision == Decided(e, Recommendation(Len(forecasts))) IN
       /\ decisions' = [decisions EXCEPT ![e] = @ \union {decision}]
       /\ requests' = [requests EXCEPT ![w] =
            [kind |-> "monitor", step |-> IF decision \in decisions[e] THEN "check" ELSE "alert",
             loaded |-> @.loaded, todo |-> @.todo \ {e},
             entry |-> e, decision |-> decision, status |-> QuoteStatus]]
  /\ UNCHANGED <<evidence, entries, alerts, checks, ledger>>

Assess(w, e) ==
  /\ At(w, "next") /\ e \in requests[w].todo
  /\ LET decision == Decided(e, Recommendation(Len(forecasts))) IN
       /\ decisions' = [decisions EXCEPT ![e] = @ \union {decision}]
       /\ requests' = [requests EXCEPT ![w] =
            [kind |-> "monitor", step |-> "alert", loaded |-> @.loaded, todo |-> @.todo \ {e},
             entry |-> e, decision |-> decision, status |-> QuoteStatus]]
  /\ UNCHANGED <<evidence, entries, alerts, checks, ledger>>

Alert(w) ==
  /\ At(w, "alert")
  /\ LET pass == requests[w] IN
       /\ alerts' = IF pass.decision.attention
                    THEN [alerts EXCEPT ![pass.entry] = @ \union {pass.decision}]
                    ELSE alerts
       /\ requests' = [requests EXCEPT ![w] = [pass EXCEPT !.step = "check"]]
  /\ UNCHANGED <<evidence, entries, decisions, checks, ledger>>

\* One check to a position and quote; only a fresh quote is marked.
Check(w) ==
  /\ At(w, "check")
  /\ LET pass == requests[w]
         check == [price |-> pass.decision.price, status |-> pass.status]
     IN  /\ checks' = IF \E c \in checks[pass.entry] : c.price = check.price
                      THEN checks
                      ELSE [checks EXCEPT ![pass.entry] = @ \union {check}]
         /\ requests' = [requests EXCEPT ![w] =
              [pass EXCEPT !.step = IF pass.status = "fresh" THEN "mark" ELSE "next"]]
  /\ UNCHANGED <<evidence, entries, decisions, alerts, ledger>>

\* The pass calls mark with the row it loaded when it began.
CallMark(w) ==
  /\ At(w, "mark")
  /\ LET pass == requests[w] IN
       /\ Free("mark", pass.entry)
       /\ requests' = [requests EXCEPT ![w] =
            Held("mark", pass.entry, pass.loaded[pass.entry], NoDecision,
                 pass.decision.price, [pass EXCEPT !.step = "next"])]
  /\ UNCHANGED <<evidence, entries, journal, ledger>>

\* The pass is over, or reads an expired row, which an asynchronous session
\* cannot load.
EndPass(w) ==
  /\ (At(w, "next") /\ requests[w].todo = {}) \/ At(w, "expired")
  /\ requests' = [requests EXCEPT ![w] = Idle]
  /\ UNCHANGED <<evidence, entries, journal, ledger>>

\* The process or its connection is lost: locks are free, nothing is written.
Stop(w) ==
  /\ requests[w] # Idle
  /\ requests' = [requests EXCEPT ![w] = Idle]
  /\ UNCHANGED <<evidence, entries, journal, ledger>>

-----------------------------------------------------------------------------
Init ==
  /\ quote \in {[id |-> 1, bid |-> q.bid, ask |-> q.ask, stale |-> FALSE] : q \in Quotes}
  /\ forecasts \in {<<expected>> : expected \in Expectations}
  /\ expired = {} /\ resolutions = {}
  /\ entries = [e \in Entries |-> NoEntry]
  /\ positions = [e \in Entries |-> NoRow]
  /\ decisions = [e \in Entries |-> {}]
  /\ alerts = [e \in Entries |-> {}]
  /\ checks = [e \in Entries |-> {}]
  /\ marks = [e \in Entries |-> {}]
  /\ dispositions = [e \in Entries |-> {}]
  /\ settlements = [e \in Entries |-> {}]
  /\ requests = [w \in Requests |-> Idle]

Arrive ==
  \/ \E new \in Quotes : Publish(new)
  \/ GoStale
  \/ \E expected \in Expectations : Forecast(expected)
  \/ \E f \in DOMAIN forecasts : Expire(f)
  \/ \E payout \in Payouts : Resolve(payout)

Start(w) ==
  \/ \E e \in Entries, kind \in {"mark", "settle"} : BeginLifecycle(w, kind, e)
  \/ \E e \in Entries : \E decision \in decisions[e] : BeginDisposal(w, e, decision)
  \/ BeginPass(w)

\* What a request does without waiting for anybody.
Advance(w) ==
  \/ Judge(w) \/ Replay(w) \/ Refuse(w) \/ Commit(w) \/ Reject(w)
  \/ \E e \in Entries : Assess(w, e)
  \/ Alert(w) \/ Check(w) \/ EndPass(w)

Next ==
  \/ Arrive
  \/ \E e \in Entries, fill \in Fills : Enter(e, fill)
  \/ \E w \in Requests : Start(w) \/ Advance(w) \/ CallMark(w) \/ Stop(w)

Spec == Init /\ [][Next]_vars

\* A request that runs keeps running, and the lock manager's queue is fair.
Fairness == \A w \in Requests : WF_vars(Advance(w)) /\ SF_vars(CallMark(w))

FairSpec == Spec /\ Fairness
=============================================================================
