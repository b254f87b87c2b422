--------------------------- MODULE ResearchProofs ---------------------------
\* What the row locks of the NFL research chain are worth, and what runs that
\* hold no lock can rely on, proved for any number of markets, games, workers,
\* keys and changes, and for every curve and rating. In this order: the requests
\* under their locks, labels, what forecasts learn, what opportunities compare,
\* the types of every table, and what is reported of the forecasts.
EXTENDS ResearchProperties, SequenceTheorems, NaturalInduction

-----------------------------------------------------------------------------
\* Tables whose rows are numbered from 1, whatever the rows are.

Sequence(s) == s \in Seq({s[i] : i \in DOMAIN s})

LEMMA SequenceDomain ==
  ASSUME NEW s, Sequence(s)
  PROVE  Len(s) \in Nat /\ DOMAIN s = 1..Len(s)
BY LenProperties DEF Sequence

LEMMA AppendSequence ==
  ASSUME NEW s, Sequence(s), NEW row
  PROVE  LET next == Append(s, row)
         IN  /\ Sequence(next)
             /\ DOMAIN s \subseteq DOMAIN next
             /\ DOMAIN next \ DOMAIN s = {Len(s) + 1} /\ Len(s) + 1 \in DOMAIN next
             /\ DOMAIN next = DOMAIN s \cup {Len(s) + 1}
             /\ \A i \in DOMAIN s : next[i] = s[i]
             /\ next[Len(s) + 1] = row
<1> DEFINE rows == {s[i] : i \in DOMAIN s} \cup {row}
           next == Append(s, row)
<1>1. s \in Seq(rows) /\ row \in rows
  <2>1. s \in Seq({s[i] : i \in DOMAIN s}) /\ {s[i] : i \in DOMAIN s} \subseteq rows
    BY DEF Sequence
  <2> HIDE DEF rows
  <2>2. s \in Seq(rows)
    BY <2>1, SeqMonotonic
  <2> QED
    BY <2>2 DEF rows
<1>2. Len(s) \in Nat /\ DOMAIN s = 1..Len(s)
  BY SequenceDomain
<1> HIDE DEF rows
<1>3. /\ next \in Seq(rows) /\ Len(next) = Len(s) + 1
      /\ \A i \in 1..Len(s) : next[i] = s[i]
      /\ next[Len(s) + 1] = row
  BY <1>1, AppendProperties
<1>4. DOMAIN next = 1..(Len(s) + 1) /\ next \in [1..(Len(s) + 1) -> rows]
  BY <1>3, LenProperties
<1> HIDE DEF next
<1>5. Sequence(next)
  <2> DEFINE own == {next[i] : i \in DOMAIN next}
  <2>1. next \in [1..(Len(s) + 1) -> own] /\ Len(s) + 1 \in Nat
    BY <1>2, <1>4
  <2> HIDE DEF own
  <2>2. next \in Seq(own)
    BY <2>1, SeqDef
  <2> QED
    BY <2>2 DEF Sequence, own
<1> QED
  BY <1>2, <1>3, <1>4, <1>5 DEF next

\* ON CONFLICT DO NOTHING leaves the row that a snapshot is found under.
LEMMA StoredShadow ==
  ASSUME NEW rows, Sequence(rows), NEW row
  PROVE  LET next == AppendNew(rows, row, ShadowKey)
         IN  /\ Sequence(next)
             /\ DOMAIN rows \subseteq DOMAIN next
             /\ \A i \in DOMAIN rows : next[i] = rows[i]
             /\ Stored(next, row) \in DOMAIN next
             /\ \A c \in ShadowKey : next[Stored(next, row)][c] = row[c]
<1> DEFINE next == AppendNew(rows, row, ShadowKey)
<1>1. /\ Sequence(next) /\ DOMAIN rows \subseteq DOMAIN next
      /\ \A i \in DOMAIN rows : next[i] = rows[i]
      /\ \E i \in DOMAIN next : \A c \in ShadowKey : next[i][c] = row[c]
  <2>1. CASE \E i \in DOMAIN rows : \A c \in ShadowKey : rows[i][c] = row[c]
    BY <2>1 DEF AppendNew
  <2>2. CASE ~\E i \in DOMAIN rows : \A c \in ShadowKey : rows[i][c] = row[c]
    <3>1. next = Append(rows, row)
      BY <2>2 DEF AppendNew
    <3> QED
      BY <3>1, AppendSequence
  <2> QED
    BY <2>1, <2>2
<1> HIDE DEF next
<1>2. Stored(next, row) \in DOMAIN next /\ \A c \in ShadowKey : next[Stored(next, row)][c] = row[c]
  BY <1>1 DEF Stored
<1> QED
  BY <1>1, <1>2 DEF next

-----------------------------------------------------------------------------
\* The invariant.

\* A matched row is of a game that is known.
OfAGame(row) == row.status = "matched" => row.event \in Events

Tables ==
  /\ crew \in Crews
  /\ DOMAIN events = Events /\ DOMAIN matches = Markets
  /\ \A m \in Markets : Sequence(matches[m])
  /\ \A m \in Markets : \A i \in DOMAIN matches[m] : OfAGame(matches[m][i])
  /\ Sequence(shadows) /\ Sequence(payouts) /\ Sequence(comparisons) /\ Sequence(preflights)

Judged ==
  /\ DOMAIN jobs = Workers
  /\ \A w \in Workers : jobs[w].kind = "judged" => OfAGame(jobs[w].decision)

\* A payout forecast is of the match of its snapshot and pays what the snapshot's
\* teams say; a comparison is of the market of its forecast.
PayoutOfSnapshot(row) ==
  /\ row.market \in Markets /\ row.match \in DOMAIN matches[row.market]
  /\ row.shadow \in DOMAIN shadows
  /\ shadows[row.shadow].market = row.market
  /\ row.yes = YesPayout(row.market, shadows[row.shadow])

Lineage ==
  /\ \A p \in DOMAIN payouts : PayoutOfSnapshot(payouts[p])
  /\ \A c \in DOMAIN comparisons :
       /\ comparisons[c].payout \in DOMAIN payouts
       /\ comparisons[c].market = payouts[comparisons[c].payout].market

\* What a request was asked about.
OfPayout(r, p) == p \in DOMAIN payouts /\ payouts[p].market = r.market /\ payouts[p].match = r.match

Fields == {"kind", "stage", "market", "match", "key", "subject", "side", "cap", "at", "shadow"}

Asked(r) ==
  /\ DOMAIN r = Fields
  /\ r.kind \in {"shadow", "payout", "comparison", "preflight"}
  /\ r.stage \in {"asked", "validated", "captured"}
  /\ r.market \in Markets /\ r.match \in DOMAIN matches[r.market]
  /\ r.kind = "comparison" => OfPayout(r, r.subject)
  /\ r.kind = "preflight" =>
       r.subject \in DOMAIN comparisons /\ OfPayout(r, comparisons[r.subject].payout)

GameOf(r) == matches[r.market][r.match].event

\* What a request that has its locks can rely on.
Secured(r) ==
  /\ r.market \in locked /\ GameOf(r) \in locked /\ GameOf(r) \in Events
  /\ r.match \in NewestMatch(r.market)
  /\ r.stage = "captured" =>
       /\ r.shadow.market = r.market
       /\ r.shadow.home = events[GameOf(r)].home /\ r.shadow.away = events[GameOf(r)].away

Holding(w) == requests[w] # Idle /\ requests[w].stage # "asked"

Requested ==
  /\ DOMAIN requests = Workers
  /\ \A w \in Workers : requests[w] # Idle => Asked(requests[w])
  /\ \A w \in Workers : Holding(w) => Secured(requests[w])

\* Nobody holds a row that another holds.
Apart ==
  \A v, w \in Workers :
    v # w /\ Holding(v) /\ Holding(w) => RowsOf(requests[v]) \cap RowsOf(requests[w]) = {}

IInv == Tables /\ Judged /\ Lineage /\ Requested /\ Apart

-----------------------------------------------------------------------------
\* Steps of the evidence.

\* Nothing of it changes but what runs have read.
LEMMA Frame ==
  ASSUME IInv, Judged',
         UNCHANGED <<events, matches, locked, crew, shadows, payouts, comparisons, preflights, requests>>
  PROVE  IInv'
<1>1. Tables' /\ Lineage'
  BY DEF IInv, Tables, Lineage, PayoutOfSnapshot
<1>2. Requested'
  <2>1. \A m : NewestMatch(m)' = NewestMatch(m)
    BY DEF NewestMatch, Newest
  <2>2. \A w \in Workers : Holding(w)' = Holding(w)
    BY DEF Holding
  <2>3. \A w \in Workers : Asked(requests[w])' = Asked(requests[w])
    BY DEF Asked, OfPayout
  <2>4. \A w \in Workers : Secured(requests[w])' = Secured(requests[w])
    BY <2>1 DEF Secured, GameOf
  <2> QED
    BY <2>2, <2>3, <2>4 DEF IInv, Requested
<1>3. Apart'
  BY DEF IInv, Apart, Holding, RowsOf
<1> QED
  BY <1>1, <1>2, <1>3 DEF IInv

\* A run that is not at its decision.
LEMMA JobStep ==
  ASSUME Judged, NEW w \in Workers, NEW job, jobs' = [jobs EXCEPT ![w] = job],
         job.kind = "judged" => OfAGame(job.decision)
  PROVE  Judged'
BY DEF Judged, OfAGame

\* Only a known game can be matched.
LEMMA MatchOfAGame ==
  ASSUME NEW m, NEW row, NEW games, DOMAIN games \subseteq Events, NEW at
  PROVE  OfAGame(Match(m, row, games, at))
<1> DEFINE viable == {e \in Relevant(m, games) : WithinWindow(m, row, games[e])}
           clear == Clear(m, row, games, viable)
<1>1. clear \subseteq Events
  BY DEF Clear, Relevant
<1> HIDE DEF clear
<1>2. clear # {} => (CHOOSE e \in clear : TRUE) \in Events
  BY <1>1
<1>3. ASSUME Match(m, row, games, at).status = "matched"
      PROVE  clear # {} /\ Match(m, row, games, at).event = CHOOSE e \in clear : TRUE
  BY <1>3 DEF Match, clear
<1> QED
  BY <1>2, <1>3 DEF OfAGame

LEMMA JudgeStep ==
  ASSUME IInv, NEW w \in Workers, Judge(w)
  PROVE  Judged'
<1> DEFINE job == jobs[w]
           games == {e \in Events : events[e].start \in job.range.from - Padding..job.range.to + Padding}
           seen == [e \in games |-> events[e]]
           decision == Match(job.market, job.row, seen, now)
           judged == [kind |-> "judged", market |-> job.market, decision |-> decision]
<1>1. jobs' = [jobs EXCEPT ![w] = judged]
  BY DEF Judge
<1>2. DOMAIN seen \subseteq Events
  OBVIOUS
<1> HIDE DEF seen
<1>3. OfAGame(decision)
  BY <1>2, MatchOfAGame
<1>4. judged.decision = decision
  OBVIOUS
<1> HIDE DEF judged, decision
<1>5. OfAGame(judged.decision)
  BY <1>3, <1>4
<1> QED
  BY <1>1, <1>5, JobStep DEF IInv

\* What a run has in hand after each statement it reads.
LEMMA TargetRead ==
  ASSUME NEW w, ReadTarget(w)
  PROVE  /\ jobs[w].kind = "target"
         /\ \E job : /\ Reads(w, job)
                     /\ \/ job = Idle
                        \/ /\ jobs[w].event \in Targets(jobs[w].purpose, jobs[w].at)
                           /\ job.kind = "forecast" /\ job.event = jobs[w].event /\ job.row = events[job.event]
                           /\ job.purpose = jobs[w].purpose /\ job.at = jobs[w].at
<1>1. PICK old : old = jobs[w]
  OBVIOUS
<1>2. PICK job : job = [kind |-> "forecast", event |-> old.event, row |-> events[old.event],
                        purpose |-> old.purpose, at |-> old.at]
  OBVIOUS
<1>3. /\ job.kind = "forecast" /\ job.event = old.event /\ job.row = events[old.event]
      /\ job.purpose = old.purpose /\ job.at = old.at
  BY <1>2
<1>4. /\ old.kind = "target"
      /\ \/ old.event \in Targets(old.purpose, old.at) /\ Reads(w, job)
         \/ Reads(w, Idle)
  BY <1>1, <1>2 DEF ReadTarget
<1> QED
  BY <1>1, <1>3, <1>4

LEMMA MarketRead ==
  ASSUME NEW w, ReadMarket(w)
  PROVE  /\ jobs[w].kind = "clock"
         /\ \E job : /\ Reads(w, job)
                     /\ \/ job = Idle
                        \/ /\ job.kind = "market" /\ job.market = jobs[w].market
                           /\ job.row = markets[job.market] /\ job.at = jobs[w].at
<1>1. PICK old : old = jobs[w]
  OBVIOUS
<1>2. PICK job : job = [kind |-> "market", market |-> old.market, row |-> markets[old.market], at |-> old.at]
  OBVIOUS
<1>3. job.kind = "market" /\ job.market = old.market /\ job.row = markets[old.market] /\ job.at = old.at
  BY <1>2
<1>4. old.kind = "clock" /\ (Reads(w, job) \/ Reads(w, Idle))
  BY <1>1, <1>2 DEF ReadMarket
<1> QED
  BY <1>1, <1>3, <1>4

LEMMA MatchRead ==
  ASSUME NEW w, ReadMatch(w)
  PROVE  /\ jobs[w].kind = "market"
         /\ \E job : /\ Reads(w, job) /\ job.kind = "bundle" /\ job.market = jobs[w].market
                     /\ job.row = jobs[w].row /\ job.match = NewestMatch(job.market) /\ job.at = jobs[w].at
<1>1. PICK old : old = jobs[w]
  OBVIOUS
<1>2. PICK job : job = [kind |-> "bundle", market |-> old.market, row |-> old.row,
                        match |-> NewestMatch(old.market), at |-> old.at]
  OBVIOUS
<1>3. /\ job.kind = "bundle" /\ job.market = old.market /\ job.row = old.row
      /\ job.match = NewestMatch(old.market) /\ job.at = old.at
  BY <1>2
<1>4. old.kind = "market" /\ Reads(w, job)
  BY <1>1, <1>2 DEF ReadMatch
<1> QED
  BY <1>1, <1>3, <1>4

LEMMA PriceRead ==
  ASSUME NEW w, ReadPrice(w)
  PROVE  /\ jobs[w].kind = "bundle"
         /\ \E job : /\ Reads(w, job) /\ job.kind = "quoted" /\ job.market = jobs[w].market
                     /\ job.row = jobs[w].row /\ job.match = jobs[w].match
                     /\ job.price = NewestPrice(job.market) /\ job.at = jobs[w].at
<1>1. PICK old : old = jobs[w]
  OBVIOUS
<1>2. PICK job : job = [kind |-> "quoted", market |-> old.market, row |-> old.row, match |-> old.match,
                        price |-> NewestPrice(old.market), at |-> old.at]
  OBVIOUS
<1>3. /\ job.kind = "quoted" /\ job.market = old.market /\ job.row = old.row /\ job.match = old.match
      /\ job.price = NewestPrice(old.market) /\ job.at = old.at
  BY <1>2
<1>4. old.kind = "bundle" /\ Reads(w, job)
  BY <1>1, <1>2 DEF ReadPrice
<1> QED
  BY <1>1, <1>3, <1>4

LEMMA GameRead ==
  ASSUME NEW w, ReadGame(w)
  PROVE  /\ jobs[w].kind = "quoted"
         /\ \E job : /\ Reads(w, job) /\ job.kind = "sources" /\ job.market = jobs[w].market
                     /\ job.row = jobs[w].row /\ job.match = jobs[w].match
                     /\ job.price = jobs[w].price /\ job.at = jobs[w].at
                     /\ job.games = GamesOf(job.market, job.match)
<1>1. PICK old : old = jobs[w]
  OBVIOUS
<1>2. PICK games : games = GamesOf(old.market, old.match)
  OBVIOUS
<1>3. PICK job : job = [kind |-> "sources", market |-> old.market, row |-> old.row, match |-> old.match,
                        price |-> old.price, games |-> games, at |-> old.at]
  OBVIOUS
<1>4. /\ job.kind = "sources" /\ job.market = old.market /\ job.row = old.row /\ job.match = old.match
      /\ job.price = old.price /\ job.games = games /\ job.at = old.at
  BY <1>3
<1>5. old.kind = "quoted" /\ Reads(w, job)
  BY <1>1, <1>2, <1>3 DEF ReadGame
<1> QED
  BY <1>1, <1>2, <1>4, <1>5

\* The statements an opportunity run reads one after the other.
ReadsBundle(w) == ReadMarket(w) \/ ReadMatch(w) \/ ReadPrice(w) \/ ReadGame(w)

LEMMA StatementRead ==
  ASSUME NEW w, ReadTarget(w) \/ ReadsBundle(w)
  PROVE  \E job : Reads(w, job) /\ job.kind \in {"idle", "forecast", "market", "bundle", "quoted", "sources"}
<1>1. Idle.kind = "idle"
  BY DEF Idle
<1>2. ASSUME NEW job, Reads(w, job),
             job = Idle \/ job.kind \in {"forecast", "market", "bundle", "quoted", "sources"}
      PROVE  \E j : Reads(w, j) /\ j.kind \in {"idle", "forecast", "market", "bundle", "quoted", "sources"}
  BY <1>1, <1>2
<1>3. CASE ReadTarget(w)
  BY <1>2, <1>3, TargetRead
<1>4. CASE ReadMarket(w)
  BY <1>2, <1>4, MarketRead
<1>5. CASE ReadMatch(w)
  BY <1>2, <1>5, MatchRead
<1>6. CASE ReadPrice(w)
  BY <1>2, <1>6, PriceRead
<1>7. CASE ReadGame(w)
  BY <1>2, <1>7, GameRead
<1> QED
  BY <1>3, <1>4, <1>5, <1>6, <1>7 DEF ReadsBundle

LEMMA StatementFrame ==
  ASSUME NEW w, ReadTarget(w) \/ ReadsBundle(w)
  PROVE  UNCHANGED <<now, events, markets, prices, matches, forecasts, opportunities, locked, left, crew>>
BY DEF ReadTarget, ReadsBundle, ReadMarket, ReadMatch, ReadPrice, ReadGame, Reads

\* A run takes its time.
LEMMA ClockTaken ==
  ASSUME NEW w, NEW m, BeginOpportunities(w, m)
  PROVE  \E job : /\ jobs' = [jobs EXCEPT ![w] = job]
                  /\ job.kind = "clock" /\ job.market = m /\ job.at = now
<1>1. PICK job : job = [kind |-> "clock", market |-> m, at |-> now]
  OBVIOUS
<1>2. job.kind = "clock" /\ job.market = m /\ job.at = now
  BY <1>1
<1>3. jobs' = [jobs EXCEPT ![w] = job]
  BY <1>1 DEF BeginOpportunities
<1> QED
  BY <1>2, <1>3

LEMMA TargetAsked ==
  ASSUME NEW w, NEW purpose, NEW e, BeginForecast(w, purpose, e)
  PROVE  \E job : /\ jobs' = [jobs EXCEPT ![w] = job]
                  /\ job.kind = "target" /\ job.event = e /\ job.purpose = purpose /\ job.at = now
<1>1. PICK job : job = [kind |-> "target", event |-> e, purpose |-> purpose, at |-> now]
  OBVIOUS
<1>2. job.kind = "target" /\ job.event = e /\ job.purpose = purpose /\ job.at = now
  BY <1>1
<1>3. jobs' = [jobs EXCEPT ![w] = job]
  BY <1>1 DEF BeginForecast
<1> QED
  BY <1>2, <1>3

LEMMA MarketAsked ==
  ASSUME NEW w, NEW m, NEW range, NEW named, BeginMatching(w, m, range, named)
  PROVE  \E job : /\ jobs' = [jobs EXCEPT ![w] = job]
                  /\ job.kind = "match" /\ job.market = m /\ job.row = markets[m]
<1>1. PICK job : job = [kind |-> "match", market |-> m, row |-> markets[m], range |-> range]
  OBVIOUS
<1>2. job.kind = "match" /\ job.market = m /\ job.row = markets[m]
  BY <1>1
<1>3. jobs' = [jobs EXCEPT ![w] = job]
  BY <1>1 DEF BeginMatching
<1> QED
  BY <1>2, <1>3

\* A run that begins has in hand the market it judges, or the time it took.
LEMMA RunAsked ==
  ASSUME NEW w, RunBegins(w)
  PROVE  /\ UNCHANGED <<now, events, markets, prices, matches, forecasts, opportunities, locked, crew>>
         /\ \E job : jobs' = [jobs EXCEPT ![w] = job] /\ job.kind \in {"match", "target", "clock"}
<1>1. UNCHANGED <<now, events, markets, prices, matches, forecasts, opportunities, locked, crew>>
  BY DEF RunBegins, BeginMatching, BeginForecast, BeginOpportunities
<1>2. CASE \E m \in crew.markets, range \in Ranges, named \in BOOLEAN : BeginMatching(w, m, range, named)
  <2>1. PICK m \in crew.markets, range \in Ranges, named \in BOOLEAN : BeginMatching(w, m, range, named)
    BY <1>2
  <2>2. PICK job : jobs' = [jobs EXCEPT ![w] = job] /\ job.kind = "match"
    BY <2>1, MarketAsked
  <2> QED
    BY <1>1, <2>2
<1>3. CASE \E purpose \in {"operational", "replay"}, e \in crew.targets : BeginForecast(w, purpose, e)
  <2>1. PICK purpose, e : BeginForecast(w, purpose, e)
    BY <1>3
  <2>2. PICK job : jobs' = [jobs EXCEPT ![w] = job] /\ job.kind = "target"
    BY <2>1, TargetAsked
  <2> QED
    BY <1>1, <2>2
<1>4. CASE \E m \in crew.markets : BeginOpportunities(w, m)
  <2>1. PICK m : BeginOpportunities(w, m)
    BY <1>4
  <2>2. PICK job : jobs' = [jobs EXCEPT ![w] = job] /\ job.kind = "clock"
    BY <2>1, ClockTaken
  <2> QED
    BY <1>1, <2>2
<1> QED
  BY <1>1, <1>2, <1>3, <1>4 DEF RunBegins

\* A run that reads, or appends to a table that no locked request looks at.
LEMMA ReadingStep ==
  ASSUME IInv, UNCHANGED <<tables, requests>>,
         \/ \E m \in crew.markets : IngestMarket(m)
         \/ \E w \in Workers :
              \/ RunBegins(w) \/ ReadTarget(w) \/ ReadsBundle(w)
              \/ Judge(w) \/ PersistForecast(w) \/ PersistOpportunities(w)
         \/ Tick
  PROVE  IInv'
<1>1. UNCHANGED <<shadows, payouts, comparisons, preflights, requests>>
  BY DEF tables
<1>2. CASE (\E m \in crew.markets : IngestMarket(m)) \/ Tick
  <2>1. UNCHANGED <<events, matches, locked, crew, jobs>>
    BY <1>2 DEF IngestMarket, Tick
  <2>2. Judged'
    BY <2>1 DEF IInv, Judged
  <2> QED
    BY <1>1, <2>1, <2>2, Frame
<1>3. ASSUME NEW w \in Workers, Judge(w)
      PROVE  IInv'
  <2>1. UNCHANGED <<events, matches, locked, crew>>
    BY <1>3 DEF Judge
  <2>2. Judged'
    BY <1>3, JudgeStep
  <2> QED
    BY <1>1, <2>1, <2>2, Frame
<1>4. ASSUME NEW w \in Workers,
             RunBegins(w) \/ ReadTarget(w) \/ ReadsBundle(w) \/ PersistForecast(w) \/ PersistOpportunities(w)
      PROVE  IInv'
  <2>1. CASE RunBegins(w)
    <3>1. UNCHANGED <<events, matches, locked, crew>>
      BY <2>1, RunAsked
    <3>2. PICK job : jobs' = [jobs EXCEPT ![w] = job] /\ job.kind # "judged"
      BY <2>1, RunAsked
    <3>3. Judged'
      BY <3>2, JobStep DEF IInv
    <3> QED
      BY <1>1, <3>1, <3>3, Frame
  <2>2. CASE ReadTarget(w) \/ ReadsBundle(w)
    <3>1. UNCHANGED <<events, matches, locked, crew>>
      BY <2>2, StatementFrame
    <3>2. PICK job : jobs' = [jobs EXCEPT ![w] = job] /\ job.kind # "judged"
      BY <2>2, StatementRead DEF Reads
    <3>3. Judged'
      BY <3>2, JobStep DEF IInv
    <3> QED
      BY <1>1, <3>1, <3>3, Frame
  <2>3. CASE PersistForecast(w) \/ PersistOpportunities(w)
    <3>1. UNCHANGED <<events, matches, locked, crew>> /\ jobs' = [jobs EXCEPT ![w] = Idle] /\ Idle.kind # "judged"
      BY <2>3 DEF PersistForecast, PersistOpportunities, Idle
    <3>2. Judged'
      BY <3>1, JobStep DEF IInv
    <3> QED
      BY <1>1, <3>1, <3>2, Frame
  <2> QED
    BY <1>4, <2>1, <2>2, <2>3
<1> QED
  BY <1>2, <1>3, <1>4

\* A report overwrites a game that no request holds.
LEMMA IngestStep ==
  ASSUME IInv, NEW e \in Events, IngestEvent(e), UNCHANGED <<tables, requests>>
  PROVE  IInv'
<1>1. /\ UNCHANGED <<shadows, payouts, comparisons, preflights, requests>>
      /\ UNCHANGED <<matches, locked, jobs, crew>>
      /\ e \notin locked
  BY DEF tables, IngestEvent
<1>2. PICK report : events' = [events EXCEPT ![e] = report]
  BY DEF IngestEvent
<1>3. Tables' /\ Judged' /\ Lineage' /\ Apart'
  BY <1>1, <1>2 DEF IInv, Tables, Judged, Lineage, PayoutOfSnapshot, Apart, Holding, RowsOf
<1>4. Requested'
  <2>1. \A m : NewestMatch(m)' = NewestMatch(m)
    BY <1>1 DEF NewestMatch, Newest
  <2>2. \A w \in Workers : Holding(w)' = Holding(w) /\ Asked(requests[w])' = Asked(requests[w])
    BY <1>1 DEF Holding, Asked, OfPayout
  <2>3. \A x \in locked : x \in Events => events'[x] = events[x]
    BY <1>1, <1>2 DEF IInv, Tables
  <2>4. \A w \in Workers : Secured(requests[w]) => Secured(requests[w])'
    BY <1>1, <2>1, <2>3 DEF Secured, GameOf
  <2> QED
    BY <1>1, <2>2, <2>4 DEF IInv, Requested
<1> QED
  BY <1>3, <1>4 DEF IInv

\* A decision is appended for a market that no request holds.
LEMMA InsertStep ==
  ASSUME IInv, NEW w \in Workers, InsertDecision(w), UNCHANGED <<tables, requests>>
  PROVE  IInv'
<1> DEFINE m == jobs[w].market
           decision == jobs[w].decision
           rows == AppendNew(matches[m], decision, MatchKey)
<1>1. /\ UNCHANGED <<shadows, payouts, comparisons, preflights, requests>>
      /\ UNCHANGED <<events, locked, crew>>
      /\ matches' = [matches EXCEPT ![m] = rows] /\ jobs' = [jobs EXCEPT ![w] = Idle]
      /\ jobs[w].kind = "judged" /\ m \notin locked
  BY DEF tables, InsertDecision
<1>2. OfAGame(decision)
  BY <1>1 DEF IInv, Judged
<1> HIDE DEF m, decision
<1>3. ASSUME m \in Markets
      PROVE  /\ Sequence(rows) /\ DOMAIN matches[m] \subseteq DOMAIN rows
             /\ \A i \in DOMAIN matches[m] : rows[i] = matches[m][i]
             /\ \A i \in DOMAIN rows : OfAGame(rows[i])
  <2>1. Sequence(matches[m]) /\ \A i \in DOMAIN matches[m] : OfAGame(matches[m][i])
    BY <1>3 DEF IInv, Tables
  <2>2. CASE rows = matches[m]
    BY <2>1, <2>2
  <2>3. CASE rows = Append(matches[m], decision)
    <3> DEFINE old == matches[m]
    <3> HIDE DEF old, rows
    <3>1. Sequence(old) /\ (\A i \in DOMAIN old : OfAGame(old[i])) /\ rows = Append(old, decision)
      BY <2>1, <2>3 DEF old
    <3>2. /\ Sequence(rows) /\ DOMAIN old \subseteq DOMAIN rows
          /\ DOMAIN rows = DOMAIN old \cup {Len(old) + 1}
          /\ \A i \in DOMAIN old : rows[i] = old[i]
          /\ rows[Len(old) + 1] = decision
      BY <3>1, AppendSequence
    <3>3. \A i \in DOMAIN rows : OfAGame(rows[i])
      <4>1. TAKE i \in DOMAIN rows
      <4>2. CASE i \in DOMAIN old
        BY <3>1, <3>2, <4>2
      <4>3. CASE i = Len(old) + 1
        BY <1>2, <3>2, <4>3
      <4> QED
        BY <3>2, <4>2, <4>3
    <3> QED
      BY <3>2, <3>3 DEF old
  <2> QED
    BY <2>2, <2>3 DEF AppendNew
<1> HIDE DEF rows
<1>4. \A n \in Markets : matches'[n] = IF n = m THEN rows ELSE matches[n]
  BY <1>1 DEF IInv, Tables
<1>5. \A n \in Markets : /\ DOMAIN matches[n] \subseteq DOMAIN matches'[n]
                         /\ \A i \in DOMAIN matches[n] : matches'[n][i] = matches[n][i]
  BY <1>3, <1>4
<1>6. Tables'
  BY <1>1, <1>3, <1>4 DEF IInv, Tables
<1>7. Judged'
  BY <1>1, JobStep DEF IInv, Idle
<1>8. Lineage'
  <2>1. \A row : PayoutOfSnapshot(row) => PayoutOfSnapshot(row)'
    BY <1>1, <1>5 DEF PayoutOfSnapshot
  <2> QED
    BY <1>1, <2>1 DEF IInv, Lineage
<1>9. \A v \in Workers : /\ Holding(v)' = Holding(v)
                         /\ requests[v] # Idle => GameOf(requests[v])' = GameOf(requests[v])
  BY <1>1, <1>5 DEF IInv, Requested, Asked, Holding, GameOf
<1>10. Requested'
  <2>1. \A v \in Workers : Asked(requests[v]) => Asked(requests[v])'
    BY <1>1, <1>5 DEF Asked, OfPayout
  <2>2. \A v \in Workers : Holding(v) => Secured(requests[v])'
    <3>1. TAKE v \in Workers
    <3>2. HAVE Holding(v)
    <3>3. Secured(requests[v]) /\ Asked(requests[v]) /\ GameOf(requests[v])' = GameOf(requests[v])
      BY <1>9, <3>2 DEF IInv, Requested, Holding
    <3>4. requests[v].market # m /\ requests[v].market \in Markets
      BY <1>1, <3>3 DEF Secured, Asked
    <3>5. NewestMatch(requests[v].market)' = NewestMatch(requests[v].market)
      BY <1>1, <1>4, <3>4 DEF NewestMatch, Newest
    <3> QED
      BY <1>1, <3>3, <3>5 DEF Secured
  <2> QED
    BY <1>1, <1>9, <2>1, <2>2 DEF IInv, Requested
<1>11. Apart'
  <2>1. \A v \in Workers : Holding(v) => RowsOf(requests[v])' = RowsOf(requests[v])
    BY <1>1, <1>9 DEF Holding, RowsOf, GameOf
  <2> QED
    BY <1>1, <1>9, <2>1 DEF IInv, Apart
<1> QED
  BY <1>6, <1>7, <1>8, <1>10, <1>11 DEF IInv

LEMMA EvidenceSteps ==
  ASSUME IInv, EvidenceStep, UNCHANGED <<tables, requests>>
  PROVE  IInv'
BY ReadingStep, IngestStep, InsertStep DEF EvidenceStep, RunProceeds, ReadsBundle, ProviderStep

-----------------------------------------------------------------------------
\* Steps of the requests.

Continues(rows, next) ==
  DOMAIN rows \subseteq DOMAIN next /\ \A i \in DOMAIN rows : next[i] = rows[i]

\* One request changes and the rows that others hold stay theirs.
LEMMA RequestStep ==
  ASSUME IInv, NEW w \in Workers, NEW request,
         requests' = [requests EXCEPT ![w] = request],
         UNCHANGED <<events, matches, crew, jobs>>,
         Tables', Lineage', Continues(payouts, payouts'), Continues(comparisons, comparisons'),
         request # Idle => Asked(request)',
         request # Idle /\ request.stage # "asked" => Secured(request)',
         \A v \in Workers \ {w} : Holding(v) =>
           /\ RowsOf(requests[v]) \subseteq locked'
           /\ request # Idle /\ request.stage # "asked" => RowsOf(requests[v]) \cap RowsOf(request) = {}
  PROVE  IInv'
<1>1. \A v \in Workers : requests'[v] = IF v = w THEN request ELSE requests[v]
  BY DEF IInv, Requested
<1>2. Judged'
  BY DEF IInv, Judged
<1>3. \A m : NewestMatch(m)' = NewestMatch(m)
  BY DEF NewestMatch, Newest
<1>4. ASSUME NEW v \in Workers \ {w}
      PROVE  /\ Holding(v)' = Holding(v) /\ requests'[v] = requests[v]
             /\ requests[v] # Idle => Asked(requests[v])'
             /\ Holding(v) => Secured(requests[v])'
  <2>1. Holding(v)' = Holding(v) /\ requests'[v] = requests[v]
    BY <1>1 DEF Holding
  <2>2. ASSUME requests[v] # Idle
        PROVE  Asked(requests[v])'
    <3>1. Asked(requests[v])
      BY <2>2 DEF IInv, Requested
    <3>2. \A p : OfPayout(requests[v], p) => OfPayout(requests[v], p)'
      BY <2>1 DEF OfPayout, Continues
    <3>3. \A c \in DOMAIN comparisons : c \in DOMAIN comparisons' /\ comparisons'[c] = comparisons[c]
      BY DEF Continues
    <3> QED
      BY <2>1, <3>1, <3>2, <3>3 DEF Asked
  <2>3. ASSUME Holding(v)
        PROVE  Secured(requests[v])'
    <3>1. Secured(requests[v]) /\ RowsOf(requests[v]) \subseteq locked'
      BY <2>3 DEF IInv, Requested
    <3>2. requests[v].market \in locked' /\ GameOf(requests[v]) \in locked'
      BY <3>1 DEF RowsOf, GameOf
    <3> QED
      BY <2>1, <1>3, <3>1, <3>2 DEF Secured, GameOf
  <2> QED
    BY <2>1, <2>2, <2>3
<1>5. Requested'
  <2>1. DOMAIN requests' = Workers
    BY DEF IInv, Requested
  <2>2. \A v \in Workers : requests'[v] # Idle => Asked(requests[v])'
    BY <1>1, <1>4
  <2>3. \A v \in Workers : Holding(v)' => Secured(requests[v])'
    BY <1>1, <1>4 DEF Holding
  <2> QED
    BY <2>1, <2>2, <2>3 DEF Requested
<1>6. Apart'
  <2>1. \A v \in Workers \ {w} : RowsOf(requests[v])' = RowsOf(requests[v])
    BY <1>4 DEF RowsOf
  <2>2. RowsOf(requests[w])' = RowsOf(request)
    BY <1>1 DEF RowsOf
  <2>3. Holding(w)' => request # Idle /\ request.stage # "asked"
    BY <1>1 DEF Holding
  <2>4. ASSUME NEW u \in Workers, NEW v \in Workers, u # v, Holding(u)', Holding(v)'
        PROVE  RowsOf(requests[u])' \cap RowsOf(requests[v])' = {}
    <3>1. CASE u = w
      BY <2>1, <2>2, <2>3, <2>4, <1>4, <3>1
    <3>2. CASE v = w
      BY <2>1, <2>2, <2>3, <2>4, <1>4, <3>2
    <3>3. CASE u # w /\ v # w
      <4>1. Holding(u) /\ Holding(v)
        BY <1>4, <2>4, <3>3
      <4>2. RowsOf(requests[u]) \cap RowsOf(requests[v]) = {}
        BY <2>4, <4>1 DEF IInv, Apart
      <4> QED
        BY <2>1, <3>3, <4>2
    <3> QED
      BY <3>1, <3>2, <3>3
  <2> QED
    BY <2>4 DEF Apart
<1> QED
  BY <1>2, <1>5, <1>6 DEF IInv

\* A transaction that ends gives up its own rows and nobody else's.
LEMMA OthersKeep ==
  ASSUME IInv, NEW w \in Workers, requests[w] # Idle, NEW v \in Workers \ {w}, Holding(v)
  PROVE  RowsOf(requests[v]) \subseteq locked /\ RowsOf(requests[v]) \subseteq locked \ Held(requests[w])
<1>1. RowsOf(requests[v]) \subseteq locked
  BY DEF IInv, Requested, Secured, RowsOf, GameOf
<1>2. CASE requests[w].stage = "asked"
  BY <1>1, <1>2 DEF Held
<1>3. CASE requests[w].stage # "asked"
  <2>1. Holding(w) /\ Held(requests[w]) = RowsOf(requests[w])
    BY <1>3 DEF Holding, Held
  <2>2. RowsOf(requests[v]) \cap RowsOf(requests[w]) = {}
    BY <2>1 DEF IInv, Apart
  <2> QED
    BY <1>1, <2>1, <2>2
<1> QED
  BY <1>2, <1>3

\* Nothing is inserted.
LEMMA TablesStay ==
  ASSUME IInv, UNCHANGED <<events, matches, crew, jobs, shadows, payouts, comparisons, preflights>>
  PROVE  Tables' /\ Lineage' /\ Continues(payouts, payouts') /\ Continues(comparisons, comparisons')
BY DEF IInv, Tables, Lineage, PayoutOfSnapshot, Continues

LEMMA AskStep ==
  ASSUME IInv, NEW w \in Workers, NEW kind, NEW m, NEW i, NEW key, NEW subject, NEW side, NEW cap,
         Ask(w, Request(kind, m, i, key, subject, side, cap)),
         Asked(Request(kind, m, i, key, subject, side, cap))
  PROVE  IInv'
<1>1. PICK request : request = Request(kind, m, i, key, subject, side, cap)
  OBVIOUS
<1>2. /\ UNCHANGED <<events, matches, crew, jobs, locked>> /\ UNCHANGED <<shadows, payouts, comparisons, preflights>>
      /\ requests' = [requests EXCEPT ![w] = request] /\ requests[w] = Idle
  BY <1>1 DEF Ask, tables, Free
<1>3. request.stage = "asked"
  BY <1>1 DEF Request
<1>4. Asked(request)'
  <2>1. Asked(request)
    BY <1>1
  <2> QED
    BY <1>2, <2>1 DEF Asked, OfPayout
<1>5. \A v \in Workers \ {w} : Holding(v) => RowsOf(requests[v]) \subseteq locked'
  BY <1>2 DEF IInv, Requested, Secured, RowsOf, GameOf
<1>6. Tables' /\ Lineage' /\ Continues(payouts, payouts') /\ Continues(comparisons, comparisons')
  BY <1>2, TablesStay
<1> QED
  BY <1>2, <1>3, <1>4, <1>5, <1>6, RequestStep

LEMMA ValidateStep ==
  ASSUME IInv, NEW w \in Workers, Validate(w)
  PROVE  IInv'
<1>1. PICK r : r = requests[w]
  OBVIOUS
<1>2. PICK request : request = [r EXCEPT !.stage = "validated"]
  OBVIOUS
<1>3. /\ UNCHANGED <<events, matches, crew, jobs>> /\ UNCHANGED <<shadows, payouts, comparisons, preflights>>
      /\ requests' = [requests EXCEPT ![w] = request]
      /\ r # Idle /\ RowsOf(r) \cap locked = {} /\ Eligible(r.market, r.match, now) /\ locked' = locked \cup RowsOf(r)
  BY <1>1, <1>2 DEF Validate, tables
<1>4. Asked(r)
  BY <1>1, <1>3 DEF IInv, Requested
<1>5. /\ DOMAIN request = Fields /\ request.stage = "validated"
      /\ request.kind = r.kind /\ request.market = r.market /\ request.match = r.match
      /\ request.subject = r.subject
  BY <1>2, <1>4 DEF Asked, Fields
<1>6. Asked(request)'
  BY <1>3, <1>4, <1>5 DEF Asked, OfPayout
<1>7. RowsOf(request) = RowsOf(r)
  BY <1>5 DEF RowsOf
<1>8. Secured(request)'
  <2>1. r.match \in NewestMatch(r.market) /\ matches[r.market][r.match].status = "matched"
    BY <1>3 DEF Eligible
  <2>2. GameOf(request) \in Events
    BY <1>4, <1>5, <2>1 DEF IInv, Tables, OfAGame, Asked, GameOf
  <2>3. NewestMatch(request.market)' = NewestMatch(request.market)
    BY <1>3 DEF NewestMatch, Newest
  <2>4. request.market \in locked' /\ GameOf(request) \in locked'
    BY <1>3, <1>5 DEF RowsOf, GameOf
  <2>5. GameOf(request)' = GameOf(request)
    BY <1>3 DEF GameOf
  <2> QED
    BY <1>5, <2>1, <2>2, <2>3, <2>4, <2>5 DEF Secured
<1>9. \A v \in Workers \ {w} : Holding(v) =>
        RowsOf(requests[v]) \subseteq locked' /\ RowsOf(requests[v]) \cap RowsOf(request) = {}
  <2>1. \A v \in Workers : Holding(v) => RowsOf(requests[v]) \subseteq locked
    BY DEF IInv, Requested, Secured, RowsOf, GameOf
  <2> QED
    BY <1>3, <1>7, <2>1
<1>10. Tables' /\ Lineage' /\ Continues(payouts, payouts') /\ Continues(comparisons, comparisons')
  BY <1>3, TablesStay
<1> QED
  BY <1>3, <1>5, <1>6, <1>8, <1>9, <1>10, RequestStep

LEMMA CaptureStep ==
  ASSUME IInv, NEW w \in Workers, Capture(w)
  PROVE  IInv'
<1>1. PICK r : r = requests[w]
  OBVIOUS
<1>2. PICK shadow : shadow = Shadow(r.market, r.match, now)
  OBVIOUS
<1>3. PICK request : request = [r EXCEPT !.stage = "captured", !.shadow = shadow]
  OBVIOUS
<1>4. /\ UNCHANGED <<events, matches, crew, jobs, locked>> /\ UNCHANGED <<shadows, payouts, comparisons, preflights>>
      /\ r # Idle /\ r.stage = "validated"
  BY <1>1 DEF Capture, tables, evidence
<1>5. requests' = [requests EXCEPT ![w] = request]
  BY <1>1, <1>2, <1>3 DEF Capture
<1>6. Holding(w) /\ Asked(r) /\ Secured(r)
  BY <1>1, <1>4 DEF IInv, Requested, Holding
<1>7. shadow.market = r.market /\ shadow.home = events[GameOf(r)].home /\ shadow.away = events[GameOf(r)].away
  BY <1>2 DEF Shadow, GameOf
<1>8. \A v \in Workers \ {w} : Holding(v) =>
        RowsOf(requests[v]) \subseteq locked' /\ RowsOf(requests[v]) \cap RowsOf(r) = {}
  BY <1>1, <1>4, <1>6, OthersKeep DEF IInv, Apart
<1>9. /\ DOMAIN request = Fields /\ request.stage = "captured" /\ request.shadow = shadow
      /\ request.kind = r.kind /\ request.market = r.market /\ request.match = r.match
      /\ request.subject = r.subject
  BY <1>3, <1>6 DEF Asked, Fields
<1>10. Asked(request)'
  BY <1>4, <1>6, <1>9 DEF Asked, OfPayout
<1>11. Secured(request)'
  <2>1. NewestMatch(request.market)' = NewestMatch(request.market)
    BY <1>4 DEF NewestMatch, Newest
  <2>2. GameOf(request)' = GameOf(r)
    BY <1>4, <1>9 DEF GameOf
  <2> QED
    BY <1>4, <1>6, <1>7, <1>9, <2>1, <2>2 DEF Secured
<1>12. \A v \in Workers \ {w} : Holding(v) =>
        RowsOf(requests[v]) \subseteq locked' /\ RowsOf(requests[v]) \cap RowsOf(request) = {}
  BY <1>8, <1>9 DEF RowsOf
<1>13. Tables' /\ Lineage' /\ Continues(payouts, payouts') /\ Continues(comparisons, comparisons')
  BY <1>4, TablesStay
<1>14. UNCHANGED <<events, matches, crew, jobs>>
  BY <1>4
<1>15. \A v \in Workers \ {w} : Holding(v) =>
         /\ RowsOf(requests[v]) \subseteq locked'
         /\ request # Idle /\ request.stage # "asked" => RowsOf(requests[v]) \cap RowsOf(request) = {}
  BY <1>12
<1>16. /\ request # Idle => Asked(request)'
       /\ request # Idle /\ request.stage # "asked" => Secured(request)'
  BY <1>10, <1>11
<1> QED
  BY <1>5, <1>13, <1>14, <1>15, <1>16, RequestStep

\* A request that is undone or done is out of the way.
LEMMA EndStep ==
  ASSUME IInv, NEW w \in Workers, requests[w] # Idle,
         requests' = [requests EXCEPT ![w] = Idle], locked' = locked \ Held(requests[w]),
         UNCHANGED <<events, matches, crew, jobs>>,
         Tables', Lineage', Continues(payouts, payouts'), Continues(comparisons, comparisons')
  PROVE  IInv'
<1>1. \A v \in Workers \ {w} : Holding(v) => RowsOf(requests[v]) \subseteq locked'
  BY OthersKeep
<1> QED
  BY <1>1, RequestStep

LEMMA RollbackStep ==
  ASSUME IInv, NEW w \in Workers, Rollback(w)
  PROVE  IInv'
<1>1. /\ UNCHANGED <<events, matches, crew, jobs>> /\ UNCHANGED <<shadows, payouts, comparisons, preflights>>
      /\ requests[w] # Idle /\ requests' = [requests EXCEPT ![w] = Idle] /\ locked' = locked \ Held(requests[w])
  BY DEF Rollback, tables
<1>2. Tables' /\ Lineage' /\ Continues(payouts, payouts') /\ Continues(comparisons, comparisons')
  BY <1>1, TablesStay
<1> QED
  BY <1>1, <1>2, EndStep

-----------------------------------------------------------------------------
\* Commits.

\* What a snapshot says of its game is what its teams say.
LEMMA YesOfTeams ==
  ASSUME NEW m, NEW g, NEW h, g.home = h.home, g.away = h.away
  PROVE  YesPayout(m, g) = YesPayout(m, h)
BY DEF YesPayout

LEMMA Committed ==
  ASSUME IInv, NEW w \in Workers, NEW kind, Committing(w, kind),
         NEW r, r = requests[w], NEW s, s = Stored(shadows', r.shadow)
  PROVE  /\ UNCHANGED <<events, matches, crew, jobs>>
         /\ requests' = [requests EXCEPT ![w] = Idle] /\ locked' = locked \ Held(requests[w])
         /\ requests[w] # Idle /\ r.kind = kind /\ Asked(r) /\ Secured(r)
         /\ Sequence(shadows') /\ Continues(shadows, shadows')
         /\ s \in DOMAIN shadows' /\ shadows'[s].market = r.market
         /\ YesPayout(r.market, shadows'[s]) = YesPayout(r.market, events[GameOf(r)])
<1>1. /\ r # Idle /\ r.stage = "captured" /\ r.kind = kind
      /\ shadows' = AppendNew(shadows, r.shadow, ShadowKey)
      /\ UNCHANGED <<events, matches, crew, jobs>>
      /\ requests' = [requests EXCEPT ![w] = Idle] /\ locked' = locked \ Held(requests[w])
  BY DEF Committing
<1>2. Asked(r) /\ Secured(r)
  BY <1>1 DEF IInv, Requested, Holding
<1>3. Sequence(shadows)
  BY DEF IInv, Tables
<1>4. /\ Sequence(shadows') /\ Continues(shadows, shadows') /\ s \in DOMAIN shadows'
      /\ \A c \in ShadowKey : shadows'[s][c] = r.shadow[c]
  BY <1>1, <1>3, StoredShadow DEF Continues
<1>5. shadows'[s].market = r.market /\ shadows'[s].home = events[GameOf(r)].home /\ shadows'[s].away = events[GameOf(r)].away
  BY <1>1, <1>2, <1>4 DEF ShadowKey, Secured
<1>6. YesPayout(r.market, shadows'[s]) = YesPayout(r.market, events[GameOf(r)])
  BY <1>5, YesOfTeams
<1> QED
  BY <1>1, <1>2, <1>4, <1>5, <1>6

\* The old rows stay what they are when a snapshot is inserted.
LEMMA LineageStays ==
  ASSUME IInv, UNCHANGED <<events, matches, crew>>, Continues(shadows, shadows'),
         Continues(payouts, payouts'), Continues(comparisons, comparisons'),
         \A p \in Added(payouts) : \A row : row = payouts'[p] => PayoutOfSnapshot(row)',
         \A c \in Added(comparisons) :
           /\ comparisons'[c].payout \in DOMAIN payouts'
           /\ comparisons'[c].market = payouts'[comparisons'[c].payout].market
  PROVE  Lineage'
<1>1. ASSUME NEW p \in DOMAIN payouts'
      PROVE  PayoutOfSnapshot(payouts[p])'
  <2>1. PICK row : row = payouts'[p]
    OBVIOUS
  <2>2. PayoutOfSnapshot(row)'
    <3>1. CASE p \in DOMAIN payouts
      <4>1. row = payouts[p]
        BY <2>1, <3>1 DEF Continues
      <4>2. PayoutOfSnapshot(row)
        BY <3>1, <4>1 DEF IInv, Lineage
      <4> QED
        BY <4>2 DEF PayoutOfSnapshot, Continues
    <3> QED
      BY <2>1, <3>1 DEF Added
  <2> QED
    BY <2>1, <2>2 DEF PayoutOfSnapshot
<1>2. ASSUME NEW c \in DOMAIN comparisons'
      PROVE  /\ comparisons'[c].payout \in DOMAIN payouts'
             /\ comparisons'[c].market = payouts'[comparisons'[c].payout].market
  <2>1. CASE c \in DOMAIN comparisons
    BY <2>1 DEF IInv, Lineage, Continues
  <2> QED
    BY <2>1 DEF Added
<1> QED
  BY <1>1, <1>2 DEF Lineage

\* A table that gets one row more.
LEMMA Grown ==
  ASSUME NEW rows, Sequence(rows), NEW row, NEW next, next = Append(rows, row)
  PROVE  /\ Sequence(next) /\ Continues(rows, next)
         /\ DOMAIN next \ DOMAIN rows = {Len(rows) + 1}
         /\ DOMAIN next = DOMAIN rows \cup {Len(rows) + 1} /\ next[Len(rows) + 1] = row
BY AppendSequence DEF Continues

LEMMA CommitShadowStep ==
  ASSUME IInv, NEW w \in Workers, CommitShadow(w)
  PROVE  IInv' /\ CommitsRestOnCurrentSources
<1>1. PICK r : r = requests[w]
  OBVIOUS
<1>2. PICK s : s = Stored(shadows', r.shadow)
  OBVIOUS
<1>3. /\ UNCHANGED <<events, matches, crew, jobs>>
      /\ requests' = [requests EXCEPT ![w] = Idle] /\ locked' = locked \ Held(requests[w])
      /\ requests[w] # Idle /\ Sequence(shadows') /\ Continues(shadows, shadows')
  BY <1>1, <1>2, Committed DEF CommitShadow
<1>4. UNCHANGED <<payouts, comparisons, preflights>>
  BY DEF CommitShadow
<1>5. Continues(payouts, payouts') /\ Continues(comparisons, comparisons')
  BY <1>4 DEF Continues
<1>6. Tables'
  BY <1>3, <1>4 DEF IInv, Tables
<1>7. Lineage'
  BY <1>3, <1>4, <1>5, LineageStays DEF Added
<1>8. IInv'
  BY <1>3, <1>5, <1>6, <1>7, EndStep
<1>9. Added(payouts) = {} /\ Added(comparisons) = {} /\ Added(preflights) = {}
  BY <1>4 DEF Added
<1> QED
  BY <1>8, <1>9 DEF CommitsRestOnCurrentSources

LEMMA CommitPayoutStep ==
  ASSUME IInv, NEW w \in Workers, CommitPayout(w)
  PROVE  IInv' /\ CommitsRestOnCurrentSources
<1>1. PICK r : r = requests[w]
  OBVIOUS
<1>2. PICK s : s = Stored(shadows', r.shadow)
  OBVIOUS
<1>3. PICK row : row = Payout(r.market, r.match, s, r.key, r.shadow.at)
  OBVIOUS
<1>4. /\ UNCHANGED <<events, matches, crew, jobs>>
      /\ requests' = [requests EXCEPT ![w] = Idle] /\ locked' = locked \ Held(requests[w])
      /\ requests[w] # Idle /\ Asked(r) /\ Secured(r)
      /\ Sequence(shadows') /\ Continues(shadows, shadows')
      /\ s \in DOMAIN shadows' /\ shadows'[s].market = r.market
      /\ YesPayout(r.market, shadows'[s]) = YesPayout(r.market, events[GameOf(r)])
  BY <1>1, <1>2, Committed DEF CommitPayout
<1>5. UNCHANGED <<comparisons, preflights>> /\ payouts' = Append(payouts, row)
  BY <1>1, <1>2, <1>3, <1>4 DEF CommitPayout, Committing
<1>6. /\ row.market = r.market /\ row.match = r.match /\ row.shadow = s
      /\ row.yes = YesPayout(r.market, events[GameOf(r)])
  BY <1>3 DEF Payout, GameOf
<1>7. /\ Sequence(payouts') /\ Continues(payouts, payouts') /\ Added(payouts) = {Len(payouts) + 1}
      /\ DOMAIN payouts' = DOMAIN payouts \cup {Len(payouts) + 1} /\ payouts'[Len(payouts) + 1] = row
  <2>1. Sequence(payouts)
    BY DEF IInv, Tables
  <2> QED
    BY <1>5, <2>1, Grown DEF Added
<1>8. Continues(comparisons, comparisons')
  BY <1>5 DEF Continues
<1>9. Tables'
  BY <1>4, <1>5, <1>7 DEF IInv, Tables
<1>10. PayoutOfSnapshot(row)'
  BY <1>4, <1>6 DEF PayoutOfSnapshot, Asked
<1>11. Lineage'
  BY <1>4, <1>5, <1>7, <1>8, <1>10, LineageStays DEF Added
<1>12. IInv'
  BY <1>4, <1>7, <1>8, <1>9, <1>11, EndStep
<1>13. Added(comparisons) = {} /\ Added(preflights) = {}
  BY <1>5 DEF Added
<1>14. Current(row.market, row.match, row.yes)
  BY <1>4, <1>6 DEF Current, Secured, GameOf
<1> QED
  BY <1>7, <1>12, <1>13, <1>14 DEF CommitsRestOnCurrentSources

\* The forecast that a request was asked about is of the snapshot it has just
\* taken, so what the forecast says is what the game says.
LEMMA StillCurrent ==
  ASSUME IInv, NEW r, Asked(r), Secured(r), NEW p, OfPayout(r, p), NEW s, s = payouts[p].shadow,
         Continues(shadows, shadows'),
         YesPayout(r.market, shadows'[s]) = YesPayout(r.market, events[GameOf(r)])
  PROVE  Current(r.market, payouts[p].match, payouts[p].yes)
<1>1. PayoutOfSnapshot(payouts[p]) /\ payouts[p].market = r.market /\ payouts[p].match = r.match
  BY DEF IInv, Lineage, OfPayout
<1>2. shadows'[s] = shadows[s]
  BY <1>1 DEF PayoutOfSnapshot, Continues
<1> QED
  BY <1>1, <1>2 DEF PayoutOfSnapshot, Current, Secured, GameOf

LEMMA CommitComparisonStep ==
  ASSUME IInv, NEW w \in Workers, CommitComparison(w)
  PROVE  IInv' /\ CommitsRestOnCurrentSources
<1>1. PICK r : r = requests[w]
  OBVIOUS
<1>2. PICK s : s = Stored(shadows', r.shadow)
  OBVIOUS
<1>3. PICK row : row = Comparison(r.subject, r.key, r.at)
  OBVIOUS
<1>4. /\ UNCHANGED <<events, matches, crew, jobs>>
      /\ requests' = [requests EXCEPT ![w] = Idle] /\ locked' = locked \ Held(requests[w])
      /\ requests[w] # Idle /\ r.kind = "comparison" /\ Asked(r) /\ Secured(r)
      /\ Sequence(shadows') /\ Continues(shadows, shadows')
      /\ YesPayout(r.market, shadows'[s]) = YesPayout(r.market, events[GameOf(r)])
  BY <1>1, <1>2, Committed DEF CommitComparison
<1>5. /\ UNCHANGED <<payouts, preflights>> /\ comparisons' = Append(comparisons, row)
      /\ s = payouts[r.subject].shadow
  BY <1>1, <1>2, <1>3, <1>4 DEF CommitComparison
<1>6. OfPayout(r, r.subject)
  BY <1>4 DEF Asked
<1>7. /\ row.payout = r.subject /\ row.market = payouts[r.subject].market
      /\ row.price = {q.at : q \in NewestPrice(row.market)}
  BY <1>3 DEF Comparison
<1>8. /\ Sequence(comparisons') /\ Continues(comparisons, comparisons') /\ Added(comparisons) = {Len(comparisons) + 1}
      /\ DOMAIN comparisons' = DOMAIN comparisons \cup {Len(comparisons) + 1}
      /\ comparisons'[Len(comparisons) + 1] = row
  <2>1. Sequence(comparisons)
    BY DEF IInv, Tables
  <2> QED
    BY <1>5, <2>1, Grown DEF Added
<1>9. Continues(payouts, payouts')
  BY <1>5 DEF Continues
<1>10. Tables'
  BY <1>4, <1>5, <1>8 DEF IInv, Tables
<1>11. Lineage'
  <2>1. row.payout \in DOMAIN payouts' /\ row.market = payouts'[row.payout].market
    BY <1>5, <1>6, <1>7 DEF OfPayout
  <2> QED
    BY <1>4, <1>5, <1>8, <1>9, <2>1, LineageStays DEF Added
<1>12. IInv'
  BY <1>4, <1>8, <1>9, <1>10, <1>11, EndStep
<1>13. Added(payouts) = {} /\ Added(preflights) = {}
  BY <1>5 DEF Added
<1>14. CurrentComparison(row)
  <2>1. Current(r.market, payouts[r.subject].match, payouts[r.subject].yes)
    BY <1>4, <1>5, <1>6, StillCurrent
  <2> QED
    BY <1>6, <1>7, <2>1 DEF CurrentComparison, OfPayout
<1> QED
  BY <1>8, <1>12, <1>13, <1>14 DEF CommitsRestOnCurrentSources

LEMMA CommitPreflightStep ==
  ASSUME IInv, NEW w \in Workers, CommitPreflight(w)
  PROVE  IInv' /\ CommitsRestOnCurrentSources
<1>1. PICK r : r = requests[w]
  OBVIOUS
<1>2. PICK s : s = Stored(shadows', r.shadow)
  OBVIOUS
<1>3. PICK row : row = comparisons[r.subject]
  OBVIOUS
<1>4. PICK preflight : preflight = Preflight(r.subject, r.side, r.cap, r.key, r.at)
  OBVIOUS
<1>5. /\ UNCHANGED <<events, matches, crew, jobs>>
      /\ requests' = [requests EXCEPT ![w] = Idle] /\ locked' = locked \ Held(requests[w])
      /\ requests[w] # Idle /\ r.kind = "preflight" /\ Asked(r) /\ Secured(r)
      /\ Sequence(shadows') /\ Continues(shadows, shadows')
      /\ YesPayout(r.market, shadows'[s]) = YesPayout(r.market, events[GameOf(r)])
  BY <1>1, <1>2, Committed DEF CommitPreflight
<1>6. /\ UNCHANGED <<payouts, comparisons>> /\ preflights' = Append(preflights, preflight)
      /\ s = payouts[row.payout].shadow /\ {q.at : q \in NewestPrice(r.market)} = row.price
  BY <1>1, <1>2, <1>3, <1>4 DEF CommitPreflight
<1>7. r.subject \in DOMAIN comparisons /\ OfPayout(r, row.payout)
  BY <1>3, <1>5 DEF Asked
<1>8. row.market = r.market
  BY <1>3, <1>7 DEF IInv, Lineage, OfPayout
<1>9. /\ Sequence(preflights') /\ Added(preflights) = {Len(preflights) + 1}
      /\ preflights'[Len(preflights) + 1].comparison = r.subject
  <2>1. Sequence(preflights)
    BY DEF IInv, Tables
  <2>2. preflight.comparison = r.subject
    BY <1>4 DEF Preflight
  <2>3. preflights' = Append(preflights, preflight)
    BY <1>6
  <2>4. /\ Sequence(preflights') /\ DOMAIN preflights' \ DOMAIN preflights = {Len(preflights) + 1}
        /\ preflights'[Len(preflights) + 1] = preflight
    BY <2>1, <2>3, Grown
  <2> QED
    BY <2>2, <2>4 DEF Added
<1>10. Continues(payouts, payouts') /\ Continues(comparisons, comparisons')
  BY <1>6 DEF Continues
<1>11. Tables'
  BY <1>5, <1>6, <1>9 DEF IInv, Tables
<1>12. Lineage'
  BY <1>5, <1>6, <1>10, LineageStays DEF Added
<1>13. IInv'
  BY <1>5, <1>10, <1>11, <1>12, EndStep
<1>14. Added(payouts) = {} /\ Added(comparisons) = {}
  BY <1>6 DEF Added
<1>15. CurrentComparison(row)
  <2>1. Current(r.market, payouts[row.payout].match, payouts[row.payout].yes)
    BY <1>5, <1>6, <1>7, StillCurrent
  <2> QED
    BY <1>6, <1>8, <2>1 DEF CurrentComparison
<1> QED
  BY <1>3, <1>9, <1>13, <1>14, <1>15 DEF CommitsRestOnCurrentSources

-----------------------------------------------------------------------------
\* The specification.

LEMMA Initially == ResearchInit => IInv
<1> SUFFICES ASSUME ResearchInit PROVE IInv
  OBVIOUS
<1>1. Sequence(<<>>) /\ DOMAIN <<>> = {}
  BY DEF Sequence
<1>2. \A w \in Workers : jobs[w] = Idle /\ requests[w] = Idle
  BY DEF ResearchInit, EvidenceInit
<1>3. Tables
  BY <1>1 DEF ResearchInit, EvidenceInit, Tables
<1>4. Judged
  BY <1>2 DEF ResearchInit, EvidenceInit, Judged, Idle
<1>5. Lineage
  BY <1>1 DEF ResearchInit, Lineage
<1>6. Requested /\ Apart
  BY <1>2 DEF ResearchInit, Requested, Apart, Holding
<1> QED
  BY <1>3, <1>4, <1>5, <1>6 DEF IInv

LEMMA BeginStep ==
  ASSUME IInv, NEW w \in Workers, RequestBegins(w)
  PROVE  IInv'
<1>1. crew.markets \subseteq Markets /\ \A m \in Markets : DOMAIN matches[m] = 1..Len(matches[m])
  BY SequenceDomain, EvidenceAssumption DEF IInv, Tables
<1>2. ASSUME NEW m \in crew.markets, NEW i \in 1..Len(matches[m]), BeginShadow(w, m, i)
      PROVE  IInv'
  <2>1. Asked(Request("shadow", m, i, NoRow, 0, "yes", 0))
    BY <1>1 DEF Asked, Request, Fields
  <2> QED
    BY <1>2, <2>1, AskStep DEF BeginShadow
<1>3. ASSUME NEW m \in crew.markets, NEW i \in 1..Len(matches[m]), NEW key \in Keys, BeginPayout(w, m, i, key)
      PROVE  IInv'
  <2>1. Asked(Request("payout", m, i, key, 0, "yes", 0))
    BY <1>1 DEF Asked, Request, Fields
  <2> QED
    BY <1>3, <2>1, AskStep DEF BeginPayout
<1>4. DOMAIN payouts = 1..Len(payouts) /\ DOMAIN comparisons = 1..Len(comparisons)
  BY SequenceDomain DEF IInv, Tables
<1>5. ASSUME NEW p \in 1..Len(payouts), NEW key \in Keys, BeginComparison(w, p, key)
      PROVE  IInv'
  <2>1. payouts[p].market \in Markets /\ payouts[p].match \in DOMAIN matches[payouts[p].market]
    BY <1>4 DEF IInv, Lineage, PayoutOfSnapshot
  <2>2. Asked(Request("comparison", payouts[p].market, payouts[p].match, key, p, "yes", 0))
    BY <1>4, <2>1 DEF Asked, Request, Fields, OfPayout
  <2> QED
    BY <1>5, <2>2, AskStep DEF BeginComparison
<1>6. ASSUME NEW c \in 1..Len(comparisons), NEW side \in {"yes", "no"}, NEW cap \in Caps, NEW key \in Keys,
             BeginPreflight(w, c, side, cap, key)
      PROVE  IInv'
  <2>1. PICK payout : payout = payouts[comparisons[c].payout]
    OBVIOUS
  <2>2. comparisons[c].payout \in DOMAIN payouts /\ payout.market \in Markets
        /\ payout.match \in DOMAIN matches[payout.market]
    BY <1>4, <2>1 DEF IInv, Lineage, PayoutOfSnapshot
  <2>3. Asked(Request("preflight", payout.market, payout.match, key, c, side, cap))
    BY <1>4, <2>1, <2>2 DEF Asked, Request, Fields, OfPayout
  <2> QED
    BY <1>6, <2>1, <2>3, AskStep DEF BeginPreflight
<1> QED
  BY <1>2, <1>3, <1>5, <1>6 DEF RequestBegins

LEMMA Step ==
  ASSUME IInv, [ResearchNext]_researchVars
  PROVE  IInv' /\ CommitsRestOnCurrentSources
<1>1. ASSUME UNCHANGED <<payouts, comparisons, preflights>>
      PROVE  CommitsRestOnCurrentSources
  BY <1>1 DEF CommitsRestOnCurrentSources, Added
<1>2. CASE EvidenceStep /\ UNCHANGED <<tables, requests>>
  <2>1. UNCHANGED <<payouts, comparisons, preflights>>
    BY <1>2 DEF tables
  <2> QED
    BY <1>1, <1>2, <2>1, EvidenceSteps
<1>3. ASSUME NEW w \in Workers, RequestBegins(w)
      PROVE  IInv' /\ CommitsRestOnCurrentSources
  <2>1. UNCHANGED <<payouts, comparisons, preflights>>
    BY <1>3 DEF RequestBegins, BeginShadow, BeginPayout, BeginComparison, BeginPreflight, Ask, tables
  <2> QED
    BY <1>1, <1>3, <2>1, BeginStep
<1>4. ASSUME NEW w \in Workers, RequestProceeds(w)
      PROVE  IInv' /\ CommitsRestOnCurrentSources
  <2>1. CASE Validate(w) \/ Capture(w) \/ Rollback(w)
    <3>1. UNCHANGED <<payouts, comparisons, preflights>>
      BY <2>1 DEF Validate, Capture, Rollback, tables
    <3> QED
      BY <1>1, <2>1, <3>1, ValidateStep, CaptureStep, RollbackStep
  <2> QED
    BY <1>4, <2>1, CommitShadowStep, CommitPayoutStep, CommitComparisonStep, CommitPreflightStep DEF RequestProceeds
<1>5. ASSUME \/ \E w \in Workers, s \in 1..Len(shadows) : Label(w, s)
             \/ /\ \E purpose \in {"operational", "replay"} : Evaluate(purpose)
                /\ UNCHANGED <<shadows, payouts, comparisons, preflights, labels, requests>>
             \/ UNCHANGED researchVars
      PROVE  IInv' /\ CommitsRestOnCurrentSources
  <2>1. UNCHANGED <<events, matches, locked, crew, jobs, shadows, payouts, comparisons, preflights, requests>>
    BY <1>5 DEF Label, Evaluate, researchVars, evidence
  <2>2. Judged'
    BY <2>1 DEF IInv, Judged
  <2> QED
    BY <1>1, <2>1, <2>2, Frame
<1> QED
  BY <1>2, <1>3, <1>4, <1>5 DEF ResearchNext

\* Whatever a request commits under its row locks rests on the newest match, the
\* game as it stands and, for a comparison and a preflight, the newest quote.
THEOREM SourcesTheorem == ResearchSpec => RestsOnCurrentSources
<1>1. ResearchInit => IInv
  BY Initially
<1>2. IInv /\ [ResearchNext]_researchVars => IInv' /\ [CommitsRestOnCurrentSources]_researchVars
  BY Step
<1> QED
  BY <1>1, <1>2, PTL DEF ResearchSpec, RestsOnCurrentSources

-----------------------------------------------------------------------------
\* Labels. A snapshot is taken of a game that is still to come and that the YES
\* side of its market has a team in, so whoever wins, the label pays that side.

Opponents ==
  \A e \in Events : {"home", "away"} \subseteq DOMAIN events[e] /\ events[e].home # events[e].away

Ahead(row) ==
  /\ row.at < row.start /\ row.home # row.away
  /\ YesTeam[row.market] \in {row.home, row.away}

Backed(r) ==
  /\ YesTeam[r.market] \in {events[GameOf(r)].home, events[GameOf(r)].away}
  /\ r.stage = "captured" => Ahead(r.shadow)

OfSnapshots == \A l \in labels : l.snapshot \in DOMAIN shadows

LInv ==
  /\ Opponents
  /\ \A w \in Workers : Holding(w) => Backed(requests[w])
  /\ \A i \in DOMAIN shadows : Ahead(shadows[i])
  /\ OfSnapshots /\ LabelsScoreThePlayedGame

\* Another report of a game may exchange its teams and does not make them one.
LEMMA ReportStep ==
  ASSUME Opponents, NEW e \in Events, IngestEvent(e), e \in DOMAIN events
  PROVE  Opponents'
<1>1. PICK report \in Reports(e) : events' = [events EXCEPT ![e] = report]
  BY DEF IngestEvent
<1>2. PICK row : row = [events[e] EXCEPT !.seen = now]
  OBVIOUS
<1>3. {"home", "away"} \subseteq DOMAIN row /\ row.home # row.away
  BY <1>2 DEF Opponents
<1>4. \/ report = row
      \/ \E t : report = [row EXCEPT !.start = t]
      \/ report = [row EXCEPT !.home = row.away, !.away = row.home]
      \/ report = [row EXCEPT !.postponed = ~row.postponed]
      \/ \E won : report = [row EXCEPT !.status = "final", !.won = won]
  BY <1>1, <1>2 DEF Reports
<1>5. {"home", "away"} \subseteq DOMAIN report /\ report.home # report.away
  <2>1. ASSUME NEW t, report = [row EXCEPT !.start = t]
        PROVE  {"home", "away"} \subseteq DOMAIN report /\ report.home # report.away
    BY <1>3, <2>1
  <2>2. CASE report = [row EXCEPT !.home = row.away, !.away = row.home]
    <3>1. DOMAIN report = DOMAIN row /\ report.home = row.away /\ report.away = row.home
      BY <1>3, <2>2
    <3> QED
      BY <1>3, <3>1
  <2>3. CASE report = [row EXCEPT !.postponed = ~row.postponed]
    BY <1>3, <2>3
  <2>4. ASSUME NEW won, report = [row EXCEPT !.status = "final", !.won = won]
        PROVE  {"home", "away"} \subseteq DOMAIN report /\ report.home # report.away
    BY <1>3, <2>4
  <2> QED
    BY <1>3, <1>4, <2>1, <2>2, <2>3, <2>4
<1> QED
  BY <1>1, <1>5 DEF Opponents

\* No row of a request that holds its locks is touched by the evidence.
LEMMA EvidenceKeeps ==
  ASSUME IInv, LInv, EvidenceStep, UNCHANGED <<tables, requests>>
  PROVE  LInv'
<1>1. UNCHANGED <<shadows, labels, requests>>
  BY DEF tables
<1>2. ASSUME NEW e \in Events, IngestEvent(e)
      PROVE  /\ Opponents' /\ UNCHANGED matches
             /\ \A f \in locked : f \in Events => events'[f] = events[f]
  BY <1>2, ReportStep DEF IInv, LInv, Tables, IngestEvent
<1>3. ASSUME NEW w \in Workers, InsertDecision(w)
      PROVE  UNCHANGED events /\ \A m \in locked : m \in Markets => matches'[m] = matches[m]
  BY <1>3 DEF IInv, Tables, InsertDecision
<1>4. \/ \E e \in Events : IngestEvent(e)
      \/ \E w \in Workers : InsertDecision(w)
      \/ UNCHANGED <<events, matches>>
  BY RunAsked, StatementFrame DEF EvidenceStep, RunProceeds, ReadsBundle, ProviderStep, IngestMarket, Tick,
     Judge, PersistForecast, PersistOpportunities
<1>5. Opponents'
  BY <1>2, <1>3, <1>4 DEF LInv, Opponents
<1>6. ASSUME NEW w \in Workers, Holding(w)
      PROVE  Backed(requests[w])'
  <2>1. Asked(requests[w]) /\ Secured(requests[w]) /\ Backed(requests[w])
    BY <1>6 DEF IInv, LInv, Requested, Holding
  <2>2. /\ requests[w].market \in locked /\ requests[w].market \in Markets
        /\ GameOf(requests[w]) \in locked /\ GameOf(requests[w]) \in Events
    BY <2>1 DEF Secured, Asked
  <2>3. matches'[requests[w].market] = matches[requests[w].market]
    BY <1>2, <1>3, <1>4, <2>2
  <2>4. events'[GameOf(requests[w])] = events[GameOf(requests[w])]
    BY <1>2, <1>3, <1>4, <2>2
  <2> QED
    BY <1>1, <2>1, <2>3, <2>4 DEF Backed, GameOf
<1>7. \A w \in Workers : Holding(w)' = Holding(w)
  BY <1>1 DEF Holding
<1> QED
  BY <1>1, <1>5, <1>6, <1>7 DEF LInv, OfSnapshots, LabelsScoreThePlayedGame

\* Neither games nor matches change in a step of a request.
LEMMA RequestKeeps ==
  ASSUME IInv, LInv, NEW w \in Workers, NEW request, requests' = [requests EXCEPT ![w] = request],
         UNCHANGED <<events, matches, labels>>, Continues(shadows, shadows'),
         \A i \in Added(shadows) : Ahead(shadows'[i]),
         request # Idle /\ request.stage # "asked" => Backed(request)
  PROVE  LInv'
<1>1. \A v \in Workers : requests'[v] = IF v = w THEN request ELSE requests[v]
  BY DEF IInv, Requested
<1>2. Opponents'
  BY DEF LInv, Opponents
<1>3. ASSUME NEW v \in Workers, Holding(v)'
      PROVE  Backed(requests[v])'
  <2>1. PICK r : r = requests'[v]
    OBVIOUS
  <2>2. Backed(r)
    BY <1>1, <1>3, <2>1 DEF LInv, Holding
  <2> QED
    BY <2>1, <2>2 DEF Backed, GameOf
<1>4. ASSUME NEW i \in DOMAIN shadows'
      PROVE  Ahead(shadows'[i])
  <2>1. CASE i \in DOMAIN shadows
    BY <2>1 DEF LInv, Continues
  <2> QED
    BY <2>1 DEF Added
<1>5. OfSnapshots' /\ LabelsScoreThePlayedGame'
  BY DEF LInv, OfSnapshots, LabelsScoreThePlayedGame, Continues
<1> QED
  BY <1>2, <1>3, <1>4, <1>5 DEF LInv, Ahead

LEMMA RequestsKeep ==
  ASSUME IInv, LInv, NEW w \in Workers, RequestBegins(w) \/ RequestProceeds(w)
  PROVE  LInv'
<1>1. ASSUME UNCHANGED shadows
      PROVE  Continues(shadows, shadows') /\ Added(shadows) = {}
  BY <1>1 DEF Continues, Added
<1>2. CASE RequestBegins(w)
  <2>1. /\ UNCHANGED <<events, matches, labels>> /\ UNCHANGED shadows
        /\ \E kind, m, i, key, subject, side, cap :
             requests' = [requests EXCEPT ![w] = Request(kind, m, i, key, subject, side, cap)]
    BY <1>2 DEF RequestBegins, BeginShadow, BeginPayout, BeginComparison, BeginPreflight, Ask, tables
  <2>2. PICK request : requests' = [requests EXCEPT ![w] = request] /\ request.stage = "asked"
    <3>1. PICK kind, m, i, key, subject, side, cap :
            requests' = [requests EXCEPT ![w] = Request(kind, m, i, key, subject, side, cap)]
      BY <2>1
    <3>2. Request(kind, m, i, key, subject, side, cap).stage = "asked"
      BY DEF Request
    <3> QED
      BY <3>1, <3>2
  <2> QED
    BY <1>1, <2>1, <2>2, RequestKeeps
<1>3. CASE Validate(w)
  <2>1. PICK r : r = requests[w]
    OBVIOUS
  <2>2. PICK request : request = [r EXCEPT !.stage = "validated"]
    OBVIOUS
  <2>3. /\ UNCHANGED <<events, matches, labels>> /\ UNCHANGED shadows
        /\ requests' = [requests EXCEPT ![w] = request] /\ r # Idle /\ Eligible(r.market, r.match, now)
    BY <1>3, <2>1, <2>2 DEF Validate, tables
  <2>4. Asked(r)
    BY <2>1, <2>3 DEF IInv, Requested
  <2>5. request.stage = "validated" /\ request.market = r.market /\ request.match = r.match
    BY <2>2, <2>4 DEF Asked, Fields
  <2>6. Backed(request)
    BY <2>3, <2>5 DEF Eligible, Backed, GameOf
  <2> QED
    BY <1>1, <2>3, <2>6, RequestKeeps
<1>4. CASE Capture(w)
  <2>1. PICK r : r = requests[w]
    OBVIOUS
  <2>2. PICK shadow : shadow = Shadow(r.market, r.match, now)
    OBVIOUS
  <2>3. PICK request : request = [r EXCEPT !.stage = "captured", !.shadow = shadow]
    OBVIOUS
  <2>4. /\ UNCHANGED <<events, matches, labels>> /\ UNCHANGED shadows
        /\ r # Idle /\ r.stage = "validated" /\ events[GameOf(r)].start > now
    BY <1>4, <2>1 DEF Capture, tables, evidence, GameOf
  <2>5. requests' = [requests EXCEPT ![w] = request]
    BY <1>4, <2>1, <2>2, <2>3 DEF Capture
  <2>6. Asked(r) /\ Secured(r) /\ Backed(r)
    BY <2>1, <2>4 DEF IInv, LInv, Requested, Holding
  <2>7. /\ shadow.market = r.market /\ shadow.at = now /\ shadow.start = events[GameOf(r)].start
        /\ shadow.home = events[GameOf(r)].home /\ shadow.away = events[GameOf(r)].away
    BY <2>2 DEF Shadow, GameOf
  <2>8. /\ request.shadow = shadow /\ request.market = r.market /\ request.match = r.match
    BY <2>3, <2>6 DEF Asked, Fields
  <2>9. shadow.at < shadow.start
    <3>1. \A a, b : a > b <=> b < a
      OBVIOUS
    <3> QED
      BY <2>4, <2>7, <3>1
  <2>10. Ahead(shadow)
    BY <2>6, <2>7, <2>9 DEF Ahead, Backed, Secured, LInv, Opponents
  <2>11. Backed(request)
    BY <2>6, <2>8, <2>10 DEF Backed, GameOf
  <2> QED
    BY <1>1, <2>4, <2>5, <2>11, RequestKeeps
<1>5. ASSUME NEW kind, Committing(w, kind)
      PROVE  LInv'
  <2>1. PICK r : r = requests[w]
    OBVIOUS
  <2>2. /\ r # Idle /\ r.stage = "captured" /\ shadows' = AppendNew(shadows, r.shadow, ShadowKey)
        /\ UNCHANGED <<events, matches, labels>> /\ requests' = [requests EXCEPT ![w] = Idle]
    BY <1>5, <2>1 DEF Committing
  <2>3. Ahead(r.shadow)
    BY <2>1, <2>2 DEF LInv, Holding, Backed
  <2>4. Continues(shadows, shadows') /\ \A i \in Added(shadows) : Ahead(shadows'[i])
    <3>1. CASE shadows' = shadows
      BY <1>1, <3>1
    <3>2. CASE shadows' = Append(shadows, r.shadow)
      <4>1. Sequence(shadows)
        BY DEF IInv, Tables
      <4>2. /\ Continues(shadows, shadows') /\ Added(shadows) = {Len(shadows) + 1}
            /\ shadows'[Len(shadows) + 1] = r.shadow
        BY <3>2, <4>1, Grown DEF Added
      <4> QED
        BY <2>3, <4>2
    <3> QED
      BY <2>2, <3>1, <3>2 DEF AppendNew
  <2> QED
    BY <2>2, <2>4, RequestKeeps
<1>6. CASE Rollback(w)
  <2>1. UNCHANGED <<events, matches, labels>> /\ UNCHANGED shadows /\ requests' = [requests EXCEPT ![w] = Idle]
    BY <1>6 DEF Rollback, tables
  <2> QED
    BY <1>1, <2>1, RequestKeeps
<1> QED
  BY <1>2, <1>3, <1>4, <1>5, <1>6 DEF RequestProceeds, CommitShadow, CommitPayout, CommitComparison, CommitPreflight

\* The label of a game that was played as its snapshot has it.
LEMMA LabelStep ==
  ASSUME IInv, LInv, NEW w \in Workers, NEW s \in 1..Len(shadows), Label(w, s)
  PROVE  LInv'
<1>1. PICK shadow : shadow = shadows[s]
  OBVIOUS
<1>2. PICK game : game = events[shadow.event]
  OBVIOUS
<1>3. PICK label : label = LabelOf(s, game)
  OBVIOUS
<1>4. /\ UNCHANGED <<events, matches, shadows, requests>> /\ labels' = labels \cup {label}
      /\ game.home = shadow.home /\ game.away = shadow.away
  BY <1>1, <1>2, <1>3 DEF Label, Scorable
<1>5. s \in DOMAIN shadows /\ Ahead(shadow)
  BY <1>1, SequenceDomain DEF IInv, LInv, Tables
<1>6. /\ label.snapshot = s
      /\ label.winner = CASE game.won = "home" -> {game.home} [] game.won = "away" -> {game.away} [] OTHER -> {}
      /\ label.yes = IF YesTeam[shadow.market] = shadow.home THEN HomePayout(game.won) ELSE 100 - HomePayout(game.won)
  BY <1>1, <1>3 DEF LabelOf
<1>7. label.yes = CASE label.winner = {} -> 50 [] YesTeam[shadow.market] \in label.winner -> 100 [] OTHER -> 0
  <2>1. shadow.home # shadow.away /\ YesTeam[shadow.market] \in {shadow.home, shadow.away}
    BY <1>5 DEF Ahead
  <2>2. CASE game.won = "home"
    <3>1. label.winner = {shadow.home} /\ HomePayout(game.won) = 100
      BY <1>4, <1>6, <2>2 DEF HomePayout
    <3>2. label.yes = IF YesTeam[shadow.market] = shadow.home THEN 100 ELSE 0
      BY <1>6, <3>1
    <3>3. label.winner # {} /\ (YesTeam[shadow.market] \in label.winner <=> YesTeam[shadow.market] = shadow.home)
      BY <3>1
    <3> QED
      BY <3>2, <3>3
  <2>3. CASE game.won = "away"
    <3>1. label.winner = {shadow.away} /\ HomePayout(game.won) = 0
      BY <1>4, <1>6, <2>3 DEF HomePayout
    <3>2. label.yes = IF YesTeam[shadow.market] = shadow.home THEN 0 ELSE 100
      BY <1>6, <3>1
    <3>3. label.winner # {} /\ (YesTeam[shadow.market] \in label.winner <=> YesTeam[shadow.market] # shadow.home)
      BY <2>1, <3>1
    <3> QED
      BY <3>2, <3>3
  <2>4. CASE game.won # "home" /\ game.won # "away"
    <3>1. label.winner = {} /\ HomePayout(game.won) = 50
      BY <1>6, <2>4 DEF HomePayout
    <3>2. label.yes = 50
      BY <1>6, <3>1
    <3> QED
      BY <3>1, <3>2
  <2> QED
    BY <2>2, <2>3, <2>4
<1>8. LabelsScoreThePlayedGame'
  BY <1>1, <1>4, <1>5, <1>6, <1>7 DEF LInv, LabelsScoreThePlayedGame, Ahead
<1>9. OfSnapshots'
  BY <1>4, <1>5, <1>6 DEF LInv, OfSnapshots
<1> QED
  BY <1>4, <1>8, <1>9 DEF LInv, Opponents, Holding, Backed, GameOf

LEMMA LabelsInitially == ResearchInit => LInv
<1> SUFFICES ASSUME ResearchInit PROVE LInv
  OBVIOUS
<1>1. DOMAIN shadows = {} /\ labels = {}
  BY DEF ResearchInit
<1>2. \A w \in Workers : requests[w] = Idle
  BY DEF ResearchInit
<1>3. Opponents
  BY EvidenceAssumption DEF ResearchInit, EvidenceInit, Opponents
<1> QED
  BY <1>1, <1>2, <1>3 DEF LInv, OfSnapshots, LabelsScoreThePlayedGame, Holding

LEMMA LabelsStep ==
  ASSUME IInv, LInv, [ResearchNext]_researchVars
  PROVE  LInv'
<1>1. ASSUME \/ /\ \E purpose \in {"operational", "replay"} : Evaluate(purpose)
                /\ UNCHANGED <<shadows, payouts, comparisons, preflights, labels, requests>>
             \/ UNCHANGED researchVars
      PROVE  LInv'
  <2>1. UNCHANGED <<events, matches, shadows, labels, requests>>
    BY <1>1 DEF Evaluate, researchVars, evidence
  <2> QED
    BY <2>1 DEF LInv, Opponents, Holding, Backed, GameOf, OfSnapshots, LabelsScoreThePlayedGame
<1> QED
  BY <1>1, EvidenceKeeps, RequestsKeep, LabelStep DEF ResearchNext

\* A label pays the YES side of its snapshot by who won, and the snapshot was
\* taken before its game began, whatever was moved or corrected in between.
THEOREM LabelTheorem == ResearchSpec => []LabelsScoreThePlayedGame
<1>1. ResearchInit => IInv /\ LInv
  BY Initially, LabelsInitially
<1>2. IInv /\ LInv /\ [ResearchNext]_researchVars => IInv' /\ LInv'
  BY Step, LabelsStep
<1>3. LInv => LabelsScoreThePlayedGame
  BY DEF LInv
<1> QED
  BY <1>1, <1>2, <1>3, PTL DEF ResearchSpec

-----------------------------------------------------------------------------
\* Forecasts. What a forecast has learned from was played before its game: the
\* start of a game that is over stays, and one that is to come is moved into the
\* future only, however long the run waits between its target and its history.

Games ==
  /\ now \in Times /\ events \in [Events -> EventRows]
  /\ \A e \in Events : /\ events[e].home # events[e].away
                       /\ events[e].status = "final" <=> events[e].won # "none"

\* What becomes of a game in a step.
Follows(e) ==
  /\ events[e].status = "final" => events'[e].status = "final"
  /\ \/ events'[e].start = events[e].start
     \/ events[e].status = "scheduled" /\ events'[e].start > now

LEMMA TimesAreNatural == Times \subseteq Nat /\ Starts \subseteq Times /\ \A t \in Times : t >= 1
BY EvidenceAssumption DEF Times

LEMMA ReportOfGame ==
  ASSUME Games, NEW e \in Events, NEW report \in Reports(e)
  PROVE  /\ report \in EventRows /\ report.home # report.away
         /\ report.status = "final" <=> report.won # "none"
         /\ events[e].status = "final" => report.status = "final"
         /\ \/ report.start = events[e].start
            \/ events[e].status = "scheduled" /\ report.start > now
<1>1. PICK old, row : old = events[e] /\ row = [old EXCEPT !.seen = now]
  OBVIOUS
<1>2. old \in EventRows /\ old.home # old.away /\ (old.status = "final" <=> old.won # "none")
  BY <1>1 DEF Games
<1>3. /\ row \in EventRows /\ row.home = old.home /\ row.away = old.away /\ row.status = old.status
      /\ row.won = old.won /\ row.start = old.start
  BY <1>1, <1>2 DEF Games, EventRows
<1>4. \/ report = row
      \/ \E t \in Starts : row.status = "scheduled" /\ t > now /\ report = [row EXCEPT !.start = t]
      \/ report = [row EXCEPT !.home = row.away, !.away = row.home]
      \/ report = [row EXCEPT !.postponed = ~row.postponed]
      \/ \E won \in Outcomes : report = [row EXCEPT !.status = "final", !.won = won]
  BY <1>1 DEF Reports
<1> DEFINE Fits ==
      /\ report \in EventRows /\ report.home # report.away
      /\ report.status = "final" <=> report.won # "none"
      /\ old.status = "final" => report.status = "final"
      /\ \/ report.start = old.start
         \/ old.status = "scheduled" /\ report.start > now
<1> SUFFICES Fits
  BY <1>1
<1>5. CASE report = row
  BY <1>2, <1>3, <1>5
<1>6. ASSUME NEW t \in Starts, row.status = "scheduled", t > now, report = [row EXCEPT !.start = t]
      PROVE  Fits
  <2>1. /\ report \in EventRows /\ report.home = row.home /\ report.away = row.away
        /\ report.status = row.status /\ report.won = row.won /\ report.start = t
    BY <1>3, <1>6 DEF EventRows
  <2> QED
    BY <1>2, <1>3, <1>6, <2>1
<1>7. CASE report = [row EXCEPT !.home = row.away, !.away = row.home]
  <2>1. /\ report \in EventRows /\ report.home = row.away /\ report.away = row.home
        /\ report.status = row.status /\ report.won = row.won /\ report.start = row.start
    BY <1>3, <1>7 DEF EventRows
  <2> QED
    BY <1>2, <1>3, <2>1
<1>8. CASE report = [row EXCEPT !.postponed = ~row.postponed]
  <2>1. /\ report \in EventRows /\ report.home = row.home /\ report.away = row.away
        /\ report.status = row.status /\ report.won = row.won /\ report.start = row.start
    BY <1>3, <1>8 DEF EventRows
  <2> QED
    BY <1>2, <1>3, <2>1
<1>9. ASSUME NEW won \in Outcomes, report = [row EXCEPT !.status = "final", !.won = won]
      PROVE  Fits
  <2>1. /\ report \in EventRows /\ report.home = row.home /\ report.away = row.away
        /\ report.status = "final" /\ report.won = won /\ won # "none" /\ report.start = row.start
    BY <1>3, <1>9, EvidenceAssumption DEF EventRows
  <2> QED
    BY <1>2, <1>3, <2>1
<1> HIDE DEF Fits
<1> QED
  BY <1>4, <1>5, <1>6, <1>7, <1>8, <1>9

LEMMA GamesInitially == ResearchInit => Games
<1> SUFFICES ASSUME ResearchInit PROVE Games
  OBVIOUS
<1>1. now = 1 /\ 1 \in Times
  BY EvidenceAssumption DEF ResearchInit, EvidenceInit, Times
<1>2. ASSUME NEW e \in Events
      PROVE  /\ events[e] \in EventRows /\ events[e].home # events[e].away
             /\ events[e].status = "scheduled" /\ events[e].won = "none"
  <2>1. PICK game : game = Schedule[e]
    OBVIOUS
  <2>2. game.start \in Starts /\ game.home \in Teams /\ game.away \in Teams /\ game.home # game.away
    BY <2>1, EvidenceAssumption
  <2>3. events[e] = [start |-> game.start, home |-> game.home, away |-> game.away,
                     status |-> "scheduled", postponed |-> FALSE, won |-> "none", seen |-> 1]
    BY <2>1 DEF ResearchInit, EvidenceInit
  <2> QED
    BY <1>1, <2>2, <2>3 DEF EventRows
<1>3. DOMAIN events = Events /\ events = [e \in Events |-> events[e]]
  BY DEF ResearchInit, EvidenceInit
<1>4. events \in [Events -> EventRows]
  BY <1>2, <1>3
<1> QED
  BY <1>1, <1>2, <1>4 DEF Games

LEMMA GamesStep ==
  ASSUME Games, [ResearchNext]_researchVars
  PROVE  /\ Games' /\ now <= now'
         /\ \A e \in Events : Follows(e)
<1>1. now \in Nat /\ Horizon \in Nat
  BY TimesAreNatural, EvidenceAssumption DEF Games
<1>2. CASE \E e \in Events : IngestEvent(e)
  <2>1. PICK e \in Events : IngestEvent(e)
    BY <1>2
  <2>2. PICK report \in Reports(e) : events' = [events EXCEPT ![e] = report]
    BY <2>1 DEF IngestEvent
  <2>3. now' = now
    BY <2>1 DEF IngestEvent
  <2>4. \A f \in Events : events'[f] = IF f = e THEN report ELSE events[f]
    BY <2>2 DEF Games
  <2>5. /\ report \in EventRows /\ report.home # report.away
        /\ report.status = "final" <=> report.won # "none"
        /\ events[e].status = "final" => report.status = "final"
        /\ \/ report.start = events[e].start
           \/ events[e].status = "scheduled" /\ report.start > now
    BY ReportOfGame
  <2>6. Games'
    BY <2>2, <2>3, <2>4, <2>5 DEF Games
  <2> QED
    BY <1>1, <2>3, <2>4, <2>5, <2>6 DEF Follows
<1>3. CASE Tick
  <2>1. now < Horizon /\ now' = now + 1 /\ UNCHANGED events
    BY <1>3 DEF Tick
  <2>2. now' \in Times /\ now <= now'
    BY <1>1, <2>1 DEF Times
  <2> QED
    BY <2>1, <2>2 DEF Games, Follows
<1>4. CASE UNCHANGED <<now, events>>
  BY <1>1, <1>4 DEF Games, Follows
<1>5. \/ \E e \in Events : IngestEvent(e)
      \/ Tick
      \/ UNCHANGED <<now, events>>
  <2>1. CASE EvidenceStep
    BY <2>1, RunAsked, StatementFrame DEF EvidenceStep, RunProceeds, ReadsBundle, ProviderStep, IngestMarket,
       Judge, InsertDecision, PersistForecast, PersistOpportunities
  <2>2. ASSUME NEW w \in Workers, RequestBegins(w)
        PROVE  UNCHANGED <<now, events>>
    BY <2>2 DEF RequestBegins, BeginShadow, BeginPayout, BeginComparison, BeginPreflight, Ask
  <2>3. ASSUME NEW w \in Workers, RequestProceeds(w)
        PROVE  UNCHANGED <<now, events>>
    BY <2>3 DEF RequestProceeds, Validate, Capture, CommitShadow, CommitPayout, CommitComparison, CommitPreflight,
       Committing, Rollback, evidence
  <2>4. CASE \/ \E w \in Workers, s \in 1..Len(shadows) : Label(w, s)
             \/ \E purpose \in {"operational", "replay"} : Evaluate(purpose)
             \/ UNCHANGED researchVars
    BY <2>4 DEF Label, Evaluate, researchVars, evidence
  <2> QED
    BY <2>1, <2>2, <2>3, <2>4 DEF ResearchNext
<1> QED
  BY <1>2, <1>3, <1>4, <1>5

\* Results in order are results of the games that were played.
LEMMA InOrderResults ==
  ASSUME Games, NEW played \in SUBSET Events, NEW order, order = InOrder(played)
  PROVE  /\ DOMAIN order = 1..Cardinality(played) /\ Cardinality(played) \in Nat
         /\ \A k \in DOMAIN order : order[k].game \in played /\ order[k] = Result(order[k].game)
<1>1. IsFiniteSet(played) /\ Cardinality(played) \in Nat
  BY EvidenceAssumption, FS_Subset, FS_CardinalityType
<1>2. PICK R : R = {p \in played \X played : Before(p[1], p[2])}
  OBVIOUS
<1>3. \A d, e \in played : <<d, e>> \in R <=> Before(d, e)
  BY <1>2
<1>4. \A e \in played : e \in Nat /\ events[e].start \in Nat
  BY TimesAreNatural, EvidenceAssumption DEF Games, EventRows
<1>5. /\ \A x \in played : <<x, x>> \notin R
      /\ \A x, y, z \in played : <<x, y>> \in R /\ <<y, z>> \in R => <<x, z>> \in R
      /\ \A x, y \in played : x = y \/ <<x, y>> \in R \/ <<y, x>> \in R
  BY <1>3, <1>4 DEF Before
<1>6. \E f \in [1..Cardinality(played) -> played] :
        \A i, j \in 1..Cardinality(played) : i < j => <<f[i], f[j]>> \in R
  BY <1>1, <1>5, SortedEnumeration
<1>7. PICK sorted : sorted = CHOOSE f \in [1..Cardinality(played) -> played] :
                               \A i, j \in DOMAIN f : i < j => Before(f[i], f[j])
  OBVIOUS
<1>8. sorted \in [1..Cardinality(played) -> played]
  <2>1. PICK f \in [1..Cardinality(played) -> played] :
          \A i, j \in 1..Cardinality(played) : i < j => <<f[i], f[j]>> \in R
    BY <1>6
  <2>2. \A i, j \in DOMAIN f : i < j => Before(f[i], f[j])
    BY <1>3, <2>1
  <2> QED
    BY <1>7, <2>2
<1>9. order = [i \in DOMAIN sorted |-> Result(sorted[i])]
  BY <1>7 DEF InOrder
<1>10. DOMAIN order = 1..Cardinality(played)
  BY <1>8, <1>9
<1>11. ASSUME NEW k \in DOMAIN order
       PROVE  order[k].game \in played /\ order[k] = Result(order[k].game)
  <2>1. order[k] = Result(sorted[k]) /\ sorted[k] \in played
    BY <1>8, <1>9, <1>10, <1>11
  <2>2. order[k].game = sorted[k]
    BY <2>1 DEF Result
  <2> QED
    BY <2>1, <2>2
<1> QED
  BY <1>1, <1>10, <1>11

\* What a run has in hand when it has its time.
Aimed(job) ==
  /\ job.event \in Events /\ job.at \in Times /\ job.at <= now
  /\ job.purpose \in {"operational", "replay"}

\* What it has in hand between its target and its history: an operational
\* one a game that was and is ahead of its clock, a replay one that is over.
Learns(job) ==
  /\ Aimed(job) /\ job.row \in EventRows
  /\ job.purpose = "operational" => job.at < job.row.start /\ job.at < events[job.event].start
  /\ job.purpose = "replay" =>
       events[job.event].status = "final" /\ events[job.event].start = job.row.start

LearnInv ==
  /\ IInv /\ Games /\ Sequence(forecasts)
  /\ \A w \in Workers : jobs[w].kind = "target" => Aimed(jobs[w])
  /\ \A w \in Workers : jobs[w].kind = "forecast" => Learns(jobs[w])
  /\ TrainsOnEarlierGames

\* What the games become does not take a run's target from it.
LEMMA AimsOn ==
  ASSUME Games, Games', now <= now', NEW job, Aimed(job)
  PROVE  Aimed(job)'
<1>1. PICK at : at = job.at
  OBVIOUS
<1>2. at \in Nat /\ now \in Nat /\ now' \in Nat /\ at <= now
  BY <1>1, TimesAreNatural DEF Aimed, Games
<1>3. at <= now'
  BY <1>2
<1> QED
  BY <1>1, <1>3 DEF Aimed

LEMMA LearnsOn ==
  ASSUME Games, Games', now <= now', \A e \in Events : Follows(e), NEW job, Learns(job)
  PROVE  Learns(job)'
<1>1. PICK e, at : e = job.event /\ at = job.at
  OBVIOUS
<1>2. e \in Events /\ at \in Nat /\ now \in Nat
  BY <1>1, TimesAreNatural DEF Learns, Aimed, Games
<1>3. events[e].start \in Nat /\ events'[e].start \in Nat /\ Follows(e) /\ at <= now
  BY <1>1, <1>2, TimesAreNatural DEF Games, EventRows, Learns, Aimed
<1>4. Aimed(job)'
  BY AimsOn DEF Learns
<1>5. job.purpose = "operational" => at < events'[e].start
  BY <1>1, <1>2, <1>3 DEF Learns, Follows
<1>6. job.purpose = "replay" => events'[e].status = "final" /\ events'[e].start = job.row.start
  BY <1>1, <1>3 DEF Learns, Follows
<1> QED
  BY <1>1, <1>4, <1>5, <1>6 DEF Learns

\* Only a forecast run takes a target or makes a forecast.
LEMMA JobsMove ==
  ASSUME [ResearchNext]_researchVars
  PROVE  \/ UNCHANGED <<jobs, forecasts>>
         \/ \E w \in Workers, purpose \in {"operational", "replay"}, e \in crew.targets :
              BeginForecast(w, purpose, e)
         \/ \E w \in Workers : ReadTarget(w)
         \/ \E w \in Workers : PersistForecast(w)
         \/ /\ UNCHANGED forecasts
            /\ \E w \in Workers : \E job : jobs' = [jobs EXCEPT ![w] = job] /\ job.kind \notin {"target", "forecast"}
<1> DEFINE Goal ==
      \/ UNCHANGED <<jobs, forecasts>>
      \/ \E w \in Workers, purpose \in {"operational", "replay"}, e \in crew.targets :
           BeginForecast(w, purpose, e)
      \/ \E w \in Workers : ReadTarget(w)
      \/ \E w \in Workers : PersistForecast(w)
      \/ /\ UNCHANGED forecasts
         /\ \E w \in Workers : \E job : jobs' = [jobs EXCEPT ![w] = job] /\ job.kind \notin {"target", "forecast"}
<1>1. ASSUME NEW w \in Workers, NEW job, jobs' = [jobs EXCEPT ![w] = job], job.kind \notin {"target", "forecast"},
             UNCHANGED forecasts
      PROVE  Goal
  BY <1>1
<1> HIDE DEF Goal
<1>2. ASSUME NEW w \in Workers, NEW m, NEW range, NEW named, BeginMatching(w, m, range, named)
      PROVE  Goal
  <2>1. PICK job : jobs' = [jobs EXCEPT ![w] = job] /\ job.kind = "match"
    BY <1>2, MarketAsked
  <2>2. UNCHANGED forecasts
    BY <1>2 DEF BeginMatching
  <2> QED
    BY <1>1, <2>1, <2>2
<1>3. ASSUME NEW w \in Workers, NEW m, BeginOpportunities(w, m)
      PROVE  Goal
  <2>1. PICK job : jobs' = [jobs EXCEPT ![w] = job] /\ job.kind = "clock"
    BY <1>3, ClockTaken
  <2>2. UNCHANGED forecasts
    BY <1>3 DEF BeginOpportunities
  <2> QED
    BY <1>1, <2>1, <2>2
<1>4. ASSUME NEW w \in Workers, Judge(w)
      PROVE  Goal
  <2>1. PICK decision : jobs' = [jobs EXCEPT ![w] = [kind |-> "judged", market |-> jobs[w].market, decision |-> decision]]
    BY <1>4 DEF Judge
  <2>2. PICK job : job = [kind |-> "judged", market |-> jobs[w].market, decision |-> decision]
    OBVIOUS
  <2>3. jobs' = [jobs EXCEPT ![w] = job] /\ job.kind \notin {"target", "forecast"} /\ UNCHANGED forecasts
    BY <1>4, <2>1, <2>2 DEF Judge
  <2> QED
    BY <1>1, <2>3
<1>5. ASSUME NEW w \in Workers, ReadsBundle(w)
      PROVE  Goal
  <2>1. UNCHANGED forecasts
    BY <1>5, StatementFrame
  <2>2. \E job : Reads(w, job) /\ job.kind \notin {"target", "forecast"}
    <3>1. Idle.kind = "idle"
      BY DEF Idle
    <3>2. ASSUME NEW job, Reads(w, job), job = Idle \/ job.kind \in {"market", "bundle", "quoted", "sources"}
          PROVE  \E j : Reads(w, j) /\ j.kind \notin {"target", "forecast"}
      BY <3>1, <3>2
    <3>3. CASE ReadMarket(w)
      BY <3>2, <3>3, MarketRead
    <3>4. CASE ReadMatch(w)
      BY <3>2, <3>4, MatchRead
    <3>5. CASE ReadPrice(w)
      BY <3>2, <3>5, PriceRead
    <3>6. CASE ReadGame(w)
      BY <3>2, <3>6, GameRead
    <3> QED
      BY <1>5, <3>3, <3>4, <3>5, <3>6 DEF ReadsBundle
  <2>3. PICK job : jobs' = [jobs EXCEPT ![w] = job] /\ job.kind \notin {"target", "forecast"}
    BY <2>2 DEF Reads
  <2> QED
    BY <1>1, <2>1, <2>3
<1>6. ASSUME NEW w \in Workers, InsertDecision(w) \/ PersistOpportunities(w)
      PROVE  Goal
  <2>1. jobs' = [jobs EXCEPT ![w] = Idle] /\ UNCHANGED forecasts
    BY <1>6 DEF InsertDecision, PersistOpportunities
  <2>2. Idle.kind \notin {"target", "forecast"}
    BY DEF Idle
  <2> QED
    BY <1>1, <2>1, <2>2
<1>7. CASE EvidenceStep
  <2>1. CASE ProviderStep \/ Tick
    BY <2>1 DEF ProviderStep, IngestEvent, IngestMarket, Tick, Goal
  <2>2. ASSUME NEW w \in Workers, RunBegins(w)
        PROVE  Goal
    <3>1. CASE \E purpose \in {"operational", "replay"}, e \in crew.targets : BeginForecast(w, purpose, e)
      BY <3>1 DEF Goal
    <3> QED
      BY <1>2, <1>3, <2>2, <3>1 DEF RunBegins
  <2>3. ASSUME NEW w \in Workers, RunProceeds(w)
        PROVE  Goal
    <3>1. CASE PersistForecast(w) \/ ReadTarget(w)
      BY <3>1 DEF Goal
    <3> QED
      BY <1>4, <1>5, <1>6, <2>3, <3>1 DEF RunProceeds, ReadsBundle
  <2>4. Goal
    BY <1>7, <2>1, <2>2, <2>3 DEF EvidenceStep, Goal
  <2> QED
    BY <2>4 DEF Goal
<1>8. CASE UNCHANGED <<jobs, forecasts>>
  BY <1>8
<1>9. EvidenceStep \/ UNCHANGED <<jobs, forecasts>>
  <2>1. ASSUME NEW w \in Workers, RequestBegins(w)
        PROVE  UNCHANGED <<jobs, forecasts>>
    BY <2>1 DEF RequestBegins, BeginShadow, BeginPayout, BeginComparison, BeginPreflight, Ask
  <2>2. ASSUME NEW w \in Workers, RequestProceeds(w)
        PROVE  UNCHANGED <<jobs, forecasts>>
    BY <2>2 DEF RequestProceeds, Validate, Capture, CommitShadow, CommitPayout, CommitComparison, CommitPreflight,
       Committing, Rollback, evidence
  <2>3. CASE \/ \E w \in Workers, s \in 1..Len(shadows) : Label(w, s)
             \/ \E purpose \in {"operational", "replay"} : Evaluate(purpose)
             \/ UNCHANGED researchVars
    BY <2>3 DEF Label, Evaluate, researchVars, evidence
  <2> QED
    BY <2>1, <2>2, <2>3 DEF ResearchNext
<1> QED
  BY <1>7, <1>8, <1>9

\* A run takes a game that it may forecast at its time.
LEMMA TargetLearns ==
  ASSUME Games, NEW old, Aimed(old), old.event \in Targets(old.purpose, old.at),
         NEW job, job.event = old.event, job.row = events[job.event], job.purpose = old.purpose, job.at = old.at
  PROVE  Learns(job)
<1>1. PICK e, at : e = old.event /\ at = old.at
  OBVIOUS
<1>2. Aimed(job) /\ e \in Events /\ events[e] \in EventRows /\ at \in Nat /\ events[e].start \in Nat
  BY <1>1, TimesAreNatural DEF Aimed, Games, EventRows
<1>3. CASE job.purpose = "operational"
  <2>1. events[e].start > at
    BY <1>1, <1>3 DEF Targets
  <2> QED
    BY <1>1, <1>2, <1>3, <2>1 DEF Learns
<1>4. CASE job.purpose = "replay"
  <2>1. events[e].won \in {"home", "away"}
    BY <1>1, <1>4 DEF Targets
  <2>2. events[e].status = "final"
    BY <1>2, <2>1 DEF Games
  <2> QED
    BY <1>1, <1>2, <1>4, <2>2 DEF Learns
<1> QED
  BY <1>2, <1>3, <1>4 DEF Aimed

\* The forecast it makes of that game has learned from games before it.
LEMMA ForecastLearns ==
  ASSUME Games, NEW job, Learns(job), NEW asOf,
         asOf = IF job.purpose = "operational" THEN job.at ELSE job.row.start,
         NEW row, row = Forecast(job, asOf), NEW k \in DOMAIN row.training
  PROVE  row.training[k].game # row.event /\ row.training[k].start < row.start
<1>1. PICK e, training : e = job.event /\ training = Training(asOf)
  OBVIOUS
<1>2. row.event = e /\ row.start = job.row.start /\ row.training = training
  BY <1>1 DEF Forecast
<1>3. e \in Events /\ events[e].start \in Nat /\ job.row.start \in Nat /\ job.at \in Nat
  BY <1>1, TimesAreNatural DEF Games, Learns, Aimed, EventRows
<1>4. asOf \in Nat /\ asOf <= job.row.start /\ asOf <= events[e].start
  <2>1. CASE job.purpose = "operational"
    BY <1>1, <1>3, <2>1 DEF Learns
  <2>2. CASE job.purpose = "replay"
    BY <1>1, <1>3, <2>2 DEF Learns
  <2> QED
    BY <2>1, <2>2 DEF Learns, Aimed
<1>5. PICK played : played = {f \in Played : events[f].start < asOf}
  OBVIOUS
<1>6. played \in SUBSET Events /\ training = InOrder(played)
  BY <1>1, <1>5 DEF Played, Training
<1>7. k \in DOMAIN training /\ training[k].game \in played /\ training[k] = Result(training[k].game)
  BY <1>2, <1>6, InOrderResults
<1>8. PICK g : g = training[k].game
  OBVIOUS
<1>9. g \in Events /\ events[g].start \in Nat /\ events[g].start < asOf /\ training[k].start = events[g].start
  <2>1. g \in Events /\ events[g].start < asOf
    BY <1>5, <1>6, <1>7, <1>8
  <2>2. events[g].start \in Nat
    BY <2>1, TimesAreNatural DEF Games, EventRows
  <2>3. training[k].start = events[g].start
    BY <1>7, <1>8 DEF Result
  <2> QED
    BY <2>1, <2>2, <2>3
<1>10. g # e /\ training[k].start < job.row.start
  BY <1>3, <1>4, <1>9
<1> QED
  BY <1>2, <1>8, <1>10

LEMMA ForecastsLearn ==
  ASSUME LearnInv, NEW w \in Workers, PersistForecast(w)
  PROVE  Sequence(forecasts)' /\ TrainsOnEarlierGames'
<1>1. PICK job : job = jobs[w]
  OBVIOUS
<1>2. PICK asOf : asOf = IF job.purpose = "operational" THEN job.at ELSE job.row.start
  OBVIOUS
<1>3. PICK row : row = Forecast(job, asOf)
  OBVIOUS
<1>4. forecasts' = AppendNew(forecasts, row, ForecastKey) /\ Learns(job)
  BY <1>1, <1>2, <1>3 DEF PersistForecast, LearnInv
<1>5. \A k \in DOMAIN row.training : row.training[k].game # row.event /\ row.training[k].start < row.start
  BY <1>2, <1>3, <1>4, ForecastLearns DEF LearnInv
<1>6. CASE forecasts' = forecasts
  BY <1>6 DEF LearnInv, TrainsOnEarlierGames
<1>7. CASE forecasts' = Append(forecasts, row)
  <2>1. /\ Sequence(forecasts')
        /\ DOMAIN forecasts' = DOMAIN forecasts \cup {Len(forecasts) + 1}
        /\ \A i \in DOMAIN forecasts : forecasts'[i] = forecasts[i]
        /\ forecasts'[Len(forecasts) + 1] = row
    BY <1>7, AppendSequence DEF LearnInv
  <2>2. ASSUME NEW i \in DOMAIN forecasts', NEW k \in DOMAIN forecasts'[i].training
        PROVE  /\ forecasts'[i].training[k].game # forecasts'[i].event
               /\ forecasts'[i].training[k].start < forecasts'[i].start
    <3>1. CASE i \in DOMAIN forecasts
      BY <2>1, <2>2, <3>1 DEF LearnInv, TrainsOnEarlierGames
    <3>2. CASE i = Len(forecasts) + 1
      BY <1>5, <2>1, <2>2, <3>2
    <3> QED
      BY <2>1, <3>1, <3>2
  <2>3. Sequence(forecasts)'
    BY <2>1 DEF Sequence
  <2> QED
    BY <2>2, <2>3 DEF TrainsOnEarlierGames
<1> QED
  BY <1>4, <1>6, <1>7 DEF AppendNew

LEMMA LearnInitially == ResearchInit => LearnInv
<1> SUFFICES ASSUME ResearchInit PROVE LearnInv
  OBVIOUS
<1>1. IInv /\ Games
  BY Initially, GamesInitially
<1>2. forecasts = <<>> /\ Sequence(<<>>) /\ TrainsOnEarlierGames
  BY DEF ResearchInit, EvidenceInit, Sequence, TrainsOnEarlierGames
<1>3. \A w \in Workers : jobs[w].kind = "idle"
  BY DEF ResearchInit, EvidenceInit, Idle
<1> QED
  BY <1>1, <1>2, <1>3 DEF LearnInv

LEMMA LearnStep ==
  ASSUME LearnInv, [ResearchNext]_researchVars
  PROVE  LearnInv'
<1>1. IInv' /\ Games' /\ now <= now' /\ \A e \in Events : Follows(e)
  BY Step, GamesStep DEF LearnInv
<1>2. DOMAIN jobs = Workers
  BY DEF LearnInv, IInv, Judged
<1> DEFINE InHand(job) == /\ job.kind = "target" => Aimed(job)
                          /\ job.kind = "forecast" => Learns(job)
           Learn == /\ \A w \in Workers : InHand(jobs'[w])
                    /\ Sequence(forecasts)' /\ TrainsOnEarlierGames'
<1>3. \A w \in Workers : InHand(jobs[w])
  BY DEF LearnInv
<1>4. Learn => LearnInv'
  <2> SUFFICES ASSUME Learn PROVE LearnInv'
    OBVIOUS
  <2>1. ASSUME NEW w \in Workers
        PROVE  /\ jobs'[w].kind = "target" => Aimed(jobs[w])'
               /\ jobs'[w].kind = "forecast" => Learns(jobs[w])'
    <3>1. PICK job : job = jobs'[w]
      OBVIOUS
    <3>2. InHand(job)
      BY <3>1
    <3>3. /\ job.kind = "target" => Aimed(job)'
          /\ job.kind = "forecast" => Learns(job)'
      BY <1>1, <3>2, AimsOn, LearnsOn DEF LearnInv
    <3> QED
      BY <3>1, <3>3 DEF Learns, Aimed
  <2> QED
    BY <1>1, <2>1 DEF LearnInv
<1>5. UNCHANGED forecasts => Sequence(forecasts)' /\ TrainsOnEarlierGames'
  BY DEF LearnInv, Sequence, TrainsOnEarlierGames
<1> HIDE DEF InHand
<1>6. ASSUME NEW w \in Workers, NEW job, jobs' = [jobs EXCEPT ![w] = job], InHand(job)
      PROVE  \A v \in Workers : InHand(jobs'[v])
  BY <1>2, <1>3, <1>6
<1>7. CASE UNCHANGED <<jobs, forecasts>>
  BY <1>3, <1>4, <1>5, <1>7
<1>8. ASSUME NEW w \in Workers, NEW purpose \in {"operational", "replay"}, NEW e \in crew.targets,
             BeginForecast(w, purpose, e)
      PROVE  Learn
  <2>1. PICK job : /\ jobs' = [jobs EXCEPT ![w] = job]
                   /\ job.kind = "target" /\ job.event = e /\ job.purpose = purpose /\ job.at = now
    BY <1>8, TargetAsked
  <2>2. e \in Events /\ now \in Nat /\ now \in Times
    BY EvidenceAssumption, TimesAreNatural DEF LearnInv, IInv, Tables, Games
  <2>3. Aimed(job)
    BY <2>1, <2>2 DEF Aimed
  <2>4. InHand(job)
    BY <2>1, <2>3 DEF InHand
  <2>5. UNCHANGED forecasts
    BY <1>8 DEF BeginForecast
  <2> QED
    BY <1>5, <1>6, <2>1, <2>4, <2>5
<1>9. ASSUME NEW w \in Workers, ReadTarget(w)
      PROVE  Learn
  <2>1. PICK old : old = jobs[w]
    OBVIOUS
  <2>2. old.kind = "target" /\ Aimed(old)
    BY <1>9, <2>1, TargetRead DEF LearnInv
  <2>3. PICK job : /\ Reads(w, job)
                   /\ \/ job = Idle
                      \/ /\ old.event \in Targets(old.purpose, old.at)
                         /\ job.kind = "forecast" /\ job.event = old.event /\ job.row = events[job.event]
                         /\ job.purpose = old.purpose /\ job.at = old.at
    BY <1>9, <2>1, TargetRead
  <2>4. jobs' = [jobs EXCEPT ![w] = job] /\ UNCHANGED forecasts
    BY <2>3 DEF Reads
  <2>5. InHand(job)
    <3>1. CASE job = Idle
      BY <3>1 DEF InHand, Idle
    <3>2. CASE job # Idle
      <4>1. Learns(job) /\ job.kind = "forecast"
        BY <2>2, <2>3, <3>2, TargetLearns DEF LearnInv
      <4> QED
        BY <4>1 DEF InHand
    <3> QED
      BY <3>1, <3>2
  <2> QED
    BY <1>5, <1>6, <2>4, <2>5
<1>10. ASSUME NEW w \in Workers, PersistForecast(w)
       PROVE  Learn
  <2>1. jobs' = [jobs EXCEPT ![w] = Idle]
    BY <1>10 DEF PersistForecast
  <2>2. InHand(Idle)
    BY DEF InHand, Idle
  <2> QED
    BY <1>6, <1>10, <2>1, <2>2, ForecastsLearn
<1>11. ASSUME NEW w \in Workers, NEW job, jobs' = [jobs EXCEPT ![w] = job],
              job.kind \notin {"target", "forecast"}, UNCHANGED forecasts
       PROVE  Learn
  <2>1. InHand(job)
    BY <1>11 DEF InHand
  <2> QED
    BY <1>5, <1>6, <1>11, <2>1
<1> HIDE DEF Learn
<1> QED
  BY <1>4, <1>7, <1>8, <1>9, <1>10, <1>11, JobsMove DEF Learn

\* A forecast learns only from games that started before its own, whatever the
\* provider reported between the target and the history of its run.
THEOREM TrainingTheorem == ResearchSpec => []TrainsOnEarlierGames
<1>1. ResearchInit => LearnInv
  BY LearnInitially
<1>2. LearnInv /\ [ResearchNext]_researchVars => LearnInv'
  BY LearnStep
<1>3. LearnInv => TrainsOnEarlierGames
  BY DEF LearnInv
<1> QED
  BY <1>1, <1>2, <1>3, PTL DEF ResearchSpec

-----------------------------------------------------------------------------
\* Opportunities. A run takes its time and reads in five statements, and what it
\* compares is of one game: it keeps the match it has read, matches and forecasts
\* are only ever appended, and the quote and the forecast are checked against its time.

Dated(row) == row.at \in Nat

BundleKinds == {"clock", "market", "bundle", "quoted", "sources"}

\* What a run has read before it compares.
ReadTogether(job) ==
  /\ job.market \in Markets
  /\ job.kind \in {"bundle", "quoted", "sources"} =>
       job.match \subseteq DOMAIN matches[job.market] /\ \A i, j \in job.match : i = j
  /\ job.kind = "sources" =>
       /\ DOMAIN job.games = {matches[job.market][i].event : i \in job.match} \cap Events
       /\ \A e \in DOMAIN job.games : job.games[e].home # job.games[e].away

OfItsEvidence(o) ==
  /\ o.market \in Markets /\ o.match \in DOMAIN matches[o.market] /\ o.forecast \in DOMAIN forecasts
  /\ LET match == matches[o.market][o.match]
         forecast == forecasts[o.forecast]
     IN  /\ match.event = o.event /\ forecast.event = o.event
         /\ o.team = YesTeam[o.market] <=> o.direction = "yes"
         /\ \/ o.team = forecast.home /\ o.chance = forecast.chance
            \/ o.team = forecast.away /\ o.chance = 100 - forecast.chance
         /\ forecast.at <= o.at /\ o.price <= o.at /\ o.at <= o.until

SourceInv ==
  /\ LearnInv
  /\ \A m \in Markets : \A i \in DOMAIN matches[m] : Dated(matches[m][i])
  /\ \A w \in Workers : jobs[w].kind = "judged" => Dated(jobs[w].decision)
  /\ \A w \in Workers : jobs[w].kind \in BundleKinds => ReadTogether(jobs[w])
  /\ \A o \in opportunities : OfItsEvidence(o)

\* The newest of dated rows is one row.
LEMMA NewestIsOne ==
  ASSUME SourceInv, NEW m \in Markets
  PROVE  /\ NewestMatch(m) \subseteq DOMAIN matches[m]
         /\ \A i, j \in NewestMatch(m) : i = j
<1>1. DOMAIN matches[m] \subseteq Nat
  BY SequenceDomain DEF SourceInv, LearnInv, IInv, Tables
<1>2. \A i \in NewestMatch(m) : i \in DOMAIN matches[m]
  BY DEF NewestMatch, Newest
<1>3. ASSUME NEW i \in NewestMatch(m), NEW j \in NewestMatch(m)
      PROVE  i = j
  <2>1. i \in Nat /\ j \in Nat /\ matches[m][i].at \in Nat /\ matches[m][j].at \in Nat
    BY <1>1, <1>2 DEF SourceInv, Dated
  <2>2. /\ matches[m][j].at < matches[m][i].at \/ (matches[m][j].at = matches[m][i].at /\ j <= i)
        /\ matches[m][i].at < matches[m][j].at \/ (matches[m][i].at = matches[m][j].at /\ i <= j)
    BY DEF NewestMatch, Newest
  <2> QED
    BY <2>1, <2>2
<1> QED
  BY <1>2, <1>3

\* What has been read, and what has been found, stays true of tables that grow.
LEMMA ReadingKeeps ==
  ASSUME \A m \in Markets : Continues(matches[m], matches'[m]), NEW job, ReadTogether(job)
  PROVE  ReadTogether(job)'
<1>1. PICK m : m = job.market
  OBVIOUS
<1>2. m \in Markets /\ Continues(matches[m], matches'[m])
  BY <1>1 DEF ReadTogether
<1>3. CASE job.kind \in {"bundle", "quoted", "sources"}
  <2>1. job.match \subseteq DOMAIN matches[m]
    BY <1>1, <1>3 DEF ReadTogether
  <2>2. \A i \in job.match : matches'[m][i] = matches[m][i] /\ i \in DOMAIN matches'[m]
    BY <1>2, <2>1 DEF Continues
  <2>3. {matches'[m][i].event : i \in job.match} = {matches[m][i].event : i \in job.match}
    BY <2>2
  <2> QED
    BY <1>1, <1>2, <2>2, <2>3 DEF ReadTogether
<1>4. CASE job.kind \notin {"bundle", "quoted", "sources"}
  BY <1>1, <1>2, <1>4 DEF ReadTogether
<1> QED
  BY <1>3, <1>4

LEMMA EvidenceStays ==
  ASSUME \A m \in Markets : Continues(matches[m], matches'[m]), Continues(forecasts, forecasts'),
         NEW o, OfItsEvidence(o)
  PROVE  OfItsEvidence(o)'
<1>1. PICK m, i, f : m = o.market /\ i = o.match /\ f = o.forecast
  OBVIOUS
<1>2. /\ m \in Markets /\ i \in DOMAIN matches[m] /\ Continues(matches[m], matches'[m])
      /\ f \in DOMAIN forecasts
  BY <1>1 DEF OfItsEvidence
<1>3. i \in DOMAIN matches'[m] /\ matches'[m][i] = matches[m][i] /\ f \in DOMAIN forecasts' /\ forecasts'[f] = forecasts[f]
  BY <1>2 DEF Continues
<1> QED
  BY <1>1, <1>2, <1>3 DEF OfItsEvidence

\* Sides of a bundle that is fit to be compared.
LEMMA SideOfItsEvidence ==
  ASSUME SourceInv, NEW job, ReadTogether(job), job.kind = "sources",
         NEW i \in job.match, NEW price, NEW e \in DOMAIN job.games, NEW f \in NewestForecast(e),
         Usable(job, matches[job.market][i], price, e, job.games[e], forecasts[f]),
         YesTeam[job.market] \in {job.games[e].home, job.games[e].away}, NEW side \in {"yes", "no"},
         NEW o, o = Opportunity(job, i, price, e, job.games[e], f, side), o.until >= job.at
  PROVE  OfItsEvidence(o)
<1>1. PICK m, game, match, forecast :
        m = job.market /\ game = job.games[e] /\ match = matches[m][i] /\ forecast = forecasts[f]
  OBVIOUS
<1>2. m \in Markets /\ i \in DOMAIN matches[m] /\ f \in DOMAIN forecasts /\ forecast.event = e
  BY <1>1 DEF ReadTogether, NewestForecast, Newest
<1>3. match.event = e
  <2>1. PICK j \in job.match : matches[m][j].event = e
    BY <1>1 DEF ReadTogether
  <2>2. i = j
    BY DEF ReadTogether
  <2> QED
    BY <1>1, <2>1, <2>2
<1>4. game.home # game.away /\ YesTeam[m] \in {game.home, game.away}
  BY <1>1 DEF ReadTogether
<1>5. forecast.at <= job.at /\ price.at <= job.at /\ forecast.home = game.home /\ forecast.away = game.away
  BY <1>1 DEF Usable
<1>6. PICK other : other = CHOOSE t \in {game.home, game.away} : t # YesTeam[m]
  OBVIOUS
<1>7. other \in {game.home, game.away} /\ other # YesTeam[m]
  BY <1>4, <1>6
<1>8. PICK team : team = IF side = "yes" THEN YesTeam[m] ELSE other
  OBVIOUS
<1>9. /\ o.market = m /\ o.match = i /\ o.event = e /\ o.forecast = f /\ o.at = job.at /\ o.price = price.at
      /\ o.direction = side /\ o.team = team
      /\ o.chance = IF team = game.home THEN forecast.chance ELSE 100 - forecast.chance
  BY <1>1, <1>6, <1>8 DEF Opportunity
<1>10. o.team = YesTeam[m] <=> o.direction = "yes"
  BY <1>7, <1>8, <1>9
<1>11. \/ o.team = forecast.home /\ o.chance = forecast.chance
       \/ o.team = forecast.away /\ o.chance = 100 - forecast.chance
  BY <1>4, <1>5, <1>7, <1>8, <1>9
<1>12. o.at <= o.until
  <2>1. \A a, b : a >= b <=> b <= a
    OBVIOUS
  <2> QED
    BY <1>9, <2>1
<1> QED
  BY <1>1, <1>2, <1>3, <1>4, <1>5, <1>9, <1>10, <1>11, <1>12 DEF OfItsEvidence

LEMMA ComparisonsOfTheirEvidence ==
  ASSUME SourceInv, NEW w \in Workers, PersistOpportunities(w)
  PROVE  \A o \in opportunities' : OfItsEvidence(o)
<1>1. PICK job : job = jobs[w]
  OBVIOUS
<1>2. job.kind = "sources" /\ ReadTogether(job)
  BY <1>1 DEF PersistOpportunities, SourceInv, BundleKinds
<1>3. PICK bundles : bundles =
        {b \in job.match \X job.price \X (DOMAIN job.games) \X (DOMAIN forecasts) \X {"yes", "no"} :
           /\ b[4] \in NewestForecast(b[3])
           /\ Usable(job, matches[job.market][b[1]], b[2], b[3], job.games[b[3]], forecasts[b[4]])
           /\ job.market \in Supported
           /\ YesTeam[job.market] \in {job.games[b[3]].home, job.games[b[3]].away}
           /\ b[2][b[5]] \in 1..99}
  OBVIOUS
<1>4. PICK found : found = {Opportunity(job, b[1], b[2], b[3], job.games[b[3]], b[4], b[5]) : b \in bundles}
  OBVIOUS
<1>5. opportunities' = opportunities \cup
        {o \in found : o.until >= job.at /\ \A p \in opportunities : OpportunityKey(p) # OpportunityKey(o)}
  BY <1>1, <1>3, <1>4 DEF PersistOpportunities
<1>6. ASSUME NEW o \in found, o.until >= job.at
      PROVE  OfItsEvidence(o)
  <2>1. PICK b \in bundles : o = Opportunity(job, b[1], b[2], b[3], job.games[b[3]], b[4], b[5])
    BY <1>4
  <2>2. PICK i, price, e, f, side : i = b[1] /\ price = b[2] /\ e = b[3] /\ f = b[4] /\ side = b[5]
    OBVIOUS
  <2>3. b \in job.match \X job.price \X (DOMAIN job.games) \X (DOMAIN forecasts) \X {"yes", "no"}
    BY <1>3
  <2>4. i \in job.match /\ e \in DOMAIN job.games /\ side \in {"yes", "no"}
    BY <2>2, <2>3
  <2>5. /\ f \in NewestForecast(e)
        /\ Usable(job, matches[job.market][i], price, e, job.games[e], forecasts[f])
        /\ YesTeam[job.market] \in {job.games[e].home, job.games[e].away}
    BY <1>3, <2>2
  <2>6. o = Opportunity(job, i, price, e, job.games[e], f, side)
    BY <2>1, <2>2
  <2> QED
    BY <1>2, <1>6, <2>4, <2>5, <2>6, SideOfItsEvidence
<1> QED
  BY <1>5, <1>6 DEF SourceInv

\* Where jobs, matches and opportunities move.
LEMMA EvidenceMoves ==
  ASSUME [ResearchNext]_researchVars
  PROVE  \/ UNCHANGED <<jobs, matches, forecasts, opportunities>>
         \/ \E w \in Workers :
              \/ Judge(w) \/ InsertDecision(w) \/ PersistForecast(w) \/ PersistOpportunities(w)
              \/ ReadsBundle(w) \/ \E m \in crew.markets : BeginOpportunities(w, m)
              \/ /\ UNCHANGED <<matches, forecasts, opportunities>>
                 /\ \E job : /\ jobs' = [jobs EXCEPT ![w] = job]
                             /\ job.kind \in {"idle", "match", "target", "forecast"}
<1> DEFINE Elsewhere(w) ==
             /\ UNCHANGED <<matches, forecasts, opportunities>>
             /\ \E job : jobs' = [jobs EXCEPT ![w] = job] /\ job.kind \in {"idle", "match", "target", "forecast"}
           Goal ==
             \/ UNCHANGED <<jobs, matches, forecasts, opportunities>>
             \/ \E w \in Workers :
                  \/ Judge(w) \/ InsertDecision(w) \/ PersistForecast(w) \/ PersistOpportunities(w)
                  \/ ReadsBundle(w) \/ \E m \in crew.markets : BeginOpportunities(w, m)
                  \/ Elsewhere(w)
<1>1. ASSUME NEW w \in Workers, ReadTarget(w)
      PROVE  Elsewhere(w)
  <2>1. UNCHANGED <<matches, forecasts, opportunities>>
    BY <1>1, StatementFrame
  <2>2. PICK job : Reads(w, job) /\ job.kind \in {"idle", "forecast"}
    BY <1>1, TargetRead DEF Idle
  <2> QED
    BY <2>1, <2>2 DEF Reads
<1>2. ASSUME NEW w \in Workers, NEW m, NEW range, NEW named, BeginMatching(w, m, range, named)
      PROVE  Elsewhere(w)
  <2>1. UNCHANGED <<matches, forecasts, opportunities>>
    BY <1>2 DEF BeginMatching
  <2> QED
    BY <1>2, <2>1, MarketAsked
<1>3. ASSUME NEW w \in Workers, NEW purpose, NEW e, BeginForecast(w, purpose, e)
      PROVE  Elsewhere(w)
  <2>1. UNCHANGED <<matches, forecasts, opportunities>>
    BY <1>3 DEF BeginForecast
  <2> QED
    BY <1>3, <2>1, TargetAsked
<1> HIDE DEF Elsewhere
<1>4. CASE EvidenceStep
  <2>1. ASSUME ProviderStep \/ Tick
        PROVE  Goal
    BY <2>1 DEF ProviderStep, IngestEvent, IngestMarket, Tick
  <2>2. ASSUME NEW w \in Workers, RunBegins(w)
        PROVE  Goal
    BY <1>2, <1>3, <2>2 DEF RunBegins
  <2>3. ASSUME NEW w \in Workers, RunProceeds(w)
        PROVE  Goal
    BY <1>1, <2>3 DEF RunProceeds, ReadsBundle
  <2> HIDE DEF Goal
  <2>4. Goal
    BY <1>4, <2>1, <2>2, <2>3 DEF EvidenceStep
  <2> QED
    BY <2>4 DEF Goal, Elsewhere
<1>5. CASE UNCHANGED <<jobs, matches, forecasts, opportunities>>
  BY <1>5
<1>6. EvidenceStep \/ UNCHANGED <<jobs, matches, forecasts, opportunities>>
  <2>1. ASSUME NEW w \in Workers, RequestBegins(w)
        PROVE  UNCHANGED <<jobs, matches, forecasts, opportunities>>
    BY <2>1 DEF RequestBegins, BeginShadow, BeginPayout, BeginComparison, BeginPreflight, Ask
  <2>2. ASSUME NEW w \in Workers, RequestProceeds(w)
        PROVE  UNCHANGED <<jobs, matches, forecasts, opportunities>>
    BY <2>2 DEF RequestProceeds, Validate, Capture, CommitShadow, CommitPayout, CommitComparison, CommitPreflight,
       Committing, Rollback, evidence
  <2>3. CASE \/ \E w \in Workers, s \in 1..Len(shadows) : Label(w, s)
             \/ \E purpose \in {"operational", "replay"} : Evaluate(purpose)
             \/ UNCHANGED researchVars
    BY <2>3 DEF Label, Evaluate, researchVars, evidence
  <2> QED
    BY <2>1, <2>2, <2>3 DEF ResearchNext
<1> QED
  BY <1>4, <1>5, <1>6

\* Tables of matches and forecasts grow.
LEMMA TablesGrow ==
  ASSUME LearnInv, [ResearchNext]_researchVars
  PROVE  Continues(forecasts, forecasts') /\ \A m \in Markets : Continues(matches[m], matches'[m])
<1>1. ASSUME NEW rows, Sequence(rows), NEW row, NEW key
      PROVE  Continues(rows, AppendNew(rows, row, key))
  BY <1>1, AppendSequence DEF AppendNew, Continues
<1>2. CASE \E w \in Workers : PersistForecast(w)
  <2>1. UNCHANGED matches /\ \E row : forecasts' = AppendNew(forecasts, row, ForecastKey)
    BY <1>2 DEF PersistForecast
  <2>2. Continues(forecasts, forecasts')
    BY <1>1, <2>1 DEF LearnInv
  <2> QED
    BY <2>1, <2>2 DEF Continues
<1>3. ASSUME NEW w \in Workers, InsertDecision(w)
      PROVE  Continues(forecasts, forecasts') /\ \A m \in Markets : Continues(matches[m], matches'[m])
  <2>1. PICK n, decision : n = jobs[w].market /\ decision = jobs[w].decision
    OBVIOUS
  <2>2. UNCHANGED forecasts /\ matches' = [matches EXCEPT ![n] = AppendNew(matches[n], decision, MatchKey)]
    BY <1>3, <2>1 DEF InsertDecision
  <2>3. ASSUME NEW m \in Markets
        PROVE  Continues(matches[m], matches'[m])
    <3>1. DOMAIN matches = Markets /\ Sequence(matches[m])
      BY DEF LearnInv, IInv, Tables
    <3>2. matches'[m] = IF m = n THEN AppendNew(matches[m], decision, MatchKey) ELSE matches[m]
      BY <2>2, <3>1
    <3>3. CASE m = n
      BY <1>1, <3>1, <3>2, <3>3
    <3>4. CASE m # n
      BY <3>2, <3>4 DEF Continues
    <3> QED
      BY <3>3, <3>4
  <2> QED
    BY <2>2, <2>3 DEF Continues
<1>4. UNCHANGED <<forecasts, matches>> => Continues(forecasts, forecasts') /\ \A m \in Markets : Continues(matches[m], matches'[m])
  BY DEF Continues
<1>5. UNCHANGED <<forecasts, matches>> \/ \E w \in Workers : InsertDecision(w) \/ PersistForecast(w)
  <2>1. ASSUME NEW w \in Workers,
               Judge(w) \/ ReadsBundle(w) \/ PersistOpportunities(w) \/ \E m \in crew.markets : BeginOpportunities(w, m)
        PROVE  UNCHANGED <<forecasts, matches>>
    BY <2>1, StatementFrame DEF Judge, PersistOpportunities, BeginOpportunities
  <2> QED
    BY <2>1, EvidenceMoves
<1> QED
  BY <1>2, <1>3, <1>4, <1>5

LEMMA SourceInitially == ResearchInit => SourceInv
<1> SUFFICES ASSUME ResearchInit PROVE SourceInv
  OBVIOUS
<1>1. LearnInv
  BY LearnInitially
<1>2. (\A m \in Markets : matches[m] = <<>>) /\ opportunities = {}
  BY DEF ResearchInit, EvidenceInit
<1>3. \A w \in Workers : jobs[w].kind = "idle"
  BY DEF ResearchInit, EvidenceInit, Idle
<1> QED
  BY <1>1, <1>2, <1>3 DEF SourceInv, BundleKinds

\* The decision that is inserted is dated.
LEMMA MatchesDated ==
  ASSUME SourceInv, NEW w \in Workers, InsertDecision(w), NEW m \in Markets, NEW i \in DOMAIN matches'[m]
  PROVE  Dated(matches'[m][i])
<1>1. PICK n, decision : n = jobs[w].market /\ decision = jobs[w].decision
  OBVIOUS
<1>2. /\ matches' = [matches EXCEPT ![n] = AppendNew(matches[n], decision, MatchKey)]
      /\ Dated(decision)
  BY <1>1 DEF InsertDecision, SourceInv
<1>3. DOMAIN matches = Markets /\ Sequence(matches[m]) /\ \A j \in DOMAIN matches[m] : Dated(matches[m][j])
  BY DEF SourceInv, LearnInv, IInv, Tables
<1>4. matches'[m] = matches[m] \/ matches'[m] = Append(matches[m], decision)
  BY <1>2, <1>3 DEF AppendNew
<1>5. CASE matches'[m] = Append(matches[m], decision)
  <2>1. /\ DOMAIN matches'[m] = DOMAIN matches[m] \cup {Len(matches[m]) + 1}
        /\ \A j \in DOMAIN matches[m] : matches'[m][j] = matches[m][j]
        /\ matches'[m][Len(matches[m]) + 1] = decision
    BY <1>3, <1>5, AppendSequence
  <2>2. matches'[m][i] = decision \/ (i \in DOMAIN matches[m] /\ matches'[m][i] = matches[m][i])
    BY <2>1
  <2> QED
    BY <1>2, <1>3, <2>2
<1> QED
  BY <1>3, <1>4, <1>5

\* What an opportunity run has read is together after every statement.
LEMMA BundleRead ==
  ASSUME SourceInv, NEW w \in Workers, ReadsBundle(w)
  PROVE  \E job : jobs' = [jobs EXCEPT ![w] = job] /\ (job = Idle \/ ReadTogether(job))
<1>1. PICK old : old = jobs[w]
  OBVIOUS
<1>2. CASE ReadMarket(w)
  <2>1. ReadTogether(old)
    BY <1>1, <1>2, MarketRead DEF SourceInv, BundleKinds
  <2>2. PICK job : Reads(w, job) /\ (job = Idle \/ (job.kind = "market" /\ job.market = old.market))
    BY <1>1, <1>2, MarketRead
  <2> QED
    BY <2>1, <2>2 DEF ReadTogether, Reads
<1>3. CASE ReadMatch(w)
  <2>1. ReadTogether(old)
    BY <1>1, <1>3, MatchRead DEF SourceInv, BundleKinds
  <2>2. PICK job : /\ Reads(w, job) /\ job.kind = "bundle" /\ job.market = old.market
                   /\ job.match = NewestMatch(job.market)
    BY <1>1, <1>3, MatchRead
  <2>3. PICK m : m = job.market
    OBVIOUS
  <2>4. m \in Markets
    BY <2>1, <2>2, <2>3 DEF ReadTogether
  <2>5. NewestMatch(m) \subseteq DOMAIN matches[m] /\ \A i, j \in NewestMatch(m) : i = j
    BY <2>4, NewestIsOne
  <2>6. ReadTogether(job)
    BY <2>2, <2>3, <2>4, <2>5 DEF ReadTogether
  <2> QED
    BY <2>2, <2>6 DEF Reads
<1>4. CASE ReadPrice(w)
  <2>1. old.kind = "bundle" /\ ReadTogether(old)
    BY <1>1, <1>4, PriceRead DEF SourceInv, BundleKinds
  <2>2. PICK job : Reads(w, job) /\ job.kind = "quoted" /\ job.market = old.market /\ job.match = old.match
    BY <1>1, <1>4, PriceRead
  <2>3. ReadTogether(job)
    <3>1. PICK m, match : m = old.market /\ match = old.match
      OBVIOUS
    <3>2. m \in Markets /\ match \subseteq DOMAIN matches[m] /\ \A i, j \in match : i = j
      BY <2>1, <3>1 DEF ReadTogether
    <3> QED
      BY <2>2, <3>1, <3>2 DEF ReadTogether
  <2> QED
    BY <2>2, <2>3 DEF Reads
<1>5. CASE ReadGame(w)
  <2>1. old.kind = "quoted" /\ ReadTogether(old)
    BY <1>1, <1>5, GameRead DEF SourceInv, BundleKinds
  <2>2. PICK job : /\ Reads(w, job) /\ job.kind = "sources" /\ job.market = old.market /\ job.match = old.match
                   /\ job.games = GamesOf(job.market, job.match)
    BY <1>1, <1>5, GameRead
  <2>3. PICK games : games = job.games
    OBVIOUS
  <2>4. /\ DOMAIN games = {matches[job.market][i].event : i \in job.match} \cap Events
        /\ \A e \in DOMAIN games : games[e].home # games[e].away
    <3>1. DOMAIN games = {matches[job.market][i].event : i \in job.match} \cap Events
      BY <2>2, <2>3 DEF GamesOf
    <3>2. \A e \in DOMAIN games : e \in Events /\ games[e] = events[e]
      BY <2>2, <2>3 DEF GamesOf
    <3>3. \A e \in Events : events[e].home # events[e].away
      BY DEF SourceInv, LearnInv, Games
    <3> QED
      BY <3>1, <3>2, <3>3
  <2>5. ReadTogether(job)
    BY <2>1, <2>2, <2>3, <2>4 DEF ReadTogether
  <2> QED
    BY <2>2, <2>5 DEF Reads
<1> QED
  BY <1>2, <1>3, <1>4, <1>5 DEF ReadsBundle

LEMMA SourceStep ==
  ASSUME SourceInv, [ResearchNext]_researchVars
  PROVE  SourceInv'
<1>1. LearnInv' /\ now <= now' /\ now \in Nat /\ now' \in Nat
  BY LearnStep, GamesStep, TimesAreNatural DEF SourceInv, LearnInv, Games
<1>2. Continues(forecasts, forecasts') /\ \A m \in Markets : Continues(matches[m], matches'[m])
  BY TablesGrow DEF SourceInv
<1>3. \A row : Dated(row) => Dated(row)'
  BY <1>1 DEF Dated
<1>4. \A o : OfItsEvidence(o) => OfItsEvidence(o)'
  BY <1>2, EvidenceStays
<1>5. \A job : ReadTogether(job) => ReadTogether(job)'
  BY <1>2, ReadingKeeps
<1>6. DOMAIN jobs = Workers
  BY DEF SourceInv, LearnInv, IInv, Judged
<1> DEFINE InHand(job) == /\ job.kind = "judged" => Dated(job.decision)
                          /\ job.kind \in BundleKinds => ReadTogether(job)
           Rows == \A m \in Markets : \A i \in DOMAIN matches'[m] : Dated(matches'[m][i])
           Found == \A o \in opportunities' : OfItsEvidence(o)
           Hands == \A w \in Workers : InHand(jobs'[w])
<1>7. Rows /\ Found /\ Hands => SourceInv'
  <2> SUFFICES ASSUME Rows, Found, Hands PROVE SourceInv'
    OBVIOUS
  <2>1. \A m \in Markets : \A i \in DOMAIN matches'[m] : Dated(matches[m][i])'
    BY <1>1 DEF Dated
  <2>2. \A o \in opportunities' : OfItsEvidence(o)'
    BY <1>4
  <2>3. ASSUME NEW w \in Workers
        PROVE  /\ jobs'[w].kind = "judged" => Dated(jobs[w].decision)'
               /\ jobs'[w].kind \in BundleKinds => ReadTogether(jobs[w])'
    <3>1. PICK job : job = jobs'[w]
      OBVIOUS
    <3>2. InHand(job)
      BY <2>3, <3>1
    <3>3. job.kind = "judged" => Dated(jobs[w].decision)'
      BY <1>1, <3>1, <3>2 DEF Dated
    <3>4. job.kind \in BundleKinds => ReadTogether(job)'
      BY <1>5, <3>2
    <3>5. ReadTogether(job)' => ReadTogether(jobs[w])'
      BY <3>1 DEF ReadTogether
    <3> QED
      BY <3>1, <3>3, <3>4, <3>5
  <2> QED
    BY <1>1, <2>1, <2>2, <2>3 DEF SourceInv
<1>8. ASSUME UNCHANGED matches
      PROVE  Rows
  BY <1>8 DEF SourceInv
<1>9. ASSUME UNCHANGED opportunities
      PROVE  Found
  BY <1>9 DEF SourceInv
<1>10. \A w \in Workers : InHand(jobs[w])
  BY DEF SourceInv
<1> HIDE DEF Rows, Found, InHand
<1>11. ASSUME NEW w \in Workers, NEW job, jobs' = [jobs EXCEPT ![w] = job], InHand(job)
       PROVE  Hands
  BY <1>6, <1>10, <1>11
<1>12. ASSUME UNCHANGED <<jobs, matches, forecasts, opportunities>>
       PROVE  Rows /\ Found /\ Hands
  BY <1>8, <1>9, <1>10, <1>12
<1>13. ASSUME NEW w \in Workers, Judge(w)
       PROVE  Rows /\ Found /\ Hands
  <2>1. PICK old, games, decision : /\ decision = Match(old.market, old.row, games, now)
                                   /\ jobs' = [jobs EXCEPT ![w] = [kind |-> "judged", market |-> old.market, decision |-> decision]]
    BY <1>13 DEF Judge
  <2>2. PICK job : job = [kind |-> "judged", market |-> old.market, decision |-> decision]
    OBVIOUS
  <2>3. decision.at = now
    BY <2>1 DEF Match
  <2>4. job.kind = "judged" /\ job.decision = decision
    BY <2>2
  <2>5. InHand(job)
    BY <1>1, <2>3, <2>4 DEF InHand, Dated, BundleKinds
  <2>6. UNCHANGED <<matches, opportunities>>
    BY <1>13 DEF Judge
  <2> QED
    BY <1>8, <1>9, <1>11, <2>1, <2>2, <2>5, <2>6
<1>14. ASSUME NEW w \in Workers, InsertDecision(w)
       PROVE  Rows /\ Found /\ Hands
  <2>1. jobs' = [jobs EXCEPT ![w] = Idle] /\ UNCHANGED opportunities
    BY <1>14 DEF InsertDecision
  <2>2. InHand(Idle)
    BY DEF Idle, InHand, BundleKinds
  <2>3. Rows
    BY <1>14, MatchesDated DEF Rows
  <2> QED
    BY <1>9, <1>11, <2>1, <2>2, <2>3
<1>15. ASSUME NEW w \in Workers, PersistForecast(w)
       PROVE  Rows /\ Found /\ Hands
  <2>1. jobs' = [jobs EXCEPT ![w] = Idle] /\ UNCHANGED <<matches, opportunities>>
    BY <1>15 DEF PersistForecast
  <2>2. InHand(Idle)
    BY DEF Idle, InHand, BundleKinds
  <2> QED
    BY <1>8, <1>9, <1>11, <2>1, <2>2
<1>16. ASSUME NEW w \in Workers, PersistOpportunities(w)
       PROVE  Rows /\ Found /\ Hands
  <2>1. jobs' = [jobs EXCEPT ![w] = Idle] /\ UNCHANGED matches
    BY <1>16 DEF PersistOpportunities
  <2>2. InHand(Idle)
    BY DEF Idle, InHand, BundleKinds
  <2>3. Found
    BY <1>16, ComparisonsOfTheirEvidence DEF Found
  <2> QED
    BY <1>8, <1>11, <2>1, <2>2, <2>3
<1>17. ASSUME NEW w \in Workers, ReadsBundle(w)
       PROVE  Rows /\ Found /\ Hands
  <2>1. UNCHANGED <<matches, opportunities>>
    BY <1>17, StatementFrame
  <2>2. PICK job : jobs' = [jobs EXCEPT ![w] = job] /\ (job = Idle \/ ReadTogether(job))
    BY <1>17, BundleRead
  <2>3. job.kind # "judged"
    <3>1. PICK j : Reads(w, j) /\ j.kind \in {"idle", "forecast", "market", "bundle", "quoted", "sources"}
      BY <1>17, StatementRead
    <3>2. jobs'[w] = job /\ jobs'[w] = j
      BY <1>6, <2>2, <3>1 DEF Reads
    <3> QED
      BY <3>1, <3>2
  <2>4. InHand(job)
    BY <2>2, <2>3 DEF InHand, Idle, BundleKinds
  <2> QED
    BY <1>8, <1>9, <1>11, <2>1, <2>2, <2>4
<1>18. ASSUME NEW w \in Workers, NEW m \in crew.markets, BeginOpportunities(w, m)
       PROVE  Rows /\ Found /\ Hands
  <2>1. UNCHANGED <<matches, opportunities>>
    BY <1>18 DEF BeginOpportunities
  <2>2. PICK job : jobs' = [jobs EXCEPT ![w] = job] /\ job.kind = "clock" /\ job.market = m
    BY <1>18, ClockTaken
  <2>3. m \in Markets
    BY EvidenceAssumption DEF SourceInv, LearnInv, IInv, Tables
  <2>4. InHand(job)
    BY <2>2, <2>3 DEF InHand, ReadTogether
  <2> QED
    BY <1>8, <1>9, <1>11, <2>1, <2>2, <2>4
<1>19. ASSUME NEW w \in Workers, NEW job, jobs' = [jobs EXCEPT ![w] = job],
              job.kind \in {"idle", "match", "target", "forecast"}, UNCHANGED <<matches, forecasts, opportunities>>
       PROVE  Rows /\ Found /\ Hands
  <2>1. InHand(job)
    BY <1>19 DEF InHand, BundleKinds
  <2> QED
    BY <1>8, <1>9, <1>11, <1>19, <2>1
<1> HIDE DEF Hands
<1> QED
  BY <1>7, <1>12, <1>13, <1>14, <1>15, <1>16, <1>17, <1>18, <1>19, EvidenceMoves

\* What an opportunity compares is of one game with one home team, and its quote and
\* its forecast are not from after its time, whatever was ingested between the
\* clock and the reads of its run. Its match may be.
THEOREM EvidenceTheorem == ResearchSpec => []OpportunityIsOfItsEvidence
<1>1. ResearchInit => SourceInv
  BY SourceInitially
<1>2. SourceInv /\ [ResearchNext]_researchVars => SourceInv'
  BY SourceStep
<1>3. SourceInv => OpportunityIsOfItsEvidence
  BY DEF SourceInv, OfItsEvidence, OpportunityIsOfItsEvidence
<1> QED
  BY <1>1, <1>2, <1>3, PTL DEF ResearchSpec

-----------------------------------------------------------------------------
\* Types. Every rating is a whole number and every chance a per cent if the
\* logistic curve gives per cents, which it does for every difference.

CurveIsAChance == \A d \in Int : HomeChance(d) \in 0..100

LEMMA LeastOfNaturals ==
  ASSUME NEW S, S \subseteq Nat, S # {}
  PROVE  Least(S) \in S /\ \A y \in S : Least(S) <= y
<1>1. PICK x \in S : \A y \in S : <<y, x>> \notin Less
  BY LessIsWellFounded, WFMin
<1>2. ASSUME NEW y \in S
      PROVE  x <= y
  <2>1. x \in Nat /\ y \in Nat /\ ~(y < x)
    BY <1>1, LessMember
  <2> QED
    BY <2>1
<1>3. Least(S) = CHOOSE z \in S : \A y \in S : z <= y
  BY DEF Least
<1> QED
  BY <1>2, <1>3

LEMMA GreatestExists ==
  ASSUME NEW n \in Nat, NEW S, S \subseteq 0..n, S # {}
  PROVE  \E x \in S : \A y \in S : y <= x
<1>1. PICK T : T = {n - x : x \in S}
  OBVIOUS
<1>2. T \subseteq Nat /\ T # {}
  <2>1. \A x \in S : x \in 0..n /\ n - x \in Nat
    OBVIOUS
  <2>2. \A t \in T : \E x \in S : t = n - x
    BY <1>1
  <2> QED
    BY <1>1, <2>1, <2>2
<1>3. PICK z \in T : \A y \in T : z <= y
  BY <1>2, LeastOfNaturals
<1>4. PICK x \in S : z = n - x
  BY <1>1, <1>3
<1>5. \A y \in S : n - x <= n - y
  BY <1>1, <1>3, <1>4
<1>6. \A y \in S : y \in Nat /\ x \in Nat
  OBVIOUS
<1>7. \A y \in S : y <= x
  BY <1>5, <1>6
<1> QED
  BY <1>7

LEMMA CostsAreNatural ==
  ASSUME NEW price \in Nat, NEW quantity \in Nat
  PROVE  Cost(price, quantity) \in Nat /\ price * quantity <= Cost(price, quantity)
<1>1. PICK gross, fee : gross = price * quantity /\ fee = gross * FeeBps
  OBVIOUS
<1>2. gross \in Nat
  BY <1>1
<1>3. fee \in Nat
  BY <1>1, <1>2, ResearchAssumption
<1>4. (fee + 10000 - 1) \div 10000 \in Nat
  BY <1>3
<1>5. Cost(price, quantity) = gross + (fee + 10000 - 1) \div 10000
  BY <1>1 DEF Cost, CeilDiv
<1> QED
  BY <1>1, <1>2, <1>4, <1>5

LEMMA NothingCostsNothing ==
  ASSUME NEW price \in Nat
  PROVE  Cost(price, 0) = 0
<1>1. price * 0 = 0 /\ 0 * FeeBps = 0
  BY ResearchAssumption
<1>2. (0 + 10000 - 1) \div 10000 = 0
  OBVIOUS
<1> QED
  BY <1>1, <1>2 DEF Cost, CeilDiv

\* The cap pays for what is bought of it.
LEMMA QuantityIsPaid ==
  ASSUME NEW price \in Nat \ {0}, NEW cap \in Nat
  PROVE  Quantity(price, cap) \in Nat /\ Cost(price, Quantity(price, cap)) <= cap
<1>1. PICK n : n = cap \div price
  OBVIOUS
<1>2. n \in Nat
  BY <1>1
<1>3. PICK S : S = {q \in 0..n : Cost(price, q) <= cap}
  OBVIOUS
<1>4. 0 \in S
  BY <1>2, <1>3, NothingCostsNothing
<1>5. PICK q \in S : \A r \in S : r <= q
  BY <1>2, <1>3, <1>4, GreatestExists
<1>6. ASSUME NEW r \in q + 1..n
      PROVE  Cost(price, r) > cap
  <2>1. q \in Nat /\ r \in Nat /\ r \in 0..n /\ ~(r <= q)
    BY <1>2, <1>3, <1>5
  <2>2. r \notin S
    BY <1>5, <2>1
  <2>3. Cost(price, r) \in Nat /\ ~(Cost(price, r) <= cap)
    BY <1>3, <2>1, <2>2, CostsAreNatural
  <2> QED
    BY <2>3
<1>7. q \in 0..n /\ Cost(price, q) <= cap
  BY <1>3, <1>5
<1>8. Quantity(price, cap) = CHOOSE x \in 0..n : Cost(price, x) <= cap /\ \A r \in x + 1..n : Cost(price, r) > cap
  BY <1>1 DEF Quantity
<1>9. /\ Quantity(price, cap) \in 0..n /\ Cost(price, Quantity(price, cap)) <= cap
  BY <1>6, <1>7, <1>8
<1> QED
  BY <1>2, <1>9

-----------------------------------------------------------------------------
\* Ratings of a history.

Results == [game : Events, start : Starts, home : Teams, away : Teams, won : {"home", "away", "tie"}]

LEMMA RatedIsRated ==
  ASSUME CurveIsAChance, NEW ratings \in [Teams -> Int], NEW game \in Results
  PROVE  Rated(ratings, game) \in [Teams -> Int]
<1>1. PICK difference, chance, won :
        /\ difference = ratings[game.home] + HomeAdvantage - ratings[game.away]
        /\ chance = HomeChance(difference) /\ won = IF game.won = "home" THEN 100 ELSE 0
  OBVIOUS
<1>2. game.home \in Teams /\ game.away \in Teams
  BY DEF Results
<1>3. difference \in Int
  BY <1>1, <1>2, EvidenceAssumption
<1>4. chance \in Int /\ won \in Int
  BY <1>1, <1>3 DEF CurveIsAChance
<1>5. PICK product : product = KFactor * (won - chance)
  OBVIOUS
<1>6. product \in Int
  BY <1>4, <1>5, EvidenceAssumption
<1>7. PICK gain : gain = product \div 100
  OBVIOUS
<1>8. gain \in Int
  BY <1>6, <1>7
<1>9. Rated(ratings, game) = IF game.won = "tie" THEN ratings
                             ELSE [ratings EXCEPT ![game.home] = @ + gain, ![game.away] = @ - gain]
  BY <1>1, <1>5, <1>7 DEF Rated
<1>10. [ratings EXCEPT ![game.home] = @ + gain, ![game.away] = @ - gain] \in [Teams -> Int]
  BY <1>2, <1>8
<1> QED
  BY <1>9, <1>10

RatedAfter(table, training, n) ==
  table = [k \in 0..n |-> IF k = 0 THEN [t \in Teams |-> InitialRating] ELSE Rated(table[k - 1], training[k])]

LEMMA RatingTable ==
  ASSUME CurveIsAChance, NEW count \in Nat, NEW training \in [1..count -> Results]
  PROVE  \A n \in Nat : n <= count => \E table \in [0..n -> [Teams -> Int]] : RatedAfter(table, training, n)
<1> DEFINE Built == {n \in Nat : n <= count => \E table \in [0..n -> [Teams -> Int]] : RatedAfter(table, training, n)}
<1>1. 0 \in Built
  <2>1. PICK first : first = [t \in Teams |-> InitialRating]
    OBVIOUS
  <2>2. first \in [Teams -> Int]
    BY <2>1, EvidenceAssumption
  <2>3. PICK table : table = [k \in 0..0 |-> first]
    OBVIOUS
  <2>4. table \in [0..0 -> [Teams -> Int]]
    BY <2>2, <2>3
  <2>5. RatedAfter(table, training, 0)
    BY <2>1, <2>3 DEF RatedAfter
  <2> QED
    BY <2>4, <2>5
<1>2. ASSUME NEW n \in Nat, n \in Built
      PROVE  n + 1 \in Built
  <2>1. SUFFICES ASSUME n + 1 <= count
                 PROVE  \E table \in [0..(n + 1) -> [Teams -> Int]] : RatedAfter(table, training, n + 1)
    OBVIOUS
  <2>2. PICK table \in [0..n -> [Teams -> Int]] : RatedAfter(table, training, n)
    <3>1. n <= count
      BY <1>2, <2>1
    <3>2. n <= count => \E table \in [0..n -> [Teams -> Int]] : RatedAfter(table, training, n)
      BY <1>2
    <3> QED
      BY <3>1, <3>2
  <2>3. PICK next : next = Rated(table[n], training[n + 1])
    OBVIOUS
  <2>4. next \in [Teams -> Int]
    <3>1. table[n] \in [Teams -> Int] /\ training[n + 1] \in Results
      BY <2>1, <2>2
    <3> QED
      BY <2>3, <3>1, RatedIsRated
  <2>5. PICK longer : longer = [k \in 0..(n + 1) |-> IF k = n + 1 THEN next ELSE table[k]]
    OBVIOUS
  <2>6. longer \in [0..(n + 1) -> [Teams -> Int]]
    BY <2>2, <2>4, <2>5
  <2>7. PICK first : first = [t \in Teams |-> InitialRating]
    OBVIOUS
  <2>8. \A k \in 0..n : table[k] = IF k = 0 THEN first ELSE Rated(table[k - 1], training[k])
    <3>1. table = [k \in 0..n |-> IF k = 0 THEN first ELSE Rated(table[k - 1], training[k])]
      BY <2>2, <2>7 DEF RatedAfter
    <3> QED
      BY <3>1
  <2>9. ASSUME NEW k \in 0..(n + 1)
        PROVE  longer[k] = IF k = 0 THEN first ELSE Rated(longer[k - 1], training[k])
    <3>1. CASE k = 0
      BY <2>5, <2>8, <3>1
    <3>2. CASE k \in 1..n
      <4>1. longer[k] = table[k] /\ longer[k - 1] = table[k - 1]
        BY <2>5, <3>2
      <4> QED
        BY <2>8, <3>2, <4>1
    <3>3. CASE k = n + 1
      <4>1. longer[k] = next /\ k - 1 = n /\ longer[n] = table[n]
        BY <2>5, <3>3
      <4> QED
        BY <2>3, <3>3, <4>1
    <3> QED
      BY <3>1, <3>2, <3>3
  <2>10. RatedAfter(longer, training, n + 1)
    <3>1. longer = [k \in 0..(n + 1) |-> longer[k]]
      BY <2>6
    <3>2. longer = [k \in 0..(n + 1) |-> IF k = 0 THEN first ELSE Rated(longer[k - 1], training[k])]
      BY <2>9, <3>1
    <3> QED
      BY <2>7, <3>2 DEF RatedAfter
  <2> QED
    BY <2>6, <2>10
<1> HIDE DEF Built
<1>3. \A n \in Nat : n \in Built
  BY <1>1, <1>2, SetInduction
<1> QED
  BY <1>3 DEF Built

LEMMA RatingsAreWhole ==
  ASSUME CurveIsAChance, NEW count \in Nat, NEW training \in [1..count -> Results], Len(training) = count
  PROVE  Ratings(training) \in [Teams -> Int]
<1>1. PICK table \in [0..count -> [Teams -> Int]] : RatedAfter(table, training, count)
  <2>1. count <= count
    OBVIOUS
  <2> QED
    BY <2>1, RatingTable
<1>2. PICK after : after = CHOOSE f : RatedAfter(f, training, count)
  OBVIOUS
<1>3. RatedAfter(after, training, count)
  BY <1>1, <1>2
<1>4. Ratings(training) = after[count]
  BY <1>2 DEF Ratings, RatedAfter
<1>5. PICK first : first = [t \in Teams |-> InitialRating]
  OBVIOUS
<1>6. first \in [Teams -> Int]
  BY <1>5, EvidenceAssumption
<1>7. \A k \in 0..count : after[k] = IF k = 0 THEN first ELSE Rated(after[k - 1], training[k])
  <2>1. after = [k \in 0..count |-> IF k = 0 THEN first ELSE Rated(after[k - 1], training[k])]
    BY <1>3, <1>5 DEF RatedAfter
  <2> QED
    BY <2>1
<1> DEFINE Whole == {k \in Nat : k <= count => after[k] \in [Teams -> Int]}
<1>8. 0 \in Whole
  BY <1>6, <1>7
<1>9. ASSUME NEW k \in Nat, k \in Whole
      PROVE  k + 1 \in Whole
  <2>1. SUFFICES ASSUME k + 1 <= count PROVE after[k + 1] \in [Teams -> Int]
    OBVIOUS
  <2>2. after[k] \in [Teams -> Int] /\ k + 1 \in 0..count /\ training[k + 1] \in Results
    BY <1>9, <2>1
  <2>3. (k + 1) - 1 = k /\ k + 1 # 0
    OBVIOUS
  <2>4. after[k + 1] = Rated(after[k], training[k + 1])
    BY <1>7, <2>2, <2>3
  <2>5. PICK ratings, game : ratings = after[k] /\ game = training[k + 1]
    OBVIOUS
  <2>6. Rated(ratings, game) \in [Teams -> Int]
    BY <2>2, <2>5, RatedIsRated
  <2> QED
    BY <2>4, <2>5, <2>6
<1> HIDE DEF Whole
<1>10. \A k \in Nat : k \in Whole
  BY <1>8, <1>9, SetInduction
<1>11. after[count] \in [Teams -> Int]
  BY <1>10 DEF Whole
<1> QED
  BY <1>4, <1>11

-----------------------------------------------------------------------------
\* Rows that runs append.

LEMMA ChancesAreChances ==
  ASSUME CurveIsAChance, NEW m, NEW game, game.home \in Teams, game.away \in Teams
  PROVE  YesPayout(m, game) \in 0..100
<1>1. PICK home, away, chance :
        /\ home = game.home /\ away = game.away
        /\ chance = HomeChance(FrozenRating[home] + HomeAdvantage - FrozenRating[away])
  OBVIOUS
<1>2. FrozenRating[home] \in Int /\ FrozenRating[away] \in Int /\ HomeAdvantage \in Int
  BY <1>1, ResearchAssumption, EvidenceAssumption
<1>3. FrozenRating[home] + HomeAdvantage - FrozenRating[away] \in Int
  BY <1>2
<1>4. chance \in 0..100
  BY <1>1, <1>3 DEF CurveIsAChance
<1>5. YesPayout(m, game) = chance \/ YesPayout(m, game) = 100 - chance
  BY <1>1 DEF YesPayout, FrozenChance
<1>6. 100 - chance \in 0..100
  BY <1>4
<1> QED
  BY <1>4, <1>5, <1>6

GameRows == [start : Starts, home : Teams, away : Teams]

LEMMA MatchIsTyped ==
  ASSUME NEW m \in Markets, NEW row \in MarketRows, NEW played \in SUBSET Events,
         NEW games, games \in [played -> EventRows], NEW at \in Times
  PROVE  Match(m, row, games, at) \in MatchRows(m)
<1>1. PICK relevant, viable, clear :
        /\ relevant = Relevant(m, games)
        /\ viable = {e \in relevant : WithinWindow(m, row, games[e])}
        /\ clear = Clear(m, row, games, viable)
  OBVIOUS
<1>2. relevant \subseteq played /\ clear \subseteq Events
  BY <1>1 DEF Relevant, Clear
<1>3. PICK known : known = [e \in relevant |-> [c \in {"start", "home", "away"} |-> games[e][c]]]
  OBVIOUS
<1>4. ASSUME NEW e \in relevant
      PROVE  known[e] \in GameRows
  <2>1. PICK g : g = games[e]
    OBVIOUS
  <2>2. g \in EventRows
    BY <1>2, <1>4, <2>1
  <2>3. g.start \in Starts /\ g.home \in Teams /\ g.away \in Teams
    BY <2>2 DEF EventRows
  <2>4. known[e] = [c \in {"start", "home", "away"} |-> g[c]]
    BY <1>3, <1>4, <2>1
  <2>5. [c \in {"start", "home", "away"} |-> g[c]] = [start |-> g.start, home |-> g.home, away |-> g.away]
    OBVIOUS
  <2> QED
    BY <2>3, <2>4, <2>5 DEF GameRows
<1>5. known \in UNION {[E -> GameRows] : E \in SUBSET Events}
  <2>1. known \in [relevant -> GameRows]
    BY <1>3, <1>4
  <2>2. relevant \in SUBSET Events
    BY <1>2
  <2> QED
    BY <2>1, <2>2
<1>6. PICK fingerprint : fingerprint = MatchFingerprint(m, row, games)
  OBVIOUS
<1>7. fingerprint \in Fingerprints
  <2>1. fingerprint = [occurrence |-> row.occurrence, close |-> row.close, games |-> known]
    BY <1>1, <1>3, <1>6 DEF MatchFingerprint
  <2>2. row.occurrence \in 0..Horizon /\ row.close \in 0..Horizon + 1
    BY DEF MarketRows
  <2>3. Fingerprints = [occurrence : 0..Horizon, close : 0..Horizon + 1,
                        games : UNION {[E -> GameRows] : E \in SUBSET Events}]
    BY DEF Fingerprints, GameRows
  <2> HIDE DEF GameRows
  <2> QED
    BY <1>5, <2>1, <2>2, <2>3
<1>8. PICK matched, open, event, status :
        /\ matched = (Recognised(m) /\ clear # {})
        /\ open = (viable # {} \/ (~(Reference(row) # 0 \/ League[m] = "nfl") /\ relevant # {}))
        /\ event = (IF matched THEN CHOOSE e \in clear : TRUE ELSE 0)
        /\ status = CASE matched -> "matched"
                      [] ~matched /\ Recognised(m) /\ open -> "ambiguous"
                      [] OTHER -> "unmatched"
  OBVIOUS
<1>9. Match(m, row, games, at) =
        [fingerprint |-> fingerprint, status |-> status, event |-> event,
         eligible |-> matched /\ League[m] = "nba", at |-> at]
  BY <1>1, <1>6, <1>8 DEF Match
<1>10. 0 \notin Events
  BY EvidenceAssumption
<1>11. /\ status \in {"matched", "ambiguous", "unmatched"} /\ (status = "matched" <=> matched)
       /\ event \in Events \cup {0} /\ (matched <=> event \in Events)
  <2>1. CASE matched
    <3>1. clear # {} /\ event = CHOOSE e \in clear : TRUE
      BY <1>8, <2>1
    <3>2. event \in Events
      BY <1>2, <3>1
    <3>3. status = "matched"
      BY <1>8, <2>1
    <3> QED
      BY <2>1, <3>2, <3>3
  <2>2. CASE ~matched
    <3>1. event = 0
      BY <1>8, <2>2
    <3>2. status = "ambiguous" \/ status = "unmatched"
      BY <1>8, <2>2
    <3> QED
      BY <1>10, <2>2, <3>1, <3>2
  <2> QED
    BY <2>1, <2>2
<1>12. PICK eligible : eligible = (matched /\ League[m] = "nba")
  OBVIOUS
<1>13. eligible \in BOOLEAN /\ (eligible <=> status = "matched" /\ League[m] = "nba")
  BY <1>11, <1>12
<1>14. PICK decision : decision = [fingerprint |-> fingerprint, status |-> status, event |-> event,
                                   eligible |-> eligible, at |-> at]
  OBVIOUS
<1>15. decision \in [fingerprint : Fingerprints, status : {"matched", "ambiguous", "unmatched"},
                     event : Events \cup {0}, eligible : BOOLEAN, at : Times]
  BY <1>7, <1>11, <1>13, <1>14
<1>16. /\ decision.status = "matched" <=> decision.event \in Events
       /\ decision.eligible <=> decision.status = "matched" /\ League[m] = "nba"
  BY <1>11, <1>13, <1>14
<1>17. decision \in MatchRows(m)
  BY <1>15, <1>16 DEF MatchRows
<1> QED
  BY <1>9, <1>12, <1>14, <1>17

LEMMA ForecastIsTyped ==
  ASSUME CurveIsAChance, Games, NEW job, Learns(job), job.row.home # job.row.away, NEW asOf,
         asOf = IF job.purpose = "operational" THEN job.at ELSE job.row.start
  PROVE  Forecast(job, asOf) \in ForecastRows
<1>1. PICK played : played = {f \in Played : events[f].start < asOf}
  OBVIOUS
<1>2. PICK training, n : training = InOrder(played) /\ n = Cardinality(played)
  OBVIOUS
<1>3. played \in SUBSET Events
  BY <1>1 DEF Played
<1>4. /\ n \in Nat /\ DOMAIN training = 1..n
      /\ \A k \in 1..n : training[k].game \in played /\ training[k] = Result(training[k].game)
  BY <1>2, <1>3, InOrderResults
<1>5. ASSUME NEW k \in 1..n
      PROVE  training[k] \in Results
  <2>1. PICK e : e = training[k].game
    OBVIOUS
  <2>2. e \in Events /\ events[e].status = "final"
    BY <1>1, <1>3, <1>4, <2>1 DEF Played
  <2>3. PICK start, home, away, won :
          start = events[e].start /\ home = events[e].home /\ away = events[e].away /\ won = events[e].won
    OBVIOUS
  <2>4. start \in Starts /\ home \in Teams /\ away \in Teams /\ won \in {"home", "away", "tie"}
    BY <2>2, <2>3 DEF Games, EventRows
  <2>5. training[k] = [game |-> e, start |-> start, home |-> home, away |-> away, won |-> won]
    BY <1>4, <2>1, <2>3 DEF Result
  <2> QED
    BY <2>2, <2>4, <2>5 DEF Results
<1>6. training \in [1..n -> Results]
  <2>1. PICK order : order = CHOOSE f \in [1..Cardinality(played) -> played] :
                               \A i, j \in DOMAIN f : i < j => Before(f[i], f[j])
    OBVIOUS
  <2>2. training = [i \in DOMAIN order |-> Result(order[i])]
    BY <1>2, <2>1 DEF InOrder
  <2>3. training = [i \in 1..n |-> training[i]]
    BY <1>4, <2>2
  <2> HIDE DEF Results
  <2> QED
    BY <1>5, <2>3
<1>7. training \in Seq(Results) /\ Len(training) = n
  BY <1>4, <1>6, SeqDef, LenProperties
<1>8. PICK ratings : ratings = Ratings(training)
  OBVIOUS
<1>9. ratings \in [Teams -> Int]
  BY <1>4, <1>6, <1>7, <1>8, RatingsAreWhole
<1>10. PICK game, difference, chance :
         /\ game = job.row /\ chance = HomeChance(difference)
         /\ difference = ratings[game.home] + HomeAdvantage - ratings[game.away]
  OBVIOUS
<1>11. game \in EventRows /\ game.home # game.away
  BY <1>10 DEF Learns
<1>12. /\ game.home \in Teams /\ game.away \in Teams /\ game.start \in Starts /\ game.status \in {"scheduled", "final"}
  BY <1>11 DEF EventRows
<1>13. chance \in 0..100
  <2>1. difference \in Int
    BY <1>9, <1>10, <1>12, EvidenceAssumption
  <2> QED
    BY <1>10, <2>1 DEF CurveIsAChance
<1>14. PICK e, purpose, at : e = job.event /\ purpose = job.purpose /\ at = job.at
  OBVIOUS
<1>15. e \in Events /\ purpose \in {"operational", "replay"} /\ at \in Times
  BY <1>14 DEF Learns, Aimed
<1>16. asOf \in Times /\ (purpose = "operational" => asOf = at) /\ (purpose = "replay" => asOf = game.start)
  BY <1>10, <1>12, <1>14, <1>15, TimesAreNatural
<1>17. PICK row : row = [event |-> e, purpose |-> purpose, start |-> game.start, home |-> game.home,
                         away |-> game.away, status |-> game.status, training |-> training,
                         chance |-> chance, at |-> at, asOf |-> asOf]
  OBVIOUS
<1>18. row = Forecast(job, asOf)
  BY <1>1, <1>2, <1>8, <1>10, <1>14, <1>17 DEF Forecast, Training
<1>19. row \in [event : Events, purpose : {"operational", "replay"}, start : Starts, home : Teams, away : Teams,
          status : {"scheduled", "final"}, chance : 0..100, at : Times, asOf : Times, training : Seq(Results)]
  <2> HIDE DEF Results
  <2> QED
    BY <1>7, <1>12, <1>13, <1>15, <1>16, <1>17
<1>20. row.home # row.away /\ (row.purpose = "operational" => row.asOf = row.at) /\ (row.purpose = "replay" => row.asOf = row.start)
  BY <1>11, <1>16, <1>17
<1>21. row \in ForecastRows
  BY <1>19, <1>20 DEF ForecastRows, Results
<1> QED
  BY <1>18, <1>21

LEMMA OpportunityIsTyped ==
  ASSUME NEW job, job.market \in Markets, job.row \in MarketRows, job.at \in Times,
         NEW i \in Nat, NEW price \in PriceRows, NEW e \in Events, NEW game \in EventRows,
         NEW f \in DOMAIN forecasts, f \in Nat, forecasts[f] \in ForecastRows, NEW match,
         Usable(job, match, price, e, game, forecasts[f]),
         game.home # game.away, YesTeam[job.market] \in {game.home, game.away}, NEW side \in {"yes", "no"},
         price[side] \in 1..99, NEW o, o = Opportunity(job, i, price, e, game, f, side), o.until >= job.at
  PROVE  o \in OpportunityRows
<1>1. PICK m, at, forecast, ask, row :
        m = job.market /\ at = job.at /\ forecast = forecasts[f] /\ ask = price[side] /\ row = job.row
  OBVIOUS
<1>2. PICK other, team :
        other = (CHOOSE t \in {game.home, game.away} : t # YesTeam[m]) /\ team = IF side = "yes" THEN YesTeam[m] ELSE other
  OBVIOUS
<1>3. PICK chance, edge :
        chance = (IF team = game.home THEN forecast.chance ELSE 100 - forecast.chance) /\ edge = chance - ask
  OBVIOUS
<1>4. PICK status :
        status = CASE edge < WatchEdge -> "ignore"
                   [] edge >= WatchEdge /\ edge < TradeEdge -> "watch"
                   [] OTHER -> "trade_candidate"
  OBVIOUS
<1>5. PICK ends, until :
        /\ ends = {price.at + PriceAge, forecast.at + ForecastAge, game.start}
                    \cup (IF row.close # 0 THEN {row.close} ELSE {})
        /\ until = Least(ends)
  OBVIOUS
<1>6. PICK shown : shown = <<row.occurrence, row.close, game.start, game.home, game.away>>
  OBVIOUS
<1>7. o = [market |-> m, direction |-> side, price |-> price.at, match |-> i, event |-> e, forecast |-> f,
           team |-> team, chance |-> chance, ask |-> ask, status |-> status, until |-> until,
           shown |-> shown, at |-> at]
  BY <1>1, <1>2, <1>3, <1>4, <1>5, <1>6 DEF Opportunity
<1>8. /\ m \in Markets /\ at \in Times /\ at \in Nat /\ price.at \in Times /\ price.at \in Nat /\ ask \in 1..99
      /\ game.start \in Times /\ game.start \in Nat /\ game.home \in Teams /\ game.away \in Teams
      /\ forecast.at \in Nat /\ forecast.at >= 1 /\ forecast.chance \in 0..100
      /\ row.occurrence \in Nat /\ row.close \in Nat
  <2>1. \A t \in Times : t \in Nat /\ t >= 1
    BY TimesAreNatural
  <2>2. forecast.at \in Times /\ forecast.chance \in 0..100
    BY <1>1 DEF ForecastRows
  <2>3. game.start \in Times /\ game.home \in Teams /\ game.away \in Teams
    BY TimesAreNatural DEF EventRows
  <2>4. price.at \in Times
    BY DEF PriceRows
  <2>5. row.occurrence \in Nat /\ row.close \in Nat
    BY <1>1, EvidenceAssumption DEF MarketRows
  <2> QED
    BY <1>1, <2>1, <2>2, <2>3, <2>4, <2>5
<1>9. other \in {game.home, game.away} /\ other # YesTeam[m] /\ YesTeam[m] \in Teams
  BY <1>1, <1>2, <1>8
<1>10. team \in Teams /\ (side = "yes" <=> team = YesTeam[m])
  BY <1>2, <1>8, <1>9
<1>11. chance \in 0..100 /\ edge \in Int
  BY <1>3, <1>8
<1>12. /\ status \in {"ignore", "watch", "trade_candidate"}
       /\ status = "ignore" <=> chance - ask < WatchEdge
       /\ status = "trade_candidate" <=> chance - ask >= TradeEdge
  BY <1>3, <1>4, <1>11, EvidenceAssumption
<1>13. until \in Times
  <2>1. ends \subseteq Nat /\ game.start \in ends /\ \A x \in ends : x >= 1
    <3>1. price.at + PriceAge \in Nat /\ forecast.at + ForecastAge \in Nat
      BY <1>8, EvidenceAssumption
    <3>2. price.at + PriceAge >= 1 /\ forecast.at + ForecastAge >= 1 /\ game.start >= 1
      BY <1>8, TimesAreNatural, EvidenceAssumption
    <3> QED
      BY <1>5, <1>8, <3>1, <3>2
  <2>2. until \in ends /\ until <= game.start
    BY <1>5, <2>1, LeastOfNaturals
  <2>3. until \in Nat /\ until >= 1 /\ game.start <= Horizon /\ Horizon \in Nat
    BY <1>8, <2>1, <2>2, EvidenceAssumption DEF Times
  <2> QED
    BY <1>8, <2>2, <2>3 DEF Times
<1>14. shown \in Seq(Nat \cup Teams)
  BY <1>6, <1>8
<1>15. price.at <= at /\ at <= until
  <2>1. price.at <= at
    BY <1>1 DEF Usable
  <2>2. until >= at /\ until \in Nat
    BY <1>1, <1>7, <1>13, TimesAreNatural
  <2> QED
    BY <1>8, <2>1, <2>2
<1>16. o \in [market : Markets, direction : {"yes", "no"}, price : Times, match : Nat, event : Events, forecast : Nat,
          team : Teams, chance : 0..100, ask : 1..99, status : {"ignore", "watch", "trade_candidate"},
          until : Times, shown : Seq(Nat \cup Teams), at : Times]
  BY <1>7, <1>8, <1>10, <1>11, <1>12, <1>13, <1>14
<1>17. /\ o.market = m /\ o.direction = side /\ o.price = price.at /\ o.team = team /\ o.chance = chance
       /\ o.ask = ask /\ o.status = status /\ o.until = until /\ o.at = at
  BY <1>7
<1> QED
  BY <1>10, <1>12, <1>15, <1>16, <1>17 DEF OpportunityRows
-----------------------------------------------------------------------------
\* Rows that requests append.

LEMMA ShadowIsTyped ==
  ASSUME CurveIsAChance, NEW m \in Markets, NEW i \in Nat, NEW at \in Times,
         NEW e \in Events, e = matches[m][i].event,
         NEW game \in EventRows, game = events[e], game.home # game.away,
         game.start > at, Fresh(game.seen, at)
  PROVE  Shadow(m, i, at) \in ShadowRows
<1>1. PICK yes : yes = YesPayout(m, game)
  OBVIOUS
<1>2. /\ game.start \in Starts /\ game.home \in Teams /\ game.away \in Teams /\ game.seen \in Times
      /\ game.start \in Nat /\ at \in Nat
  BY TimesAreNatural DEF EventRows
<1>3. yes \in 0..100
  BY <1>1, <1>2, ChancesAreChances
<1>4. PICK row : row = [market |-> m, match |-> i, event |-> e, start |-> game.start, home |-> game.home,
                        away |-> game.away, yes |-> yes, seen |-> game.seen, at |-> at]
  OBVIOUS
<1>5. Shadow(m, i, at) = row
  BY <1>1, <1>4 DEF Shadow
<1>6. row \in [market : Markets, match : Nat, event : Events, start : Starts, home : Teams, away : Teams,
               yes : 0..100, seen : Times, at : Times]
  BY <1>2, <1>3, <1>4
<1>7. row.seen <= row.at /\ row.at < row.start /\ row.home # row.away
  BY <1>2, <1>4 DEF Fresh
<1> QED
  BY <1>5, <1>6, <1>7 DEF ShadowRows

LEMMA PayoutIsTyped ==
  ASSUME CurveIsAChance, now \in Times, NEW m \in Markets, NEW i \in Nat, NEW s \in Nat, NEW key \in Keys,
         NEW at \in Times, at <= now, NEW game \in EventRows, game = events[matches[m][i].event],
         markets[m] \in MarketRows,
         NEW row, row = Payout(m, i, s, key, at), now < row.until
  PROVE  row \in PayoutRows
<1>1. PICK yes, market : yes = YesPayout(m, game) /\ market = markets[m]
  OBVIOUS
<1>2. /\ game.start \in Times /\ game.home \in Teams /\ game.away \in Teams /\ game.seen \in Times
      /\ market.close \in Nat /\ market.seen \in Times
  <2>1. game.start \in Times /\ game.home \in Teams /\ game.away \in Teams /\ game.seen \in Times
    BY TimesAreNatural DEF EventRows
  <2>2. market.close \in 0..Horizon + 1 /\ market.seen \in Times
    BY <1>1 DEF MarketRows
  <2>3. market.close \in Nat
    BY <2>2, EvidenceAssumption
  <2> QED
    BY <2>1, <2>2, <2>3
<1>3. /\ game.start \in Nat /\ at \in Nat /\ now \in Nat /\ game.seen \in Nat /\ market.seen \in Nat /\ now >= 1
      /\ game.start <= Horizon /\ Horizon \in Nat
  BY <1>2, TimesAreNatural, EvidenceAssumption DEF Times
<1>4. yes \in 0..100
  BY <1>1, <1>2, ChancesAreChances
<1>5. PICK ends, until :
        /\ ends = {at + PayoutAge, game.start, market.close, game.seen + SourceAge, market.seen + SourceAge}
        /\ until = Least(ends)
  OBVIOUS
<1>6. row = [key |-> key, market |-> m, match |-> i, shadow |-> s, yes |-> yes, at |-> at, until |-> until]
  <2>1. row = [key |-> key, market |-> m, match |-> i, shadow |-> s,
               yes |-> YesPayout(m, events[matches[m][i].event]), at |-> at,
               until |-> Least({at + PayoutAge, events[matches[m][i].event].start, markets[m].close,
                                events[matches[m][i].event].seen + SourceAge, markets[m].seen + SourceAge})]
    BY DEF Payout
  <2> QED
    BY <1>1, <1>5, <2>1
<1>7. ends \subseteq Nat /\ ends # {} /\ game.start \in ends /\ at + PayoutAge \in ends /\ at + PayoutAge \in Nat
  <2>1. /\ at + PayoutAge \in Nat /\ game.seen + SourceAge \in Nat /\ market.seen + SourceAge \in Nat
        /\ game.start \in Nat /\ market.close \in Nat
    BY <1>2, <1>3, ResearchAssumption
  <2> QED
    BY <1>5, <2>1
<1>8. until \in Nat /\ until <= game.start /\ until <= at + PayoutAge
  BY <1>5, <1>7, LeastOfNaturals
<1>9. row.until = until /\ now < until
  BY <1>6
<1>10. until \in Times /\ at < until
  BY <1>3, <1>8, <1>9 DEF Times
<1>11. row \in [key : Keys, market : Markets, match : Nat, shadow : Nat, yes : 0..100, at : Times, until : Times]
  BY <1>4, <1>6, <1>10
<1>12. row.at = at
  BY <1>6
<1> QED
  BY <1>8, <1>9, <1>10, <1>11, <1>12 DEF PayoutRows

\* Quotes of one market are of different times, so the newest is one.
OneQuote == \A m \in Markets : \A p, q \in prices[m] : p.at = q.at => p = q

LEMMA ComparisonIsTyped ==
  ASSUME OneQuote, now \in Times, NEW m \in Markets, prices[m] \in SUBSET PriceRows,
         NEW p \in Nat, NEW payout, payout = payouts[p], payout.market = m, payout.until \in Times,
         NEW key \in Keys, NEW at \in Times, at <= now,
         now < payout.until, NEW row, row = Comparison(p, key, at), row.until # 0 => now < row.until
  PROVE  row \in ComparisonRows
<1> DEFINE newest == NewestPrice(payouts[p].market)
           asks == {q \in newest : Comparable(q, at)}
           sides == {s \in {"yes", "no"} : \E q \in asks : q[s] \in 1..99}
           quote == CHOOSE q \in asks : TRUE
           price == {q.at : q \in newest}
           shown == [s \in sides |-> quote[s]]
           edge(s) == Expected(payouts[p], s) - quote[s]
           status == [s \in {"yes", "no"} |->
                        CASE s \notin sides -> "ineligible"
                          [] s \in sides /\ edge(s) < WatchEdge -> "ignore"
                          [] s \in sides /\ edge(s) \in WatchEdge..CandidateEdge - 1 -> "watch"
                          [] OTHER -> "paper_candidate"]
           ends == {payouts[p].until} \cup {q.at + QuoteAge : q \in asks}
           until == IF sides = {} THEN 0 ELSE Least(ends)
<1>6. row = [key |-> key, payout |-> p, market |-> m, price |-> price, asks |-> shown, status |-> status,
             at |-> at, until |-> until]
  <2>1. row = [key |-> key, payout |-> p, market |-> payouts[p].market, price |-> price, asks |-> shown,
               status |-> status, at |-> at, until |-> until]
    BY DEF Comparison
  <2> HIDE DEF price, shown, status, until
  <2> QED
    BY <2>1
<1>1. /\ newest = NewestPrice(m) /\ asks = {q \in newest : Comparable(q, at)}
      /\ sides = {s \in {"yes", "no"} : \E q \in asks : q[s] \in 1..99}
  OBVIOUS
<1>2. quote = CHOOSE q \in asks : TRUE
  OBVIOUS
<1>3. price = {q.at : q \in newest} /\ shown = [s \in sides |-> quote[s]]
  OBVIOUS
<1>4. /\ DOMAIN status = {"yes", "no"} /\ status = [s \in {"yes", "no"} |-> status[s]]
      /\ \A s \in {"yes", "no"} : status[s] =
           CASE s \notin sides -> "ineligible"
             [] s \in sides /\ edge(s) < WatchEdge -> "ignore"
             [] s \in sides /\ edge(s) \in WatchEdge..CandidateEdge - 1 -> "watch"
             [] OTHER -> "paper_candidate"
  <2> HIDE DEF sides, edge
  <2> QED
    OBVIOUS
<1>5. /\ ends = {payout.until} \cup {q.at + QuoteAge : q \in asks}
      /\ until = IF sides = {} THEN 0 ELSE Least(ends)
  OBVIOUS
<1> HIDE DEF newest, asks, sides, quote, price, shown, edge, status, ends, until
<1>7. newest \subseteq PriceRows /\ asks \subseteq newest /\ sides \subseteq {"yes", "no"}
      /\ \A q, r \in newest : q = r
  <2>1. newest \subseteq prices[m] /\ \A q, r \in newest : r.at <= q.at /\ q.at <= r.at
    BY <1>1 DEF NewestPrice
  <2>2. \A q \in newest : q.at \in Nat
    BY <2>1, TimesAreNatural DEF PriceRows
  <2>3. \A q, r \in newest : q.at = r.at
    BY <2>1, <2>2
  <2>4. \A q, r \in newest : q = r
    BY <2>1, <2>3 DEF OneQuote
  <2> QED
    BY <1>1, <2>1, <2>4
<1>8. price \in SUBSET Times
  BY <1>3, <1>7 DEF PriceRows
<1>9. shown \in UNION {[S -> 1..99] : S \in SUBSET {"yes", "no"}} /\ DOMAIN shown = sides
  <2>1. ASSUME NEW s \in sides
        PROVE  quote[s] \in 1..99
    <3>1. PICK q \in asks : q[s] \in 1..99
      BY <1>1
    <3>2. quote \in asks
      BY <1>2, <3>1
    <3>3. quote = q
      BY <1>7, <3>1, <3>2
    <3> QED
      BY <3>1, <3>3
  <2>2. shown \in [sides -> 1..99]
    BY <1>3, <2>1
  <2> QED
    BY <1>3, <1>7, <2>2
<1>10. /\ status \in [{"yes", "no"} -> {"ineligible", "ignore", "watch", "paper_candidate"}]
       /\ \A s \in {"yes", "no"} : status[s] = "ineligible" <=> s \notin sides
  <2>1. ASSUME NEW s \in {"yes", "no"}
        PROVE  /\ status[s] \in {"ineligible", "ignore", "watch", "paper_candidate"}
               /\ status[s] = "ineligible" <=> s \notin sides
    <3>1. PICK low, middle :
            low = (edge(s) < WatchEdge) /\ middle = (edge(s) \in WatchEdge..CandidateEdge - 1)
      OBVIOUS
    <3>2. status[s] = CASE s \notin sides -> "ineligible"
                        [] s \in sides /\ low -> "ignore"
                        [] s \in sides /\ middle -> "watch"
                        [] OTHER -> "paper_candidate"
      BY <1>4, <3>1
    <3>3. CASE s \notin sides
      BY <3>2, <3>3
    <3>4. CASE s \in sides
      <4>1. status[s] \in {"ignore", "watch", "paper_candidate"}
        BY <3>2, <3>4
      <4> QED
        BY <3>4, <4>1
    <3> QED
      BY <3>3, <3>4
  <2>2. status = [s \in {"yes", "no"} |-> status[s]]
    BY <1>4
  <2> QED
    BY <2>1, <2>2
<1>11. /\ sides = {} => until = 0
       /\ sides # {} => until \in Nat /\ until > at /\ until <= payout.until
  <2>1. CASE sides # {}
    <3>1. ends \subseteq Nat /\ payout.until \in ends
      <4>1. ASSUME NEW q \in asks
            PROVE  q.at + QuoteAge \in Nat
        <5>1. q.at \in Nat
          BY <1>7, TimesAreNatural DEF PriceRows
        <5> QED
          BY <5>1, ResearchAssumption
      <4> QED
        BY <1>5, <4>1, TimesAreNatural
    <3>2. until \in Nat /\ until <= payout.until
      BY <1>5, <2>1, <3>1, LeastOfNaturals
    <3>3. until # 0
      <4>1. \A x \in ends : x >= 1
        <5>1. ASSUME NEW q \in asks
              PROVE  q.at + QuoteAge >= 1
          <6>1. q.at \in Nat /\ q.at >= 1
            BY <1>7, TimesAreNatural DEF PriceRows
          <6> QED
            BY <6>1, ResearchAssumption
        <5> QED
          BY <1>5, <5>1, TimesAreNatural
      <4>2. until \in ends
        BY <1>5, <2>1, <3>1, LeastOfNaturals
      <4> QED
        BY <3>2, <4>1, <4>2
    <3>4. row.until = until /\ now < until
      BY <1>6, <3>3
    <3>5. at \in Nat /\ now \in Nat
      BY TimesAreNatural
    <3> QED
      BY <2>1, <3>2, <3>4, <3>5
  <2> QED
    BY <1>5, <2>1
<1>12. sides # {} => price # {} /\ \A t \in price : t <= at
  <2>1. SUFFICES ASSUME sides # {} PROVE price # {} /\ \A t \in price : t <= at
    OBVIOUS
  <2>2. PICK q \in asks : TRUE
    BY <1>1, <2>1
  <2>3. q.at <= at /\ q \in newest
    BY <1>1, <2>2 DEF Comparable
  <2>4. \A r \in newest : r = q
    BY <1>7, <2>3
  <2> QED
    BY <1>3, <2>3, <2>4
<1>13. until \in 0..Horizon
  <2>1. payout.until \in Nat /\ payout.until <= Horizon /\ Horizon \in Nat
    BY EvidenceAssumption DEF Times
  <2> QED
    BY <1>11, <2>1
<1>14. row \in [key : Keys, payout : Nat, market : Markets, price : SUBSET Times,
          asks : UNION {[S -> 1..99] : S \in SUBSET {"yes", "no"}},
          status : [{"yes", "no"} -> {"ineligible", "ignore", "watch", "paper_candidate"}],
          at : Times, until : 0..Horizon]
  BY <1>6, <1>8, <1>9, <1>10, <1>13
<1>15. row.price = price /\ row.asks = shown /\ row.status = status /\ row.at = at /\ row.until = until
  BY <1>6
<1>16. /\ \A side \in {"yes", "no"} : row.status[side] = "ineligible" <=> side \notin DOMAIN row.asks
       /\ IF DOMAIN row.asks = {} THEN row.until = 0
          ELSE row.until > row.at /\ row.price # {} /\ \A t \in row.price : t <= row.at
  BY <1>9, <1>10, <1>11, <1>12, <1>15
<1> QED
  BY <1>14, <1>16 DEF ComparisonRows

LEMMA PreflightIsTyped ==
  ASSUME NEW c \in Nat, NEW row \in ComparisonRows, row = comparisons[c], NEW side \in {"yes", "no"},
         side \in DOMAIN row.asks, NEW cap \in Caps, NEW key \in Keys, NEW at \in Times, at < row.until,
         row.until \in Times, NEW preflight, preflight = Preflight(c, side, cap, key, at),
         preflight.quantity > 0 => preflight.cost < 100 * preflight.quantity
  PROVE  preflight \in PreflightRows
<1>1. PICK ask, price, quantity, cost :
        /\ ask = row.asks[side] /\ price = ask + Slippage
        /\ quantity = IF price >= 100 THEN 0 ELSE Quantity(price, cap)
        /\ cost = Cost(price, quantity)
  OBVIOUS
<1>2. cap \in Nat /\ row.market \in Markets
  BY ResearchAssumption DEF ComparisonRows
<1>3. ask \in 1..99
  <2>1. row.asks \in UNION {[S -> 1..99] : S \in SUBSET {"yes", "no"}}
    BY DEF ComparisonRows
  <2>2. PICK S \in SUBSET {"yes", "no"} : row.asks \in [S -> 1..99]
    BY <2>1
  <2> QED
    BY <1>1, <2>2
<1>4. price \in Nat \ {0}
  BY <1>1, <1>3, ResearchAssumption
<1>5. quantity \in Nat /\ cost \in Nat /\ cost <= cap /\ (quantity > 0 => 0 < cost)
  <2>1. quantity \in Nat /\ Cost(price, quantity) <= cap
    <3>1. CASE price >= 100
      BY <1>1, <1>2, <1>4, <3>1, NothingCostsNothing
    <3>2. CASE ~(price >= 100)
      BY <1>1, <1>2, <1>4, <3>2, QuantityIsPaid
    <3> QED
      BY <3>1, <3>2
  <2>2. cost \in Nat /\ price * quantity <= cost
    <3>1. price \in Nat /\ quantity \in Nat
      BY <1>4, <2>1
    <3>2. Cost(price, quantity) \in Nat /\ price * quantity <= Cost(price, quantity)
      BY <3>1, CostsAreNatural
    <3> QED
      BY <1>1, <3>2
  <2>3. quantity > 0 => 0 < price * quantity
    BY <1>4, <2>1
  <2>4. price * quantity \in Nat
    BY <1>4, <2>1
  <2> QED
    BY <1>1, <2>1, <2>2, <2>3, <2>4
<1>6. PICK good, status :
        /\ good = ((Expected(payouts[row.payout], side) - MinimumEdge) * quantity >= cost)
        /\ status = CASE quantity = 0 -> "ineligible"
                      [] quantity > 0 /\ good -> "cost_qualified"
                      [] OTHER -> "cost_disqualified"
  OBVIOUS
<1>7. status \in {"cost_qualified", "cost_disqualified", "ineligible"} /\ (quantity = 0 <=> status = "ineligible")
  <2>1. CASE quantity = 0
    BY <1>6, <2>1
  <2>2. CASE quantity # 0
    <3>1. status \in {"cost_qualified", "cost_disqualified"}
      BY <1>6, <2>2
    <3> QED
      BY <2>2, <3>1
  <2> QED
    BY <2>1, <2>2
<1>8. preflight = [key |-> key, comparison |-> c, market |-> row.market, side |-> side, cap |-> cap,
                   quantity |-> quantity, cost |-> cost, status |-> status, at |-> at, until |-> row.until]
  BY <1>1, <1>6 DEF Preflight
<1>9. preflight \in [key : Keys, comparison : Nat, market : Markets, side : {"yes", "no"}, cap : Caps, quantity : Nat,
          cost : Nat, status : {"cost_qualified", "cost_disqualified", "ineligible"}, at : Times, until : Times]
  BY <1>2, <1>5, <1>7, <1>8
<1>10. /\ preflight.cost = cost /\ preflight.cap = cap /\ preflight.at = at /\ preflight.until = row.until
       /\ preflight.quantity = quantity /\ preflight.status = status
  BY <1>8
<1>11. quantity > 0 => cost < 100 * quantity
  BY <1>10
<1> QED
  BY <1>5, <1>7, <1>9, <1>10, <1>11 DEF PreflightRows

LEMMA LabelIsTyped ==
  ASSUME Games, NEW s \in Nat, NEW e \in Events, NEW game, game = events[e], game.status = "final"
  PROVE  LabelOf(s, game) \in LabelRows
<1>1. game.won \in {"home", "away", "tie"} /\ game.home \in Teams /\ game.away \in Teams
  BY DEF Games, EventRows
<1>2. PICK winner, yes :
        /\ winner = CASE game.won = "home" -> {game.home} [] game.won = "away" -> {game.away} [] OTHER -> {}
        /\ yes = IF YesTeam[shadows[s].market] = shadows[s].home THEN HomePayout(game.won) ELSE 100 - HomePayout(game.won)
  OBVIOUS
<1>3. winner \in SUBSET Teams
  BY <1>1, <1>2
<1>4. HomePayout(game.won) \in {0, 50, 100}
  BY <1>1 DEF HomePayout
<1>5. yes \in {0, 50, 100}
  BY <1>2, <1>4
<1>6. LabelOf(s, game) = [snapshot |-> s, won |-> game.won, winner |-> winner, yes |-> yes]
  BY <1>2 DEF LabelOf
<1> QED
  BY <1>1, <1>3, <1>5, <1>6 DEF LabelRows

LEMMA SquaresCompare ==
  ASSUME NEW x \in 0..100
  PROVE  x * x \in 0..10000 /\ (x * x < 2500 <=> x < 50) /\ (x * x = 2500 <=> x = 50)
<1>1. x \in Nat /\ x <= 100
  OBVIOUS
<1>2. \A a, b \in Nat : a < b => a * a < b * b
  <2>1. ASSUME NEW a \in Nat, NEW d \in Nat, d >= 1
        PROVE  a * a < (a + d) * (a + d)
    <3>1. (a + d) * (a + d) = a * a + (2 * a * d + d * d)
      BY <2>1
    <3>2. a * d \in Nat /\ d * d \in Nat /\ d * d >= 1 /\ a * a \in Nat
      BY <2>1
    <3>3. 2 * a * d = 2 * (a * d)
      BY <2>1
    <3> QED
      BY <3>1, <3>2, <3>3
  <2>2. ASSUME NEW a \in Nat, NEW b \in Nat, a < b
        PROVE  a * a < b * b
    <3>1. PICK d : d = b - a
      OBVIOUS
    <3>2. d \in Nat /\ d >= 1 /\ b = a + d
      BY <2>2, <3>1
    <3> QED
      BY <2>1, <3>2
  <2> QED
    BY <2>2
<1>3. x * x \in Nat /\ 50 * 50 = 2500 /\ 100 * 100 = 10000
  BY <1>1
<1>4. x < 50 => x * x < 2500
  BY <1>1, <1>2, <1>3
<1>5. x > 50 => x * x > 2500
  BY <1>1, <1>2, <1>3
<1>6. x < 100 => x * x < 10000
  BY <1>1, <1>2, <1>3
<1>7. x = 50 => x * x = 2500
  BY <1>3
<1>8. x = 100 => x * x = 10000
  BY <1>3
<1> QED
  BY <1>1, <1>3, <1>4, <1>5, <1>6, <1>7, <1>8

LEMMA ScoreIsTyped ==
  ASSUME Games, NEW f \in Nat, forecasts[f] \in ForecastRows, NEW game, game = events[forecasts[f].event],
         Evaluable(forecasts[f], game)
  PROVE  Score(f, game) \in ScoreRows
<1>1. PICK forecast, e, chance : forecast = forecasts[f] /\ e = forecast.event /\ chance = forecast.chance
  OBVIOUS
<1>2. e \in Events /\ chance \in 0..100
  BY <1>1 DEF ForecastRows
<1>3. game.won \in {"home", "away"} /\ game.start \in Starts /\ game.home \in Teams /\ game.away \in Teams
  <2>1. game \in EventRows /\ (game.status = "final" <=> game.won # "none")
    BY <1>1, <1>2 DEF Games
  <2>2. game.status = "final" /\ game.won # "tie"
    BY DEF Evaluable
  <2> QED
    BY <2>1, <2>2 DEF EventRows
<1>4. PICK brier, correct :
        /\ brier = Brier(chance, game.won)
        /\ correct = CASE chance = 50 -> "abstained"
                       [] chance # 50 /\ (chance > 50 <=> game.won = "home") -> "yes"
                       [] OTHER -> "no"
  OBVIOUS
<1>5. PICK x : x = IF game.won = "home" THEN 100 - chance ELSE chance
  OBVIOUS
<1>6. x \in 0..100 /\ chance \in Int
  BY <1>2, <1>5
<1>7. brier = x * x
  <2>1. CASE game.won = "home"
    <3>1. brier = (chance - 100) * (chance - 100) /\ x = 100 - chance
      BY <1>4, <1>5, <2>1 DEF Brier
    <3>2. (chance - 100) * (chance - 100) = (100 - chance) * (100 - chance)
      BY <1>6
    <3> QED
      BY <3>1, <3>2
  <2>2. CASE game.won # "home"
    <3>1. brier = (chance - 0) * (chance - 0) /\ x = chance
      BY <1>4, <1>5, <2>2 DEF Brier
    <3> QED
      BY <1>6, <3>1
  <2> QED
    BY <2>1, <2>2
<1>8. brier \in 0..WorstBrier /\ (brier < EvenBrier <=> x < 50) /\ (brier = EvenBrier <=> x = 50)
  BY <1>6, <1>7, SquaresCompare DEF WorstBrier, EvenBrier
<1>9. /\ correct \in {"yes", "no", "abstained"} /\ (correct = "abstained" <=> x = 50) /\ (correct = "yes" <=> x < 50)
  <2>1. CASE chance = 50
    <3>1. x = 50 /\ correct = "abstained"
      BY <1>4, <1>5, <2>1
    <3> QED
      BY <3>1
  <2>2. CASE chance # 50
    <3>1. x # 50 /\ (x < 50 <=> (chance > 50 <=> game.won = "home"))
      BY <1>3, <1>5, <1>6, <2>2
    <3>2. correct = IF chance > 50 <=> game.won = "home" THEN "yes" ELSE "no"
      BY <1>4, <2>2
    <3> QED
      BY <3>1, <3>2
  <2> QED
    BY <2>1, <2>2
<1>10. PICK score : score = [forecast |-> f, event |-> e, start |-> game.start, home |-> game.home,
                             away |-> game.away, won |-> game.won, brier |-> brier, correct |-> correct]
  OBVIOUS
<1>11. Score(f, game) = score
  BY <1>1, <1>4, <1>10 DEF Score
<1>12. score \in [forecast : Nat, event : Events, start : Starts, home : Teams, away : Teams,
          won : {"home", "away"}, brier : 0..WorstBrier, correct : {"yes", "no", "abstained"}]
  BY <1>2, <1>3, <1>8, <1>9, <1>10
<1>13. score.brier = brier /\ score.correct = correct
  BY <1>10
<1>14. (score.correct = "abstained" <=> score.brier = EvenBrier) /\ (score.correct = "yes" <=> score.brier < EvenBrier)
  BY <1>8, <1>9, <1>13
<1> QED
  BY <1>11, <1>12, <1>14 DEF ScoreRows

-----------------------------------------------------------------------------
\* The typed state: what runs and requests have in hand besides the tables.

JobTyped(job) ==
  /\ job.kind \in {"match", "judged"} => job.market \in Markets
  /\ job.kind \in {"match", "market", "bundle", "quoted", "sources"} => job.row \in MarketRows
  /\ job.kind = "judged" => job.decision \in MatchRows(job.market)
  /\ job.kind = "forecast" => job.row.home # job.row.away
  /\ job.kind \in BundleKinds => job.at \in Times
  /\ job.kind \in {"quoted", "sources"} => job.price \subseteq PriceRows
  /\ job.kind = "sources" => \A e \in DOMAIN job.games : job.games[e] \in EventRows

EvidenceTyped ==
  /\ markets \in [Markets -> MarketRows]
  /\ prices \in [Markets -> SUBSET PriceRows] /\ OneQuote
  /\ \A m \in Markets : matches[m] \in Seq(MatchRows(m))
  /\ forecasts \in Seq(ForecastRows)
  /\ opportunities \subseteq OpportunityRows
  /\ \A w \in Workers : JobTyped(jobs[w])

RequestTyped(r) ==
  /\ r.at \in Times /\ r.at <= now /\ r.side \in {"yes", "no"}
  /\ r.kind # "shadow" => r.key \in Keys
  /\ r.kind = "preflight" => r.cap \in Caps /\ r.at < comparisons[r.subject].until
  /\ r.stage = "captured" => r.shadow \in ShadowRows /\ r.shadow.at <= now

RowsTyped ==
  /\ shadows \in Seq(ShadowRows) /\ payouts \in Seq(PayoutRows)
  /\ comparisons \in Seq(ComparisonRows) /\ preflights \in Seq(PreflightRows)

LockedByRequests == locked = UNION {Held(requests[w]) : w \in {v \in Workers : requests[v] # Idle}}

TypeInv ==
  /\ SourceInv /\ EvidenceTyped /\ RowsTyped
  /\ labels \subseteq LabelRows /\ scores \subseteq ScoreRows
  /\ \A w \in Workers : requests[w] # Idle => RequestTyped(requests[w])
  /\ LockedByRequests

LEMMA TypedGames ==
  ASSUME TypeInv
  PROVE  /\ now \in Times /\ now \in Nat /\ now >= 1 /\ Games
         /\ \A e \in Events : events[e] \in EventRows /\ events[e].home # events[e].away
         /\ crew \in Crews /\ DOMAIN jobs = Workers /\ DOMAIN matches = Markets /\ DOMAIN requests = Workers
         /\ \A m \in Markets : DOMAIN matches[m] \subseteq Nat
<1>1. Games /\ IInv
  BY DEF TypeInv, SourceInv, LearnInv
<1>2. \A m \in Markets : DOMAIN matches[m] \subseteq Nat
  BY <1>1, SequenceDomain DEF IInv, Tables
<1> QED
  BY <1>1, <1>2, TimesAreNatural DEF Games, IInv, Tables, Judged, Requested

-----------------------------------------------------------------------------
\* Steps of the evidence.

\* A report of a market and its quote.
LEMMA MarketIsTyped ==
  ASSUME TypeInv, NEW m \in crew.markets, IngestMarket(m)
  PROVE  markets' \in [Markets -> MarketRows] /\ prices' \in [Markets -> SUBSET PriceRows] /\ OneQuote'
<1>1. /\ m \in Markets /\ crew.books \subseteq [yes : 0..100, no : 0..100]
      /\ crew.anchors \subseteq [occurrence : 0..Horizon, close : 0..Horizon + 1]
  BY TypedGames, EvidenceAssumption
<1>2. PICK at, book, anchor, open :
        /\ at \in {now} \cup (IF Changes("late") THEN {now - 1} \cap Times ELSE {})
        /\ book \in crew.books
        /\ anchor \in IF Changes("anchor") THEN crew.anchors ELSE {[c \in {"occurrence", "close"} |-> markets[m][c]]}
        /\ open \in IF Changes("close") THEN {markets[m].open, FALSE} ELSE {markets[m].open}
        /\ markets' = [markets EXCEPT ![m] = [occurrence |-> anchor.occurrence, close |-> anchor.close,
                                              open |-> open, seen |-> at]]
        /\ prices' = IF \E p \in prices[m] : p.at = at THEN prices
                     ELSE [prices EXCEPT ![m] = @ \cup {[at |-> at, yes |-> book.yes, no |-> book.no]}]
  BY DEF IngestMarket
<1>3. at \in Times /\ book.yes \in 0..100 /\ book.no \in 0..100
  BY <1>1, <1>2, TypedGames
<1>4. markets[m] \in MarketRows /\ markets \in [Markets -> MarketRows]
  BY <1>1 DEF TypeInv, EvidenceTyped
<1>5. anchor.occurrence \in 0..Horizon /\ anchor.close \in 0..Horizon + 1 /\ open \in BOOLEAN
  <2>1. markets[m].occurrence \in 0..Horizon /\ markets[m].close \in 0..Horizon + 1 /\ markets[m].open \in BOOLEAN
    BY <1>4 DEF MarketRows
  <2>2. CASE anchor \in crew.anchors
    BY <1>1, <1>2, <2>1, <2>2
  <2>3. CASE anchor = [c \in {"occurrence", "close"} |-> markets[m][c]]
    BY <1>2, <2>1, <2>3
  <2> QED
    BY <1>2, <2>2, <2>3
<1>6. PICK row, quote :
        /\ row = [occurrence |-> anchor.occurrence, close |-> anchor.close, open |-> open, seen |-> at]
        /\ quote = [at |-> at, yes |-> book.yes, no |-> book.no]
  OBVIOUS
<1>7. row \in MarketRows
  BY <1>3, <1>5, <1>6 DEF MarketRows
<1>8. quote \in PriceRows /\ quote.at = at
  BY <1>3, <1>6 DEF PriceRows
<1>9. markets' \in [Markets -> MarketRows]
  BY <1>1, <1>2, <1>4, <1>6, <1>7
<1>10. prices \in [Markets -> SUBSET PriceRows] /\ OneQuote
  BY DEF TypeInv, EvidenceTyped
<1>11. CASE \E p \in prices[m] : p.at = at
  <2>1. prices' = prices
    BY <1>2, <1>11
  <2> QED
    BY <1>9, <1>10, <2>1 DEF OneQuote
<1>12. CASE ~\E p \in prices[m] : p.at = at
  <2>1. prices' = [prices EXCEPT ![m] = prices[m] \cup {quote}]
    BY <1>2, <1>6, <1>12
  <2>2. \A n \in Markets : prices'[n] = IF n = m THEN prices[m] \cup {quote} ELSE prices[n]
    BY <1>1, <1>10, <2>1
  <2>3. prices' \in [Markets -> SUBSET PriceRows]
    BY <1>1, <1>8, <1>10, <2>1
  <2>4. ASSUME NEW n \in Markets, NEW p \in prices'[n], NEW q \in prices'[n], p.at = q.at
        PROVE  p = q
    <3>1. CASE n = m
      BY <1>8, <1>10, <1>12, <2>2, <2>4, <3>1 DEF OneQuote
    <3>2. CASE n # m
      BY <1>10, <2>2, <2>4, <3>2 DEF OneQuote
    <3> QED
      BY <3>1, <3>2
  <2>5. OneQuote'
    BY <2>4 DEF OneQuote
  <2> QED
    BY <1>9, <2>3, <2>5
<1> QED
  BY <1>11, <1>12

LEMMA AppendNewTyped ==
  ASSUME NEW S, NEW rows \in Seq(S), NEW row \in S, NEW key
  PROVE  AppendNew(rows, row, key) \in Seq(S)
<1>1. Append(rows, row) \in Seq(S)
  BY AppendProperties
<1> QED
  BY <1>1 DEF AppendNew

\* What runs read and append.
LEMMA BeginTyped ==
  ASSUME TypeInv, NEW w \in Workers, RunBegins(w)
  PROVE  \E job : jobs' = [jobs EXCEPT ![w] = job] /\ JobTyped(job)
<1>1. crew.markets \subseteq Markets /\ now \in Times
  BY TypedGames, EvidenceAssumption
<1>2. ASSUME NEW m \in crew.markets, NEW range, NEW named, BeginMatching(w, m, range, named)
      PROVE  \E job : jobs' = [jobs EXCEPT ![w] = job] /\ JobTyped(job)
  <2>1. PICK job : jobs' = [jobs EXCEPT ![w] = job] /\ job.kind = "match" /\ job.market = m /\ job.row = markets[m]
    BY <1>2, MarketAsked
  <2>2. m \in Markets /\ markets[m] \in MarketRows
    BY <1>1 DEF TypeInv, EvidenceTyped
  <2> QED
    BY <2>1, <2>2 DEF JobTyped, BundleKinds
<1>3. ASSUME NEW purpose, NEW e, BeginForecast(w, purpose, e)
      PROVE  \E job : jobs' = [jobs EXCEPT ![w] = job] /\ JobTyped(job)
  BY <1>3, TargetAsked DEF JobTyped, BundleKinds
<1>4. ASSUME NEW m \in crew.markets, BeginOpportunities(w, m)
      PROVE  \E job : jobs' = [jobs EXCEPT ![w] = job] /\ JobTyped(job)
  BY <1>1, <1>4, ClockTaken DEF JobTyped
<1> QED
  BY <1>2, <1>3, <1>4 DEF RunBegins

LEMMA JudgedTyped ==
  ASSUME TypeInv, NEW w \in Workers, Judge(w)
  PROVE  \E job : jobs' = [jobs EXCEPT ![w] = job] /\ JobTyped(job)
<1>1. PICK old : old = jobs[w]
  OBVIOUS
<1>2. old.kind = "match" /\ old.market \in Markets /\ old.row \in MarketRows
  BY <1>1 DEF Judge, TypeInv, EvidenceTyped, JobTyped
<1>3. PICK played : played = {e \in Events : events[e].start \in old.range.from - Padding..old.range.to + Padding}
  OBVIOUS
<1>4. PICK games : games = [e \in played |-> events[e]]
  OBVIOUS
<1>5. PICK decision : decision = Match(old.market, old.row, games, now)
  OBVIOUS
<1>6. played \in SUBSET Events /\ games \in [played -> EventRows]
  BY <1>3, <1>4, TypedGames
<1>7. decision \in MatchRows(old.market)
  BY <1>2, <1>5, <1>6, TypedGames, MatchIsTyped
<1>8. PICK job : job = [kind |-> "judged", market |-> old.market, decision |-> decision]
  OBVIOUS
<1>9. job.kind = "judged" /\ job.market = old.market /\ job.decision = decision
  BY <1>8
<1>10. jobs' = [jobs EXCEPT ![w] = job]
  BY <1>1, <1>3, <1>4, <1>5, <1>8 DEF Judge
<1> QED
  BY <1>2, <1>7, <1>9, <1>10 DEF JobTyped, BundleKinds

LEMMA StatementTyped ==
  ASSUME TypeInv, NEW w \in Workers, ReadTarget(w) \/ ReadsBundle(w)
  PROVE  \E job : jobs' = [jobs EXCEPT ![w] = job] /\ JobTyped(job)
<1>1. PICK old : old = jobs[w]
  OBVIOUS
<1>2. JobTyped(old) /\ (old.kind \in BundleKinds => old.market \in Markets)
  BY <1>1 DEF TypeInv, EvidenceTyped, SourceInv, ReadTogether
<1>3. JobTyped(Idle)
  BY DEF JobTyped, Idle, BundleKinds
<1>4. CASE ReadTarget(w)
  <2>1. PICK job : /\ Reads(w, job)
                   /\ \/ job = Idle
                      \/ job.kind = "forecast" /\ job.event = old.event /\ job.row = events[job.event]
    BY <1>1, <1>4, TargetRead
  <2>2. old.event \in Events
    BY <1>1, <1>4, TargetRead DEF TypeInv, SourceInv, LearnInv, Aimed
  <2>3. CASE job # Idle
    <3>1. job.row.home # job.row.away
      BY <2>1, <2>2, <2>3, TypedGames
    <3> QED
      BY <2>1, <2>3, <3>1 DEF Reads, JobTyped, BundleKinds
  <2> QED
    BY <1>3, <2>1, <2>3 DEF Reads
<1>5. CASE ReadMarket(w)
  <2>1. PICK job : /\ Reads(w, job)
                   /\ \/ job = Idle
                      \/ /\ job.kind = "market" /\ job.market = old.market
                         /\ job.row = markets[job.market] /\ job.at = old.at
    BY <1>1, <1>5, MarketRead
  <2>2. old.market \in Markets /\ old.at \in Times
    BY <1>1, <1>2, <1>5, MarketRead DEF JobTyped, BundleKinds
  <2>3. markets[old.market] \in MarketRows
    BY <2>2 DEF TypeInv, EvidenceTyped
  <2> QED
    BY <1>3, <2>1, <2>2, <2>3 DEF Reads, JobTyped
<1>6. CASE ReadMatch(w)
  <2>1. PICK job : Reads(w, job) /\ job.kind = "bundle" /\ job.row = old.row /\ job.at = old.at
    BY <1>1, <1>6, MatchRead
  <2>2. old.row \in MarketRows /\ old.at \in Times
    BY <1>1, <1>2, <1>6, MatchRead DEF JobTyped, BundleKinds
  <2> QED
    BY <2>1, <2>2 DEF Reads, JobTyped
<1>7. CASE ReadPrice(w)
  <2>1. PICK job : /\ Reads(w, job) /\ job.kind = "quoted" /\ job.market = old.market /\ job.row = old.row
                   /\ job.price = NewestPrice(job.market) /\ job.at = old.at
    BY <1>1, <1>7, PriceRead
  <2>2. old.row \in MarketRows /\ old.at \in Times /\ old.market \in Markets
    BY <1>1, <1>2, <1>7, PriceRead DEF JobTyped, BundleKinds
  <2>3. NewestPrice(old.market) \subseteq PriceRows
    <3>1. NewestPrice(old.market) \subseteq prices[old.market] /\ prices[old.market] \subseteq PriceRows
      BY <2>2 DEF NewestPrice, TypeInv, EvidenceTyped
    <3> QED
      BY <3>1
  <2> QED
    BY <2>1, <2>2, <2>3 DEF Reads, JobTyped
<1>8. CASE ReadGame(w)
  <2>1. PICK job : /\ Reads(w, job) /\ job.kind = "sources" /\ job.row = old.row /\ job.price = old.price
                   /\ job.at = old.at
                   /\ job.games = GamesOf(job.market, job.match)
    BY <1>1, <1>8, GameRead
  <2>2. old.row \in MarketRows /\ old.at \in Times /\ old.price \subseteq PriceRows
    BY <1>1, <1>2, <1>8, GameRead DEF JobTyped, BundleKinds
  <2>3. \A e \in DOMAIN job.games : job.games[e] \in EventRows
    BY <2>1, TypedGames DEF GamesOf
  <2> QED
    BY <2>1, <2>2, <2>3 DEF Reads, JobTyped
<1> QED
  BY <1>4, <1>5, <1>6, <1>7, <1>8 DEF ReadsBundle

LEMMA DecisionTyped ==
  ASSUME TypeInv, NEW w \in Workers, InsertDecision(w)
  PROVE  \A m \in Markets : matches'[m] \in Seq(MatchRows(m))
<1>1. PICK n, decision : n = jobs[w].market /\ decision = jobs[w].decision
  OBVIOUS
<1>2. /\ matches' = [matches EXCEPT ![n] = AppendNew(matches[n], decision, MatchKey)]
      /\ decision \in MatchRows(n)
  BY <1>1 DEF InsertDecision, TypeInv, EvidenceTyped, JobTyped
<1>3. ASSUME NEW m \in Markets
      PROVE  matches'[m] \in Seq(MatchRows(m))
  <2>1. matches[m] \in Seq(MatchRows(m)) /\ DOMAIN matches = Markets
    BY TypedGames DEF TypeInv, EvidenceTyped
  <2>2. CASE m = n
    <3>1. matches'[m] = AppendNew(matches[m], decision, MatchKey)
      BY <1>2, <2>1, <2>2
    <3> QED
      BY <1>2, <2>1, <2>2, <3>1, AppendNewTyped
  <2>3. CASE m # n
    BY <1>2, <2>1, <2>3
  <2> QED
    BY <2>2, <2>3
<1> QED
  BY <1>3

LEMMA ForecastsTyped ==
  ASSUME CurveIsAChance, TypeInv, NEW w \in Workers, PersistForecast(w)
  PROVE  forecasts' \in Seq(ForecastRows)
<1>1. PICK job : job = jobs[w]
  OBVIOUS
<1>2. PICK asOf : asOf = IF job.purpose = "operational" THEN job.at ELSE job.row.start
  OBVIOUS
<1>3. PICK row : row = Forecast(job, asOf)
  OBVIOUS
<1>4. /\ forecasts' = AppendNew(forecasts, row, ForecastKey) /\ Learns(job)
      /\ job.row.home # job.row.away
  BY <1>1, <1>2, <1>3 DEF PersistForecast, TypeInv, SourceInv, LearnInv, EvidenceTyped, JobTyped
<1>5. row \in ForecastRows
  BY <1>2, <1>3, <1>4, TypedGames, ForecastIsTyped
<1>6. forecasts \in Seq(ForecastRows)
  BY DEF TypeInv, EvidenceTyped
<1> QED
  BY <1>4, <1>5, <1>6, AppendNewTyped

LEMMA OpportunitiesTyped ==
  ASSUME TypeInv, NEW w \in Workers, PersistOpportunities(w)
  PROVE  opportunities' \subseteq OpportunityRows
<1>1. PICK job : job = jobs[w]
  OBVIOUS
<1>2. /\ job.kind = "sources" /\ ReadTogether(job) /\ JobTyped(job) /\ opportunities \subseteq OpportunityRows
      /\ forecasts \in Seq(ForecastRows)
  BY <1>1 DEF PersistOpportunities, TypeInv, SourceInv, EvidenceTyped, BundleKinds
<1>3. PICK bundles : bundles =
        {b \in job.match \X job.price \X (DOMAIN job.games) \X (DOMAIN forecasts) \X {"yes", "no"} :
           /\ b[4] \in NewestForecast(b[3])
           /\ Usable(job, matches[job.market][b[1]], b[2], b[3], job.games[b[3]], forecasts[b[4]])
           /\ job.market \in Supported
           /\ YesTeam[job.market] \in {job.games[b[3]].home, job.games[b[3]].away}
           /\ b[2][b[5]] \in 1..99}
  OBVIOUS
<1>4. PICK found : found = {Opportunity(job, b[1], b[2], b[3], job.games[b[3]], b[4], b[5]) : b \in bundles}
  OBVIOUS
<1>5. opportunities' = opportunities \cup
        {o \in found : o.until >= job.at /\ \A p \in opportunities : OpportunityKey(p) # OpportunityKey(o)}
  BY <1>1, <1>3, <1>4 DEF PersistOpportunities
<1>6. ASSUME NEW o \in found, o.until >= job.at
      PROVE  o \in OpportunityRows
  <2>1. PICK b \in bundles : o = Opportunity(job, b[1], b[2], b[3], job.games[b[3]], b[4], b[5])
    BY <1>4
  <2>2. PICK i, price, e, f, side : i = b[1] /\ price = b[2] /\ e = b[3] /\ f = b[4] /\ side = b[5]
    OBVIOUS
  <2>3. b \in job.match \X job.price \X (DOMAIN job.games) \X (DOMAIN forecasts) \X {"yes", "no"}
    BY <1>3
  <2>4. i \in job.match /\ price \in job.price /\ e \in DOMAIN job.games /\ f \in DOMAIN forecasts /\ side \in {"yes", "no"}
    BY <2>2, <2>3
  <2>5. PICK game, match : game = job.games[e] /\ match = matches[job.market][i]
    OBVIOUS
  <2>6. /\ Usable(job, match, price, e, game, forecasts[f])
        /\ YesTeam[job.market] \in {game.home, game.away} /\ price[side] \in 1..99
    BY <1>3, <2>2, <2>5
  <2>7. o = Opportunity(job, i, price, e, game, f, side)
    BY <2>1, <2>2, <2>5
  <2>8. /\ job.market \in Markets /\ job.row \in MarketRows /\ job.at \in Times
        /\ price \in PriceRows /\ e \in Events /\ game \in EventRows /\ game.home # game.away
    BY <1>2, <2>4, <2>5 DEF ReadTogether, JobTyped, BundleKinds
  <2>9. i \in Nat
    BY <1>2, <2>4, <2>8, TypedGames DEF ReadTogether
  <2>10. f \in Nat /\ forecasts[f] \in ForecastRows
    BY <1>2, <2>4, ElementOfSeq, LenProperties
  <2> QED
    BY <1>6, <2>4, <2>6, <2>7, <2>8, <2>9, <2>10, OpportunityIsTyped
<1> QED
  BY <1>2, <1>5, <1>6

LEMMA EvidenceStepTyped ==
  ASSUME CurveIsAChance, TypeInv, EvidenceStep
  PROVE  EvidenceTyped'
<1>1. DOMAIN jobs = Workers
  BY TypedGames
<1>2. ASSUME NEW w \in Workers, NEW job, jobs' = [jobs EXCEPT ![w] = job], JobTyped(job)
      PROVE  \A v \in Workers : JobTyped(jobs'[v])
  <2>1. ASSUME NEW v \in Workers
        PROVE  JobTyped(jobs'[v])
    <3>1. jobs'[v] = IF v = w THEN job ELSE jobs[v]
      BY <1>1, <1>2
    <3>2. JobTyped(jobs[v])
      BY DEF TypeInv, EvidenceTyped
    <3> QED
      BY <1>2, <3>1, <3>2
  <2> QED
    BY <2>1
<1>3. JobTyped(Idle)
  BY DEF JobTyped, Idle, BundleKinds
<1>4. ASSUME UNCHANGED jobs
      PROVE  \A v \in Workers : JobTyped(jobs'[v])
  BY <1>4 DEF TypeInv, EvidenceTyped
<1> DEFINE Jobs == \A v \in Workers : JobTyped(jobs'[v])
           Market == markets' \in [Markets -> MarketRows] /\ prices' \in [Markets -> SUBSET PriceRows] /\ OneQuote'
           Matched == \A m \in Markets : matches'[m] \in Seq(MatchRows(m))
           Forecasted == forecasts' \in Seq(ForecastRows)
           Found == opportunities' \subseteq OpportunityRows
<1>5. Jobs /\ Market /\ Matched /\ Forecasted /\ Found => EvidenceTyped'
  BY DEF EvidenceTyped, JobTyped
<1>6. /\ UNCHANGED <<markets, prices>> => Market
      /\ UNCHANGED matches => Matched
      /\ UNCHANGED forecasts => Forecasted
      /\ UNCHANGED opportunities => Found
  BY DEF TypeInv, EvidenceTyped, OneQuote
<1> HIDE DEF Jobs, Market, Matched, Forecasted, Found
<1>7. ASSUME ProviderStep \/ Tick
      PROVE  Jobs /\ Market /\ Matched /\ Forecasted /\ Found
  <2>1. UNCHANGED <<jobs, matches, forecasts, opportunities>>
    BY <1>7 DEF ProviderStep, IngestEvent, IngestMarket, Tick
  <2>2. Market
    <3>1. CASE UNCHANGED <<markets, prices>>
      BY <1>6, <3>1
    <3>2. CASE \E m \in crew.markets : IngestMarket(m)
      BY <3>2, MarketIsTyped DEF Market
    <3> QED
      BY <1>7, <3>1, <3>2 DEF ProviderStep, IngestEvent, Tick
  <2>3. Jobs
    BY <1>4, <2>1 DEF Jobs
  <2> QED
    BY <1>6, <2>1, <2>2, <2>3
<1>8. ASSUME NEW w \in Workers, RunBegins(w)
      PROVE  Jobs /\ Market /\ Matched /\ Forecasted /\ Found
  <2>1. UNCHANGED <<markets, prices, matches, forecasts, opportunities>>
    BY <1>8, RunAsked
  <2>2. PICK job : jobs' = [jobs EXCEPT ![w] = job] /\ JobTyped(job)
    BY <1>8, BeginTyped
  <2>3. Jobs
    BY <1>2, <2>2 DEF Jobs
  <2> QED
    BY <1>6, <2>1, <2>3
<1>9. ASSUME NEW w \in Workers, Judge(w) \/ ReadTarget(w) \/ ReadsBundle(w)
      PROVE  Jobs /\ Market /\ Matched /\ Forecasted /\ Found
  <2>1. UNCHANGED <<markets, prices, matches, forecasts, opportunities>>
    BY <1>9, StatementFrame DEF Judge
  <2>2. PICK job : jobs' = [jobs EXCEPT ![w] = job] /\ JobTyped(job)
    BY <1>9, JudgedTyped, StatementTyped
  <2>3. Jobs
    BY <1>2, <2>2 DEF Jobs
  <2> QED
    BY <1>6, <2>1, <2>3
<1>10. ASSUME NEW w \in Workers, InsertDecision(w) \/ PersistForecast(w) \/ PersistOpportunities(w)
       PROVE  Jobs /\ Market /\ Matched /\ Forecasted /\ Found
  <2>1. UNCHANGED <<markets, prices>> /\ jobs' = [jobs EXCEPT ![w] = Idle]
    BY <1>10 DEF InsertDecision, PersistForecast, PersistOpportunities
  <2>2. Jobs
    BY <1>2, <1>3, <2>1 DEF Jobs
  <2>3. CASE InsertDecision(w)
    <3>1. UNCHANGED <<forecasts, opportunities>>
      BY <2>3 DEF InsertDecision
    <3> QED
      BY <1>6, <2>1, <2>2, <2>3, <3>1, DecisionTyped DEF Matched
  <2>4. CASE PersistForecast(w)
    <3>1. UNCHANGED <<matches, opportunities>>
      BY <2>4 DEF PersistForecast
    <3> QED
      BY <1>6, <2>1, <2>2, <2>4, <3>1, ForecastsTyped DEF Forecasted
  <2>5. CASE PersistOpportunities(w)
    <3>1. UNCHANGED <<matches, forecasts>>
      BY <2>5 DEF PersistOpportunities
    <3> QED
      BY <1>6, <2>1, <2>2, <2>5, <3>1, OpportunitiesTyped DEF Found
  <2> QED
    BY <1>10, <2>3, <2>4, <2>5
<1> QED
  BY <1>5, <1>7, <1>8, <1>9, <1>10 DEF EvidenceStep, RunProceeds, ReadsBundle

-----------------------------------------------------------------------------
\* Steps of the requests.

HeldBy(r) == IF r = Idle THEN {} ELSE Held(r)

LEMMA LockedMembers ==
  LockedByRequests <=> \A x : x \in locked <=> \E w \in Workers : x \in HeldBy(requests[w])
BY DEF LockedByRequests, HeldBy

\* A request that keeps its stage keeps its rows, and others keep theirs.
LEMMA RequestMoves ==
  ASSUME TypeInv, NEW w \in Workers, NEW request, requests' = [requests EXCEPT ![w] = request],
         UNCHANGED <<now, matches>>, Continues(comparisons, comparisons'),
         request # Idle => RequestTyped(request)',
         locked' = (locked \ HeldBy(requests[w])) \cup HeldBy(request)
  PROVE  (\A v \in Workers : requests[v] # Idle => RequestTyped(requests[v]))' /\ LockedByRequests'
<1>1. \A v \in Workers : requests'[v] = IF v = w THEN request ELSE requests[v]
  BY TypedGames
<1>2. IInv
  BY DEF TypeInv, SourceInv, LearnInv
<1>3. ASSUME NEW v \in Workers, requests'[v] # Idle
      PROVE  RequestTyped(requests[v])'
  <2>1. PICK r : r = requests'[v]
    OBVIOUS
  <2>2. CASE v = w
    <3>1. RequestTyped(request)' /\ request = requests'[v]
      BY <1>1, <1>3, <2>2
    <3> QED
      BY <3>1 DEF RequestTyped
  <2>3. CASE v # w
    <3>1. r = requests[v] /\ r # Idle /\ RequestTyped(r) /\ Asked(r)
      BY <1>1, <1>2, <1>3, <2>1, <2>3 DEF TypeInv, IInv, Requested
    <3>2. r.kind = "preflight" => comparisons'[r.subject] = comparisons[r.subject]
      BY <3>1 DEF Asked, Continues
    <3>3. RequestTyped(r)'
      BY <3>1, <3>2 DEF RequestTyped
    <3> QED
      BY <2>1, <3>3 DEF RequestTyped
  <2> QED
    BY <2>2, <2>3
<1>4. \A r : HeldBy(r)' = HeldBy(r)
  BY DEF HeldBy, Held, RowsOf
<1>5. ASSUME NEW v \in Workers, v # w
      PROVE  HeldBy(requests[v]) \cap HeldBy(requests[w]) = {}
  <2>1. CASE Holding(v) /\ Holding(w)
    BY <1>2, <1>5, <2>1 DEF IInv, Apart, HeldBy, Held
  <2>2. CASE ~Holding(v)
    BY <2>2 DEF Holding, HeldBy, Held
  <2>3. CASE ~Holding(w)
    BY <2>3 DEF Holding, HeldBy, Held
  <2> QED
    BY <2>1, <2>2, <2>3
<1>6. \A x : x \in locked <=> \E v \in Workers : x \in HeldBy(requests[v])
  BY LockedMembers DEF TypeInv
<1>7. ASSUME NEW x
      PROVE  x \in locked' <=> \E v \in Workers : x \in HeldBy(requests'[v])
  <2> HIDE DEF HeldBy
  <2>1. CASE x \in HeldBy(request)
    BY <1>1, <2>1
  <2>2. CASE x \notin HeldBy(request)
    <3>1. x \in locked' <=> x \in locked /\ x \notin HeldBy(requests[w])
      BY <2>2
    <3>2. (\E v \in Workers : x \in HeldBy(requests'[v])) <=> \E v \in Workers \ {w} : x \in HeldBy(requests[v])
      BY <1>1, <2>2
    <3>3. x \in locked /\ x \notin HeldBy(requests[w]) <=> \E v \in Workers \ {w} : x \in HeldBy(requests[v])
      BY <1>5, <1>6
    <3> QED
      BY <3>1, <3>2, <3>3
  <2> QED
    BY <2>1, <2>2
<1>8. LockedByRequests'
  <2>1. PICK next : next = requests'
    OBVIOUS
  <2>2. \A x : x \in locked' <=> \E v \in Workers : x \in HeldBy(next[v])'
    BY <1>4, <1>7, <2>1
  <2>3. \A x : x \in locked' <=> \E v \in Workers : x \in HeldBy(requests[v])'
    BY <2>1, <2>2 DEF HeldBy, Held, RowsOf
  <2> QED
    BY <2>3 DEF LockedByRequests, HeldBy
<1> QED
  BY <1>3, <1>8

RequestsTyped == \A w \in Workers : requests[w] # Idle => RequestTyped(requests[w])

LEMMA AskTyped ==
  ASSUME TypeInv, NEW w \in Workers, NEW kind, NEW m, NEW i, NEW key, NEW subject, NEW side \in {"yes", "no"}, NEW cap,
         Ask(w, Request(kind, m, i, key, subject, side, cap)), kind # "shadow" => key \in Keys,
         kind = "preflight" => cap \in Caps /\ now < comparisons[subject].until
  PROVE  RequestsTyped' /\ LockedByRequests'
<1>1. PICK request : request = Request(kind, m, i, key, subject, side, cap)
  OBVIOUS
<1>2. /\ request.kind = kind /\ request.stage = "asked" /\ request.key = key /\ request.subject = subject
      /\ request.side = side /\ request.cap = cap /\ request.at = now
  BY <1>1 DEF Request
<1>3. /\ requests' = [requests EXCEPT ![w] = request] /\ requests[w] = Idle
      /\ UNCHANGED <<now, matches>> /\ UNCHANGED comparisons /\ UNCHANGED locked
  BY <1>1 DEF Ask, Free, tables
<1>4. RequestTyped(request)'
  BY <1>2, <1>3, TypedGames DEF RequestTyped
<1>5. HeldBy(requests[w]) = {} /\ HeldBy(request) = {}
  BY <1>2, <1>3 DEF HeldBy, Held
<1>6. Continues(comparisons, comparisons')
  BY <1>3 DEF Continues
<1>7. locked' = (locked \ HeldBy(requests[w])) \cup HeldBy(request)
  BY <1>3, <1>5
<1> QED
  BY <1>3, <1>4, <1>6, <1>7, RequestMoves DEF RequestsTyped

LEMMA BeginsTyped ==
  ASSUME TypeInv, NEW w \in Workers, RequestBegins(w)
  PROVE  RowsTyped' /\ RequestsTyped' /\ LockedByRequests'
<1>1. RowsTyped'
  <2>1. UNCHANGED <<shadows, payouts, comparisons, preflights>>
    BY DEF RequestBegins, BeginShadow, BeginPayout, BeginComparison, BeginPreflight, Ask, tables
  <2> QED
    BY <2>1 DEF TypeInv, RowsTyped
<1>2. ASSUME NEW m, NEW i, BeginShadow(w, m, i)
      PROVE  RequestsTyped' /\ LockedByRequests'
  BY <1>2, AskTyped DEF BeginShadow
<1>3. ASSUME NEW m, NEW i, NEW key \in Keys, BeginPayout(w, m, i, key)
      PROVE  RequestsTyped' /\ LockedByRequests'
  BY <1>3, AskTyped DEF BeginPayout
<1>4. ASSUME NEW p, NEW key \in Keys, BeginComparison(w, p, key)
      PROVE  RequestsTyped' /\ LockedByRequests'
  BY <1>4, AskTyped DEF BeginComparison
<1>5. ASSUME NEW c, NEW side \in {"yes", "no"}, NEW cap \in Caps, NEW key \in Keys, BeginPreflight(w, c, side, cap, key)
      PROVE  RequestsTyped' /\ LockedByRequests'
  BY <1>5, AskTyped DEF BeginPreflight
<1> QED
  BY <1>1, <1>2, <1>3, <1>4, <1>5 DEF RequestBegins

LEMMA ValidateTyped ==
  ASSUME TypeInv, NEW w \in Workers, Validate(w)
  PROVE  RequestsTyped' /\ LockedByRequests'
<1>1. PICK r : r = requests[w]
  OBVIOUS
<1>2. PICK request : request = [r EXCEPT !.stage = "validated"]
  OBVIOUS
<1>3. /\ requests' = [requests EXCEPT ![w] = request] /\ r # Idle /\ r.stage = "asked"
      /\ UNCHANGED <<now, matches>> /\ UNCHANGED comparisons /\ locked' = locked \cup RowsOf(r)
  BY <1>1, <1>2 DEF Validate, tables
<1>4. Asked(r) /\ RequestTyped(r)
  BY <1>1, <1>3 DEF TypeInv, SourceInv, LearnInv, IInv, Requested
<1>5. /\ request.stage = "validated" /\ request.kind = r.kind /\ request.at = r.at /\ request.side = r.side
      /\ request.key = r.key /\ request.cap = r.cap /\ request.subject = r.subject
      /\ request.market = r.market /\ request.match = r.match /\ "stage" \in DOMAIN request
  BY <1>2, <1>4 DEF Asked, Fields
<1>6. RequestTyped(request)'
  BY <1>3, <1>4, <1>5 DEF RequestTyped
<1>7. request # Idle
  BY <1>5 DEF Idle
<1>8. HeldBy(r) = {} /\ HeldBy(request) = RowsOf(r)
  BY <1>3, <1>5, <1>7 DEF HeldBy, Held, RowsOf
<1>9. Continues(comparisons, comparisons')
  BY <1>3 DEF Continues
<1>10. locked' = (locked \ HeldBy(requests[w])) \cup HeldBy(request)
  BY <1>1, <1>3, <1>8
<1> QED
  BY <1>3, <1>6, <1>9, <1>10, RequestMoves DEF RequestsTyped

LEMMA CaptureTyped ==
  ASSUME CurveIsAChance, TypeInv, NEW w \in Workers, Capture(w)
  PROVE  RequestsTyped' /\ LockedByRequests'
<1>1. PICK r : r = requests[w]
  OBVIOUS
<1>2. PICK shadow : shadow = Shadow(r.market, r.match, now)
  OBVIOUS
<1>3. PICK request : request = [r EXCEPT !.stage = "captured", !.shadow = shadow]
  OBVIOUS
<1>4. /\ r # Idle /\ r.stage = "validated" /\ events[GameOf(r)].start > now /\ Fresh(events[GameOf(r)].seen, now)
      /\ UNCHANGED <<now, matches>> /\ UNCHANGED comparisons /\ UNCHANGED locked
  BY <1>1 DEF Capture, evidence, tables, GameOf
<1>5. requests' = [requests EXCEPT ![w] = request]
  BY <1>1, <1>2, <1>3 DEF Capture
<1>6. Asked(r) /\ Secured(r) /\ RequestTyped(r)
  BY <1>1, <1>4 DEF TypeInv, SourceInv, LearnInv, IInv, Requested, Holding
<1>7. PICK e, game : e = GameOf(r) /\ game = events[e]
  OBVIOUS
<1>8. /\ r.market \in Markets /\ r.match \in Nat /\ e \in Events /\ e = matches[r.market][r.match].event
      /\ game \in EventRows /\ game.home # game.away
  BY <1>6, <1>7, TypedGames DEF Asked, Secured, GameOf
<1>9. shadow \in ShadowRows
  BY <1>2, <1>4, <1>7, <1>8, TypedGames, ShadowIsTyped
<1>10. shadow.at = now
  BY <1>2 DEF Shadow
<1>11. /\ request.stage = "captured" /\ request.kind = r.kind /\ request.at = r.at /\ request.side = r.side
      /\ request.key = r.key /\ request.cap = r.cap /\ request.subject = r.subject /\ request.shadow = shadow
      /\ request.market = r.market /\ request.match = r.match /\ "stage" \in DOMAIN request
  BY <1>3, <1>6 DEF Asked, Fields
<1>12. RequestTyped(request)'
  BY <1>4, <1>6, <1>9, <1>10, <1>11, TypedGames DEF RequestTyped
<1>13. request # Idle
  BY <1>11 DEF Idle
<1>14. HeldBy(r) = RowsOf(r) /\ HeldBy(request) = RowsOf(r)
  BY <1>4, <1>11, <1>13 DEF HeldBy, Held, RowsOf
<1>15. HeldBy(r) \subseteq locked
  BY <1>1, LockedMembers DEF TypeInv
<1>16. Continues(comparisons, comparisons')
  BY <1>4 DEF Continues
<1>17. locked' = (locked \ HeldBy(requests[w])) \cup HeldBy(request)
  BY <1>1, <1>4, <1>14, <1>15
<1> QED
  BY <1>4, <1>5, <1>12, <1>16, <1>17, RequestMoves DEF RequestsTyped

\* A request that ends.
LEMMA EndTyped ==
  ASSUME TypeInv, NEW w \in Workers, requests[w] # Idle, requests' = [requests EXCEPT ![w] = Idle],
         locked' = locked \ Held(requests[w]), UNCHANGED <<now, matches>>, Continues(comparisons, comparisons')
  PROVE  RequestsTyped' /\ LockedByRequests'
<1>1. HeldBy(Idle) = {} /\ HeldBy(requests[w]) = Held(requests[w])
  BY DEF HeldBy
<1>2. locked' = (locked \ HeldBy(requests[w])) \cup HeldBy(Idle)
  BY <1>1
<1> QED
  BY <1>2, RequestMoves DEF RequestsTyped

LEMMA RollbackTyped ==
  ASSUME TypeInv, NEW w \in Workers, Rollback(w)
  PROVE  RequestsTyped' /\ LockedByRequests'
<1>1. /\ requests[w] # Idle /\ requests' = [requests EXCEPT ![w] = Idle]
      /\ locked' = locked \ Held(requests[w]) /\ UNCHANGED <<now, matches>>
  BY DEF Rollback
<1>2. Continues(comparisons, comparisons')
  BY DEF Rollback, tables, Continues
<1> QED
  BY <1>1, <1>2, EndTyped

\* What every commit has in hand.
LEMMA CommitTyped ==
  ASSUME TypeInv, NEW w \in Workers, NEW kind, Committing(w, kind), NEW r, r = requests[w]
  PROVE  /\ shadows' \in Seq(ShadowRows) /\ r # Idle /\ r.kind = kind
         /\ Asked(r) /\ Secured(r) /\ RequestTyped(r) /\ r.shadow \in ShadowRows /\ r.shadow.at <= now
         /\ r.market \in Markets /\ r.match \in Nat /\ GameOf(r) \in Events
         /\ Stored(shadows', r.shadow) \in Nat
         /\ requests' = [requests EXCEPT ![w] = Idle] /\ locked' = locked \ Held(r)
         /\ UNCHANGED <<now, matches>>
<1>1. /\ r # Idle /\ r.kind = kind /\ r.stage = "captured" /\ shadows' = AppendNew(shadows, r.shadow, ShadowKey)
      /\ requests' = [requests EXCEPT ![w] = Idle] /\ locked' = locked \ Held(r) /\ UNCHANGED <<now, matches>>
  BY DEF Committing
<1>2. IInv
  BY DEF TypeInv, SourceInv, LearnInv
<1>3. Asked(r) /\ Secured(r) /\ RequestTyped(r)
  BY <1>1, <1>2 DEF TypeInv, IInv, Requested, Holding
<1>4. r.shadow \in ShadowRows /\ r.shadow.at <= now
  BY <1>1, <1>3 DEF RequestTyped
<1>5. shadows' \in Seq(ShadowRows)
  BY <1>1, <1>4, AppendNewTyped DEF TypeInv, RowsTyped
<1>6. PICK s : s = Stored(shadows', r.shadow)
  OBVIOUS
<1>7. s \in DOMAIN shadows'
  BY <1>2, <1>6, Committed
<1>8. s \in Nat
  BY <1>5, <1>7, LenProperties
<1>9. r.market \in Markets /\ r.match \in Nat /\ GameOf(r) \in Events
  BY <1>3, TypedGames DEF Asked, Secured
<1> QED
  BY <1>1, <1>3, <1>4, <1>5, <1>6, <1>8, <1>9

LEMMA CommitShadowTyped ==
  ASSUME TypeInv, NEW w \in Workers, CommitShadow(w)
  PROVE  RowsTyped' /\ RequestsTyped' /\ LockedByRequests'
<1>1. Committing(w, "shadow") /\ UNCHANGED <<payouts, comparisons, preflights>>
  BY DEF CommitShadow
<1>2. Continues(comparisons, comparisons')
  BY <1>1 DEF Continues
<1>3. RowsTyped'
  BY <1>1, CommitTyped DEF TypeInv, RowsTyped
<1> QED
  BY <1>1, <1>2, <1>3, CommitTyped, EndTyped

LEMMA CommitPayoutTyped ==
  ASSUME CurveIsAChance, TypeInv, NEW w \in Workers, CommitPayout(w)
  PROVE  RowsTyped' /\ RequestsTyped' /\ LockedByRequests'
<1>1. PICK r : r = requests[w]
  OBVIOUS
<1>2. PICK s : s = Stored(shadows', r.shadow)
  OBVIOUS
<1>3. PICK row : row = Payout(r.market, r.match, s, r.key, r.shadow.at)
  OBVIOUS
<1>4. /\ Committing(w, "payout") /\ UNCHANGED <<comparisons, preflights>>
      /\ now < row.until /\ payouts' = Append(payouts, row)
  BY <1>1, <1>2, <1>3 DEF CommitPayout
<1>5. /\ shadows' \in Seq(ShadowRows) /\ r.kind = "payout" /\ RequestTyped(r)
      /\ r.shadow \in ShadowRows /\ r.shadow.at <= now
      /\ r.market \in Markets /\ r.match \in Nat /\ GameOf(r) \in Events /\ s \in Nat
  BY <1>1, <1>2, <1>4, CommitTyped
<1>6. r.key \in Keys /\ r.shadow.at \in Times
  BY <1>5 DEF RequestTyped, ShadowRows
<1>7. PICK game : game = events[GameOf(r)]
  OBVIOUS
<1>8. game \in EventRows /\ game = events[matches[r.market][r.match].event] /\ markets[r.market] \in MarketRows
  BY <1>5, <1>7, TypedGames DEF GameOf, TypeInv, EvidenceTyped
<1>9. row \in PayoutRows
  BY <1>3, <1>4, <1>5, <1>6, <1>8, TypedGames, PayoutIsTyped
<1>10. payouts' \in Seq(PayoutRows)
  <2>1. payouts \in Seq(PayoutRows)
    BY DEF TypeInv, RowsTyped
  <2> QED
    BY <1>4, <1>9, <2>1, AppendProperties
<1>11. RowsTyped'
  BY <1>4, <1>5, <1>10 DEF TypeInv, RowsTyped
<1>12. Continues(comparisons, comparisons')
  BY <1>4 DEF Continues
<1> QED
  BY <1>1, <1>4, <1>11, <1>12, CommitTyped, EndTyped

LEMMA CommitComparisonTyped ==
  ASSUME TypeInv, NEW w \in Workers, CommitComparison(w)
  PROVE  RowsTyped' /\ RequestsTyped' /\ LockedByRequests'
<1>1. PICK r : r = requests[w]
  OBVIOUS
<1>2. PICK p, payout : p = r.subject /\ payout = payouts[p]
  OBVIOUS
<1>3. PICK row : row = Comparison(p, r.key, r.at)
  OBVIOUS
<1>4. /\ Committing(w, "comparison") /\ UNCHANGED <<payouts, preflights>>
      /\ now < payout.until /\ (row.until # 0 => now < row.until) /\ comparisons' = Append(comparisons, row)
  BY <1>1, <1>2, <1>3 DEF CommitComparison
<1>5. /\ shadows' \in Seq(ShadowRows) /\ r.kind = "comparison" /\ RequestTyped(r) /\ Asked(r) /\ r.market \in Markets
  BY <1>1, <1>4, CommitTyped
<1>6. r.key \in Keys /\ r.at \in Times /\ r.at <= now /\ p \in DOMAIN payouts /\ payout.market = r.market
  BY <1>2, <1>5 DEF RequestTyped, Asked, OfPayout
<1>7. payouts \in Seq(PayoutRows) /\ comparisons \in Seq(ComparisonRows)
  BY DEF TypeInv, RowsTyped
<1>8. p \in Nat /\ payout \in PayoutRows
  BY <1>2, <1>6, <1>7, ElementOfSeq, LenProperties
<1>9. payout.until \in Times
  BY <1>8 DEF PayoutRows
<1>10. OneQuote /\ prices[r.market] \in SUBSET PriceRows
  BY <1>5 DEF TypeInv, EvidenceTyped
<1>11. row \in ComparisonRows
  BY <1>2, <1>3, <1>4, <1>5, <1>6, <1>8, <1>9, <1>10, TypedGames, ComparisonIsTyped
<1>12. comparisons' \in Seq(ComparisonRows)
  BY <1>4, <1>7, <1>11, AppendProperties
<1>13. RowsTyped'
  BY <1>4, <1>5, <1>12 DEF TypeInv, RowsTyped
<1>14. Continues(comparisons, comparisons')
  <2>1. Sequence(comparisons)
    BY DEF TypeInv, SourceInv, LearnInv, IInv, Tables
  <2> QED
    BY <1>4, <2>1, Grown
<1> QED
  BY <1>1, <1>4, <1>13, <1>14, CommitTyped, EndTyped

LEMMA CommitPreflightTyped ==
  ASSUME TypeInv, NEW w \in Workers, CommitPreflight(w)
  PROVE  RowsTyped' /\ RequestsTyped' /\ LockedByRequests'
<1>1. PICK r : r = requests[w]
  OBVIOUS
<1>2. PICK c, row : c = r.subject /\ row = comparisons[c]
  OBVIOUS
<1>3. PICK preflight : preflight = Preflight(c, r.side, r.cap, r.key, r.at)
  OBVIOUS
<1>4. /\ Committing(w, "preflight") /\ UNCHANGED <<payouts, comparisons>>
      /\ r.side \in DOMAIN row.asks /\ (preflight.quantity > 0 => preflight.cost < 100 * preflight.quantity)
      /\ preflights' = Append(preflights, preflight)
  BY <1>1, <1>2, <1>3 DEF CommitPreflight
<1>5. /\ shadows' \in Seq(ShadowRows) /\ r.kind = "preflight" /\ RequestTyped(r) /\ Asked(r)
  BY <1>1, <1>4, CommitTyped
<1>6. /\ r.key \in Keys /\ r.at \in Times /\ r.side \in {"yes", "no"} /\ r.cap \in Caps /\ r.at < row.until
      /\ c \in DOMAIN comparisons
  BY <1>2, <1>5 DEF RequestTyped, Asked
<1>7. preflights \in Seq(PreflightRows) /\ comparisons \in Seq(ComparisonRows)
  BY DEF TypeInv, RowsTyped
<1>8. c \in Nat /\ row \in ComparisonRows
  BY <1>2, <1>6, <1>7, ElementOfSeq, LenProperties
<1>9. row.until \in Times
  <2>1. row.until \in 0..Horizon /\ Horizon \in Nat /\ r.at \in Nat
    BY <1>6, <1>8, TimesAreNatural, EvidenceAssumption DEF ComparisonRows
  <2> QED
    BY <1>6, <2>1 DEF Times
<1>10. preflight \in PreflightRows
  BY <1>2, <1>3, <1>4, <1>6, <1>8, <1>9, PreflightIsTyped
<1>11. preflights' \in Seq(PreflightRows)
  BY <1>4, <1>7, <1>10, AppendProperties
<1>12. RowsTyped'
  BY <1>4, <1>5, <1>11 DEF TypeInv, RowsTyped
<1>13. Continues(comparisons, comparisons')
  BY <1>4 DEF Continues
<1> QED
  BY <1>1, <1>4, <1>12, <1>13, CommitTyped, EndTyped
-----------------------------------------------------------------------------
\* Every step keeps the types.

\* The evidence moves on: requests keep what they have read and locked.
LEMMA EvidenceKeepsRequests ==
  ASSUME TypeInv, EvidenceStep, UNCHANGED <<tables, requests>>
  PROVE  RowsTyped' /\ RequestsTyped' /\ LockedByRequests' /\ labels' \subseteq LabelRows /\ scores' \subseteq ScoreRows
<1>1. [ResearchNext]_researchVars
  BY DEF ResearchNext
<1>2. UNCHANGED <<shadows, payouts, comparisons, preflights, labels, scores>>
  BY DEF tables
<1>3. now <= now' /\ now \in Nat /\ now' \in Nat /\ \A m \in Markets : Continues(matches[m], matches'[m])
  BY <1>1, GamesStep, TablesGrow, TimesAreNatural DEF TypeInv, SourceInv, LearnInv, Games
<1>4. UNCHANGED locked
  BY RunAsked, StatementFrame DEF EvidenceStep, RunProceeds, ReadsBundle, ProviderStep, IngestEvent, IngestMarket,
     Tick, Judge, InsertDecision, PersistForecast, PersistOpportunities
<1>5. RowsTyped' /\ labels' \subseteq LabelRows /\ scores' \subseteq ScoreRows
  BY <1>2 DEF TypeInv, RowsTyped
<1>6. ASSUME NEW r, RequestTyped(r)
      PROVE  RequestTyped(r)'
  <2>1. r.at \in Nat /\ (r.stage = "captured" => r.shadow.at \in Nat)
    BY <1>6, TimesAreNatural DEF RequestTyped, ShadowRows
  <2>2. r.at <= now' /\ (r.stage = "captured" => r.shadow.at <= now')
    BY <1>3, <1>6, <2>1 DEF RequestTyped
  <2> QED
    BY <1>2, <1>6, <2>2 DEF RequestTyped
<1>7. RequestsTyped'
  <2>1. ASSUME NEW w \in Workers, requests'[w] # Idle
        PROVE  RequestTyped(requests[w])'
    <3>1. PICK r : r = requests[w]
      OBVIOUS
    <3>2. RequestTyped(r)
      BY <2>1, <3>1 DEF TypeInv
    <3>3. RequestTyped(r)'
      BY <1>6, <3>2
    <3> QED
      BY <3>1, <3>3 DEF RequestTyped
  <2> QED
    BY <2>1 DEF RequestsTyped
<1>8. ASSUME NEW w \in Workers
      PROVE  HeldBy(requests[w])' = HeldBy(requests[w])
  <2>1. CASE requests[w] = Idle
    BY <2>1 DEF HeldBy
  <2>2. CASE requests[w] # Idle
    <3>1. PICK r : r = requests[w]
      OBVIOUS
    <3>2. r.market \in Markets /\ r.match \in DOMAIN matches[r.market]
      BY <2>2, <3>1 DEF TypeInv, SourceInv, LearnInv, IInv, Requested, Asked
    <3>3. matches'[r.market][r.match] = matches[r.market][r.match]
      BY <1>3, <3>2 DEF Continues
    <3> QED
      BY <3>1, <3>3 DEF HeldBy, Held, RowsOf
  <2> QED
    BY <2>1, <2>2
<1>9. LockedByRequests'
  <2>1. \A x : x \in locked' <=> \E w \in Workers : x \in HeldBy(requests[w])'
    BY <1>4, <1>8, LockedMembers DEF TypeInv
  <2> QED
    BY <2>1 DEF LockedByRequests, HeldBy
<1> QED
  BY <1>5, <1>7, <1>9

\* Requests write neither evidence nor scores.
LEMMA RequestsKeepEvidence ==
  ASSUME TypeInv, NEW w \in Workers, RequestBegins(w) \/ RequestProceeds(w)
  PROVE  EvidenceTyped' /\ labels' \subseteq LabelRows /\ scores' \subseteq ScoreRows
<1>1. UNCHANGED <<markets, prices, matches, forecasts, opportunities, jobs, labels, scores>>
  <2>1. CASE RequestBegins(w)
    BY <2>1 DEF RequestBegins, BeginShadow, BeginPayout, BeginComparison, BeginPreflight, Ask, tables
  <2>2. CASE RequestProceeds(w)
    BY <2>2 DEF RequestProceeds, Validate, Capture, CommitShadow, CommitPayout, CommitComparison, CommitPreflight,
       Committing, Rollback, evidence, tables
  <2> QED
    BY <2>1, <2>2
<1> QED
  BY <1>1 DEF TypeInv, EvidenceTyped, OneQuote, JobTyped

LEMMA ProceedsTyped ==
  ASSUME CurveIsAChance, TypeInv, NEW w \in Workers, RequestProceeds(w)
  PROVE  RowsTyped' /\ RequestsTyped' /\ LockedByRequests'
<1>1. CASE Validate(w) \/ Capture(w) \/ Rollback(w)
  <2>1. UNCHANGED <<shadows, payouts, comparisons, preflights>>
    BY <1>1 DEF Validate, Capture, Rollback, tables
  <2>2. RowsTyped'
    BY <2>1 DEF TypeInv, RowsTyped
  <2> QED
    BY <1>1, <2>2, ValidateTyped, CaptureTyped, RollbackTyped
<1> QED
  BY <1>1, CommitShadowTyped, CommitPayoutTyped, CommitComparisonTyped, CommitPreflightTyped DEF RequestProceeds

\* Nothing changes but labels and scores.
LEMMA Unmoved ==
  ASSUME TypeInv, UNCHANGED <<now, events, markets, prices, matches, forecasts, opportunities, locked, jobs, crew>>,
         UNCHANGED <<shadows, payouts, comparisons, preflights, requests>>
  PROVE  EvidenceTyped' /\ RowsTyped' /\ RequestsTyped' /\ LockedByRequests'
<1>1. EvidenceTyped' /\ RowsTyped'
  BY DEF TypeInv, EvidenceTyped, OneQuote, JobTyped, RowsTyped
<1>2. RequestsTyped'
  BY DEF TypeInv, RequestsTyped, RequestTyped
<1>3. LockedByRequests'
  BY DEF TypeInv, LockedByRequests, Held, RowsOf
<1> QED
  BY <1>1, <1>2, <1>3

LEMMA LabelTyped ==
  ASSUME TypeInv, NEW w \in Workers, NEW s \in 1..Len(shadows), Label(w, s)
  PROVE  labels' \subseteq LabelRows
<1>1. PICK e, game : e = shadows[s].event /\ game = events[e]
  OBVIOUS
<1>2. shadows \in Seq(ShadowRows)
  BY DEF TypeInv, RowsTyped
<1>3. s \in Nat /\ shadows[s] \in ShadowRows
  BY <1>2, ElementOfSeq, LenProperties
<1>4. e \in Events
  BY <1>1, <1>3 DEF ShadowRows
<1>5. game.status = "final" /\ labels' = labels \cup {LabelOf(s, game)}
  BY <1>1 DEF Label, Scorable
<1>6. LabelOf(s, game) \in LabelRows
  BY <1>1, <1>3, <1>4, <1>5, TypedGames, LabelIsTyped
<1> QED
  BY <1>5, <1>6 DEF TypeInv

LEMMA EvaluateTyped ==
  ASSUME TypeInv, NEW purpose, Evaluate(purpose)
  PROVE  scores' \subseteq ScoreRows
<1>1. PICK found : found = {f \in Canonical(purpose) : Evaluable(forecasts[f], events[forecasts[f].event])}
  OBVIOUS
<1>2. scores' = scores \cup {Score(f, events[forecasts[f].event]) : f \in found}
  BY <1>1 DEF Evaluate
<1>3. ASSUME NEW f \in found
      PROVE  Score(f, events[forecasts[f].event]) \in ScoreRows
  <2>1. f \in DOMAIN forecasts /\ Evaluable(forecasts[f], events[forecasts[f].event])
    BY <1>1 DEF Canonical, Newest
  <2>2. forecasts \in Seq(ForecastRows)
    BY DEF TypeInv, EvidenceTyped
  <2>3. f \in Nat /\ forecasts[f] \in ForecastRows
    BY <2>1, <2>2, ElementOfSeq, LenProperties
  <2> QED
    BY <2>1, <2>3, TypedGames, ScoreIsTyped
<1> QED
  BY <1>2, <1>3 DEF TypeInv

LEMMA TypedInitially == ResearchInit => TypeInv
<1> SUFFICES ASSUME ResearchInit PROVE TypeInv
  OBVIOUS
<1>1. SourceInv
  BY SourceInitially
<1>2. \A w \in Workers : jobs[w] = Idle /\ requests[w] = Idle
  BY DEF ResearchInit, EvidenceInit
<1>3. JobTyped(Idle)
  BY DEF JobTyped, Idle, BundleKinds
<1>4. EvidenceTyped
  <2>1. markets \in [Markets -> MarketRows] /\ prices \in [Markets -> SUBSET PriceRows]
    <3>1. crew.anchors \subseteq [occurrence : 0..Horizon, close : 0..Horizon + 1]
      BY EvidenceAssumption DEF ResearchInit, EvidenceInit
    <3>2. 1 \in Times
      BY EvidenceAssumption DEF Times
    <3>3. ASSUME NEW a \in crew.anchors
          PROVE  [occurrence |-> a.occurrence, close |-> a.close, open |-> TRUE, seen |-> 1] \in MarketRows
      BY <3>1, <3>2 DEF MarketRows
    <3>4. prices \in [Markets -> SUBSET PriceRows]
      BY DEF ResearchInit, EvidenceInit
    <3>5. markets \in [Markets -> {[occurrence |-> a.occurrence, close |-> a.close, open |-> TRUE, seen |-> 1] : a \in crew.anchors}]
      BY DEF ResearchInit, EvidenceInit
    <3> DEFINE first == {[occurrence |-> a.occurrence, close |-> a.close, open |-> TRUE, seen |-> 1] : a \in crew.anchors}
    <3>6. first \subseteq MarketRows
      BY <3>3
    <3> HIDE DEF first
    <3>7. \A f, S, T, U : f \in [S -> T] /\ T \subseteq U => f \in [S -> U]
      OBVIOUS
    <3>8. markets \in [Markets -> first]
      BY <3>5 DEF first
    <3> QED
      BY <3>4, <3>6, <3>7, <3>8
  <2>2. OneQuote
    BY DEF ResearchInit, EvidenceInit, OneQuote
  <2>3. (\A m \in Markets : matches[m] = <<>>) /\ forecasts = <<>> /\ opportunities = {}
    BY DEF ResearchInit, EvidenceInit
  <2>4. \A S : <<>> \in Seq(S)
    BY EmptySeq
  <2> QED
    BY <1>2, <1>3, <2>1, <2>2, <2>3, <2>4 DEF EvidenceTyped
<1>5. RowsTyped
  <2>1. shadows = <<>> /\ payouts = <<>> /\ comparisons = <<>> /\ preflights = <<>>
    BY DEF ResearchInit
  <2>2. \A S : <<>> \in Seq(S)
    BY EmptySeq
  <2> QED
    BY <2>1, <2>2 DEF RowsTyped
<1>6. labels = {} /\ scores = {} /\ locked = {}
  BY DEF ResearchInit, EvidenceInit, ScoresInit
<1>7. LockedByRequests
  BY <1>2, <1>6 DEF LockedByRequests
<1> QED
  BY <1>1, <1>2, <1>4, <1>5, <1>6, <1>7 DEF TypeInv

LEMMA TypedStep ==
  ASSUME CurveIsAChance, TypeInv, [ResearchNext]_researchVars
  PROVE  TypeInv'
<1>1. SourceInv'
  BY SourceStep DEF TypeInv
<1> DEFINE Rest == /\ EvidenceTyped' /\ RowsTyped' /\ RequestsTyped' /\ LockedByRequests'
                   /\ labels' \subseteq LabelRows /\ scores' \subseteq ScoreRows
<1>2. Rest => TypeInv'
  BY <1>1 DEF TypeInv, RequestsTyped
<1>3. ASSUME EvidenceStep, UNCHANGED <<tables, requests>>
      PROVE  Rest
  BY <1>3, EvidenceStepTyped, EvidenceKeepsRequests
<1>4. ASSUME NEW w \in Workers, RequestBegins(w)
      PROVE  Rest
  BY <1>4, BeginsTyped, RequestsKeepEvidence
<1>5. ASSUME NEW w \in Workers, RequestProceeds(w)
      PROVE  Rest
  BY <1>5, ProceedsTyped, RequestsKeepEvidence
<1>6. ASSUME NEW w \in Workers, NEW s \in 1..Len(shadows), Label(w, s)
      PROVE  Rest
  <2>1. /\ UNCHANGED <<now, events, markets, prices, matches, forecasts, opportunities, locked, jobs, crew>>
        /\ UNCHANGED <<shadows, payouts, comparisons, preflights, requests>> /\ UNCHANGED scores
    BY <1>6 DEF Label
  <2>2. scores' \subseteq ScoreRows
    BY <2>1 DEF TypeInv
  <2> QED
    BY <1>6, <2>1, <2>2, LabelTyped, Unmoved
<1>7. ASSUME NEW purpose, Evaluate(purpose), UNCHANGED <<shadows, payouts, comparisons, preflights, labels, requests>>
      PROVE  Rest
  <2>1. /\ UNCHANGED <<now, events, markets, prices, matches, forecasts, opportunities, locked, jobs, crew>>
        /\ UNCHANGED <<shadows, payouts, comparisons, preflights, requests>> /\ UNCHANGED labels
    BY <1>7 DEF Evaluate
  <2>2. labels' \subseteq LabelRows
    BY <2>1 DEF TypeInv
  <2> QED
    BY <1>7, <2>1, <2>2, EvaluateTyped, Unmoved
<1>8. ASSUME UNCHANGED researchVars
      PROVE  Rest
  <2>1. /\ UNCHANGED <<now, events, markets, prices, matches, forecasts, opportunities, locked, jobs, crew>>
        /\ UNCHANGED <<shadows, payouts, comparisons, preflights, requests>> /\ UNCHANGED <<labels, scores>>
    BY <1>8 DEF researchVars, evidence
  <2>2. labels' \subseteq LabelRows /\ scores' \subseteq ScoreRows
    BY <2>1 DEF TypeInv
  <2> QED
    BY <2>1, <2>2, Unmoved
<1> HIDE DEF Rest
<1>9. Rest
  BY <1>3, <1>4, <1>5, <1>6, <1>7, <1>8 DEF ResearchNext
<1> QED
  BY <1>2, <1>9

\* Every table of the research chain holds rows of its type, whatever its workers
\* have read, lost or left behind, and a row is locked exactly as long as a
\* request past its validation holds it; the logistic curve gives a chance.
THEOREM TypeTheorem ==
  ASSUME CurveIsAChance
  PROVE  ResearchSpec => []TypeOK
<1>1. ResearchInit => TypeInv
  BY TypedInitially
<1>2. TypeInv /\ [ResearchNext]_researchVars => TypeInv'
  BY TypedStep
<1>3. TypeInv => TypeOK
  <2> SUFFICES ASSUME TypeInv PROVE TypeOK
    OBVIOUS
  <2>1. events \in [Events -> EventRows]
    BY DEF TypeInv, SourceInv, LearnInv, Games
  <2> QED
    BY <2>1, TypedGames DEF TypeInv, EvidenceTyped, RowsTyped, LockedByRequests, TypeOK
<1> QED
  BY <1>1, <1>2, <1>3, PTL DEF ResearchSpec

-----------------------------------------------------------------------------
\* Scores and what is reported of them. A score is immutable and so is the
\* forecast it names; which scores are reported follows the games. The sums of a
\* report are taken over the bins and over the scores.

\* How far a chance is from the result, and what that amounts to in a bin.
Missed(s) == forecasts[s.forecast].chance - IF s.won = "home" THEN 100 ELSE 0

Absolute(d) == IF d < 0 THEN -d ELSE d

ScoredRow(s) ==
  /\ forecasts[s.forecast].chance \in 0..100 /\ s.brier \in 0..WorstBrier
  /\ s.correct \in {"yes", "no", "abstained"}

LEMMA MissedIsBounded ==
  ASSUME NEW s, ScoredRow(s)
  PROVE  Missed(s) \in Int /\ -100 <= Missed(s) /\ Missed(s) <= 100
<1>1. PICK chance \in 0..100 : chance = forecasts[s.forecast].chance
  BY DEF ScoredRow
<1> QED
  BY <1>1 DEF Missed

LEMMA GapOfABin ==
  ASSUME NEW bin, IsFiniteSet(bin), \A s \in bin : ScoredRow(s),
         NEW missed, \A s \in bin : missed[s] = Missed(s)
  PROVE  /\ SumFunctionOnSet(missed, bin) \in Int
         /\ Gap(bin) = Absolute(SumFunctionOnSet(missed, bin))
<1>1. \A s \in bin : missed[s] \in Int
  BY MissedIsBounded
<1>2. PICK f : f = [s \in bin |-> forecasts[s.forecast].chance - IF s.won = "home" THEN 100 ELSE 0]
  OBVIOUS
<1>3. \A s \in bin : f[s] = missed[s]
  BY <1>2 DEF Missed
<1>4. SumFunctionOnSet(f, bin) = SumFunctionOnSet(missed, bin) /\ DOMAIN f = bin
  BY <1>1, <1>2, <1>3, SumAgree
<1>5. Gap(bin) = Absolute(SumFunction(f))
  BY <1>2 DEF Gap, Absolute
<1>6. SumFunctionOnSet(missed, bin) \in Int
  BY <1>1, SumType
<1> QED
  BY <1>4, <1>5, <1>6 DEF SumFunction

LEMMA BinOfAScore ==
  ASSUME NEW s, ScoredRow(s)
  PROVE  Bin(s) \in 0..BinCount - 1
<1>1. PICK chance \in 0..100 : chance = forecasts[s.forecast].chance
  BY DEF ScoredRow
<1>2. (chance * 10) \div 100 \in 0..10
  BY <1>1
<1> QED
  BY <1>1, <1>2 DEF Bin, BinCount

\* The bins hold every score once, no bin is off by more than its samples allow,
\* and together they are off by no less than the whole.
LEMMA CalibrationAddsUp ==
  ASSUME NEW reported, IsFiniteSet(reported), \A s \in reported : ScoredRow(s),
         NEW calibration, calibration = Calibration(reported)
  PROVE  /\ SumFunction(calibration.samples) = Cardinality(reported)
         /\ \A k \in DOMAIN calibration.samples : calibration.wins[k] <= calibration.samples[k]
         /\ calibration.brier <= WorstBrier * Cardinality(reported)
         /\ calibration.error <= 100 * Cardinality(reported)
         /\ calibration.error >= Gap(reported)
<1>1. PICK K : K = 0..BinCount - 1
  OBVIOUS
<1>2. PICK bins : bins = [k \in K |-> {s \in reported : Bin(s) = k}]
  OBVIOUS
<1>3. PICK samples, wins, gaps, briers :
        /\ samples = [k \in K |-> Cardinality(bins[k])]
        /\ wins = [k \in K |-> Cardinality({s \in bins[k] : s.won = "home"})]
        /\ gaps = [k \in K |-> Gap(bins[k])]
        /\ briers = [s \in reported |-> s.brier]
  OBVIOUS
<1>4. /\ calibration.samples = samples /\ calibration.wins = wins
      /\ calibration.brier = SumFunction(briers) /\ calibration.error = SumFunction(gaps)
  BY <1>1, <1>2, <1>3 DEF Calibration
<1>5. PICK class, missed, ones, misses :
        /\ class = [s \in reported |-> Bin(s)]
        /\ missed = [s \in reported |-> Missed(s)]
        /\ ones = [s \in reported |-> 1]
        /\ misses = [k \in K |-> SumFunctionOnSet(missed, bins[k])]
  OBVIOUS
<1>6. IsFiniteSet(K) /\ \A s \in reported : class[s] \in K
  <2>1. IsFiniteSet(0..9)
    <3>1. \A a, b \in Int : IsFiniteSet(a..b)
      BY FS_Interval
    <3>2. 0 \in Int /\ 9 \in Int
      OBVIOUS
    <3> QED
      BY <3>1, <3>2, Zenon
  <2>2. K = 0..9
    BY <1>1 DEF BinCount
  <2>3. IsFiniteSet(K)
    BY <2>1, <2>2, Zenon
  <2> QED
    BY <1>1, <1>5, <2>3, BinOfAScore
<1>7. ASSUME NEW k \in K
      PROVE  /\ bins[k] = {s \in reported : class[s] = k} /\ IsFiniteSet(bins[k])
             /\ \A s \in bins[k] : s \in reported
  <2>1. bins[k] = {s \in reported : class[s] = k}
    BY <1>2, <1>5
  <2>2. bins[k] \in SUBSET reported
    BY <2>1
  <2> QED
    BY <2>1, <2>2, FS_Subset
<1>8. \A s \in reported : /\ missed[s] \in Int /\ missed[s] = Missed(s) /\ ones[s] = 1
                          /\ -(100 * ones[s]) <= missed[s] /\ missed[s] <= 100 * ones[s]
  BY <1>5, MissedIsBounded
<1>9. ASSUME NEW k \in K
      PROVE  /\ samples[k] = SumFunctionOnSet(ones, bins[k]) /\ samples[k] \in Nat
             /\ misses[k] = SumFunctionOnSet(missed, bins[k]) /\ misses[k] \in Int
             /\ gaps[k] = Absolute(misses[k])
             /\ -(100 * samples[k]) <= misses[k] /\ misses[k] <= 100 * samples[k]
             /\ wins[k] <= samples[k]
  <2>1. PICK bin : bin = bins[k]
    OBVIOUS
  <2>2. IsFiniteSet(bin) /\ \A s \in bin : s \in reported
    BY <1>7, <2>1
  <2>3. samples[k] = Cardinality(bin) /\ samples[k] \in Nat
    BY <1>3, <2>1, <2>2, FS_CardinalityType
  <2>4. SumFunctionOnSet(ones, bin) = Cardinality(bin)
    BY <1>8, <2>2, SumOfOnes
  <2>5. SumFunctionOnSet(missed, bin) \in Int /\ Gap(bin) = Absolute(SumFunctionOnSet(missed, bin))
    BY <1>8, <2>2, GapOfABin
  <2>6. \A s \in bin : missed[s] \in Int /\ ones[s] \in Int
    BY <1>8, <2>2
  <2>7. \A s \in bin : -(100 * ones[s]) <= missed[s] /\ missed[s] <= 100 * ones[s]
    BY <1>8, <2>2
  <2>8. /\ -(100 * SumFunctionOnSet(ones, bin)) <= SumFunctionOnSet(missed, bin)
        /\ SumFunctionOnSet(missed, bin) <= 100 * SumFunctionOnSet(ones, bin)
    BY <2>2, <2>6, <2>7, SumWithin
  <2>9. Cardinality({s \in bin : s.won = "home"}) <= Cardinality(bin)
    BY <2>2, FS_Subset
  <2>10. misses[k] = SumFunctionOnSet(missed, bin)
    BY <1>5, <2>1
  <2>11. gaps[k] = Gap(bin) /\ wins[k] = Cardinality({s \in bin : s.won = "home"})
    BY <1>3, <2>1
  <2> QED
    BY <2>1, <2>3, <2>4, <2>5, <2>8, <2>9, <2>10, <2>11
<1>10. (\A s \in reported : ones[s] \in Int) /\ (\A s \in reported : missed[s] \in Int)
  BY <1>8
<1>11. \A k \in K : \A s : s \in bins[k] <=> s \in reported /\ class[s] = k
  BY <1>7
<1>12. SumFunction(samples) = Cardinality(reported)
  <2>1. \A k \in K : samples[k] = SumFunctionOnSet(ones, bins[k])
    BY <1>9
  <2>2. SumFunctionOnSet(samples, K) = SumFunctionOnSet(ones, reported)
    BY <1>6, <1>10, <1>11, <2>1, SumOfClasses
  <2>3. SumFunctionOnSet(ones, reported) = Cardinality(reported) /\ DOMAIN samples = K
    BY <1>3, <1>8, SumOfOnes
  <2> QED
    BY <2>2, <2>3 DEF SumFunction
<1>13. SumFunction(briers) <= WorstBrier * Cardinality(reported)
  <2>1. WorstBrier = 10000
    BY DEF WorstBrier
  <2>2. \A s \in reported : /\ briers[s] \in Int /\ ones[s] \in Int
                            /\ -(10000 * ones[s]) <= briers[s] /\ briers[s] <= 10000 * ones[s]
    <3> SUFFICES ASSUME NEW s \in reported
                 PROVE  /\ briers[s] \in Int /\ ones[s] \in Int
                        /\ -(10000 * ones[s]) <= briers[s] /\ briers[s] <= 10000 * ones[s]
      OBVIOUS
    <3>1. ScoredRow(s)
      OBVIOUS
    <3>2. PICK b \in 0..WorstBrier : b = s.brier
      BY <3>1 DEF ScoredRow
    <3>3. briers[s] = b /\ ones[s] = 1
      BY <1>3, <1>8, <3>2
    <3>4. b \in Int /\ -(10000 * 1) <= b /\ b <= 10000 * 1
      BY <2>1
    <3> QED
      BY <3>3, <3>4
  <2>3. SumFunctionOnSet(briers, reported) <= 10000 * SumFunctionOnSet(ones, reported)
    BY <2>2, SumWithin
  <2>4. SumFunctionOnSet(ones, reported) = Cardinality(reported) /\ DOMAIN briers = reported
    BY <1>3, <1>8, SumOfOnes
  <2> QED
    BY <2>1, <2>3, <2>4 DEF SumFunction
<1>14. SumFunction(gaps) = SumFunctionOnSet(gaps, K)
  BY <1>3 DEF SumFunction
<1>15. \A k \in K : gaps[k] \in Int
  BY <1>9 DEF Absolute
<1>16. SumFunction(gaps) <= 100 * Cardinality(reported)
  <2>1. \A k \in K : -(100 * samples[k]) <= gaps[k] /\ gaps[k] <= 100 * samples[k] /\ samples[k] \in Int
    BY <1>9 DEF Absolute
  <2>2. SumFunctionOnSet(gaps, K) <= 100 * SumFunctionOnSet(samples, K)
    BY <1>6, <1>15, <2>1, SumWithin
  <2>3. SumFunctionOnSet(samples, K) = SumFunction(samples)
    BY <1>3 DEF SumFunction
  <2> QED
    BY <1>12, <1>14, <2>2, <2>3
<1>17. SumFunction(gaps) >= Gap(reported)
  <2>1. \A k \in K : /\ misses[k] \in Int
                     /\ -(1 * gaps[k]) <= misses[k] /\ misses[k] <= 1 * gaps[k]
    BY <1>9, <1>15 DEF Absolute
  <2>2. /\ -(1 * SumFunctionOnSet(gaps, K)) <= SumFunctionOnSet(misses, K)
        /\ SumFunctionOnSet(misses, K) <= 1 * SumFunctionOnSet(gaps, K)
    BY <1>6, <1>15, <2>1, SumWithin
  <2>3. SumFunctionOnSet(misses, K) = SumFunctionOnSet(missed, reported)
    <3>1. \A k \in K : misses[k] = SumFunctionOnSet(missed, bins[k])
      BY <1>9
    <3> QED
      BY <1>6, <1>10, <1>11, <3>1, SumOfClasses
  <2>4. /\ SumFunctionOnSet(missed, reported) \in Int
        /\ Gap(reported) = Absolute(SumFunctionOnSet(missed, reported))
    BY <1>8, GapOfABin
  <2>5. SumFunctionOnSet(gaps, K) \in Int
    BY <1>6, <1>15, SumType
  <2> QED
    BY <1>14, <2>2, <2>3, <2>4, <2>5 DEF Absolute
<1> QED
  BY <1>3, <1>4, <1>9, <1>12, <1>13, <1>16, <1>17

-----------------------------------------------------------------------------
\* What a score and the forecast it names have in common, from then on.

LearnedBefore(row) == \A k \in DOMAIN row.training : row.training[k].start < row.asOf

\* The score is the one its forecast gets on the result that the score carries.
FromItsForecast(s) ==
  /\ s.forecast \in DOMAIN forecasts
  /\ s = Score(s.forecast, s)
  /\ forecasts[s.forecast].asOf <= s.start

ScoreInv ==
  /\ TypeInv
  /\ \A i \in DOMAIN forecasts : forecasts[i].at <= now /\ LearnedBefore(forecasts[i])
  /\ \A s \in scores : FromItsForecast(s)

LEMMA ForecastRow ==
  ASSUME TypeInv, NEW f \in DOMAIN forecasts
  PROVE  f \in Nat /\ forecasts[f] \in ForecastRows
<1>1. forecasts \in Seq(ForecastRows)
  BY DEF TypeInv, EvidenceTyped
<1> QED
  BY <1>1, ElementOfSeq, LenProperties

LEMMA ScoresMove ==
  ASSUME [ResearchNext]_researchVars
  PROVE  UNCHANGED scores \/ \E purpose \in {"operational", "replay"} : Evaluate(purpose)
<1>1. ASSUME NEW w \in Workers, RequestBegins(w)
      PROVE  UNCHANGED scores
  BY <1>1 DEF RequestBegins, BeginShadow, BeginPayout, BeginComparison, BeginPreflight, Ask, tables
<1>2. ASSUME NEW w \in Workers, RequestProceeds(w)
      PROVE  UNCHANGED scores
  BY <1>2 DEF RequestProceeds, Validate, Capture, CommitShadow, CommitPayout, CommitComparison, CommitPreflight,
     Committing, Rollback, tables
<1>3. CASE (\E w \in Workers, s \in 1..Len(shadows) : Label(w, s)) \/ UNCHANGED researchVars
  BY <1>3 DEF Label, researchVars, tables
<1>4. CASE EvidenceStep /\ UNCHANGED <<tables, requests>>
  BY <1>4 DEF tables
<1> QED
  BY <1>1, <1>2, <1>3, <1>4 DEF ResearchNext

\* A new forecast is of the present at most and learned from games before its
\* cutoff.
LEMMA ForecastIsOfItsTime ==
  ASSUME TypeInv, NEW w \in Workers, PersistForecast(w)
  PROVE  \E row : /\ forecasts' = AppendNew(forecasts, row, ForecastKey)
                  /\ row.at <= now /\ LearnedBefore(row)
<1>1. PICK job : job = jobs[w]
  OBVIOUS
<1>2. PICK asOf : asOf = IF job.purpose = "operational" THEN job.at ELSE job.row.start
  OBVIOUS
<1>3. PICK row : row = Forecast(job, asOf)
  OBVIOUS
<1>4. forecasts' = AppendNew(forecasts, row, ForecastKey) /\ Learns(job)
  BY <1>1, <1>2, <1>3 DEF PersistForecast, TypeInv, SourceInv, LearnInv
<1>5. PICK training : training = Training(asOf)
  OBVIOUS
<1>6. row.at = job.at /\ row.asOf = asOf /\ row.training = training
  BY <1>3, <1>5 DEF Forecast
<1>7. \A k \in DOMAIN training : training[k].start < asOf
  <2>1. PICK played : played = {f \in Played : events[f].start < asOf}
    OBVIOUS
  <2>2. played \in SUBSET Events /\ training = InOrder(played)
    BY <1>5, <2>1 DEF Played, Training
  <2>3. ASSUME NEW k \in DOMAIN training
        PROVE  training[k].start < asOf
    <3>1. PICK g : g = training[k].game
      OBVIOUS
    <3>2. g \in played /\ training[k] = Result(g)
      BY <2>2, <3>1, TypedGames, InOrderResults
    <3> QED
      BY <2>1, <3>2 DEF Result
  <2> QED
    BY <2>3
<1>8. row.at <= now
  BY <1>4, <1>6 DEF Learns, Aimed
<1>9. LearnedBefore(row)
  BY <1>6, <1>7 DEF LearnedBefore
<1> QED
  BY <1>4, <1>8, <1>9

LEMMA EvaluatedScores ==
  ASSUME TypeInv, NEW purpose, Evaluate(purpose), NEW s \in scores' \ scores
  PROVE  FromItsForecast(s)
<1>1. PICK found : found = {f \in Canonical(purpose) : Evaluable(forecasts[f], events[forecasts[f].event])}
  OBVIOUS
<1>2. PICK f \in found : s = Score(f, events[forecasts[f].event])
  BY <1>1 DEF Evaluate
<1>3. f \in DOMAIN forecasts
  BY <1>1 DEF Canonical, Newest
<1>4. PICK forecast, game : forecast = forecasts[f] /\ game = events[forecast.event]
  OBVIOUS
<1>5. Evaluable(forecast, game) /\ forecast \in ForecastRows
  BY <1>1, <1>3, <1>4, ForecastRow
<1>6. /\ s.forecast = f /\ s.start = game.start /\ s.home = game.home /\ s.away = game.away
      /\ s.won = game.won
  BY <1>2, <1>4 DEF Score
<1>7. s = Score(f, s)
  BY <1>2, <1>4, <1>6 DEF Score
<1>8. game \in EventRows
  BY <1>4, <1>5, TypedGames DEF ForecastRows
<1>9. forecast.asOf \in Nat /\ game.start \in Nat
  BY <1>5, <1>8, TimesAreNatural DEF ForecastRows, EventRows
<1>10. forecast.asOf <= game.start
  BY <1>5, <1>9 DEF Evaluable, ForecastRows
<1> QED
  BY <1>3, <1>4, <1>6, <1>7, <1>10 DEF FromItsForecast

LEMMA ScoreInitially == ResearchInit => ScoreInv
<1> SUFFICES ASSUME ResearchInit PROVE ScoreInv
  OBVIOUS
<1>1. TypeInv
  BY TypedInitially
<1>2. forecasts = <<>> /\ scores = {}
  BY DEF ResearchInit, EvidenceInit, ScoresInit
<1> QED
  BY <1>1, <1>2 DEF ScoreInv

LEMMA ScoreStep ==
  ASSUME CurveIsAChance, ScoreInv, [ResearchNext]_researchVars
  PROVE  ScoreInv'
<1>1. TypeInv' /\ LearnInv
  BY TypedStep DEF ScoreInv, TypeInv, SourceInv
<1>2. Continues(forecasts, forecasts') /\ now <= now'
  BY <1>1, TablesGrow, GamesStep DEF LearnInv
<1>3. now \in Nat /\ now' \in Nat
  BY <1>1, TypedGames, TimesAreNatural DEF ScoreInv, TypeInv, SourceInv, LearnInv, Games
<1>4. ASSUME NEW i \in DOMAIN forecasts'
      PROVE  forecasts'[i].at <= now' /\ LearnedBefore(forecasts'[i])
  <2>1. CASE i \in DOMAIN forecasts
    <3>1. forecasts'[i] = forecasts[i] /\ forecasts[i].at <= now /\ LearnedBefore(forecasts[i])
      BY <1>2, <2>1 DEF Continues, ScoreInv
    <3>2. forecasts[i].at \in Nat
      BY <2>1, ForecastRow, TimesAreNatural DEF ScoreInv, ForecastRows
    <3> QED
      BY <1>2, <1>3, <3>1, <3>2
  <2>2. CASE i \notin DOMAIN forecasts
    <3>1. PICK w \in Workers : PersistForecast(w)
      BY <1>4, <2>2, JobsMove, StatementFrame DEF BeginForecast
    <3>2. PICK row : /\ forecasts' = AppendNew(forecasts, row, ForecastKey)
                     /\ row.at <= now /\ LearnedBefore(row)
      BY <3>1, ForecastIsOfItsTime DEF ScoreInv
    <3>3. forecasts' = Append(forecasts, row)
      BY <1>4, <2>2, <3>2 DEF AppendNew
    <3>4. forecasts'[i] = row
      BY <1>1, <1>4, <2>2, <3>3, AppendSequence DEF LearnInv
    <3>5. now' = now
      BY <3>1 DEF PersistForecast
    <3> QED
      BY <3>2, <3>4, <3>5
  <2> QED
    BY <2>1, <2>2
<1>5. ASSUME NEW s \in scores, FromItsForecast(s)
      PROVE  FromItsForecast(s)'
  <2>1. PICK f : f = s.forecast
    OBVIOUS
  <2>2. f \in DOMAIN forecasts' /\ forecasts'[f] = forecasts[f]
    BY <1>2, <1>5, <2>1 DEF Continues, FromItsForecast
  <2>3. Score(f, s)' = Score(f, s)
    BY <2>2 DEF Score
  <2> QED
    BY <1>5, <2>1, <2>2, <2>3 DEF FromItsForecast
<1>6. \A s \in scores' : FromItsForecast(s)'
  <2>1. CASE UNCHANGED scores
    BY <1>5, <2>1 DEF ScoreInv
  <2>2. ASSUME NEW purpose \in {"operational", "replay"}, Evaluate(purpose)
        PROVE  \A s \in scores' : FromItsForecast(s)'
    <3>1. UNCHANGED forecasts
      BY <2>2 DEF Evaluate
    <3>2. ASSUME NEW s \in scores' \ scores
          PROVE  FromItsForecast(s)'
      <4>1. FromItsForecast(s)
        BY <2>2, <3>2, EvaluatedScores DEF ScoreInv
      <4> QED
        BY <3>1, <4>1 DEF FromItsForecast, Score
    <3> QED
      BY <1>5, <3>2 DEF ScoreInv
  <2> QED
    BY <2>1, <2>2, ScoresMove
<1> QED
  BY <1>1, <1>4, <1>6 DEF ScoreInv

\* The newest forecast of a game is one.
LEMMA CanonicalIsOne ==
  ASSUME TypeInv, NEW purpose
  PROVE  /\ Canonical(purpose) \subseteq DOMAIN forecasts
         /\ \A f \in Canonical(purpose) : forecasts[f].purpose = purpose
         /\ \A f, g \in Canonical(purpose) : forecasts[f].event = forecasts[g].event => f = g
<1>1. \A f \in Canonical(purpose) : f \in DOMAIN forecasts /\ forecasts[f].purpose = purpose
  BY DEF Canonical, Newest
<1>2. ASSUME NEW f \in Canonical(purpose), NEW g \in Canonical(purpose),
             forecasts[f].event = forecasts[g].event
      PROVE  f = g
  <2>1. f \in Nat /\ g \in Nat /\ forecasts[f].at \in Nat /\ forecasts[g].at \in Nat
    BY <1>1, ForecastRow, TimesAreNatural DEF ForecastRows
  <2>2. /\ forecasts[g].at < forecasts[f].at \/ (forecasts[g].at = forecasts[f].at /\ g <= f)
        /\ forecasts[f].at < forecasts[g].at \/ (forecasts[f].at = forecasts[g].at /\ f <= g)
    BY <1>2 DEF Canonical, Newest
  <2> QED
    BY <2>1, <2>2
<1> QED
  BY <1>1, <1>2

LEMMA ReportedScore ==
  ASSUME ScoreInv, NEW purpose, NEW s \in Reported(purpose)
  PROVE  /\ s \in scores /\ s \in ScoreRows /\ s.forecast \in Canonical(purpose)
         /\ FromItsForecast(s) /\ forecasts[s.forecast] \in ForecastRows
         /\ s.event \in Events /\ s.event = forecasts[s.forecast].event
         /\ <<s.start, s.home, s.away, s.won>>
              = <<events[s.event].start, events[s.event].home, events[s.event].away, events[s.event].won>>
         /\ s.brier = Brier(forecasts[s.forecast].chance, s.won)
         /\ ScoredRow(s)
<1>1. /\ s \in scores /\ s \in ScoreRows /\ s.forecast \in Canonical(purpose)
      /\ <<s.start, s.home, s.away, s.won>>
           = <<events[s.event].start, events[s.event].home, events[s.event].away, events[s.event].won>>
  BY DEF Reported, ScoreInv, TypeInv
<1>2. FromItsForecast(s) /\ s.forecast \in DOMAIN forecasts
  BY <1>1 DEF ScoreInv, FromItsForecast
<1>3. forecasts[s.forecast] \in ForecastRows
  BY <1>2, ForecastRow DEF ScoreInv
<1>4. s.event = forecasts[s.forecast].event /\ s.brier = Brier(forecasts[s.forecast].chance, s.won)
  <2>1. PICK f, won : f = s.forecast /\ won = s.won
    OBVIOUS
  <2>2. s = Score(f, s)
    BY <1>2, <2>1 DEF FromItsForecast
  <2>3. Score(f, s).event = forecasts[f].event /\ Score(f, s).brier = Brier(forecasts[f].chance, s.won)
    BY DEF Score
  <2> QED
    BY <2>1, <2>2, <2>3
<1>5. ScoredRow(s)
  <2>1. forecasts[s.forecast].chance \in 0..100
    BY <1>3 DEF ForecastRows
  <2>2. s.brier \in 0..WorstBrier /\ s.correct \in {"yes", "no", "abstained"}
    BY <1>1 DEF ScoreRows
  <2> QED
    BY <2>1, <2>2 DEF ScoredRow
<1> QED
  BY <1>1, <1>2, <1>3, <1>4, <1>5 DEF ScoreRows

\* What is reported is one score for each game.
LEMMA ReportedOnce ==
  ASSUME ScoreInv, NEW purpose,
         NEW s \in Reported(purpose), NEW t \in Reported(purpose), s.event = t.event
  PROVE  s = t
<1>1. s.forecast = t.forecast
  BY ReportedScore, CanonicalIsOne DEF ScoreInv
<1>2. s.start = t.start /\ s.home = t.home /\ s.away = t.away /\ s.won = t.won
  BY ReportedScore
<1>3. PICK f : f = s.forecast /\ f = t.forecast
  BY <1>1
<1>4. Score(f, s) = Score(f, t)
  BY <1>2 DEF Score
<1>5. s = Score(f, s) /\ t = Score(f, t)
  BY <1>3, ReportedScore DEF FromItsForecast
<1> QED
  BY <1>4, <1>5

\* As many scores as games they are of.
LEMMA ScoresAndGames ==
  ASSUME ScoreInv, NEW purpose, NEW some \in SUBSET Reported(purpose),
         NEW games, \A e : e \in games <=> \E s \in some : s.event = e
  PROVE  IsFiniteSet(some) /\ Cardinality(games) = Cardinality(some)
<1>1. PICK game : game = [s \in some |-> s.event]
  OBVIOUS
<1>2. \A s \in some : s.event \in Events
  BY ReportedScore
<1>3. \A s, t \in some : s.event = t.event => s = t
  BY ReportedOnce
<1>4. game \in Injection(some, Events)
  BY <1>1, <1>2, <1>3 DEF Injection, IsInjective
<1>5. IsFiniteSet(some)
  BY <1>4, EvidenceAssumption, FS_Injection
<1>6. game \in Bijection(some, games)
  BY <1>1, <1>3 DEF Bijection, Injection, Surjection, IsInjective
<1>7. ExistsBijection(some, games)
  BY <1>6 DEF ExistsBijection
<1> QED
  BY <1>5, <1>7, FS_Bijection

LEMMA ReportIsValid ==
  ASSUME ScoreInv, NEW purpose, NEW reported, reported = Reported(purpose)
  PROVE  /\ Summarized(reported) /\ SummaryValid(Summary(reported))
         /\ Summary(reported).homeWins
              = Cardinality({e \in Events : events[e].won = "home" /\ \E s \in reported : s.event = e})
         /\ Summary(reported).calibration.error >= Gap(reported)
<1>1. IsFiniteSet(reported) /\ Cardinality({s.event : s \in reported}) = Cardinality(reported)
  <2>1. PICK games : games = {s.event : s \in reported}
    OBVIOUS
  <2>2. reported \in SUBSET Reported(purpose) /\ \A e : e \in games <=> \E s \in reported : s.event = e
    BY <2>1
  <2> QED
    BY <2>1, <2>2, ScoresAndGames
<1>2. PICK calibration : calibration = Calibration(reported)
  OBVIOUS
<1>3. \A s \in reported : ScoredRow(s)
  BY ReportedScore
<1>4. PICK home, decisive, correct :
        /\ home = {s \in reported : s.won = "home"}
        /\ decisive = {s \in reported : s.correct # "abstained"}
        /\ correct = {s \in reported : s.correct = "yes"}
  OBVIOUS
<1>5. PICK summary : summary = Summary(reported)
  OBVIOUS
<1>6. /\ summary.sample = Cardinality(reported) /\ summary.homeWins = Cardinality(home)
      /\ summary.decisive = Cardinality(decisive) /\ summary.correct = Cardinality(correct)
      /\ summary.calibration = calibration
  BY <1>2, <1>4, <1>5 DEF Summary
<1>7. /\ Cardinality(home) <= Cardinality(reported) /\ Cardinality(decisive) <= Cardinality(reported)
      /\ Cardinality(correct) <= Cardinality(decisive)
  <2>1. home \in SUBSET reported /\ decisive \in SUBSET reported /\ correct \in SUBSET decisive
    BY <1>4
  <2>2. IsFiniteSet(decisive)
    BY <1>1, <2>1, FS_Subset
  <2> QED
    BY <1>1, <2>1, <2>2, FS_Subset
<1>8. /\ SumFunction(calibration.samples) = Cardinality(reported)
      /\ \A k \in DOMAIN calibration.samples : calibration.wins[k] <= calibration.samples[k]
      /\ calibration.brier <= WorstBrier * Cardinality(reported)
      /\ calibration.error <= 100 * Cardinality(reported)
      /\ calibration.error >= Gap(reported)
  BY <1>1, <1>2, <1>3, CalibrationAddsUp
<1>9. SummaryValid(summary)
  BY <1>6, <1>7, <1>8 DEF SummaryValid
<1>10. Cardinality({e \in Events : events[e].won = "home" /\ \E s \in reported : s.event = e}) = Cardinality(home)
  <2>1. PICK games : games = {e \in Events : events[e].won = "home" /\ \E s \in reported : s.event = e}
    OBVIOUS
  <2>2. \A s \in reported : s.event \in Events /\ s.won = events[s.event].won
    BY ReportedScore
  <2>3. \A e : e \in games <=> \E s \in home : s.event = e
    BY <1>4, <2>1, <2>2
  <2>4. home \in SUBSET Reported(purpose)
    BY <1>4
  <2> QED
    BY <2>1, <2>3, <2>4, ScoresAndGames
<1> QED
  BY <1>1, <1>5, <1>6, <1>8, <1>9, <1>10 DEF Summarized

\* A forecast that no run would skip is not refused either.
LEMMA EvaluableIsValid ==
  ASSUME ScoreInv, NEW purpose, NEW f \in Canonical(purpose),
         NEW game, game = events[forecasts[f].event], Evaluable(forecasts[f], game)
  PROVE  InputValid(forecasts[f], game)
<1>1. PICK forecast : forecast = forecasts[f]
  OBVIOUS
<1>2. forecast \in ForecastRows /\ forecast.at <= now
  BY <1>1, CanonicalIsOne, ForecastRow DEF ScoreInv
<1>3. game \in EventRows /\ game.home # game.away
  BY <1>1, <1>2, TypedGames DEF ForecastRows, ScoreInv
<1> QED
  BY <1>1, <1>2, <1>3 DEF Evaluable, InputValid, ForecastRows

\* A reported score is of a forecast that could not know the game or a later one.
LEMMA ReportedForecast ==
  ASSUME ScoreInv, NEW purpose, NEW s \in Reported(purpose)
  PROVE  LET forecast == forecasts[s.forecast]
         IN  /\ s.brier = Brier(forecast.chance, events[s.event].won)
             /\ forecast.asOf <= events[s.event].start
             /\ \A k \in DOMAIN forecast.training : forecast.training[k].start < events[s.event].start
<1>1. PICK f, forecast, start : f = s.forecast /\ forecast = forecasts[f] /\ start = events[s.event].start
  OBVIOUS
<1>2. s.won = events[s.event].won /\ s.start = start /\ s.brier = Brier(forecast.chance, s.won)
  BY <1>1, ReportedScore
<1>3. f \in DOMAIN forecasts /\ forecast.asOf <= start /\ forecast \in ForecastRows
  BY <1>1, <1>2, ReportedScore DEF FromItsForecast
<1>4. LearnedBefore(forecast)
  BY <1>1, <1>3 DEF ScoreInv
<1>5. s.event \in Events /\ events[s.event] \in EventRows
  BY ReportedScore, TypedGames DEF ScoreInv
<1>6. start \in Nat /\ forecast.asOf \in Nat
  BY <1>1, <1>3, <1>5, TimesAreNatural DEF EventRows, ForecastRows
<1>7. ASSUME NEW k \in DOMAIN forecast.training
      PROVE  forecast.training[k].start < start
  <2>1. PICK training : training = forecast.training
    OBVIOUS
  <2>2. training \in Seq([game : Events, start : Starts, home : Teams, away : Teams, won : {"home", "away", "tie"}])
    BY <1>3, <2>1 DEF ForecastRows
  <2>3. training[k] \in [game : Events, start : Starts, home : Teams, away : Teams, won : {"home", "away", "tie"}]
    <3>1. k \in 1..Len(training)
      BY <1>7, <2>1, <2>2, LenProperties
    <3> QED
      BY <2>2, <3>1, ElementOfSeq
  <2>4. training[k].start \in Starts
    BY <2>3
  <2>5. training[k].start \in Nat
    BY <2>4, TimesAreNatural
  <2>6. training[k].start < forecast.asOf
    BY <1>4, <1>7, <2>1 DEF LearnedBefore
  <2> QED
    BY <1>3, <1>6, <2>1, <2>5, <2>6
<1> QED
  BY <1>1, <1>2, <1>3, <1>7

\* What is reported is one score for each game, of the result the game has now
\* and of a forecast that was made ahead of it, and no run or report fails a
\* validator, whatever was corrected, moved or forecast again in between; the
\* logistic curve gives a chance.
THEOREM ReportTheorem ==
  ASSUME CurveIsAChance
  PROVE  ResearchSpec => []ReportFollowsTheResults
<1>1. ResearchInit => ScoreInv
  BY ScoreInitially
<1>2. ScoreInv /\ [ResearchNext]_researchVars => ScoreInv'
  BY ScoreStep
<1>3. ScoreInv => ReportFollowsTheResults
  <2> SUFFICES ASSUME ScoreInv, NEW purpose \in {"operational", "replay"}
               PROVE  LET reported == Reported(purpose)
                          summary == Summary(reported)
                      IN  /\ Summarized(reported)
                          /\ reported # {} =>
                               /\ SummaryValid(summary)
                               /\ summary.homeWins = Cardinality({e \in Events : events[e].won = "home" /\ \E s \in reported : s.event = e})
                               /\ summary.calibration.error >= Gap(reported)
                          /\ \A f \in Canonical(purpose) :
                               LET game == events[forecasts[f].event]
                               IN  Evaluable(forecasts[f], game) => InputValid(forecasts[f], game)
                          /\ \A s \in reported :
                               LET forecast == forecasts[s.forecast]
                               IN  /\ s.brier = Brier(forecast.chance, events[s.event].won)
                                   /\ forecast.asOf <= events[s.event].start
                                   /\ \A k \in DOMAIN forecast.training : forecast.training[k].start < events[s.event].start
    BY Zenon DEF ReportFollowsTheResults
  <2>1. /\ Summarized(Reported(purpose)) /\ SummaryValid(Summary(Reported(purpose)))
        /\ Summary(Reported(purpose)).homeWins
             = Cardinality({e \in Events : events[e].won = "home" /\ \E s \in Reported(purpose) : s.event = e})
        /\ Summary(Reported(purpose)).calibration.error >= Gap(Reported(purpose))
    BY ReportIsValid
  <2>2. \A f \in Canonical(purpose) :
          LET game == events[forecasts[f].event]
          IN  Evaluable(forecasts[f], game) => InputValid(forecasts[f], game)
    BY EvaluableIsValid
  <2>3. \A s \in Reported(purpose) :
          LET forecast == forecasts[s.forecast]
          IN  /\ s.brier = Brier(forecast.chance, events[s.event].won)
              /\ forecast.asOf <= events[s.event].start
              /\ \A k \in DOMAIN forecast.training : forecast.training[k].start < events[s.event].start
    BY ReportedForecast
  <2> QED
    BY <2>1, <2>2, <2>3
<1> QED
  BY <1>1, <1>2, <1>3, PTL DEF ResearchSpec
=============================================================================
