---------------------- MODULE RiskAuthorizationProofs ----------------------
(***************************************************************************)
(* What the revalidation at execution guarantees, and what overlapping     *)
(* evaluations authorise, proved for any number of markets, requests and   *)
(* decisions, any policy and any readings of the clock.  Nothing is        *)
(* assumed about the order in which decisions are recorded.                *)
(***************************************************************************)
EXTENDS RiskAuthorization, NaturalInduction

\* A judgement agrees with the rest of the record whatever its two times are.
LEMMA FingerprintFields ==
  ASSUME NEW decision, NEW p, NEW time,
         Fingerprint(decision) = Fingerprint(Judgement(p, time))
  PROVE  /\ decision.head = head
         /\ decision.kind = Judgement(p, time).kind
<1> DEFINE judgement == Judgement(p, time)
<1>1. DOMAIN judgement =
        {"proposal", "head", "authorized", "duplicate", "tick", "open", "timely",
         "kind", "window", "validUntil", "at"}
  BY DEF Judgement
<1>2. judgement.head = head
  BY DEF Judgement
<1> HIDE DEF judgement
<1>3. [decision EXCEPT !.at = 0, !.validUntil = 0]
        = [judgement EXCEPT !.at = 0, !.validUntil = 0]
  BY DEF Fingerprint, judgement
<1>4. DOMAIN decision = DOMAIN judgement
  BY <1>3
<1>5. decision.head = judgement.head /\ decision.kind = judgement.kind
  BY <1>1, <1>3, <1>4
<1> QED
  BY <1>2, <1>5 DEF judgement

\* An approval that stands would be given again: its evidence is current and
\* nothing is held in its market.
LEMMA StandingApproval ==
  ASSUME NEW d, NEW time,
         decisions[d].kind = "auto_approve", Stands(d, time)
  PROVE  LET p == decisions[d].proposal
             market == proposals[p].market
         IN  /\ decisions[d].head = head
             /\ Current(market, proposals[p].tick, time)
             /\ market \notin holding
             /\ proposals[p].capital <= available
<1> DEFINE p == decisions[d].proposal
           counted == CountedForOthers(p, time)
           authorized == AuthorizedCapital(counted)
           duplicate == Duplicate(p, counted)
<1>1. Fingerprint(decisions[d]) = Fingerprint(Judgement(p, time))
  BY DEF Stands
<1>2. decisions[d].head = head /\ Judgement(p, time).kind = "auto_approve"
  BY <1>1, FingerprintFields
<1>3. Passes(p, time, authorized, duplicate)
  <2>1. ASSUME ~Passes(p, time, authorized, duplicate)
        PROVE  Judgement(p, time).kind = "reject"
    BY <2>1 DEF Judgement
  <2> QED
    BY <1>2, <2>1
<1>4. /\ Current(proposals[p].market, proposals[p].tick, time) /\ ~duplicate
      /\ proposals[p].capital <= available
  BY <1>3 DEF Passes
<1>5. proposals[p].market \notin holding
  BY <1>4 DEF Duplicate
<1> QED
  BY <1>2, <1>4, <1>5

-----------------------------------------------------------------------------
(* Fills rest on current evidence.                                         *)

\* The only step that fills a decision is its Fill.
LEMMA FillsAreFills ==
  ASSUME [Next]_vars, NEW d \in DOMAIN decisions,
         trades'[d] = "filled", trades[d] # "filled"
  PROVE  \E cost \in Costs : Fill(d, cost)
<1>1. CASE UNCHANGED trades
  BY <1>1
<1>2. CASE \E e \in DOMAIN decisions, affordable \in BOOLEAN : Reject(e, affordable)
  BY <1>2 DEF Reject
<1>3. CASE \E e \in DOMAIN decisions, cost \in Costs : Fill(e, cost)
  <2>1. PICK e \in DOMAIN decisions, cost \in Costs : Fill(e, cost)
    BY <1>3
  <2>2. trades' = [trades EXCEPT ![e] = "filled"]
    BY <2>1 DEF Fill
  <2>3. e = d
    BY <2>2
  <2> QED
    BY <2>1, <2>3
<1> QED
  BY <1>1, <1>2, <1>3
     DEF Next, vars, Tick, Republish, Publish, ChangeStatus, Monitor, BeginSizing,
         PersistProposal, BeginRisk, Evaluate, FailToRecord, CheckBalance

\* Whatever happened between an approval and its execution, a fill rests on the
\* newest evidence of an open market in which nothing is held.
THEOREM EvidenceTheorem == Spec => FillsRestOnCurrentEvidence
<1>1. ASSUME [Next]_vars
      PROVE  \A d \in DOMAIN decisions :
               trades'[d] = "filled" /\ Unused(d) =>
                 LET proposal == proposals[decisions[d].proposal]
                 IN  /\ sources[proposal.market].open
                     /\ sources[proposal.market].tick = proposal.tick
                     /\ proposal.market \notin holding
  <2>1. SUFFICES ASSUME NEW d \in DOMAIN decisions,
                        trades'[d] = "filled", trades[d] = "none"
                 PROVE  LET proposal == proposals[decisions[d].proposal]
                        IN  /\ sources[proposal.market].open
                            /\ sources[proposal.market].tick = proposal.tick
                            /\ proposal.market \notin holding
    BY DEF Unused
  <2>2. PICK cost \in Costs : Fill(d, cost)
    BY <1>1, <2>1, FillsAreFills
  <2>3. decisions[d].kind = "auto_approve" /\ Stands(d, clock)
    BY <2>2 DEF Fill
  <2> QED
    BY <2>3, StandingApproval DEF Current
<1> QED
  BY <1>1, PTL DEF Spec, FillsRestOnCurrentEvidence

-----------------------------------------------------------------------------
(* A snapshot is spent once.                                               *)

\* Decisions are rows of an append-only table, one trade each at most.
DecisionTable ==
  /\ \E Records : decisions \in Seq(Records)
  /\ Len(decisions) <= DecisionLimit
  /\ DOMAIN trades = 1..DecisionLimit

\* What was filled was authorised against a head that has been replaced.
SpentHeads ==
  /\ head \in Nat
  /\ \A d \in 1..DecisionLimit : trades[d] = "filled" =>
       /\ d \in DOMAIN decisions
       /\ decisions[d].head \in Nat /\ decisions[d].head < head

OneFillInvariant == DecisionTable /\ SpentHeads /\ OneFillPerSnapshot

LEMMA DecisionsAreAppended ==
  ASSUME DecisionTable, [Next]_vars
  PROVE  /\ DecisionTable'
         /\ DOMAIN decisions \subseteq DOMAIN decisions'
         /\ \A d \in DOMAIN decisions : decisions'[d] = decisions[d]
         /\ decisions' # decisions =>
              /\ UNCHANGED <<clock, head, trades, proposals>>
              /\ DOMAIN decisions' = DOMAIN decisions \union {Len(decisions) + 1}
              /\ \E w \in Requests, p \in DOMAIN proposals :
                   /\ Evaluate(w, p)
                   /\ decisions'[Len(decisions) + 1] = Judgement(p, requests[w].at)
<1>1. PICK Records : decisions \in Seq(Records)
  BY DEF DecisionTable
<1>2. Len(decisions) <= DecisionLimit /\ DOMAIN trades = 1..DecisionLimit
  BY DEF DecisionTable
<1>3. DOMAIN trades' = DOMAIN trades
  BY DEF Next, vars, Tick, Republish, Publish, ChangeStatus, Monitor, BeginSizing,
         PersistProposal, BeginRisk, Evaluate, FailToRecord, CheckBalance, Fill, Reject
<1>4. CASE UNCHANGED decisions
  BY <1>1, <1>2, <1>3, <1>4 DEF DecisionTable
<1>5. CASE \E w \in Requests, p \in DOMAIN proposals :
             Evaluate(w, p) /\ decisions' # decisions
  <2>1. PICK w \in Requests, p \in DOMAIN proposals :
               Evaluate(w, p) /\ decisions' # decisions
    BY <1>5
  <2> DEFINE judgement == Judgement(p, requests[w].at)
  <2>2. decisions' = Append(decisions, judgement) /\ Len(decisions) < DecisionLimit
    BY <2>1 DEF Evaluate
  <2>3. UNCHANGED <<clock, head, trades, proposals>>
    BY <2>1 DEF Evaluate, ledger
  <2> HIDE DEF judgement
  <2>4. decisions' \in Seq(Records \union {judgement})
    BY <1>1, <2>2
  <2>5. /\ Len(decisions') = Len(decisions) + 1 /\ Len(decisions) \in Nat
        /\ DOMAIN decisions = 1..Len(decisions)
        /\ DOMAIN decisions' = 1..Len(decisions')
        /\ \A d \in 1..Len(decisions) : decisions'[d] = decisions[d]
        /\ decisions'[Len(decisions) + 1] = judgement
    BY <1>1, <2>2, <2>4
  <2>6. DecisionTable'
    BY <1>2, <1>3, <2>2, <2>4, <2>5, RiskLimitAssumption DEF DecisionTable
  <2> QED
    BY <2>1, <2>3, <2>5, <2>6 DEF judgement
<1> QED
  BY <1>4, <1>5
     DEF Next, vars, Tick, Republish, Publish, ChangeStatus, Monitor, BeginSizing,
         PersistProposal, BeginRisk, Evaluate, FailToRecord, CheckBalance, Fill, Reject

\* Only a fill and monitoring replace the head, by its successor.
LEMMA HeadMoves ==
  ASSUME [Next]_vars, head \in Nat
  PROVE  head' \in Nat /\ head' >= head
BY DEF Next, vars, Tick, Republish, Publish, ChangeStatus, Monitor, BeginSizing, ledger,
       PersistProposal, BeginRisk, Evaluate, FailToRecord, CheckBalance, Fill, Reject, NextHead

LEMMA OneFillStep ==
  ASSUME OneFillInvariant, [Next]_vars
  PROVE  OneFillInvariant'
<1> USE DEF OneFillInvariant
<1>1. DecisionTable'
  BY DecisionsAreAppended
<1>2. head' \in Nat /\ head' >= head
  BY HeadMoves DEF SpentHeads
<1>3. DOMAIN decisions \subseteq DOMAIN decisions' /\ \A d \in DOMAIN decisions : decisions'[d] = decisions[d]
  BY DecisionsAreAppended
<1>4. DOMAIN decisions' \subseteq 1..DecisionLimit
  <2>1. PICK Records : decisions' \in Seq(Records)
    BY <1>1 DEF DecisionTable
  <2> QED
    BY <1>1, <2>1, RiskLimitAssumption DEF DecisionTable
<1>5. CASE \A d \in 1..DecisionLimit : trades'[d] = "filled" => trades[d] = "filled"
  <2>1. SpentHeads'
    BY <1>2, <1>3, <1>5 DEF SpentHeads
  <2>2. OneFillPerSnapshot'
    BY <1>3, <1>4, <1>5 DEF OneFillPerSnapshot, SpentHeads
  <2> QED
    BY <1>1, <2>1, <2>2
<1>6. CASE \E d \in DOMAIN decisions, cost \in Costs : Fill(d, cost)
  <2>1. PICK d \in DOMAIN decisions, cost \in Costs : Fill(d, cost)
    BY <1>6
  <2>2. decisions[d].kind = "auto_approve" /\ Stands(d, clock)
    BY <2>1 DEF Fill
  <2>3. decisions[d].head = head
    BY <2>2, StandingApproval
  <2>4. /\ head' = head + 1 /\ decisions' = decisions
        /\ trades' = [trades EXCEPT ![d] = "filled"]
    BY <2>1 DEF Fill, NextHead
  <2>5. SpentHeads'
    BY <1>3, <2>3, <2>4 DEF SpentHeads
  <2>6. ASSUME NEW e \in DOMAIN decisions, trades'[e] = "filled", e # d
        PROVE  decisions[e].head \in Nat /\ decisions[e].head < head
    BY <1>4, <2>4, <2>6 DEF SpentHeads
  <2>7. ASSUME NEW e \in DOMAIN decisions, NEW f \in DOMAIN decisions,
               trades'[e] = "filled", trades'[f] = "filled",
               decisions[e].head = decisions[f].head
        PROVE  e = f
    <3>1. CASE e = d \/ f = d
      BY <2>3, <2>6, <2>7, <3>1 DEF SpentHeads
    <3>2. CASE e # d /\ f # d
      BY <2>4, <2>7, <3>2 DEF OneFillPerSnapshot
    <3> QED
      BY <3>1, <3>2
  <2>8. OneFillPerSnapshot'
    BY <2>4, <2>7 DEF OneFillPerSnapshot
  <2> QED
    BY <1>1, <2>5, <2>8
<1>7. ASSUME NEW d \in 1..DecisionLimit, trades'[d] = "filled", trades[d] # "filled"
      PROVE  \E e \in DOMAIN decisions, cost \in Costs : Fill(e, cost)
  <2>1. CASE UNCHANGED trades
    BY <1>7, <2>1
  <2>2. CASE \E e \in DOMAIN decisions, affordable \in BOOLEAN : Reject(e, affordable)
    BY <1>7, <2>2 DEF Reject
  <2> QED
    BY <2>1, <2>2
       DEF Next, vars, Tick, Republish, Publish, ChangeStatus, Monitor, BeginSizing,
           PersistProposal, BeginRisk, Evaluate, FailToRecord, CheckBalance
<1> QED
  BY <1>5, <1>6, <1>7

\* Of all the approvals given against one snapshot at most one is ever filled.
THEOREM OneFillTheorem == Spec => []OneFillPerSnapshot
<1>1. Init => OneFillInvariant
  <2>1. <<>> \in Seq({}) /\ Len(<<>>) = 0 /\ DOMAIN <<>> = {}
    OBVIOUS
  <2> QED
    BY <2>1, RiskLimitAssumption
       DEF Init, OneFillInvariant, DecisionTable, SpentHeads, OneFillPerSnapshot
<1>2. OneFillInvariant => OneFillPerSnapshot
  BY DEF OneFillInvariant
<1> QED
  BY <1>1, <1>2, OneFillStep, PTL DEF Spec

-----------------------------------------------------------------------------
(* One intent in force.                                                    *)

\* Of some decisions with a time each, one is the latest.
LEMMA LatestExists ==
  ASSUME NEW time, \A d \in DOMAIN decisions : time[d] \in Int, DecisionTable,
         NEW S \in SUBSET DOMAIN decisions, S # {}
  PROVE  \E d \in S : \A e \in S : time[e] <= time[d]
<1> DEFINE HasLatest(T) == \E d \in T : \A e \in T : time[e] <= time[d]
           Good == {n \in Nat : \A T \in SUBSET (DOMAIN decisions \intersect 1..n) :
                                  T # {} => HasLatest(T)}
<1>1. 0 \in Good
  OBVIOUS
<1>2. ASSUME NEW n \in Nat, n \in Good
      PROVE  n + 1 \in Good
  <2>1. SUFFICES ASSUME NEW T \in SUBSET (DOMAIN decisions \intersect 1..(n + 1)), T # {}
                 PROVE  HasLatest(T)
    OBVIOUS
  <2> DEFINE rest == T \ {n + 1}
  <2>2. rest \in SUBSET (DOMAIN decisions \intersect 1..n)
    BY <2>1
  <2>3. CASE n + 1 \notin T
    BY <1>2, <2>1, <2>2, <2>3
  <2>4. CASE n + 1 \in T /\ rest = {}
    <3>1. T = {n + 1}
      BY <2>4
    <3> QED
      BY <2>1, <3>1
  <2>5. CASE n + 1 \in T /\ rest # {}
    <3>1. PICK d \in rest : \A e \in rest : time[e] <= time[d]
      BY <1>2, <2>2, <2>5
    <3>2. d \in T /\ time[d] \in Int /\ time[n + 1] \in Int
      BY <2>1, <2>5, <3>1
    <3>3. \A e \in T : e = n + 1 \/ time[e] <= time[d]
      BY <3>1
    <3>4. CASE time[n + 1] <= time[d]
      BY <3>2, <3>3, <3>4
    <3>5. CASE time[d] <= time[n + 1]
      <4>1. ASSUME NEW e \in T
            PROVE  time[e] <= time[n + 1]
        BY <2>1, <3>2, <3>3, <3>5
      <4> QED
        BY <2>5, <4>1
    <3> QED
      BY <3>2, <3>4, <3>5
  <2> QED
    BY <2>3, <2>4, <2>5
<1> HIDE DEF Good
<1>3. \A n \in Nat : n \in Good
  BY <1>1, <1>2, SetInduction
<1>4. Len(decisions) \in Nat /\ DOMAIN decisions = 1..Len(decisions)
  BY DEF DecisionTable
<1>5. Len(decisions) \in Good
  BY <1>3, <1>4
<1> QED
  BY <1>4, <1>5 DEF Good

\* The evidence and the requests the judgements are made from.
SoundInputs ==
  /\ clock \in Nat /\ head \in Nat
  /\ \A m \in Markets : sources[m].until \in Nat
  /\ \E Rows : proposals \in Seq(Rows)
  /\ \A p \in DOMAIN proposals : proposals[p].market \in Markets
  /\ DOMAIN requests = Requests
  /\ \A w \in Requests :
       /\ requests[w].kind = "size" => requests[w].market \in Markets
       /\ requests[w].kind \in {"size", "risk", "check"} =>
            requests[w].at \in Nat /\ requests[w].at <= clock

SoundDecisions ==
  \A d \in DOMAIN decisions :
    /\ decisions[d].proposal \in DOMAIN proposals
    /\ decisions[d].head \in Nat /\ decisions[d].head <= head
    /\ decisions[d].at \in Nat /\ decisions[d].validUntil \in Int

\* No two decisions in force, latest or not, are about one intent.
NoRivals ==
  \A d, e \in DOMAIN decisions :
    InForce(d, clock) /\ InForce(e, clock)
      /\ SameIntent(decisions[d].proposal, decisions[e].proposal)
    => decisions[d].proposal = decisions[e].proposal

IntentInvariant == DecisionTable /\ SoundInputs /\ SoundDecisions /\ NoRivals

LEMMA SoundInputsStep ==
  ASSUME SoundInputs, [Next]_vars
  PROVE  /\ SoundInputs'
         /\ DOMAIN proposals \subseteq DOMAIN proposals'
         /\ \A p \in DOMAIN proposals : proposals'[p] = proposals[p]
         /\ clock <= clock' /\ head <= head'
<1> USE DEF SoundInputs
<1>1. CASE UNCHANGED vars
  BY <1>1 DEF vars
<1>2. CASE Tick /\ UNCHANGED <<sources, published, ledger, proposals, decisions, trades, requests>>
  BY <1>2 DEF Tick, ledger
<1>3. ASSUME NEW m \in Markets, NEW sides \in Candidates, NEW exposure \in Exposures,
             NEW life \in Lives, Publish(m, sides, exposure, life)
      PROVE  SoundInputs' /\ UNCHANGED <<clock, head, proposals>>
  BY <1>3, RiskTimeAssumption DEF Publish, Republish, ledger
<1>4. ASSUME NEW m \in Markets, ChangeStatus(m)
      PROVE  SoundInputs' /\ UNCHANGED <<clock, head, proposals>>
  <2>1. \A n \in Markets : sources'[n].until = sources[n].until
    BY <1>4 DEF ChangeStatus
  <2> QED
    BY <1>4, <2>1 DEF ChangeStatus, Republish, ledger
<1>5. ASSUME NEW m \in Markets, NEW proceeds \in Costs, NEW ends \in BOOLEAN,
             Monitor(m, proceeds, ends)
      PROVE  SoundInputs' /\ UNCHANGED <<clock, proposals>> /\ head <= head'
  BY <1>5 DEF Monitor, NextHead
<1>6. ASSUME NEW w \in Requests, NEW m \in Markets, NEW side \in Sides, BeginSizing(w, m, side)
      PROVE  SoundInputs' /\ clock' = clock + 1 /\ UNCHANGED <<head, proposals>>
  BY <1>6 DEF BeginSizing, Tick, ledger
<1>7. ASSUME NEW w \in Requests, PersistProposal(w)
      PROVE  /\ SoundInputs' /\ UNCHANGED <<clock, head>>
             /\ DOMAIN proposals \subseteq DOMAIN proposals'
             /\ \A p \in DOMAIN proposals : proposals'[p] = proposals[p]
  <2> DEFINE proposal == Proposal(requests[w])
  <2>1. PICK Rows : proposals \in Seq(Rows)
    OBVIOUS
  <2>2. proposals' = proposals \/ proposals' = Append(proposals, proposal)
    BY <1>7 DEF PersistProposal
  <2>3. proposal.market \in Markets
    BY <1>7 DEF PersistProposal, Proposal
  <2> HIDE DEF proposal
  <2>4. /\ proposals' \in Seq(Rows \union {proposal})
        /\ DOMAIN proposals \subseteq DOMAIN proposals'
        /\ \A p \in DOMAIN proposals : proposals'[p] = proposals[p]
        /\ \A p \in DOMAIN proposals' \ DOMAIN proposals : proposals'[p] = proposal
    BY <2>1, <2>2
  <2>5. \A p \in DOMAIN proposals' : proposals'[p].market \in Markets
    BY <2>3, <2>4
  <2>6. UNCHANGED <<clock, sources, head>>
    BY <1>7 DEF PersistProposal, ledger
  <2>7. /\ DOMAIN requests' = Requests
        /\ \A v \in Requests :
             /\ requests'[v].kind = "size" => requests'[v].market \in Markets
             /\ requests'[v].kind \in {"size", "risk", "check"} =>
                  requests'[v].at \in Nat /\ requests'[v].at <= clock
    BY <1>7 DEF PersistProposal
  <2> QED
    BY <2>4, <2>5, <2>6, <2>7
<1>8. ASSUME NEW w \in Requests, NEW todo, BeginRisk(w, todo)
      PROVE  SoundInputs' /\ clock' = clock + 1 /\ UNCHANGED <<head, proposals>>
  BY <1>8 DEF BeginRisk, Tick, ledger
<1>9. ASSUME NEW w \in Requests, NEW p \in DOMAIN proposals, Evaluate(w, p)
      PROVE  SoundInputs' /\ UNCHANGED <<clock, head, proposals>>
  BY <1>9 DEF Evaluate, ledger
<1>10. ASSUME NEW w \in Requests, CheckBalance(w)
       PROVE  SoundInputs' /\ UNCHANGED <<clock, head, proposals>>
  BY <1>10 DEF CheckBalance, Idle, ledger
<1>10a. ASSUME NEW w \in Requests, NEW p \in DOMAIN proposals, FailToRecord(w, p)
        PROVE  SoundInputs' /\ UNCHANGED <<clock, head, proposals>>
  BY <1>10a DEF FailToRecord, Idle, ledger
<1>11. ASSUME NEW d \in DOMAIN decisions, NEW cost \in Costs, Fill(d, cost)
       PROVE  SoundInputs' /\ UNCHANGED proposals /\ clock <= clock' /\ head <= head'
  BY <1>11 DEF Fill, Tick, NextHead
<1>12. ASSUME NEW d \in DOMAIN decisions, NEW affordable \in BOOLEAN, Reject(d, affordable)
       PROVE  SoundInputs' /\ UNCHANGED <<head, proposals>> /\ clock <= clock'
  BY <1>12 DEF Reject, Tick, ledger
<1> HIDE DEF SoundInputs
<1>13. clock \in Nat /\ head \in Nat
  BY DEF SoundInputs
<1>14. CASE \E m \in Markets :
              \/ \E sides \in Candidates, exposure \in Exposures, life \in Lives :
                   Publish(m, sides, exposure, life)
              \/ ChangeStatus(m)
              \/ \E proceeds \in Costs, ends \in BOOLEAN : Monitor(m, proceeds, ends)
  BY <1>3, <1>4, <1>5, <1>13, <1>14
<1>15. CASE \E w \in Requests :
              \/ \E m \in Markets, side \in Sides : BeginSizing(w, m, side)
              \/ PersistProposal(w)
              \/ BeginRisk(w, DOMAIN proposals)
              \/ \E p \in DOMAIN proposals : BeginRisk(w, {p}) \/ Evaluate(w, p) \/ FailToRecord(w, p)
              \/ CheckBalance(w)
  <2>1. PICK w \in Requests :
              \/ \E m \in Markets, side \in Sides : BeginSizing(w, m, side)
              \/ PersistProposal(w)
              \/ BeginRisk(w, DOMAIN proposals)
              \/ \E p \in DOMAIN proposals : BeginRisk(w, {p}) \/ Evaluate(w, p) \/ FailToRecord(w, p)
              \/ CheckBalance(w)
    BY <1>15
  <2>2. CASE \E m \in Markets, side \in Sides : BeginSizing(w, m, side)
    BY <1>6, <1>13, <2>2
  <2>3. CASE PersistProposal(w)
    BY <1>7, <1>13, <2>3
  <2>4. CASE \E todo : BeginRisk(w, todo)
    BY <1>8, <1>13, <2>4
  <2>5. CASE \E p \in DOMAIN proposals : Evaluate(w, p)
    BY <1>9, <1>13, <2>5
  <2>6. CASE CheckBalance(w)
    BY <1>10, <1>13, <2>6
  <2>7. CASE \E p \in DOMAIN proposals : FailToRecord(w, p)
    BY <1>10a, <1>13, <2>7
  <2> QED
    BY <2>1, <2>2, <2>3, <2>4, <2>5, <2>6, <2>7
<1>16. CASE \E d \in DOMAIN decisions :
              \/ \E cost \in Costs : Fill(d, cost)
              \/ \E affordable \in BOOLEAN : Reject(d, affordable)
  BY <1>11, <1>12, <1>13, <1>16
<1> QED
  BY <1>1, <1>2, <1>14, <1>15, <1>16 DEF Next

\* A judgement that gives authority was reached on a check of the intent, and
\* its authority ends with the window or with the evidence.
LEMMA AuthorityOfJudgement ==
  ASSUME SoundInputs, NEW p \in DOMAIN proposals, NEW time \in Nat
  PROVE  LET judgement == Judgement(p, time)
         IN  /\ judgement.proposal = p /\ judgement.head = head
             /\ judgement.at = time /\ judgement.validUntil \in Int
             /\ judgement.validUntil # 0 => ~Duplicate(p, CountedForOthers(p, time))
<1> DEFINE counted == CountedForOthers(p, time)
           authorized == AuthorizedCapital(counted)
           duplicate == Duplicate(p, counted)
           judgement == Judgement(p, time)
<1>1. sources[proposals[p].market].until \in Nat
  BY DEF SoundInputs
<1>2. WindowEnd(time) \in Int
  BY RiskTimeAssumption DEF WindowEnd
<1>3. judgement.proposal = p /\ judgement.head = head /\ judgement.at = time
  BY DEF Judgement
<1>4. judgement.validUntil =
        IF ~Passes(p, time, authorized, duplicate) THEN 0
        ELSE IF WindowEnd(time) <= sources[proposals[p].market].until THEN WindowEnd(time)
        ELSE sources[proposals[p].market].until
  BY DEF Judgement
<1>5. judgement.validUntil # 0 => Passes(p, time, authorized, duplicate)
  BY <1>4
<1>6. Passes(p, time, authorized, duplicate) => ~duplicate
  BY DEF Passes
<1>7. judgement.validUntil \in Int
  <2> HIDE DEF judgement, counted, authorized, duplicate
  <2> QED
    BY <1>1, <1>2, <1>4
<1> QED
  BY <1>3, <1>5, <1>6, <1>7

\* If anything about an intent is in force, something about it is counted.
LEMMA IntentIsCounted ==
  ASSUME DecisionTable, SoundDecisions, NEW time, NEW d \in DOMAIN decisions, InForce(d, time)
  PROVE  \E c \in Counted(time) : decisions[c].proposal = decisions[d].proposal
<1> DEFINE S == {e \in DOMAIN decisions :
                   InForce(e, time) /\ decisions[e].proposal = decisions[d].proposal}
           at == [e \in DOMAIN decisions |-> decisions[e].at]
<1>1. S \in SUBSET DOMAIN decisions /\ S # {}
  OBVIOUS
<1>2. \A e \in DOMAIN decisions : at[e] \in Int
  BY DEF SoundDecisions
<1>3. PICK c \in S : \A e \in S : at[e] <= at[c]
  <2> HIDE DEF S, at
  <2> QED
    BY <1>1, <1>2, LatestExists
<1>4. c \in Counted(time)
  BY <1>3 DEF Counted
<1> QED
  BY <1>3, <1>4

\* What is in force after a step that decides nothing was in force before it.
LEMMA ForceOnlyEnds ==
  ASSUME IntentInvariant, [Next]_vars, NEW d \in DOMAIN decisions, InForce(d, clock)'
  PROVE  InForce(d, clock)
<1> USE DEF IntentInvariant
<1>1. decisions'[d] = decisions[d] /\ d \in DOMAIN decisions'
  BY DecisionsAreAppended
<1>2. clock <= clock' /\ head <= head' /\ clock \in Nat /\ head \in Nat
      /\ clock' \in Nat /\ head' \in Nat
  BY SoundInputsStep DEF SoundInputs
<1>3. decisions[d].head <= head /\ decisions[d].head \in Nat /\ decisions[d].validUntil \in Int
  BY DEF SoundDecisions
<1>4. decisions[d].validUntil > clock' /\ decisions[d].head = head' /\ trades'[d] = "none"
  BY <1>1 DEF InForce, Unused
<1>5. decisions[d].validUntil > clock /\ decisions[d].head = head
  BY <1>2, <1>3, <1>4
<1>6. d \in DOMAIN trades
  BY RiskLimitAssumption DEF DecisionTable
<1>7. trades[d] = "none"
  <2>1. CASE UNCHANGED trades
    BY <1>4, <2>1
  <2>2. CASE \E e \in DOMAIN decisions, affordable \in BOOLEAN : Reject(e, affordable)
    BY <1>4, <1>6, <2>2 DEF Reject
  <2>3. CASE \E e \in DOMAIN decisions, cost \in Costs : Fill(e, cost)
    BY <1>4, <1>6, <2>3 DEF Fill
  <2> QED
    BY <2>1, <2>2, <2>3
       DEF Next, vars, Tick, Republish, Publish, ChangeStatus, Monitor, BeginSizing,
           PersistProposal, BeginRisk, Evaluate, FailToRecord, CheckBalance
<1> QED
  BY <1>5, <1>7 DEF InForce, Unused

\* Nothing in force is about the intent of a judgement that gives authority,
\* though it may have been reached as of an earlier reading of the clock.
LEMMA NoRivalOfJudgement ==
  ASSUME IntentInvariant, NEW p \in DOMAIN proposals, NEW time \in Nat, time <= clock,
         Judgement(p, time).validUntil # 0,
         NEW e \in DOMAIN decisions, InForce(e, clock), SameIntent(p, decisions[e].proposal)
  PROVE  decisions[e].proposal = p
<1> USE DEF IntentInvariant
<1>1. clock \in Nat /\ decisions[e].validUntil \in Int
  BY DEF SoundInputs, SoundDecisions
<1>2. InForce(e, time)
  BY <1>1 DEF InForce
<1>3. PICK c \in Counted(time) : decisions[c].proposal = decisions[e].proposal
  BY <1>2, IntentIsCounted
<1>4. SUFFICES ASSUME decisions[e].proposal # p
               PROVE  FALSE
  OBVIOUS
<1>5. c \in CountedForOthers(p, time) /\ SameIntent(p, decisions[c].proposal)
  BY <1>3, <1>4 DEF CountedForOthers
<1>6. Duplicate(p, CountedForOthers(p, time))
  BY <1>5 DEF Duplicate
<1> QED
  BY <1>6, AuthorityOfJudgement

LEMMA IntentStep ==
  ASSUME IntentInvariant, [Next]_vars
  PROVE  IntentInvariant'
<1> USE DEF IntentInvariant
<1>1. /\ DecisionTable' /\ SoundInputs'
      /\ DOMAIN proposals \subseteq DOMAIN proposals'
      /\ \A p \in DOMAIN proposals : proposals'[p] = proposals[p]
      /\ clock <= clock' /\ head <= head'
      /\ clock \in Nat /\ head \in Nat /\ clock' \in Nat /\ head' \in Nat
  BY DecisionsAreAppended, SoundInputsStep DEF SoundInputs
<1>2. /\ DOMAIN decisions \subseteq DOMAIN decisions'
      /\ \A d \in DOMAIN decisions : decisions'[d] = decisions[d]
  BY DecisionsAreAppended
<1>3. ASSUME NEW d \in DOMAIN decisions
      PROVE  /\ decisions'[d].proposal \in DOMAIN proposals
             /\ decisions'[d].proposal \in DOMAIN proposals'
             /\ decisions'[d].head \in Nat /\ decisions'[d].head <= head'
             /\ decisions'[d].at \in Nat /\ decisions'[d].validUntil \in Int
  <2>1. decisions[d].head \in Nat /\ decisions[d].head <= head
    BY DEF SoundDecisions
  <2> QED
    BY <1>1, <1>2, <2>1 DEF SoundDecisions
<1>4. ASSUME NEW d \in DOMAIN decisions, NEW e \in DOMAIN decisions,
             InForce(d, clock)', InForce(e, clock)',
             SameIntent(decisions[d].proposal, decisions[e].proposal)'
      PROVE  decisions'[d].proposal = decisions'[e].proposal
  <2>1. InForce(d, clock) /\ InForce(e, clock)
    BY <1>4, ForceOnlyEnds
  <2>2. SameIntent(decisions[d].proposal, decisions[e].proposal)
    BY <1>1, <1>2, <1>3, <1>4 DEF SameIntent
  <2> QED
    BY <1>2, <2>1, <2>2 DEF NoRivals
<1>5. CASE decisions' = decisions
  BY <1>1, <1>3, <1>4, <1>5 DEF SoundDecisions, NoRivals
<1>6. CASE decisions' # decisions
  <2> PICK new : new = Len(decisions) + 1
    OBVIOUS
  <2>1. /\ UNCHANGED <<clock, head, trades, proposals>>
        /\ DOMAIN decisions' = DOMAIN decisions \union {new}
    BY <1>6, DecisionsAreAppended
  <2>2. PICK w \in Requests, p \in DOMAIN proposals :
               Evaluate(w, p) /\ decisions'[new] = Judgement(p, requests[w].at)
    BY <1>6, DecisionsAreAppended
  <2> DEFINE time == requests[w].at
  <2>3. time \in Nat /\ time <= clock
    BY <2>2 DEF Evaluate, SoundInputs
  <2>4. /\ decisions'[new].proposal = p /\ decisions'[new].head = head
        /\ decisions'[new].at = time /\ decisions'[new].validUntil \in Int
    BY <2>2, <2>3, AuthorityOfJudgement
  <2>5. SoundDecisions'
    BY <1>1, <1>3, <2>1, <2>3, <2>4 DEF SoundDecisions
  <2>6. ASSUME NEW e \in DOMAIN decisions, InForce(new, clock)', InForce(e, clock)',
               \/ SameIntent(decisions[new].proposal, decisions[e].proposal)'
               \/ SameIntent(decisions[e].proposal, decisions[new].proposal)'
        PROVE  decisions'[e].proposal = p
    <3>1. InForce(e, clock)
      BY <2>6, ForceOnlyEnds
    <3>2. Judgement(p, time).validUntil # 0
      BY <1>1, <2>2, <2>6 DEF InForce
    <3>3. SameIntent(p, decisions[e].proposal)
      BY <1>2, <2>1, <2>4, <2>6 DEF SameIntent
    <3> QED
      BY <1>2, <2>3, <3>1, <3>2, <3>3, NoRivalOfJudgement
  <2> HIDE DEF time
  <2>7. NoRivals'
    <3>1. SUFFICES ASSUME NEW d \in DOMAIN decisions', NEW e \in DOMAIN decisions',
                          InForce(d, clock)', InForce(e, clock)',
                          SameIntent(decisions[d].proposal, decisions[e].proposal)'
                   PROVE  decisions'[d].proposal = decisions'[e].proposal
      BY DEF NoRivals
    <3>2. CASE d \in DOMAIN decisions /\ e \in DOMAIN decisions
      BY <1>4, <3>1, <3>2
    <3>3. CASE d = new /\ e \in DOMAIN decisions
      BY <2>4, <2>6, <3>1, <3>3
    <3>4. CASE e = new /\ d \in DOMAIN decisions
      BY <2>4, <2>6, <3>1, <3>4
    <3> QED
      BY <2>1, <3>1, <3>2, <3>3, <3>4
  <2> QED
    BY <1>1, <2>5, <2>7
<1> QED
  BY <1>5, <1>6

LEMMA IntentInit ==
  Init => IntentInvariant
<1>1. <<>> \in Seq({}) /\ Len(<<>>) = 0 /\ DOMAIN <<>> = {}
  OBVIOUS
<1>2. Init => DecisionTable
  BY <1>1, RiskLimitAssumption DEF Init, DecisionTable
<1>3. Init => SoundInputs
  <2>1. SUFFICES ASSUME Init PROVE SoundInputs
    OBVIOUS
  <2>2. clock \in Nat /\ head \in Nat
    BY <2>1 DEF Init
  <2>3. \A m \in Markets : sources[m].until \in Nat
    BY <2>1, RiskTimeAssumption DEF Init
  <2>4. (\E Rows : proposals \in Seq(Rows)) /\ DOMAIN proposals = {}
    BY <1>1, <2>1 DEF Init
  <2>5. DOMAIN requests = Requests /\ \A w \in Requests : requests[w].kind = "idle"
    BY <2>1 DEF Init, Idle
  <2> QED
    BY <2>2, <2>3, <2>4, <2>5 DEF SoundInputs
<1>4. Init => SoundDecisions /\ NoRivals
  BY <1>1 DEF Init, SoundDecisions, NoRivals
<1> QED
  BY <1>2, <1>3, <1>4 DEF IntentInvariant

\* However many requests overlap, and in whatever order their clocks were read,
\* two approvals or escalations in force never cover one market and side.
THEOREM OneIntentTheorem == Spec => []OneIntentInForce
<1>1. Init => IntentInvariant
  BY IntentInit
<1>2. IntentInvariant => OneIntentInForce
  BY DEF IntentInvariant, NoRivals, OneIntentInForce, Counted
<1> QED
  BY <1>1, <1>2, IntentStep, PTL DEF Spec

-----------------------------------------------------------------------------
(* Authorised capital fits the bankroll.                                   *)

\* What some of the proposals ask for together.
Chosen(count, capital, S) == [p \in 1..count |-> IF p \in S THEN capital[p] ELSE 0]

Asked == [p \in 1..Len(proposals) |-> proposals[p].capital]

TotalAsked(S) == TotalOf(Len(proposals), Chosen(Len(proposals), Asked, S))

LEMMA ChosenType ==
  ASSUME NEW count \in Nat, NEW capital \in [1..count -> Nat], NEW S
  PROVE  Chosen(count, capital, S) \in [1..count -> Nat] /\ Chosen(count, capital, S) \in [1..count -> Int]
BY DEF Chosen

LEMMA FewerAskLess ==
  ASSUME NEW count \in Nat, NEW capital \in [1..count -> Nat], NEW S, NEW T, S \subseteq T
  PROVE  TotalOf(count, Chosen(count, capital, S)) <= TotalOf(count, Chosen(count, capital, T))
<1> DEFINE some == Chosen(count, capital, S)
           more == Chosen(count, capital, T)
<1>1. some \in [1..count -> Int] /\ more \in [1..count -> Int]
  BY ChosenType
<1>2. \A r \in 1..count : some[r] <= more[r]
  BY DEF Chosen
<1> HIDE DEF some, more
<1>3. TotalOf(count, some) <= TotalOf(count, more)
  BY <1>1, <1>2, RowTotalMonotone
<1> QED
  BY <1>3 DEF some, more

LEMMA OneMoreAsks ==
  ASSUME NEW count \in Nat, NEW capital \in [1..count -> Nat], NEW S, NEW p \in 1..count, p \notin S
  PROVE  TotalOf(count, Chosen(count, capital, S \union {p}))
           = TotalOf(count, Chosen(count, capital, S)) + capital[p]
<1> DEFINE some == Chosen(count, capital, S)
<1>1. some \in [1..count -> Int] /\ some[p] = 0 /\ capital[p] \in Int
  BY ChosenType DEF Chosen
<1>2. Chosen(count, capital, S \union {p}) = [some EXCEPT ![p] = capital[p]]
  BY DEF Chosen
<1> HIDE DEF some
<1>3. TotalOf(count, [some EXCEPT ![p] = capital[p]]) = TotalOf(count, some) - some[p] + capital[p]
  BY <1>1, RowTotalUpdate
<1>4. TotalOf(count, some) \in Int
  BY <1>1, RowTotalType
<1> QED
  BY <1>1, <1>2, <1>3, <1>4 DEF some

\* A proposal that nobody has decided on adds nothing.
LEMMA NewProposalAsksNothing ==
  ASSUME NEW count \in Nat, NEW capital \in [1..count -> Nat], NEW longer \in [1..(count + 1) -> Nat],
         \A p \in 1..count : longer[p] = capital[p], NEW S, count + 1 \notin S
  PROVE  TotalOf(count + 1, Chosen(count + 1, longer, S)) = TotalOf(count, Chosen(count, capital, S))
<1> DEFINE more == Chosen(count + 1, longer, S)
           some == Chosen(count, capital, S)
<1>1. more \in [1..(count + 1) -> Int] /\ more[count + 1] = 0 /\ some \in [1..count -> Int]
  <2>1. count + 1 \in Nat /\ count + 1 \in 1..(count + 1)
    OBVIOUS
  <2> QED
    BY <2>1, ChosenType DEF Chosen
<1>2. [p \in 1..count |-> more[p]] = some
  BY DEF Chosen
<1> HIDE DEF more, some
<1>3. TotalOf(count + 1, more) = TotalOf(count, [p \in 1..count |-> more[p]]) + more[count + 1]
  BY <1>1, RowTotalExtend
<1>4. TotalOf(count, some) \in Int
  BY <1>1, RowTotalType
<1>5. TotalOf(count + 1, more) = TotalOf(count, some)
  <2>1. TotalOf(count, [p \in 1..count |-> more[p]]) = TotalOf(count, some)
    BY <1>2, Zenon
  <2>2. TotalOf(count + 1, more) = TotalOf(count, some) + more[count + 1]
    BY <1>3, <2>1, Zenon
  <2> QED
    BY <1>1, <1>4, <2>2
<1> QED
  BY <1>5 DEF more, some

\* Money, and what it is computed from, is not negative.
Amounts ==
  /\ available \in Nat
  /\ \A m \in Markets : sources[m].exposure \in Nat
  /\ \A p \in DOMAIN proposals : proposals[p].capital \in Nat
  /\ \A w \in Requests :
       requests[w].kind = "size" => requests[w].available \in Nat /\ requests[w].exposure \in Nat

\* Against one head of the ledger a proposal is approved or escalated, and every
\* authority that was given to it is of the same kind.
Automatic(p) == proposals[p].capital * 100 < AutoApproveMax * available

Kinds ==
  \A d \in DOMAIN decisions :
    decisions[d].head = head /\ decisions[d].validUntil # 0 =>
      (decisions[d].kind = "auto_approve" <=> Automatic(decisions[d].proposal))

\* The proposals that have an automatic authority in force at a time, latest or not.
Forced(time) ==
  {p \in DOMAIN proposals :
     Automatic(p) /\ \E d \in DOMAIN decisions : InForce(d, time) /\ decisions[d].proposal = p}

Fits == TotalAsked(Forced(clock)) <= available

CapitalInvariant == IntentInvariant /\ Amounts /\ Kinds /\ Fits

LEMMA ProposalTable ==
  ASSUME SoundInputs, Amounts
  PROVE  Len(proposals) \in Nat /\ DOMAIN proposals = 1..Len(proposals) /\ Asked \in [1..Len(proposals) -> Nat]
<1>1. Len(proposals) \in Nat /\ DOMAIN proposals = 1..Len(proposals)
  BY DEF SoundInputs
<1> QED
  BY <1>1 DEF Asked, Amounts

\* What the query counts at a time is what is in force then, and each proposal once.
LEMMA CountedIsForced ==
  ASSUME IntentInvariant, Amounts, Kinds, NEW time \in Nat, NEW q
  PROVE  /\ AuthorizedCapital(Counted(time)) = TotalAsked(Forced(time))
         /\ AuthorizedCapital(CountedForOthers(q, time)) = TotalAsked(Forced(time) \ {q})
<1> USE DEF IntentInvariant
<1> DEFINE Automated(p, counted) == \E d \in counted : decisions[d].proposal = p /\ decisions[d].kind = "auto_approve"
<1>1. Len(proposals) \in Nat /\ DOMAIN proposals = 1..Len(proposals)
  BY ProposalTable
<1>2. \A d \in DOMAIN decisions : InForce(d, time) =>
        (decisions[d].kind = "auto_approve" <=> Automatic(decisions[d].proposal))
  BY DEF InForce, Kinds, SoundDecisions
<1>3. ASSUME NEW p \in 1..Len(proposals)
      PROVE  Automated(p, Counted(time)) <=> p \in Forced(time)
  <2>1. ASSUME Automated(p, Counted(time))
        PROVE  p \in Forced(time)
    BY <1>1, <1>2, <2>1 DEF Counted, Forced
  <2>2. ASSUME p \in Forced(time)
        PROVE  Automated(p, Counted(time))
    <3>1. PICK d \in DOMAIN decisions : InForce(d, time) /\ decisions[d].proposal = p
      BY <2>2 DEF Forced
    <3>2. PICK c \in Counted(time) : decisions[c].proposal = p
      BY <3>1, IntentIsCounted
    <3>3. c \in DOMAIN decisions /\ InForce(c, time) /\ Automatic(p)
      BY <2>2, <3>2 DEF Counted, Forced
    <3> QED
      BY <1>2, <3>2, <3>3
  <2> QED
    BY <2>1, <2>2
<1>4. ASSUME NEW p \in 1..Len(proposals)
      PROVE  Automated(p, CountedForOthers(q, time)) <=> p \in Forced(time) \ {q}
  <2>1. Automated(p, CountedForOthers(q, time)) <=> p # q /\ Automated(p, Counted(time))
    BY DEF CountedForOthers
  <2> QED
    BY <1>3, <2>1
<1>5. ASSUME NEW counted, NEW S, \A p \in 1..Len(proposals) : Automated(p, counted) <=> p \in S
      PROVE  AuthorizedCapital(counted) = TotalAsked(S)
  <2>1. Chosen(Len(proposals), Asked, S)
          = [p \in 1..Len(proposals) |-> IF Automated(p, counted) THEN proposals[p].capital ELSE 0]
    BY <1>5 DEF Chosen, Asked
  <2> QED
    BY <2>1 DEF AuthorizedCapital, TotalAsked
<1> HIDE DEF Automated
<1> QED
  BY <1>3, <1>4, <1>5

\* The head moves on alone, with whatever it makes available, or nothing of the
\* ledger does.
LEMMA LedgerMoves ==
  ASSUME CapitalInvariant, [Next]_vars
  PROVE  /\ Amounts'
         /\ \/ head' = head /\ available' = available
            \/ head' = head + 1 /\ UNCHANGED <<decisions, proposals>>
<1>1. CASE UNCHANGED vars \/ (Tick /\ UNCHANGED <<sources, published, ledger, proposals, decisions, trades, requests>>)
  BY <1>1 DEF CapitalInvariant, Amounts, vars, ledger
<1>2. ASSUME NEW m \in Markets, NEW sides \in Candidates, NEW exposure \in Exposures,
             NEW life \in Lives, Publish(m, sides, exposure, life)
      PROVE  Amounts' /\ UNCHANGED ledger
  <2>1. exposure \in Nat
    BY RiskMoneyAssumption
  <2> QED
    BY <1>2, <2>1 DEF CapitalInvariant, Amounts, Publish, Republish, ledger
<1>3. ASSUME NEW m \in Markets, ChangeStatus(m)
      PROVE  Amounts' /\ UNCHANGED ledger
  <2>1. \A n \in Markets : sources'[n].exposure = sources[n].exposure
    BY <1>3 DEF ChangeStatus
  <2> QED
    BY <1>3, <2>1 DEF CapitalInvariant, Amounts, ChangeStatus, Republish, ledger
<1>4. ASSUME NEW m \in Markets, NEW proceeds \in Costs, NEW ends \in BOOLEAN, Monitor(m, proceeds, ends)
      PROVE  Amounts' /\ head' = head + 1 /\ UNCHANGED <<decisions, proposals>>
  <2>1. proceeds \in Nat
    BY RiskMoneyAssumption
  <2> QED
    BY <1>4, <2>1 DEF CapitalInvariant, Amounts, Monitor, NextHead
<1>5. ASSUME NEW w \in Requests, NEW m \in Markets, NEW side \in Sides, BeginSizing(w, m, side)
      PROVE  Amounts' /\ UNCHANGED ledger
  BY <1>5 DEF CapitalInvariant, Amounts, BeginSizing, ledger
<1>6. ASSUME NEW w \in Requests, PersistProposal(w)
      PROVE  Amounts' /\ UNCHANGED ledger
  <2>1. PICK proposal : proposal = Proposal(requests[w])
    OBVIOUS
  <2>2. /\ UNCHANGED <<available, head, holding, sources>>
        /\ proposals' = proposals \/ (proposals' = Append(proposals, proposal) /\ proposal.capital >= 1)
        /\ \A v \in Requests : requests'[v].kind = "size" => requests'[v] = requests[v]
    BY <1>6, <2>1 DEF PersistProposal, ledger, CapitalInvariant, IntentInvariant, SoundInputs
  <2>3. proposal.capital \in Int
    <3>1. requests[w].available \in Nat /\ requests[w].exposure \in Nat
      BY <1>6 DEF CapitalInvariant, Amounts, PersistProposal
    <3>2. \A a, b \in Nat : (a * b) \div 100 \in Int
      <4>1. \A a, b \in Nat : a * b \in Int
        OBVIOUS
      <4>2. \A n \in Int : n \div 100 \in Int
        OBVIOUS
      <4> QED
        BY <4>1, <4>2
    <3> QED
      BY <2>1, <3>1, <3>2 DEF Proposal
  <2>4. PICK Rows : proposals \in Seq(Rows)
    BY DEF CapitalInvariant, IntentInvariant, SoundInputs
  <2>5. \A p \in DOMAIN proposals' : proposals'[p].capital \in Nat
    <3>1. CASE proposals' = proposals
      BY <3>1 DEF CapitalInvariant, Amounts
    <3>2. CASE proposals' = Append(proposals, proposal) /\ proposal.capital >= 1
      <4>1. \A p \in DOMAIN proposals' \ DOMAIN proposals : proposals'[p] = proposal
        BY <2>4, <3>2
      <4>2. \A p \in DOMAIN proposals : proposals'[p] = proposals[p]
        BY <2>4, <3>2
      <4>3. proposal.capital \in Nat
        BY <2>3, <3>2
      <4> QED
        BY <4>1, <4>2, <4>3 DEF CapitalInvariant, Amounts
    <3> QED
      BY <2>2, <3>1, <3>2
  <2> QED
    BY <2>2, <2>5 DEF CapitalInvariant, Amounts, ledger
<1>7. ASSUME NEW w \in Requests, NEW todo, BeginRisk(w, todo)
      PROVE  Amounts' /\ UNCHANGED ledger
  BY <1>7 DEF CapitalInvariant, Amounts, BeginRisk, ledger
<1>8. ASSUME NEW w \in Requests, NEW p \in DOMAIN proposals, Evaluate(w, p) \/ FailToRecord(w, p)
      PROVE  Amounts' /\ UNCHANGED ledger
  <2>1. UNCHANGED <<available, head, holding, sources, proposals>>
    BY <1>8 DEF Evaluate, FailToRecord, ledger
  <2>2. \A v \in Requests : requests'[v].kind = "size" => requests'[v] = requests[v]
    <3>1. CASE Evaluate(w, p)
      <4>1. PICK next : next = [kind |-> "check", by |-> "risk", head |-> head,
                                at |-> requests[w].at, todo |-> requests[w].todo \ {p}]
        OBVIOUS
      <4>2. requests' = [requests EXCEPT ![w] = next] /\ next.kind = "check"
        BY <3>1, <4>1 DEF Evaluate
      <4> QED
        BY <4>2 DEF CapitalInvariant, IntentInvariant, SoundInputs
    <3>2. CASE FailToRecord(w, p)
      BY <3>2 DEF FailToRecord, Idle, CapitalInvariant, IntentInvariant, SoundInputs
    <3> QED
      BY <1>8, <3>1, <3>2
  <2> QED
    BY <2>1, <2>2 DEF CapitalInvariant, Amounts, ledger
<1>9. ASSUME NEW w \in Requests, CheckBalance(w)
      PROVE  Amounts' /\ UNCHANGED ledger
  BY <1>9 DEF CapitalInvariant, Amounts, CheckBalance, Idle, ledger
<1>10. ASSUME NEW d \in DOMAIN decisions, NEW cost \in Costs, Fill(d, cost)
       PROVE  Amounts' /\ head' = head + 1 /\ UNCHANGED <<decisions, proposals>>
  <2>1. decisions[d].kind = "auto_approve" /\ Stands(d, clock) /\ cost <= Capital(d) /\ cost \in Nat
    BY <1>10, RiskMoneyAssumption DEF Fill
  <2>2. Capital(d) <= available
    BY <2>1, StandingApproval DEF Capital
  <2>3. Capital(d) \in Nat
    BY DEF CapitalInvariant, IntentInvariant, SoundDecisions, Amounts, Capital
  <2>4. available' = available - cost /\ UNCHANGED <<sources, proposals, decisions, requests>> /\ head' = head + 1
    BY <1>10 DEF Fill, NextHead
  <2>5. available' \in Nat
    BY <2>1, <2>2, <2>3, <2>4 DEF CapitalInvariant, Amounts
  <2> QED
    BY <2>4, <2>5 DEF CapitalInvariant, Amounts
<1>11. ASSUME NEW d \in DOMAIN decisions, NEW affordable \in BOOLEAN, Reject(d, affordable)
       PROVE  Amounts' /\ UNCHANGED ledger
  BY <1>11 DEF CapitalInvariant, Amounts, Reject, ledger
<1>12. CASE \E m \in Markets :
              \/ \E sides \in Candidates, exposure \in Exposures, life \in Lives :
                   Publish(m, sides, exposure, life)
              \/ ChangeStatus(m)
              \/ \E proceeds \in Costs, ends \in BOOLEAN : Monitor(m, proceeds, ends)
  BY <1>2, <1>3, <1>4, <1>12 DEF ledger
<1>13. CASE \E w \in Requests :
              \/ \E m \in Markets, side \in Sides : BeginSizing(w, m, side)
              \/ PersistProposal(w)
              \/ BeginRisk(w, DOMAIN proposals)
              \/ \E p \in DOMAIN proposals : BeginRisk(w, {p}) \/ Evaluate(w, p) \/ FailToRecord(w, p)
              \/ CheckBalance(w)
  BY <1>5, <1>6, <1>7, <1>8, <1>9, <1>13 DEF ledger
<1>14. CASE \E d \in DOMAIN decisions :
              \/ \E cost \in Costs : Fill(d, cost)
              \/ \E affordable \in BOOLEAN : Reject(d, affordable)
  BY <1>10, <1>11, <1>14 DEF ledger
<1> QED
  BY <1>1, <1>12, <1>13, <1>14 DEF Next, ledger, vars

\* A judgement that gives authority found the capital of its proposal to fit
\* next to what the others are authorised to spend, and is of the kind it must be.
LEMMA JudgedCapital ==
  ASSUME NEW p, NEW time, Judgement(p, time).validUntil # 0
  PROVE  /\ AuthorizedCapital(CountedForOthers(p, time)) + proposals[p].capital <= available
         /\ Judgement(p, time).kind = "auto_approve" <=> Automatic(p)
<1> DEFINE counted == CountedForOthers(p, time)
           authorized == AuthorizedCapital(counted)
           duplicate == Duplicate(p, counted)
<1>1. Passes(p, time, authorized, duplicate)
  <2>1. ASSUME ~Passes(p, time, authorized, duplicate)
        PROVE  Judgement(p, time).validUntil = 0
    BY <2>1 DEF Judgement
  <2> QED
    BY <2>1
<1>2. Judgement(p, time).kind = IF Automatic(p) THEN "auto_approve" ELSE "require_human_approval"
  <2> HIDE DEF counted, authorized, duplicate
  <2>1. Judgement(p, time).kind = IF ~Passes(p, time, authorized, duplicate) THEN "reject"
                                  ELSE IF Automatic(p) THEN "auto_approve"
                                  ELSE "require_human_approval"
    BY DEF Judgement, Automatic, counted, authorized, duplicate
  <2> QED
    BY <1>1, <2>1
<1> QED
  BY <1>1, <1>2 DEF Passes

\* What is in force now was in force at an earlier reading of the clock.
LEMMA ForcedBefore ==
  ASSUME IntentInvariant, NEW time \in Nat, time <= clock
  PROVE  Forced(clock) \subseteq Forced(time)
<1>1. \A d \in DOMAIN decisions : InForce(d, clock) => InForce(d, time)
  BY DEF IntentInvariant, SoundInputs, SoundDecisions, InForce
<1> QED
  BY <1>1 DEF Forced

\* Without a new decision nothing comes into force.
LEMMA NothingForced ==
  ASSUME CapitalInvariant, [Next]_vars, UNCHANGED <<decisions, head, available>>
  PROVE  Forced(clock)' \subseteq Forced(clock)
<1>1. \A p \in DOMAIN proposals : proposals'[p] = proposals[p]
  BY SoundInputsStep DEF CapitalInvariant, IntentInvariant
<1>2. SUFFICES ASSUME NEW p \in Forced(clock)'
               PROVE  p \in Forced(clock)
  OBVIOUS
<1>3. PICK d \in DOMAIN decisions : InForce(d, clock)' /\ decisions[d].proposal = p
  BY <1>2 DEF Forced
<1>4. InForce(d, clock) /\ p \in DOMAIN proposals
  BY <1>3, ForceOnlyEnds DEF CapitalInvariant, IntentInvariant, SoundDecisions
<1>5. Automatic(p)
  BY <1>1, <1>2, <1>4 DEF Forced, Automatic
<1> QED
  BY <1>3, <1>4, <1>5 DEF Forced

LEMMA KindsStep ==
  ASSUME CapitalInvariant, [Next]_vars
  PROVE  Kinds'
<1> USE DEF CapitalInvariant, IntentInvariant
<1>1. \A p \in DOMAIN proposals : proposals'[p] = proposals[p]
  BY SoundInputsStep
<1>2. /\ DOMAIN decisions \subseteq DOMAIN decisions'
      /\ \A d \in DOMAIN decisions : decisions'[d] = decisions[d]
  BY DecisionsAreAppended
<1>3. CASE head' = head + 1 /\ UNCHANGED decisions
  <2>1. \A d \in DOMAIN decisions : decisions[d].head # head'
    BY <1>3 DEF SoundDecisions, SoundInputs
  <2> QED
    BY <1>3, <2>1 DEF Kinds
<1>4. CASE head' = head /\ available' = available
  <2>1. ASSUME NEW d \in DOMAIN decisions, decisions'[d].head = head', decisions'[d].validUntil # 0
        PROVE  decisions'[d].kind = "auto_approve" <=> Automatic(decisions[d].proposal)'
    <3>1. decisions[d].kind = "auto_approve" <=> Automatic(decisions[d].proposal)
      BY <1>2, <1>4, <2>1 DEF Kinds
    <3>2. Automatic(decisions[d].proposal)' <=> Automatic(decisions[d].proposal)
      BY <1>1, <1>2, <1>4 DEF Automatic, SoundDecisions
    <3> QED
      BY <1>2, <3>1, <3>2
  <2>2. CASE UNCHANGED decisions
    BY <2>1, <2>2 DEF Kinds
  <2>3. CASE decisions' # decisions
    <3> PICK new : new = Len(decisions) + 1
      OBVIOUS
    <3>1. UNCHANGED proposals /\ DOMAIN decisions' = DOMAIN decisions \union {new}
      BY <2>3, DecisionsAreAppended
    <3>2. PICK w \in Requests, p \in DOMAIN proposals :
                 Evaluate(w, p) /\ decisions'[new] = Judgement(p, requests[w].at)
      BY <2>3, DecisionsAreAppended
    <3>3. decisions'[new].proposal = p
      BY <3>2 DEF Judgement
    <3>4. decisions'[new].validUntil # 0 => (decisions'[new].kind = "auto_approve" <=> Automatic(p))
      BY <3>2, JudgedCapital
    <3>5. Automatic(p)' <=> Automatic(p)
      BY <1>4, <3>1 DEF Automatic
    <3>6. decisions'[new].validUntil # 0 =>
            (decisions'[new].kind = "auto_approve" <=> Automatic(decisions[new].proposal)')
      BY <3>3, <3>4, <3>5 DEF Automatic
    <3> QED
      BY <2>1, <3>1, <3>6 DEF Kinds
  <2> QED
    BY <2>2, <2>3
<1> QED
  BY <1>3, <1>4, LedgerMoves

\* A row of proposals is added, or none is.
LEMMA ProposalsGrow ==
  ASSUME [Next]_vars
  PROVE  proposals' = proposals \/ \E row : proposals' = Append(proposals, row)
<1>1. CASE UNCHANGED proposals
  BY <1>1
<1>2. CASE \E w \in Requests : PersistProposal(w)
  BY <1>2 DEF PersistProposal
<1> QED
  BY <1>1, <1>2
     DEF Next, vars, Tick, Republish, Publish, ChangeStatus, Monitor, BeginSizing,
         BeginRisk, Evaluate, FailToRecord, CheckBalance, Fill, Reject

\* The same proposals ask for the same.
LEMMA AskedStay ==
  ASSUME SoundInputs, Amounts, SoundInputs', Amounts', [Next]_vars, NEW S, S \subseteq DOMAIN proposals
  PROVE  TotalAsked(S)' = TotalAsked(S)
<1>1. Len(proposals) \in Nat /\ DOMAIN proposals = 1..Len(proposals) /\ Asked \in [1..Len(proposals) -> Nat]
  BY ProposalTable
<1>2. (SoundInputs /\ Amounts)' => (Asked \in [1..Len(proposals) -> Nat])'
  BY ProposalTable, PTL
<1>3. CASE proposals' = proposals
  BY <1>3 DEF TotalAsked, Asked
<1>4. CASE \E row : proposals' = Append(proposals, row)
  <2>1. PICK row : proposals' = Append(proposals, row)
    BY <1>4
  <2>2. PICK count : count = Len(proposals)
    OBVIOUS
  <2>3. PICK capital, longer : capital = Asked /\ longer = Asked'
    OBVIOUS
  <2>4. PICK Rows : proposals \in Seq(Rows)
    BY DEF SoundInputs
  <2>5. Len(proposals') = count + 1 /\ \A p \in 1..count : proposals'[p] = proposals[p]
    <3>1. proposals \in Seq(Rows \union {row})
      BY <2>4
    <3> QED
      BY <2>1, <2>2, <3>1
  <2>6. /\ count \in Nat /\ capital \in [1..count -> Nat] /\ longer \in [1..(count + 1) -> Nat]
        /\ count + 1 \notin S
    BY <1>1, <1>2, <2>2, <2>3, <2>5
  <2>7. \A p \in 1..count : longer[p] = capital[p]
    BY <2>2, <2>3, <2>5, <2>6 DEF Asked
  <2>8. TotalOf(count + 1, Chosen(count + 1, longer, S)) = TotalOf(count, Chosen(count, capital, S))
    BY <2>6, <2>7, NewProposalAsksNothing
  <2> QED
    BY <2>2, <2>3, <2>5, <2>8 DEF TotalAsked
<1> QED
  BY <1>3, <1>4, ProposalsGrow

LEMMA AskedTotals ==
  ASSUME SoundInputs, Amounts, NEW S, NEW T, S \subseteq T
  PROVE  TotalAsked(S) \in Int /\ TotalAsked(T) \in Int /\ TotalAsked(S) <= TotalAsked(T)
<1>1. PICK count, capital : count = Len(proposals) /\ capital = Asked
  OBVIOUS
<1>2. count \in Nat /\ capital \in [1..count -> Nat]
  BY <1>1, ProposalTable
<1>3. TotalOf(count, Chosen(count, capital, S)) <= TotalOf(count, Chosen(count, capital, T))
  BY <1>2, FewerAskLess
<1>4. Chosen(count, capital, S) \in [1..count -> Int] /\ Chosen(count, capital, T) \in [1..count -> Int]
  BY <1>2, ChosenType
<1>5. TotalOf(count, Chosen(count, capital, S)) \in Int /\ TotalOf(count, Chosen(count, capital, T)) \in Int
  BY <1>2, <1>4, RowTotalType
<1> QED
  BY <1>1, <1>3, <1>5 DEF TotalAsked

LEMMA OtherAsks ==
  ASSUME SoundInputs, Amounts, NEW S, NEW p \in DOMAIN proposals, p \notin S
  PROVE  TotalAsked(S \union {p}) = TotalAsked(S) + proposals[p].capital
<1>1. PICK count, capital : count = Len(proposals) /\ capital = Asked
  OBVIOUS
<1>2. count \in Nat /\ capital \in [1..count -> Nat] /\ p \in 1..count
  BY <1>1, ProposalTable
<1>3. capital[p] = proposals[p].capital
  BY <1>1, <1>2 DEF Asked
<1>4. TotalOf(count, Chosen(count, capital, S \union {p})) = TotalOf(count, Chosen(count, capital, S)) + capital[p]
  BY <1>2, OneMoreAsks
<1> QED
  BY <1>1, <1>3, <1>4 DEF TotalAsked

LEMMA NothingAsked ==
  ASSUME SoundInputs, Amounts
  PROVE  TotalAsked({}) = 0
<1>1. Len(proposals) \in Nat
  BY ProposalTable
<1>2. Chosen(Len(proposals), Asked, {}) \in [1..Len(proposals) -> {0}]
  BY DEF Chosen
<1> QED
  BY <1>1, <1>2, RowTotalOfNothing DEF TotalAsked

\* A new head leaves no authority in force.
LEMMA FitsAfresh ==
  ASSUME CapitalInvariant, SoundInputs', Amounts', head' = head + 1, UNCHANGED <<decisions, proposals>>
  PROVE  Fits'
<1>1. \A d \in DOMAIN decisions' : decisions'[d].head # head'
  BY DEF CapitalInvariant, IntentInvariant, SoundDecisions, SoundInputs
<1>2. Forced(clock)' = {}
  BY <1>1 DEF Forced, InForce
<1>3. (SoundInputs /\ Amounts)' => (TotalAsked({}) = 0)'
  BY NothingAsked, PTL
<1>4. TotalAsked(Forced(clock))' = 0
  BY <1>2, <1>3 DEF TotalAsked
<1> QED
  BY <1>4 DEF Fits, Amounts

\* Without a decision authorities only end.
LEMMA FitsUndecided ==
  ASSUME CapitalInvariant, [Next]_vars, SoundInputs', Amounts', UNCHANGED <<decisions, head, available>>
  PROVE  Fits'
<1>1. PICK old, now : old = Forced(clock) /\ now = Forced(clock)'
  OBVIOUS
<1>2. now \subseteq old /\ old \subseteq DOMAIN proposals
  BY <1>1, NothingForced DEF Forced
<1>3. TotalAsked(old)' = TotalAsked(old)
  BY <1>2, AskedStay DEF CapitalInvariant, IntentInvariant
<1>4. (TotalAsked(now) \in Int /\ TotalAsked(old) \in Int /\ TotalAsked(now) <= TotalAsked(old))'
  <2>1. PICK count, capital : count = Len(proposals') /\ capital = Asked'
    OBVIOUS
  <2>2. (SoundInputs /\ Amounts)' => (Len(proposals) \in Nat /\ Asked \in [1..Len(proposals) -> Nat])'
    BY ProposalTable, PTL
  <2>3. TotalOf(count, Chosen(count, capital, now)) <= TotalOf(count, Chosen(count, capital, old))
    BY <1>2, <2>1, <2>2, FewerAskLess
  <2>4. Chosen(count, capital, now) \in [1..count -> Int] /\ Chosen(count, capital, old) \in [1..count -> Int]
    BY <2>1, <2>2, ChosenType
  <2>5. TotalOf(count, Chosen(count, capital, now)) \in Int /\ TotalOf(count, Chosen(count, capital, old)) \in Int
    BY <2>1, <2>2, <2>4, RowTotalType
  <2> QED
    BY <2>1, <2>3, <2>5 DEF TotalAsked
<1>5. TotalAsked(old) <= available
  BY <1>1 DEF CapitalInvariant, Fits
<1>6. TotalAsked(Forced(clock))' = TotalAsked(now)'
  BY <1>1 DEF TotalAsked
<1> QED
  BY <1>3, <1>4, <1>5, <1>6 DEF Fits, CapitalInvariant, Amounts

\* A new decision was judged next to everything that is in force when it is
\* recorded, though it may have been judged as of an earlier time.
LEMMA FitsDecided ==
  ASSUME CapitalInvariant, [Next]_vars, decisions' # decisions
  PROVE  Fits'
<1> USE DEF CapitalInvariant, IntentInvariant
<1> PICK new : new = Len(decisions) + 1
  OBVIOUS
<1>1. /\ UNCHANGED <<clock, head, trades, proposals>>
      /\ DOMAIN decisions' = DOMAIN decisions \union {new}
      /\ \A d \in DOMAIN decisions : decisions'[d] = decisions[d]
  BY DecisionsAreAppended
<1>2. UNCHANGED available
  BY LedgerMoves, <1>1 DEF SoundInputs
<1>3. PICK w \in Requests, p \in DOMAIN proposals :
             Evaluate(w, p) /\ decisions'[new] = Judgement(p, requests[w].at)
  BY DecisionsAreAppended
<1> PICK time, old, now : time = requests[w].at /\ old = Forced(clock) /\ now = Forced(clock)'
  OBVIOUS
<1>4. time \in Nat /\ time <= clock /\ clock \in Nat
  BY <1>3 DEF Evaluate, SoundInputs
<1>5. decisions'[new] = Judgement(p, time) /\ decisions'[new].proposal = p
  BY <1>3, <1>4, AuthorityOfJudgement
<1>6. ASSUME NEW q \in now, q \notin old
      PROVE  q = p /\ Automatic(p) /\ Judgement(p, time).validUntil # 0
  <2>1. PICK d \in DOMAIN decisions' : InForce(d, clock)' /\ decisions'[d].proposal = q
    BY <1>6 DEF Forced
  <2>2. Automatic(q) /\ q \in DOMAIN proposals
    BY <1>1, <1>2, <1>6 DEF Forced, Automatic
  <2>3. CASE d \in DOMAIN decisions
    <3>1. InForce(d, clock)
      BY <2>1, <2>3, ForceOnlyEnds
    <3> QED
      BY <1>1, <1>6, <2>1, <2>2, <2>3, <3>1 DEF Forced
  <2>4. CASE d = new
    BY <1>1, <1>4, <1>5, <2>1, <2>2, <2>4 DEF InForce
  <2> QED
    BY <1>1, <2>3, <2>4
<1>7. TotalAsked(Forced(clock))' = TotalAsked(now)
  BY <1>1 DEF TotalAsked, Asked
<1>8. TotalAsked(old) <= available /\ available \in Int
  BY DEF Fits, Amounts
<1>9. CASE now \subseteq old
  <2>1. TotalAsked(now) \in Int /\ TotalAsked(old) \in Int /\ TotalAsked(now) <= TotalAsked(old)
    BY <1>9, AskedTotals
  <2> QED
    BY <1>2, <1>7, <1>8, <2>1 DEF Fits
<1>10. CASE ~(now \subseteq old)
  <2> PICK others : others = Forced(time) \ {p}
    OBVIOUS
  <2>1. Judgement(p, time).validUntil # 0
    BY <1>6, <1>10
  <2>2. AuthorizedCapital(CountedForOthers(p, time)) + proposals[p].capital <= available
    BY <2>1, JudgedCapital
  <2>3. AuthorizedCapital(CountedForOthers(p, time)) = TotalAsked(others)
    BY <1>4, CountedIsForced
  <2>4. now \subseteq others \union {p}
    BY <1>4, <1>6, ForcedBefore
  <2>5. /\ TotalAsked(now) \in Int /\ TotalAsked(others \union {p}) \in Int
        /\ TotalAsked(now) <= TotalAsked(others \union {p})
    BY <2>4, AskedTotals
  <2>6. TotalAsked(others \union {p}) = TotalAsked(others) + proposals[p].capital
    BY OtherAsks
  <2> QED
    BY <1>2, <1>7, <1>8, <2>2, <2>3, <2>5, <2>6 DEF Fits
<1> QED
  BY <1>9, <1>10

LEMMA CapitalStep ==
  ASSUME CapitalInvariant, [Next]_vars
  PROVE  CapitalInvariant'
<1>1. IntentInvariant' /\ SoundInputs'
  BY IntentStep DEF CapitalInvariant, IntentInvariant
<1>2. Amounts'
  BY LedgerMoves
<1>3. Kinds'
  BY KindsStep
<1>4. Fits'
  <2>1. CASE decisions' # decisions
    BY <2>1, FitsDecided
  <2>2. CASE head' = head + 1 /\ UNCHANGED <<decisions, proposals>>
    BY <1>1, <1>2, <2>2, FitsAfresh
  <2>3. CASE UNCHANGED decisions /\ head' = head /\ available' = available
    BY <1>1, <1>2, <2>3, FitsUndecided
  <2> QED
    BY <2>1, <2>2, <2>3, LedgerMoves
<1> QED
  BY <1>1, <1>2, <1>3, <1>4 DEF CapitalInvariant

LEMMA CapitalInit ==
  Init => CapitalInvariant
<1>1. SUFFICES ASSUME Init
               PROVE  CapitalInvariant
  OBVIOUS
<1>2. IntentInvariant
  BY <1>1, IntentInit
<1>3. DOMAIN proposals = {} /\ DOMAIN decisions = {}
  BY <1>1 DEF Init
<1>4. Amounts
  <2>1. available \in Nat
    BY <1>1, RiskMoneyAssumption DEF Init
  <2>2. \A m \in Markets : sources[m].exposure \in Nat
    <3>1. \A m \in Markets : sources[m].exposure \in Exposures
      BY <1>1 DEF Init
    <3>2. \A exposure \in Exposures : exposure \in Nat
      BY RiskMoneyAssumption
    <3> QED
      BY <3>1, <3>2
  <2>3. \A w \in Requests : requests[w].kind # "size"
    BY <1>1 DEF Init, Idle
  <2> QED
    BY <1>3, <2>1, <2>2, <2>3 DEF Amounts
<1>5. Kinds
  BY <1>3 DEF Kinds
<1>6. Fits
  <2>1. Forced(clock) = {}
    BY <1>3 DEF Forced
  <2>2. TotalAsked({}) = 0
    BY <1>2, <1>4, NothingAsked DEF IntentInvariant
  <2> QED
    BY <1>4, <2>1, <2>2 DEF Fits, Amounts
<1> QED
  BY <1>2, <1>4, <1>5, <1>6 DEF CapitalInvariant

\* What is authorised automatically and not yet spent fits the bankroll it was
\* authorised against, whatever overlaps: an evaluation leaves its own proposal
\* out of account, and counts as of a time that may be long past.
THEOREM CapitalTheorem == Spec => []AuthorizedCapitalFits
<1>1. Init => CapitalInvariant
  BY CapitalInit
<1>2. CapitalInvariant => AuthorizedCapitalFits
  <2>1. SUFFICES ASSUME CapitalInvariant
                 PROVE  AuthorizedCapitalFits
    OBVIOUS
  <2>2. clock \in Nat
    BY <2>1 DEF CapitalInvariant, IntentInvariant, SoundInputs
  <2>3. AuthorizedCapital(Counted(clock)) = TotalAsked(Forced(clock))
    BY <2>1, <2>2, CountedIsForced DEF CapitalInvariant
  <2> QED
    BY <2>1, <2>3 DEF AuthorizedCapitalFits, CapitalInvariant, Fits
<1> QED
  BY <1>1, <1>2, CapitalStep, PTL DEF Spec

-----------------------------------------------------------------------------
(* Types.                                                                  *)

\* What was read at the present head of the ledger is what it holds.
Readings ==
  /\ \A w \in Requests : requests[w].kind = "size" =>
       /\ requests[w].side \in Sides /\ requests[w].tick \in Nat
       /\ requests[w].exposure \in Exposures
       /\ requests[w].head \in Nat /\ requests[w].head <= head
       /\ requests[w].head = head => requests[w].available = available
  /\ \A p \in DOMAIN proposals :
       proposals[p].head = head => proposals[p].available = available

TypeInvariant == CapitalInvariant /\ Readings /\ TypeOK

\* A band of the policy is at most the whole of the bankroll.
LEMMA BandOfBankroll ==
  ASSUME NEW bankroll \in Nat, NEW band \in 1..100, NEW capital, capital = (bankroll * band) \div 100,
         capital >= 1
  PROVE  capital \in Nat \ {0} /\ capital <= bankroll /\ bankroll \in Nat \ {0}
<1>1. bankroll * band <= bankroll * 100 /\ bankroll * band \in Nat
  OBVIOUS
<1>2. \A n \in Nat : n <= bankroll * 100 => n \div 100 \in Int /\ n \div 100 <= bankroll
  OBVIOUS
<1> QED
  BY <1>1, <1>2

\* What sizing persists is a row of its table.
LEMMA ProposalRow ==
  ASSUME TypeInvariant, NEW w \in Requests, requests[w].kind = "size",
         Proposal(requests[w]).capital >= 1
  PROVE  LET proposal == Proposal(requests[w])
         IN  /\ proposal \in ProposalRows
             /\ proposal.head <= head
             /\ proposal.head = head => proposal.available = available
<1>1. /\ requests[w].market \in Markets /\ requests[w].side \in Sides
      /\ requests[w].tick \in Nat /\ requests[w].head \in Nat /\ requests[w].head <= head
      /\ requests[w].available \in Nat
      /\ requests[w].head = head => requests[w].available = available
  BY DEF TypeInvariant, CapitalInvariant, IntentInvariant, SoundInputs, Amounts, Readings
<1>2. requests[w].exposure \in 1..100
  BY RiskMoneyAssumption DEF TypeInvariant, Readings
<1>3. PICK capital : capital = (requests[w].available * requests[w].exposure) \div 100
  OBVIOUS
<1>4. Proposal(requests[w]) = [market |-> requests[w].market, side |-> requests[w].side,
        tick |-> requests[w].tick, head |-> requests[w].head,
        available |-> requests[w].available, capital |-> capital]
  BY <1>3 DEF Proposal
<1>5. capital \in Nat \ {0} /\ capital <= requests[w].available /\ requests[w].available \in Nat \ {0}
  <2>1. capital >= 1
    BY <1>4
  <2> PICK bankroll, band : bankroll = requests[w].available /\ band = requests[w].exposure
    OBVIOUS
  <2>2. bankroll \in Nat /\ band \in 1..100 /\ capital = (bankroll * band) \div 100
    BY <1>1, <1>2, <1>3
  <2>3. capital \in Nat \ {0} /\ capital <= bankroll /\ bankroll \in Nat \ {0}
    BY <2>1, <2>2, BandOfBankroll
  <2> QED
    BY <2>3
<1> QED
  BY <1>1, <1>4, <1>5 DEF ProposalRows

\* What risk decides is a row of its table.
LEMMA JudgementRow ==
  ASSUME TypeInvariant, NEW p \in DOMAIN proposals, NEW time \in Nat
  PROVE  Judgement(p, time) \in DecisionRows /\ Judgement(p, time).head = head
<1> USE DEF TypeInvariant
<1> PICK counted : counted = CountedForOthers(p, time)
  OBVIOUS
<1> PICK authorized, duplicate, source :
      /\ authorized = AuthorizedCapital(counted) /\ duplicate = Duplicate(p, counted)
      /\ source = sources[proposals[p].market]
  OBVIOUS
<1> PICK passes, below, timely, end :
      /\ passes = Passes(p, time, authorized, duplicate) /\ below = Automatic(p)
      /\ timely = (source.since <= time /\ time <= source.until) /\ end = WindowEnd(time)
  OBVIOUS
<1> DEFINE kind == IF ~passes THEN "reject" ELSE IF below THEN "auto_approve" ELSE "require_human_approval"
           window == IF passes THEN end ELSE 0
           until == IF ~passes THEN 0 ELSE IF end <= source.until THEN end ELSE source.until
<1>1. Judgement(p, time) =
        [proposal |-> p, head |-> head, authorized |-> authorized, duplicate |-> duplicate,
         tick |-> source.tick, open |-> source.open, timely |-> timely, kind |-> kind,
         window |-> window, validUntil |-> until, at |-> time]
  BY DEF Judgement, Automatic
<1>2. authorized \in Nat
  <2>1. authorized = TotalAsked(Forced(time) \ {p})
    BY CountedIsForced DEF CapitalInvariant
  <2>2. PICK chosen : chosen = Chosen(Len(proposals), Asked, Forced(time) \ {p})
    OBVIOUS
  <2>3. Len(proposals) \in Nat /\ chosen \in [1..Len(proposals) -> Nat] /\ chosen \in [1..Len(proposals) -> Int]
    BY <2>2, ProposalTable, ChosenType DEF CapitalInvariant, IntentInvariant
  <2>4. TotalOf(Len(proposals), chosen) >= 0 /\ TotalOf(Len(proposals), chosen) \in Int
    BY <2>3, RowTotalNonnegative, RowTotalType
  <2> QED
    BY <2>1, <2>2, <2>4 DEF TotalAsked
<1>3. source \in Opportunities
  BY DEF TypeOK, CapitalInvariant, IntentInvariant, SoundInputs
<1>4. end \in Nat /\ end >= time
  BY RiskTimeAssumption DEF WindowEnd
<1>5. duplicate \in BOOLEAN /\ timely \in BOOLEAN /\ passes \in BOOLEAN
  <2>1. duplicate \in BOOLEAN
    BY Zenon DEF Duplicate
  <2>2. timely \in BOOLEAN
    BY Zenon
  <2>3. passes \in BOOLEAN
    BY Zenon DEF Passes
  <2> QED
    BY <2>1, <2>2, <2>3
<1>6. passes => proposals[p].head = head /\ source.since <= time /\ time <= source.until
  BY DEF Passes, Current
<1>7. passes => (below <=> proposals[p].capital * 100 < AutoApproveMax * proposals[p].available)
  BY <1>6 DEF Automatic, Readings
<1>8. head \in Nat
  BY DEF TypeOK
<1>9. until \in Nat /\ window \in Nat /\ (passes => until >= time)
  BY <1>3, <1>4, <1>6 DEF Opportunities
<1>10. kind \in {"reject", "auto_approve", "require_human_approval"}
  OBVIOUS
<1>11. /\ kind = "reject" => until = 0 /\ window = 0
       /\ kind = "auto_approve" => passes /\ below
       /\ kind = "require_human_approval" => passes /\ ~below
  OBVIOUS
<1>12. source.tick \in Nat /\ source.open \in BOOLEAN
  BY <1>3 DEF Opportunities
<1> HIDE DEF kind, window, until
<1> QED
  BY <1>1, <1>2, <1>5, <1>7, <1>8, <1>9, <1>10, <1>11, <1>12 DEF DecisionRows

LEMMA ReadingsStep ==
  ASSUME TypeInvariant, [Next]_vars
  PROVE  Readings'
<1> USE DEF TypeInvariant
<1>1. head \in Nat
  BY DEF TypeOK
<1>2. ASSUME UNCHANGED <<head, available, proposals>>,
             \A w \in Requests : requests'[w].kind = "size" => requests'[w] = requests[w]
      PROVE  Readings'
  BY <1>2 DEF Readings
<1>3. ASSUME head' = head + 1, UNCHANGED <<proposals, requests>>
      PROVE  Readings'
  <2>1. \A p \in DOMAIN proposals : proposals[p].head # head'
    <3>1. \A p \in DOMAIN proposals : proposals[p].head \in Nat /\ proposals[p].head <= head
      BY DEF TypeOK, ProposalRows
    <3> QED
      BY <1>1, <1>3, <3>1
  <2> QED
    BY <1>1, <1>3, <2>1 DEF Readings
<1>4. CASE UNCHANGED <<head, available, proposals, requests>>
  BY <1>2, <1>4
<1>5. ASSUME NEW w \in Requests, NEW m \in Markets, NEW side \in Sides, BeginSizing(w, m, side)
      PROVE  Readings'
  <2>1. sources[m] \in Opportunities
    BY DEF TypeOK
  <2>2. sources[m].tick \in Nat /\ sources[m].exposure \in Exposures
    BY <2>1 DEF Opportunities
  <2>3. UNCHANGED <<head, available, proposals>>
    BY <1>5 DEF BeginSizing, ledger
  <2> QED
    BY <1>1, <1>5, <2>2, <2>3 DEF Readings, BeginSizing
<1>6. ASSUME NEW w \in Requests, PersistProposal(w)
      PROVE  Readings'
  <2> PICK proposal : proposal = Proposal(requests[w])
    OBVIOUS
  <2>1. /\ UNCHANGED <<head, available>> /\ requests[w].kind = "size"
        /\ proposals' = proposals \/ (proposals' = Append(proposals, proposal) /\ proposal.capital >= 1)
        /\ \A v \in Requests : requests'[v].kind = "size" => requests'[v] = requests[v]
    BY <1>6 DEF PersistProposal, ledger, CapitalInvariant, IntentInvariant, SoundInputs
  <2>2. PICK Rows : proposals \in Seq(Rows)
    BY DEF CapitalInvariant, IntentInvariant, SoundInputs
  <2>3. \A p \in DOMAIN proposals' : proposals'[p].head = head => proposals'[p].available = available
    <3>1. CASE proposals' = proposals
      BY <3>1 DEF Readings
    <3>2. CASE proposals' = Append(proposals, proposal) /\ proposal.capital >= 1
      <4>1. \A p \in DOMAIN proposals' \ DOMAIN proposals : proposals'[p] = proposal
        BY <2>2, <3>2
      <4>2. \A p \in DOMAIN proposals : proposals'[p] = proposals[p]
        BY <2>2, <3>2
      <4>3. proposal.head = head => proposal.available = available
        BY <2>1, <3>2, ProposalRow
      <4> QED
        BY <4>1, <4>2, <4>3 DEF Readings
    <3> QED
      BY <2>1, <3>1, <3>2
  <2> QED
    BY <2>1, <2>3 DEF Readings
<1>7. ASSUME NEW w \in Requests, NEW todo, BeginRisk(w, todo)
      PROVE  Readings'
  BY <1>7 DEF BeginRisk, ledger, Readings
<1>8. ASSUME NEW w \in Requests, NEW p, Evaluate(w, p)
      PROVE  Readings'
  <2> PICK next : next = [kind |-> "check", by |-> "risk", head |-> head,
                          at |-> requests[w].at, todo |-> requests[w].todo \ {p}]
    OBVIOUS
  <2>1. UNCHANGED <<head, available, proposals>> /\ requests' = [requests EXCEPT ![w] = next] /\ next.kind = "check"
    BY <1>8 DEF Evaluate, ledger
  <2> QED
    BY <2>1 DEF Readings
<1>9. ASSUME NEW w \in Requests, NEW p, FailToRecord(w, p)
      PROVE  Readings'
  BY <1>9 DEF FailToRecord, Idle, ledger, Readings
<1>10. ASSUME NEW w \in Requests, CheckBalance(w)
       PROVE  Readings'
  BY <1>10 DEF CheckBalance, Idle, ledger, Readings
<1>11. CASE \E m \in Markets, proceeds \in Costs, ends \in BOOLEAN : Monitor(m, proceeds, ends)
  BY <1>3, <1>11 DEF Monitor, NextHead
<1>12. CASE \E d \in DOMAIN decisions, cost \in Costs : Fill(d, cost)
  BY <1>3, <1>12 DEF Fill, NextHead
<1> QED
  BY <1>4, <1>5, <1>6, <1>7, <1>8, <1>9, <1>10, <1>11, <1>12
     DEF Next, vars, Tick, Republish, Publish, ChangeStatus, Reject, ledger

LEMMA TypeStep ==
  ASSUME TypeInvariant, [Next]_vars, CapitalInvariant'
  PROVE  TypeOK'
<1> USE DEF TypeInvariant
<1>1. clock' \in Nat /\ head' \in Nat /\ head <= head' /\ head \in Nat
  BY SoundInputsStep DEF CapitalInvariant, IntentInvariant, SoundInputs
<1>2. available' \in Int
  BY DEF CapitalInvariant, Amounts
<1>3. /\ DOMAIN proposals \subseteq DOMAIN proposals'
      /\ \A p \in DOMAIN proposals : proposals'[p] = proposals[p]
  BY SoundInputsStep DEF CapitalInvariant, IntentInvariant
<1>4. published' \in Nat
  BY DEF TypeOK, Next, vars, Tick, Republish, Publish, ChangeStatus, Monitor, BeginSizing,
         PersistProposal, BeginRisk, Evaluate, FailToRecord, CheckBalance, Fill, Reject
<1>5. holding' \subseteq Markets
  <2>1. CASE UNCHANGED holding
    BY <2>1 DEF TypeOK
  <2>2. CASE \E m \in Markets, proceeds \in Costs, ends \in BOOLEAN : Monitor(m, proceeds, ends)
    BY <2>2 DEF Monitor, TypeOK
  <2>3. CASE \E d \in DOMAIN decisions, cost \in Costs : Fill(d, cost)
    <3>1. \A d \in DOMAIN decisions : proposals[decisions[d].proposal].market \in Markets
      BY DEF CapitalInvariant, IntentInvariant, SoundDecisions, SoundInputs
    <3> QED
      BY <2>3, <3>1 DEF Fill, TypeOK
  <2> QED
    BY <2>1, <2>2, <2>3
       DEF Next, vars, Tick, Republish, Publish, ChangeStatus, BeginSizing, ledger,
           PersistProposal, BeginRisk, Evaluate, FailToRecord, CheckBalance, Reject
<1>6. sources' \in [Markets -> Opportunities]
  <2>1. CASE UNCHANGED sources
    BY <2>1 DEF TypeOK
  <2>2. ASSUME NEW m \in Markets, NEW sides \in Candidates, NEW exposure \in Exposures,
               NEW life \in Lives, Publish(m, sides, exposure, life)
        PROVE  sources' \in [Markets -> Opportunities]
    <3>1. sources[m] \in Opportunities /\ life \in Nat /\ clock \in Nat
      BY RiskTimeAssumption DEF TypeOK
    <3> PICK next : next = [tick |-> sources[m].tick + 1, sides |-> sides, exposure |-> exposure,
                            since |-> clock, until |-> clock + life, open |-> sources[m].open]
      OBVIOUS
    <3>2. next \in Opportunities
      BY <3>1 DEF Opportunities
    <3>3. sources' = [sources EXCEPT ![m] = next]
      BY <2>2 DEF Publish, TypeOK
    <3> QED
      BY <3>2, <3>3 DEF TypeOK
  <2>3. ASSUME NEW m \in Markets, ChangeStatus(m)
        PROVE  sources' \in [Markets -> Opportunities]
    <3>1. sources[m] \in Opportunities
      BY DEF TypeOK
    <3> PICK next : next = [sources[m] EXCEPT !.open = ~@]
      OBVIOUS
    <3>2. next \in Opportunities
      BY <3>1 DEF Opportunities
    <3>3. sources' = [sources EXCEPT ![m] = next]
      BY <2>3 DEF ChangeStatus, TypeOK
    <3> QED
      BY <3>2, <3>3 DEF TypeOK
  <2> QED
    BY <2>1, <2>2, <2>3
       DEF Next, vars, Tick, Monitor, BeginSizing, ledger,
           PersistProposal, BeginRisk, Evaluate, FailToRecord, CheckBalance, Fill, Reject
<1>7. trades' \in [1..DecisionLimit -> {"none", "filled", "rejected"}]
  <2>1. CASE UNCHANGED trades
    BY <2>1 DEF TypeOK
  <2>2. CASE \E d \in DOMAIN decisions : \/ \E cost \in Costs : Fill(d, cost)
                                         \/ \E affordable \in BOOLEAN : Reject(d, affordable)
    BY <2>2 DEF Fill, Reject, TypeOK
  <2> QED
    BY <2>1, <2>2
       DEF Next, vars, Tick, Republish, Publish, ChangeStatus, Monitor, BeginSizing, ledger,
           PersistProposal, BeginRisk, Evaluate, FailToRecord, CheckBalance
<1>8. \A p \in DOMAIN proposals' : proposals'[p] \in ProposalRows /\ proposals'[p].head <= head'
  <2>1. ASSUME NEW p \in DOMAIN proposals
        PROVE  proposals'[p] \in ProposalRows /\ proposals'[p].head <= head'
    <3>1. proposals[p] \in ProposalRows /\ proposals[p].head <= head
      BY DEF TypeOK
    <3>2. proposals[p].head \in Nat
      BY <3>1 DEF ProposalRows
    <3> QED
      BY <1>1, <1>3, <3>1, <3>2
  <2>2. CASE UNCHANGED proposals
    BY <2>1, <2>2
  <2>3. ASSUME NEW w \in Requests, PersistProposal(w)
        PROVE  \A p \in DOMAIN proposals' : proposals'[p] \in ProposalRows /\ proposals'[p].head <= head'
    <3> PICK proposal : proposal = Proposal(requests[w])
      OBVIOUS
    <3>1. /\ head' = head /\ requests[w].kind = "size"
          /\ proposals' = proposals \/ (proposals' = Append(proposals, proposal) /\ proposal.capital >= 1)
      BY <2>3 DEF PersistProposal, ledger
    <3>2. PICK Rows : proposals \in Seq(Rows)
      BY DEF CapitalInvariant, IntentInvariant, SoundInputs
    <3>3. CASE proposals' = Append(proposals, proposal) /\ proposal.capital >= 1
      <4>1. \A p \in DOMAIN proposals' \ DOMAIN proposals : proposals'[p] = proposal
        BY <3>2, <3>3
      <4>2. proposal \in ProposalRows /\ proposal.head <= head
        BY <3>1, <3>3, ProposalRow
      <4> QED
        BY <2>1, <3>1, <4>1, <4>2
    <3> QED
      BY <2>2, <3>1, <3>3
  <2> QED
    BY <2>2, <2>3
       DEF Next, vars, Tick, Republish, Publish, ChangeStatus, Monitor, BeginSizing, ledger,
           BeginRisk, Evaluate, FailToRecord, CheckBalance, Fill, Reject
\* A row of the table stays one: its proposal is not changed.
<1>9. ASSUME NEW row \in DecisionRows
      PROVE  row \in DecisionRows'
  <2>1. row.proposal \in DOMAIN proposals
    BY <1>9 DEF DecisionRows
  <2>2. row.proposal \in DOMAIN proposals' /\ proposals'[row.proposal] = proposals[row.proposal]
    BY <1>3, <2>1
  <2> QED
    BY <1>9, <2>2 DEF DecisionRows
<1>10. \A d \in DOMAIN decisions' : decisions'[d] \in DecisionRows' /\ decisions'[d].head <= head'
  <2>1. ASSUME NEW d \in DOMAIN decisions
        PROVE  decisions'[d] \in DecisionRows' /\ decisions'[d].head <= head'
    <3>1. decisions[d] \in DecisionRows /\ decisions[d].head <= head
      BY DEF TypeOK
    <3>2. decisions[d].head \in Nat
      BY <3>1 DEF DecisionRows
    <3>3. decisions'[d] = decisions[d]
      BY DecisionsAreAppended DEF CapitalInvariant, IntentInvariant
    <3> QED
      BY <1>1, <1>9, <3>1, <3>2, <3>3
  <2>2. CASE UNCHANGED decisions
    BY <2>1, <2>2
  <2>3. CASE decisions' # decisions
    <3> PICK new : new = Len(decisions) + 1
      OBVIOUS
    <3>1. head' = head /\ DOMAIN decisions' = DOMAIN decisions \union {new}
      BY <2>3, DecisionsAreAppended DEF CapitalInvariant, IntentInvariant
    <3>2. PICK w \in Requests, p \in DOMAIN proposals :
                 Evaluate(w, p) /\ decisions'[new] = Judgement(p, requests[w].at)
      BY <2>3, DecisionsAreAppended DEF CapitalInvariant, IntentInvariant
    <3>3. requests[w].at \in Nat
      BY <3>2 DEF Evaluate, CapitalInvariant, IntentInvariant, SoundInputs
    <3>4. decisions'[new] \in DecisionRows /\ decisions'[new].head = head
      BY <3>2, <3>3, JudgementRow
    <3> QED
      BY <1>1, <1>9, <2>1, <3>1, <3>4
  <2> QED
    BY <2>2, <2>3
<1> QED
  BY <1>1, <1>2, <1>4, <1>5, <1>6, <1>7, <1>8, <1>10 DEF TypeOK

\* Every row is of its table: among them, an approval is of a proposal below the
\* limit of the bankroll it was sized against, and is not over before it begins.
THEOREM TypeTheorem == Spec => []TypeOK
<1>1. Init => TypeInvariant
  <2>1. SUFFICES ASSUME Init
                 PROVE  TypeInvariant
    OBVIOUS
  <2>2. CapitalInvariant
    BY <2>1, CapitalInit
  <2>3. DOMAIN proposals = {} /\ DOMAIN decisions = {}
    BY <2>1 DEF Init
  <2>4. Readings
    <3>1. \A w \in Requests : requests[w].kind # "size"
      BY <2>1 DEF Init, Idle
    <3> QED
      BY <2>3, <3>1 DEF Readings
  <2>5. sources \in [Markets -> Opportunities]
    <3>1. \A life \in Lives : life \in Nat
      BY RiskTimeAssumption
    <3>2. sources \in [Markets -> [tick : {0}, sides : Candidates, exposure : Exposures,
                                   since : {0}, until : Lives, open : {TRUE}]]
      BY <2>1 DEF Init
    <3>3. ASSUME NEW m \in Markets
          PROVE  sources[m] \in Opportunities
      <4>1. sources[m] \in [tick : {0}, sides : Candidates, exposure : Exposures,
                            since : {0}, until : Lives, open : {TRUE}]
        BY <3>2
      <4> PICK row : row = sources[m]
        OBVIOUS
      <4>2. /\ row = [tick |-> row.tick, sides |-> row.sides, exposure |-> row.exposure,
                      since |-> row.since, until |-> row.until, open |-> row.open]
            /\ row.tick = 0 /\ row.sides \in Candidates /\ row.exposure \in Exposures
            /\ row.since = 0 /\ row.until \in Lives /\ row.open \in BOOLEAN
        BY <4>1
      <4>3. row.tick \in Nat /\ row.since \in Nat /\ row.until \in Nat
        BY <3>1, <4>2
      <4> QED
        BY <4>2, <4>3 DEF Opportunities
    <3> QED
      BY <3>2, <3>3
  <2>6. TypeOK
    BY <2>1, <2>3, <2>5, RiskMoneyAssumption DEF Init, TypeOK
  <2> QED
    BY <2>2, <2>4, <2>6 DEF TypeInvariant
<1>2. TypeInvariant /\ [Next]_vars => TypeInvariant'
  BY CapitalStep, ReadingsStep, TypeStep DEF TypeInvariant
<1>3. TypeInvariant => TypeOK
  BY DEF TypeInvariant
<1> QED
  BY <1>1, <1>2, <1>3, PTL DEF Spec
=============================================================================
