------------------------- MODULE RiskAuthorization -------------------------
(***************************************************************************)
(* From a current opportunity to a spent authorisation: sizing proposes an *)
(* amount of capital against the head of the ledger, risk approves it for  *)
(* what is left of a fixed window of time, and execution uses the approval *)
(* once if everything it rested on is still so.                            *)
(*                                                                         *)
(* Every request reads a clock before it waits for anything, so decisions  *)
(* are recorded in another order than the one of their timestamps.  Sizing *)
(* takes no lock; a risk evaluation and an execution hold the portfolio's  *)
(* row lock from their first read of the ledger to their commit, which is  *)
(* one step here.  What sizing and risk do after they commit is another.   *)
(***************************************************************************)
EXTENDS RowTotals, Sequences, FiniteSets

CONSTANTS
  Markets,
  Requests,            \* concurrent sizing and risk requests
  StartingBankroll,
  Candidates,          \* sets of sides that may be trade candidates at once
  Exposures,           \* bands of the sizing policy, in per cent
  AutoApproveMax,      \* auto_approve_exposure_max, in per cent
  Window,              \* authorization_ttl_seconds
  Lives,               \* how long the evidence of an opportunity may hold
  Costs,               \* what a fill may cost, and a close may bring in
  TimeLimit,           \* bounds: readings of the clock,
  PublishLimit,        \*   publications and changes of status,
  ProposalLimit,       \*   proposals,
  DecisionLimit,       \*   risk decisions,
  HeadLimit            \*   snapshots

Sides == {"yes", "no"}

ASSUME CandidateAssumption == Candidates \subseteq SUBSET Sides
ASSUME RiskMoneyAssumption ==
  /\ StartingBankroll \in Nat \ {0}
  /\ Exposures \subseteq 1..100 /\ AutoApproveMax \in 1..100
  /\ Costs \subseteq Nat
ASSUME RiskTimeAssumption ==
  Window \in Nat \ {0} /\ Lives \subseteq Nat \ {0} /\ TimeLimit \in Nat
ASSUME RiskLimitAssumption ==
  {PublishLimit, ProposalLimit, DecisionLimit, HeadLimit} \subseteq Nat

VARIABLES
  clock,
  sources,     \* per market: its latest opportunity and its status
  published,   \* publications so far (the bound on behaviours)
  head,        \* number of the latest portfolio snapshot
  available,   \* the available bankroll of that snapshot
  holding,     \* markets with an open position
  proposals,   \* rows of position_size_proposals
  decisions,   \* rows of risk_decisions
  trades,      \* per decision: its terminal trade, if any
  requests

vars == <<clock, sources, published, head, available, holding, proposals,
          decisions, trades, requests>>

ledger == <<head, available, holding>>

-----------------------------------------------------------------------------
(* Time and sources.                                                       *)

Tick ==
  /\ clock < TimeLimit
  /\ clock' = clock + 1

Opportunities ==
  [tick : Nat, sides : Candidates, exposure : Exposures, since : Nat, until : Nat, open : BOOLEAN]

\* Whether the market's opportunity may be acted on at a time: no evidence of
\* it is dated in the future and none has outlived its age.
Current(m, tick, time) ==
  LET source == sources[m]
  IN  source.tick = tick /\ source.open /\ source.since <= time /\ time <= source.until

Republish ==
  /\ published < PublishLimit
  /\ published' = published + 1
  /\ UNCHANGED <<clock, ledger, proposals, decisions, trades, requests>>

\* A new price, forecast or match, and the opportunities that follow from it.
Publish(m, sides, exposure, life) ==
  /\ Republish
  /\ sources' = [sources EXCEPT ![m] =
       [tick |-> @.tick + 1, sides |-> sides, exposure |-> exposure,
        since |-> clock, until |-> clock + life, open |-> @.open]]

\* The market closes, or its game is no longer scheduled; or it is again.
ChangeStatus(m) ==
  /\ Republish
  /\ sources' = [sources EXCEPT ![m].open = ~@]

-----------------------------------------------------------------------------
(* Sizing.                                                                 *)

Free(w) == requests[w].kind \in {"idle", "blamed"}

Idle == [kind |-> "idle"]

\* The run reads the clock, the head of the ledger and the opportunity.
BeginSizing(w, m, side) ==
  /\ Free(w) /\ Tick
  /\ side \in sources[m].sides
  /\ Current(m, sources[m].tick, clock)
  /\ requests' = [requests EXCEPT ![w] =
       [kind |-> "size", at |-> clock, market |-> m, side |-> side,
        tick |-> sources[m].tick, exposure |-> sources[m].exposure,
        head |-> head, available |-> available]]
  /\ UNCHANGED <<sources, published, ledger, proposals, decisions, trades>>

\* Variant: the band is taken for a fraction although it is a percentage.
ProposalOfFraction(request) ==
  [market |-> request.market, side |-> request.side, tick |-> request.tick,
   head |-> request.head, available |-> request.available,
   capital |-> request.available * request.exposure]

Proposal(request) ==
  [market |-> request.market, side |-> request.side, tick |-> request.tick,
   head |-> request.head, available |-> request.available,
   capital |-> (request.available * request.exposure) \div 100]

\* The rows of position_size_proposals.
ProposalRows ==
  {row \in [market : Markets, side : Sides, tick : Nat, head : Nat,
            available : Nat \ {0}, capital : Nat \ {0}] : row.capital <= row.available}

\* Proposals whose opportunity was superseded meanwhile are dropped, and so is
\* one that was made before.
PersistProposal(w) ==
  /\ requests[w].kind = "size"
  /\ LET request == requests[w]
         proposal == Proposal(request)
         keep == Current(request.market, request.tick, request.at)
                   /\ proposal.capital >= 1
                   /\ \A i \in DOMAIN proposals : proposals[i] # proposal
     IN  /\ keep => Len(proposals) < ProposalLimit
         /\ proposals' = IF keep THEN Append(proposals, proposal) ELSE proposals
         /\ requests' = [requests EXCEPT ![w] =
              [kind |-> "check", by |-> "sizing", head |-> request.head,
               at |-> request.at, todo |-> {}]]
  /\ UNCHANGED <<clock, sources, published, ledger, decisions, trades>>

-----------------------------------------------------------------------------
(* Risk.                                                                   *)

Unused(d) == trades[d] = "none"

\* Decisions about other proposals that count at a time.  Whatever has expired,
\* was used, or rests on an earlier head is left out before the latest decision
\* about each proposal is sought, so a rejection takes no approval out.
InForce(d, time) ==
  /\ decisions[d].validUntil > time
  /\ decisions[d].head = head
  /\ Unused(d)

Counted(time) ==
  {d \in DOMAIN decisions :
     /\ InForce(d, time)
     /\ \A e \in DOMAIN decisions :
          InForce(e, time) /\ decisions[e].proposal = decisions[d].proposal
            => decisions[e].at <= decisions[d].at}

CountedForOthers(p, time) ==
  {d \in Counted(time) : decisions[d].proposal # p}

Capital(d) == proposals[decisions[d].proposal].capital

\* The query takes one row of each proposal, and the code adds up what the
\* automatic ones authorise.
AuthorizedCapital(counted) ==
  TotalOf(Len(proposals),
          [p \in 1..Len(proposals) |->
             IF \E d \in counted : decisions[d].proposal = p /\ decisions[d].kind = "auto_approve"
             THEN proposals[p].capital ELSE 0])

SameIntent(p, other) ==
  /\ proposals[p].market = proposals[other].market
  /\ proposals[p].side = proposals[other].side

\* Variant: only a position blocks an intent, not what may become one.
DuplicateOfHolding(p, counted) == proposals[p].market \in holding

Duplicate(p, counted) ==
  \/ \E d \in counted : SameIntent(p, decisions[d].proposal)
  \/ proposals[p].market \in holding

WindowEnd(time) == time - (time % Window) + Window

\* Variant: capital authorised for other proposals is left out of account.
PassesAlone(p, time, authorized, duplicate) ==
  /\ proposals[p].head = head
  /\ proposals[p].capital <= available
  /\ Current(proposals[p].market, proposals[p].tick, time)
  /\ ~duplicate

\* The hard checks.
Passes(p, time, authorized, duplicate) ==
  /\ proposals[p].head = head
  /\ proposals[p].capital <= available
  /\ authorized + proposals[p].capital <= available
  /\ Current(proposals[p].market, proposals[p].tick, time)
  /\ ~duplicate

\* What the engine makes of a proposal at a time; validUntil 0 is no authority.
Judgement(p, time) ==
  LET counted == CountedForOthers(p, time)
      authorized == AuthorizedCapital(counted)
      duplicate == Duplicate(p, counted)
      source == sources[proposals[p].market]
      passes == Passes(p, time, authorized, duplicate)
      automatic == proposals[p].capital * 100 < AutoApproveMax * available
  IN  [proposal |-> p, head |-> head, authorized |-> authorized,
       duplicate |-> duplicate, tick |-> source.tick, open |-> source.open,
       timely |-> source.since <= time /\ time <= source.until,
       kind |-> IF ~passes THEN "reject"
                ELSE IF automatic THEN "auto_approve"
                ELSE "require_human_approval",
       window |-> IF passes THEN WindowEnd(time) ELSE 0,
       validUntil |-> IF ~passes THEN 0
                      ELSE IF WindowEnd(time) <= source.until THEN WindowEnd(time)
                      ELSE source.until,
       at |-> time]

\* The rows of risk_decisions: an approval is for a share of the bankroll the
\* proposal was sized against, and is not over before it begins.
DecisionRows ==
  {row \in [proposal : DOMAIN proposals, head : Nat, authorized : Nat,
            duplicate : BOOLEAN, tick : Nat, open : BOOLEAN, timely : BOOLEAN,
            kind : {"reject", "auto_approve", "require_human_approval"},
            window : Nat, validUntil : Nat, at : Nat] :
     LET proposal == proposals[row.proposal]
         below == proposal.capital * 100 < AutoApproveMax * proposal.available
     IN  CASE row.kind = "reject" -> row.validUntil = 0 /\ row.window = 0
           [] row.kind = "auto_approve" -> below /\ row.validUntil >= row.at
           [] OTHER -> ~below /\ row.validUntil >= row.at}

\* The table holds no exposure above the whole of the present bankroll, so the
\* rejection of a stale proposal that exceeds it cannot be written.
Recordable(p) == available > 0 => proposals[p].capital <= available

\* The input fingerprint: everything but the time itself.
Fingerprint(judgement) == [judgement EXCEPT !.at = 0, !.validUntil = 0]

BeginRisk(w, todo) ==
  /\ todo # {} /\ Free(w) /\ Tick
  /\ requests' = [requests EXCEPT ![w] = [kind |-> "risk", at |-> clock, todo |-> todo]]
  /\ UNCHANGED <<sources, published, ledger, proposals, decisions, trades>>

\* One proposal of the run.  A judgement with a known fingerprint adds no row,
\* whatever has been decided since that row was written.
Evaluate(w, p) ==
  /\ requests[w].kind = "risk" /\ p \in requests[w].todo
  /\ Recordable(p)
  /\ LET judgement == Judgement(p, requests[w].at)
         known == \E d \in DOMAIN decisions :
                    Fingerprint(decisions[d]) = Fingerprint(judgement)
     IN  /\ ~known => Len(decisions) < DecisionLimit
         /\ decisions' = IF known THEN decisions ELSE Append(decisions, judgement)
  /\ requests' = [requests EXCEPT ![w] =
       [kind |-> "check", by |-> "risk", head |-> head, at |-> requests[w].at,
        todo |-> requests[w].todo \ {p}]]
  /\ UNCHANGED <<clock, sources, published, ledger, proposals, trades>>

\* The insert is refused: the request fails, and with it the rest of the run.
FailToRecord(w, p) ==
  /\ requests[w].kind = "risk" /\ p \in requests[w].todo
  /\ ~Recordable(p)
  /\ requests' = [requests EXCEPT ![w] = Idle]
  /\ UNCHANGED <<clock, sources, published, ledger, proposals, decisions, trades>>

\* After the commit the head is read again, without a lock.  If it has moved the
\* request fails, blaming itself, and the rest of the run is not evaluated.
CheckBalance(w) ==
  /\ requests[w].kind = "check"
  /\ LET request == requests[w] IN
       requests' = [requests EXCEPT ![w] =
         IF request.head # head THEN [kind |-> "blamed", by |-> request.by]
         ELSE IF request.todo = {} THEN Idle
         ELSE [kind |-> "risk", at |-> request.at, todo |-> request.todo]]
  /\ UNCHANGED <<clock, sources, published, ledger, proposals, decisions, trades>>

-----------------------------------------------------------------------------
(* Execution and monitoring, as far as they touch the authorisations.      *)

Latest(d) ==
  \A e \in DOMAIN decisions :
    decisions[e].proposal = decisions[d].proposal => decisions[e].at <= decisions[d].at

\* Variant: the approval is used without its evidence being judged again.
StandsUnrevised(d, time) == decisions[d].validUntil > time /\ Latest(d)

\* The approval is the last word on its proposal and would be given again.
Stands(d, time) ==
  /\ decisions[d].validUntil > time
  /\ Latest(d)
  /\ Fingerprint(decisions[d]) = Fingerprint(Judgement(decisions[d].proposal, time))

NextHead ==
  /\ head < HeadLimit
  /\ head' = head + 1

Fill(d, cost) ==
  /\ decisions[d].kind = "auto_approve" /\ Unused(d) /\ Tick
  /\ Stands(d, clock)
  /\ cost <= Capital(d)
  /\ NextHead
  /\ available' = available - cost
  /\ holding' = holding \union {proposals[decisions[d].proposal].market}
  /\ trades' = [trades EXCEPT ![d] = "filled"]
  /\ UNCHANGED <<sources, published, proposals, decisions, requests>>

\* The approval no longer stands, or the price leaves too little edge.
Reject(d, affordable) ==
  /\ decisions[d].kind = "auto_approve" /\ Unused(d) /\ Tick
  /\ affordable => ~Stands(d, clock)
  /\ trades' = [trades EXCEPT ![d] = "rejected"]
  /\ UNCHANGED <<sources, published, ledger, proposals, decisions, requests>>

\* Monitoring marks a position, or sells part or all of it.
Monitor(m, proceeds, ends) ==
  /\ m \in holding
  /\ NextHead
  /\ available' = available + proceeds
  /\ holding' = IF ends THEN holding \ {m} ELSE holding
  /\ UNCHANGED <<clock, sources, published, proposals, decisions, trades, requests>>

-----------------------------------------------------------------------------
Init ==
  /\ clock = 0 /\ published = 0 /\ head = 0 /\ holding = {}
  /\ sources \in [Markets -> [tick : {0}, sides : Candidates, exposure : Exposures,
                              since : {0}, until : Lives, open : {TRUE}]]
  /\ available = StartingBankroll
  /\ proposals = <<>> /\ decisions = <<>>
  /\ trades = [d \in 1..DecisionLimit |-> "none"]
  /\ requests = [w \in Requests |-> Idle]

Next ==
  \/ Tick /\ UNCHANGED <<sources, published, ledger, proposals, decisions, trades, requests>>
  \/ \E m \in Markets :
       \/ \E sides \in Candidates, exposure \in Exposures, life \in Lives :
            Publish(m, sides, exposure, life)
       \/ ChangeStatus(m)
       \/ \E proceeds \in Costs, ends \in BOOLEAN : Monitor(m, proceeds, ends)
  \/ \E w \in Requests :
       \/ \E m \in Markets, side \in Sides : BeginSizing(w, m, side)
       \/ PersistProposal(w)
       \/ BeginRisk(w, DOMAIN proposals)
       \/ \E p \in DOMAIN proposals : BeginRisk(w, {p}) \/ Evaluate(w, p) \/ FailToRecord(w, p)
       \/ CheckBalance(w)
  \/ \E d \in DOMAIN decisions :
       \/ \E cost \in Costs : Fill(d, cost)
       \/ \E affordable \in BOOLEAN : Reject(d, affordable)

Spec == Init /\ [][Next]_vars

-----------------------------------------------------------------------------
\* Every row is of its table.
TypeOK ==
  /\ clock \in Nat /\ published \in Nat /\ head \in Nat /\ available \in Int
  /\ holding \subseteq Markets
  /\ sources \in [Markets -> Opportunities]
  /\ \A p \in DOMAIN proposals :
       proposals[p] \in ProposalRows /\ proposals[p].head <= head
  /\ \A d \in DOMAIN decisions :
       decisions[d] \in DecisionRows /\ decisions[d].head <= head
  /\ trades \in [1..DecisionLimit -> {"none", "filled", "rejected"}]

\* What is authorised and not yet spent always fits the bankroll it was
\* authorised against, though every evaluation leaves out its own proposal,
\* judges as of an earlier reading of the clock and overlaps with others
\* ("aggregate_bankroll_sufficient").
AuthorizedCapitalFits == AuthorizedCapital(Counted(clock)) <= available

\* Two approvals or escalations in force never cover the same market and side
\* ("duplicate_active_intent_absent"), whichever of them was timed first.
OneIntentInForce ==
  \A d, e \in Counted(clock) :
    SameIntent(decisions[d].proposal, decisions[e].proposal)
      => decisions[d].proposal = decisions[e].proposal

\* No fill rests on evidence that was superseded, withdrawn or closed since its
\* proposal was sized, however long approval and execution were apart.
FillsRestOnCurrentEvidence ==
  [][\A d \in DOMAIN decisions :
       trades'[d] = "filled" /\ Unused(d) =>
         LET proposal == proposals[decisions[d].proposal]
         IN  /\ sources[proposal.market].open
             /\ sources[proposal.market].tick = proposal.tick
             /\ proposal.market \notin holding]_vars

\* A snapshot is spent once: of all the approvals given against one head of the
\* ledger, at most one is ever filled, so the sum of what overlapping requests
\* authorise is never spent twice over.
OneFillPerSnapshot ==
  \A d, e \in DOMAIN decisions :
    trades[d] = "filled" /\ trades[e] = "filled" /\ decisions[d].head = decisions[e].head
      => d = e
=============================================================================
