------------------------- MODULE NflPilotProperties -------------------------
(***************************************************************************)
(* What must be true of a scenario of the NFL paper pilot.                 *)
(***************************************************************************)
EXTENDS NflPilot

Decisions ==
  [price : Nat, forecast : Nat, action : {"hold", "reduce", "close"}, attention : BOOLEAN]

Events == [decision : Decisions, quantity : Nat, released : Int, proceeds : Int]

Passes ==
  [kind : {"monitor"}, step : {"next", "alert", "check", "mark", "expired"},
   loaded : [Entries -> Rows], todo : SUBSET Entries, entry : Entries,
   decision : Decisions, status : {"fresh", "stale", "unusable"}]

JobRows ==
  [kind : {"mark", "settle", "dispose"}, step : {"locked", "judged"}, entry : Entries,
   row : Rows, decision : Decisions, key : Nat, caller : {Idle} \union Passes,
   after : Rows, sale : Events, price : Nat]

RequestRows == {Idle} \union Passes \union JobRows

\* Every table holds rows of its own kind, and what a request has read or
\* computed is such a row too.
TypeOK ==
  /\ quote \in [id : Nat, bid : Nat, ask : Nat, stale : BOOLEAN]
  /\ forecasts \in Seq(Nat) /\ resolutions \subseteq Payouts
  /\ entries \in [Entries -> Fills \union {NoEntry}]
  /\ positions \in [Entries -> Rows]
  /\ decisions \in [Entries -> SUBSET Decisions]
  /\ alerts \in [Entries -> SUBSET Decisions]
  /\ checks \in [Entries -> SUBSET [price : Nat, status : {"fresh", "stale", "unusable"}]]
  /\ marks \in [Entries -> SUBSET [price : Nat, key : Nat]]
  /\ dispositions \in [Entries -> SUBSET Events]
  /\ settlements \in [Entries -> SUBSET Events]
  /\ requests \in [Requests -> RequestRows]

\* Open entries never cost more together than the scenario's aggregate share
\* of the bankroll, though positions are made, reduced, closed and settled by
\* requests that do not take the scenario's lock (NflPilotEntryService.run).
AggregateCapHolds == Committed <= AggregateCap

Follows(row, entry, events) ==
  /\ row.disposed = ColumnTotal(events, "quantity")
  /\ row.basis = entry.cost - ColumnTotal(events, "released")
  /\ row.realized = ColumnTotal(events, "proceeds") - ColumnTotal(events, "released")

\* An open position is its entry less its dispositions: no mark, not even one
\* that a pass computed from a row it loaded long before, undoes a disposition,
\* and no disposition is lost or counted twice.
OpenPositionFollowsDispositions ==
  \A e \in Open : Follows(positions[e], entries[e], dispositions[e])

\* Every position is its entry less its dispositions and its settlement
\* (NflPilotPositionRecord: a projection derived from immutable events), so that
\* each contract is paid for once.
PositionFollowsEvents ==
  \A e \in Entries :
    positions[e].status # "none" =>
      Follows(positions[e], entries[e], dispositions[e] \union settlements[e])

\* What an open position is said to be worth is what the contracts it still has
\* are worth at its mark.
ValueIsOfContractsHeld ==
  \A e \in Open :
    positions[e].mark # 0 =>
      positions[e] = Marked(positions[e], positions[e].mark)

\* A decision is disposed of once, however many requests act on it at the same
\* time (NflPilotLifecycleService.dispose: "was already disposed").
DecisionIsUsedOnce ==
  \A e \in Entries : \A d, other \in dispositions[e] :
    d.decision = other.decision => d = other

\* A position that has ended stays ended and empty, though requests that loaded
\* it while it was open go on to write it.
EndedIsFinal ==
  [][\A e \in Entries :
       positions[e].status \in {"closed", "settled"} =>
         /\ positions'[e].status \in {"closed", "settled"}
         /\ \A column \in {"remaining", "basis", "value"} : positions'[e][column] = 0]_vars

-----------------------------------------------------------------------------
\* A pass never leaves behind a decision that needs attention and has no alert,
\* even if the pass that made the decision was lost before it could alert.
DecisionIsAlerted ==
  \A w \in Requests :
    requests[w].kind = "monitor" /\ requests[w].step # "alert" /\ requests[w].decision.attention
      => requests[w].decision \in alerts[requests[w].entry]

\* A pass ends: no lock it waits for is held for ever.
PassEnds ==
  \A w \in Requests : requests[w].kind = "monitor" ~> requests[w] = Idle

-----------------------------------------------------------------------------
\* An entry is an account from its fill on, whether or not its row is made yet.
Account(e) ==
  IF entries[e] = NoEntry THEN [stage |-> "none", contracts |-> 0, basis |-> 0, profit |-> 0]
  ELSE LET row == Position(e)
       IN  [stage |-> IF row.status = "open" THEN "open" ELSE "ended",
            contracts |-> row.remaining, basis |-> row.basis, profit |-> row.realized]

Books == [e \in Entries |-> Account(e)]

Pilot ==
  INSTANCE PaperLedger WITH
    Accounts <- Entries, ContractPayout <- 100, accounts <- Books

\* With one request at a time every entry keeps the promises of a paper
\* position: each contract is sold once, at no more than a contract pays, and
\* the profit is proceeds less cost.
ImplementsLedger == Pilot!LedgerSpec
=============================================================================
