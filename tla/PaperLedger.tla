---------------------------- MODULE PaperLedger ----------------------------
(***************************************************************************)
(* What a paper position promises, whichever part of the system keeps it.  *)
(* An account is opened once, with what its contracts cost.  From then on  *)
(* contracts only leave it; those that leave take some of the cost with    *)
(* them and bring in proceeds of at most what a contract can pay, and the  *)
(* profit moves by exactly the difference.  When the last contract leaves, *)
(* no cost is left and nothing changes any more.                           *)
(***************************************************************************)
EXTENDS Integers

CONSTANTS
  Accounts,
  ContractPayout    \* the most one contract pays, in cents

VARIABLE accounts

Stages == {"none", "open", "ended"}

AccountRows == [stage : Stages, contracts : Nat, basis : Nat, profit : Int]

NoAccount == [stage |-> "none", contracts |-> 0, basis |-> 0, profit |-> 0]

Opened(after) ==
  after.stage = "open" /\ after.contracts > 0 /\ after.basis > 0 /\ after.profit = 0

Sold(before, after) ==
  LET quantity == before.contracts - after.contracts
      released == before.basis - after.basis
      proceeds == (after.profit - before.profit) + released
  IN  /\ before.stage = "open"
      /\ quantity > 0 /\ released >= 0
      /\ 0 <= proceeds /\ proceeds <= ContractPayout * quantity
      /\ IF after.contracts = 0
         THEN after.stage = "ended" /\ after.basis = 0
         ELSE after.stage = "open"

\* One account at a time is opened or sold from.
Move(a) ==
  /\ accounts'[a] \in AccountRows
  /\ accounts' = [accounts EXCEPT ![a] = accounts'[a]]
  /\ \/ accounts[a].stage = "none" /\ Opened(accounts'[a])
     \/ Sold(accounts[a], accounts'[a])

LedgerInit == accounts = [a \in Accounts |-> NoAccount]

LedgerNext == \E a \in Accounts : Move(a)

LedgerSpec == LedgerInit /\ [][LedgerNext]_accounts
=============================================================================
