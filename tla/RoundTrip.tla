------------------------------ MODULE RoundTrip ------------------------------
(***************************************************************************)
(* One position by itself: the execution engine fills it, and sales of any *)
(* sizes take it apart, at bids that never exceed the ask it was bought    *)
(* at.  What the arithmetic of PaperMoney adds up to over such a life is   *)
(* what no single call of it shows.                                        *)
(***************************************************************************)
EXTENDS PaperMoney

CONSTANTS
  Asks,       \* asks a fill may be made at, in price units
  Bids,       \* bids a sale may be made at
  Amounts     \* authorised capital, in cents

ASSUME CaseAssumption ==
  /\ Asks \subseteq 1..One
  /\ Bids \subseteq Nat
  /\ Amounts \subseteq Nat

VARIABLES
  ask,        \* the ask the position was bought at
  capital,    \* the capital authorised for it
  held,       \* contracts still held
  gross,      \* gross cost basis still carried
  fees,       \* entry fees still carried
  income      \* net proceeds so far

vars == <<ask, capital, held, gross, fees, income>>

Price == EntryPrice(ask)
Bought == FillQuantity(Price, capital)
Spent == EntryTotal(Price, Bought)

Init ==
  /\ ask \in Asks /\ capital \in Amounts
  /\ held = Bought
  /\ gross = EntryGross(Price, Bought)
  /\ fees = EntryFees(Price, Bought)
  /\ income = 0

\* Variant: each sale takes its share of what is carried.
ReleasedStepwise(original, carried, quantity) == (carried * quantity) \div held

\* The basis that leaves with some of the contracts; with the last of them,
\* whatever is left of it.
Released(original, carried, quantity) ==
  IF quantity = held
  THEN carried
  ELSE Allocation(original, Bought - held + quantity, Bought)
         - Allocation(original, Bought - held, Bought)

\* Variant: a sale of some of the contracts is paid as a sale of all of them.
SellPaidInFull(bid, quantity) ==
  /\ bid <= ask
  /\ gross' = gross - Released(EntryGross(Price, Bought), gross, quantity)
  /\ fees' = fees - Released(EntryFees(Price, Bought), fees, quantity)
  /\ held' = held - quantity
  /\ income' = income + SaleProceeds(bid, held)
  /\ UNCHANGED <<ask, capital>>

Sell(bid, quantity) ==
  /\ bid <= ask
  /\ gross' = gross - Released(EntryGross(Price, Bought), gross, quantity)
  /\ fees' = fees - Released(EntryFees(Price, Bought), fees, quantity)
  /\ held' = held - quantity
  /\ income' = income + SaleProceeds(bid, quantity)
  /\ UNCHANGED <<ask, capital>>

Next == \E bid \in Bids, quantity \in 1..held : Sell(bid, quantity)

Spec == Init /\ [][Next]_vars

-----------------------------------------------------------------------------
\* The variables hold amounts: no sale ever owes money, no basis goes negative.
TypeOK ==
  /\ ask \in Asks /\ capital \in Amounts
  /\ held \in 0..Bought
  /\ gross \in Nat /\ fees \in Nat /\ income \in Nat

\* The downward search of the execution engine finds the largest number of
\* contracts, of all numbers, whose rounded cost the capital pays for.
FillIsLargestAffordable ==
  /\ Bought > 0 => Spent <= capital
  /\ \A quantity \in (Bought + 1)..(capital * UnitsPerCent + 1) :
       EntryTotal(Price, quantity) > capital

\* However a position is taken apart, and whichever way each amount is rounded
\* on the way, sales at no more than the ask never bring back more than it cost.
RoundTripNeverProfits == income <= Spent

\* What is left of the basis depends on how much is left of the position, not on
\* how it was taken apart (cumulative_basis_allocation is "path-independent").
BasisIsPathIndependent ==
  held > 0 =>
    /\ gross = EntryGross(Price, Bought)
                 - Allocation(EntryGross(Price, Bought), Bought - held, Bought)
    /\ fees = EntryFees(Price, Bought)
                - Allocation(EntryFees(Price, Bought), Bought - held, Bought)

\* An open position always carries some basis, as ck_positions_lifecycle demands,
\* and a finished one carries none: the last contract takes the rounding with it.
BasisLastsAsLongAsThePosition == held > 0 <=> gross + fees > 0
=============================================================================
