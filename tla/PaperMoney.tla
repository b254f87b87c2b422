----------------------------- MODULE PaperMoney -----------------------------
(***************************************************************************)
(* The decimal arithmetic of paper trading: what an entry costs, how many  *)
(* whole contracts an authorised amount of capital buys, what a sale or a  *)
(* settlement pays, and how the cost basis of a position is shared out     *)
(* between the contracts that leave it.                                    *)
(*                                                                         *)
(* Money is an integer number of cents.  A price is an integer number of   *)
(* price units, UnitsPerCent of them to the cent (the code's quantum of    *)
(* 0.000001 makes that 10000), so that one contract pays One units.        *)
(***************************************************************************)
EXTENDS Integers

CONSTANTS
  UnitsPerCent,        \* price units in one cent
  BpsScale,            \* the fraction of 1 that a rate is given in
  EntrySlippageBps,    \* PaperExecutionPolicy.slippage_bps
  EntryFeeBps,         \* PaperExecutionPolicy.fee_bps
  ExitSlippageBps,     \* PositionMonitoringPolicy.exit_slippage_bps
  ExitFeeBps,          \* PositionMonitoringPolicy.exit_fee_bps
  ReduceNumerator,     \* PositionMonitoringPolicy.reduce_fraction is
  ReduceDenominator    \*   ReduceNumerator / ReduceDenominator

ASSUME ScaleAssumption ==
  UnitsPerCent \in Nat \ {0} /\ BpsScale \in Nat \ {0}

\* BasisPoints is bounded by 10000, which is the whole of the scale.
ASSUME RateAssumption ==
  {EntrySlippageBps, EntryFeeBps, ExitSlippageBps, ExitFeeBps} \subseteq 0..BpsScale

\* reduce_fraction lies strictly between 0 and 1.
ASSUME ReduceAssumption ==
  ReduceDenominator \in Nat /\ ReduceNumerator \in 1..(ReduceDenominator - 1)

One == 100 * UnitsPerCent

-----------------------------------------------------------------------------
(* Rounding.  Every rounded amount in the code is nonnegative.             *)

CeilDiv(a, b) == (a + b - 1) \div b

FloorCents(amount) == amount \div UnitsPerCent

CeilCents(amount) == CeilDiv(amount, UnitsPerCent)

\* A slippage in price units, rounded against the trader.
Slippage(bps) == CeilDiv(bps * One, BpsScale)

\* A fee on an amount of cents, rounded up.  A zero rate costs nothing.
Fee(cents, bps) == CeilDiv(cents * bps, BpsScale)

-----------------------------------------------------------------------------
(* Entry: the largest whole-contract fill the capital pays for.            *)

EntryPrice(ask) == ask + Slippage(EntrySlippageBps)

EntryGross(price, quantity) == CeilCents(price * quantity)

EntryFees(price, quantity) == Fee(EntryGross(price, quantity), EntryFeeBps)

EntryTotal(price, quantity) ==
  EntryGross(price, quantity) + EntryFees(price, quantity)

\* Variant: the estimate is made with the price of a contract in whole cents.
RequestedAtWholeCents(price, capital) ==
  (capital * BpsScale) \div (CeilCents(price) * (BpsScale + EntryFeeBps))

\* The estimate the search starts from, before cents are rounded up.
RequestedQuantity(price, capital) ==
  (capital * UnitsPerCent * BpsScale) \div (price * (BpsScale + EntryFeeBps))

\* The search goes down from the estimate until the rounded cost fits.
Search(price, capital) ==
  LET fill[quantity \in 0..RequestedQuantity(price, capital)] ==
        IF quantity = 0 \/ EntryTotal(price, quantity) <= capital
        THEN quantity
        ELSE fill[quantity - 1]
  IN  fill

FillQuantity(price, capital) ==
  Search(price, capital)[RequestedQuantity(price, capital)]

\* The all-in cost of one contract, in price units.
EffectiveUnitCost(price, quantity) ==
  CeilDiv(EntryTotal(price, quantity) * UnitsPerCent, quantity)

-----------------------------------------------------------------------------
(* Exit and settlement.                                                    *)

ExitPrice(bid) ==
  IF bid >= Slippage(ExitSlippageBps) THEN bid - Slippage(ExitSlippageBps) ELSE 0

SaleProceeds(bid, quantity) ==
  LET gross == FloorCents(ExitPrice(bid) * quantity)
  IN  gross - Fee(gross, ExitFeeBps)

SettlementProceeds(payout, quantity) == FloorCents(payout * quantity)

MarketValue(price, quantity) == FloorCents(price * quantity)

\* Half of a position, say, rounded up; but a reduction always leaves one.
ReduceQuantity(quantity) ==
  LET share == CeilDiv(quantity * ReduceNumerator, ReduceDenominator)
  IN  IF share <= quantity - 1 THEN share ELSE quantity - 1

-----------------------------------------------------------------------------
(* Cost basis.                                                             *)

\* What the first "disposed" contracts of "initial" take of an amount.
Allocation(original, disposed, initial) ==
  IF disposed = initial THEN original ELSE (original * disposed) \div initial
=============================================================================
