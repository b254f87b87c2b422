---------------------------- MODULE MCRoundTrip ----------------------------
(***************************************************************************)
(* Prices from a quarter of a cent up, so that a contract can cost less    *)
(* than a cent, and capital enough for a score of contracts.                  *)
(***************************************************************************)
EXTENDS RoundTrip

MCAsks == {2, 10, 26, 55}
MCBids == {0, 1, 25, 55}
MCAmounts == {1, 2, 9, 48}
=============================================================================
