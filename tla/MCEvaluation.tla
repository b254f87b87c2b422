---------------------------- MODULE MCEvaluation ----------------------------
(***************************************************************************)
(* Portfolios whose requests follow one another.  One quote qualifies for  *)
(* an entry and has no bid, so the position is marked at a price nobody    *)
(* bid; the other calls for a reduction.                                   *)
(***************************************************************************)
EXTENDS Evaluation

Quote(ask, bid, probability) == [ask |-> ask, bid |-> bid, probability |-> probability]

MCQuotes == {Quote(81, NoBid, 120), Quote(101, 99, 106)}
MCCapitals == {250}
MCPayouts == {0, 200}
=============================================================================
