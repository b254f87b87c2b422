--------------------------- MODULE MCPaperTrading ---------------------------
(***************************************************************************)
(* Small portfolios for TLC.  A cent is two price units here, so a price   *)
(* can fall between cents and every rounding rule has something to round.  *)
(***************************************************************************)
EXTENDS PaperTradingProperties, TLC

\* Requests differ in nothing but their names.
Symmetry == Permutations(Requests)

Quote(ask, bid, probability) == [ask |-> ask, bid |-> bid, probability |-> probability]

\* An entry that qualifies, an edge that calls for a reduction, and one that
\* calls for an exit.
MCQuotes == {Quote(81, 79, 120), Quote(101, 99, 106), Quote(121, NoBid, 160)}

MCCapitals == {250}
MCPayouts == {0, 200}
=============================================================================
