----------------------------- MODULE MCNflPilot -----------------------------
(***************************************************************************)
(* Small scenarios for TLC.  A cent is two price units, so that proceeds   *)
(* and values have something to round.                                     *)
(***************************************************************************)
EXTENDS NflPilotProperties, TLC

Symmetry == Permutations(Requests)

\* Five contracts whose cost five does not divide: reductions leave two, then one.
MCFills == {[quantity |-> 5, cost |-> 252]}
\* A two-sided quote, and one without a bid.
MCQuotes == {[bid |-> 101, ask |-> 103], [bid |-> 0, ask |-> 97]}
\* A price that is published again unchanged.
MCSteadyQuote == {[bid |-> 101, ask |-> 103]}
\* Edges that call for a reduction and for an exit.
MCExpectations == {104, 99}
MCPayouts == {0, 200}
=============================================================================
