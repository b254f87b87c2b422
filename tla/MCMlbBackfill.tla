--------------------------- MODULE MCMlbBackfill ---------------------------
(***************************************************************************)
(* A season of one day for each split, with one game on each day.           *)
(***************************************************************************)
EXTENDS MlbBackfillProperties
CONSTANTS g0, g1, g2, g3, w1, w2

MCStart == (g0 :> 0) @@ (g1 :> 1) @@ (g2 :> 2) @@ (g3 :> 4)

\* Two backfills at once with a failure; and one worker that also collects the
\* coming game while the feed moves, with and without a failure.
MCCrews ==
  LET Two == [backfillers |-> {w1, w2}, collectors |-> {}, changing |-> {},
              unposted |-> {}, thin |-> {}, until |-> 3, faults |-> 1]
      One == [backfillers |-> {w1}, collectors |-> {w1}, changing |-> {g2, g3},
              unposted |-> {}, thin |-> {}, until |-> 4, faults |-> 0]
  IN {Two, [Two EXCEPT !.unposted = {g1}], One, [One EXCEPT !.unposted = {g3}, !.thin = {g1}]}
=============================================================================
