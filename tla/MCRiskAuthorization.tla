------------------------ MODULE MCRiskAuthorization ------------------------
(***************************************************************************)
(* A bankroll of ten.  Two approvals of forty per cent fit into it, and    *)
(* one of forty and one of sixty; two of sixty do not, and eighty needs a  *)
(* human.                                                                  *)
(***************************************************************************)
EXTENDS RiskAuthorization, TLC

\* A book with one candidate, and one so wide that both sides of it are worth buying.
OneOrBothSides == {{"yes"}, {"yes", "no"}}

Symmetry == Permutations(Requests) \union Permutations(Markets)
=============================================================================
