------------------------- MODULE MCInteractiveBroker ------------------------
(***************************************************************************)
(* An attempt on a small instance: m1 and m2 are provider moves, p1 and p2 *)
(* final artifacts.                                                        *)
(***************************************************************************)
EXTENDS InteractiveBroker, TLC

CONSTANTS m1, m2, p1, p2, fp, query

MCSymmetry == Permutations(Moves) \cup Permutations(Payloads) \cup Permutations(Kinds)

=============================================================================
