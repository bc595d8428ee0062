----------------------------- MODULE MCFixedRun -----------------------------
(***************************************************************************)
(* A fixed run of three slots on pools that hold rows for all three.       *)
(***************************************************************************)
EXTENDS FixedRun

CONSTANTS r1, r2, r3

MCRoots == {r1, r2, r3}
MCRequired == <<1, 2, 1>>

=============================================================================
