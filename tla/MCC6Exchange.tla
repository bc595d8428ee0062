---------------------------- MODULE MCC6Exchange ----------------------------
(***************************************************************************)
(* The exchange on a small instance.                                       *)
(***************************************************************************)
EXTENDS C6Exchange, TLC

CONSTANTS h1, h2, b1, b2

\* Handles and certificate bodies are interchangeable.
MCSymmetry == Permutations(Handles) \cup Permutations(Bodies)

=============================================================================
