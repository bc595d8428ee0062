---------------------------- MODULE MCCorrelations --------------------------
(***************************************************************************)
(* A prover's stream over a small pool.                                    *)
(***************************************************************************)
EXTENDS SourceWitness

MCPool == [sub |-> 3, full |-> 3]

=============================================================================
