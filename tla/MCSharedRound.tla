---------------------------- MODULE MCSharedRound ---------------------------
(***************************************************************************)
(* The shared-round challenger on small lane programs.  Lane 1, the        *)
(* response oracle, has one variable more than lane 2, the plan oracle.    *)
(***************************************************************************)
EXTENDS SharedRound, SequencesExt

MaxOps == 2

Ops == {Observe, Field, Bits(1), Bits(2)}

\* Every pair of programs of at most MaxOps operations, and three pairs in
\* which the longer lane has rounds of its own between and after common ones.
MCPrograms ==
    [Lanes -> BoundedSeq(Ops, MaxOps)]
        \cup {<<<<Field, Observe, Bits(2), Field, Bits(1)>>, <<Field, Observe, Field>>>>,
              <<<<Observe, Field, Bits(1), Observe, Field>>, <<Bits(2), Observe, Field>>>>,
              <<<<Field, Bits(1), Field>>, <<Bits(2), Observe, Bits(1), Field, Observe>>>>}

=============================================================================
