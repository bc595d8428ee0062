--------------------------- MODULE CorrelationTape --------------------------
(***************************************************************************)
(* What a correlation stream promises, without ledger, reservations or     *)
(* sidecars: every kind of correlation is a tape of rows, and a draw gives *)
(* the next rows of the tape to domains that own none yet.  The rows of a  *)
(* draw follow from the draws before it and from nothing else, which is    *)
(* what lets a prover and a verifier that make the same draws hold the two *)
(* halves of the same correlations.                                        *)
(***************************************************************************)
EXTENDS Integers, Sequences

CONSTANTS
    Kinds,     \* the kinds of correlation
    Domains,   \* the domains, an interval of integers
    Pool       \* how many rows there are of each kind

VARIABLE tape  \* for each kind, the domain that owns each row drawn so far

Owners(k) == {tape[k][i] : i \in 1..Len(tape[k])}

Init == tape = [k \in Kinds |-> <<>>]

\* n rows for each of the domains base, base + 1, ..., base + rows - 1.
Draw(k, base, rows, n) ==
    /\ base..(base + rows - 1) \subseteq Domains \ Owners(k)
    /\ Len(tape[k]) + rows * n <= Pool[k]
    /\ tape' = [tape EXCEPT ![k] =
                  @ \o [i \in 1..(rows * n) |-> base + (i - 1) \div n]]

\* A draw takes at least one row.
Next ==
    \E k \in Kinds :
        /\ tape'[k] # tape[k]
        /\ \E base \in Domains : \E rows, n \in 1..Pool[k] : Draw(k, base, rows, n)

Spec == Init /\ [][Next]_tape

=============================================================================
