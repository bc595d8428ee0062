----------------------------- MODULE MCLifetime -----------------------------
(***************************************************************************)
(* The lifetime store on a small instance: two accepted digests besides    *)
(* zero, setups of 3 or 6 rows (and requests of 4 and 9 that are refused), *)
(* attempts on 0, 1 or 2 packed elements.                                  *)
(***************************************************************************)
EXTENDS Lifetime, TLC

CONSTANTS z, d1, d2

MCDigest == {z, d1, d2}
MCRowRequests == {3, 4, 6, 9}
MCAttemptSizes == {0, 1, 2}

\* The accepted digests are interchangeable; Zero is not.
MCSymmetry == Permutations({d1, d2})

=============================================================================
