---------------------------- MODULE MCConnection ----------------------------
(***************************************************************************)
(* Connections on small instances.  n1 and n2 are authorization nonces, m  *)
(* a model epoch, x a challenge seed, a and b auxiliary root sets, q a     *)
(* query seed.                                                             *)
(***************************************************************************)
EXTENDS Connection, TLC

CONSTANTS c1, s0, s1, s2, n1, n2, m, x, a, q, b

MCKeys == {n1, n2, m, x, a, b, q} \cup (Conns \X (1..MaxEpoch))

\* One plain response, and a plain one next to X4 ones that want its nonce or
\* share their model epoch and challenge.
MCOneResponse == {<<n1>>}
MCX4Responses == {<<n1>>, <<m, x, n1>>, <<m, x, n2>>}

MCSeeds == {<<a, q>>, <<b, x>>}

MCSymmetry == Permutations(Stages)

=============================================================================
