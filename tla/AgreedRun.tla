----------------------------- MODULE AgreedRun ------------------------------
(***************************************************************************)
(* What a fixed run promises, without stores, pools or messages: a chain   *)
(* of at most ROOT_SLOTS responses with distinct roots that the verifier   *)
(* extends only after the prover has confirmed all of it.                  *)
(***************************************************************************)
EXTENDS Integers, Sequences

CONSTANTS Roots, ROOT_SLOTS

VARIABLES chain, confirmed

vars == <<chain, confirmed>>

Init ==
    /\ chain = <<>>
    /\ confirmed = <<>>

\* The verifier accepts a response on top of a chain the prover has confirmed.
Accept(root) ==
    /\ confirmed = chain
    /\ Len(chain) < ROOT_SLOTS
    /\ \A i \in 1..Len(chain) : chain[i] # root
    /\ chain' = Append(chain, root)
    /\ UNCHANGED confirmed

\* The prover confirms the response it was waiting for.
Confirm ==
    /\ Len(confirmed) < Len(chain)
    /\ confirmed' = chain
    /\ UNCHANGED chain

Next ==
    \/ \E root \in Roots : Accept(root)
    \/ Confirm

Spec == Init /\ [][Next]_vars

=============================================================================
