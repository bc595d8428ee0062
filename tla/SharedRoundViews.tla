-------------------------- MODULE SharedRoundViews --------------------------
(***************************************************************************)
(* An honest provider and an honest verifier of the same proof, each with  *)
(* a shared-round challenger of its own over lanes of the same programs.   *)
(* The verifier replays after the provider is done.  It is given the       *)
(* recorded challenges only while its moves are the recorded moves, byte   *)
(* for byte.                                                               *)
(***************************************************************************)
EXTENDS Integers, Sequences, SequencesExt

CONSTANTS Programs, Longer

VARIABLES
    program,
    pShared, pAsleep, pLane, pMain,     \* the provider
    vShared, vAsleep, vLane, vMain      \* the verifier

pVars == <<pShared, pAsleep, pLane, pMain>>
vVars == <<vShared, vAsleep, vLane, vMain>>

NoFailures == {}

P == INSTANCE SharedRound WITH
    shared <- pShared, asleep <- pAsleep, lane <- pLane, main <- pMain,
    Failures <- NoFailures

V == INSTANCE SharedRound WITH
    shared <- vShared, asleep <- vAsleep, lane <- vLane, main <- vMain,
    Failures <- NoFailures

Init == P!Init /\ V!Init

Next ==
    \/ P!Next /\ UNCHANGED vVars
    \/ pMain = "done" /\ V!Next /\ UNCHANGED pVars

Spec == Init /\ [][Next]_<<program, pVars, vVars>>

\* Provider and verifier views match: what the verifier has absorbed and drawn
\* is what the provider had absorbed and drawn by then.
ViewsMatch == pMain = "done" => IsPrefix(vShared.transcript, pShared.transcript)

=============================================================================
