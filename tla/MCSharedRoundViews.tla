------------------------- MODULE MCSharedRoundViews -------------------------
(***************************************************************************)
(* Provider and verifier with lanes that observe one value each between    *)
(* two common challenges.                                                  *)
(***************************************************************************)
EXTENDS SharedRoundViews

ObserveThenField == <<[kind |-> "observe", width |-> 0], [kind |-> "field", width |-> 0]>>

MCPrograms == {<<ObserveThenField, ObserveThenField>>}

=============================================================================
