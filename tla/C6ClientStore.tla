--------------------------- MODULE C6ClientStore ----------------------------
(***************************************************************************)
(* The C6 client store: one state file, replaced atomically through a      *)
(* ".c6-next" file (create, write, sync, rename, sync of the directory).   *)
(*                                                                         *)
(* Source: rust/volta-proto/src/c6.rs.  Every call loads the file, so the  *)
(* store keeps nothing in memory and an error and a crash at the same      *)
(* point leave the same thing behind.  The client is a single writer       *)
(* (docs/c6-delta-residual-inline-design.md, section 9): the compare-and-  *)
(* swap against the caller's copy then only refuses callers that did not   *)
(* reload, and is not modelled.                                            *)
(***************************************************************************)
EXTENDS C6State

VARIABLES
    versions,   \* the state file; the versions before the last one are what a
                \* loss of power can bring back
    temp        \* the .c6-next file

Torn == [torn |-> TRUE]

client == <<versions, temp>>

\* C6ClientStore::load
main == versions[Len(versions)]

ClientInit ==
    /\ versions = <<GenesisState>>
    /\ temp = None

-----------------------------------------------------------------------------
(* recover_atomic_state and atomic_replace_state *)

\* A complete .c6-next must be a legal successor of the state it did not replace.
RecoverOK == temp \notin {None, Torn} => ValidTransition(main, temp)

\* Removing the .c6-next file syncs the directory, and with it earlier renames.
RecoveredVersions == IF temp = None THEN versions ELSE <<main>>

ReplaceOutcome == {"ok", "nothing", "torn", "written", "renamed"}

\* atomic_replace_state: recovery, then as many of its steps as succeed.
Replace(next, io) ==
    /\ StateValid(next)
    /\ ValidTransition(main, next)
    /\ RecoverOK
    /\ versions' = CASE io = "ok"      -> <<next>>
                     [] io = "renamed" -> Append(RecoveredVersions, next)
                     [] OTHER          -> RecoveredVersions
    /\ temp' = CASE io = "torn"    -> Torn
                 [] io = "written" -> next
                 [] OTHER          -> None

\* C6ClientStore::open after a replacement that did not finish.
ClientOpen ==
    /\ temp # None
    /\ RecoverOK
    /\ versions' = RecoveredVersions
    /\ temp' = None

\* Power loss: renames whose directory was never synced are undone from some
\* point on, and the .c6-next file is back, gone, or there in part.
ClientPowerLoss ==
    \E k \in 1..Len(versions) :
        /\ versions' = <<versions[k]>>
        /\ temp' \in IF k < Len(versions) THEN {None, versions[k + 1]}
                     ELSE IF temp = None THEN {None}
                     ELSE {None, Torn, temp}

-----------------------------------------------------------------------------
(* The operations *)

ClientReserve(entropy, n, io) ==
    /\ CanReserve(main, n)
    /\ Replace(Reserved(main, entropy, n), io)

ClientAbort(io) ==
    /\ main.pending # None
    /\ Replace(Aborted(main), io)

ClientAccept(cert, io) ==
    /\ CanAccept(main, cert)
    /\ Replace(Accepted(main, cert), io)

=============================================================================
