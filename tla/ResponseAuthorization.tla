----------------------- MODULE ResponseAuthorization -----------------------
(***************************************************************************)
(* The burn store of response and settlement authorizations: a directory   *)
(* in which a key (an authorization nonce, a model epoch, a challenge, a   *)
(* settlement epoch, an auxiliary root set, a query seed) is burned by the *)
(* existence of its marker file.                                           *)
(*                                                                         *)
(* Source: rust/volta-pcg/src/production.rs, ResponseAuthorizationStore.   *)
(*                                                                         *)
(* A reservation burns the keys of its binding one after the other: create *)
(* the marker exclusively, write and sync it, sync the directory.  It stops *)
(* at the first key that is taken or whose I/O fails and leaves what it    *)
(* burned.  Only the name of a marker is ever consulted, so its contents   *)
(* are not modelled.                                                       *)
(***************************************************************************)
EXTENDS Naturals, Sequences, Functions

CONSTANTS
    Keys,        \* what a marker can be named after
    MarkersFail  \* whether the I/O of a marker may fail

ASSUME MarkersFailAssumption == MarkersFail \in BOOLEAN

VARIABLES
    markers, \* per key: "none", "volatile" (may vanish with the power), "durable"
    used     \* history: the reservations that succeeded, counted per key

authVars == <<markers, used>>

AuthInit ==
    /\ markers = [k \in Keys |-> "none"]
    /\ used = [k \in Keys |-> 0]

\* A variant: the directory is not synced.
DirectoryForgotten(D) == [k \in Keys |-> IF k \in D THEN "volatile" ELSE markers[k]]

\* The markers once those named after D are created and the directory is
\* synced: the sync reaches what earlier failed calls left in it too.
DirectorySynced(D) ==
    [k \in Keys |->
        IF k \in D \/ (D # {} /\ markers[k] = "volatile") THEN "durable" ELSE markers[k]]

\* The first n keys of a binding.
FirstKeys(b, n) == {b[i] : i \in 1..n}

\* A variant: only the nonce is created exclusively.
ReserveChecksNonce(b) ==
    /\ markers[b[Len(b)]] = "none"
    /\ markers' = DirectorySynced(Range(b))
    /\ used' = [k \in Keys |-> IF k \in Range(b) THEN used[k] + 1 ELSE used[k]]

\* Every key of the binding was free and is burned durably.
Reserve(b) ==
    /\ \A i \in 1..Len(b) : markers[b[i]] = "none"
    /\ markers' = DirectorySynced(Range(b))
    /\ used' = [k \in Keys |-> IF k \in Range(b) THEN used[k] + 1 ELSE used[k]]

\* The reservation fails at key n+1: the key is burned already, or its I/O
\* fails before (left = "none"), between (left = "volatile") or after
\* (left = "durable") the marker's creation and the sync of the directory.
ReserveFails(b) ==
    \E n \in 0..(Len(b) - 1) :
        /\ \A i \in 1..n : markers[b[i]] = "none"
        /\ \/ /\ markers[b[n + 1]] # "none"
              /\ markers' = DirectorySynced(FirstKeys(b, n))
           \/ /\ MarkersFail
              /\ markers[b[n + 1]] = "none"
              /\ \E left \in {"none", "volatile", "durable"} :
                    markers' = [DirectorySynced(FirstKeys(b, n)) EXCEPT ![b[n + 1]] = left]
        /\ UNCHANGED used

\* A loss of power: the markers whose directory entry was never synced
\* survive or vanish.
MarkersLost ==
    /\ \E lost \in SUBSET {k \in Keys : markers[k] = "volatile"} :
          markers' = [k \in Keys |->
              IF k \in lost THEN "none"
              ELSE IF markers[k] = "volatile" THEN "durable" ELSE markers[k]]
    /\ UNCHANGED used

=============================================================================
