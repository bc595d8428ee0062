-------------------------- MODULE LifetimeRecords ---------------------------
(***************************************************************************)
(* The record format of the B12 lifetime journal and the state machine its *)
(* records drive: State::apply, and the records begin_for and attempt      *)
(* append.                                                                 *)
(*                                                                         *)
(* Source: rust/volta-pcg/src/c71_lifetime.rs.                             *)
(***************************************************************************)
EXTENDS Integers

CONSTANTS
    Digest,              \* 32-byte strings
    Zero,                \* the all-zero one
    LIMIT,               \* setups over the life of the root (1 << 20)
    ROOT_SLOTS,          \* exposures over the life of the root (3)
    MAX_ROWS,            \* base rows of a renewable setup (207)
    MAX_FIXED_RUN_ROWS   \* base rows of a fixed run

ASSUME ConstantsAssumption ==
    /\ Zero \in Digest
    /\ LIMIT \in Nat
    /\ ROOT_SLOTS \in Nat
    /\ MAX_ROWS \in Nat
    /\ MAX_FIXED_RUN_ROWS \in Nat

-----------------------------------------------------------------------------
(* Records and states *)

Kinds == {"setup", "fixed", "burn", "accept"}

Record == [kind : Kinds, setup : Nat, start : Nat, count : Nat, digest : Digest]

State == [fixed_run : BOOLEAN, setups : Nat, attempts : Nat, rows : Nat,
          used : Nat, pending : BOOLEAN, head : Digest]

DefaultState == [fixed_run |-> FALSE, setups |-> 0, attempts |-> 0, rows |-> 0,
                 used |-> 0, pending |-> FALSE, head |-> Zero]

\* The guards of State::apply, one disjunct per record kind.
Valid(s, r) ==
    \/ /\ r.kind = "setup"
       /\ ~s.fixed_run
       /\ s.setups < LIMIT
       /\ s.attempts < ROOT_SLOTS
       /\ r.setup = s.setups + 1
       /\ r.start = 0
       /\ r.count \in 3..MAX_ROWS
       /\ r.count % 3 = 0
       /\ r.digest = Zero
    \/ /\ r.kind = "fixed"
       /\ s.setups = 0
       /\ s.attempts = 0
       /\ r.setup = 1
       /\ r.start = 0
       /\ r.count \in 3..MAX_FIXED_RUN_ROWS
       /\ r.count % 3 = 0
       /\ r.digest = Zero
    \/ /\ r.kind = "burn"
       /\ r.setup = s.setups
       /\ r.setup > 0
       /\ r.start = s.used
       /\ r.count > 0
       /\ r.count % 3 = 0
       /\ r.count <= s.rows - s.used
       /\ s.attempts < LIMIT
       /\ s.attempts < ROOT_SLOTS
       /\ r.digest = s.head
    \/ /\ r.kind = "accept"
       /\ r.setup = s.setups
       /\ s.pending
       /\ r.start = s.attempts
       /\ r.count = 0
       /\ r.digest # s.head
       /\ r.digest # Zero

\* A variant: a burn leaves the row cursor where it was.
ApplyForgetsUsed(s, r) ==
    CASE r.kind = "setup"  -> [s EXCEPT !.setups = r.setup, !.rows = r.count,
                                        !.used = 0, !.pending = FALSE]
      [] r.kind = "fixed"  -> [s EXCEPT !.fixed_run = TRUE, !.setups = 1,
                                        !.rows = r.count]
      [] r.kind = "burn"   -> [s EXCEPT !.attempts = @ + 1, !.pending = TRUE]
      [] r.kind = "accept" -> [s EXCEPT !.head = r.digest, !.pending = FALSE]

\* A variant: a burn does not count as an exposure of the root.
ApplyForgetsAttempts(s, r) ==
    CASE r.kind = "setup"  -> [s EXCEPT !.setups = r.setup, !.rows = r.count,
                                        !.used = 0, !.pending = FALSE]
      [] r.kind = "fixed"  -> [s EXCEPT !.fixed_run = TRUE, !.setups = 1,
                                        !.rows = r.count]
      [] r.kind = "burn"   -> [s EXCEPT !.used = @ + r.count, !.pending = TRUE]
      [] r.kind = "accept" -> [s EXCEPT !.head = r.digest, !.pending = FALSE]

\* A variant: a new setup does not reset the row cursor.
ApplyKeepsUsed(s, r) ==
    CASE r.kind = "setup"  -> [s EXCEPT !.setups = r.setup, !.rows = r.count,
                                        !.pending = FALSE]
      [] r.kind = "fixed"  -> [s EXCEPT !.fixed_run = TRUE, !.setups = 1,
                                        !.rows = r.count]
      [] r.kind = "burn"   -> [s EXCEPT !.used = @ + r.count,
                                        !.attempts = @ + 1, !.pending = TRUE]
      [] r.kind = "accept" -> [s EXCEPT !.head = r.digest, !.pending = FALSE]

\* What State::apply assigns when the guard of the record's kind holds.
Apply(s, r) ==
    CASE r.kind = "setup"  -> [s EXCEPT !.setups = r.setup, !.rows = r.count,
                                        !.used = 0, !.pending = FALSE]
      [] r.kind = "fixed"  -> [s EXCEPT !.fixed_run = TRUE, !.setups = 1,
                                        !.rows = r.count]
      [] r.kind = "burn"   -> [s EXCEPT !.used = @ + r.count,
                                        !.attempts = @ + 1, !.pending = TRUE]
      [] r.kind = "accept" -> [s EXCEPT !.head = r.digest, !.pending = FALSE]

-----------------------------------------------------------------------------
(* The records the store appends *)

SetupRecord(s, n, fixed) ==
    [kind |-> IF fixed THEN "fixed" ELSE "setup", setup |-> s.setups + 1,
     start |-> 0, count |-> n, digest |-> Zero]

BurnRecord(s, n) ==
    [kind |-> "burn", setup |-> s.setups, start |-> s.used, count |-> n,
     digest |-> s.head]

AcceptRecord(s, d) ==
    [kind |-> "accept", setup |-> s.setups, start |-> s.attempts, count |-> 0,
     digest |-> d]

\* A variant: an attempt that returned no digest does not end a fixed run.
EpilogueIgnoresHead(s, failed, prior) == s.fixed_run /\ failed

\* attempt's epilogue: a fixed run survives only an attempt that succeeds and
\* moves the head.
Epilogue(s, failed, prior) == s.fixed_run /\ (failed \/ s.head = prior)

=============================================================================
