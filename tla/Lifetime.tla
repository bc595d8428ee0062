------------------------------ MODULE Lifetime ------------------------------
(***************************************************************************)
(* The B12 lifetime store of one honest role: one installed model root, a  *)
(* write-ahead journal of setups, burns and acceptances, and the volatile  *)
(* pool of correlation rows a setup leaves behind.                         *)
(*                                                                         *)
(* Source: rust/volta-pcg/src/c71_lifetime.rs.                             *)
(*                                                                         *)
(* A role runs one handle at a time (the OS file lock), so what interleaves *)
(* with a call is the environment: a write that fails before, within or    *)
(* after the record, a sync that fails, a consumer that fails or panics,   *)
(* a process that exits and a machine that loses power.  A 57-byte record  *)
(* is a TLA+ record; digests are model values, Zero the all-zero digest.   *)
(***************************************************************************)
EXTENDS LifetimeRecords, Sequences

CONSTANTS
    RowRequests,         \* row counts callers ask a setup for
    AttemptSizes         \* full_fp3 arguments of attempt

ASSUME InputsAssumption ==
    /\ RowRequests \subseteq Nat
    /\ AttemptSizes \subseteq Nat

VARIABLES
    file,      \* the journal file: "absent", "partial" header, "unsynced" header, "ready"
    journal,   \* its complete records, each with the state replay reaches after it
    torn,      \* an incomplete record follows them
    synced,    \* how many of them survive a loss of power
    phase,     \* what the handle is doing
    cursor,    \* records replayed so far by open
    state,     \* Lifetime::state
    poisoned,  \* Lifetime::poisoned
    secret,    \* indices of the pool's rows that are not zeroized
    before,    \* attempt's copy of the state, taken before its burn
    exposed,   \* history: the attempts handed to a consumer, with their rows
    acks       \* history: the acceptances attempt reported to its caller

\* The file, and what the process holds.
disk == <<file, journal, torn, synced>>
handle == <<phase, cursor, state, poisoned, secret, before>>
history == <<exposed, acks>>
vars == <<file, journal, torn, synced, phase, cursor, state, poisoned, secret,
          before, exposed, acks>>

-----------------------------------------------------------------------------
(* The journal *)

\* The state a replay of the first k records reaches.
ReplayedTo(k) == IF k = 0 THEN DefaultState ELSE journal[k].after

\* A journal record together with the state a replay reaches after it.
Entry(r) == [rec |-> r, after |-> Apply(ReplayedTo(Len(journal)), r)]

-----------------------------------------------------------------------------
(* Installation, reopening and the end of a handle *)

Init ==
    /\ file = "absent"
    /\ journal = <<>>
    /\ torn = FALSE
    /\ synced = 0
    /\ phase = "closed"
    /\ cursor = 0
    /\ state = DefaultState
    /\ poisoned = FALSE
    /\ secret = {}
    /\ before = DefaultState
    /\ exposed = <<>>
    /\ acks = <<>>

\* The handle goes, and with it its state, its poison and its pool.
DropHandle ==
    /\ phase' = "closed"
    /\ cursor' = 0
    /\ state' = DefaultState
    /\ poisoned' = FALSE
    /\ secret' = {}
    /\ before' = DefaultState

\* Explicit first installation; an existing file is refused.
Install ==
    /\ phase = "closed"
    /\ file = "absent"
    /\ file' = "ready"
    /\ phase' = "open"
    /\ UNCHANGED <<journal, torn, synced, cursor, state, poisoned, secret, before,
                   history>>

\* Installation that fails once create_new has left a file behind.
InstallFails ==
    /\ phase = "closed"
    /\ file = "absent"
    /\ file' \in {"partial", "unsynced"}
    /\ UNCHANGED <<journal, torn, synced, handle, history>>

\* open takes the lock and reads the header; a partial header is an error.
OpenHeader ==
    /\ phase = "closed"
    /\ file \in {"unsynced", "ready"}
    /\ phase' = "replay"
    /\ UNCHANGED <<disk, cursor, state, poisoned, secret, before, history>>

\* One turn of open's replay loop.
ReplayRecord ==
    /\ phase = "replay"
    /\ cursor < Len(journal)
    /\ Valid(state, journal[cursor + 1].rec)
    /\ state' = Apply(state, journal[cursor + 1].rec)
    /\ cursor' = cursor + 1
    /\ UNCHANGED <<disk, phase, poisoned, secret, before, history>>

\* open's errors: a malformed record, a truncated one, a fixed run.  Only the
\* last comes after sync_all.
OpenFails ==
    /\ phase = "replay"
    /\ \/ /\ cursor < Len(journal)
          /\ ~Valid(state, journal[cursor + 1].rec)
          /\ UNCHANGED <<file, synced>>
       \/ /\ cursor = Len(journal)
          /\ torn
          /\ UNCHANGED <<file, synced>>
       \/ /\ cursor = Len(journal)
          /\ ~torn
          /\ state.fixed_run
          /\ file' = "ready"
          /\ synced' = Len(journal)
    /\ DropHandle
    /\ UNCHANGED <<journal, torn, history>>

\* End of file: sync, forget any pending acceptance, hand out the store.
OpenDone ==
    /\ phase = "replay"
    /\ cursor = Len(journal)
    /\ ~torn
    /\ ~state.fixed_run
    /\ file' = "ready"
    /\ synced' = Len(journal)
    /\ phase' = "open"
    /\ cursor' = 0
    /\ state' = [state EXCEPT !.pending = FALSE]
    /\ UNCHANGED <<journal, torn, poisoned, secret, before, history>>

\* The process drops the handle, or exits; the pool's rows go with it.
Close ==
    /\ phase # "closed"
    /\ DropHandle
    /\ UNCHANGED <<disk, history>>

\* The machine loses power: records and bytes never synced may be gone, or be
\* there in part.
PowerLoss ==
    /\ DropHandle
    /\ file' \in CASE file = "unsynced" -> {"absent", "partial", "unsynced"}
                   [] file = "partial"  -> {"absent", "partial"}
                   [] OTHER             -> {file}
    /\ \E k \in synced..Len(journal) :
          /\ journal' = SubSeq(journal, 1, k)
          /\ torn' \in IF torn \/ k < Len(journal) THEN BOOLEAN ELSE {FALSE}
    /\ UNCHANGED <<synced, history>>

-----------------------------------------------------------------------------
(* The write-ahead append *)

\* What a write and sync of one record can leave on disk.
Outcome == {"ok", "nothing", "torn", "unsynced"}

\* A variant: no sync_all.
WriteSkipsSync(r, io) ==
    /\ journal' = IF io \in {"ok", "unsynced"} THEN Append(journal, Entry(r))
                                               ELSE journal
    /\ torn' = (io = "torn")
    /\ UNCHANGED <<synced, file>>

\* A variant: a record counts as durable whatever became of it.
WriteCountsAll(r, io) ==
    /\ journal' = IF io \in {"ok", "unsynced"} THEN Append(journal, Entry(r))
                                               ELSE journal
    /\ torn' = (io = "torn")
    /\ synced' = Len(journal) + 1
    /\ UNCHANGED file

\* The file after append's write_all and sync_all of record r.
Write(r, io) ==
    /\ journal' = IF io \in {"ok", "unsynced"} THEN Append(journal, Entry(r))
                                               ELSE journal
    /\ torn' = (io = "torn")
    /\ synced' = IF io = "ok" THEN Len(journal) + 1 ELSE synced
    /\ UNCHANGED file

\* A variant: append does not look at the poison.
AppendRecordIgnoresPoison(s, r, io) ==
    /\ Valid(s, r)
    /\ Write(r, io)
    /\ poisoned' = (io # "ok")

\* A variant: append writes what the state does not admit.
AppendRecordUnchecked(s, r, io) ==
    /\ ~poisoned
    /\ Write(r, io)
    /\ poisoned' = (io # "ok")

\* append: only a record the in-memory state admits is written, and the handle
\* stays poisoned unless the record is known to be durable.
AppendRecord(s, r, io) ==
    /\ ~poisoned
    /\ Valid(s, r)
    /\ Write(r, io)
    /\ poisoned' = (io # "ok")

\* append returns an error without writing.
AppendRefused(s, r) ==
    \/ poisoned
    \/ ~Valid(s, r)

-----------------------------------------------------------------------------
(* Setup: begin_for, then the bootstrap that fills the pool *)

\* begin_for: the setup is journalled before any randomness or OT.
BeginFor(n, fixed, io) ==
    /\ phase = "open"
    /\ state.attempts < ROOT_SLOTS
    /\ LET r == SetupRecord(state, n, fixed) IN
          /\ AppendRecord(state, r, io)
          /\ state' = IF io = "ok" THEN Apply(state, r) ELSE state
          /\ phase' = IF io = "ok" THEN "setup" ELSE "open"
    /\ UNCHANGED <<cursor, secret, before, history>>

\* The bootstrap and the completion seal succeed: a Pool borrows the store.
BootstrapDone ==
    /\ phase = "setup"
    /\ phase' = "pool"
    /\ secret' = 0..(state.rows - 1)
    /\ UNCHANGED <<disk, cursor, state, poisoned, before, history>>

\* The bootstrap or the seal fails: the setup stays consumed, with no pool.
BootstrapFails ==
    /\ phase = "setup"
    /\ phase' = "open"
    /\ UNCHANGED <<disk, cursor, state, poisoned, secret, before, history>>

\* The caller drops the Pool and may use the store again.
DropPool ==
    /\ phase = "pool"
    /\ phase' = "open"
    /\ secret' = {}
    /\ UNCHANGED <<disk, cursor, state, poisoned, before, history>>

\* Pool::stop
Stop ==
    /\ phase = "pool"
    /\ poisoned' = TRUE
    /\ secret' = {}
    /\ UNCHANGED <<disk, phase, cursor, state, before, history>>

-----------------------------------------------------------------------------
(* Pool::attempt *)

\* The burn is refused before anything is written.
AttemptRefused(full_fp3) ==
    /\ phase = "pool"
    /\ AppendRefused(state, BurnRecord(state, 3 * full_fp3))
    /\ poisoned' = (poisoned \/ Epilogue(state, TRUE, state.head))
    /\ UNCHANGED <<disk, phase, cursor, state, secret, before, history>>

\* The burn is durable, then the rows leave the pool for the consumer; or the
\* append fails and the handle stays poisoned.
AttemptBurn(full_fp3, io) ==
    /\ phase = "pool"
    /\ LET r == BurnRecord(state, 3 * full_fp3)
           next == Apply(state, r)
       IN /\ AppendRecord(state, r, io)
          /\ IF io = "ok"
             THEN /\ state' = next
                  /\ phase' = "consume"
                  /\ secret' = secret \ (r.start..(r.start + r.count - 1))
                  /\ exposed' = Append(exposed,
                        [setup |-> r.setup, first |-> r.start, count |-> r.count,
                         ordinal |-> next.attempts, predecessor |-> r.digest])
                  /\ before' = state
             ELSE UNCHANGED <<state, phase, secret, before, exposed>>
    /\ UNCHANGED <<cursor, acks>>

\* The consumer returns an error, panics, or returns no accepted digest.
ConsumerDeclines(failed) ==
    /\ phase = "consume"
    /\ phase' = "pool"
    /\ state' = [state EXCEPT !.pending = FALSE]
    /\ poisoned' = (poisoned \/ Epilogue(state, failed, before.head))
    /\ before' = DefaultState
    /\ UNCHANGED <<disk, cursor, secret, history>>

\* The consumer accepts a digest that the journal's transition rules refuse.
AcceptRefused(d) ==
    /\ phase = "consume"
    /\ AppendRefused([state EXCEPT !.pending = TRUE], AcceptRecord(state, d))
    /\ phase' = "pool"
    /\ state' = [state EXCEPT !.pending = FALSE]
    /\ poisoned' = (poisoned \/ Epilogue(state, TRUE, before.head))
    /\ before' = DefaultState
    /\ UNCHANGED <<disk, cursor, secret, history>>

\* A variant: success is reported before the record is durable.
AcceptDigestEarlyAck(d, io) ==
    /\ phase = "consume"
    /\ LET pending == [state EXCEPT !.pending = TRUE]
           r == AcceptRecord(state, d)
       IN /\ AppendRecord(pending, r, io)
          /\ state' = [(IF io = "ok" THEN Apply(pending, r) ELSE state)
                          EXCEPT !.pending = FALSE]
    /\ phase' = "pool"
    /\ acks' = Append(acks, [ordinal |-> state.attempts, digest |-> d])
    /\ before' = DefaultState
    /\ UNCHANGED <<cursor, secret, exposed>>

\* The consumer accepts digest d: it becomes the head once it is durable, and
\* only then does attempt report success.
AcceptDigest(d, io) ==
    /\ phase = "consume"
    /\ LET pending == [state EXCEPT !.pending = TRUE]
           r == AcceptRecord(state, d)
       IN /\ AppendRecord(pending, r, io)
          /\ state' = [(IF io = "ok" THEN Apply(pending, r) ELSE state)
                          EXCEPT !.pending = FALSE]
    /\ phase' = "pool"
    /\ acks' = IF io = "ok"
               THEN Append(acks, [ordinal |-> state.attempts, digest |-> d])
               ELSE acks
    /\ before' = DefaultState
    /\ UNCHANGED <<cursor, secret, exposed>>

-----------------------------------------------------------------------------
Next ==
    \/ Install
    \/ InstallFails
    \/ OpenHeader
    \/ ReplayRecord
    \/ OpenFails
    \/ OpenDone
    \/ Close
    \/ PowerLoss
    \/ \E n \in RowRequests, fixed \in BOOLEAN, io \in Outcome : BeginFor(n, fixed, io)
    \/ BootstrapDone
    \/ BootstrapFails
    \/ DropPool
    \/ Stop
    \/ \E n \in AttemptSizes : AttemptRefused(n)
    \/ \E n \in AttemptSizes, io \in Outcome : AttemptBurn(n, io)
    \/ \E failed \in BOOLEAN : ConsumerDeclines(failed)
    \/ \E d \in Digest : AcceptRefused(d)
    \/ \E d \in Digest, io \in Outcome : AcceptDigest(d, io)

Spec == Init /\ [][Next]_vars

-----------------------------------------------------------------------------
(* Properties *)

Phases == {"closed", "replay", "open", "setup", "pool", "consume"}

Entries == [rec : Record, after : State]

Exposure == [setup : Nat, first : Nat, count : Nat, ordinal : Nat,
             predecessor : Digest]

Ack == [ordinal : Nat, digest : Digest]

\* Every variable has its type; synced never runs ahead of the file.
TypeOK ==
    /\ file \in {"absent", "partial", "unsynced", "ready"}
    /\ journal \in Seq(Entries)
    /\ torn \in BOOLEAN
    /\ synced \in 0..Len(journal)
    /\ phase \in Phases
    /\ cursor \in 0..Len(journal)
    /\ state \in State
    /\ poisoned \in BOOLEAN
    /\ secret \subseteq Nat
    /\ before \in State
    /\ exposed \in Seq(Exposure)
    /\ acks \in Seq(Ack)

\* No row reaches two consumers: of two attempts of one setup, whatever failed
\* or was reopened between them, the later one's rows start after the earlier
\* one's (Pool::attempt, burn before exposure).
RowsExposedOnce ==
    \A i, j \in 1..Len(exposed) :
        /\ i < j
        /\ exposed[i].setup = exposed[j].setup
        => exposed[i].first + exposed[i].count <= exposed[j].first

\* The root is exposed at most ROOT_SLOTS times over its whole life, crashes,
\* failed attempts and new setups included, and each exposure has an ordinal of
\* its own (State::apply, record kinds 1 and 2).
ExposureBound ==
    /\ Len(exposed) <= ROOT_SLOTS
    /\ \A i, j \in 1..Len(exposed) : i < j => exposed[i].ordinal < exposed[j].ordinal

\* Whatever a consumer has seen is burned in a record that no loss of power can
\* take back (append syncs before attempt copies the rows out).
BurnDurable ==
    \A i \in 1..Len(exposed) :
        \E k \in 1..synced :
            journal[k].rec = [kind |-> "burn", setup |-> exposed[i].setup,
                              start |-> exposed[i].first, count |-> exposed[i].count,
                              digest |-> exposed[i].predecessor]

\* An acceptance reported to the caller is never rolled back: every later
\* attempt is made against that head or one accepted after it, also when the
\* process or the machine stopped in between.
NoRollback ==
    \A i \in 1..Len(exposed), j \in 1..Len(acks) :
        acks[j].ordinal < exposed[i].ordinal =>
            \E k \in 1..Len(journal) :
                LET r == journal[k].rec IN
                    /\ r.kind = "accept"
                    /\ r.start \in acks[j].ordinal..(exposed[i].ordinal - 1)
                    /\ r.digest = exposed[i].predecessor

\* The root was installed for a fixed run.
IsFixedRun == \E k \in 1..Len(journal) : journal[k].rec.kind = "fixed"

\* In a fixed run an attempt is made only after every earlier one was accepted
\* and reported, and against the digest the previous one reported.
FixedRunChain ==
    IsFixedRun =>
        \A i \in 1..Len(exposed) :
            /\ exposed[i].ordinal = i
            /\ i > 1 => /\ Len(acks) >= i - 1
                        /\ acks[i - 1] = [ordinal |-> i - 1,
                                          digest |-> exposed[i].predecessor]

\* Every complete record a handle wrote, in whatever sequence of handles, is one
\* that open's replay admits, so an untorn journal always reopens.
ReplayAccepts ==
    \A k \in 1..Len(journal) : Valid(ReplayedTo(k - 1), journal[k].rec)

\* Pool::remaining_fp3
remaining_fp3 == IF poisoned THEN 0 ELSE (state.rows - state.used) \div 3

\* The capacity a pool advertises is exactly what it still holds: the rows from
\* used onwards are secret and the ones before are zeroized.
RemainingRowsSecret ==
    (phase = "pool" /\ ~poisoned) =>
        /\ secret = state.used..(state.rows - 1)
        /\ remaining_fp3 * 3 = state.rows - state.used

\* No pool of this store can expose a row before another setup.
Stopped == poisoned \/ phase \in {"closed", "replay", "open"}

\* A fixed run that stopped, by an error or by losing its pool or its process,
\* exposes nothing ever again: it stays stopped, and once it has exposed
\* anything no loss of power makes the root a fresh one.
FixedRunNeverResumes ==
    [][IsFixedRun /\ Stopped =>
          /\ Stopped'
          /\ UNCHANGED <<exposed, acks>>
          /\ exposed # <<>> => IsFixedRun']_vars

\* A journal with a torn record is never extended, and a durable record is never
\* removed or altered.
JournalAppendOnly ==
    [][/\ synced' >= synced
       /\ SubSeq(journal', 1, synced) = SubSeq(journal, 1, synced)
       /\ torn => Len(journal') <= Len(journal)]_vars

=============================================================================
