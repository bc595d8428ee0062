--------------------------- MODULE LifetimeProofs ---------------------------
(***************************************************************************)
(* Proofs about the lifetime store, for every value of its constants.      *)
(*                                                                         *)
(* The safety properties relate what consumers have seen to the journal.   *)
(* They become inductive once it is known that a handle's state is the     *)
(* replay of the durable journal up to the pending flag, unless the handle *)
(* is poisoned, and that at most the last record is not durable.           *)
(*                                                                         *)
(* What the journal keeps, what a reported acceptance binds, what a fixed  *)
(* run may still do and what a pool advertises need a second invariant,    *)
(* HInv, about the contents of the journal's prefixes (a loss of power     *)
(* leaves a prefix) and about the two histories.                           *)
(***************************************************************************)
EXTENDS Lifetime, TLAPS

\* The last state a replay of the file reaches.
Replayed == ReplayedTo(Len(journal))

\* Bounds every replayed state respects.
Bounded(s) ==
    /\ s.used <= s.rows
    /\ s.attempts <= ROOT_SLOTS
    /\ s.setups = 0 => s.used = 0

\* t is reached from s by journal records: nothing consumed is given back.
Later(s, t) ==
    /\ s.attempts <= t.attempts
    /\ s.setups <= t.setups
    /\ s.setups = t.setups => s.used <= t.used

\* s and t differ at most in the flag the journal does not carry.
SameButPending(s, t) == \E b \in BOOLEAN : s = [t EXCEPT !.pending = b]

\* The journal is a chain of admitted transitions.
JournalOK ==
    \A k \in 1..Len(journal) :
        /\ Valid(ReplayedTo(k - 1), journal[k].rec)
        /\ journal[k].after = Apply(ReplayedTo(k - 1), journal[k].rec)
        /\ Bounded(journal[k].after)

\* At most one record is not durable, and none before a torn one; a file whose
\* header is not known durable holds no record.
FileOK ==
    /\ Len(journal) <= synced + 1
    /\ torn => Len(journal) = synced
    /\ file # "ready" => /\ Len(journal) = 0
                         /\ ~torn
                         /\ phase \in {"closed", "replay"}

\* A live handle's state is the replay of its durable journal.
HandleOK ==
    /\ phase = "closed" => state = DefaultState /\ ~poisoned /\ cursor = 0
    /\ phase = "replay" => state = ReplayedTo(cursor) /\ ~poisoned
    /\ phase \in {"setup", "consume"} => ~poisoned
    /\ phase \notin {"closed", "replay"} => cursor = 0
    /\ (phase \notin {"closed", "replay"} /\ ~poisoned) =>
           /\ SameButPending(state, Replayed)
           /\ synced = Len(journal)
           /\ ~torn
    /\ phase = "consume" => Replayed.pending

\* Every exposure lies below what the durable journal has consumed.
Below(e, s) ==
    /\ e.ordinal <= s.attempts
    /\ e.setup <= s.setups
    /\ e.setup = s.setups => e.first + e.count <= s.used

ExposedOK ==
    /\ Len(exposed) <= ReplayedTo(synced).attempts
    /\ \A i \in 1..Len(exposed) : Below(exposed[i], ReplayedTo(synced))
    /\ \A i, j \in 1..Len(exposed) : i < j => exposed[i].ordinal < exposed[j].ordinal

IInv ==
    /\ TypeOK
    /\ JournalOK
    /\ FileOK
    /\ HandleOK
    /\ ExposedOK
    /\ RowsExposedOnce
    /\ BurnDurable

-----------------------------------------------------------------------------
(* Facts about State::apply *)

\* An admitted record leads from a bounded state to a bounded, later one.
LEMMA ApplyAdvances ==
    ASSUME NEW s \in State, NEW r \in Record, Valid(s, r), Bounded(s)
    PROVE  /\ Apply(s, r) \in State
           /\ Bounded(Apply(s, r))
           /\ Later(s, Apply(s, r))
<1>t. PICK t : t = Apply(s, r)
    OBVIOUS
<1>0. r.setup \in Nat /\ r.count \in Nat /\ r.digest \in Digest
    BY DEF Record
<1>a. s.setups \in Nat /\ s.attempts \in Nat /\ s.rows \in Nat /\ s.used \in Nat
    BY DEF State
<1>1. CASE r.kind = "setup"
    <2>1. t = [s EXCEPT !.setups = r.setup, !.rows = r.count, !.used = 0,
                        !.pending = FALSE]
        BY <1>1, <1>t DEF Apply
    <2>2. /\ t \in State
          /\ t.setups = r.setup
          /\ t.attempts = s.attempts
          /\ t.rows = r.count
          /\ t.used = 0
        BY <2>1, <1>0 DEF State
    <2>3. r.setup = s.setups + 1 /\ s.attempts < ROOT_SLOTS
        BY <1>1 DEF Valid
    <2> QED
        BY <1>t, <1>0, <1>a, <2>2, <2>3, ConstantsAssumption DEF Bounded, Later
<1>2. CASE r.kind = "fixed"
    <2>1. t = [s EXCEPT !.fixed_run = TRUE, !.setups = 1, !.rows = r.count]
        BY <1>2, <1>t DEF Apply
    <2>2. /\ t \in State
          /\ t.setups = 1
          /\ t.attempts = s.attempts
          /\ t.rows = r.count
          /\ t.used = s.used
        BY <2>1, <1>0 DEF State
    <2>3. s.setups = 0
        BY <1>2 DEF Valid
    <2> QED
        BY <1>t, <1>0, <1>a, <2>2, <2>3, ConstantsAssumption DEF Bounded, Later
<1>3. CASE r.kind = "burn"
    <2>u. PICK u \in Nat, a \in Nat : u = s.used + r.count /\ a = s.attempts + 1
        BY <1>0, <1>a
    <2>1. t = [s EXCEPT !.used = u, !.attempts = a, !.pending = TRUE]
        BY <1>3, <1>t, <2>u DEF Apply
    <2>2. /\ t \in State
          /\ t.setups = s.setups
          /\ t.attempts = s.attempts + 1
          /\ t.rows = s.rows
          /\ t.used = s.used + r.count
        BY <2>1, <2>u DEF State
    <2>3. s.setups > 0 /\ s.attempts < ROOT_SLOTS /\ r.count <= s.rows - s.used
        BY <1>3 DEF Valid
    <2> QED
        BY <1>t, <1>0, <1>a, <2>2, <2>3, ConstantsAssumption DEF Bounded, Later
<1>4. CASE r.kind = "accept"
    <2>1. t = [s EXCEPT !.head = r.digest, !.pending = FALSE]
        BY <1>4, <1>t DEF Apply
    <2>2. /\ t \in State
          /\ t.setups = s.setups
          /\ t.attempts = s.attempts
          /\ t.rows = s.rows
          /\ t.used = s.used
        BY <2>1, <1>0 DEF State
    <2> QED
        BY <1>t, <1>0, <1>a, <2>2, ConstantsAssumption DEF Bounded, Later
<1> QED
    BY <1>1, <1>2, <1>3, <1>4 DEF Record, Kinds

\* The pending flag only matters to an acceptance.
LEMMA ApplyIgnoresPending ==
    ASSUME NEW s \in State, NEW t \in State, NEW r \in Record,
           SameButPending(s, t), Valid(s, r), r.kind = "accept" => t.pending
    PROVE  /\ Valid(t, r)
           /\ SameButPending(Apply(s, r), Apply(t, r))
<1>1. PICK b \in BOOLEAN : s = [t EXCEPT !.pending = b]
    BY DEF SameButPending
<1>2. Valid(t, r)
    BY <1>1 DEF Valid, State, Record
<1>3. \E c \in BOOLEAN : Apply(s, r) = [Apply(t, r) EXCEPT !.pending = c]
    <2>1. CASE r.kind = "setup"
        BY <1>1, <2>1 DEF Apply, State
    <2>2. CASE r.kind = "fixed"
        BY <1>1, <2>2 DEF Apply, State
    <2>3. CASE r.kind = "burn"
        BY <1>1, <2>3 DEF Apply, State
    <2>4. CASE r.kind = "accept"
        BY <1>1, <2>4 DEF Apply, State
    <2> QED
        BY <2>1, <2>2, <2>3, <2>4 DEF Record, Kinds
<1> QED
    BY <1>2, <1>3 DEF SameButPending

\* Every prefix of the journal replays to a bounded state.
LEMMA ReplayBounded ==
    ASSUME TypeOK, JournalOK, NEW k \in 0..Len(journal)
    PROVE  ReplayedTo(k) \in State /\ Bounded(ReplayedTo(k))
<1>1. CASE k = 0
    BY <1>1, ConstantsAssumption DEF ReplayedTo, DefaultState, State, Bounded
<1>2. CASE k # 0
    <2>1. k \in 1..Len(journal) /\ ReplayedTo(k) = journal[k].after
        BY <1>2 DEF TypeOK, ReplayedTo
    <2>2. journal[k] \in Entries
        BY <2>1 DEF TypeOK
    <2>3. Bounded(journal[k].after)
        BY <2>1 DEF JournalOK
    <2> QED
        BY <2>1, <2>2, <2>3 DEF Entries
<1> QED
    BY <1>1, <1>2

-----------------------------------------------------------------------------
(* What the disk and the history keep *)

\* A step that touches neither keeps everything said about them.
LEMMA DiskKept ==
    ASSUME IInv, UNCHANGED <<disk, exposed>>
    PROVE  JournalOK' /\ ExposedOK' /\ RowsExposedOnce' /\ BurnDurable'
<1>1. UNCHANGED <<file, journal, torn, synced, exposed>>
    BY DEF disk
<1>2. JournalOK'
    BY <1>1 DEF IInv, JournalOK, ReplayedTo
<1>3. ExposedOK' /\ RowsExposedOnce' /\ BurnDurable'
    BY <1>1 DEF IInv, ExposedOK, RowsExposedOnce, BurnDurable, ReplayedTo
<1> QED
    BY <1>2, <1>3

\* What was exposed stays below what is consumed as long as the durable records
\* stay and replay to a later state.
LEMMA HistoryKept ==
    ASSUME IInv, TypeOK', exposed' = exposed, synced <= synced',
           \A k \in 1..synced : journal'[k] = journal[k],
           ReplayedTo(synced) \in State, ReplayedTo(synced)' \in State,
           Later(ReplayedTo(synced), ReplayedTo(synced)')
    PROVE  ExposedOK' /\ RowsExposedOnce' /\ BurnDurable'
<1>0. PICK s, t : s = ReplayedTo(synced) /\ t = ReplayedTo(synced)'
    OBVIOUS
<1>1. s \in State /\ t \in State /\ Later(s, t)
    BY <1>0
<1>2. Len(exposed) \in Nat /\ \A i \in 1..Len(exposed) : exposed[i] \in Exposure
    BY DEF IInv, TypeOK
<1>3. \A e \in Exposure : Below(e, s) => Below(e, t)
    BY <1>1 DEF Below, Later, State, Exposure
<1>4. Len(exposed) <= s.attempts /\ \A i \in 1..Len(exposed) : Below(exposed[i], s)
    BY <1>0 DEF IInv, ExposedOK
<1>5. Len(exposed) <= t.attempts
    BY <1>1, <1>2, <1>4 DEF Later, State
<1>6. \A i \in 1..Len(exposed) : Below(exposed[i], t)
    BY <1>2, <1>3, <1>4
<1>7. ExposedOK'
    BY <1>0, <1>5, <1>6 DEF IInv, ExposedOK
<1>8. RowsExposedOnce'
    BY DEF IInv, RowsExposedOnce
<1>9. BurnDurable'
    <2>1. synced \in Nat /\ synced' \in Nat
        BY DEF IInv, TypeOK
    <2> QED
        BY <2>1 DEF IInv, BurnDurable
<1> QED
    BY <1>7, <1>8, <1>9

\* Appending a record that the replayed state admits, up to the pending flag,
\* keeps the journal replayable and whatever was durable.
LEMMA WriteKeepsJournal ==
    ASSUME IInv, NEW s \in State, NEW r \in Record, NEW io \in Outcome,
           AppendRecord(s, r, io), SameButPending(s, Replayed),
           r.kind = "accept" => Replayed.pending,
           synced = Len(journal), ~torn
    PROVE  /\ journal' \in Seq(Entries)
           /\ torn' \in BOOLEAN
           /\ synced' \in 0..Len(journal')
           /\ JournalOK'
           /\ Len(journal') <= synced' + 1
           /\ torn' => Len(journal') = synced'
           /\ synced <= synced'
           /\ \A k \in 1..synced : journal'[k] = journal[k]
           /\ ReplayedTo(synced)' \in State
           /\ Later(ReplayedTo(synced), ReplayedTo(synced)')
           /\ io = "ok" => /\ synced' = Len(journal')
                           /\ synced' = synced + 1
                           /\ ~torn'
                           /\ journal'[synced + 1] = [rec |-> r, after |-> Apply(Replayed, r)]
                           /\ Replayed' = Apply(Replayed, r)
<1>1. /\ journal \in Seq(Entries)
      /\ synced \in Nat
      /\ Len(journal) \in Nat
    BY DEF IInv, TypeOK
<1>2. Replayed \in State /\ Bounded(Replayed)
    BY <1>1, ReplayBounded DEF IInv, Replayed
<1>3. Valid(Replayed, r)
    BY <1>2, ApplyIgnoresPending DEF AppendRecord
<1>4. PICK t : t = Apply(Replayed, r)
    OBVIOUS
<1>5. t \in State /\ Bounded(t) /\ Later(Replayed, t)
    BY <1>2, <1>3, <1>4, ApplyAdvances
<1>6. PICK e : e = [rec |-> r, after |-> t]
    OBVIOUS
<1>7. e \in Entries /\ e.rec = r /\ e.after = t /\ e = Entry(r)
    BY <1>4, <1>5, <1>6 DEF Entries, Entry, Replayed
<1>8. Later(Replayed, Replayed)
    BY <1>2 DEF Later, State
<1>9. CASE io \in {"ok", "unsynced"}
    <2>1. /\ journal' = Append(journal, e)
          /\ torn' = FALSE
          /\ synced' = IF io = "ok" THEN Len(journal) + 1 ELSE synced
        BY <1>7, <1>9 DEF AppendRecord, Write
    <2>2. /\ journal' \in Seq(Entries)
          /\ Len(journal') = Len(journal) + 1
          /\ \A k \in 1..Len(journal) : journal'[k] = journal[k]
          /\ journal'[Len(journal) + 1] = e
        BY <1>1, <1>7, <2>1
    <2>3. \A k \in 0..Len(journal) :
             ReplayedTo(k) = IF k = 0 THEN DefaultState ELSE journal'[k].after
        BY <1>1, <2>2 DEF ReplayedTo
    <2>4. JournalOK'
        <3>1. SUFFICES ASSUME NEW k \in 1..(Len(journal) + 1)
                       PROVE  LET p == IF k - 1 = 0 THEN DefaultState
                                                    ELSE journal'[k - 1].after
                              IN /\ Valid(p, journal'[k].rec)
                                 /\ journal'[k].after = Apply(p, journal'[k].rec)
                                 /\ Bounded(journal'[k].after)
            BY <2>2 DEF JournalOK, ReplayedTo
        <3>2. CASE k = Len(journal) + 1
            <4>1. Replayed = IF k - 1 = 0 THEN DefaultState ELSE journal'[k - 1].after
                BY <1>1, <2>3, <3>2 DEF Replayed
            <4>2. journal'[k].rec = r /\ journal'[k].after = t
                BY <1>7, <2>2, <3>2
            <4> QED
                BY <1>3, <1>4, <1>5, <4>1, <4>2
        <3>3. CASE k # Len(journal) + 1
            <4>1. k \in 1..Len(journal) /\ k - 1 \in 0..Len(journal)
                BY <1>1, <3>3
            <4>2. ReplayedTo(k - 1) = IF k - 1 = 0 THEN DefaultState
                                                   ELSE journal'[k - 1].after
                BY <2>3, <4>1
            <4>3. journal'[k] = journal[k]
                BY <2>2, <4>1
            <4> QED
                BY <4>1, <4>2, <4>3 DEF IInv, JournalOK
        <3> QED
            BY <3>2, <3>3
    <2>5. CASE io = "ok"
        <3>1. synced' = Len(journal') /\ synced' = synced + 1 /\ synced' # 0
            BY <1>1, <2>1, <2>2, <2>5
        <3>2. ReplayedTo(synced)' = t /\ Replayed' = t
            BY <1>1, <1>7, <2>2, <3>1 DEF ReplayedTo, Replayed
        <3>3. ReplayedTo(synced)' \in State /\ Later(ReplayedTo(synced), ReplayedTo(synced)')
            BY <1>5, <3>2 DEF Replayed
        <3>4. /\ synced' \in 0..Len(journal')
              /\ Len(journal') <= synced' + 1
              /\ synced <= synced'
              /\ \A k \in 1..synced : journal'[k] = journal[k]
              /\ journal'[synced + 1] = [rec |-> r, after |-> Apply(Replayed, r)]
            BY <1>1, <1>4, <1>6, <2>2, <3>1
        <3> QED
            BY <1>4, <2>1, <2>2, <2>4, <3>1, <3>2, <3>3, <3>4
    <2>6. CASE io # "ok"
        <3>1. synced' = synced
            BY <2>1, <2>6
        <3>2. ReplayedTo(synced)' = Replayed
            BY <1>1, <2>3, <3>1 DEF ReplayedTo, Replayed
        <3>3. ReplayedTo(synced)' \in State /\ Later(ReplayedTo(synced), ReplayedTo(synced)')
            BY <1>2, <1>8, <3>2 DEF Replayed
        <3>4. /\ synced' \in 0..Len(journal')
              /\ Len(journal') <= synced' + 1
              /\ synced <= synced'
              /\ \A k \in 1..synced : journal'[k] = journal[k]
            BY <1>1, <2>2, <3>1
        <3> QED
            BY <2>1, <2>2, <2>4, <2>6, <3>3, <3>4
    <2> QED
        BY <2>5, <2>6
<1>10. CASE io \notin {"ok", "unsynced"}
    <2>1. journal' = journal /\ synced' = synced /\ torn' \in BOOLEAN
        BY <1>10 DEF AppendRecord, Write
    <2>2. JournalOK'
        BY <2>1 DEF IInv, JournalOK, ReplayedTo
    <2>3. ReplayedTo(synced)' = Replayed
        BY <2>1 DEF ReplayedTo, Replayed
    <2> QED
        BY <1>1, <1>2, <1>8, <1>10, <2>1, <2>2, <2>3 DEF Replayed
<1> QED
    BY <1>9, <1>10

\* open's sync_all makes durable what it replayed, which is at most one record more.
LEMMA SyncKeepsHistory ==
    ASSUME IInv, TypeOK', UNCHANGED <<journal, exposed>>, synced' = Len(journal)
    PROVE  JournalOK' /\ ExposedOK' /\ RowsExposedOnce' /\ BurnDurable'
<1>1. synced \in 0..Len(journal) /\ Len(journal) \in Nat /\ Len(journal) <= synced + 1
    BY DEF IInv, TypeOK, FileOK
<1>2. ReplayedTo(synced) \in State /\ Bounded(ReplayedTo(synced))
    BY <1>1, ReplayBounded DEF IInv
<1>3. Replayed \in State
    BY <1>1, ReplayBounded DEF IInv, Replayed
<1>4. ReplayedTo(synced)' = Replayed
    BY DEF ReplayedTo, Replayed
<1>5. Later(ReplayedTo(synced), Replayed)
    <2>1. CASE Len(journal) = synced
        BY <1>2, <2>1 DEF Replayed, Later, State
    <2>2. CASE Len(journal) = synced + 1
        <3>1. Len(journal) \in 1..Len(journal) /\ Len(journal) - 1 = synced
            BY <1>1, <2>2
        <3>2. /\ Valid(ReplayedTo(synced), journal[Len(journal)].rec)
              /\ journal[Len(journal)].after =
                     Apply(ReplayedTo(synced), journal[Len(journal)].rec)
            BY <3>1 DEF IInv, JournalOK
        <3>3. journal[Len(journal)] \in Entries
            BY <3>1 DEF IInv, TypeOK
        <3>4. journal[Len(journal)].rec \in Record
            BY <3>3 DEF Entries
        <3>5. Replayed = journal[Len(journal)].after
            BY <3>1 DEF Replayed, ReplayedTo
        <3> QED
            BY <1>2, <3>2, <3>4, <3>5, ApplyAdvances
    <2> QED
        BY <1>1, <2>1, <2>2
<1>6. JournalOK'
    BY DEF IInv, JournalOK, ReplayedTo
<1>7. ExposedOK' /\ RowsExposedOnce' /\ BurnDurable'
    BY <1>1, <1>2, <1>3, <1>4, <1>5, HistoryKept
<1> QED
    BY <1>6, <1>7

\* A loss of power takes away no durable record.
LEMMA TruncateKeepsHistory ==
    ASSUME IInv, UNCHANGED <<synced, exposed>>,
           NEW k \in synced..Len(journal), journal' = SubSeq(journal, 1, k)
    PROVE  /\ journal' \in Seq(Entries)
           /\ Len(journal') = k
           /\ JournalOK' /\ ExposedOK' /\ RowsExposedOnce' /\ BurnDurable'
<1>1. /\ journal \in Seq(Entries) /\ Len(journal) \in Nat
      /\ synced \in 0..Len(journal) /\ k \in 0..Len(journal) /\ synced <= k
    BY DEF IInv, TypeOK
<1>2. /\ journal' \in Seq(Entries)
      /\ Len(journal') = k
      /\ \A i \in 1..k : journal'[i] = journal[i]
    BY <1>1
<1>3. \A i \in 0..k : (IF i = 0 THEN DefaultState ELSE journal'[i].after) = ReplayedTo(i)
    BY <1>1, <1>2 DEF ReplayedTo
<1>4. JournalOK'
    <2>1. SUFFICES ASSUME NEW i \in 1..k
                   PROVE  LET p == IF i - 1 = 0 THEN DefaultState
                                                ELSE journal'[i - 1].after
                          IN /\ Valid(p, journal'[i].rec)
                             /\ journal'[i].after = Apply(p, journal'[i].rec)
                             /\ Bounded(journal'[i].after)
        BY <1>2 DEF JournalOK, ReplayedTo
    <2>2. i \in 1..Len(journal) /\ i - 1 \in 0..k /\ journal'[i] = journal[i]
        BY <1>1, <1>2
    <2>3. (IF i - 1 = 0 THEN DefaultState ELSE journal'[i - 1].after) = ReplayedTo(i - 1)
        BY <1>3, <2>2
    <2> QED
        BY <2>2, <2>3 DEF IInv, JournalOK
<1>5. ReplayedTo(synced)' = ReplayedTo(synced)
    BY <1>1, <1>3 DEF ReplayedTo
<1>6. ExposedOK'
    BY <1>5 DEF IInv, ExposedOK
<1>7. RowsExposedOnce'
    BY DEF IInv, RowsExposedOnce
<1>8. BurnDurable'
    <2>1. \A i \in 1..synced : journal'[i] = journal[i]
        BY <1>1, <1>2
    <2> QED
        BY <2>1 DEF IInv, BurnDurable
<1> QED
    BY <1>2, <1>4, <1>6, <1>7, <1>8, Zenon

-----------------------------------------------------------------------------
(* The inductive invariant *)

\* A root without a journal satisfies the invariant.
LEMMA InitEstablishes == Init => IInv
<1> SUFFICES ASSUME Init
             PROVE  IInv
    OBVIOUS
<1>1. DefaultState \in State
    BY ConstantsAssumption DEF DefaultState, State
<1>2. /\ Len(journal) = 0 /\ Len(exposed) = 0 /\ journal \in Seq(Entries)
      /\ exposed \in Seq(Exposure) /\ acks \in Seq(Ack)
    BY DEF Init
<1>3. TypeOK
    <2>1. synced \in 0..Len(journal) /\ cursor \in 0..Len(journal)
        BY <1>2 DEF Init
    <2>2. torn \in BOOLEAN /\ poisoned \in BOOLEAN /\ secret \subseteq Nat
        BY DEF Init
    <2>3. /\ file \in {"absent", "partial", "unsynced", "ready"}
          /\ phase \in Phases
          /\ state \in State
          /\ before \in State
        BY <1>1 DEF Init, Phases
    <2> QED
        BY <1>2, <2>1, <2>2, <2>3 DEF TypeOK
<1>4. ReplayedTo(0) = DefaultState /\ DefaultState.attempts = 0
    BY DEF ReplayedTo, DefaultState
<1>5. JournalOK /\ FileOK /\ HandleOK
    BY <1>2, <1>4 DEF Init, JournalOK, FileOK, HandleOK
<1>6. ExposedOK /\ RowsExposedOnce /\ BurnDurable
    BY <1>2, <1>4 DEF Init, ExposedOK, RowsExposedOnce, BurnDurable
<1> QED
    BY <1>3, <1>5, <1>6 DEF IInv

\* A dropped handle is well typed.
LEMMA DropHandleTypes ==
    ASSUME DropHandle, Len(journal') \in Nat
    PROVE  /\ phase' \in Phases /\ cursor' \in 0..Len(journal')
           /\ state' \in State /\ poisoned' \in BOOLEAN
           /\ secret' \subseteq Nat /\ before' \in State
<1>1. DefaultState \in State
    BY ConstantsAssumption DEF DefaultState, State
<1>2. cursor' \in 0..Len(journal')
    BY DEF DropHandle
<1>3. poisoned' \in BOOLEAN /\ secret' \subseteq Nat /\ phase' \in Phases
    BY DEF DropHandle, Phases
<1> QED
    BY <1>1, <1>2, <1>3 DEF DropHandle

\* Steps that leave the disk and the history alone.
LEMMA QuietSteps ==
    ASSUME IInv, UNCHANGED <<disk, history>>,
           \/ OpenHeader
           \/ ReplayRecord
           \/ Close
           \/ BootstrapDone
           \/ BootstrapFails
           \/ DropPool
           \/ Stop
           \/ \E n \in AttemptSizes : AttemptRefused(n)
           \/ \E failed \in BOOLEAN : ConsumerDeclines(failed)
           \/ \E d \in Digest : AcceptRefused(d)
    PROVE  IInv'
<1>0. UNCHANGED <<file, journal, torn, synced, exposed, acks>>
    BY DEF disk, history
<1>1. JournalOK' /\ ExposedOK' /\ RowsExposedOnce' /\ BurnDurable'
    BY DiskKept DEF history
<1>2. Replayed' = Replayed /\ \A k \in Nat : ReplayedTo(k)' = ReplayedTo(k)
    BY <1>0 DEF Replayed, ReplayedTo
<1>3. DefaultState \in State
    BY ConstantsAssumption DEF DefaultState, State
<1>4. [state EXCEPT !.pending = FALSE] \in State
    BY DEF IInv, TypeOK, State
<1>5. SameButPending(state, Replayed) =>
          SameButPending([state EXCEPT !.pending = FALSE], Replayed)
    BY DEF SameButPending
<1>6. TypeOK' /\ FileOK' /\ HandleOK'
    <2>1. CASE OpenHeader
        <3>1. state = ReplayedTo(cursor) /\ ~poisoned
            BY <2>1 DEF OpenHeader, IInv, HandleOK, ReplayedTo
        <3> QED
            BY <1>0, <1>2, <2>1, <3>1 DEF OpenHeader, IInv, TypeOK, FileOK, HandleOK, Phases
    <2>2. CASE ReplayRecord
        <3>1. /\ cursor \in 0..Len(journal) /\ Len(journal) \in Nat
              /\ state = ReplayedTo(cursor) /\ ~poisoned
              /\ cursor + 1 \in 1..Len(journal) /\ (cursor + 1) - 1 = cursor
            BY <2>2 DEF ReplayRecord, IInv, TypeOK, HandleOK
        <3>2. state' = ReplayedTo(cursor + 1)
            BY <2>2, <3>1 DEF ReplayRecord, IInv, JournalOK, ReplayedTo
        <3>3. state' \in State
            BY <3>1, <3>2, ReplayBounded DEF IInv
        <3> QED
            BY <1>0, <1>2, <2>2, <3>1, <3>2, <3>3
               DEF ReplayRecord, IInv, TypeOK, FileOK, HandleOK
    <2>3. CASE Close
        <3>1. TypeOK'
            BY <1>0, <2>3, DropHandleTypes DEF Close, IInv, TypeOK
        <3> QED
            BY <1>0, <2>3, <3>1 DEF Close, DropHandle, IInv, FileOK, HandleOK
    <2>4. CASE BootstrapDone
        <3>1. 0..(state.rows - 1) \subseteq Nat
            BY DEF IInv, TypeOK, State
        <3> QED
            BY <1>0, <1>2, <2>4, <3>1
               DEF BootstrapDone, IInv, TypeOK, FileOK, HandleOK, Phases
    <2>5. CASE BootstrapFails
        BY <1>0, <1>2, <2>5 DEF BootstrapFails, IInv, TypeOK, FileOK, HandleOK, Phases
    <2>6. CASE DropPool
        BY <1>0, <1>2, <2>6 DEF DropPool, IInv, TypeOK, FileOK, HandleOK, Phases
    <2>7. CASE Stop
        BY <1>0, <1>2, <2>7 DEF Stop, IInv, TypeOK, FileOK, HandleOK
    <2>8. CASE \E n \in AttemptSizes : AttemptRefused(n)
        BY <1>0, <1>2, <2>8 DEF AttemptRefused, IInv, TypeOK, FileOK, HandleOK
    <2>9. CASE \E failed \in BOOLEAN : ConsumerDeclines(failed)
        BY <1>0, <1>2, <1>3, <1>4, <1>5, <2>9
           DEF ConsumerDeclines, IInv, TypeOK, FileOK, HandleOK, Phases
    <2>10. CASE \E d \in Digest : AcceptRefused(d)
        BY <1>0, <1>2, <1>3, <1>4, <1>5, <2>10
           DEF AcceptRefused, IInv, TypeOK, FileOK, HandleOK, Phases
    <2> QED
        BY <2>1, <2>2, <2>3, <2>4, <2>5, <2>6, <2>7, <2>8, <2>9, <2>10
<1> QED
    BY <1>1, <1>6 DEF IInv

\* Installation, the end of open and a loss of power.
LEMMA FileSteps ==
    ASSUME IInv, Install \/ InstallFails \/ OpenFails \/ OpenDone \/ PowerLoss
    PROVE  IInv'
<1>0. /\ Len(journal) \in Nat /\ synced \in 0..Len(journal)
      /\ journal \in Seq(Entries)
    BY DEF IInv, TypeOK
<1>1. CASE Install
    <2>1. UNCHANGED <<journal, torn, synced, cursor, state, poisoned, secret, before,
                      exposed, acks>>
        BY <1>1 DEF Install, history
    <2>2. Len(journal) = 0 /\ synced = 0 /\ ~torn /\ state = DefaultState /\ ~poisoned
          /\ cursor = 0
        BY <1>0, <1>1 DEF Install, IInv, FileOK, HandleOK
    <2>3. SameButPending(state, DefaultState) /\ Replayed' = DefaultState
        <3>0. state \in State /\ state.pending \in BOOLEAN
            BY DEF IInv, TypeOK, State
        <3>1. \A s \in State : s = [s EXCEPT !.pending = s.pending]
            BY DEF State
        <3>2. SameButPending(state, DefaultState)
            BY <2>2, <3>0, <3>1 DEF SameButPending
        <3>3. Replayed' = DefaultState
            BY <2>1, <2>2 DEF Replayed, ReplayedTo
        <3> QED
            BY <3>2, <3>3
    <2>4. TypeOK'
        BY <1>1, <2>1 DEF Install, IInv, TypeOK, Phases
    <2>5. JournalOK' /\ ExposedOK' /\ RowsExposedOnce' /\ BurnDurable'
        BY <2>1 DEF IInv, JournalOK, ExposedOK, RowsExposedOnce, BurnDurable, ReplayedTo
    <2>6. FileOK' /\ HandleOK'
        BY <1>1, <2>1, <2>2, <2>3 DEF Install, FileOK, HandleOK
    <2> QED
        BY <2>4, <2>5, <2>6 DEF IInv
<1>2. CASE InstallFails
    <2>1. UNCHANGED <<journal, torn, synced, phase, cursor, state, poisoned, secret,
                      before, exposed, acks>>
        BY <1>2 DEF InstallFails, handle, history
    <2>2. TypeOK'
        BY <1>2, <2>1 DEF InstallFails, IInv, TypeOK
    <2>3. JournalOK' /\ ExposedOK' /\ RowsExposedOnce' /\ BurnDurable'
        BY <2>1 DEF IInv, JournalOK, ExposedOK, RowsExposedOnce, BurnDurable, ReplayedTo
    <2>4. FileOK' /\ HandleOK'
        BY <1>2, <2>1 DEF InstallFails, IInv, FileOK, HandleOK, Replayed, ReplayedTo
    <2> QED
        BY <2>2, <2>3, <2>4 DEF IInv
<1>3. CASE OpenFails
    <2>1. UNCHANGED <<journal, torn, exposed, acks>> /\ DropHandle
        BY <1>3 DEF OpenFails, history
    <2>2. CASE UNCHANGED <<file, synced>>
        <3>1. TypeOK'
            BY <1>0, <2>1, <2>2, DropHandleTypes DEF IInv, TypeOK
        <3>2. JournalOK' /\ ExposedOK' /\ RowsExposedOnce' /\ BurnDurable'
            BY <2>1, <2>2, DiskKept DEF disk
        <3>3. FileOK' /\ HandleOK'
            BY <2>1, <2>2 DEF IInv, FileOK, HandleOK, DropHandle
        <3> QED
            BY <3>1, <3>2, <3>3 DEF IInv
    <2>3. CASE file' = "ready" /\ synced' = Len(journal)
        <3>1. TypeOK'
            BY <1>0, <2>1, <2>3, DropHandleTypes DEF IInv, TypeOK
        <3>2. JournalOK' /\ ExposedOK' /\ RowsExposedOnce' /\ BurnDurable'
            BY <2>1, <2>3, <3>1, SyncKeepsHistory
        <3>3. FileOK' /\ HandleOK'
            BY <1>0, <2>1, <2>3 DEF FileOK, HandleOK, DropHandle
        <3> QED
            BY <3>1, <3>2, <3>3 DEF IInv
    <2> QED
        BY <1>3, <2>2, <2>3 DEF OpenFails
<1>4. CASE OpenDone
    <2>1. UNCHANGED <<journal, torn, poisoned, secret, before, exposed, acks>>
        BY <1>4 DEF OpenDone, history
    <2>2. /\ synced' = Len(journal) /\ file' = "ready" /\ phase' = "open"
          /\ cursor' = 0 /\ ~torn /\ ~poisoned /\ state = Replayed
          /\ state' = [state EXCEPT !.pending = FALSE]
        BY <1>4 DEF OpenDone, IInv, HandleOK, Replayed
    <2>3. state' \in State
        BY <2>2 DEF IInv, TypeOK, State
    <2>4. TypeOK'
        BY <1>0, <2>1, <2>2, <2>3 DEF IInv, TypeOK, Phases
    <2>5. JournalOK' /\ ExposedOK' /\ RowsExposedOnce' /\ BurnDurable'
        BY <2>1, <2>2, <2>4, SyncKeepsHistory
    <2>6. SameButPending(state', Replayed')
        BY <2>1, <2>2 DEF SameButPending, Replayed, ReplayedTo
    <2>7. FileOK' /\ HandleOK'
        BY <1>0, <2>1, <2>2, <2>6 DEF FileOK, HandleOK
    <2> QED
        BY <2>4, <2>5, <2>7 DEF IInv
<1>5. CASE PowerLoss
    <2>1. UNCHANGED <<synced, exposed, acks>> /\ DropHandle
        BY <1>5 DEF PowerLoss, history
    <2>2. PICK k \in synced..Len(journal) :
             /\ journal' = SubSeq(journal, 1, k)
             /\ torn' \in IF torn \/ k < Len(journal) THEN BOOLEAN ELSE {FALSE}
        BY <1>5 DEF PowerLoss
    <2>3. /\ journal' \in Seq(Entries)
          /\ Len(journal') = k
          /\ JournalOK' /\ ExposedOK' /\ RowsExposedOnce' /\ BurnDurable'
        BY <2>1, <2>2, TruncateKeepsHistory
    <2>4. /\ file' \in {"absent", "partial", "unsynced", "ready"}
          /\ file' # "ready" => file # "ready"
        BY <1>5 DEF PowerLoss, IInv, TypeOK
    <2>5. torn' \in BOOLEAN
        BY <2>2
    <2>6. TypeOK'
        BY <1>0, <2>1, <2>3, <2>4, <2>5, DropHandleTypes DEF IInv, TypeOK
    <2>7. torn' => torn \/ k < Len(journal)
        BY <2>2
    <2>8. /\ synced \in Nat /\ k \in Nat /\ synced <= k /\ k <= Len(journal)
          /\ Len(journal) <= synced + 1
          /\ torn => Len(journal) = synced
          /\ file # "ready" => Len(journal) = 0 /\ ~torn
        BY <1>0 DEF IInv, FileOK
    <2>9. /\ k <= synced + 1
          /\ torn \/ k < Len(journal) => k = synced
          /\ file # "ready" => k = 0 /\ ~(torn \/ k < Len(journal))
        BY <1>0, <2>8
    <2>10. /\ Len(journal') <= synced' + 1
           /\ torn' => Len(journal') = synced'
           /\ file' # "ready" => Len(journal') = 0 /\ ~torn'
        BY <2>1, <2>3, <2>4, <2>7, <2>9
    <2>11. FileOK' /\ HandleOK'
        BY <2>1, <2>10 DEF FileOK, HandleOK, DropHandle
    <2> QED
        BY <2>3, <2>6, <2>11 DEF IInv
<1> QED
    BY <1>1, <1>2, <1>3, <1>4, <1>5

\* The setup record and the bootstrap's start.
LEMMA BeginStep ==
    ASSUME IInv, NEW n \in RowRequests, NEW fixed \in BOOLEAN, NEW io \in Outcome,
           BeginFor(n, fixed, io)
    PROVE  IInv'
<1>1. PICK r : r = SetupRecord(state, n, fixed)
    OBVIOUS
<1>2. /\ AppendRecord(state, r, io)
      /\ state' = IF io = "ok" THEN Apply(state, r) ELSE state
      /\ phase' = IF io = "ok" THEN "setup" ELSE "open"
      /\ phase = "open" /\ ~poisoned /\ file' = file /\ poisoned' = (io # "ok")
      /\ UNCHANGED <<cursor, secret, before, exposed, acks>>
    BY <1>1 DEF BeginFor, AppendRecord, Write, history
<1>3. state \in State /\ Replayed \in State
    BY ReplayBounded DEF IInv, TypeOK, Replayed
<1>4. r \in Record /\ r.kind # "accept"
    BY <1>1, <1>3, ConstantsAssumption, InputsAssumption DEF SetupRecord, Record, Kinds, State
<1>5. SameButPending(state, Replayed) /\ synced = Len(journal) /\ ~torn /\ cursor = 0
    BY <1>2 DEF IInv, HandleOK
<1>6. /\ SameButPending(Apply(state, r), Apply(Replayed, r))
      /\ Apply(state, r) \in State
    <2>1. Valid(state, r) /\ Valid(Replayed, r)
        BY <1>2, <1>3, <1>4, <1>5, ApplyIgnoresPending DEF AppendRecord
    <2>2. Bounded(state)
        BY <1>3, <1>5, ReplayBounded DEF IInv, TypeOK, Replayed, SameButPending, Bounded, State
    <2> QED
        BY <1>3, <1>4, <1>5, <2>1, <2>2, ApplyIgnoresPending, ApplyAdvances
<1>7. /\ journal' \in Seq(Entries)
      /\ torn' \in BOOLEAN
      /\ synced' \in 0..Len(journal')
      /\ JournalOK'
      /\ Len(journal') <= synced' + 1
      /\ torn' => Len(journal') = synced'
      /\ synced <= synced'
      /\ \A k \in 1..synced : journal'[k] = journal[k]
      /\ ReplayedTo(synced)' \in State
      /\ Later(ReplayedTo(synced), ReplayedTo(synced)')
      /\ io = "ok" => /\ synced' = Len(journal')
                      /\ ~torn'
                      /\ Replayed' = Apply(Replayed, r)
    BY <1>2, <1>3, <1>4, <1>5, WriteKeepsJournal
<1>8. TypeOK'
    <2>1. state' \in State
        BY <1>2, <1>3, <1>6
    <2>2. phase' \in Phases /\ poisoned' \in BOOLEAN
        BY <1>2 DEF Phases
    <2>3. cursor' \in 0..Len(journal')
        BY <1>2, <1>5, <1>7
    <2> QED
        BY <1>2, <1>7, <2>1, <2>2, <2>3 DEF IInv, TypeOK
<1>9. ExposedOK' /\ RowsExposedOnce' /\ BurnDurable'
    BY <1>2, <1>3, <1>5, <1>7, <1>8, HistoryKept DEF Replayed
<1>10. FileOK' /\ HandleOK'
    <2>1. file' = "ready"
        BY <1>2 DEF IInv, FileOK
    <2>2. FileOK'
        BY <1>7, <2>1 DEF FileOK
    <2>3. HandleOK'
        <3>1. CASE io = "ok"
            BY <1>2, <1>5, <1>6, <1>7, <3>1 DEF HandleOK
        <3>2. CASE io # "ok"
            BY <1>2, <1>5, <3>2 DEF HandleOK
        <3> QED
            BY <3>1, <3>2
    <2> QED
        BY <2>2, <2>3
<1> QED
    BY <1>7, <1>8, <1>9, <1>10 DEF IInv

\* The burn, and the exposure that follows it.
LEMMA BurnStep ==
    ASSUME IInv, NEW n \in AttemptSizes, NEW io \in Outcome, AttemptBurn(n, io)
    PROVE  IInv'
<1>1. PICK r : r = BurnRecord(state, 3 * n)
    OBVIOUS
<1>2. /\ AppendRecord(state, r, io)
      /\ phase = "pool" /\ ~poisoned /\ file' = file /\ poisoned' = (io # "ok")
      /\ UNCHANGED <<cursor, acks>>
    BY <1>1 DEF AttemptBurn, AppendRecord, Write
<1>3. state \in State /\ Replayed \in State /\ Bounded(Replayed)
    BY ReplayBounded DEF IInv, TypeOK, Replayed
<1>4. /\ r \in Record /\ r.kind = "burn" /\ r.setup = state.setups
      /\ r.start = state.used /\ r.digest = state.head
    <2>1. 3 * n \in Nat
        BY InputsAssumption
    <2> QED
        BY <1>1, <1>3, <2>1 DEF BurnRecord, Record, Kinds, State
<1>5. SameButPending(state, Replayed) /\ synced = Len(journal) /\ ~torn /\ cursor = 0
    BY <1>2 DEF IInv, HandleOK
<1>6. /\ state.setups = Replayed.setups /\ state.used = Replayed.used
      /\ state.attempts = Replayed.attempts
    BY <1>3, <1>5 DEF SameButPending, State
<1>7. /\ Valid(Replayed, r)
      /\ SameButPending(Apply(state, r), Apply(Replayed, r))
      /\ Apply(state, r) \in State /\ Apply(Replayed, r) \in State
    <2>1. Valid(state, r) /\ Valid(Replayed, r)
        BY <1>2, <1>3, <1>4, <1>5, ApplyIgnoresPending DEF AppendRecord
    <2>2. Bounded(state)
        BY <1>3, <1>5 DEF SameButPending, Bounded, State
    <2> QED
        BY <1>3, <1>4, <1>5, <2>1, <2>2, ApplyIgnoresPending, ApplyAdvances
<1>8. /\ journal' \in Seq(Entries)
      /\ torn' \in BOOLEAN
      /\ synced' \in 0..Len(journal')
      /\ JournalOK'
      /\ Len(journal') <= synced' + 1
      /\ torn' => Len(journal') = synced'
      /\ synced <= synced'
      /\ \A k \in 1..synced : journal'[k] = journal[k]
      /\ ReplayedTo(synced)' \in State
      /\ Later(ReplayedTo(synced), ReplayedTo(synced)')
      /\ io = "ok" => /\ synced' = Len(journal')
                      /\ synced' = synced + 1
                      /\ ~torn'
                      /\ journal'[synced + 1] = [rec |-> r, after |-> Apply(Replayed, r)]
                      /\ Replayed' = Apply(Replayed, r)
    BY <1>2, <1>3, <1>4, <1>5, WriteKeepsJournal
<1>9. file' = "ready" /\ FileOK'
    BY <1>2, <1>8 DEF IInv, FileOK
<1>10. CASE io # "ok"
    <2>1. UNCHANGED <<state, phase, secret, before, exposed>>
        BY <1>10 DEF AttemptBurn
    <2>2. TypeOK'
        <3>1. cursor' \in 0..Len(journal')
            BY <1>2, <1>5, <1>8
        <3>2. poisoned' \in BOOLEAN
            BY <1>2
        <3> QED
            BY <1>2, <1>8, <1>9, <2>1, <3>1, <3>2 DEF IInv, TypeOK
    <2>3. ExposedOK' /\ RowsExposedOnce' /\ BurnDurable'
        BY <1>3, <1>5, <1>8, <2>1, <2>2, HistoryKept DEF Replayed
    <2>4. HandleOK'
        BY <1>2, <1>5, <1>10, <2>1 DEF HandleOK
    <2> QED
        BY <1>8, <1>9, <2>2, <2>3, <2>4 DEF IInv
<1>11. CASE io = "ok"
    <2>0. PICK e : e = [setup |-> r.setup, first |-> r.start, count |-> r.count,
                        ordinal |-> Apply(state, r).attempts, predecessor |-> r.digest]
        OBVIOUS
    <2>1. /\ state' = Apply(state, r)
          /\ phase' = "consume"
          /\ secret' = secret \ (r.start..(r.start + r.count - 1))
          /\ exposed' = Append(exposed, e)
          /\ before' = state
        BY <1>1, <1>11, <2>0 DEF AttemptBurn
    <2>2. PICK s, t : s = Replayed /\ t = Apply(Replayed, r)
        OBVIOUS
    <2>3. /\ t.attempts = s.attempts + 1 /\ t.setups = s.setups
          /\ t.used = s.used + r.count /\ t.pending /\ t \in State
          /\ Apply(state, r).attempts = s.attempts + 1
        <3>1. /\ t = [s EXCEPT !.used = @ + r.count, !.attempts = @ + 1, !.pending = TRUE]
              /\ Apply(state, r) = [state EXCEPT !.used = @ + r.count,
                                                 !.attempts = @ + 1, !.pending = TRUE]
            BY <1>4, <2>2 DEF Apply
        <3>2. Apply(state, r).attempts = state.attempts + 1
            BY <1>3, <3>1 DEF State
        <3> QED
            BY <1>3, <1>6, <1>7, <2>2, <3>1, <3>2 DEF State
    <2>4. /\ e.setup = s.setups /\ e.first = s.used /\ e.count = r.count
          /\ e.ordinal = s.attempts + 1 /\ e.predecessor = r.digest
          /\ e \in Exposure
        <3>1. /\ e.setup = s.setups /\ e.first = s.used /\ e.count = r.count
              /\ e.ordinal = s.attempts + 1 /\ e.predecessor = r.digest
            BY <1>4, <1>6, <2>0, <2>2, <2>3
        <3>2. r.setup \in Nat /\ r.start \in Nat /\ r.count \in Nat /\ r.digest \in Digest
            BY <1>4 DEF Record
        <3>3. s.attempts + 1 \in Nat
            BY <1>3, <2>2 DEF State
        <3> QED
            BY <2>0, <2>3, <3>1, <3>2, <3>3 DEF Exposure
    <2>5. /\ Len(exposed) \in Nat
          /\ exposed' \in Seq(Exposure)
          /\ Len(exposed') = Len(exposed) + 1
          /\ \A i \in 1..Len(exposed) : exposed'[i] = exposed[i]
          /\ exposed'[Len(exposed) + 1] = e
          /\ \A i \in 1..Len(exposed) : exposed[i] \in Exposure
        BY <2>1, <2>4 DEF IInv, TypeOK
    <2>6. TypeOK'
        <3>1. cursor' \in 0..Len(journal')
            BY <1>2, <1>5, <1>8
        <3>2. poisoned' \in BOOLEAN /\ phase' \in Phases
            BY <1>2, <2>1 DEF Phases
        <3>3. secret' \subseteq Nat
            BY <2>1 DEF IInv, TypeOK
        <3> QED
            BY <1>2, <1>3, <1>7, <1>8, <1>9, <2>1, <2>5, <3>1, <3>2, <3>3
               DEF IInv, TypeOK
    <2>7. /\ s.attempts \in Nat /\ s.setups \in Nat /\ s.used \in Nat /\ r.count \in Nat
          /\ Len(exposed) <= s.attempts
          /\ \A i \in 1..Len(exposed) : Below(exposed[i], s)
          /\ \A i, j \in 1..Len(exposed) :
                i < j => exposed[i].ordinal < exposed[j].ordinal
        <3>1. s = ReplayedTo(synced)
            BY <1>5, <2>2 DEF Replayed
        <3>2. r.count \in Nat
            BY <1>4 DEF Record
        <3> QED
            BY <1>3, <2>2, <3>1, <3>2 DEF IInv, ExposedOK, State
    <2>8. ReplayedTo(synced)' = t
        BY <1>8, <1>11, <2>2 DEF Replayed
    <2>9. ExposedOK'
        <3>1. Len(exposed') <= t.attempts
            BY <2>3, <2>5, <2>7
        <3>0. \A x \in Exposure : Below(x, s) => Below(x, t) /\ x.ordinal < s.attempts + 1
            BY <2>3, <2>7 DEF Below, Exposure
        <3>2. \A i \in 1..Len(exposed) : Below(exposed[i], t)
            BY <2>5, <2>7, <3>0
        <3>3. Below(e, t)
            BY <2>3, <2>4, <2>7 DEF Below
        <3>4. \A i \in 1..Len(exposed') : Below(exposed'[i], t)
            BY <2>5, <3>2, <3>3
        <3>5. \A i \in 1..Len(exposed) : exposed[i].ordinal < e.ordinal
            BY <2>4, <2>5, <2>7, <3>0
        <3>6. ASSUME NEW i \in 1..Len(exposed'), NEW j \in 1..Len(exposed'), i < j
              PROVE  exposed'[i].ordinal < exposed'[j].ordinal
            <4>1. i \in 1..Len(exposed) /\ exposed'[i] = exposed[i]
                BY <2>5, <3>6
            <4>2. CASE j = Len(exposed) + 1
                BY <2>5, <3>5, <4>1, <4>2
            <4>3. CASE j # Len(exposed) + 1
                <5>1. j \in 1..Len(exposed) /\ exposed'[j] = exposed[j]
                    BY <2>5, <4>3
                <5> QED
                    BY <2>7, <3>6, <4>1, <5>1
            <4> QED
                BY <4>2, <4>3
        <3> QED
            BY <2>8, <3>1, <3>4, <3>6 DEF ExposedOK
    <2>10. RowsExposedOnce'
        <3>1. \A i \in 1..Len(exposed) :
                 exposed[i].setup = e.setup => exposed[i].first + exposed[i].count <= e.first
            BY <2>4, <2>7 DEF Below
        <3>2. SUFFICES ASSUME NEW i \in 1..Len(exposed'), NEW j \in 1..Len(exposed'),
                              i < j, exposed'[i].setup = exposed'[j].setup
                       PROVE  exposed'[i].first + exposed'[i].count <= exposed'[j].first
            BY DEF RowsExposedOnce
        <3>3. i \in 1..Len(exposed) /\ exposed'[i] = exposed[i]
            BY <2>5, <3>2
        <3>4. CASE j = Len(exposed) + 1
            BY <2>5, <3>1, <3>2, <3>3, <3>4
        <3>5. CASE j # Len(exposed) + 1
            <4>1. j \in 1..Len(exposed) /\ exposed'[j] = exposed[j]
                BY <2>5, <3>5
            <4> QED
                BY <3>2, <3>3, <4>1 DEF IInv, RowsExposedOnce
        <3> QED
            BY <3>4, <3>5
    <2>11. BurnDurable'
        <3>1. SUFFICES ASSUME NEW i \in 1..Len(exposed')
                       PROVE  \E k \in 1..synced' : journal'[k].rec =
                                [kind |-> "burn", setup |-> exposed'[i].setup,
                                 start |-> exposed'[i].first, count |-> exposed'[i].count,
                                 digest |-> exposed'[i].predecessor]
            BY DEF BurnDurable
        <3>2. synced \in Nat /\ synced' = synced + 1
            BY <1>8, <1>11 DEF IInv, TypeOK
        <3>3. CASE i = Len(exposed) + 1
            <4>1. synced + 1 \in 1..synced' /\ journal'[synced + 1].rec = r
                BY <1>8, <1>11, <3>2
            <4>2. r = [kind |-> "burn", setup |-> r.setup, start |-> r.start,
                       count |-> r.count, digest |-> r.digest]
                BY <1>1 DEF BurnRecord
            <4>3. /\ exposed'[i].setup = r.setup /\ exposed'[i].first = r.start
                  /\ exposed'[i].count = r.count /\ exposed'[i].predecessor = r.digest
                BY <2>0, <2>5, <3>3
            <4> QED
                BY <4>1, <4>2, <4>3
        <3>4. CASE i # Len(exposed) + 1
            <4>1. i \in 1..Len(exposed) /\ exposed'[i] = exposed[i]
                BY <2>5, <3>4
            <4>2. PICK k \in 1..synced : journal[k].rec =
                                [kind |-> "burn", setup |-> exposed[i].setup,
                                 start |-> exposed[i].first, count |-> exposed[i].count,
                                 digest |-> exposed[i].predecessor]
                BY <4>1 DEF IInv, BurnDurable
            <4>3. k \in 1..synced' /\ journal'[k] = journal[k]
                BY <1>8, <3>2
            <4> QED
                BY <4>1, <4>2, <4>3
        <3> QED
            BY <3>3, <3>4
    <2>12. HandleOK'
        <3>1. SameButPending(state', Replayed') /\ Replayed'.pending
            BY <1>7, <1>8, <1>11, <2>1, <2>2, <2>3
        <3>2. ~poisoned' /\ cursor' = 0 /\ synced' = Len(journal') /\ ~torn'
            BY <1>2, <1>5, <1>8, <1>11
        <3> QED
            BY <2>1, <3>1, <3>2 DEF HandleOK
    <2> QED
        BY <1>8, <1>9, <2>6, <2>9, <2>10, <2>11, <2>12 DEF IInv
<1> QED
    BY <1>10, <1>11

\* The acceptance: the only record that depends on the pending flag.
LEMMA AcceptStep ==
    ASSUME IInv, NEW d \in Digest, NEW io \in Outcome, AcceptDigest(d, io)
    PROVE  IInv'
<1>1. PICK p, r : p = [state EXCEPT !.pending = TRUE] /\ r = AcceptRecord(state, d)
    OBVIOUS
<1>2. /\ AppendRecord(p, r, io)
      /\ phase = "consume" /\ phase' = "pool" /\ ~poisoned /\ file' = file
      /\ poisoned' = (io # "ok") /\ before' = DefaultState
      /\ state' = [(IF io = "ok" THEN Apply(p, r) ELSE state) EXCEPT !.pending = FALSE]
      /\ acks' = IF io = "ok" THEN Append(acks, [ordinal |-> state.attempts, digest |-> d])
                              ELSE acks
      /\ UNCHANGED <<cursor, secret, exposed>>
    BY <1>1 DEF AcceptDigest, AppendRecord, Write
<1>3. state \in State /\ Replayed \in State /\ Bounded(Replayed)
    BY ReplayBounded DEF IInv, TypeOK, Replayed
<1>4. r \in Record /\ r.kind = "accept" /\ r.digest = d
    BY <1>1, <1>3 DEF AcceptRecord, Record, Kinds, State
<1>5. /\ SameButPending(state, Replayed) /\ synced = Len(journal) /\ ~torn /\ cursor = 0
      /\ Replayed.pending
    BY <1>2 DEF IInv, HandleOK
<1>6. p \in State /\ SameButPending(p, Replayed)
    <2>1. p \in State
        BY <1>1, <1>3 DEF State
    <2> QED
        BY <1>1, <1>3, <1>5, <2>1 DEF SameButPending, State
<1>7. /\ SameButPending(Apply(p, r), Apply(Replayed, r))
      /\ Apply(p, r) \in State
    <2>1. Valid(p, r)
        BY <1>2 DEF AppendRecord
    <2>2. Bounded(p)
        BY <1>3, <1>6 DEF SameButPending, Bounded, State
    <2> QED
        BY <1>3, <1>4, <1>5, <1>6, <2>1, <2>2, ApplyIgnoresPending, ApplyAdvances
<1>8. /\ journal' \in Seq(Entries)
      /\ torn' \in BOOLEAN
      /\ synced' \in 0..Len(journal')
      /\ JournalOK'
      /\ Len(journal') <= synced' + 1
      /\ torn' => Len(journal') = synced'
      /\ synced <= synced'
      /\ \A k \in 1..synced : journal'[k] = journal[k]
      /\ ReplayedTo(synced)' \in State
      /\ Later(ReplayedTo(synced), ReplayedTo(synced)')
      /\ io = "ok" => /\ synced' = Len(journal')
                      /\ ~torn'
                      /\ Replayed' = Apply(Replayed, r)
    BY <1>2, <1>3, <1>4, <1>5, <1>6, WriteKeepsJournal
<1>9. state' \in State
    <2>1. \A s \in State : [s EXCEPT !.pending = FALSE] \in State
        BY DEF State
    <2> QED
        BY <1>2, <1>3, <1>7, <2>1
<1>10. TypeOK'
    <2>1. cursor' \in 0..Len(journal')
        BY <1>2, <1>5, <1>8
    <2>2. poisoned' \in BOOLEAN /\ phase' \in Phases
        BY <1>2 DEF Phases
    <2>3. acks' \in Seq(Ack)
        <3>1. [ordinal |-> state.attempts, digest |-> d] \in Ack
            BY <1>3 DEF Ack, State
        <3> QED
            BY <1>2, <3>1 DEF IInv, TypeOK
    <2>4. before' \in State
        BY <1>2, ConstantsAssumption DEF DefaultState, State
    <2> QED
        BY <1>2, <1>8, <1>9, <2>1, <2>2, <2>3, <2>4 DEF IInv, TypeOK
<1>11. ExposedOK' /\ RowsExposedOnce' /\ BurnDurable'
    BY <1>2, <1>3, <1>5, <1>8, <1>10, HistoryKept DEF Replayed
<1>12. FileOK'
    BY <1>2, <1>8 DEF IInv, FileOK
<1>13. HandleOK'
    <2>1. CASE io = "ok"
        <3>1. state' = [Apply(p, r) EXCEPT !.pending = FALSE]
            BY <1>2, <2>1
        <3>2. SameButPending(state', Replayed')
            BY <1>7, <1>8, <2>1, <3>1 DEF SameButPending
        <3> QED
            BY <1>2, <1>5, <1>8, <2>1, <3>2 DEF HandleOK
    <2>2. CASE io # "ok"
        BY <1>2, <1>5, <2>2 DEF HandleOK
    <2> QED
        BY <2>1, <2>2
<1> QED
    BY <1>8, <1>10, <1>11, <1>12, <1>13 DEF IInv

\* Every step of the store preserves the inductive invariant.
LEMMA NextPreserves == IInv /\ [Next]_vars => IInv'
<1> SUFFICES ASSUME IInv, [Next]_vars
             PROVE  IInv'
    OBVIOUS
<1>1. CASE Install \/ InstallFails \/ OpenFails \/ OpenDone \/ PowerLoss
    BY <1>1, FileSteps
<1>2. CASE \/ OpenHeader \/ ReplayRecord \/ Close \/ BootstrapDone \/ BootstrapFails
           \/ DropPool \/ Stop
           \/ \E n \in AttemptSizes : AttemptRefused(n)
           \/ \E failed \in BOOLEAN : ConsumerDeclines(failed)
           \/ \E d \in Digest : AcceptRefused(d)
    <2>1. UNCHANGED <<disk, history>>
        BY <1>2 DEF OpenHeader, ReplayRecord, Close, BootstrapDone, BootstrapFails,
                    DropPool, Stop, AttemptRefused, ConsumerDeclines, AcceptRefused
    <2> QED
        BY <1>2, <2>1, QuietSteps
<1>3. CASE \E n \in RowRequests, fixed \in BOOLEAN, io \in Outcome : BeginFor(n, fixed, io)
    BY <1>3, BeginStep
<1>4. CASE \E n \in AttemptSizes, io \in Outcome : AttemptBurn(n, io)
    BY <1>4, BurnStep
<1>5. CASE \E d \in Digest, io \in Outcome : AcceptDigest(d, io)
    BY <1>5, AcceptStep
<1>6. CASE UNCHANGED vars
    <2>1. UNCHANGED <<file, journal, torn, synced, phase, cursor, state, poisoned, secret,
                      before, exposed, acks>>
        BY <1>6 DEF vars
    <2>2. JournalOK' /\ ExposedOK' /\ RowsExposedOnce' /\ BurnDurable'
        BY <2>1, DiskKept DEF disk
    <2>3. TypeOK' /\ FileOK' /\ HandleOK'
        BY <2>1 DEF IInv, TypeOK, FileOK, HandleOK, Replayed, ReplayedTo
    <2> QED
        BY <2>2, <2>3 DEF IInv
<1> QED
    BY <1>1, <1>2, <1>3, <1>4, <1>5, <1>6 DEF Next

-----------------------------------------------------------------------------
(* Theorems *)

\* Every behaviour of the store stays in the inductive invariant.
THEOREM InductiveInvariant == Spec => []IInv
BY InitEstablishes, NextPreserves, PTL DEF Spec

\* Type correctness of the lifetime store.
THEOREM TypeCorrect == Spec => []TypeOK
<1>1. IInv => TypeOK
    BY DEF IInv
<1> QED
    BY <1>1, InductiveInvariant, PTL

\* No correlation row is ever handed to two consumers, whatever fails, stops or
\* is reopened in between (Pool::attempt).
THEOREM RowsExposedOnceAlways == Spec => []RowsExposedOnce
<1>1. IInv => RowsExposedOnce
    BY DEF IInv
<1> QED
    BY <1>1, InductiveInvariant, PTL

\* The root's exposure budget holds over its whole life, crashes included
\* (State::apply, ROOT_SLOTS).
THEOREM ExposureBoundAlways == Spec => []ExposureBound
<1>1. IInv => ExposureBound
    <2> SUFFICES ASSUME IInv
                 PROVE  ExposureBound
        OBVIOUS
    <2>1. synced \in 0..Len(journal) /\ Len(exposed) \in Nat
        BY DEF IInv, TypeOK
    <2>2. ReplayedTo(synced) \in State /\ Bounded(ReplayedTo(synced))
        BY <2>1, ReplayBounded DEF IInv
    <2>3. Len(exposed) <= ROOT_SLOTS
        BY <2>1, <2>2, ConstantsAssumption DEF IInv, ExposedOK, Bounded, State
    <2> QED
        BY <2>3 DEF IInv, ExposedOK, ExposureBound
<1> QED
    BY <1>1, InductiveInvariant, PTL

\* Whatever a consumer has seen is burned in a durable record (append before
\* the rows are copied out).
THEOREM BurnDurableAlways == Spec => []BurnDurable
<1>1. IInv => BurnDurable
    BY DEF IInv
<1> QED
    BY <1>1, InductiveInvariant, PTL

\* Every journal the store writes is one its own replay admits.
THEOREM ReplayAcceptsAlways == Spec => []ReplayAccepts
<1>1. IInv => ReplayAccepts
    BY DEF IInv, JournalOK, ReplayAccepts
<1> QED
    BY <1>1, InductiveInvariant, PTL

-----------------------------------------------------------------------------
\* Among the first n records, an acceptance of digest d by an attempt lo..hi.
AcceptedIn(n, lo, hi, d) ==
    \E m \in 1..n :
        /\ journal[m].rec.kind = "accept"
        /\ journal[m].rec.start \in lo..hi
        /\ journal[m].rec.digest = d

\* Among the first n records, the one that makes the root a fixed run.
FixedIn(n) == \E m \in 1..n : journal[m].rec.kind = "fixed"

\* What the state after n records says about those records: whole packed
\* elements, a fixed run exactly if one was recorded, and a head no older than
\* any recorded acceptance.
PrefixOK(n) ==
    LET s == ReplayedTo(n) IN
        /\ s.rows % 3 = 0
        /\ s.used % 3 = 0
        /\ s.fixed_run <=> FixedIn(n)
        /\ s.fixed_run => s.setups > 0
        /\ \A k \in 1..n :
              journal[k].rec.kind = "accept" =>
                  AcceptedIn(n, journal[k].rec.start, s.attempts, s.head)

PrefixesOK == \A n \in 0..Len(journal) : PrefixOK(n)

\* The pool holds exactly the rows the state has not used.
PoolOK ==
    /\ phase = "setup" => state.used = 0
    /\ (phase = "pool" /\ ~poisoned) \/ phase = "consume" =>
           secret = state.used..(state.rows - 1)

\* Every reported acceptance is in a durable record, and no attempt reports two.
AcksOK ==
    /\ \A j \in 1..Len(acks) :
          \E k \in 1..synced :
              /\ journal[k].rec.kind = "accept"
              /\ journal[k].rec.start = acks[j].ordinal
    /\ Len(acks) <= Len(exposed)
    /\ phase = "consume" => Len(acks) < Len(exposed)

\* NoRollback, on the durable records.
NoRollbackDurable ==
    \A i \in 1..Len(exposed), j \in 1..Len(acks) :
        acks[j].ordinal < exposed[i].ordinal =>
            AcceptedIn(synced, acks[j].ordinal, exposed[i].ordinal - 1,
                       exposed[i].predecessor)

\* Attempt i of a fixed run is the i-th, on the digest the one before reported.
Chained(i) ==
    /\ exposed[i].ordinal = i
    /\ i > 1 => /\ Len(acks) >= i - 1
                /\ acks[i - 1] = [ordinal |-> i - 1, digest |-> exposed[i].predecessor]

\* The running pool of a fixed run has reported every attempt it made.
FixedOK ==
    IsFixedRun =>
        /\ \A i \in 1..Len(exposed) : Chained(i)
        /\ ~Stopped => Len(exposed) = state.attempts
        /\ (~Stopped /\ phase # "consume") =>
               /\ Len(acks) = Len(exposed)
               /\ Len(acks) > 0 => acks[Len(acks)] = [ordinal |-> state.attempts,
                                                      digest |-> state.head]
        /\ (~Stopped /\ phase = "consume") =>
               /\ Len(acks) = Len(exposed) - 1
               /\ before.head = state.head

HInv ==
    /\ PrefixesOK
    /\ PoolOK
    /\ AcksOK
    /\ NoRollbackDurable
    /\ FixedOK

-----------------------------------------------------------------------------
(* What a step does to the journal *)

\* A record is appended by a handle that is not poisoned, hence behind a journal
\* that is durable and not torn.
LEMMA AppendsWhenDurable ==
    ASSUME IInv, NEW s, NEW r \in Record, NEW io, AppendRecord(s, r, io),
           phase \in {"open", "pool", "consume"}
    PROVE  /\ synced = Len(journal) /\ ~torn
           /\ synced <= synced'
           /\ \/ journal' = journal
              \/ journal' = Append(journal, Entry(r))
<1>1. synced = Len(journal) /\ ~torn /\ Len(journal) \in Nat
    BY DEF IInv, TypeOK, HandleOK, AppendRecord
<1>2. synced <= synced'
    BY <1>1 DEF AppendRecord, Write
<1> QED
    BY <1>1, <1>2 DEF AppendRecord, Write

\* The records of the three calls that append one.
LEMMA RecordsTyped ==
    ASSUME IInv
    PROVE  /\ \A n \in RowRequests, f \in BOOLEAN : SetupRecord(state, n, f) \in Record
           /\ \A n \in AttemptSizes : BurnRecord(state, 3 * n) \in Record
           /\ \A d \in Digest : AcceptRecord(state, d) \in Record
<1>1. state \in State
    BY DEF IInv, TypeOK
<1>2. \A n \in RowRequests, f \in BOOLEAN : SetupRecord(state, n, f) \in Record
    BY <1>1, ConstantsAssumption, InputsAssumption DEF SetupRecord, Record, Kinds, State
<1>3. \A n \in AttemptSizes : 3 * n \in Nat
    BY InputsAssumption
<1>4. \A n \in AttemptSizes : BurnRecord(state, 3 * n) \in Record
    BY <1>1, <1>3 DEF BurnRecord, Record, Kinds, State
<1>5. \A d \in Digest : AcceptRecord(state, d) \in Record
    BY <1>1 DEF AcceptRecord, Record, Kinds, State
<1> QED
    BY <1>2, <1>4, <1>5

\* A step leaves a prefix of the journal that holds every durable record, or
\* adds one record behind a journal that is durable and not torn.
Shrinks ==
    /\ Len(journal') \in synced..Len(journal)
    /\ \A i \in 1..Len(journal') : journal'[i] = journal[i]

Grows ==
    /\ synced = Len(journal)
    /\ ~torn
    /\ \E r \in Record : journal' = Append(journal, Entry(r))

\* Every step leaves the journal, extends it by a record or cuts a torn tail.
LEMMA JournalMoves ==
    ASSUME IInv, [Next]_vars
    PROVE  synced <= synced' /\ (Shrinks \/ Grows)
<1>0. /\ Len(journal) \in Nat /\ synced \in 0..Len(journal)
      /\ journal \in Seq(Entries)
    BY DEF IInv, TypeOK
<1>a. journal' = journal => Shrinks
    BY <1>0 DEF Shrinks
<1>1. CASE Install \/ InstallFails \/ OpenFails \/ OpenDone
    <2>1. journal' = journal
        BY <1>1 DEF Install, InstallFails, OpenFails, OpenDone
    <2>2. synced' = synced \/ synced' = Len(journal)
        BY <1>1 DEF Install, InstallFails, OpenFails, OpenDone
    <2> QED
        BY <1>0, <1>a, <2>1, <2>2
<1>2. CASE \/ OpenHeader \/ ReplayRecord \/ Close \/ BootstrapDone \/ BootstrapFails
           \/ DropPool \/ Stop
           \/ \E n \in AttemptSizes : AttemptRefused(n)
           \/ \E failed \in BOOLEAN : ConsumerDeclines(failed)
           \/ \E d \in Digest : AcceptRefused(d)
           \/ UNCHANGED vars
    <2>1. UNCHANGED <<journal, synced>>
        BY <1>2 DEF OpenHeader, ReplayRecord, Close, BootstrapDone, BootstrapFails,
                    DropPool, Stop, AttemptRefused, ConsumerDeclines, AcceptRefused,
                    disk, vars
    <2> QED
        BY <1>0, <1>a, <2>1
<1>3. CASE PowerLoss
    <2>1. PICK k \in synced..Len(journal) : journal' = SubSeq(journal, 1, k)
        BY <1>3 DEF PowerLoss
    <2>2. Len(journal') = k /\ \A i \in 1..k : journal'[i] = journal[i]
        BY <1>0, <2>1
    <2>3. synced' = synced
        BY <1>3 DEF PowerLoss
    <2> QED
        BY <1>0, <2>1, <2>2, <2>3 DEF Shrinks
<1>4. CASE \E n \in RowRequests, fixed \in BOOLEAN, io \in Outcome : BeginFor(n, fixed, io)
    <2>1. PICK r \in Record, io \in Outcome : AppendRecord(state, r, io) /\ phase = "open"
        BY <1>4, RecordsTyped DEF BeginFor
    <2> QED
        BY <1>a, <2>1, AppendsWhenDurable DEF Grows
<1>5. CASE \E n \in AttemptSizes, io \in Outcome : AttemptBurn(n, io)
    <2>1. PICK r \in Record, io \in Outcome : AppendRecord(state, r, io) /\ phase = "pool"
        BY <1>5, RecordsTyped DEF AttemptBurn
    <2> QED
        BY <1>a, <2>1, AppendsWhenDurable DEF Grows
<1>6. CASE \E d \in Digest, io \in Outcome : AcceptDigest(d, io)
    <2>1. PICK r \in Record, io \in Outcome :
             AppendRecord([state EXCEPT !.pending = TRUE], r, io) /\ phase = "consume"
        BY <1>6, RecordsTyped DEF AcceptDigest
    <2> QED
        BY <1>a, <2>1, AppendsWhenDurable DEF Grows
<1> QED
    BY <1>1, <1>2, <1>3, <1>4, <1>5, <1>6 DEF Next

\* A journal with a torn record is never extended, and a durable record is never
\* removed or altered, whatever fails or loses power (append, open).
THEOREM JournalAppendOnlyAlways == Spec => JournalAppendOnly
<1>1. IInv /\ [Next]_vars =>
         [/\ synced' >= synced
          /\ SubSeq(journal', 1, synced) = SubSeq(journal, 1, synced)
          /\ torn => Len(journal') <= Len(journal)]_vars
    <2> SUFFICES ASSUME IInv, [Next]_vars
                 PROVE  /\ synced' >= synced
                        /\ SubSeq(journal', 1, synced) = SubSeq(journal, 1, synced)
                        /\ torn => Len(journal') <= Len(journal)
        OBVIOUS
    <2>0. /\ Len(journal) \in Nat /\ synced \in 0..Len(journal) /\ journal \in Seq(Entries)
          /\ IInv' /\ journal' \in Seq(Entries) /\ synced' \in 0..Len(journal')
          /\ Len(journal') \in Nat
        BY NextPreserves DEF IInv, TypeOK
    <2>1. synced <= synced' /\ (Shrinks \/ Grows)
        BY JournalMoves
    <2>2. /\ \A i \in 1..synced : journal'[i] = journal[i]
          /\ synced <= Len(journal')
          /\ torn => Len(journal') <= Len(journal)
        BY <2>0, <2>1 DEF Shrinks, Grows
    <2>3. SubSeq(journal', 1, synced) = SubSeq(journal, 1, synced)
        BY <2>0, <2>2
    <2> QED
        BY <2>0, <2>1, <2>2, <2>3
<1> QED
    BY <1>1, InductiveInvariant, PTL DEF Spec, JournalAppendOnly

-----------------------------------------------------------------------------
(* The prefixes of the journal *)

\* What is said about a prefix depends on that prefix alone.
LEMMA PrefixKept ==
    ASSUME NEW n \in Nat, \A i \in 1..n : journal'[i] = journal[i], PrefixOK(n)
    PROVE  PrefixOK(n)'
<1>1. ReplayedTo(n)' = ReplayedTo(n)
    BY DEF ReplayedTo
<1>2. FixedIn(n)' = FixedIn(n)
    BY DEF FixedIn
<1>3. \A lo, hi, d : AcceptedIn(n, lo, hi, d)' = AcceptedIn(n, lo, hi, d)
    BY DEF AcceptedIn
<1> QED
    BY <1>1, <1>2, <1>3 DEF PrefixOK

\* What State::apply keeps of the facts of PrefixOK about a single state.
LEMMA ApplyKeepsShape ==
    ASSUME NEW s \in State, NEW r \in Record, Valid(s, r), Bounded(s),
           s.rows % 3 = 0, s.used % 3 = 0, s.fixed_run => s.setups > 0
    PROVE  LET t == Apply(s, r) IN
               /\ t.rows % 3 = 0 /\ t.used % 3 = 0
               /\ t.fixed_run => t.setups > 0
               /\ t.fixed_run <=> (s.fixed_run \/ r.kind = "fixed")
               /\ r.kind = "accept" => r.start = t.attempts /\ r.digest = t.head
                                       /\ t.attempts = s.attempts
               /\ r.kind # "accept" => s.attempts <= t.attempts /\ t.head = s.head
<1>t. PICK t : t = Apply(s, r)
    OBVIOUS
<1>0. r.setup \in Nat /\ r.count \in Nat /\ r.digest \in Digest
    BY DEF Record
<1>a. /\ s.setups \in Nat /\ s.attempts \in Nat /\ s.rows \in Nat /\ s.used \in Nat
      /\ s.fixed_run \in BOOLEAN
    BY DEF State
<1>1. CASE r.kind = "setup"
    <2>1. t = [s EXCEPT !.setups = r.setup, !.rows = r.count, !.used = 0,
                        !.pending = FALSE]
        BY <1>1, <1>t DEF Apply
    <2>2. /\ t.setups = r.setup /\ t.attempts = s.attempts /\ t.rows = r.count
          /\ t.used = 0 /\ t.fixed_run = s.fixed_run /\ t.head = s.head
        BY <2>1, <1>0 DEF State
    <2>3. r.setup = s.setups + 1 /\ r.count % 3 = 0
        BY <1>1 DEF Valid
    <2> QED
        BY <1>t, <1>0, <1>1, <1>a, <2>2, <2>3
<1>2. CASE r.kind = "fixed"
    <2>1. t = [s EXCEPT !.fixed_run = TRUE, !.setups = 1, !.rows = r.count]
        BY <1>2, <1>t DEF Apply
    <2>2. /\ t.setups = 1 /\ t.attempts = s.attempts /\ t.rows = r.count
          /\ t.used = s.used /\ t.fixed_run /\ t.head = s.head
        BY <2>1, <1>0 DEF State
    <2>3. r.count % 3 = 0
        BY <1>2 DEF Valid
    <2> QED
        BY <1>t, <1>0, <1>2, <1>a, <2>2, <2>3
<1>3. CASE r.kind = "burn"
    <2>u. PICK u \in Nat, a \in Nat : u = s.used + r.count /\ a = s.attempts + 1
        BY <1>0, <1>a
    <2>1. t = [s EXCEPT !.used = u, !.attempts = a, !.pending = TRUE]
        BY <1>3, <1>t, <2>u DEF Apply
    <2>2. /\ t.setups = s.setups /\ t.attempts = s.attempts + 1 /\ t.rows = s.rows
          /\ t.used = s.used + r.count /\ t.fixed_run = s.fixed_run /\ t.head = s.head
        BY <2>1, <2>u DEF State
    <2>3. r.count % 3 = 0
        BY <1>3 DEF Valid
    <2>4. t.used % 3 = 0
        BY <1>0, <1>a, <2>2, <2>3
    <2> QED
        BY <1>t, <1>0, <1>3, <1>a, <2>2, <2>4
<1>4. CASE r.kind = "accept"
    <2>1. t = [s EXCEPT !.head = r.digest, !.pending = FALSE]
        BY <1>4, <1>t DEF Apply
    <2>2. /\ t.setups = s.setups /\ t.attempts = s.attempts /\ t.rows = s.rows
          /\ t.used = s.used /\ t.fixed_run = s.fixed_run /\ t.head = r.digest
        BY <2>1, <1>0 DEF State
    <2>3. r.start = s.attempts
        BY <1>4 DEF Valid
    <2> QED
        BY <1>t, <1>0, <1>4, <1>a, <2>2, <2>3
<1> QED
    BY <1>1, <1>2, <1>3, <1>4 DEF Record, Kinds

\* Every step keeps what is said about the prefixes of the journal.
LEMMA PrefixStep ==
    ASSUME IInv, PrefixesOK, [Next]_vars
    PROVE  PrefixesOK'
<1>0. /\ Len(journal) \in Nat /\ synced \in 0..Len(journal) /\ journal \in Seq(Entries)
      /\ IInv'
    BY NextPreserves DEF IInv, TypeOK
<1>1. Shrinks \/ Grows
    BY JournalMoves
<1>2. CASE Shrinks
    <2>1. SUFFICES ASSUME NEW n \in 0..Len(journal') PROVE PrefixOK(n)'
        BY DEF PrefixesOK
    <2>2. /\ n \in Nat /\ n \in 0..Len(journal)
          /\ \A i \in 1..n : journal'[i] = journal[i]
        BY <1>0, <1>2 DEF Shrinks
    <2> QED
        BY <2>2, PrefixKept DEF PrefixesOK
<1>3. CASE Grows
    <2>0. PICK r \in Record : journal' = Append(journal, Entry(r))
        BY <1>3 DEF Grows
    <2>1. /\ Len(journal') = Len(journal) + 1
          /\ \A i \in 1..Len(journal) : journal'[i] = journal[i]
          /\ journal'[Len(journal) + 1] = Entry(r)
        BY <1>0, <2>0
    <2>2. PICK N : N = Len(journal) + 1
        OBVIOUS
    <2>3. PICK s, t : s = Replayed /\ t = Apply(Replayed, r)
        OBVIOUS
    <2>4. journal'[N].rec = r /\ journal'[N].after = t
        BY <2>1, <2>2, <2>3 DEF Entry, Replayed
    <2>5. s \in State /\ Bounded(s)
        BY <1>0, <2>3, ReplayBounded DEF IInv, Replayed
    <2>6. ReplayedTo(N)' = t
        BY <1>0, <2>2, <2>4 DEF ReplayedTo
    <2>7. (IF N - 1 = 0 THEN DefaultState ELSE journal'[N - 1].after) = s
        BY <1>0, <2>1, <2>2, <2>3 DEF Replayed, ReplayedTo
    <2>8. Valid(s, r)
        <3>1. N \in 1..Len(journal')
            BY <1>0, <2>1, <2>2
        <3>2. Valid(IF N - 1 = 0 THEN DefaultState ELSE journal'[N - 1].after,
                    journal'[N].rec)
            BY <1>0, <3>1 DEF IInv, JournalOK, ReplayedTo
        <3> QED
            BY <2>4, <2>7, <3>2
    <2>9. PrefixOK(Len(journal))
        BY <1>0 DEF PrefixesOK
    <2>10. /\ s.rows % 3 = 0 /\ s.used % 3 = 0
           /\ s.fixed_run => s.setups > 0
           /\ s.fixed_run <=> FixedIn(Len(journal))
           /\ \A k \in 1..Len(journal) : journal[k].rec.kind = "accept" =>
                  AcceptedIn(Len(journal), journal[k].rec.start, s.attempts, s.head)
        BY <2>3, <2>9 DEF PrefixOK, Replayed
    <2>11. /\ t.rows % 3 = 0 /\ t.used % 3 = 0
           /\ t.fixed_run => t.setups > 0
           /\ t.fixed_run <=> (s.fixed_run \/ r.kind = "fixed")
           /\ r.kind = "accept" => r.start = t.attempts /\ r.digest = t.head
                                   /\ t.attempts = s.attempts
           /\ r.kind # "accept" => s.attempts <= t.attempts /\ t.head = s.head
        BY <2>3, <2>5, <2>8, <2>10, ApplyKeepsShape
    <2>12. FixedIn(N)' <=> FixedIn(Len(journal)) \/ r.kind = "fixed"
        <3>1. /\ N \in 1..N /\ \A m \in 1..N : m \in 1..Len(journal) \/ m = N
              /\ \A m \in 1..Len(journal) : m \in 1..N
            BY <1>0, <2>2
        <3> QED
            BY <2>1, <2>4, <3>1 DEF FixedIn
    <2>13. /\ s.attempts \in Nat /\ t.attempts \in Nat /\ r.start \in Nat
           /\ \A k \in 1..Len(journal) : journal[k].rec.start \in Nat
        <3>1. t \in State
            BY <2>3, <2>5, <2>8, ApplyAdvances
        <3>2. \A k \in 1..Len(journal) : journal[k] \in Entries
            BY <1>0
        <3>3. \A k \in 1..Len(journal) : journal[k].rec \in Record
            BY <3>2 DEF Entries
        <3> QED
            BY <2>5, <3>1, <3>3 DEF State, Record
    <2>14. ASSUME NEW k \in 1..N, journal'[k].rec.kind = "accept"
           PROVE  \E m \in 1..N :
                     /\ journal'[m].rec.kind = "accept"
                     /\ journal'[m].rec.start \in journal'[k].rec.start..t.attempts
                     /\ journal'[m].rec.digest = t.head
        <3>1. CASE r.kind = "accept"
            <4>1. journal'[k].rec.start \in Nat /\ journal'[k].rec.start <= t.attempts
                <5>1. CASE k = N
                    BY <2>4, <2>11, <2>13, <3>1, <5>1
                <5>2. CASE k # N
                    <6>1. k \in 1..Len(journal) /\ journal'[k] = journal[k]
                        BY <1>0, <2>1, <2>2, <5>2
                    <6>2. AcceptedIn(Len(journal), journal[k].rec.start, s.attempts, s.head)
                        BY <2>10, <2>14, <6>1
                    <6> QED
                        BY <2>11, <2>13, <3>1, <6>1, <6>2 DEF AcceptedIn
                <5> QED
                    BY <5>1, <5>2
            <4>2. N \in 1..N
                BY <1>0, <2>2
            <4>3. /\ journal'[N].rec.kind = "accept" /\ journal'[N].rec.digest = t.head
                  /\ journal'[N].rec.start \in journal'[k].rec.start..t.attempts
                BY <2>4, <2>11, <2>13, <3>1, <4>1
            <4> QED
                BY <4>2, <4>3
        <3>2. CASE r.kind # "accept"
            <4>1. k \in 1..Len(journal) /\ journal'[k] = journal[k]
                BY <1>0, <2>1, <2>2, <2>4, <2>14, <3>2
            <4>2. AcceptedIn(Len(journal), journal[k].rec.start, s.attempts, s.head)
                BY <2>10, <2>14, <4>1
            <4>3. PICK m \in 1..Len(journal) :
                     /\ journal[m].rec.kind = "accept"
                     /\ journal[m].rec.start \in journal[k].rec.start..s.attempts
                     /\ journal[m].rec.digest = s.head
                BY <4>2 DEF AcceptedIn
            <4>4. m \in 1..N /\ journal'[m] = journal[m]
                BY <1>0, <2>1, <2>2
            <4>5. journal[m].rec.start \in journal[k].rec.start..t.attempts
                BY <2>11, <2>13, <3>2, <4>1, <4>3
            <4> QED
                BY <2>11, <3>2, <4>1, <4>3, <4>4, <4>5
        <3> QED
            BY <3>1, <3>2
    <2>15. PrefixOK(N)'
        BY <2>6, <2>10, <2>11, <2>12, <2>14 DEF PrefixOK, AcceptedIn
    <2>16. SUFFICES ASSUME NEW n \in 0..Len(journal') PROVE PrefixOK(n)'
        BY DEF PrefixesOK
    <2>17. CASE n = N
        BY <2>15, <2>17
    <2>18. CASE n # N
        <3>1. /\ n \in Nat /\ n \in 0..Len(journal)
              /\ \A i \in 1..n : journal'[i] = journal[i]
            BY <1>0, <2>1, <2>2, <2>18
        <3> QED
            BY <3>1, PrefixKept DEF PrefixesOK
    <2> QED
        BY <2>17, <2>18
<1> QED
    BY <1>1, <1>2, <1>3

-----------------------------------------------------------------------------
(* What the appending calls do to the handle *)

\* A usable handle knows what its journal replays to.
LEMMA HandleReplays ==
    ASSUME IInv, phase \notin {"closed", "replay"}, ~poisoned
    PROVE  /\ state \in State /\ Replayed \in State /\ Bounded(state)
           /\ state.fixed_run = Replayed.fixed_run /\ state.setups = Replayed.setups
           /\ state.attempts = Replayed.attempts /\ state.rows = Replayed.rows
           /\ state.used = Replayed.used /\ state.head = Replayed.head
           /\ synced = Len(journal) /\ Replayed = ReplayedTo(synced)
<1>1. state \in State /\ Replayed \in State /\ Bounded(Replayed)
    BY ReplayBounded DEF IInv, TypeOK, Replayed
<1>2. SameButPending(state, Replayed) /\ synced = Len(journal)
    BY DEF IInv, HandleOK
<1>3. /\ state.fixed_run = Replayed.fixed_run /\ state.setups = Replayed.setups
      /\ state.attempts = Replayed.attempts /\ state.rows = Replayed.rows
      /\ state.used = Replayed.used /\ state.head = Replayed.head
    BY <1>1, <1>2 DEF SameButPending, State
<1>4. Bounded(state)
    BY <1>1, <1>3 DEF Bounded
<1> QED
    BY <1>1, <1>2, <1>3, <1>4 DEF Replayed

\* A setup that reached the disk: the handle starts a bootstrap with no row used.
LEMMA BeginFacts ==
    ASSUME IInv, NEW n \in RowRequests, NEW fixed \in BOOLEAN, BeginFor(n, fixed, "ok")
    PROVE  /\ phase = "open" /\ ~poisoned /\ phase' = "setup" /\ ~poisoned'
           /\ UNCHANGED <<exposed, acks, secret, before>>
           /\ state' \in State /\ state'.used = 0 /\ state'.attempts = state.attempts
           /\ ~state.fixed_run \/ state.setups = 0
           /\ fixed => state.attempts = 0
           /\ journal' = Append(journal, Entry(SetupRecord(state, n, fixed)))
<1>0. PICK r : r = SetupRecord(state, n, fixed)
    OBVIOUS
<1>1. /\ AppendRecord(state, r, "ok") /\ state' = Apply(state, r) /\ phase' = "setup"
      /\ phase = "open" /\ ~poisoned /\ ~poisoned'
      /\ UNCHANGED <<exposed, acks, secret, before>>
      /\ journal' = Append(journal, Entry(r))
    BY <1>0 DEF BeginFor, AppendRecord, Write, history
<1>2. state \in State /\ Bounded(state)
    BY <1>1, HandleReplays
<1>3. r \in Record /\ Valid(state, r)
    BY <1>0, <1>1, RecordsTyped DEF AppendRecord
<1>4. state' \in State
    BY <1>1, <1>2, <1>3, ApplyAdvances
<1>5. CASE fixed
    <2>1. r.kind = "fixed"
        BY <1>0, <1>5 DEF SetupRecord
    <2>2. state.setups = 0 /\ state.attempts = 0 /\ state.used = 0
        BY <1>2, <1>3, <2>1 DEF Valid, Bounded
    <2>3. state' = [state EXCEPT !.fixed_run = TRUE, !.setups = 1, !.rows = r.count]
        BY <1>1, <2>1 DEF Apply
    <2>4. state'.used = state.used /\ state'.attempts = state.attempts
        BY <1>2, <2>3 DEF State
    <2> QED
        BY <1>0, <1>1, <1>4, <2>2, <2>4
<1>6. CASE ~fixed
    <2>1. r.kind = "setup"
        BY <1>0, <1>6 DEF SetupRecord
    <2>2. ~state.fixed_run
        BY <1>3, <2>1 DEF Valid
    <2>3. state' = [state EXCEPT !.setups = r.setup, !.rows = r.count, !.used = 0,
                                 !.pending = FALSE]
        BY <1>1, <2>1 DEF Apply
    <2>4. state'.used = 0 /\ state'.attempts = state.attempts
        BY <1>2, <2>3 DEF State
    <2> QED
        BY <1>0, <1>1, <1>4, <1>6, <2>2, <2>4
<1> QED
    BY <1>5, <1>6

\* A burn that reached the disk: the rows leave the pool, the cursor passes them.
LEMMA BurnFacts ==
    ASSUME IInv, NEW n \in AttemptSizes, AttemptBurn(n, "ok")
    PROVE  /\ phase = "pool" /\ ~poisoned /\ phase' = "consume" /\ ~poisoned'
           /\ before' = state /\ acks' = acks
           /\ state' \in State
           /\ state'.used = state.used + 3 * n /\ state'.rows = state.rows
           /\ state'.attempts = state.attempts + 1 /\ state'.head = state.head
           /\ state'.used <= state.rows
           /\ secret' = secret \ (state.used..(state.used + 3 * n - 1))
           /\ journal' = Append(journal, Entry(BurnRecord(state, 3 * n)))
           /\ \E e \in Exposure : /\ exposed' = Append(exposed, e)
                                  /\ e.ordinal = state.attempts + 1
                                  /\ e.predecessor = state.head
<1>0. PICK r : r = BurnRecord(state, 3 * n)
    OBVIOUS
<1>1. /\ AppendRecord(state, r, "ok") /\ state' = Apply(state, r) /\ phase' = "consume"
      /\ phase = "pool" /\ ~poisoned /\ ~poisoned' /\ before' = state /\ acks' = acks
      /\ secret' = secret \ (r.start..(r.start + r.count - 1))
      /\ exposed' = Append(exposed,
            [setup |-> r.setup, first |-> r.start, count |-> r.count,
             ordinal |-> Apply(state, r).attempts, predecessor |-> r.digest])
      /\ journal' = Append(journal, Entry(r))
    BY <1>0 DEF AttemptBurn, AppendRecord, Write
<1>2. state \in State /\ Bounded(state)
    BY <1>1, HandleReplays
<1>3. /\ r \in Record /\ Valid(state, r) /\ r.kind = "burn" /\ r.start = state.used
      /\ r.count = 3 * n /\ r.digest = state.head /\ r.setup = state.setups
    BY <1>0, <1>1, RecordsTyped DEF AppendRecord, BurnRecord
<1>4. /\ r.count \in Nat /\ r.start \in Nat /\ r.setup \in Nat /\ r.digest \in Digest
      /\ state.used \in Nat /\ state.rows \in Nat /\ state.attempts \in Nat
    BY <1>2, <1>3 DEF Record, State
<1>5. state' \in State
    BY <1>1, <1>2, <1>3, ApplyAdvances
<1>6. PICK u \in Nat, a \in Nat : u = state.used + r.count /\ a = state.attempts + 1
    BY <1>4
<1>7. state' = [state EXCEPT !.used = u, !.attempts = a, !.pending = TRUE]
    BY <1>1, <1>3, <1>6 DEF Apply
<1>8. /\ state'.used = u /\ state'.rows = state.rows /\ state'.attempts = a
      /\ state'.head = state.head
    BY <1>2, <1>7 DEF State
<1>9. r.count <= state.rows - state.used
    BY <1>3 DEF Valid
<1>10. PICK e : e = [setup |-> r.setup, first |-> r.start, count |-> r.count,
                     ordinal |-> a, predecessor |-> r.digest]
    OBVIOUS
<1>11. e \in Exposure /\ e.ordinal = state.attempts + 1 /\ e.predecessor = state.head
    BY <1>3, <1>4, <1>6, <1>10 DEF Exposure
<1>12. exposed' = Append(exposed, e)
    BY <1>1, <1>8, <1>10
<1>13. state'.used <= state.rows
    BY <1>4, <1>6, <1>8, <1>9
<1> QED
    BY <1>0, <1>1, <1>3, <1>5, <1>6, <1>8, <1>11, <1>12, <1>13

\* An acceptance that reached the disk is the head the next attempt is made on.
LEMMA AcceptFacts ==
    ASSUME IInv, NEW d \in Digest, AcceptDigest(d, "ok")
    PROVE  /\ phase = "consume" /\ ~poisoned /\ phase' = "pool" /\ ~poisoned'
           /\ UNCHANGED <<exposed, secret>>
           /\ acks' = Append(acks, [ordinal |-> state.attempts, digest |-> d])
           /\ state' \in State /\ state'.used = state.used /\ state'.rows = state.rows
           /\ state'.attempts = state.attempts /\ state'.head = d
           /\ synced' = synced + 1
           /\ journal'[synced + 1].rec = AcceptRecord(state, d)
           /\ journal' = Append(journal, Entry(AcceptRecord(state, d)))
<1>1. PICK p, r : p = [state EXCEPT !.pending = TRUE] /\ r = AcceptRecord(state, d)
    OBVIOUS
<1>2. /\ AppendRecord(p, r, "ok") /\ phase = "consume" /\ phase' = "pool" /\ ~poisoned
      /\ ~poisoned' /\ state' = [Apply(p, r) EXCEPT !.pending = FALSE]
      /\ acks' = Append(acks, [ordinal |-> state.attempts, digest |-> d])
      /\ UNCHANGED <<exposed, secret>>
    BY <1>1 DEF AcceptDigest, AppendRecord
<1>3. state \in State
    BY DEF IInv, TypeOK
<1>4. r.kind = "accept" /\ r.digest = d
    BY <1>1 DEF AcceptRecord
<1>5. PICK q : q = Apply(p, r)
    OBVIOUS
<1>6. q = [p EXCEPT !.head = d, !.pending = FALSE]
    BY <1>4, <1>5 DEF Apply
<1>7. /\ p \in State /\ p.used = state.used /\ p.rows = state.rows
      /\ p.attempts = state.attempts
    BY <1>1, <1>3 DEF State
<1>8. /\ q \in State /\ q.used = state.used /\ q.rows = state.rows
      /\ q.attempts = state.attempts /\ q.head = d
    BY <1>6, <1>7 DEF State
<1>9. /\ state' \in State /\ state'.used = state.used /\ state'.rows = state.rows
      /\ state'.attempts = state.attempts /\ state'.head = d
    BY <1>2, <1>5, <1>8 DEF State
<1>10. /\ synced' = synced + 1 /\ journal'[synced + 1].rec = r
       /\ journal' = Append(journal, Entry(r))
    <2>1. synced = Len(journal) /\ journal \in Seq(Entries) /\ Len(journal) \in Nat
        BY <1>2, HandleReplays DEF IInv, TypeOK
    <2>2. journal' = Append(journal, Entry(r)) /\ synced' = Len(journal) + 1
        BY <1>2 DEF AppendRecord, Write
    <2>3. journal'[synced + 1] = Entry(r)
        BY <2>1, <2>2
    <2> QED
        BY <2>1, <2>2, <2>3 DEF Entry
<1> QED
    BY <1>1, <1>2, <1>9, <1>10

-----------------------------------------------------------------------------
(* The pool's rows *)

\* Every step keeps the pool's rows in step with the state's cursor.
LEMMA PoolStep ==
    ASSUME IInv, PoolOK, [Next]_vars
    PROVE  PoolOK'
<1>0. state \in State
    BY DEF IInv, TypeOK
<1>1. CASE Install \/ InstallFails \/ OpenHeader \/ ReplayRecord \/ OpenFails \/ OpenDone
           \/ Close \/ PowerLoss \/ BootstrapFails \/ DropPool
    <2>1. phase' \in {"closed", "replay", "open"}
        BY <1>1 DEF Install, InstallFails, OpenHeader, ReplayRecord, OpenFails, OpenDone,
                    Close, PowerLoss, BootstrapFails, DropPool, DropHandle, handle
    <2> QED
        BY <2>1 DEF PoolOK
<1>2. ASSUME NEW n \in RowRequests, NEW fixed \in BOOLEAN, NEW io \in Outcome,
             BeginFor(n, fixed, io)
      PROVE  PoolOK'
    <2>1. CASE io = "ok"
        BY <1>2, <2>1, BeginFacts DEF PoolOK
    <2>2. CASE io # "ok"
        BY <1>2, <2>2 DEF BeginFor, PoolOK
    <2> QED
        BY <2>1, <2>2
<1>3. CASE BootstrapDone
    BY <1>3 DEF BootstrapDone, PoolOK
<1>4. CASE Stop
    BY <1>4 DEF Stop, PoolOK
<1>5. CASE \E n \in AttemptSizes : AttemptRefused(n)
    BY <1>5 DEF AttemptRefused, PoolOK
<1>6. ASSUME NEW n \in AttemptSizes, NEW io \in Outcome, AttemptBurn(n, io)
      PROVE  PoolOK'
    <2>1. CASE io = "ok"
        <3>1. /\ phase = "pool" /\ ~poisoned /\ phase' = "consume"
              /\ state' \in State
              /\ state'.used = state.used + 3 * n /\ state'.rows = state.rows
              /\ secret' = secret \ (state.used..(state.used + 3 * n - 1))
            BY <1>6, <2>1, BurnFacts
        <3>2. secret = state.used..(state.rows - 1)
            BY <3>1 DEF PoolOK
        <3>3. state.used \in Nat /\ state.rows \in Nat /\ n \in Nat
            BY <1>0, InputsAssumption DEF State
        <3>4. secret' = state'.used..(state'.rows - 1)
            BY <3>1, <3>2, <3>3
        <3> QED
            BY <3>1, <3>4 DEF PoolOK
    <2>2. CASE io # "ok"
        BY <1>6, <2>2 DEF AttemptBurn, AppendRecord, PoolOK
    <2> QED
        BY <2>1, <2>2
<1>7. CASE (\E failed \in BOOLEAN : ConsumerDeclines(failed)) \/ \E d \in Digest : AcceptRefused(d)
    <2>1. /\ phase = "consume" /\ phase' = "pool" /\ secret' = secret
          /\ state' = [state EXCEPT !.pending = FALSE]
        BY <1>7 DEF ConsumerDeclines, AcceptRefused
    <2>2. state'.used = state.used /\ state'.rows = state.rows
        BY <1>0, <2>1 DEF State
    <2> QED
        BY <2>1, <2>2 DEF PoolOK
<1>8. ASSUME NEW d \in Digest, NEW io \in Outcome, AcceptDigest(d, io)
      PROVE  PoolOK'
    <2>1. CASE io = "ok"
        BY <1>8, <2>1, AcceptFacts DEF PoolOK
    <2>2. CASE io # "ok"
        BY <1>8, <2>2 DEF AcceptDigest, AppendRecord, PoolOK
    <2> QED
        BY <2>1, <2>2
<1>9. CASE UNCHANGED vars
    BY <1>9 DEF vars, PoolOK
<1> QED
    BY <1>1, <1>2, <1>3, <1>4, <1>5, <1>6, <1>7, <1>8, <1>9 DEF Next

-----------------------------------------------------------------------------
(* Reported acceptances *)

\* Only a durable burn adds an exposure and only a durable acceptance a report.
LEMMA HistoryMoves ==
    ASSUME [Next]_vars
    PROVE  \/ \E n \in AttemptSizes : AttemptBurn(n, "ok")
           \/ \E d \in Digest : AcceptDigest(d, "ok")
           \/ /\ UNCHANGED <<exposed, acks>>
              /\ phase' # "consume" \/ UNCHANGED vars
<1>1. CASE \E n \in AttemptSizes, io \in Outcome : AttemptBurn(n, io)
    BY <1>1 DEF AttemptBurn, vars
<1>2. CASE \E d \in Digest, io \in Outcome : AcceptDigest(d, io)
    BY <1>2 DEF AcceptDigest
<1>3. CASE \/ Install \/ InstallFails \/ OpenFails \/ OpenDone \/ PowerLoss
           \/ OpenHeader \/ ReplayRecord \/ Close \/ BootstrapDone \/ BootstrapFails
           \/ DropPool \/ Stop
    BY <1>3 DEF Install, InstallFails, OpenFails, OpenDone, PowerLoss, OpenHeader,
                ReplayRecord, Close, BootstrapDone, BootstrapFails, DropPool, Stop,
                DropHandle, handle, history
<1>4. CASE \/ \E n \in RowRequests, fixed \in BOOLEAN, io \in Outcome : BeginFor(n, fixed, io)
           \/ \E n \in AttemptSizes : AttemptRefused(n)
           \/ \E failed \in BOOLEAN : ConsumerDeclines(failed)
           \/ \E d \in Digest : AcceptRefused(d)
    BY <1>4 DEF BeginFor, AttemptRefused, ConsumerDeclines, AcceptRefused, history
<1>5. CASE UNCHANGED vars
    BY <1>5 DEF vars
<1> QED
    BY <1>1, <1>2, <1>3, <1>4, <1>5 DEF Next

\* A durable record stays where it is.
LEMMA DurableKept ==
    ASSUME IInv, [Next]_vars
    PROVE  /\ synced \in Nat /\ synced' \in Nat /\ synced <= synced'
           /\ \A k \in 1..synced : k \in 1..synced' /\ journal'[k] = journal[k]
<1>1. /\ Len(journal) \in Nat /\ synced \in 0..Len(journal) /\ journal \in Seq(Entries)
      /\ synced' \in Nat
    BY NextPreserves DEF IInv, TypeOK
<1>2. synced <= synced' /\ (Shrinks \/ Grows)
    BY JournalMoves
<1>3. \A k \in 1..synced : journal'[k] = journal[k]
    BY <1>1, <1>2 DEF Shrinks, Grows
<1> QED
    BY <1>1, <1>2, <1>3

\* Every step keeps the reports within the durable acceptances.
LEMMA AcksStep ==
    ASSUME IInv, AcksOK, [Next]_vars
    PROVE  AcksOK'
<1>0. /\ synced \in Nat /\ synced' \in Nat /\ synced <= synced'
      /\ \A k \in 1..synced : k \in 1..synced' /\ journal'[k] = journal[k]
      /\ exposed \in Seq(Exposure) /\ acks \in Seq(Ack) /\ state \in State
      /\ Len(exposed) \in Nat /\ Len(acks) \in Nat
    BY DurableKept DEF IInv, TypeOK
<1>a. \A j \in 1..Len(acks) : \E k \in 1..synced' :
         journal'[k].rec.kind = "accept" /\ journal'[k].rec.start = acks[j].ordinal
    BY <1>0 DEF AcksOK
<1>1. CASE \E n \in AttemptSizes : AttemptBurn(n, "ok")
    <2>1. PICK e \in Exposure : exposed' = Append(exposed, e) /\ acks' = acks
        BY <1>1, BurnFacts
    <2>2. Len(exposed') = Len(exposed) + 1
        BY <1>0, <2>1
    <2> QED
        BY <1>0, <1>a, <2>1, <2>2 DEF AcksOK
<1>2. CASE \E d \in Digest : AcceptDigest(d, "ok")
    <2>1. PICK d \in Digest :
             /\ phase = "consume" /\ phase' = "pool" /\ exposed' = exposed
             /\ acks' = Append(acks, [ordinal |-> state.attempts, digest |-> d])
             /\ synced' = synced + 1 /\ journal'[synced + 1].rec = AcceptRecord(state, d)
        BY <1>2, AcceptFacts
    <2>2. PICK a : a = [ordinal |-> state.attempts, digest |-> d]
        OBVIOUS
    <2>3. /\ Len(acks') = Len(acks) + 1
          /\ \A j \in 1..Len(acks) : acks'[j] = acks[j]
          /\ acks'[Len(acks) + 1] = a /\ a.ordinal = state.attempts
        <3>1. a \in Ack /\ a.ordinal = state.attempts
            BY <1>0, <2>2 DEF Ack, State
        <3> QED
            BY <1>0, <2>1, <2>2, <3>1
    <2>4. /\ synced + 1 \in 1..synced'
          /\ journal'[synced + 1].rec.kind = "accept"
          /\ journal'[synced + 1].rec.start = state.attempts
        BY <1>0, <2>1 DEF AcceptRecord
    <2>5. \A j \in 1..Len(acks') : \E k \in 1..synced' :
             journal'[k].rec.kind = "accept" /\ journal'[k].rec.start = acks'[j].ordinal
        <3>1. SUFFICES ASSUME NEW j \in 1..Len(acks')
                       PROVE  \E k \in 1..synced' : /\ journal'[k].rec.kind = "accept"
                                                    /\ journal'[k].rec.start = acks'[j].ordinal
            OBVIOUS
        <3>2. CASE j = Len(acks) + 1
            BY <2>3, <2>4, <3>2
        <3>3. CASE j # Len(acks) + 1
            <4>1. j \in 1..Len(acks) /\ acks'[j] = acks[j]
                BY <1>0, <2>3, <3>3
            <4> QED
                BY <1>a, <4>1
        <3> QED
            BY <3>2, <3>3
    <2> QED
        BY <1>0, <2>1, <2>3, <2>5 DEF AcksOK
<1>3. CASE UNCHANGED <<exposed, acks>> /\ (phase' # "consume" \/ UNCHANGED vars)
    <2>1. phase' = "consume" => phase = "consume"
        BY <1>3 DEF vars
    <2> QED
        BY <1>a, <1>3, <2>1 DEF AcksOK
<1> QED
    BY <1>1, <1>2, <1>3, HistoryMoves

\* A durable acceptance stays durable.
LEMMA AcceptedKept ==
    ASSUME IInv, [Next]_vars, NEW lo, NEW hi, NEW d, AcceptedIn(synced, lo, hi, d)
    PROVE  \E m \in 1..synced' : /\ journal'[m].rec.kind = "accept"
                                 /\ journal'[m].rec.start \in lo..hi
                                 /\ journal'[m].rec.digest = d
<1>1. PICK m \in 1..synced : /\ journal[m].rec.kind = "accept"
                             /\ journal[m].rec.start \in lo..hi
                             /\ journal[m].rec.digest = d
    BY DEF AcceptedIn
<1>2. m \in 1..synced' /\ journal'[m] = journal[m]
    BY <1>1, DurableKept
<1> QED
    BY <1>1, <1>2

\* Every attempt is made on the head of its durable journal, so no step makes
\* one on a head older than a reported acceptance.
LEMMA NoRollbackStep ==
    ASSUME IInv, PrefixesOK, AcksOK, NoRollbackDurable, [Next]_vars
    PROVE  NoRollbackDurable'
<1>0. /\ exposed \in Seq(Exposure) /\ acks \in Seq(Ack) /\ state \in State
      /\ Len(exposed) \in Nat /\ Len(acks) \in Nat /\ synced \in 0..Len(journal)
      /\ Len(journal) \in Nat
    BY DEF IInv, TypeOK
<1>1. \A i \in 1..Len(exposed), j \in 1..Len(acks) :
         acks[j].ordinal < exposed[i].ordinal =>
             AcceptedIn(synced, acks[j].ordinal, exposed[i].ordinal - 1,
                        exposed[i].predecessor)
    BY DEF NoRollbackDurable
<1>2. SUFFICES ASSUME NEW i \in 1..Len(exposed'), NEW j \in 1..Len(acks'),
                      acks'[j].ordinal < exposed'[i].ordinal
               PROVE  AcceptedIn(synced, acks'[j].ordinal, exposed'[i].ordinal - 1,
                                 exposed'[i].predecessor)
    <2>1. SUFFICES ASSUME NEW i \in 1..Len(exposed'), NEW j \in 1..Len(acks'),
                          acks'[j].ordinal < exposed'[i].ordinal
                   PROVE  \E m \in 1..synced' :
                             /\ journal'[m].rec.kind = "accept"
                             /\ journal'[m].rec.start
                                    \in acks'[j].ordinal..(exposed'[i].ordinal - 1)
                             /\ journal'[m].rec.digest = exposed'[i].predecessor
        BY DEF NoRollbackDurable, AcceptedIn
    <2>2. AcceptedIn(synced, acks'[j].ordinal, exposed'[i].ordinal - 1,
                     exposed'[i].predecessor)
        BY <1>2, <2>1
    <2> QED
        BY <2>2, AcceptedKept
<1>3. CASE \E n \in AttemptSizes : AttemptBurn(n, "ok")
    <2>1. PICK e \in Exposure :
             /\ phase = "pool" /\ ~poisoned /\ acks' = acks
             /\ exposed' = Append(exposed, e)
             /\ e.ordinal = state.attempts + 1 /\ e.predecessor = state.head
        BY <1>3, BurnFacts
    <2>2. /\ Len(exposed') = Len(exposed) + 1
          /\ \A x \in 1..Len(exposed) : exposed'[x] = exposed[x]
          /\ exposed'[Len(exposed) + 1] = e
        BY <1>0, <2>1
    <2>3. CASE i = Len(exposed) + 1
        <3>1. /\ state.attempts = ReplayedTo(synced).attempts
              /\ state.head = ReplayedTo(synced).head
            BY <2>1, HandleReplays
        <3>2. PICK k \in 1..synced : /\ journal[k].rec.kind = "accept"
                                     /\ journal[k].rec.start = acks[j].ordinal
            BY <2>1 DEF AcksOK
        <3>3. AcceptedIn(synced, acks[j].ordinal, state.attempts, state.head)
            BY <1>0, <3>1, <3>2 DEF PrefixesOK, PrefixOK
        <3>4. /\ exposed'[i].ordinal - 1 = state.attempts
              /\ exposed'[i].predecessor = state.head
            <4>1. exposed'[i] = e
                BY <2>2, <2>3
            <4>2. state.attempts \in Nat
                BY <1>0 DEF State
            <4> QED
                BY <2>1, <4>1, <4>2
        <3> QED
            BY <2>1, <3>3, <3>4
    <2>4. CASE i # Len(exposed) + 1
        <3>1. i \in 1..Len(exposed) /\ exposed'[i] = exposed[i]
            BY <1>0, <2>2, <2>4
        <3> QED
            BY <1>1, <1>2, <2>1, <3>1
    <2> QED
        BY <2>3, <2>4
<1>4. CASE \E d \in Digest : AcceptDigest(d, "ok")
    <2>1. PICK d \in Digest :
             /\ phase = "consume" /\ ~poisoned /\ exposed' = exposed
             /\ acks' = Append(acks, [ordinal |-> state.attempts, digest |-> d])
        BY <1>4, AcceptFacts
    <2>2. PICK a : a = [ordinal |-> state.attempts, digest |-> d]
        OBVIOUS
    <2>3. /\ Len(acks') = Len(acks) + 1
          /\ \A x \in 1..Len(acks) : acks'[x] = acks[x]
          /\ acks'[Len(acks) + 1] = a /\ a.ordinal = state.attempts
        <3>1. a \in Ack /\ a.ordinal = state.attempts
            BY <1>0, <2>2 DEF Ack, State
        <3> QED
            BY <1>0, <2>1, <2>2, <3>1
    <2>4. CASE j = Len(acks) + 1
        <3>1. state.attempts = ReplayedTo(synced).attempts /\ state.attempts \in Nat
            BY <1>0, <2>1, HandleReplays DEF State
        <3>2. i \in 1..Len(exposed) /\ exposed[i] \in Exposure
            BY <1>0, <2>1
        <3>3. exposed[i].ordinal <= state.attempts /\ exposed[i].ordinal \in Nat
            BY <3>1, <3>2 DEF IInv, ExposedOK, Below, Exposure
        <3> QED
            BY <1>2, <2>1, <2>3, <2>4, <3>1, <3>3
    <2>5. CASE j # Len(acks) + 1
        <3>1. j \in 1..Len(acks) /\ acks'[j] = acks[j]
            BY <1>0, <2>3, <2>5
        <3> QED
            BY <1>1, <1>2, <2>1, <3>1
    <2> QED
        BY <2>4, <2>5
<1>5. CASE UNCHANGED <<exposed, acks>>
    BY <1>1, <1>2, <1>5
<1> QED
    BY <1>3, <1>4, <1>5, HistoryMoves

-----------------------------------------------------------------------------
(* Fixed runs *)

\* The journal records a fixed run exactly if its replay ends in one.
LEMMA FixedReplays ==
    ASSUME IInv, PrefixesOK
    PROVE  /\ IsFixedRun <=> Replayed.fixed_run
           /\ IsFixedRun => Replayed.setups > 0
<1>1. PrefixOK(Len(journal))
    BY DEF IInv, TypeOK, PrefixesOK
<1> QED
    BY <1>1 DEF PrefixOK, Replayed, IsFixedRun, FixedIn

\* A root becomes a fixed run before anything was exposed.
LEMMA FixedArrives ==
    ASSUME IInv, [Next]_vars, ~IsFixedRun, IsFixedRun'
    PROVE  Len(exposed) = 0 /\ Replayed.attempts = 0
<1>0. /\ Len(journal) \in Nat /\ synced \in 0..Len(journal) /\ journal \in Seq(Entries)
      /\ IInv' /\ Len(exposed) \in Nat
    BY NextPreserves DEF IInv, TypeOK
<1>1. PICK k \in 1..Len(journal') : journal'[k].rec.kind = "fixed"
    BY DEF IsFixedRun
<1>2. ~Shrinks
    BY <1>0, <1>1 DEF Shrinks, IsFixedRun
<1>3. PICK r \in Record : journal' = Append(journal, Entry(r)) /\ synced = Len(journal)
    BY <1>2, JournalMoves DEF Grows
<1>4. /\ Len(journal') = Len(journal) + 1
      /\ \A i \in 1..Len(journal) : journal'[i] = journal[i]
    BY <1>0, <1>3
<1>5. k = Len(journal) + 1
    BY <1>0, <1>1, <1>4 DEF IsFixedRun
<1>6. Valid(IF k - 1 = 0 THEN DefaultState ELSE journal'[k - 1].after, journal'[k].rec)
    BY <1>0, <1>1 DEF IInv, JournalOK, ReplayedTo
<1>7. (IF k - 1 = 0 THEN DefaultState ELSE journal'[k - 1].after) = Replayed
    BY <1>0, <1>4, <1>5 DEF Replayed, ReplayedTo
<1>8. Replayed.attempts = 0
    BY <1>1, <1>6, <1>7 DEF Valid
<1>9. Len(exposed) <= Replayed.attempts
    BY <1>3 DEF IInv, ExposedOK, Replayed
<1> QED
    BY <1>0, <1>8, <1>9

\* Only a fixed setup makes a root a fixed run.
LEMMA FixedGrows ==
    ASSUME IInv, NEW r \in Record, journal' = Append(journal, Entry(r)),
           r.kind # "fixed", IsFixedRun'
    PROVE  IsFixedRun
<1>1. journal \in Seq(Entries) /\ Len(journal) \in Nat
    BY DEF IInv, TypeOK
<1>2. /\ Len(journal') = Len(journal) + 1
      /\ \A i \in 1..Len(journal) : journal'[i] = journal[i]
      /\ journal'[Len(journal) + 1].rec = r
    BY <1>1 DEF Entry
<1>3. PICK k \in 1..Len(journal') : journal'[k].rec.kind = "fixed"
    BY DEF IsFixedRun
<1>4. k \in 1..Len(journal)
    BY <1>1, <1>2, <1>3
<1> QED
    BY <1>2, <1>3, <1>4 DEF IsFixedRun

\* A handle whose journal is a fixed run cannot begin another setup.
LEMMA FixedBeginsOnce ==
    ASSUME IInv, PrefixesOK, NEW n \in RowRequests, NEW fixed \in BOOLEAN,
           BeginFor(n, fixed, "ok")
    PROVE  ~IsFixedRun
<1>1. phase = "open" /\ ~poisoned /\ (~state.fixed_run \/ state.setups = 0)
    BY BeginFacts
<1>2. state.fixed_run = Replayed.fixed_run /\ state.setups = Replayed.setups
    BY <1>1, HandleReplays
<1>3. Replayed.setups \in Nat
    BY <1>1, HandleReplays DEF State
<1> QED
    BY <1>1, <1>2, <1>3, FixedReplays

\* A step that leaves the histories alone keeps the chain of a fixed run.
LEMMA ChainKept ==
    ASSUME IInv, FixedOK, [Next]_vars, UNCHANGED <<exposed, acks>>, IsFixedRun'
    PROVE  \A i \in 1..Len(exposed') : Chained(i)'
<1>1. CASE IsFixedRun
    BY <1>1 DEF FixedOK, Chained
<1>2. CASE ~IsFixedRun
    <2>1. Len(exposed) = 0
        BY <1>2, FixedArrives
    <2> QED
        BY <2>1
<1> QED
    BY <1>1, <1>2

\* Where a step that leaves the histories alone can lead a pool in use.
LEMMA QuietPool ==
    ASSUME IInv, PrefixesOK, FixedOK, [Next]_vars, UNCHANGED <<exposed, acks>>,
           IsFixedRun', ~Stopped'
    PROVE  \/ \E n \in RowRequests, fixed \in BOOLEAN : BeginFor(n, fixed, "ok")
           \/ /\ IsFixedRun /\ ~Stopped
              /\ UNCHANGED <<state, before>>
              /\ phase' = "consume" <=> phase = "consume"
<1>0. phase' \in {"setup", "pool", "consume"} /\ ~poisoned'
    BY NextPreserves DEF IInv, TypeOK, Stopped, Phases
<1>1. CASE Install \/ InstallFails \/ OpenHeader \/ ReplayRecord \/ OpenFails \/ OpenDone
           \/ Close \/ PowerLoss \/ BootstrapFails \/ DropPool \/ Stop
    BY <1>0, <1>1 DEF Install, InstallFails, OpenHeader, ReplayRecord, OpenFails, OpenDone,
                Close, PowerLoss, BootstrapFails, DropPool, Stop, DropHandle, handle
<1>2. CASE \E n \in RowRequests, fixed \in BOOLEAN, io \in Outcome : BeginFor(n, fixed, io)
    BY <1>0, <1>2 DEF BeginFor
<1>3. CASE BootstrapDone \/ (\E n \in AttemptSizes : AttemptRefused(n)) \/ UNCHANGED vars
    <2>1. /\ UNCHANGED <<state, before, journal>>
          /\ ~poisoned
          /\ phase \in {"setup", "pool", "consume"}
          /\ phase' = "consume" <=> phase = "consume"
        <3>1. CASE BootstrapDone
            BY <1>0, <3>1 DEF BootstrapDone, disk
        <3>2. CASE \E n \in AttemptSizes : AttemptRefused(n)
            <4>1. PICK n \in AttemptSizes : AttemptRefused(n)
                BY <3>2
            <4>2. /\ phase = "pool" /\ UNCHANGED <<state, before, journal, phase>>
                  /\ poisoned' = (poisoned \/ Epilogue(state, TRUE, state.head))
                BY <4>1 DEF AttemptRefused, disk
            <4> QED
                BY <1>0, <4>2
        <3>3. CASE UNCHANGED vars
            BY <1>0, <3>3 DEF vars
        <3> QED
            BY <1>3, <3>1, <3>2, <3>3
    <2>2. IsFixedRun
        BY <2>1 DEF IsFixedRun
    <2> QED
        BY <2>1, <2>2 DEF Stopped
<1>4. CASE (\E n \in AttemptSizes, io \in Outcome : AttemptBurn(n, io))
           \/ \E d \in Digest, io \in Outcome : AcceptDigest(d, io)
    <2>1. (\E n \in AttemptSizes : AttemptBurn(n, "ok"))
              \/ \E d \in Digest : AcceptDigest(d, "ok")
        BY <1>0, <1>4 DEF AttemptBurn, AcceptDigest, AppendRecord
    <2>2. exposed \in Seq(Exposure) /\ acks \in Seq(Ack) /\ state \in State
        BY DEF IInv, TypeOK
    <2>3. \A d \in Digest : [ordinal |-> state.attempts, digest |-> d] \in Ack
        BY <2>2 DEF Ack, State
    <2>4. \A e \in Exposure : Append(exposed, e) # exposed
        <3>1. \A e \in Exposure : Len(Append(exposed, e)) = Len(exposed) + 1
            BY <2>2
        <3> QED
            BY <2>2, <3>1
    <2>5. \A a \in Ack : Append(acks, a) # acks
        <3>1. \A a \in Ack : Len(Append(acks, a)) = Len(acks) + 1
            BY <2>2
        <3> QED
            BY <2>2, <3>1
    <2> QED
        BY <2>1, <2>3, <2>4, <2>5, BurnFacts, AcceptFacts
<1>5. CASE (\E failed \in BOOLEAN : ConsumerDeclines(failed)) \/ \E d \in Digest : AcceptRefused(d)
    <2>1. /\ phase = "consume" /\ journal' = journal
          /\ \E failed \in BOOLEAN :
                poisoned' = (poisoned \/ Epilogue(state, failed, before.head))
        BY <1>5 DEF ConsumerDeclines, AcceptRefused, disk
    <2>2. IsFixedRun
        BY <2>1 DEF IsFixedRun
    <2>3. ~poisoned
        BY <2>1 DEF IInv, HandleOK
    <2>4. state.fixed_run
        BY <2>1, <2>2, <2>3, FixedReplays, HandleReplays
    <2>5. before.head = state.head
        BY <2>1, <2>2, <2>3 DEF FixedOK, Stopped
    <2>6. poisoned'
        BY <2>1, <2>4, <2>5 DEF Epilogue
    <2> QED
        BY <1>0, <2>6
<1> QED
    BY <1>1, <1>2, <1>3, <1>4, <1>5 DEF Next

\* Every step keeps a fixed run's chain of attempts and reports.
LEMMA FixedStep ==
    ASSUME IInv, PrefixesOK, AcksOK, FixedOK, [Next]_vars
    PROVE  FixedOK'
<1>0. /\ exposed \in Seq(Exposure) /\ acks \in Seq(Ack) /\ state \in State
      /\ Len(exposed) \in Nat /\ Len(acks) \in Nat /\ state.attempts \in Nat
    BY DEF IInv, TypeOK, State
<1>1. CASE \E n \in AttemptSizes : AttemptBurn(n, "ok")
    <2>1. PICK n \in AttemptSizes, e \in Exposure :
             /\ phase = "pool" /\ ~poisoned /\ phase' = "consume" /\ ~poisoned'
             /\ before' = state /\ acks' = acks
             /\ state'.attempts = state.attempts + 1 /\ state'.head = state.head
             /\ journal' = Append(journal, Entry(BurnRecord(state, 3 * n)))
             /\ exposed' = Append(exposed, e)
             /\ e.ordinal = state.attempts + 1 /\ e.predecessor = state.head
        BY <1>1, BurnFacts
    <2>2. SUFFICES ASSUME IsFixedRun' PROVE FixedOK'
        BY DEF FixedOK
    <2>3. IsFixedRun
        <3>1. BurnRecord(state, 3 * n) \in Record /\ BurnRecord(state, 3 * n).kind # "fixed"
            BY RecordsTyped DEF BurnRecord
        <3> QED
            BY <2>1, <2>2, <3>1, FixedGrows
    <2>4. /\ Len(exposed') = Len(exposed) + 1
          /\ \A x \in 1..Len(exposed) : exposed'[x] = exposed[x]
          /\ exposed'[Len(exposed) + 1] = e
        BY <1>0, <2>1
    <2>5. /\ \A i \in 1..Len(exposed) : Chained(i)
          /\ Len(exposed) = state.attempts
          /\ Len(acks) = Len(exposed)
          /\ Len(acks) > 0 => acks[Len(acks)] = [ordinal |-> state.attempts,
                                                 digest |-> state.head]
        BY <2>1, <2>3 DEF FixedOK, Stopped
    <2>6. ASSUME NEW i \in 1..Len(exposed') PROVE Chained(i)'
        <3>1. CASE i = Len(exposed) + 1
            <4>1. /\ exposed'[i].ordinal = i /\ exposed'[i].predecessor = state.head
                  /\ i - 1 = state.attempts /\ i - 1 = Len(acks) /\ i > 1 => Len(acks) > 0
                BY <1>0, <2>1, <2>4, <2>5, <3>1
            <4> QED
                BY <1>0, <2>1, <2>5, <4>1 DEF Chained
        <3>2. CASE i # Len(exposed) + 1
            <4>1. i \in 1..Len(exposed) /\ exposed'[i] = exposed[i]
                BY <1>0, <2>4, <3>2
            <4> QED
                BY <2>1, <2>5, <4>1 DEF Chained
        <3> QED
            BY <3>1, <3>2
    <2>7. /\ Len(exposed') = state'.attempts
          /\ Len(acks') = Len(exposed') - 1
          /\ before'.head = state'.head
        BY <1>0, <2>1, <2>4, <2>5
    <2> QED
        BY <2>1, <2>6, <2>7 DEF FixedOK
<1>2. CASE \E d \in Digest : AcceptDigest(d, "ok")
    <2>1. PICK d \in Digest :
             /\ phase = "consume" /\ ~poisoned /\ phase' = "pool" /\ ~poisoned'
             /\ exposed' = exposed
             /\ acks' = Append(acks, [ordinal |-> state.attempts, digest |-> d])
             /\ state'.attempts = state.attempts /\ state'.head = d
             /\ journal' = Append(journal, Entry(AcceptRecord(state, d)))
        BY <1>2, AcceptFacts
    <2>2. SUFFICES ASSUME IsFixedRun' PROVE FixedOK'
        BY DEF FixedOK
    <2>3. IsFixedRun
        <3>1. AcceptRecord(state, d) \in Record /\ AcceptRecord(state, d).kind # "fixed"
            BY RecordsTyped DEF AcceptRecord
        <3> QED
            BY <2>1, <2>2, <3>1, FixedGrows
    <2>4. PICK a : a = [ordinal |-> state.attempts, digest |-> d]
        OBVIOUS
    <2>5. /\ Len(acks') = Len(acks) + 1
          /\ \A x \in 1..Len(acks) : acks'[x] = acks[x]
          /\ acks'[Len(acks) + 1] = a
        <3>1. a \in Ack
            BY <1>0, <2>4 DEF Ack
        <3> QED
            BY <1>0, <2>1, <2>4, <3>1
    <2>6. /\ \A i \in 1..Len(exposed) : Chained(i)
          /\ Len(exposed) = state.attempts
          /\ Len(acks) = Len(exposed) - 1
        BY <2>1, <2>3 DEF FixedOK, Stopped
    <2>7. ASSUME NEW i \in 1..Len(exposed) PROVE Chained(i)'
        <3>1. exposed[i].ordinal = i
            BY <2>6 DEF Chained
        <3>2. ASSUME i > 1
              PROVE  /\ Len(acks) >= i - 1 /\ i - 1 \in 1..Len(acks)
                     /\ acks[i - 1] = [ordinal |-> i - 1, digest |-> exposed[i].predecessor]
            BY <1>0, <2>6, <3>2 DEF Chained
        <3>3. ASSUME i > 1
              PROVE  /\ Len(acks') >= i - 1
                     /\ acks'[i - 1] = [ordinal |-> i - 1, digest |-> exposed[i].predecessor]
            BY <1>0, <2>5, <3>2, <3>3
        <3> QED
            BY <2>1, <3>1, <3>3 DEF Chained
    <2>8. /\ Len(exposed') = state'.attempts
          /\ Len(acks') = Len(exposed')
          /\ acks'[Len(acks')] = [ordinal |-> state'.attempts, digest |-> state'.head]
        BY <1>0, <2>1, <2>4, <2>5, <2>6
    <2> QED
        BY <2>1, <2>7, <2>8 DEF FixedOK
<1>3. CASE UNCHANGED <<exposed, acks>>
    <2>1. SUFFICES ASSUME IsFixedRun' PROVE FixedOK'
        BY DEF FixedOK
    <2>2. \A i \in 1..Len(exposed') : Chained(i)'
        BY <1>3, <2>1, ChainKept
    <2>3. CASE Stopped'
        BY <2>2, <2>3 DEF FixedOK
    <2>4. CASE \E n \in RowRequests, fixed \in BOOLEAN : BeginFor(n, fixed, "ok")
        <3>1. /\ phase = "open" /\ ~poisoned /\ phase' = "setup"
              /\ state'.attempts = state.attempts /\ ~IsFixedRun
            BY <2>4, BeginFacts, FixedBeginsOnce
        <3>2. Len(exposed) = 0 /\ state.attempts = 0
            BY <2>1, <3>1, FixedArrives, HandleReplays
        <3>3. Len(acks) = 0
            BY <1>0, <3>2 DEF AcksOK
        <3> QED
            BY <1>3, <2>2, <3>1, <3>2, <3>3 DEF FixedOK
    <2>5. CASE /\ IsFixedRun /\ ~Stopped
               /\ UNCHANGED <<state, before>>
               /\ phase' = "consume" <=> phase = "consume"
        BY <1>3, <2>2, <2>5 DEF FixedOK
    <2> QED
        BY <1>3, <2>1, <2>3, <2>4, <2>5, QuietPool
<1> QED
    BY <1>1, <1>2, <1>3, HistoryMoves

-----------------------------------------------------------------------------
(* Theorems *)

\* A fresh root has no history.
LEMMA HistoryInit == Init => HInv
<1> SUFFICES ASSUME Init
             PROVE  HInv
    OBVIOUS
<1>1. Len(journal) = 0 /\ Len(exposed) = 0 /\ Len(acks) = 0
    BY DEF Init
<1>2. ReplayedTo(0) = DefaultState
    BY DEF ReplayedTo
<1>3. PrefixOK(0)
    <2>1. /\ DefaultState.rows = 0 /\ DefaultState.used = 0 /\ 0 % 3 = 0
          /\ ~DefaultState.fixed_run
        BY DEF DefaultState
    <2> QED
        BY <1>2, <2>1 DEF PrefixOK, FixedIn
<1>4. PrefixesOK
    BY <1>1, <1>3 DEF PrefixesOK
<1>5. PoolOK
    BY DEF Init, PoolOK
<1>6. AcksOK /\ NoRollbackDurable /\ FixedOK
    BY <1>1 DEF Init, AcksOK, NoRollbackDurable, FixedOK, IsFixedRun
<1> QED
    BY <1>4, <1>5, <1>6 DEF HInv

\* Every behaviour of the store stays in the invariant about its histories.
THEOREM HistoryInvariant == Spec => [](IInv /\ HInv)
<1>1. Init => IInv /\ HInv
    BY InitEstablishes, HistoryInit
<1>2. (IInv /\ HInv) /\ [Next]_vars => (IInv /\ HInv)'
    BY NextPreserves, PrefixStep, PoolStep, AcksStep, NoRollbackStep, FixedStep DEF HInv
<1> QED
    BY <1>1, <1>2, PTL DEF Spec

\* An acceptance reported to a caller is never rolled back, also when the
\* process or the machine stops in between (Pool::attempt, append, open).
THEOREM NoRollbackAlways == Spec => []NoRollback
<1>1. IInv /\ HInv => NoRollback
    <2> SUFFICES ASSUME IInv, HInv, NEW i \in 1..Len(exposed), NEW j \in 1..Len(acks),
                        acks[j].ordinal < exposed[i].ordinal
                 PROVE  \E k \in 1..Len(journal) :
                           LET r == journal[k].rec IN
                               /\ r.kind = "accept"
                               /\ r.start \in acks[j].ordinal..(exposed[i].ordinal - 1)
                               /\ r.digest = exposed[i].predecessor
        BY DEF NoRollback
    <2>1. AcceptedIn(synced, acks[j].ordinal, exposed[i].ordinal - 1,
                     exposed[i].predecessor)
        BY DEF HInv, NoRollbackDurable
    <2>2. \A k \in 1..synced : k \in 1..Len(journal)
        BY DEF IInv, TypeOK
    <2> QED
        BY <2>1, <2>2 DEF AcceptedIn
<1> QED
    BY <1>1, HistoryInvariant, PTL

\* In a fixed run every attempt follows an accepted and reported one, on the
\* digest it reported (attempt's epilogue).
THEOREM FixedRunChainAlways == Spec => []FixedRunChain
<1>1. HInv => FixedRunChain
    BY DEF HInv, FixedOK, Chained, FixedRunChain
<1> QED
    BY <1>1, HistoryInvariant, PTL

\* A pool that is not poisoned advertises exactly the rows it still holds, in
\* whole packed elements (Pool::remaining_fp3, zeroize after exposure).
THEOREM RemainingRowsSecretAlways == Spec => []RemainingRowsSecret
<1>1. IInv /\ HInv => RemainingRowsSecret
    <2> SUFFICES ASSUME IInv, HInv, phase = "pool", ~poisoned
                 PROVE  /\ secret = state.used..(state.rows - 1)
                        /\ remaining_fp3 * 3 = state.rows - state.used
        BY DEF RemainingRowsSecret
    <2>1. secret = state.used..(state.rows - 1)
        BY DEF HInv, PoolOK
    <2>2. PrefixOK(Len(journal))
        BY DEF IInv, TypeOK, HInv, PrefixesOK
    <2>3. state.rows % 3 = 0 /\ state.used % 3 = 0
        BY <2>2, HandleReplays DEF PrefixOK, Replayed
    <2>4. state.rows \in Nat /\ state.used \in Nat
        BY HandleReplays DEF State
    <2>5. ((state.rows - state.used) \div 3) * 3 = state.rows - state.used
        BY <2>3, <2>4
    <2> QED
        BY <2>1, <2>5 DEF remaining_fp3
<1> QED
    BY <1>1, HistoryInvariant, PTL

\* A fixed run that has stopped stays stopped: no reopening, no new setup and no
\* loss of power lets it expose another row (open's last check, append's poison).
THEOREM FixedRunNeverResumesAlways == Spec => FixedRunNeverResumes
<1>1. (IInv /\ HInv) /\ [Next]_vars =>
         [IsFixedRun /\ Stopped =>
             /\ Stopped'
             /\ UNCHANGED <<exposed, acks>>
             /\ exposed # <<>> => IsFixedRun']_vars
    <2> SUFFICES ASSUME IInv, HInv, [Next]_vars, IsFixedRun, Stopped
                 PROVE  /\ Stopped'
                        /\ UNCHANGED <<exposed, acks>>
                        /\ exposed # <<>> => IsFixedRun'
        OBVIOUS
    <2>0. /\ Len(journal) \in Nat /\ synced \in 0..Len(journal) /\ Len(journal) <= synced + 1
          /\ exposed \in Seq(Exposure) /\ IInv' /\ synced' \in 0..Len(journal')
          /\ Len(journal') \in Nat /\ Len(exposed) \in Nat
        BY NextPreserves DEF IInv, TypeOK, FileOK
    <2>1. UNCHANGED <<exposed, acks>>
        <3>1. ~\E n \in AttemptSizes : AttemptBurn(n, "ok")
            BY BurnFacts DEF Stopped
        <3>2. ~\E d \in Digest : AcceptDigest(d, "ok")
            BY AcceptFacts DEF Stopped
        <3> QED
            BY <3>1, <3>2, HistoryMoves
    <2>2. ASSUME exposed # <<>> PROVE IsFixedRun'
        <3>1. PICK k \in 1..Len(journal) : journal[k].rec.kind = "fixed"
            BY DEF IsFixedRun
        <3>2. Len(exposed) > 0 /\ Len(exposed) <= ReplayedTo(synced).attempts
            BY <2>0, <2>2 DEF IInv, ExposedOK
        <3>3. k # synced + 1
            <4>1. SUFFICES ASSUME k = synced + 1 PROVE FALSE
                OBVIOUS
            <4>2. Valid(ReplayedTo(synced), journal[k].rec)
                <5>1. k - 1 = synced
                    BY <2>0, <4>1
                <5> QED
                    BY <5>1 DEF IInv, JournalOK
            <4>3. ReplayedTo(synced).attempts = 0
                BY <3>1, <4>2 DEF Valid
            <4> QED
                BY <2>0, <3>2, <4>3
        <3>4. k \in 1..synced
            BY <2>0, <3>3
        <3>5. k \in 1..Len(journal') /\ journal'[k] = journal[k]
            BY <2>0, <3>4, DurableKept
        <3> QED
            BY <3>1, <3>5 DEF IsFixedRun
    <2>3. Stopped'
        <3>1. SUFFICES ASSUME ~Stopped' PROVE FALSE
            OBVIOUS
        <3>2. CASE IsFixedRun'
            <4>1. ~\E n \in RowRequests, fixed \in BOOLEAN : BeginFor(n, fixed, "ok")
                BY FixedBeginsOnce DEF HInv
            <4> QED
                BY <2>1, <3>1, <3>2, <4>1, QuietPool DEF HInv
        <3>3. CASE ~IsFixedRun'
            <4>1. journal' # journal
                BY <3>3 DEF IsFixedRun
            <4>2. ~Grows
                <5>1. ASSUME NEW r \in Record, journal' = Append(journal, Entry(r))
                      PROVE  IsFixedRun'
                    <6>1. /\ Len(journal') = Len(journal) + 1
                          /\ \A i \in 1..Len(journal) : journal'[i] = journal[i]
                        BY <5>1 DEF IInv, TypeOK
                    <6> QED
                        BY <2>0, <6>1 DEF IsFixedRun
                <5> QED
                    BY <3>3, <5>1 DEF Grows
            <4>3. PowerLoss
                <5>1. \/ \E n \in RowRequests, fixed \in BOOLEAN, io \in Outcome :
                            BeginFor(n, fixed, io)
                      \/ \E n \in AttemptSizes, io \in Outcome : AttemptBurn(n, io)
                      \/ \E d \in Digest, io \in Outcome : AcceptDigest(d, io)
                      \/ PowerLoss
                    BY <4>1 DEF Next, Install, InstallFails, OpenHeader, ReplayRecord, OpenFails,
                       OpenDone, Close, BootstrapDone, BootstrapFails, DropPool, Stop,
                       AttemptRefused, ConsumerDeclines, AcceptRefused, disk, vars
                <5>2. ASSUME NEW s, NEW r \in Record, NEW io, AppendRecord(s, r, io),
                             phase \in {"open", "pool", "consume"}
                      PROVE  Grows
                    BY <4>1, <5>2, AppendsWhenDurable DEF Grows
                <5>3. ~\E n \in RowRequests, fixed \in BOOLEAN, io \in Outcome :
                          BeginFor(n, fixed, io)
                    BY <4>2, <5>2, RecordsTyped DEF BeginFor
                <5>4. ~\E n \in AttemptSizes, io \in Outcome : AttemptBurn(n, io)
                    BY <4>2, <5>2, RecordsTyped DEF AttemptBurn
                <5>5. ~\E d \in Digest, io \in Outcome : AcceptDigest(d, io)
                    BY <4>2, <5>2, RecordsTyped DEF AcceptDigest
                <5> QED
                    BY <5>1, <5>3, <5>4, <5>5
            <4>4. phase' = "closed"
                BY <4>3 DEF PowerLoss, DropHandle
            <4> QED
                BY <3>1, <4>4 DEF Stopped
        <3> QED
            BY <3>2, <3>3
    <2> QED
        BY <2>1, <2>2, <2>3
<1> QED
    BY <1>1, HistoryInvariant, PTL DEF Spec, FixedRunNeverResumes
=============================================================================
