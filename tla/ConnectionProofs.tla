-------------------------- MODULE ConnectionProofs --------------------------
(***************************************************************************)
(* Proofs about the connections of the PCG: single use of correlations, of *)
(* keys and of identities, write-ahead journalling, and the accounts that  *)
(* a journal and a handle keep of one another, for any number of           *)
(* connections, stages, keys and records, and any number of crashes, torn  *)
(* appends, failed syncs and losses of power.                              *)
(*                                                                         *)
(* The argument: what was synced of a linked journal is never changed, a   *)
(* marker that is durable stays so, and an identity whose handle was ever  *)
(* given out keeps a linked journal, so it never gets a second handle.     *)
(* While a handle lives, what it exposed lies below its consumed mark or   *)
(* above what it has not reserved, and its counters add up.                *)
(*                                                                         *)
(* The accounts need a second invariant, AInv, about a journal's records:  *)
(* every total is a sum over a set of journal positions, and a step adds   *)
(* one record to a journal or none.                                        *)
(***************************************************************************)
EXTENDS Connection, TLAPS, SequenceTheorems, SumTheorems

(* Types *)

Marker == {"none", "volatile", "durable"}

Record == [kind : Kinds, stage : Stages \cup {None}, start : Nat, count : Nat,
           key : Keys \cup Stages \cup Nat \cup {None}, tag : Tags \cup {None},
           glued : BOOLEAN]

Journal == [exists : BOOLEAN, linked : BOOLEAN, log : Seq(Record), synced : Nat, torn : BOOLEAN]

Counters == [generated : Nat, consumed : Nat, reserved : Nat, burned : Nat, available : Nat]

HandleType ==
    [state : {"none", "open", "active", "terminal"}, checked : BOOLEAN, recorded : BOOLEAN,
     response : Keys \cup {None}, spent : Nat, frames : Nat, froze : BOOLEAN,
     stages : [Stages -> Counters], activated : [Stages -> Nat],
     domains : SUBSET ((Keys \cup Nat) \X Tags), frozen : Nat, verified : Nat, epoch : Nat,
     seal : [epoch : Nat, first : Nat, count : Nat], fresh : [epoch : Nat, expected : Nat],
     paid : Nat, auxiliary : SUBSET Keys]

Receipt == [conn : Conns, epoch : 1..MaxEpoch, auxiliary : Keys, expected : Nat]

Exposure == [conn : Conns, at : Nat \ {0}, rec : Record]

Types ==
    /\ markers \in [Keys -> Marker]
    /\ used \in [Keys -> {0, 1}]
    /\ journals \in [Conns -> Journal]
    /\ handles \in [Conns -> HandleType]
    /\ receipts \subseteq Receipt
    /\ exposed \subseteq Exposure
    /\ opened \in [Conns -> {0, 1}]
    /\ burned \subseteq Conns

-----------------------------------------------------------------------------
(* The inductive invariant *)

\* A used key has a durable marker.
UsedOK == \A k \in Keys : used[k] = 1 => markers[k] = "durable"

\* An identity whose handle was given out has a journal no loss of power removes.
OpenedOK(c) ==
    opened[c] = 1 =>
        /\ journals[c].exists /\ journals[c].linked
        /\ journals[c].synced >= 1 /\ journals[c].log[1].kind = "OPEN"

JournalOK(c) ==
    /\ journals[c].synced <= Len(journals[c].log)
    /\ handles[c].state # "none" => opened[c] = 1
    /\ OpenedOK(c)

\* The TERMINAL of a second opener is durable, and readable if anybody reads it.
BurnedOK(c) ==
    c \in burned =>
        /\ journals[c].exists /\ journals[c].linked
        /\ opened[c] = 1 =>
              \E i \in 2..journals[c].synced :
                  journals[c].log[i].kind = "TERMINAL" /\ ~journals[c].log[i].glued

\* A method runs on a live handle, and what it may expose correlations for is
\* burned durably.
Authorized(m, c, h) ==
    /\ h.checked => h.state # "none"
    /\ h.response # None => m[h.response] = "durable"
    /\ h.fresh.epoch # 0 => h.fresh.epoch \in 1..MaxEpoch /\ m[<<c, h.fresh.epoch>>] = "durable"

ReceiptsOK == \A r \in receipts : markers[<<r.conn, r.epoch>>] = "durable"

\* The counters of every stage add up.
Balanced(h) ==
    \A s \in Stages :
        h.stages[s].consumed + h.stages[s].reserved + h.stages[s].burned + h.stages[s].available
            = h.stages[s].generated

\* Where a record's range lies in the stage it was taken from.
Covers(h, r) ==
    /\ r.kind # "RESERVED_AS_BASE" =>
          /\ r.start + r.count <= h.stages[r.stage].consumed
          /\ <<r.key, r.tag>> \in h.domains
    /\ r.kind = "RESERVED_AS_BASE" =>
          /\ h.stages[r.stage].generated <= r.start + h.stages[r.stage].reserved
          /\ r.start + r.count <= h.stages[r.stage].generated
          /\ r.key = None

\* An exposed range is journalled durably, was paid for by a burned key, and lies
\* where the handle's counters say if the handle still lives.
ExposureOK(e) ==
    /\ opened[e.conn] = 1
    /\ e.at <= journals[e.conn].synced
    /\ [journals[e.conn].log[e.at] EXCEPT !.glued = FALSE] = e.rec
    /\ e.rec.kind \in {"ALLOCATE", "SETTLEMENT_ALLOCATE", "RESERVED_AS_BASE"}
    /\ e.rec.stage \in Stages /\ e.rec.count >= 1
    /\ e.rec.kind = "ALLOCATE" => e.rec.key \in Keys /\ markers[e.rec.key] = "durable"
    /\ e.rec.kind = "SETTLEMENT_ALLOCATE" =>
          e.rec.key \in 1..MaxEpoch /\ markers[<<e.conn, e.rec.key>>] = "durable"
    /\ handles[e.conn].state # "none" => Covers(handles[e.conn], e.rec)

IInv ==
    /\ Types
    /\ UsedOK
    /\ ReceiptsOK
    /\ \A c \in Conns : JournalOK(c) /\ BurnedOK(c)
    /\ \A c \in Conns : Authorized(markers, c, handles[c]) /\ Balanced(handles[c])
    /\ \A e \in exposed : ExposureOK(e)
    /\ RangesDisjoint

-----------------------------------------------------------------------------
(* Markers *)

\* A step of the burn store: durable markers stay, used keys have one.
AuthKept ==
    /\ markers' \in [Keys -> Marker] /\ used' \in [Keys -> {0, 1}]
    /\ \A k \in Keys : markers[k] = "durable" => markers'[k] = "durable"
    /\ UsedOK'

\* A binding that is reserved has every key burned durably, for the first time.
LEMMA ReserveKeeps ==
    ASSUME IInv, NEW b \in Seq(Keys), Reserve(b)
    PROVE  AuthKept /\ \A i \in 1..Len(b) : markers'[b[i]] = "durable"
<1>1. markers \in [Keys -> Marker] /\ used \in [Keys -> {0, 1}] /\ UsedOK
    BY DEF IInv, Types
<1>2. Range(b) = {b[i] : i \in 1..Len(b)} /\ \A i \in 1..Len(b) : b[i] \in Keys
    BY RangeEquality, ElementOfSeq
<1>3. PICK D \in SUBSET Keys : D = Range(b)
    BY <1>2
<1>4. \A k \in D : markers[k] = "none" /\ used[k] = 0
    BY <1>1, <1>2, <1>3 DEF Reserve, UsedOK
<1>5. /\ markers' = [k \in Keys |->
                       IF k \in D \/ (D # {} /\ markers[k] = "volatile") THEN "durable"
                       ELSE markers[k]]
      /\ used' = [k \in Keys |-> IF k \in D THEN used[k] + 1 ELSE used[k]]
    BY <1>3 DEF Reserve, DirectorySynced
<1>6. \A k \in Keys : used'[k] = IF k \in D THEN 1 ELSE used[k]
    BY <1>4, <1>5
<1>7. used' \in [Keys -> {0, 1}]
    BY <1>1, <1>5, <1>6
<1>8. markers' \in [Keys -> Marker]
    BY <1>1, <1>5 DEF Marker
<1>9. \A k \in Keys : markers[k] = "durable" => markers'[k] = "durable"
    BY <1>5
<1>10. \A k \in D : markers'[k] = "durable"
    BY <1>5
<1>11. UsedOK'
    BY <1>1, <1>6, <1>9, <1>10 DEF UsedOK
<1> QED
    BY <1>2, <1>3, <1>7, <1>8, <1>9, <1>10, <1>11 DEF AuthKept

\* A reservation that fails uses nothing and takes no durable marker away.
LEMMA ReserveFailsKeeps ==
    ASSUME IInv, NEW b \in Seq(Keys), ReserveFails(b)
    PROVE  AuthKept
<1>1. /\ markers \in [Keys -> Marker] /\ used \in [Keys -> {0, 1}] /\ UsedOK
      /\ used' = used
    BY DEF IInv, Types, ReserveFails
<1>2. PICK n \in 0..(Len(b) - 1) :
          \/ markers' = DirectorySynced(FirstKeys(b, n))
          \/ /\ markers[b[n + 1]] = "none"
             /\ \E left \in Marker :
                   markers' = [DirectorySynced(FirstKeys(b, n)) EXCEPT ![b[n + 1]] = left]
    BY DEF ReserveFails, Marker
<1>3. PICK D, g : D = FirstKeys(b, n) /\ g = DirectorySynced(D)
    OBVIOUS
<1>4. /\ g \in [Keys -> Marker]
      /\ \A k \in Keys : markers[k] = "durable" => g[k] = "durable"
    BY <1>1, <1>3 DEF DirectorySynced, Marker
<1>5. CASE markers' = g
    BY <1>1, <1>4, <1>5 DEF AuthKept, UsedOK
<1>6. CASE \E left \in Marker : markers' = [g EXCEPT ![b[n + 1]] = left]
    <2>1. PICK left \in Marker : markers' = [g EXCEPT ![b[n + 1]] = left]
        BY <1>6
    <2>2. CASE markers[b[n + 1]] = "none"
        <3>1. markers' \in [Keys -> Marker]
            BY <1>4, <2>1
        <3>2. \A k \in Keys : markers[k] = "durable" => markers'[k] = "durable"
            BY <1>4, <2>1, <2>2
        <3> QED
            BY <1>1, <3>1, <3>2 DEF AuthKept, UsedOK
    <2>3. CASE markers' = g
        BY <1>5, <2>3
    <2> QED
        BY <1>2, <1>3, <2>2, <2>3
<1> QED
    BY <1>2, <1>3, <1>5, <1>6

\* A loss of power takes only markers that were not synced.
LEMMA MarkersLostKeeps ==
    ASSUME IInv, MarkersLost
    PROVE  AuthKept
<1>1. /\ markers \in [Keys -> Marker] /\ used \in [Keys -> {0, 1}] /\ UsedOK
      /\ used' = used
    BY DEF IInv, Types, MarkersLost
<1>2. PICK lost \in SUBSET {k \in Keys : markers[k] = "volatile"} :
          markers' = [k \in Keys |->
              IF k \in lost THEN "none"
              ELSE IF markers[k] = "volatile" THEN "durable" ELSE markers[k]]
    BY DEF MarkersLost
<1>3. markers' \in [Keys -> Marker]
    BY <1>1, <1>2 DEF Marker
<1>4. \A k \in Keys : markers[k] = "durable" => markers'[k] = "durable"
    BY <1>1, <1>2
<1> QED
    BY <1>1, <1>3, <1>4 DEF AuthKept, UsedOK

\* A step that leaves the burn store.
LEMMA AuthUnchanged ==
    ASSUME IInv, UNCHANGED authVars
    PROVE  AuthKept
BY DEF IInv, Types, AuthKept, UsedOK, authVars

-----------------------------------------------------------------------------
(* Journals *)

\* What j keeps of a journal i, if i is one that no loss of power removes.
Retains(i, j) ==
    /\ j \in Journal /\ j.synced <= Len(j.log)
    /\ i.exists /\ i.linked =>
          /\ j.exists /\ j.linked
          /\ j.synced >= i.synced
          /\ \A k \in 1..i.synced : j.log[k] = i.log[k]

\* Two steps of a journal lose no more than each.
LEMMA RetainsTransitive ==
    ASSUME NEW i \in Journal, NEW j \in Journal, NEW w, Retains(i, j), Retains(j, w)
    PROVE  Retains(i, w)
<1>1. i.synced \in Nat /\ j.synced \in Nat /\ w.synced \in Nat
    BY DEF Retains, Journal
<1>2. i.exists /\ i.linked => \A k \in 1..i.synced : k \in 1..j.synced
    BY <1>1 DEF Retains
<1> QED
    BY <1>1, <1>2 DEF Retains

\* A record, as an append leaves it in the file.
LEMMA RecFacts ==
    ASSUME NEW r \in Record, NEW t \in BOOLEAN
    PROVE  /\ [r EXCEPT !.glued = t] \in Record
           /\ [r EXCEPT !.glued = t].kind = r.kind
           /\ [r EXCEPT !.glued = t].glued = t
           /\ ~r.glued => [[r EXCEPT !.glued = t] EXCEPT !.glued = FALSE] = r
<1>1. \A x \in Record : x = [kind |-> x.kind, stage |-> x.stage, start |-> x.start,
                             count |-> x.count, key |-> x.key, tag |-> x.tag, glued |-> x.glued]
    BY DEF Record
<1>2. PICK x, y : x = [r EXCEPT !.glued = t] /\ y = [x EXCEPT !.glued = FALSE]
    OBVIOUS
<1>3. /\ x \in Record /\ x.kind = r.kind /\ x.stage = r.stage /\ x.start = r.start
      /\ x.count = r.count /\ x.key = r.key /\ x.tag = r.tag /\ x.glued = t
    BY <1>2 DEF Record
<1>4. /\ y \in Record /\ y.kind = r.kind /\ y.stage = r.stage /\ y.start = r.start
      /\ y.count = r.count /\ y.key = r.key /\ y.tag = r.tag /\ y.glued = FALSE
    BY <1>2, <1>3 DEF Record
<1>5. ASSUME ~r.glued PROVE y = r
    <2>1. r.glued = FALSE
        BY <1>5 DEF Record
    <2>2. r = [kind |-> r.kind, stage |-> r.stage, start |-> r.start, count |-> r.count,
               key |-> r.key, tag |-> r.tag, glued |-> r.glued]
        BY <1>1
    <2>3. y = [kind |-> y.kind, stage |-> y.stage, start |-> y.start, count |-> y.count,
               key |-> y.key, tag |-> y.tag, glued |-> y.glued]
        BY <1>1, <1>4
    <2> QED
        BY <1>4, <2>1, <2>2, <2>3
<1> QED
    BY <1>2, <1>3, <1>5

\* What an append leaves in the file, however it ends.
LEMMA AppendedFacts ==
    ASSUME NEW j \in Journal, j.synced <= Len(j.log), NEW r \in Record, NEW o \in Outcomes,
           NEW w, w = Appended(j, r, o)
    PROVE  /\ Retains(j, w)
           /\ w.exists = j.exists /\ w.linked = j.linked
           /\ o = "ok" => /\ w.synced = Len(j.log) + 1
                          /\ w.log[Len(j.log) + 1] = [r EXCEPT !.glued = j.torn]
<1>1. PICK x, log : x = [r EXCEPT !.glued = j.torn] /\ log = Append(j.log, x)
    OBVIOUS
<1>2. x \in Record /\ j.log \in Seq(Record) /\ j.synced \in Nat /\ Len(j.log) \in Nat
    BY <1>1, RecFacts, LenProperties DEF Journal
<1>3. /\ log \in Seq(Record) /\ Len(log) = Len(j.log) + 1 /\ log[Len(j.log) + 1] = x
      /\ \A k \in 1..Len(j.log) : log[k] = j.log[k]
    BY <1>1, <1>2, AppendProperties
<1>4. \A k \in 1..j.synced : k \in 1..Len(j.log)
    BY <1>2
<1>5. PICK g : g = Written(j, r)
    OBVIOUS
<1>6. g = [j EXCEPT !.log = log, !.torn = FALSE]
    BY <1>1, <1>5 DEF Written
<1>7. /\ g \in Journal /\ g.exists = j.exists /\ g.linked = j.linked /\ g.log = log
      /\ g.synced = j.synced
    BY <1>3, <1>6 DEF Journal
<1>8. CASE o = "ok"
    <2>1. PICK n \in Nat : n = Len(g.log)
        BY <1>2, <1>3, <1>7
    <2>2. w = [g EXCEPT !.synced = n]
        BY <1>5, <1>8, <2>1 DEF Appended, Synced
    <2>3. /\ w \in Journal /\ w.exists = j.exists /\ w.linked = j.linked /\ w.log = log
          /\ w.synced = n
        BY <1>7, <2>2 DEF Journal
    <2> QED
        BY <1>1, <1>2, <1>3, <1>4, <1>7, <2>1, <2>3 DEF Retains
<1>9. CASE o # "ok" /\ w = g
    BY <1>2, <1>3, <1>4, <1>7, <1>9 DEF Retains
<1>10. CASE o # "ok" /\ w = [g EXCEPT !.torn = TRUE]
    <2>1. /\ w \in Journal /\ w.exists = j.exists /\ w.linked = j.linked /\ w.log = log
          /\ w.synced = j.synced
        BY <1>7, <1>10 DEF Journal
    <2> QED
        BY <1>2, <1>3, <1>4, <1>10, <2>1 DEF Retains
<1>11. CASE o # "ok" /\ w = j
    BY <1>2, <1>11 DEF Retains
<1>12. CASE o # "ok" /\ w = [j EXCEPT !.torn = TRUE]
    <2>1. /\ w \in Journal /\ w.exists = j.exists /\ w.linked = j.linked /\ w.log = j.log
          /\ w.synced = j.synced
        BY <1>12 DEF Journal
    <2> QED
        BY <1>2, <1>12, <2>1 DEF Retains
<1> QED
    BY <1>5, <1>8, <1>9, <1>10, <1>11, <1>12 DEF Appended

\* burn_existing_journal: the same, and a TERMINAL a reader finds.
LEMMA BurnedFacts ==
    ASSUME NEW j \in Journal, j.synced <= Len(j.log), NEW o \in Outcomes,
           NEW w \in BurnedJournals(j, o)
    PROVE  /\ Retains(j, w)
           /\ w.exists = j.exists /\ w.linked = j.linked
           /\ o = "ok" => /\ w.synced = Len(j.log) + 1
                          /\ w.log[Len(j.log) + 1].kind = "TERMINAL"
                          /\ ~w.log[Len(j.log) + 1].glued
<1>1. PICK g, r : g = NewlineWritten(j) /\ r = Mark("TERMINAL")
    OBVIOUS
<1>2. /\ g \in Journal /\ g.exists = j.exists /\ g.linked = j.linked /\ g.log = j.log
      /\ g.synced = j.synced /\ g.torn = FALSE
    BY <1>1 DEF NewlineWritten, Journal
<1>3. r \in Record /\ r.kind = "TERMINAL" /\ j.synced \in Nat
    BY <1>1 DEF Mark, Rec, Record, Kinds, Journal
<1>4. CASE w = j /\ o # "ok"
    BY <1>3, <1>4 DEF Retains
<1>5. CASE w = g /\ o # "ok"
    BY <1>2, <1>3, <1>5 DEF Retains
<1>6. CASE w = Appended(g, r, o)
    <2>1. /\ Retains(g, w) /\ w.exists = g.exists /\ w.linked = g.linked
          /\ o = "ok" => /\ w.synced = Len(g.log) + 1
                         /\ w.log[Len(g.log) + 1] = [r EXCEPT !.glued = g.torn]
        BY <1>2, <1>3, <1>6, AppendedFacts
    <2>2. [r EXCEPT !.glued = g.torn].kind = "TERMINAL" /\ ~[r EXCEPT !.glued = g.torn].glued
        BY <1>2, <1>3 DEF Record
    <2> QED
        BY <1>2, <2>1, <2>2 DEF Retains
<1> QED
    BY <1>1, <1>4, <1>5, <1>6 DEF BurnedJournals

\* A journal that is linked survives a loss of power with all that was synced.
LEMMA SurvivorRetains ==
    ASSUME NEW j \in Journal, j.synced <= Len(j.log), NEW w \in Survivors(j)
    PROVE  Retains(j, w)
<1>1. j.log \in Seq(Record) /\ Len(j.log) \in Nat /\ j.synced \in Nat
    BY LenProperties DEF Journal
<1>2. CASE w = NoJournal /\ ~j.linked
    <2>1. NoJournal \in Journal /\ NoJournal.synced = 0 /\ Len(NoJournal.log) = 0
        BY DEF NoJournal, Journal
    <2> QED
        BY <1>2, <2>1 DEF Retains
<1>3. CASE ~(w = NoJournal /\ ~j.linked)
    <2>1. PICK cut \in (j.synced..Len(j.log)) \X BOOLEAN :
             w = [j EXCEPT !.log = SubSeq(@, 1, cut[1]), !.synced = cut[1], !.linked = j.exists,
                           !.torn = cut[2]]
        BY <1>3 DEF Survivors
    <2>2. PICK n \in j.synced..Len(j.log), t \in BOOLEAN : n = cut[1] /\ t = cut[2]
        OBVIOUS
    <2>3. PICK log : log = SubSeq(j.log, 1, n)
        OBVIOUS
    <2>4. n \in Nat /\ n <= Len(j.log) /\ j.synced <= n
        BY <1>1
    <2>5. log \in Seq(Record) /\ Len(log) = n /\ \A k \in 1..n : log[k] = j.log[k]
        BY <1>1, <2>3, <2>4, SubSeqProperties
    <2>6. PICK b \in BOOLEAN : b = j.exists
        BY DEF Journal
    <2>7. w = [j EXCEPT !.log = log, !.synced = n, !.linked = b, !.torn = t]
        BY <2>1, <2>2, <2>3, <2>6
    <2>8. w \in Journal /\ w.log = log /\ w.synced = n /\ w.linked = b /\ w.exists = j.exists
        BY <2>4, <2>5, <2>7 DEF Journal
    <2>9. \A k \in 1..j.synced : k \in 1..n
        BY <1>1, <2>4
    <2> QED
        BY <1>1, <2>4, <2>5, <2>6, <2>8, <2>9 DEF Retains
<1> QED
    BY <1>2, <1>3

\* sync_directory links every file and changes nothing else.
LEMMA DirSyncedFacts ==
    ASSUME NEW js \in [Conns -> Journal], NEW ds, ds = DirSynced(js)
    PROVE  /\ ds \in [Conns -> Journal]
           /\ \A c \in Conns : /\ ds[c].exists = js[c].exists
                               /\ ds[c].log = js[c].log
                               /\ ds[c].synced = js[c].synced
                               /\ ds[c].torn = js[c].torn
                               /\ js[c].linked \/ js[c].exists => ds[c].linked
<1>1. ASSUME NEW j \in Journal, NEW b \in BOOLEAN, NEW w, w = [j EXCEPT !.linked = b]
      PROVE  /\ w \in Journal /\ w.exists = j.exists /\ w.log = j.log
             /\ w.synced = j.synced /\ w.torn = j.torn /\ w.linked = b
    BY <1>1 DEF Journal
<1>2. ASSUME NEW c \in Conns
      PROVE  /\ ds[c] \in Journal
             /\ ds[c].exists = js[c].exists /\ ds[c].log = js[c].log
             /\ ds[c].synced = js[c].synced /\ ds[c].torn = js[c].torn
             /\ js[c].linked \/ js[c].exists => ds[c].linked
    <2>1. js[c] \in Journal /\ js[c].linked \in BOOLEAN /\ js[c].exists \in BOOLEAN
        BY DEF Journal
    <2>2. PICK b \in BOOLEAN : b = (js[c].linked \/ js[c].exists)
        BY <2>1
    <2>3. ds[c] = [js[c] EXCEPT !.linked = b]
        BY <2>2 DEF DirSynced
    <2>4. b = TRUE <=> js[c].linked \/ js[c].exists
        BY <2>1, <2>2
    <2> QED
        BY <1>1, <2>1, <2>3, <2>4
<1>3. ds = [c \in Conns |-> ds[c]]
    BY DEF DirSynced
<1> QED
    BY <1>2, <1>3

-----------------------------------------------------------------------------
(* What every step keeps *)

\* A handle goes on from another: what was taken stays taken.
Continues(g, h) ==
    /\ g.state # "none"
    /\ g.domains \subseteq h.domains
    /\ \A s \in Stages : g.stages[s].generated # 0 =>
          /\ h.stages[s].generated = g.stages[s].generated
          /\ h.stages[s].consumed >= g.stages[s].consumed
          /\ h.stages[s].reserved >= g.stages[s].reserved

StepOK ==
    /\ AuthKept
    /\ receipts' \subseteq Receipt /\ ReceiptsOK'
    /\ journals' \in [Conns -> Journal]
    /\ \A c \in Conns : Retains(journals[c], journals'[c])
    /\ handles' \in [Conns -> HandleType]
    /\ \A c \in Conns : Authorized(markers', c, handles'[c]) /\ Balanced(handles'[c])
    /\ opened' \in [Conns -> {0, 1}]
    /\ \A c \in Conns : IF opened[c] = 1 THEN opened'[c] = 1 ELSE OpenedOK(c)'
    /\ \A c \in Conns : handles'[c].state # "none" =>
          opened'[c] = 1 /\ (opened[c] = 1 => Continues(handles[c], handles'[c]))
    /\ burned' \subseteq Conns
    /\ \A c \in Conns : IF c \in burned THEN opened'[c] = opened[c] ELSE BurnedOK(c)'

\* A range stays where the counters of a handle that goes on say.
LEMMA CoversKept ==
    ASSUME NEW g \in HandleType, NEW h \in HandleType, Balanced(g), Continues(g, h),
           NEW r \in Record, r.stage \in Stages, r.count >= 1, Covers(g, r)
    PROVE  Covers(h, r)
<1>1. PICK p \in Counters, q \in Counters : p = g.stages[r.stage] /\ q = h.stages[r.stage]
    BY DEF HandleType
<1>2. /\ p.consumed \in Nat /\ p.reserved \in Nat /\ p.burned \in Nat /\ p.available \in Nat
      /\ p.generated \in Nat /\ q.consumed \in Nat /\ q.reserved \in Nat /\ q.generated \in Nat
      /\ r.start \in Nat /\ r.count \in Nat
    BY DEF Counters, Record
<1>3. p.consumed + p.reserved + p.burned + p.available = p.generated
    BY <1>1 DEF Balanced
<1>4. p.generated # 0
    <2>1. CASE r.kind = "RESERVED_AS_BASE"
        <3>1. r.start + r.count <= p.generated
            BY <1>1, <2>1 DEF Covers
        <3> QED
            BY <1>2, <3>1
    <2>2. CASE r.kind # "RESERVED_AS_BASE"
        <3>1. r.start + r.count <= p.consumed
            BY <1>1, <2>2 DEF Covers
        <3> QED
            BY <1>2, <1>3, <3>1
    <2> QED
        BY <2>1, <2>2
<1>5. /\ q.generated = p.generated /\ q.consumed >= p.consumed /\ q.reserved >= p.reserved
      /\ g.domains \subseteq h.domains
    BY <1>1, <1>4 DEF Continues
<1>6. CASE r.kind = "RESERVED_AS_BASE"
    <2>1. p.generated <= r.start + p.reserved /\ r.start + r.count <= p.generated /\ r.key = None
        BY <1>1, <1>6 DEF Covers
    <2>2. q.generated <= r.start + q.reserved /\ r.start + r.count <= q.generated
        BY <1>2, <1>5, <2>1
    <2> QED
        BY <1>1, <1>6, <2>1, <2>2 DEF Covers
<1>7. CASE r.kind # "RESERVED_AS_BASE"
    <2>1. r.start + r.count <= p.consumed /\ <<r.key, r.tag>> \in g.domains
        BY <1>1, <1>7 DEF Covers
    <2>2. r.start + r.count <= q.consumed
        BY <1>2, <1>5, <2>1
    <2> QED
        BY <1>1, <1>5, <1>7, <2>1, <2>2 DEF Covers
<1> QED
    BY <1>6, <1>7

\* The journals of identities whose handle was given out.
LEMMA JournalsKept ==
    ASSUME IInv, StepOK, NEW c \in Conns
    PROVE  JournalOK(c)' /\ BurnedOK(c)'
<1>1. /\ JournalOK(c) /\ BurnedOK(c) /\ Retains(journals[c], journals'[c])
      /\ journals[c] \in Journal /\ opened \in [Conns -> {0, 1}] /\ opened' \in [Conns -> {0, 1}]
      /\ handles'[c].state # "none" => opened'[c] = 1
    BY DEF IInv, StepOK, Types
<1>2. /\ journals[c].synced \in Nat /\ journals'[c].synced \in Nat
      /\ journals'[c].synced <= Len(journals'[c].log)
    BY <1>1 DEF Retains, Journal
<1>3. OpenedOK(c)'
    <2>1. CASE opened[c] = 1
        <3>1. /\ journals[c].exists /\ journals[c].linked
              /\ journals[c].synced >= 1 /\ journals[c].log[1].kind = "OPEN"
            BY <1>1, <2>1 DEF JournalOK, OpenedOK
        <3>2. /\ journals'[c].exists /\ journals'[c].linked
              /\ journals'[c].synced >= 1 /\ journals'[c].log[1] = journals[c].log[1]
            BY <1>1, <1>2, <3>1 DEF Retains
        <3> QED
            BY <3>1, <3>2 DEF OpenedOK
    <2>2. CASE opened[c] # 1
        BY <2>2 DEF StepOK
    <2> QED
        BY <2>1, <2>2
<1>4. BurnedOK(c)'
    <2>1. CASE c \in burned
        <3>1. /\ journals[c].exists /\ journals[c].linked
              /\ opened[c] = 1 =>
                    \E i \in 2..journals[c].synced :
                        journals[c].log[i].kind = "TERMINAL" /\ ~journals[c].log[i].glued
              /\ opened'[c] = opened[c]
            BY <1>1, <2>1 DEF BurnedOK, StepOK
        <3>2. /\ journals'[c].exists /\ journals'[c].linked
              /\ \A i \in 2..journals[c].synced :
                    i \in 2..journals'[c].synced /\ journals'[c].log[i] = journals[c].log[i]
            BY <1>1, <1>2, <3>1 DEF Retains
        <3> QED
            BY <3>1, <3>2 DEF BurnedOK
    <2>2. CASE c \notin burned
        BY <2>2 DEF StepOK
    <2> QED
        BY <2>1, <2>2
<1> QED
    BY <1>1, <1>2, <1>3, <1>4 DEF JournalOK

\* What was exposed stays in order.
LEMMA ExposureKept ==
    ASSUME IInv, StepOK, NEW e \in exposed
    PROVE  ExposureOK(e)'
<1>1. e \in Exposure /\ ExposureOK(e) /\ Types
    BY DEF IInv, Types
<1>2. /\ e.conn \in Conns /\ e.at \in Nat \ {0} /\ e.rec \in Record
      /\ e.conn \in Conns /\ opened[e.conn] = 1
    BY <1>1 DEF Exposure, ExposureOK
<1>3. PICK c \in Conns, r \in Record : c = e.conn /\ r = e.rec
    BY <1>2
<1>4. /\ JournalOK(c) /\ Retains(journals[c], journals'[c]) /\ Balanced(handles[c])
      /\ journals[c] \in Journal /\ opened'[c] = 1
    BY <1>1, <1>2, <1>3 DEF IInv, StepOK, Types
<1>5. journals[c].exists /\ journals[c].linked
    BY <1>2, <1>3, <1>4 DEF JournalOK, OpenedOK
<1>6. /\ e.at <= journals[c].synced /\ journals[c].synced \in Nat /\ journals'[c].synced \in Nat
      /\ [journals[c].log[e.at] EXCEPT !.glued = FALSE] = r
    BY <1>1, <1>3, <1>4 DEF ExposureOK, Journal, Retains
<1>7. e.at <= journals'[c].synced /\ journals'[c].log[e.at] = journals[c].log[e.at]
    BY <1>2, <1>4, <1>5, <1>6 DEF Retains
<1>8. /\ r.stage \in Stages /\ r.count >= 1
      /\ r.kind \in {"ALLOCATE", "SETTLEMENT_ALLOCATE", "RESERVED_AS_BASE"}
    BY <1>1, <1>3 DEF ExposureOK
<1>9. r.kind = "ALLOCATE" => r.key \in Keys /\ markers'[r.key] = "durable"
    BY <1>1, <1>3 DEF ExposureOK, StepOK, AuthKept
<1>10. r.kind = "SETTLEMENT_ALLOCATE" =>
          r.key \in 1..MaxEpoch /\ markers'[<<c, r.key>>] = "durable"
    <2>1. SUFFICES ASSUME r.kind = "SETTLEMENT_ALLOCATE"
                   PROVE  r.key \in 1..MaxEpoch /\ markers'[<<c, r.key>>] = "durable"
        OBVIOUS
    <2>2. r.key \in 1..MaxEpoch /\ markers[<<c, r.key>>] = "durable"
        BY <1>1, <1>3, <2>1 DEF ExposureOK
    <2>3. <<c, r.key>> \in Keys
        BY <2>2, ConnAssumption
    <2> QED
        BY <2>2, <2>3 DEF StepOK, AuthKept
<1>11. ASSUME handles'[c].state # "none" PROVE Covers(handles'[c], r)
    <2>1. Continues(handles[c], handles'[c])
        BY <1>2, <1>3, <1>11 DEF StepOK
    <2>2. handles[c] \in HandleType /\ handles'[c] \in HandleType
        BY <1>1 DEF Types, StepOK
    <2>3. Covers(handles[c], r)
        BY <1>1, <1>3, <2>1 DEF ExposureOK, Continues
    <2>4. PICK g, h : g = handles[c] /\ h = handles'[c]
        OBVIOUS
    <2> QED
        BY <1>4, <1>8, <2>1, <2>2, <2>3, <2>4, CoversKept
<1> QED
    BY <1>3, <1>4, <1>6, <1>7, <1>8, <1>9, <1>10, <1>11 DEF ExposureOK

\* A step that exposes nothing.
LEMMA QuietStep ==
    ASSUME IInv, StepOK, exposed' = exposed
    PROVE  IInv'
<1>1. \A e \in exposed' : ExposureOK(e)'
    <2>1. \A e \in exposed : ExposureOK(e)'
        BY ExposureKept
    <2> QED
        BY <2>1
<1>2. RangesDisjoint'
    BY DEF IInv, RangesDisjoint
<1>3. \A c \in Conns : JournalOK(c)' /\ BurnedOK(c)'
    BY JournalsKept
<1>4. Types' /\ UsedOK' /\ ReceiptsOK'
    BY DEF IInv, Types, StepOK, AuthKept
<1>5. \A c \in Conns : Authorized(markers', c, handles'[c]) /\ Balanced(handles'[c])
    BY DEF StepOK
<1> QED
    BY <1>1, <1>2, <1>3, <1>4, <1>5 DEF IInv

-----------------------------------------------------------------------------
(* A step that exposes a range *)

\* The range of r is what handle g takes next for it.
Takes(g, r) ==
    /\ r.kind # "RESERVED_AS_BASE" =>
          /\ r.start = g.stages[r.stage].consumed
          /\ r.count <= g.stages[r.stage].available
          /\ <<r.key, r.tag>> \notin g.domains
    /\ r.kind = "RESERVED_AS_BASE" =>
          /\ r.start + r.count + g.stages[r.stage].reserved = g.stages[r.stage].generated
          /\ r.start >= g.stages[r.stage].consumed
          /\ r.key = None

\* Two records share no correlation and no domain.
Apart(r, f) ==
    /\ r.stage = f.stage => r.start + r.count <= f.start \/ f.start + f.count <= r.start
    /\ r.key # None \/ f.key # None => <<r.key, r.tag>> # <<f.key, f.tag>>

\* The next range is apart from every range the handle gave out before.
LEMMA TakesApart ==
    ASSUME NEW g \in HandleType, Balanced(g), NEW r \in Record, NEW f \in Record,
           r.stage \in Stages, f.stage \in Stages, Takes(g, r), Covers(g, f)
    PROVE  Apart(r, f)
<1>1. PICK p \in Counters : p = g.stages[r.stage]
    BY DEF HandleType
<1>2. /\ p.consumed \in Nat /\ p.reserved \in Nat /\ p.burned \in Nat /\ p.available \in Nat
      /\ p.generated \in Nat
      /\ r.start \in Nat /\ r.count \in Nat /\ f.start \in Nat /\ f.count \in Nat
    BY DEF Counters, Record
<1>3. p.consumed + p.reserved + p.burned + p.available = p.generated
    BY <1>1 DEF Balanced
<1>4. CASE r.kind = "RESERVED_AS_BASE" /\ f.kind = "RESERVED_AS_BASE"
    <2>1. r.start + r.count + p.reserved = p.generated /\ r.key = None /\ f.key = None
        BY <1>1, <1>4 DEF Takes, Covers
    <2>2. r.stage = f.stage => p.generated <= f.start + p.reserved
        BY <1>1, <1>4 DEF Covers
    <2>3. r.stage = f.stage => r.start + r.count <= f.start
        BY <1>2, <2>1, <2>2
    <2> QED
        BY <2>1, <2>3 DEF Apart
<1>5. CASE r.kind = "RESERVED_AS_BASE" /\ f.kind # "RESERVED_AS_BASE"
    <2>1. r.start >= p.consumed /\ r.key = None
        BY <1>1, <1>5 DEF Takes
    <2>2. r.stage = f.stage => f.start + f.count <= p.consumed
        BY <1>1, <1>5 DEF Covers
    <2>3. r.stage = f.stage => f.start + f.count <= r.start
        BY <1>2, <2>1, <2>2
    <2> QED
        BY <2>1, <2>3 DEF Apart
<1>6. CASE r.kind # "RESERVED_AS_BASE" /\ f.kind = "RESERVED_AS_BASE"
    <2>1. r.start = p.consumed /\ r.count <= p.available /\ f.key = None
        BY <1>1, <1>6 DEF Takes, Covers
    <2>2. r.stage = f.stage => p.generated <= f.start + p.reserved
        BY <1>1, <1>6 DEF Covers
    <2>3. r.stage = f.stage => r.start + r.count <= f.start
        BY <1>2, <1>3, <2>1, <2>2
    <2> QED
        BY <2>1, <2>3 DEF Apart
<1>7. CASE r.kind # "RESERVED_AS_BASE" /\ f.kind # "RESERVED_AS_BASE"
    <2>1. r.start = p.consumed /\ <<r.key, r.tag>> \notin g.domains
        BY <1>1, <1>7 DEF Takes
    <2>2. /\ r.stage = f.stage => f.start + f.count <= p.consumed
          /\ <<f.key, f.tag>> \in g.domains
        BY <1>1, <1>7 DEF Covers
    <2>3. r.stage = f.stage => f.start + f.count <= r.start
        BY <1>2, <2>1, <2>2
    <2> QED
        BY <2>1, <2>2, <2>3 DEF Apart
<1> QED
    BY <1>4, <1>5, <1>6, <1>7

\* What the record of a range says of the key that paid for it.
PaidFor(m, c, r) ==
    /\ r.kind \in {"ALLOCATE", "SETTLEMENT_ALLOCATE", "RESERVED_AS_BASE"}
    /\ r.stage \in Stages /\ r.count >= 1 /\ ~r.glued
    /\ r.kind = "ALLOCATE" => r.key \in Keys /\ m[r.key] = "durable"
    /\ r.kind = "SETTLEMENT_ALLOCATE" => r.key \in 1..MaxEpoch /\ m[<<c, r.key>>] = "durable"

\* A step that exposes the next range of a handle, journalled.
LEMMA ExposeStep ==
    ASSUME IInv, StepOK, NEW c \in Conns, handles[c].state # "none",
           NEW r \in Record, PaidFor(markers', c, r), Takes(handles[c], r),
           Covers(handles'[c], r),
           journals' = [journals EXCEPT ![c] = Appended(@, r, "ok")],
           exposed' = exposed \cup {[conn |-> c, at |-> Len(journals[c].log) + 1, rec |-> r]}
    PROVE  IInv'
<1>1. /\ journals \in [Conns -> Journal] /\ journals[c] \in Journal
      /\ journals[c].synced <= Len(journals[c].log) /\ opened[c] = 1
      /\ exposed \subseteq Exposure
    BY DEF IInv, Types, JournalOK
<1>2. PICK j \in Journal, n \in Nat : j = journals[c] /\ n = Len(journals[c].log)
    BY <1>1, LenProperties DEF Journal
<1>3. PICK w : w = Appended(j, r, "ok")
    OBVIOUS
<1>4. journals'[c] = w
    BY <1>1, <1>2, <1>3
<1>5. w.synced = n + 1 /\ w.log[n + 1] = [r EXCEPT !.glued = j.torn]
    BY <1>1, <1>2, <1>3, AppendedFacts DEF Outcomes
<1>6. [w.log[n + 1] EXCEPT !.glued = FALSE] = r
    <2>1. j.torn \in BOOLEAN /\ ~r.glued
        BY DEF PaidFor, Journal
    <2>2. [[r EXCEPT !.glued = j.torn] EXCEPT !.glued = FALSE] = r
        BY <2>1, RecFacts
    <2> QED
        BY <1>5, <2>2
<1>7. PICK x : x = [conn |-> c, at |-> n + 1, rec |-> r]
    OBVIOUS
<1>8. x.conn = c /\ x.at = n + 1 /\ x.rec = r /\ x \in Exposure
    BY <1>2, <1>7 DEF Exposure
<1>9. ExposureOK(x)'
    <2>1. opened'[c] = 1
        BY <1>1 DEF StepOK
    <2>2. n + 1 <= journals'[c].synced
        BY <1>2, <1>4, <1>5
    <2>3. [journals'[c].log[n + 1] EXCEPT !.glued = FALSE] = r
        BY <1>4, <1>6
    <2> QED
        BY <1>8, <2>1, <2>2, <2>3 DEF ExposureOK, PaidFor
<1>10. exposed' = exposed \cup {x}
    BY <1>2, <1>7
<1>11. \A e \in exposed' : ExposureOK(e)'
    <2>1. \A e \in exposed : ExposureOK(e)'
        BY ExposureKept
    <2> QED
        BY <1>9, <1>10, <2>1
<1>12. \A e \in exposed : e.conn = c => Apart(r, e.rec)
    <2>1. SUFFICES ASSUME NEW e \in exposed, e.conn = c PROVE Apart(r, e.rec)
        OBVIOUS
    <2>2. /\ e.rec \in Record /\ e.rec.stage \in Stages /\ Covers(handles[c], e.rec)
          /\ handles[c] \in HandleType /\ Balanced(handles[c]) /\ r.stage \in Stages
        BY <1>1, <2>1 DEF IInv, Types, Exposure, ExposureOK, PaidFor
    <2>3. PICK f, g : f = e.rec /\ g = handles[c]
        OBVIOUS
    <2> QED
        BY <2>2, <2>3, TakesApart
<1>13. RangesDisjoint'
    <2>1. /\ RangesDisjoint /\ r.start \in Nat /\ r.count \in Nat
        BY DEF IInv, Record
    <2>2. \A e \in exposed : e.conn = c => Apart(r, e.rec) /\ Apart(e.rec, r)
        BY <1>12 DEF Apart
    <2> QED
        BY <1>8, <1>10, <2>1, <2>2 DEF RangesDisjoint, Apart
<1>14. \A d \in Conns : JournalOK(d)' /\ BurnedOK(d)'
    BY JournalsKept
<1>15. exposed' \subseteq Exposure
    BY <1>1, <1>8, <1>10
<1>16. Types' /\ UsedOK' /\ ReceiptsOK'
    BY <1>15 DEF IInv, Types, StepOK, AuthKept
<1>17. \A d \in Conns : Authorized(markers', d, handles'[d]) /\ Balanced(handles'[d])
    BY DEF StepOK
<1> QED
    BY <1>11, <1>13, <1>14, <1>16, <1>17 DEF IInv

-----------------------------------------------------------------------------
(* Steps of one connection *)

\* Handle h of connection c goes on from handle g.
Goes(m, c, g, h) ==
    /\ h \in HandleType
    /\ Balanced(h)
    /\ Authorized(m, c, h)
    /\ Continues(g, h)

\* No handle passes from unchecked to checked.
Unchecked == \A c \in Conns : handles'[c].checked => handles[c].checked

\* Granted receipts stay good as long as nobody takes a durable marker away.
LEMMA ReceiptsKept ==
    ASSUME IInv, AuthKept, UNCHANGED receipts
    PROVE  receipts' \subseteq Receipt /\ ReceiptsOK'
<1>1. receipts \subseteq Receipt /\ ReceiptsOK
    BY DEF IInv, Types
<1>2. \A r \in receipts : <<r.conn, r.epoch>> \in Keys
    BY <1>1, ConnAssumption DEF Receipt
<1> QED
    BY <1>1, <1>2 DEF ReceiptsOK, AuthKept

\* A handle that does not change stays good.
LEMMA GoesSame ==
    ASSUME IInv, AuthKept, NEW c \in Conns, handles[c].state # "none"
    PROVE  Goes(markers', c, handles[c], handles[c])
<1>1. PICK h \in HandleType : h = handles[c]
    BY DEF IInv, Types
<1>2. Balanced(h) /\ Authorized(markers, c, h)
    BY <1>1 DEF IInv
<1>3. Authorized(markers', c, h)
    <2>1. h.response # None => h.response \in Keys
        BY DEF HandleType
    <2>2. h.fresh.epoch \in 1..MaxEpoch => <<c, h.fresh.epoch>> \in Keys
        BY ConnAssumption
    <2> QED
        BY <1>2, <2>1, <2>2 DEF Authorized, AuthKept
<1>4. Continues(h, h)
    <2>1. \A s \in Stages : h.stages[s].consumed \in Nat /\ h.stages[s].reserved \in Nat
        BY DEF HandleType, Counters
    <2> QED
        BY <1>1, <2>1 DEF Continues
<1> QED
    BY <1>1, <1>2, <1>3, <1>4 DEF Goes

\* No handle is typed, its counters add up and it has nothing to expose.
LEMMA NoHandleFacts ==
    ASSUME NEW m, NEW c \in Conns
    PROVE  /\ NoHandle \in HandleType /\ Balanced(NoHandle) /\ Authorized(m, c, NoHandle)
           /\ NoHandle.state = "none" /\ NoHandle.checked = FALSE
<1>1. NoCounters \in Counters
    BY DEF NoCounters, Counters
<1>2. PICK p : p = [s \in Stages |-> NoCounters]
    OBVIOUS
<1>3. NoHandle =
        [state |-> "none", checked |-> FALSE, recorded |-> FALSE,
         response |-> None, spent |-> 0, frames |-> 0, froze |-> FALSE,
         stages |-> p, activated |-> [s \in Stages |-> 0],
         domains |-> {}, frozen |-> 0, verified |-> 0, epoch |-> 1,
         seal |-> NoSeal, fresh |-> NoFresh, paid |-> 0, auxiliary |-> {}]
    BY <1>2 DEF NoHandle
<1>4. NoSeal \in [epoch : Nat, first : Nat, count : Nat]
    BY DEF NoSeal
<1>5. NoFresh \in [epoch : Nat, expected : Nat] /\ NoFresh.epoch = 0
    BY DEF NoFresh
<1>6. p \in [Stages -> Counters] /\ [s \in Stages |-> 0] \in [Stages -> Nat]
    BY <1>1, <1>2
<1>7. NoHandle \in HandleType
    BY <1>3, <1>4, <1>5, <1>6 DEF HandleType
<1>8. Balanced(NoHandle)
    <2>1. \A s \in Stages : NoHandle.stages[s] = NoCounters
        BY <1>2, <1>3
    <2>2. NoCounters.consumed + NoCounters.reserved + NoCounters.burned + NoCounters.available
             = NoCounters.generated
        BY DEF NoCounters
    <2> QED
        BY <2>1, <2>2 DEF Balanced
<1>9. Authorized(m, c, NoHandle)
    BY <1>3, <1>5 DEF Authorized
<1> QED
    BY <1>3, <1>7, <1>8, <1>9

\* The handle of a connection that takes no step.
LEMMA HandleKept ==
    ASSUME IInv, AuthKept, NEW d \in Conns
    PROVE  /\ Authorized(markers', d, handles[d]) /\ Balanced(handles[d])
           /\ handles[d].state # "none" => Continues(handles[d], handles[d])
<1>1. CASE handles[d].state # "none"
    BY <1>1, GoesSame DEF Goes
<1>2. CASE handles[d].state = "none"
    <2>1. Balanced(handles[d]) /\ Authorized(markers, d, handles[d])
        BY DEF IInv
    <2>2. PICK g \in HandleType : g = handles[d]
        BY DEF IInv, Types
    <2>3. g.response # None => g.response \in Keys
        BY DEF HandleType
    <2>4. g.fresh.epoch \in 1..MaxEpoch => <<d, g.fresh.epoch>> \in Keys
        BY ConnAssumption
    <2>5. Authorized(markers', d, g)
        BY <2>1, <2>2, <2>3, <2>4 DEF Authorized, AuthKept
    <2> QED
        BY <1>2, <2>1, <2>2, <2>5
<1> QED
    BY <1>1, <1>2

\* A step of the burn store and of journals that lose nothing.
LEMMA StillStep ==
    ASSUME IInv, AuthKept, receipts' \subseteq Receipt, ReceiptsOK', UNCHANGED <<handles, opened>>,
           journals' \in [Conns -> Journal],
           \A d \in Conns : Retains(journals[d], journals'[d]),
           burned' \subseteq Conns, \A d \in Conns : d \notin burned => BurnedOK(d)'
    PROVE  StepOK /\ Unchecked
<1>1. /\ handles \in [Conns -> HandleType] /\ opened \in [Conns -> {0, 1}]
      /\ \A d \in Conns : JournalOK(d)
    BY DEF IInv, Types
<1>2. \A d \in Conns : handles'[d] = handles[d] /\ opened'[d] = opened[d]
    OBVIOUS
<1>3. \A d \in Conns : Authorized(markers', d, handles'[d]) /\ Balanced(handles'[d])
    BY <1>2, HandleKept
<1>4. \A d \in Conns : handles'[d].state # "none" =>
          opened'[d] = 1 /\ (opened[d] = 1 => Continues(handles[d], handles'[d]))
    BY <1>1, <1>2, HandleKept DEF JournalOK
<1>5. \A d \in Conns : IF opened[d] = 1 THEN opened'[d] = 1 ELSE OpenedOK(d)'
    BY <1>1, <1>2 DEF OpenedOK
<1>6. \A d \in Conns : IF d \in burned THEN opened'[d] = opened[d] ELSE BurnedOK(d)'
    BY <1>2
<1> QED
    BY <1>1, <1>2, <1>3, <1>4, <1>5, <1>6 DEF StepOK, Unchecked

\* A step of the handle of c, and of journals that lose nothing.
LEMMA LocalStep ==
    ASSUME IInv, AuthKept, receipts' \subseteq Receipt, ReceiptsOK', UNCHANGED <<opened, burned>>,
           journals' \in [Conns -> Journal],
           \A d \in Conns : Retains(journals[d], journals'[d]),
           NEW c \in Conns, NEW h, Handle(c, h),
           h = NoHandle \/ Goes(markers', c, handles[c], h)
    PROVE  StepOK
<1>1. /\ handles \in [Conns -> HandleType] /\ opened \in [Conns -> {0, 1}] /\ burned \subseteq Conns
      /\ \A d \in Conns : JournalOK(d)
    BY DEF IInv, Types
<1>2. handles' = [handles EXCEPT ![c] = h]
    BY DEF Handle
<1>3. /\ h \in HandleType /\ Balanced(h) /\ Authorized(markers', c, h)
      /\ h.state # "none" => Continues(handles[c], h)
    BY NoHandleFacts DEF Goes
<1>4. \A d \in Conns : d # c => handles'[d] = handles[d]
    BY <1>1, <1>2
<1>5. handles'[c] = h /\ handles' \in [Conns -> HandleType]
    BY <1>1, <1>2, <1>3
<1>6. ASSUME NEW d \in Conns
      PROVE  /\ Authorized(markers', d, handles'[d]) /\ Balanced(handles'[d])
             /\ handles'[d].state # "none" => Continues(handles[d], handles'[d])
    <2>1. CASE d = c
        BY <1>3, <1>5, <2>1
    <2>2. CASE d # c
        BY <1>4, <2>2, HandleKept
    <2> QED
        BY <2>1, <2>2
<1>7. \A d \in Conns : handles'[d].state # "none" =>
          opened'[d] = 1 /\ (opened[d] = 1 => Continues(handles[d], handles'[d]))
    BY <1>1, <1>6 DEF JournalOK, Continues
<1>8. \A d \in Conns : IF opened[d] = 1 THEN opened'[d] = 1 ELSE OpenedOK(d)'
    BY <1>1 DEF OpenedOK
<1>9. \A d \in Conns : IF d \in burned THEN opened'[d] = opened[d] ELSE BurnedOK(d)'
    BY DEF BurnedOK
<1> QED
    BY <1>1, <1>5, <1>6, <1>7, <1>8, <1>9 DEF StepOK

\* A step of the handle of c that ends a method.
LEMMA LocalUnchecked ==
    ASSUME IInv, NEW c \in Conns, NEW h, Handle(c, h), h.checked = FALSE
    PROVE  Unchecked
BY DEF IInv, Types, Handle, Unchecked

\* Journals that only one connection changes.
LEMMA JournalsStep ==
    ASSUME IInv, NEW c \in Conns, NEW w, Retains(journals[c], w),
           journals' = [journals EXCEPT ![c] = w]
    PROVE  /\ journals' \in [Conns -> Journal]
           /\ \A d \in Conns : Retains(journals[d], journals'[d])
<1>1. /\ journals \in [Conns -> Journal] /\ \A d \in Conns : JournalOK(d)
    BY DEF IInv, Types
<1>2. \A d \in Conns : Retains(journals[d], journals[d])
    BY <1>1 DEF Retains, JournalOK, Journal
<1>3. w \in Journal
    BY DEF Retains
<1> QED
    BY <1>1, <1>2, <1>3

\* The same when the directory is synced at the end.
LEMMA JournalsDirStep ==
    ASSUME IInv, NEW c \in Conns, NEW w, Retains(journals[c], w),
           journals' = DirSynced([journals EXCEPT ![c] = w])
    PROVE  /\ journals' \in [Conns -> Journal]
           /\ \A d \in Conns : Retains(journals[d], journals'[d])
<1>1. /\ journals \in [Conns -> Journal] /\ \A d \in Conns : JournalOK(d)
    BY DEF IInv, Types
<1>2. \A d \in Conns : Retains(journals[d], journals[d])
    BY <1>1 DEF Retains, JournalOK, Journal
<1>3. PICK js : js = [journals EXCEPT ![c] = w]
    OBVIOUS
<1>4. js \in [Conns -> Journal] /\ \A d \in Conns : Retains(journals[d], js[d])
    BY <1>1, <1>2, <1>3 DEF Retains
<1>5. PICK ds : ds = DirSynced(js)
    OBVIOUS
<1>6. /\ ds \in [Conns -> Journal]
      /\ \A d \in Conns : /\ ds[d].exists = js[d].exists /\ ds[d].log = js[d].log
                          /\ ds[d].synced = js[d].synced
                          /\ js[d].linked \/ js[d].exists => ds[d].linked
    BY <1>4, <1>5, DirSyncedFacts
<1>7. \A d \in Conns : Retains(journals[d], ds[d])
    <2>1. SUFFICES ASSUME NEW d \in Conns PROVE Retains(journals[d], ds[d])
        OBVIOUS
    <2>2. Retains(journals[d], js[d]) /\ ds[d] \in Journal
        BY <1>4, <1>6
    <2> QED
        BY <1>6, <2>2 DEF Retains
<1> QED
    BY <1>3, <1>5, <1>6, <1>7

\* A handle whose pools and domains do not change, and whose response and
\* settlement stay or end.
LEMMA GoesLike ==
    ASSUME NEW m, NEW c \in Conns, NEW g, NEW h, Goes(m, c, g, h),
           NEW k \in HandleType, k.state # "none", k.stages = h.stages, k.domains = h.domains,
           k.response = h.response \/ k.response = None,
           k.fresh = h.fresh \/ k.fresh.epoch = 0
    PROVE  Goes(m, c, g, k)
BY DEF Goes, Balanced, Authorized, Continues

\* A handle that counts one stage anew and may learn a domain.
LEMMA GoesStage ==
    ASSUME NEW m, NEW c \in Conns, NEW g \in HandleType, NEW h, Goes(m, c, g, h),
           h.state # "none",
           NEW s \in Stages, NEW q \in Counters,
           q.consumed + q.reserved + q.burned + q.available = q.generated,
           h.stages[s].generated # 0 =>
              /\ q.generated = h.stages[s].generated
              /\ q.consumed >= h.stages[s].consumed /\ q.reserved >= h.stages[s].reserved,
           NEW k \in HandleType, k.stages = [h.stages EXCEPT ![s] = q],
           k.state = h.state, h.domains \subseteq k.domains,
           k.response = h.response, k.fresh = h.fresh
    PROVE  Goes(m, c, g, k)
<1>1. h \in HandleType /\ Balanced(h) /\ Authorized(m, c, h) /\ Continues(g, h)
    BY DEF Goes
<1>2. /\ k.stages[s] = q /\ \A t \in Stages : t # s => k.stages[t] = h.stages[t]
    BY <1>1 DEF HandleType
<1>3. Balanced(k)
    BY <1>1, <1>2 DEF Balanced
<1>4. Authorized(m, c, k)
    BY <1>1 DEF Authorized
<1>5. Continues(g, k)
    <2>1. ASSUME NEW t \in Stages, g.stages[t].generated # 0
          PROVE  /\ k.stages[t].generated = g.stages[t].generated
                 /\ k.stages[t].consumed >= g.stages[t].consumed
                 /\ k.stages[t].reserved >= g.stages[t].reserved
        <3>1. /\ h.stages[t].generated = g.stages[t].generated
              /\ h.stages[t].consumed >= g.stages[t].consumed
              /\ h.stages[t].reserved >= g.stages[t].reserved
            BY <1>1, <2>1 DEF Continues
        <3>2. CASE t # s
            BY <1>2, <3>1, <3>2
        <3>3. CASE t = s
            <4>1. PICK a \in Counters, b \in Counters : a = g.stages[t] /\ b = h.stages[t]
                BY <1>1 DEF HandleType
            <4>2. /\ a.consumed \in Nat /\ a.reserved \in Nat /\ b.consumed \in Nat
                  /\ b.reserved \in Nat /\ q.consumed \in Nat /\ q.reserved \in Nat
                BY DEF Counters
            <4>3. q.generated = b.generated /\ q.consumed >= b.consumed /\ q.reserved >= b.reserved
                BY <2>1, <3>1, <3>3, <4>1
            <4>4. q.consumed >= a.consumed /\ q.reserved >= a.reserved
                BY <3>1, <4>1, <4>2, <4>3
            <4> QED
                BY <1>2, <3>1, <3>3, <4>1, <4>3, <4>4
        <3> QED
            BY <3>2, <3>3
    <2> QED
        BY <1>1, <2>1 DEF Continues
<1> QED
    BY <1>3, <1>4, <1>5 DEF Goes

\* burn_in_memory: the counters still add up, and nothing can be exposed any more.
LEMMA GoesBurned ==
    ASSUME NEW m, NEW c \in Conns, NEW g, NEW h, Goes(m, c, g, h), NEW k, k = BurnInMemory(h)
    PROVE  Goes(m, c, g, k) /\ k.checked = FALSE /\ k.state = "terminal"
<1>1. h \in HandleType /\ Balanced(h) /\ Authorized(m, c, h) /\ Continues(g, h)
    BY DEF Goes
<1>2. PICK p : p = [s \in Stages |->
              [h.stages[s] EXCEPT !.burned = @ + h.stages[s].available, !.available = 0]]
    OBVIOUS
<1>3. k = [h EXCEPT !.state = "terminal", !.checked = FALSE, !.response = None, !.stages = p]
    BY <1>2 DEF BurnInMemory
<1>4. ASSUME NEW s \in Stages
      PROVE  /\ p[s] \in Counters
             /\ p[s].generated = h.stages[s].generated /\ p[s].consumed = h.stages[s].consumed
             /\ p[s].reserved = h.stages[s].reserved
             /\ p[s].consumed + p[s].reserved + p[s].burned + p[s].available = p[s].generated
    <2>1. PICK q \in Counters : q = h.stages[s]
        BY <1>1 DEF HandleType
    <2>2. /\ q.consumed \in Nat /\ q.reserved \in Nat /\ q.burned \in Nat /\ q.available \in Nat
          /\ q.generated \in Nat
          /\ q.consumed + q.reserved + q.burned + q.available = q.generated
        BY <1>1, <2>1 DEF Counters, Balanced
    <2>3. PICK n \in Nat : n = q.burned + q.available
        BY <2>2
    <2>4. PICK x : x = [q EXCEPT !.burned = n, !.available = 0]
        OBVIOUS
    <2>5. /\ x.generated = q.generated /\ x.consumed = q.consumed /\ x.reserved = q.reserved
          /\ x.burned = n /\ x.available = 0 /\ x \in Counters
        BY <2>4 DEF Counters
    <2>6. p[s] = x
        BY <1>2, <2>1, <2>3, <2>4
    <2>7. x.consumed + x.reserved + x.burned + x.available = x.generated
        BY <2>2, <2>3, <2>5
    <2> QED
        BY <2>1, <2>5, <2>6, <2>7
<1>5. p \in [Stages -> Counters]
    BY <1>2, <1>4
<1>6. /\ k \in HandleType /\ k.state = "terminal" /\ k.checked = FALSE /\ k.response = None
      /\ k.stages = p /\ k.domains = h.domains /\ k.fresh = h.fresh
    BY <1>1, <1>3, <1>5 DEF HandleType
<1>7. Balanced(k)
    BY <1>4, <1>6 DEF Balanced
<1>8. Authorized(m, c, k)
    BY <1>1, <1>6 DEF Authorized
<1>9. Continues(g, k)
    BY <1>1, <1>4, <1>6 DEF Continues
<1> QED
    BY <1>6, <1>7, <1>8, <1>9 DEF Goes

\* The same with the outcome of its TERMINAL record.
LEMMA GoesRecorded ==
    ASSUME NEW m, NEW c \in Conns, NEW g, NEW h, Goes(m, c, g, h), NEW b \in BOOLEAN,
           NEW k, k = [BurnInMemory(h) EXCEPT !.recorded = b]
    PROVE  Goes(m, c, g, k) /\ k.checked = FALSE
<1>1. PICK x : x = BurnInMemory(h)
    OBVIOUS
<1>2. Goes(m, c, g, x) /\ x.checked = FALSE /\ x.state = "terminal"
    BY <1>1, GoesBurned
<1>3. k = [x EXCEPT !.recorded = b] /\ x \in HandleType
    BY <1>1, <1>2 DEF Goes
<1>4. /\ k \in HandleType /\ k.checked = FALSE /\ k.state = "terminal" /\ k.stages = x.stages
      /\ k.domains = x.domains /\ k.response = x.response /\ k.fresh = x.fresh
    BY <1>2, <1>3 DEF HandleType
<1> QED
    BY <1>2, <1>4, GoesLike

\* The end of a method.
LEMMA GoesDone ==
    ASSUME NEW m, NEW c \in Conns, NEW g, NEW h, Goes(m, c, g, h), h.state # "none",
           NEW k, k = [h EXCEPT !.checked = FALSE]
    PROVE  Goes(m, c, g, k) /\ k.checked = FALSE
<1>1. h \in HandleType
    BY DEF Goes
<1>2. /\ k \in HandleType /\ k.checked = FALSE /\ k.state = h.state /\ k.stages = h.stages
      /\ k.domains = h.domains /\ k.response = h.response /\ k.fresh = h.fresh
    BY <1>1 DEF HandleType
<1> QED
    BY <1>2, GoesLike

\* append_or_burn: whether the append succeeds or not.
LEMMA CommitStep ==
    ASSUME IInv, AuthKept, UNCHANGED <<receipts, opened, burned>>, NEW c \in Conns,
           NEW pending, Goes(markers', c, handles[c], pending),
           NEW done, Goes(markers', c, handles[c], done), done.state # "none",
           NEW r \in Record, NEW o \in Outcomes, Commit(c, pending, done, r, o)
    PROVE  StepOK /\ Unchecked
<1>1. journals \in [Conns -> Journal] /\ journals[c].synced <= Len(journals[c].log)
    BY DEF IInv, Types, JournalOK
<1>2. PICK w : w = Appended(journals[c], r, o)
    OBVIOUS
<1>3. journals' = [journals EXCEPT ![c] = w]
    BY <1>2 DEF Commit
<1>4. Retains(journals[c], w)
    BY <1>1, <1>2, AppendedFacts
<1>5. /\ journals' \in [Conns -> Journal]
      /\ \A d \in Conns : Retains(journals[d], journals'[d])
    BY <1>3, <1>4, JournalsStep
<1>6. PICK h : h = IF o = "ok" THEN [done EXCEPT !.checked = FALSE] ELSE BurnInMemory(pending)
    OBVIOUS
<1>7. Handle(c, h)
    BY <1>6 DEF Commit
<1>8. PICK m, g : m = markers' /\ g = handles[c]
    OBVIOUS
<1>9. Goes(m, c, g, h) /\ h.checked = FALSE
    <2>1. CASE o = "ok"
        BY <1>6, <1>8, <2>1, GoesDone
    <2>2. CASE o # "ok"
        BY <1>6, <1>8, <2>2, GoesBurned
    <2> QED
        BY <2>1, <2>2
<1>10. receipts' \subseteq Receipt /\ ReceiptsOK'
    BY ReceiptsKept
<1>11. StepOK
    BY <1>5, <1>7, <1>8, <1>9, <1>10, LocalStep
<1>12. Unchecked
    BY <1>7, <1>9, LocalUnchecked
<1> QED
    BY <1>11, <1>12

\* The append of terminal_burn loses nothing.
LEMMA TerminalAppendStep ==
    ASSUME IInv, NEW c \in Conns, NEW o \in Outcomes, TerminalAppend(c, o)
    PROVE  /\ journals' \in [Conns -> Journal]
           /\ \A d \in Conns : Retains(journals[d], journals'[d])
<1>1. journals \in [Conns -> Journal] /\ journals[c].synced <= Len(journals[c].log)
    BY DEF IInv, Types, JournalOK
<1>2. PICK w, r : r = Mark("TERMINAL") /\ w = Appended(journals[c], r, o)
    OBVIOUS
<1>3. r \in Record
    BY <1>2 DEF Mark, Rec, Record, Kinds
<1>4. Retains(journals[c], w)
    BY <1>1, <1>2, <1>3, AppendedFacts
<1>5. journals' = IF o = "ok" THEN DirSynced([journals EXCEPT ![c] = w])
                  ELSE [journals EXCEPT ![c] = w]
    BY <1>2 DEF TerminalAppend
<1> QED
    BY <1>4, <1>5, JournalsStep, JournalsDirStep

\* terminal_burn
LEMMA TerminalBurnStep ==
    ASSUME IInv, AuthKept, UNCHANGED <<receipts, opened, burned>>, NEW c \in Conns,
           handles[c].state # "none", NEW o \in Outcomes, TerminalBurn(c, o)
    PROVE  StepOK /\ Unchecked
<1>1. /\ journals' \in [Conns -> Journal]
      /\ \A d \in Conns : Retains(journals[d], journals'[d])
    BY TerminalAppendStep DEF TerminalBurn
<1>2. PICK m, g : m = markers' /\ g = handles[c]
    OBVIOUS
<1>3. PICK b \in BOOLEAN : b = (o = "ok")
    OBVIOUS
<1>4. PICK h : h = [BurnInMemory(g) EXCEPT !.recorded = b]
    OBVIOUS
<1>5. Goes(m, c, g, g)
    BY <1>2, GoesSame
<1>6. Goes(m, c, g, h) /\ h.checked = FALSE
    BY <1>5, <1>4, GoesRecorded
<1>7. Handle(c, h)
    BY <1>2, <1>3, <1>4 DEF TerminalBurn
<1>8. receipts' \subseteq Receipt /\ ReceiptsOK'
    BY ReceiptsKept
<1>9. StepOK
    BY <1>1, <1>2, <1>6, <1>7, <1>8, LocalStep
<1> QED
    BY <1>6, <1>7, <1>9, LocalUnchecked

-----------------------------------------------------------------------------
(* The actions *)

Kept == IInv' /\ Unchecked

\* A method that ends in append_or_burn and exposes nothing.
LEMMA QuietCommit ==
    ASSUME IInv, AuthKept, UNCHANGED <<receipts, history>>, NEW c \in Conns,
           NEW pending, Goes(markers', c, handles[c], pending),
           NEW done, Goes(markers', c, handles[c], done), done.state # "none",
           NEW r \in Record, NEW o \in Outcomes, Commit(c, pending, done, r, o)
    PROVE  Kept
<1>1. UNCHANGED <<receipts, opened, burned>> /\ exposed' = exposed
    BY DEF history
<1>2. StepOK /\ Unchecked
    BY <1>1, CommitStep
<1> QED
    BY <1>1, <1>2, QuietStep DEF Kept

\* A method that burns the connection.
LEMMA QuietBurn ==
    ASSUME IInv, AuthKept, UNCHANGED <<receipts, exposed, opened, burned>>, NEW c \in Conns,
           handles[c].state # "none", NEW o \in Outcomes, TerminalBurn(c, o)
    PROVE  Kept
<1>1. StepOK /\ Unchecked
    BY TerminalBurnStep
<1> QED
    BY <1>1, QuietStep DEF Kept

\* A checked handle is there and good.
LEMMA Start ==
    ASSUME IInv, AuthKept, NEW c \in Conns, handles[c].checked
    PROVE  /\ handles[c] \in HandleType /\ handles[c].state # "none"
           /\ Goes(markers', c, handles[c], handles[c])
BY GoesSame DEF IInv, Types, Authorized

\* activate
LEMMA ActivateStep ==
    ASSUME IInv, NEW c \in Conns, Activate(c)
    PROVE  Kept
<1>1. AuthKept
    BY AuthUnchanged DEF Activate
<1>2. PICK h, m : h = handles[c] /\ m = markers'
    OBVIOUS
<1>3. h \in HandleType /\ h.state # "none" /\ Goes(m, c, h, h)
    BY <1>1, <1>2, Start DEF Activate
<1>4. PICK o \in Outcomes :
          Commit(c, h, [h EXCEPT !.state = "active"], Mark("ACTIVE"), o)
    BY <1>2 DEF Activate
<1>5. PICK k, r : k = [h EXCEPT !.state = "active"] /\ r = Mark("ACTIVE")
    OBVIOUS
<1>6. /\ k \in HandleType /\ k.state = "active" /\ k.stages = h.stages /\ k.domains = h.domains
      /\ k.response = h.response /\ k.fresh = h.fresh
    BY <1>3, <1>5 DEF HandleType
<1>7. Goes(m, c, h, k)
    BY <1>3, <1>6, GoesLike
<1>8. r \in Record
    BY <1>5 DEF Mark, Rec, Record, Kinds
<1>9. UNCHANGED <<receipts, history>>
    BY DEF Activate
<1> QED
    BY <1>1, <1>2, <1>3, <1>4, <1>5, <1>6, <1>7, <1>8, <1>9, QuietCommit

\* register_stage_output_inner: a stage nobody registered yet.
LEMMA RegisteredGoes ==
    ASSUME NEW m, NEW c \in Conns, NEW g \in HandleType, NEW h, Goes(m, c, g, h),
           h.state # "none", NEW s \in Stages, NEW n \in Nat, h.stages[s].generated = 0,
           NEW k, k = Registered(h, s, n)
    PROVE  Goes(m, c, g, k) /\ k.state = h.state /\ k.stages[s].generated = n
           /\ \A t \in Stages : t # s => k.stages[t] = h.stages[t]
<1>1. PICK q : q = [NoCounters EXCEPT !.generated = n, !.available = n]
    OBVIOUS
<1>2. /\ q \in Counters /\ q.consumed + q.reserved + q.burned + q.available = q.generated
      /\ q.generated = n
    <2>1. /\ NoCounters \in Counters /\ NoCounters.consumed = 0 /\ NoCounters.reserved = 0
          /\ NoCounters.burned = 0
        BY DEF NoCounters, Counters
    <2>2. /\ q \in Counters /\ q.consumed = 0 /\ q.reserved = 0 /\ q.burned = 0
          /\ q.available = n /\ q.generated = n
        BY <1>1, <2>1 DEF Counters
    <2> QED
        BY <2>2
<1>3. h \in HandleType
    BY DEF Goes
<1>4. PICK p : p = [h.stages EXCEPT ![s] = q]
    OBVIOUS
<1>5. p \in [Stages -> Counters] /\ p[s] = q /\ \A t \in Stages : t # s => p[t] = h.stages[t]
    BY <1>2, <1>3, <1>4 DEF HandleType
<1>6. k = [h EXCEPT !.stages = p]
    BY <1>1, <1>4 DEF Registered
<1>7. /\ k \in HandleType /\ k.state = h.state /\ k.stages = p /\ k.domains = h.domains
      /\ k.response = h.response /\ k.fresh = h.fresh
    BY <1>3, <1>5, <1>6 DEF HandleType
<1>8. Goes(m, c, g, k)
    BY <1>2, <1>4, <1>7, GoesStage
<1> QED
    BY <1>2, <1>5, <1>7, <1>8

\* register_stage_output
LEMMA RegisterStageStep ==
    ASSUME IInv, NEW c \in Conns, NEW s \in Stages, NEW n \in Sizes, RegisterStage(c, s, n)
    PROVE  Kept
<1>1. AuthKept /\ handles[c].checked /\ n \in Nat
    BY AuthUnchanged, ConnAssumption DEF RegisterStage, BetweenResponses, ActiveHandle
<1>2. PICK h, m, k, r : /\ h = handles[c] /\ m = markers' /\ k = Registered(handles[c], s, n)
                        /\ r = Rec("STAGE", s, 0, n, None, None)
    OBVIOUS
<1>3. h \in HandleType /\ h.state # "none" /\ Goes(m, c, h, h)
    BY <1>1, <1>2, Start
<1>4. PICK o \in Outcomes : Commit(c, k, k, r, o)
    BY <1>2 DEF RegisterStage
<1>5. Goes(m, c, h, k) /\ k.state = h.state
    <2>1. h.stages[s].generated = 0 /\ k = Registered(h, s, n)
        BY <1>2 DEF RegisterStage
    <2> QED
        BY <1>1, <1>3, <2>1, RegisteredGoes
<1>6. r \in Record
    BY <1>1, <1>2 DEF Rec, Record, Kinds
<1>7. UNCHANGED <<receipts, history>>
    BY DEF RegisterStage
<1> QED
    BY <1>1, <1>2, <1>3, <1>4, <1>5, <1>6, <1>7, QuietCommit

\* register_refill_stage, which appends twice.
LEMMA RegisterRefillStep ==
    ASSUME IInv, NEW c \in Conns, NEW source \in Stages, NEW s \in Stages, NEW n \in Counts,
           NEW l \in Sizes, RegisterRefill(c, source, s, n, l)
    PROVE  Kept
<1>1. AuthKept /\ handles[c].checked /\ n \in Nat /\ l \in Nat
    BY AuthUnchanged, ConnAssumption DEF RegisterRefill, BetweenResponses, ActiveHandle
<1>2. PICK h, m, k, x, r, q :
          /\ h = handles[c] /\ m = markers' /\ k = Registered(handles[c], s, l)
          /\ x = Activated(k, source, n)
          /\ r = Rec("STAGE", s, 0, l, None, None)
          /\ q = Rec("BASE_INPUTS_CONSUMED", source, 0, n, s, None)
    OBVIOUS
<1>3. h \in HandleType /\ h.state # "none" /\ Goes(m, c, h, h)
    BY <1>1, <1>2, Start
<1>4. Goes(m, c, h, k) /\ k.state = h.state
    <2>1. h.stages[s].generated = 0 /\ k = Registered(h, s, l)
        BY <1>2 DEF RegisterRefill
    <2> QED
        BY <1>1, <1>3, <2>1, RegisteredGoes
<1>5. r \in Record /\ q \in Record
    BY <1>1, <1>2 DEF Rec, Record, Kinds
<1>6. Goes(m, c, h, x) /\ x.state = h.state
    <2>1. k \in HandleType
        BY <1>4 DEF Goes
    <2>2. PICK a \in Nat : a = k.activated[source] + n
        BY <1>1, <2>1 DEF HandleType
    <2>3. x = [k EXCEPT !.activated[source] = a]
        BY <1>2, <2>2 DEF Activated
    <2>4. PICK p : p = [k.activated EXCEPT ![source] = a]
        OBVIOUS
    <2>5. p \in [Stages -> Nat] /\ x = [k EXCEPT !.activated = p]
        BY <2>1, <2>3, <2>4 DEF HandleType
    <2>6. /\ x \in HandleType /\ x.state = k.state /\ x.stages = k.stages
          /\ x.domains = k.domains /\ x.response = k.response /\ x.fresh = k.fresh
        BY <2>1, <2>5 DEF HandleType
    <2> QED
        BY <1>3, <1>4, <2>6, GoesLike
<1>7. UNCHANGED <<receipts, history>>
    BY DEF RegisterRefill
<1>8. CASE \E o \in Faults : Commit(c, k, k, r, o)
    <2>1. PICK o \in Outcomes : Commit(c, k, k, r, o)
        BY <1>8 DEF Outcomes
    <2> QED
        BY <1>1, <1>2, <1>3, <1>4, <1>5, <1>7, <2>1, QuietCommit
<1>9. CASE \E o \in Outcomes :
              /\ journals' = [journals EXCEPT ![c] = Appended(Appended(@, r, "ok"), q, o)]
              /\ Handle(c, IF o = "ok" THEN [x EXCEPT !.checked = FALSE] ELSE BurnInMemory(x))
    <2>1. PICK o \in Outcomes :
              /\ journals' = [journals EXCEPT ![c] = Appended(Appended(@, r, "ok"), q, o)]
              /\ Handle(c, IF o = "ok" THEN [x EXCEPT !.checked = FALSE] ELSE BurnInMemory(x))
        BY <1>9
    <2>2. /\ journals \in [Conns -> Journal] /\ journals[c] \in Journal
          /\ journals[c].synced <= Len(journals[c].log)
        BY DEF IInv, Types, JournalOK
    <2>3. PICK i, j, w : i = journals[c] /\ j = Appended(i, r, "ok") /\ w = Appended(j, q, o)
        OBVIOUS
    <2>4. Retains(i, j) /\ j \in Journal /\ j.synced <= Len(j.log)
        <3>1. "ok" \in Outcomes
            BY DEF Outcomes
        <3>2. Retains(i, j)
            BY <1>5, <2>2, <2>3, <3>1, AppendedFacts
        <3> QED
            BY <3>2 DEF Retains
    <2>5. Retains(j, w)
        BY <1>5, <2>3, <2>4, AppendedFacts
    <2>6. Retains(i, w)
        BY <2>2, <2>3, <2>4, <2>5, RetainsTransitive
    <2>7. journals' = [journals EXCEPT ![c] = w]
        BY <2>1, <2>2, <2>3
    <2>8. /\ journals' \in [Conns -> Journal]
          /\ \A d \in Conns : Retains(journals[d], journals'[d])
        BY <2>3, <2>6, <2>7, JournalsStep
    <2>9. PICK y : y = IF o = "ok" THEN [x EXCEPT !.checked = FALSE] ELSE BurnInMemory(x)
        OBVIOUS
    <2>10. Goes(m, c, h, y) /\ y.checked = FALSE
        <3>1. CASE o = "ok"
            BY <1>3, <1>6, <2>9, <3>1, GoesDone
        <3>2. CASE o # "ok"
            BY <1>6, <2>9, <3>2, GoesBurned
        <3> QED
            BY <3>1, <3>2
    <2>11. Handle(c, y) /\ UNCHANGED <<receipts, opened, burned>> /\ exposed' = exposed
        BY <1>7, <2>1, <2>9 DEF history
    <2>12. StepOK
        BY <1>1, <1>2, <2>8, <2>10, <2>11, LocalStep, ReceiptsKept
    <2>13. Unchecked
        BY <2>10, <2>11, LocalUnchecked
    <2> QED
        BY <2>11, <2>12, <2>13, QuietStep DEF Kept
<1> QED
    BY <1>2, <1>8, <1>9 DEF RegisterRefill

\* A method that ends in append_or_burn and returns the range of its record.
LEMMA ExposeCommit ==
    ASSUME IInv, AuthKept, UNCHANGED <<receipts, opened, burned>>, NEW c \in Conns,
           handles[c].state # "none",
           NEW pending, Goes(markers', c, handles[c], pending),
           NEW done, Goes(markers', c, handles[c], done), done.state # "none",
           NEW r \in Record, PaidFor(markers', c, r), Takes(handles[c], r), Covers(done, r),
           NEW o \in Outcomes, Commit(c, pending, done, r, o), Expose(c, r, o)
    PROVE  Kept
<1>1. StepOK /\ Unchecked
    BY CommitStep
<1>2. CASE o # "ok"
    <2>1. exposed' = exposed
        BY <1>2 DEF Expose
    <2> QED
        BY <1>1, <2>1, QuietStep DEF Kept
<1>3. CASE o = "ok"
    <2>1. PICK h : h = [done EXCEPT !.checked = FALSE]
        OBVIOUS
    <2>2. handles'[c] = h
        BY <1>3, <2>1 DEF Commit, Handle, IInv, Types
    <2>3. h.stages = done.stages /\ h.domains = done.domains
        BY <2>1 DEF Goes, HandleType
    <2>4. Covers(handles'[c], r)
        BY <2>2, <2>3 DEF Covers
    <2>5. journals' = [journals EXCEPT ![c] = Appended(@, r, "ok")]
        BY <1>3 DEF Commit
    <2>6. exposed' = exposed \cup {[conn |-> c, at |-> Len(journals[c].log) + 1, rec |-> r]}
        BY <1>3 DEF Expose
    <2>7. IInv'
        BY <1>1, <2>4, <2>5, <2>6, ExposeStep
    <2> QED
        BY <1>1, <2>7 DEF Kept
<1> QED
    BY <1>2, <1>3

\* Stage s of a handle is counted anew, nothing else changes.
Counted(h, s, q) == [h EXCEPT !.stages[s] = q]

\* Counters may grow within what was generated.
Grows(p, q) ==
    /\ q \in Counters
    /\ q.consumed + q.reserved + q.burned + q.available = q.generated
    /\ q.generated = p.generated /\ q.consumed >= p.consumed /\ q.reserved >= p.reserved

\* A handle with a stage counted anew goes on from the old one.
LEMMA CountedGoes ==
    ASSUME NEW m, NEW c \in Conns, NEW h \in HandleType, Goes(m, c, h, h), h.state # "none",
           NEW s \in Stages, NEW q, Grows(h.stages[s], q), NEW k, k = Counted(h, s, q)
    PROVE  /\ Goes(m, c, h, k) /\ k.state = h.state
           /\ k.stages[s] = q /\ k.domains = h.domains
<1>1. PICK p : p = [h.stages EXCEPT ![s] = q]
    OBVIOUS
<1>2. p \in [Stages -> Counters] /\ p[s] = q
    BY <1>1 DEF HandleType, Grows
<1>3. k = [h EXCEPT !.stages = p]
    BY <1>1 DEF Counted
<1>4. /\ k \in HandleType /\ k.stages = p /\ k.state = h.state /\ k.domains = h.domains
      /\ k.response = h.response /\ k.fresh = h.fresh
    BY <1>2, <1>3 DEF HandleType
<1>5. Goes(m, c, h, k)
    BY <1>1, <1>4, GoesStage DEF Grows
<1> QED
    BY <1>2, <1>4, <1>5

\* The counters of a stage of a live handle.
LEMMA StageFacts ==
    ASSUME NEW h \in HandleType, Balanced(h), NEW s \in Stages, NEW p, p = h.stages[s]
    PROVE  /\ p \in Counters
           /\ p.consumed \in Nat /\ p.reserved \in Nat /\ p.burned \in Nat /\ p.available \in Nat
           /\ p.generated \in Nat
           /\ p.consumed + p.reserved + p.burned + p.available = p.generated
<1>1. p \in Counters
    BY DEF HandleType
<1> QED
    BY <1>1 DEF Counters, Balanced

\* reserve_as_base
LEMMA ReserveAsBaseStep ==
    ASSUME IInv, NEW c \in Conns, NEW s \in Stages, NEW n \in Counts, ReserveAsBase(c, s, n)
    PROVE  Kept
<1>1. AuthKept /\ handles[c].checked /\ n \in Nat /\ n # 0
    BY AuthUnchanged, ConnAssumption DEF ReserveAsBase, BetweenResponses, ActiveHandle
<1>2. PICK h, m, p : h = handles[c] /\ m = markers' /\ p = handles[c].stages[s]
    OBVIOUS
<1>3. h \in HandleType /\ h.state # "none" /\ Goes(m, c, h, h) /\ Balanced(h)
    BY <1>1, <1>2, Start DEF Goes
<1>4. /\ p \in Counters
      /\ p.consumed \in Nat /\ p.reserved \in Nat /\ p.burned \in Nat /\ p.available \in Nat
      /\ p.generated \in Nat
      /\ p.consumed + p.reserved + p.burned + p.available = p.generated
    BY <1>2, <1>3, StageFacts
<1>5. /\ p.generated # 0 /\ n <= p.available
      /\ p.generated - (p.reserved + n) >= p.consumed
    BY <1>2 DEF ReserveAsBase, BaseStart
<1>6. PICK a \in Nat, b \in Nat, st \in Nat :
          a = p.reserved + n /\ b = p.available - n /\ st = p.generated - (p.reserved + n)
    <2>1. /\ p.reserved + n \in Nat /\ p.available - n \in Nat
          /\ p.generated - (p.reserved + n) \in Nat
        BY <1>1, <1>4, <1>5
    <2> QED
        BY <2>1
<1>7. PICK q : q = [p EXCEPT !.reserved = a, !.available = b]
    OBVIOUS
<1>8. /\ q \in Counters /\ q.consumed = p.consumed /\ q.reserved = a /\ q.available = b
      /\ q.burned = p.burned /\ q.generated = p.generated
    BY <1>4, <1>7 DEF Counters
<1>9. PICK k, r : k = Counted(h, s, q)
                  /\ r = Rec("RESERVED_AS_BASE", s, st, n, None, None)
    OBVIOUS
<1>10. PICK o \in Outcomes : Commit(c, k, k, r, o) /\ Expose(c, r, o)
    <2>1. [handles[c] EXCEPT !.stages[s] =
              [handles[c].stages[s] EXCEPT !.reserved = @ + n, !.available = @ - n]] = k
        <3>1. [p EXCEPT !.reserved = @ + n, !.available = @ - n] = q
            BY <1>6, <1>7
        <3> QED
            BY <1>2, <1>9, <3>1 DEF Counted
    <2>2. Rec("RESERVED_AS_BASE", s, BaseStart(handles[c].stages[s], n), n, None, None) = r
        BY <1>2, <1>6, <1>9 DEF BaseStart
    <2> QED
        BY <2>1, <2>2 DEF ReserveAsBase
<1>11. Grows(p, q)
    <2>1. /\ q.consumed + q.reserved + q.burned + q.available = q.generated
          /\ q.consumed >= p.consumed /\ q.reserved >= p.reserved
        BY <1>1, <1>4, <1>5, <1>6, <1>8
    <2> QED
        BY <1>8, <2>1 DEF Grows
<1>12. Goes(m, c, h, k) /\ k.state = h.state /\ k.stages[s] = q /\ k.domains = h.domains
    BY <1>2, <1>3, <1>9, <1>11, CountedGoes
<1>13. /\ r \in Record /\ r.kind = "RESERVED_AS_BASE" /\ r.stage = s /\ r.start = st
       /\ r.count = n /\ r.key = None /\ ~r.glued
    BY <1>1, <1>9 DEF Rec, Record, Kinds
<1>14. PaidFor(m, c, r)
    BY <1>1, <1>13 DEF PaidFor
<1>15. Takes(h, r)
    <2>1. st + n + p.reserved = p.generated /\ st >= p.consumed
        BY <1>1, <1>4, <1>5, <1>6
    <2> QED
        BY <1>2, <1>13, <2>1 DEF Takes
<1>16. Covers(k, r)
    <2>1. q.generated <= st + q.reserved /\ st + n <= q.generated
        BY <1>1, <1>4, <1>5, <1>6, <1>8
    <2> QED
        BY <1>12, <1>13, <2>1 DEF Covers
<1>17. UNCHANGED <<receipts, opened, burned>>
    BY DEF ReserveAsBase
<1> QED
    BY <1>1, <1>2, <1>3, <1>10, <1>11, <1>12, <1>13, <1>14, <1>15, <1>16, <1>17, ExposeCommit

\* burn_stage_output
LEMMA BurnStageOutputStep ==
    ASSUME IInv, NEW c \in Conns, NEW s \in Stages, NEW n \in Counts, BurnStageOutput(c, s, n)
    PROVE  Kept
<1>1. AuthKept /\ handles[c].checked /\ n \in Nat /\ n # 0
    BY AuthUnchanged, ConnAssumption DEF BurnStageOutput, BetweenResponses, ActiveHandle
<1>2. PICK h, m, p : h = handles[c] /\ m = markers' /\ p = handles[c].stages[s]
    OBVIOUS
<1>3. h \in HandleType /\ h.state # "none" /\ Goes(m, c, h, h) /\ Balanced(h)
    BY <1>1, <1>2, Start DEF Goes
<1>4. /\ p \in Counters
      /\ p.consumed \in Nat /\ p.reserved \in Nat /\ p.burned \in Nat /\ p.available \in Nat
      /\ p.generated \in Nat
      /\ p.consumed + p.reserved + p.burned + p.available = p.generated
    BY <1>2, <1>3, StageFacts
<1>5. n <= p.available
    BY <1>2 DEF BurnStageOutput
<1>6. PICK a \in Nat, b \in Nat : a = p.burned + n /\ b = p.available - n
    <2>1. p.burned + n \in Nat /\ p.available - n \in Nat
        BY <1>1, <1>4, <1>5
    <2> QED
        BY <2>1
<1>7. PICK q : q = [p EXCEPT !.burned = a, !.available = b]
    OBVIOUS
<1>8. /\ q \in Counters /\ q.consumed = p.consumed /\ q.reserved = p.reserved /\ q.available = b
      /\ q.burned = a /\ q.generated = p.generated
    BY <1>4, <1>7 DEF Counters
<1>9. PICK k, r : k = Counted(h, s, q)
                  /\ r = Rec("STAGE_OUTPUT_BURN", s, a, n, None, None)
    OBVIOUS
<1>10. PICK o \in Outcomes : Commit(c, k, k, r, o)
    <2>1. [handles[c] EXCEPT !.stages[s] =
              [handles[c].stages[s] EXCEPT !.burned = @ + n, !.available = @ - n]] = k
        <3>1. [p EXCEPT !.burned = @ + n, !.available = @ - n] = q
            BY <1>6, <1>7
        <3> QED
            BY <1>2, <1>9, <3>1 DEF Counted
    <2>2. Rec("STAGE_OUTPUT_BURN", s, handles[c].stages[s].burned + n, n, None, None) = r
        BY <1>2, <1>6, <1>9
    <2> QED
        BY <2>1, <2>2 DEF BurnStageOutput
<1>11. Grows(p, q)
    <2>1. /\ q.consumed + q.reserved + q.burned + q.available = q.generated
          /\ q.consumed >= p.consumed /\ q.reserved >= p.reserved
        BY <1>1, <1>4, <1>5, <1>6, <1>8
    <2> QED
        BY <1>8, <2>1 DEF Grows
<1>12. Goes(m, c, h, k) /\ k.state = h.state /\ k.stages[s] = q /\ k.domains = h.domains
    BY <1>2, <1>3, <1>9, <1>11, CountedGoes
<1>13. r \in Record
    BY <1>1, <1>9 DEF Rec, Record, Kinds
<1>14. UNCHANGED <<receipts, history>>
    BY DEF BurnStageOutput
<1> QED
    BY <1>1, <1>2, <1>3, <1>10, <1>11, <1>12, <1>13, <1>14, QuietCommit

\* install_authorized_response: the nonce is burned durably.
LEMMA InstalledGoes ==
    ASSUME NEW m, NEW c \in Conns, NEW h \in HandleType, Goes(m, c, h, h), h.state # "none",
           NEW nonce \in Keys, m[nonce] = "durable", NEW k, k = Installed(h, nonce)
    PROVE  Goes(m, c, h, k) /\ k.state # "none"
<1>1. /\ k \in HandleType /\ k.state = h.state /\ k.stages = h.stages /\ k.domains = h.domains
      /\ k.response = nonce /\ k.fresh = h.fresh
    BY DEF Installed, HandleType
<1> QED
    BY <1>1 DEF Goes, Balanced, Authorized, Continues

\* The nonce of a binding is a key.
LEMMA NonceFacts ==
    ASSUME NEW b \in Bindings
    PROVE  b \in Seq(Keys) /\ Len(b) \in 1..Len(b) /\ Nonce(b) \in Keys
<1>1. b \in Seq(Keys) /\ b # <<>>
    BY ConnAssumption
<1>2. Len(b) \in Nat /\ Len(b) # 0
    BY <1>1, EmptySeq, LenProperties
<1>3. Len(b) \in 1..Len(b)
    BY <1>2
<1> QED
    BY <1>1, <1>3, ElementOfSeq DEF Nonce

\* begin_response, begin_x4_response
LEMMA BeginResponseStep ==
    ASSUME IInv, NEW c \in Conns, NEW b \in Bindings, BeginResponse(c, b)
    PROVE  Kept
<1>1. b \in Seq(Keys) /\ Len(b) \in 1..Len(b) /\ Nonce(b) \in Keys
    BY NonceFacts
<1>2. AuthKept /\ markers'[Nonce(b)] = "durable" /\ handles[c].checked
    BY <1>1, ReserveKeeps DEF BeginResponse, BetweenResponses, ActiveHandle, Nonce
<1>3. PICK h, m, k, r : /\ h = handles[c] /\ m = markers' /\ k = Installed(handles[c], Nonce(b))
                        /\ r = Rec("RESPONSE_BEGIN", None, 0, 0, Nonce(b), None)
    OBVIOUS
<1>4. h \in HandleType /\ h.state # "none" /\ Goes(m, c, h, h)
    BY <1>2, <1>3, Start
<1>5. PICK o \in Outcomes : Commit(c, k, k, r, o)
    BY <1>3 DEF BeginResponse
<1>6. Goes(m, c, h, k) /\ k.state # "none"
    BY <1>1, <1>2, <1>3, <1>4, InstalledGoes
<1>7. r \in Record
    BY <1>1, <1>3 DEF Rec, Record, Kinds
<1>8. UNCHANGED <<receipts, history>>
    BY DEF BeginResponse
<1> QED
    BY <1>2, <1>3, <1>5, <1>6, <1>7, <1>8, QuietCommit

\* begin_response whose reservation fails
LEMMA BeginResponseDeniedStep ==
    ASSUME IInv, NEW c \in Conns, NEW b \in Bindings, BeginResponseDenied(c, b)
    PROVE  Kept
<1>1. b \in Seq(Keys)
    BY NonceFacts
<1>2. AuthKept /\ handles[c].state # "none"
    BY <1>1, ReserveFailsKeeps DEF BeginResponseDenied, BetweenResponses, ActiveHandle
<1>3. PICK o \in Outcomes : TerminalBurn(c, o)
    BY DEF BeginResponseDenied
<1>4. UNCHANGED <<receipts, exposed, opened, burned>>
    BY DEF BeginResponseDenied, history
<1> QED
    BY <1>2, <1>3, <1>4, QuietBurn

\* Handle k is handle h once n more correlations of stage s belong to a domain.
Took(m, c, h, k, s, n, key, tag) ==
    /\ Goes(m, c, h, k) /\ k.state = h.state
    /\ k.stages[s].consumed = h.stages[s].consumed + n
    /\ <<key, tag>> \in k.domains

\* consume_correlation_range
LEMMA ConsumedGoes ==
    ASSUME NEW m, NEW c \in Conns, NEW h \in HandleType, Goes(m, c, h, h), h.state # "none",
           NEW s \in Stages, NEW n \in Nat, NEW key, key \in Keys \/ key \in Nat, NEW tag \in Tags,
           CanConsume(h, s, n, key, tag), NEW k, k = Consumed(h, s, n, key, tag)
    PROVE  Took(m, c, h, k, s, n, key, tag)
<1>1. PICK p : p = h.stages[s]
    OBVIOUS
<1>2. /\ p \in Counters
      /\ p.consumed \in Nat /\ p.reserved \in Nat /\ p.burned \in Nat /\ p.available \in Nat
      /\ p.generated \in Nat
      /\ p.consumed + p.reserved + p.burned + p.available = p.generated
    BY <1>1, StageFacts DEF Goes
<1>3. n <= p.available
    BY <1>1 DEF CanConsume
<1>4. PICK a \in Nat, b \in Nat : a = p.consumed + n /\ b = p.available - n
    <2>1. p.consumed + n \in Nat /\ p.available - n \in Nat
        BY <1>2, <1>3
    <2> QED
        BY <2>1
<1>5. PICK q : q = [p EXCEPT !.consumed = a, !.available = b]
    OBVIOUS
<1>6. /\ q \in Counters /\ q.consumed = a /\ q.reserved = p.reserved /\ q.available = b
      /\ q.burned = p.burned /\ q.generated = p.generated
    BY <1>2, <1>5 DEF Counters
<1>7. Grows(p, q)
    <2>1. /\ q.consumed + q.reserved + q.burned + q.available = q.generated
          /\ q.consumed >= p.consumed /\ q.reserved >= p.reserved
        BY <1>2, <1>3, <1>4, <1>6
    <2> QED
        BY <1>6, <2>1 DEF Grows
<1>8. PICK ds : ds = h.domains \cup {<<key, tag>>}
    OBVIOUS
<1>9. PICK x : x = Counted(h, s, q)
    OBVIOUS
<1>10. Goes(m, c, h, x) /\ x.state = h.state /\ x.stages[s] = q /\ x.domains = h.domains
    BY <1>1, <1>7, <1>9, CountedGoes
<1>11. k = [x EXCEPT !.domains = ds]
    BY <1>1, <1>4, <1>5, <1>8, <1>9 DEF Consumed, Counted
<1>12. x \in HandleType
    BY <1>10 DEF Goes
<1>13. ds \in SUBSET ((Keys \cup Nat) \X Tags)
    BY <1>8 DEF HandleType
<1>14. /\ k \in HandleType /\ k.state = x.state /\ k.stages = x.stages /\ k.domains = ds
       /\ k.response = x.response /\ k.fresh = x.fresh /\ k.checked = x.checked
    BY <1>11, <1>12, <1>13 DEF HandleType
<1>15. Goes(m, c, h, k)
    <2>1. h.domains \subseteq ds
        BY <1>8
    <2> QED
        BY <1>10, <1>14, <2>1 DEF Goes, Balanced, Authorized, Continues
<1> QED
    BY <1>1, <1>4, <1>6, <1>8, <1>10, <1>14, <1>15 DEF Took

\* allocate
LEMMA AllocateStep ==
    ASSUME IInv, NEW c \in Conns, NEW s \in Stages, NEW n \in Counts, NEW tag \in Tags,
           Allocate(c, s, n, tag)
    PROVE  Kept
<1>1. AuthKept /\ handles[c].checked /\ n \in Nat /\ n # 0
    BY AuthUnchanged, ConnAssumption DEF Allocate, ActiveHandle
<1>2. PICK h, m, key : h = handles[c] /\ m = markers' /\ key = handles[c].response
    OBVIOUS
<1>3. h \in HandleType /\ h.state # "none" /\ Goes(m, c, h, h)
    BY <1>1, <1>2, Start
<1>4. key \in Keys /\ m[key] = "durable" /\ CanConsume(h, s, n, key, tag)
    BY <1>2, <1>3 DEF Allocate, HandleType, Goes, Authorized
<1>5. PICK k, x, r :
          /\ k = Consumed(h, s, n, key, tag)
          /\ x = [k EXCEPT !.spent = @ + n]
          /\ r = Rec("ALLOCATE", s, h.stages[s].consumed, n, key, tag)
    OBVIOUS
<1>6. PICK o \in Outcomes : Commit(c, x, x, r, o) /\ Expose(c, r, o)
    BY <1>2, <1>5 DEF Allocate
<1>7. /\ Goes(m, c, h, k) /\ k.state = h.state
      /\ k.stages[s].consumed = h.stages[s].consumed + n /\ <<key, tag>> \in k.domains
    <2>1. Took(m, c, h, k, s, n, key, tag)
        BY <1>1, <1>3, <1>4, <1>5, ConsumedGoes
    <2> QED
        BY <2>1 DEF Took
<1>8. PICK a \in Nat : a = k.spent + n
    BY <1>1, <1>7 DEF Goes, HandleType
<1>9. /\ x \in HandleType /\ x.state = k.state /\ x.stages = k.stages /\ x.domains = k.domains
      /\ x.response = k.response /\ x.fresh = k.fresh
    <2>1. k \in HandleType /\ x = [k EXCEPT !.spent = a]
        BY <1>5, <1>7, <1>8 DEF Goes
    <2> QED
        BY <2>1 DEF HandleType
<1>10. Goes(m, c, h, x)
    BY <1>3, <1>7, <1>9, GoesLike
<1>11. h.stages[s].consumed \in Nat
    BY <1>3, StageFacts DEF Goes
<1>12. /\ r \in Record /\ r.kind = "ALLOCATE" /\ r.stage = s /\ r.start = h.stages[s].consumed
       /\ r.count = n /\ r.key = key /\ r.tag = tag /\ ~r.glued
    BY <1>1, <1>4, <1>5, <1>11 DEF Rec, Record, Kinds
<1>13. PaidFor(m, c, r)
    BY <1>1, <1>4, <1>12 DEF PaidFor
<1>14. Takes(h, r)
    BY <1>4, <1>12 DEF Takes, CanConsume
<1>15. Covers(x, r)
    <2>1. x.stages[s].consumed = h.stages[s].consumed + n /\ <<key, tag>> \in x.domains
        BY <1>7, <1>9
    <2> QED
        BY <1>1, <1>11, <1>12, <2>1 DEF Covers
<1>16. UNCHANGED <<receipts, opened, burned>>
    BY DEF Allocate
<1> QED
    BY <1>1, <1>2, <1>3, <1>6, <1>9, <1>10, <1>12, <1>13, <1>14, <1>15, <1>16, <1>7, ExposeCommit

\* allocate_x4d_settlement
LEMMA AllocateSettlementStep ==
    ASSUME IInv, NEW c \in Conns, NEW s \in Stages, NEW n \in Counts, NEW tag \in Tags,
           AllocateSettlement(c, s, n, tag)
    PROVE  Kept
<1>1. AuthKept /\ handles[c].checked /\ n \in Nat /\ n # 0
    BY AuthUnchanged, ConnAssumption DEF AllocateSettlement, BetweenResponses, ActiveHandle
<1>2. PICK h, m, key : h = handles[c] /\ m = markers' /\ key = handles[c].fresh.epoch
    OBVIOUS
<1>3. h \in HandleType /\ h.state # "none" /\ Goes(m, c, h, h)
    BY <1>1, <1>2, Start
<1>4. key \in 1..MaxEpoch /\ m[<<c, key>>] = "durable" /\ CanConsume(h, s, n, key, tag)
    BY <1>2, <1>3 DEF AllocateSettlement, Goes, Authorized
<1>5. PICK k, x, r :
          /\ k = Consumed(h, s, n, key, tag)
          /\ x = [k EXCEPT !.paid = @ + n]
          /\ r = Rec("SETTLEMENT_ALLOCATE", s, h.stages[s].consumed, n, key, tag)
    OBVIOUS
<1>6. PICK o \in Outcomes : Commit(c, k, x, r, o) /\ Expose(c, r, o)
    BY <1>2, <1>5 DEF AllocateSettlement
<1>7. key \in Nat
    BY <1>4, ConnAssumption
<1>8. /\ Goes(m, c, h, k) /\ k.state = h.state
      /\ k.stages[s].consumed = h.stages[s].consumed + n /\ <<key, tag>> \in k.domains
    <2>1. CanConsume(h, s, n, key, tag) /\ (key \in Keys \/ key \in Nat)
        BY <1>4, <1>7
    <2>2. k = Consumed(h, s, n, key, tag) /\ n \in Nat
        BY <1>1, <1>5
    <2>3. Took(m, c, h, k, s, n, key, tag)
        BY <1>3, <2>1, <2>2, ConsumedGoes
    <2> QED
        BY <2>3 DEF Took
<1>9. PICK a \in Nat : a = k.paid + n
    BY <1>1, <1>8 DEF Goes, HandleType
<1>10. /\ x \in HandleType /\ x.state = k.state /\ x.stages = k.stages /\ x.domains = k.domains
       /\ x.response = k.response /\ x.fresh = k.fresh
    <2>1. k \in HandleType /\ x = [k EXCEPT !.paid = a]
        BY <1>5, <1>8, <1>9 DEF Goes
    <2> QED
        BY <2>1 DEF HandleType
<1>11. Goes(m, c, h, x)
    BY <1>3, <1>8, <1>10, GoesLike
<1>12. h.stages[s].consumed \in Nat
    BY <1>3, StageFacts DEF Goes
<1>13. /\ r \in Record /\ r.kind = "SETTLEMENT_ALLOCATE" /\ r.stage = s
       /\ r.start = h.stages[s].consumed
       /\ r.count = n /\ r.key = key /\ r.tag = tag /\ ~r.glued
    BY <1>1, <1>5, <1>7, <1>12 DEF Rec, Record, Kinds
<1>14. PaidFor(m, c, r)
    BY <1>1, <1>4, <1>13 DEF PaidFor
<1>15. Takes(h, r)
    BY <1>4, <1>13 DEF Takes, CanConsume
<1>16. Covers(x, r)
    <2>1. x.stages[s].consumed = h.stages[s].consumed + n /\ <<key, tag>> \in x.domains
        BY <1>8, <1>10
    <2> QED
        BY <1>1, <1>12, <1>13, <2>1 DEF Covers
<1>17. UNCHANGED <<receipts, opened, burned>>
    BY DEF AllocateSettlement
<1> QED
    BY <1>1, <1>2, <1>3, <1>6, <1>8, <1>10, <1>11, <1>13, <1>14, <1>15, <1>16, <1>17, ExposeCommit

\* record_channel_frame, ingest_serialized_frame
LEMMA RecordFrameStep ==
    ASSUME IInv, NEW c \in Conns, RecordFrame(c)
    PROVE  Kept
<1>1. AuthKept /\ handles[c].checked
    BY AuthUnchanged DEF RecordFrame, ActiveHandle
<1>2. PICK h, m, k : h = handles[c] /\ m = markers' /\ k = FrameCounted(handles[c])
    OBVIOUS
<1>3. h \in HandleType /\ h.state # "none" /\ Goes(m, c, h, h)
    BY <1>1, <1>2, Start
<1>4. PICK r : r = Rec("CHANNEL", None, 0, 0, k.response, None)
    OBVIOUS
<1>5. PICK o \in Outcomes : Commit(c, k, k, r, o)
    BY <1>2, <1>4 DEF RecordFrame
<1>6. PICK a \in Nat : a = h.frames + 1
    BY <1>3 DEF HandleType
<1>7. k = [h EXCEPT !.frames = a]
    BY <1>2, <1>6 DEF FrameCounted
<1>8. /\ k \in HandleType /\ k.state = h.state /\ k.stages = h.stages /\ k.domains = h.domains
      /\ k.response = h.response /\ k.fresh = h.fresh
    BY <1>3, <1>7 DEF HandleType
<1>9. Goes(m, c, h, k)
    BY <1>3, <1>8, GoesLike
<1>10. r \in Record
    BY <1>3, <1>4, <1>8 DEF Rec, Record, Kinds, HandleType
<1>11. UNCHANGED <<receipts, history>>
    BY DEF RecordFrame
<1> QED
    BY <1>1, <1>2, <1>3, <1>5, <1>8, <1>9, <1>10, <1>11, QuietCommit

\* finish_response_success, finish_response_abort, finish_x4d_response_pending
LEMMA FinishResponseStep ==
    ASSUME IInv, NEW c \in Conns, NEW kind \in {"RESPONSE_SUCCESS", "RESPONSE_ABORT"},
           FinishResponse(c, kind)
    PROVE  Kept
<1>1. AuthKept /\ handles[c].checked
    BY AuthUnchanged DEF FinishResponse, ActiveHandle
<1>2. PICK h, m : h = handles[c] /\ m = markers'
    OBVIOUS
<1>3. h \in HandleType /\ h.state # "none" /\ Goes(m, c, h, h)
    BY <1>1, <1>2, Start
<1>4. PICK k, r : /\ k = [h EXCEPT !.response = None]
                  /\ r = Rec(kind, None, h.frames, h.spent, h.response, None)
    OBVIOUS
<1>5. PICK o \in Outcomes : Commit(c, h, k, r, o)
    BY <1>2, <1>4 DEF FinishResponse
<1>6. /\ k \in HandleType /\ k.state = h.state /\ k.stages = h.stages /\ k.domains = h.domains
      /\ k.response = None /\ k.fresh = h.fresh
    BY <1>3, <1>4 DEF HandleType
<1>7. Goes(m, c, h, k)
    BY <1>3, <1>6, GoesLike
<1>8. r \in Record
    BY <1>3, <1>4 DEF Rec, Record, Kinds, HandleType
<1>9. UNCHANGED <<receipts, history>>
    BY DEF FinishResponse
<1> QED
    BY <1>1, <1>2, <1>3, <1>5, <1>6, <1>7, <1>8, <1>9, QuietCommit

\* record_x4d_claims_frozen
LEMMA FreezeClaimsStep ==
    ASSUME IInv, NEW c \in Conns, NEW n \in Claims, FreezeClaims(c, n)
    PROVE  Kept
<1>1. AuthKept /\ handles[c].checked /\ n \in Nat
    BY AuthUnchanged, ConnAssumption DEF FreezeClaims, ActiveHandle
<1>2. PICK h, m : h = handles[c] /\ m = markers'
    OBVIOUS
<1>3. h \in HandleType /\ h.state # "none" /\ Goes(m, c, h, h)
    BY <1>1, <1>2, Start
<1>4. PICK k, r : /\ k = [h EXCEPT !.frozen = @ + n, !.froze = TRUE]
                  /\ r = Rec("CLAIMS_FROZEN", None, h.frozen, n, h.response, None)
    OBVIOUS
<1>5. PICK o \in Outcomes : Commit(c, h, k, r, o)
    BY <1>2, <1>4 DEF FreezeClaims
<1>6. PICK a \in Nat : a = h.frozen + n
    BY <1>1, <1>3 DEF HandleType
<1>7. k = [h EXCEPT !.frozen = a, !.froze = TRUE]
    BY <1>4, <1>6
<1>8. /\ k \in HandleType /\ k.state = h.state /\ k.stages = h.stages /\ k.domains = h.domains
      /\ k.response = h.response /\ k.fresh = h.fresh
    BY <1>3, <1>7 DEF HandleType
<1>9. Goes(m, c, h, k)
    BY <1>3, <1>8, GoesLike
<1>10. r \in Record
    BY <1>1, <1>3, <1>4 DEF Rec, Record, Kinds, HandleType
<1>11. UNCHANGED <<receipts, history>>
    BY DEF FreezeClaims
<1> QED
    BY <1>1, <1>2, <1>3, <1>5, <1>8, <1>9, <1>10, <1>11, QuietCommit

\* seal_x4d_settlement
LEMMA SealSettlementStep ==
    ASSUME IInv, NEW c \in Conns, NEW n \in Claims, SealSettlement(c, n)
    PROVE  Kept
<1>1. AuthKept /\ handles[c].checked /\ n \in Nat
    BY AuthUnchanged, ConnAssumption DEF SealSettlement, BetweenResponses, ActiveHandle
<1>2. PICK h, m : h = handles[c] /\ m = markers'
    OBVIOUS
<1>3. h \in HandleType /\ h.state # "none" /\ Goes(m, c, h, h)
    BY <1>1, <1>2, Start
<1>4. PICK seal, k, r : /\ seal = [epoch |-> h.epoch, first |-> h.verified, count |-> n]
                        /\ k = [h EXCEPT !.epoch = @ + 1, !.seal = seal]
                        /\ r = Rec("SETTLEMENT_SEAL", None, h.verified, n, h.epoch, None)
    OBVIOUS
<1>5. PICK o \in Outcomes : Commit(c, h, k, r, o)
    BY <1>2, <1>4 DEF SealSettlement
<1>6. h.epoch \in Nat /\ h.verified \in Nat
    BY <1>3 DEF HandleType
<1>7. PICK a \in Nat : a = h.epoch + 1
    BY <1>6
<1>8. seal \in [epoch : Nat, first : Nat, count : Nat]
    BY <1>1, <1>4, <1>6
<1>9. k = [h EXCEPT !.epoch = a, !.seal = seal]
    BY <1>4, <1>7
<1>10. /\ k \in HandleType /\ k.state = h.state /\ k.stages = h.stages /\ k.domains = h.domains
       /\ k.response = h.response /\ k.fresh = h.fresh
    BY <1>3, <1>8, <1>9 DEF HandleType
<1>11. Goes(m, c, h, k)
    BY <1>3, <1>10, GoesLike
<1>12. r \in Record
    BY <1>1, <1>4, <1>6 DEF Rec, Record, Kinds
<1>13. UNCHANGED <<receipts, history>>
    BY DEF SealSettlement
<1> QED
    BY <1>1, <1>2, <1>3, <1>5, <1>10, <1>11, <1>12, <1>13, QuietCommit

\* record_x4d_settlement_freshness: only with a receipt, whose epoch is burned.
LEMMA RecordFreshnessStep ==
    ASSUME IInv, NEW c \in Conns, NEW receipt \in receipts, RecordFreshness(c, receipt)
    PROVE  Kept
<1>1. AuthKept /\ handles[c].checked
    BY AuthUnchanged DEF RecordFreshness, ActiveHandle
<1>2. PICK h, m : h = handles[c] /\ m = markers'
    OBVIOUS
<1>3. h \in HandleType /\ h.state # "none" /\ Goes(m, c, h, h)
    BY <1>1, <1>2, Start
<1>4. receipt \in Receipt /\ receipt.conn = c /\ markers[<<c, receipt.epoch>>] = "durable"
    BY DEF IInv, Types, ReceiptsOK, RecordFreshness
<1>5. PICK e, aux, x : e = receipt.epoch /\ aux = receipt.auxiliary /\ x = receipt.expected
    OBVIOUS
<1>6. e \in 1..MaxEpoch /\ e \in Nat /\ aux \in Keys /\ x \in Nat
    BY <1>4, <1>5, ConnAssumption DEF Receipt
<1>7. m[<<c, e>>] = "durable"
    <2>1. <<c, e>> \in Keys
        BY <1>6, ConnAssumption
    <2> QED
        BY <1>1, <1>2, <1>4, <1>5, <2>1 DEF AuthKept
<1>8. PICK fresh, auxs, k, r :
          /\ fresh = [epoch |-> e, expected |-> x]
          /\ auxs = h.auxiliary \cup {aux}
          /\ k = [h EXCEPT !.auxiliary = auxs, !.paid = 0, !.fresh = fresh]
          /\ r = Rec("SETTLEMENT_FRESHNESS", None, 0, x, e, None)
    OBVIOUS
<1>9. PICK o \in Outcomes : Commit(c, h, k, r, o)
    BY <1>2, <1>5, <1>8 DEF RecordFreshness
<1>10. fresh \in [epoch : Nat, expected : Nat] /\ fresh.epoch = e
    BY <1>6, <1>8
<1>11. auxs \in SUBSET Keys
    BY <1>3, <1>6, <1>8 DEF HandleType
<1>12. /\ k \in HandleType /\ k.state = h.state /\ k.stages = h.stages /\ k.domains = h.domains
       /\ k.response = h.response /\ k.fresh = fresh /\ k.checked = h.checked
    BY <1>3, <1>8, <1>10, <1>11 DEF HandleType
<1>13. Goes(m, c, h, k)
    <2>1. Authorized(m, c, k)
        BY <1>3, <1>6, <1>7, <1>10, <1>12 DEF Goes, Authorized
    <2> QED
        BY <1>3, <1>12, <2>1 DEF Goes, Balanced, Continues
<1>14. r \in Record
    BY <1>6, <1>8 DEF Rec, Record, Kinds
<1>15. UNCHANGED <<receipts, history>>
    BY DEF RecordFreshness
<1> QED
    BY <1>1, <1>2, <1>3, <1>9, <1>12, <1>13, <1>14, <1>15, QuietCommit

\* finish_x4d_settlement_success
LEMMA SettlementSuccessStep ==
    ASSUME IInv, NEW c \in Conns, SettlementSuccess(c)
    PROVE  Kept
<1>1. AuthKept /\ handles[c].checked
    BY AuthUnchanged DEF SettlementSuccess, ActiveHandle
<1>2. PICK h, m : h = handles[c] /\ m = markers'
    OBVIOUS
<1>3. h \in HandleType /\ h.state # "none" /\ Goes(m, c, h, h)
    BY <1>1, <1>2, Start
<1>4. h.seal.first \in Nat /\ h.seal.count \in Nat /\ h.seal.epoch \in Nat /\ h.paid \in Nat
    BY <1>3 DEF HandleType
<1>5. PICK end \in Nat : end = h.seal.first + h.seal.count
    BY <1>4
<1>6. PICK k, r :
          /\ k = [h EXCEPT !.verified = end, !.seal = NoSeal, !.fresh = NoFresh, !.paid = 0]
          /\ r = Rec("SETTLEMENT_SUCCESS", None, end, h.paid, h.seal.epoch, None)
    OBVIOUS
<1>7. PICK o \in Outcomes : Commit(c, h, k, r, o)
    BY <1>2, <1>5, <1>6 DEF SettlementSuccess
<1>8. /\ NoSeal \in [epoch : Nat, first : Nat, count : Nat]
      /\ NoFresh \in [epoch : Nat, expected : Nat] /\ NoFresh.epoch = 0
    BY DEF NoSeal, NoFresh
<1>9. /\ k \in HandleType /\ k.state = h.state /\ k.stages = h.stages /\ k.domains = h.domains
      /\ k.response = h.response /\ k.fresh = NoFresh
    BY <1>3, <1>6, <1>8 DEF HandleType
<1>10. Goes(m, c, h, k)
    BY <1>3, <1>8, <1>9, GoesLike
<1>11. r \in Record
    BY <1>4, <1>6 DEF Rec, Record, Kinds
<1>12. UNCHANGED <<receipts, history>>
    BY DEF SettlementSuccess
<1> QED
    BY <1>1, <1>2, <1>3, <1>7, <1>9, <1>10, <1>11, <1>12, QuietCommit

\* Journals that nobody touches.
LEMMA JournalsSame ==
    ASSUME IInv, UNCHANGED journals
    PROVE  /\ journals' \in [Conns -> Journal]
           /\ \A d \in Conns : Retains(journals[d], journals'[d])
BY DEF IInv, Types, JournalOK, Retains, Journal

\* fail_x4d_settlement, which appends twice.
LEMMA SettlementFailureStep ==
    ASSUME IInv, NEW c \in Conns, SettlementFailure(c)
    PROVE  Kept
<1>1. AuthKept /\ handles[c].checked
    BY AuthUnchanged DEF SettlementFailure, ActiveHandle
<1>2. PICK h, m, r, q :
          /\ h = handles[c] /\ m = markers'
          /\ r = Rec("SETTLEMENT_FAILURE", None, 0, 0, handles[c].seal.epoch, None)
          /\ q = Mark("TERMINAL")
    OBVIOUS
<1>3. h \in HandleType /\ h.state # "none" /\ Goes(m, c, h, h)
    BY <1>1, <1>2, Start
<1>4. r \in Record /\ q \in Record
    BY <1>2, <1>3 DEF Mark, Rec, Record, Kinds, HandleType
<1>5. UNCHANGED <<receipts, history>>
    BY DEF SettlementFailure
<1>6. CASE \E o \in Faults : Commit(c, h, h, r, o)
    <2>1. PICK o \in Outcomes : Commit(c, h, h, r, o)
        BY <1>6 DEF Outcomes
    <2> QED
        BY <1>1, <1>2, <1>3, <1>4, <1>5, <2>1, QuietCommit
<1>7. CASE \E o \in Outcomes :
              LET new == [journals EXCEPT ![c] = Appended(Appended(@, r, "ok"), q, o)]
              IN  /\ journals' = IF o = "ok" THEN DirSynced(new) ELSE new
                  /\ Handle(c, [BurnInMemory(h) EXCEPT !.recorded = (o = "ok")])
    <2>1. PICK o \in Outcomes :
              LET new == [journals EXCEPT ![c] = Appended(Appended(@, r, "ok"), q, o)]
              IN  /\ journals' = IF o = "ok" THEN DirSynced(new) ELSE new
                  /\ Handle(c, [BurnInMemory(h) EXCEPT !.recorded = (o = "ok")])
        BY <1>7
    <2>2. /\ journals \in [Conns -> Journal] /\ journals[c] \in Journal
          /\ journals[c].synced <= Len(journals[c].log)
        BY DEF IInv, Types, JournalOK
    <2>3. PICK i, j, w : i = journals[c] /\ j = Appended(i, r, "ok") /\ w = Appended(j, q, o)
        OBVIOUS
    <2>4. Retains(i, j) /\ j \in Journal /\ j.synced <= Len(j.log)
        <3>1. "ok" \in Outcomes
            BY DEF Outcomes
        <3>2. Retains(i, j)
            BY <1>4, <2>2, <2>3, <3>1, AppendedFacts
        <3> QED
            BY <3>2 DEF Retains
    <2>5. Retains(i, w)
        <3>1. Retains(j, w)
            BY <1>4, <2>3, <2>4, AppendedFacts
        <3> QED
            BY <2>2, <2>3, <2>4, <3>1, RetainsTransitive
    <2>6. journals' = IF o = "ok" THEN DirSynced([journals EXCEPT ![c] = w])
                      ELSE [journals EXCEPT ![c] = w]
        BY <2>1, <2>2, <2>3
    <2>7. /\ journals' \in [Conns -> Journal]
          /\ \A d \in Conns : Retains(journals[d], journals'[d])
        BY <2>3, <2>5, <2>6, JournalsStep, JournalsDirStep
    <2>8. PICK b \in BOOLEAN : b = (o = "ok")
        OBVIOUS
    <2>9. PICK k : k = [BurnInMemory(h) EXCEPT !.recorded = b]
        OBVIOUS
    <2>10. Goes(m, c, h, k) /\ k.checked = FALSE
        BY <1>3, <2>9, GoesRecorded
    <2>11. Handle(c, k) /\ UNCHANGED <<receipts, opened, burned>> /\ exposed' = exposed
        BY <1>5, <2>1, <2>8, <2>9 DEF history
    <2>12. StepOK
        BY <1>1, <1>2, <2>7, <2>10, <2>11, LocalStep, ReceiptsKept
    <2>13. Unchecked
        BY <2>10, <2>11, LocalUnchecked
    <2> QED
        BY <2>11, <2>12, <2>13, QuietStep DEF Kept
<1> QED
    BY <1>2, <1>6, <1>7 DEF SettlementFailure

\* close_x4d_after_all_verified
LEMMA CloseSettledStep ==
    ASSUME IInv, NEW c \in Conns, CloseSettled(c)
    PROVE  Kept
<1>1. AuthKept /\ handles[c].state # "none"
    BY AuthUnchanged DEF CloseSettled, BetweenResponses, ActiveHandle
<1>2. PICK o \in Outcomes : TerminalBurn(c, o)
    BY DEF CloseSettled
<1>3. UNCHANGED <<receipts, exposed, opened, burned>>
    BY DEF CloseSettled
<1> QED
    BY <1>1, <1>2, <1>3, QuietBurn

\* A step of the burn store alone.
LEMMA BurnStoreStep ==
    ASSUME IInv, AuthKept, receipts' \subseteq Receipt, ReceiptsOK',
           UNCHANGED <<journals, handles, history>>
    PROVE  Kept
<1>1. UNCHANGED <<handles, opened>> /\ exposed' = exposed /\ burned' = burned
    BY DEF history
<1>2. burned' \subseteq Conns /\ \A d \in Conns : d \notin burned => BurnedOK(d)'
    BY <1>1 DEF IInv, Types, BurnedOK
<1>3. StepOK /\ Unchecked
    BY <1>1, <1>2, JournalsSame, StillStep
<1> QED
    BY <1>1, <1>3, QuietStep DEF Kept

\* reserve_x4d_settlement
LEMMA ReserveSettlementStep ==
    ASSUME IInv, NEW c \in Conns, NEW e \in 1..MaxEpoch, NEW s \in Seeds, NEW x \in Expected,
           ReserveSettlement(c, e, s, x)
    PROVE  Kept
<1>1. <<c, e>> \in Keys /\ s \in Seq(Keys) /\ Len(s) = 2 /\ x \in Nat
    BY ConnAssumption
<1>2. s[1] \in Keys
    BY <1>1, ElementOfSeq
<1>3. PICK b : b = <<<<c, e>>>> \o s
    OBVIOUS
<1>4. b \in Seq(Keys) /\ 1 \in 1..Len(b) /\ b[1] = <<c, e>>
    <2>1. <<<<c, e>>>> \in Seq(Keys) /\ Len(<<<<c, e>>>>) = 1 /\ <<<<c, e>>>>[1] = <<c, e>>
        BY <1>1
    <2> QED
        BY <1>1, <1>3, <2>1, ConcatProperties
<1>5. AuthKept /\ receipts' \subseteq Receipt /\ ReceiptsOK'
    <2>1. CASE /\ Reserve(b)
               /\ receipts' = receipts \cup
                     {[conn |-> c, epoch |-> e, auxiliary |-> s[1], expected |-> x]}
        <3>1. AuthKept /\ markers'[<<c, e>>] = "durable"
            BY <1>4, <2>1, ReserveKeeps
        <3>2. PICK z : z = [conn |-> c, epoch |-> e, auxiliary |-> s[1], expected |-> x]
            OBVIOUS
        <3>3. z \in Receipt /\ z.conn = c /\ z.epoch = e
            BY <1>1, <1>2, <3>2 DEF Receipt
        <3>4. receipts \subseteq Receipt /\ ReceiptsOK
            BY DEF IInv, Types
        <3>5. \A r \in receipts : <<r.conn, r.epoch>> \in Keys
            BY <3>4, ConnAssumption DEF Receipt
        <3>6. \A r \in receipts : markers'[<<r.conn, r.epoch>>] = "durable"
            BY <3>1, <3>4, <3>5 DEF ReceiptsOK, AuthKept
        <3>7. receipts' = receipts \cup {z}
            BY <2>1, <3>2
        <3> QED
            BY <3>1, <3>3, <3>4, <3>6, <3>7 DEF ReceiptsOK
    <2>2. CASE ReserveFails(b) /\ UNCHANGED receipts
        BY <1>4, <2>2, ReserveFailsKeeps, ReceiptsKept
    <2> QED
        BY <1>3, <2>1, <2>2 DEF ReserveSettlement
<1>6. UNCHANGED <<journals, handles, history>>
    BY DEF ReserveSettlement
<1> QED
    BY <1>5, <1>6, BurnStoreStep

\* expand_phase_b_production
LEMMA ExpandPhaseBStep ==
    ASSUME IInv, NEW b \in Bindings, ExpandPhaseB(b)
    PROVE  Kept
<1>1. AuthKept
    BY NonceFacts, ReserveKeeps, ReserveFailsKeeps DEF ExpandPhaseB
<1>2. UNCHANGED receipts /\ UNCHANGED <<journals, handles, history>>
    BY DEF ExpandPhaseB, connVars
<1> QED
    BY <1>1, <1>2, BurnStoreStep, ReceiptsKept

\* fail
LEMMA RefuseStep ==
    ASSUME IInv, NEW c \in Conns, Refuse(c)
    PROVE  Kept
<1>1. AuthKept /\ handles[c].state # "none"
    BY AuthUnchanged, Start DEF Refuse
<1>2. PICK o \in Outcomes : TerminalBurn(c, o)
    BY DEF Refuse
<1>3. UNCHANGED <<receipts, exposed, opened, burned>>
    BY DEF Refuse, history
<1> QED
    BY <1>1, <1>2, <1>3, QuietBurn

\* abort, close, unexpected_eof and the like
LEMMA AbortConnectionStep ==
    ASSUME IInv, NEW c \in Conns, AbortConnection(c)
    PROVE  Kept
<1>1. AuthKept /\ handles[c].state # "none"
    BY AuthUnchanged DEF AbortConnection
<1>2. PICK o \in Outcomes : TerminalBurn(c, o)
    BY DEF AbortConnection
<1>3. UNCHANGED <<receipts, exposed, opened, burned>>
    BY DEF AbortConnection, history
<1> QED
    BY <1>1, <1>2, <1>3, QuietBurn

\* A handle goes away, whatever its journal got.
LEMMA HandleGone ==
    ASSUME IInv, NEW c \in Conns, Handle(c, NoHandle), UNCHANGED <<authVars, receipts, history>>,
           journals' \in [Conns -> Journal],
           \A d \in Conns : Retains(journals[d], journals'[d])
    PROVE  Kept
<1>1. AuthKept /\ UNCHANGED <<opened, burned>> /\ exposed' = exposed
    BY AuthUnchanged DEF history
<1>2. PICK h : h = NoHandle
    OBVIOUS
<1>3. StepOK
    BY <1>1, <1>2, LocalStep, ReceiptsKept
<1>4. Unchecked
    <2>1. h.checked = FALSE
        BY <1>2, NoHandleFacts
    <2> QED
        BY <1>2, <2>1, LocalUnchecked
<1> QED
    BY <1>1, <1>3, <1>4, QuietStep DEF Kept

\* Drop, and the death of the process.
LEMMA DropKillStep ==
    ASSUME IInv, NEW c \in Conns, DropHandle(c) \/ Kill(c)
    PROVE  Kept
<1>1. Handle(c, NoHandle) /\ UNCHANGED <<authVars, receipts, history>>
    BY DEF DropHandle, Kill
<1>2. UNCHANGED journals \/ \E o \in Outcomes : TerminalAppend(c, o)
    BY DEF DropHandle, Kill
<1>3. /\ journals' \in [Conns -> Journal]
      /\ \A d \in Conns : Retains(journals[d], journals'[d])
    BY <1>2, JournalsSame, TerminalAppendStep
<1> QED
    BY <1>1, <1>3, HandleGone

\* ConnectionStore::new
LEMMA OpenStoreStep ==
    ASSUME IInv, OpenStore
    PROVE  Kept
<1>1. /\ journals \in [Conns -> Journal] /\ \A d \in Conns : JournalOK(d)
      /\ burned \subseteq Conns
    BY DEF IInv, Types
<1>2. AuthKept /\ UNCHANGED <<handles, opened>> /\ exposed' = exposed /\ burned' = burned
      /\ UNCHANGED receipts
    BY AuthUnchanged DEF OpenStore, history
<1>3. PICK ds : ds = DirSynced(journals)
    OBVIOUS
<1>4. /\ ds \in [Conns -> Journal]
      /\ \A d \in Conns : /\ ds[d].exists = journals[d].exists /\ ds[d].log = journals[d].log
                          /\ ds[d].synced = journals[d].synced
                          /\ journals[d].linked \/ journals[d].exists => ds[d].linked
    BY <1>1, <1>3, DirSyncedFacts
<1>5. \A d \in Conns : Retains(journals[d], ds[d])
    <2>1. \A d \in Conns : journals[d].synced \in Nat
        BY <1>1 DEF Journal
    <2> QED
        BY <1>1, <1>4, <2>1 DEF Retains, JournalOK
<1>6. journals' = ds
    BY <1>3 DEF OpenStore
<1>7. \A d \in Conns : d \notin burned => BurnedOK(d)'
    BY <1>2 DEF BurnedOK
<1>8. StepOK /\ Unchecked
    BY <1>1, <1>2, <1>4, <1>5, <1>6, <1>7, StillStep, ReceiptsKept
<1> QED
    BY <1>2, <1>8, QuietStep DEF Kept

\* A loss of power takes every handle, and nothing that was synced.
LEMMA PowerLossStep ==
    ASSUME IInv, PowerLoss
    PROVE  Kept
<1>1. /\ journals \in [Conns -> Journal] /\ opened \in [Conns -> {0, 1}] /\ burned \subseteq Conns
      /\ \A d \in Conns : journals[d].synced <= Len(journals[d].log)
    BY DEF IInv, Types, JournalOK
<1>2. AuthKept
    BY MarkersLostKeeps DEF PowerLoss
<1>3. \A d \in Conns : Retains(journals[d], journals'[d])
    <2>1. SUFFICES ASSUME NEW d \in Conns PROVE Retains(journals[d], journals'[d])
        OBVIOUS
    <2>2. journals'[d] \in Survivors(journals[d])
        BY DEF PowerLoss
    <2>3. PICK j, w : j = journals[d] /\ w = journals'[d]
        OBVIOUS
    <2>4. Retains(j, w)
        BY <1>1, <2>2, <2>3, SurvivorRetains
    <2> QED
        BY <2>3, <2>4
<1>4. journals' \in [Conns -> Journal]
    <2>1. DOMAIN journals' = Conns /\ journals' = [d \in Conns |-> journals'[d]]
        BY DEF PowerLoss
    <2> QED
        BY <1>3, <2>1 DEF Retains
<1>5. /\ receipts' = {} /\ exposed' = exposed /\ opened' = opened /\ burned' = burned
      /\ \A d \in Conns : handles'[d] = NoHandle
    BY DEF PowerLoss, history
<1>6. /\ handles' \in [Conns -> HandleType]
      /\ \A d \in Conns : /\ Authorized(markers', d, handles'[d]) /\ Balanced(handles'[d])
                          /\ handles'[d].state = "none" /\ handles'[d].checked = FALSE
    <2>1. handles' = [d \in Conns |-> NoHandle]
        BY DEF PowerLoss
    <2>2. PICK m : m = markers'
        OBVIOUS
    <2>3. \A d \in Conns : /\ NoHandle \in HandleType /\ Balanced(NoHandle)
                           /\ Authorized(m, d, NoHandle)
                           /\ NoHandle.state = "none" /\ NoHandle.checked = FALSE
        BY NoHandleFacts
    <2> QED
        BY <1>5, <2>1, <2>2, <2>3
<1>7. receipts' \subseteq Receipt /\ ReceiptsOK'
    BY <1>5 DEF ReceiptsOK
<1>8. \A d \in Conns : IF opened[d] = 1 THEN opened'[d] = 1 ELSE OpenedOK(d)'
    BY <1>1, <1>5 DEF OpenedOK
<1>9. \A d \in Conns : IF d \in burned THEN opened'[d] = opened[d] ELSE BurnedOK(d)'
    BY <1>5 DEF BurnedOK
<1>10. StepOK
    BY <1>1, <1>2, <1>3, <1>4, <1>5, <1>6, <1>7, <1>8, <1>9 DEF StepOK
<1>11. Unchecked
    BY <1>6 DEF Unchecked
<1> QED
    BY <1>5, <1>10, <1>11, QuietStep DEF Kept

\* What BurnStops says of a step.
BurnStep == \A c \in burned : ~handles[c].checked => ~handles'[c].checked

\* ensure_live: a connection a second opener burned is never found alive.
LEMMA EnsureLiveStep ==
    ASSUME IInv, NEW c \in Conns, EnsureLive(c)
    PROVE  IInv' /\ BurnStep
<1>1. AuthKept /\ handles[c].state # "none" /\ UNCHANGED receipts /\ UNCHANGED <<opened, burned>>
      /\ exposed' = exposed /\ UNCHANGED journals
    BY AuthUnchanged DEF EnsureLive, history
<1>2. PICK h, m : h = handles[c] /\ m = markers'
    OBVIOUS
<1>3. Goes(m, c, h, h) /\ h \in HandleType
    BY <1>1, <1>2, GoesSame DEF Goes
<1>4. PICK x, y : /\ x = [BurnInMemory(h) EXCEPT !.recorded = TRUE]
                  /\ y = [h EXCEPT !.checked = TRUE]
    OBVIOUS
<1>5. Goes(m, c, h, x) /\ x.checked = FALSE
    BY <1>3, <1>4, GoesRecorded
<1>6. Goes(m, c, h, y)
    <2>1. /\ y \in HandleType /\ y.state = h.state /\ y.stages = h.stages
          /\ y.domains = h.domains /\ y.response = h.response /\ y.fresh = h.fresh
        BY <1>3, <1>4 DEF HandleType
    <2> QED
        BY <1>1, <1>2, <1>3, <2>1, GoesLike
<1>7. PICK k : k = IF ContainsTerminal(journals[c]) THEN x ELSE y
    OBVIOUS
<1>8. Goes(m, c, h, k) /\ Handle(c, k)
    BY <1>2, <1>4, <1>5, <1>6, <1>7 DEF EnsureLive
<1>9. StepOK
    BY <1>1, <1>2, <1>8, LocalStep, ReceiptsKept, JournalsSame
<1>10. BurnStep
    <2>1. SUFFICES ASSUME NEW d \in burned, ~handles[d].checked PROVE ~handles'[d].checked
        BY DEF BurnStep
    <2>2. handles \in [Conns -> HandleType] /\ burned \subseteq Conns
        BY DEF IInv, Types
    <2>3. CASE d # c
        BY <1>8, <2>1, <2>2, <2>3 DEF Handle
    <2>4. CASE d = c
        <3>1. JournalOK(c) /\ BurnedOK(c) /\ journals[c] \in Journal
            BY DEF IInv, Types
        <3>2. PICK i \in 2..journals[c].synced :
                  journals[c].log[i].kind = "TERMINAL" /\ ~journals[c].log[i].glued
            BY <1>1, <2>4, <3>1 DEF JournalOK, BurnedOK
        <3>3. /\ journals[c].log[1].kind = "OPEN" /\ journals[c].synced <= Len(journals[c].log)
              /\ journals[c].synced \in Nat /\ journals[c].log \in Seq(Record)
            BY <1>1, <3>1 DEF JournalOK, OpenedOK, Journal
        <3>4. i \in 2..Len(journals[c].log) /\ Len(journals[c].log) \in Nat
            BY <3>2, <3>3, LenProperties
        <3>5. journals[c].log # <<>>
            BY <3>3, <3>4, EmptySeq
        <3>6. ContainsTerminal(journals[c])
            BY <3>2, <3>3, <3>4, <3>5 DEF ContainsTerminal
        <3>7. handles'[c] = x
            BY <1>7, <1>8, <2>2, <3>6 DEF Handle
        <3> QED
            BY <1>5, <2>4, <3>7
    <2> QED
        BY <2>3, <2>4
<1> QED
    BY <1>1, <1>9, <1>10, QuietStep

\* create for an identity without a journal: the only step that gives out a handle.
LEMMA CreateStep ==
    ASSUME IInv, NEW c \in Conns, Create(c)
    PROVE  Kept
<1>1. /\ journals \in [Conns -> Journal] /\ handles \in [Conns -> HandleType]
      /\ opened \in [Conns -> {0, 1}] /\ burned \subseteq Conns
      /\ \A d \in Conns : JournalOK(d) /\ BurnedOK(d)
    BY DEF IInv, Types
<1>2. opened[c] = 0 /\ c \notin burned /\ handles[c].state = "none"
    BY <1>1 DEF Create, JournalOK, OpenedOK, BurnedOK
<1>3. AuthKept /\ UNCHANGED receipts /\ exposed' = exposed /\ burned' = burned
    BY AuthUnchanged DEF Create
<1>4. receipts' \subseteq Receipt /\ ReceiptsOK'
    BY <1>3, ReceiptsKept
<1>5. PICK i, r : i = [NoJournal EXCEPT !.exists = TRUE] /\ r = Mark("OPEN")
    OBVIOUS
<1>6. /\ i \in Journal /\ i.exists /\ i.synced = 0 /\ i.log = <<>> /\ Len(i.log) = 0
      /\ r \in Record /\ r.kind = "OPEN"
    <2>1. NoJournal \in Journal /\ NoJournal.synced = 0 /\ NoJournal.log = <<>>
        BY DEF NoJournal, Journal
    <2>2. i \in Journal /\ i.exists /\ i.synced = 0 /\ i.log = <<>>
        BY <1>5, <2>1 DEF Journal
    <2>3. r \in Record /\ r.kind = "OPEN"
        BY <1>5 DEF Mark, Rec, Record, Kinds
    <2> QED
        BY <2>2, <2>3
<1>7. PICK o \in Outcomes :
          LET new == [journals EXCEPT ![c] = Appended(i, r, o)]
          IN  /\ journals' = IF o = "ok" THEN DirSynced(new) ELSE new
              /\ IF o = "ok" THEN Handle(c, [NoHandle EXCEPT !.state = "open"])
                             ELSE UNCHANGED handles
              /\ opened' = IF o = "ok" THEN [opened EXCEPT ![c] = @ + 1] ELSE opened
    BY <1>5 DEF Create
<1>8. PICK w : w = Appended(i, r, o)
    OBVIOUS
<1>9. /\ w \in Journal /\ w.synced <= Len(w.log) /\ w.exists = i.exists
      /\ o = "ok" => w.synced = 1 /\ w.log[1] = [r EXCEPT !.glued = i.torn]
    <2>1. /\ Retains(i, w) /\ w.exists = i.exists
          /\ o = "ok" => /\ w.synced = Len(i.log) + 1
                         /\ w.log[Len(i.log) + 1] = [r EXCEPT !.glued = i.torn]
        <3>1. i \in Journal /\ i.synced <= Len(i.log) /\ r \in Record
            BY <1>6
        <3> QED
            BY <1>8, <3>1, AppendedFacts
    <2> QED
        BY <1>6, <2>1 DEF Retains
<1>10. Retains(journals[c], w)
    BY <1>9 DEF Retains, Create
<1>11. /\ journals' \in [Conns -> Journal]
       /\ \A d \in Conns : Retains(journals[d], journals'[d])
    BY <1>7, <1>8, <1>10, JournalsStep, JournalsDirStep
<1>12. CASE o # "ok"
    <2>1. UNCHANGED <<handles, opened>>
        BY <1>7, <1>12
    <2>2. \A d \in Conns : d \notin burned => BurnedOK(d)'
        BY <1>3 DEF BurnedOK
    <2>3. StepOK /\ Unchecked
        BY <1>1, <1>3, <1>4, <1>11, <2>1, <2>2, StillStep
    <2> QED
        BY <1>3, <2>3, QuietStep DEF Kept
<1>13. CASE o = "ok"
    <2>1. PICK h : h = [NoHandle EXCEPT !.state = "open"]
        OBVIOUS
    <2>2. PICK m : m = markers'
        OBVIOUS
    <2>3. h \in HandleType /\ Balanced(h) /\ Authorized(m, c, h) /\ h.checked = FALSE
        <3>1. /\ NoHandle \in HandleType /\ Balanced(NoHandle) /\ Authorized(m, c, NoHandle)
              /\ NoHandle.checked = FALSE
            BY NoHandleFacts
        <3>2. /\ h \in HandleType /\ h.state = "open" /\ h.checked = FALSE
              /\ h.stages = NoHandle.stages /\ h.response = NoHandle.response
              /\ h.fresh = NoHandle.fresh
            BY <2>1, <3>1 DEF HandleType
        <3> QED
            BY <3>1, <3>2 DEF Balanced, Authorized
    <2>4. handles' = [handles EXCEPT ![c] = h] /\ Handle(c, h)
        BY <1>7, <1>13, <2>1 DEF Handle
    <2>5. opened' = [opened EXCEPT ![c] = 1]
        BY <1>2, <1>7, <1>13
    <2>6. OpenedOK(c)'
        <3>1. PICK js, ds : js = [journals EXCEPT ![c] = w] /\ ds = DirSynced(js)
            OBVIOUS
        <3>2. js \in [Conns -> Journal] /\ js[c] = w
            BY <1>1, <1>9, <3>1
        <3>3. /\ ds[c].exists = w.exists /\ ds[c].log = w.log /\ ds[c].synced = w.synced
              /\ w.exists => ds[c].linked
            <4>1. js \in [Conns -> Journal] /\ ds = DirSynced(js)
                BY <3>1, <3>2
            <4>2. \A d \in Conns : /\ ds[d].exists = js[d].exists /\ ds[d].log = js[d].log
                                   /\ ds[d].synced = js[d].synced
                                   /\ js[d].linked \/ js[d].exists => ds[d].linked
                BY <4>1, DirSyncedFacts
            <4> QED
                BY <3>2, <4>2
        <3>4. journals' = ds
            BY <1>7, <1>8, <1>13, <3>1
        <3>5. w.log[1].kind = "OPEN"
            <4>1. i.torn \in BOOLEAN /\ r \in Record /\ r.kind = "OPEN"
                BY <1>6 DEF Journal
            <4>2. [r EXCEPT !.glued = i.torn].kind = "OPEN"
                BY <4>1 DEF Record
            <4> QED
                BY <1>9, <1>13, <4>2
        <3>6. w.exists /\ w.synced = 1
            BY <1>6, <1>9, <1>13
        <3>7. /\ journals'[c].exists /\ journals'[c].linked
              /\ journals'[c].synced = 1 /\ journals'[c].log[1].kind = "OPEN"
            BY <3>3, <3>4, <3>5, <3>6
        <3> QED
            BY <3>7 DEF OpenedOK
    <2>7. \A d \in Conns : IF opened[d] = 1 THEN opened'[d] = 1 ELSE OpenedOK(d)'
        <3>1. \A d \in Conns : d # c => opened'[d] = opened[d]
            BY <1>1, <2>5
        <3> QED
            BY <1>1, <1>2, <2>6, <3>1 DEF OpenedOK
    <2>8. \A d \in Conns : IF d \in burned THEN opened'[d] = opened[d] ELSE BurnedOK(d)'
        BY <1>1, <1>2, <1>3, <2>5 DEF BurnedOK
    <2>9. opened' \in [Conns -> {0, 1}] /\ handles' \in [Conns -> HandleType]
        BY <1>1, <2>3, <2>4, <2>5
    <2>10. \A d \in Conns : Authorized(markers', d, handles'[d]) /\ Balanced(handles'[d])
        <3>1. handles'[c] = h /\ \A d \in Conns : d # c => handles'[d] = handles[d]
            BY <1>1, <2>4
        <3>2. \A d \in Conns : Authorized(markers', d, handles[d]) /\ Balanced(handles[d])
            BY <1>3, HandleKept
        <3> QED
            BY <2>2, <2>3, <3>1, <3>2
    <2>11. \A d \in Conns : handles'[d].state # "none" =>
              opened'[d] = 1 /\ (opened[d] = 1 => Continues(handles[d], handles'[d]))
        <3>1. SUFFICES ASSUME NEW d \in Conns, handles'[d].state # "none"
                       PROVE  opened'[d] = 1 /\ (opened[d] = 1 => Continues(handles[d], handles'[d]))
            OBVIOUS
        <3>2. CASE d = c
            BY <1>1, <1>2, <2>5, <3>2
        <3>3. CASE d # c
            <4>1. handles'[d] = handles[d] /\ opened'[d] = opened[d]
                BY <1>1, <2>4, <2>5, <3>3
            <4>2. opened[d] = 1
                BY <1>1, <3>1, <4>1 DEF JournalOK
            <4>3. Continues(handles[d], handles[d])
                BY <1>3, <3>1, <4>1, HandleKept
            <4> QED
                BY <4>1, <4>2, <4>3
        <3> QED
            BY <3>2, <3>3
    <2>12. StepOK
        BY <1>1, <1>3, <1>4, <1>11, <2>7, <2>8, <2>9, <2>10, <2>11 DEF StepOK
    <2>13. Unchecked
        BY <2>3, <2>4, LocalUnchecked
    <2> QED
        BY <1>3, <2>12, <2>13, QuietStep DEF Kept
<1> QED
    BY <1>12, <1>13

\* create for an identity with a journal: a successful burn is durable and readable.
LEMMA CreateRejectedStep ==
    ASSUME IInv, NEW c \in Conns, CreateRejected(c)
    PROVE  Kept
<1>1. /\ journals \in [Conns -> Journal] /\ burned \subseteq Conns
      /\ \A d \in Conns : JournalOK(d)
    BY DEF IInv, Types
<1>2. /\ AuthKept /\ UNCHANGED receipts /\ UNCHANGED <<handles, opened>> /\ exposed' = exposed
      /\ journals[c].exists
    BY AuthUnchanged DEF CreateRejected
<1>3. CASE UNCHANGED <<journals, burned>>
    <2>1. \A d \in Conns : d \notin burned => BurnedOK(d)'
        BY <1>3 DEF BurnedOK
    <2>2. StepOK /\ Unchecked
        BY <1>1, <1>2, <1>3, <2>1, JournalsSame, ReceiptsKept, StillStep
    <2> QED
        BY <1>2, <2>2, QuietStep DEF Kept
<1>4. CASE \E o \in Outcomes : \E j \in BurnedJournals(journals[c], o) :
              LET new == [journals EXCEPT ![c] = j]
              IN  /\ journals' = IF o = "ok" THEN DirSynced(new) ELSE new
                  /\ burned' = IF o = "ok" THEN burned \cup {c} ELSE burned
    <2>1. PICK o \in Outcomes : \E j \in BurnedJournals(journals[c], o) :
              LET new == [journals EXCEPT ![c] = j]
              IN  /\ journals' = IF o = "ok" THEN DirSynced(new) ELSE new
                  /\ burned' = IF o = "ok" THEN burned \cup {c} ELSE burned
        BY <1>4
    <2>2. PICK w \in BurnedJournals(journals[c], o) :
              LET new == [journals EXCEPT ![c] = w]
              IN  /\ journals' = IF o = "ok" THEN DirSynced(new) ELSE new
                  /\ burned' = IF o = "ok" THEN burned \cup {c} ELSE burned
        BY <2>1
    <2>3. PICK i, js, ds : i = journals[c] /\ js = [journals EXCEPT ![c] = w] /\ ds = DirSynced(js)
        OBVIOUS
    <2>4. /\ journals' = IF o = "ok" THEN ds ELSE js
          /\ burned' = IF o = "ok" THEN burned \cup {c} ELSE burned
        BY <2>2, <2>3
    <2>5. i \in Journal /\ i.synced <= Len(i.log) /\ i.log \in Seq(Record) /\ i.synced \in Nat
        BY <1>1, <2>3 DEF JournalOK, Journal
    <2>6. /\ Retains(i, w) /\ w.exists = i.exists
          /\ o = "ok" => /\ w.synced = Len(i.log) + 1
                         /\ w.log[Len(i.log) + 1].kind = "TERMINAL"
                         /\ ~w.log[Len(i.log) + 1].glued
        <3>1. w \in BurnedJournals(i, o)
            BY <2>3
        <3> QED
            BY <2>5, <3>1, BurnedFacts
    <2>7. /\ journals' \in [Conns -> Journal]
          /\ \A d \in Conns : Retains(journals[d], journals'[d])
        BY <2>3, <2>4, <2>6, JournalsStep, JournalsDirStep
    <2>8. burned' \subseteq Conns
        BY <1>1, <2>4
    <2>9. o = "ok" => BurnedOK(c)'
        <3>1. SUFFICES ASSUME o = "ok" PROVE BurnedOK(c)'
            OBVIOUS
        <3>2. js \in [Conns -> Journal] /\ js[c] = w
            BY <1>1, <2>3, <2>6 DEF Retains
        <3>3. /\ ds[c].exists = w.exists /\ ds[c].log = w.log /\ ds[c].synced = w.synced
              /\ w.exists => ds[c].linked
            <4>1. js \in [Conns -> Journal] /\ ds = DirSynced(js)
                BY <2>3, <3>2
            <4>2. \A d \in Conns : /\ ds[d].exists = js[d].exists /\ ds[d].log = js[d].log
                                   /\ ds[d].synced = js[d].synced
                                   /\ js[d].linked \/ js[d].exists => ds[d].linked
                BY <4>1, DirSyncedFacts
            <4> QED
                BY <3>2, <4>2
        <3>4. journals'[c] = ds[c] /\ journals'[c].exists /\ journals'[c].linked
            BY <1>2, <2>3, <2>4, <2>6, <3>1, <3>3
        <3>5. ASSUME opened'[c] = 1
              PROVE  \E k \in 2..journals'[c].synced :
                        journals'[c].log[k].kind = "TERMINAL" /\ ~journals'[c].log[k].glued
            <4>1. i.synced >= 1
                BY <1>1, <1>2, <2>3, <3>5 DEF JournalOK, OpenedOK
            <4>2. PICK k : k = Len(i.log) + 1
                OBVIOUS
            <4>3. k \in 2..k
                BY <2>5, <4>1, <4>2, LenProperties
            <4>4. /\ journals'[c].synced = k /\ journals'[c].log[k].kind = "TERMINAL"
                  /\ ~journals'[c].log[k].glued
                BY <2>6, <3>1, <3>3, <3>4, <4>2
            <4> QED
                BY <4>3, <4>4
        <3> QED
            BY <3>4, <3>5 DEF BurnedOK
    <2>10. \A d \in Conns : d \notin burned => BurnedOK(d)'
        <3>1. \A d \in Conns : d \notin burned' => BurnedOK(d)'
            BY DEF BurnedOK
        <3> QED
            BY <2>4, <2>9, <3>1
    <2>11. StepOK /\ Unchecked
        BY <1>2, <2>7, <2>8, <2>10, ReceiptsKept, StillStep
    <2> QED
        BY <1>2, <2>11, QuietStep DEF Kept
<1> QED
    BY <1>3, <1>4 DEF CreateRejected

-----------------------------------------------------------------------------
(* The theorems *)

\* Nothing is open, used or exposed at first.
LEMMA InitEstablishes ==
    ASSUME Init
    PROVE  IInv
<1>1. markers \in [Keys -> Marker] /\ used \in [Keys -> {0, 1}] /\ UsedOK
    BY DEF Init, AuthInit, Marker, UsedOK
<1>2. NoJournal \in Journal /\ NoJournal.synced = 0 /\ Len(NoJournal.log) = 0
    BY DEF NoJournal, Journal
<1>3. \A c \in Conns : /\ journals[c] = NoJournal /\ handles[c] = NoHandle /\ opened[c] = 0
    BY DEF Init
<1>4. PICK m : m = markers
    OBVIOUS
<1>5. \A c \in Conns : /\ NoHandle \in HandleType /\ Balanced(NoHandle)
                       /\ Authorized(m, c, NoHandle) /\ NoHandle.state = "none"
    BY NoHandleFacts
<1>6. /\ journals \in [Conns -> Journal] /\ handles \in [Conns -> HandleType]
      /\ opened \in [Conns -> {0, 1}]
    BY <1>2, <1>5 DEF Init
<1>7. receipts = {} /\ exposed = {} /\ burned = {}
    BY DEF Init
<1>8. Types
    BY <1>1, <1>6, <1>7 DEF Types
<1>9. \A c \in Conns : JournalOK(c) /\ BurnedOK(c)
    BY <1>2, <1>3, <1>5, <1>7 DEF JournalOK, OpenedOK, BurnedOK
<1>10. \A c \in Conns : Authorized(markers, c, handles[c]) /\ Balanced(handles[c])
    BY <1>3, <1>4, <1>5
<1>11. ReceiptsOK /\ RangesDisjoint /\ \A e \in exposed : ExposureOK(e)
    BY <1>7 DEF ReceiptsOK, RangesDisjoint
<1> QED
    BY <1>1, <1>8, <1>9, <1>10, <1>11 DEF IInv

\* A step that checks no handle starts no call of a burned connection.
LEMMA KeptBurnStep ==
    ASSUME IInv, Kept
    PROVE  IInv' /\ BurnStep
BY DEF IInv, Types, Kept, Unchecked, BurnStep

\* Every step keeps the invariant, and starts no call of a burned connection.
LEMMA NextPreserves ==
    ASSUME IInv, Next
    PROVE  IInv' /\ BurnStep
<1>1. ASSUME NEW c \in Conns, Lifecycle(c) PROVE IInv' /\ BurnStep
    <2>1. CASE EnsureLive(c)
        BY <2>1, EnsureLiveStep
    <2>2. CASE Create(c)
        BY <2>2, CreateStep, KeptBurnStep
    <2>3. CASE CreateRejected(c)
        BY <2>3, CreateRejectedStep, KeptBurnStep
    <2>4. CASE Refuse(c)
        BY <2>4, RefuseStep, KeptBurnStep
    <2>5. CASE AbortConnection(c)
        BY <2>5, AbortConnectionStep, KeptBurnStep
    <2>6. CASE DropHandle(c) \/ Kill(c)
        BY <2>6, DropKillStep, KeptBurnStep
    <2> QED
        BY <1>1, <2>1, <2>2, <2>3, <2>4, <2>5, <2>6 DEF Lifecycle
<1>2. ASSUME NEW c \in Conns, StageCall(c) PROVE Kept
    <2>1. CASE Activate(c)
        BY <2>1, ActivateStep
    <2>2. ASSUME NEW s \in Stages, NEW n \in Sizes, RegisterStage(c, s, n) PROVE Kept
        BY <2>2, RegisterStageStep
    <2>3. ASSUME NEW s \in Stages, NEW source \in Stages, NEW n \in Counts, NEW m \in Sizes,
                 RegisterRefill(c, source, s, n, m)
          PROVE  Kept
        BY <2>3, RegisterRefillStep
    <2>4. ASSUME NEW s \in Stages, NEW n \in Counts, ReserveAsBase(c, s, n) PROVE Kept
        BY <2>4, ReserveAsBaseStep
    <2>5. ASSUME NEW s \in Stages, NEW n \in Counts, BurnStageOutput(c, s, n) PROVE Kept
        BY <2>5, BurnStageOutputStep
    <2> QED
        BY <1>2, <2>1, <2>2, <2>3, <2>4, <2>5 DEF StageCall
<1>3. ASSUME NEW c \in Conns, ResponseCall(c) PROVE Kept
    <2>1. ASSUME NEW b \in Bindings, BeginResponse(c, b) PROVE Kept
        BY <2>1, BeginResponseStep
    <2>2. ASSUME NEW b \in Bindings, BeginResponseDenied(c, b) PROVE Kept
        BY <2>2, BeginResponseDeniedStep
    <2>3. ASSUME NEW s \in Stages, NEW n \in Counts, NEW tag \in Tags, Allocate(c, s, n, tag)
          PROVE  Kept
        BY <2>3, AllocateStep
    <2>4. CASE RecordFrame(c)
        BY <2>4, RecordFrameStep
    <2>5. ASSUME NEW kind \in {"RESPONSE_SUCCESS", "RESPONSE_ABORT"}, FinishResponse(c, kind)
          PROVE  Kept
        BY <2>5, FinishResponseStep
    <2> QED
        BY <1>3, <2>1, <2>2, <2>3, <2>4, <2>5 DEF ResponseCall
<1>4. ASSUME NEW c \in Conns, SettlementCall(c) PROVE Kept
    <2>1. ASSUME NEW n \in Claims, FreezeClaims(c, n) PROVE Kept
        BY <2>1, FreezeClaimsStep
    <2>2. ASSUME NEW n \in Claims, SealSettlement(c, n) PROVE Kept
        BY <2>2, SealSettlementStep
    <2>3. ASSUME NEW e \in 1..MaxEpoch, NEW s \in Seeds, NEW x \in Expected,
                 ReserveSettlement(c, e, s, x)
          PROVE  Kept
        BY <2>3, ReserveSettlementStep
    <2>4. ASSUME NEW receipt \in receipts, RecordFreshness(c, receipt) PROVE Kept
        BY <2>4, RecordFreshnessStep
    <2>5. ASSUME NEW s \in Stages, NEW n \in Counts, NEW tag \in Tags,
                 AllocateSettlement(c, s, n, tag)
          PROVE  Kept
        BY <2>5, AllocateSettlementStep
    <2>6. CASE SettlementSuccess(c)
        BY <2>6, SettlementSuccessStep
    <2>7. CASE SettlementFailure(c)
        BY <2>7, SettlementFailureStep
    <2>8. CASE CloseSettled(c)
        BY <2>8, CloseSettledStep
    <2> QED
        BY <1>4, <2>1, <2>2, <2>3, <2>4, <2>5, <2>6, <2>7, <2>8 DEF SettlementCall
<1>5. ASSUME NEW b \in Bindings, ExpandPhaseB(b) PROVE Kept
    BY <1>5, ExpandPhaseBStep
<1>6. CASE OpenStore
    BY <1>6, OpenStoreStep, KeptBurnStep
<1>7. CASE PowerLoss
    BY <1>7, PowerLossStep, KeptBurnStep
<1> QED
    BY <1>1, <1>2, <1>3, <1>4, <1>5, <1>6, <1>7, KeptBurnStep DEF Next

\* Stuttering changes nothing the invariant speaks of.
LEMMA StutterPreserves ==
    ASSUME IInv, UNCHANGED vars
    PROVE  IInv' /\ BurnStep
<1>1. AuthKept /\ UNCHANGED receipts /\ UNCHANGED <<journals, handles, history>>
    BY AuthUnchanged DEF vars, connVars
<1>2. Kept
    BY <1>1, BurnStoreStep, ReceiptsKept
<1> QED
    BY <1>2, KeptBurnStep

\* The invariant holds for any number of connections, stages, keys and faults.
THEOREM ConnectionInvariant == Spec => []IInv
<1>1. Init => IInv
    BY InitEstablishes
<1>2. IInv /\ [Next]_vars => IInv'
    BY NextPreserves, StutterPreserves
<1> QED
    BY <1>1, <1>2, PTL DEF Spec

\* Single use of correlations: ranges handed out by allocate,
\* allocate_x4d_settlement and reserve_as_base never overlap.
THEOREM RangesDisjointAlways == Spec => []RangesDisjoint
<1>1. IInv => RangesDisjoint
    BY DEF IInv
<1> QED
    BY <1>1, ConnectionInvariant, PTL

\* Write-ahead: the record of an exposed range is durable, and stays so over
\* restarts and losses of power (append_record).
THEOREM ExposureJournaledAlways == Spec => []ExposureJournaled
<1>1. IInv => ExposureJournaled
    BY DEF IInv, ExposureOK, ExposureJournaled
<1> QED
    BY <1>1, ConnectionInvariant, PTL

\* A key authorizes once and an identity yields one handle, over all crashes
\* (reserve, create).
THEOREM FreshnessOnceAlways == Spec => []FreshnessOnce
<1>1. IInv => FreshnessOnce
    BY DEF IInv, Types, FreshnessOnce
<1> QED
    BY <1>1, ConnectionInvariant, PTL

\* A range is exposed only after the key that pays for it is burned durably
\* (begin_response, record_x4d_settlement_freshness).
THEOREM AuthorizedExposureAlways == Spec => []AuthorizedExposure
<1>1. IInv => AuthorizedExposure
    BY DEF IInv, ExposureOK, AuthorizedExposure
<1> QED
    BY <1>1, ConnectionInvariant, PTL

\* A connection a second opener burned starts no further call
\* (burn_existing_journal, ensure_live).
THEOREM BurnStopsAlways == Spec => BurnStops
<1>1. IInv /\ [Next]_vars => [BurnStep]_vars
    BY NextPreserves
<1>2. [BurnStep]_vars => [\A c \in burned : ~handles[c].checked => ~handles'[c].checked]_vars
    BY DEF BurnStep
<1> QED
    BY <1>1, <1>2, ConnectionInvariant, PTL DEF Spec, BurnStops

-----------------------------------------------------------------------------
(* The accounts of a journal.  R is a set of records; what a journal says  *)
(* of a stage, of a key or of the claims is the sum, or the number, of the *)
(* records of such a set among its first n.                                *)

StageRecs(kinds, s) == {r \in Record : r.kind \in kinds /\ r.stage = s}
KeyRecs(kinds, k) == {r \in Record : r.kind \in kinds /\ r.key = k}
KindRecs(kinds) == {r \in Record : r.kind \in kinds}

Amounts(log) == [i \in DOMAIN log |-> log[i].count]

In(log, n, R) == {i \in 1..n : log[i] \in R}
SumIn(log, n, R) == SumFunctionOnSet(Amounts(log), In(log, n, R))
NumIn(log, n, R) == Cardinality(In(log, n, R))

Live(h) == h.state \in {"open", "active"}

\* Stages: what the counters of a live handle say, and what refills took.
StagesAgree(h, log) ==
    \A s \in Stages :
        /\ h.stages[s].generated = SumIn(log, Len(log), StageRecs({"STAGE"}, s))
        /\ h.stages[s].consumed
              = SumIn(log, Len(log), StageRecs({"ALLOCATE", "SETTLEMENT_ALLOCATE"}, s))
        /\ h.stages[s].reserved = SumIn(log, Len(log), StageRecs({"RESERVED_AS_BASE"}, s))
        /\ h.stages[s].burned = SumIn(log, Len(log), StageRecs({"STAGE_OUTPUT_BURN"}, s))
        /\ h.activated[s] = SumIn(log, Len(log), StageRecs({"BASE_INPUTS_CONSUMED"}, s))
        /\ h.activated[s] <= h.stages[s].reserved

RefillsLegal(log) ==
    \A n \in 0..Len(log) : \A s \in Stages :
        SumIn(log, n, StageRecs({"BASE_INPUTS_CONSUMED"}, s))
            <= SumIn(log, n, StageRecs({"RESERVED_AS_BASE"}, s))

\* Responses: nothing is accounted to a nonce once its response has ended.
Ends == {"RESPONSE_SUCCESS", "RESPONSE_ABORT"}

ResponsesLegal(log) ==
    \A i \in 1..Len(log) : log[i].kind \in Ends =>
        /\ log[i].count = SumIn(log, i - 1, KeyRecs({"ALLOCATE"}, log[i].key))
        /\ log[i].start = NumIn(log, i - 1, KeyRecs({"CHANNEL"}, log[i].key))
        /\ \A m \in (i + 1)..Len(log) :
              log[m].kind \in {"ALLOCATE", "CHANNEL"} => log[m].key # log[i].key

\* What is accounted to a nonce is accounted to a burned one.
ResponseKeys(m, log) ==
    \A i \in 1..Len(log) : log[i].kind \in {"ALLOCATE", "CHANNEL"} \cup Ends =>
        log[i].key \in Keys /\ m[log[i].key] = "durable"

ResponseAgrees(h, log) ==
    h.response # None =>
        /\ h.spent = SumIn(log, Len(log), KeyRecs({"ALLOCATE"}, h.response))
        /\ h.frames = NumIn(log, Len(log), KeyRecs({"CHANNEL"}, h.response))
        /\ \A i \in 1..Len(log) : log[i].kind \in Ends => log[i].key # h.response

\* Settlements.
Frozen(log, n) == SumIn(log, n, KindRecs({"CLAIMS_FROZEN"}))

VerifiedAt(log, n) ==
    LET done == {q \in 1..n : log[q].kind = "SETTLEMENT_SUCCESS"}
    IN  IF done = {} THEN 0 ELSE log[Max(done)].start

SealedAt(log, q, epoch, first, count) ==
    /\ log[q].kind = "SETTLEMENT_SEAL" /\ log[q].key = epoch
    /\ log[q].start = first /\ log[q].count = count
    /\ first + count <= Frozen(log, q - 1)

FreshAt(log, f, epoch, expected) ==
    /\ log[f].kind = "SETTLEMENT_FRESHNESS" /\ log[f].key = epoch
    /\ log[f].count = expected

\* A settlement that record x ends succeeded after the first n records: it cost
\* what was allocated to it, was sealed in its turn, and paid its price.
Succeeded(log, n, x) ==
    /\ x.count = SumIn(log, n, KeyRecs({"SETTLEMENT_ALLOCATE"}, x.key))
    /\ \E q, f \in 1..n :
          /\ q < f
          /\ SealedAt(log, q, x.key, VerifiedAt(log, n), log[q].count)
          /\ FreshAt(log, f, x.key, log[f].count)
          /\ x.count = 2 * log[f].count
          /\ x.start = log[q].start + log[q].count

SettlementsLegal(log) ==
    \A i \in 1..Len(log) :
        /\ log[i].kind = "SETTLEMENT_SEAL" =>
              \A m \in 1..(i - 1) : log[m].kind = "SETTLEMENT_SEAL" => log[m].key # log[i].key
        /\ log[i].kind = "SETTLEMENT_SUCCESS" =>
              /\ Succeeded(log, i - 1, log[i])
              /\ \A m \in (i + 1)..Len(log) :
                    log[m].kind \in {"SETTLEMENT_ALLOCATE", "SETTLEMENT_SEAL"}
                        => log[m].key # log[i].key

SettlementKinds == {"SETTLEMENT_SEAL", "SETTLEMENT_ALLOCATE", "SETTLEMENT_SUCCESS"}

\* The settlements of a journal are those a handle has begun.
EpochsBelow(log, e) ==
    \A i \in 1..Len(log) : log[i].kind \in SettlementKinds => log[i].key \in Nat /\ log[i].key < e

SealAgrees(h, log) ==
    /\ h.seal.epoch \in 1..(h.epoch - 1)
    /\ h.seal.first = h.verified
    /\ \A i \in 1..Len(log) : log[i].kind = "SETTLEMENT_SUCCESS" => log[i].key # h.seal.epoch
    /\ \E q \in 1..Len(log) :
          /\ SealedAt(log, q, h.seal.epoch, h.seal.first, h.seal.count)
          /\ h.fresh.epoch # 0 =>
                \E f \in (q + 1)..Len(log) : FreshAt(log, f, h.seal.epoch, h.fresh.expected)
    /\ IF h.fresh.epoch # 0
       THEN /\ h.fresh.epoch = h.seal.epoch
            /\ h.paid = SumIn(log, Len(log), KeyRecs({"SETTLEMENT_ALLOCATE"}, h.seal.epoch))
       ELSE \A i \in 1..Len(log) : log[i].kind = "SETTLEMENT_ALLOCATE" => log[i].key # h.seal.epoch

SettlementAgrees(h, log) ==
    /\ h.epoch >= 1
    /\ h.frozen = Frozen(log, Len(log))
    /\ h.verified = VerifiedAt(log, Len(log))
    /\ EpochsBelow(log, h.epoch)
    /\ IF h.seal.count = 0 THEN h.fresh.epoch = 0 ELSE SealAgrees(h, log)

\* A graceful close left nothing frozen and unverified, and nothing of either
\* kind follows it.
SettledUp(log, synced) ==
    \E n \in 0..synced :
        /\ Frozen(log, n) = VerifiedAt(log, n)
        /\ \A i \in (n + 1)..Len(log) : log[i].kind \notin {"CLAIMS_FROZEN", "SETTLEMENT_SUCCESS"}

ClosedOK(c) ==
    c \in closed =>
        /\ opened[c] = 1 /\ ~Live(handles[c])
        /\ SettledUp(journals[c].log, journals[c].synced)

LogOK(m, log) ==
    /\ RefillsLegal(log) /\ ResponsesLegal(log)
    /\ ResponseKeys(m, log) /\ SettlementsLegal(log)

Agrees(h, log) == StagesAgree(h, log) /\ ResponseAgrees(h, log) /\ SettlementAgrees(h, log)

Books(m, h, log) == LogOK(m, log) /\ (Live(h) => Agrees(h, log))

Accounted(c) == Books(markers, handles[c], journals[c].log)

AInv ==
    /\ closed \subseteq Conns
    /\ \A c \in Conns : Accounted(c) /\ ClosedOK(c)

-----------------------------------------------------------------------------
(* Sums along a journal *)

\* Membership in the sets of records that are summed.
LEMMA Members ==
    ASSUME NEW x \in Record, NEW K, NEW v
    PROVE  /\ x \in StageRecs(K, v) <=> x.kind \in K /\ x.stage = v
           /\ x \in KeyRecs(K, v) <=> x.kind \in K /\ x.key = v
BY DEF StageRecs, KeyRecs

\* The records counted are finitely many and have natural counts.
LEMMA InFinite ==
    ASSUME NEW log \in Seq(Record), NEW n \in 0..Len(log), NEW R
    PROVE  /\ IsFiniteSet(In(log, n, R))
           /\ \A i \in In(log, n, R) : Amounts(log)[i] = log[i].count /\ log[i].count \in Nat
<1>1. Len(log) \in Nat /\ \A i \in 1..Len(log) : log[i] \in Record
    BY LenProperties, ElementOfSeq
<1>2. In(log, n, R) \subseteq 1..n
    BY DEF In
<1>3. IsFiniteSet(In(log, n, R))
    <2>1. n \in Int /\ 1 \in Int
        BY <1>1
    <2>2. IsFiniteSet(1..n)
        BY <2>1, FS_Interval
    <2> QED
        BY <1>2, <2>2, FS_Subset
<1>4. DOMAIN log = 1..Len(log)
    BY LenProperties
<1> QED
    BY <1>1, <1>2, <1>3, <1>4 DEF Amounts, Record

\* Sums and numbers of records are naturals.
LEMMA InNat ==
    ASSUME NEW log \in Seq(Record), NEW n \in 0..Len(log), NEW R
    PROVE  SumIn(log, n, R) \in Nat /\ NumIn(log, n, R) \in Nat
<1>1. /\ IsFiniteSet(In(log, n, R))
      /\ \A i \in In(log, n, R) : Amounts(log)[i] = log[i].count /\ log[i].count \in Nat
    BY InFinite
<1>2. SumFunctionOnSet(Amounts(log), In(log, n, R)) \in Nat
    BY <1>1, SumNat
<1>3. Cardinality(In(log, n, R)) \in Nat
    BY <1>1, FS_CardinalityType
<1> QED
    BY <1>2, <1>3 DEF SumIn, NumIn

\* Sums over the first n records depend on these alone.
LEMMA SameSums ==
    ASSUME NEW log \in Seq(Record), NEW log2 \in Seq(Record), NEW n \in 0..Len(log),
           n <= Len(log2), \A i \in 1..n : log2[i] = log[i]
    PROVE  \A k \in 0..n : \A R : SumIn(log2, k, R) = SumIn(log, k, R)
                                  /\ NumIn(log2, k, R) = NumIn(log, k, R)
<1>1. Len(log) \in Nat /\ Len(log2) \in Nat /\ n \in Nat
    BY LenProperties
<1>2. SUFFICES ASSUME NEW k \in 0..n, NEW R
               PROVE  SumIn(log2, k, R) = SumIn(log, k, R) /\ NumIn(log2, k, R) = NumIn(log, k, R)
    OBVIOUS
<1>3. PICK I : I = In(log, k, R)
    OBVIOUS
<1>4. In(log2, k, R) = I
    BY <1>1, <1>3 DEF In
<1>5. k \in 0..Len(log) /\ k \in 0..Len(log2)
    BY <1>1
<1>6. /\ IsFiniteSet(I)
      /\ \A i \in I : Amounts(log)[i] = log[i].count
      /\ \A i \in I : Amounts(log2)[i] = log2[i].count
    BY <1>3, <1>4, <1>5, InFinite
<1>7. \A i \in I : log2[i] = log[i]
    BY <1>1, <1>3 DEF In
<1>8. PICK f, g : f = Amounts(log) /\ g = Amounts(log2)
    OBVIOUS
<1>9. SumFunctionOnSet(f, I) = SumFunctionOnSet(g, I)
    <2>1. \A i \in I : f[i] = g[i]
        BY <1>6, <1>7, <1>8
    <2> QED
        BY <1>6, <2>1, SumAgree
<1> QED
    BY <1>3, <1>4, <1>8, <1>9 DEF SumIn, NumIn

\* One more record adds its count to the sums it is counted in.
LEMMA SumGrows ==
    ASSUME NEW log \in Seq(Record), NEW n \in 0..(Len(log) - 1), NEW R
    PROVE  /\ SumIn(log, n + 1, R)
                = SumIn(log, n, R) + (IF log[n + 1] \in R THEN log[n + 1].count ELSE 0)
           /\ NumIn(log, n + 1, R) = NumIn(log, n, R) + (IF log[n + 1] \in R THEN 1 ELSE 0)
<1>1. Len(log) \in Nat /\ n \in Nat /\ n \in 0..Len(log) /\ n + 1 \in 0..Len(log)
    BY LenProperties
<1>2. PICK I, J, f : I = In(log, n, R) /\ J = In(log, n + 1, R) /\ f = Amounts(log)
    OBVIOUS
<1>3. /\ IsFiniteSet(I) /\ \A i \in I : f[i] \in Nat
      /\ \A i \in J : f[i] = log[i].count /\ log[i].count \in Nat
    BY <1>1, <1>2, InFinite
<1>4. n + 1 \notin I
    BY <1>1, <1>2 DEF In
<1>5. CASE log[n + 1] \in R
    <2>1. J = I \cup {n + 1}
        BY <1>1, <1>2, <1>5 DEF In
    <2>2. \A i \in I \cup {n + 1} : f[i] \in Int
        BY <1>3, <2>1
    <2>3. SumFunctionOnSet(f, I \cup {n + 1}) = SumFunctionOnSet(f, I) + f[n + 1]
        BY <1>3, <1>4, <2>2, SumAdd
    <2>4. Cardinality(I \cup {n + 1}) = Cardinality(I) + 1
        BY <1>3, <1>4, FS_AddElement
    <2>5. f[n + 1] = log[n + 1].count
        BY <1>3, <2>1
    <2> QED
        BY <1>2, <1>5, <2>1, <2>3, <2>4, <2>5 DEF SumIn, NumIn
<1>6. CASE log[n + 1] \notin R
    <2>1. J = I
        BY <1>1, <1>2, <1>6 DEF In
    <2>2. SumIn(log, n, R) \in Nat /\ NumIn(log, n, R) \in Nat
        BY <1>1, InNat
    <2> QED
        BY <1>2, <1>6, <2>1, <2>2 DEF SumIn, NumIn
<1> QED
    BY <1>5, <1>6

\* x is the record a method appended, perhaps glued to a torn one.
Like(x, r) ==
    /\ x.kind = r.kind /\ x.stage = r.stage /\ x.start = r.start
    /\ x.count = r.count /\ x.key = r.key /\ x.tag = r.tag

\* log2 is log and one more record, x.
Longer(log, x, log2) ==
    /\ log \in Seq(Record) /\ x \in Record /\ log2 \in Seq(Record)
    /\ Len(log2) = Len(log) + 1 /\ log2[Len(log) + 1] = x
    /\ \A i \in 1..Len(log) : log2[i] = log[i]

\* An append makes a journal longer.
LEMMA LongerAppend ==
    ASSUME NEW log \in Seq(Record), NEW x \in Record
    PROVE  Longer(log, x, Append(log, x))
BY AppendProperties DEF Longer

\* What one more record does to the sums.
LEMMA LongerSums ==
    ASSUME NEW log, NEW x, NEW log2, Longer(log, x, log2)
    PROVE  /\ Len(log) \in Nat /\ Len(log2) = Len(log) + 1
           /\ \A k \in 0..Len(log) : \A R : SumIn(log2, k, R) = SumIn(log, k, R)
                                            /\ NumIn(log2, k, R) = NumIn(log, k, R)
           /\ \A R : SumIn(log, Len(log), R) \in Nat /\ NumIn(log, Len(log), R) \in Nat
           /\ \A R : x \in R =>
                 /\ SumIn(log2, Len(log2), R) = SumIn(log, Len(log), R) + x.count
                 /\ NumIn(log2, Len(log2), R) = NumIn(log, Len(log), R) + 1
           /\ \A R : x \notin R =>
                 /\ SumIn(log2, Len(log2), R) = SumIn(log, Len(log), R)
                 /\ NumIn(log2, Len(log2), R) = NumIn(log, Len(log), R)
<1>1. /\ log \in Seq(Record) /\ x \in Record /\ log2 \in Seq(Record)
      /\ Len(log2) = Len(log) + 1 /\ log2[Len(log) + 1] = x
      /\ \A i \in 1..Len(log) : log2[i] = log[i]
    BY DEF Longer
<1>2. PICK n \in Nat : n = Len(log)
    BY <1>1, LenProperties
<1>3. n \in 0..Len(log) /\ n \in 0..(Len(log2) - 1) /\ n <= Len(log2)
    BY <1>1, <1>2
<1>4. \A k \in 0..n : \A R : SumIn(log2, k, R) = SumIn(log, k, R)
                            /\ NumIn(log2, k, R) = NumIn(log, k, R)
    BY <1>1, <1>2, <1>3, SameSums
<1>5. \A R : SumIn(log, n, R) \in Nat /\ NumIn(log, n, R) \in Nat
    BY <1>1, <1>3, InNat
<1>6. \A R : /\ SumIn(log2, n + 1, R) = SumIn(log2, n, R) + (IF x \in R THEN x.count ELSE 0)
             /\ NumIn(log2, n + 1, R) = NumIn(log2, n, R) + (IF x \in R THEN 1 ELSE 0)
    BY <1>1, <1>2, <1>3, SumGrows
<1>7. \A R : SumIn(log2, n, R) = SumIn(log, n, R) /\ NumIn(log2, n, R) = NumIn(log, n, R)
    BY <1>2, <1>4
<1>8. ASSUME NEW R
      PROVE  /\ x \in R => /\ SumIn(log2, n + 1, R) = SumIn(log, n, R) + x.count
                           /\ NumIn(log2, n + 1, R) = NumIn(log, n, R) + 1
             /\ x \notin R => /\ SumIn(log2, n + 1, R) = SumIn(log, n, R)
                              /\ NumIn(log2, n + 1, R) = NumIn(log, n, R)
    <2>1. SumIn(log, n, R) \in Nat /\ NumIn(log, n, R) \in Nat
        BY <1>5
    <2> QED
        BY <1>6, <1>7, <2>1
<1> QED
    BY <1>1, <1>2, <1>4, <1>5, <1>8

\* Nothing is counted where no record is.
LEMMA NothingIn ==
    ASSUME NEW log \in Seq(Record), NEW n \in 0..Len(log), NEW R, \A i \in 1..n : log[i] \notin R
    PROVE  SumIn(log, n, R) = 0 /\ NumIn(log, n, R) = 0
<1>1. In(log, n, R) = {}
    BY DEF In
<1> QED
    BY <1>1, SumEmpty, FS_EmptySet DEF SumIn, NumIn

-----------------------------------------------------------------------------
(* Stages *)

StageKinds == {"STAGE", "ALLOCATE", "SETTLEMENT_ALLOCATE", "RESERVED_AS_BASE",
               "STAGE_OUTPUT_BURN", "BASE_INPUTS_CONSUMED"}

\* What a record adds to a counter.
Adds(x, kinds, s) == IF x.kind \in kinds /\ x.stage = s THEN x.count ELSE 0

\* The counters of h2 are those of h and what record x says.
StagesFollow(g, x, h) ==
    \A s \in Stages :
        /\ h.stages[s].generated = g.stages[s].generated + Adds(x, {"STAGE"}, s)
        /\ h.stages[s].consumed
              = g.stages[s].consumed + Adds(x, {"ALLOCATE", "SETTLEMENT_ALLOCATE"}, s)
        /\ h.stages[s].reserved = g.stages[s].reserved + Adds(x, {"RESERVED_AS_BASE"}, s)
        /\ h.stages[s].burned = g.stages[s].burned + Adds(x, {"STAGE_OUTPUT_BURN"}, s)
        /\ h.activated[s] = g.activated[s] + Adds(x, {"BASE_INPUTS_CONSUMED"}, s)
        /\ h.activated[s] <= h.stages[s].reserved

\* A counter that follows a record still is a sum.
LEMMA AddsSum ==
    ASSUME NEW log, NEW x, NEW log2, Longer(log, x, log2), NEW K, NEW s
    PROVE  SumIn(log2, Len(log2), StageRecs(K, s))
              = SumIn(log, Len(log), StageRecs(K, s)) + Adds(x, K, s)
<1>1. PICK R : R = StageRecs(K, s)
    OBVIOUS
<1>2. x \in Record
    BY DEF Longer
<1>3. x \in R <=> x.kind \in K /\ x.stage = s
    BY <1>1, <1>2, Members
<1>4. /\ SumIn(log, Len(log), R) \in Nat
      /\ x \in R => SumIn(log2, Len(log2), R) = SumIn(log, Len(log), R) + x.count
      /\ x \notin R => SumIn(log2, Len(log2), R) = SumIn(log, Len(log), R)
    BY LongerSums
<1> QED
    BY <1>1, <1>3, <1>4 DEF Adds

\* A journal and a handle that go on together still agree about the stages.
LEMMA StagesGrow ==
    ASSUME NEW log, NEW x, NEW log2, Longer(log, x, log2), NEW g, NEW h,
           StagesAgree(g, log), StagesFollow(g, x, h)
    PROVE  StagesAgree(h, log2)
<1>1. SUFFICES ASSUME NEW s \in Stages
               PROVE  /\ h.stages[s].generated = SumIn(log2, Len(log2), StageRecs({"STAGE"}, s))
                      /\ h.stages[s].consumed = SumIn(log2, Len(log2),
                            StageRecs({"ALLOCATE", "SETTLEMENT_ALLOCATE"}, s))
                      /\ h.stages[s].reserved
                            = SumIn(log2, Len(log2), StageRecs({"RESERVED_AS_BASE"}, s))
                      /\ h.stages[s].burned
                            = SumIn(log2, Len(log2), StageRecs({"STAGE_OUTPUT_BURN"}, s))
                      /\ h.activated[s]
                            = SumIn(log2, Len(log2), StageRecs({"BASE_INPUTS_CONSUMED"}, s))
                      /\ h.activated[s] <= h.stages[s].reserved
    BY DEF StagesAgree
<1>2. \A K : SumIn(log2, Len(log2), StageRecs(K, s))
                 = SumIn(log, Len(log), StageRecs(K, s)) + Adds(x, K, s)
    BY AddsSum
<1>3. /\ g.stages[s].generated = SumIn(log, Len(log), StageRecs({"STAGE"}, s))
      /\ g.stages[s].consumed
            = SumIn(log, Len(log), StageRecs({"ALLOCATE", "SETTLEMENT_ALLOCATE"}, s))
      /\ g.stages[s].reserved = SumIn(log, Len(log), StageRecs({"RESERVED_AS_BASE"}, s))
      /\ g.stages[s].burned = SumIn(log, Len(log), StageRecs({"STAGE_OUTPUT_BURN"}, s))
      /\ g.activated[s] = SumIn(log, Len(log), StageRecs({"BASE_INPUTS_CONSUMED"}, s))
    BY DEF StagesAgree
<1> QED
    BY <1>2, <1>3 DEF StagesFollow

\* The sums of the longer journal are legal when they are so at its end.
LEMMA RefillsGrow ==
    ASSUME NEW log, NEW x, NEW log2, Longer(log, x, log2), RefillsLegal(log),
           \A s \in Stages : SumIn(log2, Len(log2), StageRecs({"BASE_INPUTS_CONSUMED"}, s))
                                <= SumIn(log2, Len(log2), StageRecs({"RESERVED_AS_BASE"}, s))
    PROVE  RefillsLegal(log2)
<1>1. PICK n \in Nat : n = Len(log) /\ Len(log2) = n + 1
    BY LongerSums
<1>2. \A k \in 0..n : \A R : SumIn(log2, k, R) = SumIn(log, k, R)
    BY <1>1, LongerSums
<1>3. SUFFICES ASSUME NEW k \in 0..Len(log2), NEW s \in Stages
               PROVE  SumIn(log2, k, StageRecs({"BASE_INPUTS_CONSUMED"}, s))
                          <= SumIn(log2, k, StageRecs({"RESERVED_AS_BASE"}, s))
    BY DEF RefillsLegal
<1>4. CASE k \in 0..n
    BY <1>1, <1>2, <1>4 DEF RefillsLegal
<1>5. CASE k = Len(log2)
    BY <1>5
<1> QED
    BY <1>1, <1>4, <1>5

\* Where a live handle agrees with the longer journal, its refills are legal.
LEMMA RefillsFollow ==
    ASSUME NEW log, NEW x, NEW log2, Longer(log, x, log2), RefillsLegal(log),
           NEW h, StagesAgree(h, log2)
    PROVE  RefillsLegal(log2)
BY RefillsGrow DEF StagesAgree

\* A record that no stage is accounted by.
LEMMA RefillsIdle ==
    ASSUME NEW log, NEW x, NEW log2, Longer(log, x, log2), x.kind \notin StageKinds,
           RefillsLegal(log)
    PROVE  RefillsLegal(log2)
<1>1. Len(log) \in 0..Len(log)
    BY LongerSums
<1>2. ASSUME NEW s \in Stages
      PROVE  SumIn(log2, Len(log2), StageRecs({"BASE_INPUTS_CONSUMED"}, s))
                 <= SumIn(log2, Len(log2), StageRecs({"RESERVED_AS_BASE"}, s))
    <2>1. \A K : SumIn(log2, Len(log2), StageRecs(K, s))
                     = SumIn(log, Len(log), StageRecs(K, s)) + Adds(x, K, s)
        BY AddsSum
    <2>2. \A R : SumIn(log, Len(log), R) \in Nat
        BY LongerSums
    <2>3. Adds(x, {"BASE_INPUTS_CONSUMED"}, s) = 0 /\ Adds(x, {"RESERVED_AS_BASE"}, s) = 0
        BY DEF Adds, StageKinds
    <2>4. SumIn(log, Len(log), StageRecs({"BASE_INPUTS_CONSUMED"}, s))
              <= SumIn(log, Len(log), StageRecs({"RESERVED_AS_BASE"}, s))
        BY <1>1 DEF RefillsLegal
    <2> QED
        BY <2>1, <2>2, <2>3, <2>4
<1> QED
    BY <1>2, RefillsGrow

\* What a handle says of its stages.
SameStages(g, h) == h.stages = g.stages /\ h.activated = g.activated

\* A handle with the same counters agrees with the same journal.
LEMMA StagesSame ==
    ASSUME NEW log, NEW g, NEW h, StagesAgree(g, log), SameStages(g, h)
    PROVE  StagesAgree(h, log)
BY DEF StagesAgree, SameStages

\* A record that accounts nothing to a stage leaves the counters as they were.
LEMMA StagesIdle ==
    ASSUME NEW log, NEW x, NEW log2, Longer(log, x, log2), x.kind \notin StageKinds,
           NEW g, NEW h, StagesAgree(g, log), SameStages(g, h)
    PROVE  StagesAgree(h, log2)
<1>1. StagesAgree(h, log)
    BY StagesSame
<1>2. \A K : \A s \in Stages : SumIn(log2, Len(log2), StageRecs(K, s))
                 = SumIn(log, Len(log), StageRecs(K, s)) + Adds(x, K, s)
    BY AddsSum
<1>3. ASSUME NEW K, K \subseteq StageKinds, NEW s \in Stages
      PROVE  SumIn(log2, Len(log2), StageRecs(K, s)) = SumIn(log, Len(log), StageRecs(K, s))
    <2>1. Adds(x, K, s) = 0
        BY <1>3 DEF Adds
    <2>2. SumIn(log, Len(log), StageRecs(K, s)) \in Nat
        BY LongerSums
    <2> QED
        BY <1>2, <2>1, <2>2
<1>4. /\ {"STAGE"} \subseteq StageKinds /\ {"ALLOCATE", "SETTLEMENT_ALLOCATE"} \subseteq StageKinds
      /\ {"RESERVED_AS_BASE"} \subseteq StageKinds /\ {"STAGE_OUTPUT_BURN"} \subseteq StageKinds
      /\ {"BASE_INPUTS_CONSUMED"} \subseteq StageKinds
    BY DEF StageKinds
<1> QED
    BY <1>1, <1>3, <1>4 DEF StagesAgree

-----------------------------------------------------------------------------
(* Responses *)

ResponseKinds == {"ALLOCATE", "CHANNEL"} \cup Ends

\* One more record keeps the responses legal: a frame or an allocation comes
\* before its end, and an end says what was accounted to its nonce.
LEMMA ResponsesGrow ==
    ASSUME NEW log, NEW x, NEW log2, Longer(log, x, log2), ResponsesLegal(log),
           x.kind \in {"ALLOCATE", "CHANNEL"} =>
              \A i \in 1..Len(log) : log[i].kind \in Ends => log[i].key # x.key,
           x.kind \in Ends =>
              /\ x.count = SumIn(log, Len(log), KeyRecs({"ALLOCATE"}, x.key))
              /\ x.start = NumIn(log, Len(log), KeyRecs({"CHANNEL"}, x.key))
    PROVE  ResponsesLegal(log2)
<1>1. PICK n \in Nat : n = Len(log) /\ Len(log2) = n + 1
    BY LongerSums
<1>2. \A k \in 0..n : \A R : SumIn(log2, k, R) = SumIn(log, k, R) /\ NumIn(log2, k, R) = NumIn(log, k, R)
    BY <1>1, LongerSums
<1>3. log2[n + 1] = x /\ \A i \in 1..n : log2[i] = log[i]
    BY <1>1 DEF Longer
<1>4. SUFFICES ASSUME NEW i \in 1..(n + 1), log2[i].kind \in Ends
               PROVE  /\ log2[i].count = SumIn(log2, i - 1, KeyRecs({"ALLOCATE"}, log2[i].key))
                      /\ log2[i].start = NumIn(log2, i - 1, KeyRecs({"CHANNEL"}, log2[i].key))
                      /\ \A m \in (i + 1)..(n + 1) :
                            log2[m].kind \in {"ALLOCATE", "CHANNEL"} => log2[m].key # log2[i].key
    BY <1>1 DEF ResponsesLegal
<1>5. CASE i = n + 1
    <2>1. n \in 0..n /\ i - 1 = n /\ ~\E m \in (i + 1)..(n + 1) : TRUE
        BY <1>5
    <2> QED
        BY <1>1, <1>2, <1>3, <1>4, <1>5, <2>1
<1>6. CASE i # n + 1
    <2>1. i \in 1..n /\ i - 1 \in 0..n /\ log2[i] = log[i] /\ log[i].kind \in Ends
        BY <1>3, <1>4, <1>6
    <2>2. /\ log[i].count = SumIn(log, i - 1, KeyRecs({"ALLOCATE"}, log[i].key))
          /\ log[i].start = NumIn(log, i - 1, KeyRecs({"CHANNEL"}, log[i].key))
          /\ \A m \in (i + 1)..n : log[m].kind \in {"ALLOCATE", "CHANNEL"} => log[m].key # log[i].key
        BY <1>1, <2>1 DEF ResponsesLegal
    <2>3. \A m \in (i + 1)..(n + 1) : m = n + 1 \/ (m \in (i + 1)..n /\ m \in 1..n)
        BY <2>1
    <2>4. \A m \in (i + 1)..(n + 1) :
              log2[m].kind \in {"ALLOCATE", "CHANNEL"} => log2[m].key # log2[i].key
        BY <1>1, <1>3, <2>1, <2>2, <2>3
    <2> QED
        BY <1>2, <2>1, <2>2, <2>4
<1> QED
    BY <1>5, <1>6

\* One more record is accounted to a burned nonce.
LEMMA KeysGrow ==
    ASSUME NEW log, NEW x, NEW log2, Longer(log, x, log2), NEW m, ResponseKeys(m, log),
           x.kind \in ResponseKinds => x.key \in Keys /\ m[x.key] = "durable"
    PROVE  ResponseKeys(m, log2)
<1>1. PICK n \in Nat : n = Len(log) /\ Len(log2) = n + 1
    BY LongerSums
<1>2. log2[n + 1] = x /\ \A i \in 1..n : log2[i] = log[i]
    BY <1>1 DEF Longer
<1>3. \A i \in 1..(n + 1) : i = n + 1 \/ i \in 1..n
    BY <1>1
<1> QED
    BY <1>1, <1>2, <1>3 DEF ResponseKeys, ResponseKinds

\* Markers that stay durable keep the keys of a journal burned.
LEMMA KeysKept ==
    ASSUME NEW log, ResponseKeys(markers, log), AuthKept
    PROVE  ResponseKeys(markers', log)
BY DEF ResponseKeys, AuthKept

\* h says of its response what g says of it and x adds.
ResponseFollows(g, x, h) ==
    h.response # None =>
        /\ h.response = g.response
        /\ h.spent = g.spent + (IF x.kind = "ALLOCATE" /\ x.key = h.response THEN x.count ELSE 0)
        /\ h.frames = g.frames + (IF x.kind = "CHANNEL" /\ x.key = h.response THEN 1 ELSE 0)
        /\ x.kind \in Ends => x.key # h.response

\* A handle that follows the record it appends agrees with the journal.
LEMMA ResponseGrows ==
    ASSUME NEW log, NEW x, NEW log2, Longer(log, x, log2), NEW g, NEW h,
           ResponseAgrees(g, log), ResponseFollows(g, x, h)
    PROVE  ResponseAgrees(h, log2)
<1>1. SUFFICES ASSUME h.response # None
               PROVE  /\ h.spent = SumIn(log2, Len(log2), KeyRecs({"ALLOCATE"}, h.response))
                      /\ h.frames = NumIn(log2, Len(log2), KeyRecs({"CHANNEL"}, h.response))
                      /\ \A i \in 1..Len(log2) : log2[i].kind \in Ends => log2[i].key # h.response
    BY DEF ResponseAgrees
<1>2. PICK n \in Nat : n = Len(log) /\ Len(log2) = n + 1
    BY LongerSums
<1>3. PICK k : k = h.response
    OBVIOUS
<1>4. PICK A, C : A = KeyRecs({"ALLOCATE"}, k) /\ C = KeyRecs({"CHANNEL"}, k)
    OBVIOUS
<1>5. /\ g.spent = SumIn(log, n, A) /\ g.frames = NumIn(log, n, C)
      /\ \A i \in 1..n : log[i].kind \in Ends => log[i].key # k
    BY <1>1, <1>2, <1>3, <1>4 DEF ResponseAgrees, ResponseFollows
<1>6. /\ x \in A <=> x.kind = "ALLOCATE" /\ x.key = k
      /\ x \in C <=> x.kind = "CHANNEL" /\ x.key = k
    BY <1>4, Members DEF Longer
<1>7. /\ SumIn(log, n, A) \in Nat /\ NumIn(log, n, C) \in Nat
      /\ x \in A => SumIn(log2, n + 1, A) = SumIn(log, n, A) + x.count
      /\ x \notin A => SumIn(log2, n + 1, A) = SumIn(log, n, A)
      /\ x \in C => NumIn(log2, n + 1, C) = NumIn(log, n, C) + 1
      /\ x \notin C => NumIn(log2, n + 1, C) = NumIn(log, n, C)
    BY <1>2, LongerSums
<1>8. h.spent = SumIn(log2, n + 1, A)
    BY <1>1, <1>3, <1>5, <1>6, <1>7 DEF ResponseFollows
<1>9. h.frames = NumIn(log2, n + 1, C)
    BY <1>1, <1>3, <1>5, <1>6, <1>7 DEF ResponseFollows
<1>10. \A i \in 1..(n + 1) : log2[i].kind \in Ends => log2[i].key # k
    <2>1. log2[n + 1] = x /\ \A i \in 1..n : log2[i] = log[i]
        BY <1>2 DEF Longer
    <2>2. \A i \in 1..(n + 1) : i = n + 1 \/ i \in 1..n
        BY <1>2
    <2> QED
        BY <1>1, <1>3, <1>5, <2>1, <2>2 DEF ResponseFollows
<1> QED
    BY <1>2, <1>3, <1>4, <1>8, <1>9, <1>10

\* What a handle says of its response.
SameResponse(g, h) == h.response = g.response /\ h.spent = g.spent /\ h.frames = g.frames

\* A record of no response leaves a handle with the same response in agreement.
LEMMA ResponseIdle ==
    ASSUME NEW log, NEW x, NEW log2, Longer(log, x, log2), x.kind \notin ResponseKinds,
           NEW g \in HandleType, NEW h, ResponseAgrees(g, log), SameResponse(g, h)
    PROVE  ResponseAgrees(h, log2)
<1>1. g.spent \in Nat /\ g.frames \in Nat
    BY DEF HandleType
<1>2. ResponseFollows(g, x, h)
    BY <1>1 DEF ResponseFollows, SameResponse, ResponseKinds
<1> QED
    BY <1>2, ResponseGrows

\* What a key that was never burned has to its account.
LEMMA FreshResponse ==
    ASSUME NEW log \in Seq(Record), NEW m, ResponseKeys(m, log), NEW k \in Keys, m[k] # "durable"
    PROVE  /\ SumIn(log, Len(log), KeyRecs({"ALLOCATE"}, k)) = 0
           /\ NumIn(log, Len(log), KeyRecs({"CHANNEL"}, k)) = 0
           /\ \A i \in 1..Len(log) : log[i].kind \in Ends => log[i].key # k
<1>1. Len(log) \in 0..Len(log) /\ \A i \in 1..Len(log) : log[i] \in Record
    BY LenProperties, ElementOfSeq
<1>2. \A i \in 1..Len(log) : log[i].kind \in ResponseKinds => log[i].key # k
    BY DEF ResponseKeys, ResponseKinds
<1>3. \A i \in 1..Len(log) : /\ log[i] \notin KeyRecs({"ALLOCATE"}, k)
                             /\ log[i] \notin KeyRecs({"CHANNEL"}, k)
    BY <1>1, <1>2, Members DEF ResponseKinds
<1> QED
    BY <1>1, <1>2, <1>3, NothingIn DEF ResponseKinds

-----------------------------------------------------------------------------
(* Settlements *)

\* The greatest of finitely many numbers is one of them.
LEMMA MaxIn ==
    ASSUME NEW n \in Nat, NEW D, D \subseteq 1..n, D # {}
    PROVE  Max(D) \in D
<1>1. \A q \in D : q \in Nat
    OBVIOUS
<1>2. IsFiniteSet(1..n)
    <2>1. n \in Int /\ 1 \in Int
        OBVIOUS
    <2> QED
        BY <2>1, FS_Interval
<1>3. PICK S : S = 1..n
    OBVIOUS
<1>4. PICK B : B = {s \in SUBSET S : \E y \in D : s = {z \in D : z > y}}
    OBVIOUS
<1>5. B # {} /\ B \subseteq SUBSET S
    <2>1. PICK y \in D : TRUE
        OBVIOUS
    <2>2. {z \in D : z > y} \in B
        BY <1>3, <1>4, <2>1
    <2> QED
        BY <1>4, <2>2
<1>6. PICK s \in B : \A t \in B : t \subseteq s => t = s
    <2>1. IsFiniteSet(S)
        BY <1>2, <1>3
    <2> QED
        BY <1>5, <2>1, MinimalSubset
<1>7. PICK y \in D : s = {z \in D : z > y}
    BY <1>4
<1>8. ASSUME NEW z \in D, z > y PROVE FALSE
    <2>1. PICK t : t = {v \in D : v > z}
        OBVIOUS
    <2>2. t \in B
        <3>1. t \in SUBSET S
            BY <1>3, <2>1
        <3>2. \E v \in D : t = {u \in D : u > v}
            BY <1>8, <2>1
        <3> QED
            BY <1>4, <3>1, <3>2
    <2>3. t \subseteq s /\ z \in s /\ z \notin t
        <3>1. \A v \in D : v > z => v > y
            BY <1>1, <1>8
        <3>2. \A v : v \in t => v \in s
            BY <1>7, <2>1, <3>1
        <3>3. z \in s
            BY <1>7, <1>8
        <3>4. z \notin t
            <4>1. ~(z > z)
                BY <1>1
            <4> QED
                BY <2>1, <4>1
        <3> QED
            BY <3>2, <3>3, <3>4
    <2> QED
        BY <1>6, <2>2, <2>3
<1>9. \A z \in D : y >= z
    BY <1>1, <1>8
<1> QED
    BY <1>9 DEF Max

\* The claims verified and frozen by the first n records depend on these alone.
LEMMA SameVerified ==
    ASSUME NEW log, NEW log2, NEW n \in Nat, \A i \in 1..n : log2[i] = log[i]
    PROVE  VerifiedAt(log2, n) = VerifiedAt(log, n)
<1>1. PICK D : D = {q \in 1..n : log[q].kind = "SETTLEMENT_SUCCESS"}
    OBVIOUS
<1>2. D = {q \in 1..n : log2[q].kind = "SETTLEMENT_SUCCESS"}
    BY <1>1
<1>3. CASE D = {}
    BY <1>1, <1>2, <1>3 DEF VerifiedAt
<1>4. CASE D # {}
    <2>1. D \subseteq 1..n
        BY <1>1
    <2>2. Max(D) \in D
        BY <1>4, <2>1, MaxIn
    <2> QED
        BY <1>1, <1>2, <1>4, <2>2 DEF VerifiedAt
<1> QED
    BY <1>3, <1>4

\* The claims verified so far are those of the last success.
LEMMA VerifiedGrows ==
    ASSUME NEW log, NEW n \in Nat
    PROVE  VerifiedAt(log, n + 1)
              = IF log[n + 1].kind = "SETTLEMENT_SUCCESS" THEN log[n + 1].start
                ELSE VerifiedAt(log, n)
<1>1. PICK D, E : /\ D = {q \in 1..n : log[q].kind = "SETTLEMENT_SUCCESS"}
                  /\ E = {q \in 1..(n + 1) : log[q].kind = "SETTLEMENT_SUCCESS"}
    OBVIOUS
<1>2. CASE log[n + 1].kind # "SETTLEMENT_SUCCESS"
    <2>1. E = D
        BY <1>1, <1>2
    <2> QED
        BY <1>1, <1>2, <2>1 DEF VerifiedAt
<1>3. CASE log[n + 1].kind = "SETTLEMENT_SUCCESS"
    <2>1. n + 1 \in E /\ \A q \in E : q \in Nat /\ q <= n + 1
        BY <1>1, <1>3
    <2>2. Max(E) = n + 1
        BY <2>1 DEF Max
    <2>3. E # {}
        BY <2>1
    <2> QED
        BY <1>1, <1>3, <2>2, <2>3 DEF VerifiedAt
<1> QED
    BY <1>2, <1>3

\* What one more record does to the claims.
LEMMA LongerClaims ==
    ASSUME NEW log, NEW x, NEW log2, Longer(log, x, log2)
    PROVE  /\ \A k \in 0..Len(log) : /\ Frozen(log2, k) = Frozen(log, k)
                                     /\ VerifiedAt(log2, k) = VerifiedAt(log, k)
           /\ Frozen(log2, Len(log2))
                 = Frozen(log, Len(log)) + (IF x.kind = "CLAIMS_FROZEN" THEN x.count ELSE 0)
           /\ VerifiedAt(log2, Len(log2))
                 = IF x.kind = "SETTLEMENT_SUCCESS" THEN x.start ELSE VerifiedAt(log, Len(log))
           /\ Frozen(log, Len(log)) \in Nat
<1>1. PICK n \in Nat : n = Len(log) /\ Len(log2) = n + 1
    BY LongerSums
<1>2. log2[n + 1] = x /\ \A i \in 1..n : log2[i] = log[i]
    BY <1>1 DEF Longer
<1>3. ASSUME NEW k \in 0..n PROVE VerifiedAt(log2, k) = VerifiedAt(log, k)
    <2>1. k \in Nat /\ \A i \in 1..k : log2[i] = log[i]
        BY <1>2
    <2> QED
        BY <2>1, SameVerified
<1>4. VerifiedAt(log2, n + 1) = IF x.kind = "SETTLEMENT_SUCCESS" THEN x.start ELSE VerifiedAt(log, n)
    <2>1. n \in 0..n
        BY <1>1
    <2>2. VerifiedAt(log2, n) = VerifiedAt(log, n)
        BY <1>3, <2>1
    <2> QED
        BY <1>2, <2>2, VerifiedGrows
<1>5. PICK R : R = KindRecs({"CLAIMS_FROZEN"})
    OBVIOUS
<1>6. x \in R <=> x.kind = "CLAIMS_FROZEN"
    BY <1>5 DEF Longer, KindRecs
<1>7. /\ \A k \in 0..n : SumIn(log2, k, R) = SumIn(log, k, R)
      /\ SumIn(log, n, R) \in Nat
      /\ x \in R => SumIn(log2, n + 1, R) = SumIn(log, n, R) + x.count
      /\ x \notin R => SumIn(log2, n + 1, R) = SumIn(log, n, R)
    BY <1>1, LongerSums
<1> QED
    BY <1>1, <1>3, <1>4, <1>5, <1>6, <1>7 DEF Frozen

\* The first n records of two journals are the same.
Common(log, log2, n) ==
    /\ log \in Seq(Record) /\ log2 \in Seq(Record) /\ n \in Nat
    /\ n <= Len(log) /\ n <= Len(log2) /\ \A i \in 1..n : log2[i] = log[i]

\* A longer journal has all the records of the shorter one in common with it.
LEMMA LongerCommon ==
    ASSUME NEW log, NEW x, NEW log2, Longer(log, x, log2)
    PROVE  Common(log, log2, Len(log))
BY LenProperties DEF Longer, Common

\* What two journals say of their common records.
LEMMA CommonSums ==
    ASSUME NEW log, NEW log2, NEW n, Common(log, log2, n)
    PROVE  \A k \in 0..n : /\ \A R : /\ SumIn(log2, k, R) = SumIn(log, k, R)
                                      /\ NumIn(log2, k, R) = NumIn(log, k, R)
                           /\ Frozen(log2, k) = Frozen(log, k)
                           /\ VerifiedAt(log2, k) = VerifiedAt(log, k)
<1>1. /\ log \in Seq(Record) /\ log2 \in Seq(Record) /\ n \in 0..Len(log) /\ n \in Nat
      /\ n <= Len(log2) /\ \A i \in 1..n : log2[i] = log[i]
    BY LenProperties DEF Common
<1>2. SUFFICES ASSUME NEW k \in 0..n
               PROVE  /\ \A R : /\ SumIn(log2, k, R) = SumIn(log, k, R)
                                /\ NumIn(log2, k, R) = NumIn(log, k, R)
                      /\ Frozen(log2, k) = Frozen(log, k)
                      /\ VerifiedAt(log2, k) = VerifiedAt(log, k)
    OBVIOUS
<1>3. \A R : /\ SumIn(log2, k, R) = SumIn(log, k, R)
             /\ NumIn(log2, k, R) = NumIn(log, k, R)
    BY <1>1, SameSums
<1>4. VerifiedAt(log2, k) = VerifiedAt(log, k)
    <2>1. k \in Nat /\ \A i \in 1..k : log2[i] = log[i]
        BY <1>1
    <2> QED
        BY <2>1, SameVerified
<1> QED
    BY <1>3, <1>4 DEF Frozen

\* What seals and records of freshness say depends on the common records alone.
LEMMA SealedSame ==
    ASSUME NEW log, NEW log2, NEW n, Common(log, log2, n), NEW q \in 1..n
    PROVE  \A e, a, b : /\ SealedAt(log, q, e, a, b) <=> SealedAt(log2, q, e, a, b)
                        /\ FreshAt(log, q, e, a) <=> FreshAt(log2, q, e, a)
<1>1. n \in Nat /\ q - 1 \in 0..n /\ log2[q] = log[q]
    BY DEF Common
<1>2. Frozen(log2, q - 1) = Frozen(log, q - 1)
    BY <1>1, CommonSums
<1> QED
    BY <1>1, <1>2 DEF SealedAt, FreshAt

\* So does whether a settlement may succeed.
LEMMA SucceededSame ==
    ASSUME NEW log, NEW log2, NEW n, Common(log, log2, n), NEW k \in 0..n, NEW y,
           Succeeded(log, k, y)
    PROVE  Succeeded(log2, k, y)
<1>1. n \in Nat /\ \A i \in 1..n : log2[i] = log[i]
    BY DEF Common
<1>2. y.count = SumIn(log2, k, KeyRecs({"SETTLEMENT_ALLOCATE"}, y.key))
    BY CommonSums DEF Succeeded
<1>3. PICK q \in 1..k, f \in 1..k :
          /\ q < f
          /\ SealedAt(log, q, y.key, VerifiedAt(log, k), log[q].count)
          /\ FreshAt(log, f, y.key, log[f].count)
          /\ y.count = 2 * log[f].count
          /\ y.start = log[q].start + log[q].count
    BY DEF Succeeded
<1>4. q \in 1..n /\ f \in 1..n
    BY <1>1
<1>5. log2[q] = log[q] /\ log2[f] = log[f] /\ VerifiedAt(log2, k) = VerifiedAt(log, k)
    BY <1>1, <1>4, CommonSums
<1>6. PICK v, a, b : v = VerifiedAt(log, k) /\ a = log[q].count /\ b = log[f].count
    OBVIOUS
<1>7. SealedAt(log2, q, y.key, v, a) /\ FreshAt(log2, f, y.key, b)
    BY <1>3, <1>4, <1>6, SealedSame
<1> QED
    BY <1>2, <1>3, <1>5, <1>6, <1>7 DEF Succeeded

\* What a longer journal says of its first records.
LEMMA SealedKept ==
    ASSUME NEW log, NEW x, NEW log2, Longer(log, x, log2), NEW q \in 1..Len(log)
    PROVE  \A e, a, b : /\ SealedAt(log, q, e, a, b) <=> SealedAt(log2, q, e, a, b)
                        /\ FreshAt(log, q, e, a) <=> FreshAt(log2, q, e, a)
BY LongerCommon, SealedSame

\* One more record takes back no settlement that has succeeded.
LEMMA SucceededKept ==
    ASSUME NEW log, NEW x, NEW log2, Longer(log, x, log2), NEW n \in 0..Len(log), NEW y,
           Succeeded(log, n, y)
    PROVE  Succeeded(log2, n, y)
BY LongerCommon, SucceededSame

\* One more record keeps the settlements legal: an epoch is sealed once, and
\* accounted to no more once it has succeeded.
LEMMA SettlementsGrow ==
    ASSUME NEW log, NEW x, NEW log2, Longer(log, x, log2), SettlementsLegal(log),
           x.kind = "SETTLEMENT_SEAL" =>
              \A i \in 1..Len(log) : log[i].kind = "SETTLEMENT_SEAL" => log[i].key # x.key,
           x.kind \in {"SETTLEMENT_ALLOCATE", "SETTLEMENT_SEAL"} =>
              \A i \in 1..Len(log) : log[i].kind = "SETTLEMENT_SUCCESS" => log[i].key # x.key,
           x.kind = "SETTLEMENT_SUCCESS" => Succeeded(log, Len(log), x)
    PROVE  SettlementsLegal(log2)
<1>1. PICK n \in Nat : n = Len(log) /\ Len(log2) = n + 1
    BY LongerSums
<1>2. log2[n + 1] = x /\ \A i \in 1..n : log2[i] = log[i]
    BY <1>1 DEF Longer
<1>3. ASSUME NEW i \in 1..(n + 1), log2[i].kind = "SETTLEMENT_SEAL",
             NEW m \in 1..(i - 1), log2[m].kind = "SETTLEMENT_SEAL"
      PROVE  log2[m].key # log2[i].key
    <2>1. m \in 1..n /\ log2[m] = log[m]
        BY <1>2, <1>3
    <2>2. CASE i = n + 1
        BY <1>1, <1>2, <1>3, <2>1, <2>2
    <2>3. CASE i # n + 1
        <3>1. i \in 1..n /\ log2[i] = log[i]
            BY <1>2, <2>3
        <3> QED
            BY <1>1, <1>3, <2>1, <3>1 DEF SettlementsLegal
    <2> QED
        BY <2>2, <2>3
<1>4. ASSUME NEW i \in 1..(n + 1), log2[i].kind = "SETTLEMENT_SUCCESS"
      PROVE  Succeeded(log2, i - 1, log2[i])
    <2>1. CASE i = n + 1
        <3>1. i - 1 = n /\ n \in 0..Len(log)
            BY <1>1, <2>1
        <3>2. Succeeded(log, n, x)
            BY <1>1, <1>2, <1>4, <2>1
        <3> QED
            BY <1>2, <2>1, <3>1, <3>2, SucceededKept
    <2>2. CASE i # n + 1
        <3>1. i \in 1..n /\ log2[i] = log[i] /\ i - 1 \in 0..Len(log)
            BY <1>1, <1>2, <2>2
        <3>2. Succeeded(log, i - 1, log[i])
            BY <1>1, <1>4, <3>1 DEF SettlementsLegal
        <3>3. PICK k, y : k = i - 1 /\ y = log[i]
            OBVIOUS
        <3>4. Succeeded(log2, k, y)
            BY <3>1, <3>2, <3>3, SucceededKept
        <3> QED
            BY <3>1, <3>3, <3>4
    <2> QED
        BY <2>1, <2>2
<1>5. ASSUME NEW i \in 1..(n + 1), log2[i].kind = "SETTLEMENT_SUCCESS", NEW m \in (i + 1)..(n + 1),
             log2[m].kind \in {"SETTLEMENT_ALLOCATE", "SETTLEMENT_SEAL"}
      PROVE  log2[m].key # log2[i].key
    <2>1. i \in 1..n /\ log2[i] = log[i]
        BY <1>2, <1>5
    <2>2. CASE m = n + 1
        BY <1>1, <1>2, <1>5, <2>1, <2>2
    <2>3. CASE m # n + 1
        <3>1. m \in (i + 1)..n /\ m \in 1..n /\ log2[m] = log[m]
            BY <1>2, <2>1, <2>3
        <3> QED
            BY <1>1, <1>5, <2>1, <3>1 DEF SettlementsLegal
    <2> QED
        BY <2>2, <2>3
<1> QED
    BY <1>1, <1>3, <1>4, <1>5 DEF SettlementsLegal

\* h says of its settlement what g says of it and x adds, and x neither seals
\* nor ends a settlement.
SettlementFollows(g, x, h) ==
    /\ x.kind \notin {"SETTLEMENT_SEAL", "SETTLEMENT_SUCCESS"}
    /\ x.kind = "SETTLEMENT_ALLOCATE" => /\ g.seal.count # 0 /\ g.fresh.epoch # 0
                                         /\ x.key = g.seal.epoch
    /\ h.epoch = g.epoch /\ h.verified = g.verified /\ h.seal = g.seal /\ h.fresh = g.fresh
    /\ h.frozen = g.frozen + (IF x.kind = "CLAIMS_FROZEN" THEN x.count ELSE 0)
    /\ h.paid = g.paid + (IF x.kind = "SETTLEMENT_ALLOCATE" THEN x.count ELSE 0)

\* What a live handle allocates to is not over.
LEMMA SealOpen ==
    ASSUME NEW log, NEW g, SettlementAgrees(g, log), g.seal.count # 0
    PROVE  \A i \in 1..Len(log) : log[i].kind = "SETTLEMENT_SUCCESS" => log[i].key # g.seal.epoch
BY DEF SettlementAgrees, SealAgrees

\* The sealed settlement of a handle that goes on.
LEMMA SealFollows ==
    ASSUME NEW log, NEW x, NEW log2, Longer(log, x, log2), NEW g \in HandleType, NEW h,
           SealAgrees(g, log), SettlementFollows(g, x, h), g.seal.count # 0
    PROVE  SealAgrees(h, log2)
<1>1. PICK n \in Nat : n = Len(log) /\ Len(log2) = n + 1
    BY LongerSums
<1>2. log2[n + 1] = x /\ \A i \in 1..n : log2[i] = log[i]
    BY <1>1 DEF Longer
<1>3. \A i \in 1..(n + 1) : i = n + 1 \/ i \in 1..n
    BY <1>1
<1>4. h.seal = g.seal /\ h.fresh = g.fresh /\ h.verified = g.verified /\ h.epoch = g.epoch
    BY DEF SettlementFollows
<1>5. PICK e, a, b, y : e = g.seal.epoch /\ a = g.seal.first /\ b = g.seal.count /\ y = g.fresh.expected
    OBVIOUS
<1>6. \A i \in 1..(n + 1) : log2[i].kind = "SETTLEMENT_SUCCESS" => log2[i].key # e
    BY <1>1, <1>2, <1>3, <1>5 DEF SealAgrees, SettlementFollows
<1>7. \E q \in 1..(n + 1) :
         /\ SealedAt(log2, q, e, a, b)
         /\ g.fresh.epoch # 0 => \E f \in (q + 1)..(n + 1) : FreshAt(log2, f, e, y)
    <2>1. PICK q \in 1..n :
             /\ SealedAt(log, q, e, a, b)
             /\ g.fresh.epoch # 0 => \E f \in (q + 1)..n : FreshAt(log, f, e, y)
        BY <1>1, <1>5 DEF SealAgrees
    <2>2. SealedAt(log2, q, e, a, b)
        BY <1>1, <2>1, SealedKept
    <2>3. ASSUME g.fresh.epoch # 0 PROVE \E f \in (q + 1)..(n + 1) : FreshAt(log2, f, e, y)
        <3>1. PICK f \in (q + 1)..n : FreshAt(log, f, e, y)
            BY <2>1, <2>3
        <3>2. f \in 1..n /\ f \in (q + 1)..(n + 1)
            OBVIOUS
        <3>3. FreshAt(log2, f, e, y)
            BY <1>1, <3>1, <3>2, SealedKept
        <3> QED
            BY <3>2, <3>3
    <2>4. q \in 1..(n + 1)
        OBVIOUS
    <2> QED
        BY <2>2, <2>3, <2>4
<1>8. CASE g.fresh.epoch # 0
    <2>1. PICK R : R = KeyRecs({"SETTLEMENT_ALLOCATE"}, e)
        OBVIOUS
    <2>2. g.fresh.epoch = e /\ g.paid = SumIn(log, n, R)
        BY <1>1, <1>5, <1>8, <2>1 DEF SealAgrees
    <2>3. x \in R <=> x.kind = "SETTLEMENT_ALLOCATE" /\ x.key = e
        BY <2>1, Members DEF Longer
    <2>4. /\ SumIn(log, n, R) \in Nat
          /\ x \in R => SumIn(log2, n + 1, R) = SumIn(log, n, R) + x.count
          /\ x \notin R => SumIn(log2, n + 1, R) = SumIn(log, n, R)
        BY <1>1, LongerSums
    <2>5. h.paid = SumIn(log2, n + 1, R)
        BY <1>5, <2>2, <2>3, <2>4 DEF SettlementFollows
    <2> QED
        BY <1>1, <1>4, <1>5, <1>6, <1>7, <1>8, <2>1, <2>2, <2>5 DEF SealAgrees
<1>9. CASE g.fresh.epoch = 0
    <2>1. \A i \in 1..(n + 1) : log2[i].kind = "SETTLEMENT_ALLOCATE" => log2[i].key # e
        BY <1>1, <1>2, <1>3, <1>5, <1>9 DEF SealAgrees, SettlementFollows
    <2> QED
        BY <1>1, <1>4, <1>5, <1>6, <1>7, <1>9, <2>1 DEF SealAgrees
<1> QED
    BY <1>8, <1>9

\* The epochs of a longer journal.
LEMMA EpochsGrow ==
    ASSUME NEW log, NEW x, NEW log2, Longer(log, x, log2), NEW e \in Nat, NEW k \in Nat, e <= k,
           EpochsBelow(log, e), x.kind \in SettlementKinds => x.key \in Nat /\ x.key < k
    PROVE  EpochsBelow(log2, k)
<1>1. PICK n \in Nat : n = Len(log) /\ Len(log2) = n + 1
    BY LongerSums
<1>2. log2[n + 1] = x /\ \A i \in 1..n : log2[i] = log[i]
    BY <1>1 DEF Longer
<1>3. \A i \in 1..(n + 1) : i = n + 1 \/ i \in 1..n
    BY <1>1
<1> QED
    BY <1>1, <1>2, <1>3 DEF EpochsBelow

\* A handle that follows the record it appends agrees with the journal.
LEMMA SettlementGrows ==
    ASSUME NEW log, NEW x, NEW log2, Longer(log, x, log2), NEW g \in HandleType, NEW h,
           SettlementAgrees(g, log), SettlementFollows(g, x, h)
    PROVE  SettlementAgrees(h, log2)
<1>1. /\ h.epoch = g.epoch /\ h.verified = g.verified /\ h.seal = g.seal /\ h.fresh = g.fresh
      /\ g.epoch \in Nat
    BY DEF SettlementFollows, HandleType
<1>2. /\ Frozen(log2, Len(log2))
            = Frozen(log, Len(log)) + (IF x.kind = "CLAIMS_FROZEN" THEN x.count ELSE 0)
      /\ VerifiedAt(log2, Len(log2))
            = IF x.kind = "SETTLEMENT_SUCCESS" THEN x.start ELSE VerifiedAt(log, Len(log))
    BY LongerClaims
<1>3. /\ h.epoch >= 1 /\ h.frozen = Frozen(log2, Len(log2))
      /\ h.verified = VerifiedAt(log2, Len(log2))
    BY <1>1, <1>2 DEF SettlementAgrees, SettlementFollows
<1>4. EpochsBelow(log2, h.epoch)
    <2>1. EpochsBelow(log, g.epoch)
        BY DEF SettlementAgrees, EpochsBelow
    <2>2. ASSUME x.kind \in SettlementKinds PROVE x.key \in Nat /\ x.key < g.epoch
        <3>1. x.key = g.seal.epoch /\ g.seal.count # 0
            BY <2>2 DEF SettlementFollows, SettlementKinds
        <3>2. g.seal.epoch \in 1..(g.epoch - 1)
            BY <3>1 DEF SettlementAgrees, SealAgrees
        <3> QED
            BY <1>1, <3>1, <3>2
    <2>3. PICK e \in Nat : e = g.epoch
        BY <1>1
    <2>4. EpochsBelow(log2, e)
        BY <2>1, <2>2, <2>3, EpochsGrow
    <2> QED
        BY <1>1, <2>3, <2>4
<1>5. IF h.seal.count = 0 THEN h.fresh.epoch = 0 ELSE SealAgrees(h, log2)
    <2>1. CASE g.seal.count = 0
        BY <1>1, <2>1 DEF SettlementAgrees
    <2>2. CASE g.seal.count # 0
        <3>1. SealAgrees(g, log)
            BY <2>2 DEF SettlementAgrees
        <3>2. SealAgrees(h, log2)
            BY <2>2, <3>1, SealFollows
        <3> QED
            BY <1>1, <2>2, <3>2
    <2> QED
        BY <2>1, <2>2
<1> QED
    BY <1>3, <1>4, <1>5 DEF SettlementAgrees, EpochsBelow

\* A record that is not about settlements.
LEMMA SettlementsIdle ==
    ASSUME NEW log, NEW x, NEW log2, Longer(log, x, log2), x.kind \notin SettlementKinds,
           SettlementsLegal(log)
    PROVE  SettlementsLegal(log2)
BY SettlementsGrow DEF SettlementKinds

\* An allocation to a seal that is open keeps the settlements legal.
LEMMA SettlementsFollow ==
    ASSUME NEW log, NEW x, NEW log2, Longer(log, x, log2), SettlementsLegal(log),
           NEW g, NEW h, SettlementAgrees(g, log), SettlementFollows(g, x, h)
    PROVE  SettlementsLegal(log2)
<1>1. CASE x.kind \notin SettlementKinds
    BY <1>1, SettlementsIdle
<1>2. CASE x.kind \in SettlementKinds
    <2>1. x.kind = "SETTLEMENT_ALLOCATE" /\ x.key = g.seal.epoch /\ g.seal.count # 0
        BY <1>2 DEF SettlementFollows, SettlementKinds
    <2>2. \A i \in 1..Len(log) : log[i].kind = "SETTLEMENT_SUCCESS" => log[i].key # x.key
        BY <2>1, SealOpen
    <2> QED
        BY <2>1, <2>2, SettlementsGrow
<1> QED
    BY <1>1, <1>2

\* seal_x4d_settlement
Seals(g, x, h) ==
    /\ x.kind = "SETTLEMENT_SEAL" /\ x.key = g.epoch /\ x.start = g.verified
    /\ x.count # 0 /\ g.seal.count = 0 /\ g.verified + x.count <= g.frozen
    /\ h.epoch = g.epoch + 1 /\ h.verified = g.verified /\ h.frozen = g.frozen
    /\ h.fresh = g.fresh /\ h.seal = [epoch |-> g.epoch, first |-> g.verified, count |-> x.count]

\* A new seal covers the next claims of its epoch, and nothing was accounted
\* to that epoch before.
LEMMA SettlementSealed ==
    ASSUME NEW log, NEW x, NEW log2, Longer(log, x, log2), SettlementsLegal(log),
           NEW g \in HandleType, NEW h, SettlementAgrees(g, log), Seals(g, x, h)
    PROVE  SettlementsLegal(log2) /\ SettlementAgrees(h, log2)
<1>1. PICK n \in Nat : n = Len(log) /\ Len(log2) = n + 1
    BY LongerSums
<1>2. log2[n + 1] = x /\ \A i \in 1..n : log2[i] = log[i]
    BY <1>1 DEF Longer
<1>3. PICK e \in Nat : e = g.epoch
    BY DEF HandleType
<1>4. \A i \in 1..n : log[i].kind \in SettlementKinds => log[i].key \in Nat /\ log[i].key < e
    BY <1>1, <1>3 DEF SettlementAgrees, EpochsBelow
<1>5. \A i \in 1..n : log[i].kind \in SettlementKinds => log[i].key # e
    BY <1>3, <1>4
<1>6. SettlementsLegal(log2)
    BY <1>1, <1>3, <1>5, SettlementsGrow DEF Seals, SettlementKinds
<1>7. /\ Frozen(log2, n) = Frozen(log, n) /\ Frozen(log2, n + 1) = Frozen(log, n)
      /\ VerifiedAt(log2, n + 1) = VerifiedAt(log, n) /\ Frozen(log, n) \in Nat
    BY <1>1, LongerClaims DEF Seals
<1>8. h.epoch = e + 1 /\ h.frozen = Frozen(log2, n + 1) /\ h.verified = VerifiedAt(log2, n + 1)
    BY <1>1, <1>3, <1>7 DEF Seals, SettlementAgrees
<1>9. EpochsBelow(log2, e + 1)
    <2>1. EpochsBelow(log, e) /\ e + 1 \in Nat /\ e <= e + 1
        BY <1>3 DEF SettlementAgrees
    <2>2. x.key \in Nat /\ x.key < e + 1
        BY <1>3 DEF Seals
    <2> QED
        BY <1>3, <2>1, <2>2, EpochsGrow
<1>10. PICK s : s = h.seal
    OBVIOUS
<1>11. s.epoch = e /\ s.first = g.verified /\ s.count = x.count /\ s.count # 0
    BY <1>3, <1>10 DEF Seals
<1>12. SealAgrees(h, log2)
    <2>1. s.epoch \in 1..(h.epoch - 1)
        BY <1>3, <1>8, <1>11 DEF SettlementAgrees
    <2>2. \A i \in 1..(n + 1) : i = n + 1 \/ i \in 1..n
        BY <1>1
    <2>3. \A i \in 1..(n + 1) : /\ log2[i].kind = "SETTLEMENT_SUCCESS" => log2[i].key # s.epoch
                                /\ log2[i].kind = "SETTLEMENT_ALLOCATE" => log2[i].key # s.epoch
        BY <1>2, <1>5, <1>11, <2>2 DEF Seals, SettlementKinds
    <2>4. g.fresh.epoch = 0 /\ h.fresh.epoch = 0
        BY DEF Seals, SettlementAgrees
    <2>5. SealedAt(log2, n + 1, s.epoch, s.first, s.count)
        <3>1. g.verified + x.count <= Frozen(log2, n)
            BY <1>1, <1>7 DEF Seals, SettlementAgrees
        <3>2. (n + 1) - 1 = n
            BY <1>1
        <3>3. log2[n + 1].key = s.epoch /\ log2[n + 1].start = s.first /\ log2[n + 1].count = s.count
            BY <1>2, <1>3, <1>11 DEF Seals
        <3> QED
            BY <1>2, <1>11, <3>1, <3>2, <3>3 DEF SealedAt, Seals
    <2>6. n + 1 \in 1..(n + 1) /\ s.first = h.verified
        BY <1>1, <1>11 DEF Seals
    <2> QED
        BY <1>1, <1>10, <2>1, <2>3, <2>4, <2>5, <2>6 DEF SealAgrees
<1>13. h.epoch >= 1 /\ h.seal.count # 0
    BY <1>3, <1>8, <1>10, <1>11
<1> QED
    BY <1>1, <1>6, <1>8, <1>9, <1>12, <1>13 DEF SettlementAgrees

\* record_x4d_settlement_freshness
Freshens(g, x, h) ==
    /\ x.kind = "SETTLEMENT_FRESHNESS" /\ x.key = g.seal.epoch
    /\ g.seal.count # 0 /\ g.fresh.epoch = 0
    /\ h.fresh.epoch = g.seal.epoch /\ h.fresh.expected = x.count /\ h.paid = 0
    /\ h.epoch = g.epoch /\ h.verified = g.verified /\ h.seal = g.seal /\ h.frozen = g.frozen

\* A record of freshness fixes what the sealed settlement is to pay.
LEMMA SettlementFreshened ==
    ASSUME NEW log, NEW x, NEW log2, Longer(log, x, log2), SettlementsLegal(log),
           NEW g \in HandleType, NEW h, SettlementAgrees(g, log), Freshens(g, x, h)
    PROVE  SettlementsLegal(log2) /\ SettlementAgrees(h, log2)
<1>1. PICK n \in Nat : n = Len(log) /\ Len(log2) = n + 1
    BY LongerSums
<1>2. log2[n + 1] = x /\ \A i \in 1..n : log2[i] = log[i]
    BY <1>1 DEF Longer
<1>3. x.kind \notin SettlementKinds /\ x.kind # "CLAIMS_FROZEN"
    BY DEF Freshens, SettlementKinds
<1>4. SettlementsLegal(log2)
    BY <1>3, SettlementsIdle
<1>5. Frozen(log2, n + 1) = Frozen(log, n) /\ VerifiedAt(log2, n + 1) = VerifiedAt(log, n)
    <2>1. Frozen(log, n) \in Nat
        BY <1>1, LongerClaims
    <2> QED
        BY <1>1, <1>3, <2>1, LongerClaims DEF SettlementKinds
<1>6. h.epoch >= 1 /\ h.frozen = Frozen(log2, n + 1) /\ h.verified = VerifiedAt(log2, n + 1)
    BY <1>1, <1>5 DEF Freshens, SettlementAgrees
<1>7. EpochsBelow(log2, h.epoch)
    <2>1. PICK e \in Nat : e = g.epoch
        BY DEF HandleType
    <2>2. EpochsBelow(log, e) /\ e <= e
        BY <2>1 DEF SettlementAgrees
    <2>3. EpochsBelow(log2, e)
        BY <1>3, <2>1, <2>2, EpochsGrow
    <2> QED
        BY <2>1, <2>3 DEF Freshens
<1>8. SealAgrees(g, log)
    BY DEF SettlementAgrees, Freshens
<1>9. PICK e, a, b, y : e = g.seal.epoch /\ a = g.seal.first /\ b = g.seal.count /\ y = h.fresh.expected
    OBVIOUS
<1>10. SealAgrees(h, log2)
    <2>1. e \in 1..(h.epoch - 1) /\ a = h.verified /\ h.seal = g.seal /\ h.fresh.epoch = e
        BY <1>8, <1>9 DEF SealAgrees, Freshens
    <2>2. \A i \in 1..(n + 1) : i = n + 1 \/ i \in 1..n
        BY <1>1
    <2>3. \A i \in 1..(n + 1) : log2[i].kind = "SETTLEMENT_SUCCESS" => log2[i].key # e
        BY <1>1, <1>2, <1>3, <1>8, <1>9, <2>2 DEF SealAgrees, SettlementKinds
    <2>4. PICK q \in 1..n : SealedAt(log, q, e, a, b)
        BY <1>1, <1>8, <1>9 DEF SealAgrees
    <2>5. SealedAt(log2, q, e, a, b)
        BY <1>1, <2>4, SealedKept
    <2>6. q \in 1..(n + 1) /\ n + 1 \in (q + 1)..(n + 1)
        BY <1>1
    <2>7. FreshAt(log2, n + 1, e, y)
        BY <1>2, <1>9 DEF FreshAt, Freshens
    <2>8. h.paid = SumIn(log2, n + 1, KeyRecs({"SETTLEMENT_ALLOCATE"}, e))
        <3>1. \A i \in 1..n : log[i].kind = "SETTLEMENT_ALLOCATE" => log[i].key # e
            BY <1>1, <1>8, <1>9 DEF SealAgrees, Freshens
        <3>2. log2 \in Seq(Record) /\ n + 1 \in 0..Len(log2)
            BY <1>1 DEF Longer
        <3>3. \A i \in 1..(n + 1) : log2[i] \in Record
            BY <1>1, <3>2, ElementOfSeq
        <3>4. \A i \in 1..(n + 1) : ~(log2[i].kind = "SETTLEMENT_ALLOCATE" /\ log2[i].key = e)
            BY <1>2, <1>3, <2>2, <3>1 DEF SettlementKinds
        <3>5. \A i \in 1..(n + 1) : log2[i] \notin KeyRecs({"SETTLEMENT_ALLOCATE"}, e)
            BY <3>3, <3>4, Members
        <3>6. SumIn(log2, n + 1, KeyRecs({"SETTLEMENT_ALLOCATE"}, e)) = 0
            BY <3>2, <3>5, NothingIn
        <3> QED
            BY <3>6 DEF Freshens
    <2>9. e # 0
        BY <2>1
    <2> QED
        BY <1>1, <1>9, <2>1, <2>3, <2>5, <2>6, <2>7, <2>8, <2>9 DEF SealAgrees
<1>11. h.seal.count # 0
    BY DEF Freshens
<1> QED
    BY <1>1, <1>4, <1>6, <1>7, <1>10, <1>11 DEF SettlementAgrees

\* finish_x4d_settlement_success
Succeeds(g, x, h) ==
    /\ x.kind = "SETTLEMENT_SUCCESS" /\ x.key = g.seal.epoch
    /\ x.start = g.seal.first + g.seal.count /\ x.count = g.paid
    /\ g.seal.count # 0 /\ g.fresh.epoch = g.seal.epoch /\ g.paid = 2 * g.fresh.expected
    /\ h.verified = x.start /\ h.seal.count = 0 /\ h.fresh.epoch = 0
    /\ h.epoch = g.epoch /\ h.frozen = g.frozen

\* A success verifies the claims of its seal, at the price its freshness fixed.
LEMMA SettlementSucceeded ==
    ASSUME NEW log, NEW x, NEW log2, Longer(log, x, log2), SettlementsLegal(log),
           NEW g \in HandleType, NEW h, SettlementAgrees(g, log), Succeeds(g, x, h)
    PROVE  SettlementsLegal(log2) /\ SettlementAgrees(h, log2)
<1>1. PICK n \in Nat : n = Len(log) /\ Len(log2) = n + 1
    BY LongerSums
<1>2. log2[n + 1] = x /\ \A i \in 1..n : log2[i] = log[i]
    BY <1>1 DEF Longer
<1>3. SealAgrees(g, log)
    BY DEF SettlementAgrees, Succeeds
<1>4. PICK e, a, b, y : e = g.seal.epoch /\ a = g.seal.first /\ b = g.seal.count /\ y = g.fresh.expected
    OBVIOUS
<1>5. e \in 1..(g.epoch - 1) /\ e # 0 /\ g.fresh.epoch # 0
    BY <1>3, <1>4 DEF SealAgrees, Succeeds
<1>6. Succeeded(log, n, x)
    <2>1. x.count = SumIn(log, n, KeyRecs({"SETTLEMENT_ALLOCATE"}, x.key))
        BY <1>1, <1>3, <1>4, <1>5 DEF SealAgrees, Succeeds
    <2>2. PICK q \in 1..n : /\ SealedAt(log, q, e, a, b)
                            /\ \E f \in (q + 1)..n : FreshAt(log, f, e, y)
        BY <1>1, <1>3, <1>4, <1>5 DEF SealAgrees
    <2>3. PICK f \in (q + 1)..n : FreshAt(log, f, e, y)
        BY <2>2
    <2>4. f \in 1..n /\ q < f
        OBVIOUS
    <2>5. a = VerifiedAt(log, n)
        BY <1>1, <1>3, <1>4 DEF SealAgrees, SettlementAgrees
    <2>6. log[q].start = a /\ log[q].count = b /\ log[f].count = y
        BY <2>2, <2>3 DEF SealedAt, FreshAt
    <2>7. x.key = e /\ x.count = 2 * y /\ x.start = a + b
        BY <1>4 DEF Succeeds
    <2> QED
        BY <2>1, <2>2, <2>3, <2>4, <2>5, <2>6, <2>7 DEF Succeeded
<1>7. SettlementsLegal(log2)
    BY <1>1, <1>6, SettlementsGrow DEF Succeeds
<1>8. Frozen(log2, n + 1) = Frozen(log, n) /\ VerifiedAt(log2, n + 1) = x.start
    <2>1. Frozen(log, n) \in Nat
        BY <1>1, LongerClaims
    <2> QED
        BY <1>1, <2>1, LongerClaims DEF Succeeds
<1>9. h.epoch >= 1 /\ h.frozen = Frozen(log2, n + 1) /\ h.verified = VerifiedAt(log2, n + 1)
    BY <1>1, <1>8 DEF Succeeds, SettlementAgrees
<1>10. EpochsBelow(log2, h.epoch)
    <2>1. PICK k \in Nat : k = g.epoch
        BY DEF HandleType
    <2>2. EpochsBelow(log, k) /\ k <= k
        BY <2>1 DEF SettlementAgrees
    <2>3. x.key \in Nat /\ x.key < k
        BY <1>4, <1>5, <2>1 DEF Succeeds
    <2>4. EpochsBelow(log2, k)
        BY <2>1, <2>2, <2>3, EpochsGrow
    <2> QED
        BY <2>1, <2>4 DEF Succeeds
<1> QED
    BY <1>1, <1>7, <1>9, <1>10 DEF SettlementAgrees, Succeeds

-----------------------------------------------------------------------------
(* Whole journals *)

\* Records no account is kept of.
IdleKinds == {"OPEN", "ACTIVE", "RESPONSE_BEGIN", "SETTLEMENT_FAILURE", "TERMINAL"}

SameSettlement(g, h) ==
    /\ h.frozen = g.frozen /\ h.verified = g.verified /\ h.epoch = g.epoch
    /\ h.seal = g.seal /\ h.fresh = g.fresh /\ h.paid = g.paid

SameLedger(g, h) == SameStages(g, h) /\ SameResponse(g, h) /\ SameSettlement(g, h)

\* A record of no settlement leaves a handle with the same one in agreement.
LEMMA SettlementIdle ==
    ASSUME NEW log, NEW x, NEW log2, Longer(log, x, log2),
           x.kind \notin SettlementKinds \cup {"CLAIMS_FROZEN"},
           NEW g \in HandleType, NEW h, SettlementAgrees(g, log), SameSettlement(g, h)
    PROVE  SettlementAgrees(h, log2)
<1>1. g.frozen \in Nat /\ g.paid \in Nat
    BY DEF HandleType
<1>2. SettlementFollows(g, x, h)
    BY <1>1 DEF SettlementFollows, SameSettlement, SettlementKinds
<1> QED
    BY <1>2, SettlementGrows

\* An idle record changes no account.
LEMMA IdleOK ==
    ASSUME NEW log, NEW x, NEW log2, Longer(log, x, log2), x.kind \in IdleKinds, NEW m, LogOK(m, log)
    PROVE  LogOK(m, log2)
<1>1. x.kind \notin StageKinds /\ x.kind \notin ResponseKinds /\ x.kind \notin SettlementKinds
    BY DEF IdleKinds, StageKinds, ResponseKinds, SettlementKinds, Ends
<1>2. RefillsLegal(log2)
    BY <1>1, RefillsIdle DEF LogOK
<1>3. ResponsesLegal(log2)
    BY <1>1, ResponsesGrow DEF LogOK, ResponseKinds
<1>4. ResponseKeys(m, log2)
    BY <1>1, KeysGrow DEF LogOK
<1>5. SettlementsLegal(log2)
    BY <1>1, SettlementsIdle DEF LogOK
<1> QED
    BY <1>2, <1>3, <1>4, <1>5 DEF LogOK

\* An idle record leaves a handle with the same ledger in agreement.
LEMMA IdleAgrees ==
    ASSUME NEW log, NEW x, NEW log2, Longer(log, x, log2), x.kind \in IdleKinds,
           NEW g \in HandleType, NEW h, Agrees(g, log), SameLedger(g, h)
    PROVE  Agrees(h, log2)
<1>1. /\ x.kind \notin StageKinds /\ x.kind \notin ResponseKinds
      /\ x.kind \notin SettlementKinds \cup {"CLAIMS_FROZEN"}
    BY DEF IdleKinds, StageKinds, ResponseKinds, SettlementKinds, Ends
<1>2. StagesAgree(h, log2)
    BY <1>1, StagesIdle DEF Agrees, SameLedger
<1>3. ResponseAgrees(h, log2)
    BY <1>1, ResponseIdle DEF Agrees, SameLedger
<1>4. SettlementAgrees(h, log2)
    BY <1>1, SettlementIdle DEF Agrees, SameLedger
<1> QED
    BY <1>2, <1>3, <1>4 DEF Agrees

\* A handle with the same ledger agrees with the same journal.
LEMMA SameAgrees ==
    ASSUME NEW log, NEW g, NEW h, Agrees(g, log), SameLedger(g, h)
    PROVE  Agrees(h, log)
BY DEF Agrees, SameLedger, SameStages, SameResponse, SameSettlement, StagesAgree,
       ResponseAgrees, SettlementAgrees, SealAgrees

\* The first records of a journal are as good as the whole.
LEMMA PrefixOK ==
    ASSUME NEW m, NEW log, LogOK(m, log), NEW log2, Common(log, log2, Len(log2))
    PROVE  LogOK(m, log2)
<1>1. PICK n \in Nat : n = Len(log2)
    BY DEF Common
<1>2. /\ n <= Len(log) /\ Len(log) \in Nat /\ \A i \in 1..n : log2[i] = log[i] /\ i \in 1..Len(log)
      /\ Common(log, log2, n)
    BY <1>1, LenProperties DEF Common
<1>3. \A k \in 0..n : k \in 0..Len(log)
    BY <1>2
<1>4. \A k \in 0..n : \A R : SumIn(log2, k, R) = SumIn(log, k, R) /\ NumIn(log2, k, R) = NumIn(log, k, R)
    BY <1>2, CommonSums
<1>5. \A i \in 1..n : i - 1 \in 0..n /\ \A j \in (i + 1)..n : j \in (i + 1)..Len(log) /\ j \in 1..n
    BY <1>2
<1>6. RefillsLegal(log2)
    BY <1>1, <1>3, <1>4 DEF LogOK, RefillsLegal
<1>7. ResponsesLegal(log2)
    BY <1>1, <1>2, <1>4, <1>5 DEF LogOK, ResponsesLegal
<1>8. ResponseKeys(m, log2)
    BY <1>1, <1>2 DEF LogOK, ResponseKeys
<1>9. SettlementsLegal(log2)
    <2>1. ASSUME NEW i \in 1..n, log2[i].kind = "SETTLEMENT_SUCCESS"
          PROVE  Succeeded(log2, i - 1, log2[i])
        <3>1. PICK k, y : k = i - 1 /\ y = log[i]
            OBVIOUS
        <3>2. k \in 0..n /\ Succeeded(log, k, y)
            BY <1>2, <1>5, <2>1, <3>1 DEF LogOK, SettlementsLegal
        <3>3. Succeeded(log2, k, y)
            BY <1>2, <3>2, SucceededSame
        <3> QED
            BY <1>2, <3>1, <3>3
    <2>2. ASSUME NEW i \in 1..n, log2[i].kind = "SETTLEMENT_SUCCESS", NEW j \in (i + 1)..n,
                 log2[j].kind \in {"SETTLEMENT_ALLOCATE", "SETTLEMENT_SEAL"}
          PROVE  log2[j].key # log2[i].key
        BY <1>2, <1>5, <2>2 DEF LogOK, SettlementsLegal
    <2>3. ASSUME NEW i \in 1..n, log2[i].kind = "SETTLEMENT_SEAL", NEW j \in 1..(i - 1),
                 log2[j].kind = "SETTLEMENT_SEAL"
          PROVE  log2[j].key # log2[i].key
        <3>1. j \in 1..n
            OBVIOUS
        <3> QED
            BY <1>2, <2>3, <3>1 DEF LogOK, SettlementsLegal
    <2> QED
        BY <1>1, <2>1, <2>2, <2>3 DEF SettlementsLegal
<1> QED
    BY <1>6, <1>7, <1>8, <1>9 DEF LogOK

\* A journal without records, and a handle that was just given out.
LEMMA EmptyOK ==
    ASSUME NEW m
    PROVE  LogOK(m, <<>>) /\ Agrees(NoHandle, <<>>)
<1>1. PICK e : e = <<>>
    OBVIOUS
<1>2. e \in Seq(Record) /\ Len(e) = 0
    BY <1>1
<1>3. \A R : SumIn(e, 0, R) = 0 /\ NumIn(e, 0, R) = 0
    <2>1. PICK n : n = 0
        OBVIOUS
    <2>2. n \in 0..Len(e) /\ \A R : \A i \in 1..n : e[i] \notin R
        BY <1>2, <2>1
    <2> QED
        BY <1>2, <2>1, <2>2, NothingIn
<1>4. VerifiedAt(e, 0) = 0 /\ Frozen(e, 0) = 0
    BY <1>3 DEF VerifiedAt, Frozen
<1>5. LogOK(m, e)
    BY <1>2, <1>3 DEF LogOK, RefillsLegal, ResponsesLegal, ResponseKeys, SettlementsLegal
<1>6. StagesAgree(NoHandle, e)
    BY <1>2, <1>3 DEF StagesAgree, NoHandle, NoCounters
<1>7. ResponseAgrees(NoHandle, e)
    BY DEF ResponseAgrees, NoHandle
<1>8. SettlementAgrees(NoHandle, e)
    BY <1>2, <1>4 DEF SettlementAgrees, NoHandle, NoSeal, NoFresh, EpochsBelow
<1> QED
    BY <1>1, <1>5, <1>6, <1>7, <1>8 DEF Agrees

-----------------------------------------------------------------------------
(* What a method does to the accounts *)

\* A method may append r and go on as h.
Accepts(m, log, r, h) ==
    \A x \in Record : Like(x, r) => LogOK(m, Append(log, x)) /\ Agrees(h, Append(log, x))

\* r belongs to the response of g, and ends it as g says.
ResponseLegal(m, g, r) ==
    r.kind \in ResponseKinds =>
        /\ g.response # None /\ r.key = g.response /\ m[g.response] = "durable"
        /\ r.kind \in Ends => r.count = g.spent /\ r.start = g.frames

SettlementGoes(g, r, h) ==
    SettlementFollows(g, r, h) \/ Seals(g, r, h) \/ Freshens(g, r, h) \/ Succeeds(g, r, h)

\* A record that a handle follows in every ledger is accepted by all of them.
LEMMA AcceptsGoing ==
    ASSUME NEW m, NEW log \in Seq(Record), NEW g \in HandleType, NEW r, NEW h,
           LogOK(m, log), Agrees(g, log),
           StagesFollow(g, r, h), ResponseLegal(m, g, r), ResponseFollows(g, r, h),
           SettlementGoes(g, r, h)
    PROVE  Accepts(m, log, r, h)
<1>1. SUFFICES ASSUME NEW x \in Record, Like(x, r), NEW log2, log2 = Append(log, x)
               PROVE  LogOK(m, log2) /\ Agrees(h, log2)
    BY DEF Accepts
<1>2. Longer(log, x, log2)
    BY <1>1, LongerAppend
<1>3. /\ x.kind = r.kind /\ x.stage = r.stage /\ x.start = r.start
      /\ x.count = r.count /\ x.key = r.key
    BY <1>1 DEF Like
<1>4. StagesFollow(g, x, h)
    BY <1>3 DEF StagesFollow, Adds
<1>5. StagesAgree(h, log2) /\ RefillsLegal(log2)
    <2>1. StagesAgree(h, log2)
        BY <1>2, <1>4, StagesGrow DEF Agrees
    <2> QED
        BY <1>2, <2>1, RefillsFollow DEF LogOK
<1>6. ResponseLegal(m, g, x) /\ ResponseFollows(g, x, h)
    BY <1>3 DEF ResponseLegal, ResponseFollows
<1>7. ResponseAgrees(h, log2)
    BY <1>2, <1>6, ResponseGrows DEF Agrees
<1>8. ResponsesLegal(log2)
    <2>1. x.kind \in {"ALLOCATE", "CHANNEL"} =>
              \A i \in 1..Len(log) : log[i].kind \in Ends => log[i].key # x.key
        BY <1>6 DEF ResponseLegal, ResponseKinds, Agrees, ResponseAgrees
    <2>2. x.kind \in Ends =>
              /\ x.count = SumIn(log, Len(log), KeyRecs({"ALLOCATE"}, x.key))
              /\ x.start = NumIn(log, Len(log), KeyRecs({"CHANNEL"}, x.key))
        BY <1>6 DEF ResponseLegal, ResponseKinds, Agrees, ResponseAgrees
    <2> QED
        BY <1>2, <2>1, <2>2, ResponsesGrow DEF LogOK
<1>9. ResponseKeys(m, log2)
    <2>1. x.kind \in ResponseKinds => x.key \in Keys /\ m[x.key] = "durable"
        BY <1>6 DEF ResponseLegal, HandleType
    <2> QED
        BY <1>2, <2>1, KeysGrow DEF LogOK
<1>10. SettlementsLegal(log2) /\ SettlementAgrees(h, log2)
    <2>1. SettlementAgrees(g, log) /\ SettlementsLegal(log)
        BY DEF Agrees, LogOK
    <2>2. CASE SettlementFollows(g, r, h)
        <3>1. SettlementFollows(g, x, h)
            BY <1>3, <2>2 DEF SettlementFollows
        <3> QED
            BY <1>2, <2>1, <3>1, SettlementsFollow, SettlementGrows
    <2>3. CASE Seals(g, r, h)
        <3>1. Seals(g, x, h)
            BY <1>3, <2>3 DEF Seals
        <3> QED
            BY <1>2, <2>1, <3>1, SettlementSealed
    <2>4. CASE Freshens(g, r, h)
        <3>1. Freshens(g, x, h)
            BY <1>3, <2>4 DEF Freshens
        <3> QED
            BY <1>2, <2>1, <3>1, SettlementFreshened
    <2>5. CASE Succeeds(g, r, h)
        <3>1. Succeeds(g, x, h)
            BY <1>3, <2>5 DEF Succeeds
        <3> QED
            BY <1>2, <2>1, <3>1, SettlementSucceeded
    <2> QED
        BY <2>2, <2>3, <2>4, <2>5 DEF SettlementGoes
<1> QED
    BY <1>5, <1>7, <1>8, <1>9, <1>10 DEF LogOK, Agrees

\* An idle record and the same ledger.
LEMMA AcceptsIdle ==
    ASSUME NEW m, NEW log \in Seq(Record), NEW g \in HandleType, NEW r, NEW h,
           LogOK(m, log), Agrees(g, log), r.kind \in IdleKinds, SameLedger(g, h)
    PROVE  Accepts(m, log, r, h)
<1>1. SUFFICES ASSUME NEW x \in Record, Like(x, r), NEW log2, log2 = Append(log, x)
               PROVE  LogOK(m, log2) /\ Agrees(h, log2)
    BY DEF Accepts
<1>2. Longer(log, x, log2) /\ x.kind \in IdleKinds
    BY <1>1, LongerAppend DEF Like
<1> QED
    BY <1>2, IdleOK, IdleAgrees

\* What a handle leaves of its ledger follows every record that is not about it.
LEMMA StagesStay ==
    ASSUME NEW log, NEW g \in HandleType, StagesAgree(g, log), NEW r, r.kind \notin StageKinds,
           NEW h, SameStages(g, h)
    PROVE  StagesFollow(g, r, h)
<1>1. SUFFICES ASSUME NEW s \in Stages
               PROVE  /\ h.stages[s].generated = g.stages[s].generated + Adds(r, {"STAGE"}, s)
                      /\ h.stages[s].consumed = g.stages[s].consumed
                            + Adds(r, {"ALLOCATE", "SETTLEMENT_ALLOCATE"}, s)
                      /\ h.stages[s].reserved
                            = g.stages[s].reserved + Adds(r, {"RESERVED_AS_BASE"}, s)
                      /\ h.stages[s].burned
                            = g.stages[s].burned + Adds(r, {"STAGE_OUTPUT_BURN"}, s)
                      /\ h.activated[s] = g.activated[s] + Adds(r, {"BASE_INPUTS_CONSUMED"}, s)
                      /\ h.activated[s] <= h.stages[s].reserved
    BY DEF StagesFollow
<1>2. PICK p \in Counters : p = g.stages[s]
    BY DEF HandleType
<1>3. /\ p.generated \in Nat /\ p.consumed \in Nat /\ p.reserved \in Nat /\ p.burned \in Nat
      /\ g.activated[s] \in Nat /\ g.activated[s] <= p.reserved
    BY <1>2 DEF HandleType, Counters, StagesAgree
<1>5. /\ Adds(r, {"STAGE"}, s) = 0 /\ Adds(r, {"ALLOCATE", "SETTLEMENT_ALLOCATE"}, s) = 0
      /\ Adds(r, {"RESERVED_AS_BASE"}, s) = 0 /\ Adds(r, {"STAGE_OUTPUT_BURN"}, s) = 0
      /\ Adds(r, {"BASE_INPUTS_CONSUMED"}, s) = 0
    BY DEF Adds, StageKinds
<1>6. h.stages[s] = p /\ h.activated[s] = g.activated[s]
    BY <1>2 DEF SameStages
<1> QED
    BY <1>2, <1>3, <1>5, <1>6

\* A handle with the same response follows a record of no response.
LEMMA ResponseStays ==
    ASSUME NEW g \in HandleType, NEW r, r.kind \notin ResponseKinds, NEW h, SameResponse(g, h), NEW m
    PROVE  ResponseFollows(g, r, h) /\ ResponseLegal(m, g, r)
<1>1. g.spent \in Nat /\ g.frames \in Nat
    BY DEF HandleType
<1> QED
    BY <1>1 DEF ResponseFollows, ResponseLegal, SameResponse, ResponseKinds

\* A handle with the same settlement follows a record of no settlement.
LEMMA SettlementStays ==
    ASSUME NEW g \in HandleType, NEW r, r.kind \notin SettlementKinds \cup {"CLAIMS_FROZEN"},
           NEW h, SameSettlement(g, h)
    PROVE  SettlementGoes(g, r, h)
<1>1. g.frozen \in Nat /\ g.paid \in Nat
    BY DEF HandleType
<1> QED
    BY <1>1 DEF SettlementGoes, SettlementFollows, SameSettlement, SettlementKinds

-----------------------------------------------------------------------------
(* What a step does to a connection *)

\* The log of w is that of j, or that and one more record, like r.
Wrote(j, w, r) ==
    /\ w \in Journal /\ w.synced >= j.synced
    /\ \/ w.log = j.log
       \/ \E x \in Record : Like(x, r) /\ w.log = Append(j.log, x)

\* append_record writes its record or, when it fails, perhaps nothing.
LEMMA AppendedWrote ==
    ASSUME NEW j \in Journal, j.synced <= Len(j.log), NEW r \in Record, NEW o \in Outcomes,
           NEW w, w = Appended(j, r, o)
    PROVE  /\ Wrote(j, w, r) /\ w.exists = j.exists
           /\ o = "ok" => \E x \in Record : Like(x, r) /\ w.log = Append(j.log, x)
<1>1. PICK x, log : x = [r EXCEPT !.glued = j.torn] /\ log = Append(j.log, x)
    OBVIOUS
<1>2. x \in Record /\ Like(x, r)
    BY <1>1 DEF Record, Like, Journal
<1>3. PICK g : g = Written(j, r)
    OBVIOUS
<1>4. g = [j EXCEPT !.log = log, !.torn = FALSE]
    BY <1>1, <1>3 DEF Written
<1>5. j.log \in Seq(Record) /\ j.synced \in Nat /\ Len(j.log) \in Nat
    BY LenProperties DEF Journal
<1>6. log \in Seq(Record) /\ Len(log) = Len(j.log) + 1
    BY <1>1, <1>2, <1>5, AppendProperties
<1>7. g \in Journal /\ g.exists = j.exists /\ g.log = log /\ g.synced = j.synced
    BY <1>4, <1>6 DEF Journal
<1>8. CASE o = "ok"
    <2>1. PICK n \in Nat : n = Len(g.log)
        BY <1>5, <1>6, <1>7
    <2>2. w = [g EXCEPT !.synced = n]
        BY <1>3, <1>8, <2>1 DEF Appended, Synced
    <2>3. w \in Journal /\ w.exists = g.exists /\ w.log = log /\ w.synced = n
        BY <1>7, <2>2 DEF Journal
    <2>4. w.synced >= j.synced
        BY <1>5, <1>6, <1>7, <2>1, <2>3
    <2>5. Like(x, r) /\ w.log = Append(j.log, x)
        BY <1>1, <1>2, <2>3
    <2>6. w.exists = j.exists
        BY <1>7, <2>3
    <2> QED
        BY <1>2, <2>3, <2>4, <2>5, <2>6 DEF Wrote
<1>9. CASE o # "ok" /\ w = g
    BY <1>1, <1>2, <1>5, <1>7, <1>9 DEF Wrote
<1>10. CASE o # "ok" /\ w = [g EXCEPT !.torn = TRUE]
    <2>1. w \in Journal /\ w.exists = g.exists /\ w.log = g.log /\ w.synced = g.synced
        BY <1>7, <1>10 DEF Journal
    <2> QED
        BY <1>1, <1>2, <1>5, <1>7, <1>10, <2>1 DEF Wrote
<1>11. CASE o # "ok" /\ (w = j \/ w = [j EXCEPT !.torn = TRUE])
    <2>1. w \in Journal /\ w.exists = j.exists /\ w.log = j.log /\ w.synced = j.synced
        BY <1>11 DEF Journal
    <2> QED
        BY <1>5, <1>11, <2>1 DEF Wrote
<1> QED
    BY <1>3, <1>8, <1>9, <1>10, <1>11 DEF Appended

\* burn writes nothing, a newline or a TERMINAL record.
LEMMA BurnedWrote ==
    ASSUME NEW j \in Journal, j.synced <= Len(j.log), NEW o \in Outcomes,
           NEW w \in BurnedJournals(j, o)
    PROVE  Wrote(j, w, Mark("TERMINAL"))
<1>1. PICK g, r : g = NewlineWritten(j) /\ r = Mark("TERMINAL")
    OBVIOUS
<1>2. g \in Journal /\ g.log = j.log /\ g.synced = j.synced /\ j.synced \in Nat
    BY <1>1 DEF NewlineWritten, Journal
<1>3. r \in Record
    BY <1>1 DEF Mark, Rec, Record, Kinds
<1>4. CASE w = j \/ w = g
    BY <1>1, <1>2, <1>4 DEF Wrote
<1>5. CASE w = Appended(g, r, o)
    <2>1. Wrote(g, w, r)
        BY <1>2, <1>3, <1>5, AppendedWrote
    <2> QED
        BY <1>1, <1>2, <2>1 DEF Wrote
<1> QED
    BY <1>1, <1>4, <1>5 DEF BurnedJournals

\* Only the journal and the handle of c change.
Elsewhere(c) ==
    \A d \in Conns : d # c =>
        /\ journals'[d].log = journals[d].log /\ journals'[d].synced = journals[d].synced
        /\ handles'[d] = handles[d]

\* A step that writes one journal leaves the records of the others alone.
LEMMA OneJournal ==
    ASSUME IInv, NEW c \in Conns, NEW w \in Journal,
           \/ journals' = [journals EXCEPT ![c] = w]
           \/ journals' = DirSynced([journals EXCEPT ![c] = w])
    PROVE  /\ journals'[c].log = w.log /\ journals'[c].synced = w.synced
           /\ \A d \in Conns : d # c => /\ journals'[d].log = journals[d].log
                                        /\ journals'[d].synced = journals[d].synced
<1>1. journals \in [Conns -> Journal]
    BY DEF IInv, Types
<1>2. PICK js : js = [journals EXCEPT ![c] = w]
    OBVIOUS
<1>3. js \in [Conns -> Journal] /\ js[c] = w /\ \A d \in Conns : d # c => js[d] = journals[d]
    BY <1>1, <1>2
<1>4. CASE journals' = js
    BY <1>3, <1>4
<1>5. CASE journals' = DirSynced(js)
    <2>1. PICK ds : ds = DirSynced(js)
        OBVIOUS
    <2>2. \A d \in Conns : ds[d].log = js[d].log /\ ds[d].synced = js[d].synced
        BY <1>3, <2>1, DirSyncedFacts
    <2> QED
        BY <1>3, <1>5, <2>1, <2>2
<1> QED
    BY <1>2, <1>4, <1>5

\* A step that changes one handle leaves the others alone.
LEMMA OneHandle ==
    ASSUME IInv, NEW c \in Conns, NEW h, Handle(c, h)
    PROVE  handles'[c] = h /\ \A d \in Conns : d # c => handles'[d] = handles[d]
BY DEF IInv, Types, Handle

\* Markers that stay keep every journal's books.
LEMMA BooksKept ==
    ASSUME AuthKept, NEW h, NEW log, Books(markers, h, log)
    PROVE  Books(markers', h, log)
BY KeysKept DEF Books, LogOK

\* A connection that idles: nothing it is accounted for changes.
Idles(c) ==
    /\ journals'[c].synced >= journals[c].synced
    /\ \/ journals'[c].log = journals[c].log
       \/ \E x \in Record : x.kind \in IdleKinds /\ journals'[c].log = Append(journals[c].log, x)
    /\ Live(handles'[c]) => Live(handles[c]) /\ SameLedger(handles[c], handles'[c])

\* The books of a connection that idles stay in order.
LEMMA IdlesAccounted ==
    ASSUME IInv, AuthKept, NEW c \in Conns, Accounted(c), Idles(c)
    PROVE  Accounted(c)'
<1>1. PICK m, g, h, log, log2 : /\ m = markers' /\ g = handles[c] /\ h = handles'[c]
                                /\ log = journals[c].log /\ log2 = journals'[c].log
    OBVIOUS
<1>2. g \in HandleType /\ log \in Seq(Record)
    BY <1>1 DEF IInv, Types, Journal
<1>3. Books(markers, g, log)
    BY <1>1 DEF Accounted
<1>4. LogOK(m, log) /\ (Live(g) => Agrees(g, log))
    BY <1>1, <1>3, BooksKept DEF Books
<1>5. Live(h) => Live(g) /\ SameLedger(g, h)
    BY <1>1 DEF Idles
<1>6. CASE log2 = log
    BY <1>4, <1>5, <1>6, SameAgrees, <1>1 DEF Accounted, Books
<1>7. CASE \E x \in Record : x.kind \in IdleKinds /\ log2 = Append(log, x)
    <2>1. PICK x \in Record : x.kind \in IdleKinds /\ log2 = Append(log, x)
        BY <1>7
    <2>2. Longer(log, x, log2)
        BY <1>2, <2>1, LongerAppend
    <2>3. LogOK(m, log2)
        BY <1>4, <2>1, <2>2, IdleOK
    <2>4. Live(h) => Agrees(h, log2)
        BY <1>2, <1>4, <1>5, <2>1, <2>2, IdleAgrees
    <2> QED
        BY <1>1, <2>3, <2>4 DEF Accounted, Books
<1> QED
    BY <1>1, <1>6, <1>7 DEF Idles

\* A closed connection stays settled while it idles.
LEMMA SettledLonger ==
    ASSUME NEW log, NEW x, NEW log2, Longer(log, x, log2), x.kind \in IdleKinds,
           NEW n \in Nat, NEW k \in Nat, n <= k, n <= Len(log), SettledUp(log, n)
    PROVE  SettledUp(log2, k)
<1>1. PICK l \in Nat : l = Len(log) /\ Len(log2) = l + 1
    BY LongerSums
<1>2. log2[l + 1] = x /\ \A i \in 1..l : log2[i] = log[i]
    BY <1>1 DEF Longer
<1>3. PICK q \in 0..n :
         /\ Frozen(log, q) = VerifiedAt(log, q)
         /\ \A i \in (q + 1)..l : log[i].kind \notin {"CLAIMS_FROZEN", "SETTLEMENT_SUCCESS"}
    BY <1>1 DEF SettledUp
<1>4. q \in 0..k /\ q \in 0..l
    BY <1>1
<1>5. Frozen(log2, q) = Frozen(log, q) /\ VerifiedAt(log2, q) = VerifiedAt(log, q)
    BY <1>1, <1>4, LongerClaims
<1>6. \A i \in (q + 1)..(l + 1) : i = l + 1 \/ (i \in (q + 1)..l /\ i \in 1..l)
    BY <1>4
<1>7. x.kind \notin {"CLAIMS_FROZEN", "SETTLEMENT_SUCCESS"}
    BY DEF IdleKinds
<1>8. \A i \in (q + 1)..(l + 1) : log2[i].kind \notin {"CLAIMS_FROZEN", "SETTLEMENT_SUCCESS"}
    BY <1>2, <1>3, <1>6, <1>7
<1> QED
    BY <1>1, <1>3, <1>4, <1>5, <1>8 DEF SettledUp

\* A connection that was closed in order and idles stays settled up.
LEMMA IdlesClosed ==
    ASSUME IInv, IInv', NEW c \in Conns, ClosedOK(c), Idles(c), c \in closed' => c \in closed,
           opened[c] = 1 => opened'[c] = 1
    PROVE  ClosedOK(c)'
<1>1. SUFFICES ASSUME c \in closed
               PROVE  /\ opened'[c] = 1 /\ ~Live(handles'[c])
                      /\ SettledUp(journals'[c].log, journals'[c].synced)
    BY DEF ClosedOK
<1>2. PICK log, log2, n, k : /\ log = journals[c].log /\ log2 = journals'[c].log
                             /\ n = journals[c].synced /\ k = journals'[c].synced
    OBVIOUS
<1>3. /\ log \in Seq(Record) /\ n \in Nat /\ k \in Nat /\ n <= k /\ n <= Len(log)
    BY <1>2 DEF IInv, Types, Journal, JournalOK, Idles
<1>4. SettledUp(log, n)
    BY <1>1, <1>2 DEF ClosedOK
<1>5. CASE log2 = log
    <2>1. 0..n \subseteq 0..k
        BY <1>3
    <2> QED
        BY <1>1, <1>2, <1>4, <1>5, <2>1 DEF SettledUp, ClosedOK, Idles
<1>6. CASE \E x \in Record : x.kind \in IdleKinds /\ log2 = Append(log, x)
    <2>1. PICK x \in Record : x.kind \in IdleKinds /\ log2 = Append(log, x)
        BY <1>6
    <2>2. Longer(log, x, log2)
        BY <1>3, <2>1, LongerAppend
    <2>3. SettledUp(log2, k)
        BY <1>3, <1>4, <2>1, <2>2, SettledLonger
    <2> QED
        BY <1>1, <1>2, <2>3 DEF ClosedOK, Idles
<1> QED
    BY <1>2, <1>5, <1>6 DEF Idles

\* A step in which every connection idles, and closes none.
LEMMA AllIdle ==
    ASSUME IInv, IInv', AInv, AuthKept, closed' \subseteq closed,
           \A d \in Conns : opened[d] = 1 => opened'[d] = 1,
           \A d \in Conns : Idles(d)
    PROVE  AInv'
<1>1. closed \subseteq Conns /\ \A d \in Conns : Accounted(d) /\ ClosedOK(d)
    BY DEF AInv
<1>2. \A d \in Conns : Accounted(d)'
    BY <1>1, IdlesAccounted
<1>3. \A d \in Conns : ClosedOK(d)'
    BY <1>1, IdlesClosed
<1> QED
    BY <1>1, <1>2, <1>3 DEF AInv

\* A connection whose journal and handle stay.
LEMMA StaysIdle ==
    ASSUME IInv, NEW d \in Conns, journals'[d].log = journals[d].log,
           journals'[d].synced = journals[d].synced, handles'[d] = handles[d]
    PROVE  Idles(d)
<1>1. journals[d].synced \in Nat
    BY DEF IInv, Types, Journal
<1> QED
    BY <1>1 DEF Idles, SameLedger, SameStages, SameResponse, SameSettlement

\* A step of one connection.
LEMMA OneStep ==
    ASSUME IInv, IInv', AInv, AuthKept, NEW c \in Conns, Elsewhere(c), closed' \subseteq closed \cup {c},
           \A d \in Conns : opened[d] = 1 => opened'[d] = 1,
           Accounted(c)', ClosedOK(c)'
    PROVE  AInv'
<1>1. closed \subseteq Conns /\ \A d \in Conns : Accounted(d) /\ ClosedOK(d)
    BY DEF AInv
<1>2. ASSUME NEW d \in Conns, d # c PROVE Accounted(d)' /\ ClosedOK(d)'
    <2>1. Idles(d)
        BY <1>2, StaysIdle DEF Elsewhere
    <2>2. d \in closed' => d \in closed
        BY <1>2
    <2> QED
        BY <1>1, <2>1, <2>2, IdlesAccounted, IdlesClosed
<1>3. \A d \in Conns : Accounted(d)' /\ ClosedOK(d)'
    BY <1>2
<1> QED
    BY <1>1, <1>3 DEF AInv

\* A burned handle is not live, whatever became of its record.
LEMMA BurnedDead ==
    ASSUME NEW k \in HandleType, NEW h, NEW b,
           \/ k = BurnInMemory(h)
           \/ k = [BurnInMemory(h) EXCEPT !.recorded = b]
    PROVE  ~Live(k)
<1>1. PICK p : p = [s \in Stages |->
              [h.stages[s] EXCEPT !.burned = @ + h.stages[s].available, !.available = 0]]
    OBVIOUS
<1>2. PICK x : x = [h EXCEPT !.state = "terminal", !.checked = FALSE, !.response = None, !.stages = p]
    OBVIOUS
<1>3. x = BurnInMemory(h)
    BY <1>1, <1>2 DEF BurnInMemory
<1>4. k = x \/ k = [x EXCEPT !.recorded = b]
    BY <1>3
<1>5. DOMAIN k = DOMAIN x /\ "state" \in DOMAIN k /\ k.state = x.state
    BY <1>4 DEF HandleType
<1>6. x.state = "terminal"
    BY <1>2, <1>5
<1> QED
    BY <1>5, <1>6 DEF Live

\* The handle a method leaves has the ledger the method gave it.
LEMMA DoneSame ==
    ASSUME NEW k \in HandleType, NEW h, k = [h EXCEPT !.checked = FALSE]
    PROVE  SameLedger(h, k)
<1>1. DOMAIN k = DOMAIN h /\ \A f \in DOMAIN k : f # "checked" => k[f] = h[f]
    OBVIOUS
<1>2. DOMAIN k = {"state", "checked", "recorded", "response", "spent", "frames", "froze", "stages",
                  "activated", "domains", "frozen", "verified", "epoch", "seal", "fresh", "paid",
                  "auxiliary"}
    BY DEF HandleType
<1> QED
    BY <1>1, <1>2 DEF SameLedger, SameStages, SameResponse, SameSettlement

\* append_or_burn: the accounts that accept the record agree with what is left.
LEMMA CommitAccounts ==
    ASSUME IInv, IInv', AInv, AuthKept, UNCHANGED <<opened, closed>>, NEW c \in Conns,
           Live(handles[c]), NEW pending, NEW done, NEW r \in Record, NEW o \in Outcomes,
           Commit(c, pending, done, r, o), Accepts(markers', journals[c].log, r, done)
    PROVE  AInv'
<1>1. PICK m, log, w, k : /\ m = markers' /\ log = journals[c].log
                          /\ w = Appended(journals[c], r, o) /\ k = handles'[c]
    OBVIOUS
<1>2. /\ journals[c] \in Journal /\ journals[c].synced <= Len(journals[c].log) /\ k \in HandleType
      /\ log \in Seq(Record) /\ handles[c] \in HandleType
    BY <1>1 DEF IInv, Types, JournalOK, Journal
<1>3. /\ Wrote(journals[c], w, r)
      /\ o = "ok" => \E x \in Record : Like(x, r) /\ w.log = Append(log, x)
    BY <1>1, <1>2, AppendedWrote
<1>4. journals' = [journals EXCEPT ![c] = w] /\ w \in Journal
    BY <1>1, <1>3 DEF Commit, Wrote
<1>5. /\ journals'[c].log = w.log /\ journals'[c].synced = w.synced
      /\ \A d \in Conns : d # c => /\ journals'[d].log = journals[d].log
                                   /\ journals'[d].synced = journals[d].synced
    BY <1>4, OneJournal
<1>6. PICK h : h = IF o = "ok" THEN [done EXCEPT !.checked = FALSE] ELSE BurnInMemory(pending)
    OBVIOUS
<1>7. k = h /\ \A d \in Conns : d # c => handles'[d] = handles[d]
    <2>1. Handle(c, h)
        BY <1>6 DEF Commit
    <2> QED
        BY <1>1, <2>1, OneHandle
<1>8. Books(markers, handles[c], log)
    BY <1>1 DEF AInv, Accounted
<1>9. LogOK(m, log)
    BY <1>1, <1>8, BooksKept DEF Books
<1>10. LogOK(m, w.log)
    BY <1>1, <1>3, <1>9 DEF Wrote, Accepts
<1>11. Live(k) => Agrees(k, w.log)
    <2>1. CASE o = "ok"
        <3>1. SameLedger(done, k)
            BY <1>2, <1>6, <1>7, <2>1, DoneSame
        <3>2. Agrees(done, w.log)
            BY <1>1, <1>3, <2>1 DEF Accepts
        <3> QED
            BY <3>1, <3>2, SameAgrees
    <2>2. CASE o # "ok"
        BY <1>2, <1>6, <1>7, <2>2, BurnedDead
    <2> QED
        BY <2>1, <2>2
<1>12. Accounted(c)'
    BY <1>1, <1>5, <1>10, <1>11 DEF Accounted, Books
<1>13. ClosedOK(c)'
    BY DEF AInv, ClosedOK
<1> QED
    BY <1>5, <1>7, <1>12, <1>13, OneStep DEF Elsewhere

\* The append of terminal_burn, by a connection whose handle is burned or gone.
LEMMA TerminalIdles ==
    ASSUME IInv, NEW c \in Conns, NEW o \in Outcomes, TerminalAppend(c, o),
           ~Live(handles'[c]), \A d \in Conns : d # c => handles'[d] = handles[d]
    PROVE  \A d \in Conns : Idles(d)
<1>1. PICK w, r : r = Mark("TERMINAL") /\ w = Appended(journals[c], r, o)
    OBVIOUS
<1>2. journals[c] \in Journal /\ journals[c].synced <= Len(journals[c].log)
    BY DEF IInv, Types, JournalOK
<1>3. r \in Record /\ r.kind \in IdleKinds
    BY <1>1 DEF Mark, Rec, Record, Kinds, IdleKinds
<1>4. Wrote(journals[c], w, r) /\ w \in Journal
    BY <1>1, <1>2, <1>3, AppendedWrote DEF Wrote
<1>5. \/ journals' = [journals EXCEPT ![c] = w]
      \/ journals' = DirSynced([journals EXCEPT ![c] = w])
    BY <1>1 DEF TerminalAppend
<1>6. /\ journals'[c].log = w.log /\ journals'[c].synced = w.synced
      /\ \A d \in Conns : d # c => /\ journals'[d].log = journals[d].log
                                   /\ journals'[d].synced = journals[d].synced
    BY <1>4, <1>5, OneJournal
<1>7. Idles(c)
    BY <1>3, <1>4, <1>6 DEF Idles, Wrote, Like
<1> QED
    BY <1>6, <1>7, StaysIdle

\* A terminal burn accounts for nothing and kills its handle.
LEMMA TerminalBurnIdles ==
    ASSUME IInv, IInv', NEW c \in Conns, NEW o \in Outcomes, TerminalBurn(c, o)
    PROVE  (\A d \in Conns : Idles(d)) /\ ~Live(handles'[c])
<1>1. PICK h, b : b = (o = "ok") /\ h = [BurnInMemory(handles[c]) EXCEPT !.recorded = b]
    OBVIOUS
<1>2. Handle(c, h)
    BY <1>1 DEF TerminalBurn
<1>3. handles'[c] = h /\ \A d \in Conns : d # c => handles'[d] = handles[d]
    BY <1>2, OneHandle
<1>4. h \in HandleType
    BY <1>3 DEF IInv, Types
<1>5. ~Live(h)
    BY <1>1, <1>4, BurnedDead
<1> QED
    BY <1>3, <1>5, TerminalIdles DEF TerminalBurn

-----------------------------------------------------------------------------
(* The methods *)

\* A live handle, and what its journal says.
LEMMA MethodStart ==
    ASSUME IInv, AInv, AuthKept, NEW c \in Conns, Live(handles[c])
    PROVE  /\ handles[c] \in HandleType /\ journals[c].log \in Seq(Record) /\ Balanced(handles[c])
           /\ LogOK(markers', journals[c].log) /\ Agrees(handles[c], journals[c].log)
           /\ handles[c].response # None => markers'[handles[c].response] = "durable"
<1>1. PICK g, log : g = handles[c] /\ log = journals[c].log
    OBVIOUS
<1>2. g \in HandleType /\ log \in Seq(Record) /\ Balanced(g)
    BY <1>1 DEF IInv, Types, Journal
<1>3. Books(markers, g, log)
    BY <1>1 DEF AInv, Accounted
<1>4. Books(markers', g, log)
    BY <1>3, BooksKept
<1>5. Authorized(markers, c, g) /\ (g.response # None => g.response \in Keys)
    BY <1>1, <1>2 DEF IInv, HandleType
<1> QED
    BY <1>1, <1>2, <1>4, <1>5 DEF Books, Authorized, AuthKept

\* The method whose record its handle follows.
LEMMA GoingCommit ==
    ASSUME IInv, IInv', AInv, AuthKept, UNCHANGED <<opened, closed>>, NEW c \in Conns,
           Live(handles[c]), NEW pending, NEW done, NEW r \in Record, NEW o \in Outcomes,
           Commit(c, pending, done, r, o),
           StagesFollow(handles[c], r, done), ResponseLegal(markers', handles[c], r),
           ResponseFollows(handles[c], r, done), SettlementGoes(handles[c], r, done)
    PROVE  AInv'
<1>1. PICK m, g, log : m = markers' /\ g = handles[c] /\ log = journals[c].log
    OBVIOUS
<1>2. g \in HandleType /\ log \in Seq(Record) /\ LogOK(m, log) /\ Agrees(g, log)
    BY <1>1, MethodStart
<1>3. Accepts(m, log, r, done)
    BY <1>1, <1>2, AcceptsGoing
<1> QED
    BY <1>1, <1>3, CommitAccounts

\* What a record adds to the counters of its stage.
CountsFollow(p, r, q) ==
    /\ q.generated = p.generated + (IF r.kind = "STAGE" THEN r.count ELSE 0)
    /\ q.consumed = p.consumed
                      + (IF r.kind \in {"ALLOCATE", "SETTLEMENT_ALLOCATE"} THEN r.count ELSE 0)
    /\ q.reserved = p.reserved + (IF r.kind = "RESERVED_AS_BASE" THEN r.count ELSE 0)
    /\ q.burned = p.burned + (IF r.kind = "STAGE_OUTPUT_BURN" THEN r.count ELSE 0)

\* A change of the counters of one stage that matches its record.
LEMMA CountFollows ==
    ASSUME NEW log, NEW g \in HandleType, StagesAgree(g, log), NEW s \in Stages, NEW q,
           NEW r, r.stage = s, r.kind # "BASE_INPUTS_CONSUMED", r.count \in Nat,
           CountsFollow(g.stages[s], r, q), NEW h, h.stages = [g.stages EXCEPT ![s] = q],
           h.activated = g.activated
    PROVE  StagesFollow(g, r, h)
<1>1. SUFFICES ASSUME NEW t \in Stages
               PROVE  /\ h.stages[t].generated = g.stages[t].generated + Adds(r, {"STAGE"}, t)
                      /\ h.stages[t].consumed = g.stages[t].consumed
                            + Adds(r, {"ALLOCATE", "SETTLEMENT_ALLOCATE"}, t)
                      /\ h.stages[t].reserved
                            = g.stages[t].reserved + Adds(r, {"RESERVED_AS_BASE"}, t)
                      /\ h.stages[t].burned
                            = g.stages[t].burned + Adds(r, {"STAGE_OUTPUT_BURN"}, t)
                      /\ h.activated[t] = g.activated[t] + Adds(r, {"BASE_INPUTS_CONSUMED"}, t)
                      /\ h.activated[t] <= h.stages[t].reserved
    BY DEF StagesFollow
<1>2. PICK p \in Counters : p = g.stages[t]
    BY DEF HandleType
<1>3. /\ p.generated \in Nat /\ p.consumed \in Nat /\ p.reserved \in Nat /\ p.burned \in Nat
      /\ g.activated[t] \in Nat /\ g.activated[t] <= p.reserved
    BY <1>2 DEF HandleType, Counters, StagesAgree
<1>4. Adds(r, {"BASE_INPUTS_CONSUMED"}, t) = 0
    BY DEF Adds
<1>5. CASE t = s
    <2>1. h.stages[t] = q
        BY <1>5 DEF HandleType
    <2>2. \A K : Adds(r, K, t) = IF r.kind \in K THEN r.count ELSE 0
        BY <1>5 DEF Adds
    <2>3. CountsFollow(p, r, q)
        BY <1>2, <1>5
    <2> QED
        BY <1>2, <1>3, <1>4, <2>1, <2>2, <2>3 DEF CountsFollow
<1>6. CASE t # s
    <2>1. h.stages[t] = p
        BY <1>2, <1>6 DEF HandleType
    <2>2. \A K : Adds(r, K, t) = 0
        BY <1>6 DEF Adds
    <2> QED
        BY <1>2, <1>3, <2>1, <2>2
<1> QED
    BY <1>5, <1>6

\* Activate
LEMMA ActivateAccounts ==
    ASSUME IInv, IInv', AInv, NEW c \in Conns, Activate(c)
    PROVE  AInv'
<1>1. AuthKept /\ Live(handles[c]) /\ UNCHANGED <<opened, closed>>
    BY AuthUnchanged DEF Activate, Live, history
<1>2. PICK m, g, log, r, k : /\ m = markers' /\ g = handles[c] /\ log = journals[c].log
                             /\ r = Mark("ACTIVE") /\ k = [g EXCEPT !.state = "active"]
    OBVIOUS
<1>3. PICK o \in Outcomes : Commit(c, g, k, r, o)
    BY <1>2 DEF Activate
<1>4. g \in HandleType /\ log \in Seq(Record) /\ LogOK(m, log) /\ Agrees(g, log)
    BY <1>1, <1>2, MethodStart
<1>5. SameLedger(g, k)
    BY <1>2, <1>4 DEF SameLedger, SameStages, SameResponse, SameSettlement, HandleType
<1>6. r \in Record /\ r.kind \in IdleKinds
    BY <1>2 DEF Mark, Rec, Record, Kinds, IdleKinds
<1>7. Accepts(m, log, r, k)
    BY <1>4, <1>5, <1>6, AcceptsIdle
<1> QED
    BY <1>1, <1>2, <1>3, <1>6, <1>7, CommitAccounts

\* A stage nobody registered: its counters and what it activated are zero.
LEMMA RegisteredFollows ==
    ASSUME NEW m, NEW log, NEW g \in HandleType, Balanced(g), StagesAgree(g, log), NEW s \in Stages,
           NEW n \in Nat, g.stages[s].generated = 0, NEW k, k = Registered(g, s, n),
           NEW r, r = Rec("STAGE", s, 0, n, None, None)
    PROVE  /\ StagesFollow(g, r, k) /\ ResponseLegal(m, g, r) /\ ResponseFollows(g, r, k)
           /\ SettlementGoes(g, r, k)
<1>1. PICK p, q : p = g.stages[s] /\ q = [NoCounters EXCEPT !.generated = n, !.available = n]
    OBVIOUS
<1>2. /\ p.consumed \in Nat /\ p.reserved \in Nat /\ p.burned \in Nat /\ p.available \in Nat
      /\ p.consumed + p.reserved + p.burned + p.available = 0 /\ p.generated = 0
    BY <1>1, StageFacts
<1>3. p.consumed = 0 /\ p.reserved = 0 /\ p.burned = 0
    <2>1. PICK a \in Nat, b \in Nat, d \in Nat, e \in Nat :
              a = p.consumed /\ b = p.reserved /\ d = p.burned /\ e = p.available
        BY <1>2
    <2>2. a + b + d + e = 0
        BY <1>2, <2>1
    <2>3. a = 0 /\ b = 0 /\ d = 0
        BY <2>2
    <2> QED
        BY <2>1, <2>3
<1>4. q.generated = n /\ q.consumed = 0 /\ q.reserved = 0 /\ q.burned = 0
    BY <1>1 DEF NoCounters
<1>5. r.kind = "STAGE" /\ r.stage = s /\ r.count = n
    BY DEF Rec
<1>6. CountsFollow(p, r, q)
    BY <1>2, <1>3, <1>4, <1>5 DEF CountsFollow
<1>7. PICK ps : ps = [g.stages EXCEPT ![s] = q]
    OBVIOUS
<1>8. k = [g EXCEPT !.stages = ps]
    BY <1>1, <1>7 DEF Registered
<1>9. /\ k.stages = ps /\ k.activated = g.activated
      /\ SameResponse(g, k) /\ SameSettlement(g, k)
    BY <1>8 DEF SameResponse, SameSettlement, HandleType
<1>10. StagesFollow(g, r, k)
    BY <1>1, <1>5, <1>6, <1>7, <1>9, CountFollows
<1>11. r.kind \notin ResponseKinds /\ r.kind \notin SettlementKinds \cup {"CLAIMS_FROZEN"}
    BY <1>5 DEF ResponseKinds, SettlementKinds, Ends
<1> QED
    BY <1>9, <1>10, <1>11, ResponseStays, SettlementStays

\* register_stage_output
LEMMA RegisterStageAccounts ==
    ASSUME IInv, IInv', AInv, NEW c \in Conns, NEW s \in Stages, NEW n \in Sizes, RegisterStage(c, s, n)
    PROVE  AInv'
<1>1. AuthKept /\ Live(handles[c]) /\ UNCHANGED <<opened, closed>> /\ n \in Nat
    BY AuthUnchanged, ConnAssumption
       DEF RegisterStage, BetweenResponses, ActiveHandle, Live, history
<1>2. PICK m, g, log, k, r : /\ m = markers' /\ g = handles[c] /\ log = journals[c].log
                             /\ k = Registered(g, s, n) /\ r = Rec("STAGE", s, 0, n, None, None)
    OBVIOUS
<1>3. g \in HandleType /\ Balanced(g) /\ StagesAgree(g, log)
    BY <1>1, <1>2, MethodStart DEF Agrees
<1>4. PICK o \in Outcomes : Commit(c, k, k, r, o)
    BY <1>2 DEF RegisterStage
<1>5. g.stages[s].generated = 0
    BY <1>2 DEF RegisterStage
<1>6. /\ StagesFollow(g, r, k) /\ ResponseLegal(m, g, r) /\ ResponseFollows(g, r, k)
      /\ SettlementGoes(g, r, k)
    BY <1>1, <1>2, <1>3, <1>5, RegisteredFollows
<1>7. r \in Record
    BY <1>1, <1>2 DEF Rec, Record, Kinds
<1> QED
    BY <1>1, <1>2, <1>4, <1>6, <1>7, GoingCommit

\* The second half of register_refill_stage: the source's account.
LEMMA ActivatedFollows ==
    ASSUME NEW m, NEW log, NEW g \in HandleType, StagesAgree(g, log), NEW source \in Stages,
           NEW n \in Nat, g.activated[source] + n <= g.stages[source].reserved,
           NEW k, k = Activated(g, source, n), NEW key,
           NEW r, r = Rec("BASE_INPUTS_CONSUMED", source, 0, n, key, None)
    PROVE  /\ StagesFollow(g, r, k) /\ ResponseLegal(m, g, r) /\ ResponseFollows(g, r, k)
           /\ SettlementGoes(g, r, k)
<1>1. r.kind = "BASE_INPUTS_CONSUMED" /\ r.stage = source /\ r.count = n
    BY DEF Rec
<1>2. PICK p : p = [g.activated EXCEPT ![source] = @ + n]
    OBVIOUS
<1>3. k = [g EXCEPT !.activated = p]
    BY <1>2 DEF Activated
<1>4. k.activated = p /\ k.stages = g.stages /\ SameResponse(g, k) /\ SameSettlement(g, k)
    BY <1>3 DEF HandleType, SameResponse, SameSettlement
<1>5. StagesFollow(g, r, k)
    <2>1. SUFFICES ASSUME NEW t \in Stages
                   PROVE  /\ g.stages[t].generated = g.stages[t].generated + Adds(r, {"STAGE"}, t)
                          /\ g.stages[t].consumed = g.stages[t].consumed
                                + Adds(r, {"ALLOCATE", "SETTLEMENT_ALLOCATE"}, t)
                          /\ g.stages[t].reserved
                                = g.stages[t].reserved + Adds(r, {"RESERVED_AS_BASE"}, t)
                          /\ g.stages[t].burned
                                = g.stages[t].burned + Adds(r, {"STAGE_OUTPUT_BURN"}, t)
                          /\ p[t] = g.activated[t] + Adds(r, {"BASE_INPUTS_CONSUMED"}, t)
                          /\ p[t] <= g.stages[t].reserved
        BY <1>4 DEF StagesFollow
    <2>2. PICK w \in Counters : w = g.stages[t]
        BY DEF HandleType
    <2>3. /\ w.generated \in Nat /\ w.consumed \in Nat /\ w.reserved \in Nat /\ w.burned \in Nat
          /\ g.activated[t] \in Nat /\ g.activated[t] <= w.reserved
        BY <2>2 DEF HandleType, Counters, StagesAgree
    <2>4. /\ Adds(r, {"STAGE"}, t) = 0 /\ Adds(r, {"ALLOCATE", "SETTLEMENT_ALLOCATE"}, t) = 0
          /\ Adds(r, {"RESERVED_AS_BASE"}, t) = 0 /\ Adds(r, {"STAGE_OUTPUT_BURN"}, t) = 0
          /\ Adds(r, {"BASE_INPUTS_CONSUMED"}, t) = IF t = source THEN n ELSE 0
        BY <1>1 DEF Adds
    <2>5. p[t] = IF t = source THEN g.activated[t] + n ELSE g.activated[t]
        BY <1>2 DEF HandleType
    <2>6. p[t] = g.activated[t] + Adds(r, {"BASE_INPUTS_CONSUMED"}, t)
        BY <2>3, <2>4, <2>5
    <2>7. p[t] <= w.reserved
        BY <2>2, <2>3, <2>5
    <2> QED
        BY <2>2, <2>3, <2>4, <2>6, <2>7
<1>6. r.kind \notin ResponseKinds /\ r.kind \notin SettlementKinds \cup {"CLAIMS_FROZEN"}
    BY <1>1 DEF ResponseKinds, SettlementKinds, Ends
<1> QED
    BY <1>4, <1>5, <1>6, ResponseStays, SettlementStays

\* register_refill_stage
LEMMA RegisterRefillAccounts ==
    ASSUME IInv, IInv', AInv, NEW c \in Conns, NEW source \in Stages, NEW s \in Stages,
           NEW n \in Counts, NEW l \in Sizes, RegisterRefill(c, source, s, n, l)
    PROVE  AInv'
<1>1. /\ AuthKept /\ handles[c].checked /\ Live(handles[c]) /\ UNCHANGED <<opened, closed>>
      /\ n \in Nat /\ l \in Nat
    BY AuthUnchanged, ConnAssumption
       DEF RegisterRefill, BetweenResponses, ActiveHandle, Live, history
<1>2. PICK m, g, log, k, x, r, q :
          /\ m = markers' /\ g = handles[c] /\ log = journals[c].log
          /\ k = Registered(g, s, l) /\ x = Activated(k, source, n)
          /\ r = Rec("STAGE", s, 0, l, None, None)
          /\ q = Rec("BASE_INPUTS_CONSUMED", source, 0, n, s, None)
    OBVIOUS
<1>3. /\ g \in HandleType /\ Balanced(g) /\ StagesAgree(g, log) /\ log \in Seq(Record)
      /\ LogOK(m, log) /\ Agrees(g, log) /\ Goes(m, c, g, g) /\ g.state # "none"
    BY <1>1, <1>2, MethodStart, Start DEF Agrees
<1>4. /\ g.stages[s].generated = 0 /\ source # s
      /\ g.activated[source] + n <= g.stages[source].reserved
    BY <1>2 DEF RegisterRefill, CanActivate
<1>5. /\ StagesFollow(g, r, k) /\ ResponseLegal(m, g, r) /\ ResponseFollows(g, r, k)
      /\ SettlementGoes(g, r, k)
    BY <1>1, <1>2, <1>3, <1>4, RegisteredFollows
<1>6. r \in Record /\ q \in Record
    BY <1>1, <1>2 DEF Rec, Record, Kinds
<1>7. Accepts(m, log, r, k)
    BY <1>3, <1>5, AcceptsGoing
<1>8. k \in HandleType /\ k.stages[source] = g.stages[source]
    <2>1. Goes(m, c, g, k) /\ \A t \in Stages : t # s => k.stages[t] = g.stages[t]
        <3>1. l \in Nat /\ k = Registered(g, s, l) /\ g.stages[s].generated = 0 /\ g.state # "none"
            BY <1>1, <1>2, <1>3, <1>4
        <3>2. Goes(m, c, g, g) /\ g \in HandleType
            BY <1>3
        <3>3. Goes(m, c, g, k)
            BY <3>1, <3>2, RegisteredGoes
        <3>4. ASSUME NEW t \in Stages, t # s
              PROVE  k.stages[t] = g.stages[t]
            BY <3>1, <3>4 DEF Registered, HandleType
        <3> QED
            BY <3>3, <3>4
    <2> QED
        BY <1>4, <2>1 DEF Goes
<1>9. k.activated = g.activated
    BY <1>2, <1>3 DEF Registered, HandleType
<1>10. ASSUME NEW y \in Record, Like(y, r), NEW log1, log1 = Append(log, y)
       PROVE  log1 \in Seq(Record) /\ LogOK(m, log1) /\ Accepts(m, log1, q, x)
    <2>1. LogOK(m, log1) /\ Agrees(k, log1)
        BY <1>7, <1>10 DEF Accepts
    <2>2. log1 \in Seq(Record)
        BY <1>3, <1>10
    <2>3. /\ StagesFollow(k, q, x) /\ ResponseLegal(m, k, q) /\ ResponseFollows(k, q, x)
          /\ SettlementGoes(k, q, x)
        <3>1. StagesAgree(k, log1) /\ k.activated[source] + n <= k.stages[source].reserved
            BY <1>4, <1>8, <1>9, <2>1 DEF Agrees
        <3> QED
            BY <1>1, <1>2, <1>8, <3>1, ActivatedFollows
    <2> QED
        BY <1>8, <2>1, <2>2, <2>3, AcceptsGoing
<1>11. CASE \E o \in Faults : Commit(c, k, k, r, o)
    <2>1. PICK o \in Outcomes : Commit(c, k, k, r, o)
        BY <1>11 DEF Outcomes
    <2> QED
        BY <1>1, <1>2, <1>6, <1>7, <2>1, CommitAccounts
<1>12. CASE \E o \in Outcomes :
              /\ journals' = [journals EXCEPT ![c] = Appended(Appended(@, r, "ok"), q, o)]
              /\ Handle(c, IF o = "ok" THEN [x EXCEPT !.checked = FALSE] ELSE BurnInMemory(x))
    <2>1. PICK o \in Outcomes :
              /\ journals' = [journals EXCEPT ![c] = Appended(Appended(@, r, "ok"), q, o)]
              /\ Handle(c, IF o = "ok" THEN [x EXCEPT !.checked = FALSE] ELSE BurnInMemory(x))
        BY <1>12
    <2>2. /\ journals \in [Conns -> Journal] /\ journals[c] \in Journal
          /\ journals[c].synced <= Len(journals[c].log) /\ handles'[c] \in HandleType
        BY DEF IInv, Types, JournalOK
    <2>3. PICK i, j, w : i = journals[c] /\ j = Appended(i, r, "ok") /\ w = Appended(j, q, o)
        OBVIOUS
    <2>4. Retains(i, j) /\ j \in Journal /\ j.synced <= Len(j.log) /\ "ok" \in Outcomes
        <3>1. "ok" \in Outcomes
            BY DEF Outcomes
        <3>2. Retains(i, j)
            BY <1>6, <2>2, <2>3, <3>1, AppendedFacts
        <3> QED
            BY <3>1, <3>2 DEF Retains
    <2>5. PICK y \in Record : Like(y, r) /\ j.log = Append(log, y)
        BY <1>2, <1>6, <2>2, <2>3, <2>4, AppendedWrote
    <2>6. /\ Wrote(j, w, q) /\ w \in Journal
          /\ o = "ok" => \E z \in Record : Like(z, q) /\ w.log = Append(j.log, z)
        <3>1. /\ j \in Journal /\ j.synced <= Len(j.log) /\ q \in Record /\ o \in Outcomes
              /\ w = Appended(j, q, o)
            BY <1>6, <2>3, <2>4
        <3>2. /\ Wrote(j, w, q)
              /\ o = "ok" => \E z \in Record : Like(z, q) /\ w.log = Append(j.log, z)
            BY <3>1, AppendedWrote
        <3>3. w \in Journal
            BY <3>2 DEF Wrote
        <3> QED
            BY <3>2, <3>3
    <2>7. LogOK(m, j.log) /\ Accepts(m, j.log, q, x)
        BY <1>10, <2>5
    <2>8. LogOK(m, w.log)
        BY <2>6, <2>7 DEF Wrote, Accepts
    <2>9. /\ journals'[c].log = w.log
          /\ \A d \in Conns : d # c => /\ journals'[d].log = journals[d].log
                                       /\ journals'[d].synced = journals[d].synced
        <3>1. journals' = [journals EXCEPT ![c] = w]
            BY <2>1, <2>2, <2>3
        <3> QED
            BY <2>6, <3>1, OneJournal
    <2>10. PICK h : h = IF o = "ok" THEN [x EXCEPT !.checked = FALSE] ELSE BurnInMemory(x)
        OBVIOUS
    <2>11. handles'[c] = h /\ h \in HandleType /\ \A d \in Conns : d # c => handles'[d] = handles[d]
        BY <2>1, <2>2, <2>10, OneHandle
    <2>12. Live(h) => Agrees(h, w.log)
        <3>1. CASE o = "ok"
            <4>1. SameLedger(x, h)
                BY <2>10, <2>11, <3>1, DoneSame
            <4>2. Agrees(x, w.log)
                BY <2>6, <2>7, <3>1 DEF Accepts
            <4> QED
                BY <4>1, <4>2, SameAgrees
        <3>2. CASE o # "ok"
            BY <2>10, <2>11, <3>2, BurnedDead
        <3> QED
            BY <3>1, <3>2
    <2>13. Accounted(c)'
        BY <1>2, <2>8, <2>9, <2>11, <2>12 DEF Accounted, Books
    <2>14. ClosedOK(c)'
        BY <1>1 DEF AInv, ClosedOK
    <2> QED
        BY <1>1, <2>9, <2>11, <2>13, <2>14, OneStep DEF Elsewhere
<1> QED
    BY <1>2, <1>11, <1>12 DEF RegisterRefill

\* A method that counts some of a stage's correlations away.
LEMMA CountedFollows ==
    ASSUME NEW m, NEW log, NEW g \in HandleType, StagesAgree(g, log), NEW s \in Stages, NEW q,
           NEW r, r.stage = s, r.kind \in {"RESERVED_AS_BASE", "STAGE_OUTPUT_BURN"}, r.count \in Nat,
           CountsFollow(g.stages[s], r, q), NEW k, k = Counted(g, s, q)
    PROVE  /\ StagesFollow(g, r, k) /\ ResponseLegal(m, g, r) /\ ResponseFollows(g, r, k)
           /\ SettlementGoes(g, r, k)
<1>1. PICK ps : ps = [g.stages EXCEPT ![s] = q]
    OBVIOUS
<1>2. k = [g EXCEPT !.stages = ps]
    BY <1>1 DEF Counted
<1>3. k.stages = ps /\ k.activated = g.activated /\ SameResponse(g, k) /\ SameSettlement(g, k)
    BY <1>2 DEF SameResponse, SameSettlement, HandleType
<1>4. StagesFollow(g, r, k)
    BY <1>1, <1>3, CountFollows
<1>5. r.kind \notin ResponseKinds /\ r.kind \notin SettlementKinds \cup {"CLAIMS_FROZEN"}
    BY DEF ResponseKinds, SettlementKinds, Ends
<1> QED
    BY <1>3, <1>4, <1>5, ResponseStays, SettlementStays

\* reserve_as_base
LEMMA ReserveAsBaseAccounts ==
    ASSUME IInv, IInv', AInv, NEW c \in Conns, NEW s \in Stages, NEW n \in Counts, ReserveAsBase(c, s, n)
    PROVE  AInv'
<1>1. AuthKept /\ Live(handles[c]) /\ UNCHANGED <<opened, closed>> /\ n \in Nat
    BY AuthUnchanged, ConnAssumption DEF ReserveAsBase, BetweenResponses, ActiveHandle, Live
<1>2. PICK m, g, log, p : m = markers' /\ g = handles[c] /\ log = journals[c].log /\ p = g.stages[s]
    OBVIOUS
<1>3. g \in HandleType /\ Balanced(g) /\ StagesAgree(g, log)
    BY <1>1, <1>2, MethodStart DEF Agrees
<1>4. /\ p \in Counters
      /\ p.consumed \in Nat /\ p.reserved \in Nat /\ p.burned \in Nat /\ p.available \in Nat
      /\ p.generated \in Nat
    BY <1>2, <1>3, StageFacts
<1>5. PICK a, b, st : a = p.reserved + n /\ b = p.available - n /\ st = p.generated - (p.reserved + n)
    OBVIOUS
<1>6. st \in Nat
    <2>1. st >= p.consumed /\ st \in Int
        BY <1>1, <1>2, <1>4, <1>5 DEF ReserveAsBase, BaseStart
    <2> QED
        BY <1>4, <2>1
<1>7. PICK q : q = [p EXCEPT !.reserved = a, !.available = b]
    OBVIOUS
<1>8. /\ q.consumed = p.consumed /\ q.reserved = a /\ q.burned = p.burned
      /\ q.generated = p.generated
    BY <1>4, <1>7 DEF Counters
<1>9. PICK k, r : k = Counted(g, s, q) /\ r = Rec("RESERVED_AS_BASE", s, st, n, None, None)
    OBVIOUS
<1>10. PICK o \in Outcomes : Commit(c, k, k, r, o)
    <2>1. [handles[c] EXCEPT !.stages[s] =
              [handles[c].stages[s] EXCEPT !.reserved = @ + n, !.available = @ - n]] = k
        <3>1. [p EXCEPT !.reserved = @ + n, !.available = @ - n] = q
            BY <1>5, <1>7
        <3> QED
            BY <1>2, <1>9, <3>1 DEF Counted
    <2>2. Rec("RESERVED_AS_BASE", s, BaseStart(handles[c].stages[s], n), n, None, None) = r
        BY <1>2, <1>5, <1>9 DEF BaseStart
    <2> QED
        BY <2>1, <2>2 DEF ReserveAsBase
<1>11. r \in Record /\ r.kind = "RESERVED_AS_BASE" /\ r.stage = s /\ r.count = n
    BY <1>1, <1>6, <1>9 DEF Rec, Record, Kinds
<1>12. CountsFollow(p, r, q)
    BY <1>4, <1>5, <1>8, <1>11 DEF CountsFollow
<1>13. /\ StagesFollow(g, r, k) /\ ResponseLegal(m, g, r) /\ ResponseFollows(g, r, k)
       /\ SettlementGoes(g, r, k)
    BY <1>1, <1>2, <1>3, <1>9, <1>11, <1>12, CountedFollows
<1> QED
    BY <1>1, <1>2, <1>10, <1>11, <1>13, GoingCommit

\* burn_stage_output
LEMMA BurnStageOutputAccounts ==
    ASSUME IInv, IInv', AInv, NEW c \in Conns, NEW s \in Stages, NEW n \in Counts,
           BurnStageOutput(c, s, n)
    PROVE  AInv'
<1>1. AuthKept /\ Live(handles[c]) /\ UNCHANGED <<opened, closed>> /\ n \in Nat
    BY AuthUnchanged, ConnAssumption
       DEF BurnStageOutput, BetweenResponses, ActiveHandle, Live, history
<1>2. PICK m, g, log, p : m = markers' /\ g = handles[c] /\ log = journals[c].log /\ p = g.stages[s]
    OBVIOUS
<1>3. g \in HandleType /\ Balanced(g) /\ StagesAgree(g, log)
    BY <1>1, <1>2, MethodStart DEF Agrees
<1>4. /\ p \in Counters
      /\ p.consumed \in Nat /\ p.reserved \in Nat /\ p.burned \in Nat /\ p.available \in Nat
      /\ p.generated \in Nat
    BY <1>2, <1>3, StageFacts
<1>5. PICK a \in Nat, b \in Int : a = p.burned + n /\ b = p.available - n
    BY <1>1, <1>4
<1>6. PICK q : q = [p EXCEPT !.burned = a, !.available = b]
    OBVIOUS
<1>7. /\ q.consumed = p.consumed /\ q.reserved = p.reserved /\ q.burned = a
      /\ q.generated = p.generated
    BY <1>4, <1>6 DEF Counters
<1>8. PICK k, r : k = Counted(g, s, q) /\ r = Rec("STAGE_OUTPUT_BURN", s, a, n, None, None)
    OBVIOUS
<1>9. PICK o \in Outcomes : Commit(c, k, k, r, o)
    <2>1. [handles[c] EXCEPT !.stages[s] =
              [handles[c].stages[s] EXCEPT !.burned = @ + n, !.available = @ - n]] = k
        <3>1. [p EXCEPT !.burned = @ + n, !.available = @ - n] = q
            BY <1>5, <1>6
        <3> QED
            BY <1>2, <1>8, <3>1 DEF Counted
    <2>2. Rec("STAGE_OUTPUT_BURN", s, handles[c].stages[s].burned + n, n, None, None) = r
        BY <1>2, <1>5, <1>8
    <2> QED
        BY <2>1, <2>2 DEF BurnStageOutput
<1>10. r \in Record /\ r.kind = "STAGE_OUTPUT_BURN" /\ r.stage = s /\ r.count = n
    BY <1>1, <1>5, <1>8 DEF Rec, Record, Kinds
<1>11. CountsFollow(p, r, q)
    BY <1>4, <1>5, <1>7, <1>10 DEF CountsFollow
<1>12. /\ StagesFollow(g, r, k) /\ ResponseLegal(m, g, r) /\ ResponseFollows(g, r, k)
       /\ SettlementGoes(g, r, k)
    BY <1>1, <1>2, <1>3, <1>8, <1>10, <1>11, CountedFollows
<1> QED
    BY <1>1, <1>2, <1>9, <1>10, <1>12, GoingCommit

\* begin_response, begin_x4_response: nothing was ever accounted to a nonce
\* that was free.
LEMMA BeginResponseAccounts ==
    ASSUME IInv, IInv', AInv, NEW c \in Conns, NEW b \in Bindings, BeginResponse(c, b)
    PROVE  AInv'
<1>1. PICK nonce : nonce = Nonce(b)
    OBVIOUS
<1>2. b \in Seq(Keys) /\ Len(b) \in 1..Len(b) /\ nonce \in Keys
    BY <1>1, NonceFacts
<1>3. /\ AuthKept /\ markers'[nonce] = "durable" /\ markers[nonce] = "none"
      /\ handles[c].checked /\ Live(handles[c]) /\ UNCHANGED <<opened, closed>>
    <2>1. AuthKept /\ markers'[nonce] = "durable"
        BY <1>1, <1>2, ReserveKeeps DEF BeginResponse, Nonce
    <2> QED
        BY <1>1, <1>2, <2>1
           DEF BeginResponse, BetweenResponses, ActiveHandle, Live, history, Reserve, Nonce
<1>4. PICK m, g, log, k, r : /\ m = markers' /\ g = handles[c] /\ log = journals[c].log
                             /\ k = Installed(g, nonce)
                             /\ r = Rec("RESPONSE_BEGIN", None, 0, 0, nonce, None)
    OBVIOUS
<1>5. PICK o \in Outcomes : Commit(c, k, k, r, o)
    BY <1>1, <1>4 DEF BeginResponse
<1>6. /\ g \in HandleType /\ log \in Seq(Record) /\ LogOK(m, log) /\ Agrees(g, log)
      /\ Goes(m, c, g, g) /\ g.state # "none"
    BY <1>3, <1>4, MethodStart, Start
<1>7. k \in HandleType
    <2>1. Goes(m, c, g, k)
        BY <1>2, <1>3, <1>4, <1>6, InstalledGoes
    <2> QED
        BY <2>1 DEF Goes
<1>8. /\ k.response = nonce /\ k.spent = 0 /\ k.frames = 0
      /\ SameStages(g, k) /\ SameSettlement(g, k)
    BY <1>4, <1>6 DEF Installed, HandleType, SameStages, SameSettlement
<1>9. ResponseKeys(markers, log)
    BY <1>4 DEF AInv, Accounted, Books, LogOK
<1>10. /\ SumIn(log, Len(log), KeyRecs({"ALLOCATE"}, nonce)) = 0
       /\ NumIn(log, Len(log), KeyRecs({"CHANNEL"}, nonce)) = 0
       /\ \A i \in 1..Len(log) : log[i].kind \in Ends => log[i].key # nonce
    <2>1. markers[nonce] # "durable"
        BY <1>3
    <2> QED
        BY <1>2, <1>6, <1>9, <2>1, FreshResponse
<1>11. Agrees(k, log)
    <2>1. StagesAgree(k, log)
        BY <1>6, <1>8, StagesSame DEF Agrees
    <2>2. ResponseAgrees(k, log)
        BY <1>8, <1>10 DEF ResponseAgrees
    <2>3. SettlementAgrees(k, log)
        BY <1>6, <1>8 DEF Agrees, SettlementAgrees, SealAgrees, SameSettlement
    <2> QED
        BY <2>1, <2>2, <2>3 DEF Agrees
<1>12. r \in Record /\ r.kind \in IdleKinds
    BY <1>2, <1>4 DEF Rec, Record, Kinds, IdleKinds
<1>13. Accepts(m, log, r, k)
    <2>1. SameLedger(k, k)
        BY DEF SameLedger, SameStages, SameResponse, SameSettlement
    <2> QED
        BY <1>6, <1>7, <1>11, <1>12, <2>1, AcceptsIdle
<1> QED
    BY <1>3, <1>4, <1>5, <1>12, <1>13, CommitAccounts

\* begin_response whose reservation fails
LEMMA BeginResponseDeniedAccounts ==
    ASSUME IInv, IInv', AInv, NEW c \in Conns, NEW b \in Bindings, BeginResponseDenied(c, b)
    PROVE  AInv'
<1>1. AuthKept /\ UNCHANGED <<opened, closed>>
    BY NonceFacts, ReserveFailsKeeps DEF BeginResponseDenied, history
<1>2. PICK o \in Outcomes : TerminalBurn(c, o)
    BY DEF BeginResponseDenied
<1>3. \A d \in Conns : Idles(d)
    BY <1>2, TerminalBurnIdles
<1> QED
    BY <1>1, <1>3, AllIdle

\* consume_correlation_range, by a response or by a settlement.
LEMMA ConsumedFollows ==
    ASSUME NEW log, NEW g \in HandleType, Balanced(g), StagesAgree(g, log), NEW s \in Stages,
           NEW n \in Nat, NEW key, NEW tag, CanConsume(g, s, n, key, tag),
           NEW k, k = Consumed(g, s, n, key, tag),
           NEW r, r.stage = s, r.kind \in {"ALLOCATE", "SETTLEMENT_ALLOCATE"}, r.count = n
    PROVE  StagesFollow(g, r, k) /\ SameResponse(g, k) /\ SameSettlement(g, k)
<1>1. PICK p : p = g.stages[s]
    OBVIOUS
<1>2. /\ p \in Counters
      /\ p.consumed \in Nat /\ p.reserved \in Nat /\ p.burned \in Nat /\ p.available \in Nat
      /\ p.generated \in Nat
    BY <1>1, StageFacts
<1>3. PICK a, b : a = p.consumed + n /\ b = p.available - n
    OBVIOUS
<1>4. PICK q : q = [p EXCEPT !.consumed = a, !.available = b]
    OBVIOUS
<1>5. /\ q.consumed = a /\ q.reserved = p.reserved /\ q.burned = p.burned
      /\ q.generated = p.generated
    BY <1>2, <1>4 DEF Counters
<1>6. PICK ps, ds : ps = [g.stages EXCEPT ![s] = q] /\ ds = g.domains \cup {<<key, tag>>}
    OBVIOUS
<1>7. k = [g EXCEPT !.stages = ps, !.domains = ds]
    <2>1. [g.stages[s] EXCEPT !.consumed = @ + n, !.available = @ - n] = q
        BY <1>1, <1>3, <1>4
    <2> QED
        BY <1>6, <2>1 DEF Consumed
<1>8. k.stages = ps /\ k.activated = g.activated /\ SameResponse(g, k) /\ SameSettlement(g, k)
    BY <1>7 DEF SameResponse, SameSettlement, HandleType
<1>9. CountsFollow(p, r, q)
    BY <1>2, <1>3, <1>5 DEF CountsFollow
<1>10. StagesFollow(g, r, k)
    BY <1>1, <1>6, <1>8, <1>9, CountFollows
<1> QED
    BY <1>8, <1>10

\* A handle with the same stages follows the same records.
LEMMA FollowsLike ==
    ASSUME NEW g, NEW r, NEW k, StagesFollow(g, r, k), NEW x, SameStages(k, x)
    PROVE  StagesFollow(g, r, x)
BY DEF StagesFollow, SameStages

\* allocate
LEMMA AllocateAccounts ==
    ASSUME IInv, IInv', AInv, NEW c \in Conns, NEW s \in Stages, NEW n \in Counts, NEW tag \in Tags,
           Allocate(c, s, n, tag)
    PROVE  AInv'
<1>1. /\ AuthKept /\ handles[c].checked /\ Live(handles[c]) /\ UNCHANGED <<opened, closed>>
      /\ n \in Nat
    BY AuthUnchanged, ConnAssumption DEF Allocate, ActiveHandle, Live
<1>2. PICK m, g, log, key : /\ m = markers' /\ g = handles[c] /\ log = journals[c].log
                            /\ key = handles[c].response
    OBVIOUS
<1>3. /\ g \in HandleType /\ Balanced(g) /\ StagesAgree(g, log) /\ Goes(m, c, g, g)
      /\ g.state # "none" /\ (g.response # None => m[g.response] = "durable")
    BY <1>1, <1>2, MethodStart, Start DEF Agrees
<1>4. key # None /\ key \in Keys /\ CanConsume(g, s, n, key, tag)
    BY <1>2, <1>3 DEF Allocate, HandleType
<1>5. PICK k, x, r :
          /\ k = Consumed(g, s, n, key, tag)
          /\ x = [k EXCEPT !.spent = @ + n]
          /\ r = Rec("ALLOCATE", s, g.stages[s].consumed, n, key, tag)
    OBVIOUS
<1>6. PICK o \in Outcomes : Commit(c, x, x, r, o)
    BY <1>2, <1>5 DEF Allocate
<1>7. g.stages[s].consumed \in Nat
    BY <1>3, StageFacts
<1>8. r \in Record /\ r.kind = "ALLOCATE" /\ r.stage = s /\ r.count = n /\ r.key = key
    BY <1>1, <1>4, <1>5, <1>7 DEF Rec, Record, Kinds
<1>9. StagesFollow(g, r, k) /\ SameResponse(g, k) /\ SameSettlement(g, k)
    BY <1>1, <1>3, <1>4, <1>5, <1>8, ConsumedFollows
<1>10. k \in HandleType
    <2>1. Took(m, c, g, k, s, n, key, tag)
        BY <1>1, <1>3, <1>4, <1>5, ConsumedGoes
    <2> QED
        BY <2>1 DEF Took, Goes
<1>11. PICK a : a = k.spent + n
    OBVIOUS
<1>12. x.spent = a /\ x.frames = k.frames /\ x.response = k.response /\ SameStages(k, x)
       /\ SameSettlement(k, x)
    BY <1>5, <1>10, <1>11 DEF HandleType, SameStages, SameSettlement
<1>13. StagesFollow(g, r, x)
    BY <1>9, <1>12, FollowsLike
<1>14. ResponseLegal(m, g, r)
    BY <1>2, <1>3, <1>4, <1>8 DEF ResponseLegal, Ends
<1>15. ResponseFollows(g, r, x)
    <2>1. PICK y \in Nat, z \in Nat : y = g.spent /\ z = g.frames
        BY <1>3 DEF HandleType
    <2>2. x.response = key /\ x.spent = y + n /\ x.frames = z /\ key = g.response
        BY <1>2, <1>9, <1>11, <1>12, <2>1 DEF SameResponse
    <2>3. z + 0 = z
        BY <2>1
    <2> QED
        BY <1>8, <2>1, <2>2, <2>3 DEF ResponseFollows, Ends
<1>16. SettlementGoes(g, r, x)
    <2>1. SameSettlement(g, x)
        BY <1>9, <1>12 DEF SameSettlement
    <2>2. r.kind \notin SettlementKinds \cup {"CLAIMS_FROZEN"}
        BY <1>8 DEF SettlementKinds
    <2> QED
        BY <1>3, <2>1, <2>2, SettlementStays
<1> QED
    BY <1>1, <1>2, <1>6, <1>8, <1>13, <1>14, <1>15, <1>16, GoingCommit

\* record_channel_frame, ingest_serialized_frame
LEMMA RecordFrameAccounts ==
    ASSUME IInv, IInv', AInv, NEW c \in Conns, RecordFrame(c)
    PROVE  AInv'
<1>1. AuthKept /\ Live(handles[c]) /\ UNCHANGED <<opened, closed>>
    BY AuthUnchanged DEF RecordFrame, ActiveHandle, Live, history
<1>2. PICK m, g, log, k : /\ m = markers' /\ g = handles[c] /\ log = journals[c].log
                          /\ k = FrameCounted(g)
    OBVIOUS
<1>3. /\ g \in HandleType /\ StagesAgree(g, log)
      /\ g.response # None => m[g.response] = "durable"
    BY <1>1, <1>2, MethodStart DEF Agrees
<1>4. PICK r : r = Rec("CHANNEL", None, 0, 0, k.response, None)
    OBVIOUS
<1>5. PICK o \in Outcomes : Commit(c, k, k, r, o)
    BY <1>2, <1>4 DEF RecordFrame
<1>6. PICK y \in Nat, z \in Nat, a \in Nat : y = g.spent /\ z = g.frames /\ a = z + 1
    BY <1>3 DEF HandleType
<1>7. k = [g EXCEPT !.frames = a]
    BY <1>2, <1>6 DEF FrameCounted
<1>8. /\ k.response = g.response /\ k.spent = y /\ k.frames = a
      /\ SameStages(g, k) /\ SameSettlement(g, k)
    BY <1>3, <1>6, <1>7 DEF HandleType, SameStages, SameSettlement
<1>9. g.response # None
    BY <1>2, <1>8 DEF RecordFrame
<1>10. r \in Record /\ r.kind = "CHANNEL" /\ r.key = g.response
    BY <1>3, <1>4, <1>8 DEF Rec, Record, Kinds, HandleType
<1>11. StagesFollow(g, r, k)
    <2>1. r.kind \notin StageKinds
        BY <1>10 DEF StageKinds
    <2> QED
        BY <1>3, <1>8, <2>1, StagesStay
<1>12. ResponseLegal(m, g, r)
    BY <1>3, <1>9, <1>10 DEF ResponseLegal, Ends
<1>13. ResponseFollows(g, r, k)
    <2>1. y + 0 = y
        BY <1>6
    <2> QED
        BY <1>6, <1>8, <1>10, <2>1 DEF ResponseFollows, Ends
<1>14. SettlementGoes(g, r, k)
    <2>1. r.kind \notin SettlementKinds \cup {"CLAIMS_FROZEN"}
        BY <1>10 DEF SettlementKinds
    <2> QED
        BY <1>3, <1>8, <2>1, SettlementStays
<1> QED
    BY <1>1, <1>2, <1>5, <1>10, <1>11, <1>12, <1>13, <1>14, GoingCommit

\* finish_response_success, finish_response_abort, finish_x4d_response_pending
LEMMA FinishResponseAccounts ==
    ASSUME IInv, IInv', AInv, NEW c \in Conns, NEW kind \in {"RESPONSE_SUCCESS", "RESPONSE_ABORT"},
           FinishResponse(c, kind)
    PROVE  AInv'
<1>1. AuthKept /\ Live(handles[c]) /\ UNCHANGED <<opened, closed>> /\ handles[c].response # None
    BY AuthUnchanged DEF FinishResponse, ActiveHandle, Live, history
<1>2. PICK m, g, log : m = markers' /\ g = handles[c] /\ log = journals[c].log
    OBVIOUS
<1>3. /\ g \in HandleType /\ StagesAgree(g, log) /\ g.response # None
      /\ m[g.response] = "durable"
    BY <1>1, <1>2, MethodStart DEF Agrees
<1>4. PICK k, r : /\ k = [g EXCEPT !.response = None]
                  /\ r = Rec(kind, None, g.frames, g.spent, g.response, None)
    OBVIOUS
<1>5. PICK o \in Outcomes : Commit(c, g, k, r, o)
    BY <1>2, <1>4 DEF FinishResponse
<1>6. k.response = None /\ SameStages(g, k) /\ SameSettlement(g, k)
    BY <1>3, <1>4 DEF HandleType, SameStages, SameSettlement
<1>7. /\ r \in Record /\ r.kind \in Ends /\ r.key = g.response /\ r.count = g.spent
      /\ r.start = g.frames
    BY <1>3, <1>4 DEF Rec, Record, Kinds, HandleType, Ends
<1>8. StagesFollow(g, r, k)
    <2>1. r.kind \notin StageKinds
        BY <1>7 DEF StageKinds, Ends
    <2> QED
        BY <1>3, <1>6, <2>1, StagesStay
<1>9. ResponseLegal(m, g, r) /\ ResponseFollows(g, r, k)
    BY <1>3, <1>6, <1>7 DEF ResponseLegal, ResponseFollows
<1>10. SettlementGoes(g, r, k)
    <2>1. r.kind \notin SettlementKinds \cup {"CLAIMS_FROZEN"}
        BY <1>7 DEF SettlementKinds, Ends
    <2> QED
        BY <1>3, <1>6, <2>1, SettlementStays
<1> QED
    BY <1>1, <1>2, <1>5, <1>7, <1>8, <1>9, <1>10, GoingCommit

\* record_x4d_claims_frozen
LEMMA FreezeClaimsAccounts ==
    ASSUME IInv, IInv', AInv, NEW c \in Conns, NEW n \in Claims, FreezeClaims(c, n)
    PROVE  AInv'
<1>1. AuthKept /\ Live(handles[c]) /\ UNCHANGED <<opened, closed>> /\ n \in Nat
    BY AuthUnchanged, ConnAssumption DEF FreezeClaims, ActiveHandle, Live, history
<1>2. PICK m, g, log : m = markers' /\ g = handles[c] /\ log = journals[c].log
    OBVIOUS
<1>3. g \in HandleType /\ StagesAgree(g, log)
    BY <1>1, <1>2, MethodStart DEF Agrees
<1>4. PICK k, r : /\ k = [g EXCEPT !.frozen = @ + n, !.froze = TRUE]
                  /\ r = Rec("CLAIMS_FROZEN", None, g.frozen, n, g.response, None)
    OBVIOUS
<1>5. PICK o \in Outcomes : Commit(c, g, k, r, o)
    BY <1>2, <1>4 DEF FreezeClaims
<1>6. PICK y \in Nat, z \in Nat, a \in Nat : y = g.frozen /\ z = g.paid /\ a = y + n
    BY <1>1, <1>3 DEF HandleType
<1>7. k = [g EXCEPT !.frozen = a, !.froze = TRUE]
    BY <1>4, <1>6
<1>8. /\ SameStages(g, k) /\ SameResponse(g, k) /\ k.frozen = a /\ k.paid = z
      /\ k.verified = g.verified /\ k.epoch = g.epoch /\ k.seal = g.seal /\ k.fresh = g.fresh
    BY <1>3, <1>6, <1>7 DEF HandleType, SameStages, SameResponse
<1>9. r \in Record /\ r.kind = "CLAIMS_FROZEN" /\ r.count = n
    BY <1>1, <1>3, <1>4 DEF Rec, Record, Kinds, HandleType
<1>10. StagesFollow(g, r, k)
    <2>1. r.kind \notin StageKinds
        BY <1>9 DEF StageKinds
    <2> QED
        BY <1>3, <1>8, <2>1, StagesStay
<1>11. ResponseFollows(g, r, k) /\ ResponseLegal(m, g, r)
    <2>1. r.kind \notin ResponseKinds
        BY <1>9 DEF ResponseKinds, Ends
    <2> QED
        BY <1>3, <1>8, <2>1, ResponseStays
<1>12. SettlementGoes(g, r, k)
    <2>1. z + 0 = z
        BY <1>6
    <2>2. SettlementFollows(g, r, k)
        BY <1>6, <1>8, <1>9, <2>1 DEF SettlementFollows
    <2> QED
        BY <2>2 DEF SettlementGoes
<1> QED
    BY <1>1, <1>2, <1>5, <1>9, <1>10, <1>11, <1>12, GoingCommit

\* seal_x4d_settlement
LEMMA SealSettlementAccounts ==
    ASSUME IInv, IInv', AInv, NEW c \in Conns, NEW n \in Claims, SealSettlement(c, n)
    PROVE  AInv'
<1>1. AuthKept /\ Live(handles[c]) /\ UNCHANGED <<opened, closed>> /\ n \in Nat /\ n # 0
    BY AuthUnchanged, ConnAssumption
       DEF SealSettlement, BetweenResponses, ActiveHandle, Live, history
<1>2. PICK m, g, log : m = markers' /\ g = handles[c] /\ log = journals[c].log
    OBVIOUS
<1>3. g \in HandleType /\ StagesAgree(g, log)
    BY <1>1, <1>2, MethodStart DEF Agrees
<1>4. PICK seal, k, r : /\ seal = [epoch |-> g.epoch, first |-> g.verified, count |-> n]
                        /\ k = [g EXCEPT !.epoch = @ + 1, !.seal = seal]
                        /\ r = Rec("SETTLEMENT_SEAL", None, g.verified, n, g.epoch, None)
    OBVIOUS
<1>5. PICK o \in Outcomes : Commit(c, g, k, r, o)
    BY <1>2, <1>4 DEF SealSettlement
<1>6. PICK y \in Nat, a \in Nat : y = g.epoch /\ a = y + 1
    BY <1>3 DEF HandleType
<1>7. k = [g EXCEPT !.epoch = a, !.seal = seal]
    BY <1>4, <1>6
<1>8. /\ SameStages(g, k) /\ SameResponse(g, k) /\ k.epoch = a /\ k.seal = seal
      /\ k.verified = g.verified /\ k.frozen = g.frozen /\ k.fresh = g.fresh
    BY <1>3, <1>6, <1>7 DEF HandleType, SameStages, SameResponse
<1>9. /\ r \in Record /\ r.kind = "SETTLEMENT_SEAL" /\ r.count = n /\ r.key = g.epoch
      /\ r.start = g.verified
    BY <1>1, <1>3, <1>4 DEF Rec, Record, Kinds, HandleType
<1>10. StagesFollow(g, r, k)
    <2>1. r.kind \notin StageKinds
        BY <1>9 DEF StageKinds
    <2> QED
        BY <1>3, <1>8, <2>1, StagesStay
<1>11. ResponseFollows(g, r, k) /\ ResponseLegal(m, g, r)
    <2>1. r.kind \notin ResponseKinds
        BY <1>9 DEF ResponseKinds, Ends
    <2> QED
        BY <1>3, <1>8, <2>1, ResponseStays
<1>12. SettlementGoes(g, r, k)
    <2>1. g.seal.count = 0 /\ g.verified + n <= g.frozen
        BY <1>2 DEF SealSettlement, CanSeal
    <2>2. Seals(g, r, k)
        BY <1>1, <1>4, <1>6, <1>8, <1>9, <2>1 DEF Seals
    <2> QED
        BY <2>2 DEF SettlementGoes
<1> QED
    BY <1>1, <1>2, <1>5, <1>9, <1>10, <1>11, <1>12, GoingCommit

\* record_x4d_settlement_freshness
LEMMA RecordFreshnessAccounts ==
    ASSUME IInv, IInv', AInv, NEW c \in Conns, NEW receipt \in receipts, RecordFreshness(c, receipt)
    PROVE  AInv'
<1>1. AuthKept /\ Live(handles[c]) /\ UNCHANGED <<opened, closed>>
    BY AuthUnchanged DEF RecordFreshness, ActiveHandle, Live, history
<1>2. PICK m, g, log : m = markers' /\ g = handles[c] /\ log = journals[c].log
    OBVIOUS
<1>3. g \in HandleType /\ StagesAgree(g, log)
    BY <1>1, <1>2, MethodStart DEF Agrees
<1>4. PICK e, aux, x : e = receipt.epoch /\ aux = receipt.auxiliary /\ x = receipt.expected
    OBVIOUS
<1>5. e \in Nat /\ aux \in Keys /\ x \in Nat
    BY <1>4, ConnAssumption DEF IInv, Types, Receipt
<1>6. PICK fresh, auxs, k, r :
          /\ fresh = [epoch |-> e, expected |-> x]
          /\ auxs = g.auxiliary \cup {aux}
          /\ k = [g EXCEPT !.auxiliary = auxs, !.paid = 0, !.fresh = fresh]
          /\ r = Rec("SETTLEMENT_FRESHNESS", None, 0, x, e, None)
    OBVIOUS
<1>7. PICK o \in Outcomes : Commit(c, g, k, r, o)
    BY <1>2, <1>4, <1>6 DEF RecordFreshness
<1>8. /\ SameStages(g, k) /\ SameResponse(g, k) /\ k.fresh = fresh /\ k.paid = 0
      /\ k.epoch = g.epoch /\ k.verified = g.verified /\ k.seal = g.seal /\ k.frozen = g.frozen
    BY <1>3, <1>6 DEF HandleType, SameStages, SameResponse
<1>9. r \in Record /\ r.kind = "SETTLEMENT_FRESHNESS" /\ r.count = x /\ r.key = e
    BY <1>5, <1>6 DEF Rec, Record, Kinds
<1>10. StagesFollow(g, r, k)
    <2>1. r.kind \notin StageKinds
        BY <1>9 DEF StageKinds
    <2> QED
        BY <1>3, <1>8, <2>1, StagesStay
<1>11. ResponseFollows(g, r, k) /\ ResponseLegal(m, g, r)
    <2>1. r.kind \notin ResponseKinds
        BY <1>9 DEF ResponseKinds, Ends
    <2> QED
        BY <1>3, <1>8, <2>1, ResponseStays
<1>12. SettlementGoes(g, r, k)
    <2>1. g.seal.count # 0 /\ e = g.seal.epoch /\ g.fresh.epoch = 0
        BY <1>2, <1>4 DEF RecordFreshness
    <2>2. fresh.epoch = e /\ fresh.expected = x
        BY <1>6
    <2>3. Freshens(g, r, k)
        BY <1>8, <1>9, <2>1, <2>2 DEF Freshens
    <2> QED
        BY <2>3 DEF SettlementGoes
<1> QED
    BY <1>1, <1>2, <1>7, <1>9, <1>10, <1>11, <1>12, GoingCommit

\* allocate_x4d_settlement
LEMMA AllocateSettlementAccounts ==
    ASSUME IInv, IInv', AInv, NEW c \in Conns, NEW s \in Stages, NEW n \in Counts, NEW tag \in Tags,
           AllocateSettlement(c, s, n, tag)
    PROVE  AInv'
<1>1. /\ AuthKept /\ handles[c].checked /\ Live(handles[c]) /\ UNCHANGED <<opened, closed>>
      /\ n \in Nat
    BY AuthUnchanged, ConnAssumption DEF AllocateSettlement, BetweenResponses, ActiveHandle, Live
<1>2. PICK m, g, log, key : /\ m = markers' /\ g = handles[c] /\ log = journals[c].log
                            /\ key = handles[c].fresh.epoch
    OBVIOUS
<1>3. /\ g \in HandleType /\ Balanced(g) /\ StagesAgree(g, log) /\ Goes(m, c, g, g)
      /\ g.state # "none" /\ SettlementAgrees(g, log)
    BY <1>1, <1>2, MethodStart, Start DEF Agrees
<1>4. key # 0 /\ key \in Nat /\ CanConsume(g, s, n, key, tag)
    BY <1>2, <1>3 DEF AllocateSettlement, HandleType
<1>5. g.seal.count # 0 /\ g.fresh.epoch # 0 /\ key = g.seal.epoch
    BY <1>2, <1>3, <1>4 DEF SettlementAgrees, SealAgrees
<1>6. PICK k, x, r :
          /\ k = Consumed(g, s, n, key, tag)
          /\ x = [k EXCEPT !.paid = @ + n]
          /\ r = Rec("SETTLEMENT_ALLOCATE", s, g.stages[s].consumed, n, key, tag)
    OBVIOUS
<1>7. PICK o \in Outcomes : Commit(c, k, x, r, o)
    BY <1>2, <1>6 DEF AllocateSettlement
<1>8. g.stages[s].consumed \in Nat
    BY <1>3, StageFacts
<1>9. r \in Record /\ r.kind = "SETTLEMENT_ALLOCATE" /\ r.stage = s /\ r.count = n /\ r.key = key
    BY <1>1, <1>4, <1>6, <1>8 DEF Rec, Record, Kinds
<1>10. StagesFollow(g, r, k) /\ SameResponse(g, k) /\ SameSettlement(g, k)
    BY <1>1, <1>3, <1>4, <1>6, <1>9, ConsumedFollows
<1>11. k \in HandleType
    <2>1. Took(m, c, g, k, s, n, key, tag)
        <3>1. CanConsume(g, s, n, key, tag) /\ (key \in Keys \/ key \in Nat)
            BY <1>4
        <3>2. k = Consumed(g, s, n, key, tag) /\ n \in Nat
            BY <1>1, <1>6
        <3> QED
            BY <1>3, <3>1, <3>2, ConsumedGoes
    <2> QED
        BY <2>1 DEF Took, Goes
<1>12. PICK a : a = k.paid + n
    OBVIOUS
<1>13. /\ x.paid = a /\ SameStages(k, x) /\ SameResponse(k, x)
       /\ x.frozen = k.frozen /\ x.verified = k.verified /\ x.epoch = k.epoch
       /\ x.seal = k.seal /\ x.fresh = k.fresh
    BY <1>6, <1>11, <1>12 DEF HandleType, SameStages, SameResponse
<1>14. StagesFollow(g, r, x)
    BY <1>10, <1>13, FollowsLike
<1>15. ResponseFollows(g, r, x) /\ ResponseLegal(m, g, r)
    <2>1. SameResponse(g, x)
        BY <1>10, <1>13 DEF SameResponse
    <2>2. r.kind \notin ResponseKinds
        BY <1>9 DEF ResponseKinds, Ends
    <2> QED
        BY <1>3, <2>1, <2>2, ResponseStays
<1>16. SettlementGoes(g, r, x)
    <2>1. PICK y \in Nat, z \in Nat : y = g.frozen /\ z = g.paid
        BY <1>3 DEF HandleType
    <2>2. /\ x.frozen = y + 0 /\ x.paid = z + n /\ x.verified = g.verified /\ x.epoch = g.epoch
          /\ x.seal = g.seal /\ x.fresh = g.fresh
        BY <1>10, <1>12, <1>13, <2>1 DEF SameSettlement
    <2>3. SettlementFollows(g, r, x)
        BY <1>5, <1>9, <2>1, <2>2 DEF SettlementFollows
    <2> QED
        BY <2>3 DEF SettlementGoes
<1> QED
    BY <1>1, <1>2, <1>7, <1>9, <1>14, <1>15, <1>16, GoingCommit

\* finish_x4d_settlement_success
LEMMA SettlementSuccessAccounts ==
    ASSUME IInv, IInv', AInv, NEW c \in Conns, SettlementSuccess(c)
    PROVE  AInv'
<1>1. AuthKept /\ Live(handles[c]) /\ UNCHANGED <<opened, closed>>
    BY AuthUnchanged DEF SettlementSuccess, ActiveHandle, Live, history
<1>2. PICK m, g, log, end : /\ m = markers' /\ g = handles[c] /\ log = journals[c].log
                            /\ end = handles[c].seal.first + handles[c].seal.count
    OBVIOUS
<1>3. g \in HandleType /\ StagesAgree(g, log)
    BY <1>1, <1>2, MethodStart DEF Agrees
<1>4. end \in Nat /\ end = g.seal.first + g.seal.count /\ g.paid \in Nat /\ g.seal.epoch \in Nat
    <2>1. PICK y \in Nat, z \in Nat : y = g.seal.first /\ z = g.seal.count
        BY <1>3 DEF HandleType
    <2>2. y + z \in Nat
        BY <2>1
    <2> QED
        BY <1>2, <1>3, <2>1, <2>2 DEF HandleType
<1>5. PICK k, r :
          /\ k = [g EXCEPT !.verified = end, !.seal = NoSeal, !.fresh = NoFresh, !.paid = 0]
          /\ r = Rec("SETTLEMENT_SUCCESS", None, end, g.paid, g.seal.epoch, None)
    OBVIOUS
<1>6. PICK o \in Outcomes : Commit(c, g, k, r, o)
    BY <1>2, <1>5 DEF SettlementSuccess
<1>7. /\ SameStages(g, k) /\ SameResponse(g, k) /\ k.verified = end /\ k.seal = NoSeal
      /\ k.fresh = NoFresh /\ k.epoch = g.epoch /\ k.frozen = g.frozen
    BY <1>3, <1>5 DEF HandleType, SameStages, SameResponse
<1>8. /\ r \in Record /\ r.kind = "SETTLEMENT_SUCCESS" /\ r.count = g.paid
      /\ r.key = g.seal.epoch /\ r.start = end
    BY <1>4, <1>5 DEF Rec, Record, Kinds
<1>9. StagesFollow(g, r, k)
    <2>1. r.kind \notin StageKinds
        BY <1>8 DEF StageKinds
    <2> QED
        BY <1>3, <1>7, <2>1, StagesStay
<1>10. ResponseFollows(g, r, k) /\ ResponseLegal(m, g, r)
    <2>1. r.kind \notin ResponseKinds
        BY <1>8 DEF ResponseKinds, Ends
    <2> QED
        BY <1>3, <1>7, <2>1, ResponseStays
<1>11. SettlementGoes(g, r, k)
    <2>1. g.seal.count # 0 /\ g.fresh.epoch = g.seal.epoch /\ g.paid = 2 * g.fresh.expected
        BY <1>2 DEF SettlementSuccess, Paid
    <2>2. k.seal.count = 0 /\ k.fresh.epoch = 0
        BY <1>7 DEF NoSeal, NoFresh
    <2>3. Succeeds(g, r, k)
        BY <1>4, <1>7, <1>8, <2>1, <2>2 DEF Succeeds
    <2> QED
        BY <2>3 DEF SettlementGoes
<1> QED
    BY <1>1, <1>2, <1>6, <1>8, <1>9, <1>10, <1>11, GoingCommit

\* fail_x4d_settlement
LEMMA SettlementFailureAccounts ==
    ASSUME IInv, IInv', AInv, NEW c \in Conns, SettlementFailure(c)
    PROVE  AInv'
<1>1. AuthKept /\ Live(handles[c]) /\ UNCHANGED <<opened, closed>>
    BY AuthUnchanged DEF SettlementFailure, ActiveHandle, Live, history
<1>2. PICK m, g, log, r, q :
          /\ m = markers' /\ g = handles[c] /\ log = journals[c].log
          /\ r = Rec("SETTLEMENT_FAILURE", None, 0, 0, handles[c].seal.epoch, None)
          /\ q = Mark("TERMINAL")
    OBVIOUS
<1>3. g \in HandleType /\ log \in Seq(Record) /\ LogOK(m, log) /\ Agrees(g, log)
    BY <1>1, <1>2, MethodStart
<1>4. /\ r \in Record /\ q \in Record /\ r.kind \in IdleKinds /\ q.kind \in IdleKinds
    BY <1>2, <1>3 DEF Mark, Rec, Record, Kinds, HandleType, IdleKinds
<1>5. CASE \E o \in Faults : Commit(c, g, g, r, o)
    <2>1. PICK o \in Outcomes : Commit(c, g, g, r, o)
        BY <1>5 DEF Outcomes
    <2>2. SameLedger(g, g)
        BY DEF SameLedger, SameStages, SameResponse, SameSettlement
    <2>3. Accepts(m, log, r, g)
        BY <1>3, <1>4, <2>2, AcceptsIdle
    <2> QED
        BY <1>1, <1>2, <1>4, <2>1, <2>3, CommitAccounts
<1>6. CASE \E o \in Outcomes :
              LET new == [journals EXCEPT ![c] = Appended(Appended(@, r, "ok"), q, o)]
              IN  /\ journals' = IF o = "ok" THEN DirSynced(new) ELSE new
                  /\ Handle(c, [BurnInMemory(g) EXCEPT !.recorded = (o = "ok")])
    <2>1. PICK o \in Outcomes :
              LET new == [journals EXCEPT ![c] = Appended(Appended(@, r, "ok"), q, o)]
              IN  /\ journals' = IF o = "ok" THEN DirSynced(new) ELSE new
                  /\ Handle(c, [BurnInMemory(g) EXCEPT !.recorded = (o = "ok")])
        BY <1>6
    <2>2. /\ journals \in [Conns -> Journal] /\ journals[c] \in Journal
          /\ journals[c].synced <= Len(journals[c].log) /\ handles'[c] \in HandleType
        BY DEF IInv, Types, JournalOK
    <2>3. PICK i, j, w : i = journals[c] /\ j = Appended(i, r, "ok") /\ w = Appended(j, q, o)
        OBVIOUS
    <2>4. j \in Journal /\ j.synced <= Len(j.log) /\ "ok" \in Outcomes
        <3>1. "ok" \in Outcomes
            BY DEF Outcomes
        <3>2. Retains(i, j)
            BY <1>4, <2>2, <2>3, <3>1, AppendedFacts
        <3> QED
            BY <3>1, <3>2 DEF Retains
    <2>5. PICK y \in Record : Like(y, r) /\ j.log = Append(log, y)
        BY <1>2, <1>4, <2>2, <2>3, <2>4, AppendedWrote
    <2>6. Wrote(j, w, q)
        BY <1>4, <2>3, <2>4, AppendedWrote
    <2>7. LogOK(m, j.log) /\ j.log \in Seq(Record)
        <3>1. Longer(log, y, j.log)
            BY <1>3, <2>5, LongerAppend
        <3>2. y.kind \in IdleKinds
            BY <1>4, <2>5 DEF Like
        <3> QED
            BY <1>3, <2>5, <3>1, <3>2, IdleOK
    <2>8. LogOK(m, w.log)
        <3>1. CASE w.log = j.log
            BY <2>7, <3>1
        <3>2. CASE \E z \in Record : Like(z, q) /\ w.log = Append(j.log, z)
            <4>1. PICK z \in Record : Like(z, q) /\ w.log = Append(j.log, z)
                BY <3>2
            <4>2. Longer(j.log, z, w.log)
                BY <2>7, <4>1, LongerAppend
            <4>3. z.kind \in IdleKinds
                BY <1>4, <4>1 DEF Like
            <4> QED
                BY <2>7, <4>2, <4>3, IdleOK
        <3> QED
            BY <2>6, <3>1, <3>2 DEF Wrote
    <2>9. /\ journals'[c].log = w.log
          /\ \A d \in Conns : d # c => /\ journals'[d].log = journals[d].log
                                       /\ journals'[d].synced = journals[d].synced
        <3>1. \/ journals' = [journals EXCEPT ![c] = w]
              \/ journals' = DirSynced([journals EXCEPT ![c] = w])
            BY <2>1, <2>2, <2>3
        <3>2. w \in Journal
            BY <2>6 DEF Wrote
        <3> QED
            BY <3>1, <3>2, OneJournal
    <2>10. PICK b, h : b = (o = "ok") /\ h = [BurnInMemory(g) EXCEPT !.recorded = b]
        OBVIOUS
    <2>11. handles'[c] = h /\ \A d \in Conns : d # c => handles'[d] = handles[d]
        <3>1. Handle(c, h)
            BY <2>1, <2>10
        <3> QED
            BY <3>1, OneHandle
    <2>12. ~Live(h)
        BY <2>2, <2>10, <2>11, BurnedDead
    <2>13. Accounted(c)'
        BY <1>2, <2>8, <2>9, <2>11, <2>12 DEF Accounted, Books
    <2>14. ClosedOK(c)'
        BY <1>1 DEF AInv, ClosedOK
    <2> QED
        BY <1>1, <2>9, <2>11, <2>13, <2>14, OneStep DEF Elsewhere
<1> QED
    BY <1>2, <1>5, <1>6 DEF SettlementFailure

\* close_x4d_after_all_verified: everything frozen is verified when the
\* TERMINAL record is written.
LEMMA CloseSettledAccounts ==
    ASSUME IInv, IInv', AInv, NEW c \in Conns, CloseSettled(c)
    PROVE  AInv'
<1>1. AuthKept /\ handles[c].state # "none" /\ Live(handles[c]) /\ UNCHANGED opened
    BY AuthUnchanged DEF CloseSettled, BetweenResponses, ActiveHandle, Live
<1>2. PICK o \in Outcomes :
          TerminalBurn(c, o) /\ closed' = IF o = "ok" THEN closed \cup {c} ELSE closed
    BY DEF CloseSettled
<1>3. (\A d \in Conns : Idles(d)) /\ ~Live(handles'[c])
    BY <1>2, TerminalBurnIdles
<1>4. CASE o # "ok"
    BY <1>1, <1>2, <1>3, <1>4, AllIdle
<1>5. CASE o = "ok"
    <2>1. PICK m, g, j, r, w : /\ m = markers' /\ g = handles[c] /\ j = journals[c]
                               /\ r = Mark("TERMINAL") /\ w = Appended(j, r, o)
        OBVIOUS
    <2>2. /\ j \in Journal /\ j.synced <= Len(j.log) /\ j.log \in Seq(Record)
          /\ opened[c] = 1
        BY <1>1, <2>1 DEF IInv, Types, JournalOK, Journal
    <2>3. r \in Record /\ r.kind = "TERMINAL"
        BY <2>1 DEF Mark, Rec, Record, Kinds
    <2>4. /\ w \in Journal /\ w.synced = Len(j.log) + 1
          /\ \E x \in Record : Like(x, r) /\ w.log = Append(j.log, x)
        <3>1. /\ Wrote(j, w, r)
              /\ o = "ok" => \E x \in Record : Like(x, r) /\ w.log = Append(j.log, x)
            BY <2>1, <2>2, <2>3, AppendedWrote
        <3>2. /\ Retains(j, w) /\ w.exists = j.exists
              /\ o = "ok" => /\ w.synced = Len(j.log) + 1
                             /\ w.log[Len(j.log) + 1] = [r EXCEPT !.glued = j.torn]
            BY <2>1, <2>2, <2>3, AppendedFacts
        <3> QED
            BY <1>5, <3>1, <3>2 DEF Wrote
    <2>5. /\ journals'[c].log = w.log /\ journals'[c].synced = w.synced
          /\ \A d \in Conns : d # c => /\ journals'[d].log = journals[d].log
                                       /\ journals'[d].synced = journals[d].synced
        <3>1. journals' = DirSynced([journals EXCEPT ![c] = w])
            BY <1>2, <1>5, <2>1 DEF TerminalBurn, TerminalAppend
        <3> QED
            BY <2>4, <3>1, OneJournal
    <2>6. PICK x \in Record, n \in Nat : /\ Like(x, r) /\ w.log = Append(j.log, x)
                                         /\ n = Len(j.log)
        BY <2>2, <2>4, LenProperties
    <2>7. Longer(j.log, x, w.log) /\ x.kind = "TERMINAL"
        BY <2>2, <2>3, <2>6, LongerAppend DEF Like
    <2>8. /\ Frozen(w.log, n) = Frozen(j.log, n) /\ VerifiedAt(w.log, n) = VerifiedAt(j.log, n)
        <3>1. n \in 0..Len(j.log)
            BY <2>6
        <3> QED
            BY <2>7, <3>1, LongerClaims
    <2>9. Frozen(j.log, n) = VerifiedAt(j.log, n)
        <3>1. SettlementAgrees(g, j.log)
            BY <1>1, <2>1, MethodStart DEF Agrees
        <3>2. g.frozen = g.verified
            BY <2>1 DEF CloseSettled, AllVerified
        <3> QED
            BY <2>6, <3>1, <3>2 DEF SettlementAgrees
    <2>10. \A i \in (n + 1)..Len(w.log) :
              w.log[i].kind \notin {"CLAIMS_FROZEN", "SETTLEMENT_SUCCESS"}
        BY <2>6, <2>7 DEF Longer
    <2>11. SettledUp(w.log, w.synced)
        <3>1. n \in 0..w.synced
            BY <2>4, <2>6
        <3> QED
            BY <2>8, <2>9, <2>10, <3>1 DEF SettledUp
    <2>12. ClosedOK(c)'
        BY <1>1, <1>3, <2>2, <2>5, <2>11 DEF ClosedOK
    <2>13. Accounted(c)'
        BY <1>1, <1>3, IdlesAccounted DEF AInv
    <2>14. \A d \in Conns : d # c => handles'[d] = handles[d]
        <3>1. PICK h : h = [BurnInMemory(handles[c]) EXCEPT !.recorded = (o = "ok")]
            OBVIOUS
        <3>2. Handle(c, h)
            BY <1>2, <3>1 DEF TerminalBurn
        <3> QED
            BY <3>2, OneHandle
    <2> QED
        BY <1>1, <1>2, <2>5, <2>12, <2>13, <2>14, OneStep DEF Elsewhere
<1> QED
    BY <1>4, <1>5

\* fail, and the calls that end a connection
LEMMA BurnedAccounts ==
    ASSUME IInv, IInv', AInv, NEW c \in Conns, Refuse(c) \/ AbortConnection(c)
    PROVE  AInv'
<1>1. AuthKept /\ UNCHANGED <<opened, closed>>
    BY AuthUnchanged DEF Refuse, AbortConnection, history
<1>2. PICK o \in Outcomes : TerminalBurn(c, o)
    BY DEF Refuse, AbortConnection
<1>3. \A d \in Conns : Idles(d)
    BY <1>2, TerminalBurnIdles
<1> QED
    BY <1>1, <1>3, AllIdle

\* The end of a handle, with or without its Drop.
LEMMA DropKillAccounts ==
    ASSUME IInv, IInv', AInv, NEW c \in Conns, DropHandle(c) \/ Kill(c)
    PROVE  AInv'
<1>1. AuthKept /\ UNCHANGED <<opened, closed>> /\ Handle(c, NoHandle)
    BY AuthUnchanged DEF DropHandle, Kill, history
<1>2. handles'[c] = NoHandle /\ \A d \in Conns : d # c => handles'[d] = handles[d]
    BY <1>1, OneHandle
<1>3. ~Live(handles'[c])
    BY <1>2 DEF Live, NoHandle
<1>4. CASE \E o \in Outcomes : TerminalAppend(c, o)
    <2>1. PICK o \in Outcomes : TerminalAppend(c, o)
        BY <1>4
    <2>2. \A d \in Conns : Idles(d)
        BY <1>2, <1>3, <2>1, TerminalIdles
    <2> QED
        BY <1>1, <2>2, AllIdle
<1>5. CASE UNCHANGED journals
    <2>1. Idles(c)
        <3>1. journals[c].synced \in Nat
            BY DEF IInv, Types, Journal
        <3> QED
            BY <1>3, <1>5, <3>1 DEF Idles
    <2>2. \A d \in Conns : d # c => Idles(d)
        BY <1>2, <1>5, StaysIdle
    <2> QED
        BY <1>1, <2>1, <2>2, AllIdle
<1> QED
    BY <1>4, <1>5 DEF DropHandle, Kill

\* ConnectionStore::new
LEMMA OpenStoreAccounts ==
    ASSUME IInv, IInv', AInv, OpenStore
    PROVE  AInv'
<1>1. AuthKept /\ UNCHANGED <<opened, closed>> /\ UNCHANGED handles
    BY AuthUnchanged DEF OpenStore, history
<1>2. \A d \in Conns : journals'[d].log = journals[d].log /\ journals'[d].synced = journals[d].synced
    <2>1. PICK ds : ds = DirSynced(journals)
        OBVIOUS
    <2>2. journals \in [Conns -> Journal]
        BY DEF IInv, Types
    <2>3. \A d \in Conns : ds[d].log = journals[d].log /\ ds[d].synced = journals[d].synced
        BY <2>1, <2>2, DirSyncedFacts
    <2> QED
        BY <2>1, <2>3 DEF OpenStore
<1>3. \A d \in Conns : Idles(d)
    BY <1>1, <1>2, StaysIdle
<1> QED
    BY <1>1, <1>3, AllIdle

\* ensure_live
LEMMA EnsureLiveAccounts ==
    ASSUME IInv, IInv', AInv, NEW c \in Conns, EnsureLive(c)
    PROVE  AInv'
<1>1. AuthKept /\ UNCHANGED <<opened, closed>> /\ UNCHANGED journals /\ Live(handles[c])
    BY AuthUnchanged DEF EnsureLive, Live, history
<1>2. PICK g, h : /\ g = handles[c]
                  /\ h = IF ContainsTerminal(journals[c])
                         THEN [BurnInMemory(g) EXCEPT !.recorded = TRUE]
                         ELSE [g EXCEPT !.checked = TRUE]
    OBVIOUS
<1>3. handles'[c] = h /\ \A d \in Conns : d # c => handles'[d] = handles[d]
    <2>1. Handle(c, h)
        BY <1>2 DEF EnsureLive
    <2> QED
        BY <2>1, OneHandle
<1>4. g \in HandleType /\ h \in HandleType /\ journals[c].synced \in Nat
    <2>1. handles[c] \in HandleType /\ handles'[c] \in HandleType /\ journals[c].synced \in Nat
        BY DEF IInv, Types, Journal
    <2> QED
        BY <1>2, <1>3, <2>1
<1>5. Live(h) => SameLedger(g, h)
    <2>1. CASE ContainsTerminal(journals[c])
        <3>1. h = [BurnInMemory(g) EXCEPT !.recorded = TRUE]
            BY <1>2, <2>1
        <3> QED
            BY <1>4, <3>1, BurnedDead
    <2>2. CASE ~ContainsTerminal(journals[c])
        <3>1. h = [g EXCEPT !.checked = TRUE]
            BY <1>2, <2>2
        <3> QED
            BY <1>4, <3>1 DEF HandleType, SameLedger, SameStages, SameResponse, SameSettlement
    <2> QED
        BY <2>1, <2>2
<1>6. Idles(c)
    BY <1>1, <1>2, <1>3, <1>4, <1>5 DEF Idles
<1>7. \A d \in Conns : d # c => Idles(d)
    BY <1>1, <1>3, StaysIdle
<1> QED
    BY <1>1, <1>6, <1>7, AllIdle

\* create for an identity with a journal: the handle may live on, its journal
\* gets at most a TERMINAL record.
LEMMA CreateRejectedAccounts ==
    ASSUME IInv, IInv', AInv, NEW c \in Conns, CreateRejected(c)
    PROVE  AInv'
<1>1. AuthKept /\ UNCHANGED <<opened, closed>> /\ UNCHANGED handles
    BY AuthUnchanged DEF CreateRejected
<1>2. CASE UNCHANGED journals
    <2>1. \A d \in Conns : Idles(d)
        BY <1>1, <1>2, StaysIdle
    <2> QED
        BY <1>1, <2>1, AllIdle
<1>3. CASE \E o \in Outcomes : \E j \in BurnedJournals(journals[c], o) :
              LET new == [journals EXCEPT ![c] = j]
              IN  journals' = IF o = "ok" THEN DirSynced(new) ELSE new
    <2>1. PICK o \in Outcomes : \E j \in BurnedJournals(journals[c], o) :
              LET new == [journals EXCEPT ![c] = j]
              IN  journals' = IF o = "ok" THEN DirSynced(new) ELSE new
        BY <1>3
    <2>2. PICK w \in BurnedJournals(journals[c], o) :
              LET new == [journals EXCEPT ![c] = w]
              IN  journals' = IF o = "ok" THEN DirSynced(new) ELSE new
        BY <2>1
    <2>3. PICK i, r : i = journals[c] /\ r = Mark("TERMINAL")
        OBVIOUS
    <2>4. i \in Journal /\ i.synced <= Len(i.log) /\ w \in BurnedJournals(i, o)
        BY <2>3 DEF IInv, Types, JournalOK
    <2>5. Wrote(i, w, r)
        BY <2>3, <2>4, BurnedWrote
    <2>6. r.kind \in IdleKinds
        BY <2>3 DEF Mark, Rec, IdleKinds
    <2>7. \/ journals' = [journals EXCEPT ![c] = w]
          \/ journals' = DirSynced([journals EXCEPT ![c] = w])
        BY <2>2
    <2>8. /\ journals'[c].log = w.log /\ journals'[c].synced = w.synced
          /\ \A d \in Conns : d # c => /\ journals'[d].log = journals[d].log
                                       /\ journals'[d].synced = journals[d].synced
        <3>1. w \in Journal
            BY <2>5 DEF Wrote
        <3> QED
            BY <2>7, <3>1, OneJournal
    <2>9. Idles(c)
        <3>1. Live(handles'[c]) => Live(handles[c]) /\ SameLedger(handles[c], handles'[c])
            BY <1>1 DEF SameLedger, SameStages, SameResponse, SameSettlement
        <3> QED
            BY <2>3, <2>5, <2>6, <2>8, <3>1 DEF Idles, Wrote, Like
    <2>10. \A d \in Conns : d # c => Idles(d)
        BY <1>1, <2>8, StaysIdle
    <2> QED
        BY <1>1, <2>9, <2>10, AllIdle
<1> QED
    BY <1>2, <1>3 DEF CreateRejected

\* create for an identity without a journal: its handle and its journal start
\* with empty accounts.
LEMMA CreateAccounts ==
    ASSUME IInv, IInv', AInv, NEW c \in Conns, Create(c)
    PROVE  AInv'
<1>1. /\ journals \in [Conns -> Journal] /\ handles \in [Conns -> HandleType]
      /\ opened \in [Conns -> {0, 1}] /\ JournalOK(c) /\ ClosedOK(c)
    BY DEF IInv, Types, AInv
<1>2. opened[c] = 0 /\ handles[c].state = "none" /\ c \notin closed
    BY <1>1 DEF Create, JournalOK, OpenedOK, ClosedOK
<1>3. AuthKept /\ closed' = closed
    BY AuthUnchanged DEF Create
<1>4. PICK i, r, m : i = [NoJournal EXCEPT !.exists = TRUE] /\ r = Mark("OPEN") /\ m = markers'
    OBVIOUS
<1>5. /\ i \in Journal /\ i.synced <= Len(i.log) /\ i.log = <<>> /\ i.log \in Seq(Record)
      /\ r \in Record /\ r.kind \in IdleKinds
    <2>1. NoJournal \in Journal /\ NoJournal.synced = 0 /\ NoJournal.log = <<>>
        BY DEF NoJournal, Journal
    <2>2. i \in Journal /\ i.synced = 0 /\ i.log = <<>>
        BY <1>4, <2>1 DEF Journal
    <2>3. r \in Record /\ r.kind \in IdleKinds
        BY <1>4 DEF Mark, Rec, Record, Kinds, IdleKinds
    <2>4. i.log \in Seq(Record)
        BY <2>2 DEF Journal
    <2> QED
        BY <2>2, <2>3, <2>4
<1>6. PICK o \in Outcomes :
          LET new == [journals EXCEPT ![c] = Appended(i, r, o)]
          IN  /\ journals' = IF o = "ok" THEN DirSynced(new) ELSE new
              /\ IF o = "ok" THEN Handle(c, [NoHandle EXCEPT !.state = "open"])
                             ELSE UNCHANGED handles
              /\ opened' = IF o = "ok" THEN [opened EXCEPT ![c] = @ + 1] ELSE opened
    BY <1>4 DEF Create
<1>7. PICK w : w = Appended(i, r, o)
    OBVIOUS
<1>8. /\ Wrote(i, w, r)
      /\ o = "ok" => \E x \in Record : Like(x, r) /\ w.log = Append(i.log, x)
    BY <1>5, <1>7, AppendedWrote
<1>9. /\ journals'[c].log = w.log
      /\ \A d \in Conns : d # c => /\ journals'[d].log = journals[d].log
                                   /\ journals'[d].synced = journals[d].synced
    <2>1. \/ journals' = [journals EXCEPT ![c] = w]
          \/ journals' = DirSynced([journals EXCEPT ![c] = w])
        BY <1>6, <1>7
    <2>2. w \in Journal
        BY <1>8 DEF Wrote
    <2> QED
        BY <2>1, <2>2, OneJournal
<1>10. PICK h : h = handles'[c]
    OBVIOUS
<1>11. \A d \in Conns : d # c => handles'[d] = handles[d]
    <2>1. CASE o = "ok"
        <3>1. PICK k : k = [NoHandle EXCEPT !.state = "open"]
            OBVIOUS
        <3>2. Handle(c, k)
            BY <1>6, <2>1, <3>1
        <3> QED
            BY <3>2, OneHandle
    <2>2. CASE o # "ok"
        BY <1>6, <2>2
    <2> QED
        BY <2>1, <2>2
<1>12. LogOK(m, i.log) /\ Agrees(NoHandle, i.log) /\ NoHandle \in HandleType
    <2>1. LogOK(m, <<>>) /\ Agrees(NoHandle, <<>>)
        BY EmptyOK
    <2>2. NoHandle \in HandleType
        BY NoHandleFacts
    <2> QED
        BY <1>5, <2>1, <2>2
<1>13. ASSUME NEW x \in Record, Like(x, r), w.log = Append(i.log, x)
       PROVE  LogOK(m, w.log) /\ \A k : SameLedger(NoHandle, k) => Agrees(k, w.log)
    <2>1. Longer(i.log, x, w.log)
        BY <1>5, <1>13, LongerAppend
    <2>2. x.kind \in IdleKinds
        BY <1>5, <1>13 DEF Like
    <2> QED
        BY <1>12, <2>1, <2>2, IdleOK, IdleAgrees
<1>14. LogOK(m, w.log)
    BY <1>8, <1>12, <1>13 DEF Wrote
<1>15. Live(h) => Agrees(h, w.log)
    <2>1. CASE o = "ok"
        <3>1. PICK k : k = [NoHandle EXCEPT !.state = "open"]
            OBVIOUS
        <3>2. Handle(c, k)
            BY <1>6, <2>1, <3>1
        <3>3. h = k
            BY <1>10, <3>2, OneHandle
        <3>4. SameLedger(NoHandle, k)
            BY <1>12, <3>1
               DEF HandleType, SameLedger, SameStages, SameResponse, SameSettlement
        <3> QED
            BY <1>8, <1>13, <2>1, <3>3, <3>4
    <2>2. CASE o # "ok"
        BY <1>2, <1>6, <1>10, <2>2 DEF Live
    <2> QED
        BY <2>1, <2>2
<1>16. Accounted(c)'
    BY <1>4, <1>9, <1>10, <1>14, <1>15 DEF Accounted, Books
<1>17. ClosedOK(c)'
    BY <1>2, <1>3 DEF ClosedOK
<1>18. \A d \in Conns : opened[d] = 1 => opened'[d] = 1
    BY <1>1, <1>2, <1>6
<1> QED
    BY <1>3, <1>9, <1>11, <1>16, <1>17, <1>18, OneStep DEF Elsewhere

\* A step of the burn store alone.
LEMMA BurnStoreAccounts ==
    ASSUME IInv, IInv', AInv, AuthKept, UNCHANGED <<journals, handles, history>>
    PROVE  AInv'
<1>1. \A d \in Conns : Idles(d)
    BY StaysIdle
<1>2. UNCHANGED <<opened, closed>>
    BY DEF history
<1> QED
    BY <1>1, <1>2, AllIdle

\* reserve_x4d_settlement, and the nonces of expand_phase_b_production
LEMMA ReservationAccounts ==
    ASSUME IInv, IInv', AInv,
           \/ \E c \in Conns, e \in 1..MaxEpoch, s \in Seeds, x \in Expected :
                 ReserveSettlement(c, e, s, x)
           \/ \E b \in Bindings : ExpandPhaseB(b)
    PROVE  AInv'
<1>1. ASSUME NEW c \in Conns, NEW e \in 1..MaxEpoch, NEW s \in Seeds, NEW x \in Expected,
             ReserveSettlement(c, e, s, x)
      PROVE  AuthKept /\ UNCHANGED <<journals, handles, history>>
    <2>1. PICK b : b = <<<<c, e>>>> \o s
        OBVIOUS
    <2>2. b \in Seq(Keys)
        <3>1. <<c, e>> \in Keys /\ s \in Seq(Keys)
            BY ConnAssumption
        <3>2. <<<<c, e>>>> \in Seq(Keys)
            BY <3>1
        <3> QED
            BY <2>1, <3>1, <3>2, ConcatProperties
    <2>3. Reserve(b) \/ ReserveFails(b)
        BY <1>1, <2>1 DEF ReserveSettlement
    <2> QED
        BY <1>1, <2>2, <2>3, ReserveKeeps, ReserveFailsKeeps DEF ReserveSettlement
<1>2. ASSUME NEW b \in Bindings, ExpandPhaseB(b)
      PROVE  AuthKept /\ UNCHANGED <<journals, handles, history>>
    BY <1>2, NonceFacts, ReserveKeeps, ReserveFailsKeeps DEF ExpandPhaseB, connVars
<1> QED
    BY <1>1, <1>2, BurnStoreAccounts

\* What a loss of power leaves of a journal are its first records.
LEMMA SurvivorCommon ==
    ASSUME NEW j \in Journal, j.synced <= Len(j.log), NEW w \in Survivors(j)
    PROVE  Common(j.log, w.log, Len(w.log))
<1>1. j.log \in Seq(Record) /\ Len(j.log) \in Nat /\ j.synced \in Nat
    BY LenProperties DEF Journal
<1>2. CASE w = NoJournal
    <2>1. NoJournal \in Journal /\ Len(NoJournal.log) = 0
        BY DEF NoJournal, Journal
    <2>2. w.log \in Seq(Record) /\ Len(w.log) = 0
        BY <1>2, <2>1 DEF Journal
    <2> QED
        BY <1>1, <2>2 DEF Common
<1>3. CASE w # NoJournal
    <2>1. PICK cut \in (j.synced..Len(j.log)) \X BOOLEAN :
             w = [j EXCEPT !.log = SubSeq(@, 1, cut[1]), !.synced = cut[1], !.linked = j.exists,
                           !.torn = cut[2]]
        BY <1>3 DEF Survivors
    <2>2. PICK n \in j.synced..Len(j.log), t \in BOOLEAN : n = cut[1] /\ t = cut[2]
        OBVIOUS
    <2>3. PICK log : log = SubSeq(j.log, 1, n)
        OBVIOUS
    <2>4. n \in Nat /\ n <= Len(j.log)
        BY <1>1
    <2>5. log \in Seq(Record) /\ Len(log) = n /\ \A k \in 1..n : log[k] = j.log[k]
        BY <1>1, <2>3, <2>4, SubSeqProperties
    <2>6. PICK b \in BOOLEAN : b = j.exists
        BY DEF Journal
    <2>7. w = [j EXCEPT !.log = log, !.synced = n, !.linked = b, !.torn = t]
        BY <2>1, <2>2, <2>3, <2>6
    <2>8. w.log = log
        BY <2>7 DEF Journal
    <2> QED
        BY <1>1, <2>4, <2>5, <2>8 DEF Common
<1> QED
    BY <1>2, <1>3

\* A journal that lost records behind those it was settled by stays settled.
LEMMA SettledPrefix ==
    ASSUME NEW log, NEW log2, Common(log, log2, Len(log2)), NEW n \in Nat, NEW k \in Nat,
           n <= k, n <= Len(log2), SettledUp(log, n)
    PROVE  SettledUp(log2, k)
<1>1. PICK l \in Nat : l = Len(log2)
    BY DEF Common
<1>2. /\ l <= Len(log) /\ Len(log) \in Nat /\ \A i \in 1..l : log2[i] = log[i]
      /\ Common(log, log2, l)
    BY <1>1, LenProperties DEF Common
<1>3. PICK q \in 0..n :
         /\ Frozen(log, q) = VerifiedAt(log, q)
         /\ \A i \in (q + 1)..Len(log) : log[i].kind \notin {"CLAIMS_FROZEN", "SETTLEMENT_SUCCESS"}
    BY DEF SettledUp
<1>4. q \in 0..k /\ q \in 0..l
    BY <1>1
<1>5. Frozen(log2, q) = Frozen(log, q) /\ VerifiedAt(log2, q) = VerifiedAt(log, q)
    BY <1>2, <1>4, CommonSums
<1>6. \A i \in (q + 1)..l : i \in 1..l /\ i \in (q + 1)..Len(log)
    BY <1>2, <1>4
<1>7. \A i \in (q + 1)..l : log2[i].kind \notin {"CLAIMS_FROZEN", "SETTLEMENT_SUCCESS"}
    BY <1>2, <1>3, <1>6
<1> QED
    BY <1>1, <1>3, <1>4, <1>5, <1>7 DEF SettledUp

\* A loss of power takes the last records of a journal, but not those a closed
\* connection was settled by.
LEMMA PowerLossAccounts ==
    ASSUME IInv, IInv', AInv, PowerLoss
    PROVE  AInv'
<1>1. AuthKept /\ UNCHANGED <<opened, closed>>
    BY MarkersLostKeeps DEF PowerLoss, history
<1>2. ASSUME NEW d \in Conns PROVE Accounted(d)' /\ ClosedOK(d)'
    <2>1. PICK m, j, w : m = markers' /\ j = journals[d] /\ w = journals'[d]
        OBVIOUS
    <2>2. /\ j \in Journal /\ j.synced <= Len(j.log) /\ w \in Survivors(j)
          /\ JournalOK(d) /\ handles'[d] = NoHandle
        BY <2>1 DEF IInv, Types, JournalOK, PowerLoss
    <2>3. Common(j.log, w.log, Len(w.log)) /\ Retains(j, w)
        BY <2>2, SurvivorCommon, SurvivorRetains
    <2>4. LogOK(m, j.log)
        <3>1. Books(markers, handles[d], j.log)
            BY <2>1 DEF AInv, Accounted
        <3> QED
            BY <1>1, <2>1, <3>1, BooksKept DEF Books
    <2>5. LogOK(m, w.log)
        BY <2>3, <2>4, PrefixOK
    <2>6. ~Live(handles'[d])
        BY <2>2 DEF Live, NoHandle
    <2>7. Accounted(d)'
        BY <2>1, <2>5, <2>6 DEF Accounted, Books
    <2>8. ASSUME d \in closed PROVE SettledUp(w.log, w.synced) /\ opened[d] = 1
        <3>1. opened[d] = 1 /\ SettledUp(j.log, j.synced)
            BY <2>1, <2>8 DEF AInv, ClosedOK
        <3>2. j.exists /\ j.linked
            BY <2>1, <2>2, <3>1 DEF JournalOK, OpenedOK
        <3>3. /\ w.synced >= j.synced /\ w.synced <= Len(w.log) /\ j.synced \in Nat
              /\ w.synced \in Nat
            BY <2>2, <2>3, <3>2 DEF Retains, Journal
        <3>4. PICK n \in Nat, k \in Nat, l \in Nat : n = j.synced /\ k = w.synced /\ l = Len(w.log)
            BY <2>3, <3>3 DEF Common
        <3>5. n <= k /\ n <= Len(w.log)
            BY <3>3, <3>4
        <3> QED
            BY <2>3, <3>1, <3>4, <3>5, SettledPrefix
    <2>9. ClosedOK(d)'
        BY <1>1, <2>1, <2>6, <2>8 DEF ClosedOK
    <2> QED
        BY <2>7, <2>9
<1> QED
    BY <1>1, <1>2 DEF AInv

\* Empty journals and no handles.
LEMMA InitAccounts ==
    ASSUME Init
    PROVE  AInv
<1>1. closed = {} /\ \A c \in Conns : journals[c] = NoJournal /\ handles[c] = NoHandle
    BY DEF Init
<1>2. PICK m : m = markers
    OBVIOUS
<1>3. LogOK(m, <<>>)
    BY EmptyOK
<1>4. NoJournal.log = <<>> /\ ~Live(NoHandle)
    BY DEF NoJournal, Live, NoHandle
<1>5. \A c \in Conns : Accounted(c)
    BY <1>1, <1>2, <1>3, <1>4 DEF Accounted, Books
<1>6. \A c \in Conns : ClosedOK(c)
    BY <1>1 DEF ClosedOK
<1> QED
    BY <1>1, <1>5, <1>6 DEF AInv

\* Every step keeps the accounts.
LEMMA NextAccounts ==
    ASSUME IInv, IInv', AInv, Next
    PROVE  AInv'
<1>1. ASSUME NEW c \in Conns, Lifecycle(c) PROVE AInv'
    <2>1. CASE EnsureLive(c)
        BY <2>1, EnsureLiveAccounts
    <2>2. CASE Create(c)
        BY <2>2, CreateAccounts
    <2>3. CASE CreateRejected(c)
        BY <2>3, CreateRejectedAccounts
    <2>4. CASE Refuse(c) \/ AbortConnection(c)
        BY <2>4, BurnedAccounts
    <2>5. CASE DropHandle(c) \/ Kill(c)
        BY <2>5, DropKillAccounts
    <2> QED
        BY <1>1, <2>1, <2>2, <2>3, <2>4, <2>5 DEF Lifecycle
<1>2. ASSUME NEW c \in Conns, StageCall(c) PROVE AInv'
    <2>1. CASE Activate(c)
        BY <2>1, ActivateAccounts
    <2>2. ASSUME NEW s \in Stages, NEW n \in Sizes, RegisterStage(c, s, n) PROVE AInv'
        BY <2>2, RegisterStageAccounts
    <2>3. ASSUME NEW s \in Stages, NEW source \in Stages, NEW n \in Counts, NEW m \in Sizes,
                 RegisterRefill(c, source, s, n, m)
          PROVE  AInv'
        BY <2>3, RegisterRefillAccounts
    <2>4. ASSUME NEW s \in Stages, NEW n \in Counts, ReserveAsBase(c, s, n) PROVE AInv'
        BY <2>4, ReserveAsBaseAccounts
    <2>5. ASSUME NEW s \in Stages, NEW n \in Counts, BurnStageOutput(c, s, n) PROVE AInv'
        BY <2>5, BurnStageOutputAccounts
    <2> QED
        BY <1>2, <2>1, <2>2, <2>3, <2>4, <2>5 DEF StageCall
<1>3. ASSUME NEW c \in Conns, ResponseCall(c) PROVE AInv'
    <2>1. ASSUME NEW b \in Bindings, BeginResponse(c, b) PROVE AInv'
        BY <2>1, BeginResponseAccounts
    <2>2. ASSUME NEW b \in Bindings, BeginResponseDenied(c, b) PROVE AInv'
        BY <2>2, BeginResponseDeniedAccounts
    <2>3. ASSUME NEW s \in Stages, NEW n \in Counts, NEW tag \in Tags, Allocate(c, s, n, tag)
          PROVE  AInv'
        BY <2>3, AllocateAccounts
    <2>4. CASE RecordFrame(c)
        BY <2>4, RecordFrameAccounts
    <2>5. ASSUME NEW kind \in {"RESPONSE_SUCCESS", "RESPONSE_ABORT"}, FinishResponse(c, kind)
          PROVE  AInv'
        BY <2>5, FinishResponseAccounts
    <2> QED
        BY <1>3, <2>1, <2>2, <2>3, <2>4, <2>5 DEF ResponseCall
<1>4. ASSUME NEW c \in Conns, SettlementCall(c) PROVE AInv'
    <2>1. ASSUME NEW n \in Claims, FreezeClaims(c, n) PROVE AInv'
        BY <2>1, FreezeClaimsAccounts
    <2>2. ASSUME NEW n \in Claims, SealSettlement(c, n) PROVE AInv'
        BY <2>2, SealSettlementAccounts
    <2>3. ASSUME NEW e \in 1..MaxEpoch, NEW s \in Seeds, NEW x \in Expected,
                 ReserveSettlement(c, e, s, x)
          PROVE  AInv'
        BY <2>3, ReservationAccounts
    <2>4. ASSUME NEW receipt \in receipts, RecordFreshness(c, receipt) PROVE AInv'
        BY <2>4, RecordFreshnessAccounts
    <2>5. ASSUME NEW s \in Stages, NEW n \in Counts, NEW tag \in Tags,
                 AllocateSettlement(c, s, n, tag)
          PROVE  AInv'
        BY <2>5, AllocateSettlementAccounts
    <2>6. CASE SettlementSuccess(c)
        BY <2>6, SettlementSuccessAccounts
    <2>7. CASE SettlementFailure(c)
        BY <2>7, SettlementFailureAccounts
    <2>8. CASE CloseSettled(c)
        BY <2>8, CloseSettledAccounts
    <2> QED
        BY <1>4, <2>1, <2>2, <2>3, <2>4, <2>5, <2>6, <2>7, <2>8 DEF SettlementCall
<1>5. ASSUME NEW b \in Bindings, ExpandPhaseB(b) PROVE AInv'
    BY <1>5, ReservationAccounts
<1>6. CASE OpenStore
    BY <1>6, OpenStoreAccounts
<1>7. CASE PowerLoss
    BY <1>7, PowerLossAccounts
<1> QED
    BY <1>1, <1>2, <1>3, <1>4, <1>5, <1>6, <1>7 DEF Next

\* Stuttering changes no account.
LEMMA StutterAccounts ==
    ASSUME IInv, IInv', AInv, UNCHANGED vars
    PROVE  AInv'
<1>1. AuthKept /\ UNCHANGED <<journals, handles, history>>
    BY AuthUnchanged DEF vars, connVars
<1> QED
    BY <1>1, BurnStoreAccounts

\* The journals keep their accounts, and live handles agree with them, for any
\* number of connections, stages, keys and faults.
THEOREM AccountsInvariant == Spec => []AInv
<1>1. Init => AInv
    BY InitAccounts
<1>2. AInv /\ IInv /\ IInv' /\ [Next]_vars => AInv'
    BY NextAccounts, StutterAccounts
<1> QED
    BY <1>1, <1>2, ConnectionInvariant, PTL DEF Spec

-----------------------------------------------------------------------------
(* What the accounts say *)

\* The sums the properties speak of are those of the accounts.
LEMMA TotalIs ==
    ASSUME IInv, NEW c \in Conns, NEW log, log = journals[c].log
    PROVE  /\ log \in Seq(Record) /\ Len(log) \in Nat /\ \A i \in 1..Len(log) : log[i] \in Record
           /\ \A K : Records(c, K) = {i \in 1..Len(log) : log[i].kind \in K}
           /\ \A K, v : OfStage(c, K, v) = In(log, Len(log), StageRecs(K, v))
           /\ \A K, v : OfKey(c, K, v) = In(log, Len(log), KeyRecs(K, v))
           /\ \A I : Total(c, I) = SumFunctionOnSet(Amounts(log), I)
<1>1. log \in Seq(Record)
    BY DEF IInv, Types, Journal
<1>2. Len(log) \in Nat /\ DOMAIN log = 1..Len(log) /\ \A i \in 1..Len(log) : log[i] \in Record
    BY <1>1, LenProperties, ElementOfSeq
<1>3. \A K : Records(c, K) = {i \in 1..Len(log) : log[i].kind \in K}
    BY <1>2 DEF Records
<1>4. \A K, v : OfStage(c, K, v) = In(log, Len(log), StageRecs(K, v))
    BY <1>2, <1>3, Members DEF OfStage, In
<1>5. \A K, v : OfKey(c, K, v) = In(log, Len(log), KeyRecs(K, v))
    BY <1>2, <1>3, Members DEF OfKey, In
<1>6. \A I : Total(c, I) = SumFunctionOnSet(Amounts(log), I)
    BY DEF Total, Amounts
<1> QED
    BY <1>1, <1>2, <1>3, <1>4, <1>5, <1>6

\* What nothing behind record i is counted in is complete before it.
LEMMA AccountEnds ==
    ASSUME NEW log \in Seq(Record), NEW n \in Nat, n <= Len(log), NEW R,
           \A i \in (n + 1)..Len(log) : log[i] \notin R
    PROVE  In(log, n, R) = In(log, Len(log), R)
<1>1. Len(log) \in Nat
    BY LenProperties
<1> QED
    BY <1>1 DEF In

\* The counters of a live handle are the sums of its journal, add up, and
\* refills took no more than was reserved (reconciled, register_refill_stage).
THEOREM LedgerAgreesAlways == Spec => []LedgerAgrees
<1>1. ASSUME IInv, AInv PROVE LedgerAgrees
    <2>1. SUFFICES ASSUME NEW c \in Conns, NEW s \in Stages
          PROVE  LET p == handles[c].stages[s]
                 IN  /\ p.consumed + p.reserved + p.burned + p.available = p.generated
                     /\ handles[c].state \in {"open", "active"} =>
                           /\ p.generated = Total(c, OfStage(c, {"STAGE"}, s))
                           /\ p.consumed
                                 = Total(c, OfStage(c, {"ALLOCATE", "SETTLEMENT_ALLOCATE"}, s))
                           /\ p.reserved = Total(c, OfStage(c, {"RESERVED_AS_BASE"}, s))
                           /\ p.burned = Total(c, OfStage(c, {"STAGE_OUTPUT_BURN"}, s))
                     /\ Total(c, OfStage(c, {"BASE_INPUTS_CONSUMED"}, s))
                           <= Total(c, OfStage(c, {"RESERVED_AS_BASE"}, s))
        BY DEF LedgerAgrees
    <2>2. PICK log : log = journals[c].log
        OBVIOUS
    <2>3. Len(log) \in 0..Len(log)
        BY <1>1, <2>2, TotalIs
    <2>4. \A K : Total(c, OfStage(c, K, s)) = SumIn(log, Len(log), StageRecs(K, s))
        BY <1>1, <2>2, TotalIs DEF SumIn
    <2>5. Balanced(handles[c])
        BY <1>1 DEF IInv
    <2>6. LogOK(markers, log) /\ (Live(handles[c]) => Agrees(handles[c], log))
        BY <1>1, <2>2 DEF AInv, Accounted, Books
    <2>7. Total(c, OfStage(c, {"BASE_INPUTS_CONSUMED"}, s))
             <= Total(c, OfStage(c, {"RESERVED_AS_BASE"}, s))
        BY <2>3, <2>4, <2>6 DEF LogOK, RefillsLegal
    <2> QED
        BY <2>4, <2>5, <2>6, <2>7 DEF Balanced, Live, Agrees, StagesAgree
<1> QED
    BY <1>1, ConnectionInvariant, AccountsInvariant, PTL

\* A response or settlement says it cost what was allocated to it, and nothing
\* is allocated to it afterwards; a settlement was sealed, then recorded fresh,
\* and paid its price (finish_response, finish_x4d_settlement_success).
THEOREM AccountsExactAlways == Spec => []AccountsExact
<1>1. ASSUME IInv, AInv PROVE AccountsExact
    <2>1. SUFFICES ASSUME NEW c \in Conns, NEW log, log = journals[c].log
          PROVE  /\ \A i \in Records(c, {"RESPONSE_SUCCESS", "RESPONSE_ABORT"}) :
                       /\ log[i].count = Total(c, OfKey(c, {"ALLOCATE"}, log[i].key))
                       /\ log[i].start = Cardinality(OfKey(c, {"CHANNEL"}, log[i].key))
                 /\ \A i \in Records(c, {"SETTLEMENT_SUCCESS"}) :
                       /\ log[i].count = Total(c, OfKey(c, {"SETTLEMENT_ALLOCATE"}, log[i].key))
                       /\ \E q \in OfKey(c, {"SETTLEMENT_SEAL"}, log[i].key),
                             f \in OfKey(c, {"SETTLEMENT_FRESHNESS"}, log[i].key) :
                             q < f /\ f < i /\ log[i].count = 2 * log[f].count
        BY DEF AccountsExact
    <2>2. /\ log \in Seq(Record) /\ Len(log) \in Nat /\ \A i \in 1..Len(log) : log[i] \in Record
          /\ \A K : Records(c, K) = {i \in 1..Len(log) : log[i].kind \in K}
          /\ \A K, v : OfKey(c, K, v) = In(log, Len(log), KeyRecs(K, v))
          /\ \A I : Total(c, I) = SumFunctionOnSet(Amounts(log), I)
        BY <1>1, <2>1, TotalIs
    <2>3. LogOK(markers, log)
        BY <1>1, <2>1 DEF AInv, Accounted, Books
    <2>4. ASSUME NEW i \in 1..Len(log), NEW K, NEW v, log[i].kind \notin K,
                 \A m \in (i + 1)..Len(log) : log[m].kind \in K => log[m].key # v
          PROVE  /\ SumIn(log, i - 1, KeyRecs(K, v)) = Total(c, OfKey(c, K, v))
                 /\ NumIn(log, i - 1, KeyRecs(K, v)) = Cardinality(OfKey(c, K, v))
        <3>1. PICK n \in Nat : n = i - 1
            BY <2>2
        <3>1a. PICK R : R = KeyRecs(K, v)
            OBVIOUS
        <3>2. n <= Len(log) /\ \A m \in (n + 1)..Len(log) : m = i \/ m \in (i + 1)..Len(log)
            BY <2>2, <3>1
        <3>3. \A m \in (n + 1)..Len(log) : log[m] \notin R
            BY <2>4, <3>1a, <3>2 DEF KeyRecs
        <3>4. In(log, n, R) = In(log, Len(log), R)
            BY <2>2, <3>2, <3>3, AccountEnds
        <3> QED
            BY <2>2, <3>1, <3>4, <3>1a DEF SumIn, NumIn
    <2>5. ASSUME NEW i \in Records(c, {"RESPONSE_SUCCESS", "RESPONSE_ABORT"})
          PROVE  /\ log[i].count = Total(c, OfKey(c, {"ALLOCATE"}, log[i].key))
                 /\ log[i].start = Cardinality(OfKey(c, {"CHANNEL"}, log[i].key))
        <3>1. i \in 1..Len(log) /\ log[i].kind \in Ends
            BY <2>2 DEF Ends
        <3>2. PICK v : v = log[i].key
            OBVIOUS
        <3>3. /\ log[i].count = SumIn(log, i - 1, KeyRecs({"ALLOCATE"}, v))
              /\ log[i].start = NumIn(log, i - 1, KeyRecs({"CHANNEL"}, v))
              /\ \A m \in (i + 1)..Len(log) :
                    log[m].kind \in {"ALLOCATE", "CHANNEL"} => log[m].key # v
            BY <2>3, <3>1, <3>2 DEF LogOK, ResponsesLegal
        <3>4. log[i].kind \notin {"ALLOCATE"} /\ log[i].kind \notin {"CHANNEL"}
            BY <3>1 DEF Ends
        <3>5. /\ \A m \in (i + 1)..Len(log) : log[m].kind \in {"ALLOCATE"} => log[m].key # v
              /\ \A m \in (i + 1)..Len(log) : log[m].kind \in {"CHANNEL"} => log[m].key # v
            BY <3>3
        <3>6. SumIn(log, i - 1, KeyRecs({"ALLOCATE"}, v)) = Total(c, OfKey(c, {"ALLOCATE"}, v))
            BY <2>4, <3>1, <3>4, <3>5
        <3>7. NumIn(log, i - 1, KeyRecs({"CHANNEL"}, v)) = Cardinality(OfKey(c, {"CHANNEL"}, v))
            BY <2>4, <3>1, <3>4, <3>5
        <3> QED
            BY <3>2, <3>3, <3>6, <3>7
    <2>6. ASSUME NEW i \in Records(c, {"SETTLEMENT_SUCCESS"})
          PROVE  /\ log[i].count = Total(c, OfKey(c, {"SETTLEMENT_ALLOCATE"}, log[i].key))
                 /\ \E q \in OfKey(c, {"SETTLEMENT_SEAL"}, log[i].key),
                       f \in OfKey(c, {"SETTLEMENT_FRESHNESS"}, log[i].key) :
                       q < f /\ f < i /\ log[i].count = 2 * log[f].count
        <3>1. i \in 1..Len(log) /\ log[i].kind = "SETTLEMENT_SUCCESS"
            BY <2>2
        <3>2. PICK v, y : v = log[i].key /\ y = log[i]
            OBVIOUS
        <3>3. /\ Succeeded(log, i - 1, y)
              /\ \A m \in (i + 1)..Len(log) :
                    log[m].kind \in {"SETTLEMENT_ALLOCATE", "SETTLEMENT_SEAL"} => log[m].key # v
            BY <2>3, <3>1, <3>2 DEF LogOK, SettlementsLegal
        <3>4. log[i].kind \notin {"SETTLEMENT_ALLOCATE"}
            BY <3>1
        <3>5. \A m \in (i + 1)..Len(log) : log[m].kind \in {"SETTLEMENT_ALLOCATE"} => log[m].key # v
            BY <3>3
        <3>6. SumIn(log, i - 1, KeyRecs({"SETTLEMENT_ALLOCATE"}, v))
                 = Total(c, OfKey(c, {"SETTLEMENT_ALLOCATE"}, v))
            BY <2>4, <3>1, <3>4, <3>5
        <3>7. PICK q \in 1..(i - 1), f \in 1..(i - 1) :
                 /\ q < f
                 /\ SealedAt(log, q, v, VerifiedAt(log, i - 1), log[q].count)
                 /\ FreshAt(log, f, v, log[f].count)
                 /\ y.count = 2 * log[f].count
            BY <3>2, <3>3 DEF Succeeded
        <3>8. q \in 1..Len(log) /\ f \in 1..Len(log) /\ f < i
            BY <2>2
        <3>9. q \in In(log, Len(log), KeyRecs({"SETTLEMENT_SEAL"}, v))
            BY <2>2, <3>7, <3>8 DEF SealedAt, In, KeyRecs
        <3>10. f \in In(log, Len(log), KeyRecs({"SETTLEMENT_FRESHNESS"}, v))
            BY <2>2, <3>7, <3>8 DEF FreshAt, In, KeyRecs
        <3>11. y.count = SumIn(log, i - 1, KeyRecs({"SETTLEMENT_ALLOCATE"}, v))
            BY <3>2, <3>3 DEF Succeeded
        <3>12. q \in OfKey(c, {"SETTLEMENT_SEAL"}, v) /\ f \in OfKey(c, {"SETTLEMENT_FRESHNESS"}, v)
            BY <2>2, <3>9, <3>10
        <3> QED
            BY <3>2, <3>6, <3>7, <3>8, <3>11, <3>12
    <2> QED
        BY <2>5, <2>6
<1> QED
    BY <1>1, ConnectionInvariant, AccountsInvariant, PTL

\* What the properties call verified is what the accounts call so.
LEMMA VerifiedIs ==
    ASSUME IInv, NEW c \in Conns, NEW log, log = journals[c].log, NEW n \in 0..Len(log)
    PROVE  /\ VerifiedBefore(c, n + 1) = VerifiedAt(log, n)
           /\ Total(c, {f \in Records(c, {"CLAIMS_FROZEN"}) : f < n + 1}) = Frozen(log, n)
<1>1. /\ Len(log) \in Nat /\ \A i \in 1..Len(log) : log[i] \in Record
      /\ \A K : Records(c, K) = {i \in 1..Len(log) : log[i].kind \in K}
      /\ \A I : Total(c, I) = SumFunctionOnSet(Amounts(log), I)
    BY TotalIs
<1>2. \A i : i \in 1..n <=> i \in 1..Len(log) /\ i < n + 1
    BY <1>1
<1>3. {q \in Records(c, {"SETTLEMENT_SUCCESS"}) : q < n + 1}
         = {q \in 1..n : log[q].kind = "SETTLEMENT_SUCCESS"}
    BY <1>1, <1>2
<1>4. VerifiedBefore(c, n + 1) = VerifiedAt(log, n)
    BY <1>3 DEF VerifiedBefore, VerifiedAt
<1>5. {f \in Records(c, {"CLAIMS_FROZEN"}) : f < n + 1} = In(log, n, KindRecs({"CLAIMS_FROZEN"}))
    BY <1>1, <1>2 DEF In, KindRecs
<1> QED
    BY <1>1, <1>4, <1>5 DEF Frozen, SumIn

\* Claims are verified in the order they were frozen, each once, only those
\* frozen when their settlement was sealed, and all of them when a connection is
\* closed (seal_x4d_settlement, close_x4d_after_all_verified).
THEOREM ClaimsVerifiedInOrderAlways == Spec => []ClaimsVerifiedInOrder
<1>1. ASSUME IInv, AInv PROVE ClaimsVerifiedInOrder
    <2>1. ASSUME NEW c \in Conns, NEW log, log = journals[c].log,
                 NEW i \in Records(c, {"SETTLEMENT_SUCCESS"}),
                 NEW q \in OfKey(c, {"SETTLEMENT_SEAL"}, log[i].key)
          PROVE  /\ log[q].start = VerifiedBefore(c, i)
                 /\ log[i].start = log[q].start + log[q].count
                 /\ log[i].start <= Total(c, {f \in Records(c, {"CLAIMS_FROZEN"}) : f < q})
        <3>1. /\ Len(log) \in Nat /\ \A k \in 1..Len(log) : log[k] \in Record
              /\ \A K : Records(c, K) = {k \in 1..Len(log) : log[k].kind \in K}
              /\ \A K, v : OfKey(c, K, v) = In(log, Len(log), KeyRecs(K, v))
            BY <1>1, <2>1, TotalIs
        <3>2. i \in 1..Len(log) /\ log[i].kind = "SETTLEMENT_SUCCESS"
            BY <3>1
        <3>3. PICK v, y : v = log[i].key /\ y = log[i]
            OBVIOUS
        <3>4. q \in 1..Len(log) /\ log[q].kind = "SETTLEMENT_SEAL" /\ log[q].key = v
            BY <3>1, <3>3 DEF In, KeyRecs
        <3>5. SettlementsLegal(log)
            BY <1>1, <2>1 DEF AInv, Accounted, Books, LogOK
        <3>6. Succeeded(log, i - 1, y)
            BY <3>2, <3>3, <3>5 DEF SettlementsLegal
        <3>7. PICK p \in 1..(i - 1) :
                 /\ SealedAt(log, p, v, VerifiedAt(log, i - 1), log[p].count)
                 /\ y.start = log[p].start + log[p].count
            BY <3>3, <3>6 DEF Succeeded
        <3>8. p \in 1..Len(log) /\ log[p].kind = "SETTLEMENT_SEAL" /\ log[p].key = v
            BY <3>1, <3>7 DEF SealedAt
        <3>9. \A k, l \in 1..Len(log) : log[k].kind = "SETTLEMENT_SEAL" /\ log[l].kind = "SETTLEMENT_SEAL"
                                        /\ k < l => log[k].key # log[l].key
            <4>1. SUFFICES ASSUME NEW k \in 1..Len(log), NEW l \in 1..Len(log), k < l,
                                  log[k].kind = "SETTLEMENT_SEAL", log[l].kind = "SETTLEMENT_SEAL"
                           PROVE  log[k].key # log[l].key
                OBVIOUS
            <4>2. k \in 1..(l - 1)
                BY <3>1, <4>1
            <4> QED
                BY <3>5, <4>1, <4>2 DEF SettlementsLegal
        <3>10. p = q
            <4>1. p < q \/ q < p \/ p = q
                BY <3>1, <3>4, <3>8
            <4> QED
                BY <3>4, <3>8, <3>9, <4>1
        <3>11. PICK n \in 0..Len(log), k \in 0..Len(log) : n = i - 1 /\ k = q - 1
            BY <3>1, <3>2, <3>4
        <3>12. n + 1 = i /\ k + 1 = q
            BY <3>1, <3>2, <3>4, <3>11
        <3>13. VerifiedBefore(c, i) = VerifiedAt(log, n)
            BY <1>1, <2>1, <3>12, VerifiedIs
        <3>14. Total(c, {f \in Records(c, {"CLAIMS_FROZEN"}) : f < q}) = Frozen(log, k)
            BY <1>1, <2>1, <3>12, VerifiedIs
        <3>15. log[q].start = VerifiedAt(log, n) /\ log[q].start + log[q].count <= Frozen(log, k)
            BY <3>7, <3>10, <3>11 DEF SealedAt
        <3> QED
            BY <3>3, <3>7, <3>10, <3>13, <3>14, <3>15
    <2>2. ASSUME NEW c \in closed
          PROVE  Total(c, Records(c, {"CLAIMS_FROZEN"}))
                    = VerifiedBefore(c, Len(journals[c].log) + 1)
        <3>1. PICK log : log = journals[c].log
            OBVIOUS
        <3>2. /\ c \in Conns /\ SettledUp(log, journals[c].synced)
              /\ journals[c].synced <= Len(log) /\ journals[c].synced \in Nat
            BY <1>1, <3>1 DEF AInv, ClosedOK, IInv, Types, JournalOK, Journal
        <3>3. /\ log \in Seq(Record) /\ Len(log) \in Nat
              /\ \A k \in 1..Len(log) : log[k] \in Record
              /\ \A K : Records(c, K) = {k \in 1..Len(log) : log[k].kind \in K}
            BY <1>1, <3>1, <3>2, TotalIs
        <3>4. PICK n \in 0..journals[c].synced :
                 /\ Frozen(log, n) = VerifiedAt(log, n)
                 /\ \A i \in (n + 1)..Len(log) :
                       log[i].kind \notin {"CLAIMS_FROZEN", "SETTLEMENT_SUCCESS"}
            BY <3>2 DEF SettledUp
        <3>5. n \in Nat /\ n <= Len(log) /\ Len(log) \in 0..Len(log)
            BY <3>2, <3>3
        <3>6. Frozen(log, n) = Frozen(log, Len(log))
            <4>1. PICK R : R = KindRecs({"CLAIMS_FROZEN"})
                OBVIOUS
            <4>2. \A i \in (n + 1)..Len(log) : log[i] \notin R
                BY <3>4, <4>1 DEF KindRecs
            <4>3. In(log, n, R) = In(log, Len(log), R)
                BY <3>3, <3>5, <4>2, AccountEnds
            <4> QED
                BY <4>1, <4>3 DEF Frozen, SumIn
        <3>7. VerifiedAt(log, n) = VerifiedAt(log, Len(log))
            <4>1. \A i \in 1..Len(log) : i \in 1..n \/ i \in (n + 1)..Len(log)
                BY <3>3, <3>5
            <4>2. {q \in 1..n : log[q].kind = "SETTLEMENT_SUCCESS"}
                     = {q \in 1..Len(log) : log[q].kind = "SETTLEMENT_SUCCESS"}
                BY <3>3, <3>4, <3>5, <4>1
            <4> QED
                BY <4>2 DEF VerifiedAt
        <3>8. /\ VerifiedBefore(c, Len(log) + 1) = VerifiedAt(log, Len(log))
              /\ Total(c, {f \in Records(c, {"CLAIMS_FROZEN"}) : f < Len(log) + 1})
                    = Frozen(log, Len(log))
            BY <1>1, <3>1, <3>2, <3>5, VerifiedIs
        <3>9. {f \in Records(c, {"CLAIMS_FROZEN"}) : f < Len(log) + 1} = Records(c, {"CLAIMS_FROZEN"})
            BY <3>3
        <3> QED
            BY <3>1, <3>4, <3>6, <3>7, <3>8, <3>9
    <2> QED
        BY <2>1, <2>2 DEF ClaimsVerifiedInOrder
<1> QED
    BY <1>1, ConnectionInvariant, AccountsInvariant, PTL

=============================================================================
