---------------------------- MODULE BrokerProofs ----------------------------
(***************************************************************************)
(* Theorems about the interactive broker, for any moves, kinds, artifacts, *)
(* number of lives and bounds.                                             *)
(*                                                                         *)
(* What a broker holds in memory about its journal agrees with the file in *)
(* every fault mode (Agrees), which is enough for TypeOK.  What providers  *)
(* were given agrees with the file only when a process that dies and a     *)
(* loss of power do not meet in one behaviour (FaultsApart): open answers  *)
(* from records that nobody has synced, and only a loss of power takes     *)
(* such a record back.  Where both may happen OneMovePerChallenge is false.*)
(***************************************************************************)
EXTENDS InteractiveBroker, TLAPS, SequenceTheorems, FiniteSetTheorems

\* A behaviour has process deaths and failing syncs, or losses of power.
FaultsApart == \A F \in FaultModes : ~({"process", "power"} \subseteq F)

-----------------------------------------------------------------------------
(* Types *)

ChallengeRec == [tag : {"challenge"}, move : Moves, kind : Kinds]

MaskRec == [tag : {"mask"}, at : Nat, frontier : Nat, digest : Moves]

SealRec == [tag : {"finish"}, at : Nat, payload : Payloads]

Rec == ChallengeRec \cup MaskRec \cup SealRec

Resume == [records : Seq(ChallengeRec), masks : Seq(MaskRec), seal : SealRec \cup {NoSeal}]

Entry == [rec : Rec, after : Resume]

File == [entry : {"none", "unsynced", "synced"}, log : Seq(Entry), synced : Nat,
         torn : BOOLEAN]

Tape == [records : Seq(ChallengeRec), payload : Payloads]

Broker ==
    [ pc : {"off", "idle", "append", "sync", "reply"}, resume : Resume, journal : Resume,
      records : Seq(ChallengeRec), masks : Seq(MaskRec), replayed : Nat,
      mirror : Seq(ChallengeRec), tape : Tape \cup {NoTape}, pending : Rec \cup {NoSeal} ]

Types ==
    /\ mode \in Modes /\ faults \in FaultModes /\ lives \in 0..MaxLives
    /\ file \in File /\ file.synced <= Len(file.log)
    /\ broker \in Broker
    /\ answered \subseteq Seq(ChallengeRec)
    /\ tapes \subseteq Tape

-----------------------------------------------------------------------------
(* The inductive invariant *)

Running == broker.pc # "off"

Appending == broker.pc \in {"append", "sync", "reply"}

LogOK == \A i \in 1..Len(file.log) : Legal(file, i)

BrokerOK ==
    /\ Appending <=> broker.pending # NoSeal
    /\ broker.replayed <= Len(broker.resume.masks)
    /\ lives = 0 => ~Running /\ file = NoFile

\* A running broker's copy of the journal is what the file holds; between write
\* and sync the file is one record ahead, and the record may follow.
CopyOK ==
    Durable /\ Running =>
        /\ file.entry # "none" /\ ~file.torn
        /\ broker.pc # "sync" => broker.journal = ResumeOf(file)
        /\ broker.pc = "sync" =>
              ResumeOf(file) = Extended(broker.journal, Placed(broker.pending))
        /\ broker.pc \in {"append", "sync"} => CanAppend(broker.journal, broker.pending)

\* The challenges of this life are a prefix of the journal's while it replays, and
\* all of them afterwards, but for one that is journaled and not yet given.
ReplayOK ==
    Durable /\ Running =>
        /\ Replaying => /\ broker.journal.records = broker.resume.records
                        /\ IsPrefix(broker.records, broker.resume.records)
                        /\ ~IsChallenge(broker.pending) /\ ~IsSeal(broker.pending)
        /\ ~Replaying =>
              broker.journal.records =
                  IF broker.pc = "reply" /\ IsChallenge(broker.pending)
                  THEN Append(broker.records, broker.pending) ELSE broker.records
        /\ broker.tape = NoTape

\* The journal's seal is the one the broker resumed from, or the pending one.
SealOK ==
    Durable /\ Running =>
        /\ broker.resume.seal # NoSeal => broker.journal.seal = broker.resume.seal
        /\ IsSeal(broker.pending) =>
              /\ broker.pending.at = Len(broker.records)
              /\ broker.pc = "reply" => broker.journal.seal = broker.pending

\* Without process deaths all records are synced but the one being appended.
SyncOK ==
    "process" \notin faults /\ broker.pc # "sync" => file.synced = Len(file.log)

\* A duplex attempt has one life and no journal; its mirror is never ahead.
DuplexOK ==
    ~Durable =>
        /\ file = NoFile
        /\ broker.pc \in {"off", "idle"}
        /\ Running =>
              /\ broker.resume = Fresh
              /\ broker.tape # NoTape =>
                    broker.mirror = broker.tape.records /\ broker.records = <<>>
              /\ broker.tape = NoTape => IsPrefix(broker.mirror, broker.records)

OffOK == ~Running => broker = Off

Agrees ==
    /\ Types /\ LogOK /\ BrokerOK /\ CopyOK /\ ReplayOK /\ SealOK /\ SyncOK
    /\ DuplexOK /\ OffOK

\* The records that no fault of this behaviour takes back.
Kept == IF "power" \in faults THEN file.synced ELSE Len(file.log)

\* Every file that may be found has all challenges that were given and the
\* outcome that was handed out.
GivenOK ==
    Durable /\ file.entry # "none" =>
        \A n \in Kept..Len(file.log) :
            /\ \A g \in answered : IsPrefix(g, ResumeAt(file, n).records)
            /\ \A t \in tapes :
                  /\ t.records = ResumeAt(file, n).records
                  /\ ResumeAt(file, n).seal = Seal(Len(t.records), t.payload)

\* What a duplex provider was given are the challenges of the one life.
DuplexGivenOK ==
    ~Durable /\ Running =>
        /\ tapes = {}
        /\ broker.tape = NoTape => \A g \in answered : IsPrefix(g, broker.records)

OneTape == \A s, t \in tapes : s = t

NothingGiven == lives = 0 => answered = {} /\ tapes = {}

Released ==
    GivenOK /\ DuplexGivenOK /\ OneMovePerChallenge /\ OneTape /\ NothingGiven

-----------------------------------------------------------------------------
(* Prefixes *)

\* IsPrefix compares sequences position by position.
LEMMA PrefixMeaning ==
    ASSUME NEW S, NEW s \in Seq(S), NEW t \in Seq(S)
    PROVE  IsPrefix(s, t) <=> Len(s) <= Len(t) /\ \A i \in 1..Len(s) : s[i] = t[i]
<1>1. CASE Len(s) <= Len(t)
    <2>1. /\ SubSeq(s, 1, Len(s)) \in Seq(S) /\ Len(SubSeq(s, 1, Len(s))) = Len(s)
          /\ \A i \in 1..Len(s) : SubSeq(s, 1, Len(s))[i] = s[i]
        OBVIOUS
    <2>2. /\ SubSeq(t, 1, Len(s)) \in Seq(S) /\ Len(SubSeq(t, 1, Len(s))) = Len(s)
          /\ \A i \in 1..Len(s) : SubSeq(t, 1, Len(s))[i] = t[i]
        BY <1>1
    <2> QED BY <2>1, <2>2, <1>1, SeqEqual DEF IsPrefix
<1>2. CASE ~(Len(s) <= Len(t))
    BY <1>2 DEF IsPrefix
<1> QED BY <1>1, <1>2

\* Two prefixes of one sequence are comparable.
LEMMA PrefixesComparable ==
    ASSUME NEW S, NEW g \in Seq(S), NEW h \in Seq(S), NEW t \in Seq(S),
           IsPrefix(g, t), IsPrefix(h, t)
    PROVE  IsPrefix(g, h) \/ IsPrefix(h, g)
BY PrefixMeaning

\* A prefix stays one when the sequence grows.
LEMMA PrefixOfAppend ==
    ASSUME NEW S, NEW s \in Seq(S), NEW t \in Seq(S), NEW e \in S, IsPrefix(s, t)
    PROVE  IsPrefix(s, Append(t, e))
<1>0. Append(t, e) \in Seq(S) OBVIOUS
<1>1. PICK u \in Seq(S) : u = Append(t, e) BY <1>0, Zenon
<1>2. Len(u) = Len(t) + 1 /\ \A i \in 1..Len(t) : u[i] = t[i] BY <1>1
<1>3. Len(s) <= Len(t) /\ \A i \in 1..Len(s) : s[i] = t[i] BY PrefixMeaning
<1>4. IsPrefix(s, u) BY <1>2, <1>3, PrefixMeaning
<1> QED BY <1>1, <1>4

\* A sequence is a prefix of itself.
LEMMA PrefixOfItself ==
    ASSUME NEW S, NEW s \in Seq(S)
    PROVE  IsPrefix(s, s)
BY DEF IsPrefix

\* The next element of the longer sequence makes the prefix longer.
LEMMA PrefixNext ==
    ASSUME NEW S, NEW s \in Seq(S), NEW t \in Seq(S), IsPrefix(s, t), Len(s) < Len(t)
    PROVE  IsPrefix(Append(s, t[Len(s) + 1]), t)
<1>1. Len(s) \in Nat /\ Len(t) \in Nat /\ Len(s) + 1 \in 1..Len(t) OBVIOUS
<1>2. t[Len(s) + 1] \in S BY <1>1
<1>3. PICK e \in S : e = t[Len(s) + 1] BY <1>2
<1>0. Append(s, e) \in Seq(S) OBVIOUS
<1>4. PICK u \in Seq(S) : u = Append(s, e) BY <1>0, Zenon
<1>5. \A i \in 1..Len(s) : s[i] = t[i] BY PrefixMeaning
<1>6. Len(u) = Len(s) + 1 /\ \A i \in 1..Len(u) : u[i] = t[i] BY <1>3, <1>4, <1>5
<1>7. IsPrefix(u, t) BY <1>1, <1>6, PrefixMeaning
<1> QED BY <1>3, <1>4, <1>7

\* A prefix of full length is the sequence.
LEMMA PrefixFull ==
    ASSUME NEW S, NEW s \in Seq(S), NEW t \in Seq(S), IsPrefix(s, t), Len(s) >= Len(t)
    PROVE  s = t
BY PrefixMeaning, SeqEqual

-----------------------------------------------------------------------------
(* The journal *)

\* The records of the three kinds.
LEMMA RecTypes ==
    /\ \A m \in Moves, k \in Kinds : Challenge(m, k) \in ChallengeRec
    /\ \A n \in Nat, f \in Nat, d \in Moves : MaskEvent(n, f, d) \in MaskRec
    /\ \A n \in Nat, p \in Payloads : Seal(n, p) \in SealRec
BY DEF Challenge, MaskEvent, Seal, ChallengeRec, MaskRec, SealRec

\* A record is of one kind, which its tag tells.
LEMMA RecKinds ==
    ASSUME NEW r \in Rec
    PROVE  /\ IsChallenge(r) \/ IsMask(r) \/ IsSeal(r)
           /\ IsChallenge(r) => r \in ChallengeRec /\ ~IsMask(r) /\ ~IsSeal(r)
           /\ IsMask(r) => r \in MaskRec /\ ~IsChallenge(r) /\ ~IsSeal(r)
           /\ IsSeal(r) => r \in SealRec /\ ~IsChallenge(r) /\ ~IsMask(r)
           /\ r # NoSeal
BY DEF Rec, ChallengeRec, MaskRec, SealRec, IsChallenge, IsMask, IsSeal, NoSeal

\* The absent record is of no kind.
LEMMA NoSealKind == ~IsChallenge(NoSeal) /\ ~IsMask(NoSeal) /\ ~IsSeal(NoSeal)
BY DEF NoSeal, IsChallenge, IsMask, IsSeal

\* The start of a journal and of a broker.
LEMMA StartTypes ==
    /\ Fresh \in Resume /\ NoFile \in File /\ NewFile \in File /\ Off \in Broker
    /\ [NewFile EXCEPT !.entry = "unsynced"] \in File
<1>1. Fresh \in Resume BY DEF Fresh, Resume, NoSeal
<1>2. NoFile \in File /\ NewFile \in File /\ [NewFile EXCEPT !.entry = "unsynced"] \in File
    <2>1. <<>> \in Seq(Entry) OBVIOUS
    <2> QED BY <2>1 DEF NoFile, NewFile, File
<1>3. Off \in Broker BY <1>1 DEF Off, Broker
<1> QED BY <1>1, <1>2, <1>3

\* What one more record does to the resume state, kind by kind.
LEMMA ExtendedFacts ==
    ASSUME NEW u \in Resume, NEW r \in Rec
    PROVE  /\ Extended(u, r) \in Resume
           /\ IsChallenge(r) => /\ Extended(u, r).records = Append(u.records, r)
                                /\ Extended(u, r).masks = u.masks
                                /\ Extended(u, r).seal = u.seal
           /\ IsMask(r) => /\ Extended(u, r).records = u.records
                           /\ Extended(u, r).masks = Append(u.masks, r)
                           /\ Extended(u, r).seal = u.seal
           /\ IsSeal(r) => /\ Extended(u, r).records = u.records
                           /\ Extended(u, r).masks = u.masks
                           /\ Extended(u, r).seal = r
<1>1. u = [records |-> u.records, masks |-> u.masks, seal |-> u.seal]
      /\ u.records \in Seq(ChallengeRec) /\ u.masks \in Seq(MaskRec)
      /\ u.seal \in SealRec \cup {NoSeal}
    BY DEF Resume
<1>2. CASE IsChallenge(r)
    <2>1. r \in ChallengeRec /\ Append(u.records, r) \in Seq(ChallengeRec) BY <1>1, <1>2, RecKinds
    <2>2. Extended(u, r) = [u EXCEPT !.records = Append(u.records, r)]
        BY <1>2, RecKinds DEF Extended
    <2> QED BY <1>1, <1>2, <2>1, <2>2, RecKinds DEF Resume
<1>3. CASE IsMask(r)
    <2>1. r \in MaskRec /\ Append(u.masks, r) \in Seq(MaskRec) BY <1>1, <1>3, RecKinds
    <2>2. Extended(u, r) = [u EXCEPT !.masks = Append(u.masks, r)]
        BY <1>3, RecKinds DEF Extended
    <2> QED BY <1>1, <1>3, <2>1, <2>2, RecKinds DEF Resume
<1>4. CASE IsSeal(r)
    <2>1. r \in SealRec BY <1>4, RecKinds
    <2>2. Extended(u, r) = [u EXCEPT !.seal = r]
        BY <1>4, RecKinds DEF Extended
    <2> QED BY <1>1, <1>4, <2>1, <2>2, RecKinds DEF Resume
<1> QED BY <1>2, <1>3, <1>4, RecKinds

\* Every place of a file has a resume state.
LEMMA ResumeType ==
    ASSUME NEW f \in File, NEW n \in 0..Len(f.log)
    PROVE  ResumeAt(f, n) \in Resume
<1>1. f.log \in Seq(Entry) /\ (n # 0 => f.log[n] \in Entry) BY DEF File
<1> QED BY <1>1, StartTypes DEF ResumeAt, Entry

\* A write adds one place to the file and leaves the others alone.
LEMMA WrittenFacts ==
    ASSUME NEW f \in File, NEW r \in Rec
    PROVE  /\ Written(f, r) \in File
           /\ Written(f, r).entry = f.entry /\ Written(f, r).torn = f.torn
           /\ Written(f, r).synced = f.synced
           /\ Len(f.log) \in Nat /\ Len(Written(f, r).log) = Len(f.log) + 1
           /\ \A i \in 1..Len(f.log) : Written(f, r).log[i] = f.log[i]
           /\ Written(f, r).log[Len(f.log) + 1].rec = r
           /\ \A n \in 0..Len(f.log) : ResumeAt(Written(f, r), n) = ResumeAt(f, n)
           /\ ResumeOf(Written(f, r)) = Extended(ResumeOf(f), r)
           /\ ResumeAt(Written(f, r), Len(f.log) + 1) = Extended(ResumeOf(f), r)
<1>1. f.log \in Seq(Entry) /\ Len(f.log) \in Nat BY DEF File
<1>2. ResumeOf(f) \in Resume BY <1>1, ResumeType DEF ResumeOf
<1>3. PICK e : e = [rec |-> r, after |-> Extended(ResumeOf(f), r)] OBVIOUS
<1>4. e \in Entry /\ e.rec = r /\ e.after = Extended(ResumeOf(f), r)
    BY <1>2, <1>3, ExtendedFacts DEF Entry
<1>5. Written(f, r) = [f EXCEPT !.log = Append(f.log, e)] BY <1>3 DEF Written
<1>6. /\ Append(f.log, e) \in Seq(Entry) /\ Len(Append(f.log, e)) = Len(f.log) + 1
      /\ \A i \in 1..Len(f.log) : Append(f.log, e)[i] = f.log[i]
      /\ Append(f.log, e)[Len(f.log) + 1] = e
    BY <1>1, <1>4
<1>7. /\ Written(f, r) \in File /\ Written(f, r).log = Append(f.log, e)
      /\ Written(f, r).entry = f.entry /\ Written(f, r).torn = f.torn
      /\ Written(f, r).synced = f.synced
    BY <1>5, <1>6 DEF File
<1>8. \A n \in 0..Len(f.log) : ResumeAt(Written(f, r), n) = ResumeAt(f, n)
    BY <1>1, <1>6, <1>7 DEF ResumeAt
<1>9. ResumeAt(Written(f, r), Len(f.log) + 1) = Extended(ResumeOf(f), r)
    BY <1>1, <1>4, <1>6, <1>7 DEF ResumeAt
<1> QED BY <1>1, <1>4, <1>6, <1>7, <1>8, <1>9 DEF ResumeOf

\* Whether a record is legal depends on it and on what was read before it.
LEMMA LegalSame ==
    ASSUME NEW f, NEW g, NEW i, g.log[i] = f.log[i],
           ResumeAt(g, i - 1) = ResumeAt(f, i - 1), Legal(f, i)
    PROVE  Legal(g, i)
BY DEF Legal

\* A journal that append may extend stays legal.
LEMMA WrittenLegal ==
    ASSUME NEW f \in File, NEW r \in Rec, \A i \in 1..Len(f.log) : Legal(f, i),
           CanAppend(ResumeOf(f), r),
           ~IsChallenge(r) => r.at = Len(ResumeOf(f).records)
    PROVE  \A i \in 1..Len(Written(f, r).log) : Legal(Written(f, r), i)
<1>1. PICK g : g = Written(f, r) OBVIOUS
<1>2. /\ Len(f.log) \in Nat /\ Len(g.log) = Len(f.log) + 1
      /\ \A i \in 1..Len(f.log) : g.log[i] = f.log[i]
      /\ g.log[Len(f.log) + 1].rec = r
      /\ \A n \in 0..Len(f.log) : ResumeAt(g, n) = ResumeAt(f, n)
    BY <1>1, WrittenFacts
<1>3. ASSUME NEW i \in 1..Len(f.log) PROVE Legal(g, i)
    <2>1. i - 1 \in 0..Len(f.log) BY <1>2
    <2> QED BY <1>2, <2>1, LegalSame
<1>4. Legal(g, Len(f.log) + 1)
    <2>1. ResumeAt(g, (Len(f.log) + 1) - 1) = ResumeOf(f) BY <1>2 DEF ResumeOf
    <2>2. /\ IsMask(r) => ~IsChallenge(r)
          /\ IsSeal(r) => ~IsChallenge(r)
        BY RecKinds
    <2> QED BY <1>2, <2>1, <2>2 DEF Legal, CanAppend
<1>5. \A i \in 1..Len(g.log) : i \in 1..Len(f.log) \/ i = Len(f.log) + 1 BY <1>2
<1> QED BY <1>1, <1>3, <1>4, <1>5

\* What a loss of power leaves of a file.
Remains(f, g, n) ==
    /\ g \in File /\ g.entry = f.entry /\ g.synced = n /\ Len(g.log) = n
    /\ \A i \in 1..n : g.log[i] = f.log[i]
    /\ \A i \in 0..n : ResumeAt(g, i) = ResumeAt(f, i)

\* A loss of power keeps a part of the file that has the synced records, or takes
\* a file away whose directory entry was not synced.
LEMMA SurvivorFacts ==
    ASSUME NEW f \in File, f.synced <= Len(f.log), NEW g \in Survivors(f)
    PROVE  g = NoFile \/ \E n \in f.synced..Len(f.log) : Remains(f, g, n)
<1>1. SUFFICES ASSUME g # NoFile
               PROVE  \E n \in f.synced..Len(f.log) : Remains(f, g, n)
    OBVIOUS
<1>2. f.log \in Seq(Entry) /\ f.synced \in Nat /\ Len(f.log) \in Nat BY DEF File
<1>3. PICK n \in f.synced..Len(f.log), t \in BOOLEAN :
          g = [f EXCEPT !.log = SubSeq(f.log, 1, n), !.synced = n, !.torn = t]
    <2>1. PICK cut \in (f.synced..Len(f.log)) \X BOOLEAN :
              g = [f EXCEPT !.log = SubSeq(@, 1, cut[1]), !.synced = cut[1], !.torn = cut[2]]
        BY <1>1 DEF Survivors
    <2>2. cut[1] \in f.synced..Len(f.log) /\ cut[2] \in BOOLEAN OBVIOUS
    <2> QED BY <2>1, <2>2
<1>4. n \in Nat /\ n <= Len(f.log) BY <1>2
<1>5. PICK u : u = SubSeq(f.log, 1, n) OBVIOUS
<1>6. u \in Seq(Entry) /\ Len(u) = n /\ \A i \in 1..n : u[i] = f.log[i]
    BY <1>2, <1>4, <1>5
<1>7. g \in File /\ g.log = u /\ g.synced = n /\ g.entry = f.entry
    BY <1>3, <1>4, <1>5, <1>6 DEF File
<1>8. \A i \in 0..n : ResumeAt(g, i) = ResumeAt(f, i)
    BY <1>4, <1>6, <1>7 DEF ResumeAt
<1>9. Remains(f, g, n) BY <1>6, <1>7, <1>8 DEF Remains
<1> QED BY <1>9

\* What remains of a legal journal is legal.
LEMMA RemainsLegal ==
    ASSUME NEW f, NEW g, NEW n \in Nat, n <= Len(f.log), Len(f.log) \in Nat, Remains(f, g, n),
           \A i \in 1..Len(f.log) : Legal(f, i)
    PROVE  \A i \in 1..Len(g.log) : Legal(g, i)
<1>1. SUFFICES ASSUME NEW i \in 1..n PROVE Legal(g, i)
    BY DEF Remains
<1>2. i \in 1..Len(f.log) /\ i - 1 \in 0..n OBVIOUS
<1> QED BY <1>1, <1>2, LegalSame DEF Remains

-----------------------------------------------------------------------------
(* The broker *)

\* What a broker holds once a challenge or a mask event was answered.
Idle(b, c) ==
    /\ c \in Broker /\ c.pc = "idle" /\ c.pending = NoSeal
    /\ c.resume = b.resume /\ c.journal = b.journal
    /\ c.replayed = b.replayed /\ c.mirror = b.mirror /\ c.tape = b.tape

\* Answering a challenge adds it to the broker's challenges and changes nothing else.
LEMMA AnsweredChallenge ==
    ASSUME NEW b \in Broker, NEW r \in ChallengeRec
    PROVE  /\ Idle(b, Answered(b, r))
           /\ Answered(b, r).records = Append(b.records, r)
<1>1. IsChallenge(r) /\ ~IsMask(r) /\ ~IsSeal(r) BY RecKinds DEF Rec, ChallengeRec, IsChallenge
<1>2. PICK u : u = Append(b.records, r) OBVIOUS
<1>3. u \in Seq(ChallengeRec) BY <1>2 DEF Broker
<1>4. Answered(b, r) = [b EXCEPT !.pc = "idle", !.pending = NoSeal, !.records = u]
    BY <1>1, <1>2 DEF Answered, Broker
<1> QED BY <1>2, <1>3, <1>4 DEF Broker, Idle

\* Answering a mask event adds it to the broker's mask events.
LEMMA AnsweredMask ==
    ASSUME NEW b \in Broker, NEW r \in MaskRec
    PROVE  /\ Idle(b, Answered(b, r))
           /\ Answered(b, r).records = b.records
<1>1. IsMask(r) /\ ~IsChallenge(r) /\ ~IsSeal(r) BY RecKinds DEF Rec, MaskRec, IsMask
<1>2. PICK u : u = Append(b.masks, r) OBVIOUS
<1>3. u \in Seq(MaskRec) BY <1>2 DEF Broker
<1>4. Answered(b, r) = [b EXCEPT !.pc = "idle", !.pending = NoSeal, !.masks = u]
    BY <1>1, <1>2 DEF Answered, Broker
<1> QED BY <1>2, <1>3, <1>4 DEF Broker, Idle

\* A duplex broker that has answered the finish holds a tape for the mirror.
LEMMA AnsweredFinish ==
    ASSUME NEW b \in Broker, NEW r \in SealRec, ~Durable
    PROVE  LET c == Answered(b, r)
           IN  /\ c \in Broker /\ c.pc = "idle" /\ c.pending = NoSeal
               /\ c.resume = b.resume /\ c.replayed = b.replayed /\ c.mirror = b.mirror
               /\ c.tape = [records |-> b.records, payload |-> r.payload]
               /\ c.records = <<>>
<1>1. IsSeal(r) /\ ~IsChallenge(r) /\ ~IsMask(r) BY RecKinds DEF Rec, SealRec, IsSeal
<1>2. PICK t : t = [records |-> b.records, payload |-> r.payload] OBVIOUS
<1>3. t \in Tape BY <1>2 DEF Broker, Tape, SealRec
<1>4. Answered(b, r) =
          [b EXCEPT !.pc = "idle", !.pending = NoSeal, !.tape = t, !.records = <<>>]
    BY <1>1, <1>2 DEF Answered, Broker
<1>5. <<>> \in Seq(ChallengeRec) OBVIOUS
<1> QED BY <1>2, <1>3, <1>4, <1>5 DEF Broker

\* The journal's place for a record changes neither its kind nor its content.
LEMMA PlacedFacts ==
    ASSUME broker \in Broker, NEW r \in Rec
    PROVE  /\ Placed(r) \in Rec
           /\ IsChallenge(r) => Placed(r) = r
           /\ IsMask(r) => IsMask(Placed(r))
           /\ IsSeal(r) => IsSeal(Placed(r)) /\ Placed(r).payload = r.payload
           /\ IsSeal(r) /\ r.at = Len(broker.journal.records) => Placed(r) = r
           /\ ~IsChallenge(Placed(r)) => Placed(r).at = Len(broker.journal.records)
           /\ CanAppend(broker.journal, r) => CanAppend(broker.journal, Placed(r))
<1>1. broker.journal.records \in Seq(ChallengeRec) /\ Len(broker.journal.records) \in Nat
    BY DEF Broker, Resume
<1>2. CASE IsChallenge(r)
    BY <1>2, RecKinds DEF Placed
<1>3. CASE IsMask(r)
    <2>1. r \in MaskRec /\ Placed(r) = [r EXCEPT !.at = Len(broker.journal.records)]
        BY <1>3, RecKinds DEF Placed
    <2>2. Placed(r) \in MaskRec /\ Placed(r).frontier = r.frontier
          /\ Placed(r).at = Len(broker.journal.records)
        BY <1>1, <2>1 DEF MaskRec
    <2>3. IsMask(Placed(r)) /\ Placed(r) \in Rec BY <2>2 DEF MaskRec, IsMask, Rec
    <2> QED BY <1>3, <2>2, <2>3, RecKinds DEF CanAppend
<1>4. CASE IsSeal(r)
    <2>1. r \in SealRec /\ Placed(r) = [r EXCEPT !.at = Len(broker.journal.records)]
        BY <1>4, RecKinds DEF Placed
    <2>2. Placed(r) \in SealRec /\ Placed(r).payload = r.payload
          /\ Placed(r).at = Len(broker.journal.records)
          /\ (r.at = Len(broker.journal.records) => Placed(r) = r)
        BY <1>1, <2>1 DEF SealRec
    <2>3. IsSeal(Placed(r)) /\ Placed(r) \in Rec BY <2>2 DEF SealRec, IsSeal, Rec
    <2> QED BY <1>4, <2>2, <2>3, RecKinds DEF CanAppend
<1> QED BY <1>2, <1>3, <1>4, RecKinds

-----------------------------------------------------------------------------
(* Memory and file agree *)

\* A broker that ends leaves a file that agrees with it.
LEMMA EndsAgrees ==
    ASSUME Agrees, Ends, UNCHANGED <<mode, faults, lives>>,
           file' \in File, file'.synced <= Len(file'.log),
           \A i \in 1..Len(file'.log) : Legal(file', i),
           ~Durable \/ lives = 0 => file' = NoFile,
           "process" \notin faults => file'.synced = Len(file'.log),
           answered' \subseteq Seq(ChallengeRec), tapes' \subseteq Tape
    PROVE  Agrees'
<1>1. broker' = Off /\ Off.pc = "off" /\ Off.pending = NoSeal /\ Off.resume = Fresh
      /\ Off.replayed = 0 /\ Off.tape = NoTape /\ Fresh.masks = <<>>
    BY DEF Ends, Off, Fresh
<1>2. ~Running' /\ ~Appending' BY <1>1 DEF Running, Appending
<1>3. Types' BY <1>1, StartTypes DEF Agrees, Types
<1>4. LogOK' BY DEF LogOK
<1>5. BrokerOK' BY <1>1, <1>2 DEF BrokerOK
<1>6. CopyOK' /\ ReplayOK' /\ SealOK' BY <1>2 DEF CopyOK, ReplayOK, SealOK
<1>7. SyncOK' BY DEF SyncOK
<1>8. DuplexOK' BY <1>1, <1>2 DEF DuplexOK, Durable
<1>9. OffOK' BY <1>1 DEF OffOK
<1> QED BY <1>3, <1>4, <1>5, <1>6, <1>7, <1>8, <1>9 DEF Agrees

\* The same with the file as it was, when no append was waiting for its sync.
LEMMA EndsQuietlyAgrees ==
    ASSUME Agrees, Ends, UNCHANGED <<mode, faults, lives, file>>,
           broker.pc # "sync" \/ "process" \in faults,
           answered' \subseteq Seq(ChallengeRec), tapes' \subseteq Tape
    PROVE  Agrees'
<1>1. /\ file' \in File /\ file'.synced <= Len(file'.log)
      /\ \A i \in 1..Len(file'.log) : Legal(file', i)
    BY DEF Agrees, Types, LogOK
<1>2. ~Durable \/ lives = 0 => file' = NoFile
    BY DEF Agrees, DuplexOK, BrokerOK
<1>3. "process" \notin faults => file'.synced = Len(file'.log)
    BY DEF Agrees, SyncOK
<1> QED BY <1>1, <1>2, <1>3, EndsAgrees

\* A challenge may be given: a replayed one, a journaled one, or one of a duplex attempt.
Due(r) ==
    \/ Durable /\ broker.pc = "idle" /\ Replaying /\ ReplayMatches(r)
    \/ Durable /\ broker.pc = "reply" /\ r = broker.pending
    \/ ~Durable /\ broker.pc = "idle" /\ broker.tape = NoTape

\* A challenge that is due leaves memory and file in agreement.
LEMMA GivesChallengeAgrees ==
    ASSUME Agrees, NEW r \in ChallengeRec, Due(r), Gives(broker, r),
           UNCHANGED <<mode, faults, lives, file>>
    PROVE  Agrees'
<1>1. broker \in Broker /\ IsChallenge(r) /\ ~IsSeal(r)
    BY RecKinds DEF Agrees, Types, Rec, ChallengeRec, IsChallenge
<1>2. Idle(broker, broker') /\ broker'.records = Append(broker.records, r)
    BY <1>1, AnsweredChallenge DEF Gives
<1>3. answered' = answered \cup {Append(broker.records, r)} /\ tapes' = tapes
    BY <1>1 DEF Gives
<1>4. broker.records \in Seq(ChallengeRec) /\ broker.resume.records \in Seq(ChallengeRec)
      /\ broker.mirror \in Seq(ChallengeRec)
      /\ Append(broker.records, r) \in Seq(ChallengeRec)
    BY <1>1 DEF Broker, Resume
<1>5. Running /\ Running' /\ ~Appending' /\ broker.pc # "sync"
    BY <1>2 DEF Due, Running, Appending, Idle
<1>6. Types'
    BY <1>2, <1>3, <1>4 DEF Agrees, Types, Idle
<1>7. LogOK' BY DEF Agrees, LogOK
<1>8. BrokerOK' BY <1>2, <1>5 DEF Agrees, BrokerOK, Idle
<1>9. CopyOK' BY <1>2, <1>5 DEF Agrees, CopyOK, Idle, Durable
<1>10. ReplayOK'
    <2>1. SUFFICES ASSUME Durable
                   PROVE  /\ Replaying' =>
                                /\ broker.journal.records = broker.resume.records
                                /\ IsPrefix(Append(broker.records, r), broker.resume.records)
                          /\ ~Replaying' => broker.journal.records = Append(broker.records, r)
        BY <1>2, <1>5, NoSealKind DEF Agrees, ReplayOK, Idle, Durable
    <2>2. Replaying' <=> Len(Append(broker.records, r)) < Len(broker.resume.records)
        BY <1>2 DEF Replaying, Idle
    <2>3. Len(Append(broker.records, r)) = Len(broker.records) + 1 BY <1>4
    <2>4. CASE broker.pc = "idle" /\ Replaying /\ ReplayMatches(r)
        <3>1. broker.journal.records = broker.resume.records
              /\ IsPrefix(broker.records, broker.resume.records)
            BY <1>5, <2>1, <2>4 DEF Agrees, ReplayOK
        <3>2. r = broker.resume.records[Len(broker.records) + 1]
              /\ Len(broker.records) < Len(broker.resume.records)
            BY <2>4 DEF ReplayMatches, Replaying
        <3>3. IsPrefix(Append(broker.records, r), broker.resume.records)
            BY <1>4, <3>1, <3>2, PrefixNext
        <3>4. ~Replaying' => Append(broker.records, r) = broker.resume.records
            <4>1. PICK u \in Seq(ChallengeRec) : u = Append(broker.records, r) BY <1>4, Zenon
            <4>2. ~Replaying' => Len(u) >= Len(broker.resume.records)
                BY <1>4, <2>2, <4>1
            <4>3. ~Replaying' => u = broker.resume.records
                BY <1>4, <3>3, <4>1, <4>2, PrefixFull
            <4> QED BY <4>1, <4>3
        <3> QED BY <3>1, <3>3, <3>4
    <2>5. CASE broker.pc = "reply" /\ r = broker.pending
        <3>1. ~Replaying /\ broker.journal.records = Append(broker.records, r)
            BY <1>1, <1>5, <2>1, <2>5 DEF Agrees, ReplayOK
        <3>2. ~Replaying' BY <1>4, <2>2, <2>3, <3>1 DEF Replaying
        <3> QED BY <3>1, <3>2
    <2> QED BY <2>1, <2>4, <2>5 DEF Due
<1>11. SealOK' BY <1>2, <1>5, NoSealKind DEF Agrees, SealOK, Idle, Durable
<1>12. SyncOK' BY <1>5 DEF Agrees, SyncOK
<1>13. DuplexOK'
    <2>1. SUFFICES ASSUME ~Durable
                   PROVE  /\ file = NoFile /\ broker.resume = Fresh /\ broker.tape = NoTape
                          /\ IsPrefix(broker.mirror, Append(broker.records, r))
        BY <1>2 DEF DuplexOK, Idle, Durable
    <2>2. file = NoFile /\ broker.resume = Fresh /\ broker.tape = NoTape
          /\ IsPrefix(broker.mirror, broker.records)
        BY <1>5, <2>1 DEF Agrees, DuplexOK, Due
    <2> QED BY <1>4, <2>2, PrefixOfAppend
<1>14. OffOK' BY <1>5 DEF OffOK
<1> QED BY <1>6, <1>7, <1>8, <1>9, <1>10, <1>11, <1>12, <1>13, <1>14 DEF Agrees

\* So does a mask event, replayed or journaled.
LEMMA GivesMaskAgrees ==
    ASSUME Agrees, Durable, NEW r \in MaskRec, NEW b \in Broker, Gives(b, r),
           broker.pc = "idle" \/ (broker.pc = "reply" /\ ~IsChallenge(broker.pending)),
           b.resume = broker.resume, b.journal = broker.journal, b.records = broker.records,
           b.tape = broker.tape, b.replayed <= Len(b.resume.masks),
           UNCHANGED <<mode, faults, lives, file>>
    PROVE  Agrees'
<1>1. IsMask(r) /\ ~IsChallenge(r) /\ ~IsSeal(r)
    BY RecKinds DEF Rec, MaskRec, IsMask
<1>2. Idle(b, broker') /\ broker'.records = broker.records
    BY AnsweredMask DEF Gives
<1>3. answered' = answered /\ tapes' = tapes
    BY <1>1 DEF Gives
<1>5. Running /\ Running' /\ ~Appending' /\ broker.pc # "sync"
    BY <1>2 DEF Running, Appending, Idle
<1>6. Types'
    BY <1>2, <1>3 DEF Agrees, Types, Idle
<1>7. LogOK' BY DEF Agrees, LogOK
<1>8. BrokerOK' BY <1>2, <1>5 DEF Agrees, BrokerOK, Idle
<1>9. CopyOK' BY <1>2, <1>5 DEF Agrees, CopyOK, Idle, Durable
<1>10. ReplayOK'
    <2>1. Replaying' <=> Replaying BY <1>2 DEF Replaying, Idle
    <2>2. ~Replaying => broker.journal.records = broker.records
        <3>1. CASE broker.pc = "idle" BY <1>5, <3>1 DEF Agrees, ReplayOK
        <3>2. CASE ~IsChallenge(broker.pending) BY <1>5, <3>2 DEF Agrees, ReplayOK
        <3> QED BY <3>1, <3>2
    <2>3. /\ Replaying => /\ broker.journal.records = broker.resume.records
                          /\ IsPrefix(broker.records, broker.resume.records)
          /\ broker.tape = NoTape
        BY <1>5 DEF Agrees, ReplayOK
    <2> QED BY <1>2, <2>1, <2>2, <2>3, NoSealKind DEF ReplayOK, Idle
<1>11. SealOK' BY <1>2, <1>5, NoSealKind DEF Agrees, SealOK, Idle, Durable
<1>12. SyncOK' BY <1>5 DEF Agrees, SyncOK
<1>13. DuplexOK' BY DEF DuplexOK, Durable
<1>14. OffOK' BY <1>5 DEF OffOK
<1> QED BY <1>6, <1>7, <1>8, <1>9, <1>10, <1>11, <1>12, <1>13, <1>14 DEF Agrees

\* A durable attempt that finishes ends its broker.
LEMMA GivesDurableFinishAgrees ==
    ASSUME Agrees, Durable, NEW r \in SealRec, Gives(broker, r), broker.pc # "sync",
           UNCHANGED <<mode, faults, lives, file>>
    PROVE  /\ Agrees'
           /\ broker' = Off /\ answered' = answered
           /\ tapes' = tapes \cup {[records |-> broker.records, payload |-> r.payload]}
<1>1. broker \in Broker /\ IsSeal(r) /\ ~IsChallenge(r) /\ ~IsMask(r)
    BY RecKinds DEF Agrees, Types, Rec, SealRec, IsSeal
<1>2. broker' = Off /\ answered' = answered
      /\ tapes' = tapes \cup {[records |-> broker.records, payload |-> r.payload]}
    BY <1>1 DEF Gives, Answered
<1>3. [records |-> broker.records, payload |-> r.payload] \in Tape
    BY <1>1 DEF Broker, Tape, SealRec
<1>4. answered' \subseteq Seq(ChallengeRec) /\ tapes' \subseteq Tape
    BY <1>2, <1>3 DEF Agrees, Types
<1> QED BY <1>2, <1>4, EndsQuietlyAgrees DEF Ends

\* A duplex attempt that finishes waits for a mirror that was given everything.
LEMMA GivesDuplexFinishAgrees ==
    ASSUME Agrees, ~Durable, NEW r \in SealRec, Gives(broker, r), broker.pc = "idle",
           broker.tape = NoTape, Len(broker.mirror) = Len(broker.records),
           UNCHANGED <<mode, faults, lives, file>>
    PROVE  /\ Agrees' /\ answered' = answered /\ tapes' = tapes
           /\ broker'.tape = NoTape => broker.records = <<>> /\ broker'.records = <<>>
<1>1. broker \in Broker /\ IsSeal(r) /\ ~IsChallenge(r) /\ ~IsMask(r)
    BY RecKinds DEF Agrees, Types, Rec, SealRec, IsSeal
<1>2. /\ broker' \in Broker /\ broker'.pc = "idle" /\ broker'.pending = NoSeal
      /\ broker'.resume = broker.resume /\ broker'.replayed = broker.replayed
      /\ broker'.mirror = broker.mirror
      /\ broker'.tape = [records |-> broker.records, payload |-> r.payload]
      /\ broker'.records = <<>>
    BY <1>1, AnsweredFinish DEF Gives
<1>3. answered' = answered /\ tapes' = tapes
    BY <1>1 DEF Gives
<1>4. Running /\ Running' /\ ~Appending'
    BY <1>2 DEF Running, Appending
<1>5. /\ broker.mirror \in Seq(ChallengeRec) /\ broker.records \in Seq(ChallengeRec)
      /\ IsPrefix(broker.mirror, broker.records)
      /\ file = NoFile /\ broker.resume = Fresh
    BY <1>1, <1>4 DEF Agrees, DuplexOK, Broker
<1>6. broker.mirror = broker.records BY <1>5, PrefixFull
<1>7. Types' BY <1>2, <1>3 DEF Agrees, Types
<1>8. LogOK' BY DEF Agrees, LogOK
<1>9. BrokerOK' BY <1>2, <1>4 DEF Agrees, BrokerOK
<1>10. CopyOK' /\ ReplayOK' /\ SealOK' BY DEF CopyOK, ReplayOK, SealOK, Durable
<1>11. SyncOK' BY DEF Agrees, SyncOK
<1>12. broker'.tape.records = broker.records BY <1>2
<1>13. broker'.tape = NoTape => broker.records = <<>> BY <1>12 DEF NoTape
<1>14. DuplexOK'
    <2>1. IsPrefix(<<>>, <<>>) BY DEF IsPrefix
    <2> QED BY <1>2, <1>5, <1>6, <1>12, <1>13, <2>1 DEF DuplexOK, Durable
<1>15. OffOK' BY <1>4 DEF OffOK
<1> QED
    BY <1>2, <1>3, <1>7, <1>8, <1>9, <1>10, <1>11, <1>13, <1>14, <1>15 DEF Agrees

\* So does the start of an append.
LEMMA JournaledAgrees ==
    ASSUME Agrees, Durable, broker.pc = "idle", NEW r \in Rec, Journaled(r),
           Replaying => IsMask(r), IsSeal(r) => r.at = Len(broker.records),
           UNCHANGED <<mode, faults, lives, file>>
    PROVE  Agrees'
<1>1. answered' = answered /\ tapes' = tapes BY DEF Journaled
<1>2. broker \in Broker /\ Running /\ r # NoSeal
    BY RecKinds DEF Agrees, Types, Running
<1>3. CASE ~CanAppend(broker.journal, r)
    <2>1. Ends BY <1>3 DEF Journaled
    <2> QED BY <1>1, <2>1, EndsQuietlyAgrees DEF Agrees, Types
<1>4. CASE CanAppend(broker.journal, r)
    <2>1. broker' = [broker EXCEPT !.pc = "append", !.pending = r]
        BY <1>4 DEF Journaled
    <2>2. /\ broker' \in Broker /\ broker'.pc = "append" /\ broker'.pending = r
          /\ broker'.resume = broker.resume /\ broker'.journal = broker.journal
          /\ broker'.records = broker.records /\ broker'.replayed = broker.replayed
          /\ broker'.tape = broker.tape
        BY <1>2, <2>1 DEF Broker
    <2>3. Running' /\ Appending' BY <2>2 DEF Running, Appending
    <2>4. Types' BY <1>1, <2>2 DEF Agrees, Types
    <2>5. LogOK' BY DEF Agrees, LogOK
    <2>6. BrokerOK' BY <1>2, <2>2, <2>3 DEF Agrees, BrokerOK
    <2>7. CopyOK' BY <1>2, <1>4, <2>2 DEF Agrees, CopyOK, Durable
    <2>8. ReplayOK'
        <3>1. Replaying' <=> Replaying BY <2>2 DEF Replaying
        <3>2. Replaying => ~IsChallenge(r) /\ ~IsSeal(r) BY RecKinds
        <3> QED BY <1>2, <2>2, <3>1, <3>2 DEF Agrees, ReplayOK, Durable
    <2>9. SealOK' BY <1>2, <2>2 DEF Agrees, SealOK, Durable
    <2>10. SyncOK' BY <2>2 DEF Agrees, SyncOK
    <2>11. DuplexOK' BY DEF DuplexOK, Durable
    <2>12. OffOK' BY <2>3 DEF OffOK
    <2> QED BY <2>4, <2>5, <2>6, <2>7, <2>8, <2>9, <2>10, <2>11, <2>12 DEF Agrees
<1> QED BY <1>3, <1>4

\* A broker that starts from the resume state u.
Started(b, u) ==
    /\ b \in Broker /\ b.pc = "idle" /\ b.pending = NoSeal
    /\ b.resume = u /\ b.journal = u /\ b.records = <<>>
    /\ b.replayed = 0 /\ b.tape = NoTape /\ b.mirror = <<>>

\* The attempt starts.
LEMMA StartAgrees ==
    ASSUME Agrees, Create \/ Open \/ SpawnDuplex
    PROVE  Agrees'
<1>1. UNCHANGED <<mode, faults, answered, tapes>> /\ broker \in Broker
      /\ lives' \in 0..MaxLives
    BY BrokerAssumption DEF Create, Open, SpawnDuplex, Agrees, Types
<1>2. ASSUME NEW u \in Resume, Started(broker', u),
             lives' # 0, file' \in File, file'.synced <= Len(file'.log),
             \A i \in 1..Len(file'.log) : Legal(file', i),
             Durable => file'.entry # "none" /\ ~file'.torn /\ u = ResumeOf(file'),
             ~Durable => file' = NoFile /\ u = Fresh,
             "process" \notin faults => file'.synced = Len(file'.log)
      PROVE  Agrees'
    <2>1. /\ broker' \in Broker /\ broker'.pc = "idle" /\ broker'.pending = NoSeal
          /\ broker'.resume = u /\ broker'.journal = u /\ broker'.records = <<>>
          /\ broker'.replayed = 0 /\ broker'.tape = NoTape /\ broker'.mirror = <<>>
        BY <1>2 DEF Started
    <2>2. /\ u.records \in Seq(ChallengeRec) /\ Len(u.records) \in Nat
          /\ Len(u.masks) \in Nat /\ 0 <= Len(u.masks)
        BY DEF Resume
    <2>3. Running' /\ ~Appending' BY <2>1 DEF Running, Appending
    <2>4. Types' BY <1>1, <1>2, <2>1 DEF Agrees, Types
    <2>5. LogOK' BY <1>2 DEF LogOK
    <2>6. BrokerOK' BY <1>2, <2>1, <2>2, <2>3 DEF BrokerOK
    <2>7. CopyOK' BY <1>1, <1>2, <2>1 DEF CopyOK, Durable
    <2>8. ReplayOK'
        <3>1. IsPrefix(<<>>, u.records) BY <2>2 DEF IsPrefix
        <3>2. Replaying' <=> 0 < Len(u.records) BY <2>1 DEF Replaying
        <3>3. ~Replaying' => u.records = <<>> BY <2>2, <3>2
        <3> QED BY <2>1, <3>1, <3>3, NoSealKind DEF ReplayOK
    <2>9. SealOK' BY <2>1, NoSealKind DEF SealOK
    <2>10. SyncOK' BY <1>1, <1>2 DEF SyncOK
    <2>11. DuplexOK'
        <3>1. IsPrefix(<<>>, <<>>) BY DEF IsPrefix
        <3> QED BY <1>1, <1>2, <2>1, <3>1 DEF DuplexOK, Durable
    <2>12. OffOK' BY <2>3 DEF OffOK
    <2> QED BY <2>4, <2>5, <2>6, <2>7, <2>8, <2>9, <2>10, <2>11, <2>12 DEF Agrees
<1>3. Len(<<>>) = 0 /\ Started([Off EXCEPT !.pc = "idle"], Fresh)
    BY StartTypes DEF Started, Off, Broker
<1>4. CASE Create
    <2>1. lives' = 1 /\ Durable /\ lives = 0 /\ ~Running
        BY <1>4 DEF Create, Agrees, BrokerOK
    <2>2. CASE file' = NewFile /\ broker' = [Off EXCEPT !.pc = "idle"]
        <3>1. /\ NewFile.entry = "synced" /\ NewFile.torn = FALSE /\ NewFile.log = <<>>
              /\ NewFile.synced = 0
            BY DEF NewFile, NoFile
        <3>2. Started(broker', Fresh)
            BY <1>3, <2>2
        <3>3. ResumeOf(NewFile) = Fresh BY <1>3, <3>1 DEF ResumeOf, ResumeAt
        <3> QED BY <1>2, <1>3, <2>1, <2>2, <3>1, <3>2, <3>3, StartTypes
    <2>3. CASE file' = [NewFile EXCEPT !.entry = "unsynced"] /\ UNCHANGED broker
        <3>1. file'.log = <<>> /\ file'.synced = 0 /\ file' \in File
            BY <2>3, StartTypes DEF NewFile, NoFile
        <3>2. ~Running' /\ ~Appending' /\ broker.pc = "off"
            BY <2>1, <2>3 DEF Running, Appending
        <3>3. Types' BY <1>1, <1>3, <2>3, <3>1 DEF Agrees, Types
        <3>4. LogOK' BY <1>3, <3>1 DEF LogOK
        <3>5. BrokerOK' BY <2>1, <2>3, <3>2 DEF Agrees, BrokerOK, Appending
        <3>6. CopyOK' /\ ReplayOK' /\ SealOK' BY <3>2 DEF CopyOK, ReplayOK, SealOK
        <3>7. SyncOK' BY <1>3, <3>1 DEF SyncOK
        <3>8. DuplexOK' BY <1>1, <2>1 DEF DuplexOK, Durable
        <3>9. OffOK' BY <2>1, <2>3 DEF Agrees, OffOK
        <3> QED BY <3>3, <3>4, <3>5, <3>6, <3>7, <3>8, <3>9 DEF Agrees
    <2> QED BY <1>4, <2>2, <2>3 DEF Create
<1>5. CASE Open
    <2>1. /\ Durable /\ broker.pc = "off" /\ lives' # 0 /\ file' = file /\ Opens(file)
          /\ broker' = [Off EXCEPT !.pc = "idle", !.resume = ResumeOf(file),
                                   !.journal = ResumeOf(file)]
        BY <1>5 DEF Open, Agrees, Types
    <2>2. file \in File /\ file.synced <= Len(file.log)
          /\ ("process" \notin faults => file.synced = Len(file.log))
        BY <2>1 DEF Agrees, Types, SyncOK
    <2>3. ResumeOf(file) \in Resume
        <3>1. Len(file.log) \in 0..Len(file.log) BY <2>2 DEF File
        <3> QED BY <2>2, <3>1, ResumeType DEF ResumeOf
    <2>4. Started(broker', ResumeOf(file))
        BY <2>1, <2>3, StartTypes DEF Started, Off, Broker
    <2> QED BY <1>2, <2>1, <2>2, <2>3, <2>4 DEF Opens
<1>6. CASE SpawnDuplex
    <2>1. ~Durable /\ lives' = 1 /\ file' = file /\ file = NoFile
          /\ broker' = [Off EXCEPT !.pc = "idle"]
        BY <1>6 DEF SpawnDuplex, Agrees, DuplexOK
    <2>2. Started(broker', Fresh)
        BY <1>3, <2>1
    <2>3. NoFile.log = <<>> /\ NoFile.synced = 0 BY DEF NoFile
    <2> QED BY <1>2, <1>3, <2>1, <2>2, <2>3, StartTypes
<1> QED BY <1>4, <1>5, <1>6

\* The record is written, or torn, or not written.
LEMMA AppendWriteAgrees ==
    ASSUME Agrees, AppendWrite
    PROVE  Agrees'
<1>1. /\ broker.pc = "append" /\ broker \in Broker /\ file \in File
      /\ UNCHANGED <<mode, faults, lives, answered, tapes>>
      /\ file.synced <= Len(file.log) /\ LogOK
    BY DEF AppendWrite, Agrees, Types
<1>2. /\ Running /\ Durable /\ broker.pending \in Rec
    BY <1>1 DEF Running, Agrees, DuplexOK, BrokerOK, Appending, Broker
<1>3. /\ file.entry # "none" /\ ~file.torn /\ broker.journal = ResumeOf(file)
      /\ CanAppend(broker.journal, broker.pending)
      /\ lives # 0
    BY <1>1, <1>2 DEF Agrees, CopyOK, BrokerOK
<1>4. answered' \subseteq Seq(ChallengeRec) /\ tapes' \subseteq Tape
    BY <1>1 DEF Agrees, Types
<1>5. CASE file' = Written(file, Placed(broker.pending)) /\ broker' = [broker EXCEPT !.pc = "sync"]
    <2>1. PICK r \in Rec : r = Placed(broker.pending) BY <1>1, <1>2, PlacedFacts
    <2>2. /\ CanAppend(ResumeOf(file), r)
          /\ ~IsChallenge(r) => r.at = Len(ResumeOf(file).records)
        BY <1>1, <1>2, <1>3, <2>1, PlacedFacts
    <2>3. /\ file' \in File /\ file'.entry = file.entry /\ file'.torn = file.torn
          /\ file'.synced = file.synced /\ Len(file.log) \in Nat
          /\ Len(file'.log) = Len(file.log) + 1
          /\ ResumeOf(file') = Extended(ResumeOf(file), r)
        BY <1>1, <1>5, <2>1, WrittenFacts
    <2>4. LogOK'
        BY <1>1, <1>5, <2>1, <2>2, WrittenLegal DEF LogOK
    <2>5. /\ broker' \in Broker /\ broker'.pc = "sync" /\ broker'.pending = broker.pending
          /\ broker'.resume = broker.resume /\ broker'.journal = broker.journal
          /\ broker'.records = broker.records /\ broker'.replayed = broker.replayed
          /\ broker'.tape = broker.tape
        BY <1>1, <1>5 DEF Broker
    <2>6. Running' /\ Appending' /\ Appending BY <1>1, <2>5 DEF Running, Appending
    <2>7. file.synced \in Nat BY <1>1 DEF File
    <2>8. Types' BY <1>1, <2>3, <2>5, <2>7 DEF Agrees, Types
    <2>9. BrokerOK' BY <1>1, <1>3, <2>5, <2>6 DEF Agrees, BrokerOK
    <2>10. CopyOK'
        <3>1. Placed(broker.pending)' = r BY <2>1, <2>5 DEF Placed
        <3>2. ResumeOf(file)' = ResumeOf(file') BY DEF ResumeOf, ResumeAt
        <3> QED BY <1>1, <1>3, <2>3, <2>5, <3>1, <3>2 DEF CopyOK, Durable
    <2>11. ReplayOK'
        <3>1. Replaying' <=> Replaying BY <2>5 DEF Replaying
        <3> QED BY <1>1, <1>2, <2>5, <3>1 DEF Agrees, ReplayOK, Durable
    <2>12. SealOK' BY <1>1, <1>2, <2>5 DEF Agrees, SealOK, Durable
    <2>13. SyncOK' BY <2>5 DEF SyncOK
    <2>14. DuplexOK' BY <1>1, <1>2 DEF DuplexOK, Durable
    <2>15. OffOK' BY <2>6 DEF OffOK
    <2> QED
        BY <2>4, <2>8, <2>9, <2>10, <2>11, <2>12, <2>13, <2>14, <2>15 DEF Agrees
<1>6. CASE file' = [file EXCEPT !.torn = TRUE] /\ Ends
    <2>1. file' \in File /\ file'.log = file.log /\ file'.synced = file.synced
        BY <1>1, <1>6 DEF File
    <2>2. \A i \in 1..Len(file'.log) : Legal(file', i)
        BY <1>1, <2>1 DEF LogOK, Legal, ResumeAt
    <2>3. "process" \notin faults => file'.synced = Len(file'.log)
        BY <1>1, <2>1 DEF Agrees, SyncOK
    <2> QED BY <1>1, <1>2, <1>3, <1>4, <1>6, <2>1, <2>2, <2>3, EndsAgrees
<1>7. CASE UNCHANGED file /\ Ends
    BY <1>1, <1>4, <1>7, EndsQuietlyAgrees
<1> QED BY <1>5, <1>6, <1>7 DEF AppendWrite

\* The record is synced, and memory follows the file.
LEMMA AppendSyncAgrees ==
    ASSUME Agrees, AppendSync
    PROVE  Agrees'
<1>1. /\ broker.pc = "sync" /\ broker \in Broker /\ file \in File
      /\ UNCHANGED <<mode, faults, lives, answered, tapes>>
      /\ file.synced <= Len(file.log) /\ LogOK
    BY DEF AppendSync, Agrees, Types
<1>2. /\ Running /\ Durable /\ broker.pending \in Rec
    BY <1>1 DEF Running, Agrees, DuplexOK, BrokerOK, Appending, Broker
<1>3. /\ file.entry # "none" /\ ~file.torn
      /\ ResumeOf(file) = Extended(broker.journal, Placed(broker.pending))
      /\ CanAppend(broker.journal, broker.pending)
      /\ lives # 0
    BY <1>1, <1>2 DEF Agrees, CopyOK, BrokerOK
<1>4. CASE /\ file' = Synced(file)
           /\ broker' = [broker EXCEPT !.pc = "reply",
                                       !.journal = Extended(@, Placed(broker.pending))]
    <2>1. PICK r \in Rec : r = Placed(broker.pending) BY <1>1, <1>2, PlacedFacts
    <2>2. PICK u \in Resume : u = Extended(broker.journal, r)
        <3>1. broker.journal \in Resume BY <1>1 DEF Broker
        <3> QED BY <3>1, ExtendedFacts
    <2>3. /\ file' \in File /\ file'.entry = file.entry /\ file'.torn = file.torn
          /\ file'.synced = Len(file.log) /\ file'.log = file.log /\ Len(file.log) \in Nat
        BY <1>1, <1>4 DEF Synced, File
    <2>4. LogOK' BY <1>1, <2>3 DEF LogOK, Legal, ResumeAt
    <2>5. ResumeOf(file)' = u BY <1>3, <2>1, <2>2, <2>3 DEF ResumeOf, ResumeAt
    <2>6. /\ broker' \in Broker /\ broker'.pc = "reply" /\ broker'.pending = broker.pending
          /\ broker'.resume = broker.resume /\ broker'.journal = u
          /\ broker'.records = broker.records /\ broker'.replayed = broker.replayed
          /\ broker'.tape = broker.tape
        BY <1>1, <1>4, <2>1, <2>2 DEF Broker
    <2>7. Running' /\ Appending' /\ Appending BY <1>1, <2>6 DEF Running, Appending
    <2>8. Types' BY <1>1, <2>3, <2>6 DEF Agrees, Types
    <2>9. BrokerOK' BY <1>1, <1>3, <2>6, <2>7 DEF Agrees, BrokerOK
    <2>10. CopyOK' BY <1>1, <1>3, <2>3, <2>5, <2>6 DEF CopyOK, Durable
    <2>11. broker.journal \in Resume BY <1>1 DEF Broker
    <2>12. ReplayOK'
        <3>1. Replaying' <=> Replaying BY <2>6 DEF Replaying
        <3>2. /\ IsChallenge(broker.pending) =>
                    r = broker.pending /\ u.records = Append(broker.journal.records, r)
              /\ ~IsChallenge(broker.pending) => u.records = broker.journal.records
            <4>1. IsChallenge(broker.pending) => r = broker.pending
                BY <1>1, <1>2, <2>1, PlacedFacts
            <4>2. ~IsChallenge(broker.pending) => IsMask(r) \/ IsSeal(r)
                BY <1>1, <1>2, <2>1, PlacedFacts, RecKinds
            <4> QED BY <2>2, <2>11, <4>1, <4>2, ExtendedFacts
        <3>3. /\ Replaying => /\ broker.journal.records = broker.resume.records
                              /\ IsPrefix(broker.records, broker.resume.records)
                              /\ ~IsChallenge(broker.pending) /\ ~IsSeal(broker.pending)
              /\ ~Replaying => broker.journal.records = broker.records
              /\ broker.tape = NoTape
            BY <1>1, <1>2 DEF Agrees, ReplayOK
        <3> QED BY <2>6, <3>1, <3>2, <3>3 DEF ReplayOK
    <2>13. SealOK'
        <3>1. broker.journal.seal = NoSeal BY <1>3 DEF CanAppend
        <3>2. broker.resume.seal = NoSeal BY <1>2, <3>1 DEF Agrees, SealOK
        <3>3. ASSUME IsSeal(broker.pending) PROVE u.seal = broker.pending
            <4>1. ~Replaying BY <1>2, <3>3 DEF Agrees, ReplayOK
            <4>2. broker.journal.records = broker.records
                BY <1>1, <1>2, <4>1 DEF Agrees, ReplayOK
            <4>3. broker.pending.at = Len(broker.journal.records)
                BY <1>2, <3>3, <4>2 DEF Agrees, SealOK
            <4>4. r = broker.pending BY <1>1, <1>2, <2>1, <3>3, <4>3, PlacedFacts
            <4> QED BY <2>2, <2>11, <3>3, <4>4, ExtendedFacts
        <3> QED BY <1>1, <1>2, <2>6, <3>2, <3>3 DEF Agrees, SealOK, Durable
    <2>14. SyncOK' BY <2>3 DEF SyncOK
    <2>15. DuplexOK' BY <1>1, <1>2 DEF DuplexOK, Durable
    <2>16. OffOK' BY <2>7 DEF OffOK
    <2> QED
        BY <2>4, <2>8, <2>9, <2>10, <2>12, <2>13, <2>14, <2>15, <2>16 DEF Agrees
<1>5. CASE "process" \in faults /\ UNCHANGED file /\ Ends
    BY <1>1, <1>5, EndsQuietlyAgrees DEF Agrees, Types
<1> QED BY <1>4, <1>5 DEF AppendSync

\* The journaled answer is given.
LEMMA ReplyAgrees ==
    ASSUME Agrees, Reply
    PROVE  Agrees'
<1>1. /\ broker.pc = "reply" /\ broker \in Broker /\ Gives(broker, broker.pending)
      /\ UNCHANGED <<mode, faults, file, lives>>
    BY DEF Reply, Agrees, Types
<1>2. Durable /\ broker.pending \in Rec /\ broker.replayed <= Len(broker.resume.masks)
    BY <1>1 DEF Running, Agrees, DuplexOK, BrokerOK, Appending, Broker
<1>3. CASE IsChallenge(broker.pending)
    BY <1>1, <1>2, <1>3, RecKinds, GivesChallengeAgrees DEF Due
<1>4. CASE IsMask(broker.pending)
    BY <1>1, <1>2, <1>4, RecKinds, GivesMaskAgrees
<1>5. CASE IsSeal(broker.pending)
    BY <1>1, <1>2, <1>5, RecKinds, GivesDurableFinishAgrees
<1> QED BY <1>2, <1>3, <1>4, <1>5, RecKinds

\* A challenge is asked for.
LEMMA ChallengeRequestAgrees ==
    ASSUME Agrees, NEW m \in Moves, NEW k \in Kinds, ChallengeRequest(m, k)
    PROVE  Agrees'
<1>1. broker.pc = "idle" /\ UNCHANGED <<mode, faults, file, lives>>
    BY DEF ChallengeRequest
<1>2. PICK r \in ChallengeRec : r = Challenge(m, k) BY RecTypes
<1>3. r \in Rec /\ ~IsMask(r) /\ ~IsSeal(r)
    BY RecKinds DEF Rec, ChallengeRec, IsChallenge
<1>4. CASE broker.tape # NoTape \/ MaskDue \/ (Replaying /\ ~ReplayMatches(r))
    <2>1. Ends /\ UNCHANGED <<answered, tapes>> BY <1>2, <1>4 DEF ChallengeRequest
    <2> QED BY <1>1, <2>1, EndsQuietlyAgrees DEF Agrees, Types
<1>5. CASE ~(broker.tape # NoTape \/ MaskDue \/ (Replaying /\ ~ReplayMatches(r)))
    <2>1. CASE Replaying
        <3>1. Gives(broker, r) /\ ReplayMatches(r) BY <1>2, <1>5, <2>1 DEF ChallengeRequest
        <3>2. Durable \/ broker.tape = NoTape BY <1>5
        <3> QED BY <1>1, <1>5, <2>1, <3>1, GivesChallengeAgrees DEF Due
    <2>2. CASE ~Replaying
        <3>1. Journaled(r) BY <1>2, <1>5, <2>2 DEF ChallengeRequest
        <3>2. CASE Durable
            BY <1>1, <1>3, <2>2, <3>1, <3>2, JournaledAgrees
        <3>3. CASE ~Durable
            <4>1. Gives(broker, r) BY <3>1, <3>3 DEF Journaled
            <4> QED BY <1>1, <1>5, <3>3, <4>1, GivesChallengeAgrees DEF Due
        <3> QED BY <3>2, <3>3
    <2> QED BY <2>1, <2>2
<1> QED BY <1>4, <1>5

\* A mask frontier is announced.
LEMMA MaskRequestAgrees ==
    ASSUME Agrees, NEW f \in 1..RawCount, NEW d \in Moves, MaskRequest(f, d)
    PROVE  Agrees'
<1>1. broker.pc = "idle" /\ Durable /\ UNCHANGED <<mode, faults, file, lives>> /\ broker \in Broker
    BY DEF MaskRequest, Agrees, Types
<1>2. PICK r \in MaskRec : r = MaskEvent(Len(broker.records), f, d)
    BY <1>1, RecTypes, JournalAssumption DEF Broker
<1>3. r \in Rec /\ IsMask(r) /\ ~IsSeal(r)
    BY RecKinds DEF Rec, MaskRec, IsMask
<1> DEFINE replays == broker.replayed < Len(broker.resume.masks)
           bad == \/ f <= LastFrontier(broker.masks)
                  \/ replays /\ broker.resume.masks[broker.replayed + 1] # r
<1>4. CASE bad
    <2>1. Ends /\ UNCHANGED <<answered, tapes>> BY <1>2, <1>4 DEF MaskRequest
    <2> QED BY <1>1, <2>1, EndsQuietlyAgrees DEF Agrees, Types
<1>5. CASE ~bad /\ replays
    <2>1. PICK b : b = [broker EXCEPT !.replayed = @ + 1] OBVIOUS
    <2>2. Gives(b, r) BY <1>2, <1>5, <2>1 DEF MaskRequest
    <2>3. broker.replayed \in Nat /\ Len(broker.resume.masks) \in Nat
        BY <1>1 DEF Broker, Resume
    <2>4. PICK n \in Nat : n = broker.replayed + 1 BY <2>3
    <2>5. b = [broker EXCEPT !.replayed = n] BY <2>1, <2>4
    <2>6. b \in Broker BY <1>1, <2>5 DEF Broker
    <2>7. /\ b.resume = broker.resume /\ b.journal = broker.journal
          /\ b.records = broker.records /\ b.tape = broker.tape /\ b.replayed = n
        BY <1>1, <2>5 DEF Broker
    <2>8. b.replayed <= Len(b.resume.masks) BY <1>5, <2>3, <2>4, <2>7
    <2> QED BY <1>1, <2>2, <2>6, <2>7, <2>8, GivesMaskAgrees
<1>6. CASE ~bad /\ ~replays
    <2>1. Journaled(r) BY <1>2, <1>6 DEF MaskRequest
    <2> QED BY <1>1, <1>3, <2>1, JournaledAgrees
<1> QED BY <1>4, <1>5, <1>6

\* The provider finishes.
LEMMA FinishRequestAgrees ==
    ASSUME Agrees, NEW p \in Payloads, NEW census \in BOOLEAN, FinishRequest(p, census)
    PROVE  Agrees'
<1>1. broker.pc = "idle" /\ UNCHANGED <<mode, faults, file, lives>> /\ broker \in Broker
    BY DEF FinishRequest, Agrees, Types
<1>2. PICK r \in SealRec : r = Seal(Len(broker.records), p)
    BY <1>1, RecTypes DEF Broker
<1>3. r \in Rec /\ IsSeal(r) /\ r.at = Len(broker.records)
    BY <1>2 DEF Rec, SealRec, IsSeal, Seal
<1> DEFINE sealed == broker.resume.seal
           bad == \/ broker.tape # NoTape \/ ~AtFrontier \/ ~census
                  \/ sealed # NoSeal /\ sealed # r
<1>4. CASE bad
    <2>1. Ends /\ UNCHANGED <<answered, tapes>> BY <1>2, <1>4 DEF FinishRequest
    <2> QED BY <1>1, <2>1, EndsQuietlyAgrees DEF Agrees, Types
<1>5. CASE ~bad /\ Durable
    <2>1. ~Replaying BY <1>5 DEF AtFrontier
    <2>2. CASE sealed # NoSeal
        <3>1. Gives(broker, r) BY <1>2, <1>5, <2>2 DEF FinishRequest
        <3> QED BY <1>1, <1>5, <3>1, GivesDurableFinishAgrees
    <2>3. CASE sealed = NoSeal
        <3>1. Journaled(r) BY <1>2, <1>5, <2>3 DEF FinishRequest
        <3> QED BY <1>1, <1>3, <1>5, <2>1, <3>1, JournaledAgrees
    <2> QED BY <2>2, <2>3
<1>6. CASE ~bad /\ ~Durable
    <2>1. Gives(broker, r) BY <1>2, <1>6 DEF FinishRequest, Journaled
    <2>2. Len(broker.mirror) = Len(broker.records) BY <1>6 DEF AtFrontier
    <2> QED BY <1>1, <1>6, <2>1, <2>2, GivesDuplexFinishAgrees
<1> QED BY <1>4, <1>5, <1>6

\* The mirror is given a challenge, or ends the attempt.
LEMMA MirrorAgrees ==
    ASSUME Agrees, NEW m \in Moves, NEW k \in Kinds, MirrorChallenge(m, k)
    PROVE  Agrees'
<1>1. /\ broker.pc = "idle" /\ ~Durable /\ broker \in Broker /\ Running
      /\ UNCHANGED <<mode, faults, file, lives, answered, tapes>>
    BY DEF MirrorChallenge, Agrees, Types, Running
<1>2. CASE Ends
    BY <1>1, <1>2, EndsQuietlyAgrees DEF Agrees, Types
<1>3. CASE /\ Len(broker.mirror) < Len(broker.records) /\ MirrorMatches(m, k)
           /\ broker' = [broker EXCEPT !.mirror = Append(@, Challenge(m, k))]
    <2>1. PICK r \in ChallengeRec : r = Challenge(m, k) BY RecTypes
    <2>2. /\ broker.mirror \in Seq(ChallengeRec) /\ broker.records \in Seq(ChallengeRec)
          /\ Append(broker.mirror, r) \in Seq(ChallengeRec)
        BY <1>1 DEF Broker
    <2>3. PICK u \in Seq(ChallengeRec) : u = Append(broker.mirror, r) BY <2>2, Zenon
    <2>4. broker' = [broker EXCEPT !.mirror = u] BY <1>3, <2>1, <2>3
    <2>5. /\ broker' \in Broker /\ broker'.pc = "idle" /\ broker'.pending = broker.pending
          /\ broker'.resume = broker.resume /\ broker'.replayed = broker.replayed
          /\ broker'.records = broker.records /\ broker'.tape = broker.tape
          /\ broker'.mirror = u
        BY <1>1, <2>4 DEF Broker
    <2>6. broker.tape = NoTape
        <3>1. broker.records # <<>> BY <1>3, <2>2
        <3> QED BY <1>1, <3>1 DEF Agrees, DuplexOK
    <2>7. IsPrefix(u, broker.records)
        <3>1. IsPrefix(broker.mirror, broker.records) BY <1>1, <2>6 DEF Agrees, DuplexOK
        <3>2. r = broker.records[Len(broker.mirror) + 1] BY <1>3, <2>1 DEF MirrorMatches
        <3> QED BY <1>3, <2>2, <2>3, <3>1, <3>2, PrefixNext
    <2>8. Running' /\ ~Appending' /\ ~Appending BY <1>1, <2>5 DEF Running, Appending
    <2>9. Types' BY <1>1, <2>5 DEF Agrees, Types
    <2>10. LogOK' BY <1>1 DEF Agrees, LogOK
    <2>11. BrokerOK' BY <1>1, <2>5, <2>8 DEF Agrees, BrokerOK
    <2>12. CopyOK' /\ ReplayOK' /\ SealOK' BY <1>1 DEF CopyOK, ReplayOK, SealOK, Durable
    <2>13. SyncOK' BY <1>1 DEF Agrees, SyncOK
    <2>14. DuplexOK' BY <1>1, <2>5, <2>6, <2>7 DEF Agrees, DuplexOK, Durable
    <2>15. OffOK' BY <2>8 DEF OffOK
    <2> QED BY <2>9, <2>10, <2>11, <2>12, <2>13, <2>14, <2>15 DEF Agrees
<1> QED BY <1>2, <1>3 DEF MirrorChallenge

\* The mirror finishes, the provider leaves, or a fault ends the broker.
LEMMA EndAgrees ==
    ASSUME Agrees, (\E p \in Payloads : MirrorFinish(p)) \/ Disconnect \/ Crash \/ PowerLoss
    PROVE  Agrees'
<1>1. UNCHANGED <<mode, faults, lives, answered>> /\ Ends /\ answered' \subseteq Seq(ChallengeRec)
    BY DEF MirrorFinish, Disconnect, Crash, PowerLoss, Agrees, Types
<1>2. ASSUME NEW p \in Payloads, MirrorFinish(p) PROVE Agrees'
    <2>1. broker.pc = "idle" /\ file' = file BY <1>2 DEF MirrorFinish
    <2>2. tapes' \subseteq Tape
        BY <1>2 DEF MirrorFinish, Agrees, Types, Broker
    <2> QED BY <1>1, <2>1, <2>2, EndsQuietlyAgrees
<1>3. CASE Disconnect \/ Crash
    <2>1. (broker.pc # "sync" \/ "process" \in faults) /\ file' = file /\ tapes' = tapes
        BY <1>3 DEF Disconnect, Crash
    <2> QED BY <1>1, <2>1, EndsQuietlyAgrees DEF Agrees, Types
<1>4. CASE PowerLoss
    <2>1. file' \in Survivors(file) /\ tapes' = tapes /\ Durable /\ lives > 0
        BY <1>4 DEF PowerLoss
    <2>2. file \in File /\ file.synced <= Len(file.log) /\ Len(file.log) \in Nat
          /\ file.synced \in Nat /\ tapes \subseteq Tape /\ lives # 0
        BY <2>1 DEF Agrees, Types, File
    <2>3. CASE file' = NoFile
        <3>1. NoFile.log = <<>> /\ NoFile.synced = 0 /\ Len(<<>>) = 0 BY DEF NoFile
        <3> QED BY <1>1, <2>1, <2>2, <2>3, <3>1, StartTypes, EndsAgrees
    <2>4. ASSUME NEW n \in file.synced..Len(file.log), Remains(file, file', n) PROVE Agrees'
        <3>1. n \in Nat /\ n <= Len(file.log) BY <2>2
        <3>2. \A i \in 1..Len(file'.log) : Legal(file', i)
            BY <2>2, <2>4, <3>1, RemainsLegal DEF Agrees, LogOK
        <3>3. file' \in File /\ file'.synced = Len(file'.log) /\ file'.synced <= Len(file'.log)
            BY <2>4, <3>1 DEF Remains
        <3> QED BY <1>1, <2>1, <2>2, <3>2, <3>3, EndsAgrees
    <2> QED BY <2>1, <2>2, <2>3, <2>4, SurvivorFacts
<1> QED BY <1>2, <1>3, <1>4

-----------------------------------------------------------------------------
(* What was given agrees with the file *)

\* This behaviour does not have both kinds of faults.
OneFault == ~({"process", "power"} \subseteq faults)

\* But for an append that waits for its sync, no record can be taken back.
LEMMA NothingUnsynced ==
    ASSUME Agrees, OneFault, broker.pc # "sync"
    PROVE  Kept = Len(file.log)
<1>1. "power" \in faults => "process" \notin faults BY DEF OneFault
<1> QED BY <1>1 DEF Agrees, SyncOK, Kept

\* The kept records are a part of the log.
LEMMA KeptInLog ==
    ASSUME Agrees
    PROVE  /\ Kept \in 0..Len(file.log) /\ Len(file.log) \in Nat
           /\ Len(file.log) \in Kept..Len(file.log)
BY DEF Agrees, Types, File, Kept

\* A step that gives nothing keeps what holds of the given challenges, when the
\* file has them still.
LEMMA QuietReleased ==
    ASSUME Released, UNCHANGED <<mode, faults, answered, tapes>>, lives' = 0 => lives = 0,
           GivenOK', DuplexGivenOK'
    PROVE  Released'
<1>1. OneMovePerChallenge' BY DEF Released, OneMovePerChallenge
<1>2. OneTape' /\ NothingGiven' BY DEF Released, OneTape, NothingGiven
<1> QED BY <1>1, <1>2 DEF Released

\* The same when the file does not change and the broker ends.
LEMMA EndsQuietlyReleased ==
    ASSUME Released, Ends, UNCHANGED <<mode, faults, lives, file, answered, tapes>>
    PROVE  Released'
<1>1. ~Running' BY DEF Ends, Off, Running
<1>2. GivenOK' BY DEF Released, GivenOK, Kept, Durable, ResumeAt
<1>3. DuplexGivenOK' BY <1>1 DEF DuplexGivenOK
<1> QED BY <1>2, <1>3, QuietReleased

\* The start of an attempt gives nothing.
LEMMA StartReleased ==
    ASSUME Released, Create \/ Open \/ SpawnDuplex
    PROVE  Released'
<1>1. UNCHANGED <<mode, faults, answered, tapes>> /\ (lives' = 0 => lives = 0)
    BY DEF Create, Open, SpawnDuplex
<1>2. CASE Create
    <2>1. lives = 0 /\ Durable BY <1>2 DEF Create
    <2>2. answered' = {} /\ tapes' = {} BY <1>1, <2>1 DEF Released, NothingGiven
    <2>3. GivenOK' BY <2>2 DEF GivenOK
    <2>4. DuplexGivenOK' BY <1>1, <2>1 DEF DuplexGivenOK, Durable
    <2> QED BY <1>1, <2>3, <2>4, QuietReleased
<1>3. CASE Open
    <2>1. file' = file /\ Durable BY <1>3 DEF Open
    <2>2. GivenOK' BY <1>1, <2>1 DEF Released, GivenOK, Kept, Durable, ResumeAt
    <2>3. DuplexGivenOK' BY <1>1, <2>1 DEF DuplexGivenOK, Durable
    <2> QED BY <1>1, <2>2, <2>3, QuietReleased
<1>4. CASE SpawnDuplex
    <2>1. lives = 0 /\ ~Durable BY <1>4 DEF SpawnDuplex
    <2>2. answered' = {} /\ tapes' = {} BY <1>1, <2>1 DEF Released, NothingGiven
    <2>3. GivenOK' BY <2>2 DEF GivenOK
    <2>4. DuplexGivenOK' BY <2>2 DEF DuplexGivenOK
    <2> QED BY <1>1, <2>3, <2>4, QuietReleased
<1> QED BY <1>2, <1>3, <1>4

\* An appended record keeps what the file has, and a sealed journal takes none.
LEMMA AppendWriteReleased ==
    ASSUME Agrees, Released, AppendWrite
    PROVE  Released'
<1>1. /\ broker.pc = "append" /\ broker \in Broker /\ file \in File
      /\ UNCHANGED <<mode, faults, lives, answered, tapes>>
    BY DEF AppendWrite, Agrees, Types
<1>2. /\ Running /\ Durable /\ broker.pending \in Rec
    BY <1>1 DEF Running, Agrees, DuplexOK, BrokerOK, Appending, Broker
<1>3. /\ file.entry # "none" /\ broker.journal = ResumeOf(file)
      /\ CanAppend(broker.journal, broker.pending)
    BY <1>1, <1>2 DEF Agrees, CopyOK
<1>4. DuplexGivenOK' BY <1>1, <1>2 DEF DuplexGivenOK, Durable
<1>5. CASE file' = Written(file, Placed(broker.pending))
    <2>1. PICK r \in Rec : r = Placed(broker.pending) BY <1>1, <1>2, PlacedFacts
    <2>2. /\ file'.synced = file.synced /\ Len(file.log) \in Nat
          /\ Len(file'.log) = Len(file.log) + 1
          /\ \A n \in 0..Len(file.log) : ResumeAt(file', n) = ResumeAt(file, n)
          /\ ResumeAt(file', Len(file.log) + 1) = Extended(ResumeOf(file), r)
        BY <1>1, <1>5, <2>1, WrittenFacts
    <2>3. /\ \A g \in answered : IsPrefix(g, ResumeOf(file).records)
          /\ \A t \in tapes : ResumeOf(file).seal = Seal(Len(t.records), t.payload)
        BY <1>2, <1>3, KeptInLog DEF Released, GivenOK, ResumeOf
    <2>4. tapes = {}
        <3>1. ResumeOf(file).seal = NoSeal BY <1>3 DEF CanAppend
        <3>2. NoSeal.tag = "none" /\ \A n, p : Seal(n, p).tag = "finish" BY DEF NoSeal, Seal
        <3> QED BY <2>3, <3>1, <3>2
    <2>5. ASSUME NEW g \in answered
          PROVE  IsPrefix(g, Extended(ResumeOf(file), r).records)
        <3>1. broker.journal \in Resume /\ g \in Seq(ChallengeRec)
            BY <1>1 DEF Broker, Agrees, Types
        <3>2. PICK u \in Resume : u = ResumeOf(file) BY <1>3, <3>1
        <3>3. u.records \in Seq(ChallengeRec) /\ IsPrefix(g, u.records)
            BY <2>3, <3>2 DEF Resume
        <3>4. CASE IsChallenge(r)
            <4>1. r \in ChallengeRec /\ Extended(u, r).records = Append(u.records, r)
                BY <3>4, RecKinds, ExtendedFacts
            <4> QED BY <3>1, <3>2, <3>3, <4>1, PrefixOfAppend
        <3>5. CASE ~IsChallenge(r)
            <4>1. Extended(u, r).records = u.records BY <3>5, RecKinds, ExtendedFacts
            <4> QED BY <3>2, <3>3, <4>1
        <3> QED BY <3>4, <3>5
    <2>6. ASSUME NEW n \in (Kept')..(Len(file.log) + 1), NEW g \in answered
          PROVE  IsPrefix(g, ResumeAt(file', n).records)
        <3>1. CASE n = Len(file.log) + 1 BY <2>2, <2>5, <3>1
        <3>2. CASE n # Len(file.log) + 1
            <4>1. "power" \in faults /\ Kept' = Kept
                BY <1>1, <2>2, <3>2 DEF Kept
            <4>2. n \in Kept..Len(file.log) /\ n \in 0..Len(file.log)
                BY <2>2, <3>2, <4>1, KeptInLog
            <4> QED BY <1>2, <1>3, <2>2, <4>2 DEF Released, GivenOK
        <3> QED BY <3>1, <3>2
    <2>7. GivenOK'
        <3>1. tapes' = {} /\ answered' = answered BY <1>1, <2>4
        <3> QED BY <2>2, <2>6, <3>1 DEF GivenOK, ResumeAt
    <2> QED BY <1>1, <1>4, <2>7, QuietReleased
<1>6. CASE file' = [file EXCEPT !.torn = TRUE] \/ UNCHANGED file
    <2>1. file'.log = file.log /\ file'.synced = file.synced /\ file'.entry = file.entry
        BY <1>1, <1>6 DEF File
    <2>2. GivenOK' BY <1>1, <2>1 DEF Released, GivenOK, Kept, Durable, ResumeAt
    <2> QED BY <1>1, <1>4, <2>2, QuietReleased
<1> QED BY <1>5, <1>6 DEF AppendWrite

\* A sync makes more records safe.
LEMMA AppendSyncReleased ==
    ASSUME Agrees, Released, AppendSync
    PROVE  Released'
<1>1. /\ broker.pc = "sync" /\ file \in File
      /\ UNCHANGED <<mode, faults, lives, answered, tapes>>
    BY DEF AppendSync, Agrees, Types
<1>2. Durable BY <1>1 DEF Agrees, DuplexOK
<1>3. DuplexGivenOK' BY <1>1, <1>2 DEF DuplexGivenOK, Durable
<1>4. /\ file'.log = file.log /\ file'.entry = file.entry
      /\ file'.synced = file.synced \/ file'.synced = Len(file.log)
    BY <1>1 DEF AppendSync, Synced, File
<1>5. Kept' = Kept \/ Kept' = Len(file.log)
    BY <1>1, <1>4 DEF Kept
<1>6. \A n \in (Kept')..Len(file.log) : n \in Kept..Len(file.log)
    BY <1>5, KeptInLog
<1>7. GivenOK'
    <2>1. \A n : ResumeAt(file', n) = ResumeAt(file, n) BY <1>4 DEF ResumeAt
    <2> QED BY <1>1, <1>4, <1>6, <2>1 DEF Released, GivenOK, Durable, ResumeAt
<1> QED BY <1>1, <1>3, <1>7, QuietReleased

\* A challenge that is due is one that the journal has.
LEMMA GivesChallengeReleased ==
    ASSUME Agrees, Released, OneFault, NEW r \in ChallengeRec, Due(r), Gives(broker, r),
           UNCHANGED <<mode, faults, lives, file>>
    PROVE  Released'
<1>1. broker \in Broker /\ IsChallenge(r) /\ ~IsSeal(r)
    BY RecKinds DEF Agrees, Types, Rec, ChallengeRec, IsChallenge
<1>2. Idle(broker, broker') /\ broker'.records = Append(broker.records, r)
    BY <1>1, AnsweredChallenge DEF Gives
<1>3. Agrees' BY GivesChallengeAgrees
<1>4. PICK h : h = broker'.records OBVIOUS
<1>5. /\ h \in Seq(ChallengeRec) /\ h = Append(broker.records, r)
      /\ broker.records \in Seq(ChallengeRec) /\ answered \subseteq Seq(ChallengeRec)
    BY <1>1, <1>2, <1>4 DEF Idle, Broker, Agrees, Types
<1>6. answered' = answered \cup {h} /\ tapes' = tapes
    BY <1>1, <1>5 DEF Gives
<1>7. Running /\ Running' /\ broker.pc # "sync"
    BY <1>2 DEF Due, Running, Idle
<1>8. NothingGiven'
    BY <1>7 DEF Agrees, BrokerOK, NothingGiven
<1>9. OneTape' BY <1>6 DEF Released, OneTape
<1>10. CASE Durable
    <2>1. file.entry # "none" /\ broker.journal = ResumeOf(file)
        BY <1>7, <1>10 DEF Agrees, CopyOK
    <2>2. PICK t : t = ResumeOf(file).records OBVIOUS
    <2>3. t \in Seq(ChallengeRec) BY <1>1, <2>1, <2>2 DEF Broker, Resume
    <2>4. IsPrefix(h, t)
        <3>1. Durable' /\ broker'.pc = "idle" /\ broker'.journal = broker.journal
            BY <1>2, <1>10 DEF Durable, Idle
        <3>2. CASE Replaying'
            BY <1>3, <1>4, <1>7, <2>1, <2>2, <3>1, <3>2 DEF Agrees, ReplayOK
        <3>3. CASE ~Replaying'
            <4>1. broker'.journal.records = h
                BY <1>3, <1>4, <1>7, <3>1, <3>3 DEF Agrees, ReplayOK
            <4> QED BY <1>5, <2>1, <2>2, <3>1, <4>1, PrefixOfItself
        <3> QED BY <3>2, <3>3
    <2>5. \A g \in answered : IsPrefix(g, t)
        BY <1>10, <2>1, <2>2, KeptInLog DEF Released, GivenOK, ResumeOf
    <2>6. OneMovePerChallenge'
        <3>1. \A g \in answered' : g \in Seq(ChallengeRec) /\ IsPrefix(g, t)
            BY <1>5, <1>6, <2>4, <2>5
        <3> QED BY <2>3, <3>1, PrefixesComparable DEF OneMovePerChallenge
    <2>7. GivenOK'
        <3>1. Kept = Len(file.log) BY <1>7, NothingUnsynced
        <3>2. \A n \in Kept..Len(file.log) : n = Len(file.log) BY <3>1, KeptInLog
        <3>3. \A n \in Kept..Len(file.log) : \A g \in answered' :
                  IsPrefix(g, ResumeAt(file, n).records)
            BY <1>6, <2>2, <2>4, <2>5, <3>2 DEF ResumeOf
        <3> QED BY <1>6, <1>10, <3>3 DEF Released, GivenOK, Kept, Durable, ResumeAt
    <2>8. DuplexGivenOK' BY <1>10 DEF DuplexGivenOK, Durable
    <2> QED BY <1>8, <1>9, <2>6, <2>7, <2>8 DEF Released
<1>11. CASE ~Durable
    <2>1. tapes = {} /\ \A g \in answered : IsPrefix(g, broker.records)
        BY <1>7, <1>11 DEF Released, DuplexGivenOK, Due
    <2>2. \A g \in answered' : g \in Seq(ChallengeRec) /\ IsPrefix(g, h)
        BY <1>5, <1>6, <2>1, PrefixOfAppend, PrefixOfItself
    <2>3. OneMovePerChallenge'
        BY <1>5, <2>2, PrefixesComparable DEF OneMovePerChallenge
    <2>4. GivenOK' BY <1>11 DEF GivenOK, Durable
    <2>5. DuplexGivenOK' BY <1>4, <1>6, <2>1, <2>2 DEF DuplexGivenOK
    <2> QED BY <1>8, <1>9, <2>3, <2>4, <2>5 DEF Released
<1> QED BY <1>10, <1>11

\* A durable outcome is the one the journal is sealed with.
LEMMA GivesFinishReleased ==
    ASSUME Agrees, Released, OneFault, Durable, NEW r \in SealRec, Gives(broker, r),
           Running, broker.pc # "sync", ~Replaying, ~IsChallenge(broker.pending),
           broker.journal.seal = r, r.at = Len(broker.records),
           UNCHANGED <<mode, faults, lives, file>>
    PROVE  Released'
<1>1. PICK t : t = [records |-> broker.records, payload |-> r.payload] OBVIOUS
<1>2. broker' = Off /\ answered' = answered /\ tapes' = tapes \cup {t}
      /\ t.records = broker.records /\ t.payload = r.payload
    BY <1>1, GivesDurableFinishAgrees
<1>3. file.entry # "none" /\ broker.journal = ResumeOf(file)
      /\ broker.journal.records = broker.records
    BY DEF Agrees, CopyOK, ReplayOK
<1>4. r = Seal(Len(t.records), t.payload)
    BY <1>2 DEF SealRec, Seal
<1>5. Kept = Len(file.log) /\ \A n \in Kept..Len(file.log) : n = Len(file.log)
    BY NothingUnsynced, KeptInLog
<1>6. /\ t.records = ResumeOf(file).records
      /\ ResumeOf(file).seal = Seal(Len(t.records), t.payload)
    BY <1>2, <1>3, <1>4
<1>7. GivenOK'
    <2>1. \A n \in Kept..Len(file.log) :
              /\ \A g \in answered' : IsPrefix(g, ResumeAt(file, n).records)
              /\ \A s \in tapes' : /\ s.records = ResumeAt(file, n).records
                                   /\ ResumeAt(file, n).seal = Seal(Len(s.records), s.payload)
        BY <1>2, <1>3, <1>5, <1>6 DEF Released, GivenOK, ResumeOf
    <2> QED BY <2>1 DEF GivenOK, Kept, ResumeAt
<1>8. OneTape'
    <2>1. ASSUME NEW s \in tapes PROVE s = t
        <3>1. /\ s.records = ResumeOf(file).records
              /\ ResumeOf(file).seal = Seal(Len(s.records), s.payload)
            BY <1>3, KeptInLog DEF Released, GivenOK, ResumeOf
        <3>2. Seal(Len(s.records), s.payload).payload = s.payload
              /\ Seal(Len(t.records), t.payload).payload = t.payload
            BY DEF Seal
        <3>3. s.records = t.records /\ s.payload = t.payload BY <1>6, <3>1, <3>2
        <3>4. s \in Tape BY DEF Agrees, Types
        <3>5. s = [records |-> s.records, payload |-> s.payload] BY <3>4 DEF Tape
        <3> QED BY <1>1, <1>2, <3>3, <3>5
    <2> QED BY <1>2, <2>1 DEF OneTape
<1>9. OneMovePerChallenge' BY <1>2 DEF Released, OneMovePerChallenge
<1>10. DuplexGivenOK' BY DEF DuplexGivenOK, Durable
<1>11. NothingGiven' BY DEF Agrees, BrokerOK, NothingGiven
<1> QED BY <1>7, <1>8, <1>9, <1>10, <1>11 DEF Released

\* A step that changes only the broker of a durable attempt gives nothing.
LEMMA DurableQuietReleased ==
    ASSUME Released, Durable, UNCHANGED <<mode, faults, lives, file, answered, tapes>>
    PROVE  Released'
<1>1. GivenOK' BY DEF Released, GivenOK, Kept, Durable, ResumeAt
<1>2. DuplexGivenOK' BY DEF DuplexGivenOK, Durable
<1> QED BY <1>1, <1>2, QuietReleased

\* The journaled answer is given.
LEMMA ReplyReleased ==
    ASSUME Agrees, Released, OneFault, Reply
    PROVE  Released'
<1>1. /\ broker.pc = "reply" /\ broker \in Broker /\ Gives(broker, broker.pending)
      /\ UNCHANGED <<mode, faults, file, lives>> /\ Running
    BY DEF Reply, Agrees, Types, Running
<1>2. Durable /\ broker.pending \in Rec
    BY <1>1 DEF Agrees, DuplexOK, BrokerOK, Appending, Broker
<1>3. CASE IsChallenge(broker.pending)
    BY <1>1, <1>2, <1>3, RecKinds, GivesChallengeReleased DEF Due
<1>4. CASE IsMask(broker.pending)
    <2>1. ~IsChallenge(broker.pending) /\ ~IsSeal(broker.pending) BY <1>2, <1>4, RecKinds
    <2>2. UNCHANGED <<answered, tapes>> BY <1>1, <2>1 DEF Gives
    <2> QED BY <1>1, <1>2, <2>2, DurableQuietReleased
<1>5. CASE IsSeal(broker.pending)
    <2>1. broker.pending \in SealRec /\ ~IsChallenge(broker.pending) BY <1>2, <1>5, RecKinds
    <2>2. ~Replaying BY <1>1, <1>2, <1>5 DEF Agrees, ReplayOK
    <2>3. broker.journal.seal = broker.pending /\ broker.pending.at = Len(broker.records)
        BY <1>1, <1>2, <1>5 DEF Agrees, SealOK
    <2> QED BY <1>1, <1>2, <2>1, <2>2, <2>3, GivesFinishReleased
<1> QED BY <1>2, <1>3, <1>4, <1>5, RecKinds

\* A challenge is asked for.
LEMMA ChallengeRequestReleased ==
    ASSUME Agrees, Released, OneFault, NEW m \in Moves, NEW k \in Kinds, ChallengeRequest(m, k)
    PROVE  Released'
<1>1. broker.pc = "idle" /\ UNCHANGED <<mode, faults, file, lives>>
    BY DEF ChallengeRequest
<1>2. PICK r \in ChallengeRec : r = Challenge(m, k) BY RecTypes
<1>3. CASE broker.tape # NoTape \/ MaskDue \/ (Replaying /\ ~ReplayMatches(r))
    <2>1. Ends /\ UNCHANGED <<answered, tapes>> BY <1>2, <1>3 DEF ChallengeRequest
    <2> QED BY <1>1, <2>1, EndsQuietlyReleased
<1>4. CASE ~(broker.tape # NoTape \/ MaskDue \/ (Replaying /\ ~ReplayMatches(r)))
    <2>1. CASE Replaying
        <3>1. Gives(broker, r) /\ ReplayMatches(r) BY <1>2, <1>4, <2>1 DEF ChallengeRequest
        <3> QED BY <1>1, <1>4, <2>1, <3>1, GivesChallengeReleased DEF Due
    <2>2. CASE ~Replaying
        <3>1. Journaled(r) BY <1>2, <1>4, <2>2 DEF ChallengeRequest
        <3>2. CASE Durable
            <4>1. UNCHANGED <<answered, tapes>> BY <3>1, <3>2 DEF Journaled
            <4> QED BY <1>1, <3>2, <4>1, DurableQuietReleased
        <3>3. CASE ~Durable
            <4>1. Gives(broker, r) BY <3>1, <3>3 DEF Journaled
            <4> QED BY <1>1, <1>4, <3>3, <4>1, GivesChallengeReleased DEF Due
        <3> QED BY <3>2, <3>3
    <2> QED BY <2>1, <2>2
<1> QED BY <1>3, <1>4

\* A mask frontier gives no challenge.
LEMMA MaskRequestReleased ==
    ASSUME Agrees, Released, NEW f \in 1..RawCount, NEW d \in Moves, MaskRequest(f, d)
    PROVE  Released'
<1>1. Durable /\ UNCHANGED <<mode, faults, file, lives>> /\ broker \in Broker
    BY DEF MaskRequest, Agrees, Types
<1>2. PICK r \in MaskRec : r = MaskEvent(Len(broker.records), f, d)
    BY <1>1, RecTypes, JournalAssumption DEF Broker
<1>3. ~IsChallenge(r) /\ ~IsSeal(r)
    BY RecKinds DEF Rec, MaskRec, IsMask
<1>4. UNCHANGED <<answered, tapes>>
    BY <1>1, <1>2, <1>3 DEF MaskRequest, Gives, Journaled
<1> QED BY <1>1, <1>4, DurableQuietReleased

\* A finish hands out the outcome that is sealed, or seals the journal first.
LEMMA FinishRequestReleased ==
    ASSUME Agrees, Released, OneFault, NEW p \in Payloads, NEW census \in BOOLEAN,
           FinishRequest(p, census)
    PROVE  Released'
<1>1. broker.pc = "idle" /\ UNCHANGED <<mode, faults, file, lives>> /\ broker \in Broker
      /\ Running /\ broker.pending = NoSeal
    BY DEF FinishRequest, Agrees, Types, Running, BrokerOK, Appending
<1>2. PICK r \in SealRec : r = Seal(Len(broker.records), p)
    BY <1>1, RecTypes DEF Broker
<1>3. r.at = Len(broker.records) /\ ~IsChallenge(broker.pending)
    BY <1>1, <1>2, NoSealKind DEF Seal
<1> DEFINE sealed == broker.resume.seal
           bad == \/ broker.tape # NoTape \/ ~AtFrontier \/ ~census
                  \/ sealed # NoSeal /\ sealed # r
<1>4. CASE bad
    <2>1. Ends /\ UNCHANGED <<answered, tapes>> BY <1>2, <1>4 DEF FinishRequest
    <2> QED BY <1>1, <2>1, EndsQuietlyReleased
<1>5. CASE ~bad /\ Durable
    <2>1. ~Replaying BY <1>5 DEF AtFrontier
    <2>2. CASE sealed # NoSeal
        <3>1. Gives(broker, r) BY <1>2, <1>5, <2>2 DEF FinishRequest
        <3>2. broker.journal.seal = r BY <1>1, <1>5, <2>2 DEF Agrees, SealOK
        <3> QED BY <1>1, <1>3, <1>5, <2>1, <3>1, <3>2, GivesFinishReleased
    <2>3. CASE sealed = NoSeal
        <3>1. Journaled(r) BY <1>2, <1>5, <2>3 DEF FinishRequest
        <3>2. UNCHANGED <<answered, tapes>> BY <1>5, <3>1 DEF Journaled
        <3> QED BY <1>1, <1>5, <3>2, DurableQuietReleased
    <2> QED BY <2>2, <2>3
<1>6. CASE ~bad /\ ~Durable
    <2>1. Gives(broker, r) BY <1>2, <1>6 DEF FinishRequest, Journaled
    <2>2. Len(broker.mirror) = Len(broker.records) BY <1>6 DEF AtFrontier
    <2>3. /\ answered' = answered /\ tapes' = tapes
          /\ broker'.tape = NoTape => broker.records = <<>> /\ broker'.records = <<>>
        BY <1>1, <1>6, <2>1, <2>2, GivesDuplexFinishAgrees
    <2>4. GivenOK' BY <1>1, <1>6 DEF GivenOK, Durable
    <2>5. DuplexGivenOK'
        BY <1>1, <1>6, <2>3 DEF Released, DuplexGivenOK, Durable
    <2> QED BY <1>1, <2>3, <2>4, <2>5, QuietReleased
<1> QED BY <1>4, <1>5, <1>6

\* The mirror is given only what the provider was given.
LEMMA MirrorReleased ==
    ASSUME Agrees, Released, NEW m \in Moves, NEW k \in Kinds, MirrorChallenge(m, k)
    PROVE  Released'
<1>1. /\ broker.pc = "idle" /\ ~Durable /\ broker \in Broker /\ Running
      /\ UNCHANGED <<mode, faults, file, lives, answered, tapes>>
    BY DEF MirrorChallenge, Agrees, Types, Running
<1>2. CASE Ends
    BY <1>1, <1>2, EndsQuietlyReleased
<1>3. CASE broker' = [broker EXCEPT !.mirror = Append(@, Challenge(m, k))]
    <2>1. broker'.records = broker.records /\ broker'.tape = broker.tape
        BY <1>1, <1>3 DEF Broker
    <2>2. GivenOK' BY <1>1 DEF GivenOK, Durable
    <2>3. DuplexGivenOK' BY <1>1, <2>1 DEF Released, DuplexGivenOK
    <2> QED BY <1>1, <2>2, <2>3, QuietReleased
<1> QED BY <1>2, <1>3 DEF MirrorChallenge

\* A duplex attempt has one outcome, and a fault takes back nothing that was given.
LEMMA EndReleased ==
    ASSUME Agrees, Released,
           (\E p \in Payloads : MirrorFinish(p)) \/ Disconnect \/ Crash \/ PowerLoss
    PROVE  Released'
<1>1. UNCHANGED <<mode, faults, lives, answered>> /\ Ends
    BY DEF MirrorFinish, Disconnect, Crash, PowerLoss
<1>2. ~Running' BY <1>1 DEF Ends, Off, Running
<1>3. DuplexGivenOK' BY <1>2 DEF DuplexGivenOK
<1>4. ASSUME NEW p \in Payloads, MirrorFinish(p) PROVE Released'
    <2>1. Running /\ ~Durable /\ (tapes' = tapes \/ tapes' = tapes \cup {broker.tape})
        BY <1>4 DEF MirrorFinish, Running
    <2>2. tapes = {} /\ lives # 0
        BY <2>1 DEF Released, DuplexGivenOK, Agrees, BrokerOK
    <2>3. OneTape' BY <2>1, <2>2 DEF OneTape
    <2>4. NothingGiven' BY <1>1, <2>2 DEF NothingGiven
    <2>5. GivenOK' BY <1>1, <2>1 DEF GivenOK, Durable
    <2>6. OneMovePerChallenge' BY <1>1 DEF Released, OneMovePerChallenge
    <2> QED BY <1>3, <2>3, <2>4, <2>5, <2>6 DEF Released
<1>5. CASE Disconnect \/ Crash
    <2>1. file' = file /\ tapes' = tapes BY <1>5 DEF Disconnect, Crash
    <2> QED BY <1>1, <2>1, EndsQuietlyReleased
<1>6. CASE PowerLoss
    <2>1. file' \in Survivors(file) /\ tapes' = tapes /\ Durable /\ "power" \in faults
        BY <1>6 DEF PowerLoss
    <2>2. file \in File /\ file.synced <= Len(file.log) /\ Len(file.log) \in Nat
          /\ file.synced \in Nat
        BY DEF Agrees, Types, File
    <2>3. CASE file' = NoFile
        <3>1. file'.entry = "none" BY <2>3 DEF NoFile
        <3>2. GivenOK' BY <3>1 DEF GivenOK
        <3> QED BY <1>1, <1>3, <2>1, <3>2, QuietReleased
    <2>4. ASSUME NEW n \in file.synced..Len(file.log), Remains(file, file', n) PROVE Released'
        <3>1. /\ file'.entry = file.entry /\ file'.synced = n /\ Len(file'.log) = n
              /\ n \in Nat /\ ResumeAt(file', n) = ResumeAt(file, n)
            BY <2>2, <2>4 DEF Remains
        <3>2. n \in Kept..Len(file.log) BY <2>1 DEF Kept
        <3>3. Kept' = n BY <1>1, <2>1, <3>1 DEF Kept
        <3>4. \A i \in n..n : i = n BY <3>1
        <3>5. GivenOK'
            <4>1. SUFFICES ASSUME file.entry # "none"
                           PROVE  /\ \A g \in answered : IsPrefix(g, ResumeAt(file', n).records)
                                  /\ \A t \in tapes :
                                        /\ t.records = ResumeAt(file', n).records
                                        /\ ResumeAt(file', n).seal = Seal(Len(t.records), t.payload)
                BY <1>1, <2>1, <3>1, <3>3, <3>4 DEF GivenOK, ResumeAt
            <4> QED BY <2>1, <3>1, <3>2, <4>1 DEF Released, GivenOK
        <3> QED BY <1>1, <1>3, <2>1, <3>5, QuietReleased
    <2> QED BY <2>1, <2>2, <2>3, <2>4, SurvivorFacts
<1> QED BY <1>4, <1>5, <1>6

-----------------------------------------------------------------------------
(* Theorems *)

\* Memory and file agree in every reachable state, in every fault mode.
THEOREM BrokerAgrees == Spec => []Agrees
<1>1. Init => Agrees
    <2> SUFFICES ASSUME Init PROVE Agrees OBVIOUS
    <2>1. /\ broker = Off /\ file = NoFile /\ lives = 0 /\ answered = {} /\ tapes = {}
          /\ mode \in Modes /\ faults \in FaultModes
        BY DEF Init
    <2>2. /\ Off.pc = "off" /\ Off.pending = NoSeal /\ Off.replayed = 0
          /\ Off.resume.masks = <<>> /\ Len(<<>>) = 0
          /\ NoFile.log = <<>> /\ NoFile.synced = 0
        BY DEF Off, Fresh, NoFile
    <2>3. ~Running /\ ~Appending BY <2>1, <2>2 DEF Running, Appending
    <2>4. Types BY <2>1, <2>2, StartTypes, BrokerAssumption DEF Types
    <2>5. LogOK BY <2>1, <2>2 DEF LogOK
    <2>6. BrokerOK BY <2>1, <2>2, <2>3 DEF BrokerOK
    <2>7. CopyOK /\ ReplayOK /\ SealOK BY <2>3 DEF CopyOK, ReplayOK, SealOK
    <2>8. SyncOK BY <2>1, <2>2 DEF SyncOK
    <2>9. DuplexOK BY <2>1, <2>2, <2>3 DEF DuplexOK
    <2>10. OffOK BY <2>1 DEF OffOK
    <2> QED BY <2>4, <2>5, <2>6, <2>7, <2>8, <2>9, <2>10 DEF Agrees
<1>2. Agrees /\ [Next]_vars => Agrees'
    <2> SUFFICES ASSUME Agrees, [Next]_vars PROVE Agrees' OBVIOUS
    <2>1. CASE Create \/ Open \/ SpawnDuplex BY <2>1, StartAgrees
    <2>2. CASE AppendWrite BY <2>2, AppendWriteAgrees
    <2>3. CASE AppendSync BY <2>3, AppendSyncAgrees
    <2>4. CASE Reply BY <2>4, ReplyAgrees
    <2>5. ASSUME NEW m \in Moves, NEW k \in Kinds, ChallengeRequest(m, k) PROVE Agrees'
        BY <2>5, ChallengeRequestAgrees
    <2>6. ASSUME NEW m \in Moves, NEW k \in Kinds, MirrorChallenge(m, k) PROVE Agrees'
        BY <2>6, MirrorAgrees
    <2>7. ASSUME NEW f \in 1..RawCount, NEW d \in Moves, MaskRequest(f, d) PROVE Agrees'
        BY <2>7, MaskRequestAgrees
    <2>8. ASSUME NEW p \in Payloads, NEW census \in BOOLEAN, FinishRequest(p, census)
          PROVE  Agrees'
        BY <2>8, FinishRequestAgrees
    <2>9. CASE (\E p \in Payloads : MirrorFinish(p)) \/ Disconnect \/ Crash \/ PowerLoss
        BY <2>9, EndAgrees
    <2>10. CASE UNCHANGED vars
        <3>1. UNCHANGED <<mode, faults, file, broker, lives, answered, tapes>> BY <2>10 DEF vars
        <3>2. Types' /\ LogOK' /\ BrokerOK'
            BY <3>1 DEF Agrees, Types, LogOK, BrokerOK, Legal, ResumeAt, Running, Appending
        <3>3. CopyOK' /\ ReplayOK' /\ SealOK'
            BY <3>1 DEF Agrees, CopyOK, ReplayOK, SealOK, Durable, Running, Replaying, ResumeOf,
                        ResumeAt, Placed
        <3>4. SyncOK' /\ DuplexOK' /\ OffOK'
            BY <3>1 DEF Agrees, SyncOK, DuplexOK, OffOK, Durable, Running
        <3> QED BY <3>2, <3>3, <3>4 DEF Agrees
    <2> QED
        BY <2>1, <2>2, <2>3, <2>4, <2>5, <2>6, <2>7, <2>8, <2>9, <2>10 DEF Next
<1> QED BY <1>1, <1>2, PTL DEF Spec

\* Where the two kinds of faults do not meet, what was given agrees with the file.
THEOREM BrokerReleased == ASSUME FaultsApart PROVE Spec => []Released
<1>1. Init => Released
    BY DEF Init, Released, GivenOK, DuplexGivenOK, OneMovePerChallenge, OneTape, NothingGiven
<1>2. Agrees => OneFault
    BY DEF Agrees, Types, FaultsApart, OneFault
<1>3. Agrees /\ Released /\ [Next]_vars => Released'
    <2> SUFFICES ASSUME Agrees, Released, [Next]_vars PROVE Released' OBVIOUS
    <2>0. OneFault BY <1>2
    <2>1. CASE Create \/ Open \/ SpawnDuplex BY <2>1, StartReleased
    <2>2. CASE AppendWrite BY <2>2, AppendWriteReleased
    <2>3. CASE AppendSync BY <2>3, AppendSyncReleased
    <2>4. CASE Reply BY <2>0, <2>4, ReplyReleased
    <2>5. ASSUME NEW m \in Moves, NEW k \in Kinds, ChallengeRequest(m, k) PROVE Released'
        BY <2>0, <2>5, ChallengeRequestReleased
    <2>6. ASSUME NEW m \in Moves, NEW k \in Kinds, MirrorChallenge(m, k) PROVE Released'
        BY <2>6, MirrorReleased
    <2>7. ASSUME NEW f \in 1..RawCount, NEW d \in Moves, MaskRequest(f, d) PROVE Released'
        BY <2>7, MaskRequestReleased
    <2>8. ASSUME NEW p \in Payloads, NEW census \in BOOLEAN, FinishRequest(p, census)
          PROVE  Released'
        BY <2>0, <2>8, FinishRequestReleased
    <2>9. CASE (\E p \in Payloads : MirrorFinish(p)) \/ Disconnect \/ Crash \/ PowerLoss
        BY <2>9, EndReleased
    <2>10. CASE UNCHANGED vars
        BY <2>10 DEF vars, Released, GivenOK, DuplexGivenOK, OneMovePerChallenge, OneTape,
                     NothingGiven, Kept, Durable, ResumeAt, Running
    <2> QED
        BY <2>1, <2>2, <2>3, <2>4, <2>5, <2>6, <2>7, <2>8, <2>9, <2>10 DEF Next
<1> QED BY <1>1, <1>3, BrokerAgrees, PTL DEF Spec

\* Type correctness; in particular every file that any fault leaves is one that
\* parse accepts record by record.
THEOREM BrokerTypes == Spec => []TypeOK
<1>1. Agrees => TypeOK
    <2> SUFFICES ASSUME Agrees PROVE TypeOK OBVIOUS
    <2>1. /\ mode \in Modes /\ faults \in FaultModes /\ lives \in 0..MaxLives
          /\ file \in File /\ file.synced <= Len(file.log) /\ broker \in Broker
        BY DEF Agrees, Types
    <2>2. file.entry \in {"none", "unsynced", "synced"} /\ file.torn \in BOOLEAN
          /\ file.synced \in 0..Len(file.log)
        BY <2>1 DEF File
    <2>3. broker.pc \in {"off", "idle", "append", "sync", "reply"}
          /\ broker.replayed \in 0..Len(broker.resume.masks)
        BY <2>1 DEF Broker, Resume, Agrees, BrokerOK
    <2>4. broker.pc \in {"append", "sync", "reply"} <=> broker.pending # NoSeal
        BY DEF Agrees, BrokerOK, Appending
    <2>5. \A i \in 1..Len(file.log) : Legal(file, i) BY DEF Agrees, LogOK
    <2> QED BY <2>1, <2>2, <2>3, <2>4, <2>5 DEF TypeOK
<1> QED BY <1>1, BrokerAgrees, PTL

\* No rewinding: over all lives of an attempt broker_loop answers a place of the
\* challenge stream for one sequence of moves.
THEOREM OneMovePerChallengeAlways == ASSUME FaultsApart PROVE Spec => []OneMovePerChallenge
<1>1. Released => OneMovePerChallenge BY DEF Released
<1> QED BY <1>1, BrokerReleased, PTL

\* Write-ahead: what any life was given is in every journal that can be opened, and
\* in its synced part when power may be lost.
THEOREM ReleasedJournaledAlways == ASSUME FaultsApart PROVE Spec => []ReleasedJournaled
<1>1. Agrees /\ Released => ReleasedJournaled
    <2>1. ASSUME Agrees, Released PROVE ReleasedJournaled
        <3>1. Kept \in Kept..Len(file.log) BY <2>1, KeptInLog
        <3>2. Opens(file) => file.entry # "none" BY DEF Opens
        <3> QED BY <2>1, <3>1, <3>2 DEF Released, GivenOK, ReleasedJournaled, Kept
    <2> QED BY <2>1
<1> QED BY <1>1, BrokerAgrees, BrokerReleased, PTL

\* One outcome: the tapes of all lives are one, and it is the one the journal is
\* sealed with or the mirror was given.
THEOREM SealedOnceAlways == ASSUME FaultsApart PROVE Spec => []SealedOnce
<1>1. Agrees /\ Released => SealedOnce
    <2>1. ASSUME Agrees, Released PROVE SealedOnce
        <3>1. Cardinality(tapes) <= 1
            <4>1. CASE tapes = {} BY <4>1, FS_EmptySet
            <4>2. CASE tapes # {}
                <5>1. PICK t \in tapes : TRUE BY <4>2
                <5>2. tapes = {t} BY <2>1, <5>1 DEF Released, OneTape
                <5> QED BY <5>2, FS_Singleton
            <4> QED BY <4>1, <4>2
        <3>2. ASSUME Durable, Opens(file), NEW t \in tapes
              PROVE  /\ t.records = ResumeOf(file).records
                     /\ ResumeOf(file).seal = Seal(Len(t.records), t.payload)
            BY <2>1, <3>2, KeptInLog DEF Released, GivenOK, Opens, ResumeOf
        <3>3. ASSUME broker.tape # NoTape PROVE broker.mirror = broker.tape.records
            <4>1. Running
                <5>1. Off.tape = NoTape BY DEF Off
                <5> QED BY <2>1, <3>3, <5>1 DEF Agrees, OffOK
            <4>2. ~Durable BY <2>1, <3>3, <4>1 DEF Agrees, ReplayOK
            <4> QED BY <2>1, <3>3, <4>1, <4>2 DEF Agrees, DuplexOK
        <3> QED BY <3>1, <3>2, <3>3 DEF SealedOnce
    <2> QED BY <2>1
<1> QED BY <1>1, BrokerAgrees, BrokerReleased, PTL

=============================================================================
