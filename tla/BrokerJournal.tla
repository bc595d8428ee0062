---------------------------- MODULE BrokerJournal ---------------------------
(***************************************************************************)
(* The C6ICJ1 journal of an interactive attempt: an append-only file of    *)
(* challenge, mask-frontier and finish records, what a reader recovers     *)
(* from it, and what of it outlives a loss of power.                       *)
(*                                                                         *)
(* A challenge's value is what the verifier's seed gives for the kinds     *)
(* drawn so far, so a challenge record is its move and its kind.  The      *)
(* checksum chain is what makes a partial record unreadable.  An entry of  *)
(* the file carries the state that parse reaches with it, so that reading  *)
(* needs no recursion.                                                     *)
(***************************************************************************)
EXTENDS Integers, Sequences, SequencesExt

CONSTANTS
    Moves,           \* provider moves, and the pending bytes a mask is bound to
    Kinds,           \* challenge kinds
    Payloads,        \* final artifacts
    RawCount,        \* the largest mask frontier the reserved range allows
    MaxMaskEvents

ASSUME JournalAssumption == RawCount \in Nat /\ MaxMaskEvents \in Nat

Challenge(m, k) == [tag |-> "challenge", move |-> m, kind |-> k]
MaskEvent(at, f, d) == [tag |-> "mask", at |-> at, frontier |-> f, digest |-> d]
Seal(at, p) == [tag |-> "finish", at |-> at, payload |-> p]

NoSeal == [tag |-> "none"]

\* The file: whether its directory entry exists and is durable, its whole
\* records, how many of them are durable, and whether a partial one follows.
NoFile == [entry |-> "none", log |-> <<>>, synced |-> 0, torn |-> FALSE]
NewFile == [NoFile EXCEPT !.entry = "synced"]

IsChallenge(r) == r.tag = "challenge"
IsMask(r) == r.tag = "mask"
IsSeal(r) == r.tag = "finish"

LastFrontier(masks) == IF masks = <<>> THEN 0 ELSE masks[Len(masks)].frontier

\* What C61DurableResume holds of an empty journal.
Fresh == [records |-> <<>>, masks |-> <<>>, seal |-> NoSeal]

\* The resume state after one more record, in memory and in parse.
Extended(resume, r) ==
    CASE IsChallenge(r) -> [resume EXCEPT !.records = Append(@, r)]
      [] IsMask(r) -> [resume EXCEPT !.masks = Append(@, r)]
      [] IsSeal(r) -> [resume EXCEPT !.seal = r]

\* What parse has read after n records, and at the end.
ResumeAt(file, n) == IF n = 0 THEN Fresh ELSE file.log[n].after
ResumeOf(file) == ResumeAt(file, Len(file.log))

\* parse accepts record i after those before it.
Legal(file, i) ==
    LET before == ResumeAt(file, i - 1)
        r == file.log[i].rec
    IN  /\ before.seal = NoSeal
        /\ IsMask(r) =>
              /\ r.at = Len(before.records)
              /\ r.frontier > LastFrontier(before.masks)
              /\ r.frontier <= RawCount
              /\ Len(before.masks) < MaxMaskEvents
        /\ IsSeal(r) => r.at = Len(before.records)

\* C61DurableJournal::open succeeds: the file is there, whole and legal.
Opens(file) ==
    /\ file.entry # "none"
    /\ ~file.torn
    /\ \A i \in 1..Len(file.log) : Legal(file, i)

\* The two steps of append.
Written(file, r) ==
    [file EXCEPT !.log = Append(@, [rec |-> r, after |-> Extended(ResumeOf(file), r)])]
Synced(file) == [file EXCEPT !.synced = Len(file.log)]

\* A variant: a mask frontier may go back.
CanAppendAnyFrontier(resume, r) == resume.seal = NoSeal

\* The conditions under which append_challenge, append_mask_frontier and
\* append_finish write.
CanAppend(resume, r) ==
    /\ resume.seal = NoSeal
    /\ IsMask(r) => /\ r.frontier > LastFrontier(resume.masks)
                    /\ r.frontier <= RawCount
                    /\ Len(resume.masks) < MaxMaskEvents

\* A loss of power keeps the durable records and any part of the others, the
\* last of them possibly cut; an entry that is not durable may be gone.
Survivors(file) ==
    {[file EXCEPT !.log = SubSeq(@, 1, cut[1]), !.synced = cut[1], !.torn = cut[2]] :
        cut \in {p \in (file.synced..Len(file.log)) \X BOOLEAN :
                    p[2] => p[1] < Len(file.log) \/ file.torn}}
    \cup IF file.entry = "unsynced" THEN {NoFile} ELSE {}

=============================================================================
