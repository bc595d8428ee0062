------------------------- MODULE ConnectionJournal -------------------------
(***************************************************************************)
(* The append-only journal of one connection identity: the file, its       *)
(* records, and the one question ever asked of it, whether it holds a      *)
(* terminal record.                                                        *)
(*                                                                         *)
(* Source: rust/volta-pcg/src/production.rs (append_record,                *)
(* journal_contains_terminal, burn_existing_journal, sync_directory).      *)
(*                                                                         *)
(* A journal is                                                            *)
(*   exists  the file is in the directory,                                 *)
(*   linked  its directory entry survives a loss of power,                 *)
(*   log     its records; the first is OPEN iff the file starts with the   *)
(*           magic,                                                        *)
(*   synced  how many of them survive a loss of power,                     *)
(*   torn    the file does not end in a newline.                           *)
(* The text of a record is a TLA+ record; a record written behind a torn   *)
(* one is glued to it, and the search for "\nTERMINAL|" misses it.  The    *)
(* ledger digests in the records are left out: nothing reads them back.    *)
(***************************************************************************)
EXTENDS Naturals, Sequences

CONSTANTS
    None,   \* an absent stage, key or tag
    Faults  \* how an append may fail

ASSUME FaultsAssumption == Faults \subseteq {"nothing", "torn", "prefix", "unsynced"}

Outcomes == Faults \cup {"ok"}

Kinds == {"OPEN", "ACTIVE", "STAGE", "BASE_INPUTS_CONSUMED", "RESERVED_AS_BASE",
          "STAGE_OUTPUT_BURN", "RESPONSE_BEGIN", "ALLOCATE", "SETTLEMENT_ALLOCATE",
          "CHANNEL", "RESPONSE_SUCCESS", "RESPONSE_ABORT", "CLAIMS_FROZEN",
          "SETTLEMENT_SEAL", "SETTLEMENT_FRESHNESS", "SETTLEMENT_SUCCESS",
          "SETTLEMENT_FAILURE", "TERMINAL"}

\* A record: stage is the stage it draws on, key the response nonce, settlement
\* epoch or child stage it belongs to, tag the rest of a correlation domain;
\* start and count are a range or an account.
Rec(kind, stage, start, count, key, tag) ==
    [kind |-> kind, stage |-> stage, start |-> start, count |-> count,
     key |-> key, tag |-> tag, glued |-> FALSE]

Mark(kind) == Rec(kind, None, 0, 0, None, None)

NoJournal == [exists |-> FALSE, linked |-> FALSE, log |-> <<>>, synced |-> 0, torn |-> FALSE]

Written(j, r) == [j EXCEPT !.log = Append(@, [r EXCEPT !.glued = j.torn]), !.torn = FALSE]

Synced(j) == [j EXCEPT !.synced = Len(j.log)]

\* write_all and sync_all of one record.  A failing write leaves nothing or a
\* piece of the record without its newline; the piece of an OPEN or a TERMINAL
\* may be long enough for journal_contains_terminal ("prefix").  A failing
\* sync leaves the record in the file, of unknown durability.
Appended(j, r, o) ==
    CASE o = "ok" -> Synced(Written(j, r))
      [] o = "nothing" -> j
      [] o = "unsynced" -> Written(j, r)
      [] o = "prefix" /\ r.kind \in {"OPEN", "TERMINAL"} -> [Written(j, r) EXCEPT !.torn = TRUE]
      [] OTHER -> [j EXCEPT !.torn = TRUE]

\* journal_contains_terminal
ContainsTerminal(j) ==
    /\ j.log # <<>>
    /\ j.log[1].kind = "OPEN"
    /\ \E i \in 2..Len(j.log) : j.log[i].kind = "TERMINAL" /\ ~j.log[i].glued

\* A variant: no newline in front of the record.
NewlineForgotten(j) == j

\* The newline burn_existing_journal puts in front of its record.
NewlineWritten(j) == [j EXCEPT !.torn = FALSE]

\* What burn_existing_journal leaves: its write begins with a newline, so a
\* failing one stops before the newline, right behind it, or within the record.
BurnedJournals(j, o) ==
    IF o = "nothing" THEN {j}
    ELSE {Appended(NewlineWritten(j), Mark("TERMINAL"), o)}
             \cup (IF o = "torn" THEN {NewlineWritten(j)} ELSE {})

\* What a loss of power leaves of a journal: at least what was synced, perhaps
\* a piece of the first record lost, and no file if its entry was not synced.
Survivors(j) ==
    {[j EXCEPT !.log = SubSeq(@, 1, cut[1]), !.synced = cut[1], !.linked = j.exists,
               !.torn = cut[2]] :
        cut \in {p \in (j.synced..Len(j.log)) \X BOOLEAN :
                    p[2] => p[1] < Len(j.log) \/ j.torn}}
    \cup (IF j.linked THEN {} ELSE {NoJournal})

\* sync_directory: the entries of all the journals of the store.
DirSynced(js) == [c \in DOMAIN js |-> [js[c] EXCEPT !.linked = @ \/ js[c].exists]]

=============================================================================
