-------------------------- MODULE InteractiveBroker -------------------------
(***************************************************************************)
(* The C6.1 private-entropy broker: the verifier's side of one interactive *)
(* attempt.  A provider sends its moves and asks for challenges; the       *)
(* broker draws them from a seed of its own and answers.  The seed's       *)
(* stream does not depend on the moves, so a provider that were answered   *)
(* twice for one place of the stream could choose its move after it knows  *)
(* the challenge.  Two things prevent that: a durable attempt journals     *)
(* each answer before it gives it, and an attempt that is resumed after a  *)
(* crash answers again only what the journal has, to the journaled moves.  *)
(* A duplex attempt has no journal and one more client, a mirror that      *)
(* replays the provider's moves while they are made.                       *)
(*                                                                         *)
(* The provider may send anything, in any life of the attempt.             *)
(***************************************************************************)
EXTENDS BrokerJournal, FiniteSets

CONSTANTS
    MaxChallenges,    \* bound on the challenges of one life
    MaxLives,         \* bound on the times the attempt is started
    Modes,            \* "durable", "duplex"
    FaultModes        \* sets of faults: "process", "power"

ASSUME BrokerAssumption == MaxLives \in Nat \ {0}

VARIABLES
    mode,        \* durable or duplex
    faults,      \* the faults of this behaviour
    file,        \* the journal on disk
    broker,      \* the broker thread
    lives,       \* how often the attempt was started
    answered,    \* what providers were given: sequences of challenges
    tapes        \* the tapes handed out when an attempt finished

vars == <<mode, faults, file, broker, lives, answered, tapes>>

NoTape == [records |-> <<>>, payload |-> "none"]

\* A broker that is not running.
Off ==
    [ pc |-> "off",
      resume |-> Fresh,      \* what the journal held when the broker started
      journal |-> Fresh,     \* what the open journal holds
      records |-> <<>>,      \* the challenges of this life
      masks |-> <<>>,        \* the mask events of this life
      replayed |-> 0,        \* the mask events of the journal replayed so far
      mirror |-> <<>>,       \* the challenges the mirror was given
      tape |-> NoTape,       \* a duplex tape the mirror has not sealed yet
      pending |-> NoSeal ]   \* the record being appended

Durable == mode = "durable"

-----------------------------------------------------------------------------
(* Starting and resuming an attempt.                                       *)

\* create: the journal is new; the attempt is created once.  Its directory may
\* fail to sync, which leaves a journal that can be opened.
Create ==
    /\ Durable /\ lives = 0 /\ file = NoFile
    /\ lives' = 1
    /\ \/ /\ file' = NewFile
          /\ broker' = [Off EXCEPT !.pc = "idle"]
       \/ /\ file' = [NewFile EXCEPT !.entry = "unsynced"]
          /\ UNCHANGED broker
    /\ UNCHANGED <<mode, faults, answered, tapes>>

\* open, and the broker that resumes from what it read.
Open ==
    /\ Durable /\ broker.pc = "off" /\ lives \in 1..(MaxLives - 1)
    /\ Opens(file)
    /\ lives' = lives + 1
    /\ broker' = [Off EXCEPT !.pc = "idle", !.resume = ResumeOf(file),
                             !.journal = ResumeOf(file)]
    /\ UNCHANGED <<mode, faults, file, answered, tapes>>

\* The duplex broker starts without a journal.
SpawnDuplex ==
    /\ ~Durable /\ lives = 0
    /\ lives' = 1
    /\ broker' = [Off EXCEPT !.pc = "idle"]
    /\ UNCHANGED <<mode, faults, file, answered, tapes>>

-----------------------------------------------------------------------------
(* Answers.                                                                *)

\* The broker answers with an error, or not at all, and ends.
Ends == broker' = Off

\* What a broker holds once it has answered r.
Answered(b, r) ==
    LET c == [b EXCEPT !.pc = "idle", !.pending = NoSeal]
    IN  CASE IsChallenge(r) -> [c EXCEPT !.records = Append(@, r)]
          [] IsMask(r) -> [c EXCEPT !.masks = Append(@, r)]
          [] IsSeal(r) -> IF Durable THEN Off
                                 ELSE [c EXCEPT !.tape = [records |-> b.records,
                                                          payload |-> r.payload],
                                                !.records = <<>>]

\* The answer is sent.  A durable attempt that finishes hands out its tape.
Gives(b, r) ==
    /\ answered' = IF IsChallenge(r) THEN answered \cup {Append(b.records, r)} ELSE answered
    /\ broker' = Answered(b, r)
    /\ tapes' = IF IsSeal(r) /\ Durable
                THEN tapes \cup {[records |-> b.records, payload |-> r.payload]}
                ELSE tapes

\* A variant: a fresh answer is sent before it is journaled.
AnswerAtOnce(r) == Gives(broker, r)

\* A fresh answer is journaled first when there is a journal; a journal that
\* does not take the record ends the broker.
Journaled(r) ==
    IF ~Durable THEN Gives(broker, r)
    ELSE /\ IF CanAppend(broker.journal, r)
            THEN broker' = [broker EXCEPT !.pc = "append", !.pending = r]
            ELSE Ends
         /\ UNCHANGED <<answered, tapes>>

\* The journal places a mask event or a seal behind the challenges it has.
Placed(r) ==
    IF IsChallenge(r) THEN r ELSE [r EXCEPT !.at = Len(broker.journal.records)]

\* write_all: the record reaches the file, or a part of it or nothing does.
AppendWrite ==
    /\ broker.pc = "append"
    /\ \/ file' = Written(file, Placed(broker.pending)) /\ broker' = [broker EXCEPT !.pc = "sync"]
       \/ file' = [file EXCEPT !.torn = TRUE] /\ Ends
       \/ UNCHANGED file /\ Ends
    /\ UNCHANGED <<mode, faults, lives, answered, tapes>>

\* sync_all, which may fail and end the broker.
AppendSync ==
    /\ broker.pc = "sync"
    /\ \/ /\ file' = Synced(file)
          /\ broker' = [broker EXCEPT !.pc = "reply",
                                      !.journal = Extended(@, Placed(broker.pending))]
       \/ "process" \in faults /\ UNCHANGED file /\ Ends
    /\ UNCHANGED <<mode, faults, lives, answered, tapes>>

Reply ==
    /\ broker.pc = "reply"
    /\ Gives(broker, broker.pending)
    /\ UNCHANGED <<mode, faults, file, lives>>

-----------------------------------------------------------------------------
(* The provider's requests.                                                *)

\* A mask event the journal has at this place was not replayed yet.
MaskDue ==
    /\ broker.replayed < Len(broker.resume.masks)
    /\ broker.resume.masks[broker.replayed + 1].at = Len(broker.records)

\* A variant: a replayed challenge is compared by kind only.
ReplayMatchesKind(r) ==
    r.kind = broker.resume.records[Len(broker.records) + 1].kind

ReplayMatches(r) == r = broker.resume.records[Len(broker.records) + 1]

Replaying == Len(broker.records) < Len(broker.resume.records)

ChallengeRequest(m, k) ==
    /\ broker.pc = "idle"
    /\ Len(broker.records) < MaxChallenges
    /\ LET r == Challenge(m, k)
       IN  IF broker.tape # NoTape \/ MaskDue \/ (Replaying /\ ~ReplayMatches(r))
           THEN Ends /\ UNCHANGED <<answered, tapes>>
           ELSE IF Replaying THEN Gives(broker, r)
           ELSE Journaled(r)
    /\ UNCHANGED <<mode, faults, file, lives>>

\* A mask event of the journal is replayed at its place; any other is new.
MaskRequest(f, d) ==
    /\ broker.pc = "idle"
    /\ Durable
    /\ LET r == MaskEvent(Len(broker.records), f, d)
           replays == broker.replayed < Len(broker.resume.masks)
       IN  IF \/ f <= LastFrontier(broker.masks)
              \/ replays /\ broker.resume.masks[broker.replayed + 1] # r
           THEN Ends /\ UNCHANGED <<answered, tapes>>
           ELSE IF replays
           THEN Gives([broker EXCEPT !.replayed = @ + 1], r)
           ELSE Journaled(r)
    /\ UNCHANGED <<mode, faults, file, lives>>

\* A variant: a provider may finish before the journal's frontier.
AtFrontierAlways == TRUE

\* All that the journal has was replayed, and the mirror is at the frontier.
AtFrontier ==
    /\ ~Replaying
    /\ Durable => broker.replayed = Len(broker.resume.masks)
    /\ ~Durable => Len(broker.mirror) = Len(broker.records)

\* Finish; a provider whose count of semantic bytes is wrong is refused.
FinishRequest(p, census) ==
    /\ broker.pc = "idle"
    /\ LET r == Seal(Len(broker.records), p)
           sealed == broker.resume.seal
       IN  IF \/ broker.tape # NoTape
              \/ ~AtFrontier
              \/ ~census
              \/ sealed # NoSeal /\ sealed # r
           THEN Ends /\ UNCHANGED <<answered, tapes>>
           ELSE IF sealed # NoSeal THEN Gives(broker, r)
           ELSE Journaled(r)
    /\ UNCHANGED <<mode, faults, file, lives>>

-----------------------------------------------------------------------------
(* The mirror of a duplex attempt.                                         *)

MirrorMatches(m, k) == broker.records[Len(broker.mirror) + 1] = Challenge(m, k)

\* A challenge the provider was given is given to the mirror; a mirror that is
\* ahead of the provider, or differs from it, ends the attempt.
MirrorChallenge(m, k) ==
    /\ broker.pc = "idle" /\ ~Durable
    /\ IF Len(broker.mirror) < Len(broker.records) /\ MirrorMatches(m, k)
       THEN broker' = [broker EXCEPT !.mirror = Append(@, Challenge(m, k))]
       ELSE Ends
    /\ UNCHANGED <<mode, faults, file, lives, answered, tapes>>

MirrorFinish(p) ==
    /\ broker.pc = "idle" /\ ~Durable
    /\ IF /\ broker.tape # NoTape
          /\ Len(broker.mirror) = Len(broker.tape.records)
          /\ p = broker.tape.payload
       THEN tapes' = tapes \cup {broker.tape}
       ELSE UNCHANGED tapes
    /\ Ends
    /\ UNCHANGED <<mode, faults, file, lives, answered>>

\* The provider goes away, and the broker with it.
Disconnect ==
    /\ broker.pc = "idle"
    /\ Ends
    /\ UNCHANGED <<mode, faults, file, lives, answered, tapes>>

-----------------------------------------------------------------------------
(* Faults.                                                                 *)

\* The process dies; the file stays as it was written.
Crash ==
    /\ "process" \in faults
    /\ broker.pc # "off"
    /\ Ends
    /\ UNCHANGED <<mode, faults, file, lives, answered, tapes>>

PowerLoss ==
    /\ "power" \in faults
    /\ Durable /\ lives > 0
    /\ file' \in Survivors(file)
    /\ Ends
    /\ UNCHANGED <<mode, faults, lives, answered, tapes>>

Init ==
    /\ mode \in Modes
    /\ faults \in FaultModes
    /\ file = NoFile
    /\ broker = Off
    /\ lives = 0
    /\ answered = {}
    /\ tapes = {}

Next ==
    \/ Create \/ Open \/ SpawnDuplex
    \/ AppendWrite \/ AppendSync \/ Reply
    \/ \E m \in Moves, k \in Kinds : ChallengeRequest(m, k) \/ MirrorChallenge(m, k)
    \/ \E f \in 1..RawCount, d \in Moves : MaskRequest(f, d)
    \/ \E p \in Payloads : (\E census \in BOOLEAN : FinishRequest(p, census)) \/ MirrorFinish(p)
    \/ Disconnect \/ Crash \/ PowerLoss

Spec == Init /\ [][Next]_vars

-----------------------------------------------------------------------------
(* Properties.                                                             *)

TypeOK ==
    /\ mode \in Modes /\ faults \in FaultModes /\ lives \in 0..MaxLives
    /\ file.entry \in {"none", "unsynced", "synced"}
    /\ file.synced \in 0..Len(file.log) /\ file.torn \in BOOLEAN
    /\ broker.pc \in {"off", "idle", "append", "sync", "reply"}
    /\ broker.pc \in {"append", "sync", "reply"} <=> broker.pending # NoSeal
    /\ broker.replayed \in 0..Len(broker.resume.masks)
    /\ \A i \in 1..Len(file.log) : Legal(file, i)

\* No rewinding: over all lives of an attempt, a place of the challenge stream is
\* answered for one sequence of moves.  A provider that was given a challenge
\* cannot be given the same challenge for another move, or for another past,
\* however broker, file and power fail in between.
OneMovePerChallenge ==
    \A g, h \in answered : IsPrefix(g, h) \/ IsPrefix(h, g)

\* What a provider was answered is in the journal for as long as the journal can
\* be opened, and in its durable part when power may be lost: a life that
\* resumes from it finds every challenge that any life gave away.
ReleasedJournaled ==
    Durable /\ Opens(file) =>
        LET kept == IF "power" \in faults THEN file.synced ELSE Len(file.log)
        IN  \A g \in answered : IsPrefix(g, ResumeAt(file, kept).records)

\* An attempt has one outcome: all tapes its lives hand out have the same
\* challenges and the same artifact, they are those of the sealed journal, and a
\* duplex tape waits only for a mirror that was given all of its challenges.
SealedOnce ==
    /\ Cardinality(tapes) <= 1
    /\ Durable /\ Opens(file) =>
          \A t \in tapes :
              /\ t.records = ResumeOf(file).records
              /\ ResumeOf(file).seal = Seal(Len(t.records), t.payload)
    /\ broker.tape # NoTape => broker.mirror = broker.tape.records

=============================================================================
