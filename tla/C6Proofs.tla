------------------------------ MODULE C6Proofs ------------------------------
(***************************************************************************)
(* Proofs about the exchange of attempts, certificates and                 *)
(* acknowledgements between the C6 client and the provider's slot store,   *)
(* for any number of slots, handles, tapes and counts, with crashes, torn  *)
(* appends, and losses of power on either side.                            *)
(*                                                                         *)
(* One condition is needed, and is a hypothesis of every theorem: a        *)
(* provider that loses power does not go on with a file it failed to sync  *)
(* (SyncedOrKept).  Where it may, RangesExposedOnce is false.              *)
(*                                                                         *)
(* The argument: a slot's journal is never shortened or overwritten, so    *)
(* what a handle has read is always a prefix of it, an exposed attempt     *)
(* stays in a journal past its reservation, and a certificate that was     *)
(* once retransmitted stays stored behind a PRODUCED record.               *)
(***************************************************************************)
EXTENDS C6Exchange, TLAPS, SequenceTheorems

\* An append or a certificate that was written without being synced, and a loss
\* of power on the same machine, are not both possible.
SyncedOrKept == "P" \in LosesPower => "unsynced" \notin SlotFaults

-----------------------------------------------------------------------------
(* Types *)

Ranges == [start : [Coordinate -> Nat], count : Nat]

Link == [slot : Slots, entropy : Entropy, ranges : Ranges, body : Bodies]

Attempt == [slot : Slots, head : Seq(Link), entropy : Entropy, ranges : Ranges]

Certificate == [attempt : Attempt, body : Bodies]

Step == [to : {"inflight", "produced", "accepted", "burned"}, cert : Certificate \cup {None}]

File == [header : {"absent", "torn", "ok"}, attempt : Attempt \cup {None},
         log : Seq(Step), synced : Nat, linked : BOOLEAN,
         bad : {"no", "unsynced", "synced"}]

CertFile == [cert : Certificate \cup {TornCertificate}, durable : BOOLEAN]

Handle == [slot : Slots, view : Seq(Step), certified : Certificate \cup {None}]

ClientState == [head : Seq(Link), next_slot : Nat, raw_high_water : [Coordinate -> Nat],
                pending : Attempt \cup {None}]

Types ==
    /\ versions \in Seq(ClientState) /\ versions # <<>>
    /\ journal \in [Slots -> File]
    /\ certfile \in [Slots -> CertFile \cup {None}]
    /\ handle \in [Handles -> Handle \cup {None}]
    /\ exposed \in Seq(Attempt)
    /\ requests \subseteq Attempt
    /\ certificates \subseteq Certificate

-----------------------------------------------------------------------------
(* The inductive invariant *)

\* The order of a slot's transitions.
LogOK(log) ==
    /\ Len(log) <= 3
    /\ Len(log) >= 1 => log[1].to \in {"inflight", "burned"}
    /\ Len(log) >= 2 => log[1].to = "inflight" /\ log[2].to \in {"produced", "burned"}
    /\ Len(log) = 3 => log[2].to = "produced" /\ log[3].to = "accepted"

JournalOK(s) ==
    /\ journal[s].header = "ok" => journal[s].attempt \in Attempt /\ journal[s].attempt.slot = s
    /\ journal[s].header # "ok" => journal[s].log = <<>>
    /\ LogOK(journal[s].log)

\* What a loss of power cannot take from the provider.
DurableOK(s) ==
    "P" \in LosesPower =>
        /\ journal[s].header = "ok" =>
               journal[s].linked /\ journal[s].synced = Len(journal[s].log) + 1
        /\ certfile[s] # None /\ certfile[s].cert # TornCertificate => certfile[s].durable

\* A handle has read a prefix of its journal.
HandleOK(h) ==
    handle[h] # None =>
        /\ journal[handle[h].slot].header = "ok"
        /\ LogOK(handle[h].view)
        /\ Len(handle[h].view) <= Len(journal[handle[h].slot].log)
        /\ \A i \in 1..Len(handle[h].view) :
              handle[h].view[i] = journal[handle[h].slot].log[i]
        /\ handle[h].certified # None => Status(handle[h].view) = "inflight"

\* Two journals never hold overlapping attempts.
RangesApart ==
    \A s, t \in Slots :
        s # t /\ journal[s].header = "ok" /\ journal[t].header = "ok"
            => ~Overlaps(journal[s].attempt.ranges, journal[t].attempt.ranges)

\* An exposed attempt is in a journal past its reservation; no slot is exposed twice.
ExposedOK ==
    /\ \A i \in 1..Len(exposed) :
          /\ journal[exposed[i].slot].header = "ok"
          /\ journal[exposed[i].slot].attempt = exposed[i]
          /\ journal[exposed[i].slot].log # <<>>
    /\ \A i, j \in 1..Len(exposed) : i < j => exposed[i].slot # exposed[j].slot

\* The certificate is stored by slot s, behind a PRODUCED record that names it.
Stored(s, cert) ==
    /\ Validates(s)
    /\ certfile[s].cert = cert
    /\ ProducedDigest(journal[s].log) = cert
    /\ Status(journal[s].log) \in {"produced", "accepted"}

CertificatesOK == \A cert \in certificates : \E s \in Slots : Stored(s, cert)

\* What the client's file, in any version a loss of power can bring back, rests on.
ClientOK ==
    /\ accepted \subseteq certificates
    /\ acks \subseteq accepted
    /\ \A i \in 1..Len(versions) :
          versions[i].head # Genesis => \E cert \in accepted : NewHead(cert) = versions[i].head

IInv ==
    /\ Types
    /\ \A s \in Slots : JournalOK(s) /\ DurableOK(s)
    /\ \A h \in Handles : HandleOK(h)
    /\ RangesApart
    /\ ExposedOK
    /\ OneLiveChild
    /\ CertificatesOK
    /\ ClientOK
    /\ AcceptedByClient

-----------------------------------------------------------------------------
(* Journals *)

\* A transition record is not the absence of one.
LEMMA StepNotNone == \A to, cert : Transition(to, cert) # None
<1>1. SUFFICES ASSUME NEW to, NEW cert, Transition(to, cert) = None PROVE FALSE
    OBVIOUS
<1>2. DOMAIN [to |-> to, cert |-> cert] = {"to", "cert"} /\ DOMAIN [none |-> TRUE] = {"none"}
    OBVIOUS
<1>3. [to |-> to, cert |-> cert] = [none |-> TRUE]
    BY <1>1 DEF Transition, None
<1>4. {"to", "cert"} = {"none"}
    BY <1>2, <1>3
<1> QED
    BY <1>4

\* The status of a journal whose transitions are in order.
LEMMA StatusFacts ==
    ASSUME NEW log \in Seq(Step), LogOK(log)
    PROVE  /\ Len(log) \in 0..3
           /\ Status(log) = "reserved" <=> log = <<>>
           /\ Status(log) = "reserved" <=> Len(log) = 0
           /\ Status(log) = "inflight" <=> Len(log) = 1 /\ log[1].to = "inflight"
           /\ Status(log) = "produced" <=> Len(log) = 2 /\ log[2].to = "produced"
           /\ Status(log) = "accepted" <=> Len(log) = 3
           /\ Status(log) = "burned" <=> \/ Len(log) = 1 /\ log[1].to = "burned"
                                         \/ Len(log) = 2 /\ log[2].to = "burned"
<1>1. Len(log) \in Nat /\ (log = <<>> <=> Len(log) = 0)
    BY EmptySeq, LenProperties
<1>2. Len(log) \in 0..3
    <2>1. PICK k \in Nat : k = Len(log)
        BY <1>1
    <2>2. k <= 3
        BY <2>1 DEF LogOK
    <2>3. k \in 0..3
        BY <2>2
    <2> QED
        BY <2>1, <2>3
<1>3. CASE Len(log) = 0
    BY <1>1, <1>3 DEF Status
<1>4. CASE Len(log) = 1
    <2>1. Status(log) = log[1].to /\ log[1].to \in {"inflight", "burned"}
        BY <1>1, <1>4 DEF Status, LogOK
    <2> QED
        BY <1>1, <1>4, <2>1
<1>5. CASE Len(log) = 2
    <2>1. Status(log) = log[2].to /\ log[2].to \in {"produced", "burned"}
        BY <1>1, <1>5 DEF Status, LogOK
    <2> QED
        BY <1>1, <1>5, <2>1
<1>6. CASE Len(log) = 3
    <2>1. Status(log) = "accepted"
        BY <1>1, <1>6 DEF Status, LogOK
    <2> QED
        BY <1>1, <1>6, <2>1
<1> QED
    BY <1>2, <1>3, <1>4, <1>5, <1>6

\* The transitions that append_transition's callers let through.
Follows(log, t) ==
    \/ Status(log) = "reserved" /\ t.to \in {"inflight", "burned"}
    \/ Status(log) = "inflight" /\ t.to \in {"produced", "burned"}
    \/ Status(log) = "produced" /\ t.to = "accepted"

\* One of them keeps the journal in order.
LEMMA LogGrows ==
    ASSUME NEW log \in Seq(Step), LogOK(log), NEW t \in Step, Follows(log, t)
    PROVE  /\ Append(log, t) \in Seq(Step)
           /\ LogOK(Append(log, t))
           /\ Status(Append(log, t)) = t.to
           /\ Len(Append(log, t)) = Len(log) + 1
           /\ Append(log, t) # <<>>
           /\ \A i \in 1..Len(log) : Append(log, t)[i] = log[i]
<1>0. PICK g : g = Append(log, t)
    OBVIOUS
<1>1. /\ g \in Seq(Step) /\ Len(g) = Len(log) + 1 /\ Len(log) \in Nat /\ g # <<>>
      /\ \A i \in 1..Len(log) : g[i] = log[i]
      /\ g[Len(log) + 1] = t
    BY <1>0, AppendProperties, LenProperties
<1>2. Status(g) = t.to
    BY <1>1 DEF Status
<1>3. LogOK(g)
    <2>1. CASE Status(log) = "reserved" /\ t.to \in {"inflight", "burned"}
        <3>1. Len(log) = 0
            BY <2>1, StatusFacts
        <3> QED
            BY <1>1, <2>1, <3>1 DEF LogOK
    <2>2. CASE Status(log) = "inflight" /\ t.to \in {"produced", "burned"}
        <3>1. Len(log) = 1 /\ log[1].to = "inflight"
            BY <2>2, StatusFacts
        <3> QED
            BY <1>1, <2>2, <3>1 DEF LogOK
    <2>3. CASE Status(log) = "produced" /\ t.to = "accepted"
        <3>1. Len(log) = 2 /\ log[2].to = "produced"
            BY <2>3, StatusFacts
        <3> QED
            BY <1>1, <2>3, <3>1 DEF LogOK
    <2> QED
        BY <2>1, <2>2, <2>3 DEF Follows
<1> QED
    BY <1>0, <1>1, <1>2, <1>3

\* What append_transition leaves in the file, however it ends.
WriteOK(j, view, t, io, w) ==
    /\ w \in File
    /\ w.header = j.header
    /\ w.attempt = j.attempt
    /\ w.log = j.log \/ (view = j.log /\ w.log = Append(j.log, t))
    /\ Succeeds(j, view, io) => view = j.log /\ w.log = Append(j.log, t)
    /\ (io # "unsynced" /\ j.linked /\ j.synced = Len(j.log) + 1)
           => w.linked /\ w.synced = Len(w.log) + 1

\* A record is appended whole behind an unchanged journal, or not at all.
LEMMA WrittenFacts ==
    ASSUME NEW j \in File, NEW view, NEW t \in Step, NEW io \in Outcome,
           NEW w, w = Written(j, view, t, io)
    PROVE  WriteOK(j, view, t, io, w)
<1>1. io \in {"ok", "nothing", "torn", "unsynced"}
    BY SlotFaultsAssumption DEF Outcome
<1>2. PICK log : log = Append(j.log, t)
    OBVIOUS
<1>3. /\ log \in Seq(Step) /\ Len(log) = Len(j.log) + 1 /\ Len(j.log) \in Nat
    BY <1>2, AppendProperties, LenProperties DEF File
<1>4. CASE io = "nothing"
    BY <1>4 DEF Written, Succeeds, WriteOK
<1>5. CASE io = "torn" \/ (io = "unsynced" /\ ~(j.bad = "no" /\ view = j.log))
    <2>1. PICK b \in {"unsynced", "synced"} : w = [j EXCEPT !.bad = b]
        BY <1>5 DEF Written
    <2>2. /\ w \in File /\ w.header = j.header /\ w.attempt = j.attempt /\ w.log = j.log
          /\ w.synced = j.synced /\ w.linked = j.linked
        BY <2>1 DEF File
    <2> QED
        BY <1>5, <2>2 DEF Succeeds, WriteOK
<1>6. CASE io = "unsynced" /\ j.bad = "no" /\ view = j.log
    <2>1. w = [j EXCEPT !.log = log]
        BY <1>2, <1>6 DEF Written
    <2>2. w \in File /\ w.header = j.header /\ w.attempt = j.attempt /\ w.log = log
        BY <1>3, <2>1 DEF File
    <2> QED
        BY <1>2, <1>6, <2>2 DEF Succeeds, WriteOK
<1>7. CASE io = "ok" /\ j.bad = "no" /\ view = j.log
    <2>1. PICK k \in Nat : k = Len(j.log) + 2
        BY <1>3
    <2>2. w = [j EXCEPT !.log = log, !.synced = k]
        BY <1>2, <1>7, <2>1 DEF Written
    <2>3. /\ w \in File /\ w.header = j.header /\ w.attempt = j.attempt /\ w.log = log
          /\ w.synced = k /\ w.linked = j.linked
        BY <1>3, <2>2 DEF File
    <2>4. w.synced = Len(w.log) + 1
        BY <1>3, <2>1, <2>3
    <2> QED
        BY <1>2, <1>7, <2>3, <2>4 DEF Succeeds, WriteOK
<1>8. CASE io = "ok" /\ ~(j.bad = "no" /\ view = j.log)
    <2>1. PICK k \in Nat : k = Len(j.log) + 1
        BY <1>3
    <2>2. w = [j EXCEPT !.bad = "synced", !.synced = k]
        BY <1>8, <2>1 DEF Written
    <2>3. /\ w \in File /\ w.header = j.header /\ w.attempt = j.attempt /\ w.log = j.log
          /\ w.synced = k /\ w.linked = j.linked
        BY <1>3, <2>2 DEF File
    <2> QED
        BY <1>8, <2>1, <2>3 DEF Succeeds, WriteOK
<1> QED
    BY <1>1, <1>4, <1>5, <1>6, <1>7, <1>8

-----------------------------------------------------------------------------
(* What every step keeps *)

\* A step leaves a slot's journal, or extends it by one record, and leaves its
\* certificate.
Keeps(s) ==
    /\ journal[s].header = "ok" =>
          journal'[s].header = "ok" /\ journal'[s].attempt = journal[s].attempt
    /\ \/ journal'[s].log = journal[s].log
       \/ \E t \in Step :
             /\ journal[s].header = "ok"
             /\ Follows(journal[s].log, t)
             /\ journal'[s].log = Append(journal[s].log, t)
             /\ t.to = "accepted" => ProducedDigest(journal[s].log) \in accepted
    /\ certfile[s] # None /\ certfile[s].cert # TornCertificate =>
          certfile'[s] # None /\ certfile'[s].cert = certfile[s].cert

\* A slot that holds a journal held it before.
NoneAdmitted == \A s \in Slots : journal'[s].header = "ok" => journal[s].header = "ok"

\* The journals by themselves.
JournalsOK == (\A s \in Slots : JournalOK(s)) /\ RangesApart /\ OneLiveChild

\* What Keeps says of one journal.
LEMMA KeptLog ==
    ASSUME Types, NEW s \in Slots, JournalOK(s), Keeps(s)
    PROVE  /\ journal[s].log \in Seq(Step) /\ Len(journal[s].log) \in Nat
           /\ LogOK(journal'[s].log)
           /\ Len(journal'[s].log) >= Len(journal[s].log)
           /\ \A i \in 1..Len(journal[s].log) : journal'[s].log[i] = journal[s].log[i]
           /\ Status(journal[s].log) = "burned" => Status(journal'[s].log) = "burned"
           /\ Status(journal[s].log) \in {"produced", "accepted"} =>
                 /\ Status(journal'[s].log) \in {"produced", "accepted"}
                 /\ ProducedDigest(journal'[s].log) = ProducedDigest(journal[s].log)
           /\ Status(journal'[s].log) = "accepted" =>
                 \/ Status(journal[s].log) = "accepted"
                    /\ ProducedDigest(journal'[s].log) = ProducedDigest(journal[s].log)
                 \/ ProducedDigest(journal'[s].log) \in accepted
           /\ journal[s].log # <<>> => journal'[s].log # <<>>
<1>0. PICK log, new : log = journal[s].log /\ new = journal'[s].log
    OBVIOUS
<1>1. log \in Seq(Step) /\ LogOK(log) /\ Len(log) \in Nat
    BY <1>0, LenProperties DEF Types, File, JournalOK
<1>2. CASE new = log
    BY <1>0, <1>1, <1>2
<1>3. CASE \E t \in Step : /\ Follows(log, t)
                           /\ new = Append(log, t)
                           /\ t.to = "accepted" => ProducedDigest(log) \in accepted
    <2>1. PICK t \in Step : /\ Follows(log, t)
                            /\ new = Append(log, t)
                            /\ t.to = "accepted" => ProducedDigest(log) \in accepted
        BY <1>3
    <2>2. /\ new \in Seq(Step) /\ LogOK(new) /\ Status(new) = t.to /\ new # <<>>
          /\ Len(new) = Len(log) + 1
          /\ \A i \in 1..Len(log) : new[i] = log[i]
        BY <1>1, <2>1, LogGrows
    <2>3. Status(log) # "burned" /\ Status(log) # "accepted"
        BY <2>1 DEF Follows
    <2>4. Status(log) = "produced" => /\ t.to = "accepted"
                                      /\ ProducedDigest(new) = ProducedDigest(log)
        <3>1. SUFFICES ASSUME Status(log) = "produced"
                       PROVE  t.to = "accepted" /\ ProducedDigest(new) = ProducedDigest(log)
            OBVIOUS
        <3>2. t.to = "accepted" /\ Len(log) = 2
            BY <1>1, <2>1, <3>1, StatusFacts DEF Follows
        <3>3. new[2] = log[2] /\ Len(new) = 3
            BY <2>2, <3>2
        <3> QED
            BY <3>2, <3>3 DEF ProducedDigest
    <2>5. t.to = "accepted" => Status(log) = "produced"
        BY <2>1 DEF Follows
    <2> QED
        BY <1>0, <1>1, <2>1, <2>2, <2>3, <2>4, <2>5
<1> QED
    BY <1>0, <1>2, <1>3 DEF Keeps

\* A certificate that is stored stays stored.
LEMMA StoredKept ==
    ASSUME IInv, \A s \in Slots : Keeps(s), NEW cert, NEW s \in Slots, Stored(s, cert)
    PROVE  Stored(s, cert)'
<1>1. Types /\ JournalOK(s) /\ Keeps(s)
    BY DEF IInv
<1>2. Status(journal[s].log) \in {"produced", "accepted"} /\ ProducedDigest(journal[s].log) = cert
    BY DEF Stored
<1>3. /\ Status(journal'[s].log) \in {"produced", "accepted"}
      /\ ProducedDigest(journal'[s].log) = cert
    BY <1>1, <1>2, KeptLog
<1>4. journal[s].header = "ok"
    <2>1. journal[s].log # <<>>
        BY <1>2 DEF Status
    <2> QED
        BY <1>1, <2>1 DEF JournalOK
<1>5. /\ certfile[s] # None /\ certfile[s].cert # TornCertificate
      /\ certfile[s].cert.attempt = journal[s].attempt /\ certfile[s].cert = cert
    BY DEF Stored, Validates
<1>6. /\ certfile'[s] # None /\ certfile'[s].cert = certfile[s].cert
      /\ journal'[s].attempt = journal[s].attempt
    BY <1>1, <1>4, <1>5 DEF Keeps
<1> QED
    BY <1>3, <1>5, <1>6 DEF Stored, Validates

\* What every step keeps of certificates, acceptances and exposures.
LEMMA KeepsHistory ==
    ASSUME IInv, \A s \in Slots : Keeps(s), accepted \subseteq accepted'
    PROVE  /\ \A cert \in certificates : \E s \in Slots : Stored(s, cert)'
           /\ AcceptedByClient'
           /\ \A i \in 1..Len(exposed) :
                 /\ journal'[exposed[i].slot].header = "ok"
                 /\ journal'[exposed[i].slot].attempt = exposed[i]
                 /\ journal'[exposed[i].slot].log # <<>>
<1>0. Types /\ \A s \in Slots : JournalOK(s)
    BY DEF IInv
<1>1. \A cert \in certificates : \E s \in Slots : Stored(s, cert)'
    BY StoredKept DEF IInv, CertificatesOK
<1>2. AcceptedByClient'
    <2>1. ASSUME NEW s \in Slots, Status(journal'[s].log) = "accepted"
          PROVE  ProducedDigest(journal'[s].log) \in accepted
        <3>1. JournalOK(s) /\ Keeps(s)
            BY <1>0
        <3>2. \/ Status(journal[s].log) = "accepted"
                 /\ ProducedDigest(journal'[s].log) = ProducedDigest(journal[s].log)
              \/ ProducedDigest(journal'[s].log) \in accepted
            BY <1>0, <2>1, <3>1, KeptLog
        <3> QED
            BY <3>2 DEF IInv, AcceptedByClient
    <2> QED
        BY <2>1 DEF AcceptedByClient
<1>3. ASSUME NEW i \in 1..Len(exposed)
      PROVE  /\ journal'[exposed[i].slot].header = "ok"
             /\ journal'[exposed[i].slot].attempt = exposed[i]
             /\ journal'[exposed[i].slot].log # <<>>
    <2>1. exposed[i] \in Attempt
        BY <1>0, ElementOfSeq DEF Types
    <2>2. exposed[i].slot \in Slots
        BY <2>1 DEF Attempt
    <2>3. /\ journal[exposed[i].slot].header = "ok"
          /\ journal[exposed[i].slot].attempt = exposed[i]
          /\ journal[exposed[i].slot].log # <<>>
        BY DEF IInv, ExposedOK
    <2>4. PICK s \in Slots : s = exposed[i].slot
        BY <2>2
    <2>5. journal'[s].log # <<>>
        BY <1>0, <2>3, <2>4, KeptLog
    <2> QED
        BY <2>3, <2>4, <2>5 DEF Keeps
<1> QED
    BY <1>1, <1>2, <1>3

\* What a step keeps of the journals when it adds none.
LEMMA KeepsJournals ==
    ASSUME IInv, \A s \in Slots : Keeps(s), NoneAdmitted
    PROVE  JournalsOK'
<1>0. Types /\ \A s \in Slots : JournalOK(s)
    BY DEF IInv
<1>1. \A s \in Slots : journal'[s].header = "ok" =>
          journal[s].header = "ok" /\ journal'[s].attempt = journal[s].attempt
    BY DEF Keeps, NoneAdmitted
<1>2. RangesApart'
    BY <1>1 DEF IInv, RangesApart
<1>3. \A s \in Slots : Status(journal[s].log) = "burned" => Status(journal'[s].log) = "burned"
    BY <1>0, KeptLog
<1>4. OneLiveChild'
    BY <1>1, <1>3 DEF IInv, OneLiveChild
<1>5. ASSUME NEW s \in Slots PROVE JournalOK(s)'
    <2>1. JournalOK(s) /\ Keeps(s)
        BY <1>0
    <2>2. LogOK(journal'[s].log)
        BY <1>0, <2>1, KeptLog
    <2>3. journal'[s].header # "ok" => journal'[s].log = <<>>
        BY <2>1 DEF Keeps, JournalOK
    <2> QED
        BY <1>1, <2>1, <2>2, <2>3 DEF JournalOK
<1> QED
    BY <1>2, <1>4, <1>5 DEF JournalsOK

\* What a handle has read stays a prefix of its journal.
LEMMA ViewKept ==
    ASSUME IInv, \A s \in Slots : Keeps(s), NEW h \in Handles, handle[h] # None
    PROVE  /\ handle[h] \in Handle
           /\ journal[handle[h].slot].header = "ok"
           /\ journal'[handle[h].slot].header = "ok"
           /\ LogOK(handle[h].view)
           /\ Len(handle[h].view) <= Len(journal'[handle[h].slot].log)
           /\ \A i \in 1..Len(handle[h].view) :
                 handle[h].view[i] = journal'[handle[h].slot].log[i]
<1>2. handle[h] \in Handle /\ HandleOK(h) /\ Types
    BY DEF IInv, Types
<1>3. PICK s \in Slots : s = handle[h].slot
    BY <1>2 DEF Handle
<1>4. JournalOK(s) /\ Keeps(s)
    BY DEF IInv
<1>5. /\ Len(journal'[s].log) >= Len(journal[s].log) /\ Len(journal[s].log) \in Nat
      /\ \A i \in 1..Len(journal[s].log) : journal'[s].log[i] = journal[s].log[i]
    BY <1>2, <1>4, KeptLog
<1>6. Len(journal'[s].log) \in Int
    <2>1. LogOK(journal'[s].log) /\ (journal'[s].log = journal[s].log \/
             \E t \in Step : journal'[s].log = Append(journal[s].log, t))
        BY <1>2, <1>4, KeptLog DEF Keeps
    <2>2. journal[s].log \in Seq(Step)
        BY <1>2, <1>4, KeptLog
    <2> QED
        BY <2>1, <2>2, LenProperties, AppendProperties
<1>7. /\ journal[s].header = "ok" /\ LogOK(handle[h].view) /\ Len(handle[h].view) \in Nat
      /\ Len(handle[h].view) <= Len(journal[s].log)
      /\ \A i \in 1..Len(handle[h].view) : handle[h].view[i] = journal[s].log[i]
    BY <1>2, <1>3, LenProperties DEF HandleOK, Handle
<1>8. /\ Len(handle[h].view) <= Len(journal'[s].log)
      /\ \A i \in 1..Len(handle[h].view) : handle[h].view[i] = journal'[s].log[i]
    <2>1. PICK a \in Nat, b \in Nat, c \in Int :
             a = Len(handle[h].view) /\ b = Len(journal[s].log) /\ c = Len(journal'[s].log)
        BY <1>5, <1>6, <1>7
    <2>2. a <= b /\ b <= c
        BY <1>5, <1>7, <2>1
    <2>3. a <= c /\ \A i \in 1..a : i \in 1..b
        BY <2>2
    <2> QED
        BY <1>5, <1>7, <2>1, <2>3
<1>9. journal'[s].header = "ok"
    BY <1>4, <1>7 DEF Keeps
<1> QED
    BY <1>2, <1>3, <1>7, <1>8, <1>9

\* A handle that does nothing stays in order.
LEMMA HandleKept ==
    ASSUME IInv, \A s \in Slots : Keeps(s), NEW h \in Handles, handle'[h] = handle[h]
    PROVE  HandleOK(h)'
<1>1. CASE handle[h] = None
    BY <1>1 DEF HandleOK
<1>2. CASE handle[h] # None
    <2>1. handle[h].certified # None => Status(handle[h].view) = "inflight"
        BY <1>2 DEF IInv, HandleOK
    <2> QED
        BY <1>2, <2>1, ViewKept DEF HandleOK
<1> QED
    BY <1>1, <1>2

\* A step that leaves the provider's files.
LEMMA FilesKept ==
    ASSUME UNCHANGED <<journal, certfile>>
    PROVE  (\A s \in Slots : Keeps(s)) /\ NoneAdmitted
BY DEF Keeps, NoneAdmitted

\* A step adds at most one exposure, of a slot that was only reserved.
Exposes ==
    \/ exposed' = exposed
    \/ \E s \in Slots :
          /\ journal[s].header = "ok"
          /\ journal[s].log = <<>>
          /\ journal'[s].log # <<>>
          /\ exposed' = Append(exposed, journal[s].attempt)

\* The exposures after such a step.
LEMMA ExposedKept ==
    ASSUME IInv, \A s \in Slots : Keeps(s), accepted \subseteq accepted', Exposes
    PROVE  ExposedOK' /\ exposed' \in Seq(Attempt)
<1>0. /\ exposed \in Seq(Attempt) /\ Len(exposed) \in Nat
      /\ \A i \in 1..Len(exposed) :
            /\ journal[exposed[i].slot].attempt = exposed[i]
            /\ journal[exposed[i].slot].log # <<>>
      /\ \A i, j \in 1..Len(exposed) : i < j => exposed[i].slot # exposed[j].slot
    BY LenProperties DEF IInv, Types, ExposedOK
<1>1. \A i \in 1..Len(exposed) :
          /\ journal'[exposed[i].slot].header = "ok"
          /\ journal'[exposed[i].slot].attempt = exposed[i]
          /\ journal'[exposed[i].slot].log # <<>>
    BY KeepsHistory
<1>2. CASE exposed' = exposed
    BY <1>0, <1>1, <1>2 DEF ExposedOK
<1>3. CASE exposed' # exposed
    <2>1. PICK s \in Slots : /\ journal[s].header = "ok" /\ journal[s].log = <<>>
                             /\ journal'[s].log # <<>>
                             /\ exposed' = Append(exposed, journal[s].attempt)
        BY <1>3 DEF Exposes
    <2>2. PICK a : a = journal[s].attempt
        OBVIOUS
    <2>3. /\ a \in Attempt /\ a.slot = s
          /\ journal'[s].header = "ok" /\ journal'[s].attempt = a
        BY <2>1, <2>2 DEF IInv, JournalOK, Keeps
    <2>4. /\ exposed' \in Seq(Attempt) /\ Len(exposed') = Len(exposed) + 1
          /\ \A i \in 1..Len(exposed) : exposed'[i] = exposed[i]
          /\ exposed'[Len(exposed) + 1] = a
        BY <1>0, <2>1, <2>2, <2>3, AppendProperties
    <2>5. \A i \in 1..Len(exposed) : exposed[i].slot # s
        BY <1>0, <2>1
    <2>6. \A i \in 1..Len(exposed') :
             /\ journal'[exposed'[i].slot].header = "ok"
             /\ journal'[exposed'[i].slot].attempt = exposed'[i]
             /\ journal'[exposed'[i].slot].log # <<>>
        <3>1. ASSUME NEW i \in 1..Len(exposed')
              PROVE  i \in 1..Len(exposed) \/ i = Len(exposed) + 1
            BY <1>0, <2>4
        <3> QED
            BY <1>1, <2>1, <2>3, <2>4, <3>1
    <2>7. ASSUME NEW i \in 1..Len(exposed'), NEW j \in 1..Len(exposed'), i < j
          PROVE  exposed'[i].slot # exposed'[j].slot
        <3>1. i \in 1..Len(exposed) /\ (j \in 1..Len(exposed) \/ j = Len(exposed) + 1)
            BY <1>0, <2>4, <2>7
        <3> QED
            BY <1>0, <2>3, <2>4, <2>5, <2>7, <3>1
    <2> QED
        BY <2>4, <2>6, <2>7 DEF ExposedOK
<1> QED
    BY <1>2, <1>3

\* The parts of the invariant put together.
LEMMA Assemble ==
    ASSUME IInv, \A s \in Slots : Keeps(s), JournalsOK', accepted \subseteq accepted', Exposes,
           Types', \A s \in Slots : DurableOK(s)', \A h \in Handles : HandleOK(h)', ClientOK',
           \A cert \in certificates' : cert \in certificates \/ \E s \in Slots : Stored(s, cert)'
    PROVE  IInv'
<1>1. AcceptedByClient'
    BY KeepsHistory
<1>2. CertificatesOK'
    <2>1. \A cert \in certificates : \E s \in Slots : Stored(s, cert)'
        BY KeepsHistory
    <2> QED
        BY <2>1 DEF CertificatesOK
<1>3. ExposedOK'
    BY ExposedKept
<1> QED
    BY <1>1, <1>2, <1>3 DEF IInv, JournalsOK

-----------------------------------------------------------------------------
(* The client *)

\* A replacement of the client's file, whatever it ends with.
LEMMA ReplaceFacts ==
    ASSUME Types, NEW next \in ClientState, NEW io \in ReplaceOutcome, Replace(next, io)
    PROVE  /\ versions' \in Seq(ClientState) /\ versions' # <<>>
           /\ \A i \in 1..Len(versions') :
                 \/ \E k \in 1..Len(versions) : versions'[i] = versions[k]
                 \/ io \in {"ok", "renamed"} /\ versions'[i] = next
<1>0. /\ versions \in Seq(ClientState) /\ Len(versions) \in Nat /\ Len(versions) >= 1
      /\ Len(versions) \in 1..Len(versions)
    <2>1. Len(versions) \in Nat \ {0} /\ versions \in Seq(ClientState)
        BY EmptySeq DEF Types
    <2> QED
        BY <2>1
<1>1. main \in ClientState
    BY <1>0, ElementOfSeq DEF main
<1>2. PICK rec : rec = RecoveredVersions
    OBVIOUS
<1>3. /\ rec \in Seq(ClientState) /\ rec # <<>> /\ Len(rec) \in Nat
      /\ \A i \in 1..Len(rec) : \E k \in 1..Len(versions) : rec[i] = versions[k]
    <2>1. CASE temp = None
        BY <1>0, <1>2, <2>1 DEF RecoveredVersions, Types
    <2>2. CASE temp # None
        <3>1. rec = <<main>>
            BY <1>2, <2>2 DEF RecoveredVersions
        <3>2. rec \in Seq(ClientState) /\ rec # <<>> /\ Len(rec) = 1 /\ rec[1] = main
            BY <1>1, <3>1
        <3> QED
            BY <1>0, <3>2 DEF main
    <2> QED
        BY <2>1, <2>2
<1>4. CASE io = "ok"
    <2>1. versions' = <<next>>
        BY <1>4 DEF Replace
    <2>2. versions' \in Seq(ClientState) /\ versions' # <<>> /\ Len(versions') = 1 /\ versions'[1] = next
        BY <2>1
    <2> QED
        BY <1>4, <2>2
<1>5. CASE io = "renamed"
    <2>1. versions' = Append(rec, next)
        BY <1>2, <1>5 DEF Replace
    <2>2. /\ versions' \in Seq(ClientState) /\ versions' # <<>>
          /\ Len(versions') = Len(rec) + 1
          /\ \A i \in 1..Len(rec) : versions'[i] = rec[i]
          /\ versions'[Len(rec) + 1] = next
        BY <1>3, <2>1, AppendProperties
    <2>3. \A i \in 1..Len(versions') : i \in 1..Len(rec) \/ i = Len(rec) + 1
        BY <1>3, <2>2
    <2> QED
        BY <1>3, <1>5, <2>2, <2>3
<1>6. CASE io \in {"nothing", "torn", "written"}
    <2>1. versions' = rec
        BY <1>2, <1>6 DEF Replace
    <2> QED
        BY <1>3, <2>1
<1> QED
    BY <1>4, <1>5, <1>6 DEF ReplaceOutcome

\* The current file, and what it rests on.
LEMMA MainFacts ==
    ASSUME IInv
    PROVE  /\ main \in ClientState /\ Len(versions) \in 1..Len(versions)
           /\ main.head # Genesis => \E cert \in accepted : NewHead(cert) = main.head
<1>1. Len(versions) \in Nat \ {0} /\ versions \in Seq(ClientState)
    BY EmptySeq DEF IInv, Types
<1>2. Len(versions) \in 1..Len(versions)
    BY <1>1
<1>3. main \in ClientState
    BY <1>1, <1>2, ElementOfSeq DEF main
<1> QED
    BY <1>2, <1>3 DEF IInv, ClientOK, main

\* A step of the client or of the network: the provider does not move.
LEMMA ClientStep ==
    ASSUME IInv, UNCHANGED provider, accepted \subseteq accepted',
           versions' \in Seq(ClientState), versions' # <<>>, requests' \subseteq Attempt,
           certificates' \subseteq Certificate, ClientOK',
           \A cert \in certificates' : cert \in certificates \/ \E s \in Slots : Stored(s, cert)
    PROVE  IInv'
<1>1. UNCHANGED <<journal, certfile, handle, exposed>>
    BY DEF provider
<1>2. (\A s \in Slots : Keeps(s)) /\ JournalsOK'
    BY <1>1, FilesKept, KeepsJournals
<1>3. Exposes /\ Types'
    BY <1>1 DEF IInv, Types, Exposes
<1>4. \A s \in Slots : DurableOK(s)'
    BY <1>1 DEF IInv, DurableOK
<1>5. \A h \in Handles : HandleOK(h)'
    BY <1>1, <1>2, HandleKept
<1>6. \A cert \in certificates' : cert \in certificates \/ \E s \in Slots : Stored(s, cert)'
    BY <1>2, StoredKept
<1> QED
    BY <1>2, <1>3, <1>4, <1>5, <1>6, Assemble

\* A replacement of the client's file by a state whose head it had or accepted.
LEMMA ReplaceStep ==
    ASSUME IInv, NEW next \in ClientState, NEW io \in ReplaceOutcome, Replace(next, io),
           UNCHANGED <<provider, network>>, accepted \subseteq accepted',
           accepted' \subseteq certificates,
           (io \in {"ok", "renamed"} /\ next.head # Genesis) =>
               \E cert \in accepted' : NewHead(cert) = next.head
    PROVE  IInv'
<1>1. /\ versions' \in Seq(ClientState) /\ versions' # <<>>
      /\ \A i \in 1..Len(versions') :
            \/ \E k \in 1..Len(versions) : versions'[i] = versions[k]
            \/ io \in {"ok", "renamed"} /\ versions'[i] = next
    BY ReplaceFacts DEF IInv
<1>2. UNCHANGED <<requests, certificates, acks>>
    BY DEF network
<1>3. ClientOK'
    <2>1. \A k \in 1..Len(versions) : versions[k].head # Genesis =>
             \E cert \in accepted : NewHead(cert) = versions[k].head
        BY DEF IInv, ClientOK
    <2>2. \A i \in 1..Len(versions') : versions'[i].head # Genesis =>
             \E cert \in accepted' : NewHead(cert) = versions'[i].head
        BY <1>1, <2>1
    <2>3. acks \subseteq accepted
        BY DEF IInv, ClientOK
    <2> QED
        BY <1>2, <2>2, <2>3 DEF ClientOK
<1>4. requests' \subseteq Attempt /\ certificates' \subseteq Certificate
    BY <1>2 DEF IInv, Types
<1> QED
    BY <1>1, <1>2, <1>3, <1>4, ClientStep

\* reserve_attempt and aborts_pending.
LEMMA ReserveAbortStep ==
    ASSUME IInv, Reserve \/ Abort
    PROVE  IInv'
<1>0. main \in ClientState /\ (main.head # Genesis => \E cert \in accepted : NewHead(cert) = main.head)
    BY MainFacts
<1>1. /\ UNCHANGED <<provider, network, accepted>>
      /\ accepted \subseteq certificates
    BY DEF Reserve, Abort, IInv, ClientOK
<1>2. CASE Reserve
    <2>1. PICK entropy \in Entropy, k \in Counts, io \in ReplaceOutcome :
             CanReserve(main, k) /\ Replace(Reserved(main, entropy, k), io)
        BY <1>2 DEF Reserve, ClientReserve
    <2>2. /\ main.next_slot \in Nat /\ main.next_slot < MaxSlots /\ k \in Nat
          /\ main.raw_high_water \in [Coordinate -> Nat] /\ main.head \in Seq(Link)
        BY <1>0, <2>1, C6Assumption DEF CanReserve, ClientState
    <2>3. PICK a : a = NextAttempt(main, entropy, k)
        OBVIOUS
    <2>4. a \in Attempt
        <3>1. main.next_slot \in Slots
            BY <2>2, C6Assumption DEF Slots
        <3>2. [start |-> main.raw_high_water, count |-> k] \in Ranges
            BY <2>2 DEF Ranges
        <3> QED
            BY <2>2, <2>3, <3>1, <3>2 DEF NextAttempt, Attempt
    <2>5. PICK hw : hw = [c \in Coordinate |-> main.raw_high_water[c] + k]
        OBVIOUS
    <2>6. hw \in [Coordinate -> Nat]
        BY <2>2, <2>5
    <2>7. PICK ns \in Nat : ns = main.next_slot + 1
        BY <2>2
    <2>8. PICK next : next = Reserved(main, entropy, k)
        OBVIOUS
    <2>9. next = [main EXCEPT !.next_slot = ns, !.raw_high_water = hw, !.pending = a]
        BY <2>3, <2>5, <2>7, <2>8 DEF Reserved
    <2>10. next \in ClientState /\ next.head = main.head
        BY <1>0, <2>4, <2>6, <2>9 DEF ClientState
    <2> QED
        BY <1>0, <1>1, <2>1, <2>8, <2>10, ReplaceStep
<1>3. CASE Abort
    <2>1. PICK io \in ReplaceOutcome : Replace(Aborted(main), io)
        BY <1>3 DEF Abort, ClientAbort
    <2>2. PICK next : next = Aborted(main)
        OBVIOUS
    <2>3. next \in ClientState /\ next.head = main.head
        BY <1>0, <2>2 DEF Aborted, ClientState
    <2> QED
        BY <1>0, <1>1, <2>1, <2>2, <2>3, ReplaceStep
<1> QED
    BY <1>2, <1>3

\* accepts: the certificate becomes the head.
LEMMA AcceptStep ==
    ASSUME IInv, Accept
    PROVE  IInv'
<1>0. main \in ClientState
    BY MainFacts
<1>1. PICK cert \in certificates, io \in ReplaceOutcome :
          /\ Replace(Accepted(main, cert), io)
          /\ accepted' = IF io \in {"ok", "renamed"} THEN accepted \cup {cert} ELSE accepted
    BY DEF Accept, ClientAccept
<1>2. /\ UNCHANGED <<provider, network>>
      /\ accepted \subseteq certificates
    BY DEF Accept, IInv, ClientOK
<1>3. cert \in Certificate
    BY DEF IInv, Types
<1>4. PICK head : head = NewHead(cert)
    OBVIOUS
<1>5. head \in Seq(Link)
    <2>1. /\ cert.attempt.head \in Seq(Link)
          /\ [slot |-> cert.attempt.slot, entropy |-> cert.attempt.entropy,
              ranges |-> cert.attempt.ranges, body |-> cert.body] \in Link
        BY <1>3 DEF Certificate, Attempt, Link
    <2> QED
        BY <1>4, <2>1, AppendProperties DEF NewHead
<1>6. PICK next : next = Accepted(main, cert)
    OBVIOUS
<1>7. next = [main EXCEPT !.head = head, !.pending = None]
    BY <1>4, <1>6 DEF Accepted
<1>8. next \in ClientState /\ next.head = head
    BY <1>0, <1>5, <1>7 DEF ClientState
<1>9. /\ accepted \subseteq accepted' /\ accepted' \subseteq certificates
      /\ io \in {"ok", "renamed"} => cert \in accepted'
    BY <1>1, <1>2
<1> QED
    BY <1>1, <1>2, <1>4, <1>6, <1>8, <1>9, ReplaceStep

\* Opening the client's store, and a loss of power on its machine.
LEMMA ClientFileStep ==
    ASSUME IInv, ClientOpen \/ ClientPowerLoss, UNCHANGED <<provider, network, accepted>>
    PROVE  IInv'
<1>0. main \in ClientState /\ Len(versions) \in 1..Len(versions)
    BY MainFacts
<1>1. /\ versions' \in Seq(ClientState) /\ versions' # <<>>
      /\ \A i \in 1..Len(versions') : \E k \in 1..Len(versions) : versions'[i] = versions[k]
    <2>1. CASE versions' = versions
        BY <2>1 DEF IInv, Types
    <2>2. CASE \E k \in 1..Len(versions) : versions' = <<versions[k]>>
        <3>1. PICK k \in 1..Len(versions) : versions' = <<versions[k]>>
            BY <2>2
        <3>2. versions[k] \in ClientState
            BY ElementOfSeq DEF IInv, Types
        <3>3. /\ versions' \in Seq(ClientState) /\ versions' # <<>> /\ Len(versions') = 1
              /\ versions'[1] = versions[k]
            BY <3>1, <3>2
        <3> QED
            BY <3>3
    <2> QED
        BY <1>0, <2>1, <2>2 DEF ClientOpen, RecoveredVersions, ClientPowerLoss, main
<1>2. UNCHANGED <<requests, certificates, acks>>
    BY DEF network
<1>3. ClientOK'
    BY <1>1, <1>2 DEF IInv, ClientOK
<1> QED
    BY <1>1, <1>2, <1>3, ClientStep DEF IInv, Types

-----------------------------------------------------------------------------
(* The network *)

\* A head names its certificate.
LEMMA NewHeadInjective ==
    ASSUME NEW c \in Certificate, NEW d \in Certificate, NewHead(c) = NewHead(d)
    PROVE  c = d
<1>1. /\ c.attempt \in Attempt /\ d.attempt \in Attempt
      /\ c = [attempt |-> c.attempt, body |-> c.body]
      /\ d = [attempt |-> d.attempt, body |-> d.body]
    BY DEF Certificate
<1>2. PICK a \in Attempt, b \in Attempt : a = c.attempt /\ b = d.attempt
    BY <1>1
<1>3. \A x \in Attempt : x = [slot |-> x.slot, head |-> x.head, entropy |-> x.entropy,
                              ranges |-> x.ranges]
    BY DEF Attempt
<1>4. PICK k, l : /\ k = [slot |-> a.slot, entropy |-> a.entropy, ranges |-> a.ranges,
                          body |-> c.body]
                  /\ l = [slot |-> b.slot, entropy |-> b.entropy, ranges |-> b.ranges,
                          body |-> d.body]
    OBVIOUS
<1>5. /\ a.head \in Seq(Link) /\ b.head \in Seq(Link) /\ k \in Link /\ l \in Link
    BY <1>4 DEF Attempt, Certificate, Link
<1>6. Append(a.head, k) = Append(b.head, l)
    BY <1>2, <1>4 DEF NewHead
<1>7. a.head = b.head /\ k = l
    <2>1. \A p, q \in Seq(Link), x, y \in Link : Append(p, x) = Append(q, y) => p = q /\ x = y
        BY AppendInjective
    <2> QED
        BY <1>5, <1>6, <2>1
<1>8. /\ k.slot = a.slot /\ k.entropy = a.entropy /\ k.ranges = a.ranges /\ k.body = c.body
      /\ l.slot = b.slot /\ l.entropy = b.entropy /\ l.ranges = b.ranges /\ l.body = d.body
    BY <1>4
<1>9. a.slot = b.slot /\ a.entropy = b.entropy /\ a.ranges = b.ranges /\ c.body = d.body
    BY <1>7, <1>8
<1>10. a = b
    <2>1. a = [slot |-> a.slot, head |-> a.head, entropy |-> a.entropy, ranges |-> a.ranges]
        BY <1>3
    <2>2. b = [slot |-> b.slot, head |-> b.head, entropy |-> b.entropy, ranges |-> b.ranges]
        BY <1>3
    <2> QED
        BY <1>7, <1>9, <2>1, <2>2
<1> QED
    BY <1>1, <1>2, <1>9, <1>10

\* The client sends its pending attempt.
LEMMA SendAttemptStep ==
    ASSUME IInv, SendAttempt
    PROVE  IInv'
<1>0. main \in ClientState
    BY MainFacts
<1>1. /\ main.pending # None /\ requests' = requests \cup {main.pending}
      /\ UNCHANGED <<versions, provider, certificates, acks, accepted>>
    BY DEF SendAttempt, client
<1>2. main.pending \in Attempt
    BY <1>0, <1>1 DEF ClientState
<1>3. ClientOK'
    BY <1>1 DEF IInv, ClientOK
<1>4. /\ versions' \in Seq(ClientState) /\ versions' # <<>> /\ requests' \subseteq Attempt
      /\ certificates' \subseteq Certificate
    BY <1>1, <1>2 DEF IInv, Types
<1> QED
    BY <1>1, <1>3, <1>4, ClientStep

\* The client acknowledges only what its file has accepted.
LEMMA SendAckStep ==
    ASSUME IInv, SendAck
    PROVE  IInv'
<1>0. main.head # Genesis => \E cert \in accepted : NewHead(cert) = main.head
    BY MainFacts
<1>1. PICK cert \in certificates : NewHead(cert) = main.head /\ acks' = acks \cup {cert}
    BY DEF SendAck
<1>2. UNCHANGED <<versions, provider, requests, certificates, accepted>>
    BY DEF SendAck, client
<1>3. certificates \subseteq Certificate /\ accepted \subseteq certificates
    BY DEF IInv, Types, ClientOK
<1>4. main.head # Genesis
    <2>1. cert.attempt.head \in Seq(Link)
        BY <1>3 DEF Certificate, Attempt
    <2>2. PICK l \in Link : NewHead(cert) = Append(cert.attempt.head, l)
        BY <1>3 DEF NewHead, Link, Certificate, Attempt
    <2> QED
        BY <1>1, <2>1, <2>2, AppendProperties DEF Genesis
<1>5. PICK old \in accepted : NewHead(old) = NewHead(cert)
    BY <1>0, <1>1, <1>4
<1>6. old = cert
    BY <1>3, <1>5, NewHeadInjective
<1>7. ClientOK'
    BY <1>1, <1>2, <1>5, <1>6 DEF IInv, ClientOK
<1>8. /\ versions' \in Seq(ClientState) /\ versions' # <<>> /\ requests' \subseteq Attempt
      /\ certificates' \subseteq Certificate
    BY <1>2 DEF IInv, Types
<1> QED
    BY <1>2, <1>7, <1>8, ClientStep

\* What retransmit returns is stored behind a PRODUCED record.
LEMMA TransmitStep ==
    ASSUME IInv, Transmit
    PROVE  IInv'
<1>1. PICK h \in Handles, r \in Slots :
          /\ Retransmits(h, certfile[r].cert)
          /\ certificates' = certificates \cup {certfile[r].cert}
    BY DEF Transmit
<1>2. UNCHANGED <<versions, provider, requests, acks, accepted>>
    BY DEF Transmit, client
<1>3. PICK cert : cert = certfile[r].cert
    OBVIOUS
<1>4. /\ handle[h] # None /\ Status(handle[h].view) \in {"produced", "accepted"}
      /\ Validates(handle[h].slot) /\ certfile[handle[h].slot].cert = cert
      /\ ProducedDigest(handle[h].view) = cert
    BY <1>1, <1>3 DEF Retransmits, Ready
<1>5. handle[h] \in Handle /\ HandleOK(h) /\ Types
    BY <1>4 DEF IInv, Types
<1>6. PICK s \in Slots : s = handle[h].slot
    BY <1>5 DEF Handle
<1>7. PICK view, log : view = handle[h].view /\ log = journal[s].log
    OBVIOUS
<1>8. /\ view \in Seq(Step) /\ LogOK(view) /\ log \in Seq(Step) /\ LogOK(log)
      /\ Len(view) <= Len(log)
      /\ \A i \in 1..Len(view) : view[i] = log[i]
    BY <1>4, <1>5, <1>6, <1>7 DEF HandleOK, Handle, IInv, JournalOK, Types, File
<1>9. Len(view) \in 2..3 /\ Len(log) \in 0..3 /\ view[2].to = "produced"
    BY <1>4, <1>7, <1>8, StatusFacts DEF LogOK
<1>10. Len(log) \in 2..3 /\ log[2] = view[2]
    BY <1>8, <1>9
<1>11. Status(log) \in {"produced", "accepted"}
    BY <1>8, <1>9, <1>10, StatusFacts
<1>12. ProducedDigest(log) = cert
    BY <1>4, <1>7, <1>9, <1>10 DEF ProducedDigest
<1>13. Stored(s, cert)
    BY <1>4, <1>6, <1>7, <1>11, <1>12 DEF Stored
<1>14. cert \in Certificate
    BY <1>4, <1>5, <1>6 DEF Validates, Types, CertFile
<1>15. ClientOK'
    BY <1>1, <1>2 DEF IInv, ClientOK
<1>16. /\ versions' \in Seq(ClientState) /\ versions' # <<>> /\ requests' \subseteq Attempt
       /\ certificates' \subseteq Certificate
    BY <1>1, <1>2, <1>3, <1>14 DEF IInv, Types
<1>17. \A c \in certificates' : c \in certificates \/ \E t \in Slots : Stored(t, c)
    BY <1>1, <1>3, <1>13
<1> QED
    BY <1>2, <1>15, <1>16, <1>17, ClientStep

-----------------------------------------------------------------------------
(* The provider *)

\* A step of the provider.
LEMMA ProviderStep ==
    ASSUME IInv, \A s \in Slots : Keeps(s), JournalsOK', Exposes,
           UNCHANGED <<client, network, accepted>>,
           journal' \in [Slots -> File], certfile' \in [Slots -> CertFile \cup {None}],
           handle' \in [Handles -> Handle \cup {None}],
           \A s \in Slots : DurableOK(s)', \A h \in Handles : HandleOK(h)'
    PROVE  IInv'
<1>1. UNCHANGED <<versions, requests, certificates, acks, accepted>>
    BY DEF client, network
<1>2. exposed' \in Seq(Attempt)
    BY <1>1, ExposedKept
<1>3. Types'
    BY <1>1, <1>2 DEF IInv, Types
<1>4. ClientOK'
    BY <1>1 DEF IInv, ClientOK
<1> QED
    BY <1>1, <1>3, <1>4, Assemble

\* Handles that are opened, dropped or lost with the process.
LEMMA HandlesStep ==
    ASSUME IInv, Open \/ Drop \/ Crash
    PROVE  IInv'
<1>1. UNCHANGED <<journal, certfile, exposed, client, network, accepted>>
    BY DEF Open, Drop, Crash, OpenStore, DropHandle, ProviderCrash
<1>2. (\A s \in Slots : Keeps(s)) /\ JournalsOK' /\ Exposes
    BY <1>1, FilesKept, KeepsJournals DEF Exposes
<1>3. /\ handle' \in [Handles -> Handle \cup {None}]
      /\ \A h \in Handles : handle'[h] = handle[h] \/ handle'[h] = None
    BY DEF Open, Drop, Crash, OpenStore, DropHandle, ProviderCrash, IInv, Types
<1>4. \A h \in Handles : HandleOK(h)'
    <2>1. ASSUME NEW h \in Handles, handle'[h] = None PROVE HandleOK(h)'
        BY <2>1 DEF HandleOK
    <2> QED
        BY <1>2, <1>3, <2>1, HandleKept
<1>5. \A s \in Slots : DurableOK(s)'
    BY <1>1 DEF IInv, DurableOK
<1>6. journal' \in [Slots -> File] /\ certfile' \in [Slots -> CertFile \cup {None}]
    BY <1>1 DEF IInv, Types
<1> QED
    BY <1>1, <1>2, <1>3, <1>4, <1>5, <1>6, ProviderStep

\* append_transition through a handle, with a record that follows what it read.
LEMMA AppendFacts ==
    ASSUME IInv, SyncedOrKept, NEW h \in Handles, NEW t \in Step, NEW io \in Outcome,
           handle[h] # None, Follows(handle[h].view, t),
           t.to = "accepted" => ProducedDigest(handle[h].view) \in accepted,
           AppendTransition(h, t, io), certfile' = certfile
    PROVE  /\ (\A s \in Slots : Keeps(s)) /\ NoneAdmitted
           /\ journal' \in [Slots -> File]
           /\ handle' \in [Handles -> Handle \cup {None}]
           /\ \A s \in Slots : DurableOK(s)'
           /\ \A g \in Handles : HandleOK(g)'
           /\ handle[h].slot \in Slots /\ journal[handle[h].slot].header = "ok"
           /\ Succeeds(journal[handle[h].slot], handle[h].view, io) =>
                 /\ journal[handle[h].slot].log = handle[h].view
                 /\ journal'[handle[h].slot].log # <<>>
<1>1. handle[h] \in Handle /\ HandleOK(h) /\ Types
    BY DEF IInv, Types
<1>2. PICK s \in Slots : s = handle[h].slot
    BY <1>1 DEF Handle
<1>3. PICK j \in File, view \in Seq(Step) : j = journal[s] /\ view = handle[h].view
    BY <1>1 DEF Types, Handle
<1>4. /\ j.header = "ok" /\ LogOK(view) /\ j.log \in Seq(Step) /\ LogOK(j.log)
    BY <1>1, <1>2, <1>3 DEF HandleOK, IInv, JournalOK, File
<1>5. PICK w : w = Written(j, view, t, io)
    OBVIOUS
<1>6. /\ w \in File /\ w.header = j.header /\ w.attempt = j.attempt
      /\ w.log = j.log \/ (view = j.log /\ w.log = Append(j.log, t))
      /\ Succeeds(j, view, io) => view = j.log /\ w.log = Append(j.log, t)
      /\ (io # "unsynced" /\ j.linked /\ j.synced = Len(j.log) + 1)
            => w.linked /\ w.synced = Len(w.log) + 1
    <2>1. WriteOK(j, view, t, io, w)
        BY <1>5, WrittenFacts
    <2> QED
        BY <2>1 DEF WriteOK
<1>7. journal' = [journal EXCEPT ![s] = w]
    BY <1>2, <1>3, <1>5 DEF AppendTransition
<1>8. /\ journal' \in [Slots -> File] /\ journal'[s] = w
      /\ \A r \in Slots \ {s} : journal'[r] = journal[r]
    BY <1>1, <1>6, <1>7 DEF Types
<1>9. Keeps(s)
    BY <1>2, <1>3, <1>4, <1>6, <1>8 DEF Keeps
<1>10. \A r \in Slots : Keeps(r)
    <2>1. \A r \in Slots \ {s} : Keeps(r)
        BY <1>8 DEF Keeps
    <2> QED
        BY <1>9, <2>1
<1>11. NoneAdmitted
    BY <1>3, <1>4, <1>6, <1>8 DEF NoneAdmitted
<1>12. \A r \in Slots : DurableOK(r)'
    <2>1. \A r \in Slots \ {s} : DurableOK(r)'
        BY <1>8 DEF IInv, DurableOK
    <2>2. ASSUME "P" \in LosesPower PROVE w.linked /\ w.synced = Len(w.log) + 1
        <3>1. io # "unsynced"
            BY <2>2 DEF SyncedOrKept, Outcome
        <3>2. j.linked /\ j.synced = Len(j.log) + 1
            BY <1>3, <1>4, <2>2 DEF IInv, DurableOK
        <3> QED
            BY <1>6, <3>1, <3>2
    <2>3. DurableOK(s)'
        BY <1>8, <2>2 DEF IInv, DurableOK
    <2> QED
        BY <2>1, <2>3
<1>13. PICK v : v = IF Succeeds(j, view, io) THEN Append(view, t) ELSE view
    OBVIOUS
<1>14. v \in Seq(Step) /\ LogOK(v)
    <2>1. Append(view, t) \in Seq(Step) /\ LogOK(Append(view, t))
        BY <1>3, <1>4, LogGrows
    <2> QED
        BY <1>3, <1>4, <1>13, <2>1
<1>15. handle' = [handle EXCEPT ![h] = [handle[h] EXCEPT !.view = v, !.certified = None]]
    BY <1>2, <1>3, <1>13 DEF AppendTransition
<1>16. PICK g : g = [handle[h] EXCEPT !.view = v, !.certified = None]
    OBVIOUS
<1>17. g \in Handle /\ g.slot = s /\ g.view = v /\ g.certified = None
    BY <1>1, <1>2, <1>14, <1>16 DEF Handle
<1>18. /\ handle' \in [Handles -> Handle \cup {None}] /\ handle'[h] = g
       /\ \A f \in Handles \ {h} : handle'[f] = handle[f]
    BY <1>1, <1>15, <1>16, <1>17 DEF Types
<1>19. Len(v) <= Len(w.log) /\ \A i \in 1..Len(v) : v[i] = w.log[i]
    <2>1. CASE Succeeds(j, view, io)
        <3>1. v = w.log /\ Len(v) \in Nat
            BY <1>6, <1>13, <1>14, <2>1, LenProperties
        <3> QED
            BY <3>1
    <2>2. CASE ~Succeeds(j, view, io)
        <3>1. v = view
            BY <1>13, <2>2
        <3>2. /\ Len(view) <= Len(journal'[s].log)
              /\ \A i \in 1..Len(view) : view[i] = journal'[s].log[i]
            BY <1>2, <1>3, <1>10, ViewKept
        <3> QED
            BY <1>8, <3>1, <3>2
    <2> QED
        BY <2>1, <2>2
<1>20. HandleOK(h)'
    BY <1>4, <1>6, <1>8, <1>14, <1>17, <1>18, <1>19 DEF HandleOK
<1>21. \A f \in Handles : HandleOK(f)'
    BY <1>10, <1>18, <1>20, HandleKept
<1>22. Succeeds(j, view, io) => j.log = view /\ w.log # <<>>
    BY <1>3, <1>4, <1>6, LogGrows
<1> QED
    BY <1>2, <1>3, <1>4, <1>8, <1>10, <1>11, <1>12, <1>18, <1>21, <1>22

\* The invariant after an append, and after the exposure a start makes.
LEMMA AppendStep ==
    ASSUME IInv, SyncedOrKept, NEW h \in Handles, NEW t \in Step, NEW io \in Outcome,
           handle[h] # None, Follows(handle[h].view, t),
           t.to = "accepted" => ProducedDigest(handle[h].view) \in accepted,
           AppendTransition(h, t, io), certfile' = certfile,
           UNCHANGED <<client, network, accepted>>,
           \/ exposed' = exposed
           \/ /\ Succeeds(journal[handle[h].slot], handle[h].view, io)
              /\ Status(handle[h].view) = "reserved"
              /\ exposed' = Append(exposed, journal[handle[h].slot].attempt)
    PROVE  IInv'
<1>1. /\ (\A s \in Slots : Keeps(s)) /\ NoneAdmitted
      /\ journal' \in [Slots -> File]
      /\ handle' \in [Handles -> Handle \cup {None}]
      /\ \A s \in Slots : DurableOK(s)'
      /\ \A g \in Handles : HandleOK(g)'
    BY AppendFacts
<1>2. /\ handle[h].slot \in Slots /\ journal[handle[h].slot].header = "ok"
      /\ Succeeds(journal[handle[h].slot], handle[h].view, io) =>
            /\ journal[handle[h].slot].log = handle[h].view
            /\ journal'[handle[h].slot].log # <<>>
    BY AppendFacts
<1>3. Status(handle[h].view) = "reserved" => handle[h].view = <<>>
    BY StatusFacts DEF IInv, Types, Handle, HandleOK
<1>4. Exposes
    BY <1>2, <1>3 DEF Exposes
<1>5. certfile' \in [Slots -> CertFile \cup {None}] /\ JournalsOK'
    BY <1>1, KeepsJournals DEF IInv, Types
<1> QED
    BY <1>1, <1>4, <1>5, ProviderStep

\* start, abort and acknowledge.
LEMMA TransitionSteps ==
    ASSUME IInv, SyncedOrKept, StartSlot \/ BurnSlot \/ ReceiveAck
    PROVE  IInv'
<1>0. /\ UNCHANGED <<client, network, accepted>>
      /\ Transition("inflight", None) \in Step /\ Transition("burned", None) \in Step
      /\ \A to, cert : Transition(to, cert).to = to
    BY DEF StartSlot, BurnSlot, ReceiveAck, Transition, Step
<1>1. CASE StartSlot
    <2>1. PICK h \in Handles, io \in Outcome : Start(h, io)
        BY <1>1 DEF StartSlot
    <2>2. PICK t : t = Transition("inflight", None)
        OBVIOUS
    <2>3. /\ handle[h] # None /\ Status(handle[h].view) = "reserved"
          /\ AppendTransition(h, t, io) /\ certfile' = certfile
          /\ \/ exposed' = exposed
             \/ /\ Succeeds(journal[handle[h].slot], handle[h].view, io)
                /\ Status(handle[h].view) = "reserved"
                /\ exposed' = Append(exposed, journal[handle[h].slot].attempt)
        BY <2>1, <2>2 DEF Start, Ready
    <2>4. t \in Step /\ t.to = "inflight" /\ Follows(handle[h].view, t)
        BY <1>0, <2>2, <2>3 DEF Follows
    <2> QED
        BY <1>0, <2>3, <2>4, AppendStep
<1>2. CASE BurnSlot
    <2>1. PICK h \in Handles, io \in Outcome : AbortSlot(h, io)
        BY <1>2 DEF BurnSlot
    <2>2. PICK t : t = Transition("burned", None)
        OBVIOUS
    <2>3. /\ handle[h] # None /\ Status(handle[h].view) \in {"reserved", "inflight"}
          /\ AppendTransition(h, t, io) /\ certfile' = certfile /\ exposed' = exposed
        BY <2>1, <2>2 DEF AbortSlot, Ready
    <2>4. t \in Step /\ t.to = "burned" /\ Follows(handle[h].view, t)
        BY <1>0, <2>2, <2>3 DEF Follows
    <2> QED
        BY <1>0, <2>3, <2>4, AppendStep
<1>3. CASE ReceiveAck
    <2>1. PICK h \in Handles, cert \in acks, io \in Outcome : Acknowledge(h, cert, io)
        BY <1>3 DEF ReceiveAck
    <2>2. PICK t : t = Transition("accepted", cert)
        OBVIOUS
    <2>3. /\ handle[h] # None /\ Status(handle[h].view) = "produced"
          /\ ProducedDigest(handle[h].view) = cert
          /\ AppendTransition(h, t, io) /\ certfile' = certfile /\ exposed' = exposed
        BY <2>1, <2>2 DEF Acknowledge, Ready
    <2>4. cert \in accepted /\ cert \in Certificate
        BY DEF IInv, ClientOK, Types
    <2>5. t \in Step /\ t.to = "accepted" /\ Follows(handle[h].view, t)
        BY <1>0, <2>2, <2>3, <2>4 DEF Follows, Transition, Step
    <2> QED
        BY <1>0, <2>3, <2>4, <2>5, AppendStep
<1> QED
    BY <1>1, <1>2, <1>3

\* produce, where it appends: PRODUCED, or BURNED over a certificate of other bytes.
LEMMA ProduceAppends ==
    ASSUME IInv, SyncedOrKept, UNCHANGED <<client, network, accepted>>,
           NEW h \in Handles, NEW io \in Outcome,
           AppendProduced(h, io) \/ \E body \in Bodies : ProduceFindsAlternate(h, body, io)
    PROVE  IInv'
<1>1. CASE AppendProduced(h, io)
    <2>1. PICK t : t = Transition("produced", handle[h].certified)
        OBVIOUS
    <2>2. /\ handle[h] # None /\ handle[h].certified # None
          /\ AppendTransition(h, t, io) /\ certfile' = certfile /\ exposed' = exposed
        BY <1>1, <2>1 DEF AppendProduced
    <2>3. handle[h] \in Handle /\ Status(handle[h].view) = "inflight"
        BY <2>2 DEF IInv, Types, HandleOK
    <2>4. t \in Step /\ t.to = "produced"
        BY <2>1, <2>3 DEF Transition, Step, Handle
    <2>5. Follows(handle[h].view, t)
        BY <2>3, <2>4 DEF Follows
    <2> QED
        BY <2>2, <2>4, <2>5, AppendStep
<1>2. CASE \E body \in Bodies : ProduceFindsAlternate(h, body, io)
    <2>1. PICK t : t = Transition("burned", None)
        OBVIOUS
    <2>2. /\ handle[h] # None /\ Status(handle[h].view) = "inflight"
          /\ AppendTransition(h, t, io) /\ certfile' = certfile /\ exposed' = exposed
        BY <1>2, <2>1 DEF ProduceFindsAlternate, Ready
    <2>3. t \in Step /\ t.to = "burned" /\ Follows(handle[h].view, t)
        BY <2>1, <2>2 DEF Transition, Step, Follows
    <2> QED
        BY <2>2, <2>3, AppendStep
<1> QED
    BY <1>1, <1>2

\* sync_directory changes nothing a reader sees.
LEMMA LinkedFacts ==
    ASSUME NEW j \in [Slots -> File]
    PROVE  /\ Linked(j) \in [Slots -> File]
           /\ \A s \in Slots : /\ Linked(j)[s].header = j[s].header
                               /\ Linked(j)[s].attempt = j[s].attempt
                               /\ Linked(j)[s].log = j[s].log
                               /\ Linked(j)[s].synced = j[s].synced
                               /\ j[s].header = "ok" => Linked(j)[s].linked
<1>1. ASSUME NEW f \in File, NEW b \in BOOLEAN
      PROVE  /\ [f EXCEPT !.linked = b] \in File
             /\ [f EXCEPT !.linked = b].header = f.header
             /\ [f EXCEPT !.linked = b].attempt = f.attempt
             /\ [f EXCEPT !.linked = b].log = f.log
             /\ [f EXCEPT !.linked = b].synced = f.synced
             /\ [f EXCEPT !.linked = b].linked = b
    BY DEF File
<1>2. \A s \in Slots : j[s] \in File /\ (j[s].header # "absent") \in BOOLEAN
    OBVIOUS
<1>3. \A s \in Slots : Linked(j)[s] = [j[s] EXCEPT !.linked = (j[s].header # "absent")]
    BY DEF Linked
<1>4. ASSUME NEW s \in Slots
      PROVE  /\ Linked(j)[s] \in File
             /\ Linked(j)[s].header = j[s].header
             /\ Linked(j)[s].attempt = j[s].attempt
             /\ Linked(j)[s].log = j[s].log
             /\ Linked(j)[s].synced = j[s].synced
             /\ j[s].header = "ok" => Linked(j)[s].linked
    <2>1. PICK b \in BOOLEAN : b = (j[s].header # "absent")
        OBVIOUS
    <2>2. Linked(j)[s] = [j[s] EXCEPT !.linked = b]
        BY <1>3, <2>1
    <2>3. j[s].header = "ok" => b
        BY <2>1
    <2> QED
        BY <1>1, <1>2, <2>2, <2>3
<1>5. Linked(j) = [s \in Slots |-> Linked(j)[s]]
    BY DEF Linked
<1> QED
    BY <1>4, <1>5

\* produce's first half: the certificate file is created once, and never replaced.
LEMMA WriteCertificateStep ==
    ASSUME IInv, SyncedOrKept, UNCHANGED <<client, network, accepted>>,
           NEW h \in Handles, NEW io \in Outcome, NEW body \in Bodies,
           WriteCertificate(h, body, io)
    PROVE  IInv'
<1>1. /\ handle[h] # None /\ Status(handle[h].view) = "inflight" /\ exposed' = exposed
    BY DEF WriteCertificate, Ready
<1>2. handle[h] \in Handle /\ HandleOK(h) /\ Types
    BY <1>1 DEF IInv, Types
<1>3. PICK s \in Slots : s = handle[h].slot
    BY <1>2 DEF Handle
<1>4. PICK cert : cert = [attempt |-> journal[s].attempt, body |-> body]
    OBVIOUS
<1>5. cert \in Certificate
    <2>1. journal[s].attempt \in Attempt
        BY <1>1, <1>2, <1>3 DEF HandleOK, IInv, JournalOK
    <2> QED
        BY <1>4, <2>1 DEF Certificate
<1>6. PICK c \in Certificate \cup {None} : handle' = [handle EXCEPT ![h].certified = c]
    BY <1>3, <1>4, <1>5 DEF WriteCertificate
<1>7. PICK g : g = [handle[h] EXCEPT !.certified = c]
    OBVIOUS
<1>8. g \in Handle /\ g.slot = s /\ g.view = handle[h].view
    BY <1>2, <1>3, <1>6, <1>7 DEF Handle
<1>9. /\ handle' \in [Handles -> Handle \cup {None}] /\ handle'[h] = g
      /\ \A f \in Handles \ {h} : handle'[f] = handle[f]
    <2>1. handle' = [handle EXCEPT ![h] = g]
        BY <1>6, <1>7
    <2> QED
        BY <1>2, <1>8, <2>1 DEF Types
<1>10. journal' = journal \/ journal' = Linked(journal)
    BY DEF WriteCertificate
<1>11. /\ journal' \in [Slots -> File]
       /\ \A r \in Slots : /\ journal'[r].header = journal[r].header
                           /\ journal'[r].attempt = journal[r].attempt
                           /\ journal'[r].log = journal[r].log
                           /\ journal'[r].synced = journal[r].synced
                           /\ journal[r].header = "ok" /\ journal[r].linked => journal'[r].linked
    <2>1. CASE journal' = journal
        BY <1>2, <2>1 DEF Types
    <2>2. CASE journal' = Linked(journal)
        BY <1>2, <2>2, LinkedFacts DEF Types
    <2> QED
        BY <1>10, <2>1, <2>2
<1>12. /\ certfile' \in [Slots -> CertFile \cup {None}]
       /\ \A r \in Slots \ {s} : certfile'[r] = certfile[r]
       /\ certfile[s] # None => certfile'[s] = certfile[s]
       /\ certfile[s] = None =>
             (io # "unsynced" => certfile'[s].cert = TornCertificate \/ certfile'[s].durable)
    <2>1. CASE certfile[s] # None
        <3>1. certfile' = certfile
            BY <1>3, <2>1 DEF WriteCertificate
        <3> QED
            BY <1>2, <2>1, <3>1 DEF Types
    <2>2. CASE certfile[s] = None
        <3>1. PICK x, d : /\ x = IF io \in {"ok", "unsynced"} THEN cert ELSE TornCertificate
                          /\ d = (io = "ok")
                          /\ certfile' = [certfile EXCEPT ![s] = [cert |-> x, durable |-> d]]
            BY <1>3, <1>4, <2>2 DEF WriteCertificate
        <3>2. /\ x \in Certificate \cup {TornCertificate} /\ d \in BOOLEAN
              /\ io # "unsynced" => x = TornCertificate \/ d
            BY <1>5, <3>1
        <3>3. [cert |-> x, durable |-> d] \in CertFile
            BY <3>2 DEF CertFile
        <3>4. /\ certfile' \in [Slots -> CertFile \cup {None}]
              /\ certfile'[s] = [cert |-> x, durable |-> d]
              /\ \A r \in Slots \ {s} : certfile'[r] = certfile[r]
            BY <1>2, <3>1, <3>3 DEF Types
        <3> QED
            BY <2>2, <3>2, <3>4
    <2> QED
        BY <2>1, <2>2
<1>13. \A r \in Slots : Keeps(r)
    BY <1>11, <1>12 DEF Keeps
<1>14. NoneAdmitted /\ Exposes
    BY <1>1, <1>11 DEF NoneAdmitted, Exposes
<1>15. \A r \in Slots : DurableOK(r)'
    <2>1. "P" \in LosesPower => io # "unsynced"
        BY DEF SyncedOrKept, Outcome
    <2>2. ASSUME NEW r \in Slots, "P" \in LosesPower
          PROVE  /\ journal'[r].header = "ok" =>
                        journal'[r].linked /\ journal'[r].synced = Len(journal'[r].log) + 1
                 /\ certfile'[r] # None /\ certfile'[r].cert # TornCertificate =>
                        certfile'[r].durable
        BY <1>11, <1>12, <2>1, <2>2 DEF IInv, DurableOK
    <2> QED
        BY <2>2 DEF DurableOK
<1>16. HandleOK(h)'
    BY <1>1, <1>3, <1>8, <1>9, <1>13, ViewKept DEF HandleOK
<1>17. \A f \in Handles : HandleOK(f)'
    BY <1>9, <1>13, <1>16, HandleKept
<1> QED
    BY <1>9, <1>11, <1>12, <1>13, <1>14, <1>15, <1>17, KeepsJournals, ProviderStep

\* produce, all of it.
LEMMA ProduceStep ==
    ASSUME IInv, SyncedOrKept, Produce
    PROVE  IInv'
<1>1. UNCHANGED <<client, network, accepted>>
    BY DEF Produce
<1>2. PICK h \in Handles, io \in Outcome :
          \/ \E body \in Bodies : WriteCertificate(h, body, io)
          \/ \E body \in Bodies : ProduceFindsAlternate(h, body, io)
          \/ AppendProduced(h, io)
    BY DEF Produce
<1>3. CASE \E body \in Bodies : WriteCertificate(h, body, io)
    BY <1>1, <1>3, WriteCertificateStep
<1>4. CASE AppendProduced(h, io) \/ \E body \in Bodies : ProduceFindsAlternate(h, body, io)
    BY <1>1, <1>4, ProduceAppends
<1> QED
    BY <1>2, <1>3, <1>4

\* recover_orphan never leaves a slot in flight.
LEMMA OrphanFacts ==
    ASSUME IInv, NEW s \in Slots, journal[s].header = "ok", NEW o, o = Orphan(s)
    PROVE  \/ o.append = None /\ Status(journal[s].log) # "inflight"
           \/ /\ o.append \in Step /\ o.append # None
              /\ o.append.to \in {"burned", "produced"}
              /\ Follows(journal[s].log, o.append)
<1>1. journal[s].log \in Seq(Step) /\ LogOK(journal[s].log)
    BY DEF IInv, Types, File, JournalOK
<1>2. PICK st : st = Status(journal[s].log)
    OBVIOUS
<1>3. st \in {"reserved", "inflight", "produced", "accepted", "burned"}
    BY <1>1, <1>2, StatusFacts DEF LogOK, Status
<1>4. PICK burn : burn = Transition("burned", None)
    OBVIOUS
<1>5. burn \in Step /\ burn.to = "burned" /\ burn # None
    BY <1>4, StepNotNone DEF Transition, Step
<1>6. CASE st \in {"produced", "accepted", "burned"}
    BY <1>2, <1>6 DEF Orphan
<1>7. CASE st = "reserved"
    <2>1. o.append = None \/ o.append = burn
        BY <1>2, <1>4, <1>7 DEF Orphan
    <2> QED
        BY <1>2, <1>5, <1>7, <2>1 DEF Follows
<1>8. CASE st = "inflight" /\ (certfile[s] = None \/ ~Validates(s))
    <2>1. o.append = burn
        BY <1>2, <1>4, <1>8 DEF Orphan
    <2> QED
        BY <1>2, <1>5, <1>8, <2>1 DEF Follows
<1>9. CASE st = "inflight" /\ certfile[s] # None /\ Validates(s)
    <2>1. PICK t : t = Transition("produced", certfile[s].cert)
        OBVIOUS
    <2>2. o.append = t
        BY <1>2, <1>9, <2>1 DEF Orphan
    <2>3. certfile[s].cert \in Certificate
        BY <1>9 DEF Validates, IInv, Types, CertFile
    <2>4. t \in Step /\ t.to = "produced" /\ t # None
        BY <2>1, <2>3, StepNotNone DEF Transition, Step
    <2> QED
        BY <1>2, <1>9, <2>2, <2>4 DEF Follows
<1> QED
    BY <1>3, <1>6, <1>7, <1>8, <1>9

\* A handle that open_slot or reserve returns has read the whole journal.
LEMMA NewHandleOK ==
    ASSUME IInv, \A s \in Slots : Keeps(s), NEW h \in Handles, NEW s \in Slots,
           NEW view \in Seq(Step), LogOK(view), journal'[s].header = "ok",
           view = journal'[s].log,
           \/ handle' = handle
           \/ handle' = [handle EXCEPT ![h] = [slot |-> s, view |-> view, certified |-> None]]
    PROVE  handle' \in [Handles -> Handle \cup {None}] /\ \A f \in Handles : HandleOK(f)'
<1>0. handle \in [Handles -> Handle \cup {None}]
    BY DEF IInv, Types
<1>1. CASE handle' = handle
    BY <1>0, <1>1, HandleKept
<1>2. CASE handle' = [handle EXCEPT ![h] = [slot |-> s, view |-> view, certified |-> None]]
    <2>1. PICK g : g = [slot |-> s, view |-> view, certified |-> None]
        OBVIOUS
    <2>2. g \in Handle /\ g.slot = s /\ g.view = view /\ g.certified = None
        BY <2>1 DEF Handle
    <2>3. /\ handle' \in [Handles -> Handle \cup {None}] /\ handle'[h] = g
          /\ \A f \in Handles \ {h} : handle'[f] = handle[f]
        BY <1>0, <1>2, <2>1, <2>2
    <2>4. Len(view) <= Len(journal'[s].log) /\ \A i \in 1..Len(view) : view[i] = journal'[s].log[i]
        BY LenProperties
    <2>5. HandleOK(h)'
        BY <2>2, <2>3, <2>4 DEF HandleOK
    <2> QED
        BY <2>3, <2>5, HandleKept
<1> QED
    BY <1>1, <1>2

\* open_slot: recovery ends an interrupted slot before anything is read.
LEMMA ReopenStep ==
    ASSUME IInv, SyncedOrKept, ReopenSlot
    PROVE  IInv'
<1>0. UNCHANGED <<client, network, accepted>> /\ Types
    BY DEF ReopenSlot, IInv
<1>1. PICK h \in Handles, s \in Slots, io \in Outcome : OpenSlot(h, s, io)
    BY DEF ReopenSlot
<1>2. PICK o, j : o = Orphan(s) /\ j = journal[s] /\ j \in File
    BY <1>0 DEF Types
<1>3. /\ j.header = "ok" /\ j.bad = "no" /\ j.log \in Seq(Step) /\ LogOK(j.log)
      /\ certfile' = certfile
    BY <1>1, <1>2 DEF OpenSlot, Readable, IInv, JournalOK, File
<1>4. certfile' \in [Slots -> CertFile \cup {None}]
    BY <1>0, <1>3 DEF Types
<1>5. CASE o.append = None
    <2>1. Status(j.log) # "inflight"
        <3>1. \/ o.append = None /\ Status(journal[s].log) # "inflight"
              \/ o.append # None
            BY <1>2, <1>3, OrphanFacts
        <3> QED
            BY <1>2, <1>5, <3>1
    <2>2. journal' = journal
        BY <1>1, <1>2, <1>5 DEF OpenSlot
    <2>3. \/ handle' = handle
          \/ handle' = [handle EXCEPT ![h] = [slot |-> s, view |-> j.log, certified |-> None]]
        BY <1>1, <1>2, <1>5 DEF OpenSlot
    <2>4. exposed' = exposed
        BY <1>1, <1>2, <1>5, <2>1 DEF OpenSlot
    <2>5. (\A r \in Slots : Keeps(r)) /\ NoneAdmitted /\ Exposes
        BY <1>3, <2>2, <2>4, FilesKept DEF Exposes
    <2>6. handle' \in [Handles -> Handle \cup {None}] /\ \A f \in Handles : HandleOK(f)'
        <3>1. journal'[s].header = "ok" /\ j.log = journal'[s].log
            BY <1>2, <1>3, <2>2
        <3> QED
            BY <1>3, <2>3, <2>5, <3>1, NewHandleOK
    <2>7. \A r \in Slots : DurableOK(r)'
        BY <1>3, <2>2 DEF IInv, DurableOK
    <2>8. journal' \in [Slots -> File]
        BY <1>0, <2>2 DEF Types
    <2> QED
        BY <1>0, <1>4, <2>5, <2>6, <2>7, <2>8, KeepsJournals, ProviderStep
<1>6. CASE o.append # None
    <2>1. PICK t \in Step : /\ t = o.append /\ t.to \in {"burned", "produced"}
                            /\ Follows(j.log, t)
        <3>1. \/ o.append = None
              \/ /\ o.append \in Step
                 /\ o.append.to \in {"burned", "produced"}
                 /\ Follows(journal[s].log, o.append)
            BY <1>2, <1>3, OrphanFacts
        <3> QED
            BY <1>2, <1>6, <3>1
    <2>2. PICK view, w : view = Append(j.log, t) /\ w = Written(j, j.log, t, io)
        OBVIOUS
    <2>3. WriteOK(j, j.log, t, io, w)
        BY <1>2, <2>2, WrittenFacts
    <2>4. /\ w \in File /\ w.header = "ok" /\ w.attempt = j.attempt
          /\ w.log = j.log \/ w.log = view
          /\ io = "ok" => w.log = view
        BY <1>3, <2>2, <2>3 DEF WriteOK, Succeeds
    <2>5. view \in Seq(Step) /\ LogOK(view) /\ Status(view) = t.to
        BY <1>3, <2>1, <2>2, LogGrows
    <2>6. journal' = [journal EXCEPT ![s] = w]
        BY <1>1, <1>2, <1>6, <2>1, <2>2 DEF OpenSlot
    <2>7. /\ journal' \in [Slots -> File] /\ journal'[s] = w
          /\ \A r \in Slots \ {s} : journal'[r] = journal[r]
        BY <1>0, <2>4, <2>6 DEF Types
    <2>8. \/ handle' = handle
          \/ io = "ok"
             /\ handle' = [handle EXCEPT ![h] = [slot |-> s, view |-> view, certified |-> None]]
        BY <1>1, <1>2, <1>6, <2>1, <2>2 DEF OpenSlot
    <2>9. exposed' = exposed
        <3>1. Status(view) # "inflight"
            BY <2>1, <2>5
        <3> QED
            BY <1>1, <1>2, <1>6, <2>1, <2>2, <3>1 DEF OpenSlot
    <2>10. Keeps(s)
        BY <1>2, <1>3, <2>1, <2>2, <2>4, <2>7 DEF Keeps
    <2>11. \A r \in Slots : Keeps(r)
        <3>1. \A r \in Slots \ {s} : Keeps(r)
            BY <1>3, <2>7 DEF Keeps
        <3> QED
            BY <2>10, <3>1
    <2>12. NoneAdmitted /\ Exposes
        BY <1>2, <1>3, <2>7, <2>9 DEF NoneAdmitted, Exposes
    <2>13. handle' \in [Handles -> Handle \cup {None}] /\ \A f \in Handles : HandleOK(f)'
        <3>1. CASE handle' = handle
            BY <1>0, <2>11, <3>1, HandleKept DEF Types
        <3>2. CASE /\ io = "ok"
                   /\ handle' = [handle EXCEPT ![h] = [slot |-> s, view |-> view,
                                                       certified |-> None]]
            <4>1. journal'[s].header = "ok" /\ view = journal'[s].log
                BY <2>4, <2>7, <3>2
            <4> QED
                BY <2>5, <2>11, <3>2, <4>1, NewHandleOK
        <3> QED
            BY <2>8, <3>1, <3>2
    <2>14. \A r \in Slots : DurableOK(r)'
        <3>1. \A r \in Slots \ {s} : DurableOK(r)'
            BY <1>3, <2>7 DEF IInv, DurableOK
        <3>2. ASSUME "P" \in LosesPower PROVE w.linked /\ w.synced = Len(w.log) + 1
            <4>1. io # "unsynced"
                BY <3>2 DEF SyncedOrKept, Outcome
            <4>2. j.linked /\ j.synced = Len(j.log) + 1
                BY <1>2, <1>3, <3>2 DEF IInv, DurableOK
            <4> QED
                BY <2>3, <4>1, <4>2 DEF WriteOK
        <3>3. DurableOK(s)'
            BY <1>3, <2>7, <3>2 DEF IInv, DurableOK
        <3> QED
            BY <3>1, <3>3
    <2> QED
        BY <1>0, <1>4, <2>7, <2>11, <2>12, <2>13, <2>14, KeepsJournals, ProviderStep
<1> QED
    BY <1>5, <1>6

\* reserve: a new journal, apart from the ranges and the live children of the others.
LEMMA ReserveStep ==
    ASSUME IInv, SyncedOrKept, ReserveRequested
    PROVE  IInv'
<1>0. UNCHANGED <<client, network, accepted>> /\ Types
    BY DEF ReserveRequested, IInv
<1>1. PICK h \in Handles, a \in requests, io \in Outcome : ReserveSlot(h, a, io)
    BY DEF ReserveRequested
<1>2. a \in Attempt /\ a.slot \in Slots /\ journal \in [Slots -> File]
    BY <1>0 DEF Types, Attempt
<1>3. PICK s \in Slots : s = a.slot
    BY <1>2
<1>4. /\ journal[s].header = "absent" /\ Admits(a)
      /\ UNCHANGED <<certfile, exposed>>
    BY <1>1, <1>3 DEF ReserveSlot
<1>5. certfile' \in [Slots -> CertFile \cup {None}] /\ Exposes
    BY <1>0, <1>4 DEF Types, Exposes
<1>6. io \in {"ok", "nothing", "torn", "unsynced"}
    BY SlotFaultsAssumption DEF Outcome
<1>7. "P" \in LosesPower => io # "unsynced"
    BY DEF SyncedOrKept, Outcome
<1>8. CASE io = "nothing"
    <2>1. journal' = journal /\ handle' = handle
        BY <1>1, <1>8 DEF ReserveSlot
    <2>2. (\A r \in Slots : Keeps(r)) /\ JournalsOK'
        BY <1>4, <2>1, FilesKept, KeepsJournals
    <2>3. \A f \in Handles : HandleOK(f)'
        BY <2>1, <2>2, HandleKept
    <2>4. \A r \in Slots : DurableOK(r)'
        BY <1>4, <2>1 DEF IInv, DurableOK
    <2>5. journal' \in [Slots -> File] /\ handle' \in [Handles -> Handle \cup {None}]
        BY <1>0, <2>1 DEF Types
    <2> QED
        BY <1>0, <1>5, <2>2, <2>3, <2>4, <2>5, ProviderStep
<1>9. CASE io # "nothing"
    <2>1. PICK head \in {"torn", "ok"}, k \in {0, 1} :
             /\ head = IF io = "torn" THEN "torn" ELSE "ok"
             /\ k = IF io = "ok" THEN 1 ELSE 0
        OBVIOUS
    <2>2. PICK new : new = [AbsentFile EXCEPT !.header = head, !.attempt = a, !.synced = k]
        OBVIOUS
    <2>3. new = [header |-> head, attempt |-> a, log |-> <<>>, synced |-> k,
                 linked |-> FALSE, bad |-> "no"]
        BY <2>2 DEF AbsentFile
    <2>4. /\ new \in File /\ new.header = head /\ new.attempt = a /\ new.log = <<>>
          /\ new.synced = k
        BY <1>2, <2>3 DEF File
    <2>5. PICK j : j = [journal EXCEPT ![s] = new]
        OBVIOUS
    <2>6. /\ j \in [Slots -> File] /\ j[s] = new
          /\ \A r \in Slots \ {s} : j[r] = journal[r]
        BY <1>2, <2>4, <2>5
    <2>7. journal' = IF io = "ok" THEN Linked(j) ELSE j
        BY <1>1, <1>3, <1>6, <1>9, <2>1, <2>2, <2>5 DEF ReserveSlot
    <2>8. /\ journal' \in [Slots -> File]
          /\ \A r \in Slots : /\ journal'[r].header = j[r].header
                              /\ journal'[r].attempt = j[r].attempt
                              /\ journal'[r].log = j[r].log
                              /\ journal'[r].synced = j[r].synced
                              /\ j[r].linked /\ j[r].header = "ok" => journal'[r].linked
                              /\ io = "ok" /\ j[r].header = "ok" => journal'[r].linked
        <3>1. CASE io = "ok"
            BY <2>6, <2>7, <3>1, LinkedFacts
        <3>2. CASE io # "ok"
            BY <2>6, <2>7, <3>2
        <3> QED
            BY <3>1, <3>2
    <2>9. /\ journal'[s].header = head /\ journal'[s].attempt = a
          /\ journal'[s].log = <<>> /\ journal'[s].synced = k
          /\ \A r \in Slots \ {s} : /\ journal'[r].header = journal[r].header
                                    /\ journal'[r].attempt = journal[r].attempt
                                    /\ journal'[r].log = journal[r].log
                                    /\ journal'[r].synced = journal[r].synced
        BY <2>4, <2>6, <2>8
    <2>10. journal[s].log = <<>>
        BY <1>4 DEF IInv, JournalOK
    <2>11. \A r \in Slots : Keeps(r)
        BY <1>4, <2>9, <2>10 DEF Keeps
    <2>12. JournalsOK'
        <3>1. \A r \in Slots \ {s} : journal[r].header = "ok" =>
                 /\ ~Overlaps(journal[r].attempt.ranges, a.ranges)
                 /\ journal[r].attempt.head = a.head => Status(journal[r].log) = "burned"
            BY <1>4 DEF Admits
        <3>2. \A x, y : Overlaps(x, y) => Overlaps(y, x)
            BY DEF Overlaps
        <3>3. RangesApart'
            BY <2>9, <3>1, <3>2 DEF IInv, RangesApart
        <3>4. OneLiveChild'
            BY <2>9, <3>1 DEF IInv, OneLiveChild
        <3>5. JournalOK(s)'
            <4>1. LogOK(<<>>)
                BY DEF LogOK
            <4> QED
                BY <1>2, <1>3, <2>9, <4>1 DEF JournalOK
        <3>6. \A r \in Slots \ {s} : JournalOK(r)'
            BY <2>9 DEF IInv, JournalOK
        <3> QED
            BY <3>3, <3>4, <3>5, <3>6 DEF JournalsOK
    <2>13. \A r \in Slots : DurableOK(r)'
        <3>1. ASSUME "P" \in LosesPower, journal'[s].header = "ok"
              PROVE  journal'[s].linked /\ journal'[s].synced = Len(journal'[s].log) + 1
            <4>1. io = "ok"
                BY <1>6, <1>7, <1>9, <2>1, <2>9, <3>1
            <4>2. k = 1 /\ j[s].header = "ok"
                BY <2>1, <2>4, <2>6, <4>1
            <4>3. journal'[s].linked
                BY <2>8, <4>1, <4>2
            <4> QED
                BY <2>9, <4>2, <4>3
        <3>2. DurableOK(s)'
            BY <1>4, <3>1 DEF IInv, DurableOK
        <3>3. \A r \in Slots \ {s} : DurableOK(r)'
            BY <1>4, <2>6, <2>8, <2>9 DEF IInv, DurableOK
        <3> QED
            BY <3>2, <3>3
    <2>14. handle' \in [Handles -> Handle \cup {None}] /\ \A f \in Handles : HandleOK(f)'
        <3>1. CASE io = "ok"
            <4>1. handle' = [handle EXCEPT ![h] = [slot |-> s, view |-> <<>>, certified |-> None]]
                BY <1>1, <1>3, <3>1 DEF ReserveSlot
            <4>2. journal'[s].header = "ok"
                BY <2>1, <2>9, <3>1
            <4>3. PICK view : view = <<>>
                OBVIOUS
            <4>4. view \in Seq(Step) /\ LogOK(view)
                BY <4>3 DEF LogOK
            <4> QED
                BY <2>9, <2>11, <4>1, <4>2, <4>3, <4>4, NewHandleOK
        <3>2. CASE io # "ok"
            <4>1. handle' = handle
                BY <1>1, <3>2 DEF ReserveSlot
            <4> QED
                BY <1>0, <2>11, <4>1, HandleKept DEF Types
        <3> QED
            BY <3>1, <3>2
    <2> QED
        BY <1>0, <1>5, <2>8, <2>11, <2>12, <2>13, <2>14, ProviderStep
<1> QED
    BY <1>8, <1>9

-----------------------------------------------------------------------------
(* Loss of power at the provider *)

\* A file that is synced and linked survives as it was; one without a readable
\* header never gets one.
LEMMA SurvivorFacts ==
    ASSUME NEW j \in File, NEW f \in SurvivingFiles(j),
           j.header = "ok" => j.linked /\ j.synced = Len(j.log) + 1,
           j.header # "ok" => j.log = <<>>
    PROVE  /\ f \in File
           /\ f.header = "ok" <=> j.header = "ok"
           /\ f.log = j.log
           /\ j.header = "ok" => /\ f.attempt = j.attempt
                                 /\ f.linked /\ f.synced = Len(f.log) + 1
<1>1. j.log \in Seq(Step) /\ Len(j.log) \in Nat /\ j.synced \in Nat
    BY LenProperties DEF File
<1>2. CASE f = j \/ (f = AbsentFile /\ j.header # "ok")
    <2>1. AbsentFile \in File /\ AbsentFile.header = "absent" /\ AbsentFile.log = <<>>
        BY DEF AbsentFile, File
    <2>2. CASE f = j /\ j.header # "ok"
        BY <2>2
    <2>3. CASE f = j /\ j.header = "ok"
        BY <2>3
    <2>4. CASE f = AbsentFile /\ j.header # "ok"
        BY <2>1, <2>4
    <2> QED
        BY <1>2, <2>2, <2>3, <2>4
<1>3. CASE ~(f = j \/ (f = AbsentFile /\ j.header # "ok"))
    <2> DEFINE Part(k, b) == [j EXCEPT !.header = IF k = 0 THEN "torn" ELSE @,
                                       !.log = SubSeq(@, 1, k - 1),
                                       !.synced = k,
                                       !.linked = TRUE,
                                       !.bad = b]
               Tails(k) == CASE j.bad = "synced" -> {"synced"}
                             [] k \in 1..Len(j.log) \/ j.bad = "unsynced" -> {"no", "synced"}
                             [] OTHER -> {"no"}
               Sizes == j.synced..(Len(j.log) + 1)
    <2>0. SurvivingFiles(j) =
             IF j.header = "absent" THEN {j}
             ELSE (IF j.linked THEN {} ELSE {AbsentFile}) \cup
                  UNION {{Part(k, b) : b \in Tails(k)} : k \in Sizes}
        BY DEF SurvivingFiles
    <2>1. \A k : Tails(k) \subseteq {"no", "synced"}
        OBVIOUS
    <2> HIDE DEF Part, Tails, Sizes
    <2>2. f \in UNION {{Part(k, b) : b \in Tails(k)} : k \in Sizes}
        BY <1>3, <2>0
    <2>3. PICK k \in j.synced..(Len(j.log) + 1), b \in {"no", "synced"} :
             f = [j EXCEPT !.header = IF k = 0 THEN "torn" ELSE @,
                           !.log = SubSeq(@, 1, k - 1),
                           !.synced = k,
                           !.linked = TRUE,
                           !.bad = b]
        <3>1. PICK k \in Sizes : f \in {Part(k, b) : b \in Tails(k)}
            BY <2>2
        <3>2. PICK b \in Tails(k) : f = Part(k, b)
            BY <3>1
        <3>3. k \in j.synced..(Len(j.log) + 1) /\ b \in {"no", "synced"}
            BY <2>1, <3>1, <3>2 DEF Sizes
        <3> QED
            BY <3>2, <3>3 DEF Part
    <2>4. PICK head, log : /\ head = IF k = 0 THEN "torn" ELSE j.header
                           /\ log = SubSeq(j.log, 1, k - 1)
        OBVIOUS
    <2>5. f = [j EXCEPT !.header = head, !.log = log, !.synced = k, !.linked = TRUE, !.bad = b]
        BY <2>3, <2>4
    <2>6. k \in Nat /\ k <= Len(j.log) + 1
        BY <1>1
    <2>7. log = j.log
        <3>1. CASE j.header = "ok"
            <4>1. k = Len(j.log) + 1
                BY <1>1, <3>1
            <4> QED
                BY <1>1, <2>4, <4>1
        <3>2. CASE j.header # "ok"
            <4>1. Len(j.log) = 0 /\ j.log = <<>>
                BY <3>2
            <4>2. k - 1 < 1
                BY <2>6, <4>1
            <4> QED
                BY <2>4, <2>6, <4>1, <4>2, SubSeqEmpty
        <3> QED
            BY <3>1, <3>2
    <2>8. /\ head \in {"absent", "torn", "ok"}
          /\ head = "ok" <=> j.header = "ok"
        BY <1>1, <2>4, <2>6 DEF File
    <2>9. /\ f \in File /\ f.header = head /\ f.log = log /\ f.attempt = j.attempt
          /\ f.linked = TRUE /\ f.synced = k
        BY <1>1, <2>5, <2>6, <2>7, <2>8 DEF File
    <2>10. j.header = "ok" => k = Len(log) + 1
        BY <1>1, <2>7
    <2> QED
        BY <2>7, <2>8, <2>9, <2>10
<1> QED
    BY <1>2, <1>3

\* A loss of power at the provider: every handle is gone, every record kept.
LEMMA ProviderPowerLossStep ==
    ASSUME IInv, "P" \in LosesPower, ProviderPowerLoss, UNCHANGED <<client, network, accepted>>
    PROVE  IInv'
<1>0. Types
    BY DEF IInv
<1>1. /\ handle' = [h \in Handles |-> None] /\ exposed' = exposed
      /\ \A s \in Slots : /\ journal'[s] \in SurvivingFiles(journal[s])
                          /\ certfile'[s] \in SurvivingCertificates(certfile[s])
      /\ journal' = [s \in Slots |-> journal'[s]]
      /\ certfile' = [s \in Slots |-> certfile'[s]]
    BY DEF ProviderPowerLoss
<1>2. ASSUME NEW s \in Slots
      PROVE  /\ journal'[s] \in File
             /\ journal'[s].header = "ok" <=> journal[s].header = "ok"
             /\ journal'[s].log = journal[s].log
             /\ journal[s].header = "ok" => /\ journal'[s].attempt = journal[s].attempt
                                            /\ journal'[s].linked
                                            /\ journal'[s].synced = Len(journal'[s].log) + 1
    <2>1. PICK j, f : j = journal[s] /\ f = journal'[s]
        OBVIOUS
    <2>2. /\ j \in File /\ f \in SurvivingFiles(j)
          /\ j.header = "ok" => j.linked /\ j.synced = Len(j.log) + 1
          /\ j.header # "ok" => j.log = <<>>
        BY <1>0, <1>1, <2>1 DEF Types, IInv, DurableOK, JournalOK
    <2> QED
        BY <2>1, <2>2, SurvivorFacts
<1>3. ASSUME NEW s \in Slots
      PROVE  /\ certfile'[s] \in CertFile \cup {None}
             /\ certfile[s] # None /\ certfile[s].cert # TornCertificate =>
                    certfile'[s] = certfile[s] /\ certfile[s].durable
             /\ certfile'[s] # None /\ certfile'[s].cert # TornCertificate =>
                    certfile'[s].durable
    <2>1. PICK c, f : c = certfile[s] /\ f = certfile'[s]
        OBVIOUS
    <2>2. /\ c \in CertFile \cup {None} /\ f \in SurvivingCertificates(c)
          /\ c # None /\ c.cert # TornCertificate => c.durable
        BY <1>0, <1>1, <2>1 DEF Types, IInv, DurableOK
    <2>3. CASE c = None \/ c.durable
        <3>1. f = c
            BY <2>2, <2>3 DEF SurvivingCertificates
        <3> QED
            BY <2>1, <2>2, <2>3, <3>1
    <2>4. CASE ~(c = None \/ c.durable)
        <3>1. c \in CertFile /\ c.cert = TornCertificate
            BY <2>2, <2>4
        <3>2. \/ f = None
              \/ f = [cert |-> TornCertificate, durable |-> TRUE]
              \/ f = [c EXCEPT !.durable = TRUE]
            BY <2>2, <2>4 DEF SurvivingCertificates
        <3>3. f \in CertFile \cup {None} /\ (f # None => f.cert = TornCertificate)
            <4>1. CASE f = None
                BY <4>1
            <4>2. CASE f = [cert |-> TornCertificate, durable |-> TRUE]
                BY <4>2 DEF CertFile
            <4>3. CASE f = [c EXCEPT !.durable = TRUE]
                BY <3>1, <4>3 DEF CertFile
            <4> QED
                BY <3>2, <4>1, <4>2, <4>3
        <3> QED
            BY <2>1, <2>4, <3>1, <3>3
    <2> QED
        BY <2>3, <2>4
<1>4. \A s \in Slots : Keeps(s)
    BY <1>2, <1>3 DEF Keeps
<1>5. NoneAdmitted /\ Exposes
    BY <1>1, <1>2 DEF NoneAdmitted, Exposes
<1>6. \A s \in Slots : DurableOK(s)'
    BY <1>2, <1>3 DEF DurableOK
<1>7. journal' \in [Slots -> File] /\ certfile' \in [Slots -> CertFile \cup {None}]
    BY <1>1, <1>2, <1>3
<1>8. handle' \in [Handles -> Handle \cup {None}] /\ \A h \in Handles : HandleOK(h)'
    BY <1>1 DEF HandleOK
<1> QED
    BY <1>4, <1>5, <1>6, <1>7, <1>8, KeepsJournals, ProviderStep

-----------------------------------------------------------------------------
(* The theorems *)

\* Empty files and an empty network are in order.
LEMMA InitEstablishes == Init => IInv
<1> SUFFICES ASSUME Init PROVE IInv
    OBVIOUS
<1>1. /\ versions = <<GenesisState>> /\ journal = [s \in Slots |-> AbsentFile]
      /\ certfile = [s \in Slots |-> None] /\ handle = [h \in Handles |-> None]
      /\ exposed = <<>> /\ requests = {} /\ certificates = {} /\ acks = {} /\ accepted = {}
    BY DEF Init, ClientInit, SlotsInit
<1>2. /\ AbsentFile \in File /\ AbsentFile.header = "absent" /\ AbsentFile.log = <<>>
    BY DEF AbsentFile, File
<1>3. GenesisState \in ClientState /\ GenesisState.head = Genesis
    BY DEF GenesisState, ClientState, Genesis
<1>4. /\ versions \in Seq(ClientState) /\ versions # <<>>
      /\ \A i \in 1..Len(versions) : versions[i].head = Genesis
    BY <1>1, <1>3
<1>5. Types
    BY <1>1, <1>2, <1>4 DEF Types
<1>6. \A s \in Slots : journal[s].header = "absent" /\ journal[s].log = <<>> /\ certfile[s] = None
    BY <1>1, <1>2
<1>7. LogOK(<<>>) /\ Status(<<>>) = "reserved"
    BY DEF LogOK, Status
<1>8. \A s \in Slots : JournalOK(s) /\ DurableOK(s)
    BY <1>6, <1>7 DEF JournalOK, DurableOK
<1>9. \A h \in Handles : HandleOK(h)
    BY <1>1 DEF HandleOK
<1>10. RangesApart /\ OneLiveChild /\ AcceptedByClient
    BY <1>6, <1>7 DEF RangesApart, OneLiveChild, AcceptedByClient
<1>11. ExposedOK /\ CertificatesOK /\ ClientOK
    BY <1>1, <1>4 DEF ExposedOK, CertificatesOK, ClientOK
<1> QED
    BY <1>5, <1>8, <1>9, <1>10, <1>11 DEF IInv

\* Every step keeps the invariant.
LEMMA NextPreserves ==
    ASSUME SyncedOrKept, IInv, [Next]_vars
    PROVE  IInv'
<1>1. CASE UNCHANGED vars
    <2>1. UNCHANGED <<provider, versions, requests, certificates, acks, accepted>>
        BY <1>1 DEF vars, client, network
    <2>2. ClientOK'
        BY <2>1 DEF IInv, ClientOK
    <2>3. /\ versions' \in Seq(ClientState) /\ versions' # <<>> /\ requests' \subseteq Attempt
          /\ certificates' \subseteq Certificate
        BY <2>1 DEF IInv, Types
    <2> QED
        BY <2>1, <2>2, <2>3, ClientStep
<1>2. CASE Reserve \/ Abort
    BY <1>2, ReserveAbortStep
<1>3. CASE Accept
    BY <1>3, AcceptStep
<1>4. CASE Reopen
    BY <1>4, ClientFileStep DEF Reopen
<1>5. CASE SendAttempt
    BY <1>5, SendAttemptStep
<1>6. CASE SendAck
    BY <1>6, SendAckStep
<1>7. CASE Open \/ Drop \/ Crash
    BY <1>7, HandlesStep
<1>8. CASE ReserveRequested
    BY <1>8, ReserveStep
<1>9. CASE ReopenSlot
    BY <1>9, ReopenStep
<1>10. CASE StartSlot \/ BurnSlot \/ ReceiveAck
    BY <1>10, TransitionSteps
<1>11. CASE Produce
    BY <1>11, ProduceStep
<1>12. CASE Transmit
    BY <1>12, TransmitStep
<1>13. CASE PowerLoss
    BY <1>13, ClientFileStep, ProviderPowerLossStep DEF PowerLoss
<1> QED
    BY <1>1, <1>2, <1>3, <1>4, <1>5, <1>6, <1>7, <1>8, <1>9, <1>10, <1>11, <1>12, <1>13
    DEF Next

\* In every reachable state the files, the handles, the exposures, what is on the
\* network and the client's versions fit together.
THEOREM ExchangeInvariant == ASSUME SyncedOrKept PROVE Spec => []IInv
<1>1. Init => IInv
    BY InitEstablishes
<1>2. IInv /\ [Next]_vars => IInv'
    BY NextPreserves
<1> QED
    BY <1>1, <1>2, PTL DEF Spec

\* No correlation is read for two attempts: the client may roll back, abort and
\* retry, and the provider may open any number of handles on one slot.
THEOREM RangesExposedOnceAlways == ASSUME SyncedOrKept PROVE Spec => []RangesExposedOnce
<1>1. ASSUME IInv PROVE RangesExposedOnce
    <2>1. SUFFICES ASSUME NEW i \in 1..Len(exposed), NEW j \in 1..Len(exposed), i < j
                   PROVE  ~Overlaps(exposed[i].ranges, exposed[j].ranges)
        BY DEF RangesExposedOnce
    <2>2. exposed[i] \in Attempt /\ exposed[j] \in Attempt
        BY <1>1, ElementOfSeq DEF IInv, Types
    <2>3. PICK s, t \in Slots : s = exposed[i].slot /\ t = exposed[j].slot
        BY <2>2 DEF Attempt
    <2>4. /\ journal[s].header = "ok" /\ journal[s].attempt = exposed[i]
          /\ journal[t].header = "ok" /\ journal[t].attempt = exposed[j]
          /\ s # t
        BY <1>1, <2>1, <2>3 DEF IInv, ExposedOK
    <2>5. ~Overlaps(journal[s].attempt.ranges, journal[t].attempt.ranges)
        BY <1>1, <2>4 DEF IInv, RangesApart
    <2> QED
        BY <2>4, <2>5
<1> QED
    BY <1>1, ExchangeInvariant, PTL

\* The store never holds two live children of one head.
THEOREM OneLiveChildAlways == ASSUME SyncedOrKept PROVE Spec => []OneLiveChild
<1>1. IInv => OneLiveChild
    BY DEF IInv
<1> QED
    BY <1>1, ExchangeInvariant, PTL

\* The provider records Accepted only for what the client's file accepted.
THEOREM AcceptedByClientAlways == ASSUME SyncedOrKept PROVE Spec => []AcceptedByClient
<1>1. IInv => AcceptedByClient
    BY DEF IInv
<1> QED
    BY <1>1, ExchangeInvariant, PTL

\* The certificate under the client's head stays stored behind a PRODUCED record.
THEOREM HeadStoredAlways == ASSUME SyncedOrKept PROVE Spec => []HeadStored
<1>1. ASSUME IInv PROVE HeadStored
    <2>1. SUFFICES ASSUME main.head # Genesis
                   PROVE  \E s \in Slots :
                             /\ Validates(s)
                             /\ NewHead(certfile[s].cert) = main.head
                             /\ ProducedDigest(journal[s].log) = certfile[s].cert
                             /\ Status(journal[s].log) \in {"produced", "accepted"}
        BY DEF HeadStored
    <2>2. PICK cert \in accepted : NewHead(cert) = main.head
        BY <1>1, <2>1, MainFacts
    <2>3. PICK s \in Slots : Stored(s, cert)
        BY <1>1 DEF IInv, ClientOK, CertificatesOK
    <2>4. /\ Validates(s) /\ NewHead(certfile[s].cert) = main.head
          /\ ProducedDigest(journal[s].log) = certfile[s].cert
          /\ Status(journal[s].log) \in {"produced", "accepted"}
        BY <2>2, <2>3 DEF Stored
    <2> QED
        BY <2>4
<1> QED
    BY <1>1, ExchangeInvariant, PTL

\* The client never accepts two children of one head: both would be stored on
\* slots that are not burned, and so on the same slot.
THEOREM NoForkAlways == ASSUME SyncedOrKept PROVE Spec => []NoFork
<1>1. ASSUME IInv PROVE NoFork
    <2>1. SUFFICES ASSUME NEW c \in accepted, NEW d \in accepted,
                          c.attempt.head = d.attempt.head
                   PROVE  c = d
        BY DEF NoFork
    <2>2. PICK s \in Slots : Stored(s, c)
        BY <1>1 DEF IInv, ClientOK, CertificatesOK
    <2>3. PICK t \in Slots : Stored(t, d)
        BY <1>1 DEF IInv, ClientOK, CertificatesOK
    <2>4. \A r \in Slots : \A e :
             Stored(r, e) => /\ journal[r].header = "ok"
                             /\ journal[r].attempt = e.attempt
                             /\ certfile[r].cert = e
                             /\ Status(journal[r].log) # "burned"
        <3>1. SUFFICES ASSUME NEW r \in Slots, NEW e, Stored(r, e)
                       PROVE  /\ journal[r].header = "ok"
                              /\ journal[r].attempt = e.attempt
                              /\ certfile[r].cert = e
                              /\ Status(journal[r].log) # "burned"
            OBVIOUS
        <3>2. Status(journal[r].log) \in {"produced", "accepted"} /\ Validates(r)
              /\ certfile[r].cert = e
            BY <3>1 DEF Stored
        <3>3. journal[r].log # <<>>
            BY <3>2 DEF Status
        <3> QED
            BY <1>1, <3>2, <3>3 DEF IInv, JournalOK, Validates
    <2>5. s = t
        BY <1>1, <2>1, <2>2, <2>3, <2>4 DEF IInv, OneLiveChild
    <2> QED
        BY <2>2, <2>3, <2>4, <2>5
<1> QED
    BY <1>1, ExchangeInvariant, PTL

=============================================================================
