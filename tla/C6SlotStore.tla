---------------------------- MODULE C6SlotStore -----------------------------
(***************************************************************************)
(* The C6 provider's slot store: one append-only journal per slot          *)
(* (Reserved -> InFlight -> Produced -> Accepted, or Burned), one          *)
(* certificate file beside it, and handles that each hold a copy of the    *)
(* journal they last read.  Nothing locks a journal: several handles may   *)
(* be open on one slot.                                                    *)
(*                                                                         *)
(* Source: rust/volta-proto/src/c6.rs.                                     *)
(*                                                                         *)
(* A transition record carries its sequence number and a checksum chained  *)
(* over the records before it, so a record appended by a handle whose copy *)
(* is out of date makes the journal unreadable, like a torn record does.   *)
(***************************************************************************)
EXTENDS C6State

CONSTANTS
    Handles,             \* handles a provider may hold at a time
    SlotFaults           \* how an append may fail, of "torn" and "unsynced"

ASSUME SlotFaultsAssumption == SlotFaults \subseteq {"torn", "unsynced"}

VARIABLES
    opened,     \* the provider's process holds an open C6SlotStore
    journal,    \* per slot, its .slot file
    certfile,   \* per slot, its .certificate file
    handle,     \* the C6SlotHandles
    exposed     \* history: the attempts whose correlations may have been read

provider == <<opened, journal, certfile, handle, exposed>>

Slots == 0..(MaxSlots - 1)

\* A .slot file: header "absent", "torn" or "ok"; its readable transitions; how
\* many of header and transitions are synced; whether the directory entry is;
\* and whether unreadable bytes follow.
AbsentFile ==
    [header |-> "absent", attempt |-> None, log |-> <<>>, synced |-> 0,
     linked |-> FALSE, bad |-> "no"]

TornCertificate == [torn |-> TRUE]

Transition(to, cert) == [to |-> to, cert |-> cert]

\* C6SlotRecord::status and produced_certificate_digest of a parsed journal
Status(log) == IF log = <<>> THEN "reserved" ELSE log[Len(log)].to

ProducedDigest(log) == IF Len(log) < 2 THEN None ELSE log[2].cert

\* parse_slot_journal succeeds.
Readable(j) == j.header = "ok" /\ j.bad = "no"

SlotsInit ==
    /\ opened = FALSE
    /\ journal = [s \in Slots |-> AbsentFile]
    /\ certfile = [s \in Slots |-> None]
    /\ handle = [h \in Handles |-> None]
    /\ exposed = <<>>

-----------------------------------------------------------------------------
(* C6SlotHandle::append_transition *)

Outcome == {"ok", "nothing"} \cup SlotFaults

\* The journal after a handle that read view appends record t.
Written(j, view, t, io) ==
    LET fresh == j.bad = "no" /\ view = j.log IN
    CASE io = "nothing" -> j
      [] io = "torn" -> [j EXCEPT !.bad = IF @ = "synced" THEN @ ELSE "unsynced"]
      [] io = "unsynced" /\ fresh -> [j EXCEPT !.log = Append(@, t)]
      [] io = "unsynced" /\ ~fresh ->
            [j EXCEPT !.bad = IF @ = "synced" THEN @ ELSE "unsynced"]
      [] io = "ok" /\ fresh ->
            [j EXCEPT !.log = Append(@, t), !.synced = Len(j.log) + 2]
      [] io = "ok" /\ ~fresh ->
            [j EXCEPT !.bad = "synced", !.synced = Len(j.log) + 1]

\* A variant: an append that is not read back.
SucceedsStale(j, view, io) == io = "ok"

\* It succeeds: written, synced, and readable when read back.
Succeeds(j, view, io) == io = "ok" /\ j.bad = "no" /\ view = j.log

\* append_transition through handle h; on success its copy is refreshed.
AppendTransition(h, t, io) ==
    LET s == handle[h].slot IN
    /\ journal' = [journal EXCEPT ![s] = Written(@, handle[h].view, t, io)]
    /\ handle' = [handle EXCEPT
            ![h].view = IF Succeeds(journal[s], @, io) THEN Append(@, t) ELSE @,
            ![h].certified = None]

-----------------------------------------------------------------------------
(* C6SlotStore *)

\* slot_records: a malformed journal is an error, whichever slot it belongs to.
StoreReadable == \A s \in Slots : journal[s].header = "absent" \/ Readable(journal[s])

OpenStore ==
    /\ ~opened
    /\ StoreReadable
    /\ opened' = TRUE
    /\ UNCHANGED <<journal, certfile, handle, exposed>>

\* A variant: a produced child does not stand in the way of another.
AdmitsSecondChild(a) ==
    \A s \in Slots : journal[s].header = "ok" =>
        LET prior == journal[s].attempt IN
            /\ Nonce(prior) # Nonce(a)
            /\ ~Overlaps(prior.ranges, a.ranges)

\* reserve's checks against every journal, burned ones included.
Admits(a) ==
    \A s \in Slots : journal[s].header = "ok" =>
        LET prior == journal[s].attempt IN
            /\ Nonce(prior) # Nonce(a)
            /\ ~Overlaps(prior.ranges, a.ranges)
            /\ prior.head = a.head => Status(journal[s].log) = "burned"

\* sync_directory makes every entry durable.
Linked(j) == [s \in Slots |-> [j[s] EXCEPT !.linked = j[s].header # "absent"]]

\* C6SlotStore::reserve: create the journal, write and sync its header.
ReserveSlot(h, a, io) ==
    /\ opened
    /\ handle[h] = None
    /\ StoreReadable
    /\ RangesValid(a.ranges)
    /\ Admits(a)
    /\ journal[a.slot].header = "absent"
    /\ LET new == [AbsentFile EXCEPT !.header = IF io = "torn" THEN "torn" ELSE "ok",
                                     !.attempt = a,
                                     !.synced = IF io = "ok" THEN 1 ELSE 0]
           j == [journal EXCEPT ![a.slot] = new]
       IN journal' = CASE io = "nothing" -> journal
                       [] io = "ok"      -> Linked(j)
                       [] OTHER          -> j
    /\ handle' = IF io = "ok"
                 THEN [handle EXCEPT ![h] = [slot |-> a.slot, view |-> <<>>,
                                             certified |-> None]]
                 ELSE handle
    /\ UNCHANGED <<opened, certfile, exposed>>

\* validate_stored_certificate
Validates(s) ==
    /\ certfile[s] # None
    /\ certfile[s].cert # TornCertificate
    /\ certfile[s].cert.attempt = journal[s].attempt

\* A variant: a reopened in-flight slot without a certificate goes on.
OrphanResumes(s) ==
    IF certfile[s] = None \/ Status(journal[s].log) # "inflight"
    THEN [append |-> None, usable |-> TRUE]
    ELSE [append |-> Transition("burned", None), usable |-> FALSE]

\* recover_orphan's append, and whether open_slot then returns the handle.
Orphan(s) ==
    LET status == Status(journal[s].log)
        present == certfile[s] # None
        burn == Transition("burned", None)
    IN CASE status = "reserved" /\ ~present -> [append |-> None, usable |-> TRUE]
         [] status = "reserved" /\ present  -> [append |-> burn, usable |-> FALSE]
         [] status = "inflight" /\ ~present -> [append |-> burn, usable |-> TRUE]
         [] status = "inflight" /\ present /\ Validates(s) ->
               [append |-> Transition("produced", certfile[s].cert), usable |-> TRUE]
         [] status = "inflight" /\ present /\ ~Validates(s) ->
               [append |-> burn, usable |-> FALSE]
         [] status \in {"produced", "accepted"} ->
               [append |-> None,
                usable |-> /\ Validates(s)
                           /\ certfile[s].cert = ProducedDigest(journal[s].log)]
         [] status = "burned" -> [append |-> None, usable |-> ~present]

\* C6SlotStore::open_slot.  A handle on an in-flight slot is one through which
\* correlations are read.
OpenSlot(h, s, io) ==
    /\ opened
    /\ handle[h] = None
    /\ Readable(journal[s])
    /\ LET o == Orphan(s)
           log == journal[s].log
           done == o.append = None \/ io = "ok"
           view == IF o.append = None THEN log ELSE Append(log, o.append)
       IN /\ journal' = IF o.append = None THEN journal
                        ELSE [journal EXCEPT ![s] = Written(@, log, o.append, io)]
          /\ handle' = IF o.usable /\ done
                       THEN [handle EXCEPT ![h] = [slot |-> s, view |-> view,
                                                   certified |-> None]]
                       ELSE handle
          /\ exposed' = IF o.usable /\ done /\ Status(view) = "inflight"
                        THEN Append(exposed, journal[s].attempt)
                        ELSE exposed
    /\ UNCHANGED <<opened, certfile>>

-----------------------------------------------------------------------------
(* C6SlotHandle *)

\* h is between calls, on a journal whose copy says one of the statuses.
Ready(h, statuses) ==
    /\ handle[h] # None
    /\ handle[h].certified = None
    /\ Status(handle[h].view) \in statuses

\* start: the durable marker precedes every possible correlation read.
Start(h, io) ==
    /\ Ready(h, {"reserved"})
    /\ AppendTransition(h, Transition("inflight", None), io)
    /\ LET j == journal[handle[h].slot] IN
          exposed' = IF Succeeds(j, handle[h].view, io)
                     THEN Append(exposed, j.attempt)
                     ELSE exposed
    /\ UNCHANGED <<opened, certfile>>

\* abort
AbortSlot(h, io) ==
    /\ Ready(h, {"reserved", "inflight"})
    /\ AppendTransition(h, Transition("burned", None), io)
    /\ UNCHANGED <<opened, certfile, exposed>>

\* A variant: an existing certificate file is overwritten.
WriteCertificateOverwrites(h, body, io) ==
    /\ Ready(h, {"inflight"})
    /\ io = "ok"
    /\ LET s == handle[h].slot
           cert == [attempt |-> journal[s].attempt, body |-> body]
       IN /\ certfile' = [certfile EXCEPT ![s] = [cert |-> cert, durable |-> TRUE]]
          /\ handle' = [handle EXCEPT ![h].certified = cert]
    /\ UNCHANGED <<opened, journal, exposed>>

\* produce, its first half: the certificate file is created, written and synced,
\* or found with the same bytes.
WriteCertificate(h, body, io) ==
    /\ Ready(h, {"inflight"})
    /\ LET s == handle[h].slot
           cert == [attempt |-> journal[s].attempt, body |-> body]
           written == io \in {"ok", "unsynced"}
       IN \/ /\ certfile[s] = None
             /\ io # "nothing"
             /\ certfile' = [certfile EXCEPT ![s] =
                   [cert |-> IF written THEN cert ELSE TornCertificate,
                    durable |-> io = "ok"]]
             /\ journal' = IF io = "ok" THEN Linked(journal) ELSE journal
             /\ handle' = [handle EXCEPT ![h].certified =
                              IF io = "ok" THEN cert ELSE None]
          \/ /\ certfile[s] # None
             /\ certfile[s].cert = cert
             /\ handle' = [handle EXCEPT ![h].certified = cert]
             /\ UNCHANGED <<journal, certfile>>
    /\ UNCHANGED <<opened, exposed>>

\* produce on a certificate file with other bytes: the slot is burned.
ProduceFindsAlternate(h, body, io) ==
    /\ Ready(h, {"inflight"})
    /\ LET s == handle[h].slot IN
          /\ certfile[s] # None
          /\ certfile[s].cert # [attempt |-> journal[s].attempt, body |-> body]
    /\ AppendTransition(h, Transition("burned", None), io)
    /\ UNCHANGED <<opened, certfile, exposed>>

\* produce, its second half: the PRODUCED record.
AppendProduced(h, io) ==
    /\ handle[h] # None
    /\ handle[h].certified # None
    /\ AppendTransition(h, Transition("produced", handle[h].certified), io)
    /\ UNCHANGED <<opened, certfile, exposed>>

\* retransmit succeeds, and returns this certificate.
Retransmits(h, cert) ==
    /\ Ready(h, {"produced", "accepted"})
    /\ Validates(handle[h].slot)
    /\ certfile[handle[h].slot].cert = cert
    /\ ProducedDigest(handle[h].view) = cert

\* A variant: any acknowledged digest will do.
AcknowledgeAnyDigest(h, cert, io) ==
    /\ Ready(h, {"produced"})
    /\ AppendTransition(h, Transition("accepted", cert), io)
    /\ UNCHANGED <<opened, certfile, exposed>>

\* acknowledge; repeating it changes nothing.
Acknowledge(h, cert, io) ==
    /\ Ready(h, {"produced"})
    /\ ProducedDigest(handle[h].view) = cert
    /\ AppendTransition(h, Transition("accepted", cert), io)
    /\ UNCHANGED <<opened, certfile, exposed>>

DropHandle(h) ==
    /\ handle[h] # None
    /\ handle' = [handle EXCEPT ![h] = None]
    /\ UNCHANGED <<opened, journal, certfile, exposed>>

-----------------------------------------------------------------------------
(* Failures *)

ProviderCrash ==
    /\ opened
    /\ opened' = FALSE
    /\ handle' = [h \in Handles |-> None]
    /\ UNCHANGED <<journal, certfile, exposed>>

\* What a loss of power can make of a .slot file: its first k parts, and unreadable
\* bytes after them if there was anything more.
SurvivingFiles(j) ==
    IF j.header = "absent" THEN {j}
    ELSE (IF j.linked THEN {} ELSE {AbsentFile}) \cup
         UNION {{[j EXCEPT !.header = IF k = 0 THEN "torn" ELSE @,
                           !.log = SubSeq(@, 1, k - 1),
                           !.synced = k,
                           !.linked = TRUE,
                           !.bad = b] :
                    b \in CASE j.bad = "synced" -> {"synced"}
                            [] k \in 1..Len(j.log) \/ j.bad = "unsynced" -> {"no", "synced"}
                            [] OTHER -> {"no"}} :
                    k \in j.synced..(Len(j.log) + 1)}

SurvivingCertificates(f) ==
    IF f = None \/ f.durable THEN {f}
    ELSE {None, [cert |-> TornCertificate, durable |-> TRUE], [f EXCEPT !.durable = TRUE]}

ProviderPowerLoss ==
    /\ opened' = FALSE
    /\ handle' = [h \in Handles |-> None]
    /\ journal' \in {j \in [Slots -> UNION {SurvivingFiles(journal[s]) : s \in Slots}] :
                        \A s \in Slots : j[s] \in SurvivingFiles(journal[s])}
    /\ certfile' \in {f \in [Slots -> UNION {SurvivingCertificates(certfile[s]) : s \in Slots}] :
                         \A s \in Slots : f[s] \in SurvivingCertificates(certfile[s])}
    /\ UNCHANGED exposed

=============================================================================
