----------------------------- MODULE C6Exchange -----------------------------
(***************************************************************************)
(* The C6 client store and the provider's slot store, and what passes      *)
(* between them: attempts the client has reserved, certificates the        *)
(* provider has produced, acknowledgements of certificates the client has  *)
(* accepted.  The transport is external: it delays, repeats and reorders.  *)
(*                                                                         *)
(* Source: rust/volta-proto/src/c6.rs; who calls what in which order is    *)
(* rust/volta-bench/src/bin/c62_whir_fiat_shamir_record.rs (session and    *)
(* verify modes).                                                          *)
(***************************************************************************)
EXTENDS C6ClientStore, C6SlotStore

CONSTANT LosesPower   \* which machines can lose power: a subset of {"C", "P"}

ASSUME LosesPowerAssumption == LosesPower \subseteq {"C", "P"}

VARIABLES
    requests,       \* attempts on their way to the provider
    certificates,   \* certificates on their way to the client
    acks,           \* acknowledgements on their way to the provider
    accepted        \* history: the certificates the client file has accepted

network == <<requests, certificates, acks>>

vars == <<client, provider, network, accepted>>

Init ==
    /\ ClientInit
    /\ SlotsInit
    /\ requests = {}
    /\ certificates = {}
    /\ acks = {}
    /\ accepted = {}

-----------------------------------------------------------------------------
(* The client *)

Reserve ==
    /\ \E entropy \in Entropy, n \in Counts, io \in ReplaceOutcome :
          ClientReserve(entropy, n, io)
    /\ UNCHANGED <<provider, network, accepted>>

Abort ==
    /\ \E io \in ReplaceOutcome : ClientAbort(io)
    /\ UNCHANGED <<provider, network, accepted>>

Accept ==
    /\ \E cert \in certificates, io \in ReplaceOutcome :
          /\ ClientAccept(cert, io)
          /\ accepted' = IF io \in {"ok", "renamed"} THEN accepted \cup {cert}
                                                     ELSE accepted
    /\ UNCHANGED <<provider, network>>

Reopen ==
    /\ ClientOpen
    /\ UNCHANGED <<provider, network, accepted>>

\* The client hands its pending attempt to the provider, at first or after it
\* reloaded the file.
SendAttempt ==
    /\ main.pending # None
    /\ requests' = requests \cup {main.pending}
    /\ UNCHANGED <<client, provider, certificates, acks, accepted>>

\* The client acknowledges the certificate its head rests on, at first or when
\* it is retransmitted (is_idempotent_retransmission).
SendAck ==
    /\ \E cert \in certificates :
          /\ NewHead(cert) = main.head
          /\ acks' = acks \cup {cert}
    /\ UNCHANGED <<client, provider, requests, certificates, accepted>>

-----------------------------------------------------------------------------
(* The provider *)

Open ==
    /\ OpenStore
    /\ UNCHANGED <<client, network, accepted>>

ReserveRequested ==
    /\ \E h \in Handles, a \in requests, io \in Outcome : ReserveSlot(h, a, io)
    /\ UNCHANGED <<client, network, accepted>>

ReopenSlot ==
    /\ \E h \in Handles, s \in Slots, io \in Outcome : OpenSlot(h, s, io)
    /\ UNCHANGED <<client, network, accepted>>

StartSlot ==
    /\ \E h \in Handles, io \in Outcome : Start(h, io)
    /\ UNCHANGED <<client, network, accepted>>

BurnSlot ==
    /\ \E h \in Handles, io \in Outcome : AbortSlot(h, io)
    /\ UNCHANGED <<client, network, accepted>>

Produce ==
    /\ \E h \in Handles, io \in Outcome :
          \/ \E body \in Bodies : WriteCertificate(h, body, io)
          \/ \E body \in Bodies : ProduceFindsAlternate(h, body, io)
          \/ AppendProduced(h, io)
    /\ UNCHANGED <<client, network, accepted>>

\* A produced certificate is sent, or sent again.
Transmit ==
    /\ \E h \in Handles, s \in Slots :
          /\ certfile[s] # None
          /\ Retransmits(h, certfile[s].cert)
          /\ certificates' = certificates \cup {certfile[s].cert}
    /\ UNCHANGED <<client, provider, requests, acks, accepted>>

ReceiveAck ==
    /\ \E h \in Handles, cert \in acks, io \in Outcome : Acknowledge(h, cert, io)
    /\ UNCHANGED <<client, network, accepted>>

Drop ==
    /\ \E h \in Handles : DropHandle(h)
    /\ UNCHANGED <<client, network, accepted>>

-----------------------------------------------------------------------------
(* Failures *)

Crash ==
    /\ ProviderCrash
    /\ UNCHANGED <<client, network, accepted>>

PowerLoss ==
    \/ /\ "C" \in LosesPower
       /\ ClientPowerLoss
       /\ UNCHANGED <<provider, network, accepted>>
    \/ /\ "P" \in LosesPower
       /\ ProviderPowerLoss
       /\ UNCHANGED <<client, network, accepted>>

Next ==
    \/ Reserve
    \/ Abort
    \/ Accept
    \/ Reopen
    \/ SendAttempt
    \/ SendAck
    \/ Open
    \/ ReserveRequested
    \/ ReopenSlot
    \/ StartSlot
    \/ BurnSlot
    \/ Produce
    \/ Transmit
    \/ ReceiveAck
    \/ Drop
    \/ Crash
    \/ PowerLoss

Spec == Init /\ [][Next]_vars

-----------------------------------------------------------------------------
(* Properties *)

\* No correlation of either tape is read for two attempts, whatever the client
\* rolled back, aborted or retried and whatever handles the provider opened
\* ("Neither range is ever reused", the InFlight marker before any read).
RangesExposedOnce ==
    \A i, j \in 1..Len(exposed) :
        i < j => ~Overlaps(exposed[i].ranges, exposed[j].ranges)

\* The client never accepts two children of one head, even when its file was
\* rolled back in between.
NoFork ==
    \A c, d \in accepted : c.attempt.head = d.attempt.head => c = d

\* A head has at most one child attempt that is not burned.
OneLiveChild ==
    \A s, t \in Slots :
        /\ s # t
        /\ journal[s].header = "ok"
        /\ journal[t].header = "ok"
        /\ journal[s].attempt.head = journal[t].attempt.head
        => "burned" \in {Status(journal[s].log), Status(journal[t].log)}

\* The certificate under the client's head is still stored by the provider, on a
\* slot whose journal names it: a handle that lost track of its slot neither
\* replaced it nor burned the slot.
HeadStored ==
    main.head # Genesis =>
        \E s \in Slots :
            /\ Validates(s)
            /\ NewHead(certfile[s].cert) = main.head
            /\ ProducedDigest(journal[s].log) = certfile[s].cert
            /\ Status(journal[s].log) \in {"produced", "accepted"}

\* The provider records Accepted only for what the client has accepted.
AcceptedByClient ==
    \A s \in Slots :
        Status(journal[s].log) = "accepted" =>
            ProducedDigest(journal[s].log) \in accepted

\* A client that has no attempt pending can be served: no slot holds its head
\* that the provider could not burn ("keeps the remaining connection credit
\* usable").
CreditUsable ==
    main.pending = None =>
        \A s \in Slots :
            /\ journal[s].header = "ok"
            /\ journal[s].attempt.head = main.head
            => Status(journal[s].log) \in {"reserved", "inflight", "burned"}

=============================================================================
