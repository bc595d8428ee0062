----------------------------- MODULE Connection -----------------------------
(***************************************************************************)
(* The methods of a connection: a handle owns pools of correlations, hands *)
(* ranges of them to responses, to settlements and to the bases of later   *)
(* stages, and journals each of these before the caller sees it.           *)
(*                                                                         *)
(* Source: rust/volta-pcg/src/production.rs (ConnectionHandle).            *)
(*                                                                         *)
(* The conditions of a method are its guard; a call that fails one of them *)
(* is Refuse.  Each method acts on a checked handle, see ConnectionHandle. *)
(***************************************************************************)
EXTENDS ConnectionHandle, FiniteSetsExt

ActiveHandle(c) == handles[c].checked /\ handles[c].state = "active"
BetweenResponses(c) == ActiveHandle(c) /\ handles[c].response = None

-----------------------------------------------------------------------------
(* Stages *)

Activate(c) ==
    /\ handles[c].checked /\ handles[c].state = "open"
    /\ \E o \in Outcomes :
          Commit(c, handles[c], [handles[c] EXCEPT !.state = "active"], Mark("ACTIVE"), o)
    /\ UNCHANGED <<authVars, receipts, history, losses>>

\* register_stage_output_inner: the handle once stage s holds n outputs.
Registered(h, s, n) ==
    [h EXCEPT !.stages[s] = [NoCounters EXCEPT !.generated = n, !.available = n]]

RegisterStage(c, s, n) ==
    /\ BetweenResponses(c)
    /\ handles[c].stages[s].generated = 0
    /\ LET h == Registered(handles[c], s, n)
       IN  \E o \in Outcomes : Commit(c, h, h, Rec("STAGE", s, 0, n, None, None), o)
    /\ UNCHANGED <<authVars, receipts, history, losses>>

\* The share of a source stage's reservation that has become other stages.
CanActivate(h, source, n) ==
    /\ h.stages[source].generated # 0
    /\ h.activated[source] + n <= h.stages[source].reserved

Activated(h, source, n) == [h EXCEPT !.activated[source] = @ + n]

\* register_refill_stage: n inputs of the source's reservation become stage s
\* of m outputs.  It appends twice; the source's account is updated in between.
RegisterRefill(c, source, s, n, m) ==
    LET h == handles[c]
        h1 == Registered(h, s, m)
        h2 == Activated(h1, source, n)
        stage == Rec("STAGE", s, 0, m, None, None)
        inputs == Rec("BASE_INPUTS_CONSUMED", source, 0, n, s, None)
    IN  /\ BetweenResponses(c)
        /\ source # s
        /\ CanActivate(h, source, n)
        /\ h.stages[s].generated = 0
        /\ Len(journals[c].log) + 1 < MaxLog
        /\ \/ \E o \in Faults : Commit(c, h1, h1, stage, o)
           \/ \E o \in Outcomes :
                 /\ journals' = [journals EXCEPT
                        ![c] = Appended(Appended(@, stage, "ok"), inputs, o)]
                 /\ Handle(c, IF o = "ok" THEN [h2 EXCEPT !.checked = FALSE]
                                          ELSE BurnInMemory(h2))
        /\ UNCHANGED <<authVars, receipts, history, losses>>

\* A variant: the range starts n below the end of the stage.
BaseStartFromEnd(p, n) == p.generated - n

\* reserve_as_base: n correlations leave the high end of stage s.
BaseStart(p, n) == p.generated - (p.reserved + n)

ReserveAsBase(c, s, n) ==
    LET p == handles[c].stages[s]
        start == BaseStart(p, n)
        h == [handles[c] EXCEPT !.stages[s] =
                 [p EXCEPT !.reserved = @ + n, !.available = @ - n]]
        r == Rec("RESERVED_AS_BASE", s, start, n, None, None)
    IN  /\ BetweenResponses(c)
        /\ p.generated # 0
        /\ n <= p.available
        /\ start >= p.consumed
        /\ \E o \in Outcomes : Commit(c, h, h, r, o) /\ Expose(c, r, o)
        /\ UNCHANGED <<authVars, receipts, opened, burned, closed, losses>>

BurnStageOutput(c, s, n) ==
    LET p == handles[c].stages[s]
        h == [handles[c] EXCEPT !.stages[s] =
                 [p EXCEPT !.burned = @ + n, !.available = @ - n]]
    IN  /\ BetweenResponses(c)
        /\ p.generated # 0
        /\ n <= p.available
        /\ \E o \in Outcomes :
              Commit(c, h, h, Rec("STAGE_OUTPUT_BURN", s, p.burned + n, n, None, None), o)
        /\ UNCHANGED <<authVars, receipts, history, losses>>

-----------------------------------------------------------------------------
(* Responses *)

\* The nonce is the last key a binding burns.
Nonce(b) == b[Len(b)]

\* install_authorized_response
Installed(h, nonce) ==
    [h EXCEPT !.response = nonce, !.spent = 0, !.frames = 0, !.froze = FALSE]

\* begin_response, begin_x4_response: the keys of the binding are burned, then
\* the response is installed and journalled.
BeginResponse(c, b) ==
    LET h == Installed(handles[c], Nonce(b))
    IN  /\ BetweenResponses(c)
        /\ Reserve(b)
        /\ \E o \in Outcomes :
              Commit(c, h, h, Rec("RESPONSE_BEGIN", None, 0, 0, Nonce(b), None), o)
        /\ UNCHANGED <<receipts, history, losses>>

\* The same calls when the reservation fails: the connection is burned.
BeginResponseDenied(c, b) ==
    /\ BetweenResponses(c)
    /\ ReserveFails(b)
    /\ \E o \in Outcomes : TerminalBurn(c, o)
    /\ UNCHANGED <<receipts, history, losses>>

\* A variant: the range stays available.
ConsumedStaysAvailable(h, s, n, key, tag) ==
    [h EXCEPT !.stages[s].consumed = @ + n, !.domains = @ \cup {<<key, tag>>}]

\* consume_correlation_range: the handle once n low correlations of stage s
\* belong to the domain (key, tag).
Consumed(h, s, n, key, tag) ==
    [h EXCEPT !.stages[s] = [h.stages[s] EXCEPT !.consumed = @ + n, !.available = @ - n],
              !.domains = @ \cup {<<key, tag>>}]

CanConsume(h, s, n, key, tag) ==
    /\ <<key, tag>> \notin h.domains
    /\ h.stages[s].generated # 0
    /\ n <= h.stages[s].available

\* allocate
Allocate(c, s, n, tag) ==
    LET key == handles[c].response
        h == [Consumed(handles[c], s, n, key, tag) EXCEPT !.spent = @ + n]
        r == Rec("ALLOCATE", s, handles[c].stages[s].consumed, n, key, tag)
    IN  /\ ActiveHandle(c) /\ key # None
        /\ CanConsume(handles[c], s, n, key, tag)
        /\ \E o \in Outcomes : Commit(c, h, h, r, o) /\ Expose(c, r, o)
        /\ UNCHANGED <<authVars, receipts, opened, burned, closed, losses>>

\* record_canonical_frame
FrameCounted(h) == [h EXCEPT !.frames = @ + 1]

\* record_channel_frame, ingest_serialized_frame of a well-formed frame
RecordFrame(c) ==
    LET h == FrameCounted(handles[c])
    IN  /\ ActiveHandle(c) /\ h.response # None
        /\ handles[c].frames < MaxFrames
        /\ \E o \in Outcomes : Commit(c, h, h, Rec("CHANNEL", None, 0, 0, h.response, None), o)
        /\ UNCHANGED <<authVars, receipts, history, losses>>

\* finish_response_success and finish_response_abort; finish_x4d_response_pending
\* is the former with one more condition, that claims are frozen.
FinishResponse(c, kind) ==
    LET h == handles[c]
    IN  /\ ActiveHandle(c) /\ h.response # None
        /\ \E o \in Outcomes :
              Commit(c, h, [h EXCEPT !.response = None],
                     Rec(kind, None, h.frames, h.spent, h.response, None), o)
        /\ UNCHANGED <<authVars, receipts, history, losses>>

-----------------------------------------------------------------------------
(* X4d: claims frozen by responses, verified by settlements *)

\* record_x4d_claims_frozen: the next n claims, once per response.
FreezeClaims(c, n) ==
    LET h == handles[c]
    IN  /\ ActiveHandle(c) /\ h.response # None
        /\ ~h.froze
        /\ \E o \in Outcomes :
              Commit(c, h, [h EXCEPT !.frozen = @ + n, !.froze = TRUE],
                     Rec("CLAIMS_FROZEN", None, h.frozen, n, h.response, None), o)
        /\ UNCHANGED <<authVars, receipts, history, losses>>

\* A variant: verified claims may be sealed again.
CanSealVerified(h, n) == h.seal.count = 0 /\ n <= h.frozen

\* seal_x4d_settlement: the n oldest unverified claims.
CanSeal(h, n) == h.seal.count = 0 /\ h.verified + n <= h.frozen

SealSettlement(c, n) ==
    LET h == handles[c]
    IN  /\ BetweenResponses(c)
        /\ CanSeal(h, n)
        /\ h.epoch <= MaxEpoch
        /\ \E o \in Outcomes :
              Commit(c, h,
                     [h EXCEPT !.epoch = @ + 1,
                               !.seal = [epoch |-> h.epoch, first |-> h.verified, count |-> n]],
                     Rec("SETTLEMENT_SEAL", None, h.verified, n, h.epoch, None), o)
        /\ UNCHANGED <<authVars, receipts, history, losses>>

\* reserve_x4d_settlement, by a caller that may or may not hold a connection.
ReserveSettlement(c, e, s, x) ==
    /\ \/ /\ Reserve(<<<<c, e>>>> \o s)
          /\ receipts' = receipts \cup {[conn |-> c, epoch |-> e, auxiliary |-> s[1], expected |-> x]}
       \/ ReserveFails(<<<<c, e>>>> \o s) /\ UNCHANGED receipts
    /\ UNCHANGED <<journals, handles, history, losses>>

\* record_x4d_settlement_freshness: a receipt for the sealed epoch.
RecordFreshness(c, receipt) ==
    LET h == handles[c]
        r == Rec("SETTLEMENT_FRESHNESS", None, 0, receipt.expected, receipt.epoch, None)
    IN  /\ ActiveHandle(c)
        /\ h.seal.count # 0
        /\ receipt.conn = c /\ receipt.epoch = h.seal.epoch
        /\ h.fresh.epoch = 0
        /\ receipt.auxiliary \notin h.auxiliary
        /\ \E o \in Outcomes :
              Commit(c, h,
                     [h EXCEPT !.auxiliary = @ \cup {receipt.auxiliary}, !.paid = 0,
                               !.fresh = [epoch |-> receipt.epoch, expected |-> receipt.expected]],
                     r, o)
        /\ UNCHANGED <<authVars, receipts, history, losses>>

\* allocate_x4d_settlement
AllocateSettlement(c, s, n, tag) ==
    LET key == handles[c].fresh.epoch
        h == Consumed(handles[c], s, n, key, tag)
        r == Rec("SETTLEMENT_ALLOCATE", s, handles[c].stages[s].consumed, n, key, tag)
    IN  /\ BetweenResponses(c)
        /\ key # 0
        /\ CanConsume(handles[c], s, n, key, tag)
        /\ \E o \in Outcomes :
              Commit(c, h, [h EXCEPT !.paid = @ + n], r, o) /\ Expose(c, r, o)
        /\ UNCHANGED <<authVars, receipts, opened, burned, closed, losses>>

\* A variant: one raw correlation per full one.
PaidOnce(h) == h.paid = h.fresh.expected

\* A full correlation takes two raw ones.
Paid(h) == h.paid = 2 * h.fresh.expected

\* finish_x4d_settlement_success: the settlement cost exactly what it announced.
SettlementSuccess(c) ==
    LET h == handles[c]
        end == h.seal.first + h.seal.count
    IN  /\ ActiveHandle(c)
        /\ h.seal.count # 0 /\ h.fresh.epoch = h.seal.epoch
        /\ Paid(h)
        /\ \E o \in Outcomes :
              Commit(c, h,
                     [h EXCEPT !.verified = end, !.seal = NoSeal, !.fresh = NoFresh, !.paid = 0],
                     Rec("SETTLEMENT_SUCCESS", None, end, h.paid, h.seal.epoch, None), o)
        /\ UNCHANGED <<authVars, receipts, history, losses>>

\* fail_x4d_settlement: the failure is recorded and the connection burned.
SettlementFailure(c) ==
    LET failure == Rec("SETTLEMENT_FAILURE", None, 0, 0, handles[c].seal.epoch, None)
    IN  /\ ActiveHandle(c)
        /\ handles[c].seal.count # 0
        /\ \/ \E o \in Faults : Commit(c, handles[c], handles[c], failure, o)
           \/ /\ Room(c) /\ TerminalRoom(c)
              /\ \E o \in Outcomes :
                    LET new == [journals EXCEPT
                           ![c] = Appended(Appended(@, failure, "ok"), Mark("TERMINAL"), o)]
                    IN  /\ journals' = IF o = "ok" THEN DirSynced(new) ELSE new
                        /\ Handle(c, [BurnInMemory(handles[c]) EXCEPT !.recorded = (o = "ok")])
        /\ UNCHANGED <<authVars, receipts, history, losses>>

\* close_x4d_after_all_verified
AllVerified(h) == h.seal.count = 0 /\ h.fresh.epoch = 0 /\ h.frozen = h.verified

CloseSettled(c) ==
    /\ BetweenResponses(c)
    /\ AllVerified(handles[c])
    /\ \E o \in Outcomes :
          /\ TerminalBurn(c, o)
          /\ closed' = IF o = "ok" THEN closed \cup {c} ELSE closed
    /\ UNCHANGED <<authVars, receipts, exposed, opened, burned, losses>>

-----------------------------------------------------------------------------
(* The specification *)

\* expand_phase_b_production burns a nonce outside any connection.
ExpandPhaseB(b) ==
    /\ Len(b) = 1
    /\ Reserve(b) \/ ReserveFails(b)
    /\ UNCHANGED connVars

Init ==
    /\ AuthInit
    /\ journals = [c \in Conns |-> NoJournal]
    /\ handles = [c \in Conns |-> NoHandle]
    /\ receipts = {} /\ exposed = {} /\ burned = {} /\ closed = {}
    /\ opened = [c \in Conns |-> 0]
    /\ losses = 0

Lifecycle(c) ==
    \/ Create(c) \/ CreateRejected(c) \/ EnsureLive(c) \/ Refuse(c)
    \/ AbortConnection(c) \/ DropHandle(c) \/ Kill(c)

StageCall(c) ==
    \/ Activate(c)
    \/ \E s \in Stages :
          \/ \E n \in Sizes : RegisterStage(c, s, n)
          \/ \E source \in Stages, n \in Counts, m \in Sizes : RegisterRefill(c, source, s, n, m)
          \/ \E n \in Counts : ReserveAsBase(c, s, n) \/ BurnStageOutput(c, s, n)

ResponseCall(c) ==
    \/ \E b \in Bindings : BeginResponse(c, b) \/ BeginResponseDenied(c, b)
    \/ \E s \in Stages, n \in Counts, tag \in Tags : Allocate(c, s, n, tag)
    \/ RecordFrame(c)
    \/ \E kind \in {"RESPONSE_SUCCESS", "RESPONSE_ABORT"} : FinishResponse(c, kind)

SettlementCall(c) ==
    \/ \E n \in Claims : FreezeClaims(c, n) \/ SealSettlement(c, n)
    \/ \E e \in 1..MaxEpoch, s \in Seeds, x \in Expected : ReserveSettlement(c, e, s, x)
    \/ \E receipt \in receipts : RecordFreshness(c, receipt)
    \/ \E s \in Stages, n \in Counts, tag \in Tags : AllocateSettlement(c, s, n, tag)
    \/ SettlementSuccess(c) \/ SettlementFailure(c) \/ CloseSettled(c)

Next ==
    \/ \E c \in Conns : Lifecycle(c) \/ StageCall(c) \/ ResponseCall(c) \/ SettlementCall(c)
    \/ \E b \in Bindings : ExpandPhaseB(b)
    \/ OpenStore \/ PowerLoss

Spec == Init /\ [][Next]_vars

-----------------------------------------------------------------------------
(* Properties *)

\* The records of some kinds, and what their counts add up to.
Records(c, kinds) == {i \in DOMAIN journals[c].log : journals[c].log[i].kind \in kinds}
OfStage(c, kinds, s) == {i \in Records(c, kinds) : journals[c].log[i].stage = s}
OfKey(c, kinds, k) == {i \in Records(c, kinds) : journals[c].log[i].key = k}
Total(c, I) ==
    SumFunctionOnSet([i \in DOMAIN journals[c].log |-> journals[c].log[i].count], I)

\* Single use: two ranges of a stage a connection ever handed out, whether to
\* a response, a settlement or a base reservation, share no correlation, and no
\* two of them belong to the same correlation domain, whatever failed, died or
\* was burned meanwhile (allocate, allocate_x4d_settlement, reserve_as_base).
RangesDisjoint ==
    \A e, f \in exposed :
        e # f /\ e.conn = f.conn =>
            /\ e.rec.stage = f.rec.stage =>
                  \/ e.rec.start + e.rec.count <= f.rec.start
                  \/ f.rec.start + f.rec.count <= e.rec.start
            /\ e.rec.key # None => <<e.rec.key, e.rec.tag>> # <<f.rec.key, f.rec.tag>>

\* Write-ahead: the record of a range its caller has seen is in the journal,
\* durably, and stays there across restarts and losses of power (append_record
\* syncs before a method returns its range).
ExposureJournaled ==
    \A e \in exposed :
        /\ e.at <= journals[e.conn].synced
        /\ [journals[e.conn].log[e.at] EXCEPT !.glued = FALSE] = e.rec

\* Nothing is used twice, over all connections, restarts and losses of power: a
\* key authorizes one response or settlement (reserve, reserve_x4_response,
\* reserve_x4d_settlement), and an identity yields one handle, also when the
\* power is lost in the middle of create.
FreshnessOnce ==
    /\ \A k \in Keys : used[k] <= 1
    /\ \A c \in Conns : opened[c] <= 1

\* No correlation is exposed to a response or a settlement before the burn of
\* its nonce or epoch is durable (begin_response, record_x4d_settlement_freshness).
AuthorizedExposure ==
    \A e \in exposed :
        /\ e.rec.kind = "ALLOCATE" => markers[e.rec.key] = "durable"
        /\ e.rec.kind = "SETTLEMENT_ALLOCATE" => markers[<<e.conn, e.rec.key>>] = "durable"

\* Once a second opener has been told that it burned a connection, the first
\* one starts no further call, however torn the journal was (the newline of
\* burn_existing_journal, read by ensure_live).
BurnStops ==
    [][\A c \in burned : ~handles[c].checked => ~handles'[c].checked]_vars

\* The counters of a handle say what its journal says, and add up (the
\* debug_asserts on reconciled; burn_in_memory).  One reserved range cannot seed
\* two expansions: the refills of a stage take no more than was reserved from it
\* (register_refill_stage).
LedgerAgrees ==
    \A c \in Conns : \A s \in Stages :
        LET p == handles[c].stages[s]
        IN  /\ p.consumed + p.reserved + p.burned + p.available = p.generated
            /\ handles[c].state \in {"open", "active"} =>
                  /\ p.generated = Total(c, OfStage(c, {"STAGE"}, s))
                  /\ p.consumed = Total(c, OfStage(c, {"ALLOCATE", "SETTLEMENT_ALLOCATE"}, s))
                  /\ p.reserved = Total(c, OfStage(c, {"RESERVED_AS_BASE"}, s))
                  /\ p.burned = Total(c, OfStage(c, {"STAGE_OUTPUT_BURN"}, s))
            /\ Total(c, OfStage(c, {"BASE_INPUTS_CONSUMED"}, s))
                  <= Total(c, OfStage(c, {"RESERVED_AS_BASE"}, s))

\* What a finished response or settlement says it cost is what was allocated to
\* it, and a settlement succeeds only after it sealed its claims and recorded
\* its freshness, at the price it announced (finish_response,
\* finish_x4d_settlement_success).
AccountsExact ==
    \A c \in Conns :
        LET log == journals[c].log
        IN  /\ \A i \in Records(c, {"RESPONSE_SUCCESS", "RESPONSE_ABORT"}) :
                  /\ log[i].count = Total(c, OfKey(c, {"ALLOCATE"}, log[i].key))
                  /\ log[i].start = Cardinality(OfKey(c, {"CHANNEL"}, log[i].key))
            /\ \A i \in Records(c, {"SETTLEMENT_SUCCESS"}) :
                  /\ log[i].count = Total(c, OfKey(c, {"SETTLEMENT_ALLOCATE"}, log[i].key))
                  /\ \E q \in OfKey(c, {"SETTLEMENT_SEAL"}, log[i].key),
                        f \in OfKey(c, {"SETTLEMENT_FRESHNESS"}, log[i].key) :
                        q < f /\ f < i /\ log[i].count = 2 * log[f].count

\* How many claims the journal says are verified before its i-th record.
VerifiedBefore(c, i) ==
    LET earlier == {q \in Records(c, {"SETTLEMENT_SUCCESS"}) : q < i}
    IN  IF earlier = {} THEN 0 ELSE journals[c].log[Max(earlier)].start

\* Settlements verify the claims in the order in which they were frozen,
\* without gaps or repetition, and never a claim that was not frozen when the
\* settlement was sealed (seal_x4d_settlement); a graceful close leaves no frozen
\* claim unverified (close_x4d_after_all_verified).
ClaimsVerifiedInOrder ==
    /\ \A c \in Conns : \A i \in Records(c, {"SETTLEMENT_SUCCESS"}) :
          LET log == journals[c].log
          IN  \A q \in OfKey(c, {"SETTLEMENT_SEAL"}, log[i].key) :
                  /\ log[q].start = VerifiedBefore(c, i)
                  /\ log[i].start = log[q].start + log[q].count
                  /\ log[i].start <= Total(c, {f \in Records(c, {"CLAIMS_FROZEN"}) : f < q})
    /\ \A c \in closed :
          Total(c, Records(c, {"CLAIMS_FROZEN"})) = VerifiedBefore(c, Len(journals[c].log) + 1)

=============================================================================
