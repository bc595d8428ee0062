------------------------------ MODULE FixedRun ------------------------------
(***************************************************************************)
(* The native composition of a fixed run: a prover and a verifier, each    *)
(* with its own lifetime store and pool and its own registry of accepted   *)
(* responses, exchanging at most ROOT_SLOTS responses.                     *)
(*                                                                         *)
(* Source: rust/volta-pcs/src/c71_matrix/gemma/native/pool.rs (the pool    *)
(* adapter) and protocol.rs (State, Prover, Verifier); the canonical       *)
(* verifier of canonical_state.rs is the same machine on the verifier's    *)
(* side.                                                                   *)
(*                                                                         *)
(* The prover's verify continuation crosses the transport, so the verifier *)
(* may be handed any response ever sent, and the prover any acceptance     *)
(* ever made, or an error.  A receipt is the transcript digest of header   *)
(* and body; the header binds the whole accepted history, so a receipt is  *)
(* modelled as the sequence of accepted roots it closes.                   *)
(***************************************************************************)
EXTENDS Integers, Sequences

CONSTANTS
    Roots,               \* commitment roots a response can carry
    ROOT_SLOTS,          \* responses of a run (3)
    Required,            \* packed correlations each slot's profile requires
    Capacity             \* base rows of the bootstrapped pools

ASSUME RunAssumption ==
    /\ ROOT_SLOTS \in Nat \ {0}
    /\ Required \in [1..ROOT_SLOTS -> Nat]
    /\ Capacity \in Nat

Role == {"P", "V"}

Zero == <<>>

\* Transcript digests, Zero included.
Receipts == UNION {[1..n -> Roots] : n \in 0..ROOT_SLOTS}

\* The lifetime store's transition rules; LIMIT and MAX_ROWS are not reached.
Store == INSTANCE LifetimeRecords
            WITH Digest <- Receipts, LIMIT <- ROOT_SLOTS + 1,
                 MAX_ROWS <- Capacity, MAX_FIXED_RUN_ROWS <- Capacity

VARIABLES
    store,       \* per role, the in-memory state of the lifetime store
    durable,     \* per role, the state its journal replays to
    poisoned,    \* per role, Lifetime::poisoned
    pc,          \* per role, where its respond or verify call is
    slot,        \* per role, State::next_slot
    cursor,      \* per role, State::cursor
    accepted,    \* per role, the registry: State::accepted
    live,        \* per role, State::live
    attempt,     \* per role, the Attempt the pool handed to the callback
    pending,     \* Prover::pending
    request,     \* the response under verification, with the verifier's header
    sent,        \* responses on the transport
    acceptances, \* acceptances on the transport
    exposures    \* history, per role: row intervals handed to its callback

vars == <<store, durable, poisoned, pc, slot, cursor, accepted, live, attempt,
          pending, request, sent, acceptances, exposures>>

registry == <<slot, cursor, accepted>>
transport == <<sent, acceptances>>

NoAttempt == [ordinal |-> 0, predecessor |-> Zero, first |-> 0]
NoPending == [root |-> Zero, receipt |-> Zero]
NoRequest == [root |-> Zero, claimed |-> Zero, header |-> Zero]

-----------------------------------------------------------------------------
(* The checks *)

\* The predecessor both registries bind: the last accepted receipt.
LastReceipt(r) ==
    IF accepted[r] = <<>> THEN Zero ELSE accepted[r][Len(accepted[r])].receipt

\* Pool::fixed_run_context succeeds.
ContextLive(r) ==
    /\ ~poisoned[r]
    /\ store[r].fixed_run
    /\ store[r].setups = 1
    /\ store[r].attempts < ROOT_SLOTS

\* The identity it returns for the next attempt.
NextAttempt(r) ==
    [ordinal |-> store[r].attempts + 1, predecessor |-> store[r].head,
     first |-> store[r].used]

\* State::check_burn
CheckBurn(r, a) ==
    /\ a.ordinal = slot[r] + 1
    /\ a.first = cursor[r]
    /\ a.predecessor = LastReceipt(r)
    /\ slot[r] = Len(accepted[r])
    /\ slot[r] < ROOT_SLOTS

\* State::check_pool
CheckPool(r) == ContextLive(r) /\ CheckBurn(r, NextAttempt(r))

\* A variant: a root may be used again.
HeaderOKReusesRoot(r, root) ==
    /\ slot[r] = Len(accepted[r])
    /\ slot[r] < ROOT_SLOTS

\* State::header refuses a slot that is not next and a root seen before.
HeaderOK(r, root) ==
    /\ slot[r] = Len(accepted[r])
    /\ slot[r] < ROOT_SLOTS
    /\ \A i \in 1..Len(accepted[r]) : accepted[r][i].root # root

\* The header: slot, cursor and the accepted history with its receipts.
Header(r, root) ==
    [slot |-> slot[r], cursor |-> cursor[r], history |-> accepted[r], root |-> root]

\* A variant: the digest covers the root twice.
ReceiptOfTwice(h) ==
    (IF h.history = <<>> THEN Zero ELSE h.history[Len(h.history)].receipt)
        \o <<h.root, h.root>>

\* The digest of the finished transcript under a header.
ReceiptOf(h) ==
    Append(IF h.history = <<>> THEN Zero ELSE h.history[Len(h.history)].receipt, h.root)

\* Packed correlations of the role's next slot.
RequiredNow(r) == Required[slot[r] + 1]

-----------------------------------------------------------------------------
(* The lifetime store under a role *)

Outcome == {"ok", "lost", "unacknowledged"}

\* A variant: the prover's records stay in memory.
JournalSkipsProver(r, s, rec, io) ==
    /\ ~poisoned[r]
    /\ Store!Valid(s, rec)
    /\ durable' = IF io = "lost" \/ r = "P" THEN durable
                  ELSE [durable EXCEPT ![r] = Store!Apply(@, rec)]

\* append: a record the state admits reaches the journal, or is lost on the way,
\* or reaches it without the handle learning of it.
Journal(r, s, rec, io) ==
    /\ ~poisoned[r]
    /\ Store!Valid(s, rec)
    /\ durable' = IF io = "lost" THEN durable
                  ELSE [durable EXCEPT ![r] = Store!Apply(@, rec)]

\* An error anywhere: the pool and the role stop for good.
StopRole(r) ==
    /\ poisoned' = [poisoned EXCEPT ![r] = TRUE]
    /\ store' = [store EXCEPT ![r].pending = FALSE]
    /\ live' = [live EXCEPT ![r] = FALSE]
    /\ pc' = [pc EXCEPT ![r] = "idle"]
    /\ attempt' = [attempt EXCEPT ![r] = NoAttempt]
    /\ pending' = IF r = "P" THEN NoPending ELSE pending
    /\ request' = IF r = "V" THEN NoRequest ELSE request

\* Pool::attempt up to the callback: burn the slot and the rows.  An append
\* that fails is an error of the call.
Burn(r, req, io) ==
    LET rec == Store!BurnRecord(store[r], 3 * RequiredNow(r))
        next == Store!Apply(store[r], rec)
    IN /\ Journal(r, store[r], rec, io)
       /\ IF io = "ok"
          THEN /\ store' = [store EXCEPT ![r] = next]
               /\ attempt' = [attempt EXCEPT ![r] =
                     [ordinal |-> next.attempts, predecessor |-> rec.digest,
                      first |-> rec.start]]
               /\ exposures' = [exposures EXCEPT ![r] =
                     Append(@, [first |-> rec.start, count |-> rec.count])]
               /\ pc' = [pc EXCEPT ![r] = "burned"]
               /\ live' = [live EXCEPT ![r] = FALSE]
               /\ request' = req
               /\ UNCHANGED <<poisoned, pending>>
          ELSE StopRole(r) /\ UNCHANGED exposures
       /\ UNCHANGED <<registry, transport>>

\* A variant: the registry counts packed elements where the pool counts rows.
AdvanceCountsPacked(r) ==
    /\ CheckBurn(r, attempt[r])
    /\ slot' = [slot EXCEPT ![r] = @ + 1]
    /\ cursor' = [cursor EXCEPT ![r] = @ + RequiredNow(r)]

\* The callback's check of the burn, and the registry's move to the next slot.
Advance(r) ==
    /\ CheckBurn(r, attempt[r])
    /\ slot' = [slot EXCEPT ![r] = @ + 1]
    /\ cursor' = [cursor EXCEPT ![r] = @ + 3 * RequiredNow(r)]

\* Pool::attempt after a callback that returned a receipt: journal it, and only
\* then promote the registry.
Promote(r, root, receipt, io) ==
    LET rec == Store!AcceptRecord(store[r], receipt)
        s == [store[r] EXCEPT !.pending = TRUE]
    IN /\ Journal(r, s, rec, io)
       /\ IF io = "ok"
          THEN /\ store' = [store EXCEPT ![r] = Store!Apply(s, rec)]
               /\ accepted' = [accepted EXCEPT ![r] =
                     Append(@, [root |-> root, receipt |-> receipt])]
               /\ live' = [live EXCEPT ![r] = slot[r] < ROOT_SLOTS]
               /\ pc' = [pc EXCEPT ![r] = "idle"]
               /\ attempt' = [attempt EXCEPT ![r] = NoAttempt]
               /\ pending' = IF r = "P" THEN NoPending ELSE pending
               /\ request' = IF r = "V" THEN NoRequest ELSE request
               /\ UNCHANGED poisoned
          ELSE StopRole(r) /\ UNCHANGED accepted
       /\ UNCHANGED <<slot, cursor, exposures>>

-----------------------------------------------------------------------------
(* Prover::respond_with_pool *)

Init ==
    LET fresh == Store!Apply(Store!DefaultState,
                             Store!SetupRecord(Store!DefaultState, Capacity, TRUE))
    IN /\ store = [r \in Role |-> fresh]
       /\ durable = [r \in Role |-> fresh]
       /\ poisoned = [r \in Role |-> FALSE]
       /\ pc = [r \in Role |-> "idle"]
       /\ slot = [r \in Role |-> 0]
       /\ cursor = [r \in Role |-> 0]
       /\ accepted = [r \in Role |-> <<>>]
       /\ live = [r \in Role |-> TRUE]
       /\ attempt = [r \in Role |-> NoAttempt]
       /\ pending = NoPending
       /\ request = NoRequest
       /\ sent = {}
       /\ acceptances = {}
       /\ exposures = [r \in Role |-> <<>>]

\* The prover's checks pass, Prepare succeeds and the burn is attempted.
Respond(io) ==
    /\ pc["P"] = "idle"
    /\ live["P"]
    /\ pending = NoPending
    /\ CheckPool("P")
    /\ (store["P"].rows - store["P"].used) \div 3 >= RequiredNow("P")
    /\ Burn("P", request, io)

\* Any error before the burn: the run has ended, a check fails, capacity is
\* short, or Prepare fails.
RespondFails ==
    /\ pc["P"] = "idle"
    /\ StopRole("P")
    /\ UNCHANGED <<durable, registry, transport, exposures>>

\* The callback checks the burn, advances the registry, proves and sends.
Prove(root) ==
    /\ pc["P"] = "burned"
    /\ Advance("P")
    /\ HeaderOK("P", root)
    /\ LET h == Header("P", root) IN
          /\ pending' = [root |-> root, receipt |-> ReceiptOf(h)]
          /\ sent' = sent \cup {[root |-> root, header |-> h]}
    /\ pc' = [pc EXCEPT !["P"] = "waiting"]
    /\ UNCHANGED <<store, durable, poisoned, accepted, live, attempt, request,
                   acceptances, exposures>>

\* The callback fails or panics, before or after it advanced the registry.
ProveFails ==
    /\ pc["P"] = "burned"
    /\ \/ UNCHANGED <<slot, cursor>>
       \/ Advance("P")
    /\ StopRole("P")
    /\ UNCHANGED <<durable, accepted, transport, exposures>>

\* A variant: any acceptance will do.
CheckAcceptanceAny(a) == a.root \in Roots

\* Prover::check_acceptance
CheckAcceptance(a) ==
    /\ a.receipt = pending.receipt
    /\ a.root = pending.root
    /\ a.slot = Len(accepted["P"])

\* verify returned an acceptance that matches: journal it and promote.
ProverAccepts(a, io) ==
    /\ pc["P"] = "waiting"
    /\ CheckAcceptance(a)
    /\ Promote("P", pending.root, pending.receipt, io)
    /\ UNCHANGED transport

\* verify returned an error, or an acceptance that does not match.
AcceptanceFails ==
    /\ pc["P"] = "waiting"
    /\ StopRole("P")
    /\ UNCHANGED <<durable, registry, transport, exposures>>

-----------------------------------------------------------------------------
(* Verifier::verify_with_pool *)

\* The verifier's checks on a response pass and the burn is attempted.
Verify(m, io) ==
    /\ pc["V"] = "idle"
    /\ live["V"]
    /\ CheckPool("V")
    /\ HeaderOK("V", m.root)
    /\ Burn("V", [root |-> m.root, claimed |-> m.header,
                  header |-> Header("V", m.root)], io)

\* Any error before the burn: the run has ended, a check, the prompt or the
\* header fails, or the append is refused.
VerifyFails ==
    /\ pc["V"] = "idle"
    /\ StopRole("V")
    /\ UNCHANGED <<durable, registry, transport, exposures>>

\* The callback checks the burn and advances the registry.
VerifyAdvances ==
    /\ pc["V"] = "burned"
    /\ Advance("V")
    /\ pc' = [pc EXCEPT !["V"] = "checking"]
    /\ UNCHANGED <<store, durable, poisoned, accepted, live, attempt, pending, request,
                   transport, exposures>>

\* verify_schedule accepts only a certificate made under the verifier's own
\* header; the acceptance leaves only once it is durable.
VerifierAccepts(io) ==
    /\ pc["V"] = "checking"
    /\ request.claimed = request.header
    /\ LET receipt == ReceiptOf(request.header) IN
          /\ Promote("V", request.root, receipt, io)
          /\ acceptances' = IF io = "ok"
                            THEN acceptances \cup {[root |-> request.root,
                                    receipt |-> receipt, slot |-> request.header.slot]}
                            ELSE acceptances
    /\ UNCHANGED sent

\* The callback fails or panics.
VerifyRejects ==
    /\ pc["V"] \in {"burned", "checking"}
    /\ StopRole("V")
    /\ UNCHANGED <<durable, registry, transport, exposures>>

-----------------------------------------------------------------------------
\* A crash of a role is not an action of its own: a fixed run cannot reopen
\* (Lifetime, FixedRunNeverResumes), so at every point a crash leaves behind
\* what the error there leaves behind.
Next ==
    \/ \E io \in Outcome : Respond(io)
    \/ RespondFails
    \/ \E root \in Roots : Prove(root)
    \/ ProveFails
    \/ \E a \in acceptances, io \in Outcome : ProverAccepts(a, io)
    \/ AcceptanceFails
    \/ \E m \in sent, io \in Outcome : Verify(m, io)
    \/ VerifyFails
    \/ VerifyAdvances
    \/ \E io \in Outcome : VerifierAccepts(io)
    \/ VerifyRejects

Spec == Init /\ [][Next]_vars

-----------------------------------------------------------------------------
(* Properties *)

Accepted == [root : Roots, receipt : Receipts]

\* Every variable has its type.
TypeOK ==
    /\ store \in [Role -> Store!State]
    /\ durable \in [Role -> Store!State]
    /\ poisoned \in [Role -> BOOLEAN]
    /\ pc \in [Role -> {"idle", "burned", "waiting", "checking"}]
    /\ slot \in [Role -> 0..ROOT_SLOTS]
    /\ cursor \in [Role -> 0..Capacity]
    /\ accepted \in [Role -> Seq(Accepted)]
    /\ live \in [Role -> BOOLEAN]
    /\ pending = NoPending \/ pending \in Accepted
    /\ acceptances \subseteq [root : Roots, receipt : Receipts, slot : 0..ROOT_SLOTS]
    /\ exposures \in [Role -> Seq([first : Nat, count : Nat])]

\* What the prover has promoted is a prefix of what the verifier has, and at
\* most one response behind, whichever step of either role failed (promotion
\* follows the verifier's journal on both sides).  For every slot that both roles
\* exposed they handed out the same interval of rows: the MAC equation pairs rows
\* by index.
PrefixAgreement ==
    /\ Len(accepted["P"]) <= Len(accepted["V"])
    /\ Len(accepted["V"]) <= Len(accepted["P"]) + 1
    /\ SubSeq(accepted["V"], 1, Len(accepted["P"])) = accepted["P"]
    /\ \A i \in 1..Len(exposures["P"]) :
          i <= Len(exposures["V"]) => exposures["P"][i] = exposures["V"][i]

\* A registry never runs ahead of its journal, and the journal at most one
\* acceptance ahead of it: its head extends the last promoted receipt.  Between
\* calls a role that is still live finds its pool and its registry in agreement:
\* check_pool never stops an honest run.
RegistryInStep ==
    \A r \in Role :
        /\ Len(durable[r].head) - Len(accepted[r]) \in {0, 1}
        /\ SubSeq(durable[r].head, 1, Len(accepted[r])) = LastReceipt(r)
        /\ pc[r] = "idle" /\ live[r] => CheckPool(r)

\* What the verifier's journal has accepted was proved by the prover on a journal
\* that had burned the slot.
ProverBurnedFirst == durable["V"].attempts <= durable["P"].attempts

-----------------------------------------------------------------------------
(* What the run promises: one agreed chain, confirmed in order *)

RootsOf(s) == [i \in 1..Len(s) |-> s[i].root]

Abstract == INSTANCE AgreedRun
               WITH chain <- RootsOf(accepted["V"]),
                    confirmed <- RootsOf(accepted["P"])

\* The two registries implement one agreed chain of responses.
ImplementsAgreedRun == Abstract!Spec

=============================================================================
