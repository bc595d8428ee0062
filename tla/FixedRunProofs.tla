--------------------------- MODULE FixedRunProofs ---------------------------
(***************************************************************************)
(* Proofs about the fixed run of a prover and a verifier, for any number   *)
(* of slots, any demand per slot and any pool capacity.                    *)
(*                                                                         *)
(* What the two registries agree on follows from what is on the transport: *)
(* the prover sends one response per slot, under a header that closes its  *)
(* whole registry, and the verifier's acceptances name entries of its own. *)
(* A role that has not failed has its store, its journal and its registry  *)
(* in step; a role that has failed never moves again.                      *)
(***************************************************************************)
EXTENDS FixedRun, TLAPS, SequenceTheorems

\* The registry of role r and its length.
n(r) == Len(accepted[r])

\* The receipt of a registry is the sequence of its roots.
ReceiptsOK(r) ==
    /\ n(r) <= ROOT_SLOTS
    /\ LastReceipt(r) = RootsOf(accepted[r])

\* The journal's head closes the registry, or is one root ahead of it.
HeadOK(r) ==
    \/ durable[r].head = RootsOf(accepted[r])
    \/ \E root \in Roots : durable[r].head = Append(RootsOf(accepted[r]), root)

\* A role that has not failed.
StoreOK(r) ==
    ~poisoned[r] =>
        /\ store[r].fixed_run
        /\ store[r].setups = 1
        /\ store[r].rows = Capacity
        /\ store[r].used <= Capacity
        /\ store[r].head = RootsOf(accepted[r])
        /\ durable[r].head = store[r].head
        /\ durable[r].attempts = store[r].attempts
        /\ store[r].attempts = Len(exposures[r])

\* Where its registry is, at each point of a call.
PcOK(r) ==
    /\ poisoned[r] => pc[r] = "idle" /\ ~live[r]
    /\ (pc[r] = "idle" /\ ~poisoned[r]) =>
           /\ slot[r] = n(r)
           /\ store[r].attempts = n(r)
           /\ cursor[r] = store[r].used
           /\ live[r] <=> n(r) < ROOT_SLOTS
    /\ pc[r] = "burned" =>
           /\ slot[r] = n(r)
           /\ n(r) < ROOT_SLOTS
           /\ store[r].attempts = n(r) + 1
           /\ cursor[r] + 3 * Required[n(r) + 1] = store[r].used
    /\ pc[r] \in {"waiting", "checking"} =>
           /\ slot[r] = n(r) + 1
           /\ n(r) < ROOT_SLOTS
           /\ store[r].attempts = n(r) + 1
           /\ cursor[r] = store[r].used

\* The rows a role exposed are consecutive intervals, one per slot.
Start(s, i) == IF i = 1 THEN 0 ELSE s[i - 1].first + s[i - 1].count

Intervals(s) ==
    \A i \in 1..Len(s) : s[i].first = Start(s, i) /\ s[i].count = 3 * Required[i]

ExposuresOK(r) ==
    /\ Len(exposures[r]) <= ROOT_SLOTS
    /\ Intervals(exposures[r])
    /\ ~poisoned[r] => store[r].used = Start(exposures[r], Len(exposures[r]) + 1)

RoleOK(r) ==
    /\ ReceiptsOK(r)
    /\ HeadOK(r)
    /\ StoreOK(r)
    /\ PcOK(r)
    /\ ExposuresOK(r)

\* The prover's response in flight, and the verifier's call.
PendingOK ==
    /\ pc["P"] # "checking"
    /\ pc["P"] = "waiting" =>
           /\ pending.root \in Roots
           /\ pending.receipt = Append(RootsOf(accepted["P"]), pending.root)

RequestOK ==
    /\ pc["V"] # "waiting"
    /\ pc["V"] \in {"burned", "checking"} =>
           /\ request.root \in Roots
           /\ request.header.slot = n("V")
           /\ request.header.history = accepted["V"]
           /\ request.header.root = request.root
           /\ \A i \in 1..n("V") : accepted["V"][i].root # request.root
           /\ \E m \in sent : m.root = request.root /\ m.header = request.claimed

\* The responses on the transport: one per slot the prover burned, each under
\* the registry it had.
SentOK ==
    /\ \A m \in sent :
          /\ m.root \in Roots
          /\ m.header.history \in Seq(Accepted)
          /\ Len(m.header.history) <= n("P")
          /\ Len(m.header.history) < durable["P"].attempts
          /\ \A i \in 1..Len(m.header.history) : m.header.history[i] = accepted["P"][i]
          /\ (~poisoned["P"] /\ pc["P"] # "waiting") => Len(m.header.history) < n("P")
    /\ \A m1, m2 \in sent :
          Len(m1.header.history) = Len(m2.header.history) => m1.root = m2.root

\* The acceptances on the transport are entries of the verifier's registry.
AcceptancesOK ==
    \A a \in acceptances :
        /\ a.slot + 1 \in 1..n("V")
        /\ accepted["V"][a.slot + 1] = [root |-> a.root, receipt |-> a.receipt]

\* The prover's registry is the verifier's, or one response behind.
AgreeOK ==
    /\ n("P") <= n("V")
    /\ n("V") <= n("P") + 1
    /\ \A i \in 1..n("P") : accepted["P"][i] = accepted["V"][i]
    /\ \A i \in 1..n("V") :
          \E m \in sent : Len(m.header.history) = i - 1 /\ m.root = accepted["V"][i].root
    /\ \A i \in 1..Len(exposures["P"]) :
          i <= Len(exposures["V"]) => exposures["P"][i] = exposures["V"][i]

IInv ==
    /\ TypeOK
    /\ \A r \in Role : RoleOK(r)
    /\ PendingOK
    /\ RequestOK
    /\ SentOK
    /\ AcceptancesOK
    /\ AgreeOK
    /\ ProverBurnedFirst

-----------------------------------------------------------------------------
(* Registries, receipts and the store's records *)

\* The receipts are the sequences of roots no longer than a run.
LEMMA ReceiptsAreSeqs ==
    \A x : x \in Receipts <=> x \in Seq(Roots) /\ Len(x) <= ROOT_SLOTS
<1>1. ASSUME NEW x \in Receipts PROVE x \in Seq(Roots) /\ Len(x) <= ROOT_SLOTS
    <2>1. PICK k \in 0..ROOT_SLOTS : x \in [1..k -> Roots]
        BY DEF Receipts
    <2>2. k \in Nat /\ k <= ROOT_SLOTS
        BY <2>1, RunAssumption
    <2>3. x \in Seq(Roots) /\ Len(x) = k
        BY <2>1, <2>2, SeqDef, LenProperties
    <2> QED
        BY <2>2, <2>3
<1>2. ASSUME NEW x \in Seq(Roots), Len(x) <= ROOT_SLOTS PROVE x \in Receipts
    <2>1. Len(x) \in 0..ROOT_SLOTS /\ x \in [1..Len(x) -> Roots]
        BY <1>2, RunAssumption, LenProperties
    <2> QED
        BY <2>1 DEF Receipts
<1> QED
    BY <1>1, <1>2

\* The roots of a registry, and what one more entry does to them.
LEMMA RootsOfSeq ==
    ASSUME NEW s \in Seq(Accepted)
    PROVE  /\ RootsOf(s) \in Seq(Roots)
           /\ Len(RootsOf(s)) = Len(s)
           /\ \A i \in 1..Len(s) : RootsOf(s)[i] = s[i].root
<1>1. Len(s) \in Nat /\ \A i \in 1..Len(s) : s[i] \in Accepted
    BY LenProperties, ElementOfSeq
<1>2. \A i \in 1..Len(s) : s[i].root \in Roots
    BY <1>1 DEF Accepted
<1>3. RootsOf(s) \in [1..Len(s) -> Roots]
    BY <1>2 DEF RootsOf
<1>4. RootsOf(s) \in Seq(Roots)
    BY <1>1, <1>3, SeqDef
<1>5. Len(RootsOf(s)) = Len(s)
    BY <1>1, <1>3, <1>4, LenProperties
<1> QED
    BY <1>4, <1>5 DEF RootsOf

\* One more entry adds one root.
LEMMA RootsOfAppend ==
    ASSUME NEW s \in Seq(Accepted), NEW x \in Accepted
    PROVE  RootsOf(Append(s, x)) = Append(RootsOf(s), x.root)
<1>0. PICK t : t = Append(s, x)
    OBVIOUS
<1>1. /\ t \in Seq(Accepted) /\ Len(t) = Len(s) + 1 /\ Len(s) \in Nat
      /\ \A i \in 1..Len(s) : t[i] = s[i]
      /\ t[Len(s) + 1] = x
    BY <1>0, AppendProperties, LenProperties
<1>2. /\ RootsOf(t) \in Seq(Roots) /\ Len(RootsOf(t)) = Len(s) + 1
      /\ \A i \in 1..Len(t) : RootsOf(t)[i] = t[i].root
    BY <1>1, RootsOfSeq
<1>3. /\ RootsOf(s) \in Seq(Roots) /\ Len(RootsOf(s)) = Len(s)
      /\ \A i \in 1..Len(s) : RootsOf(s)[i] = s[i].root
    BY RootsOfSeq
<1>4. x.root \in Roots
    BY DEF Accepted
<1>5. PICK u : u = Append(RootsOf(s), x.root)
    OBVIOUS
<1>6. /\ u \in Seq(Roots) /\ Len(u) = Len(s) + 1
      /\ \A i \in 1..Len(s) : u[i] = s[i].root
      /\ u[Len(s) + 1] = x.root
    BY <1>3, <1>4, <1>5, AppendProperties
<1>7. \A i \in 1..Len(RootsOf(t)) : RootsOf(t)[i] = u[i]
    BY <1>1, <1>2, <1>6
<1>8. RootsOf(t) = u
    BY <1>2, <1>6, <1>7, SeqEqual
<1> QED
    BY <1>0, <1>5, <1>8

\* A burn and an acceptance, as State::apply performs them.
LEMMA ApplyBurn ==
    ASSUME NEW s \in Store!State, NEW rec, rec.kind = "burn", rec.count \in Nat
    PROVE  /\ Store!Apply(s, rec) \in Store!State
           /\ Store!Apply(s, rec).fixed_run = s.fixed_run
           /\ Store!Apply(s, rec).setups = s.setups
           /\ Store!Apply(s, rec).rows = s.rows
           /\ Store!Apply(s, rec).head = s.head
           /\ Store!Apply(s, rec).used = s.used + rec.count
           /\ Store!Apply(s, rec).attempts = s.attempts + 1
<1>1. PICK u \in Nat, a \in Nat : u = s.used + rec.count /\ a = s.attempts + 1
    BY DEF Store!State
<1>2. PICK t : t = Store!Apply(s, rec)
    OBVIOUS
<1>3. t = [s EXCEPT !.used = u, !.attempts = a, !.pending = TRUE]
    BY <1>1, <1>2 DEF Store!Apply
<1>4. /\ t \in Store!State /\ t.fixed_run = s.fixed_run /\ t.setups = s.setups
      /\ t.rows = s.rows /\ t.head = s.head /\ t.used = u /\ t.attempts = a
    BY <1>1, <1>3 DEF Store!State
<1> QED
    BY <1>1, <1>2, <1>4

\* An acceptance moves the head and nothing else the run relies on.
LEMMA ApplyAccept ==
    ASSUME NEW s \in Store!State, NEW rec, rec.kind = "accept", rec.digest \in Receipts
    PROVE  /\ Store!Apply(s, rec) \in Store!State
           /\ Store!Apply(s, rec).fixed_run = s.fixed_run
           /\ Store!Apply(s, rec).setups = s.setups
           /\ Store!Apply(s, rec).rows = s.rows
           /\ Store!Apply(s, rec).head = rec.digest
           /\ Store!Apply(s, rec).used = s.used
           /\ Store!Apply(s, rec).attempts = s.attempts
<1>1. PICK t : t = Store!Apply(s, rec)
    OBVIOUS
<1>2. t = [s EXCEPT !.head = rec.digest, !.pending = FALSE]
    BY <1>1 DEF Store!Apply
<1>3. /\ t \in Store!State /\ t.fixed_run = s.fixed_run /\ t.setups = s.setups
      /\ t.rows = s.rows /\ t.head = rec.digest /\ t.used = s.used /\ t.attempts = s.attempts
    BY <1>2 DEF Store!State
<1> QED
    BY <1>1, <1>3

-----------------------------------------------------------------------------
(* What the calls do to the role that makes them *)

\* The part of the state that belongs to a role.
Same(r) ==
    /\ store'[r] = store[r] /\ durable'[r] = durable[r] /\ poisoned'[r] = poisoned[r]
    /\ pc'[r] = pc[r] /\ slot'[r] = slot[r] /\ cursor'[r] = cursor[r]
    /\ accepted'[r] = accepted[r] /\ live'[r] = live[r] /\ exposures'[r] = exposures[r]

\* A step that leaves a role's part alone keeps what holds of that role.
LEMMA RoleKept ==
    ASSUME NEW r \in Role, RoleOK(r), Same(r)
    PROVE  RoleOK(r)'
<1>1. n(r)' = n(r) /\ LastReceipt(r)' = LastReceipt(r)
    BY DEF Same, n, LastReceipt
<1>2. ReceiptsOK(r)' /\ HeadOK(r)'
    BY <1>1 DEF Same, RoleOK, ReceiptsOK, HeadOK
<1>3. StoreOK(r)'
    BY DEF Same, RoleOK, StoreOK
<1>4. PcOK(r)'
    BY <1>1 DEF Same, RoleOK, PcOK
<1>5. ExposuresOK(r)'
    BY DEF Same, RoleOK, ExposuresOK
<1> QED
    BY <1>2, <1>3, <1>4, <1>5 DEF RoleOK

\* A role that stops keeps its registry and its exposures, and nothing else is
\* asked of it.
LEMMA StopKeeps ==
    ASSUME TypeOK, NEW r \in Role, RoleOK(r), StopRole(r), HeadOK(r)',
           accepted'[r] = accepted[r], exposures'[r] = exposures[r]
    PROVE  RoleOK(r)'
<1>1. poisoned'[r] /\ pc'[r] = "idle" /\ ~live'[r]
    BY DEF StopRole, TypeOK
<1>2. ReceiptsOK(r)'
    BY DEF RoleOK, ReceiptsOK, n, LastReceipt
<1>3. StoreOK(r)'
    BY <1>1 DEF StoreOK
<1>4. PcOK(r)'
    BY <1>1 DEF PcOK
<1>5. ExposuresOK(r)'
    BY <1>1 DEF RoleOK, ExposuresOK
<1> QED
    BY <1>2, <1>3, <1>4, <1>5 DEF RoleOK

\* What StopRole leaves of the stopped role, and that it spares the other.
LEMMA StopTypes ==
    ASSUME TypeOK, NEW r \in Role, StopRole(r)
    PROVE  /\ store' \in [Role -> Store!State]
           /\ poisoned' \in [Role -> BOOLEAN]
           /\ live' \in [Role -> BOOLEAN]
           /\ pc' \in [Role -> {"idle", "burned", "waiting", "checking"}]
           /\ pending' = NoPending \/ pending' \in Accepted
           /\ \A q \in Role \ {r} : /\ store'[q] = store[q] /\ poisoned'[q] = poisoned[q]
                                    /\ live'[q] = live[q] /\ pc'[q] = pc[q]
           /\ poisoned'[r] /\ pc'[r] = "idle" /\ ~live'[r]
<1>1. [store[r] EXCEPT !.pending = FALSE] \in Store!State
    <2>1. \A s \in Store!State : [s EXCEPT !.pending = FALSE] \in Store!State
        BY DEF Store!State
    <2> QED
        BY <2>1 DEF TypeOK
<1>2. store' = [store EXCEPT ![r] = [store[r] EXCEPT !.pending = FALSE]]
    BY DEF StopRole
<1>3. /\ store' \in [Role -> Store!State]
      /\ \A q \in Role \ {r} : store'[q] = store[q]
    BY <1>1, <1>2 DEF TypeOK
<1>4. /\ poisoned' \in [Role -> BOOLEAN] /\ live' \in [Role -> BOOLEAN]
      /\ poisoned'[r] /\ ~live'[r]
      /\ \A q \in Role \ {r} : poisoned'[q] = poisoned[q] /\ live'[q] = live[q]
    BY DEF StopRole, TypeOK
<1>5. /\ pc' \in [Role -> {"idle", "burned", "waiting", "checking"}]
      /\ pc'[r] = "idle"
      /\ \A q \in Role \ {r} : pc'[q] = pc[q]
    BY DEF StopRole, TypeOK
<1>6. pending' = NoPending \/ pending' \in Accepted
    BY DEF StopRole, TypeOK
<1> QED
    BY <1>3, <1>4, <1>5, <1>6

\* A burn that the role's checks let through.
LEMMA BurnFacts ==
    ASSUME TypeOK, NEW r \in Role, RoleOK(r), pc[r] = "idle", CheckPool(r),
           NEW req, NEW io \in Outcome, Burn(r, req, io)
    PROVE  /\ ~poisoned[r] /\ slot[r] = n(r) /\ n(r) < ROOT_SLOTS
           /\ durable' \in [Role -> Store!State]
           /\ \A q \in Role \ {r} : durable'[q] = durable[q]
           /\ durable'[r].head = durable[r].head
           /\ durable'[r].attempts \in {n(r), n(r) + 1}
           /\ UNCHANGED <<slot, cursor, accepted, sent, acceptances>>
           /\ io # "ok" => StopRole(r) /\ exposures' = exposures
           /\ io = "ok" =>
                 /\ store' = [store EXCEPT ![r] = Store!Apply(store[r],
                                Store!BurnRecord(store[r], 3 * Required[n(r) + 1]))]
                 /\ durable'[r].attempts = n(r) + 1
                 /\ pc' = [pc EXCEPT ![r] = "burned"]
                 /\ live' = [live EXCEPT ![r] = FALSE]
                 /\ request' = req /\ UNCHANGED <<poisoned, pending>>
                 /\ exposures' = [exposures EXCEPT ![r] = Append(@,
                        [first |-> store[r].used, count |-> 3 * Required[n(r) + 1]])]
                 /\ store[r].used + 3 * Required[n(r) + 1] <= Capacity
<1>1. ~poisoned[r]
    BY DEF Burn, Journal
<1>2. /\ slot[r] = n(r) /\ store[r].attempts = n(r) /\ n(r) \in Nat
      /\ store[r] \in Store!State /\ durable[r] \in Store!State
      /\ store[r].rows = Capacity /\ durable[r].attempts = n(r)
    BY <1>1 DEF RoleOK, PcOK, StoreOK, TypeOK, n
<1>3. n(r) < ROOT_SLOTS
    BY <1>2 DEF CheckPool, CheckBurn
<1>4. RequiredNow(r) = Required[n(r) + 1] /\ Required[n(r) + 1] \in Nat
    <2>1. n(r) + 1 \in 1..ROOT_SLOTS
        BY <1>2, <1>3, RunAssumption
    <2> QED
        BY <1>2, <2>1, RunAssumption DEF RequiredNow
<1>5. PICK rec : rec = Store!BurnRecord(store[r], 3 * Required[n(r) + 1])
    OBVIOUS
<1>6. /\ rec.kind = "burn" /\ rec.count = 3 * Required[n(r) + 1] /\ rec.start = store[r].used
      /\ rec.count \in Nat
    BY <1>4, <1>5 DEF Store!BurnRecord
<1>7. /\ Store!Valid(store[r], rec)
      /\ durable' = IF io = "lost" THEN durable
                    ELSE [durable EXCEPT ![r] = Store!Apply(durable[r], rec)]
    BY <1>4, <1>5 DEF Burn, Journal
<1>8. rec.count <= store[r].rows - store[r].used
    BY <1>6, <1>7 DEF Store!Valid
<1>9. store[r].used + 3 * Required[n(r) + 1] <= Capacity
    <2>1. store[r].used \in Nat /\ Capacity \in Nat
        BY <1>2, RunAssumption DEF Store!State
    <2> QED
        BY <1>2, <1>4, <1>6, <1>8, <2>1
<1>10. PICK t : t = Store!Apply(durable[r], rec)
    OBVIOUS
<1>11. t \in Store!State /\ t.head = durable[r].head /\ t.attempts = n(r) + 1
    BY <1>2, <1>6, <1>10, ApplyBurn
<1>12. /\ durable' \in [Role -> Store!State]
       /\ \A q \in Role \ {r} : durable'[q] = durable[q]
       /\ durable'[r] = IF io = "lost" THEN durable[r] ELSE t
    BY <1>7, <1>10, <1>11 DEF TypeOK
<1>13. UNCHANGED <<slot, cursor, accepted, sent, acceptances>>
    BY DEF Burn, registry, transport
<1>14. io # "ok" => StopRole(r) /\ exposures' = exposures
    BY DEF Burn
<1>15. ASSUME io = "ok"
       PROVE  /\ store' = [store EXCEPT ![r] = Store!Apply(store[r], rec)]
              /\ pc' = [pc EXCEPT ![r] = "burned"]
              /\ live' = [live EXCEPT ![r] = FALSE]
              /\ request' = req /\ UNCHANGED <<poisoned, pending>>
              /\ exposures' = [exposures EXCEPT ![r] =
                     Append(@, [first |-> rec.start, count |-> rec.count])]
    BY <1>4, <1>5, <1>15 DEF Burn
<1> QED
    BY <1>1, <1>2, <1>3, <1>5, <1>6, <1>9, <1>11, <1>12, <1>13, <1>14, <1>15

\* A burn keeps both roles' own invariants and the types.
LEMMA BurnKeeps ==
    ASSUME TypeOK, \A q \in Role : RoleOK(q), NEW r \in Role, pc[r] = "idle", CheckPool(r),
           NEW req, NEW io \in Outcome, Burn(r, req, io)
    PROVE  TypeOK' /\ \A q \in Role : RoleOK(q)'
<1>0. /\ ~poisoned[r] /\ slot[r] = n(r) /\ n(r) < ROOT_SLOTS
      /\ durable' \in [Role -> Store!State]
      /\ \A q \in Role \ {r} : durable'[q] = durable[q]
      /\ durable'[r].head = durable[r].head
      /\ UNCHANGED <<slot, cursor, accepted, sent, acceptances>>
      /\ io # "ok" => StopRole(r) /\ exposures' = exposures
    BY BurnFacts
<1>1. HeadOK(r)'
    BY <1>0 DEF RoleOK, HeadOK
<1>2. CASE io # "ok"
    <2>1. TypeOK'
        BY <1>0, <1>2, StopTypes DEF TypeOK
    <2>2. RoleOK(r)'
        BY <1>0, <1>1, <1>2, StopKeeps
    <2>3. \A q \in Role \ {r} : Same(q)
        BY <1>0, <1>2, StopTypes DEF Same
    <2> QED
        BY <2>1, <2>2, <2>3, RoleKept
<1>3. CASE io = "ok"
    <2>0. PICK rec, k : /\ k = Required[n(r) + 1]
                        /\ rec = Store!BurnRecord(store[r], 3 * k)
        OBVIOUS
    <2>1. /\ store' = [store EXCEPT ![r] = Store!Apply(store[r], rec)]
          /\ durable'[r].attempts = n(r) + 1
          /\ pc' = [pc EXCEPT ![r] = "burned"]
          /\ live' = [live EXCEPT ![r] = FALSE]
          /\ UNCHANGED <<poisoned, pending>>
          /\ exposures' = [exposures EXCEPT ![r] = Append(@,
                 [first |-> store[r].used, count |-> 3 * k])]
          /\ store[r].used + 3 * k <= Capacity
        BY <1>3, <2>0, BurnFacts
    <2>2. /\ store[r] \in Store!State /\ store[r].used \in Nat /\ n(r) \in Nat /\ k \in Nat
          /\ store[r].attempts = n(r) /\ cursor[r] = store[r].used
          /\ Len(exposures[r]) = n(r) /\ exposures[r] \in Seq([first : Nat, count : Nat])
          /\ store[r].fixed_run /\ store[r].setups = 1 /\ store[r].rows = Capacity
          /\ store[r].head = RootsOf(accepted[r]) /\ durable[r].head = store[r].head
        <3>1. n(r) \in Nat /\ store[r] \in Store!State
            BY DEF TypeOK, n
        <3>2. n(r) + 1 \in 1..ROOT_SLOTS
            BY <1>0, <3>1, RunAssumption
        <3>3. k \in Nat
            BY <2>0, <3>2, RunAssumption
        <3>4. store[r].used \in Nat
            BY <3>1 DEF Store!State
        <3>5. /\ store[r].attempts = n(r) /\ cursor[r] = store[r].used
              /\ Len(exposures[r]) = n(r)
              /\ store[r].fixed_run /\ store[r].setups = 1 /\ store[r].rows = Capacity
              /\ store[r].head = RootsOf(accepted[r]) /\ durable[r].head = store[r].head
            BY <1>0 DEF RoleOK, PcOK, StoreOK
        <3> QED
            BY <3>1, <3>3, <3>4, <3>5 DEF TypeOK
    <2>3. PICK t : t = Store!Apply(store[r], rec)
        OBVIOUS
    <2>4. /\ t \in Store!State /\ t.fixed_run = store[r].fixed_run
          /\ t.setups = 1 /\ t.rows = Capacity /\ t.head = store[r].head
          /\ t.used = store[r].used + 3 * k /\ t.attempts = n(r) + 1
        <3>1. rec.kind = "burn" /\ rec.count = 3 * k /\ 3 * k \in Nat
            BY <2>0, <2>2 DEF Store!BurnRecord
        <3>2. /\ t \in Store!State /\ t.fixed_run = store[r].fixed_run
              /\ t.setups = store[r].setups /\ t.rows = store[r].rows
              /\ t.head = store[r].head /\ t.used = store[r].used + rec.count
              /\ t.attempts = store[r].attempts + 1
            BY <2>2, <2>3, <3>1, ApplyBurn
        <3> QED
            BY <2>2, <3>1, <3>2
    <2>5. PICK e : e = [first |-> store[r].used, count |-> 3 * k]
        OBVIOUS
    <2>6. /\ e \in [first : Nat, count : Nat] /\ e.first = store[r].used /\ e.count = 3 * k
        BY <2>2, <2>5
    <2>7. /\ store' \in [Role -> Store!State] /\ store'[r] = t
          /\ \A q \in Role \ {r} : store'[q] = store[q]
        BY <2>1, <2>3, <2>4 DEF TypeOK
    <2>8. /\ live' \in [Role -> BOOLEAN] /\ ~live'[r]
          /\ \A q \in Role \ {r} : live'[q] = live[q]
        BY <2>1 DEF TypeOK
    <2>9. /\ pc' \in [Role -> {"idle", "burned", "waiting", "checking"}] /\ pc'[r] = "burned"
          /\ \A q \in Role \ {r} : pc'[q] = pc[q]
        BY <2>1 DEF TypeOK
    <2>10. /\ exposures' \in [Role -> Seq([first : Nat, count : Nat])]
           /\ exposures'[r] = Append(exposures[r], e)
           /\ \A q \in Role \ {r} : exposures'[q] = exposures[q]
        <3>1. Append(exposures[r], e) \in Seq([first : Nat, count : Nat])
            BY <2>2, <2>6
        <3>2. exposures' = [exposures EXCEPT ![r] = Append(exposures[r], e)]
            BY <2>1, <2>5
        <3> QED
            BY <3>1, <3>2 DEF TypeOK
    <2>11. TypeOK'
        BY <1>0, <2>1, <2>7, <2>8, <2>9, <2>10 DEF TypeOK
    <2>12. \A q \in Role \ {r} : Same(q)
        BY <1>0, <2>1, <2>7, <2>8, <2>9, <2>10 DEF Same
    <2>13. n(r)' = n(r)
        BY <1>0 DEF n
    <2>14. /\ Len(exposures'[r]) = n(r) + 1
           /\ \A i \in 1..n(r) : exposures'[r][i] = exposures[r][i]
           /\ exposures'[r][n(r) + 1] = e
        BY <2>2, <2>6, <2>10
    <2>15. ReceiptsOK(r)'
        BY <1>0 DEF RoleOK, ReceiptsOK, n, LastReceipt
    <2>16. StoreOK(r)'
        BY <1>0, <2>1, <2>2, <2>4, <2>7, <2>14 DEF StoreOK
    <2>17. PcOK(r)'
        BY <1>0, <2>0, <2>1, <2>2, <2>4, <2>7, <2>8, <2>9, <2>13 DEF PcOK
    <2>18. ExposuresOK(r)'
        <3>n. PICK N, s, u :
                  N \in Nat /\ N = n(r) /\ s = exposures[r] /\ u = exposures'[r]
            BY <2>2
        <3>0. /\ \A i \in 1..N : s[i].first = Start(s, i) /\ s[i].count = 3 * Required[i]
              /\ store[r].used = Start(s, N + 1)
            BY <1>0, <2>2, <3>n DEF RoleOK, ExposuresOK, Intervals
        <3>1. Start(u, N + 2) = t.used
            <4>1. (N + 2) - 1 = N + 1 /\ N + 2 # 1
                BY <3>n
            <4> QED
                BY <2>4, <2>6, <2>14, <3>n, <4>1 DEF Start
        <3>2. ASSUME NEW i \in 1..(N + 1)
              PROVE  Start(u, i) = Start(s, i)
            <4>1. i # 1 => i - 1 \in 1..N
                BY <3>n
            <4> QED
                BY <2>14, <3>n, <4>1 DEF Start
        <3>3. ASSUME NEW i \in 1..(N + 1)
              PROVE  u[i].first = Start(u, i) /\ u[i].count = 3 * Required[i]
            <4>1. CASE i = N + 1
                BY <2>0, <2>6, <2>14, <3>n, <3>0, <3>2, <4>1
            <4>2. CASE i # N + 1
                <5>1. i \in 1..N
                    BY <3>n, <4>2
                <5> QED
                    BY <2>14, <3>n, <3>0, <3>2, <5>1
            <4> QED
                BY <4>1, <4>2
        <3>4. Len(u) = N + 1 /\ N + 1 <= ROOT_SLOTS /\ Len(u) + 1 = N + 2
            BY <1>0, <2>14, <3>n, RunAssumption
        <3> QED
            BY <2>7, <3>n, <3>1, <3>3, <3>4 DEF ExposuresOK, Intervals
    <2>19. RoleOK(r)'
        BY <1>1, <2>15, <2>16, <2>17, <2>18 DEF RoleOK
    <2> QED
        BY <2>11, <2>12, <2>19, RoleKept
<1> QED
    BY <1>2, <1>3

\* The receipt that closes the registry and one more root, and its acceptance.
Closes(receipt, r, root) == receipt = Append(RootsOf(accepted[r]), root)

\* What Pool::attempt's epilogue does to the store, the journal and the registry.
LEMMA PromoteFacts ==
    ASSUME TypeOK, NEW r \in Role, RoleOK(r), pc[r] \in {"waiting", "checking"},
           NEW root \in Roots, NEW receipt, Closes(receipt, r, root),
           NEW io \in Outcome, Promote(r, root, receipt, io)
    PROVE  /\ ~poisoned[r] /\ slot[r] = n(r) + 1 /\ n(r) < ROOT_SLOTS
           /\ receipt \in Receipts
           /\ durable' \in [Role -> Store!State]
           /\ \A q \in Role \ {r} : durable'[q] = durable[q]
           /\ durable'[r].attempts = durable[r].attempts
           /\ durable'[r].head = durable[r].head \/ durable'[r].head = receipt
           /\ UNCHANGED <<slot, cursor, exposures>>
           /\ io # "ok" => StopRole(r) /\ accepted' = accepted
           /\ io = "ok" =>
                 /\ store' = [store EXCEPT ![r] =
                        Store!Apply([store[r] EXCEPT !.pending = TRUE],
                                    Store!AcceptRecord(store[r], receipt))]
                 /\ durable'[r].head = receipt
                 /\ accepted' = [accepted EXCEPT ![r] =
                        Append(@, [root |-> root, receipt |-> receipt])]
                 /\ live' = [live EXCEPT ![r] = slot[r] < ROOT_SLOTS]
                 /\ pc' = [pc EXCEPT ![r] = "idle"]
                 /\ pending' = IF r = "P" THEN NoPending ELSE pending
                 /\ request' = IF r = "V" THEN NoRequest ELSE request
                 /\ UNCHANGED poisoned
<1>1. ~poisoned[r]
    BY DEF Promote, Journal
<1>2. /\ slot[r] = n(r) + 1 /\ n(r) < ROOT_SLOTS /\ n(r) \in Nat
      /\ durable[r] \in Store!State /\ accepted[r] \in Seq(Accepted)
    BY DEF RoleOK, PcOK, TypeOK, n
<1>3. receipt \in Receipts
    <2>1. RootsOf(accepted[r]) \in Seq(Roots) /\ Len(RootsOf(accepted[r])) = n(r)
        BY <1>2, RootsOfSeq DEF n
    <2>2. receipt \in Seq(Roots) /\ Len(receipt) = n(r) + 1
        BY <2>1, AppendProperties DEF Closes
    <2>3. Len(receipt) <= ROOT_SLOTS
        BY <1>2, <2>2, RunAssumption
    <2> QED
        BY <2>2, <2>3, ReceiptsAreSeqs
<1>4. PICK rec : rec = Store!AcceptRecord(store[r], receipt)
    OBVIOUS
<1>5. rec.kind = "accept" /\ rec.digest = receipt
    BY <1>4 DEF Store!AcceptRecord
<1>6. durable' = IF io = "lost" THEN durable
                 ELSE [durable EXCEPT ![r] = Store!Apply(durable[r], rec)]
    BY <1>4 DEF Promote, Journal
<1>7. PICK t : t = Store!Apply(durable[r], rec)
    OBVIOUS
<1>8. t \in Store!State /\ t.head = receipt /\ t.attempts = durable[r].attempts
    BY <1>2, <1>3, <1>5, <1>7, ApplyAccept
<1>9. /\ durable' \in [Role -> Store!State]
      /\ \A q \in Role \ {r} : durable'[q] = durable[q]
      /\ durable'[r] = IF io = "lost" THEN durable[r] ELSE t
    BY <1>6, <1>7, <1>8 DEF TypeOK
<1>10. UNCHANGED <<slot, cursor, exposures>>
    BY DEF Promote
<1>11. io # "ok" => StopRole(r) /\ accepted' = accepted
    BY DEF Promote
<1>12. ASSUME io = "ok"
       PROVE  /\ store' = [store EXCEPT ![r] =
                     Store!Apply([store[r] EXCEPT !.pending = TRUE], rec)]
              /\ accepted' = [accepted EXCEPT ![r] =
                     Append(@, [root |-> root, receipt |-> receipt])]
              /\ live' = [live EXCEPT ![r] = slot[r] < ROOT_SLOTS]
              /\ pc' = [pc EXCEPT ![r] = "idle"]
              /\ pending' = IF r = "P" THEN NoPending ELSE pending
              /\ request' = IF r = "V" THEN NoRequest ELSE request
              /\ UNCHANGED poisoned
    BY <1>4, <1>12 DEF Promote
<1> QED
    BY <1>1, <1>2, <1>3, <1>4, <1>8, <1>9, <1>10, <1>11, <1>12

\* An acceptance keeps both roles' own invariants and the types.
LEMMA PromoteKeeps ==
    ASSUME TypeOK, \A q \in Role : RoleOK(q), NEW r \in Role,
           pc[r] \in {"waiting", "checking"},
           NEW root \in Roots, NEW receipt, Closes(receipt, r, root),
           NEW io \in Outcome, Promote(r, root, receipt, io),
           acceptances' \subseteq [root : Roots, receipt : Receipts, slot : 0..ROOT_SLOTS]
    PROVE  TypeOK' /\ \A q \in Role : RoleOK(q)'
<1>0. /\ ~poisoned[r] /\ slot[r] = n(r) + 1 /\ n(r) < ROOT_SLOTS
      /\ receipt \in Receipts
      /\ durable' \in [Role -> Store!State]
      /\ \A q \in Role \ {r} : durable'[q] = durable[q]
      /\ durable'[r].attempts = durable[r].attempts
      /\ durable'[r].head = durable[r].head \/ durable'[r].head = receipt
      /\ UNCHANGED <<slot, cursor, exposures>>
      /\ io # "ok" => StopRole(r) /\ accepted' = accepted
    <2>1. RoleOK(r)
        OBVIOUS
    <2>2. /\ ~poisoned[r] /\ slot[r] = n(r) + 1 /\ n(r) < ROOT_SLOTS
          /\ receipt \in Receipts
          /\ durable' \in [Role -> Store!State]
          /\ durable'[r].attempts = durable[r].attempts
          /\ durable'[r].head = durable[r].head \/ durable'[r].head = receipt
        BY <2>1, PromoteFacts
    <2>3. \A q \in Role \ {r} : durable'[q] = durable[q]
        BY <2>1, PromoteFacts
    <2>4. /\ UNCHANGED <<slot, cursor, exposures>>
          /\ io # "ok" => StopRole(r) /\ accepted' = accepted
        BY DEF Promote
    <2> QED
        BY <2>2, <2>3, <2>4
<1>1. CASE io # "ok"
    <2>1. TypeOK'
        BY <1>0, <1>1, StopTypes DEF TypeOK
    <2>2. HeadOK(r)'
        BY <1>0, <1>1 DEF RoleOK, HeadOK, StoreOK, Closes
    <2>3. RoleOK(r)'
        BY <1>0, <1>1, <2>2, StopKeeps
    <2>4. \A q \in Role \ {r} : Same(q)
        BY <1>0, <1>1, StopTypes DEF Same
    <2> QED
        BY <2>1, <2>3, <2>4, RoleKept
<1>2. CASE io = "ok"
    <2>0. PICK rec, s, x : /\ rec = Store!AcceptRecord(store[r], receipt)
                           /\ s = [store[r] EXCEPT !.pending = TRUE]
                           /\ x = [root |-> root, receipt |-> receipt]
        OBVIOUS
    <2>1. /\ store' = [store EXCEPT ![r] = Store!Apply(s, rec)]
          /\ durable'[r].head = receipt
          /\ accepted' = [accepted EXCEPT ![r] = Append(@, x)]
          /\ live' = [live EXCEPT ![r] = slot[r] < ROOT_SLOTS]
          /\ pc' = [pc EXCEPT ![r] = "idle"]
          /\ pending' = IF r = "P" THEN NoPending ELSE pending
          /\ UNCHANGED poisoned
        <3>1. RoleOK(r)
            OBVIOUS
        <3> QED
            BY <1>2, <2>0, <3>1, PromoteFacts
    <2>2. /\ store[r] \in Store!State /\ n(r) \in Nat /\ accepted[r] \in Seq(Accepted)
          /\ store[r].attempts = n(r) + 1 /\ cursor[r] = store[r].used
          /\ Len(exposures[r]) = n(r) + 1 /\ durable[r].attempts = n(r) + 1
          /\ store[r].fixed_run /\ store[r].setups = 1 /\ store[r].rows = Capacity
          /\ store[r].used <= Capacity
        <3>1. /\ store[r].attempts = n(r) + 1 /\ cursor[r] = store[r].used
            BY DEF RoleOK, PcOK
        <3>2. /\ Len(exposures[r]) = store[r].attempts
              /\ durable[r].attempts = store[r].attempts
              /\ store[r].fixed_run /\ store[r].setups = 1 /\ store[r].rows = Capacity
              /\ store[r].used <= Capacity
            BY <1>0 DEF RoleOK, StoreOK
        <3> QED
            BY <3>1, <3>2 DEF TypeOK, n
    <2>3. PICK t : t = Store!Apply(s, rec)
        OBVIOUS
    <2>4. /\ t \in Store!State /\ t.fixed_run = store[r].fixed_run
          /\ t.setups = 1 /\ t.rows = Capacity /\ t.head = receipt
          /\ t.used = store[r].used /\ t.attempts = n(r) + 1
        <3>1. /\ s \in Store!State /\ s.fixed_run = store[r].fixed_run
              /\ s.setups = store[r].setups /\ s.rows = store[r].rows
              /\ s.used = store[r].used /\ s.attempts = store[r].attempts
            BY <2>0, <2>2 DEF Store!State
        <3>2. rec.kind = "accept" /\ rec.digest = receipt
            BY <2>0 DEF Store!AcceptRecord
        <3>3. /\ t \in Store!State /\ t.fixed_run = s.fixed_run
              /\ t.setups = s.setups /\ t.rows = s.rows /\ t.head = receipt
              /\ t.used = s.used /\ t.attempts = s.attempts
            BY <1>0, <2>3, <3>1, <3>2, ApplyAccept
        <3> QED
            BY <2>2, <3>1, <3>3
    <2>5. x \in Accepted /\ x.root = root /\ x.receipt = receipt
        BY <1>0, <2>0 DEF Accepted
    <2>6. /\ store' \in [Role -> Store!State] /\ store'[r] = t
          /\ \A q \in Role \ {r} : store'[q] = store[q]
        BY <2>1, <2>3, <2>4 DEF TypeOK
    <2>7. /\ live' \in [Role -> BOOLEAN]
          /\ live'[r] <=> n(r) + 1 < ROOT_SLOTS
          /\ \A q \in Role \ {r} : live'[q] = live[q]
        <3>1. CASE n(r) + 1 < ROOT_SLOTS
            <4>1. live' = [live EXCEPT ![r] = TRUE]
                BY <1>0, <2>1, <3>1
            <4> QED
                BY <3>1, <4>1 DEF TypeOK
        <3>2. CASE ~(n(r) + 1 < ROOT_SLOTS)
            <4>0. (slot[r] < ROOT_SLOTS) = FALSE
                BY <1>0, <3>2
            <4>1. live' = [live EXCEPT ![r] = FALSE]
                BY <2>1, <4>0, Zenon
            <4> QED
                BY <3>2, <4>1 DEF TypeOK
        <3> QED
            BY <3>1, <3>2
    <2>8. /\ pc' \in [Role -> {"idle", "burned", "waiting", "checking"}] /\ pc'[r] = "idle"
          /\ \A q \in Role \ {r} : pc'[q] = pc[q]
        BY <2>1 DEF TypeOK
    <2>9. /\ accepted' \in [Role -> Seq(Accepted)]
          /\ accepted'[r] = Append(accepted[r], x)
          /\ \A q \in Role \ {r} : accepted'[q] = accepted[q]
        <3>1. Append(accepted[r], x) \in Seq(Accepted)
            BY <2>2, <2>5
        <3> QED
            BY <2>1, <3>1 DEF TypeOK
    <2>10. TypeOK'
        BY <1>0, <2>1, <2>6, <2>7, <2>8, <2>9 DEF TypeOK
    <2>11. \A q \in Role \ {r} : Same(q)
        BY <1>0, <2>1, <2>6, <2>7, <2>8, <2>9 DEF Same
    <2>12. /\ Len(accepted'[r]) = n(r) + 1 /\ accepted'[r][n(r) + 1] = x
           /\ accepted'[r] # <<>>
        <3>1. /\ Len(Append(accepted[r], x)) = Len(accepted[r]) + 1
              /\ Append(accepted[r], x)[Len(accepted[r]) + 1] = x
              /\ Append(accepted[r], x) # <<>>
            BY <2>2, <2>5, AppendProperties
        <3> QED
            BY <2>9, <3>1 DEF n
    <2>13. n(r)' = n(r) + 1
        BY <2>12 DEF n
    <2>14. RootsOf(accepted'[r]) = receipt
        BY <2>2, <2>5, <2>9, RootsOfAppend DEF Closes
    <2>15. LastReceipt(r)' = receipt
        BY <2>5, <2>12 DEF LastReceipt
    <2>16. ReceiptsOK(r)' /\ HeadOK(r)'
        <3>1. n(r) + 1 <= ROOT_SLOTS
            BY <1>0, <2>2, RunAssumption
        <3> QED
            BY <2>1, <2>13, <2>14, <2>15, <3>1 DEF ReceiptsOK, HeadOK
    <2>17. StoreOK(r)'
        BY <1>0, <2>1, <2>2, <2>4, <2>6, <2>14 DEF StoreOK
    <2>18. PcOK(r)'
        <3>1. /\ ~poisoned'[r] /\ pc'[r] = "idle" /\ slot'[r] = n(r) + 1
              /\ cursor'[r] = store'[r].used /\ store'[r].attempts = n(r) + 1
            BY <1>0, <2>1, <2>2, <2>4, <2>6, <2>8
        <3> QED
            BY <2>7, <2>13, <3>1 DEF PcOK
    <2>19. ExposuresOK(r)'
        BY <1>0, <2>1, <2>4, <2>6 DEF RoleOK, ExposuresOK
    <2>20. RoleOK(r)'
        BY <2>16, <2>17, <2>18, <2>19 DEF RoleOK
    <2> QED
        BY <2>10, <2>11, <2>20, RoleKept
<1> QED
    BY <1>1, <1>2

\* The registry's move to the next slot, in the callback of a burn.
LEMMA AdvanceFacts ==
    ASSUME TypeOK, NEW r \in Role, RoleOK(r), pc[r] = "burned", Advance(r)
    PROVE  /\ slot' \in [Role -> 0..ROOT_SLOTS]
           /\ cursor' \in [Role -> 0..Capacity]
           /\ slot'[r] = n(r) + 1
           /\ cursor'[r] = store[r].used
           /\ \A q \in Role \ {r} : slot'[q] = slot[q] /\ cursor'[q] = cursor[q]
<1>1. /\ slot[r] = n(r) /\ n(r) < ROOT_SLOTS /\ n(r) \in Nat /\ ~poisoned[r]
      /\ cursor[r] + 3 * Required[n(r) + 1] = store[r].used
      /\ store[r].used <= Capacity /\ store[r] \in Store!State
    BY DEF RoleOK, PcOK, StoreOK, TypeOK, n
<1>2. store[r].used \in 0..Capacity
    BY <1>1, RunAssumption DEF Store!State
<1>3. n(r) + 1 \in 0..ROOT_SLOTS
    BY <1>1, RunAssumption
<1>4. slot' = [slot EXCEPT ![r] = n(r) + 1] /\ cursor' = [cursor EXCEPT ![r] = store[r].used]
    BY <1>1 DEF Advance, RequiredNow
<1> QED
    BY <1>2, <1>3, <1>4 DEF TypeOK

\* After it, the role waits for the other side or checks what it got.
LEMMA AdvanceKeeps ==
    ASSUME TypeOK, \A q \in Role : RoleOK(q), NEW r \in Role, pc[r] = "burned", Advance(r),
           NEW x \in {"waiting", "checking"}, pc' = [pc EXCEPT ![r] = x],
           UNCHANGED <<store, durable, poisoned, accepted, live, exposures>>
    PROVE  \A q \in Role : RoleOK(q)'
<1>1. /\ slot'[r] = n(r) + 1
      /\ cursor'[r] = store[r].used
      /\ \A q \in Role \ {r} : slot'[q] = slot[q] /\ cursor'[q] = cursor[q]
    BY AdvanceFacts
<1>2. pc'[r] = x /\ \A q \in Role \ {r} : pc'[q] = pc[q]
    BY DEF TypeOK
<1>3. \A q \in Role \ {r} : Same(q)
    BY <1>1, <1>2 DEF Same
<1>4. n(r)' = n(r)
    BY DEF n
<1>5. RoleOK(r)
    OBVIOUS
<1>6. ReceiptsOK(r)' /\ HeadOK(r)' /\ StoreOK(r)' /\ ExposuresOK(r)'
    BY <1>4, <1>5 DEF RoleOK, ReceiptsOK, HeadOK, StoreOK, ExposuresOK, LastReceipt
<1>7. PcOK(r)'
    BY <1>1, <1>2, <1>4, <1>5 DEF RoleOK, PcOK
<1> QED
    BY <1>3, <1>6, <1>7, RoleKept DEF RoleOK

-----------------------------------------------------------------------------
(* Every step of either role *)

\* Two runs of consecutive intervals that agree before slot i agree on slot i.
LEMMA IntervalsAgree ==
    ASSUME NEW s \in Seq([first : Nat, count : Nat]), NEW t \in Seq([first : Nat, count : Nat]),
           Intervals(s), Intervals(t),
           \A i \in 1..(Len(s) - 1) : i <= Len(t) => s[i] = t[i]
    PROVE  \A i \in 1..Len(s) : i <= Len(t) => s[i] = t[i]
<1>1. SUFFICES ASSUME NEW i \in 1..Len(s), i <= Len(t) PROVE s[i] = t[i]
    OBVIOUS
<1>2. Len(s) \in Nat /\ Len(t) \in Nat /\ i \in 1..Len(t)
    BY <1>1
<1>3. s[i] \in [first : Nat, count : Nat] /\ t[i] \in [first : Nat, count : Nat]
    BY <1>1, <1>2, ElementOfSeq
<1>4. i # 1 => s[i - 1] = t[i - 1]
    BY <1>1, <1>2
<1>5. Start(s, i) = Start(t, i)
    BY <1>4 DEF Start
<1>6. s[i].first = t[i].first /\ s[i].count = t[i].count
    BY <1>2, <1>5 DEF Intervals
<1>7. \A x \in [first : Nat, count : Nat] : x = [first |-> x.first, count |-> x.count]
    OBVIOUS
<1>8. /\ s[i] = [first |-> s[i].first, count |-> s[i].count]
      /\ t[i] = [first |-> t[i].first, count |-> t[i].count]
    BY <1>3, <1>7
<1> QED
    BY <1>6, <1>8

\* One more exposure of one role keeps the intervals of the two in agreement.
LEMMA ExposuresKept ==
    ASSUME TypeOK, TypeOK', NEW r \in Role, NEW q \in Role \ {r},
           ExposuresOK(r)', ExposuresOK(q)',
           exposures'[q] = exposures[q],
           \/ exposures'[r] = exposures[r]
           \/ \E e \in [first : Nat, count : Nat] : exposures'[r] = Append(exposures[r], e),
           \A i \in 1..Len(exposures[r]) :
               i <= Len(exposures[q]) => exposures[r][i] = exposures[q][i]
    PROVE  \A i \in 1..Len(exposures'[r]) :
               i <= Len(exposures'[q]) => exposures'[r][i] = exposures'[q][i]
<1>1. CASE exposures'[r] = exposures[r]
    BY <1>1
<1>2. CASE \E e \in [first : Nat, count : Nat] : exposures'[r] = Append(exposures[r], e)
    <2>1. /\ exposures[r] \in Seq([first : Nat, count : Nat])
          /\ exposures'[r] \in Seq([first : Nat, count : Nat])
          /\ exposures'[q] \in Seq([first : Nat, count : Nat])
          /\ Intervals(exposures'[r]) /\ Intervals(exposures'[q])
        BY DEF TypeOK, ExposuresOK
    <2>2. /\ Len(exposures'[r]) = Len(exposures[r]) + 1
          /\ \A i \in 1..Len(exposures[r]) : exposures'[r][i] = exposures[r][i]
        BY <1>2, <2>1
    <2>3. \A i \in 1..(Len(exposures'[r]) - 1) :
             i <= Len(exposures'[q]) => exposures'[r][i] = exposures'[q][i]
        BY <2>1, <2>2
    <2> QED
        BY <2>1, <2>3, IntervalsAgree
<1> QED
    BY <1>1, <1>2

\* A role that stops, on whatever error, disturbs nothing the other relies on.
LEMMA StopStep ==
    ASSUME IInv, NEW r \in Role, StopRole(r),
           UNCHANGED <<durable, accepted, sent, acceptances, exposures>>,
           slot' \in [Role -> 0..ROOT_SLOTS], cursor' \in [Role -> 0..Capacity],
           \A q \in Role \ {r} : slot'[q] = slot[q] /\ cursor'[q] = cursor[q]
    PROVE  IInv'
<1>0. /\ \A q \in Role \ {r} : /\ store'[q] = store[q] /\ poisoned'[q] = poisoned[q]
                               /\ live'[q] = live[q] /\ pc'[q] = pc[q]
      /\ poisoned'[r] /\ pc'[r] = "idle"
    BY StopTypes DEF IInv
<1>1. TypeOK'
    BY StopTypes DEF IInv, TypeOK
<1>2. \A q \in Role : RoleOK(q)'
    <2>1. HeadOK(r)'
        BY DEF IInv, RoleOK, HeadOK
    <2>2. RoleOK(r)'
        BY <2>1, StopKeeps DEF IInv
    <2>3. \A q \in Role \ {r} : Same(q)
        BY <1>0 DEF Same
    <2> QED
        BY <2>2, <2>3, RoleKept DEF IInv
<1>3. PendingOK'
    <2>1. CASE r = "P"
        BY <1>0, <2>1 DEF PendingOK
    <2>2. CASE r # "P"
        <3>1. pc'["P"] = pc["P"] /\ pending' = pending
            BY <1>0, <2>2 DEF Role, StopRole
        <3> QED
            BY <3>1 DEF IInv, PendingOK
    <2> QED
        BY <2>1, <2>2
<1>4. n("P")' = n("P") /\ n("V")' = n("V")
    BY DEF n
<1>5. RequestOK'
    <2>1. CASE r = "V"
        BY <1>0, <2>1 DEF RequestOK
    <2>2. CASE r # "V"
        <3>1. pc'["V"] = pc["V"] /\ request' = request
            BY <1>0, <2>2 DEF Role, StopRole
        <3> QED
            BY <1>4, <3>1 DEF IInv, RequestOK
    <2> QED
        BY <2>1, <2>2
<1>6. SentOK'
    <2>1. ~poisoned'["P"] /\ pc'["P"] # "waiting" => ~poisoned["P"] /\ pc["P"] # "waiting"
        BY <1>0 DEF Role
    <2> QED
        BY <1>4, <2>1 DEF IInv, SentOK
<1>7. AcceptancesOK' /\ AgreeOK' /\ ProverBurnedFirst'
    BY <1>4 DEF IInv, AcceptancesOK, AgreeOK, ProverBurnedFirst
<1> QED
    BY <1>1, <1>2, <1>3, <1>5, <1>6, <1>7 DEF IInv

\* Every error path of respond_with_pool and verify_with_pool.
LEMMA StopSteps ==
    ASSUME IInv, RespondFails \/ ProveFails \/ AcceptanceFails \/ VerifyFails \/ VerifyRejects
    PROVE  IInv'
<1>0. /\ slot \in [Role -> 0..ROOT_SLOTS] /\ cursor \in [Role -> 0..Capacity]
      /\ "P" \in Role /\ "V" \in Role /\ TypeOK /\ RoleOK("P")
    BY DEF IInv, TypeOK, Role
<1>1. CASE RespondFails \/ AcceptanceFails
    <2>1. StopRole("P") /\ UNCHANGED <<durable, accepted, sent, acceptances, exposures, slot, cursor>>
        BY <1>1 DEF RespondFails, AcceptanceFails, registry, transport
    <2> QED
        BY <1>0, <2>1, StopStep
<1>2. CASE VerifyFails \/ VerifyRejects
    <2>1. StopRole("V") /\ UNCHANGED <<durable, accepted, sent, acceptances, exposures, slot, cursor>>
        BY <1>2 DEF VerifyFails, VerifyRejects, registry, transport
    <2> QED
        BY <1>0, <2>1, StopStep
<1>3. CASE ProveFails
    <2>1. /\ pc["P"] = "burned" /\ StopRole("P")
          /\ UNCHANGED <<durable, accepted, sent, acceptances, exposures>>
          /\ UNCHANGED <<slot, cursor>> \/ Advance("P")
        BY <1>3 DEF ProveFails, transport
    <2>2. /\ slot' \in [Role -> 0..ROOT_SLOTS] /\ cursor' \in [Role -> 0..Capacity]
          /\ \A q \in Role \ {"P"} : slot'[q] = slot[q] /\ cursor'[q] = cursor[q]
        BY <1>0, <2>1, AdvanceFacts
    <2> QED
        BY <1>0, <2>1, <2>2, StopStep
<1> QED
    BY <1>1, <1>2, <1>3

\* Prover::respond_with_pool up to the burn.
LEMMA RespondStep ==
    ASSUME IInv, NEW io \in Outcome, Respond(io)
    PROVE  IInv'
<1>0. /\ TypeOK /\ "P" \in Role /\ "V" \in Role \ {"P"} /\ RoleOK("P")
      /\ \A q \in Role : RoleOK(q)
      /\ pc["P"] = "idle" /\ CheckPool("P") /\ Burn("P", request, io)
    BY DEF IInv, Respond, Role
<1>1. TypeOK' /\ \A q \in Role : RoleOK(q)'
    BY <1>0, BurnKeeps
<1>2. /\ ~poisoned["P"] /\ n("P") < ROOT_SLOTS
      /\ durable'["P"].attempts \in {n("P"), n("P") + 1}
      /\ UNCHANGED <<slot, cursor, accepted, sent, acceptances>>
    BY <1>0, BurnFacts
<1>3. durable'["V"] = durable["V"]
    BY <1>0, BurnFacts
<1>4. io # "ok" => StopRole("P") /\ exposures' = exposures
    BY <1>0, BurnFacts
<1>5. io = "ok" =>
          /\ pc' = [pc EXCEPT !["P"] = "burned"]
          /\ request' = request /\ pending' = pending /\ poisoned' = poisoned
          /\ exposures' = [exposures EXCEPT !["P"] = Append(@,
                 [first |-> store["P"].used, count |-> 3 * Required[n("P") + 1]])]
    BY <1>0, BurnFacts
<1>6. /\ n("P")' = n("P") /\ n("V")' = n("V") /\ n("P") \in Nat
      /\ durable["P"].attempts = n("P")
    BY <1>0, <1>2 DEF n, TypeOK, RoleOK, StoreOK, PcOK
<1>7. pc'["V"] = pc["V"] /\ request' = request
    BY <1>0, <1>4, <1>5 DEF StopRole, TypeOK
<1>8. pc'["P"] \in {"idle", "burned"}
    BY <1>0, <1>4, <1>5 DEF StopRole, TypeOK
<1>9. PendingOK'
    BY <1>8 DEF PendingOK
<1>10. RequestOK'
    BY <1>2, <1>6, <1>7 DEF IInv, RequestOK
<1>11. SentOK'
    <2>1. \A m \in sent : Len(m.header.history) < n("P") /\ m.header.history \in Seq(Accepted)
        BY <1>0, <1>2 DEF IInv, SentOK
    <2>2. \A m \in sent : Len(m.header.history) < durable'["P"].attempts
        BY <1>2, <1>6, <2>1, LenProperties
    <2> QED
        BY <1>2, <1>6, <2>1, <2>2 DEF IInv, SentOK
<1>12. AcceptancesOK' /\ ProverBurnedFirst'
    <2>1. durable["V"].attempts \in Nat
        BY <1>0 DEF TypeOK, Store!State
    <2>2. ProverBurnedFirst'
        BY <1>2, <1>3, <1>6, <2>1 DEF IInv, ProverBurnedFirst
    <2> QED
        BY <1>2, <1>6, <2>2 DEF IInv, AcceptancesOK
<1>13. AgreeOK'
    <2>1. exposures'["V"] = exposures["V"]
        BY <1>0, <1>4, <1>5 DEF TypeOK
    <2>2. \/ exposures'["P"] = exposures["P"]
          \/ \E e \in [first : Nat, count : Nat] :
                exposures'["P"] = Append(exposures["P"], e)
        <3>1. CASE io # "ok"
            BY <1>4, <3>1
        <3>2. CASE io = "ok"
            <4>1. Required[n("P") + 1] \in Nat
                BY <1>2, <1>6, RunAssumption
            <4>2. store["P"].used \in Nat
                BY <1>0 DEF TypeOK, Store!State
            <4>3. [first |-> store["P"].used, count |-> 3 * Required[n("P") + 1]]
                        \in [first : Nat, count : Nat]
                BY <4>1, <4>2
            <4>4. exposures'["P"] = Append(exposures["P"],
                      [first |-> store["P"].used, count |-> 3 * Required[n("P") + 1]])
                BY <1>0, <1>5, <3>2 DEF TypeOK
            <4> QED
                BY <4>3, <4>4
        <3> QED
            BY <3>1, <3>2
    <2>3. ExposuresOK("P")' /\ ExposuresOK("V")'
        BY <1>0, <1>1 DEF RoleOK
    <2>4. \A i \in 1..Len(exposures["P"]) :
             i <= Len(exposures["V"]) => exposures["P"][i] = exposures["V"][i]
        BY DEF IInv, AgreeOK
    <2>5. \A i \in 1..Len(exposures'["P"]) :
             i <= Len(exposures'["V"]) => exposures'["P"][i] = exposures'["V"][i]
        BY <1>0, <1>1, <2>1, <2>2, <2>3, <2>4, ExposuresKept
    <2> QED
        BY <1>2, <1>6, <2>5 DEF IInv, AgreeOK
<1> QED
    BY <1>1, <1>9, <1>10, <1>11, <1>12, <1>13 DEF IInv

\* The digest that closes a header made on the role's own registry.
LEMMA ReceiptCloses ==
    ASSUME NEW r \in Role, RoleOK(r), NEW root, NEW h,
           h.history = accepted[r], h.root = root
    PROVE  ReceiptOf(h) = Append(RootsOf(accepted[r]), root)
BY DEF RoleOK, ReceiptsOK, LastReceipt, ReceiptOf

\* The prover's callback: it advances the registry, proves and sends.
LEMMA ProveStep ==
    ASSUME IInv, NEW root \in Roots, Prove(root)
    PROVE  IInv'
<1>0. /\ TypeOK /\ "P" \in Role /\ "V" \in Role \ {"P"} /\ RoleOK("P")
      /\ \A q \in Role : RoleOK(q)
      /\ pc["P"] = "burned" /\ Advance("P")
      /\ pc' = [pc EXCEPT !["P"] = "waiting"]
      /\ UNCHANGED <<store, durable, poisoned, accepted, live, attempt, request,
                     acceptances, exposures>>
    BY DEF IInv, Prove, Role
<1>1. \A q \in Role : RoleOK(q)'
    BY <1>0, AdvanceKeeps
<1>2. PICK h : h = Header("P", root)
    OBVIOUS
<1>3. /\ h.history = accepted["P"] /\ h.root = root
      /\ pending' = [root |-> root, receipt |-> ReceiptOf(h)]
      /\ sent' = sent \cup {[root |-> root, header |-> h]}
    BY <1>2 DEF Prove, Header
<1>4. ReceiptOf(h) = Append(RootsOf(accepted["P"]), root)
    BY <1>0, <1>3, ReceiptCloses
<1>5. /\ n("P") \in Nat /\ n("P") < ROOT_SLOTS /\ accepted["P"] \in Seq(Accepted)
      /\ ~poisoned["P"] /\ durable["P"].attempts = n("P") + 1
    BY <1>0 DEF RoleOK, PcOK, StoreOK, TypeOK, n
<1>6. ReceiptOf(h) \in Receipts
    <2>1. RootsOf(accepted["P"]) \in Seq(Roots) /\ Len(RootsOf(accepted["P"])) = n("P")
        BY <1>5, RootsOfSeq DEF n
    <2>2. /\ Append(RootsOf(accepted["P"]), root) \in Seq(Roots)
          /\ Len(Append(RootsOf(accepted["P"]), root)) = n("P") + 1
        BY <2>1, AppendProperties
    <2>3. n("P") + 1 <= ROOT_SLOTS
        BY <1>5, RunAssumption
    <2> QED
        BY <1>4, <2>2, <2>3, ReceiptsAreSeqs
<1>7. TypeOK'
    <2>1. slot' \in [Role -> 0..ROOT_SLOTS] /\ cursor' \in [Role -> 0..Capacity]
        BY <1>0, AdvanceFacts
    <2>2. pc' \in [Role -> {"idle", "burned", "waiting", "checking"}]
        BY <1>0 DEF TypeOK
    <2>3. pending' \in Accepted
        BY <1>3, <1>6 DEF Accepted
    <2> QED
        BY <1>0, <2>1, <2>2, <2>3 DEF TypeOK
<1>8. n("P")' = n("P") /\ n("V")' = n("V")
    BY <1>0 DEF n
<1>9. pc'["P"] = "waiting" /\ pc'["V"] = pc["V"]
    BY <1>0 DEF TypeOK
<1>10. PendingOK'
    BY <1>0, <1>3, <1>4, <1>9 DEF PendingOK
<1>11. RequestOK'
    BY <1>0, <1>3, <1>8, <1>9 DEF IInv, RequestOK
<1>12. SentOK'
    <2>1. PICK new : new = [root |-> root, header |-> h]
        OBVIOUS
    <2>2. new.root = root /\ new.header.history = accepted["P"]
        BY <1>3, <2>1
    <2>3. Len(new.header.history) = n("P") /\ Len(new.header.history) < durable["P"].attempts
        BY <1>5, <2>2 DEF n
    <2>4. \A m \in sent :
             /\ m.root \in Roots
             /\ m.header.history \in Seq(Accepted)
             /\ Len(m.header.history) < n("P")
             /\ Len(m.header.history) < durable["P"].attempts
             /\ \A i \in 1..Len(m.header.history) : m.header.history[i] = accepted["P"][i]
        BY <1>0, <1>5 DEF IInv, SentOK
    <2>5. \A m \in sent : Len(m.header.history) # n("P") /\ Len(m.header.history) <= n("P")
        BY <1>5, <2>4, LenProperties
    <2>6. \A m1, m2 \in sent :
             Len(m1.header.history) = Len(m2.header.history) => m1.root = m2.root
        BY DEF IInv, SentOK
    <2>7. \A m \in sent' : m \in sent \/ m = new
        BY <1>3, <2>1
    <2>8. \A m \in sent' :
             /\ m.root \in Roots
             /\ m.header.history \in Seq(Accepted)
             /\ Len(m.header.history) <= n("P")
             /\ Len(m.header.history) < durable["P"].attempts
             /\ \A i \in 1..Len(m.header.history) : m.header.history[i] = accepted["P"][i]
        BY <1>5, <2>2, <2>3, <2>4, <2>5, <2>7
    <2>9. \A m1, m2 \in sent' :
             Len(m1.header.history) = Len(m2.header.history) => m1.root = m2.root
        BY <2>3, <2>5, <2>6, <2>7
    <2> QED
        BY <1>0, <1>8, <1>9, <2>8, <2>9 DEF SentOK
<1>13. AcceptancesOK' /\ ProverBurnedFirst'
    BY <1>0, <1>8 DEF IInv, AcceptancesOK, ProverBurnedFirst
<1>14. AgreeOK'
    BY <1>0, <1>3, <1>8 DEF IInv, AgreeOK
<1> QED
    BY <1>1, <1>7, <1>10, <1>11, <1>12, <1>13, <1>14 DEF IInv

\* The verifier's callback: it advances the registry.
LEMMA VerifyAdvancesStep ==
    ASSUME IInv, VerifyAdvances
    PROVE  IInv'
<1>0. /\ TypeOK /\ "V" \in Role /\ "P" \in Role \ {"V"} /\ RoleOK("V")
      /\ \A q \in Role : RoleOK(q)
      /\ pc["V"] = "burned" /\ Advance("V")
      /\ pc' = [pc EXCEPT !["V"] = "checking"]
      /\ UNCHANGED <<store, durable, poisoned, accepted, live, attempt, pending, request,
                     sent, acceptances, exposures>>
    BY DEF IInv, VerifyAdvances, Role, transport
<1>1. \A q \in Role : RoleOK(q)'
    BY <1>0, AdvanceKeeps
<1>2. TypeOK'
    <2>1. slot' \in [Role -> 0..ROOT_SLOTS] /\ cursor' \in [Role -> 0..Capacity]
        BY <1>0, AdvanceFacts
    <2>2. pc' \in [Role -> {"idle", "burned", "waiting", "checking"}]
        BY <1>0 DEF TypeOK
    <2> QED
        BY <1>0, <2>1, <2>2 DEF TypeOK
<1>3. n("P")' = n("P") /\ n("V")' = n("V")
    BY <1>0 DEF n
<1>4. pc'["V"] = "checking" /\ pc'["P"] = pc["P"]
    BY <1>0 DEF TypeOK
<1>5. PendingOK' /\ RequestOK'
    BY <1>0, <1>3, <1>4 DEF IInv, PendingOK, RequestOK
<1>6. SentOK'
    BY <1>0, <1>3, <1>4 DEF IInv, SentOK
<1>7. AcceptancesOK' /\ ProverBurnedFirst' /\ AgreeOK'
    BY <1>0, <1>3 DEF IInv, AcceptancesOK, ProverBurnedFirst, AgreeOK
<1> QED
    BY <1>1, <1>2, <1>5, <1>6, <1>7 DEF IInv

\* Verifier::verify_with_pool up to the burn.  A response whose root is new to
\* the verifier was made for a slot the verifier has not accepted, so the prover
\* has burned that slot.
LEMMA VerifyStep ==
    ASSUME IInv, NEW m \in sent, NEW io \in Outcome, Verify(m, io)
    PROVE  IInv'
<1>0. /\ TypeOK /\ "V" \in Role /\ "P" \in Role \ {"V"} /\ RoleOK("V")
      /\ \A q \in Role : RoleOK(q)
      /\ pc["V"] = "idle" /\ CheckPool("V") /\ HeaderOK("V", m.root)
    BY DEF IInv, Verify, Role
<1>1. PICK req : /\ req = [root |-> m.root, claimed |-> m.header,
                           header |-> Header("V", m.root)]
                 /\ Burn("V", req, io)
    BY DEF Verify
<1>2. TypeOK' /\ \A q \in Role : RoleOK(q)'
    BY <1>0, <1>1, BurnKeeps
<1>3. /\ ~poisoned["V"] /\ slot["V"] = n("V") /\ n("V") < ROOT_SLOTS
      /\ durable'["V"].attempts \in {n("V"), n("V") + 1}
      /\ UNCHANGED <<slot, cursor, accepted, sent, acceptances>>
    BY <1>0, <1>1, BurnFacts
<1>4. durable'["P"] = durable["P"]
    BY <1>0, <1>1, BurnFacts
<1>5. io # "ok" => StopRole("V") /\ exposures' = exposures
    BY <1>0, <1>1, BurnFacts
<1>6. io = "ok" =>
          /\ pc' = [pc EXCEPT !["V"] = "burned"]
          /\ request' = req /\ pending' = pending /\ poisoned' = poisoned
          /\ exposures' = [exposures EXCEPT !["V"] = Append(@,
                 [first |-> store["V"].used, count |-> 3 * Required[n("V") + 1]])]
    BY <1>0, <1>1, BurnFacts
<1>7. n("P")' = n("P") /\ n("V")' = n("V") /\ n("V") \in Nat /\ n("P") \in Nat
    BY <1>0, <1>3 DEF n, TypeOK
<1>8. /\ pc'["P"] = pc["P"] /\ pending' = pending /\ poisoned'["P"] = poisoned["P"]
      /\ pc'["V"] \in {"idle", "burned"}
    BY <1>0, <1>5, <1>6 DEF StopRole, TypeOK
<1>9. PendingOK'
    BY <1>3, <1>8 DEF IInv, PendingOK
<1>10. m.root \in Roots
    BY DEF IInv, SentOK
<1>11. RequestOK'
    <2>1. CASE io # "ok"
        <3>1. pc'["V"] = "idle"
            BY <1>0, <1>5, <2>1 DEF StopRole, TypeOK
        <3> QED
            BY <3>1 DEF RequestOK
    <2>2. CASE io = "ok"
        <3>1. /\ request'.root = m.root /\ request'.claimed = m.header
              /\ request'.header.slot = n("V") /\ request'.header.history = accepted["V"]
              /\ request'.header.root = m.root
            BY <1>1, <1>3, <1>6, <2>2 DEF Header
        <3>2. \A i \in 1..n("V") : accepted["V"][i].root # m.root
            BY <1>0 DEF HeaderOK, n
        <3> QED
            BY <1>3, <1>7, <1>8, <1>10, <3>1, <3>2 DEF RequestOK
    <2> QED
        BY <2>1, <2>2
<1>12. SentOK'
    BY <1>3, <1>4, <1>7, <1>8 DEF IInv, SentOK
<1>13. AcceptancesOK'
    BY <1>3, <1>7 DEF IInv, AcceptancesOK
<1>14. ProverBurnedFirst'
    <2>0. PICK h \in Nat : h = Len(m.header.history)
        BY LenProperties DEF IInv, SentOK
    <2>1. h < durable["P"].attempts /\ durable["P"].attempts \in Nat
        BY <1>0, <2>0 DEF IInv, SentOK, TypeOK, Store!State
    <2>2. h >= n("V")
        <3>1. SUFFICES ASSUME h < n("V") PROVE FALSE
            BY <1>7, <2>0
        <3>2. h + 1 \in 1..n("V") /\ (h + 1) - 1 = h
            BY <1>7, <2>0, <3>1
        <3>3. PICK m2 \in sent : Len(m2.header.history) = h
                                 /\ m2.root = accepted["V"][h + 1].root
            BY <3>2 DEF IInv, AgreeOK
        <3>4. m.root = m2.root
            BY <2>0, <3>3 DEF IInv, SentOK
        <3> QED
            BY <1>0, <3>2, <3>3, <3>4 DEF HeaderOK, n
    <2> QED
        BY <1>3, <1>4, <1>7, <2>1, <2>2 DEF ProverBurnedFirst
<1>15. AgreeOK'
    <2>1. exposures'["P"] = exposures["P"]
        BY <1>0, <1>5, <1>6 DEF TypeOK
    <2>2. \/ exposures'["V"] = exposures["V"]
          \/ \E e \in [first : Nat, count : Nat] :
                exposures'["V"] = Append(exposures["V"], e)
        <3>1. CASE io # "ok"
            BY <1>5, <3>1
        <3>2. CASE io = "ok"
            <4>1. Required[n("V") + 1] \in Nat
                BY <1>3, <1>7, RunAssumption
            <4>2. store["V"].used \in Nat
                BY <1>0 DEF TypeOK, Store!State
            <4>3. [first |-> store["V"].used, count |-> 3 * Required[n("V") + 1]]
                        \in [first : Nat, count : Nat]
                BY <4>1, <4>2
            <4>4. exposures'["V"] = Append(exposures["V"],
                      [first |-> store["V"].used, count |-> 3 * Required[n("V") + 1]])
                BY <1>0, <1>6, <3>2 DEF TypeOK
            <4> QED
                BY <4>3, <4>4
        <3> QED
            BY <3>1, <3>2
    <2>3. ExposuresOK("P")' /\ ExposuresOK("V")'
        BY <1>0, <1>2 DEF RoleOK
    <2>4. \A i \in 1..Len(exposures["V"]) :
             i <= Len(exposures["P"]) => exposures["V"][i] = exposures["P"][i]
        <3>1. Len(exposures["V"]) \in Nat /\ Len(exposures["P"]) \in Nat
            BY <1>0 DEF TypeOK
        <3> QED
            BY <3>1 DEF IInv, AgreeOK
    <2>5. \A i \in 1..Len(exposures'["V"]) :
             i <= Len(exposures'["P"]) => exposures'["V"][i] = exposures'["P"][i]
        BY <1>0, <1>2, <2>1, <2>2, <2>3, <2>4, ExposuresKept
    <2>6. \A i \in 1..Len(exposures'["P"]) :
             i <= Len(exposures'["V"]) => exposures'["P"][i] = exposures'["V"][i]
        <3>1. Len(exposures'["V"]) \in Nat /\ Len(exposures'["P"]) \in Nat
            BY <1>0, <1>2 DEF TypeOK
        <3> QED
            BY <2>5, <3>1
    <2> QED
        BY <1>3, <1>7, <2>6 DEF IInv, AgreeOK
<1> QED
    BY <1>2, <1>9, <1>11, <1>12, <1>13, <1>14, <1>15 DEF IInv

\* A role's registry after a promotion: the same, or one entry longer.
LEMMA PromoteRegistry ==
    ASSUME TypeOK, NEW r \in Role, RoleOK(r), pc[r] \in {"waiting", "checking"},
           NEW root \in Roots, NEW receipt, Closes(receipt, r, root),
           NEW io \in Outcome, Promote(r, root, receipt, io)
    PROVE  /\ receipt \in Receipts /\ n(r) < ROOT_SLOTS /\ ~poisoned[r]
           /\ [root |-> root, receipt |-> receipt] \in Accepted
           /\ \A q \in Role \ {r} : /\ accepted'[q] = accepted[q] /\ durable'[q] = durable[q]
                                    /\ pc'[q] = pc[q] /\ poisoned'[q] = poisoned[q]
           /\ pc'[r] = "idle" /\ durable'[r].attempts = durable[r].attempts
           /\ exposures' = exposures
           /\ r # "V" => request' = request
           /\ r # "P" => pending' = pending
           /\ io # "ok" => poisoned'[r] /\ accepted' = accepted
           /\ io = "ok" =>
                 accepted'[r] = Append(accepted[r], [root |-> root, receipt |-> receipt])
<1>1. /\ receipt \in Receipts /\ n(r) < ROOT_SLOTS /\ ~poisoned[r]
      /\ durable'[r].attempts = durable[r].attempts /\ exposures' = exposures
    BY PromoteFacts
<1>2. \A q \in Role \ {r} : durable'[q] = durable[q]
    BY PromoteFacts
<1>3. io # "ok" => StopRole(r) /\ accepted' = accepted
    BY DEF Promote
<1>4. io = "ok" =>
          /\ accepted' = [accepted EXCEPT ![r] = Append(@, [root |-> root, receipt |-> receipt])]
          /\ pc' = [pc EXCEPT ![r] = "idle"]
          /\ pending' = IF r = "P" THEN NoPending ELSE pending
          /\ request' = IF r = "V" THEN NoRequest ELSE request
          /\ poisoned' = poisoned
    BY DEF Promote
<1>5. [root |-> root, receipt |-> receipt] \in Accepted
    BY <1>1 DEF Accepted
<1>6. CASE io # "ok"
    <2>1. /\ \A q \in Role \ {r} : poisoned'[q] = poisoned[q] /\ pc'[q] = pc[q]
          /\ poisoned'[r] /\ pc'[r] = "idle"
        BY <1>3, <1>6, StopTypes
    <2>2. /\ r # "V" => request' = request
          /\ r # "P" => pending' = pending
        BY <1>3, <1>6 DEF StopRole
    <2> QED
        BY <1>1, <1>2, <1>3, <1>5, <1>6, <2>1, <2>2
<1>7. CASE io = "ok"
    <2>1. /\ \A q \in Role \ {r} : accepted'[q] = accepted[q] /\ pc'[q] = pc[q]
          /\ pc'[r] = "idle"
          /\ accepted'[r] = Append(accepted[r], [root |-> root, receipt |-> receipt])
        BY <1>4, <1>7 DEF TypeOK
    <2> QED
        BY <1>1, <1>2, <1>4, <1>5, <1>7, <2>1
<1> QED
    BY <1>6, <1>7

\* What the prover promotes is the next entry of the verifier's registry.
LEMMA ProverPromotes ==
    ASSUME IInv, NEW a \in acceptances, NEW io \in Outcome, ProverAccepts(a, io)
    PROVE  /\ Closes(pending.receipt, "P", pending.root) /\ pending.root \in Roots
           /\ Promote("P", pending.root, pending.receipt, io)
           /\ pc["P"] = "waiting" /\ sent' = sent /\ acceptances' = acceptances
           /\ n("P") + 1 \in 1..n("V")
           /\ accepted["V"][n("P") + 1] =
                 [root |-> pending.root, receipt |-> pending.receipt]
<1>1. /\ Promote("P", pending.root, pending.receipt, io)
      /\ pc["P"] = "waiting" /\ sent' = sent /\ acceptances' = acceptances
      /\ a.receipt = pending.receipt /\ a.root = pending.root /\ a.slot = n("P")
    BY DEF ProverAccepts, CheckAcceptance, transport, n
<1>2. Closes(pending.receipt, "P", pending.root) /\ pending.root \in Roots
    BY <1>1 DEF IInv, PendingOK, Closes
<1>3. /\ a.slot + 1 \in 1..n("V")
      /\ accepted["V"][a.slot + 1] = [root |-> a.root, receipt |-> a.receipt]
    BY DEF IInv, AcceptancesOK
<1> QED
    BY <1>1, <1>2, <1>3

\* Prover::check_acceptance, the journal and the promotion.
LEMMA ProverAcceptsStep ==
    ASSUME IInv, NEW a \in acceptances, NEW io \in Outcome, ProverAccepts(a, io)
    PROVE  IInv'
<1>0. /\ TypeOK /\ "P" \in Role /\ "V" \in Role \ {"P"} /\ RoleOK("P")
      /\ \A q \in Role : RoleOK(q)
    BY DEF IInv, Role
<1>1. PICK root, receipt :
          /\ root \in Roots
          /\ root = pending.root /\ receipt = pending.receipt
          /\ Closes(receipt, "P", root) /\ Promote("P", root, receipt, io)
          /\ accepted["V"][n("P") + 1] = [root |-> root, receipt |-> receipt]
    BY ProverPromotes
<1>2. pc["P"] = "waiting" /\ sent' = sent /\ acceptances' = acceptances /\ n("P") + 1 \in 1..n("V")
    BY ProverPromotes
<1>3. TypeOK' /\ \A q \in Role : RoleOK(q)'
    <2>1. acceptances' \subseteq [root : Roots, receipt : Receipts, slot : 0..ROOT_SLOTS]
        BY <1>0, <1>2 DEF TypeOK
    <2> QED
        BY <1>0, <1>1, <1>2, <2>1, PromoteKeeps
<1>4. /\ [root |-> root, receipt |-> receipt] \in Accepted
      /\ accepted'["V"] = accepted["V"] /\ durable'["V"] = durable["V"]
      /\ pc'["V"] = pc["V"]
    BY <1>0, <1>1, <1>2, PromoteRegistry
<1>5. /\ pc'["P"] = "idle" /\ durable'["P"].attempts = durable["P"].attempts
      /\ exposures' = exposures /\ request' = request
    BY <1>0, <1>1, <1>2, PromoteRegistry
<1>6. /\ io # "ok" => poisoned'["P"] /\ accepted' = accepted
      /\ io = "ok" =>
            accepted'["P"] = Append(accepted["P"], [root |-> root, receipt |-> receipt])
    BY <1>0, <1>1, <1>2, PromoteRegistry
<1>7. /\ accepted["P"] \in Seq(Accepted) /\ n("P") \in Nat /\ n("V") \in Nat
      /\ n("V")' = n("V")
    BY <1>0, <1>4 DEF TypeOK, n
<1>8. PendingOK'
    BY <1>5 DEF PendingOK
<1>9. RequestOK'
    BY <1>2, <1>4, <1>5, <1>7 DEF IInv, RequestOK
<1>10. AcceptancesOK' /\ ProverBurnedFirst'
    BY <1>2, <1>4, <1>5, <1>7 DEF IInv, AcceptancesOK, ProverBurnedFirst
<1>11. \/ n("P")' = n("P") /\ accepted'["P"] = accepted["P"] /\ poisoned'["P"]
       \/ /\ n("P")' = n("P") + 1
          /\ \A i \in 1..n("P") : accepted'["P"][i] = accepted["P"][i]
          /\ accepted'["P"][n("P") + 1] = [root |-> root, receipt |-> receipt]
    <2>1. CASE io # "ok"
        BY <1>6, <2>1 DEF n
    <2>2. CASE io = "ok"
        BY <1>4, <1>6, <1>7, <2>2, AppendProperties DEF n
    <2> QED
        BY <2>1, <2>2
<1>12. SentOK'
    <2>1. \A m \in sent :
             /\ m.root \in Roots
             /\ m.header.history \in Seq(Accepted)
             /\ Len(m.header.history) \in Nat
             /\ Len(m.header.history) <= n("P")
             /\ Len(m.header.history) < durable["P"].attempts
             /\ \A i \in 1..Len(m.header.history) : m.header.history[i] = accepted["P"][i]
        BY LenProperties DEF IInv, SentOK
    <2>2. \A m1, m2 \in sent :
             Len(m1.header.history) = Len(m2.header.history) => m1.root = m2.root
        BY DEF IInv, SentOK
    <2>3. \A m \in sent : \A i \in 1..Len(m.header.history) :
             m.header.history[i] = accepted'["P"][i]
        BY <1>1, <1>7, <1>11, <2>1
    <2>4. \A m \in sent : /\ Len(m.header.history) <= n("P")'
                          /\ ~poisoned'["P"] => Len(m.header.history) < n("P")'
        BY <1>7, <1>11, <2>1
    <2> QED
        BY <1>2, <1>5, <2>1, <2>2, <2>3, <2>4 DEF SentOK
<1>13. AgreeOK'
    <2>1. n("P")' <= n("V") /\ n("V") <= n("P")' + 1
        BY <1>2, <1>7, <1>11 DEF IInv, AgreeOK
    <2>2. \A i \in 1..n("P")' : accepted'["P"][i] = accepted["V"][i]
        BY <1>1, <1>7, <1>11 DEF IInv, AgreeOK
    <2>3. /\ \A i \in 1..n("V") :
                \E m \in sent : Len(m.header.history) = i - 1 /\ m.root = accepted["V"][i].root
          /\ \A i \in 1..Len(exposures["P"]) :
                i <= Len(exposures["V"]) => exposures["P"][i] = exposures["V"][i]
        BY DEF IInv, AgreeOK
    <2> QED
        BY <1>2, <1>4, <1>5, <1>7, <2>1, <2>2, <2>3 DEF AgreeOK
<1> QED
    BY <1>3, <1>8, <1>9, <1>10, <1>12, <1>13 DEF IInv

\* A certificate the verifier accepts was made on its own registry, which the
\* prover has therefore confirmed.
LEMMA VerifierPromotes ==
    ASSUME IInv, NEW io \in Outcome, VerifierAccepts(io)
    PROVE  /\ n("V") = n("P") /\ request.root \in Roots /\ request.header.slot = n("V")
           /\ Closes(ReceiptOf(request.header), "V", request.root)
           /\ Promote("V", request.root, ReceiptOf(request.header), io)
           /\ pc["V"] = "checking" /\ sent' = sent
           /\ acceptances' = IF io = "ok"
                             THEN acceptances \cup {[root |-> request.root,
                                     receipt |-> ReceiptOf(request.header),
                                     slot |-> request.header.slot]}
                             ELSE acceptances
           /\ \A i \in 1..n("V") : accepted["V"][i].root # request.root
           /\ \E m \in sent : /\ Len(m.header.history) = n("V")
                              /\ m.root = request.root
<1>1. /\ Promote("V", request.root, ReceiptOf(request.header), io)
      /\ pc["V"] = "checking" /\ sent' = sent /\ request.claimed = request.header
      /\ acceptances' = IF io = "ok"
                        THEN acceptances \cup {[root |-> request.root,
                                receipt |-> ReceiptOf(request.header),
                                slot |-> request.header.slot]}
                        ELSE acceptances
    BY DEF VerifierAccepts
<1>2. /\ request.root \in Roots /\ request.header.slot = n("V")
      /\ request.header.history = accepted["V"] /\ request.header.root = request.root
      /\ \A i \in 1..n("V") : accepted["V"][i].root # request.root
      /\ \E m \in sent : m.root = request.root /\ m.header = request.claimed
    BY <1>1 DEF IInv, RequestOK
<1>3. PICK m \in sent : m.root = request.root /\ m.header.history = accepted["V"]
    BY <1>1, <1>2
<1>4. Len(m.header.history) = n("V")
    BY <1>3 DEF n
<1>5. n("V") = n("P")
    <2>1. n("V") \in Nat /\ n("P") \in Nat
        BY DEF IInv, TypeOK, Role, n
    <2>2. n("P") <= n("V")
        BY DEF IInv, AgreeOK
    <2>3. n("V") <= n("P")
        BY <1>4 DEF IInv, SentOK
    <2> QED
        BY <2>1, <2>2, <2>3
<1>6. Closes(ReceiptOf(request.header), "V", request.root)
    <2>1. "V" \in Role /\ RoleOK("V")
        BY DEF IInv, Role
    <2> QED
        BY <1>2, <2>1, ReceiptCloses DEF Closes
<1> QED
    BY <1>1, <1>2, <1>3, <1>4, <1>5, <1>6

\* verify_schedule, the journal, the promotion and the acceptance that leaves.
LEMMA VerifierAcceptsStep ==
    ASSUME IInv, NEW io \in Outcome, VerifierAccepts(io)
    PROVE  IInv'
<1>0. /\ TypeOK /\ "V" \in Role /\ "P" \in Role \ {"V"} /\ RoleOK("V")
      /\ \A q \in Role : RoleOK(q)
    BY DEF IInv, Role
<1>1. PICK root, receipt :
          /\ root \in Roots
          /\ root = request.root /\ receipt = ReceiptOf(request.header)
          /\ Closes(receipt, "V", root) /\ Promote("V", root, receipt, io)
    BY VerifierPromotes
<1>2. /\ n("V") = n("P") /\ pc["V"] = "checking" /\ sent' = sent
      /\ request.header.slot = n("V")
    BY VerifierPromotes
<1>3. PICK a : a = [root |-> root, receipt |-> receipt, slot |-> n("V")]
    OBVIOUS
<1>4. acceptances' = IF io = "ok" THEN acceptances \cup {a} ELSE acceptances
    BY <1>1, <1>2, <1>3, VerifierPromotes
<1>5. PICK m \in sent : Len(m.header.history) = n("V") /\ m.root = root
    BY <1>1, VerifierPromotes
<1>6. /\ receipt \in Receipts /\ n("V") < ROOT_SLOTS
      /\ [root |-> root, receipt |-> receipt] \in Accepted
    BY <1>0, <1>1, <1>2, PromoteRegistry
<1>7. /\ accepted'["P"] = accepted["P"] /\ durable'["P"] = durable["P"]
      /\ pc'["P"] = pc["P"] /\ poisoned'["P"] = poisoned["P"]
    BY <1>0, <1>1, <1>2, PromoteRegistry
<1>8. /\ pc'["V"] = "idle" /\ durable'["V"].attempts = durable["V"].attempts
      /\ exposures' = exposures /\ pending' = pending
    BY <1>0, <1>1, <1>2, PromoteRegistry
<1>9. /\ io # "ok" => poisoned'["V"] /\ accepted' = accepted
      /\ io = "ok" =>
            accepted'["V"] = Append(accepted["V"], [root |-> root, receipt |-> receipt])
    BY <1>0, <1>1, <1>2, PromoteRegistry
<1>10. /\ accepted["V"] \in Seq(Accepted) /\ n("P") \in Nat /\ n("V") \in Nat
       /\ n("P")' = n("P")
    BY <1>0, <1>7 DEF TypeOK, n
<1>11. TypeOK' /\ \A q \in Role : RoleOK(q)'
    <2>1. n("V") \in 0..ROOT_SLOTS
        BY <1>6, <1>10, RunAssumption
    <2>2. a \in [root : Roots, receipt : Receipts, slot : 0..ROOT_SLOTS]
        BY <1>1, <1>3, <1>6, <2>1
    <2>3. acceptances' \subseteq [root : Roots, receipt : Receipts, slot : 0..ROOT_SLOTS]
        BY <1>0, <1>4, <2>2 DEF TypeOK
    <2> QED
        BY <1>0, <1>1, <1>2, <2>3, PromoteKeeps
<1>12. PendingOK'
    BY <1>7, <1>8 DEF IInv, PendingOK
<1>13. RequestOK'
    BY <1>8 DEF RequestOK
<1>14. SentOK'
    BY <1>2, <1>7, <1>10 DEF IInv, SentOK
<1>15. ProverBurnedFirst'
    BY <1>7, <1>8 DEF IInv, ProverBurnedFirst
<1>16. \/ n("V")' = n("V") /\ accepted'["V"] = accepted["V"] /\ acceptances' = acceptances
       \/ /\ n("V")' = n("V") + 1
          /\ \A i \in 1..n("V") : accepted'["V"][i] = accepted["V"][i]
          /\ accepted'["V"][n("V") + 1] = [root |-> root, receipt |-> receipt]
          /\ acceptances' = acceptances \cup {a}
    <2>1. CASE io # "ok"
        BY <1>4, <1>9, <2>1 DEF n
    <2>2. CASE io = "ok"
        BY <1>4, <1>6, <1>9, <1>10, <2>2, AppendProperties DEF n
    <2> QED
        BY <2>1, <2>2
<1>17. AcceptancesOK'
    <2>0. \A b \in acceptances :
             /\ b.slot \in Nat
             /\ b.slot + 1 \in 1..n("V")
             /\ accepted["V"][b.slot + 1] = [root |-> b.root, receipt |-> b.receipt]
        <3>1. \A b \in acceptances : b.slot \in 0..ROOT_SLOTS
            BY <1>0 DEF TypeOK
        <3>2. \A b \in acceptances : b.slot \in Nat
            BY <3>1, RunAssumption
        <3> QED
            BY <3>2 DEF IInv, AcceptancesOK
    <2>1. a.slot = n("V") /\ a.root = root /\ a.receipt = receipt
        BY <1>3
    <2>2. ASSUME NEW b \in acceptances'
          PROVE  /\ b.slot + 1 \in 1..n("V")'
                 /\ accepted'["V"][b.slot + 1] = [root |-> b.root, receipt |-> b.receipt]
        BY <1>10, <1>16, <2>0, <2>1
    <2> QED
        BY <2>2 DEF AcceptancesOK
<1>18. AgreeOK'
    <2>0. /\ n("P") <= n("V")
          /\ \A i \in 1..n("P") : accepted["P"][i] = accepted["V"][i]
          /\ \A i \in 1..Len(exposures["P"]) :
                i <= Len(exposures["V"]) => exposures["P"][i] = exposures["V"][i]
          /\ \A i \in 1..n("V") :
                \E m1 \in sent : Len(m1.header.history) = i - 1
                                 /\ m1.root = accepted["V"][i].root
        BY DEF IInv, AgreeOK
    <2>1. n("P") <= n("V")' /\ n("V")' <= n("P") + 1
        BY <1>2, <1>10, <1>16
    <2>2. \A i \in 1..n("P") : accepted["P"][i] = accepted'["V"][i]
        BY <1>2, <1>10, <1>16, <2>0
    <2>3. ASSUME NEW i \in 1..n("V")'
          PROVE  \E m1 \in sent : Len(m1.header.history) = i - 1
                                  /\ m1.root = accepted'["V"][i].root
        <3>1. CASE i \in 1..n("V")
            BY <1>16, <2>0, <3>1
        <3>2. CASE i \notin 1..n("V")
            <4>1. i = n("V") + 1 /\ i - 1 = n("V") /\ accepted'["V"][i].root = root
                BY <1>10, <1>16, <3>2
            <4> QED
                BY <1>5, <4>1
        <3> QED
            BY <3>1, <3>2
    <2> QED
        BY <1>2, <1>7, <1>8, <1>10, <2>0, <2>1, <2>2, <2>3 DEF AgreeOK
<1> QED
    BY <1>11, <1>12, <1>13, <1>14, <1>15, <1>17, <1>18 DEF IInv

-----------------------------------------------------------------------------
(* The invariant of a run *)

\* The two pools as the bootstrap leaves them.
LEMMA FreshState ==
    ASSUME NEW s, s = Store!Apply(Store!DefaultState,
                                  Store!SetupRecord(Store!DefaultState, Capacity, TRUE))
    PROVE  /\ s \in Store!State /\ s.fixed_run /\ s.setups = 1 /\ s.rows = Capacity
           /\ s.used = 0 /\ s.attempts = 0 /\ s.head = <<>>
<1>1. s = [Store!DefaultState EXCEPT !.fixed_run = TRUE, !.setups = 1, !.rows = Capacity]
    BY DEF Store!Apply, Store!SetupRecord
<1>2. Zero \in Receipts
    <2>1. Zero \in Seq(Roots) /\ Len(Zero) = 0
        BY DEF Zero
    <2>2. 0 <= ROOT_SLOTS
        BY RunAssumption
    <2>3. Zero \in Seq(Roots) /\ Len(Zero) <= ROOT_SLOTS
        BY <2>1, <2>2
    <2> QED
        BY <2>3, ReceiptsAreSeqs
<1>3. Store!DefaultState \in Store!State
    BY <1>2 DEF Store!DefaultState, Store!State
<1>4. Capacity \in Nat
    BY RunAssumption
<1>5. \A d \in Store!State :
         [d EXCEPT !.fixed_run = TRUE, !.setups = 1, !.rows = Capacity] \in Store!State
    BY <1>4 DEF Store!State
<1> QED
    BY <1>1, <1>3, <1>5 DEF Store!DefaultState, Zero

\* Nothing is on the transport, and both registries are empty.
LEMMA InitEstablishes == Init => IInv
<1>1. SUFFICES ASSUME Init PROVE IInv
    OBVIOUS
<1>2. PICK fresh : /\ fresh = Store!Apply(Store!DefaultState,
                                Store!SetupRecord(Store!DefaultState, Capacity, TRUE))
                   /\ store = [r \in Role |-> fresh]
                   /\ durable = [r \in Role |-> fresh]
    BY <1>1 DEF Init
<1>3. /\ fresh \in Store!State /\ fresh.fixed_run /\ fresh.setups = 1
      /\ fresh.rows = Capacity /\ fresh.used = 0 /\ fresh.attempts = 0 /\ fresh.head = <<>>
    BY <1>2, FreshState
<1>4. /\ ROOT_SLOTS \in Nat \ {0} /\ Capacity \in Nat /\ "P" \in Role /\ "V" \in Role
      /\ 0 \in 0..ROOT_SLOTS /\ 0 \in 0..Capacity
    BY RunAssumption DEF Role
<1>5. \A r \in Role : /\ store[r] = fresh /\ durable[r] = fresh /\ ~poisoned[r]
                      /\ pc[r] = "idle" /\ slot[r] = 0 /\ cursor[r] = 0
                      /\ accepted[r] = <<>> /\ live[r] /\ exposures[r] = <<>>
    BY <1>1, <1>2 DEF Init
<1>6. RootsOf(<<>>) = <<>>
    <2>1. <<>> \in Seq(Accepted) /\ Len(<<>>) = 0 /\ <<>> \in Seq(Roots)
        OBVIOUS
    <2>2. PICK e : e = RootsOf(<<>>)
        OBVIOUS
    <2>3. e \in Seq(Roots) /\ Len(e) = 0
        BY <2>1, <2>2, RootsOfSeq
    <2>4. e = <<>>
        BY <2>3, EmptySeq
    <2> QED
        BY <2>2, <2>4
<1>7. TypeOK
    <2>1. store \in [Role -> Store!State] /\ durable \in [Role -> Store!State]
        BY <1>2, <1>3
    <2>2. /\ slot \in [Role -> 0..ROOT_SLOTS] /\ cursor \in [Role -> 0..Capacity]
          /\ poisoned \in [Role -> BOOLEAN] /\ live \in [Role -> BOOLEAN]
          /\ pc \in [Role -> {"idle", "burned", "waiting", "checking"}]
        BY <1>1, <1>4 DEF Init
    <2>3. /\ <<>> \in Seq(Accepted) /\ <<>> \in Seq([first : Nat, count : Nat])
        OBVIOUS
    <2>4. /\ accepted \in [Role -> Seq(Accepted)]
          /\ exposures \in [Role -> Seq([first : Nat, count : Nat])]
        BY <1>1, <2>3 DEF Init
    <2>5. pending = NoPending /\ acceptances = {}
        BY <1>1 DEF Init
    <2> QED
        BY <2>1, <2>2, <2>4, <2>5 DEF TypeOK
<1>8. \A r \in Role : n(r) = 0 /\ Len(exposures[r]) = 0
    BY <1>5 DEF n
<1>9. ASSUME NEW r \in Role PROVE RoleOK(r)
    <2>1. ReceiptsOK(r)
        BY <1>4, <1>5, <1>6, <1>8 DEF ReceiptsOK, LastReceipt, Zero
    <2>2. HeadOK(r)
        BY <1>3, <1>5, <1>6 DEF HeadOK
    <2>3. StoreOK(r)
        BY <1>3, <1>4, <1>5, <1>6, <1>8 DEF StoreOK
    <2>4. PcOK(r)
        BY <1>3, <1>4, <1>5, <1>8 DEF PcOK
    <2>5. ExposuresOK(r)
        BY <1>3, <1>4, <1>5, <1>8 DEF ExposuresOK, Intervals, Start
    <2> QED
        BY <2>1, <2>2, <2>3, <2>4, <2>5 DEF RoleOK
<1>10. PendingOK /\ RequestOK
    BY <1>4, <1>5 DEF PendingOK, RequestOK
<1>11. SentOK /\ AcceptancesOK
    BY <1>1 DEF Init, SentOK, AcceptancesOK
<1>12. AgreeOK /\ ProverBurnedFirst
    BY <1>3, <1>4, <1>5, <1>8 DEF AgreeOK, ProverBurnedFirst
<1> QED
    BY <1>7, <1>9, <1>10, <1>11, <1>12 DEF IInv

\* Every step of either role preserves the invariant.
LEMMA NextPreserves == IInv /\ [Next]_vars => IInv'
<1>1. SUFFICES ASSUME IInv, [Next]_vars PROVE IInv'
    OBVIOUS
<1>2. CASE \E io \in Outcome : Respond(io)
    BY <1>1, <1>2, RespondStep
<1>3. CASE \E root \in Roots : Prove(root)
    BY <1>1, <1>3, ProveStep
<1>4. CASE \E a \in acceptances, io \in Outcome : ProverAccepts(a, io)
    BY <1>1, <1>4, ProverAcceptsStep
<1>5. CASE \E m \in sent, io \in Outcome : Verify(m, io)
    BY <1>1, <1>5, VerifyStep
<1>6. CASE VerifyAdvances
    BY <1>1, <1>6, VerifyAdvancesStep
<1>7. CASE \E io \in Outcome : VerifierAccepts(io)
    BY <1>1, <1>7, VerifierAcceptsStep
<1>8. CASE RespondFails \/ ProveFails \/ AcceptanceFails \/ VerifyFails \/ VerifyRejects
    BY <1>1, <1>8, StopSteps
<1>9. CASE UNCHANGED vars
    <2>1. \A r \in Role : Same(r)
        BY <1>9 DEF vars, Same
    <2>2. \A r \in Role : RoleOK(r)'
        BY <1>1, <2>1, RoleKept DEF IInv
    <2>3. n("P")' = n("P") /\ n("V")' = n("V")
        BY <1>9 DEF vars, n
    <2>4. TypeOK' /\ PendingOK' /\ RequestOK'
        BY <1>1, <1>9, <2>3 DEF vars, IInv, TypeOK, PendingOK, RequestOK
    <2>5. SentOK' /\ AcceptancesOK' /\ AgreeOK' /\ ProverBurnedFirst'
        BY <1>1, <1>9, <2>3 DEF vars, IInv, SentOK, AcceptancesOK, AgreeOK, ProverBurnedFirst
    <2> QED
        BY <2>2, <2>4, <2>5 DEF IInv
<1> QED
    BY <1>1, <1>2, <1>3, <1>4, <1>5, <1>6, <1>7, <1>8, <1>9 DEF Next

\* Stores, registries and transport stay in step in every run of the two roles,
\* whatever is lost, repeated or fails on the way.
THEOREM RunInvariant == Spec => []IInv
BY InitEstablishes, NextPreserves, PTL DEF Spec

\* Every variable of the run keeps its type.
THEOREM RunTypeCorrect == Spec => []TypeOK
<1>1. IInv => TypeOK
    BY DEF IInv
<1> QED
    BY <1>1, RunInvariant, PTL

\* The verifier's journal never accepts on a slot the prover's has not burned:
\* a response reaches verify_with_pool only from a prover past its own burn.
THEOREM ProverBurnedFirstAlways == Spec => []ProverBurnedFirst
<1>1. IInv => ProverBurnedFirst
    BY DEF IInv
<1> QED
    BY <1>1, RunInvariant, PTL

\* The prover's registry is a prefix of the verifier's, at most one response
\* behind, and the rows the two exposed for a slot are the same rows.
THEOREM PrefixAgreementAlways == Spec => []PrefixAgreement
<1>1. IInv => PrefixAgreement
    <2>1. SUFFICES ASSUME IInv PROVE PrefixAgreement
        OBVIOUS
    <2>2. PICK p, v : p = accepted["P"] /\ v = accepted["V"]
        OBVIOUS
    <2>3. /\ p \in Seq(Accepted) /\ v \in Seq(Accepted)
          /\ Len(p) \in Nat /\ Len(v) \in Nat
        BY <2>1, <2>2 DEF IInv, TypeOK, Role
    <2>4. /\ Len(p) <= Len(v) /\ Len(v) <= Len(p) + 1
          /\ \A i \in 1..Len(p) : p[i] = v[i]
          /\ \A i \in 1..Len(exposures["P"]) :
                i <= Len(exposures["V"]) => exposures["P"][i] = exposures["V"][i]
        BY <2>1, <2>2 DEF IInv, AgreeOK, n
    <2>5. SubSeq(v, 1, Len(p)) = p
        <3>1. PICK w : w = SubSeq(v, 1, Len(p))
            OBVIOUS
        <3>2. w \in Seq(Accepted) /\ Len(w) = Len(p) /\ \A i \in 1..Len(p) : w[i] = v[i]
            BY <2>3, <2>4, <3>1
        <3>3. w = p
            BY <2>3, <2>4, <3>2, SeqEqual
        <3> QED
            BY <3>1, <3>3
    <2> QED
        BY <2>2, <2>4, <2>5 DEF PrefixAgreement
<1> QED
    BY <1>1, RunInvariant, PTL

\* A registry is never ahead of its journal and at most one acceptance behind
\* it, and check_pool never stops a role that has not failed.
THEOREM RegistryInStepAlways == Spec => []RegistryInStep
<1>1. IInv => RegistryInStep
    <2>1. SUFFICES ASSUME IInv, NEW r \in Role
                   PROVE  /\ Len(durable[r].head) - Len(accepted[r]) \in {0, 1}
                          /\ SubSeq(durable[r].head, 1, Len(accepted[r])) = LastReceipt(r)
                          /\ pc[r] = "idle" /\ live[r] => CheckPool(r)
        BY DEF RegistryInStep
    <2>2. PICK h, s : h = durable[r].head /\ s = RootsOf(accepted[r])
        OBVIOUS
    <2>3. RoleOK(r) /\ TypeOK
        BY <2>1 DEF IInv
    <2>4. /\ s \in Seq(Roots) /\ Len(s) = n(r) /\ n(r) \in Nat /\ LastReceipt(r) = s
          /\ n(r) = Len(accepted[r])
        BY <2>2, <2>3, RootsOfSeq DEF TypeOK, RoleOK, ReceiptsOK, n
    <2>5. h = s \/ \E root \in Roots : h = Append(s, root)
        BY <2>2, <2>3 DEF RoleOK, HeadOK
    <2>6. /\ h \in Seq(Roots) /\ Len(h) \in {n(r), n(r) + 1}
          /\ \A i \in 1..n(r) : h[i] = s[i]
        BY <2>4, <2>5
    <2>7. SubSeq(h, 1, n(r)) = s
        <3>1. PICK w : w = SubSeq(h, 1, n(r))
            OBVIOUS
        <3>2. w \in Seq(Roots) /\ Len(w) = n(r) /\ \A i \in 1..n(r) : w[i] = h[i]
            BY <2>4, <2>6, <3>1
        <3>3. w = s
            BY <2>4, <2>6, <3>2, SeqEqual
        <3> QED
            BY <3>1, <3>3
    <2>8. ASSUME pc[r] = "idle", live[r] PROVE CheckPool(r)
        <3>1. ~poisoned[r]
            BY <2>3, <2>8 DEF RoleOK, PcOK
        <3>2. /\ slot[r] = n(r) /\ store[r].attempts = n(r) /\ cursor[r] = store[r].used
              /\ n(r) < ROOT_SLOTS
            BY <2>3, <2>8, <3>1 DEF RoleOK, PcOK
        <3>3. store[r].fixed_run /\ store[r].setups = 1 /\ store[r].head = s
            BY <2>2, <2>3, <3>1 DEF RoleOK, StoreOK
        <3>4. ContextLive(r)
            BY <3>1, <3>2, <3>3 DEF ContextLive
        <3>5. CheckBurn(r, NextAttempt(r))
            BY <2>4, <3>2, <3>3 DEF CheckBurn, NextAttempt
        <3> QED
            BY <3>4, <3>5 DEF CheckPool
    <2>9. Len(h) - n(r) \in {0, 1}
        BY <2>4, <2>6
    <2> QED
        BY <2>2, <2>4, <2>7, <2>8, <2>9
<1> QED
    BY <1>1, RunInvariant, PTL

-----------------------------------------------------------------------------
(* The run implements one agreed chain of responses *)

\* A step that leaves both registries alone.
LEMMA RegistriesStutter ==
    ASSUME UNCHANGED accepted
    PROVE  UNCHANGED Abstract!vars
BY DEF Abstract!vars, RootsOf

\* A verifier that accepts extends a chain the prover has confirmed, by a new root.
LEMMA VerifierExtends ==
    ASSUME IInv, NEW io \in Outcome, VerifierAccepts(io)
    PROVE  [Abstract!Next]_(Abstract!vars)
<1>0. TypeOK /\ "V" \in Role /\ "P" \in Role \ {"V"} /\ RoleOK("V")
    BY DEF IInv, Role
<1>1. PICK root, receipt :
          /\ root \in Roots
          /\ root = request.root /\ receipt = ReceiptOf(request.header)
          /\ Closes(receipt, "V", root) /\ Promote("V", root, receipt, io)
    BY VerifierPromotes
<1>2. n("V") = n("P") /\ pc["V"] = "checking" /\ n("V") \in Nat
    BY <1>0, VerifierPromotes DEF TypeOK, n
<1>3. \A i \in 1..n("V") : accepted["V"][i].root # root
    BY <1>1, VerifierPromotes
<1>4. /\ n("V") < ROOT_SLOTS
      /\ [root |-> root, receipt |-> receipt] \in Accepted
    BY <1>0, <1>1, <1>2, PromoteRegistry
<1>5. accepted'["P"] = accepted["P"]
    BY <1>0, <1>1, <1>2, PromoteRegistry
<1>6. /\ io # "ok" => accepted' = accepted
      /\ io = "ok" =>
            accepted'["V"] = Append(accepted["V"], [root |-> root, receipt |-> receipt])
    BY <1>0, <1>1, <1>2, PromoteRegistry
<1>7. CASE io # "ok"
    BY <1>6, <1>7, RegistriesStutter
<1>8. CASE io = "ok"
    <2>0. PICK p, v : p = accepted["P"] /\ v = accepted["V"]
        OBVIOUS
    <2>1. p \in Seq(Accepted) /\ v \in Seq(Accepted) /\ Len(p) = Len(v) /\ Len(v) < ROOT_SLOTS
        BY <1>0, <1>2, <1>4, <2>0 DEF TypeOK, n
    <2>2. p = v
        <3>1. \A i \in 1..Len(p) : p[i] = v[i]
            BY <2>0 DEF IInv, AgreeOK, n
        <3> QED
            BY <2>1, <3>1, SeqEqual
    <2>3. /\ Len(RootsOf(v)) = Len(v)
          /\ \A i \in 1..Len(v) : RootsOf(v)[i] = v[i].root
        BY <2>1, RootsOfSeq
    <2>4. \A i \in 1..Len(RootsOf(v)) : RootsOf(v)[i] # root
        BY <1>3, <2>0, <2>3 DEF n
    <2>5. PICK e \in Accepted : e = [root |-> root, receipt |-> receipt] /\ e.root = root
        BY <1>4
    <2>6. accepted'["V"] = Append(v, e)
        BY <1>6, <1>8, <2>0, <2>5
    <2>7. RootsOf(accepted'["V"]) = Append(RootsOf(v), root)
        BY <2>1, <2>5, <2>6, RootsOfAppend
    <2>8. RootsOf(accepted'["P"]) = RootsOf(p)
        BY <1>5, <2>0
    <2>9. Len(RootsOf(v)) < ROOT_SLOTS
        BY <2>1, <2>3
    <2>10. Abstract!Accept(root)
        BY <2>0, <2>2, <2>4, <2>7, <2>8, <2>9 DEF Abstract!Accept
    <2> QED
        BY <1>1, <2>10 DEF Abstract!Next
<1> QED
    BY <1>7, <1>8

\* A prover that promotes confirms the response the verifier accepted.
LEMMA ProverConfirms ==
    ASSUME IInv, IInv', NEW a \in acceptances, NEW io \in Outcome, ProverAccepts(a, io)
    PROVE  [Abstract!Next]_(Abstract!vars)
<1>0. TypeOK /\ TypeOK' /\ "P" \in Role /\ "V" \in Role \ {"P"} /\ RoleOK("P")
    BY DEF IInv, Role
<1>1. PICK root, receipt :
          /\ root \in Roots
          /\ root = pending.root /\ receipt = pending.receipt
          /\ Closes(receipt, "P", root) /\ Promote("P", root, receipt, io)
    BY ProverPromotes
<1>2. pc["P"] = "waiting" /\ n("P") + 1 \in 1..n("V")
    BY ProverPromotes
<1>3. /\ accepted'["V"] = accepted["V"]
      /\ [root |-> root, receipt |-> receipt] \in Accepted
    BY <1>0, <1>1, <1>2, PromoteRegistry
<1>4. /\ io # "ok" => accepted' = accepted
      /\ io = "ok" =>
            accepted'["P"] = Append(accepted["P"], [root |-> root, receipt |-> receipt])
    BY <1>0, <1>1, <1>2, PromoteRegistry
<1>5. CASE io # "ok"
    BY <1>4, <1>5, RegistriesStutter
<1>6. CASE io = "ok"
    <2>0. PICK p, v, q : p = accepted["P"] /\ v = accepted["V"] /\ q = accepted'["P"]
        OBVIOUS
    <2>1. /\ p \in Seq(Accepted) /\ v \in Seq(Accepted) /\ q \in Seq(Accepted)
          /\ Len(p) \in Nat /\ Len(v) \in Nat
        BY <1>0, <2>0 DEF TypeOK
    <2>2. Len(q) = Len(p) + 1 /\ Len(p) + 1 \in 1..Len(v) /\ Len(v) <= Len(p) + 1
        BY <1>2, <1>3, <1>4, <1>6, <2>0, <2>1 DEF IInv, AgreeOK, n
    <2>3. \A i \in 1..Len(q) : q[i] = v[i]
        BY <1>3, <2>0 DEF IInv, AgreeOK, n
    <2>4. q = v
        <3>1. Len(q) = Len(v)
            BY <2>1, <2>2
        <3> QED
            BY <2>1, <2>3, <3>1, SeqEqual
    <2>5. Len(RootsOf(p)) = Len(p) /\ Len(RootsOf(v)) = Len(v)
        BY <2>1, RootsOfSeq
    <2>6. Len(RootsOf(p)) < Len(RootsOf(v))
        BY <2>1, <2>2, <2>5
    <2>7. Abstract!Confirm
        BY <1>3, <2>0, <2>4, <2>6 DEF Abstract!Confirm
    <2> QED
        BY <2>7 DEF Abstract!Next
<1> QED
    BY <1>5, <1>6

\* Prover and verifier, with their stores, journals and a transport that repeats
\* and loses, implement one chain of distinct responses that the verifier extends
\* only when the prover has confirmed all of it.
THEOREM RunImplementsAgreedRun == Spec => ImplementsAgreedRun
<1>1. Init => Abstract!Init
    <2>1. SUFFICES ASSUME Init PROVE Abstract!Init
        OBVIOUS
    <2>2. accepted["P"] = <<>> /\ accepted["V"] = <<>>
        BY <2>1 DEF Init, Role
    <2>3. PICK e : e = RootsOf(<<>>)
        OBVIOUS
    <2>4. e \in Seq(Roots) /\ Len(e) = 0
        <3>1. <<>> \in Seq(Accepted) /\ Len(<<>>) = 0
            OBVIOUS
        <3> QED
            BY <2>3, <3>1, RootsOfSeq
    <2>5. e = <<>>
        BY <2>4, EmptySeq
    <2> QED
        BY <2>2, <2>3, <2>5 DEF Abstract!Init
<1>2. IInv /\ IInv' /\ [Next]_vars => [Abstract!Next]_(Abstract!vars)
    <2>1. SUFFICES ASSUME IInv, IInv', [Next]_vars PROVE [Abstract!Next]_(Abstract!vars)
        OBVIOUS
    <2>2. CASE \E a \in acceptances, io \in Outcome : ProverAccepts(a, io)
        BY <2>1, <2>2, ProverConfirms
    <2>3. CASE \E io \in Outcome : VerifierAccepts(io)
        BY <2>1, <2>3, VerifierExtends
    <2>4. CASE \/ \E io \in Outcome : Respond(io)
               \/ \E m \in sent, io \in Outcome : Verify(m, io)
        <3>1. UNCHANGED accepted
            BY <2>4 DEF Respond, Verify, Burn, registry
        <3> QED
            BY <3>1, RegistriesStutter
    <2>5. CASE \/ RespondFails \/ ProveFails \/ AcceptanceFails
               \/ VerifyFails \/ VerifyRejects \/ VerifyAdvances
               \/ \E root \in Roots : Prove(root)
               \/ UNCHANGED vars
        <3>1. UNCHANGED accepted
            BY <2>5 DEF RespondFails, ProveFails, AcceptanceFails, VerifyFails,
                        VerifyRejects, VerifyAdvances, Prove, registry, vars
        <3> QED
            BY <3>1, RegistriesStutter
    <2> QED
        BY <2>1, <2>2, <2>3, <2>4, <2>5 DEF Next
<1> QED
    BY <1>1, <1>2, RunInvariant, PTL DEF Spec, ImplementsAgreedRun, Abstract!Spec

=============================================================================
