-------------------------- MODULE CorrelationStream -------------------------
(***************************************************************************)
(* One side's correlations of a connection: the prover's masks and tags    *)
(* (CorrelationStream) or the verifier's keys (VerifierCtx), over a pool   *)
(* expanded by the PCG.  Rows of the pool are drawn for domains, and a     *)
(* ledger lets every domain be drawn once.  Full-field rows can also be    *)
(* reserved for a batch of domains before they are drawn, in any order; a  *)
(* batch borrows the stream exclusively until it ends.                     *)
(*                                                                         *)
(* A row is its place in the pool.  An assertion that fails is a panic: a  *)
(* caller may catch it, as the tests do, and goes on with the state the    *)
(* panic leaves.  An operation that panics or returns an error before it   *)
(* changes anything is not a step.                                         *)
(***************************************************************************)
EXTENDS Integers, Sequences, Functions

CONSTANTS
    Limit,     \* domains below the three reserved bits of a domain number
    Pool,      \* how many rows of each kind the pool holds
    Counts,    \* the numbers of rows that callers ask for
    MaxRows    \* the largest number of domains in one range

Kinds == {"sub", "full"}
Domains == 0..(Limit - 1)

ASSUME StreamAssumption ==
    /\ Limit \in Nat \ {0}
    /\ Pool \in [Kinds -> Nat]
    /\ Counts \subseteq Nat
    /\ MaxRows \in Nat \ {0}

VARIABLES
    consumed,   \* the ledger: how many rows each domain was drawn with
    reserved,   \* the ledger: the full-field domains that a batch has reserved
    cursor,     \* the next row of each kind
    alloc,      \* the allocations of each kind, as the allocation digest hashes them
    counters,   \* CorrCounters
    audit,      \* the schedule audit
    batch       \* the batch that borrows the stream

streamVars == <<consumed, reserved, cursor, alloc, counters, audit, batch>>

Absent == -1

NoBatch == [active |-> FALSE, ranges |-> <<>>, drawn |-> {}]
NoCounters == [sub |-> 0, full |-> 0, domains |-> 0]
NewAudit == [on |-> FALSE, draws |-> [k \in Kinds |-> <<>>], next |-> [k \in Kinds |-> 0]]

StreamInit ==
    /\ consumed = [k \in Kinds |-> [d \in Domains |-> Absent]]
    /\ reserved = [d \in Domains |-> Absent]
    /\ cursor = [k \in Kinds |-> 0]
    /\ alloc = [k \in Kinds |-> <<>>]
    /\ counters = NoCounters
    /\ audit = NewAudit
    /\ batch = NoBatch

Remaining(k) == Pool[k] - cursor[k]

-----------------------------------------------------------------------------
(* The schedule audit.                                                     *)

EnableScheduleAudit ==
    /\ ~batch.active
    /\ counters = NoCounters
    /\ ~audit.on
    /\ audit' = [audit EXCEPT !.on = TRUE]
    /\ UNCHANGED <<consumed, reserved, cursor, alloc, counters, batch>>

\* The audit after a draw of n rows of kind k for each of rows domains.
Recorded(k, role, base, rows, n) ==
    IF ~audit.on THEN audit
    ELSE [audit EXCEPT
            !.draws[k] = @ \o [i \in 1..rows |->
                [role |-> role, dom |-> base + i - 1,
                 off |-> audit.next[k] + (i - 1) * n, n |-> n]],
            !.next[k] = @ + rows * n]

-----------------------------------------------------------------------------
(* Draws.                                                                  *)

\* The allocations after n rows for each of rows domains.
Allocated(k, base, rows, n) ==
    [alloc EXCEPT ![k] = @ \o [i \in 1..rows |->
        [dom |-> base + i - 1, off |-> cursor[k] + (i - 1) * n, n |-> n]]]

Counted(k, rows, n) ==
    [counters EXCEPT ![k] = @ + rows * n, !.domains = @ + rows]

\* A variant: only the first domain of the range is checked for reuse.
SubRowsFreeFirst(base, rows) == consumed["sub"][base] = Absent

SubRowsFree(base, rows) ==
    \A d \in base..(base + rows - 1) : consumed["sub"][d] = Absent

\* reserve_sub_mask_rows, reserve_sub_key_rows: everything is checked before
\* the first domain is opened.
ReserveSubRows(base, rows, cols) ==
    /\ ~batch.active
    /\ rows > 0 /\ cols > 0
    /\ base + rows - 1 < Limit
    /\ rows * cols <= Remaining("sub")
    /\ SubRowsFree(base, rows)
    /\ consumed' = [consumed EXCEPT !["sub"] =
                      [d \in Domains |-> IF d \in base..(base + rows - 1) THEN cols ELSE @[d]]]
    /\ cursor' = [cursor EXCEPT !["sub"] = @ + rows * cols]
    /\ alloc' = Allocated("sub", base, rows, cols)
    /\ counters' = Counted("sub", rows, cols)
    /\ audit' = Recorded("sub", "direct", base, rows, cols)
    /\ UNCHANGED <<reserved, batch>>

\* A draw of n full-field rows finds n rows left.
Fits(n) == n <= Remaining("full")

\* draw_fulls_with_role, expand_full_keys_with_role: the domain is opened and
\* counted before the pool is asked; a pool that has too few rows panics.
OpenFull(dom, n, role) ==
    /\ dom \in Domains
    /\ role = "product" => n = 1
    /\ reserved[dom] \in {Absent, n}
    /\ consumed["full"][dom] = Absent
    /\ reserved' = [reserved EXCEPT ![dom] = Absent]
    /\ consumed' = [consumed EXCEPT !["full"][dom] = n]
    /\ counters' = Counted("full", 1, n)
    /\ IF Fits(n)
       THEN /\ cursor' = [cursor EXCEPT !["full"] = @ + n]
            /\ alloc' = Allocated("full", dom, 1, n)
            /\ audit' = Recorded("full", role, dom, 1, n)
       ELSE UNCHANGED <<cursor, alloc, audit>>

DrawFull(dom, n, role) ==
    /\ ~batch.active
    /\ OpenFull(dom, n, role)
    /\ UNCHANGED batch

-----------------------------------------------------------------------------
(* Batches of full-field domains.                                          *)

RangeDomains(r) == r.base..(r.base + r.rows - 1)

\* The places of a batch: the rows of its ranges.
Places(ranges) ==
    {p \in (1..Len(ranges)) \X (0..(MaxRows - 1)) : p[2] < ranges[p[1]].rows}

PlaceDomain(ranges, p) == ranges[p[1]].base + p[2]

Undrawn(b) == Places(b.ranges) \ b.drawn

\* The rows that some places of a batch take together.
RowsOf(ranges, places) ==
    SumFunctionOnSet([p \in Places(ranges) |-> ranges[p[1]].count], places)

\* A variant: every range is compared with the pool by itself.
BatchFitsEach(ranges) ==
    \A i \in 1..Len(ranges) : ranges[i].rows * ranges[i].count <= Remaining("full")

BatchFits(ranges) == RowsOf(ranges, Places(ranges)) <= Remaining("full")

\* The domains of a batch are all different, and neither drawn nor reserved.
BatchFree(ranges) ==
    /\ \A p, q \in Places(ranges) :
          p # q => PlaceDomain(ranges, p) # PlaceDomain(ranges, q)
    /\ \A p \in Places(ranges) :
          /\ consumed["full"][PlaceDomain(ranges, p)] = Absent
          /\ reserved[PlaceDomain(ranges, p)] = Absent

\* try_reserve_full_corr_ranges, try_reserve_full_key_ranges.
TryReserveRanges(ranges) ==
    /\ ~batch.active
    /\ ranges # <<>>
    /\ \A i \in 1..Len(ranges) :
          /\ ranges[i].rows > 0 /\ ranges[i].count > 0
          /\ ranges[i].base + ranges[i].rows - 1 < Limit
    /\ BatchFits(ranges)
    /\ BatchFree(ranges)
    /\ reserved' = [d \in Domains |->
          LET here == {i \in 1..Len(ranges) : d \in RangeDomains(ranges[i])}
          IN  IF here = {} THEN reserved[d] ELSE ranges[CHOOSE i \in here : TRUE].count]
    /\ batch' = [active |-> TRUE, ranges |-> ranges, drawn |-> {}]
    /\ UNCHANGED <<consumed, cursor, alloc, counters, audit>>

\* draw, expand: a place of the batch, in the caller's order.
BatchDraw(p) ==
    /\ batch.active
    /\ p \in Undrawn(batch)
    /\ OpenFull(PlaceDomain(batch.ranges, p), batch.ranges[p[1]].count, "direct")
    /\ batch' = IF Fits(batch.ranges[p[1]].count) THEN [batch EXCEPT !.drawn = @ \cup {p}]
                ELSE batch

\* cancel_remaining: the places that were not drawn are free again.
CancelRemaining(b) ==
    [d \in Domains |->
        IF \E p \in Undrawn(b) :
              PlaceDomain(b.ranges, p) = d /\ reserved[d] = b.ranges[p[1]].count
        THEN Absent
        ELSE reserved[d]]

\* abort, drop, and finish, which leaves a complete batch nothing to release
\* and drops an incomplete one.
EndBatch ==
    /\ batch.active
    /\ reserved' = CancelRemaining(batch)
    /\ batch' = NoBatch
    /\ UNCHANGED <<consumed, cursor, alloc, counters, audit>>

-----------------------------------------------------------------------------
(* Properties.                                                             *)

\* The domain of the allocation that covers a row.
Owner(k, row) ==
    LET i == CHOOSE i \in 1..Len(alloc[k]) :
                row \in alloc[k][i].off..(alloc[k][i].off + alloc[k][i].n - 1)
    IN  alloc[k][i].dom

Tape == INSTANCE CorrelationTape WITH
    tape <- [k \in Kinds |-> [i \in 1..cursor[k] |-> Owner(k, i - 1)]]

\* Every draw takes the next rows of its kind for domains that own none:
\* neither a batch that was refused, aborted or drawn out of order, nor a draw
\* that panicked, gives a row to two domains, skips one, or makes the rows of a
\* draw depend on anything but the draws before it.
ImplementsTape == Tape!Spec

\* What a batch has reserved it can draw: the places it has not drawn are its
\* own in the ledger, no draw has opened them, and the pool has rows for all of
\* them together.  Once a batch has ended, however it ended, nothing stays
\* reserved.
ReservationsLive ==
    /\ \A p \in Undrawn(batch) :
          LET d == PlaceDomain(batch.ranges, p)
          IN  reserved[d] = batch.ranges[p[1]].count /\ consumed["full"][d] = Absent
    /\ RowsOf(batch.ranges, Undrawn(batch)) <= Remaining("full")
    /\ {d \in Domains : reserved[d] # Absent}
          = {PlaceDomain(batch.ranges, p) : p \in Undrawn(batch)}

=============================================================================
