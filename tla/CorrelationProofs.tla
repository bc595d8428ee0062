-------------------------- MODULE CorrelationProofs -------------------------
(***************************************************************************)
(* Proofs about the correlation stream and its witness sidecars, for every *)
(* pool, every number of domains and every set of row counts:              *)
(*   - a sealed sidecar holds the pool's rows, all of them, and nothing is *)
(*     drawn past it before the post-source phase (SidecarAccounts);       *)
(*   - the stream implements the tape (ImplementsTape): a draw takes the   *)
(*     next rows for domains that own none;                                *)
(*   - what a batch has reserved it can draw (ReservationsLive).           *)
(* They rest on one invariant: the audit follows the allocations entry by  *)
(* entry, and the allocations tile the rows below the cursor.  The last    *)
(* needs a second one: the places of a batch have domains of their own,    *)
(* and nothing is reserved without a batch.                                *)
(***************************************************************************)
EXTENDS SourceWitness, TLAPS, SequenceTheorems, SumTheorems

-----------------------------------------------------------------------------
(* Arithmetic and sequences.                                               *)

\* The product of two numbers is a number, and not less than either factor
\* when the other is positive.
LEMMA Products ==
    \A a, b \in Nat : a * b \in Nat /\ (b > 0 => a <= a * b) /\ (a > 0 => b <= a * b)
  OBVIOUS

\* Multiples of n grow with the factor, by n at a time.
LEMMA Multiples ==
    \A a, b, n \in Nat : a < b => a * n + n <= b * n
  OBVIOUS

\* The row x is in the block of n rows that x \div n counts, which is one of
\* the first m blocks when x is one of their rows.
LEMMA Blocks ==
    \A x, n, m \in Nat : n > 0 /\ x < m * n =>
        /\ x \div n \in 0..(m - 1)
        /\ (x \div n) * n <= x
        /\ x < (x \div n) * n + n
  <1>1. ASSUME NEW x \in Nat, NEW n \in Nat, NEW m \in Nat, n > 0, x < m * n
        PROVE  x \div n \in Nat /\ (x \div n) * n <= x /\ x < (x \div n) * n + n
    BY <1>1
  <1>2. ASSUME NEW x \in Nat, NEW n \in Nat, NEW m \in Nat, NEW q \in Nat,
               n > 0, x < m * n, q * n <= x
        PROVE  q < m
    <2>1. CASE m <= q
      <3>1. m * n <= q * n  BY <2>1
      <3>2. m * n \in Nat /\ q * n \in Nat  BY Products
      <3> QED  BY <1>2, <3>1, <3>2
    <2> QED  BY <2>1
  <1> QED
    <2> SUFFICES ASSUME NEW x \in Nat, NEW n \in Nat, NEW m \in Nat, n > 0, x < m * n
                 PROVE  /\ x \div n \in 0..(m - 1)
                        /\ (x \div n) * n <= x
                        /\ x < (x \div n) * n + n
      OBVIOUS
    <2>1. x \div n \in Nat /\ (x \div n) * n <= x /\ x < (x \div n) * n + n
      BY <1>1
    <2>2. x \div n < m  BY <2>1, <1>2
    <2> QED  BY <2>1, <2>2

\* The sequence u is s and then the m values of f.
Extended(u, s, m, f) ==
    /\ Len(u) = Len(s) + m
    /\ \A i \in 1..Len(s) : u[i] = s[i]
    /\ \A i \in 1..m : u[Len(s) + i] = f[i]

\* What appending a function on 1..m to a sequence does.
LEMMA Appending ==
    ASSUME NEW S, NEW s \in Seq(S), NEW m \in Nat, NEW f \in [1..m -> S]
    PROVE  /\ s \o f \in Seq(S)
           /\ Extended(s \o f, s, m, f)
           /\ Len(s) \in Nat
  <1>1. f \in Seq(S) /\ Len(f) = m  OBVIOUS
  <1>2. s \o f \in Seq(S) /\ Len(s) \in Nat  BY <1>1
  <1> QED  BY <1>1, <1>2 DEF Extended

\* A place past the end of s is a place of what was appended.
LEMMA PastEnd ==
    ASSUME NEW a \in Nat, NEW m \in Nat, NEW i \in 1..(a + m), i \notin 1..a
    PROVE  \E j \in 1..m : i = a + j
  <1>1. i - a \in 1..m  OBVIOUS
  <1>2. i = a + (i - a)  OBVIOUS
  <1> QED  BY <1>1, <1>2

\* The function g is f, except that it has the value v at k.
Replaced(g, f, S, k, v) ==
    /\ g[k] = v
    /\ \A j \in S : j # k => g[j] = f[j]

\* What replacing one value of a function does.
LEMMA Replacing ==
    ASSUME NEW S, NEW T, NEW f \in [S -> T], NEW k \in S, NEW v \in T
    PROVE  [f EXCEPT ![k] = v] \in [S -> T] /\ Replaced([f EXCEPT ![k] = v], f, S, k, v)
  BY DEF Replaced

-----------------------------------------------------------------------------
(* The invariant.                                                          *)

Roles == {"direct", "product"}
Allocations == [dom : Domains, off : Nat, n : Nat]
AuditDraws == [role : Roles, dom : Domains, off : Nat, n : Nat]
SidecarDraws ==
    [dom : Domains, off : Nat, n : Nat, role : Roles, corrected : BOOLEAN, tagged : BOOLEAN]

StreamTypes ==
    /\ consumed \in [Kinds -> [Domains -> Int]]
    /\ cursor \in [Kinds -> Nat]
    /\ alloc \in [Kinds -> Seq(Allocations)]
    /\ counters \in [sub : Nat, full : Nat, domains : Nat]
    /\ audit \in [on : BOOLEAN, draws : [Kinds -> Seq(AuditDraws)], next : [Kinds -> Nat]]
    /\ batch \in [active : BOOLEAN, ranges : Seq(FullRanges), drawn : SUBSET (Nat \X Nat)]

WitnessTypes ==
    /\ sidecar \in [Kinds -> [phase : {"off", "open", "closed"},
                              draws : Seq(SidecarDraws), masks : Nat]]
    /\ sealed \in [Kinds -> [returned : BOOLEAN, draws : Seq(SidecarDraws)]]
    /\ post \in BOOLEAN

\* The entries of the audit's draws and of the allocations of a kind agree.
SameEntries(ds, as) ==
    /\ Len(ds) = Len(as)
    /\ \A i \in 1..Len(as) : ds[i].dom = as[i].dom /\ ds[i].off = as[i].off /\ ds[i].n = as[i].n

\* An audit follows the allocations once it is on; before, it has nothing.
AuditFollows ==
    /\ audit.on => \A k \in Kinds : audit.next[k] = cursor[k] /\ SameEntries(audit.draws[k], alloc[k])
    /\ ~audit.on => audit = NewAudit
    /\ counters.domains = 0 => \A k \in Kinds : cursor[k] = 0 /\ alloc[k] = <<>>

\* A sidecar is opened with the audit on, and sealed when it is closed.
Phases ==
    \A k \in Kinds :
        /\ sidecar[k].phase = "open" => audit.on
        /\ sealed[k].returned => sidecar[k].phase = "closed"

\* The sealed draws of a kind are the first of its allocations, and all of
\* them before the post-source phase.
Sealed(ds, as, past) ==
    /\ Len(ds) <= Len(as)
    /\ ~past => Len(ds) = Len(as)
    /\ \A i \in 1..Len(ds) :
          /\ ds[i].dom = as[i].dom /\ ds[i].off = as[i].off /\ ds[i].n = as[i].n
          /\ ds[i].corrected /\ ds[i].tagged

SealedAll == \A k \in Kinds : sealed[k].returned => Sealed(sealed[k].draws, alloc[k], post)

\* The allocations of a kind lie below the cursor, one after the other and
\* without a gap, and their domains are consumed.
TiledBy(as, c) ==
    /\ \A i \in 1..Len(as) : as[i].off + as[i].n <= c
    /\ \A i, j \in 1..Len(as) : i < j => as[i].off + as[i].n <= as[j].off
    /\ \A x \in 0..(c - 1) : \E i \in 1..Len(as) : as[i].off <= x /\ x < as[i].off + as[i].n

Owned(as, ledger) == \A i \in 1..Len(as) : ledger[as[i].dom] # Absent

Tiled ==
    \A k \in Kinds :
        /\ TiledBy(alloc[k], cursor[k])
        /\ Owned(alloc[k], consumed[k])
        /\ cursor[k] <= Pool[k]

CInv == StreamTypes /\ WitnessTypes /\ AuditFollows /\ Phases /\ SealedAll /\ Tiled

-----------------------------------------------------------------------------
(* Draws.  Both operations that take rows do the same to the stream.       *)

\* The domains of a draw.
Span(base, rows) == base..(base + rows - 1)

\* What a draw finds, and what it leaves of the ledger, the pool and the audit.
Takes(k, role, base, rows, n) ==
    /\ k \in Kinds /\ role \in Roles /\ base \in Domains /\ rows \in Nat \ {0} /\ n \in Nat
    /\ \A d \in Span(base, rows) : d \in Domains /\ consumed[k][d] = Absent
    /\ cursor[k] + rows * n <= Pool[k]
    /\ \A d \in Span(base, rows) : consumed'[k][d] = n
    /\ \A d \in Domains : d \notin Span(base, rows) => consumed'[k][d] = consumed[k][d]
    /\ \A j \in Kinds : j # k => consumed'[j] = consumed[j]
    /\ cursor' = [cursor EXCEPT ![k] = @ + rows * n]
    /\ alloc' = Allocated(k, base, rows, n)
    /\ audit' = Recorded(k, role, base, rows, n)
    /\ counters' = Counted(k, rows, n)

\* The allocations of a draw.
Block(base, rows, off, n) ==
    [i \in 1..rows |-> [dom |-> base + i - 1, off |-> off + (i - 1) * n, n |-> n]]

AuditBlock(role, base, rows, off, n) ==
    [i \in 1..rows |-> [role |-> role, dom |-> base + i - 1, off |-> off + (i - 1) * n, n |-> n]]

\* A block of allocations is a function with entries of the right type.
LEMMA BlockType ==
    ASSUME NEW role \in Roles, NEW base, NEW rows \in Nat \ {0}, NEW off \in Nat, NEW n \in Nat,
           base \in Nat, \A d \in Span(base, rows) : d \in Domains
    PROVE  /\ Block(base, rows, off, n) \in [1..rows -> Allocations]
           /\ AuditBlock(role, base, rows, off, n) \in [1..rows -> AuditDraws]
  <1>1. ASSUME NEW i \in 1..rows PROVE base + i - 1 \in Domains
    BY DEF Span
  <1>2. ASSUME NEW i \in 1..rows PROVE off + (i - 1) * n \in Nat
    <2>1. i - 1 \in Nat  OBVIOUS
    <2> QED  BY <2>1, Products
  <1> QED  BY <1>1, <1>2 DEF Block, AuditBlock, Allocations, AuditDraws

\* Appending a block to the allocations and the same block to the audit keeps
\* the two in step.
LEMMA BlocksAgree ==
    ASSUME NEW as \in Seq(Allocations), NEW ds \in Seq(AuditDraws), SameEntries(ds, as),
           NEW m \in Nat, NEW f \in [1..m -> Allocations], NEW g \in [1..m -> AuditDraws],
           \A i \in 1..m : g[i].dom = f[i].dom /\ g[i].off = f[i].off /\ g[i].n = f[i].n
    PROVE  SameEntries(ds \o g, as \o f)
  <1>1. PICK u \in Seq(Allocations) : u = as \o f /\ Extended(u, as, m, f)
    <2>1. as \o f \in Seq(Allocations) /\ Extended(as \o f, as, m, f)  BY Appending
    <2> QED  BY <2>1, Zenon
  <1>2. PICK v \in Seq(AuditDraws) : v = ds \o g /\ Extended(v, ds, m, g)
    <2>1. ds \o g \in Seq(AuditDraws) /\ Extended(ds \o g, ds, m, g)  BY Appending
    <2> QED  BY <2>1, Zenon
  <1>3. PICK a \in Nat : Len(as) = a /\ Len(ds) = a
    <2>1. Len(as) \in Nat  BY LenProperties
    <2> QED  BY <2>1 DEF SameEntries
  <1>4. ASSUME NEW i \in 1..Len(u)
        PROVE  v[i].dom = u[i].dom /\ v[i].off = u[i].off /\ v[i].n = u[i].n
    <2>0. i \in 1..(a + m)  BY <1>1, <1>3 DEF Extended
    <2>1. CASE i \in 1..a
      BY <2>1, <1>1, <1>2, <1>3 DEF SameEntries, Extended
    <2>2. CASE i \notin 1..a
      <3>1. PICK j \in 1..m : i = a + j  BY <2>0, <2>2, PastEnd
      <3>2. u[i] = f[j] /\ v[i] = g[j]  BY <3>1, <1>1, <1>2, <1>3 DEF Extended
      <3> QED  BY <3>2
    <2> QED  BY <2>1, <2>2
  <1>5. SameEntries(v, u)  BY <1>1, <1>2, <1>3, <1>4 DEF SameEntries, Extended
  <1> QED  BY <1>1, <1>2, <1>5

\* Allocations that tile the rows below c, and then a block of rows domains
\* with n rows each from c on, tile the rows below c + rows * n.
LEMMA TiledBlock ==
    ASSUME NEW as \in Seq(Allocations), NEW u \in Seq(Allocations), NEW c \in Nat,
           NEW rows \in Nat, NEW n \in Nat, NEW f \in [1..rows -> Allocations],
           TiledBy(as, c), Extended(u, as, rows, f),
           \A i \in 1..rows : f[i].off = c + (i - 1) * n /\ f[i].n = n
    PROVE  TiledBy(u, c + rows * n)
  <1>1. PICK a \in Nat : Len(as) = a  BY LenProperties
  <1>2. PICK t \in Nat : t = rows * n  BY Products
  <1>3. Len(u) = a + rows  BY <1>1 DEF Extended
  <1>4. ASSUME NEW i \in 1..a
        PROVE  u[i] = as[i] /\ u[i].off \in Nat /\ u[i].n \in Nat /\ u[i].off + u[i].n <= c
    <2>1. as[i] \in Allocations  BY <1>1, ElementOfSeq
    <2>2. as[i].off \in Nat /\ as[i].n \in Nat  BY <2>1 DEF Allocations
    <2>3. u[i] = as[i]  BY <1>1 DEF Extended
    <2>4. as[i].off + as[i].n <= c  BY <1>1 DEF TiledBy
    <2> QED  BY <2>2, <2>3, <2>4
  <1>5. \A i \in 1..rows : u[a + i].off = c + (i - 1) * n /\ u[a + i].n = n
    BY <1>1 DEF Extended
  <1>6. ASSUME NEW i \in 1..rows
        PROVE  (i - 1) * n \in Nat /\ (i - 1) * n + n <= t
    <2>1. i - 1 \in Nat /\ i - 1 < rows  OBVIOUS
    <2> QED  BY <2>1, <1>2, Products, Multiples
  <1>7. ASSUME NEW i \in 1..(a + rows)
        PROVE  u[i].off + u[i].n <= c + t
    <2>1. CASE i \in 1..a
      <3>1. PICK x \in Nat, y \in Nat : u[i].off = x /\ u[i].n = y /\ x + y <= c  BY <2>1, <1>4
      <3> QED  BY <3>1
    <2>2. CASE i \notin 1..a
      <3>1. PICK j \in 1..rows : i = a + j  BY <2>2, PastEnd
      <3>2. PICK o \in Nat : o = (j - 1) * n /\ o + n <= t  BY <1>6
      <3> QED  BY <3>1, <3>2, <1>5
    <2> QED  BY <2>1, <2>2
  <1>8. ASSUME NEW i \in 1..(a + rows), NEW j \in 1..(a + rows), i < j
        PROVE  u[i].off + u[i].n <= u[j].off
    <2>1. CASE j \in 1..a
      <3>1. i \in 1..a  BY <2>1, <1>8
      <3> QED  BY <2>1, <3>1, <1>1, <1>4, <1>8 DEF TiledBy
    <2>2. CASE j \notin 1..a
      <3>1. PICK y \in 1..rows : j = a + y  BY <2>2, PastEnd
      <3>2. PICK o \in Nat : o = (y - 1) * n /\ u[j].off = c + o  BY <3>1, <1>5, <1>6
      <3>3. CASE i \in 1..a
        <4>1. PICK x \in Nat, z \in Nat : u[i].off = x /\ u[i].n = z /\ x + z <= c  BY <3>3, <1>4
        <4>2. x + z <= c + o  BY <4>1
        <4> QED  BY <4>1, <4>2, <3>2
      <3>4. CASE i \notin 1..a
        <4>1. PICK x \in 1..rows : i = a + x  BY <3>4, PastEnd
        <4>2. PICK q \in Nat : q = (x - 1) * n /\ u[i].off = c + q /\ u[i].n = n
          BY <4>1, <1>5, <1>6
        <4>3. q + n <= o
          <5>1. x - 1 \in Nat /\ y - 1 \in Nat /\ x - 1 < y - 1  BY <1>8, <4>1, <3>1
          <5> QED  BY <5>1, <4>2, <3>2, Multiples
        <4> QED  BY <4>2, <4>3, <3>2
      <3> QED  BY <3>3, <3>4
    <2> QED  BY <2>1, <2>2
  <1>9. ASSUME NEW x \in 0..(c + t - 1)
        PROVE  \E i \in 1..(a + rows) : u[i].off <= x /\ x < u[i].off + u[i].n
    <2>1. CASE x < c
      <3>1. x \in 0..(c - 1)  BY <2>1
      <3>2. PICK i \in 1..a : as[i].off <= x /\ x < as[i].off + as[i].n
        BY <3>1, <1>1 DEF TiledBy
      <3>3. i \in 1..(a + rows)  OBVIOUS
      <3> QED  BY <3>2, <3>3, <1>4
    <2>2. CASE ~(x < c)
      <3>1. PICK y \in Nat : x = c + y /\ y < rows * n
        <4>1. x - c \in Nat /\ x = c + (x - c) /\ x - c < t  BY <2>2
        <4> QED  BY <4>1, <1>2
      <3>2. n > 0
        <4>1. CASE n = 0
          <5>1. rows * n = 0  BY <4>1
          <5> QED  BY <5>1, <3>1
        <4> QED  BY <4>1
      <3>3. PICK q \in 0..(rows - 1) : q * n <= y /\ y < q * n + n
        <4>1. /\ y \div n \in 0..(rows - 1) /\ (y \div n) * n <= y
              /\ y < (y \div n) * n + n
          BY <3>1, <3>2, Blocks
        <4> QED  BY <4>1
      <3>4. PICK o \in Nat : o = q * n  BY Products
      <3>5. q + 1 \in 1..rows /\ (q + 1) - 1 = q  OBVIOUS
      <3>6. PICK i \in 1..(a + rows) : i = a + (q + 1)  BY <3>5
      <3>7. u[i].off = c + o /\ u[i].n = n  BY <3>4, <3>5, <3>6, <1>5
      <3>8. u[i].off <= x /\ x < u[i].off + u[i].n  BY <3>1, <3>3, <3>4, <3>7
      <3> QED  BY <3>8
    <2> QED  BY <2>1, <2>2
  <1>10. TiledBy(u, c + t)
    <2>1. \A i \in 1..Len(u) : u[i].off + u[i].n <= c + t  BY <1>3, <1>7
    <2>2. \A i, j \in 1..Len(u) : i < j => u[i].off + u[i].n <= u[j].off  BY <1>3, <1>8
    <2>3. \A x \in 0..(c + t - 1) : \E i \in 1..Len(u) : u[i].off <= x /\ x < u[i].off + u[i].n
      BY <1>3, <1>9
    <2> QED  BY <2>1, <2>2, <2>3 DEF TiledBy
  <1> QED  BY <1>2, <1>10

\* What a draw does to the allocations and the cursors.
LEMMA TakesAllocates ==
    ASSUME StreamTypes, NEW k, NEW role, NEW base, NEW rows, NEW n, Takes(k, role, base, rows, n)
    PROVE  /\ k \in Kinds
           /\ alloc' \in [Kinds -> Seq(Allocations)]
           /\ cursor' \in [Kinds -> Nat]
           /\ Block(base, rows, cursor[k], n) \in [1..rows -> Allocations]
           /\ Extended(alloc'[k], alloc[k], rows, Block(base, rows, cursor[k], n))
           /\ cursor'[k] = cursor[k] + rows * n
           /\ \A j \in Kinds : j # k => alloc'[j] = alloc[j] /\ cursor'[j] = cursor[j]
  <1>1. /\ k \in Kinds /\ role \in Roles /\ base \in Nat /\ rows \in Nat \ {0} /\ n \in Nat
        /\ \A d \in Span(base, rows) : d \in Domains
    BY StreamAssumption DEF Takes, Domains
  <1>2. cursor[k] \in Nat  BY <1>1 DEF StreamTypes
  <1>3. PICK f \in [1..rows -> Allocations] : f = Block(base, rows, cursor[k], n)
    BY <1>1, <1>2, BlockType
  <1>4. alloc[k] \in Seq(Allocations)  BY <1>1 DEF StreamTypes
  <1>5. PICK u \in Seq(Allocations) : u = alloc[k] \o f /\ Extended(u, alloc[k], rows, f)
    <2>1. rows \in Nat  BY <1>1
    <2>2. alloc[k] \o f \in Seq(Allocations) /\ Extended(alloc[k] \o f, alloc[k], rows, f)
      BY <2>1, <1>4, Appending
    <2> QED  BY <2>2, Zenon
  <1>6. alloc' = [alloc EXCEPT ![k] = u]
    BY <1>3, <1>5 DEF Takes, Allocated, Block
  <1>7. alloc' \in [Kinds -> Seq(Allocations)] /\ alloc'[k] = u
        /\ \A j \in Kinds : j # k => alloc'[j] = alloc[j]
    BY <1>1, <1>6 DEF StreamTypes
  <1>8. PICK t \in Nat : t = rows * n  BY <1>1, Products
  <1>9. /\ cursor' \in [Kinds -> Nat] /\ cursor'[k] = cursor[k] + rows * n
        /\ \A j \in Kinds : j # k => cursor'[j] = cursor[j]
    <2>1. PICK w \in Nat : w = cursor[k] + t  BY <1>2, <1>8
    <2>2. cursor' = [cursor EXCEPT ![k] = w]  BY <1>8, <2>1 DEF Takes
    <2>3. cursor \in [Kinds -> Nat]  BY DEF StreamTypes
    <2> QED  BY <2>1, <2>2, <2>3, <1>1, <1>8, Replacing DEF Replaced
  <1> QED  BY <1>1, <1>3, <1>5, <1>7, <1>9

AuditTypes == [on : BOOLEAN, draws : [Kinds -> Seq(AuditDraws)], next : [Kinds -> Nat]]

Records(k, role, base, rows, n) ==
    /\ audit'.on
    /\ AuditBlock(role, base, rows, audit.next[k], n) \in [1..rows -> AuditDraws]
    /\ audit'.draws[k] = audit.draws[k] \o AuditBlock(role, base, rows, audit.next[k], n)
    /\ audit'.next[k] = audit.next[k] + rows * n
    /\ \A j \in Kinds : j # k => audit'.draws[j] = audit.draws[j] /\ audit'.next[j] = audit.next[j]

\* What a draw does to an audit that is on.
LEMMA TakesRecords ==
    ASSUME StreamTypes, NEW k, NEW role, NEW base, NEW rows, NEW n, Takes(k, role, base, rows, n),
           audit.on
    PROVE  audit' \in AuditTypes /\ Records(k, role, base, rows, n)
  <1>1. /\ k \in Kinds /\ role \in Roles /\ base \in Nat /\ rows \in Nat \ {0} /\ n \in Nat
        /\ \A d \in Span(base, rows) : d \in Domains
    BY StreamAssumption DEF Takes, Domains
  <1>2. /\ audit.next \in [Kinds -> Nat] /\ audit.draws \in [Kinds -> Seq(AuditDraws)]
        /\ audit = [on |-> audit.on, draws |-> audit.draws, next |-> audit.next]
    BY DEF StreamTypes
  <1>3. PICK f \in [1..rows -> AuditDraws] : f = AuditBlock(role, base, rows, audit.next[k], n)
    BY <1>1, <1>2, BlockType
  <1>4. PICK u \in Seq(AuditDraws) : u = audit.draws[k] \o f
    <2>1. rows \in Nat /\ audit.draws[k] \in Seq(AuditDraws)  BY <1>1, <1>2
    <2>2. audit.draws[k] \o f \in Seq(AuditDraws)  BY <2>1, Appending
    <2> QED  BY <2>2, Zenon
  <1>5. PICK t \in Nat : t = rows * n  BY <1>1, Products
  <1>6. PICK v \in Nat : v = audit.next[k] + t  BY <1>1, <1>2
  <1>7. audit' = [audit EXCEPT !.draws[k] = u, !.next[k] = v]
    BY <1>3, <1>4, <1>5, <1>6 DEF Takes, Recorded, AuditBlock
  <1>8. audit' = [on |-> audit.on, draws |-> [audit.draws EXCEPT ![k] = u],
                  next |-> [audit.next EXCEPT ![k] = v]]
    BY <1>2, <1>7
  <1>9. PICK nd \in [Kinds -> Seq(AuditDraws)] :
          nd = [audit.draws EXCEPT ![k] = u] /\ Replaced(nd, audit.draws, Kinds, k, u)
    <2>1. /\ [audit.draws EXCEPT ![k] = u] \in [Kinds -> Seq(AuditDraws)]
          /\ Replaced([audit.draws EXCEPT ![k] = u], audit.draws, Kinds, k, u)
      BY <1>1, <1>2, Replacing
    <2> QED  BY <2>1, Zenon
  <1>9a. PICK nn \in [Kinds -> Nat] :
          nn = [audit.next EXCEPT ![k] = v] /\ Replaced(nn, audit.next, Kinds, k, v)
    <2>1. /\ [audit.next EXCEPT ![k] = v] \in [Kinds -> Nat]
          /\ Replaced([audit.next EXCEPT ![k] = v], audit.next, Kinds, k, v)
      BY <1>1, <1>2, Replacing
    <2> QED  BY <2>1, Zenon
  <1>10. audit' = [on |-> audit.on, draws |-> nd, next |-> nn]  BY <1>8, <1>9, <1>9a
  <1>11. audit.on \in BOOLEAN  BY DEF StreamTypes
  <1>12. audit'.draws = nd /\ audit'.next = nn /\ audit'.on
    BY <1>10
  <1>13. audit' \in [on : BOOLEAN, draws : [Kinds -> Seq(AuditDraws)], next : [Kinds -> Nat]]
    BY <1>10, <1>11
  <1> QED  BY <1>3, <1>4, <1>5, <1>6, <1>9, <1>9a, <1>12, <1>13 DEF Replaced, Records, AuditTypes

\* A draw is counted.
LEMMA TakesCounts ==
    ASSUME StreamTypes, NEW k \in Kinds, NEW rows \in Nat \ {0}, NEW n \in Nat
    PROVE  /\ Counted(k, rows, n) \in [sub : Nat, full : Nat, domains : Nat]
           /\ Counted(k, rows, n).domains # 0
  <1>1. PICK t \in Nat : t = rows * n  BY Products
  <1>2. PICK x \in Nat, y \in Nat, z \in Nat : counters = [sub |-> x, full |-> y, domains |-> z]
    BY DEF StreamTypes
  <1>3. PICK w \in Nat : w = z + rows /\ w # 0  OBVIOUS
  <1>4. CASE k = "sub"
    <2>1. PICK v \in Nat : v = x + t  OBVIOUS
    <2>2. Counted(k, rows, n) = [counters EXCEPT !["sub"] = v, !["domains"] = w]
      <3>1. counters["sub"] + rows * n = v /\ counters["domains"] + rows = w
        BY <1>1, <1>2, <1>3, <2>1
      <3> QED  BY <3>1, <1>4 DEF Counted
    <2>3. Counted(k, rows, n) = [sub |-> v, full |-> y, domains |-> w]
      BY <1>2, <2>2
    <2> QED  BY <2>3, <1>3
  <1>5. CASE k = "full"
    <2>1. PICK v \in Nat : v = y + t  OBVIOUS
    <2>2. Counted(k, rows, n) = [counters EXCEPT !["full"] = v, !["domains"] = w]
      <3>1. counters["full"] + rows * n = v /\ counters["domains"] + rows = w
        BY <1>1, <1>2, <1>3, <2>1
      <3> QED  BY <3>1, <1>5 DEF Counted
    <2>3. Counted(k, rows, n) = [sub |-> x, full |-> v, domains |-> w]
      BY <1>2, <2>2
    <2> QED  BY <2>3, <1>3
  <1> QED  BY <1>4, <1>5 DEF Kinds

\* A draw keeps the audit in step with the allocations.
LEMMA TakesFollows ==
    ASSUME StreamTypes, AuditFollows,
           NEW k, NEW role, NEW base, NEW rows, NEW n, Takes(k, role, base, rows, n)
    PROVE  /\ audit' \in AuditTypes
           /\ audit'.on = audit.on
           /\ AuditFollows'
  <1>1. k \in Kinds /\ role \in Roles /\ base \in Nat /\ rows \in Nat \ {0} /\ n \in Nat
    BY StreamAssumption DEF Takes, Domains
  <1>2. counters'.domains # 0
    BY <1>1, TakesCounts DEF Takes
  <1>3. CASE ~audit.on
    <2>1. audit' = audit  BY <1>3 DEF Takes, Recorded
    <2> QED  BY <2>1, <1>2, <1>3 DEF AuditFollows, StreamTypes, AuditTypes
  <1>4. CASE audit.on
    <2>1. audit' \in AuditTypes /\ Records(k, role, base, rows, n)
      BY <1>4, TakesRecords
    <2>3. audit'.draws[k] = audit.draws[k] \o AuditBlock(role, base, rows, audit.next[k], n)
      BY <2>1 DEF Records
    <2>4. audit'.next[k] = audit.next[k] + rows * n
      BY <2>1 DEF Records
    <2>5. \A j \in Kinds : j # k => audit'.draws[j] = audit.draws[j] /\ audit'.next[j] = audit.next[j]
      BY <2>1 DEF Records
    <2>8. audit'.on  BY <2>1 DEF Records
    <2>6. cursor'[k] = cursor[k] + rows * n
      BY TakesAllocates
    <2>7. \A j \in Kinds : j # k => alloc'[j] = alloc[j] /\ cursor'[j] = cursor[j]
      BY TakesAllocates
    <2>2. ASSUME NEW j \in Kinds
          PROVE  audit'.next[j] = cursor'[j] /\ SameEntries(audit'.draws[j], alloc'[j])
      <3>1. audit.next[j] = cursor[j] /\ SameEntries(audit.draws[j], alloc[j])
        BY <1>4 DEF AuditFollows
      <3>2. CASE j # k
        BY <3>1, <3>2, <2>5, <2>7
      <3>3. CASE j = k
        <4>1. PICK c \in Nat : c = cursor[k] /\ c = audit.next[k]
          BY <3>1, <3>3 DEF StreamTypes
        <4>2. PICK f \in [1..rows -> Allocations] : f = Block(base, rows, c, n)
          BY <4>1, TakesAllocates
        <4>3. PICK g \in [1..rows -> AuditDraws] : g = AuditBlock(role, base, rows, c, n)
          BY <4>1, <2>1 DEF Records
        <4>4. \A i \in 1..rows : g[i].dom = f[i].dom /\ g[i].off = f[i].off /\ g[i].n = f[i].n
          BY <4>2, <4>3 DEF Block, AuditBlock
        <4>5. alloc[k] \in Seq(Allocations) /\ audit.draws[k] \in Seq(AuditDraws) /\ rows \in Nat
          BY <1>1 DEF StreamTypes
        <4>6. SameEntries(audit.draws[k] \o g, alloc[k] \o f)
          BY <3>1, <3>3, <4>4, <4>5, BlocksAgree
        <4>7. audit'.draws[k] = audit.draws[k] \o g
          BY <4>1, <4>3, <2>3
        <4>8. alloc'[k] = alloc[k] \o f
          BY <4>1, <4>2, <1>1 DEF Takes, Allocated, Block, StreamTypes
        <4>9. audit'.next[k] = cursor'[k]
          BY <4>1, <2>4, <2>6
        <4> QED  BY <3>3, <4>6, <4>7, <4>8, <4>9
      <3> QED  BY <3>2, <3>3
    <2> QED  BY <2>1, <2>2, <2>8, <1>2, <1>4 DEF AuditFollows
  <1>5. audit.on \in BOOLEAN  BY DEF StreamTypes
  <1> QED  BY <1>3, <1>4, <1>5

\* A draw keeps the rows below the cursor tiled.
LEMMA TakesTiles ==
    ASSUME StreamTypes, Tiled,
           NEW k, NEW role, NEW base, NEW rows, NEW n, Takes(k, role, base, rows, n)
    PROVE  Tiled'
  <1>1. k \in Kinds /\ base \in Nat /\ rows \in Nat \ {0} /\ rows \in Nat /\ n \in Nat
    BY StreamAssumption DEF Takes, Domains
  <1>2. PICK c \in Nat : c = cursor[k]  BY <1>1 DEF StreamTypes
  <1>3. PICK f \in [1..rows -> Allocations] :
          f = Block(base, rows, c, n) /\ Extended(alloc'[k], alloc[k], rows, f)
    BY <1>2, TakesAllocates
  <1>4. /\ alloc[k] \in Seq(Allocations) /\ alloc'[k] \in Seq(Allocations)
        /\ cursor'[k] = c + rows * n
    BY <1>1, <1>2, TakesAllocates DEF StreamTypes
  <1>5. TiledBy(alloc'[k], c + rows * n)
    <2>1. \A i \in 1..rows : f[i].off = c + (i - 1) * n /\ f[i].n = n
      BY <1>3 DEF Block
    <2>2. TiledBy(alloc[k], c)  BY <1>1, <1>2 DEF Tiled
    <2>3. PICK s \in Seq(Allocations), u \in Seq(Allocations) : s = alloc[k] /\ u = alloc'[k]
      BY <1>4, Zenon
    <2>4. TiledBy(s, c) /\ Extended(u, s, rows, f)  BY <2>2, <2>3, <1>3
    <2>5. TiledBy(u, c + rows * n)  BY <2>1, <2>4, <1>1, TiledBlock
    <2> QED  BY <2>3, <2>5
  <1>6. Owned(alloc'[k], consumed'[k])
    <2>1. PICK a \in Nat : Len(alloc[k]) = a  BY <1>4, LenProperties
    <2>2. Len(alloc'[k]) = a + rows  BY <2>1, <1>3 DEF Extended
    <2>3. ASSUME NEW i \in 1..(a + rows)
          PROVE  consumed'[k][alloc'[k][i].dom] # Absent
      <3>1. CASE i \in 1..a
        <4>1. alloc'[k][i] = alloc[k][i]  BY <3>1, <2>1, <1>3 DEF Extended
        <4>2. alloc[k][i] \in Allocations  BY <3>1, <2>1, <1>4, ElementOfSeq
        <4>3. PICK d \in Domains : d = alloc[k][i].dom /\ consumed[k][d] # Absent
          BY <3>1, <2>1, <4>2, <1>1 DEF Tiled, Owned, Allocations
        <4>4. d \notin Span(base, rows)  BY <4>3 DEF Takes
        <4>5. consumed'[k][d] = consumed[k][d]  BY <4>4 DEF Takes
        <4> QED  BY <4>1, <4>3, <4>5
      <3>2. CASE i \notin 1..a
        <4>1. PICK j \in 1..rows : i = a + j  BY <3>2, <1>1, PastEnd
        <4>2. alloc'[k][i] = f[j]  BY <4>1, <2>1, <1>3 DEF Extended
        <4>3. f[j].dom = base + j - 1  BY <1>3 DEF Block
        <4>4. base + j - 1 \in Span(base, rows)  BY <1>1 DEF Span
        <4>5. consumed'[k][base + j - 1] = n  BY <4>4 DEF Takes
        <4>6. n # Absent  BY <1>1 DEF Absent
        <4> QED  BY <4>2, <4>3, <4>5, <4>6
      <3> QED  BY <3>1, <3>2
    <2> QED  BY <2>2, <2>3 DEF Owned
  <1>7. cursor'[k] <= Pool[k]
    BY <1>2, <1>4 DEF Takes
  <1>8. ASSUME NEW j \in Kinds, j # k
        PROVE  /\ TiledBy(alloc'[j], cursor'[j])
               /\ Owned(alloc'[j], consumed'[j])
               /\ cursor'[j] <= Pool[j]
    <2>1. alloc'[j] = alloc[j] /\ cursor'[j] = cursor[j] /\ consumed'[j] = consumed[j]
      <3>1. \A i \in Kinds : i # k => alloc'[i] = alloc[i] /\ cursor'[i] = cursor[i]
        BY TakesAllocates
      <3>2. consumed'[j] = consumed[j]  BY <1>8 DEF Takes
      <3> QED  BY <1>8, <3>1, <3>2
    <2> QED  BY <2>1 DEF Tiled
  <1>9. ASSUME NEW j \in Kinds
        PROVE  /\ TiledBy(alloc'[j], cursor'[j])
               /\ Owned(alloc'[j], consumed'[j])
               /\ cursor'[j] <= Pool[j]
    BY <1>4, <1>5, <1>6, <1>7, <1>8
  <1> QED  BY <1>9 DEF Tiled

-----------------------------------------------------------------------------
(* The operations of the stream that take rows.                            *)

\* reserve_sub_mask_rows takes its rows and nothing else.
LEMMA SubTakes ==
    ASSUME StreamTypes, NEW base \in Domains, NEW rows \in 1..MaxRows, NEW cols \in Counts,
           ReserveSubRows(base, rows, cols)
    PROVE  /\ Takes("sub", "direct", base, rows, cols)
           /\ consumed' \in [Kinds -> [Domains -> Int]]
           /\ batch' = batch
  <1>1. cols \in Nat /\ rows \in Nat \ {0} /\ base \in Nat /\ Limit \in Nat
    BY StreamAssumption DEF Domains
  <1>2. \A d \in Span(base, rows) : d \in Domains /\ consumed["sub"][d] = Absent
    <2>1. ASSUME NEW d \in Span(base, rows) PROVE d \in Domains
      BY <1>1 DEF Span, Domains, ReserveSubRows
    <2> QED  BY <2>1 DEF ReserveSubRows, SubRowsFree, Span
  <1>3. PICK g \in [Domains -> Int] :
          g = [d \in Domains |-> IF d \in Span(base, rows) THEN cols ELSE consumed["sub"][d]]
    <2>1. \A d \in Domains : consumed["sub"][d] \in Int  BY DEF StreamTypes, Kinds
    <2>2. [d \in Domains |-> IF d \in Span(base, rows) THEN cols ELSE consumed["sub"][d]]
            \in [Domains -> Int]
      <3>1. cols \in Int  BY <1>1
      <3>2. \A d \in Domains : (IF d \in Span(base, rows) THEN cols ELSE consumed["sub"][d]) \in Int
        BY <2>1, <3>1, Zenon
      <3> QED  BY <3>2, Zenon
    <2> QED  BY <2>2, Zenon
  <1>4. consumed' = [consumed EXCEPT !["sub"] = g]
    BY <1>3 DEF ReserveSubRows, Span
  <1>5. consumed \in [Kinds -> [Domains -> Int]] /\ "sub" \in Kinds  BY DEF StreamTypes, Kinds
  <1>6. consumed' \in [Kinds -> [Domains -> Int]] /\ Replaced(consumed', consumed, Kinds, "sub", g)
    BY <1>4, <1>5, Replacing
  <1>7. cursor["sub"] + rows * cols <= Pool["sub"]
    <2>1. cursor["sub"] \in Nat /\ Pool["sub"] \in Nat /\ rows * cols \in Nat
      BY <1>1, StreamAssumption, Products DEF StreamTypes, Kinds
    <2> QED  BY <2>1 DEF ReserveSubRows, Remaining
  <1>8. /\ \A d \in Span(base, rows) : consumed'["sub"][d] = cols
        /\ \A d \in Domains : d \notin Span(base, rows) => consumed'["sub"][d] = consumed["sub"][d]
        /\ \A j \in Kinds : j # "sub" => consumed'[j] = consumed[j]
    BY <1>2, <1>3, <1>6 DEF Replaced
  <1>9. /\ cursor' = [cursor EXCEPT !["sub"] = @ + rows * cols]
        /\ alloc' = Allocated("sub", base, rows, cols)
        /\ counters' = Counted("sub", rows, cols)
        /\ audit' = Recorded("sub", "direct", base, rows, cols)
        /\ batch' = batch
    BY DEF ReserveSubRows
  <1> QED  BY <1>1, <1>2, <1>5, <1>6, <1>7, <1>8, <1>9 DEF Takes, Roles

\* draw_fulls opens its domain and counts it; it takes its rows if the pool
\* has them, and no other part of the stream if not.
LEMMA FullTakes ==
    ASSUME StreamTypes, NEW dom, NEW n \in Nat, NEW role \in Roles, OpenFull(dom, n, role)
    PROVE  /\ Fits(n) => Takes("full", role, dom, 1, n)
           /\ ~Fits(n) => UNCHANGED <<cursor, alloc, audit>>
           /\ consumed' \in [Kinds -> [Domains -> Int]]
           /\ \A k \in Kinds : \A d \in Domains : consumed[k][d] # Absent => consumed'[k][d] # Absent
           /\ counters' = Counted("full", 1, n)
  <1>1. dom \in Domains /\ consumed["full"][dom] = Absent /\ dom \in Nat
    BY StreamAssumption DEF OpenFull, Domains
  <1>2. consumed \in [Kinds -> [Domains -> Int]] /\ "full" \in Kinds
    BY DEF StreamTypes, Kinds
  <1>3. PICK h \in [Domains -> Int] : h = consumed["full"]  BY <1>2
  <1>4. PICK g \in [Domains -> Int] : g = [h EXCEPT ![dom] = n] /\ Replaced(g, h, Domains, dom, n)
    <2>0. n \in Int  OBVIOUS
    <2>1. [h EXCEPT ![dom] = n] \in [Domains -> Int] /\ Replaced([h EXCEPT ![dom] = n], h, Domains, dom, n)
      BY <2>0, <1>1, Replacing
    <2> QED  BY <2>1, Zenon
  <1>5. consumed' = [consumed EXCEPT !["full"] = g]
    BY <1>2, <1>3, <1>4 DEF OpenFull
  <1>6. consumed' \in [Kinds -> [Domains -> Int]] /\ Replaced(consumed', consumed, Kinds, "full", g)
    BY <1>2, <1>5, Replacing
  <1>7. counters' = Counted("full", 1, n)  BY DEF OpenFull
  <1>8. ASSUME NEW k \in Kinds, NEW d \in Domains, consumed[k][d] # Absent
        PROVE  consumed'[k][d] # Absent
    <2>1. CASE k = "full" /\ d = dom
      BY <2>1, <1>1, <1>8
    <2>2. CASE k = "full" /\ d # dom
      BY <2>2, <1>3, <1>4, <1>6, <1>8 DEF Replaced
    <2>3. CASE k # "full"
      BY <2>3, <1>6, <1>8 DEF Replaced
    <2> QED  BY <2>1, <2>2, <2>3
  <1>9. ASSUME Fits(n)
        PROVE  Takes("full", role, dom, 1, n)
    <2>1. \A d : d \in Span(dom, 1) <=> d = dom  BY <1>1 DEF Span
    <2>2. 1 * n = n /\ 1 \in Nat \ {0}  OBVIOUS
    <2>3. cursor["full"] + 1 * n <= Pool["full"]
      <3>1. cursor["full"] \in Nat /\ Pool["full"] \in Nat
        BY <1>2, StreamAssumption DEF StreamTypes
      <3> QED  BY <3>1, <2>2, <1>9 DEF Fits, Remaining
    <2>4. /\ \A d \in Span(dom, 1) : d \in Domains /\ consumed["full"][d] = Absent
          /\ \A d \in Span(dom, 1) : consumed'["full"][d] = n
          /\ \A d \in Domains : d \notin Span(dom, 1) => consumed'["full"][d] = consumed["full"][d]
          /\ \A j \in Kinds : j # "full" => consumed'[j] = consumed[j]
      BY <2>1, <1>1, <1>3, <1>4, <1>6 DEF Replaced
    <2>5. cursor' = [cursor EXCEPT !["full"] = @ + 1 * n]
      <3>1. cursor' = [cursor EXCEPT !["full"] = @ + n]  BY <1>9 DEF OpenFull
      <3>2. cursor["full"] + n = cursor["full"] + 1 * n  BY <2>2
      <3> QED  BY <3>1, <3>2
    <2>6. alloc' = Allocated("full", dom, 1, n) /\ audit' = Recorded("full", role, dom, 1, n)
      BY <1>9 DEF OpenFull
    <2> QED  BY <2>2, <2>3, <2>4, <2>5, <2>6, <1>1, <1>2, <1>7 DEF Takes
  <1>10. ~Fits(n) => UNCHANGED <<cursor, alloc, audit>>  BY DEF OpenFull
  <1> QED  BY <1>6, <1>7, <1>8, <1>9, <1>10

-----------------------------------------------------------------------------
(* The sidecars.                                                           *)

SidecarTypes == [phase : {"off", "open", "closed"}, draws : Seq(SidecarDraws), masks : Nat]

SidecarBlock(k, role, base, rows, off, n) ==
    [i \in 1..rows |->
        [dom |-> base + i - 1, off |-> off + (i - 1) * n, n |-> n,
         role |-> role, corrected |-> role = "product", tagged |-> k = "full"]]

SamePhases(sc) == \A k \in Kinds : sc[k].phase = sidecar[k].phase

\* The entries that a recorder adds have their type.
LEMMA SidecarBlockType ==
    ASSUME NEW k, NEW role \in Roles, NEW base \in Nat, NEW rows \in Nat \ {0},
           NEW off \in Nat, NEW n \in Nat, \A d \in Span(base, rows) : d \in Domains
    PROVE  SidecarBlock(k, role, base, rows, off, n) \in [1..rows -> SidecarDraws]
  <1>1. ASSUME NEW i \in 1..rows PROVE base + i - 1 \in Domains
    BY DEF Span
  <1>2. ASSUME NEW i \in 1..rows PROVE off + (i - 1) * n \in Nat
    <2>1. i - 1 \in Nat  OBVIOUS
    <2> QED  BY <2>1, Products
  <1>3. (role = "product") \in BOOLEAN /\ (k = "full") \in BOOLEAN  BY Zenon
  <1>4. PICK b1 \in BOOLEAN, b2 \in BOOLEAN : b1 = (role = "product") /\ b2 = (k = "full")
    BY <1>3, Zenon
  <1>5. ASSUME NEW i \in 1..rows
        PROVE  [dom |-> base + i - 1, off |-> off + (i - 1) * n, n |-> n,
                role |-> role, corrected |-> b1, tagged |-> b2] \in SidecarDraws
    <2>1. PICK x \in Domains, y \in Nat : x = base + i - 1 /\ y = off + (i - 1) * n
      BY <1>1, <1>2
    <2>2. [dom |-> x, off |-> y, n |-> n, role |-> role, corrected |-> b1, tagged |-> b2]
            \in SidecarDraws
      BY Zenon DEF SidecarDraws
    <2> QED  BY <2>1, <2>2
  <1>6. SidecarBlock(k, role, base, rows, off, n)
          = [i \in 1..rows |->
               [dom |-> base + i - 1, off |-> off + (i - 1) * n, n |-> n,
                role |-> role, corrected |-> b1, tagged |-> b2]]
    BY <1>4, Zenon DEF SidecarBlock
  <1> QED  BY <1>5, <1>6, Zenon

\* A recorder that a draw extends keeps its phase.
LEMMA CollectedTypes ==
    ASSUME WitnessTypes, NEW k \in Kinds, NEW role \in Roles, NEW base \in Nat,
           NEW rows \in Nat \ {0}, NEW n \in Nat, \A d \in Span(base, rows) : d \in Domains
    PROVE  /\ Collected(k, role, base, rows, n) \in [Kinds -> SidecarTypes]
           /\ SamePhases(Collected(k, role, base, rows, n))
  <1>0. sidecar \in [Kinds -> SidecarTypes]  BY DEF WitnessTypes, SidecarTypes
  <1>1. CASE sidecar[k].phase # "open"
    BY <1>0, <1>1 DEF Collected, SamePhases
  <1>2. CASE sidecar[k].phase = "open"
    <2>1. PICK ds \in Seq(SidecarDraws), m \in Nat :
            sidecar[k] = [phase |-> "open", draws |-> ds, masks |-> m]
      <3>1. sidecar[k] \in SidecarTypes  BY <1>0
      <3> QED  BY <3>1, <1>2 DEF SidecarTypes
    <2>2. PICK f \in [1..rows -> SidecarDraws] : f = SidecarBlock(k, role, base, rows, m, n)
      BY SidecarBlockType
    <2>3. PICK u \in Seq(SidecarDraws) : u = ds \o f
      <3>1. rows \in Nat  OBVIOUS
      <3>2. ds \o f \in Seq(SidecarDraws)  BY <3>1, Appending
      <3> QED  BY <3>2, Zenon
    <2>4. PICK v \in Nat : v = m + rows * n
      BY Products
    <2>5. PICK r \in SidecarTypes : r = [phase |-> "open", draws |-> u, masks |-> v]
      <3>1. [phase |-> "open", draws |-> u, masks |-> v] \in SidecarTypes
        BY Zenon DEF SidecarTypes
      <3> QED  BY <3>1, Zenon
    <2>6. Collected(k, role, base, rows, n) = [sidecar EXCEPT ![k].draws = u, ![k].masks = v]
      <3>1. sidecar[k].draws = ds /\ sidecar[k].masks = m  BY <2>1
      <3> QED  BY <3>1, <1>2, <2>2, <2>3, <2>4 DEF Collected, SidecarBlock
    <2>7. [sidecar EXCEPT ![k].draws = u, ![k].masks = v] = [sidecar EXCEPT ![k] = r]
      <3>1. PICK q : q = [phase |-> "open", draws |-> u, masks |-> m]  OBVIOUS
      <3>2. [sidecar[k] EXCEPT !.draws = u] = q  BY <2>1, <3>1
      <3>3. [q EXCEPT !.masks = v] = r  BY <2>5, <3>1
      <3>4. PICK t : t = [sidecar EXCEPT ![k] = q]  OBVIOUS
      <3>5. t[k] = q /\ t = [j \in Kinds |-> IF j = k THEN q ELSE sidecar[j]]  BY <3>4, <1>0
      <3>6. [t EXCEPT ![k].masks = v] = [sidecar EXCEPT ![k] = r]
        <4>1. [t EXCEPT ![k].masks = v] = [t EXCEPT ![k] = r]  BY <3>3, <3>5
        <4> QED  BY <4>1, <3>5, <1>0
      <3>7. [sidecar EXCEPT ![k].draws = u] = t  BY <3>2, <3>4, <1>0
      <3> QED  BY <3>6, <3>7
    <2>8. /\ [sidecar EXCEPT ![k] = r] \in [Kinds -> SidecarTypes]
          /\ Replaced([sidecar EXCEPT ![k] = r], sidecar, Kinds, k, r)
      BY <1>0, Replacing
    <2>9. PICK sc \in [Kinds -> SidecarTypes] :
            sc = Collected(k, role, base, rows, n) /\ Replaced(sc, sidecar, Kinds, k, r)
      BY <2>6, <2>7, <2>8, Zenon
    <2>10. r.phase = sidecar[k].phase  BY <2>1, <2>5
    <2>11. SamePhases(sc)  BY <2>9, <2>10 DEF SamePhases, Replaced
    <2> QED  BY <2>9, <2>11
  <1> QED  BY <1>1, <1>2

\* A draw that a closed sidecar lets through leaves what was sealed in place.
LEMMA SealedExtends ==
    ASSUME StreamTypes, WitnessTypes, Phases, SealedAll,
           NEW k, NEW role, NEW base, NEW rows, NEW n, Takes(k, role, base, rows, n),
           DrawAllowed(k), UNCHANGED <<sealed, post>>
    PROVE  SealedAll'
  <1>1. k \in Kinds /\ rows \in Nat  BY DEF Takes
  <1>2. \A j \in Kinds : j # k => alloc'[j] = alloc[j]  BY TakesAllocates
  <1>3. ASSUME NEW j \in Kinds, sealed'[j].returned
        PROVE  Sealed(sealed'[j].draws, alloc'[j], post')
    <2>1. Sealed(sealed[j].draws, alloc[j], post)
      BY <1>3 DEF SealedAll
    <2>2. CASE j # k
      BY <2>1, <2>2, <1>2
    <2>3. CASE j = k
      <3>1. post  BY <1>3, <2>3 DEF Phases, DrawAllowed
      <3>2. PICK a \in Nat : Len(alloc[k]) = a
        BY <1>1, LenProperties DEF StreamTypes
      <3>3. PICK b \in Nat : Len(sealed[k].draws) = b
        BY <1>1, LenProperties DEF WitnessTypes
      <3>4. Len(alloc'[k]) = a + rows /\ \A i \in 1..a : alloc'[k][i] = alloc[k][i]
        <4>1. Extended(alloc'[k], alloc[k], rows, Block(base, rows, cursor[k], n))
          BY TakesAllocates
        <4> QED  BY <4>1, <3>2 DEF Extended
      <3>5. b <= a  BY <2>1, <2>3, <3>2, <3>3 DEF Sealed
      <3>6. b <= a + rows /\ \A i \in 1..b : i \in 1..a  BY <3>5, <1>1
      <3>7. ASSUME NEW i \in 1..b
            PROVE  /\ sealed[k].draws[i].dom = alloc'[k][i].dom
                   /\ sealed[k].draws[i].off = alloc'[k][i].off
                   /\ sealed[k].draws[i].n = alloc'[k][i].n
                   /\ sealed[k].draws[i].corrected /\ sealed[k].draws[i].tagged
        <4>1. alloc'[k][i] = alloc[k][i]  BY <3>4, <3>6
        <4> QED  BY <4>1, <2>1, <2>3, <3>3 DEF Sealed
      <3>8. Sealed(sealed[k].draws, alloc'[k], post)
        BY <3>1, <3>3, <3>4, <3>6, <3>7 DEF Sealed
      <3> QED  BY <3>8, <2>3
    <2> QED  BY <2>2, <2>3
  <1> QED  BY <1>3 DEF SealedAll

\* Sidecars that keep their phases keep Phases, when the audit stays on.
LEMMA PhasesKept ==
    ASSUME Phases, SamePhases(sidecar'), audit'.on = audit.on, sealed' = sealed
    PROVE  Phases'
  BY DEF Phases, SamePhases

BatchTypes == [active : BOOLEAN, ranges : Seq(FullRanges), drawn : SUBSET (Nat \X Nat)]

\* draw_subs and reserve_sub_mask_rows keep the invariant.
LEMMA DrawSubsKeeps ==
    ASSUME CInv, NEW base \in Domains, NEW rows \in 1..MaxRows, NEW cols \in Counts,
           DrawSubs(base, rows, cols)
    PROVE  CInv'
  <1>1. StreamTypes /\ WitnessTypes /\ AuditFollows /\ Phases /\ SealedAll /\ Tiled
    BY DEF CInv
  <1>2. /\ DrawAllowed("sub") /\ ReserveSubRows(base, rows, cols)
        /\ sidecar' = Collected("sub", "direct", base, rows, cols) /\ UNCHANGED <<sealed, post>>
    BY DEF DrawSubs
  <1>3. /\ Takes("sub", "direct", base, rows, cols)
        /\ consumed' \in [Kinds -> [Domains -> Int]] /\ batch' = batch
    BY <1>1, <1>2, SubTakes
  <1>4. AuditFollows' /\ audit'.on = audit.on /\ audit' \in AuditTypes
    BY <1>1, <1>3, TakesFollows
  <1>5. Tiled'  BY <1>1, <1>3, TakesTiles
  <1>6. SealedAll'  BY <1>1, <1>2, <1>3, SealedExtends
  <1>7. sidecar' \in [Kinds -> SidecarTypes] /\ SamePhases(sidecar')
    <2>1. /\ base \in Nat /\ rows \in Nat \ {0} /\ cols \in Nat
          /\ \A d \in Span(base, rows) : d \in Domains
      BY <1>3, StreamAssumption DEF Takes, Domains
    <2>2. "sub" \in Kinds /\ "direct" \in Roles  BY DEF Kinds, Roles
    <2>3. /\ Collected("sub", "direct", base, rows, cols) \in [Kinds -> SidecarTypes]
          /\ SamePhases(Collected("sub", "direct", base, rows, cols))
      BY <1>1, <2>1, <2>2, CollectedTypes
    <2> QED  BY <1>2, <2>3
  <1>8. Phases'  BY <1>1, <1>2, <1>4, <1>7, PhasesKept
  <1>9. alloc' \in [Kinds -> Seq(Allocations)] /\ cursor' \in [Kinds -> Nat]
    BY <1>1, <1>3, TakesAllocates
  <1>10. counters' \in [sub : Nat, full : Nat, domains : Nat]
    <2>1. "sub" \in Kinds /\ rows \in Nat \ {0} /\ cols \in Nat
      BY <1>3 DEF Takes
    <2>2. counters' = Counted("sub", rows, cols)  BY <1>3 DEF Takes
    <2> QED  BY <1>1, <2>1, <2>2, TakesCounts
  <1>11. batch' \in BatchTypes  BY <1>1, <1>3 DEF StreamTypes, BatchTypes
  <1>12. StreamTypes'
    BY <1>3, <1>4, <1>9, <1>10, <1>11 DEF StreamTypes, AuditTypes, BatchTypes
  <1>13. WitnessTypes'
    BY <1>1, <1>2, <1>7 DEF WitnessTypes, SidecarTypes
  <1> QED  BY <1>4, <1>5, <1>6, <1>8, <1>12, <1>13 DEF CInv

\* A draw of full-field rows keeps the invariant, on its own or in a batch,
\* and also when the pool is too small for it and it panics half-way.
LEMMA FullDrawKeeps ==
    ASSUME CInv, NEW dom, NEW n \in Nat, NEW role \in Roles,
           DrawAllowed("full"), OpenFull(dom, n, role), sidecar' = CollectedFull(dom, n, role),
           UNCHANGED <<sealed, post>>, batch' \in BatchTypes
    PROVE  CInv'
  <1>1. StreamTypes /\ WitnessTypes /\ AuditFollows /\ Phases /\ SealedAll /\ Tiled
    BY DEF CInv
  <1>2. /\ Fits(n) => Takes("full", role, dom, 1, n)
        /\ ~Fits(n) => UNCHANGED <<cursor, alloc, audit>>
        /\ consumed' \in [Kinds -> [Domains -> Int]]
        /\ counters' = Counted("full", 1, n)
    BY <1>1, FullTakes
  <1>3. \A k \in Kinds : \A d \in Domains : consumed[k][d] # Absent => consumed'[k][d] # Absent
    BY <1>1, FullTakes
  <1>4. "full" \in Kinds /\ 1 \in Nat \ {0}  BY DEF Kinds
  <1>5. counters' \in [sub : Nat, full : Nat, domains : Nat] /\ counters'.domains # 0
    BY <1>1, <1>2, <1>4, TakesCounts
  <1>6. CASE Fits(n)
    <2>1. Takes("full", role, dom, 1, n)  BY <1>2, <1>6
    <2>2. AuditFollows' /\ audit'.on = audit.on /\ audit' \in AuditTypes
      BY <1>1, <2>1, TakesFollows
    <2>3. Tiled'  BY <1>1, <2>1, TakesTiles
    <2>4. SealedAll'  BY <1>1, <2>1, SealedExtends
    <2>5. sidecar' \in [Kinds -> SidecarTypes] /\ SamePhases(sidecar')
      <3>1. CASE n > 0
        <4>1. sidecar' = Collected("full", role, dom, 1, n)  BY <3>1, <1>6 DEF CollectedFull
        <4>2. dom \in Nat /\ \A d \in Span(dom, 1) : d \in Domains
          BY <2>1, StreamAssumption DEF Takes, Domains
        <4>3. /\ Collected("full", role, dom, 1, n) \in [Kinds -> SidecarTypes]
              /\ SamePhases(Collected("full", role, dom, 1, n))
          BY <1>1, <1>4, <4>2, CollectedTypes
        <4> QED  BY <4>1, <4>3
      <3>2. CASE ~(n > 0)
        <4>1. sidecar' = sidecar  BY <3>2 DEF CollectedFull
        <4> QED  BY <4>1, <1>1 DEF WitnessTypes, SidecarTypes, SamePhases
      <3> QED  BY <3>1, <3>2
    <2>6. Phases'  BY <1>1, <2>2, <2>5, PhasesKept
    <2>7. alloc' \in [Kinds -> Seq(Allocations)] /\ cursor' \in [Kinds -> Nat]
      BY <1>1, <2>1, TakesAllocates
    <2>8. StreamTypes'
      BY <1>2, <1>5, <2>2, <2>7 DEF StreamTypes, AuditTypes, BatchTypes
    <2>9. WitnessTypes'
      BY <1>1, <2>5 DEF WitnessTypes, SidecarTypes
    <2> QED  BY <2>2, <2>3, <2>4, <2>6, <2>8, <2>9 DEF CInv
  <1>7. CASE ~Fits(n)
    <2>1. cursor' = cursor /\ alloc' = alloc /\ audit' = audit /\ sidecar' = sidecar
      BY <1>2, <1>7 DEF CollectedFull
    <2>2. StreamTypes'
      BY <2>1, <1>1, <1>2, <1>5 DEF StreamTypes, BatchTypes
    <2>3. WitnessTypes' /\ Phases' /\ SealedAll'
      BY <2>1, <1>1 DEF WitnessTypes, Phases, SealedAll
    <2>4. AuditFollows'
      BY <2>1, <1>1, <1>5 DEF AuditFollows
    <2>5. ASSUME NEW k \in Kinds PROVE Owned(alloc[k], consumed'[k])
      <3>1. ASSUME NEW i \in 1..Len(alloc[k]) PROVE consumed'[k][alloc[k][i].dom] # Absent
        <4>1. alloc[k][i] \in Allocations
          BY <1>1, ElementOfSeq DEF StreamTypes
        <4>2. alloc[k][i].dom \in Domains  BY <4>1 DEF Allocations
        <4>3. consumed[k][alloc[k][i].dom] # Absent  BY <1>1 DEF Tiled, Owned
        <4> QED  BY <4>2, <4>3, <1>3
      <3> QED  BY <3>1 DEF Owned
    <2>6. Tiled'
      BY <2>1, <2>5, <1>1 DEF Tiled
    <2> QED  BY <2>2, <2>3, <2>4, <2>6 DEF CInv
  <1> QED  BY <1>6, <1>7

\* A step that leaves the ledger of draws, the pool, the audit and the
\* sidecars alone keeps the invariant.
LEMMA QuietKeeps ==
    ASSUME CInv, UNCHANGED <<consumed, cursor, alloc, counters, audit, witnessVars>>,
           batch' \in BatchTypes
    PROVE  CInv'
  <1>1. StreamTypes' /\ WitnessTypes'
    BY DEF CInv, StreamTypes, WitnessTypes, BatchTypes, witnessVars
  <1>2. AuditFollows' /\ Phases' /\ SealedAll' /\ Tiled'
    BY DEF CInv, AuditFollows, Phases, SealedAll, Tiled, witnessVars
  <1> QED  BY <1>1, <1>2 DEF CInv

\* A place of a batch is a pair of numbers, and its range asks for a number of
\* rows.
LEMMA PlaceTypes ==
    ASSUME StreamTypes, NEW p \in Places(batch.ranges)
    PROVE  p \in Nat \X Nat /\ batch.ranges[p[1]].count \in Nat
  <1>1. batch.ranges \in Seq(FullRanges)  BY DEF StreamTypes
  <1>2. PICK l \in Nat : Len(batch.ranges) = l  BY <1>1, LenProperties
  <1>3. PICK i \in 1..l, j \in 0..(MaxRows - 1) : p = <<i, j>>
    BY <1>2 DEF Places
  <1>4. p \in Nat \X Nat
    <2>1. i \in Nat /\ j \in Nat  BY <1>3, StreamAssumption
    <2> QED  BY <2>1, <1>3
  <1>5. batch.ranges[i] \in FullRanges  BY <1>1, <1>2, ElementOfSeq
  <1>6. batch.ranges[i].count \in Counts  BY <1>5 DEF FullRanges
  <1>7. p[1] = i  BY <1>3
  <1> QED  BY <1>4, <1>6, <1>7, StreamAssumption

\* Turning the audit on before the first draw keeps it in step.
LEMMA AuditStarts ==
    ASSUME StreamTypes, AuditFollows, counters = NoCounters,
           audit' = [audit EXCEPT !.on = TRUE],
           UNCHANGED <<consumed, cursor, alloc, counters>>
    PROVE  audit' \in AuditTypes /\ audit'.on /\ AuditFollows'
  <1>1. \A k \in Kinds : cursor[k] = 0 /\ alloc[k] = <<>>
    BY DEF AuditFollows, NoCounters
  <1>2. PICK ds \in [Kinds -> Seq(AuditDraws)], nx \in [Kinds -> Nat] :
          audit.draws = ds /\ audit.next = nx
    BY DEF StreamTypes
  <1>3. audit' = [on |-> TRUE, draws |-> ds, next |-> nx]
    BY <1>2 DEF StreamTypes
  <1>4. audit' \in AuditTypes /\ audit'.on /\ audit'.draws = ds /\ audit'.next = nx
    <2>1. audit'.on /\ audit'.draws = ds /\ audit'.next = nx  BY <1>3
    <2>2. [on |-> TRUE, draws |-> ds, next |-> nx] \in AuditTypes  BY Zenon DEF AuditTypes
    <2> QED  BY <2>1, <2>2, <1>3
  <1>5. ASSUME NEW k \in Kinds
        PROVE  nx[k] = 0 /\ SameEntries(ds[k], <<>>)
    <2>1. CASE audit.on
      <3>1. audit.next[k] = cursor[k] /\ SameEntries(audit.draws[k], alloc[k])
        BY <2>1 DEF AuditFollows
      <3> QED  BY <3>1, <1>1, <1>2
    <2>2. CASE ~audit.on
      <3>1. audit = NewAudit  BY <2>2 DEF AuditFollows
      <3>2. ds[k] = <<>> /\ nx[k] = 0  BY <3>1, <1>2 DEF NewAudit
      <3> QED  BY <3>2 DEF SameEntries
    <2> QED  BY <2>1, <2>2
  <1>6. \A k \in Kinds : audit'.next[k] = cursor'[k] /\ SameEntries(audit'.draws[k], alloc'[k])
    BY <1>1, <1>4, <1>5
  <1>7. \A k \in Kinds : cursor'[k] = 0 /\ alloc'[k] = <<>>  BY <1>1
  <1> QED  BY <1>4, <1>6, <1>7 DEF AuditFollows

\* Enabling sidecars keeps the invariant.
LEMMA EnableKeeps ==
    ASSUME CInv, NEW ks, EnableSidecars(ks)
    PROVE  CInv'
  <1>1. StreamTypes /\ WitnessTypes /\ AuditFollows /\ Phases /\ SealedAll /\ Tiled
    BY DEF CInv
  <1>2. /\ counters = NoCounters /\ audit' = [audit EXCEPT !.on = TRUE]
        /\ UNCHANGED <<consumed, reserved, cursor, alloc, counters, batch, sealed, post>>
        /\ \A k \in ks : sidecar[k].phase = "off"
    BY DEF EnableSidecars
  <1>3. audit' \in AuditTypes /\ audit'.on /\ AuditFollows'
    BY <1>1, <1>2, AuditStarts
  <1>4. PICK ns \in SidecarTypes : ns = [NewSidecar EXCEPT !.phase = "open"] /\ ns.phase = "open"
    <2>1. <<>> \in Seq(SidecarDraws)  OBVIOUS
    <2>2. [NewSidecar EXCEPT !.phase = "open"] = [phase |-> "open", draws |-> <<>>, masks |-> 0]
      BY DEF NewSidecar
    <2>3. [phase |-> "open", draws |-> <<>>, masks |-> 0] \in SidecarTypes
      BY <2>1 DEF SidecarTypes
    <2> QED  BY <2>2, <2>3
  <1>5. sidecar \in [Kinds -> SidecarTypes]  BY <1>1 DEF WitnessTypes, SidecarTypes
  <1>6. sidecar' = [k \in Kinds |-> IF k \in ks THEN ns ELSE sidecar[k]]
    BY <1>4 DEF EnableSidecars
  <1>7. sidecar' \in [Kinds -> SidecarTypes]  BY <1>5, <1>6
  <1>8. StreamTypes' /\ WitnessTypes'
    BY <1>1, <1>2, <1>3, <1>7 DEF StreamTypes, WitnessTypes, AuditTypes, SidecarTypes
  <1>9. SealedAll' /\ Tiled'
    BY <1>1, <1>2 DEF SealedAll, Tiled
  <1>10. ASSUME NEW k \in Kinds
         PROVE  /\ sidecar'[k].phase = "open" => audit'.on
                /\ sealed'[k].returned => sidecar'[k].phase = "closed"
    <2>1. CASE k \in ks
      <3>1. ~sealed[k].returned  BY <2>1, <1>1, <1>2 DEF Phases
      <3> QED  BY <3>1, <1>2, <1>3
    <2>2. CASE k \notin ks
      BY <2>2, <1>1, <1>2, <1>3, <1>6 DEF Phases
    <2> QED  BY <2>1, <2>2
  <1> QED  BY <1>3, <1>8, <1>9, <1>10 DEF CInv, Phases

\* A change of one draw of a recorder keeps the invariant: nothing relates a
\* recorder to the pool before it is closed.
LEMMA RecorderKeeps ==
    ASSUME CInv, UNCHANGED <<streamVars, sealed, post>>,
           sidecar' \in [Kinds -> SidecarTypes], SamePhases(sidecar')
    PROVE  CInv'
  <1>1. UNCHANGED <<consumed, cursor, alloc, counters, audit, batch>>  BY DEF streamVars
  <1>2. StreamTypes'  BY <1>1 DEF CInv, StreamTypes
  <1>3. WitnessTypes'  BY DEF CInv, WitnessTypes, SidecarTypes
  <1>4. AuditFollows' /\ SealedAll' /\ Tiled'
    BY <1>1 DEF CInv, AuditFollows, SealedAll, Tiled
  <1>5. Phases'
    <2>1. Phases /\ audit'.on = audit.on /\ sealed' = sealed  BY <1>1 DEF CInv
    <2> QED  BY <2>1, PhasesKept
  <1> QED  BY <1>2, <1>3, <1>4, <1>5 DEF CInv

\* Replacing a sequence's entry by one of the same type gives a sequence.
LEMMA ReplacingEntry ==
    ASSUME NEW S, NEW s \in Seq(S), NEW i \in 1..Len(s), NEW v \in S
    PROVE  [s EXCEPT ![i] = v] \in Seq(S)
  OBVIOUS

\* Marking a draw of a recorder as tagged or corrected keeps its type.
LEMMA MarkingKeeps ==
    ASSUME WitnessTypes, NEW k \in Kinds, NEW i \in 1..Len(sidecar[k].draws)
    PROVE  /\ [sidecar EXCEPT ![k].draws[i].tagged = TRUE] \in [Kinds -> SidecarTypes]
           /\ SamePhases([sidecar EXCEPT ![k].draws[i].tagged = TRUE])
           /\ [sidecar EXCEPT ![k].draws[i].corrected = TRUE] \in [Kinds -> SidecarTypes]
           /\ SamePhases([sidecar EXCEPT ![k].draws[i].corrected = TRUE])
  <1>0. sidecar \in [Kinds -> SidecarTypes]  BY DEF WitnessTypes, SidecarTypes
  <1>1. PICK ph \in {"off", "open", "closed"}, ds \in Seq(SidecarDraws), m \in Nat :
          sidecar[k] = [phase |-> ph, draws |-> ds, masks |-> m]
    <2>1. sidecar[k] \in SidecarTypes  BY <1>0
    <2> QED  BY <2>1 DEF SidecarTypes
  <1>2. ds[i] \in SidecarDraws /\ i \in 1..Len(ds)
    BY <1>1, ElementOfSeq
  <1>3. PICK x \in SidecarDraws, y \in SidecarDraws :
          x = [ds[i] EXCEPT !.tagged = TRUE] /\ y = [ds[i] EXCEPT !.corrected = TRUE]
    <2>1. [ds[i] EXCEPT !.tagged = TRUE] \in SidecarDraws
      BY <1>2, Zenon DEF SidecarDraws
    <2>2. [ds[i] EXCEPT !.corrected = TRUE] \in SidecarDraws
      BY <1>2, Zenon DEF SidecarDraws
    <2> QED  BY <2>1, <2>2, Zenon
  <1>4. ASSUME NEW v \in SidecarDraws
        PROVE  /\ [sidecar EXCEPT ![k].draws[i] = v] \in [Kinds -> SidecarTypes]
               /\ SamePhases([sidecar EXCEPT ![k].draws[i] = v])
    <2>1. PICK u \in Seq(SidecarDraws) : u = [ds EXCEPT ![i] = v]
      <3>1. [ds EXCEPT ![i] = v] \in Seq(SidecarDraws)  BY <1>2, ReplacingEntry
      <3> QED  BY <3>1, Zenon
    <2>2. PICK r \in SidecarTypes : r = [phase |-> ph, draws |-> u, masks |-> m]
      <3>1. [phase |-> ph, draws |-> u, masks |-> m] \in SidecarTypes  BY Zenon DEF SidecarTypes
      <3> QED  BY <3>1, Zenon
    <2>3. [sidecar[k] EXCEPT !.draws[i] = v] = r
      <3>1. sidecar[k].draws = ds  BY <1>1
      <3>2. [sidecar[k] EXCEPT !.draws[i] = v] = [sidecar[k] EXCEPT !.draws = u]
        BY <3>1, <2>1
      <3>3. [sidecar[k] EXCEPT !.draws = u] = r  BY <1>1, <2>2
      <3> QED  BY <3>2, <3>3
    <2>4. [sidecar EXCEPT ![k].draws[i] = v] = [sidecar EXCEPT ![k] = r]
      BY <2>3
    <2>5. PICK sc \in [Kinds -> SidecarTypes] :
            sc = [sidecar EXCEPT ![k] = r] /\ Replaced(sc, sidecar, Kinds, k, r)
      <3>1. /\ [sidecar EXCEPT ![k] = r] \in [Kinds -> SidecarTypes]
            /\ Replaced([sidecar EXCEPT ![k] = r], sidecar, Kinds, k, r)
        BY <1>0, Replacing
      <3> QED  BY <3>1, Zenon
    <2>6. r.phase = sidecar[k].phase  BY <1>1, <2>2
    <2>7. SamePhases(sc)  BY <2>5, <2>6 DEF SamePhases, Replaced
    <2> QED  BY <2>4, <2>5, <2>7
  <1>5. sidecar[k].draws[i] = ds[i]  BY <1>1
  <1>6. /\ [sidecar EXCEPT ![k].draws[i].tagged = TRUE] = [sidecar EXCEPT ![k].draws[i] = x]
        /\ [sidecar EXCEPT ![k].draws[i].corrected = TRUE] = [sidecar EXCEPT ![k].draws[i] = y]
    BY <1>3, <1>5
  <1> QED  BY <1>4, <1>6, <1>3

SealedTypes == [returned : BOOLEAN, draws : Seq(SidecarDraws)]

\* Closing a sidecar keeps the invariant: what the audit is compared with is
\* sealed, and the audit is the allocations.
LEMMA FinishKeeps ==
    ASSUME CInv, NEW k \in Kinds, FinishCollection(k)
    PROVE  CInv'
  <1>1. StreamTypes /\ WitnessTypes /\ AuditFollows /\ Phases /\ SealedAll /\ Tiled
    BY DEF CInv
  <1>2. sidecar[k].phase = "open" /\ UNCHANGED <<streamVars, post>>
    BY DEF FinishCollection
  <1>3. UNCHANGED <<consumed, cursor, alloc, counters, audit, batch, post>>
    BY <1>2 DEF streamVars
  <1>4. audit.on  BY <1>1, <1>2 DEF Phases
  <1>5. PICK ds :
          /\ ds = IF k = "sub" THEN Tagged(sidecar[k].draws) ELSE sidecar[k].draws
          /\ sealed' = IF Complete(ds) /\ MatchesAudit(k, ds)
                       THEN [sealed EXCEPT ![k] = [returned |-> TRUE, draws |-> ds]]
                       ELSE sealed
    BY DEF FinishCollection
  <1>6. sidecar[k].draws \in Seq(SidecarDraws)  BY <1>1 DEF WitnessTypes
  <1>7. ds \in Seq(SidecarDraws)
    <2>1. Tagged(sidecar[k].draws) \in Seq(SidecarDraws)
      <3>1. PICK s \in Seq(SidecarDraws) : s = sidecar[k].draws  BY <1>6
      <3>2. ASSUME NEW i \in 1..Len(s) PROVE [s[i] EXCEPT !.tagged = TRUE] \in SidecarDraws
        <4>1. s[i] \in SidecarDraws  BY ElementOfSeq
        <4> QED  BY <4>1, Zenon DEF SidecarDraws
      <3>3. Tagged(s) \in [1..Len(s) -> SidecarDraws]
        BY <3>2, Zenon DEF Tagged
      <3>4. Len(s) \in Nat  OBVIOUS
      <3>5. Tagged(s) \in Seq(SidecarDraws)  BY <3>3, <3>4
      <3> QED  BY <3>1, <3>5
    <2> QED  BY <2>1, <1>5, <1>6
  <1>8. PICK ns \in SidecarTypes : ns = [NewSidecar EXCEPT !.phase = "closed"] /\ ns.phase = "closed"
    <2>1. <<>> \in Seq(SidecarDraws)  OBVIOUS
    <2>2. [NewSidecar EXCEPT !.phase = "closed"] = [phase |-> "closed", draws |-> <<>>, masks |-> 0]
      BY DEF NewSidecar
    <2>3. [phase |-> "closed", draws |-> <<>>, masks |-> 0] \in SidecarTypes
      BY <2>1 DEF SidecarTypes
    <2> QED  BY <2>2, <2>3
  <1>9. sidecar' \in [Kinds -> SidecarTypes] /\ Replaced(sidecar', sidecar, Kinds, k, ns)
    <2>1. sidecar \in [Kinds -> SidecarTypes]  BY <1>1 DEF WitnessTypes, SidecarTypes
    <2>2. sidecar' = [sidecar EXCEPT ![k] = ns]  BY <1>8 DEF FinishCollection
    <2> QED  BY <2>1, <2>2, Replacing
  <1>10. StreamTypes' /\ AuditFollows' /\ Tiled'
    BY <1>1, <1>3 DEF StreamTypes, AuditFollows, Tiled
  <1>11. CASE ~(Complete(ds) /\ MatchesAudit(k, ds))
    <2>1. sealed' = sealed  BY <1>5, <1>11
    <2>2. WitnessTypes'  BY <1>1, <1>3, <1>9, <2>1 DEF WitnessTypes, SidecarTypes
    <2>3. SealedAll'  BY <1>1, <1>3, <2>1 DEF SealedAll
    <2>4. ASSUME NEW j \in Kinds
          PROVE  /\ sidecar'[j].phase = "open" => audit'.on
                 /\ sealed'[j].returned => sidecar'[j].phase = "closed"
      <3>1. CASE j = k
        BY <3>1, <1>8, <1>9 DEF Replaced
      <3>2. CASE j # k
        BY <3>2, <1>1, <1>3, <1>9, <2>1 DEF Replaced, Phases
      <3> QED  BY <3>1, <3>2
    <2> QED  BY <1>10, <2>2, <2>3, <2>4 DEF CInv, Phases
  <1>12. CASE Complete(ds) /\ MatchesAudit(k, ds)
    <2>1. PICK sl : sl = [returned |-> TRUE, draws |-> ds]  OBVIOUS
    <2>2. sl \in SealedTypes /\ sl.draws = ds
      BY <2>1, <1>7, Zenon DEF SealedTypes
    <2>3. /\ sealed' \in [Kinds -> SealedTypes]
          /\ Replaced(sealed', sealed, Kinds, k, sl)
      <3>1. sealed \in [Kinds -> SealedTypes]
        BY <1>1 DEF WitnessTypes, SealedTypes
      <3>2. sealed' = [sealed EXCEPT ![k] = sl]  BY <1>5, <1>12, <2>1
      <3> QED  BY <3>1, <3>2, <2>2, Replacing
    <2>4. WitnessTypes'  BY <1>1, <1>3, <1>9, <2>3 DEF WitnessTypes, SidecarTypes, SealedTypes
    <2>5. Sealed(ds, alloc[k], post)
      <3>1. SameEntries(audit.draws[k], alloc[k])  BY <1>1, <1>4 DEF AuditFollows
      <3>2. PICK a \in Nat : a = Len(alloc[k]) /\ a = Len(audit.draws[k])
        <4>1. Len(alloc[k]) \in Nat  BY <1>1, LenProperties DEF StreamTypes
        <4> QED  BY <4>1, <3>1 DEF SameEntries
      <3>3. Len(ds) = a
        BY <1>12, <3>2 DEF MatchesAudit
      <3>4. ASSUME NEW i \in 1..a
            PROVE  /\ ds[i].dom = alloc[k][i].dom /\ ds[i].off = alloc[k][i].off
                   /\ ds[i].n = alloc[k][i].n
        <4>1. /\ ds[i].dom = audit.draws[k][i].dom /\ ds[i].off = audit.draws[k][i].off
              /\ ds[i].n = audit.draws[k][i].n
          BY <1>12, <3>2 DEF MatchesAudit
        <4> QED  BY <4>1, <3>1, <3>2 DEF SameEntries
      <3>5. \A i \in 1..a : ds[i].corrected /\ ds[i].tagged
        BY <1>12, <3>3 DEF Complete
      <3> QED  BY <3>2, <3>3, <3>4, <3>5 DEF Sealed
    <2>6. SealedAll'
      <3>1. ASSUME NEW j \in Kinds, sealed'[j].returned
            PROVE  Sealed(sealed'[j].draws, alloc'[j], post')
        <4>1. CASE j = k
          BY <4>1, <2>2, <2>3, <2>5, <1>3 DEF Replaced
        <4>2. CASE j # k
          BY <4>2, <3>1, <2>3, <1>1, <1>3 DEF Replaced, SealedAll
        <4> QED  BY <4>1, <4>2
      <3> QED  BY <3>1 DEF SealedAll
    <2>7. ASSUME NEW j \in Kinds
          PROVE  /\ sidecar'[j].phase = "open" => audit'.on
                 /\ sealed'[j].returned => sidecar'[j].phase = "closed"
      <3>1. CASE j = k
        BY <3>1, <1>8, <1>9 DEF Replaced
      <3>2. CASE j # k
        BY <3>2, <1>1, <1>3, <1>9, <2>3 DEF Replaced, Phases
      <3> QED  BY <3>1, <3>2
    <2> QED  BY <1>10, <2>4, <2>6, <2>7 DEF CInv, Phases
  <1> QED  BY <1>11, <1>12

-----------------------------------------------------------------------------
(* The invariant holds, and with it the accounts of the sidecars.          *)

\* The stream starts in the invariant.
LEMMA CInvInit == Init => CInv
  <1> SUFFICES ASSUME Init PROVE CInv  OBVIOUS
  <1>0. /\ <<>> \in Seq(Allocations) /\ <<>> \in Seq(AuditDraws)
        /\ <<>> \in Seq(SidecarDraws) /\ <<>> \in Seq(FullRanges)
    OBVIOUS
  <1>1. StreamTypes
    <2>1. consumed \in [Kinds -> [Domains -> Int]] /\ cursor \in [Kinds -> Nat]
      BY DEF Init, StreamInit, Absent
    <2>2. alloc \in [Kinds -> Seq(Allocations)]  BY <1>0 DEF Init, StreamInit
    <2>3. counters \in [sub : Nat, full : Nat, domains : Nat]  BY DEF Init, StreamInit, NoCounters
    <2>4. audit \in AuditTypes
      <3>1. [k \in Kinds |-> <<>>] \in [Kinds -> Seq(AuditDraws)]  BY <1>0, Zenon
      <3>2. [k \in Kinds |-> 0] \in [Kinds -> Nat]  OBVIOUS
      <3>3. NewAudit \in AuditTypes  BY <3>1, <3>2, Zenon DEF NewAudit, AuditTypes
      <3> QED  BY <3>3 DEF Init, StreamInit
    <2>5. batch \in BatchTypes
      <3>1. NoBatch \in BatchTypes  BY <1>0, Zenon DEF NoBatch, BatchTypes
      <3> QED  BY <3>1 DEF Init, StreamInit
    <2> QED  BY <2>1, <2>2, <2>3, <2>4, <2>5 DEF StreamTypes, AuditTypes, BatchTypes
  <1>2. WitnessTypes
    <2>1. NewSidecar \in SidecarTypes  BY <1>0 DEF NewSidecar, SidecarTypes
    <2>2. NoAudit \in SealedTypes  BY <1>0, Zenon DEF NoAudit, SealedTypes
    <2>3. sidecar \in [Kinds -> SidecarTypes]  BY <2>1, Zenon DEF Init
    <2>4. sealed \in [Kinds -> SealedTypes]  BY <2>2, Zenon DEF Init
    <2>5. post \in BOOLEAN  BY DEF Init
    <2> QED  BY <2>3, <2>4, <2>5 DEF WitnessTypes, SidecarTypes, SealedTypes
  <1>3. AuditFollows
    <2>1. audit = NewAudit /\ ~audit.on  BY DEF Init, StreamInit, NewAudit
    <2>2. \A k \in Kinds : cursor[k] = 0 /\ alloc[k] = <<>>  BY DEF Init, StreamInit
    <2> QED  BY <2>1, <2>2 DEF AuditFollows
  <1>4. Phases /\ SealedAll
    <2>1. \A k \in Kinds : sidecar[k].phase = "off" /\ ~sealed[k].returned
      BY DEF Init, NewSidecar, NoAudit
    <2> QED  BY <2>1 DEF Phases, SealedAll
  <1>5. Tiled
    <2>1. ASSUME NEW k \in Kinds
          PROVE  cursor[k] = 0 /\ alloc[k] = <<>> /\ Pool[k] \in Nat
      BY StreamAssumption DEF Init, StreamInit
    <2>2. ASSUME NEW k \in Kinds
          PROVE  TiledBy(alloc[k], cursor[k]) /\ Owned(alloc[k], consumed[k])
      BY <2>1 DEF TiledBy, Owned
    <2> QED  BY <2>1, <2>2 DEF Tiled
  <1> QED  BY <1>1, <1>2, <1>3, <1>4, <1>5 DEF CInv

\* Every step keeps the invariant.
LEMMA CInvStep == CInv /\ [Next]_vars => CInv'
  <1> SUFFICES ASSUME CInv, [Next]_vars PROVE CInv'  OBVIOUS
  <1>0. StreamTypes /\ WitnessTypes /\ batch \in BatchTypes
    BY DEF CInv, StreamTypes, BatchTypes
  <1>1. CASE EnableScheduleAudit /\ UNCHANGED witnessVars
    <2>1. /\ counters = NoCounters /\ audit' = [audit EXCEPT !.on = TRUE]
          /\ UNCHANGED <<consumed, cursor, alloc, counters, batch>>
      BY <1>1 DEF EnableScheduleAudit
    <2>2. audit' \in AuditTypes /\ audit'.on /\ AuditFollows'
      <3>1. StreamTypes /\ AuditFollows  BY DEF CInv
      <3> QED  BY <2>1, <3>1, AuditStarts
    <2>3. StreamTypes'  BY <1>0, <2>1, <2>2 DEF StreamTypes, AuditTypes
    <2>4. WitnessTypes' /\ SealedAll' /\ Tiled' /\ Phases'
      BY <1>1, <2>1, <2>2 DEF CInv, WitnessTypes, SealedAll, Tiled, Phases, witnessVars
    <2> QED  BY <2>2, <2>3, <2>4 DEF CInv
  <1>2. CASE EnableSubfieldCollection
    BY <1>2, EnableKeeps DEF EnableSubfieldCollection
  <1>3. CASE EnableSourceCollection
    BY <1>3, EnableKeeps DEF EnableSourceCollection
  <1>4. ASSUME NEW base \in Domains, NEW rows \in 1..MaxRows, NEW cols \in Counts,
               DrawSubs(base, rows, cols)
        PROVE  CInv'
    BY <1>4, DrawSubsKeeps
  <1>5. ASSUME NEW dom \in Domains, NEW n \in Counts, NEW role \in {"direct", "product"},
               DrawFulls(dom, n, role)
        PROVE  CInv'
    <2>1. n \in Nat /\ role \in Roles  BY StreamAssumption DEF Roles
    <2>2. /\ DrawAllowed("full") /\ OpenFull(dom, n, role)
          /\ sidecar' = CollectedFull(dom, n, role) /\ UNCHANGED <<sealed, post>> /\ batch' = batch
      BY <1>5 DEF DrawFulls, DrawFull
    <2> QED  BY <2>1, <2>2, <1>0, FullDrawKeeps
  <1>6. ASSUME NEW ranges \in Seq(FullRanges), TryReserveRanges(ranges), UNCHANGED witnessVars
        PROVE  CInv'
    <2>1. /\ batch' = [active |-> TRUE, ranges |-> ranges, drawn |-> {}]
          /\ UNCHANGED <<consumed, cursor, alloc, counters, audit>>
      BY <1>6 DEF TryReserveRanges
    <2>2. [active |-> TRUE, ranges |-> ranges, drawn |-> {}] \in BatchTypes
      BY Zenon DEF BatchTypes
    <2>3. batch' \in BatchTypes  BY <2>1, <2>2
    <2> QED  BY <2>1, <2>3, <1>6, QuietKeeps
  <1>7. ASSUME NEW p \in Places(batch.ranges), DrawPlace(p)
        PROVE  CInv'
    <2>1. PICK n \in Nat : n = batch.ranges[p[1]].count  BY <1>0, PlaceTypes
    <2>2. p \in Nat \X Nat  BY <1>0, PlaceTypes
    <2>3. PICK dom : dom = PlaceDomain(batch.ranges, p)  OBVIOUS
    <2>4. /\ DrawAllowed("full") /\ OpenFull(dom, n, "direct")
          /\ sidecar' = CollectedFull(dom, n, "direct") /\ UNCHANGED <<sealed, post>>
      BY <1>7, <2>1, <2>3 DEF DrawPlace, BatchDraw
    <2>5. batch' \in BatchTypes
      <3>1. CASE batch' = batch
        BY <3>1, <1>0
      <3>2. CASE batch' = [batch EXCEPT !.drawn = @ \cup {p}]
        <4>1. PICK b \in BOOLEAN, rs \in Seq(FullRanges), dr \in SUBSET (Nat \X Nat) :
                batch = [active |-> b, ranges |-> rs, drawn |-> dr]
          BY <1>0, Zenon DEF BatchTypes
        <4>2. PICK dq \in SUBSET (Nat \X Nat) : dq = dr \cup {p}  BY <2>2
        <4>3. batch' = [active |-> b, ranges |-> rs, drawn |-> dq]
          BY <3>2, <4>1, <4>2
        <4>4. [active |-> b, ranges |-> rs, drawn |-> dq] \in BatchTypes  BY Zenon DEF BatchTypes
        <4> QED  BY <4>3, <4>4
      <3> QED  BY <1>7, <3>1, <3>2 DEF DrawPlace, BatchDraw
    <2>6. "direct" \in Roles  BY DEF Roles
    <2> QED  BY <2>4, <2>5, <2>6, FullDrawKeeps
  <1>8. CASE EndBatch /\ UNCHANGED witnessVars
    <2>1. batch' = NoBatch /\ UNCHANGED <<consumed, cursor, alloc, counters, audit>>
      BY <1>8 DEF EndBatch
    <2>2. <<>> \in Seq(FullRanges)  OBVIOUS
    <2>3. NoBatch \in BatchTypes  BY <2>2, Zenon DEF NoBatch, BatchTypes
    <2>4. batch' \in BatchTypes  BY <2>1, <2>3
    <2> QED  BY <2>1, <2>4, <1>8, QuietKeeps
  <1>9. ASSUME NEW dom \in Domains, DrawSubTags(dom)
        PROVE  CInv'
    <2>1. PICK i \in 1..Len(sidecar["sub"].draws) :
            sidecar' = [sidecar EXCEPT !["sub"].draws[i].tagged = TRUE]
      BY <1>9 DEF DrawSubTags
    <2>2. "sub" \in Kinds  BY DEF Kinds
    <2>3. sidecar' \in [Kinds -> SidecarTypes] /\ SamePhases(sidecar')
      BY <1>0, <2>1, <2>2, MarkingKeeps
    <2>4. UNCHANGED <<streamVars, sealed, post>>  BY <1>9 DEF DrawSubTags
    <2> QED  BY <2>3, <2>4, RecorderKeeps
  <1>10. ASSUME NEW k \in Kinds, NEW dom \in Domains, RecordCorrections(k, dom)
         PROVE  CInv'
    <2>1. PICK i \in 1..Len(sidecar[k].draws) :
            sidecar' = [sidecar EXCEPT ![k].draws[i].corrected = TRUE]
      BY <1>10 DEF RecordCorrections
    <2>3. sidecar' \in [Kinds -> SidecarTypes] /\ SamePhases(sidecar')
      BY <1>0, <2>1, MarkingKeeps
    <2>4. UNCHANGED <<streamVars, sealed, post>>  BY <1>10 DEF RecordCorrections
    <2> QED  BY <2>3, <2>4, RecorderKeeps
  <1>11. ASSUME NEW k \in Kinds, FinishCollection(k)
         PROVE  CInv'
    BY <1>11, FinishKeeps
  <1>12. CASE EnterPostSourcePhase
    <2>1. post' = TRUE /\ sidecar' = sidecar /\ sealed' = sealed
          /\ UNCHANGED <<consumed, cursor, alloc, counters, audit, batch>>
      BY <1>12 DEF EnterPostSourcePhase, streamVars
    <2>2. StreamTypes' /\ WitnessTypes'  BY <1>0, <2>1 DEF StreamTypes, WitnessTypes
    <2>3. AuditFollows' /\ Phases' /\ Tiled'  BY <2>1 DEF CInv, AuditFollows, Phases, Tiled
    <2>4. SealedAll'  BY <2>1 DEF CInv, SealedAll, Sealed
    <2> QED  BY <2>2, <2>3, <2>4 DEF CInv
  <1>13. CASE UNCHANGED vars
    <2>1. /\ UNCHANGED <<consumed, cursor, alloc, counters, audit, witnessVars>> /\ batch' = batch
      BY <1>13 DEF vars, streamVars
    <2> QED  BY <2>1, <1>0, QuietKeeps
  <1>14. \A r, q \in FullRanges : <<r>> \in Seq(FullRanges) /\ <<r, q>> \in Seq(FullRanges)
    OBVIOUS
  <1>15. CASE \E r \in FullRanges : TryReserveRanges(<<r>>) /\ UNCHANGED witnessVars
    BY <1>6, <1>14, <1>15
  <1>16. CASE \E r, q \in FullRanges : TryReserveRanges(<<r, q>>) /\ UNCHANGED witnessVars
    BY <1>6, <1>14, <1>16
  <1> QED
    BY <1>1, <1>2, <1>3, <1>4, <1>5, <1>7, <1>8, <1>9, <1>10, <1>11, <1>12, <1>13, <1>15, <1>16
    DEF Next

\* The audit follows the allocations, the allocations tile the rows below the
\* cursor of their kind, and sealed sidecars are made of them, in every
\* reachable state of a stream.
THEOREM StreamInvariant == Spec => []CInv
  <1> QED  BY CInvInit, CInvStep, PTL DEF Spec

\* A sidecar that was closed with success holds every row of the pool drawn
\* until then, each under the domain that drew it, with its correction and its
\* tag, and no row is drawn outside it before the post-source phase: whatever
\* was drawn, refused, reserved, aborted or left half-way by a panic before.
THEOREM SidecarAccountsAlways == Spec => []SidecarAccounts
  <1>1. CInv => SidecarAccounts
    BY DEF CInv, SealedAll, Sealed, SidecarAccounts
  <1> QED  BY <1>1, StreamInvariant, PTL

-----------------------------------------------------------------------------
(* The stream implements the tape.                                         *)

OwnerIn(as, x) ==
    as[CHOOSE i \in 1..Len(as) : x \in as[i].off..(as[i].off + as[i].n - 1)].dom

Lane(as, c) == [i \in 1..c |-> OwnerIn(as, i - 1)]

TapeNow == [k \in Kinds |-> Lane(alloc[k], cursor[k])]

\* Rows of two blocks, the second after the first, are different.
LEMMA Apart ==
    \A x \in Int : \A o, n, p \in Nat : o + n <= p => ~(x < o + n /\ p <= x)
  OBVIOUS

\* The domain that owns a row is that of the one allocation that covers it.
LEMMA OwnerIs ==
    ASSUME NEW as \in Seq(Allocations), NEW c, TiledBy(as, c),
           NEW x \in Int, NEW i \in 1..Len(as), as[i].off <= x, x < as[i].off + as[i].n
    PROVE  OwnerIn(as, x) = as[i].dom
  <1>1. ASSUME NEW j \in 1..Len(as)
        PROVE  as[j].off \in Nat /\ as[j].n \in Nat
    <2>1. as[j] \in Allocations  BY ElementOfSeq
    <2> QED  BY <2>1 DEF Allocations
  <1>2. x \in as[i].off..(as[i].off + as[i].n - 1)
    <2>1. PICK o \in Nat, n \in Nat : o = as[i].off /\ n = as[i].n  BY <1>1
    <2>2. o <= x /\ x < o + n  BY <2>1
    <2>3. x \in o..(o + n - 1)  BY <2>2
    <2> QED  BY <2>1, <2>3
  <1>3. ASSUME NEW j \in 1..Len(as), x \in as[j].off..(as[j].off + as[j].n - 1)
        PROVE  j = i
    <2>1. PICK o \in Nat, n \in Nat : o = as[i].off /\ n = as[i].n /\ o <= x /\ x < o + n  BY <1>1
    <2>2. PICK p \in Nat, m \in Nat : p = as[j].off /\ m = as[j].n /\ p <= x /\ x < p + m
      <3>1. PICK p \in Nat, m \in Nat : p = as[j].off /\ m = as[j].n  BY <1>1
      <3>2. x \in p..(p + m - 1)  BY <1>3, <3>1
      <3>3. p <= x /\ x < p + m  BY <3>2
      <3> QED  BY <3>1, <3>3
    <2>3. Len(as) \in Nat  BY LenProperties
    <2>4. CASE i < j
      <3>1. o + n <= p  BY <2>4, <2>1, <2>2 DEF TiledBy
      <3> QED  BY <3>1, <2>1, <2>2, Apart
    <2>5. CASE j < i
      <3>1. p + m <= o  BY <2>5, <2>1, <2>2 DEF TiledBy
      <3> QED  BY <3>1, <2>1, <2>2, Apart
    <2> QED  BY <2>3, <2>4, <2>5
  <1>4. (CHOOSE j \in 1..Len(as) : x \in as[j].off..(as[j].off + as[j].n - 1)) = i
    BY <1>2, <1>3
  <1> QED  BY <1>4 DEF OwnerIn

\* The owners after a block: those before it, and the block's.
Grown(u, as, c, base, rows, n) ==
    /\ \A x \in 0..(c - 1) : OwnerIn(u, x) = OwnerIn(as, x)
    /\ \A y \in 0..(rows * n - 1) : OwnerIn(u, c + y) = base + y \div n

\* A block of allocations extends the lane by its rows: n for each domain.
LEMMA LaneExtends ==
    ASSUME NEW as \in Seq(Allocations), NEW u \in Seq(Allocations), NEW c \in Nat,
           NEW base \in Nat, NEW rows \in Nat, NEW n \in Nat, NEW f \in [1..rows -> Allocations],
           TiledBy(as, c), TiledBy(u, c + rows * n), Extended(u, as, rows, f),
           \A i \in 1..rows : f[i].dom = base + i - 1 /\ f[i].off = c + (i - 1) * n /\ f[i].n = n
    PROVE  Grown(u, as, c, base, rows, n)
  <1>1. PICK a \in Nat : Len(as) = a  BY LenProperties
  <1>2. Len(u) = a + rows  BY <1>1 DEF Extended
  <1>3. ASSUME NEW x \in 0..(c - 1)
        PROVE  OwnerIn(u, x) = OwnerIn(as, x)
    <2>1. PICK i \in 1..a : as[i].off <= x /\ x < as[i].off + as[i].n  BY <1>1 DEF TiledBy
    <2>2. x \in Int /\ i \in 1..Len(as) /\ i \in 1..Len(u)  BY <1>1, <1>2
    <2>3. u[i] = as[i]  BY <1>1 DEF Extended
    <2>4. OwnerIn(as, x) = as[i].dom  BY <2>1, <2>2, OwnerIs
    <2>5. OwnerIn(u, x) = u[i].dom  BY <2>1, <2>2, <2>3, OwnerIs
    <2> QED  BY <2>3, <2>4, <2>5
  <1>4. PICK t \in Nat : t = rows * n  BY Products
  <1>5. ASSUME NEW y \in 0..(t - 1)
        PROVE  OwnerIn(u, c + y) = base + y \div n
    <2>1. n > 0
      <3>1. CASE n = 0
        <4>1. rows * n = 0  BY <3>1
        <4> QED  BY <4>1, <1>4
      <3> QED  BY <3>1
    <2>2. PICK q \in 0..(rows - 1) : q = y \div n /\ q * n <= y /\ y < q * n + n
      <3>1. y \in Nat /\ y < rows * n  BY <1>4
      <3>2. /\ y \div n \in 0..(rows - 1) /\ (y \div n) * n <= y
            /\ y < (y \div n) * n + n
        BY <2>1, <3>1, Blocks
      <3> QED  BY <3>2
    <2>3. PICK o \in Nat : o = q * n /\ o <= y /\ y < o + n
      <3>1. q \in Nat  OBVIOUS
      <3>2. q * n \in Nat  BY <3>1, Products
      <3> QED  BY <3>2, <2>2
    <2>4. q + 1 \in 1..rows /\ (q + 1) - 1 = q  OBVIOUS
    <2>5. PICK i \in 1..(a + rows) : i = a + (q + 1)  BY <2>4
    <2>6. u[i] = f[q + 1]  BY <2>4, <2>5, <1>1 DEF Extended
    <2>7. u[i].off = c + o /\ u[i].n = n /\ u[i].dom = base + q
      <3>1. f[q + 1].dom = base + (q + 1) - 1 /\ f[q + 1].off = c + ((q + 1) - 1) * n /\ f[q + 1].n = n
        BY <2>4
      <3>2. base + (q + 1) - 1 = base + q  OBVIOUS
      <3> QED  BY <3>1, <3>2, <2>3, <2>4, <2>6
    <2>8. u[i].off <= c + y /\ c + y < u[i].off + u[i].n  BY <2>3, <2>7
    <2>9. c + y \in Int /\ i \in 1..Len(u)  BY <1>2
    <2>10. OwnerIn(u, c + y) = u[i].dom
      <3>1. PICK z \in Int : z = c + y  BY <2>9
      <3> QED  BY <3>1, <2>8, <2>9, OwnerIs
    <2> QED  BY <2>2, <2>7, <2>10
  <1> QED  BY <1>3, <1>4, <1>5 DEF Grown

\* A row of a lane belongs to a domain that is consumed.
LEMMA LaneConsumed ==
    ASSUME StreamTypes, Tiled, NEW k \in Kinds, NEW i \in 1..cursor[k]
    PROVE  consumed[k][Lane(alloc[k], cursor[k])[i]] # Absent
  <1>1. PICK c \in Nat : c = cursor[k]  BY DEF StreamTypes
  <1>2. PICK as \in Seq(Allocations) : as = alloc[k]  BY DEF StreamTypes
  <1>3. TiledBy(as, c) /\ Owned(as, consumed[k])  BY <1>1, <1>2 DEF Tiled
  <1>4. i - 1 \in 0..(c - 1) /\ i - 1 \in Int  BY <1>1
  <1>5. PICK j \in 1..Len(as) : as[j].off <= i - 1 /\ i - 1 < as[j].off + as[j].n
    BY <1>3, <1>4 DEF TiledBy
  <1>6. OwnerIn(as, i - 1) = as[j].dom
    <2>1. PICK x \in Int : x = i - 1  BY <1>4
    <2> QED  BY <2>1, <1>3, <1>5, OwnerIs
  <1>7. Lane(as, c)[i] = OwnerIn(as, i - 1)  BY <1>1 DEF Lane
  <1>8. consumed[k][as[j].dom] # Absent  BY <1>3 DEF Owned
  <1> QED  BY <1>1, <1>2, <1>6, <1>7, <1>8

\* The rows of a draw.
Rows(base, rows, n) == [i \in 1..(rows * n) |-> base + (i - 1) \div n]

\* A draw appends its rows to the lane of its kind.
LEMMA TapeTakes ==
    ASSUME StreamTypes, Tiled,
           NEW k, NEW role, NEW base, NEW rows, NEW n, Takes(k, role, base, rows, n)
    PROVE  /\ Lane(alloc'[k], cursor'[k]) = Lane(alloc[k], cursor[k]) \o Rows(base, rows, n)
           /\ \A j \in Kinds : j # k => Lane(alloc'[j], cursor'[j]) = Lane(alloc[j], cursor[j])
  <1>1. k \in Kinds /\ base \in Nat /\ rows \in Nat /\ n \in Nat
    BY StreamAssumption DEF Takes, Domains
  <1>2. PICK c \in Nat : c = cursor[k]  BY <1>1 DEF StreamTypes
  <1>3. PICK f \in [1..rows -> Allocations] :
          f = Block(base, rows, c, n) /\ Extended(alloc'[k], alloc[k], rows, f)
    BY <1>2, TakesAllocates
  <1>4. PICK as \in Seq(Allocations), u \in Seq(Allocations) : as = alloc[k] /\ u = alloc'[k]
    <2>1. alloc[k] \in Seq(Allocations) /\ alloc'[k] \in Seq(Allocations)
      BY <1>1, TakesAllocates DEF StreamTypes
    <2> QED  BY <2>1, Zenon
  <1>5. PICK t \in Nat : t = rows * n  BY <1>1, Products
  <1>6. cursor'[k] = c + rows * n  BY <1>2, TakesAllocates
  <1>7. TiledBy(as, c)  BY <1>1, <1>2, <1>4 DEF Tiled
  <1>8. TiledBy(u, c + rows * n)
    <2>1. Tiled'  BY TakesTiles
    <2>2. TiledBy(alloc'[k], cursor'[k])  BY <2>1, <1>1 DEF Tiled
    <2> QED  BY <2>2, <1>4, <1>6
  <1>9. Extended(u, as, rows, f)  BY <1>3, <1>4
  <1>10. \A i \in 1..rows : f[i].dom = base + i - 1 /\ f[i].off = c + (i - 1) * n /\ f[i].n = n
    BY <1>3 DEF Block
  <1>11. Grown(u, as, c, base, rows, n)
    BY <1>1, <1>7, <1>8, <1>9, <1>10, LaneExtends
  <1>12. PICK old : old = Lane(as, c)  OBVIOUS
  <1>13. PICK new : new = Rows(base, rows, n)  OBVIOUS
  <1>14. DOMAIN old = 1..c /\ DOMAIN new = 1..t /\ Len(old) = c /\ Len(new) = t
    <2>1. DOMAIN old = 1..c  BY <1>12 DEF Lane
    <2>2. DOMAIN new = 1..t  BY <1>5, <1>13 DEF Rows
    <2>3. Len([i \in 1..c |-> OwnerIn(as, i - 1)]) = c  OBVIOUS
    <2>4. Len([i \in 1..t |-> base + (i - 1) \div n]) = t  OBVIOUS
    <2>5. Len(old) = c  BY <2>3, <1>12 DEF Lane
    <2>6. Len(new) = t  BY <2>4, <1>5, <1>13 DEF Rows
    <2> QED  BY <2>1, <2>2, <2>5, <2>6
  <1>15. PICK w : w = old \o new /\ w = [i \in 1..(c + t) |-> w[i]] /\ Extended(w, old, t, new)
    <2>1. PICK S : S = {old[i] : i \in 1..c} \cup {new[i] : i \in 1..t}  OBVIOUS
    <2>2. old \in [1..c -> S]
      <3>1. \A i \in 1..c : old[i] \in S  BY <2>1
      <3>2. old = [i \in 1..c |-> old[i]]  BY <1>12 DEF Lane
      <3> QED  BY <3>1, <3>2
    <2>3. new \in [1..t -> S]
      <3>1. \A i \in 1..t : new[i] \in S  BY <2>1
      <3>2. new = [i \in 1..t |-> new[i]]  BY <1>5, <1>13 DEF Rows
      <3> QED  BY <3>1, <3>2
    <2>4. old \in Seq(S)  BY <2>2
    <2>5. old \o new \in Seq(S) /\ Extended(old \o new, old, t, new)
      BY <2>3, <2>4, Appending
    <2>6. PICK w \in Seq(S) : w = old \o new /\ Extended(w, old, t, new)  BY <2>5, Zenon
    <2>7. Len(w) = c + t  BY <2>6, <1>14 DEF Extended
    <2>8. w = [i \in 1..(c + t) |-> w[i]]  BY <2>7
    <2> QED  BY <2>6, <2>8
  <1>16. Lane(u, c + t) = w
    <2>1. ASSUME NEW i \in 1..(c + t)
          PROVE  OwnerIn(u, i - 1) = w[i]
      <3>1. CASE i \in 1..c
        <4>1. i - 1 \in 0..(c - 1)  BY <3>1
        <4>2. old[i] = OwnerIn(as, i - 1)  BY <3>1, <1>12 DEF Lane
        <4>3. w[i] = old[i]  BY <3>1, <1>14, <1>15 DEF Extended
        <4> QED  BY <4>1, <4>2, <4>3, <1>11 DEF Grown
      <3>2. CASE i \notin 1..c
        <4>1. PICK j \in 1..t : i = c + j  BY <3>2, PastEnd
        <4>2. PICK y \in 0..(t - 1) : y = j - 1 /\ i - 1 = c + y
          <5>1. j - 1 \in 0..(t - 1) /\ i - 1 = c + (j - 1)  BY <4>1
          <5> QED  BY <5>1
        <4>3. OwnerIn(u, c + y) = base + y \div n  BY <4>2, <1>5, <1>11 DEF Grown
        <4>4. new[j] = base + (j - 1) \div n  BY <1>5, <1>13 DEF Rows
        <4>5. w[i] = new[j]  BY <4>1, <1>14, <1>15 DEF Extended
        <4> QED  BY <4>2, <4>3, <4>4, <4>5
      <3> QED  BY <3>1, <3>2
    <2>2. Lane(u, c + t) = [i \in 1..(c + t) |-> w[i]]
      BY <2>1 DEF Lane
    <2> QED  BY <2>2, <1>15
  <1>17. Lane(alloc'[k], cursor'[k]) = Lane(alloc[k], cursor[k]) \o Rows(base, rows, n)
    BY <1>2, <1>4, <1>5, <1>6, <1>12, <1>13, <1>15, <1>16
  <1>18. \A j \in Kinds : j # k => alloc'[j] = alloc[j] /\ cursor'[j] = cursor[j]
    BY TakesAllocates
  <1> QED  BY <1>17, <1>18

\* The tape that the stream stands for.
TapeExp == [k \in Kinds |-> [i \in 1..cursor[k] |-> Owner(k, i - 1)]]

\* The two ways to write the tape agree.
LEMMA TapeIs == TapeExp = TapeNow /\ TapeExp' = TapeNow'
  <1>1. \A k, x : Owner(k, x) = OwnerIn(alloc[k], x)  BY Zenon DEF Owner, OwnerIn
  <1>2. \A k, x : Owner(k, x)' = OwnerIn(alloc'[k], x)  BY Zenon DEF Owner, OwnerIn
  <1> QED  BY <1>1, <1>2 DEF TapeExp, TapeNow, Lane

\* A draw is a draw of the tape, or takes no row.
LEMMA TapeStep ==
    ASSUME StreamTypes, Tiled,
           NEW k, NEW role, NEW base, NEW rows, NEW n, Takes(k, role, base, rows, n)
    PROVE  Tape!Next \/ TapeExp' = TapeExp
  <1>1. k \in Kinds /\ base \in Domains /\ base \in Nat /\ rows \in Nat \ {0} /\ n \in Nat
    BY StreamAssumption DEF Takes, Domains
  <1>2. PICK c \in Nat, m \in Nat : c = cursor[k] /\ m = Pool[k]
    BY <1>1, StreamAssumption DEF StreamTypes
  <1>3. PICK t \in Nat : t = rows * n  BY <1>1, Products
  <1>4. c + t <= m  BY <1>2, <1>3 DEF Takes
  <1>5. PICK old, new : old = Lane(alloc[k], cursor[k]) /\ new = Lane(alloc'[k], cursor'[k])
    OBVIOUS
  <1>6. new = old \o Rows(base, rows, n)
    <2>1. Lane(alloc'[k], cursor'[k]) = Lane(alloc[k], cursor[k]) \o Rows(base, rows, n)
      BY TapeTakes
    <2> QED  BY <2>1, <1>5
  <1>7. \A j \in Kinds : j # k => Lane(alloc'[j], cursor'[j]) = Lane(alloc[j], cursor[j])
    BY TapeTakes
  <1>8. TapeNow' = [TapeNow EXCEPT ![k] = old \o Rows(base, rows, n)]
    BY <1>1, <1>5, <1>6, <1>7 DEF TapeNow
  <1>9. TapeNow[k] = old /\ TapeNow'[k] = new  BY <1>1, <1>5 DEF TapeNow
  <1>10. cursor'[k] = c + t  BY <1>2, <1>3, TakesAllocates
  <1>11. Len(old) = c /\ Len(new) = c + t
    <2>1. Len([i \in 1..c |-> OwnerIn(alloc[k], i - 1)]) = c  OBVIOUS
    <2>2. c + t \in Nat  OBVIOUS
    <2>3. Len([i \in 1..(c + t) |-> OwnerIn(alloc'[k], i - 1)]) = c + t  BY <2>2
    <2>4. Len(old) = c  BY <2>1, <1>2, <1>5 DEF Lane
    <2>5. Len(new) = c + t  BY <2>3, <1>10, <1>5 DEF Lane
    <2> QED  BY <2>4, <2>5
  <1>12. CASE n = 0
    <2>1. t = 0  BY <1>1, <1>3, <1>12
    <2>2. Rows(base, rows, n) = <<>>
      BY <2>1, <1>3 DEF Rows
    <2>3. new = old
      <3>1. old \in Seq({old[i] : i \in 1..c})
        <4>1. PICK S : S = {old[i] : i \in 1..c}  OBVIOUS
        <4>2. \A i \in 1..c : old[i] \in S  BY <4>1
        <4>3. old = [i \in 1..c |-> old[i]]  BY <1>2, <1>5 DEF Lane
        <4>4. old \in [1..c -> S]  BY <4>2, <4>3
        <4>5. old \in Seq(S)  BY <4>4
        <4> QED  BY <4>1, <4>5
      <3>2. old \o <<>> = old  BY <3>1
      <3> QED  BY <3>2, <2>2, <1>6
    <2>4. TapeNow' = TapeNow  BY <2>3, <1>5, <1>7 DEF TapeNow
    <2> QED  BY <2>4, TapeIs
  <1>13. CASE n # 0
    <2>1. n > 0 /\ rows > 0  BY <1>1, <1>13
    <2>2. rows <= t /\ n <= t  BY <2>1, <1>1, <1>3, Products
    <2>3. rows \in 1..Pool[k] /\ n \in 1..Pool[k]
      BY <2>1, <2>2, <1>1, <1>2, <1>4
    <2>4. new # old
      <3>1. t > 0  BY <2>1, <2>2, <1>1
      <3>2. Len(new) # Len(old)  BY <3>1, <1>11
      <3> QED  BY <3>2
    <2>5. ASSUME NEW d \in base..(base + rows - 1)
          PROVE  d \in Domains /\ \A i \in 1..Len(old) : old[i] # d
      <3>1. d \in Domains /\ consumed[k][d] = Absent  BY DEF Takes, Span
      <3>2. ASSUME NEW i \in 1..Len(old) PROVE old[i] # d
        <4>1. i \in 1..cursor[k]  BY <1>2, <1>11
        <4>2. consumed[k][old[i]] # Absent  BY <4>1, <1>1, <1>5, LaneConsumed
        <4> QED  BY <3>1, <4>2
      <3> QED  BY <3>1, <3>2
    <2>6. base..(base + rows - 1) \subseteq Domains \ {TapeNow[k][i] : i \in 1..Len(TapeNow[k])}
      BY <2>5, <1>9
    <2>7. Len(TapeNow[k]) + rows * n <= Pool[k]  BY <1>2, <1>3, <1>4, <1>9, <1>11
    <2>8. TapeNow'[k] # TapeNow[k]  BY <2>4, <1>9
    <2>9. TapeNow' = [TapeNow EXCEPT ![k] = @ \o [i \in 1..(rows * n) |-> base + (i - 1) \div n]]
      BY <1>8, <1>9 DEF Rows
    <2>10. /\ base..(base + rows - 1) \subseteq Domains \ {TapeExp[k][i] : i \in 1..Len(TapeExp[k])}
           /\ Len(TapeExp[k]) + rows * n <= Pool[k]
           /\ TapeExp' = [TapeExp EXCEPT ![k] = @ \o [i \in 1..(rows * n) |-> base + (i - 1) \div n]]
           /\ TapeExp'[k] # TapeExp[k]
      BY <2>6, <2>7, <2>8, <2>9, TapeIs
    <2>11. Tape!Draw(k, base, rows, n)
      BY <2>10 DEF Tape!Draw, Tape!Owners, TapeExp
    <2>12. Tape!Next
      BY <2>3, <2>10, <2>11, <1>1 DEF Tape!Next, TapeExp
    <2> QED  BY <2>12
  <1> QED  BY <1>12, <1>13

\* A step of the stream is a draw of the tape, or leaves it alone.
LEMMA TapeNext == CInv /\ [Next]_vars => Tape!Next \/ TapeExp' = TapeExp
  <1> SUFFICES ASSUME CInv, [Next]_vars PROVE Tape!Next \/ TapeExp' = TapeExp  OBVIOUS
  <1>0. StreamTypes /\ Tiled  BY DEF CInv
  <1>1. ASSUME alloc' = alloc, cursor' = cursor PROVE TapeExp' = TapeExp
    <2>1. TapeNow' = TapeNow  BY <1>1 DEF TapeNow
    <2> QED  BY <2>1, TapeIs
  <1>2. ASSUME NEW base \in Domains, NEW rows \in 1..MaxRows, NEW cols \in Counts,
               DrawSubs(base, rows, cols)
        PROVE  Tape!Next \/ TapeExp' = TapeExp
    <2>1. Takes("sub", "direct", base, rows, cols)
      BY <1>0, <1>2, SubTakes DEF DrawSubs
    <2> QED  BY <1>0, <2>1, TapeStep
  <1>3. ASSUME NEW dom, NEW n \in Nat, NEW role \in Roles, OpenFull(dom, n, role)
        PROVE  Tape!Next \/ TapeExp' = TapeExp
    <2>1. CASE Fits(n)
      <3>1. Takes("full", role, dom, 1, n)  BY <1>0, <1>3, <2>1, FullTakes
      <3> QED  BY <1>0, <3>1, TapeStep
    <2>2. CASE ~Fits(n)
      <3>1. alloc' = alloc /\ cursor' = cursor  BY <2>2, <1>3 DEF OpenFull
      <3> QED  BY <3>1, <1>1
    <2> QED  BY <2>1, <2>2
  <1>4. ASSUME NEW dom \in Domains, NEW n \in Counts, NEW role \in {"direct", "product"},
               DrawFulls(dom, n, role)
        PROVE  Tape!Next \/ TapeExp' = TapeExp
    <2>1. n \in Nat /\ role \in Roles  BY StreamAssumption DEF Roles
    <2>2. OpenFull(dom, n, role)  BY <1>4 DEF DrawFulls, DrawFull
    <2> QED  BY <2>1, <2>2, <1>3
  <1>5. ASSUME NEW p \in Places(batch.ranges), DrawPlace(p)
        PROVE  Tape!Next \/ TapeExp' = TapeExp
    <2>1. batch.ranges[p[1]].count \in Nat  BY <1>0, PlaceTypes
    <2>2. OpenFull(PlaceDomain(batch.ranges, p), batch.ranges[p[1]].count, "direct")
      BY <1>5 DEF DrawPlace, BatchDraw
    <2>3. "direct" \in Roles  BY DEF Roles
    <2> QED  BY <2>1, <2>2, <2>3, <1>3
  <1>6. CASE \/ EnableScheduleAudit \/ EnableSubfieldCollection \/ EnableSourceCollection
             \/ EndBatch \/ EnterPostSourcePhase \/ UNCHANGED vars
    <2>1. alloc' = alloc /\ cursor' = cursor
      BY <1>6 DEF EnableScheduleAudit, EnableSubfieldCollection, EnableSourceCollection,
                  EnableSidecars, EndBatch, EnterPostSourcePhase, vars, streamVars
    <2> QED  BY <2>1, <1>1
  <1>7. ASSUME NEW ranges, TryReserveRanges(ranges)
        PROVE  TapeExp' = TapeExp
    BY <1>7, <1>1 DEF TryReserveRanges
  <1>8. ASSUME NEW k, NEW dom, DrawSubTags(dom) \/ RecordCorrections(k, dom) \/ FinishCollection(k)
        PROVE  TapeExp' = TapeExp
    BY <1>8, <1>1 DEF DrawSubTags, RecordCorrections, FinishCollection, streamVars
  <1> QED
    BY <1>2, <1>4, <1>5, <1>6, <1>7, <1>8 DEF Next

\* Every draw of the stream takes the next rows of its kind for domains that
\* own none: the correlations of a connection are one tape, and neither a
\* batch that was refused, aborted or drawn out of order, nor a draw that
\* panicked half-way, gives a row to two domains or skips one.
THEOREM StreamImplementsTape == Spec => ImplementsTape
  <1>1. Init => Tape!Init
    <2> SUFFICES ASSUME Init PROVE Tape!Init  OBVIOUS
    <2>1. \A k \in Kinds : cursor[k] = 0  BY DEF Init, StreamInit
    <2>2. ASSUME NEW k \in Kinds
          PROVE  [i \in 1..cursor[k] |-> Owner(k, i - 1)] = <<>>
      BY <2>1
    <2> QED  BY <2>2 DEF Tape!Init
  <1>2. CInv /\ [Next]_vars => [Tape!Next]_TapeExp
    BY TapeNext
  <1> QED  BY <1>1, <1>2, StreamInvariant, PTL DEF Spec, ImplementsTape, Tape!Spec, TapeExp

-----------------------------------------------------------------------------
(* Reservations.                                                           *)

\* What a batch's ranges say: its places are finitely many, each of a domain
\* and a number of rows of its own.
BatchPlaces(ranges) ==
    /\ \A p \in Places(ranges) : PlaceDomain(ranges, p) \in Domains
    /\ \A p, q \in Places(ranges) : p # q => PlaceDomain(ranges, p) # PlaceDomain(ranges, q)

\* A batch that has ended has left nothing behind, and a reservation is always
\* one of the batch that borrows the stream.
RInv ==
    /\ reserved \in [Domains -> Int]
    /\ ~batch.active => batch = NoBatch
    /\ BatchPlaces(batch.ranges)
    /\ ReservationsLive

\* What is known of the places of a sequence of ranges.
LEMMA PlaceFacts ==
    ASSUME NEW ranges \in Seq(FullRanges)
    PROVE  /\ IsFiniteSet(Places(ranges))
           /\ \A p \in Places(ranges) :
                 /\ p[1] \in 1..Len(ranges) /\ p[2] \in Nat /\ p[2] < ranges[p[1]].rows
                 /\ ranges[p[1]] \in FullRanges /\ ranges[p[1]].count \in Nat
                 /\ p = <<p[1], p[2]>>
           /\ \A i \in 1..Len(ranges) : \A j \in Nat : j < ranges[i].rows => <<i, j>> \in Places(ranges)
  <1>1. PICK l \in Nat : Len(ranges) = l  BY LenProperties
  <1>2. \A i \in 1..l : ranges[i] \in FullRanges  BY <1>1, ElementOfSeq
  <1>3. MaxRows \in Nat \ {0} /\ Counts \subseteq Nat  BY StreamAssumption
  <1>4. PICK m \in Int : m = MaxRows - 1  BY <1>3
  <1>5. IsFiniteSet(1..l) /\ IsFiniteSet(0..m)
    <2>1. l \in Int /\ 1 \in Int /\ 0 \in Int  OBVIOUS
    <2> QED  BY <2>1, FS_Interval
  <1>6. IsFiniteSet((1..l) \X (0..m))  BY <1>5, FS_Product
  <1>7. Places(ranges) \subseteq (1..l) \X (0..m)  BY <1>1, <1>4 DEF Places
  <1>8. IsFiniteSet(Places(ranges))  BY <1>6, <1>7, FS_Subset
  <1>9. ASSUME NEW p \in Places(ranges)
        PROVE  /\ p[1] \in 1..Len(ranges) /\ p[2] \in Nat /\ p[2] < ranges[p[1]].rows
               /\ ranges[p[1]] \in FullRanges /\ ranges[p[1]].count \in Nat
               /\ p = <<p[1], p[2]>>
    <2>1. PICK i \in 1..l, j \in 0..m : p = <<i, j>>  BY <1>7
    <2>2. p[1] = i /\ p[2] = j /\ j \in Nat  BY <2>1, <1>4
    <2>3. ranges[i] \in FullRanges  BY <1>2
    <2>4. ranges[i].count \in Nat  BY <2>3, <1>3 DEF FullRanges
    <2>5. p[2] < ranges[p[1]].rows  BY DEF Places
    <2> QED  BY <1>1, <2>1, <2>2, <2>3, <2>4, <2>5
  <1>10. ASSUME NEW i \in 1..Len(ranges), NEW j \in Nat, j < ranges[i].rows
         PROVE  <<i, j>> \in Places(ranges)
    <2>1. ranges[i] \in FullRanges  BY <1>1, <1>2
    <2>2. PICK r \in 1..MaxRows : r = ranges[i].rows  BY <2>1 DEF FullRanges
    <2>3. j \in 0..(MaxRows - 1)  BY <1>10, <2>2, <1>3
    <2> QED  BY <1>10, <2>3 DEF Places
  <1> QED  BY <1>8, <1>9, <1>10

\* What some places of a batch take is a number of rows, and drawing one of
\* them leaves what the others take.
LEMMA RowsLeft ==
    ASSUME NEW ranges \in Seq(FullRanges), NEW S, S \subseteq Places(ranges)
    PROVE  /\ RowsOf(ranges, S) \in Nat
           /\ RowsOf(ranges, {}) = 0
           /\ \A p \in S : RowsOf(ranges, S) = ranges[p[1]].count + RowsOf(ranges, S \ {p})
  <1>1. PICK f : f = [p \in Places(ranges) |-> ranges[p[1]].count]  OBVIOUS
  <1>2. IsFiniteSet(S)  BY PlaceFacts, FS_Subset
  <1>3. \A p \in S : f[p] = ranges[p[1]].count /\ f[p] \in Nat  BY <1>1, PlaceFacts
  <1>4. \A p \in S : f[p] \in Int  BY <1>3
  <1>5. SumFunctionOnSet(f, S) \in Nat  BY <1>2, <1>3, SumNat
  <1>6. SumFunctionOnSet(f, {}) = 0  BY SumEmpty
  <1>7. \A p \in S : SumFunctionOnSet(f, S) = f[p] + SumFunctionOnSet(f, S \ {p})
    BY <1>2, <1>4, SumRemove
  <1> QED  BY <1>1, <1>3, <1>5, <1>6, <1>7 DEF RowsOf

\* Without a batch, the reservations are live exactly if there are none.
LEMMA NoBatchLive ==
    CInv /\ batch = NoBatch =>
        /\ ReservationsLive <=> \A d \in Domains : reserved[d] = Absent
        /\ BatchPlaces(batch.ranges)
  <1> SUFFICES ASSUME CInv, batch = NoBatch
               PROVE  /\ ReservationsLive <=> \A d \in Domains : reserved[d] = Absent
                      /\ BatchPlaces(batch.ranges)
    OBVIOUS
  <1>1. batch.ranges = <<>> /\ batch.drawn = {}  BY DEF NoBatch
  <1>2. Places(batch.ranges) = {}  BY <1>1 DEF Places
  <1>3. Undrawn(batch) = {}  BY <1>2 DEF Undrawn
  <1>4. RowsOf(batch.ranges, Undrawn(batch)) <= Remaining("full")
    <2>1. RowsOf(batch.ranges, Undrawn(batch)) = 0
      <3>1. <<>> \in Seq(FullRanges)  OBVIOUS
      <3> QED  BY <3>1, <1>1, <1>3, RowsLeft
    <2>2. cursor["full"] \in Nat /\ cursor["full"] <= Pool["full"] /\ Pool["full"] \in Nat
      BY StreamAssumption DEF CInv, StreamTypes, Tiled, Kinds
    <2> QED  BY <2>1, <2>2 DEF Remaining
  <1>5. ReservationsLive <=> {d \in Domains : reserved[d] # Absent} = {}
    BY <1>3, <1>4 DEF ReservationsLive
  <1> QED  BY <1>2, <1>5 DEF BatchPlaces

\* A stream without a batch has no reservations, and keeps none.
LEMMA IdleKeeps ==
    ASSUME CInv, CInv', RInv, ~batch.active, batch' = batch,
           reserved' \in [Domains -> Int],
           \A d \in Domains : reserved'[d] \in {reserved[d], Absent}
    PROVE  RInv'
  <1>1. batch = NoBatch /\ batch' = NoBatch /\ ~batch'.active  BY DEF RInv, NoBatch
  <1>2. \A d \in Domains : reserved[d] = Absent  BY <1>1, NoBatchLive DEF RInv
  <1>3. \A d \in Domains : reserved'[d] = Absent  BY <1>2
  <1>4. (CInv /\ batch = NoBatch =>
            /\ ReservationsLive <=> \A d \in Domains : reserved[d] = Absent
            /\ BatchPlaces(batch.ranges))'
    BY NoBatchLive, PTL
  <1> QED  BY <1>1, <1>3, <1>4 DEF RInv

\* A step that leaves the ledger, the pool and the batch alone.
LEMMA LedgerKeeps ==
    ASSUME RInv, UNCHANGED <<consumed, reserved, cursor, batch>>
    PROVE  RInv'
  BY DEF RInv, ReservationsLive, BatchPlaces, Places, PlaceDomain, Undrawn, RowsOf, Remaining

\* try_reserve_full_corr_ranges, try_reserve_full_key_ranges: the places of a
\* batch are reserved, each with its own number of rows, and nothing else is.
LEMMA ReserveKeeps ==
    ASSUME CInv, RInv, NEW ranges \in Seq(FullRanges), TryReserveRanges(ranges)
    PROVE  RInv'
  <1>1. /\ BatchFits(ranges) /\ BatchFree(ranges) /\ cursor' = cursor /\ consumed' = consumed
        /\ batch' = [active |-> TRUE, ranges |-> ranges, drawn |-> {}]
        /\ \A i \in 1..Len(ranges) : ranges[i].base + ranges[i].rows - 1 < Limit
        /\ ~batch.active
    BY DEF TryReserveRanges
  <1>2. batch'.active /\ batch'.ranges = ranges /\ batch'.drawn = {}  BY <1>1
  <1>3. \A d \in Domains : reserved[d] = Absent
    BY <1>1, NoBatchLive DEF RInv
  <1>4. \A p \in Places(ranges) :
          /\ p[1] \in 1..Len(ranges) /\ p[2] \in Nat /\ p[2] < ranges[p[1]].rows
          /\ ranges[p[1]] \in FullRanges /\ ranges[p[1]].count \in Nat
          /\ p = <<p[1], p[2]>>
    BY PlaceFacts
  <1>5. \A i \in 1..Len(ranges) : /\ ranges[i] \in FullRanges
                                  /\ ranges[i].base \in Nat /\ ranges[i].rows \in Nat
                                  /\ ranges[i].count \in Nat
    <2>1. \A i \in 1..Len(ranges) : ranges[i] \in FullRanges  BY ElementOfSeq
    <2>2. Domains \subseteq Nat /\ 1..MaxRows \subseteq Nat /\ Counts \subseteq Nat
      BY StreamAssumption DEF Domains
    <2>3. \A r \in FullRanges : r.base \in Domains /\ r.rows \in 1..MaxRows /\ r.count \in Counts
      BY DEF FullRanges
    <2> QED  BY <2>1, <2>2, <2>3
  <1>6. \A p \in Places(ranges) : PlaceDomain(ranges, p) \in Domains
    <2>1. SUFFICES ASSUME NEW p \in Places(ranges) PROVE PlaceDomain(ranges, p) \in Domains
      OBVIOUS
    <2>2. PICK a \in Nat, b \in Nat, c \in Nat :
            a = ranges[p[1]].base /\ b = ranges[p[1]].rows /\ c = p[2]
      BY <1>4, <1>5
    <2>3. a + b - 1 < Limit /\ c < b  BY <2>2, <1>1, <1>4
    <2>4. a + c \in Domains  BY <2>3, StreamAssumption DEF Domains
    <2> QED  BY <2>2, <2>4 DEF PlaceDomain
  <1>7. BatchPlaces(ranges)  BY <1>1, <1>6 DEF BatchPlaces, BatchFree
  <1>8. ASSUME NEW d \in Domains, NEW i \in 1..Len(ranges), d \in RangeDomains(ranges[i])
        PROVE  \E p \in Places(ranges) : p[1] = i /\ PlaceDomain(ranges, p) = d
    <2>1. PICK a \in Nat, b \in Nat : a = ranges[i].base /\ b = ranges[i].rows
      BY <1>5
    <2>2. d \in a..(a + b - 1)  BY <1>8, <2>1 DEF RangeDomains
    <2>3. PICK j \in Nat : j = d - a /\ j < b /\ a + j = d
      <3>1. d \in Int /\ d - a \in Nat /\ d - a < b /\ a + (d - a) = d  BY <2>2
      <3> QED  BY <3>1
    <2>4. <<i, j>> \in Places(ranges)  BY <2>1, <2>3, PlaceFacts
    <2> QED  BY <2>1, <2>3, <2>4 DEF PlaceDomain
  <1>9. ASSUME NEW p \in Places(ranges), NEW d, d = PlaceDomain(ranges, p)
        PROVE  reserved'[d] = ranges[p[1]].count
    <2>1. PICK here : here = {i \in 1..Len(ranges) : d \in RangeDomains(ranges[i])}  OBVIOUS
    <2>2. p[1] \in here
      <3>1. PICK a \in Nat, b \in Nat, c \in Nat :
              a = ranges[p[1]].base /\ b = ranges[p[1]].rows /\ c = p[2]
        BY <1>4, <1>5
      <3>2. c < b  BY <3>1, <1>4
      <3>3. a + c \in a..(a + b - 1)  BY <3>2
      <3> QED  BY <1>4, <1>9, <2>1, <3>1, <3>3 DEF PlaceDomain, RangeDomains
    <2>3. d \in Domains  BY <1>6, <1>9
    <2>4. \A i \in here : i = p[1]
      <3>1. SUFFICES ASSUME NEW i \in here PROVE i = p[1]  OBVIOUS
      <3>2. PICK q \in Places(ranges) : q[1] = i /\ PlaceDomain(ranges, q) = d
        BY <2>1, <2>3, <1>8
      <3>3. q = p  BY <3>2, <1>9, <1>7 DEF BatchPlaces
      <3> QED  BY <3>2, <3>3
    <2>5. (CHOOSE i \in here : TRUE) = p[1]  BY <2>2, <2>4
    <2>6. reserved'[d] = IF here = {} THEN reserved[d]
                         ELSE ranges[CHOOSE i \in here : TRUE].count
      BY <2>1, <2>3 DEF TryReserveRanges
    <2> QED  BY <2>2, <2>5, <2>6
  <1>10. ASSUME NEW d \in Domains, reserved'[d] # Absent
         PROVE  \E p \in Places(ranges) : PlaceDomain(ranges, p) = d
    <2>1. PICK here : here = {i \in 1..Len(ranges) : d \in RangeDomains(ranges[i])}  OBVIOUS
    <2>2. reserved'[d] = IF here = {} THEN reserved[d]
                         ELSE ranges[CHOOSE i \in here : TRUE].count
      BY <2>1 DEF TryReserveRanges
    <2>3. here # {}  BY <1>3, <1>10, <2>2
    <2> QED  BY <2>1, <2>3, <1>8
  <1>11. reserved' \in [Domains -> Int]
    <2>1. ASSUME NEW d \in Domains PROVE reserved'[d] \in Int
      <3>1. CASE \E p \in Places(ranges) : PlaceDomain(ranges, p) = d
        BY <3>1, <1>4, <1>9
      <3>2. CASE ~\E p \in Places(ranges) : PlaceDomain(ranges, p) = d
        BY <3>2, <1>10 DEF Absent
      <3> QED  BY <3>1, <3>2
    <2>2. PICK f : reserved' = [d \in Domains |-> f[d]]
      <3>1. reserved' = [d \in Domains |-> reserved'[d]]  BY DEF TryReserveRanges
      <3> QED  BY <3>1
    <2> QED  BY <2>1, <2>2
  <1>12. Undrawn(batch)' = Places(ranges)  BY <1>2 DEF Undrawn
  <1>13. RowsOf(ranges, Places(ranges)) <= Remaining("full") /\ Remaining("full")' = Remaining("full")
    BY <1>1 DEF BatchFits, Remaining
  <1>14. {d \in Domains : reserved'[d] # Absent} = {PlaceDomain(ranges, p) : p \in Places(ranges)}
    <2>1. \A p \in Places(ranges) : reserved'[PlaceDomain(ranges, p)] # Absent
      BY <1>4, <1>9 DEF Absent
    <2> QED  BY <2>1, <1>6, <1>10
  <1>15. ReservationsLive'
    <2>1. \A p \in Places(ranges) : /\ reserved'[PlaceDomain(ranges, p)] = ranges[p[1]].count
                                    /\ consumed'["full"][PlaceDomain(ranges, p)] = Absent
      BY <1>1, <1>9 DEF BatchFree
    <2> QED  BY <2>1, <1>2, <1>12, <1>13, <1>14 DEF ReservationsLive, RowsOf, Remaining, PlaceDomain
  <1> QED  BY <1>2, <1>7, <1>11, <1>15 DEF RInv, BatchPlaces, PlaceDomain, Places

\* finish, abort, drop: what was not drawn is free again, and that is all there
\* was.
LEMMA EndKeeps ==
    ASSUME CInv, CInv', RInv, EndBatch
    PROVE  RInv'
  <1>1. batch' = NoBatch /\ reserved' = CancelRemaining(batch) /\ ~batch'.active
    BY DEF EndBatch, NoBatch
  <1>2. ASSUME NEW d \in Domains PROVE reserved'[d] = Absent
    <2>1. reserved'[d] = IF \E p \in Undrawn(batch) : /\ PlaceDomain(batch.ranges, p) = d
                                                      /\ reserved[d] = batch.ranges[p[1]].count
                         THEN Absent ELSE reserved[d]
      BY <1>1 DEF CancelRemaining
    <2>2. CASE reserved[d] = Absent  BY <2>1, <2>2
    <2>3. CASE reserved[d] # Absent
      <3>1. PICK p \in Undrawn(batch) : PlaceDomain(batch.ranges, p) = d
        BY <2>3 DEF RInv, ReservationsLive
      <3>2. reserved[d] = batch.ranges[p[1]].count
        BY <3>1 DEF RInv, ReservationsLive
      <3> QED  BY <2>1, <3>1, <3>2
    <2> QED  BY <2>2, <2>3
  <1>3. reserved' \in [Domains -> Int]
    <2>1. reserved' = [d \in Domains |-> reserved'[d]]  BY <1>1 DEF CancelRemaining
    <2>2. Absent \in Int  BY DEF Absent
    <2> QED  BY <1>2, <2>1, <2>2
  <1>4. (CInv /\ batch = NoBatch =>
            /\ ReservationsLive <=> \A d \in Domains : reserved[d] = Absent
            /\ BatchPlaces(batch.ranges))'
    BY NoBatchLive, PTL
  <1> QED  BY <1>1, <1>2, <1>3, <1>4 DEF RInv

\* The pool has the rows for a place that its batch has not drawn.
LEMMA PlaceFits ==
    ASSUME CInv, RInv, NEW p \in Undrawn(batch)
    PROVE  Fits(batch.ranges[p[1]].count)
  <1>1. PICK ranges, U : ranges = batch.ranges /\ U = Undrawn(batch)  OBVIOUS
  <1>2. PICK n : n = ranges[p[1]].count  OBVIOUS
  <1>3. ranges \in Seq(FullRanges) /\ U \subseteq Places(ranges) /\ p \in U
    BY <1>1 DEF CInv, StreamTypes, Undrawn
  <1>4. n \in Nat  BY <1>2, <1>3, PlaceFacts
  <1>5. PICK u \in Nat, v \in Nat :
          u = RowsOf(ranges, U) /\ v = RowsOf(ranges, U \ {p}) /\ u = n + v
    <2>1. RowsOf(ranges, U) \in Nat /\ RowsOf(ranges, U) = n + RowsOf(ranges, U \ {p})
      BY <1>2, <1>3, RowsLeft
    <2>2. RowsOf(ranges, U \ {p}) \in Nat
      <3>1. U \ {p} \subseteq Places(ranges)  BY <1>3
      <3> QED  BY <3>1, <1>3, RowsLeft
    <2> QED  BY <2>1, <2>2
  <1>6. PICK c \in Nat, l \in Nat : c = cursor["full"] /\ l = Pool["full"]
    BY StreamAssumption DEF CInv, StreamTypes, Kinds
  <1>7. u <= l - c  BY <1>1, <1>5, <1>6 DEF RInv, ReservationsLive, Remaining
  <1> QED  BY <1>1, <1>2, <1>4, <1>5, <1>6, <1>7 DEF Fits, Remaining

\* A draw of a place of a batch takes the rows that were kept for it, and no
\* others: it always fits, and the places that are left keep theirs.
LEMMA DrawPlaceKeeps ==
    ASSUME CInv, RInv, NEW p \in Places(batch.ranges), BatchDraw(p)
    PROVE  RInv'
  <1>1. PICK ranges, U : ranges = batch.ranges /\ U = Undrawn(batch)  OBVIOUS
  <1>2. PICK n, d : n = ranges[p[1]].count /\ d = PlaceDomain(ranges, p)  OBVIOUS
  <1>3. /\ batch.active /\ p \in U /\ OpenFull(d, n, "direct")
        /\ batch' = IF Fits(n) THEN [batch EXCEPT !.drawn = @ \cup {p}] ELSE batch
    BY <1>1, <1>2 DEF BatchDraw
  <1>4. ranges \in Seq(FullRanges) /\ batch \in BatchTypes
    BY <1>1 DEF CInv, StreamTypes, BatchTypes
  <1>5. U \subseteq Places(ranges) /\ U = Places(ranges) \ batch.drawn
    BY <1>1 DEF Undrawn
  <1>6. n \in Nat /\ d \in Domains
    BY <1>1, <1>2, <1>4, PlaceFacts DEF RInv, BatchPlaces
  <1>7. PICK u \in Nat, v \in Nat :
          u = RowsOf(ranges, U) /\ v = RowsOf(ranges, U \ {p}) /\ u = n + v
    <2>1. RowsOf(ranges, U) \in Nat /\ RowsOf(ranges, U) = n + RowsOf(ranges, U \ {p})
      BY <1>2, <1>3, <1>4, <1>5, RowsLeft
    <2>2. RowsOf(ranges, U \ {p}) \in Nat
      <3>1. U \ {p} \subseteq Places(ranges)  BY <1>5
      <3> QED  BY <3>1, <1>4, RowsLeft
    <2> QED  BY <2>1, <2>2
  <1>8. PICK c \in Nat, l \in Nat : c = cursor["full"] /\ l = Pool["full"]
    BY StreamAssumption DEF CInv, StreamTypes, Kinds
  <1>9. u <= l - c  BY <1>1, <1>7, <1>8 DEF RInv, ReservationsLive, Remaining
  <1>10. Fits(n)  BY <1>1, <1>2, <1>3, PlaceFits
  <1>11. /\ reserved' = [reserved EXCEPT ![d] = Absent]
         /\ consumed' = [consumed EXCEPT !["full"][d] = n]
         /\ cursor' = [cursor EXCEPT !["full"] = @ + n]
    BY <1>3, <1>10 DEF OpenFull
  <1>12. /\ reserved' \in [Domains -> Int] /\ reserved'[d] = Absent
         /\ \A e \in Domains : e # d => reserved'[e] = reserved[e]
    <2>1. reserved \in [Domains -> Int] /\ Absent \in Int  BY DEF RInv, Absent
    <2> QED  BY <1>6, <1>11, <2>1
  <1>13. \A e \in Domains : e # d => consumed'["full"][e] = consumed["full"][e]
    <2>1. consumed \in [Kinds -> [Domains -> Int]]  BY DEF CInv, StreamTypes
    <2> QED  BY <1>6, <1>11, <2>1 DEF Kinds
  <1>14. cursor'["full"] = c + n
    <2>1. cursor \in [Kinds -> Nat] /\ "full" \in Kinds  BY DEF CInv, StreamTypes, Kinds
    <2> QED  BY <1>8, <1>11, <2>1
  <1>15. batch'.active /\ batch'.ranges = ranges /\ batch'.drawn = batch.drawn \cup {p}
    BY <1>1, <1>3, <1>4, <1>10 DEF BatchTypes
  <1>16. Undrawn(batch)' = U \ {p}
    BY <1>5, <1>15 DEF Undrawn
  <1>17. BatchPlaces(ranges)  BY <1>1 DEF RInv
  <1>18. \A q \in U \ {p} : /\ PlaceDomain(ranges, q) \in Domains /\ PlaceDomain(ranges, q) # d
    BY <1>2, <1>3, <1>5, <1>17 DEF BatchPlaces
  <1>19. \A q \in U : /\ reserved[PlaceDomain(ranges, q)] = ranges[q[1]].count
                      /\ consumed["full"][PlaceDomain(ranges, q)] = Absent
    BY <1>1 DEF RInv, ReservationsLive
  <1>20. \A q \in U \ {p} : /\ reserved'[PlaceDomain(ranges, q)] = ranges[q[1]].count
                            /\ consumed'["full"][PlaceDomain(ranges, q)] = Absent
    BY <1>12, <1>13, <1>18, <1>19
  <1>21. RowsOf(ranges, U \ {p}) <= Pool["full"] - cursor'["full"]
    BY <1>6, <1>7, <1>8, <1>9, <1>14
  <1>22. {e \in Domains : reserved'[e] # Absent} = {PlaceDomain(ranges, q) : q \in U \ {p}}
    <2>1. {e \in Domains : reserved[e] # Absent} = {PlaceDomain(ranges, q) : q \in U}
      BY <1>1 DEF RInv, ReservationsLive
    <2>2. ASSUME NEW e \in Domains, reserved'[e] # Absent
          PROVE  \E q \in U \ {p} : PlaceDomain(ranges, q) = e
      <3>1. e # d /\ reserved[e] # Absent  BY <1>12, <2>2
      <3>2. PICK q \in U : PlaceDomain(ranges, q) = e  BY <2>1, <3>1
      <3>3. q # p  BY <1>2, <3>1, <3>2
      <3> QED  BY <3>2, <3>3
    <2>3. ASSUME NEW q \in U \ {p}
          PROVE  PlaceDomain(ranges, q) \in Domains /\ reserved'[PlaceDomain(ranges, q)] # Absent
      <3>1. reserved[PlaceDomain(ranges, q)] # Absent  BY <2>1
      <3> QED  BY <1>12, <1>18, <3>1
    <2> QED  BY <2>2, <2>3
  <1>23. ReservationsLive'
    BY <1>15, <1>16, <1>20, <1>21, <1>22 DEF ReservationsLive, RowsOf, Remaining, PlaceDomain
  <1> QED  BY <1>12, <1>15, <1>17, <1>23 DEF RInv, BatchPlaces, PlaceDomain, Places

\* A stream starts without a batch and without reservations.
LEMMA RInvInit == Init => RInv
  <1> SUFFICES ASSUME Init PROVE RInv  OBVIOUS
  <1>1. batch = NoBatch /\ reserved = [d \in Domains |-> Absent] /\ ~batch.active
    BY DEF Init, StreamInit, NoBatch
  <1>2. CInv  BY CInvInit
  <1>3. reserved \in [Domains -> Int] /\ \A d \in Domains : reserved[d] = Absent
    BY <1>1 DEF Absent
  <1> QED  BY <1>1, <1>2, <1>3, NoBatchLive DEF RInv

\* Whatever a step does, what is reserved stays what the batch has not drawn.
LEMMA RInvStep == CInv /\ CInv' /\ RInv /\ [Next]_vars => RInv'
  <1> SUFFICES ASSUME CInv, CInv', RInv, [Next]_vars PROVE RInv'
    OBVIOUS
  <1>1. reserved \in [Domains -> Int]  BY DEF RInv
  <1>2. ASSUME ~batch.active, batch' = batch, reserved' = reserved PROVE RInv'
    BY <1>1, <1>2, IdleKeeps
  <1>3. CASE EnableScheduleAudit \/ EnableSubfieldCollection \/ EnableSourceCollection
    BY <1>2, <1>3 DEF EnableScheduleAudit, EnableSubfieldCollection, EnableSourceCollection,
                      EnableSidecars
  <1>4. ASSUME NEW base \in Domains, NEW rows \in 1..MaxRows, NEW cols \in Counts,
               DrawSubs(base, rows, cols)
        PROVE  RInv'
    BY <1>2, <1>4 DEF DrawSubs, ReserveSubRows
  <1>5. ASSUME NEW dom \in Domains, NEW n \in Counts, NEW role \in {"direct", "product"},
               DrawFulls(dom, n, role)
        PROVE  RInv'
    <2>1. ~batch.active /\ batch' = batch /\ reserved' = [reserved EXCEPT ![dom] = Absent]
      BY <1>5 DEF DrawFulls, DrawFull, OpenFull
    <2>2. reserved' \in [Domains -> Int] /\ \A d \in Domains : reserved'[d] \in {reserved[d], Absent}
      BY <1>1, <2>1 DEF Absent
    <2> QED  BY <2>1, <2>2, IdleKeeps
  <1>6. \A r, q \in FullRanges : <<r>> \in Seq(FullRanges) /\ <<r, q>> \in Seq(FullRanges)
    OBVIOUS
  <1>7. CASE \E r \in FullRanges : TryReserveRanges(<<r>>)
    BY <1>6, <1>7, ReserveKeeps
  <1>8. CASE \E r, q \in FullRanges : TryReserveRanges(<<r, q>>)
    BY <1>6, <1>8, ReserveKeeps
  <1>9. ASSUME NEW p \in Places(batch.ranges), DrawPlace(p) PROVE RInv'
    BY <1>9, DrawPlaceKeeps DEF DrawPlace
  <1>10. CASE EndBatch
    BY <1>10, EndKeeps
  <1>11. CASE UNCHANGED streamVars
    BY <1>11, LedgerKeeps DEF streamVars
  <1>12. ASSUME NEW k, NEW dom, \/ DrawSubTags(dom) \/ RecordCorrections(k, dom)
                                \/ FinishCollection(k) \/ EnterPostSourcePhase \/ UNCHANGED vars
         PROVE  RInv'
    BY <1>11, <1>12 DEF DrawSubTags, RecordCorrections, FinishCollection, EnterPostSourcePhase, vars
  <1> QED
    BY <1>3, <1>4, <1>5, <1>7, <1>8, <1>9, <1>10, <1>12 DEF Next

\* What a batch has reserved it can draw, in any order: the ledger keeps the
\* places it has not drawn for it, each with its own number of rows, nobody has
\* opened them, and the pool has the rows for all of them together.  Once it has
\* ended, by finish, abort or drop, nothing stays reserved.
THEOREM ReservationsLiveAlways == Spec => []ReservationsLive
  <1>1. RInv => ReservationsLive  BY DEF RInv
  <1> QED  BY <1>1, RInvInit, RInvStep, StreamInvariant, PTL DEF Spec
\* A draw of a batch never finds the pool empty: the panic after the domain was
\* opened, which leaves a domain spent without rows, is out of a batch's reach.
THEOREM BatchDrawsFit == Spec => [][\A p : DrawPlace(p) => batch'.drawn = batch.drawn \cup {p}]_vars
  <1>1. ASSUME CInv, RInv
        PROVE  \A p : DrawPlace(p) => batch'.drawn = batch.drawn \cup {p}
    <2>1. SUFFICES ASSUME NEW p, DrawPlace(p) PROVE batch'.drawn = batch.drawn \cup {p}
      OBVIOUS
    <2>2. /\ p \in Undrawn(batch)
          /\ batch' = IF Fits(batch.ranges[p[1]].count) THEN [batch EXCEPT !.drawn = @ \cup {p}]
                      ELSE batch
      BY <2>1 DEF DrawPlace, BatchDraw
    <2>3. batch' = [batch EXCEPT !.drawn = @ \cup {p}]  BY <1>1, <2>2, PlaceFits
    <2>4. batch \in BatchTypes  BY <1>1 DEF CInv, StreamTypes, BatchTypes
    <2> QED  BY <2>3, <2>4 DEF BatchTypes
  <1> QED  BY <1>1, RInvInit, RInvStep, StreamInvariant, PTL DEF Spec

=============================================================================
