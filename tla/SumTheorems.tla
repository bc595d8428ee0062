---------------------------- MODULE SumTheorems ----------------------------
(***************************************************************************)
(* Sums over finite sets.  SumFunctionOnSet adds up a function over a set  *)
(* by taking out one chosen element after the other; here is what of that  *)
(* the proofs about totals need: any element may be taken out first, and a *)
(* sum depends on the summands alone.  Induction over finite sets is       *)
(* induction by the least counterexample, a fact the library states        *)
(* without an operator parameter.                                          *)
(***************************************************************************)
EXTENDS Functions, Integers, FiniteSets, FiniteSetTheorems, WellFoundedInduction, TLAPS

\* What the sum takes out of a set first.
Pick(s) == CHOOSE x \in s : TRUE

\* g gives the sum of f over every subset of S.
IsSum(g, f, S) ==
    g = [s \in SUBSET S |-> IF s = {} THEN 0 ELSE f[Pick(s)] + g[s \ {Pick(s)}]]

SumOf(f, S) == (CHOOSE g : IsSum(g, f, S))[S]

\* The library's sum unfolds to the recursive function of its fold.
LEMMA SumIs == \A f, S : SumFunctionOnSet(f, S) = SumOf(f, S)
BY DEF SumFunctionOnSet, FoldFunctionOnSet, MapThenFoldSet, IsSum, SumOf, Pick

\* A set of subsets of a finite set has a minimal member.
LEMMA MinimalSubset ==
    ASSUME NEW S, IsFiniteSet(S), NEW B, B \subseteq SUBSET S, B # {}
    PROVE  \E s \in B : \A t \in B : t \subseteq s => t = s
<1>1. IsWellFoundedOn(StrictSubsetOrdering(S), SUBSET S)
  BY FS_StrictSubsetOrderingWellFounded, FS_FiniteSubsetsOfFinite
<1>2. PICK s \in B : \A t \in B : ~(<<t, s>> \in StrictSubsetOrdering(S))
  BY <1>1, WFMin
<1>3. ASSUME NEW t \in B, t \subseteq s, t # s PROVE FALSE
  <2>1. <<t, s>> \in StrictSubsetOrdering(S)
    <3>1. <<t, s>> \in (SUBSET S) \X (SUBSET S)
      OBVIOUS
    <3> QED BY <1>3, <3>1 DEF StrictSubsetOrdering
  <2> QED BY <1>2, <2>1
<1> QED BY <1>3

\* CHOOSE takes an element of the set.
LEMMA Picks == \A s : s # {} => Pick(s) \in s /\ s \ {Pick(s)} \subseteq s /\ s \ {Pick(s)} # s
BY DEF Pick

\* Two sum functions agree wherever both are defined.
LEMMA SumUnique ==
    ASSUME NEW f, NEW S, NEW T, IsFiniteSet(T), T \subseteq S,
           NEW g, IsSum(g, f, S), NEW h, IsSum(h, f, T)
    PROVE  g[T] = h[T]
<1> DEFINE B == {t \in SUBSET T : g[t] # h[t]}
<1>1. SUFFICES ASSUME B # {} PROVE FALSE
  OBVIOUS
<1>2. PICK t \in B : \A u \in B : u \subseteq t => u = t
  <2>1. B \subseteq SUBSET T
    OBVIOUS
  <2> HIDE DEF B
  <2> QED BY <1>1, <2>1, MinimalSubset
<1>3. /\ g[t] = IF t = {} THEN 0 ELSE f[Pick(t)] + g[t \ {Pick(t)}]
      /\ h[t] = IF t = {} THEN 0 ELSE f[Pick(t)] + h[t \ {Pick(t)}]
  BY DEF IsSum
<1>4. t # {}
  BY <1>3
<1>5. g[t \ {Pick(t)}] = h[t \ {Pick(t)}]
  BY <1>2, <1>4, Picks
<1> QED BY <1>3, <1>4, <1>5

\* Every finite set has a sum function.
LEMMA SumExists ==
    ASSUME NEW f, NEW S, IsFiniteSet(S)
    PROVE  \E g : IsSum(g, f, S)
<1> DEFINE B == {s \in SUBSET S : ~\E g : IsSum(g, f, s)}
<1>1. SUFFICES ASSUME B # {} PROVE FALSE
  OBVIOUS
<1>2. PICK s \in B : \A u \in B : u \subseteq s => u = s
  <2>1. B \subseteq SUBSET S
    OBVIOUS
  <2> HIDE DEF B
  <2> QED BY <1>1, <2>1, MinimalSubset
<1>3. ASSUME NEW u \in SUBSET s, u # s PROVE IsSum(CHOOSE g : IsSum(g, f, u), f, u)
  BY <1>2, <1>3
<1>4. ASSUME NEW u \in SUBSET s, u # s
      PROVE  SumOf(f, u) = IF u = {} THEN 0 ELSE f[Pick(u)] + SumOf(f, u \ {Pick(u)})
  <2>1. PICK g : g = CHOOSE h : IsSum(h, f, u)
    OBVIOUS
  <2>2. IsSum(g, f, u) /\ SumOf(f, u) = g[u]
    BY <1>3, <1>4, <2>1 DEF SumOf
  <2>3. g[u] = IF u = {} THEN 0 ELSE f[Pick(u)] + g[u \ {Pick(u)}]
    BY <2>2 DEF IsSum
  <2>4. CASE u # {}
    <3>1. PICK v : v = u \ {Pick(u)}
      OBVIOUS
    <3>2. v \in SUBSET s /\ v # s /\ v \subseteq u
      BY <1>4, <2>4, <3>1, Picks
    <3>3. PICK h : h = CHOOSE k : IsSum(k, f, v)
      OBVIOUS
    <3>4. IsSum(h, f, v) /\ SumOf(f, v) = h[v]
      BY <1>3, <3>2, <3>3 DEF SumOf
    <3>5. IsFiniteSet(v)
      BY <3>2, FS_Subset
    <3>6. g[v] = h[v]
      BY <2>2, <3>2, <3>4, <3>5, SumUnique
    <3> QED BY <2>2, <2>3, <2>4, <3>1, <3>4, <3>6
  <2> QED BY <2>2, <2>3, <2>4
<1> DEFINE G == [t \in SUBSET s |-> IF t = {} THEN 0 ELSE f[Pick(t)] + SumOf(f, t \ {Pick(t)})]
<1>5. ASSUME NEW t \in SUBSET s, t # {}
      PROVE  G[t \ {Pick(t)}] = SumOf(f, t \ {Pick(t)})
  <2>1. PICK v : v = t \ {Pick(t)}
    OBVIOUS
  <2>2. v \in SUBSET s /\ v # s
    BY <1>5, <2>1, Picks
  <2> QED BY <1>4, <2>1, <2>2
<1>6. IsSum(G, f, s)
  BY <1>5 DEF IsSum
<1> QED BY <1>2, <1>6

\* The recursion the library's sum stands for.
LEMMA SumTaken ==
    ASSUME NEW f, NEW S, IsFiniteSet(S)
    PROVE  SumOf(f, S) = IF S = {} THEN 0 ELSE f[Pick(S)] + SumOf(f, S \ {Pick(S)})
<1>1. PICK g : g = CHOOSE h : IsSum(h, f, S)
  OBVIOUS
<1>2. IsSum(g, f, S) /\ SumOf(f, S) = g[S]
  BY <1>1, SumExists DEF SumOf
<1>3. g[S] = IF S = {} THEN 0 ELSE f[Pick(S)] + g[S \ {Pick(S)}]
  BY <1>2 DEF IsSum
<1>4. CASE S # {}
  <2>1. PICK v : v = S \ {Pick(S)}
    OBVIOUS
  <2>2. v \subseteq S /\ IsFiniteSet(v)
    BY <2>1, FS_Subset
  <2>3. PICK h : h = CHOOSE k : IsSum(k, f, v)
    OBVIOUS
  <2>4. IsSum(h, f, v) /\ SumOf(f, v) = h[v]
    BY <2>2, <2>3, SumExists DEF SumOf
  <2>5. g[v] = h[v]
    BY <1>2, <2>2, <2>4, SumUnique
  <2> QED BY <1>2, <1>3, <1>4, <2>1, <2>4, <2>5
<1> QED BY <1>2, <1>3, <1>4

-----------------------------------------------------------------------------
(* What the proofs use.                                                    *)

\* An empty sum.
LEMMA SumEmpty == \A f : SumFunctionOnSet(f, {}) = 0
BY SumIs, SumTaken, FS_EmptySet

\* Sums of integers are integers, and any element may be taken out first.
LEMMA SumOut ==
    ASSUME NEW f, NEW S, IsFiniteSet(S), \A x \in S : f[x] \in Int
    PROVE  /\ SumOf(f, S) \in Int
           /\ \A x \in S : SumOf(f, S) = f[x] + SumOf(f, S \ {x})
<1> DEFINE Fair(s) == /\ SumOf(f, s) \in Int
                      /\ \A x \in s : SumOf(f, s) = f[x] + SumOf(f, s \ {x})
           B == {s \in SUBSET S : ~Fair(s)}
<1>1. SUFFICES ASSUME B # {} PROVE FALSE
  <2>1. Fair(S)
    BY <1>1
  <2> QED BY <2>1
<1>2. PICK s \in B : \A u \in B : u \subseteq s => u = s
  <2>1. B \subseteq SUBSET S
    OBVIOUS
  <2> HIDE DEF B
  <2> QED BY <1>1, <2>1, MinimalSubset
<1>3. ASSUME NEW u \in SUBSET s, u # s PROVE Fair(u)
  BY <1>2, <1>3
<1>4. IsFiniteSet(s) /\ s \subseteq S
  BY FS_Subset
<1>5. CASE s = {}
  <2>1. SumOf(f, s) = 0
    BY <1>4, <1>5, SumTaken
  <2>2. Fair(s)
    BY <1>5, <2>1
  <2> QED BY <1>2, <2>2
<1>6. CASE s # {}
  <2>1. PICK p : p = Pick(s)
    OBVIOUS
  <2>2. /\ p \in s /\ s \ {p} \in SUBSET s /\ s \ {p} # s
        /\ f[p] \in Int
    BY <1>4, <1>6, <2>1, Picks
  <2>3. SumOf(f, s) = f[p] + SumOf(f, s \ {p})
    BY <1>4, <1>6, <2>1, SumTaken
  <2>4. SumOf(f, s \ {p}) \in Int
    BY <1>3, <2>2
  <2>5. ASSUME NEW x \in s, x # p
        PROVE  SumOf(f, s) = f[x] + SumOf(f, s \ {x})
    <3>1. PICK v : v = s \ {x, p}
      OBVIOUS
    <3>2. /\ s \ {x} \in SUBSET s /\ s \ {x} # s
          /\ v \in SUBSET s /\ v # s
          /\ (s \ {x}) \ {p} = v /\ (s \ {p}) \ {x} = v
          /\ p \in s \ {x} /\ x \in s \ {p}
      BY <2>2, <2>5, <3>1
    <3>3. SumOf(f, s \ {p}) = f[x] + SumOf(f, v)
      BY <1>3, <2>2, <3>2
    <3>4. SumOf(f, s \ {x}) = f[p] + SumOf(f, v)
      BY <1>3, <3>2
    <3>5. SumOf(f, v) \in Int /\ f[x] \in Int
      BY <1>3, <1>4, <3>2
    <3> QED BY <2>2, <2>3, <3>3, <3>4, <3>5
  <2>6. SumOf(f, s) \in Int
    BY <2>2, <2>3, <2>4
  <2>7. \A x \in s : SumOf(f, s) = f[x] + SumOf(f, s \ {x})
    BY <2>3, <2>5
  <2>8. Fair(s)
    BY <2>6, <2>7
  <2> QED BY <1>2, <2>8
<1> QED BY <1>5, <1>6

\* One summand more.
LEMMA SumAdd ==
    ASSUME NEW f, NEW S, IsFiniteSet(S), NEW x, x \notin S, \A y \in S \cup {x} : f[y] \in Int
    PROVE  /\ SumFunctionOnSet(f, S \cup {x}) = SumFunctionOnSet(f, S) + f[x]
           /\ SumFunctionOnSet(f, S) \in Int
<1>1. PICK T : T = S \cup {x}
  OBVIOUS
<1>2. IsFiniteSet(T) /\ x \in T /\ T \ {x} = S /\ \A y \in T : f[y] \in Int
  BY <1>1, FS_AddElement
<1>3. SumOf(f, T) = f[x] + SumOf(f, T \ {x})
  BY <1>2, SumOut
<1>4. SumOf(f, S) \in Int /\ f[x] \in Int
  BY <1>1, <1>2, SumOut
<1>5. SumFunctionOnSet(f, S) = SumOf(f, S) /\ SumFunctionOnSet(f, T) = SumOf(f, T)
  BY SumIs
<1>6. SumOf(f, T) = f[x] + SumOf(f, S)
  BY <1>2, <1>3
<1>7. SumFunctionOnSet(f, T) = SumFunctionOnSet(f, S) + f[x]
  BY <1>4, <1>5, <1>6
<1> QED BY <1>1, <1>4, <1>5, <1>7

\* One summand less.
LEMMA SumRemove ==
    ASSUME NEW f, NEW S, IsFiniteSet(S), NEW x \in S, \A y \in S : f[y] \in Int
    PROVE  /\ SumFunctionOnSet(f, S) = f[x] + SumFunctionOnSet(f, S \ {x})
           /\ SumFunctionOnSet(f, S \ {x}) \in Int
<1>1. IsFiniteSet(S \ {x})
  BY FS_RemoveElement
<1> QED BY <1>1, SumOut, SumIs

\* A sum depends on its summands.
LEMMA SumAgree ==
    ASSUME NEW f, NEW g, NEW S, IsFiniteSet(S), \A x \in S : f[x] = g[x]
    PROVE  SumFunctionOnSet(f, S) = SumFunctionOnSet(g, S)
<1> DEFINE B == {s \in SUBSET S : SumOf(f, s) # SumOf(g, s)}
<1>1. SUFFICES ASSUME B # {} PROVE FALSE
  <2>1. SumOf(f, S) = SumOf(g, S)
    BY <1>1
  <2> QED BY <2>1, SumIs
<1>2. PICK s \in B : \A u \in B : u \subseteq s => u = s
  <2>1. B \subseteq SUBSET S
    OBVIOUS
  <2> HIDE DEF B
  <2> QED BY <1>1, <2>1, MinimalSubset
<1>3. IsFiniteSet(s) /\ s \subseteq S
  BY FS_Subset
<1>4. /\ SumOf(f, s) = IF s = {} THEN 0 ELSE f[Pick(s)] + SumOf(f, s \ {Pick(s)})
      /\ SumOf(g, s) = IF s = {} THEN 0 ELSE g[Pick(s)] + SumOf(g, s \ {Pick(s)})
  BY <1>3, SumTaken
<1>5. s # {}
  BY <1>2, <1>4
<1>6. SumOf(f, s \ {Pick(s)}) = SumOf(g, s \ {Pick(s)})
  BY <1>2, <1>5, Picks
<1>7. f[Pick(s)] = g[Pick(s)]
  BY <1>3, <1>5, Picks
<1> QED BY <1>2, <1>4, <1>5, <1>6, <1>7

\* A sum of naturals is one, and bounds every part of it.
LEMMA SumNat ==
    ASSUME NEW f, NEW S, IsFiniteSet(S), \A x \in S : f[x] \in Nat
    PROVE  SumFunctionOnSet(f, S) \in Nat
<1> DEFINE B == {s \in SUBSET S : SumOf(f, s) \notin Nat}
<1>1. SUFFICES ASSUME B # {} PROVE FALSE
  <2>1. SumOf(f, S) \in Nat
    BY <1>1
  <2> QED BY <2>1, SumIs
<1>2. PICK s \in B : \A u \in B : u \subseteq s => u = s
  <2>1. B \subseteq SUBSET S
    OBVIOUS
  <2> HIDE DEF B
  <2> QED BY <1>1, <2>1, MinimalSubset
<1>3. IsFiniteSet(s) /\ s \subseteq S
  BY FS_Subset
<1>4. SumOf(f, s) = IF s = {} THEN 0 ELSE f[Pick(s)] + SumOf(f, s \ {Pick(s)})
  BY <1>3, SumTaken
<1>5. s # {}
  BY <1>2, <1>4
<1>6. SumOf(f, s \ {Pick(s)}) \in Nat /\ f[Pick(s)] \in Nat
  BY <1>2, <1>3, <1>5, Picks
<1> QED BY <1>2, <1>4, <1>5, <1>6
=============================================================================
