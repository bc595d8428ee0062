-------------------------- MODULE SharedRoundProofs -------------------------
(***************************************************************************)
(* What the shared-round challenger does for every pair of lane programs:  *)
(* the order of each lane's moves and challenges in the one transcript,    *)
(* the delivery of the challenges, and the refinement of LockstepRounds.   *)
(*                                                                         *)
(* The argument follows the critical sections.  shared_challenge is        *)
(* Arrive, then a release, then the return; finish_lane is a release after *)
(* the flag is set.  So the invariant is stated of a shared state s and of *)
(* lanes t, and each of these parts of a step preserves it.                *)
(***************************************************************************)
EXTENDS SharedRound, TLAPS, SequenceTheorems

-----------------------------------------------------------------------------
(* Types.                                                                  *)

Item == Lanes \X Nat

Kinds == {"none", "observe", "field", "bits", "relation", "postproof", "digest"}

RoundSet == [items : Seq(Item), kind : Kinds, width : Nat, lanes : SUBSET Lanes]

SharedSet ==
    [ rootSeen : [Lanes -> BOOLEAN],
      bound : [Lanes -> BOOLEAN],
      relationDone : BOOLEAN,
      pending : Seq(Item),
      generation : [Lanes -> Nat],
      arrived : [Lanes -> BOOLEAN],
      completed : [Lanes -> BOOLEAN],
      request : [Lanes -> Op \cup {NoRequest}],
      response : [Lanes -> Nat \X Nat],
      transcript : Seq(RoundSet) ]

LaneSet ==
    [ pc : {"new", "run", "wait", "failing", "done", "failed", "lost"},
      step : Nat, generation : Nat, got : Seq(Nat \X Nat) ]

Mains == {"roots", "relation", "statements", "lanes", "postproof", "finish", "done", "failed"}

Types ==
    /\ program \in [Lanes -> Seq(Op)]
    /\ shared \in SharedSet
    /\ asleep \subseteq Lanes
    /\ lane \in [Lanes -> LaneSet]
    /\ main \in Mains

-----------------------------------------------------------------------------
(* The notions of the properties, of lane l of any state: P the programs,  *)
(* s what the mutex protects, t the lanes.                                 *)

ItemsIn(s, p) == IF p <= Len(s.transcript) THEN s.transcript[p].items ELSE s.pending

\* Item k of round p is operation i of lane l.
StandsIn(s, p, k, l, i) ==
    /\ p \in 1..(Len(s.transcript) + 1)
    /\ k \in 1..Len(ItemsIn(s, p))
    /\ ItemsIn(s, p)[k] = <<l, i>>

ObservedIn(P, s, t, l, i) ==
    \/ i = Root /\ s.rootSeen[l]
    \/ i \in 1..(t[l].step - 1) /\ ~IsRequest(P[l][i])

AnsweredIn(s, t, l) == t[l].pc = "wait" /\ ~s.arrived[l]

HasAnswerIn(P, s, t, l, j) ==
    /\ j \in 1..Len(P[l])
    /\ IsRequest(P[l][j])
    /\ j < t[l].step \/ (j = t[l].step /\ AnsweredIn(s, t, l))

AnswerIn(s, t, l, j) == IF j < t[l].step THEN t[l].got[j] ELSE s.response[l]

-----------------------------------------------------------------------------
(* The inductive invariant.                                                *)

\* Where lane l is, and how its part of the shared state follows.
Flow(P, s, t, l) ==
    /\ t[l].step \in 1..(Len(P[l]) + 1)
    /\ Len(t[l].got) = t[l].step - 1
    /\ t[l].pc = "new" => t[l].step = 1
    /\ t[l].pc # "new" => s.bound[l]
    /\ s.completed[l] <=> t[l].pc \in {"done", "failed"}
    /\ t[l].pc = "wait" => t[l].step <= Len(P[l]) /\ IsRequest(P[l][t[l].step])
    /\ s.arrived[l] =>
          /\ t[l].pc = "wait"
          /\ s.request[l] = P[l][t[l].step]
          /\ s.generation[l] = t[l].generation
    /\ ~s.arrived[l] => s.request[l] = NoRequest
    /\ AnsweredIn(s, t, l) => s.generation[l] # t[l].generation

\* LaneOrder of one lane.
Order(P, s, t, l) ==
    /\ \A i \in Nat : ObservedIn(P, s, t, l, i) => \E p, k \in Nat : StandsIn(s, p, k, l, i)
    /\ \A p, k, i \in Nat : StandsIn(s, p, k, l, i) => ObservedIn(P, s, t, l, i)
    /\ \A p, k, q, m, i, j \in Nat :
          StandsIn(s, p, k, l, i) /\ StandsIn(s, q, m, l, j) => (i < j <=> Before(p, k, q, m))
    /\ \A p, k, i, j \in Nat :
          StandsIn(s, p, k, l, i) /\ HasAnswerIn(P, s, t, l, j)
              => (i < j <=> p <= AnswerIn(s, t, l, j)[1])

\* A draw of the transcript that answers request j of lane l.
Fits(P, s, l, j, a) ==
    /\ a[1] \in 1..Len(s.transcript)
    /\ l \in s.transcript[a[1]].lanes
    /\ s.transcript[a[1]].kind = P[l][j].kind
    /\ s.transcript[a[1]].width >= P[l][j].width
    /\ a[2] = P[l][j].width

\* ResponsesExact of one lane, of the answers drawn, taken or not.
Delivered(P, s, t, l) ==
    /\ \A j \in 1..Len(P[l]) : HasAnswerIn(P, s, t, l, j) => Fits(P, s, l, j, AnswerIn(s, t, l, j))
    /\ \A i, j \in 1..Len(P[l]) :
          HasAnswerIn(P, s, t, l, i) /\ HasAnswerIn(P, s, t, l, j) /\ i < j
              => AnswerIn(s, t, l, i)[1] < AnswerIn(s, t, l, j)[1]
    /\ \A q \in 1..Len(s.transcript) : l \in s.transcript[q].lanes =>
          \E j \in 1..Len(P[l]) : HasAnswerIn(P, s, t, l, j) /\ AnswerIn(s, t, l, j)[1] = q

Good(P, s, t) == \A l \in Lanes : Flow(P, s, t, l) /\ Order(P, s, t, l) /\ Delivered(P, s, t, l)

\* No lane waits with a request that could be answered: the other lane has
\* neither asked nor left.
Alone(s) == \A l \in Lanes : s.arrived[l] => ~s.arrived[Other(l)] /\ ~s.completed[Other(l)]

Stage ==
    /\ main \in {"roots", "relation"} => shared.transcript = <<>>
    /\ main \in {"roots", "relation", "statements"} => \A l \in Lanes : lane[l].pc = "new"

SInv ==
    /\ Types
    /\ Good(program, shared, lane)
    /\ Alone(shared)
    /\ Stage

-----------------------------------------------------------------------------
(* How a part of a step changes what the invariant says of a lane.         *)

SameItems(s, s2, l) ==
    \A p, k, i \in Nat : StandsIn(s2, p, k, l, i) <=> StandsIn(s, p, k, l, i)

\* Item n of lane l is put at the end.
NewItem(s, s2, l, n) ==
    \A p, k, i \in Nat :
        StandsIn(s2, p, k, l, i) <=>
            \/ StandsIn(s, p, k, l, i)
            \/ p = Len(s.transcript) + 1 /\ k = Len(s.pending) + 1 /\ i = n

SameObserved(P, s, t, s2, t2, l) ==
    \A i \in Nat : ObservedIn(P, s2, t2, l, i) <=> ObservedIn(P, s, t, l, i)

NewObserved(P, s, t, s2, t2, l, n) ==
    \A i \in Nat : ObservedIn(P, s2, t2, l, i) <=> ObservedIn(P, s, t, l, i) \/ i = n

SameAnswers(P, s, t, s2, t2, l) ==
    \A j \in Nat :
        /\ HasAnswerIn(P, s2, t2, l, j) <=> HasAnswerIn(P, s, t, l, j)
        /\ HasAnswerIn(P, s, t, l, j) => AnswerIn(s2, t2, l, j) = AnswerIn(s, t, l, j)

\* Request n of lane l is answered with a.
NewAnswer(P, s, t, s2, t2, l, n, a) ==
    /\ AnswerIn(s2, t2, l, n) = a
    /\ \A j \in Nat :
        /\ HasAnswerIn(P, s2, t2, l, j) <=> HasAnswerIn(P, s, t, l, j) \/ j = n
        /\ HasAnswerIn(P, s, t, l, j) => j < n
        /\ HasAnswerIn(P, s, t, l, j) => AnswerIn(s2, t2, l, j) = AnswerIn(s, t, l, j)

\* Nothing an item or an answer depends on changes.
LEMMA OrderKept ==
    ASSUME NEW P, NEW s, NEW t, NEW s2, NEW t2, NEW l,
           Order(P, s, t, l),
           SameItems(s, s2, l),
           SameObserved(P, s, t, s2, t2, l),
           SameAnswers(P, s, t, s2, t2, l)
    PROVE  Order(P, s2, t2, l)
<1>1. \A i \in Nat : ObservedIn(P, s2, t2, l, i) => \E p, k \in Nat : StandsIn(s2, p, k, l, i)
  BY DEF Order, SameItems, SameObserved
<1>2. \A p, k, i \in Nat : StandsIn(s2, p, k, l, i) => ObservedIn(P, s2, t2, l, i)
  BY DEF Order, SameItems, SameObserved
<1>3. \A p, k, q, m, i, j \in Nat :
        StandsIn(s2, p, k, l, i) /\ StandsIn(s2, q, m, l, j) => (i < j <=> Before(p, k, q, m))
  BY DEF Order, SameItems
<1>4. \A p, k, i, j \in Nat :
        StandsIn(s2, p, k, l, i) /\ HasAnswerIn(P, s2, t2, l, j)
            => (i < j <=> p <= AnswerIn(s2, t2, l, j)[1])
  BY DEF Order, SameItems, SameAnswers
<1> QED BY <1>1, <1>2, <1>3, <1>4 DEF Order

\* A lane observes after all it has observed, and after every challenge it was
\* answered with: the item stands in the pending move.
LEMMA OrderObserved ==
    ASSUME NEW P, NEW s \in SharedSet, NEW t, NEW s2, NEW t2, NEW l, NEW n \in Nat,
           Order(P, s, t, l),
           NewItem(s, s2, l, n),
           NewObserved(P, s, t, s2, t2, l, n),
           SameAnswers(P, s, t, s2, t2, l),
           \A i \in Nat : ObservedIn(P, s, t, l, i) => i < n,
           \A j \in Nat : HasAnswerIn(P, s, t, l, j) =>
               j < n /\ AnswerIn(s, t, l, j)[1] \in 0..Len(s.transcript)
    PROVE  Order(P, s2, t2, l)
<1> DEFINE N == Len(s.transcript) + 1
           K == Len(s.pending) + 1
<1>0. N \in Nat /\ K \in Nat
  BY DEF SharedSet
<1>1. \A i \in Nat : ObservedIn(P, s2, t2, l, i) => \E p, k \in Nat : StandsIn(s2, p, k, l, i)
  BY <1>0 DEF Order, NewItem, NewObserved
<1>2. \A p, k, i \in Nat : StandsIn(s2, p, k, l, i) => ObservedIn(P, s2, t2, l, i)
  BY DEF Order, NewItem, NewObserved
<1>a. \A p, k, i \in Nat : StandsIn(s, p, k, l, i) => i < n /\ Before(p, k, N, K)
  <2> SUFFICES ASSUME NEW p \in Nat, NEW k \in Nat, NEW i \in Nat, StandsIn(s, p, k, l, i)
               PROVE  i < n /\ Before(p, k, N, K)
    OBVIOUS
  <2>1. i < n
    BY DEF Order
  <2>2. p \in 1..(Len(s.transcript) + 1) /\ k \in 1..Len(ItemsIn(s, p))
    BY DEF StandsIn
  <2>3. CASE p <= Len(s.transcript)
    BY <2>1, <2>3, <1>0 DEF Before, SharedSet
  <2>4. CASE ~(p <= Len(s.transcript))
    <3>1. ItemsIn(s, p) = s.pending
      BY <2>4 DEF ItemsIn
    <3>2. p = N /\ k < K
      BY <2>2, <2>4, <3>1 DEF SharedSet
    <3> QED BY <2>1, <3>2 DEF Before
  <2> QED BY <2>3, <2>4
<1>b. ~Before(N, K, N, K)
  BY <1>0 DEF Before
<1>c. \A p, k \in Nat : Before(p, k, N, K) => ~Before(N, K, p, k)
  BY <1>0 DEF Before
<1>3. ASSUME NEW p \in Nat, NEW k \in Nat, NEW q \in Nat, NEW m \in Nat,
             NEW i \in Nat, NEW j \in Nat,
             StandsIn(s2, p, k, l, i), StandsIn(s2, q, m, l, j)
      PROVE  i < j <=> Before(p, k, q, m)
  <2>1. CASE StandsIn(s, p, k, l, i) /\ StandsIn(s, q, m, l, j)
    BY <2>1 DEF Order
  <2>2. CASE StandsIn(s, p, k, l, i) /\ ~StandsIn(s, q, m, l, j)
    <3>1. q = N /\ m = K /\ j = n
      BY <2>2, <1>3 DEF NewItem
    <3> QED BY <2>2, <3>1, <1>a
  <2>3. CASE ~StandsIn(s, p, k, l, i) /\ StandsIn(s, q, m, l, j)
    <3>1. p = N /\ k = K /\ i = n
      BY <2>3, <1>3 DEF NewItem
    <3>2. j < n /\ Before(q, m, N, K)
      BY <2>3, <1>a
    <3> QED BY <3>1, <3>2, <1>c
  <2>4. CASE ~StandsIn(s, p, k, l, i) /\ ~StandsIn(s, q, m, l, j)
    <3>1. p = N /\ k = K /\ i = n /\ q = N /\ m = K /\ j = n
      BY <2>4, <1>3 DEF NewItem
    <3> QED BY <3>1, <1>b
  <2> QED BY <2>1, <2>2, <2>3, <2>4
<1>4. ASSUME NEW p \in Nat, NEW k \in Nat, NEW i \in Nat, NEW j \in Nat,
             StandsIn(s2, p, k, l, i), HasAnswerIn(P, s2, t2, l, j)
      PROVE  i < j <=> p <= AnswerIn(s2, t2, l, j)[1]
  <2>1. HasAnswerIn(P, s, t, l, j) /\ AnswerIn(s2, t2, l, j) = AnswerIn(s, t, l, j)
    BY <1>4 DEF SameAnswers
  <2>2. CASE StandsIn(s, p, k, l, i)
    BY <2>1, <2>2 DEF Order
  <2>3. CASE ~StandsIn(s, p, k, l, i)
    <3>1. p = N /\ i = n
      BY <2>3, <1>4 DEF NewItem
    <3> QED BY <3>1, <2>1, <1>0
  <2> QED BY <2>2, <2>3
<1> QED BY <1>1, <1>2, <1>3, <1>4 DEF Order

\* A challenge is drawn for a lane after all the lane has observed: its round
\* is the last one.
LEMMA OrderDrawn ==
    ASSUME NEW P, NEW s \in SharedSet, NEW t, NEW s2, NEW t2, NEW l, NEW n \in Nat, NEW a,
           Order(P, s, t, l),
           SameItems(s, s2, l),
           SameObserved(P, s, t, s2, t2, l),
           NewAnswer(P, s, t, s2, t2, l, n, a),
           a[1] = Len(s.transcript) + 1,
           \A i \in Nat : ObservedIn(P, s, t, l, i) => i < n
    PROVE  Order(P, s2, t2, l)
<1>1. \A i \in Nat : ObservedIn(P, s2, t2, l, i) => \E p, k \in Nat : StandsIn(s2, p, k, l, i)
  BY DEF Order, SameItems, SameObserved
<1>2. \A p, k, i \in Nat : StandsIn(s2, p, k, l, i) => ObservedIn(P, s2, t2, l, i)
  BY DEF Order, SameItems, SameObserved
<1>3. \A p, k, q, m, i, j \in Nat :
        StandsIn(s2, p, k, l, i) /\ StandsIn(s2, q, m, l, j) => (i < j <=> Before(p, k, q, m))
  BY DEF Order, SameItems
<1>4. ASSUME NEW p \in Nat, NEW k \in Nat, NEW i \in Nat, NEW j \in Nat,
             StandsIn(s2, p, k, l, i), HasAnswerIn(P, s2, t2, l, j)
      PROVE  i < j <=> p <= AnswerIn(s2, t2, l, j)[1]
  <2>1. StandsIn(s, p, k, l, i)
    BY <1>4 DEF SameItems
  <2>2. CASE HasAnswerIn(P, s, t, l, j)
    BY <2>1, <2>2 DEF Order, NewAnswer
  <2>3. CASE ~HasAnswerIn(P, s, t, l, j)
    <3>1. j = n /\ AnswerIn(s2, t2, l, j)[1] = Len(s.transcript) + 1
      BY <2>3, <1>4 DEF NewAnswer
    <3>2. i < n
      BY <2>1 DEF Order
    <3>3. p <= Len(s.transcript) + 1
      BY <2>1 DEF StandsIn, SharedSet
    <3> QED BY <3>1, <3>2, <3>3
  <2> QED BY <2>2, <2>3
<1> QED BY <1>1, <1>2, <1>3, <1>4 DEF Order

\* The transcript stays, or a round is added that answers other lanes.
OthersDraw(s, s2, l) ==
    \/ s2.transcript = s.transcript
    \/ \E r \in RoundSet : l \notin r.lanes /\ s2.transcript = Append(s.transcript, r)

\* What a lane was answered with stays in the transcript.
LEMMA DeliveredKept ==
    ASSUME NEW P \in [Lanes -> Seq(Op)], NEW s \in SharedSet, NEW t, NEW s2, NEW t2,
           NEW l \in Lanes,
           Delivered(P, s, t, l),
           SameAnswers(P, s, t, s2, t2, l),
           OthersDraw(s, s2, l)
    PROVE  Delivered(P, s2, t2, l)
<1>0. Len(P[l]) \in Nat
  OBVIOUS
<1>a. /\ Len(s.transcript) \in Nat
      /\ Len(s2.transcript) >= Len(s.transcript)
      /\ Len(s2.transcript) \in Nat
      /\ \A q \in 1..Len(s.transcript) : s2.transcript[q] = s.transcript[q]
      /\ \A q \in 1..Len(s2.transcript) :
            l \in s2.transcript[q].lanes => q \in 1..Len(s.transcript)
  <2>0. s.transcript \in Seq(RoundSet)
    BY DEF SharedSet
  <2>1. CASE s2.transcript = s.transcript
    BY <2>0, <2>1
  <2>2. CASE s2.transcript # s.transcript
    <3>1. PICK r \in RoundSet : l \notin r.lanes /\ s2.transcript = Append(s.transcript, r)
      BY <2>2 DEF OthersDraw
    <3> QED BY <2>0, <3>1
  <2> QED BY <2>1, <2>2
<1>1. ASSUME NEW j \in 1..Len(P[l]), HasAnswerIn(P, s2, t2, l, j)
      PROVE  Fits(P, s2, l, j, AnswerIn(s2, t2, l, j))
  <2>1. Fits(P, s, l, j, AnswerIn(s, t, l, j)) /\ AnswerIn(s2, t2, l, j) = AnswerIn(s, t, l, j)
    BY <1>0, <1>1 DEF Delivered, SameAnswers
  <2> QED BY <1>a, <2>1 DEF Fits
<1>2. ASSUME NEW i \in 1..Len(P[l]), NEW j \in 1..Len(P[l]),
             HasAnswerIn(P, s2, t2, l, i), HasAnswerIn(P, s2, t2, l, j), i < j
      PROVE  AnswerIn(s2, t2, l, i)[1] < AnswerIn(s2, t2, l, j)[1]
  BY <1>0, <1>2 DEF Delivered, SameAnswers
<1>3. ASSUME NEW q \in 1..Len(s2.transcript), l \in s2.transcript[q].lanes
      PROVE  \E j \in 1..Len(P[l]) :
                 HasAnswerIn(P, s2, t2, l, j) /\ AnswerIn(s2, t2, l, j)[1] = q
  <2>1. q \in 1..Len(s.transcript) /\ l \in s.transcript[q].lanes
    BY <1>a, <1>3
  <2>2. PICK j \in 1..Len(P[l]) : HasAnswerIn(P, s, t, l, j) /\ AnswerIn(s, t, l, j)[1] = q
    BY <2>1 DEF Delivered
  <2>3. HasAnswerIn(P, s2, t2, l, j) /\ AnswerIn(s2, t2, l, j)[1] = q
    BY <1>0, <2>2 DEF SameAnswers
  <2> QED BY <2>3
<1> QED BY <1>1, <1>2, <1>3 DEF Delivered

\* A draw that fits a lane's next request answers it.
LEMMA DeliveredDrawn ==
    ASSUME NEW P \in [Lanes -> Seq(Op)], NEW s \in SharedSet, NEW t, NEW s2, NEW t2,
           NEW l \in Lanes, NEW n \in 1..Len(P[l]), NEW r \in RoundSet,
           Delivered(P, s, t, l),
           NewAnswer(P, s, t, s2, t2, l, n, <<Len(s.transcript) + 1, P[l][n].width>>),
           s2.transcript = Append(s.transcript, r),
           l \in r.lanes,
           r.kind = P[l][n].kind,
           r.width >= P[l][n].width
    PROVE  Delivered(P, s2, t2, l)
<1>0. Len(P[l]) \in Nat
  OBVIOUS
<1> DEFINE a == <<Len(s.transcript) + 1, P[l][n].width>>
<1>a. /\ Len(s.transcript) \in Nat
      /\ Len(s2.transcript) = Len(s.transcript) + 1
      /\ \A q \in 1..Len(s.transcript) : s2.transcript[q] = s.transcript[q]
      /\ s2.transcript[Len(s.transcript) + 1] = r
  BY DEF SharedSet
<1>b. /\ AnswerIn(s2, t2, l, n) = a
      /\ HasAnswerIn(P, s2, t2, l, n)
      /\ \A j \in Nat : HasAnswerIn(P, s2, t2, l, j) /\ j # n =>
            /\ HasAnswerIn(P, s, t, l, j)
            /\ j < n
            /\ AnswerIn(s2, t2, l, j) = AnswerIn(s, t, l, j)
  BY <1>0 DEF NewAnswer
<1>c. a[1] = Len(s.transcript) + 1 /\ a[2] = P[l][n].width
  OBVIOUS
<1>1. ASSUME NEW j \in 1..Len(P[l]), HasAnswerIn(P, s2, t2, l, j)
      PROVE  Fits(P, s2, l, j, AnswerIn(s2, t2, l, j))
  <2>1. CASE j = n
    <3> HIDE DEF a
    <3> QED BY <2>1, <1>a, <1>b, <1>c DEF Fits
  <2>2. CASE j # n
    <3>1. Fits(P, s, l, j, AnswerIn(s, t, l, j)) /\ AnswerIn(s2, t2, l, j) = AnswerIn(s, t, l, j)
      BY <1>0, <1>1, <1>b, <2>2 DEF Delivered
    <3> QED BY <1>a, <3>1 DEF Fits
  <2> QED BY <2>1, <2>2
<1>2. ASSUME NEW i \in 1..Len(P[l]), NEW j \in 1..Len(P[l]),
             HasAnswerIn(P, s2, t2, l, i), HasAnswerIn(P, s2, t2, l, j), i < j
      PROVE  AnswerIn(s2, t2, l, i)[1] < AnswerIn(s2, t2, l, j)[1]
  <2>0. i # n
    <3>1. i \in Nat /\ j \in Nat /\ n \in Nat
      BY <1>0
    <3> QED BY <1>2, <1>b, <3>1
  <2>1. HasAnswerIn(P, s, t, l, i) /\ AnswerIn(s2, t2, l, i) = AnswerIn(s, t, l, i)
    BY <1>0, <1>2, <1>b, <2>0
  <2>2. CASE j = n
    <3>1. AnswerIn(s, t, l, i)[1] \in 1..Len(s.transcript)
      BY <2>1 DEF Delivered, Fits
    <3> HIDE DEF a
    <3> QED BY <2>1, <2>2, <3>1, <1>a, <1>b, <1>c
  <2>3. CASE j # n
    BY <1>0, <1>2, <1>b, <2>1, <2>3 DEF Delivered
  <2> QED BY <2>2, <2>3
<1>3. ASSUME NEW q \in 1..Len(s2.transcript), l \in s2.transcript[q].lanes
      PROVE  \E j \in 1..Len(P[l]) :
                 HasAnswerIn(P, s2, t2, l, j) /\ AnswerIn(s2, t2, l, j)[1] = q
  <2>1. CASE q = Len(s.transcript) + 1
    <3> HIDE DEF a
    <3> QED BY <2>1, <1>b, <1>c
  <2>2. CASE q # Len(s.transcript) + 1
    <3>1. q \in 1..Len(s.transcript) /\ l \in s.transcript[q].lanes
      BY <1>a, <1>3, <2>2
    <3>2. PICK j \in 1..Len(P[l]) : HasAnswerIn(P, s, t, l, j) /\ AnswerIn(s, t, l, j)[1] = q
      BY <3>1 DEF Delivered
    <3>3. HasAnswerIn(P, s2, t2, l, j) /\ AnswerIn(s2, t2, l, j)[1] = q
      BY <1>0, <3>2 DEF NewAnswer
    <3> QED BY <3>3
  <2> QED BY <2>1, <2>2
<1> QED BY <1>1, <1>2, <1>3 DEF Delivered

\* A move that is absorbed keeps its items where they stand.
LEMMA AbsorbedItems ==
    ASSUME NEW s \in SharedSet, NEW s2, NEW l, NEW r \in RoundSet,
           r.items = s.pending,
           s2.transcript = Append(s.transcript, r),
           s2.pending = <<>>
    PROVE  SameItems(s, s2, l)
<1>1. /\ s.transcript \in Seq(RoundSet) /\ s.pending \in Seq(Item)
      /\ Len(s2.transcript) = Len(s.transcript) + 1
      /\ s2.transcript[Len(s.transcript) + 1] = r
      /\ \A q \in 1..Len(s.transcript) : s2.transcript[q] = s.transcript[q]
  BY DEF SharedSet
<1>2. \A p \in 1..(Len(s.transcript) + 1) : ItemsIn(s2, p) = ItemsIn(s, p)
  BY <1>1 DEF ItemsIn
<1>3. \A p \in Nat : p = Len(s.transcript) + 2 => Len(ItemsIn(s2, p)) = 0
  BY <1>1 DEF ItemsIn
<1>4. ASSUME NEW p \in Nat, NEW k \in Nat, NEW i \in Nat
      PROVE  StandsIn(s2, p, k, l, i) <=> StandsIn(s, p, k, l, i)
  <2>1. CASE p \in 1..(Len(s.transcript) + 1)
    BY <1>1, <1>2, <2>1 DEF StandsIn
  <2>2. CASE p = Len(s.transcript) + 2
    BY <1>1, <1>3, <2>2 DEF StandsIn
  <2>3. CASE ~(p \in 1..(Len(s.transcript) + 2))
    BY <1>1, <2>3 DEF StandsIn
  <2> QED BY <1>1, <2>1, <2>2, <2>3
<1> QED BY <1>4 DEF SameItems

\* What a lane observes stands at the end of the pending move, and nothing else
\* moves.
LEMMA PendingItems ==
    ASSUME NEW s \in SharedSet, NEW s2, NEW l, NEW m \in Lanes, NEW n \in Nat,
           s2.transcript = s.transcript,
           s2.pending = Append(s.pending, <<m, n>>)
    PROVE  IF l = m THEN NewItem(s, s2, l, n) ELSE SameItems(s, s2, l)
<1> DEFINE N == Len(s.transcript) + 1
           K == Len(s.pending) + 1
<1>1. /\ s.transcript \in Seq(RoundSet) /\ s.pending \in Seq(Item)
      /\ <<m, n>> \in Item
  BY DEF SharedSet, Item
<1>2. \A p \in 1..Len(s.transcript) : ItemsIn(s2, p) = ItemsIn(s, p)
  BY DEF ItemsIn
<1>3. ItemsIn(s, N) = s.pending /\ ItemsIn(s2, N) = Append(s.pending, <<m, n>>)
  BY <1>1 DEF ItemsIn
<1>4. ASSUME NEW p \in Nat, NEW k \in Nat, NEW i \in Nat
      PROVE  StandsIn(s2, p, k, l, i) <=>
                \/ StandsIn(s, p, k, l, i)
                \/ p = N /\ k = K /\ l = m /\ i = n
  <2>1. CASE p \in 1..Len(s.transcript)
    BY <1>1, <1>2, <2>1 DEF StandsIn
  <2>2. CASE p = N
    <3>1. /\ Len(Append(s.pending, <<m, n>>)) = K
          /\ Append(s.pending, <<m, n>>)[K] = <<m, n>>
          /\ \A x \in 1..Len(s.pending) : Append(s.pending, <<m, n>>)[x] = s.pending[x]
      BY <1>1
    <3>2. K \in Nat /\ K = Len(s.pending) + 1 /\ Len(s.pending) \in Nat /\ N \in 1..N
      BY <1>1
    <3>3. StandsIn(s, p, k, l, i) <=> k \in 1..Len(s.pending) /\ s.pending[k] = <<l, i>>
      BY <2>2, <1>3, <3>2 DEF StandsIn
    <3>4. StandsIn(s2, p, k, l, i) <=>
             k \in 1..K /\ Append(s.pending, <<m, n>>)[k] = <<l, i>>
      BY <2>2, <1>3, <3>1, <3>2 DEF StandsIn
    <3>5. <<m, n>> = <<l, i>> <=> l = m /\ i = n
      OBVIOUS
    <3> QED BY <2>2, <3>1, <3>2, <3>3, <3>4, <3>5
  <2>3. CASE ~(p \in 1..N)
    BY <1>1, <2>3 DEF StandsIn
  <2> QED BY <1>1, <2>1, <2>2, <2>3
<1> QED BY <1>4 DEF NewItem, SameItems

-----------------------------------------------------------------------------
(* The parts of a step.                                                    *)

\* Nothing that lane l's observations and answers depend on changes.
Quiet(s, t, s2, t2, l) ==
    /\ t2[l].step = t[l].step
    /\ t2[l].got = t[l].got
    /\ s2.rootSeen[l] = s.rootSeen[l]
    /\ s2.response[l] = s.response[l]
    /\ AnsweredIn(s2, t2, l) <=> AnsweredIn(s, t, l)

\* A quiet lane has observed, and was answered, what it had.
LEMMA QuietLane ==
    ASSUME NEW P, NEW s, NEW t, NEW s2, NEW t2, NEW l, Quiet(s, t, s2, t2, l)
    PROVE  SameObserved(P, s, t, s2, t2, l) /\ SameAnswers(P, s, t, s2, t2, l)
<1>1. \A i \in Nat : ObservedIn(P, s2, t2, l, i) <=> ObservedIn(P, s, t, l, i)
  BY DEF Quiet, ObservedIn
<1>2. \A j \in Nat :
        /\ HasAnswerIn(P, s2, t2, l, j) <=> HasAnswerIn(P, s, t, l, j)
        /\ AnswerIn(s2, t2, l, j) = AnswerIn(s, t, l, j)
  BY DEF Quiet, HasAnswerIn, AnswerIn
<1> QED BY <1>1, <1>2 DEF SameObserved, SameAnswers

\* A quiet lane keeps its order and its answers while the transcript stays.
LEMMA QuietKept ==
    ASSUME NEW P \in [Lanes -> Seq(Op)], NEW s \in SharedSet, NEW t, NEW s2, NEW t2,
           NEW l \in Lanes,
           Quiet(s, t, s2, t2, l),
           s2.transcript = s.transcript, s2.pending = s.pending,
           Order(P, s, t, l), Delivered(P, s, t, l)
    PROVE  Order(P, s2, t2, l) /\ Delivered(P, s2, t2, l)
<1>1. SameObserved(P, s, t, s2, t2, l) /\ SameAnswers(P, s, t, s2, t2, l)
  BY QuietLane
<1>2. SameItems(s, s2, l)
  BY DEF SameItems, StandsIn, ItemsIn
<1>3. OthersDraw(s, s2, l)
  BY DEF OthersDraw
<1> QED BY <1>1, <1>2, <1>3, OrderKept, DeliveredKept

\* Lane l's part of the shared state stays.
Untouched(s, s2, l) ==
    /\ s2.rootSeen[l] = s.rootSeen[l]
    /\ s2.bound[l] = s.bound[l]
    /\ s2.completed[l] = s.completed[l]
    /\ s2.arrived[l] = s.arrived[l]
    /\ s2.request[l] = s.request[l]
    /\ s2.generation[l] = s.generation[l]
    /\ s2.response[l] = s.response[l]

\* A lane whose part of the state stays flows as it did.
LEMMA FlowKept ==
    ASSUME NEW P, NEW s, NEW t, NEW s2, NEW t2, NEW l,
           t2[l] = t[l], Untouched(s, s2, l)
    PROVE  /\ Flow(P, s, t, l) => Flow(P, s2, t2, l)
           /\ Quiet(s, t, s2, t2, l)
BY DEF Flow, AnsweredIn, Untouched, Quiet

\* Lane l asks for the challenge it is at, and is about to wait.
Asks(P, s, t, s2, t2, l) ==
    /\ t[l].pc = "run"
    /\ t[l].step <= Len(P[l])
    /\ IsRequest(P[l][t[l].step])
    /\ s2 = Arrive(s, l, P[l][t[l].step])
    /\ t2 = [t EXCEPT ![l] = [t[l] EXCEPT !.pc = "wait", !.generation = s.generation[l]]]

\* The first part of shared_challenge.
LEMMA Arrives ==
    ASSUME NEW P \in [Lanes -> Seq(Op)], NEW s \in SharedSet, NEW t \in [Lanes -> LaneSet],
           NEW l \in Lanes,
           Good(P, s, t),
           NEW s2, NEW t2, Asks(P, s, t, s2, t2, l)
    PROVE  s2 \in SharedSet /\ t2 \in [Lanes -> LaneSet] /\ Good(P, s2, t2)
<1> DEFINE r == P[l][t[l].step]
<1>0. t[l].step \in Nat /\ Flow(P, s, t, l)
  BY DEF Good, LaneSet
<1>1. r \in Op /\ r # NoRequest /\ t[l].step \in 1..Len(P[l])
  <2>1. t[l].step \in 1..Len(P[l])
    BY <1>0 DEF Flow, Asks
  <2>2. r \in Op
    BY <2>1
  <2>3. r.kind # "none" /\ NoRequest.kind = "none"
    BY DEF IsRequest, NoRequest, Asks
  <2> QED BY <2>1, <2>2, <2>3
<1>2. /\ s2.rootSeen = s.rootSeen /\ s2.bound = s.bound /\ s2.relationDone = s.relationDone
      /\ s2.pending = s.pending /\ s2.generation = s.generation
      /\ s2.completed = s.completed /\ s2.response = s.response
      /\ s2.transcript = s.transcript
      /\ s2.request = [s.request EXCEPT ![l] = r]
      /\ s2.arrived = [s.arrived EXCEPT ![l] = TRUE]
  BY DEF Arrive, SharedSet, Asks
<1>3. s2 \in SharedSet
  <2>1. [s.request EXCEPT ![l] = r] \in [Lanes -> Op \cup {NoRequest}]
    BY <1>1 DEF SharedSet
  <2>2. [s.arrived EXCEPT ![l] = TRUE] \in [Lanes -> BOOLEAN]
    BY Zenon DEF SharedSet
  <2> HIDE DEF r
  <2>3. s2 = [s EXCEPT !.request = [s.request EXCEPT ![l] = r],
                       !.arrived = [s.arrived EXCEPT ![l] = TRUE]]
    BY DEF Arrive, r, SharedSet, Asks
  <2> QED BY <2>1, <2>2, <2>3, Zenon DEF SharedSet
<1>4. /\ t2[l].pc = "wait" /\ t2[l].generation = s.generation[l]
      /\ t2[l].step = t[l].step /\ t2[l].got = t[l].got
      /\ \A m \in Lanes : m # l => t2[m] = t[m]
  BY DEF LaneSet, Asks
<1>5. t2 \in [Lanes -> LaneSet]
  <2>1. s.generation[l] \in Nat
    BY DEF SharedSet
  <2>2. [t[l] EXCEPT !.pc = "wait", !.generation = s.generation[l]] \in LaneSet
    BY <2>1 DEF LaneSet
  <2> QED BY <2>2 DEF Asks
<1>a. s2.arrived[l] = TRUE /\ s2.request[l] = r
  BY <1>2 DEF SharedSet
<1>b. \A m \in Lanes : m # l => s2.arrived[m] = s.arrived[m] /\ s2.request[m] = s.request[m]
  BY <1>2 DEF SharedSet
<1>c. ~AnsweredIn(s, t, l) /\ ~AnsweredIn(s2, t2, l)
  BY <1>a DEF AnsweredIn, Asks
<1>6. ASSUME NEW m \in Lanes
      PROVE  Flow(P, s2, t2, m) /\ Order(P, s2, t2, m) /\ Delivered(P, s2, t2, m)
  <2>0. Flow(P, s, t, m) /\ Order(P, s, t, m) /\ Delivered(P, s, t, m)
    BY DEF Good
  <2>1. CASE m = l
    <3>1. Flow(P, s2, t2, l)
      <4>1. s2.bound[l] /\ s2.completed[l] = s.completed[l]
        BY <1>0, <1>2 DEF Flow, Asks
      <4>2. ~(t2[l].pc \in {"done", "failed"} \/ t2[l].pc = "new")
        BY <1>4
      <4>3. ~s2.completed[l]
        BY <1>0, <4>1 DEF Flow, Asks
      <4>4. t2[l].step \in 1..(Len(P[l]) + 1) /\ Len(t2[l].got) = t2[l].step - 1
        BY <1>0, <1>4 DEF Flow
      <4>5. s2.generation[l] = t2[l].generation
        BY <1>2, <1>4
      <4> HIDE DEF r
      <4>6. s2.request[l] = P[l][t2[l].step]
        BY <1>a, <1>4 DEF r
      <4>7. t2[l].step <= Len(P[l]) /\ IsRequest(P[l][t2[l].step])
        BY <1>4 DEF Asks
      <4> QED BY <4>1, <4>2, <4>3, <4>4, <4>5, <4>6, <4>7, <1>a, <1>c, <1>4 DEF Flow
    <3>2. Quiet(s, t, s2, t2, l)
      BY <1>2, <1>4, <1>c DEF Quiet
    <3>3. Order(P, s2, t2, l) /\ Delivered(P, s2, t2, l)
      BY <2>0, <2>1, <3>2, <1>2, QuietKept
    <3> QED BY <2>1, <3>1, <3>3
  <2>2. CASE m # l
    <3>1. Untouched(s, s2, m)
      BY <2>2, <1>2, <1>b DEF Untouched
    <3>2. t2[m] = t[m]
      BY <2>2, <1>4
    <3>3. Flow(P, s2, t2, m) /\ Quiet(s, t, s2, t2, m)
      BY <2>0, <3>1, <3>2, FlowKept
    <3>4. Order(P, s2, t2, m) /\ Delivered(P, s2, t2, m)
      BY <2>0, <3>3, <1>2, QuietKept
    <3> QED BY <3>3, <3>4
  <2> QED BY <2>1, <2>2
<1> QED BY <1>3, <1>5, <1>6 DEF Good

\* A lane that goes on is a lane.
LEMMA GivenType ==
    ASSUME NEW x \in LaneSet, NEW a \in Nat \X Nat
    PROVE  Given(x, a) \in LaneSet
<1>1. x.step + 1 \in Nat
  BY DEF LaneSet
<1>2. Append(x.got, a) \in Seq(Nat \X Nat)
  BY DEF LaneSet
<1>3. Given(x, a) = [x EXCEPT !.pc = "run", !.step = x.step + 1, !.got = Append(x.got, a)]
  BY DEF Given
<1> QED BY <1>1, <1>2, <1>3 DEF LaneSet

\* Lane l takes the challenge it was answered with.
Takes(s, t, t2, l) ==
    /\ AnsweredIn(s, t, l)
    /\ t2 = [t EXCEPT ![l] = Given(t[l], s.response[l])]

\* A lane that takes its challenge has what it was answered with.
LEMMA Taken ==
    ASSUME NEW P \in [Lanes -> Seq(Op)], NEW s \in SharedSet, NEW t \in [Lanes -> LaneSet],
           NEW l \in Lanes,
           Good(P, s, t),
           NEW t2, Takes(s, t, t2, l)
    PROVE  t2 \in [Lanes -> LaneSet] /\ Good(P, s, t2)
<1>0. Flow(P, s, t, l) /\ t[l] \in LaneSet
  BY DEF Good
<1>1. /\ t[l].step \in Nat /\ t[l].got \in Seq(Nat \X Nat)
      /\ t[l].step \in 1..Len(P[l])
      /\ Len(t[l].got) = t[l].step - 1
      /\ t[l].pc = "wait"
      /\ IsRequest(P[l][t[l].step])
  BY <1>0 DEF Flow, Takes, AnsweredIn, LaneSet
<1>2. s.response[l] \in Nat \X Nat
  BY DEF SharedSet
<1>3. /\ t2[l].pc = "run" /\ t2[l].step = t[l].step + 1
      /\ t2[l].generation = t[l].generation
      /\ t2[l].got = Append(t[l].got, s.response[l])
      /\ \A m \in Lanes : m # l => t2[m] = t[m]
  BY DEF LaneSet, Takes, Given
<1>4. t2 \in [Lanes -> LaneSet]
  <2>1. Given(t[l], s.response[l]) \in LaneSet
    BY <1>0, <1>2, GivenType
  <2> QED BY <2>1 DEF Takes
<1>5. /\ Len(t2[l].got) = t[l].step
      /\ t2[l].got[t[l].step] = s.response[l]
      /\ \A j \in 1..(t[l].step - 1) : t2[l].got[j] = t[l].got[j]
  BY <1>1, <1>2, <1>3
<1>6. SameObserved(P, s, t, s, t2, l)
  <2>1. \A i \in Nat : ObservedIn(P, s, t2, l, i) <=> ObservedIn(P, s, t, l, i)
    BY <1>1, <1>3 DEF ObservedIn
  <2> QED BY <2>1 DEF SameObserved
<1>7. SameAnswers(P, s, t, s, t2, l)
  <2>0. AnsweredIn(s, t, l) /\ ~AnsweredIn(s, t2, l)
    BY <1>3 DEF Takes, AnsweredIn
  <2>1. \A j \in Nat : HasAnswerIn(P, s, t2, l, j) <=> HasAnswerIn(P, s, t, l, j)
    BY <1>1, <1>3, <2>0 DEF HasAnswerIn
  <2>2. \A j \in Nat : HasAnswerIn(P, s, t, l, j) => AnswerIn(s, t2, l, j) = AnswerIn(s, t, l, j)
    BY <1>1, <1>3, <1>5 DEF HasAnswerIn, AnswerIn
  <2> QED BY <2>1, <2>2 DEF SameAnswers
<1>8. ASSUME NEW m \in Lanes
      PROVE  Flow(P, s, t2, m) /\ Order(P, s, t2, m) /\ Delivered(P, s, t2, m)
  <2>0. Flow(P, s, t, m) /\ Order(P, s, t, m) /\ Delivered(P, s, t, m)
    BY DEF Good
  <2>1. CASE m = l
    <3>1. ~s.arrived[l]
      BY DEF Takes, AnsweredIn
    <3>2. Flow(P, s, t2, l)
      BY <1>0, <1>1, <1>3, <1>5, <3>1 DEF Flow, AnsweredIn
    <3>3. SameItems(s, s, l) /\ OthersDraw(s, s, l)
      BY DEF SameItems, OthersDraw
    <3>4. Order(P, s, t2, l) /\ Delivered(P, s, t2, l)
      BY <2>0, <2>1, <1>6, <1>7, <3>3, OrderKept, DeliveredKept
    <3> QED BY <2>1, <3>2, <3>4
  <2>2. CASE m # l
    <3>1. Untouched(s, s, m) /\ t2[m] = t[m]
      BY <2>2, <1>3 DEF Untouched
    <3>2. Flow(P, s, t2, m) /\ Quiet(s, t, s, t2, m)
      BY <2>0, <3>1, FlowKept
    <3>3. Order(P, s, t2, m) /\ Delivered(P, s, t2, m)
      BY <2>0, <3>2, QuietKept
    <3> QED BY <3>2, <3>3
  <2> QED BY <2>1, <2>2
<1> QED BY <1>4, <1>8 DEF Good

\* Lane l observes the value it is at.
Observes(P, s, t, s2, t2, l) ==
    /\ t[l].pc = "run"
    /\ t[l].step <= Len(P[l])
    /\ ~IsRequest(P[l][t[l].step])
    /\ s2 = [s EXCEPT !.pending = Append(s.pending, <<l, t[l].step>>)]
    /\ t2 = [t EXCEPT ![l] = Given(t[l], Nothing)]

\* An observation stands at the end of the pending move.
LEMMA ObservesGood ==
    ASSUME NEW P \in [Lanes -> Seq(Op)], NEW s \in SharedSet, NEW t \in [Lanes -> LaneSet],
           NEW l \in Lanes,
           Good(P, s, t),
           NEW s2, NEW t2, Observes(P, s, t, s2, t2, l)
    PROVE  s2 \in SharedSet /\ t2 \in [Lanes -> LaneSet] /\ Good(P, s2, t2)
<1> DEFINE n == t[l].step
<1>0. /\ Flow(P, s, t, l) /\ Order(P, s, t, l) /\ Delivered(P, s, t, l)
      /\ t[l] \in LaneSet
  BY DEF Good
<1>1. /\ n \in Nat /\ t[l].got \in Seq(Nat \X Nat)
      /\ n \in 1..Len(P[l])
      /\ Len(t[l].got) = n - 1
      /\ t[l].pc = "run"
      /\ ~IsRequest(P[l][n])
  BY <1>0 DEF Flow, Observes, LaneSet
<1>2. /\ s2.pending = Append(s.pending, <<l, n>>)
      /\ s2.transcript = s.transcript
      /\ \A m \in Lanes : Untouched(s, s2, m)
      /\ s2 \in SharedSet
  <2>1. Append(s.pending, <<l, n>>) \in Seq(Item)
    BY <1>1 DEF SharedSet, Item
  <2>2. s2 = [s EXCEPT !.pending = Append(s.pending, <<l, n>>)]
    BY DEF Observes
  <2> HIDE DEF n
  <2> QED BY <2>1, <2>2 DEF SharedSet, Untouched
<1>3. /\ t2[l].pc = "run" /\ t2[l].step = n + 1
      /\ t2[l].generation = t[l].generation
      /\ t2[l].got = Append(t[l].got, Nothing)
      /\ \A m \in Lanes : m # l => t2[m] = t[m]
  BY DEF LaneSet, Observes, Given
<1>a. Nothing \in Nat \X Nat
  BY DEF Nothing
<1>4. t2 \in [Lanes -> LaneSet]
  <2>1. Given(t[l], Nothing) \in LaneSet
    BY <1>0, <1>a, GivenType
  <2> QED BY <2>1 DEF Observes
<1>5. /\ Len(t2[l].got) = n
      /\ \A j \in 1..(n - 1) : t2[l].got[j] = t[l].got[j]
  BY <1>1, <1>3, <1>a
<1>b. ~AnsweredIn(s, t, l) /\ ~AnsweredIn(s2, t2, l)
  BY <1>1, <1>3 DEF AnsweredIn
<1>6. NewObserved(P, s, t, s2, t2, l, n)
  <2>0. s2.rootSeen[l] = s.rootSeen[l]
    BY <1>2 DEF Untouched
  <2>1. \A i \in Nat : ObservedIn(P, s2, t2, l, i) <=> ObservedIn(P, s, t, l, i) \/ i = n
    BY <1>1, <1>3, <2>0 DEF ObservedIn
  <2> QED BY <2>1 DEF NewObserved
<1>7. SameAnswers(P, s, t, s2, t2, l)
  <2>1. \A j \in Nat : HasAnswerIn(P, s2, t2, l, j) <=> HasAnswerIn(P, s, t, l, j)
    BY <1>1, <1>3, <1>b DEF HasAnswerIn
  <2>2. \A j \in Nat : HasAnswerIn(P, s, t, l, j) => AnswerIn(s2, t2, l, j) = AnswerIn(s, t, l, j)
    BY <1>1, <1>3, <1>5, <1>b DEF HasAnswerIn, AnswerIn
  <2> QED BY <2>1, <2>2 DEF SameAnswers
<1>8. \A i \in Nat : ObservedIn(P, s, t, l, i) => i < n
  BY <1>1 DEF ObservedIn, Root
<1>9. ASSUME NEW j \in Nat, HasAnswerIn(P, s, t, l, j)
      PROVE  j < n /\ AnswerIn(s, t, l, j)[1] \in 0..Len(s.transcript)
  <2>1. j < n /\ j \in 1..Len(P[l])
    BY <1>1, <1>9, <1>b DEF HasAnswerIn
  <2>2. Fits(P, s, l, j, AnswerIn(s, t, l, j))
    BY <1>0, <1>9, <2>1 DEF Delivered
  <2> QED BY <2>1, <2>2 DEF Fits
<1> HIDE DEF n
<1>10. ASSUME NEW m \in Lanes
       PROVE  Flow(P, s2, t2, m) /\ Order(P, s2, t2, m) /\ Delivered(P, s2, t2, m)
  <2>0. Flow(P, s, t, m) /\ Order(P, s, t, m) /\ Delivered(P, s, t, m)
    BY DEF Good
  <2>1. CASE m = l
    <3>1. Flow(P, s2, t2, l)
      <4>1. ~s.arrived[l] /\ Untouched(s, s2, l)
        BY <1>0, <1>1, <1>2 DEF Flow
      <4> QED BY <1>0, <1>1, <1>3, <1>5, <1>b, <4>1 DEF Flow, Untouched, n
    <3>2. NewItem(s, s2, l, n)
      BY <1>1, <1>2, PendingItems
    <3>3. Order(P, s2, t2, l)
      BY <1>0, <1>1, <1>6, <1>7, <1>8, <1>9, <3>2, OrderObserved
    <3>4. OthersDraw(s, s2, l)
      BY <1>2 DEF OthersDraw
    <3>5. Delivered(P, s2, t2, l)
      BY <1>0, <1>7, <3>4, DeliveredKept
    <3> QED BY <2>1, <3>1, <3>3, <3>5
  <2>2. CASE m # l
    <3>1. Untouched(s, s2, m) /\ t2[m] = t[m]
      BY <2>2, <1>2, <1>3
    <3>2. Flow(P, s2, t2, m) /\ Quiet(s, t, s2, t2, m)
      BY <2>0, <3>1, FlowKept
    <3>3. SameObserved(P, s, t, s2, t2, m) /\ SameAnswers(P, s, t, s2, t2, m)
      BY <3>2, QuietLane
    <3>4. SameItems(s, s2, m)
      BY <2>2, <1>1, <1>2, PendingItems
    <3>5. OthersDraw(s, s2, m)
      BY <1>2 DEF OthersDraw
    <3>6. Order(P, s2, t2, m)
      BY <2>0, <3>3, <3>4, OrderKept
    <3>7. Delivered(P, s2, t2, m)
      BY <2>0, <3>3, <3>5, DeliveredKept
    <3> QED BY <3>2, <3>6, <3>7
  <2> QED BY <2>1, <2>2
<1> QED BY <1>2, <1>4, <1>10 DEF Good

\* One draw of width w, of the kind lane m asks for, answers the waiting lanes
\* ls, who all ask for it.
Releases(s, s2, m, w, ls) ==
    /\ ls \subseteq Lanes /\ m \in ls /\ w \in Nat
    /\ \A l \in ls :
          /\ s.arrived[l]
          /\ s.request[l].kind = s.request[m].kind
          /\ w >= s.request[l].width
    /\ s2 = ReleaseLanes(s, m, w, ls)

\* What a release changes.
LEMMA ReleasedFields ==
    ASSUME NEW s \in SharedSet, NEW m \in Lanes, NEW w \in Nat, NEW ls \in SUBSET Lanes,
           NEW s2, s2 = ReleaseLanes(s, m, w, ls)
    PROVE  /\ s2 \in SharedSet
           /\ Round(s.pending, s.request[m].kind, w, ls) \in RoundSet
           /\ s2.transcript = Append(s.transcript, Round(s.pending, s.request[m].kind, w, ls))
           /\ s2.pending = <<>>
           /\ s2.relationDone = s.relationDone
           /\ s2.completed = s.completed /\ s2.rootSeen = s.rootSeen /\ s2.bound = s.bound
           /\ \A l \in Lanes \ ls : Untouched(s, s2, l)
           /\ \A l \in ls :
                 /\ s2.rootSeen[l] = s.rootSeen[l]
                 /\ s2.bound[l] = s.bound[l]
                 /\ s2.completed[l] = s.completed[l]
                 /\ ~s2.arrived[l]
                 /\ s2.request[l] = NoRequest
                 /\ s2.generation[l] = s.generation[l] + 1
                 /\ s2.response[l] = <<Len(s.transcript) + 1, s.request[l].width>>
<1> DEFINE r == Round(s.pending, s.request[m].kind, w, ls)
           response == [l \in Lanes |->
               IF l \in ls THEN <<Len(s.transcript) + 1, s.request[l].width>> ELSE s.response[l]]
           arrived == [l \in Lanes |-> s.arrived[l] /\ l \notin ls]
           request == [l \in Lanes |-> IF l \in ls THEN NoRequest ELSE s.request[l]]
           generation == [l \in Lanes |-> IF l \in ls THEN s.generation[l] + 1 ELSE s.generation[l]]
<1>1. r \in RoundSet
  <2>1. s.request[m].kind \in Kinds
    <3>1. s.request[m] \in Op \/ s.request[m] = NoRequest
      BY DEF SharedSet
    <3>2. \A x \in Op : x.kind \in {"observe", "field", "bits"}
      BY DEF Op
    <3>3. NoRequest.kind = "none"
      BY DEF NoRequest
    <3> QED BY <3>1, <3>2, <3>3 DEF Kinds
  <2>2. s.pending \in Seq(Item)
    BY DEF SharedSet
  <2> QED BY <2>1, <2>2 DEF Round, RoundSet
<1>2. s2 = [s EXCEPT !.transcript = Append(s.transcript, r), !.pending = <<>>,
                     !.response = response, !.arrived = arrived,
                     !.request = request, !.generation = generation]
  BY DEF ReleaseLanes, Absorb, SharedSet
<1>3. response \in [Lanes -> Nat \X Nat]
  <2>1. \A l \in Lanes : s.request[l].width \in Nat /\ s.response[l] \in Nat \X Nat
    BY DEF SharedSet, Op, NoRequest
  <2>2. Len(s.transcript) + 1 \in Nat
    BY DEF SharedSet
  <2> QED BY <2>1, <2>2
<1>4. arrived \in [Lanes -> BOOLEAN]
  OBVIOUS
<1>5. request \in [Lanes -> Op \cup {NoRequest}]
  BY DEF SharedSet
<1>6. generation \in [Lanes -> Nat]
  BY DEF SharedSet
<1>7. Append(s.transcript, r) \in Seq(RoundSet)
  <2> HIDE DEF r
  <2> QED BY <1>1 DEF SharedSet
<1>8. <<>> \in Seq(Item)
  OBVIOUS
<1>9. /\ \A l \in ls : response[l] = <<Len(s.transcript) + 1, s.request[l].width>>
      /\ \A l \in Lanes \ ls : response[l] = s.response[l]
      /\ \A l \in ls : ~arrived[l]
      /\ \A l \in ls : request[l] = NoRequest
      /\ \A l \in Lanes \ ls : request[l] = s.request[l]
      /\ \A l \in ls : generation[l] = s.generation[l] + 1
      /\ \A l \in Lanes \ ls : generation[l] = s.generation[l]
  OBVIOUS
<1>10. \A l \in Lanes \ ls : arrived[l] = s.arrived[l]
  <2>1. s.arrived \in [Lanes -> BOOLEAN]
    BY DEF SharedSet
  <2> QED BY <2>1, Zenon
<1> HIDE DEF r, response, arrived, request, generation
<1>11. /\ s2.transcript = Append(s.transcript, r) /\ s2.pending = <<>>
       /\ s2.response = response /\ s2.arrived = arrived
       /\ s2.request = request /\ s2.generation = generation
       /\ s2.rootSeen = s.rootSeen /\ s2.bound = s.bound /\ s2.completed = s.completed
       /\ s2.relationDone = s.relationDone
  BY <1>2 DEF SharedSet
<1>12. s2 \in SharedSet
  BY <1>2, <1>3, <1>4, <1>5, <1>6, <1>7, <1>8 DEF SharedSet
<1>13. \A l \in Lanes \ ls : Untouched(s, s2, l)
  BY <1>9, <1>10, <1>11 DEF Untouched
<1>14. r = Round(s.pending, s.request[m].kind, w, ls)
  BY DEF r
<1> QED BY <1>1, <1>9, <1>11, <1>12, <1>13, <1>14

\* A release answers the waiting lanes of ls, and moves no item.
LEMMA ReleasesGood ==
    ASSUME NEW P \in [Lanes -> Seq(Op)], NEW s \in SharedSet, NEW t \in [Lanes -> LaneSet],
           Good(P, s, t),
           NEW s2, NEW m, NEW w, NEW ls, Releases(s, s2, m, w, ls)
    PROVE  s2 \in SharedSet /\ Good(P, s2, t)
<1>0. m \in Lanes /\ w \in Nat /\ ls \in SUBSET Lanes
  BY DEF Releases
<1>1. PICK r : r = Round(s.pending, s.request[m].kind, w, ls)
  OBVIOUS
<1>2. /\ s2 \in SharedSet /\ r \in RoundSet
      /\ s2.transcript = Append(s.transcript, r) /\ s2.pending = <<>>
      /\ \A l \in Lanes \ ls : Untouched(s, s2, l)
      /\ \A l \in ls :
            /\ s2.rootSeen[l] = s.rootSeen[l]
            /\ s2.bound[l] = s.bound[l]
            /\ s2.completed[l] = s.completed[l]
            /\ ~s2.arrived[l]
            /\ s2.request[l] = NoRequest
            /\ s2.generation[l] = s.generation[l] + 1
            /\ s2.response[l] = <<Len(s.transcript) + 1, s.request[l].width>>
  <2>1. s2 = ReleaseLanes(s, m, w, ls)
    BY DEF Releases
  <2> QED BY <1>0, <1>1, <2>1, ReleasedFields
<1>3. r.items = s.pending /\ r.kind = s.request[m].kind /\ r.width = w /\ r.lanes = ls
  BY <1>1 DEF Round
<1>4. ASSUME NEW l \in Lanes
      PROVE  Flow(P, s2, t, l) /\ Order(P, s2, t, l) /\ Delivered(P, s2, t, l)
  <2>0. Flow(P, s, t, l) /\ Order(P, s, t, l) /\ Delivered(P, s, t, l) /\ t[l] \in LaneSet
    BY DEF Good
  <2>1. SameItems(s, s2, l)
    BY <1>2, <1>3, AbsorbedItems
  <2>2. CASE l \notin ls
    <3>1. Untouched(s, s2, l)
      BY <1>2, <2>2
    <3>2. Flow(P, s2, t, l) /\ Quiet(s, t, s2, t, l)
      BY <2>0, <3>1, FlowKept
    <3>3. SameObserved(P, s, t, s2, t, l) /\ SameAnswers(P, s, t, s2, t, l)
      BY <3>2, QuietLane
    <3>4. OthersDraw(s, s2, l)
      BY <1>2, <1>3, <2>2 DEF OthersDraw
    <3>5. Order(P, s2, t, l)
      BY <2>0, <2>1, <3>3, OrderKept
    <3>6. Delivered(P, s2, t, l)
      BY <2>0, <3>3, <3>4, DeliveredKept
    <3> QED BY <3>2, <3>5, <3>6
  <2>3. CASE l \in ls
    <3> DEFINE n == t[l].step
    <3>1. s.arrived[l] /\ s.request[l].kind = s.request[m].kind /\ w >= s.request[l].width
      BY <2>3 DEF Releases
    <3>2. /\ n \in 1..Len(P[l]) /\ n \in Nat /\ IsRequest(P[l][n])
          /\ t[l].pc = "wait"
          /\ s.request[l] = P[l][n]
          /\ s.generation[l] = t[l].generation
      BY <2>0, <3>1 DEF Flow, LaneSet
    <3>3. ~AnsweredIn(s, t, l) /\ AnsweredIn(s2, t, l)
      BY <1>2, <2>3, <3>1, <3>2 DEF AnsweredIn
    <3>4. s.generation[l] \in Nat
      BY DEF SharedSet
    <3>5. Flow(P, s2, t, l)
      <4>1. /\ s2.bound[l] = s.bound[l] /\ s2.completed[l] = s.completed[l]
            /\ ~s2.arrived[l] /\ s2.request[l] = NoRequest
            /\ s2.generation[l] # t[l].generation
        BY <1>2, <2>3, <3>2, <3>4
      <4> QED BY <2>0, <3>2, <4>1 DEF Flow
    <3>6. SameObserved(P, s, t, s2, t, l)
      BY <1>2, <2>3 DEF SameObserved, ObservedIn
    <3> DEFINE a == <<Len(s.transcript) + 1, P[l][n].width>>
    <3>7. NewAnswer(P, s, t, s2, t, l, n, a)
      <4>1. AnswerIn(s2, t, l, n) = a
        BY <1>2, <2>3, <3>2 DEF AnswerIn
      <4>2. \A j \in Nat : HasAnswerIn(P, s, t, l, j) => j < n
        BY <3>2, <3>3 DEF HasAnswerIn
      <4>3. \A j \in Nat : HasAnswerIn(P, s2, t, l, j) <=> HasAnswerIn(P, s, t, l, j) \/ j = n
        BY <3>2, <3>3 DEF HasAnswerIn
      <4>4. \A j \in Nat : j < n => AnswerIn(s2, t, l, j) = AnswerIn(s, t, l, j)
        BY DEF AnswerIn
      <4> HIDE DEF a, n
      <4> QED BY <4>1, <4>2, <4>3, <4>4 DEF NewAnswer
    <3>8. \A i \in Nat : ObservedIn(P, s, t, l, i) => i < n
      BY <3>2 DEF ObservedIn, Root
    <3>9. a[1] = Len(s.transcript) + 1
      OBVIOUS
    <3>10. l \in r.lanes /\ r.kind = P[l][n].kind /\ r.width >= P[l][n].width
      BY <1>3, <2>3, <3>1, <3>2
    <3> HIDE DEF n
    <3>11. Delivered(P, s2, t, l)
      BY <1>2, <2>0, <3>2, <3>7, <3>10, DeliveredDrawn
    <3> HIDE DEF a
    <3>12. Order(P, s2, t, l)
      BY <2>0, <2>1, <3>2, <3>6, <3>7, <3>8, <3>9, OrderDrawn
    <3> QED BY <3>5, <3>11, <3>12
  <2> QED BY <2>2, <2>3
<1> QED BY <1>2, <1>4 DEF Good

\* The one draw a release makes: for the only lane that asks, for both if they
\* ask for the same kind, or for the longer one.
ReleaseCase(s, s2) ==
    \/ \E l \in Lanes : /\ s.arrived[l] /\ ~s.arrived[Other(l)]
                        /\ Releases(s, s2, l, s.request[l].width, {l})
    \/ /\ s.arrived[1] /\ s.arrived[2] /\ s.request[1].kind = s.request[2].kind
       /\ Releases(s, s2, 1, Wider(s.request[1], s.request[2]), Lanes)
    \/ /\ s.arrived[1] /\ s.arrived[2] /\ s.request[1].kind # s.request[2].kind
       /\ Releases(s, s2, Longer, s.request[Longer].width, {Longer})

\* A lane asks exactly while it has arrived.
Asking(s) ==
    /\ \A l \in Lanes : s.arrived[l] => s.request[l] \in Op /\ s.request[l] # NoRequest
    /\ \A l \in Lanes : ~s.arrived[l] => s.request[l] = NoRequest

\* The lanes by name.
LEMMA TwoLanes == Lanes = {1, 2} /\ Other(1) = 2 /\ Other(2) = 1
BY DEF Lanes, Other

\* release_ready_challenges makes one draw, of one of three forms.
LEMMA ReadyCases ==
    ASSUME NEW s \in SharedSet, Asking(s), \E l \in Lanes : s.arrived[l],
           NEW s2, s2 = ReleaseReadyChallenges(s)
    PROVE  ReleaseCase(s, s2)
<1>0. 1 \in Lanes /\ 2 \in Lanes /\ Other(1) = 2 /\ Other(2) = 1 /\ Lanes = {1, 2}
  BY TwoLanes
<1>1. \A l \in Lanes : s.arrived[l] => s.request[l] \in Op /\ s.request[l].width \in Nat
  BY DEF Asking, Op
<1>2. ASSUME NEW l \in Lanes, s.arrived[l], s2 = ReleaseOneChallenge(s, l)
      PROVE  Releases(s, s2, l, s.request[l].width, {l})
  BY <1>1, <1>2 DEF Releases, ReleaseOneChallenge
<1>3. CASE s.request[2] = NoRequest
  <2>1. ~s.arrived[2] /\ s.arrived[1]
    BY <1>0, <1>3 DEF Asking
  <2>2. s2 = ReleaseOneChallenge(s, 1)
    BY <1>3 DEF ReleaseReadyChallenges
  <2>3. Releases(s, s2, 1, s.request[1].width, {1})
    BY <1>0, <1>2, <2>1, <2>2
  <2> QED BY <1>0, <2>1, <2>3 DEF ReleaseCase
<1>4. CASE s.request[2] # NoRequest /\ s.request[1] = NoRequest
  <2>1. ~s.arrived[1] /\ s.arrived[2]
    BY <1>0, <1>4 DEF Asking
  <2>2. s2 = ReleaseOneChallenge(s, 2)
    BY <1>4 DEF ReleaseReadyChallenges
  <2>3. Releases(s, s2, 2, s.request[2].width, {2})
    BY <1>0, <1>2, <2>1, <2>2
  <2> QED BY <1>0, <2>1, <2>3 DEF ReleaseCase
<1>5. CASE s.request[2] # NoRequest /\ s.request[1] # NoRequest
  <2>1. s.arrived[1] /\ s.arrived[2]
    BY <1>0, <1>5 DEF Asking
  <2>2. CASE s.request[1].kind = s.request[2].kind
    <3>1. s2 = ReleaseLanes(s, 1, Wider(s.request[1], s.request[2]), Lanes)
      BY <1>5, <2>2 DEF ReleaseReadyChallenges
    <3>2. /\ Wider(s.request[1], s.request[2]) \in Nat
          /\ Wider(s.request[1], s.request[2]) >= s.request[1].width
          /\ Wider(s.request[1], s.request[2]) >= s.request[2].width
      BY <1>0, <1>1, <2>1 DEF Wider
    <3>3. Releases(s, s2, 1, Wider(s.request[1], s.request[2]), Lanes)
      BY <1>0, <2>1, <2>2, <3>1, <3>2 DEF Releases
    <3> QED BY <2>1, <2>2, <3>3 DEF ReleaseCase
  <2>3. CASE s.request[1].kind # s.request[2].kind
    <3>1. s2 = ReleaseOneChallenge(s, Longer)
      BY <1>5, <2>3 DEF ReleaseReadyChallenges
    <3>2. s.arrived[Longer]
      BY <1>0, <2>1, LongerAssumption
    <3>3. Releases(s, s2, Longer, s.request[Longer].width, {Longer})
      BY <1>2, <3>1, <3>2, LongerAssumption
    <3> QED BY <2>1, <2>3, <3>3 DEF ReleaseCase
  <2> QED BY <2>2, <2>3
<1> QED BY <1>3, <1>4, <1>5

\* Lanes that flow ask exactly while they have arrived.
LEMMA GoodAsking ==
    ASSUME NEW P \in [Lanes -> Seq(Op)], NEW s \in SharedSet, NEW t \in [Lanes -> LaneSet],
           Good(P, s, t)
    PROVE  Asking(s)
<1>1. ASSUME NEW l \in Lanes, s.arrived[l]
      PROVE  s.request[l] \in Op /\ s.request[l] # NoRequest
  <2>1. /\ t[l].step \in 1..(Len(P[l]) + 1) /\ t[l].step <= Len(P[l])
        /\ IsRequest(P[l][t[l].step])
        /\ s.request[l] = P[l][t[l].step]
    BY <1>1 DEF Good, Flow
  <2>2. P[l][t[l].step] \in Op
    BY <2>1
  <2>3. s.request[l].kind # "none" /\ NoRequest.kind = "none"
    BY <2>1 DEF IsRequest, NoRequest
  <2> QED BY <2>1, <2>2, <2>3
<1>2. \A l \in Lanes : ~s.arrived[l] => s.request[l] = NoRequest
  BY DEF Good, Flow
<1> QED BY <1>1, <1>2 DEF Asking

\* After a release no lane waits with a request that could be answered.
LEMMA ReadyGood ==
    ASSUME NEW P \in [Lanes -> Seq(Op)], NEW s \in SharedSet, NEW t \in [Lanes -> LaneSet],
           Good(P, s, t), \E l \in Lanes : s.arrived[l],
           NEW s2, s2 = ReleaseReadyChallenges(s)
    PROVE  s2 \in SharedSet /\ Good(P, s2, t) /\ Alone(s2) /\ ReleaseCase(s, s2)
<1>1. Asking(s)
  BY GoodAsking
<1>2. ReleaseCase(s, s2)
  BY <1>1, ReadyCases
<1>3. PICK m, w, ls : Releases(s, s2, m, w, ls)
  BY <1>2 DEF ReleaseCase
<1>4. s2 \in SharedSet /\ Good(P, s2, t)
  BY <1>3, ReleasesGood
<1>a. ASSUME NEW x, NEW v, NEW l \in Lanes, Releases(s, s2, x, v, {l})
      PROVE  ~s2.arrived[l] /\ (s2.arrived[Other(l)] <=> s.arrived[Other(l)])
             /\ s2.completed = s.completed
  <2>1. s2 = ReleaseLanes(s, x, v, {l}) /\ x \in Lanes /\ v \in Nat /\ {l} \in SUBSET Lanes
    BY <1>a DEF Releases
  <2>2. Other(l) \in Lanes \ {l}
    BY TwoLanes
  <2>3. /\ \A k \in Lanes \ {l} : Untouched(s, s2, k)
        /\ \A k \in {l} : ~s2.arrived[k]
        /\ s2.completed = s.completed
    BY <2>1, ReleasedFields
  <2> QED BY <2>2, <2>3 DEF Untouched
<1>5. Alone(s2)
  <2>1. ASSUME NEW l \in Lanes, s.arrived[l], ~s.arrived[Other(l)],
               Releases(s, s2, l, s.request[l].width, {l})
        PROVE  Alone(s2)
    <3>1. ~s2.arrived[l] /\ ~s2.arrived[Other(l)]
      BY <1>a, <2>1
    <3> QED BY <3>1, TwoLanes DEF Alone
  <2>2. ASSUME Releases(s, s2, 1, Wider(s.request[1], s.request[2]), Lanes)
        PROVE  Alone(s2)
    <3> DEFINE v == Wider(s.request[1], s.request[2])
    <3>1. s2 = ReleaseLanes(s, 1, v, Lanes) /\ 1 \in Lanes /\ v \in Nat /\ Lanes \in SUBSET Lanes
      BY <2>2 DEF Releases
    <3> HIDE DEF v
    <3>2. \A l \in Lanes : ~s2.arrived[l]
      BY <3>1, ReleasedFields
    <3> QED BY <3>2 DEF Alone
  <2>3. ASSUME s.arrived[1], s.arrived[2],
               Releases(s, s2, Longer, s.request[Longer].width, {Longer})
        PROVE  Alone(s2)
    <3>1. ~s2.arrived[Longer] /\ s2.completed = s.completed
      BY <1>a, <2>3, LongerAssumption
    <3>2. ~s.completed[Longer]
      <4>1. Flow(P, s, t, Longer) /\ s.arrived[Longer]
        BY <2>3, LongerAssumption, TwoLanes DEF Good
      <4> QED BY <4>1 DEF Flow
    <3>3. \A l \in Lanes : l # Longer => Other(l) = Longer
      BY LongerAssumption, TwoLanes
    <3> QED BY <3>1, <3>2, <3>3 DEF Alone
  <2> QED BY <1>2, <2>1, <2>2, <2>3 DEF ReleaseCase
<1> QED BY <1>2, <1>4, <1>5

\* Every lane is quiet and flows, and no item is added: the invariant holds on.
LEMMA StillGood ==
    ASSUME NEW P \in [Lanes -> Seq(Op)], NEW s \in SharedSet, NEW t, NEW s2, NEW t2,
           Good(P, s, t),
           s2.transcript = s.transcript, s2.pending = s.pending,
           \A l \in Lanes : Quiet(s, t, s2, t2, l) /\ Flow(P, s2, t2, l)
    PROVE  Good(P, s2, t2)
BY QuietKept DEF Good

\* The coordinator's absorptions answer no lane.
LEMMA AbsorbsGood ==
    ASSUME NEW P \in [Lanes -> Seq(Op)], NEW s \in SharedSet, NEW t,
           Good(P, s, t), NEW kind \in Kinds,
           NEW s2, s2.transcript = Append(s.transcript, Round(s.pending, kind, 0, {})),
           s2.pending = <<>>,
           \A l \in Lanes : Untouched(s, s2, l)
    PROVE  Good(P, s2, t)
<1>1. PICK r : r = Round(s.pending, kind, 0, {})
  OBVIOUS
<1>2. /\ r \in RoundSet /\ r.items = s.pending /\ r.lanes = {}
      /\ s2.transcript = Append(s.transcript, r)
  <2>1. s.pending \in Seq(Item)
    BY DEF SharedSet
  <2> QED BY <1>1, <2>1 DEF Round, RoundSet
<1>3. ASSUME NEW l \in Lanes
      PROVE  Flow(P, s2, t, l) /\ Order(P, s2, t, l) /\ Delivered(P, s2, t, l)
  <2>0. Flow(P, s, t, l) /\ Order(P, s, t, l) /\ Delivered(P, s, t, l)
    BY DEF Good
  <2>1. Flow(P, s2, t, l) /\ Quiet(s, t, s2, t, l)
    BY <2>0, FlowKept
  <2>2. SameObserved(P, s, t, s2, t, l) /\ SameAnswers(P, s, t, s2, t, l)
    BY <2>1, QuietLane
  <2>3. SameItems(s, s2, l)
    BY <1>2, AbsorbedItems
  <2>4. OthersDraw(s, s2, l)
    BY <1>2 DEF OthersDraw
  <2>5. Order(P, s2, t, l)
    BY <2>0, <2>2, <2>3, OrderKept
  <2>6. Delivered(P, s2, t, l)
    BY <2>0, <2>2, <2>4, DeliveredKept
  <2> QED BY <2>1, <2>5, <2>6
<1> QED BY <1>3 DEF Good

-----------------------------------------------------------------------------
(* The steps.                                                              *)

\* At the start nothing was observed, asked or drawn.
LEMMA Initially == Init => SInv
<1> SUFFICES ASSUME Init PROVE SInv
  OBVIOUS
<1>1. shared \in SharedSet
  <2>1. <<>> \in Seq(Item) /\ <<>> \in Seq(RoundSet)
    OBVIOUS
  <2>2. Nothing \in Nat \X Nat
    BY DEF Nothing
  <2> QED BY <2>1, <2>2 DEF Init, NewShared, SharedSet
<1>2. lane \in [Lanes -> LaneSet]
  <2>1. <<>> \in Seq(Nat \X Nat)
    OBVIOUS
  <2>2. [pc |-> "new", step |-> 1, generation |-> 0, got |-> <<>>] \in LaneSet
    BY <2>1 DEF LaneSet
  <2> QED BY <2>2 DEF Init
<1>3. program \in [Lanes -> Seq(Op)]
  BY ProgramsAssumption DEF Init
<1>4. Types
  BY <1>1, <1>2, <1>3 DEF Types, Init, Mains
<1>5. ASSUME NEW l \in Lanes
      PROVE  /\ lane[l].pc = "new" /\ lane[l].step = 1 /\ lane[l].got = <<>>
             /\ ~shared.rootSeen[l] /\ ~shared.arrived[l] /\ ~shared.completed[l]
             /\ shared.request[l] = NoRequest
             /\ shared.transcript = <<>> /\ shared.pending = <<>>
  BY DEF Init, NewShared
<1>6. ASSUME NEW l \in Lanes
      PROVE  /\ Flow(program, shared, lane, l)
             /\ Order(program, shared, lane, l)
             /\ Delivered(program, shared, lane, l)
  <2>0. Len(program[l]) \in Nat
    BY <1>3
  <2>1. Flow(program, shared, lane, l)
    BY <1>5, <2>0 DEF Flow, AnsweredIn
  <2>2. \A i \in Nat : ~ObservedIn(program, shared, lane, l, i)
    BY <1>5 DEF ObservedIn
  <2>3. \A p, k, i \in Nat : ~StandsIn(shared, p, k, l, i)
    BY <1>5 DEF StandsIn, ItemsIn
  <2>4. \A j \in Nat : ~HasAnswerIn(program, shared, lane, l, j)
    BY <1>5 DEF HasAnswerIn, AnsweredIn
  <2>5. Order(program, shared, lane, l)
    BY <2>2, <2>3 DEF Order
  <2>6. Delivered(program, shared, lane, l)
    BY <1>5, <2>0, <2>4 DEF Delivered
  <2> QED BY <2>1, <2>5, <2>6
<1>7. Alone(shared)
  BY <1>5 DEF Alone
<1>8. Stage
  BY <1>5, TwoLanes DEF Stage
<1> QED BY <1>4, <1>6, <1>7, <1>8 DEF SInv, Good

\* A root is the first item of its lane.
LEMMA CommitRootSafe ==
    ASSUME SInv, NEW l \in Lanes, CommitRoot(l)
    PROVE  SInv'
<1>0. /\ Types /\ Good(program, shared, lane) /\ Alone(shared) /\ Stage
      /\ shared \in SharedSet /\ main = "roots"
  BY DEF SInv, Types, CommitRoot
<1>1. PICK s2 : s2 = shared'
  OBVIOUS
<1>2. /\ s2.pending = Append(shared.pending, <<l, Root>>)
      /\ s2.transcript = shared.transcript
      /\ s2.rootSeen = [shared.rootSeen EXCEPT ![l] = TRUE]
      /\ s2.bound = shared.bound /\ s2.completed = shared.completed
      /\ s2.arrived = shared.arrived /\ s2.request = shared.request
      /\ s2.generation = shared.generation /\ s2.response = shared.response
      /\ s2.relationDone = shared.relationDone
  BY <1>0, <1>1 DEF CommitRoot, SharedSet
<1>3. s2 \in SharedSet
  <2>1. Append(shared.pending, <<l, Root>>) \in Seq(Item)
    BY <1>0 DEF SharedSet, Item, Root
  <2>2. [shared.rootSeen EXCEPT ![l] = TRUE] \in [Lanes -> BOOLEAN]
    BY <1>0, Zenon DEF SharedSet
  <2>3. s2 = [shared EXCEPT !.rootSeen = [shared.rootSeen EXCEPT ![l] = TRUE],
                            !.pending = Append(shared.pending, <<l, Root>>)]
    BY <1>0, <1>1 DEF CommitRoot, SharedSet
  <2> QED BY <1>0, <2>1, <2>2, <2>3 DEF SharedSet
<1>4. program' = program /\ lane' = lane /\ asleep' = asleep
  BY DEF CommitRoot
<1>5. main' \in {"roots", "relation"}
  BY DEF CommitRoot
<1>6. Types'
  BY <1>0, <1>1, <1>3, <1>4, <1>5 DEF Types, Mains
<1>7. \A m \in Lanes : lane[m].pc = "new"
  BY <1>0 DEF Stage
<1>8. ASSUME NEW m \in Lanes
      PROVE  /\ Flow(program, s2, lane, m)
             /\ Order(program, s2, lane, m)
             /\ Delivered(program, s2, lane, m)
  <2>0. /\ Flow(program, shared, lane, m) /\ Order(program, shared, lane, m)
        /\ Delivered(program, shared, lane, m)
        /\ program \in [Lanes -> Seq(Op)]
    BY <1>0 DEF Good, Types
  <2>1. lane[m].step = 1 /\ ~AnsweredIn(shared, lane, m) /\ ~AnsweredIn(s2, lane, m)
    BY <2>0, <1>7 DEF Flow, AnsweredIn
  <2>2. Flow(program, s2, lane, m)
    BY <2>0, <1>2 DEF Flow, AnsweredIn
  <2>3. \A j \in Nat : /\ ~HasAnswerIn(program, shared, lane, m, j)
                       /\ ~HasAnswerIn(program, s2, lane, m, j)
    BY <2>1 DEF HasAnswerIn
  <2>4. SameAnswers(program, shared, lane, s2, lane, m)
    BY <2>3 DEF SameAnswers
  <2>5. OthersDraw(shared, s2, m)
    BY <1>2 DEF OthersDraw
  <2>6. Delivered(program, s2, lane, m)
    BY <1>0, <2>0, <2>4, <2>5, DeliveredKept
  <2>7. CASE m = l
    <3>1. Root \in Nat /\ Root = 0
      BY DEF Root
    <3>2. NewItem(shared, s2, l, Root)
      BY <1>0, <1>2, <3>1, PendingItems
    <3>3. s2.rootSeen[l] /\ ~shared.rootSeen[l]
      BY <1>0, <1>2 DEF SharedSet, CommitRoot
    <3>4. \A i \in Nat : ~ObservedIn(program, shared, lane, l, i)
      BY <2>1, <2>7, <3>3 DEF ObservedIn
    <3>5. \A i \in Nat : ObservedIn(program, s2, lane, l, i) <=> i = Root
      BY <2>1, <2>7, <3>3 DEF ObservedIn
    <3>6. NewObserved(program, shared, lane, s2, lane, l, Root)
      BY <3>4, <3>5 DEF NewObserved
    <3>7. Order(program, s2, lane, l)
      BY <1>0, <2>0, <2>3, <2>4, <2>7, <3>1, <3>2, <3>4, <3>6, OrderObserved
    <3> QED BY <2>2, <2>6, <2>7, <3>7
  <2>8. CASE m # l
    <3>1. s2.rootSeen[m] = shared.rootSeen[m]
      BY <1>0, <1>2, <2>8 DEF SharedSet
    <3>2. SameObserved(program, shared, lane, s2, lane, m)
      BY <3>1 DEF SameObserved, ObservedIn
    <3>3. Root \in Nat
      BY DEF Root
    <3>4. SameItems(shared, s2, m)
      BY <1>0, <1>2, <2>8, <3>3, PendingItems
    <3>5. Order(program, s2, lane, m)
      BY <2>0, <2>4, <3>2, <3>4, OrderKept
    <3> QED BY <2>2, <2>6, <3>5
  <2> QED BY <2>7, <2>8
<1>9. Alone(s2)
  BY <1>0, <1>2 DEF Alone
<1>10. Stage'
  BY <1>0, <1>1, <1>2, <1>4, <1>5 DEF Stage
<1> QED BY <1>1, <1>4, <1>6, <1>8, <1>9, <1>10 DEF SInv, Good

\* A coordinator's absorption leaves the lanes' part of the state alone.
LEMMA AbsorbedFields ==
    ASSUME NEW s \in SharedSet, NEW kind \in Kinds,
           NEW s2, \/ s2 = Absorb(s, kind, 0, {})
                   \/ s2 = [Absorb(s, kind, 0, {}) EXCEPT !.relationDone = TRUE]
    PROVE  /\ s2 \in SharedSet
           /\ s2.transcript = Append(s.transcript, Round(s.pending, kind, 0, {}))
           /\ s2.pending = <<>>
           /\ \A l \in Lanes : Untouched(s, s2, l)
<1>1. PICK r : r = Round(s.pending, kind, 0, {})
  OBVIOUS
<1>2. r \in RoundSet
  <2>1. s.pending \in Seq(Item)
    BY DEF SharedSet
  <2> QED BY <1>1, <2>1 DEF Round, RoundSet
<1>3. Append(s.transcript, r) \in Seq(RoundSet) /\ <<>> \in Seq(Item)
  BY <1>2 DEF SharedSet
<1>4. \/ s2 = [s EXCEPT !.transcript = Append(s.transcript, r), !.pending = <<>>]
      \/ s2 = [s EXCEPT !.transcript = Append(s.transcript, r), !.pending = <<>>,
                        !.relationDone = TRUE]
  BY <1>1 DEF Absorb, SharedSet
<1>5. /\ s2 \in SharedSet
      /\ s2.transcript = Append(s.transcript, r)
      /\ s2.pending = <<>>
      /\ \A l \in Lanes : Untouched(s, s2, l)
  <2>1. CASE s2 = [s EXCEPT !.transcript = Append(s.transcript, r), !.pending = <<>>]
    BY <1>3, <2>1 DEF SharedSet, Untouched
  <2>2. CASE s2 = [s EXCEPT !.transcript = Append(s.transcript, r), !.pending = <<>>,
                            !.relationDone = TRUE]
    BY <1>3, <2>2 DEF SharedSet, Untouched
  <2> QED BY <1>4, <2>1, <2>2
<1> QED BY <1>1, <1>5

\* An absorption of the coordinator's keeps the invariant of the lanes.
LEMMA CoordinatorSafe ==
    ASSUME SInv, NEW kind \in Kinds,
           \/ shared' = Absorb(shared, kind, 0, {})
           \/ shared' = [Absorb(shared, kind, 0, {}) EXCEPT !.relationDone = TRUE],
           UNCHANGED <<program, asleep, lane>>, main' \in Mains,
           main' \notin {"roots", "relation"},
           main' = "statements" => \A l \in Lanes : lane[l].pc = "new"
    PROVE  SInv'
<1>0. Types /\ Good(program, shared, lane) /\ Alone(shared)
  BY DEF SInv
<1>1. /\ shared \in SharedSet /\ program \in [Lanes -> Seq(Op)] /\ lane \in [Lanes -> LaneSet]
  BY <1>0 DEF Types
<1>2. PICK s2 : s2 = shared'
  OBVIOUS
<1>3. /\ s2 \in SharedSet
      /\ s2.transcript = Append(shared.transcript, Round(shared.pending, kind, 0, {}))
      /\ s2.pending = <<>>
      /\ \A l \in Lanes : Untouched(shared, s2, l)
  BY <1>1, <1>2, AbsorbedFields
<1>4. Good(program, s2, lane)
  BY <1>0, <1>1, <1>3, AbsorbsGood
<1>5. Alone(s2)
  BY <1>0, <1>3, TwoLanes DEF Alone, Untouched
<1>6. Types'
  BY <1>0, <1>2, <1>3 DEF Types
<1>7. Stage'
  BY DEF Stage
<1> QED BY <1>2, <1>4, <1>5, <1>6, <1>7 DEF SInv

\* The relation runs between the roots and the statements.
LEMMA PreStatementSafe ==
    ASSUME SInv, PreStatement
    PROVE  SInv'
<1>0. /\ Stage /\ main = "relation" /\ "relation" \in Kinds
      /\ UNCHANGED <<program, asleep, lane>>
  BY DEF SInv, PreStatement, Kinds
<1>1. \A l \in Lanes : lane[l].pc = "new"
  BY <1>0 DEF Stage
<1>2. CASE PreStatementBoundary(shared)
  <2>1. /\ \/ shared' = Absorb(shared, "relation", 0, {})
           \/ shared' = [Absorb(shared, "relation", 0, {}) EXCEPT !.relationDone = TRUE]
        /\ main' \in {"statements", "failed"}
    BY <1>2 DEF PreStatement
  <2>2. main' \in Mains /\ main' \notin {"roots", "relation"}
    BY <2>1 DEF Mains
  <2> QED BY <1>0, <1>1, <2>1, <2>2, CoordinatorSafe
<1>3. CASE ~PreStatementBoundary(shared)
  <2>1. UNCHANGED shared /\ main' = "failed"
    BY <1>3 DEF PreStatement
  <2> QED BY <1>0, <2>1 DEF SInv, Types, Stage, Mains
<1> QED BY <1>2, <1>3

\* Both boundaries after the lanes absorb and draw for no lane.
LEMMA PostproofSafe ==
    ASSUME SInv, Postproof \/ Finish
    PROVE  SInv'
<1>0. /\ "postproof" \in Kinds /\ "digest" \in Kinds
      /\ UNCHANGED <<program, asleep, lane>>
  BY DEF Postproof, Finish, Kinds
<1>1. CASE CommonBoundary(shared)
  <2>1. PICK kind \in {"postproof", "digest"} :
            shared' = Absorb(shared, kind, 0, {}) /\ main' \in {"finish", "done"}
    BY <1>1 DEF Postproof, Finish
  <2>2. kind \in Kinds
    BY <1>0
  <2>3. /\ main' \in Mains /\ main' \notin {"roots", "relation"}
        /\ main' # "statements"
    BY <2>1 DEF Mains
  <2> QED BY <1>0, <2>1, <2>2, <2>3, CoordinatorSafe
<1>2. CASE ~CommonBoundary(shared)
  <2>1. UNCHANGED shared /\ main' = "failed"
    BY <1>2 DEF Postproof, Finish
  <2> QED BY <1>0, <2>1 DEF SInv, Types, Stage, Mains
<1> QED BY <1>1, <1>2

\* Joining the lanes changes neither them nor the shared state.
LEMMA JoinSafe ==
    ASSUME SInv, Join
    PROVE  SInv'
<1>1. main' \in {"postproof", "failed"} /\ UNCHANGED <<program, shared, asleep, lane>>
  BY DEF Join
<1> QED BY <1>1 DEF SInv, Types, Stage, Mains

\* The statements are bound before the lanes run.
LEMMA ObservePublicPointsSafe ==
    ASSUME SInv, NEW l \in Lanes, ObservePublicPoints(l)
    PROVE  SInv'
<1>0. /\ Types /\ Good(program, shared, lane) /\ Alone(shared) /\ Stage
      /\ shared \in SharedSet /\ program \in [Lanes -> Seq(Op)] /\ lane \in [Lanes -> LaneSet]
      /\ main = "statements"
  BY DEF SInv, Types, ObservePublicPoints
<1>1. PICK s2, t2 : s2 = shared' /\ t2 = lane'
  OBVIOUS
<1>2. /\ s2.transcript = shared.transcript /\ s2.pending = shared.pending
      /\ s2.bound = [shared.bound EXCEPT ![l] = TRUE]
      /\ s2.rootSeen = shared.rootSeen /\ s2.completed = shared.completed
      /\ s2.arrived = shared.arrived /\ s2.request = shared.request
      /\ s2.generation = shared.generation /\ s2.response = shared.response
  BY <1>0, <1>1 DEF ObservePublicPoints, SharedSet
<1>3. s2 \in SharedSet
  <2>1. [shared.bound EXCEPT ![l] = TRUE] \in [Lanes -> BOOLEAN]
    BY <1>0, Zenon DEF SharedSet
  <2>2. s2 = [shared EXCEPT !.bound = [shared.bound EXCEPT ![l] = TRUE]]
    BY <1>0, <1>1 DEF ObservePublicPoints, SharedSet
  <2> QED BY <1>0, <2>1, <2>2 DEF SharedSet
<1>4. \A m \in Lanes : lane[m].pc = "new"
  BY <1>0 DEF Stage
<1>5. \A m \in Lanes : s2.bound[m] \/ (l = 1 /\ m = 2)
  <2>1. \A m \in Lanes : m = l \/ shared.bound[m] => s2.bound[m]
    BY <1>0, <1>2 DEF SharedSet
  <2>2. l = 2 => shared.bound[1]
    BY DEF ObservePublicPoints
  <2> QED BY <2>1, <2>2, TwoLanes
<1>6. \A m \in Lanes : /\ t2[m].step = lane[m].step /\ t2[m].got = lane[m].got
                       /\ t2[m].generation = lane[m].generation
                       /\ IF l = 2 THEN t2[m].pc = "run" ELSE t2[m].pc = "new"
  <2>1. CASE l = 2
    <3>1. t2 = [m \in Lanes |-> [lane[m] EXCEPT !.pc = "run"]]
      BY <1>1, <2>1 DEF ObservePublicPoints
    <3> QED BY <1>0, <2>1, <3>1 DEF LaneSet
  <2>2. CASE l # 2
    <3>1. t2 = lane
      BY <1>1, <2>2 DEF ObservePublicPoints
    <3> QED BY <1>4, <2>2, <3>1
  <2> QED BY <2>1, <2>2
<1>7. t2 \in [Lanes -> LaneSet]
  <2>1. CASE l = 2
    <3>1. \A m \in Lanes : [lane[m] EXCEPT !.pc = "run"] \in LaneSet
      BY <1>0 DEF LaneSet
    <3>2. t2 = [m \in Lanes |-> [lane[m] EXCEPT !.pc = "run"]]
      BY <1>1, <2>1 DEF ObservePublicPoints
    <3> QED BY <3>1, <3>2
  <2>2. CASE l # 2
    BY <1>0, <1>1, <2>2 DEF ObservePublicPoints
  <2> QED BY <2>1, <2>2
<1>8. ASSUME NEW m \in Lanes
      PROVE  Quiet(shared, lane, s2, t2, m) /\ Flow(program, s2, t2, m)
  <2>0. Flow(program, shared, lane, m) /\ lane[m].pc = "new" /\ t2[m].pc \in {"new", "run"}
    BY <1>0, <1>4, <1>6 DEF Good
  <2>1. ~AnsweredIn(shared, lane, m) /\ ~AnsweredIn(s2, t2, m)
    BY <2>0 DEF AnsweredIn
  <2>2. Quiet(shared, lane, s2, t2, m)
    BY <1>2, <1>6, <2>1 DEF Quiet
  <2>3. t2[m].pc # "new" => s2.bound[m]
    BY <1>5, <1>6
  <2>4. ~s2.completed[m] /\ ~s2.arrived[m] /\ s2.request[m] = NoRequest
    BY <1>2, <2>0 DEF Flow
  <2>5. Flow(program, s2, t2, m)
    BY <1>6, <2>0, <2>1, <2>3, <2>4 DEF Flow
  <2> QED BY <2>2, <2>5
<1>9. Good(program, s2, t2)
  BY <1>0, <1>2, <1>8, StillGood
<1>10. Alone(s2)
  BY <1>0, <1>2 DEF Alone
<1>11. /\ program' = program /\ asleep' = asleep
       /\ IF l = 2 THEN main' = "lanes" ELSE main' = "statements"
  BY <1>0 DEF ObservePublicPoints
<1>12. Types'
  BY <1>0, <1>1, <1>3, <1>7, <1>11 DEF Types, Mains
<1>13. Stage'
  BY <1>1, <1>6, <1>11 DEF Stage
<1> QED BY <1>1, <1>9, <1>10, <1>11, <1>12, <1>13 DEF SInv

\* A lane's observation.
LEMMA ObserveValueSafe ==
    ASSUME SInv, NEW l \in Lanes, ObserveValue(l)
    PROVE  SInv'
<1>0. /\ Types /\ Good(program, shared, lane) /\ Alone(shared) /\ Stage
      /\ shared \in SharedSet /\ program \in [Lanes -> Seq(Op)] /\ lane \in [Lanes -> LaneSet]
  BY DEF SInv, Types
<1>1. PICK s2, t2 : s2 = shared' /\ t2 = lane'
  OBVIOUS
<1>2. Observes(program, shared, lane, s2, t2, l)
  BY <1>1 DEF Observes, ObserveValue, HasOp, Current
<1>3. s2 \in SharedSet /\ t2 \in [Lanes -> LaneSet] /\ Good(program, s2, t2)
  BY <1>0, <1>2, ObservesGood
<1>4. /\ s2.transcript = shared.transcript
      /\ s2.arrived = shared.arrived /\ s2.completed = shared.completed
  BY <1>0, <1>2 DEF Observes, SharedSet
<1>5. Alone(s2)
  BY <1>0, <1>4 DEF Alone
<1>6. UNCHANGED <<program, asleep, main>> /\ lane[l].pc = "run"
  BY DEF ObserveValue, HasOp
<1>7. Types'
  BY <1>0, <1>1, <1>3, <1>6 DEF Types
<1>8. Stage'
  BY <1>0, <1>6 DEF Stage
<1> QED BY <1>1, <1>3, <1>5, <1>6, <1>7, <1>8 DEF SInv

\* shared_challenge in its parts: lane l asks, to s and t; its challenge is
\* drawn if the other lane has asked or left; it waits or takes it.
ChallengeParts(l, s, t) ==
    /\ Asks(program, shared, lane, s, t, l)
    /\ s \in SharedSet /\ t \in [Lanes -> LaneSet] /\ Good(program, s, t)
    /\ s.arrived[l] /\ s.completed = shared.completed
    /\ shared' \in SharedSet /\ Good(program, shared', t) /\ Alone(shared')
    /\ \/ (s.arrived[Other(l)] \/ s.completed[Other(l)]) /\ ReleaseCase(s, shared')
       \/ shared' = s
    /\ lane' = t \/ Takes(shared', t, lane', l)
    /\ asleep' \in SUBSET Lanes
    /\ UNCHANGED <<program, main>>

\* A lane asks, and goes on at once if its challenge is drawn.
LEMMA SharedChallengeIs ==
    ASSUME SInv, NEW l \in Lanes, SharedChallenge(l)
    PROVE  \E s, t : ChallengeParts(l, s, t)
<1>0. /\ Types /\ Good(program, shared, lane) /\ Alone(shared) /\ Stage
      /\ shared \in SharedSet /\ program \in [Lanes -> Seq(Op)] /\ lane \in [Lanes -> LaneSet]
      /\ asleep \in SUBSET Lanes
  BY DEF SInv, Types
<1>1. PICK s, t :
        /\ s = Arrive(shared, l, Current(l))
        /\ t = [lane EXCEPT ![l] = [lane[l] EXCEPT !.pc = "wait",
                                                   !.generation = shared.generation[l]]]
  OBVIOUS
<1>2. Asks(program, shared, lane, s, t, l)
  BY <1>1 DEF Asks, SharedChallenge, HasOp, Current
<1>3. s \in SharedSet /\ t \in [Lanes -> LaneSet] /\ Good(program, s, t)
  BY <1>0, <1>2, Arrives
<1>4. /\ s.arrived = [shared.arrived EXCEPT ![l] = TRUE]
      /\ s.completed = shared.completed /\ s.generation = shared.generation
  BY <1>0, <1>1 DEF Arrive, SharedSet
<1>5. s.arrived[l] /\ \A m \in Lanes : m # l => s.arrived[m] = shared.arrived[m]
  BY <1>0, <1>4 DEF SharedSet
<1>6. /\ t[l] = [lane[l] EXCEPT !.pc = "wait", !.generation = shared.generation[l]]
      /\ t[l].pc = "wait" /\ t[l].generation = shared.generation[l]
  BY <1>0, <1>1 DEF LaneSet
<1>7. PICK s2 : s2 = shared'
  OBVIOUS
<1>8. /\ s2 = IF Ready(s, l) THEN ReleaseReadyChallenges(s) ELSE s
      /\ IF s2.generation[l] # s.generation[l]
         THEN lane' = [t EXCEPT ![l] = Given(t[l], s2.response[l])]
         ELSE lane' = t
      /\ asleep' \in SUBSET Lanes
      /\ UNCHANGED <<program, main>>
  <2> DEFINE released == IF Ready(s, l) THEN ReleaseReadyChallenges(s) ELSE s
             waiting == [lane[l] EXCEPT !.pc = "wait", !.generation = s.generation[l]]
             woken == IF Ready(s, l) THEN {} ELSE asleep
  <2>1. /\ shared' = released
        /\ IF released.generation[l] # s.generation[l]
           THEN /\ lane' = [lane EXCEPT ![l] = Given(waiting, released.response[l])]
                /\ asleep' = woken
           ELSE lane' = [lane EXCEPT ![l] = waiting] /\ asleep' = woken \cup {l}
        /\ UNCHANGED <<program, main>>
    BY <1>1 DEF SharedChallenge
  <2>2. waiting = t[l] /\ t = [lane EXCEPT ![l] = waiting]
    BY <1>1, <1>4, <1>6
  <2>3. \A g : [lane EXCEPT ![l] = g] = [t EXCEPT ![l] = g]
    BY <1>0, <1>1
  <2>4. woken \in SUBSET Lanes
    BY <1>0
  <2>5. s2 = released
    BY <1>7, <2>1
  <2> HIDE DEF woken, waiting, released
  <2>6. asleep' \in SUBSET Lanes
    BY <2>1, <2>4
  <2>7. IF s2.generation[l] # s.generation[l]
        THEN lane' = [t EXCEPT ![l] = Given(t[l], s2.response[l])]
        ELSE lane' = t
    BY <2>1, <2>2, <2>3, <2>5
  <2> QED BY <2>1, <2>5, <2>6, <2>7 DEF released
<1>9. /\ s2 \in SharedSet /\ Good(program, s2, t) /\ Alone(s2)
      /\ \/ (s.arrived[Other(l)] \/ s.completed[Other(l)]) /\ ReleaseCase(s, s2)
         \/ s2 = s
  <2>1. CASE Ready(s, l)
    <3>1. s2 = ReleaseReadyChallenges(s)
      BY <1>8, <2>1
    <3>2. s2 \in SharedSet /\ Good(program, s2, t) /\ Alone(s2) /\ ReleaseCase(s, s2)
      BY <1>0, <1>3, <1>5, <3>1, ReadyGood
    <3> QED BY <2>1, <3>2 DEF Ready
  <2>2. CASE ~Ready(s, l)
    <3>1. s2 = s
      BY <1>8, <2>2
    <3>2. ~s.arrived[Other(l)] /\ ~s.completed[Other(l)]
      BY <2>2 DEF Ready
    <3>3. Alone(s)
      BY <3>2, TwoLanes DEF Alone
    <3> QED BY <1>3, <3>1, <3>3
  <2> QED BY <2>1, <2>2
<1>10. lane' = t \/ Takes(s2, t, lane', l)
  <2>1. CASE s2.generation[l] # s.generation[l]
    <3>1. s2.generation[l] # t[l].generation
      BY <1>4, <1>6, <2>1
    <3>2. AnsweredIn(s2, t, l)
      BY <1>6, <1>9, <3>1 DEF Good, Flow, AnsweredIn
    <3> QED BY <1>8, <2>1, <3>2 DEF Takes
  <2>2. CASE s2.generation[l] = s.generation[l]
    BY <1>8, <2>2
  <2> QED BY <2>1, <2>2
<1>11. ChallengeParts(l, s, t)
  BY <1>2, <1>3, <1>4, <1>5, <1>7, <1>8, <1>9, <1>10 DEF ChallengeParts
<1> QED BY <1>11

\* Both parts keep the invariant.
LEMMA SharedChallengeSafe ==
    ASSUME SInv, NEW l \in Lanes, SharedChallenge(l)
    PROVE  SInv'
<1>0. Types /\ Stage /\ program \in [Lanes -> Seq(Op)]
  BY DEF SInv, Types
<1>1. PICK s, t : ChallengeParts(l, s, t)
  BY SharedChallengeIs
<1>2. PICK s2, t2 : s2 = shared' /\ t2 = lane'
  OBVIOUS
<1>3. /\ t \in [Lanes -> LaneSet] /\ s2 \in SharedSet /\ Good(program, s2, t) /\ Alone(s2)
      /\ t2 = t \/ Takes(s2, t, t2, l)
      /\ asleep' \in SUBSET Lanes /\ UNCHANGED <<program, main>>
      /\ lane[l].pc = "run"
  BY <1>1, <1>2 DEF ChallengeParts, Asks
<1>4. t2 \in [Lanes -> LaneSet] /\ Good(program, s2, t2)
  BY <1>0, <1>3, Taken
<1>5. Types'
  BY <1>0, <1>2, <1>3, <1>4 DEF Types
<1>6. Stage'
  BY <1>0, <1>3 DEF Stage
<1> QED BY <1>2, <1>3, <1>4, <1>5, <1>6 DEF SInv

\* A woken lane takes its challenge if it was drawn.
LEMMA WakeSafe ==
    ASSUME SInv, NEW l \in Lanes, Wake(l)
    PROVE  SInv'
<1>0. /\ Types /\ Good(program, shared, lane) /\ Alone(shared) /\ Stage
      /\ shared \in SharedSet /\ program \in [Lanes -> Seq(Op)] /\ lane \in [Lanes -> LaneSet]
      /\ lane[l].pc = "wait" /\ UNCHANGED <<program, shared, main>>
  BY DEF SInv, Types, Wake
<1>1. CASE shared.generation[l] # lane[l].generation
  <2>1. PICK t2 : t2 = lane'
    OBVIOUS
  <2>2. AnsweredIn(shared, lane, l)
    BY <1>0, <1>1 DEF Good, Flow, AnsweredIn
  <2>3. Takes(shared, lane, t2, l) /\ UNCHANGED asleep
    BY <1>1, <2>1, <2>2 DEF Takes, Wake
  <2>4. t2 \in [Lanes -> LaneSet] /\ Good(program, shared, t2)
    BY <1>0, <2>3, Taken
  <2>5. Types'
    BY <1>0, <2>1, <2>3, <2>4 DEF Types
  <2>6. Stage'
    BY <1>0 DEF Stage
  <2> QED BY <1>0, <2>1, <2>4, <2>5, <2>6 DEF SInv
<1>2. CASE shared.generation[l] = lane[l].generation
  <2>1. UNCHANGED lane /\ asleep' = asleep \cup {l}
    BY <1>2 DEF Wake
  <2> QED BY <1>0, <2>1 DEF SInv, Types, Stage
<1> QED BY <1>1, <1>2

\* A spurious wakeup wakes a lane and changes nothing else.
LEMMA SpuriousWakeSafe ==
    ASSUME SInv, NEW l \in Lanes, SpuriousWake(l)
    PROVE  SInv'
BY DEF SInv, Types, Stage, SpuriousWake

\* A lane that stops in the middle of its program leaves the shared state.
LEMMA LaneFailureSafe ==
    ASSUME SInv, NEW l \in Lanes, LaneFailure(l)
    PROVE  SInv'
<1>0. /\ Types /\ Good(program, shared, lane) /\ Alone(shared) /\ Stage
      /\ shared \in SharedSet /\ program \in [Lanes -> Seq(Op)] /\ lane \in [Lanes -> LaneSet]
      /\ lane[l].pc = "run" /\ UNCHANGED <<program, shared, asleep, main>>
  BY DEF SInv, Types, LaneFailure, LaneError, LanePanic
<1>1. PICK pc \in {"failing", "lost"} : lane' = [lane EXCEPT ![l] = [lane[l] EXCEPT !.pc = pc]]
  BY DEF LaneFailure, LaneError, LanePanic
<1>2. PICK t2 : t2 = lane'
  OBVIOUS
<1>3. /\ t2[l].pc = pc /\ t2[l].step = lane[l].step /\ t2[l].got = lane[l].got
      /\ \A m \in Lanes : m # l => t2[m] = lane[m]
  BY <1>0, <1>1, <1>2 DEF LaneSet
<1>4. t2 \in [Lanes -> LaneSet]
  <2>1. [lane[l] EXCEPT !.pc = pc] \in LaneSet
    BY <1>0 DEF LaneSet
  <2> QED BY <1>0, <1>1, <1>2, <2>1
<1>5. ASSUME NEW m \in Lanes
      PROVE  Quiet(shared, lane, shared, t2, m) /\ Flow(program, shared, t2, m)
  <2>0. Flow(program, shared, lane, m)
    BY <1>0 DEF Good
  <2>1. CASE m = l
    BY <1>0, <1>3, <2>0, <2>1 DEF Flow, Quiet, AnsweredIn
  <2>2. CASE m # l
    BY <1>3, <2>0, <2>2, FlowKept DEF Untouched
  <2> QED BY <2>1, <2>2
<1>6. Good(program, shared, t2)
  BY <1>0, <1>5, StillGood
<1>7. Types'
  BY <1>0, <1>2, <1>4 DEF Types
<1>8. Stage'
  BY <1>0 DEF Stage
<1> QED BY <1>0, <1>2, <1>6, <1>7, <1>8 DEF SInv

\* finish_lane in its parts: lane l leaves, to s and t, and the challenge the
\* other lane may wait for is drawn.
FinishParts(l, s, t) ==
    /\ s \in SharedSet /\ t \in [Lanes -> LaneSet] /\ Good(program, s, t)
    /\ \A m \in Lanes : Quiet(shared, lane, s, t, m)
    /\ s.transcript = shared.transcript /\ s.arrived = shared.arrived
    /\ s.completed = [shared.completed EXCEPT ![l] = TRUE]
    /\ ~shared.completed[l] /\ ~shared.arrived[l]
    /\ shared' \in SharedSet /\ Good(program, shared', t) /\ Alone(shared')
    /\ (s.arrived[Other(l)] /\ ReleaseCase(s, shared')) \/ shared' = s
    /\ lane' = t
    /\ asleep' \in SUBSET Lanes
    /\ UNCHANGED <<program, main>>

\* A lane that ends with its proof or its error: the flag, and the release the
\* other lane may wait for.  Its boundary check cannot fail.
LEMMA FinishLaneIs ==
    ASSUME SInv, NEW l \in Lanes, FinishLane(l)
    PROVE  \E s, t : FinishParts(l, s, t)
<1>0. /\ Types /\ Good(program, shared, lane) /\ Alone(shared) /\ Stage
      /\ shared \in SharedSet /\ program \in [Lanes -> Seq(Op)] /\ lane \in [Lanes -> LaneSet]
      /\ asleep \in SUBSET Lanes /\ lane[l].pc \in {"run", "failing"}
      /\ UNCHANGED <<program, main>>
  BY DEF SInv, Types, FinishLane
<1>1. shared.bound[l] /\ ~shared.completed[l] /\ ~shared.arrived[l]
  BY <1>0 DEF Good, Flow
<1>2. PICK s : s = [shared EXCEPT !.completed[l] = TRUE]
  OBVIOUS
<1>3. /\ IF s.arrived[Other(l)]
         THEN shared' = ReleaseReadyChallenges(s) /\ asleep' = {}
         ELSE shared' = s /\ UNCHANGED asleep
      /\ lane' = [lane EXCEPT ![l].pc = IF @ = "run" THEN "done" ELSE "failed"]
  BY <1>1, <1>2 DEF FinishLane
<1>4. PICK pc \in {"done", "failed"} : lane' = [lane EXCEPT ![l] = [lane[l] EXCEPT !.pc = pc]]
  BY <1>3
<1>5. PICK s2, t2 : s2 = shared' /\ t2 = lane'
  OBVIOUS
<1>6. /\ s.completed = [shared.completed EXCEPT ![l] = TRUE]
      /\ s.transcript = shared.transcript /\ s.pending = shared.pending
      /\ s.rootSeen = shared.rootSeen /\ s.bound = shared.bound
      /\ s.arrived = shared.arrived /\ s.request = shared.request
      /\ s.generation = shared.generation /\ s.response = shared.response
  BY <1>0, <1>2 DEF SharedSet
<1>7. s \in SharedSet
  <2>1. [shared.completed EXCEPT ![l] = TRUE] \in [Lanes -> BOOLEAN]
    BY <1>0, Zenon DEF SharedSet
  <2>2. s = [shared EXCEPT !.completed = [shared.completed EXCEPT ![l] = TRUE]]
    BY <1>0, <1>2 DEF SharedSet
  <2> QED BY <1>0, <2>1, <2>2 DEF SharedSet
<1>8. s.completed[l] /\ \A m \in Lanes : m # l => s.completed[m] = shared.completed[m]
  BY <1>0, <1>6 DEF SharedSet
<1>9. /\ t2[l].pc = pc /\ t2[l].step = lane[l].step /\ t2[l].got = lane[l].got
      /\ \A m \in Lanes : m # l => t2[m] = lane[m]
  BY <1>0, <1>4, <1>5 DEF LaneSet
<1>10. t2 \in [Lanes -> LaneSet]
  <2>1. [lane[l] EXCEPT !.pc = pc] \in LaneSet
    BY <1>0 DEF LaneSet
  <2> QED BY <1>0, <1>4, <1>5, <2>1
<1>11. ASSUME NEW m \in Lanes
       PROVE  Quiet(shared, lane, s, t2, m) /\ Flow(program, s, t2, m)
  <2>0. Flow(program, shared, lane, m)
    BY <1>0 DEF Good
  <2>1. CASE m = l
    <3>1. Quiet(shared, lane, s, t2, l)
      BY <1>0, <1>6, <1>9 DEF Quiet, AnsweredIn
    <3>2. ~s.arrived[l] /\ s.bound[l] /\ s.request[l] = NoRequest
      BY <1>1, <1>6, <2>0, <2>1 DEF Flow
    <3>3. Flow(program, s, t2, l)
      BY <1>0, <1>8, <1>9, <2>0, <2>1, <3>2 DEF Flow, AnsweredIn
    <3> QED BY <2>1, <3>1, <3>3
  <2>2. CASE m # l
    <3>1. Untouched(shared, s, m)
      BY <1>6, <1>8, <2>2 DEF Untouched
    <3> QED BY <1>9, <2>0, <2>2, <3>1, FlowKept
  <2> QED BY <2>1, <2>2
<1>12. Good(program, s, t2)
  BY <1>0, <1>6, <1>11, StillGood
<1>13. /\ s2 \in SharedSet /\ Good(program, s2, t2) /\ Alone(s2)
       /\ (s.arrived[Other(l)] /\ ReleaseCase(s, s2)) \/ s2 = s
  <2>1. CASE s.arrived[Other(l)]
    <3>1. s2 = ReleaseReadyChallenges(s)
      BY <1>3, <1>5, <2>1
    <3>2. Other(l) \in Lanes
      BY TwoLanes
    <3>3. s2 \in SharedSet /\ Good(program, s2, t2) /\ Alone(s2) /\ ReleaseCase(s, s2)
      BY <1>0, <1>7, <1>10, <1>12, <2>1, <3>1, <3>2, ReadyGood
    <3> QED BY <2>1, <3>3
  <2>2. CASE ~s.arrived[Other(l)]
    <3>1. s2 = s
      BY <1>3, <1>5, <2>2
    <3>2. ~s.arrived[l]
      BY <1>1, <1>6
    <3>3. Alone(s)
      BY <2>2, <3>2, TwoLanes DEF Alone
    <3> QED BY <1>7, <1>12, <3>1, <3>3
  <2> QED BY <2>1, <2>2
<1>14. asleep' \in SUBSET Lanes
  BY <1>0, <1>3
<1>15. FinishParts(l, s, t2)
  BY <1>0, <1>1, <1>5, <1>6, <1>7, <1>10, <1>11, <1>12, <1>13, <1>14 DEF FinishParts
<1> QED BY <1>15

\* Both parts keep the invariant.
LEMMA FinishLaneSafe ==
    ASSUME SInv, NEW l \in Lanes, FinishLane(l)
    PROVE  SInv'
<1>0. Types /\ Stage
  BY DEF SInv
<1>1. PICK s, t : FinishParts(l, s, t)
  BY FinishLaneIs
<1>2. /\ t \in [Lanes -> LaneSet] /\ shared' \in SharedSet
      /\ Good(program, shared', t) /\ Alone(shared') /\ lane' = t
      /\ asleep' \in SUBSET Lanes /\ UNCHANGED <<program, main>>
  BY <1>1 DEF FinishParts
<1>3. lane[l].pc # "new"
  BY DEF FinishLane
<1>4. Types'
  BY <1>0, <1>2 DEF Types
<1>5. Stage'
  BY <1>0, <1>2, <1>3 DEF Stage
<1> QED BY <1>2, <1>4, <1>5 DEF SInv

\* Every step keeps the invariant.
LEMMA StepSafe ==
    ASSUME SInv, [Next]_vars
    PROVE  SInv'
<1>1. ASSUME NEW l \in Lanes, CommitRoot(l) PROVE SInv'
  BY <1>1, CommitRootSafe
<1>2. ASSUME NEW l \in Lanes, ObservePublicPoints(l) PROVE SInv'
  BY <1>2, ObservePublicPointsSafe
<1>3. ASSUME PreStatement PROVE SInv'
  BY <1>3, PreStatementSafe
<1>4. ASSUME Join PROVE SInv'
  BY <1>4, JoinSafe
<1>5. ASSUME Postproof \/ Finish PROVE SInv'
  BY <1>5, PostproofSafe
<1>6. ASSUME NEW l \in Lanes, LaneStep(l) PROVE SInv'
  BY <1>6, ObserveValueSafe, SharedChallengeSafe, WakeSafe, FinishLaneSafe DEF LaneStep
<1>7. ASSUME NEW l \in Lanes, SpuriousWake(l) PROVE SInv'
  BY <1>7, SpuriousWakeSafe
<1>8. ASSUME NEW l \in Lanes, LaneFailure(l) PROVE SInv'
  BY <1>8, LaneFailureSafe
<1>9. ASSUME UNCHANGED vars PROVE SInv'
  BY <1>9 DEF SInv, Types, Stage, vars
<1> QED BY <1>1, <1>2, <1>3, <1>4, <1>5, <1>6, <1>7, <1>8, <1>9 DEF Next, MainStep

\* The lanes of the shared-round challenger flow, keep their order and are
\* answered with their own draws in every reachable state, for all programs:
\* c61_shared_round_challenger.rs from the roots to finish.
THEOREM SharedRoundInvariant == Spec => []SInv
<1>1. Init => SInv
  BY Initially
<1>2. SInv /\ [Next]_vars => SInv'
  BY StepSafe
<1> QED BY <1>1, <1>2, PTL DEF Spec

-----------------------------------------------------------------------------
(* The properties.                                                         *)

\* Soundness of the challenges: in the transcript every lane's root, its moves
\* and its challenges stand in the order of its program, once each, whatever
\* the thread of the other lane does: observe and shared_challenge.
THEOREM LaneOrderAlways == Spec => []LaneOrder
<1>1. SInv => LaneOrder
  <2> SUFFICES ASSUME SInv, NEW l \in Lanes
               PROVE
        /\ \A i \in 0..Len(program[l]) :
              Observed(l, i) => \E p \in Rounds : \E k \in PlacesOf(l, p) : OpAt(p, k) = i
        /\ \A p \in Rounds : \A k \in PlacesOf(l, p) :
              /\ Observed(l, OpAt(p, k))
              /\ \A q \in Rounds : \A m \in PlacesOf(l, q) :
                    OpAt(p, k) < OpAt(q, m) <=> Before(p, k, q, m)
              /\ \A j \in 1..Len(program[l]) :
                    HasAnswer(l, j) => (OpAt(p, k) < j <=> p <= AnswerTo(l, j)[1])
    BY DEF LaneOrder
  <2>0. /\ Order(program, shared, lane, l)
        /\ shared \in SharedSet /\ program \in [Lanes -> Seq(Op)]
        /\ Len(program[l]) \in Nat /\ Len(shared.transcript) \in Nat
    BY DEF SInv, Types, Good, SharedSet
  <2>1. \A p : Items(p) = ItemsIn(shared, p)
    BY DEF Items, ItemsIn
  <2>2. \A i : Observed(l, i) <=> ObservedIn(program, shared, lane, l, i)
    BY DEF Observed, ObservedIn
  <2>3. \A j : /\ HasAnswer(l, j) <=> HasAnswerIn(program, shared, lane, l, j)
               /\ AnswerTo(l, j) = AnswerIn(shared, lane, l, j)
    BY DEF HasAnswer, HasAnswerIn, AnswerTo, AnswerIn, Answered, AnsweredIn
  <2>4. ASSUME NEW p \in Rounds, NEW k \in PlacesOf(l, p)
        PROVE  /\ p \in Nat /\ k \in Nat /\ OpAt(p, k) \in Nat
               /\ StandsIn(shared, p, k, l, OpAt(p, k))
    <3>1. Items(p) \in Seq(Item)
      <4>1. p \in 1..(Len(shared.transcript) + 1)
        BY DEF Rounds
      <4>2. CASE p <= Len(shared.transcript)
        <5>1. shared.transcript[p] \in RoundSet
          BY <2>0, <4>1, <4>2 DEF SharedSet
        <5> QED BY <4>2, <5>1 DEF Items, RoundSet
      <4>3. CASE ~(p <= Len(shared.transcript))
        BY <2>0, <4>3 DEF Items, SharedSet
      <4> QED BY <4>2, <4>3
    <3>2. k \in 1..Len(Items(p)) /\ Items(p)[k][1] = l
      BY DEF PlacesOf
    <3>3. Items(p)[k] \in Lanes \X Nat
      BY <3>1, <3>2 DEF Item
    <3>4. Items(p)[k] = <<l, OpAt(p, k)>> /\ OpAt(p, k) \in Nat
      BY <3>2, <3>3 DEF OpAt
    <3>5. p \in Nat /\ k \in Nat
      BY <2>0, <3>1, <3>2 DEF Rounds
    <3> QED BY <2>1, <3>2, <3>4, <3>5 DEF StandsIn, Rounds
  <2>5. ASSUME NEW i \in 0..Len(program[l]), Observed(l, i)
        PROVE  \E p \in Rounds : \E k \in PlacesOf(l, p) : OpAt(p, k) = i
    <3>1. PICK p \in Nat, k \in Nat : StandsIn(shared, p, k, l, i)
      BY <2>0, <2>2, <2>5 DEF Order
    <3>2. p \in Rounds /\ k \in 1..Len(Items(p)) /\ Items(p)[k] = <<l, i>>
      BY <2>1, <3>1 DEF StandsIn, Rounds
    <3> QED BY <3>2 DEF PlacesOf, OpAt
  <2>6. ASSUME NEW p \in Rounds, NEW k \in PlacesOf(l, p)
        PROVE  Observed(l, OpAt(p, k))
    BY <2>0, <2>2, <2>4 DEF Order
  <2>7. ASSUME NEW p \in Rounds, NEW k \in PlacesOf(l, p),
               NEW q \in Rounds, NEW m \in PlacesOf(l, q)
        PROVE  OpAt(p, k) < OpAt(q, m) <=> Before(p, k, q, m)
    BY <2>0, <2>4 DEF Order
  <2>8. ASSUME NEW p \in Rounds, NEW k \in PlacesOf(l, p),
               NEW j \in 1..Len(program[l]), HasAnswer(l, j)
        PROVE  OpAt(p, k) < j <=> p <= AnswerTo(l, j)[1]
    <3>1. j \in Nat /\ HasAnswerIn(program, shared, lane, l, j)
      BY <2>0, <2>3, <2>8
    <3>2. /\ p \in Nat /\ k \in Nat /\ OpAt(p, k) \in Nat
          /\ StandsIn(shared, p, k, l, OpAt(p, k))
      BY <2>4
    <3>3. OpAt(p, k) < j <=> p <= AnswerIn(shared, lane, l, j)[1]
      BY <2>0, <3>1, <3>2 DEF Order
    <3> QED BY <2>3, <3>3
  <2> QED BY <2>5, <2>6, <2>7, <2>8
<1> QED BY <1>1, SharedRoundInvariant, PTL

\* Every lane is given exactly the draws that answer it, once each, in order
\* and of the kind and width it asked for: shared_challenge and its wait.
THEOREM ResponsesExactAlways == Spec => []ResponsesExact
<1>1. SInv => ResponsesExact
  <2> SUFFICES ASSUME SInv, NEW l \in Lanes
               PROVE
        LET got == lane[l].got
            asked == {j \in 1..(lane[l].step - 1) : IsRequest(program[l][j])}
            taken == {got[j][1] : j \in asked}
        IN  /\ taken \subseteq DrawsFor(l)
            /\ \A q \in DrawsFor(l) \ taken :
                  /\ lane[l].pc = "wait"
                  /\ \A r \in DrawsFor(l) : r <= q
            /\ \A i, j \in asked : i < j => got[i][1] < got[j][1]
            /\ \A j \in asked :
                  LET draw == shared.transcript[got[j][1]]
                  IN  /\ draw.kind = program[l][j].kind
                      /\ got[j][2] = program[l][j].width
                      /\ draw.width >= program[l][j].width
    BY DEF ResponsesExact
  <2> DEFINE got == lane[l].got
             asked == {j \in 1..(lane[l].step - 1) : IsRequest(program[l][j])}
             taken == {got[j][1] : j \in asked}
             Has(j) == HasAnswerIn(program, shared, lane, l, j)
             Ans(j) == AnswerIn(shared, lane, l, j)
  <2>0. /\ Delivered(program, shared, lane, l) /\ Flow(program, shared, lane, l)
        /\ lane[l].step \in 1..(Len(program[l]) + 1) /\ lane[l].step \in Nat
        /\ Len(program[l]) \in Nat /\ Len(shared.transcript) \in Nat
        /\ DOMAIN shared.transcript = 1..Len(shared.transcript)
    BY DEF SInv, Types, Good, SharedSet, Flow
  <2>1. ASSUME NEW j \in asked
        PROVE  j \in 1..Len(program[l]) /\ Has(j) /\ got[j] = Ans(j) /\ j < lane[l].step
    BY <2>0 DEF HasAnswerIn, AnswerIn
  <2>2. ASSUME NEW j \in 1..Len(program[l]), Has(j)
        PROVE  /\ Fits(program, shared, l, j, Ans(j))
               /\ j \in asked \/ (lane[l].pc = "wait" /\ j = lane[l].step)
    BY <2>0, <2>2 DEF Delivered, HasAnswerIn, AnsweredIn
  <2>3. ASSUME NEW i \in 1..Len(program[l]), NEW j \in 1..Len(program[l]), Has(i), Has(j), i < j
        PROVE  Ans(i)[1] < Ans(j)[1]
    BY <2>0, <2>3 DEF Delivered
  <2>4. ASSUME NEW q \in DrawsFor(l)
        PROVE  \E j \in 1..Len(program[l]) : Has(j) /\ Ans(j)[1] = q
    BY <2>0 DEF Delivered, DrawsFor
  <2> HIDE DEF Has, Ans
  <2>5. taken \subseteq DrawsFor(l)
    BY <2>0, <2>1, <2>2 DEF Fits, DrawsFor
  <2>6. ASSUME NEW q \in DrawsFor(l) \ taken
        PROVE  lane[l].pc = "wait" /\ \A r \in DrawsFor(l) : r <= q
    <3>1. PICK j \in 1..Len(program[l]) : Has(j) /\ Ans(j)[1] = q
      BY <2>4
    <3>2. j \notin asked
      <4>1. ASSUME j \in asked PROVE FALSE
        <5>1. got[j][1] = q
          BY <2>1, <3>1, <4>1
        <5> QED BY <4>1, <5>1
      <4> QED BY <4>1
    <3>3. lane[l].pc = "wait" /\ j = lane[l].step
      BY <2>2, <3>1, <3>2
    <3>4. ASSUME NEW r \in DrawsFor(l) PROVE r <= q
      <4>1. PICK i \in 1..Len(program[l]) : Has(i) /\ Ans(i)[1] = r
        BY <2>4
      <4>2. CASE i = j
        BY <2>0, <2>2, <3>1, <4>1, <4>2 DEF Fits
      <4>3. CASE i # j
        <5>1. i < j
          BY <2>0, <2>1, <2>2, <3>3, <4>1, <4>3
        <5>2. r < q
          BY <2>3, <3>1, <4>1, <5>1
        <5>3. r \in Nat /\ q \in Nat
          BY <2>0 DEF DrawsFor
        <5> QED BY <5>2, <5>3
      <4> QED BY <4>2, <4>3
    <3> QED BY <3>3, <3>4
  <2>7. ASSUME NEW i \in asked, NEW j \in asked, i < j
        PROVE  got[i][1] < got[j][1]
    BY <2>1, <2>3, <2>7
  <2>8. ASSUME NEW j \in asked
        PROVE  LET draw == shared.transcript[got[j][1]]
               IN  /\ draw.kind = program[l][j].kind
                   /\ got[j][2] = program[l][j].width
                   /\ draw.width >= program[l][j].width
    BY <2>1, <2>2 DEF Fits
  <2> HIDE DEF asked, taken, got
  <2>9. /\ taken \subseteq DrawsFor(l)
        /\ \A q \in DrawsFor(l) \ taken : lane[l].pc = "wait" /\ \A r \in DrawsFor(l) : r <= q
        /\ \A i, j \in asked : i < j => got[i][1] < got[j][1]
        /\ \A j \in asked :
              LET draw == shared.transcript[got[j][1]]
              IN  /\ draw.kind = program[l][j].kind
                  /\ got[j][2] = program[l][j].width
                  /\ draw.width >= program[l][j].width
    BY <2>5, <2>6, <2>7, <2>8
  <2> QED BY <2>9 DEF asked, taken, got
<1> QED BY <1>1, SharedRoundInvariant, PTL

-----------------------------------------------------------------------------
(* The refinement.                                                         *)

FrontierIn(s, t, l) == IF AnsweredIn(s, t, l) THEN t[l].step + 1 ELSE t[l].step

\* What lane l has still to ask.
TodoIn(P, s, t, l) ==
    [i \in {j \in DOMAIN P[l] : j >= FrontierIn(s, t, l) /\ IsRequest(P[l][j])} |-> P[l][i]]

DrawnIn(s) ==
    [q \in DOMAIN s.transcript |->
        [kind |-> s.transcript[q].kind,
         width |-> s.transcript[q].width,
         lanes |-> s.transcript[q].lanes]]

\* A lane whose frontier stays, or passes an observation, has the same to ask.
LEMMA TodoKept ==
    ASSUME NEW P \in [Lanes -> Seq(Op)], NEW s, NEW t, NEW s2, NEW t2, NEW l \in Lanes,
           NEW n \in Nat, FrontierIn(s, t, l) = n,
           \/ FrontierIn(s2, t2, l) = n
           \/ FrontierIn(s2, t2, l) = n + 1 /\ n \in 1..Len(P[l]) /\ ~IsRequest(P[l][n])
    PROVE  TodoIn(P, s2, t2, l) = TodoIn(P, s, t, l)
<1> DEFINE D == {j \in DOMAIN P[l] : j >= FrontierIn(s, t, l) /\ IsRequest(P[l][j])}
           D2 == {j \in DOMAIN P[l] : j >= FrontierIn(s2, t2, l) /\ IsRequest(P[l][j])}
<1>1. DOMAIN P[l] = 1..Len(P[l]) /\ Len(P[l]) \in Nat
  OBVIOUS
<1>2. \A j \in DOMAIN P[l] : IsRequest(P[l][j]) =>
          (j >= FrontierIn(s2, t2, l) <=> j >= FrontierIn(s, t, l))
  BY <1>1
<1>3. D = D2
  BY <1>2
<1> QED BY <1>3 DEF TodoIn

\* Of what lane l has to ask, f, the first request is the one at n, and the
\* others remain when it is answered.
AsksFirst(P, s, t, l, f, n) ==
    /\ n \in DOMAIN f
    /\ \A j \in DOMAIN f : n <= j
    /\ DOMAIN f \subseteq Nat
    /\ f[n] = s.request[l]
    /\ \A s2 : ~s2.arrived[l] => TodoIn(P, s2, t, l) = [i \in DOMAIN f \ {n} |-> f[i]]

\* A release takes from what a lane has to ask the request it waits with.
LEMMA TodoAnswered ==
    ASSUME NEW P \in [Lanes -> Seq(Op)], NEW s \in SharedSet, NEW t \in [Lanes -> LaneSet],
           NEW l \in Lanes, Flow(P, s, t, l), s.arrived[l],
           NEW f, f = TodoIn(P, s, t, l), NEW n, n = t[l].step
    PROVE  AsksFirst(P, s, t, l, f, n)
<1> DEFINE D == {j \in DOMAIN P[l] : j >= n /\ IsRequest(P[l][j])}
           D2 == {j \in DOMAIN P[l] : j >= n + 1 /\ IsRequest(P[l][j])}
<1>1. /\ n \in 1..Len(P[l]) /\ n \in Nat /\ IsRequest(P[l][n])
      /\ s.request[l] = P[l][n] /\ t[l].pc = "wait"
      /\ DOMAIN P[l] = 1..Len(P[l]) /\ Len(P[l]) \in Nat
  BY DEF Flow, LaneSet
<1>2. FrontierIn(s, t, l) = n /\ \A s2 : ~s2.arrived[l] => FrontierIn(s2, t, l) = n + 1
  BY <1>1 DEF FrontierIn, AnsweredIn
<1>3. D2 = D \ {n}
  <2>1. \A j \in DOMAIN P[l] : j >= n + 1 <=> j >= n /\ j # n
    BY <1>1
  <2> QED BY <2>1
<1>4. TodoIn(P, s, t, l) = [i \in D |-> P[l][i]]
  BY <1>2 DEF TodoIn
<1>5. \A s2 : ~s2.arrived[l] => TodoIn(P, s2, t, l) = [i \in D2 |-> P[l][i]]
  BY <1>2 DEF TodoIn
<1>6. n \in D /\ (\A j \in D : n <= j) /\ D \subseteq Nat
  BY <1>1
<1> HIDE DEF D, D2
<1>7. DOMAIN f = D /\ \A i \in D : f[i] = P[l][i]
  BY <1>4
<1>8. \A s2 : ~s2.arrived[l] => TodoIn(P, s2, t, l) = [i \in DOMAIN f \ {n} |-> f[i]]
  <2>1. [i \in D2 |-> P[l][i]] = [i \in DOMAIN f \ {n} |-> f[i]]
    BY <1>3, <1>7
  <2> QED BY <1>5, <2>1
<1>9. f[n] = s.request[l]
  BY <1>1, <1>6, <1>7
<1> QED BY <1>6, <1>7, <1>8, <1>9 DEF AsksFirst

\* What is drawn with a round.
LEMMA DrawnAppended ==
    ASSUME NEW s \in SharedSet, NEW s2, NEW r \in RoundSet,
           s2.transcript = Append(s.transcript, r)
    PROVE  DrawnIn(s2) = Append(DrawnIn(s), [kind |-> r.kind, width |-> r.width, lanes |-> r.lanes])
<1> DEFINE N == Len(s.transcript)
           d(x) == [kind |-> x.kind, width |-> x.width, lanes |-> x.lanes]
<1>1. /\ N \in Nat /\ DOMAIN s.transcript = 1..N /\ s.transcript \in Seq(RoundSet)
      /\ DOMAIN s2.transcript = 1..(N + 1)
      /\ s2.transcript[N + 1] = r
      /\ \A q \in 1..N : s2.transcript[q] = s.transcript[q]
  BY DEF SharedSet
<1>2. PICK D : D = DrawnIn(s)
  OBVIOUS
<1>3. PICK e : e = [kind |-> r.kind, width |-> r.width, lanes |-> r.lanes]
  OBVIOUS
<1>4. D = [q \in 1..N |-> d(s.transcript[q])]
  BY <1>1, <1>2 DEF DrawnIn
<1>5. DrawnIn(s2) = [q \in 1..(N + 1) |-> d(s2.transcript[q])]
  BY <1>1 DEF DrawnIn
<1>6. DrawnIn(s2) = [q \in 1..(N + 1) |-> IF q <= N THEN D[q] ELSE e]
  <2>1. \A q \in 1..N : D[q] = d(s.transcript[q])
    BY <1>4
  <2>2. d(s2.transcript[N + 1]) = e
    BY <1>1, <1>3
  <2>3. \A q \in 1..(N + 1) : d(s2.transcript[q]) = IF q <= N THEN D[q] ELSE e
    <3> SUFFICES ASSUME NEW q \in 1..(N + 1)
                 PROVE  d(s2.transcript[q]) = IF q <= N THEN D[q] ELSE e
      OBVIOUS
    <3> HIDE DEF d
    <3>1. CASE q <= N
      BY <1>1, <2>1, <3>1
    <3>2. CASE ~(q <= N)
      <4>1. q = N + 1
        BY <1>1, <3>2
      <4> QED BY <2>2, <3>2, <4>1
    <3> QED BY <3>1, <3>2
  <2> HIDE DEF d
  <2> QED BY <1>5, <2>3
<1>7. D \in Seq({d(x) : x \in RoundSet}) /\ Len(D) = N /\ e \in {d(x) : x \in RoundSet}
  <2>1. e = d(r)
    BY <1>3
  <2> HIDE DEF d
  <2> QED BY <1>1, <1>4, <2>1
<1>8. Append(D, e) = DrawnIn(s2)
  <2>1. PICK S : S = {d(x) : x \in RoundSet}
    OBVIOUS
  <2>2. D \in Seq(S) /\ e \in S /\ Len(D) = N
    BY <1>7, <2>1
  <2>3. DrawnIn(s2) \in Seq(S) /\ Len(DrawnIn(s2)) = N + 1
    <3>1. \A q \in 1..(N + 1) : (IF q <= N THEN D[q] ELSE e) \in S
      BY <1>1, <2>2
    <3> QED BY <1>1, <1>6, <3>1
  <2>4. /\ Append(D, e) \in Seq(S) /\ Len(Append(D, e)) = N + 1
        /\ \A q \in 1..N : Append(D, e)[q] = D[q]
        /\ Append(D, e)[N + 1] = e
    BY <2>2, AppendProperties
  <2>5. \A q \in 1..(N + 1) : Append(D, e)[q] = DrawnIn(s2)[q]
    BY <1>1, <1>6, <2>4
  <2> QED BY <2>3, <2>4, <2>5, SeqEqual
<1> QED BY <1>2, <1>3, <1>8

\* The abstract state of lanes t and shared state s.
Shows(s, t) ==
    /\ Todo = [l \in Lanes |-> TodoIn(program, s, t, l)]
    /\ Left = {l \in Lanes : s.completed[l]}
    /\ Drawn = DrawnIn(s)

\* What the state variables show of the abstract state.
LEMMA Shown == Shows(shared, lane)
<1>1. \A l : Frontier(l) = FrontierIn(shared, lane, l)
  BY DEF Frontier, FrontierIn, Answered, AnsweredIn
<1>2. Todo = [l \in Lanes |-> TodoIn(program, shared, lane, l)]
  BY <1>1 DEF Todo, TodoIn
<1> QED BY <1>2 DEF Shows, Left, Drawn, DrawnIn

\* The place of the next request, by what characterises it.
LEMMA PlaceIs ==
    ASSUME NEW f, NEW n \in DOMAIN f, \A j \in DOMAIN f : n <= j, DOMAIN f \subseteq Nat
    PROVE  (CHOOSE i \in DOMAIN f : \A j \in DOMAIN f : i <= j) = n
<1>1. \A i \in DOMAIN f : (\A j \in DOMAIN f : i <= j) => i = n
  OBVIOUS
<1> QED BY <1>1

\* A release is the answer of the abstract draw: of the first requests of the
\* lanes it answers.
LEMMA ReleaseAnswers ==
    ASSUME program \in [Lanes -> Seq(Op)],
           NEW s \in SharedSet, NEW t \in [Lanes -> LaneSet], Good(program, s, t),
           NEW s2, NEW m, NEW w, NEW ls, Releases(s, s2, m, w, ls),
           Todo = [l \in Lanes |-> TodoIn(program, s, t, l)],
           Todo' = [l \in Lanes |-> TodoIn(program, s2, t, l)],
           Drawn = DrawnIn(s), Drawn' = DrawnIn(s2)
    PROVE  /\ \A l \in Lanes : s.arrived[l] =>
                 Lockstep!Asks(l) /\ Lockstep!First(l) = s.request[l]
           /\ Lockstep!Answer(ls, m, w)
<1>1. ASSUME NEW l \in Lanes, s.arrived[l]
      PROVE  /\ Lockstep!Asks(l) /\ Lockstep!First(l) = s.request[l]
             /\ \A z : ~z.arrived[l] => TodoIn(program, z, t, l) = Lockstep!Rest(l)
  <2>1. PICK f : f = TodoIn(program, s, t, l)
    OBVIOUS
  <2>2. PICK n : n = t[l].step
    OBVIOUS
  <2>3. Flow(program, s, t, l)
    BY DEF Good
  <2>4. /\ n \in DOMAIN f /\ (\A j \in DOMAIN f : n <= j) /\ DOMAIN f \subseteq Nat
        /\ f[n] = s.request[l]
        /\ \A z : ~z.arrived[l] => TodoIn(program, z, t, l) = [i \in DOMAIN f \ {n} |-> f[i]]
    <3>1. AsksFirst(program, s, t, l, f, n)
      BY <1>1, <2>1, <2>2, <2>3, TodoAnswered
    <3> QED BY <3>1 DEF AsksFirst
  <2>6. Todo[l] = f
    BY <2>1
  <2>7. Lockstep!Place(l) = n
    BY <2>4, <2>6, PlaceIs DEF Lockstep!Place
  <2>8. Lockstep!Asks(l)
    BY <2>4, <2>6 DEF Lockstep!Asks
  <2>9. Lockstep!First(l) = s.request[l]
    BY <2>4, <2>6, <2>7 DEF Lockstep!First
  <2>10. Lockstep!Rest(l) = [i \in DOMAIN f \ {n} |-> f[i]]
    BY <2>6, <2>7 DEF Lockstep!Rest
  <2> QED BY <2>4, <2>8, <2>9, <2>10
<1>2. /\ ls \in SUBSET Lanes /\ m \in ls /\ m \in Lanes /\ w \in Nat
      /\ \A l \in ls : s.arrived[l]
      /\ s2 = ReleaseLanes(s, m, w, ls)
  BY DEF Releases
<1>3. PICK r : r = Round(s.pending, s.request[m].kind, w, ls)
  OBVIOUS
<1>4. /\ r \in RoundSet /\ s2.transcript = Append(s.transcript, r)
      /\ \A l \in Lanes \ ls : Untouched(s, s2, l)
      /\ \A l \in ls : ~s2.arrived[l]
  BY <1>2, <1>3, ReleasedFields
<1>5. Drawn' = Append(Drawn, Lockstep!Draw(Lockstep!First(m).kind, w, ls))
  <2>1. r.kind = s.request[m].kind /\ r.width = w /\ r.lanes = ls
    BY <1>3 DEF Round
  <2>2. DrawnIn(s2) = Append(DrawnIn(s), [kind |-> r.kind, width |-> r.width, lanes |-> r.lanes])
    BY <1>4, DrawnAppended
  <2>3. Lockstep!First(m) = s.request[m]
    BY <1>1, <1>2
  <2> QED BY <2>1, <2>2, <2>3 DEF Lockstep!Draw
<1>6. \A l \in ls : TodoIn(program, s2, t, l) = Lockstep!Rest(l)
  BY <1>1, <1>2, <1>4
<1>7. ASSUME NEW l \in Lanes \ ls
      PROVE  TodoIn(program, s2, t, l) = Todo[l]
  <2>1. FrontierIn(s2, t, l) = FrontierIn(s, t, l)
    BY <1>4 DEF Untouched, FrontierIn, AnsweredIn
  <2>2. TodoIn(program, s2, t, l) = TodoIn(program, s, t, l)
    BY <2>1 DEF TodoIn
  <2> QED BY <2>2
<1>8. Todo' = [l \in Lanes |-> IF l \in ls THEN Lockstep!Rest(l) ELSE Todo[l]]
  BY <1>2, <1>6, <1>7
<1>9. Lockstep!Answer(ls, m, w)
  <2>1. Lockstep!Lanes = Lanes
    BY DEF Lanes, Lockstep!Lanes
  <2> QED BY <1>5, <1>8, <2>1 DEF Lockstep!Answer
<1> QED BY <1>1, <1>9

\* The same after a step.
LEMMA ShownNext ==
    ASSUME program' = program
    PROVE  /\ Todo' = [l \in Lanes |-> TodoIn(program, shared', lane', l)]
           /\ Left' = {l \in Lanes : shared'.completed[l]}
           /\ Drawn' = DrawnIn(shared')
<1>1. \A l : Frontier(l)' = FrontierIn(shared', lane', l)
  BY DEF Frontier, FrontierIn, Answered, AnsweredIn
<1>2. Todo' = [l \in Lanes |-> TodoIn(program, shared', lane', l)]
  BY <1>1 DEF Todo, TodoIn
<1> QED BY <1>2 DEF Left, Drawn, DrawnIn

\* A step that draws nothing, after which every lane has the same to ask.
LEMMA DrawsNothing ==
    ASSUME program' = program,
           \A l \in Lanes : TodoIn(program, shared', lane', l) = TodoIn(program, shared, lane, l),
           shared'.transcript = shared.transcript
    PROVE  Todo' = Todo /\ Drawn' = Drawn
<1>1. Drawn' = Drawn
  BY ShownNext, Shown DEF Shows, DrawnIn
<1>2. Todo' = Todo
  BY ShownNext, Shown DEF Shows
<1> QED BY <1>1, <1>2

\* The coordinator's draws come before the lanes and after them.
LEMMA CoordinatorRefines ==
    ASSUME SInv, PreStatement \/ Postproof \/ Finish
    PROVE  Lockstep!Next \/ UNCHANGED Lockstep!vars
<1>0. /\ shared \in SharedSet /\ Stage /\ UNCHANGED <<program, lane>>
      /\ {"relation", "postproof", "digest"} \subseteq Kinds
  BY DEF SInv, Types, PreStatement, Postproof, Finish, Kinds
<1>1. CASE shared' = shared
  BY <1>0, <1>1 DEF Lockstep!vars, Todo, Left, Drawn, Frontier, Answered
<1>2. CASE shared' # shared
  <2>1. PICK kind \in {"relation", "postproof", "digest"} :
           /\ \/ shared' = Absorb(shared, kind, 0, {})
              \/ shared' = [Absorb(shared, kind, 0, {}) EXCEPT !.relationDone = TRUE]
           /\ \/ main = "relation" /\ PreStatementBoundary(shared)
              \/ CommonBoundary(shared)
    BY <1>2 DEF PreStatement, Postproof, Finish
  <2>2. PICK s2 : s2 = shared'
    OBVIOUS
  <2>3. /\ s2.transcript = Append(shared.transcript, Round(shared.pending, kind, 0, {}))
        /\ \A l \in Lanes : Untouched(shared, s2, l)
    BY <1>0, <2>1, <2>2, AbsorbedFields
  <2>4. PICK r : r = Round(shared.pending, kind, 0, {})
    OBVIOUS
  <2>5. r \in RoundSet /\ r.kind = kind /\ r.width = 0 /\ r.lanes = {}
    <3>1. shared.pending \in Seq(Item) /\ kind \in Kinds
      BY <1>0, <2>1 DEF SharedSet
    <3> QED BY <2>4, <3>1 DEF Round, RoundSet
  <2>6. Drawn' = Append(Drawn, Lockstep!Draw(kind, 0, {}))
    <3>1. DrawnIn(s2) = Append(DrawnIn(shared), [kind |-> r.kind, width |-> r.width, lanes |-> r.lanes])
      BY <1>0, <2>3, <2>4, <2>5, DrawnAppended
    <3> QED BY <1>0, <2>2, <2>5, <3>1, Shown, ShownNext DEF Shows, Lockstep!Draw
  <2>7. Left' = Left
    BY <1>0, <2>2, <2>3, ShownNext, Shown DEF Shows, Untouched
  <2>8. Todo' = Todo
    <3>1. ASSUME NEW l \in Lanes
          PROVE  TodoIn(program, s2, lane, l) = TodoIn(program, shared, lane, l)
      BY <2>3 DEF TodoIn, FrontierIn, AnsweredIn, Untouched
    <3> QED BY <1>0, <2>2, <3>1, ShownNext, Shown DEF Shows
  <2>9. (Left = {} /\ Drawn = <<>>) \/ Left = Lanes
    <3>1. CASE main = "relation" /\ PreStatementBoundary(shared)
      <4>1. Left = {}
        BY <3>1 DEF Left, PreStatementBoundary
      <4>2. shared.transcript = <<>>
        BY <1>0, <3>1 DEF Stage
      <4>3. Drawn = <<>>
        BY <4>2 DEF Drawn
      <4> QED BY <4>1, <4>3
    <3>2. CASE CommonBoundary(shared)
      BY <3>2 DEF Left, CommonBoundary
    <3> QED BY <2>1, <3>1, <3>2
  <2>10. Lockstep!Coordinate
    <3>1. Lockstep!Lanes = Lanes
      BY DEF Lockstep!Lanes, Lanes
    <3> QED BY <2>1, <2>6, <2>7, <2>8, <2>9, <3>1 DEF Lockstep!Coordinate
  <2> QED BY <2>10 DEF Lockstep!Next
<1> QED BY <1>1, <1>2

\* The draws of a release, as steps of the abstract specification, except for
\* who leaves.
LEMMA ReadyDraws ==
    ASSUME program \in [Lanes -> Seq(Op)],
           NEW s \in SharedSet, NEW t \in [Lanes -> LaneSet], Good(program, s, t),
           NEW s2, ReleaseCase(s, s2),
           Todo = [l \in Lanes |-> TodoIn(program, s, t, l)],
           Todo' = [l \in Lanes |-> TodoIn(program, s2, t, l)],
           Drawn = DrawnIn(s), Drawn' = DrawnIn(s2)
    PROVE  \/ \E l \in Lanes : /\ s.arrived[l] /\ ~s.arrived[Other(l)]
                               /\ Lockstep!Asks(l)
                               /\ Lockstep!Answer({l}, l, Lockstep!First(l).width)
           \/ /\ \A l \in Lanes : s.arrived[l] /\ Lockstep!Asks(l)
              /\ Lockstep!First(1).kind = Lockstep!First(2).kind
              /\ Lockstep!Answer(Lanes, 1, Lockstep!Wider(Lockstep!First(1), Lockstep!First(2)))
           \/ /\ \A l \in Lanes : s.arrived[l] /\ Lockstep!Asks(l)
              /\ Lockstep!First(1).kind # Lockstep!First(2).kind
              /\ Lockstep!Answer({Longer}, Longer, Lockstep!First(Longer).width)
<1>1. CASE \E l \in Lanes : /\ s.arrived[l] /\ ~s.arrived[Other(l)]
                            /\ Releases(s, s2, l, s.request[l].width, {l})
  <2>1. PICK l \in Lanes : /\ s.arrived[l] /\ ~s.arrived[Other(l)]
                           /\ Releases(s, s2, l, s.request[l].width, {l})
    BY <1>1
  <2>2. /\ \A k \in Lanes : s.arrived[k] => Lockstep!Asks(k) /\ Lockstep!First(k) = s.request[k]
        /\ Lockstep!Answer({l}, l, s.request[l].width)
    BY <2>1, ReleaseAnswers
  <2>3. Lockstep!Asks(l) /\ Lockstep!Answer({l}, l, Lockstep!First(l).width)
    BY <2>1, <2>2
  <2> QED BY <2>1, <2>3
<1>2. CASE /\ s.arrived[1] /\ s.arrived[2] /\ s.request[1].kind = s.request[2].kind
           /\ Releases(s, s2, 1, Wider(s.request[1], s.request[2]), Lanes)
  <2>1. /\ \A k \in Lanes : s.arrived[k] => Lockstep!Asks(k) /\ Lockstep!First(k) = s.request[k]
        /\ Lockstep!Answer(Lanes, 1, Wider(s.request[1], s.request[2]))
    BY <1>2, ReleaseAnswers
  <2>2. \A l \in Lanes : s.arrived[l] /\ Lockstep!Asks(l)
    BY <1>2, <2>1, TwoLanes
  <2>3. Lockstep!First(1) = s.request[1] /\ Lockstep!First(2) = s.request[2]
    BY <1>2, <2>1, TwoLanes
  <2>4. Lockstep!Wider(s.request[1], s.request[2]) = Wider(s.request[1], s.request[2])
    BY DEF Lockstep!Wider, Wider
  <2> QED BY <1>2, <2>1, <2>2, <2>3, <2>4
<1>3. CASE /\ s.arrived[1] /\ s.arrived[2] /\ s.request[1].kind # s.request[2].kind
           /\ Releases(s, s2, Longer, s.request[Longer].width, {Longer})
  <2>1. /\ \A k \in Lanes : s.arrived[k] => Lockstep!Asks(k) /\ Lockstep!First(k) = s.request[k]
        /\ Lockstep!Answer({Longer}, Longer, s.request[Longer].width)
    BY <1>3, ReleaseAnswers
  <2>2. \A l \in Lanes : s.arrived[l] /\ Lockstep!Asks(l)
    BY <1>3, <2>1, TwoLanes
  <2>3. \A l \in Lanes : Lockstep!First(l) = s.request[l]
    BY <2>1, <2>2
  <2> QED BY <1>3, <2>1, <2>2, <2>3, TwoLanes, LongerAssumption
<1> QED BY <1>1, <1>2, <1>3 DEF ReleaseCase

\* A lane that is quiet has the same to ask.
LEMMA QuietTodo ==
    ASSUME NEW P, NEW s, NEW t, NEW s2, NEW t2, NEW l, Quiet(s, t, s2, t2, l)
    PROVE  TodoIn(P, s2, t2, l) = TodoIn(P, s, t, l)
BY DEF Quiet, TodoIn, FrontierIn

\* The lanes have the same to ask before and after a step.
SameTodo(P, s, t, s2, t2) == \A m \in Lanes : TodoIn(P, s2, t2, m) = TodoIn(P, s, t, m)

\* Asking for a challenge leaves what the lanes have to ask.
LEMMA AsksTodo ==
    ASSUME NEW P, NEW s, s \in SharedSet, NEW t, t \in [Lanes -> LaneSet],
           NEW l, l \in Lanes, NEW s2, NEW t2, Asks(P, s, t, s2, t2, l)
    PROVE  SameTodo(P, s, t, s2, t2)
<1> SUFFICES ASSUME NEW m \in Lanes
             PROVE  TodoIn(P, s2, t2, m) = TodoIn(P, s, t, m)
  BY DEF SameTodo
<1>1. /\ t2[l].pc = "wait" /\ t2[l].step = t[l].step /\ t[l].pc = "run"
      /\ m # l => t2[m] = t[m]
  BY DEF Asks, LaneSet
<1>2. s2.arrived[l] /\ (m # l => s2.arrived[m] = s.arrived[m])
  BY DEF Asks, Arrive, SharedSet
<1>3. FrontierIn(s2, t2, m) = FrontierIn(s, t, m)
  BY <1>1, <1>2 DEF FrontierIn, AnsweredIn
<1> QED BY <1>3 DEF TodoIn

\* Taking a challenge leaves what the lanes have to ask.
LEMMA TakesTodo ==
    ASSUME NEW P, NEW s, NEW t \in [Lanes -> LaneSet],
           NEW l \in Lanes, NEW t2, Takes(s, t, t2, l), NEW m \in Lanes
    PROVE  TodoIn(P, s, t2, m) = TodoIn(P, s, t, m)
<1>1. /\ t2[l].pc = "run" /\ t2[l].step = t[l].step + 1 /\ AnsweredIn(s, t, l)
      /\ m # l => t2[m] = t[m]
  BY DEF Takes, Given, LaneSet
<1>2. FrontierIn(s, t2, m) = FrontierIn(s, t, m)
  BY <1>1 DEF FrontierIn, AnsweredIn
<1> QED BY <1>2 DEF TodoIn

\* An observation is not among the requests.
LEMMA ObservesTodo ==
    ASSUME NEW P, P \in [Lanes -> Seq(Op)], NEW s, s \in SharedSet,
           NEW t, t \in [Lanes -> LaneSet], NEW l, l \in Lanes, Flow(P, s, t, l),
           NEW s2, NEW t2, Observes(P, s, t, s2, t2, l)
    PROVE  SameTodo(P, s, t, s2, t2)
<1> SUFFICES ASSUME NEW m \in Lanes
             PROVE  TodoIn(P, s2, t2, m) = TodoIn(P, s, t, m)
  BY DEF SameTodo
<1>1. /\ t2[l].pc = "run" /\ t2[l].step = t[l].step + 1 /\ t[l].pc = "run"
      /\ m # l => t2[m] = t[m]
      /\ s2.arrived = s.arrived
  BY DEF Observes, Given, LaneSet, SharedSet
<1>2. CASE m = l
  <2>1. /\ FrontierIn(s, t, l) = t[l].step /\ FrontierIn(s2, t2, l) = t[l].step + 1
        /\ t[l].step \in Nat /\ t[l].step \in 1..Len(P[l]) /\ ~IsRequest(P[l][t[l].step])
    BY <1>1 DEF FrontierIn, AnsweredIn, Observes, LaneSet, Flow
  <2> QED BY <1>2, <2>1, TodoKept
<1>3. CASE m # l
  <2>1. FrontierIn(s2, t2, m) = FrontierIn(s, t, m)
    BY <1>1, <1>3 DEF FrontierIn, AnsweredIn
  <2> QED BY <2>1 DEF TodoIn
<1> QED BY <1>2, <1>3

\* Asking draws what the abstract specification draws, or nothing.
LEMMA SharedChallengeRefines ==
    ASSUME SInv, NEW l \in Lanes, SharedChallenge(l)
    PROVE  Lockstep!Next \/ UNCHANGED Lockstep!vars
<1>0. /\ shared \in SharedSet /\ program \in [Lanes -> Seq(Op)] /\ lane \in [Lanes -> LaneSet]
      /\ Good(program, shared, lane)
  BY DEF SInv, Types
<1>1. PICK s, t : ChallengeParts(l, s, t)
  BY SharedChallengeIs
<1>2. PICK s2, t2 : s2 = shared' /\ t2 = lane'
  OBVIOUS
<1>3. /\ Asks(program, shared, lane, s, t, l)
      /\ s \in SharedSet /\ t \in [Lanes -> LaneSet] /\ Good(program, s, t)
      /\ s.arrived[l] /\ s.completed = shared.completed
      /\ s2 \in SharedSet
      /\ \/ (s.arrived[Other(l)] \/ s.completed[Other(l)]) /\ ReleaseCase(s, s2)
         \/ s2 = s
      /\ t2 = t \/ Takes(s2, t, t2, l)
      /\ program' = program
  BY <1>1, <1>2 DEF ChallengeParts
<1>4. \A m \in Lanes : TodoIn(program, s, t, m) = TodoIn(program, shared, lane, m)
  <2>1. SameTodo(program, shared, lane, s, t)
    BY <1>0, <1>3, AsksTodo
  <2> QED BY <2>1 DEF SameTodo
<1>5. \A m \in Lanes : TodoIn(program, s2, t2, m) = TodoIn(program, s2, t, m)
  BY <1>3, TakesTodo
<1>6. s.transcript = shared.transcript
  BY <1>0, <1>3 DEF Asks, Arrive, SharedSet
<1>7. /\ Todo = [m \in Lanes |-> TodoIn(program, s, t, m)]
      /\ Todo' = [m \in Lanes |-> TodoIn(program, s2, t, m)]
      /\ Drawn = DrawnIn(s) /\ Drawn' = DrawnIn(s2)
  <2>1. /\ Todo = [m \in Lanes |-> TodoIn(program, shared, lane, m)]
        /\ Drawn = DrawnIn(shared)
    BY Shown DEF Shows
  <2>2. /\ Todo' = [m \in Lanes |-> TodoIn(program, s2, t2, m)]
        /\ Drawn' = DrawnIn(s2)
    BY <1>2, <1>3, ShownNext
  <2>3. DrawnIn(s) = DrawnIn(shared)
    BY <1>6 DEF DrawnIn
  <2> QED BY <1>4, <1>5, <2>1, <2>2, <2>3
<1>8. CASE s2 = s
  <2>1. shared'.completed = shared.completed
    BY <1>2, <1>3, <1>8
  <2>2. Left' = Left
    BY <2>1 DEF Left
  <2> QED BY <1>7, <1>8, <2>2 DEF Lockstep!vars
<1>9. CASE (s.arrived[Other(l)] \/ s.completed[Other(l)]) /\ ReleaseCase(s, s2)
  <2>1. PICK m, w, ls : Releases(s, s2, m, w, ls)
    BY <1>9 DEF ReleaseCase
  <2>2. s2.completed = s.completed
    <3>1. m \in Lanes /\ w \in Nat /\ ls \in SUBSET Lanes /\ s2 = ReleaseLanes(s, m, w, ls)
      BY <2>1 DEF Releases
    <3> QED BY <1>3, <3>1, ReleasedFields
  <2>3. shared'.completed = shared.completed
    BY <1>2, <1>3, <2>2
  <2>4. Left' = Left
    BY <2>3 DEF Left
  <2>5. \A k \in Lanes : s.arrived[k] => k \notin Left
    <3>1. \A k \in Lanes : s.arrived[k] => ~s.completed[k]
      BY <1>3 DEF Good, Flow
    <3> QED BY <1>3, <3>1 DEF Left
  <2>6. Lockstep!Lanes = Lanes /\ Lockstep!Other(1) = 2 /\ Lockstep!Other(2) = 1
    BY DEF Lockstep!Lanes, Lanes, Lockstep!Other
  <2>7. ASSUME NEW k \in Lanes, s.arrived[k], ~s.arrived[Other(k)],
               Lockstep!Asks(k), Lockstep!Answer({k}, k, Lockstep!First(k).width)
        PROVE  Lockstep!Next
    <3>1. k = l
      BY <1>3, <2>7, TwoLanes
    <3>2. Other(l) \in Left
      <4>1. s.completed[Other(l)]
        BY <1>9, <2>7, <3>1
      <4> QED BY <1>3, <4>1, TwoLanes DEF Left
    <3>3. Lockstep!Tails(l) /\ Lockstep!Other(l) = Other(l)
      BY <1>3, <2>5, <2>6, <2>7, <3>1, TwoLanes DEF Lockstep!Tails
    <3> QED BY <2>4, <2>6, <3>2, <3>3 DEF Lockstep!Next
  <2>8. ASSUME \A k \in Lanes : s.arrived[k] /\ Lockstep!Asks(k)
        PROVE  Left = {}
    BY <2>5, <2>8 DEF Left
  <2>9. ASSUME \A k \in Lanes : s.arrived[k] /\ Lockstep!Asks(k),
               Lockstep!First(1).kind = Lockstep!First(2).kind,
               Lockstep!Answer(Lanes, 1, Lockstep!Wider(Lockstep!First(1), Lockstep!First(2)))
        PROVE  Lockstep!Next
    BY <2>4, <2>6, <2>8, <2>9 DEF Lockstep!Next, Lockstep!Together
  <2>10. ASSUME \A k \in Lanes : s.arrived[k] /\ Lockstep!Asks(k),
                Lockstep!First(1).kind # Lockstep!First(2).kind,
                Lockstep!Answer({Longer}, Longer, Lockstep!First(Longer).width)
         PROVE  Lockstep!Next
    BY <2>4, <2>6, <2>8, <2>10 DEF Lockstep!Next, Lockstep!LongerFirst
  <2> QED BY <1>0, <1>3, <1>7, <1>9, <2>7, <2>9, <2>10, ReadyDraws
<1> QED BY <1>3, <1>8, <1>9

\* A lane that ends leaves, and may release what the other one waits for.
LEMMA FinishLaneRefines ==
    ASSUME SInv, NEW l \in Lanes, FinishLane(l)
    PROVE  Lockstep!Next \/ UNCHANGED Lockstep!vars
<1>0. shared \in SharedSet /\ program \in [Lanes -> Seq(Op)]
  BY DEF SInv, Types
<1>1. PICK s, t : FinishParts(l, s, t)
  BY FinishLaneIs
<1>2. PICK s2 : s2 = shared'
  OBVIOUS
<1>3. /\ s \in SharedSet /\ t \in [Lanes -> LaneSet] /\ Good(program, s, t)
      /\ \A m \in Lanes : Quiet(shared, lane, s, t, m)
      /\ s.transcript = shared.transcript /\ s.arrived = shared.arrived
      /\ s.completed = [shared.completed EXCEPT ![l] = TRUE]
      /\ ~shared.completed[l] /\ ~shared.arrived[l]
      /\ s2 \in SharedSet
      /\ (s.arrived[Other(l)] /\ ReleaseCase(s, s2)) \/ s2 = s
      /\ lane' = t /\ program' = program
  BY <1>1, <1>2 DEF FinishParts
<1>4. /\ Todo = [m \in Lanes |-> TodoIn(program, s, t, m)]
      /\ Todo' = [m \in Lanes |-> TodoIn(program, s2, t, m)]
      /\ Drawn = DrawnIn(s) /\ Drawn' = DrawnIn(s2)
  <2>1. /\ Todo = [m \in Lanes |-> TodoIn(program, shared, lane, m)]
        /\ Drawn = DrawnIn(shared)
    BY Shown DEF Shows
  <2>2. /\ Todo' = [m \in Lanes |-> TodoIn(program, s2, t, m)]
        /\ Drawn' = DrawnIn(s2)
    BY <1>2, <1>3, ShownNext
  <2>3. \A m \in Lanes : TodoIn(program, s, t, m) = TodoIn(program, shared, lane, m)
    BY <1>3, QuietTodo
  <2>4. DrawnIn(s) = DrawnIn(shared)
    BY <1>3 DEF DrawnIn
  <2> QED BY <2>1, <2>2, <2>3, <2>4
<1>5. s2.completed = s.completed
  <2>1. CASE ReleaseCase(s, s2)
    <3>1. PICK m, w, ls : Releases(s, s2, m, w, ls)
      BY <2>1 DEF ReleaseCase
    <3>2. m \in Lanes /\ w \in Nat /\ ls \in SUBSET Lanes /\ s2 = ReleaseLanes(s, m, w, ls)
      BY <3>1 DEF Releases
    <3> QED BY <1>3, <3>2, ReleasedFields
  <2> QED BY <1>3, <2>1
<1>6. l \notin Left /\ Left' = Left \cup {l}
  <2>1. shared'.completed = [shared.completed EXCEPT ![l] = TRUE]
    BY <1>2, <1>3, <1>5
  <2>2. shared'.completed[l] /\ \A m \in Lanes : m # l => shared'.completed[m] = shared.completed[m]
    BY <1>0, <2>1 DEF SharedSet
  <2> QED BY <1>3, <2>2 DEF Left
<1>7. Lockstep!Lanes = Lanes /\ Lockstep!Other(l) = Other(l)
  BY DEF Lockstep!Lanes, Lanes, Lockstep!Other, Other
<1>8. CASE s2 = s
  <2>1. UNCHANGED <<Todo, Drawn>>
    BY <1>4, <1>8
  <2>2. Lockstep!Leave(l)
    BY <1>6, <2>1 DEF Lockstep!Leave
  <2> QED BY <1>7, <2>2 DEF Lockstep!Next
<1>9. CASE s.arrived[Other(l)] /\ ReleaseCase(s, s2)
  <2>1. ~s.arrived[l]
    BY <1>3
  <2>2. Lockstep!Asks(Other(l))
        /\ Lockstep!Answer({Other(l)}, Other(l), Lockstep!First(Other(l)).width)
    <3>1. PICK k \in Lanes : /\ s.arrived[k] /\ Lockstep!Asks(k)
                             /\ Lockstep!Answer({k}, k, Lockstep!First(k).width)
      BY <1>0, <1>3, <1>4, <1>9, <2>1, ReadyDraws
    <3>2. k = Other(l)
      BY <2>1, <3>1, TwoLanes
    <3> QED BY <3>1, <3>2
  <2>3. Other(l) \notin Left
    <3>1. ~s.completed[Other(l)] /\ Other(l) # l /\ Other(l) \in Lanes
      BY <1>3, <1>9, TwoLanes DEF Good, Flow
    <3>2. ~shared.completed[Other(l)]
      BY <1>0, <1>3, <3>1 DEF SharedSet
    <3> QED BY <3>2 DEF Left
  <2>4. Lockstep!Tails(Other(l))
    BY <2>2, <2>3 DEF Lockstep!Tails
  <2>5. Lockstep!Leave(l)
    BY <1>6, <1>7, <2>4 DEF Lockstep!Leave
  <2> QED BY <1>7, <2>5 DEF Lockstep!Next
<1> QED BY <1>3, <1>8, <1>9

\* All other steps draw nothing, and no lane leaves in them.
LEMMA OtherStepsRefine ==
    ASSUME SInv, NEW l \in Lanes,
           \/ CommitRoot(l) \/ ObservePublicPoints(l) \/ Join
           \/ ObserveValue(l) \/ Wake(l) \/ SpuriousWake(l) \/ LaneFailure(l)
    PROVE  UNCHANGED Lockstep!vars
<1>0. /\ shared \in SharedSet /\ program \in [Lanes -> Seq(Op)] /\ lane \in [Lanes -> LaneSet]
      /\ Good(program, shared, lane)
      /\ program' = program
  BY DEF SInv, Types, CommitRoot, ObservePublicPoints, Join, ObserveValue, Wake,
         SpuriousWake, LaneFailure, LaneError, LanePanic
<1>1. PICK s2, t2 : s2 = shared' /\ t2 = lane'
  OBVIOUS
<1>2. /\ s2.transcript = shared.transcript /\ s2.completed = shared.completed
      /\ s2.arrived = shared.arrived
  BY <1>0, <1>1 DEF SharedSet, CommitRoot, ObservePublicPoints, Join, ObserveValue, Wake,
         SpuriousWake, LaneFailure, LaneError, LanePanic
<1>3. ASSUME NEW m \in Lanes
      PROVE  TodoIn(program, s2, t2, m) = TodoIn(program, shared, lane, m)
  <2>1. CASE ObserveValue(l)
    <3>1. Observes(program, shared, lane, s2, t2, l)
      BY <1>1, <2>1 DEF Observes, ObserveValue, HasOp, Current
    <3>2. Flow(program, shared, lane, l)
      BY <1>0 DEF Good
    <3>3. SameTodo(program, shared, lane, s2, t2)
      BY <1>0, <3>1, <3>2, ObservesTodo
    <3> QED BY <3>3 DEF SameTodo
  <2>2. CASE Wake(l) /\ shared.generation[l] # lane[l].generation
    <3>1. AnsweredIn(shared, lane, l)
      BY <1>0, <2>2 DEF Wake, Good, Flow, AnsweredIn
    <3>2. Takes(shared, lane, t2, l) /\ s2 = shared
      BY <1>1, <2>2, <3>1 DEF Takes, Wake
    <3> QED BY <1>0, <3>2, TakesTodo
  <2>3. CASE \/ CommitRoot(l) \/ Join \/ SpuriousWake(l)
             \/ (Wake(l) /\ shared.generation[l] = lane[l].generation)
    <3>1. t2 = lane
      BY <1>1, <2>3 DEF CommitRoot, Join, SpuriousWake, Wake
    <3> QED BY <1>2, <3>1 DEF TodoIn, FrontierIn, AnsweredIn
  <2>4. CASE ObservePublicPoints(l)
    <3>1. lane[m].pc = "new"
      BY <2>4 DEF SInv, Stage, ObservePublicPoints
    <3>2. t2[m].step = lane[m].step /\ t2[m].pc \in {"new", "run"}
      <4>1. CASE l = 2
        <5>1. t2 = [k \in Lanes |-> [lane[k] EXCEPT !.pc = "run"]]
          BY <1>1, <2>4, <4>1 DEF ObservePublicPoints
        <5> QED BY <1>0, <5>1 DEF LaneSet
      <4>2. CASE l # 2
        BY <1>1, <2>4, <4>2, <3>1 DEF ObservePublicPoints
      <4> QED BY <4>1, <4>2
    <3> QED BY <3>1, <3>2 DEF TodoIn, FrontierIn, AnsweredIn
  <2>5. CASE LaneFailure(l)
    <3>1. PICK pc \in {"failing", "lost"} : t2 = [lane EXCEPT ![l] = [lane[l] EXCEPT !.pc = pc]]
      BY <1>1, <2>5 DEF LaneFailure, LaneError, LanePanic
    <3>2. lane[l].pc = "run"
      BY <2>5 DEF LaneFailure, LaneError, LanePanic
    <3>3. /\ t2[l].step = lane[l].step /\ t2[l].pc = pc
          /\ m # l => t2[m] = lane[m]
      BY <1>0, <3>1 DEF LaneSet
    <3> QED BY <1>2, <3>2, <3>3 DEF TodoIn, FrontierIn, AnsweredIn
  <2> QED BY <2>1, <2>2, <2>3, <2>4, <2>5
<1>4. Todo' = Todo /\ Drawn' = Drawn
  BY <1>0, <1>1, <1>2, <1>3, DrawsNothing
<1>5. Left' = Left
  BY <1>1, <1>2 DEF Left
<1> QED BY <1>4, <1>5 DEF Lockstep!vars

\* The challenger implements the abstract lockstep: which challenges are drawn,
\* for whom, and of what width follows from the programs and from who leaves,
\* never from how the threads of release_ready_challenges' callers run.
THEOREM ChallengerImplementsLockstep == Spec => ImplementsLockstep
<1>1. Init => Lockstep!Init
  <2> SUFFICES ASSUME Init PROVE Lockstep!Init
    OBVIOUS
  <2>1. \A l \in Lanes : ~shared.completed[l]
    BY DEF Init, NewShared
  <2>2. shared.transcript = <<>>
    BY DEF Init, NewShared
  <2>3. Left = {}
    BY <2>1 DEF Left
  <2>4. Drawn = <<>>
    BY <2>2 DEF Drawn
  <2> QED BY <2>3, <2>4 DEF Lockstep!Init
<1>2. SInv /\ [Next]_vars => [Lockstep!Next]_Lockstep!vars
  <2> SUFFICES ASSUME SInv, [Next]_vars
               PROVE  Lockstep!Next \/ UNCHANGED Lockstep!vars
    OBVIOUS
  <2>1. ASSUME NEW l \in Lanes,
               \/ CommitRoot(l) \/ ObservePublicPoints(l)
               \/ ObserveValue(l) \/ Wake(l) \/ SpuriousWake(l) \/ LaneFailure(l)
        PROVE  UNCHANGED Lockstep!vars
    BY <2>1, OtherStepsRefine
  <2>2. ASSUME Join PROVE UNCHANGED Lockstep!vars
    BY <2>2, OtherStepsRefine, TwoLanes
  <2>3. ASSUME PreStatement \/ Postproof \/ Finish
        PROVE  Lockstep!Next \/ UNCHANGED Lockstep!vars
    BY <2>3, CoordinatorRefines
  <2>4. ASSUME NEW l \in Lanes, SharedChallenge(l)
        PROVE  Lockstep!Next \/ UNCHANGED Lockstep!vars
    BY <2>4, SharedChallengeRefines
  <2>5. ASSUME NEW l \in Lanes, FinishLane(l)
        PROVE  Lockstep!Next \/ UNCHANGED Lockstep!vars
    BY <2>5, FinishLaneRefines
  <2>6. ASSUME UNCHANGED vars
        PROVE  UNCHANGED Lockstep!vars
    BY <2>6 DEF vars, Lockstep!vars, Todo, Left, Drawn, Frontier, Answered
  <2> QED BY <2>1, <2>2, <2>3, <2>4, <2>5, <2>6 DEF Next, MainStep, LaneStep
<1> QED BY <1>1, <1>2, SharedRoundInvariant, PTL DEF Spec, ImplementsLockstep, Lockstep!Spec

=============================================================================
