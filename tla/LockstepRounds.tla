--------------------------- MODULE LockstepRounds ---------------------------
(***************************************************************************)
(* What the shared-round challenger promises, without threads, a mutex or  *)
(* a condition variable: which challenge requests the draws of the one     *)
(* transcript answer, in which order.  The draws follow from what the two  *)
(* lanes ask for and never from how their threads are scheduled:           *)
(*   - while both lanes ask for the same kind, one draw answers both;      *)
(*   - while they ask for different kinds, a draw answers the longer lane; *)
(*   - once a lane has left, draws answer the other one;                   *)
(*   - the coordinator draws first, and again once both lanes have left.   *)
(* A lane that fails leaves with requests of its own unanswered.           *)
(***************************************************************************)
EXTENDS Integers, Sequences

CONSTANTS Longer    \* the lane of the larger dimension

Lanes == 1..2
Other(l) == 3 - l

VARIABLES
    todo,     \* per lane, the requests not answered yet, by their place in its program
    left,     \* the lanes that have left
    draws     \* the draws so far

vars == <<todo, left, draws>>

Draw(kind, w, ls) == [kind |-> kind, width |-> w, lanes |-> ls]

Asks(l) == DOMAIN todo[l] # {}

\* The next request of lane l.
Place(l) == CHOOSE i \in DOMAIN todo[l] : \A j \in DOMAIN todo[l] : i <= j
First(l) == todo[l][Place(l)]
Rest(l) == [i \in DOMAIN todo[l] \ {Place(l)} |-> todo[l][i]]

Wider(r, q) == IF r.width >= q.width THEN r.width ELSE q.width

Init ==
    /\ left = {}
    /\ draws = <<>>

\* One draw, of the kind lane m asks for, answers the lanes ls.
Answer(ls, m, w) ==
    /\ draws' = Append(draws, Draw(First(m).kind, w, ls))
    /\ todo' = [l \in Lanes |-> IF l \in ls THEN Rest(l) ELSE todo[l]]

\* Both lanes ask for the same kind.
Together ==
    /\ left = {}
    /\ \A l \in Lanes : Asks(l)
    /\ First(1).kind = First(2).kind
    /\ Answer(Lanes, 1, Wider(First(1), First(2)))
    /\ UNCHANGED left

\* The lanes ask for different kinds.
LongerFirst ==
    /\ left = {}
    /\ \A l \in Lanes : Asks(l)
    /\ First(1).kind # First(2).kind
    /\ Answer({Longer}, Longer, First(Longer).width)
    /\ UNCHANGED left

\* The tail of the lane that is still there.
Tails(l) ==
    /\ l \notin left
    /\ Asks(l)
    /\ Answer({l}, l, First(l).width)

\* A lane leaves; a request the other lane waits with may be answered at once.
Leave(l) ==
    /\ l \notin left
    /\ left' = left \cup {l}
    /\ Tails(Other(l)) \/ UNCHANGED <<todo, draws>>

\* The relation before the lanes, the scalar and the digest after them.
Coordinate ==
    /\ (left = {} /\ draws = <<>>) \/ left = Lanes
    /\ \E kind \in {"relation", "postproof", "digest"} :
          draws' = Append(draws, Draw(kind, 0, {}))
    /\ UNCHANGED <<todo, left>>

Next ==
    \/ Together
    \/ LongerFirst
    \/ \E l \in Lanes : Leave(l) \/ (Other(l) \in left /\ Tails(l) /\ UNCHANGED left)
    \/ Coordinate

Spec == Init /\ [][Next]_vars

=============================================================================
