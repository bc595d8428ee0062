----------------------------- MODULE SharedRound ----------------------------
(***************************************************************************)
(* The C6.1 shared-round challenger: two prover (or verifier) threads, one *)
(* per oracle, share one transcript.  What a lane observes is collected in *)
(* one pending move; a challenge is drawn when both lanes ask for one, or  *)
(* when the lane that does not ask has finished, and the pending move is   *)
(* absorbed before it.  A lane waits for its challenge on a condition      *)
(* variable.  The main thread commits the roots, runs the relation between *)
(* them and the statements, starts the lanes, joins them and draws the     *)
(* scalar that batches what they return.                                   *)
(*                                                                         *)
(* A lane is its program: the moves it observes and the challenges it asks *)
(* for.  A value is the place in a program that observed it.  The          *)
(* transcript is a sequence of rounds, a move and the challenge drawn      *)
(* after it; a challenge is the number of its round and the number of its  *)
(* bits that are used.                                                     *)
(* A critical section of the state's mutex is one step.                    *)
(***************************************************************************)
EXTENDS Integers, Sequences

CONSTANTS
    Programs,     \* the pairs of lane programs
    Longer,       \* the lane of the larger dimension
    Failures      \* how a lane may fail: "error", "lost"

Lanes == 1..2
Other(l) == 3 - l

VARIABLES
    program,      \* the programs of this run
    shared,       \* SharedState: all that the mutex protects
    asleep,       \* the lanes in the wait set of the condition variable
    lane,         \* each lane's thread: where it is and what it was given
    main          \* the main thread

vars == <<program, shared, asleep, lane, main>>

Field == [kind |-> "field", width |-> 0]
Bits(w) == [kind |-> "bits", width |-> w]
Observe == [kind |-> "observe", width |-> 0]
NoRequest == [kind |-> "none", width |-> 0]

\* What an observation is given.
Nothing == <<0, 0>>

Op == [kind : {"observe", "field", "bits"}, width : Nat]

IsRequest(op) == op.kind \in {"field", "bits"}

ASSUME ProgramsAssumption == Programs \subseteq [Lanes -> Seq(Op)]

ASSUME LongerAssumption == Longer \in Lanes

\* The place in the transcript of what a lane's program observes before it:
\* its root is place 0.
Root == 0

-----------------------------------------------------------------------------
(* The state the mutex protects.                                           *)

NewShared ==
    [ rootSeen |-> [l \in Lanes |-> FALSE],
      bound |-> [l \in Lanes |-> FALSE],
      relationDone |-> FALSE,
      pending |-> <<>>,
      generation |-> [l \in Lanes |-> 0],
      arrived |-> [l \in Lanes |-> FALSE],
      completed |-> [l \in Lanes |-> FALSE],
      request |-> [l \in Lanes |-> NoRequest],
      response |-> [l \in Lanes |-> Nothing],
      transcript |-> <<>> ]

Round(items, kind, w, ls) == [items |-> items, kind |-> kind, width |-> w, lanes |-> ls]

\* A variant: the pending move stays behind the challenge.
AbsorbNothing(s, kind, w, ls) ==
    [s EXCEPT !.transcript = Append(@, Round(<<>>, kind, w, ls))]

\* The pending move is absorbed whole, an empty one is not absorbed, and then a
\* challenge of width w is drawn for the lanes ls.
Absorb(s, kind, w, ls) ==
    [s EXCEPT !.transcript = Append(@, Round(s.pending, kind, w, ls)),
              !.pending = <<>>]

\* release_lanes, with the draw before it: of the kind lane m asks for, of width
\* w, for the lanes ls, each of which is given its own number of bits of it.
ReleaseLanes(s, m, w, ls) ==
    [Absorb(s, s.request[m].kind, w, ls) EXCEPT
        !.response = [l \in Lanes |->
            IF l \in ls THEN <<Len(s.transcript) + 1, s.request[l].width>> ELSE @[l]],
        !.arrived = [l \in Lanes |-> @[l] /\ l \notin ls],
        !.request = [l \in Lanes |-> IF l \in ls THEN NoRequest ELSE @[l]],
        !.generation = [l \in Lanes |-> IF l \in ls THEN @[l] + 1 ELSE @[l]]]

ReleaseOneChallenge(s, l) == ReleaseLanes(s, l, s.request[l].width, {l})

Wider(r, q) == IF r.width >= q.width THEN r.width ELSE q.width

ReleaseReadyChallenges(s) ==
    IF s.request[2] = NoRequest THEN ReleaseOneChallenge(s, 1)
    ELSE IF s.request[1] = NoRequest THEN ReleaseOneChallenge(s, 2)
    ELSE IF s.request[1].kind = s.request[2].kind
    THEN ReleaseLanes(s, 1, Wider(s.request[1], s.request[2]), Lanes)
    ELSE ReleaseOneChallenge(s, Longer)

-----------------------------------------------------------------------------
(* The main thread.                                                        *)

\* The roots are committed one lane after the other, and observed.
CommitRoot(l) ==
    /\ main = "roots"
    /\ ~shared.rootSeen[l]
    /\ l = 1 \/ shared.rootSeen[1]
    /\ shared' = [shared EXCEPT !.rootSeen[l] = TRUE,
                                !.pending = Append(@, <<l, Root>>)]
    /\ main' = IF l = 2 THEN "relation" ELSE main
    /\ UNCHANGED <<program, asleep, lane>>

PreStatementBoundary(s) ==
    /\ s.rootSeen = [l \in Lanes |-> TRUE]
    /\ s.bound = [l \in Lanes |-> FALSE]
    /\ ~s.relationDone
    /\ s.arrived = [l \in Lanes |-> FALSE]
    /\ s.request = [l \in Lanes |-> NoRequest]
    /\ s.completed = [l \in Lanes |-> FALSE]
    /\ s.generation = [l \in Lanes |-> 0]

\* with_pre_statement_transcript: the relation draws on the transcript itself;
\* a relation that fails ends the run, its move absorbed.
PreStatement ==
    /\ main = "relation"
    /\ IF PreStatementBoundary(shared)
       THEN LET absorbed == Absorb(shared, "relation", 0, {})
            IN  \/ /\ shared' = [absorbed EXCEPT !.relationDone = TRUE]
                   /\ main' = "statements"
                \/ /\ "error" \in Failures
                   /\ shared' = absorbed
                   /\ main' = "failed"
       ELSE UNCHANGED shared /\ main' = "failed"
    /\ UNCHANGED <<program, asleep, lane>>

\* observe_public_points, one lane after the other; then the threads start.
ObservePublicPoints(l) ==
    /\ main = "statements"
    /\ l = 1 \/ shared.bound[1]
    /\ shared.rootSeen[l] /\ ~shared.bound[l]
    /\ shared' = [shared EXCEPT !.bound[l] = TRUE]
    /\ IF l = 2
       THEN main' = "lanes" /\ lane' = [k \in Lanes |-> [lane[k] EXCEPT !.pc = "run"]]
       ELSE UNCHANGED <<main, lane>>
    /\ UNCHANGED <<program, asleep>>

\* Both threads are joined; a lane that failed, or whose thread panicked, fails
\* the run.
Join ==
    /\ main = "lanes"
    /\ \A l \in Lanes : lane[l].pc \in {"done", "failed", "lost"}
    /\ main' = IF \A l \in Lanes : lane[l].pc = "done" THEN "postproof" ELSE "failed"
    /\ UNCHANGED <<program, shared, asleep, lane>>

CommonBoundary(s) ==
    /\ s.arrived = [l \in Lanes |-> FALSE]
    /\ s.request = [l \in Lanes |-> NoRequest]
    /\ s.bound = [l \in Lanes |-> TRUE]
    /\ s.completed = [l \in Lanes |-> TRUE]

\* sample_postproof_fp2.
Postproof ==
    /\ main = "postproof"
    /\ IF CommonBoundary(shared)
       THEN /\ shared' = Absorb(shared, "postproof", 0, {})
            /\ main' = "finish"
       ELSE UNCHANGED shared /\ main' = "failed"
    /\ UNCHANGED <<program, asleep, lane>>

\* finish: the payload's bytes that no lane observed, its framing at least, are
\* absorbed as a digest.
Finish ==
    /\ main = "finish"
    /\ IF CommonBoundary(shared)
       THEN /\ shared' = Absorb(shared, "digest", 0, {})
            /\ main' = "done"
       ELSE UNCHANGED shared /\ main' = "failed"
    /\ UNCHANGED <<program, asleep, lane>>

-----------------------------------------------------------------------------
(* A lane's thread.                                                        *)

\* The operation a running lane is at.
Current(l) == program[l][lane[l].step]
HasOp(l) == lane[l].pc = "run" /\ lane[l].step <= Len(program[l])

\* The lane goes on after its operation, with the response it reads.
Given(t, response) ==
    [t EXCEPT !.pc = "run", !.step = @ + 1, !.got = Append(@, response)]

ObserveValue(l) ==
    /\ HasOp(l)
    /\ ~IsRequest(Current(l))
    /\ shared' = [shared EXCEPT !.pending = Append(@, <<l, lane[l].step>>)]
    /\ lane' = [lane EXCEPT ![l] = Given(@, Nothing)]
    /\ UNCHANGED <<program, asleep, main>>

Arrive(s, l, r) == [s EXCEPT !.request[l] = r, !.arrived[l] = TRUE]

\* A variant: a challenge is released when one lane asks for it.
ReadyOnArrival(s, l) == s.arrived[l]

Ready(s, l) == s.arrived[Other(l)] \/ s.completed[Other(l)]

\* shared_challenge, up to its return or its wait.
SharedChallenge(l) ==
    /\ HasOp(l)
    /\ IsRequest(Current(l))
    /\ LET s == Arrive(shared, l, Current(l))
           released == IF Ready(s, l) THEN ReleaseReadyChallenges(s) ELSE s
           woken == IF Ready(s, l) THEN {} ELSE asleep     \* notify_all
           waiting == [lane[l] EXCEPT !.pc = "wait", !.generation = s.generation[l]]
       IN  /\ shared' = released
           /\ IF released.generation[l] # s.generation[l]
              THEN /\ lane' = [lane EXCEPT ![l] = Given(waiting, released.response[l])]
                   /\ asleep' = woken
              ELSE /\ lane' = [lane EXCEPT ![l] = waiting]
                   /\ asleep' = woken \cup {l}
    /\ UNCHANGED <<program, main>>

\* A variant: a woken lane takes the last response without comparing.
WakeUnchecked(l) ==
    /\ lane[l].pc = "wait" /\ l \notin asleep
    /\ lane' = [lane EXCEPT ![l] = Given(@, shared.response[l])]
    /\ UNCHANGED <<program, shared, asleep, main>>

\* The loop around the wait: a lane that was woken compares generations.
Wake(l) ==
    /\ lane[l].pc = "wait"
    /\ l \notin asleep
    /\ IF shared.generation[l] # lane[l].generation
       THEN /\ lane' = [lane EXCEPT ![l] = Given(@, shared.response[l])]
            /\ UNCHANGED asleep
       ELSE /\ asleep' = asleep \cup {l}
            /\ UNCHANGED lane
    /\ UNCHANGED <<program, shared, main>>

\* A condition variable may wake a lane nobody notified.
SpuriousWake(l) ==
    /\ l \in asleep
    /\ asleep' = asleep \ {l}
    /\ UNCHANGED <<program, shared, lane, main>>

\* A variant: a finished lane releases the other lane's tail but wakes nobody.
FinishLaneQuietly(l) ==
    /\ \/ lane[l].pc = "run" /\ lane[l].step > Len(program[l])
       \/ lane[l].pc = "failing"
    /\ LET s == [shared EXCEPT !.completed[l] = TRUE]
       IN  shared' = IF s.arrived[Other(l)] THEN ReleaseReadyChallenges(s) ELSE s
    /\ lane' = [lane EXCEPT ![l].pc = IF @ = "run" THEN "done" ELSE "failed"]
    /\ UNCHANGED <<program, asleep, main>>

\* finish_lane, after the lane's proof or its error.
FinishLane(l) ==
    /\ \/ lane[l].pc = "run" /\ lane[l].step > Len(program[l])
       \/ lane[l].pc = "failing"
    /\ IF shared.bound[l] /\ ~shared.completed[l] /\ ~shared.arrived[l]
       THEN /\ LET s == [shared EXCEPT !.completed[l] = TRUE]
               IN  IF s.arrived[Other(l)]
                   THEN shared' = ReleaseReadyChallenges(s) /\ asleep' = {}
                   ELSE shared' = s /\ UNCHANGED asleep
            /\ lane' = [lane EXCEPT ![l].pc = IF @ = "run" THEN "done" ELSE "failed"]
       ELSE /\ lane' = [lane EXCEPT ![l].pc = "failed"]
            /\ UNCHANGED <<shared, asleep>>
    /\ UNCHANGED <<program, main>>

\* A lane's proof, or its check, ends with an error between two operations;
\* the verifier also turns a panic into one.
LaneError(l) ==
    /\ "error" \in Failures
    /\ lane[l].pc = "run"
    /\ lane' = [lane EXCEPT ![l].pc = "failing"]
    /\ UNCHANGED <<program, shared, asleep, main>>

\* The provider's thread panics between two operations: nothing finishes the
\* lane.
LanePanic(l) ==
    /\ "lost" \in Failures
    /\ lane[l].pc = "run"
    /\ lane' = [lane EXCEPT ![l].pc = "lost"]
    /\ UNCHANGED <<program, shared, asleep, main>>

-----------------------------------------------------------------------------

Init ==
    /\ program \in Programs
    /\ shared = NewShared
    /\ asleep = {}
    /\ lane = [l \in Lanes |-> [pc |-> "new", step |-> 1, generation |-> 0, got |-> <<>>]]
    /\ main = "roots"

MainStep ==
    \/ \E l \in Lanes : CommitRoot(l) \/ ObservePublicPoints(l)
    \/ PreStatement
    \/ Join
    \/ Postproof
    \/ Finish

LaneStep(l) ==
    \/ ObserveValue(l)
    \/ SharedChallenge(l)
    \/ Wake(l)
    \/ FinishLane(l)

LaneFailure(l) == LaneError(l) \/ LanePanic(l)

Next ==
    \/ MainStep
    \/ \E l \in Lanes : LaneStep(l) \/ SpuriousWake(l) \/ LaneFailure(l)

\* The operating system runs every thread that can run, and hands a free mutex
\* to a thread that keeps asking for it.  Nobody has to fail or wake by itself.
Fairness == WF_vars(MainStep) /\ \A l \in Lanes : WF_vars(LaneStep(l))

Spec == Init /\ [][Next]_vars /\ Fairness

-----------------------------------------------------------------------------
(* Properties.                                                             *)

\* The moves of the transcript, by round, and the pending move after them.
Items(p) ==
    IF p <= Len(shared.transcript) THEN shared.transcript[p].items ELSE shared.pending

Rounds == 1..(Len(shared.transcript) + 1)

\* The places of round p that hold what lane l observed.
PlacesOf(l, p) == {k \in 1..Len(Items(p)) : Items(p)[k][1] = l}

\* The operation whose value is item k of round p.
OpAt(p, k) == Items(p)[k][2]

\* The places of a transcript, in order.
Before(p, k, q, m) == p < q \/ (p = q /\ k < m)

\* Lane l has observed its root, or the value of operation i.
Observed(l, i) ==
    \/ i = Root /\ shared.rootSeen[l]
    \/ i \in 1..(lane[l].step - 1) /\ ~IsRequest(program[l][i])

\* Lane l waits for a challenge that was drawn.
Answered(l) == lane[l].pc = "wait" /\ ~shared.arrived[l]

\* Operation j of lane l is a request, and its challenge was drawn: the lane
\* has it, or is about to read it.
HasAnswer(l, j) ==
    /\ j \in 1..Len(program[l])
    /\ IsRequest(program[l][j])
    /\ j < lane[l].step \/ (j = lane[l].step /\ Answered(l))

AnswerTo(l, j) == IF j < lane[l].step THEN lane[l].got[j] ELSE shared.response[l]

\* Soundness of the challenges: in the transcript every lane's root, its moves
\* and its challenges stand in the order of its program, once each, whatever
\* the other thread does meanwhile.  No challenge a lane is answered with
\* precedes a move the lane made before it asked, or follows one it made later.
LaneOrder ==
    \A l \in Lanes :
        /\ \A i \in 0..Len(program[l]) :
              Observed(l, i) => \E p \in Rounds : \E k \in PlacesOf(l, p) : OpAt(p, k) = i
        /\ \A p \in Rounds : \A k \in PlacesOf(l, p) :
              /\ Observed(l, OpAt(p, k))
              /\ \A q \in Rounds : \A m \in PlacesOf(l, q) :
                    OpAt(p, k) < OpAt(q, m) <=> Before(p, k, q, m)
              /\ \A j \in 1..Len(program[l]) :
                    HasAnswer(l, j) => (OpAt(p, k) < j <=> p <= AnswerTo(l, j)[1])

\* The draws that answer lane l, by round.
DrawsFor(l) == {q \in DOMAIN shared.transcript : l \in shared.transcript[q].lanes}

\* Every lane is given exactly the draws that answer it, once each and in their
\* order, as many bits of each as it asked for: a waiting thread that is woken
\* late, early or for the other lane's draw never takes an old response, skips
\* one or takes the other lane's.
ResponsesExact ==
    \A l \in Lanes :
        LET got == lane[l].got
            asked == {j \in 1..(lane[l].step - 1) : IsRequest(program[l][j])}
            taken == {got[j][1] : j \in asked}
        IN  /\ taken \subseteq DrawsFor(l)
            /\ \A q \in DrawsFor(l) \ taken :
                  /\ lane[l].pc = "wait"
                  /\ \A r \in DrawsFor(l) : r <= q
            /\ \A i, j \in asked : i < j => got[i][1] < got[j][1]
            /\ \A j \in asked :
                  LET draw == shared.transcript[got[j][1]]
                  IN  /\ draw.kind = program[l][j].kind
                      /\ got[j][2] = program[l][j].width
                      /\ draw.width >= program[l][j].width

\* Every run ends, with both lanes' proofs unless the relation or a lane
\* failed: no schedule, no spurious wakeup and no lane that gives up leaves the
\* other waiting for a challenge, or takes the coordinator to its boundary check
\* too early.  The one exception is a provider lane whose thread panics: nobody
\* finishes it, and the other lane may wait for it for ever.
LanesEnd ==
    \/ <>[](\/ main = "done"
            \/ /\ main = "failed"
               /\ shared.relationDone => \E l \in Lanes : lane[l].pc = "failed")
    \/ <>(\E l \in Lanes : lane[l].pc = "lost")

\* The place in its program from which lane l has no answer yet.
Frontier(l) == IF Answered(l) THEN lane[l].step + 1 ELSE lane[l].step

Todo ==
    [l \in Lanes |->
        [i \in {j \in DOMAIN program[l] : j >= Frontier(l) /\ IsRequest(program[l][j])} |->
            program[l][i]]]

Left == {l \in Lanes : shared.completed[l]}

Drawn ==
    [q \in DOMAIN shared.transcript |->
        [kind |-> shared.transcript[q].kind,
         width |-> shared.transcript[q].width,
         lanes |-> shared.transcript[q].lanes]]

\* The draws follow from the programs and from who gives up, never from the
\* schedule of the threads.
Lockstep == INSTANCE LockstepRounds WITH todo <- Todo, left <- Left, draws <- Drawn

\* The challenger implements the abstract lockstep.
ImplementsLockstep == Lockstep!Spec

=============================================================================
