------------------------------ MODULE C6State -------------------------------
(***************************************************************************)
(* The C6 client's durable state as a value: attempts, certificates, cache *)
(* heads, and the three transitions the client may make: reserve an        *)
(* attempt, abort it, accept its certificate.                              *)
(*                                                                         *)
(* Source: rust/volta-proto/src/c6.rs.  The C6, C6.2 and C6.3 certificates *)
(* go through copies of the same code, and are one certificate here.       *)
(*                                                                         *)
(* A certificate is what identifies it: the attempt it answers and a body. *)
(* A cache head is the chain of certificates that produced it, so equal    *)
(* heads have equal epoch, accepted_certificate_digest and old_head_digest.*)
(***************************************************************************)
EXTENDS Integers, Sequences

CONSTANTS
    Coordinate,          \* the two MAC tapes
    Capacity,            \* C6_TERMINAL_ONE_RAW_CAPACITY
    MaxSlots,            \* slots of a session (the u32 slot counter's bound here)
    Entropy,             \* client entropies for nonces
    Counts,              \* raw correlation counts callers ask for
    Bodies               \* what certificates of one attempt can differ in

ASSUME C6Assumption ==
    /\ Capacity \in Nat
    /\ MaxSlots \in Nat
    /\ Counts \subseteq Nat

Genesis == <<>>

None == [none |-> TRUE]

-----------------------------------------------------------------------------
(* Correlation ranges *)

\* C6CorrelationRange::end, on one tape
RangeEnd(ranges, c) == ranges.start[c] + ranges.count

\* C6PairedCorrelationRanges::validate
RangesValid(ranges) ==
    /\ ranges.count > 0
    /\ \A c \in Coordinate : RangeEnd(ranges, c) <= Capacity

\* C6PairedCorrelationRanges::overlaps: on either tape
Overlaps(r, s) ==
    \E c \in Coordinate :
        /\ r.start[c] < RangeEnd(s, c)
        /\ s.start[c] < RangeEnd(r, c)

-----------------------------------------------------------------------------
(* Attempts, certificates, heads *)

\* The nonce hashes the slot, the head and the entropy.
Nonce(a) == [slot |-> a.slot, head |-> a.head, entropy |-> a.entropy]

\* The head a certificate installs.
NewHead(cert) ==
    Append(cert.attempt.head,
           [slot |-> cert.attempt.slot, entropy |-> cert.attempt.entropy,
            ranges |-> cert.attempt.ranges, body |-> cert.body])

-----------------------------------------------------------------------------
(* C6ClientState *)

GenesisState ==
    [head |-> Genesis, next_slot |-> 0,
     raw_high_water |-> [c \in Coordinate |-> 0], pending |-> None]

\* C6ClientState::validate, with C6ClientAttempt::validate_for
StateValid(s) ==
    /\ Len(s.head) <= s.next_slot
    /\ \A c \in Coordinate : s.raw_high_water[c] <= Capacity
    /\ s.pending # None =>
          /\ s.pending.slot + 1 = s.next_slot
          /\ s.pending.head = s.head
          /\ RangesValid(s.pending.ranges)
          /\ \A c \in Coordinate :
                RangeEnd(s.pending.ranges, c) = s.raw_high_water[c]

\* reserve_attempt's attempt: the next slot and the next raws of both tapes.
NextAttempt(s, entropy, n) ==
    [slot |-> s.next_slot, head |-> s.head, entropy |-> entropy,
     ranges |-> [start |-> s.raw_high_water, count |-> n]]

\* C6ClientState::reserve_attempt
CanReserve(s, n) ==
    /\ s.pending = None
    /\ n > 0
    /\ s.next_slot < MaxSlots
    /\ \A c \in Coordinate : s.raw_high_water[c] + n <= Capacity

Reserved(s, entropy, n) ==
    [s EXCEPT !.next_slot = @ + 1,
              !.raw_high_water = [c \in Coordinate |-> @[c] + n],
              !.pending = NextAttempt(s, entropy, n)]

\* C6ClientState::aborts_pending
Aborted(s) == [s EXCEPT !.pending = None]

\* C6ClientState::accepts: a certificate of the pending attempt, on the head.
CanAccept(s, cert) ==
    /\ s.pending # None
    /\ cert.attempt = s.pending
    /\ cert.attempt.head = s.head

Accepted(s, cert) == [s EXCEPT !.head = NewHead(cert), !.pending = None]

\* valid_client_state_transition
ValidTransition(s, t) ==
    /\ StateValid(s)
    /\ StateValid(t)
    /\ \/ /\ s.pending = None
          /\ t.pending # None
          /\ t.head = s.head
          /\ t.next_slot = s.next_slot + 1
          /\ \A c \in Coordinate :
                /\ t.pending.ranges.start[c] = s.raw_high_water[c]
                /\ RangeEnd(t.pending.ranges, c) = t.raw_high_water[c]
       \/ /\ s.pending # None
          /\ t.pending = None
          /\ t.next_slot = s.next_slot
          /\ t.raw_high_water = s.raw_high_water
          /\ \/ t.head = s.head
             \/ Len(t.head) = Len(s.head) + 1

=============================================================================
