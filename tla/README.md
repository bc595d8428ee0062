# A TLA+ development of volta-zk's stateful code

volta-zk proves, in zero knowledge, that a transformer answered a prompt. Most
of its code is finite-field algebra. What makes the algebra safe to *use* is a
much smaller body of stateful code: correlation rows (one-time pads for the MAC
scheme) must never be used twice, a model root must not be exposed more often
than its analysis allows, and both parties must agree on the chain of accepted
responses, whatever write fails, whatever process dies, whatever message is
repeated; a prover must never learn a challenge before the move it answers, and the
threads of one proof must agree on one transcript. That stateful code is what this development models. All paths below
are relative to `src/`.

## 1. Inventory

| Part | State it keeps | Operations | Talks to |
|---|---|---|---|
| **B12 lifetime store and pool** `rust/volta-pcg/src/c71_lifetime.rs` | a write-ahead journal per role (57-byte records, checksummed) under an OS file lock; in memory the replayed `State`, a poison flag, the pool's secret rows | `install`, `open` (replay), `append`, `begin_for`, `prover_for`/`verifier_for` (bootstrap), `Pool::attempt`, `fixed_run_context`, `remaining_fp3`, `stop`, drop | the bootstrap fills the pool; a consumer callback runs inside `attempt` |
| **Native fixed run** `rust/volta-pcs/src/c71_matrix/gemma/native/{pool,protocol,canonical_state}.rs` | per role a registry: `next_slot`, `cursor`, `accepted`, `live`; the prover's `pending` | `respond_with_pool`, `verify_with_pool`, `check_pool`, `check_burn`, `check_acceptance`, `promote`, `stop` | runs inside `Pool::attempt`; the prover's `verify` continuation crosses the transport to the verifier |
| **C6 client store** `rust/volta-proto/src/c6.rs` (l. 1137-1770) | one state file: accepted head, next slot, two high-water marks, a pending attempt; a `.c6-next` file | `initialize`, `open`, `reserve_attempt`, `abort_attempt`, `accept` (C6, C6.2, C6.3) | sends attempts and acknowledgements |
| **C6 provider slot store** same file (l. 1890-2520) | one append-only journal and one certificate file per slot; handles with a parsed copy | `open`, `reserve`, `open_slot` + `recover_orphan`, `start`, `abort`, `produce`, `retransmit`, `acknowledge` | receives attempts and acknowledgements, sends certificates |
| **C6 session driver** `rust/volta-bench/src/bin/c62_whir_fiat_shamir_record.rs` | none of its own | session and verify modes call the two stores | the only caller that shows the intended order |
| **PCG connection lifecycle** `rust/volta-pcg/src/production.rs` | a directory of burn markers; per connection an append-only journal that nothing locks; in memory Open/Active/Terminal, stage counters, the active response, frozen and verified claims, the settlement in flight | markers: `reserve`, `reserve_x4_response`, `reserve_x4d_settlement`; store: `new`, `create`; handle: `activate`, stage, base and discard calls, `begin_response`, `allocate`, frames, `finish_response`, freeze, seal, freshness, settle, close, abort, drop | X4 settles over it; a second opener of the same identity meets it in the journal |
| **C6.1 shared-round challenger** `rust/volta-pcs/src/c61_shared_round_challenger.rs`, threads in `c61_authenticated_whir_p3.rs` | behind a mutex: the transcript, one pending move, per lane `arrived`, `completed`, a request, a generation, the last response; a condition variable | `observe`, `sample`, `sample_bits` of a lane, `observe_public_points`, `finish_lane`; `with_pre_statement_transcript`, `sample_postproof_fp2`, `finish` of the coordinator | two lane threads and the main thread of a prover, and again of a verifier |
| **C6.1 interactive broker** `rust/volta-pcs/src/c61_interactive_driver.rs` | a broker thread: the verifier's seed, the challenges and mask events given so far, what a resumed journal holds; a C6ICJ1 journal file; a tape that waits for its mirror | challenge, mask frontier and finish requests; replay challenge and replay finish of a mirror; `create`, `open` | the provider (and, in a duplex attempt, a mirror) over one channel without a buffer |
| **C6.1 persisted MMCS** `rust/volta-pcs/src/c61_persisted_mmcs.rs` | spill files of one proof | persist, read back | called by the lane threads; its I/O errors are panics |
| **PCG bootstrap, phase B** `rust/volta-pcg/src/{c71_bootstrap,phase_b}.rs` | two-party OT extension | message rounds | produces the rows of a pool |
| **C7 phase A, policy 2** `rust/volta-pcs/src/{c7_phase_a,c7_policy2_reference}.rs` | genesis state, rebuild journal, transfer ledger | reference state machines | |
| **X4 deferred settlement** `rust/volta-pcs/src/x4/*_v4.rs` | pending settlements, persisted claims | seal, settle, rebuild | the connection store |
| **C6 blind round coordinator** `rust/volta-pcs/src/c6_blind_round_coordinator.rs` | round order of a blind transcript | | |
| **MAC correlations** `rust/volta-mac/src/corr.rs` | per side a ledger of drawn and reserved domains, a cursor per kind of row, counters, a running allocation digest, an optional schedule audit; on the prover's side two optional sidecars with the rows, corrections and tags of a response | draw subfield and full-field rows, reserve a batch and draw it in any order, finish, abort or drop it; enable, fill and close the sidecars; enter the post-source phase | takes the rows of a PCG pool; prover and verifier pair rows by order alone |
| **Transcript, traces** `rust/volta-mac/src/{transcript,c6_trace}.rs` | a hash state | absorb, challenge | |
| **Polynomial commitments, sumcheck, GKR** `rust/volta-pcs` | none that persists | algebra | |
| **Model kernels, field** `rust/volta-gpt2`, `rust/volta-field` | none | arithmetic | |
| **Accelerator bindings** `rust/volta-accel`, `cuda/` | stream state | FFI | |
| **Benchmarks, scripts, Lean, vendored Plonky3** | | | not program logic of this development |

What is hard here, and hard to test: a crash or a loss of power between two
writes; an I/O error after part of a record reached the file; a callback that
panics inside an attempt; two roles numbering rows independently; several
handles on one unlocked journal; two threads that wait for each other under a mutex
that each of them may get first; messages that arrive late, twice or out of
order; and recovery code that runs only after such an accident. `PROJECT.json`
lists them at their lines.

What makes each modelled part correct:

- *lifetime store*: rows and root slots are single-use for the life of the root;
  nothing a consumer saw can be forgotten; an acknowledged head is never rolled
  back; a fixed run that stopped stays stopped; what was written replays.
- *fixed run*: the two registries are one chain, at most one response apart; both
  roles hand out the same rows for the same slot; each registry stays behind its
  own journal.
- *connection*: an identity is opened once; every range of every stage is handed out
  once, durably journalled before its caller sees it, under an authorization that is
  burned for good; settlements cost what they announced and verify claims in order; a
  burned connection stops.
- *shared rounds*: in the one transcript each lane's moves and challenges stand in the
  lane's own order; a lane gets exactly the challenges drawn for it; which challenges are
  drawn does not depend on the schedule; every run ends.
- *broker*: a place of the challenge stream is answered for one move only, over all lives
  of an attempt; an attempt has one outcome.
- *correlations*: rows leave the pool as from a tape, each for one domain, whatever batch is
  refused, aborted or drawn out of order and whatever draw panics; a batch can draw what it
  reserved; what a response commits to is exactly what was drawn for it.
- *C6 stores*: no correlation range is read for two attempts; no head has two
  live children and none is accepted twice; the certificate under the client's
  head stays available; `Accepted` means the client accepted.

## 2. Modules

| Module | Models | Uses |
|---|---|---|
| `LifetimeRecords` | `State`, the record kinds, and `State::apply` as a guard (`Valid`) and a result (`Apply`); the records `attempt` and `begin_for` write | |
| `Lifetime` | the store of one role: file, handle, pool, environment | EXTENDS `LifetimeRecords` |
| `LifetimeProofs` | its theorems: single use and durability; the history properties | EXTENDS `Lifetime` |
| `SumTheorems` | what the proofs need of sums over finite sets | |
| `AgreedRun` | what a fixed run promises | |
| `FixedRun` | prover and verifier over two lifetime stores and a transport | INSTANCE `LifetimeRecords`, INSTANCE `AgreedRun` (refinement) |
| `FixedRunProofs` | its theorems, the refinement included | EXTENDS `FixedRun` |
| `C6State` | the client state's transitions, attempts, certificates, as pure operators | |
| `C6ClientStore` | the state file and its atomic replacement | EXTENDS `C6State` |
| `C6SlotStore` | slot journals, certificate files, handles | EXTENDS `C6State` |
| `C6Exchange` | both stores, three message sets, failures | EXTENDS the two stores |
| `C6Proofs` | the theorems of the exchange | EXTENDS `C6Exchange` |
| `ResponseAuthorization` | the burn markers | |
| `ConnectionJournal` | one journal file as a value: append, torn tails, the search for a terminal record, loss of power | |
| `ConnectionHandle` | opening, `ensure_live`, burning, `append_or_burn` | EXTENDS the two above |
| `Connection` | the methods of a handle, the specification, the properties | EXTENDS `ConnectionHandle` |
| `ConnectionProofs` | its theorems: single use and write-ahead; the accounts | EXTENDS `Connection`, `SumTheorems` |
| `LockstepRounds` | what the shared-round challenger promises | |
| `SharedRound` | challenger, coordinator, lane threads, main thread | INSTANCE `LockstepRounds` (refinement) |
| `SharedRoundProofs` | its theorems, the refinement included | EXTENDS `SharedRound` |
| `SharedRoundViews` | an honest prover and an honest verifier of one proof | INSTANCE `SharedRound` twice |
| `BrokerJournal` | the C6ICJ1 file as a value: records, what `parse` admits, append, loss of power | |
| `InteractiveBroker` | `broker_loop` with its journal, over several lives of an attempt | EXTENDS `BrokerJournal` |
| `BrokerProofs` | its theorems | EXTENDS `InteractiveBroker` |
| `CorrelationTape` | what a correlation stream promises | |
| `CorrelationStream` | ledger, cursors, batches and audit of one side | INSTANCE `CorrelationTape` (refinement) |
| `SourceWitness` | the prover's sidecars, the specification | EXTENDS `CorrelationStream` |
| `CorrelationProofs` | its theorems, the refinement included | EXTENDS `SourceWitness`, `SumTheorems` |
| `MCLifetime`, `MCFixedRun`, `MCC6Exchange`, `MCConnection`, `MCSharedRound`, `MCSharedRoundViews`, `MCInteractiveBroker`, `MCCorrelations` | small instances for TLC | |

Operators whose comment starts with "A variant" are deliberate mistakes; each
stands before the definition it changes and no specification uses it. They are
the mutants that show that a property can fail (`PROJECT.json`, "mutants").

In all modules a call that is refused without changing anything is a stuttering
step and has no action, unless refusal has an effect (a poisoned handle, a
stopped pool).

### Lifetime

`file`, `journal`, `torn`, `synced` are the disk; `phase`, `cursor`, `state`,
`poisoned`, `secret`, `before` the process; `exposed` and `acks` are history. Every
entry of `journal` carries the state a replay reaches after it, so that the
module needs no recursion. `Install`/`InstallFails`, `OpenHeader`, `ReplayRecord`
(one record of the loop in `open`), `OpenDone`/`OpenFails`, `BeginFor`,
`BootstrapDone`/`BootstrapFails`, `AttemptBurn`, `ConsumerDeclines`,
`AcceptDigest`, `Stop`, `DropPool`, `Close` and `PowerLoss` are the actions; the
`...Refused` actions are the early returns that poison. `attempt` is split where
the consumer runs, because a crash there is the interesting one.

An append ends in one of the members of `Outcome`: done; nothing written;
a torn record; a whole record that was written but whose sync failed. A loss of
power keeps the synced prefix and any part of what follows. Two assumptions on
the file system: `open`'s `sync_all` makes the file's directory entry durable, and a
synced record is never lost. The OS lock is taken to exclude a second handle.

### FixedRun and AgreedRun

Each role has the lifetime state in memory (`store`), the state its journal
replays to (`durable`), its registry and a program counter. `respond_with_pool`
is split at the burn (`Respond`), the end of the proof (`Prove`) and the return of
the continuation (`ProverAccepts`); `verify_with_pool` at the burn (`Verify`), the
registry's advance (`VerifyAdvances`) and the acceptance (`VerifierAccepts`). Every
`...Fails`/`VerifyRejects` action is the error path there: stop pool and role.
A crash has no action of its own: a fixed run cannot be reopened (that is
`FixedRunNeverResumes` of `Lifetime`), so it leaves what an error leaves.

A receipt (the digest of the transcript, whose header binds the whole accepted
history) is the sequence of roots it closes: two receipts are equal exactly when
header and root are, which is what collision resistance gives. `verify_schedule`
accepts a certificate iff it was made under the verifier's own header. Sessions,
epochs, tokens and nonces are the same for both roles of one run and are left out.

`AgreedRun` is the promise: one chain of at most ROOT_SLOTS distinct roots, which
the verifier extends only when the prover has confirmed all of it. The mapping
takes the verifier's registry for `chain` and the prover's for `confirmed`.

### C6State, C6ClientStore, C6SlotStore, C6Exchange

The client file is a sequence of `versions`: the last one is what `load` returns,
the earlier ones are what a loss of power can bring back because the directory
was not synced since. A slot journal keeps its readable log, how much of it is
synced, whether its directory entry is, and whether unreadable bytes follow. A
record appended through a handle whose copy is stale breaks the checksum chain,
so the journal becomes unreadable, exactly as a torn record does
(`append_transition` writes first and reads back afterwards). `produce` is split
between the certificate file and the journal record.

A certificate is its attempt and a body; the C6, C6.2 and C6.3 formats go through
the same transitions and are one certificate here. A nonce is the tuple it is
hashed from. The client is a single writer, as the design document requires, so
the compare-and-swap in `accept` is not modelled. `initialize` is the initial
state.

Messages are never removed from `requests`, `certificates` and `acks`: they may
be lost, delayed, repeated and reordered.

### ResponseAuthorization, ConnectionJournal, ConnectionHandle, Connection

A marker is `none`, `volatile` (created, its directory entry not synced) or `durable`; a
reservation is the sequence of keys it burns, so that the plain, the X4 and the X4d
reservation are one action with an all-or-prefix outcome. `used` counts successes.

A journal is its records, how many are synced, whether the directory entry is, and
whether the file ends in the middle of a record. `journal_contains_terminal` looks for
`"\nTERMINAL|"` in a file that starts with the magic: a record written behind a torn one
is `glued` and missed; a piece of a TERMINAL record may already be found; the newline of
`burn_existing_journal` is what makes its record visible behind a torn tail.

Every method first runs `ensure_live` and acts later. These are two steps, `EnsureLive`
(sets `checked`) and the method's own action, because a second opener in another
process may run `create` in between (`CreateRejected`). A method's conditions are its
guard. All inadmissible calls have the same effect, the burn of `fail`, and some call is
always inadmissible, so they are one action, `Refuse`. `Commit` is `append_or_burn`: what the
method changed before the append and what it changes after are separate arguments,
because a failing append burns the former. `AbortConnection` stands for `abort`, `close`,
`malicious_check_failed`, `unexpected_eof`, an expired TTL and an unreadable journal, which
differ only in the recorded reason. `Kill` is a death without `Drop`; a death between two
writes of one call is a write that fails with nothing written, followed by `Kill`.

Left out: the ledger digests (hash chains that the code writes and never reads back),
base inputs of a stage registered directly (only reported), overflow of 64-bit counters
(returned as an error before any change). The accumulator digests of X4d seals are
compared with caller-supplied values; a mismatch is `Refuse`. `finish_x4d_response_pending` is
`FinishResponse` with one more condition.

### SharedRound, LockstepRounds, SharedRoundViews

`shared` is `SharedState`, with the transcript as a sequence of rounds, each the move absorbed
(perhaps an empty one, which the code does not absorb) and the challenge drawn after it;
`Absorb` is `flush_pending` with that draw, since every caller of `flush_pending` draws, or
runs the relation or absorbs a digest, next. `asleep` is the wait set of the condition variable; `lane` and `main`
are the threads. A lane is its program: what it observes and asks for, in order
(`MCSharedRound` takes every pair of programs of at most two operations, and three pairs in which
the longer lane has rounds of its own between and after the common ones). The values are
abstracted to the place that observed them and to the number of the round, which is all
that the order properties tell apart; `got` of a lane holds what each of its operations
was given, `Nothing` for an observation. A critical section of the mutex is one step;
`shared_challenge` is two, `SharedChallenge` up to its return or its wait, and `Wake`, one round
of the loop around the wait. `SpuriousWake` is what a condition variable may do.
`LaneError` is a lane whose proof or check ends with an error between two calls: it then
runs `finish_lane`. `LanePanic` is a provider lane that panics: its closure has no
`catch_unwind`, so it does not. Assertions of the code that a program of
`Programs` cannot break (a width over 32 bits, equal dimensions with different kinds)
are left out; the others (a challenge asked for by a lane that is bound, has not
completed and has no request of its own) hold by `Flow` of section 4.

`LockstepRounds` is the promise: which requests each draw answers follows from what
the lanes ask for and who leaves. The mapping (`Todo`, `Left`, `Drawn`) takes the requests of
each program that have no answer yet (a lane that was answered but has not woken has
one), the completed lanes and the draws without their moves.

`SharedRoundViews` runs one instance after the other, as a verifier that replays a recorded
tape does; it has no properties of its own but the finding's (section 5).

### BrokerJournal, InteractiveBroker

A challenge's value is a function of the verifier's seed and the kinds drawn before it,
never of the moves (an honest verifier's transcript with its own entropy): so a record is
its move and its kind, and the danger is that a provider is answered twice for one place.
`file` is the journal (records, synced prefix, a torn tail, the state of its directory
entry); every entry carries what `parse` knows after it, the challenges, the mask events and
the seal, so that resuming from a prefix needs no recursion; `broker` is the thread;
`answered` has the sequences of challenges any life gave away, `tapes` the outcomes. A fresh answer is three steps, `AppendWrite`, `AppendSync` and `Reply`, so that
a death may fall between them. A request that the broker refuses ends it (`Ends`), as the
early returns of `broker_loop` do. The provider is not modelled: every life may
send any moves, kinds, frontiers and artifacts. `census` is whether the semantic byte counts add up. The
channel has no buffer, so the requests of provider and mirror are handled one at
a time, in any order.

`FaultModes` are sets of faults, one of which a behaviour has from its start: with process
deaths (and failing syncs) but no loss of power, or with losses of power at any point but no
process that dies with the machine still up. Both together are discussed in section 5.

### CorrelationTape, CorrelationStream, SourceWitness

A row is its place in the pool; `alloc` is what the allocation digest hashes, kept per kind of
row, and so are the draws of the audit: the order between kinds enters the digests only. The ledger
is `consumed` and `reserved`, with `Absent` for a missing entry; `batch` is the reservation
that borrows the stream, so nothing else runs while it is active. Checks that fail before
anything changes are guards. `draw_fulls_with_role` opens the domain and counts it *before*
the pool is asked and panics afterwards (`OpenFull`); so does the sidecar's recorder when a
draw is empty (`CollectedFull`). Callers can catch these panics (tests do), so the model goes on
with the state they leave. `EndBatch` is `abort`, `Drop` and `finish`.

Every operation of the prover's stream is an action. The verifier's context mirrors the
ones of `CorrelationStream`, check by check, and has no sidecars: its behaviours are those
in which none is enabled. Replays of rows already drawn change nothing and have no action.
Corrections and tags are abstracted to whether they were recorded.

`CorrelationTape` is the promise: a draw takes the next rows of its kind for domains that own
none. It is why two sides that make the same draws hold the two halves of the same rows. The
mapping reads the tape off `alloc` up to `cursor`.

## 3. Runs

| Run | Bounds | Shows |
|---|---|---|
| `lifetime` | 3 root slots (as in the code), 3 setups, 2 digests, pools of 3 and 6 rows, attempts of 0, 1, 2 packed elements, every I/O fault, exit, loss of power at every point | the ten properties of the store |
| `fixed_run` | the three slots of the code, 3 roots, different requirements per slot | agreement of the two roles and the refinement of `AgreedRun` |
| `c6_exchange` | 2 slots, 2 handles, 2 certificate bodies, torn appends, process crashes | consistency of the two stores, with concurrent handles on unlocked journals |
| `c6_power_loss` | torn writes and loss of power of either machine | exposure and acceptance survive rollback |
| `connection_stages` | 3 stages of 3 outputs, requests of 1 and 2, 8 records, appends that fail, a second opener, process death | single use over the two ends of a stage, refills, discards; counters agree with the journal |
| `connection_settlement` | 1 stage, claims one at a time, 2 settlements, prices 0 and 1, a frame | accounts, order of verification, graceful close |
| `connection_faults` | 3 overlapping authorizations, failing marker I/O, every append fault for handle and second opener, a loss of power | authorizations and identities are used once; write-ahead and burn under failure |
| `shared_round` | 441 pairs of lane programs of up to 2 operations and 3 of up to 5, failing and panicking lanes, any number of spurious wakeups | order, delivery and schedule-independence of the challenges; every run ends |
| `broker` | 2 moves, 2 kinds, 2 artifacts, 3 challenges, 3 lives, 1 mask event, durable and duplex attempts; process deaths or losses of power | no rewinding, write-ahead, one outcome |
| `shared_round_views` | 1 pair of programs | violation, section 5 |
| `correlations` | 2 domains per kind, pools of 3 rows per kind, draws of 0, 1, 2 rows, batches of 1 or 2 ranges of 1 or 2 domains, both sidecars | refinement of the tape, batches, sealed sidecars |
| `c6_abort_wedges` | 1 handle, the two stores | violation, section 5 |

Why the bounds are enough to be interesting. `lifetime`: three setups and three
attempts allow an attempt, an accident, a reopening and a renewed setup in any
order; two digests distinguish an old head from a new one; a request of 4 rows is
not a multiple of three and one of 9 exceeds MAX_ROWS for a store that renews, so
both guards are exercised. ROOT_SLOTS is the code's own constant; LIMIT is lowered
from 2^20 so that it is reached. `fixed_run`: the whole run is covered,
not a prefix. C6: two slots are an attempt and its retry or its successor, which
is where reuse and forking can happen; the tapes hold exactly two ranges, so the
capacity guard is reached as well. Splitting handles, faults and power loss into
runs keeps each at about two minutes or less; two handles are checked with torn appends only,
not with failed syncs or loss of power. Connections: 8 records let a stage be registered, reserved from and
refilled from twice, 11 records two whole settlements of one response; MaxLog,
MaxTerminals, MaxEpoch, MaxFrames and Losses bound what would otherwise grow without
limit. All connection runs have one connection: what two of them share, the marker store,
is contended for by its handle and by phase B setups (`ExpandPhaseB`). Faults and the longer sequences are in separate runs for the same reason as above. Correlations: with two
domains a batch has a first and a second place in either order, and one can be drawn before,
in and after a batch; three rows are too few for two draws of two, so that the pool runs out in the
middle of a run, between two draws of one caller, and before a batch.

The properties are commented where they are defined. In short:

- `RowsExposedOnce`, `RangesExposedOnce`: single use of correlations.
- `ExposureBound`: the root is exposed at most ROOT_SLOTS times, crashes included.
- `BurnDurable`, `NoRollback`, `RegistryInStep`, `ProverBurnedFirst`: who is ahead
  of whom, between memory, disk and the other role.
- `FixedRunChain`, `FixedRunNeverResumes`, `PrefixAgreement`, `ImplementsAgreedRun`: the
  fixed run.
- `ReplayAccepts`, `JournalAppendOnly`: the journal is one that `open` can read.
- `RemainingRowsSecret`: advertised capacity is what is left and secret.
- `RangesDisjoint`, `ExposureJournaled`, `AuthorizedExposure`, `FreshnessOnce`: single use
  of correlations, authorizations and identities of connections.
- `LedgerAgrees`, `AccountsExact`, `ClaimsVerifiedInOrder`: what a
  handle believes and reports is what its journal adds up to.
- `BurnStops`: a connection another opener burned starts no further call.
- `OneLiveChild`, `NoFork`, `HeadStored`, `AcceptedByClient`: the C6 exchange.
- `LaneOrder`, `ResponsesExact`, `ImplementsLockstep`, `LanesEnd`: the shared rounds.
- `OneMovePerChallenge`, `ReleasedJournaled`, `SealedOnce`: the broker.
- `ImplementsTape`, `ReservationsLive`, `SidecarAccounts`: the correlation streams.

Symmetry is used where model values are interchangeable (nonzero digests;
handles and bodies; stages); no run with symmetry checks liveness. The C6, connection and
correlation runs do not check deadlock: a session that has used its two slots, a
connection that is burned, or a stream whose domains are drawn, is over.

Liveness is stated where threads wait for each other. `LanesEnd` (`shared_round`) assumes
weak fairness of the main thread and of each lane's thread: the operating system runs
every thread that is runnable, and a thread that keeps asking for a mutex gets it between
the short critical sections of the others. It assumes nothing of failures, panics or
spurious wakeups. The other components have no scheduler and retry nothing by
themselves; after an error they deliberately stop, and what happens next is up to a
caller outside the code. The one thing the documents promise about going on, that an
abort keeps the remaining credit usable, is stated as the invariant `CreditUsable`.

## 4. Proofs

TLAPS checks the theorems below for every value of the constants; TLC evaluates the named
assumptions on every run that uses the module. A theorem `XAlways` states the property `X` of
a run. None of the properties is inductive by itself; what follows names the invariant that
is and says why it is needed.

**Lifetime** (`LifetimeProofs`; any digests, LIMIT, ROOT_SLOTS, row limits and
request sizes: `ConstantsAssumption`, `InputsAssumption`). `TypeCorrect`, `RowsExposedOnceAlways`,
`ExposureBoundAlways`, `BurnDurableAlways`, `ReplayAcceptsAlways`; `JournalAppendOnlyAlways`,
`NoRollbackAlways`, `FixedRunChainAlways`, `RemainingRowsSecretAlways`, `FixedRunNeverResumesAlways`: all ten
properties of the run. `IInv` adds

- `JournalOK`: each entry's state is what `Apply` makes of the entry before, and each
  record is `Valid` there, so `setups`, `attempts` and `used` grow along the journal;
- `FileOK`: a journal with records has a synced header;
- `HandleOK`: in each phase, what memory says about the journal: a handle
  that is not poisoned and not replaying holds the state the last entry
  carries, up to `pending`; a replaying one that of the entry at its cursor;
- `ExposedOK`: each exposure is bounded by the counters the *synced* part of the
  journal carries, so no reopened handle can hand it out again.

An exposure is appended only by `AttemptBurn` with a synced burn record; every handle state
from then on, also after a loss of power, has replayed that record; hence the next burn
starts at or behind its end, with a larger ordinal. `HInv` adds the history: which acceptances
were reported and that the synced journal carries each, which exposures a fixed run made
before it stopped, and what the pool still holds.

**FixedRun** (`FixedRunProofs`; any number of root slots and roots: `RunAssumption`). `RunTypeCorrect`,
`ProverBurnedFirstAlways`, `PrefixAgreementAlways`, `RegistryInStepAlways`, `RunImplementsAgreedRun`. The inductive
invariant says, for each pair of program counters, how far the two registries, the two
stores and the two journals are apart, and that a receipt in flight closes the chain of
the verifier. For the refinement the initial states map to the empty run; `VerifyAdvances` maps to
an extension of the chain, `ProverAccepts` to a confirmation, every other step to a stutter.

**C6 exchange** (`C6Proofs`; any number of slots, handles and bodies). `ExchangeInvariant`, and from it
`RangesExposedOnceAlways`, `OneLiveChildAlways`, `HeadStoredAlways`, `AcceptedByClientAlways`, `NoForkAlways`. They
have one hypothesis on the constants, `SyncedOrKept`: a provider that may lose power does not go
on with files whose sync failed. Without it `RangesExposedOnce` is false (section 5). The
invariant relates every version of the client's file that can come back, every record of
every slot journal, every copy a handle holds and every message in flight: the high-water marks of
a version bound the ranges of the attempts made from it, and a slot's log extends every
copy of it.

**Connection** (`ConnectionProofs`; any stages, quotas, prices and authorizations: `ConnAssumption`,
`FaultsAssumption`, `MarkersFailAssumption`). `ConnectionInvariant`, and from it `RangesDisjointAlways`,
`ExposureJournaledAlways`, `FreshnessOnceAlways`, `AuthorizedExposureAlways`, `BurnStopsAlways`. Of a
stage the two ends are bounded by what is registered, and every range handed out lies
outside what is left between them; an exposure's record is in the synced part of the journal; a key in
use has a durable marker; a call that passed `ensure_live` before a burn is the only one.

`AccountsInvariant`, and from it `LedgerAgreesAlways`, `AccountsExactAlways` and
`ClaimsVerifiedInOrderAlways`. These three add up records of a journal, and none of them is inductive:
a record that ends a response was right when it was written, and stays right only because
nothing is accounted to its nonce afterwards; and a loss of power cuts the journal anywhere behind
its synced part, so that what the whole of it says must hold of what is left. `AInv` says

- `LogOK`, of the records alone and of every prefix of them: refills take no more than was
  reserved before; an end names the sums over the records before it, and no later
  allocation or frame has its nonce; an epoch is sealed once, and accounted to no more once it has
  succeeded; a success has its seal and its freshness before it, at the claims verified so far;
  every nonce accounted to has a durable marker (so a fresh nonce starts at zero);
- `Agrees`, of a live handle: its stages, its response and its settlement in flight are what
  its journal adds up to, and no record has an epoch it has not reached;
- `SettledUp`, of a connection closed as settled: a synced prefix froze as many claims as it
  verified, and nothing is frozen or verified behind it.

A step adds at most one record to each journal. For each method a lemma (`AllocateAccounts`,
`FinishResponseAccounts`, ...) shows that this record is one that `LogOK` admits and that the handle
follows it; refusals, burns and deaths write a record of no account at most (`IdleKinds`).
A loss of power leaves no live handle and a prefix no shorter than the synced part.


**Broker** (`BrokerProofs`; any moves, kinds, artifacts, numbers of challenges, mask events and
lives: `JournalAssumption`, `BrokerAssumption`). `BrokerTypes` and `BrokerAgrees` hold in every fault mode:
a running broker's copy is the file's log up to the record being appended, and
the challenges of its life are the journal's, or a prefix of them while it replays.
`OneMovePerChallengeAlways`, `ReleasedJournaledAlways` and `SealedOnceAlways` have the hypothesis `FaultsApart`
on the constant `FaultModes`: process deaths and losses of power do not meet in one behaviour;
with both, the first is false (section 5). The invariant `Released` says that
what any life gave away is a prefix of what every journal a later life can open replays,
in the synced part where power may be lost.

**Correlations** (`CorrelationProofs`; any pool, number of domains, row counts and batch sizes:
`StreamAssumption`). `StreamInvariant`, and from it `SidecarAccountsAlways` and `StreamImplementsTape`;
with `RInv`, `ReservationsLiveAlways` and `BatchDrawsFit`. The
first invariant says that the audit, once on, has the same entries as the allocations and that its next
row is the cursor; that nothing was drawn while no domain is counted, so that turning the
audit on late is refused in time; that allocations of a kind tile the rows below its cursor and their
domains are consumed. A sidecar need not be related to the pool before it is closed: closing
compares it with the audit. For the refinement, the owner of a row is the domain of the one
allocation that covers it; a draw leaves the old rows with their owners and gives
`n` rows to each of its domains, in order. `RInv` adds to `ReservationsLive` that the places of a batch have
domains of their own and that nothing is reserved without a batch: a draw of a place then takes its
own rows from the sum over the undrawn places and leaves the other places and their reservations
alone, and the sum still fits what the cursor left. So a draw of a batch always finds
its rows (`BatchDrawsFit`): the panic of `OpenFull` that spends a domain without rows is out of its reach.

**Sums** (`SumTheorems`). `SumFunctionOnSet` of the community modules adds up a function by taking out one chosen
element after the other, a recursive function on the subsets of the set. That any element may be
taken out first (`SumRemove`), that a sum depends on its summands (`SumAgree`) and is a natural number when
they are (`SumNat`) are inductions over finite sets. The library's induction theorems
cannot be used (they take a predicate as parameter), so each is proved by a counterexample that is least by
inclusion, which exists because strict inclusion on the subsets of a finite set is well founded
(`FS_StrictSubsetOrderingWellFounded`, `WFMin`).

**Shared rounds** (`SharedRoundProofs`; any lane programs, either lane the longer one, any
failures: `ProgramsAssumption`, `LongerAssumption`). `SharedRoundInvariant`, and from it `LaneOrderAlways`,
`ResponsesExactAlways` and `ChallengerImplementsLockstep`: all safety properties of the run. `SInv` says

- `Flow`, of each lane: a lane in the middle of its program has been given one thing per
  operation behind it; a request is there exactly while the lane waits unanswered, and is the
  one its program is at; a lane that was answered finds its generation changed;
- `Order`, the properties' order with the answers that a lane has not read yet;
- `Delivered`, that the draws for a lane are its answers, read or not, one to one and in order;
- `Alone`: no lane waits with a request while the other one has asked too or has left, so a
  draw is never due that nobody makes (the safety half of `LanesEnd`);
- `Stage`: nothing is drawn before the relation, no lane starts before the statements.

`Good`, the first three, is stated of any shared state and any lanes, because one critical section
passes through several: `SharedChallenge` arrives, may release and may read its
response, `FinishLane` leaves and may release. Each part keeps `Good` by a lemma of its own
(`Arrives`, `Taken`, `ObservesGood` and those of a release); the step composes them. `Alone`
does not hold between the parts, and is what `ReleaseReadyChallenges` restores. For the refinement the first of a lane's
`Todo` is the request it waits with, so the draw that `ReleaseReadyChallenges` makes is one that
`LockstepRounds` allows for who has left; asking, reading, waking and failing leave `Todo` alone.

**Only model-checked.** `LanesEnd`, liveness under fairness, and the two violations of section 5. Every
other property of the runs is a theorem.

## 5. Where the code and its documents disagree

- `c6_abort_wedges`. A client that aborts an attempt whose slot is or becomes
  `Produced` leaves the head with a child that can be neither burned nor accepted;
  no further attempt on that head is admitted.
- `shared_round_views`. The bytes a lane observes go into one buffer that both lane threads
  append to, and the buffer is absorbed as one move. When both lanes observe before a
  shared challenge, the order of their bytes is the order in which their threads got the
  mutex, on the provider's side and again on the verifier's. The verifier's replay compares
  moves byte for byte and a Fiat-Shamir transcript absorbs them, so an honest proof can be
  refused. The design document reports that the two views match, and a test is named for
  it. `shared_round` shows that nothing else depends on the schedule (`ImplementsLockstep`).

Four more deviations of the same kind are in the models without a run of their own;
the constants say how to see them.

- `C6Exchange` with `SlotFaults = {"torn", "unsynced"}`, `LosesPower = {"C"}`: the ranges of an
  exposed attempt end above the client's `raw_high_water` after a loss of power, because
  `recover_atomic_state` (`c6.rs:1569`) takes a renamed file whose directory was not synced at face
  value; the comment at `c6.rs:1148` says that both offsets advance durably first. The
  provider's own checks still prevent reuse and forking (`c6_power_loss`).
- the same with `LosesPower = {"P"}`: `RangesExposedOnce` fails. `open_slot` (`c6.rs:2149`) extends a
  journal whose `reserve` ended before its directory sync; if the entry is lost, the repeated
  attempt is admitted and its range read again. `c6_power_loss` shows that this window is
  the only one at its bounds.
- `Connection`: `ensure_live` (`production.rs:2485`) reads the journal, the append follows, and
  nothing locks the file. A second opener can write its TERMINAL record in between, and the
  call in progress still returns its range behind that record, where the comment at
  `production.rs:295` says that a terminal cause makes every remaining correlation unusable.
  It is one call at most (`BurnStops`), and the range is still used only once (`RangesDisjoint`).

- `InteractiveBroker` with `FaultModes = {{"process", "power"}}`: `OneMovePerChallenge` fails. `append`
  writes and then syncs (`c61_interactive_driver.rs:623`); `open` (line 490) reads what is there and
  never syncs. A process that dies, or a sync that fails, in between leaves a whole record
  that the next life replays and answers from, and a loss of power can still take it back:
  then the same challenge answers another move. `docs/c6-delta-residual-inline-design.md:1455` says that a
  journal of uncertain durability is not resumed.

## 6. Plan

Done: `Lifetime`, `FixedRun`, the C6 exchange, `Connection`, the interactive broker and the correlation
streams and the shared rounds, each with its proofs. Next, in this order:

1. The rest of `production.rs`: the provisioning sequence of `open_fase_d_connection` and the correlation
   spool; an abstract specification "ranges of a stage are handed out once" that `Connection`
   should implement.
2. `ClientCas`: the C6 client file with two writers, each step of the replacement an action.
3. C7 phase A: genesis, rebuild journal, transfer ledger; policy 2 against its reference.
4. The transcript of `volta-mac`; the round order of the blind coordinator;
   the bootstrap's message order under `BootstrapDone`.

## 7. Not modelled

The algebra (field, commitments, sumcheck, GKR, WHIR): out of TLC's reach, and
represented by its outcome, accept or reject, where a state machine depends on
it. Model kernels, CUDA and FFI: arithmetic and device calls. Codecs: a record is
a TLA+ record, and what matters of the encoding (a torn or mis-chained record is
recognised) is kept. Benchmarks, scripts, the Lean development and vendored crates are
not part of the program's state. Sections 1 and 6 say which stateful parts are still to come.
