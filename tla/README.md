# Specifications of the UDS mesh

TLA+ models, TLC runs and TLAPS proofs for the control logic of this
repository: the health attestor, the merge gate, the span emitter with its
batch receipts, the OTLP bridge, the sensor receipt chain, the air-gap payload
and the console over it, the topology check, the latency statistics, the three
kinds of signed receipts, the pack validator and the deployment. Paths are
relative to the repository root.

To check a run: `tlc -config <run>.cfg <module>`; to check the proofs:
`tlapm MeshHealthProofs.tla` (likewise `MeshGovernanceProofs`,
`MeshTelemetryProofs`, `SensorChainProofs`, `SensorReceiptChainProofs`,
`AirGapPayloadProofs`, `A15ComplexProofs`, `PartsProofs`). `PROJECT.json`
lists the runs, what each definition models, and the hazards the properties are
for.

## 1. Inventory

| Component | State | Operations | Interacts with |
|---|---|---|---|
| **A. MeshQuorum** `src/mesh/quorum.py` | `n`, `f`, `bft_feasible`, `required` (constant per object) | `partition_guard`, `healthy`, `decision_receipt` | its caller injects heartbeats and membership views; receipts through F |
| **B. Merge gate** `mesh/formulas/pac_bayes_quorum.py`, `bls_aggregate.py`, class `MeshGovernance` of `mesh/sdk/mesh.py` | `f`, `confidence_floor`, running latency statistics | `gate`, `cosign`, `decide_and_cosign`, `observe_fanout` | its caller passes a dict of organs' verdicts |
| **C. SDK emitter** `mesh/sdk/mesh.py`, `mesh.ts` | `_batch` | `emit`, `batch_aggregate`, `drain`; free functions `verify_batch`, `_merkle_root` | its caller drains it into D; a verifier gets spans and aggregate separately |
| **D. OTLP bridge** `src/mesh/otlp_bridge.py` | transport | `export`, `to_otlp_json`, `parse_otlp_json` | an HTTP collector or the in-process one; receipts through F |
| **E. Air-gap substrate** `uds_v18_24_substrate.py` | chain of packets; `state.armed/rtl`, witness count, abort flag; a simplicial complex | `append`, chain checks, SBOM projection; `tick`, `dual_witness_disarm`, `request_rtl`, `abort`; console panes; A15 check; PINN residuals | console reads the payloads' chains while they grow |
| **F. DSSE receipts** `pinn_dsse.py`, `formula_receipts.py`, `pepr/governance-receipts-pqc.ts` | environment key; a receipt counter | sign, verify, dual signatures | A, D and E |
| **G. Pack validator** `verticals/validate_pack.py` | none | validates packs and decisions | CI |
| **H. Deployment** `manifests/`, `docs/MESH_RUNBOOK.md` | cluster objects | apply, roll back | all organs |
| **I. Data and pipelines** `schemas/`, `bundles/`, `scripts/`, CI | none | - | - |

What is hard about each, and what must hold:

* **A.** Heartbeats have no timestamp and are counted per list entry; views may
  be missing. A claim of health must still be evidence of a quorum that really
  ran, must never be made on both sides of a split, and a disagreement between
  views must not be outvoted by more heartbeats.
* **B.** The gate runs on whatever verdicts have arrived, again when more arrive,
  in several processes, and remembers nothing. No two merges may differ, no
  merge may be carried by liars, no honest organ's key may sign what it opposed,
  and the order of the dict must not decide.
* **C/D.** Aggregate, drain and export are separate calls, and other threads emit
  between them and between their statements: `batch_aggregate` reads the batch
  four times, `drain` twice; drain keeps no copy; an export that failed may have
  arrived. Spans must be accounted for, receipts
  must not claim more than arrived, and the two verifiers must not accept
  something other than what was aggregated.
* **E.** Timestamps are wall-clock time or the caller's, payload dicts stay mutable after
  chaining, the viewer pages through a growing list, control calls come in any
  order.
  Two payloads may have one tail number; the topology check's union-find walks
  a set in no particular order, and its bound is tight only without closed
  surfaces.
* **F.** One key is looked up on every call, another bound at import, a third read
  at start; it may vanish or be rotated between any two of these. Verifiers pick
  different signatures of one envelope, envelopes are held and altered on their
  way, receipt objects stay mutable. What verifies must have been signed, as what
  it is, and a genuine envelope must not be turned away in a roll-out.
* **G.** One exit code for many packs, any of which may fail or crash the loop.
* **H.** kubectl sends one object at a time, any may be refused, and a deployment
  may be turned back half-way. Who may talk to whom in between?

## 2. Modules

| Module | Models | Kind |
|---|---|---|
| `MeshQuorum` | the arithmetic and the decision of `quorum.py` | operators |
| `MeshHealth` | attestors that collect heartbeats and views over a window while organs crash and the network splits | state machine |
| `PacBayesQuorum` | `gate_merge`, `byzantine_quorum`, the bound, `cosign_chain` | operators |
| `MergeOnce` | at most one decision, one the honest organs carry | abstract specification |
| `MeshGovernance` | coordinators, arriving verdicts, repeated decisions, restarts | state machine, implements `MergeOnce` |
| `BatchReceipt` | Merkle root, aggregate, both verifiers | operators |
| `MeshTelemetry` | emitter + caller + bridge + collector (composes C and D) | state machine |
| `DsseReceipts` | `pinn_dsse.py` and its callers in A, D and E, a key that changes, a relay | state machine |
| `FormulaReceipts` | `formula_receipts.py`: processes with keys bound at import, mutable receipts | state machine |
| `GovernanceReceipts` | `governance-receipts-pqc.ts`: signer, consumers, rotation and roll-out | state machine |
| `A15Complex` | the A15 check: complex, union-find, Betti bound | state machine over operators |
| `WelfordStats` | `StreamingStats` and `observe_fanout` | state machine |
| `PackValidator` | the checks of a pack and `main`'s loop | state machine over operators |
| `MeshDeploy` | manifests and runbook: objects applied and deleted, reachability | state machine |
| `SensorChain` | packets, chain checks, digest, SBOM projection | operators |
| `SensorReceiptChain` | chains in use, with clock, payload writers, auditor, console operator | state machine |
| `AirGapPayload` | the control loop and its flags; implements `SensorReceiptChain` | state machine |
| `OperatorConsole` | what the console's panes say of `AirGapPayload`'s state (composes them) | operators |
| `MeshParts` | the seven modules that share no state with another, side by side, one of them moving | state machine (composition) |
| `MeshSuite` | `MeshParts`, `SensorReceiptChain` and `OperatorConsole` side by side, one of them moving | state machine (composition) |
| `MC*` | constants and constraints for TLC | |
| `*Proofs` | theorems | |

### How state and actions correspond to the code

* `MeshHealth`: `inbox` is the list passed to `healthy()`, `polled` the two view
  arguments (`NotSupplied` is `None`), `verdict` what it returned. `Attest` is
  `healthy()`, the whole call; its receipt repeats the verdict's fields and is
  not modelled apart. The other actions are the caller and the world, which the
  code declares out of its scope: `Beat` and `PollView` collect, `NewWindow`
  starts over, `Crash`/`Recover`/`Split`/`Heal` are the mesh. `seen` and `split`
  are history variables.
* `MeshGovernance`: `verdicts[c]` is the dict a caller passes, `Absent` for a
  missing key; `Decide` is `decide_and_cosign` (gate, then co-sign);
  `DecideRaises` its two exceptions (no verdicts, no observations). Python sorts
  by support with the dict's order breaking ties: `TopDecisions` leaves the tie
  to choice. Confidence is in millionths; the slack, a square root, is a
  constant per observation window, given in `MCMeshGovernance` for the windows
  used. The risk is rounded down to a millionth where the code rounds the
  final bound; with the memberships checked the two never fall on different
  sides of the floor.
* `MeshTelemetry`: `batch` is `_batch`; `Emit` is a call of any thread at any time.
  `batch_aggregate` is its reads of the batch, one action each: `ReadLeaves` (and
  the root over them), `SignLeaves`, `CountBatch`, `ListSpans`, with what it has
  read so far in `local`; or `AggregateNothing` when its first look finds the batch
  empty. `DrainRender` and `DrainClear` are the two statements of `drain`.
  `Export(k)` is `OtlpBridge.export` up to the transport call, on the first `k`
  spans the caller still holds. It ends with `ExportReturns` (the transport
  answered SUCCESS; it sends no count, so `export` counts what it sent);
  `AnswersFailure` (the transport answered FAILURE without a count: the receipt
  has that code and, line 196, the number of spans sent as accepted);
  `ExportRaises` (refused, request lost, or the ten-second timeout with the
  request still under way or already ingested); or `ReceiptRaises` (the key that
  should stamp the receipt is no EC key: `export` raises whatever the transport
  did, and the caller cannot tell). After all but the first the caller still holds
  the spans and may send them again. `Ingest` is the collector parsing a request,
  early or late. A span's number stands for its id, its receipt hash and its start
  time.
* `SensorReceiptChain`: `AppendPacket` is `append`, with the `timestamp_ns` of its
  caller or, by default, the clock's time (`misdated` remembers the drones that
  were passed another time than the clock's); `ReadPage` is
  `receipt_chain_pane` with increasing page numbers; `Project` keeps
  `to_sbom_chain()`; `Tamper` writes into the payload dict of a packet that
  `append()` or `packets()` handed out (`frozen=True` does not reach into it).
  `sealed`, `audited` and `set_back` are history variables.
* `AirGapPayload`: one action per method; `Tick` hands its caller's `timestamp_ns`
  to the chain. `Arm` is code outside the class, which has no arming method; that
  such code might as well clear the public field, past the gate, is left out. `OperatorConsole` adds no step: its `Render` is evaluated
  in every state of two payloads, for every way to name them.
* `DsseReceipts`: `pem` is the environment variable, `Seal` and `SealLambda` call
  `sign_payload`, `ReportAvailability` is the second lookup of
  `signed_lambda_receipt`. `sealed` remembers each envelope with the key then
  mounted; `relayed` is an envelope someone changes part by part.
* `FormulaReceipts`: `hmac_key[p]` is `_HMAC_KEY` of a process, bound at import;
  `RenderAgain` is `to_dsse_envelope` of an object that may have been written into.
* `GovernanceReceipts`: `secrets` are the cluster's, `keys[p]` what a process has
  read; `read` is the envelope consumers are about to verify.
* `A15Complex`: the three sets are the class's, built by calls that pass distinct
  vertices (the code also takes `add_edge(a, a)` and faces with a repeated vertex,
  which make no simplicial complex; the model's callers do not). `Walks(next)` is the loop over the
  edges, turn by turn, when `next` says which of the edges left it may take:
  with `AnyEdge` it takes every order, with `OneEdge` the one the interpreter
  happens to take, and that one is `ConnectedComponents`. `ParentMaps` are the
  maps it may end with. `Betti1` is the reference: homology over the field of
  two elements, a chain being the set of its simplices, and the rank of a set of
  chains the power of two that their sums amount to.
* `WelfordStats`: numbers are exact, in units of 1/`Scale`; the reference takes
  two passes over the stream.
* `PackValidator`: a pack is a record of what the checks tell apart; `Validate` is
  one turn of `main`'s loop, `Crash` the exception nothing catches.
* `MeshDeploy`: `commands` is the runbook's list, `SendObject` what kubectl does
  with the next object of a file. When a command has returned, whatever of it was
  refused, the operator repeats it, goes on, or turns back; the one condition is
  the runbook's `rollout status` before the policies. `missed` remembers what was
  refused; `Connects` reads the policies in force.
* `MeshSuite` and `MeshParts` pick in the first state which component moves; the
  others stay in an initial state, so the reachable states are the sum of the
  components'. `MeshSuite` repeats a property of `SensorReceiptChain` or
  `OperatorConsole` under its name where that component moves.

### Abstractions

Hashes and signatures are structural, so free of collisions; the additive
signature model of the SDK is kept as "k times key times root". Wording,
formatting, envelopes, ids and attributes are left out, names are model values.
Sensor fusion and the state's float fields are one reading.

Each component module also holds small *mutated* forms of a definition (marked
`Mutation of ...`): bugs of a plausible kind that the property named in
`PROJECT.json` is able to detect. No specification uses them.

## 3. Runs

| Run | Question | Bounds, and why they are enough |
|---|---|---|
| `health` | Do two sides of a split ever both claim health? What is a claim evidence of when its window goes stale? Does a disagreement of views stick? | four organs = 3f+1 with one liar, every cut between the two attestors, two faults: a split and a crash, or split-heal-split. Views and dead reports are tried with one attestor (constraint `HeartbeatsOrOneAttestor`): what one was told does not reach the other |
| `merge_four` | Do merges agree? Who carries and signs them? Is it one merge? | 3f+1 = 4, two coordinators, one restart, a liar who tells each something else and changes its mind |
| `merge_six` | Can the order of arrival decide? Are unanimous honest organs merged in the end? | six organs, the fewest at which two decisions can each have 2f+1 supporters; one coordinator, a liar who may stay silent |
| `telemetry_retries` | Are spans accounted for, receipts backed, verifiers right? | at most five spans and failed calls together, of which at most three fail, an aggregate read of a batch that grows counting as one more (constraint `FiveSpansOrFailures`): padding at two levels, a late request, its retry and the retry's retry, and an emission at each gap, those between the reads of `batch_aggregate` included |
| `suite` | One question per component below | the components share no state; `moving` and `part` pick the one that moves |

The components of `suite`, and what their bounds contain:

| Component | Properties | Bounds |
|---|---|---|
| `A15Complex` | union-find counts components in every order; the bounds hold and `check` goes by them | all 6893 complexes on five vertices: a hollow tetrahedron is the smallest closed surface, and five vertices have paths long enough to be halved; orders of up to eight edges |
| `WelfordStats` | the statistics are those of the stream, flags those of the prefix | five latencies of 0, 1 and 9: equal ones (deviation 0), then an outlier |
| `DsseReceipts` | envelopes say what they are; what verifies was sealed | two envelopes of two kinds, five states of the key, two alterations: a change and a signature moved |
| `FormulaReceipts` | accepted outputs are the computed ones | two processes, two keys, two receipts, one write, calls that return and that raise |
| `GovernanceReceipts` | genuine envelopes are accepted, verifiers agree | two consumers (one updated, one not), one rotation, two receipts, two alterations |
| `PackValidator` | exit code 0 means all packs are disciplined | every decision and every envelope record, each before and after a good, a bad, a missing and a crashing pack |
| `MeshDeploy` | deny, identity first | two refusals: one object of a command and the same one again, or of two |
| `SensorReceiptChain` | what the checks see of tampering, of a clock set back and of times passed in; what an auditor's projection vouches for; what an operator sees | four packets (two pages of two, a first, an inner and a last packet), two writes (a change and its undoing), two times. Packets are written into where all carry the clock's time (constraint `StampsOrTampers`): the order reads only times, the digest check compares packets whole; pages are read apart from writes and audits (`PagesOrAudits`), since they show sequence numbers, which neither touches |
| `AirGapPayload`, `OperatorConsole` | every disarming the chain shows is witnessed; only time stamps break the invariant; trouble is on the console; the loop implements the chain | two payloads, every choice of tail numbers; one goes through four ticks and three gate passages (arm, disarm, arm, disarm, and one while not armed), or three ticks and one passage once a time is off, while the other is untouched; or both together through two ticks and one passage (`OneLeadsOrTwoPackets`): payloads share nothing but the clock |

Disagreements between code and documentation met on the way, each a run that
TLC must find violated:

| Run | Finding |
|---|---|
| `health_duplicate_beats` | `_count_live` counts list entries: one organ heard twice is two live organs (`quorum.py:112` against `quorum.py:4-5`) |
| `telemetry_padding` | `verify_batch` takes the count from the aggregate, so a batch whose last span was delivered twice verifies (`mesh.py:278` against `mesh.py:272-273`); `mesh.ts` counts the spans and rejects it |
| `telemetry_torn` | `batch_aggregate` reads the batch four times without a lock: a span emitted by another thread in between is counted or listed and not under the root, and a complete delivery does not verify (`mesh.py:240-249` against `:233-234`) |
| `airgap_abort` | `tick` ignores the abort flag (`uds_v18_24_substrate.py:584` against `:617`) |
| `deploy_allows` | the default-deny covers both ends of a connection and the allow-rules one: vsp-otel may not receive what the collector may send, a bridge may not send what the collector may receive (`network-policies.yaml:64` and `:56`) |
| `deploy_window` | kubectl sends the policies one by one, the default-deny first: until the next is accepted organs do not reach a ready collector, and for good if it is refused (`network-policies.yaml:22` against `MESH_RUNBOOK.md:63-65` and `:86-87`) |
| `dsse_org_key` | an envelope signed with another key than the uds-bundles one, the org key say, calls itself signed, carries the same key id and the text that it is verifiable with the daa4aeca key, "NOT the org key", and does not verify (`pinn_dsse.py:147` against `:149-152`) |

Other observations, without a run of their own:

* The encoder reads `start_ns`, the SDK writes `start_time`: spans of the SDK are
  exported with time 0 (`otlp_bridge.py:83`; `ToOtel` and `ToOtlp` model it).
* The receipt for an answer with code FAILURE and no count says all spans were
  accepted (`otlp_bridge.py:168`, 196-197). `ReceiptsAreBacked` is about receipts
  with code SUCCESS; no document says what `accepted` means in the others.
* When two payloads have one tail number, `render` shows the first one's chain
  twice and the other's on no pane; `TroubleIsVisible` claims nothing of that pane.
* A merge may be allowed with nothing signed; envelopes with several HMAC entries
  may pass one of the two Pepr verifiers only. The properties say for which merges
  and envelopes they speak.
* The Merkle tree hashes leaves and inner nodes alike. The model keeps them apart
  as part of the assumption that hashes do not collide.
* The validator lets pass a drift flag that is no boolean, a verdict of null and a
  lambda of true; `ExitZeroMeansDisciplined` is stated so as not to claim
  otherwise.
* `COSIGN_KEYS.md`, which `pinn_dsse.py` refers to, is not in the repository.

The fault threshold deserves a remark. The code fixes the quorum at 2f+1 for any
n >= 3f+1, and the mesh has five organs with f = 1. Two sets of three out of five
may share only the liar, so what the theorems below show for n = 3f+1 is not true
there: with `Organs` of five and the same other constants, TLC finds two claims
of health across a split, and with `MaxRestarts = 1` two different merges of one
cycle.

## 4. Fairness

Only `merge_six` uses fairness: every honest organ's verdict is in the end
delivered to each coordinator, and callers keep asking each coordinator to decide.
The code has no scheduler that would justify more, and this much is what its
callers must do for a decision to be made at all; liars and restarts are under no
obligation. Every other property is a safety property. Deadlock is checked for
A and B; the other systems end when their bounds are used up, and say so in the
configuration.

## 5. Proofs

Every theorem holds for all values of the constants that satisfy the `ASSUME`s of
its module; those of B and A that need more say so in their own `ASSUME`. The
theorems about the receipt chain, the payloads and the console have
`ChainAssumption`, `PayloadAssumption` and `ConsoleAssumption` as hypotheses where
they need them; `SuiteAssumption` is their conjunction, for TLC to evaluate.

* **`MeshHealthProofs`** - `TypeCorrect`; `HonestMajorityRan`, `MinorityRefuses`,
  `SplitBrainFree`, `RefusalIsSticky`. The inductive invariant
  `HealthInv` adds to the types: a standing claim was made on a quorum of
  entries still in the list (`ClaimInv`); an organ heard alive in a window opened
  under the present cut reaches the attestor (`SideInv`); an honest organ heard
  alive ran during the window (`RanInv`). None of the properties is inductive
  without these, because a claim is made in one step and what it rests on
  changes in others. The theorems about organs assume one heartbeat per organ
  and window (`BeatsPerWindow = 1`): `health_duplicate_beats` shows why.
  `SplitBrainFree` also assumes n = 3f+1; its heart is that two sets of 2f+1 out
  of 3f+1 organs share one that does not lie.
* **`MeshGovernanceProofs`** - `TypeCorrect`; `HonestCarry`, `CosignersAgree`;
  `NoConflictingMerges` and `Implementation` (of `MergeOnce`) for n = 3f+1. The
  inductive invariant says that a coordinator holds honest organs' opinions as
  they are (`VoteInv`) and that every merge ever made was backed by a quorum that
  reported its decision (`MergeInv`): the verdicts themselves may be lost in a
  restart, the quorum they formed may not be forgotten. `TiesAreRefused` assumes
  that floor and slack together exceed one half, which the code's default floor
  of 0.5 gives, the slack of any window being positive; with a floor well below
  one half and many observations the dict's order may decide, and the theorem
  does not claim otherwise.
* **`SensorReceiptChainProofs`** - `TypeCorrect`; `TamperingSeen`, from the
  invariant `Links` (numbers count packets, every `prev_sha` is the digest of the
  predecessor as it was sealed); `OrderKept`, from `Stamped` (unless the clock was
  set back, no packet of a drone that was passed no other time is ahead of it); `DisorderIsForever`; `PagesGapless`;
  `AuditVouches`, from `Audited` (what the auditor holds is the projection of the
  chain as it was audited) and the lemma that equal digests belong to equal
  chains (`DigestsTellChainsApart`). `SensorChainProofs` holds the lemmas about
  packets and sequences that this module and the next share.
* **`AirGapPayloadProofs`** - `ControlKeepsTheChain`, from `Linked` and `Timed`:
  no order of arming, ticks, gate passages, RTL and aborts costs a payload its
  well-formed chain; a clock set back or a tick that was passed another time may,
  and then it is the temporal axis that is down. `GateCoversDisarms`, from
  `Covered`: the disarmings the chain shows *and the one its next packet will
  show* are covered by passages of the gate. The property alone is not inductive,
  since a disarming is made by the gate and seen in the chain only by a later
  tick. `LoopImplementsChain`: every step maps to a step of `SensorReceiptChain`
  or leaves its variables alone; a tick is one `AppendPacket`, whichever branch of
  the control law it takes. `ConsoleShowsTrouble`: for every fleet and every
  choice of tail numbers, from what `Match` finds.
* **`MeshTelemetryProofs`** - `SpecEverySpanAccounted`, from the inductive
  invariant `Accounting`: the caller may forget the spans of a call that returned
  because they are in the collector, and are so because the awaited request was
  the last of the wire, however many older ones are still under way
  (`CallUnderWay`); what is in the batch while `drain` is between its statements
  is rendered or lost (`CallerHolds`); the wire carries nothing that was not
  emitted. `SpecShippedSpansCovered`, from `Coverage`, which adds the spans on
  the wire, those a drain is about to take, and the leaves read so far. `SpecReceiptsAreBacked`, from
  `Order`, `Settled` and `Honest`: spans leave in the order they were emitted,
  what was given up does not come back, and the SUCCESS receipts' counts add up to
  at most the spans whose export returned, which `Accounting` finds in the
  collector. `SpecCleanDeliveryVerifies`, from `ReadInOrder` (the four reads met
  lists that only grew, so that leaves and ids that are equal leave the count and
  the signatures no choice), `Sealed` (every aggregate is made of such reads) and
  `Flow` (without failures everything arrives in the order it was emitted): fetching
  an aggregate's spans from the collector gives back the list it was made of. `SpecPyMissesNothing` and
  `SpecTsAcceptsExactly` rest on what the Merkle root tells apart: lists with one
  root agree where both have an entry and have the same entries (`SameRoot`), so
  a list whose root is that of a list of *distinct* hashes begins with that list
  (`RootOfDistinct`), whatever it has beyond it being the padding that
  `telemetry_padding` shows. All of it holds for any
  number of spans, failures and late requests, and trees of any height.
* **`A15ComplexProofs`** - `ProperCallsBuildComplexes`: calls that pass distinct
  vertices keep the three sets a finite complex, which is its own inductive
  invariant. The
  rest is about operators on such a complex, of any size:
  * *Graphs.* A vertex's class is what every set around it contains that no edge
    leads out of (`Class`). One more edge joins the classes of its ends and no
    others (`ClassWithEdge`), so it makes one class less or none (`CountWithEdge`).
  * *Union-find.* `find` ends because every parent link descends a bounded depth
    (`Forest`); shortcuts to the grandparent keep depths and roots
    (`HalveKeepsRoots`); a turn of the loop joins two trees (`UniteTrees`).
    `Joins`, the invariant of the loop, says that two vertices have one root
    exactly when the edges visited connect them. It holds after every turn of
    every walk (`WalksJoin`): hence `ComponentsAlwaysCounted`, which is about
    all orders of edge sets of any size, and faces.
  * *The reference.* `ComponentOf` is the class of its vertex after as many steps
    as there are vertices, since every step adds a vertex until none is left
    (`ReachIsClass`): hence `ComponentsAlwaysReachable`. The run limits
    the property to eight edges and no faces to keep the orders countable; the
    proof needs neither.
  * *Chains.* Sums are linear (`SumPlus`); a span is a space (`SpanIsSpace`), and
    one more chain doubles it or leaves it alone (`SpanAdd`), so it has a power of
    two of members and `Rank` is defined (`RankExists`, `RankAdd`). An edge is a sum of
    others when they connect its ends (`PathInSpan`), and is none when they do
    not, because sums of edges have an even number of vertices in a closed set
    (`CutNotInSpan`): rank and classes add up to the vertices (`RankOfGraph`).
    Rank and cycles make the edges (`CountCycles`); the sides of a triangle are a
    cycle (`SidesAreCycle`), so the faces' rank is at most that of the cycles
    (`RankOfCycles`). The Euler identity and the bounds follow:
    `BoundsAlwaysHold`.

  The lemma `Iterates` turns a recursive function over the turns of a loop into
  its two equations; `Walks`, `ComponentOf` and `TwoTo` are unfolded with it.
  Assumed is only that vertices are numbers, as the code's
  annotations say, and the bound a natural number (`ComplexAssumption`).
* **`PartsProofs`** - the theorems about `MeshParts`, which `MeshSuite`
  extends and the run `suite` checks. A part moves by its own `Next` while the others stand still
  (`PartsMove`), so each part's invariant carries over:
  * `Layers` (`PartsIdentityFirst`): how far the commands have come, and which
    objects were refused and not accepted since, say which objects are present,
    line by line, for any number of refusals, repeated commands and a turn back at
    any point. `PartsDenyHolds` needs no more than the table of the policies;
  * `Ledger` (`PartsExitZero`): the errors found so far are those of the packs
    passed so far, for every list of packs;
  * `SignaturesStay` (`PartsAcceptedOutputs`): a receipt's signature was made for
    the body its call computed, whatever was written into the receipt since;
  * `Signing` (`PartsGenuineIsAccepted`, `PartsVerifiersAgree`): the signer goes
    over to ML-DSA alone only after the last consumer (`RollOut`); archived
    envelopes are what the signer made with the keys recorded; every entry of the
    envelope under way was made by an organ or by the signer for an archived
    receipt (`Traced`), through reordering, stripping and added entries;
  * `Streaming` (`PartsStatsAreThoseOfTheStream`): the recurrence keeps
    `m2 = scale^2 * sum x^2 - count * mean^2` (`Exact`), which the reference's
    second pass expands to (`TwoPasses`), for streams of any length whose divisions
    are exact at the chosen scale (`StatsAssumption`); the flags are those of the
    prefixes;
  * `SealsInv` (`SpecVerifiedWasSealed`, `SpecMarkersMatchSignatures` of
    `DsseReceipts` alone): every sealed envelope is what `SignPayload` makes with
    the key of its time, every signature of the relayed envelope was made for a
    sealed payload and its type (`SignaturesAreKnown`), and an unfinished PINN
    report still agrees with the key unless it changed (`ReportAgrees`). It
    rests on the structural model of signatures: no one makes one without the key;
  * `PartsMarkersMatchSignatures`, `PartsVerifiedWasSealed`: the composition's DSSE
    part is a behaviour of `DsseReceipts` (`PartsSealReceipts`), so its theorems
    apply;
  * `PartsComponentsAreReachable`, `PartsBoundsHold`: its topology check is a
    behaviour of `A15Complex` (`PartsBuildComplex`), likewise.

  * `SuiteTamperingSeen`, `SuiteOrderKept`, `SuiteDisorderIsForever`,
    `SuiteAuditVouches`, `SuitePagesGapless`, `SuiteControlKeepsTheChain`,
    `SuiteGateCoversDisarms`, `SuiteShowsTrouble`, `SuiteLoopImplementsChain`: the
    suite's chains are a behaviour of `SensorReceiptChain` and its payloads one of
    `AirGapPayload` (`SuiteBehaves`), so the theorems of those modules carry over
    to what the run `suite` checks; its other parts are a behaviour of `MeshParts`
    (`SuiteMovesParts`).

  `PartsAssumption` collects what three parts assume of their constants: the
  vertices are numbers, the scale is exact, and the packs are
  records of the fields the validator reads.

Sums, Merkle trees, roots and walks are recursive functions. What is proved of them
is proved by induction over sets of numbers or sets of finite sets
(`NatSetInduction`, from the well-foundedness of `<` in the library, and
`SetInduction`); theorems of the library that take an operator as a
parameter are not used.

### Only model-checked

* `UnanimityMerges`: liveness, which the provers do not reach. Every other property
  of a passing run is stated by a theorem.
* What the violation runs refute is a claim about one behaviour and needs no
  proof.

## 6. Not modelled

* Crypto primitives and py_ecc: structural, see above. `verify_aggregate` and
  BLS12-381 itself are library calls.
* The PINN's floating-point network, dual numbers and residuals, the sensor
  fusion, and the values of four anchored formulas: floating-point arithmetic,
  which TLC does not have. What Liu Hui's formula loses to cancellation for
  large `k` is a hazard of that arithmetic and stays outside.
* Trace context (`parse`, `child`), the HMAC of a single span, the schema check of
  `emit` and user attributes: strings and dictionaries without control flow of
  their own. That an attributes dict is kept by reference and may override
  `szl.mesh.*` keys in `to_otel` is a hazard with no property.
* Attribute typing in the OTLP encoder, schemas, bundles, CI and scripts.
* The collector's own pipeline (memory limiter, batching): not code of this
  repository.

## 7. Plan

Every safety property that a passing run checks is proved; what is left extends the
model.

* The two hazards no property covers: an empty dict of verdicts or a window of no
  observations, on which `decide_and_cosign` raises (`DecideRaises` models the
  step, and that it changes nothing is all there is to say of it so far), and
  the attributes dict that a span keeps by reference until `drain`, which needs
  spans whose attributes and hash are two things.
* The parts modelled partly: trace context and the schema check of `emit`, the
  typing of attributes in the OTLP encoder.
* Five organs with one liar: a quorum size at which the theorems of A and B hold
  for any n would be a change of the code, and the models are ready to be asked
  about it.
