# NIC-Residency: a TLA+ verification project

NIC-Residency keeps *evidence* about network interfaces (NICs, functions, ports,
queues), the GPUs and the PCIe topology they sit in, and decides where a workload
may reside. Workers publish the evidence under an epoch and a boot id; a
coordinator persists it and has to decide, after a restart, what it may still
believe. This directory models that system in TLA+, checks it with TLC and proves
its safety properties with TLAPS. Paths are relative to the repository root, `src/`.

## 1. The system

| Component | State | Operations | Made correct by |
|---|---|---|---|
| `NicRegistry` (`include/nicresidency/registry.hpp`, `src/registry.cpp`) | `epoch_`, `workers_` (live boot per worker), `worker_nics_`, the tables of NICs, functions, ports, queues, GPUs, attachments, the residency vector, the topology pointer | `register_worker`, `worker_retired`, `coordinator_restart`, `register_*`, `advance_*_generation`, `set_topology`, `retire_*`, `publish_residency` | only live incarnations of the current epoch store evidence; a death demotes what it published and disowns what it owned; generations go forward; references that are looked up resolve |
| Coordinator process (`tools/nic_residency_coordinator.cpp`) | one registry, decoded frames, the recovered state, its reports | first run: ingest, persist, serve; restart: recover, replay, revalidate, serve | what is served was persisted; nothing is eligible after a restart before a new incarnation publishes |
| Authority worker (`tools/nic_authority_worker.cpp`) | its boot id and its frame file | start, write the frame, be killed | – |
| `PersistenceStore` (`src/persistence.cpp`) | the state file and its temporary file | `save`, `load`, `recover` | the state file is missing or whole |
| its file format (`serialize`, `deserialize`) | – | one field after the other | what is saved can be loaded; identities and the written fields of the history come back, dynamic evidence of NICs and GPUs does not |
| `FrameCodec` (`src/authority.cpp`) | – | encode, decode | a partial frame decodes to nothing |
| `TopologyBuilder`, `TopologySnapshot` (`include/nicresidency/topology.hpp`) | staged nodes and edges; the ancestors found by `finalize` | `add_node`, `add_edge`, `build`, locality queries | the ancestors recorded are the node's own |
| `SystemBackend::build_topology` (`src/system_backend.cpp`) | the switch of each bus, the root complex of the segment | one iteration per device | which devices share a switch does not depend on the order of enumeration (but for the address of the root complex) |
| `ResidencyPolicy` (`src/policy.cpp`) | – (a pure call) | `decide`, `hard_check`, `rank` | selects exactly when a NIC meets the hard constraints |
| `ResidencyEngine` (`src/engine.cpp`) | a registry, a policy | `register_host_worker`, `ingest`, `decide` | an ingest leaves a prefix of its discovery; a decision rests on live evidence |
| `SystemBackend`, `NvidiaAffinityBackend`, `UnsupportedBackend`, `SyntheticBackend` | – | `discover` | – |
| `nic_residency_inspect` (`cli/`) | one engine | the modes system, synthetic, query | an exception in one discovery does not cost the next |
| Benchmarks, examples, tests | – | – | – |

How they interact. All mutators of a registry run under one mutex. The
coordinator and the workers share nothing but files: a worker truncates and
rewrites its frame file whenever it is started, the coordinator reads it whenever
it gets there, and the coordinator replaces the state file by writing a temporary
file and renaming it. An engine registers its
process as a host worker, runs backends and makes one registry call per record it
finds, without a lock between the calls. A decision reads a snapshot of the
registry: NIC records, an optional GPU and an optional topology.

The hard behaviours, listed with their lines in `PROJECT.json` under `hazards`:
late calls of a replaced boot or an old epoch; a late death notice of an older
boot; evidence that outlives its publisher; replayed or conflicting publications;
a mutator that assigns before it validates; kills between the steps of a save or
a restart; frame files that are torn, stale or missing; generation wrap-around;
full tables; parent cycles; order of enumeration; ties between candidates; an
ingest interrupted between two of its calls; decisions used after the evidence
moved; limits and 16-bit fields of the file format.

## 2. Modules

| Module | Models | Extends |
|---|---|---|
| `NicRegistry` | the registry: every mutator is one action | – |
| `MCNicRegistry` | symmetries for TLC | `NicRegistry` |
| `EvidenceAuthority` | abstract specification: who vouches for a NIC | – |
| `RegistryClaims` | a documented property the registry does not have | `NicRegistry` |
| `NicRegistryProofs` | theorems about the registry: evidence, owners, the refinement | `NicRegistry` |
| `RegistryTableProofs` | theorems about the registry's tables | `NicRegistryProofs` |
| `Coordinator` | coordinator, workers and files, over one registry | `NicRegistry` |
| `AtomicStore` | abstract specification: a store that is replaced all at once | – |
| `CoordinatorClaims` | a documented property it does not have | `Coordinator` |
| `CoordinatorProofs` | theorems about the coordinator and its files | `Coordinator`, `NicRegistryProofs` |
| `PersistenceCodec`, `MCPersistenceCodec` | the fields and limits of the state file; instance | – |
| `CodecProofs` | theorems about the state file | `PersistenceCodec`, `OrderLemmas` |
| `Locality` | locality queries of a topology snapshot; what `finalize` computes, as one function | – |
| `TopologyBuilder` | staging and `finalize`, one action per loop iteration | `Locality` |
| `SystemTopology` | `SystemBackend::build_topology` driving the builder | `TopologyBuilder` |
| `MCTopology` | instance of both | `SystemTopology` |
| `TopologyProofs` | theorems about both | `SystemTopology`, `OrderLemmas` |
| `PolicyConfig` | the policy's fields and their defaults | – |
| `ResidencyPolicy` | `decide`, one action per candidate and one for the conclusion | `Locality`, `PolicyConfig` |
| `MCResidencyPolicy` | instance | `ResidencyPolicy` |
| `PolicyProofs` | theorems about `decide` | `ResidencyPolicy`, `OrderLemmas` |
| `SyntheticBackend` | the ten fixture scenarios as discovery results | `Locality` |
| `HostBackends` | `discover` of the system, NVIDIA and unsupported backends | `SyntheticBackend` |
| `Engine` | processes that discover and ingest into one registry, and queries | `NicRegistry`, `HostBackends`, `PolicyConfig`; instantiates `ResidencyPolicy` |
| `MCEngine` | instance: machines, plans and sites | `Engine` |
| `EngineProofs` | theorems about ingest and queries | `Engine`, `RegistryTableProofs`, `OrderLemmas` |
| `OrderLemmas` | least elements of sets of naturals and of finite orders | – |

### Registry

The variables carry the names of the class members. A C++ map is a total function
with `None` for an absent key; `None` is also the null id and the null topology.
Each mutator holds the mutex for its whole body, so it is one action, with the
trailing invalidation loops inside it. A call that throws before assigning is a
disabled action. `register_nic` inserts into `worker_nics_` before it validates,
so its action is enabled for rejected calls too (`StoresNic` says when the record
itself is stored). `publisher` is a history variable: who stored each NIC record,
in which epoch; no guard reads it.

Record fields that no guard reads and no mutator writes (names, PCI identity,
capability, provenance) are one value, `content`, for a NIC and left out
elsewhere. The owner of a record is the pair `owner_worker`, `owner_boot`; callers
name themselves or nobody, as the callers in the repository do.

Bounds, all named constants: `MaxGeneration`, `MaxTopologyGeneration` and
`MaxEpoch` bound what callers pass; `GenerationModulus` stands for 2^64 and is
small in the runs about the wrap; the `kMax*` limits are the code's constants at
small values.

### Coordinator

A step of `run_first` or `run_restart` is an action; `pc` and `mode` say where the
running process is. `NewRegistry`, `RegisterWorker`, `RegisterNic` and
`PublishResidency` are the registry's own actions, so the composition has the
registry's real guards. Exceptions end a run with an `ERROR` report, as `main`'s
catch block does. `Launch` and `Kill` may happen at any step. A frame file is
whole, torn or missing; so is the state file (an image cut short fails the length
or checksum test of `load`). The three steps of `save` (open, write, rename) are
separate actions that may fail. Every worker publishes the one NIC the program
hard-codes, so frames differ in worker, boot, epoch and generation.
`last_served` is a history variable.

### Two abstract specifications

`EvidenceAuthority` says what the registry promises in four sentences: a worker
without a live boot may join, a live incarnation may vouch for a NIC, a worker
that leaves takes its word with it, a new epoch starts from nothing. It knows no
tables, generations or calls. The refinement mapping (`NicRegistry!Vouched`) takes
`live` from `workers_`, and the voucher of a NIC from the record: the publisher,
if the record is of the current epoch and not waiting for revalidation.
`ImplementsAuthority` is the refinement.

`AtomicStore` is a cell that is replaced by a commit or not at all. `Coordinator`
implements it (`ImplementsAtomicStore`): the stored value is the state file, the
save in progress is the image between the serialisation and the rename, and the
reader is the coordinator that recovered. Opening and writing the temporary file
are stuttering steps, the rename is the commit, and a kill or an I/O error
abandons the save.

### State file

`PersistenceCodec` keeps the stream field by field. 64- and 32-bit fields are
returned as written and are not told apart; a 16-bit field passes through
`ReadU16`, which sign-extends the low byte as `Reader::u16` does with a signed
`char`, and a string is its 16-bit length. `Fits` and `Accepts` are the limits that
`serialize` and `deserialize` test. `SortedById` is every order that `std::sort` may
produce, which is not stable for equal ids. `ReadNic`, `ReadGpu` and `ReadResidency`
are what a record comes back as: a NIC and a GPU without their dynamic evidence, a
history record with its references, state, lifecycle, owner and explanation, and
with defaults for the attachment and capability generations, the locality, the
policy, the provenance and the freshness, which `serialize` does not write. The checks that any file written by
`serialize` passes (magic, checksum, enumerator ranges) are left out; a damaged
file is the coordinator model's torn image.

### Engine, backends and the inspector

A process (`host`) has registered itself as a worker under a fresh boot id and
follows a plan, a sequence of discoveries. `Discover` is `discover` and the entry of
`ingest`, which reads the epoch; `Ingest` is one registry call, by the registry's own
action; a call that throws ends the discovery (`Thrown`) and the process goes on
with its next one, as the handlers of `run_system` do. `Returns` says when a call
comes back without exception: it stores, or it repeats what is held. `Query` is
`run_query`: `decide` on a snapshot, with `HardCheck` and `Rank` of `ResidencyPolicy`
itself. The registry model keeps only generations of GPUs and the topology, so
what `decide` reads of them is kept here, in `gpu_place` and `fabric`.

The discovery results come from `SyntheticBackend` (the fixtures of the ten
scenarios, whose VF and dense counts 4 and 200 are constants, 2 and 3 in the run)
and `HostBackends`, whose inputs are what SetupAPI and NVML answer: adapters with
or without a parseable PCI location, devices that do or do not answer.

### Topology and policy

`finalize` follows parent links in a loop over all nodes; `StartWalk`, `WalkUp` and
`WalkEnd` are its initialisation, body and end, with the loop variables `cur`,
`rc`, `sw`. Parents are any ids, so the staged links may form cycles, as `add_node`
allows; then the walk goes round for ever. `AddNode` and `AddEdge` are the staging calls with their limits.
`PlaceDevice` is one iteration of `build_topology`, which creates a switch for each
new bus and one root complex, both without a parent, joined by edges only.

`ResidencyPolicy` evaluates candidates in id order up to `max_candidates`
(`EvaluateNext`: `HardCheck`, and `Rank` for the allowed ones) and then sorts and
reports (`Conclude`). The locality of a NIC is the numeric and boolean content of
`locality_of`; explanation strings are left out.

## 3. Runs

Passing runs. Each uses the smallest instance in which the situation it is about
occurs in every order.

| Run | Properties | Instance |
|---|---|---|
| `RegistryAuthority` | `LiveEvidence`, `ImplementsAuthority` | two workers, two boots, two NICs, two epochs: an old boot, a new boot and another worker compete for a NIC |
| `RegistryOwnership` | `TypeOK`, `OwnersAreLive`, `LostBasisInvalidates`, `ResidenciesInGenerationOrder` | two workers, two boots, one attachment, a residency with two slots in the vector, two epochs |
| `RegistryGenerations` | `NothingGoesBack`, `NewEvidenceNeedsNewGeneration` | a NIC with two contents, two functions, a queue, a GPU, two topology generations, generations up to the wrap at modulus 3 |
| `RegistryBindings` | `CheckedReferencesResolve` | one key in every table with references but no GPU, two epochs, so that a restart comes between publications; NICs are published as waiting for revalidation, which no guard tells apart |
| `CoordinatorRestart` | `CoordinatorTypeOK`, `SavedStateIsWhole`, `ServesWhatItPersisted`, `OldBootIsFenced`, `AuthorityOnlyFromNewIncarnation`, `LaunchSettles`, `ImplementsAtomicStore` | two workers and two boots, so that frame A and frame B belong to one worker or to two; both modes in any order; frame epochs 0 to 2, so that a frame is older than, equal to or newer than the epoch in force |
| `TopologyFinalize` | `TopologyTypeOK`, `AncestorsAreOwn`, `SharedSwitchSharesRoot`, `BuiltOnlyWithoutCycles`, `BuildReturns`, `SwitchesFollowBuses` | every topology of up to three nodes with any parents among them, missing parents and cycles included; and up to four host devices on three buses, bus 0 included, whose corner collides with the root complex |
| `PolicyDecisions` | `SelectsExactlyWhenPossible`, `DominatedNeverSelected`, `UnknownNeverAllowed`, `RevalidationIsReported` | pairs of NIC variants, GPUs on and off the NUMA map, a topology with two switches and two roots or none, each requirement alone and all together |
| `PersistenceCodec` | `SavedCanBeLoaded`, `LoadIsFaithful`, `RecoveryIsStable` | lists empty, at and over their limits, in and out of order, with repeated and null ids; 16-bit values of four bits, so that each combination of a negative or plain low byte and a high byte occurs; three epochs, so that a recovered state is saved and recovered again |
| `Engine` | `IngestLeavesPrefix`, `IngestOrderIsClosed`, `SelectsLiveEvidence`, `AllowanceIsNotRetracted` | fourteen sites: each of the ten synthetic scenarios (`two_numa` through the query mode), one machine with two NICs and a GPU, and pairs of machines, one with a colliding and a null PCI address; two processes and two boots; at each site the faults (death, retirement, restart, generation advance) that matter there, since all of them everywhere only repeats what the registry runs cover; tables that a discovery fills to the limit |

What they show: a NIC is vouched for only by live callers of the current epoch, and
its evidence never outlives its publisher unnoticed; bindings are never left to a
dead owner, nor current by the step that takes their topology, epoch or owner away;
references that were looked up keep resolving and the tables move forward; a save
is atomic against kills and I/O errors; a restarted coordinator finds nothing
eligible until another incarnation than the persisted one has registered with it
and published a higher generation; the topology walk records ancestors of the node's
own chain, ends on every topology without a cycle and yields no snapshot of one with
a cycle; `decide` is sound and complete with
respect to its hard constraints, which the property states from the records and
not through the code's own functions; an ingest that is interrupted anywhere
leaves a closed prefix, and its order never makes it fail; a query never selects
on the word of a retired incarnation; on one machine, further ingests never take
back a full allowance as long as the generation and epoch recorded in the
decision are still in force, which is what a holder of the decision can compare;
saved states load, and recovered identities do not drift.

Deadlock is checked in the registry, coordinator, engine and codec runs. The topology and policy
runs switch it off: `build` and `decide` are calls that return.

Fairness. `CoordinatorSpec` has weak fairness on the steps of the running
coordinator: the process is scheduled and no step of it waits for anything before
it serves. Workers are not fair: they may never write. `TopologyBuilder` has weak
fairness on the loop of `finalize`, which is inside one call; callers need not call
`build`. The registry, the engine and the codec have no fairness: only safety is
checked of them.

Each property of a passing run has a mutant in `PROJECT.json`: a definition with a
plausible mistake (a dropped comparison, a missing reset, an off-by-one), under
which the same run finds the property violated.

### Where code and documentation disagree

Three runs check a sentence of the README, a comment or a header, and TLC refutes
it on the smallest instance. The quoted lines are in `PROJECT.json`, `findings`.

| Run | The code does this |
|---|---|
| `ClaimRestart` | `coordinator_restart` leaves NICs of the old epoch `AVAILABLE`, with no live publisher |
| `ClaimRelaunch` | the epoch of a restart is never saved: two restarts in a row serve under the same one |
| `ClaimRoundTrip` | with a signed `char`, `Reader::u16` turns a vendor id such as 0x8086 into 0xFF86, so the persisted PCI identity does not come back |

Further departures that the models show and no run of their own is spent on. The
first six lie right beside a passing property, which stops short of the documented
sentence and says so in its comment:

* `register_attachment` does not look the GPU of an attachment up, so an attachment
  of a GPU the registry does not hold is stored (`src/registry.cpp:332-335`;
  `include/nicresidency/registry.hpp:9`: "no attachment references nonexistent
  resources"). `CheckedReferencesResolve` leaves the GPU out;
* `register_attachment` and `publish_residency` do not compare the topology
  generation a binding was computed against, so one that arrives after a topology
  change is stored as current (`src/registry.cpp:345`; `README.md:34`: "stale rejection
  (stale topology, ...)"), and `register_nic` with a newer generation leaves dependents
  alone, only `advance_nic_generation` invalidates them (`src/registry.cpp:94`;
  `README.md:115`: "a NIC generation advance invalidates dependent functions / queues /
  attachments / residencies"). `LostBasisInvalidates` speaks of the step that changes
  the topology, the epoch or the owner, of bindings that are registered by then;
* `run_restart` decodes the epoch of frame B, never compares it and registers what
  the frame says under the new epoch, so a frame written in the prior epoch by
  another incarnation restores authority (`tools/nic_residency_coordinator.cpp:292`;
  `README.md:122-123` and `233-234`: "prior-epoch traffic is rejected").
  `AuthorityOnlyFromNewIncarnation` speaks of incarnations and generations, not of the
  epoch in a frame;
* `finalize` overwrites what it has found on the way up, so the outermost root
  complex and switch are recorded (`include/nicresidency/topology.hpp:205-206`; the
  comment at line 195: "Compute the nearest root-complex and switch ancestor").
  `AncestorsAreOwn` does not say which of several is recorded; `BuildsFinalizedHolds`
  proves that it is the outermost;
* `rank` looks at neither readiness nor freshness, the weight of local memory never
  counts because nothing sets that factor, and capabilities weigh 0 by default, so of
  two NICs that differ in health alone the one with the lesser id is selected, degraded
  or not (`src/policy.cpp:212-231`; `README.md:133-135` names all of these as ranking
  factors before the tie-break). `DominatedNeverSelected` breaks ties by id only
  between NICs that differ in nothing but their place;
* of a history record `serialize` writes neither the attachment and capability
  generations nor the locality, the policy, the provenance and the freshness, and
  `deserialize` leaves them at their defaults: the `REAL` residency that `run_first` saves
  is loaded as `UNSUPPORTED` (`src/persistence.cpp:208-213`, `259-267`;
  `README.md:192-193`: "The kind is preserved end-to-end and never silently changes
  across a reload or a derivation"). `LoadIsFaithful` speaks of the fields that are
  written.

The others:

* a rejected `register_nic` leaves its id in `worker_nics_`
  (`src/registry.cpp:60`, against `include/nicresidency/registry.hpp:112-114`), so the
  caller's death may demote another worker's NIC;
* nothing clears the `authoritative` flag of a decision
  (`include/nicresidency/residency.hpp:79-80`); a holder has to compare the
  generation and the epoch it records;
* a topology of the stored generation replaces the one held, whichever machine it
  is of (`src/registry.cpp:298`): with two machines `AllowanceIsNotRetracted` fails,
  which is why it asks for `one_host`;
* all backends publish at generation 1, so discovering again does not revive a NIC
  that a death demoted;
* an adapter at PCI address 0 has the null id; its rejection ends the ingest of all
  adapters after it and of the topology;
* a full NIC table refuses newer generations of the NICs it holds
  (`src/registry.cpp:64`);
* a string of 128 to 255 characters makes a state file that `load` refuses, for the
  same reason as `ClaimRoundTrip`;
* a dead worker's functions stay current and owned: `worker_retired` does not visit
  `functions_` (`README.md:119-120` says otherwise);
* a repeated `publish_residency` at an equal generation is appended a second time
  (`include/nicresidency/registry.hpp:13`), and `retire_residency` retires the first copy;
* the largest generation is followed by 0 (`registry.hpp:10`, "generations never
  decrease"); `NothingGoesBack` therefore excepts the wrap;
* the invalidation loops take a residency out of `RETIRED` (`README.md:124-125`);
* when the two workers of `run_restart` have different ids, the boot of frame A
  stays registered in the new epoch (comment at
  `tools/nic_residency_coordinator.cpp:248`);
* `build` does not return when parents form a cycle, which `add_node` accepts and no
  backend produces; `BuildReturns` excepts it and `BuiltOnlyWithoutCycles` states it;
* a host device at 00:00.0 is looked up as the root complex or as the switch of bus
  0, depending on which bus was enumerated first;
* the history of a recovered state keeps its lifecycle, ownership and owner as they
  were; only its freshness is reset (`src/persistence.cpp:259-267`);
* the host topology joins switches to the root complex by edges only, which
  `finalize` does not follow, so host devices have no root complex in common
  (`README.md:283-284`);
* a locality statement about one synthetic and one real node is labelled real
  (`README.md:192-193`);
* `rank` adds no refinement from the locality cost (comment at
  `src/policy.cpp:229-230`).

## 4. Proofs

All safety invariants that the passing runs check, all but one of the action
properties, and both refinements are theorems: they hold for every value of the
constants. Each was model-checked first, and so was each inductive invariant.

### Registry (`NicRegistryProofs`, `RegistryTableProofs`)

For all sets of workers, boots and ids, all limits and all bounds, from
`BoundsAssumption` (the bounds are naturals below the modulus), `NoneAssumption`
(`None` is no id and no record) and `InputsAssumption` (callers pass enumerators of
the right type).

* `TypeCorrect`: `Spec => []TypeOK`. One lemma per mutator (`Type...`); lemmas on
  `Demoted`, `Staled`, `Revalidating` and `Disowned` say what the invalidation
  loops preserve.
* `LiveEvidenceHolds`: `Spec => []LiveEvidence`. `LiveEvidence` alone is not
  inductive: `coordinator_restart` moves to a later epoch, and a record whose
  publication claimed that epoch in advance would suddenly count. The invariant
  is `EvidenceInv == TypeOK /\ PublishersKnown /\ LiveEvidence`, where
  `PublishersKnown` says that each stored NIC has a publisher whose epoch is not
  in the future. The interesting cases are `worker_retired`, which demotes exactly
  the ids in `worker_nics_`; `register_worker`, which accepts only a worker that
  has no live boot, or the live boot again; and `register_nic`, whose caller both
  is live and has just been entered in `worker_nics_`.
* `AuthorityImplemented`: `Spec => ImplementsAuthority`, the refinement of
  `EvidenceAuthority`, from `EvidenceInv` before and after each step. One lemma per
  mutator that touches workers or NICs says which abstract step it is:
  `register_worker` is `Join` or a stutter, `register_nic` is `Vouch`, `Withdraw` or a
  stutter, `advance_nic_generation` is a stutter, `coordinator_restart` is `NewEpoch`
  because of `PublishersKnown`, and `worker_retired` is `Leave`: if the worker still
  vouched for a NIC afterwards, `LiveEvidence` would find that NIC in its
  `worker_nics_`, which has just been emptied. All other mutators leave what the
  mapping reads alone (`EvidenceUntouched`).
* `OwnersAreLiveHolds`: `Spec => []OwnersAreLive`, with
  `OwnerInv == TypeOK /\ OwnersAreLive`. Invalidation loops keep owners; a death or
  a restart clears those it must; a binding is stored only with its caller, which
  `EnsureAuthority` has just compared with `workers_`, as owner. This rests on the
  callers naming themselves or nobody (`Owners`): the registry does not compare the
  owner fields of a record with its caller.
* `NothingGoesBackHolds`, `NewEvidenceNeedsNewGenerationHolds`: the action
  properties. `TablesMove` says in one formula per table (`NicsMove`,
  `FunctionsMove`, ...) which shapes a step can give it: untouched, demoted,
  disowned, one record replaced by a newer one, one generation advanced. Every
  mutator is shown once to be such a move, and the properties follow from the moves.
* `CheckedReferencesResolveHolds`: records are never removed, so a reference that was
  checked when it was stored stays resolved; follows from `TypeOK` and the moves.
* `ResidenciesInGenerationOrderHolds`: over vectors of any length; a publication is
  appended only when it is not older than any entry of its id.
* `LostBasisInvalidatesHolds`: each mutator that takes a binding's topology, epoch or
  owner away leaves it in a state that is not current. A death is the hard case: the
  loops of `worker_retired` visit the bindings the dead incarnation owns, and
  `OwnersAreLive` says that no other binding named it.

### Coordinator (`CoordinatorProofs`)

`CoordinatorAssumption` adds that the coordinator's two generations are among those
explored and that frames differ from the marks for a torn or missing file.
`CoordinatorInv` is the program's proof outline: `FirstPhase` and `RestartPhase` say
at each `pc` what is decoded, what the registry holds and whose word it is,
`DownIsBlank` that a killed process leaves nothing in memory, `FilesWhole` that the
state file is missing or whole and is there once success was reported. None of the
properties is inductive without it: they speak of a serving process, and what it
serves was put there many steps earlier. From it follow `CoordinatorTypeCorrect`,
`SavedStateIsWholeHolds`, `ServesWhatItPersistedHolds`, `OldBootIsFencedHolds` and
`AuthorityOnlyFromNewIncarnationHolds`; and `AtomicStoreImplemented`, the
refinement of `AtomicStore`, one lemma for each kind of step: a stutter, the start
of a save, the commit, an abandoned save, a read.

### Policy (`PolicyProofs`)

For any number of NICs and every snapshot, topology, target and policy. `PolicyInv`:
candidates were evaluated in id order up to `max_candidates`, each has its own
result, and a decision is the first of the allowed candidates in the sort order, or
the gravest refusal (`InOrder`, `Outcome`). The comparator is shown to be a strict
order that is total on distinct ids, so the least candidate exists and is unique.
`SelectsExactlyWhenPossibleHolds`, `UnknownNeverAllowedHolds` and
`RevalidationIsReportedHolds` follow for every policy. `DominatedNeverSelectedHolds`
has the hypothesis that every policy in `PolicyChoices` satisfies
`PrefersLocality`: no weight is positive, those of the switch, the root complex and
the CPU are negative, capabilities weigh nothing. The default weights satisfy it
(`DefaultPrefersLocality`); a policy with other weights may well trade a shared
switch for a capability, and does so by design.

### Engine (`EngineProofs`)

For any plans and sites, from `PlansAssumption`: a plan is a sequence of discovery
results of the shape that the backends produce (`IsDiscovery`).

* `EngineUsesRegistry`: `EngineSpec => Spec`. Each process's call is one of the
  registry's actions with arguments the registry's own specification allows, so
  every theorem about the registry holds of the engine's.
* `SelectsLiveEvidenceHolds`: from that and `LiveEvidence`.
* `IngestLeavesPrefixHolds` and `IngestOrderIsClosedHolds`: `EngineInv` says of each
  running process where it is in its plan, with one exception for each discovery
  that failed (`PlaceOK`), that the calls that have returned are held (`PrefixOK`), and
  that no failed call was for a reference that did not resolve (`FailuresOK`). Steps
  of other processes preserve it because of `NothingGoesBack`. The prefix theorem has
  the hypothesis `NoWrap`: the largest generation explored is not the last of the
  64-bit range, after which `next()` returns to 0 and "held at this generation or a
  later one" means nothing. The order theorem does not need it. Lemmas on the
  concatenation of the NIC, function, port, queue and GPU calls show that every
  reference is to an earlier call (`Closed`).

### State file (`CodecProofs`)

For every limit, byte base and set of states (`CodecAssumption`: the states saved are
of the type `PersistentState`). `CodecInv`: the image is one of the last accepted save,
a load reports on the current image, and what was recovered is `Settled`, that is,
strictly ordered by id, a fixpoint of `ReadU16` and within the limits of `load`.
`RecoveryIsStable` rests on `Settled`: reading a 16-bit field twice yields the same as
reading it once although reading it once may change it (the finding
`ClaimRoundTrip`), and a strictly ordered list has one sorted order. Also proved:
`SavedCanBeLoadedHolds` and `LoadIsFaithfulHolds`, the latter for the fields of a history
record that `serialize` writes.

### Topology (`TopologyProofs`)

`TopologyTypeCorrect`, `BuildsFinalizedHolds` (what `build` returns is the function
`Finalized`), `AncestorsAreOwnHolds`, `SharedSwitchSharesRootHolds` and
`BuiltOnlyWithoutCyclesHolds`, for the builder alone and as driven by
`build_topology`, for any number of nodes and any parent links, cycles included;
`SwitchesFollowBusesHolds` for any enumeration of host devices.
`SystemAssumption` gives the host's ids, addresses and evidence a place in the
builder's constants; PCI segments are 0, as in the code.

`SystemInv == WalkInv /\ LoopInv /\ HostInv`. `WalkInv` is the loop invariant of `finalize`: nodes
already walked have their topmost ancestors (`IsTop`), and `SoFar` says that whatever
the current walk may have missed is still above `cur`. `LoopInv` says that every
cycle above the node being walked is still ahead of the walk, and that the nodes
already walked have none above them.
`HostInv` says that every bus
with a device has one switch, the segment has one root complex and every other
node is a device below the switch of its bus. The model defines the lineage of a node by a
recursive function; `ClimbExists` shows it has a solution, `ClimbSettles` that it
stops growing within as many links as there are nodes, and `LineageStep`,
`LineageTransitive` are then the facts the loop invariant uses.

### How induction is avoided

`OrderLemmas` states that a non-empty set of naturals has a least member and a
finite non-empty order a minimal one. Where a proof needs induction (`ClimbExists`,
the least candidate, sorted lists) it takes the set of counterexamples and its
least member.

### Only model-checked

Liveness is outside what the prover supports: `LaunchSettles` and
`BuildReturns`. `AllowanceIsNotRetracted` relates a decision to all later ones through
the evidence that was current in between; its inductive invariant is the next one to
look for. That the ten fixtures of `SyntheticBackend` and the host backends have
the shape `IsDiscovery` is what TLC evaluates with `PlansAssumption` on the sites of the
`Engine` run. The three documented claims are refuted by TLC and are no theorems.

## 5. Not modelled

* Table limits as properties: the `kMax*` guards are in the actions.
* Power loss: a process is killed, but completed writes are durable.
* Two coordinators at once: the tests launch one at a time. They would share the
  name of the temporary file (`src/persistence.cpp:287`).
* Torn report files, report texts, logging, explanation strings.
* The bytes of the frame codec: a frame is whole or not, and no code sends the
  message types other than publish-nic.
* Unlocked reads: `residencies()` returns a reference, `epoch()` reads without the
  lock; the callers in the repository are single-threaded.
* What SetupAPI and NVML do: their answers are inputs. Argument parsing and printing
  of the CLI, benchmarks and examples.

## 6. Plan

The order is by importance to the promise that stale evidence is never used.

1. Done: registry, coordinator with persistence, topology, policy; the first
   theorems.
2. Done: the engine with its backends and queries, the file format, the two abstract
   specifications and their refinements.
3. Done: the safety properties of registry, coordinator, policy, engine, state file
   and topology proved, with the refinement of `AtomicStore`.
4. `AllowanceIsNotRetracted` as a theorem; the ingest theorems without `NoWrap` for
   plans whose generations stay below the wrap.
5. Two coordinators that share the temporary file name, if the tool is ever run
   that way.
