---------------------------- MODULE NicRegistry ----------------------------
(***************************************************************************)
(* The authority-aware store of NIC residency evidence (class NicRegistry, *)
(* src/include/nicresidency/registry.hpp and src/src/registry.cpp).        *)
(*                                                                         *)
(* Every public mutator takes the one mutex for its whole body, so each is *)
(* one action.  A mutator that throws before it assigns anything is a      *)
(* disabled action; register_nic, which assigns before it validates, is    *)
(* enabled for the calls it rejects too.                                   *)
(*                                                                         *)
(* The C++ maps are total functions over the ids of the model, with None   *)
(* for a key that is not in the map; None also stands for the null id 0    *)
(* and for the null topology pointer.  Fields that no guard reads and no   *)
(* mutator assigns (names, PCI identity, capability, provenance, ...) are  *)
(* one value, content, for a NIC and are left out elsewhere.               *)
(***************************************************************************)
EXTENDS Naturals, FiniteSets, Sequences

CONSTANTS
    Workers, Boots,               \* WorkerId, WorkerBootId values
    Nics, Functions, Ports, Queues, Gpus, Attachments, ResidencyIds,
    Contents,                     \* what nic_equal compares of a NIC
    None,                         \* null id, missing map entry
    kMaxNics, kMaxGpus, kMaxFunctions, kMaxPorts, kMaxQueues,
    kMaxAttachments, kMaxResidencies,
    GenerationModulus,            \* 2^64 in the code
    MaxGeneration,                \* bound: generations explored
    MaxTopologyGeneration,        \* bound: topology generations explored
    MaxEpoch,                     \* bound: coordinator epochs explored
    PublishedLifecycles,          \* lifecycles callers publish
    PublishedAttachmentStates,    \* attachment states callers publish
    PublishedResidencyStates      \* residency states callers publish

VARIABLES
    epoch,         \* epoch_
    workers,       \* workers_: the boot id registered for each worker
    worker_nics,   \* worker_nics_: NIC ids each worker has published
    nics, functions, ports, queues, gpus, attachments,
    residencies,   \* residencies_, a vector
    topology,      \* topology_: the generation of the current snapshot
    publisher      \* history: which incarnation, in which epoch, stored
                   \* the record that nics[n] holds

vars == <<epoch, workers, worker_nics, nics, functions, ports, queues, gpus,
          attachments, residencies, topology, publisher>>

-----------------------------------------------------------------------------
(* Types of records.hpp and enums.hpp                                      *)

Generations == 0 .. MaxGeneration
TopologyGenerations == 0 .. MaxTopologyGeneration
Epochs == 1 .. MaxEpoch

LifecycleState ==
    {"DISCOVERED", "AVAILABLE", "RESERVED_FOR_ATTACHMENT", "ATTACHED",
     "RESIDENT", "DRAINING", "DETACHED", "REVALIDATION_REQUIRED", "FAILED",
     "RETIRED"}
AttachmentState ==
    {"PROPOSED", "VALIDATED", "COMMITTED", "DRAINING", "REVOKED", "STALE",
     "FAILED"}
ResidencyState ==
    {"ABSENT", "DISCOVERED", "AVAILABLE", "RESIDENT", "ATTACHED", "DETACHED",
     "DRAINING", "REVALIDATION_REQUIRED", "STALE", "FAILED", "UNSUPPORTED",
     "RETIRED"}

Incarnation == [worker : Workers, boot : Boots]
Owner == Incarnation \cup {None}         \* owner_worker with owner_boot

NicRecord == [generation : Generations, content : Contents,
              lifecycle : LifecycleState]
FunctionRecord == [generation : Generations, parent_nic : Nics,
                   lifecycle : LifecycleState, owner : Owner]
PortRecord == [generation : Generations, parent_nic : Nics,
               parent_function : Functions \cup {None}]
QueueRecord == [generation : Generations, parent_function : Functions,
                parent_nic : Nics, lifecycle : LifecycleState]
GpuRecord == [generation : Generations]
Attachment == [generation : Generations, nic : Nics,
               function : Functions \cup {None}, port : Ports \cup {None},
               queue : Queues \cup {None}, gpu : Gpus \cup {None},
               topology_generation : TopologyGenerations,
               state : AttachmentState, owner : Owner]
ResidencyRecord == [id : ResidencyIds, generation : Generations, nic : Nics,
                    function : Functions \cup {None},
                    port : Ports \cup {None}, queue : Queues \cup {None},
                    state : ResidencyState, lifecycle : LifecycleState,
                    owner : Owner]
Publication == [worker : Workers, boot : Boots, epoch : Epochs]

ASSUME BoundsAssumption ==
    /\ MaxGeneration \in Nat
    /\ MaxTopologyGeneration \in Nat
    /\ MaxEpoch \in Nat \ {0}
    /\ GenerationModulus \in Nat \ {0}
    /\ MaxGeneration < GenerationModulus
ASSUME LimitsAssumption ==
    {kMaxNics, kMaxGpus, kMaxFunctions, kMaxPorts, kMaxQueues,
     kMaxAttachments, kMaxResidencies} \subseteq Nat
ASSUME NoneAssumption ==
    /\ None \notin Nics \cup Functions \cup Ports \cup Queues \cup Gpus
    /\ None \notin Workers \cup Boots \cup Incarnation \cup Publication
    /\ None \notin NicRecord /\ None \notin FunctionRecord
    /\ None \notin PortRecord /\ None \notin QueueRecord
    /\ None \notin GpuRecord /\ None \notin Attachment
    /\ None \notin TopologyGenerations
ASSUME InputsAssumption ==
    /\ PublishedLifecycles \subseteq LifecycleState
    /\ PublishedAttachmentStates \subseteq AttachmentState
    /\ PublishedResidencyStates \subseteq ResidencyState

TypeOK ==
    /\ epoch \in Epochs
    /\ workers \in [Workers -> Boots \cup {None}]
    /\ worker_nics \in [Workers -> SUBSET (Nics \cup {None})]
    /\ nics \in [Nics -> NicRecord \cup {None}]
    /\ functions \in [Functions -> FunctionRecord \cup {None}]
    /\ ports \in [Ports -> PortRecord \cup {None}]
    /\ queues \in [Queues -> QueueRecord \cup {None}]
    /\ gpus \in [Gpus -> GpuRecord \cup {None}]
    /\ attachments \in [Attachments -> Attachment \cup {None}]
    /\ residencies \in Seq(ResidencyRecord)
    /\ topology \in TopologyGenerations \cup {None}
    /\ publisher \in [Nics -> Publication \cup {None}]

-----------------------------------------------------------------------------
(* Helpers                                                                 *)

\* The keys a C++ map holds.
Present(m) == {k \in DOMAIN m : m[k] # None}

\* Generation::next(): unsigned 64-bit increment.
NextGeneration(g) == (g + 1) % GenerationModulus

\* A map at its limit refuses every call, for a key it holds too.
BelowLimit(m, max) == Cardinality(Present(m)) < max

\* register_attachment and register_gpu store a record of a known id at an
\* equal generation too.
NotOlderThan(m, k, rec) ==
    IF m[k] = None THEN rec.generation # 0
                   ELSE rec.generation >= m[k].generation

\* Mutant of NewerThan: any other generation replaces the stored one.
OtherThan(m, k, rec) ==
    IF m[k] = None THEN rec.generation # 0
                   ELSE rec.generation # m[k].generation

\* The one case in which register_nic, register_function, register_port and
\* register_queue store the record: a new id with a non-zero generation, or a
\* strictly newer generation of a known one.  An equal generation is either an
\* idempotent duplicate or a conflict, an older one is stale: no change.
NewerThan(m, k, rec) ==
    IF m[k] = None THEN rec.generation # 0
                   ELSE rec.generation > m[k].generation

\* Mutant of Resolves: optional references are not looked up.
ResolvesUnchecked(ref, m) == TRUE

\* An optional reference is null or names a known record.
Resolves(ref, m) == ref = None \/ ref \in Present(m)

\* Mutant of Demoted: what a retired worker published is kept as it is.
NotDemoted(m, ks) == m

\* The records of m at the keys ks, marked revalidation-required.
Demoted(m, ks) ==
    [k \in DOMAIN m |->
        IF k \in ks THEN [m[k] EXCEPT !.lifecycle = "REVALIDATION_REQUIRED"]
                    ELSE m[k]]

\* Mutant of Staled: attachments are not invalidated.
NotStaled(ks) == attachments

\* The attachments as marked stale at the ids ks.
Staled(ks) ==
    [a \in Attachments |->
        IF a \in ks THEN [attachments[a] EXCEPT !.state = "STALE"]
                    ELSE attachments[a]]

\* The residency vector with the records at the positions is invalidated.
Revalidating(is) ==
    [i \in DOMAIN residencies |->
        IF i \in is
        THEN [residencies[i] EXCEPT !.state = "REVALIDATION_REQUIRED",
                                    !.lifecycle = "REVALIDATION_REQUIRED"]
        ELSE residencies[i]]

\* Mutants of Disowned: the owner fields are not cleared, or owner_worker is
\* cleared and owner_boot is not.
StillOwned(m, ks) == m
HalfDisowned(m, ks) ==
    [k \in DOMAIN m |->
        IF k \in ks /\ m[k].owner # None
        THEN [m[k] EXCEPT !.owner.worker = None] ELSE m[k]]

\* m with the owner fields cleared at the keys (or positions) ks.
Disowned(m, ks) ==
    [k \in DOMAIN m |-> IF k \in ks THEN [m[k] EXCEPT !.owner = None]
                                    ELSE m[k]]

\* Positions of the residency vector that carry an id.
ResidenciesOf(id) == {i \in DOMAIN residencies : residencies[i].id = id}

-----------------------------------------------------------------------------
(* Construction and worker authority                                       *)

Init ==
    /\ epoch \in Epochs
    /\ workers = [w \in Workers |-> None]
    /\ worker_nics = [w \in Workers |-> {}]
    /\ nics = [n \in Nics |-> None]
    /\ functions = [f \in Functions |-> None]
    /\ ports = [p \in Ports |-> None]
    /\ queues = [q \in Queues |-> None]
    /\ gpus = [g \in Gpus |-> None]
    /\ attachments = [a \in Attachments |-> None]
    /\ residencies = <<>>
    /\ topology = None
    /\ publisher = [n \in Nics |-> None]

\* Mutant of EnsureAuthority: the boot id is not compared.
EnsureWorkerOnly(e, w, b) == e = epoch /\ workers[w] # None

\* The guard of every mutator: the caller's epoch is the current one and the
\* caller is the registered incarnation of its worker.
EnsureAuthority(e, w, b) == e = epoch /\ workers[w] = b

\* Mutant of RegisterWorker: the last registration of a worker id wins.
RegisterWorkerTakeover(w, b) ==
    /\ workers' = [workers EXCEPT ![w] = b]
    /\ UNCHANGED <<epoch, worker_nics, nics, functions, ports, queues, gpus,
                   attachments, residencies, topology, publisher>>

RegisterWorker(w, b) ==
    /\ workers[w] \in {None, b}
    /\ workers' = [workers EXCEPT ![w] = b]
    /\ UNCHANGED <<epoch, worker_nics, nics, functions, ports, queues, gpus,
                   attachments, residencies, topology, publisher>>

WorkerRetired(w, b) ==
    LET me == [worker |-> w, boot |-> b]
        myAttachments == {a \in Present(attachments) :
                             attachments[a].owner = me}
        myResidencies == {i \in DOMAIN residencies :
                             residencies[i].owner = me}
    IN  /\ workers[w] \in {None, b}
        /\ workers' = [workers EXCEPT ![w] = None]
        /\ nics' = Demoted(nics, worker_nics[w] \cap Present(nics))
        /\ worker_nics' = [worker_nics EXCEPT ![w] = {}]
        /\ attachments' = Disowned(Staled(myAttachments), myAttachments)
        /\ residencies' = Disowned(Revalidating(myResidencies), myResidencies)
        /\ UNCHANGED <<epoch, functions, ports, queues, gpus, topology,
                       publisher>>

CoordinatorRestart(e) ==
    /\ e > epoch
    /\ epoch' = e
    /\ workers' = [w \in Workers |-> None]
    /\ worker_nics' = [w \in Workers |-> {}]
    /\ functions' = Disowned(functions, Present(functions))
    /\ attachments' = Disowned(Staled(Present(attachments)),
                               Present(attachments))
    /\ residencies' = Disowned(Revalidating(DOMAIN residencies),
                               DOMAIN residencies)
    /\ UNCHANGED <<nics, ports, queues, gpus, topology, publisher>>

-----------------------------------------------------------------------------
(* Discovery evidence: NICs, functions, ports, queues, GPUs, topology      *)

StoresNic(id, rec) ==
    id \in Nics /\ BelowLimit(nics, kMaxNics) /\ NewerThan(nics, id, rec)

\* The id goes into worker_nics_ before anything is validated, so a rejected
\* call leaves it there.
RegisterNic(e, w, b, id, rec) ==
    /\ EnsureAuthority(e, w, b)
    /\ worker_nics' = [worker_nics EXCEPT ![w] = @ \cup {id}]
    /\ IF StoresNic(id, rec)
       THEN /\ nics' = [nics EXCEPT ![id] = rec]
            /\ publisher' = [publisher EXCEPT ![id] =
                                [worker |-> w, boot |-> b, epoch |-> e]]
       ELSE UNCHANGED <<nics, publisher>>
    /\ UNCHANGED <<epoch, workers, functions, ports, queues, gpus,
                   attachments, residencies, topology>>

AdvanceNicGeneration(e, w, b, id) ==
    /\ EnsureAuthority(e, w, b)
    /\ id \in Present(nics)
    /\ NextGeneration(nics[id].generation) \in Generations
    /\ nics' = [nics EXCEPT ![id].generation = NextGeneration(@)]
    /\ functions' = Demoted(functions, {f \in Present(functions) :
                                           functions[f].parent_nic = id})
    /\ queues' = Demoted(queues, {q \in Present(queues) :
                                     queues[q].parent_nic = id})
    /\ attachments' = Staled({a \in Present(attachments) :
                               attachments[a].nic = id})
    /\ residencies' = Revalidating({i \in DOMAIN residencies :
                                     residencies[i].nic = id})
    /\ UNCHANGED <<epoch, workers, worker_nics, ports, gpus, topology,
                   publisher>>

RegisterFunction(e, w, b, id, rec) ==
    /\ EnsureAuthority(e, w, b)
    /\ rec.parent_nic \in Present(nics)
    /\ BelowLimit(functions, kMaxFunctions)
    /\ NewerThan(functions, id, rec)
    /\ functions' = [functions EXCEPT ![id] = rec]
    /\ UNCHANGED <<epoch, workers, worker_nics, nics, ports, queues, gpus,
                   attachments, residencies, topology, publisher>>

AdvanceFunctionGeneration(e, w, b, id) ==
    /\ EnsureAuthority(e, w, b)
    /\ id \in Present(functions)
    /\ NextGeneration(functions[id].generation) \in Generations
    /\ functions' = [functions EXCEPT ![id].generation = NextGeneration(@)]
    /\ queues' = Demoted(queues, {q \in Present(queues) :
                                     queues[q].parent_function = id})
    /\ attachments' = Staled({a \in Present(attachments) :
                               attachments[a].function = id})
    /\ residencies' = Revalidating({i \in DOMAIN residencies :
                                     residencies[i].function = id})
    /\ UNCHANGED <<epoch, workers, worker_nics, nics, ports, gpus, topology,
                   publisher>>

RegisterPort(e, w, b, id, rec) ==
    /\ EnsureAuthority(e, w, b)
    /\ rec.parent_nic \in Present(nics)
    /\ Resolves(rec.parent_function, functions)
    /\ BelowLimit(ports, kMaxPorts)
    /\ NewerThan(ports, id, rec)
    /\ ports' = [ports EXCEPT ![id] = rec]
    /\ UNCHANGED <<epoch, workers, worker_nics, nics, functions, queues, gpus,
                   attachments, residencies, topology, publisher>>

RegisterQueue(e, w, b, id, rec) ==
    /\ EnsureAuthority(e, w, b)
    /\ rec.parent_function \in Present(functions)
    /\ rec.parent_nic \in Present(nics)
    /\ BelowLimit(queues, kMaxQueues)
    /\ NewerThan(queues, id, rec)
    /\ queues' = [queues EXCEPT ![id] = rec]
    /\ UNCHANGED <<epoch, workers, worker_nics, nics, functions, ports, gpus,
                   attachments, residencies, topology, publisher>>

AdvanceQueueGeneration(e, w, b, id) ==
    /\ EnsureAuthority(e, w, b)
    /\ id \in Present(queues)
    /\ NextGeneration(queues[id].generation) \in Generations
    /\ queues' = [queues EXCEPT ![id].generation = NextGeneration(@)]
    /\ residencies' = Revalidating({i \in DOMAIN residencies :
                                     residencies[i].queue = id})
    /\ UNCHANGED <<epoch, workers, worker_nics, nics, functions, ports, gpus,
                   attachments, topology, publisher>>

\* Accepts the current generation again; every attachment and residency is
\* invalidated either way.
SetTopology(e, w, b, g) ==
    /\ EnsureAuthority(e, w, b)
    /\ topology # None => g >= topology
    /\ topology' = g
    /\ attachments' = Staled(Present(attachments))
    /\ residencies' = Revalidating(DOMAIN residencies)
    /\ UNCHANGED <<epoch, workers, worker_nics, nics, functions, ports,
                   queues, gpus, publisher>>

RegisterGpu(e, w, b, id, rec) ==
    /\ EnsureAuthority(e, w, b)
    /\ BelowLimit(gpus, kMaxGpus)
    /\ NotOlderThan(gpus, id, rec)
    /\ gpus' = [gpus EXCEPT ![id] = rec]
    /\ UNCHANGED <<epoch, workers, worker_nics, nics, functions, ports,
                   queues, attachments, residencies, topology, publisher>>

-----------------------------------------------------------------------------
(* Attachments and residencies                                             *)

\* The references that register_attachment and publish_residency check.  The
\* endpoint GPU of an attachment is not among them.
ReferencesResolve(rec) ==
    /\ rec.nic \in Present(nics)
    /\ Resolves(rec.function, functions)
    /\ Resolves(rec.port, ports)
    /\ Resolves(rec.queue, queues)

RegisterAttachment(e, w, b, id, att) ==
    /\ EnsureAuthority(e, w, b)
    /\ ReferencesResolve(att)
    /\ BelowLimit(attachments, kMaxAttachments)
    /\ NotOlderThan(attachments, id, att)
    /\ attachments' = [attachments EXCEPT ![id] = att]
    /\ UNCHANGED <<epoch, workers, worker_nics, nics, functions, ports,
                   queues, gpus, residencies, topology, publisher>>

RetireAttachment(e, w, b, id) ==
    /\ EnsureAuthority(e, w, b)
    /\ id \in Present(attachments)
    /\ attachments' = [attachments EXCEPT ![id].state = "REVOKED"]
    /\ UNCHANGED <<epoch, workers, worker_nics, nics, functions, ports,
                   queues, gpus, residencies, topology, publisher>>

\* Mutant of PublishResidency: generations are not compared.
PublishAnyGeneration(e, w, b, rec) ==
    /\ EnsureAuthority(e, w, b)
    /\ ReferencesResolve(rec)
    /\ Len(residencies) < kMaxResidencies
    /\ residencies' = Append(residencies, rec)
    /\ UNCHANGED <<epoch, workers, worker_nics, nics, functions, ports,
                   queues, gpus, attachments, topology, publisher>>

PublishResidency(e, w, b, rec) ==
    /\ EnsureAuthority(e, w, b)
    /\ ReferencesResolve(rec)
    /\ Len(residencies) < kMaxResidencies
    /\ \A i \in ResidenciesOf(rec.id) :
          rec.generation >= residencies[i].generation
    /\ residencies' = Append(residencies, rec)
    /\ UNCHANGED <<epoch, workers, worker_nics, nics, functions, ports,
                   queues, gpus, attachments, topology, publisher>>

\* Only the first record of the vector that carries the id is retired.
RetireResidency(e, w, b, id) ==
    /\ EnsureAuthority(e, w, b)
    /\ \E i \in ResidenciesOf(id) :
          /\ \A j \in ResidenciesOf(id) : i <= j
          /\ residencies' = [residencies EXCEPT ![i] =
                                [@ EXCEPT !.state = "RETIRED",
                                          !.lifecycle = "RETIRED"]]
    /\ UNCHANGED <<epoch, workers, worker_nics, nics, functions, ports,
                   queues, gpus, attachments, topology, publisher>>

-----------------------------------------------------------------------------
(* Calls, with the arguments that callers pass                             *)

\* Callers name themselves as the owner, or leave the owner fields null.
Owners(w, b) == {None, [worker |-> w, boot |-> b]}

NicInput == [generation : Generations, content : Contents,
             lifecycle : PublishedLifecycles]
FunctionInput(w, b) ==
    [generation : Generations, parent_nic : Nics,
     lifecycle : PublishedLifecycles, owner : Owners(w, b)]
QueueInput == [generation : Generations, parent_function : Functions,
               parent_nic : Nics, lifecycle : PublishedLifecycles]
AttachmentInput(w, b) ==
    [generation : Generations, nic : Nics, function : Functions \cup {None},
     port : Ports \cup {None}, queue : Queues \cup {None},
     gpu : Gpus \cup {None}, topology_generation : TopologyGenerations,
     state : PublishedAttachmentStates, owner : Owners(w, b)]
ResidencyInput(w, b) ==
    [id : ResidencyIds, generation : Generations, nic : Nics,
     function : Functions \cup {None}, port : Ports \cup {None},
     queue : Queues \cup {None}, state : PublishedResidencyStates,
     lifecycle : PublishedLifecycles, owner : Owners(w, b)]

DiscoveryCall(e, w, b) ==
    \/ \E n \in Nics \cup {None}, rec \in NicInput :
          RegisterNic(e, w, b, n, rec)
    \/ \E n \in Nics : AdvanceNicGeneration(e, w, b, n)
    \/ \E f \in Functions, rec \in FunctionInput(w, b) :
          RegisterFunction(e, w, b, f, rec)
    \/ \E f \in Functions : AdvanceFunctionGeneration(e, w, b, f)
    \/ \E p \in Ports, rec \in PortRecord : RegisterPort(e, w, b, p, rec)
    \/ \E q \in Queues, rec \in QueueInput : RegisterQueue(e, w, b, q, rec)
    \/ \E q \in Queues : AdvanceQueueGeneration(e, w, b, q)
    \/ \E g \in TopologyGenerations : SetTopology(e, w, b, g)
    \/ \E g \in Gpus, rec \in GpuRecord : RegisterGpu(e, w, b, g, rec)

BindingCall(e, w, b) ==
    \/ \E a \in Attachments, att \in AttachmentInput(w, b) :
          RegisterAttachment(e, w, b, a, att)
    \/ \E a \in Attachments : RetireAttachment(e, w, b, a)
    \/ \E rec \in ResidencyInput(w, b) : PublishResidency(e, w, b, rec)
    \/ \E r \in ResidencyIds : RetireResidency(e, w, b, r)

Next ==
    \/ \E w \in Workers, b \in Boots :
          RegisterWorker(w, b) \/ WorkerRetired(w, b)
    \/ \E e \in Epochs : CoordinatorRestart(e)
    \/ \E e \in Epochs, w \in Workers, b \in Boots :
          DiscoveryCall(e, w, b) \/ BindingCall(e, w, b)

Spec == Init /\ [][Next]_vars

-----------------------------------------------------------------------------
(* Properties                                                              *)

Revalidate == "REVALIDATION_REQUIRED"

\* An attachment or residency a consumer may still rely on.
CurrentAttachment(att) == att.state \in {"PROPOSED", "VALIDATED", "COMMITTED",
                                         "DRAINING"}
CurrentResidency(r) == r.state \in {"DISCOVERED", "AVAILABLE", "RESIDENT",
                                    "ATTACHED", "DRAINING"}

IsLive(o) == workers[o.worker] = o.boot

\* What a binding references is in the registry, or null.
BindingIsGrounded(bnd) ==
    /\ bnd.nic \in Present(nics)
    /\ bnd.function \in Present(functions) \cup {None}
    /\ bnd.port \in Present(ports) \cup {None}
    /\ bnd.queue \in Present(queues) \cup {None}

\* Every reference that a registering call looks up resolves ever after: the NIC
\* and function behind a function, port or queue, and the NIC, function, port
\* and queue of an attachment or a residency, through every order in which
\* workers publish and die and the coordinator restarts (registry.hpp, header
\* list).  The GPU of an attachment is looked up by no call and is not among
\* them.
CheckedReferencesResolve ==
    /\ \A f \in Present(functions) : functions[f].parent_nic \in Present(nics)
    /\ \A p \in Present(ports) :
          /\ ports[p].parent_nic \in Present(nics)
          /\ ports[p].parent_function \in Present(functions) \cup {None}
    /\ \A q \in Present(queues) :
          /\ queues[q].parent_nic \in Present(nics)
          /\ queues[q].parent_function \in Present(functions)
    /\ \A a \in Present(attachments) : BindingIsGrounded(attachments[a])
    /\ \A i \in DOMAIN residencies : BindingIsGrounded(residencies[i])

\* NIC evidence stored in the current epoch that is not marked
\* revalidation-required comes from an incarnation that is still registered,
\* and the registry still remembers to demote it when that incarnation dies
\* (worker_retired finds its NICs in worker_nics_).
LiveEvidence ==
    \A n \in Present(nics) :
        nics[n].lifecycle # Revalidate /\ publisher[n].epoch = epoch =>
            /\ IsLive(publisher[n])
            /\ n \in worker_nics[publisher[n].worker]

\* An owner named by an attachment or a residency is a live incarnation of the
\* current epoch: a death, a replacement by a newer boot, a late retirement of
\* an older boot or a restart never leaves a binding owned by nobody alive.
OwnersAreLive ==
    /\ \A a \in Present(attachments) :
          attachments[a].owner # None => IsLive(attachments[a].owner)
    /\ \A i \in DOMAIN residencies :
          residencies[i].owner # None => IsLive(residencies[i].owner)

\* In the residency vector, records of one id appear in generation order: a
\* late publication never lands behind a newer one.
ResidenciesInGenerationOrder ==
    \A i, j \in DOMAIN residencies :
        i < j /\ residencies[i].id = residencies[j].id =>
            residencies[i].generation <= residencies[j].generation

\* From r to r2 the generation does not go down, except that next() wraps at
\* the top of the 64-bit range.
Forward(r, r2) ==
    r2.generation >= r.generation \/ r.generation = GenerationModulus - 1

KeysForward(m, m2) ==
    \A k \in Present(m) : m2[k] # None /\ Forward(m[k], m2[k])

\* No step, of whatever worker in whatever epoch, forgets a record or takes a
\* generation, the topology generation or the epoch back.
NothingGoesBack ==
    [][/\ epoch' >= epoch
       /\ topology # None => topology' # None /\ topology' >= topology
       /\ KeysForward(nics, nics') /\ KeysForward(functions, functions')
       /\ KeysForward(ports, ports') /\ KeysForward(queues, queues')
       /\ KeysForward(gpus, gpus') /\ KeysForward(attachments, attachments')
       /\ Len(residencies') >= Len(residencies)]_vars

\* A record waiting for revalidation stays so unless the generation moved.
Supersedes(r, r2) == r2.generation # r.generation
StaysDemoted(r, r2) ==
    r.lifecycle = Revalidate => r2.lifecycle = Revalidate \/ Supersedes(r, r2)

\* A demoted NIC, function or queue becomes current again, and what a record
\* says about the hardware changes, only together with its generation: a
\* replayed or conflicting publication at the same generation does neither.
NewEvidenceNeedsNewGeneration ==
    [][/\ \A n \in Present(nics) :
             /\ StaysDemoted(nics[n], nics'[n])
             /\ nics'[n].content # nics[n].content =>
                   Supersedes(nics[n], nics'[n])
       /\ \A f \in Present(functions) :
             /\ StaysDemoted(functions[f], functions'[f])
             /\ functions'[f].parent_nic # functions[f].parent_nic =>
                   Supersedes(functions[f], functions'[f])
       /\ \A q \in Present(queues) :
             /\ StaysDemoted(queues[q], queues'[q])
             /\ queues'[q].parent_function # queues[q].parent_function =>
                   Supersedes(queues[q], queues'[q])]_vars

\* What a binding rests on is the same after the step.
BasisKept(bnd) ==
    /\ topology' = topology
    /\ epoch' = epoch
    /\ bnd.owner # None => workers'[bnd.owner.worker] = bnd.owner.boot

\* A binding that loses what it rests on is not current after the step that
\* takes it away: no attachment and no residency, whoever owns it, comes out of
\* a topology change, a restart or its owner's death in a state a consumer may
\* rely on (set_topology, coordinator_restart, worker_retired).
LostBasisInvalidates ==
    [][/\ \A a \in Present(attachments) :
             BasisKept(attachments[a]) \/ ~CurrentAttachment(attachments'[a])
       /\ \A i \in DOMAIN residencies :
             BasisKept(residencies[i]) \/ ~CurrentResidency(residencies'[i])]_vars

\* Who vouches for each NIC: the publisher of a record of the current epoch
\* that does not wait for revalidation.
Vouched ==
    [n \in Nics |->
        IF /\ nics[n] # None /\ nics[n].lifecycle # Revalidate
           /\ publisher[n].epoch = epoch
        THEN [worker |-> publisher[n].worker, boot |-> publisher[n].boot]
        ELSE None]

Authority == INSTANCE EvidenceAuthority WITH live <- workers,
                                             vouched <- Vouched

\* The registry implements EvidenceAuthority: whatever calls arrive, late, twice
\* or out of order, a NIC changes hands only to a live caller of the current
\* epoch, and loses its voucher no later than the voucher's death or the next
\* restart (registry.hpp, header list; worker_retired, coordinator_restart).
ImplementsAuthority == Authority!AuthoritySpec
=============================================================================
