------------------------------- MODULE Engine -------------------------------
(***************************************************************************)
(* ResidencyEngine (src/src/engine.cpp): processes register as host        *)
(* workers, run backends and ingest what they discover into one registry,  *)
(* while the coordinator retires workers, restarts and answers queries.    *)
(* nic_residency_inspect (src/cli/nic_residency_inspect.cpp) is one such   *)
(* process, alone with its registry; its modes are Inspection.            *)
(*                                                                         *)
(* ingest makes one registry call per record and holds no lock between     *)
(* them, so each call is a step.  The first call that throws ends the      *)
(* ingest and leaves what was registered.                                  *)
(*                                                                         *)
(* NicRegistry keeps of a GPU and of the topology only the generation;     *)
(* what decide reads of them is here.                                      *)
(***************************************************************************)
EXTENDS NicRegistry, HostBackends, PolicyConfig

CONSTANTS
    Plans,           \* plan name -> the discoveries a process makes, in order
    Unavailable,     \* a discover that throws
    Sites            \* the settings explored, each a record:
                     \*   plans     the plans its processes follow
                     \*   gpu, numa the target that is queried
                     \*   one_host  whether the processes share one machine
                     \*   faults    what may happen there beside ingests and
                     \*             queries

VARIABLES
    site,
    used_boots,      \* boot ids drawn by fresh_boot_id so far
    host,            \* the process of each worker, None when there is none
    gpu_place,       \* pci and numa_node of the GPUs the registry holds
    fabric,          \* the topology snapshot the registry holds
    decision         \* the last answer given

evars == <<vars, site, used_boots, host, gpu_place, fabric, decision>>

\* A process that follows a plan: it is at the next-th call of the step-th
\* discovery (0: discover has not been called), in the epoch it read when it
\* began to ingest; failed holds the places where an exception was thrown.
Process(boot, plan) ==
    [boot |-> boot, plan |-> plan, step |-> 1, next |-> 0, epoch |-> 0,
     failed |-> {}]

-----------------------------------------------------------------------------
(* What a backend delivers: records of the types the registry takes, NICs   *)
(* with a null id among them, that refer to records of the same discovery.  *)

NicFound == [id : Nics \cup {0}, generation : Generations, content : Contents,
             lifecycle : PublishedLifecycles]
FunctionFound == [id : Functions, generation : Generations,
                  lifecycle : PublishedLifecycles, parent_nic : Nics]
PortFound == [id : Ports, generation : Generations, parent_nic : Nics,
              parent_function : Functions]
QueueFound == [id : Queues, generation : Generations,
               lifecycle : PublishedLifecycles, parent_nic : Nics,
               parent_function : Functions]
ItemsOf(s) == {s[i] : i \in DOMAIN s}
IdsOf(s) == {s[i].id : i \in DOMAIN s}

IsDiscovery(d) ==
    /\ d.nics \in Seq(NicFound) /\ d.functions \in Seq(FunctionFound)
    /\ d.ports \in Seq(PortFound) /\ d.queues \in Seq(QueueFound)
    /\ d.gpus \in Seq(ItemsOf(d.gpus))
    /\ \A r \in ItemsOf(d.gpus) : r.id \in Gpus /\ r.generation \in Generations
    /\ \A s \in {d.functions, d.ports, d.queues} :
          \A i \in DOMAIN s : s[i].parent_nic \in IdsOf(d.nics)
    /\ \A s \in {d.ports, d.queues} :
          \A i \in DOMAIN s : s[i].parent_function \in IdsOf(d.functions)

ASSUME PlansAssumption ==
    /\ 0 \notin Nics /\ 1 \in TopologyGenerations
    /\ \A s \in Sites : s.plans \subseteq DOMAIN Plans
    /\ \A p \in DOMAIN Plans :
          /\ Plans[p] \in Seq(ItemsOf(Plans[p]))
          /\ \A d \in ItemsOf(Plans[p]) : d # Unavailable => IsDiscovery(d)

-----------------------------------------------------------------------------
(* The calls of ingest                                                     *)

Without(r, fields) == [f \in DOMAIN r \ fields |-> r[f]]

\* One call of each kind, from a record of a discovery result.
NicCall(r) == [kind |-> "nic", id |-> IF r.id = 0 THEN None ELSE r.id,
               rec |-> Without(r, {"id"})]
GpuCall(r) == [kind |-> "gpu", id |-> r.id,
               rec |-> [generation |-> r.generation], place |-> r.place]
TopologyCalls(t) ==
    IF t = NoTopology THEN <<>>
    ELSE <<[kind |-> "topology", generation |-> 1, fabric |-> t]>>
FunctionCall(r) ==
    [kind |-> "function", id |-> r.id,
     rec |-> [generation |-> r.generation, parent_nic |-> r.parent_nic,
              lifecycle |-> r.lifecycle, owner |-> None]]
PortCall(r) == [kind |-> "port", id |-> r.id, rec |-> Without(r, {"id"})]
QueueCall(r) == [kind |-> "queue", id |-> r.id, rec |-> Without(r, {"id"})]

Each(Call(_), s) == [i \in DOMAIN s |-> Call(s[i])]

\* Mutant of IngestCalls: queues before functions.
IngestQueuesFirst(d) ==
    Each(NicCall, d.nics) \o Each(GpuCall, d.gpus) \o TopologyCalls(d.topology)
    \o Each(QueueCall, d.queues) \o Each(FunctionCall, d.functions)
    \o Each(PortCall, d.ports)

IngestCalls(d) ==
    Each(NicCall, d.nics) \o Each(GpuCall, d.gpus) \o TopologyCalls(d.topology)
    \o Each(FunctionCall, d.functions) \o Each(PortCall, d.ports)
    \o Each(QueueCall, d.queues)

\* The calls of each discovery of each plan, none for one that throws.
CallsOf ==
    [p \in DOMAIN Plans |->
        [i \in DOMAIN Plans[p] |->
            IF Plans[p][i] = Unavailable THEN <<>> ELSE IngestCalls(Plans[p][i])]]

\* The discoveries that throw, and the number of discoveries of a plan.
Throwing == UNION {{<<p, i>> : i \in {j \in DOMAIN Plans[p] :
                                         Plans[p][j] = Unavailable}} :
                     p \in DOMAIN Plans}
LengthOf == [p \in DOMAIN Plans |-> Len(Plans[p])]

\* The table a call writes, and its limit.
TableOf(c) ==
    CASE c.kind = "nic" -> nics [] c.kind = "gpu" -> gpus
      [] c.kind = "function" -> functions [] c.kind = "port" -> ports
      [] c.kind = "queue" -> queues
LimitOf(c) ==
    CASE c.kind = "nic" -> kMaxNics [] c.kind = "gpu" -> kMaxGpus
      [] c.kind = "function" -> kMaxFunctions [] c.kind = "port" -> kMaxPorts
      [] c.kind = "queue" -> kMaxQueues

\* What the record references is registered.
Grounded(c) ==
    /\ c.kind \in {"function", "port", "queue"} =>
          c.rec.parent_nic \in Present(nics)
    /\ c.kind \in {"port", "queue"} =>
          c.rec.parent_function \in Present(functions)

\* nic_equal, function_equal, port_equal, queue_equal: all that is published
\* but the lifecycle.
Repeats(c) ==
    LET held == TableOf(c)[c.id]
        fields == {"content", "parent_nic", "parent_function"} \cap DOMAIN c.rec
    IN  /\ held # None
        /\ c.rec.generation = held.generation
        /\ \A f \in fields : c.rec[f] = held[f]

\* The call changes its table.
Stores(c, e, w, b) ==
    /\ EnsureAuthority(e, w, b)
    /\ IF c.kind = "topology" THEN topology # None => c.generation >= topology
       ELSE /\ c.id # None
            /\ Grounded(c)
            /\ BelowLimit(TableOf(c), LimitOf(c))
            /\ IF c.kind = "gpu" THEN NotOlderThan(gpus, c.id, c.rec)
                                 ELSE NewerThan(TableOf(c), c.id, c.rec)

\* The call does not throw.
Returns(c, e, w, b) ==
    \/ Stores(c, e, w, b)
    \/ /\ EnsureAuthority(e, w, b)
       /\ c.kind # "topology" /\ c.id # None
       /\ Grounded(c)
       /\ BelowLimit(TableOf(c), LimitOf(c))
       /\ Repeats(c)

Register(c, e, w, b) ==
    CASE c.kind = "nic" -> RegisterNic(e, w, b, c.id, c.rec)
      [] c.kind = "gpu" -> RegisterGpu(e, w, b, c.id, c.rec)
      [] c.kind = "topology" -> SetTopology(e, w, b, c.generation)
      [] c.kind = "function" -> RegisterFunction(e, w, b, c.id, c.rec)
      [] c.kind = "port" -> RegisterPort(e, w, b, c.id, c.rec)
      [] c.kind = "queue" -> RegisterQueue(e, w, b, c.id, c.rec)

\* What the call does to the registry, whether or not it throws: register_nic
\* leaves a trace of the calls it rejects.
Performed(c, e, w, b) ==
    /\ IF Stores(c, e, w, b) \/ (c.kind = "nic" /\ EnsureAuthority(e, w, b))
       THEN Register(c, e, w, b)
       ELSE UNCHANGED vars
    /\ gpu_place' = IF c.kind = "gpu" /\ Stores(c, e, w, b)
                    THEN [gpu_place EXCEPT ![c.id] = c.place] ELSE gpu_place
    /\ fabric' = IF c.kind = "topology" /\ Stores(c, e, w, b)
                 THEN c.fabric ELSE fabric

-----------------------------------------------------------------------------
(* Processes                                                               *)

\* The discoveries of a mode of nic_residency_inspect: each one of run_system
\* has a handler of its own; run_synthetic and the query make one.
Inspection(mode, machine, scenario) ==
    IF mode = "system"
    THEN <<SystemDiscover(machine.adapters, machine.tree),
           NvidiaDiscover(machine.devices)>>
    ELSE <<SyntheticDiscover(IF mode = "query" THEN "two_numa" ELSE scenario)>>

Running(w) == host[w] # None
Here(w) == host[w].plan
Working(w) == Running(w) /\ host[w].step <= LengthOf[Here(w)]

\* fresh_boot_id is taken to be unique; one fresh id is as good as another, ids
\* being compared for equality only.
FreshBootId == CHOOSE b \in Boots \ used_boots : TRUE

\* register_host_worker.
LaunchHost(w, p) ==
    /\ ~Running(w)
    /\ Boots # used_boots
    /\ RegisterWorker(w, FreshBootId)
    /\ used_boots' = used_boots \cup {FreshBootId}
    /\ host' = [host EXCEPT ![w] = Process(FreshBootId, p)]
    /\ UNCHANGED <<site, gpu_place, fabric, decision>>

\* An exception: the rest of this discovery is skipped.
Thrown(h) == [h EXCEPT !.failed = @ \cup {<<h.step, h.next>>},
                       !.step = @ + 1, !.next = 0]

\* discover, then the call of ingest, which reads the epoch.
Discover(w) ==
    /\ Working(w)
    /\ host[w].next = 0
    /\ host' = [host EXCEPT ![w] =
                  IF <<Here(w), host[w].step>> \in Throwing THEN Thrown(@)
                  ELSE [@ EXCEPT !.next = 1, !.epoch = epoch]]
    /\ UNCHANGED <<vars, site, used_boots, gpu_place, fabric, decision>>

\* The call a process is about to make: a singleton, empty between ingests.
Pending(h) ==
    {calls[h.next] : calls \in {c \in {CallsOf[h.plan][h.step]} :
                                  h.next \in DOMAIN c}}

\* Mutant of Ingest: a rejected record is passed over.
IngestOn(w) ==
    /\ Working(w)
    /\ \E c \in Pending(host[w]) : Performed(c, host[w].epoch, w, host[w].boot)
    /\ host' = [host EXCEPT ![w].next = @ + 1]
    /\ UNCHANGED <<site, used_boots, decision>>

\* The next registry call of an ingest.
Ingest(w) ==
    /\ Working(w)
    /\ \E c \in Pending(host[w]) :
          /\ Performed(c, host[w].epoch, w, host[w].boot)
          /\ host' = [host EXCEPT ![w] =
                        IF Returns(c, @.epoch, w, @.boot)
                        THEN [@ EXCEPT !.next = host[w].next + 1]
                        ELSE Thrown(@)]
    /\ UNCHANGED <<site, used_boots, decision>>

\* ingest returns.
IngestReturns(w) ==
    /\ Working(w)
    /\ host[w].next = Len(CallsOf[Here(w)][host[w].step]) + 1
    /\ host' = [host EXCEPT ![w].step = @ + 1, ![w].next = 0]
    /\ UNCHANGED <<vars, site, used_boots, gpu_place, fabric, decision>>

Die(w) ==
    /\ "die" \in site.faults
    /\ Running(w)
    /\ host' = [host EXCEPT ![w] = None]
    /\ UNCHANGED <<vars, site, used_boots, gpu_place, fabric, decision>>

\* The coordinator retires the worker it has registered, also one that still
\* runs.
Retire(w) ==
    /\ "retire" \in site.faults
    /\ workers[w] # None
    /\ WorkerRetired(w, workers[w])
    /\ UNCHANGED <<site, used_boots, host, gpu_place, fabric, decision>>

Restart ==
    /\ "restart" \in site.faults
    /\ epoch < MaxEpoch
    /\ CoordinatorRestart(epoch + 1)
    /\ UNCHANGED <<site, used_boots, host, gpu_place, fabric, decision>>

\* A host that knows of a change to its NIC advances the generation.
Advance(w, n) ==
    /\ "advance" \in site.faults
    /\ Running(w)
    /\ AdvanceNicGeneration(epoch, w, host[w].boot, n)
    /\ UNCHANGED <<site, used_boots, host, gpu_place, fabric, decision>>

-----------------------------------------------------------------------------
(* Queries                                                                 *)

\* What decide sees of the registry in a snapshot.  The policy of the query
\* requires no health or link state, so what the backends say of them is not
\* kept.
SnapshotNic(n) ==
    [provenance |-> nics[n].content.provenance, lifecycle |-> nics[n].lifecycle,
     capability |-> nics[n].content.capability, health |-> "READY",
     link_state |-> "UP", freshness |-> 1,
     numa_node |-> nics[n].content.numa_node, pci |-> nics[n].content.pci]
SnapshotGpu == IF site.gpu = 0 THEN None ELSE gpu_place[site.gpu]

QueryPolicy == [DefaultPolicy EXCEPT !.allow_synthetic = TRUE]

Policy == INSTANCE ResidencyPolicy
    WITH NicIds <- Nics, NicChoices <- {}, GpuChoices <- {},
         TopologyChoices <- {}, PolicyChoices <- {}, TargetNumas <- {},
         NoGpu <- None, NoTopology <- None,
         gpu <- SnapshotGpu, topology <- fabric, policy <- QueryPolicy,
         target_numa <- site.numa, evaluated <- <<>>

Eligibility(n) == Policy!HardCheck(n, SnapshotNic(n))
Score(n) == Policy!Rank(SnapshotNic(n))

\* run_query: decide on a snapshot.  A snapshot is a copy taken under the lock,
\* so the evaluation, which ResidencyPolicy takes candidate by candidate, is
\* one step here.  REJECTED stands for every refusal; max_candidates is beyond
\* the NICs of the instance.
Query ==
    \E results \in {[n \in Present(nics) |-> [verdict |-> Eligibility(n),
                                              score |-> Score(n)]]} :
        LET allowed == {n \in DOMAIN results :
                           results[n].verdict \in Policy!Allowing}
            first(n) == \A m \in allowed \ {n} :
                            \/ results[n].score < results[m].score
                            \/ results[n].score = results[m].score /\ n < m
        IN  /\ \/ /\ allowed = {}
                  /\ decision' = [selected |-> None, overall |-> "REJECTED",
                                  nic_generation |-> 0, epoch |-> epoch]
               \/ \E n \in allowed :
                     /\ first(n)
                     /\ decision' = [selected |-> n,
                                     overall |-> results[n].verdict,
                                     nic_generation |-> nics[n].generation,
                                     epoch |-> epoch]
            /\ UNCHANGED <<vars, site, used_boots, host, gpu_place, fabric>>

-----------------------------------------------------------------------------
EngineInit ==
    /\ Init /\ epoch = 1
    /\ site \in Sites
    /\ used_boots = {}
    /\ host = [w \in Workers |-> None]
    /\ gpu_place = [g \in Gpus |-> None]
    /\ fabric = None
    /\ decision = None

Progress(w) == Discover(w) \/ Ingest(w) \/ IngestReturns(w)

EngineNext ==
    \/ \E w \in Workers :
          \/ \E p \in site.plans : LaunchHost(w, p)
          \/ Progress(w) \/ Die(w) \/ Retire(w)
          \/ \E n \in Present(nics) : Advance(w, n)
    \/ Restart
    \/ Query

EngineSpec == EngineInit /\ [][EngineNext]_evars

-----------------------------------------------------------------------------
(* Properties                                                              *)

Held(c) ==
    IF c.kind = "topology" THEN topology # None /\ topology >= c.generation
    ELSE /\ c.id # None
         /\ TableOf(c)[c.id] # None
         /\ TableOf(c)[c.id].generation >= c.rec.generation

\* The calls of discovery i that a process has been through without exception.
Passed(w, i) ==
    LET h == host[w]
        thrown == {k \in DOMAIN CallsOf[h.plan][i] \cup {0} : <<i, k>> \in h.failed}
        upto == IF thrown # {} THEN (CHOOSE k \in thrown : TRUE) - 1
                ELSE IF h.step = i THEN h.next - 1
                ELSE IF h.step > i THEN Len(CallsOf[h.plan][i]) ELSE 0
    IN  {CallsOf[h.plan][i][k] : k \in 1 .. upto}

\* An ingest leaves a prefix of its discovery, and all of it when it returns,
\* whoever else publishes, advances or restarts meanwhile: every record up to
\* the exception is held at its generation or a later one.
IngestLeavesPrefix ==
    \A w \in Workers :
        Running(w) =>
            \A i \in DOMAIN CallsOf[Here(w)] :
                \A c \in Passed(w, i) : Held(c)

\* The order in which ingest registers records is right: no ingest ever fails
\* because a record refers to one that has not been registered yet.
IngestOrderIsClosed ==
    \A w \in Workers :
        Running(w) =>
            \A f \in host[w].failed :
                f[2] # 0 => Grounded(CallsOf[host[w].plan][f[1]][f[2]])

\* A query never selects a NIC on the word of an incarnation that has been
\* retired: what it selects was published by a live worker, or in an epoch
\* before the last restart.
SelectsLiveEvidence ==
    [][decision' # decision /\ decision'.selected # None =>
          LET p == publisher[decision'.selected]
          IN  p.epoch = epoch => IsLive(p)]_evars

\* On one machine more evidence never retracts a full allowance: as long as
\* the selected NIC is at the generation the decision recorded, in its epoch,
\* and not demoted, the same query still finds a full allowance, at whatever
\* point of whichever ingest it is asked again.
AllowanceIsNotRetracted ==
    [][/\ decision # None /\ decision.overall = "RESIDENCY_ALLOWED"
       /\ decision' # decision
       /\ site.one_host
       /\ decision.epoch = epoch
       /\ nics[decision.selected].generation = decision.nic_generation
       /\ nics[decision.selected].lifecycle = "AVAILABLE"
       => decision'.overall = "RESIDENCY_ALLOWED"]_evars
=============================================================================
