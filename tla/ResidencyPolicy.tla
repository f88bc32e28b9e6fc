-------------------------- MODULE ResidencyPolicy --------------------------
(***************************************************************************)
(* ResidencyPolicy::decide (src/src/policy.cpp): which NIC of a registry   *)
(* snapshot a workload may rely on.  decide is a const member over an      *)
(* immutable snapshot; one evaluation is modelled, from every snapshot,    *)
(* policy and target of the instance, one candidate at a time in the order *)
(* of the NIC map.  Explanations and rejection texts are left out.         *)
(***************************************************************************)
EXTENDS PolicyConfig, Locality, Sequences

CONSTANTS
    NicIds,            \* ids of the snapshot's NICs
    NicChoices,        \* NIC records of snapshots
    GpuChoices,        \* the target GPU's record, NoGpu for none
    TopologyChoices,   \* built topology snapshots, NoTopology for none
    PolicyChoices,
    TargetNumas,       \* target NUMA ids, 0 for none
    NoGpu, NoTopology

VARIABLES
    nics, gpu, topology,     \* the registry snapshot
    policy, target_numa,     \* the request
    evaluated,               \* CandidateResult of each NIC considered so far
    decision                 \* [selected, overall] once decided

pvars == <<nics, gpu, topology, policy, target_numa, evaluated, decision>>

NicLifecycles == {"DISCOVERED", "AVAILABLE", "RESERVED_FOR_ATTACHMENT",
                  "ATTACHED", "RESIDENT", "DRAINING", "DETACHED",
                  "REVALIDATION_REQUIRED", "FAILED", "RETIRED"}
Allowing == {"RESIDENCY_ALLOWED", "RESIDENCY_ALLOWED_DEGRADED"}
Undecided == [selected |-> 0, overall |-> "UNDECIDED"]

ASSUME PolicyAssumption ==
    /\ NicIds \subseteq Nat \ {0} /\ IsFiniteSet(NicIds)
    /\ \A p \in PolicyChoices :
          /\ p.require \subseteq Requirements
          /\ p.weights \in [Weights -> Int]
          /\ p.allow_synthetic \in BOOLEAN
          /\ p.freshness_limit \in Nat /\ p.max_candidates \in Nat
    /\ \A n \in NicChoices :
          /\ n.provenance \in EvidenceKind /\ n.lifecycle \in NicLifecycles
          /\ n.capability \subseteq Capabilities
          /\ n.freshness \in Nat

-----------------------------------------------------------------------------
\* Mutant of Severity: a pending revalidation is reported last.
SeverityInverted(e) == IF e = "REVALIDATION_REQUIRED" THEN 46 ELSE 35

\* severity: which rejection stands for the decision when nothing is allowed.
\* Lower is reported first.
Severity(e) ==
    CASE e = "REVALIDATION_REQUIRED" -> 35
      [] e = "CAPABILITY_MISMATCH" -> 40
      [] e = "NOT_READY" -> 41
      [] e = "NOT_LOCAL" -> 42
      [] e = "POLICY_REJECTED" -> 43
      [] e = "INSUFFICIENT_EVIDENCE" -> 44
      [] e = "UNSUPPORTED" -> 45
      [] e = "NOT_FOUND" -> 46

\* Locality from NUMA ids alone, when there is no topology or no GPU.
NumaLocality(same, affine, cost) ==
    [relationship |-> IF same THEN "SAME_NUMA_NODE" ELSE "UNKNOWN",
     root_complex_same |-> FALSE, pcie_switch_same |-> FALSE,
     numa_same |-> same, cpu_local |-> same,
     accelerator_affine |-> same /\ affine, evidence |-> "REAL",
     cost |-> cost]

\* Mutant of LocalityOf: what the topology says is final.
LocalityOfTopology(nic) ==
    LET onTarget == SameValid(target_numa, nic.numa_node)
        sameRecords == onTarget \/ SameValid(gpu.numa_node, nic.numa_node)
    IN  IF gpu = NoGpu THEN NumaLocality(onTarget, FALSE, 0)
        ELSE IF topology = NoTopology
        THEN NumaLocality(sameRecords, TRUE, DistanceTo(nic.pci, gpu.pci))
        ELSE LocalityBetween(topology, nic.pci, gpu.pci)

\* Equal NUMA ids of the records override what the topology says of NUMA.
LocalityOf(nic) ==
    LET onTarget == SameValid(target_numa, nic.numa_node)
        sameRecords == onTarget \/ SameValid(gpu.numa_node, nic.numa_node)
        loc == IF topology = NoTopology
               THEN NumaLocality(sameRecords, TRUE, DistanceTo(nic.pci, gpu.pci))
               ELSE LocalityBetween(topology, nic.pci, gpu.pci)
    IN  IF gpu = NoGpu THEN NumaLocality(onTarget, FALSE, 0)
        ELSE IF ~sameRecords THEN loc
        ELSE [loc EXCEPT !.numa_same = TRUE, !.cpu_local = TRUE,
                         !.accelerator_affine = TRUE,
                         !.relationship = IF @ \in {"UNKNOWN", "REMOTE_NUMA"}
                                          THEN "SAME_NUMA_NODE" ELSE @]

\* The checks of hard_check in the order in which they are made, each with the
\* eligibility it returns when its condition holds.  The check for a null id is
\* left out: register_nic lets no null id into the map.
Rejections(id, nic) ==
    LET loc == LocalityOf(nic)
        lacks(req, has) == req \in policy.require /\ ~has
        lacksCapability == \E c \in Capabilities : lacks(c, c \in nic.capability)
    IN  << <<nic.provenance = "SYNTHETIC" /\ ~policy.allow_synthetic,
             "INSUFFICIENT_EVIDENCE">>,
           <<nic.provenance = "UNSUPPORTED", "UNSUPPORTED">>,
           <<id \in policy.excluded, "POLICY_REJECTED">>,
           <<nic.lifecycle \in {"REVALIDATION_REQUIRED", "DETACHED"},
             "REVALIDATION_REQUIRED">>,
           <<nic.lifecycle = "FAILED", "NOT_READY">>,
           <<nic.lifecycle = "RETIRED", "NOT_FOUND">>,
           <<nic.lifecycle = "DISCOVERED", "NOT_READY">>,
           <<lacksCapability, "CAPABILITY_MISMATCH">>,
           <<lacks("READY", nic.health = "READY"), "NOT_READY">>,
           <<lacks("LINK_UP", nic.link_state = "UP"), "NOT_READY">>,
           <<nic.freshness > policy.freshness_limit, "REVALIDATION_REQUIRED">>,
           <<lacks("SAME_NUMA", loc.numa_same \/
                                SameValid(target_numa, nic.numa_node)),
             "NOT_LOCAL">>,
           <<lacks("SAME_ROOT_COMPLEX", loc.root_complex_same), "NOT_LOCAL">>,
           <<lacks("SAME_PCIE_SWITCH", loc.pcie_switch_same), "NOT_LOCAL">> >>

\* Mutant of HardCheck: only a remote NUMA node degrades.
HardCheckKnowing(id, nic) ==
    LET checks == Rejections(id, nic)
        failed == {i \in DOMAIN checks : checks[i][1]}
    IN  IF failed # {}
        THEN checks[CHOOSE i \in failed : \A j \in failed : i <= j][2]
        ELSE IF LocalityOf(nic).relationship = "REMOTE_NUMA"
             THEN "RESIDENCY_ALLOWED_DEGRADED"
             ELSE "RESIDENCY_ALLOWED"

HardCheck(id, nic) ==
    LET checks == Rejections(id, nic)
        failed == {i \in DOMAIN checks : checks[i][1]}
    IN  IF failed # {}
        THEN checks[CHOOSE i \in failed : \A j \in failed : i <= j][2]
        ELSE IF LocalityOf(nic).relationship \in {"REMOTE_NUMA", "UNKNOWN"}
             THEN "RESIDENCY_ALLOWED_DEGRADED"
             ELSE "RESIDENCY_ALLOWED"

\* The weights of the locality factors that hold, plus a bonus per capability.
\* local_memory is set by nobody, so its weight never counts.
Rank(nic) ==
    LET loc == LocalityOf(nic)
        weigh(holds, w) == IF holds THEN policy.weights[w] ELSE 0
    IN  weigh(loc.pcie_switch_same, "SWITCH")
        + weigh(loc.root_complex_same, "ROOT")
        + weigh(loc.numa_same, "NUMA")
        + weigh(loc.accelerator_affine, "ACCELERATOR")
        + weigh(loc.cpu_local, "CPU")
        + policy.weights["CAPABILITY"] * Cardinality(nic.capability)

-----------------------------------------------------------------------------
(* decide                                                                  *)

Init ==
    /\ nics \in [NicIds -> NicChoices]
    /\ gpu \in GpuChoices /\ topology \in TopologyChoices
    /\ policy \in PolicyChoices /\ target_numa \in TargetNumas
    /\ evaluated = <<>>
    /\ decision = Undecided

Remaining == NicIds \ DOMAIN evaluated

\* Mutant of Exhausted: one candidate too many.
ExhaustedLate ==
    Remaining = {} \/ Cardinality(DOMAIN evaluated) > policy.max_candidates

\* The loop stops at max_candidates, before it looks at the rest of the map.
Exhausted ==
    Remaining = {} \/ Cardinality(DOMAIN evaluated) >= policy.max_candidates

EvaluateNext ==
    /\ decision = Undecided
    /\ ~Exhausted
    /\ LET n == CHOOSE i \in Remaining : \A j \in Remaining : i <= j
           verdict == HardCheck(n, nics[n])
           result == [eligibility |-> verdict,
                      rank_score |-> IF verdict \in Allowing
                                     THEN Rank(nics[n]) ELSE 0]
       IN  evaluated' = [i \in DOMAIN evaluated \cup {n} |->
                            IF i = n THEN result ELSE evaluated[i]]
    /\ UNCHANGED <<nics, gpu, topology, policy, target_numa, decision>>

\* Mutant of Before: the highest score comes first.
BeforeDescending(m, n) ==
    \/ evaluated[m].rank_score > evaluated[n].rank_score
    \/ evaluated[m].rank_score = evaluated[n].rank_score /\ m < n

\* The strict total order of the sort: score, then id.
Before(m, n) ==
    \/ evaluated[m].rank_score < evaluated[n].rank_score
    \/ evaluated[m].rank_score = evaluated[n].rank_score /\ m < n

Conclude ==
    LET allowed == {n \in DOMAIN evaluated :
                       evaluated[n].eligibility \in Allowing}
        reasons == {evaluated[n].eligibility : n \in DOMAIN evaluated}
    IN  /\ decision = Undecided
        /\ Exhausted
        /\ decision' =
             IF allowed # {}
             THEN LET top == CHOOSE n \in allowed :
                                \A m \in allowed \ {n} : Before(n, m)
                  IN  [selected |-> top, overall |-> evaluated[top].eligibility]
             ELSE [selected |-> 0,
                   overall |-> IF reasons = {} THEN "NOT_FOUND"
                               ELSE CHOOSE r \in reasons : \A s \in reasons :
                                       Severity(r) <= Severity(s)]
        /\ UNCHANGED <<nics, gpu, topology, policy, target_numa, evaluated>>

Next == EvaluateNext \/ Conclude

Spec == Init /\ [][Next]_pvars

-----------------------------------------------------------------------------
(* Properties.  What a NIC offers is stated here from the records and the   *)
(* topology directly, not through LocalityOf, HardCheck or Rank.            *)

\* What ties a NIC to the target: the switch or root complex it shares with
\* the GPU, and a NUMA node it shares with the target or the GPU.
Factors(nic) ==
    LET placed == gpu # NoGpu /\ topology # NoTopology
    IN  (IF placed /\ SamePcieSwitch(topology, nic.pci, gpu.pci)
         THEN {"SWITCH"} ELSE {}) \cup
        (IF placed /\ SameRootComplex(topology, nic.pci, gpu.pci)
         THEN {"ROOT"} ELSE {}) \cup
        (IF \/ SameValid(target_numa, nic.numa_node)
            \/ gpu # NoGpu /\ SameValid(gpu.numa_node, nic.numa_node)
         THEN {"RECORD_NUMA"} ELSE {}) \cup
        (IF placed /\ SameNumaNode(topology, nic.pci, gpu.pci)
         THEN {"TOPOLOGY_NUMA"} ELSE {})

MeetsPolicy(id, nic) ==
    /\ nic.provenance \in
          {"REAL"} \cup (IF policy.allow_synthetic THEN {"SYNTHETIC"} ELSE {})
    /\ id \notin policy.excluded
    /\ nic.lifecycle \in {"AVAILABLE", "RESERVED_FOR_ATTACHMENT", "ATTACHED",
                           "RESIDENT", "DRAINING"}
    /\ policy.require \cap Capabilities \subseteq nic.capability
    /\ "READY" \in policy.require => nic.health = "READY"
    /\ "LINK_UP" \in policy.require => nic.link_state = "UP"
    /\ nic.freshness <= policy.freshness_limit
    /\ "SAME_NUMA" \in policy.require =>
          Factors(nic) \cap {"RECORD_NUMA", "TOPOLOGY_NUMA"} # {}
    /\ "SAME_ROOT_COMPLEX" \in policy.require => "ROOT" \in Factors(nic)
    /\ "SAME_PCIE_SWITCH" \in policy.require => "SWITCH" \in Factors(nic)

Decided == decision # Undecided

\* The NICs max_candidates leaves for consideration: the least ids.
Considered ==
    {n \in NicIds : Cardinality({m \in NicIds : m < n}) < policy.max_candidates}

Meeting == {n \in Considered : MeetsPolicy(n, nics[n])}

\* decide fails closed and is complete: it selects a NIC that meets every hard
\* constraint whenever one is considered, and never any other NIC.
SelectsExactlyWhenPossible ==
    Decided => /\ decision.selected # 0 <=> Meeting # {}
               /\ decision.selected \in Meeting \cup {0}
               /\ decision.selected = 0 <=> decision.overall \notin Allowing

\* Two NICs that differ at most in where they sit.
Peers(nic, other) ==
    /\ nic.provenance = other.provenance /\ nic.lifecycle = other.lifecycle
    /\ nic.capability = other.capability /\ nic.health = other.health
    /\ nic.link_state = other.link_state /\ nic.freshness = other.freshness

\* The ranking follows locality, then the id: a NIC is never selected over one
\* that is tied to the target in every way it is and in one more, nor over one
\* that is tied in the same ways, differs in nothing else and has a lesser id.
\* Nothing is said of NICs that differ in health or freshness, which rank does
\* not look at.
DominatedNeverSelected ==
    Decided /\ decision.selected # 0 =>
        \A n \in Meeting :
            LET mine == Factors(nics[decision.selected])
                theirs == Factors(nics[n])
            IN  /\ ~(mine \subseteq theirs /\ (theirs \ mine) \cap
                        {"SWITCH", "ROOT", "RECORD_NUMA"} # {})
                /\ mine = theirs /\ Peers(nics[decision.selected], nics[n]) =>
                      decision.selected <= n

\* UNKNOWN never becomes RESIDENCY_ALLOWED: a full allowance rests on a shared
\* device, switch, root complex or NUMA node (README.md:138).
UnknownNeverAllowed ==
    Decided /\ decision.overall = "RESIDENCY_ALLOWED" =>
        \/ Factors(nics[decision.selected]) # {}
        \/ gpu # NoGpu /\ nics[decision.selected].pci = gpu.pci

\* When nothing is selected and some admissible NIC only waits for its
\* evidence to be revalidated, the decision says so, whatever is wrong with
\* the other candidates.
RevalidationIsReported ==
    LET waiting == {n \in Considered :
                       /\ nics[n].lifecycle = "REVALIDATION_REQUIRED"
                       /\ nics[n].provenance = "REAL"
                       /\ n \notin policy.excluded}
    IN  Decided /\ decision.selected = 0 /\ waiting # {} =>
            decision.overall = "REVALIDATION_REQUIRED"
=============================================================================
