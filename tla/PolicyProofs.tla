---------------------------- MODULE PolicyProofs ----------------------------
(***************************************************************************)
(* Proofs about ResidencyPolicy: decide is sound, complete, monotone in    *)
(* the locality factors and honest about what it does not know, for every  *)
(* snapshot, topology, target and policy, and any number of NICs.          *)
(***************************************************************************)
EXTENDS ResidencyPolicy, OrderLemmas

Rejecting == {"REVALIDATION_REQUIRED", "CAPABILITY_MISMATCH", "NOT_READY",
              "NOT_LOCAL", "POLICY_REJECTED", "INSUFFICIENT_EVIDENCE",
              "UNSUPPORTED", "NOT_FOUND"}

\* The checks of hard_check that reject a NIC.
Failed(id, nic) == {i \in 1 .. 14 : Rejections(id, nic)[i][1]}

\* Every check that fails names an eligibility that allows nothing.
LEMMA RejectionShape ==
    ASSUME NEW id, NEW nic
    PROVE  /\ DOMAIN Rejections(id, nic) = 1 .. 14
           /\ \A i \in 1 .. 14 : Rejections(id, nic)[i][2] \in Rejecting
  BY DEF Rejections, Rejecting

\* hard_check returns what its first failing check says.
LEMMA HardCheckFirst ==
    ASSUME NEW id, NEW nic
    PROVE  /\ Failed(id, nic) = {} =>
                HardCheck(id, nic) =
                  IF LocalityOf(nic).relationship \in {"REMOTE_NUMA", "UNKNOWN"}
                  THEN "RESIDENCY_ALLOWED_DEGRADED" ELSE "RESIDENCY_ALLOWED"
           /\ Failed(id, nic) # {} =>
                \E i \in Failed(id, nic) :
                   /\ \A j \in Failed(id, nic) : i <= j
                   /\ HardCheck(id, nic) = Rejections(id, nic)[i][2]
<1> DEFINE F == {i \in DOMAIN Rejections(id, nic) : Rejections(id, nic)[i][1]}
<1>1. F = Failed(id, nic)
  BY RejectionShape DEF Failed
<1>2. HardCheck(id, nic) =
        IF F # {}
        THEN Rejections(id, nic)[CHOOSE i \in F : \A j \in F : i <= j][2]
        ELSE IF LocalityOf(nic).relationship \in {"REMOTE_NUMA", "UNKNOWN"}
             THEN "RESIDENCY_ALLOWED_DEGRADED" ELSE "RESIDENCY_ALLOWED"
  BY DEF HardCheck
<1>3. F \subseteq Nat
  BY RejectionShape
<1> HIDE DEF F
<1>4. F # {} => \E i \in F : \A j \in F : i <= j
  BY <1>3, LeastNatural
<1> QED
  BY <1>1, <1>2, <1>4

\* hard_check allows exactly the NICs that fail no check.
LEMMA AllowedIffNoneFailed ==
    ASSUME NEW id, NEW nic
    PROVE  /\ HardCheck(id, nic) \in Allowing \cup Rejecting
           /\ HardCheck(id, nic) \in Allowing <=> Failed(id, nic) = {}
<1>1. CASE Failed(id, nic) = {}
  BY <1>1, HardCheckFirst DEF Allowing
<1>2. CASE Failed(id, nic) # {}
  <2>1. HardCheck(id, nic) \in Rejecting
    BY <1>2, HardCheckFirst, RejectionShape DEF Failed
  <2> QED
    BY <1>2, <2>1 DEF Rejecting, Allowing
<1> QED
  BY <1>1, <1>2

\* The locality factors that rank and reject a NIC are the ones that tie it to
\* the target.
LEMMA LocalityFactors ==
    ASSUME NEW nic
    PROVE  LET loc == LocalityOf(nic) IN
           /\ loc.pcie_switch_same <=> "SWITCH" \in Factors(nic)
           /\ loc.root_complex_same <=> "ROOT" \in Factors(nic)
           /\ loc.numa_same <=>
                Factors(nic) \cap {"RECORD_NUMA", "TOPOLOGY_NUMA"} # {}
           /\ loc.cpu_local <=> "RECORD_NUMA" \in Factors(nic)
           /\ loc.accelerator_affine <=>
                gpu # NoGpu /\ "RECORD_NUMA" \in Factors(nic)
           /\ loc.relationship \notin {"REMOTE_NUMA", "UNKNOWN"} =>
                \/ Factors(nic) # {}
                \/ gpu # NoGpu /\ nic.pci = gpu.pci
<1>1. CASE gpu = NoGpu
  BY <1>1 DEF LocalityOf, NumaLocality, Factors
<1>2. CASE gpu # NoGpu /\ topology = NoTopology
  BY <1>2 DEF LocalityOf, NumaLocality, Factors
<1>3. CASE gpu # NoGpu /\ topology # NoTopology
  BY <1>3 DEF LocalityOf, LocalityBetween, Classify, Factors
<1> QED
  BY <1>1, <1>2, <1>3

\* hard_check fails no check of exactly the NICs that meet the policy.
LEMMA MeetsIffNoneFailed ==
    ASSUME NEW id, NEW nic \in NicChoices, policy \in PolicyChoices
    PROVE  Failed(id, nic) = {} <=> MeetsPolicy(id, nic)
<1>1. /\ nic.provenance \in EvidenceKind /\ nic.lifecycle \in NicLifecycles
      /\ nic.freshness \in Nat /\ policy.freshness_limit \in Nat
      /\ policy.allow_synthetic \in BOOLEAN
  BY PolicyAssumption
<1> DEFINE R(i) == Rejections(id, nic)[i][1]
           loc == LocalityOf(nic)
<1>2. Failed(id, nic) = {} <=> \A i \in 1 .. 14 : ~R(i)
  BY DEF Failed
<1>3. /\ R(1) <=> nic.provenance = "SYNTHETIC" /\ ~policy.allow_synthetic
      /\ R(2) <=> nic.provenance = "UNSUPPORTED"
      /\ R(3) <=> id \in policy.excluded
      /\ R(4) <=> nic.lifecycle \in {"REVALIDATION_REQUIRED", "DETACHED"}
      /\ R(5) <=> nic.lifecycle = "FAILED"
      /\ R(6) <=> nic.lifecycle = "RETIRED"
      /\ R(7) <=> nic.lifecycle = "DISCOVERED"
  BY DEF Rejections
<1>4. /\ R(8) <=> \E c \in Capabilities : c \in policy.require /\ c \notin nic.capability
      /\ R(9) <=> "READY" \in policy.require /\ nic.health # "READY"
      /\ R(10) <=> "LINK_UP" \in policy.require /\ nic.link_state # "UP"
      /\ R(11) <=> nic.freshness > policy.freshness_limit
  BY DEF Rejections
<1>5. /\ R(12) <=> /\ "SAME_NUMA" \in policy.require
                   /\ ~(loc.numa_same \/ SameValid(target_numa, nic.numa_node))
      /\ R(13) <=> "SAME_ROOT_COMPLEX" \in policy.require /\ ~loc.root_complex_same
      /\ R(14) <=> "SAME_PCIE_SWITCH" \in policy.require /\ ~loc.pcie_switch_same
  BY DEF Rejections
<1>6. SameValid(target_numa, nic.numa_node) => "RECORD_NUMA" \in Factors(nic)
  BY DEF Factors
<1>7. (\A i \in 1 .. 14 : ~R(i)) <=>
        /\ ~R(1) /\ ~R(2) /\ ~R(3) /\ ~R(4) /\ ~R(5) /\ ~R(6) /\ ~R(7)
        /\ ~R(8) /\ ~R(9) /\ ~R(10) /\ ~R(11) /\ ~R(12) /\ ~R(13) /\ ~R(14)
  <2> HIDE DEF R
  <2>1. \A i \in 1 .. 14 : i \in {1, 2, 3, 4, 5, 6, 7, 8, 9, 10, 11, 12, 13, 14}
    OBVIOUS
  <2> QED
    BY <2>1
<1> DEFINE Numa == "SAME_NUMA" \in policy.require =>
                     Factors(nic) \cap {"RECORD_NUMA", "TOPOLOGY_NUMA"} # {}
           Root == "SAME_ROOT_COMPLEX" \in policy.require => "ROOT" \in Factors(nic)
           Switch == "SAME_PCIE_SWITCH" \in policy.require => "SWITCH" \in Factors(nic)
<1>8. /\ ~R(12) <=> Numa
      /\ ~R(13) <=> Root
      /\ ~R(14) <=> Switch
  <2> HIDE DEF R
  <2> QED
    BY <1>5, <1>6, LocalityFactors
<1>9. ~R(1) /\ ~R(2) <=>
        nic.provenance \in
          {"REAL"} \cup (IF policy.allow_synthetic THEN {"SYNTHETIC"} ELSE {})
  <2> HIDE DEF R
  <2> QED
    BY <1>1, <1>3 DEF EvidenceKind
<1>10. ~R(4) /\ ~R(5) /\ ~R(6) /\ ~R(7) <=>
        nic.lifecycle \in {"AVAILABLE", "RESERVED_FOR_ATTACHMENT", "ATTACHED",
                           "RESIDENT", "DRAINING"}
  <2> HIDE DEF R
  <2> QED
    BY <1>1, <1>3 DEF NicLifecycles
<1>11. /\ ~R(8) <=> policy.require \cap Capabilities \subseteq nic.capability
       /\ ~R(9) <=> ("READY" \in policy.require => nic.health = "READY")
       /\ ~R(10) <=> ("LINK_UP" \in policy.require => nic.link_state = "UP")
       /\ ~R(11) <=> nic.freshness <= policy.freshness_limit
  <2> HIDE DEF R
  <2> QED
    BY <1>1, <1>4
<1> HIDE DEF R, loc
<1> QED
  BY <1>2, <1>3, <1>7, <1>8, <1>9, <1>10, <1>11 DEF MeetsPolicy

\* rank yields an integer for every NIC and policy.
LEMMA RankType ==
    ASSUME NEW nic \in NicChoices, policy \in PolicyChoices
    PROVE  /\ Rank(nic) \in Int
           /\ Cardinality(nic.capability) \in Nat
<1>1. policy.weights \in [Weights -> Int] /\ nic.capability \in SUBSET Capabilities
  BY PolicyAssumption
<1>2. IsFiniteSet(Capabilities)
  <2> DEFINE C1 == {"RDMA"}
             C2 == C1 \cup {"SRIOV"}
             C3 == C2 \cup {"OFFLOAD"}
             C4 == C3 \cup {"LOCAL_MEMORY"}
             C5 == C4 \cup {"ACCELERATOR_AFFINITY"}
  <2>1. IsFiniteSet(C1)
    BY FS_Singleton
  <2>2. IsFiniteSet(C2)
    BY <2>1, FS_AddElement
  <2>3. IsFiniteSet(C3)
    BY <2>2, FS_AddElement
  <2>4. IsFiniteSet(C4)
    BY <2>3, FS_AddElement
  <2>5. IsFiniteSet(C5)
    BY <2>4, FS_AddElement
  <2>6. Capabilities = C5
    BY DEF Capabilities
  <2> QED
    BY <2>5, <2>6
<1>3. Cardinality(nic.capability) \in Nat
  BY <1>1, <1>2, FS_Subset, FS_CardinalityType
<1>4. \A w \in Weights : policy.weights[w] \in Int
  BY <1>1
<1>5. policy.weights["CAPABILITY"] * Cardinality(nic.capability) \in Int
  BY <1>3, <1>4 DEF Weights
<1> QED
  BY <1>3, <1>4, <1>5 DEF Rank, Weights

-----------------------------------------------------------------------------
(* The evaluation.                                                         *)

\* What evaluating a NIC yields.
ResultOf(n) ==
    [eligibility |-> HardCheck(n, nics[n]),
     rank_score |-> IF HardCheck(n, nics[n]) \in Allowing
                    THEN Rank(nics[n]) ELSE 0]

Snapshot == nics \in [NicIds -> NicChoices] /\ policy \in PolicyChoices

\* The candidates were taken in the order of their ids, up to max_candidates,
\* and each has its own result.
InOrder ==
    /\ DOMAIN evaluated \subseteq NicIds
    /\ \A n \in DOMAIN evaluated, m \in NicIds : m < n => m \in DOMAIN evaluated
    /\ Cardinality(DOMAIN evaluated) <= policy.max_candidates
    /\ \A n \in DOMAIN evaluated : evaluated[n] = ResultOf(n)

AllowedSoFar == {n \in DOMAIN evaluated : evaluated[n].eligibility \in Allowing}

\* The decision is the first of the allowed candidates, or the gravest refusal.
Outcome ==
    \/ /\ decision.selected \in AllowedSoFar
       /\ decision.overall = evaluated[decision.selected].eligibility
       /\ \A m \in AllowedSoFar \ {decision.selected} : Before(decision.selected, m)
    \/ /\ AllowedSoFar = {}
       /\ decision.selected = 0
       /\ decision.overall \in
            {"NOT_FOUND"} \cup {evaluated[n].eligibility : n \in DOMAIN evaluated}
       /\ \A n \in DOMAIN evaluated :
            Severity(decision.overall) <= Severity(evaluated[n].eligibility)

PolicyInv ==
    /\ Snapshot
    /\ InOrder
    /\ decision # Undecided => Exhausted /\ Outcome

\* The candidates evaluated so far are finitely many.
LEMMA EvaluatedFinite ==
    ASSUME InOrder
    PROVE  /\ IsFiniteSet(DOMAIN evaluated)
           /\ Cardinality(DOMAIN evaluated) \in Nat
<1>1. DOMAIN evaluated \in SUBSET NicIds /\ IsFiniteSet(NicIds)
  BY PolicyAssumption DEF InOrder
<1>2. IsFiniteSet(DOMAIN evaluated)
  BY <1>1, FS_Subset
<1> QED
  BY <1>2, FS_CardinalityType

\* Before the first candidate there is nothing to be wrong about.
LEMMA PolicyInit == Init => PolicyInv
<1> SUFFICES ASSUME Init PROVE PolicyInv
  OBVIOUS
<1>1. Snapshot /\ decision = Undecided
  BY DEF Init, Snapshot
<1>2. DOMAIN evaluated = {}
  BY DEF Init
<1>3. policy.max_candidates \in Nat
  BY <1>1, PolicyAssumption DEF Snapshot
<1>4. Cardinality(DOMAIN evaluated) = 0
  BY <1>2, FS_EmptySet
<1> QED
  BY <1>1, <1>2, <1>3, <1>4 DEF PolicyInv, InOrder

\* Results do not change while the snapshot and the request stay as they are.
LEMMA ResultsStay ==
    ASSUME UNCHANGED <<nics, gpu, topology, policy, target_numa>>, NEW n
    PROVE  ResultOf(n)' = ResultOf(n)
<1>1. ASSUME NEW nic PROVE LocalityOf(nic)' = LocalityOf(nic)
  BY DEF LocalityOf
<1>2. ASSUME NEW nic, NEW id PROVE Rejections(id, nic)' = Rejections(id, nic)
  BY <1>1 DEF Rejections
<1>3. ASSUME NEW nic, NEW id PROVE HardCheck(id, nic)' = HardCheck(id, nic)
  <2> DEFINE Fail(checks) == {i \in DOMAIN checks : checks[i][1]}
             Verdict(checks, relationship) ==
                IF Fail(checks) # {}
                THEN checks[CHOOSE i \in Fail(checks) :
                               \A j \in Fail(checks) : i <= j][2]
                ELSE IF relationship \in {"REMOTE_NUMA", "UNKNOWN"}
                     THEN "RESIDENCY_ALLOWED_DEGRADED"
                     ELSE "RESIDENCY_ALLOWED"
  <2>1. HardCheck(id, nic) = Verdict(Rejections(id, nic), LocalityOf(nic).relationship)
    BY DEF HardCheck
  <2>2. HardCheck(id, nic)' = Verdict(Rejections(id, nic)', LocalityOf(nic).relationship')
    BY DEF HardCheck
  <2>3. LocalityOf(nic).relationship' = LocalityOf(nic).relationship
    BY <1>1
  <2>4. Rejections(id, nic)' = Rejections(id, nic)
    BY <1>2
  <2> HIDE DEF Verdict
  <2> QED
    BY <2>1, <2>2, <2>3, <2>4
<1>4. ASSUME NEW nic PROVE Rank(nic)' = Rank(nic)
  BY <1>1 DEF Rank
<1> QED
  BY <1>3, <1>4 DEF ResultOf

\* Evaluating the least id that is left keeps the candidates in order.
LEMMA PolicyEvaluateNext == PolicyInv /\ EvaluateNext => PolicyInv'
<1> SUFFICES ASSUME PolicyInv, EvaluateNext PROVE PolicyInv'
  OBVIOUS
<1> DEFINE n == CHOOSE i \in Remaining : \A j \in Remaining : i <= j
<1>1. /\ decision = Undecided /\ decision' = Undecided
      /\ UNCHANGED <<nics, gpu, topology, policy, target_numa>>
      /\ Remaining # {}
      /\ ~(Cardinality(DOMAIN evaluated) >= policy.max_candidates)
  BY DEF EvaluateNext, Exhausted
<1>2. evaluated' = [i \in DOMAIN evaluated \cup {n} |->
                      IF i = n THEN ResultOf(n) ELSE evaluated[i]]
  BY DEF EvaluateNext, ResultOf
<1>3. n \in Remaining /\ \A j \in Remaining : n <= j
  <2>1. Remaining \subseteq Nat
    BY PolicyAssumption DEF Remaining
  <2>2. \E i \in Remaining : \A j \in Remaining : i <= j
    BY <1>1, <2>1, LeastNatural
  <2> QED
    BY <2>2
<1> HIDE DEF n
<1>4. Snapshot'
  BY <1>1 DEF PolicyInv, Snapshot
<1>5. DOMAIN evaluated' = DOMAIN evaluated \cup {n}
  BY <1>2
<1>6. InOrder'
  <2>1. DOMAIN evaluated' \subseteq NicIds
    BY <1>3, <1>5 DEF PolicyInv, InOrder, Remaining
  <2>2. ASSUME NEW k \in DOMAIN evaluated', NEW m \in NicIds, m < k
        PROVE  m \in DOMAIN evaluated'
    <3>1. CASE k \in DOMAIN evaluated
      BY <2>2, <3>1, <1>5 DEF PolicyInv, InOrder
    <3>2. CASE k = n
      <4>1. m \in Nat /\ n \in Nat
        BY <1>3, PolicyAssumption DEF Remaining
      <4>2. m \notin Remaining
        BY <1>3, <2>2, <3>2, <4>1
      <4> QED
        BY <1>5, <4>2 DEF Remaining
    <3> QED
      BY <2>2, <1>5, <3>1, <3>2
  <2>3. Cardinality(DOMAIN evaluated') <= policy'.max_candidates
    <3>1. /\ IsFiniteSet(DOMAIN evaluated)
          /\ Cardinality(DOMAIN evaluated) \in Nat
      BY EvaluatedFinite DEF PolicyInv
    <3>2. Cardinality(DOMAIN evaluated') = Cardinality(DOMAIN evaluated) + 1
      BY <1>3, <1>5, <3>1, FS_AddElement DEF Remaining
    <3>3. policy.max_candidates \in Nat
      BY PolicyAssumption DEF PolicyInv, Snapshot
    <3> QED
      BY <1>1, <3>1, <3>2, <3>3
  <2>4. ASSUME NEW k \in DOMAIN evaluated' PROVE evaluated'[k] = ResultOf(k)'
    <3>1. ResultOf(k)' = ResultOf(k)
      BY <1>1, ResultsStay
    <3>2. evaluated'[k] = ResultOf(k)
      BY <1>2, <1>5 DEF PolicyInv, InOrder
    <3> QED
      BY <3>1, <3>2
  <2> QED
    BY <2>1, <2>2, <2>3, <2>4 DEF InOrder
<1> QED
  BY <1>1, <1>4, <1>6 DEF PolicyInv

\* The order of the sort has a first among the allowed candidates.
LEMMA FirstExists ==
    ASSUME PolicyInv, AllowedSoFar # {}
    PROVE  \E n \in AllowedSoFar : \A m \in AllowedSoFar \ {n} : Before(n, m)
<1> DEFINE R == {p \in AllowedSoFar \X AllowedSoFar : Before(p[1], p[2])}
<1>1. \A n \in AllowedSoFar : n \in Nat /\ evaluated[n].rank_score \in Int
  <2> TAKE n \in AllowedSoFar
  <2>1. n \in NicIds /\ n \in DOMAIN evaluated /\ n \in Nat
    BY PolicyAssumption DEF PolicyInv, InOrder, AllowedSoFar
  <2>2. nics[n] \in NicChoices /\ policy \in PolicyChoices
    BY <2>1 DEF PolicyInv, Snapshot
  <2>3. evaluated[n] = ResultOf(n)
    BY <2>1 DEF PolicyInv, InOrder
  <2>4. Rank(nics[n]) \in Int
    BY <2>2, RankType
  <2> QED
    BY <2>1, <2>3, <2>4 DEF ResultOf
<1>2. IsFiniteSet(AllowedSoFar)
  <2>1. AllowedSoFar \in SUBSET DOMAIN evaluated
    BY DEF AllowedSoFar
  <2> QED
    BY <2>1, EvaluatedFinite, FS_Subset DEF PolicyInv
<1>3. \A x, y \in AllowedSoFar : <<x, y>> \in R <=> Before(x, y)
  OBVIOUS
<1> HIDE DEF R
<1>4. \A x \in AllowedSoFar : <<x, x>> \notin R
  BY <1>1, <1>3 DEF Before
<1>5. \A x, y, z \in AllowedSoFar :
        <<x, y>> \in R /\ <<y, z>> \in R => <<x, z>> \in R
  BY <1>1, <1>3 DEF Before
<1>6. PICK n \in AllowedSoFar : \A m \in AllowedSoFar : <<m, n>> \notin R
  BY <1>2, <1>4, <1>5, MinimalOfFinite
<1>7. \A m \in AllowedSoFar \ {n} : Before(n, m)
  <2> TAKE m \in AllowedSoFar \ {n}
  <2>1. ~Before(m, n)
    BY <1>3, <1>6
  <2>2. /\ m \in Nat /\ n \in Nat /\ m # n
        /\ evaluated[m].rank_score \in Int /\ evaluated[n].rank_score \in Int
    BY <1>1
  <2> QED
    BY <2>1, <2>2 DEF Before
<1> QED
  BY <1>7

\* A pending revalidation is the gravest refusal, NOT_FOUND the least.
LEMMA SeverityBounds ==
    ASSUME NEW e \in Rejecting
    PROVE  /\ Severity(e) \in 35 .. 46
           /\ e # "REVALIDATION_REQUIRED" => Severity(e) > 35
           /\ Severity(e) <= Severity("NOT_FOUND")
  BY DEF Severity, Rejecting

\* The decision is the first of the sorted candidates, or the gravest refusal.
LEMMA PolicyConclude == PolicyInv /\ Conclude => PolicyInv'
<1> SUFFICES ASSUME PolicyInv, Conclude PROVE PolicyInv'
  OBVIOUS
<1> DEFINE reasons == {evaluated[n].eligibility : n \in DOMAIN evaluated}
           top == CHOOSE n \in AllowedSoFar :
                     \A m \in AllowedSoFar \ {n} : Before(n, m)
           gravest == CHOOSE r \in reasons :
                         \A s \in reasons : Severity(r) <= Severity(s)
<1>1. /\ UNCHANGED <<nics, gpu, topology, policy, target_numa, evaluated>>
      /\ Exhausted
  BY DEF Conclude
<1>2. decision' = IF AllowedSoFar # {}
                  THEN [selected |-> top, overall |-> evaluated[top].eligibility]
                  ELSE [selected |-> 0,
                        overall |-> IF reasons = {} THEN "NOT_FOUND" ELSE gravest]
  BY DEF Conclude, AllowedSoFar
<1>3. Snapshot' /\ Exhausted' /\ AllowedSoFar' = AllowedSoFar
  BY <1>1 DEF PolicyInv, Snapshot, Exhausted, Remaining, AllowedSoFar
<1>4. InOrder'
  <2>1. \A n : ResultOf(n)' = ResultOf(n)
    BY <1>1, ResultsStay
  <2> QED
    BY <1>1, <2>1 DEF PolicyInv, InOrder
<1>5. Outcome'
  <2>1. CASE AllowedSoFar # {}
    <3>1. top \in AllowedSoFar /\ \A m \in AllowedSoFar \ {top} : Before(top, m)
      BY <2>1, FirstExists
    <3> HIDE DEF top
    <3>2. PICK t : t = top
      OBVIOUS
    <3>3. decision'.selected = t /\ decision'.overall = evaluated[t].eligibility
      BY <1>2, <2>1, <3>2
    <3>4. \A m : Before(t, m)' <=> Before(t, m)
      BY <1>1 DEF Before
    <3>5. \A m \in AllowedSoFar' \ {t} : Before(t, m)'
      BY <1>3, <3>1, <3>2, <3>4
    <3> QED
      BY <1>1, <1>3, <3>1, <3>2, <3>3, <3>5 DEF Outcome, Before
  <2>2. CASE AllowedSoFar = {}
    <3>1. decision'.selected = 0
      BY <1>2, <2>2
    <3>2. decision'.overall = IF reasons = {} THEN "NOT_FOUND" ELSE gravest
      <4> HIDE DEF gravest, reasons
      <4> QED
        BY <1>2, <2>2
    <3>3. reasons \subseteq Rejecting
      <4> SUFFICES ASSUME NEW n \in DOMAIN evaluated
                   PROVE  evaluated[n].eligibility \in Rejecting
        OBVIOUS
      <4>1. evaluated[n].eligibility = HardCheck(n, nics[n])
        BY DEF PolicyInv, InOrder, ResultOf
      <4>2. evaluated[n].eligibility \notin Allowing
        BY <2>2 DEF AllowedSoFar
      <4> QED
        BY <4>1, <4>2, AllowedIffNoneFailed
    <3>4. reasons # {} =>
            gravest \in reasons /\ \A s \in reasons : Severity(gravest) <= Severity(s)
      <4> DEFINE S == {Severity(r) : r \in reasons}
      <4> HIDE DEF reasons, gravest
      <4>1. S \subseteq Nat /\ (reasons # {} => S # {})
        BY <3>3, SeverityBounds
      <4> HIDE DEF S
      <4>2. S # {} => \E x \in S : \A y \in S : x <= y
        BY <4>1, LeastNatural
      <4> USE DEF S, gravest
      <4>3. reasons # {} =>
              \E r \in reasons : \A s \in reasons : Severity(r) <= Severity(s)
        <5> HIDE DEF gravest
        <5> QED
          BY <4>1, <4>2
      <4> QED
        BY <4>3
    <3>5. /\ decision'.overall \in {"NOT_FOUND"} \cup reasons
          /\ \A s \in reasons : Severity(decision'.overall) <= Severity(s)
      <4> HIDE DEF reasons, gravest
      <4> QED
        BY <3>2, <3>4
    <3> QED
      BY <1>1, <1>3, <2>2, <3>1, <3>5 DEF Outcome
  <2> QED
    BY <2>1, <2>2
<1> QED
  BY <1>3, <1>4, <1>5 DEF PolicyInv

\* The inductive invariant holds.
THEOREM PolicyInvHolds == Spec => []PolicyInv
<1>1. PolicyInv /\ UNCHANGED pvars => PolicyInv'
  <2> SUFFICES ASSUME PolicyInv, UNCHANGED pvars PROVE PolicyInv'
    OBVIOUS
  <2>1. UNCHANGED <<nics, gpu, topology, policy, target_numa>>
        /\ evaluated' = evaluated /\ decision' = decision
    BY DEF pvars
  <2>2. \A n : ResultOf(n)' = ResultOf(n)
    BY <2>1, ResultsStay
  <2>3. Snapshot' /\ InOrder'
    BY <2>1, <2>2 DEF PolicyInv, Snapshot, InOrder
  <2>4. decision # Undecided => Exhausted' /\ Outcome'
    BY <2>1 DEF PolicyInv, Exhausted, Remaining, Outcome, AllowedSoFar, Before
  <2> QED
    BY <2>1, <2>3, <2>4 DEF PolicyInv
<1> QED
  BY PolicyInit, PolicyEvaluateNext, PolicyConclude, <1>1, PTL DEF Spec, Next

\* Once the loop stops, the candidates evaluated are the ones that
\* max_candidates leaves for consideration.
LEMMA EvaluatedIsConsidered ==
    ASSUME PolicyInv, Exhausted
    PROVE  DOMAIN evaluated = Considered
<1> DEFINE D == DOMAIN evaluated
           Lesser(n) == {m \in NicIds : m < n}
<1>1. /\ D \subseteq NicIds /\ NicIds \subseteq Nat /\ IsFiniteSet(NicIds)
      /\ policy.max_candidates \in Nat
  BY PolicyAssumption DEF PolicyInv, InOrder, Snapshot
<1>2. IsFiniteSet(D) /\ Cardinality(D) \in Nat
  BY EvaluatedFinite DEF PolicyInv
<1>3. \A n \in NicIds : IsFiniteSet(Lesser(n)) /\ Cardinality(Lesser(n)) \in Nat
  <2> TAKE n \in NicIds
  <2>1. Lesser(n) \in SUBSET NicIds
    OBVIOUS
  <2> HIDE DEF Lesser
  <2>2. IsFiniteSet(Lesser(n))
    BY <1>1, <2>1, FS_Subset
  <2> QED
    BY <2>2, FS_CardinalityType
<1>4. Cardinality(D) <= policy.max_candidates
  BY DEF PolicyInv, InOrder
<1>5. ASSUME NEW n \in D PROVE Cardinality(Lesser(n)) < policy.max_candidates
  <2>1. n \in NicIds
    BY <1>1
  <2>2. Lesser(n) \in SUBSET D /\ n \notin Lesser(n)
    <3>1. n \in Nat
      BY <1>1, <2>1
    <3>2. ~(n < n)
      BY <3>1
    <3>3. \A m \in NicIds : m < n => m \in D
      BY DEF PolicyInv, InOrder
    <3> QED
      BY <3>2, <3>3
  <2> HIDE DEF D, Lesser
  <2>3. /\ Cardinality(Lesser(n)) <= Cardinality(D)
        /\ Cardinality(Lesser(n)) # Cardinality(D)
    BY <1>2, <2>2, FS_Subset
  <2> QED
    BY <1>1, <1>2, <1>3, <1>4, <2>1, <2>3
<1>6. ASSUME NEW n \in NicIds, n \notin D
      PROVE  ~(Cardinality(Lesser(n)) < policy.max_candidates)
  <2>1. Cardinality(D) >= policy.max_candidates
    BY <1>6 DEF Exhausted, Remaining
  <2>2. D \in SUBSET Lesser(n)
    <3> SUFFICES ASSUME NEW d \in D PROVE d \in NicIds /\ d < n
      OBVIOUS
    <3>1. d \in NicIds /\ d \in Nat /\ n \in Nat /\ d # n
      BY <1>1, <1>6
    <3>2. ~(n < d)
      BY <1>6 DEF PolicyInv, InOrder
    <3> QED
      BY <3>1, <3>2
  <2> HIDE DEF D, Lesser
  <2>3. Cardinality(D) <= Cardinality(Lesser(n))
    BY <1>3, <2>2, FS_Subset
  <2> QED
    BY <1>1, <1>2, <1>3, <2>1, <2>3
<1> QED
  BY <1>1, <1>5, <1>6 DEF Considered

\* The allowed candidates are the considered NICs that meet the policy.
LEMMA AllowedIsMeeting ==
    ASSUME PolicyInv, Exhausted
    PROVE  AllowedSoFar = Meeting
<1>1. DOMAIN evaluated = Considered
  BY EvaluatedIsConsidered
<1>2. ASSUME NEW n \in DOMAIN evaluated
      PROVE  evaluated[n].eligibility \in Allowing <=> MeetsPolicy(n, nics[n])
  <2>1. nics[n] \in NicChoices /\ policy \in PolicyChoices
    BY DEF PolicyInv, InOrder, Snapshot
  <2>2. evaluated[n].eligibility = HardCheck(n, nics[n])
    BY DEF PolicyInv, InOrder, ResultOf
  <2> QED
    BY <2>1, <2>2, AllowedIffNoneFailed, MeetsIffNoneFailed
<1> QED
  BY <1>1, <1>2 DEF AllowedSoFar, Meeting

\* decide selects a NIC that meets every hard constraint exactly when one is
\* among the candidates it considers, and never any other.
THEOREM SelectsExactlyWhenPossibleHolds == Spec => []SelectsExactlyWhenPossible
<1>1. PolicyInv => SelectsExactlyWhenPossible
  <2> SUFFICES ASSUME PolicyInv, Decided PROVE SelectsExactlyWhenPossible
    BY DEF SelectsExactlyWhenPossible
  <2>1. Exhausted /\ Outcome
    BY DEF PolicyInv, Decided
  <2>2. AllowedSoFar = Meeting
    BY <2>1, AllowedIsMeeting
  <2>3. 0 \notin Meeting
    BY PolicyAssumption DEF Meeting, Considered
  <2>4. ASSUME AllowedSoFar = {}, decision.overall \in Allowing PROVE FALSE
    <3>1. decision.overall \in {evaluated[n].eligibility : n \in DOMAIN evaluated}
      BY <2>1, <2>4 DEF Outcome, Allowing
    <3> QED
      BY <2>4, <3>1 DEF AllowedSoFar
  <2>5. decision.selected \in AllowedSoFar => decision.overall \in Allowing
    BY <2>1 DEF Outcome, AllowedSoFar
  <2> QED
    BY <2>1, <2>2, <2>3, <2>4, <2>5 DEF Outcome, SelectsExactlyWhenPossible
<1> QED
  BY <1>1, PolicyInvHolds, PTL

\* A full allowance always rests on something the NIC shares with the target:
\* unknown locality never becomes RESIDENCY_ALLOWED.
THEOREM UnknownNeverAllowedHolds == Spec => []UnknownNeverAllowed
<1>1. PolicyInv => UnknownNeverAllowed
  <2> SUFFICES ASSUME PolicyInv, Decided, decision.overall = "RESIDENCY_ALLOWED"
               PROVE  \/ Factors(nics[decision.selected]) # {}
                      \/ gpu # NoGpu /\ nics[decision.selected].pci = gpu.pci
    BY DEF UnknownNeverAllowed
  <2> DEFINE n == decision.selected
  <2>1. Outcome
    BY DEF PolicyInv, Decided
  <2>2. n \in AllowedSoFar /\ decision.overall = evaluated[n].eligibility
    BY <2>1 DEF Outcome, AllowedSoFar, Allowing
  <2>3. HardCheck(n, nics[n]) = "RESIDENCY_ALLOWED"
    BY <2>2 DEF PolicyInv, InOrder, ResultOf, AllowedSoFar
  <2>4. Failed(n, nics[n]) = {}
    BY <2>3, AllowedIffNoneFailed DEF Allowing
  <2>5. LocalityOf(nics[n]).relationship \notin {"REMOTE_NUMA", "UNKNOWN"}
    BY <2>3, <2>4, HardCheckFirst
  <2> QED
    BY <2>5, LocalityFactors
<1> QED
  BY <1>1, PolicyInvHolds, PTL

\* An admissible NIC whose evidence waits for revalidation is refused for that
\* reason and no other.
LEMMA WaitingIsRefusedAsSuch ==
    ASSUME NEW id, NEW nic, id \notin policy.excluded,
           nic.provenance = "REAL", nic.lifecycle = "REVALIDATION_REQUIRED"
    PROVE  HardCheck(id, nic) = "REVALIDATION_REQUIRED"
<1>1. /\ ~Rejections(id, nic)[1][1] /\ ~Rejections(id, nic)[2][1]
      /\ ~Rejections(id, nic)[3][1] /\ Rejections(id, nic)[4][1]
      /\ Rejections(id, nic)[4][2] = "REVALIDATION_REQUIRED"
  BY DEF Rejections
<1>2. /\ 4 \in Failed(id, nic)
      /\ \A i \in Failed(id, nic) : i \in Nat /\ i # 0 /\ i # 1 /\ i # 2 /\ i # 3
  BY <1>1 DEF Failed
<1>3. PICK i \in Failed(id, nic) :
        /\ \A j \in Failed(id, nic) : i <= j
        /\ HardCheck(id, nic) = Rejections(id, nic)[i][2]
  BY <1>2, HardCheckFirst
<1>4. i = 4
  BY <1>2, <1>3
<1> QED
  BY <1>1, <1>3, <1>4

\* When nothing is selected and an admissible NIC waits for its evidence to be
\* revalidated, the decision reports the revalidation before any other refusal.
THEOREM RevalidationIsReportedHolds == Spec => []RevalidationIsReported
<1>1. PolicyInv => RevalidationIsReported
  <2> SUFFICES ASSUME PolicyInv, Decided, decision.selected = 0,
                      NEW n \in Considered,
                      nics[n].lifecycle = "REVALIDATION_REQUIRED",
                      nics[n].provenance = "REAL",
                      n \notin policy.excluded
               PROVE  decision.overall = "REVALIDATION_REQUIRED"
    BY DEF RevalidationIsReported
  <2>1. Exhausted /\ Outcome
    BY DEF PolicyInv, Decided
  <2>2. n \in DOMAIN evaluated
    BY <2>1, EvaluatedIsConsidered
  <2>3. evaluated[n].eligibility = "REVALIDATION_REQUIRED"
    BY <2>2, WaitingIsRefusedAsSuch DEF PolicyInv, InOrder, ResultOf
  <2>4. 0 \notin AllowedSoFar
    BY PolicyAssumption DEF AllowedSoFar, PolicyInv, InOrder
  <2>5. /\ AllowedSoFar = {}
        /\ decision.overall \in
             {"NOT_FOUND"} \cup {evaluated[k].eligibility : k \in DOMAIN evaluated}
        /\ Severity(decision.overall) <= Severity("REVALIDATION_REQUIRED")
    BY <2>1, <2>2, <2>3, <2>4 DEF Outcome
  <2>6. decision.overall \in Rejecting
    <3>1. ASSUME NEW k \in DOMAIN evaluated
          PROVE  evaluated[k].eligibility \in Rejecting
      <4>1. evaluated[k].eligibility = HardCheck(k, nics[k])
        BY DEF PolicyInv, InOrder, ResultOf
      <4>2. evaluated[k].eligibility \notin Allowing
        BY <2>5 DEF AllowedSoFar
      <4> QED
        BY <4>1, <4>2, AllowedIffNoneFailed
    <3> QED
      BY <2>5, <3>1 DEF Rejecting
  <2>7. Severity("REVALIDATION_REQUIRED") = 35
    BY DEF Severity
  <2>8. Severity(decision.overall) \in Nat
    BY <2>6, SeverityBounds
  <2> QED
    BY <2>5, <2>6, <2>7, <2>8, SeverityBounds
<1> QED
  BY <1>1, PolicyInvHolds, PTL

-----------------------------------------------------------------------------
(* Dominance.                                                              *)

\* A policy that prefers what is closer and does not trade locality for
\* capabilities: no factor has a positive weight, a shared switch, a shared
\* root complex and a local CPU have a negative one, and capabilities have
\* none.  The default policy is such a policy.
PrefersLocality(p) ==
    /\ \A w \in Weights : p.weights[w] <= 0
    /\ \A w \in {"SWITCH", "ROOT", "CPU"} : p.weights[w] < 0
    /\ p.weights["CAPABILITY"] = 0

\* The hypothesis of the dominance theorem is met by the default weights.
LEMMA DefaultPrefersLocality == PrefersLocality(DefaultPolicy)
  BY DEF PrefersLocality, DefaultPolicy, Weights

\* Under such a policy more factors mean a lesser score, which ranks first.
LEMMA RankIsMonotone ==
    ASSUME policy \in PolicyChoices, PrefersLocality(policy),
           NEW a \in NicChoices, NEW b \in NicChoices
    PROVE  /\ Factors(a) = Factors(b) => Rank(a) = Rank(b)
           /\ /\ Factors(a) \subseteq Factors(b)
              /\ (Factors(b) \ Factors(a)) \cap
                    {"SWITCH", "ROOT", "RECORD_NUMA"} # {}
              => Rank(b) < Rank(a)
<1> DEFINE W(w) == policy.weights[w]
           If(c, w) == IF c THEN W(w) ELSE 0
           Score(F) == If("SWITCH" \in F, "SWITCH") + If("ROOT" \in F, "ROOT")
                       + If(F \cap {"RECORD_NUMA", "TOPOLOGY_NUMA"} # {}, "NUMA")
                       + If(gpu # NoGpu /\ "RECORD_NUMA" \in F, "ACCELERATOR")
                       + If("RECORD_NUMA" \in F, "CPU")
<1>1. /\ W("SWITCH") \in Int /\ W("ROOT") \in Int /\ W("NUMA") \in Int
      /\ W("ACCELERATOR") \in Int /\ W("CPU") \in Int
      /\ W("SWITCH") < 0 /\ W("ROOT") < 0 /\ W("CPU") < 0
      /\ W("NUMA") <= 0 /\ W("ACCELERATOR") <= 0 /\ W("CAPABILITY") = 0
  <2>1. policy.weights \in [Weights -> Int]
    BY PolicyAssumption
  <2> QED
    BY <2>1 DEF PrefersLocality, Weights
<1>2. ASSUME NEW nic \in NicChoices PROVE Rank(nic) = Score(Factors(nic))
  <2> DEFINE loc == LocalityOf(nic)
  <2>1. Rank(nic) = If(loc.pcie_switch_same, "SWITCH")
                    + If(loc.root_complex_same, "ROOT")
                    + If(loc.numa_same, "NUMA")
                    + If(loc.accelerator_affine, "ACCELERATOR")
                    + If(loc.cpu_local, "CPU")
                    + W("CAPABILITY") * Cardinality(nic.capability)
    BY DEF Rank
  <2>2. W("CAPABILITY") * Cardinality(nic.capability) = 0
    <3> HIDE DEF W
    <3> QED
      BY <1>1, RankType
  <2>3. /\ loc.pcie_switch_same <=> "SWITCH" \in Factors(nic)
        /\ loc.root_complex_same <=> "ROOT" \in Factors(nic)
        /\ loc.numa_same <=>
             Factors(nic) \cap {"RECORD_NUMA", "TOPOLOGY_NUMA"} # {}
        /\ loc.accelerator_affine <=> gpu # NoGpu /\ "RECORD_NUMA" \in Factors(nic)
        /\ loc.cpu_local <=> "RECORD_NUMA" \in Factors(nic)
    BY LocalityFactors
  <2> HIDE DEF W, loc
  <2> QED
    BY <1>1, <2>1, <2>2, <2>3
<1>3. ASSUME NEW F, NEW G, F \subseteq G,
             (G \ F) \cap {"SWITCH", "ROOT", "RECORD_NUMA"} # {}
      PROVE  Score(G) < Score(F)
  <2>1. /\ If("SWITCH" \in G, "SWITCH") <= If("SWITCH" \in F, "SWITCH")
        /\ If("ROOT" \in G, "ROOT") <= If("ROOT" \in F, "ROOT")
        /\ If("RECORD_NUMA" \in G, "CPU") <= If("RECORD_NUMA" \in F, "CPU")
        /\ If(gpu # NoGpu /\ "RECORD_NUMA" \in G, "ACCELERATOR")
             <= If(gpu # NoGpu /\ "RECORD_NUMA" \in F, "ACCELERATOR")
    <3> HIDE DEF W
    <3> QED
      BY <1>1, <1>3
  <2>2. If(G \cap {"RECORD_NUMA", "TOPOLOGY_NUMA"} # {}, "NUMA")
          <= If(F \cap {"RECORD_NUMA", "TOPOLOGY_NUMA"} # {}, "NUMA")
    <3>1. F \cap {"RECORD_NUMA", "TOPOLOGY_NUMA"} # {} =>
            G \cap {"RECORD_NUMA", "TOPOLOGY_NUMA"} # {}
      BY <1>3
    <3> HIDE DEF W
    <3> QED
      BY <1>1, <3>1
  <2>3. \/ If("SWITCH" \in G, "SWITCH") < If("SWITCH" \in F, "SWITCH")
        \/ If("ROOT" \in G, "ROOT") < If("ROOT" \in F, "ROOT")
        \/ If("RECORD_NUMA" \in G, "CPU") < If("RECORD_NUMA" \in F, "CPU")
    <3> HIDE DEF W
    <3> QED
      BY <1>1, <1>3
  <2>4. ASSUME NEW F1 PROVE
          /\ If("SWITCH" \in F1, "SWITCH") \in Int /\ If("ROOT" \in F1, "ROOT") \in Int
          /\ If(F1 \cap {"RECORD_NUMA", "TOPOLOGY_NUMA"} # {}, "NUMA") \in Int
          /\ If(gpu # NoGpu /\ "RECORD_NUMA" \in F1, "ACCELERATOR") \in Int
          /\ If("RECORD_NUMA" \in F1, "CPU") \in Int
    <3> HIDE DEF W
    <3> QED
      BY <1>1
  <2> HIDE DEF If
  <2> QED
    BY <2>1, <2>2, <2>3, <2>4
<1> HIDE DEF Score
<1> QED
  BY <1>2, <1>3

\* Under policies that prefer locality, a NIC is never selected over one that
\* is tied to the target in every way it is and in one more, nor over one that
\* is tied in the same ways, differs in nothing else and has a lesser id.
THEOREM DominatedNeverSelectedHolds ==
    ASSUME \A p \in PolicyChoices : PrefersLocality(p)
    PROVE  Spec => []DominatedNeverSelected
<1>1. PolicyInv => DominatedNeverSelected
  <2> SUFFICES ASSUME PolicyInv, Decided, decision.selected # 0, NEW n \in Meeting
               PROVE  LET mine == Factors(nics[decision.selected])
                          theirs == Factors(nics[n])
                      IN  /\ ~(mine \subseteq theirs /\ (theirs \ mine) \cap
                                 {"SWITCH", "ROOT", "RECORD_NUMA"} # {})
                          /\ mine = theirs
                             /\ Peers(nics[decision.selected], nics[n]) =>
                                decision.selected <= n
    BY DEF DominatedNeverSelected
  <2> DEFINE s == decision.selected
  <2>1. Exhausted /\ Outcome
    BY DEF PolicyInv, Decided
  <2>2. n \in AllowedSoFar
    BY <2>1, AllowedIsMeeting
  <2>3. s \in AllowedSoFar /\ (n # s => Before(s, n))
    BY <2>1, <2>2 DEF Outcome
  <2>4. ASSUME NEW k \in AllowedSoFar
        PROVE  /\ evaluated[k].rank_score = Rank(nics[k])
               /\ k \in Nat /\ nics[k] \in NicChoices
    <3>1. k \in NicIds /\ evaluated[k] = ResultOf(k) /\ evaluated[k].eligibility \in Allowing
      BY DEF AllowedSoFar, PolicyInv, InOrder
    <3>2. k \in Nat /\ nics[k] \in NicChoices
      BY <3>1, PolicyAssumption DEF PolicyInv, Snapshot
    <3> QED
      BY <3>1, <3>2 DEF ResultOf
  <2>5. policy \in PolicyChoices /\ PrefersLocality(policy)
    BY DEF PolicyInv, Snapshot
  <2>6. /\ Rank(nics[s]) \in Int /\ Rank(nics[n]) \in Int
        /\ Factors(nics[s]) = Factors(nics[n]) => Rank(nics[s]) = Rank(nics[n])
        /\ /\ Factors(nics[s]) \subseteq Factors(nics[n])
           /\ (Factors(nics[n]) \ Factors(nics[s])) \cap
                 {"SWITCH", "ROOT", "RECORD_NUMA"} # {}
           => Rank(nics[n]) < Rank(nics[s])
    BY <2>2, <2>3, <2>4, <2>5, RankIsMonotone, RankType
  <2>7. n # s => \/ Rank(nics[s]) < Rank(nics[n])
                 \/ Rank(nics[s]) = Rank(nics[n]) /\ s < n
    BY <2>2, <2>3, <2>4 DEF Before
  <2>8. s \in Nat /\ n \in Nat
    BY <2>2, <2>3, <2>4
  <2> HIDE DEF s
  <2>9. /\ ~(Factors(nics[s]) \subseteq Factors(nics[n])
             /\ (Factors(nics[n]) \ Factors(nics[s])) \cap
                  {"SWITCH", "ROOT", "RECORD_NUMA"} # {})
        /\ Factors(nics[s]) = Factors(nics[n]) => s <= n
    BY <2>6, <2>7, <2>8
  <2> QED
    BY <2>9 DEF s
<1> QED
  BY <1>1, PolicyInvHolds, PTL
=============================================================================
