------------------------------ MODULE Locality ------------------------------
(***************************************************************************)
(* Locality queries on a built topology snapshot (TopologySnapshot in      *)
(* src/include/nicresidency/topology.hpp, PciAddress::distance_to in       *)
(* locality.hpp).  Only constant operators: TopologyBuilder builds the     *)
(* snapshots, ResidencyPolicy queries them.                                *)
(*                                                                         *)
(* A snapshot is [nodes, root_complex, switch]: nodes maps the ids of the  *)
(* snapshot to [kind, parent, numa, pci, evidence], the other two map them *)
(* to the ancestors that finalize found.  0 is the null id, of a node and  *)
(* of a NUMA node.  A PCI address is [segment, bus, slot], slot standing   *)
(* for device and function, which no query tells apart.                    *)
(***************************************************************************)
EXTENDS Integers, FiniteSets

\* DEVICE stands for every kind that the walk of finalize passes over: BRIDGE,
\* DEVICE, NUMA_DOMAIN and UNKNOWN.
NodeKind == {"ROOT_COMPLEX", "SWITCH", "DEVICE"}

EvidenceKind == {"REAL", "SYNTHETIC", "UNSUPPORTED"}
LocalityRelationship ==
    {"SAME_DEVICE", "SAME_PCIE_SWITCH", "SAME_ROOT_COMPLEX", "SAME_NUMA_NODE",
     "REMOTE_NUMA", "UNKNOWN"}

\* n and its ancestors: those reached by k parent links, for every k.
Lineage(nodes, n) ==
    LET up[k \in 0 .. Cardinality(DOMAIN nodes)] ==
          IF k = 0 THEN {n}
          ELSE up[k - 1] \cup {nodes[m].parent : m \in up[k - 1] \cap DOMAIN nodes}
    IN  up[Cardinality(DOMAIN nodes)] \cap DOMAIN nodes

\* The member of n's lineage of a kind with no other of that kind above it, 0
\* for none.
Topmost(nodes, n, kind) ==
    LET top == {m \in Lineage(nodes, n) :
                   /\ nodes[m].kind = kind
                   /\ \A k \in Lineage(nodes, m) \ {m} : nodes[k].kind # kind}
    IN  IF top = {} THEN 0 ELSE CHOOSE m \in top : TRUE

\* The snapshot that build makes of nodes whose parents form no cycle.
\* TopologyProofs shows that finalize computes it.
Finalized(nodes) ==
    [nodes |-> nodes,
     root_complex |-> [n \in DOMAIN nodes |-> Topmost(nodes, n, "ROOT_COMPLEX")],
     switch |-> [n \in DOMAIN nodes |-> Topmost(nodes, n, "SWITCH")]]

\* node_for_pci: the node with the least id that carries the address, 0 for
\* none.
NodeForPci(snap, pci) ==
    LET ids == {n \in DOMAIN snap.nodes : snap.nodes[n].pci = pci}
    IN  IF ids = {} THEN 0 ELSE CHOOSE n \in ids : \A m \in ids : n <= m

\* Two ids are valid and the same.
SameValid(x, y) == x # 0 /\ x = y

\* same_root_complex, same_pcie_switch, same_numa_node.
SameRootComplex(snap, a, b) ==
    LET na == NodeForPci(snap, a)  nb == NodeForPci(snap, b)
    IN  na # 0 /\ nb # 0
        /\ SameValid(snap.root_complex[na], snap.root_complex[nb])
SamePcieSwitch(snap, a, b) ==
    LET na == NodeForPci(snap, a)  nb == NodeForPci(snap, b)
    IN  na # 0 /\ nb # 0 /\ SameValid(snap.switch[na], snap.switch[nb])
SameNumaNode(snap, a, b) ==
    LET na == NodeForPci(snap, a)  nb == NodeForPci(snap, b)
    IN  na # 0 /\ nb # 0 /\ SameValid(snap.nodes[na].numa, snap.nodes[nb].numa)

\* PciAddress::distance_to, a signed difference.
DistanceTo(a, b) == (a.segment - b.segment) * 1000 + (a.bus - b.bus)

\* derivable_cost.  The direct-neighbour refinement is set only afterwards.
DerivableCost(sameNuma, sameRoot, sameSwitch) ==
    (IF sameNuma THEN 0 ELSE 1000) + (IF sameRoot THEN 0 ELSE 200)
    - (IF sameSwitch THEN 10 ELSE 0)

\* classify: the strongest named relationship that holds.
Classify(snap, a, b) ==
    LET na == NodeForPci(snap, a)  nb == NodeForPci(snap, b)
        numas == {snap.nodes[na].numa, snap.nodes[nb].numa}
    IN  IF a = b THEN "SAME_DEVICE"
        ELSE IF SamePcieSwitch(snap, a, b) THEN "SAME_PCIE_SWITCH"
        ELSE IF SameRootComplex(snap, a, b) THEN "SAME_ROOT_COMPLEX"
        ELSE IF SameNumaNode(snap, a, b) THEN "SAME_NUMA_NODE"
        ELSE IF na # 0 /\ nb # 0 /\ 0 \notin numas THEN "REMOTE_NUMA"
        ELSE "UNKNOWN"

\* The evidence kind locality_between reports: SYNTHETIC only when both nodes
\* are known and synthetic; everything else is labelled REAL (plus DERIVED).
LocalityEvidence(snap, a, b) ==
    LET na == NodeForPci(snap, a)  nb == NodeForPci(snap, b)
    IN  IF /\ na # 0 /\ nb # 0
           /\ snap.nodes[na].evidence = "SYNTHETIC"
           /\ snap.nodes[nb].evidence = "SYNTHETIC"
        THEN "SYNTHETIC" ELSE "REAL"

LocalityBetween(snap, a, b) ==
    LET known == NodeForPci(snap, a) # 0 /\ NodeForPci(snap, b) # 0
        numa == SameNumaNode(snap, a, b)
        root == SameRootComplex(snap, a, b)
        switch == SamePcieSwitch(snap, a, b)
    IN  [relationship |-> Classify(snap, a, b),
         root_complex_same |-> root, pcie_switch_same |-> switch,
         numa_same |-> numa, cpu_local |-> FALSE,
         accelerator_affine |-> FALSE,
         evidence |-> LocalityEvidence(snap, a, b),
         cost |-> IF known THEN DerivableCost(numa, root, switch)
                           ELSE DistanceTo(a, b)]
=============================================================================
