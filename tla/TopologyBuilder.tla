-------------------------- MODULE TopologyBuilder --------------------------
(***************************************************************************)
(* TopologyBuilder and TopologySnapshot::finalize                          *)
(* (src/include/nicresidency/topology.hpp): nodes and edges are staged,    *)
(* then build walks the parent links of every node.  A call that throws    *)
(* changes nothing and is a disabled action.  The walk is taken one loop   *)
(* iteration at a time, because whether it ends is part of the question.   *)
(***************************************************************************)
EXTENDS Locality, Naturals

CONSTANTS
    PciNodes,        \* node ids
    Pcis, Numas, Evidences,  \* addresses, NUMA ids, provenance of nodes
    ParentsOf,       \* for each id, the parent ids callers give it
    StagedPcis,      \* the addresses callers give their nodes
    kMaxNodes, kMaxEdges

VARIABLES
    nodes, edges,             \* nodes_, edges_
    root_complex, switch,     \* root_complex_, switch_
    phase,                    \* "staging", "walking" or "built"
    at, cur, rc, sw           \* the loop variables of finalize

tvars == <<nodes, edges, root_complex, switch, phase, at, cur, rc, sw>>

TopologyNode == [kind : NodeKind, parent : PciNodes \cup {0},
                 numa : Numas, pci : Pcis, evidence : Evidences]

ASSUME TopologyAssumption ==
    /\ PciNodes \subseteq Nat \ {0} /\ Numas \subseteq Nat
    /\ Evidences \subseteq EvidenceKind /\ StagedPcis \subseteq Pcis
    /\ kMaxNodes \in Nat /\ kMaxEdges \in Nat
    /\ \A n \in PciNodes : ParentsOf[n] \subseteq PciNodes \cup {0}

\* Every variable of the builder has its type.
TopologyTypeOK ==
    /\ DOMAIN nodes \subseteq PciNodes
    /\ \A n \in DOMAIN nodes : nodes[n] \in TopologyNode
    /\ edges \subseteq PciNodes \X PciNodes
    /\ DOMAIN root_complex = DOMAIN switch
    /\ phase \in {"staging", "walking", "built"}
    /\ {at, cur, rc, sw} \subseteq PciNodes \cup {0}

-----------------------------------------------------------------------------
Init ==
    /\ nodes = <<>> /\ edges = {}
    /\ root_complex = <<>> /\ switch = <<>>
    /\ phase = "staging"
    /\ at = 0 /\ cur = 0 /\ rc = 0 /\ sw = 0

\* f with k mapped to v.
With(f, k, v) == [x \in DOMAIN f \cup {k} |-> IF x = k THEN v ELSE f[x]]

AddNode(id, node) ==
    /\ phase = "staging"
    /\ Cardinality(DOMAIN nodes) < kMaxNodes
    /\ id \notin DOMAIN nodes
    /\ nodes' = With(nodes, id, node)
    /\ UNCHANGED <<edges, root_complex, switch, phase, at, cur, rc, sw>>

AddEdge(from, to) ==
    /\ phase = "staging"
    /\ Cardinality(edges) < kMaxEdges
    /\ {from, to} \subseteq DOMAIN nodes
    /\ edges' = edges \cup {<<from, to>>}
    /\ UNCHANGED <<nodes, root_complex, switch, phase, at, cur, rc, sw>>

\* The ids after n in map order, and the start of the walk from the first of
\* them; the walk is over when there is none.
After(n) == {m \in DOMAIN nodes : m > n}
\* Mutant of StartWalk: what the last walk found is not reset.
StartWalkUnreset(n) ==
    IF After(n) = {}
    THEN /\ phase' = "built"
         /\ at' = 0 /\ cur' = 0 /\ rc' = 0 /\ sw' = 0
    ELSE /\ phase' = "walking"
         /\ at' = CHOOSE m \in After(n) : \A k \in After(n) : m <= k
         /\ cur' = at' /\ UNCHANGED <<rc, sw>>

StartWalk(n) ==
    IF After(n) = {}
    THEN /\ phase' = "built"
         /\ at' = 0 /\ cur' = 0 /\ rc' = 0 /\ sw' = 0
    ELSE /\ phase' = "walking"
         /\ at' = CHOOSE m \in After(n) : \A k \in After(n) : m <= k
         /\ cur' = at' /\ rc' = 0 /\ sw' = 0

Build ==
    /\ phase = "staging"
    /\ StartWalk(0)
    /\ UNCHANGED <<nodes, edges, root_complex, switch>>

\* Mutants of WalkUp: the nearest root complex is kept; a node without a
\* parent is its own; a walk that comes back to its start ends silently;
\* switches are not recorded.
WalkUpNearestRoot ==
    /\ phase = "walking"
    /\ cur \in DOMAIN nodes
    /\ rc' = IF nodes[cur].kind = "ROOT_COMPLEX" /\ rc = 0 THEN cur ELSE rc
    /\ sw' = IF nodes[cur].kind = "SWITCH" THEN cur ELSE sw
    /\ cur' = nodes[cur].parent
    /\ UNCHANGED <<nodes, edges, root_complex, switch, phase, at>>
WalkUpForever ==
    /\ phase = "walking"
    /\ cur \in DOMAIN nodes
    /\ rc' = IF nodes[cur].kind = "ROOT_COMPLEX" THEN cur ELSE rc
    /\ sw' = IF nodes[cur].kind = "SWITCH" THEN cur ELSE sw
    /\ cur' = IF nodes[cur].parent = 0 THEN cur ELSE nodes[cur].parent
    /\ UNCHANGED <<nodes, edges, root_complex, switch, phase, at>>
WalkUpFenced ==
    /\ phase = "walking"
    /\ cur \in DOMAIN nodes
    /\ rc' = IF nodes[cur].kind = "ROOT_COMPLEX" THEN cur ELSE rc
    /\ sw' = IF nodes[cur].kind = "SWITCH" THEN cur ELSE sw
    /\ cur' = IF nodes[cur].parent \in {at, cur} THEN 0 ELSE nodes[cur].parent
    /\ UNCHANGED <<nodes, edges, root_complex, switch, phase, at>>
WalkUpRootsOnly ==
    /\ phase = "walking"
    /\ cur \in DOMAIN nodes
    /\ rc' = IF nodes[cur].kind \in {"ROOT_COMPLEX", "SWITCH"} THEN cur ELSE rc
    /\ cur' = nodes[cur].parent
    /\ UNCHANGED <<nodes, edges, root_complex, switch, phase, at, sw>>

\* One iteration of the loop that follows parent links.
WalkUp ==
    /\ phase = "walking"
    /\ cur \in DOMAIN nodes
    /\ rc' = IF nodes[cur].kind = "ROOT_COMPLEX" THEN cur ELSE rc
    /\ sw' = IF nodes[cur].kind = "SWITCH" THEN cur ELSE sw
    /\ cur' = nodes[cur].parent
    /\ UNCHANGED <<nodes, edges, root_complex, switch, phase, at>>

\* Mutant of WalkEnd: the switch found is not stored.
WalkEndRootOnly ==
    /\ phase = "walking"
    /\ cur \notin DOMAIN nodes
    /\ root_complex' = With(root_complex, at, rc)
    /\ StartWalk(at)
    /\ UNCHANGED <<nodes, edges, switch>>

\* A null or unknown parent ends the loop; on to the next node.
WalkEnd ==
    /\ phase = "walking"
    /\ cur \notin DOMAIN nodes
    /\ root_complex' = With(root_complex, at, rc)
    /\ switch' = With(switch, at, sw)
    /\ StartWalk(at)
    /\ UNCHANGED <<nodes, edges>>

Staging ==
    \/ \E n \in PciNodes \ DOMAIN nodes :
          \E node \in [kind : NodeKind, parent : ParentsOf[n], numa : Numas,
                       pci : StagedPcis, evidence : Evidences] :
              AddNode(n, node)
    \/ \E m, n \in DOMAIN nodes : AddEdge(m, n)

Finalize == Build \/ WalkUp \/ WalkEnd

Next == Staging \/ Finalize

\* build is a call that runs to its end; callers may stop before calling it.
Spec == Init /\ [][Next]_tvars /\ WF_tvars(WalkUp \/ WalkEnd)

Snapshot == [nodes |-> nodes, root_complex |-> root_complex,
             switch |-> switch]

-----------------------------------------------------------------------------
(* Properties                                                              *)

\* What finalize recorded for a node of a kind: one of its own ancestors of
\* that kind, or nothing because it has none.
RecordsOwn(recorded, kind) ==
    \A n \in DOMAIN nodes :
        LET own == {m \in Lineage(nodes, n) : nodes[m].kind = kind}
        IN  IF own = {} THEN recorded[n] = 0 ELSE recorded[n] \in own

\* What finalize records for a node is a root complex and a switch of its own
\* chain of parents, and 0 only when the chain has none: nothing leaks from the
\* walk of one node into the next.  Which one of several is recorded is not
\* said here: the comment on finalize says the nearest, the loop leaves the
\* outermost.
AncestorsAreOwn ==
    phase = "built" =>
        RecordsOwn(root_complex, "ROOT_COMPLEX") /\ RecordsOwn(switch, "SWITCH")

\* Locality nests: devices that share a switch share the root complex above
\* it, so SAME_PCIE_SWITCH is never reported for devices whose switch hangs
\* off different root complexes.
SharedSwitchSharesRoot ==
    phase = "built" =>
        \A m, n \in DOMAIN nodes :
            SameValid(switch[m], switch[n]) /\ root_complex[switch[m]] # 0 =>
                root_complex[m] = root_complex[n]

\* No node is above itself.
Acyclic == \A n \in DOMAIN nodes : n \notin Lineage(nodes, nodes[n].parent)

\* add_node accepts parents that form a cycle; build never makes a snapshot of
\* them, so that no query ever meets one.
BuiltOnlyWithoutCycles == phase = "built" => Acyclic

\* Once called, build returns, unless parents form a cycle.
BuildReturns == (phase = "walking" /\ Acyclic) ~> (phase = "built")
=============================================================================
