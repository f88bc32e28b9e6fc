--------------------------- MODULE SystemTopology ---------------------------
(***************************************************************************)
(* SystemBackend::build_topology (src/src/system_backend.cpp): the PCI     *)
(* devices Windows enumerates are staged one by one, each under a switch   *)
(* made up for its bus, and the staged nodes are built as TopologyBuilder  *)
(* does.  parse_location only ever yields segment 0.  The enumeration      *)
(* itself (SetupAPI) is the choice of the next address.                    *)
(***************************************************************************)
EXTENDS TopologyBuilder

CONSTANTS
    MaxDevices,            \* bound: devices the host enumerates
    MaxStagedEdges         \* bound: edges that other callers stage

VARIABLES
    bus_switch,            \* bus_switch: the switch node of each bus seen
    seg_rc,                \* seg_rc: the root complex node, 0 before the first
    nc,                    \* nc: the next node id
    placed                 \* the addresses placed so far

svars == <<tvars, bus_switch, seg_rc, nc, placed>>

\* The builder has an id for every node below its limit, and a bus and the
\* segment have the addresses that their switch and root complex are given.
ASSUME SystemAssumption ==
    /\ 1 .. kMaxNodes \subseteq PciNodes
    /\ 0 \in Numas /\ "REAL" \in Evidences
    /\ Pcis \subseteq [segment : {0}, bus : Nat, slot : Nat]
    /\ \A p \in Pcis : \A b \in {0, p.bus} :
          [segment |-> 0, bus |-> b, slot |-> 0] \in Pcis

\* One iteration of the loop over the enumerated addresses.  Every switch and
\* root complex is a parentless node; the pair is joined by an edge only.
PlaceDevice(pci) ==
    LET newSw == pci.bus \notin DOMAIN bus_switch
        newRc == seg_rc = 0
        swId == IF newSw THEN nc ELSE bus_switch[pci.bus]
        rcId == IF newRc THEN (IF newSw THEN nc + 1 ELSE nc) ELSE seg_rc
        devId == nc + (IF newSw THEN 1 ELSE 0) + (IF newRc THEN 1 ELSE 0)
        node(kind, parent, address) ==
            [kind |-> kind, parent |-> parent, numa |-> 0, pci |-> address,
             evidence |-> "REAL"]
        corner(bus) == [segment |-> pci.segment, bus |-> bus, slot |-> 0]
        added == {swId, rcId, devId} \ DOMAIN nodes
    IN  /\ phase = "staging"
        /\ Cardinality(DOMAIN nodes \cup added) <= kMaxNodes
        /\ nodes' = [n \in DOMAIN nodes \cup added |->
                        IF n = devId THEN node("DEVICE", swId, pci)
                        ELSE IF n \in DOMAIN nodes THEN nodes[n]
                        ELSE IF n = swId THEN node("SWITCH", 0, corner(pci.bus))
                        ELSE node("ROOT_COMPLEX", 0, corner(0))]
        /\ edges' = edges \cup {<<swId, rcId>>, <<devId, swId>>}
        /\ Cardinality(edges') <= kMaxEdges
        /\ bus_switch' = With(bus_switch, pci.bus, swId)
        /\ seg_rc' = rcId
        /\ nc' = devId + 1
        /\ placed' = placed \cup {pci}
        /\ UNCHANGED <<root_complex, switch, phase, at, cur, rc, sw>>

SystemInit ==
    Init /\ bus_switch = <<>> /\ seg_rc = 0 /\ nc = 1 /\ placed = {}

\* The host backend fills a builder of its own; so does any other caller.
HostStaging ==
    /\ nodes # <<>> => placed # {}
    /\ Cardinality(placed) < MaxDevices
    /\ \E pci \in Pcis : PlaceDevice(pci)
CallerStaging ==
    /\ placed = {}
    /\ Staging
    /\ Cardinality(edges') <= MaxStagedEdges
    /\ UNCHANGED <<bus_switch, seg_rc, nc, placed>>

SystemNext ==
    \/ HostStaging
    \/ CallerStaging
    \/ Finalize /\ UNCHANGED <<bus_switch, seg_rc, nc, placed>>

\* As in TopologyBuilder, build is a call that runs to its end.
SystemSpec ==
    /\ SystemInit /\ [][SystemNext]_svars
    /\ WF_svars((WalkUp \/ WalkEnd) /\
                UNCHANGED <<bus_switch, seg_rc, nc, placed>>)

-----------------------------------------------------------------------------
\* The snapshot tells devices of one bus from devices of different buses, also
\* where a device has the address its switch was given and node_for_pci
\* resolves it to that node.  The address of the root complex is left out: a
\* device there resolves to the root complex or to its switch, depending on
\* which bus was enumerated first.
SwitchesFollowBuses ==
    phase = "built" =>
        LET devices == {p \in placed : p.bus # 0 \/ p.slot # 0}
        IN  \A a, b \in devices :
                SamePcieSwitch(Snapshot, a, b) <=> a.bus = b.bus
=============================================================================
