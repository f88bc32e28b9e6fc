------------------------- MODULE MCResidencyPolicy -------------------------
(* ResidencyPolicy instantiated for TLC: two NICs that differ from a common *)
(* base in one respect each, or in where they sit; policies that add one    *)
(* requirement, or all of them, to the default policy.                      *)
EXTENDS ResidencyPolicy

Pci(bus, slot) == [segment |-> 0, bus |-> bus, slot |-> slot]

BaseNic == [provenance |-> "REAL", lifecycle |-> "AVAILABLE",
            capability |-> {}, health |-> "READY", link_state |-> "UP",
            freshness |-> 0, numa_node |-> 1, pci |-> Pci(1, 0)]
Places == {[BaseNic EXCEPT !.numa_node = m, !.pci = p] :
              m \in {0, 1, 2}, p \in {Pci(1, 0), Pci(2, 0), Pci(3, 0), Pci(9, 0)}}
StateVariants ==
    {[BaseNic EXCEPT !.lifecycle = l] : l \in NicLifecycles} \cup
    {[BaseNic EXCEPT !.provenance = e] : e \in EvidenceKind} \cup
    {[BaseNic EXCEPT !.capability = {c}] : c \in Capabilities} \cup
    {[BaseNic EXCEPT !.capability = Capabilities, !.numa_node = 2],
     [BaseNic EXCEPT !.health = "DEGRADED"],
     [BaseNic EXCEPT !.link_state = "DOWN"],
     [BaseNic EXCEPT !.freshness = 2]}
AllNics == Places \cup StateVariants

\* The GPU sits at bus 1, behind switch 3 of root complex 1; bus 2 is behind
\* another switch of the same root, bus 3 behind another root on NUMA node 2,
\* and bus 9 is not in the topology.
Node(kind, parent, numa, pci) ==
    [kind |-> kind, parent |-> parent, numa |-> numa, pci |-> pci,
     evidence |-> "REAL"]
Tree == [nodes |-> <<Node("ROOT_COMPLEX", 0, 1, Pci(0, 0)),
                     Node("ROOT_COMPLEX", 0, 2, Pci(8, 0)),
                     Node("SWITCH", 1, 1, Pci(4, 0)),
                     Node("SWITCH", 1, 1, Pci(5, 0)),
                     Node("DEVICE", 3, 1, Pci(1, 0)),
                     Node("DEVICE", 3, 1, Pci(1, 1)),
                     Node("DEVICE", 4, 1, Pci(2, 0)),
                     Node("DEVICE", 2, 2, Pci(3, 0))>>,
         root_complex |-> <<1, 2, 1, 1, 1, 1, 1, 2>>,
         switch |-> <<0, 0, 3, 4, 3, 3, 4, 0>>]
Topologies == {NoTopology, Tree}
Gpus == {NoGpu, [numa_node |-> 1, pci |-> Pci(1, 1)],
         [numa_node |-> 0, pci |-> Pci(1, 1)]}

Policies ==
    {[DefaultPolicy EXCEPT !.require = {r}] : r \in Requirements} \cup
    {DefaultPolicy, [DefaultPolicy EXCEPT !.require = Requirements],
     [DefaultPolicy EXCEPT !.allow_synthetic = TRUE],
     [DefaultPolicy EXCEPT !.excluded = {1}],
     [DefaultPolicy EXCEPT !.freshness_limit = 1],
     [DefaultPolicy EXCEPT !.max_candidates = 1],
     [DefaultPolicy EXCEPT !.max_candidates = 0]}
=============================================================================
