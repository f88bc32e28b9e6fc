-------------------------- MODULE SyntheticBackend --------------------------
(***************************************************************************)
(* SyntheticBackend::discover (src/src/synthetic_backend.cpp): the ten     *)
(* fixture scenarios as discovery results.  Constant operators only.       *)
(*                                                                         *)
(* A discovery result is [nics, gpus, topology, functions, ports, queues]: *)
(* sequences of records, each with its id, and a built topology snapshot   *)
(* or NoTopology.  A NIC has what decide reads of it; a NUMA id is one     *)
(* more than the node number and 0 for unknown.                            *)
(***************************************************************************)
EXTENDS Locality, Sequences

CONSTANTS
    VfCount,         \* 4 in the code
    DenseCount,      \* 200 in the code
    NoTopology       \* the null topology pointer of a discovery result

Scenarios == {"one_gpu", "two_numa", "root_complex", "pcie_switch",
              "remote_numa", "smartnic", "dpu", "pf_vfs", "dense",
              "unsupported"}

\* slot is device * 8 + function.
Pci(bus, slot) == [segment |-> 0, bus |-> bus, slot |-> slot]

\* Bus 0x80 + b is bus b of the second root complex.
Second(b) == 128 + b

-----------------------------------------------------------------------------
(* Records, all of generation 1                                            *)

MakeNic(id, pci, numa, extra) ==
    [id |-> id, generation |-> 1, lifecycle |-> "AVAILABLE",
     content |-> [pci |-> pci, numa_node |-> numa, provenance |-> "SYNTHETIC",
                  capability |-> {"OFFLOAD", "ACCELERATOR_AFFINITY"} \cup extra]]
MakeFunction(id, nic) ==
    [id |-> id, generation |-> 1, lifecycle |-> "AVAILABLE", parent_nic |-> nic]
MakePort(id, nic, function) ==
    [id |-> id, generation |-> 1, parent_nic |-> nic,
     parent_function |-> function]
MakeQueue(id, function, nic) ==
    [id |-> id, generation |-> 1, lifecycle |-> "AVAILABLE",
     parent_nic |-> nic, parent_function |-> function]
MakeGpu(id, pci, numa) ==
    [id |-> id, generation |-> 1, place |-> [pci |-> pci, numa_node |-> numa]]

Node(kind, pci, parent, numa) ==
    [kind |-> kind, parent |-> parent, numa |-> numa, pci |-> pci,
     evidence |-> "SYNTHETIC"]

\* Two root complexes with two switches each.  A switch has the address of the
\* first device behind it.
Fabric ==
    [n \in {1, 2, 101, 102, 103, 104} |->
        CASE n = 1 -> Node("ROOT_COMPLEX", Pci(0, 0), 0, 1)
          [] n = 2 -> Node("ROOT_COMPLEX", Pci(Second(0), 0), 0, 2)
          [] n = 101 -> Node("SWITCH", Pci(1, 0), 1, 1)
          [] n = 102 -> Node("SWITCH", Pci(2, 0), 1, 1)
          [] n = 103 -> Node("SWITCH", Pci(Second(1), 0), 2, 2)
          [] n = 104 -> Node("SWITCH", Pci(Second(2), 0), 2, 2)]

\* build_topology over the fabric and a function of device nodes.
Topology(devices) ==
    Finalized([n \in DOMAIN Fabric \cup DOMAIN devices |->
                  IF n \in DOMAIN Fabric THEN Fabric[n] ELSE devices[n]])

OnSw0(slot) == Node("DEVICE", Pci(1, slot), 101, 1)
OnSw1 == Node("DEVICE", Pci(2, 0), 102, 1)
OnSw2(slot) == Node("DEVICE", Pci(Second(1), slot), 103, 2)
Devices(s) == [n \in 1000 .. 999 + Len(s) |-> s[n - 999]]

-----------------------------------------------------------------------------
\* A scenario with NICs and one GPU only, its topology still the device nodes.
Plain(adapters, accelerator, devices) ==
    [nics |-> adapters, gpus |-> <<accelerator>>, topology |-> devices,
     functions |-> <<>>, ports |-> <<>>, queues |-> <<>>]

\* NIC id on switch 0 with a GPU on the same slot, whose node the topology does
\* not have.
OneNic(id, gpu, extra) ==
    Plain(<<MakeNic(id, Pci(1, 0), 1, extra)>>, MakeGpu(gpu, Pci(1, 1), 1),
          Devices(<<OnSw0(0)>>))

OneNicLocalToOneGpu ==
    [Plain(<<MakeNic(10, Pci(1, 0), 1, {"RDMA"})>>, MakeGpu(100, Pci(1, 1), 1),
           Devices(<<OnSw0(0), OnSw0(1)>>))
     EXCEPT !.functions = <<MakeFunction(10, 10)>>,
            !.ports = <<MakePort(10, 10, 10)>>,
            !.queues = <<MakeQueue(10, 10, 10)>>]

TwoNicsDifferentNuma ==
    Plain(<<MakeNic(20, Pci(1, 0), 1, {"RDMA"}),
            MakeNic(21, Pci(Second(1), 0), 2, {"RDMA"})>>,
          MakeGpu(101, Pci(1, 1), 1), Devices(<<OnSw0(0), OnSw2(0)>>))

SameRootComplexPreference ==
    Plain(<<MakeNic(30, Pci(1, 0), 1, {"RDMA"}),
            MakeNic(31, Pci(2, 0), 1, {"RDMA"})>>,
          MakeGpu(102, Pci(1, 1), 1),
          Devices(<<OnSw0(0), OnSw1, OnSw0(1)>>))

RemoteNumaFallback ==
    Plain(<<MakeNic(40, Pci(Second(1), 0), 2, {"RDMA"})>>,
          MakeGpu(103, Pci(1, 1), 1), Devices(<<OnSw2(0), OnSw0(1)>>))

PfWithMultipleVfs ==
    [OneNic(70, 106, {"RDMA", "SRIOV"})
     EXCEPT !.functions = [i \in 1 .. VfCount |-> MakeFunction(699 + i, 70)],
            !.ports = [i \in 1 .. VfCount |-> MakePort(699 + i, 70, 699 + i)],
            !.queues = [i \in 1 .. VfCount |-> MakeQueue(699 + i, 699 + i, 70)]]

DenseCandidateSet ==
    LET slot(i) == ((i \div 2) % 32) * 8 + (i % 8)
        even(i) == i % 2 = 0
    IN  Plain([i \in 1 .. DenseCount |->
                 IF even(i - 1)
                 THEN MakeNic(199 + i, Pci(1, slot(i - 1)), 1, {"RDMA"})
                 ELSE MakeNic(199 + i, Pci(Second(1), slot(i - 1)), 2, {"RDMA"})],
              MakeGpu(107, Pci(1, 1), 1),
              [n \in 2000 .. 1999 + DenseCount |->
                 IF even(n) THEN OnSw0(slot(n - 2000)) ELSE OnSw2(slot(n - 2000))])

Fixture(scenario) ==
    CASE scenario = "one_gpu" -> OneNicLocalToOneGpu
      [] scenario = "two_numa" -> TwoNicsDifferentNuma
      [] scenario \in {"root_complex", "pcie_switch"} ->
            SameRootComplexPreference
      [] scenario = "remote_numa" -> RemoteNumaFallback
      [] scenario = "smartnic" -> OneNic(50, 104, {"RDMA", "LOCAL_MEMORY"})
      [] scenario = "dpu" -> OneNic(60, 105, {"RDMA", "LOCAL_MEMORY"})
      [] scenario = "pf_vfs" -> PfWithMultipleVfs
      [] scenario = "dense" -> DenseCandidateSet
      [] scenario = "unsupported" -> OneNic(80, 108, {})

SyntheticDiscover(scenario) ==
    [Fixture(scenario) EXCEPT !.topology = Topology(@)]
=============================================================================
