---------------------------- MODULE HostBackends ----------------------------
(***************************************************************************)
(* The backends that look at the machine (src/src/system_backend.cpp,      *)
(* nvidia_backend.cpp) and the one that looks at nothing                   *)
(* (unsupported_backend.hpp), as functions from what the platform          *)
(* enumerates to a discovery result.  Constant operators only; SetupAPI,   *)
(* the adapter API and NVML are the inputs.  SystemTopology models how the *)
(* topology is built.                                                      *)
(***************************************************************************)
EXTENDS SyntheticBackend

CONSTANTS
    MaxNics, MaxGpus         \* DiscoveryContext: 256 and 64 in the code

Truncated(s, max) == SubSeq(s, 1, IF Len(s) < max THEN Len(s) ELSE max)

\* PciAddress::numeric.
Numeric(pci) == pci.segment * 65536 + pci.bus * 256 + pci.slot

\* An enumerated adapter is [pci, parseable, name]; pci is what
\* parse_location reads, which fails for adapters that are not on a PCI bus.
\* The record's id is the address; its NUMA node is not exposed.
Parseable(adapter) == adapter.parseable
SystemNic(adapter) ==
    [id |-> Numeric(adapter.pci), generation |-> 1, lifecycle |-> "AVAILABLE",
     content |-> [pci |-> adapter.pci, numa_node |-> 0, provenance |-> "REAL",
                  capability |-> {}, name |-> adapter.name]]

\* SystemBackend::discover.
SystemDiscover(adapters, tree) ==
    LET seen == Truncated(SelectSeq(adapters, Parseable), MaxNics)
    IN  [nics |-> [i \in DOMAIN seen |-> SystemNic(seen[i])], gpus |-> <<>>,
         topology |-> tree, functions |-> <<>>, ports |-> <<>>,
         queues |-> <<>>]

\* The id of the ith device: its address, or its index when that is null.
NvidiaGpu(i, device) ==
    MakeGpu(IF Numeric(device.pci) = 0 THEN i ELSE Numeric(device.pci),
            device.pci, device.numa_node)

\* NvidiaAffinityBackend::discover.  A device NVML enumerates is
\* [answers, pci, numa_node]; one whose handle or PCI information cannot be
\* read is left out.
Answers(device) == device.answers
NvidiaDiscover(devices) ==
    LET seen == Truncated(devices, MaxGpus)
        numbered == [i \in DOMAIN seen |->
                        [answers |-> seen[i].answers,
                         gpu |-> NvidiaGpu(i, seen[i])]]
        listed == SelectSeq(numbered, Answers)
    IN  [nics |-> <<>>, gpus |-> [i \in DOMAIN listed |-> listed[i].gpu],
         topology |-> NoTopology, functions |-> <<>>, ports |-> <<>>,
         queues |-> <<>>]

\* UnsupportedBackend::discover.
UnsupportedDiscover == NvidiaDiscover(<<>>)
=============================================================================
