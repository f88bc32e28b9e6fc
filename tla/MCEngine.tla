------------------------------ MODULE MCEngine ------------------------------
(* Engine instantiated for TLC: the synthetic scenarios, a machine with two *)
(* NICs and a GPU, and two other machines.                                  *)
EXTENDS Engine, TLC

Adapter(pci, name) == [pci |-> pci, parseable |-> TRUE, name |-> name]
Device(pci, numa) == [answers |-> TRUE, pci |-> pci, numa_node |-> numa]

\* What SystemBackend builds for devices on buses 1 and 2: a switch per bus and
\* one root complex, none of them with a parent.
RealNode(kind, pci, parent) ==
    [kind |-> kind, parent |-> parent, numa |-> 0, pci |-> pci,
     evidence |-> "REAL"]
HostTopology ==
    Finalized(<<RealNode("SWITCH", Pci(1, 0), 0),
                RealNode("ROOT_COMPLEX", Pci(0, 0), 0),
                RealNode("DEVICE", Pci(1, 0), 1), RealNode("DEVICE", Pci(1, 1), 1),
                RealNode("SWITCH", Pci(2, 0), 0), RealNode("DEVICE", Pci(2, 0), 5)>>)

OtherTopology ==
    Finalized(<<RealNode("SWITCH", Pci(3, 0), 0),
                RealNode("ROOT_COMPLEX", Pci(0, 0), 0),
                RealNode("DEVICE", Pci(3, 0), 1)>>)

\* The machine named system, whose last adapter is not on a PCI bus and whose
\* second GPU does not answer, and two other machines.  One has an adapter at
\* the address of the first machine's and one at the null address.
Machines ==
    [system |->
        [adapters |-> <<Adapter(Pci(1, 0), "a"), Adapter(Pci(2, 0), "b"),
                        [parseable |-> FALSE, pci |-> Pci(0, 0),
                         name |-> "wlan"]>>,
         tree |-> HostTopology,
         devices |-> <<Device(Pci(1, 1), 1),
                       [Device(Pci(2, 1), 1) EXCEPT !.answers = FALSE]>>],
     other |->
        [adapters |-> <<Adapter(Pci(3, 0), "c")>>, tree |-> OtherTopology,
         devices |-> <<>>],
     colliding |->
        [adapters |-> <<Adapter(Pci(1, 0), "d"), Adapter(Pci(0, 0), "e")>>,
         tree |-> OtherTopology,
         devices |-> <<Device(Pci(2, 1), 2), Device(Pci(0, 0), 0)>>]]

\* Each machine's own devices, each synthetic scenario, the query mode, and
\* hosts where a backend cannot run.
ThePlans ==
    [m \in DOMAIN Machines |-> Inspection("system", Machines[m], None)]
    @@ [s \in Scenarios \cup {"query"} |->
           Inspection(IF s = "query" THEN s ELSE "synthetic", None, s)]
    @@ [no_system |-> <<Unavailable, NvidiaDiscover(Machines.system.devices)>>,
        nothing |-> <<UnsupportedDiscover>>]

Site(plans, gpu, numa, one, faults) ==
    [plans |-> plans, gpu |-> gpu, numa |-> numa, one_host |-> one,
     faults |-> faults]
TheSites ==
    {Site({"one_gpu"}, 100, 0, TRUE, {"die", "retire"}),
     Site({"query"}, 101, 0, TRUE, {"advance", "retire"}),
     Site({"query"}, 0, 2, TRUE, {"advance"}),
     Site({"root_complex"}, 102, 0, TRUE, {}),
     Site({"remote_numa"}, 103, 0, TRUE, {"restart", "retire"}),
     Site({"pcie_switch"}, 101, 0, TRUE, {"die"}),
     Site({"dpu"}, 105, 0, TRUE, {"restart", "retire"}),
     Site({"smartnic"}, 104, 1, TRUE, {"advance"}),
     Site({"pf_vfs"}, 106, 0, TRUE, {"restart"}),
     Site({"dense"}, 107, 0, TRUE, {}),
     Site({"unsupported", "nothing"}, 108, 0, TRUE,
          {"advance", "die", "retire", "restart"}),
     Site({"system", "no_system"}, 257, 0, TRUE, {"die", "retire"}),
     Site({"system", "other"}, 257, 0, FALSE, {}),
     Site({"system", "colliding"}, 257, 0, FALSE, {"restart"})}

IngestedNics ==
    UNION {UNION {{d[i].nics[k] : k \in DOMAIN d[i].nics} :
                     i \in {j \in DOMAIN d : d[j] # Unavailable}} :
           d \in {ThePlans[p] : p \in DOMAIN ThePlans}}
TheNics == {r.id : r \in IngestedNics} \ {0}
TheContents == {r.content : r \in IngestedNics}
TheFunctions == {10} \cup 700 .. 699 + VfCount
TheGpus == 100 .. 108 \cup {2, 257, 513}
=============================================================================
