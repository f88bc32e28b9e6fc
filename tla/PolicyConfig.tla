---------------------------- MODULE PolicyConfig ----------------------------
(***************************************************************************)
(* What a ResidencyPolicy can be configured with                           *)
(* (src/include/nicresidency/policy.hpp).                                  *)
(***************************************************************************)
EXTENDS Integers

CONSTANT MaxFreshness          \* 2^64 - 1 in the code

Capabilities == {"RDMA", "SRIOV", "OFFLOAD", "LOCAL_MEMORY",
                 "ACCELERATOR_AFFINITY"}
Requirements == (Capabilities \ {"ACCELERATOR_AFFINITY"}) \cup
                {"READY", "LINK_UP", "SAME_NUMA", "SAME_ROOT_COMPLEX",
                 "SAME_PCIE_SWITCH"}
Weights == {"SWITCH", "ROOT", "NUMA", "ACCELERATOR", "CPU", "CAPABILITY"}


\* A default-constructed policy.
DefaultPolicy ==
    [require |-> {}, allow_synthetic |-> FALSE, excluded |-> {},
     freshness_limit |-> MaxFreshness, max_candidates |-> 1024,
     weights |-> [w \in Weights |->
                    CASE w = "SWITCH" -> -40 [] w = "ROOT" -> -20
                      [] w = "NUMA" -> -10 [] w = "ACCELERATOR" -> -50
                      [] w = "CPU" -> -5 [] w = "CAPABILITY" -> 0]]
=============================================================================
