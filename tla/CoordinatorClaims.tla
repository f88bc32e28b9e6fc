------------------------- MODULE CoordinatorClaims -------------------------
(***************************************************************************)
(* What comments and documentation say of a coordinator restart and the    *)
(* process does not do.                                                    *)
(***************************************************************************)
EXTENDS Coordinator

\* nic_residency_coordinator.cpp:197: a fresh coordinator process advances the
\* epoch strictly.  run_restart derives the new epoch from the state file and
\* never saves it, so a second relaunch serves under the epoch of the first.
EveryRelaunchAdvancesTheEpoch ==
    [][At("restart", "report") /\ pc' = "serving" => epoch > last_served]_cvars
=============================================================================
