----------------------------- MODULE MCTopology -----------------------------
(* TopologyBuilder and SystemTopology instantiated for TLC.                  *)
EXTENDS SystemTopology

\* Callers stage nodes 1 to 3 with any parents among them: in chains, under a
\* parent that is never added, and in cycles.
AnyParents == [n \in PciNodes |-> IF n <= 3 THEN 0 .. 3 ELSE {}]
OneAddress == {[segment |-> 0, bus |-> 1, slot |-> 0]}

\* Bus 0, whose corner is also the root complex, and two other buses.
Addresses == [segment : {0}, bus : {0, 1, 2}, slot : {0, 1}]
=============================================================================
