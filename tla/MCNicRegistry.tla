--------------------------- MODULE MCNicRegistry ---------------------------
(* NicRegistry instantiated for TLC: the sets and bounds are in the cfg     *)
(* files, one per question.                                                 *)
EXTENDS NicRegistry, TLC

\* No guard orders worker or boot ids, nor the ids of a table: they are
\* interchangeable.
AuthoritySymmetry == Permutations(Workers) \cup Permutations(Boots)
TableSymmetry ==
    UNION {Permutations(S) : S \in {Nics, Functions, Ports, Queues, Gpus,
                                    Attachments}}
=============================================================================
