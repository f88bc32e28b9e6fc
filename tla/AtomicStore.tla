---------------------------- MODULE AtomicStore ----------------------------
(***************************************************************************)
(* What PersistenceStore promises its callers, without files: one cell     *)
(* that is replaced as a whole or not at all.  A save that has begun is    *)
(* committed or abandoned, and nobody sees which until it is; what a       *)
(* reader gets is a state that some save has committed, the last one.      *)
(*                                                                         *)
(* Coordinator is shown to implement this specification: see               *)
(* ImplementsAtomicStore there.                                            *)
(***************************************************************************)
CONSTANTS
    Images,                  \* the states that are saved
    Absent                   \* nothing stored, being saved or read

VARIABLES
    stored,                  \* the state of the last committed save
    saving,                  \* the state of the save in progress
    read                     \* what the last reader got and still relies on

svars == <<stored, saving, read>>

StoreInit == stored = Absent /\ saving = Absent /\ read = Absent

BeginSave(img) ==
    /\ saving = Absent
    /\ saving' = img
    /\ UNCHANGED <<stored, read>>

Commit ==
    /\ saving # Absent
    /\ stored' = saving /\ saving' = Absent
    /\ UNCHANGED read

\* The save fails or its process is killed.
Abandon ==
    /\ saving' = Absent
    /\ UNCHANGED <<stored, read>>

Read ==
    /\ stored # Absent
    /\ read' = stored
    /\ UNCHANGED <<stored, saving>>

\* The reader is gone.
Forget ==
    /\ read' = Absent
    /\ UNCHANGED <<stored, saving>>

StoreNext ==
    (\E img \in Images : BeginSave(img)) \/ Commit \/ Abandon \/ Read \/ Forget

StoreSpec == StoreInit /\ [][StoreNext]_svars
=============================================================================
