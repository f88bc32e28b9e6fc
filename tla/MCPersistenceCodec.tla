------------------------- MODULE MCPersistenceCodec -------------------------
(* PersistenceCodec instantiated for TLC.  With ByteBase 4 the 16-bit       *)
(* values are 0 to 15; 6 has a negative low byte and reads as 14, 14 reads  *)
(* as itself.                                                               *)
EXTENDS PersistenceCodec

Nic(id, generation, name, vendor, sources) ==
    [id |-> id, generation |-> generation, name |-> name,
     vendor_id |-> vendor, sources |-> sources, lifecycle |-> "AVAILABLE",
     freshness |-> 1]
Gpu(id, name, vendor) ==
    [id |-> id, generation |-> 1, name |-> name, vendor_id |-> vendor,
     sources |-> 1, freshness |-> 1]
Decision(id, generation, name) ==
    [id |-> id, generation |-> generation, name |-> name,
     state |-> "RESIDENT", lifecycle |-> "RESIDENT", owner |-> 1,
     attachment_generation |-> 1, provenance |-> "REAL", freshness |-> 1]

\* Identities in and out of order, at, over and below the limits; ids that
\* repeat or are null, more sources than load accepts, names whose length reads
\* as another or does not fit.
NicLists ==
    {<<>>, <<Nic(2, 1, 1, 1, 1), Nic(1, 2, 0, 6, 2)>>,
     <<Nic(1, 1, 1, 1, 1), Nic(1, 2, 1, 1, 1)>>, <<Nic(0, 1, 1, 1, 1)>>,
     <<Nic(1, 1, 1, 1, 3)>>, <<Nic(1, 1, 2, 1, 1)>>, <<Nic(1, 1, 16, 1, 1)>>,
     <<Nic(3, 1, 1, 1, 1), Nic(1, 1, 1, 1, 1), Nic(2, 1, 1, 1, 1)>>} \cup
    {<<Nic(1, 1, 0, v, 1)>> : v \in {1, 4, 6, 14}}
GpuLists ==
    {<<>>, <<Gpu(2, 1, 6), Gpu(1, 1, 1)>>, <<Gpu(1, 1, 1), Gpu(1, 0, 1)>>,
     <<Gpu(3, 1, 1), Gpu(2, 1, 1), Gpu(1, 1, 1)>>}
Histories ==
    {<<>>, <<Decision(2, 1, 1), Decision(1, 1, 1)>>,
     <<Decision(1, 2, 1), Decision(1, 1, 1)>>, <<Decision(1, 1, 2)>>,
     <<Decision(1, 1, 1), Decision(1, 2, 1), Decision(1, 3, 1)>>}
PersistentStates ==
    [format_version : {1, 2}, epoch : {1}, policy : {"default"},
     nics : NicLists, gpus : GpuLists, history : Histories]
=============================================================================
