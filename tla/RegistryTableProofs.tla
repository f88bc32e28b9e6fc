------------------------ MODULE RegistryTableProofs ------------------------
(***************************************************************************)
(* Theorems about the tables of NicRegistry, for every value of its        *)
(* constants: references never dangle, generations never go back, demoted  *)
(* evidence comes back only with a new generation, and no binding stays    *)
(* current on a basis it has lost.                                         *)
(***************************************************************************)
EXTENDS NicRegistryProofs

-----------------------------------------------------------------------------
(* What one call does to one table                                         *)

\* The NIC table: a step leaves it alone, demotes what a worker published,
\* stores a newer record, or advances one generation.
NicsMove ==
    \/ UNCHANGED nics
    \/ \E ks \in SUBSET Present(nics) : nics' = Demoted(nics, ks)
    \/ \E id \in Nics, rec \in NicRecord :
          NewerThan(nics, id, rec) /\ nics' = [nics EXCEPT ![id] = rec]
    \/ \E id \in Present(nics) :
          /\ NextGeneration(nics[id].generation) \in Generations
          /\ nics' = [nics EXCEPT ![id].generation = NextGeneration(@)]

\* The function table, likewise; a restart also clears the owners.
FunctionsMove ==
    \/ UNCHANGED functions
    \/ \E ks \in SUBSET Present(functions) :
          functions' = Demoted(functions, ks)
    \/ functions' = Disowned(functions, Present(functions))
    \/ \E id \in Functions, rec \in FunctionRecord :
          /\ rec.parent_nic \in Present(nics)
          /\ NewerThan(functions, id, rec)
          /\ functions' = [functions EXCEPT ![id] = rec]
    \/ \E id \in Present(functions) :
          /\ NextGeneration(functions[id].generation) \in Generations
          /\ functions' = [functions EXCEPT ![id].generation = NextGeneration(@)]

\* The port table only takes newer records.
PortsMove ==
    \/ UNCHANGED ports
    \/ \E id \in Ports, rec \in PortRecord :
          /\ rec.parent_nic \in Present(nics)
          /\ Resolves(rec.parent_function, functions)
          /\ NewerThan(ports, id, rec)
          /\ ports' = [ports EXCEPT ![id] = rec]

\* The queue table: demotion, a newer record, or a generation advanced.
QueuesMove ==
    \/ UNCHANGED queues
    \/ \E ks \in SUBSET Present(queues) : queues' = Demoted(queues, ks)
    \/ \E id \in Queues, rec \in QueueRecord :
          /\ rec.parent_nic \in Present(nics)
          /\ rec.parent_function \in Present(functions)
          /\ NewerThan(queues, id, rec)
          /\ queues' = [queues EXCEPT ![id] = rec]
    \/ \E id \in Present(queues) :
          /\ NextGeneration(queues[id].generation) \in Generations
          /\ queues' = [queues EXCEPT ![id].generation = NextGeneration(@)]

\* The GPU table takes records that are not older.
GpusMove ==
    \/ UNCHANGED gpus
    \/ \E id \in Gpus, rec \in GpuRecord :
          NotOlderThan(gpus, id, rec) /\ gpus' = [gpus EXCEPT ![id] = rec]

\* Attachments are invalidated, disowned or revoked in place, or stored with
\* references that resolve.
AttachmentsMove ==
    \/ UNCHANGED attachments
    \/ \E ks \in SUBSET Present(attachments) :
          attachments' \in {Staled(ks), Disowned(Staled(ks), ks)}
    \/ \E id \in Present(attachments) :
          attachments' = [attachments EXCEPT ![id].state = "REVOKED"]
    \/ \E id \in Attachments, att \in Attachment :
          /\ ReferencesResolve(att)
          /\ NotOlderThan(attachments, id, att)
          /\ attachments' = [attachments EXCEPT ![id] = att]

\* Residencies are invalidated, disowned or retired in place, or appended with
\* references that resolve and a generation that is not older.
ResidenciesMove ==
    \/ UNCHANGED residencies
    \/ \E is \in SUBSET DOMAIN residencies :
          residencies' \in {Revalidating(is), Disowned(Revalidating(is), is)}
    \/ \E i \in DOMAIN residencies :
          residencies' = [residencies EXCEPT ![i] =
                             [@ EXCEPT !.state = "RETIRED",
                                       !.lifecycle = "RETIRED"]]
    \/ \E rec \in ResidencyRecord :
          /\ ReferencesResolve(rec)
          /\ \A i \in ResidenciesOf(rec.id) :
                rec.generation >= residencies[i].generation
          /\ residencies' = Append(residencies, rec)

TablesMove ==
    /\ NicsMove /\ FunctionsMove /\ PortsMove /\ QueuesMove /\ GpusMove
    /\ AttachmentsMove /\ ResidenciesMove

\* What a registered worker's death does to the tables.
LEMMA MoveWorkerRetired ==
    ASSUME NEW w \in Workers, NEW b \in Boots, WorkerRetired(w, b)
    PROVE  TablesMove
<1>1. NicsMove
  BY DEF WorkerRetired, NicsMove
<1>2. AttachmentsMove
  BY DEF WorkerRetired, AttachmentsMove
<1>3. ResidenciesMove
  BY DEF WorkerRetired, ResidenciesMove
<1> QED
  BY <1>1, <1>2, <1>3 DEF WorkerRetired, TablesMove, FunctionsMove, PortsMove,
     QueuesMove, GpusMove

\* What a coordinator restart does to the tables.
LEMMA MoveCoordinatorRestart ==
    ASSUME NEW e \in Epochs, CoordinatorRestart(e)
    PROVE  TablesMove
<1>1. AttachmentsMove
  BY DEF CoordinatorRestart, AttachmentsMove
<1>2. ResidenciesMove
  BY DEF CoordinatorRestart, ResidenciesMove
<1> QED
  BY <1>1, <1>2 DEF CoordinatorRestart, TablesMove, NicsMove, FunctionsMove,
     PortsMove, QueuesMove, GpusMove

\* What the calls that publish discovery evidence do to the tables.
LEMMA MoveDiscoveryCall ==
    ASSUME NEW e \in Epochs, NEW w \in Workers, NEW b \in Boots,
           DiscoveryCall(e, w, b)
    PROVE  TablesMove
<1> USE DEF TablesMove
<1>1. ASSUME NEW n \in Nics \cup {None}, NEW rec \in NicInput,
             RegisterNic(e, w, b, n, rec)
      PROVE  TablesMove
  <2>1. rec \in NicRecord
    BY InputsAssumption DEF NicInput, NicRecord
  <2> QED
    BY <1>1, <2>1 DEF RegisterNic, StoresNic, NicsMove, FunctionsMove,
       PortsMove, QueuesMove, GpusMove, AttachmentsMove, ResidenciesMove
<1>2. ASSUME NEW n \in Nics, AdvanceNicGeneration(e, w, b, n)
      PROVE  TablesMove
  <2>1. NicsMove /\ FunctionsMove /\ QueuesMove
    BY <1>2 DEF AdvanceNicGeneration, NicsMove, FunctionsMove, QueuesMove
  <2>2. AttachmentsMove /\ ResidenciesMove
    BY <1>2 DEF AdvanceNicGeneration, AttachmentsMove, ResidenciesMove
  <2> QED
    BY <1>2, <2>1, <2>2 DEF AdvanceNicGeneration, PortsMove, GpusMove
<1>3. ASSUME NEW f \in Functions, NEW rec \in FunctionInput(w, b),
             RegisterFunction(e, w, b, f, rec)
      PROVE  TablesMove
  <2>1. rec \in FunctionRecord
    BY InputsAssumption
    DEF FunctionInput, FunctionRecord, Owners, Owner, Incarnation
  <2> QED
    BY <1>3, <2>1 DEF RegisterFunction, NicsMove, FunctionsMove,
       PortsMove, QueuesMove, GpusMove, AttachmentsMove, ResidenciesMove
<1>4. ASSUME NEW f \in Functions, AdvanceFunctionGeneration(e, w, b, f)
      PROVE  TablesMove
  <2>1. FunctionsMove /\ QueuesMove
    BY <1>4 DEF AdvanceFunctionGeneration, FunctionsMove, QueuesMove
  <2>2. AttachmentsMove /\ ResidenciesMove
    BY <1>4 DEF AdvanceFunctionGeneration, AttachmentsMove, ResidenciesMove
  <2> QED
    BY <1>4, <2>1, <2>2
    DEF AdvanceFunctionGeneration, NicsMove, PortsMove, GpusMove
<1>5. ASSUME NEW p \in Ports, NEW rec \in PortRecord,
             RegisterPort(e, w, b, p, rec)
      PROVE  TablesMove
  BY <1>5 DEF RegisterPort, NicsMove, FunctionsMove, PortsMove, QueuesMove,
     GpusMove, AttachmentsMove, ResidenciesMove
<1>6. ASSUME NEW q \in Queues, NEW rec \in QueueInput,
             RegisterQueue(e, w, b, q, rec)
      PROVE  TablesMove
  <2>1. rec \in QueueRecord
    BY InputsAssumption DEF QueueInput, QueueRecord
  <2> QED
    BY <1>6, <2>1 DEF RegisterQueue, NicsMove, FunctionsMove, PortsMove,
       QueuesMove, GpusMove, AttachmentsMove, ResidenciesMove
<1>7. ASSUME NEW q \in Queues, AdvanceQueueGeneration(e, w, b, q)
      PROVE  TablesMove
  <2>1. QueuesMove /\ ResidenciesMove
    BY <1>7 DEF AdvanceQueueGeneration, QueuesMove, ResidenciesMove
  <2> QED
    BY <1>7, <2>1 DEF AdvanceQueueGeneration, NicsMove, FunctionsMove,
       PortsMove, GpusMove, AttachmentsMove
<1>8. ASSUME NEW g \in TopologyGenerations, SetTopology(e, w, b, g)
      PROVE  TablesMove
  <2>1. AttachmentsMove /\ ResidenciesMove
    BY <1>8 DEF SetTopology, AttachmentsMove, ResidenciesMove
  <2> QED
    BY <1>8, <2>1 DEF SetTopology, NicsMove, FunctionsMove, PortsMove,
       QueuesMove, GpusMove
<1>9. ASSUME NEW g \in Gpus, NEW rec \in GpuRecord,
             RegisterGpu(e, w, b, g, rec)
      PROVE  TablesMove
  BY <1>9 DEF RegisterGpu, NicsMove, FunctionsMove, PortsMove, QueuesMove,
     GpusMove, AttachmentsMove, ResidenciesMove
<1> QED
  BY <1>1, <1>2, <1>3, <1>4, <1>5, <1>6, <1>7, <1>8, <1>9 DEF DiscoveryCall

\* What the calls that bind resources do to the tables.
LEMMA MoveBindingCall ==
    ASSUME NEW e \in Epochs, NEW w \in Workers, NEW b \in Boots,
           BindingCall(e, w, b)
    PROVE  TablesMove
<1> SUFFICES /\ AttachmentsMove /\ ResidenciesMove
             /\ UNCHANGED <<nics, functions, ports, queues, gpus>>
  BY DEF TablesMove, NicsMove, FunctionsMove, PortsMove, QueuesMove, GpusMove
<1>1. ASSUME NEW a \in Attachments, NEW att \in AttachmentInput(w, b),
             RegisterAttachment(e, w, b, a, att)
      PROVE  AttachmentsMove /\ ResidenciesMove
  BY <1>1, AttachmentInputType
  DEF RegisterAttachment, AttachmentsMove, ResidenciesMove
<1>2. ASSUME NEW a \in Attachments, RetireAttachment(e, w, b, a)
      PROVE  AttachmentsMove /\ ResidenciesMove
  BY <1>2 DEF RetireAttachment, AttachmentsMove, ResidenciesMove
<1>3. ASSUME NEW rec \in ResidencyInput(w, b), PublishResidency(e, w, b, rec)
      PROVE  AttachmentsMove /\ ResidenciesMove
  BY <1>3, ResidencyInputType
  DEF PublishResidency, AttachmentsMove, ResidenciesMove
<1>4. ASSUME NEW r \in ResidencyIds, RetireResidency(e, w, b, r)
      PROVE  AttachmentsMove /\ ResidenciesMove
  BY <1>4
  DEF RetireResidency, ResidenciesOf, AttachmentsMove, ResidenciesMove
<1>5. UNCHANGED <<nics, functions, ports, queues, gpus>>
  BY DEF BindingCall, RegisterAttachment, RetireAttachment, PublishResidency,
     RetireResidency
<1> QED
  BY <1>1, <1>2, <1>3, <1>4, <1>5 DEF BindingCall

\* Every step moves each table in one of the ways listed.
LEMMA TablesStep == ASSUME [Next]_vars PROVE TablesMove
<1>1. ASSUME NEW w \in Workers, NEW b \in Boots, RegisterWorker(w, b)
      PROVE  TablesMove
  BY <1>1 DEF RegisterWorker, TablesMove, NicsMove, FunctionsMove, PortsMove,
     QueuesMove, GpusMove, AttachmentsMove, ResidenciesMove
<1>2. CASE UNCHANGED vars
  BY <1>2 DEF vars, TablesMove, NicsMove, FunctionsMove, PortsMove,
     QueuesMove, GpusMove, AttachmentsMove, ResidenciesMove
<1> QED
  BY <1>1, <1>2, MoveWorkerRetired, MoveCoordinatorRestart,
     MoveDiscoveryCall, MoveBindingCall DEF Next

-----------------------------------------------------------------------------
(* Generations                                                             *)

\* next() moves a generation up, except at the top of the range.
LEMMA NextGenerationForward ==
    ASSUME NEW g \in Generations
    PROVE  /\ NextGeneration(g) \in Nat
           /\ NextGeneration(g) >= g \/ g = GenerationModulus - 1
<1>1. g \in Nat /\ g < GenerationModulus /\ GenerationModulus \in Nat \ {0}
  BY BoundsAssumption DEF Generations
<1>2. CASE g + 1 < GenerationModulus
  BY <1>1, <1>2 DEF NextGeneration
<1>3. CASE ~(g + 1 < GenerationModulus)
  BY <1>1, <1>3 DEF NextGeneration
<1> QED
  BY <1>2, <1>3

\* Storing a newer record in a table whose records R carry generations leaves
\* every other record alone and moves the stored one forward.
LEMMA StoredNewer ==
    ASSUME NEW K, NEW R, NEW m \in [K -> R \cup {None}], None \notin R,
           \A r \in R : r.generation \in Generations,
           NEW id \in K, NEW r \in R, NewerThan(m, id, r),
           NEW k \in Present(m)
    PROVE  \/ [m EXCEPT ![id] = r][k] = m[k]
           \/ /\ [m EXCEPT ![id] = r][k] = r
              /\ r.generation > m[k].generation
<1>1. k \in K /\ m[k] # None
  BY DEF Present
<1>2. CASE k # id
  BY <1>1, <1>2
<1>3. CASE k = id
  BY <1>1, <1>3 DEF NewerThan
<1> QED
  BY <1>2, <1>3

\* The same for a record that is not older.
LEMMA StoredNotOlder ==
    ASSUME NEW K, NEW R, NEW m \in [K -> R \cup {None}], None \notin R,
           \A r \in R : r.generation \in Generations,
           NEW id \in K, NEW r \in R, NotOlderThan(m, id, r),
           NEW k \in Present(m)
    PROVE  \/ [m EXCEPT ![id] = r][k] = m[k]
           \/ /\ [m EXCEPT ![id] = r][k] = r
              /\ r.generation >= m[k].generation
<1>1. k \in K /\ m[k] # None
  BY DEF Present
<1>2. CASE k # id
  BY <1>1, <1>2
<1>3. CASE k = id
  BY <1>1, <1>3 DEF NotOlderThan
<1> QED
  BY <1>2, <1>3

\* From r to r2 the record is kept at a generation that does not go back, it
\* changes what it says only with its generation, and it is demoted for good.
Evolves(r, r2) ==
    /\ r2 # None /\ Forward(r, r2)
    /\ StaysDemoted(r, r2)

\* A NIC record evolves, and changes content only with its generation.
LEMMA NicsAdvance ==
    ASSUME TypeOK, NicsMove, NEW n \in Present(nics)
    PROVE  /\ Evolves(nics[n], nics'[n])
           /\ nics'[n].content # nics[n].content =>
                 Supersedes(nics[n], nics'[n])
<1> DEFINE Goal == /\ Evolves(nics[n], nics'[n])
                   /\ nics'[n].content # nics[n].content =>
                         Supersedes(nics[n], nics'[n])
<1> USE DEF Evolves, Forward, StaysDemoted, Supersedes, Revalidate
<1>1. /\ n \in Nics /\ nics[n] \in NicRecord
      /\ nics[n].generation \in Generations
      /\ nics[n].generation \in Nat
  BY DEF TypeOK, Present, NicRecord, Generations
<1>2. CASE UNCHANGED nics
  BY <1>1, <1>2, NoneAssumption
<1>3. ASSUME NEW ks \in SUBSET Present(nics), nics' = Demoted(nics, ks)
      PROVE  Goal
  <2>1. nics'[n] \in {nics[n],
            [nics[n] EXCEPT !.lifecycle = "REVALIDATION_REQUIRED"]}
    BY <1>1, <1>3 DEF Demoted, TypeOK
  <2>2. /\ nics'[n] \in NicRecord
        /\ nics'[n].generation = nics[n].generation
        /\ nics'[n].content = nics[n].content
        /\ nics'[n].lifecycle \in {nics[n].lifecycle, Revalidate}
    BY <1>1, <2>1 DEF NicRecord, LifecycleState
  <2> QED
    BY <1>1, <2>2, NoneAssumption
<1>4. ASSUME NEW id \in Nics, NEW r \in NicRecord, NewerThan(nics, id, r),
             nics' = [nics EXCEPT ![id] = r]
      PROVE  Goal
  <2>1. \A x \in NicRecord : x.generation \in Generations
    BY DEF NicRecord
  <2>2. \/ nics'[n] = nics[n]
        \/ nics'[n] = r /\ r.generation > nics[n].generation
    <3>1. nics \in [Nics -> NicRecord \cup {None}] /\ None \notin NicRecord
      BY NoneAssumption DEF TypeOK
    <3>2. \/ [nics EXCEPT ![id] = r][n] = nics[n]
          \/ /\ [nics EXCEPT ![id] = r][n] = r
             /\ r.generation > nics[n].generation
      BY <1>4, <2>1, <3>1, StoredNewer
    <3> QED
      BY <1>4, <3>2
  <2>3. r # None /\ nics[n] # None /\ r.generation \in Nat
    BY <1>1, <2>1, NoneAssumption DEF Generations
  <2> QED
    BY <1>1, <2>2, <2>3
<1>5. ASSUME NEW id \in Present(nics),
             NextGeneration(nics[id].generation) \in Generations,
             nics' = [nics EXCEPT ![id].generation = NextGeneration(@)]
      PROVE  Goal
  <2>1. CASE id # n
    BY <1>1, <1>5, <2>1, NoneAssumption DEF TypeOK
  <2>2. CASE id = n
    <3>1. nics'[n] = [nics[n] EXCEPT !.generation =
                         NextGeneration(nics[n].generation)]
      BY <1>1, <1>5, <2>2 DEF TypeOK
    <3>2. /\ nics'[n] \in NicRecord
          /\ nics'[n].generation = NextGeneration(nics[n].generation)
          /\ nics'[n].content = nics[n].content
          /\ nics'[n].lifecycle = nics[n].lifecycle
      BY <1>1, <1>5, <2>2, <3>1 DEF NicRecord
    <3> QED
      BY <1>1, <3>2, NextGenerationForward, NoneAssumption
  <2> QED
    BY <2>1, <2>2
<1> QED
  BY <1>2, <1>3, <1>4, <1>5 DEF NicsMove

\* A function record evolves, and changes parent only with its generation.
LEMMA FunctionsAdvance ==
    ASSUME TypeOK, FunctionsMove, NEW f \in Present(functions)
    PROVE  /\ Evolves(functions[f], functions'[f])
           /\ functions'[f].parent_nic # functions[f].parent_nic =>
                 Supersedes(functions[f], functions'[f])
<1> DEFINE Goal == /\ Evolves(functions[f], functions'[f])
                   /\ functions'[f].parent_nic # functions[f].parent_nic =>
                         Supersedes(functions[f], functions'[f])
<1> USE DEF Evolves, Forward, StaysDemoted, Supersedes, Revalidate
<1>1. /\ f \in Functions /\ functions[f] \in FunctionRecord
      /\ functions[f].generation \in Generations
      /\ functions[f].generation \in Nat
  BY DEF TypeOK, Present, FunctionRecord, Generations
<1>2. CASE UNCHANGED functions
  BY <1>1, <1>2, NoneAssumption
<1>3. ASSUME NEW ks \in SUBSET Present(functions), functions' = Demoted(functions, ks)
      PROVE  Goal
  <2>1. functions'[f] \in {functions[f],
            [functions[f] EXCEPT !.lifecycle = "REVALIDATION_REQUIRED"]}
    BY <1>1, <1>3 DEF Demoted, TypeOK
  <2>2. /\ functions'[f] \in FunctionRecord
        /\ functions'[f].generation = functions[f].generation
        /\ functions'[f].parent_nic = functions[f].parent_nic
        /\ functions'[f].lifecycle \in {functions[f].lifecycle, Revalidate}
    BY <1>1, <2>1 DEF FunctionRecord, LifecycleState
  <2> QED
    BY <1>1, <2>2, NoneAssumption
<1>4. ASSUME NEW id \in Functions, NEW r \in FunctionRecord, NewerThan(functions, id, r),
             functions' = [functions EXCEPT ![id] = r]
      PROVE  Goal
  <2>1. \A x \in FunctionRecord : x.generation \in Generations
    BY DEF FunctionRecord
  <2>2. \/ functions'[f] = functions[f]
        \/ functions'[f] = r /\ r.generation > functions[f].generation
    <3>1. functions \in [Functions -> FunctionRecord \cup {None}] /\ None \notin FunctionRecord
      BY NoneAssumption DEF TypeOK
    <3>2. \/ [functions EXCEPT ![id] = r][f] = functions[f]
          \/ /\ [functions EXCEPT ![id] = r][f] = r
             /\ r.generation > functions[f].generation
      BY <1>4, <2>1, <3>1, StoredNewer
    <3> QED
      BY <1>4, <3>2
  <2>3. r # None /\ functions[f] # None /\ r.generation \in Nat
    BY <1>1, <2>1, NoneAssumption DEF Generations
  <2> QED
    BY <1>1, <2>2, <2>3
<1>5. ASSUME NEW id \in Present(functions),
             NextGeneration(functions[id].generation) \in Generations,
             functions' = [functions EXCEPT ![id].generation = NextGeneration(@)]
      PROVE  Goal
  <2>1. CASE id # f
    BY <1>1, <1>5, <2>1, NoneAssumption DEF TypeOK
  <2>2. CASE id = f
    <3>1. functions'[f] = [functions[f] EXCEPT !.generation =
                         NextGeneration(functions[f].generation)]
      BY <1>1, <1>5, <2>2 DEF TypeOK
    <3>2. /\ functions'[f] \in FunctionRecord
          /\ functions'[f].generation = NextGeneration(functions[f].generation)
          /\ functions'[f].parent_nic = functions[f].parent_nic
          /\ functions'[f].lifecycle = functions[f].lifecycle
      BY <1>1, <1>5, <2>2, <3>1 DEF FunctionRecord
    <3> QED
      BY <1>1, <3>2, NextGenerationForward, NoneAssumption
  <2> QED
    BY <2>1, <2>2
<1>6. CASE functions' = Disowned(functions, Present(functions))
  <2>1. functions'[f] = [functions[f] EXCEPT !.owner = None]
    BY <1>6 DEF Disowned, TypeOK, Present
  <2>2. /\ functions'[f] \in FunctionRecord
        /\ functions'[f].generation = functions[f].generation
        /\ functions'[f].parent_nic = functions[f].parent_nic
        /\ functions'[f].lifecycle = functions[f].lifecycle
    BY <1>1, <2>1 DEF FunctionRecord, Owner
  <2> QED
    BY <1>1, <2>2, NoneAssumption
<1> QED
  BY <1>2, <1>3, <1>4, <1>5, <1>6 DEF FunctionsMove

\* A queue record evolves, and changes function only with its generation.
LEMMA QueuesAdvance ==
    ASSUME TypeOK, QueuesMove, NEW q \in Present(queues)
    PROVE  /\ Evolves(queues[q], queues'[q])
           /\ queues'[q].parent_function # queues[q].parent_function =>
                 Supersedes(queues[q], queues'[q])
<1> DEFINE Goal == /\ Evolves(queues[q], queues'[q])
                   /\ queues'[q].parent_function # queues[q].parent_function =>
                         Supersedes(queues[q], queues'[q])
<1> USE DEF Evolves, Forward, StaysDemoted, Supersedes, Revalidate
<1>1. /\ q \in Queues /\ queues[q] \in QueueRecord
      /\ queues[q].generation \in Generations
      /\ queues[q].generation \in Nat
  BY DEF TypeOK, Present, QueueRecord, Generations
<1>2. CASE UNCHANGED queues
  BY <1>1, <1>2, NoneAssumption
<1>3. ASSUME NEW ks \in SUBSET Present(queues), queues' = Demoted(queues, ks)
      PROVE  Goal
  <2>1. queues'[q] \in {queues[q],
            [queues[q] EXCEPT !.lifecycle = "REVALIDATION_REQUIRED"]}
    BY <1>1, <1>3 DEF Demoted, TypeOK
  <2>2. /\ queues'[q] \in QueueRecord
        /\ queues'[q].generation = queues[q].generation
        /\ queues'[q].parent_function = queues[q].parent_function
        /\ queues'[q].lifecycle \in {queues[q].lifecycle, Revalidate}
    BY <1>1, <2>1 DEF QueueRecord, LifecycleState
  <2> QED
    BY <1>1, <2>2, NoneAssumption
<1>4. ASSUME NEW id \in Queues, NEW r \in QueueRecord, NewerThan(queues, id, r),
             queues' = [queues EXCEPT ![id] = r]
      PROVE  Goal
  <2>1. \A x \in QueueRecord : x.generation \in Generations
    BY DEF QueueRecord
  <2>2. \/ queues'[q] = queues[q]
        \/ queues'[q] = r /\ r.generation > queues[q].generation
    <3>1. queues \in [Queues -> QueueRecord \cup {None}] /\ None \notin QueueRecord
      BY NoneAssumption DEF TypeOK
    <3>2. \/ [queues EXCEPT ![id] = r][q] = queues[q]
          \/ /\ [queues EXCEPT ![id] = r][q] = r
             /\ r.generation > queues[q].generation
      BY <1>4, <2>1, <3>1, StoredNewer
    <3> QED
      BY <1>4, <3>2
  <2>3. r # None /\ queues[q] # None /\ r.generation \in Nat
    BY <1>1, <2>1, NoneAssumption DEF Generations
  <2> QED
    BY <1>1, <2>2, <2>3
<1>5. ASSUME NEW id \in Present(queues),
             NextGeneration(queues[id].generation) \in Generations,
             queues' = [queues EXCEPT ![id].generation = NextGeneration(@)]
      PROVE  Goal
  <2>1. CASE id # q
    BY <1>1, <1>5, <2>1, NoneAssumption DEF TypeOK
  <2>2. CASE id = q
    <3>1. queues'[q] = [queues[q] EXCEPT !.generation =
                         NextGeneration(queues[q].generation)]
      BY <1>1, <1>5, <2>2 DEF TypeOK
    <3>2. /\ queues'[q] \in QueueRecord
          /\ queues'[q].generation = NextGeneration(queues[q].generation)
          /\ queues'[q].parent_function = queues[q].parent_function
          /\ queues'[q].lifecycle = queues[q].lifecycle
      BY <1>1, <1>5, <2>2, <3>1 DEF QueueRecord
    <3> QED
      BY <1>1, <3>2, NextGenerationForward, NoneAssumption
  <2> QED
    BY <2>1, <2>2
<1> QED
  BY <1>2, <1>3, <1>4, <1>5 DEF QueuesMove

\* A port record is kept, and its generation does not go back.
LEMMA PortsAdvance ==
    ASSUME TypeOK, PortsMove, NEW p \in Present(ports)
    PROVE  ports'[p] # None /\ Forward(ports[p], ports'[p])
<1>1. /\ ports \in [Ports -> PortRecord \cup {None}] /\ None \notin PortRecord
      /\ ports[p] # None /\ ports[p].generation \in Nat
      /\ \A x \in PortRecord : x.generation \in Generations
  BY NoneAssumption DEF TypeOK, Present, PortRecord, Generations
<1>2. ASSUME NEW id \in Ports, NEW r \in PortRecord, NewerThan(ports, id, r),
             ports' = [ports EXCEPT ![id] = r]
      PROVE  \/ ports'[p] = ports[p]
             \/ ports'[p] = r /\ r.generation > ports[p].generation
  BY <1>1, <1>2, StoredNewer
<1> QED
  BY <1>1, <1>2 DEF PortsMove, Forward, Generations

\* A GPU record is kept, and its generation does not go back.
LEMMA GpusAdvance ==
    ASSUME TypeOK, GpusMove, NEW g \in Present(gpus)
    PROVE  gpus'[g] # None /\ Forward(gpus[g], gpus'[g])
<1>1. /\ gpus \in [Gpus -> GpuRecord \cup {None}] /\ None \notin GpuRecord
      /\ gpus[g] # None /\ gpus[g].generation \in Nat
      /\ \A x \in GpuRecord : x.generation \in Generations
  BY NoneAssumption DEF TypeOK, Present, GpuRecord, Generations
<1>2. ASSUME NEW id \in Gpus, NEW r \in GpuRecord, NotOlderThan(gpus, id, r),
             gpus' = [gpus EXCEPT ![id] = r]
      PROVE  \/ gpus'[g] = gpus[g]
             \/ gpus'[g] = r /\ r.generation >= gpus[g].generation
  BY <1>1, <1>2, StoredNotOlder
<1> QED
  BY <1>1, <1>2 DEF GpusMove, Forward, Generations

\* What an in-place update of a binding leaves alone.
SameBinding(b, b2) ==
    /\ b2.generation = b.generation
    /\ b2.nic = b.nic /\ b2.function = b.function
    /\ b2.port = b.port /\ b2.queue = b.queue

\* After a step an attachment is the one that was there, as far as its
\* generation and references go, or a newly stored one.
LEMMA AttachmentsAdvance ==
    ASSUME TypeOK, AttachmentsMove, NEW a \in Attachments
    PROVE  \/ attachments'[a] = attachments[a]
           \/ /\ attachments[a] # None /\ attachments'[a] # None
              /\ SameBinding(attachments[a], attachments'[a])
           \/ /\ attachments'[a] \in Attachment
              /\ ReferencesResolve(attachments'[a])
              /\ attachments[a] # None => attachments'[a].generation
                                             >= attachments[a].generation
<1> DEFINE Same == \/ attachments'[a] = attachments[a]
                   \/ /\ attachments[a] # None /\ attachments'[a] # None
                      /\ SameBinding(attachments[a], attachments'[a])
<1>1. attachments \in [Attachments -> Attachment \cup {None}]
  BY DEF TypeOK
<1>2. ASSUME NEW ks \in SUBSET Present(attachments),
             attachments' \in {Staled(ks), Disowned(Staled(ks), ks)}
      PROVE  Same
  <2>1. CASE a \notin ks
    BY <1>1, <1>2, <2>1 DEF Staled, Disowned
  <2>2. CASE a \in ks
    <3>1. attachments[a] \in Attachment
      BY <1>1, <2>2 DEF Present
    <3>2. attachments'[a] \in
             {[attachments[a] EXCEPT !.state = "STALE"],
              [[attachments[a] EXCEPT !.state = "STALE"]
                    EXCEPT !.owner = None]}
      BY <1>1, <1>2, <2>2 DEF Staled, Disowned
    <3>3. attachments'[a] \in Attachment
      BY <3>1, <3>2 DEF Attachment, AttachmentState, Owner
    <3>4. SameBinding(attachments[a], attachments'[a])
      BY <3>1, <3>2 DEF Attachment, SameBinding
    <3> QED
      BY <3>1, <3>3, <3>4, NoneAssumption
  <2> QED
    BY <2>1, <2>2
<1>3. ASSUME NEW id \in Present(attachments),
             attachments' = [attachments EXCEPT ![id].state = "REVOKED"]
      PROVE  Same
  <2>1. CASE a # id
    BY <1>1, <1>3, <2>1
  <2>2. CASE a = id
    <3>1. attachments[a] \in Attachment
      BY <1>1, <2>2 DEF Present
    <3>2. attachments'[a] = [attachments[a] EXCEPT !.state = "REVOKED"]
      BY <1>1, <1>3, <2>2
    <3>3. attachments'[a] \in Attachment
      BY <3>1, <3>2 DEF Attachment, AttachmentState
    <3>4. SameBinding(attachments[a], attachments'[a])
      BY <3>1, <3>2 DEF Attachment, SameBinding
    <3> QED
      BY <3>1, <3>3, <3>4, NoneAssumption
  <2> QED
    BY <2>1, <2>2
<1>4. ASSUME NEW id \in Attachments, NEW att \in Attachment,
             ReferencesResolve(att), NotOlderThan(attachments, id, att),
             attachments' = [attachments EXCEPT ![id] = att]
      PROVE  \/ attachments'[a] = attachments[a]
             \/ /\ attachments'[a] = att
                /\ attachments[a] # None => att.generation
                                               >= attachments[a].generation
  BY <1>1, <1>4 DEF NotOlderThan
<1> QED
  BY <1>2, <1>3, <1>4 DEF AttachmentsMove

\* After a step the residency vector holds what it held, as far as ids,
\* generations and references go, possibly with one record appended.
LEMMA ResidenciesAdvance ==
    ASSUME TypeOK, ResidenciesMove
    PROVE  \/ /\ DOMAIN residencies' = DOMAIN residencies
              /\ Len(residencies') = Len(residencies)
              /\ \A i \in DOMAIN residencies :
                    /\ residencies'[i].id = residencies[i].id
                    /\ SameBinding(residencies[i], residencies'[i])
           \/ \E r \in ResidencyRecord :
                 /\ ReferencesResolve(r)
                 /\ \A i \in ResidenciesOf(r.id) :
                       r.generation >= residencies[i].generation
                 /\ residencies' = Append(residencies, r)
<1> DEFINE Same == /\ DOMAIN residencies' = DOMAIN residencies
                   /\ Len(residencies') = Len(residencies)
                   /\ \A i \in DOMAIN residencies :
                         /\ residencies'[i].id = residencies[i].id
                         /\ SameBinding(residencies[i], residencies'[i])
<1>1. \A i \in DOMAIN residencies : residencies[i] \in ResidencyRecord
  BY ResidencyElements
<1>2. CASE UNCHANGED residencies
  BY <1>2 DEF SameBinding
<1>3. ASSUME NEW is \in SUBSET DOMAIN residencies,
             residencies' \in {Revalidating(is), Disowned(Revalidating(is), is)}
      PROVE  Same
  <2>1. /\ Revalidating(is) \in Seq(ResidencyRecord)
        /\ DOMAIN Revalidating(is) = DOMAIN residencies
        /\ Len(Revalidating(is)) = Len(residencies)
    BY RevalidatingType DEF TypeOK
  <2>2. /\ DOMAIN Disowned(Revalidating(is), is) = DOMAIN residencies
        /\ Len(Disowned(Revalidating(is), is)) = Len(residencies)
    BY <2>1, DisownedResidencies
  <2>3. ASSUME NEW i \in DOMAIN residencies
        PROVE  /\ residencies'[i].id = residencies[i].id
               /\ SameBinding(residencies[i], residencies'[i])
    <3>1. /\ Revalidating(is)[i].id = residencies[i].id
          /\ SameBinding(residencies[i], Revalidating(is)[i])
      BY <1>1 DEF Revalidating, SameBinding, ResidencyRecord
    <3>2. Revalidating(is)[i] \in ResidencyRecord
      BY <2>1, ElementOfSeq, LenProperties
    <3>3. /\ Disowned(Revalidating(is), is)[i].id = Revalidating(is)[i].id
          /\ SameBinding(Revalidating(is)[i],
                         Disowned(Revalidating(is), is)[i])
      BY <2>1, <3>2 DEF Disowned, SameBinding, ResidencyRecord
    <3> QED
      BY <1>3, <3>1, <3>3 DEF SameBinding
  <2> QED
    BY <1>3, <2>1, <2>2, <2>3
<1>4. ASSUME NEW i \in DOMAIN residencies,
             residencies' = [residencies EXCEPT ![i] =
                                [@ EXCEPT !.state = "RETIRED",
                                          !.lifecycle = "RETIRED"]]
      PROVE  Same
  <2>1. DOMAIN residencies' = DOMAIN residencies
    BY <1>4
  <2>2. residencies' \in [DOMAIN residencies -> ResidencyRecord]
    <3>1. [residencies[i] EXCEPT !.state = "RETIRED", !.lifecycle = "RETIRED"]
             \in ResidencyRecord
      BY <1>1 DEF ResidencyRecord, ResidencyState, LifecycleState
    <3>2. residencies \in [DOMAIN residencies -> ResidencyRecord]
      BY <1>1, LenProperties, SeqDef DEF TypeOK
    <3> QED
      BY <1>4, <3>1, <3>2
  <2>3. Len(residencies') = Len(residencies)
    BY <2>2, SameShape DEF TypeOK
  <2>4. \A j \in DOMAIN residencies :
           /\ residencies'[j].id = residencies[j].id
           /\ SameBinding(residencies[j], residencies'[j])
    BY <1>1, <1>4 DEF SameBinding, ResidencyRecord
  <2> QED
    BY <2>1, <2>3, <2>4
<1> QED
  BY <1>2, <1>3, <1>4 DEF ResidenciesMove

-----------------------------------------------------------------------------
(* Nothing goes back                                                       *)

\* The epoch and the topology generation only grow.
LEMMA ClocksAdvance ==
    ASSUME TypeOK, [Next]_vars
    PROVE  /\ epoch' >= epoch
           /\ topology # None => topology' # None /\ topology' >= topology
<1>1. /\ epoch \in Nat
      /\ topology # None => topology \in Nat
      /\ \A g \in TopologyGenerations : g \in Nat /\ g # None
  BY NoneAssumption DEF TypeOK, Epochs, TopologyGenerations
<1>2. ASSUME NEW e \in Epochs, CoordinatorRestart(e)
      PROVE  epoch' >= epoch /\ UNCHANGED topology
  BY <1>1, <1>2 DEF CoordinatorRestart, Epochs
<1>3. ASSUME NEW e \in Epochs, NEW w \in Workers, NEW b \in Boots,
             NEW g \in TopologyGenerations, SetTopology(e, w, b, g)
      PROVE  /\ UNCHANGED epoch
             /\ topology # None => topology' # None /\ topology' >= topology
  BY <1>1, <1>3 DEF SetTopology
<1>4. ASSUME NEW e \in Epochs, NEW w \in Workers, NEW b \in Boots,
             DiscoveryCall(e, w, b)
      PROVE  \/ \E g \in TopologyGenerations : SetTopology(e, w, b, g)
             \/ UNCHANGED <<epoch, topology>>
  BY <1>4
  DEF DiscoveryCall, RegisterNic, AdvanceNicGeneration, RegisterFunction,
      AdvanceFunctionGeneration, RegisterPort, RegisterQueue,
      AdvanceQueueGeneration, RegisterGpu
<1>5. ASSUME NEW e \in Epochs, NEW w \in Workers, NEW b \in Boots,
             BindingCall(e, w, b)
      PROVE  UNCHANGED <<epoch, topology>>
  BY <1>5
  DEF BindingCall, RegisterAttachment, RetireAttachment, PublishResidency,
      RetireResidency
<1>6. ASSUME NEW w \in Workers, NEW b \in Boots,
             RegisterWorker(w, b) \/ WorkerRetired(w, b)
      PROVE  UNCHANGED <<epoch, topology>>
  BY <1>6 DEF RegisterWorker, WorkerRetired
<1> QED
  BY <1>1, <1>2, <1>3, <1>4, <1>5, <1>6 DEF Next, vars

\* Every table keeps its records and moves their generations forward.
LEMMA TablesForward ==
    ASSUME TypeOK, [Next]_vars
    PROVE  /\ KeysForward(nics, nics') /\ KeysForward(functions, functions')
           /\ KeysForward(ports, ports') /\ KeysForward(queues, queues')
           /\ KeysForward(gpus, gpus')
           /\ KeysForward(attachments, attachments')
           /\ Len(residencies') >= Len(residencies)
<1>1. TablesMove
  BY TablesStep
<1>2. KeysForward(nics, nics')
  BY <1>1, NicsAdvance DEF TablesMove, KeysForward, Evolves
<1>3. KeysForward(functions, functions')
  BY <1>1, FunctionsAdvance DEF TablesMove, KeysForward, Evolves
<1>4. KeysForward(ports, ports')
  BY <1>1, PortsAdvance DEF TablesMove, KeysForward
<1>5. KeysForward(queues, queues')
  BY <1>1, QueuesAdvance DEF TablesMove, KeysForward, Evolves
<1>6. KeysForward(gpus, gpus')
  BY <1>1, GpusAdvance DEF TablesMove, KeysForward
<1>7. KeysForward(attachments, attachments')
  <2> SUFFICES ASSUME NEW a \in Present(attachments)
               PROVE  /\ attachments'[a] # None
                      /\ Forward(attachments[a], attachments'[a])
    BY DEF KeysForward
  <2>1. /\ a \in Attachments /\ attachments[a] # None
        /\ attachments[a].generation \in Nat
    BY DEF TypeOK, Present, Attachment, Generations
  <2>2. \/ attachments'[a] = attachments[a]
        \/ /\ attachments'[a] # None
           /\ SameBinding(attachments[a], attachments'[a])
        \/ /\ attachments'[a] \in Attachment
           /\ attachments'[a].generation >= attachments[a].generation
    BY <1>1, <2>1, AttachmentsAdvance DEF TablesMove
  <2> QED
    BY <2>1, <2>2, NoneAssumption DEF Forward, SameBinding
<1>8. Len(residencies') >= Len(residencies)
  <2>1. Len(residencies) \in Nat
    BY LenProperties DEF TypeOK
  <2>2. ASSUME NEW r \in ResidencyRecord, residencies' = Append(residencies, r)
        PROVE  Len(residencies') = Len(residencies) + 1
    BY <2>2, AppendProperties DEF TypeOK
  <2> QED
    BY <1>1, <2>1, <2>2, ResidenciesAdvance DEF TablesMove
<1> QED
  BY <1>2, <1>3, <1>4, <1>5, <1>6, <1>7, <1>8

\* No step of any worker in any epoch forgets a record or takes a generation,
\* the topology generation or the epoch back (register_*, advance_*,
\* set_topology, worker_retired, coordinator_restart).
THEOREM NothingGoesBackHolds == Spec => NothingGoesBack
<1>1. TypeOK /\ [Next]_vars =>
         [/\ epoch' >= epoch
          /\ topology # None => topology' # None /\ topology' >= topology
          /\ KeysForward(nics, nics') /\ KeysForward(functions, functions')
          /\ KeysForward(ports, ports') /\ KeysForward(queues, queues')
          /\ KeysForward(gpus, gpus') /\ KeysForward(attachments, attachments')
          /\ Len(residencies') >= Len(residencies)]_vars
  BY ClocksAdvance, TablesForward
<1> QED
  BY <1>1, TypeCorrect, PTL DEF Spec, NothingGoesBack

\* Demoted evidence becomes current again, and what a record says about the
\* hardware changes, only together with its generation, whatever is replayed
\* (register_nic, register_function, register_queue and the demotions).
THEOREM NewEvidenceNeedsNewGenerationHolds ==
    Spec => NewEvidenceNeedsNewGeneration
<1>1. TypeOK /\ [Next]_vars =>
         [/\ \A n \in Present(nics) :
                /\ StaysDemoted(nics[n], nics'[n])
                /\ nics'[n].content # nics[n].content =>
                      Supersedes(nics[n], nics'[n])
          /\ \A f \in Present(functions) :
                /\ StaysDemoted(functions[f], functions'[f])
                /\ functions'[f].parent_nic # functions[f].parent_nic =>
                      Supersedes(functions[f], functions'[f])
          /\ \A q \in Present(queues) :
                /\ StaysDemoted(queues[q], queues'[q])
                /\ queues'[q].parent_function # queues[q].parent_function =>
                      Supersedes(queues[q], queues'[q])]_vars
  BY TablesStep, NicsAdvance, FunctionsAdvance, QueuesAdvance
  DEF TablesMove, Evolves
<1> QED
  BY <1>1, TypeCorrect, PTL DEF Spec, NewEvidenceNeedsNewGeneration

-----------------------------------------------------------------------------
(* References                                                              *)

\* Records are never dropped from the tables.
LEMMA TablesGrow ==
    ASSUME TypeOK, TablesMove, TypeOK'
    PROVE  /\ Present(nics) \subseteq Present(nics')
           /\ Present(functions) \subseteq Present(functions')
           /\ Present(ports) \subseteq Present(ports')
           /\ Present(queues) \subseteq Present(queues')
<1>1. Present(nics) \subseteq Present(nics')
  BY NicsAdvance DEF TablesMove, Evolves, Present, TypeOK
<1>2. Present(functions) \subseteq Present(functions')
  BY FunctionsAdvance DEF TablesMove, Evolves, Present, TypeOK
<1>3. Present(ports) \subseteq Present(ports')
  BY PortsAdvance DEF TablesMove, Present, TypeOK
<1>4. Present(queues) \subseteq Present(queues')
  BY QueuesAdvance DEF TablesMove, Evolves, Present, TypeOK
<1> QED
  BY <1>1, <1>2, <1>3, <1>4

\* The parent of every function is a known NIC after the step too.
LEMMA FunctionsGrounded ==
    ASSUME TypeOK, FunctionsMove, NEW f \in Functions, functions'[f] # None,
           \A k \in Present(functions) :
              functions[k].parent_nic \in Present(nics)
    PROVE  functions'[f].parent_nic \in Present(nics)
<1>1. functions \in [Functions -> FunctionRecord \cup {None}]
  BY DEF TypeOK
<1>2. f \in Present(functions) =>
         functions[f] \in FunctionRecord
         /\ functions[f].parent_nic \in Present(nics)
  BY <1>1 DEF Present
<1>3. CASE UNCHANGED functions
  BY <1>1, <1>3 DEF Present
<1>4. ASSUME NEW ks \in SUBSET Present(functions),
             functions' \in {Demoted(functions, ks), Disowned(functions, ks)}
      PROVE  functions'[f].parent_nic \in Present(nics)
  <2>1. functions'[f] \in
           {functions[f],
            [functions[f] EXCEPT !.lifecycle = "REVALIDATION_REQUIRED"],
            [functions[f] EXCEPT !.owner = None]}
        /\ f \in Present(functions)
    BY <1>1, <1>4 DEF Demoted, Disowned, Present
  <2> QED
    BY <1>2, <2>1 DEF FunctionRecord
<1>5. ASSUME NEW id \in Functions, NEW r \in FunctionRecord,
             r.parent_nic \in Present(nics),
             functions' = [functions EXCEPT ![id] = r]
      PROVE  functions'[f].parent_nic \in Present(nics)
  BY <1>1, <1>2, <1>5 DEF Present
<1>6. ASSUME NEW id \in Present(functions),
             functions' = [functions EXCEPT ![id].generation =
                              NextGeneration(@)]
      PROVE  functions'[f].parent_nic \in Present(nics)
  <2>1. CASE f # id
    BY <1>1, <1>2, <1>6, <2>1 DEF Present
  <2>2. CASE f = id
    <3>1. functions'[f] = [functions[f] EXCEPT !.generation =
                              NextGeneration(functions[f].generation)]
      BY <1>1, <1>6, <2>2
    <3> QED
      BY <1>2, <2>2, <3>1 DEF FunctionRecord
  <2> QED
    BY <2>1, <2>2
<1> QED
  BY <1>3, <1>4, <1>5, <1>6 DEF FunctionsMove

\* What a queue names is known after the step too.
LEMMA QueuesGrounded ==
    ASSUME TypeOK, QueuesMove, NEW q \in Queues, queues'[q] # None,
           \A k \in Present(queues) :
              /\ queues[k].parent_nic \in Present(nics)
              /\ queues[k].parent_function \in Present(functions)
    PROVE  /\ queues'[q].parent_nic \in Present(nics)
           /\ queues'[q].parent_function \in Present(functions)
<1> DEFINE Goal == /\ queues'[q].parent_nic \in Present(nics)
                   /\ queues'[q].parent_function \in Present(functions)
<1>1. queues \in [Queues -> QueueRecord \cup {None}]
  BY DEF TypeOK
<1>2. q \in Present(queues) =>
         /\ queues[q] \in QueueRecord
         /\ queues[q].parent_nic \in Present(nics)
         /\ queues[q].parent_function \in Present(functions)
  BY <1>1 DEF Present
<1>3. CASE UNCHANGED queues
  BY <1>1, <1>2, <1>3 DEF Present
<1>4. ASSUME NEW ks \in SUBSET Present(queues), queues' = Demoted(queues, ks)
      PROVE  Goal
  <2>1. queues'[q] \in
           {queues[q], [queues[q] EXCEPT !.lifecycle = "REVALIDATION_REQUIRED"]}
        /\ q \in Present(queues)
    BY <1>1, <1>4 DEF Demoted, Present
  <2> QED
    BY <1>2, <2>1 DEF QueueRecord
<1>5. ASSUME NEW id \in Queues, NEW r \in QueueRecord,
             r.parent_nic \in Present(nics),
             r.parent_function \in Present(functions),
             queues' = [queues EXCEPT ![id] = r]
      PROVE  Goal
  <2>1. queues'[q] = r \/ (queues'[q] = queues[q] /\ q \in Present(queues))
    BY <1>1, <1>5 DEF Present
  <2> QED
    BY <1>2, <1>5, <2>1
<1>6. ASSUME NEW id \in Present(queues),
             queues' = [queues EXCEPT ![id].generation = NextGeneration(@)]
      PROVE  Goal
  <2>1. CASE q # id
    <3>1. queues'[q] = queues[q] /\ q \in Present(queues)
      BY <1>1, <1>6, <2>1 DEF Present
    <3> QED
      BY <1>2, <3>1
  <2>2. CASE q = id
    <3>1. queues'[q] = [queues[q] EXCEPT !.generation =
                           NextGeneration(queues[q].generation)]
      BY <1>1, <1>6, <2>2
    <3> QED
      BY <1>2, <2>2, <3>1 DEF QueueRecord
  <2> QED
    BY <2>1, <2>2
<1> QED
  BY <1>3, <1>4, <1>5, <1>6 DEF QueuesMove

\* Every step keeps every reference resolved.
LEMMA IntegrityStep ==
    TypeOK /\ CheckedReferencesResolve /\ [Next]_vars =>
        CheckedReferencesResolve'
<1> SUFFICES ASSUME TypeOK, CheckedReferencesResolve, [Next]_vars
             PROVE  CheckedReferencesResolve'
  OBVIOUS
<1>1. TablesMove /\ TypeOK'
  BY TablesStep, TypeStep
<1>2. /\ Present(nics) \subseteq Present(nics')
      /\ Present(functions) \subseteq Present(functions')
      /\ Present(ports) \subseteq Present(ports')
      /\ Present(queues) \subseteq Present(queues')
  BY <1>1, TablesGrow
<1>3. \A f \in Present(functions') :
         functions'[f].parent_nic \in Present(nics')
  <2>1. \A f \in Present(functions') : f \in Functions /\ functions'[f] # None
    BY <1>1 DEF Present, TypeOK
  <2> QED
    BY <1>1, <1>2, <2>1, FunctionsGrounded DEF CheckedReferencesResolve, TablesMove
<1>4. \A p \in Present(ports') :
         /\ ports'[p].parent_nic \in Present(nics')
         /\ ports'[p].parent_function \in Present(functions') \cup {None}
  <2> SUFFICES ASSUME NEW p \in Present(ports')
               PROVE  /\ ports'[p].parent_nic \in Present(nics)
                      /\ ports'[p].parent_function
                            \in Present(functions) \cup {None}
    BY <1>2
  <2>1. p \in Ports /\ ports'[p] # None
    BY <1>1 DEF Present, TypeOK
  <2>2. CASE ports'[p] = ports[p]
    BY <2>1, <2>2 DEF CheckedReferencesResolve, Present, TypeOK
  <2>3. ASSUME NEW id \in Ports, NEW r \in PortRecord,
               r.parent_nic \in Present(nics),
               Resolves(r.parent_function, functions),
               ports' = [ports EXCEPT ![id] = r], ports'[p] # ports[p]
        PROVE  ports'[p] = r
    BY <2>1, <2>3 DEF TypeOK
  <2> QED
    BY <1>1, <2>2, <2>3 DEF TablesMove, PortsMove, Resolves
<1>5. \A q \in Present(queues') :
         /\ queues'[q].parent_nic \in Present(nics')
         /\ queues'[q].parent_function \in Present(functions')
  <2>1. \A q \in Present(queues') : q \in Queues /\ queues'[q] # None
    BY <1>1 DEF Present, TypeOK
  <2>2. \A k \in Present(queues) :
           /\ queues[k].parent_nic \in Present(nics)
           /\ queues[k].parent_function \in Present(functions)
    BY DEF CheckedReferencesResolve
  <2> QED
    BY <1>1, <1>2, <2>1, <2>2, QueuesGrounded DEF TablesMove
<1>6. ASSUME NEW bnd,
             ReferencesResolve(bnd) \/ BindingIsGrounded(bnd)
      PROVE  /\ bnd.nic \in Present(nics')
             /\ bnd.function \in Present(functions') \cup {None}
             /\ bnd.port \in Present(ports') \cup {None}
             /\ bnd.queue \in Present(queues') \cup {None}
  BY <1>2, <1>6 DEF ReferencesResolve, BindingIsGrounded, Resolves
<1>7. ASSUME NEW a \in Present(attachments')
      PROVE  BindingIsGrounded(attachments[a])'
  <2>1. a \in Attachments /\ attachments'[a] # None
    BY <1>1 DEF Present, TypeOK
  <2>2. \/ attachments'[a] = attachments[a]
        \/ /\ attachments[a] # None
           /\ SameBinding(attachments[a], attachments'[a])
        \/ ReferencesResolve(attachments'[a])
    BY <1>1, <2>1, AttachmentsAdvance DEF TablesMove
  <2>3. attachments[a] # None => BindingIsGrounded(attachments[a])
    BY <2>1 DEF CheckedReferencesResolve, Present, TypeOK
  <2> QED
    BY <1>6, <2>1, <2>2, <2>3 DEF BindingIsGrounded, SameBinding
<1>8. ASSUME NEW i \in DOMAIN residencies'
      PROVE  BindingIsGrounded(residencies[i])'
  <2>1. \A j \in DOMAIN residencies : BindingIsGrounded(residencies[j])
    BY DEF CheckedReferencesResolve
  <2>2. CASE /\ DOMAIN residencies' = DOMAIN residencies
             /\ \A j \in DOMAIN residencies :
                   SameBinding(residencies[j], residencies'[j])
    BY <1>6, <2>1, <2>2 DEF BindingIsGrounded, SameBinding
  <2>3. ASSUME NEW r \in ResidencyRecord, ReferencesResolve(r),
               residencies' = Append(residencies, r)
        PROVE  \/ residencies'[i] = r
               \/ /\ i \in DOMAIN residencies
                  /\ residencies'[i] = residencies[i]
    <3>1. /\ Len(residencies) \in Nat
          /\ DOMAIN residencies = 1 .. Len(residencies)
          /\ DOMAIN residencies' = 1 .. Len(residencies) + 1
          /\ residencies'[Len(residencies) + 1] = r
          /\ \A k \in 1 .. Len(residencies) : residencies'[k] = residencies[k]
      BY <2>3, AppendProperties, LenProperties DEF TypeOK
    <3> QED
      BY <3>1
  <2> QED
    BY <1>1, <1>6, <2>1, <2>2, <2>3, ResidenciesAdvance
    DEF TablesMove, BindingIsGrounded
<1> QED
  BY <1>3, <1>4, <1>5, <1>7, <1>8 DEF CheckedReferencesResolve

\* Every NIC, function, port and queue that a function, port, queue, attachment
\* or residency references is one the registry holds (registry.hpp, header
\* list).  An attachment's GPU, which no call looks up, is not covered.
THEOREM CheckedReferencesResolveHolds == Spec => []CheckedReferencesResolve
<1>1. Init => CheckedReferencesResolve
  BY DEF Init, CheckedReferencesResolve, Present
<1> QED
  BY <1>1, IntegrityStep, TypeCorrect, PTL DEF Spec

-----------------------------------------------------------------------------
(* The residency vector                                                    *)

\* Every step keeps the records of one id in generation order.
LEMMA OrderStep ==
    TypeOK /\ ResidenciesInGenerationOrder /\ [Next]_vars
        => ResidenciesInGenerationOrder'
<1> SUFFICES ASSUME TypeOK, ResidenciesInGenerationOrder, [Next]_vars,
                    NEW i \in DOMAIN residencies', NEW j \in DOMAIN residencies',
                    i < j, residencies'[i].id = residencies'[j].id
             PROVE  residencies'[i].generation <= residencies'[j].generation
  BY DEF ResidenciesInGenerationOrder
<1>1. ResidenciesMove
  BY TablesStep DEF TablesMove
<1>2. CASE /\ DOMAIN residencies' = DOMAIN residencies
           /\ \A k \in DOMAIN residencies :
                 /\ residencies'[k].id = residencies[k].id
                 /\ SameBinding(residencies[k], residencies'[k])
  BY <1>2 DEF ResidenciesInGenerationOrder, SameBinding
<1>3. ASSUME NEW r \in ResidencyRecord,
             \A k \in ResidenciesOf(r.id) :
                r.generation >= residencies[k].generation,
             residencies' = Append(residencies, r)
      PROVE  residencies'[i].generation <= residencies'[j].generation
  <2>1. /\ Len(residencies) \in Nat /\ DOMAIN residencies = 1 .. Len(residencies)
        /\ DOMAIN residencies' = 1 .. Len(residencies) + 1
        /\ residencies'[Len(residencies) + 1] = r
        /\ \A k \in 1 .. Len(residencies) : residencies'[k] = residencies[k]
    BY <1>3, AppendProperties, LenProperties DEF TypeOK
  <2>2. /\ i \in 1 .. Len(residencies) /\ residencies'[i] = residencies[i]
    BY <2>1
  <2>3. CASE j = Len(residencies) + 1
    <3>1. i \in ResidenciesOf(r.id)
      BY <2>1, <2>2, <2>3 DEF ResidenciesOf
    <3>2. residencies[i].generation \in Nat /\ r.generation \in Nat
      BY <2>1, <2>2, ResidencyElements DEF ResidencyRecord, Generations
    <3> QED
      BY <1>3, <2>1, <2>2, <2>3, <3>1, <3>2
  <2>4. CASE j # Len(residencies) + 1
    <3>1. j \in 1 .. Len(residencies) /\ residencies'[j] = residencies[j]
      BY <2>1, <2>4
    <3> QED
      BY <2>1, <2>2, <3>1 DEF ResidenciesInGenerationOrder
  <2> QED
    BY <2>3, <2>4
<1> QED
  BY <1>1, <1>2, <1>3, ResidenciesAdvance

\* A late publication never lands behind a newer one of its residency
\* (publish_residency).
THEOREM ResidenciesInGenerationOrderHolds ==
    Spec => []ResidenciesInGenerationOrder
<1>1. Init => ResidenciesInGenerationOrder
  BY DEF Init, ResidenciesInGenerationOrder
<1> QED
  BY <1>1, OrderStep, TypeCorrect, PTL DEF Spec

-----------------------------------------------------------------------------
(* The basis of current bindings                                           *)

\* An owner that a step leaves named in a binding is alive after the step, if
\* it was before and did not retire in it.
LEMMA OwnerSurvives ==
    ASSUME TypeOK, NEW o \in Owner,
           o # None => IsLive(o),
           NEW w \in Workers, NEW b \in Boots,
           \/ RegisterWorker(w, b)
           \/ WorkerRetired(w, b) /\ o # [worker |-> w, boot |-> b]
    PROVE  o # None => workers'[o.worker] = o.boot
<1> SUFFICES ASSUME o # None PROVE workers'[o.worker] = o.boot
  OBVIOUS
<1>1. /\ o \in Incarnation /\ o.worker \in Workers /\ o.boot \in Boots
      /\ workers[o.worker] = o.boot
      /\ workers \in [Workers -> Boots \cup {None}]
      /\ None \notin Boots
  BY NoneAssumption DEF Owner, Incarnation, IsLive, TypeOK
<1>2. CASE RegisterWorker(w, b)
  BY <1>1, <1>2 DEF RegisterWorker
<1>3. CASE WorkerRetired(w, b) /\ o # [worker |-> w, boot |-> b]
  <2>1. o.worker # w
    BY <1>1, <1>3 DEF WorkerRetired, Incarnation
  <2> QED
    BY <1>1, <1>3, <2>1 DEF WorkerRetired
<1> QED
  BY <1>2, <1>3

\* A death leaves nothing that belonged to the dead current.
LEMMA RetiredInvalidates ==
    ASSUME TypeOK, NEW w \in Workers, NEW b \in Boots, WorkerRetired(w, b)
    PROVE  /\ \A a \in Present(attachments) :
                 attachments[a].owner = [worker |-> w, boot |-> b] =>
                     attachments'[a].state = "STALE"
           /\ \A i \in DOMAIN residencies :
                 residencies[i].owner = [worker |-> w, boot |-> b] =>
                     residencies'[i].state = "REVALIDATION_REQUIRED"
<1> DEFINE me == [worker |-> w, boot |-> b]
           A == {a \in Present(attachments) : attachments[a].owner = me}
           R == {i \in DOMAIN residencies : residencies[i].owner = me}
<1>1. ASSUME NEW a \in A PROVE attachments'[a].state = "STALE"
  <2>1. a \in Attachments /\ attachments[a] \in Attachment
    BY DEF Present, TypeOK
  <2>2. attachments'[a] = [[attachments[a] EXCEPT !.state = "STALE"]
                               EXCEPT !.owner = None]
    BY <2>1 DEF WorkerRetired, Staled, Disowned
  <2> QED
    BY <2>1, <2>2 DEF Attachment
<1>2. ASSUME NEW i \in R
      PROVE  residencies'[i].state = "REVALIDATION_REQUIRED"
  <2>1. i \in DOMAIN residencies /\ residencies[i] \in ResidencyRecord
    BY ResidencyElements
  <2>2. residencies'[i] =
           [[residencies[i] EXCEPT !.state = "REVALIDATION_REQUIRED",
                                   !.lifecycle = "REVALIDATION_REQUIRED"]
                EXCEPT !.owner = None]
    BY <2>1 DEF WorkerRetired, Revalidating, Disowned
  <2> QED
    BY <2>1, <2>2 DEF ResidencyRecord
<1> QED
  BY <1>1, <1>2

\* A restart and a new topology leave no binding current.
LEMMA GlobalInvalidation ==
    ASSUME TypeOK,
           attachments' \in {Staled(Present(attachments)),
                             Disowned(Staled(Present(attachments)),
                                      Present(attachments))},
           residencies' \in {Revalidating(DOMAIN residencies),
                             Disowned(Revalidating(DOMAIN residencies),
                                      DOMAIN residencies)}
    PROVE  /\ \A a \in Present(attachments) :
                 attachments'[a].state = "STALE"
           /\ \A i \in DOMAIN residencies :
                 residencies'[i].state = "REVALIDATION_REQUIRED"
<1>1. ASSUME NEW a \in Present(attachments)
      PROVE  attachments'[a].state = "STALE"
  <2>1. a \in Attachments /\ attachments[a] \in Attachment
    BY DEF Present, TypeOK
  <2>2. attachments'[a] \in
           {[attachments[a] EXCEPT !.state = "STALE"],
            [[attachments[a] EXCEPT !.state = "STALE"] EXCEPT !.owner = None]}
    BY <2>1 DEF Staled, Disowned
  <2> QED
    BY <2>1, <2>2 DEF Attachment
<1>2. ASSUME NEW i \in DOMAIN residencies
      PROVE  residencies'[i].state = "REVALIDATION_REQUIRED"
  <2>1. residencies[i] \in ResidencyRecord
    BY ResidencyElements
  <2> DEFINE rr == [residencies[i] EXCEPT
                        !.state = "REVALIDATION_REQUIRED",
                        !.lifecycle = "REVALIDATION_REQUIRED"]
  <2>2. residencies'[i] \in {rr, [rr EXCEPT !.owner = None]}
    BY <2>1 DEF Revalidating, Disowned
  <2> QED
    BY <2>1, <2>2 DEF ResidencyRecord
<1> QED
  BY <1>1, <1>2

\* In every step a binding keeps its basis or does not stay current.
LEMMA BasisStep ==
    ASSUME OwnerInv, [Next]_vars
    PROVE  /\ \A a \in Present(attachments) :
                 BasisKept(attachments[a]) \/ ~CurrentAttachment(attachments'[a])
           /\ \A i \in DOMAIN residencies :
                 BasisKept(residencies[i]) \/ ~CurrentResidency(residencies'[i])
<1> DEFINE Goal ==
      /\ \A a \in Present(attachments) :
            BasisKept(attachments[a]) \/ ~CurrentAttachment(attachments'[a])
      /\ \A i \in DOMAIN residencies :
            BasisKept(residencies[i]) \/ ~CurrentResidency(residencies'[i])
<1>1. /\ TypeOK
      /\ \A a \in Present(attachments) :
            /\ attachments[a].owner \in Owner
            /\ attachments[a].owner # None => IsLive(attachments[a].owner)
      /\ \A i \in DOMAIN residencies :
            /\ residencies[i].owner \in Owner
            /\ residencies[i].owner # None => IsLive(residencies[i].owner)
  <2>1. \A i \in DOMAIN residencies : residencies[i].owner \in Owner
    BY ResidencyElements DEF OwnerInv, ResidencyRecord
  <2>2. \A a \in Present(attachments) : attachments[a].owner \in Owner
    BY DEF OwnerInv, TypeOK, Present, Attachment
  <2> QED
    BY <2>1, <2>2 DEF OwnerInv, OwnersAreLive
<1>2. CASE UNCHANGED <<epoch, topology, workers>>
  BY <1>1, <1>2 DEF BasisKept, IsLive
<1>3. ASSUME NEW w \in Workers, NEW b \in Boots,
             RegisterWorker(w, b) \/ WorkerRetired(w, b)
      PROVE  Goal
  <2>1. UNCHANGED <<epoch, topology>>
    BY <1>3 DEF RegisterWorker, WorkerRetired
  <2>2. ASSUME NEW a \in Present(attachments)
        PROVE  BasisKept(attachments[a]) \/ ~CurrentAttachment(attachments'[a])
    <3>1. CASE /\ WorkerRetired(w, b)
               /\ attachments[a].owner = [worker |-> w, boot |-> b]
      BY <1>1, <3>1, RetiredInvalidates DEF CurrentAttachment
    <3> QED
      BY <1>1, <1>3, <2>1, <3>1, OwnerSurvives DEF BasisKept
  <2>3. ASSUME NEW i \in DOMAIN residencies
        PROVE  BasisKept(residencies[i]) \/ ~CurrentResidency(residencies'[i])
    <3>1. CASE /\ WorkerRetired(w, b)
               /\ residencies[i].owner = [worker |-> w, boot |-> b]
      BY <1>1, <3>1, RetiredInvalidates DEF CurrentResidency
    <3> QED
      BY <1>1, <1>3, <2>1, <3>1, OwnerSurvives DEF BasisKept
  <2> QED
    BY <2>2, <2>3
<1>4. ASSUME NEW e \in Epochs, CoordinatorRestart(e)
      PROVE  Goal
  <2>1. /\ \A a \in Present(attachments) : attachments'[a].state = "STALE"
        /\ \A i \in DOMAIN residencies :
              residencies'[i].state = "REVALIDATION_REQUIRED"
    BY <1>1, <1>4, GlobalInvalidation DEF CoordinatorRestart
  <2> QED
    BY <2>1 DEF CurrentAttachment, CurrentResidency
<1>5. ASSUME NEW e \in Epochs, NEW w \in Workers, NEW b \in Boots,
             NEW g \in TopologyGenerations, SetTopology(e, w, b, g)
      PROVE  Goal
  <2>1. /\ \A a \in Present(attachments) : attachments'[a].state = "STALE"
        /\ \A i \in DOMAIN residencies :
              residencies'[i].state = "REVALIDATION_REQUIRED"
    BY <1>1, <1>5, GlobalInvalidation DEF SetTopology
  <2> QED
    BY <2>1 DEF CurrentAttachment, CurrentResidency
<1>6. ASSUME NEW e \in Epochs, NEW w \in Workers, NEW b \in Boots,
             DiscoveryCall(e, w, b)
      PROVE  Goal
  <2>1. \/ \E g \in TopologyGenerations : SetTopology(e, w, b, g)
        \/ UNCHANGED <<epoch, topology, workers>>
    BY <1>6
    DEF DiscoveryCall, RegisterNic, AdvanceNicGeneration, RegisterFunction,
        AdvanceFunctionGeneration, RegisterPort, RegisterQueue,
        AdvanceQueueGeneration, RegisterGpu
  <2> QED
    BY <1>2, <1>5, <2>1
<1>7. ASSUME NEW e \in Epochs, NEW w \in Workers, NEW b \in Boots,
             BindingCall(e, w, b)
      PROVE  UNCHANGED <<epoch, topology, workers>>
  BY <1>7
  DEF BindingCall, RegisterAttachment, RetireAttachment, PublishResidency,
      RetireResidency
<1>8. UNCHANGED vars => UNCHANGED <<epoch, topology, workers>>
  BY DEF vars
<1> HIDE DEF Goal
<1> QED
  BY <1>2, <1>3, <1>4, <1>6, <1>7, <1>8 DEF Next, Goal

\* No binding comes out of a step that changes the topology or the epoch, or in
\* which its owner dies, in a state a consumer may rely on (set_topology,
\* coordinator_restart, worker_retired, register_worker).
THEOREM LostBasisInvalidatesHolds == Spec => LostBasisInvalidates
<1>1. OwnerInv /\ [Next]_vars =>
         [/\ \A a \in Present(attachments) :
                BasisKept(attachments[a]) \/ ~CurrentAttachment(attachments'[a])
          /\ \A i \in DOMAIN residencies :
                BasisKept(residencies[i])
                \/ ~CurrentResidency(residencies'[i])]_vars
  BY BasisStep
<1>2. Init => OwnerInv
  BY BoundsAssumption DEF Init, OwnerInv, TypeOK, OwnersAreLive, Present
<1> QED
  BY <1>1, <1>2, OwnersStep, PTL DEF Spec, LostBasisInvalidates
=============================================================================
