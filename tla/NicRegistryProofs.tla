------------------------- MODULE NicRegistryProofs -------------------------
(***************************************************************************)
(* Theorems about NicRegistry, for every value of its constants.           *)
(***************************************************************************)
EXTENDS NicRegistry, SequenceTheorems, TLAPS

-----------------------------------------------------------------------------
(* The helpers preserve the types of the tables they rewrite               *)

\* Demoting known NICs leaves a table of NIC records.
LEMMA DemotedNics ==
    ASSUME nics \in [Nics -> NicRecord \cup {None}],
           NEW ks \in SUBSET Present(nics)
    PROVE  Demoted(nics, ks) \in [Nics -> NicRecord \cup {None}]
BY DEF Demoted, Present, NicRecord, LifecycleState

\* Demoting known functions leaves a table of function records.
LEMMA DemotedFunctions ==
    ASSUME functions \in [Functions -> FunctionRecord \cup {None}],
           NEW ks \in SUBSET Present(functions)
    PROVE  Demoted(functions, ks) \in [Functions -> FunctionRecord \cup {None}]
BY DEF Demoted, Present, FunctionRecord, LifecycleState

\* Demoting known queues leaves a table of queue records.
LEMMA DemotedQueues ==
    ASSUME queues \in [Queues -> QueueRecord \cup {None}],
           NEW ks \in SUBSET Present(queues)
    PROVE  Demoted(queues, ks) \in [Queues -> QueueRecord \cup {None}]
BY DEF Demoted, Present, QueueRecord, LifecycleState

\* Marking known attachments stale leaves a table of attachments.
LEMMA StaledType ==
    ASSUME attachments \in [Attachments -> Attachment \cup {None}],
           NEW ks \in SUBSET Present(attachments)
    PROVE  /\ Staled(ks) \in [Attachments -> Attachment \cup {None}]
           /\ Present(Staled(ks)) = Present(attachments)
BY NoneAssumption DEF Staled, Present, Attachment, AttachmentState

\* A vector rewritten in place is a vector of the same length.
LEMMA SameShape ==
    ASSUME NEW S, NEW s \in Seq(S), NEW t \in [DOMAIN s -> S]
    PROVE  t \in Seq(S) /\ DOMAIN t = DOMAIN s /\ Len(t) = Len(s)
<1>1. Len(s) \in Nat /\ DOMAIN s = 1 .. Len(s)
  BY LenProperties
<1>2. t \in Seq(S)
  BY <1>1, SeqDef
<1>3. DOMAIN t = 1 .. Len(s) /\ DOMAIN t = 1 .. Len(t) /\ Len(t) \in Nat
  BY <1>1, <1>2, LenProperties
<1>4. Len(t) = Len(s)
  BY <1>1, <1>3
<1> QED
  BY <1>2, <1>3, <1>4, <1>1

\* Every element of the vector is a residency record.
LEMMA ResidencyElements ==
    ASSUME TypeOK
    PROVE  \A i \in DOMAIN residencies : residencies[i] \in ResidencyRecord
BY ElementOfSeq, LenProperties DEF TypeOK

\* Invalidating positions of the vector leaves a vector of records.
LEMMA RevalidatingType ==
    ASSUME residencies \in Seq(ResidencyRecord),
           NEW is \in SUBSET DOMAIN residencies
    PROVE  /\ Revalidating(is) \in Seq(ResidencyRecord)
           /\ DOMAIN Revalidating(is) = DOMAIN residencies
           /\ Len(Revalidating(is)) = Len(residencies)
<1>1. \A i \in DOMAIN residencies : residencies[i] \in ResidencyRecord
  BY ElementOfSeq, LenProperties
<1>2. ASSUME NEW r \in ResidencyRecord
      PROVE  [r EXCEPT !.state = "REVALIDATION_REQUIRED",
                       !.lifecycle = "REVALIDATION_REQUIRED"] \in ResidencyRecord
  BY DEF ResidencyRecord, ResidencyState, LifecycleState
<1>3. Revalidating(is) \in [DOMAIN residencies -> ResidencyRecord]
  BY <1>1, <1>2 DEF Revalidating
<1> QED
  BY <1>3, SameShape

\* Clearing owners of known attachments leaves a table of attachments.
LEMMA DisownedAttachments ==
    ASSUME NEW m \in [Attachments -> Attachment \cup {None}],
           NEW ks \in SUBSET Present(m)
    PROVE  Disowned(m, ks) \in [Attachments -> Attachment \cup {None}]
BY DEF Disowned, Present, Attachment, Owner

\* Clearing owners of known functions leaves a table of functions.
LEMMA DisownedFunctions ==
    ASSUME NEW ks \in SUBSET Present(functions),
           functions \in [Functions -> FunctionRecord \cup {None}]
    PROVE  Disowned(functions, ks) \in [Functions -> FunctionRecord \cup {None}]
BY DEF Disowned, Present, FunctionRecord, Owner

\* Clearing owners in the vector leaves a vector of records.
LEMMA DisownedResidencies ==
    ASSUME NEW s \in Seq(ResidencyRecord), NEW is \in SUBSET DOMAIN s
    PROVE  /\ Disowned(s, is) \in Seq(ResidencyRecord)
           /\ DOMAIN Disowned(s, is) = DOMAIN s
           /\ Len(Disowned(s, is)) = Len(s)
<1>1. \A i \in DOMAIN s : s[i] \in ResidencyRecord
  BY ElementOfSeq, LenProperties
<1>2. Disowned(s, is) \in [DOMAIN s -> ResidencyRecord]
  BY <1>1 DEF Disowned, ResidencyRecord, Owner
<1> QED
  BY <1>2, SameShape

-----------------------------------------------------------------------------
(* Type correctness                                                        *)

\* register_worker keeps the registry well typed.
LEMMA TypeRegisterWorker ==
    ASSUME TypeOK, NEW w \in Workers, NEW b \in Boots, RegisterWorker(w, b)
    PROVE  TypeOK'
BY DEF TypeOK, RegisterWorker

\* worker_retired keeps the registry well typed.
LEMMA TypeWorkerRetired ==
    ASSUME TypeOK, NEW w \in Workers, NEW b \in Boots, WorkerRetired(w, b)
    PROVE  TypeOK'
<1> DEFINE me == [worker |-> w, boot |-> b]
           A == {a \in Present(attachments) : attachments[a].owner = me}
           R == {i \in DOMAIN residencies : residencies[i].owner = me}
<1>1. nics' \in [Nics -> NicRecord \cup {None}]
  BY DemotedNics DEF TypeOK, WorkerRetired
<1>2. attachments' \in [Attachments -> Attachment \cup {None}]
  <2>1. attachments' = Disowned(Staled(A), A)
    BY DEF WorkerRetired
  <2>2. /\ Staled(A) \in [Attachments -> Attachment \cup {None}]
        /\ Present(Staled(A)) = Present(attachments)
    BY StaledType DEF TypeOK
  <2> QED
    BY <2>1, <2>2, DisownedAttachments
<1>3. residencies' \in Seq(ResidencyRecord)
  <2>1. residencies' = Disowned(Revalidating(R), R)
    BY DEF WorkerRetired
  <2>2. /\ Revalidating(R) \in Seq(ResidencyRecord)
        /\ DOMAIN Revalidating(R) = DOMAIN residencies
    BY RevalidatingType DEF TypeOK
  <2> QED
    BY <2>1, <2>2, DisownedResidencies
<1> QED
  BY <1>1, <1>2, <1>3 DEF TypeOK, WorkerRetired

\* coordinator_restart keeps the registry well typed.
LEMMA TypeCoordinatorRestart ==
    ASSUME TypeOK, NEW e \in Epochs, CoordinatorRestart(e)
    PROVE  TypeOK'
<1>1. functions' \in [Functions -> FunctionRecord \cup {None}]
  BY DisownedFunctions DEF TypeOK, CoordinatorRestart
<1>2. attachments' \in [Attachments -> Attachment \cup {None}]
  <2>1. /\ Staled(Present(attachments))
              \in [Attachments -> Attachment \cup {None}]
        /\ Present(Staled(Present(attachments))) = Present(attachments)
    BY StaledType DEF TypeOK
  <2> QED
    BY <2>1, DisownedAttachments DEF CoordinatorRestart
<1>3. residencies' \in Seq(ResidencyRecord)
  <2>1. /\ Revalidating(DOMAIN residencies) \in Seq(ResidencyRecord)
        /\ DOMAIN Revalidating(DOMAIN residencies) = DOMAIN residencies
    BY RevalidatingType DEF TypeOK
  <2> QED
    BY <2>1, DisownedResidencies DEF CoordinatorRestart
<1> QED
  BY <1>1, <1>2, <1>3 DEF TypeOK, CoordinatorRestart

\* register_nic keeps the registry well typed.
LEMMA TypeRegisterNic ==
    ASSUME TypeOK, NEW e \in Epochs, NEW w \in Workers, NEW b \in Boots,
           NEW id \in Nics \cup {None}, NEW rec \in NicRecord,
           RegisterNic(e, w, b, id, rec)
    PROVE  TypeOK'
<1>2. [worker |-> w, boot |-> b, epoch |-> e] \in Publication
  BY DEF Publication
<1>3. worker_nics' \in [Workers -> SUBSET (Nics \cup {None})]
  BY DEF TypeOK, RegisterNic
<1>4. /\ nics' \in [Nics -> NicRecord \cup {None}]
      /\ publisher' \in [Nics -> Publication \cup {None}]
  BY <1>2 DEF TypeOK, RegisterNic, StoresNic
<1> QED
  BY <1>3, <1>4 DEF TypeOK, RegisterNic

\* advance_nic_generation keeps the registry well typed.
LEMMA TypeAdvanceNicGeneration ==
    ASSUME TypeOK, NEW e \in Epochs, NEW w \in Workers, NEW b \in Boots,
           NEW id \in Nics, AdvanceNicGeneration(e, w, b, id)
    PROVE  TypeOK'
<1>1. nics' \in [Nics -> NicRecord \cup {None}]
  <2>1. PICK g \in Generations : g = NextGeneration(nics[id].generation)
    BY DEF AdvanceNicGeneration
  <2>2. nics[id] \in NicRecord
    BY DEF TypeOK, AdvanceNicGeneration, Present
  <2>3. [nics[id] EXCEPT !.generation = g] \in NicRecord
    BY <2>2 DEF NicRecord
  <2>4. nics' = [nics EXCEPT ![id] = [nics[id] EXCEPT !.generation = g]]
    BY <2>1 DEF AdvanceNicGeneration
  <2> QED
    BY <2>3, <2>4 DEF TypeOK
<1>2. functions' \in [Functions -> FunctionRecord \cup {None}]
  BY DemotedFunctions DEF TypeOK, AdvanceNicGeneration
<1>3. queues' \in [Queues -> QueueRecord \cup {None}]
  BY DemotedQueues DEF TypeOK, AdvanceNicGeneration
<1>4. attachments' \in [Attachments -> Attachment \cup {None}]
  BY StaledType DEF TypeOK, AdvanceNicGeneration
<1>5. residencies' \in Seq(ResidencyRecord)
  BY RevalidatingType DEF TypeOK, AdvanceNicGeneration
<1> QED
  BY <1>1, <1>2, <1>3, <1>4, <1>5 DEF TypeOK, AdvanceNicGeneration

\* register_function keeps the registry well typed.
LEMMA TypeRegisterFunction ==
    ASSUME TypeOK, NEW e \in Epochs, NEW w \in Workers, NEW b \in Boots,
           NEW id \in Functions, NEW rec \in FunctionInput(w, b),
           RegisterFunction(e, w, b, id, rec)
    PROVE  TypeOK'
<1>1. rec \in FunctionRecord
  BY InputsAssumption
  DEF FunctionInput, FunctionRecord, Owners, Owner, Incarnation
<1> QED
  BY <1>1 DEF TypeOK, RegisterFunction

\* advance_function_generation keeps the registry well typed.
LEMMA TypeAdvanceFunctionGeneration ==
    ASSUME TypeOK, NEW e \in Epochs, NEW w \in Workers, NEW b \in Boots,
           NEW id \in Functions, AdvanceFunctionGeneration(e, w, b, id)
    PROVE  TypeOK'
<1>1. functions' \in [Functions -> FunctionRecord \cup {None}]
  BY DEF TypeOK, AdvanceFunctionGeneration, Present, FunctionRecord
<1>2. queues' \in [Queues -> QueueRecord \cup {None}]
  BY DemotedQueues DEF TypeOK, AdvanceFunctionGeneration
<1>3. attachments' \in [Attachments -> Attachment \cup {None}]
  BY StaledType DEF TypeOK, AdvanceFunctionGeneration
<1>4. residencies' \in Seq(ResidencyRecord)
  BY RevalidatingType DEF TypeOK, AdvanceFunctionGeneration
<1> QED
  BY <1>1, <1>2, <1>3, <1>4 DEF TypeOK, AdvanceFunctionGeneration

\* register_port keeps the registry well typed.
LEMMA TypeRegisterPort ==
    ASSUME TypeOK, NEW e \in Epochs, NEW w \in Workers, NEW b \in Boots,
           NEW id \in Ports, NEW rec \in PortRecord,
           RegisterPort(e, w, b, id, rec)
    PROVE  TypeOK'
BY DEF TypeOK, RegisterPort

\* register_queue keeps the registry well typed.
LEMMA TypeRegisterQueue ==
    ASSUME TypeOK, NEW e \in Epochs, NEW w \in Workers, NEW b \in Boots,
           NEW id \in Queues, NEW rec \in QueueInput,
           RegisterQueue(e, w, b, id, rec)
    PROVE  TypeOK'
<1>1. rec \in QueueRecord
  BY InputsAssumption DEF QueueInput, QueueRecord
<1> QED
  BY <1>1 DEF TypeOK, RegisterQueue

\* advance_queue_generation keeps the registry well typed.
LEMMA TypeAdvanceQueueGeneration ==
    ASSUME TypeOK, NEW e \in Epochs, NEW w \in Workers, NEW b \in Boots,
           NEW id \in Queues, AdvanceQueueGeneration(e, w, b, id)
    PROVE  TypeOK'
<1>1. queues' \in [Queues -> QueueRecord \cup {None}]
  BY DEF TypeOK, AdvanceQueueGeneration, Present, QueueRecord
<1>2. residencies' \in Seq(ResidencyRecord)
  BY RevalidatingType DEF TypeOK, AdvanceQueueGeneration
<1> QED
  BY <1>1, <1>2 DEF TypeOK, AdvanceQueueGeneration

\* set_topology keeps the registry well typed.
LEMMA TypeSetTopology ==
    ASSUME TypeOK, NEW e \in Epochs, NEW w \in Workers, NEW b \in Boots,
           NEW g \in TopologyGenerations, SetTopology(e, w, b, g)
    PROVE  TypeOK'
<1>1. attachments' \in [Attachments -> Attachment \cup {None}]
  BY StaledType DEF TypeOK, SetTopology
<1>2. residencies' \in Seq(ResidencyRecord)
  BY RevalidatingType DEF TypeOK, SetTopology
<1> QED
  BY <1>1, <1>2 DEF TypeOK, SetTopology

\* register_gpu keeps the registry well typed.
LEMMA TypeRegisterGpu ==
    ASSUME TypeOK, NEW e \in Epochs, NEW w \in Workers, NEW b \in Boots,
           NEW id \in Gpus, NEW rec \in GpuRecord,
           RegisterGpu(e, w, b, id, rec)
    PROVE  TypeOK'
BY DEF TypeOK, RegisterGpu

\* What callers pass to register_attachment is an attachment.
LEMMA AttachmentInputType ==
    ASSUME NEW w \in Workers, NEW b \in Boots,
           NEW att \in AttachmentInput(w, b)
    PROVE  att \in Attachment
BY InputsAssumption
DEF AttachmentInput, Attachment, Owners, Owner, Incarnation

\* What callers pass to publish_residency is a residency record.
LEMMA ResidencyInputType ==
    ASSUME NEW w \in Workers, NEW b \in Boots, NEW rec \in ResidencyInput(w, b)
    PROVE  rec \in ResidencyRecord
BY InputsAssumption
DEF ResidencyInput, ResidencyRecord, Owners, Owner, Incarnation

\* register_attachment keeps the registry well typed.
LEMMA TypeRegisterAttachment ==
    ASSUME TypeOK, NEW e \in Epochs, NEW w \in Workers, NEW b \in Boots,
           NEW id \in Attachments, NEW att \in AttachmentInput(w, b),
           RegisterAttachment(e, w, b, id, att)
    PROVE  TypeOK'
BY AttachmentInputType DEF TypeOK, RegisterAttachment

\* retire_attachment keeps the registry well typed.
LEMMA TypeRetireAttachment ==
    ASSUME TypeOK, NEW e \in Epochs, NEW w \in Workers, NEW b \in Boots,
           NEW id \in Attachments, RetireAttachment(e, w, b, id)
    PROVE  TypeOK'
<1>1. attachments[id] \in Attachment
  BY DEF TypeOK, RetireAttachment, Present
<1>2. [attachments[id] EXCEPT !.state = "REVOKED"] \in Attachment
  BY <1>1 DEF Attachment, AttachmentState
<1> QED
  BY <1>2 DEF TypeOK, RetireAttachment

\* publish_residency keeps the registry well typed.
LEMMA TypePublishResidency ==
    ASSUME TypeOK, NEW e \in Epochs, NEW w \in Workers, NEW b \in Boots,
           NEW rec \in ResidencyRecord, PublishResidency(e, w, b, rec)
    PROVE  TypeOK'
BY DEF TypeOK, PublishResidency

\* retire_residency keeps the registry well typed.
LEMMA TypeRetireResidency ==
    ASSUME TypeOK, NEW e \in Epochs, NEW w \in Workers, NEW b \in Boots,
           NEW id \in ResidencyIds, RetireResidency(e, w, b, id)
    PROVE  TypeOK'
<1>1. PICK i \in ResidenciesOf(id) :
         residencies' = [residencies EXCEPT ![i] =
                            [@ EXCEPT !.state = "RETIRED",
                                      !.lifecycle = "RETIRED"]]
  BY DEF RetireResidency
<1>2. /\ i \in DOMAIN residencies
      /\ \A j \in DOMAIN residencies : residencies[j] \in ResidencyRecord
  BY ElementOfSeq, LenProperties DEF ResidenciesOf, TypeOK
<1>3. [residencies[i] EXCEPT !.state = "RETIRED", !.lifecycle = "RETIRED"]
         \in ResidencyRecord
  BY <1>2 DEF ResidencyRecord, ResidencyState, LifecycleState
<1>4. residencies' \in Seq(ResidencyRecord)
  BY <1>1, <1>2, <1>3, ExceptSeq, LenProperties DEF TypeOK
<1> QED
  BY <1>4 DEF TypeOK, RetireResidency

\* Every step of the registry keeps it well typed.
LEMMA TypeStep == TypeOK /\ [Next]_vars => TypeOK'
<1> SUFFICES ASSUME TypeOK, [Next]_vars PROVE TypeOK'
  OBVIOUS
<1>1. CASE \E w \in Workers, b \in Boots :
              RegisterWorker(w, b) \/ WorkerRetired(w, b)
  BY <1>1, TypeRegisterWorker, TypeWorkerRetired
<1>2. CASE \E e \in Epochs : CoordinatorRestart(e)
  BY <1>2, TypeCoordinatorRestart
<1>3. ASSUME NEW e \in Epochs, NEW w \in Workers, NEW b \in Boots,
             DiscoveryCall(e, w, b)
      PROVE  TypeOK'
  <2>1. ASSUME NEW n \in Nics \cup {None}, NEW rec \in NicInput,
               RegisterNic(e, w, b, n, rec)
        PROVE  TypeOK'
    <3>1. rec \in NicRecord
      BY InputsAssumption DEF NicInput, NicRecord
    <3> QED
      BY <2>1, <3>1, TypeRegisterNic
  <2>2. ASSUME NEW n \in Nics, AdvanceNicGeneration(e, w, b, n)
        PROVE  TypeOK'
    BY <2>2, TypeAdvanceNicGeneration
  <2>3. ASSUME NEW f \in Functions, NEW rec \in FunctionInput(w, b),
               RegisterFunction(e, w, b, f, rec)
        PROVE  TypeOK'
    BY <2>3, TypeRegisterFunction
  <2>4. ASSUME NEW f \in Functions, AdvanceFunctionGeneration(e, w, b, f)
        PROVE  TypeOK'
    BY <2>4, TypeAdvanceFunctionGeneration
  <2>5. ASSUME NEW p \in Ports, NEW rec \in PortRecord,
               RegisterPort(e, w, b, p, rec)
        PROVE  TypeOK'
    BY <2>5, TypeRegisterPort
  <2>6. ASSUME NEW q \in Queues, NEW rec \in QueueInput,
               RegisterQueue(e, w, b, q, rec)
        PROVE  TypeOK'
    BY <2>6, TypeRegisterQueue
  <2>7. ASSUME NEW q \in Queues, AdvanceQueueGeneration(e, w, b, q)
        PROVE  TypeOK'
    BY <2>7, TypeAdvanceQueueGeneration
  <2>8. ASSUME NEW g \in TopologyGenerations, SetTopology(e, w, b, g)
        PROVE  TypeOK'
    BY <2>8, TypeSetTopology
  <2>9. ASSUME NEW g \in Gpus, NEW rec \in GpuRecord,
               RegisterGpu(e, w, b, g, rec)
        PROVE  TypeOK'
    BY <2>9, TypeRegisterGpu
  <2> QED
    BY <1>3, <2>1, <2>2, <2>3, <2>4, <2>5, <2>6, <2>7, <2>8, <2>9
    DEF DiscoveryCall
<1>4. ASSUME NEW e \in Epochs, NEW w \in Workers, NEW b \in Boots,
             BindingCall(e, w, b)
      PROVE  TypeOK'
  BY <1>4, TypeRegisterAttachment, TypeRetireAttachment,
     ResidencyInputType, TypePublishResidency, TypeRetireResidency
  DEF BindingCall
<1>5. CASE UNCHANGED vars
  BY <1>5 DEF TypeOK, vars
<1> QED
  BY <1>1, <1>2, <1>3, <1>4, <1>5 DEF Next

\* Every reachable registry state is well typed, for all tables, limits,
\* bounds and publishable states.
THEOREM TypeCorrect == Spec => []TypeOK
<1>1. Init => TypeOK
  BY BoundsAssumption DEF Init, TypeOK
<1> QED
  BY <1>1, TypeStep, PTL DEF Spec

-----------------------------------------------------------------------------
(* Live evidence                                                           *)

\* The inductive strengthening: every stored NIC has a publisher, and no
\* publication carries an epoch from the future, so that a restart (which
\* moves to a larger epoch) leaves no NIC attributed to the new epoch.
PublishersKnown ==
    \A n \in Present(nics) :
        publisher[n] \in Publication /\ publisher[n].epoch <= epoch

EvidenceInv == TypeOK /\ PublishersKnown /\ LiveEvidence

evidenceVars == <<epoch, workers, worker_nics, nics, publisher>>

\* register_worker keeps the evidence invariant.
LEMMA EvidenceRegisterWorker ==
    ASSUME EvidenceInv, NEW w \in Workers, NEW b \in Boots,
           RegisterWorker(w, b)
    PROVE  PublishersKnown' /\ LiveEvidence'
BY NoneAssumption
DEF EvidenceInv, TypeOK, PublishersKnown, LiveEvidence, RegisterWorker,
    IsLive, Present, Publication, Revalidate

\* worker_retired keeps the evidence invariant.
LEMMA EvidenceWorkerRetired ==
    ASSUME EvidenceInv, NEW w \in Workers, NEW b \in Boots,
           WorkerRetired(w, b)
    PROVE  PublishersKnown' /\ LiveEvidence'
<1>1. Present(nics)' = Present(nics)
  BY NoneAssumption
  DEF EvidenceInv, TypeOK, WorkerRetired, Demoted, Present, NicRecord,
      LifecycleState
<1>2. PublishersKnown'
  BY <1>1 DEF EvidenceInv, PublishersKnown, WorkerRetired
<1>3. ASSUME NEW n \in Present(nics)', nics'[n].lifecycle # Revalidate,
             publisher'[n].epoch = epoch'
      PROVE  /\ workers'[publisher'[n].worker] = publisher'[n].boot
             /\ n \in worker_nics'[publisher'[n].worker]
  <2>1. n \in Present(nics) /\ nics[n] \in NicRecord
    BY <1>1, <1>3 DEF EvidenceInv, TypeOK, Present
  <2>2. n \notin worker_nics[w] /\ nics'[n] = nics[n]
    BY <1>3, <2>1
    DEF EvidenceInv, TypeOK, WorkerRetired, Demoted, Present, Revalidate,
        NicRecord
  <2>3. /\ workers[publisher[n].worker] = publisher[n].boot
        /\ n \in worker_nics[publisher[n].worker]
        /\ publisher[n] \in Publication
    BY <1>3, <2>1, <2>2
    DEF EvidenceInv, LiveEvidence, IsLive, WorkerRetired, PublishersKnown
  <2>4. publisher[n].worker # w /\ publisher[n].worker \in Workers
    BY <2>2, <2>3 DEF Publication
  <2> QED
    BY <2>3, <2>4 DEF EvidenceInv, TypeOK, WorkerRetired
<1> QED
  BY <1>2, <1>3 DEF LiveEvidence, IsLive

\* coordinator_restart keeps the evidence invariant.
LEMMA EvidenceCoordinatorRestart ==
    ASSUME EvidenceInv, NEW e \in Epochs, CoordinatorRestart(e)
    PROVE  PublishersKnown' /\ LiveEvidence'
BY BoundsAssumption
DEF EvidenceInv, TypeOK, PublishersKnown, LiveEvidence, CoordinatorRestart,
    Present, Publication, Epochs

\* register_nic keeps the evidence invariant.
LEMMA EvidenceRegisterNic ==
    ASSUME EvidenceInv, NEW e \in Epochs, NEW w \in Workers, NEW b \in Boots,
           NEW id \in Nics \cup {None}, NEW rec \in NicInput,
           RegisterNic(e, w, b, id, rec)
    PROVE  PublishersKnown' /\ LiveEvidence'
<1>1. e = epoch /\ workers[w] = b /\ epoch' = epoch /\ workers' = workers
  BY DEF RegisterNic, EnsureAuthority
<1>2. \A v \in Workers : worker_nics[v] \subseteq worker_nics'[v]
  BY DEF EvidenceInv, TypeOK, RegisterNic
<1>3. id \in worker_nics'[w]
  BY DEF EvidenceInv, TypeOK, RegisterNic
<1>4. CASE StoresNic(id, rec)
  <2>1. /\ id \in Nics
        /\ nics' = [nics EXCEPT ![id] = rec]
        /\ publisher' = [publisher EXCEPT ![id] =
                            [worker |-> w, boot |-> b, epoch |-> e]]
    BY <1>4 DEF RegisterNic, StoresNic
  <2>2. publisher'[id] = [worker |-> w, boot |-> b, epoch |-> e]
    BY <2>1 DEF EvidenceInv, TypeOK
  <2>3. \A n \in Nics : n # id => /\ nics'[n] = nics[n]
                                  /\ publisher'[n] = publisher[n]
    BY <2>1 DEF EvidenceInv, TypeOK
  <2>4. DOMAIN nics' = Nics /\ DOMAIN nics = Nics
    BY <2>1 DEF EvidenceInv, TypeOK
  <2>5. PublishersKnown'
    BY <1>1, <2>2, <2>3, <2>4
    DEF EvidenceInv, PublishersKnown, Present, Publication, Epochs
  <2>6. LiveEvidence'
    BY <1>1, <1>2, <1>3, <2>2, <2>3, <2>4
    DEF EvidenceInv, PublishersKnown, LiveEvidence, IsLive, Present,
        Publication, Revalidate
  <2> QED
    BY <2>5, <2>6
<1>5. CASE ~StoresNic(id, rec)
  <2>1. nics' = nics /\ publisher' = publisher
    BY <1>5 DEF RegisterNic
  <2> QED
    BY <1>1, <1>2, <2>1
    DEF EvidenceInv, PublishersKnown, LiveEvidence, IsLive, Present,
        Publication, Revalidate
<1> QED
  BY <1>4, <1>5

\* advance_nic_generation keeps the evidence invariant.
LEMMA EvidenceAdvanceNicGeneration ==
    ASSUME EvidenceInv, NEW e \in Epochs, NEW w \in Workers, NEW b \in Boots,
           NEW id \in Nics, AdvanceNicGeneration(e, w, b, id)
    PROVE  PublishersKnown' /\ LiveEvidence'
<1>1. /\ nics[id] \in NicRecord
      /\ nics' = [nics EXCEPT ![id].generation = NextGeneration(@)]
      /\ UNCHANGED <<epoch, workers, worker_nics, publisher>>
  BY DEF EvidenceInv, TypeOK, AdvanceNicGeneration, Present
<1>2. /\ DOMAIN nics' = Nics /\ DOMAIN nics = Nics
      /\ \A n \in Present(nics)' :
            /\ n \in Present(nics)
            /\ nics'[n].lifecycle = nics[n].lifecycle
  BY <1>1 DEF EvidenceInv, TypeOK, AdvanceNicGeneration, Present, NicRecord
<1> QED
  BY <1>1, <1>2
  DEF EvidenceInv, PublishersKnown, LiveEvidence, IsLive, Present, Revalidate

\* A step that leaves the evidence variables alone keeps the invariant.
LEMMA EvidenceFrame ==
    ASSUME EvidenceInv, UNCHANGED evidenceVars
    PROVE  PublishersKnown' /\ LiveEvidence'
BY DEF EvidenceInv, evidenceVars, PublishersKnown, LiveEvidence, IsLive,
       Present, Revalidate

\* The mutators that touch neither authority nor the NIC table.
LEMMA EvidenceUntouched ==
    ASSUME NEW e \in Epochs, NEW w \in Workers, NEW b \in Boots,
           \/ BindingCall(e, w, b)
           \/ /\ DiscoveryCall(e, w, b)
              /\ \A n \in Nics \cup {None}, rec \in NicInput :
                    ~RegisterNic(e, w, b, n, rec)
              /\ \A n \in Nics : ~AdvanceNicGeneration(e, w, b, n)
    PROVE  UNCHANGED evidenceVars
BY DEF BindingCall, DiscoveryCall, RegisterFunction,
       AdvanceFunctionGeneration, RegisterPort, RegisterQueue,
       AdvanceQueueGeneration, SetTopology, RegisterGpu, RegisterAttachment,
       RetireAttachment, PublishResidency, RetireResidency, evidenceVars

\* Every step keeps the strengthened evidence invariant.
LEMMA EvidenceStep == EvidenceInv /\ [Next]_vars => EvidenceInv'
<1> SUFFICES ASSUME EvidenceInv, [Next]_vars
             PROVE  PublishersKnown' /\ LiveEvidence'
  BY TypeStep DEF EvidenceInv
<1>1. CASE \E w \in Workers, b \in Boots :
              RegisterWorker(w, b) \/ WorkerRetired(w, b)
  BY <1>1, EvidenceRegisterWorker, EvidenceWorkerRetired
<1>2. CASE \E e \in Epochs : CoordinatorRestart(e)
  BY <1>2, EvidenceCoordinatorRestart
<1>3. ASSUME NEW e \in Epochs, NEW w \in Workers, NEW b \in Boots,
             DiscoveryCall(e, w, b) \/ BindingCall(e, w, b)
      PROVE  PublishersKnown' /\ LiveEvidence'
  <2>1. CASE \E n \in Nics \cup {None}, rec \in NicInput :
                RegisterNic(e, w, b, n, rec)
    BY <2>1, EvidenceRegisterNic
  <2>2. CASE \E n \in Nics : AdvanceNicGeneration(e, w, b, n)
    BY <2>2, EvidenceAdvanceNicGeneration
  <2>3. CASE UNCHANGED evidenceVars
    BY <2>3, EvidenceFrame
  <2> QED
    BY <1>3, <2>1, <2>2, <2>3, EvidenceUntouched
<1>4. CASE UNCHANGED vars
  BY <1>4, EvidenceFrame DEF vars, evidenceVars
<1> QED
  BY <1>1, <1>2, <1>3, <1>4 DEF Next

\* NIC evidence of the current epoch that is not marked revalidation-required
\* always has a live publisher whose death would demote it.
THEOREM LiveEvidenceHolds == Spec => []LiveEvidence
<1>1. Init => EvidenceInv
  BY BoundsAssumption
  DEF Init, EvidenceInv, TypeOK, PublishersKnown, LiveEvidence, Present
<1>2. EvidenceInv => LiveEvidence
  BY DEF EvidenceInv
<1> QED
  BY <1>1, <1>2, EvidenceStep, PTL DEF Spec

-----------------------------------------------------------------------------
(* The registry implements EvidenceAuthority                               *)

\* The NICs that somebody vouches for, with what the record says of them.
Vouches(n) ==
    /\ nics[n] # None /\ nics[n].lifecycle # Revalidate
    /\ publisher[n].epoch = epoch

\* Vouched, pointwise.
LEMMA VouchedBy ==
    ASSUME NEW n \in Nics
    PROVE  /\ Vouched[n] = IF Vouches(n)
                           THEN [worker |-> publisher[n].worker,
                                 boot |-> publisher[n].boot]
                           ELSE None
           /\ Vouched'[n] = IF Vouches(n)'
                            THEN [worker |-> publisher'[n].worker,
                                  boot |-> publisher'[n].boot]
                            ELSE None
BY DEF Vouched, Vouches

\* What a NIC's voucher rests on is left alone, so the voucher is.
LEMMA VouchedFrame ==
    ASSUME UNCHANGED <<nics, publisher, epoch>>
    PROVE  Vouched' = Vouched
BY DEF Vouched

\* register_worker is Join, or nothing when the live boot registers again.
LEMMA AuthorityRegisterWorker ==
    ASSUME EvidenceInv, NEW w \in Workers, NEW b \in Boots,
           RegisterWorker(w, b)
    PROVE  [Authority!AuthorityNext]_(Authority!avars)
<1>1. Vouched' = Vouched
  BY VouchedFrame DEF RegisterWorker
<1>2. CASE workers[w] = b
  <2>1. workers' = workers
    BY <1>2 DEF RegisterWorker, EvidenceInv, TypeOK
  <2> QED
    BY <1>1, <2>1 DEF Authority!avars
<1>3. CASE workers[w] = None
  <2> DEFINE i == [worker |-> w, boot |-> b]
  <2>1. i \in Authority!Incarnation
    BY DEF Authority!Incarnation
  <2>2. Authority!Join(i)
    BY <1>1, <1>3 DEF Authority!Join, RegisterWorker
  <2> QED
    BY <2>1, <2>2 DEF Authority!AuthorityNext
<1> QED
  BY <1>2, <1>3 DEF RegisterWorker

\* worker_retired is Leave: what the worker vouched for is in worker_nics_.
LEMMA AuthorityWorkerRetired ==
    ASSUME EvidenceInv, EvidenceInv', NEW w \in Workers, NEW b \in Boots,
           WorkerRetired(w, b)
    PROVE  Authority!Leave(w)
<1>1. workers' = [workers EXCEPT ![w] = None]
  BY DEF WorkerRetired
<1>2. Vouched' \in [Nics -> Incarnation \cup {None}]
  BY DEF EvidenceInv, TypeOK, PublishersKnown, Vouched, Present, Publication,
         Incarnation
<1>3. \A n \in Nics : Vouches(n)' => Vouches(n)
  BY DEF EvidenceInv, TypeOK, WorkerRetired, Demoted, Present, Vouches,
         NicRecord, Revalidate
<1>4. publisher' = publisher
  BY DEF WorkerRetired
<1>5. \A n \in Nics : Vouched'[n] \in {Vouched[n], None}
  BY <1>3, <1>4, VouchedBy
<1>6. ASSUME NEW n \in Nics, Vouched'[n] # None
      PROVE  Vouched'[n].worker # w
  <2>1. Vouches(n)' /\ Vouched'[n].worker = publisher'[n].worker
    BY <1>6 DEF Vouched, Vouches
  <2>2. n \in worker_nics'[publisher'[n].worker]
    BY <2>1
    DEF EvidenceInv, TypeOK, LiveEvidence, Vouches, Present, Revalidate
  <2>3. worker_nics'[w] = {}
    BY DEF EvidenceInv, TypeOK, WorkerRetired
  <2> QED
    BY <2>1, <2>2, <2>3
<1> QED
  BY <1>1, <1>2, <1>5, <1>6
  DEF Authority!Leave, Authority!Weakens, Authority!Incarnation, Incarnation

\* coordinator_restart is NewEpoch: no record is of an epoch to come.
LEMMA AuthorityCoordinatorRestart ==
    ASSUME EvidenceInv, NEW e \in Epochs, CoordinatorRestart(e)
    PROVE  Authority!NewEpoch
<1>1. \A n \in Nics : ~Vouches(n)'
  BY DEF EvidenceInv, TypeOK, PublishersKnown, CoordinatorRestart, Present,
         Vouches, Publication, Epochs
<1>2. Vouched' = [n \in Nics |-> None]
  BY <1>1 DEF Vouched, Vouches
<1> QED
  BY <1>2 DEF Authority!NewEpoch, CoordinatorRestart

\* register_nic that stores is Vouch, or Withdraw when the record asks for
\* revalidation; otherwise nothing changes hands.
LEMMA AuthorityRegisterNic ==
    ASSUME EvidenceInv, NEW e \in Epochs, NEW w \in Workers, NEW b \in Boots,
           NEW id \in Nics \cup {None}, NEW rec \in NicInput,
           RegisterNic(e, w, b, id, rec)
    PROVE  [Authority!AuthorityNext]_(Authority!avars)
<1>1. e = epoch /\ workers[w] = b /\ epoch' = epoch /\ workers' = workers
  BY DEF RegisterNic, EnsureAuthority
<1>2. CASE ~StoresNic(id, rec)
  BY <1>1, <1>2, VouchedFrame DEF RegisterNic, Authority!avars
<1>3. CASE StoresNic(id, rec)
  <2> DEFINE i == [worker |-> w, boot |-> b]
  <2>1. /\ id \in Nics
        /\ nics' = [nics EXCEPT ![id] = rec]
        /\ publisher' = [publisher EXCEPT ![id] =
                            [worker |-> w, boot |-> b, epoch |-> e]]
    BY <1>3 DEF RegisterNic, StoresNic
  <2>2. /\ nics'[id] = rec
        /\ publisher'[id] = [worker |-> w, boot |-> b, epoch |-> e]
        /\ \A n \in Nics \ {id} : /\ nics'[n] = nics[n]
                                   /\ publisher'[n] = publisher[n]
    BY <2>1 DEF EvidenceInv, TypeOK
  <2>3. \A n \in Nics \ {id} : Vouched'[n] = Vouched[n]
    BY <1>1, <2>2, VouchedBy DEF Vouches
  <2>4. Vouched'[id] \in {i, None}
    BY <2>1, <2>2 DEF Vouched
  <2>5. Vouched' = [Vouched EXCEPT ![id] = Vouched'[id]]
    BY <2>3 DEF Vouched
  <2>6. CASE Vouched'[id] = i
    <3>1. Authority!Vouch(i, id)
      BY <1>1, <2>5, <2>6 DEF Authority!Vouch
    <3> QED
      BY <2>1, <3>1 DEF Authority!AuthorityNext, Authority!Incarnation
  <2>7. CASE Vouched'[id] = None
    <3>1. Authority!Withdraw(id)
      BY <1>1, <2>5, <2>7 DEF Authority!Withdraw
    <3> QED
      BY <2>1, <3>1 DEF Authority!AuthorityNext
  <2> QED
    BY <2>4, <2>6, <2>7
<1> QED
  BY <1>2, <1>3

\* advance_nic_generation changes no voucher.
LEMMA AuthorityAdvanceNicGeneration ==
    ASSUME EvidenceInv, NEW e \in Epochs, NEW w \in Workers, NEW b \in Boots,
           NEW id \in Nics, AdvanceNicGeneration(e, w, b, id)
    PROVE  UNCHANGED Authority!avars
<1>1. /\ nics[id] \in NicRecord
      /\ nics' = [nics EXCEPT ![id].generation = NextGeneration(@)]
      /\ UNCHANGED <<epoch, workers, publisher>>
  BY DEF EvidenceInv, TypeOK, AdvanceNicGeneration, Present
<1>2. nics'[id] # None /\ nics[id] # None
  <2>1. nics' \in [Nics -> NicRecord \cup {None}]
    BY TypeAdvanceNicGeneration DEF EvidenceInv, TypeOK
  <2>2. nics'[id] = [nics[id] EXCEPT !.generation = NextGeneration(@)]
    BY <1>1 DEF EvidenceInv, TypeOK
  <2>3. NextGeneration(nics[id].generation) \in Generations
    BY DEF AdvanceNicGeneration
  <2>4. nics'[id] \in NicRecord
    BY <1>1, <2>2, <2>3 DEF NicRecord
  <2> QED
    BY <1>1, <2>4, NoneAssumption
<1>3. \A n \in Nics : Vouches(n)' = Vouches(n)
  BY <1>1, <1>2 DEF EvidenceInv, TypeOK, NicRecord, Vouches, Revalidate
<1>4. Vouched' = Vouched
  BY <1>1, <1>3 DEF Vouched, Vouches
<1> QED
  BY <1>1, <1>4 DEF Authority!avars

\* Every step of the registry is a step of EvidenceAuthority, or a stutter.
LEMMA AuthorityStep ==
    EvidenceInv /\ EvidenceInv' /\ [Next]_vars
        => [Authority!AuthorityNext]_(Authority!avars)
<1> SUFFICES ASSUME EvidenceInv, EvidenceInv', [Next]_vars
             PROVE  [Authority!AuthorityNext]_(Authority!avars)
  OBVIOUS
<1>1. ASSUME UNCHANGED evidenceVars
      PROVE  UNCHANGED Authority!avars
  BY <1>1, VouchedFrame DEF evidenceVars, Authority!avars
<1>2. ASSUME NEW w \in Workers, NEW b \in Boots, WorkerRetired(w, b)
      PROVE  Authority!AuthorityNext
  BY <1>2, AuthorityWorkerRetired DEF Authority!AuthorityNext
<1>3. CASE \E w \in Workers, b \in Boots :
              RegisterWorker(w, b) \/ WorkerRetired(w, b)
  BY <1>2, <1>3, AuthorityRegisterWorker
<1>4. CASE \E e \in Epochs : CoordinatorRestart(e)
  BY <1>4, AuthorityCoordinatorRestart DEF Authority!AuthorityNext
<1>5. ASSUME NEW e \in Epochs, NEW w \in Workers, NEW b \in Boots,
             DiscoveryCall(e, w, b) \/ BindingCall(e, w, b)
      PROVE  [Authority!AuthorityNext]_(Authority!avars)
  <2>1. CASE \E n \in Nics \cup {None}, rec \in NicInput :
                RegisterNic(e, w, b, n, rec)
    BY <2>1, AuthorityRegisterNic
  <2>2. CASE \E n \in Nics : AdvanceNicGeneration(e, w, b, n)
    BY <2>2, AuthorityAdvanceNicGeneration
  <2> QED
    BY <1>1, <1>5, <2>1, <2>2, EvidenceUntouched
<1>6. CASE UNCHANGED vars
  BY <1>1, <1>6 DEF vars, evidenceVars
<1> QED
  BY <1>3, <1>4, <1>5, <1>6 DEF Next

\* The registry implements EvidenceAuthority: only live callers of the current
\* epoch vouch for a NIC, and a death or a restart takes their word back.
THEOREM AuthorityImplemented == Spec => ImplementsAuthority
<1>1. Init => EvidenceInv
  BY BoundsAssumption
  DEF Init, EvidenceInv, TypeOK, PublishersKnown, LiveEvidence, Present
<1>2. Init => Authority!AuthorityInit
  BY DEF Init, Authority!AuthorityInit, Vouched
<1> QED
  BY <1>1, <1>2, EvidenceStep, AuthorityStep, PTL
  DEF Spec, ImplementsAuthority, Authority!AuthoritySpec

-----------------------------------------------------------------------------
(* Owners of attachments and residencies                                   *)

OwnerInv == TypeOK /\ OwnersAreLive

\* What the rewriting helpers do to owners: nothing, except that Disowned
\* clears them.
LEMMA OwnersStaled ==
    ASSUME TypeOK, NEW ks \in SUBSET Present(attachments)
    PROVE  /\ DOMAIN Staled(ks) = Attachments
           /\ \A a \in Present(attachments) :
                 Staled(ks)[a].owner = attachments[a].owner
BY DEF TypeOK, Staled, Present, Attachment

\* Invalidating positions of the vector leaves their owners alone.
LEMMA OwnersRevalidating ==
    ASSUME TypeOK, NEW is \in SUBSET DOMAIN residencies
    PROVE  /\ DOMAIN Revalidating(is) = DOMAIN residencies
           /\ \A i \in DOMAIN residencies :
                 Revalidating(is)[i].owner = residencies[i].owner
<1>1. \A i \in DOMAIN residencies : residencies[i] \in ResidencyRecord
  BY ElementOfSeq, LenProperties DEF TypeOK
<1> QED
  BY <1>1 DEF Revalidating, ResidencyRecord

\* A call that keeps the authority and every owner keeps the invariant.
LEMMA OwnersKept ==
    ASSUME OwnerInv, workers' = workers,
           Present(attachments)' = Present(attachments),
           \A a \in Present(attachments) :
              attachments'[a].owner = attachments[a].owner,
           DOMAIN residencies' = DOMAIN residencies,
           \A i \in DOMAIN residencies :
              residencies'[i].owner = residencies[i].owner
    PROVE  OwnersAreLive'
BY DEF OwnerInv, OwnersAreLive, IsLive

\* The calls that only invalidate bindings keep their owners live.
LEMMA OwnersInvalidation ==
    ASSUME OwnerInv, workers' = workers,
           NEW ks \in SUBSET Present(attachments),
           NEW is \in SUBSET DOMAIN residencies,
           attachments' = Staled(ks) \/ attachments' = attachments,
           residencies' = Revalidating(is) \/ residencies' = residencies
    PROVE  OwnersAreLive'
<1>1. Present(attachments)' = Present(attachments)
  BY StaledType DEF OwnerInv, TypeOK, Present
<1>2. \A a \in Present(attachments) :
         attachments'[a].owner = attachments[a].owner
  BY OwnersStaled DEF OwnerInv
<1>3. /\ DOMAIN residencies' = DOMAIN residencies
      /\ \A i \in DOMAIN residencies :
            residencies'[i].owner = residencies[i].owner
  BY OwnersRevalidating DEF OwnerInv
<1> QED
  BY <1>1, <1>2, <1>3, OwnersKept

\* register_worker keeps owners live.
LEMMA OwnersRegisterWorker ==
    ASSUME OwnerInv, NEW w \in Workers, NEW b \in Boots, RegisterWorker(w, b)
    PROVE  OwnersAreLive'
<1>1. \A o \in Incarnation : IsLive(o) => workers'[o.worker] = o.boot
  BY NoneAssumption
  DEF OwnerInv, TypeOK, RegisterWorker, IsLive, Incarnation
<1>2. \A a \in Present(attachments) : attachments[a].owner \in Owner
  BY DEF OwnerInv, TypeOK, Present, Attachment
<1>3. \A i \in DOMAIN residencies : residencies[i].owner \in Owner
  BY ResidencyElements DEF OwnerInv, ResidencyRecord
<1> QED
  BY <1>1, <1>2, <1>3
  DEF OwnerInv, OwnersAreLive, RegisterWorker, IsLive, Present, Owner

\* worker_retired keeps owners live.
LEMMA OwnersWorkerRetired ==
    ASSUME OwnerInv, NEW w \in Workers, NEW b \in Boots, WorkerRetired(w, b)
    PROVE  OwnersAreLive'
<1> DEFINE me == [worker |-> w, boot |-> b]
           A == {a \in Present(attachments) : attachments[a].owner = me}
           R == {i \in DOMAIN residencies : residencies[i].owner = me}
<1>1. \A o \in Incarnation : IsLive(o) /\ o # me =>
                                workers'[o.worker] = o.boot
  BY NoneAssumption
  DEF OwnerInv, TypeOK, WorkerRetired, IsLive, Incarnation
<1>2. ASSUME NEW a \in Present(attachments)', attachments'[a].owner # None
      PROVE  workers'[attachments'[a].owner.worker] = attachments'[a].owner.boot
  <2>1. attachments' = Disowned(Staled(A), A)
    BY DEF WorkerRetired
  <2>2. /\ Staled(A) \in [Attachments -> Attachment \cup {None}]
        /\ Present(Staled(A)) = Present(attachments)
    BY StaledType DEF OwnerInv, TypeOK
  <2>3. a \in Present(attachments)
    BY <2>1, <2>2 DEF Present, Disowned, Attachment
  <2>4. a \notin A /\ attachments'[a].owner = attachments[a].owner
    BY <1>2, <2>1, <2>2, <2>3, OwnersStaled
    DEF OwnerInv, TypeOK, Disowned, Present, Attachment
  <2>5. attachments[a].owner \in Incarnation
    BY <1>2, <2>3, <2>4 DEF OwnerInv, TypeOK, Present, Attachment, Owner
  <2> QED
    BY <1>1, <1>2, <2>3, <2>4, <2>5 DEF OwnerInv, OwnersAreLive
<1>3. ASSUME NEW i \in DOMAIN residencies', residencies'[i].owner # None
      PROVE  workers'[residencies'[i].owner.worker] = residencies'[i].owner.boot
  <2>1. residencies' = Disowned(Revalidating(R), R)
    BY DEF WorkerRetired
  <2>2. /\ \A j \in DOMAIN residencies : residencies[j] \in ResidencyRecord
        /\ DOMAIN Revalidating(R) = DOMAIN residencies
        /\ \A j \in DOMAIN residencies :
              /\ Revalidating(R)[j] \in ResidencyRecord
              /\ Revalidating(R)[j].owner = residencies[j].owner
    BY RevalidatingType, OwnersRevalidating, ElementOfSeq, LenProperties
    DEF OwnerInv, TypeOK
  <2>3. i \in DOMAIN residencies
    BY <2>1, <2>2 DEF Disowned
  <2>4. i \notin R /\ residencies'[i].owner = residencies[i].owner
    BY <1>3, <2>1, <2>2, <2>3 DEF Disowned, ResidencyRecord
  <2>5. residencies[i].owner \in Incarnation
    BY <1>3, <2>2, <2>3, <2>4 DEF ResidencyRecord, Owner
  <2> QED
    BY <1>1, <1>3, <2>3, <2>4, <2>5 DEF OwnerInv, OwnersAreLive
<1> QED
  BY <1>2, <1>3 DEF OwnersAreLive, IsLive

\* coordinator_restart keeps owners live.
LEMMA OwnersCoordinatorRestart ==
    ASSUME OwnerInv, NEW e \in Epochs, CoordinatorRestart(e)
    PROVE  OwnersAreLive'
<1> DEFINE A == Present(attachments)
           R == DOMAIN residencies
<1>1. \A a \in Present(attachments)' : attachments'[a].owner = None
  <2>1. /\ Staled(A) \in [Attachments -> Attachment \cup {None}]
        /\ Present(Staled(A)) = A
    BY StaledType DEF OwnerInv, TypeOK
  <2>2. attachments' = Disowned(Staled(A), A)
    BY DEF CoordinatorRestart
  <2> QED
    BY <2>1, <2>2 DEF Disowned, Present, Attachment
<1>2. \A i \in DOMAIN residencies' : residencies'[i].owner = None
  <2>1. /\ DOMAIN Revalidating(R) = R
        /\ \A j \in R : Revalidating(R)[j] \in ResidencyRecord
    BY RevalidatingType, ElementOfSeq, LenProperties DEF OwnerInv, TypeOK
  <2>2. residencies' = Disowned(Revalidating(R), R)
    BY DEF CoordinatorRestart
  <2> QED
    BY <2>1, <2>2 DEF Disowned, ResidencyRecord
<1> QED
  BY <1>1, <1>2 DEF OwnersAreLive

\* register_attachment keeps owners live.
LEMMA OwnersRegisterAttachment ==
    ASSUME OwnerInv, NEW e \in Epochs, NEW w \in Workers, NEW b \in Boots,
           NEW id \in Attachments, NEW att \in AttachmentInput(w, b),
           RegisterAttachment(e, w, b, id, att)
    PROVE  OwnersAreLive'
<1>1. att.owner \in {None, [worker |-> w, boot |-> b]}
  BY DEF AttachmentInput, Owners
<1>2. /\ workers[w] = b /\ workers' = workers /\ residencies' = residencies
      /\ attachments' = [attachments EXCEPT ![id] = att]
  BY DEF RegisterAttachment, EnsureAuthority
<1>3. \A a \in Present(attachments)' :
         \/ a \in Present(attachments) /\ attachments'[a] = attachments[a]
         \/ attachments'[a] = att
  BY <1>2 DEF OwnerInv, TypeOK, Present
<1>4. \A a \in Present(attachments)' : attachments'[a].owner # None =>
         workers[attachments'[a].owner.worker] = attachments'[a].owner.boot
  <2> SUFFICES ASSUME NEW a \in Present(attachments)',
                      attachments'[a].owner # None
               PROVE  workers[attachments'[a].owner.worker]
                         = attachments'[a].owner.boot
    OBVIOUS
  <2>1. CASE a \in Present(attachments) /\ attachments'[a] = attachments[a]
    BY <2>1 DEF OwnerInv, OwnersAreLive, IsLive
  <2>2. CASE attachments'[a] = att
    BY <2>2, <1>1, <1>2
  <2> QED
    BY <1>3, <2>1, <2>2
<1> QED
  BY <1>2, <1>4 DEF OwnerInv, OwnersAreLive, IsLive

\* retire_attachment keeps owners live.
LEMMA OwnersRetireAttachment ==
    ASSUME OwnerInv, NEW e \in Epochs, NEW w \in Workers, NEW b \in Boots,
           NEW id \in Attachments, RetireAttachment(e, w, b, id)
    PROVE  OwnersAreLive'
<1>1. \A a \in Present(attachments) : attachments[a] \in Attachment
  BY DEF OwnerInv, TypeOK, Present
<1>2. Present(attachments)' = Present(attachments)
  <2>1. id \in Present(attachments)
    BY DEF RetireAttachment
  <2>2. [attachments[id] EXCEPT !.state = "REVOKED"] \in Attachment
    BY <1>1, <2>1 DEF Attachment, AttachmentState
  <2> QED
    BY <2>1, <2>2, NoneAssumption
    DEF OwnerInv, TypeOK, RetireAttachment, Present
<1>3. \A a \in Present(attachments) :
         attachments'[a].owner = attachments[a].owner
  BY <1>1 DEF OwnerInv, TypeOK, RetireAttachment, Present, Attachment
<1> QED
  BY <1>2, <1>3, OwnersKept DEF RetireAttachment

\* publish_residency keeps owners live.
LEMMA OwnersPublishResidency ==
    ASSUME OwnerInv, NEW e \in Epochs, NEW w \in Workers, NEW b \in Boots,
           NEW rec \in ResidencyInput(w, b), PublishResidency(e, w, b, rec)
    PROVE  OwnersAreLive'
<1>1. rec.owner \in {None, [worker |-> w, boot |-> b]}
  BY DEF ResidencyInput, Owners
<1>2. /\ workers[w] = b /\ workers' = workers /\ attachments' = attachments
      /\ residencies' = Append(residencies, rec)
  BY DEF PublishResidency, EnsureAuthority
<1>3. \A i \in DOMAIN residencies' :
         \/ i \in DOMAIN residencies /\ residencies'[i] = residencies[i]
         \/ residencies'[i] = rec
  BY <1>2, LenProperties DEF OwnerInv, TypeOK
<1>4. Present(attachments)' = Present(attachments)
  BY <1>2 DEF Present
<1> QED
  BY <1>1, <1>2, <1>3, <1>4 DEF OwnerInv, OwnersAreLive, IsLive

\* retire_residency keeps owners live.
LEMMA OwnersRetireResidency ==
    ASSUME OwnerInv, NEW e \in Epochs, NEW w \in Workers, NEW b \in Boots,
           NEW id \in ResidencyIds, RetireResidency(e, w, b, id)
    PROVE  OwnersAreLive'
<1>1. PICK i \in ResidenciesOf(id) :
         residencies' = [residencies EXCEPT ![i] =
                            [@ EXCEPT !.state = "RETIRED",
                                      !.lifecycle = "RETIRED"]]
  BY DEF RetireResidency
<1>2. \A j \in DOMAIN residencies : residencies[j] \in ResidencyRecord
  BY ResidencyElements DEF OwnerInv
<1>3. /\ DOMAIN residencies' = DOMAIN residencies
      /\ \A j \in DOMAIN residencies :
            residencies'[j].owner = residencies[j].owner
  BY <1>1, <1>2 DEF ResidenciesOf, ResidencyRecord
<1> QED
  BY <1>3, OwnersKept DEF RetireResidency, Present

\* Every step keeps owners live.
LEMMA OwnersStep == OwnerInv /\ [Next]_vars => OwnerInv'
<1> SUFFICES ASSUME OwnerInv, [Next]_vars PROVE OwnersAreLive'
  BY TypeStep DEF OwnerInv
<1>1. CASE \E w \in Workers, b \in Boots :
              RegisterWorker(w, b) \/ WorkerRetired(w, b)
  BY <1>1, OwnersRegisterWorker, OwnersWorkerRetired
<1>2. CASE \E e \in Epochs : CoordinatorRestart(e)
  BY <1>2, OwnersCoordinatorRestart
<1>3. ASSUME NEW e \in Epochs, NEW w \in Workers, NEW b \in Boots,
             DiscoveryCall(e, w, b)
      PROVE  OwnersAreLive'
  <2>1. workers' = workers
    BY <1>3
    DEF DiscoveryCall, RegisterNic, AdvanceNicGeneration, RegisterFunction,
        AdvanceFunctionGeneration, RegisterPort, RegisterQueue,
        AdvanceQueueGeneration, SetTopology, RegisterGpu
  <2>2. \E ks \in SUBSET Present(attachments) :
           attachments' = Staled(ks) \/ attachments' = attachments
    BY <1>3
    DEF DiscoveryCall, RegisterNic, AdvanceNicGeneration, RegisterFunction,
        AdvanceFunctionGeneration, RegisterPort, RegisterQueue,
        AdvanceQueueGeneration, SetTopology, RegisterGpu
  <2>3. \E is \in SUBSET DOMAIN residencies :
           residencies' = Revalidating(is) \/ residencies' = residencies
    BY <1>3
    DEF DiscoveryCall, RegisterNic, AdvanceNicGeneration, RegisterFunction,
        AdvanceFunctionGeneration, RegisterPort, RegisterQueue,
        AdvanceQueueGeneration, SetTopology, RegisterGpu
  <2> QED
    BY <2>1, <2>2, <2>3, OwnersInvalidation
<1>4. ASSUME NEW e \in Epochs, NEW w \in Workers, NEW b \in Boots,
             BindingCall(e, w, b)
      PROVE  OwnersAreLive'
  BY <1>4, OwnersRegisterAttachment, OwnersRetireAttachment,
     OwnersPublishResidency, OwnersRetireResidency
  DEF BindingCall
<1>5. CASE UNCHANGED vars
  BY <1>5 DEF OwnerInv, OwnersAreLive, IsLive, Present, vars
<1> QED
  BY <1>1, <1>2, <1>3, <1>4, <1>5 DEF Next

\* An owner named by an attachment or residency is always a live incarnation.
THEOREM OwnersAreLiveHolds == Spec => []OwnersAreLive
<1>1. Init => OwnerInv
  BY BoundsAssumption DEF Init, OwnerInv, TypeOK, OwnersAreLive, Present
<1>2. OwnerInv => OwnersAreLive
  BY DEF OwnerInv
<1> QED
  BY <1>1, <1>2, OwnersStep, PTL DEF Spec
=============================================================================
