------------------------- MODULE CoordinatorProofs -------------------------
(***************************************************************************)
(* Theorems about Coordinator, for every value of its constants: what the  *)
(* files hold whatever is killed, what a restarted coordinator may trust,  *)
(* and that its saves implement AtomicStore.                               *)
(***************************************************************************)
EXTENDS Coordinator, NicRegistryProofs

-----------------------------------------------------------------------------
(* The inductive invariant: what the process holds at each of its steps    *)

NoWorkers == workers = [w \in Workers |-> None]
NothingStored == nics = [n \in Nics |-> None] /\ residencies = <<>>

\* A process that is not running holds nothing.
DownIsBlank ==
    pc = "down" =>
        /\ fa = None /\ fb = None /\ rec = None /\ verdict = NoVerdict
        /\ NoWorkers /\ NothingStored

\* run_first: the frame is decoded first and stays in memory, the registry is
\* filled from it step by step, and the files hold its image from the write
\* of the temporary file on.
FirstPhase ==
    mode = "first" /\ pc # "down" =>
        /\ pc \in FirstSteps \cup {"serving"}
        /\ rec = None
        /\ pc # "decode_a" => fa \in Frame /\ fa.epoch = epoch
        /\ pc \in {"decode_a", "register_worker"} => NoWorkers
        /\ pc \in {"decode_a", "register_worker", "register_nic"}
              => NothingStored
        /\ pc \notin {"decode_a", "register_worker"}
              => workers[fa.worker] = fa.boot
        /\ pc \notin {"decode_a", "register_worker", "register_nic"}
              => nics[TheNic] # None /\ nics[TheNic].generation = fa.generation
        /\ pc = "rename_tmp" => tmp_file = ImageOf(fa)
        /\ pc \in {"report", "serving"} => state_file = ImageOf(fa)
        /\ pc = "serving" => first_report = ImageOf(fa)

\* The steps of run_restart before frame B is decoded, before any worker is
\* registered, before the recovered NIC is placed, and after the takeover
\* attempt.
BeforeB == {"recover", "replay_a_read", "decode_b"}
BeforeWorkers == {"recover", "replay_a_read", "decode_b", "replay_a",
                  "register_b"}
BeforeNic == {"recover", "replay_a_read", "decode_b", "replay_a",
              "register_b", "register_a", "place_recovered"}
AfterTakeover == {"place_recovered", "revalidate", "republish",
                  "load_history", "report", "serving"}

\* The NIC record a restarted coordinator holds is the recovered one, which is
\* not eligible, or worker A's record of a newer generation.
RecoveredOrRevalidated ==
    \/ nics[TheNic] = RecoveredNic(rec)
    \/ /\ nics[TheNic] = DecodedNic(fb)
       /\ fb.generation > rec.generation
       /\ publisher[TheNic] = [worker |-> fb.worker, boot |-> fb.boot,
                               epoch |-> rec.epoch + 1]

\* run_restart: recover, decode, then the registry of the next epoch.
RestartPhase ==
    mode = "restart" /\ pc # "down" =>
        /\ pc \in RestartSteps \cup {"serving"}
        /\ ~verdict.pre
        /\ pc # "recover" => rec \in Image
        /\ pc \notin BeforeB => fb \in Frame /\ epoch = rec.epoch + 1
        /\ pc \in BeforeWorkers => NoWorkers
        /\ pc \in BeforeNic => NothingStored
        /\ pc \notin BeforeWorkers => workers[fb.worker] = fb.boot
        /\ pc = "register_a" =>
              \A w \in Workers \ {fb.worker} : workers[w] = None
        /\ pc \notin AfterTakeover => ~verdict.takeover_rejected
        /\ pc \in AfterTakeover /\ fa # None =>
              (verdict.takeover_rejected <=>
                  fa.worker = fb.worker /\ fa.boot # fb.boot)
        /\ pc = "revalidate" => nics[TheNic] = RecoveredNic(rec)
        /\ pc \notin BeforeNic => RecoveredOrRevalidated
        /\ \A i \in DOMAIN residencies :
              residencies[i].owner = [worker |-> fb.worker, boot |-> fb.boot]

\* What a kill at any point leaves behind.
FilesWhole ==
    /\ state_file \in Image \cup {None}
    /\ first_report \in Image => state_file \in Image

CoordinatorInv ==
    /\ TypeOK
    /\ CoordinatorTypeOK
    /\ FilesWhole
    /\ DownIsBlank
    /\ FirstPhase
    /\ RestartPhase

-----------------------------------------------------------------------------
(* Steps that every mode takes                                             *)

\* Every constructor argument of a coordinator is an epoch of the model.
LEMMA EpochsOfFrames ==
    /\ 1 \in Epochs
    /\ \A e \in FrameEpochs : e \in Nat /\ e + 1 \in Epochs
    /\ \A e \in FrameEpochs : e # 0 => e \in Epochs
BY BoundsAssumption, CoordinatorAssumption DEF Epochs

\* A newly constructed registry is well typed and empty.
LEMMA NewRegistryType ==
    ASSUME NEW e \in Epochs, NewRegistry(e)
    PROVE  TypeOK' /\ NoWorkers' /\ NothingStored' /\ epoch' = e
BY DEF NewRegistry, TypeOK, NoWorkers, NothingStored

\* The process is gone: whatever it was doing, and with at most an error
\* report and the temporary file removed, the invariant holds.
LEMMA InvExit ==
    ASSUME CoordinatorInv, Exit, UNCHANGED state_file,
           tmp_file' \in {tmp_file, None},
           first_report' \in {first_report, Error},
           restart_report' \in {restart_report, Error}
    PROVE  CoordinatorInv'
<1>1. TypeOK' /\ NoWorkers' /\ NothingStored'
  BY EpochsOfFrames, NewRegistryType DEF Exit
<1>2. CoordinatorTypeOK'
  BY DEF CoordinatorInv, CoordinatorTypeOK, Exit, NoVerdict, Verdict
<1>3. FilesWhole'
  BY CoordinatorAssumption DEF CoordinatorInv, FilesWhole
<1>4. DownIsBlank' /\ FirstPhase' /\ RestartPhase'
  BY <1>1 DEF Exit, DownIsBlank, FirstPhase, RestartPhase
<1> QED
  BY <1>1, <1>2, <1>3, <1>4 DEF CoordinatorInv

\* An error report and an exit keep the invariant.
LEMMA InvErrorExit ==
    ASSUME CoordinatorInv, ErrorExit, UNCHANGED state_file,
           tmp_file' \in {tmp_file, None}
    PROVE  CoordinatorInv'
BY InvExit DEF ErrorExit

\* Whatever the workers do to their frame files, the invariant holds: the
\* coordinator keeps what it has decoded.
LEMMA InvWorkerStep == ASSUME CoordinatorInv, WorkerStep PROVE CoordinatorInv'
<1> DEFINE OnlyFramesMove ==
              /\ UNCHANGED <<vars, memory, state_file, tmp_file,
                             first_report, restart_report, last_served>>
              /\ frames' \in [Slots -> Frame \cup {None, Torn}]
              /\ writing' \in [Slots -> Frame \cup {None}]
              /\ used_boots' \subseteq Boots
<1>1. OnlyFramesMove
  <2>1. ASSUME NEW s \in Slots, NEW w \in Workers, NEW e \in FrameEpochs,
               NEW g \in Generations, StartWorker(s, w, e, g)
        PROVE  OnlyFramesMove
    BY <2>1 DEF CoordinatorInv, CoordinatorTypeOK, StartWorker, Frame
  <2>2. ASSUME NEW s \in Slots, FinishFrame(s)
        PROVE  OnlyFramesMove
    BY <2>2 DEF CoordinatorInv, CoordinatorTypeOK, FinishFrame
  <2>3. ASSUME NEW s \in Slots, KillWorker(s)
        PROVE  OnlyFramesMove
    BY <2>3 DEF CoordinatorInv, CoordinatorTypeOK, KillWorker
  <2> QED
    BY <2>1, <2>2, <2>3 DEF WorkerStep
<1>2. TypeOK' /\ CoordinatorTypeOK' /\ FilesWhole'
  BY <1>1 DEF CoordinatorInv, TypeOK, CoordinatorTypeOK, FilesWhole, vars,
     memory
<1>3. DownIsBlank' /\ FirstPhase'
  BY <1>1 DEF CoordinatorInv, DownIsBlank, FirstPhase, NoWorkers,
     NothingStored, vars, memory
<1>4. RestartPhase'
  BY <1>1 DEF CoordinatorInv, RestartPhase, RecoveredOrRevalidated, NoWorkers,
     NothingStored, vars, memory
<1> QED
  BY <1>2, <1>3, <1>4 DEF CoordinatorInv

\* A launch starts from a blank process.
LEMMA InvLaunch ==
    ASSUME CoordinatorInv, NEW m \in {"first", "restart"}, Launch(m)
    PROVE  CoordinatorInv'
<1>1. TypeOK' /\ CoordinatorTypeOK' /\ FilesWhole'
  BY DEF CoordinatorInv, Launch, TypeOK, CoordinatorTypeOK, FilesWhole, vars,
     files, FirstSteps, RestartSteps
<1>2. DownIsBlank' /\ FirstPhase' /\ RestartPhase'
  BY DEF CoordinatorInv, Launch, DownIsBlank, FirstPhase, RestartPhase,
     FirstSteps, RestartSteps, NoVerdict, NoWorkers, NothingStored, BeforeB,
     BeforeWorkers, BeforeNic, AfterTakeover, vars
<1> QED
  BY <1>1, <1>2 DEF CoordinatorInv

-----------------------------------------------------------------------------
(* The steps of run_first                                                  *)

\* Decoding frame A and constructing the registry keeps the invariant.
LEMMA InvFirstDecodeA ==
    ASSUME CoordinatorInv, FirstDecodeA PROVE CoordinatorInv'
<1> DEFINE f == Decoded("a")
<1>1. CASE f = None \/ f.epoch = 0
  BY <1>1, InvErrorExit DEF FirstDecodeA
<1>2. CASE ~(f = None \/ f.epoch = 0)
  <2>1. /\ At("first", "decode_a") /\ fa' = f /\ NewRegistry(f.epoch)
        /\ Goto("register_worker")
        /\ UNCHANGED <<files, fb, rec, verdict, last_served>>
    BY <1>2 DEF FirstDecodeA
  <2>2. f \in Frame /\ f.epoch \in Epochs
    BY <1>2, EpochsOfFrames DEF Decoded, TryDecode, Frame
  <2>3. TypeOK' /\ NoWorkers' /\ NothingStored' /\ epoch' = f.epoch
    BY <2>1, <2>2, NewRegistryType
  <2>4. CoordinatorTypeOK' /\ FilesWhole' /\ DownIsBlank' /\ RestartPhase'
    BY <2>1, <2>2 DEF CoordinatorInv, CoordinatorTypeOK, FilesWhole,
       DownIsBlank, RestartPhase, At, Goto, files, FirstSteps
  <2>5. FirstPhase'
    BY <2>1, <2>2, <2>3 DEF CoordinatorInv, FirstPhase, At, Goto, FirstSteps
  <2> QED
    BY <2>3, <2>4, <2>5 DEF CoordinatorInv
<1> QED
  BY <1>1, <1>2

\* What is known at a step of run_first after the frame is decoded.
LEMMA FirstFrame ==
    ASSUME CoordinatorInv, mode = "first", pc \notin {"down", "decode_a"}
    PROVE  /\ fa \in Frame /\ fa.worker \in Workers /\ fa.boot \in Boots
           /\ fa.generation \in Generations /\ fa.epoch \in FrameEpochs
           /\ epoch \in Epochs /\ fa.epoch = epoch
           /\ ImageOf(fa) \in Image
BY DEF CoordinatorInv, FirstPhase, Frame, Image, ImageOf, TypeOK

\* register_worker of the frame's incarnation keeps the invariant.
LEMMA InvFirstRegisterWorker ==
    ASSUME CoordinatorInv, FirstRegisterWorker PROVE CoordinatorInv'
<1>1. /\ fa \in Frame /\ fa.worker \in Workers /\ fa.boot \in Boots
  BY FirstFrame DEF FirstRegisterWorker, At
<1>2. TypeOK'
  BY <1>1, TypeRegisterWorker DEF CoordinatorInv, FirstRegisterWorker
<1>3. CoordinatorTypeOK' /\ FilesWhole' /\ DownIsBlank' /\ RestartPhase'
  BY DEF CoordinatorInv, CoordinatorTypeOK, FilesWhole, DownIsBlank,
     RestartPhase, FirstRegisterWorker, At, Goto, files, FirstSteps
<1>4. FirstPhase'
  BY <1>1 DEF CoordinatorInv, FirstPhase, FirstRegisterWorker, RegisterWorker,
     At, Goto, FirstSteps, NothingStored, NoWorkers
<1> QED
  BY <1>2, <1>3, <1>4 DEF CoordinatorInv

\* register_nic of the decoded record keeps the invariant: it is accepted
\* into an empty table only by being stored.
LEMMA InvFirstRegisterNic ==
    ASSUME CoordinatorInv, FirstRegisterNic PROVE CoordinatorInv'
<1>0. At("first", "register_nic")
  BY DEF FirstRegisterNic
<1>1. CASE ~AcceptsNic(fa.epoch, fa.worker, fa.boot, DecodedNic(fa))
  BY <1>1, InvErrorExit DEF FirstRegisterNic
<1>2. CASE AcceptsNic(fa.epoch, fa.worker, fa.boot, DecodedNic(fa))
  <2>1. /\ RegisterNic(fa.epoch, fa.worker, fa.boot, TheNic, DecodedNic(fa))
        /\ Goto("publish")
        /\ UNCHANGED <<files, fa, fb, rec, verdict, last_served>>
    BY <1>2 DEF FirstRegisterNic
  <2>2. /\ fa \in Frame /\ fa.worker \in Workers /\ fa.boot \in Boots
        /\ fa.generation \in Generations /\ fa.epoch \in Epochs
    BY <1>0, FirstFrame DEF At
  <2>3. DecodedNic(fa) \in NicRecord
    BY <2>2, CoordinatorAssumption
    DEF DecodedNic, NicRecord, LifecycleState
  <2>4. TypeOK'
    BY <2>1, <2>2, <2>3, CoordinatorAssumption, TypeRegisterNic
    DEF CoordinatorInv
  <2>5. nics[TheNic] = None
    BY <1>0, CoordinatorAssumption
    DEF CoordinatorInv, FirstPhase, NothingStored, At
  <2>6. nics'[TheNic] = DecodedNic(fa)
    BY <1>2, <2>1, <2>5, CoordinatorAssumption
    DEF RegisterNic, StoresNic, AcceptsNic, CoordinatorInv, TypeOK
  <2>7. CoordinatorTypeOK' /\ FilesWhole' /\ DownIsBlank' /\ RestartPhase'
    BY <1>0, <2>1 DEF CoordinatorInv, CoordinatorTypeOK, FilesWhole,
       DownIsBlank, RestartPhase, At, Goto, files, FirstSteps
  <2>8. nics'[TheNic] # None /\ nics'[TheNic].generation = fa.generation
    BY <2>3, <2>6, NoneAssumption DEF DecodedNic
  <2>9. FirstPhase'
    BY <1>0, <2>1, <2>2, <2>8 DEF CoordinatorInv, FirstPhase, RegisterNic, At,
       Goto, FirstSteps
  <2> QED
    BY <2>4, <2>7, <2>9 DEF CoordinatorInv
<1> QED
  BY <1>1, <1>2

\* publish_residency of the first coordinator keeps the invariant.
LEMMA InvFirstPublish ==
    ASSUME CoordinatorInv, FirstPublish PROVE CoordinatorInv'
<1>0. At("first", "publish")
  BY DEF FirstPublish
<1>1. /\ fa \in Frame /\ fa.worker \in Workers /\ fa.boot \in Boots
      /\ fa.epoch \in Epochs
  BY <1>0, FirstFrame DEF At
<1>2. ResidencyFor(fa, 1) \in ResidencyRecord
  BY <1>1, CoordinatorAssumption, BoundsAssumption
  DEF ResidencyFor, ResidencyRecord, ResidencyState, LifecycleState, Owner,
      Incarnation, Generations
<1>3. TypeOK'
  BY <1>1, <1>2, TypePublishResidency DEF CoordinatorInv, FirstPublish
<1>4. CoordinatorTypeOK' /\ FilesWhole' /\ DownIsBlank' /\ RestartPhase'
  BY DEF CoordinatorInv, CoordinatorTypeOK, FilesWhole, DownIsBlank,
     RestartPhase, FirstPublish, At, Goto, files, FirstSteps
<1>5. FirstPhase'
  BY DEF CoordinatorInv, FirstPhase, FirstPublish, PublishResidency,
     At, Goto, FirstSteps
<1> QED
  BY <1>3, <1>4, <1>5 DEF CoordinatorInv

\* Opening the temporary file keeps the invariant.
LEMMA InvSaveOpen == ASSUME CoordinatorInv, SaveOpen PROVE CoordinatorInv'
<1>1. CASE ErrorExit /\ UNCHANGED <<state_file, tmp_file>>
  BY <1>1, InvErrorExit
<1>2. CASE /\ At("first", "open_tmp") /\ tmp_file' = Torn
           /\ Goto("write_tmp")
           /\ UNCHANGED <<vars, frames, writing, used_boots, state_file,
                          first_report, restart_report, fa, fb, rec, verdict,
                          last_served>>
  <2>1. TypeOK' /\ CoordinatorTypeOK' /\ FilesWhole' /\ DownIsBlank'
    BY <1>2 DEF CoordinatorInv, TypeOK, CoordinatorTypeOK, FilesWhole,
       DownIsBlank, At, Goto, vars, FirstSteps
  <2>2. FirstPhase' /\ RestartPhase'
    BY <1>2 DEF CoordinatorInv, FirstPhase, RestartPhase, At, Goto, vars,
       FirstSteps
  <2> QED
    BY <2>1, <2>2 DEF CoordinatorInv
<1> QED
  BY <1>1, <1>2 DEF SaveOpen

\* Writing the temporary file keeps the invariant: the process goes on to the
\* rename only with the whole image written.
LEMMA InvSaveWrite == ASSUME CoordinatorInv, SaveWrite PROVE CoordinatorInv'
<1>1. CASE ErrorExit /\ UNCHANGED <<state_file, tmp_file>>
  BY <1>1, InvErrorExit
<1>2. CASE /\ At("first", "write_tmp") /\ tmp_file' = ImageOf(fa)
           /\ Goto("rename_tmp")
           /\ UNCHANGED <<vars, frames, writing, used_boots, state_file,
                          first_report, restart_report, fa, fb, rec, verdict,
                          last_served>>
  <2>0. ImageOf(fa) \in Image
    BY <1>2, FirstFrame DEF At
  <2>1. TypeOK' /\ CoordinatorTypeOK' /\ FilesWhole' /\ DownIsBlank'
    BY <1>2, <2>0 DEF CoordinatorInv, TypeOK, CoordinatorTypeOK, FilesWhole,
       DownIsBlank, At, Goto, vars, FirstSteps
  <2>2. FirstPhase' /\ RestartPhase'
    BY <1>2 DEF CoordinatorInv, FirstPhase, RestartPhase, At, Goto, vars,
       FirstSteps, ImageOf
  <2> QED
    BY <2>1, <2>2 DEF CoordinatorInv
<1> QED
  BY <1>1, <1>2 DEF SaveWrite

\* The rename keeps the invariant: it installs the whole image or nothing.
LEMMA InvSaveRename == ASSUME CoordinatorInv, SaveRename PROVE CoordinatorInv'
<1>1. CASE ErrorExit /\ tmp_file' = None /\ UNCHANGED state_file
  BY <1>1, InvErrorExit
<1>2. CASE /\ At("first", "rename_tmp") /\ state_file' = tmp_file
           /\ tmp_file' = None /\ Goto("report")
           /\ UNCHANGED <<vars, frames, writing, used_boots, first_report,
                          restart_report, fa, fb, rec, verdict, last_served>>
  <2>0. ImageOf(fa) \in Image /\ tmp_file = ImageOf(fa)
    BY <1>2, FirstFrame DEF At, CoordinatorInv, FirstPhase
  <2>1. TypeOK' /\ CoordinatorTypeOK' /\ FilesWhole' /\ DownIsBlank'
    BY <1>2, <2>0 DEF CoordinatorInv, TypeOK, CoordinatorTypeOK, FilesWhole,
       DownIsBlank, At, Goto, vars, FirstSteps
  <2>2. FirstPhase' /\ RestartPhase'
    BY <1>2, <2>0 DEF CoordinatorInv, FirstPhase, RestartPhase, At, Goto, vars,
       FirstSteps, ImageOf
  <2> QED
    BY <2>1, <2>2 DEF CoordinatorInv
<1> QED
  BY <1>1, <1>2 DEF SaveRename

\* The report of the first coordinator keeps the invariant: there is an image
\* on disk when it says so.
LEMMA InvFirstReport == ASSUME CoordinatorInv, FirstReport PROVE CoordinatorInv'
<1>1. ImageOf(fa) \in Image /\ state_file = ImageOf(fa) /\ epoch \in Epochs
  BY FirstFrame DEF FirstReport, At, CoordinatorInv, FirstPhase
<1>2. TypeOK' /\ FilesWhole' /\ DownIsBlank'
  BY <1>1 DEF CoordinatorInv, TypeOK, FilesWhole, DownIsBlank, FirstReport, At,
     Goto, vars
<1>3. CoordinatorTypeOK'
  BY <1>1 DEF CoordinatorInv, CoordinatorTypeOK, FirstReport, Goto, Epochs
<1>4. FirstPhase' /\ RestartPhase'
  BY <1>1 DEF CoordinatorInv, FirstPhase, RestartPhase, FirstReport, At, Goto,
     vars, ImageOf
<1> QED
  BY <1>2, <1>3, <1>4 DEF CoordinatorInv

-----------------------------------------------------------------------------
(* The steps of run_restart                                                *)

\* What is known at a step of run_restart after frame B is decoded.
LEMMA RestartFrame ==
    ASSUME CoordinatorInv, mode = "restart", pc \notin BeforeB, pc # "down"
    PROVE  /\ rec \in Image /\ rec.generation \in Generations
           /\ rec.epoch \in FrameEpochs
           /\ fb \in Frame /\ fb.worker \in Workers /\ fb.boot \in Boots
           /\ fb.generation \in Generations
           /\ epoch \in Epochs /\ epoch = rec.epoch + 1
BY DEF CoordinatorInv, RestartPhase, BeforeB, Frame, Image, TypeOK

\* recover() keeps the invariant: what it returns is a whole image.
LEMMA InvRestartRecover ==
    ASSUME CoordinatorInv, RestartRecover PROVE CoordinatorInv'
<1>1. CASE ~Loadable
  BY <1>1, InvErrorExit DEF RestartRecover
<1>2. CASE Loadable
  <2>1. TypeOK' /\ CoordinatorTypeOK' /\ FilesWhole' /\ DownIsBlank'
    BY <1>2 DEF CoordinatorInv, TypeOK, CoordinatorTypeOK, FilesWhole,
       DownIsBlank, RestartRecover, Loadable, At, Goto, vars, files,
       RestartSteps
  <2>2. FirstPhase'
    BY <1>2 DEF FirstPhase, RestartRecover, At, Goto
  <2>3. RestartPhase'
    BY <1>2 DEF CoordinatorInv, RestartPhase, RestartRecover, Loadable, At,
       Goto, vars, RestartSteps, BeforeB, BeforeWorkers, BeforeNic,
       AfterTakeover, NoWorkers, NothingStored
  <2> QED
    BY <2>1, <2>2, <2>3 DEF CoordinatorInv
<1> QED
  BY <1>1, <1>2

\* Reading frame A, decodable or not, keeps the invariant.
LEMMA InvRestartDecodeA ==
    ASSUME CoordinatorInv, RestartDecodeA PROVE CoordinatorInv'
<1>1. TypeOK' /\ CoordinatorTypeOK' /\ FilesWhole' /\ DownIsBlank'
  BY DEF CoordinatorInv, TypeOK, CoordinatorTypeOK, FilesWhole, DownIsBlank,
     RestartDecodeA, Decoded, TryDecode, At, Goto, vars, files, RestartSteps
<1>2. FirstPhase'
  BY DEF FirstPhase, RestartDecodeA, At, Goto
<1>3. RestartPhase'
  BY DEF CoordinatorInv, RestartPhase, RestartDecodeA, At, Goto, vars,
     RestartSteps, BeforeB, BeforeWorkers, BeforeNic, AfterTakeover,
     NoWorkers, NothingStored
<1> QED
  BY <1>1, <1>2, <1>3 DEF CoordinatorInv

\* Decoding frame B and constructing the registry of the next epoch keeps the
\* invariant.
LEMMA InvRestartDecodeB ==
    ASSUME CoordinatorInv, RestartDecodeB PROVE CoordinatorInv'
<1>0. At("restart", "decode_b")
  BY DEF RestartDecodeB
<1>1. CASE Decoded("b") = None
  BY <1>1, InvErrorExit DEF RestartDecodeB
<1>2. CASE Decoded("b") # None
  <2>1. /\ fb' = Decoded("b") /\ NewRegistry(rec.epoch + 1)
        /\ Goto("replay_a")
        /\ UNCHANGED <<files, fa, rec, verdict, last_served>>
    BY <1>2 DEF RestartDecodeB
  <2>2. Decoded("b") \in Frame
    BY <1>2 DEF Decoded, TryDecode
  <2>3. rec.epoch + 1 \in Epochs
    BY <1>0, EpochsOfFrames
    DEF CoordinatorInv, RestartPhase, At, Image
  <2>4. TypeOK' /\ NoWorkers' /\ NothingStored' /\ epoch' = rec.epoch + 1
    BY <2>1, <2>3, NewRegistryType
  <2>5. CoordinatorTypeOK' /\ FilesWhole' /\ DownIsBlank' /\ FirstPhase'
    BY <1>0, <2>1, <2>2 DEF CoordinatorInv, CoordinatorTypeOK, FilesWhole,
       DownIsBlank, FirstPhase, At, Goto, files, RestartSteps
  <2>6. RestartPhase'
    BY <1>0, <2>1, <2>2, <2>4 DEF CoordinatorInv, RestartPhase, At, Goto,
       RestartSteps, BeforeB, BeforeWorkers, BeforeNic, AfterTakeover,
       NothingStored
  <2> QED
    BY <2>4, <2>5, <2>6 DEF CoordinatorInv
<1> QED
  BY <1>1, <1>2

\* The replay of frame A keeps the invariant: no worker is registered yet in
\* the new epoch, so the registry refuses it whatever it says.
LEMMA InvRestartReplayA ==
    ASSUME CoordinatorInv, RestartReplayA PROVE CoordinatorInv'
<1>1. ~(fa # None /\ EnsureAuthority(fa.epoch, fa.worker, fa.boot))
  BY NoneAssumption
  DEF CoordinatorInv, CoordinatorTypeOK, RestartPhase, RestartReplayA, At,
      BeforeWorkers, NoWorkers, EnsureAuthority, Frame
<1>2. UNCHANGED vars
  BY <1>1 DEF RestartReplayA
<1>3. TypeOK' /\ CoordinatorTypeOK' /\ FilesWhole' /\ DownIsBlank'
  BY <1>2 DEF CoordinatorInv, TypeOK, CoordinatorTypeOK, FilesWhole,
     DownIsBlank, RestartReplayA, At, Goto, vars, files, RestartSteps
<1>4. FirstPhase'
  BY DEF FirstPhase, RestartReplayA, At, Goto
<1>5. RestartPhase'
  BY <1>2 DEF CoordinatorInv, RestartPhase, RestartReplayA, At, Goto, vars,
     RestartSteps, BeforeB, BeforeWorkers, BeforeNic, AfterTakeover,
     NoWorkers, NothingStored
<1> QED
  BY <1>3, <1>4, <1>5 DEF CoordinatorInv

\* register_worker of A' keeps the invariant.
LEMMA InvRestartRegisterB ==
    ASSUME CoordinatorInv, RestartRegisterB PROVE CoordinatorInv'
<1>1. fb \in Frame /\ fb.worker \in Workers /\ fb.boot \in Boots
  BY RestartFrame DEF RestartRegisterB, At, BeforeB
<1>2. TypeOK'
  BY <1>1, TypeRegisterWorker DEF CoordinatorInv, RestartRegisterB
<1>3. CoordinatorTypeOK' /\ FilesWhole' /\ DownIsBlank' /\ FirstPhase'
  BY DEF CoordinatorInv, CoordinatorTypeOK, FilesWhole, DownIsBlank,
     FirstPhase, RestartRegisterB, At, Goto, files, RestartSteps
<1>4. RestartPhase'
  BY <1>1 DEF CoordinatorInv, RestartPhase, RestartRegisterB, RegisterWorker,
     At, Goto, RestartSteps, BeforeB, BeforeWorkers, BeforeNic, AfterTakeover,
     NoWorkers, NothingStored
<1> QED
  BY <1>2, <1>3, <1>4 DEF CoordinatorInv

\* The takeover attempt keeps the invariant: it changes no boot that is
\* registered, and the verdict records exactly the conflict.
LEMMA InvRestartRegisterA ==
    ASSUME CoordinatorInv, RestartRegisterA PROVE CoordinatorInv'
<1>0. /\ At("restart", "register_a") /\ Goto("place_recovered")
      /\ UNCHANGED <<files, fa, fb, rec, last_served>>
  BY DEF RestartRegisterA
<1>1. /\ fb \in Frame /\ fb.worker \in Workers /\ fb.boot \in Boots
      /\ epoch = rec.epoch + 1 /\ rec \in Image
      /\ workers[fb.worker] = fb.boot
      /\ \A w \in Workers \ {fb.worker} : workers[w] = None
      /\ ~verdict.pre /\ ~verdict.takeover_rejected
      /\ NothingStored
  BY <1>0, RestartFrame DEF At, BeforeB, BeforeWorkers, BeforeNic,
     AfterTakeover, CoordinatorInv, RestartPhase
<1>2. fa # None => fa \in Frame /\ fa.worker \in Workers /\ fa.boot \in Boots
  BY DEF CoordinatorInv, CoordinatorTypeOK, Frame
<1>3. /\ TypeOK' /\ epoch' = epoch /\ NothingStored'
      /\ workers'[fb.worker] = fb.boot
  <2>1. CASE fa = None \/ workers[fa.worker] \notin {None, fa.boot}
    BY <1>1, <2>1
    DEF RestartRegisterA, vars, CoordinatorInv, TypeOK, NothingStored
  <2>2. CASE fa # None /\ workers[fa.worker] \in {None, fa.boot}
    <3>1. RegisterWorker(fa.worker, fa.boot)
      BY <2>2 DEF RestartRegisterA
    <3>2. TypeOK'
      BY <1>2, <2>2, <3>1, TypeRegisterWorker DEF CoordinatorInv
    <3>3. fa.worker = fb.worker => fa.boot = fb.boot
      BY <1>1, <2>2, NoneAssumption
    <3> QED
      BY <1>1, <1>2, <2>2, <3>1, <3>2, <3>3
      DEF RegisterWorker, NothingStored, CoordinatorInv, TypeOK
  <2> QED
    BY <2>1, <2>2
<1>4. /\ verdict' \in Verdict /\ ~verdict'.pre
      /\ fa # None => (verdict'.takeover_rejected <=>
                          fa.worker = fb.worker /\ fa.boot # fb.boot)
  <2>1. verdict \in Verdict
    BY DEF CoordinatorInv, CoordinatorTypeOK
  <2>2. CASE fa = None
    BY <1>1, <2>1, <2>2 DEF RestartRegisterA
  <2>3. CASE fa # None /\ workers[fa.worker] \in {None, fa.boot}
    <3>1. verdict' = verdict
      BY <2>3 DEF RestartRegisterA
    <3>2. ~(fa.worker = fb.worker /\ fa.boot # fb.boot)
      BY <1>1, <2>3, NoneAssumption
    <3> QED
      BY <1>1, <2>1, <3>1, <3>2
  <2>4. CASE fa # None /\ workers[fa.worker] \notin {None, fa.boot}
    <3>1. verdict' = [verdict EXCEPT !.takeover_rejected = TRUE]
      BY <2>4 DEF RestartRegisterA
    <3>2. fa.worker = fb.worker /\ fa.boot # fb.boot
      BY <1>1, <1>2, <2>4
    <3>3. /\ verdict' \in Verdict /\ verdict'.pre = verdict.pre
          /\ verdict'.takeover_rejected = TRUE
      BY <2>1, <3>1 DEF Verdict
    <3> QED
      BY <1>1, <3>2, <3>3
  <2> QED
    BY <2>2, <2>3, <2>4
<1>5. CoordinatorTypeOK' /\ FilesWhole' /\ DownIsBlank' /\ FirstPhase'
  BY <1>0, <1>4 DEF CoordinatorInv, CoordinatorTypeOK, FilesWhole, DownIsBlank,
     FirstPhase, At, Goto, files, RestartSteps
<1>6. RestartPhase'
  BY <1>0, <1>1, <1>3, <1>4 DEF RestartPhase, At, Goto, RestartSteps, BeforeB,
     BeforeWorkers, BeforeNic, AfterTakeover, NothingStored
<1> QED
  BY <1>3, <1>5, <1>6 DEF CoordinatorInv

\* Placing the recovered NIC keeps the invariant: the table is empty, so the
\* record that is accepted is stored as recovered.
LEMMA InvRestartPlaceRecovered ==
    ASSUME CoordinatorInv, RestartPlaceRecovered PROVE CoordinatorInv'
<1>0. At("restart", "place_recovered")
  BY DEF RestartPlaceRecovered
<1>1. CASE ~AcceptsNic(epoch, fb.worker, fb.boot, RecoveredNic(rec))
  BY <1>1, InvErrorExit DEF RestartPlaceRecovered
<1>2. CASE AcceptsNic(epoch, fb.worker, fb.boot, RecoveredNic(rec))
  <2>1. /\ RegisterNic(epoch, fb.worker, fb.boot, TheNic, RecoveredNic(rec))
        /\ Goto("revalidate")
        /\ UNCHANGED <<files, fa, fb, rec, verdict, last_served>>
    BY <1>2 DEF RestartPlaceRecovered
  <2>2. /\ fb \in Frame /\ fb.worker \in Workers /\ fb.boot \in Boots
        /\ rec \in Image /\ rec.generation \in Generations
        /\ epoch \in Epochs /\ epoch = rec.epoch + 1
    BY <1>0, RestartFrame DEF At, BeforeB
  <2>3. RecoveredNic(rec) \in NicRecord
    BY <2>2, CoordinatorAssumption
    DEF RecoveredNic, NicRecord, LifecycleState
  <2>4. TypeOK'
    BY <2>1, <2>2, <2>3, CoordinatorAssumption, TypeRegisterNic
    DEF CoordinatorInv
  <2>5. nics[TheNic] = None
    BY <1>0, CoordinatorAssumption
    DEF CoordinatorInv, RestartPhase, NothingStored, At, BeforeNic
  <2>6. nics'[TheNic] = RecoveredNic(rec)
    BY <1>2, <2>1, <2>5, CoordinatorAssumption
    DEF RegisterNic, StoresNic, AcceptsNic, CoordinatorInv, TypeOK
  <2>7. CoordinatorTypeOK' /\ FilesWhole' /\ DownIsBlank' /\ FirstPhase'
    BY <1>0, <2>1 DEF CoordinatorInv, CoordinatorTypeOK, FilesWhole,
       DownIsBlank, FirstPhase, At, Goto, files, RestartSteps
  <2>8. RestartPhase'
    BY <1>0, <2>1, <2>2, <2>6 DEF CoordinatorInv, RestartPhase, RegisterNic,
       At, Goto, RestartSteps, BeforeB, BeforeWorkers, BeforeNic,
       AfterTakeover, RecoveredOrRevalidated, NothingStored, RecoveredNic
  <2> QED
    BY <2>4, <2>7, <2>8 DEF CoordinatorInv
<1> QED
  BY <1>1, <1>2

\* Revalidation keeps the invariant: the decision before it allows nothing,
\* and the recovered record is replaced by a strictly newer one or not at all.
LEMMA InvRestartRevalidate ==
    ASSUME CoordinatorInv, RestartRevalidate PROVE CoordinatorInv'
<1>0. At("restart", "revalidate")
  BY DEF RestartRevalidate
<1>1. CASE ~AcceptsNic(epoch, fb.worker, fb.boot, DecodedNic(fb))
  BY <1>1, InvErrorExit DEF RestartRevalidate
<1>2. CASE AcceptsNic(epoch, fb.worker, fb.boot, DecodedNic(fb))
  <2>1. /\ RegisterNic(epoch, fb.worker, fb.boot, TheNic, DecodedNic(fb))
        /\ verdict' = [verdict EXCEPT !.pre = DecisionAllows]
        /\ Goto("republish")
        /\ UNCHANGED <<files, fa, fb, rec, last_served>>
    BY <1>2 DEF RestartRevalidate
  <2>2. /\ fb \in Frame /\ fb.worker \in Workers /\ fb.boot \in Boots
        /\ fb.generation \in Generations
        /\ rec \in Image /\ rec.generation \in Generations
        /\ epoch \in Epochs /\ epoch = rec.epoch + 1
    BY <1>0, RestartFrame DEF At, BeforeB
  <2>3. DecodedNic(fb) \in NicRecord
    BY <2>2, CoordinatorAssumption
    DEF DecodedNic, NicRecord, LifecycleState
  <2>4. TypeOK'
    BY <2>1, <2>2, <2>3, CoordinatorAssumption, TypeRegisterNic
    DEF CoordinatorInv
  <2>5. nics[TheNic] = RecoveredNic(rec)
    BY <1>0 DEF CoordinatorInv, RestartPhase, At
  <2>6. verdict' \in Verdict /\ ~verdict'.pre
        /\ verdict'.takeover_rejected = verdict.takeover_rejected
    <3>1. verdict \in Verdict
      BY DEF CoordinatorInv, CoordinatorTypeOK
    <3>2. DecisionAllows = FALSE
      BY <2>5 DEF DecisionAllows, RecoveredNic
    <3>3. verdict' = [verdict EXCEPT !.pre = FALSE]
      BY <2>1, <3>2
    <3> QED
      BY <3>1, <3>3 DEF Verdict
  <2>7. RecoveredOrRevalidated'
    <3>1. CASE StoresNic(TheNic, DecodedNic(fb))
      <4>1. /\ nics'[TheNic] = DecodedNic(fb)
            /\ publisher'[TheNic] = [worker |-> fb.worker, boot |-> fb.boot,
                                     epoch |-> epoch]
        BY <2>1, <3>1, CoordinatorAssumption
        DEF RegisterNic, CoordinatorInv, TypeOK
      <4>2. RecoveredNic(rec) # None
        BY <2>2, CoordinatorAssumption, NoneAssumption
        DEF RecoveredNic, NicRecord, LifecycleState
      <4>3. fb.generation > rec.generation
        BY <2>5, <3>1, <4>2 DEF StoresNic, NewerThan, RecoveredNic, DecodedNic
      <4> QED
        BY <2>1, <2>2, <4>1, <4>3 DEF RecoveredOrRevalidated, DecodedNic
    <3>2. CASE ~StoresNic(TheNic, DecodedNic(fb))
      BY <2>1, <2>5, <3>2
      DEF RegisterNic, RecoveredOrRevalidated, RecoveredNic
    <3> QED
      BY <3>1, <3>2
  <2>8. CoordinatorTypeOK' /\ FilesWhole' /\ DownIsBlank' /\ FirstPhase'
    BY <1>0, <2>1, <2>6 DEF CoordinatorInv, CoordinatorTypeOK, FilesWhole,
       DownIsBlank, FirstPhase, At, Goto, files, RestartSteps
  <2>9. RestartPhase'
    BY <1>0, <2>1, <2>2, <2>6, <2>7 DEF CoordinatorInv, RestartPhase,
       RegisterNic, At, Goto, RestartSteps, BeforeB, BeforeWorkers, BeforeNic,
       AfterTakeover
  <2> QED
    BY <2>4, <2>8, <2>9 DEF CoordinatorInv
<1> QED
  BY <1>1, <1>2

\* The residency of the restarted coordinator keeps the invariant: it belongs
\* to A'.
LEMMA InvRestartRepublish ==
    ASSUME CoordinatorInv, RestartRepublish PROVE CoordinatorInv'
<1>0. /\ At("restart", "republish") /\ Goto("load_history")
      /\ PublishResidency(epoch, fb.worker, fb.boot, ResidencyFor(fb, 2))
      /\ verdict' = [verdict EXCEPT !.post = DecisionAllows]
      /\ UNCHANGED <<files, fa, fb, rec, last_served>>
  BY DEF RestartRepublish
<1>1. /\ fb \in Frame /\ fb.worker \in Workers /\ fb.boot \in Boots
      /\ epoch \in Epochs /\ epoch = rec.epoch + 1 /\ rec \in Image
  BY <1>0, RestartFrame DEF At, BeforeB
<1>2. ResidencyFor(fb, 2) \in ResidencyRecord
  BY <1>1, CoordinatorAssumption, BoundsAssumption
  DEF ResidencyFor, ResidencyRecord, ResidencyState, LifecycleState, Owner,
      Incarnation, Generations
<1>3. TypeOK'
  BY <1>0, <1>1, <1>2, TypePublishResidency DEF CoordinatorInv
<1>4. /\ verdict' \in Verdict
      /\ verdict'.pre = verdict.pre
      /\ verdict'.takeover_rejected = verdict.takeover_rejected
  BY <1>0 DEF CoordinatorInv, CoordinatorTypeOK, Verdict, DecisionAllows
<1>5. CoordinatorTypeOK' /\ FilesWhole' /\ DownIsBlank' /\ FirstPhase'
  BY <1>0, <1>4 DEF CoordinatorInv, CoordinatorTypeOK, FilesWhole, DownIsBlank,
     FirstPhase, At, Goto, files, RestartSteps
<1>6. \A i \in DOMAIN residencies' :
         residencies'[i].owner = [worker |-> fb.worker, boot |-> fb.boot]
  <2>1. \A i \in DOMAIN residencies :
           residencies[i].owner = [worker |-> fb.worker, boot |-> fb.boot]
    BY <1>0 DEF CoordinatorInv, RestartPhase, At
  <2>2. residencies' = Append(residencies, ResidencyFor(fb, 2))
    BY <1>0 DEF PublishResidency
  <2>3. ResidencyFor(fb, 2).owner = [worker |-> fb.worker, boot |-> fb.boot]
    BY DEF ResidencyFor
  <2> QED
    BY <1>2, <2>1, <2>2, <2>3, AppendProperties, LenProperties
    DEF CoordinatorInv, TypeOK
<1>7. RestartPhase'
  BY <1>0, <1>1, <1>4, <1>6 DEF CoordinatorInv, RestartPhase, PublishResidency,
     At, Goto, RestartSteps, BeforeB, BeforeWorkers, BeforeNic, AfterTakeover,
     RecoveredOrRevalidated
<1> QED
  BY <1>3, <1>5, <1>7 DEF CoordinatorInv

\* The second load keeps the invariant.
LEMMA InvRestartLoadHistory ==
    ASSUME CoordinatorInv, RestartLoadHistory PROVE CoordinatorInv'
<1>1. CASE ~Loadable
  BY <1>1, InvErrorExit DEF RestartLoadHistory
<1>2. CASE Loadable
  <2>1. TypeOK' /\ CoordinatorTypeOK' /\ FilesWhole' /\ DownIsBlank'
    BY <1>2 DEF CoordinatorInv, TypeOK, CoordinatorTypeOK, FilesWhole,
       DownIsBlank, RestartLoadHistory, At, Goto, vars, files, RestartSteps
  <2>2. FirstPhase'
    BY <1>2 DEF FirstPhase, RestartLoadHistory, At, Goto
  <2>3. RestartPhase'
    BY <1>2 DEF CoordinatorInv, RestartPhase, RestartLoadHistory, At, Goto,
       vars, RestartSteps, BeforeB, BeforeWorkers, BeforeNic, AfterTakeover,
       RecoveredOrRevalidated
  <2> QED
    BY <2>1, <2>2, <2>3 DEF CoordinatorInv
<1> QED
  BY <1>1, <1>2

\* The report of the restarted coordinator keeps the invariant.
LEMMA InvRestartReport ==
    ASSUME CoordinatorInv, RestartReport PROVE CoordinatorInv'
<1>1. TypeOK' /\ FilesWhole' /\ DownIsBlank' /\ FirstPhase'
  BY DEF CoordinatorInv, TypeOK, FilesWhole, DownIsBlank, FirstPhase,
     RestartReport, At, Goto, vars
<1>2. CoordinatorTypeOK'
  BY DEF CoordinatorInv, TypeOK, CoordinatorTypeOK, RestartReport, Goto, vars,
     Epochs
<1>3. RestartPhase'
  BY DEF CoordinatorInv, RestartPhase, RestartReport, At, Goto, vars,
     BeforeB, BeforeWorkers, BeforeNic, AfterTakeover, RecoveredOrRevalidated
<1> QED
  BY <1>1, <1>2, <1>3 DEF CoordinatorInv

-----------------------------------------------------------------------------
(* The invariants                                                          *)

\* The initial state satisfies the invariant.
LEMMA InvInit == CoordinatorInit => CoordinatorInv
<1> SUFFICES ASSUME CoordinatorInit PROVE CoordinatorInv
  OBVIOUS
<1>1. TypeOK
  BY EpochsOfFrames DEF CoordinatorInit, Init, TypeOK
<1>2. CoordinatorTypeOK /\ FilesWhole
  BY CoordinatorAssumption
  DEF CoordinatorInit, CoordinatorTypeOK, FilesWhole, NoVerdict, Verdict
<1>3. DownIsBlank /\ FirstPhase /\ RestartPhase
  BY DEF CoordinatorInit, Init, DownIsBlank, FirstPhase, RestartPhase,
     NoWorkers, NothingStored
<1> QED
  BY <1>1, <1>2, <1>3 DEF CoordinatorInv

\* Every step keeps the invariant.
LEMMA InvStep == CoordinatorInv /\ [CoordinatorNext]_cvars => CoordinatorInv'
<1> SUFFICES ASSUME CoordinatorInv, [CoordinatorNext]_cvars
             PROVE  CoordinatorInv'
  OBVIOUS
<1>1. CASE WorkerStep
  BY <1>1, InvWorkerStep
<1>2. CASE CoordinatorStep
  BY <1>2, InvFirstDecodeA, InvFirstRegisterWorker, InvFirstRegisterNic,
     InvFirstPublish, InvSaveOpen, InvSaveWrite, InvSaveRename,
     InvFirstReport, InvRestartRecover, InvRestartDecodeA, InvRestartDecodeB,
     InvRestartReplayA, InvRestartRegisterB, InvRestartRegisterA,
     InvRestartPlaceRecovered, InvRestartRevalidate, InvRestartRepublish,
     InvRestartLoadHistory, InvRestartReport
  DEF CoordinatorStep
<1>3. CASE \E m \in {"first", "restart"} : Launch(m)
  BY <1>3, InvLaunch
<1>4. CASE Kill
  BY <1>4, InvExit DEF Kill
<1>5. CASE UNCHANGED cvars
  <2>1. TypeOK' /\ CoordinatorTypeOK' /\ FilesWhole'
    BY <1>5 DEF CoordinatorInv, TypeOK, CoordinatorTypeOK, FilesWhole, cvars,
       vars, files, memory
  <2>2. DownIsBlank' /\ FirstPhase'
    BY <1>5 DEF CoordinatorInv, DownIsBlank, FirstPhase, NoWorkers,
       NothingStored, cvars, vars, files, memory
  <2>3. RestartPhase'
    BY <1>5 DEF CoordinatorInv, RestartPhase, RecoveredOrRevalidated,
       NoWorkers, NothingStored, cvars, vars, files, memory
  <2> QED
    BY <2>1, <2>2, <2>3 DEF CoordinatorInv
<1> QED
  BY <1>1, <1>2, <1>3, <1>4, <1>5 DEF CoordinatorNext

\* The invariant holds in every reachable state.
LEMMA InvHolds == CoordinatorSpec => []CoordinatorInv
BY InvInit, InvStep, PTL DEF CoordinatorSpec

\* Every reachable state of the coordinator, its registry and its files is
\* well typed, for all frames, epochs and generations.
THEOREM CoordinatorTypeCorrect ==
    CoordinatorSpec => [](CoordinatorTypeOK /\ TypeOK)
<1>1. CoordinatorInv => CoordinatorTypeOK /\ TypeOK
  BY DEF CoordinatorInv
<1> QED
  BY <1>1, InvHolds, PTL

\* Wherever a coordinator or a worker is killed and whichever step of a save
\* fails, the state file is never partial, and a coordinator that reported
\* success left an image to recover (PersistenceStore::save).
THEOREM SavedStateIsWholeHolds == CoordinatorSpec => []SavedStateIsWhole
<1>1. CoordinatorInv => SavedStateIsWhole
  BY CoordinatorAssumption DEF CoordinatorInv, FilesWhole, SavedStateIsWhole
<1> QED
  BY <1>1, InvHolds, PTL

\* A first coordinator that serves has persisted the epoch, generation and
\* boot it serves with (run_first saves before it reports).
THEOREM ServesWhatItPersistedHolds ==
    CoordinatorSpec => []ServesWhatItPersisted
<1>1. CoordinatorInv => ServesWhatItPersisted
  BY DEF CoordinatorInv, FirstPhase, ServesWhatItPersisted, At, ImageOf
<1> QED
  BY <1>1, InvHolds, PTL

\* The boot of frame A never takes over the worker id A' registered, the
\* verdict says so exactly when it tried, and every binding belongs to A'
\* (run_restart, register_worker).
THEOREM OldBootIsFencedHolds == CoordinatorSpec => []OldBootIsFenced
<1>1. CoordinatorInv => OldBootIsFenced
  BY DEF CoordinatorInv, RestartPhase, OldBootIsFenced, BeforeWorkers,
     AfterTakeover
<1> QED
  BY <1>1, InvHolds, PTL

-----------------------------------------------------------------------------
(* Incarnations: what slot a led to and what slot b holds                   *)

\* A frame or an image names the incarnation that wrote it.
Names(x) == x \in Frame \cup Image

\* Everything that came from worker A's file, and from that of worker A'.
FromA == {frames["a"], writing["a"], fa, state_file, tmp_file, rec}
FromB == {frames["b"], writing["b"], fb}

\* The boots of the two slots are drawn apart and stay apart, through frames,
\* memory and the state file.
BootsApart ==
    /\ \A x \in FromA \cup FromB : Names(x) => x.boot \in used_boots
    /\ \A x \in FromA, y \in FromB :
          Names(x) /\ Names(y) => x.boot # y.boot

\* A step that only copies what the slots led to keeps their boots apart.
LEMMA CopiesKeepBootsApart ==
    ASSUME BootsApart, UNCHANGED used_boots,
           NEW img, Names(img) => fa \in Frame /\ img.boot = fa.boot,
           FromA' \subseteq FromA \cup {None, Torn, img},
           FromB' \subseteq FromB \cup {None, Torn}
    PROVE  BootsApart'
<1>1. ~Names(None) /\ ~Names(Torn)
  BY CoordinatorAssumption DEF Names
<1>2. Names(img) => fa \in FromA /\ Names(fa) /\ img.boot = fa.boot
  BY DEF FromA, Names
<1>3. ASSUME NEW x \in FromA', Names(x)
      PROVE  \E z \in FromA : Names(z) /\ z.boot = x.boot
  BY <1>1, <1>2, <1>3
<1>4. ASSUME NEW y \in FromB', Names(y) PROVE y \in FromB
  BY <1>1, <1>4
<1>5. \A x \in (FromA \cup FromB)' : Names(x) => x.boot \in used_boots
  BY <1>3, <1>4 DEF BootsApart
<1>6. \A x \in FromA', y \in FromB' :
         Names(x) /\ Names(y) => x.boot # y.boot
  BY <1>3, <1>4 DEF BootsApart
<1>7. \A x : Names(x)' <=> Names(x)
  BY DEF Names, Frame, Image
<1> QED
  BY <1>5, <1>6, <1>7 DEF BootsApart

\* The end of a process drops what it had read.
LEMMA ExitKeepsBootsApart ==
    ASSUME BootsApart, Exit, state_file' = state_file,
           tmp_file' \in {tmp_file, None}
    PROVE  BootsApart'
<1>1. /\ FromA' \subseteq FromA \cup {None, Torn, None}
      /\ FromB' \subseteq FromB \cup {None, Torn}
      /\ UNCHANGED used_boots
  BY DEF Exit, FromA, FromB
<1>2. ~Names(None)
  BY CoordinatorAssumption DEF Names
<1> QED
  BY <1>1, <1>2, CopiesKeepBootsApart

\* A new incarnation draws a boot that none before it had (fresh_boot_id).
LEMMA StartKeepsBootsApart ==
    ASSUME BootsApart, NEW slot \in Slots, NEW w \in Workers,
           NEW e \in FrameEpochs, NEW g \in Generations,
           CoordinatorTypeOK, StartWorker(slot, w, e, g)
    PROVE  BootsApart'
<1>1. PICK b \in Boots \ used_boots :
         /\ used_boots' = used_boots \cup {b}
         /\ frames' = [frames EXCEPT ![slot] = Torn]
         /\ writing' = [writing EXCEPT ![slot] =
                           [worker |-> w, boot |-> b, epoch |-> e,
                            generation |-> g]]
         /\ UNCHANGED <<fa, fb, rec, state_file, tmp_file>>
  BY DEF StartWorker, memory
<1> DEFINE new == [worker |-> w, boot |-> b, epoch |-> e, generation |-> g]
<1>2. ~Names(Torn) /\ new.boot = b
  BY CoordinatorAssumption DEF Names
<1>3. /\ "a" \in Slots /\ "b" \in Slots /\ slot \in {"a", "b"}
      /\ DOMAIN frames = Slots /\ DOMAIN writing = Slots
  BY DEF CoordinatorTypeOK, Slots
<1>4. \/ /\ FromA' \subseteq FromA \cup {Torn, new}
         /\ FromB' \subseteq FromB
      \/ /\ FromA' \subseteq FromA
         /\ FromB' \subseteq FromB \cup {Torn, new}
  BY <1>1, <1>3 DEF FromA, FromB
<1>5. \A x : Names(x)' <=> Names(x)
  BY DEF Names, Frame, Image
<1>6. \A x \in (FromA \cup FromB)' : Names(x) => x.boot \in used_boots'
  BY <1>1, <1>2, <1>4 DEF BootsApart
<1>7. \A x \in FromA', y \in FromB' :
         Names(x) /\ Names(y) => x.boot # y.boot
  BY <1>1, <1>2, <1>4 DEF BootsApart
<1> QED
  BY <1>5, <1>6, <1>7 DEF BootsApart

\* Every step keeps the boots of the two slots apart.
LEMMA BootsStep ==
    CoordinatorInv /\ BootsApart /\ [CoordinatorNext]_cvars => BootsApart'
<1> SUFFICES ASSUME CoordinatorInv, BootsApart, [CoordinatorNext]_cvars
             PROVE  BootsApart'
  OBVIOUS
<1> USE DEF At, Goto
<1>0. /\ ~Names(None)
      /\ DOMAIN frames = Slots /\ DOMAIN writing = Slots
      /\ "a" \in Slots /\ "b" \in Slots /\ Slots = {"a", "b"}
  BY CoordinatorAssumption DEF Names, CoordinatorInv, CoordinatorTypeOK, Slots
<1>1. CASE /\ UNCHANGED used_boots
           /\ FromA' \subseteq FromA \cup {None, Torn}
           /\ FromB' \subseteq FromB \cup {None, Torn}
  BY <1>0, <1>1, CopiesKeepBootsApart
<1>2. CASE WorkerStep
  <2>1. CASE \E s \in Slots : FinishFrame(s) \/ KillWorker(s)
    <3>1. /\ UNCHANGED used_boots
          /\ FromA' \subseteq FromA \cup {None, Torn}
          /\ FromB' \subseteq FromB \cup {None, Torn}
      BY <1>0, <2>1 DEF FinishFrame, KillWorker, memory, FromA, FromB
    <3> QED
      BY <1>1, <3>1
  <2> QED
    BY <1>2, <2>1, StartKeepsBootsApart DEF WorkerStep, CoordinatorInv
<1>3. CASE Kill
  BY <1>3, ExitKeepsBootsApart DEF Kill
<1>4. CASE /\ ErrorExit /\ UNCHANGED state_file
           /\ tmp_file' \in {tmp_file, None}
  BY <1>4, ExitKeepsBootsApart DEF ErrorExit
<1>5. CASE \/ UNCHANGED cvars \/ \E m \in {"first", "restart"} : Launch(m)
           \/ FirstRegisterWorker \/ FirstPublish \/ FirstReport
           \/ RestartReplayA \/ RestartRegisterB \/ RestartRegisterA
           \/ RestartRepublish \/ RestartReport
  <2>1. UNCHANGED <<files, fa, fb, rec>> \/ UNCHANGED <<frames, writing,
           used_boots, state_file, tmp_file, fa, fb, rec>>
    BY <1>5 DEF cvars, memory, files, Launch, FirstRegisterWorker,
       FirstPublish, FirstReport, RestartReplayA, RestartRegisterB,
       RestartRegisterA, RestartRepublish, RestartReport
  <2> QED
    BY <1>1, <2>1 DEF files, FromA, FromB
<1>6. CASE FirstRegisterNic \/ RestartPlaceRecovered \/ RestartRevalidate
           \/ RestartLoadHistory
  <2>1. \/ UNCHANGED <<files, fa, fb, rec>>
        \/ ErrorExit /\ UNCHANGED <<state_file, tmp_file>>
    BY <1>6 DEF FirstRegisterNic, RestartPlaceRecovered, RestartRevalidate,
       RestartLoadHistory
  <2> QED
    BY <1>1, <1>4, <2>1 DEF files, FromA, FromB
<1>7. CASE FirstDecodeA \/ RestartDecodeA \/ RestartDecodeB \/ RestartRecover
  <2>1. \/ /\ UNCHANGED files
           /\ fa' \in {fa, Decoded("a")} /\ fb' \in {fb, Decoded("b")}
           /\ rec' \in {rec, state_file}
        \/ ErrorExit /\ UNCHANGED <<state_file, tmp_file>>
    BY <1>7 DEF FirstDecodeA, RestartDecodeA, RestartDecodeB, RestartRecover
  <2> QED
    BY <1>1, <1>4, <2>1 DEF files, Decoded, FromA, FromB
<1>8. CASE SaveOpen \/ SaveWrite \/ SaveRename
  <2>1. fa \in Frame
    BY <1>8, FirstFrame DEF SaveOpen, SaveWrite, SaveRename
  <2>2. \/ /\ UNCHANGED <<frames, writing, used_boots, fa, fb, rec>>
           /\ state_file' \in {state_file, tmp_file}
           /\ tmp_file' \in {tmp_file, None, Torn, ImageOf(fa)}
        \/ /\ ErrorExit /\ UNCHANGED state_file
           /\ tmp_file' \in {tmp_file, None}
    BY <1>8 DEF SaveOpen, SaveWrite, SaveRename
  <2>3. CASE /\ UNCHANGED <<frames, writing, used_boots, fa, fb, rec>>
             /\ state_file' \in {state_file, tmp_file}
             /\ tmp_file' \in {tmp_file, None, Torn, ImageOf(fa)}
    <3>1. ImageOf(fa).boot = fa.boot
      BY DEF ImageOf
    <3>2. /\ UNCHANGED used_boots
          /\ FromA' \subseteq FromA \cup {None, Torn, ImageOf(fa)}
          /\ FromB' \subseteq FromB \cup {None, Torn}
      BY <2>3 DEF FromA, FromB
    <3> QED
      BY <2>1, <3>1, <3>2, CopiesKeepBootsApart
  <2> QED
    BY <1>4, <2>2, <2>3
<1> QED
  BY <1>2, <1>3, <1>5, <1>6, <1>7, <1>8 DEF CoordinatorNext, CoordinatorStep

\* A restarted coordinator allows nothing before revalidation, and afterwards
\* only what it stored for an incarnation that registered in this process, is
\* not the persisted one, and published at a generation above the recovered
\* one (run_restart, read_nic, register_nic).
THEOREM AuthorityOnlyFromNewIncarnationHolds ==
    CoordinatorSpec => []AuthorityOnlyFromNewIncarnation
<1>1. CoordinatorInv /\ BootsApart => AuthorityOnlyFromNewIncarnation
  <2> SUFFICES ASSUME CoordinatorInv, BootsApart, mode = "restart"
               PROVE  /\ ~verdict.pre
                      /\ DecisionAllows =>
                            /\ fb.boot # rec.boot
                            /\ fb.generation > rec.generation
                            /\ nics[TheNic].generation = fb.generation
                            /\ publisher[TheNic] =
                                  [worker |-> fb.worker, boot |-> fb.boot,
                                   epoch |-> epoch]
    BY DEF AuthorityOnlyFromNewIncarnation
  <2>1. ~verdict.pre
    BY DEF CoordinatorInv, DownIsBlank, RestartPhase, NoVerdict
  <2>2. CASE pc = "down" \/ pc \in BeforeNic
    BY <2>1, <2>2, CoordinatorAssumption
    DEF CoordinatorInv, DownIsBlank, RestartPhase, NothingStored,
        DecisionAllows
  <2>3. CASE pc # "down" /\ pc \notin BeforeNic
    <3>1. fb \in Frame /\ rec \in Image /\ epoch = rec.epoch + 1
      BY <2>3, RestartFrame DEF BeforeB, BeforeNic
    <3>2. fb.boot # rec.boot
      BY <3>1 DEF BootsApart, FromA, FromB, Names
    <3> QED
      BY <2>1, <2>3, <3>1, <3>2
      DEF CoordinatorInv, RestartPhase, RecoveredOrRevalidated, RecoveredNic,
          DecodedNic, DecisionAllows
  <2> QED
    BY <2>2, <2>3
<1>2. CoordinatorInit => BootsApart
  BY CoordinatorAssumption
  DEF CoordinatorInit, BootsApart, FromA, FromB, Names, Slots
<1> QED
  BY <1>1, <1>2, InvHolds, BootsStep, PTL DEF CoordinatorSpec

-----------------------------------------------------------------------------
(* The coordinator implements AtomicStore                                  *)

\* The end of a process abandons its save, or forgets what it recovered: it
\* never has both to lose.
LEMMA StoreExit ==
    ASSUME CoordinatorInv, Exit, UNCHANGED state_file
    PROVE  Store!StoreNext
<1>1. Saving' = None /\ rec' = None
  BY DEF Exit, Saving
<1>2. CASE Saving = None
  BY <1>1, <1>2 DEF Store!StoreNext, Store!Forget
<1>3. CASE Saving # None
  <2>1. rec = None
    BY <1>3 DEF CoordinatorInv, FirstPhase, Saving
  <2> QED
    BY <1>1, <2>1 DEF Store!StoreNext, Store!Abandon
<1> QED
  BY <1>2, <1>3

\* Every step of the coordinator is a step of the store or leaves it alone.
LEMMA StoreStep ==
    CoordinatorInv /\ [CoordinatorNext]_cvars
        => [Store!StoreNext]_(Store!svars)
<1> SUFFICES ASSUME CoordinatorInv, [CoordinatorNext]_cvars
             PROVE  Store!StoreNext \/ UNCHANGED Store!svars
  OBVIOUS
<1> USE DEF At, Goto
<1>1. CASE WorkerStep
  BY <1>1 DEF WorkerStep, StartWorker, FinishFrame, KillWorker, memory,
     Saving, Store!svars
<1>2. CASE \E m \in {"first", "restart"} : Launch(m)
  BY <1>2 DEF Launch, files, Saving, Store!svars
<1>3. CASE Kill
  BY <1>3, StoreExit DEF Kill
<1>4. CASE ErrorExit /\ UNCHANGED state_file
  BY <1>4, StoreExit DEF ErrorExit
<1>5. CASE FirstDecodeA \/ FirstRegisterWorker \/ FirstRegisterNic
  BY <1>4, <1>5
  DEF FirstDecodeA, FirstRegisterWorker, FirstRegisterNic, files, Saving,
      Store!svars
<1>6. CASE FirstPublish
  <2>1. /\ Saving = None /\ Saving' = ImageOf(fa)
        /\ UNCHANGED <<state_file, rec>>
    BY <1>6 DEF FirstPublish, files, Saving, ImageOf
  <2>2. ImageOf(fa) \in Image
    BY <1>6, FirstFrame DEF FirstPublish
  <2> QED
    BY <2>1, <2>2 DEF Store!StoreNext, Store!BeginSave
<1>7. CASE SaveOpen \/ SaveWrite
  BY <1>4, <1>7 DEF SaveOpen, SaveWrite, Saving, ImageOf, Store!svars
<1>8. CASE SaveRename
  <2>1. CASE /\ state_file' = tmp_file
             /\ pc' = "report" /\ UNCHANGED <<mode, fa, rec>>
    <3>1. mode = "first" /\ pc = "rename_tmp"
      BY <1>8 DEF SaveRename
    <3>2. ImageOf(fa) \in Image /\ tmp_file = ImageOf(fa)
      BY <3>1, FirstFrame DEF CoordinatorInv, FirstPhase
    <3>3. Saving = ImageOf(fa) /\ Saving' = None
      BY <2>1, <3>1 DEF Saving
    <3> QED
      BY <2>1, <3>2, <3>3, CoordinatorAssumption
      DEF Store!StoreNext, Store!Commit
  <2> QED
    BY <1>4, <1>8, <2>1 DEF SaveRename
<1>9. CASE FirstReport \/ RestartDecodeA \/ RestartDecodeB \/ RestartReplayA
           \/ RestartRegisterB \/ RestartRegisterA \/ RestartPlaceRecovered
           \/ RestartRevalidate \/ RestartRepublish \/ RestartLoadHistory
           \/ RestartReport
  BY <1>4, <1>9
  DEF FirstReport, RestartDecodeA, RestartDecodeB, RestartReplayA,
      RestartRegisterB, RestartRegisterA, RestartPlaceRecovered,
      RestartRevalidate, RestartRepublish, RestartLoadHistory, RestartReport,
      files, Saving, Store!svars
<1>10. CASE RestartRecover
  <2>1. CASE Loadable
    <3>1. /\ state_file \in Image /\ rec' = state_file
          /\ UNCHANGED <<state_file, Saving>>
      BY <1>10, <2>1 DEF RestartRecover, Loadable, files, Saving
    <3> QED
      BY <3>1, CoordinatorAssumption DEF Store!StoreNext, Store!Read
  <2> QED
    BY <1>4, <1>10, <2>1 DEF RestartRecover
<1>11. CASE UNCHANGED cvars
  BY <1>11 DEF cvars, files, memory, Saving, ImageOf, Store!svars
<1> QED
  BY <1>1, <1>2, <1>3, <1>5, <1>6, <1>7, <1>8, <1>9, <1>10, <1>11
  DEF CoordinatorNext, CoordinatorStep

\* The temporary file, the checks of each write and the rename implement an
\* atomic cell: whatever fails or is killed, the state file changes only to
\* the image of the save in progress, and a restarted coordinator recovers a
\* committed image (PersistenceStore::save, load and recover).
THEOREM AtomicStoreImplemented == CoordinatorSpec => ImplementsAtomicStore
<1>1. CoordinatorInit => Store!StoreInit
  BY DEF CoordinatorInit, Saving, Store!StoreInit
<1> QED
  BY <1>1, InvHolds, StoreStep, PTL
  DEF CoordinatorSpec, ImplementsAtomicStore, Store!StoreSpec
=============================================================================
