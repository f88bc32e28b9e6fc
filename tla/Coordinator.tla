---------------------------- MODULE Coordinator ----------------------------
(***************************************************************************)
(* The coordinator process, its workers and their files                    *)
(* (src/tools/nic_residency_coordinator.cpp, nic_authority_worker.cpp,     *)
(* PersistenceStore::save, load and recover).                              *)
(*                                                                         *)
(* A coordinator is launched in one of two modes.  "first" ingests the     *)
(* frame of worker A into a fresh registry, persists it and serves.        *)
(* "restart" recovers the persisted state into a fresh registry of the     *)
(* next epoch, replays frame A, and lets worker A' (frame B) revalidate.   *)
(* Workers rewrite their frame files at any time, and any process may be   *)
(* killed between two steps.                                               *)
(*                                                                         *)
(* The registry of the running coordinator is the state of NicRegistry;    *)
(* its calls are that module's actions.  A call that throws ends the run   *)
(* with an ERROR report.  All workers publish the one NIC that             *)
(* nic_authority_worker hard-codes, so records differ only in generation.  *)
(* Processes die by kill, not by power loss: a completed write is durable. *)
(***************************************************************************)
EXTENDS NicRegistry

CONSTANTS
    TheNic,               \* NicId(0x1000)
    TheResidency,         \* ResidencyId(1)
    TheContent,
    FrameEpochs,          \* epochs workers are started with (argv[4])
    Torn,                 \* a file that was truncated and not yet rewritten
    Error                 \* a report with status=ERROR

VARIABLES
    frames,          \* the frame files of worker A and worker A'
    writing,         \* the frame a started worker is about to write
    used_boots,      \* boot ids drawn by fresh_boot_id so far
    state_file, tmp_file,         \* kState and kState.tmp
    first_report, restart_report, \* kFirstResult, kRestartResult
    pc, mode,
    fa, fb,          \* frames decoded by the running coordinator
    rec,             \* what recover() returned
    verdict,         \* the decisions the restart report is made of
    last_served      \* history: highest epoch a coordinator has served under

files == <<frames, writing, used_boots, state_file, tmp_file, first_report,
           restart_report>>
memory == <<pc, mode, fa, fb, rec, verdict>>
cvars == <<vars, files, memory, last_served>>

Slots == {"a", "b"}
Frame == [worker : Workers, boot : Boots, epoch : FrameEpochs,
          generation : Generations]
Image == [epoch : FrameEpochs, generation : Generations, boot : Boots]
Verdict == [pre : BOOLEAN, post : BOOLEAN, takeover_rejected : BOOLEAN]

FirstSteps == {"decode_a", "register_worker", "register_nic", "publish",
               "open_tmp", "write_tmp", "rename_tmp", "report"}
RestartSteps == {"recover", "replay_a_read", "decode_b", "replay_a",
                 "register_b", "register_a", "place_recovered",
                 "revalidate", "republish", "load_history", "report"}

ASSUME CoordinatorAssumption ==
    /\ TheNic \in Nics /\ TheResidency \in ResidencyIds
    /\ TheContent \in Contents
    /\ MaxGeneration >= 2     \* the generations run_restart publishes at
    /\ FrameEpochs \subseteq Nat
    /\ \A e \in FrameEpochs : e + 1 \in Epochs
    /\ {None, Torn, Error} \cap (Frame \cup Image \cup Verdict) = {}
    /\ None # Torn /\ None # Error

\* Every variable of the coordinator and its files has its type.
CoordinatorTypeOK ==
    /\ frames \in [Slots -> Frame \cup {None, Torn}]
    /\ writing \in [Slots -> Frame \cup {None}]
    /\ used_boots \subseteq Boots
    /\ state_file \in Image \cup {None, Torn}
    /\ tmp_file \in Image \cup {None, Torn}
    /\ first_report \in Image \cup {None, Error}
    /\ restart_report \in Verdict \cup {None, Error}
    /\ pc \in FirstSteps \cup RestartSteps \cup {"down", "serving"}
    /\ mode \in {"first", "restart"}
    /\ fa \in Frame \cup {None} /\ fb \in Frame \cup {None}
    /\ rec \in Image \cup {None}
    /\ verdict \in Verdict
    /\ last_served \in Nat

-----------------------------------------------------------------------------
(* Files and frames                                                        *)

\* try_decode: a frame decodes when its file holds it to the last byte.
TryDecode(file) == file \in Frame

\* decode_worker_frame: a missing file, and one cut short, decode to nothing.
Decoded(slot) == IF TryDecode(frames[slot]) THEN frames[slot] ELSE None

\* parse_publish_nic labels what it decodes AVAILABLE.
DecodedNic(f) == [generation |-> f.generation, content |-> TheContent,
                  lifecycle |-> "AVAILABLE"]

\* Mutant of RecoveredNic: the lifecycle is not reset.
RecoveredAsAvailable(img) ==
    [generation |-> img.generation, content |-> TheContent,
     lifecycle |-> "AVAILABLE"]

\* read_nic: what recover() makes of a persisted NIC.
RecoveredNic(img) == [generation |-> img.generation, content |-> TheContent,
                      lifecycle |-> "REVALIDATION_REQUIRED"]

\* Mutant of ImageOf: a field of the history record is not written.
ImageWithoutBoot(f) == [epoch |-> f.epoch, generation |-> f.generation]

ImageOf(f) == [epoch |-> f.epoch, generation |-> f.generation,
               boot |-> f.boot]

\* PersistenceStore::load succeeds on a whole image only: a partial one fails
\* the length or checksum test.
Loadable == state_file \in Image

NoVerdict == [pre |-> FALSE, post |-> FALSE, takeover_rejected |-> FALSE]

\* A registry constructed with epoch e.
NewRegistry(e) ==
    /\ epoch' = e
    /\ workers' = [w \in Workers |-> None]
    /\ worker_nics' = [w \in Workers |-> {}]
    /\ nics' = [n \in Nics |-> None]
    /\ functions' = [f \in Functions |-> None]
    /\ ports' = [p \in Ports |-> None]
    /\ queues' = [q \in Queues |-> None]
    /\ gpus' = [g \in Gpus |-> None]
    /\ attachments' = [a \in Attachments |-> None]
    /\ residencies' = <<>>
    /\ topology' = None
    /\ publisher' = [n \in Nics |-> None]

-----------------------------------------------------------------------------
(* Workers: nic_authority_worker, main                                     *)

StartWorker(slot, w, e, g) ==
    \E b \in Boots \ used_boots :
        /\ writing[slot] = None
        /\ used_boots' = used_boots \cup {b}
        /\ frames' = [frames EXCEPT ![slot] = Torn]
        /\ writing' = [writing EXCEPT ![slot] =
                          [worker |-> w, boot |-> b, epoch |-> e,
                           generation |-> g]]
        /\ UNCHANGED <<vars, memory, state_file, tmp_file, first_report,
                       restart_report, last_served>>

FinishFrame(slot) ==
    /\ writing[slot] # None
    /\ frames' = [frames EXCEPT ![slot] = writing[slot]]
    /\ writing' = [writing EXCEPT ![slot] = None]
    /\ UNCHANGED <<vars, memory, used_boots, state_file, tmp_file,
                   first_report, restart_report, last_served>>

KillWorker(slot) ==
    /\ writing[slot] # None
    /\ writing' = [writing EXCEPT ![slot] = None]
    /\ UNCHANGED <<vars, memory, frames, used_boots, state_file, tmp_file,
                   first_report, restart_report, last_served>>

-----------------------------------------------------------------------------
(* Process control                                                         *)

At(m, step) == mode = m /\ pc = step
Goto(step) == pc' = step /\ UNCHANGED mode

\* The process is gone, and its memory with it.
Exit ==
    /\ pc' = "down"
    /\ fa' = None /\ fb' = None /\ rec' = None /\ verdict' = NoVerdict
    /\ NewRegistry(1)
    /\ UNCHANGED <<mode, frames, writing, used_boots, last_served>>

\* An error report and a non-zero exit.
ErrorExit ==
    /\ Exit
    /\ IF mode = "first"
       THEN first_report' = Error /\ UNCHANGED restart_report
       ELSE restart_report' = Error /\ UNCHANGED first_report

Launch(m) ==
    /\ pc = "down"
    /\ mode' = m
    /\ pc' = IF m = "first" THEN "decode_a" ELSE "recover"
    /\ UNCHANGED <<vars, files, fa, fb, rec, verdict, last_served>>

Kill ==
    /\ pc # "down"
    /\ Exit
    /\ UNCHANGED <<state_file, tmp_file, first_report, restart_report>>

-----------------------------------------------------------------------------
(* Registry calls, and the decision                                        *)

\* register_nic returns normally: it stores the record, or the record is an
\* idempotent duplicate of the stored one.
AcceptsNic(e, w, b, nic) ==
    /\ EnsureAuthority(e, w, b)
    /\ BelowLimit(nics, kMaxNics)
    /\ NewerThan(nics, TheNic, nic) \/ (nics[TheNic] # None /\
          <<nic.generation, nic.content>> =
          <<nics[TheNic].generation, nics[TheNic].content>>)

\* The residency a frame's worker is given: rr in run_first, fresh in
\* run_restart.
ResidencyFor(f, g) ==
    [id |-> TheResidency, generation |-> g, nic |-> TheNic,
     function |-> None, port |-> None, queue |-> None,
     state |-> "RESIDENT", lifecycle |-> "RESIDENT",
     owner |-> [worker |-> f.worker, boot |-> f.boot]]

\* decide with the default policy, no GPU, and the NIC's own NUMA node as
\* target selects the one NIC unless hard_check rejects its lifecycle.
DecisionAllows ==
    /\ nics[TheNic] # None
    /\ nics[TheNic].lifecycle \notin {"REVALIDATION_REQUIRED", "DETACHED",
                                      "FAILED", "RETIRED", "DISCOVERED"}

-----------------------------------------------------------------------------
(* run_first                                                               *)

FirstDecodeA ==
    /\ At("first", "decode_a")
    /\ LET f == Decoded("a")
       IN  IF f = None \/ f.epoch = 0
           THEN ErrorExit /\ UNCHANGED <<state_file, tmp_file>>
           ELSE /\ fa' = f
                /\ NewRegistry(f.epoch)
                /\ Goto("register_worker")
                /\ UNCHANGED <<files, fb, rec, verdict, last_served>>

FirstRegisterWorker ==
    /\ At("first", "register_worker")
    /\ RegisterWorker(fa.worker, fa.boot)
    /\ Goto("register_nic")
    /\ UNCHANGED <<files, fa, fb, rec, verdict, last_served>>

FirstRegisterNic ==
    /\ At("first", "register_nic")
    /\ LET nic == DecodedNic(fa)
       IN  IF AcceptsNic(fa.epoch, fa.worker, fa.boot, nic)
           THEN /\ RegisterNic(fa.epoch, fa.worker, fa.boot, TheNic, nic)
                /\ Goto("publish")
                /\ UNCHANGED <<files, fa, fb, rec, verdict, last_served>>
           ELSE ErrorExit /\ UNCHANGED <<state_file, tmp_file>>

\* publish_residency, then the decision on a snapshot.
FirstPublish ==
    /\ At("first", "publish")
    /\ PublishResidency(fa.epoch, fa.worker, fa.boot, ResidencyFor(fa, 1))
    /\ Goto("open_tmp")
    /\ UNCHANGED <<files, fa, fb, rec, verdict, last_served>>

\* save, in three steps that may each fail: open and truncate the temporary
\* file, write it, rename it over the state file.
SaveOpen ==
    /\ At("first", "open_tmp")
    /\ \/ /\ tmp_file' = Torn
          /\ Goto("write_tmp")
          /\ UNCHANGED <<vars, frames, writing, used_boots, state_file,
                         first_report, restart_report, fa, fb, rec, verdict,
                         last_served>>
       \/ ErrorExit /\ UNCHANGED <<state_file, tmp_file>>

\* Mutant of SaveWrite: a failed write is not noticed.
SaveWriteUnchecked ==
    /\ At("first", "write_tmp")
    /\ tmp_file' \in {ImageOf(fa), Torn}
    /\ Goto("rename_tmp")
    /\ UNCHANGED <<vars, frames, writing, used_boots, state_file, first_report,
                   restart_report, fa, fb, rec, verdict, last_served>>

SaveWrite ==
    /\ At("first", "write_tmp")
    /\ \/ /\ tmp_file' = ImageOf(fa)
          /\ Goto("rename_tmp")
          /\ UNCHANGED <<vars, frames, writing, used_boots, state_file,
                         first_report, restart_report, fa, fb, rec, verdict,
                         last_served>>
       \/ ErrorExit /\ UNCHANGED <<state_file, tmp_file>>

\* Mutant of SaveRename: a failed rename is not noticed.
SaveRenameUnchecked ==
    /\ At("first", "rename_tmp")
    /\ state_file' \in {state_file, tmp_file}
    /\ tmp_file' = None
    /\ Goto("report")
    /\ UNCHANGED <<vars, frames, writing, used_boots, first_report,
                   restart_report, fa, fb, rec, verdict, last_served>>

SaveRename ==
    /\ At("first", "rename_tmp")
    /\ \/ /\ state_file' = tmp_file
          /\ tmp_file' = None
          /\ Goto("report")
          /\ UNCHANGED <<vars, frames, writing, used_boots, first_report,
                         restart_report, fa, fb, rec, verdict, last_served>>
       \/ ErrorExit /\ tmp_file' = None /\ UNCHANGED state_file

FirstReport ==
    /\ At("first", "report")
    /\ first_report' = ImageOf(fa)
    /\ Goto("serving")
    /\ last_served' = IF epoch > last_served THEN epoch ELSE last_served
    /\ UNCHANGED <<vars, frames, writing, used_boots, state_file, tmp_file,
                   restart_report, fa, fb, rec, verdict>>

-----------------------------------------------------------------------------
(* run_restart                                                             *)

RestartRecover ==
    /\ At("restart", "recover")
    /\ IF Loadable
       THEN /\ rec' = state_file
            /\ Goto("replay_a_read")
            /\ UNCHANGED <<vars, files, fa, fb, verdict, last_served>>
       ELSE ErrorExit /\ UNCHANGED <<state_file, tmp_file>>

\* A frame A that does not decode is tolerated.
RestartDecodeA ==
    /\ At("restart", "replay_a_read")
    /\ fa' = Decoded("a")
    /\ Goto("decode_b")
    /\ UNCHANGED <<vars, files, fb, rec, verdict, last_served>>

\* Mutant of RestartDecodeB: waits for the frame instead of giving up.
RestartAwaitB ==
    /\ At("restart", "decode_b")
    /\ Decoded("b") # None
    /\ fb' = Decoded("b")
    /\ NewRegistry(rec.epoch + 1)
    /\ Goto("replay_a")
    /\ UNCHANGED <<files, fa, rec, verdict, last_served>>

\* Frame B is required.  The registry is constructed with the next epoch.
RestartDecodeB ==
    /\ At("restart", "decode_b")
    /\ IF Decoded("b") = None
       THEN ErrorExit /\ UNCHANGED <<state_file, tmp_file>>
       ELSE /\ fb' = Decoded("b")
            /\ NewRegistry(rec.epoch + 1)
            /\ Goto("replay_a")
            /\ UNCHANGED <<files, fa, rec, verdict, last_served>>

\* The replayed registration of frame A; a rejection is caught.
RestartReplayA ==
    /\ At("restart", "replay_a")
    /\ IF fa # None /\ EnsureAuthority(fa.epoch, fa.worker, fa.boot)
       THEN RegisterNic(fa.epoch, fa.worker, fa.boot, TheNic, DecodedNic(fa))
       ELSE UNCHANGED vars
    /\ Goto("register_b")
    /\ UNCHANGED <<files, fa, fb, rec, verdict, last_served>>

RestartRegisterB ==
    /\ At("restart", "register_b")
    /\ RegisterWorker(fb.worker, fb.boot)
    /\ Goto("register_a")
    /\ UNCHANGED <<files, fa, fb, rec, verdict, last_served>>

\* Mutant of RestartRegisterA: the last registration of a worker id wins.
RestartTakeover ==
    /\ At("restart", "register_a")
    /\ workers' = IF fa = None THEN workers
                  ELSE [workers EXCEPT ![fa.worker] = fa.boot]
    /\ Goto("place_recovered")
    /\ UNCHANGED <<epoch, worker_nics, nics, functions, ports, queues, gpus,
                   attachments, residencies, topology, publisher, files, fa,
                   fb, rec, verdict, last_served>>

\* The attempted takeover by the boot of frame A; a conflict is caught.
\* Without a frame A the call registers the null worker, which no later call
\* names.
RestartRegisterA ==
    /\ At("restart", "register_a")
    /\ IF fa = None
       THEN UNCHANGED <<vars, verdict>>
       ELSE IF workers[fa.worker] \in {None, fa.boot}
            THEN RegisterWorker(fa.worker, fa.boot) /\ UNCHANGED verdict
            ELSE /\ verdict' = [verdict EXCEPT !.takeover_rejected = TRUE]
                 /\ UNCHANGED vars
    /\ Goto("place_recovered")
    /\ UNCHANGED <<files, fa, fb, rec, last_served>>

\* register_nic of the recovered record under the new epoch.
RestartPlaceRecovered ==
    /\ At("restart", "place_recovered")
    /\ IF AcceptsNic(epoch, fb.worker, fb.boot, RecoveredNic(rec))
       THEN /\ RegisterNic(epoch, fb.worker, fb.boot, TheNic,
                           RecoveredNic(rec))
            /\ Goto("revalidate")
            /\ UNCHANGED <<files, fa, fb, rec, verdict, last_served>>
       ELSE ErrorExit /\ UNCHANGED <<state_file, tmp_file>>

\* The decision before revalidation, then register_nic of frame B's record
\* under the new epoch, whatever epoch the frame carries.
RestartRevalidate ==
    /\ At("restart", "revalidate")
    /\ IF AcceptsNic(epoch, fb.worker, fb.boot, DecodedNic(fb))
       THEN /\ verdict' = [verdict EXCEPT !.pre = DecisionAllows]
            /\ RegisterNic(epoch, fb.worker, fb.boot, TheNic, DecodedNic(fb))
            /\ Goto("republish")
            /\ UNCHANGED <<files, fa, fb, rec, last_served>>
       ELSE ErrorExit /\ UNCHANGED <<state_file, tmp_file>>

\* publish_residency at generation 2, then the decision after revalidation.
RestartRepublish ==
    /\ At("restart", "republish")
    /\ PublishResidency(epoch, fb.worker, fb.boot, ResidencyFor(fb, 2))
    /\ verdict' = [verdict EXCEPT !.post = DecisionAllows]
    /\ Goto("load_history")
    /\ UNCHANGED <<files, fa, fb, rec, last_served>>

\* A second load, for the history.
RestartLoadHistory ==
    /\ At("restart", "load_history")
    /\ IF Loadable
       THEN /\ Goto("report")
            /\ UNCHANGED <<vars, files, fa, fb, rec, verdict, last_served>>
       ELSE ErrorExit /\ UNCHANGED <<state_file, tmp_file>>

RestartReport ==
    /\ At("restart", "report")
    /\ restart_report' = verdict
    /\ Goto("serving")
    /\ last_served' = IF epoch > last_served THEN epoch ELSE last_served
    /\ UNCHANGED <<vars, frames, writing, used_boots, state_file, tmp_file,
                   first_report, fa, fb, rec, verdict>>

-----------------------------------------------------------------------------
CoordinatorInit ==
    /\ Init
    /\ epoch = 1
    /\ frames = [s \in Slots |-> None]
    /\ writing = [s \in Slots |-> None]
    /\ used_boots = {}
    /\ state_file = None /\ tmp_file = None
    /\ first_report = None /\ restart_report = None
    /\ pc = "down" /\ mode = "first"
    /\ fa = None /\ fb = None /\ rec = None /\ verdict = NoVerdict
    /\ last_served = 0

WorkerStep ==
    \E s \in Slots :
        \/ \E w \in Workers, e \in FrameEpochs, g \in Generations :
              StartWorker(s, w, e, g)
        \/ FinishFrame(s)
        \/ KillWorker(s)

CoordinatorStep ==
    \/ FirstDecodeA \/ FirstRegisterWorker \/ FirstRegisterNic
    \/ FirstPublish \/ SaveOpen \/ SaveWrite \/ SaveRename \/ FirstReport
    \/ RestartRecover \/ RestartDecodeA \/ RestartDecodeB \/ RestartReplayA
    \/ RestartRegisterB \/ RestartRegisterA \/ RestartPlaceRecovered
    \/ RestartRevalidate \/ RestartRepublish \/ RestartLoadHistory
    \/ RestartReport

CoordinatorNext ==
    \/ WorkerStep
    \/ CoordinatorStep
    \/ \E m \in {"first", "restart"} : Launch(m)
    \/ Kill

\* A launched process is scheduled: nothing in it waits before it serves.
CoordinatorSpec ==
    CoordinatorInit /\ [][CoordinatorNext]_cvars /\ WF_cvars(CoordinatorStep)
-----------------------------------------------------------------------------
(* Properties                                                              *)

\* Whatever is killed, and whichever step of a save fails, the state file is
\* missing or a whole image, and once a coordinator has reported
\* "persisted=1" there is an image to recover (PersistenceStore::save: never
\* leaves a partial file at path_).
SavedStateIsWhole ==
    /\ state_file # Torn
    /\ first_report \in Image => state_file \in Image

\* A coordinator that serves in its first epoch has persisted exactly what it
\* serves: the epoch of its registry, the generation of its NIC record and
\* the boot of the worker it registered (run_first saves before it reports).
ServesWhatItPersisted ==
    At("first", "serving") =>
        /\ state_file = first_report
        /\ state_file.epoch = epoch
        /\ state_file.generation = nics[TheNic].generation
        /\ workers[fa.worker] = state_file.boot

\* After a restart nothing is eligible on the recovered record or on the
\* replayed frame A: the decision before revalidation allows nothing, and what
\* a later one allows was stored for another incarnation than the persisted
\* one, registered in this process, at a generation above the recovered one.
\* The epoch is the coordinator's own: it stamps frame B with it whatever epoch
\* the frame carries, which run_restart never compares.
AuthorityOnlyFromNewIncarnation ==
    mode = "restart" =>
        /\ ~verdict.pre
        /\ DecisionAllows =>
              /\ fb.boot # rec.boot
              /\ fb.generation > rec.generation
              /\ nics[TheNic].generation = fb.generation
              /\ publisher[TheNic] = [worker |-> fb.worker, boot |-> fb.boot,
                                      epoch |-> epoch]

\* From the takeover attempt on, worker A' keeps the worker id it registered:
\* the boot of frame A does not take it over, the verdict says so exactly when
\* it tried, and every binding of the restarted coordinator belongs to A'.
OldBootIsFenced ==
    mode = "restart" /\ pc \in {"place_recovered", "revalidate", "republish",
                                "load_history", "report", "serving"} =>
        /\ workers[fb.worker] = fb.boot
        /\ fa # None => (verdict.takeover_rejected <=>
                            fa.worker = fb.worker /\ fa.boot # fb.boot)
        /\ \A i \in DOMAIN residencies :
              residencies[i].owner = [worker |-> fb.worker, boot |-> fb.boot]

\* A launched coordinator does not hang: it serves, reports an error and
\* exits, or is killed, whatever the workers write meanwhile.
LaunchSettles == (pc # "down") ~> (pc \in {"serving", "down"})

\* The image a coordinator is about to install, from the moment it calls save.
Saving == IF mode = "first" /\ pc \in {"open_tmp", "write_tmp", "rename_tmp"}
          THEN ImageOf(fa) ELSE None

Store == INSTANCE AtomicStore WITH Images <- Image, Absent <- None,
                                   stored <- state_file, saving <- Saving,
                                   read <- rec

\* The temporary file, the checks of each write and the rename implement
\* AtomicStore: whatever fails or is killed, and whatever an earlier save left
\* behind in the temporary file, the state file changes only to the image of
\* the save in progress, and a coordinator recovers a committed image
\* (PersistenceStore: "Serialize (with integrity) and atomically replace the
\* file").
ImplementsAtomicStore == Store!StoreSpec
=============================================================================
