------------------------------ MODULE PatchAgent ------------------------------
(***************************************************************************)
(* The branch side of a patch deployment: PatchService.ApplyPatchAsync and *)
(* the helpers it calls (src/SFTPService/Service/PatchService.cs), started *)
(* by Worker for every PATCH/Application message in a task of its own      *)
(* (src/SFTPService/Worker.cs), on a machine that can lose power and under *)
(* a Windows service that can be stopped at any point of the pipeline.     *)
(*                                                                         *)
(* One value of Deployments is one request delivered to the branch, so one *)
(* run of ApplyPatchAsync; pc[d] is the point it has reached.  Everything  *)
(* else is shared by the deployments of the branch: the application        *)
(* folder, the update folder, the downloaded archives, the application     *)
(* processes, the restart script, and the service process itself.          *)
(*                                                                         *)
(* A folder is a function from file names to the version of the file in    *)
(* it.  Copies go file by file, as in the code, so that an interruption or *)
(* another deployment can come between two files.                          *)
(***************************************************************************)
EXTENDS Naturals, Sequences

CONSTANTS
  Deployments,      \* the requests the server sends to this branch
  Patches,          \* patch identifiers (PId)
  PatchOf,          \* the patch each deployment is for
  Files,            \* relative paths that can occur in the application folder
  Contents,         \* the files in the archive of each patch
  Checked,          \* the deployments whose request carries a checksum
  InstalledFiles,   \* what the application folder holds at first
  AppFile,          \* MainAppName, the file StartApplication and Verify look for
  MaxBackupsToKeep, \* Patch.ApplicationPatch.MaxBackupsToKeep
  Overlap,          \* may a request arrive while another one is being applied
  Absent,           \* no such file
  Base,             \* the version of a file before any patch
  Corrupt,          \* a file cut short, or taken from a damaged archive
  NoBackup,         \* no backup folder
  None              \* no deployment

Versions == Patches \cup {Absent, Base, Corrupt}
Folders  == [Files -> Versions]

ASSUME PatchAgentAssumption ==
  /\ PatchOf \in [Deployments -> Patches]
  /\ Contents \in [Patches -> SUBSET Files]
  /\ Checked \subseteq Deployments
  /\ InstalledFiles \subseteq Files
  /\ AppFile \in Files
  /\ MaxBackupsToKeep \in Nat
  /\ Overlap \in BOOLEAN
  /\ Absent \notin Patches \cup {Base, Corrupt}
  /\ Corrupt \notin Patches
  /\ NoBackup \notin Folders
  /\ None \notin Deployments

VARIABLES
  pc,        \* where each run of ApplyPatchAsync stands
  todo,      \* the files the loop a deployment is in has still to treat
  zip,       \* downloads/patch_<PId>.zip, per patch
  update,    \* the folder _updateRoot
  app,       \* the folder _appFolder
  backup,    \* the folder Backup_<timestamp> of each deployment
  kept,      \* the deployments that have a backup folder, newest first
  running,   \* the application processes that are running
  restart,   \* has a restart script been launched
  service,   \* the service process: up, disconnected, cancelled or down
  published, \* the verdicts and download reports the broker accepted
  current,   \* history: the deployment received last
  before,    \* history: the application folder when it was received
  restored   \* history: has its rollback copied the whole backup

disk    == <<zip, update, app, backup, kept>>
history == <<current, before, restored>>
vars    == <<pc, todo, disk, running, restart, service, published, history>>

Processes == {"main", "second"}

Statuses == {"SUCCESS", "FAILED", "ROLLBACK"}
Steps    == {"DOWNLOAD", "VALIDATE", "EXTRACT", "STOP_APP", "BACKUP", "COMPLETE", "ERROR"}
Messages == [dep : Deployments, status : Statuses, step : Steps]

(***************************************************************************)
(* Ended deployments; one that is not idle and has not ended is in flight. *)
(***************************************************************************)
Loops  == {"extract", "backup", "update", "rb_delete", "rb_copy"}
Delays == {"failed_delay", "success_delay", "rollback_delay"}
Ended  == {"done", "interrupted"}
Active == {"download", "validate", "clean", "stop_main", "stop_second", "backup_start",
           "update_start", "start_app", "verify", "cleanup", "complete",
           "rb_start", "rb_report"} \cup Loops \cup Delays

InFlight(d) == pc[d] \in Active

Empty           == [f \in Files |-> Absent]
Present(folder) == {f \in Files : folder[f] # Absent}

Init ==
  /\ pc = [d \in Deployments |-> "idle"]
  /\ todo = [d \in Deployments |-> {}]
  /\ zip = [p \in Patches |-> "absent"]
  /\ update = Empty
  /\ app = [f \in Files |-> IF f \in InstalledFiles THEN Base ELSE Absent]
  /\ backup = [d \in Deployments |-> NoBackup]
  /\ kept = <<>>
  /\ running = Processes
  /\ restart = FALSE
  /\ service = "up"
  /\ published = {}
  /\ current = None
  /\ before = Empty
  /\ restored = FALSE

-----------------------------------------------------------------------------
(***************************************************************************)
(* PublishStatusAsync over MQTTHelper.PublishAsync.  A publication is lost *)
(* without an error when the client is not connected or the send times     *)
(* out, and it cannot be sent once the service has disconnected or its     *)
(* token is cancelled.  IN_PROGRESS reports are left out: nothing on this  *)
(* side depends on them.  The others are published with the retain flag.   *)
(***************************************************************************)
PublishIgnoringToken(d, status, step) ==
  \/ published' = published \cup {[dep |-> d, status |-> status, step |-> step]}
  \/ UNCHANGED published

Publish(d, status, step) ==
  \/ /\ service = "up"
     /\ published' = published \cup {[dep |-> d, status |-> status, step |-> step]}
  \/ UNCHANGED published

Goto(d, from, to) ==
  /\ pc[d] = from
  /\ pc' = [pc EXCEPT ![d] = to]

(***************************************************************************)
(* "Publish FAILED, wait a second, return false", the way out of every     *)
(* phase before the application folder is touched.                         *)
(***************************************************************************)
Fail(d, from, step) ==
  /\ Goto(d, from, "failed_delay")
  /\ Publish(d, "FAILED", step)

(***************************************************************************)
(* One file less to treat in the loop d is in.                             *)
(***************************************************************************)
Treat(d, phase, f) ==
  /\ pc[d] = phase
  /\ f \in todo[d]
  /\ todo' = [todo EXCEPT ![d] = @ \ {f}]
  /\ UNCHANGED pc

-----------------------------------------------------------------------------
(***************************************************************************)
(* A request is delivered and its task starts.  Nothing in Worker keeps    *)
(* two tasks apart; Overlap = FALSE describes a server that waits.         *)
(***************************************************************************)
Receive(d) ==
  /\ service = "up"
  /\ Overlap \/ \A e \in Deployments : ~InFlight(e)
  /\ Goto(d, "idle", "download")
  /\ current' = d
  /\ before' = app
  /\ restored' = FALSE
  /\ UNCHANGED <<todo, disk, running, restart, service, published>>

(***************************************************************************)
(* SftpFileService.DownloadFileAsync into patch_<PId>.zip: a local file of *)
(* the remote length is taken as already downloaded, whatever its bytes; a *)
(* shorter one is resumed.  A missing remote file and a stream that ends   *)
(* early both return normally.                                             *)
(***************************************************************************)
Downloaded(z) == IF z \in {"good", "bad"} THEN {z} ELSE {z, "partial", "bad", "good"}

DownloadOk(d) ==
  /\ service # "cancelled"
  /\ Goto(d, "download", "validate")
  /\ \E z \in Downloaded(zip[PatchOf[d]]) : zip' = [zip EXCEPT ![PatchOf[d]] = z]
  /\ Publish(d, "SUCCESS", "DOWNLOAD")
  /\ UNCHANGED <<todo, update, app, backup, kept, running, restart, service, history>>

DownloadFails(d) ==
  /\ Fail(d, "download", "DOWNLOAD")
  /\ \E z \in Downloaded(zip[PatchOf[d]]) : zip' = [zip EXCEPT ![PatchOf[d]] = z]
  /\ UNCHANGED <<todo, update, app, backup, kept, running, restart, service, history>>

(***************************************************************************)
(* ValidateChecksumAsync: a blank checksum is accepted.                    *)
(***************************************************************************)
ValidateAnything(d) ==
  /\ Goto(d, "validate", "clean")
  /\ UNCHANGED <<todo, disk, running, restart, service, published, history>>

ValidateOk(d) ==
  /\ d \in Checked => zip[PatchOf[d]] = "good"
  /\ Goto(d, "validate", "clean")
  /\ UNCHANGED <<todo, disk, running, restart, service, published, history>>

ValidateFails(d) ==
  /\ d \in Checked
  /\ Fail(d, "validate", "VALIDATE")
  /\ UNCHANGED <<todo, disk, running, restart, service, history>>

(***************************************************************************)
(* ExtractPatchAsync: empty the shared update folder, then extract without *)
(* overwriting.  A file that is already there, an archive that is missing  *)
(* or incomplete, or an archive with no file in it makes it fail.  So does *)
(* a file that cannot be deleted, with some of the others deleted already. *)
(***************************************************************************)
Clean(d) ==
  /\ service # "cancelled"
  /\ Goto(d, "clean", "extract")
  /\ update' = Empty
  /\ todo' = [todo EXCEPT ![d] = Contents[PatchOf[d]]]
  /\ UNCHANGED <<zip, app, backup, kept, running, restart, service, published, history>>

ExtractFile(d, f) ==
  /\ Treat(d, "extract", f)
  /\ zip[PatchOf[d]] \in {"good", "bad"}
  /\ update[f] = Absent
  /\ update' = [update EXCEPT ![f] = IF zip[PatchOf[d]] = "good" THEN PatchOf[d] ELSE Corrupt]
  /\ UNCHANGED <<zip, app, backup, kept, running, restart, service, published, history>>

ExtractOk(d) ==
  /\ todo[d] = {}
  /\ Present(update) # {}
  /\ Goto(d, "extract", "stop_main")
  /\ UNCHANGED <<todo, disk, running, restart, service, published, history>>

ExtractFailsOnlyCleaning(d) ==
  /\ Fail(d, "clean", "EXTRACT")
  /\ UNCHANGED <<todo, disk, running, restart, service, history>>

ExtractFails(d) ==
  /\ \E from \in {"clean", "extract"} : Fail(d, from, "EXTRACT")
  /\ \E left \in SUBSET Files :
       update' = [f \in Files |-> IF f \in left THEN update[f] ELSE Absent]
  /\ todo' = [todo EXCEPT ![d] = {}]
  /\ UNCHANGED <<zip, app, backup, kept, running, restart, service, history>>

(***************************************************************************)
(* StopApplicationAsync for the main, then for the second application:     *)
(* kill, wait, and look whether a process of that name is left.            *)
(***************************************************************************)
StopOk(d) ==
  /\ \/ Goto(d, "stop_main", "stop_second") /\ running' = running \ {"main"}
     \/ Goto(d, "stop_second", "backup_start") /\ running' = running \ {"second"}
  /\ UNCHANGED <<todo, disk, restart, service, published, history>>

StopFails(d) ==
  /\ \E from \in {"stop_main", "stop_second"} : Fail(d, from, "STOP_APP")
  /\ UNCHANGED <<todo, disk, running, restart, service, history>>

(***************************************************************************)
(* CreateBackupAsync: a new folder, then CopyDirectoryAsync file by file   *)
(* over the files listed when it starts; a listed file that is gone, an    *)
(* I/O error or a cancelled token makes it return null.                    *)
(***************************************************************************)
BackupStart(d) ==
  /\ Goto(d, "backup_start", "backup")
  /\ backup' = [backup EXCEPT ![d] = Empty]
  /\ kept' = <<d>> \o kept
  /\ todo' = [todo EXCEPT ![d] = Present(app)]
  /\ UNCHANGED <<zip, update, app, running, restart, service, published, history>>

BackupFile(d, f) ==
  /\ service # "cancelled"
  /\ Treat(d, "backup", f)
  /\ app[f] # Absent
  /\ backup[d] # NoBackup
  /\ backup' = [backup EXCEPT ![d][f] = app[f]]
  /\ UNCHANGED <<zip, update, app, kept, running, restart, service, published, history>>

BackupWhatCanBeRead(d) ==
  /\ Goto(d, "backup", "update_start")
  /\ todo' = [todo EXCEPT ![d] = {}]
  /\ UNCHANGED <<disk, running, restart, service, published, history>>

BackupOk(d) ==
  /\ todo[d] = {}
  /\ Goto(d, "backup", "update_start")
  /\ UNCHANGED <<todo, disk, running, restart, service, published, history>>

BackupFails(d) ==
  /\ \E from \in {"backup_start", "backup"} : Fail(d, from, "BACKUP")
  /\ todo' = [todo EXCEPT ![d] = {}]
  /\ UNCHANGED <<disk, running, restart, service, history>>

-----------------------------------------------------------------------------
(***************************************************************************)
(* ApplyUpdateAsync: list the update folder, then overwrite the files of   *)
(* the application folder one by one.  A failure, which the cancelled      *)
(* token also is, leads to the rollback; a copy that fails half-way may    *)
(* leave a damaged file behind.  (So does one that power loss cuts short:  *)
(* a failure, then the loss of power, reaches the same folders.)           *)
(***************************************************************************)
UpdateStart(d) ==
  /\ Goto(d, "update_start", "update")
  /\ todo' = [todo EXCEPT ![d] = Present(update)]
  /\ UNCHANGED <<disk, running, restart, service, published, history>>

UpdateFile(d, f) ==
  /\ service # "cancelled"
  /\ Treat(d, "update", f)
  /\ update[f] # Absent
  /\ app' = [app EXCEPT ![f] = update[f]]
  /\ UNCHANGED <<zip, update, backup, kept, running, restart, service, published, history>>

UpdateOk(d) ==
  /\ todo[d] = {}
  /\ Goto(d, "update", "start_app")
  /\ UNCHANGED <<todo, disk, running, restart, service, published, history>>

UpdateFailsLikeOthers(d) ==
  /\ Goto(d, "update", "failed_delay")
  /\ Publish(d, "FAILED", "BACKUP")
  /\ todo' = [todo EXCEPT ![d] = {}]
  /\ UNCHANGED <<disk, running, restart, service, history>>

UpdateFails(d) ==
  /\ Goto(d, "update", "rb_start")
  /\ \/ UNCHANGED app
     \/ \E f \in todo[d] : app' = [app EXCEPT ![f] = Corrupt]
  /\ todo' = [todo EXCEPT ![d] = {}]
  /\ UNCHANGED <<zip, update, backup, kept, running, restart, service, published, history>>

(***************************************************************************)
(* StartApplicationAsync, then VerifyApplicationAsync: both only look      *)
(* whether the main application file exists.                               *)
(***************************************************************************)
CheckAppFile(d) ==
  /\ \/ Goto(d, "start_app", IF app[AppFile] # Absent THEN "verify" ELSE "rb_start")
     \/ Goto(d, "verify", IF app[AppFile] # Absent THEN "cleanup" ELSE "rb_start")
  /\ UNCHANGED <<todo, disk, running, restart, service, published, history>>

(***************************************************************************)
(* CleanupAsync: delete the archive, keep the newest backups.  It swallows *)
(* every exception, so it may also stop at either point.                   *)
(***************************************************************************)
Prune ==
  LET stay == SubSeq(kept, 1, IF Len(kept) < MaxBackupsToKeep THEN Len(kept) ELSE MaxBackupsToKeep)
  IN /\ kept' = stay
     /\ backup' = [e \in Deployments |->
                     IF \E i \in DOMAIN stay : stay[i] = e THEN backup[e] ELSE NoBackup]

Cleanup(d) ==
  /\ Goto(d, "cleanup", "complete")
  /\ \/ UNCHANGED <<zip, backup, kept>>
     \/ /\ zip' = [zip EXCEPT ![PatchOf[d]] = "absent"]
        /\ Prune \/ UNCHANGED <<backup, kept>>
  /\ UNCHANGED <<todo, update, app, running, restart, service, published, history>>

(***************************************************************************)
(* SUCCESS is reported before the restart is scheduled.                    *)
(***************************************************************************)
CompleteInProgress(d) ==
  /\ Goto(d, "complete", "success_delay")
  /\ Publish(d, "IN_PROGRESS", "COMPLETE")
  /\ UNCHANGED <<todo, disk, running, restart, service, history>>

Complete(d) ==
  /\ Goto(d, "complete", "success_delay")
  /\ Publish(d, "SUCCESS", "COMPLETE")
  /\ UNCHANGED <<todo, disk, running, restart, service, history>>

-----------------------------------------------------------------------------
(***************************************************************************)
(* RollbackAsync: stop the applications again (the answers are not used),  *)
(* delete every file of the application folder, copy the backup over it    *)
(* and launch a script that stops the service and reboots.  Every          *)
(* exception, the one of a cancelled token included, is swallowed, and     *)
(* "Rollback completed" is reported in all cases.                          *)
(***************************************************************************)
RollbackWithoutDeleting(d) ==
  /\ backup[d] # NoBackup
  /\ Goto(d, "rb_start", "rb_copy")
  /\ running' \in SUBSET running
  /\ todo' = [todo EXCEPT ![d] = Present(backup[d])]
  /\ UNCHANGED <<disk, restart, service, published, history>>

RollbackStart(d) ==
  /\ backup[d] # NoBackup
  /\ Goto(d, "rb_start", "rb_delete")
  /\ running' \in SUBSET running
  /\ todo' = [todo EXCEPT ![d] = Present(app)]
  /\ UNCHANGED <<disk, restart, service, published, history>>

RollbackDeleteFile(d, f) ==
  /\ Treat(d, "rb_delete", f)
  /\ app' = [app EXCEPT ![f] = Absent]
  /\ UNCHANGED <<zip, update, backup, kept, running, restart, service, published, history>>

RollbackDeleted(d) ==
  /\ backup[d] # NoBackup
  /\ todo[d] = {}
  /\ Goto(d, "rb_delete", "rb_copy")
  /\ todo' = [todo EXCEPT ![d] = Present(backup[d])]
  /\ UNCHANGED <<disk, running, restart, service, published, history>>

RollbackCopyFile(d, f) ==
  /\ service # "cancelled"
  /\ Treat(d, "rb_copy", f)
  /\ backup[d] # NoBackup
  /\ app' = [app EXCEPT ![f] = backup[d][f]]
  /\ UNCHANGED <<zip, update, backup, kept, running, restart, service, published, history>>

RollbackOk(d) ==
  /\ todo[d] = {}
  /\ Goto(d, "rb_copy", "rb_report")
  /\ restored' = TRUE
  /\ restart' \in {restart, TRUE}
  /\ UNCHANGED <<todo, disk, running, service, published, current, before>>

RollbackGivesUp(d) ==
  /\ \E from \in {"rb_start", "rb_delete", "rb_copy"} : Goto(d, from, "rb_report")
  /\ \/ UNCHANGED app
     \/ pc[d] = "rb_copy" /\ \E f \in todo[d] : app' = [app EXCEPT ![f] = Corrupt]
  /\ todo' = [todo EXCEPT ![d] = {}]
  /\ UNCHANGED <<zip, update, backup, kept, running, restart, service, published, history>>

ReportRollback(d) ==
  /\ Goto(d, "rb_report", "rollback_delay")
  /\ Publish(d, "ROLLBACK", "COMPLETE")
  /\ UNCHANGED <<todo, disk, running, restart, service, history>>

-----------------------------------------------------------------------------
(***************************************************************************)
(* After a failure the task waits and returns; after SUCCESS and ROLLBACK  *)
(* it waits and launches the restart script (ScheduleSystemRestartAsync,   *)
(* which swallows a failure to launch it).                                 *)
(***************************************************************************)
Return(d) ==
  /\ Goto(d, "failed_delay", "done")
  /\ UNCHANGED <<todo, disk, running, restart, service, published, history>>

ScheduleRestart(d) ==
  /\ service # "cancelled"
  /\ \E from \in {"success_delay", "rollback_delay"} : Goto(d, from, "done")
  /\ restart' \in {restart, TRUE}
  /\ UNCHANGED <<todo, disk, running, service, published, history>>

(***************************************************************************)
(* Task.Delay throws when the token is cancelled, and only then does the   *)
(* outer catch run: it reports FAILED/ERROR, and its own Task.Delay on the *)
(* same token throws before the rollback written there.                    *)
(***************************************************************************)
Throw(d) ==
  /\ service = "cancelled"
  /\ \E from \in Delays : Goto(d, from, "done")
  /\ Publish(d, "FAILED", "ERROR")
  /\ UNCHANGED <<todo, disk, running, restart, service, history>>

-----------------------------------------------------------------------------
(***************************************************************************)
(* The service process.  Worker.StopAsync disconnects MQTT, then cancels   *)
(* the token; the tasks of the deployments are not awaited, so they run on *)
(* until the process exits.  The script stops the service in the same way  *)
(* before it reboots the machine; so may an administrator or Windows.      *)
(***************************************************************************)
StopServiceHalfway ==
  /\ service = "up"
  /\ service' = "disconnected"
  /\ UNCHANGED <<pc, todo, disk, running, restart, published, history>>

StopService ==
  /\ \/ service = "up" /\ service' = "disconnected"
     \/ service = "disconnected" /\ service' = "cancelled"
  /\ UNCHANGED <<pc, todo, disk, running, restart, published, history>>

Interrupted == [d \in Deployments |-> IF InFlight(d) THEN "interrupted" ELSE pc[d]]

Exit ==
  /\ service = "cancelled"
  /\ service' = "down"
  /\ pc' = Interrupted
  /\ todo' = [d \in Deployments |-> {}]
  /\ UNCHANGED <<disk, running, restart, published, history>>

StartService ==
  /\ service = "down"
  /\ service' = "up"
  /\ UNCHANGED <<pc, todo, disk, running, restart, published, history>>

(***************************************************************************)
(* The machine boots: the script has stopped the service and reboots, or   *)
(* power was lost at any moment.  Nothing resumes a deployment that was in *)
(* flight; the applications and the service start with Windows.            *)
(***************************************************************************)
Boot ==
  /\ service' = "up"
  /\ pc' = Interrupted
  /\ todo' = [d \in Deployments |-> {}]
  /\ running' = Processes
  /\ restart' = FALSE
  /\ UNCHANGED <<disk, published, history>>

Reboot    == restart /\ service = "down" /\ Boot
PowerLoss == Boot

-----------------------------------------------------------------------------
FileStep(d, f) ==
  \/ ExtractFile(d, f) \/ BackupFile(d, f) \/ UpdateFile(d, f)
  \/ RollbackDeleteFile(d, f) \/ RollbackCopyFile(d, f)

Step(d) ==
  \/ DownloadOk(d) \/ DownloadFails(d)
  \/ ValidateOk(d) \/ ValidateFails(d)
  \/ Clean(d) \/ ExtractOk(d) \/ ExtractFails(d)
  \/ StopOk(d) \/ StopFails(d)
  \/ BackupStart(d) \/ BackupOk(d) \/ BackupFails(d)
  \/ UpdateStart(d) \/ UpdateOk(d) \/ UpdateFails(d)
  \/ CheckAppFile(d) \/ Cleanup(d) \/ Complete(d)
  \/ RollbackStart(d) \/ RollbackDeleted(d) \/ RollbackOk(d) \/ RollbackGivesUp(d)
  \/ ReportRollback(d) \/ Return(d) \/ ScheduleRestart(d) \/ Throw(d)
  \/ \E f \in Files : FileStep(d, f)

Machine == StopService \/ Exit \/ StartService \/ Reboot \/ PowerLoss

Next ==
  \/ \E d \in Deployments : Receive(d) \/ Step(d)
  \/ Machine

Spec == Init /\ [][Next]_vars

(***************************************************************************)
(* A task that is running keeps running: the thread pool schedules it.  A  *)
(* launched script runs to its end, and a process told to stop exits.      *)
(***************************************************************************)
ScriptStopsService == restart /\ StopService

Fairness ==
  /\ \A d \in Deployments : WF_vars(Step(d))
  /\ WF_vars(ScriptStopsService) /\ WF_vars(Exit) /\ SF_vars(Reboot)

FairSpec == Spec /\ Fairness

-----------------------------------------------------------------------------
TypeOK ==
  /\ pc \in [Deployments -> {"idle"} \cup Active \cup Ended]
  /\ todo \in [Deployments -> SUBSET Files]
  /\ zip \in [Patches -> {"absent", "partial", "bad", "good"}]
  /\ update \in Folders
  /\ app \in Folders
  /\ backup \in [Deployments -> Folders \cup {NoBackup}]
  /\ kept \in Seq(Deployments)
  /\ running \in SUBSET Processes
  /\ restart \in BOOLEAN
  /\ service \in {"up", "disconnected", "cancelled", "down"}
  /\ published \in SUBSET Messages
  /\ current \in Deployments \cup {None}
  /\ before \in Folders
  /\ restored \in BOOLEAN

Said(d, status, step) == [dep |-> d, status |-> status, step |-> step] \in published

(***************************************************************************)
(* The application folder with the patch of d laid over what was there.    *)
(***************************************************************************)
Patched(d) == [f \in Files |-> IF f \in Contents[PatchOf[d]] THEN PatchOf[d] ELSE before[f]]

(***************************************************************************)
(* "Patch applied successfully" is true when it is said: the folder is     *)
(* exactly the previous one with the files of the patch laid over it, none *)
(* of them damaged, none missing, and no other file changed.  This is for  *)
(* a checked deployment that nothing overlaps.                             *)
(***************************************************************************)
SuccessMeansInstalled ==
  \A d \in Checked :
    pc[d] = "success_delay" /\ Said(d, "SUCCESS", "COMPLETE") => app = Patched(d)

(***************************************************************************)
(* A deployment that reports FAILED has left every file of the application *)
(* folder as it found it, whichever phase failed and however.              *)
(***************************************************************************)
FailureLeavesAppUntouched ==
  \A d \in Deployments : pc[d] = "failed_delay" => app = before

(***************************************************************************)
(* A rollback that got to the end of its copy has put back every file as   *)
(* it was, files that only the patch had are gone, and damaged ones too.   *)
(***************************************************************************)
RollbackRestores ==
  \A d \in Deployments : pc[d] \in {"rb_report", "rollback_delay"} /\ restored => app = before

(***************************************************************************)
(* Whatever stops the pipeline and wherever (power, the service, an I/O    *)
(* error inside the rollback itself), the version that was installed       *)
(* before the last deployment is not lost: it is still in the application  *)
(* folder, or the patch is completely installed, or it is in the backup.   *)
(***************************************************************************)
NothingLost ==
  current # None =>
    \/ app = before
    \/ app = [f \in Files |-> IF update[f] # Absent THEN update[f] ELSE before[f]]
    \/ backup[current] = before

(***************************************************************************)
(* No file of the application is replaced or deleted while one of its      *)
(* processes runs.                                                         *)
(***************************************************************************)
StoppedWhileReplaced ==
  \A d \in Deployments : pc[d] \in {"update", "rb_delete", "rb_copy"} => running = {}

(***************************************************************************)
(* The server hears at most one final verdict of a deployment: the catch   *)
(* block cannot contradict a verdict already published, because it runs    *)
(* only when the token is cancelled and then nothing can be published.     *)
(***************************************************************************)
Verdicts(d) ==
  {m \in published : m.dep = d /\ ~(m.status = "SUCCESS" /\ m.step = "DOWNLOAD")}

OneVerdict == \A d \in Deployments : \A m, n \in Verdicts(d) : m = n

(***************************************************************************)
(* The branch keeps its promise to the server: the reports of each         *)
(* deployment come in the order download, verdict, each at most once, and  *)
(* the verdict FAILED/ERROR of the catch block is never heard.             *)
(***************************************************************************)
reportStage ==
  [d \in Deployments |->
     IF pc[d] = "idle" THEN "none"
     ELSE IF pc[d] = "download" THEN "started"
     ELSE IF pc[d] \in Delays THEN "judged"
     ELSE IF pc[d] \in Ended THEN "ended"
     ELSE "downloaded"]

Phases == {"VALIDATE", "EXTRACT", "STOP_APP", "BACKUP"}

Reports == INSTANCE DeploymentReports WITH stage <- reportStage

KeepsReportOrder == Reports!Spec

(***************************************************************************)
(* Every deployment that starts comes to an end, by returning or because   *)
(* its process ends, whatever the other deployments do to shared folders.  *)
(***************************************************************************)
DeploymentEnds == \A d \in Deployments : InFlight(d) ~> pc[d] \in Ended

(***************************************************************************)
(* Once a restart script is launched the machine reboots and the           *)
(* applications run again, even if the service is stopped and started by   *)
(* someone else in between.                                                *)
(***************************************************************************)
RestartCompletes == restart ~> running = Processes

-----------------------------------------------------------------------------
(***************************************************************************)
(* PatchService.cs:179 reports "Rollback completed. System will restart."  *)
(* This says that a reported rollback has brought the old version back.    *)
(***************************************************************************)
ReportedRollbackRestored ==
  \A d \in Deployments :
    pc[d] = "rollback_delay" /\ Said(d, "ROLLBACK", "COMPLETE") => app = before

(***************************************************************************)
(* PatchService.cs:241 reports "Patch applied successfully."  This says    *)
(* that the files of the patch are then in the application folder, in an   *)
(* agent that starts a second deployment while one is running.             *)
(***************************************************************************)
ReportedSuccessInPlace ==
  \A d \in Checked :
    pc[d] = "success_delay" /\ Said(d, "SUCCESS", "COMPLETE")
      => \A f \in Contents[PatchOf[d]] : app[f] = PatchOf[d]
=============================================================================
