--------------------------- MODULE PatchAgentProofs ---------------------------
(***************************************************************************)
(* Theorems about PatchAgent, for every value of its constants: any number *)
(* of deployments, patches and files, and any overlap of deployments       *)
(* unless a theorem says otherwise.                                        *)
(***************************************************************************)
EXTENDS PatchAgent, SequenceTheorems, TLAPS

(***************************************************************************)
(* Deleting old backups leaves a shorter list of kept backups, and every   *)
(* backup is still a folder or gone.                                       *)
(***************************************************************************)
LEMMA PruneType ==
  ASSUME TypeOK, Prune
  PROVE  kept' \in Seq(Deployments) /\ backup' \in [Deployments -> Folders \cup {NoBackup}]
<1>. DEFINE n == IF Len(kept) < MaxBackupsToKeep THEN Len(kept) ELSE MaxBackupsToKeep
<1>1. n \in Nat /\ n <= Len(kept)  BY PatchAgentAssumption DEF TypeOK
<1>2. \A i \in 1..n : kept[i] \in Deployments  BY <1>1 DEF TypeOK
<1>3. SubSeq(kept, 1, n) \in Seq(Deployments)
  <2>. HIDE DEF n
  <2>. QED  BY <1>1, <1>2, SubSeqProperties
<1>. QED  BY <1>3 DEF TypeOK, Prune

LEMMA TypeInvariant == TypeOK /\ [Next]_vars => TypeOK'
<1>. SUFFICES ASSUME TypeOK, [Next]_vars PROVE TypeOK'
  OBVIOUS
<1>. USE PatchAgentAssumption DEF TypeOK, Versions, Folders, Active, Ended, Loops, Delays, disk, history
<1>1. CASE UNCHANGED vars
  BY <1>1 DEF vars
<1>2. ASSUME NEW d \in Deployments, Receive(d) PROVE TypeOK'
  BY <1>2 DEF Receive, Goto
<1>3. ASSUME NEW d \in Deployments, DownloadOk(d) PROVE TypeOK'
  BY <1>3 DEF DownloadOk, Goto, Publish, Downloaded, Messages, Statuses, Steps
<1>4. ASSUME NEW d \in Deployments, DownloadFails(d) PROVE TypeOK'
  BY <1>4 DEF DownloadFails, Fail, Goto, Publish, Downloaded, Messages, Statuses, Steps
<1>5. ASSUME NEW d \in Deployments, ValidateOk(d) PROVE TypeOK'
  BY <1>5 DEF ValidateOk, Goto
<1>6. ASSUME NEW d \in Deployments, ValidateFails(d) PROVE TypeOK'
  BY <1>6 DEF ValidateFails, Fail, Goto, Publish, Messages, Statuses, Steps
<1>7. ASSUME NEW d \in Deployments, Clean(d) PROVE TypeOK'
  BY <1>7 DEF Clean, Goto, Empty
<1>8. ASSUME NEW d \in Deployments, ExtractOk(d) PROVE TypeOK'
  BY <1>8 DEF ExtractOk, Goto
<1>9. ASSUME NEW d \in Deployments, ExtractFails(d) PROVE TypeOK'
  BY <1>9 DEF ExtractFails, Fail, Goto, Publish, Messages, Statuses, Steps
<1>10. ASSUME NEW d \in Deployments, StopOk(d) PROVE TypeOK'
  BY <1>10 DEF StopOk, Goto
<1>11. ASSUME NEW d \in Deployments, StopFails(d) PROVE TypeOK'
  BY <1>11 DEF StopFails, Fail, Goto, Publish, Messages, Statuses, Steps
<1>12. ASSUME NEW d \in Deployments, BackupStart(d) PROVE TypeOK'
  BY <1>12 DEF BackupStart, Goto, Empty, Present
<1>13. ASSUME NEW d \in Deployments, BackupOk(d) PROVE TypeOK'
  BY <1>13 DEF BackupOk, Goto
<1>14. ASSUME NEW d \in Deployments, BackupFails(d) PROVE TypeOK'
  BY <1>14 DEF BackupFails, Fail, Goto, Publish, Messages, Statuses, Steps
<1>15. ASSUME NEW d \in Deployments, UpdateStart(d) PROVE TypeOK'
  BY <1>15 DEF UpdateStart, Goto, Present
<1>16. ASSUME NEW d \in Deployments, UpdateOk(d) PROVE TypeOK'
  BY <1>16 DEF UpdateOk, Goto
<1>17. ASSUME NEW d \in Deployments, UpdateFails(d) PROVE TypeOK'
  BY <1>17 DEF UpdateFails, Goto
<1>18. ASSUME NEW d \in Deployments, CheckAppFile(d) PROVE TypeOK'
  BY <1>18 DEF CheckAppFile, Goto
<1>19. ASSUME NEW d \in Deployments, Cleanup(d) PROVE TypeOK'
  <2>1. CASE Prune
    BY <1>19, <2>1, PruneType DEF Cleanup, Goto
  <2>2. CASE ~Prune
    BY <1>19, <2>2 DEF Cleanup, Goto
  <2>. QED  BY <2>1, <2>2
<1>20. ASSUME NEW d \in Deployments, Complete(d) PROVE TypeOK'
  BY <1>20 DEF Complete, Goto, Publish, Messages, Statuses, Steps
<1>21. ASSUME NEW d \in Deployments, RollbackStart(d) PROVE TypeOK'
  BY <1>21 DEF RollbackStart, Goto, Present
<1>22. ASSUME NEW d \in Deployments, RollbackDeleted(d) PROVE TypeOK'
  BY <1>22 DEF RollbackDeleted, Goto, Present
<1>23. ASSUME NEW d \in Deployments, RollbackOk(d) PROVE TypeOK'
  BY <1>23 DEF RollbackOk, Goto
<1>24. ASSUME NEW d \in Deployments, RollbackGivesUp(d) PROVE TypeOK'
  BY <1>24 DEF RollbackGivesUp, Goto
<1>25. ASSUME NEW d \in Deployments, ReportRollback(d) PROVE TypeOK'
  BY <1>25 DEF ReportRollback, Goto, Publish, Messages, Statuses, Steps
<1>26. ASSUME NEW d \in Deployments, Return(d) PROVE TypeOK'
  BY <1>26 DEF Return, Goto
<1>27. ASSUME NEW d \in Deployments, ScheduleRestart(d) PROVE TypeOK'
  BY <1>27 DEF ScheduleRestart, Goto
<1>28. ASSUME NEW d \in Deployments, Throw(d) PROVE TypeOK'
  BY <1>28 DEF Throw, Goto, Publish, Messages, Statuses, Steps
<1>29. ASSUME NEW d \in Deployments, NEW f \in Files, ExtractFile(d, f) PROVE TypeOK'
  BY <1>29 DEF ExtractFile, Treat
<1>30. ASSUME NEW d \in Deployments, NEW f \in Files, BackupFile(d, f) PROVE TypeOK'
  BY <1>30 DEF BackupFile, Treat
<1>31. ASSUME NEW d \in Deployments, NEW f \in Files, UpdateFile(d, f) PROVE TypeOK'
  BY <1>31 DEF UpdateFile, Treat
<1>32. ASSUME NEW d \in Deployments, NEW f \in Files, RollbackDeleteFile(d, f) PROVE TypeOK'
  BY <1>32 DEF RollbackDeleteFile, Treat
<1>33. ASSUME NEW d \in Deployments, NEW f \in Files, RollbackCopyFile(d, f) PROVE TypeOK'
  BY <1>33 DEF RollbackCopyFile, Treat
<1>34. CASE StopService
  BY <1>34 DEF StopService
<1>35. CASE Exit
  BY <1>35 DEF Exit, Interrupted, InFlight
<1>36. CASE StartService
  BY <1>36 DEF StartService
<1>37. CASE Reboot
  BY <1>37 DEF Reboot, Boot, Interrupted, InFlight, Processes
<1>38. CASE PowerLoss
  BY <1>38 DEF PowerLoss, Boot, Interrupted, InFlight, Processes
<1>. QED
  BY <1>1, <1>2, <1>3, <1>4, <1>5, <1>6, <1>7, <1>8, <1>9, <1>10, <1>11, <1>12, <1>13, <1>14, <1>15, <1>16, <1>17, <1>18, <1>19, <1>20, <1>21, <1>22, <1>23, <1>24, <1>25, <1>26, <1>27, <1>28, <1>29, <1>30, <1>31, <1>32, <1>33, <1>34, <1>35, <1>36, <1>37, <1>38 DEF Next, Step, FileStep, Machine

(***************************************************************************)
(* Type correctness: every variable keeps to its type in every behaviour.  *)
(***************************************************************************)
THEOREM TypeCorrect == Spec => []TypeOK
<1>1. Init => TypeOK
  <2>. SUFFICES ASSUME Init PROVE TypeOK
    OBVIOUS
  <2>. USE PatchAgentAssumption DEF Init, Versions, Folders, Empty, Processes
  <2>1. update \in Folders /\ app \in Folders /\ before \in Folders
    OBVIOUS
  <2>2. kept \in Seq(Deployments)
    OBVIOUS
  <2>. QED
    BY <2>1, <2>2 DEF TypeOK
<1>. QED
  BY <1>1, TypeInvariant, PTL DEF Spec

-----------------------------------------------------------------------------
(***************************************************************************)
(* The applications are stopped from the second StopApplication on, until  *)
(* the deployment ends.  Only Boot starts an application, and no task      *)
(* survives it, so this holds for overlapping deployments too.             *)
(***************************************************************************)
AfterStop == {"backup_start", "backup", "update_start", "update", "start_app", "verify",
              "cleanup", "complete", "rb_start", "rb_delete", "rb_copy", "rb_report"}

StoppedInv ==
  \A d \in Deployments :
    /\ pc[d] = "stop_second" => "main" \notin running
    /\ pc[d] \in AfterStop => running = {}

LEMMA StoppedInvariant == TypeOK /\ StoppedInv /\ [Next]_vars => StoppedInv'
<1>. SUFFICES ASSUME TypeOK, StoppedInv, [Next]_vars PROVE StoppedInv'
  OBVIOUS
<1>. USE DEF TypeOK, StoppedInv, AfterStop, Processes, Active, Ended, Loops, Delays
<1>1. CASE UNCHANGED vars
  BY <1>1 DEF vars
<1>2. ASSUME NEW d \in Deployments, Receive(d) PROVE StoppedInv'
  BY <1>2 DEF Receive, Goto
<1>3. ASSUME NEW d \in Deployments, DownloadOk(d) PROVE StoppedInv'
  BY <1>3 DEF DownloadOk, Goto, Publish
<1>4. ASSUME NEW d \in Deployments, DownloadFails(d) PROVE StoppedInv'
  BY <1>4 DEF DownloadFails, Fail, Goto, Publish
<1>5. ASSUME NEW d \in Deployments, ValidateOk(d) PROVE StoppedInv'
  BY <1>5 DEF ValidateOk, Goto
<1>6. ASSUME NEW d \in Deployments, ValidateFails(d) PROVE StoppedInv'
  BY <1>6 DEF ValidateFails, Fail, Goto, Publish
<1>7. ASSUME NEW d \in Deployments, Clean(d) PROVE StoppedInv'
  BY <1>7 DEF Clean, Goto, Empty
<1>8. ASSUME NEW d \in Deployments, ExtractOk(d) PROVE StoppedInv'
  BY <1>8 DEF ExtractOk, Goto
<1>9. ASSUME NEW d \in Deployments, ExtractFails(d) PROVE StoppedInv'
  BY <1>9 DEF ExtractFails, Fail, Goto, Publish
<1>10. ASSUME NEW d \in Deployments, StopOk(d) PROVE StoppedInv'
  BY ZenonT(40), <1>10 DEF StopOk, Goto
<1>11. ASSUME NEW d \in Deployments, StopFails(d) PROVE StoppedInv'
  BY <1>11 DEF StopFails, Fail, Goto, Publish
<1>12. ASSUME NEW d \in Deployments, BackupStart(d) PROVE StoppedInv'
  BY <1>12 DEF BackupStart, Goto, Empty, Present
<1>13. ASSUME NEW d \in Deployments, BackupOk(d) PROVE StoppedInv'
  BY <1>13 DEF BackupOk, Goto
<1>14. ASSUME NEW d \in Deployments, BackupFails(d) PROVE StoppedInv'
  BY <1>14 DEF BackupFails, Fail, Goto, Publish
<1>15. ASSUME NEW d \in Deployments, UpdateStart(d) PROVE StoppedInv'
  BY <1>15 DEF UpdateStart, Goto, Present
<1>16. ASSUME NEW d \in Deployments, UpdateOk(d) PROVE StoppedInv'
  BY <1>16 DEF UpdateOk, Goto
<1>17. ASSUME NEW d \in Deployments, UpdateFails(d) PROVE StoppedInv'
  BY <1>17 DEF UpdateFails, Goto
<1>18. ASSUME NEW d \in Deployments, CheckAppFile(d) PROVE StoppedInv'
  BY <1>18 DEF CheckAppFile, Goto
<1>19. ASSUME NEW d \in Deployments, Cleanup(d) PROVE StoppedInv'
  BY <1>19 DEF Cleanup, Goto
<1>20. ASSUME NEW d \in Deployments, Complete(d) PROVE StoppedInv'
  BY <1>20 DEF Complete, Goto, Publish
<1>21. ASSUME NEW d \in Deployments, RollbackStart(d) PROVE StoppedInv'
  BY <1>21 DEF RollbackStart, Goto, Present
<1>22. ASSUME NEW d \in Deployments, RollbackDeleted(d) PROVE StoppedInv'
  BY <1>22 DEF RollbackDeleted, Goto, Present
<1>23. ASSUME NEW d \in Deployments, RollbackOk(d) PROVE StoppedInv'
  BY <1>23 DEF RollbackOk, Goto
<1>24. ASSUME NEW d \in Deployments, RollbackGivesUp(d) PROVE StoppedInv'
  BY <1>24 DEF RollbackGivesUp, Goto
<1>25. ASSUME NEW d \in Deployments, ReportRollback(d) PROVE StoppedInv'
  BY <1>25 DEF ReportRollback, Goto, Publish
<1>26. ASSUME NEW d \in Deployments, Return(d) PROVE StoppedInv'
  BY <1>26 DEF Return, Goto
<1>27. ASSUME NEW d \in Deployments, ScheduleRestart(d) PROVE StoppedInv'
  BY <1>27 DEF ScheduleRestart, Goto
<1>28. ASSUME NEW d \in Deployments, Throw(d) PROVE StoppedInv'
  BY <1>28 DEF Throw, Goto, Publish
<1>29. ASSUME NEW d \in Deployments, NEW f \in Files, ExtractFile(d, f) PROVE StoppedInv'
  BY <1>29 DEF ExtractFile, Treat
<1>30. ASSUME NEW d \in Deployments, NEW f \in Files, BackupFile(d, f) PROVE StoppedInv'
  BY <1>30 DEF BackupFile, Treat
<1>31. ASSUME NEW d \in Deployments, NEW f \in Files, UpdateFile(d, f) PROVE StoppedInv'
  BY <1>31 DEF UpdateFile, Treat
<1>32. ASSUME NEW d \in Deployments, NEW f \in Files, RollbackDeleteFile(d, f) PROVE StoppedInv'
  BY <1>32 DEF RollbackDeleteFile, Treat
<1>33. ASSUME NEW d \in Deployments, NEW f \in Files, RollbackCopyFile(d, f) PROVE StoppedInv'
  BY <1>33 DEF RollbackCopyFile, Treat
<1>34. CASE StopService
  BY <1>34 DEF StopService
<1>35. CASE Exit
  BY <1>35 DEF Exit, Interrupted, InFlight
<1>36. CASE StartService
  BY <1>36 DEF StartService
<1>37. CASE Reboot
  BY <1>37 DEF Reboot, Boot, Interrupted, InFlight
<1>38. CASE PowerLoss
  BY <1>38 DEF PowerLoss, Boot, Interrupted, InFlight
<1>. QED
  BY <1>1, <1>2, <1>3, <1>4, <1>5, <1>6, <1>7, <1>8, <1>9, <1>10, <1>11, <1>12, <1>13, <1>14, <1>15, <1>16, <1>17, <1>18, <1>19, <1>20, <1>21, <1>22, <1>23, <1>24, <1>25, <1>26, <1>27, <1>28, <1>29, <1>30, <1>31, <1>32, <1>33, <1>34, <1>35, <1>36, <1>37, <1>38 DEF Next, Step, FileStep, Machine

(***************************************************************************)
(* No application file is replaced or deleted under a running application. *)
(***************************************************************************)
THEOREM ReplacedOnlyWhileStopped == Spec => []StoppedWhileReplaced
<1>1. Init => StoppedInv
  BY DEF Init, StoppedInv, AfterStop
<1>2. StoppedInv => StoppedWhileReplaced
  BY DEF StoppedInv, StoppedWhileReplaced, AfterStop
<1>. QED
  BY <1>1, <1>2, TypeCorrect, StoppedInvariant, PTL DEF Spec

-----------------------------------------------------------------------------
(***************************************************************************)
(* A deployment that has not reached the wait after its verdict has not    *)
(* published one.                                                          *)
(***************************************************************************)
VerdictInv ==
  \A d \in Deployments : pc[d] \notin Delays \cup Ended => Verdicts(d) = {}

LEMMA VerdictInvariant == TypeOK /\ VerdictInv /\ OneVerdict /\ [Next]_vars => VerdictInv' /\ OneVerdict'
<1>. SUFFICES ASSUME TypeOK, VerdictInv, OneVerdict, [Next]_vars PROVE (VerdictInv /\ OneVerdict)'
  OBVIOUS
<1>. USE DEF TypeOK, VerdictInv, OneVerdict, Verdicts, Active, Ended, Loops, Delays
<1>1. CASE UNCHANGED vars
  BY <1>1 DEF vars
<1>2. ASSUME NEW d \in Deployments, Receive(d) PROVE (VerdictInv /\ OneVerdict)'
  BY <1>2 DEF Receive, Goto
<1>3. ASSUME NEW d \in Deployments, DownloadOk(d) PROVE (VerdictInv /\ OneVerdict)'
  BY <1>3 DEF DownloadOk, Goto, Publish
<1>4. ASSUME NEW d \in Deployments, DownloadFails(d) PROVE (VerdictInv /\ OneVerdict)'
  BY <1>4 DEF DownloadFails, Fail, Goto, Publish
<1>5. ASSUME NEW d \in Deployments, ValidateOk(d) PROVE (VerdictInv /\ OneVerdict)'
  BY <1>5 DEF ValidateOk, Goto
<1>6. ASSUME NEW d \in Deployments, ValidateFails(d) PROVE (VerdictInv /\ OneVerdict)'
  BY <1>6 DEF ValidateFails, Fail, Goto, Publish
<1>7. ASSUME NEW d \in Deployments, Clean(d) PROVE (VerdictInv /\ OneVerdict)'
  BY <1>7 DEF Clean, Goto, Empty
<1>8. ASSUME NEW d \in Deployments, ExtractOk(d) PROVE (VerdictInv /\ OneVerdict)'
  BY <1>8 DEF ExtractOk, Goto
<1>9. ASSUME NEW d \in Deployments, ExtractFails(d) PROVE (VerdictInv /\ OneVerdict)'
  BY <1>9 DEF ExtractFails, Fail, Goto, Publish
<1>10. ASSUME NEW d \in Deployments, StopOk(d) PROVE (VerdictInv /\ OneVerdict)'
  BY <1>10 DEF StopOk, Goto
<1>11. ASSUME NEW d \in Deployments, StopFails(d) PROVE (VerdictInv /\ OneVerdict)'
  BY SMTT(30), <1>11 DEF StopFails, Fail, Goto, Publish
<1>12. ASSUME NEW d \in Deployments, BackupStart(d) PROVE (VerdictInv /\ OneVerdict)'
  BY <1>12 DEF BackupStart, Goto, Empty, Present
<1>13. ASSUME NEW d \in Deployments, BackupOk(d) PROVE (VerdictInv /\ OneVerdict)'
  BY <1>13 DEF BackupOk, Goto
<1>14. ASSUME NEW d \in Deployments, BackupFails(d) PROVE (VerdictInv /\ OneVerdict)'
  BY <1>14 DEF BackupFails, Fail, Goto, Publish
<1>15. ASSUME NEW d \in Deployments, UpdateStart(d) PROVE (VerdictInv /\ OneVerdict)'
  BY <1>15 DEF UpdateStart, Goto, Present
<1>16. ASSUME NEW d \in Deployments, UpdateOk(d) PROVE (VerdictInv /\ OneVerdict)'
  BY <1>16 DEF UpdateOk, Goto
<1>17. ASSUME NEW d \in Deployments, UpdateFails(d) PROVE (VerdictInv /\ OneVerdict)'
  BY <1>17 DEF UpdateFails, Goto
<1>18. ASSUME NEW d \in Deployments, CheckAppFile(d) PROVE (VerdictInv /\ OneVerdict)'
  BY <1>18 DEF CheckAppFile, Goto
<1>19. ASSUME NEW d \in Deployments, Cleanup(d) PROVE (VerdictInv /\ OneVerdict)'
  BY <1>19 DEF Cleanup, Goto
<1>20. ASSUME NEW d \in Deployments, Complete(d) PROVE (VerdictInv /\ OneVerdict)'
  BY <1>20 DEF Complete, Goto, Publish
<1>21. ASSUME NEW d \in Deployments, RollbackStart(d) PROVE (VerdictInv /\ OneVerdict)'
  BY <1>21 DEF RollbackStart, Goto, Present
<1>22. ASSUME NEW d \in Deployments, RollbackDeleted(d) PROVE (VerdictInv /\ OneVerdict)'
  BY <1>22 DEF RollbackDeleted, Goto, Present
<1>23. ASSUME NEW d \in Deployments, RollbackOk(d) PROVE (VerdictInv /\ OneVerdict)'
  BY <1>23 DEF RollbackOk, Goto
<1>24. ASSUME NEW d \in Deployments, RollbackGivesUp(d) PROVE (VerdictInv /\ OneVerdict)'
  BY <1>24 DEF RollbackGivesUp, Goto
<1>25. ASSUME NEW d \in Deployments, ReportRollback(d) PROVE (VerdictInv /\ OneVerdict)'
  BY <1>25 DEF ReportRollback, Goto, Publish
<1>26. ASSUME NEW d \in Deployments, Return(d) PROVE (VerdictInv /\ OneVerdict)'
  BY <1>26 DEF Return, Goto
<1>27. ASSUME NEW d \in Deployments, ScheduleRestart(d) PROVE (VerdictInv /\ OneVerdict)'
  BY <1>27 DEF ScheduleRestart, Goto
<1>28. ASSUME NEW d \in Deployments, Throw(d) PROVE (VerdictInv /\ OneVerdict)'
  BY <1>28 DEF Throw, Goto, Publish
<1>29. ASSUME NEW d \in Deployments, NEW f \in Files, ExtractFile(d, f) PROVE (VerdictInv /\ OneVerdict)'
  BY <1>29 DEF ExtractFile, Treat
<1>30. ASSUME NEW d \in Deployments, NEW f \in Files, BackupFile(d, f) PROVE (VerdictInv /\ OneVerdict)'
  BY <1>30 DEF BackupFile, Treat
<1>31. ASSUME NEW d \in Deployments, NEW f \in Files, UpdateFile(d, f) PROVE (VerdictInv /\ OneVerdict)'
  BY <1>31 DEF UpdateFile, Treat
<1>32. ASSUME NEW d \in Deployments, NEW f \in Files, RollbackDeleteFile(d, f) PROVE (VerdictInv /\ OneVerdict)'
  BY <1>32 DEF RollbackDeleteFile, Treat
<1>33. ASSUME NEW d \in Deployments, NEW f \in Files, RollbackCopyFile(d, f) PROVE (VerdictInv /\ OneVerdict)'
  BY <1>33 DEF RollbackCopyFile, Treat
<1>34. CASE StopService
  BY <1>34 DEF StopService
<1>35. CASE Exit
  BY <1>35 DEF Exit, Interrupted, InFlight
<1>36. CASE StartService
  BY <1>36 DEF StartService
<1>37. CASE Reboot
  BY <1>37 DEF Reboot, Boot, Interrupted, InFlight
<1>38. CASE PowerLoss
  BY <1>38 DEF PowerLoss, Boot, Interrupted, InFlight
<1>. QED
  BY <1>1, <1>2, <1>3, <1>4, <1>5, <1>6, <1>7, <1>8, <1>9, <1>10, <1>11, <1>12, <1>13, <1>14, <1>15, <1>16, <1>17, <1>18, <1>19, <1>20, <1>21, <1>22, <1>23, <1>24, <1>25, <1>26, <1>27, <1>28, <1>29, <1>30, <1>31, <1>32, <1>33, <1>34, <1>35, <1>36, <1>37, <1>38 DEF Next, Step, FileStep, Machine

(***************************************************************************)
(* The server hears at most one verdict per deployment: the catch block    *)
(* cannot publish, since only a cancelled token leads to it.               *)
(***************************************************************************)
THEOREM VerdictIsUnique == Spec => []OneVerdict
<1>1. Init => VerdictInv /\ OneVerdict
  BY DEF Init, VerdictInv, OneVerdict, Verdicts
<1>. QED
  BY <1>1, TypeCorrect, VerdictInvariant, PTL DEF Spec

-----------------------------------------------------------------------------
(***************************************************************************)
(* The serial agent: what holds of the shared folders at each point of the     *)
(* pipeline when a request arrives only while no deployment is in flight.  *)
(* The deployment in flight is then the last one received, and each clause *)
(* of Phase speaks about the phases it names: until the update starts the  *)
(* application folder is what it was; from then on the backup is what it   *)
(* was; and the loops have treated exactly the files no longer in todo.    *)
(***************************************************************************)
Untouched  == {"download", "validate", "clean", "extract", "stop_main", "stop_second",
               "backup_start", "backup", "update_start", "failed_delay"}
Extracted  == {"stop_main", "stop_second", "backup_start", "backup", "update_start", "update",
               "start_app", "verify", "cleanup", "complete", "success_delay"}
BackedUp   == {"update_start", "update", "start_app", "verify", "cleanup", "rb_start",
               "rb_delete", "rb_copy", "rb_report", "rollback_delay"}
Updated    == {"start_app", "verify", "cleanup", "complete", "success_delay"}
RolledBack == {"rb_report", "rollback_delay"}

Overlaid(f) == IF update[f] # Absent THEN update[f] ELSE before[f]

Alone == \A d \in Deployments : InFlight(d) => d = current

ExtractPhase(d) ==
  /\ d \in Checked /\ pc[d] \in {"clean", "extract"} => zip[PatchOf[d]] = "good"
  /\ pc[d] = "extract" =>
       /\ todo[d] \subseteq Contents[PatchOf[d]]
       /\ \A f \in Files : update[f] # Absent <=> f \in Contents[PatchOf[d]] \ todo[d]
  /\ pc[d] \in Extracted =>
       \A f \in Files : update[f] # Absent <=> f \in Contents[PatchOf[d]]
  /\ d \in Checked /\ pc[d] \in Extracted \cup {"extract"} =>
       \A f \in Files : update[f] \in {Absent, PatchOf[d]}

AppPhase(d) ==
  /\ pc[d] \in Untouched => app = before
  /\ pc[d] = "update" =>
       \A f \in Files : app[f] = IF f \in todo[d] THEN before[f] ELSE Overlaid(f)
  /\ pc[d] \in Updated => \A f \in Files : app[f] = Overlaid(f)
  /\ pc[d] = "rb_delete" => \A f \in Files : f \notin todo[d] => app[f] = Absent
  /\ pc[d] = "rb_copy" =>
       \A f \in Files : app[f] = IF f \in todo[d] THEN Absent ELSE before[f]
  /\ pc[d] \in RolledBack /\ restored => app = before
  /\ pc[d] \in Active \ RolledBack => ~restored

BackupPhase(d) ==
  /\ pc[d] = "backup" =>
       /\ backup[d] \in Folders
       /\ \A f \in Files : backup[d][f] = IF f \in todo[d] THEN Absent ELSE before[f]
  /\ pc[d] \in BackedUp => backup[d] = before

Phase == current # None => ExtractPhase(current) /\ AppPhase(current) /\ BackupPhase(current)

SerialInv == Alone /\ Phase /\ NothingLost

(***************************************************************************)
(* Two folders with the same files are equal.                              *)
(***************************************************************************)
LEMMA SameFolder ==
  ASSUME NEW a \in Folders, NEW b \in Folders, \A f \in Files : a[f] = b[f]
  PROVE  a = b
BY DEF Folders

LEMMA SerialInvariant ==
  ASSUME ~Overlap
  PROVE  TypeOK /\ TypeOK' /\ SerialInv /\ [Next]_vars => SerialInv'
<1>. SUFFICES ASSUME TypeOK, TypeOK', SerialInv, [Next]_vars PROVE SerialInv'
  OBVIOUS
<1>. USE PatchAgentAssumption, SameFolder
     DEF TypeOK, SerialInv, Alone, InFlight, Phase, ExtractPhase, AppPhase, BackupPhase,
         NothingLost, Overlaid, Untouched, Extracted, BackedUp, Updated, RolledBack,
         Active, Ended, Loops, Delays, disk, history
<1>1. CASE UNCHANGED vars
  BY <1>1 DEF vars
<1>2. ASSUME NEW d \in Deployments, Receive(d) PROVE SerialInv'
  BY <1>2 DEF Receive, Goto
<1>3. ASSUME NEW d \in Deployments, DownloadOk(d) PROVE SerialInv'
  BY <1>3 DEF DownloadOk, Goto, Publish
<1>4. ASSUME NEW d \in Deployments, DownloadFails(d) PROVE SerialInv'
  BY <1>4 DEF DownloadFails, Fail, Goto, Publish
<1>5. ASSUME NEW d \in Deployments, ValidateOk(d) PROVE SerialInv'
  BY <1>5 DEF ValidateOk, Goto
<1>6. ASSUME NEW d \in Deployments, ValidateFails(d) PROVE SerialInv'
  BY <1>6 DEF ValidateFails, Fail, Goto, Publish
<1>7. ASSUME NEW d \in Deployments, Clean(d) PROVE SerialInv'
  BY <1>7 DEF Clean, Goto, Empty
<1>8. ASSUME NEW d \in Deployments, ExtractOk(d) PROVE SerialInv'
  BY <1>8 DEF ExtractOk, Goto
<1>9. ASSUME NEW d \in Deployments, ExtractFails(d) PROVE SerialInv'
  BY <1>9 DEF ExtractFails, Fail, Goto, Publish
<1>10. ASSUME NEW d \in Deployments, StopOk(d) PROVE SerialInv'
  BY <1>10 DEF StopOk, Goto
<1>11. ASSUME NEW d \in Deployments, StopFails(d) PROVE SerialInv'
  BY <1>11 DEF StopFails, Fail, Goto, Publish
<1>12. ASSUME NEW d \in Deployments, BackupStart(d) PROVE SerialInv'
  <2>1. d = current /\ current' = current
    BY <1>12 DEF BackupStart, Goto, Empty, Present
  <2>2. Alone'
    BY <1>12, <2>1 DEF BackupStart, Goto, Empty, Present, Folders
  <2>3. ExtractPhase(d)'
    BY <1>12, <2>1 DEF BackupStart, Goto, Empty, Present, Folders
  <2>4. AppPhase(d)'
    BY <1>12, <2>1 DEF BackupStart, Goto, Empty, Present, Folders
  <2>5. BackupPhase(d)'
    <3>1. backup'[d] = Empty /\ Empty \in Folders
      BY <1>12 DEF BackupStart, Goto, Empty, Folders, Versions
    <3>2. todo'[d] = Present(before) /\ before' = before /\ pc'[d] = "backup"
      BY <1>12, <2>1 DEF BackupStart, Goto
    <3>. QED
      BY <3>1, <3>2 DEF Empty, Present
  <2>6. NothingLost'
    BY <1>12, <2>1 DEF BackupStart, Goto, Empty, Present, Folders
  <2>. QED
    BY <2>1, <2>2, <2>3, <2>4, <2>5, <2>6
<1>13. ASSUME NEW d \in Deployments, BackupOk(d) PROVE SerialInv'
  BY <1>13 DEF BackupOk, Goto
<1>14. ASSUME NEW d \in Deployments, BackupFails(d) PROVE SerialInv'
  BY <1>14 DEF BackupFails, Fail, Goto, Publish
<1>15. ASSUME NEW d \in Deployments, UpdateStart(d) PROVE SerialInv'
  BY <1>15 DEF UpdateStart, Goto, Present
<1>16. ASSUME NEW d \in Deployments, UpdateOk(d) PROVE SerialInv'
  BY <1>16 DEF UpdateOk, Goto
<1>17. ASSUME NEW d \in Deployments, UpdateFails(d) PROVE SerialInv'
  BY <1>17 DEF UpdateFails, Goto
<1>18. ASSUME NEW d \in Deployments, CheckAppFile(d) PROVE SerialInv'
  BY <1>18 DEF CheckAppFile, Goto
<1>19. ASSUME NEW d \in Deployments, Cleanup(d) PROVE SerialInv'
  <2>1. d = current /\ current' = current
    BY <1>19 DEF Cleanup, Goto
  <2>2. Alone'
    BY <1>19, <2>1 DEF Cleanup, Goto, Folders
  <2>3. ExtractPhase(d)'
    BY <1>19, <2>1 DEF Cleanup, Goto, Folders
  <2>4. AppPhase(d)'
    BY <1>19, <2>1 DEF Cleanup, Goto, Folders
  <2>5. BackupPhase(d)'
    BY <1>19, <2>1 DEF Cleanup, Goto, Folders
  <2>6. NothingLost'
    BY <1>19, <2>1 DEF Cleanup, Goto, Folders
  <2>. QED
    BY <2>1, <2>2, <2>3, <2>4, <2>5, <2>6
<1>20. ASSUME NEW d \in Deployments, Complete(d) PROVE SerialInv'
  BY <1>20 DEF Complete, Goto, Publish
<1>21. ASSUME NEW d \in Deployments, RollbackStart(d) PROVE SerialInv'
  BY <1>21 DEF RollbackStart, Goto, Present
<1>22. ASSUME NEW d \in Deployments, RollbackDeleted(d) PROVE SerialInv'
  BY <1>22 DEF RollbackDeleted, Goto, Present
<1>23. ASSUME NEW d \in Deployments, RollbackOk(d) PROVE SerialInv'
  BY <1>23 DEF RollbackOk, Goto
<1>24. ASSUME NEW d \in Deployments, RollbackGivesUp(d) PROVE SerialInv'
  BY <1>24 DEF RollbackGivesUp, Goto
<1>25. ASSUME NEW d \in Deployments, ReportRollback(d) PROVE SerialInv'
  BY <1>25 DEF ReportRollback, Goto, Publish
<1>26. ASSUME NEW d \in Deployments, Return(d) PROVE SerialInv'
  BY <1>26 DEF Return, Goto
<1>27. ASSUME NEW d \in Deployments, ScheduleRestart(d) PROVE SerialInv'
  BY <1>27 DEF ScheduleRestart, Goto
<1>28. ASSUME NEW d \in Deployments, Throw(d) PROVE SerialInv'
  BY <1>28 DEF Throw, Goto, Publish
<1>29. ASSUME NEW d \in Deployments, NEW f \in Files, ExtractFile(d, f) PROVE SerialInv'
  <2>1. d = current /\ pc' = pc /\ current' = current
    BY <1>29 DEF ExtractFile, Treat
  <2>2. Alone'
    BY <1>29, <2>1 DEF ExtractFile, Treat, Folders
  <2>3. ExtractPhase(d)'
    BY <1>29, <2>1 DEF ExtractFile, Treat, Folders
  <2>4. AppPhase(d)'
    BY <1>29, <2>1 DEF ExtractFile, Treat, Folders
  <2>5. BackupPhase(d)'
    BY <1>29, <2>1 DEF ExtractFile, Treat, Folders
  <2>6. NothingLost'
    BY <1>29, <2>1 DEF ExtractFile, Treat, Folders
  <2>. QED
    BY <2>1, <2>2, <2>3, <2>4, <2>5, <2>6
<1>30. ASSUME NEW d \in Deployments, NEW f \in Files, BackupFile(d, f) PROVE SerialInv'
  <2>1. d = current /\ pc' = pc /\ current' = current
    BY <1>30 DEF BackupFile, Treat
  <2>2. Alone'
    BY <1>30, <2>1 DEF BackupFile, Treat, Folders
  <2>3. ExtractPhase(d)'
    BY <1>30, <2>1 DEF BackupFile, Treat, Folders
  <2>4. AppPhase(d)'
    BY <1>30, <2>1 DEF BackupFile, Treat, Folders
  <2>5. BackupPhase(d)'
    BY <1>30, <2>1 DEF BackupFile, Treat, Folders
  <2>6. NothingLost'
    BY <1>30, <2>1 DEF BackupFile, Treat, Folders
  <2>. QED
    BY <2>1, <2>2, <2>3, <2>4, <2>5, <2>6
<1>31. ASSUME NEW d \in Deployments, NEW f \in Files, UpdateFile(d, f) PROVE SerialInv'
  <2>1. d = current /\ pc' = pc /\ current' = current
    BY <1>31 DEF UpdateFile, Treat
  <2>2. Alone'
    BY <1>31, <2>1 DEF UpdateFile, Treat, Folders
  <2>3. ExtractPhase(d)'
    BY <1>31, <2>1 DEF UpdateFile, Treat, Folders
  <2>4. AppPhase(d)'
    BY <1>31, <2>1 DEF UpdateFile, Treat, Folders
  <2>5. BackupPhase(d)'
    BY <1>31, <2>1 DEF UpdateFile, Treat, Folders
  <2>6. NothingLost'
    BY <1>31, <2>1 DEF UpdateFile, Treat, Folders
  <2>. QED
    BY <2>1, <2>2, <2>3, <2>4, <2>5, <2>6
<1>32. ASSUME NEW d \in Deployments, NEW f \in Files, RollbackDeleteFile(d, f) PROVE SerialInv'
  <2>1. d = current /\ pc' = pc /\ current' = current
    BY <1>32 DEF RollbackDeleteFile, Treat
  <2>2. Alone'
    BY <1>32, <2>1 DEF RollbackDeleteFile, Treat, Folders
  <2>3. ExtractPhase(d)'
    BY <1>32, <2>1 DEF RollbackDeleteFile, Treat, Folders
  <2>4. AppPhase(d)'
    BY <1>32, <2>1 DEF RollbackDeleteFile, Treat, Folders
  <2>5. BackupPhase(d)'
    BY <1>32, <2>1 DEF RollbackDeleteFile, Treat, Folders
  <2>6. NothingLost'
    BY <1>32, <2>1 DEF RollbackDeleteFile, Treat, Folders
  <2>. QED
    BY <2>1, <2>2, <2>3, <2>4, <2>5, <2>6
<1>33. ASSUME NEW d \in Deployments, NEW f \in Files, RollbackCopyFile(d, f) PROVE SerialInv'
  <2>1. d = current /\ pc' = pc /\ current' = current
    BY <1>33 DEF RollbackCopyFile, Treat
  <2>2. Alone'
    BY <1>33, <2>1 DEF RollbackCopyFile, Treat, Folders
  <2>3. ExtractPhase(d)'
    BY <1>33, <2>1 DEF RollbackCopyFile, Treat, Folders
  <2>4. AppPhase(d)'
    BY <1>33, <2>1 DEF RollbackCopyFile, Treat, Folders
  <2>5. BackupPhase(d)'
    BY <1>33, <2>1 DEF RollbackCopyFile, Treat, Folders
  <2>6. NothingLost'
    BY <1>33, <2>1 DEF RollbackCopyFile, Treat, Folders
  <2>. QED
    BY <2>1, <2>2, <2>3, <2>4, <2>5, <2>6
<1>34. CASE StopService
  BY <1>34 DEF StopService
<1>35. CASE Exit
  BY SMTT(30), <1>35 DEF Exit, Interrupted, InFlight
<1>36. CASE StartService
  BY <1>36 DEF StartService
<1>37. CASE Reboot
  BY SMTT(30), <1>37 DEF Reboot, Boot, Interrupted, InFlight
<1>38. CASE PowerLoss
  BY <1>38 DEF PowerLoss, Boot, Interrupted, InFlight
<1>. QED
  BY <1>1, <1>2, <1>3, <1>4, <1>5, <1>6, <1>7, <1>8, <1>9, <1>10, <1>11, <1>12, <1>13, <1>14, <1>15, <1>16, <1>17, <1>18, <1>19, <1>20, <1>21, <1>22, <1>23, <1>24, <1>25, <1>26, <1>27, <1>28, <1>29, <1>30, <1>31, <1>32, <1>33, <1>34, <1>35, <1>36, <1>37, <1>38 DEF Next, Step, FileStep, Machine

(***************************************************************************)
(* The verdicts of an agent whose deployments do not overlap are truthful, *)
(* for every number of deployments and files and every fault of the disk,  *)
(* the link, the service and the machine.                                  *)
(***************************************************************************)
LEMMA SerialInvariantHolds ==
  ASSUME ~Overlap
  PROVE  Spec => []SerialInv
<1>1. Init => SerialInv
  BY PatchAgentAssumption
     DEF Init, SerialInv, Alone, InFlight, Phase, NothingLost, Active, Loops, Delays
<1>. QED
  BY <1>1, TypeCorrect, SerialInvariant, PTL DEF Spec

(***************************************************************************)
(* A checked deployment that reports SUCCESS has installed exactly its     *)
(* patch.                                                                  *)
(***************************************************************************)
THEOREM SuccessIsTruthful ==
  ASSUME ~Overlap
  PROVE  Spec => []SuccessMeansInstalled
<1>1. TypeOK /\ SerialInv => SuccessMeansInstalled
  <2>. SUFFICES ASSUME TypeOK, SerialInv, NEW d \in Checked, pc[d] = "success_delay"
                PROVE  app = Patched(d)
    BY DEF SuccessMeansInstalled
  <2>1. d = current /\ d \in Deployments /\ current # None
    BY PatchAgentAssumption DEF SerialInv, Alone, InFlight, Active, Delays
  <2>2. \A f \in Files : app[f] = Overlaid(f)
    BY <2>1 DEF SerialInv, Phase, AppPhase, Updated
  <2>3. \A f \in Files : /\ update[f] # Absent <=> f \in Contents[PatchOf[d]]
                         /\ update[f] \in {Absent, PatchOf[d]}
    BY <2>1 DEF SerialInv, Phase, ExtractPhase, Extracted
  <2>4. \A f \in Files : app[f] = Patched(d)[f]
    BY <2>2, <2>3 DEF Overlaid, Patched
  <2>. QED
    BY <2>4 DEF Patched, TypeOK, Folders
<1>. QED
  BY <1>1, TypeCorrect, SerialInvariantHolds, PTL

(***************************************************************************)
(* A deployment that reports FAILED has not touched the application.       *)
(***************************************************************************)
THEOREM FailureIsHarmless ==
  ASSUME ~Overlap
  PROVE  Spec => []FailureLeavesAppUntouched
<1>1. SerialInv => FailureLeavesAppUntouched
  BY PatchAgentAssumption
     DEF SerialInv, Alone, InFlight, Active, Delays, Phase, AppPhase, Untouched,
         FailureLeavesAppUntouched
<1>. QED
  BY <1>1, SerialInvariantHolds, PTL

(***************************************************************************)
(* A rollback whose copy came to its end has restored the application.     *)
(***************************************************************************)
THEOREM CompletedRollbackRestores ==
  ASSUME ~Overlap
  PROVE  Spec => []RollbackRestores
<1>1. SerialInv => RollbackRestores
  BY PatchAgentAssumption
     DEF SerialInv, Alone, InFlight, Active, Delays, Phase, AppPhase, RolledBack, RollbackRestores
<1>. QED
  BY <1>1, SerialInvariantHolds, PTL

(***************************************************************************)
(* Whatever interrupts the last deployment, the version it found is in the *)
(* application folder or in its backup, or the patch is fully in place.    *)
(***************************************************************************)
THEOREM NothingIsLost ==
  ASSUME ~Overlap
  PROVE  Spec => []NothingLost
<1>1. SerialInv => NothingLost
  BY DEF SerialInv
<1>. QED
  BY <1>1, SerialInvariantHolds, PTL
-----------------------------------------------------------------------------
(***************************************************************************)
(* Refinement: every step of the agent is a step of DeploymentReports, or *)
(* leaves its variables alone.  Boot and Exit end all the deployments that *)
(* are in flight at once.                                                  *)
(***************************************************************************)
LEMMA RefinementStep == TypeOK /\ [Next]_vars => [Reports!Next]_(Reports!vars)
<1>. SUFFICES ASSUME TypeOK, [Next]_vars PROVE [Reports!Next]_(Reports!vars)
  OBVIOUS
<1>. USE DEF TypeOK, reportStage, Reports!vars, Active, Ended, Loops, Delays
<1>1. CASE UNCHANGED vars
  BY <1>1 DEF vars
<1>2. ASSUME NEW d \in Deployments, Receive(d) PROVE Reports!Begin(d)
  BY <1>2 DEF Receive, Goto, Reports!Begin
<1>3. ASSUME NEW d \in Deployments, DownloadOk(d) PROVE Reports!ReportDownload(d)
  BY <1>3 DEF DownloadOk, Goto, Publish, Reports!ReportDownload, Reports!Message, Reports!Deliver
<1>4. ASSUME NEW d \in Deployments, DownloadFails(d) PROVE Reports!ReportVerdict(d)
  BY <1>4 DEF DownloadFails, Fail, Goto, Publish, Reports!ReportVerdict, Reports!Message, Reports!Deliver, Reports!Verdict, Phases
<1>5. ASSUME NEW d \in Deployments, ValidateFails(d) PROVE Reports!ReportVerdict(d)
  BY <1>5 DEF ValidateFails, Fail, Goto, Publish, Reports!ReportVerdict, Reports!Message, Reports!Deliver, Reports!Verdict, Phases
<1>6. ASSUME NEW d \in Deployments, ExtractFails(d) PROVE Reports!ReportVerdict(d)
  BY ZenonT(40), <1>6 DEF ExtractFails, Fail, Goto, Publish, Reports!ReportVerdict, Reports!Message, Reports!Deliver, Reports!Verdict, Phases
<1>7. ASSUME NEW d \in Deployments, StopFails(d) PROVE Reports!ReportVerdict(d)
  BY ZenonT(40), <1>7 DEF StopFails, Fail, Goto, Publish, Reports!ReportVerdict, Reports!Message, Reports!Deliver, Reports!Verdict, Phases
<1>8. ASSUME NEW d \in Deployments, BackupFails(d) PROVE Reports!ReportVerdict(d)
  BY ZenonT(40), <1>8 DEF BackupFails, Fail, Goto, Publish, Reports!ReportVerdict, Reports!Message, Reports!Deliver, Reports!Verdict, Phases
<1>9. ASSUME NEW d \in Deployments, Complete(d) PROVE Reports!ReportVerdict(d)
  BY <1>9 DEF Complete, Goto, Publish, Reports!ReportVerdict, Reports!Message, Reports!Deliver, Reports!Verdict, Phases
<1>10. ASSUME NEW d \in Deployments, ReportRollback(d) PROVE Reports!ReportVerdict(d)
  BY <1>10 DEF ReportRollback, Goto, Publish, Reports!ReportVerdict, Reports!Message, Reports!Deliver, Reports!Verdict, Phases
<1>11. ASSUME NEW d \in Deployments, ValidateOk(d) PROVE UNCHANGED Reports!vars
  BY <1>11 DEF ValidateOk, Goto
<1>12. ASSUME NEW d \in Deployments, Clean(d) PROVE UNCHANGED Reports!vars
  BY <1>12 DEF Clean, Goto, Empty
<1>13. ASSUME NEW d \in Deployments, ExtractOk(d) PROVE UNCHANGED Reports!vars
  BY <1>13 DEF ExtractOk, Goto
<1>14. ASSUME NEW d \in Deployments, StopOk(d) PROVE UNCHANGED Reports!vars
  BY <1>14 DEF StopOk, Goto
<1>15. ASSUME NEW d \in Deployments, BackupStart(d) PROVE UNCHANGED Reports!vars
  BY <1>15 DEF BackupStart, Goto, Empty, Present
<1>16. ASSUME NEW d \in Deployments, BackupOk(d) PROVE UNCHANGED Reports!vars
  BY <1>16 DEF BackupOk, Goto
<1>17. ASSUME NEW d \in Deployments, UpdateStart(d) PROVE UNCHANGED Reports!vars
  BY <1>17 DEF UpdateStart, Goto, Present
<1>18. ASSUME NEW d \in Deployments, UpdateOk(d) PROVE UNCHANGED Reports!vars
  BY <1>18 DEF UpdateOk, Goto
<1>19. ASSUME NEW d \in Deployments, UpdateFails(d) PROVE UNCHANGED Reports!vars
  BY <1>19 DEF UpdateFails, Goto
<1>20. ASSUME NEW d \in Deployments, CheckAppFile(d) PROVE UNCHANGED Reports!vars
  BY <1>20 DEF CheckAppFile, Goto
<1>21. ASSUME NEW d \in Deployments, Cleanup(d) PROVE UNCHANGED Reports!vars
  BY <1>21 DEF Cleanup, Goto
<1>22. ASSUME NEW d \in Deployments, RollbackStart(d) PROVE UNCHANGED Reports!vars
  BY <1>22 DEF RollbackStart, Goto, Present
<1>23. ASSUME NEW d \in Deployments, RollbackDeleted(d) PROVE UNCHANGED Reports!vars
  BY <1>23 DEF RollbackDeleted, Goto, Present
<1>24. ASSUME NEW d \in Deployments, RollbackOk(d) PROVE UNCHANGED Reports!vars
  BY <1>24 DEF RollbackOk, Goto
<1>25. ASSUME NEW d \in Deployments, RollbackGivesUp(d) PROVE UNCHANGED Reports!vars
  BY <1>25 DEF RollbackGivesUp, Goto
<1>26. ASSUME NEW d \in Deployments, NEW f \in Files, ExtractFile(d, f) PROVE UNCHANGED Reports!vars
  BY <1>26 DEF ExtractFile, Treat
<1>27. ASSUME NEW d \in Deployments, NEW f \in Files, BackupFile(d, f) PROVE UNCHANGED Reports!vars
  BY <1>27 DEF BackupFile, Treat
<1>28. ASSUME NEW d \in Deployments, NEW f \in Files, UpdateFile(d, f) PROVE UNCHANGED Reports!vars
  BY <1>28 DEF UpdateFile, Treat
<1>29. ASSUME NEW d \in Deployments, NEW f \in Files, RollbackDeleteFile(d, f) PROVE UNCHANGED Reports!vars
  BY <1>29 DEF RollbackDeleteFile, Treat
<1>30. ASSUME NEW d \in Deployments, NEW f \in Files, RollbackCopyFile(d, f) PROVE UNCHANGED Reports!vars
  BY <1>30 DEF RollbackCopyFile, Treat
<1>31. ASSUME NEW d \in Deployments, Return(d) PROVE Reports!End
  <2>. DEFINE S == {d}
  <2>1. /\ S \subseteq {e \in Deployments : reportStage[e] # "none"}
        /\ reportStage' = [e \in Deployments |-> IF e \in S THEN "ended" ELSE reportStage[e]]
    BY <1>31 DEF Return, Goto
  <2>. QED
    BY <1>31, <2>1 DEF Return, Goto, Reports!End
<1>32. ASSUME NEW d \in Deployments, ScheduleRestart(d) PROVE Reports!End
  <2>. DEFINE S == {d}
  <2>1. /\ S \subseteq {e \in Deployments : reportStage[e] # "none"}
        /\ reportStage' = [e \in Deployments |-> IF e \in S THEN "ended" ELSE reportStage[e]]
    BY <1>32 DEF ScheduleRestart, Goto
  <2>. QED
    BY <1>32, <2>1 DEF ScheduleRestart, Goto, Reports!End
<1>33. ASSUME NEW d \in Deployments, Throw(d) PROVE Reports!End
  <2>. DEFINE S == {d}
  <2>1. /\ S \subseteq {e \in Deployments : reportStage[e] # "none"}
        /\ reportStage' = [e \in Deployments |-> IF e \in S THEN "ended" ELSE reportStage[e]]
    BY <1>33 DEF Throw, Goto, Publish
  <2>. QED
    BY <1>33, <2>1 DEF Throw, Goto, Publish, Reports!End
<1>34. ASSUME Exit PROVE Reports!End
  <2>. DEFINE S == {e \in Deployments : InFlight(e)}
  <2>1. /\ S \subseteq {e \in Deployments : reportStage[e] # "none"}
        /\ reportStage' = [e \in Deployments |-> IF e \in S THEN "ended" ELSE reportStage[e]]
    BY <1>34 DEF Exit, Interrupted, InFlight
  <2>. QED
    BY <1>34, <2>1 DEF Exit, Interrupted, InFlight, Reports!End
<1>35. ASSUME Reboot PROVE Reports!End
  <2>. DEFINE S == {e \in Deployments : InFlight(e)}
  <2>1. /\ S \subseteq {e \in Deployments : reportStage[e] # "none"}
        /\ reportStage' = [e \in Deployments |-> IF e \in S THEN "ended" ELSE reportStage[e]]
    BY <1>35 DEF Reboot, Boot, Interrupted, InFlight
  <2>. QED
    BY <1>35, <2>1 DEF Reboot, Boot, Interrupted, InFlight, Reports!End
<1>36. ASSUME PowerLoss PROVE Reports!End
  <2>. DEFINE S == {e \in Deployments : InFlight(e)}
  <2>1. /\ S \subseteq {e \in Deployments : reportStage[e] # "none"}
        /\ reportStage' = [e \in Deployments |-> IF e \in S THEN "ended" ELSE reportStage[e]]
    BY <1>36 DEF PowerLoss, Boot, Interrupted, InFlight
  <2>. QED
    BY <1>36, <2>1 DEF PowerLoss, Boot, Interrupted, InFlight, Reports!End
<1>37. CASE StopService
  BY <1>37 DEF StopService
<1>38. CASE StartService
  BY <1>38 DEF StartService
<1>. QED
  BY <1>1, <1>2, <1>3, <1>4, <1>5, <1>6, <1>7, <1>8, <1>9, <1>10, <1>11, <1>12, <1>13, <1>14, <1>15, <1>16, <1>17, <1>18, <1>19, <1>20, <1>21, <1>22, <1>23, <1>24, <1>25, <1>26, <1>27, <1>28, <1>29, <1>30, <1>31, <1>32, <1>33, <1>34, <1>35, <1>36, <1>37, <1>38 DEF Next, Step, FileStep, Machine, Reports!Next

(***************************************************************************)
(* PatchAgent implements DeploymentReports, overlapping or not.            *)
(***************************************************************************)
THEOREM ReportsImplemented == Spec => KeepsReportOrder
<1>1. Init => Reports!Init
  BY DEF Init, reportStage, Reports!Init
<1>. QED
  BY <1>1, RefinementStep, TypeCorrect, PTL DEF Spec, Reports!Spec, KeepsReportOrder
=============================================================================
