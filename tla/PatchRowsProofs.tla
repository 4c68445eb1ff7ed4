---------------------------- MODULE PatchRowsProofs ----------------------------
(***************************************************************************)
(* Theorems about PatchRows, for every value of its constants: any number  *)
(* of patches, rows, tasks, requests and operations, any bound on the      *)
(* clock, and tasks that overlap in any way.                               *)
(***************************************************************************)
EXTENDS PatchRows, SequenceTheorems, TLAPS

(***************************************************************************)
(* A save leaves a record with the patch the row had, and takes each       *)
(* column either from the row or from the entity saved.                    *)
(***************************************************************************)
LEMMA MergedRecord ==
  ASSUME NEW held \in Records, NEW seen \in Records, NEW next \in Records
  PROVE  /\ Merged(held, seen, next) \in Records
         /\ Merged(held, seen, next).patch = held.patch
         /\ Merged(held, seen, next).status \in {held.status, next.status}
         /\ Merged(held, seen, next).final \in {held.final, next.final}
         /\ next.final = seen.final => Merged(held, seen, next).final = held.final
BY DEF Merged, Records

(***************************************************************************)
(* What the handlers make of a record is a record of the same patch.       *)
(***************************************************************************)
LEMMA NewRecordType ==
  ASSUME NEW p \in Patches, NEW status \in Statuses, NEW start \in Times
  PROVE  NewRecord(p, status, start) \in Records
BY DEF NewRecord, Records

LEMMA RestartedType ==
  ASSUME NEW seen \in Records
  PROVE  Restarted(seen) \in Records
<1>1. seen.attempts \in Nat /\ seen.attempts + 1 \in Nat
  BY DEF Records
<1>. DEFINE status == IF seen.attempts >= AttemptLimit THEN "INIT" ELSE "RESTART"
            attempts == seen.attempts + 1
<1>2. status \in Statuses /\ attempts \in Nat
  BY <1>1 DEF Statuses
<1>3. Restarted(seen) = [seen EXCEPT !.status = status, !.attempts = attempts]
  BY DEF Restarted
<1>. HIDE DEF status, attempts
<1>. QED  BY <1>2, <1>3 DEF Records

LEMMA ResumedType ==
  ASSUME NEW seen \in Records, now \in Times
  PROVE  Resumed(seen) \in Records
<1>1. seen.attempts \in Nat /\ seen.attempts + 1 \in Nat
  BY DEF Records
<1>. DEFINE attempts == seen.attempts + 1
<1>2. attempts \in Nat /\ "INIT" \in Statuses
  BY <1>1 DEF Statuses
<1>3. Resumed(seen) = [seen EXCEPT !.status = "INIT", !.attempts = attempts, !.start = now]
  BY DEF Resumed
<1>. HIDE DEF attempts
<1>. QED  BY <1>2, <1>3 DEF Records

LEMMA ReportedType ==
  ASSUME NEW seen \in Records, NEW m \in Reports
  PROVE  Reported(seen, m) \in Records
BY DEF Reported, Records, Reports, Statuses

(***************************************************************************)
(* handlePatchProgress gives the row the status of the report, and marks    *)
(* it final only when the report is about no step under way.               *)
(***************************************************************************)
LEMMA ReportedTells ==
  ASSUME NEW seen \in Records, NEW m \in Reports
  PROVE  /\ Reported(seen, m).status = m.status
         /\ Reported(seen, m).final # seen.final =>
              m.status # "IN_PROGRESS" /\ ~(Downloading(m) /\ m.status = "SUCCESS")
BY DEF Reported, Records, Downloading

(***************************************************************************)
(* The branch says only what it may say.                                   *)
(***************************************************************************)
LEMMA VerdictType ==
  ASSUME NEW i \in Requests, NEW at, NEW m \in Branch!Verdict(i, at)
  PROVE  m \in Reports /\ m.dep = i /\ m.status # "IN_PROGRESS"
BY DEF Branch!Verdict, Branch!Message, Reports

(***************************************************************************)
(* A report of the branch: one of its requests says something, and it is   *)
(* lost, or it is queued for the server and retained.                      *)
(***************************************************************************)
LEMMA BranchReport ==
  ASSUME NEW i \in Requests, TypeOK, BranchReports(i)
  PROVE  /\ stage[i] # "none"
         /\ stage' \in [Requests -> {"none", "started", "downloaded", "judged"}]
         /\ \A k \in Requests : stage[k] # "none" <=> stage'[k] # "none"
         /\ UNCHANGED <<rows, tasks, sent, now, asked, crossed>>
         /\ \/ UNCHANGED <<published, inbox, retained, latest>>
            \/ \E m \in Reports : /\ m.dep = i /\ m.status # "IN_PROGRESS"
                                  /\ m \notin published
                                  /\ published' = published \cup {m}
                                  /\ inbox' = Append(inbox, m)
                                  /\ retained' = m
                                  /\ latest' = [latest EXCEPT ![sent[i]] = m]
<1>1. /\ stage[i] # "none"
      /\ \/ stage' = [stage EXCEPT ![i] = "downloaded"]
         \/ stage' = [stage EXCEPT ![i] = "judged"]
  BY DEF BranchReports, Branch!ReportDownload, Branch!ReportVerdict, TypeOK
<1>2. \E m \in Reports : /\ m.dep = i /\ m.status # "IN_PROGRESS"
                         /\ published' \in {published, published \cup {m}}
  <2>1. CASE Branch!ReportDownload(i)
    <3>1. Branch!Message(i, "SUCCESS", "DOWNLOAD") \in Reports
      BY DEF Branch!Message, Reports
    <3>. QED  BY <2>1, <3>1 DEF Branch!ReportDownload, Branch!Deliver, Branch!Message
  <2>2. CASE Branch!ReportVerdict(i)
    BY <2>2, VerdictType DEF Branch!ReportVerdict, Branch!Deliver
  <2>. QED  BY <2>1, <2>2 DEF BranchReports
<1>3. /\ stage' \in [Requests -> {"none", "started", "downloaded", "judged"}]
      /\ \A k \in Requests : stage[k] # "none" <=> stage'[k] # "none"
  BY <1>1 DEF TypeOK
<1>4. UNCHANGED <<rows, tasks, sent, now, asked, crossed>>
  BY DEF BranchReports
<1>5. CASE published' = published
  BY <1>1, <1>3, <1>4, <1>5 DEF BranchReports
<1>6. CASE published' # published
  <2>1. PICK m \in Reports : /\ m.dep = i /\ m.status # "IN_PROGRESS"
                             /\ published' = published \cup {m} /\ m \notin published
    BY <1>2, <1>6
  <2>2. /\ inbox' = Append(inbox, m) /\ retained' = m
        /\ latest' = [latest EXCEPT ![sent[i]] = m]
    BY <1>6, <2>1 DEF BranchReports
  <2>. QED  BY <1>1, <1>3, <1>4, <2>1, <2>2
<1>. QED  BY <1>5, <1>6

-----------------------------------------------------------------------------
(***************************************************************************)
(* What a task holds between its reading and its saving: a deployment      *)
(* brings no verdict and no final mark of its own, and the row it saves    *)
(* is in the table, for the patch it is about.                             *)
(***************************************************************************)
HeldByDeploy(t) ==
  /\ tasks[t].next.patch = tasks[t].patch
  /\ tasks[t].next.status \notin Verdicts
  /\ tasks[t].row = None => ~tasks[t].next.final
  /\ tasks[t].row # None =>
       /\ tasks[t].row \in Used
       /\ rows[tasks[t].row].patch = tasks[t].patch
       /\ tasks[t].seen \in Records
       /\ tasks[t].next.final = tasks[t].seen.final

HeldByReport(t) ==
  tasks[t].at = "save" =>
    /\ tasks[t].row \in Used
    /\ rows[tasks[t].row].patch = sent[tasks[t].msg.dep]

HeldInv ==
  \A t \in Tasks : /\ tasks[t].kind = "deploy" => HeldByDeploy(t)
                   /\ tasks[t].kind = "report" => HeldByReport(t)

(***************************************************************************)
(* A deployment that begins is well formed.                                *)
(***************************************************************************)
LEMMA BeginsWell ==
  ASSUME TypeOK, NEW t \in Tasks, NEW all \in BOOLEAN, NEW send \in BOOLEAN,
         NEW at \in {"save", "publish"}, NEW p \in Patches, NEW r \in Rows \cup {None},
         NEW next \in Records, r # None => rows[r] \in Records,
         BeginDeploy(t, all, send, at, p, r, next)
  PROVE  TypeOK'
<1>. DEFINE seen == IF r = None THEN None ELSE rows[r]
            task == [kind |-> "deploy", at |-> at, all |-> all, send |-> send, patch |-> p,
                     row |-> r, seen |-> seen, next |-> next]
<1>1. seen \in Records \cup {None}
  OBVIOUS
<1>2. tasks' = [tasks EXCEPT ![t] = task]
  BY DEF BeginDeploy
<1>. HIDE DEF seen
<1>3. task \in DeployTasks
  BY <1>1 DEF DeployTasks
<1>. HIDE DEF task
<1>4. tasks' \in [Tasks -> {Idle} \cup DeployTasks \cup ReportTasks]
  BY <1>2, <1>3 DEF TypeOK
<1>5. asked' \in 0..MaxOperations
  BY PatchRowsAssumption DEF BeginDeploy, TypeOK
<1>6. crossed' \in [Kinds -> SUBSET Patches]
  BY DEF BeginDeploy, TypeOK
<1>. QED  BY <1>4, <1>5, <1>6 DEF TypeOK, BeginDeploy, branch

LEMMA UsedRecord ==
  ASSUME TypeOK, NEW r \in Used
  PROVE  r \in Rows /\ rows[r] \in Records
BY DEF TypeOK, Used

LEMMA DeployType ==
  ASSUME TypeOK, NEW t \in Tasks, NEW p \in Patches,
         \/ DeployBranch(t, p)
         \/ DeployAll(t, p)
         \/ \E start \in Times : Schedule(t, p, start)
  PROVE  TypeOK'
<1>1. now \in Times /\ "INIT" \in Statuses /\ "SCHEDULE" \in Statuses
  BY DEF TypeOK, Statuses
<1>2. CASE DeployBranch(t, p)
  <2>. DEFINE next(r) == IF r = None THEN NewRecord(p, "INIT", now) ELSE Restarted(rows[r])
  <2>1. PICK r \in AnyOf(RowsOf(p)) : BeginDeploy(t, FALSE, TRUE, "save", p, r, next(r))
    BY <1>2 DEF DeployBranch
  <2>2. r \in Rows \cup {None} /\ (r # None => rows[r] \in Records)
    BY <2>1, UsedRecord DEF AnyOf, RowsOf
  <2>3. next(r) \in Records
    BY <1>1, <2>2, NewRecordType, RestartedType
  <2>. HIDE DEF next
  <2>. QED  BY <2>1, <2>2, <2>3, BeginsWell
<1>3. CASE DeployAll(t, p)
  <2>. DEFINE next(r) == IF r = None THEN NewRecord(p, "INIT", now) ELSE Resumed(rows[r])
  <2>1. PICK r \in AnyOf(NewestOf(p)) : BeginDeploy(t, TRUE, TRUE, "publish", p, r, next(r))
    BY <1>3 DEF DeployAll
  <2>2. r \in Rows \cup {None} /\ (r # None => rows[r] \in Records)
    BY <2>1, UsedRecord DEF AnyOf, NewestOf, RowsOf
  <2>3. next(r) \in Records
    BY <1>1, <2>2, NewRecordType, ResumedType
  <2>. HIDE DEF next
  <2>. QED  BY <2>1, <2>2, <2>3, BeginsWell
<1>4. ASSUME NEW start \in Times, Schedule(t, p, start) PROVE TypeOK'
  <2>. DEFINE next(r) == IF r = None THEN NewRecord(p, "SCHEDULE", start) ELSE Resumed(rows[r])
  <2>1. PICK r \in AnyOf(NewestOf(p)) : BeginDeploy(t, TRUE, FALSE, "save", p, r, next(r))
    BY <1>4 DEF Schedule
  <2>2. r \in Rows \cup {None} /\ (r # None => rows[r] \in Records)
    BY <2>1, UsedRecord DEF AnyOf, NewestOf, RowsOf
  <2>3. next(r) \in Records
    BY <1>1, <2>2, NewRecordType, ResumedType
  <2>. HIDE DEF next
  <2>. QED  BY <2>1, <2>2, <2>3, BeginsWell
<1>. QED  BY <1>2, <1>3, <1>4

LEMMA TaskKinds ==
  ASSUME TypeOK, NEW t \in Tasks
  PROVE  /\ tasks[t].kind = "deploy" => tasks[t] \in DeployTasks
         /\ tasks[t].kind = "report" => tasks[t] \in ReportTasks
         /\ tasks[t].kind = "report" => tasks[t].msg \in Reports
         /\ tasks[t].kind = "report" /\ tasks[t].at = "save" =>
              tasks[t].row \in Rows /\ tasks[t].seen \in Records
         /\ tasks[t] # Idle => tasks[t].kind \in {"deploy", "report"}
BY DEF TypeOK, Idle, DeployTasks, ReportTasks

LEMMA FinishType ==
  ASSUME TypeOK, NEW t \in Tasks, Finish(t)
  PROVE  tasks' \in [Tasks -> {Idle} \cup DeployTasks \cup ReportTasks]
BY DEF Finish, TypeOK

(***************************************************************************)
(* What one save does to the table.                                        *)
(***************************************************************************)
LEMMA SaveType ==
  ASSUME TypeOK, NEW r \in Used, NEW seen \in Records, NEW next \in Records,
         Save(r, seen, next)
  PROVE  /\ rows' \in [Rows -> Records \cup {None}]
         /\ rows'[r] = Merged(rows[r], seen, next)
         /\ rows'[r] \in Records
         /\ \A q \in Rows : q # r => rows'[q] = rows[q]
<1>1. r \in Rows /\ rows[r] \in Records
  BY UsedRecord
<1>2. Merged(rows[r], seen, next) \in Records
  BY <1>1, MergedRecord
<1>. QED  BY <1>1, <1>2 DEF Save, TypeOK

LEMMA DeploySaveType ==
  ASSUME TypeOK, HeldInv, NEW t \in Tasks, DeploySave(t)
  PROVE  /\ rows' \in [Rows -> Records \cup {None}]
         /\ tasks' \in [Tasks -> {Idle} \cup DeployTasks \cup ReportTasks]
         /\ \/ /\ tasks[t].row \in Used
               /\ Save(tasks[t].row, tasks[t].seen, tasks[t].next)
            \/ /\ tasks[t].row = None
               /\ \E r \in FreeKeys : rows' = [rows EXCEPT ![r] = tasks[t].next]
<1>1. tasks[t] \in DeployTasks /\ HeldByDeploy(t)
  BY TaskKinds DEF DeploySave, HeldInv
<1>2. tasks[t].next \in Records
  BY <1>1 DEF DeployTasks
<1>3. tasks' \in [Tasks -> {Idle} \cup DeployTasks \cup ReportTasks]
  <2>1. CASE Finish(t)
    BY <2>1, FinishType
  <2>2. CASE tasks' = [tasks EXCEPT ![t].at = "publish"]
    <3>1. [tasks[t] EXCEPT !.at = "publish"] \in DeployTasks
      BY <1>1 DEF DeployTasks
    <3>. QED  BY <2>2, <3>1 DEF TypeOK
  <2>. QED  BY <2>1, <2>2 DEF DeploySave
<1>4. CASE tasks[t].row # None
  <2>1. tasks[t].row \in Used /\ tasks[t].seen \in Records
    BY <1>1, <1>4 DEF HeldByDeploy
  <2>2. Save(tasks[t].row, tasks[t].seen, tasks[t].next)
    BY <1>4 DEF DeploySave
  <2>. QED  BY <1>2, <1>3, <2>1, <2>2, SaveType
<1>5. CASE tasks[t].row = None
  <2>1. PICK r \in FreeKeys : rows' = [rows EXCEPT ![r] = tasks[t].next]
    BY <1>5 DEF DeploySave
  <2>2. rows' \in [Rows -> Records \cup {None}]
    BY <1>2, <2>1 DEF TypeOK
  <2>. QED  BY <1>3, <1>5, <2>1, <2>2
<1>. QED  BY <1>4, <1>5

LEMMA ReportSaveType ==
  ASSUME TypeOK, HeldInv, NEW t \in Tasks, ReportSave(t)
  PROVE  /\ rows' \in [Rows -> Records \cup {None}]
         /\ tasks' = [tasks EXCEPT ![t] = Idle]
         /\ tasks[t].row \in Used
         /\ Save(tasks[t].row, tasks[t].seen, Reported(tasks[t].seen, tasks[t].msg))
<1>1. /\ tasks[t].kind = "report" /\ tasks[t].at = "save"
      /\ tasks[t].msg \in Reports /\ tasks[t].seen \in Records /\ HeldByReport(t)
  BY TaskKinds DEF ReportSave, HeldInv
<1>2. /\ tasks' = [tasks EXCEPT ![t] = Idle]
      /\ Save(tasks[t].row, tasks[t].seen, Reported(tasks[t].seen, tasks[t].msg))
  BY DEF ReportSave, Finish
<1>3. tasks[t].row \in Used
  BY <1>1 DEF HeldByReport
<1>4. Reported(tasks[t].seen, tasks[t].msg) \in Records
  BY <1>1, ReportedType
<1>. QED  BY <1>1, <1>2, <1>3, <1>4, SaveType

(***************************************************************************)
(* Only requests that were sent are deployed, and every report in the      *)
(* inbox, at the broker or in the hands of a task is one the branch has    *)
(* published, or the news that a download has begun.                       *)
(***************************************************************************)
Genuine(m) ==
  /\ m.dep \in 1..Len(sent)
  /\ m.status = "IN_PROGRESS" \/ m \in published

CarriedInv ==
  /\ \A i \in Requests : stage[i] # "none" => i \in 1..Len(sent)
  /\ \A m \in published : Genuine(m)
  /\ \A k \in 1..Len(inbox) : Genuine(inbox[k])
  /\ retained # None => Genuine(retained)
  /\ \A t \in Tasks : tasks[t].kind = "report" => Genuine(tasks[t].msg)

-----------------------------------------------------------------------------
LEMMA TypeStep == TypeOK /\ HeldInv /\ CarriedInv /\ [Next]_vars => TypeOK'
<1>. SUFFICES ASSUME TypeOK, HeldInv, CarriedInv, [Next]_vars PROVE TypeOK'
  OBVIOUS
<1>. USE PatchRowsAssumption
<1>1. CASE UNCHANGED vars
  BY <1>1 DEF vars, branch, TypeOK
<1>2. ASSUME NEW p \in Patches, DeployAllSkips(p) PROVE TypeOK'
  BY <1>2 DEF DeployAllSkips, TypeOK, branch
<1>3. ASSUME NEW t \in Tasks, NEW p \in Patches,
             \/ DeployBranch(t, p) \/ DeployAll(t, p)
             \/ \E start \in Times : Schedule(t, p, start)
      PROVE  TypeOK'
  BY <1>3, DeployType
<1>4. ASSUME NEW t \in Tasks, DeploySave(t) PROVE TypeOK'
  <2>1. latest' \in [Patches -> Reports \cup {None}]
    BY <1>4 DEF DeploySave, TypeOK
  <2>. QED  BY <1>4, <2>1, DeploySaveType DEF DeploySave, TypeOK, branch
<1>5. ASSUME NEW t \in Tasks, DeployPublish(t) PROVE TypeOK'
  <2>1. tasks[t] \in DeployTasks
    BY <1>5, TaskKinds DEF DeployPublish
  <2>2. tasks' \in [Tasks -> {Idle} \cup DeployTasks \cup ReportTasks]
    <3>1. [tasks[t] EXCEPT !.at = "save"] \in DeployTasks
      BY <2>1 DEF DeployTasks
    <3>2. CASE Finish(t)
      BY <3>2, FinishType
    <3>3. CASE tasks' = [tasks EXCEPT ![t].at = "save"]
      BY <3>1, <3>3 DEF TypeOK
    <3>. QED  BY <1>5, <3>2, <3>3 DEF DeployPublish
  <2>3. tasks[t].patch \in Patches
    BY <2>1 DEF DeployTasks
  <2>4. sent' \in Seq(Patches) /\ Len(sent') <= MaxRequests
    <3>1. CASE UNCHANGED sent
      BY <3>1 DEF TypeOK
    <3>2. CASE Len(sent) < MaxRequests /\ sent' = Append(sent, tasks[t].patch)
      <4>1. sent \in Seq(Patches)
        BY DEF TypeOK
      <4>2. sent' \in Seq(Patches) /\ Len(sent') = Len(sent) + 1
        BY <2>3, <3>2, <4>1, AppendProperties
      <4>. QED  BY <3>2, <4>1, <4>2
    <3>. QED  BY <1>5, <3>1, <3>2 DEF DeployPublish, Send
  <2>. QED  BY <1>5, <2>2, <2>4 DEF DeployPublish, TypeOK, branch
<1>6. ASSUME NEW t \in Tasks, ReceiveReport(t) PROVE TypeOK'
  <2>1. Head(inbox) \in Reports /\ inbox' \in Seq(Reports)
    BY <1>6 DEF ReceiveReport, TypeOK
  <2>2. [kind |-> "report", at |-> "read", msg |-> Head(inbox)] \in ReportTasks
    BY <2>1 DEF ReportTasks
  <2>3. PatchOfReport(Head(inbox)) \in Patches
    <3>1. Genuine(Head(inbox))
      BY <1>6 DEF ReceiveReport, CarriedInv, TypeOK
    <3>. QED  BY <3>1 DEF Genuine, PatchOfReport, TypeOK
  <2>4. crossed' \in [Kinds -> SUBSET Patches]
    BY <1>6, <2>3 DEF ReceiveReport, TypeOK
  <2>. QED  BY <1>6, <2>1, <2>2, <2>4 DEF ReceiveReport, TypeOK, branch
<1>7. ASSUME NEW t \in Tasks, ReportRead(t) PROVE TypeOK'
  <2>1. tasks[t].msg \in Reports
    BY <1>7, TaskKinds DEF ReportRead
  <2>2. tasks' \in [Tasks -> {Idle} \cup DeployTasks \cup ReportTasks]
    <3>1. PICK r \in AnyOf(RowsOf(PatchOfReport(tasks[t].msg))) :
            IF Ignored(tasks[t].msg, r)
            THEN Finish(t)
            ELSE tasks' = [tasks EXCEPT ![t] =
                   [kind |-> "report", at |-> "save", msg |-> tasks[t].msg, row |-> r, seen |-> rows[r]]]
      BY <1>7 DEF ReportRead
    <3>2. CASE Ignored(tasks[t].msg, r)
      BY <3>1, <3>2, FinishType
    <3>3. CASE ~Ignored(tasks[t].msg, r)
      <4>1. r \in Rows /\ rows[r] \in Records
        BY <3>3, UsedRecord DEF Ignored, AnyOf, RowsOf
      <4>2. [kind |-> "report", at |-> "save", msg |-> tasks[t].msg, row |-> r, seen |-> rows[r]]
              \in ReportTasks
        BY <2>1, <4>1 DEF ReportTasks
      <4>. QED  BY <3>1, <3>3, <4>2 DEF TypeOK
    <3>. QED  BY <3>2, <3>3
  <2>. QED  BY <1>7, <2>2 DEF ReportRead, TypeOK, branch
<1>8. ASSUME NEW t \in Tasks, ReportSave(t) PROVE TypeOK'
  <2>1. rows' \in [Rows -> Records \cup {None}] /\ Finish(t)
    BY <1>8, ReportSaveType DEF ReportSave
  <2>. QED  BY <1>8, <2>1, FinishType DEF ReportSave, TypeOK, branch
<1>9. ASSUME NEW t \in Tasks, TaskThrows(t) PROVE TypeOK'
  <2>1. latest' \in [Patches -> Reports \cup {None}]
    BY <1>9 DEF TaskThrows, Forget, TypeOK
  <2>. QED  BY <1>9, <2>1, FinishType DEF TaskThrows, TypeOK, branch
<1>10. ASSUME NEW i \in Requests, BranchBegins(i) PROVE TypeOK'
  <2>1. Branch!Message(i, "IN_PROGRESS", "DOWNLOAD") \in Reports
    BY DEF Branch!Message, Reports
  <2>2. inbox' \in Seq(Reports) /\ latest' \in [Patches -> Reports \cup {None}]
    <3>1. CASE UNCHANGED <<inbox, latest>>
      BY <3>1 DEF TypeOK
    <3>2. CASE /\ inbox' = Append(inbox, Branch!Message(i, "IN_PROGRESS", "DOWNLOAD"))
               /\ latest' = [latest EXCEPT ![sent[i]] = None]
      BY <2>1, <3>2, AppendProperties DEF TypeOK
    <3>. QED  BY <1>10, <3>1, <3>2 DEF BranchBegins
  <2>3. stage' \in [Requests -> {"none", "started", "downloaded", "judged"}] /\ published' = published
    BY <1>10 DEF BranchBegins, Branch!Begin, TypeOK
  <2>. QED  BY <1>10, <2>2, <2>3 DEF BranchBegins, TypeOK
<1>11. ASSUME NEW i \in Requests, BranchReports(i) PROVE TypeOK'
  <2>1. CASE UNCHANGED <<published, inbox, retained, latest>>
    BY <1>11, <2>1, BranchReport DEF TypeOK
  <2>2. CASE \E m \in Reports : /\ published' = published \cup {m}
                                /\ inbox' = Append(inbox, m)
                                /\ retained' = m
                                /\ latest' = [latest EXCEPT ![sent[i]] = m]
    <3>1. PICK m \in Reports : /\ published' = published \cup {m}
                               /\ inbox' = Append(inbox, m)
                               /\ retained' = m
                               /\ latest' = [latest EXCEPT ![sent[i]] = m]
      BY <2>2
    <3>2. inbox' \in Seq(Reports)
      BY <3>1, AppendProperties DEF TypeOK
    <3>. QED  BY <1>11, <3>1, <3>2, BranchReport DEF TypeOK
  <2>. QED  BY <1>11, <2>1, <2>2, BranchReport
<1>12. CASE Resubscribe
  <2>1. inbox' \in Seq(Reports)
    BY <1>12 DEF Resubscribe, TypeOK
  <2>2. latest' \in [Patches -> Reports \cup {None}]
    BY <1>12 DEF Resubscribe, Forget, TypeOK
  <2>. QED  BY <1>12, <2>1, <2>2 DEF Resubscribe, TypeOK, branch
<1>13. CASE Tick
  BY <1>13 DEF Tick, TypeOK, Times, branch
<1>. QED
  BY <1>1, <1>2, <1>3, <1>4, <1>5, <1>6, <1>7, <1>8, <1>9, <1>10, <1>11, <1>12, <1>13
     DEF Next, Deploy, TaskStep, BranchStep

-----------------------------------------------------------------------------
(***************************************************************************)
(* Rows are never deleted and keep their patch, what was sent stays sent,  *)
(* and what was published stays published.                                 *)
(***************************************************************************)
RowsGrow == \A r \in Used : r \in Used' /\ rows'[r].patch = rows[r].patch

SentGrows == \A i \in 1..Len(sent) : i \in 1..Len(sent') /\ sent'[i] = sent[i]

Grows == RowsGrow /\ SentGrows /\ published \subseteq published'

LEMMA SaveGrows ==
  ASSUME TypeOK, NEW r \in Used, NEW seen \in Records, NEW next \in Records,
         Save(r, seen, next)
  PROVE  RowsGrow
<1>1. rows'[r].patch = rows[r].patch /\ rows'[r] \in Records
  BY UsedRecord, SaveType, MergedRecord
<1>2. \A q \in Rows : q # r => rows'[q] = rows[q]
  BY SaveType
<1>. QED  BY <1>1, <1>2, PatchRowsAssumption DEF RowsGrow, Used

LEMMA SendGrows ==
  ASSUME TypeOK, NEW p \in Patches, Send(p)
  PROVE  SentGrows
<1>1. sent \in Seq(Patches)
  BY DEF TypeOK
<1>2. CASE UNCHANGED sent
  BY <1>2 DEF SentGrows
<1>3. CASE sent' = Append(sent, p)
  <2>1. Len(sent') = Len(sent) + 1 /\ \A i \in 1..Len(sent) : sent'[i] = sent[i]
    BY <1>1, <1>3, AppendProperties
  <2>2. Len(sent) \in Nat
    BY <1>1
  <2>. QED  BY <2>1, <2>2 DEF SentGrows
<1>. QED  BY <1>2, <1>3 DEF Send

LEMMA GrowsStep == TypeOK /\ HeldInv /\ [Next]_vars => Grows
<1>. SUFFICES ASSUME TypeOK, HeldInv, [Next]_vars PROVE Grows
  OBVIOUS
<1>1. CASE UNCHANGED <<rows, sent, published>>
  BY <1>1 DEF Grows, RowsGrow, SentGrows, Used
<1>2. ASSUME NEW t \in Tasks, DeploySave(t) PROVE Grows
  <2>1. RowsGrow
    <3>1. CASE Save(tasks[t].row, tasks[t].seen, tasks[t].next) /\ tasks[t].row \in Used
      <4>1. tasks[t] \in DeployTasks /\ tasks[t].seen \in Records
        BY <1>2, <3>1, TaskKinds, PatchRowsAssumption DEF DeploySave, HeldInv, HeldByDeploy, Used
      <4>2. tasks[t].next \in Records
        BY <4>1 DEF DeployTasks
      <4>. QED  BY <3>1, <4>1, <4>2, SaveGrows
    <3>2. CASE \E r \in FreeKeys : rows' = [rows EXCEPT ![r] = tasks[t].next]
      BY <3>2 DEF RowsGrow, FreeKeys, Used, TypeOK
    <3>. QED  BY <1>2, <3>1, <3>2, DeploySaveType
  <2>. QED  BY <1>2, <2>1 DEF DeploySave, Grows, SentGrows, branch
<1>3. ASSUME NEW t \in Tasks, ReportSave(t) PROVE Grows
  <2>1. tasks[t].seen \in Records /\ Reported(tasks[t].seen, tasks[t].msg) \in Records
    BY <1>3, TaskKinds, ReportedType DEF ReportSave
  <2>2. RowsGrow
    BY <1>3, <2>1, ReportSaveType, SaveGrows
  <2>. QED  BY <1>3, <2>2 DEF ReportSave, Grows, SentGrows, branch
<1>4. ASSUME NEW t \in Tasks, DeployPublish(t) PROVE Grows
  <2>1. tasks[t].patch \in Patches
    BY <1>4, TaskKinds DEF DeployPublish, DeployTasks
  <2>2. SentGrows
    BY <1>4, <2>1, SendGrows DEF DeployPublish
  <2>. QED  BY <1>4, <2>2 DEF DeployPublish, Grows, RowsGrow, Used, branch
<1>5. ASSUME NEW i \in Requests, BranchReports(i) PROVE Grows
  BY <1>5, BranchReport DEF Grows, RowsGrow, SentGrows, Used
<1>6. ASSUME NEW i \in Requests, BranchBegins(i) PROVE Grows
  BY <1>1, <1>6 DEF BranchBegins, Branch!Begin
<1>7. ASSUME NEW t \in Tasks, ReceiveReport(t) \/ ReportRead(t) \/ TaskThrows(t) PROVE Grows
  BY <1>1, <1>7 DEF ReceiveReport, ReportRead, TaskThrows, branch
<1>8. CASE Deploy \/ Resubscribe \/ Tick
  BY <1>1, <1>8 DEF Deploy, DeployAllSkips, DeployBranch, DeployAll, Schedule, BeginDeploy,
                    Resubscribe, Tick, branch
<1>9. CASE UNCHANGED vars
  BY <1>1, <1>9 DEF vars, branch
<1>. QED
  BY <1>2, <1>3, <1>4, <1>5, <1>6, <1>7, <1>8, <1>9 DEF Next, TaskStep, BranchStep

-----------------------------------------------------------------------------
LEMMA StillGenuine ==
  ASSUME Grows, NEW m, Genuine(m)
  PROVE  Genuine(m)'
BY DEF Grows, SentGrows, Genuine

(***************************************************************************)
(* A step that brings no new report keeps the reports genuine.             *)
(***************************************************************************)
LEMMA CarriedFrame ==
  ASSUME CarriedInv, Grows, UNCHANGED <<stage, published, retained>>,
         \A k \in 1..Len(inbox') : Genuine(inbox'[k]),
         \A t \in Tasks : tasks'[t].kind = "report" => Genuine(tasks'[t].msg)
  PROVE  CarriedInv'
<1>1. \A i \in Requests : stage'[i] # "none" => i \in 1..Len(sent')
  BY DEF CarriedInv, Grows, SentGrows
<1>2. \A m \in published' : Genuine(m)'
  BY StillGenuine DEF CarriedInv
<1>3. \A k \in 1..Len(inbox') : Genuine(inbox[k])'
  BY DEF Genuine, Grows, SentGrows
<1>4. retained' # None => Genuine(retained)'
  BY DEF Genuine, Grows, SentGrows, CarriedInv
<1>5. \A t \in Tasks : tasks'[t].kind = "report" => Genuine(tasks[t].msg)'
  BY DEF Genuine, Grows, SentGrows
<1>. QED  BY <1>1, <1>2, <1>3, <1>4, <1>5 DEF CarriedInv

LEMMA CarriedStep == TypeOK /\ HeldInv /\ CarriedInv /\ [Next]_vars => CarriedInv'
<1>. SUFFICES ASSUME TypeOK, HeldInv, CarriedInv, [Next]_vars PROVE CarriedInv'
  OBVIOUS
<1>. Grows
  BY GrowsStep
<1>1. CASE UNCHANGED <<stage, published, retained, inbox>> /\
           \A t \in Tasks : tasks'[t].kind = "report" => tasks[t].kind = "report" /\ tasks'[t].msg = tasks[t].msg
  BY <1>1, CarriedFrame DEF CarriedInv
<1>2. CASE UNCHANGED vars \/ Tick
  BY <1>1, <1>2 DEF vars, branch, Tick
<1>3. ASSUME NEW t \in Tasks, Finish(t), UNCHANGED <<branch, retained, inbox>> PROVE CarriedInv'
  <2>1. \A u \in Tasks : tasks'[u].kind = "report" => tasks[u].kind = "report" /\ tasks'[u].msg = tasks[u].msg
    BY <1>3 DEF Finish, Idle, TypeOK
  <2>. QED  BY <1>1, <1>3, <2>1 DEF branch
<1>4. CASE Deploy
  <2>1. ASSUME NEW t \in Tasks, NEW task, task.kind = "deploy", tasks' = [tasks EXCEPT ![t] = task]
        PROVE  \A u \in Tasks : tasks'[u].kind = "report" => tasks[u].kind = "report" /\ tasks'[u].msg = tasks[u].msg
    BY <2>1 DEF TypeOK
  <2>2. ASSUME NEW t \in Tasks, NEW p \in Patches,
               DeployBranch(t, p) \/ DeployAll(t, p) \/ \E start \in Times : Schedule(t, p, start)
        PROVE  CarriedInv'
    <3>1. UNCHANGED <<stage, published, retained, inbox>> /\
          \E task : task.kind = "deploy" /\ tasks' = [tasks EXCEPT ![t] = task]
      BY <2>2 DEF DeployBranch, DeployAll, Schedule, BeginDeploy, branch
    <3>. QED  BY <1>1, <2>1, <3>1
  <2>3. ASSUME NEW p \in Patches, DeployAllSkips(p) PROVE CarriedInv'
    BY <1>1, <2>3 DEF DeployAllSkips, branch
  <2>. QED  BY <1>4, <2>2, <2>3 DEF Deploy
<1>5. ASSUME NEW t \in Tasks, DeploySave(t) \/ DeployPublish(t) PROVE CarriedInv'
  <2>1. ASSUME NEW at, tasks' = [tasks EXCEPT ![t].at = at]
        PROVE  \A u \in Tasks : tasks'[u].kind = "report" => tasks[u].kind = "report" /\ tasks'[u].msg = tasks[u].msg
    <3>1. tasks[t] \in DeployTasks
      BY <1>5, TaskKinds DEF DeploySave, DeployPublish
    <3>2. tasks'[t].kind = "deploy"
      BY <2>1, <3>1 DEF DeployTasks, TypeOK
    <3>. QED  BY <2>1, <3>2 DEF TypeOK
  <2>. QED  BY <1>1, <1>3, <1>5, <2>1 DEF DeploySave, DeployPublish, branch
<1>6. ASSUME NEW t \in Tasks, ReceiveReport(t) PROVE CarriedInv'
  <2>1. Len(inbox) \in Nat \ {0} /\ Head(inbox) = inbox[1]
        /\ Len(Tail(inbox)) = Len(inbox) - 1 /\ \A k \in 1..Len(Tail(inbox)) : Tail(inbox)[k] = inbox[k + 1]
    BY <1>6 DEF ReceiveReport, TypeOK
  <2>2. \A k \in 1..Len(inbox') : Genuine(inbox'[k])
    BY <1>6, <2>1 DEF ReceiveReport, CarriedInv
  <2>3. \A u \in Tasks : tasks'[u].kind = "report" => Genuine(tasks'[u].msg)
    BY <1>6, <2>1 DEF ReceiveReport, CarriedInv, TypeOK
  <2>. QED  BY <1>6, <2>2, <2>3, CarriedFrame DEF ReceiveReport, branch
<1>7. ASSUME NEW t \in Tasks, ReportRead(t) PROVE CarriedInv'
  <2>1. ASSUME NEW task, task.kind = "report", task.msg = tasks[t].msg, tasks' = [tasks EXCEPT ![t] = task]
        PROVE  \A u \in Tasks : tasks'[u].kind = "report" => tasks[u].kind = "report" /\ tasks'[u].msg = tasks[u].msg
    BY <1>7, <2>1 DEF ReportRead, TypeOK
  <2>2. \/ Finish(t)
        \/ \E task : task.kind = "report" /\ task.msg = tasks[t].msg /\ tasks' = [tasks EXCEPT ![t] = task]
    BY <1>7 DEF ReportRead
  <2>. QED  BY <1>1, <1>3, <1>7, <2>1, <2>2 DEF ReportRead, branch
<1>8. ASSUME NEW t \in Tasks, ReportSave(t) \/ TaskThrows(t) PROVE CarriedInv'
  BY <1>3, <1>8 DEF ReportSave, TaskThrows
<1>9. ASSUME NEW i \in Requests, BranchBegins(i) PROVE CarriedInv'
  <2>1. i \in 1..Len(sent) /\ UNCHANGED <<tasks, sent, retained, published>>
    BY <1>9, PatchRowsAssumption DEF BranchBegins, Branch!Begin, Requests, TypeOK
  <2>2. \A k \in Requests : stage'[k] # "none" => stage[k] # "none" \/ k = i
    BY <1>9 DEF BranchBegins, Branch!Begin, TypeOK
  <2>3. \A k \in 1..Len(inbox') : Genuine(inbox'[k])
    <3>1. CASE inbox' = inbox
      BY <3>1 DEF CarriedInv
    <3>2. CASE inbox' = Append(inbox, Branch!Message(i, "IN_PROGRESS", "DOWNLOAD"))
      <4>. DEFINE m == Branch!Message(i, "IN_PROGRESS", "DOWNLOAD")
      <4>1. Genuine(m) /\ m \in Reports
        BY <2>1 DEF Genuine, Branch!Message, Reports
      <4>. HIDE DEF m
      <4>2. /\ Len(inbox') = Len(inbox) + 1 /\ Len(inbox) \in Nat
            /\ \A k \in 1..Len(inbox) : inbox'[k] = inbox[k]
            /\ inbox'[Len(inbox) + 1] = m
        BY <3>2, <4>1, AppendProperties DEF TypeOK, m
      <4>. QED  BY <4>1, <4>2 DEF CarriedInv
    <3>. QED  BY <1>9, <3>1, <3>2 DEF BranchBegins
  <2>. QED  BY <2>1, <2>2, <2>3 DEF CarriedInv, Genuine
<1>10. ASSUME NEW i \in Requests, BranchReports(i) PROVE CarriedInv'
  <2>1. /\ UNCHANGED <<tasks, sent>> /\ i \in 1..Len(sent)
        /\ \A k \in Requests : stage'[k] # "none" => stage[k] # "none"
    BY <1>10, BranchReport DEF CarriedInv
  <2>2. CASE UNCHANGED <<published, inbox, retained, latest>>
    BY <2>1, <2>2 DEF CarriedInv, Genuine
  <2>3. ASSUME NEW m \in Reports, m.dep = i, published' = published \cup {m},
               inbox' = Append(inbox, m), retained' = m
        PROVE  CarriedInv'
    <3>1. Genuine(m)'
      BY <2>1, <2>3 DEF Genuine
    <3>2. /\ Len(inbox') = Len(inbox) + 1 /\ Len(inbox) \in Nat
          /\ \A k \in 1..Len(inbox) : inbox'[k] = inbox[k]
          /\ inbox'[Len(inbox) + 1] = m
      BY <2>3, AppendProperties DEF TypeOK
    <3>3. \A k \in 1..Len(inbox') : Genuine(inbox[k])'
      BY <2>1, <2>3, <3>1, <3>2 DEF CarriedInv, Genuine
    <3>. QED  BY <2>1, <2>3, <3>1, <3>3 DEF CarriedInv, Genuine
  <2>. QED  BY <1>10, <2>2, <2>3, BranchReport
<1>11. CASE Resubscribe
  <2>1. \A k \in 1..Len(inbox') : Genuine(inbox'[k])
    BY <1>11 DEF Resubscribe, CarriedInv
  <2>. QED  BY <1>11, <2>1, CarriedFrame DEF Resubscribe, branch, CarriedInv
<1>. QED
  BY <1>2, <1>4, <1>5, <1>6, <1>7, <1>8, <1>9, <1>10, <1>11 DEF Next, TaskStep, BranchStep

-----------------------------------------------------------------------------
(***************************************************************************)
(* What a task holds stays right while others work on the table.           *)
(***************************************************************************)
LEMMA DeployHolds ==
  ASSUME Grows, NEW t \in Tasks, HeldByDeploy(t),
         tasks'[t].patch = tasks[t].patch, tasks'[t].row = tasks[t].row,
         tasks'[t].seen = tasks[t].seen, tasks'[t].next = tasks[t].next
  PROVE  HeldByDeploy(t)'
BY DEF Grows, RowsGrow, HeldByDeploy

LEMMA ReportHolds ==
  ASSUME Grows, CarriedInv, NEW t \in Tasks, tasks[t].kind = "report", HeldByReport(t),
         tasks'[t] = tasks[t]
  PROVE  HeldByReport(t)'
BY DEF Grows, RowsGrow, SentGrows, HeldByReport, CarriedInv, Genuine

LEMMA OthersHold ==
  ASSUME Grows, HeldInv, CarriedInv, NEW t \in Tasks, tasks'[t] = tasks[t]
  PROVE  /\ tasks'[t].kind = "deploy" => HeldByDeploy(t)'
         /\ tasks'[t].kind = "report" => HeldByReport(t)'
BY DeployHolds, ReportHolds DEF HeldInv

(***************************************************************************)
(* A task that changes and holds nothing afterwards.                       *)
(***************************************************************************)
LEMMA HeldFrame ==
  ASSUME TypeOK, Grows, HeldInv, CarriedInv, NEW t \in Tasks,
         NEW task, tasks' = [tasks EXCEPT ![t] = task],
         task.kind = "deploy" => HeldByDeploy(t)',
         task.kind = "report" => HeldByReport(t)'
  PROVE  HeldInv'
<1>1. \A u \in Tasks : u # t => tasks'[u] = tasks[u]
  BY DEF TypeOK
<1>2. tasks'[t] = task
  BY DEF TypeOK
<1>3. ASSUME NEW u \in Tasks
      PROVE  /\ tasks'[u].kind = "deploy" => HeldByDeploy(u)'
             /\ tasks'[u].kind = "report" => HeldByReport(u)'
  BY <1>1, <1>2, OthersHold
<1>. QED  BY <1>3 DEF HeldInv

LEMMA HeldBegin ==
  ASSUME TypeOK, Grows, HeldInv, CarriedInv,
         NEW t \in Tasks, NEW all, NEW send, NEW at, NEW p \in Patches,
         NEW r \in Rows \cup {None}, NEW next \in Records,
         BeginDeploy(t, all, send, at, p, r, next),
         next.patch = p, next.status \notin Verdicts,
         r = None => ~next.final,
         r # None => r \in Used /\ rows[r].patch = p /\ next.final = rows[r].final
  PROVE  HeldInv'
<1>. DEFINE seen == IF r = None THEN None ELSE rows[r]
            task == [kind |-> "deploy", at |-> at, all |-> all, send |-> send, patch |-> p,
                     row |-> r, seen |-> seen, next |-> next]
<1>1. tasks' = [tasks EXCEPT ![t] = task] /\ rows' = rows
  BY DEF BeginDeploy
<1>2. tasks'[t] = task
  BY <1>1 DEF TypeOK
<1>3. r # None => seen \in Records /\ seen.final = rows[r].final
  BY UsedRecord
<1>. HIDE DEF seen
<1>4. /\ tasks'[t].patch = p /\ tasks'[t].row = r /\ tasks'[t].seen = seen
      /\ tasks'[t].next = next /\ task.kind = "deploy"
  BY <1>2
<1>5. HeldByDeploy(t)'
  BY <1>1, <1>3, <1>4 DEF HeldByDeploy, Used
<1>. HIDE DEF task
<1>. QED  BY <1>1, <1>4, <1>5, HeldFrame

LEMMA HeldDeploy ==
  ASSUME TypeOK, Grows, HeldInv, CarriedInv, NEW t \in Tasks, NEW p \in Patches,
         \/ DeployBranch(t, p)
         \/ DeployAll(t, p)
         \/ \E start \in Times : Schedule(t, p, start)
  PROVE  HeldInv'
<1>1. now \in Times /\ "INIT" \in Statuses /\ "SCHEDULE" \in Statuses
  BY DEF TypeOK, Statuses
<1>2. ASSUME NEW status \in {"INIT", "SCHEDULE"}, NEW start \in Times
      PROVE  /\ NewRecord(p, status, start).patch = p /\ ~NewRecord(p, status, start).final
             /\ NewRecord(p, status, start).status \notin Verdicts
  BY DEF NewRecord, Verdicts
<1>3. ASSUME NEW seen \in Records
      PROVE  /\ Restarted(seen).patch = seen.patch /\ Restarted(seen).final = seen.final
             /\ Restarted(seen).status \notin Verdicts
             /\ Resumed(seen).patch = seen.patch /\ Resumed(seen).final = seen.final
             /\ Resumed(seen).status \notin Verdicts
  BY DEF Restarted, Resumed, Verdicts, Records
<1>4. CASE DeployBranch(t, p)
  <2>. DEFINE next(r) == IF r = None THEN NewRecord(p, "INIT", now) ELSE Restarted(rows[r])
  <2>1. PICK r \in AnyOf(RowsOf(p)) : BeginDeploy(t, FALSE, TRUE, "save", p, r, next(r))
    BY <1>4 DEF DeployBranch
  <2>2. /\ r \in Rows \cup {None}
        /\ r # None => r \in Used /\ rows[r] \in Records /\ rows[r].patch = p
    BY <2>1, UsedRecord DEF AnyOf, RowsOf
  <2>3. /\ next(r) \in Records /\ next(r).patch = p /\ next(r).status \notin Verdicts
        /\ r = None => ~next(r).final
        /\ r # None => next(r).final = rows[r].final
    BY <1>1, <1>2, <1>3, <2>2, NewRecordType, RestartedType
  <2>. HIDE DEF next
  <2>. QED  BY <2>1, <2>2, <2>3, HeldBegin
<1>5. CASE DeployAll(t, p)
  <2>. DEFINE next(r) == IF r = None THEN NewRecord(p, "INIT", now) ELSE Resumed(rows[r])
  <2>1. PICK r \in AnyOf(NewestOf(p)) : BeginDeploy(t, TRUE, TRUE, "publish", p, r, next(r))
    BY <1>5 DEF DeployAll
  <2>2. /\ r \in Rows \cup {None}
        /\ r # None => r \in Used /\ rows[r] \in Records /\ rows[r].patch = p
    BY <2>1, UsedRecord DEF AnyOf, NewestOf, RowsOf
  <2>3. /\ next(r) \in Records /\ next(r).patch = p /\ next(r).status \notin Verdicts
        /\ r = None => ~next(r).final
        /\ r # None => next(r).final = rows[r].final
    BY <1>1, <1>2, <1>3, <2>2, NewRecordType, ResumedType
  <2>. HIDE DEF next
  <2>. QED  BY <2>1, <2>2, <2>3, HeldBegin
<1>6. ASSUME NEW start \in Times, Schedule(t, p, start) PROVE HeldInv'
  <2>. DEFINE next(r) == IF r = None THEN NewRecord(p, "SCHEDULE", start) ELSE Resumed(rows[r])
  <2>1. PICK r \in AnyOf(NewestOf(p)) : BeginDeploy(t, TRUE, FALSE, "save", p, r, next(r))
    BY <1>6 DEF Schedule
  <2>2. /\ r \in Rows \cup {None}
        /\ r # None => r \in Used /\ rows[r] \in Records /\ rows[r].patch = p
    BY <2>1, UsedRecord DEF AnyOf, NewestOf, RowsOf
  <2>3. /\ next(r) \in Records /\ next(r).patch = p /\ next(r).status \notin Verdicts
        /\ r = None => ~next(r).final
        /\ r # None => next(r).final = rows[r].final
    BY <1>1, <1>2, <1>3, <2>2, NewRecordType, ResumedType
  <2>. HIDE DEF next
  <2>. QED  BY <2>1, <2>2, <2>3, HeldBegin
<1>. QED  BY <1>4, <1>5, <1>6

LEMMA HeldStep == TypeOK /\ HeldInv /\ CarriedInv /\ [Next]_vars => HeldInv'
<1>. SUFFICES ASSUME TypeOK, HeldInv, CarriedInv, [Next]_vars PROVE HeldInv'
  OBVIOUS
<1>. Grows
  BY GrowsStep
<1>1. CASE UNCHANGED tasks
  BY <1>1, OthersHold DEF HeldInv
<1>2. ASSUME NEW t \in Tasks, Finish(t) PROVE HeldInv'
  BY <1>2, HeldFrame DEF Finish, Idle
<1>3. ASSUME NEW t \in Tasks, NEW p \in Patches,
             \/ DeployBranch(t, p) \/ DeployAll(t, p)
             \/ \E start \in Times : Schedule(t, p, start)
      PROVE  HeldInv'
  BY <1>3, HeldDeploy
<1>4. ASSUME NEW t \in Tasks, DeploySave(t) \/ DeployPublish(t) PROVE HeldInv'
  <2>1. tasks[t] \in DeployTasks /\ HeldByDeploy(t)
    BY <1>4, TaskKinds DEF DeploySave, DeployPublish, HeldInv
  <2>2. ASSUME NEW at, tasks' = [tasks EXCEPT ![t].at = at] PROVE HeldInv'
    <3>. DEFINE task == [tasks[t] EXCEPT !.at = at]
    <3>1. /\ task.kind = "deploy" /\ task.patch = tasks[t].patch /\ task.row = tasks[t].row
          /\ task.seen = tasks[t].seen /\ task.next = tasks[t].next
      BY <2>1 DEF DeployTasks
    <3>2. tasks' = [tasks EXCEPT ![t] = task]
      BY <2>2 DEF TypeOK
    <3>. HIDE DEF task
    <3>3. tasks'[t] = task
      BY <3>2 DEF TypeOK
    <3>4. HeldByDeploy(t)'
      BY <2>1, <3>1, <3>3, DeployHolds
    <3>. QED  BY <3>1, <3>2, <3>4, HeldFrame
  <2>. QED  BY <1>2, <1>4, <2>2 DEF DeploySave, DeployPublish
<1>5. ASSUME NEW t \in Tasks, ReceiveReport(t) PROVE HeldInv'
  <2>. DEFINE task == [kind |-> "report", at |-> "read", msg |-> Head(inbox)]
  <2>1. tasks' = [tasks EXCEPT ![t] = task] /\ tasks'[t] = task
    BY <1>5 DEF ReceiveReport, TypeOK
  <2>2. task.kind = "report" /\ HeldByReport(t)'
    BY <2>1 DEF HeldByReport
  <2>. HIDE DEF task
  <2>. QED  BY <2>1, <2>2, HeldFrame
<1>6. ASSUME NEW t \in Tasks, ReportRead(t) PROVE HeldInv'
  <2>1. PICK r \in AnyOf(RowsOf(PatchOfReport(tasks[t].msg))) :
          IF Ignored(tasks[t].msg, r)
          THEN Finish(t)
          ELSE tasks' = [tasks EXCEPT ![t] =
                 [kind |-> "report", at |-> "save", msg |-> tasks[t].msg, row |-> r, seen |-> rows[r]]]
    BY <1>6 DEF ReportRead
  <2>2. CASE Ignored(tasks[t].msg, r)
    BY <1>2, <2>1, <2>2
  <2>3. CASE ~Ignored(tasks[t].msg, r)
    <3>. DEFINE task == [kind |-> "report", at |-> "save", msg |-> tasks[t].msg, row |-> r, seen |-> rows[r]]
    <3>1. tasks' = [tasks EXCEPT ![t] = task] /\ tasks'[t] = task
      BY <2>1, <2>3 DEF TypeOK
    <3>2. r \in Used /\ rows[r].patch = sent[tasks[t].msg.dep]
      BY <2>1, <2>3 DEF Ignored, AnyOf, RowsOf, PatchOfReport
    <3>3. UNCHANGED <<rows, sent>>
      BY <1>6 DEF ReportRead
    <3>4. task.kind = "report" /\ HeldByReport(t)'
      BY <3>1, <3>2, <3>3 DEF HeldByReport, Used
    <3>. HIDE DEF task
    <3>. QED  BY <3>1, <3>4, HeldFrame
  <2>. QED  BY <2>2, <2>3
<1>7. ASSUME NEW t \in Tasks, ReportSave(t) \/ TaskThrows(t) PROVE HeldInv'
  BY <1>2, <1>7 DEF ReportSave, TaskThrows
<1>8. ASSUME NEW i \in Requests, BranchBegins(i) \/ BranchReports(i) PROVE HeldInv'
  BY <1>1, <1>8, BranchReport DEF BranchBegins
<1>9. ASSUME NEW p \in Patches, DeployAllSkips(p) PROVE HeldInv'
  BY <1>1, <1>9 DEF DeployAllSkips
<1>10. CASE Resubscribe \/ Tick \/ UNCHANGED vars
  BY <1>1, <1>10 DEF Resubscribe, Tick, vars
<1>. QED
  BY <1>3, <1>4, <1>5, <1>6, <1>7, <1>8, <1>9, <1>10 DEF Next, Deploy, TaskStep, BranchStep

-----------------------------------------------------------------------------
(***************************************************************************)
(* What a row claims of the branch, and that a claim once true stays true. *)
(***************************************************************************)
StatusTrue(r) ==
  rows[r].status \in Verdicts => \E m \in Heard(rows[r].patch) : m.status = rows[r].status

FinalTrue(r) == rows[r].final => \E m \in Heard(rows[r].patch) : JudgedBy(m)

RowsTrue == \A r \in Used : StatusTrue(r) /\ FinalTrue(r)

LEMMA HeardGrows ==
  ASSUME Grows, CarriedInv, NEW p
  PROVE  Heard(p) \subseteq Heard(p)'
BY DEF Grows, SentGrows, CarriedInv, Genuine, Heard

LEMMA RowStaysTrue ==
  ASSUME Grows, CarriedInv, NEW r \in Used, StatusTrue(r), FinalTrue(r), rows'[r] = rows[r]
  PROVE  StatusTrue(r)' /\ FinalTrue(r)'
<1>1. Heard(rows[r].patch) \subseteq Heard(rows[r].patch)'
  BY HeardGrows
<1>2. Heard(rows[r].patch)' = {m \in published' : sent'[m.dep] = rows'[r].patch}
  BY DEF Heard
<1>3. Heard(rows[r].patch) = {m \in published : sent[m.dep] = rows[r].patch}
  BY DEF Heard
<1>. QED
  BY <1>1, <1>2, <1>3 DEF StatusTrue, FinalTrue, Heard, JudgedBy

(***************************************************************************)
(* A save keeps a row true when the entity saved brings a status that is   *)
(* no verdict or was heard, and no final mark that was not heard.          *)
(***************************************************************************)
LEMMA SaveStaysTrue ==
  ASSUME TypeOK, Grows, CarriedInv, NEW r \in Used, StatusTrue(r), FinalTrue(r),
         NEW seen \in Records, NEW next \in Records, Save(r, seen, next),
         UNCHANGED <<published, sent>>,
         next.status \in Verdicts =>
           \E m \in Heard(rows[r].patch) : m.status = next.status,
         next.final # seen.final => \E m \in Heard(rows[r].patch) : JudgedBy(m)
  PROVE  StatusTrue(r)' /\ FinalTrue(r)'
<1>1. /\ rows'[r].patch = rows[r].patch
      /\ rows'[r].status \in {rows[r].status, next.status}
      /\ rows'[r].final \in {rows[r].final, next.final}
      /\ next.final = seen.final => rows'[r].final = rows[r].final
  BY UsedRecord, SaveType, MergedRecord
<1>2. \A p : Heard(p)' = Heard(p)
  BY DEF Heard
<1>3. StatusTrue(r)'
  BY <1>1, <1>2 DEF StatusTrue, Heard
<1>4. FinalTrue(r)'
  BY <1>1, <1>2 DEF FinalTrue, Heard, JudgedBy
<1>. QED  BY <1>3, <1>4

LEMMA TrueStep == TypeOK /\ HeldInv /\ CarriedInv /\ RowsTrue /\ [Next]_vars => RowsTrue'
<1>. SUFFICES ASSUME TypeOK, HeldInv, CarriedInv, RowsTrue, [Next]_vars PROVE RowsTrue'
  OBVIOUS
<1>. Grows
  BY GrowsStep
<1>1. CASE UNCHANGED rows
  BY <1>1, RowStaysTrue DEF RowsTrue, Used
<1>2. ASSUME NEW r \in Used, \A q \in Rows : q # r => rows'[q] = rows[q],
             StatusTrue(r)' /\ FinalTrue(r)'
      PROVE  RowsTrue'
  <2>1. ASSUME NEW q \in Used' PROVE StatusTrue(q)' /\ FinalTrue(q)'
    BY <1>2, <2>1, RowStaysTrue DEF RowsTrue, Used
  <2>. QED  BY <2>1 DEF RowsTrue
<1>3. ASSUME NEW t \in Tasks, DeploySave(t) PROVE RowsTrue'
  <2>1. tasks[t] \in DeployTasks /\ HeldByDeploy(t) /\ tasks[t].next \in Records
    BY <1>3, TaskKinds DEF DeploySave, HeldInv, DeployTasks
  <2>2. ASSUME NEW r \in Used, r = tasks[t].row,
               NEW seen, seen = tasks[t].seen, NEW next, next = tasks[t].next,
               Save(r, seen, next)
        PROVE  RowsTrue'
    <3>1. tasks[t].row # None /\ seen \in Records /\ next \in Records
      BY <2>1, <2>2, PatchRowsAssumption DEF HeldByDeploy, Used
    <3>2. UNCHANGED <<published, sent>>
      BY <1>3 DEF DeploySave, branch
    <3>3. next.status \notin Verdicts /\ next.final = seen.final
      BY <2>1, <2>2, <3>1 DEF HeldByDeploy
    <3>4. StatusTrue(r)' /\ FinalTrue(r)'
      BY <2>2, <3>1, <3>2, <3>3, SaveStaysTrue DEF RowsTrue
    <3>5. \A q \in Rows : q # r => rows'[q] = rows[q]
      BY <2>2, <3>1, SaveType
    <3>. QED  BY <1>2, <3>4, <3>5
  <2>3. ASSUME tasks[t].row = None, NEW r \in FreeKeys, rows' = [rows EXCEPT ![r] = tasks[t].next]
        PROVE  RowsTrue'
    <3>1. rows'[r] = tasks[t].next /\ \A q \in Rows : q # r => rows'[q] = rows[q]
      BY <2>3 DEF TypeOK, FreeKeys
    <3>2. StatusTrue(r)' /\ FinalTrue(r)'
      BY <2>1, <2>3, <3>1 DEF StatusTrue, FinalTrue, HeldByDeploy
    <3>3. ASSUME NEW q \in Used' PROVE StatusTrue(q)' /\ FinalTrue(q)'
      BY <3>1, <3>2, <3>3, RowStaysTrue DEF RowsTrue, Used
    <3>. QED  BY <3>3 DEF RowsTrue
  <2>. QED  BY <1>3, <2>2, <2>3, DeploySaveType
<1>4. ASSUME NEW t \in Tasks, ReportSave(t) PROVE RowsTrue'
  <2>. PICK m, r, seen, next : /\ m = tasks[t].msg
                               /\ r = tasks[t].row
                               /\ seen = tasks[t].seen
                               /\ next = Reported(seen, m)
    OBVIOUS
  <2>1. /\ tasks[t].kind = "report" /\ tasks[t].at = "save"
        /\ m \in Reports /\ seen \in Records /\ HeldByReport(t) /\ Genuine(m)
    BY <1>4, TaskKinds DEF ReportSave, HeldInv, CarriedInv
  <2>2. r \in Used /\ Save(r, seen, next) /\ rows[r].patch = sent[m.dep]
    BY <1>4, <2>1, ReportSaveType DEF HeldByReport
  <2>3. next \in Records /\ next.status = m.status
    BY <2>1, ReportedType, ReportedTells
  <2>4. next.final # seen.final => m.status # "IN_PROGRESS" /\ JudgedBy(m)
    BY <2>1, ReportedTells DEF JudgedBy, Downloading
  <2>5. m.status # "IN_PROGRESS" => m \in Heard(rows[r].patch)
    BY <2>1, <2>2 DEF Genuine, Heard
  <2>6. UNCHANGED <<published, sent>>
    BY <1>4 DEF ReportSave, branch
  <2>7. StatusTrue(r)' /\ FinalTrue(r)'
    <3>1. next.status \in Verdicts => \E k \in Heard(rows[r].patch) : k.status = next.status
      BY <2>3, <2>5 DEF Verdicts
    <3>2. next.final # seen.final => \E k \in Heard(rows[r].patch) : JudgedBy(k)
      BY <2>4, <2>5
    <3>. QED  BY <2>1, <2>2, <2>3, <2>6, <3>1, <3>2, SaveStaysTrue DEF RowsTrue
  <2>8. \A q \in Rows : q # r => rows'[q] = rows[q]
    BY <2>1, <2>2, <2>3, SaveType
  <2>. QED  BY <1>2, <2>2, <2>7, <2>8
<1>5. ASSUME NEW i \in Requests, BranchBegins(i) \/ BranchReports(i) PROVE RowsTrue'
  BY <1>1, <1>5, BranchReport DEF BranchBegins
<1>6. ASSUME NEW t \in Tasks,
             DeployPublish(t) \/ ReceiveReport(t) \/ ReportRead(t) \/ TaskThrows(t)
      PROVE  RowsTrue'
  BY <1>1, <1>6 DEF DeployPublish, ReceiveReport, ReportRead, TaskThrows
<1>7. CASE Deploy \/ Resubscribe \/ Tick \/ UNCHANGED vars
  BY <1>1, <1>7 DEF Deploy, DeployAllSkips, DeployBranch, DeployAll, Schedule, BeginDeploy,
                    Resubscribe, Tick, vars
<1>. QED
  BY <1>3, <1>4, <1>5, <1>6, <1>7 DEF Next, TaskStep, BranchStep

-----------------------------------------------------------------------------
RowsInv == TypeOK /\ HeldInv /\ CarriedInv /\ RowsTrue

LEMMA InitRows == Init => RowsInv
<1>. SUFFICES ASSUME Init PROVE RowsInv
  OBVIOUS
<1>1. TypeOK
  BY PatchRowsAssumption DEF Init, TypeOK, Branch!Init, Times
<1>2. HeldInv
  BY DEF Init, HeldInv, Idle
<1>3. CarriedInv
  BY DEF Init, CarriedInv, Branch!Init, Idle
<1>4. RowsTrue
  BY DEF Init, RowsTrue, Used
<1>. QED  BY <1>1, <1>2, <1>3, <1>4 DEF RowsInv

LEMMA RowsInvariant == Spec => []RowsInv
<1>1. RowsInv /\ [Next]_vars => RowsInv'
  BY TypeStep, HeldStep, CarriedStep, TrueStep DEF RowsInv
<1>. QED  BY <1>1, InitRows, PTL DEF Spec

(***************************************************************************)
(* Every variable has its type: rows are never half written, a task that   *)
(* saves holds a record, and no more is sent than the bound allows.        *)
(***************************************************************************)
THEOREM RowsTypeCorrect == Spec => []TypeOK
<1>1. RowsInv => TypeOK
  BY DEF RowsInv
<1>. QED  BY <1>1, RowsInvariant, PTL

(***************************************************************************)
(* However requests, reports, replays and merged saves overlap, a row      *)
(* that says SUCCESS, FAILED or ROLLBACK says what the branch reported of  *)
(* its patch (MqttWorker.HandlePatch is the only one to write these).      *)
(***************************************************************************)
THEOREM VerdictsAreHeard == Spec => []NoInventedVerdict
<1>1. RowsInv => NoInventedVerdict
  BY DEF RowsInv, RowsTrue, StatusTrue, NoInventedVerdict
<1>. QED  BY <1>1, RowsInvariant, PTL

(***************************************************************************)
(* However they overlap, a row marked final is for a patch that a          *)
(* deployment has come to a verdict about.                                 *)
(***************************************************************************)
THEOREM FinalIsJudged == Spec => []FinalMeansJudged
<1>1. RowsInv => FinalMeansJudged
  BY DEF RowsInv, RowsTrue, FinalTrue, FinalMeansJudged
<1>. QED  BY <1>1, RowsInvariant, PTL

-----------------------------------------------------------------------------
(***************************************************************************)
(* One row per patch, as long as no two deployments of the patch were      *)
(* about to insert one: the one that found no row still finds none when it *)
(* saves, whatever deployments of other patches, deployments that found    *)
(* the row, and reports do in between.                                     *)
(***************************************************************************)
OneInserts ==
  \A p \in Patches \ crossed["deploy"] : \A t \in Tasks : Inserting(t, p) =>
    /\ RowsOf(p) = {}
    /\ \A u \in Tasks : Inserting(u, p) => u = t

(***************************************************************************)
(* The rows in the table stay, each with its patch, and none is added.     *)
(***************************************************************************)
SameRows == Used' = Used /\ \A r \in Used : rows'[r].patch = rows[r].patch

LEMMA SaveKeepsRows ==
  ASSUME TypeOK, NEW r \in Used, NEW seen \in Records, NEW next \in Records,
         Save(r, seen, next)
  PROVE  SameRows
<1>1. rows'[r] \in Records /\ rows'[r].patch = rows[r].patch
  BY UsedRecord, SaveType, MergedRecord
<1>2. \A q \in Rows : q # r => rows'[q] = rows[q]
  BY SaveType
<1>. QED  BY <1>1, <1>2, PatchRowsAssumption DEF SameRows, Used

(***************************************************************************)
(* Patches whose insertions crossed stay marked.                           *)
(***************************************************************************)
LEMMA CrossedStays ==
  ASSUME TypeOK, [Next]_vars
  PROVE  crossed["deploy"] \subseteq crossed'["deploy"]
<1>1. UNCHANGED crossed => crossed["deploy"] \subseteq crossed'["deploy"]
  OBVIOUS
<1>2. CASE Deploy
  BY <1>2 DEF Deploy, DeployAllSkips, DeployBranch, DeployAll, Schedule, BeginDeploy, TypeOK, Kinds
<1>3. ASSUME NEW t \in Tasks, ReceiveReport(t)
      PROVE  crossed'["deploy"] = crossed["deploy"]
  BY <1>3 DEF ReceiveReport, TypeOK, Kinds
<1>4. ASSUME NEW t \in Tasks, \/ DeploySave(t) \/ DeployPublish(t) \/ ReportRead(t)
                              \/ ReportSave(t) \/ TaskThrows(t)
      PROVE  UNCHANGED crossed
  BY <1>4 DEF DeploySave, DeployPublish, ReportRead, ReportSave, TaskThrows
<1>5. CASE BranchStep \/ Resubscribe \/ Tick \/ UNCHANGED vars
  BY <1>5 DEF BranchStep, BranchBegins, BranchReports, Resubscribe, Tick, vars
<1>. QED  BY <1>1, <1>2, <1>3, <1>4, <1>5 DEF Next, TaskStep

(***************************************************************************)
(* A step that neither adds a row nor begins an insertion.                 *)
(***************************************************************************)
LEMMA OneRowKept ==
  ASSUME OneInserts, OneRowPerPatch, SameRows, crossed["deploy"] \subseteq crossed'["deploy"],
         \A t \in Tasks : \A p \in Patches : Inserting(t, p)' => Inserting(t, p)
  PROVE  OneInserts' /\ OneRowPerPatch'
<1>1. \A p : RowsOf(p)' = RowsOf(p)
  BY DEF RowsOf, SameRows
<1>2. OneInserts'
  BY <1>1 DEF OneInserts
<1>3. OneRowPerPatch'
  BY DEF OneRowPerPatch, SameRows
<1>. QED  BY <1>2, <1>3

(***************************************************************************)
(* A deployment that begins has no row in hand only when the patch has     *)
(* none: with one row per patch at most, the newest is the one.  It marks  *)
(* the patch if another deployment is about to insert its row.             *)
(***************************************************************************)
LEMMA OneRowBegins ==
  ASSUME TypeOK, OneInserts, OneRowPerPatch, NEW t \in Tasks, NEW all, NEW send, NEW at,
         NEW p \in Patches, NEW r \in AnyOf(RowsOf(p)) \cup AnyOf(NewestOf(p)), NEW next,
         BeginDeploy(t, all, send, at, p, r, next),
         crossed["deploy"] \subseteq crossed'["deploy"]
  PROVE  OneInserts' /\ OneRowPerPatch'
<1>. DEFINE task == [kind |-> "deploy", at |-> at, all |-> all, send |-> send, patch |-> p,
                     row |-> r, seen |-> IF r = None THEN None ELSE rows[r], next |-> next]
<1>1. tasks' = [tasks EXCEPT ![t] = task] /\ rows' = rows
  BY DEF BeginDeploy
<1>2. task.kind = "deploy" /\ task.row = r /\ task.patch = p
  OBVIOUS
<1>. HIDE DEF task
<1>3. tasks'[t] = task /\ \A u \in Tasks : u # t => tasks'[u] = tasks[u]
  BY <1>1 DEF TypeOK
<1>4. /\ \A q \in Patches : Inserting(t, q)' => q = p /\ r = None
      /\ \A u \in Tasks : \A q \in Patches : u # t => (Inserting(u, q)' <=> Inserting(u, q))
  BY <1>2, <1>3 DEF Inserting
<1>5. SameRows /\ \A q : RowsOf(q)' = RowsOf(q)
  BY <1>1 DEF SameRows, RowsOf, Used
<1>6. CASE r # None
  BY <1>4, <1>5, <1>6, OneRowKept
<1>7. CASE r = None
  <2>1. ASSUME p \notin crossed["deploy"] PROVE RowsOf(p) = {}
    <3>1. RowsOf(p) \subseteq Rows /\ None \notin Rows
      BY PatchRowsAssumption DEF RowsOf, Used
    <3>2. \A q, k \in RowsOf(p) : q = k
      BY <2>1 DEF OneRowPerPatch, RowsOf
    <3>3. ASSUME NEW q \in RowsOf(p) PROVE q \in NewestOf(p)
      <4>1. q \in Nat
        BY <3>1, PatchRowsAssumption
      <4>. QED  BY <3>2, <4>1 DEF NewestOf
    <3>4. NewestOf(p) \subseteq RowsOf(p)
      BY DEF NewestOf
    <3>. QED  BY <1>7, <3>1, <3>3, <3>4 DEF AnyOf
  <2>2. p \notin crossed'["deploy"] => \A u \in Tasks : ~Inserting(u, p)
    BY <1>7 DEF BeginDeploy, TypeOK, Kinds
  <2>3. ASSUME NEW q \in Patches \ crossed'["deploy"], NEW u \in Tasks, Inserting(u, q)'
        PROVE  RowsOf(q)' = {} /\ \A v \in Tasks : Inserting(v, q)' => v = u
    <3>1. CASE q = p
      BY <1>4, <1>5, <2>1, <2>2, <2>3, <3>1
    <3>2. CASE q # p
      BY <1>4, <1>5, <2>3, <3>2 DEF OneInserts
    <3>. QED  BY <3>1, <3>2
  <2>4. OneInserts'
    BY <2>3 DEF OneInserts
  <2>5. OneRowPerPatch'
    BY <1>5 DEF OneRowPerPatch, SameRows
  <2>. QED  BY <2>4, <2>5
<1>. QED  BY <1>6, <1>7

LEMMA OneRowStep ==
  TypeOK /\ HeldInv /\ OneInserts /\ OneRowPerPatch /\ [Next]_vars
    => OneInserts' /\ OneRowPerPatch'
<1>. SUFFICES ASSUME TypeOK, HeldInv, OneInserts, OneRowPerPatch, [Next]_vars
              PROVE  OneInserts' /\ OneRowPerPatch'
  OBVIOUS
<1>0. crossed["deploy"] \subseteq crossed'["deploy"]
  BY CrossedStays
<1>1. ASSUME SameRows, UNCHANGED tasks PROVE OneInserts' /\ OneRowPerPatch'
  <2>1. \A t \in Tasks : \A p \in Patches : Inserting(t, p)' => Inserting(t, p)
    BY <1>1 DEF Inserting
  <2>. QED  BY <1>0, <1>1, <2>1, OneRowKept
<1>2. UNCHANGED rows => SameRows
  BY DEF SameRows, Used
<1>3. ASSUME SameRows, NEW t \in Tasks, NEW task, tasks' = [tasks EXCEPT ![t] = task],
             task.kind # "deploy"
      PROVE  OneInserts' /\ OneRowPerPatch'
  <2>1. tasks'[t] = task /\ \A u \in Tasks : u # t => tasks'[u] = tasks[u]
    BY <1>3 DEF TypeOK
  <2>2. \A u \in Tasks : \A p \in Patches : Inserting(u, p)' => Inserting(u, p)
    BY <1>3, <2>1 DEF Inserting
  <2>. QED  BY <1>0, <1>3, <2>2, OneRowKept
<1>4. ASSUME NEW t \in Tasks, SameRows, Finish(t) PROVE OneInserts' /\ OneRowPerPatch'
  <2>1. Idle.kind # "deploy"
    BY DEF Idle
  <2>. QED  BY <1>3, <1>4, <2>1 DEF Finish
<1>5. ASSUME NEW t \in Tasks, NEW p \in Patches,
             \/ DeployBranch(t, p) \/ DeployAll(t, p)
             \/ \E start \in Times : Schedule(t, p, start)
      PROVE  OneInserts' /\ OneRowPerPatch'
  BY <1>0, <1>5, OneRowBegins DEF DeployBranch, DeployAll, Schedule
<1>6. ASSUME NEW t \in Tasks, DeployPublish(t) PROVE OneInserts' /\ OneRowPerPatch'
  <2>1. tasks[t] \in DeployTasks /\ SameRows
    BY <1>2, <1>6, TaskKinds DEF DeployPublish
  <2>2. CASE tasks[t].all /\ tasks' = [tasks EXCEPT ![t].at = "save"]
    <3>1. /\ tasks'[t].row = tasks[t].row /\ tasks'[t].patch = tasks[t].patch
          /\ tasks[t].kind = "deploy"
          /\ \A u \in Tasks : u # t => tasks'[u] = tasks[u]
      BY <2>1, <2>2 DEF TypeOK, DeployTasks
    <3>2. StillToCome(tasks[t])
      BY <2>2 DEF StillToCome
    <3>3. \A u \in Tasks : \A p \in Patches : Inserting(u, p)' => Inserting(u, p)
      BY <3>1, <3>2 DEF Inserting
    <3>. QED  BY <1>0, <2>1, <3>3, OneRowKept
  <2>. QED  BY <1>4, <1>6, <2>1, <2>2 DEF DeployPublish
<1>7. ASSUME NEW t \in Tasks, DeploySave(t) PROVE OneInserts' /\ OneRowPerPatch'
  <2>1. /\ tasks[t] \in DeployTasks /\ HeldByDeploy(t)
        /\ tasks[t].next \in Records /\ tasks[t].patch \in Patches
    BY <1>7, TaskKinds DEF DeploySave, HeldInv, DeployTasks
  <2>2. StillToCome(tasks[t]) /\ tasks[t].kind = "deploy"
    BY <1>7 DEF DeploySave, StillToCome
  <2>3. \/ Finish(t)
        \/ ~tasks[t].all /\ tasks' = [tasks EXCEPT ![t].at = "publish"]
    BY <1>7 DEF DeploySave
  <2>4. /\ \A u \in Tasks : u # t => tasks'[u] = tasks[u]
        /\ tasks'[t].kind = "deploy" => ~StillToCome(tasks'[t])
    BY <2>1, <2>3 DEF Finish, Idle, TypeOK, DeployTasks, StillToCome
  <2>5. \A u \in Tasks : \A p \in Patches : Inserting(u, p)' => Inserting(u, p) /\ u # t
    BY <2>4 DEF Inserting, StillToCome
  <2>6. CASE tasks[t].row # None
    <3>1. tasks[t].row \in Used /\ tasks[t].seen \in Records
      BY <2>1, <2>6 DEF HeldByDeploy
    <3>2. SameRows
      BY <1>7, <2>1, <2>6, <3>1, SaveKeepsRows DEF DeploySave
    <3>. QED  BY <1>0, <2>5, <3>2, OneRowKept
  <2>7. CASE tasks[t].row = None
    <3>1. PICK r \in FreeKeys : rows' = [rows EXCEPT ![r] = tasks[t].next]
      BY <1>7, <2>7 DEF DeploySave
    <3>2. PICK p \in Patches : p = tasks[t].patch
      BY <2>1
    <3>3. /\ rows'[r].patch = p /\ \A q \in Rows : q # r => rows'[q] = rows[q]
          /\ Used' \subseteq Used \cup {r}
      BY <2>1, <3>1, <3>2 DEF TypeOK, FreeKeys, HeldByDeploy, Used
    <3>4. Inserting(t, p)
      BY <2>2, <2>7, <3>2 DEF Inserting
    <3>5. p \notin crossed["deploy"] =>
            RowsOf(p) = {} /\ \A u \in Tasks : Inserting(u, p) => u = t
      BY <3>4 DEF OneInserts
    <3>6. OneRowPerPatch'
      <4>1. ASSUME NEW q \in Used', rows'[q].patch = p, p \notin crossed["deploy"] PROVE q = r
        BY <3>3, <3>5, <4>1 DEF RowsOf, Used
      <4>. QED  BY <1>0, <3>3, <4>1 DEF OneRowPerPatch, Used
    <3>7. \A q : q # p => RowsOf(q)' \subseteq RowsOf(q)
      BY <3>3 DEF RowsOf, Used
    <3>8. ASSUME NEW q \in Patches \ crossed'["deploy"], NEW u \in Tasks, Inserting(u, q)'
          PROVE  RowsOf(q)' = {} /\ \A v \in Tasks : Inserting(v, q)' => v = u
      <4>1. q \in Patches \ crossed["deploy"] /\ Inserting(u, q) /\ q # p
        BY <1>0, <2>5, <3>5, <3>8
      <4>. QED  BY <2>5, <3>7, <4>1 DEF OneInserts
    <3>9. OneInserts'
      BY <3>8 DEF OneInserts
    <3>. QED  BY <3>6, <3>9
  <2>. QED  BY <2>6, <2>7
<1>8. ASSUME NEW t \in Tasks, ReportSave(t) PROVE OneInserts' /\ OneRowPerPatch'
  <2>1. /\ Finish(t) /\ tasks[t].row \in Used
        /\ Save(tasks[t].row, tasks[t].seen, Reported(tasks[t].seen, tasks[t].msg))
    BY <1>8, ReportSaveType DEF ReportSave
  <2>2. tasks[t].seen \in Records /\ Reported(tasks[t].seen, tasks[t].msg) \in Records
    BY <1>8, TaskKinds, ReportedType DEF ReportSave
  <2>. QED  BY <1>4, <2>1, <2>2, SaveKeepsRows
<1>9. ASSUME NEW t \in Tasks, ReceiveReport(t) PROVE OneInserts' /\ OneRowPerPatch'
  <2>. DEFINE task == [kind |-> "report", at |-> "read", msg |-> Head(inbox)]
  <2>1. SameRows /\ tasks' = [tasks EXCEPT ![t] = task] /\ task.kind # "deploy"
    BY <1>2, <1>9 DEF ReceiveReport
  <2>. HIDE DEF task
  <2>. QED  BY <1>3, <2>1
<1>10. ASSUME NEW t \in Tasks, ReportRead(t) PROVE OneInserts' /\ OneRowPerPatch'
  <2>1. SameRows
    BY <1>2, <1>10 DEF ReportRead
  <2>2. Finish(t) \/ \E r : tasks' = [tasks EXCEPT ![t] =
          [kind |-> "report", at |-> "save", msg |-> tasks[t].msg, row |-> r, seen |-> rows[r]]]
    BY <1>10 DEF ReportRead
  <2>3. ASSUME NEW r, tasks' = [tasks EXCEPT ![t] =
          [kind |-> "report", at |-> "save", msg |-> tasks[t].msg, row |-> r, seen |-> rows[r]]]
        PROVE  OneInserts' /\ OneRowPerPatch'
    <3>. DEFINE task == [kind |-> "report", at |-> "save", msg |-> tasks[t].msg,
                         row |-> r, seen |-> rows[r]]
    <3>1. tasks' = [tasks EXCEPT ![t] = task] /\ task.kind # "deploy"
      BY <2>3
    <3>. HIDE DEF task
    <3>. QED  BY <1>3, <2>1, <3>1
  <2>. QED  BY <1>4, <2>1, <2>2, <2>3
<1>11. ASSUME NEW t \in Tasks, TaskThrows(t) PROVE OneInserts' /\ OneRowPerPatch'
  BY <1>2, <1>4, <1>11 DEF TaskThrows
<1>12. ASSUME NEW i \in Requests, BranchBegins(i) \/ BranchReports(i)
       PROVE  OneInserts' /\ OneRowPerPatch'
  BY <1>1, <1>2, <1>12 DEF BranchBegins, BranchReports
<1>13. CASE \/ \E p \in Patches : DeployAllSkips(p)
            \/ Resubscribe \/ Tick \/ UNCHANGED vars
  BY <1>1, <1>2, <1>13 DEF DeployAllSkips, Resubscribe, Tick, vars
<1>. QED
  BY <1>5, <1>6, <1>7, <1>8, <1>9, <1>10, <1>11, <1>12, <1>13
  DEF Next, Deploy, TaskStep, BranchStep

(***************************************************************************)
(* A patch has a second row only if two deployments of it were about to    *)
(* insert one at the same time, however many requests run beside each      *)
(* other: PatchdeployBranch and PatchdeployAllBranches look for the row in *)
(* different ways and save it at different times, and the table has no     *)
(* constraint that says so.                                                *)
(***************************************************************************)
THEOREM OneRowEach == Spec => []OneRowPerPatch
<1>1. Init => OneInserts /\ OneRowPerPatch
  BY DEF Init, OneInserts, OneRowPerPatch, Used, Idle, Inserting
<1>2. RowsInv => TypeOK /\ HeldInv
  BY DEF RowsInv
<1>. QED  BY <1>1, <1>2, OneRowStep, RowsInvariant, PTL DEF Spec

-----------------------------------------------------------------------------
(***************************************************************************)
(* What a row shows of its branch.  The last report m on a patch p waits   *)
(* in the inbox behind every other report on p, or is being treated, or is *)
(* in the row; the first always, the others for a patch with one row whose *)
(* last report was taken up while no other on p was being treated.  A task *)
(* that saves it saw in the row the status it still has: otherwise a       *)
(* status that is the same in its copy would not be written.  The report   *)
(* the broker retains is the last one on its patch, unless that one has    *)
(* been forgotten, so that its replay undoes nothing.                      *)
(***************************************************************************)
Alone(p) == p \notin crossed["deploy"] \cup crossed["report"]

Awaited(p) == \E k \in 1..Len(inbox) : sent[inbox[k].dep] = p

AwaitedLast(p, m) ==
  \E k \in 1..Len(inbox) : /\ inbox[k] = m
                           /\ \A j \in (k + 1)..Len(inbox) : sent[inbox[j].dep] # p

Last(p, m) ==
  /\ m \in published /\ sent[m.dep] = p /\ m.status # "IN_PROGRESS"
  /\ Awaited(p) => AwaitedLast(p, m)

Shown(p, m) ==
  /\ ~Awaited(p) => \A t \in Tasks : Treats(t, p) => tasks[t].msg = m
  /\ ~Awaited(p) /\ (\A t \in Tasks : ~Treats(t, p)) =>
       \A r \in RowsOf(p) : rows[r].status = m.status
  /\ \A t \in Tasks : Treats(t, p) /\ tasks[t].at = "save" /\ tasks[t].msg = m =>
       rows[tasks[t].row].status = tasks[t].seen.status

Newest(p, m) == Last(p, m) /\ (Alone(p) => Shown(p, m))

NewestInv == \A p \in Patches : latest[p] # None => Newest(p, latest[p])

RetainedInv == retained # None => latest[sent[retained.dep]] \in {None, retained}

OneReport ==
  \A p \in Patches \ crossed["report"] : \A t, u \in Tasks : Treats(t, p) /\ Treats(u, p) => t = u

LEMMA SameRequest ==
  ASSUME Grows, NEW x, Genuine(x)
  PROVE  sent'[x.dep] = sent[x.dep]
BY DEF Grows, SentGrows, Genuine

(***************************************************************************)
(* Tasks that treat a report go on treating it, and no task begins to.     *)
(***************************************************************************)
LEMMA TreatsFrame ==
  ASSUME Grows, CarriedInv, NEW p, NEW t \in Tasks,
         tasks'[t].kind = "report" <=> tasks[t].kind = "report",
         tasks[t].kind = "report" => tasks'[t].msg = tasks[t].msg
  PROVE  Treats(t, p)' <=> Treats(t, p)
BY SameRequest DEF CarriedInv, Treats, PatchOfReport

(***************************************************************************)
(* A step that leaves the reports under way and the rows of p alone.       *)
(***************************************************************************)
LEMMA NewestFrame ==
  ASSUME TypeOK, HeldInv, CarriedInv, Grows, NEW p, NEW m, Newest(p, m), inbox' = inbox,
         Alone(p)' => Alone(p),
         \A t \in Tasks : Treats(t, p)' <=> Treats(t, p),
         \A t \in Tasks : Treats(t, p) => tasks'[t] = tasks[t],
         \A r \in Rows : rows'[r] # None /\ rows'[r].patch = p => rows'[r] = rows[r]
  PROVE  Newest(p, m)'
<1>1. \A k \in 1..Len(inbox) : sent'[inbox[k].dep] = sent[inbox[k].dep]
  BY SameRequest DEF CarriedInv
<1>2. Awaited(p)' <=> Awaited(p)
  BY <1>1 DEF Awaited
<1>3. AwaitedLast(p, m) => AwaitedLast(p, m)'
  <2>1. ASSUME NEW k \in 1..Len(inbox), NEW j \in (k + 1)..Len(inbox) PROVE j \in 1..Len(inbox)
    OBVIOUS
  <2>. QED  BY <1>1, <2>1 DEF AwaitedLast
<1>4. m \in published' /\ sent'[m.dep] = p /\ m.status # "IN_PROGRESS"
  <2>1. m \in published /\ sent[m.dep] = p /\ m.status # "IN_PROGRESS"
    BY DEF Newest, Last
  <2>2. sent'[m.dep] = sent[m.dep]
    BY <2>1, SameRequest DEF CarriedInv
  <2>. QED  BY <2>1, <2>2 DEF Grows
<1>5. \A r \in RowsOf(p)' : r \in RowsOf(p) /\ rows'[r] = rows[r]
  BY DEF RowsOf, Used
<1>6. Last(p, m)'
  BY <1>2, <1>3, <1>4 DEF Newest, Last
<1>7. ASSUME Shown(p, m), NEW t \in Tasks, Treats(t, p)', tasks'[t].at = "save", tasks'[t].msg = m
      PROVE  rows'[tasks'[t].row].status = tasks'[t].seen.status
  <2>1. Treats(t, p) /\ tasks'[t] = tasks[t]
    BY <1>7
  <2>2. tasks[t].row \in Used /\ rows[tasks[t].row].patch = p
    BY <1>7, <2>1 DEF HeldInv, HeldByReport, Treats, PatchOfReport
  <2>3. tasks[t].row \in Rows /\ rows'[tasks[t].row] = rows[tasks[t].row]
    BY <2>2 DEF Grows, RowsGrow, Used
  <2>. QED  BY <1>7, <2>1, <2>3 DEF Shown
<1>8. ASSUME Shown(p, m) PROVE Shown(p, m)'
  <2>1. ~Awaited(p)' => \A t \in Tasks : Treats(t, p)' => tasks'[t].msg = m
    BY <1>2, <1>8 DEF Shown
  <2>2. ~Awaited(p)' /\ (\A t \in Tasks : ~Treats(t, p)') =>
          \A r \in RowsOf(p)' : rows'[r].status = m.status
    BY <1>2, <1>5, <1>8 DEF Shown
  <2>. QED  BY <1>7, <1>8, <2>1, <2>2 DEF Shown
<1>. QED  BY <1>6, <1>8 DEF Newest

(***************************************************************************)
(* A report on another patch, or none, is added to the inbox.              *)
(***************************************************************************)
LEMMA NewestAppend ==
  ASSUME TypeOK, CarriedInv, NEW p, NEW m, Newest(p, m), NEW x \in Reports,
         inbox' = Append(inbox, x), sent[x.dep] # p,
         UNCHANGED <<rows, tasks, sent, crossed>>, published \subseteq published'
  PROVE  Newest(p, m)'
<1>1. /\ Len(inbox') = Len(inbox) + 1 /\ Len(inbox) \in Nat
      /\ \A k \in 1..Len(inbox) : inbox'[k] = inbox[k]
      /\ inbox'[Len(inbox) + 1] = x
  BY AppendProperties DEF TypeOK
<1>2. Awaited(p)' <=> Awaited(p)
  BY <1>1 DEF Awaited
<1>3. AwaitedLast(p, m) => AwaitedLast(p, m)'
  <2>1. ASSUME NEW k \in 1..Len(inbox), inbox[k] = m,
               \A j \in (k + 1)..Len(inbox) : sent[inbox[j].dep] # p
        PROVE  AwaitedLast(p, m)'
    <3>1. k \in 1..Len(inbox') /\ inbox'[k] = m
      BY <1>1, <2>1
    <3>2. ASSUME NEW j \in (k + 1)..Len(inbox') PROVE sent'[inbox'[j].dep] # p
      <4>1. j \in (k + 1)..Len(inbox) \/ j = Len(inbox) + 1
        BY <1>1
      <4>2. CASE j \in (k + 1)..Len(inbox)
        <5>1. inbox'[j] = inbox[j]
          BY <1>1, <4>2
        <5>. QED  BY <2>1, <4>2, <5>1
      <4>3. CASE j = Len(inbox) + 1
        BY <1>1, <4>3
      <4>. QED  BY <4>1, <4>2, <4>3
    <3>. QED  BY <3>1, <3>2 DEF AwaitedLast
  <2>. QED  BY <2>1 DEF AwaitedLast
<1>4. \A t \in Tasks : Treats(t, p)' <=> Treats(t, p)
  BY DEF Treats, PatchOfReport
<1>5. RowsOf(p)' = RowsOf(p) /\ (Alone(p)' <=> Alone(p))
  BY DEF RowsOf, Used, Alone
<1>. QED
  BY <1>2, <1>3, <1>4, <1>5 DEF Newest, Last, Shown

(***************************************************************************)
(* The branch reports on p: its report is now the last.                    *)
(***************************************************************************)
LEMMA NewestReported ==
  ASSUME TypeOK, CarriedInv, NEW p, NEW m \in Reports, sent[m.dep] = p, m.status # "IN_PROGRESS",
         m \notin published, published' = published \cup {m},
         inbox' = Append(inbox, m), UNCHANGED <<tasks, sent>>
  PROVE  Newest(p, m)'
<1>1. /\ Len(inbox') = Len(inbox) + 1 /\ Len(inbox) \in Nat
      /\ inbox'[Len(inbox) + 1] = m
  BY AppendProperties DEF TypeOK
<1>2. Len(inbox') \in 1..Len(inbox') /\ inbox'[Len(inbox')] = m
  BY <1>1
<1>3. (Len(inbox') + 1)..Len(inbox') = {}
  BY <1>1
<1>4. Awaited(p)' /\ AwaitedLast(p, m)'
  BY <1>2, <1>3 DEF Awaited, AwaitedLast
<1>5. ASSUME NEW t \in Tasks, Treats(t, p)' PROVE tasks'[t].msg # m
  BY <1>5 DEF Treats, CarriedInv, Genuine
<1>. QED  BY <1>4, <1>5 DEF Newest, Last, Shown

(***************************************************************************)
(* MqttWorker takes the oldest report.  If it is on p and no other on p is *)
(* being treated, p is no longer marked; if there is another, p is marked. *)
(***************************************************************************)
LEMMA NewestReceived ==
  ASSUME TypeOK, NEW p \in Patches, NEW m, Newest(p, m), NEW t \in Tasks, ReceiveReport(t)
  PROVE  Newest(p, m)'
<1>1. /\ Len(inbox) \in Nat \ {0} /\ Head(inbox) = inbox[1] /\ Len(inbox') = Len(inbox) - 1
      /\ \A k \in 1..Len(inbox') : inbox'[k] = inbox[k + 1]
  BY DEF ReceiveReport, TypeOK
<1>2. UNCHANGED <<rows, sent, published>>
  BY DEF ReceiveReport, branch
<1>3. /\ tasks'[t].kind = "report" /\ tasks'[t].at = "read" /\ tasks'[t].msg = inbox[1]
      /\ tasks[t].kind # "report"
      /\ \A u \in Tasks : u # t => tasks'[u] = tasks[u]
  BY <1>1 DEF ReceiveReport, CanStart, Idle, TypeOK
<1>4. Awaited(p)' => Awaited(p)
  BY <1>1, <1>2 DEF Awaited
<1>5. ASSUME Awaited(p)' PROVE AwaitedLast(p, m)'
  <2>1. PICK k \in 1..Len(inbox) :
          inbox[k] = m /\ \A j \in (k + 1)..Len(inbox) : sent[inbox[j].dep] # p
    BY <1>4, <1>5 DEF Newest, Last, AwaitedLast
  <2>2. k # 1
    <3>1. PICK j \in 1..Len(inbox') : sent[inbox'[j].dep] = p
      BY <1>2, <1>5 DEF Awaited
    <3>2. j + 1 \in 2..Len(inbox) /\ sent[inbox[j + 1].dep] = p
      BY <1>1, <3>1
    <3>. QED  BY <2>1, <3>2
  <2>3. k - 1 \in 1..Len(inbox') /\ inbox'[k - 1] = m
    <3>1. k - 1 \in 1..Len(inbox')
      BY <1>1, <2>2
    <3>. QED  BY <1>1, <2>1, <3>1
  <2>4. ASSUME NEW j \in ((k - 1) + 1)..Len(inbox') PROVE sent'[inbox'[j].dep] # p
    <3>1. j \in 1..Len(inbox') /\ j + 1 \in (k + 1)..Len(inbox)
      BY <1>1, <2>1, <2>4
    <3>. QED  BY <1>1, <1>2, <2>1, <3>1
  <2>. QED  BY <2>3, <2>4 DEF AwaitedLast
<1>6. ASSUME ~Awaited(p)', sent[inbox[1].dep] = p PROVE inbox[1] = m
  <2>1. 1 \in 1..Len(inbox)
    BY <1>1
  <2>2. PICK k \in 1..Len(inbox) : inbox[k] = m
    BY <1>6, <2>1 DEF Newest, Last, AwaitedLast, Awaited
  <2>3. sent[inbox[k].dep] = p
    BY <2>2 DEF Newest, Last
  <2>4. k = 1
    <3>1. CASE k # 1
      <4>1. k - 1 \in 1..Len(inbox') /\ (k - 1) + 1 = k
        BY <1>1, <3>1
      <4>2. inbox'[k - 1] = inbox[k]
        BY <1>1, <4>1
      <4>. QED  BY <1>2, <1>6, <2>3, <4>1, <4>2 DEF Awaited
    <3>. QED  BY <3>1
  <2>. QED  BY <2>2, <2>4
<1>7. ASSUME ~Awaited(p)', sent[inbox[1].dep] # p PROVE ~Awaited(p)
  <2>1. ASSUME NEW k \in 1..Len(inbox), sent[inbox[k].dep] = p PROVE FALSE
    <3>1. k - 1 \in 1..Len(inbox') /\ (k - 1) + 1 = k
      BY <1>1, <1>7, <2>1
    <3>2. inbox'[k - 1] = inbox[k]
      BY <1>1, <3>1
    <3>. QED  BY <1>2, <1>7, <2>1, <3>1, <3>2 DEF Awaited
  <2>. QED  BY <2>1 DEF Awaited
<1>8. Last(p, m)'
  BY <1>2, <1>5 DEF Newest, Last
<1>9. ASSUME Alone(p)', sent[inbox[1].dep] = p PROVE Shown(p, m)'
  <2>1. \A u \in Tasks : ~Treats(u, p)
    BY <1>1, <1>9 DEF Alone, ReceiveReport, PatchOfReport, TypeOK, Kinds
  <2>2. \A u \in Tasks : Treats(u, p)' <=> u = t
    BY <1>2, <1>3, <1>9, <2>1 DEF Treats, PatchOfReport
  <2>. QED  BY <1>3, <1>6, <1>9, <2>2 DEF Shown
<1>10. ASSUME Alone(p)', sent[inbox[1].dep] # p PROVE Shown(p, m)'
  <2>1. Alone(p)
    BY <1>1, <1>10 DEF Alone, ReceiveReport, PatchOfReport, TypeOK, Kinds
  <2>2. \A u \in Tasks : /\ Treats(u, p)' <=> Treats(u, p)
                         /\ Treats(u, p) => tasks'[u] = tasks[u]
    BY <1>2, <1>3, <1>10 DEF Treats, PatchOfReport
  <2>3. RowsOf(p)' = RowsOf(p)
    BY <1>2 DEF RowsOf, Used
  <2>. QED  BY <1>2, <1>7, <1>10, <2>1, <2>2, <2>3 DEF Newest, Shown
<1>. QED  BY <1>8, <1>9, <1>10 DEF Newest

(***************************************************************************)
(* A report on p is done with and was the only one being treated: nothing  *)
(* is left of it but the rows of p, which show it if it was the last.      *)
(***************************************************************************)
LEMMA NewestDone ==
  ASSUME TypeOK, NEW p, NEW m, Newest(p, m), NEW t \in Tasks, Finish(t),
         Alone(p) => \A u \in Tasks : Treats(u, p) => u = t,
         UNCHANGED <<inbox, sent, published, crossed>>,
         Alone(p) /\ ~Awaited(p) => \A r \in RowsOf(p)' : rows'[r].status = m.status
  PROVE  Newest(p, m)'
<1>1. tasks'[t].kind # "report" /\ \A u \in Tasks : u # t => tasks'[u] = tasks[u]
  BY DEF Finish, Idle, TypeOK
<1>2. (Awaited(p)' <=> Awaited(p)) /\ (AwaitedLast(p, m)' <=> AwaitedLast(p, m))
  BY DEF Awaited, AwaitedLast
<1>3. Alone(p)' <=> Alone(p)
  BY DEF Alone
<1>4. Alone(p) => \A u \in Tasks : ~Treats(u, p)'
  BY <1>1 DEF Treats, PatchOfReport
<1>. QED  BY <1>2, <1>3, <1>4 DEF Newest, Last, Shown

(***************************************************************************)
(* A report on another patch is worked on.                                 *)
(***************************************************************************)
LEMMA NewestElsewhere ==
  ASSUME TypeOK, HeldInv, CarriedInv, Grows, NEW p, NEW m, Newest(p, m),
         NEW t \in Tasks, ~Treats(t, p), UNCHANGED <<inbox, sent, crossed>>,
         tasks'[t].kind = "report" => tasks[t].kind = "report" /\ tasks'[t].msg = tasks[t].msg,
         \A u \in Tasks : u # t => tasks'[u] = tasks[u],
         \A r \in Rows : rows'[r] # None /\ rows'[r].patch = p => rows'[r] = rows[r]
  PROVE  Newest(p, m)'
<1>1. \A u \in Tasks : Treats(u, p)' <=> Treats(u, p)
  BY DEF Treats, PatchOfReport
<1>2. \A u \in Tasks : Treats(u, p) => tasks'[u] = tasks[u]
  OBVIOUS
<1>3. Alone(p)' <=> Alone(p)
  BY DEF Alone
<1>. QED  BY <1>1, <1>2, <1>3, NewestFrame

LEMMA RowOfPatch ==
  ASSUME TypeOK, NEW p
  PROVE  RowsOf(p) \subseteq Rows /\ None \notin RowsOf(p)
BY PatchRowsAssumption DEF RowsOf, Used

LEMMA NewestRead ==
  ASSUME TypeOK, HeldInv, CarriedInv, Grows, NEW p, NEW m, Newest(p, m),
         NEW t \in Tasks, ReportRead(t),
         Treats(t, p) /\ Alone(p) => \A u \in Tasks : Treats(u, p) => u = t
  PROVE  Newest(p, m)'
<1>1. UNCHANGED <<rows, inbox, sent, published, crossed>> /\ tasks[t].kind = "report"
  BY DEF ReportRead, branch
<1>2. PICK x : x = tasks[t].msg
  OBVIOUS
<1>3. PICK r \in AnyOf(RowsOf(sent[x.dep])) :
        \/ Ignored(x, r) /\ Finish(t)
        \/ ~Ignored(x, r) /\ tasks' = [tasks EXCEPT ![t] =
             [kind |-> "report", at |-> "save", msg |-> x, row |-> r, seen |-> rows[r]]]
  BY <1>2 DEF ReportRead, PatchOfReport
<1>4. RowsOf(p)' = RowsOf(p) /\ (Alone(p)' <=> Alone(p))
  BY <1>1 DEF RowsOf, Used, Alone
<1>5. CASE ~Treats(t, p)
  <2>1. /\ tasks'[t].kind = "report" => tasks'[t].msg = tasks[t].msg
        /\ \A u \in Tasks : u # t => tasks'[u] = tasks[u]
    BY <1>2, <1>3 DEF Finish, Idle, TypeOK
  <2>. QED  BY <1>1, <1>5, <2>1, NewestElsewhere
<1>6. CASE Treats(t, p) /\ Ignored(x, r) /\ Finish(t)
  <2>1. ASSUME Alone(p), ~Awaited(p) PROVE \A q \in RowsOf(p)' : rows'[q].status = m.status
    <3>1. x = m /\ sent[x.dep] = p
      BY <1>2, <1>6, <2>1 DEF Newest, Shown, Treats, PatchOfReport
    <3>2. x.status # "IN_PROGRESS"
      BY <3>1 DEF Newest, Last
    <3>3. r = None
      BY <1>6, <3>2 DEF Ignored
    <3>4. RowsOf(p) = {}
      BY <1>3, <3>1, <3>3, RowOfPatch DEF AnyOf
    <3>. QED  BY <1>4, <3>4
  <2>. QED  BY <1>1, <1>6, <2>1, NewestDone
<1>7. CASE Treats(t, p) /\ ~Ignored(x, r) /\ tasks' = [tasks EXCEPT ![t] =
             [kind |-> "report", at |-> "save", msg |-> x, row |-> r, seen |-> rows[r]]]
  <2>1. /\ tasks'[t].kind = "report" /\ tasks'[t].msg = x
        /\ tasks'[t].row = r /\ tasks'[t].seen = rows[r]
        /\ \A u \in Tasks : u # t => tasks'[u] = tasks[u]
    BY <1>7 DEF TypeOK
  <2>2. \A u \in Tasks : Treats(u, p)' <=> Treats(u, p)
    BY <1>1, <1>2, <2>1 DEF Treats, PatchOfReport
  <2>3. \A u \in Tasks : tasks'[u].kind = "report" => tasks'[u].msg = tasks[u].msg
    BY <1>2, <2>1
  <2>4. (Awaited(p)' <=> Awaited(p)) /\ (AwaitedLast(p, m)' <=> AwaitedLast(p, m))
    BY <1>1 DEF Awaited, AwaitedLast
  <2>5. Last(p, m)'
    BY <1>1, <2>4 DEF Newest, Last
  <2>6. ASSUME Alone(p) PROVE Shown(p, m)'
    <3>1. ASSUME NEW u \in Tasks, Treats(u, p)'
          PROVE  rows'[tasks'[u].row].status = tasks'[u].seen.status
      <4>1. u = t
        BY <1>7, <2>2, <2>6, <3>1
      <4>. QED  BY <1>1, <2>1, <4>1
    <3>2. ~Awaited(p)' => \A u \in Tasks : Treats(u, p)' => tasks'[u].msg = m
      BY <2>2, <2>3, <2>4, <2>6 DEF Newest, Shown, Treats
    <3>3. ~(\A u \in Tasks : ~Treats(u, p)')
      BY <1>7, <2>2
    <3>. QED  BY <3>1, <3>2, <3>3 DEF Shown
  <2>. QED  BY <1>4, <2>5, <2>6 DEF Newest
<1>. QED  BY <1>3, <1>5, <1>6, <1>7

LEMMA NewestSaved ==
  ASSUME TypeOK, HeldInv, CarriedInv, Grows, NEW p, NEW m, Newest(p, m),
         NEW t \in Tasks, ReportSave(t),
         Treats(t, p) /\ Alone(p) => \A u \in Tasks : Treats(u, p) => u = t,
         Alone(p) => \A q, r \in RowsOf(p) : q = r
  PROVE  Newest(p, m)'
<1>1. PICK x, r, seen, next : /\ x = tasks[t].msg /\ r = tasks[t].row /\ seen = tasks[t].seen
                              /\ next = Reported(seen, x)
  OBVIOUS
<1>2. /\ tasks[t].kind = "report" /\ tasks[t].at = "save" /\ Finish(t)
      /\ x \in Reports /\ seen \in Records /\ Save(r, seen, next)
      /\ UNCHANGED <<inbox, sent, published, crossed>>
  BY <1>1, TaskKinds DEF ReportSave, branch
<1>3. r \in Used /\ rows[r].patch = sent[x.dep]
  BY <1>1, <1>2 DEF HeldInv, HeldByReport
<1>4. next \in Records /\ next.status = x.status
  BY <1>1, <1>2, ReportedType, ReportedTells
<1>5. /\ rows'[r] = Merged(rows[r], seen, next) /\ rows'[r].patch = rows[r].patch
      /\ \A q \in Rows : q # r => rows'[q] = rows[q]
  BY <1>2, <1>3, <1>4, SaveType, UsedRecord, MergedRecord
<1>6. rows'[r].status = IF next.status = seen.status THEN rows[r].status ELSE next.status
  BY <1>2, <1>3, <1>4, <1>5, UsedRecord DEF Merged, Records
<1>7. CASE Treats(t, p)
  <2>1. ASSUME Alone(p), ~Awaited(p), NEW q \in RowsOf(p)' PROVE rows'[q].status = m.status
    <3>1. x = m /\ sent[x.dep] = p /\ rows[r].status = seen.status
      BY <1>1, <1>2, <1>7, <2>1 DEF Newest, Shown, Treats, PatchOfReport
    <3>2. q = r
      <4>1. CASE q # r
        <5>1. q \in RowsOf(p) /\ r \in RowsOf(p)
          BY <1>3, <1>5, <2>1, <3>1, <4>1 DEF RowsOf, Used
        <5>. QED  BY <2>1, <4>1, <5>1
      <4>. QED  BY <4>1
    <3>. QED  BY <1>4, <1>6, <3>1, <3>2
  <2>. QED  BY <1>2, <1>7, <2>1, NewestDone
<1>8. CASE ~Treats(t, p)
  <2>1. rows[r].patch # p
    BY <1>1, <1>2, <1>3, <1>8 DEF Treats, PatchOfReport
  <2>2. \A q \in Rows : rows'[q] # None /\ rows'[q].patch = p => rows'[q] = rows[q]
    BY <1>5, <2>1
  <2>3. tasks'[t].kind # "report" /\ \A u \in Tasks : u # t => tasks'[u] = tasks[u]
    BY <1>2 DEF Finish, Idle, TypeOK
  <2>. QED  BY <1>2, <1>8, <2>2, <2>3, NewestElsewhere
<1>. QED  BY <1>7, <1>8

(***************************************************************************)
(* The task of a report throws, and the report is forgotten: it was not m. *)
(***************************************************************************)
LEMMA NewestThrown ==
  ASSUME TypeOK, HeldInv, CarriedInv, Grows, NEW p, NEW m, Newest(p, m),
         NEW t \in Tasks, TaskThrows(t),
         tasks[t].kind = "report", tasks[t].msg # m,
         Treats(t, p) /\ Alone(p) => \A u \in Tasks : Treats(u, p) => u = t
  PROVE  Newest(p, m)'
<1>1. Finish(t) /\ UNCHANGED <<rows, inbox, sent, published, crossed>>
  BY DEF TaskThrows, branch
<1>2. CASE Treats(t, p)
  <2>1. ~(Alone(p) /\ ~Awaited(p))
    BY <1>2 DEF Newest, Shown
  <2>. QED  BY <1>1, <1>2, <2>1, NewestDone
<1>3. CASE ~Treats(t, p)
  <2>1. tasks'[t].kind # "report" /\ \A u \in Tasks : u # t => tasks'[u] = tasks[u]
    BY <1>1 DEF Finish, Idle, TypeOK
  <2>. QED  BY <1>1, <1>3, <2>1, NewestElsewhere
<1>. QED  BY <1>2, <1>3

(***************************************************************************)
(* The server subscribes again.  The reports in the inbox are dropped, and *)
(* m was none of them unless it is the one the broker sends again.         *)
(***************************************************************************)
LEMMA NewestReplayed ==
  ASSUME TypeOK, NEW p, NEW m, Newest(p, m), Resubscribe,
         \A k \in 1..Len(inbox) : inbox[k] = m => m = retained,
         retained # None /\ sent[retained.dep] = p => retained = m
  PROVE  Newest(p, m)'
<1>1. UNCHANGED <<rows, tasks, sent, published, crossed>>
  BY DEF Resubscribe, branch
<1>2. inbox' = IF retained = None THEN <<>> ELSE <<retained>>
  BY DEF Resubscribe
<1>3. /\ RowsOf(p)' = RowsOf(p) /\ \A u \in Tasks : Treats(u, p)' <=> Treats(u, p)
      /\ Alone(p)' <=> Alone(p)
  BY <1>1 DEF RowsOf, Used, Treats, PatchOfReport, Alone
<1>4. CASE retained # None /\ sent[retained.dep] = p
  <2>1. Len(inbox') = 1 /\ inbox'[1] = m
    BY <1>2, <1>4
  <2>2. 1 \in 1..Len(inbox') /\ (1 + 1)..Len(inbox') = {}
    BY <2>1
  <2>3. Awaited(p)' /\ AwaitedLast(p, m)'
    BY <1>1, <1>4, <2>1, <2>2 DEF Awaited, AwaitedLast
  <2>. QED  BY <1>1, <1>3, <2>3 DEF Newest, Last, Shown
<1>5. CASE ~(retained # None /\ sent[retained.dep] = p)
  <2>1. ~Awaited(p)'
    <3>1. \A k \in 1..Len(inbox') : retained # None /\ inbox'[k] = retained
      BY <1>2
    <3>. QED  BY <1>1, <1>5, <3>1 DEF Awaited
  <2>2. ~Awaited(p)
    <3>1. ASSUME AwaitedLast(p, m) PROVE FALSE
      <4>1. m = retained
        BY <3>1 DEF AwaitedLast
      <4>2. m \in Reports /\ sent[m.dep] = p
        BY DEF Newest, Last, TypeOK
      <4>. QED  BY <1>5, <4>1, <4>2, PatchRowsAssumption
    <3>. QED  BY <3>1 DEF Newest, Last
  <2>. QED  BY <1>1, <1>3, <2>1, <2>2 DEF Newest, Last, Shown
<1>. QED  BY <1>4, <1>5

-----------------------------------------------------------------------------
(***************************************************************************)
(* The steps keep these facts together.                                    *)
(***************************************************************************)
LEMMA OneReportStep == TypeOK /\ HeldInv /\ CarriedInv /\ OneReport /\ [Next]_vars => OneReport'
<1>. SUFFICES ASSUME TypeOK, HeldInv, CarriedInv, OneReport, [Next]_vars PROVE OneReport'
  OBVIOUS
<1>. Grows
  BY GrowsStep
<1>1. ASSUME crossed'["report"] = crossed["report"],
             \A t \in Tasks : tasks'[t].kind = "report" =>
               tasks[t].kind = "report" /\ tasks'[t].msg = tasks[t].msg
      PROVE  OneReport'
  <2>1. \A p : \A t \in Tasks : Treats(t, p)' => Treats(t, p)
    BY <1>1, SameRequest DEF CarriedInv, Treats, PatchOfReport
  <2>. QED  BY <1>1, <2>1 DEF OneReport
<1>2. CASE UNCHANGED <<tasks, crossed>>
  BY <1>1, <1>2
<1>3. ASSUME NEW t \in Tasks, NEW task, tasks' = [tasks EXCEPT ![t] = task],
             crossed'["report"] = crossed["report"],
             task.kind = "report" => tasks[t].kind = "report" /\ task.msg = tasks[t].msg
      PROVE  OneReport'
  <2>1. tasks'[t] = task /\ \A u \in Tasks : u # t => tasks'[u] = tasks[u]
    BY <1>3 DEF TypeOK
  <2>. QED  BY <1>1, <1>3, <2>1
<1>4. ASSUME NEW t \in Tasks, Finish(t), UNCHANGED crossed PROVE OneReport'
  <2>1. Idle.kind # "report"
    BY DEF Idle
  <2>. QED  BY <1>3, <1>4, <2>1 DEF Finish
<1>5. ASSUME NEW t \in Tasks, NEW p \in Patches,
             \/ DeployBranch(t, p) \/ DeployAll(t, p)
             \/ \E start \in Times : Schedule(t, p, start)
      PROVE  OneReport'
  <2>1. \E task : task.kind = "deploy" /\ tasks' = [tasks EXCEPT ![t] = task]
    BY <1>5 DEF DeployBranch, DeployAll, Schedule, BeginDeploy
  <2>2. crossed'["report"] = crossed["report"]
    BY <1>5 DEF DeployBranch, DeployAll, Schedule, BeginDeploy, TypeOK, Kinds
  <2>. QED  BY <1>3, <2>1, <2>2
<1>6. ASSUME NEW t \in Tasks, DeploySave(t) \/ DeployPublish(t) PROVE OneReport'
  <2>1. ASSUME NEW at, tasks' = [tasks EXCEPT ![t].at = at], UNCHANGED crossed PROVE OneReport'
    <3>1. tasks[t] \in DeployTasks
      BY <1>6, TaskKinds DEF DeploySave, DeployPublish
    <3>2. tasks'[t].kind = "deploy" /\ \A u \in Tasks : u # t => tasks'[u] = tasks[u]
      BY <2>1, <3>1 DEF DeployTasks, TypeOK
    <3>. QED  BY <1>1, <2>1, <3>2
  <2>. QED  BY <1>4, <1>6, <2>1 DEF DeploySave, DeployPublish
<1>7. ASSUME NEW t \in Tasks, ReceiveReport(t) PROVE OneReport'
  <2>1. /\ UNCHANGED sent /\ \A u \in Tasks : u # t => tasks'[u] = tasks[u]
        /\ tasks'[t].msg = Head(inbox)
    BY <1>7 DEF ReceiveReport, TypeOK
  <2>2. PICK q : q = PatchOfReport(Head(inbox))
    OBVIOUS
  <2>3. /\ q \notin crossed'["report"] => \A u \in Tasks : ~Treats(u, q)
        /\ \A p : p # q => (p \in crossed'["report"] <=> p \in crossed["report"])
    BY <1>7, <2>2 DEF ReceiveReport, TypeOK, Kinds
  <2>4. \A p : \A u \in Tasks : Treats(u, p)' => (u = t /\ p = q) \/ (u # t /\ Treats(u, p))
    BY <2>1, <2>2 DEF Treats, PatchOfReport
  <2>5. ASSUME NEW p \in Patches \ crossed'["report"], NEW u \in Tasks, NEW v \in Tasks,
               Treats(u, p)', Treats(v, p)'
        PROVE  u = v
    <3>1. CASE p = q
      BY <2>3, <2>4, <2>5, <3>1
    <3>2. CASE p # q
      BY <2>3, <2>4, <2>5, <3>2 DEF OneReport
    <3>. QED  BY <3>1, <3>2
  <2>. QED  BY <2>5 DEF OneReport
<1>8. ASSUME NEW t \in Tasks, ReportRead(t) PROVE OneReport'
  <2>1. /\ tasks[t].kind = "report" /\ UNCHANGED crossed
        /\ \/ Finish(t)
           \/ \E task : task.msg = tasks[t].msg /\ tasks' = [tasks EXCEPT ![t] = task]
    BY <1>8 DEF ReportRead
  <2>. QED  BY <1>3, <1>4, <2>1
<1>9. ASSUME NEW t \in Tasks, ReportSave(t) \/ TaskThrows(t) PROVE OneReport'
  BY <1>4, <1>9 DEF ReportSave, TaskThrows
<1>10. CASE \/ \E p \in Patches : DeployAllSkips(p)
            \/ Resubscribe \/ Tick \/ BranchStep \/ UNCHANGED vars
  BY <1>2, <1>10 DEF DeployAllSkips, Resubscribe, Tick, BranchStep, BranchBegins, BranchReports, vars
<1>. QED
  BY <1>5, <1>6, <1>7, <1>8, <1>9, <1>10 DEF Next, Deploy, TaskStep

(***************************************************************************)
(* The news of a patch is the branch's latest report or is forgotten.      *)
(***************************************************************************)
Kept(p) == latest'[p] \in {None, latest[p]}

LEMMA ForgetKeeps ==
  ASSUME NEW S, Forget(S), NEW p \in Patches
  PROVE  latest'[p] = IF latest[p] \in S THEN None ELSE latest[p]
BY DEF Forget

LEMMA LatestStep ==
  ASSUME TypeOK, CarriedInv, [Next]_vars
  PROVE  \/ UNCHANGED retained /\ \A p \in Patches : Kept(p)
         \/ \E i \in Requests : \E m \in Reports :
              /\ m.dep = i /\ i \in 1..Len(sent) /\ sent'[i] = sent[i]
              /\ retained' = m /\ latest' = [latest EXCEPT ![sent[i]] = m]
<1>1. CASE UNCHANGED <<retained, latest>>
  BY <1>1 DEF Kept
<1>2. CASE Deploy \/ Tick \/ UNCHANGED vars
  BY <1>1, <1>2 DEF Deploy, DeployAllSkips, DeployBranch, DeployAll, Schedule, BeginDeploy, Tick, vars
<1>3. ASSUME NEW t \in Tasks, DeploySave(t)
      PROVE  UNCHANGED retained /\ \A p \in Patches : Kept(p)
  BY <1>3 DEF DeploySave, Kept, TypeOK
<1>4. ASSUME NEW t \in Tasks, TaskThrows(t)
      PROVE  UNCHANGED retained /\ \A p \in Patches : Kept(p)
  <2>1. UNCHANGED latest \/ \E S : Forget(S)
    BY <1>4 DEF TaskThrows
  <2>. QED  BY <1>4, <2>1, ForgetKeeps DEF TaskThrows, Kept
<1>5. ASSUME NEW t \in Tasks,
             DeployPublish(t) \/ ReceiveReport(t) \/ ReportRead(t) \/ ReportSave(t)
      PROVE  UNCHANGED <<retained, latest>>
  BY <1>5 DEF DeployPublish, ReceiveReport, ReportRead, ReportSave
<1>6. ASSUME NEW i \in Requests, BranchBegins(i)
      PROVE  UNCHANGED retained /\ \A p \in Patches : Kept(p)
  BY <1>6 DEF BranchBegins, Kept, TypeOK
<1>7. ASSUME NEW i \in Requests, BranchReports(i)
      PROVE  \/ UNCHANGED <<retained, latest>>
             \/ \E m \in Reports :
                  /\ m.dep = i /\ i \in 1..Len(sent) /\ sent'[i] = sent[i]
                  /\ retained' = m /\ latest' = [latest EXCEPT ![sent[i]] = m]
  <2>1. i \in 1..Len(sent) /\ sent' = sent
    BY <1>7, BranchReport DEF CarriedInv
  <2>. QED  BY <1>7, <2>1, BranchReport
<1>8. CASE Resubscribe
  BY <1>8, ForgetKeeps DEF Resubscribe, Kept
<1>. QED
  BY <1>1, <1>2, <1>3, <1>4, <1>5, <1>6, <1>7, <1>8 DEF Next, TaskStep, BranchStep

LEMMA SentPatch ==
  ASSUME TypeOK, NEW i \in 1..Len(sent)
  PROVE  sent[i] \in Patches
BY DEF TypeOK

LEMMA RetainedStep ==
  TypeOK /\ HeldInv /\ CarriedInv /\ RetainedInv /\ [Next]_vars => RetainedInv'
<1>. SUFFICES ASSUME TypeOK, HeldInv, CarriedInv, RetainedInv, [Next]_vars PROVE RetainedInv'
  OBVIOUS
<1>1. CASE UNCHANGED retained /\ \A p \in Patches : Kept(p)
  <2>1. CASE retained = None
    BY <1>1, <2>1 DEF RetainedInv
  <2>2. CASE retained # None
    <3>1. Genuine(retained)
      BY <2>2 DEF CarriedInv
    <3>2. sent'[retained.dep] = sent[retained.dep] /\ sent[retained.dep] \in Patches
      BY <3>1, GrowsStep, SameRequest, SentPatch DEF Genuine
    <3>. QED  BY <1>1, <2>2, <3>2 DEF RetainedInv, Kept
  <2>. QED  BY <2>1, <2>2
<1>2. ASSUME NEW i \in Requests, NEW m \in Reports, m.dep = i, i \in 1..Len(sent),
             sent'[i] = sent[i], retained' = m, latest' = [latest EXCEPT ![sent[i]] = m]
      PROVE  RetainedInv'
  <2>1. latest'[sent[i]] = m
    BY <1>2, SentPatch DEF TypeOK
  <2>. QED  BY <1>2, <2>1 DEF RetainedInv
<1>. QED  BY <1>1, <1>2, LatestStep

LEMMA NewestQuiet ==
  ASSUME TypeOK, HeldInv, CarriedInv, Grows, NEW p, NEW m, Newest(p, m),
         UNCHANGED <<rows, inbox>>, Alone(p)' => Alone(p),
         \A t \in Tasks : tasks'[t].kind = "report" <=> tasks[t].kind = "report",
         \A t \in Tasks : tasks[t].kind = "report" => tasks'[t] = tasks[t]
  PROVE  Newest(p, m)'
<1>1. \A t \in Tasks : Treats(t, p)' <=> Treats(t, p)
  BY TreatsFrame
<1>2. \A t \in Tasks : Treats(t, p) => tasks'[t] = tasks[t]
  BY DEF Treats
<1>. QED  BY <1>1, <1>2, NewestFrame

LEMMA NewestDeployed ==
  ASSUME TypeOK, HeldInv, CarriedInv, Grows, NEW p, NEW m, Newest(p, m),
         NEW t \in Tasks, DeploySave(t), tasks[t].patch # p
  PROVE  Newest(p, m)'
<1>1. tasks[t] \in DeployTasks /\ HeldByDeploy(t) /\ tasks[t].kind = "deploy"
      /\ tasks[t].next \in Records
  BY TaskKinds DEF DeploySave, HeldInv, DeployTasks
<1>2. inbox' = inbox /\ (Alone(p)' <=> Alone(p))
  BY DEF DeploySave, Alone
<1>3. Finish(t) \/ tasks' = [tasks EXCEPT ![t].at = "publish"]
  BY DEF DeploySave
<1>4. tasks'[t].kind # "report" /\ \A u \in Tasks : u # t => tasks'[u] = tasks[u]
  <2>1. CASE Finish(t)
    BY <2>1 DEF Finish, Idle, TypeOK
  <2>2. CASE tasks' = [tasks EXCEPT ![t].at = "publish"]
    <3>1. [tasks[t] EXCEPT !.at = "publish"].kind = "deploy"
      BY <1>1 DEF DeployTasks
    <3>. QED  BY <2>2, <3>1 DEF TypeOK
  <2>. QED  BY <1>3, <2>1, <2>2
<1>5. ASSUME NEW r \in Rows, rows'[r] # None, rows'[r].patch = p PROVE rows'[r] = rows[r]
  <2>1. CASE tasks[t].row # None
    <3>1. tasks[t].row \in Used /\ tasks[t].seen \in Records
          /\ rows[tasks[t].row].patch = tasks[t].patch
      BY <1>1, <2>1 DEF HeldByDeploy
    <3>2. Save(tasks[t].row, tasks[t].seen, tasks[t].next)
      BY <2>1 DEF DeploySave
    <3>3. rows'[tasks[t].row].patch = tasks[t].patch
      BY <1>1, <3>1, <3>2, SaveType, UsedRecord, MergedRecord
    <3>4. \A q \in Rows : q # tasks[t].row => rows'[q] = rows[q]
      BY <1>1, <3>1, <3>2, SaveType
    <3>. QED  BY <1>5, <3>3, <3>4
  <2>2. CASE tasks[t].row = None
    <3>1. PICK k \in FreeKeys : rows' = [rows EXCEPT ![k] = tasks[t].next]
      BY <2>2 DEF DeploySave
    <3>2. rows'[k] = tasks[t].next /\ \A q \in Rows : q # k => rows'[q] = rows[q]
      BY <3>1 DEF TypeOK, FreeKeys
    <3>. QED  BY <1>1, <1>5, <3>2 DEF HeldByDeploy
  <2>. QED  BY <2>1, <2>2
<1>6. \A u \in Tasks : /\ Treats(u, p)' <=> Treats(u, p)
                       /\ Treats(u, p) => tasks'[u] = tasks[u]
  BY <1>1, <1>4, TreatsFrame DEF Treats
<1>. QED  BY <1>2, <1>5, <1>6, NewestFrame

LEMMA NewestStep ==
  TypeOK /\ HeldInv /\ CarriedInv /\ OneRowPerPatch /\ OneReport /\ RetainedInv /\ NewestInv
    /\ [Next]_vars => NewestInv'
<1>. SUFFICES ASSUME TypeOK, HeldInv, CarriedInv, OneRowPerPatch, OneReport, RetainedInv,
                     NewestInv, [Next]_vars,
                     NEW p \in Patches, latest'[p] # None
              PROVE  Newest(p, latest[p])'
  BY DEF NewestInv
<1>. PICK m : m = latest'[p]
  OBVIOUS
<1>. SUFFICES Newest(p, m)'
  OBVIOUS
<1>. Grows
  BY GrowsStep
<1>1. latest[p] = m => Newest(p, m)
  BY DEF NewestInv
<1>2. ASSUME NEW t \in Tasks
      PROVE  Treats(t, p) /\ Alone(p) => \A u \in Tasks : Treats(u, p) => u = t
  BY DEF OneReport, Alone
<1>3. Alone(p) => \A q, r \in RowsOf(p) : q = r
  BY DEF OneRowPerPatch, RowsOf, Alone
<1>4. CASE UNCHANGED <<rows, inbox, tasks, latest, crossed>>
  <2>1. Alone(p)' => Alone(p)
    BY <1>4 DEF Alone
  <2>. QED  BY <1>1, <1>4, <2>1, NewestQuiet
<1>5. CASE (\E q \in Patches : DeployAllSkips(q)) \/ Tick \/ UNCHANGED vars
  BY <1>4, <1>5 DEF DeployAllSkips, Tick, vars
<1>6. ASSUME NEW t \in Tasks, NEW q \in Patches,
             \/ DeployBranch(t, q) \/ DeployAll(t, q)
             \/ \E start \in Times : Schedule(t, q, start)
      PROVE  Newest(p, m)'
  <2>1. /\ UNCHANGED <<rows, inbox, latest>> /\ tasks[t] = Idle
        /\ \E task : task.kind = "deploy" /\ tasks' = [tasks EXCEPT ![t] = task]
    BY <1>6 DEF DeployBranch, DeployAll, Schedule, BeginDeploy, CanStart
  <2>2. /\ tasks[t].kind # "report" /\ tasks'[t].kind # "report"
        /\ \A u \in Tasks : u # t => tasks'[u] = tasks[u]
    BY <2>1 DEF Idle, TypeOK
  <2>3. Alone(p)' => Alone(p)
    <3>1. crossed'["report"] = crossed["report"]
      BY <1>6 DEF DeployBranch, DeployAll, Schedule, BeginDeploy, TypeOK, Kinds
    <3>. QED  BY <3>1, CrossedStays DEF Alone
  <2>. QED  BY <1>1, <2>1, <2>2, <2>3, NewestQuiet
<1>7. ASSUME NEW t \in Tasks, DeploySave(t) PROVE Newest(p, m)'
  <2>1. tasks[t].patch # p /\ latest[p] = m
    BY <1>7 DEF DeploySave, TypeOK
  <2>. QED  BY <1>1, <1>7, <2>1, NewestDeployed
<1>8. ASSUME NEW t \in Tasks, DeployPublish(t) PROVE Newest(p, m)'
  <2>1. /\ tasks[t] \in DeployTasks /\ UNCHANGED <<rows, inbox, latest>>
        /\ Alone(p)' => Alone(p)
    BY <1>8, TaskKinds DEF DeployPublish, Alone
  <2>2. Finish(t) \/ tasks' = [tasks EXCEPT ![t].at = "save"]
    BY <1>8 DEF DeployPublish
  <2>3. /\ tasks[t].kind # "report" /\ tasks'[t].kind # "report"
        /\ \A u \in Tasks : u # t => tasks'[u] = tasks[u]
    <3>1. CASE Finish(t)
      BY <2>1, <3>1 DEF Finish, Idle, TypeOK, DeployTasks
    <3>2. CASE tasks' = [tasks EXCEPT ![t].at = "save"]
      <4>1. [tasks[t] EXCEPT !.at = "save"].kind = "deploy" /\ tasks[t].kind = "deploy"
        BY <2>1 DEF DeployTasks
      <4>. QED  BY <3>2, <4>1 DEF TypeOK
    <3>. QED  BY <2>2, <3>1, <3>2
  <2>. QED  BY <1>1, <2>1, <2>3, NewestQuiet
<1>9. ASSUME NEW t \in Tasks, ReceiveReport(t) PROVE Newest(p, m)'
  <2>1. latest[p] = m
    BY <1>9 DEF ReceiveReport
  <2>. QED  BY <1>1, <1>9, <2>1, NewestReceived
<1>10. ASSUME NEW t \in Tasks, ReportRead(t) PROVE Newest(p, m)'
  <2>1. latest[p] = m
    BY <1>10 DEF ReportRead
  <2>. QED  BY <1>1, <1>2, <1>10, <2>1, NewestRead
<1>11. ASSUME NEW t \in Tasks, ReportSave(t) PROVE Newest(p, m)'
  <2>1. latest[p] = m
    BY <1>11 DEF ReportSave
  <2>. QED  BY <1>1, <1>2, <1>3, <1>11, <2>1, NewestSaved
<1>12. ASSUME NEW t \in Tasks, TaskThrows(t) PROVE Newest(p, m)'
  <2>1. CASE tasks[t].kind = "report"
    <3>1. Forget({tasks[t].msg})
      BY <1>12, <2>1 DEF TaskThrows
    <3>2. latest[p] = m /\ tasks[t].msg # m
      BY <3>1, ForgetKeeps
    <3>. QED  BY <1>1, <1>2, <1>12, <2>1, <3>2, NewestThrown
  <2>2. CASE tasks[t].kind # "report"
    <3>1. Finish(t) /\ UNCHANGED <<rows, inbox, latest>> /\ (Alone(p)' => Alone(p))
      BY <1>12, <2>2 DEF TaskThrows, Alone
    <3>2. tasks'[t].kind # "report" /\ \A u \in Tasks : u # t => tasks'[u] = tasks[u]
      BY <3>1 DEF Finish, Idle, TypeOK
    <3>. QED  BY <1>1, <2>2, <3>1, <3>2, NewestQuiet
  <2>. QED  BY <2>1, <2>2
<1>13. ASSUME NEW i \in Requests, BranchBegins(i) PROVE Newest(p, m)'
  <2>1. UNCHANGED <<rows, tasks, sent, published, crossed>> /\ i \in 1..Len(sent)
    BY <1>13, PatchRowsAssumption DEF BranchBegins, Branch!Begin, Requests, TypeOK
  <2>2. CASE UNCHANGED <<inbox, latest>>
    BY <1>4, <2>1, <2>2
  <2>3. CASE /\ inbox' = Append(inbox, Branch!Message(i, "IN_PROGRESS", "DOWNLOAD"))
             /\ latest' = [latest EXCEPT ![sent[i]] = None]
    <3>1. PICK x : x = Branch!Message(i, "IN_PROGRESS", "DOWNLOAD")
      OBVIOUS
    <3>2. x \in Reports /\ x.dep = i
      BY <3>1 DEF Branch!Message, Reports
    <3>3. sent[i] # p /\ latest[p] = m
      BY <2>1, <2>3, SentPatch DEF TypeOK
    <3>. QED  BY <1>1, <2>1, <2>3, <3>1, <3>2, <3>3, NewestAppend
  <2>. QED  BY <1>13, <2>2, <2>3 DEF BranchBegins
<1>14. ASSUME NEW i \in Requests, BranchReports(i) PROVE Newest(p, m)'
  <2>1. UNCHANGED <<rows, tasks, sent, crossed>> /\ i \in 1..Len(sent)
    BY <1>14, BranchReport DEF CarriedInv
  <2>2. CASE UNCHANGED <<inbox, latest>>
    BY <1>4, <2>1, <2>2
  <2>3. ASSUME NEW x \in Reports, x.dep = i, x.status # "IN_PROGRESS", x \notin published,
               published' = published \cup {x}, inbox' = Append(inbox, x),
               latest' = [latest EXCEPT ![sent[i]] = x]
        PROVE  Newest(p, m)'
    <3>1. CASE sent[i] = p
      <4>1. m = x
        BY <2>1, <2>3, <3>1, SentPatch DEF TypeOK
      <4>. QED  BY <2>1, <2>3, <3>1, <4>1, NewestReported
    <3>2. CASE sent[i] # p
      <4>1. latest[p] = m
        BY <2>1, <2>3, <3>2, SentPatch DEF TypeOK
      <4>. QED  BY <1>1, <2>1, <2>3, <3>2, <4>1, NewestAppend
    <3>. QED  BY <3>1, <3>2
  <2>. QED  BY <1>14, <2>2, <2>3, BranchReport
<1>15. CASE Resubscribe
  <2>1. Forget({inbox[k] : k \in DOMAIN inbox} \ {retained})
    BY <1>15 DEF Resubscribe
  <2>2. latest[p] = m /\ m \notin {inbox[k] : k \in DOMAIN inbox} \ {retained}
    BY <2>1, ForgetKeeps
  <2>3. \A k \in 1..Len(inbox) : inbox[k] = m => m = retained
    BY <2>2 DEF TypeOK
  <2>4. retained # None /\ sent[retained.dep] = p => retained = m
    BY <2>2 DEF RetainedInv
  <2>. QED  BY <1>1, <1>15, <2>2, <2>3, <2>4, NewestReplayed
<1>. QED
  BY <1>5, <1>6, <1>7, <1>8, <1>9, <1>10, <1>11, <1>12, <1>13, <1>14, <1>15
  DEF Next, Deploy, TaskStep, BranchStep

(***************************************************************************)
(* When all reports have been treated, a row shows the last thing the      *)
(* branch said since the deployment was saved, whatever was lost, replayed *)
(* or overwritten on the way, unless that report was treated beside        *)
(* another one on the patch, or two deployments were about to insert the   *)
(* row of the patch.                                                       *)
(***************************************************************************)
THEOREM SettledRowsShow == Spec => []SettledRowShowsReport
<1>1. Init => OneReport /\ RetainedInv /\ NewestInv
  BY DEF Init, OneReport, RetainedInv, NewestInv, Idle, Treats
<1>2. RowsInv => TypeOK /\ HeldInv /\ CarriedInv
  BY DEF RowsInv
<1>3. TypeOK /\ NewestInv => SettledRowShowsReport
  <2>. SUFFICES ASSUME TypeOK, NewestInv, Settled, NEW r \in Used, NEW p, p = rows[r].patch,
                       latest[p] # None, p \notin crossed["deploy"] \cup crossed["report"]
                PROVE  rows[r].status = latest[p].status
    BY DEF SettledRowShowsReport
  <2>1. p \in Patches /\ r \in RowsOf(p)
    BY UsedRecord DEF Records, RowsOf
  <2>2. Shown(p, latest[p])
    BY <2>1 DEF NewestInv, Newest, Alone
  <2>3. ~Awaited(p) /\ \A t \in Tasks : ~Treats(t, p)
    <3>1. inbox = <<>> /\ \A t \in Tasks : tasks[t].kind # "report"
      BY DEF Settled
    <3>. QED  BY <3>1 DEF Awaited, Treats
  <2>. QED  BY <2>1, <2>2, <2>3 DEF Shown
<1>. QED
  BY <1>1, <1>2, <1>3, OneReportStep, RetainedStep, NewestStep, OneRowEach, RowsInvariant, PTL
  DEF Spec

=============================================================================
