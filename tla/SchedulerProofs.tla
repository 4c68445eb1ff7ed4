---------------------------- MODULE SchedulerProofs ----------------------------
(***************************************************************************)
(* Theorems about Scheduler, for any number of jobs beside any number of   *)
(* tasks: its steps keep what PatchRowsProofs shows of the tables and the  *)
(* reports, a verdict in a row has a cause, and on a branch with one row a *)
(* patch is sent in its time and only once the row no longer waits.        *)
(***************************************************************************)
EXTENDS Scheduler, PatchRowsProofs

(***************************************************************************)
(* Jobs that have read a row and write it later.                           *)
(***************************************************************************)
Holds(job) == job.at \in {"mark", "expire", "publish", "update"}

(***************************************************************************)
(* A status that a row r of patch p may show.                              *)
(***************************************************************************)
Caused(p, r, status) ==
  status \in Verdicts =>
    \/ \E m \in Heard(p) : m.status = status
    \/ status = "FAILED" /\ r \in expired

(***************************************************************************)
(* The same after a step, of a patch, a row and a status of either state.  *)
(***************************************************************************)
CausedThen(p, r, status) ==
  status \in Verdicts =>
    \/ \E m \in published' : sent'[m.dep] = p /\ m.status = status
    \/ status = "FAILED" /\ r \in expired'

(***************************************************************************)
(* Update writes the status it has read, so that must have had a cause.    *)
(***************************************************************************)
JobsInv ==
  \A j \in Jobs : Holds(jobs[j]) =>
    /\ jobs[j].found \in Used
    /\ jobs[j].seen.patch = rows[jobs[j].found].patch
    /\ Caused(jobs[j].seen.patch, jobs[j].found, jobs[j].seen.status)

Carries == HeldInv /\ CarriedInv

CauseInv == SchedulerTypeOK /\ Carries /\ JobsInv /\ VerdictHasCause

-----------------------------------------------------------------------------
(***************************************************************************)
(* A job is free, or busy with the fields of what it does.                 *)
(***************************************************************************)
LEMMA JobFacts ==
  ASSUME SchedulerTypeOK, NEW j \in Jobs
  PROVE  /\ jobs[j] = Free \/ jobs[j] \in Busy
         /\ jobs[j].at \in {"free", "start", "process", "mark", "expire", "publish", "update"}
         /\ jobs[j].at # "free" => jobs[j].row \in Rows /\ jobs[j].late \in BOOLEAN
         /\ Holds(jobs[j]) => /\ jobs[j].found \in Rows /\ jobs[j].seen \in Records
                              /\ jobs[j].seen.patch \in Patches
         /\ jobs[j] = Free <=> jobs[j].at = "free"
BY DEF SchedulerTypeOK, Free, Busy, Holds, Records

LEMMA BecomeFacts ==
  ASSUME SchedulerTypeOK, NEW j \in Jobs, NEW job, Become(j, job)
  PROVE  jobs'[j] = job /\ \A i \in Jobs : i # j => jobs'[i] = jobs[i]
BY DEF SchedulerTypeOK, Become

LEMMA BecomeType ==
  ASSUME SchedulerTypeOK, NEW j \in Jobs, NEW job \in {Free} \cup Busy, Become(j, job)
  PROVE  jobs' \in [Jobs -> {Free} \cup Busy]
BY DEF SchedulerTypeOK, Become

LEMMA HoldingType ==
  ASSUME SchedulerTypeOK, NEW j \in Jobs, jobs[j].at # "free",
         NEW at \in {"mark", "expire", "publish", "update"}, NEW r \in Rows, NEW seen \in Records
  PROVE  Holding(j, at, r, seen) \in Busy
BY JobFacts DEF Holding, Busy

(***************************************************************************)
(* What a job does to the table and to the branch's requests.              *)
(***************************************************************************)
LEMMA MarkRecord ==
  ASSUME NEW seen \in Records, NEW status \in {"INIT", "FAILED"}
  PROVE  [seen EXCEPT !.status = status] \in Records
BY DEF Records, Statuses

(***************************************************************************)
(* What a step of a job writes: a status of its own into the row it found, *)
(* or the whole record it has read.                                        *)
(***************************************************************************)
Marks(j) ==
  \E status \in {"INIT", "FAILED"} :
    /\ Save(jobs[j].found, jobs[j].seen, [jobs[j].seen EXCEPT !.status = status])
    /\ status = "FAILED" => expired' = expired \cup {jobs[j].found}

LEMMA WritesOfJob ==
  ASSUME CauseInv, NEW j \in Jobs, JobStep(j) \/ JobThrows(j) \/ Launch(j)
  PROVE  /\ UNCHANGED rowsAside /\ expired \subseteq expired'
         /\ \/ UNCHANGED <<rows, sent>>
            \/ UNCHANGED sent /\ Holds(jobs[j]) /\ Marks(j)
            \/ /\ UNCHANGED sent /\ Holds(jobs[j])
               /\ rows' = [rows EXCEPT ![jobs[j].found] = jobs[j].seen]
            \/ UNCHANGED rows /\ Holds(jobs[j]) /\ Send(jobs[j].seen.patch)
<1>1. CASE Lookup(j) \/ Process(j) \/ ProcessSkips(j) \/ JobThrows(j) \/ Launch(j)
  BY <1>1 DEF Lookup, Process, ProcessSkips, JobThrows, Launch, vars, rowsAside
<1>2. CASE Mark(j)
  BY <1>2 DEF Mark, Marks, Holds
<1>3. CASE PatchEror(j)
  BY <1>3 DEF PatchEror, Marks, Holds
<1>4. CASE Publish(j)
  BY <1>4 DEF Publish, Holds
<1>5. CASE Update(j)
  BY <1>5 DEF Update, Holds
<1>. QED  BY <1>1, <1>2, <1>3, <1>4, <1>5 DEF JobStep

(***************************************************************************)
(* The rows a job leaves: its own with the patch it had, all others as     *)
(* they were.                                                              *)
(***************************************************************************)
LEMMA RowsAfterJob ==
  ASSUME CauseInv, NEW j \in Jobs, JobStep(j) \/ JobThrows(j) \/ Launch(j)
  PROVE  /\ TypeOK' /\ Grows
         /\ Used' = Used
<1>1. SchedulerTypeOK /\ TypeOK
  BY DEF CauseInv, SchedulerTypeOK
<1>2. UNCHANGED rowsAside
  BY WritesOfJob
<1>3. ASSUME Holds(jobs[j])
      PROVE  /\ jobs[j].found \in Used /\ jobs[j].seen \in Records
             /\ jobs[j].seen.patch = rows[jobs[j].found].patch
             /\ jobs[j].seen.patch \in Patches
  BY <1>1, <1>3, JobFacts DEF CauseInv, JobsInv
<1>4. CASE UNCHANGED <<rows, sent>>
  BY <1>1, <1>2, <1>4 DEF TypeOK, rowsAside, branch, Grows, RowsGrow, SentGrows, Used
<1>5. CASE UNCHANGED sent /\ Holds(jobs[j]) /\ Marks(j)
  <2>1. PICK status \in {"INIT", "FAILED"} :
          Save(jobs[j].found, jobs[j].seen, [jobs[j].seen EXCEPT !.status = status])
    BY <1>5 DEF Marks
  <2>. DEFINE next == [jobs[j].seen EXCEPT !.status = status]
  <2>2. next \in Records /\ Save(jobs[j].found, jobs[j].seen, next)
    BY <1>3, <1>5, <2>1, MarkRecord
  <2>. HIDE DEF next
  <2>3. RowsGrow /\ SameRows /\ rows' \in [Rows -> Records \cup {None}]
    BY <1>1, <1>3, <1>5, <2>2, SaveGrows, SaveKeepsRows, SaveType
  <2>. QED  BY <1>1, <1>2, <1>5, <2>3
            DEF SameRows, TypeOK, rowsAside, branch, Grows, SentGrows
<1>6. CASE /\ UNCHANGED sent /\ Holds(jobs[j])
           /\ rows' = [rows EXCEPT ![jobs[j].found] = jobs[j].seen]
  <2>1. rows' \in [Rows -> Records \cup {None}] /\ RowsGrow /\ Used' = Used
    BY <1>1, <1>3, <1>6, PatchRowsAssumption DEF TypeOK, RowsGrow, Used
  <2>. QED  BY <1>1, <1>2, <1>6, <2>1 DEF TypeOK, rowsAside, branch, Grows, SentGrows
<1>7. CASE UNCHANGED rows /\ Holds(jobs[j]) /\ Send(jobs[j].seen.patch)
  <2>1. SentGrows
    BY <1>1, <1>3, <1>7, SendGrows
  <2>2. sent' \in Seq(Patches) /\ Len(sent') <= MaxRequests
    <3>1. CASE UNCHANGED sent
      BY <1>1, <3>1 DEF TypeOK
    <3>2. CASE Len(sent) < MaxRequests /\ sent' = Append(sent, jobs[j].seen.patch)
      <4>1. sent \in Seq(Patches)
        BY <1>1 DEF TypeOK
      <4>2. sent' \in Seq(Patches) /\ Len(sent') = Len(sent) + 1
        BY <1>3, <1>7, <3>2, <4>1, AppendProperties
      <4>. QED  BY <3>2, <4>1, <4>2, PatchRowsAssumption
    <3>. QED  BY <1>7, <3>1, <3>2 DEF Send
  <2>. QED  BY <1>1, <1>2, <1>7, <2>1, <2>2
            DEF TypeOK, rowsAside, branch, Grows, RowsGrow, Used
<1>. QED  BY <1>4, <1>5, <1>6, <1>7, WritesOfJob

(***************************************************************************)
(* What tasks and reports carry stays right when a job writes.             *)
(***************************************************************************)
LEMMA CarriesKept ==
  ASSUME TypeOK, Carries, Grows, UNCHANGED rowsAside
  PROVE  Carries'
<1>1. HeldInv'
  BY OthersHold DEF HeldInv, Carries, rowsAside
<1>2. CarriedInv'
  BY CarriedFrame DEF CarriedInv, Carries, rowsAside, branch
<1>. QED  BY <1>1, <1>2 DEF Carries

LEMMA CausedStays ==
  ASSUME Grows, CarriedInv, expired \subseteq expired', NEW p, NEW r, NEW status,
         Caused(p, r, status)
  PROVE  CausedThen(p, r, status)
<1>1. Heard(p) \subseteq {m \in published' : sent'[m.dep] = p}
  BY HeardGrows DEF Heard
<1>. QED  BY <1>1 DEF Caused, CausedThen

-----------------------------------------------------------------------------
(***************************************************************************)
(* Types.                                                                  *)
(***************************************************************************)
LEMMA ScheduleType ==
  ASSUME SchedulerTypeOK, JobsInv,
         \/ Poll
         \/ \E j \in Jobs : Launch(j) \/ JobStep(j) \/ JobThrows(j)
  PROVE  polled' \subseteq Due /\ jobs' \in [Jobs -> {Free} \cup Busy] /\ expired' \subseteq Rows
<1>1. /\ polled \subseteq Due /\ jobs \in [Jobs -> {Free} \cup Busy] /\ expired \subseteq Rows
      /\ TypeOK
  BY DEF SchedulerTypeOK
<1>2. CASE Poll
  <2>. DEFINE late(r) == rows[r].start + Timeout < now
  <2>1. polled' = {[row |-> r, late |-> late(r)] : r \in {q \in Rows : IsDue(q)}}
    BY <1>2 DEF Poll
  <2>2. \A r : late(r) \in BOOLEAN
    OBVIOUS
  <2>. HIDE DEF late
  <2>3. polled' \subseteq Due
    BY <2>1, <2>2 DEF Due
  <2>. QED  BY <1>1, <1>2, <2>3 DEF Poll
<1>3. ASSUME NEW j \in Jobs, Launch(j)
      PROVE  polled' \subseteq Due /\ jobs' \in [Jobs -> {Free} \cup Busy] /\ expired' = expired
  <2>1. PICK d \in polled :
          /\ polled' = polled \ {d}
          /\ jobs' = [jobs EXCEPT ![j] = [at |-> "start", row |-> d.row, late |-> d.late]]
    BY <1>3 DEF Launch
  <2>2. d.row \in Rows /\ d.late \in BOOLEAN
    BY <1>1, <2>1 DEF Due
  <2>3. [at |-> "start", row |-> d.row, late |-> d.late] \in Busy
    BY <2>2 DEF Busy
  <2>. QED  BY <1>1, <1>3, <2>1, <2>3 DEF Launch
<1>4. ASSUME NEW j \in Jobs, JobThrows(j) \/ ProcessSkips(j) \/ Update(j)
      PROVE  polled' = polled /\ jobs' \in [Jobs -> {Free} \cup Busy] /\ expired' = expired
  BY <1>4, BecomeType DEF JobThrows, ProcessSkips, Update
<1>5. ASSUME NEW j \in Jobs, Lookup(j)
      PROVE  polled' = polled /\ jobs' \in [Jobs -> {Free} \cup Busy] /\ expired' = expired
  <2>1. PICK r \in Used :
          \/ \E at \in {"expire", "mark"} : Become(j, Holding(j, at, r, rows[r]))
          \/ Become(j, Free)
          \/ Become(j, [at |-> "process", row |-> jobs[j].row, late |-> FALSE])
    BY <1>5 DEF Lookup
  <2>2. r \in Rows /\ rows[r] \in Records /\ jobs[j].at # "free"
    BY <1>1, <1>5, UsedRecord DEF Lookup
  <2>3. jobs[j].row \in Rows /\ [at |-> "process", row |-> jobs[j].row, late |-> FALSE] \in Busy
    BY <2>2, JobFacts DEF Busy
  <2>4. jobs' \in [Jobs -> {Free} \cup Busy]
    BY <2>1, <2>2, <2>3, HoldingType, BecomeType
  <2>. QED  BY <1>5, <2>4 DEF Lookup
<1>6. ASSUME NEW j \in Jobs, Process(j)
      PROVE  polled' = polled /\ jobs' \in [Jobs -> {Free} \cup Busy] /\ expired' = expired
  <2>1. PICK r \in Used : Become(j, Holding(j, "publish", r, rows[r]))
    BY <1>6 DEF Process
  <2>2. r \in Rows /\ rows[r] \in Records /\ jobs[j].at # "free"
    BY <1>1, <1>6, UsedRecord DEF Process
  <2>3. Holding(j, "publish", r, rows[r]) \in Busy
    BY <2>2, HoldingType
  <2>. QED  BY <1>6, <2>1, <2>3, BecomeType DEF Process
<1>7. ASSUME NEW j \in Jobs, Mark(j)
      PROVE  polled' = polled /\ jobs' \in [Jobs -> {Free} \cup Busy] /\ expired' = expired
  <2>1. [at |-> "process", row |-> jobs[j].row, late |-> FALSE] \in Busy
    BY <1>7, JobFacts DEF Mark, Busy
  <2>. QED  BY <1>7, <2>1, BecomeType DEF Mark
<1>8. ASSUME NEW j \in Jobs, PatchEror(j)
      PROVE  polled' = polled /\ jobs' \in [Jobs -> {Free} \cup Busy] /\ expired' \subseteq Rows
  <2>1. jobs[j].found \in Rows
    BY <1>8, JobFacts DEF PatchEror, Holds
  <2>. QED  BY <1>1, <1>8, <2>1, BecomeType DEF PatchEror
<1>9. ASSUME NEW j \in Jobs, Publish(j)
      PROVE  polled' = polled /\ jobs' \in [Jobs -> {Free} \cup Busy] /\ expired' = expired
  <2>1. jobs[j] \in Busy /\ jobs[j].at = "publish"
    BY <1>9, JobFacts DEF Publish
  <2>2. [jobs[j] EXCEPT !.at = "update"] \in Busy
    BY <2>1 DEF Busy
  <2>. QED  BY <1>1, <1>9, <2>2 DEF Publish
<1>. QED  BY <1>1, <1>2, <1>3, <1>4, <1>5, <1>6, <1>7, <1>8, <1>9 DEF JobStep

-----------------------------------------------------------------------------
(***************************************************************************)
(* Users, reports and the branch leave every status with a cause: what     *)
(* they write is no verdict, or one that was heard.                        *)
(***************************************************************************)
LEMMA RowsKeepCause ==
  ASSUME CauseInv, [Next]_vars, UNCHANGED schedule
  PROVE  VerdictHasCause'
<1>1. /\ TypeOK /\ HeldInv /\ CarriedInv
      /\ \A r \in Used : Caused(rows[r].patch, r, rows[r].status)
  BY DEF CauseInv, Carries, SchedulerTypeOK, VerdictHasCause, Caused
<1>2. Grows
  BY <1>1, GrowsStep
<1>3. expired' = expired
  BY DEF schedule
<1>4. SUFFICES ASSUME NEW r \in Used' PROVE CausedThen(rows'[r].patch, r, rows'[r].status)
  BY DEF VerdictHasCause, CausedThen, Heard
<1>5. ASSUME r \in Used, rows'[r].status = rows[r].status
      PROVE  CausedThen(rows'[r].patch, r, rows'[r].status)
  <2>1. CausedThen(rows[r].patch, r, rows[r].status)
    BY <1>1, <1>2, <1>3, <1>5, CausedStays
  <2>2. rows'[r].patch = rows[r].patch
    BY <1>2, <1>5 DEF Grows, RowsGrow
  <2>. QED  BY <1>5, <2>1, <2>2
<1>6. CASE UNCHANGED rows
  BY <1>5, <1>6 DEF Used
<1>7. ASSUME NEW t \in Tasks, DeploySave(t)
      PROVE  CausedThen(rows'[r].patch, r, rows'[r].status)
  <2>1. tasks[t] \in DeployTasks /\ HeldByDeploy(t) /\ tasks[t].next \in Records
    BY <1>1, <1>7, TaskKinds DEF DeploySave, HeldInv, DeployTasks
  <2>2. tasks[t].next.status \notin Verdicts
    BY <2>1 DEF HeldByDeploy
  <2>3. CASE tasks[t].row \in Used /\ Save(tasks[t].row, tasks[t].seen, tasks[t].next)
    <3>1. tasks[t].seen \in Records
      BY <2>1, <2>3, PatchRowsAssumption DEF HeldByDeploy, Used
    <3>2. CASE r = tasks[t].row
      <4>1. rows'[r].status \in {rows[r].status, tasks[t].next.status}
        BY <1>1, <2>1, <2>3, <3>1, <3>2, UsedRecord, SaveType, MergedRecord
      <4>. QED  BY <1>5, <2>2, <2>3, <3>2, <4>1 DEF CausedThen
    <3>3. CASE r # tasks[t].row
      <4>1. r \in Used /\ rows'[r] = rows[r]
        BY <1>1, <2>1, <2>3, <3>1, <3>3, SaveType DEF Used
      <4>. QED  BY <1>5, <4>1
    <3>. QED  BY <3>2, <3>3
  <2>4. ASSUME NEW q \in FreeKeys, rows' = [rows EXCEPT ![q] = tasks[t].next]
        PROVE  CausedThen(rows'[r].patch, r, rows'[r].status)
    <3>1. CASE r = q
      BY <1>1, <2>2, <2>4, <3>1 DEF CausedThen, TypeOK, FreeKeys
    <3>2. CASE r # q
      BY <1>1, <1>5, <2>4, <3>2 DEF TypeOK, Used
    <3>. QED  BY <3>1, <3>2
  <2>. QED  BY <1>1, <1>7, <2>3, <2>4, DeploySaveType
<1>8. ASSUME NEW t \in Tasks, ReportSave(t)
      PROVE  CausedThen(rows'[r].patch, r, rows'[r].status)
  <2>. PICK m, row, seen, next : /\ m = tasks[t].msg /\ row = tasks[t].row
                                 /\ seen = tasks[t].seen /\ next = Reported(seen, m)
    OBVIOUS
  <2>1. /\ tasks[t].kind = "report" /\ tasks[t].at = "save" /\ m \in Reports
        /\ seen \in Records /\ HeldByReport(t) /\ Genuine(m)
    BY <1>1, <1>8, TaskKinds DEF ReportSave, HeldInv, CarriedInv
  <2>2. row \in Used /\ Save(row, seen, next) /\ rows[row].patch = sent[m.dep]
    BY <1>1, <1>8, <2>1, ReportSaveType DEF HeldByReport
  <2>3. next \in Records /\ next.status = m.status
    BY <2>1, ReportedType, ReportedTells
  <2>4. UNCHANGED <<published, sent>>
    BY <1>8 DEF ReportSave, branch
  <2>5. CASE r = row
    <3>1. /\ rows'[r].status \in {rows[r].status, m.status}
          /\ rows'[r].patch = rows[r].patch
      BY <1>1, <2>1, <2>2, <2>3, <2>5, UsedRecord, SaveType, MergedRecord
    <3>2. m.status \in Verdicts => m \in published' /\ sent'[m.dep] = rows'[r].patch
      BY <2>1, <2>2, <2>4, <2>5, <3>1 DEF Genuine, Verdicts
    <3>. QED  BY <1>5, <2>2, <2>5, <3>1, <3>2 DEF CausedThen
  <2>6. CASE r # row
    <3>1. r \in Used /\ rows'[r] = rows[r]
      BY <1>1, <2>1, <2>2, <2>3, <2>6, SaveType DEF Used
    <3>. QED  BY <1>5, <3>1
  <2>. QED  BY <2>5, <2>6
<1>9. ASSUME NEW i \in Requests, BranchBegins(i) \/ BranchReports(i)
      PROVE  CausedThen(rows'[r].patch, r, rows'[r].status)
  BY <1>1, <1>6, <1>9, BranchReport DEF BranchBegins
<1>10. ASSUME NEW t \in Tasks,
              DeployPublish(t) \/ ReceiveReport(t) \/ ReportRead(t) \/ TaskThrows(t)
       PROVE  CausedThen(rows'[r].patch, r, rows'[r].status)
  BY <1>6, <1>10 DEF DeployPublish, ReceiveReport, ReportRead, TaskThrows
<1>11. CASE Deploy \/ Resubscribe \/ Tick \/ UNCHANGED vars
  BY <1>6, <1>11 DEF Deploy, DeployAllSkips, DeployBranch, DeployAll, Schedule, BeginDeploy,
                     Resubscribe, Tick, vars
<1>. QED
  BY <1>7, <1>8, <1>9, <1>10, <1>11 DEF Next, TaskStep, BranchStep

(***************************************************************************)
(* Jobs that hold something keep it right when the step is not theirs.     *)
(***************************************************************************)
LEMMA HoldsStays ==
  ASSUME Grows, CarriedInv, JobsInv, expired \subseteq expired', NEW j \in Jobs,
         NEW job, Holds(job), Holds(jobs[j]),
         job.found = jobs[j].found, job.seen = jobs[j].seen, jobs'[j] = job
  PROVE  /\ jobs'[j].found \in Used'
         /\ jobs'[j].seen.patch = rows'[jobs'[j].found].patch
         /\ CausedThen(jobs'[j].seen.patch, jobs'[j].found, jobs'[j].seen.status)
<1>1. /\ jobs[j].found \in Used
      /\ jobs[j].seen.patch = rows[jobs[j].found].patch
      /\ Caused(jobs[j].seen.patch, jobs[j].found, jobs[j].seen.status)
  BY DEF JobsInv
<1>2. CausedThen(jobs[j].seen.patch, jobs[j].found, jobs[j].seen.status)
  BY <1>1, CausedStays
<1>3. jobs[j].found \in Used' /\ jobs[j].seen.patch = rows'[jobs[j].found].patch
  BY <1>1 DEF Grows, RowsGrow
<1>. QED  BY <1>2, <1>3

LEMMA JobsKept ==
  ASSUME CauseInv, Grows, Used \subseteq Used', expired \subseteq expired',
         NEW j, \A i \in Jobs : i # j => jobs'[i] = jobs[i],
         j \in Jobs /\ Holds(jobs'[j]) =>
           \/ /\ Holds(jobs[j]) /\ jobs'[j].found = jobs[j].found
              /\ jobs'[j].seen = jobs[j].seen
           \/ \E r \in Used : /\ jobs'[j].found = r /\ jobs'[j].seen = rows[r]
                              /\ UNCHANGED <<rows, sent, published>>
  PROVE  JobsInv'
<1>1. SUFFICES ASSUME NEW i \in Jobs, Holds(jobs'[i])
               PROVE  /\ jobs'[i].found \in Used'
                      /\ jobs'[i].seen.patch = rows'[jobs'[i].found].patch
                      /\ CausedThen(jobs'[i].seen.patch, jobs'[i].found, jobs'[i].seen.status)
  BY DEF JobsInv, Holds, CausedThen, Caused, Heard
<1>2. JobsInv /\ CarriedInv /\ VerdictHasCause
  BY DEF CauseInv, Carries
<1>3. CASE Holds(jobs[i]) /\ jobs'[i].found = jobs[i].found /\ jobs'[i].seen = jobs[i].seen
  BY <1>1, <1>2, <1>3, HoldsStays
<1>4. CASE i = j /\ \E r \in Used : /\ jobs'[j].found = r /\ jobs'[j].seen = rows[r]
                                    /\ UNCHANGED <<rows, sent, published>>
  <2>1. PICK r \in Used : jobs'[j].found = r /\ jobs'[j].seen = rows[r]
    BY <1>4
  <2>2. Caused(rows[r].patch, r, rows[r].status)
    BY <1>2 DEF VerdictHasCause, Caused
  <2>3. CausedThen(rows[r].patch, r, rows[r].status)
    BY <1>2, <2>2, CausedStays
  <2>4. r \in Used' /\ rows'[r] = rows[r]
    BY <1>4
  <2>. QED  BY <1>4, <2>1, <2>3, <2>4
<1>. QED  BY <1>1, <1>3, <1>4

(***************************************************************************)
(* Each step of a job, and of the loop, keeps the causes.                  *)
(***************************************************************************)
LEMMA JobKeepsCause ==
  ASSUME CauseInv, NEW j \in Jobs, JobStep(j) \/ JobThrows(j) \/ Launch(j)
  PROVE  JobsInv' /\ VerdictHasCause'
<1>1. SchedulerTypeOK /\ TypeOK /\ CarriedInv /\ JobsInv /\ VerdictHasCause
  BY DEF CauseInv, SchedulerTypeOK, Carries
<1>2. Grows /\ Used' = Used /\ UNCHANGED rowsAside /\ expired \subseteq expired' /\ TypeOK'
  BY RowsAfterJob, WritesOfJob
<1>3. /\ \A i \in Jobs : i # j => jobs'[i] = jobs[i]
      /\ Holds(jobs'[j]) =>
           \/ /\ Holds(jobs[j]) /\ jobs'[j].found = jobs[j].found
              /\ jobs'[j].seen = jobs[j].seen
           \/ \E r \in Used : /\ jobs'[j].found = r /\ jobs'[j].seen = rows[r]
                              /\ UNCHANGED <<rows, sent, published>>
  <2>1. CASE Publish(j)
    <3>1. jobs[j] \in Busy /\ Holds(jobs[j]) /\ jobs[j].at = "publish"
      BY <1>1, <2>1, JobFacts DEF Publish, Holds
    <3>2. jobs' = [jobs EXCEPT ![j] = [jobs[j] EXCEPT !.at = "update"]]
      BY <1>1, <2>1 DEF Publish
    <3>3. [jobs[j] EXCEPT !.at = "update"].found = jobs[j].found
          /\ [jobs[j] EXCEPT !.at = "update"].seen = jobs[j].seen
      BY <3>1 DEF Busy
    <3>. QED  BY <1>1, <3>1, <3>2, <3>3 DEF SchedulerTypeOK
  <2>2. CASE Launch(j)
    BY <1>1, <2>2 DEF Launch, Holds, SchedulerTypeOK
  <2>3. CASE Lookup(j)
    <3>1. PICK r \in Used :
            \/ \E at \in {"expire", "mark"} : Become(j, Holding(j, at, r, rows[r]))
            \/ Become(j, Free)
            \/ Become(j, [at |-> "process", row |-> jobs[j].row, late |-> FALSE])
      BY <2>3 DEF Lookup
    <3>2. UNCHANGED <<rows, sent, published>>
      BY <2>3 DEF Lookup, vars, branch
    <3>3. ASSUME NEW at, Become(j, Holding(j, at, r, rows[r]))
          PROVE  jobs'[j].found = r /\ jobs'[j].seen = rows[r]
                 /\ \A i \in Jobs : i # j => jobs'[i] = jobs[i]
      BY <1>1, <3>3, BecomeFacts DEF Holding
    <3>4. CASE \E at : Become(j, Holding(j, at, r, rows[r]))
      BY <3>2, <3>3, <3>4
    <3>5. CASE Become(j, Free)
      BY <1>1, <3>5, BecomeFacts DEF Free, Holds
    <3>6. CASE Become(j, [at |-> "process", row |-> jobs[j].row, late |-> FALSE])
      BY <1>1, <3>6, BecomeFacts DEF Holds
    <3>. QED  BY <3>1, <3>4, <3>5, <3>6
  <2>4. CASE Process(j)
    <3>1. PICK r \in Used : Become(j, Holding(j, "publish", r, rows[r]))
      BY <2>4 DEF Process
    <3>2. UNCHANGED <<rows, sent, published>>
      BY <2>4 DEF Process, vars, branch
    <3>. QED  BY <1>1, <3>1, <3>2, BecomeFacts DEF Holding
  <2>5. CASE Mark(j)
    <3>1. Become(j, [at |-> "process", row |-> jobs[j].row, late |-> FALSE])
      BY <2>5 DEF Mark
    <3>. QED  BY <1>1, <3>1, BecomeFacts DEF Holds
  <2>6. CASE PatchEror(j) \/ ProcessSkips(j) \/ Update(j) \/ JobThrows(j)
    <3>1. Become(j, Free)
      BY <2>6 DEF PatchEror, ProcessSkips, Update, JobThrows
    <3>. QED  BY <1>1, <3>1, BecomeFacts DEF Holds, Free
  <2>. QED  BY <2>1, <2>2, <2>3, <2>4, <2>5, <2>6 DEF JobStep
<1>4. JobsInv'
  BY <1>2, <1>3, JobsKept
<1>5. SUFFICES ASSUME NEW r \in Used PROVE CausedThen(rows'[r].patch, r, rows'[r].status)
  BY <1>2, <1>4 DEF VerdictHasCause, CausedThen, Heard
<1>6. rows'[r].patch = rows[r].patch /\ Caused(rows[r].patch, r, rows[r].status)
  BY <1>1, <1>2 DEF Grows, RowsGrow, VerdictHasCause, Caused
<1>7. ASSUME rows'[r].status = rows[r].status
      PROVE  CausedThen(rows'[r].patch, r, rows'[r].status)
  <2>1. CausedThen(rows[r].patch, r, rows[r].status)
    BY <1>1, <1>2, <1>6, CausedStays
  <2>. QED  BY <1>6, <1>7, <2>1
<1>8. CASE UNCHANGED rows
  BY <1>7, <1>8
<1>9. ASSUME Holds(jobs[j])
      PROVE  /\ jobs[j].found \in Used /\ jobs[j].seen \in Records
             /\ jobs[j].seen.patch = rows[jobs[j].found].patch
             /\ Caused(jobs[j].seen.patch, jobs[j].found, jobs[j].seen.status)
  BY <1>1, <1>9, JobFacts DEF JobsInv
<1>10. CASE Holds(jobs[j]) /\ Marks(j)
  <2>1. PICK status \in {"INIT", "FAILED"} :
          /\ Save(jobs[j].found, jobs[j].seen, [jobs[j].seen EXCEPT !.status = status])
          /\ status = "FAILED" => expired' = expired \cup {jobs[j].found}
    BY <1>10 DEF Marks
  <2>. DEFINE next == [jobs[j].seen EXCEPT !.status = status]
  <2>2. next \in Records /\ next.status = status /\ Save(jobs[j].found, jobs[j].seen, next)
    BY <1>9, <1>10, <2>1, MarkRecord DEF Records
  <2>. HIDE DEF next
  <2>3. CASE r = jobs[j].found
    <3>1. rows'[r] = Merged(rows[r], jobs[j].seen, next) /\ rows[r] \in Records
      BY <1>1, <1>9, <1>10, <2>2, <2>3, UsedRecord, SaveType
    <3>3. rows'[r].status \in {rows[r].status, status}
      BY <1>9, <1>10, <2>2, <3>1, MergedRecord
    <3>2. status = "INIT" => status \notin Verdicts
      BY DEF Verdicts
    <3>. QED  BY <1>7, <2>1, <2>3, <3>3, <3>2 DEF CausedThen
  <2>4. CASE r # jobs[j].found
    <3>1. rows'[r] = rows[r]
      BY <1>1, <1>9, <1>10, <2>2, <2>4, SaveType DEF Used
    <3>. QED  BY <1>7, <3>1
  <2>. QED  BY <2>3, <2>4
<1>11. CASE Holds(jobs[j]) /\ rows' = [rows EXCEPT ![jobs[j].found] = jobs[j].seen]
  <2>1. CASE r = jobs[j].found
    <3>1. rows'[r] = jobs[j].seen
      BY <1>1, <1>11, <2>1 DEF TypeOK, Used
    <3>2. CausedThen(jobs[j].seen.patch, r, jobs[j].seen.status)
      BY <1>1, <1>2, <1>9, <1>11, <2>1, CausedStays
    <3>. QED  BY <3>1, <3>2
  <2>2. CASE r # jobs[j].found
    <3>1. rows'[r] = rows[r]
      BY <1>1, <1>11, <2>2 DEF TypeOK, Used
    <3>. QED  BY <1>7, <3>1
  <2>. QED  BY <2>1, <2>2
<1>. QED  BY <1>8, <1>10, <1>11, WritesOfJob

-----------------------------------------------------------------------------
LEMMA CauseInit == SchedulerInit => CauseInv
<1>. SUFFICES ASSUME SchedulerInit PROVE CauseInv
  OBVIOUS
<1>1. TypeOK /\ HeldInv /\ CarriedInv
  BY InitRows DEF SchedulerInit, RowsInv
<1>2. SchedulerTypeOK
  BY <1>1 DEF SchedulerTypeOK, SchedulerInit
<1>3. JobsInv
  BY DEF JobsInv, SchedulerInit, Holds, Free
<1>4. VerdictHasCause
  BY DEF VerdictHasCause, SchedulerInit, Init, Used
<1>. QED  BY <1>1, <1>2, <1>3, <1>4 DEF CauseInv, Carries

LEMMA CauseStep == CauseInv /\ [SchedulerNext]_allVars => CauseInv'
<1>. SUFFICES ASSUME CauseInv, [SchedulerNext]_allVars PROVE CauseInv'
  OBVIOUS
<1>1. SchedulerTypeOK /\ TypeOK /\ HeldInv /\ CarriedInv /\ JobsInv
  BY DEF CauseInv, SchedulerTypeOK, Carries
<1>2. CASE [Next]_vars /\ UNCHANGED schedule
  <2>1. TypeOK' /\ HeldInv' /\ CarriedInv' /\ Grows
    BY <1>1, <1>2, TypeStep, HeldStep, CarriedStep, GrowsStep
  <2>2. SchedulerTypeOK'
    BY <1>1, <1>2, <2>1 DEF SchedulerTypeOK, schedule
  <2>3. JobsInv'
    <3>1. Used \subseteq Used' /\ UNCHANGED <<jobs, expired>>
      BY <1>2, <2>1 DEF Grows, RowsGrow, schedule
    <3>. QED  BY <2>1, <3>1, JobsKept
  <2>4. VerdictHasCause'
    BY <1>2, RowsKeepCause
  <2>. QED  BY <2>1, <2>2, <2>3, <2>4 DEF CauseInv, Carries
<1>3. CASE Poll
  <2>1. UNCHANGED <<vars, jobs, expired>>
    BY <1>3 DEF Poll
  <2>2. SchedulerTypeOK'
    BY <1>1, <1>3, <2>1, ScheduleType DEF SchedulerTypeOK, vars, branch, TypeOK
  <2>3. Carries' /\ JobsInv' /\ VerdictHasCause'
    BY <2>1 DEF CauseInv, Carries, HeldInv, HeldByDeploy, HeldByReport, CarriedInv, Genuine,
                JobsInv, Caused, VerdictHasCause, Heard, Used, vars, branch
  <2>. QED  BY <2>2, <2>3 DEF CauseInv
<1>4. ASSUME NEW j \in Jobs, Launch(j) \/ JobStep(j) \/ JobThrows(j)
      PROVE  CauseInv'
  <2>1. TypeOK' /\ Grows /\ UNCHANGED rowsAside
    BY <1>4, RowsAfterJob, WritesOfJob
  <2>2. SchedulerTypeOK'
    BY <1>1, <1>4, <2>1, ScheduleType DEF SchedulerTypeOK
  <2>3. Carries'
    BY <1>1, <2>1, CarriesKept DEF Carries
  <2>4. JobsInv' /\ VerdictHasCause'
    BY <1>4, JobKeepsCause
  <2>. QED  BY <2>2, <2>3, <2>4 DEF CauseInv
<1>5. CASE UNCHANGED allVars
  BY <1>2, <1>5 DEF allVars
<1>. QED  BY <1>2, <1>3, <1>4, <1>5 DEF SchedulerNext

LEMMA CauseInvariant == SchedulerSpec => []CauseInv
BY CauseInit, CauseStep, PTL DEF SchedulerSpec

(***************************************************************************)
(* The state of the scheduler and of all it runs beside keeps its types.   *)
(***************************************************************************)
THEOREM SchedulerTypeCorrect == SchedulerSpec => []SchedulerTypeOK
<1>1. CauseInv => SchedulerTypeOK
  BY DEF CauseInv
<1>. QED  BY <1>1, CauseInvariant, PTL

(***************************************************************************)
(* Although a job writes back a whole row as it had read it, and any row   *)
(* of the branch at that, SUCCESS, FAILED and ROLLBACK in a row were       *)
(* reported about its patch, or the row's time had passed                  *)
(* (SchedulerService.PatchEror).                                           *)
(***************************************************************************)
THEOREM VerdictsHaveCauses == SchedulerSpec => []VerdictHasCause
<1>1. CauseInv => VerdictHasCause
  BY DEF CauseInv
<1>. QED  BY <1>1, CauseInvariant, PTL

-----------------------------------------------------------------------------
(***************************************************************************)
(* Time.  A deployment that has found a row brings no SCHEDULE and no time *)
(* in the future; only the one that creates a row can.                     *)
(***************************************************************************)
PlanInv ==
  \A t \in Tasks : tasks[t].kind = "deploy" /\ tasks[t].row # None =>
    /\ tasks[t].next.status # "SCHEDULE"
    /\ tasks[t].next.start = tasks[t].seen.start \/ tasks[t].next.start <= now

(***************************************************************************)
(* With one row: once the loop has found it due it stays due, and from the *)
(* moment a job goes on to the deployment it no longer says SCHEDULE.      *)
(***************************************************************************)
DueInv ==
  polled # {} \/ (\E j \in Jobs : jobs[j].at # "free") =>
    Used # {} /\ \A r \in Used : rows[r].start <= now

PassedInv ==
  \A j \in Jobs :
    /\ jobs[j].at \in {"mark", "expire"} => jobs[j].seen.status = "SCHEDULE"
    /\ jobs[j].at \in {"process", "publish", "update"} =>
         \A r \in Used : rows[r].status # "SCHEDULE"
    /\ jobs[j].at \in {"publish", "update"} =>
         jobs[j].seen.status # "SCHEDULE" /\ jobs[j].seen.start <= now

LateInv == SingleRow => DueInv /\ PassedInv

(***************************************************************************)
(* A step after which what was due is due, and what no longer waited still *)
(* does not.                                                               *)
(***************************************************************************)
RowsSettle ==
  /\ Used' = Used
  /\ \A r \in Used : /\ rows[r].status # "SCHEDULE" => rows'[r].status # "SCHEDULE"
                     /\ rows[r].start <= now => rows'[r].start <= now'

LEMMA MergedColumns ==
  ASSUME NEW held \in Records, NEW seen \in Records, NEW next \in Records
  PROVE  /\ Merged(held, seen, next).status =
              IF next.status = seen.status THEN held.status ELSE next.status
         /\ Merged(held, seen, next).start =
              IF next.start = seen.start THEN held.start ELSE next.start
BY DEF Merged, Records

LEMMA TimeFacts ==
  ASSUME TypeOK
  PROVE  /\ now \in Nat
         /\ \A r \in Records : r.start \in Nat
BY PatchRowsAssumption DEF TypeOK, Times, Records

LEMMA TimePasses ==
  ASSUME TypeOK, [Next]_vars
  PROVE  now \in Nat /\ now' \in Nat /\ now <= now'
<1>1. now \in Nat
  BY TimeFacts
<1>2. CASE Tick
  BY <1>1, <1>2 DEF Tick
<1>3. CASE now' = now
  BY <1>1, <1>3
<1>4. CASE Deploy \/ (\E t \in Tasks : TaskStep(t)) \/ BranchStep \/ Resubscribe \/ UNCHANGED vars
  BY ZenonT(40), <1>3, <1>4
  DEF Deploy, DeployAllSkips, DeployBranch, DeployAll, Schedule, BeginDeploy, TaskStep,
      DeploySave, DeployPublish, ReceiveReport, ReportRead, ReportSave, TaskThrows,
      BranchStep, BranchBegins, BranchReports, Resubscribe, vars
<1>. QED  BY <1>2, <1>4 DEF Next

(***************************************************************************)
(* A deployment that is under way after a step was under way before, with  *)
(* the same row and the same plan, or begins with the step.                *)
(***************************************************************************)
Begins(t) ==
  \E p \in Patches :
    \/ DeployBranch(t, p) \/ DeployAll(t, p)
    \/ \E start \in Times : Schedule(t, p, start)

SamePlan(t) ==
  /\ tasks[t].kind = "deploy" /\ tasks'[t].row = tasks[t].row
  /\ tasks'[t].seen = tasks[t].seen /\ tasks'[t].next = tasks[t].next

LEMMA PlanOrigin ==
  ASSUME TypeOK, [Next]_vars, NEW t \in Tasks, tasks'[t].kind = "deploy"
  PROVE  SamePlan(t) \/ Begins(t)
<1>1. ASSUME tasks'[t] = tasks[t] PROVE SamePlan(t)
  BY <1>1 DEF SamePlan
<1>2. ASSUME NEW u \in Tasks, NEW task, tasks' = [tasks EXCEPT ![u] = task],
             task.kind # "deploy"
      PROVE  SamePlan(t)
  <2>1. tasks'[u] = task /\ (u # t => tasks'[t] = tasks[t])
    BY <1>2 DEF TypeOK
  <2>2. u # t
    BY <1>2, <2>1
  <2>. QED  BY <1>1, <2>1, <2>2
<1>3. ASSUME NEW u \in Tasks, Finish(u) PROVE SamePlan(t)
  <2>1. Idle.kind # "deploy" /\ tasks' = [tasks EXCEPT ![u] = Idle]
    BY <1>3 DEF Finish, Idle
  <2>. QED  BY <1>2, <2>1
<1>4. ASSUME NEW u \in Tasks, DeploySave(u) \/ DeployPublish(u) PROVE SamePlan(t)
  <2>1. tasks[u] \in DeployTasks
    BY <1>4, TaskKinds DEF DeploySave, DeployPublish
  <2>2. ASSUME NEW at, tasks' = [tasks EXCEPT ![u].at = at] PROVE SamePlan(t)
    BY <1>1, <2>1, <2>2 DEF TypeOK, DeployTasks, SamePlan
  <2>. QED  BY <1>3, <1>4, <2>2 DEF DeploySave, DeployPublish
<1>5. ASSUME NEW u \in Tasks, Begins(u) PROVE SamePlan(t) \/ Begins(t)
  <2>1. u # t => tasks'[t] = tasks[t]
    BY <1>5 DEF Begins, DeployBranch, DeployAll, Schedule, BeginDeploy, TypeOK
  <2>. QED  BY <1>1, <1>5, <2>1
<1>6. ASSUME NEW u \in Tasks, ReceiveReport(u) PROVE SamePlan(t)
  <2>1. \E m : tasks' = [tasks EXCEPT ![u] = [kind |-> "report", at |-> "read", msg |-> m]]
    BY <1>6 DEF ReceiveReport
  <2>2. \A m : [kind |-> "report", at |-> "read", msg |-> m].kind # "deploy"
    OBVIOUS
  <2>. QED  BY <1>2, <2>1, <2>2
<1>7. ASSUME NEW u \in Tasks, ReportRead(u) PROVE SamePlan(t)
  <2>1. CASE Finish(u)
    BY <1>3, <2>1
  <2>2. ASSUME NEW m, NEW r, NEW seen, tasks' = [tasks EXCEPT ![u] =
                 [kind |-> "report", at |-> "save", msg |-> m, row |-> r, seen |-> seen]]
        PROVE  SamePlan(t)
    <3>. DEFINE task == [kind |-> "report", at |-> "save", msg |-> m, row |-> r, seen |-> seen]
    <3>1. task.kind # "deploy" /\ tasks' = [tasks EXCEPT ![u] = task]
      BY <2>2
    <3>. HIDE DEF task
    <3>. QED  BY <1>2, <3>1
  <2>. QED  BY <1>7, <2>1, <2>2 DEF ReportRead
<1>8. ASSUME NEW u \in Tasks, ReportSave(u) \/ TaskThrows(u) PROVE SamePlan(t)
  BY <1>3, <1>8 DEF ReportSave, TaskThrows
<1>9. CASE BranchStep \/ Resubscribe \/ Tick \/ UNCHANGED vars
  BY <1>1, <1>9 DEF BranchStep, BranchBegins, BranchReports, Resubscribe, Tick, vars
<1>10. ASSUME NEW p \in Patches, DeployAllSkips(p) PROVE SamePlan(t)
  <2>1. tasks' = tasks
    BY <1>10 DEF DeployAllSkips
  <2>. QED  BY <1>1, <2>1
<1>. QED
  BY <1>4, <1>5, <1>6, <1>7, <1>8, <1>9, <1>10 DEF Next, Deploy, Begins, TaskStep

LEMMA PlanStep ==
  ASSUME TypeOK, PlanInv, [Next]_vars
  PROVE  PlanInv'
<1>1. SUFFICES ASSUME NEW t \in Tasks, tasks'[t].kind = "deploy", tasks'[t].row # None
               PROVE  /\ tasks'[t].next.status # "SCHEDULE"
                      /\ \/ tasks'[t].next.start = tasks'[t].seen.start
                         \/ tasks'[t].next.start <= now'
  BY DEF PlanInv
<1>2. CASE SamePlan(t)
  <2>1. tasks[t].next.start \in Nat
    BY <1>2, TaskKinds, TimeFacts DEF SamePlan, DeployTasks
  <2>. QED  BY <1>1, <1>2, <2>1, TimePasses DEF PlanInv, SamePlan
<1>3. CASE Begins(t)
  <2>1. PICK p, all, send, at, r, next :
          /\ r \in AnyOf(RowsOf(p)) \cup AnyOf(NewestOf(p))
          /\ BeginDeploy(t, all, send, at, p, r, next)
          /\ r # None => next = Restarted(rows[r]) \/ next = Resumed(rows[r])
    <3>1. PICK p \in Patches : \/ DeployBranch(t, p) \/ DeployAll(t, p)
                              \/ \E start \in Times : Schedule(t, p, start)
      BY <1>3 DEF Begins
    <3>2. CASE DeployBranch(t, p)
      BY <3>2 DEF DeployBranch
    <3>3. CASE DeployAll(t, p)
      BY <3>3 DEF DeployAll
    <3>4. CASE \E start \in Times : Schedule(t, p, start)
      BY <3>4 DEF Schedule
    <3>. QED  BY <3>1, <3>2, <3>3, <3>4
  <2>2. /\ tasks'[t].row = r /\ tasks'[t].next = next /\ now' = now
        /\ r # None => tasks'[t].seen = rows[r]
    BY <2>1 DEF BeginDeploy, TypeOK
  <2>3. r \in Used /\ rows[r] \in Records
    BY <1>1, <2>1, <2>2, UsedRecord DEF AnyOf, RowsOf, NewestOf
  <2>4. /\ Restarted(rows[r]).status # "SCHEDULE" /\ Restarted(rows[r]).start = rows[r].start
        /\ Resumed(rows[r]).status # "SCHEDULE" /\ Resumed(rows[r]).start = now
    BY <2>3 DEF Restarted, Resumed, Records
  <2>. QED  BY <1>1, <2>1, <2>2, <2>4, TimeFacts
<1>. QED  BY <1>1, <1>2, <1>3, PlanOrigin

(***************************************************************************)
(* With one row that exists, no deployment can create another, so what     *)
(* users and reports save neither postpones the row nor schedules it.      *)
(***************************************************************************)
LEMMA OthersSettle ==
  ASSUME TypeOK, HeldInv, PlanInv, SingleRow, Used # {}, [Next]_vars
  PROVE  RowsSettle
<1>0. now \in Nat /\ now' \in Nat /\ now <= now'
  BY TimePasses
<1>1. ASSUME NEW r \in Used, NEW seen \in Records, NEW next \in Records, Save(r, seen, next),
             next.status # "SCHEDULE", next.start = seen.start \/ next.start <= now
      PROVE  RowsSettle
  <2>1. rows'[r] = Merged(rows[r], seen, next) /\ rows[r] \in Records
        /\ \A q \in Rows : q # r => rows'[q] = rows[q]
    BY <1>1, UsedRecord, SaveType
  <2>2. Used' = Used
    BY <1>1, SaveKeepsRows DEF SameRows
  <2>3. \A q \in Used : rows[q].start \in Nat
    BY UsedRecord, TimeFacts
  <2>4. next.start \in Nat
    BY TimeFacts
  <2>5. ASSUME NEW q \in Used
        PROVE  /\ rows[q].status # "SCHEDULE" => rows'[q].status # "SCHEDULE"
               /\ rows[q].start <= now => rows'[q].start <= now'
    <3>1. CASE q = r
      BY <1>0, <1>1, <2>1, <2>3, <2>4, <3>1, MergedColumns
    <3>2. CASE q # r
      BY <1>0, <2>1, <2>3, <3>2 DEF Used
    <3>. QED  BY <3>1, <3>2
  <2>. QED  BY <2>2, <2>5 DEF RowsSettle
<1>2. CASE UNCHANGED rows
  <2>1. \A q \in Used : rows[q].start \in Nat
    BY UsedRecord, TimeFacts
  <2>. QED  BY <1>0, <1>2, <2>1 DEF RowsSettle, Used
<1>3. ASSUME NEW t \in Tasks, DeploySave(t) PROVE RowsSettle
  <2>1. tasks[t] \in DeployTasks /\ tasks[t].kind = "deploy" /\ HeldByDeploy(t)
        /\ tasks[t].next \in Records
    BY <1>3, TaskKinds DEF DeploySave, HeldInv, DeployTasks
  <2>2. FreeKeys = {}
    BY DEF FreeKeys, SingleRow, Used
  <2>3. tasks[t].row \in Used /\ tasks[t].row # None
        /\ Save(tasks[t].row, tasks[t].seen, tasks[t].next)
    BY <1>3, <2>2, DeploySaveType, PatchRowsAssumption DEF Used
  <2>4. tasks[t].seen \in Records
    BY <2>1, <2>3 DEF HeldByDeploy
  <2>5. /\ tasks[t].next.status # "SCHEDULE"
        /\ tasks[t].next.start = tasks[t].seen.start \/ tasks[t].next.start <= now
    BY <2>1, <2>3 DEF PlanInv
  <2>. QED  BY <1>1, <2>1, <2>3, <2>4, <2>5
<1>4. ASSUME NEW t \in Tasks, ReportSave(t) PROVE RowsSettle
  <2>1. /\ tasks[t].row \in Used
        /\ Save(tasks[t].row, tasks[t].seen, Reported(tasks[t].seen, tasks[t].msg))
    BY <1>4, ReportSaveType
  <2>2. tasks[t].seen \in Records /\ tasks[t].msg \in Reports
    BY <1>4, TaskKinds DEF ReportSave
  <2>3. /\ Reported(tasks[t].seen, tasks[t].msg) \in Records
        /\ Reported(tasks[t].seen, tasks[t].msg).status = tasks[t].msg.status
        /\ Reported(tasks[t].seen, tasks[t].msg).start = tasks[t].seen.start
    <3>1. Reported(tasks[t].seen, tasks[t].msg).start = tasks[t].seen.start
      BY <2>2 DEF Reported, Records
    <3>. QED  BY <2>2, <3>1, ReportedType, ReportedTells
  <2>4. tasks[t].msg.status # "SCHEDULE"
    BY <2>2 DEF Reports
  <2>. QED  BY <1>1, <2>1, <2>2, <2>3, <2>4
<1>5. ASSUME NEW t \in Tasks,
             DeployPublish(t) \/ ReceiveReport(t) \/ ReportRead(t) \/ TaskThrows(t)
      PROVE  RowsSettle
  BY <1>2, <1>5 DEF DeployPublish, ReceiveReport, ReportRead, TaskThrows
<1>6. CASE Deploy \/ BranchStep \/ Resubscribe \/ Tick \/ UNCHANGED vars
  BY <1>2, <1>6
  DEF Deploy, DeployAllSkips, DeployBranch, DeployAll, Schedule, BeginDeploy, BranchStep,
      BranchBegins, BranchReports, Resubscribe, Tick, vars
<1>. QED  BY <1>3, <1>4, <1>5, <1>6 DEF Next, TaskStep

(***************************************************************************)
(* Jobs: Mark and PatchEror write no time and no SCHEDULE, and Update      *)
(* writes what was read when the row no longer waited and was due.         *)
(***************************************************************************)
LEMMA JobsSettle ==
  ASSUME CauseInv, PassedInv, NEW j \in Jobs, JobStep(j) \/ JobThrows(j) \/ Launch(j)
  PROVE  RowsSettle
<1>1. SchedulerTypeOK /\ TypeOK /\ now' = now /\ Used' = Used
  BY WritesOfJob, RowsAfterJob DEF CauseInv, SchedulerTypeOK, rowsAside
<1>2. CASE UNCHANGED rows
  BY <1>1, <1>2 DEF RowsSettle
<1>3. ASSUME Holds(jobs[j])
      PROVE  jobs[j].found \in Used /\ jobs[j].seen \in Records
  BY <1>1, <1>3, JobFacts DEF CauseInv, JobsInv
<1>4. CASE Holds(jobs[j]) /\ Marks(j)
  <2>1. PICK status \in {"INIT", "FAILED"} :
          Save(jobs[j].found, jobs[j].seen, [jobs[j].seen EXCEPT !.status = status])
    BY <1>4 DEF Marks
  <2>. DEFINE next == [jobs[j].seen EXCEPT !.status = status]
  <2>2. /\ next \in Records /\ next.status = status /\ next.start = jobs[j].seen.start
        /\ Save(jobs[j].found, jobs[j].seen, next)
    BY <1>3, <1>4, <2>1, MarkRecord DEF Records
  <2>. HIDE DEF next
  <2>3. /\ rows'[jobs[j].found] = Merged(rows[jobs[j].found], jobs[j].seen, next)
        /\ rows[jobs[j].found] \in Records
        /\ \A q \in Rows : q # jobs[j].found => rows'[q] = rows[q]
    BY <1>1, <1>3, <1>4, <2>2, UsedRecord, SaveType
  <2>4. /\ rows'[jobs[j].found].status \in {rows[jobs[j].found].status, status}
        /\ rows'[jobs[j].found].start = rows[jobs[j].found].start
    BY <1>3, <1>4, <2>2, <2>3, MergedColumns
  <2>5. status # "SCHEDULE"
    OBVIOUS
  <2>. QED  BY <1>1, <2>3, <2>4, <2>5 DEF RowsSettle, Used
<1>5. CASE Update(j)
  <2>1. /\ rows' = [rows EXCEPT ![jobs[j].found] = jobs[j].seen]
        /\ jobs[j].seen.status # "SCHEDULE" /\ jobs[j].seen.start <= now
    BY <1>5 DEF Update, PassedInv
  <2>. QED  BY <1>1, <2>1 DEF RowsSettle, Used, TypeOK
<1>6. CASE Mark(j) \/ PatchEror(j)
  BY <1>4, <1>6 DEF Mark, PatchEror, Marks, Holds
<1>7. CASE Lookup(j) \/ Process(j) \/ ProcessSkips(j) \/ Publish(j) \/ JobThrows(j) \/ Launch(j)
  BY <1>2, <1>7 DEF Lookup, Process, ProcessSkips, Publish, JobThrows, Launch, vars
<1>. QED  BY <1>5, <1>6, <1>7 DEF JobStep

(***************************************************************************)
(* What a step must do to a job for PassedInv to go on.                    *)
(***************************************************************************)
LEMMA PassedKept ==
  ASSUME PassedInv, RowsSettle, UNCHANGED now \/ [Next]_vars, TypeOK, SchedulerTypeOK,
         NEW j, \A i \in Jobs : i # j => jobs'[i] = jobs[i],
         j \in Jobs =>
           /\ jobs'[j].at \in {"mark", "expire"} => jobs'[j].seen.status = "SCHEDULE"
           /\ jobs'[j].at \in {"process", "publish", "update"} =>
                \A r \in Used' : rows'[r].status # "SCHEDULE"
           /\ jobs'[j].at \in {"publish", "update"} =>
                jobs'[j].seen.status # "SCHEDULE" /\ jobs'[j].seen.start <= now'
  PROVE  PassedInv'
<1>1. now \in Nat /\ now' \in Nat /\ now <= now'
  BY TimePasses, TimeFacts
<1>2. SUFFICES ASSUME NEW i \in Jobs, i # j
      PROVE  /\ jobs[i].at \in {"mark", "expire"} => jobs[i].seen.status = "SCHEDULE"
             /\ jobs[i].at \in {"process", "publish", "update"} =>
                  \A r \in Used' : rows'[r].status # "SCHEDULE"
             /\ jobs[i].at \in {"publish", "update"} =>
                  jobs[i].seen.status # "SCHEDULE" /\ jobs[i].seen.start <= now'
  BY DEF PassedInv
<1>3. jobs[i].at \in {"publish", "update"} => jobs[i].seen.start \in Nat
  BY JobFacts, TimeFacts DEF Holds
<1>4. jobs[i].at \in {"publish", "update"} => jobs[i].seen.start <= now'
  BY <1>1, <1>3 DEF PassedInv
<1>. QED  BY <1>4 DEF PassedInv, RowsSettle

LEMMA LateJob ==
  ASSUME CauseInv, LateInv, SingleRow, NEW j \in Jobs,
         JobStep(j) \/ JobThrows(j) \/ Launch(j)
  PROVE  DueInv' /\ PassedInv'
<1>1. SchedulerTypeOK /\ TypeOK /\ now' = now /\ DueInv /\ PassedInv
  BY WritesOfJob DEF CauseInv, SchedulerTypeOK, rowsAside, LateInv
<1>2. RowsSettle
  BY <1>1, JobsSettle
<1>3. polled # {} \/ jobs[j].at # "free"
  BY <1>1, JobFacts
  DEF JobStep, JobThrows, Launch, Lookup, Mark, PatchEror, Process, ProcessSkips, Publish,
      Update
<1>4. Used # {} /\ \A r \in Used : rows[r].start <= now
  BY <1>1, <1>3 DEF DueInv
<1>5. DueInv'
  BY <1>1, <1>2, <1>4 DEF DueInv, RowsSettle
<1>6. ASSUME NEW job, \A i \in Jobs : i # j => jobs'[i] = jobs[i], jobs'[j] = job,
             job.at \in {"mark", "expire"} => job.seen.status = "SCHEDULE",
             job.at \in {"process", "publish", "update"} =>
                \A r \in Used' : rows'[r].status # "SCHEDULE",
             job.at \in {"publish", "update"} =>
                job.seen.status # "SCHEDULE" /\ job.seen.start <= now
      PROVE  PassedInv'
  BY <1>1, <1>2, <1>6, PassedKept
<1>7. ASSUME NEW job, Become(j, job) \/ jobs' = [jobs EXCEPT ![j] = job]
      PROVE  jobs'[j] = job /\ \A i \in Jobs : i # j => jobs'[i] = jobs[i]
  BY <1>1, <1>7 DEF Become, SchedulerTypeOK
<1>8. CASE Launch(j)
  <2>1. PICK job : job.at = "start" /\ jobs' = [jobs EXCEPT ![j] = job]
    BY <1>8 DEF Launch
  <2>. QED  BY <1>5, <1>6, <1>7, <2>1
<1>9. CASE PatchEror(j) \/ ProcessSkips(j) \/ Update(j) \/ JobThrows(j)
  <2>1. Become(j, Free) /\ Free.at = "free"
    BY <1>9 DEF PatchEror, ProcessSkips, Update, JobThrows, Free
  <2>. QED  BY <1>5, <1>6, <1>7, <2>1
<1>10. CASE Lookup(j)
  <2>1. PICK r \in Used :
          IF rows[r].status = "SCHEDULE"
          THEN Become(j, Holding(j, IF jobs[j].late THEN "expire" ELSE "mark", r, rows[r]))
          ELSE Become(j, IF jobs[j].late THEN Free
                         ELSE [at |-> "process", row |-> jobs[j].row, late |-> FALSE])
    BY <1>10 DEF Lookup
  <2>2. rows' = rows /\ Used' = Used
    BY <1>10 DEF Lookup, vars, Used
  <2>3. CASE rows[r].status = "SCHEDULE"
    <3>1. PICK at \in {"expire", "mark"} : Become(j, Holding(j, at, r, rows[r]))
      BY <2>1, <2>3
    <3>2. Holding(j, at, r, rows[r]).at = at /\ Holding(j, at, r, rows[r]).seen = rows[r]
      BY DEF Holding
    <3>. QED  BY <1>5, <1>6, <1>7, <2>3, <3>1, <3>2
  <2>4. CASE rows[r].status # "SCHEDULE"
    <3>1. PICK job \in {Free, [at |-> "process", row |-> jobs[j].row, late |-> FALSE]} :
            Become(j, job)
      BY <2>1, <2>4
    <3>2. job.at \in {"free", "process"}
      BY DEF Free
    <3>3. \A q \in Used : rows[q].status # "SCHEDULE"
      BY <2>4 DEF SingleRow, Used
    <3>. QED  BY <1>5, <1>6, <1>7, <2>2, <3>1, <3>2, <3>3
  <2>. QED  BY <2>3, <2>4
<1>11. CASE Mark(j)
  <2>. DEFINE next == [jobs[j].seen EXCEPT !.status = "INIT"]
              r == jobs[j].found
  <2>1. /\ r \in Used /\ jobs[j].seen \in Records /\ jobs[j].seen.status = "SCHEDULE"
        /\ Save(r, jobs[j].seen, next)
    BY <1>1, <1>11, JobFacts DEF Mark, Holds, CauseInv, JobsInv, PassedInv
  <2>2. next \in Records /\ next.status = "INIT"
    BY <2>1, MarkRecord DEF Records
  <2>. HIDE DEF next
  <2>3. rows'[r] = Merged(rows[r], jobs[j].seen, next) /\ rows[r] \in Records
    BY <1>1, <2>1, <2>2, UsedRecord, SaveType
  <2>4. rows'[r].status = "INIT"
    BY <2>1, <2>2, <2>3, MergedColumns
  <2>5. \A q \in Used' : rows'[q].status # "SCHEDULE"
    BY <1>2, <2>1, <2>4 DEF RowsSettle, SingleRow, Used
  <2>6. PICK job : job.at = "process" /\ Become(j, job)
    BY <1>11 DEF Mark
  <2>. QED  BY <1>5, <1>6, <1>7, <2>5, <2>6
<1>12. CASE Process(j)
  <2>1. PICK r \in Used : Become(j, Holding(j, "publish", r, rows[r]))
    BY <1>12 DEF Process
  <2>2. rows' = rows /\ Used' = Used
    BY <1>12 DEF Process, vars, Used
  <2>3. /\ Holding(j, "publish", r, rows[r]).at = "publish"
        /\ Holding(j, "publish", r, rows[r]).seen = rows[r]
    BY DEF Holding
  <2>4. \A q \in Used : rows[q].status # "SCHEDULE"
    BY <1>1, <1>12 DEF Process, PassedInv
  <2>. QED  BY <1>4, <1>5, <1>6, <1>7, <2>1, <2>2, <2>3, <2>4
<1>13. CASE Publish(j)
  <2>1. jobs[j] \in Busy /\ jobs[j].at = "publish" /\ rows' = rows /\ Used' = Used
    BY <1>1, <1>13, JobFacts DEF Publish, Used
  <2>2. jobs' = [jobs EXCEPT ![j] = [jobs[j] EXCEPT !.at = "update"]]
    BY <1>1, <1>13 DEF Publish
  <2>3. [jobs[j] EXCEPT !.at = "update"].at = "update"
        /\ [jobs[j] EXCEPT !.at = "update"].seen = jobs[j].seen
    BY <2>1 DEF Busy
  <2>4. /\ \A q \in Used : rows[q].status # "SCHEDULE"
        /\ jobs[j].seen.status # "SCHEDULE" /\ jobs[j].seen.start <= now
    BY <1>1, <2>1 DEF PassedInv
  <2>. QED  BY <1>5, <1>6, <1>7, <2>1, <2>2, <2>3, <2>4
<1>. QED  BY <1>5, <1>8, <1>9, <1>10, <1>11, <1>12, <1>13 DEF JobStep

LEMMA LateStep ==
  CauseInv /\ PlanInv /\ LateInv /\ [SchedulerNext]_allVars => PlanInv' /\ LateInv'
<1>. SUFFICES ASSUME CauseInv, PlanInv, LateInv, [SchedulerNext]_allVars
              PROVE  PlanInv' /\ LateInv'
  OBVIOUS
<1>1. SchedulerTypeOK /\ TypeOK /\ HeldInv
  BY DEF CauseInv, Carries, SchedulerTypeOK
<1>2. ASSUME UNCHANGED <<tasks, now>> PROVE PlanInv'
  BY <1>2 DEF PlanInv
<1>3. CASE [Next]_vars /\ UNCHANGED schedule
  <2>1. PlanInv'
    BY <1>1, <1>3, PlanStep
  <2>2. ASSUME SingleRow PROVE DueInv' /\ PassedInv'
    <3>1. DueInv /\ PassedInv /\ UNCHANGED <<polled, jobs>>
      BY <1>3, <2>2 DEF LateInv, schedule
    <3>2. CASE polled = {} /\ \A j \in Jobs : jobs[j].at = "free"
      BY <3>1, <3>2 DEF DueInv, PassedInv
    <3>3. CASE polled # {} \/ \E j \in Jobs : jobs[j].at # "free"
      <4>1. Used # {} /\ \A r \in Used : rows[r].start <= now
        BY <3>1, <3>3 DEF DueInv
      <4>2. RowsSettle
        BY <1>1, <1>3, <2>2, <4>1, OthersSettle
      <4>3. DueInv'
        BY <3>1, <4>1, <4>2 DEF DueInv, RowsSettle
      <4>4. PICK j : j \notin Jobs
        BY NoSetContainsEverything, Zenon
      <4>5. PassedInv'
        BY <1>1, <1>3, <3>1, <4>2, <4>4, PassedKept
      <4>. QED  BY <4>3, <4>5
    <3>. QED  BY <3>2, <3>3
  <2>. QED  BY <2>1, <2>2 DEF LateInv, SingleRow
<1>4. CASE Poll
  <2>1. UNCHANGED <<rows, tasks, now, jobs>> /\ Used' = Used
    BY <1>4 DEF Poll, vars, Used
  <2>2. ASSUME SingleRow PROVE DueInv' /\ PassedInv'
    <3>1. DueInv /\ PassedInv
      BY <2>2 DEF LateInv
    <3>2. polled' # {} => \E r \in Used : rows[r].start <= now
      BY <1>4 DEF Poll, IsDue, IsScheduled
    <3>3. polled' # {} => Used # {} /\ \A r \in Used : rows[r].start <= now
      BY <2>2, <3>2 DEF SingleRow, Used
    <3>4. DueInv'
      BY <2>1, <3>1, <3>3 DEF DueInv
    <3>5. PassedInv'
      BY <2>1, <3>1 DEF PassedInv
    <3>. QED  BY <3>4, <3>5
  <2>. QED  BY <1>2, <2>1, <2>2 DEF LateInv, SingleRow
<1>5. ASSUME NEW j \in Jobs, Launch(j) \/ JobStep(j) \/ JobThrows(j)
      PROVE  PlanInv' /\ LateInv'
  <2>1. UNCHANGED <<tasks, now>>
    BY <1>5, WritesOfJob DEF rowsAside
  <2>. QED  BY <1>2, <1>5, <2>1, LateJob DEF LateInv, SingleRow
<1>6. CASE UNCHANGED allVars
  BY <1>3, <1>6 DEF allVars
<1>. QED  BY <1>3, <1>4, <1>5, <1>6 DEF SchedulerNext

(***************************************************************************)
(* On a branch with one row, whatever users, reports and other jobs do     *)
(* meanwhile, a job sends a patch at its time or later, and only when the  *)
(* next round of the loop will not find the row waiting.                   *)
(***************************************************************************)
THEOREM PatchesSentInTime == SchedulerSpec => []SentInTime
<1>1. SchedulerInit => PlanInv /\ LateInv
  BY DEF SchedulerInit, Init, PlanInv, LateInv, DueInv, PassedInv, Idle, Free
<1>2. CauseInv /\ LateInv => SentInTime
  <2>. SUFFICES ASSUME CauseInv, LateInv, SingleRow, NEW j \in Jobs, jobs[j].at = "publish"
                PROVE  jobs[j].seen.start <= now /\ ~IsScheduled(jobs[j].found)
    BY DEF SentInTime
  <2>. QED  BY DEF LateInv, PassedInv, IsScheduled
<1>3. CauseInv /\ PlanInv /\ LateInv /\ [SchedulerNext]_allVars => (PlanInv /\ LateInv)'
  BY LateStep
<1>. QED  BY <1>1, <1>2, <1>3, CauseInvariant, PTL DEF SchedulerSpec

=============================================================================
