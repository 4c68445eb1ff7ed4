------------------------------- MODULE PatchRows -------------------------------
(***************************************************************************)
(* The server side of a patch deployment, for one branch: the rows of the  *)
(* table PatchAssignBranch (PatchesController.PatchdeployBranch and        *)
(* PatchdeployAllBranches create and reset them, MqttWorker.HandlePatch    *)
(* records in them what the branch reports) and the requests sent to the   *)
(* branch.  Rows of different branches do not meet in this code.           *)
(*                                                                         *)
(* Every web request and every report is a task of its own.  A task reads  *)
(* its row into an entity, changes the entity and saves it; tasks can come *)
(* between.  Entity Framework compares the entity with the values read and *)
(* writes only the columns that differ, with no concurrency token, so a    *)
(* save merges into whatever the row holds by then.                        *)
(*                                                                         *)
(* The branch is what DeploymentReports says of it: request i, once        *)
(* delivered, is deployment i.                                             *)
(***************************************************************************)
EXTENDS Naturals, Sequences

CONSTANTS
  Patches,       \* patches that are ready to deploy (PatchProcessLevel 3)
  Rows,          \* the keys (PAB) the table hands out, smallest first
  Tasks,         \* identities for the tasks that run at the same time
  MaxRequests,   \* bound on the requests that reach the broker
  MaxOperations, \* bound on the deployments asked for by users
  MaxTime,       \* bound on the clock
  AttemptLimit,  \* AttemptSteps from which a single deployment starts afresh
  Phases,        \* the phases of a deployment whose failure is told apart
  Overlapping,   \* the kinds of tasks that may run beside one of their kind
  None           \* no row, no message

Requests == 1..MaxRequests
Kinds    == {"deploy", "report"}

Statuses == {"INIT", "IN_PROGRESS", "SUCCESS", "FAILED", "ROLLBACK", "RESTART", "SCHEDULE"}
Times    == 0..MaxTime

Records == [patch : Patches, status : Statuses, download : {"NOT", "IN_PROGRESS", "DONE"},
            final : BOOLEAN, attempts : Nat, start : Times]

Reports == [dep : Requests, status : {"IN_PROGRESS", "SUCCESS", "FAILED", "ROLLBACK"},
            step : {"DOWNLOAD", "COMPLETE"} \cup Phases]

ASSUME PatchRowsAssumption ==
  /\ Rows \subseteq Nat
  /\ MaxRequests \in Nat
  /\ MaxOperations \in Nat
  /\ MaxTime \in Nat
  /\ AttemptLimit \in Nat
  /\ Overlapping \subseteq Kinds
  /\ None \notin Rows \cup Records \cup Reports

VARIABLES
  rows,      \* the table: a record, or None for a key not handed out yet
  tasks,     \* what each running task is doing
  sent,      \* the patch of each request the broker accepted
  stage,     \* the branch: how far each request has come
  published, \* the branch: its verdicts and download reports
  inbox,     \* reports on their way to MqttWorker, oldest first
  retained,  \* the report the broker keeps for server/<branch>/PATCH/Status
  now,       \* the time
  asked,     \* how many deployments users have asked for
  latest,    \* history: what was last reported on a patch and not dropped, since a
             \* deployment of it was saved or began
  crossed    \* history, by kind of task: the patches for which two deployments were
             \* about to insert a row, and those whose report taken last found
             \* another one on the patch being treated

branch == <<stage, published>>
vars   == <<rows, tasks, sent, branch, inbox, retained, now, asked, latest, crossed>>

Branch == INSTANCE DeploymentReports WITH Deployments <- Requests

Idle        == [kind |-> "idle"]
DeployTasks == [kind : {"deploy"}, at : {"save", "publish"}, all : BOOLEAN, send : BOOLEAN,
                patch : Patches, row : Rows \cup {None}, seen : Records \cup {None},
                next : Records]
ReportTasks == [kind : {"report"}, at : {"read"}, msg : Reports]
                 \cup [kind : {"report"}, at : {"save"}, msg : Reports, row : Rows,
                       seen : Records]

TypeOK ==
  /\ rows \in [Rows -> Records \cup {None}]
  /\ tasks \in [Tasks -> {Idle} \cup DeployTasks \cup ReportTasks]
  /\ sent \in Seq(Patches) /\ Len(sent) <= MaxRequests
  /\ stage \in [Requests -> {"none", "started", "downloaded", "judged"}]
  /\ published \subseteq Reports
  /\ inbox \in Seq(Reports)
  /\ retained \in Reports \cup {None}
  /\ now \in Times
  /\ asked \in 0..MaxOperations
  /\ latest \in [Patches -> Reports \cup {None}]
  /\ crossed \in [Kinds -> SUBSET Patches]

Init ==
  /\ rows = [r \in Rows |-> None]
  /\ tasks = [t \in Tasks |-> Idle]
  /\ sent = <<>>
  /\ Branch!Init
  /\ inbox = <<>>
  /\ retained = None
  /\ now = 0
  /\ asked = 0
  /\ latest = [p \in Patches |-> None]
  /\ crossed = [kind \in Kinds |-> {}]

-----------------------------------------------------------------------------
Used      == {r \in Rows : rows[r] # None}
RowsOfBranch(p) == Used
RowsOf(p) == {r \in Used : rows[r].patch = p}
NewestOf(p) == {r \in RowsOf(p) : \A q \in RowsOf(p) : q <= r}
FreeKeys  == {r \in Rows \ Used : \A q \in Rows \ Used : r <= q}

(***************************************************************************)
(* FirstOrDefaultAsync without an order: any of the rows, None if none.    *)
(***************************************************************************)
AnyOf(S) == IF S = {} THEN {None} ELSE S

(***************************************************************************)
(* SaveChangesAsync of a tracked entity: only changed columns are written. *)
(***************************************************************************)
Merged(held, seen, next) ==
  [held EXCEPT
     !.status   = IF next.status = seen.status THEN @ ELSE next.status,
     !.download = IF next.download = seen.download THEN @ ELSE next.download,
     !.final    = IF next.final = seen.final THEN @ ELSE next.final,
     !.attempts = IF next.attempts = seen.attempts THEN @ ELSE next.attempts,
     !.start    = IF next.start = seen.start THEN @ ELSE next.start]

Save(r, seen, next) == rows' = [rows EXCEPT ![r] = Merged(@, seen, next)]

CanStart(t, kind) ==
  /\ tasks[t] = Idle
  /\ kind \in Overlapping \/ \A u \in Tasks : tasks[u].kind # kind

Finish(t) == tasks' = [tasks EXCEPT ![t] = Idle]

(***************************************************************************)
(* PublishToServer: a publication is lost without an error when the client *)
(* is not connected or the send times out.  (Beyond MaxRequests all are.)  *)
(***************************************************************************)
Send(p) ==
  \/ Len(sent) < MaxRequests /\ sent' = Append(sent, p)
  \/ UNCHANGED sent

-----------------------------------------------------------------------------
(***************************************************************************)
(* PatchdeployBranch: look the row up, save it new or restarted, then send *)
(* the request.  It does not look at the status the row has.               *)
(***************************************************************************)
NewRecordWrongEnum(p, status, start) ==
  [patch |-> p, status |-> IF status = "SCHEDULE" THEN "IS_SCHEDULE" ELSE status,
   download |-> "NOT", final |-> FALSE, attempts |-> 0, start |-> start]

NewRecord(p, status, start) ==
  [patch |-> p, status |-> status, download |-> "NOT", final |-> FALSE,
   attempts |-> 0, start |-> start]

Restarted(seen) ==
  [seen EXCEPT !.status = IF seen.attempts >= AttemptLimit THEN "INIT" ELSE "RESTART",
               !.attempts = @ + 1]

\* A deployment that found no row for p and has not inserted one yet.
StillToCome(task) == task.at = "save" \/ task.all
Inserting(t, p) ==
  tasks[t].kind = "deploy" /\ tasks[t].patch = p /\ tasks[t].row = None /\ StillToCome(tasks[t])

BeginDeploy(t, all, send, at, p, r, next) ==
  /\ CanStart(t, "deploy")
  /\ asked < MaxOperations
  /\ asked' = asked + 1
  /\ tasks' = [tasks EXCEPT ![t] =
       [kind |-> "deploy", at |-> at, all |-> all, send |-> send, patch |-> p,
        row |-> r, seen |-> IF r = None THEN None ELSE rows[r], next |-> next]]
  /\ crossed' = IF r = None /\ \E u \in Tasks : Inserting(u, p)
                THEN [crossed EXCEPT !["deploy"] = @ \cup {p}] ELSE crossed
  /\ UNCHANGED <<rows, sent, branch, inbox, retained, now, latest>>

DeployBranchAlwaysNew(t, p) ==
  BeginDeploy(t, FALSE, TRUE, "save", p, None, NewRecord(p, "INIT", now))

DeployBranch(t, p) ==
  \E r \in AnyOf(RowsOf(p)) :
    BeginDeploy(t, FALSE, TRUE, "save", p, r,
                IF r = None THEN NewRecord(p, "INIT", now) ELSE Restarted(rows[r]))

(***************************************************************************)
(* PatchdeployAllBranches, for this branch while it is online: the newest  *)
(* row decides.  One that says SUCCESS or SCHEDULE is skipped; otherwise   *)
(* the request is sent first and the row is saved at the end, after the    *)
(* other branches.  A scheduled deployment sends nothing; one that finds a *)
(* row resets it to INIT, and to now, all the same.                       *)
(***************************************************************************)
Resumed(seen) == [seen EXCEPT !.status = "INIT", !.attempts = @ + 1, !.start = now]

Skipped(r) == r # None /\ rows[r].status \in {"SUCCESS", "SCHEDULE"}

DeployAll(t, p) ==
  \E r \in AnyOf(NewestOf(p)) :
    /\ ~Skipped(r)
    /\ BeginDeploy(t, TRUE, TRUE, "publish", p, r,
                   IF r = None THEN NewRecord(p, "INIT", now) ELSE Resumed(rows[r]))

Schedule(t, p, start) ==
  \E r \in AnyOf(NewestOf(p)) :
    /\ ~Skipped(r)
    /\ BeginDeploy(t, TRUE, FALSE, "save", p, r,
                   IF r = None THEN NewRecord(p, "SCHEDULE", start) ELSE Resumed(rows[r]))

DeployAllSkips(p) ==
  /\ asked < MaxOperations
  /\ \E r \in NewestOf(p) : Skipped(r)
  /\ asked' = asked + 1
  /\ UNCHANGED <<rows, tasks, sent, branch, inbox, retained, now, latest, crossed>>

DeploySave(t) ==
  LET task == tasks[t]
  IN /\ task.kind = "deploy" /\ task.at = "save"
     /\ IF task.row # None
        THEN Save(task.row, task.seen, task.next)
        ELSE \E r \in FreeKeys : rows' = [rows EXCEPT ![r] = task.next]
     /\ latest' = [latest EXCEPT ![task.patch] = None]
     /\ IF task.send /\ ~task.all
        THEN tasks' = [tasks EXCEPT ![t].at = "publish"]
        ELSE Finish(t)
     /\ UNCHANGED <<sent, branch, inbox, retained, now, asked, crossed>>

DeployPublish(t) ==
  LET task == tasks[t]
  IN /\ task.kind = "deploy" /\ task.at = "publish"
     /\ Send(task.patch)
     /\ IF task.all THEN tasks' = [tasks EXCEPT ![t].at = "save"] ELSE Finish(t)
     /\ UNCHANGED <<rows, branch, inbox, retained, now, asked, latest, crossed>>

-----------------------------------------------------------------------------
(***************************************************************************)
(* MqttWorker: a report that arrives gets a task, which takes one of the   *)
(* semaphore's permits, reads the row of the patch and saves it changed.   *)
(* Tasks of reports that are close together run side by side, unless       *)
(* "report" is left out of Overlapping.                                    *)
(***************************************************************************)
PatchOfReport(m) == sent[m.dep]
Treats(t, p) == tasks[t].kind = "report" /\ PatchOfReport(tasks[t].msg) = p

ReceiveReport(t) ==
  /\ CanStart(t, "report")
  /\ inbox # <<>>
  /\ tasks' = [tasks EXCEPT ![t] = [kind |-> "report", at |-> "read", msg |-> Head(inbox)]]
  /\ inbox' = Tail(inbox)
  /\ LET p == PatchOfReport(Head(inbox))
     IN crossed' = IF \E u \in Tasks : Treats(u, p)
                   THEN [crossed EXCEPT !["report"] = @ \cup {p}]
                   ELSE [crossed EXCEPT !["report"] = @ \ {p}]
  /\ UNCHANGED <<rows, sent, branch, retained, now, asked, latest>>

(***************************************************************************)
(* A download already known to be in progress is not recorded again.       *)
(***************************************************************************)
IgnoredOnceFinal(m, r) == r = None \/ rows[r].final

Ignored(m, r) ==
  \/ r = None
  \/ m.status = "IN_PROGRESS" /\ rows[r].download = "IN_PROGRESS"

ReportRead(t) ==
  LET task == tasks[t]
  IN /\ task.kind = "report" /\ task.at = "read"
     /\ \E r \in AnyOf(RowsOf(PatchOfReport(task.msg))) :
          IF Ignored(task.msg, r)
          THEN Finish(t)
          ELSE tasks' = [tasks EXCEPT ![t] =
                 [kind |-> "report", at |-> "save", msg |-> task.msg, row |-> r, seen |-> rows[r]]]
     /\ UNCHANGED <<rows, sent, branch, inbox, retained, now, asked, latest, crossed>>

(***************************************************************************)
(* What HandlePatch makes of the row.  SUCCESS of the download also        *)
(* becomes the status of the row.                                          *)
(***************************************************************************)
Downloading(m) == m.step = "DOWNLOAD"

Reported(seen, m) ==
  [seen EXCEPT
     !.status   = m.status,
     !.download = IF ~Downloading(m) THEN @
                  ELSE IF m.status = "IN_PROGRESS" THEN "IN_PROGRESS"
                  ELSE IF m.status = "SUCCESS" THEN "DONE"
                  ELSE "NOT",
     !.final    = IF m.status # "IN_PROGRESS" /\ ~(Downloading(m) /\ m.status = "SUCCESS")
                  THEN TRUE ELSE @]

ReportSave(t) ==
  LET task == tasks[t]
  IN /\ task.kind = "report" /\ task.at = "save"
     /\ Save(task.row, task.seen, Reported(task.seen, task.msg))
     /\ Finish(t)
     /\ UNCHANGED <<sent, branch, inbox, retained, now, asked, latest, crossed>>

(***************************************************************************)
(* A read or a save of the database may throw; the task logs it and ends.  *)
(***************************************************************************)
Forget(S) == latest' = [p \in Patches |-> IF latest[p] \in S THEN None ELSE latest[p]]

TaskThrows(t) ==
  /\ tasks[t] # Idle
  /\ tasks[t].at # "publish"
  /\ Finish(t)
  /\ IF tasks[t].kind = "report" THEN Forget({tasks[t].msg}) ELSE UNCHANGED latest
  /\ UNCHANGED <<rows, sent, branch, inbox, retained, now, asked, crossed>>

-----------------------------------------------------------------------------
(***************************************************************************)
(* The branch reports.  IN_PROGRESS at the start of the download is not    *)
(* retained; the other progress reports do not reach the table.  A         *)
(* deployment that ends without a verdict takes no further step here.      *)
(***************************************************************************)
BranchBegins(i) ==
  /\ i <= Len(sent)
  /\ Branch!Begin(i)
  /\ \/ /\ inbox' = Append(inbox, Branch!Message(i, "IN_PROGRESS", "DOWNLOAD"))
        /\ latest' = [latest EXCEPT ![sent[i]] = None]
     \/ UNCHANGED <<inbox, latest>>
  /\ UNCHANGED <<rows, tasks, sent, retained, now, asked, crossed>>

BranchReports(i) ==
  /\ Branch!ReportDownload(i) \/ Branch!ReportVerdict(i)
  /\ IF published' = published
     THEN UNCHANGED <<inbox, retained, latest>>
     ELSE \E m \in published' \ published :
            /\ inbox' = Append(inbox, m)
            /\ retained' = m
            /\ latest' = [latest EXCEPT ![sent[i]] = m]
  /\ UNCHANGED <<rows, tasks, sent, now, asked, crossed>>

(***************************************************************************)
(* The server's connection breaks and is made again.  It connects with a   *)
(* clean session, so what was under way is dropped, and subscribing to     *)
(* server/# brings the retained report once more, however old it is.       *)
(***************************************************************************)
Resubscribe ==
  /\ inbox' = IF retained = None THEN <<>> ELSE <<retained>>
  /\ Forget({inbox[k] : k \in DOMAIN inbox} \ {retained})
  /\ UNCHANGED <<rows, tasks, sent, branch, retained, now, asked, crossed>>

-----------------------------------------------------------------------------
Deploy ==
  \E p \in Patches :
    \/ DeployAllSkips(p)
    \/ \E t \in Tasks : \/ DeployBranch(t, p) \/ DeployAll(t, p)
                       \/ \E start \in Times : Schedule(t, p, start)

Tick ==
  /\ now < MaxTime
  /\ now' = now + 1
  /\ UNCHANGED <<rows, tasks, sent, branch, inbox, retained, asked, latest, crossed>>

TaskStep(t) ==
  \/ DeploySave(t) \/ DeployPublish(t)
  \/ ReceiveReport(t) \/ ReportRead(t) \/ ReportSave(t)
  \/ TaskThrows(t)

BranchStep == \E i \in Requests : BranchBegins(i) \/ BranchReports(i)

Next == Deploy \/ (\E t \in Tasks : TaskStep(t)) \/ BranchStep \/ Resubscribe \/ Tick

Spec == Init /\ [][Next]_vars

-----------------------------------------------------------------------------
Heard(p) == {m \in published : sent[m.dep] = p}

JudgedBy(m) == ~(m.status = "SUCCESS" /\ m.step = "DOWNLOAD")

(***************************************************************************)
(* No verdict is invented: whatever the overlap of tasks, merged saves,    *)
(* replays and lost messages, a row that says SUCCESS, FAILED or ROLLBACK  *)
(* belongs to a patch about which the branch reported just that.           *)
(***************************************************************************)
Verdicts == {"SUCCESS", "FAILED", "ROLLBACK"}

NoInventedVerdict ==
  \A r \in Used : rows[r].status \in Verdicts =>
    \E m \in Heard(rows[r].patch) : m.status = rows[r].status

(***************************************************************************)
(* A row is marked final only when a deployment of its patch came to a     *)
(* verdict, the end of its download not being one.                         *)
(***************************************************************************)
FinalMeansJudged ==
  \A r \in Used : rows[r].final => \E m \in Heard(rows[r].patch) : JudgedBy(m)

(***************************************************************************)
(* A patch has a second row only if two deployments of it were about to    *)
(* insert one at the same time: the table has no constraint that says so,  *)
(* single deployments and those to all look for the row in different ways, *)
(* and the latter save it long after they have looked.                     *)
(***************************************************************************)
OneRowPerPatch ==
  \A q, r \in Used :
    rows[q].patch = rows[r].patch /\ rows[r].patch \notin crossed["deploy"] => q = r

(***************************************************************************)
(* When all reports have been treated, the row shows the last thing the    *)
(* branch said since the deployment was saved, however requests, merged    *)
(* saves and replayed reports were interleaved - unless the last report    *)
(* was treated beside another one on the patch, whose task may save later, *)
(* or the patch has a second row, which may be the one that shows it.      *)
(***************************************************************************)
Settled == inbox = <<>> /\ \A t \in Tasks : tasks[t].kind # "report"

SettledRowShowsReport ==
  Settled =>
    \A r \in Used : LET p == rows[r].patch
                    IN latest[p] # None /\ p \notin crossed["deploy"] \cup crossed["report"] =>
                         rows[r].status = latest[p].status

-----------------------------------------------------------------------------
(***************************************************************************)
(* PatchesController.cs:1102 says "Branch already has this patch           *)
(* successfully deployed" of a branch that a deployment to all skips for   *)
(* the status SUCCESS.  This says that the branch has then reported so.    *)
(***************************************************************************)
SkipsForSuccess(p) ==
  DeployAllSkips(p) /\ \E r \in NewestOf(p) : rows[r].status = "SUCCESS"

SkippedMeansDeployed ==
  [][\A p \in Patches : SkipsForSuccess(p) =>
       \E m \in Heard(p) : m.status = "SUCCESS" /\ m.step = "COMPLETE"]_vars
=============================================================================
