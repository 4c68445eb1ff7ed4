------------------------------- MODULE Scheduler -------------------------------
(***************************************************************************)
(* SchedulerService beside the users and the report handlers of PatchRows. *)
(* The loop reads the rows that are due and starts a job for each, at most *)
(* MAX_PARALLEL_JOBS at a time.  A job is given the field Id of its row,   *)
(* which is the branch and not the key PAB, so each of its lookups finds   *)
(* any row of the branch.  A job of another branch does not meet these     *)
(* rows; it only takes a permit.                                           *)
(***************************************************************************)
EXTENDS PatchRows

CONSTANTS
  Jobs,    \* identities for the jobs that run at the same time
  Timeout  \* how late a scheduled deployment may be (30 minutes)

ASSUME SchedulerAssumption == Timeout \in Nat

VARIABLES
  polled,  \* what the loop has read and not started yet
  jobs,    \* what each running job is doing
  expired  \* history: the rows failed for being too late

schedule   == <<polled, jobs, expired>>
allVars    == <<vars, schedule>>
rowsAside  == <<tasks, branch, inbox, retained, now, asked, latest, crossed>>

Free == [at |-> "free"]
Due  == [row : Rows, late : BOOLEAN]
Busy == [at : {"start", "process"}, row : Rows, late : BOOLEAN]
          \cup [at : {"mark", "expire", "publish", "update"}, row : Rows, late : BOOLEAN,
                found : Rows, seen : Records]

SchedulerTypeOK ==
  /\ TypeOK
  /\ polled \subseteq Due
  /\ jobs \in [Jobs -> {Free} \cup Busy]
  /\ expired \subseteq Rows

SchedulerInit ==
  /\ Init
  /\ polled = {}
  /\ jobs = [j \in Jobs |-> Free]
  /\ expired = {}

-----------------------------------------------------------------------------
(***************************************************************************)
(* The loop.  It waits for a permit before each job, so it reads again     *)
(* only when it has started all the jobs it has read.  Nothing in the row  *)
(* tells that a job for it has been started.                               *)
(***************************************************************************)
IsScheduled(r) == r \in Used /\ rows[r].status = "SCHEDULE"
IsDueNowOrLater(r) == IsScheduled(r)
IsDue(r)       == IsScheduled(r) /\ rows[r].start <= now

Poll ==
  /\ polled = {}
  /\ polled' = {[row |-> r, late |-> rows[r].start + Timeout < now] : r \in {q \in Rows : IsDue(q)}}
  /\ UNCHANGED <<vars, jobs, expired>>

Launch(j) ==
  /\ jobs[j] = Free
  /\ \E d \in polled :
       /\ polled' = polled \ {d}
       /\ jobs' = [jobs EXCEPT ![j] = [at |-> "start", row |-> d.row, late |-> d.late]]
  /\ UNCHANGED <<vars, expired>>

Become(j, job) == jobs' = [jobs EXCEPT ![j] = job]

Holding(j, at, r, seen) ==
  [at |-> at, row |-> jobs[j].row, late |-> jobs[j].late, found |-> r, seen |-> seen]

(***************************************************************************)
(* MarkJobAsProcessing and PatchEror: look the row up, and change its      *)
(* status if it is still SCHEDULE.                                         *)
(***************************************************************************)
Lookup(j) ==
  /\ jobs[j].at = "start"
  /\ \E r \in Used :
       IF rows[r].status = "SCHEDULE"
       THEN Become(j, Holding(j, IF jobs[j].late THEN "expire" ELSE "mark", r, rows[r]))
       ELSE Become(j, IF jobs[j].late THEN Free
                      ELSE [at |-> "process", row |-> jobs[j].row, late |-> FALSE])
  /\ UNCHANGED <<vars, polled, expired>>

Mark(j) ==
  LET job == jobs[j]
  IN /\ job.at = "mark"
     /\ Save(job.found, job.seen, [job.seen EXCEPT !.status = "INIT"])
     /\ Become(j, [at |-> "process", row |-> job.row, late |-> FALSE])
     /\ UNCHANGED <<sent, rowsAside, polled, expired>>

PatchErorUnsaved(j) ==
  LET job == jobs[j]
  IN /\ job.at = "expire"
     /\ Become(j, Free)
     /\ UNCHANGED <<vars, polled, expired>>

PatchErorWrongEnum(j) ==
  LET job == jobs[j]
  IN /\ job.at = "expire"
     /\ Save(job.found, job.seen, [job.seen EXCEPT !.status = "ERROR"])
     /\ expired' = expired \cup {job.found}
     /\ Become(j, Free)
     /\ UNCHANGED <<sent, rowsAside, polled>>

PatchEror(j) ==
  LET job == jobs[j]
  IN /\ job.at = "expire"
     /\ Save(job.found, job.seen, [job.seen EXCEPT !.status = "FAILED"])
     /\ expired' = expired \cup {job.found}
     /\ Become(j, Free)
     /\ UNCHANGED <<sent, rowsAside, polled>>

(***************************************************************************)
(* ProcessScheduledPatch: look the row up again, give up if the branch is  *)
(* offline or the archive is missing, send the request, and write all the  *)
(* columns of the row as they were read.                                   *)
(***************************************************************************)
Process(j) ==
  /\ jobs[j].at = "process"
  /\ \E r \in Used : Become(j, Holding(j, "publish", r, rows[r]))
  /\ UNCHANGED <<vars, polled, expired>>

ProcessSkips(j) ==
  /\ jobs[j].at = "process"
  /\ Become(j, Free)
  /\ UNCHANGED <<vars, polled, expired>>

Publish(j) ==
  /\ jobs[j].at = "publish"
  /\ Send(jobs[j].seen.patch)
  /\ jobs' = [jobs EXCEPT ![j].at = "update"]
  /\ UNCHANGED <<rows, rowsAside, polled, expired>>

Update(j) ==
  /\ jobs[j].at = "update"
  /\ rows' = [rows EXCEPT ![jobs[j].found] = jobs[j].seen]
  /\ Become(j, Free)
  /\ UNCHANGED <<sent, rowsAside, polled, expired>>

(***************************************************************************)
(* An exception anywhere in a job is logged and ends the job.              *)
(***************************************************************************)
JobThrows(j) ==
  /\ jobs[j] # Free
  /\ Become(j, Free)
  /\ UNCHANGED <<vars, polled, expired>>

-----------------------------------------------------------------------------
JobStep(j) ==
  Lookup(j) \/ Mark(j) \/ PatchEror(j) \/ Process(j) \/ ProcessSkips(j) \/ Publish(j) \/ Update(j)

SchedulerNext ==
  \/ Next /\ UNCHANGED schedule
  \/ Poll
  \/ \E j \in Jobs : Launch(j) \/ JobStep(j) \/ JobThrows(j)

SchedulerSpec == SchedulerInit /\ [][SchedulerNext]_allVars

(***************************************************************************)
(* The loop and its jobs keep running, and the database does not fail on   *)
(* every save there ever is.                                               *)
(***************************************************************************)
SchedulerFairness ==
  /\ WF_allVars(Poll)
  /\ \A j \in Jobs : /\ WF_allVars(Launch(j)) /\ WF_allVars(JobStep(j))
                     /\ SF_allVars(Lookup(j)) /\ SF_allVars(Mark(j)) /\ SF_allVars(PatchEror(j))

FairScheduler == SchedulerSpec /\ SchedulerFairness

-----------------------------------------------------------------------------
(***************************************************************************)
(* A verdict in a row was heard from the branch, or is the FAILED of a     *)
(* scheduled deployment that was too late.                                 *)
(***************************************************************************)
VerdictHasCause ==
  \A r \in Used : rows[r].status \in Verdicts =>
    \/ \E m \in Heard(rows[r].patch) : m.status = rows[r].status
    \/ rows[r].status = "FAILED" /\ r \in expired

SingleRow == \A q, r \in Rows : q = r

(***************************************************************************)
(* On a branch that has one row: a patch is never sent before its time,    *)
(* and never while its row still says SCHEDULE, which would have the next  *)
(* round of the loop send it once more.                                    *)
(***************************************************************************)
SentInTime ==
  SingleRow =>
    \A j \in Jobs : jobs[j].at = "publish" =>
      /\ jobs[j].seen.start <= now
      /\ ~IsScheduled(jobs[j].found)

(***************************************************************************)
(* On a branch that has one row: a scheduled deployment does not stay      *)
(* scheduled once it is due, whatever fails in between and whatever users  *)
(* and the branch do.                                                      *)
(***************************************************************************)
LeavesSchedule ==
  \A r \in Rows : IsDue(r) ~> ~IsScheduled(r)

-----------------------------------------------------------------------------
(***************************************************************************)
(* README.md:118 says "Schedule patches for off-hours with automatic       *)
(* execution".  This says that a job sends the patch of the row it was     *)
(* started for.                                                            *)
(***************************************************************************)
SendsTheScheduledPatch ==
  \A j \in Jobs : jobs[j].at = "publish" => jobs[j].seen.patch = rows[jobs[j].row].patch
=============================================================================
