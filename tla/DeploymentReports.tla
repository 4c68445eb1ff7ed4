-------------------------- MODULE DeploymentReports --------------------------
(***************************************************************************)
(* What a branch promises the server about the reports of a deployment,    *)
(* whatever happens inside the branch: a deployment reports its download   *)
(* at most once, then at most one verdict, in this order; FAILED names the *)
(* phase that failed; any report may be lost, and a deployment may stop    *)
(* without a verdict.  PatchAgent implements this; PatchRows relies on it. *)
(***************************************************************************)
CONSTANTS
  Deployments, \* the requests delivered to the branch
  Phases       \* the phases between the download and the update that can fail

VARIABLES
  stage,     \* how far each deployment has come
  published  \* the retained-flag reports the broker accepted

vars == <<stage, published>>

Message(d, status, step) == [dep |-> d, status |-> status, step |-> step]

(***************************************************************************)
(* The verdicts a deployment at a stage can come to.                       *)
(***************************************************************************)
Verdict(d, at) ==
  IF at = "started"
  THEN {Message(d, "FAILED", "DOWNLOAD")}
  ELSE {Message(d, "FAILED", phase) : phase \in Phases}
         \cup {Message(d, "ROLLBACK", "COMPLETE"), Message(d, "SUCCESS", "COMPLETE")}

Init ==
  /\ stage = [d \in Deployments |-> "none"]
  /\ published = {}

Deliver(m) == published' \in {published, published \cup {m}}

Begin(d) ==
  /\ stage[d] = "none"
  /\ stage' = [stage EXCEPT ![d] = "started"]
  /\ UNCHANGED published

ReportDownload(d) ==
  /\ stage[d] = "started"
  /\ stage' = [stage EXCEPT ![d] = "downloaded"]
  /\ Deliver(Message(d, "SUCCESS", "DOWNLOAD"))

ReportVerdict(d) ==
  /\ stage[d] \in {"started", "downloaded"}
  /\ stage' = [stage EXCEPT ![d] = "judged"]
  /\ \E m \in Verdict(d, stage[d]) : Deliver(m)

(***************************************************************************)
(* Some deployments end: one returns, or all those of a process stop.      *)
(***************************************************************************)
End ==
  /\ \E S \in SUBSET {d \in Deployments : stage[d] # "none"} :
       stage' = [d \in Deployments |-> IF d \in S THEN "ended" ELSE stage[d]]
  /\ UNCHANGED published

Next ==
  \/ \E d \in Deployments : Begin(d) \/ ReportDownload(d) \/ ReportVerdict(d)
  \/ End

Spec == Init /\ [][Next]_vars
=============================================================================
