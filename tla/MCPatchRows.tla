----------------------------- MODULE MCPatchRows -----------------------------
(***************************************************************************)
(* Small instances of PatchRows for TLC: two patches, two requests and two *)
(* tasks at a time.                                                        *)
(***************************************************************************)
EXTENDS PatchRows, TLC

CONSTANTS p1, p2, t1, t2

MCRows     == 1..2
MCSymmetry == Permutations({t1, t2}) \cup Permutations({p1, p2})

\* Nothing here depends on the time, which rows, entities and the clock only
\* carry: states that differ in it are taken for one.
Untimed(held) == IF held = None THEN None ELSE [held EXCEPT !.start = 0]

UntimedTask(task) ==
  CASE task.kind = "deploy" -> [task EXCEPT !.seen = Untimed(@), !.next = Untimed(@)]
    [] task.kind = "report" /\ task.at = "save" -> [task EXCEPT !.seen = Untimed(@)]
    [] OTHER -> task

MCView == <<[r \in Rows |-> Untimed(rows[r])], [t \in Tasks |-> UntimedTask(tasks[t])],
            sent, branch, inbox, retained, asked, latest, crossed>>
=============================================================================
