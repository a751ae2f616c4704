---------------------------- MODULE ScanContract ----------------------------
(***************************************************************************)
(* What the life of a scan promises to those who read its row and receive  *)
(* its webhook, without the tasks, messages and requests behind it: the    *)
(* status is Completed only over published findings, a scan whose work is  *)
(* over keeps its outcome, and a deleted engagement stays deleted.  It     *)
(* does not promise that a status never changes back while work goes on.   *)
(***************************************************************************)
CONSTANT Scans

VARIABLES
    engagement,  \* the engagement exists
    status,      \* of each scan, "absent" without a row
    published,   \* the findings of the scan can be read
    told,        \* outcomes the webhook was told
    over         \* nothing is under way for the scan

vars == <<engagement, status, published, told, over>>

Active   == {"Queued", "Running"}
Outcomes == {"Completed", "Failed", "Cancelled"}

Init ==
    /\ engagement = TRUE
    /\ status = [s \in Scans |-> "absent"]
    /\ published = [s \in Scans |-> FALSE]
    /\ told = [s \in Scans |-> {}]
    /\ over = [s \in Scans |-> FALSE]
-----------------------------------------------------------------------------
Accept(s) ==
    /\ engagement /\ status[s] = "absent"
    /\ status' = [status EXCEPT ![s] = "Queued"]
    /\ UNCHANGED <<engagement, published, told, over>>

Publish(s) ==
    /\ ~over[s] /\ status[s] # "absent"
    /\ published' = [published EXCEPT ![s] = TRUE]
    /\ UNCHANGED <<engagement, status, told, over>>

(* Whoever works on a scan that exists writes what it likes, but Completed *)
(* only over published findings; the write may be the end of the work.     *)
Write(s, new) ==
    /\ ~over[s] /\ status[s] # "absent"
    /\ new = "Completed" => published[s]
    /\ status' = [status EXCEPT ![s] = new]
    /\ over' \in {over, [over EXCEPT ![s] = TRUE]}
    /\ UNCHANGED <<engagement, published, told>>

Tell(s, outcome) ==
    /\ ~over[s]
    /\ outcome = "Completed" => published[s]
    /\ told' = [told EXCEPT ![s] = @ \cup {outcome}]
    /\ UNCHANGED <<engagement, status, published, over>>

(* Scans that hang are failed, their work over or not.                     *)
Recover(stale) ==
    /\ \A s \in stale : status[s] = "Running"
    /\ status' = [s \in Scans |-> IF s \in stale THEN "Failed" ELSE status[s]]
    /\ UNCHANGED <<engagement, published, told, over>>

Close(ended) ==
    /\ over' = [s \in Scans |-> over[s] \/ s \in ended]
    /\ UNCHANGED <<engagement, status, published, told>>

(* Only a scan without an outcome has its work taken up again.             *)
Reopen(s) ==
    /\ status[s] \in Active
    /\ over' = [over EXCEPT ![s] = FALSE]
    /\ UNCHANGED <<engagement, status, published, told>>

Delete ==
    /\ engagement
    /\ engagement' = FALSE
    /\ status' = [s \in Scans |-> "absent"]
    /\ UNCHANGED <<published, told, over>>
-----------------------------------------------------------------------------
Next ==
    \/ \E s \in Scans :
         \/ Accept(s) \/ Publish(s) \/ Reopen(s)
         \/ \E new \in Outcomes \cup {"Running"} : Write(s, new)
         \/ \E outcome \in {"Completed", "Failed"} : Tell(s, outcome)
    \/ \E some \in SUBSET Scans : Recover(some) \/ Close(some)
    \/ Delete

Spec == Init /\ [][Next]_vars
=============================================================================
