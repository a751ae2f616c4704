--------------------------- MODULE ScanLifecycle ---------------------------
(***************************************************************************)
(* The life of a scan across the three processes that write its row: the   *)
(* API (start_scan, cancel_scan, delete_engagement and the startup         *)
(* recovery of main.py), the Celery broker (late acknowledgement,          *)
(* redelivery, revocation) and the workers that run the tasks of           *)
(* api/tasks.py.  One engagement owns every scan of the model.             *)
(*                                                                         *)
(* A worker slot runs one attempt of one scan at a time; its pc names the  *)
(* next step of the task body.  Every step that commits a database         *)
(* transaction is one action.                                              *)
(*                                                                         *)
(* An operator named X_Y is X with a mistake in it: no action uses it.     *)
(***************************************************************************)
EXTENDS Integers, FiniteSets

CONSTANTS
    Scans,       \* scan rows that may be created
    NoScan,      \* the value of a free worker slot
    Kind,        \* scan_type of each scan
    Workers,     \* worker slots: one per unit of -c in docker-compose.yml
    Pool,        \* the queue each slot consumes (-Q)
    Webhook,     \* TRUE when the engagement has a webhook_url
    Faults,      \* kinds of fault the environment may inject
    MaxFaults    \* how many of them in one behaviour

ScanTypes  == {"web", "sast", "infra", "cloud", "mobile"}
Queues     == {"web", "sast", "infra"}
Active     == {"Queued", "Running"}
Terminal   == {"Completed", "Failed", "Cancelled"}
FaultKinds == {"redeliver",  \* visibility timeout while the attempt still runs
               "crash",      \* a worker container dies
               "childlost",  \* one pool process dies; its task is acknowledged
               "restart",    \* an API process starts and runs main.lifespan
               "lostrevoke", \* the revoke broadcast reaches no worker
               "abort",      \* an API request dies before it commits
               "dbfault",    \* a status transaction of a worker fails
               "setup",      \* os.makedirs fails before the try block
               "bookfault"}  \* the insert of a WebhookDelivery fails

ASSUME ScanLifecycleAssumption ==
    /\ NoScan \notin Scans
    /\ Kind \in [Scans -> ScanTypes]
    /\ Pool \in [Workers -> Queues]
    /\ Webhook \in BOOLEAN
    /\ Faults \subseteq FaultKinds
    /\ MaxFaults \in Nat

(* task_routes: cloud and mobile share the infra queue. *)
Route == [k \in ScanTypes |->
            IF k \in {"cloud", "mobile"} THEN "infra" ELSE k]

(* The shape of each task body: does it create its output directory before *)
(* its try block, may it reject its options by writing Failed and          *)
(* returning, and does an except clause guard what follows.                *)
run_web_scan    == [makesDir |-> FALSE, rejects |-> FALSE, guarded |-> TRUE]
run_sast_scan   == [makesDir |-> TRUE,  rejects |-> FALSE, guarded |-> TRUE]
run_infra_scan  == [makesDir |-> TRUE,  rejects |-> FALSE, guarded |-> TRUE]
run_cloud_scan  == [makesDir |-> TRUE,  rejects |-> TRUE,  guarded |-> FALSE]
run_mobile_scan == [makesDir |-> TRUE,  rejects |-> TRUE,  guarded |-> TRUE]

TaskMap == [web    |-> run_web_scan,   sast   |-> run_sast_scan,
            infra  |-> run_infra_scan, cloud  |-> run_cloud_scan,
            mobile |-> run_mobile_scan]

Body(s)    == TaskMap[Kind[s]]
Guarded(s) == Body(s).guarded

VARIABLES
    engagement,  \* the engagement row exists
    tx,          \* start_scan request of each scan
    cancel,      \* cancel_scan request of each scan
    status,      \* committed status column, "absent" without a row
    parsed,      \* the scan's findings were committed
    msg,         \* the scan's task message in the broker
    revoked,     \* scans whose revoke broadcast the workers remember
    job, pc,     \* the attempt each worker slot runs, and its next step
    sent,        \* statuses POSTed to the webhook for each scan
    harm,        \* what befell a scan that may strand it (history)
    used         \* faults injected so far

api     == <<engagement, tx, cancel>>
store   == <<status, parsed>>
broker  == <<msg, revoked>>
slots   == <<job, pc>>
history == <<sent, harm, used>>
vars    == <<api, store, broker, slots, history>>

TxStates     == {"none", "open", "committed", "aborted"}
CancelStates == {"idle", "checked", "revoked"}
MsgStates    == {"none", "ready", "unacked", "acked"}
Harms        == {"missed", "lost", "killed", "abort", "dbfault", "setup"}
Writing      == {"begin", "tools", "parse", "complete", "fail"}
Steps        == Writing \cup {"hookC", "bookC", "hookF", "bookF", "done"}

Init ==
    /\ engagement = TRUE
    /\ tx = [s \in Scans |-> "none"]
    /\ cancel = [s \in Scans |-> "idle"]
    /\ status = [s \in Scans |-> "absent"]
    /\ parsed = [s \in Scans |-> FALSE]
    /\ msg = [s \in Scans |-> "none"]
    /\ revoked = {}
    /\ job = [w \in Workers |-> NoScan]
    /\ pc = [w \in Workers |-> "idle"]
    /\ sent = [s \in Scans |-> {}]
    /\ harm = [s \in Scans |-> {}]
    /\ used = 0

-----------------------------------------------------------------------------
RowPresent(s) == status[s] # "absent"

Live(s) == \E w \in Workers : job[w] = s

(* An attempt that has yet to commit a terminal status. *)
WillWrite(s) == \E w \in Workers : job[w] = s /\ pc[w] \in Writing

Fault(k) ==
    /\ k \in Faults
    /\ used < MaxFaults
    /\ used' = used + 1

(* _update_scan_status: a missing row is logged and skipped; whatever the  *)
(* row holds is overwritten.                                               *)
UpdateStatus_Upserts(s, new) == status' = [status EXCEPT ![s] = new]
UpdateStatus(s, new) ==
    status' = IF RowPresent(s) THEN [status EXCEPT ![s] = new] ELSE status

Harm(s, h)    == harm' = [harm EXCEPT ![s] = @ \cup {h}]
HarmIf(c, s, h) == IF c THEN Harm(s, h) ELSE UNCHANGED harm

Goto(w, next) == pc' = [pc EXCEPT ![w] = next] /\ UNCHANGED job

(* An exception inside a task body reaches the except clause, which writes *)
(* Failed; in the unguarded body it ends the task.                         *)
Raise_Uncaught(w) == Goto(w, "done")
Raise(w) == Goto(w, IF Guarded(job[w]) THEN "fail" ELSE "done")

(* The Redis transport restores a message under its old delivery tag, so   *)
(* any attempt's acknowledgement drops the tag if it is outstanding and    *)
(* does nothing to a copy that waits in the queue.                         *)
Acknowledge_Never(s) == UNCHANGED msg
Acknowledge(s) == msg' = [msg EXCEPT ![s] = IF @ = "unacked" THEN "acked" ELSE @]

Free_KeepsStep(w) == job' = [job EXCEPT ![w] = NoScan] /\ UNCHANGED pc
Free(w) == /\ job' = [job EXCEPT ![w] = NoScan]
           /\ pc' = [pc EXCEPT ![w] = "idle"]
-----------------------------------------------------------------------------
(* start_scan: the row is added and flushed, the task is sent, and only    *)
(* then does get_db commit.                                                *)
StartScan(s) ==
    /\ engagement
    /\ tx[s] = "none"
    /\ tx' = [tx EXCEPT ![s] = "open"]
    /\ msg' = [msg EXCEPT ![s] = "ready"]
    /\ UNCHANGED <<engagement, cancel, revoked, store, slots, history>>

CommitStart(s) ==
    /\ tx[s] = "open"
    /\ tx' = [tx EXCEPT ![s] = "committed"]
    /\ status' = [status EXCEPT ![s] = "Queued"]
    /\ UNCHANGED <<engagement, cancel, parsed, broker, slots, history>>

AbortStart(s) ==
    /\ tx[s] = "open"
    /\ Fault("abort")
    /\ tx' = [tx EXCEPT ![s] = "aborted"]
    /\ UNCHANGED <<engagement, cancel, store, broker, slots, sent, harm>>

(* cancel_scan, in its three steps: the status check, the revoke, and the  *)
(* write that does not look at the status again.                           *)
CancelCheck(s) ==
    /\ cancel[s] = "idle"
    /\ status[s] \in Active
    /\ cancel' = [cancel EXCEPT ![s] = "checked"]
    /\ UNCHANGED <<engagement, tx, store, broker, slots, history>>

CancelRevoke(s) ==
    /\ cancel[s] = "checked"
    /\ cancel' = [cancel EXCEPT ![s] = "revoked"]
    /\ \/ revoked' = revoked \cup {s} /\ UNCHANGED used
       \/ UNCHANGED revoked /\ Fault("lostrevoke")
    /\ UNCHANGED <<engagement, tx, store, msg, slots, sent, harm>>

CancelCommit(s) ==
    /\ cancel[s] = "revoked"
    /\ cancel' = [cancel EXCEPT ![s] = "idle"]
    /\ UpdateStatus(s, "Cancelled")
    /\ UNCHANGED <<engagement, tx, parsed, broker, slots, history>>

AbortCancel(s) ==
    /\ cancel[s] # "idle"
    /\ Fault("abort")
    /\ cancel' = [cancel EXCEPT ![s] = "idle"]
    /\ Harm(s, "abort")
    /\ UNCHANGED <<engagement, tx, store, broker, slots, sent>>

(* delete_engagement cascades to the scan rows; a foreign key to the       *)
(* engagement keeps it out while a start_scan transaction is open.         *)
DeleteEngagement ==
    /\ engagement
    /\ \A s \in Scans : tx[s] # "open"
    /\ engagement' = FALSE
    /\ status' = [s \in Scans |-> "absent"]
    /\ UNCHANGED <<tx, cancel, parsed, broker, slots, history>>

(* main.lifespan, run by each of the four uvicorn processes when it        *)
(* starts: Running rows older than five minutes, any subset here.          *)
RecoverStale_AnyStatus ==
    /\ Fault("restart")
    /\ \E stale \in SUBSET {s \in Scans : RowPresent(s)} :
         status' = [s \in Scans |-> IF s \in stale THEN "Failed" ELSE status[s]]
    /\ UNCHANGED <<api, parsed, broker, slots, sent, harm>>

RecoverStale ==
    /\ Fault("restart")
    /\ \E stale \in SUBSET {s \in Scans : status[s] = "Running"} :
         status' = [s \in Scans |-> IF s \in stale THEN "Failed" ELSE status[s]]
    /\ UNCHANGED <<api, parsed, broker, slots, sent, harm>>
-----------------------------------------------------------------------------
(* The broker hands a message to a free slot of its queue; the worker      *)
(* acknowledges a revoked one without running it.                          *)
Deliver(w, s) ==
    /\ msg[s] = "ready"
    /\ s \notin revoked
    /\ job[w] = NoScan
    /\ Pool[w] = Route[Kind[s]]
    /\ msg' = [msg EXCEPT ![s] = "unacked"]
    /\ job' = [job EXCEPT ![w] = s]
    /\ pc' = [pc EXCEPT ![w] = "begin"]
    /\ UNCHANGED <<api, store, revoked, history>>

Discard(s) ==
    /\ msg[s] = "ready"
    /\ s \in revoked
    /\ msg' = [msg EXCEPT ![s] = "acked"]
    /\ HarmIf(status[s] \in Active /\ cancel[s] = "idle", s, "killed")
    /\ UNCHANGED <<api, store, revoked, slots, sent, used>>

Redeliver_Eager(s) ==
    /\ msg[s] = "unacked"
    /\ msg' = [msg EXCEPT ![s] = "ready"]
    /\ UNCHANGED <<api, store, revoked, slots, history>>

(* An outstanding message returns to the queue when its consumer is gone,  *)
(* and when an attempt outlives the visibility timeout.                    *)
Redeliver(s) ==
    /\ msg[s] = "unacked"
    /\ IF Live(s) THEN Fault("redeliver") ELSE UNCHANGED used
    /\ msg' = [msg EXCEPT ![s] = "ready"]
    /\ UNCHANGED <<api, store, revoked, slots, sent, harm>>
-----------------------------------------------------------------------------
(* The first write of every task, outside its try block. *)
BeginRun(w) ==
    /\ pc[w] = "begin"
    /\ UpdateStatus(job[w], "Running")
    /\ HarmIf(~RowPresent(job[w]), job[w], "missed")
    /\ Goto(w, "tools")
    /\ UNCHANGED <<api, parsed, broker, sent, used>>

BeginRaises(w) ==
    /\ pc[w] = "begin"
    /\ Fault("dbfault")
    /\ Harm(job[w], "dbfault")
    /\ Goto(w, "done")
    /\ UNCHANGED <<api, store, broker, sent>>

(* os.makedirs raises outside the try block. *)
SetupRaises(w) ==
    /\ pc[w] = "tools"
    /\ Body(job[w]).makesDir
    /\ Fault("setup")
    /\ Harm(job[w], "setup")
    /\ Goto(w, "done")
    /\ UNCHANGED <<api, store, broker, sent>>

(* The tool runs exit; a clone, download or scan.sh failure raises; cloud  *)
(* and mobile reject a bad configuration by writing Failed and returning.  *)
ToolsExit(w) ==
    /\ pc[w] = "tools"
    /\ \/ Goto(w, "parse")
       \/ Raise(w)
       \/ Body(job[w]).rejects /\ Goto(w, "fail")
    /\ UNCHANGED <<api, store, broker, history>>

ParseFindings(w) ==
    /\ pc[w] = "parse"
    /\ RowPresent(job[w])
    /\ parsed' = [parsed EXCEPT ![job[w]] = TRUE]
    /\ Goto(w, "complete")
    /\ UNCHANGED <<api, status, broker, history>>

ParseRaises_Swallowed(w) ==
    /\ pc[w] = "parse"
    /\ Goto(w, "complete")
    /\ UNCHANGED <<api, store, broker, history>>

(* The row is missing, or a parser or the findings transaction raises. *)
ParseRaises(w) ==
    /\ pc[w] = "parse"
    /\ Raise(w)
    /\ UNCHANGED <<api, store, broker, history>>

AfterWrite(s, hook) == IF RowPresent(s) /\ Webhook THEN hook ELSE "done"

Complete(w) ==
    /\ pc[w] = "complete"
    /\ UpdateStatus(job[w], "Completed")
    /\ Goto(w, AfterWrite(job[w], "hookC"))
    /\ UNCHANGED <<api, parsed, broker, history>>

CompleteRaises(w) ==
    /\ pc[w] = "complete"
    /\ Fault("dbfault")
    /\ Raise(w)
    /\ UNCHANGED <<api, store, broker, sent, harm>>

Fail(w) ==
    /\ pc[w] = "fail"
    /\ UpdateStatus(job[w], "Failed")
    /\ Goto(w, AfterWrite(job[w], "hookF"))
    /\ UNCHANGED <<api, parsed, broker, history>>

FailRaises(w) ==
    /\ pc[w] = "fail"
    /\ Fault("dbfault")
    /\ Harm(job[w], "dbfault")
    /\ Goto(w, "done")
    /\ UNCHANGED <<api, store, broker, sent>>

(* _dispatch_webhook: the POST, whose failure is swallowed, then the       *)
(* delivery record in a transaction of its own, whose failure is not.      *)
PostHook(w) ==
    /\ \/ pc[w] = "hookC" /\ Goto(w, "bookC")
       \/ pc[w] = "hookF" /\ Goto(w, "bookF")
    /\ LET event == IF pc[w] = "hookC" THEN "Completed" ELSE "Failed"
       IN  sent' \in {sent, [sent EXCEPT ![job[w]] = @ \cup {event}]}
    /\ UNCHANGED <<api, store, broker, harm, used>>

RecordHook(w) ==
    /\ pc[w] \in {"bookC", "bookF"}
    /\ engagement
    /\ Goto(w, "done")
    /\ UNCHANGED <<api, store, broker, history>>

RecordRaises(w) ==
    /\ pc[w] \in {"bookC", "bookF"}
    /\ IF engagement THEN Fault("bookfault") ELSE UNCHANGED used
    /\ IF pc[w] = "bookC" THEN Raise(w) ELSE Goto(w, "done")
    /\ UNCHANGED <<api, store, broker, sent, harm>>

(* The task returned or raised; both acknowledge. *)
EndTask(w) ==
    /\ pc[w] = "done"
    /\ Acknowledge(job[w])
    /\ Free(w)
    /\ UNCHANGED <<api, store, revoked, history>>
-----------------------------------------------------------------------------
(* SIGTERM of a revoked attempt, some time after the broadcast. *)
Terminate(w) ==
    /\ job[w] \in revoked
    /\ HarmIf(pc[w] \in Writing /\ cancel[job[w]] = "idle", job[w], "killed")
    /\ Acknowledge(job[w])
    /\ Free(w)
    /\ UNCHANGED <<api, store, revoked, sent, used>>

(* A lost pool process is acknowledged: task_reject_on_worker_lost is off. *)
LoseChild(w) ==
    /\ job[w] # NoScan
    /\ Fault("childlost")
    /\ Harm(job[w], "lost")
    /\ Acknowledge(job[w])
    /\ Free(w)
    /\ UNCHANGED <<api, store, revoked, sent>>

(* A worker container dies with every slot of its queue and its revoked    *)
(* set; its messages stay outstanding until they are redelivered.          *)
CrashWorker(q) ==
    LET down == {w \in Workers : Pool[w] = q}
        hit  == {job[w] : w \in down} \ {NoScan}
    IN  /\ Fault("crash")
        /\ job' = [w \in Workers |-> IF w \in down THEN NoScan ELSE job[w]]
        /\ pc'  = [w \in Workers |-> IF w \in down THEN "idle" ELSE pc[w]]
        /\ revoked' = {s \in revoked : Route[Kind[s]] # q}
        /\ harm' = [s \in Scans |->
             IF s \in hit /\ msg[s] = "acked" THEN harm[s] \cup {"lost"} ELSE harm[s]]
        /\ UNCHANGED <<api, store, msg, sent>>
-----------------------------------------------------------------------------
Api == \/ \E s \in Scans : \/ StartScan(s) \/ CommitStart(s) \/ AbortStart(s)
                           \/ CancelCheck(s) \/ CancelRevoke(s)
                           \/ CancelCommit(s) \/ AbortCancel(s)
       \/ DeleteEngagement
       \/ RecoverStale

Broker == \E s \in Scans : \/ \E w \in Workers : Deliver(w, s)
                           \/ Discard(s)
                           \/ Redeliver(s)

(* The steps of the task body itself, the tool runs apart. *)
TaskStep(w) == \/ BeginRun(w) \/ ParseFindings(w) \/ ParseRaises(w)
               \/ Complete(w) \/ Fail(w) \/ PostHook(w)
               \/ RecordHook(w) \/ RecordRaises(w) \/ EndTask(w)

Worker == \/ \E w \in Workers : \/ TaskStep(w) \/ ToolsExit(w)
                                \/ BeginRaises(w) \/ SetupRaises(w)
                                \/ CompleteRaises(w) \/ FailRaises(w)
                                \/ Terminate(w) \/ LoseChild(w)
          \/ \E q \in Queues : CrashWorker(q)

Next == Api \/ Broker \/ Worker

Spec == Init /\ [][Next]_vars

(* What the deployment keeps doing: requests finish, idle workers take     *)
(* messages, the transport restores orphaned ones, task code runs on.      *)
(* Nothing bounds the tools: subprocess.Popen has no timeout.              *)
Fairness ==
    /\ \A s \in Scans :
         /\ WF_vars(CommitStart(s))
         /\ WF_vars(CancelRevoke(s))
         /\ WF_vars(CancelCommit(s))
         /\ WF_vars(Discard(s))
         /\ WF_vars(~Live(s) /\ Redeliver(s))
         /\ WF_vars(\E w \in Workers : Deliver(w, s))
    /\ \A w \in Workers : WF_vars(TaskStep(w)) /\ WF_vars(Terminate(w))

FairSpec == Spec /\ Fairness
-----------------------------------------------------------------------------
TypeOK ==
    /\ engagement \in BOOLEAN
    /\ tx \in [Scans -> TxStates]
    /\ cancel \in [Scans -> CancelStates]
    /\ status \in [Scans -> Active \cup Terminal \cup {"absent"}]
    /\ parsed \in [Scans -> BOOLEAN]
    /\ msg \in [Scans -> MsgStates]
    /\ revoked \subseteq Scans
    /\ job \in [Workers -> Scans \cup {NoScan}]
    /\ pc \in [Workers -> Steps \cup {"idle"}]
    /\ \A w \in Workers : pc[w] = "idle" <=> job[w] = NoScan
    /\ sent \in [Scans -> SUBSET Terminal]
    /\ harm \in [Scans -> SUBSET Harms]
    /\ used \in Nat

(* A scan reads Completed, and its receiver is told so, only once an       *)
(* attempt has committed the scan's findings, whatever redelivery, cancel, *)
(* recovery and failure do to the row in between (run_*_scan).             *)
CompletedImpliesParsed ==
    \A s \in Scans :
        status[s] = "Completed" \/ "Completed" \in sent[s] => parsed[s]

(* A scan whose row waits in Queued or Running always has something that   *)
(* will move it on: a message, an attempt that still has its terminal      *)
(* write ahead, or a cancel request under way.  The only exceptions are    *)
(* scans hit by one of Harms, and the unguarded cloud task.                *)
Pending(s) ==
    \/ msg[s] = "ready"
    \/ msg[s] = "unacked" /\ ~Live(s)
    \/ WillWrite(s)
    \/ cancel[s] # "idle"

StrandedOnlyByHarm ==
    \A s \in Scans :
        Guarded(s) /\ harm[s] = {} /\ status[s] \in Active => Pending(s)

(* Unless the visibility timeout redelivers the message of an attempt that *)
(* still runs, no two slots run the same scan, crashes, lost processes and *)
(* revocations included (task_acks_late).                                  *)
SoleRunner ==
    "redeliver" \notin Faults =>
        \A v, w \in Workers : job[v] = job[w] /\ job[v] # NoScan => v = w

(* Once a scan is terminal and nothing is under way for it, its status     *)
(* never changes again except by deletion: no restart, late worker step or *)
(* cancel request revives or rewrites it.                                  *)
Settled(s) ==
    /\ status[s] \in Terminal
    /\ msg[s] = "acked"
    /\ ~Live(s)
    /\ cancel[s] = "idle"

SettledStep ==
    \A s \in Scans : Settled(s) => status'[s] \in {status[s], "absent"}

SettledStable == [][SettledStep]_vars

(* Deleting an engagement is irreversible (delete_engagement): tasks and   *)
(* requests that outlive it never bring a row of it back.                  *)
DeletedStep == ~engagement => \A s \in Scans : status'[s] = "absent"

DeletedStaysDeleted == [][DeletedStep]_vars

-----------------------------------------------------------------------------
ToolsFinish == \A w \in Workers : []<>(pc[w] # "tools")

(* If tools exit, a Running scan of a guarded kind leaves Running, through *)
(* container crashes, duplicate runs, recoveries and webhook failures,     *)
(* unless one of Harms hits it.                                            *)
RunsFinish ==
    ToolsFinish =>
        \A s \in Scans : Guarded(s) =>
            (status[s] = "Running") ~> (status[s] # "Running" \/ harm[s] # {})

(* If tools exit, every task message is eventually acknowledged for good:  *)
(* crashes and duplicate deliveries do not keep a scan running for ever.   *)
MessagesDrain ==
    ToolsFinish =>
        \A s \in Scans : (msg[s] = "ready") ~> [](msg[s] = "acked")
-----------------------------------------------------------------------------
(* Nothing is under way for a scan: its message is settled, no attempt     *)
(* runs and no request is about to write.                                  *)
Over(s) == msg[s] = "acked" /\ ~Live(s) /\ cancel[s] = "idle"

Contract == INSTANCE ScanContract
                WITH published <- parsed, told <- sent,
                     over <- [s \in Scans |-> Over(s)]

(* The processes, messages and faults of this module together keep what    *)
(* ScanContract promises the readers of a scan: Completed only over        *)
(* committed findings, an outcome that stays once the work is over, and a  *)
(* deletion that lasts (engagements.py, tasks.py, main.lifespan).          *)
KeepsContract == Contract!Spec
=============================================================================
