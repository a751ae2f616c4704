# A TLA+ verification project for MSTE

MSTE runs security scans for client engagements: a FastAPI application takes
requests, Celery workers run the scan tools in containers, Redis carries tasks
and progress, Postgres keeps the state, and a React frontend shows it. This
directory models the parts of it whose correctness depends on the order in
which processes act, checks small instances with TLC and proves the main safety
properties for every instance with TLAPS.

## 1. Inventory

| component | state | operations | interacts with | hard because | correct when |
|---|---|---|---|---|---|
| Scan API (`routers/engagements.py`) | `scans` rows: status, task id | `start_scan`, `cancel_scan`, `delete_engagement` | sends tasks and revokes to the broker; writes the row the workers write | the task is sent before the row commits; cancel is check, wait, write | nothing is lost or resurrected; a terminal status stays |
| Startup recovery (`main.py`) | the same rows | `lifespan` fails old Running rows, seeds the admin and the default template | runs in each of four uvicorn processes at any time | cannot see which attempts are alive | only dead attempts are failed |
| Scan tasks (`tasks.py`) | attempt of a scan: which step comes next | five `run_*_scan` bodies, `_update_scan_status`, `_dispatch_webhook` | broker messages, scan row, findings, webhook | late acknowledgement, redelivery beside a live attempt, lost processes, exceptions at each commit | Completed means parsed; a scan never hangs silently |
| Broker (Celery + Redis, external) | message per scan, revoked ids | deliver, acknowledge, restore, revoke | workers | visibility timeout, lost broadcasts | a message is acknowledged once its work is over |
| Findings (`tasks.py`, `routers/findings.py`) | `findings` rows, one per (engagement, hash) by intent | `_upsert_finding`, `update_finding`, bulk update, `finding_delta` | several scans of one engagement and the analysts write the same rows | no unique constraint, read-then-write; parses and bulk updates lock rows one by one in their own orders; some tools' loops swallow errors and commit what came before | one row per hash; an analyst's verdict is not lost |
| User cache (`auth.py`, `routers/admin.py`) | `users` rows, Redis entry with a lifetime | lookup and fill, `change_role`, `delete_user`, invalidate | every request reads it, in four processes | the entry is invalidated before the commit | no request acts on a role taken away before it was sent |
| Scheduler (`tasks.py`, `routers/engagements.py`) | `scheduled_scans`: next run, enabled | `run_scheduled_scans` tick, create, patch, delete | adds scans and sends their tasks in one batch transaction | tasks are sent before the batch commits; one row's failure and the others; ticks queue behind scans | each due schedule runs once per interval; one failure does not stop the rest |
| Webhook deliveries | URL and secret of an engagement, delivery rows | edit URL, rotate and reveal secret, record and prune (worker), test ping (API) | concurrent edits and prunes | a secret is answered after the commit; the two sessions flush differently | the secret shown is the one in force; the newest rows are kept, no more than the cap |
| Progress stream (`routers/findings.py`) | Redis list, pub/sub channels, stream position | `publish_progress`, `scan_stream` replay, subscribe, heartbeat | workers publish while the stream replays | the gap between replay and subscribe | every line is shown, the stream ends |
| Report templates (`routers/admin.py`, `report.py`) | `is_default` flag per template, an engagement's choice | create, set default, delete, choose, export, seed at startup | requests of several administrators, processes that start together | read-then-write over several rows; nothing in the schema keeps the flag to one row | at most one default; an export finds its template; the API starts |
| `scan.sh` | ZAP session, tool containers | reset, spider, active scan, export, cleanup | two web slots share one ZAP daemon | one global session | a report holds its own scan's alerts |
| Kubernetes jobs, MobSF poll | poll counter, job status | `run_tool_job`, `run_mobile_scan` poll | external services | errors inside the poll loop | the loop ends |
| Login state (`auth-context.tsx`) | token, user | restore, login, logout | asynchronous answers | late answers after logout | a user is shown only with a token |
| Output parsers (`parsers.py`, the loops of `tasks.py`) | the findings of one parse, flushed and not committed | parse a report entry, upsert, commit, swallow or raise | called by the five task bodies; the hash of a finding ties two scans together | one entry of one report decides over the transaction of all tools; loops that swallow and loops that do not | Completed means all of it; the next scan recognises what it finds again |
| Schemas, dashboard, search, report rendering | none | field validation and read-only queries | | | input rules |
| Notifications, Jira | none | dead code: not part of the application, and its imports do not exist | | | |

The hazards these components are exposed to, each at its line, are in
`PROJECT.json`.

## 2. Plan

All of the following is done; the order is the one in which it was built.

1. `ScanLifecycle`, `ScanClaims`, `ScanLifecycleProofs`: the core.
2. `FindingDedup` and its proofs: concurrent upserts of parsed findings, analyst
   edits, delta.
3. `UserCache` and its proofs: cache fill against invalidation before commit.
4. `ScheduledDispatch` and its proofs: the batch tick, its failures, concurrent
   edits.
5. `ReportTemplates` and its proofs: the default flag under concurrent requests
   and startup.
6. `WebhookDeliveries` and its proofs: pruning by the two kinds of session,
   the secret under concurrent edits.
7. `ParseReports`: the rules of every parser and the transaction around them.
8. `ScanStream` and its proofs: replay, subscribe, heartbeat and the publisher.
9. `ScanContract`: the abstract life of a scan, and the refinement of it by
   `ScanLifecycle`, checked and proved.

10. `FindingLedger`: the abstract spec of a parse, and its refinement by
   `FindingDedup`, checked and proved.
11. Proofs about `ParseReports`, of the action properties of `FindingDedup`, and
   of what the two abstract specifications give their readers.

Dropped from the plan: a model of the shared ZAP daemon (its owner is decided by
shell and Docker in `scan.sh`, and no status or finding depends on it), of the
Kubernetes poll loop (no process calls `k8s_executor.py`) and of the login state
of the frontend (one token per tab).

## 3. Modules and how they correspond to the code

| module | models | main actions and the code they stand for |
|---|---|---|
| `ScanLifecycle` | a scan row, its task message and the attempts that run it | `StartScan`/`CommitStart`/`AbortStart` = `start_scan` and `get_db`; `CancelCheck`/`CancelRevoke`/`CancelCommit` = the three stretches of `cancel_scan` between its awaits; `DeleteEngagement`; `RecoverStale` = `main.lifespan`; `BeginRun` ... `EndTask` = the five task bodies of `tasks.py`; `Deliver`, `Discard`, `Redeliver`, `Terminate`, `LoseChild`, `CrashWorker` = Celery and the Redis transport |
| `MCScanLifecycle` | instances of it for TLC | |
| `ScanClaims` | a sentence about the life of a scan that the code does not keep | |
| `ScanLifecycleProofs` | proofs about `ScanLifecycle` and its refinement of `ScanContract` | |
| `ScanContract` | the abstract life of a scan, as its readers see it | `Accept`, `Publish`, `Write`, `Tell`, `Recover`, `Close`, `Reopen`, `Delete`: no code of its own, `ScanLifecycle!Contract` maps onto it |
| `FindingDedup` | parse sessions over the findings of one engagement | `Insert`, `Observe`, `MultipleResults` = the three outcomes of `_upsert_finding`; `MultipleResults` and `ParserRaises` lead to `NextTool`, where the tool's loop swallows the error, or to `Rollback`; `Flush` = autoflush taking the row lock; `Commit`, `Rollback` = `_db_session`; `UpdateFinding` = `update_finding`; `BulkBegin`, `BulkLock`, `BulkCommit`, `BulkVictim` = the `UPDATE` of `bulk_update_findings`, row by row; `Resolved` = a bucket of `finding_delta` |
| `FindingLedger` | what a parse promises the readers of the findings | `Begin`, `LeaveOff`, `Store`, `GiveUp`, `Judge`: no code of its own, `FindingDedup!Ledger` maps onto it |
| `MCFindingDedup`, `FindingClaims`, `FindingDedupProofs` | instances, the delta's claim, proofs, the refinement among them | |
| `UserCache` | accounts, the Redis entry, requests that read them and requests that change them | `CacheGet`, `Select`, `CacheFill` = `_get_current_user`; `require_admin`; `Handle` = `change_role` and `delete_user`; `Commit` = `get_db`; `change_password` |
| `MCUserCache`, `UserCacheProofs` | instances, proofs | |
| `ScheduledDispatch`, `MCScheduledDispatch`, `ScheduledDispatchProofs` | schedules, ticks and analysts | `Beat` = the beat schedule; `Begin`, `Load`, `Record`, `Send`, `SendFails`, `RowVanished`, `EngagementVanished`, `Commit` = the stretches of `run_scheduled_scans` between its database statements and broker calls; `Create`, `SetEnabled`, `SetInterval`, `Delete` = the endpoints; `Crash`, `DeadlockVictim` = worker and Postgres; `OtherTask` = the scans that share the infra queue |
| `ReportTemplates`, `ReportTemplatesProofs` | templates, the requests and process starts that read and write them | `BootRead`, `BootWrite`, `BootConflict` = `lifespan`; `Create`; `DefaultRead`/`DefaultsRead`/`DefaultWrite` = the two reads and the commit of `set_default_template`; `DeleteRead`/`DeleteWrite` = `delete_report_template`; `Choose` = `update_engagement`; `ExportRead`/`ExportChoose` = `export_report` and `render_engagement_report_async` |
| `WebhookDeliveries`, `MCWebhookDeliveries`, `WebhookDeliveriesProofs` | the webhook of one engagement | `EditRead`/`EditWrite` = `update_engagement`; `Rotate`, `Reveal` = the two secret endpoints up to their commit or read, `Answer` = their response; `Post`, `Prune`, `Record` = `_dispatch_webhook` and `test_webhook` |
| `ParseReports`, `MCParseReports`, `ParseReportsProofs` | a scan's parse of its tools' reports, and of the next scan's | one operator per parser of `parsers.py`; `Unreadable` = `_load_json`; `BadLine` = a line or port number that does not decode; `Skipped`, `ParserRaises`, `Upsert`, `LookupRaises`, `WriteRefused`, `EndReport` = the loops of `_parse_*_findings` and `_upsert_finding`; `Commit`, `CommitBroken` = `_db_session` and the task's `except` clause |
| `ScanStream`, `ScanStreamProofs` | the lines and statuses of one scan and its viewers | `Say`, `Push` = `publish_progress`; `Begin`, `Finish`, `Announce` = `_update_scan_status`; `RecordFails` = `_dispatch_webhook` raising while it records; `Open`, `Replay`, `CheckStatus`, `Subscribe`, `Receive`, `Heartbeat`, `Recheck`, `Timeout`, `Disconnect` = `scan_stream` |

**State of `ScanLifecycle`.** `status` is the committed column, `"absent"`
without a row. `tx` and `cancel` are the program counters of the two API
requests. `msg` is the scan's task message: `ready` in the queue, `unacked` in
the transport's outstanding set, `acked` when gone. `job` and `pc` are what a
pool slot runs and its next step. `parsed`, `sent` record what was committed
and posted. `harm` and `used` are history: what befell a scan that may leave it
waiting for ever, and the number of faults so far. The five task bodies have
one skeleton (write Running, run tools, parse, write Completed, notify); what
differs between them is a record per body: whether it creates a directory
before its `try`, whether it rejects options by writing Failed and returning,
and whether an `except` clause guards it (`run_cloud_scan` has none). Every step
that commits a transaction is one action; `_update_scan_status` is one
transaction followed by the notification, which has two steps of its own.

The broker is outside `src/`. The model uses these facts about it: with
`task_acks_late` a message is acknowledged when its task returns or raises; the
Redis transport restores an outstanding message under its old delivery tag, so
the acknowledgement of any attempt removes an outstanding tag and leaves a copy
in the queue alone; a worker discards a delivered message whose id it has seen
revoked; a pool process that dies is acknowledged because
`task_reject_on_worker_lost` is off.

**State of `FindingDedup`.** A row is named by its hash and the attempt that
inserted it, so two rows of one hash are two attempts' inserts. `mine` and
`reopen` are what a session has written and not committed; `lock` is Postgres'
row lock, taken by the flush of an `UPDATE` and held until the session ends.
Postgres' READ COMMITTED appears as: a lookup sees committed rows and the
session's own; an `UPDATE` waits for the lock; a cycle of waiting sessions
loses one of them. SQLAlchemy flushes before each query, and no caller keeps
the returned object, so a row reported twice is loaded twice. `ToolOf` gives
each report entry its tool. The loops of the `Lenient` tools (those of cloud and
mobile scans) swallow an error: the rest of that tool's report is left off
(`cut`), the next tool is read, and the session commits what it has. An error in
any other tool rolls the session back. A bulk update is a session too: `plan` is
the order in which its `UPDATE` reaches the rows, `visited` how many it has
locked, `verdict` the status it writes; it holds its locks until it commits. The
update of a single row cannot be part of a circle and is one step, taken when
the row is free.

**State of `UserCache`.** `role` is the committed row, `cached` the Redis entry.
`held` is history: the roles a request's user has had since the request was
sent. `FromCache` is what the lookup of an entry hands to the request: nothing,
because `_dict_to_user` raises on every entry (see the findings).

**`ScanContract` and its refinement.** `Contract == INSTANCE ScanContract WITH
published <- parsed, told <- sent, over <- [s \in Scans |-> Over(s)]`:
committed findings are published, a posted webhook is told, and a scan is over
when no request, message or attempt of it is pending. Tasks, queues, slots and
requests have no counterpart. The contract forbids Completed or its announcement
without findings, a change of status once the work is over (startup recovery of
a Running row and a deletion apart), and the return of a deleted scan. It allows
what the code does while work goes on: a late write may replace a terminal
status.

**`FindingLedger` and its refinement.** `Ledger == INSTANCE FindingLedger WITH
ledger <- status, phase <- pc, judged <- touched, past <- before`: a parse takes
effect in one step, when it commits, and everything it looked up, inserted,
locked or waited for before is a stutter, but for the decision to leave off a
tool (`LeaveOff`). The ledger forbids a partial parse except of tools left off, a
second row for a hash that had one when the parse began, the loss of a reported
finding, and a change of any verdict but Fixed. It allows what the missing
constraint and the stale reads of the code do: a row beside that of a parse it
overlapped, and a verdict given while the parse ran to be overwritten or missed.

**State of `ScheduledDispatch`.** The unit of time is one beat period. The
columns of `scheduled_scans` are `enabled`, `interval`, `nextRun`; `lock` is the
row lock of the slot whose open transaction has written the row. Of each slot,
`due` is what its `SELECT` returned, `todo` what the loop has not reached,
`read` the columns as read, `advanced`, `added`, `sent` what the session has
flushed or handed to the broker. `tasks` and `scans` count, per schedule and due
time, what left and what was recorded. The session is one transaction for the
batch: a task that was sent stays sent when it rolls back. `stale`, `lost`,
`crossed` and `pausedIn` (the ticks that had read a schedule when it was paused)
are history. `busy` are the slots that run a scan instead: `worker-infra` serves
ticks and infra, cloud and mobile scans from one queue, and a scan's tools have
no time limit.

**State of `ReportTemplates`.** A row id is unused, plain, default or deleted,
and used once. `req` holds what an open request read; a promotion reads the
chosen row first and the other defaults in a second statement, and keeps what
the first one said of the row. Its write happens in one READ COMMITTED
transaction with what it decided from that read, and `crossed` remembers that a
default was committed in between. A process start reads administrator and
default and writes both in one transaction; the unique administrator makes the
second of two such starts fail and start again.

**State of `WebhookDeliveries`.** A row is its time stamp, a secret its
generation, 0 for none. An engagement may start with a URL and no secret
(`legacy`): one configured before secrets existed. `edit` is what an open URL
change read; a URL equal to the one it read is not written. `answer` is the
secret a request has committed or read and not yet answered with, `shown` the
one last answered; `overtaken`, `crossed`, `clobbered` and `recorded` are
history. `prune` is what a session is about to delete, fixed at its query. The
worker's session has autoflush and counts its own row; the API's has not and
does not.

**State of `ParseReports`.** An entry of a report is a record of the fields the
parsers branch on; a `garbled` one is a line that is not UTF-8 (nuclei, katana)
or a port number that is none (nmap), which raise. `mine` is what the parse has
flushed, `broken` a session in which Postgres refused a write, `cut` the tools
whose report was abandoned. The second round scans the same target with the same
entries in any order (`Variants` of a ZAP alert: which of its instances comes
first).

**State of `ScanStream`.** `log` is the Redis list, `inbox` what is on its way to
a viewer, `shown` the lines of its screen, `verdict` the word of its end event.
The worker commits a status, then publishes it (`announcing`), and publishes a
line before it appends it (`pushing`). One attempt of the worker is modelled: a
redelivered second attempt would say its lines from the start. If the record of the
webhook raises after the note of Completed, the task's `except` clause writes and
publishes Failed (`RecordFails`). `logged`,
`since`, `unsaid` and `raced` are history.

Operators named `X_Y` in the modules are `X` with one mistake. No action uses
them; each shows that a property would notice that mistake.

## 4. Runs

| run | question | result |
|---|---|---|
| `lifecycle_web` | one web scan, two slots, up to three faults of any kind: do the safety properties of a scan hold, does the whole keep `ScanContract`, and, if tools exit, do Running scans finish and messages drain? | pass |
| `lifecycle_infra` | a cloud and a mobile scan on two infra slots, without visibility-timeout redelivery: can two slots run one scan, does a settled scan change? | pass (no) |
| `dedup_overlap` | with overlapping sessions, some of tools whose loop swallows errors: which of them can store a hash twice, what a committed parse may lack, what happens to verdicts, does the whole keep `FindingLedger`? | pass |
| `dedup_live` | with a bulk status update beside the sessions: whom may the database abort, and does every parse end? | pass |
| `cache_faulty` | does a request ever act on a role taken away before it was sent? | pass (no) |
| `schedule_ticks` | does each due time launch one scan, does one failure stop the rest, what may a paused schedule still launch, does a shorter interval survive an open tick, is everything due handled if scans do not hold the infra queue for ever? | pass, outside the named overlaps and rollbacks |
| `report_templates` | when can there be two defaults or none, can an export fail, does every process start? | pass |
| `webhook` | is the secret a client was shown the one in force, which deliveries go unsigned, are the newest rows kept and the rows bounded? | pass, outside the named overlaps |
| `scan_stream` | does a stream show every line once and in order, which lines can it miss, is the status it ends with the database's, does it end? | pass |
| `parse_reports` | does Completed mean that every finding is on record, does another scan add none, which parses leave a scan Running? | pass |
| `claim_cancelled_terminal` | does a cancelled scan stay cancelled? | violated, see 7 |
| `claim_delta` | is "resolved" absent from the latest scan? | violated, see 7 |

### Bounds and why they are enough

* `lifecycle_web`: 1 scan, 2 web slots, `MaxFaults = 3`, all kinds of fault. A
  scan interacts with another only through slots and the engagement, so one scan
  with two slots has every race of its row; the longest chain any property
  depends on is a redelivery, a crash or lost process and a recovery. The safety
  theorems and the refinement are proved for any number.
* `lifecycle_infra`: 2 scans, 2 slots, one fault: the interaction left out above.
* `dedup_*`: 2 hashes and 3 attempts (two of one scan, one of another), one of
  which repeats a hash and one of which crosses the order. Two hashes are needed
  for a lock cycle, three sessions for a cycle beside a bystander and for a third
  report after a duplicate. In `dedup_overlap` every attempt reads cloud tools
  and single statuses change; in `dedup_live` web tools meet one bulk update of
  up to two rows, enough for it to be part of a circle. There it writes one
  verdict only: who waits for whom does not depend on it. That the ledger is kept
  with bulk updates of any size is proved and not run.
* `cache_faulty`: 2 users, 2 requests, 2 roles, 2 commits: one request that
  changes a role while another resolves it, and a second change that the first
  one's answer must not survive. The theorems remove all of these bounds.
* `schedule_ticks`: 2 schedules of one engagement, 2 slots, intervals of 1 and
  3, `MaxClock = 2`, one waiting tick, one edit, one fault. Two schedules make a
  batch in which one can fail; two slots make ticks overlap and wait for each
  other's rows; an interval of 3 edited to 1 lets two ticks hold the old and the
  new one and commit in either order; the clock lets a launch come due again
  after a rollback.
* `report_templates`: 5 row ids, 2 processes, 2 open requests of 5 in all, 1 stop.
  Two promotions must overlap and a start must follow them; a delete, a choice
  and an export fit beside them.
* `webhook`: 2 URL edits and 2 requests that rotate or reveal at once, 2 secrets
  and 2 URLs, one of them possibly older than secrets: a clobbered first secret,
  two overlapping rotations and a reveal overtaken by one all happen. A worker
  and a test request deliver 5 times over a history of `Kept = 1` (100 in the
  code). Editors, clients and URLs are symmetric: the properties name none.
* `scan_stream`: 1 viewer (viewers share nothing they write), 3 lines, so that
  one can fall before, one into and one after the gap, 2 faults.
* `parse_reports`: at most 3 entries over all reports of a scan, drawn from the
  sound, filtered, malformed, garbled, null and unmapped entries of 14 tools; 1
  fault; 2 scans. Three entries make a malformed one follow a finding of its own
  tool and precede another tool's.

Deadlock checking is off where the system comes to rest: every scan is
terminal, every parse or stream has ended, or a bound on requests, rows or time
has been reached.

## 5. Fairness

`ScanLifecycle!Fairness` assumes weak fairness of what the deployment keeps
doing: `CommitStart`, `CancelRevoke` and `CancelCommit` (a request that was
accepted runs on; aborting it is a fault), `Discard` and `Deliver` (idle workers
consume their queue), `Redeliver` of a message without a live attempt (the
transport restores it when the timeout passes), each slot's task steps and
`Terminate` (Celery delivers the signal). Nothing is assumed of the tools:
`subprocess.Popen` is waited for without a timeout, so `RunsFinish` and
`MessagesDrain` are conditional on `ToolsFinish`. No fairness is given to any
fault, and none to starting, cancelling or deleting.

`FindingDedup!FairSpec` lets a session whose next statement can run, run, bulk
updates included; Postgres finds lock cycles. A parse that waits for a row is
given strong fairness: Postgres queues the waiters of a row, so bulk updates
that come later cannot overtake it for ever. `ScheduledDispatch!FairSpec` keeps
the beat sending and lets a slot that has begun go on; nobody has to edit
schedules and nothing has to fail. Ticks wait in one queue with infra, cloud and
mobile scans, whose tools have no time limit (`worker-infra` runs one slot,
`docker-compose.yml:134`), so `DueHandled` is conditional on some slot becoming
free again and again (`SlotsFree`). A slot that does takes messages in the order
in which they were sent, hence strong fairness of `Begin`.
`ReportTemplates!FairSpec` restarts a process that exited (`restart:
unless-stopped` and uvicorn's supervisor) and lets a request finish; no request
has to be sent. `ScanStream!FairSpec` keeps the event loop running the streams
(weak fairness of their steps) and lets the clock pass a deadline. The timeout
needs strong fairness because the loop leaves and re-enters the point at which
it compares the clock: it compares them in every round. Nothing is assumed of
the worker, so a stream ends even when the worker says nothing more.

## 6. What is proved

All theorems hold for any number of scans, slots, faults, attempts, hashes,
users, requests, schedules, templates, rows, viewers and lines, from the named
assumptions on the constants alone. These say that bounds are natural numbers,
that hashes, senders and processes are finite sets and intervals have a greatest
element, that the markers for "none" are no members of the sets they extend, and
that the entries of a report have the fields its parser branches on and the
sections it iterates over.

* `ScanLifecycleProofs`: `TypeCorrect`, `CompletedOnlyAfterParse`,
  `NothingElseStrands`, `OneSlotPerScan`, `SettledForGood`, `DeletedForGood`.
  The invariant is the conjunction of seven parts. `RowInv` ties a row's
  existence to its request and the engagement. `PlaceInv` says where a message
  is while an attempt runs. `ParsedInv` carries "findings are committed" from
  the parse step to the later steps of an attempt, which is what makes
  `CompletedImpliesParsed` inductive when two attempts of one scan overlap.
  `PendingInv` strengthens `StrandedOnlyByHarm` from Active rows to every step
  at which a row may become Active: it also covers the scan whose row is not
  committed yet, and with `MissInv` the worker that has found no row. `SoleInv`
  adds that a waiting message has no live attempt unless redelivery is a fault.
  One lemma per action and part, then `NextIInv`. `DeletedForGood` proves an
  action property, `DeletedStaysDeleted`, that no run repeats.
  `ContractKept` is the refinement of `ScanContract`. Initial
  states map to initial states, and one step per action of `ScanLifecycle` says
  which step of the contract it is, or that it is a stutter. It uses three parts
  of the lifecycle's invariant: without `ParsedInv` a write of Completed would
  not be an allowed `Write`, without `RowInv` the commit of a new scan might not
  be an `Accept`, and without `PlaceInv` work could begin on a scan that is over.
  `ContractSuffices` proves from the contract's steps alone what the lifecycle's
  properties say of a row, so the contract leaves out nothing its readers need.
* `FindingDedupProofs`: `TypeCorrect`, `NoDuplicateRows`, `PartialOnlyWhenCut`.
  `WholeInv` gives the last one: a committed attempt has a row for each hash it
  reported under a tool it did not leave off. `StrictParsesAreWhole` is its
  consequence where no tool's loop swallows errors, as in web and infra scans:
  all or nothing.
  `DuplicatesOverlapped` needs `FreshInv` (a committed row with a hash that a
  running session has inserted comes from an attempt that had not committed
  when the session began), `BeforeInv` (an attempt in another's past does not
  commit again) and `ReopenInv` (a reopened row exists or is the session's own).
  `SerialParsesKeepOneRow`: while no two parses overlap, as with one slot
  (`worker-infra -c 1`), a hash has one row and no lookup finds two; by
  `SerialInv` each of two parses then lies in the other's past or future.
  `FixedIsReopened` and `AnalystsHaveTheWord` prove the action properties about
  verdicts, `OneOrderNeverAborts` proves `AbortsOnlyCrossed`. They need
  `LookInv`, what a session knows of the rows it has looked up: a Fixed row of a
  hash it has seen is to be reopened or was judged since (`SeenInv`); a row it
  reopens is Fixed or Open or was judged since (`KeepInv`); the row whose update
  waits is of the hash it saw last, and those it has locked are of hashes it has
  seen (`DirtyInv`, `HeldInv`). So a session that waits holds rows of hashes it
  reported before the one it waits for, and in a circle of sessions that follow
  one ranking the row ranked highest among those waited for would be held by a
  session that waits for a higher one. Bulk updates are sessions of the same
  argument: by `TypeOK` one holds exactly the rows of its plan that it has
  reached, and by `PlanInv` each row is named once, so a plan that follows the
  ranking waits for a higher row than any it holds.
  `SomeParseGoesOn` says that whenever sessions wait, one of them is not blocked
  by another or a circle waits, which the database breaks: the safety half of
  `ParsesEnd`. `LedgerKept` is the refinement of `FindingLedger`; it adds
  `StoreInv` (what a session will write are rows of hashes it has looked up, and
  each of those has a row or gets one), without which a commit might not be a
  `Store`. `LedgerSuffices` proves from the ledger's steps alone what
  `DuplicatesOverlapped`, `AllUnlessCut`, `ReopensFixed` and `VerdictsKept` say.
* `UserCacheProofs`: `TypeCorrect`, `NoStaleAnswer`, `OnlyAdminsAct`. `HeldInv`
  says that the committed role of a request's user is always in its history.
* `ScheduledDispatchProofs`: `TypeCorrect`, `LaunchedOnce`, `EveryTaskRecorded`,
  `NextRunWithinInterval`, `PausedLaunchesNothing`, `BatchAdvanced`. `FireInv`
  says that a launch two ticks have not read at once is either still being tried
  or `Settled`: its row is due later, and no open tick holds that due time or
  will write it back. That a commit settles what it recorded needs `CrossInv`
  (other ticks that hold the schedule began after the due time, so what they
  will write is later). `CountInv` pairs tasks without a scan row with open
  ticks. `StaleInv` says that every tick whose interval was changed is
  remembered, which makes `WithinInterval` survive its commit. `PauseInv` says
  that an open tick holds a schedule that is not enabled only if it was open
  when that changed. `PassedInv` (the loop leaves out only schedules without an
  engagement) gives the action property `Advance`.
* `ReportTemplatesProofs`: `TypeCorrect`, `AtMostOneDefault`, `DefaultRemains`,
  `ExportsFindTemplate`. `SeenInv` says that a promotion or a start that no
  committed default has crossed has seen every default there is, so its write
  leaves one; a promotion between its two reads has seen so far whether its own
  row is one. `StayInv` says that what it saw is still there, unless a promoted
  row was deleted, so it leaves at least one. `UpInv` says that requests run
  only once the administrator, and with him a default, was committed.
* `WebhookDeliveriesProofs`: `TypeCorrect`, `SecretShownHolds`,
  `DeliveriesSigned`, `NewestSurvive`, `TableBounded`. `SecretInv` relates the
  requests under way to the committed secret: an open answer is the secret in
  force or a rotation has overtaken it, unless a first-time edit clobbered one;
  and a URL other than the legacy one is never on record without a secret.
  `PruneInv` says that whatever a session is about to delete has `Kept` newer
  rows among those on record and its own; it survives the commits of other
  sessions because the record only grows and deletion does not reduce it.
  `RowsBounded` needs `BoundInv`: the rows an open prune spares are at most
  `Kept` and one for each sender that has recorded since its query, and the
  senders so counted are nested, so a commit that deletes brings the table back
  under its bound. Both use the cardinality facts of `FiniteSetTheorems`.
* `ParseReportsProofs`: `TypeCorrect`, `CompletedScansAreWhole`,
  `OnlyRefusalStrands`, `RescanIsIdempotent`, `OneRowPerFinding`,
  `OnlyNormSevLeavesLevels`. `FirstInv` describes the first scan while it
  parses: tools are read in their order, each of them once, and the session holds
  what the entries read so far name, but for the tools whose report was cut.
  That an entry names the same finding whatever is read after it holds for every
  parser because only SQLmap's looks at other entries (`ParseStays`). `SecondInv`
  says that all the reports name is on record when the target is scanned again,
  so that the session adds nothing but alerts of ZAP with several instances. For
  stored severities, `OnRecordInv` carries from the entry that was read to the
  row its word, through one lemma per parser about its map: a row's level is one
  of the five unless the tool is graded by `norm_sev` and the word is not in it.
* `ScanStreamProofs`: `TypeCorrect`, `EndsTruly`, `EachOnceInOrder`,
  `SkipsOnlyGap`. `TruthInv` says that any terminal status in flight, noted or
  shown is the committed one. For the lines: `LogInv` (the list rises and stays
  below what is being appended), `ShownInv` (a screen rises), `InboxInv` (what is
  on its way rises and is newer than the screen) and `GapInv` (every line said is
  on the screen, on its way, never published, or fell in the gap before the
  subscription), which needs the order of the other three to conclude that
  nothing in front of a shown line is still on its way.

Only model-checked: liveness (`RunsFinish`, `MessagesDrain`, `ParsesEnd`,
`DueHandled`, `StartsUp`, `StreamsEnd`), which with fairness and `ENABLED` is
beyond the proof system. Every safety property of a passing run is proved.

## 7. Where the code and its text disagree

Two of these are runs that TLC refutes; `PROJECT.json` quotes the lines.

1. A worker's late write turns Cancelled back into Running
   (`claim_cancelled_terminal`).
2. `finding_delta` lists findings as resolved that the latest scan reported
   again (`claim_delta`): a re-observed row keeps the scan that found it first.

The others are part of what the models do, and appear in the exceptions that
the passing properties name:

* `cancel_scan` overwrites a status written after its check
  (`engagements.py:933`, `975`): `SettledStable` speaks of scans with nothing
  under way, `EndsWithTruth` excepts `raced`.
* An exception while a delivery record is stored turns Completed into Failed
  (`tasks.py:235`, in the lifecycle and in the stream), although the docstring
  of `_dispatch_webhook` says that "failures never raise here" (`tasks.py:169`).
* Startup recovery fails scans that are still being run (`main.py:103`): it
  cannot tell a live attempt from a dead one.
* One schedule whose row vanished makes the flush fail and rolls back the whole
  batch, although "one schedule failing to dispatch" (`tasks.py:443`) "must not
  block every other engagement's scheduled scans":
  `FiredOnce` and `TasksRecorded` except `lost` launches.
* A cache hit never answers: `_dict_to_user` (`auth.py:134`) assigns mapped
  attributes on an object without SQLAlchemy's instance state, the error is
  swallowed, and the request reads the database. `ResolvedFresh` holds because of
  it: with a deserialiser that works (`FromCache_Deserialised`), a request that
  read the row before a demotion commits may fill the cache after it, and later
  requests are answered with the old role until the entry expires.
* A cloud or mobile scan is Completed without what its tool reported after an
  error: the loops (`tasks.py:987-992`, `1177-1182`) swallow it and the session
  commits. `AllUnlessCut`, `ReopensFixed`, `CompletedIsWhole` except the tools
  left off.
* A bulk status update locks its rows in the order Postgres finds them
  (`findings.py:335-351`), so it and a parse can wait for each other, and either
  may be aborted: `AbortsOnlyCrossed` counts it among the sessions whose orders
  cross.
* The answer of a rotation or of a reveal leaves after its commit or read
  (`engagements.py:755-763`, `733-739`): of two that overlap a rotation, the
  secret answered last need not be the one in force. `ShownInForce` excepts it,
  and two first-time URL changes that overlap (`engagements.py:696-697`).
* An engagement whose URL is older than secrets is delivered to unsigned, as the
  docstring says (`tasks.py:187-189`), until another URL is set or the secret is
  rotated: `Signed` excepts that URL.
* A promotion reads the row and then the other defaults (`admin.py:402`, `409`),
  so one committed in between can leave two defaults or none although "only one
  can be default" (`admin.py:399`): `OneDefault` and `DefaultStays` except
  such races.
* Ticks of the scheduler wait behind scans in the infra queue: a scan whose tool
  never ends holds back every schedule (`docker-compose.yml:134`).
* The heartbeat of a stream, "at most once per 15s" (`findings.py:512`), comes
  whenever the inbox is empty: `get_message` of redis-py does not wait unless
  it is given a timeout. The model lets a heartbeat happen at any time.
* Severity words outside the maps keep their spelling and leave the five levels
  (`parsers.py:59`); testssl's WARN is skipped although the map lists it; MobSF's
  "info" and "secure" become Medium. `CompletedIsWhole` and
  `RescanAddsNothing` hold with and without such words.

## 8. Not modelled

* Request validation, scope matching and the access filter every endpoint
  applies before the steps modelled: predicates without state.
* Dashboard, search, listings and report rendering: read-only.
* The titles, texts and remediation of findings, the event text of the stream,
  the payload of a webhook: data no property depends on.
* Manual findings and analyst notes: their rows have hashes no scanner reports.
* Members of an engagement, logo upload and the editing of a template's texts:
  writes of single rows or columns nothing else reads.
* `scan.sh` and the shared ZAP daemon: shell and Docker; a tool is a step of a
  task that ends or does not.
* `k8s_executor.py`: no process calls it. The MobSF poll is part of the tool step
  of the mobile task.
* Notifications and Jira routers: not part of the application.
* Migrations: applied before the processes start.
* The frontend: it renders what the API answers.
* Login, token expiry and rate limits: a request is modelled from the moment its
  token has been accepted.
