------------------------- MODULE ScheduledDispatch --------------------------
(***************************************************************************)
(* Recurring scans: the beat process sends a tick message every five       *)
(* minutes, a slot of the infra queue runs it (run_scheduled_scans, one    *)
(* transaction for all due schedules), and analysts create, pause,         *)
(* re-interval and delete schedules or delete the whole engagement.        *)
(*                                                                         *)
(* The unit of time is one beat period.  A launch is named by its schedule *)
(* and by the due time (next_run_at) the tick read.  Tasks leave for the   *)
(* broker before the transaction that records their scans commits.  The    *)
(* slots also run the infra, cloud and mobile scans of the same queue, and *)
(* these may take any time.                                                *)
(*                                                                         *)
(* An operator named X_Y is X with a mistake in it: no action uses it.     *)
(***************************************************************************)
EXTENDS Integers, FiniteSets

CONSTANTS
    Schedules,   \* rows of scheduled_scans
    EngOf,       \* the engagement of each schedule
    Intervals,   \* values of interval_hours, in beat periods
    Slots,       \* worker slots that consume the infra queue
    MaxClock,    \* bound: the clock stops there
    MaxQueued,   \* bound: tick messages waiting in the queue
    MaxFaults,   \* bound: worker crashes and failed sends
    MaxEdits,    \* bound: requests of analysts
    NoSchedule, NoSlot

Engagements == {EngOf[s] : s \in Schedules}

ASSUME ScheduledDispatchAssumption ==
    /\ Intervals \subseteq Nat \ {0}
    /\ \E i \in Intervals : \A j \in Intervals : j <= i
    /\ MaxClock \in Nat /\ MaxQueued \in Nat \ {0} /\ MaxFaults \in Nat
    /\ MaxEdits \in Nat
    /\ NoSchedule \notin Schedules /\ NoSlot \notin Slots

Times   == 0 .. MaxClock
Latest  == CHOOSE i \in Intervals : \A j \in Intervals : j <= i
Launches == Schedules \X Times

VARIABLES
    clock,
    faults,    \* crashes and failed sends so far
    edits,     \* requests so far
    queued,    \* tick messages waiting
    busy,      \* slots that run a scan
    engs,      \* engagements that exist
    rows,      \* schedules that exist
    gone,      \* schedules deleted: a name is used once
    enabled, interval, nextRun,    \* their committed columns
    lock,      \* the slot whose open transaction wrote the row
    pc,        \* of each slot: idle, loop, dispatch
    started,   \* the tick's now
    due,       \* schedules its SELECT returned
    todo,      \* those the loop has not reached
    cur,       \* the one it is at
    read,      \* next_run_at and interval of each due schedule, as read
    advanced,  \* schedules given a new next_run_at in the session
    added,     \* scan rows added in the session
    sent,      \* launches whose task was sent in the session
    tasks,     \* tasks sent for each launch: none, one, or 2 for more
    scans,     \* committed scan rows of each launch, counted likewise
    crossed,   \* launches two open ticks had read at once (history)
    lost,      \* launches sent by a tick that did not commit (history)
    stale,     \* schedules whose interval changed while a tick held the
               \* old one, until their next_run_at is written again (history)
    pausedIn   \* slots whose open tick had read the schedule when it was
               \* paused or deleted (history)

columns == <<rows, gone, enabled, interval, nextRun>>
session == <<pc, started, due, todo, cur, read, advanced, added, sent>>
history == <<crossed, lost, stale>>
rest == <<clock, faults, edits, queued, engs, columns, lock, session, tasks, scans, history>>
vars == <<rest, busy, pausedIn>>

Open(k) == pc[k] # "idle"
Unread  == [next |-> 0, every |-> Latest]

(* Some schedules exist already and have become due. *)
Init ==
    /\ clock = 0 /\ faults = 0 /\ edits = 0 /\ queued = 0
    /\ engs = Engagements
    /\ rows \in SUBSET Schedules /\ gone = {}
    /\ enabled = [s \in Schedules |-> s \in rows]
    /\ interval = [s \in Schedules |-> Latest]
    /\ nextRun = [s \in Schedules |-> 0]
    /\ lock = [s \in Schedules |-> NoSlot]
    /\ pc = [k \in Slots |-> "idle"]
    /\ started = [k \in Slots |-> 0]
    /\ due = [k \in Slots |-> {}] /\ todo = [k \in Slots |-> {}]
    /\ cur = [k \in Slots |-> NoSchedule]
    /\ read = [k \in Slots |-> [s \in Schedules |-> Unread]]
    /\ advanced = [k \in Slots |-> {}]
    /\ added = [k \in Slots |-> {}] /\ sent = [k \in Slots |-> {}]
    /\ tasks = [l \in Launches |-> 0] /\ scans = [l \in Launches |-> 0]
    /\ crossed = {} /\ lost = {} /\ stale = {}
    /\ busy = {} /\ pausedIn = [s \in Schedules |-> {}]
-----------------------------------------------------------------------------
(* Analysts.  Their statements wait for a row lock and then write blindly. *)

Free(s) == lock[s] = NoSlot

Create(s, hours, immediately) ==
    /\ s \notin rows \cup gone /\ EngOf[s] \in engs
    /\ rows' = rows \cup {s}
    /\ UNCHANGED gone
    /\ enabled' = [enabled EXCEPT ![s] = TRUE]
    /\ interval' = [interval EXCEPT ![s] = hours]
    /\ nextRun' = [nextRun EXCEPT ![s] = clock + IF immediately THEN 0 ELSE hours]
    /\ UNCHANGED <<clock, faults, queued, engs, lock, session, tasks, scans, history>>

SetEnabled(s, on) ==
    /\ s \in rows /\ Free(s)
    /\ enabled[s] # on
    /\ enabled' = [enabled EXCEPT ![s] = on]
    /\ UNCHANGED <<clock, faults, queued, engs, rows, gone, interval, nextRun, lock,
                   session, tasks, scans, history>>

Anchor_Kept(s, hours) == nextRun[s]
Anchor(s, hours) == clock + hours

(* The open tick k has read an interval of s other than this. *)
ReadOther(k, s, hours) == Open(k) /\ s \in due[k] /\ read[k][s].every # hours

SetInterval(s, hours) ==
    /\ s \in rows /\ Free(s)
    /\ interval' = [interval EXCEPT ![s] = hours]
    /\ nextRun' = [nextRun EXCEPT ![s] = Anchor(s, hours)]
    /\ stale' = IF \E k \in Slots : ReadOther(k, s, hours)
                THEN stale \cup {s} ELSE stale \ {s}
    /\ UNCHANGED <<clock, faults, queued, engs, rows, gone, enabled, lock, session,
                   tasks, scans, crossed, lost>>

Remove(S) ==
    /\ rows' = rows \ S
    /\ gone' = gone \cup S
    /\ enabled' = [s \in Schedules |-> s \notin S /\ enabled[s]]
    /\ interval' = [s \in Schedules |-> IF s \in S THEN Latest ELSE interval[s]]
    /\ nextRun' = [s \in Schedules |-> IF s \in S THEN 0 ELSE nextRun[s]]
    /\ stale' = stale \ S
    /\ UNCHANGED <<clock, faults, queued, lock, session, tasks, scans, crossed, lost>>

Delete(s) ==
    /\ s \in rows /\ Free(s)
    /\ Remove({s})
    /\ UNCHANGED engs

DeleteEngagement_NoCascade(e) ==
    /\ e \in engs
    /\ engs' = engs \ {e}
    /\ UNCHANGED <<clock, faults, queued, columns, lock, session, tasks, scans, history>>

(* An engagement with a scan row still uncommitted cannot be deleted: the  *)
(* new row's foreign key holds it, and the delete then fails.              *)
DeleteEngagement(e) ==
    /\ e \in engs
    /\ \A s \in Schedules : EngOf[s] = e =>
         Free(s) /\ \A k \in Slots : s \notin added[k]
    /\ engs' = engs \ {e}
    /\ Remove({s \in Schedules : EngOf[s] = e})

Edit ==
    \/ \E s \in Schedules, h \in Intervals :
         \/ \E immediately \in BOOLEAN : Create(s, h, immediately)
         \/ SetInterval(s, h)
    \/ \E s \in Schedules : Delete(s) \/ \E on \in BOOLEAN : SetEnabled(s, on)
    \/ \E e \in Engagements : DeleteEngagement(e)

Analyst == edits < MaxEdits /\ edits' = edits + 1 /\ Edit
-----------------------------------------------------------------------------
(* The beat: one message per period; when the clock has reached its bound  *)
(* the beat goes on.                                                       *)
Beat ==
    /\ queued < MaxQueued
    /\ queued' = queued + 1
    /\ clock' = IF clock < MaxClock THEN clock + 1 ELSE clock
    /\ UNCHANGED <<faults, engs, columns, lock, session, tasks, scans, history>>

(* The SELECT of enabled rows whose next_run_at has passed; no row lock. *)
IsDue_Paused(s) == s \in rows /\ nextRun[s] <= clock
IsDue(s) == s \in rows /\ enabled[s] /\ nextRun[s] <= clock

Begin(k) ==
    /\ pc[k] = "idle" /\ k \notin busy /\ queued > 0
    /\ queued' = queued - 1
    /\ pc' = [pc EXCEPT ![k] = "loop"]
    /\ started' = [started EXCEPT ![k] = clock]
    /\ LET batch == {s \in Schedules : IsDue(s)} IN
       /\ due' = [due EXCEPT ![k] = batch]
       /\ todo' = [todo EXCEPT ![k] = batch]
       /\ crossed' = crossed \cup
            {<<s, nextRun[s]>> : s \in {x \in batch : \E j \in Slots \ {k} :
                                                        Open(j) /\ x \in due[j]}}
    /\ read' = [read EXCEPT ![k] = [s \in Schedules |->
         IF IsDue(s) THEN [next |-> nextRun[s], every |-> interval[s]] ELSE Unread]]
    /\ UNCHANGED <<clock, faults, engs, columns, lock, cur, advanced, added, sent,
                   tasks, scans, lost, stale>>

(* Rows written in the session and not yet flushed; the next SELECT or the *)
(* commit flushes them, and waits while another session holds one.         *)
Dirty(k)   == {s \in advanced[k] : lock[s] # k}
Blocked(k) == Open(k) /\ \E s \in Dirty(k) : s \in rows /\ lock[s] # NoSlot
Flushes(k) == /\ ~Blocked(k)
              /\ Dirty(k) \subseteq rows
              /\ lock' = [s \in Schedules |-> IF s \in Dirty(k) THEN k ELSE lock[s]]

(* A released row goes to the session that waits for it. *)
Heir(k, s) ==
    LET waiting == {j \in Slots \ {k} : Open(j) /\ s \in Dirty(j)}
    IN IF waiting = {} THEN NoSlot ELSE CHOOSE j \in waiting : TRUE

End(k) ==
    /\ pc' = [pc EXCEPT ![k] = "idle"]
    /\ lock' = [s \in Schedules |-> IF lock[s] = k THEN Heir(k, s) ELSE lock[s]]
    /\ started' = [started EXCEPT ![k] = 0]
    /\ due' = [due EXCEPT ![k] = {}] /\ todo' = [todo EXCEPT ![k] = {}]
    /\ cur' = [cur EXCEPT ![k] = NoSchedule]
    /\ read' = [read EXCEPT ![k] = [s \in Schedules |-> Unread]]
    /\ advanced' = [advanced EXCEPT ![k] = {}]
    /\ added' = [added EXCEPT ![k] = {}] /\ sent' = [sent EXCEPT ![k] = {}]

LaunchOf(k, s) == <<s, read[k][s].next>>

OneMore(n) == IF n = 0 THEN 1 ELSE 2

Abort(k) ==
    /\ End(k)
    /\ lost' = lost \cup {LaunchOf(k, s) : s \in sent[k]}
    /\ UNCHANGED <<clock, engs, columns, tasks, scans, crossed, stale>>

(* An UPDATE that matches no row raises inside the try of the next         *)
(* schedule; the handler then touches the broken session and raises too.   *)
RowVanished(k) ==
    /\ pc[k] = "loop"
    /\ ~ Dirty(k) \subseteq rows
    /\ Abort(k)
    /\ UNCHANGED <<faults, queued>>

Load(k, s) ==
    /\ pc[k] = "loop" /\ s \in todo[k]
    /\ Flushes(k)
    /\ todo' = [todo EXCEPT ![k] = @ \ {s}]
    /\ IF EngOf[s] \in engs
       THEN /\ cur' = [cur EXCEPT ![k] = s]
            /\ pc' = [pc EXCEPT ![k] = "dispatch"]
       ELSE UNCHANGED <<cur, pc>>
    /\ UNCHANGED <<clock, faults, queued, engs, columns, started, due, read, advanced,
                   added, sent, tasks, scans, history>>

(* db.flush() of the new scan row needs the engagement, for its foreign    *)
(* key; then .delay.                                                       *)
EngagementVanished(k) ==
    /\ pc[k] = "dispatch"
    /\ EngOf[cur[k]] \notin engs
    /\ Abort(k)
    /\ UNCHANGED <<faults, queued>>

(* Both the normal path and the except branch advance next_run_at. *)
Advances_NotOnError(k, failed) == IF failed THEN {} ELSE {cur[k]}
Advances_OnlyOnError(k, failed) == IF failed THEN {cur[k]} ELSE {}
Advances(k, failed) == {cur[k]}

Added_RolledBack(k, failed) == IF failed THEN {} ELSE added[k] \cup {cur[k]}
Added(k, failed) == added[k] \cup {cur[k]}

Record(k, failed) ==
    /\ pc[k] = "dispatch"
    /\ EngOf[cur[k]] \in engs
    /\ added' = [added EXCEPT ![k] = Added(k, failed)]
    /\ advanced' = [advanced EXCEPT ![k] = @ \cup Advances(k, failed)]
    /\ pc' = [pc EXCEPT ![k] = "loop"]
    /\ cur' = [cur EXCEPT ![k] = NoSchedule]
    /\ UNCHANGED <<clock, queued, engs, columns, lock, started, due, todo, read, scans,
                   history>>

Send(k) ==
    /\ Record(k, FALSE)
    /\ tasks' = [tasks EXCEPT ![LaunchOf(k, cur[k])] = OneMore(@)]
    /\ sent' = [sent EXCEPT ![k] = @ \cup {cur[k]}]
    /\ UNCHANGED faults

(* .delay raises: the broker is away.  The scan row stays in the session.  *)
SendFails(k) ==
    /\ Record(k, TRUE)
    /\ faults < MaxFaults
    /\ faults' = faults + 1
    /\ UNCHANGED <<sent, tasks>>

NewNext_Unset(k, s) == read[k][s].next
NewNext(k, s) == started[k] + read[k][s].every

Commit(k) ==
    /\ pc[k] = "loop" /\ todo[k] = {}
    /\ ~Blocked(k)
    /\ Dirty(k) \subseteq rows
    /\ nextRun' = [s \in Schedules |->
                     IF s \in advanced[k] \cap rows THEN NewNext(k, s) ELSE nextRun[s]]
    /\ scans' = [l \in Launches |->
         IF l[1] \in added[k] /\ l = LaunchOf(k, l[1]) THEN OneMore(scans[l])
         ELSE scans[l]]
    /\ stale' = {s \in stale : s \in advanced[k] => \E j \in Slots : ReadOther(j, s, interval[s])}
    /\ End(k)
    /\ UNCHANGED <<clock, faults, queued, engs, rows, gone, enabled, interval, tasks,
                   crossed, lost>>

(* The worker dies: its transaction is rolled back, and the message, not   *)
(* acknowledged, is delivered again (task_acks_late).                      *)
Crash(k) ==
    /\ Open(k) /\ faults < MaxFaults
    /\ faults' = faults + 1
    /\ queued' = queued + 1
    /\ Abort(k)

(* Two ticks that wait for each other: the database aborts one. *)
WaitsFor(k) == {lock[s] : s \in Dirty(k) \cap rows} \ {NoSlot}

DeadlockVictim(k) ==
    /\ Blocked(k)
    /\ \E j \in WaitsFor(k) : Blocked(j) /\ k \in WaitsFor(j)
    /\ Abort(k)
    /\ UNCHANGED <<faults, queued>>
-----------------------------------------------------------------------------
Tick(k) == \/ Begin(k) \/ Send(k) \/ Commit(k)
           \/ RowVanished(k) \/ EngagementVanished(k) \/ DeadlockVictim(k)
           \/ \E s \in Schedules : Load(k, s)

Fault(k) == Crash(k) \/ SendFails(k)

(* A scan of the queue takes a slot, for as long as its tools run. *)
OtherTask(k) ==
    /\ pc[k] = "idle"
    /\ busy' = IF k \in busy THEN busy \ {k} ELSE busy \cup {k}
    /\ UNCHANGED rest

Track ==
    pausedIn' = [s \in Schedules |->
        {k \in Slots : s \in due'[k]} \cap
        IF enabled[s] /\ ~enabled'[s] THEN Slots ELSE pausedIn[s]]

Next == /\ \/ Analyst /\ UNCHANGED busy
           \/ UNCHANGED <<edits, busy>> /\ (Beat \/ \E k \in Slots : Tick(k) \/ Fault(k))
           \/ \E k \in Slots : OtherTask(k)
        /\ Track

Spec == Init /\ [][Next]_vars

(* The beat keeps sending and a slot at work on a tick goes on with it.    *)
(* The queue is first in first out: a slot that is free again and again    *)
(* comes to the tick's message.  Nobody has to edit schedules, nothing has *)
(* to fail, and no scan has to end.                                        *)
FairSpec ==
    /\ Spec
    /\ WF_vars(Beat /\ UNCHANGED <<edits, busy>> /\ Track)
    /\ \A k \in Slots :
         /\ WF_vars(Open(k) /\ Tick(k) /\ UNCHANGED <<edits, busy>> /\ Track)
         /\ SF_vars(Begin(k) /\ UNCHANGED <<edits, busy>> /\ Track)
-----------------------------------------------------------------------------
RestTypeOK ==
    /\ clock \in Times /\ faults \in 0 .. MaxFaults /\ edits \in 0 .. MaxEdits
    /\ queued \in 0 .. MaxQueued + MaxFaults
    /\ engs \subseteq Engagements /\ rows \subseteq Schedules /\ gone \subseteq Schedules \ rows
    /\ enabled \in [Schedules -> BOOLEAN]
    /\ interval \in [Schedules -> Intervals]
    /\ nextRun \in [Schedules -> Nat]
    /\ lock \in [Schedules -> Slots \cup {NoSlot}]
    /\ pc \in [Slots -> {"idle", "loop", "dispatch"}]
    /\ started \in [Slots -> Times]
    /\ due \in [Slots -> SUBSET Schedules]
    /\ todo \in [Slots -> SUBSET Schedules]
    /\ cur \in [Slots -> Schedules \cup {NoSchedule}]
    /\ read \in [Slots -> [Schedules -> [next : Nat, every : Intervals]]]
    /\ advanced \in [Slots -> SUBSET Schedules]
    /\ added \in [Slots -> SUBSET Schedules]
    /\ sent \in [Slots -> SUBSET Schedules]
    /\ tasks \in [Launches -> 0 .. 2] /\ scans \in [Launches -> 0 .. 2]
    /\ crossed \subseteq Launches /\ lost \subseteq Launches
    /\ stale \subseteq Schedules
    /\ \A s \in Schedules : s \in rows => EngOf[s] \in engs

TypeOK ==
    /\ RestTypeOK
    /\ busy \subseteq Slots /\ pausedIn \in [Schedules -> SUBSET Slots]

(* A due time launches a scan once: a second task for it is sent only if   *)
(* the first was sent by a tick that failed to commit, or two slots ran    *)
(* ticks at once; a second scan row needs the latter.                      *)
FiredOnce ==
    \A l \in Launches :
        /\ tasks[l] > 1 => l \in lost \cup crossed
        /\ scans[l] > 1 => l \in crossed

(* A task whose scan row never comes into being was sent by a tick that    *)
(* is still open or did not commit.                                        *)
TasksRecorded ==
    \A l \in Launches :
        tasks[l] > scans[l] =>
            \/ l \in lost
            \/ \E k \in Slots : l[1] \in sent[k] /\ LaunchOf(k, l[1]) = l

(* A tick that commits leaves no schedule of its batch due, those that     *)
(* failed to dispatch included: a broken schedule is not retried at every  *)
(* beat (the except branch of run_scheduled_scans).                        *)
AdvanceStep ==
    \A k \in Slots : pc[k] = "loop" /\ pc'[k] = "idle" /\ scans' # scans =>
        \A s \in due[k] \cap rows : EngOf[s] \in engs => nextRun'[s] > started[k]

Advance == [][AdvanceStep]_vars

(* A schedule that is paused or deleted launches nothing but what a tick   *)
(* had read that was open then: not the ticks queued behind it, and not    *)
(* that tick's message if it is delivered again (run_scheduled_scans reads *)
(* enabled once per tick).                                                 *)
PauseStep ==
    \A k \in Slots : \A s \in sent'[k] \ sent[k] : enabled[s] \/ k \in pausedIn[s]

PauseHolds == [][PauseStep]_vars

(* The next run is at most one interval away: a shorter interval takes     *)
(* effect from now (update_scheduled_scan), unless a tick that had read    *)
(* the longer one commits after the change.                                *)
WithinInterval ==
    \A s \in rows : nextRun[s] <= clock + interval[s] \/ s \in stale

(* What is due stops being due: it is launched, or paused, moved or        *)
(* deleted, however many ticks fail before, if scans do not hold all slots *)
(* of the infra queue for ever.                                            *)
SlotsFree == []<>(busy # Slots)

DueHandled == SlotsFree => \A s \in Schedules : IsDue(s) ~> ~IsDue(s)
=============================================================================
