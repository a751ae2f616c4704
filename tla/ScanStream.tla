----------------------------- MODULE ScanStream -----------------------------
(***************************************************************************)
(* The progress stream of one scan.  Its worker publishes log lines to a   *)
(* Redis channel and appends them to a Redis list, commits the scan's      *)
(* status and publishes it on a second channel; API requests and startup   *)
(* recovery change the status without publishing.  Each viewer replays the *)
(* list, checks the status, subscribes to both channels and then forwards  *)
(* what arrives, reading the status again whenever nothing has.            *)
(*                                                                         *)
(* Lines are numbered as the worker says them.  An operator named X_Y is X *)
(* with a mistake in it: no action uses it.                                *)
(***************************************************************************)
EXTENDS Integers, Sequences, Functions

CONSTANTS
    Viewers,
    MaxLines,  \* bound: log lines
    MaxFaults  \* bound: Redis and database errors, lost connections, crashes,
               \* recoveries and deletions

ASSUME ScanStreamAssumption == MaxLines \in Nat /\ MaxFaults \in Nat

Terminal == {"Completed", "Failed", "Cancelled"}
Active   == {"Queued", "Running"}

VARIABLES
    db,        \* the scan's status, "absent" once deleted
    wpc,       \* worker: queued, announcing, working, pushing, ended, done
    note,      \* the status it publishes next
    failing,   \* its attempt to write or tell Completed raised
    said,      \* lines said so far
    log,       \* the Redis list
    cancel,    \* a cancel request has checked the status
    vpc,       \* viewer: off, open, replayed, checked, live, beating, ended
    inbox,     \* messages on their way to it
    shown,     \* lines it has shown
    verdict,   \* the status or reason of its end event
    faults,
    raced,     \* a status write replaced a terminal status (history)
    logged,    \* the list when it was replayed (history)
    since,     \* lines said when it replayed, then when it subscribed (history)
    unsaid     \* lines that never reached the channel (history)

worker  == <<wpc, note, failing, said, log>>
viewer  == <<vpc, inbox, shown, verdict>>
history == <<logged, since>>
vars    == <<db, worker, cancel, viewer, faults, raced, history, unsaid>>

Line(n)   == [line |-> n, status |-> "none"]
Signal(s) == [line |-> 0, status |-> s]

Init ==
    /\ db = "Queued"
    /\ wpc = "queued" /\ note = "none" /\ failing = FALSE
    /\ said = 0 /\ log = <<>>
    /\ cancel = FALSE
    /\ vpc = [v \in Viewers |-> "off"]
    /\ inbox = [v \in Viewers |-> <<>>]
    /\ shown = [v \in Viewers |-> <<>>]
    /\ verdict = [v \in Viewers |-> "none"]
    /\ faults = 0 /\ raced = FALSE
    /\ logged = [v \in Viewers |-> {}]
    /\ since = [v \in Viewers |-> 0]
    /\ unsaid = {}

Hears_FromStart(v) == vpc[v] \notin {"off", "ended"}
Hears(v) == vpc[v] \in {"live", "beating"}

Publish(msg) ==
    inbox' = [v \in Viewers |-> IF Hears(v) THEN Append(inbox[v], msg) ELSE inbox[v]]

Fault == faults < MaxFaults /\ faults' = faults + 1
-----------------------------------------------------------------------------
(* _update_scan_status: the commit comes first, the publish later.  A row  *)
(* that is gone is neither written nor announced.                          *)
WriteStatus(s) ==
    IF db = "absent" THEN UNCHANGED <<db, note, raced>>
    ELSE /\ db' = s /\ note' = s
         /\ raced' = (raced \/ db \in Terminal)

Begin ==
    /\ wpc = "queued"
    /\ WriteStatus("Running")
    /\ wpc' = IF db = "absent" THEN "working" ELSE "announcing"
    /\ UNCHANGED <<failing, said, log, cancel, viewer, faults, history, unsaid>>

Finish(s) ==
    /\ wpc = "working" /\ (failing => s = "Failed")
    /\ WriteStatus(s)
    /\ wpc' = IF db = "absent" THEN "done" ELSE "announcing"
    /\ UNCHANGED <<failing, said, log, cancel, viewer, faults, history, unsaid>>

FinishFails_Announced ==
    /\ wpc = "working" /\ db # "absent" /\ ~failing
    /\ Fault
    /\ failing' = TRUE
    /\ Publish(Signal("Completed"))
    /\ UNCHANGED <<db, wpc, note, said, log, cancel, vpc, shown, verdict, raced, history, unsaid>>

(* The write of Completed raises: the except clause writes Failed.  When   *)
(* that raises too, the attempt is over.                                   *)
FinishFails ==
    /\ wpc = "working" /\ db # "absent"
    /\ Fault
    /\ failing' = TRUE
    /\ wpc' = IF failing THEN "done" ELSE "working"
    /\ UNCHANGED <<db, note, said, log, cancel, viewer, raced, history, unsaid>>

(* Completed is followed by the webhook and a last line, Failed by none.   *)
AfterNote ==
    CASE note = "Running" -> "working" [] note = "Completed" -> "ended" [] OTHER -> "done"

Announce ==
    /\ wpc = "announcing"
    /\ Publish(Signal(note))
    /\ wpc' = AfterNote /\ note' = "none"
    /\ UNCHANGED <<db, failing, said, log, cancel, vpc, shown, verdict, faults, raced, history, unsaid>>

AnnounceFails ==
    /\ wpc = "announcing"
    /\ Fault
    /\ wpc' = AfterNote /\ note' = "none"
    /\ UNCHANGED <<db, failing, said, log, cancel, viewer, raced, history, unsaid>>

(* Recording the delivery of the webhook raises within the try: the except *)
(* clause replaces Completed by Failed.                                    *)
RecordFails ==
    /\ wpc = "ended"
    /\ Fault
    /\ failing' = TRUE
    /\ wpc' = "working"
    /\ UNCHANGED <<db, note, said, log, cancel, viewer, raced, history, unsaid>>

(* publish_progress: PUBLISH, then RPUSH; an error skips what is left.     *)
(* The line "Complete." follows the status.                                *)
Say ==
    /\ wpc \in {"working", "ended"} /\ said < MaxLines
    /\ said' = said + 1
    /\ Publish(Line(said + 1))
    /\ wpc' = IF wpc = "ended" THEN "pushing last" ELSE "pushing"
    /\ UNCHANGED <<db, note, failing, log, cancel, vpc, shown, verdict, faults, raced, history, unsaid>>

AfterLine == IF wpc = "pushing last" THEN "done" ELSE "working"

SayFails ==
    /\ wpc \in {"working", "ended"} /\ said < MaxLines
    /\ Fault
    /\ said' = said + 1
    /\ unsaid' = unsaid \cup {said + 1}
    /\ wpc' = IF wpc = "ended" THEN "done" ELSE "working"
    /\ UNCHANGED <<db, note, failing, log, cancel, viewer, raced, history>>

Push ==
    /\ wpc \in {"pushing", "pushing last"}
    /\ log' = Append(log, said)
    /\ wpc' = AfterLine
    /\ UNCHANGED <<db, note, failing, said, cancel, viewer, faults, raced, history, unsaid>>

PushFails ==
    /\ wpc \in {"pushing", "pushing last"}
    /\ Fault
    /\ wpc' = AfterLine
    /\ UNCHANGED <<db, note, failing, said, log, cancel, viewer, raced, history, unsaid>>

(* A revoke terminates the attempt, or it dies. *)
Stop ==
    /\ wpc # "done"
    /\ IF cancel \/ db = "Cancelled" THEN UNCHANGED faults ELSE Fault
    /\ wpc' = "done" /\ note' = "none"
    /\ UNCHANGED <<db, failing, said, log, cancel, viewer, raced, history, unsaid>>
-----------------------------------------------------------------------------
CancelCheck ==
    /\ ~cancel /\ db \in Active
    /\ cancel' = TRUE
    /\ UNCHANGED <<db, worker, viewer, faults, raced, history, unsaid>>

(* The UPDATE of a deleted row fails the request. *)
CancelCommit ==
    /\ cancel
    /\ cancel' = FALSE
    /\ IF db = "absent" THEN UNCHANGED <<db, raced>>
       ELSE db' = "Cancelled" /\ raced' = (raced \/ db \in Terminal)
    /\ UNCHANGED <<worker, viewer, faults, history, unsaid>>

(* The recovery of a starting API process. *)
Recover ==
    /\ db = "Running"
    /\ Fault
    /\ db' = "Failed"
    /\ UNCHANGED <<worker, cancel, viewer, raced, history, unsaid>>

DeleteEngagement ==
    /\ db # "absent"
    /\ Fault
    /\ db' = "absent"
    /\ UNCHANGED <<worker, cancel, viewer, raced, history, unsaid>>
-----------------------------------------------------------------------------
(* scan_stream: the request checks that the scan exists. *)
Open(v) ==
    /\ vpc[v] = "off" /\ db # "absent"
    /\ vpc' = [vpc EXCEPT ![v] = "open"]
    /\ UNCHANGED <<db, worker, cancel, inbox, shown, verdict, faults, raced, history, unsaid>>

Buffered_ButLast == SubSeq(log, 1, Len(log) - 1)
Buffered == log

Replay(v) ==
    /\ vpc[v] = "open"
    /\ shown' = [shown EXCEPT ![v] = Buffered]
    /\ logged' = [logged EXCEPT ![v] = Range(log)]
    /\ since' = [since EXCEPT ![v] = said]
    /\ vpc' = [vpc EXCEPT ![v] = "replayed"]
    /\ UNCHANGED <<db, worker, cancel, inbox, verdict, faults, raced, unsaid>>

End(v, word) ==
    /\ vpc' = [vpc EXCEPT ![v] = "ended"]
    /\ verdict' = [verdict EXCEPT ![v] = word]
    /\ inbox' = [inbox EXCEPT ![v] = <<>>]

CheckStatus(v) ==
    /\ vpc[v] = "replayed"
    /\ IF db \in Terminal THEN End(v, db)
       ELSE vpc' = [vpc EXCEPT ![v] = "checked"] /\ UNCHANGED <<inbox, verdict>>
    /\ UNCHANGED <<db, worker, cancel, shown, faults, raced, history, unsaid>>

Subscribe(v) ==
    /\ vpc[v] = "checked"
    /\ vpc' = [vpc EXCEPT ![v] = "live"]
    /\ since' = [since EXCEPT ![v] = said]
    /\ UNCHANGED <<db, worker, cancel, inbox, shown, verdict, faults, raced, logged, unsaid>>

Receive(v) ==
    /\ vpc[v] = "live" /\ inbox[v] # <<>>
    /\ LET msg == Head(inbox[v]) IN
       IF msg.status \in Terminal
       THEN End(v, msg.status) /\ UNCHANGED shown
       ELSE /\ inbox' = [inbox EXCEPT ![v] = Tail(@)]
            /\ shown' = IF msg.line = 0 THEN shown
                        ELSE [shown EXCEPT ![v] = Append(@, msg.line)]
            /\ UNCHANGED <<vpc, verdict>>
    /\ UNCHANGED <<db, worker, cancel, faults, raced, history, unsaid>>

(* get_message returns None: what is in the inbox has not arrived yet.     *)
Heartbeat(v) ==
    /\ vpc[v] = "live"
    /\ vpc' = [vpc EXCEPT ![v] = "beating"]
    /\ UNCHANGED <<db, worker, cancel, inbox, shown, verdict, faults, raced, history, unsaid>>

Recheck_Never(v) ==
    /\ vpc[v] = "beating"
    /\ vpc' = [vpc EXCEPT ![v] = "live"]
    /\ UNCHANGED <<db, worker, cancel, inbox, shown, verdict, faults, raced, history, unsaid>>

Recheck(v) ==
    /\ vpc[v] = "beating"
    /\ IF db \in Terminal THEN End(v, db)
       ELSE vpc' = [vpc EXCEPT ![v] = "live"] /\ UNCHANGED <<inbox, verdict>>
    /\ UNCHANGED <<db, worker, cancel, shown, faults, raced, history, unsaid>>

(* The ceiling of two hours, reached only while the scan is not terminal:  *)
(* a stream whose scan is terminal has had heartbeats by then.             *)
Timeout(v) ==
    /\ vpc[v] = "live" /\ db \notin Terminal
    /\ End(v, "Timeout")
    /\ UNCHANGED <<db, worker, cancel, shown, faults, raced, history, unsaid>>

(* The viewer leaves, or its Redis or database connection fails. *)
Disconnect(v) ==
    /\ vpc[v] \notin {"off", "ended"}
    /\ Fault
    /\ End(v, "error")
    /\ UNCHANGED <<db, worker, cancel, shown, raced, history, unsaid>>
-----------------------------------------------------------------------------
Work == Begin \/ Announce \/ AnnounceFails \/ Say \/ SayFails \/ Push \/ PushFails
        \/ FinishFails \/ RecordFails \/ Stop \/ \E s \in {"Completed", "Failed"} : Finish(s)

Stream(v) == Replay(v) \/ CheckStatus(v) \/ Subscribe(v) \/ Receive(v)
             \/ Heartbeat(v) \/ Recheck(v)

Next ==
    \/ Work
    \/ CancelCheck \/ CancelCommit \/ Recover \/ DeleteEngagement
    \/ \E v \in Viewers : Open(v) \/ Stream(v) \/ Timeout(v) \/ Disconnect(v)

Spec == Init /\ [][Next]_vars

(* The event loop keeps running its streams; the clock passes a stream's   *)
(* deadline, and every round of its loop compares them.  Nothing is        *)
(* assumed of the worker.                                                  *)
FairSpec == Spec /\ \A v \in Viewers : WF_vars(Stream(v)) /\ SF_vars(Timeout(v))
-----------------------------------------------------------------------------
Message == [line : Nat, status : Terminal \cup {"none", "Running"}]

TypeOK ==
    /\ db \in Terminal \cup Active \cup {"absent"}
    /\ wpc \in {"queued", "announcing", "working", "pushing", "ended", "pushing last", "done"}
    /\ note \in Terminal \cup {"Running", "none"}
    /\ failing \in BOOLEAN /\ cancel \in BOOLEAN /\ raced \in BOOLEAN
    /\ said \in 0 .. MaxLines /\ log \in Seq(Nat) /\ unsaid \subseteq Nat
    /\ vpc \in [Viewers -> {"off", "open", "replayed", "checked", "live", "beating", "ended"}]
    /\ inbox \in [Viewers -> Seq(Message)]
    /\ shown \in [Viewers -> Seq(Nat)]
    /\ verdict \in [Viewers -> Terminal \cup {"none", "Timeout", "error"}]
    /\ logged \in [Viewers -> SUBSET Nat]
    /\ since \in [Viewers -> Nat]
    /\ faults \in 0 .. MaxFaults

(* A viewer shows each line once and in order: replay and live part do not *)
(* overlap (publish_progress publishes before it appends, scan_stream      *)
(* replays before it subscribes).                                          *)
OnceInOrder ==
    \A v \in Viewers : \A i, j \in DOMAIN shown[v] : i < j => shown[v][i] < shown[v][j]

(* A line missing before one that is shown was said before the viewer      *)
(* subscribed and had not been appended when it replayed, or never reached *)
(* the channel: once live, a stream loses nothing in the middle.           *)
LostOnlyInGap ==
    \A v \in Viewers : \A l \in Range(shown[v]) :
        \A n \in 1 .. l : n \in Range(shown[v]) \/ n \in unsaid \/ n \in (1 .. since[v]) \ logged[v]

(* The status a stream ends with is durable: it is what the database holds *)
(* from then on, unless a write replaces a terminal status                 *)
(* (_update_scan_status, cancel_scan) or the scan is deleted.              *)
EndsWithTruth ==
    \A v \in Viewers : verdict[v] \in Terminal => verdict[v] = db \/ raced \/ db = "absent"

(* Every stream ends, and once the scan's status is terminal it ends       *)
(* without its deadline, though the signal was lost or never sent.         *)
StreamsEnd == \A v \in Viewers : vpc[v] # "off" ~> vpc[v] = "ended"
=============================================================================
