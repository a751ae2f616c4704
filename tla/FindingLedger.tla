---------------------------- MODULE FindingLedger ---------------------------
(***************************************************************************)
(* What a parse promises to those who read the findings, without lookups,  *)
(* row locks and flushes: it takes effect all at once, when it commits, as *)
(* if it had then looked at every row, except for three things it may      *)
(* miss: rows that attempts it overlapped with have stored, verdicts given *)
(* while it ran, and the rest of what a lenient tool reported.             *)
(***************************************************************************)
EXTENDS Functions

CONSTANTS Hashes, Attempts, Report, ToolOf, Lenient, Verdicts

Rows == Hashes \X Attempts

VARIABLES
    ledger,  \* status of each row, "none" if there is none
    phase,   \* of each attempt: idle, parsing, committed or raised
    judged,  \* rows that got a verdict while it is parsing
    past,    \* attempts that had committed when it began
    cut      \* tools it has left off

vars == <<ledger, phase, judged, past, cut>>

Init ==
    /\ ledger = [r \in Rows |-> "none"]
    /\ phase = [a \in Attempts |-> "idle"]
    /\ judged = [a \in Attempts |-> {}]
    /\ past = [a \in Attempts |-> {}]
    /\ cut = [a \in Attempts |-> {}]
-----------------------------------------------------------------------------
Begin(a) ==
    /\ phase[a] = "idle"
    /\ phase' = [phase EXCEPT ![a] = "parsing"]
    /\ past' = [past EXCEPT ![a] = {b \in Attempts : phase[b] = "committed"}]
    /\ UNCHANGED <<ledger, judged, cut>>

(* It may leave off what is left of a lenient tool's report. *)
LeaveOff(a) ==
    /\ phase[a] = "parsing"
    /\ \E t \in Lenient : cut' = [cut EXCEPT ![a] = @ \cup {t}]
    /\ UNCHANGED <<ledger, phase, judged, past>>

Reports(a, r) == r[1] \in Range(Report[a])

(* A new row stands for a reported hash that had none when a began. *)
MayAdd(a, r) ==
    /\ r[2] = a /\ ledger[r] = "none" /\ Reports(a, r)
    /\ \A q \in Rows : q[1] = r[1] /\ ledger[q] # "none" => q[2] \notin past[a]

MayReopen(a, r) ==
    /\ ledger[r] # "none" /\ Reports(a, r)
    /\ ledger[r] = "Fixed" \/ r \in judged[a]

Store(a) ==
    /\ phase[a] = "parsing"
    /\ phase' = [phase EXCEPT ![a] = "committed"]
    /\ ledger' \in [Rows -> {ledger[r] : r \in Rows} \cup {"Open"}]
    /\ \A r \in Rows : ledger'[r] # ledger[r] =>
         ledger'[r] = "Open" /\ (MayAdd(a, r) \/ MayReopen(a, r))
    /\ \A h \in Range(Report[a]) : ToolOf[h] \notin cut[a] =>
         \E r \in Rows : r[1] = h /\ ledger'[r] # "none"
    /\ \A r \in Rows : Reports(a, r) /\ ledger'[r] = "Fixed" =>
         r \in judged[a] \/ ToolOf[r[1]] \in cut[a]
    /\ judged' = [judged EXCEPT ![a] = {}]
    /\ UNCHANGED <<past, cut>>

GiveUp(a) ==
    /\ phase[a] = "parsing"
    /\ phase' = [phase EXCEPT ![a] = "raised"]
    /\ judged' = [judged EXCEPT ![a] = {}]
    /\ UNCHANGED <<ledger, past, cut>>

OnRecord == {r \in Rows : ledger[r] # "none"}

(* Analysts set the status of existing rows, at any time. *)
Judge(rows, v) ==
    /\ UNCHANGED <<phase, past, cut>>
    /\ ledger' = [r \in Rows |-> IF r \in rows THEN v ELSE ledger[r]]
    /\ judged' = [a \in Attempts |->
         IF phase[a] = "parsing" THEN judged[a] \cup rows ELSE judged[a]]
-----------------------------------------------------------------------------
Next ==
    \/ \E a \in Attempts : Begin(a) \/ LeaveOff(a) \/ Store(a) \/ GiveUp(a)
    \/ \E v \in Verdicts :
         \E rows \in SUBSET {r \in OnRecord : ledger'[r] = v} : Judge(rows, v)

Spec == Init /\ [][Next]_vars
=============================================================================
