---------------------------- MODULE FindingDedup ---------------------------
(***************************************************************************)
(* The findings of one engagement: attempts of scans that parse their      *)
(* tools' output in one READ COMMITTED transaction each (_parse_*_findings *)
(* calling _upsert_finding per reported finding), and analysts who set     *)
(* statuses, of one finding or of several in one UPDATE.  No unique        *)
(* constraint backs the dedup hash, so what one session reads may be stale *)
(* when it writes.                                                         *)
(*                                                                         *)
(* A row is named by its hash and the attempt that inserted it; within a   *)
(* session a second report of a hash finds the first one's row.            *)
(*                                                                         *)
(* An operator named X_Y is X with a mistake in it: no action uses it.     *)
(***************************************************************************)
EXTENDS Integers, Sequences, FiniteSets, Functions

CONSTANTS
    Hashes,     \* dedup hashes: sha256 of tool, name and location
    Attempts,   \* attempts that reach their parse step
    ScanOf,     \* the scan each attempt runs
    Report,     \* the hashes its parsers yield, in order
    ToolOf,     \* the tool of a hash
    Lenient,    \* tools of cloud and mobile scans, whose loop catches errors
    Analysts,   \* requests of bulk_update_findings open at once
    MaxBulk,    \* most findings a bulk update names
    Verdicts,   \* statuses the analysts use
    NoRow, NoOne

Statuses == {"Open", "Confirmed", "False Positive", "Fixed", "Accepted Risk"}

ASSUME FindingDedupAssumption ==
    /\ IsFiniteSet(Attempts) /\ IsFiniteSet(Analysts)
    /\ Report \in [Attempts -> Seq(Hashes)]
    /\ DOMAIN ToolOf = Hashes
    /\ MaxBulk \in Nat
    /\ Verdicts \subseteq Statuses
    /\ NoRow \notin Hashes \X Attempts
    /\ Attempts \cap Analysts = {}
    /\ NoOne \notin Attempts \cup Analysts

Rows == Hashes \X Attempts

Sessions == Attempts \cup Analysts

VARIABLES
    status,  \* committed status of each row, "none" before its insert commits
    lock,    \* the session that updated the row and has not committed
    pc,      \* idle, parsing, committed or raised
    next,    \* index of the next reported finding
    mine,    \* hashes the session has inserted
    dirty,   \* the row whose UPDATE waits for the next flush
    reopen,  \* rows the session sets to Open
    plan,    \* rows a bulk update writes, in the order it reaches them
    visited, \* how many of them it has updated
    verdict, \* the status it writes
    cut,     \* tools whose report was left off after an error (history)
    touched, \* rows that got a verdict while the session is open (history)
    before   \* attempts that had committed when the session began (history)

session == <<pc, next, mine, dirty, reopen, cut>>
bulk    == <<plan, visited, verdict>>
vars    == <<status, lock, session, bulk, touched, before>>

Parsing(a) == pc[a] = "parsing"

Init ==
    /\ status = [r \in Rows |-> "none"]
    /\ lock = [r \in Rows |-> NoOne]
    /\ pc = [a \in Attempts |-> "idle"]
    /\ next = [a \in Attempts |-> 1]
    /\ mine = [a \in Attempts |-> {}]
    /\ dirty = [a \in Attempts |-> NoRow]
    /\ reopen = [a \in Attempts |-> {}]
    /\ plan = [b \in Analysts |-> <<>>]
    /\ visited = [b \in Analysts |-> 0]
    /\ verdict = [b \in Analysts |-> "none"]
    /\ cut = [a \in Attempts |-> {}]
    /\ touched = [a \in Attempts |-> {}]
    /\ before = [a \in Attempts |-> {}]
-----------------------------------------------------------------------------
BeginParse(a) ==
    /\ pc[a] = "idle"
    /\ pc' = [pc EXCEPT ![a] = "parsing"]
    /\ before' = [before EXCEPT ![a] = {b \in Attempts : pc[b] = "committed"}]
    /\ UNCHANGED <<status, lock, next, mine, dirty, reopen, cut, bulk, touched>>

Visible_Uncommitted(a, h) ==
    {r \in Rows : r[1] = h /\ (status[r] # "none" \/ h \in mine[r[2]])}

(* What the lookup of _upsert_finding returns: committed rows of the hash  *)
(* and the session's own insert.                                           *)
Visible(a, h) ==
    {r \in Rows : r[1] = h /\ (status[r] # "none" \/ (r[2] = a /\ h \in mine[a]))}

Current_AnyOrder(a) ==
    Report[a][IF Len(Report[a]) = 2 THEN 3 - next[a] ELSE next[a]]

Current(a) == Report[a][next[a]]

Reporting(a) ==
    /\ Parsing(a)
    /\ dirty[a] = NoRow        \* the SELECT flushed first (autoflush)
    /\ next[a] <= Len(Report[a])

Insert_Commits(a) ==
    /\ Reporting(a)
    /\ Visible(a, Current(a)) = {}
    /\ status' = [status EXCEPT ![<<Current(a), a>>] = "Open"]
    /\ next' = [next EXCEPT ![a] = @ + 1]
    /\ UNCHANGED <<lock, pc, mine, dirty, reopen, cut, bulk, touched, before>>

Insert_Unchecked(a) ==
    /\ Reporting(a)
    /\ Current(a) \notin mine[a]
    /\ mine' = [mine EXCEPT ![a] = @ \cup {Current(a)}]
    /\ next' = [next EXCEPT ![a] = @ + 1]
    /\ UNCHANGED <<status, lock, pc, dirty, reopen, cut, bulk, touched, before>>

(* Nothing found: the row is added and flushed, unseen by other sessions.  *)
Insert(a) ==
    /\ Reporting(a)
    /\ Visible(a, Current(a)) = {}
    /\ mine' = [mine EXCEPT ![a] = @ \cup {Current(a)}]
    /\ next' = [next EXCEPT ![a] = @ + 1]
    /\ UNCHANGED <<status, lock, pc, dirty, reopen, cut, bulk, touched, before>>

(* One row found.  Nothing keeps the objects of earlier reports alive, so  *)
(* the lookup loads the row again, the session's own writes included.      *)
SeenAs(a, r) ==
    IF r \in reopen[a] \/ (r[2] = a /\ r[1] \in mine[a]) THEN "Open" ELSE status[r]

ShouldReopen_Never(s)  == FALSE
ShouldReopen_Always(s) == s # "Open"
ShouldReopen(s) == s = "Fixed"

Observe(a) ==
    /\ Reporting(a)
    /\ \E r \in Rows :
         /\ Visible(a, Current(a)) = {r}
         /\ reopen' = [reopen EXCEPT ![a] =
              IF ShouldReopen(SeenAs(a, r)) THEN @ \cup {r} ELSE @]
         /\ dirty' = [dirty EXCEPT ![a] = IF r[1] \in mine[a] THEN NoRow ELSE r]
    /\ next' = [next EXCEPT ![a] = @ + 1]
    /\ UNCHANGED <<status, lock, pc, mine, cut, bulk, touched, before>>

(* An UPDATE takes the row lock, or waits for its holder to end. *)
Wants(s) == IF s \in Attempts THEN dirty[s] ELSE plan[s][visited[s] + 1]

Updating(s) ==
    \/ s \in Attempts /\ Parsing(s) /\ dirty[s] # NoRow
    \/ s \in Analysts /\ visited[s] < Len(plan[s])

Blocked(s)  == Updating(s) /\ lock[Wants(s)] \notin {NoOne, s}
WaitsFor(s) == lock[Wants(s)]

TakeLock(s) ==
    /\ Updating(s)
    /\ ~Blocked(s)
    /\ lock' = [lock EXCEPT ![Wants(s)] = s]

Flush(a) ==
    /\ TakeLock(a)
    /\ dirty' = [dirty EXCEPT ![a] = NoRow]
    /\ UNCHANGED <<status, pc, next, mine, reopen, cut, bulk, touched, before>>

Release_Leaks(s) == UNCHANGED lock
Release(s) == lock' = [r \in Rows |-> IF lock[r] = s THEN NoOne ELSE lock[r]]

EndSession(a, outcome) ==
    /\ Release(a)
    /\ pc' = [pc EXCEPT ![a] = outcome]
    /\ next' = [next EXCEPT ![a] = 1]
    /\ mine' = [mine EXCEPT ![a] = {}]
    /\ dirty' = [dirty EXCEPT ![a] = NoRow]
    /\ reopen' = [reopen EXCEPT ![a] = {}]
    /\ touched' = [touched EXCEPT ![a] = {}]
    /\ UNCHANGED <<cut, bulk, before>>

Commit(a) ==
    /\ Parsing(a)
    /\ dirty[a] = NoRow
    /\ next[a] > Len(Report[a])
    /\ status' = [r \in Rows |->
         IF r \in reopen[a] \/ (r[2] = a /\ r[1] \in mine[a])
         THEN "Open" ELSE status[r]]
    /\ EndSession(a, "committed")

Rollback(a) == EndSession(a, "raised") /\ UNCHANGED status

Tool(a, i) == ToolOf[Report[a][i]]

(* The loop of a cloud or mobile scan catches the error and goes on with   *)
(* its next tool, in the same session.                                     *)
NextTool(a) ==
    /\ \E j \in next[a] + 1 .. Len(Report[a]) + 1 :
         /\ \A i \in next[a] .. j - 1 : Tool(a, i) = Tool(a, next[a])
         /\ j <= Len(Report[a]) => Tool(a, j) # Tool(a, next[a])
         /\ next' = [next EXCEPT ![a] = j]
    /\ cut' = [cut EXCEPT ![a] = @ \cup {Tool(a, next[a])}]
    /\ UNCHANGED <<status, lock, pc, mine, dirty, reopen, bulk, touched, before>>

Fails(a) == IF Tool(a, next[a]) \in Lenient THEN NextTool(a) ELSE Rollback(a)

(* scalar_one_or_none raises on two rows of a hash. *)
MultipleResults(a) ==
    /\ Reporting(a)
    /\ Cardinality(Visible(a, Current(a))) > 1
    /\ Fails(a)

(* A parser raises on what the tool wrote, between two findings. *)
ParserRaises(a) == Reporting(a) /\ Fails(a)

(* Sessions that wait for each other in a circle: the database aborts one, *)
(* with all it wrote, and its later statements and its commit fail too.    *)
Circle(C) == (\A c \in C : Blocked(c)) /\ {WaitsFor(c) : c \in C} = C

Deadlocked(s) == \E C \in SUBSET Sessions : s \in C /\ Circle(C)

DeadlockVictim(a) == Deadlocked(a) /\ Rollback(a)

Judged(rows) ==
    touched' = [a \in Attempts |->
        IF Parsing(a) THEN touched[a] \cup rows ELSE touched[a]]

(* update_finding writes one row blindly, once no session holds it. *)
UpdateFinding(r, v) ==
    /\ status[r] # "none" /\ lock[r] = NoOne
    /\ status' = [status EXCEPT ![r] = v]
    /\ Judged({r})
    /\ UNCHANGED <<lock, session, bulk, before>>

(* bulk_update_findings names rows and a status.  Its UPDATE ... IN goes   *)
(* through the rows in an order of the database's choice.                  *)
BulkBegin(b, v) ==
    /\ plan[b] = <<>>
    /\ \E n \in 2 .. MaxBulk : \E rows \in [1 .. n -> {r \in Rows : status[r] # "none"}] :
         /\ IsInjective(rows)
         /\ plan' = [plan EXCEPT ![b] = rows]
    /\ verdict' = [verdict EXCEPT ![b] = v]
    /\ UNCHANGED <<status, lock, session, visited, touched, before>>

BulkLock(b) ==
    /\ TakeLock(b)
    /\ visited' = [visited EXCEPT ![b] = @ + 1]
    /\ UNCHANGED <<status, session, plan, verdict, touched, before>>

BulkEnd(b) ==
    /\ Release(b)
    /\ plan' = [plan EXCEPT ![b] = <<>>]
    /\ visited' = [visited EXCEPT ![b] = 0]
    /\ verdict' = [verdict EXCEPT ![b] = "none"]
    /\ UNCHANGED <<session, before>>

BulkCommit(b) ==
    /\ plan[b] # <<>> /\ visited[b] = Len(plan[b])
    /\ status' = [r \in Rows |-> IF r \in Range(plan[b]) THEN verdict[b] ELSE status[r]]
    /\ Judged(Range(plan[b]))
    /\ BulkEnd(b)

BulkVictim(b) == Deadlocked(b) /\ BulkEnd(b) /\ UNCHANGED <<status, touched>>
-----------------------------------------------------------------------------
Session(a) == \/ BeginParse(a) \/ Insert(a) \/ Observe(a) \/ Flush(a) \/ Commit(a)
              \/ MultipleResults(a) \/ ParserRaises(a) \/ DeadlockVictim(a)

Bulk(b) == BulkLock(b) \/ BulkCommit(b) \/ BulkVictim(b)

Next == \/ \E a \in Attempts : Session(a)
        \/ \E b \in Analysts : Bulk(b)
        \/ \E v \in Verdicts : \/ \E r \in Rows : UpdateFinding(r, v)
                               \/ \E b \in Analysts : BulkBegin(b, v)

Spec == Init /\ [][Next]_vars

(* A session whose statement can run, runs it; the database finds cycles,  *)
(* and queues those who wait for a row.                                    *)
FairSpec ==
    /\ Spec
    /\ \A a \in Attempts : WF_vars(Session(a)) /\ SF_vars(Flush(a))
    /\ \A b \in Analysts : WF_vars(Bulk(b))
-----------------------------------------------------------------------------
(* finding_delta compares the rows whose scan_id_fk names each scan.       *)
HashesOf(scan) == {r[1] : r \in {x \in Rows : status[x] # "none" /\ ScanOf[x[2]] = scan}}

Resolved(base, current) == HashesOf(base) \ HashesOf(current)

LocksHeld ==
    /\ \A a \in Attempts : \A r \in Rows : lock[r] = a => Parsing(a)
    /\ \A b \in Analysts : \A r \in Rows :
         lock[r] = b <=> \E i \in 1 .. visited[b] : plan[b][i] = r

TypeOK ==
    /\ status \in [Rows -> Statuses \cup {"none"}]
    /\ lock \in [Rows -> Sessions \cup {NoOne}]
    /\ pc \in [Attempts -> {"idle", "parsing", "committed", "raised"}]
    /\ next \in [Attempts -> Nat \ {0}]
    /\ mine \in [Attempts -> SUBSET Hashes]
    /\ dirty \in [Attempts -> Rows \cup {NoRow}]
    /\ reopen \in [Attempts -> SUBSET Rows]
    /\ touched \in [Attempts -> SUBSET Rows]
    /\ before \in [Attempts -> SUBSET Attempts]
    /\ cut \in [Attempts -> SUBSET Lenient]
    /\ plan \in [Analysts -> Seq(Rows)]
    /\ visited \in [Analysts -> Nat]
    /\ verdict \in [Analysts -> Verdicts \cup {"none"}]
    /\ LocksHeld

(* Two rows of one hash come only from parses that overlapped in time:     *)
(* with one slot, or without duplicate runs and concurrent scans, a hash   *)
(* has one row, however often its scans report it (_upsert_finding).       *)
Overlapped(a, b) == a \notin before[b] /\ b \notin before[a]

DuplicatesOverlapped ==
    \A q, r \in Rows :
        q # r /\ q[1] = r[1] /\ status[q] # "none" /\ status[r] # "none"
            => Overlapped(q[2], r[2])

(* A parse that commits leaves nothing it reported in Fixed, unless an     *)
(* analyst marked it Fixed while the parse was running, or the loop of a   *)
(* cloud or mobile scan caught an error and left off that tool's report.   *)
ReopenStep ==
    \A a \in Attempts : Parsing(a) /\ pc'[a] = "committed" =>
        \A r \in Rows :
            r[1] \in Range(Report[a]) /\ status'[r] = "Fixed"
                => r \in touched[a] \/ ToolOf[r[1]] \in cut[a]

ReopensFixed == [][ReopenStep]_vars

(* A parse changes the status of an existing row only from Fixed, except   *)
(* for a verdict given while it ran, which it may overwrite.               *)
VerdictStep ==
    \A a \in Attempts : Parsing(a) /\ pc'[a] = "committed" =>
        \A r \in Rows :
            status[r] \notin {"none", "Fixed"} /\ status'[r] # status[r]
                => r \in touched[a]

VerdictsKept == [][VerdictStep]_vars

(* Only a committed attempt has rows (_db_session rolls back what precedes *)
(* an exception), and it has stored, or found, all that it reported, but   *)
(* for the rest of a tool's report whose error a cloud or mobile scan      *)
(* caught: web and infra parses write all or nothing.                      *)
AllUnlessCut ==
    /\ \A r \in Rows : status[r] # "none" => pc[r[2]] = "committed"
    /\ \A a \in Attempts : \A h \in Range(Report[a]) :
         pc[a] = "committed" /\ ToolOf[h] \notin cut[a]
             => \E r \in Rows : r[1] = h /\ status[r] # "none"

(* Sessions that wait for each other in a circle take the rows they wait   *)
(* for in orders that no common order explains.  Parses of scanners that   *)
(* list their findings in one order never abort each other; a bulk update, *)
(* which the database takes through the rows in an order of its own, can   *)
(* be in a circle with one of them, and only if it takes two crossed.      *)
TakesInOrder(s, q, r) ==
    \/ /\ s \in Attempts /\ q[1] # r[1]
       /\ \E i, j \in DOMAIN Report[s] :
            i < j /\ Report[s][i] = q[1] /\ Report[s][j] = r[1]
    \/ /\ s \in Analysts
       /\ \E i, j \in DOMAIN plan[s] : i < j /\ plan[s][i] = q /\ plan[s][j] = r

Consistent(C) ==
    LET rows == {Wants(c) : c \in C}
    IN  \E rank \in [rows -> 1 .. Cardinality(rows)] :
          \A c \in C : \A q, r \in rows :
              TakesInOrder(c, q, r) => rank[q] < rank[r]

AbortsOnlyCrossed ==
    \A C \in (SUBSET Sessions) \ {{}} : Circle(C) => ~Consistent(C)

Ledger == INSTANCE FindingLedger
              WITH ledger <- status, phase <- pc, judged <- touched, past <- before

(* The sessions, locks and aborts of this module together keep what        *)
(* FindingLedger promises: a parse that commits has stored all it reported *)
(* but for the tools it left off, and changed nothing else                 *)
(* (_upsert_finding, _db_session, _parse_cloud_findings).                  *)
KeepsLedger == Ledger!Spec

(* Every parse ends: waiting for row locks never lasts for ever. *)
ParsesEnd == \A a \in Attempts : <>(pc[a] \in {"committed", "raised"})
=============================================================================
