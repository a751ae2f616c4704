------------------------- MODULE FindingDedupProofs ------------------------
(***************************************************************************)
(* Proofs about FindingDedup for any attempts, hashes, reports and bulk    *)
(* updates.                                                                *)
(*                                                                         *)
(* That two rows of a hash come from overlapping parses is not inductive   *)
(* by itself.  A session that inserted a hash saw no row of it, so the     *)
(* rows of that hash that exist when it commits come from attempts that    *)
(* had not committed when it began (FreshInv); and an attempt that had     *)
(* committed when another began cannot commit again (BeforeInv).  A        *)
(* reopened row must exist, or the commit would create it (ReopenInv).     *)
(* What a session may do to rows of others follows from what it remembers  *)
(* of the rows it has looked up (LookInv).                                 *)
(***************************************************************************)
EXTENDS FindingDedup, FiniteSetTheorems, WellFoundedInduction, TLAPS

Exists(r)  == status[r] # "none"
Mine(a, r) == r[2] = a /\ r[1] \in mine[a]

BeforeInv == \A a \in Attempts : \A b \in before[a] : pc[b] = "committed"

IdleInv == \A a \in Attempts : pc[a] = "idle" => mine[a] = {} /\ reopen[a] = {}

FreshInv == \A a \in Attempts, r \in Rows :
    Parsing(a) /\ Exists(r) /\ r[1] \in mine[a] => r[2] \notin before[a]

ReopenInv == \A a \in Attempts : Parsing(a) =>
    \A r \in reopen[a] : Exists(r) \/ Mine(a, r)

(* The first half of AllUnlessCut. *)
Owned == \A r \in Rows : Exists(r) => pc[r[2]] = "committed"

(* A bulk update names rows that exist, each once. *)
PlanInv == \A b \in Analysts :
    /\ visited[b] <= Len(plan[b])
    /\ \A i, j \in DOMAIN plan[b] : plan[b][i] = plan[b][j] => i = j
    /\ \A i \in DOMAIN plan[b] : Exists(plan[b][i])
    /\ plan[b] # <<>> => verdict[b] \in Verdicts

IInv == /\ TypeOK /\ BeforeInv /\ IdleInv /\ FreshInv /\ ReopenInv
        /\ Owned /\ PlanInv /\ DuplicatesOverlapped

(* What the report names is a hash. *)
LEMMA CurrentType ==
  ASSUME TypeOK, NEW a \in Attempts, Reporting(a)
  PROVE  Current(a) \in Hashes
<1>1. Report[a] \in Seq(Hashes) /\ next[a] \in 1 .. Len(Report[a])
  BY FindingDedupAssumption DEF TypeOK, Reporting
<1> QED
  BY <1>1 DEF Current

(* A row consists of its hash and the attempt that inserted it. *)
LEMMA RowParts ==
  ASSUME NEW r \in Rows
  PROVE  r[1] \in Hashes /\ r[2] \in Attempts /\ r = <<r[1], r[2]>>
BY DEF Rows

(* A parse and a bulk update are different sessions, and neither is none.  *)
LEMMA SessionParts ==
  /\ \A a \in Attempts : a \notin Analysts /\ a # NoOne /\ a \in Sessions
  /\ \A b \in Analysts : b \notin Attempts /\ b # NoOne /\ b \in Sessions
BY FindingDedupAssumption DEF Sessions

(* What a parse does, the outcome of an error told apart. *)
LEMMA SessionCases ==
  ASSUME NEW a \in Attempts, Session(a)
  PROVE  \/ BeginParse(a) \/ Insert(a) \/ Observe(a) \/ Flush(a) \/ Commit(a)
         \/ Parsing(a) /\ Rollback(a)
         \/ Reporting(a) /\ Tool(a, next[a]) \in Lenient /\ NextTool(a)
<1>1. CASE MultipleResults(a) \/ ParserRaises(a)
  BY <1>1 DEF MultipleResults, ParserRaises, Fails, Reporting
<1>2. CASE DeadlockVictim(a)
  BY <1>2, SessionParts DEF DeadlockVictim, Deadlocked, Circle, Blocked, Updating
<1> QED
  BY <1>1, <1>2 DEF Session

(* Ending a session leaves no lock of it behind and frees no other. *)
LEMMA ReleaseType ==
  ASSUME TypeOK, NEW s \in Sessions, Release(s)
  PROVE  /\ lock' \in [Rows -> Sessions \cup {NoOne}]
         /\ \A r \in Rows : lock'[r] # NoOne => lock'[r] = lock[r] /\ lock[r] # s
         /\ \A r \in Rows : lock[r] # s => lock'[r] = lock[r]
BY DEF TypeOK, Release

(* What the end of a parse does to it, and leaves as it is. *)
LEMMA EndParts ==
  ASSUME TypeOK, NEW a \in Attempts, NEW o \in {"committed", "raised"}, EndSession(a, o)
  PROVE  /\ pc'[a] = o /\ mine'[a] = {} /\ dirty'[a] = NoRow /\ reopen'[a] = {}
         /\ \A b \in Attempts \ {a} :
              /\ pc'[b] = pc[b] /\ next'[b] = next[b] /\ mine'[b] = mine[b]
              /\ dirty'[b] = dirty[b] /\ reopen'[b] = reopen[b]
              /\ touched'[b] = touched[b]
         /\ UNCHANGED <<cut, plan, visited, verdict, before>>
         /\ \A b \in Attempts : Parsing(b)' => Parsing(b) /\ b # a
BY DEF EndSession, TypeOK, bulk, Parsing

(* A verdict is given to rows that exist, at once. *)
Gives(rows, v) ==
    /\ rows \subseteq Rows /\ v \in Verdicts
    /\ \A r \in rows : Exists(r)
    /\ status' = [r \in Rows |-> IF r \in rows THEN v ELSE status[r]]
    /\ touched' = [a \in Attempts |->
         IF Parsing(a) THEN touched[a] \cup rows ELSE touched[a]]
    /\ UNCHANGED <<session, before>>

(* Bulk updates that begin, lock or fail do nothing that parses can read. *)
Aside == UNCHANGED <<status, session, touched, before>>

(* The plans that stay are as they were. *)
PlansKept == \A c \in Analysts :
    /\ visited'[c] <= Len(plan'[c])
    /\ (plan'[c] = plan[c] /\ verdict'[c] = verdict[c]) \/ plan'[c] = <<>>

TakesNone == \A a \in Attempts, r \in Rows : lock'[r] = a => lock[r] = a

BulkOK == /\ lock \in [Rows -> Sessions \cup {NoOne}]
          /\ plan \in [Analysts -> Seq(Rows)]
          /\ visited \in [Analysts -> Nat]
          /\ verdict \in [Analysts -> Verdicts \cup {"none"}]
          /\ \A b \in Analysts : \A r \in Rows :
               lock[r] = b <=> \E i \in 1 .. visited[b] : plan[b][i] = r

(* A bulk update that ends leaves no row locked. *)
LEMMA BulkEndOK ==
  ASSUME IInv, NEW b \in Analysts, BulkEnd(b)
  PROVE  BulkOK' /\ TakesNone
<1> USE DEF IInv, BulkEnd
<1>1. /\ plan' \in [Analysts -> Seq(Rows)]
      /\ visited' \in [Analysts -> Nat]
      /\ verdict' \in [Analysts -> Verdicts \cup {"none"}]
  BY DEF TypeOK
<1>2. /\ lock' \in [Rows -> Sessions \cup {NoOne}]
      /\ \A r \in Rows : lock'[r] # NoOne => lock'[r] = lock[r] /\ lock[r] # b
      /\ \A r \in Rows : lock[r] # b => lock'[r] = lock[r]
  BY ReleaseType, SessionParts
<1>3. ASSUME NEW c \in Analysts, NEW r \in Rows
      PROVE  lock'[r] = c <=> \E i \in 1 .. visited'[c] : plan'[c][i] = r
  <2>1. CASE c = b
    <3>1. visited'[b] = 0
      BY DEF TypeOK
    <3>2. lock'[r] # b
      BY <1>2, SessionParts
    <3> QED
      BY <2>1, <3>1, <3>2
  <2>2. CASE c # b
    <3>1. visited'[c] = visited[c] /\ plan'[c] = plan[c]
      BY <2>2 DEF TypeOK
    <3>2. lock'[r] = c <=> lock[r] = c
      BY <1>2, <2>2, SessionParts
    <3> QED
      BY <3>1, <3>2 DEF TypeOK, LocksHeld
  <2> QED
    BY <2>1, <2>2
<1>4. TakesNone
  BY <1>2, SessionParts DEF TakesNone
<1> QED
  BY <1>1, <1>2, <1>3, <1>4 DEF BulkOK

(* A bulk update locks the rows of its plan one after the other. *)
LEMMA BulkLockOK ==
  ASSUME IInv, NEW b \in Analysts, BulkLock(b)
  PROVE  /\ BulkOK' /\ TakesNone
         /\ visited'[b] <= Len(plan[b])
         /\ \A c \in Analysts \ {b} : visited'[c] = visited[c]
<1> USE DEF IInv
<1> DEFINE w == plan[b][visited[b] + 1]
<1>1. /\ visited[b] < Len(plan[b]) /\ Wants(b) = w /\ ~Blocked(b)
      /\ lock' = [lock EXCEPT ![w] = b]
      /\ visited' = [visited EXCEPT ![b] = @ + 1]
      /\ UNCHANGED <<plan, verdict>>
  BY SessionParts DEF BulkLock, TakeLock, Updating, Wants
<1>2. /\ visited[b] \in Nat /\ plan[b] \in Seq(Rows)
      /\ visited[b] + 1 \in DOMAIN plan[b] /\ w \in Rows
  BY <1>1 DEF TypeOK
<1>3. lock[w] \in {NoOne, b}
  BY <1>1, SessionParts DEF Blocked, BulkLock, TakeLock
<1>4. /\ visited'[b] = visited[b] + 1
      /\ \A c \in Analysts \ {b} : visited'[c] = visited[c]
      /\ lock'[w] = b /\ \A r \in Rows : r # w => lock'[r] = lock[r]
  BY <1>1, <1>2 DEF TypeOK
<1>5. ASSUME NEW c \in Analysts, NEW r \in Rows
      PROVE  lock'[r] = c <=> \E i \in 1 .. visited'[c] : plan'[c][i] = r
  <2>0. lock[r] = c <=> \E i \in 1 .. visited[c] : plan[c][i] = r
    BY DEF TypeOK, LocksHeld
  <2>1. CASE c = b
    <3>1. 1 .. visited'[b] = (1 .. visited[b]) \cup {visited[b] + 1}
      BY <1>2, <1>4
    <3> QED
      BY <1>1, <1>4, <2>0, <2>1, <3>1
  <2>2. CASE c # b
    <3>1. lock'[r] = c <=> lock[r] = c
      BY <1>3, <1>4, <2>2, SessionParts
    <3> QED
      BY <1>1, <1>4, <2>0, <2>2, <3>1
  <2> QED
    BY <2>1, <2>2
<1>6. /\ lock' \in [Rows -> Sessions \cup {NoOne}]
      /\ visited' \in [Analysts -> Nat]
      /\ plan' \in [Analysts -> Seq(Rows)]
      /\ verdict' \in [Analysts -> Verdicts \cup {"none"}]
  BY <1>1, <1>2, SessionParts DEF TypeOK
<1>7. TakesNone
  BY <1>4, SessionParts DEF TakesNone
<1>8. visited'[b] <= Len(plan[b])
  BY <1>1, <1>2, <1>4
<1> QED
  BY <1>4, <1>5, <1>6, <1>7, <1>8 DEF BulkOK

(* A bulk update begins with rows that exist, none of them locked by it. *)
LEMMA BulkBeginOK ==
  ASSUME IInv, NEW b \in Analysts, NEW v \in Verdicts, BulkBegin(b, v)
  PROVE  BulkOK' /\ TakesNone /\ PlanInv' /\ Aside
<1> USE DEF IInv
<1>1. PICK n \in 2 .. MaxBulk : \E rows \in [1 .. n -> {r \in Rows : status[r] # "none"}] :
        IsInjective(rows) /\ plan' = [plan EXCEPT ![b] = rows]
  BY DEF BulkBegin
<1>2. PICK rows \in [1 .. n -> {r \in Rows : status[r] # "none"}] :
        IsInjective(rows) /\ plan' = [plan EXCEPT ![b] = rows]
  BY <1>1
<1>3. rows \in Seq(Rows) /\ DOMAIN rows = 1 .. n /\ n \in Nat
  <2>1. rows \in [1 .. n -> Rows] /\ n \in Nat
    OBVIOUS
  <2> QED
    BY <2>1
<1>4. /\ plan[b] = <<>> /\ verdict' = [verdict EXCEPT ![b] = v]
      /\ UNCHANGED <<status, lock, session, visited, touched, before>>
  BY DEF BulkBegin
<1>5. visited[b] = 0
  BY <1>4 DEF PlanInv, TypeOK
<1>6. /\ plan'[b] = rows /\ verdict'[b] = v
      /\ \A c \in Analysts \ {b} : plan'[c] = plan[c] /\ verdict'[c] = verdict[c]
  BY <1>2, <1>4 DEF TypeOK
<1>7. ASSUME NEW c \in Analysts, NEW r \in Rows
      PROVE  lock'[r] = c <=> \E i \in 1 .. visited'[c] : plan'[c][i] = r
  <2>1. lock[r] = c <=> \E i \in 1 .. visited[c] : plan[c][i] = r
    BY DEF TypeOK, LocksHeld
  <2> QED
    BY <1>4, <1>5, <1>6, <2>1
<1>8. /\ plan' \in [Analysts -> Seq(Rows)]
      /\ verdict' \in [Analysts -> Verdicts \cup {"none"}]
  BY <1>2, <1>3, <1>4 DEF TypeOK
<1>9. PlanInv'
  <2> SUFFICES ASSUME NEW c \in Analysts
               PROVE  /\ visited[c] <= Len(plan'[c])
                      /\ \A i, j \in DOMAIN plan'[c] : plan'[c][i] = plan'[c][j] => i = j
                      /\ \A i \in DOMAIN plan'[c] : Exists(plan'[c][i])
                      /\ plan'[c] # <<>> => verdict'[c] \in Verdicts
      BY <1>4 DEF PlanInv, Exists
  <2>1. CASE c = b
    <3>1. Len(rows) = n /\ 0 <= n
      BY <1>3
    <3>2. \A i, j \in DOMAIN rows : rows[i] = rows[j] => i = j
      BY <1>2 DEF IsInjective
    <3> QED
      BY <1>2, <1>3, <1>5, <1>6, <2>1, <3>1, <3>2 DEF Exists
  <2>2. CASE c # b
    BY <1>6, <2>2 DEF PlanInv
  <2> QED
    BY <2>1, <2>2
<1>10. TakesNone /\ Aside
  BY <1>4 DEF TakesNone, Aside
<1> QED
  BY <1>4, <1>7, <1>8, <1>9, <1>10 DEF BulkOK, TypeOK

(* Whatever analysts do is a verdict for some rows, or nothing parses can  *)
(* read, and takes no row lock for a parse.                                *)
AnalystStep ==
    \/ \E b \in Analysts : Bulk(b)
    \/ \E v \in Verdicts : \/ \E r \in Rows : UpdateFinding(r, v)
                           \/ \E b \in Analysts : BulkBegin(b, v)

LEMMA AnalystCases ==
  ASSUME IInv, AnalystStep
  PROVE  /\ BulkOK' /\ TakesNone
         /\ \/ Aside /\ PlanInv'
            \/ PlansKept /\ \E v \in Verdicts, rows \in SUBSET Rows : Gives(rows, v)
<1> USE DEF IInv
<1>1. ASSUME NEW b \in Analysts, BulkLock(b)
      PROVE  BulkOK' /\ TakesNone /\ Aside /\ PlanInv'
  <2>1. UNCHANGED <<status, plan, verdict>> /\ Aside
    BY <1>1 DEF BulkLock, Aside
  <2>2. PlanInv'
    BY <1>1, <2>1, BulkLockOK DEF PlanInv, Exists
  <2> QED
    BY <1>1, <2>1, <2>2, BulkLockOK
<1>2. ASSUME NEW b \in Analysts, BulkEnd(b)
      PROVE  PlansKept
  BY <1>2 DEF BulkEnd, TypeOK, PlanInv, PlansKept
<1>3. ASSUME NEW b \in Analysts, BulkVictim(b)
      PROVE  BulkOK' /\ TakesNone /\ Aside /\ PlanInv'
  <2>1. BulkEnd(b) /\ UNCHANGED status /\ Aside
    BY <1>3 DEF BulkVictim, BulkEnd, Aside
  <2>2. PlanInv'
    BY <1>2, <2>1 DEF PlanInv, PlansKept, Exists
  <2> QED
    BY <2>1, <2>2, BulkEndOK
<1>4. ASSUME NEW b \in Analysts, BulkCommit(b)
      PROVE  /\ BulkOK' /\ TakesNone /\ PlansKept
             /\ \E v \in Verdicts, rows \in SUBSET Rows : Gives(rows, v)
  <2>1. plan[b] \in Seq(Rows) /\ Range(plan[b]) \in SUBSET Rows /\ verdict[b] \in Verdicts
    BY <1>4 DEF BulkCommit, TypeOK, PlanInv, Range
  <2>2. \A r \in Range(plan[b]) : Exists(r)
    BY DEF PlanInv, Range
  <2>3. Gives(Range(plan[b]), verdict[b])
    BY <1>4, <2>1, <2>2 DEF BulkCommit, BulkEnd, Judged, Gives
  <2> QED
    BY <1>2, <1>4, <2>1, <2>3, BulkEndOK DEF BulkCommit
<1>5. ASSUME NEW v \in Verdicts, NEW r \in Rows, UpdateFinding(r, v)
      PROVE  BulkOK' /\ TakesNone /\ PlansKept /\ Gives({r}, v)
  <2>1. UNCHANGED <<lock, plan, visited, verdict>>
    BY <1>5 DEF UpdateFinding, bulk
  <2>2. BulkOK' /\ TakesNone
    BY <2>1 DEF BulkOK, TakesNone, TypeOK, LocksHeld
  <2>3. Gives({r}, v)
    BY <1>5 DEF UpdateFinding, Judged, Gives, TypeOK, Exists
  <2>4. PlansKept
    BY <2>1 DEF PlansKept, PlanInv
  <2> QED
    BY <2>2, <2>3, <2>4
<1>6. ASSUME NEW v \in Verdicts, NEW b \in Analysts, BulkBegin(b, v)
      PROVE  BulkOK' /\ TakesNone /\ Aside /\ PlanInv'
  BY <1>6, BulkBeginOK
<1>7. CASE \E b \in Analysts : Bulk(b)
  BY <1>1, <1>3, <1>4, <1>7 DEF Bulk
<1> QED
  BY <1>5, <1>6, <1>7 DEF AnalystStep

(* The initial state satisfies the inductive invariant. *)
LEMMA InitIInv == Init => IInv
<1> SUFFICES ASSUME Init PROVE IInv
    OBVIOUS
<1> USE DEF Init, Parsing
<1>1. TypeOK
  BY SessionParts DEF TypeOK, LocksHeld
<1>2. /\ BeforeInv /\ IdleInv /\ FreshInv /\ ReopenInv
      /\ Owned /\ PlanInv /\ DuplicatesOverlapped
  BY DEF BeforeInv, IdleInv, FreshInv, ReopenInv, DuplicatesOverlapped, Owned, PlanInv, Exists
<1> QED
  BY <1>1, <1>2 DEF IInv

(* Steps of a parse that neither end it nor take a lock leave locks and    *)
(* bulk updates alone.                                                     *)
LEMMA PlanKept ==
  ASSUME IInv, UNCHANGED <<plan, visited, verdict>>, \A r \in Rows : Exists(r) => Exists(r)'
  PROVE  PlanInv'
BY DEF IInv, TypeOK, PlanInv

(* A session starts empty. *)
LEMMA BeginParseIInv ==
  ASSUME IInv, NEW a \in Attempts, BeginParse(a)
  PROVE  IInv'
<1> USE DEF IInv, BeginParse
<1>1. TypeOK'
  BY DEF TypeOK, LocksHeld, bulk, Parsing
<1>2. BeforeInv' /\ IdleInv'
  BY DEF BeforeInv, IdleInv, TypeOK, Parsing
<1>3. FreshInv' /\ ReopenInv'
  BY DEF FreshInv, ReopenInv, IdleInv, TypeOK, Parsing, Exists, Mine
<1>4. Owned' /\ PlanInv'
  BY PlanKept DEF Owned, TypeOK, Exists, bulk
<1>5. \A r \in Rows : Exists(r) => r[2] # a /\ r[2] \in Attempts
  BY RowParts DEF Owned, Exists
<1>6. DuplicatesOverlapped'
  BY <1>5 DEF DuplicatesOverlapped, Overlapped, Exists, TypeOK
<1> QED
  BY <1>1, <1>2, <1>3, <1>4, <1>6

(* An insert is made only when no row of the hash is committed. *)
LEMMA InsertIInv ==
  ASSUME IInv, NEW a \in Attempts, Insert(a)
  PROVE  IInv'
<1> USE DEF IInv, Insert
<1>0. Parsing(a) /\ Current(a) \in Hashes
  BY CurrentType DEF Reporting
<1>1. TypeOK'
  BY <1>0 DEF TypeOK, LocksHeld, bulk, Parsing
<1>2. BeforeInv' /\ IdleInv'
  BY <1>0 DEF BeforeInv, IdleInv, TypeOK, Parsing
<1>3. \A r \in Rows : Exists(r) => r[1] # Current(a)
  BY DEF Visible, Exists
<1>4. FreshInv'
  BY <1>0, <1>3 DEF FreshInv, TypeOK, Parsing, Exists
<1>5. ReopenInv'
  BY DEF ReopenInv, TypeOK, Parsing, Exists, Mine
<1>6. DuplicatesOverlapped' /\ Owned' /\ PlanInv'
  BY PlanKept DEF DuplicatesOverlapped, Overlapped, Owned, Exists, TypeOK, bulk
<1> QED
  BY <1>1, <1>2, <1>4, <1>5, <1>6

(* Only a row the session sees is reopened. *)
LEMMA ObserveIInv ==
  ASSUME IInv, NEW a \in Attempts, Observe(a)
  PROVE  IInv'
<1> USE DEF IInv
<1>1. PICK r \in Rows :
        /\ Visible(a, Current(a)) = {r}
        /\ reopen' = [reopen EXCEPT ![a] =
             IF ShouldReopen(SeenAs(a, r)) THEN @ \cup {r} ELSE @]
        /\ dirty' = [dirty EXCEPT ![a] = IF r[1] \in mine[a] THEN NoRow ELSE r]
  BY DEF Observe
<1>2. /\ Parsing(a) /\ next' = [next EXCEPT ![a] = @ + 1]
      /\ UNCHANGED <<status, lock, pc, mine, cut, plan, visited, verdict, touched, before>>
  BY DEF Observe, Reporting, bulk
<1>3. Exists(r) \/ Mine(a, r)
  BY <1>1 DEF Visible, Exists, Mine
<1>4. TypeOK'
  BY <1>1, <1>2 DEF TypeOK, LocksHeld, Parsing
<1>5. BeforeInv' /\ IdleInv' /\ FreshInv'
  BY <1>1, <1>2 DEF BeforeInv, IdleInv, FreshInv, TypeOK, Parsing, Exists
<1>6. ReopenInv'
  BY <1>1, <1>2, <1>3 DEF ReopenInv, TypeOK, Parsing, Exists, Mine
<1>7. DuplicatesOverlapped' /\ Owned' /\ PlanInv'
  BY <1>2, PlanKept DEF DuplicatesOverlapped, Overlapped, Owned, Exists
<1> QED
  BY <1>4, <1>5, <1>6, <1>7

(* A flush takes the lock of a row that no other session holds. *)
LEMMA FlushParts ==
  ASSUME TypeOK, NEW a \in Attempts, Flush(a)
  PROVE  /\ Parsing(a) /\ dirty[a] # NoRow /\ dirty[a] \in Rows
         /\ lock[dirty[a]] \in {NoOne, a}
         /\ lock' = [lock EXCEPT ![dirty[a]] = a]
         /\ dirty' = [dirty EXCEPT ![a] = NoRow]
         /\ UNCHANGED <<status, pc, next, mine, reopen, cut, plan, visited, verdict,
                        touched, before>>
<1>1. Parsing(a) /\ dirty[a] # NoRow /\ Wants(a) = dirty[a] /\ ~Blocked(a)
  BY SessionParts DEF Flush, TakeLock, Updating, Wants
<1> QED
  BY <1>1, SessionParts DEF Flush, TakeLock, Blocked, bulk, TypeOK

LEMMA FlushIInv ==
  ASSUME IInv, NEW a \in Attempts, Flush(a)
  PROVE  IInv'
<1> USE DEF IInv
<1>0. /\ Parsing(a) /\ dirty[a] # NoRow /\ dirty[a] \in Rows
      /\ lock[dirty[a]] \in {NoOne, a}
      /\ lock' = [lock EXCEPT ![dirty[a]] = a]
      /\ dirty' = [dirty EXCEPT ![a] = NoRow]
      /\ UNCHANGED <<status, pc, next, mine, reopen, cut, plan, visited, verdict,
                     touched, before>>
  BY FlushParts
<1>1. LocksHeld'
  <2>1. /\ lock'[dirty[a]] = a
        /\ \A r \in Rows : r # dirty[a] => lock'[r] = lock[r]
    BY <1>0 DEF TypeOK
  <2>2. \A b \in Attempts, r \in Rows : lock'[r] = b => Parsing(b)'
    BY <1>0, <2>1 DEF TypeOK, LocksHeld, Parsing
  <2>3. \A b \in Analysts, r \in Rows : lock'[r] = b <=> lock[r] = b
    BY <1>0, <2>1, SessionParts
  <2> QED
    BY <1>0, <2>2, <2>3 DEF TypeOK, LocksHeld
<1>2. TypeOK'
  BY <1>0, <1>1, SessionParts DEF TypeOK
<1>3. BeforeInv' /\ IdleInv' /\ FreshInv' /\ ReopenInv'
  BY <1>0 DEF BeforeInv, IdleInv, FreshInv, ReopenInv, Parsing, Exists, Mine
<1>4. DuplicatesOverlapped' /\ Owned' /\ PlanInv'
  BY <1>0, PlanKept DEF DuplicatesOverlapped, Overlapped, Owned, Exists
<1> QED
  BY <1>2, <1>3, <1>4

(* A tool's report is left off with its index moved past it. *)
LEMMA NextToolParts ==
  ASSUME TypeOK, NEW a \in Attempts, Reporting(a), Tool(a, next[a]) \in Lenient, NextTool(a)
  PROVE  /\ Parsing(a) /\ dirty[a] = NoRow
         /\ \E j \in next[a] + 1 .. Len(Report[a]) + 1 :
              /\ \A i \in next[a] .. j - 1 : Tool(a, i) = Tool(a, next[a])
              /\ next' = [next EXCEPT ![a] = j]
         /\ cut' = [cut EXCEPT ![a] = @ \cup {Tool(a, next[a])}]
         /\ UNCHANGED <<status, lock, pc, mine, dirty, reopen, plan, visited, verdict,
                        touched, before>>
BY DEF Reporting, NextTool, bulk

LEMMA NextToolIInv ==
  ASSUME IInv, NEW a \in Attempts, Reporting(a), Tool(a, next[a]) \in Lenient, NextTool(a)
  PROVE  IInv'
<1> USE DEF IInv
<1>0. /\ cut' = [cut EXCEPT ![a] = @ \cup {Tool(a, next[a])}]
      /\ UNCHANGED <<status, lock, pc, mine, dirty, reopen, plan, visited, verdict,
                     touched, before>>
  BY NextToolParts
<1>1. PICK j \in next[a] + 1 .. Len(Report[a]) + 1 : next' = [next EXCEPT ![a] = j]
  BY NextToolParts
<1>2. j \in Nat \ {0}
  BY FindingDedupAssumption DEF TypeOK
<1>3. next' \in [Attempts -> Nat \ {0}] /\ cut' \in [Attempts -> SUBSET Lenient]
  BY <1>0, <1>1, <1>2 DEF TypeOK
<1>4. TypeOK'
  BY <1>0, <1>3 DEF TypeOK, LocksHeld, Parsing
<1>5. BeforeInv' /\ IdleInv' /\ FreshInv' /\ ReopenInv'
  BY <1>0 DEF BeforeInv, IdleInv, FreshInv, ReopenInv, Parsing, Exists, Mine
<1>6. DuplicatesOverlapped' /\ Owned' /\ PlanInv'
  BY <1>0, PlanKept DEF DuplicatesOverlapped, Overlapped, Owned, Exists
<1> QED
  BY <1>4, <1>5, <1>6

(* The end of a parse frees its locks. *)
LEMMA EndType ==
  ASSUME IInv, NEW a \in Attempts, NEW o \in {"committed", "raised"}, EndSession(a, o),
         status' \in [Rows -> Statuses \cup {"none"}]
  PROVE  TypeOK'
<1> USE DEF IInv
<1>1. /\ lock' \in [Rows -> Sessions \cup {NoOne}]
      /\ \A r \in Rows : lock'[r] # NoOne => lock'[r] = lock[r] /\ lock[r] # a
      /\ \A r \in Rows : lock[r] # a => lock'[r] = lock[r]
  BY ReleaseType, SessionParts DEF EndSession
<1>2. /\ \A b \in Attempts \ {a} : pc'[b] = pc[b]
      /\ UNCHANGED <<cut, plan, visited, verdict, before>>
  BY EndParts
<1>3. LocksHeld'
  <2>1. \A b \in Attempts, r \in Rows : lock'[r] = b => Parsing(b)'
    BY <1>1, <1>2, SessionParts DEF TypeOK, LocksHeld, Parsing
  <2>2. \A b \in Analysts, r \in Rows : lock'[r] = b <=> lock[r] = b
    BY <1>1, SessionParts
  <2> QED
    BY <1>2, <2>1, <2>2 DEF TypeOK, LocksHeld
<1> QED
  BY <1>1, <1>2, <1>3 DEF TypeOK, EndSession

(* A session that ends without a commit changes no row. *)
LEMMA RollbackIInv ==
  ASSUME IInv, NEW a \in Attempts, Parsing(a), Rollback(a)
  PROVE  IInv'
<1> USE DEF IInv
<1>0. EndSession(a, "raised") /\ UNCHANGED status
  BY DEF Rollback
<1>1. TypeOK'
  BY <1>0, EndType DEF TypeOK
<1>2. /\ pc'[a] = "raised"
      /\ \A b \in Attempts \ {a} :
           pc'[b] = pc[b] /\ mine'[b] = mine[b] /\ reopen'[b] = reopen[b]
      /\ UNCHANGED <<plan, visited, verdict, before>>
      /\ \A b \in Attempts : Parsing(b)' => Parsing(b) /\ b # a
  BY <1>0, EndParts
<1>3. BeforeInv' /\ IdleInv'
  BY <1>2 DEF BeforeInv, IdleInv, TypeOK, Parsing
<1>4. FreshInv'
  BY <1>0, <1>2 DEF FreshInv, Exists
<1>5. ReopenInv'
  BY <1>0, <1>2 DEF ReopenInv, TypeOK, Exists, Mine
<1>6. Owned'
  BY <1>0, <1>2, RowParts DEF Owned, Exists, Parsing
<1>7. DuplicatesOverlapped' /\ PlanInv'
  BY <1>0, <1>2, PlanKept DEF DuplicatesOverlapped, Overlapped, Exists
<1> QED
  BY <1>1, <1>3, <1>4, <1>5, <1>6, <1>7

(* What a commit does to the status of a row. *)
LEMMA CommitStatus ==
  ASSUME IInv, NEW a \in Attempts, Commit(a), NEW r \in Rows
  PROVE  status'[r] = IF r \in reopen[a] \/ Mine(a, r) THEN "Open" ELSE status[r]
BY DEF Commit, Mine

(* A commit creates the session's own rows only. *)
LEMMA CommitIInv ==
  ASSUME IInv, NEW a \in Attempts, Commit(a)
  PROVE  IInv'
<1> USE DEF IInv
<1>0. EndSession(a, "committed") /\ Parsing(a)
  BY DEF Commit
<1>1. status' \in [Rows -> Statuses \cup {"none"}]
  BY DEF Commit, TypeOK, Statuses
<1>2. /\ pc'[a] = "committed"
      /\ \A b \in Attempts \ {a} :
           pc'[b] = pc[b] /\ mine'[b] = mine[b] /\ reopen'[b] = reopen[b]
      /\ UNCHANGED <<plan, visited, verdict, before>>
  BY <1>0, EndParts
<1>3. TypeOK'
  BY <1>0, <1>1, EndType
<1>4. ASSUME NEW r \in Rows, Exists(r)' PROVE Exists(r) \/ Mine(a, r)
  BY <1>0, <1>4, CommitStatus DEF Exists, ReopenInv
<1>5. BeforeInv' /\ IdleInv'
  BY <1>2 DEF BeforeInv, IdleInv, TypeOK, Parsing
<1>6. FreshInv'
  <2> SUFFICES ASSUME NEW b \in Attempts, NEW r \in Rows,
                      Parsing(b)', Exists(r)', r[1] \in mine'[b]
               PROVE  r[2] \notin before'[b]
      BY DEF FreshInv
  <2>1. Parsing(b) /\ b # a /\ r[1] \in mine[b] /\ before' = before
    BY <1>2 DEF Parsing
  <2>2. CASE Exists(r)
    BY <2>1, <2>2 DEF FreshInv
  <2>3. CASE r[2] = a
    BY <1>0, <2>1, <2>3 DEF BeforeInv, Parsing
  <2> QED
    BY <1>4, <2>2, <2>3 DEF Mine
<1>7. \A r \in Rows : Exists(r) => Exists(r)'
  BY CommitStatus DEF Exists
<1>8. ReopenInv'
  <2> SUFFICES ASSUME NEW b \in Attempts, Parsing(b)', NEW r \in reopen'[b]
               PROVE  Exists(r)' \/ Mine(b, r)'
      BY DEF ReopenInv
  <2>1. Parsing(b) /\ b # a /\ r \in reopen[b] /\ r \in Rows
    BY <1>2 DEF TypeOK, Parsing
  <2> QED
    BY <1>2, <1>7, <2>1 DEF ReopenInv, Mine
<1>9. DuplicatesOverlapped'
  <2> SUFFICES ASSUME NEW q \in Rows, NEW r \in Rows,
                      q # r, q[1] = r[1], Exists(q)', Exists(r)'
               PROVE  Overlapped(q[2], r[2])
      BY <1>2 DEF DuplicatesOverlapped, Exists, Overlapped
  <2>1. (Exists(q) \/ Mine(a, q)) /\ (Exists(r) \/ Mine(a, r))
    BY <1>4
  <2>2. CASE Exists(q) /\ Exists(r)
    BY <2>2 DEF DuplicatesOverlapped, Exists
  <2>3. CASE Mine(a, q) /\ Mine(a, r)
    BY <2>3, RowParts DEF Mine
  <2>4. ASSUME NEW x \in Rows, NEW y \in Rows, x[1] = y[1], Exists(x), Mine(a, y)
        PROVE  x[2] \notin before[y[2]] /\ y[2] \notin before[x[2]]
    <3>1. x[2] \notin before[a]
      BY <1>0, <2>4 DEF FreshInv, Mine
    <3>2. a \notin before[x[2]]
      BY <1>0, RowParts DEF BeforeInv, Parsing
    <3> QED
      BY <2>4, <3>1, <3>2 DEF Mine
  <2>5. CASE Exists(q) /\ Mine(a, r)
    BY <2>4, <2>5 DEF Overlapped
  <2>6. CASE Exists(r) /\ Mine(a, q)
    BY <2>4, <2>6 DEF Overlapped
  <2> QED
    BY <2>1, <2>2, <2>3, <2>5, <2>6
<1>10. Owned'
  <2> SUFFICES ASSUME NEW r \in Rows, Exists(r)' PROVE pc'[r[2]] = "committed"
      BY DEF Owned
  <2>1. r[2] \in Attempts /\ (Exists(r) \/ r[2] = a)
    BY <1>4, RowParts DEF Mine
  <2> QED
    BY <1>2, <2>1 DEF Owned
<1>11. PlanInv'
  BY <1>2, <1>7, PlanKept
<1> QED
  BY <1>3, <1>5, <1>6, <1>8, <1>9, <1>10, <1>11

(* Analysts create no row and remove none. *)
LEMMA AnalystIInv ==
  ASSUME IInv, AnalystStep
  PROVE  IInv'
<1> USE DEF IInv
<1>1. /\ BulkOK' /\ TakesNone
      /\ \/ Aside /\ PlanInv'
         \/ PlansKept /\ \E v \in Verdicts, rows \in SUBSET Rows : Gives(rows, v)
  BY AnalystCases
<1>2. UNCHANGED <<session, before>>
  BY <1>1 DEF Aside, Gives
<1>3. /\ status' \in [Rows -> Statuses \cup {"none"}]
      /\ touched' \in [Attempts -> SUBSET Rows]
      /\ \A r \in Rows : Exists(r)' <=> Exists(r)
  <2>1. CASE Aside
    BY <2>1 DEF Aside, TypeOK, Exists
  <2>2. ASSUME NEW v \in Verdicts, NEW rows \in SUBSET Rows, Gives(rows, v)
        PROVE  /\ status' \in [Rows -> Statuses \cup {"none"}]
               /\ touched' \in [Attempts -> SUBSET Rows]
               /\ \A r \in Rows : Exists(r)' <=> Exists(r)
    <3>1. v \in Statuses /\ v # "none"
      BY FindingDedupAssumption DEF Statuses
    <3> QED
      BY <2>2, <3>1 DEF Gives, TypeOK, Exists
  <2> QED
    BY <1>1, <2>1, <2>2
<1>4. TypeOK'
  <2>1. LocksHeld'
    BY <1>1, <1>2 DEF BulkOK, TakesNone, TypeOK, LocksHeld, session, Parsing
  <2> QED
    BY <1>1, <1>2, <1>3, <2>1 DEF BulkOK, TypeOK, session
<1>5. BeforeInv' /\ IdleInv' /\ FreshInv'
  BY <1>2, <1>3 DEF BeforeInv, IdleInv, FreshInv, session, Parsing
<1>6. ReopenInv'
  BY <1>2, <1>3 DEF ReopenInv, TypeOK, session, Parsing, Mine
<1>7. DuplicatesOverlapped' /\ Owned'
  BY <1>2, <1>3 DEF DuplicatesOverlapped, Overlapped, Owned, Exists, session
<1>8. ASSUME PlansKept PROVE PlanInv'
  <2> SUFFICES ASSUME NEW c \in Analysts
               PROVE  /\ visited'[c] <= Len(plan'[c])
                      /\ \A i, j \in DOMAIN plan'[c] : plan'[c][i] = plan'[c][j] => i = j
                      /\ \A i \in DOMAIN plan'[c] : status'[plan'[c][i]] # "none"
                      /\ plan'[c] # <<>> => verdict'[c] \in Verdicts
      BY DEF PlanInv, Exists
  <2>1. CASE plan'[c] = <<>>
    BY <1>8, <2>1 DEF PlansKept
  <2>2. CASE plan'[c] = plan[c] /\ verdict'[c] = verdict[c]
    <3>1. \A i \in DOMAIN plan[c] : plan[c][i] \in Rows
      BY DEF TypeOK
    <3>2. \A i \in DOMAIN plan[c] : status'[plan[c][i]] # "none"
      BY <1>3, <3>1 DEF PlanInv, Exists
    <3> QED
      BY <1>8, <2>2, <3>2 DEF PlansKept, PlanInv
  <2> QED
    BY <1>8, <2>1, <2>2 DEF PlansKept
<1> QED
  BY <1>1, <1>4, <1>5, <1>6, <1>7, <1>8

(* Every step preserves the inductive invariant. *)
LEMMA NextIInv == IInv /\ [Next]_vars => IInv'
<1> SUFFICES ASSUME IInv, [Next]_vars PROVE IInv'
    OBVIOUS
<1>1. ASSUME NEW a \in Attempts, Session(a) PROVE IInv'
  BY <1>1, SessionCases, BeginParseIInv, InsertIInv, ObserveIInv, FlushIInv, CommitIInv,
     RollbackIInv, NextToolIInv
<1>2. CASE AnalystStep
  BY <1>2, AnalystIInv
<1>3. CASE UNCHANGED vars
  BY <1>3 DEF vars, session, bulk, IInv, TypeOK, LocksHeld, BeforeInv, IdleInv, FreshInv,
              ReopenInv, DuplicatesOverlapped, Overlapped, Owned, PlanInv,
              Parsing, Exists, Mine
<1> QED
  BY <1>1, <1>2, <1>3 DEF Next, AnalystStep

(* The inductive invariant holds in every reachable state. *)
LEMMA Invariance == Spec => []IInv
<1> QED
  BY InitIInv, NextIInv, PTL DEF Spec

(* Type correctness; no row lock outlives the parse that took it, and a    *)
(* bulk update holds exactly the rows it has reached.                      *)
THEOREM TypeCorrect == Spec => []TypeOK
<1>1. IInv => TypeOK
  BY DEF IInv
<1> QED
  BY <1>1, Invariance, PTL

(* Only overlapping parses store a hash twice: where parses do not overlap,*)
(* _upsert_finding's lookup is enough to keep one row per hash.            *)
THEOREM NoDuplicateRows == Spec => []DuplicatesOverlapped
<1>1. IInv => DuplicatesOverlapped
  BY DEF IInv
<1> QED
  BY <1>1, Invariance, PTL
-----------------------------------------------------------------------------
(* What a running session remembers of the rows it has looked up: the      *)
(* hashes reported so far, the rows found in Fixed (SeenInv, KeepInv), the *)
(* row of the last finding while its UPDATE waits (DirtyInv), and the rows *)
(* locked (HeldInv), of which none shares its hash with another row the    *)
(* session wants (SameInv).  What it skipped belongs to a tool it left off.*)
Seen(a) == {Report[a][i] : i \in {j \in DOMAIN Report[a] : j < next[a]}}

LeftOff(a, h) == ToolOf[h] \in cut[a]

StartInv == \A a \in Attempts :
    /\ pc[a] = "idle" => next[a] = 1
    /\ dirty[a] # NoRow => Parsing(a)

SeenInv == \A a \in Attempts : Parsing(a) => \A r \in Rows :
    r[1] \in Seen(a) /\ status[r] = "Fixed" =>
        r \in reopen[a] \cup touched[a] \/ LeftOff(a, r[1])

KeepInv == \A a \in Attempts : Parsing(a) =>
    \A r \in reopen[a] : status[r] \in {"Fixed", "Open"} \/ r \in touched[a]

DirtyInv == \A a \in Attempts : dirty[a] # NoRow =>
    /\ Exists(dirty[a])
    /\ next[a] - 1 \in DOMAIN Report[a] /\ Report[a][next[a] - 1] = dirty[a][1]

HeldInv == \A a \in Attempts, r \in Rows :
    lock[r] = a => Exists(r) /\ r[1] \in Seen(a)

SameInv == \A a \in Attempts, r \in Rows :
    lock[r] = a /\ dirty[a] # NoRow /\ dirty[a][1] = r[1] => dirty[a] = r

LookInv == StartInv /\ SeenInv /\ KeepInv /\ DirtyInv /\ HeldInv /\ SameInv

(* A report is a sequence of hashes. *)
LEMMA ReportType ==
  ASSUME NEW a \in Attempts
  PROVE  /\ Len(Report[a]) \in Nat /\ DOMAIN Report[a] = 1 .. Len(Report[a])
         /\ \A i \in DOMAIN Report[a] : Report[a][i] \in Hashes
<1>1. Report[a] \in Seq(Hashes)
  BY FindingDedupAssumption
<1> QED
  BY <1>1

(* A session starts with its first finding. *)
LEMMA BeginParseLook ==
  ASSUME IInv, LookInv, NEW a \in Attempts, BeginParse(a)
  PROVE  LookInv'
<1> USE DEF IInv, LookInv, BeginParse
<1>1. pc[a] = "idle" /\ next[a] = 1 /\ reopen[a] = {} /\ dirty[a] = NoRow
  BY DEF IdleInv, StartInv, Parsing
<1>2. Seen(a) = {}
  BY <1>1, ReportType DEF Seen
<1>3. \A b \in Attempts : Seen(b)' = Seen(b)
  BY DEF Seen
<1>4. StartInv' /\ KeepInv'
  BY <1>1 DEF StartInv, KeepInv, TypeOK, Parsing
<1>5. SeenInv'
  BY <1>2, <1>3 DEF SeenInv, LeftOff, TypeOK, Parsing
<1>6. DirtyInv' /\ SameInv'
  BY DEF DirtyInv, SameInv, Exists
<1>7. HeldInv'
  BY DEF HeldInv, Exists, Seen
<1> QED
  BY <1>4, <1>5, <1>6, <1>7

(* What a step to the next finding adds to the hashes seen. *)
LEMMA SeenNext ==
  ASSUME IInv, NEW a \in Attempts, Reporting(a), next' = [next EXCEPT ![a] = @ + 1]
  PROVE  /\ Seen(a)' = Seen(a) \cup {Current(a)}
         /\ \A b \in Attempts \ {a} : Seen(b)' = Seen(b)
         /\ next[a] \in DOMAIN Report[a] /\ next'[a] = next[a] + 1
         /\ \A b \in Attempts \ {a} : next'[b] = next[b]
<1> USE DEF IInv
<1>1. next[a] \in Nat \ {0} /\ next'[a] = next[a] + 1 /\ next[a] \in DOMAIN Report[a]
  BY ReportType DEF TypeOK, Reporting
<1>2. \A b \in Attempts \ {a} : next'[b] = next[b]
  BY DEF TypeOK
<1>3. \A j \in DOMAIN Report[a] : j < next'[a] <=> j < next[a] \/ j = next[a]
  BY <1>1, ReportType
<1>4. Seen(a)' = Seen(a) \cup {Current(a)}
  BY <1>1, <1>3 DEF Seen, Current
<1> QED
  BY <1>1, <1>2, <1>4 DEF Seen

(* What an error adds to them is of the tool that is left off. *)
LEMMA SeenSkip ==
  ASSUME IInv, NEW a \in Attempts, Reporting(a), Tool(a, next[a]) \in Lenient, NextTool(a)
  PROVE  /\ Seen(a) \subseteq Seen(a)'
         /\ \A h \in Seen(a)' : h \in Seen(a) \/ LeftOff(a, h)'
         /\ cut[a] \subseteq cut'[a]
         /\ \A b \in Attempts \ {a} :
              Seen(b)' = Seen(b) /\ next'[b] = next[b] /\ cut'[b] = cut[b]
<1> USE DEF IInv
<1>1. cut' = [cut EXCEPT ![a] = @ \cup {Tool(a, next[a])}]
  BY NextToolParts
<1>2. PICK j \in next[a] + 1 .. Len(Report[a]) + 1 :
        /\ \A i \in next[a] .. j - 1 : Tool(a, i) = Tool(a, next[a])
        /\ next' = [next EXCEPT ![a] = j]
  BY NextToolParts
<1>3. next[a] \in Nat /\ next'[a] = j /\ next[a] < j /\ j \in Nat
  BY <1>2, ReportType DEF TypeOK
<1>4. \A b \in Attempts \ {a} : next'[b] = next[b] /\ cut'[b] = cut[b]
  BY <1>1, <1>2 DEF TypeOK
<1>5. cut'[a] = cut[a] \cup {Tool(a, next[a])}
  BY <1>1 DEF TypeOK
<1>6. ASSUME NEW i \in DOMAIN Report[a], i < j
      PROVE  i < next[a] \/ ToolOf[Report[a][i]] \in cut'[a]
  <2>1. i \in Nat
    BY ReportType
  <2>2. CASE ~(i < next[a])
    <3>1. i \in next[a] .. j - 1
      BY <1>3, <1>6, <2>1, <2>2
    <3> QED
      BY <1>2, <1>5, <3>1 DEF Tool
  <2> QED
    BY <2>2
<1>7. \A i \in DOMAIN Report[a] : i < next[a] => i < j
  BY <1>3, ReportType
<1> QED
  BY <1>3, <1>4, <1>5, <1>6, <1>7 DEF Seen, LeftOff

(* No row of the inserted hash is on record. *)
LEMMA InsertLook ==
  ASSUME IInv, LookInv, NEW a \in Attempts, Insert(a)
  PROVE  LookInv'
<1> USE DEF IInv, LookInv, Insert
<1>0. Parsing(a) /\ Reporting(a) /\ dirty[a] = NoRow /\ next' = [next EXCEPT ![a] = @ + 1]
  BY DEF Reporting
<1>1. /\ Seen(a)' = Seen(a) \cup {Current(a)}
      /\ \A b \in Attempts \ {a} : Seen(b)' = Seen(b) /\ next'[b] = next[b]
  BY <1>0, SeenNext
<1>2. \A r \in Rows : status[r] # "none" => r[1] # Current(a)
  BY DEF Visible
<1>3. StartInv' /\ KeepInv'
  BY <1>0, <1>1 DEF StartInv, KeepInv, TypeOK, Parsing
<1>4. SeenInv'
  BY <1>1, <1>2 DEF SeenInv, LeftOff, Parsing
<1>5. DirtyInv' /\ SameInv'
  BY <1>0, <1>1 DEF DirtyInv, SameInv, Exists
<1>6. HeldInv'
  <2>1. \A b \in Attempts : Seen(b) \subseteq Seen(b)'
    BY <1>1
  <2> QED
    BY <2>1 DEF HeldInv, Exists
<1> QED
  BY <1>3, <1>4, <1>5, <1>6

(* A tool left off is one whose findings the session promises nothing of.  *)
LEMMA NextToolLook ==
  ASSUME IInv, LookInv, NEW a \in Attempts,
         Reporting(a), Tool(a, next[a]) \in Lenient, NextTool(a)
  PROVE  LookInv'
<1> USE DEF IInv, LookInv
<1>0. /\ Parsing(a) /\ dirty[a] = NoRow
      /\ UNCHANGED <<status, lock, pc, mine, dirty, reopen, touched, before>>
  BY NextToolParts
<1>1. /\ Seen(a) \subseteq Seen(a)'
      /\ \A h \in Seen(a)' : h \in Seen(a) \/ LeftOff(a, h)'
      /\ cut[a] \subseteq cut'[a]
      /\ \A b \in Attempts \ {a} :
           Seen(b)' = Seen(b) /\ next'[b] = next[b] /\ cut'[b] = cut[b]
  BY SeenSkip
<1>2. StartInv' /\ KeepInv'
  BY <1>0, <1>1 DEF StartInv, KeepInv, TypeOK, Parsing
<1>3. SeenInv'
  <2> SUFFICES ASSUME NEW b \in Attempts, Parsing(b), NEW r \in Rows,
                      r[1] \in Seen(b)', status[r] = "Fixed"
               PROVE  r \in reopen[b] \cup touched[b] \/ LeftOff(b, r[1])'
      BY <1>0 DEF SeenInv, Parsing
  <2>1. CASE r[1] \in Seen(b)
    <3>1. LeftOff(b, r[1]) => LeftOff(b, r[1])'
      BY <1>1 DEF LeftOff
    <3> QED
      BY <2>1, <3>1 DEF SeenInv
  <2>2. CASE r[1] \notin Seen(b)
    BY <1>1, <2>2
  <2> QED
    BY <2>1, <2>2
<1>4. DirtyInv' /\ SameInv'
  BY <1>0, <1>1 DEF DirtyInv, SameInv, Exists
<1>5. HeldInv'
  BY <1>0, <1>1 DEF HeldInv, Exists
<1> QED
  BY <1>2, <1>3, <1>4, <1>5

(* A row found in Fixed is reopened, and the row found is the only one of  *)
(* its hash the session can see.                                           *)
LEMMA ObserveLook ==
  ASSUME IInv, LookInv, NEW a \in Attempts, Observe(a)
  PROVE  LookInv'
<1> USE DEF IInv, LookInv
<1>1. PICK r \in Rows :
        /\ Visible(a, Current(a)) = {r}
        /\ reopen' = [reopen EXCEPT ![a] =
             IF ShouldReopen(SeenAs(a, r)) THEN @ \cup {r} ELSE @]
        /\ dirty' = [dirty EXCEPT ![a] = IF r[1] \in mine[a] THEN NoRow ELSE r]
  BY DEF Observe
<1>2. /\ Parsing(a) /\ Reporting(a) /\ dirty[a] = NoRow
      /\ next' = [next EXCEPT ![a] = @ + 1]
      /\ UNCHANGED <<status, lock, pc, mine, cut, touched, before>>
  BY DEF Observe, Reporting
<1>3. /\ Seen(a)' = Seen(a) \cup {Current(a)}
      /\ \A b \in Attempts \ {a} : Seen(b)' = Seen(b) /\ next'[b] = next[b]
      /\ next[a] \in DOMAIN Report[a] /\ next'[a] = next[a] + 1
  BY <1>2, SeenNext
<1>4. \A x \in Rows : x[1] = Current(a) /\ Exists(x) => x = r
  BY <1>1 DEF Visible, Exists
<1>5. r[1] = Current(a) /\ (Exists(r) \/ Mine(a, r))
  BY <1>1 DEF Visible, Exists, Mine
<1>6. StartInv'
  BY <1>1, <1>2, <1>3 DEF StartInv, TypeOK, Parsing
<1>7. status[r] = "Fixed" => r \in reopen'[a]
  <2>1. status[r] = "Fixed" => ~Mine(a, r)
    BY <1>2, RowParts DEF Owned, Exists, Mine, Parsing
  <2> QED
    BY <1>1, <2>1 DEF ShouldReopen, SeenAs, Mine, TypeOK
<1>8. SeenInv'
  <2> SUFFICES ASSUME NEW b \in Attempts, Parsing(b)', NEW x \in Rows,
                      x[1] \in Seen(b)', status'[x] = "Fixed", ~LeftOff(b, x[1])
               PROVE  x \in reopen'[b] \cup touched'[b]
      BY <1>2 DEF SeenInv, LeftOff
  <2>1. reopen[b] \subseteq reopen'[b] /\ Parsing(b) /\ status[x] = "Fixed" /\ touched'[b] = touched[b]
    BY <1>1, <1>2 DEF TypeOK, Parsing
  <2>2. CASE x[1] \in Seen(b)
    BY <2>1, <2>2 DEF SeenInv
  <2>3. CASE b = a /\ x[1] = Current(a)
    BY <1>4, <1>7, <2>1, <2>3 DEF Exists
  <2> QED
    BY <1>3, <2>2, <2>3
<1>9. KeepInv'
  <2> SUFFICES ASSUME NEW b \in Attempts, Parsing(b)', NEW x \in reopen'[b]
               PROVE  status[x] \in {"Fixed", "Open"} \/ x \in touched[b]
      BY <1>2 DEF KeepInv
  <2>1. Parsing(b)
    BY <1>2 DEF Parsing
  <2>2. CASE x \in reopen[b]
    BY <2>1, <2>2 DEF KeepInv
  <2>3. CASE x \notin reopen[b]
    <3>1. b = a /\ x = r /\ SeenAs(a, r) = "Fixed"
      BY <1>1, <2>3 DEF TypeOK, ShouldReopen
    <3> QED
      BY <3>1 DEF SeenAs
  <2> QED
    BY <2>2, <2>3
<1>10. ASSUME dirty'[a] # NoRow PROVE dirty'[a] = r /\ Exists(r)
  <2>1. r[1] \notin mine[a] /\ dirty'[a] = r
    BY <1>1, <1>10 DEF TypeOK
  <2> QED
    BY <1>5, <2>1 DEF Mine
<1>11. \A b \in Attempts \ {a} : dirty'[b] = dirty[b]
  BY <1>1 DEF TypeOK
<1>12. DirtyInv'
  <2> SUFFICES ASSUME NEW b \in Attempts, dirty'[b] # NoRow
               PROVE  /\ Exists(dirty'[b])
                      /\ next'[b] - 1 \in DOMAIN Report[b]
                      /\ Report[b][next'[b] - 1] = dirty'[b][1]
      BY <1>2 DEF DirtyInv, Exists
  <2>1. CASE b = a
    <3>1. next'[a] - 1 = next[a]
      BY <1>3 DEF TypeOK
    <3> QED
      BY <1>3, <1>5, <1>10, <2>1, <3>1 DEF Current
  <2>2. CASE b # a
    BY <1>3, <1>11, <2>2 DEF DirtyInv
  <2> QED
    BY <2>1, <2>2
<1>13. HeldInv'
  <2>1. \A b \in Attempts : Seen(b) \subseteq Seen(b)'
    BY <1>3
  <2> QED
    BY <1>2, <2>1 DEF HeldInv, Exists
<1>14. SameInv'
  <2> SUFFICES ASSUME NEW b \in Attempts, NEW x \in Rows,
                      lock[x] = b, dirty'[b] # NoRow, dirty'[b][1] = x[1]
               PROVE  dirty'[b] = x
      BY <1>2 DEF SameInv
  <2>1. CASE b = a
    <3>1. Exists(x)
      BY <2>1 DEF HeldInv
    <3> QED
      BY <1>4, <1>5, <1>10, <2>1, <3>1
  <2>2. CASE b # a
    BY <1>11, <2>2 DEF SameInv
  <2> QED
    BY <2>1, <2>2
<1> QED
  BY <1>6, <1>8, <1>9, <1>12, <1>13, <1>14

(* A flush locks the row of the last finding. *)
LEMMA FlushLook ==
  ASSUME IInv, LookInv, NEW a \in Attempts, Flush(a)
  PROVE  LookInv'
<1> USE DEF IInv, LookInv
<1>0. /\ Parsing(a) /\ dirty[a] # NoRow
      /\ lock' = [lock EXCEPT ![dirty[a]] = a]
      /\ dirty' = [dirty EXCEPT ![a] = NoRow]
      /\ UNCHANGED <<status, pc, next, mine, reopen, cut, touched, before>>
  BY FlushParts
<1>1. \A b \in Attempts : Seen(b)' = Seen(b)
  BY <1>0 DEF Seen
<1>2. dirty[a] \in Rows /\ Exists(dirty[a]) /\ dirty[a][1] \in Seen(a)
  <2>1. next[a] - 1 \in DOMAIN Report[a] /\ Report[a][next[a] - 1] = dirty[a][1]
    BY <1>0 DEF DirtyInv
  <2>2. next[a] \in Nat /\ next[a] - 1 < next[a]
    BY DEF TypeOK
  <2> QED
    BY <1>0, <2>1, <2>2 DEF Seen, DirtyInv, TypeOK
<1>3. StartInv' /\ KeepInv'
  BY <1>0 DEF StartInv, KeepInv, TypeOK, Parsing
<1>4. SeenInv'
  BY <1>0, <1>1 DEF SeenInv, LeftOff, Parsing
<1>5. DirtyInv'
  BY <1>0 DEF DirtyInv, TypeOK, Exists
<1>6. /\ lock'[dirty[a]] = a
      /\ \A r \in Rows : r # dirty[a] => lock'[r] = lock[r]
  BY <1>0, <1>2 DEF TypeOK
<1>7. HeldInv'
  BY <1>0, <1>1, <1>2, <1>6 DEF HeldInv, Exists
<1>8. SameInv'
  BY <1>0, <1>6 DEF SameInv, TypeOK
<1> QED
  BY <1>3, <1>4, <1>5, <1>7, <1>8

(* A session that ends holds no lock and wants no row, and changes the     *)
(* status of rows to Open at most.                                         *)
LEMMA EndLook ==
  ASSUME IInv, LookInv, NEW a \in Attempts, NEW o \in {"committed", "raised"},
         EndSession(a, o), \A r \in Rows : status'[r] \in {"Open", status[r]}
  PROVE  LookInv'
<1> USE DEF IInv, LookInv
<1>1. /\ pc'[a] = o /\ dirty'[a] = NoRow
      /\ \A b \in Attempts \ {a} :
           /\ pc'[b] = pc[b] /\ next'[b] = next[b] /\ dirty'[b] = dirty[b]
           /\ reopen'[b] = reopen[b] /\ touched'[b] = touched[b]
      /\ UNCHANGED cut
      /\ \A b \in Attempts : Parsing(b)' => Parsing(b) /\ b # a
  BY EndParts
<1>2. \A b \in Attempts \ {a} : Seen(b)' = Seen(b)
  BY <1>1 DEF Seen
<1>3. \A r \in Rows : Exists(r) => Exists(r)'
  BY DEF Exists
<1>4. \A r \in Rows, b \in Attempts : lock'[r] = b => lock[r] = b /\ b # a
  BY ReleaseType, SessionParts DEF EndSession
<1>5. StartInv'
  BY <1>1 DEF StartInv, Parsing
<1>6. SeenInv'
  BY <1>1, <1>2 DEF SeenInv, LeftOff
<1>7. KeepInv'
  <2> SUFFICES ASSUME NEW b \in Attempts, Parsing(b)', NEW x \in reopen'[b]
               PROVE  status'[x] \in {"Fixed", "Open"} \/ x \in touched'[b]
      BY DEF KeepInv
  <2>1. Parsing(b) /\ x \in reopen[b] /\ x \in Rows /\ touched'[b] = touched[b]
    BY <1>1 DEF TypeOK
  <2> QED
    BY <2>1 DEF KeepInv
<1>8. DirtyInv'
  <2> SUFFICES ASSUME NEW b \in Attempts, dirty'[b] # NoRow
               PROVE  /\ status'[dirty'[b]] # "none"
                      /\ next'[b] - 1 \in DOMAIN Report[b]
                      /\ Report[b][next'[b] - 1] = dirty'[b][1]
      BY DEF DirtyInv, Exists
  <2>1. dirty'[b] = dirty[b] /\ next'[b] = next[b] /\ dirty[b] \in Rows
    BY <1>1 DEF TypeOK
  <2> QED
    BY <1>3, <2>1 DEF DirtyInv, Exists
<1>9. HeldInv'
  BY <1>2, <1>3, <1>4 DEF HeldInv
<1>10. SameInv'
  BY <1>1, <1>4 DEF SameInv
<1> QED
  BY <1>5, <1>6, <1>7, <1>8, <1>9, <1>10

LEMMA RollbackLook ==
  ASSUME IInv, LookInv, NEW a \in Attempts, Parsing(a), Rollback(a)
  PROVE  LookInv'
<1>1. EndSession(a, "raised") /\ \A r \in Rows : status'[r] \in {"Open", status[r]}
  BY DEF Rollback
<1> QED
  BY <1>1, EndLook

(* The commit of one session reopens rows of others at most. *)
LEMMA CommitLook ==
  ASSUME IInv, LookInv, NEW a \in Attempts, Commit(a)
  PROVE  LookInv'
<1>1. \A r \in Rows : status'[r] \in {"Open", status[r]}
  BY CommitStatus
<1> QED
  BY <1>1, EndLook DEF Commit

(* A verdict is remembered by every session that runs, and what analysts   *)
(* do takes no lock for a parse.                                           *)
LEMMA AnalystLook ==
  ASSUME IInv, LookInv, AnalystStep
  PROVE  LookInv'
<1> USE DEF IInv, LookInv
<1>1. /\ TakesNone
      /\ Aside \/ \E v \in Verdicts, rows \in SUBSET Rows : Gives(rows, v)
  BY AnalystCases
<1>2. UNCHANGED <<pc, next, mine, dirty, reopen, cut, before>>
  BY <1>1 DEF Aside, Gives, session
<1>3. \A b \in Attempts : Seen(b)' = Seen(b)
  BY <1>2 DEF Seen
<1>4. /\ \A r \in Rows : Exists(r) => Exists(r)'
      /\ \A b \in Attempts : Parsing(b) =>
           /\ touched[b] \subseteq touched'[b]
           /\ \A r \in Rows : status'[r] = status[r] \/ r \in touched'[b]
  <2>1. CASE Aside
    BY <2>1 DEF Aside, Exists
  <2>2. ASSUME NEW v \in Verdicts, NEW rows \in SUBSET Rows, Gives(rows, v)
        PROVE  /\ \A r \in Rows : Exists(r) => Exists(r)'
               /\ \A b \in Attempts : Parsing(b) =>
                    /\ touched[b] \subseteq touched'[b]
                    /\ \A r \in Rows : status'[r] = status[r] \/ r \in touched'[b]
    <3>1. v # "none"
      BY FindingDedupAssumption DEF Statuses
    <3> QED
      BY <2>2, <3>1 DEF Gives, Exists
  <2> QED
    BY <1>1, <2>1, <2>2
<1>5. StartInv'
  BY <1>2 DEF StartInv, Parsing
<1>6. SeenInv'
  BY <1>2, <1>3, <1>4 DEF SeenInv, LeftOff, Parsing
<1>7. KeepInv'
  <2> SUFFICES ASSUME NEW b \in Attempts, Parsing(b)', NEW x \in reopen'[b]
               PROVE  status'[x] \in {"Fixed", "Open"} \/ x \in touched'[b]
      BY DEF KeepInv
  <2>1. Parsing(b) /\ x \in reopen[b] /\ x \in Rows
    BY <1>2 DEF TypeOK, Parsing
  <2> QED
    BY <1>4, <2>1 DEF KeepInv
<1>8. DirtyInv'
  BY <1>2, <1>4 DEF DirtyInv, TypeOK
<1>9. HeldInv' /\ SameInv'
  BY <1>1, <1>2, <1>3, <1>4 DEF HeldInv, SameInv, TakesNone
<1> QED
  BY <1>5, <1>6, <1>7, <1>8, <1>9

(* Sessions start with nothing looked up. *)
LEMMA InitLook == Init => LookInv
BY SessionParts DEF Init, LookInv, StartInv, SeenInv, KeepInv, DirtyInv, HeldInv, SameInv, Parsing

(* Every step preserves what sessions remember. *)
LEMMA NextLook == IInv /\ LookInv /\ [Next]_vars => LookInv'
<1> SUFFICES ASSUME IInv, LookInv, [Next]_vars PROVE LookInv'
    OBVIOUS
<1>1. ASSUME NEW a \in Attempts, Session(a) PROVE LookInv'
  BY <1>1, SessionCases, BeginParseLook, InsertLook, ObserveLook, FlushLook, CommitLook,
     RollbackLook, NextToolLook
<1>2. CASE AnalystStep
  BY <1>2, AnalystLook
<1>3. CASE UNCHANGED vars
  BY <1>3 DEF vars, session, LookInv, StartInv, SeenInv, KeepInv, DirtyInv, HeldInv,
              SameInv, Seen, LeftOff, Parsing, Exists
<1> QED
  BY <1>1, <1>2, <1>3 DEF Next, AnalystStep

(* Both invariants hold in every reachable state. *)
LEMMA LookInvariance == Spec => [](IInv /\ LookInv)
<1> QED
  BY InitIInv, NextIInv, InitLook, NextLook, PTL DEF Spec
-----------------------------------------------------------------------------
(* Only its own commit makes an attempt committed. *)
LEMMA OnlyCommits ==
  ASSUME IInv, [Next]_vars, NEW a \in Attempts, Parsing(a), pc'[a] = "committed"
  PROVE  Commit(a)
<1> USE DEF IInv, Parsing
<1>1. ASSUME NEW b \in Attempts, Session(b) PROVE Commit(a)
  <2>1. CASE Rollback(b)
    <3>1. pc' = [pc EXCEPT ![b] = "raised"]
      BY <2>1 DEF Rollback, EndSession
    <3> QED
      BY <3>1 DEF TypeOK
  <2>2. CASE BeginParse(b)
    BY <2>2 DEF BeginParse, TypeOK
  <2>3. CASE Insert(b) \/ Observe(b) \/ NextTool(b)
    BY <2>3 DEF Insert, Observe, NextTool
  <2>4. CASE Flush(b)
    BY <2>4, FlushParts
  <2>5. CASE Commit(b)
    BY <2>5 DEF Commit, EndSession, TypeOK
  <2> QED
    BY <1>1, <2>1, <2>2, <2>3, <2>4, <2>5, SessionCases
<1>2. CASE AnalystStep
  BY <1>2, AnalystCases DEF Aside, Gives, session
<1>3. CASE UNCHANGED vars
  BY <1>3 DEF vars, session
<1> QED
  BY <1>1, <1>2, <1>3 DEF Next, AnalystStep

(* A session commits when it has looked up all it reports. *)
LEMMA SeenAll ==
  ASSUME TypeOK, NEW a \in Attempts, Commit(a)
  PROVE  Range(Report[a]) \subseteq Seen(a)
<1>1. \A i \in DOMAIN Report[a] : i < next[a]
  BY ReportType DEF Commit, TypeOK
<1> QED
  BY <1>1 DEF Seen, Range

(* A commit leaves nothing in Fixed that it reported. *)
LEMMA CommitReopens == IInv /\ LookInv /\ [Next]_vars => ReopenStep
<1> SUFFICES ASSUME IInv, LookInv, [Next]_vars,
                    NEW a \in Attempts, Parsing(a), pc'[a] = "committed",
                    NEW r \in Rows, r[1] \in Range(Report[a]), status'[r] = "Fixed"
             PROVE  r \in touched[a] \/ ToolOf[r[1]] \in cut[a]
    BY DEF ReopenStep
<1>1. Commit(a)
  BY OnlyCommits
<1>2. status[r] = "Fixed" /\ r \notin reopen[a]
  BY <1>1, CommitStatus
<1>3. r[1] \in Seen(a)
  BY <1>1, SeenAll DEF IInv
<1> QED
  BY <1>2, <1>3 DEF LookInv, SeenInv, LeftOff

(* A commit changes rows it found in Fixed only. *)
LEMMA CommitKeeps == IInv /\ LookInv /\ [Next]_vars => VerdictStep
<1> SUFFICES ASSUME IInv, LookInv, [Next]_vars,
                    NEW a \in Attempts, Parsing(a), pc'[a] = "committed",
                    NEW r \in Rows,
                    status[r] \notin {"none", "Fixed"}, status'[r] # status[r]
             PROVE  r \in touched[a]
    BY DEF VerdictStep
<1>1. Commit(a)
  BY OnlyCommits
<1>2. ~Mine(a, r)
  BY RowParts DEF IInv, Owned, Exists, Mine, Parsing
<1>3. r \in reopen[a] /\ status[r] # "Open"
  BY <1>1, <1>2, CommitStatus
<1> QED
  BY <1>3 DEF LookInv, KeepInv

(* What a parse reported does not stay Fixed behind the scanners' back: a  *)
(* commit reopens it, unless the verdict came while the parse ran, or the  *)
(* loop of a cloud or mobile scan left off the tool's report.              *)
THEOREM FixedIsReopened == Spec => ReopensFixed
<1>1. (IInv /\ LookInv) /\ [Next]_vars => [ReopenStep]_vars
  BY CommitReopens
<1> QED
  BY <1>1, LookInvariance, PTL DEF Spec, ReopensFixed

(* Rescans keep the analysts' verdicts: no parse changes a row that was    *)
(* not Fixed when it looked, unless it was given a verdict since.          *)
THEOREM AnalystsHaveTheWord == Spec => VerdictsKept
<1>1. (IInv /\ LookInv) /\ [Next]_vars => [VerdictStep]_vars
  BY CommitKeeps
<1> QED
  BY <1>1, LookInvariance, PTL DEF Spec, VerdictsKept
-----------------------------------------------------------------------------
(* A set of natural numbers below a bound has a greatest element. *)
LEMMA Greatest ==
  ASSUME NEW n \in Nat, NEW S \in SUBSET (1 .. n), S # {}
  PROVE  \E x \in S : \A y \in S : y <= x
<1> DEFINE T == {n - x : x \in S}
<1>1. T \subseteq Nat /\ T # {}
  <2>1. \A x \in S : n - x \in Nat
    OBVIOUS
  <2> QED
    BY <2>1
<1>2. \E x \in T : \A y \in T : ~ (<<y, x>> \in OpToRel(<, Nat))
  BY <1>1, NatLessThanWellFounded, WFMin
<1>3. \E x \in T : \A y \in T : ~ (y < x)
  BY <1>1, <1>2 DEF OpToRel
<1>4. PICK x \in S : \A y \in S : ~ (n - y < n - x)
  BY <1>3
<1> QED
  BY <1>4

(* A session that waits for another wants a row that the other takes       *)
(* before the one it wants itself.                                         *)
LEMMA WaitsUpwards ==
  ASSUME IInv, LookInv, NEW c \in Sessions, NEW d \in Sessions,
         Blocked(c), Blocked(d), d = WaitsFor(c)
  PROVE  TakesInOrder(d, Wants(c), Wants(d))
<1> USE DEF IInv, LookInv
<1>1. lock[Wants(c)] = d /\ lock[Wants(d)] # d /\ Updating(c) /\ Updating(d)
  BY DEF Blocked, WaitsFor
<1>2. Wants(c) \in Rows
  <2>1. CASE c \in Attempts
    BY <1>1, <2>1, SessionParts DEF Wants, Updating, TypeOK
  <2>2. CASE c \in Analysts
    <3>1. Wants(c) = plan[c][visited[c] + 1] /\ visited[c] < Len(plan[c])
      BY <1>1, <2>2, SessionParts DEF Wants, Updating
    <3>2. plan[c] \in Seq(Rows) /\ visited[c] + 1 \in 1 .. Len(plan[c])
      BY <2>2, <3>1 DEF TypeOK
    <3> QED
      BY <3>1, <3>2
  <2> QED
    BY <2>1, <2>2 DEF Sessions
<1>3. CASE d \in Attempts
  <2>1. Wants(d) = dirty[d] /\ dirty[d] # NoRow
    BY <1>1, <1>3, SessionParts DEF Wants, Updating
  <2>2. Wants(c)[1] # Wants(d)[1]
    BY <1>1, <1>2, <1>3, <2>1 DEF SameInv
  <2>3. PICK i \in DOMAIN Report[d] : i < next[d] /\ Report[d][i] = Wants(c)[1]
    BY <1>1, <1>2, <1>3 DEF HeldInv, Seen
  <2>4. next[d] - 1 \in DOMAIN Report[d] /\ Report[d][next[d] - 1] = Wants(d)[1]
    BY <1>3, <2>1 DEF DirtyInv
  <2>5. i < next[d] - 1
    BY <1>3, <2>2, <2>3, <2>4, ReportType DEF TypeOK
  <2> QED
    BY <1>3, <2>2, <2>3, <2>4, <2>5 DEF TakesInOrder
<1>4. CASE d \in Analysts
  <2>1. PICK i \in 1 .. visited[d] : plan[d][i] = Wants(c)
    BY <1>1, <1>2, <1>4 DEF TypeOK, LocksHeld
  <2>2. Wants(d) = plan[d][visited[d] + 1] /\ visited[d] < Len(plan[d])
    BY <1>1, <1>4, SessionParts DEF Wants, Updating
  <2>3. /\ visited[d] \in Nat /\ DOMAIN plan[d] = 1 .. Len(plan[d])
        /\ Len(plan[d]) \in Nat
    BY <1>4 DEF TypeOK
  <2>4. i \in DOMAIN plan[d] /\ visited[d] + 1 \in DOMAIN plan[d] /\ i < visited[d] + 1
    BY <2>2, <2>3
  <2> QED
    BY <1>4, <2>1, <2>2, <2>4 DEF TakesInOrder
<1> QED
  BY <1>3, <1>4 DEF Sessions

(* A circle of sessions would climb for ever in an order that all share.   *)
LEMMA NoCircleInOrder == IInv /\ LookInv => AbortsOnlyCrossed
<1> SUFFICES ASSUME IInv, LookInv, NEW C \in (SUBSET Sessions) \ {{}}, Circle(C),
                    Consistent(C)
             PROVE  FALSE
    BY DEF AbortsOnlyCrossed
<1> DEFINE rows == {Wants(c) : c \in C}
           n    == Cardinality(rows)
<1>1. IsFiniteSet(C) /\ C # {}
  <2>1. IsFiniteSet(Sessions)
    BY FindingDedupAssumption, FS_Union DEF Sessions
  <2> QED
    BY <2>1, FS_Subset
<1>2. n \in Nat
  <2> DEFINE f == [c \in C |-> Wants(c)]
  <2>1. f \in Surjection(C, rows)
    BY DEF Surjection
  <2>2. IsFiniteSet(rows)
    BY <1>1, <2>1, FS_Surjection
  <2> QED
    BY <2>2, FS_CardinalityType
<1>3. PICK rank \in [rows -> 1 .. n] :
        \A c \in C : \A q, r \in rows : TakesInOrder(c, q, r) => rank[q] < rank[r]
  BY DEF Consistent
<1> HIDE DEF n
<1>4. \A c \in C : Blocked(c) /\ WaitsFor(c) \in C
  BY DEF Circle
<1>5. \A c \in C : rank[Wants(c)] < rank[Wants(WaitsFor(c))]
  <2> SUFFICES ASSUME NEW c \in C PROVE rank[Wants(c)] < rank[Wants(WaitsFor(c))]
      OBVIOUS
  <2>1. PICK d \in C : d = WaitsFor(c)
    BY <1>4
  <2>2. Blocked(c) /\ Blocked(d) /\ c \in Sessions /\ d \in Sessions
    BY <1>4
  <2>3. TakesInOrder(d, Wants(c), Wants(d))
    BY <2>1, <2>2, WaitsUpwards
  <2>4. Wants(c) \in rows /\ Wants(d) \in rows
    OBVIOUS
  <2> QED
    BY <1>3, <2>1, <2>3, <2>4
<1> DEFINE S == {rank[Wants(c)] : c \in C}
<1>6. \A c \in C : rank[Wants(c)] \in 1 .. n
  BY <1>3
<1>7. S \in SUBSET (1 .. n) /\ S # {}
  BY <1>1, <1>6
<1>8. PICK x \in S : \A y \in S : y <= x
  BY <1>2, <1>7, Greatest
<1>9. PICK c \in C : x = rank[Wants(c)]
  BY <1>8
<1>10. rank[Wants(WaitsFor(c))] <= rank[Wants(c)]
  BY <1>4, <1>8, <1>9
<1> QED
  BY <1>2, <1>4, <1>5, <1>6, <1>10

(* Sessions in a circle take the rows they wait for crossed: scanners that *)
(* list their findings in one order never make the database abort one of   *)
(* their parses, however many there are, and a bulk update that goes       *)
(* through the rows in that order too is in no circle with them.           *)
THEOREM OneOrderNeverAborts == Spec => []AbortsOnlyCrossed
<1> QED
  BY LookInvariance, NoCircleInOrder, PTL
-----------------------------------------------------------------------------
(* What a commit will store: the session writes rows of the hashes it has  *)
(* looked up, and each of those has a row or gets one, but for tools left  *)
(* off (StoreInv).  What is stored stays (WholeInv).                       *)
Stored(a, h) == h \in mine[a] \/ LeftOff(a, h) \/ \E r \in Rows : r[1] = h /\ Exists(r)

StoreInv == \A a \in Attempts : Parsing(a) =>
    /\ mine[a] \subseteq Seen(a)
    /\ \A r \in reopen[a] : r[1] \in Seen(a)
    /\ \A h \in Seen(a) : Stored(a, h)

WholeInv == \A a \in Attempts : pc[a] = "committed" =>
    \A h \in Range(Report[a]) : LeftOff(a, h) \/ \E r \in Rows : r[1] = h /\ Exists(r)

(* A session starts with nothing to store. *)
LEMMA BeginParseStore ==
  ASSUME IInv, LookInv, StoreInv, NEW a \in Attempts, BeginParse(a)
  PROVE  StoreInv'
<1> USE DEF IInv, LookInv, BeginParse
<1>1. next[a] = 1 /\ mine[a] = {} /\ reopen[a] = {}
  BY DEF IdleInv, StartInv
<1>2. Seen(a) = {}
  BY <1>1, ReportType DEF Seen
<1>3. \A b \in Attempts : Seen(b)' = Seen(b)
  BY DEF Seen
<1> QED
  BY <1>1, <1>2, <1>3 DEF StoreInv, Stored, LeftOff, TypeOK, Parsing, Exists

(* An insert adds a row for the hash it looked up. *)
LEMMA InsertStore ==
  ASSUME IInv, LookInv, StoreInv, NEW a \in Attempts, Insert(a)
  PROVE  StoreInv'
<1>1. /\ Seen(a)' = Seen(a) \cup {Current(a)}
      /\ \A b \in Attempts \ {a} : Seen(b)' = Seen(b)
  BY SeenNext DEF Insert
<1>2. /\ mine'[a] = mine[a] \cup {Current(a)}
      /\ \A b \in Attempts \ {a} : mine'[b] = mine[b]
      /\ UNCHANGED <<status, pc, reopen, cut>>
  BY DEF Insert, IInv, TypeOK
<1> QED
  BY <1>1, <1>2 DEF StoreInv, Stored, LeftOff, Parsing, Exists

(* A hash that was found has a row already. *)
LEMMA ObserveStore ==
  ASSUME IInv, LookInv, StoreInv, NEW a \in Attempts, Observe(a)
  PROVE  StoreInv'
<1>1. /\ Seen(a)' = Seen(a) \cup {Current(a)}
      /\ \A b \in Attempts \ {a} : Seen(b)' = Seen(b)
  BY SeenNext DEF Observe
<1>2. PICK r \in Rows :
        /\ Visible(a, Current(a)) = {r}
        /\ reopen' = [reopen EXCEPT ![a] =
             IF ShouldReopen(SeenAs(a, r)) THEN @ \cup {r} ELSE @]
  BY DEF Observe
<1>3. r[1] = Current(a) /\ (Exists(r) \/ Current(a) \in mine[a])
  BY <1>2 DEF Visible, Exists
<1>4. UNCHANGED <<status, pc, mine, cut>>
  BY DEF Observe
<1>5. /\ reopen'[a] \subseteq reopen[a] \cup {r}
      /\ \A b \in Attempts \ {a} : reopen'[b] = reopen[b]
  BY <1>2 DEF IInv, TypeOK
<1> SUFFICES ASSUME NEW b \in Attempts, Parsing(b)
             PROVE  /\ mine[b] \subseteq Seen(b)'
                    /\ \A x \in reopen'[b] : x[1] \in Seen(b)'
                    /\ \A h \in Seen(b)' : Stored(b, h)
    BY <1>4 DEF StoreInv, Stored, LeftOff, Parsing, Exists
<1>6. CASE b = a
  BY <1>1, <1>3, <1>5, <1>6 DEF StoreInv, Stored
<1>7. CASE b # a
  BY <1>1, <1>5, <1>7 DEF StoreInv
<1> QED
  BY <1>6, <1>7

(* What is skipped is of a tool left off. *)
LEMMA NextToolStore ==
  ASSUME IInv, LookInv, StoreInv, NEW a \in Attempts,
         Reporting(a), Tool(a, next[a]) \in Lenient, NextTool(a)
  PROVE  StoreInv'
<1>1. /\ Seen(a) \subseteq Seen(a)'
      /\ \A h \in Seen(a)' : h \in Seen(a) \/ LeftOff(a, h)'
      /\ cut[a] \subseteq cut'[a]
      /\ \A b \in Attempts \ {a} : Seen(b)' = Seen(b) /\ cut'[b] = cut[b]
  BY SeenSkip
<1>2. UNCHANGED <<status, pc, mine, reopen>>
  BY NextToolParts DEF IInv
<1> SUFFICES ASSUME NEW b \in Attempts, Parsing(b)
             PROVE  /\ mine[b] \subseteq Seen(b)'
                    /\ \A x \in reopen[b] : x[1] \in Seen(b)'
                    /\ \A h \in Seen(b)' : Stored(b, h)'
    BY <1>2 DEF StoreInv, Parsing
<1>3. \A h : Stored(b, h) => Stored(b, h)'
  BY <1>1, <1>2 DEF Stored, LeftOff, Exists
<1>4. CASE b = a
  BY <1>1, <1>3, <1>4 DEF StoreInv, Stored
<1>5. CASE b # a
  BY <1>1, <1>3, <1>5 DEF StoreInv
<1> QED
  BY <1>4, <1>5

(* What other sessions do leaves a session what it will store: rows are    *)
(* never removed.                                                          *)
LEMMA OthersStore ==
  ASSUME IInv, StoreInv, UNCHANGED cut,
         \A r \in Rows : Exists(r) => Exists(r)',
         \A b \in Attempts : Parsing(b)' =>
            /\ Parsing(b) /\ next'[b] = next[b]
            /\ mine'[b] = mine[b] /\ reopen'[b] = reopen[b]
  PROVE  StoreInv'
<1> SUFFICES ASSUME NEW b \in Attempts, Parsing(b)'
             PROVE  /\ mine'[b] \subseteq Seen(b)'
                    /\ \A x \in reopen'[b] : x[1] \in Seen(b)'
                    /\ \A h \in Seen(b)' : Stored(b, h)'
    BY DEF StoreInv
<1>1. Parsing(b) /\ Seen(b)' = Seen(b) /\ mine'[b] = mine[b] /\ reopen'[b] = reopen[b]
  BY DEF Seen
<1>2. \A h : Stored(b, h) => Stored(b, h)'
  BY <1>1 DEF Stored, LeftOff
<1> QED
  BY <1>1, <1>2 DEF StoreInv

(* The end of a parse. *)
LEMMA EndStore ==
  ASSUME IInv, StoreInv, NEW a \in Attempts, NEW o \in {"committed", "raised"},
         EndSession(a, o), \A r \in Rows : Exists(r) => Exists(r)'
  PROVE  StoreInv'
<1>1. /\ UNCHANGED cut
      /\ \A b \in Attempts : Parsing(b)' =>
            /\ Parsing(b) /\ next'[b] = next[b]
            /\ mine'[b] = mine[b] /\ reopen'[b] = reopen[b]
  BY EndParts DEF IInv
<1> QED
  BY <1>1, OthersStore

(* A verdict removes no row. *)
LEMMA AnalystKeeps ==
  ASSUME IInv, AnalystStep
  PROVE  UNCHANGED session /\ \A r \in Rows : Exists(r) => Exists(r)'
<1>1. Aside \/ \E v \in Verdicts, rows \in SUBSET Rows : Gives(rows, v)
  BY AnalystCases
<1>2. \A v \in Verdicts : v # "none"
  BY FindingDedupAssumption DEF Statuses
<1> QED
  BY <1>1, <1>2 DEF Aside, Gives, Exists

(* Every step preserves what a commit will store. *)
LEMMA NextStore == IInv /\ LookInv /\ StoreInv /\ [Next]_vars => StoreInv'
<1> SUFFICES ASSUME IInv, LookInv, StoreInv, [Next]_vars PROVE StoreInv'
    OBVIOUS
<1>1. ASSUME NEW a \in Attempts, Session(a) PROVE StoreInv'
  <2>1. CASE Rollback(a)
    BY <2>1, EndStore DEF Rollback, Exists
  <2>2. CASE Flush(a)
    <3>1. UNCHANGED <<status, pc, next, mine, reopen, cut>>
      BY <2>2, FlushParts DEF IInv
    <3> QED
      BY <3>1, OthersStore DEF Parsing, Exists
  <2>3. CASE Commit(a)
    <3>1. \A r \in Rows : Exists(r) => Exists(r)'
      BY <2>3, CommitStatus DEF Exists
    <3> QED
      BY <2>3, <3>1, EndStore DEF Commit
  <2> QED
    BY <1>1, <2>1, <2>2, <2>3, SessionCases, BeginParseStore, InsertStore, ObserveStore,
       NextToolStore
<1>2. CASE AnalystStep
  BY <1>2, AnalystKeeps, OthersStore DEF session, Parsing
<1>3. CASE UNCHANGED vars
  BY <1>3 DEF vars, session, StoreInv, Stored, LeftOff, Seen, Parsing, Exists
<1> QED
  BY <1>1, <1>2, <1>3 DEF Next, AnalystStep

(* A commit has a row for all it reports, but for tools left off. *)
LEMMA CommitWhole ==
  ASSUME IInv, StoreInv, NEW a \in Attempts, Commit(a), NEW h \in Range(Report[a])
  PROVE  LeftOff(a, h) \/ \E r \in Rows : r[1] = h /\ Exists(r)'
<1>1. Parsing(a) /\ h \in Seen(a)
  BY SeenAll DEF IInv, Commit
<1>2. CASE h \in mine[a]
  <2>1. <<h, a>> \in Rows /\ Mine(a, <<h, a>>)
    BY <1>2 DEF Rows, Mine, IInv, TypeOK
  <2>2. Exists(<<h, a>>)'
    BY <2>1, CommitStatus DEF Exists
  <2> QED
    BY <2>1, <2>2
<1>3. CASE \E r \in Rows : r[1] = h /\ Exists(r)
  <2>1. \A r \in Rows : Exists(r) => Exists(r)'
    BY CommitStatus DEF Exists
  <2> QED
    BY <1>3, <2>1
<1> QED
  BY <1>1, <1>2, <1>3 DEF StoreInv, Stored

(* Nothing that is stored is lost again. *)
LEMMA NextWhole == IInv /\ StoreInv /\ WholeInv /\ [Next]_vars => WholeInv'
<1> SUFFICES ASSUME IInv, StoreInv, WholeInv, [Next]_vars,
                    NEW a \in Attempts, pc'[a] = "committed", NEW h \in Range(Report[a])
             PROVE  LeftOff(a, h)' \/ \E r \in Rows : r[1] = h /\ Exists(r)'
    BY DEF WholeInv
<1>1. ASSUME pc[a] = "committed", cut'[a] = cut[a],
             \A r \in Rows : Exists(r) => Exists(r)'
      PROVE  LeftOff(a, h)' \/ \E r \in Rows : r[1] = h /\ Exists(r)'
  BY <1>1 DEF WholeInv, LeftOff
<1>2. ASSUME NEW b \in Attempts, Session(b)
      PROVE  LeftOff(a, h)' \/ \E r \in Rows : r[1] = h /\ Exists(r)'
  <2>1. CASE BeginParse(b)
    <3>1. pc[a] = "committed" /\ UNCHANGED <<cut, status>>
      BY <2>1 DEF BeginParse, IInv, TypeOK
    <3> QED
      BY <1>1, <3>1 DEF Exists
  <2>2. CASE Insert(b) \/ Observe(b)
    BY <1>1, <2>2 DEF Insert, Observe, Exists
  <2>3. CASE Flush(b)
    BY <1>1, <2>3, FlushParts DEF IInv, Exists
  <2>4. CASE Rollback(b)
    <3>1. UNCHANGED <<cut, status>> /\ pc[a] = "committed"
      BY <2>4, EndParts DEF Rollback, IInv
    <3> QED
      BY <1>1, <3>1 DEF Exists
  <2>5. CASE Reporting(b) /\ Tool(b, next[b]) \in Lenient /\ NextTool(b)
    <3>1. Parsing(b) /\ UNCHANGED <<pc, status>>
      BY <2>5, NextToolParts DEF IInv
    <3>2. a # b
      BY <3>1 DEF Parsing
    <3>3. cut'[a] = cut[a]
      BY <2>5, <3>2, SeenSkip
    <3> QED
      BY <1>1, <3>1, <3>3 DEF Exists
  <2>6. CASE Commit(b)
    <3>1. /\ pc[a] = "committed" \/ a = b
          /\ cut' = cut
      BY <2>6, EndParts DEF Commit, IInv
    <3>2. \A r \in Rows : Exists(r) => Exists(r)'
      BY <2>6, CommitStatus DEF Exists
    <3>3. CASE a = b
      BY <2>6, <3>1, <3>3, CommitWhole DEF LeftOff
    <3> QED
      BY <1>1, <3>1, <3>2, <3>3
  <2> QED
    BY <1>2, <2>1, <2>2, <2>3, <2>4, <2>5, <2>6, SessionCases
<1>3. CASE AnalystStep
  BY <1>1, <1>3, AnalystKeeps DEF session
<1>4. CASE UNCHANGED vars
  BY <1>1, <1>4 DEF vars, session, Exists
<1> QED
  BY <1>2, <1>3, <1>4 DEF Next, AnalystStep

(* The invariants hold in every reachable state. *)
LEMMA StoreInvariance == Spec => [](IInv /\ LookInv /\ StoreInv /\ WholeInv)
<1>1. Init => StoreInv /\ WholeInv
  BY DEF Init, StoreInv, WholeInv, Parsing
<1> QED
  BY <1>1, InitIInv, NextIInv, InitLook, NextLook, NextStore, NextWhole, PTL DEF Spec

(* However sessions overlap and fail, the rows in the database are those   *)
(* of attempts that committed, and these have stored or found all that     *)
(* they reported, but for the rest of a tool's report that the loop of a   *)
(* cloud or mobile scan left off.                                          *)
THEOREM PartialOnlyWhenCut == Spec => []AllUnlessCut
<1>1. IInv /\ WholeInv => AllUnlessCut
  BY DEF IInv, Owned, WholeInv, LeftOff, AllUnlessCut, Exists
<1> QED
  BY <1>1, StoreInvariance, PTL

(* Where the loop of every tool lets errors through, as web and infra      *)
(* scans do, a parse writes all it reports or nothing.                     *)
THEOREM StrictParsesAreWhole ==
  ASSUME Lenient = {}
  PROVE  Spec => [](\A a \in Attempts : \A h \in Range(Report[a]) :
           pc[a] = "committed" => \E r \in Rows : r[1] = h /\ status[r] # "none")
<1>1. TypeOK /\ AllUnlessCut =>
        \A a \in Attempts : \A h \in Range(Report[a]) :
          pc[a] = "committed" => \E r \in Rows : r[1] = h /\ status[r] # "none"
  BY DEF TypeOK, AllUnlessCut
<1>2. IInv => TypeOK
  BY DEF IInv
<1> QED
  BY <1>1, <1>2, Invariance, PartialOnlyWhenCut, PTL
-----------------------------------------------------------------------------
(* A commit stores all the session reported but for tools left off, and    *)
(* nothing else.                                                           *)
LEMMA CommitStores ==
  ASSUME IInv, LookInv, StoreInv, NEW a \in Attempts, Commit(a)
  PROVE  Ledger!Store(a)
<1> USE DEF IInv, LookInv
<1>1. /\ Parsing(a) /\ pc' = [pc EXCEPT ![a] = "committed"]
      /\ touched' = [touched EXCEPT ![a] = {}] /\ UNCHANGED <<before, cut>>
  BY DEF Commit, EndSession
<1>2. /\ Ledger!Rows = Rows /\ Ledger!Range(Report[a]) = Range(Report[a])
      /\ Seen(a) = Range(Report[a])
  BY SeenAll DEF Ledger!Rows, Rows, Ledger!Range, Range, Seen
<1>3. \A r \in Rows : status'[r] \in {status[r], "Open"}
  BY CommitStatus
<1>4. status' \in [Rows -> {status[r] : r \in Rows} \cup {"Open"}]
  BY <1>3 DEF Commit
<1>5. ASSUME NEW r \in Rows, status'[r] # status[r]
      PROVE  status'[r] = "Open" /\ (Ledger!MayAdd(a, r) \/ Ledger!MayReopen(a, r))
  <2>1. status'[r] = "Open" /\ (r \in reopen[a] \/ Mine(a, r))
    BY <1>5, CommitStatus
  <2>2. CASE Mine(a, r)
    <3>1. status[r] = "none"
      BY <1>1, <2>2 DEF Owned, Exists, Mine, Parsing
    <3>2. r[1] \in Range(Report[a])
      BY <1>1, <1>2, <2>2 DEF StoreInv, Mine
    <3>3. \A q \in Rows : q[1] = r[1] /\ status[q] # "none" => q[2] \notin before[a]
      BY <1>1, <2>2 DEF FreshInv, Mine, Exists
    <3> QED
      BY <1>2, <2>1, <2>2, <3>1, <3>2, <3>3 DEF Ledger!MayAdd, Ledger!Reports, Mine
  <2>3. CASE r \in reopen[a] /\ ~Mine(a, r)
    <3>1. status[r] # "none"
      BY <1>1, <2>3 DEF ReopenInv, Exists
    <3>2. r[1] \in Range(Report[a])
      BY <1>1, <1>2, <2>3 DEF StoreInv
    <3>3. status[r] = "Fixed" \/ r \in touched[a]
      BY <1>1, <1>5, <2>1, <2>3 DEF KeepInv
    <3> QED
      BY <1>2, <2>1, <3>1, <3>2, <3>3 DEF Ledger!MayReopen, Ledger!Reports
  <2> QED
    BY <2>1, <2>2, <2>3
<1>6. ASSUME NEW h \in Range(Report[a]), ToolOf[h] \notin cut[a]
      PROVE  \E r \in Rows : r[1] = h /\ status'[r] # "none"
  BY <1>6, CommitWhole DEF LeftOff, Exists
<1>7. ASSUME NEW r \in Rows, r[1] \in Range(Report[a]), status'[r] = "Fixed"
      PROVE  r \in touched[a] \/ ToolOf[r[1]] \in cut[a]
  BY <1>1, <1>2, <1>7, CommitStatus DEF SeenInv, LeftOff
<1> QED
  BY <1>1, <1>2, <1>4, <1>5, <1>6, <1>7 DEF Ledger!Store, Ledger!Reports, Parsing

(* Every step is one of the ledger's or leaves it alone. *)
LEMMA NextKeepsLedger ==
  IInv /\ LookInv /\ StoreInv /\ [Next]_vars => [Ledger!Next]_(Ledger!vars)
<1> SUFFICES ASSUME IInv, LookInv, StoreInv, [Next]_vars
             PROVE  Ledger!Next \/ UNCHANGED <<status, pc, touched, before, cut>>
    BY DEF Ledger!vars
<1>0. Ledger!Rows = Rows
  BY DEF Ledger!Rows, Rows
<1>1. ASSUME NEW a \in Attempts, Session(a)
      PROVE  Ledger!Next \/ UNCHANGED <<status, pc, touched, before, cut>>
  <2>1. CASE Parsing(a) /\ Rollback(a)
    <3>1. Ledger!GiveUp(a)
      BY <2>1 DEF Ledger!GiveUp, Rollback, EndSession, Parsing
    <3> QED
      BY <3>1 DEF Ledger!Next
  <2>2. CASE BeginParse(a)
    <3>1. Ledger!Begin(a)
      BY <2>2 DEF Ledger!Begin, BeginParse
    <3> QED
      BY <3>1 DEF Ledger!Next
  <2>3. CASE Insert(a) \/ Observe(a)
    BY <2>3 DEF Insert, Observe
  <2>4. CASE Flush(a)
    BY <2>4, FlushParts DEF IInv
  <2>5. CASE Commit(a)
    BY <2>5, CommitStores DEF Ledger!Next
  <2>6. CASE Reporting(a) /\ Tool(a, next[a]) \in Lenient /\ NextTool(a)
    <3>1. /\ Parsing(a) /\ Tool(a, next[a]) \in Lenient
          /\ cut' = [cut EXCEPT ![a] = @ \cup {Tool(a, next[a])}]
          /\ UNCHANGED <<status, pc, touched, before>>
      BY <2>6, NextToolParts DEF IInv
    <3>2. Ledger!LeaveOff(a)
      BY <3>1 DEF Ledger!LeaveOff, Parsing
    <3> QED
      BY <3>2 DEF Ledger!Next
  <2> QED
    BY <1>1, <2>1, <2>2, <2>3, <2>4, <2>5, <2>6, SessionCases
<1>2. ASSUME NEW v \in Verdicts, NEW rows \in SUBSET Rows, Gives(rows, v)
      PROVE  Ledger!Next
  <2>1. rows \in SUBSET {r \in Ledger!OnRecord : status'[r] = v}
    BY <1>0, <1>2 DEF Gives, Exists, Ledger!OnRecord
  <2>2. Ledger!Judge(rows, v)
    BY <1>0, <1>2 DEF Ledger!Judge, Gives, session, Parsing
  <2> QED
    BY <2>1, <2>2 DEF Ledger!Next
<1>3. CASE Aside
  BY <1>3 DEF Aside, session
<1>4. CASE UNCHANGED vars
  BY <1>4 DEF vars, session
<1> QED
  BY <1>1, <1>2, <1>3, <1>4, AnalystCases DEF Next, AnalystStep

(* Readers of the findings may think of a parse as one step taken at its   *)
(* commit: it stores what it reports but for tools it left off, adds no    *)
(* row for a hash that had one before it began, and changes only rows in   *)
(* Fixed, but for the verdicts given while it ran.                         *)
THEOREM LedgerKept == Spec => KeepsLedger
<1>1. Init => Ledger!Init
  BY DEF Init, Ledger!Init, Rows, Ledger!Rows
<1> QED
  BY <1>1, StoreInvariance, NextKeepsLedger, PTL DEF Spec, KeepsLedger, Ledger!Spec
-----------------------------------------------------------------------------
(* FindingLedger by itself keeps the promises about the rows: what follows *)
(* speaks of its steps alone, of no lookup, lock or flush.                 *)
LedgerInv ==
    /\ status \in [Rows -> Statuses \cup {"none"}]
    /\ pc \in [Attempts -> {"idle", "parsing", "committed", "raised"}]
    /\ before \in [Attempts -> SUBSET Attempts]
    /\ cut \in [Attempts -> SUBSET Lenient]
    /\ BeforeInv /\ AllUnlessCut /\ DuplicatesOverlapped

(* Beginning, leaving off, giving up and judging add no rows. *)
Quiet ==
    /\ status' \in [Rows -> Statuses \cup {"none"}]
    /\ \A r \in Rows : Exists(r)' <=> Exists(r)
    /\ pc' \in [Attempts -> {"idle", "parsing", "committed", "raised"}]
    /\ \A a \in Attempts : pc'[a] = "committed" <=> pc[a] = "committed"
    /\ before' \in [Attempts -> SUBSET Attempts]
    /\ \A a \in Attempts :
         \/ before'[a] = before[a]
         \/ pc[a] # "committed" /\ \A b \in before'[a] : pc[b] = "committed"
    /\ cut' \in [Attempts -> SUBSET Lenient]
    /\ \A a \in Attempts : cut[a] \subseteq cut'[a]

LEMMA LedgerQuiet ==
  ASSUME LedgerInv, Quiet
  PROVE  LedgerInv'
<1> USE DEF Quiet
<1>1. BeforeInv'
  BY DEF LedgerInv, BeforeInv
<1>2. AllUnlessCut'
  <2>1. \A r \in Rows : status'[r] # "none" => pc'[r[2]] = "committed"
    BY RowParts DEF LedgerInv, AllUnlessCut, Exists
  <2>2. ASSUME NEW a \in Attempts, NEW h \in Range(Report[a]),
               pc'[a] = "committed", ToolOf[h] \notin cut'[a]
        PROVE  \E r \in Rows : r[1] = h /\ status'[r] # "none"
    <3>1. PICK r \in Rows : r[1] = h /\ status[r] # "none"
      BY <2>2 DEF LedgerInv, AllUnlessCut
    <3> QED
      BY <3>1 DEF Exists
  <2> QED
    BY <2>1, <2>2 DEF AllUnlessCut
<1>3. DuplicatesOverlapped'
  <2> SUFFICES ASSUME NEW q \in Rows, NEW r \in Rows, q # r, q[1] = r[1],
                      Exists(q)', Exists(r)'
               PROVE  Overlapped(q[2], r[2])'
      BY DEF DuplicatesOverlapped, Exists
  <2>1. Exists(q) /\ Exists(r) /\ Overlapped(q[2], r[2])
    BY DEF LedgerInv, DuplicatesOverlapped, Exists
  <2>2. /\ q[2] \in Attempts /\ pc[q[2]] = "committed"
        /\ r[2] \in Attempts /\ pc[r[2]] = "committed"
    BY <2>1, RowParts DEF LedgerInv, AllUnlessCut, Exists
  <2>3. before'[q[2]] = before[q[2]] /\ before'[r[2]] = before[r[2]]
    BY <2>2
  <2> QED
    BY <2>1, <2>3 DEF Overlapped
<1> QED
  BY <1>1, <1>2, <1>3 DEF LedgerInv

LEMMA LedgerStore ==
  ASSUME LedgerInv, NEW a \in Attempts, Ledger!Store(a)
  PROVE  LedgerInv' /\ ReopenStep /\ VerdictStep
<1>1. /\ pc[a] = "parsing" /\ pc' = [pc EXCEPT ![a] = "committed"]
      /\ UNCHANGED <<before, cut>>
      /\ status' \in [Rows -> {status[r] : r \in Rows} \cup {"Open"}]
      /\ \A r \in Rows : status'[r] # status[r] =>
           status'[r] = "Open" /\ (Ledger!MayAdd(a, r) \/ Ledger!MayReopen(a, r))
      /\ \A h \in Ledger!Range(Report[a]) : ToolOf[h] \notin cut[a] =>
           \E r \in Rows : r[1] = h /\ status'[r] # "none"
      /\ \A r \in Rows : Ledger!Reports(a, r) /\ status'[r] = "Fixed" =>
           r \in touched[a] \/ ToolOf[r[1]] \in cut[a]
  BY DEF Ledger!Store, Ledger!Rows, Rows
<1>2. \A b \in Attempts : pc'[b] = IF b = a THEN "committed" ELSE pc[b]
  BY <1>1 DEF LedgerInv
<1>3. \A r \in Rows : Exists(r)' =>
        \/ Exists(r)
        \/ r[2] = a /\ \A q \in Rows : q[1] = r[1] /\ Exists(q) => q[2] \notin before[a]
  BY <1>1 DEF Ledger!MayAdd, Ledger!MayReopen, Ledger!Rows, Rows, Exists
<1>4. \A r \in Rows : Exists(r) => pc[r[2]] = "committed" /\ r[2] # a
  BY <1>1 DEF LedgerInv, AllUnlessCut, Exists
<1>5. LedgerInv'
  <2>1. /\ status' \in [Rows -> Statuses \cup {"none"}]
        /\ pc' \in [Attempts -> {"idle", "parsing", "committed", "raised"}]
        /\ before' \in [Attempts -> SUBSET Attempts]
        /\ cut' \in [Attempts -> SUBSET Lenient]
    <3>1. ASSUME NEW r \in Rows
          PROVE  status'[r] \in Statuses \cup {"none"}
      <4>1. status[r] \in Statuses \cup {"none"} /\ "Open" \in Statuses
        BY DEF LedgerInv, Statuses
      <4> QED
        BY <1>1, <4>1
    <3>2. status' = [r \in Rows |-> status'[r]]
      BY <1>1
    <3>3. status' \in [Rows -> Statuses \cup {"none"}]
      BY <3>1, <3>2
    <3>4. pc' \in [Attempts -> {"idle", "parsing", "committed", "raised"}]
      BY <1>1 DEF LedgerInv
    <3> QED
      BY <1>1, <3>3, <3>4 DEF LedgerInv
  <2>2. BeforeInv'
    BY <1>1, <1>2 DEF LedgerInv, BeforeInv
  <2>3. AllUnlessCut'
    <3>1. \A r \in Rows : status'[r] # "none" => pc'[r[2]] = "committed"
      BY <1>2, <1>3, <1>4, RowParts DEF Exists
    <3>2. \A r \in Rows : status[r] # "none" => status'[r] # "none"
      BY <1>1
    <3>3. ASSUME NEW b \in Attempts, NEW h \in Range(Report[b]),
                 pc'[b] = "committed", ToolOf[h] \notin cut'[b]
          PROVE  \E r \in Rows : r[1] = h /\ status'[r] # "none"
      <4>1. CASE b = a
        BY <1>1, <3>3, <4>1 DEF Range, Ledger!Range
      <4>2. CASE b # a
        <5>1. PICK r \in Rows : r[1] = h /\ status[r] # "none"
          BY <1>1, <1>2, <3>3, <4>2 DEF LedgerInv, AllUnlessCut
        <5> QED
          BY <3>2, <5>1
      <4> QED
        BY <4>1, <4>2
    <3> QED
      BY <3>1, <3>3 DEF AllUnlessCut
  <2>4. DuplicatesOverlapped'
    <3> SUFFICES ASSUME NEW q \in Rows, NEW r \in Rows, q # r, q[1] = r[1],
                        Exists(q)', Exists(r)'
                 PROVE  Overlapped(q[2], r[2])
        BY <1>1 DEF DuplicatesOverlapped, Exists, Overlapped
    <3>1. \A p \in Rows : Exists(p) => a \notin before[p[2]]
      BY <1>1, <1>4, RowParts DEF LedgerInv, BeforeInv
    <3>2. CASE Exists(q) /\ Exists(r)
      BY <3>2 DEF LedgerInv, DuplicatesOverlapped, Exists
    <3>3. CASE Exists(q) /\ ~Exists(r)
      BY <1>3, <3>1, <3>3 DEF Overlapped
    <3>4. CASE ~Exists(q) /\ Exists(r)
      BY <1>3, <3>1, <3>4 DEF Overlapped
    <3>5. CASE ~Exists(q) /\ ~Exists(r)
      BY <1>3, <3>5, RowParts
    <3> QED
      BY <3>2, <3>3, <3>4, <3>5
  <2> QED
    BY <2>1, <2>2, <2>3, <2>4 DEF LedgerInv
<1>6. \A b \in Attempts : Parsing(b) /\ pc'[b] = "committed" => b = a
  BY <1>2 DEF Parsing
<1>7. ReopenStep
  BY <1>1, <1>6 DEF ReopenStep, Ledger!Reports, Range, Ledger!Range
<1>8. VerdictStep
  BY <1>1, <1>6 DEF VerdictStep, Ledger!MayAdd, Ledger!MayReopen
<1> QED
  BY <1>5, <1>7, <1>8

LEMMA LedgerNext ==
  ASSUME LedgerInv, [Ledger!Next]_(Ledger!vars)
  PROVE  LedgerInv' /\ ReopenStep /\ VerdictStep
<1>1. ASSUME NEW a \in Attempts, Ledger!Store(a)
      PROVE  LedgerInv' /\ ReopenStep /\ VerdictStep
  BY <1>1, LedgerStore
<1>2. ASSUME \A b \in Attempts : Parsing(b) => pc'[b] # "committed"
      PROVE  ReopenStep /\ VerdictStep
  BY <1>2 DEF ReopenStep, VerdictStep
<1>3. ASSUME NEW a \in Attempts, Ledger!Begin(a)
      PROVE  LedgerInv' /\ ReopenStep /\ VerdictStep
  <2>1. /\ pc[a] = "idle" /\ pc' = [pc EXCEPT ![a] = "parsing"] /\ UNCHANGED <<status, cut>>
        /\ before' = [before EXCEPT ![a] = {b \in Attempts : pc[b] = "committed"}]
    BY <1>3 DEF Ledger!Begin
  <2>2. LedgerInv'
    BY <2>1, LedgerQuiet DEF LedgerInv, Exists, Quiet
  <2> QED
    BY <1>2, <2>1, <2>2 DEF Parsing, LedgerInv
<1>4. ASSUME NEW a \in Attempts, Ledger!GiveUp(a)
      PROVE  LedgerInv' /\ ReopenStep /\ VerdictStep
  <2>1. /\ pc[a] = "parsing" /\ pc' = [pc EXCEPT ![a] = "raised"]
        /\ UNCHANGED <<status, before, cut>>
    BY <1>4 DEF Ledger!GiveUp
  <2>2. LedgerInv'
    BY <2>1, LedgerQuiet DEF LedgerInv, Exists, Quiet
  <2> QED
    BY <1>2, <2>1, <2>2 DEF Parsing, LedgerInv
<1>5. ASSUME NEW a \in Attempts, Ledger!LeaveOff(a)
      PROVE  LedgerInv' /\ ReopenStep /\ VerdictStep
  <2>1. PICK t \in Lenient : cut' = [cut EXCEPT ![a] = @ \cup {t}]
    BY <1>5 DEF Ledger!LeaveOff
  <2>2. UNCHANGED <<status, pc, before>>
    BY <1>5 DEF Ledger!LeaveOff
  <2>3. LedgerInv'
    BY <2>1, <2>2, LedgerQuiet DEF LedgerInv, Exists, Quiet
  <2> QED
    BY <1>2, <2>2, <2>3 DEF Parsing
<1>6. ASSUME NEW v \in Verdicts,
             NEW rows \in SUBSET {r \in Ledger!OnRecord : status'[r] = v},
             Ledger!Judge(rows, v)
      PROVE  LedgerInv' /\ ReopenStep /\ VerdictStep
  <2>1. /\ UNCHANGED <<pc, before, cut>>
        /\ status' = [r \in Rows |-> IF r \in rows THEN v ELSE status[r]]
        /\ \A r \in rows : r \in Rows /\ status[r] # "none"
    BY <1>6 DEF Ledger!Judge, Ledger!OnRecord, Ledger!Rows, Rows
  <2>2. v \in Statuses /\ v # "none"
    BY FindingDedupAssumption DEF Statuses
  <2>3. LedgerInv'
    BY <2>1, <2>2, LedgerQuiet DEF LedgerInv, Exists, Quiet
  <2> QED
    BY <1>2, <2>1, <2>3 DEF Parsing
<1>7. CASE UNCHANGED Ledger!vars
  <2>1. LedgerInv'
    BY <1>7, LedgerQuiet DEF Ledger!vars, LedgerInv, Exists, Quiet
  <2> QED
    BY <1>2, <1>7, <2>1 DEF Ledger!vars, Parsing
<1> QED
  BY <1>1, <1>3, <1>4, <1>5, <1>6, <1>7 DEF Ledger!Next

(* Whoever reads the findings can rely on the ledger: its steps alone give *)
(* that only parses that overlap duplicate a hash, that rows belong to     *)
(* parses that committed and lack only what these left off, and that       *)
(* verdicts are kept and Fixed reopened but for verdicts given while a     *)
(* parse ran and tools left off (_upsert_finding, _parse_cloud_findings).  *)
THEOREM LedgerSuffices ==
  Ledger!Spec => [](DuplicatesOverlapped /\ AllUnlessCut) /\ ReopensFixed /\ VerdictsKept
<1>1. Ledger!Init => LedgerInv
  BY DEF Ledger!Init, Ledger!Rows, Rows, LedgerInv, BeforeInv, AllUnlessCut,
         DuplicatesOverlapped
<1>2. LedgerInv => DuplicatesOverlapped /\ AllUnlessCut
  BY DEF LedgerInv
<1>3. LedgerInv /\ [Ledger!Next]_(Ledger!vars)
        => LedgerInv' /\ [ReopenStep]_vars /\ [VerdictStep]_vars
  BY LedgerNext
<1> QED
  BY <1>1, <1>2, <1>3, PTL DEF Ledger!Spec, ReopensFixed, VerdictsKept
-----------------------------------------------------------------------------
(* Sessions that parse one at a time, as on a single slot. *)
Serial == \A a, b \in Attempts : Parsing(a) /\ Parsing(b) => a = b

OneRowPerHash ==
    \A q, r \in Rows : q[1] = r[1] /\ Exists(q) /\ Exists(r) => q = r

LookupsUnique ==
    \A a \in Attempts, h \in Hashes : Parsing(a) =>
        \A q, r \in Visible(a, h) : q = r

Began(a) == pc[a] \in {"parsing", "committed"}

(* Of two parses that did not overlap one had committed before the other.  *)
SerialInv ==
    \A a, b \in Attempts : a # b /\ Began(a) /\ Began(b) =>
        a \in before[b] \/ b \in before[a]

(* A parse that begins follows all that have committed. *)
LEMMA NextSerial == IInv /\ SerialInv /\ Serial' /\ [Next]_vars => SerialInv'
<1> SUFFICES ASSUME IInv, SerialInv, Serial', [Next]_vars PROVE SerialInv'
    OBVIOUS
<1>1. ASSUME NEW a \in Attempts, BeginParse(a) PROVE SerialInv'
  <2>1. pc' = [pc EXCEPT ![a] = "parsing"] /\ pc'[a] = "parsing"
    BY <1>1 DEF BeginParse, IInv, TypeOK
  <2>2. \A b \in Attempts \ {a} : Began(b)' => b \in before'[a]
    BY <1>1, <2>1 DEF BeginParse, Serial, Parsing, Began, IInv, TypeOK
  <2>3. \A b \in Attempts \ {a} : before'[b] = before[b] /\ (Began(b)' <=> Began(b))
    BY <1>1 DEF BeginParse, IInv, TypeOK, Began
  <2> QED
    BY <2>2, <2>3 DEF SerialInv
<1>2. ASSUME UNCHANGED before, \A b \in Attempts : Began(b)' => Began(b)
      PROVE  SerialInv'
  BY <1>2 DEF SerialInv
<1>3. ASSUME NEW a \in Attempts, Session(a), ~BeginParse(a)
      PROVE  UNCHANGED before /\ \A b \in Attempts : Began(b)' => Began(b)
  <2>1. ASSUME NEW o \in {"committed", "raised"}, EndSession(a, o), Parsing(a)
        PROVE  UNCHANGED before /\ \A b \in Attempts : Began(b)' => Began(b)
    BY <2>1, EndParts DEF IInv, Began, Parsing
  <2>2. CASE Insert(a) \/ Observe(a) \/ NextTool(a)
    BY <2>2 DEF Insert, Observe, NextTool, Began
  <2>3. CASE Flush(a)
    BY <2>3, FlushParts DEF IInv, Began
  <2> QED
    BY <1>3, <2>1, <2>2, <2>3, SessionCases DEF Commit, Rollback
<1>4. CASE AnalystStep
  BY <1>2, <1>4, AnalystCases DEF Aside, Gives, session, Began
<1>5. CASE UNCHANGED vars
  BY <1>5 DEF vars, session, SerialInv, Began
<1> QED
  BY <1>1, <1>2, <1>3, <1>4, <1>5 DEF Next, AnalystStep

(* Rows of one hash come from parses that overlapped, so from one parse.   *)
LEMMA SerialRows == IInv /\ SerialInv => OneRowPerHash /\ LookupsUnique
<1> SUFFICES ASSUME IInv, SerialInv PROVE OneRowPerHash /\ LookupsUnique
    OBVIOUS
<1> USE DEF IInv
<1>1. OneRowPerHash
  <2> SUFFICES ASSUME NEW q \in Rows, NEW r \in Rows,
                      q[1] = r[1], Exists(q), Exists(r), q # r
               PROVE  FALSE
      BY DEF OneRowPerHash
  <2>1. q[2] # r[2] /\ q[2] \in Attempts /\ r[2] \in Attempts
    BY RowParts
  <2>2. Began(q[2]) /\ Began(r[2])
    BY DEF Owned, Began
  <2>3. Overlapped(q[2], r[2])
    BY DEF DuplicatesOverlapped, Exists
  <2> QED
    BY <2>1, <2>2, <2>3 DEF Overlapped, SerialInv
<1>2. ASSUME NEW a \in Attempts, Parsing(a), NEW r \in Rows, Exists(r)
      PROVE  r[1] \notin mine[a]
  <2>1. r[2] \in Attempts /\ pc[r[2]] = "committed" /\ r[2] # a
    BY <1>2, RowParts DEF Owned, Parsing
  <2>2. r[2] \in before[a]
    BY <1>2, <2>1 DEF SerialInv, Began, BeforeInv, Parsing
  <2> QED
    BY <1>2, <2>2 DEF FreshInv
<1>3. LookupsUnique
  <2> SUFFICES ASSUME NEW a \in Attempts, NEW h \in Hashes, Parsing(a),
                      NEW q \in Visible(a, h), NEW r \in Visible(a, h)
               PROVE  q = r
      BY DEF LookupsUnique
  <2>1. /\ q \in Rows /\ q[1] = h /\ (Exists(q) \/ (q[2] = a /\ h \in mine[a]))
        /\ r \in Rows /\ r[1] = h /\ (Exists(r) \/ (r[2] = a /\ h \in mine[a]))
    BY DEF Visible, Exists
  <2>2. CASE Exists(q) /\ Exists(r)
    BY <1>1, <2>1, <2>2 DEF OneRowPerHash
  <2>3. CASE h \in mine[a]
    BY <1>2, <2>1, <2>3, RowParts
  <2> QED
    BY <2>1, <2>2, <2>3
<1> QED
  BY <1>1, <1>3

(* Where parses of an engagement do not overlap, its findings have one row *)
(* per hash and no lookup of _upsert_finding finds two: the missing unique *)
(* constraint matters only to scans that run at the same time.             *)
THEOREM SerialParsesKeepOneRow == Spec /\ []Serial => [](OneRowPerHash /\ LookupsUnique)
<1>1. Init => SerialInv
  BY DEF Init, SerialInv, Began
<1> QED
  BY <1>1, NextSerial, SerialRows, Invariance, PTL DEF Spec
-----------------------------------------------------------------------------
(* A set of natural numbers has a least element. *)
LEMMA Least ==
  ASSUME NEW S \in SUBSET Nat, S # {}
  PROVE  \E x \in S : \A y \in S : x <= y
<1>1. \E x \in S : \A y \in S : ~ (<<y, x>> \in OpToRel(<, Nat))
  BY NatLessThanWellFounded, WFMin
<1>2. \E x \in S : \A y \in S : ~ (y < x)
  BY <1>1 DEF OpToRel
<1>3. PICK x \in S : \A y \in S : ~ (y < x)
  BY <1>2
<1> QED
  BY <1>3

(* Sessions that are open: parses, and bulk updates. *)
Running == {a \in Attempts : Parsing(a)} \cup {b \in Analysts : plan[b] # <<>>}

NeverStuck ==
    Running # {} =>
        \/ \E s \in Running : ~Blocked(s)
        \/ \E C \in (SUBSET Running) \ {{}} : Circle(C)

(* If all wait, a smallest set of sessions that wait for each other is a   *)
(* circle.                                                                 *)
LEMMA WaitingEndsInCircle == IInv => NeverStuck
<1> SUFFICES ASSUME IInv, Running # {}, \A s \in Running : Blocked(s)
             PROVE  \E C \in (SUBSET Running) \ {{}} : Circle(C)
    BY DEF NeverStuck
<1> USE DEF IInv
<1>1. ASSUME NEW s \in Running PROVE WaitsFor(s) \in Running
  <2>1. s \in Sessions /\ Updating(s) /\ lock[Wants(s)] \notin {NoOne, s}
    BY <1>1 DEF Running, Sessions, Blocked
  <2>2. Wants(s) \in Rows
    <3>1. CASE s \in Attempts
      BY <2>1, <3>1, SessionParts DEF Wants, Updating, TypeOK
    <3>2. CASE s \in Analysts
      <4>1. Wants(s) = plan[s][visited[s] + 1] /\ visited[s] < Len(plan[s])
        BY <2>1, <3>2, SessionParts DEF Wants, Updating
      <4>2. plan[s] \in Seq(Rows) /\ visited[s] + 1 \in 1 .. Len(plan[s])
        BY <3>2, <4>1 DEF TypeOK
      <4> QED
        BY <4>1, <4>2
    <3> QED
      BY <2>1, <3>1, <3>2 DEF Sessions
  <2> DEFINE h == lock[Wants(s)]
  <2>3. h \in Sessions
    BY <2>1, <2>2 DEF TypeOK
  <2>4. CASE h \in Attempts
    BY <2>2, <2>4 DEF TypeOK, LocksHeld, Running, WaitsFor
  <2>5. CASE h \in Analysts
    <3>1. \E i \in 1 .. visited[h] : plan[h][i] = Wants(s)
      BY <2>2, <2>5 DEF TypeOK, LocksHeld
    <3>2. visited[h] \in Nat /\ visited[h] # 0 /\ visited[h] <= Len(plan[h])
      BY <2>5, <3>1 DEF TypeOK, PlanInv
    <3>3. plan[h] # <<>>
      BY <3>2
    <3> QED
      BY <2>5, <3>3 DEF Running, WaitsFor
  <2> QED
    BY <2>3, <2>4, <2>5 DEF Sessions
<1> DEFINE Closed(C) == C # {} /\ \A c \in C : WaitsFor(c) \in C
           Closeds   == {C \in SUBSET Running : Closed(C)}
           Sizes     == {Cardinality(C) : C \in Closeds}
<1>2. \A C \in SUBSET Running : IsFiniteSet(C) /\ Cardinality(C) \in Nat
  <2>1. IsFiniteSet(Sessions) /\ Running \subseteq Sessions
    BY FindingDedupAssumption, FS_Union DEF Sessions, Running
  <2> QED
    BY <2>1, FS_Subset, FS_CardinalityType
<1>3. Running \in Closeds
  BY <1>1
<1>4. Sizes \in SUBSET Nat /\ Sizes # {}
  BY <1>2, <1>3
<1>5. PICK n \in Sizes : \A m \in Sizes : n <= m
  BY <1>4, Least
<1>6. PICK C \in Closeds : n = Cardinality(C)
  BY <1>5
<1> DEFINE D == {WaitsFor(c) : c \in C}
<1>7. D \in SUBSET C /\ D \in Closeds
  BY <1>6
<1>8. Cardinality(C) <= Cardinality(D)
  BY <1>5, <1>6, <1>7
<1>9. D = C
  BY <1>2, <1>6, <1>7, <1>8, FS_Subset
<1>10. Circle(C)
  BY <1>6, <1>9 DEF Circle
<1> QED
  BY <1>6, <1>10

(* Sessions never wait all at once but in a circle, which the database     *)
(* breaks: short of that, some parse or bulk update can always go on.      *)
THEOREM SomeParseGoesOn == Spec => []NeverStuck
<1> QED
  BY WaitingEndsInCircle, Invariance, PTL
=============================================================================
