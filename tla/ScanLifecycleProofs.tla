------------------------ MODULE ScanLifecycleProofs ------------------------
(***************************************************************************)
(* Safety of ScanLifecycle for any set of scans and worker slots and any   *)
(* number of faults, and the refinement of ScanContract.                   *)
(***************************************************************************)
EXTENDS ScanLifecycle, TLAPS

(* A row exists only once its start_scan transaction has committed; cancel *)
(* requests and revocations concern committed scans; and nothing of a      *)
(* deleted engagement is left.                                             *)
RowInv ==
    /\ \A s \in Scans : RowPresent(s) => tx[s] = "committed"
    /\ \A s \in Scans : cancel[s] # "idle" \/ s \in revoked => tx[s] = "committed"
    /\ ~engagement => \A s \in Scans : ~RowPresent(s) /\ tx[s] # "open"

(* Attempts run in their scan's queue, for a message that was sent.        *)
PlaceInv ==
    /\ \A w \in Workers : job[w] # NoScan =>
         /\ Pool[w] = Route[Kind[job[w]]]
         /\ msg[job[w]] # "none"
    /\ \A s \in Scans : tx[s] = "none" => msg[s] = "none"

(* An attempt past its first write while start_scan is still open has      *)
(* missed the row.                                                         *)
MissInv ==
    \A w \in Workers :
        job[w] # NoScan /\ pc[w] # "begin" /\ tx[job[w]] = "open"
            => harm[job[w]] # {}

(* StrandedOnlyByHarm, extended to scans whose row is about to appear.     *)
PendingInv ==
    \A s \in Scans :
        /\ Guarded(s)
        /\ harm[s] = {}
        /\ status[s] \in Active \/ tx[s] = "open"
        => Pending(s)

(* Attempts past the parse step have committed the findings.               *)
ParsedInv ==
    /\ CompletedImpliesParsed
    /\ \A w \in Workers :
         pc[w] \in {"complete", "hookC", "bookC"} => parsed[job[w]]

(* Without redelivery of live attempts, a message is outstanding exactly   *)
(* while one slot runs it.                                                 *)
SoleInv ==
    "redeliver" \notin Faults =>
        /\ SoleRunner
        /\ \A w \in Workers : job[w] # NoScan => msg[job[w]] = "unacked"
-----------------------------------------------------------------------------
(* Initial states are well typed. *)
LEMMA InitTypeOK == Init => TypeOK
BY ScanLifecycleAssumption
   DEF Init, TypeOK, TxStates, CancelStates, Active, Terminal, MsgStates, Steps, Harms

(* Harm leaves a mark on its scan and takes none away. *)
LEMMA HarmMarks ==
    ASSUME TypeOK, NEW s \in Scans, NEW h, Harm(s, h)
    PROVE  /\ harm'[s] # {}
           /\ \A r \in Scans : harm'[r] = {} => harm[r] = {}
BY DEF TypeOK, Harm

(* Every step keeps the types. *)
LEMMA NextTypeOK == TypeOK /\ [Next]_vars => TypeOK'
<1> SUFFICES ASSUME TypeOK, [Next]_vars PROVE TypeOK'
  OBVIOUS
<1> USE ScanLifecycleAssumption
        DEF TypeOK, TxStates, CancelStates, Active, Terminal, MsgStates, Harms,
            Steps, Writing, api, store, broker, slots, history
<1>1. ASSUME NEW s \in Scans, StartScan(s) PROVE TypeOK'
  BY <1>1 DEF StartScan
<1>2. ASSUME NEW s \in Scans, CommitStart(s) PROVE TypeOK'
  BY <1>2 DEF CommitStart
<1>3. ASSUME NEW s \in Scans, AbortStart(s) PROVE TypeOK'
  BY <1>3 DEF AbortStart, Fault
<1>4. ASSUME NEW s \in Scans, CancelCheck(s) PROVE TypeOK'
  BY <1>4 DEF CancelCheck
<1>5. ASSUME NEW s \in Scans, CancelRevoke(s) PROVE TypeOK'
  BY <1>5 DEF CancelRevoke, Fault
<1>6. ASSUME NEW s \in Scans, CancelCommit(s) PROVE TypeOK'
  BY <1>6 DEF CancelCommit, UpdateStatus
<1>7. ASSUME NEW s \in Scans, AbortCancel(s) PROVE TypeOK'
  BY <1>7 DEF AbortCancel, Fault, Harm
<1>8. ASSUME NEW s \in Scans, Discard(s) PROVE TypeOK'
  BY <1>8 DEF Discard, HarmIf, Harm
<1>9. ASSUME NEW s \in Scans, Redeliver(s) PROVE TypeOK'
  BY <1>9 DEF Redeliver, Fault
<1>10. ASSUME DeleteEngagement PROVE TypeOK'
  BY <1>10 DEF DeleteEngagement
<1>11. ASSUME RecoverStale PROVE TypeOK'
  BY <1>11 DEF RecoverStale, Fault
<1>12. ASSUME NEW s \in Scans, NEW w \in Workers, Deliver(w, s) PROVE TypeOK'
  BY <1>12 DEF Deliver
<1>13. ASSUME NEW w \in Workers, BeginRun(w) PROVE TypeOK'
  BY <1>13 DEF BeginRun, UpdateStatus, HarmIf, Harm, Goto
<1>14. ASSUME NEW w \in Workers, BeginRaises(w) PROVE TypeOK'
  BY <1>14 DEF BeginRaises, Fault, Harm, Goto
<1>15. ASSUME NEW w \in Workers, SetupRaises(w) PROVE TypeOK'
  BY <1>15 DEF SetupRaises, Fault, Harm, Goto
<1>16. ASSUME NEW w \in Workers, ToolsExit(w) PROVE TypeOK'
  BY <1>16 DEF ToolsExit, Goto, Raise
<1>17. ASSUME NEW w \in Workers, ParseFindings(w) PROVE TypeOK'
  BY <1>17 DEF ParseFindings, Goto
<1>18. ASSUME NEW w \in Workers, ParseRaises(w) PROVE TypeOK'
  BY <1>18 DEF ParseRaises, Raise, Goto
<1>19. ASSUME NEW w \in Workers, Complete(w) PROVE TypeOK'
  BY <1>19 DEF Complete, UpdateStatus, Goto, AfterWrite
<1>20. ASSUME NEW w \in Workers, CompleteRaises(w) PROVE TypeOK'
  BY <1>20 DEF CompleteRaises, Fault, Raise, Goto
<1>21. ASSUME NEW w \in Workers, Fail(w) PROVE TypeOK'
  BY <1>21 DEF Fail, UpdateStatus, Goto, AfterWrite
<1>22. ASSUME NEW w \in Workers, FailRaises(w) PROVE TypeOK'
  BY <1>22 DEF FailRaises, Fault, Harm, Goto
<1>23. ASSUME NEW w \in Workers, PostHook(w) PROVE TypeOK'
  BY <1>23 DEF PostHook, Goto
<1>24. ASSUME NEW w \in Workers, RecordHook(w) PROVE TypeOK'
  BY <1>24 DEF RecordHook, Goto
<1>25. ASSUME NEW w \in Workers, RecordRaises(w) PROVE TypeOK'
  BY <1>25 DEF RecordRaises, Fault, Raise, Goto
<1>26. ASSUME NEW w \in Workers, EndTask(w) PROVE TypeOK'
  BY <1>26 DEF EndTask, Acknowledge, Free
<1>27. ASSUME NEW w \in Workers, Terminate(w) PROVE TypeOK'
  BY <1>27 DEF Terminate, HarmIf, Harm, Acknowledge, Free
<1>28. ASSUME NEW w \in Workers, LoseChild(w) PROVE TypeOK'
  BY <1>28 DEF LoseChild, Fault, Harm, Acknowledge, Free
<1>29. ASSUME NEW q \in Queues, CrashWorker(q) PROVE TypeOK'
  BY <1>29 DEF CrashWorker, Fault
<1>30. CASE UNCHANGED vars
  BY <1>30 DEF vars
<1> QED
  BY <1>1, <1>2, <1>3, <1>4, <1>5, <1>6, <1>7, <1>8, <1>9, <1>10, <1>11,
     <1>12, <1>13, <1>14, <1>15, <1>16, <1>17, <1>18, <1>19, <1>20, <1>21,
     <1>22, <1>23, <1>24, <1>25, <1>26, <1>27, <1>28, <1>29, <1>30
  DEF Next, Api, Broker, Worker, TaskStep

(* Rows appear by commit and vanish by deletion only. *)
LEMMA NextRowInv == TypeOK /\ RowInv /\ [Next]_vars => RowInv'
<1> SUFFICES ASSUME TypeOK, RowInv, [Next]_vars PROVE RowInv'
  OBVIOUS
<1> USE DEF TypeOK, RowInv, RowPresent, Active, api, store, broker, slots, history
<1>1. ASSUME NEW s \in Scans, StartScan(s) PROVE RowInv'
  BY <1>1 DEF StartScan
<1>2. ASSUME NEW s \in Scans, CommitStart(s) PROVE RowInv'
  BY <1>2 DEF CommitStart
<1>3. ASSUME NEW s \in Scans, AbortStart(s) PROVE RowInv'
  BY <1>3 DEF AbortStart, Fault
<1>4. ASSUME NEW s \in Scans, CancelCheck(s) PROVE RowInv'
  BY <1>4 DEF CancelCheck
<1>5. ASSUME NEW s \in Scans, CancelRevoke(s) PROVE RowInv'
  BY <1>5 DEF CancelRevoke, Fault
<1>6. ASSUME NEW s \in Scans, CancelCommit(s) PROVE RowInv'
  BY <1>6 DEF CancelCommit, UpdateStatus
<1>7. ASSUME NEW s \in Scans, AbortCancel(s) PROVE RowInv'
  BY <1>7 DEF AbortCancel, Fault, Harm
<1>8. ASSUME NEW s \in Scans, Discard(s) PROVE RowInv'
  BY <1>8 DEF Discard, HarmIf, Harm
<1>9. ASSUME NEW s \in Scans, Redeliver(s) PROVE RowInv'
  BY <1>9 DEF Redeliver, Fault
<1>10. ASSUME DeleteEngagement PROVE RowInv'
  BY <1>10 DEF DeleteEngagement
<1>11. ASSUME RecoverStale PROVE RowInv'
  BY <1>11 DEF RecoverStale, Fault
<1>12. ASSUME NEW s \in Scans, NEW w \in Workers, Deliver(w, s) PROVE RowInv'
  BY <1>12 DEF Deliver
<1>13. ASSUME NEW w \in Workers, BeginRun(w) PROVE RowInv'
  BY <1>13 DEF BeginRun, UpdateStatus, HarmIf, Harm, Goto
<1>14. ASSUME NEW w \in Workers, BeginRaises(w) PROVE RowInv'
  BY <1>14 DEF BeginRaises, Fault, Harm, Goto
<1>15. ASSUME NEW w \in Workers, SetupRaises(w) PROVE RowInv'
  BY <1>15 DEF SetupRaises, Fault, Harm, Goto
<1>16. ASSUME NEW w \in Workers, ToolsExit(w) PROVE RowInv'
  BY <1>16 DEF ToolsExit, Goto, Raise
<1>17. ASSUME NEW w \in Workers, ParseFindings(w) PROVE RowInv'
  BY <1>17 DEF ParseFindings, Goto
<1>18. ASSUME NEW w \in Workers, ParseRaises(w) PROVE RowInv'
  BY <1>18 DEF ParseRaises, Raise, Goto
<1>19. ASSUME NEW w \in Workers, Complete(w) PROVE RowInv'
  BY <1>19 DEF Complete, UpdateStatus, Goto, AfterWrite
<1>20. ASSUME NEW w \in Workers, CompleteRaises(w) PROVE RowInv'
  BY <1>20 DEF CompleteRaises, Fault, Raise, Goto
<1>21. ASSUME NEW w \in Workers, Fail(w) PROVE RowInv'
  BY <1>21 DEF Fail, UpdateStatus, Goto, AfterWrite
<1>22. ASSUME NEW w \in Workers, FailRaises(w) PROVE RowInv'
  BY <1>22 DEF FailRaises, Fault, Harm, Goto
<1>23. ASSUME NEW w \in Workers, PostHook(w) PROVE RowInv'
  BY <1>23 DEF PostHook, Goto
<1>24. ASSUME NEW w \in Workers, RecordHook(w) PROVE RowInv'
  BY <1>24 DEF RecordHook, Goto
<1>25. ASSUME NEW w \in Workers, RecordRaises(w) PROVE RowInv'
  BY <1>25 DEF RecordRaises, Fault, Raise, Goto
<1>26. ASSUME NEW w \in Workers, EndTask(w) PROVE RowInv'
  BY <1>26 DEF EndTask, Acknowledge, Free
<1>27. ASSUME NEW w \in Workers, Terminate(w) PROVE RowInv'
  BY <1>27 DEF Terminate, HarmIf, Harm, Acknowledge, Free
<1>28. ASSUME NEW w \in Workers, LoseChild(w) PROVE RowInv'
  BY <1>28 DEF LoseChild, Fault, Harm, Acknowledge, Free
<1>29. ASSUME NEW q \in Queues, CrashWorker(q) PROVE RowInv'
  BY <1>29 DEF CrashWorker, Fault
<1>30. CASE UNCHANGED vars
  BY <1>30 DEF vars
<1> QED
  BY <1>1, <1>2, <1>3, <1>4, <1>5, <1>6, <1>7, <1>8, <1>9, <1>10, <1>11,
     <1>12, <1>13, <1>14, <1>15, <1>16, <1>17, <1>18, <1>19, <1>20, <1>21,
     <1>22, <1>23, <1>24, <1>25, <1>26, <1>27, <1>28, <1>29, <1>30
  DEF Next, Api, Broker, Worker, TaskStep

(* A slot takes messages of its own queue, and none is unsent. *)
LEMMA NextPlaceInv == TypeOK /\ PlaceInv /\ [Next]_vars => PlaceInv'
<1> SUFFICES ASSUME TypeOK, PlaceInv, [Next]_vars PROVE PlaceInv'
  OBVIOUS
<1> USE ScanLifecycleAssumption
        DEF TypeOK, PlaceInv, api, store, broker, slots, history
<1>1. ASSUME NEW s \in Scans, StartScan(s) PROVE PlaceInv'
  BY <1>1 DEF StartScan
<1>2. ASSUME NEW s \in Scans, CommitStart(s) PROVE PlaceInv'
  BY <1>2 DEF CommitStart
<1>3. ASSUME NEW s \in Scans, AbortStart(s) PROVE PlaceInv'
  BY <1>3 DEF AbortStart, Fault
<1>4. ASSUME NEW s \in Scans, CancelCheck(s) PROVE PlaceInv'
  BY <1>4 DEF CancelCheck
<1>5. ASSUME NEW s \in Scans, CancelRevoke(s) PROVE PlaceInv'
  BY <1>5 DEF CancelRevoke, Fault
<1>6. ASSUME NEW s \in Scans, CancelCommit(s) PROVE PlaceInv'
  BY <1>6 DEF CancelCommit, UpdateStatus
<1>7. ASSUME NEW s \in Scans, AbortCancel(s) PROVE PlaceInv'
  BY <1>7 DEF AbortCancel, Fault, Harm
<1>8. ASSUME NEW s \in Scans, Discard(s) PROVE PlaceInv'
  BY <1>8 DEF Discard, HarmIf, Harm
<1>9. ASSUME NEW s \in Scans, Redeliver(s) PROVE PlaceInv'
  BY <1>9 DEF Redeliver, Fault
<1>10. ASSUME DeleteEngagement PROVE PlaceInv'
  BY <1>10 DEF DeleteEngagement
<1>11. ASSUME RecoverStale PROVE PlaceInv'
  BY <1>11 DEF RecoverStale, Fault
<1>12. ASSUME NEW s \in Scans, NEW w \in Workers, Deliver(w, s) PROVE PlaceInv'
  BY <1>12 DEF Deliver
<1>13. ASSUME NEW w \in Workers, BeginRun(w) PROVE PlaceInv'
  BY <1>13 DEF BeginRun, UpdateStatus, HarmIf, Harm, Goto
<1>14. ASSUME NEW w \in Workers, BeginRaises(w) PROVE PlaceInv'
  BY <1>14 DEF BeginRaises, Fault, Harm, Goto
<1>15. ASSUME NEW w \in Workers, SetupRaises(w) PROVE PlaceInv'
  BY <1>15 DEF SetupRaises, Fault, Harm, Goto
<1>16. ASSUME NEW w \in Workers, ToolsExit(w) PROVE PlaceInv'
  BY <1>16 DEF ToolsExit, Goto, Raise
<1>17. ASSUME NEW w \in Workers, ParseFindings(w) PROVE PlaceInv'
  BY <1>17 DEF ParseFindings, Goto
<1>18. ASSUME NEW w \in Workers, ParseRaises(w) PROVE PlaceInv'
  BY <1>18 DEF ParseRaises, Raise, Goto
<1>19. ASSUME NEW w \in Workers, Complete(w) PROVE PlaceInv'
  BY <1>19 DEF Complete, UpdateStatus, Goto, AfterWrite
<1>20. ASSUME NEW w \in Workers, CompleteRaises(w) PROVE PlaceInv'
  BY <1>20 DEF CompleteRaises, Fault, Raise, Goto
<1>21. ASSUME NEW w \in Workers, Fail(w) PROVE PlaceInv'
  BY <1>21 DEF Fail, UpdateStatus, Goto, AfterWrite
<1>22. ASSUME NEW w \in Workers, FailRaises(w) PROVE PlaceInv'
  BY <1>22 DEF FailRaises, Fault, Harm, Goto
<1>23. ASSUME NEW w \in Workers, PostHook(w) PROVE PlaceInv'
  BY <1>23 DEF PostHook, Goto
<1>24. ASSUME NEW w \in Workers, RecordHook(w) PROVE PlaceInv'
  BY <1>24 DEF RecordHook, Goto
<1>25. ASSUME NEW w \in Workers, RecordRaises(w) PROVE PlaceInv'
  BY <1>25 DEF RecordRaises, Fault, Raise, Goto
<1>26. ASSUME NEW w \in Workers, EndTask(w) PROVE PlaceInv'
  BY <1>26 DEF EndTask, Acknowledge, Free
<1>27. ASSUME NEW w \in Workers, Terminate(w) PROVE PlaceInv'
  BY <1>27 DEF Terminate, HarmIf, Harm, Acknowledge, Free
<1>28. ASSUME NEW w \in Workers, LoseChild(w) PROVE PlaceInv'
  BY <1>28 DEF LoseChild, Fault, Harm, Acknowledge, Free
<1>29. ASSUME NEW q \in Queues, CrashWorker(q) PROVE PlaceInv'
  BY <1>29 DEF CrashWorker, Fault
<1>30. CASE UNCHANGED vars
  BY <1>30 DEF vars
<1> QED
  BY <1>1, <1>2, <1>3, <1>4, <1>5, <1>6, <1>7, <1>8, <1>9, <1>10, <1>11,
     <1>12, <1>13, <1>14, <1>15, <1>16, <1>17, <1>18, <1>19, <1>20, <1>21,
     <1>22, <1>23, <1>24, <1>25, <1>26, <1>27, <1>28, <1>29, <1>30
  DEF Next, Api, Broker, Worker, TaskStep

(* Findings are committed before a Completed write or notice. *)
LEMMA NextParsedInv == TypeOK /\ ParsedInv /\ [Next]_vars => ParsedInv'
<1> SUFFICES ASSUME TypeOK, ParsedInv, [Next]_vars PROVE ParsedInv'
  OBVIOUS
<1> USE ScanLifecycleAssumption
        DEF TypeOK, ParsedInv, CompletedImpliesParsed, Terminal, Active, api, store, broker, slots, history
<1>1. ASSUME NEW s \in Scans, StartScan(s) PROVE ParsedInv'
  BY <1>1 DEF StartScan
<1>2. ASSUME NEW s \in Scans, CommitStart(s) PROVE ParsedInv'
  BY <1>2 DEF CommitStart
<1>3. ASSUME NEW s \in Scans, AbortStart(s) PROVE ParsedInv'
  BY <1>3 DEF AbortStart, Fault
<1>4. ASSUME NEW s \in Scans, CancelCheck(s) PROVE ParsedInv'
  BY <1>4 DEF CancelCheck
<1>5. ASSUME NEW s \in Scans, CancelRevoke(s) PROVE ParsedInv'
  BY <1>5 DEF CancelRevoke, Fault
<1>6. ASSUME NEW s \in Scans, CancelCommit(s) PROVE ParsedInv'
  BY <1>6 DEF CancelCommit, UpdateStatus
<1>7. ASSUME NEW s \in Scans, AbortCancel(s) PROVE ParsedInv'
  BY <1>7 DEF AbortCancel, Fault, Harm
<1>8. ASSUME NEW s \in Scans, Discard(s) PROVE ParsedInv'
  BY <1>8 DEF Discard, HarmIf, Harm
<1>9. ASSUME NEW s \in Scans, Redeliver(s) PROVE ParsedInv'
  BY <1>9 DEF Redeliver, Fault
<1>10. ASSUME DeleteEngagement PROVE ParsedInv'
  BY <1>10 DEF DeleteEngagement
<1>11. ASSUME RecoverStale PROVE ParsedInv'
  BY <1>11 DEF RecoverStale, Fault
<1>12. ASSUME NEW s \in Scans, NEW w \in Workers, Deliver(w, s) PROVE ParsedInv'
  BY <1>12 DEF Deliver
<1>13. ASSUME NEW w \in Workers, BeginRun(w) PROVE ParsedInv'
  BY <1>13 DEF BeginRun, UpdateStatus, HarmIf, Harm, Goto
<1>14. ASSUME NEW w \in Workers, BeginRaises(w) PROVE ParsedInv'
  BY <1>14 DEF BeginRaises, Fault, Harm, Goto
<1>15. ASSUME NEW w \in Workers, SetupRaises(w) PROVE ParsedInv'
  BY <1>15 DEF SetupRaises, Fault, Harm, Goto
<1>16. ASSUME NEW w \in Workers, ToolsExit(w) PROVE ParsedInv'
  BY <1>16 DEF ToolsExit, Goto, Raise
<1>17. ASSUME NEW w \in Workers, ParseFindings(w) PROVE ParsedInv'
  BY <1>17 DEF ParseFindings, Goto
<1>18. ASSUME NEW w \in Workers, ParseRaises(w) PROVE ParsedInv'
  BY <1>18 DEF ParseRaises, Raise, Goto
<1>19. ASSUME NEW w \in Workers, Complete(w) PROVE ParsedInv'
  BY <1>19 DEF Complete, UpdateStatus, Goto, AfterWrite
<1>20. ASSUME NEW w \in Workers, CompleteRaises(w) PROVE ParsedInv'
  BY <1>20 DEF CompleteRaises, Fault, Raise, Goto
<1>21. ASSUME NEW w \in Workers, Fail(w) PROVE ParsedInv'
  BY <1>21 DEF Fail, UpdateStatus, Goto, AfterWrite
<1>22. ASSUME NEW w \in Workers, FailRaises(w) PROVE ParsedInv'
  BY <1>22 DEF FailRaises, Fault, Harm, Goto
<1>23. ASSUME NEW w \in Workers, PostHook(w) PROVE ParsedInv'
  BY <1>23 DEF PostHook, Goto
<1>24. ASSUME NEW w \in Workers, RecordHook(w) PROVE ParsedInv'
  BY <1>24 DEF RecordHook, Goto
<1>25. ASSUME NEW w \in Workers, RecordRaises(w) PROVE ParsedInv'
  BY <1>25 DEF RecordRaises, Fault, Raise, Goto
<1>26. ASSUME NEW w \in Workers, EndTask(w) PROVE ParsedInv'
  BY <1>26 DEF EndTask, Acknowledge, Free
<1>27. ASSUME NEW w \in Workers, Terminate(w) PROVE ParsedInv'
  BY <1>27 DEF Terminate, HarmIf, Harm, Acknowledge, Free
<1>28. ASSUME NEW w \in Workers, LoseChild(w) PROVE ParsedInv'
  BY <1>28 DEF LoseChild, Fault, Harm, Acknowledge, Free
<1>29. ASSUME NEW q \in Queues, CrashWorker(q) PROVE ParsedInv'
  BY <1>29 DEF CrashWorker, Fault
<1>30. CASE UNCHANGED vars
  BY <1>30 DEF vars
<1> QED
  BY <1>1, <1>2, <1>3, <1>4, <1>5, <1>6, <1>7, <1>8, <1>9, <1>10, <1>11,
     <1>12, <1>13, <1>14, <1>15, <1>16, <1>17, <1>18, <1>19, <1>20, <1>21,
     <1>22, <1>23, <1>24, <1>25, <1>26, <1>27, <1>28, <1>29, <1>30
  DEF Next, Api, Broker, Worker, TaskStep

(* An attempt that begins before the commit is marked. *)
LEMMA NextMissInv == TypeOK /\ RowInv /\ PlaceInv /\ MissInv /\ [Next]_vars => MissInv'
<1> SUFFICES ASSUME TypeOK, RowInv, PlaceInv, MissInv, [Next]_vars PROVE MissInv'
  OBVIOUS
<1> USE ScanLifecycleAssumption
        DEF TypeOK, RowInv, PlaceInv, MissInv, RowPresent, api, store, broker, slots, history
<1>1. ASSUME NEW s \in Scans, StartScan(s) PROVE MissInv'
  BY <1>1 DEF StartScan
<1>2. ASSUME NEW s \in Scans, CommitStart(s) PROVE MissInv'
  BY <1>2 DEF CommitStart
<1>3. ASSUME NEW s \in Scans, AbortStart(s) PROVE MissInv'
  BY <1>3 DEF AbortStart, Fault
<1>4. ASSUME NEW s \in Scans, CancelCheck(s) PROVE MissInv'
  BY <1>4 DEF CancelCheck
<1>5. ASSUME NEW s \in Scans, CancelRevoke(s) PROVE MissInv'
  BY <1>5 DEF CancelRevoke, Fault
<1>6. ASSUME NEW s \in Scans, CancelCommit(s) PROVE MissInv'
  BY <1>6 DEF CancelCommit, UpdateStatus
<1>7. ASSUME NEW s \in Scans, AbortCancel(s) PROVE MissInv'
  BY <1>7, HarmMarks DEF AbortCancel, Fault
<1>8. ASSUME NEW s \in Scans, Discard(s) PROVE MissInv'
  BY <1>8, HarmMarks DEF Discard, HarmIf
<1>9. ASSUME NEW s \in Scans, Redeliver(s) PROVE MissInv'
  BY <1>9 DEF Redeliver, Fault
<1>10. ASSUME DeleteEngagement PROVE MissInv'
  BY <1>10 DEF DeleteEngagement
<1>11. ASSUME RecoverStale PROVE MissInv'
  BY <1>11 DEF RecoverStale, Fault
<1>12. ASSUME NEW s \in Scans, NEW w \in Workers, Deliver(w, s) PROVE MissInv'
  BY <1>12 DEF Deliver
<1>13. ASSUME NEW w \in Workers, BeginRun(w) PROVE MissInv'
  BY <1>13, HarmMarks DEF BeginRun, UpdateStatus, HarmIf, Goto
<1>14. ASSUME NEW w \in Workers, BeginRaises(w) PROVE MissInv'
  BY <1>14, HarmMarks DEF BeginRaises, Fault, Goto
<1>15. ASSUME NEW w \in Workers, SetupRaises(w) PROVE MissInv'
  BY <1>15, HarmMarks DEF SetupRaises, Fault, Goto
<1>16. ASSUME NEW w \in Workers, ToolsExit(w) PROVE MissInv'
  BY <1>16 DEF ToolsExit, Goto, Raise
<1>17. ASSUME NEW w \in Workers, ParseFindings(w) PROVE MissInv'
  BY <1>17 DEF ParseFindings, Goto
<1>18. ASSUME NEW w \in Workers, ParseRaises(w) PROVE MissInv'
  BY <1>18 DEF ParseRaises, Raise, Goto
<1>19. ASSUME NEW w \in Workers, Complete(w) PROVE MissInv'
  BY <1>19 DEF Complete, UpdateStatus, Goto, AfterWrite
<1>20. ASSUME NEW w \in Workers, CompleteRaises(w) PROVE MissInv'
  BY <1>20 DEF CompleteRaises, Fault, Raise, Goto
<1>21. ASSUME NEW w \in Workers, Fail(w) PROVE MissInv'
  BY <1>21 DEF Fail, UpdateStatus, Goto, AfterWrite
<1>22. ASSUME NEW w \in Workers, FailRaises(w) PROVE MissInv'
  BY <1>22, HarmMarks DEF FailRaises, Fault, Goto
<1>23. ASSUME NEW w \in Workers, PostHook(w) PROVE MissInv'
  BY <1>23 DEF PostHook, Goto
<1>24. ASSUME NEW w \in Workers, RecordHook(w) PROVE MissInv'
  BY <1>24 DEF RecordHook, Goto
<1>25. ASSUME NEW w \in Workers, RecordRaises(w) PROVE MissInv'
  BY <1>25 DEF RecordRaises, Fault, Raise, Goto
<1>26. ASSUME NEW w \in Workers, EndTask(w) PROVE MissInv'
  BY <1>26 DEF EndTask, Acknowledge, Free
<1>27. ASSUME NEW w \in Workers, Terminate(w) PROVE MissInv'
  BY <1>27, HarmMarks DEF Terminate, HarmIf, Acknowledge, Free
<1>28. ASSUME NEW w \in Workers, LoseChild(w) PROVE MissInv'
  BY <1>28, HarmMarks DEF LoseChild, Fault, Acknowledge, Free
<1>29. ASSUME NEW q \in Queues, CrashWorker(q) PROVE MissInv'
  BY <1>29 DEF CrashWorker, Fault
<1>30. CASE UNCHANGED vars
  BY <1>30 DEF vars
<1> QED
  BY <1>1, <1>2, <1>3, <1>4, <1>5, <1>6, <1>7, <1>8, <1>9, <1>10, <1>11,
     <1>12, <1>13, <1>14, <1>15, <1>16, <1>17, <1>18, <1>19, <1>20, <1>21,
     <1>22, <1>23, <1>24, <1>25, <1>26, <1>27, <1>28, <1>29, <1>30
  DEF Next, Api, Broker, Worker, TaskStep

(* One message, one slot, without redelivery. *)
LEMMA NextSoleInv == TypeOK /\ PlaceInv /\ SoleInv /\ [Next]_vars => SoleInv'
<1> SUFFICES ASSUME TypeOK, PlaceInv, SoleInv, [Next]_vars PROVE SoleInv'
  OBVIOUS
<1> USE ScanLifecycleAssumption
        DEF TypeOK, PlaceInv, SoleInv, SoleRunner, Live, MsgStates, api, store, broker, slots, history
<1>1. ASSUME NEW s \in Scans, StartScan(s) PROVE SoleInv'
  BY <1>1 DEF StartScan
<1>2. ASSUME NEW s \in Scans, CommitStart(s) PROVE SoleInv'
  BY <1>2 DEF CommitStart
<1>3. ASSUME NEW s \in Scans, AbortStart(s) PROVE SoleInv'
  BY <1>3 DEF AbortStart, Fault
<1>4. ASSUME NEW s \in Scans, CancelCheck(s) PROVE SoleInv'
  BY <1>4 DEF CancelCheck
<1>5. ASSUME NEW s \in Scans, CancelRevoke(s) PROVE SoleInv'
  BY <1>5 DEF CancelRevoke, Fault
<1>6. ASSUME NEW s \in Scans, CancelCommit(s) PROVE SoleInv'
  BY <1>6 DEF CancelCommit, UpdateStatus
<1>7. ASSUME NEW s \in Scans, AbortCancel(s) PROVE SoleInv'
  BY <1>7 DEF AbortCancel, Fault, Harm
<1>8. ASSUME NEW s \in Scans, Discard(s) PROVE SoleInv'
  BY <1>8 DEF Discard, HarmIf, Harm
<1>9. ASSUME NEW s \in Scans, Redeliver(s) PROVE SoleInv'
  BY <1>9 DEF Redeliver, Fault
<1>10. ASSUME DeleteEngagement PROVE SoleInv'
  BY <1>10 DEF DeleteEngagement
<1>11. ASSUME RecoverStale PROVE SoleInv'
  BY <1>11 DEF RecoverStale, Fault
<1>12. ASSUME NEW s \in Scans, NEW w \in Workers, Deliver(w, s) PROVE SoleInv'
  BY <1>12 DEF Deliver
<1>13. ASSUME NEW w \in Workers, BeginRun(w) PROVE SoleInv'
  BY <1>13 DEF BeginRun, UpdateStatus, HarmIf, Harm, Goto
<1>14. ASSUME NEW w \in Workers, BeginRaises(w) PROVE SoleInv'
  BY <1>14 DEF BeginRaises, Fault, Harm, Goto
<1>15. ASSUME NEW w \in Workers, SetupRaises(w) PROVE SoleInv'
  BY <1>15 DEF SetupRaises, Fault, Harm, Goto
<1>16. ASSUME NEW w \in Workers, ToolsExit(w) PROVE SoleInv'
  BY <1>16 DEF ToolsExit, Goto, Raise
<1>17. ASSUME NEW w \in Workers, ParseFindings(w) PROVE SoleInv'
  BY <1>17 DEF ParseFindings, Goto
<1>18. ASSUME NEW w \in Workers, ParseRaises(w) PROVE SoleInv'
  BY <1>18 DEF ParseRaises, Raise, Goto
<1>19. ASSUME NEW w \in Workers, Complete(w) PROVE SoleInv'
  BY <1>19 DEF Complete, UpdateStatus, Goto, AfterWrite
<1>20. ASSUME NEW w \in Workers, CompleteRaises(w) PROVE SoleInv'
  BY <1>20 DEF CompleteRaises, Fault, Raise, Goto
<1>21. ASSUME NEW w \in Workers, Fail(w) PROVE SoleInv'
  BY <1>21 DEF Fail, UpdateStatus, Goto, AfterWrite
<1>22. ASSUME NEW w \in Workers, FailRaises(w) PROVE SoleInv'
  BY <1>22 DEF FailRaises, Fault, Harm, Goto
<1>23. ASSUME NEW w \in Workers, PostHook(w) PROVE SoleInv'
  BY <1>23 DEF PostHook, Goto
<1>24. ASSUME NEW w \in Workers, RecordHook(w) PROVE SoleInv'
  BY <1>24 DEF RecordHook, Goto
<1>25. ASSUME NEW w \in Workers, RecordRaises(w) PROVE SoleInv'
  BY <1>25 DEF RecordRaises, Fault, Raise, Goto
<1>26. ASSUME NEW w \in Workers, EndTask(w) PROVE SoleInv'
  BY <1>26 DEF EndTask, Acknowledge, Free
<1>27. ASSUME NEW w \in Workers, Terminate(w) PROVE SoleInv'
  BY <1>27 DEF Terminate, HarmIf, Harm, Acknowledge, Free
<1>28. ASSUME NEW w \in Workers, LoseChild(w) PROVE SoleInv'
  BY <1>28 DEF LoseChild, Fault, Harm, Acknowledge, Free
<1>29. ASSUME NEW q \in Queues, CrashWorker(q) PROVE SoleInv'
  BY <1>29 DEF CrashWorker, Fault
<1>30. CASE UNCHANGED vars
  BY <1>30 DEF vars
<1> QED
  BY <1>1, <1>2, <1>3, <1>4, <1>5, <1>6, <1>7, <1>8, <1>9, <1>10, <1>11,
     <1>12, <1>13, <1>14, <1>15, <1>16, <1>17, <1>18, <1>19, <1>20, <1>21,
     <1>22, <1>23, <1>24, <1>25, <1>26, <1>27, <1>28, <1>29, <1>30
  DEF Next, Api, Broker, Worker, TaskStep

(* Nothing but Harms strands a guarded scan. *)
LEMMA NextPendingInv == TypeOK /\ RowInv /\ PlaceInv /\ MissInv /\ PendingInv /\ [Next]_vars => PendingInv'
<1> SUFFICES ASSUME TypeOK, RowInv, PlaceInv, MissInv, PendingInv, [Next]_vars PROVE PendingInv'
  OBVIOUS
<1> USE ScanLifecycleAssumption
        DEF TypeOK, RowInv, PlaceInv, MissInv, PendingInv, Pending, Live, WillWrite, Writing,
            Guarded, Active, RowPresent, api, store, broker, slots, history
<1>1. ASSUME NEW s \in Scans, StartScan(s) PROVE PendingInv'
  BY <1>1 DEF StartScan
<1>2. ASSUME NEW s \in Scans, CommitStart(s) PROVE PendingInv'
  BY <1>2 DEF CommitStart
<1>3. ASSUME NEW s \in Scans, AbortStart(s) PROVE PendingInv'
  BY <1>3 DEF AbortStart, Fault
<1>4. ASSUME NEW s \in Scans, CancelCheck(s) PROVE PendingInv'
  BY <1>4 DEF CancelCheck
<1>5. ASSUME NEW s \in Scans, CancelRevoke(s) PROVE PendingInv'
  BY <1>5 DEF CancelRevoke, Fault
<1>6. ASSUME NEW s \in Scans, CancelCommit(s) PROVE PendingInv'
  BY <1>6 DEF CancelCommit, UpdateStatus
<1>7. ASSUME NEW s \in Scans, AbortCancel(s) PROVE PendingInv'
  BY <1>7, HarmMarks DEF AbortCancel, Fault
<1>8. ASSUME NEW s \in Scans, Discard(s) PROVE PendingInv'
  BY <1>8, HarmMarks DEF Discard, HarmIf
<1>9. ASSUME NEW s \in Scans, Redeliver(s) PROVE PendingInv'
  BY <1>9 DEF Redeliver, Fault
<1>10. ASSUME DeleteEngagement PROVE PendingInv'
  BY <1>10 DEF DeleteEngagement
<1>11. ASSUME RecoverStale PROVE PendingInv'
  BY <1>11 DEF RecoverStale, Fault
<1>12. ASSUME NEW s \in Scans, NEW w \in Workers, Deliver(w, s) PROVE PendingInv'
  BY <1>12 DEF Deliver
<1>13. ASSUME NEW w \in Workers, BeginRun(w) PROVE PendingInv'
  BY <1>13, HarmMarks DEF BeginRun, UpdateStatus, HarmIf, Goto
<1>14. ASSUME NEW w \in Workers, BeginRaises(w) PROVE PendingInv'
  BY <1>14, HarmMarks DEF BeginRaises, Fault, Goto
<1>15. ASSUME NEW w \in Workers, SetupRaises(w) PROVE PendingInv'
  BY <1>15, HarmMarks DEF SetupRaises, Fault, Goto
<1>16. ASSUME NEW w \in Workers, ToolsExit(w) PROVE PendingInv'
  BY <1>16 DEF ToolsExit, Goto, Raise
<1>17. ASSUME NEW w \in Workers, ParseFindings(w) PROVE PendingInv'
  BY <1>17 DEF ParseFindings, Goto
<1>18. ASSUME NEW w \in Workers, ParseRaises(w) PROVE PendingInv'
  BY <1>18 DEF ParseRaises, Raise, Goto
<1>19. ASSUME NEW w \in Workers, Complete(w) PROVE PendingInv'
  BY <1>19 DEF Complete, UpdateStatus, Goto, AfterWrite
<1>20. ASSUME NEW w \in Workers, CompleteRaises(w) PROVE PendingInv'
  BY <1>20 DEF CompleteRaises, Fault, Raise, Goto
<1>21. ASSUME NEW w \in Workers, Fail(w) PROVE PendingInv'
  BY <1>21 DEF Fail, UpdateStatus, Goto, AfterWrite
<1>22. ASSUME NEW w \in Workers, FailRaises(w) PROVE PendingInv'
  BY <1>22, HarmMarks DEF FailRaises, Fault, Goto
<1>23. ASSUME NEW w \in Workers, PostHook(w) PROVE PendingInv'
  BY <1>23 DEF PostHook, Goto
<1>24. ASSUME NEW w \in Workers, RecordHook(w) PROVE PendingInv'
  BY <1>24 DEF RecordHook, Goto
<1>25. ASSUME NEW w \in Workers, RecordRaises(w) PROVE PendingInv'
  BY <1>25 DEF RecordRaises, Fault, Raise, Goto
<1>26. ASSUME NEW w \in Workers, EndTask(w) PROVE PendingInv'
  BY <1>26 DEF EndTask, Acknowledge, Free
<1>27. ASSUME NEW w \in Workers, Terminate(w) PROVE PendingInv'
  BY <1>27, HarmMarks DEF Terminate, HarmIf, Acknowledge, Free
<1>28. ASSUME NEW w \in Workers, LoseChild(w) PROVE PendingInv'
  BY <1>28, HarmMarks DEF LoseChild, Fault, Acknowledge, Free
<1>29. ASSUME NEW q \in Queues, CrashWorker(q) PROVE PendingInv'
  <2> SUFFICES ASSUME NEW s \in Scans, Guarded(s), harm'[s] = {},
                      status'[s] \in Active \/ tx'[s] = "open"
               PROVE  Pending(s)'
    BY DEF PendingInv
  <2> DEFINE down == {w \in Workers : Pool[w] = q}
             hit  == {job[w] : w \in down} \ {NoScan}
  <2>1. /\ UNCHANGED <<cancel, msg, tx, status>>
        /\ \A w \in Workers : job'[w] = IF w \in down THEN NoScan ELSE job[w]
        /\ \A w \in Workers : w \notin down => pc'[w] = pc[w]
        /\ harm'[s] = IF s \in hit /\ msg[s] = "acked"
                     THEN harm[s] \cup {"lost"} ELSE harm[s]
    BY <1>29 DEF CrashWorker
  <2>2. harm[s] = {} /\ ~(s \in hit /\ msg[s] = "acked")
    BY <2>1
  <2>3. Pending(s)
    BY <2>1, <2>2
  <2>4. CASE Route[Kind[s]] = q
    \* Every slot that ran s is down: its message is waiting or orphaned.
    <3>1. \A w \in Workers : job[w] = s => w \in down
      BY <2>4
    <3>2. ~Live(s)'
      BY <2>1, <3>1
    <3>3. WillWrite(s) => msg[s] \in {"ready", "unacked"}
      <4>1. WillWrite(s) => s \in hit /\ msg[s] # "none"
        BY <3>1
      <4> QED
        BY <2>2, <4>1 DEF MsgStates
    <3> QED
      BY <2>1, <2>3, <3>2, <3>3
  <2>5. CASE Route[Kind[s]] # q
    \* No slot that runs s is down.
    <3>1. \A w \in Workers : job[w] = s => w \notin down
      BY <2>5
    <3> QED
      BY <2>1, <2>3, <3>1
  <2> QED
    BY <2>4, <2>5
<1>30. CASE UNCHANGED vars
  BY <1>30 DEF vars
<1> QED
  BY <1>1, <1>2, <1>3, <1>4, <1>5, <1>6, <1>7, <1>8, <1>9, <1>10, <1>11,
     <1>12, <1>13, <1>14, <1>15, <1>16, <1>17, <1>18, <1>19, <1>20, <1>21,
     <1>22, <1>23, <1>24, <1>25, <1>26, <1>27, <1>28, <1>29, <1>30
  DEF Next, Api, Broker, Worker, TaskStep

-----------------------------------------------------------------------------
(* The inductive invariant: StrandedOnlyByHarm needs to know when rows     *)
(* exist, where attempts run, and which of them missed their row.          *)
IInv == /\ TypeOK
        /\ RowInv
        /\ PlaceInv
        /\ MissInv
        /\ PendingInv
        /\ ParsedInv
        /\ SoleInv

(* The initial states satisfy the inductive invariant. *)
LEMMA InitIInv == Init => IInv
<1> SUFFICES ASSUME Init PROVE IInv
  OBVIOUS
<1>1. TypeOK
  BY InitTypeOK
<1>2. RowInv
  BY DEF Init, RowInv, RowPresent
<1>3. PlaceInv /\ MissInv /\ SoleInv
  BY DEF Init, PlaceInv, MissInv, SoleInv, SoleRunner
<1>4. PendingInv
  BY DEF Init, PendingInv, Active
<1>5. ParsedInv
  BY DEF Init, ParsedInv, CompletedImpliesParsed
<1> QED
  BY <1>1, <1>2, <1>3, <1>4, <1>5 DEF IInv

(* Every step preserves the inductive invariant. *)
LEMMA NextIInv == IInv /\ [Next]_vars => IInv'
BY NextTypeOK, NextRowInv, NextPlaceInv, NextMissInv, NextPendingInv,
   NextParsedInv, NextSoleInv
   DEF IInv

(* The inductive invariant holds in every reachable state. *)
LEMMA Invariance == Spec => []IInv
BY InitIInv, NextIInv, PTL DEF Spec

(* Every reachable state is well typed. *)
THEOREM TypeCorrect == Spec => []TypeOK
<1>1. IInv => TypeOK
  BY DEF IInv
<1> QED
  BY <1>1, Invariance, PTL

(* However often tasks are redelivered, cancelled, recovered or crash, a   *)
(* scan is Completed, and announced as such, only after its findings were  *)
(* committed (the parse step of run_*_scan).                               *)
THEOREM CompletedOnlyAfterParse == Spec => []CompletedImpliesParsed
<1>1. IInv => CompletedImpliesParsed
  BY DEF IInv, ParsedInv
<1> QED
  BY <1>1, Invariance, PTL

(* Only the named harms strand a scan of a guarded kind in Queued or       *)
(* Running; with none of them something always remains to move it on.      *)
THEOREM NothingElseStrands == Spec => []StrandedOnlyByHarm
<1>1. IInv => StrandedOnlyByHarm
  BY DEF IInv, PendingInv, StrandedOnlyByHarm
<1> QED
  BY <1>1, Invariance, PTL

(* Late acknowledgement runs a scan in at most one slot as long as no      *)
(* attempt outlives the visibility timeout.                                *)
THEOREM OneSlotPerScan == Spec => []SoleRunner
<1>1. IInv => SoleRunner
  BY DEF IInv, SoleInv, SoleRunner
<1> QED
  BY <1>1, Invariance, PTL
-----------------------------------------------------------------------------
(* No step moves the status of a settled scan, deletion apart. *)
LEMMA NextSettled == TypeOK /\ RowInv /\ [Next]_vars => SettledStep
<1> SUFFICES ASSUME TypeOK, RowInv, [Next]_vars PROVE SettledStep
  OBVIOUS
<1> USE DEF TypeOK, RowInv, RowPresent, SettledStep, Settled, Live, Terminal, api, store, broker, slots, history
<1>1. ASSUME NEW s \in Scans, StartScan(s) PROVE SettledStep
  BY <1>1 DEF StartScan
<1>2. ASSUME NEW s \in Scans, CommitStart(s) PROVE SettledStep
  BY <1>2 DEF CommitStart
<1>3. ASSUME NEW s \in Scans, AbortStart(s) PROVE SettledStep
  BY <1>3 DEF AbortStart, Fault
<1>4. ASSUME NEW s \in Scans, CancelCheck(s) PROVE SettledStep
  BY <1>4 DEF CancelCheck
<1>5. ASSUME NEW s \in Scans, CancelRevoke(s) PROVE SettledStep
  BY <1>5 DEF CancelRevoke, Fault
<1>6. ASSUME NEW s \in Scans, CancelCommit(s) PROVE SettledStep
  BY <1>6 DEF CancelCommit, UpdateStatus
<1>7. ASSUME NEW s \in Scans, AbortCancel(s) PROVE SettledStep
  BY <1>7 DEF AbortCancel, Fault, Harm
<1>8. ASSUME NEW s \in Scans, Discard(s) PROVE SettledStep
  BY <1>8 DEF Discard, HarmIf, Harm
<1>9. ASSUME NEW s \in Scans, Redeliver(s) PROVE SettledStep
  BY <1>9 DEF Redeliver, Fault
<1>10. ASSUME DeleteEngagement PROVE SettledStep
  BY <1>10 DEF DeleteEngagement
<1>11. ASSUME RecoverStale PROVE SettledStep
  BY <1>11 DEF RecoverStale, Fault
<1>12. ASSUME NEW s \in Scans, NEW w \in Workers, Deliver(w, s) PROVE SettledStep
  BY <1>12 DEF Deliver
<1>13. ASSUME NEW w \in Workers, BeginRun(w) PROVE SettledStep
  BY <1>13 DEF BeginRun, UpdateStatus, HarmIf, Harm, Goto
<1>14. ASSUME NEW w \in Workers, BeginRaises(w) PROVE SettledStep
  BY <1>14 DEF BeginRaises, Fault, Harm, Goto
<1>15. ASSUME NEW w \in Workers, SetupRaises(w) PROVE SettledStep
  BY <1>15 DEF SetupRaises, Fault, Harm, Goto
<1>16. ASSUME NEW w \in Workers, ToolsExit(w) PROVE SettledStep
  BY <1>16 DEF ToolsExit, Goto, Raise
<1>17. ASSUME NEW w \in Workers, ParseFindings(w) PROVE SettledStep
  BY <1>17 DEF ParseFindings, Goto
<1>18. ASSUME NEW w \in Workers, ParseRaises(w) PROVE SettledStep
  BY <1>18 DEF ParseRaises, Raise, Goto
<1>19. ASSUME NEW w \in Workers, Complete(w) PROVE SettledStep
  BY <1>19 DEF Complete, UpdateStatus, Goto, AfterWrite
<1>20. ASSUME NEW w \in Workers, CompleteRaises(w) PROVE SettledStep
  BY <1>20 DEF CompleteRaises, Fault, Raise, Goto
<1>21. ASSUME NEW w \in Workers, Fail(w) PROVE SettledStep
  BY <1>21 DEF Fail, UpdateStatus, Goto, AfterWrite
<1>22. ASSUME NEW w \in Workers, FailRaises(w) PROVE SettledStep
  BY <1>22 DEF FailRaises, Fault, Harm, Goto
<1>23. ASSUME NEW w \in Workers, PostHook(w) PROVE SettledStep
  BY <1>23 DEF PostHook, Goto
<1>24. ASSUME NEW w \in Workers, RecordHook(w) PROVE SettledStep
  BY <1>24 DEF RecordHook, Goto
<1>25. ASSUME NEW w \in Workers, RecordRaises(w) PROVE SettledStep
  BY <1>25 DEF RecordRaises, Fault, Raise, Goto
<1>26. ASSUME NEW w \in Workers, EndTask(w) PROVE SettledStep
  BY <1>26 DEF EndTask, Acknowledge, Free
<1>27. ASSUME NEW w \in Workers, Terminate(w) PROVE SettledStep
  BY <1>27 DEF Terminate, HarmIf, Harm, Acknowledge, Free
<1>28. ASSUME NEW w \in Workers, LoseChild(w) PROVE SettledStep
  BY <1>28 DEF LoseChild, Fault, Harm, Acknowledge, Free
<1>29. ASSUME NEW q \in Queues, CrashWorker(q) PROVE SettledStep
  BY <1>29 DEF CrashWorker, Fault
<1>30. CASE UNCHANGED vars
  BY <1>30 DEF vars
<1> QED
  BY <1>1, <1>2, <1>3, <1>4, <1>5, <1>6, <1>7, <1>8, <1>9, <1>10, <1>11,
     <1>12, <1>13, <1>14, <1>15, <1>16, <1>17, <1>18, <1>19, <1>20, <1>21,
     <1>22, <1>23, <1>24, <1>25, <1>26, <1>27, <1>28, <1>29, <1>30
  DEF Next, Api, Broker, Worker, TaskStep

(* No step brings back a row of a deleted engagement. *)
LEMMA NextDeleted == TypeOK /\ RowInv /\ [Next]_vars => DeletedStep
<1> SUFFICES ASSUME TypeOK, RowInv, [Next]_vars PROVE DeletedStep
  OBVIOUS
<1> USE DEF TypeOK, RowInv, RowPresent, DeletedStep, api, store, broker, slots, history
<1>1. ASSUME NEW s \in Scans, StartScan(s) PROVE DeletedStep
  BY <1>1 DEF StartScan
<1>2. ASSUME NEW s \in Scans, CommitStart(s) PROVE DeletedStep
  BY <1>2 DEF CommitStart
<1>3. ASSUME NEW s \in Scans, AbortStart(s) PROVE DeletedStep
  BY <1>3 DEF AbortStart, Fault
<1>4. ASSUME NEW s \in Scans, CancelCheck(s) PROVE DeletedStep
  BY <1>4 DEF CancelCheck
<1>5. ASSUME NEW s \in Scans, CancelRevoke(s) PROVE DeletedStep
  BY <1>5 DEF CancelRevoke, Fault
<1>6. ASSUME NEW s \in Scans, CancelCommit(s) PROVE DeletedStep
  BY <1>6 DEF CancelCommit, UpdateStatus
<1>7. ASSUME NEW s \in Scans, AbortCancel(s) PROVE DeletedStep
  BY <1>7 DEF AbortCancel, Fault, Harm
<1>8. ASSUME NEW s \in Scans, Discard(s) PROVE DeletedStep
  BY <1>8 DEF Discard, HarmIf, Harm
<1>9. ASSUME NEW s \in Scans, Redeliver(s) PROVE DeletedStep
  BY <1>9 DEF Redeliver, Fault
<1>10. ASSUME DeleteEngagement PROVE DeletedStep
  BY <1>10 DEF DeleteEngagement
<1>11. ASSUME RecoverStale PROVE DeletedStep
  BY <1>11 DEF RecoverStale, Fault
<1>12. ASSUME NEW s \in Scans, NEW w \in Workers, Deliver(w, s) PROVE DeletedStep
  BY <1>12 DEF Deliver
<1>13. ASSUME NEW w \in Workers, BeginRun(w) PROVE DeletedStep
  BY <1>13 DEF BeginRun, UpdateStatus, HarmIf, Harm, Goto
<1>14. ASSUME NEW w \in Workers, BeginRaises(w) PROVE DeletedStep
  BY <1>14 DEF BeginRaises, Fault, Harm, Goto
<1>15. ASSUME NEW w \in Workers, SetupRaises(w) PROVE DeletedStep
  BY <1>15 DEF SetupRaises, Fault, Harm, Goto
<1>16. ASSUME NEW w \in Workers, ToolsExit(w) PROVE DeletedStep
  BY <1>16 DEF ToolsExit, Goto, Raise
<1>17. ASSUME NEW w \in Workers, ParseFindings(w) PROVE DeletedStep
  BY <1>17 DEF ParseFindings, Goto
<1>18. ASSUME NEW w \in Workers, ParseRaises(w) PROVE DeletedStep
  BY <1>18 DEF ParseRaises, Raise, Goto
<1>19. ASSUME NEW w \in Workers, Complete(w) PROVE DeletedStep
  BY <1>19 DEF Complete, UpdateStatus, Goto, AfterWrite
<1>20. ASSUME NEW w \in Workers, CompleteRaises(w) PROVE DeletedStep
  BY <1>20 DEF CompleteRaises, Fault, Raise, Goto
<1>21. ASSUME NEW w \in Workers, Fail(w) PROVE DeletedStep
  BY <1>21 DEF Fail, UpdateStatus, Goto, AfterWrite
<1>22. ASSUME NEW w \in Workers, FailRaises(w) PROVE DeletedStep
  BY <1>22 DEF FailRaises, Fault, Harm, Goto
<1>23. ASSUME NEW w \in Workers, PostHook(w) PROVE DeletedStep
  BY <1>23 DEF PostHook, Goto
<1>24. ASSUME NEW w \in Workers, RecordHook(w) PROVE DeletedStep
  BY <1>24 DEF RecordHook, Goto
<1>25. ASSUME NEW w \in Workers, RecordRaises(w) PROVE DeletedStep
  BY <1>25 DEF RecordRaises, Fault, Raise, Goto
<1>26. ASSUME NEW w \in Workers, EndTask(w) PROVE DeletedStep
  BY <1>26 DEF EndTask, Acknowledge, Free
<1>27. ASSUME NEW w \in Workers, Terminate(w) PROVE DeletedStep
  BY <1>27 DEF Terminate, HarmIf, Harm, Acknowledge, Free
<1>28. ASSUME NEW w \in Workers, LoseChild(w) PROVE DeletedStep
  BY <1>28 DEF LoseChild, Fault, Harm, Acknowledge, Free
<1>29. ASSUME NEW q \in Queues, CrashWorker(q) PROVE DeletedStep
  BY <1>29 DEF CrashWorker, Fault
<1>30. CASE UNCHANGED vars
  BY <1>30 DEF vars
<1> QED
  BY <1>1, <1>2, <1>3, <1>4, <1>5, <1>6, <1>7, <1>8, <1>9, <1>10, <1>11,
     <1>12, <1>13, <1>14, <1>15, <1>16, <1>17, <1>18, <1>19, <1>20, <1>21,
     <1>22, <1>23, <1>24, <1>25, <1>26, <1>27, <1>28, <1>29, <1>30
  DEF Next, Api, Broker, Worker, TaskStep

(* A terminal scan with nothing under way keeps its status for good.       *)
THEOREM SettledForGood == Spec => SettledStable
<1>1. IInv /\ [Next]_vars => [SettledStep]_vars
  BY NextSettled DEF IInv
<1> QED
  BY <1>1, Invariance, PTL DEF Spec, SettledStable

(* Deletion is irreversible: no task, request or recovery that outlives    *)
(* the engagement brings a row of it back.                                 *)
THEOREM DeletedForGood == Spec => DeletedStaysDeleted
<1>1. IInv /\ [Next]_vars => [DeletedStep]_vars
  BY NextDeleted DEF IInv
<1> QED
  BY <1>1, Invariance, PTL DEF Spec, DeletedStaysDeleted
-----------------------------------------------------------------------------
(***************************************************************************)
(* ScanLifecycle implements ScanContract: initial states map to initial    *)
(* states, and every step to a step of the contract or a stutter.          *)
(***************************************************************************)
OverAll == [s \in Scans |-> Over(s)]

(* What the readers of a scan do not see of a step. *)
Unseen == UNCHANGED <<engagement, status, parsed, sent>>

(* Steps the readers do not see end the work of some scans or of none, and *)
(* take it up again only for a scan without an outcome.                    *)
LEMMA UnseenStep ==
    ASSUME Unseen, \A s \in Scans : Over(s) => Over(s)'
    PROVE  Contract!Next
<1> DEFINE ended == {s \in Scans : Over(s)'}
<1>1. ended \in SUBSET Scans
  OBVIOUS
<1>2. OverAll' = [s \in Scans |-> OverAll[s] \/ s \in ended]
  BY DEF OverAll, Over
<1>3. Contract!Close(ended)
  BY <1>2 DEF Contract!Close, Unseen, OverAll
<1> QED
  BY <1>1, <1>3 DEF Contract!Next

(* A write of the status by whoever still works on the scan; without a row *)
(* it goes unseen.                                                         *)
LEMMA WriteStep ==
    ASSUME TypeOK, NEW s \in Scans, NEW new \in Terminal \cup {"Running"},
           ~Over(s), new = "Completed" => parsed[s],
           UpdateStatus(s, new), UNCHANGED <<engagement, parsed, sent>>,
           \A r \in Scans \ {s} : Over(r)' <=> Over(r)
    PROVE  Contract!Next
<1>1. CASE status[s] = "absent"
  <2>1. Unseen
    BY <1>1 DEF Unseen, UpdateStatus, RowPresent
  <2> QED
    BY <2>1, UnseenStep
<1>2. CASE status[s] # "absent"
  <2>1. status' = [status EXCEPT ![s] = new]
    BY <1>2 DEF UpdateStatus, RowPresent
  <2>2. OverAll' \in {OverAll, [OverAll EXCEPT ![s] = TRUE]}
    <3>1. CASE Over(s)'
      BY <3>1 DEF OverAll, Over
    <3>2. CASE ~Over(s)'
      BY <3>2 DEF OverAll, Over
    <3> QED
      BY <3>1, <3>2
  <2>3. Contract!Write(s, new)
    BY <1>2, <2>1, <2>2 DEF Contract!Write, OverAll
  <2> QED
    BY <2>3 DEF Contract!Next, Contract!Outcomes, Terminal
<1> QED
  BY <1>1, <1>2

(* Initial states promise nothing yet. *)
LEMMA InitContract == Init => Contract!Init
BY DEF Init, Contract!Init, Over

(* Every step keeps the contract. *)
LEMMA NextContract == TypeOK /\ RowInv /\ PlaceInv /\ ParsedInv /\ [Next]_vars => [Contract!Next]_(Contract!vars)
<1> SUFFICES ASSUME TypeOK, RowInv, PlaceInv, ParsedInv, [Next]_vars
             PROVE  Contract!Next \/ UNCHANGED Contract!vars
  OBVIOUS
<1> USE DEF TypeOK, api, store, broker, slots, history
<1>1. ASSUME NEW s \in Scans, StartScan(s) PROVE Contract!Next
  BY <1>1, UnseenStep DEF Unseen, Over, Live, StartScan, PlaceInv
<1>2. ASSUME NEW s \in Scans, AbortStart(s) PROVE Contract!Next
  BY <1>2, UnseenStep DEF Unseen, Over, Live, AbortStart, Fault
<1>3. ASSUME NEW s \in Scans, CancelRevoke(s) PROVE Contract!Next
  BY <1>3, UnseenStep DEF Unseen, Over, Live, CancelRevoke, Fault
<1>4. ASSUME NEW s \in Scans, AbortCancel(s) PROVE Contract!Next
  BY <1>4, UnseenStep DEF Unseen, Over, Live, AbortCancel, Fault
<1>5. ASSUME NEW s \in Scans, Discard(s) PROVE Contract!Next
  BY <1>5, UnseenStep DEF Unseen, Over, Live, Discard
<1>6. ASSUME NEW s \in Scans, Redeliver(s) PROVE Contract!Next
  BY <1>6, UnseenStep DEF Unseen, Over, Live, Redeliver, Fault
<1>7. ASSUME NEW s \in Scans, NEW w \in Workers, Deliver(w, s) PROVE Contract!Next
  BY <1>7, UnseenStep DEF Unseen, Over, Live, Deliver
<1>8. ASSUME NEW w \in Workers, BeginRaises(w) PROVE Contract!Next
  BY <1>8, UnseenStep DEF Unseen, Over, Live, BeginRaises, Fault, Goto
<1>9. ASSUME NEW w \in Workers, SetupRaises(w) PROVE Contract!Next
  BY <1>9, UnseenStep DEF Unseen, Over, Live, SetupRaises, Fault, Goto
<1>10. ASSUME NEW w \in Workers, ToolsExit(w) PROVE Contract!Next
  BY <1>10, UnseenStep DEF Unseen, Over, Live, ToolsExit, Goto, Raise
<1>11. ASSUME NEW w \in Workers, ParseRaises(w) PROVE Contract!Next
  BY <1>11, UnseenStep DEF Unseen, Over, Live, ParseRaises, Raise, Goto
<1>12. ASSUME NEW w \in Workers, CompleteRaises(w) PROVE Contract!Next
  BY <1>12, UnseenStep DEF Unseen, Over, Live, CompleteRaises, Fault, Raise, Goto
<1>13. ASSUME NEW w \in Workers, FailRaises(w) PROVE Contract!Next
  BY <1>13, UnseenStep DEF Unseen, Over, Live, FailRaises, Fault, Goto
<1>14. ASSUME NEW w \in Workers, RecordHook(w) PROVE Contract!Next
  BY <1>14, UnseenStep DEF Unseen, Over, Live, RecordHook, Goto
<1>15. ASSUME NEW w \in Workers, RecordRaises(w) PROVE Contract!Next
  BY <1>15, UnseenStep DEF Unseen, Over, Live, RecordRaises, Fault, Raise, Goto
<1>16. ASSUME NEW w \in Workers, EndTask(w) PROVE Contract!Next
  <2>1. Unseen
    BY <1>16 DEF Unseen, EndTask
  <2>2. \A s \in Scans : Over(s) => Over(s)'
    BY <1>16, ScanLifecycleAssumption DEF Over, Live, EndTask, Acknowledge, Free
  <2> QED
    BY <2>1, <2>2, UnseenStep
<1>17. ASSUME NEW w \in Workers, Terminate(w) PROVE Contract!Next
  <2>1. Unseen
    BY <1>17 DEF Unseen, Terminate
  <2>2. \A s \in Scans : Over(s) => Over(s)'
    BY <1>17, ScanLifecycleAssumption DEF Over, Live, Terminate, Acknowledge, Free
  <2> QED
    BY <2>1, <2>2, UnseenStep
<1>18. ASSUME NEW w \in Workers, LoseChild(w) PROVE Contract!Next
  <2>1. Unseen
    BY <1>18 DEF Unseen, LoseChild, Fault
  <2>2. \A s \in Scans : Over(s) => Over(s)'
    BY <1>18, ScanLifecycleAssumption DEF Over, Live, LoseChild, Fault, Acknowledge, Free
  <2> QED
    BY <2>1, <2>2, UnseenStep
<1>19. ASSUME NEW q \in Queues, CrashWorker(q) PROVE Contract!Next
  <2>1. Unseen
    BY <1>19 DEF Unseen, CrashWorker, Fault
  <2>2. \A s \in Scans : Over(s) => Over(s)'
    BY <1>19, ScanLifecycleAssumption DEF Over, Live, CrashWorker, Fault
  <2> QED
    BY <2>1, <2>2, UnseenStep
<1>20. ASSUME NEW s \in Scans, CommitStart(s) PROVE Contract!Next
  <2>1. engagement /\ status[s] = "absent"
    BY <1>20 DEF CommitStart, RowInv, RowPresent
  <2>2. UNCHANGED OverAll
    BY <1>20 DEF CommitStart, OverAll, Over, Live
  <2>3. Contract!Accept(s)
    BY <1>20, <2>1, <2>2 DEF CommitStart, Contract!Accept, OverAll
  <2> QED
    BY <2>3 DEF Contract!Next
<1>21. ASSUME NEW s \in Scans, CancelCheck(s) PROVE Contract!Next
  <2>1. OverAll' = [OverAll EXCEPT ![s] = FALSE]
    BY <1>21 DEF CancelCheck, OverAll, Over, Live
  <2>2. Contract!Reopen(s)
    BY <1>21, <2>1 DEF CancelCheck, Contract!Reopen, Contract!Active, Active, OverAll
  <2> QED
    BY <2>2 DEF Contract!Next
<1>22. ASSUME NEW s \in Scans, CancelCommit(s) PROVE Contract!Next
  <2>1. ~Over(s) /\ \A r \in Scans \ {s} : Over(r)' <=> Over(r)
    BY <1>22 DEF CancelCommit, Over, Live
  <2> QED
    BY <1>22, <2>1, WriteStep DEF CancelCommit, Terminal
<1>23. ASSUME DeleteEngagement PROVE Contract!Next
  <2>1. UNCHANGED OverAll
    BY <1>23 DEF DeleteEngagement, OverAll, Over, Live
  <2> QED
    BY <1>23, <2>1 DEF DeleteEngagement, Contract!Next, Contract!Delete, OverAll
<1>24. ASSUME RecoverStale PROVE Contract!Next
  <2>1. UNCHANGED OverAll
    BY <1>24 DEF RecoverStale, Fault, OverAll, Over, Live
  <2>2. PICK stale \in SUBSET {s \in Scans : status[s] = "Running"} :
           status' = [s \in Scans |-> IF s \in stale THEN "Failed" ELSE status[s]]
    BY <1>24 DEF RecoverStale
  <2>3. Contract!Recover(stale)
    BY <1>24, <2>1, <2>2 DEF RecoverStale, Contract!Recover, OverAll
  <2> QED
    BY <2>2, <2>3 DEF Contract!Next
<1>25. ASSUME NEW w \in Workers, ParseFindings(w) PROVE Contract!Next
  <2>1. job[w] \in Scans /\ ~Over(job[w])
    BY <1>25, ScanLifecycleAssumption DEF ParseFindings, Over, Live
  <2>2. UNCHANGED OverAll
    BY <1>25 DEF ParseFindings, Goto, OverAll, Over, Live
  <2>3. Contract!Publish(job[w])
    BY <1>25, <2>1, <2>2 DEF ParseFindings, Goto, RowPresent, Contract!Publish, OverAll
  <2> QED
    BY <2>1, <2>3 DEF Contract!Next
<1>26. ASSUME NEW w \in Workers, PostHook(w) PROVE Contract!Next
  <2>1. job[w] \in Scans /\ ~Over(job[w])
    BY <1>26, ScanLifecycleAssumption DEF PostHook, Over, Live
  <2>2. UNCHANGED OverAll
    BY <1>26 DEF PostHook, Goto, OverAll, Over, Live
  <2>3. CASE sent' = sent
    BY <1>26, <2>2, <2>3, UnseenStep DEF PostHook, Goto, Unseen, Over, Live
  <2>4. CASE sent' # sent
    <3> DEFINE outcome == IF pc[w] = "hookC" THEN "Completed" ELSE "Failed"
    <3>1. sent' = [sent EXCEPT ![job[w]] = @ \cup {outcome}]
      BY <1>26, <2>4 DEF PostHook
    <3>2. outcome = "Completed" => parsed[job[w]]
      BY DEF ParsedInv
    <3>3. Contract!Tell(job[w], outcome)
      BY <1>26, <2>1, <2>2, <3>1, <3>2 DEF PostHook, Goto, Contract!Tell, OverAll
    <3> QED
      BY <2>1, <3>3 DEF Contract!Next
  <2> QED
    BY <2>3, <2>4
<1>27. ASSUME NEW w \in Workers, BeginRun(w) PROVE Contract!Next
  <2>1. job[w] \in Scans /\ ~Over(job[w])
    BY <1>27, ScanLifecycleAssumption DEF BeginRun, Over, Live
  <2>2. \A r \in Scans : Over(r)' <=> Over(r)
    BY <1>27 DEF BeginRun, Goto, Over, Live
  <2> QED
    BY <1>27, <2>1, <2>2, WriteStep DEF BeginRun, Terminal
<1>28. ASSUME NEW w \in Workers, Complete(w) PROVE Contract!Next
  <2>1. job[w] \in Scans /\ ~Over(job[w])
    BY <1>28, ScanLifecycleAssumption DEF Complete, Over, Live
  <2>2. \A r \in Scans : Over(r)' <=> Over(r)
    BY <1>28 DEF Complete, Goto, Over, Live
  <2> QED
    BY <1>28, <2>1, <2>2, WriteStep DEF Complete, Terminal, ParsedInv
<1>29. ASSUME NEW w \in Workers, Fail(w) PROVE Contract!Next
  <2>1. job[w] \in Scans /\ ~Over(job[w])
    BY <1>29, ScanLifecycleAssumption DEF Fail, Over, Live
  <2>2. \A r \in Scans : Over(r)' <=> Over(r)
    BY <1>29 DEF Fail, Goto, Over, Live
  <2> QED
    BY <1>29, <2>1, <2>2, WriteStep DEF Fail, Terminal
<1>30. CASE UNCHANGED vars
  BY <1>30 DEF vars, Contract!vars, Over, Live
<1> QED
  BY <1>1, <1>2, <1>3, <1>4, <1>5, <1>6, <1>7, <1>8, <1>9, <1>10, <1>11,
     <1>12, <1>13, <1>14, <1>15, <1>16, <1>17, <1>18, <1>19, <1>20, <1>21,
     <1>22, <1>23, <1>24, <1>25, <1>26, <1>27, <1>28, <1>29, <1>30
  DEF Next, Api, Broker, Worker, TaskStep

(* The scan lifecycle keeps what the contract promises its readers.        *)
THEOREM ContractKept == Spec => KeepsContract
<1>1. IInv /\ [Next]_vars => [Contract!Next]_(Contract!vars)
  BY NextContract DEF IInv
<1> QED
  BY <1>1, InitContract, Invariance, PTL DEF Spec, KeepsContract, Contract!Spec

(* The contract by itself keeps the promises about the row: what follows   *)
(* speaks of its steps alone, of no task, message or request.              *)
ContractInv ==
    /\ status \in [Scans -> Active \cup Terminal \cup {"absent"}]
    /\ parsed \in [Scans -> BOOLEAN]
    /\ sent \in [Scans -> SUBSET Terminal]
    /\ ~engagement => \A s \in Scans : status[s] = "absent"
    /\ CompletedImpliesParsed

LEMMA ContractNext ==
  ASSUME ContractInv, [Contract!Next]_(Contract!vars)
  PROVE  ContractInv' /\ SettledStep /\ DeletedStep
<1> USE DEF ContractInv, CompletedImpliesParsed, SettledStep, DeletedStep, Active, Terminal
<1>1. \A s \in Scans : Settled(s) =>
        OverAll[s] /\ status[s] \in {"Completed", "Failed", "Cancelled"}
  BY DEF Settled, Over, OverAll
<1>2. ASSUME NEW s \in Scans, Contract!Accept(s)
      PROVE  ContractInv' /\ SettledStep /\ DeletedStep
  BY <1>1, <1>2 DEF Contract!Accept
<1>3. ASSUME NEW s \in Scans, Contract!Publish(s)
      PROVE  ContractInv' /\ SettledStep /\ DeletedStep
  BY <1>3 DEF Contract!Publish
<1>4. ASSUME NEW s \in Scans, Contract!Reopen(s)
      PROVE  ContractInv' /\ SettledStep /\ DeletedStep
  BY <1>4 DEF Contract!Reopen
<1>5. ASSUME NEW s \in Scans, NEW new \in Contract!Outcomes \cup {"Running"},
             Contract!Write(s, new)
      PROVE  ContractInv' /\ SettledStep /\ DeletedStep
  <2>1. /\ ~OverAll[s] /\ status[s] # "absent" /\ (new = "Completed" => parsed[s])
        /\ status' = [status EXCEPT ![s] = new] /\ UNCHANGED <<engagement, parsed, sent>>
        /\ new \in {"Completed", "Failed", "Cancelled", "Running"}
    BY <1>5 DEF Contract!Write, Contract!Outcomes, OverAll
  <2> QED
    BY <1>1, <2>1
<1>6. ASSUME NEW s \in Scans, NEW outcome \in {"Completed", "Failed"},
             Contract!Tell(s, outcome)
      PROVE  ContractInv' /\ SettledStep /\ DeletedStep
  <2>1. /\ outcome = "Completed" => parsed[s]
        /\ sent' = [sent EXCEPT ![s] = @ \cup {outcome}]
        /\ UNCHANGED <<engagement, status, parsed>>
    BY <1>6 DEF Contract!Tell
  <2> QED
    BY <2>1
<1>7. ASSUME NEW some \in SUBSET Scans, Contract!Recover(some)
      PROVE  ContractInv' /\ SettledStep /\ DeletedStep
  <2>1. /\ \A s \in some : status[s] = "Running"
        /\ status' = [s \in Scans |-> IF s \in some THEN "Failed" ELSE status[s]]
        /\ UNCHANGED <<engagement, parsed, sent>>
    BY <1>7 DEF Contract!Recover
  <2> QED
    BY <1>1, <2>1
<1>8. ASSUME NEW some \in SUBSET Scans, Contract!Close(some)
      PROVE  ContractInv' /\ SettledStep /\ DeletedStep
  BY <1>8 DEF Contract!Close
<1>9. ASSUME Contract!Delete
      PROVE  ContractInv' /\ SettledStep /\ DeletedStep
  BY <1>9 DEF Contract!Delete
<1>10. CASE UNCHANGED Contract!vars
  BY <1>10 DEF Contract!vars
<1> QED
  BY <1>2, <1>3, <1>4, <1>5, <1>6, <1>7, <1>8, <1>9, <1>10 DEF Contract!Next

(* Whoever reads a scan can rely on the contract: its steps alone give     *)
(* that Completed and its announcement mean committed findings, that a     *)
(* terminal status stays once the work is over, and that a deleted         *)
(* engagement stays deleted (_update_scan_status, delete_engagement).      *)
THEOREM ContractSuffices ==
  Contract!Spec => []CompletedImpliesParsed /\ SettledStable /\ DeletedStaysDeleted
<1>1. Contract!Init => ContractInv
  BY DEF Contract!Init, ContractInv, CompletedImpliesParsed
<1>2. ContractInv => CompletedImpliesParsed
  BY DEF ContractInv
<1>3. ContractInv /\ [Contract!Next]_(Contract!vars)
        => ContractInv' /\ [SettledStep]_vars /\ [DeletedStep]_vars
  BY ContractNext
<1> QED
  BY <1>1, <1>2, <1>3, PTL DEF Contract!Spec, SettledStable, DeletedStaysDeleted
=============================================================================
