----------------------- MODULE ScheduledDispatchProofs -----------------------
(***************************************************************************)
(* What a tick does to its schedules, for any schedules, slots, intervals, *)
(* edits and faults.                                                       *)
(***************************************************************************)
EXTENDS ScheduledDispatch, TLAPS

(* Messages are the beat's or come back with a crash.                      *)
QueueInv == queued <= MaxQueued + faults

(* What an open tick has done with its batch.                              *)
SlotInv ==
    \A k \in Slots :
        /\ ~Open(k) => due[k] = {}
        /\ due[k] \subseteq rows \cup gone
        /\ todo[k] \subseteq due[k]
        /\ added[k] \subseteq due[k] \ todo[k]
        /\ sent[k] \subseteq added[k] /\ advanced[k] = added[k]
        /\ pc[k] = "dispatch" => cur[k] \in due[k] \ (todo[k] \cup added[k])
        /\ started[k] <= clock
        /\ \A s \in due[k] : read[k][s].next <= started[k]

(* The loop passes over a schedule only if its engagement is gone.         *)
PassedInv ==
    \A k \in Slots : \A s \in due[k] \ todo[k] :
        s \in added[k] \/ (pc[k] = "dispatch" /\ s = cur[k]) \/ EngOf[s] \notin engs

(* A launch that no two ticks have read at once is read by one of them,    *)
(* and the others that hold its schedule began later.                      *)
CrossInv ==
    \A k \in Slots : \A s \in due[k] : LaunchOf(k, s) \notin crossed =>
        \A j \in Slots \ {k} : s \in due[j] =>
            read[j][s].next # read[k][s].next /\ started[j] >= read[k][s].next

Trying(k, l) == l[1] \in sent[k] /\ LaunchOf(k, l[1]) = l

(* A launch that was recorded is over: no tick holds it, and none will     *)
(* read it again.                                                          *)
Settled(l) ==
    /\ l[1] \in rows => nextRun[l[1]] > l[2]
    /\ \A k \in Slots : l[1] \in due[k] =>
         read[k][l[1]].next # l[2] /\ started[k] + read[k][l[1]].every > l[2]

FireInv ==
    \A l \in Launches :
        /\ tasks[l] > 0 \/ scans[l] > 0 => l[1] \in rows \cup gone /\ l[2] <= clock
        /\ l \notin crossed =>
             /\ scans[l] <= 1
             /\ scans[l] > 0 => Settled(l)
             /\ l \notin lost => tasks[l] <= 1
             /\ l \notin lost /\ tasks[l] > 0 => Settled(l) \/ \E k \in Slots : Trying(k, l)

(* Tasks without a recorded scan belong to as many ticks still open.       *)
CountInv ==
    \A l \in Launches : l \notin lost =>
        /\ tasks[l] = 1 => scans[l] > 0 \/ \E k \in Slots : Trying(k, l)
        /\ tasks[l] = 2 =>
             \/ scans[l] = 2
             \/ scans[l] = 1 /\ \E k \in Slots : Trying(k, l)
             \/ \E j, k \in Slots : j # k /\ Trying(j, l) /\ Trying(k, l)

(* A tick whose interval was changed meanwhile is remembered.              *)
Outdated(k, s) == ReadOther(k, s, interval[s])

StaleInv == \A k \in Slots : \A s \in rows : Outdated(k, s) => s \in stale

IInv == /\ RestTypeOK /\ QueueInv /\ SlotInv /\ PassedInv /\ CrossInv
        /\ FireInv /\ CountInv /\ StaleInv /\ WithinInterval
-----------------------------------------------------------------------------
(* The types of what launches are compared by. *)
LEMMA Typed ==
    ASSUME RestTypeOK
    PROVE  /\ clock \in Nat /\ MaxClock \in Nat
           /\ rows \cup gone \subseteq Schedules
           /\ \A s \in Schedules : nextRun[s] \in Nat /\ interval[s] \in Intervals
                                   /\ interval[s] \in Nat /\ interval[s] > 0
           /\ \A k \in Slots :
                /\ started[k] \in Nat /\ started[k] \in Times
                /\ due[k] \subseteq Schedules /\ todo[k] \subseteq Schedules
                /\ added[k] \subseteq Schedules /\ sent[k] \subseteq Schedules
                /\ advanced[k] \subseteq Schedules
                /\ \A s \in Schedules :
                     /\ read[k][s].next \in Nat
                     /\ read[k][s].every \in Nat /\ read[k][s].every > 0
           /\ \A l \in Launches : tasks[l] \in 0 .. 2 /\ scans[l] \in 0 .. 2
<1>1. clock \in Nat /\ MaxClock \in Nat
  BY ScheduledDispatchAssumption DEF ScheduledDispatchAssumption, RestTypeOK, Times
<1>2. rows \cup gone \subseteq Schedules
  BY DEF RestTypeOK
<1>3. \A i \in Intervals : i \in Nat /\ i > 0
  <2>1. Intervals \subseteq Nat \ {0}
    BY ScheduledDispatchAssumption DEF ScheduledDispatchAssumption
  <2> QED
    BY <2>1
<1>4. \A s \in Schedules : nextRun[s] \in Nat /\ interval[s] \in Intervals
  BY DEF RestTypeOK
<1>5. \A k \in Slots : started[k] \in Nat /\ started[k] \in Times
  BY <1>1 DEF RestTypeOK, Times
<1>6. \A k \in Slots : /\ due[k] \subseteq Schedules /\ todo[k] \subseteq Schedules
                       /\ added[k] \subseteq Schedules /\ sent[k] \subseteq Schedules
                       /\ advanced[k] \subseteq Schedules
  BY DEF RestTypeOK
<1>7. \A k \in Slots : \A s \in Schedules :
        read[k][s].next \in Nat /\ read[k][s].every \in Intervals
  BY DEF RestTypeOK
<1>8. \A l \in Launches : tasks[l] \in 0 .. 2 /\ scans[l] \in 0 .. 2
  BY DEF RestTypeOK
<1> QED
  BY <1>1, <1>2, <1>3, <1>4, <1>5, <1>6, <1>7, <1>8

(* A launch is its schedule and its due time. *)
LEMMA Pairs ==
    /\ \A l \in Launches : l[1] \in Schedules /\ l[2] \in Times /\ l = <<l[1], l[2]>>
    /\ \A l \in Launches, k \in Slots : LaunchOf(k, l[1]) = l <=> read[k][l[1]].next = l[2]
BY DEF Launches, LaunchOf

(* The end of a session clears it and leaves the others alone. *)
LEMMA Ended ==
    ASSUME RestTypeOK, NEW k \in Slots, End(k)
    PROVE  /\ pc'[k] = "idle" /\ started'[k] = 0 /\ due'[k] = {} /\ todo'[k] = {}
           /\ added'[k] = {} /\ sent'[k] = {} /\ advanced'[k] = {}
           /\ \A j \in Slots : j # k =>
                /\ pc'[j] = pc[j] /\ started'[j] = started[j]
                /\ due'[j] = due[j] /\ todo'[j] = todo[j] /\ cur'[j] = cur[j]
                /\ read'[j] = read[j] /\ advanced'[j] = advanced[j]
                /\ added'[j] = added[j] /\ sent'[j] = sent[j]
BY DEF RestTypeOK, End

(* Requests of analysts and beats: nothing that a tick has read changes,   *)
(* and a schedule is anchored anew only to a time to come.                 *)
LEMMA EditKeeps ==
    ASSUME IInv,
           UNCHANGED <<pc, started, due, todo, cur, read, advanced, added, sent,
                       tasks, scans, crossed, lost>>,
           clock' \in Nat, clock' >= clock,
           rows \cup gone \subseteq rows' \cup gone', rows' \subseteq Schedules,
           engs' \subseteq engs,
           \A s \in rows' : nextRun'[s] \in Nat,
           \A s \in rows' : \/ s \in rows /\ nextRun'[s] = nextRun[s]
                            \/ s \notin rows \cup gone
                            \/ nextRun'[s] > clock
    PROVE  SlotInv' /\ PassedInv' /\ CrossInv' /\ FireInv' /\ CountInv'
<1>0. RestTypeOK
  BY DEF IInv
<1>1. SlotInv'
  <2>1. \A k \in Slots : started[k] \in Nat /\ clock \in Nat
    BY <1>0, Typed
  <2> QED
    BY <2>1 DEF IInv, SlotInv, Open
<1>2. PassedInv'
  BY DEF IInv, PassedInv
<1>3. CrossInv'
  BY DEF IInv, CrossInv, LaunchOf
<1>4. \A k \in Slots, l \in Launches : Trying(k, l)' <=> Trying(k, l)
  BY DEF Trying, LaunchOf
<1>5. ASSUME NEW l \in Launches, Settled(l), l[1] \in rows \cup gone, l[2] <= clock
      PROVE  Settled(l)'
  <2>1. l[1] \in Schedules /\ l[2] \in Nat /\ clock \in Nat
    BY <1>0, Typed, Pairs DEF Times
  <2>2. ASSUME l[1] \in rows'
        PROVE  nextRun'[l[1]] > l[2]
    <3>1. CASE l[1] \in rows /\ nextRun'[l[1]] = nextRun[l[1]]
      BY <1>5, <3>1 DEF Settled
    <3>2. CASE nextRun'[l[1]] > clock
      <4>1. nextRun'[l[1]] \in Nat
        BY <2>2
      <4> QED
        BY <1>5, <2>1, <3>2, <4>1
    <3> QED
      BY <1>5, <2>2, <3>1, <3>2
  <2>3. \A k \in Slots : l[1] \in due'[k] =>
          read'[k][l[1]].next # l[2] /\ started'[k] + read'[k][l[1]].every > l[2]
    BY <1>5 DEF Settled
  <2> QED
    BY <2>2, <2>3 DEF Settled
<1>6. FireInv'
  <2> SUFFICES ASSUME NEW l \in Launches
               PROVE  /\ tasks[l] > 0 \/ scans[l] > 0 =>
                           l[1] \in rows' \cup gone' /\ l[2] <= clock'
                      /\ l \notin crossed =>
                           /\ scans[l] <= 1
                           /\ scans[l] > 0 => Settled(l)'
                           /\ l \notin lost => tasks[l] <= 1
                           /\ l \notin lost /\ tasks[l] > 0 =>
                                Settled(l)' \/ \E k \in Slots : Trying(k, l)'
    BY DEF FireInv
  <2>1. l[2] \in Nat /\ clock \in Nat /\ tasks[l] \in 0 .. 2 /\ scans[l] \in 0 .. 2
    BY <1>0, Typed, Pairs DEF Times
  <2>2. /\ tasks[l] > 0 \/ scans[l] > 0 => l[1] \in rows \cup gone /\ l[2] <= clock
        /\ l \notin crossed =>
             /\ scans[l] <= 1
             /\ scans[l] > 0 => Settled(l)
             /\ l \notin lost => tasks[l] <= 1
             /\ l \notin lost /\ tasks[l] > 0 => Settled(l) \/ \E k \in Slots : Trying(k, l)
    BY DEF IInv, FireInv
  <2>3. tasks[l] > 0 \/ scans[l] > 0 => l[1] \in rows' \cup gone' /\ l[2] <= clock'
    BY <2>1, <2>2
  <2> QED
    BY <1>4, <1>5, <2>2, <2>3
<1>7. CountInv'
  BY <1>4 DEF IInv, CountInv
<1> QED
  BY <1>1, <1>2, <1>3, <1>6, <1>7

(* A tick begins: launches it shares with an open tick are crossed, and    *)
(* what was recorded is no longer due.                                     *)
LEMMA BeginKeeps ==
    ASSUME IInv, NEW k \in Slots, Begin(k)
    PROVE  SlotInv' /\ PassedInv' /\ CrossInv' /\ FireInv' /\ CountInv'
<1> DEFINE batch == {s \in Schedules : IsDue(s)}
<1>0. RestTypeOK /\ SlotInv
  BY DEF IInv
<1>1. /\ pc'[k] = "loop" /\ started'[k] = clock
      /\ due'[k] = batch /\ todo'[k] = batch
      /\ \A s \in batch : /\ read'[k][s].next = nextRun[s]
                          /\ read'[k][s].every = interval[s]
      /\ \A j \in Slots : j # k =>
           /\ pc'[j] = pc[j] /\ started'[j] = started[j]
           /\ due'[j] = due[j] /\ todo'[j] = todo[j] /\ read'[j] = read[j]
      /\ UNCHANGED <<rows, gone, engs, nextRun, clock, cur, advanced, added, sent,
                     tasks, scans, lost>>
  BY <1>0 DEF Begin, RestTypeOK, columns
<1>2. pc[k] = "idle" /\ due[k] = {} /\ added[k] = {} /\ sent[k] = {} /\ advanced[k] = {}
  BY <1>0 DEF Begin, SlotInv, Open
<1>3. batch \subseteq rows /\ \A s \in batch : nextRun[s] \in Nat /\ nextRun[s] <= clock
  BY <1>0, Typed DEF IsDue
<1>4. crossed \subseteq crossed'
      /\ \A s \in batch, j \in Slots : j # k /\ s \in due[j] => <<s, nextRun[s]>> \in crossed'
  <2>1. \A j \in Slots : due[j] # {} => Open(j)
    BY <1>0 DEF SlotInv
  <2> QED
    BY <2>1 DEF Begin
<1>5. clock \in Nat
  BY <1>0, Typed
<1>6. SlotInv'
  <2> SUFFICES ASSUME NEW j \in Slots
               PROVE  /\ ~Open(j)' => due'[j] = {}
                      /\ due'[j] \subseteq rows' \cup gone'
                      /\ todo'[j] \subseteq due'[j]
                      /\ added'[j] \subseteq due'[j] \ todo'[j]
                      /\ sent'[j] \subseteq added'[j] /\ advanced'[j] = added'[j]
                      /\ pc'[j] = "dispatch" => cur'[j] \in due'[j] \ (todo'[j] \cup added'[j])
                      /\ started'[j] <= clock'
                      /\ \A s \in due'[j] : read'[j][s].next <= started'[j]
    BY DEF SlotInv
  <2>1. CASE j = k
    <3>1. /\ Open(j)' /\ pc'[j] # "dispatch"
          /\ due'[j] \subseteq rows' \cup gone' /\ todo'[j] = due'[j]
          /\ added'[j] = {} /\ sent'[j] = {} /\ advanced'[j] = {}
      BY <1>1, <1>2, <1>3, <2>1 DEF Open
    <3>2. started'[j] <= clock'
      BY <1>1, <1>5, <2>1
    <3>3. \A s \in due'[j] : read'[j][s].next <= started'[j]
      BY <1>1, <1>3, <2>1
    <3> QED
      BY <3>1, <3>2, <3>3
  <2>2. CASE j # k
    BY <1>0, <1>1, <2>2 DEF SlotInv, Open
  <2> QED
    BY <2>1, <2>2
<1>7. PassedInv'
  <2>1. PassedInv
    BY DEF IInv
  <2> QED
    BY <1>1, <2>1 DEF PassedInv
<1>8. CrossInv'
  <2> SUFFICES ASSUME NEW a \in Slots, NEW s \in due'[a], <<s, read'[a][s].next>> \notin crossed',
                      NEW j \in Slots \ {a}, s \in due'[j]
               PROVE  read'[j][s].next # read'[a][s].next /\ started'[j] >= read'[a][s].next
    BY DEF CrossInv, LaunchOf
  <2>1. CASE a # k /\ j # k
    <3>1. CrossInv
      BY DEF IInv
    <3>2. <<s, read[a][s].next>> \notin crossed
      BY <1>1, <1>4, <2>1
    <3> QED
      BY <1>1, <2>1, <3>1, <3>2 DEF CrossInv, LaunchOf
  <2>2. CASE a = k
    BY <1>1, <1>4, <2>2
  <2>3. CASE a # k /\ j = k
    <3>1. read'[j][s].next = nextRun[s] /\ <<s, nextRun[s]>> \in crossed'
      BY <1>1, <1>4, <2>3
    <3>2. read[a][s].next <= started[a] /\ started[a] <= clock
      BY <1>0, <1>1, <2>3 DEF SlotInv
    <3>3. read[a][s].next \in Nat /\ started[a] \in Nat
      BY <1>0, <1>1, <2>3, Typed
    <3>4. clock >= read[a][s].next
      BY <1>5, <3>2, <3>3
    <3> QED
      BY <1>1, <2>3, <3>1, <3>4
  <2> QED
    BY <2>1, <2>2, <2>3
<1>9. \A j \in Slots, l \in Launches : Trying(j, l)' <=> Trying(j, l)
  BY <1>1, <1>2 DEF Trying, LaunchOf
<1>10. ASSUME NEW l \in Launches, Settled(l), l[2] <= clock
       PROVE  Settled(l)'
  <2>1. l[1] \in rows' => nextRun'[l[1]] > l[2]
    BY <1>1, <1>10 DEF Settled
  <2>2. ASSUME NEW j \in Slots, l[1] \in due'[j]
        PROVE  read'[j][l[1]].next # l[2] /\ started'[j] + read'[j][l[1]].every > l[2]
    <3>1. CASE j # k
      BY <1>1, <1>10, <2>2, <3>1 DEF Settled
    <3>2. CASE j = k
      <4>1. l[1] \in batch
        BY <1>1, <2>2, <3>2
      <4>2. nextRun[l[1]] > l[2] /\ nextRun[l[1]] \in Nat
        BY <1>3, <1>10, <4>1 DEF Settled
      <4>3. interval[l[1]] \in Nat /\ interval[l[1]] > 0 /\ l[2] \in Nat
        BY <1>0, Typed, Pairs DEF Times
      <4>4. read'[j][l[1]].next = nextRun[l[1]] /\ read'[j][l[1]].every = interval[l[1]]
            /\ started'[j] = clock
        BY <1>1, <3>2, <4>1
      <4> QED
        BY <1>5, <1>10, <4>2, <4>3, <4>4
    <3> QED
      BY <3>1, <3>2
  <2> QED
    BY <2>1, <2>2 DEF Settled
<1>11. FireInv'
  <2>1. FireInv
    BY DEF IInv
  <2> SUFFICES ASSUME NEW l \in Launches
               PROVE  /\ tasks[l] > 0 \/ scans[l] > 0 => l[1] \in rows \cup gone /\ l[2] <= clock
                      /\ l \notin crossed' =>
                           /\ scans[l] <= 1
                           /\ scans[l] > 0 => Settled(l)'
                           /\ l \notin lost => tasks[l] <= 1
                           /\ l \notin lost /\ tasks[l] > 0 =>
                                Settled(l)' \/ \E j \in Slots : Trying(j, l)'
    BY <1>1 DEF FireInv
  <2> QED
    BY <1>4, <1>9, <1>10, <2>1 DEF FireInv
<1>12. CountInv'
  BY <1>1, <1>9 DEF IInv, CountInv
<1> QED
  BY <1>6, <1>7, <1>8, <1>11, <1>12

(* The loop takes the next schedule. *)
LEMMA LoadKeeps ==
    ASSUME IInv, NEW k \in Slots, NEW s \in Schedules, Load(k, s)
    PROVE  SlotInv' /\ PassedInv' /\ CrossInv' /\ FireInv' /\ CountInv'
<1>0. RestTypeOK /\ SlotInv /\ PassedInv
  BY DEF IInv
<1>1. /\ pc[k] = "loop" /\ s \in todo[k] /\ todo'[k] = todo[k] \ {s}
      /\ EngOf[s] \in engs => cur'[k] = s /\ pc'[k] = "dispatch"
      /\ EngOf[s] \notin engs => pc'[k] = "loop"
      /\ \A j \in Slots : j # k => pc'[j] = pc[j] /\ todo'[j] = todo[j] /\ cur'[j] = cur[j]
      /\ UNCHANGED <<rows, gone, engs, nextRun, clock, started, due, read, advanced, added,
                     sent, tasks, scans, crossed, lost>>
  BY <1>0 DEF Load, RestTypeOK, columns, history
<1>2. SlotInv'
  <2> SUFFICES ASSUME NEW j \in Slots
               PROVE  /\ ~Open(j)' => due[j] = {}
                      /\ todo'[j] \subseteq due[j]
                      /\ added[j] \subseteq due[j] \ todo'[j]
                      /\ pc'[j] = "dispatch" => cur'[j] \in due[j] \ (todo'[j] \cup added[j])
    BY <1>0, <1>1 DEF SlotInv
  <2>1. CASE j = k
    BY <1>0, <1>1, <2>1 DEF SlotInv, Open
  <2>2. CASE j # k
    BY <1>0, <1>1, <2>2 DEF SlotInv, Open
  <2> QED
    BY <2>1, <2>2
<1>3. PassedInv'
  BY <1>0, <1>1 DEF PassedInv
<1>4. CrossInv'
  BY <1>1 DEF IInv, CrossInv, LaunchOf
<1>5. FireInv'
  BY <1>1 DEF IInv, FireInv, Settled, Trying, LaunchOf
<1>6. CountInv'
  BY <1>1 DEF IInv, CountInv, Trying, LaunchOf
<1> QED
  BY <1>2, <1>3, <1>4, <1>5, <1>6

(* A dispatch records the schedule, whether its task left or not.          *)
LEMMA RecordKeeps ==
    ASSUME IInv, NEW k \in Slots, NEW failed \in BOOLEAN, Record(k, failed),
           \/ sent' = [sent EXCEPT ![k] = @ \cup {cur[k]}]
              /\ tasks' = [tasks EXCEPT ![LaunchOf(k, cur[k])] = OneMore(@)]
           \/ UNCHANGED <<sent, tasks>>
    PROVE  SlotInv' /\ PassedInv' /\ CrossInv' /\ FireInv' /\ CountInv'
<1> DEFINE s == cur[k]
           l0 == LaunchOf(k, s)
<1>0. RestTypeOK /\ SlotInv /\ PassedInv /\ CrossInv /\ FireInv /\ CountInv
  BY DEF IInv
<1>1. /\ pc[k] = "dispatch" /\ pc'[k] = "loop"
      /\ added'[k] = added[k] \cup {s} /\ advanced'[k] = advanced[k] \cup {s}
      /\ \A j \in Slots : j # k =>
           pc'[j] = pc[j] /\ cur'[j] = cur[j] /\ added'[j] = added[j] /\ advanced'[j] = advanced[j]
      /\ UNCHANGED <<rows, gone, engs, nextRun, clock, started, due, todo, read, scans,
                     crossed, lost>>
  BY <1>0 DEF Record, Added, Advances, RestTypeOK, columns, history
<1>2. s \in due[k] /\ s \notin todo[k] /\ s \notin added[k] /\ s \in Schedules
      /\ s \in rows \cup gone /\ s \notin sent[k]
  BY <1>0, <1>1, Typed DEF SlotInv
<1>3. /\ sent'[k] \subseteq sent[k] \cup {s} /\ sent[k] \subseteq sent'[k]
      /\ \A j \in Slots : j # k => sent'[j] = sent[j]
  BY <1>0, <1>2 DEF RestTypeOK
<1>4. SlotInv'
  <2> SUFFICES ASSUME NEW j \in Slots
               PROVE  /\ ~Open(j)' => due[j] = {}
                      /\ added'[j] \subseteq due[j] \ todo[j]
                      /\ sent'[j] \subseteq added'[j] /\ advanced'[j] = added'[j]
                      /\ pc'[j] = "dispatch" => cur'[j] \in due[j] \ (todo[j] \cup added'[j])
    BY <1>0, <1>1 DEF SlotInv
  <2>1. CASE j = k
    BY <1>0, <1>1, <1>2, <1>3, <2>1 DEF SlotInv, Open
  <2>2. CASE j # k
    BY <1>0, <1>1, <1>3, <2>2 DEF SlotInv, Open
  <2> QED
    BY <2>1, <2>2
<1>5. PassedInv'
  BY <1>0, <1>1 DEF PassedInv
<1>6. CrossInv'
  BY <1>0, <1>1 DEF CrossInv, LaunchOf
<1>7. \A l \in Launches : Settled(l)' <=> Settled(l)
  BY <1>1 DEF Settled
<1>8. \A j \in Slots, l \in Launches : Trying(j, l) => Trying(j, l)'
  BY <1>1, <1>3 DEF Trying, LaunchOf
<1>9. CASE UNCHANGED <<sent, tasks>>
  <2>1. \A j \in Slots, l \in Launches : Trying(j, l) <=> Trying(j, l)'
    BY <1>1, <1>9 DEF Trying, LaunchOf
  <2>2. FireInv'
    BY <1>0, <1>1, <1>7, <1>9, <2>1 DEF FireInv
  <2>3. CountInv'
    BY <1>0, <1>1, <1>9, <2>1 DEF CountInv
  <2> QED
    BY <1>4, <1>5, <1>6, <2>2, <2>3
<1>10. CASE /\ sent' = [sent EXCEPT ![k] = @ \cup {s}]
            /\ tasks' = [tasks EXCEPT ![l0] = OneMore(@)]
  <2>1. l0 \in Launches /\ l0[1] = s /\ l0[2] = read[k][s].next /\ l0[2] <= clock
    <3>1. read[k][s].next \in Nat /\ started[k] \in Nat /\ started[k] \in Times
          /\ read[k][s].next <= started[k] /\ started[k] <= clock /\ clock \in Nat
          /\ MaxClock \in Nat
      BY <1>0, <1>2, Typed DEF SlotInv
    <3> QED
      BY <1>2, <3>1 DEF Launches, Times, LaunchOf
  <2>2. /\ tasks'[l0] = OneMore(tasks[l0])
        /\ \A l \in Launches : l # l0 => tasks'[l] = tasks[l]
    BY <1>0, <1>10, <2>1 DEF RestTypeOK
  <2>3. ASSUME NEW l \in Launches, l = l0
        PROVE  Trying(k, l)' /\ ~Trying(k, l)
    <3>1. s \in sent'[k]
      BY <1>0, <1>10 DEF RestTypeOK
    <3> QED
      BY <1>1, <1>2, <2>1, <2>3, <3>1 DEF Trying, LaunchOf
  <2>4. \A l \in Launches : tasks[l] \in 0 .. 2 /\ scans[l] \in 0 .. 2
    BY <1>0, Typed
  <2>5. FireInv'
    <3> SUFFICES ASSUME NEW l \in Launches
                 PROVE  /\ tasks'[l] > 0 \/ scans[l] > 0 =>
                             l[1] \in rows \cup gone /\ l[2] <= clock
                        /\ l \notin crossed =>
                             /\ scans[l] <= 1
                             /\ scans[l] > 0 => Settled(l)'
                             /\ l \notin lost => tasks'[l] <= 1
                             /\ l \notin lost /\ tasks'[l] > 0 =>
                                  Settled(l)' \/ \E j \in Slots : Trying(j, l)'
      BY <1>1 DEF FireInv
    <3>1. CASE l # l0
      BY <1>0, <1>7, <1>8, <2>2, <3>1 DEF FireInv
    <3>2. CASE l = l0
      <4>1. l[1] \in rows \cup gone /\ l[2] <= clock
        BY <1>2, <2>1, <3>2
      <4>2. l \notin crossed => scans[l] <= 1 /\ (scans[l] > 0 => Settled(l)')
        BY <1>0, <1>7 DEF FireInv
      <4>3. ASSUME l \notin crossed, l \notin lost
            PROVE  tasks[l] = 0
        <5>1. ~Settled(l)
          BY <1>2, <2>1, <3>2 DEF Settled
        <5>2. ASSUME NEW j \in Slots, Trying(j, l)
              PROVE  FALSE
          <6>1. j # k /\ s \in due[j] /\ read[j][s].next = read[k][s].next
            BY <1>0, <2>1, <2>3, <3>2, <5>2, Pairs DEF Trying, SlotInv
          <6> QED
            BY <1>0, <1>2, <3>2, <4>3, <6>1 DEF CrossInv
        <5> QED
          BY <1>0, <2>4, <4>3, <5>1, <5>2 DEF FireInv
      <4>4. l \notin crossed /\ l \notin lost => tasks'[l] = 1
        BY <2>2, <3>2, <4>3 DEF OneMore
      <4> QED
        BY <2>3, <3>2, <4>1, <4>2, <4>4
    <3> QED
      BY <3>1, <3>2
  <2>6. CountInv'
    <3> SUFFICES ASSUME NEW l \in Launches, l \notin lost
                 PROVE  /\ tasks'[l] = 1 => scans[l] > 0 \/ \E j \in Slots : Trying(j, l)'
                        /\ tasks'[l] = 2 =>
                             \/ scans[l] = 2
                             \/ scans[l] = 1 /\ \E j \in Slots : Trying(j, l)'
                             \/ \E i, j \in Slots : i # j /\ Trying(i, l)' /\ Trying(j, l)'
      BY <1>1 DEF CountInv
    <3>1. CASE l # l0
      BY <1>0, <1>8, <2>2, <3>1 DEF CountInv
    <3>2. CASE l = l0 /\ tasks[l] = 0
      <4>1. tasks'[l] = 1
        BY <2>2, <3>2 DEF OneMore
      <4> QED
        BY <2>3, <3>2, <4>1
    <3>3. CASE l = l0 /\ tasks[l] = 1
      <4>1. tasks'[l] = 2
        BY <2>2, <3>3 DEF OneMore
      <4>2. scans[l] \in {1, 2} \/ \E j \in Slots : Trying(j, l)
        BY <1>0, <2>4, <3>3 DEF CountInv
      <4> QED
        BY <1>8, <2>3, <3>3, <4>1, <4>2
    <3>4. CASE l = l0 /\ tasks[l] = 2
      <4>1. tasks'[l] = 2
        BY <2>2, <3>4 DEF OneMore
      <4> QED
        BY <1>0, <1>8, <3>4, <4>1 DEF CountInv
    <3> QED
      BY <2>4, <3>1, <3>2, <3>3, <3>4
  <2> QED
    BY <1>4, <1>5, <1>6, <2>5, <2>6
<1> QED
  BY <1>9, <1>10

(* The end of a session, committed or not, for the batches of the others.  *)
LEMMA EndKeeps ==
    ASSUME IInv, NEW k \in Slots, End(k),
           UNCHANGED <<rows, gone, engs, clock, crossed>>
    PROVE  SlotInv' /\ PassedInv' /\ CrossInv'
<1>0. RestTypeOK /\ SlotInv /\ PassedInv /\ CrossInv
  BY DEF IInv
<1>1. /\ pc'[k] = "idle" /\ started'[k] = 0 /\ due'[k] = {} /\ todo'[k] = {}
      /\ added'[k] = {} /\ sent'[k] = {} /\ advanced'[k] = {}
      /\ \A j \in Slots : j # k =>
           /\ pc'[j] = pc[j] /\ started'[j] = started[j]
           /\ due'[j] = due[j] /\ todo'[j] = todo[j] /\ cur'[j] = cur[j]
           /\ read'[j] = read[j] /\ advanced'[j] = advanced[j]
           /\ added'[j] = added[j] /\ sent'[j] = sent[j]
  BY <1>0, Ended
<1>2. SlotInv'
  <2> SUFFICES ASSUME NEW j \in Slots
               PROVE  /\ ~Open(j)' => due'[j] = {}
                      /\ due'[j] \subseteq rows' \cup gone'
                      /\ todo'[j] \subseteq due'[j]
                      /\ added'[j] \subseteq due'[j] \ todo'[j]
                      /\ sent'[j] \subseteq added'[j] /\ advanced'[j] = added'[j]
                      /\ pc'[j] = "dispatch" => cur'[j] \in due'[j] \ (todo'[j] \cup added'[j])
                      /\ started'[j] <= clock'
                      /\ \A s \in due'[j] : read'[j][s].next <= started'[j]
    BY DEF SlotInv
  <2>1. CASE j = k
    <3>1. started'[j] <= clock'
      <4>1. clock' \in Nat
        BY <1>0, Typed
      <4>2. started'[j] = 0
        BY <1>1, <2>1
      <4> QED
        BY <4>1, <4>2
    <3>2. /\ pc'[j] # "dispatch" /\ due'[j] = {} /\ todo'[j] = {}
          /\ added'[j] = {} /\ sent'[j] = {} /\ advanced'[j] = {}
      BY <1>1, <2>1
    <3> QED
      BY <3>1, <3>2
  <2>2. CASE j # k
    BY <1>0, <1>1, <2>2 DEF SlotInv, Open
  <2> QED
    BY <2>1, <2>2
<1>3. PassedInv'
  BY <1>0, <1>1 DEF PassedInv
<1>4. CrossInv'
  BY <1>0, <1>1 DEF CrossInv, LaunchOf
<1> QED
  BY <1>2, <1>3, <1>4

(* A tick that does not commit: its launches are lost.                     *)
LEMMA AbortKeeps ==
    ASSUME IInv, NEW k \in Slots, Abort(k)
    PROVE  SlotInv' /\ PassedInv' /\ CrossInv' /\ FireInv' /\ CountInv'
<1>0. RestTypeOK /\ FireInv /\ CountInv
  BY DEF IInv
<1>1. /\ due'[k] = {} /\ sent'[k] = {}
      /\ \A j \in Slots : j # k =>
           /\ started'[j] = started[j] /\ due'[j] = due[j]
           /\ read'[j] = read[j] /\ sent'[j] = sent[j]
  BY <1>0, Ended DEF Abort
<1>2. /\ UNCHANGED <<rows, gone, engs, clock, nextRun, crossed, tasks, scans>>
      /\ lost \subseteq lost'
  BY DEF Abort, columns
<1>3. SlotInv' /\ PassedInv' /\ CrossInv'
  BY <1>2, EndKeeps DEF Abort
<1>4. \A l \in Launches : Settled(l) => Settled(l)'
  BY <1>1, <1>2 DEF Settled
<1>5. \A j \in Slots, l \in Launches : l \notin lost' /\ Trying(j, l) => j # k /\ Trying(j, l)'
  BY <1>1 DEF Abort, Trying, LaunchOf
<1>6. FireInv'
  <2> SUFFICES ASSUME NEW l \in Launches
               PROVE  /\ tasks[l] > 0 \/ scans[l] > 0 => l[1] \in rows \cup gone /\ l[2] <= clock
                      /\ l \notin crossed =>
                           /\ scans[l] <= 1
                           /\ scans[l] > 0 => Settled(l)'
                           /\ l \notin lost' => tasks[l] <= 1
                           /\ l \notin lost' /\ tasks[l] > 0 =>
                                Settled(l)' \/ \E j \in Slots : Trying(j, l)'
    BY <1>2 DEF FireInv
  <2> QED
    BY <1>0, <1>2, <1>4, <1>5 DEF FireInv
<1>7. CountInv'
  <2> SUFFICES ASSUME NEW l \in Launches, l \notin lost'
               PROVE  /\ tasks[l] = 1 => scans[l] > 0 \/ \E j \in Slots : Trying(j, l)'
                      /\ tasks[l] = 2 =>
                           \/ scans[l] = 2
                           \/ scans[l] = 1 /\ \E j \in Slots : Trying(j, l)'
                           \/ \E i, j \in Slots : i # j /\ Trying(i, l)' /\ Trying(j, l)'
    BY <1>2 DEF CountInv
  <2> QED
    BY <1>0, <1>2, <1>5 DEF CountInv
<1> QED
  BY <1>3, <1>6, <1>7

(* A tick that commits: what it recorded is settled.                       *)
LEMMA CommitKeeps ==
    ASSUME IInv, NEW k \in Slots, Commit(k)
    PROVE  SlotInv' /\ PassedInv' /\ CrossInv' /\ FireInv' /\ CountInv'
<1> DEFINE Mine(l) == l[1] \in added[k] /\ read[k][l[1]].next = l[2]
<1>0. RestTypeOK /\ SlotInv /\ CrossInv /\ FireInv /\ CountInv
  BY DEF IInv
<1>1. /\ due'[k] = {} /\ sent'[k] = {}
      /\ \A j \in Slots : j # k =>
           /\ started'[j] = started[j] /\ due'[j] = due[j]
           /\ read'[j] = read[j] /\ sent'[j] = sent[j]
  BY <1>0, Ended DEF Commit
<1>2. /\ UNCHANGED <<rows, gone, engs, clock, crossed, lost, tasks>>
      /\ \A s \in Schedules : /\ s \in added[k] \cap rows =>
                                   nextRun'[s] = started[k] + read[k][s].every
                              /\ s \notin added[k] \cap rows => nextRun'[s] = nextRun[s]
  BY <1>0 DEF Commit, NewNext, SlotInv
<1>3. \A l \in Launches : /\ Mine(l) => scans'[l] = OneMore(scans[l])
                          /\ ~Mine(l) => scans'[l] = scans[l]
  BY Pairs DEF Commit
<1>4. SlotInv' /\ PassedInv' /\ CrossInv'
  BY <1>2, EndKeeps DEF Commit
<1>5. \A l \in Launches : Mine(l) =>
        /\ l[1] \in due[k] /\ l[1] \in rows \cup gone
        /\ l[2] <= started[k] /\ l[2] <= clock
  <2> SUFFICES ASSUME NEW l \in Launches, Mine(l)
               PROVE  /\ l[1] \in due[k] /\ l[1] \in rows \cup gone
                      /\ l[2] <= started[k] /\ l[2] <= clock
    OBVIOUS
  <2>1. l[1] \in due[k] /\ l[1] \in rows \cup gone /\ l[2] <= started[k] /\ started[k] <= clock
    BY <1>0 DEF SlotInv
  <2>2. l[2] \in Nat /\ started[k] \in Nat /\ clock \in Nat
    BY <1>0, Typed, Pairs DEF Times
  <2> QED
    BY <2>1, <2>2
<1>6. \A l \in Launches : Settled(l) => ~Mine(l)
  BY <1>5 DEF Settled
<1>7. ASSUME NEW l \in Launches, Settled(l)
      PROVE  Settled(l)'
  <2>1. l[1] \in rows' => nextRun'[l[1]] > l[2]
    <3>1. l[1] \in added[k] => l[1] \in due[k]
      BY <1>0 DEF SlotInv
    <3> QED
      BY <1>2, <1>7, <3>1, Pairs DEF Settled
  <2> QED
    BY <1>1, <1>7, <2>1 DEF Settled
<1>8. ASSUME NEW l \in Launches, Mine(l), l \notin crossed
      PROVE  Settled(l)'
  <2>1. l[1] \in Schedules /\ l[2] \in Nat /\ l = <<l[1], l[2]>>
    BY Pairs DEF Times
  <2>2. /\ started[k] \in Nat /\ read[k][l[1]].every \in Nat /\ read[k][l[1]].every > 0
    BY <1>0, <2>1, Typed
  <2>3. l[1] \in rows' => nextRun'[l[1]] > l[2]
    BY <1>2, <1>5, <1>8, <2>1, <2>2
  <2>4. ASSUME NEW j \in Slots, l[1] \in due'[j]
        PROVE  read'[j][l[1]].next # l[2] /\ started'[j] + read'[j][l[1]].every > l[2]
    <3>1. j # k /\ l[1] \in due[j] /\ started'[j] = started[j] /\ read'[j] = read[j]
      BY <1>1, <2>4
    <3>2. LaunchOf(k, l[1]) = l
      BY <1>8, <2>1 DEF LaunchOf
    <3>3. read[j][l[1]].next # l[2] /\ started[j] >= l[2]
      BY <1>0, <1>5, <1>8, <3>1, <3>2 DEF CrossInv
    <3>4. started[j] \in Nat /\ read[j][l[1]].every \in Nat /\ read[j][l[1]].every > 0
      BY <1>0, <2>1, Typed
    <3> QED
      BY <2>1, <3>1, <3>3, <3>4
  <2> QED
    BY <2>3, <2>4 DEF Settled
<1>9. \A j \in Slots, l \in Launches : Trying(j, l) => Mine(l) \/ (j # k /\ Trying(j, l)')
  <2>1. sent[k] \subseteq added[k]
    BY <1>0 DEF SlotInv
  <2> QED
    BY <1>1, <2>1, Pairs DEF Trying, LaunchOf
<1>10. \A j \in Slots, l \in Launches : j # k /\ Trying(j, l) => Trying(j, l)'
  BY <1>1 DEF Trying, LaunchOf
<1>11. \A l \in Launches : tasks[l] \in 0 .. 2 /\ scans[l] \in 0 .. 2
  BY <1>0, Typed
<1>12. FireInv'
  <2> SUFFICES ASSUME NEW l \in Launches
               PROVE  /\ tasks[l] > 0 \/ scans'[l] > 0 => l[1] \in rows \cup gone /\ l[2] <= clock
                      /\ l \notin crossed =>
                           /\ scans'[l] <= 1
                           /\ scans'[l] > 0 => Settled(l)'
                           /\ l \notin lost => tasks[l] <= 1
                           /\ l \notin lost /\ tasks[l] > 0 =>
                                Settled(l)' \/ \E j \in Slots : Trying(j, l)'
    BY <1>2 DEF FireInv
  <2>1. CASE Mine(l)
    <3>1. l[1] \in rows \cup gone /\ l[2] <= clock
      BY <1>5, <2>1
    <3>2. l \notin crossed => scans[l] = 0
      BY <1>0, <1>6, <1>11, <2>1 DEF FireInv
    <3>3. l \notin crossed => scans'[l] = 1
      BY <1>3, <2>1, <3>2 DEF OneMore
    <3> QED
      BY <1>0, <1>8, <2>1, <3>1, <3>3 DEF FireInv
  <2>2. CASE ~Mine(l)
    <3>1. scans'[l] = scans[l]
      BY <1>3, <2>2
    <3> QED
      BY <1>0, <1>7, <1>9, <2>2, <3>1 DEF FireInv
  <2> QED
    BY <2>1, <2>2
<1>13. CountInv'
  <2> SUFFICES ASSUME NEW l \in Launches, l \notin lost
               PROVE  /\ tasks[l] = 1 => scans'[l] > 0 \/ \E j \in Slots : Trying(j, l)'
                      /\ tasks[l] = 2 =>
                           \/ scans'[l] = 2
                           \/ scans'[l] = 1 /\ \E j \in Slots : Trying(j, l)'
                           \/ \E i, j \in Slots : i # j /\ Trying(i, l)' /\ Trying(j, l)'
    BY <1>2 DEF CountInv
  <2>1. CASE ~Mine(l)
    BY <1>0, <1>3, <1>9, <2>1 DEF CountInv
  <2>2. CASE Mine(l) /\ scans[l] = 0
    <3>1. scans'[l] = 1
      BY <1>3, <2>2 DEF OneMore
    <3>2. tasks[l] = 2 => \E i, j \in Slots : i # j /\ Trying(i, l) /\ Trying(j, l)
      BY <1>0, <2>2 DEF CountInv
    <3> QED
      BY <1>10, <3>1, <3>2
  <2>3. CASE Mine(l) /\ scans[l] # 0
    <3>1. scans'[l] = 2
      BY <1>3, <2>3 DEF OneMore
    <3> QED
      BY <3>1
  <2> QED
    BY <2>1, <2>2, <2>3
<1> QED
  BY <1>4, <1>12, <1>13

(* Requests keep the batches intact, and note the intervals they change.   *)
LEMMA RequestKeeps ==
    ASSUME IInv, Edit
    PROVE  /\ SlotInv' /\ PassedInv' /\ CrossInv' /\ FireInv' /\ CountInv'
           /\ StaleInv' /\ WithinInterval'
<1>0. RestTypeOK /\ SlotInv /\ StaleInv /\ WithinInterval
  BY DEF IInv
<1>1. /\ clock \in Nat /\ rows \cup gone \subseteq Schedules
      /\ \A s \in Schedules : nextRun[s] \in Nat /\ interval[s] \in Nat
      /\ \A i \in Intervals : i \in Nat /\ i > 0
  <2>1. Intervals \subseteq Nat \ {0}
    BY ScheduledDispatchAssumption DEF ScheduledDispatchAssumption
  <2> QED
    BY <1>0, <2>1, Typed
<1>2. ASSUME NEW s \in Schedules, NEW h \in Intervals, NEW immediately \in BOOLEAN,
             Create(s, h, immediately)
      PROVE  /\ SlotInv' /\ PassedInv' /\ CrossInv' /\ FireInv' /\ CountInv'
             /\ StaleInv' /\ WithinInterval'
  <2>1. /\ s \notin rows \cup gone /\ rows' = rows \cup {s}
        /\ UNCHANGED <<gone, clock, engs, stale>>
        /\ UNCHANGED <<pc, started, due, todo, cur, read, advanced, added, sent,
                       tasks, scans, crossed, lost>>
    BY <1>2 DEF Create, session, history
  <2>2. /\ nextRun'[s] = clock + (IF immediately THEN 0 ELSE h) /\ interval'[s] = h
        /\ \A x \in Schedules : x # s => nextRun'[x] = nextRun[x] /\ interval'[x] = interval[x]
    BY <1>0, <1>2 DEF Create, RestTypeOK
  <2>3. nextRun'[s] \in Nat /\ nextRun'[s] <= clock + interval'[s]
    BY <1>1, <2>2
  <2>4. SlotInv' /\ PassedInv' /\ CrossInv' /\ FireInv' /\ CountInv'
    <3>1. /\ clock' \in Nat /\ clock' >= clock
          /\ rows \cup gone \subseteq rows' \cup gone' /\ rows' \subseteq Schedules
          /\ engs' \subseteq engs
      BY <1>1, <2>1
    <3>2. \A x \in rows' : nextRun'[x] \in Nat
      BY <1>1, <2>1, <2>2, <2>3
    <3>3. \A x \in rows' : \/ x \in rows /\ nextRun'[x] = nextRun[x]
                           \/ x \notin rows \cup gone
                           \/ nextRun'[x] > clock
      BY <1>1, <2>1, <2>2
    <3> QED
      BY <2>1, <3>1, <3>2, <3>3, EditKeeps
  <2>5. StaleInv'
    <3>1. \A k \in Slots : s \notin due[k]
      BY <1>0, <2>1 DEF SlotInv
    <3> QED
      BY <1>0, <1>1, <2>1, <2>2, <3>1 DEF StaleInv, Outdated, ReadOther, Open
  <2>6. WithinInterval'
    BY <1>0, <1>1, <2>1, <2>2, <2>3 DEF WithinInterval
  <2> QED
    BY <2>4, <2>5, <2>6
<1>3. ASSUME NEW s \in Schedules, NEW h \in Intervals, SetInterval(s, h)
      PROVE  /\ SlotInv' /\ PassedInv' /\ CrossInv' /\ FireInv' /\ CountInv'
             /\ StaleInv' /\ WithinInterval'
  <2>1. /\ UNCHANGED <<rows, gone, clock, engs>>
        /\ UNCHANGED <<pc, started, due, todo, cur, read, advanced, added, sent,
                       tasks, scans, crossed, lost>>
    BY <1>3 DEF SetInterval, session
  <2>2. /\ nextRun'[s] = clock + h /\ interval'[s] = h
        /\ \A x \in Schedules : x # s => nextRun'[x] = nextRun[x] /\ interval'[x] = interval[x]
    BY <1>0, <1>3 DEF SetInterval, Anchor, RestTypeOK
  <2>3. /\ (\E k \in Slots : ReadOther(k, s, h)) => s \in stale'
        /\ \A x \in stale : x # s => x \in stale'
    BY <1>3 DEF SetInterval
  <2>4. nextRun'[s] \in Nat /\ nextRun'[s] > clock /\ nextRun'[s] <= clock + interval'[s]
    BY <1>1, <2>2
  <2>5. SlotInv' /\ PassedInv' /\ CrossInv' /\ FireInv' /\ CountInv'
    <3>1. /\ clock' \in Nat /\ clock' >= clock
          /\ rows \cup gone \subseteq rows' \cup gone' /\ rows' \subseteq Schedules
          /\ engs' \subseteq engs
      BY <1>1, <2>1
    <3>2. \A x \in rows' : nextRun'[x] \in Nat
      BY <1>1, <2>1, <2>2, <2>4
    <3>3. \A x \in rows' : \/ x \in rows /\ nextRun'[x] = nextRun[x]
                           \/ x \notin rows \cup gone
                           \/ nextRun'[x] > clock
      BY <1>1, <2>1, <2>2, <2>4
    <3> QED
      BY <2>1, <3>1, <3>2, <3>3, EditKeeps
  <2>6. StaleInv'
    BY <1>0, <1>1, <2>1, <2>2, <2>3 DEF StaleInv, Outdated, ReadOther, Open
  <2>7. WithinInterval'
    BY <1>0, <1>1, <2>1, <2>2, <2>3, <2>4 DEF WithinInterval
  <2> QED
    BY <2>5, <2>6, <2>7
<1>4. ASSUME NEW s \in Schedules, NEW on \in BOOLEAN, SetEnabled(s, on)
      PROVE  /\ SlotInv' /\ PassedInv' /\ CrossInv' /\ FireInv' /\ CountInv'
             /\ StaleInv' /\ WithinInterval'
  <2>1. /\ UNCHANGED <<rows, gone, clock, engs, nextRun, interval, stale>>
        /\ UNCHANGED <<pc, started, due, todo, cur, read, advanced, added, sent,
                       tasks, scans, crossed, lost>>
    BY <1>4 DEF SetEnabled, session, history
  <2>2. SlotInv' /\ PassedInv' /\ CrossInv' /\ FireInv' /\ CountInv'
    <3>1. /\ clock' \in Nat /\ clock' >= clock
          /\ rows \cup gone \subseteq rows' \cup gone' /\ rows' \subseteq Schedules
          /\ engs' \subseteq engs
      BY <1>1, <2>1
    <3>2. \A x \in rows' : nextRun'[x] \in Nat
      BY <1>1, <2>1
    <3>3. \A x \in rows' : x \in rows /\ nextRun'[x] = nextRun[x]
      BY <2>1
    <3> QED
      BY <2>1, <3>1, <3>2, <3>3, EditKeeps
  <2>3. StaleInv' /\ WithinInterval'
    BY <1>0, <2>1 DEF StaleInv, Outdated, ReadOther, Open, WithinInterval
  <2> QED
    BY <2>2, <2>3
<1>5. ASSUME NEW S \in SUBSET Schedules, Remove(S), engs' \subseteq engs
      PROVE  /\ SlotInv' /\ PassedInv' /\ CrossInv' /\ FireInv' /\ CountInv'
             /\ StaleInv' /\ WithinInterval'
  <2>1. /\ rows' = rows \ S /\ gone' = gone \cup S /\ stale' = stale \ S /\ UNCHANGED clock
        /\ UNCHANGED <<pc, started, due, todo, cur, read, advanced, added, sent,
                       tasks, scans, crossed, lost>>
    BY <1>5 DEF Remove, session
  <2>2. \A s \in rows' : s \in rows /\ nextRun'[s] = nextRun[s] /\ interval'[s] = interval[s]
    BY <1>1, <1>5 DEF Remove
  <2>3. SlotInv' /\ PassedInv' /\ CrossInv' /\ FireInv' /\ CountInv'
    <3>1. /\ clock' \in Nat /\ clock' >= clock
          /\ rows \cup gone \subseteq rows' \cup gone' /\ rows' \subseteq Schedules
      BY <1>1, <2>1
    <3>2. \A x \in rows' : nextRun'[x] \in Nat
      BY <1>1, <2>2
    <3> QED
      BY <1>5, <2>1, <2>2, <3>1, <3>2, EditKeeps
  <2>4. StaleInv'
    BY <1>0, <2>1, <2>2 DEF StaleInv, Outdated, ReadOther, Open
  <2>5. WithinInterval'
    BY <1>0, <2>1, <2>2 DEF WithinInterval
  <2> QED
    BY <2>3, <2>4, <2>5
<1>6. ASSUME NEW s \in Schedules, Delete(s)
      PROVE  Remove({s}) /\ engs' \subseteq engs
  BY <1>6 DEF Delete
<1>7. ASSUME NEW e \in Engagements, DeleteEngagement(e)
      PROVE  Remove({s \in Schedules : EngOf[s] = e}) /\ engs' \subseteq engs
  BY <1>7 DEF DeleteEngagement
<1>8. ASSUME NEW s \in Schedules, Delete(s)
      PROVE  /\ SlotInv' /\ PassedInv' /\ CrossInv' /\ FireInv' /\ CountInv'
             /\ StaleInv' /\ WithinInterval'
  <2>1. {s} \in SUBSET Schedules
    OBVIOUS
  <2> QED
    BY <1>5, <1>6, <1>8, <2>1
<1>9. ASSUME NEW e \in Engagements, DeleteEngagement(e)
      PROVE  /\ SlotInv' /\ PassedInv' /\ CrossInv' /\ FireInv' /\ CountInv'
             /\ StaleInv' /\ WithinInterval'
  <2>1. {s \in Schedules : EngOf[s] = e} \in SUBSET Schedules
    OBVIOUS
  <2> QED
    BY <1>5, <1>7, <1>9, <2>1
<1> QED
  BY <1>2, <1>3, <1>4, <1>8, <1>9 DEF Edit

(* Time passing moves no schedule. *)
LEMMA BeatKeeps ==
    ASSUME IInv, Beat
    PROVE  /\ SlotInv' /\ PassedInv' /\ CrossInv' /\ FireInv' /\ CountInv'
           /\ StaleInv' /\ WithinInterval'
<1>0. RestTypeOK /\ StaleInv /\ WithinInterval
  BY DEF IInv
<1>1. /\ UNCHANGED <<rows, gone, engs, nextRun, interval, stale>>
      /\ UNCHANGED <<pc, started, due, todo, cur, read, advanced, added, sent,
                     tasks, scans, crossed, lost>>
  BY DEF Beat, columns, session, history
<1>2. clock \in Nat /\ clock' \in Nat /\ clock' >= clock
  BY <1>0, Typed DEF Beat
<1>3. rows \subseteq Schedules
      /\ \A s \in Schedules : nextRun[s] \in Nat /\ interval[s] \in Nat
  BY <1>0, Typed
<1>4. SlotInv' /\ PassedInv' /\ CrossInv' /\ FireInv' /\ CountInv'
  BY <1>1, <1>2, <1>3, EditKeeps
<1>5. StaleInv'
  BY <1>0, <1>1 DEF StaleInv, Outdated, ReadOther, Open
<1>6. WithinInterval'
  BY <1>0, <1>1, <1>2, <1>3 DEF WithinInterval
<1> QED
  BY <1>4, <1>5, <1>6

(* A tick writes an interval it read: that of the row, or an outdated one. *)
LEMMA TickKeepsIntervals ==
    ASSUME IInv, NEW k \in Slots,
           \/ Begin(k) \/ Commit(k) \/ Abort(k)
           \/ \E s \in Schedules : Load(k, s)
           \/ \E failed \in BOOLEAN : Record(k, failed)
    PROVE  StaleInv' /\ WithinInterval'
<1>0. RestTypeOK /\ SlotInv /\ StaleInv /\ WithinInterval
  BY DEF IInv
<1>1. rows \subseteq Schedules
  BY <1>0, Typed
<1>2. CASE Begin(k)
  <2>1. /\ UNCHANGED <<rows, interval, nextRun, clock, stale>>
        /\ due'[k] = {s \in Schedules : IsDue(s)}
        /\ \A s \in due'[k] : read'[k][s].every = interval[s]
        /\ \A j \in Slots : j # k =>
             pc'[j] = pc[j] /\ due'[j] = due[j] /\ read'[j] = read[j]
    BY <1>0, <1>2 DEF Begin, RestTypeOK, columns
  <2> QED
    BY <1>0, <2>1 DEF StaleInv, WithinInterval, Outdated, ReadOther, Open
<1>3. CASE Abort(k)
  <2>1. /\ UNCHANGED <<rows, interval, nextRun, clock, stale>>
        /\ due'[k] = {}
        /\ \A j \in Slots : j # k =>
             pc'[j] = pc[j] /\ due'[j] = due[j] /\ read'[j] = read[j]
    BY <1>0, <1>3, Ended DEF Abort, columns
  <2> QED
    BY <1>0, <2>1 DEF StaleInv, WithinInterval, Outdated, ReadOther, Open
<1>4. CASE \/ \E s \in Schedules : Load(k, s)
           \/ \E failed \in BOOLEAN : Record(k, failed)
  <2>1. UNCHANGED <<rows, interval, nextRun, clock, stale, due, read>>
        /\ \A j \in Slots : Open(j)' => Open(j)
    BY <1>0, <1>4 DEF Load, Record, RestTypeOK, Open, columns, history
  <2> QED
    BY <1>0, <2>1 DEF StaleInv, WithinInterval, Outdated, ReadOther
<1>5. CASE Commit(k)
  <2>1. /\ UNCHANGED <<rows, interval, clock>>
        /\ due'[k] = {}
        /\ \A j \in Slots : j # k =>
             pc'[j] = pc[j] /\ due'[j] = due[j] /\ read'[j] = read[j]
    BY <1>0, <1>5, Ended DEF Commit
  <2>2. /\ \A s \in stale : (\E j \in Slots : Outdated(j, s)) => s \in stale'
        /\ \A s \in stale : s \notin advanced[k] => s \in stale'
        /\ \A s \in rows : s \in advanced[k] => nextRun'[s] = started[k] + read[k][s].every
        /\ \A s \in rows : s \notin advanced[k] => nextRun'[s] = nextRun[s]
    BY <1>1, <1>5 DEF Commit, NewNext, Outdated
  <2>3. StaleInv'
    <3>1. \A j \in Slots, s \in rows : Outdated(j, s)' => Outdated(j, s)
      BY <2>1 DEF Outdated, ReadOther, Open
    <3> QED
      BY <1>0, <2>1, <2>2, <3>1 DEF StaleInv
  <2>4. WithinInterval'
    <3> SUFFICES ASSUME NEW s \in rows
                 PROVE  nextRun'[s] <= clock + interval[s] \/ s \in stale'
      BY <2>1 DEF WithinInterval
    <3>1. CASE s \notin advanced[k]
      BY <1>0, <2>2, <3>1 DEF WithinInterval
    <3>2. CASE s \in advanced[k]
      <4>1. s \in due[k] /\ Open(k) /\ started[k] <= clock
        BY <1>0, <3>2 DEF SlotInv
      <4>2. CASE read[k][s].every # interval[s]
        BY <1>0, <2>2, <4>1, <4>2 DEF StaleInv, Outdated, ReadOther
      <4>3. CASE read[k][s].every = interval[s]
        <5>1. started[k] \in Nat /\ clock \in Nat /\ interval[s] \in Nat
          BY <1>0, <1>1, Typed
        <5> QED
          BY <2>2, <3>2, <4>1, <4>3, <5>1
      <4> QED
        BY <4>2, <4>3
    <3> QED
      BY <3>1, <3>2
  <2> QED
    BY <2>3, <2>4
<1> QED
  BY <1>2, <1>3, <1>4, <1>5

(* Types: requests. *)
LEMMA RequestTypes ==
    ASSUME RestTypeOK, Edit, edits < MaxEdits, edits' = edits + 1
    PROVE  RestTypeOK' /\ queued' = queued /\ faults' = faults
<1>1. /\ Latest \in Intervals /\ Intervals \subseteq Nat \ {0} /\ MaxClock \in Nat
      /\ MaxEdits \in Nat
  BY ScheduledDispatchAssumption DEF ScheduledDispatchAssumption, Latest
<1>2. edits' \in 0 .. MaxEdits
  BY <1>1 DEF RestTypeOK
<1>3. ASSUME NEW s \in Schedules, NEW h \in Intervals, NEW immediately \in BOOLEAN,
             Create(s, h, immediately)
      PROVE  RestTypeOK' /\ queued' = queued /\ faults' = faults
  <2>1. clock + (IF immediately THEN 0 ELSE h) \in Nat
    BY <1>1 DEF RestTypeOK, Times
  <2> QED
    BY <1>2, <1>3, <2>1 DEF Create, RestTypeOK, session, history
<1>4. ASSUME NEW s \in Schedules, NEW h \in Intervals, SetInterval(s, h)
      PROVE  RestTypeOK' /\ queued' = queued /\ faults' = faults
  <2>1. clock + h \in Nat
    BY <1>1 DEF RestTypeOK, Times
  <2>2. stale' \subseteq Schedules
    BY <1>4 DEF SetInterval, RestTypeOK
  <2> QED
    BY <1>2, <1>4, <2>1, <2>2 DEF SetInterval, Anchor, RestTypeOK, session
<1>5. ASSUME NEW s \in Schedules, NEW on \in BOOLEAN, SetEnabled(s, on)
      PROVE  RestTypeOK' /\ queued' = queued /\ faults' = faults
  BY <1>2, <1>5 DEF SetEnabled, RestTypeOK, session, history
<1>6. ASSUME NEW S \in SUBSET Schedules, Remove(S), engs' \subseteq engs,
             \A s \in Schedules : s \in rows' => EngOf[s] \in engs'
      PROVE  RestTypeOK' /\ queued' = queued /\ faults' = faults
  <2>1. /\ enabled' \in [Schedules -> BOOLEAN] /\ interval' \in [Schedules -> Intervals]
        /\ nextRun' \in [Schedules -> Nat]
    BY <1>1, <1>6 DEF Remove, RestTypeOK
  <2>2. /\ rows' \subseteq Schedules /\ gone' \subseteq Schedules \ rows'
        /\ stale' \subseteq Schedules /\ engs' \subseteq Engagements
    BY <1>6 DEF Remove, RestTypeOK
  <2>3. UNCHANGED <<clock, faults, queued, lock, session, tasks, scans, crossed, lost>>
    BY <1>6 DEF Remove
  <2> QED
    BY <1>2, <1>6, <2>1, <2>2, <2>3 DEF RestTypeOK, session
<1>7. ASSUME NEW s \in Schedules, Delete(s)
      PROVE  RestTypeOK' /\ queued' = queued /\ faults' = faults
  <2>1. Remove({s}) /\ engs' \subseteq engs /\ {s} \in SUBSET Schedules
    BY <1>7 DEF Delete
  <2>2. \A x \in Schedules : x \in rows' => EngOf[x] \in engs'
    BY <1>7 DEF Delete, Remove, RestTypeOK
  <2> QED
    BY <1>6, <2>1, <2>2
<1>8. ASSUME NEW e \in Engagements, DeleteEngagement(e)
      PROVE  RestTypeOK' /\ queued' = queued /\ faults' = faults
  <2>1. /\ Remove({s \in Schedules : EngOf[s] = e}) /\ engs' \subseteq engs
        /\ {s \in Schedules : EngOf[s] = e} \in SUBSET Schedules
    BY <1>8 DEF DeleteEngagement
  <2>2. \A x \in Schedules : x \in rows' => EngOf[x] \in engs'
    BY <1>8 DEF DeleteEngagement, Remove, RestTypeOK
  <2> QED
    BY <1>6, <2>1, <2>2
<1> QED
  BY <1>3, <1>4, <1>5, <1>7, <1>8 DEF Edit

(* Types: the end of a session. *)
LEMMA EndTypes ==
    ASSUME RestTypeOK, NEW k \in Slots, End(k)
    PROVE  /\ lock' \in [Schedules -> Slots \cup {NoSlot}]
           /\ pc' \in [Slots -> {"idle", "loop", "dispatch"}]
           /\ started' \in [Slots -> Times]
           /\ due' \in [Slots -> SUBSET Schedules]
           /\ todo' \in [Slots -> SUBSET Schedules]
           /\ cur' \in [Slots -> Schedules \cup {NoSchedule}]
           /\ read' \in [Slots -> [Schedules -> [next : Nat, every : Intervals]]]
           /\ advanced' \in [Slots -> SUBSET Schedules]
           /\ added' \in [Slots -> SUBSET Schedules]
           /\ sent' \in [Slots -> SUBSET Schedules]
<1>1. 0 \in Times /\ Latest \in Intervals
  <2>1. MaxClock \in Nat
    BY ScheduledDispatchAssumption DEF ScheduledDispatchAssumption
  <2>2. Latest \in Intervals
    BY ScheduledDispatchAssumption DEF ScheduledDispatchAssumption, Latest
  <2> QED
    BY <2>1, <2>2 DEF Times
<1>2. \A s \in Schedules : Heir(k, s) \in Slots \cup {NoSlot}
  BY DEF Heir
<1>3. [s \in Schedules |-> Unread] \in [Schedules -> [next : Nat, every : Intervals]]
  BY <1>1 DEF Unread
<1>4. lock' \in [Schedules -> Slots \cup {NoSlot}]
  BY <1>2 DEF End, RestTypeOK
<1>5. read' \in [Slots -> [Schedules -> [next : Nat, every : Intervals]]]
  BY <1>3 DEF End, RestTypeOK
<1> QED
  BY <1>1, <1>4, <1>5 DEF End, RestTypeOK

(* What a tick holds is a launch. *)
LEMMA Held ==
    ASSUME RestTypeOK, SlotInv, NEW k \in Slots, NEW s \in due[k]
    PROVE  LaunchOf(k, s) \in Launches
<1>1. s \in Schedules /\ read[k][s].next \in Nat /\ started[k] \in Times
  BY Typed
<1>2. read[k][s].next <= started[k]
  BY DEF SlotInv
<1>3. started[k] \in Nat /\ MaxClock \in Nat /\ started[k] <= MaxClock
  BY <1>1, Typed DEF Times
<1>4. read[k][s].next \in Times
  BY <1>1, <1>2, <1>3 DEF Times
<1> QED
  BY <1>1, <1>4 DEF LaunchOf, Launches

LEMMA AbortTypes ==
    ASSUME RestTypeOK, SlotInv, NEW k \in Slots, Abort(k),
           faults' \in 0 .. MaxFaults, queued' \in 0 .. MaxQueued + MaxFaults,
           UNCHANGED edits
    PROVE  RestTypeOK'
<1>1. lost' \subseteq Launches
  <2>1. sent[k] \subseteq due[k]
    BY DEF SlotInv
  <2>2. lost \subseteq Launches
    BY DEF RestTypeOK
  <2> QED
    BY <2>1, <2>2, Held DEF Abort
<1>2. UNCHANGED <<clock, engs, rows, gone, enabled, interval, nextRun, tasks, scans,
                  crossed, stale>>
  BY DEF Abort, columns
<1> QED
  BY <1>1, <1>2, EndTypes DEF Abort, RestTypeOK

LEMMA CommitTypes ==
    ASSUME RestTypeOK, NEW k \in Slots, Commit(k), UNCHANGED edits
    PROVE  RestTypeOK'
<1>1. nextRun' \in [Schedules -> Nat]
  <2>1. \A s \in Schedules : NewNext(k, s) \in Nat
    BY Typed DEF NewNext
  <2> QED
    BY <2>1 DEF Commit, RestTypeOK
<1>2. scans' \in [Launches -> 0 .. 2]
  <2>1. \A l \in Launches : OneMore(scans[l]) \in 0 .. 2
    BY DEF OneMore
  <2> QED
    BY <2>1 DEF Commit, RestTypeOK
<1>3. stale' \subseteq Schedules
  BY DEF Commit, RestTypeOK
<1>4. /\ UNCHANGED <<clock, faults, queued, engs, rows, gone, interval, tasks, crossed,
                     lost, edits, enabled>>
  BY DEF Commit
<1> QED
  BY <1>1, <1>2, <1>3, <1>4, EndTypes DEF Commit, RestTypeOK

LEMMA BeginTypes ==
    ASSUME RestTypeOK, NEW k \in Slots, Begin(k), UNCHANGED edits
    PROVE  RestTypeOK'
<1>1. queued' \in 0 .. MaxQueued + MaxFaults
  <2>1. MaxQueued \in Nat /\ MaxFaults \in Nat
    BY ScheduledDispatchAssumption DEF ScheduledDispatchAssumption
  <2> QED
    BY <2>1 DEF Begin, RestTypeOK
<1>2. read' \in [Slots -> [Schedules -> [next : Nat, every : Intervals]]]
  <2>1. Latest \in Intervals
    BY ScheduledDispatchAssumption DEF ScheduledDispatchAssumption, Latest
  <2>2. [s \in Schedules |-> IF IsDue(s) THEN [next |-> nextRun[s], every |-> interval[s]]
                             ELSE Unread] \in [Schedules -> [next : Nat, every : Intervals]]
    BY <2>1 DEF RestTypeOK, Unread
  <2> QED
    BY <2>2 DEF Begin, RestTypeOK
<1>3. crossed' \subseteq Launches
  <2>1. \A s \in Schedules : IsDue(s) => <<s, nextRun[s]>> \in Launches
    <3>1. clock \in Times /\ clock \in Nat /\ MaxClock \in Nat
          /\ \A s \in Schedules : nextRun[s] \in Nat
      BY Typed DEF RestTypeOK
    <3>2. \A s \in Schedules : IsDue(s) => nextRun[s] \in Times
      BY <3>1 DEF IsDue, Times
    <3> QED
      BY <3>2 DEF Launches
  <2> QED
    BY <2>1 DEF Begin, RestTypeOK
<1>4. /\ pc' \in [Slots -> {"idle", "loop", "dispatch"}]
      /\ started' \in [Slots -> Times]
      /\ due' \in [Slots -> SUBSET Schedules]
      /\ todo' \in [Slots -> SUBSET Schedules]
  BY DEF Begin, RestTypeOK
<1> QED
  BY <1>1, <1>2, <1>3, <1>4 DEF Begin, RestTypeOK, columns

LEMMA LoadTypes ==
    ASSUME RestTypeOK, NEW k \in Slots, NEW s \in Schedules, Load(k, s), UNCHANGED edits
    PROVE  RestTypeOK'
<1>1. lock' \in [Schedules -> Slots \cup {NoSlot}]
  BY DEF Load, Flushes, RestTypeOK
<1>2. /\ todo' \in [Slots -> SUBSET Schedules]
      /\ cur' \in [Slots -> Schedules \cup {NoSchedule}]
      /\ pc' \in [Slots -> {"idle", "loop", "dispatch"}]
  BY DEF Load, RestTypeOK
<1> QED
  BY <1>1, <1>2 DEF Load, RestTypeOK, columns, history

LEMMA RecordTypes ==
    ASSUME RestTypeOK, SlotInv, NEW k \in Slots, UNCHANGED edits, Send(k) \/ SendFails(k)
    PROVE  RestTypeOK'
<1>0. \/ /\ tasks' = [tasks EXCEPT ![LaunchOf(k, cur[k])] = OneMore(@)]
         /\ sent' = [sent EXCEPT ![k] = @ \cup {cur[k]}]
         /\ UNCHANGED faults
      \/ faults < MaxFaults /\ faults' = faults + 1 /\ UNCHANGED <<sent, tasks>>
  BY DEF Send, SendFails
<1>1. PICK failed \in BOOLEAN : Record(k, failed)
  BY DEF Send, SendFails
<1>2. cur[k] \in due[k] /\ cur[k] \in Schedules
  BY <1>1, Typed DEF Record, SlotInv
<1>3. /\ added' \in [Slots -> SUBSET Schedules] /\ advanced' \in [Slots -> SUBSET Schedules]
      /\ pc' \in [Slots -> {"idle", "loop", "dispatch"}]
      /\ cur' \in [Slots -> Schedules \cup {NoSchedule}]
  BY <1>1, <1>2 DEF Record, Added, Advances, RestTypeOK
<1>4. sent' \in [Slots -> SUBSET Schedules]
  <2>1. [sent EXCEPT ![k] = @ \cup {cur[k]}] \in [Slots -> SUBSET Schedules]
    BY <1>2 DEF RestTypeOK
  <2>2. sent \in [Slots -> SUBSET Schedules]
    BY DEF RestTypeOK
  <2> QED
    BY <1>0, <2>1, <2>2
<1>5. tasks' \in [Launches -> 0 .. 2]
  <2>1. [tasks EXCEPT ![LaunchOf(k, cur[k])] = OneMore(@)] \in [Launches -> 0 .. 2]
    <3>1. \A l \in Launches : OneMore(tasks[l]) \in 0 .. 2
      BY DEF OneMore
    <3> QED
      BY <3>1 DEF RestTypeOK
  <2>2. tasks \in [Launches -> 0 .. 2]
    BY DEF RestTypeOK
  <2> QED
    BY <1>0, <2>1, <2>2
<1>6. faults' \in 0 .. MaxFaults
  <2>1. MaxFaults \in Nat
    BY ScheduledDispatchAssumption DEF ScheduledDispatchAssumption
  <2> QED
    BY <1>0, <2>1 DEF RestTypeOK
<1> QED
  BY <1>1, <1>3, <1>4, <1>5, <1>6 DEF Record, RestTypeOK, columns, history
-----------------------------------------------------------------------------
LEMMA InitHolds == Init => IInv
<1> SUFFICES ASSUME Init PROVE IInv
  OBVIOUS
<1>1. /\ Latest \in Intervals /\ MaxClock \in Nat /\ MaxFaults \in Nat /\ MaxEdits \in Nat
      /\ MaxQueued \in Nat /\ Latest \in Nat
  BY ScheduledDispatchAssumption DEF ScheduledDispatchAssumption, Latest
<1>2. RestTypeOK
  <2>1. /\ clock \in Times /\ faults \in 0 .. MaxFaults /\ edits \in 0 .. MaxEdits
        /\ queued \in 0 .. MaxQueued + MaxFaults
    BY <1>1 DEF Init, Times
  <2>2. /\ engs \subseteq Engagements /\ rows \subseteq Schedules
        /\ gone \subseteq Schedules \ rows
        /\ enabled \in [Schedules -> BOOLEAN] /\ interval \in [Schedules -> Intervals]
        /\ nextRun \in [Schedules -> Nat] /\ lock \in [Schedules -> Slots \cup {NoSlot}]
        /\ \A s \in Schedules : s \in rows => EngOf[s] \in engs
    BY <1>1 DEF Init, Engagements
  <2>3. started \in [Slots -> Times]
    <3>1. 0 \in Times
      BY <1>1 DEF Times
    <3> QED
      BY <3>1 DEF Init
  <2>4. read \in [Slots -> [Schedules -> [next : Nat, every : Intervals]]]
    <3>1. Unread \in [next : Nat, every : Intervals]
      BY <1>1 DEF Unread
    <3> QED
      BY <3>1 DEF Init
  <2>5. tasks \in [Launches -> 0 .. 2] /\ scans \in [Launches -> 0 .. 2]
    BY DEF Init
  <2> QED
    BY <2>1, <2>2, <2>3, <2>4, <2>5 DEF Init, RestTypeOK
<1>3. QueueInv
  BY <1>1 DEF Init, QueueInv
<1>4. SlotInv /\ PassedInv /\ CrossInv
  BY DEF Init, SlotInv, PassedInv, CrossInv, Open
<1>5. FireInv /\ CountInv
  BY DEF Init, FireInv, CountInv
<1>6. StaleInv
  BY DEF Init, StaleInv, Outdated, ReadOther
<1>7. WithinInterval
  <2>1. \A s \in rows : nextRun[s] = 0 /\ interval[s] = Latest /\ clock = 0
    BY DEF Init
  <2> QED
    BY <1>1, <2>1 DEF WithinInterval
<1> QED
  BY <1>2, <1>3, <1>4, <1>5, <1>6, <1>7 DEF IInv

LEMMA QueueKeeps ==
    ASSUME RestTypeOK, QueueInv,
           \/ queued' = queued /\ faults' = faults
           \/ queued < MaxQueued /\ queued' = queued + 1 /\ faults' = faults
           \/ queued > 0 /\ queued' = queued - 1 /\ faults' = faults
           \/ faults < MaxFaults /\ faults' = faults + 1 /\ queued' \in {queued, queued + 1}
    PROVE  /\ QueueInv'
           /\ faults' \in 0 .. MaxFaults /\ queued' \in 0 .. MaxQueued + MaxFaults
<1>1. MaxQueued \in Nat /\ MaxFaults \in Nat /\ queued \in Nat /\ faults \in Nat
      /\ queued <= MaxQueued + faults /\ faults <= MaxFaults
  BY ScheduledDispatchAssumption DEF ScheduledDispatchAssumption, RestTypeOK, QueueInv
<1>2. QueueInv'
  BY <1>1 DEF QueueInv
<1>3. faults' \in 0 .. MaxFaults /\ queued' \in Nat
  BY <1>1
<1>4. queued' <= MaxQueued + faults'
  BY <1>2 DEF QueueInv
<1> QED
  BY <1>1, <1>2, <1>3, <1>4

LEMMA StepKeeps == IInv /\ [Next]_vars => IInv'
<1> SUFFICES ASSUME IInv, [Next]_vars PROVE IInv'
  OBVIOUS
<1>0. RestTypeOK /\ QueueInv /\ SlotInv
  BY DEF IInv
<1>1. CASE Analyst
  <2>1. Edit /\ edits < MaxEdits /\ edits' = edits + 1
    BY <1>1 DEF Analyst
  <2>2. RestTypeOK' /\ queued' = queued /\ faults' = faults
    BY <1>0, <2>1, RequestTypes
  <2>3. QueueInv'
    BY <1>0, <2>2, QueueKeeps
  <2> QED
    BY <2>1, <2>2, <2>3, RequestKeeps DEF IInv
<1>2. CASE Beat /\ UNCHANGED edits
  <2>1. QueueInv' /\ faults' \in 0 .. MaxFaults /\ queued' \in 0 .. MaxQueued + MaxFaults
    BY <1>0, <1>2, QueueKeeps DEF Beat
  <2>2. clock' \in Times
    <3>1. MaxClock \in Nat
      BY ScheduledDispatchAssumption DEF ScheduledDispatchAssumption
    <3> QED
      BY <1>0, <1>2, <3>1 DEF Beat, RestTypeOK, Times
  <2>3. RestTypeOK'
    BY <1>0, <1>2, <2>1, <2>2 DEF Beat, RestTypeOK, columns, session, history
  <2> QED
    BY <1>2, <2>1, <2>3, BeatKeeps DEF IInv
<1>3. ASSUME NEW k \in Slots, Begin(k), UNCHANGED edits
      PROVE  IInv'
  <2>1. QueueInv'
    BY <1>0, <1>3, QueueKeeps DEF Begin
  <2> QED
    BY <1>0, <1>3, <2>1, BeginTypes, BeginKeeps, TickKeepsIntervals DEF IInv
<1>4. ASSUME NEW k \in Slots, NEW s \in Schedules, Load(k, s), UNCHANGED edits
      PROVE  IInv'
  <2>1. QueueInv'
    BY <1>0, <1>4, QueueKeeps DEF Load
  <2> QED
    BY <1>0, <1>4, <2>1, LoadTypes, LoadKeeps, TickKeepsIntervals DEF IInv
<1>5. ASSUME NEW k \in Slots, Send(k) \/ SendFails(k), UNCHANGED edits
      PROVE  IInv'
  <2>1. QueueInv'
    BY <1>0, <1>5, QueueKeeps DEF Send, SendFails, Record
  <2>2. PICK failed \in BOOLEAN : Record(k, failed)
    BY <1>5 DEF Send, SendFails
  <2>3. SlotInv' /\ PassedInv' /\ CrossInv' /\ FireInv' /\ CountInv'
    BY <1>5, <2>2, RecordKeeps DEF Send, SendFails
  <2>4. StaleInv' /\ WithinInterval'
    BY <2>2, TickKeepsIntervals
  <2> QED
    BY <1>0, <1>5, <2>1, <2>3, <2>4, RecordTypes DEF IInv
<1>6. ASSUME NEW k \in Slots, Commit(k), UNCHANGED edits
      PROVE  IInv'
  <2>1. QueueInv'
    BY <1>0, <1>6, QueueKeeps DEF Commit
  <2> QED
    BY <1>0, <1>6, <2>1, CommitTypes, CommitKeeps, TickKeepsIntervals DEF IInv
<1>7. ASSUME NEW k \in Slots, Abort(k), UNCHANGED edits,
             \/ UNCHANGED <<faults, queued>>
             \/ faults < MaxFaults /\ faults' = faults + 1 /\ queued' = queued + 1
      PROVE  IInv'
  <2>1. QueueInv' /\ faults' \in 0 .. MaxFaults /\ queued' \in 0 .. MaxQueued + MaxFaults
    BY <1>0, <1>7, QueueKeeps
  <2> QED
    BY <1>0, <1>7, <2>1, AbortTypes, AbortKeeps, TickKeepsIntervals DEF IInv
<1>8. CASE UNCHANGED rest
  BY <1>8 DEF rest, columns, session, history, IInv, RestTypeOK, QueueInv, SlotInv, PassedInv,
              CrossInv, FireInv, CountInv, StaleInv, WithinInterval, Settled, Trying,
              LaunchOf, Outdated, ReadOther, Open
<1>9. ASSUME NEW k \in Slots, Tick(k) \/ Fault(k), UNCHANGED edits
      PROVE  IInv'
  BY <1>3, <1>4, <1>5, <1>6, <1>7, <1>9
     DEF Tick, Fault, RowVanished, EngagementVanished, DeadlockVictim, Crash
<1> QED
  BY <1>1, <1>2, <1>8, <1>9 DEF Next, OtherTask, vars

LEMMA Inductive == Spec => []IInv
BY InitHolds, StepKeeps, PTL DEF Spec

(* Only a slot itself ends its session. *)
LEMMA SessionEnds ==
    ASSUME IInv, [Next]_vars, NEW k \in Slots, Open(k), pc'[k] = "idle"
    PROVE  Commit(k) \/ Abort(k)
<1>0. RestTypeOK
  BY DEF IInv
<1>1. CASE Analyst \/ Beat \/ UNCHANGED rest
  BY <1>1 DEF Analyst, Edit, Create, SetInterval, SetEnabled, Delete, DeleteEngagement,
              Remove, Beat, rest, session, Open
<1>2. ASSUME NEW j \in Slots, Tick(j) \/ Fault(j), j # k
      PROVE  FALSE
  <2>1. pc'[k] = pc[k]
    <3>1. CASE Begin(j) \/ Send(j) \/ SendFails(j) \/ \E s \in Schedules : Load(j, s)
      BY <1>0, <1>2, <3>1 DEF Begin, Send, SendFails, Record, Load, RestTypeOK
    <3>2. CASE Commit(j) \/ Abort(j)
      BY <1>0, <1>2, <3>2, Ended DEF Commit, Abort
    <3> QED
      BY <1>2, <3>1, <3>2
         DEF Tick, Fault, RowVanished, EngagementVanished, DeadlockVictim, Crash
  <2> QED
    BY <2>1 DEF Open
<1>3. CASE Tick(k) \/ Fault(k)
  <2>1. CASE Begin(k) \/ Send(k) \/ SendFails(k) \/ \E s \in Schedules : Load(k, s)
    BY <1>0, <2>1 DEF Begin, Send, SendFails, Record, Load, RestTypeOK, Open
  <2> QED
    BY <1>3, <2>1 DEF Tick, Fault, RowVanished, EngagementVanished, DeadlockVictim, Crash
<1> QED
  BY <1>1, <1>2, <1>3 DEF Next, OtherTask, vars

(* Only a slot itself begins a tick, and its batch is what was due then.   *)
LEMMA OnlyBeginReads ==
    ASSUME IInv, [Next]_vars, NEW k \in Slots, NEW s \in due'[k]
    PROVE  s \in due[k] \/ (enabled[s] /\ enabled'[s] = enabled[s])
<1>0. RestTypeOK
  BY DEF IInv
<1>1. CASE Analyst \/ Beat \/ UNCHANGED rest
  BY <1>1 DEF Analyst, Edit, Create, SetInterval, SetEnabled, Delete, DeleteEngagement,
              Remove, Beat, rest, session
<1>2. ASSUME NEW j \in Slots, Tick(j) \/ Fault(j), j # k
      PROVE  s \in due[k]
  BY <1>0, <1>2, Ended
     DEF Tick, Fault, Begin, Send, SendFails, Record, Commit, RowVanished,
         EngagementVanished, DeadlockVictim, Crash, Abort, Load, RestTypeOK
<1>3. CASE Begin(k)
  <2>1. s \in Schedules /\ IsDue(s) /\ enabled' = enabled
    BY <1>0, <1>3 DEF Begin, RestTypeOK, columns
  <2> QED
    BY <2>1 DEF IsDue
<1>4. CASE (Tick(k) \/ Fault(k)) /\ ~Begin(k)
  BY <1>0, <1>4, Ended
     DEF Tick, Fault, Send, SendFails, Record, Commit, RowVanished,
         EngagementVanished, DeadlockVictim, Crash, Abort, Load, RestTypeOK
<1> QED
  BY <1>1, <1>2, <1>3, <1>4 DEF Next, OtherTask, vars

(* A tick sends tasks for its own batch. *)
LEMMA SentWasDue ==
    ASSUME IInv, [Next]_vars, NEW k \in Slots, NEW s \in sent'[k] \ sent[k]
    PROVE  s \in due[k]
<1>0. RestTypeOK /\ SlotInv
  BY DEF IInv
<1>1. CASE Analyst \/ Beat \/ UNCHANGED rest
  BY <1>1 DEF Analyst, Edit, Create, SetInterval, SetEnabled, Delete, DeleteEngagement,
              Remove, Beat, rest, session
<1>2. ASSUME NEW j \in Slots, Tick(j) \/ Fault(j), j # k \/ ~Send(j)
      PROVE  FALSE
  BY <1>0, <1>2, Ended
     DEF Tick, Fault, Begin, Send, SendFails, Record, Commit, RowVanished,
         EngagementVanished, DeadlockVictim, Crash, Abort, Load, RestTypeOK
<1>3. CASE Send(k)
  BY <1>0, <1>3 DEF Send, Record, SlotInv, RestTypeOK
<1> QED
  BY <1>1, <1>2, <1>3 DEF Next, OtherTask, vars

(* An open tick that holds a schedule no longer enabled is on the list.    *)
PauseInv ==
    /\ busy \subseteq Slots /\ pausedIn \in [Schedules -> SUBSET Slots]
    /\ \A k \in Slots : \A s \in due[k] : enabled[s] \/ k \in pausedIn[s]

LEMMA PausesRead == Spec => []PauseInv
<1>1. Init => PauseInv
  BY DEF Init, PauseInv
<1>2. IInv /\ PauseInv /\ [Next]_vars => PauseInv'
  <2> SUFFICES ASSUME IInv, PauseInv, [Next]_vars PROVE PauseInv'
    OBVIOUS
  <2>1. CASE UNCHANGED vars
    BY <2>1 DEF PauseInv, vars, rest, session, columns
  <2>2. CASE Next
    <3>1. busy' \subseteq Slots
      BY <2>2 DEF Next, OtherTask, PauseInv
    <3>2. /\ pausedIn' \in [Schedules -> SUBSET Slots]
          /\ \A s \in Schedules : \A k \in Slots : s \in due'[k] =>
               (k \in pausedIn'[s] <=> (enabled[s] /\ ~enabled'[s]) \/ k \in pausedIn[s])
      BY <2>2 DEF Next, Track, PauseInv
    <3>3. ASSUME NEW k \in Slots, NEW s \in due'[k]
          PROVE  enabled'[s] \/ k \in pausedIn'[s]
      <4>1. s \in due[k] \/ (enabled[s] /\ enabled'[s] = enabled[s])
        BY OnlyBeginReads
      <4>2. s \in Schedules
        BY StepKeeps, Typed DEF IInv, RestTypeOK
      <4> QED
        BY <3>2, <4>1, <4>2 DEF PauseInv
    <3> QED
      BY <3>1, <3>2, <3>3 DEF PauseInv
  <2> QED
    BY <2>1, <2>2
<1> QED
  BY <1>1, <1>2, Inductive, PTL DEF Spec

(* Every variable keeps its type: what a tick sends, records or loses is   *)
(* a schedule's due time within the clock, and the queue of ticks grows    *)
(* only by the beat and by redelivery after a crash.                       *)
THEOREM TypeCorrect == Spec => []TypeOK
<1>1. IInv /\ PauseInv => TypeOK
  BY DEF IInv, PauseInv, TypeOK
<1> QED
  BY <1>1, Inductive, PausesRead, PTL

(* run_scheduled_scans launches a due time once, for any number of         *)
(* schedules, slots and requests: a second task needs a tick that did not  *)
(* commit or two ticks that had read the same due time, and a second scan  *)
(* row needs the latter.                                                   *)
THEOREM LaunchedOnce == Spec => []FiredOnce
<1>1. IInv => FiredOnce
  <2> SUFFICES ASSUME IInv, NEW l \in Launches
               PROVE  /\ tasks[l] > 1 => l \in lost \cup crossed
                      /\ scans[l] > 1 => l \in crossed
    BY DEF FiredOnce
  <2>1. tasks[l] \in 0 .. 2 /\ scans[l] \in 0 .. 2
    BY Typed DEF IInv
  <2> QED
    BY <2>1 DEF IInv, FireInv
<1> QED
  BY <1>1, Inductive, PTL

(* A task that run_scheduled_scans sent has its scan row, or its tick is   *)
(* still open, or did not commit.                                          *)
THEOREM EveryTaskRecorded == Spec => []TasksRecorded
<1>1. IInv => TasksRecorded
  <2> SUFFICES ASSUME IInv, NEW l \in Launches, tasks[l] > scans[l], l \notin lost
               PROVE  \E k \in Slots : Trying(k, l)
    BY DEF TasksRecorded, Trying
  <2>1. tasks[l] \in 0 .. 2 /\ scans[l] \in 0 .. 2
    BY Typed DEF IInv
  <2> QED
    BY <2>1 DEF IInv, CountInv
<1> QED
  BY <1>1, Inductive, PTL

(* The next run stays within one interval of now, whatever is edited,      *)
(* until a tick that held the old interval commits over the change.        *)
THEOREM NextRunWithinInterval == Spec => []WithinInterval
<1>1. IInv => WithinInterval
  BY DEF IInv
<1> QED
  BY <1>1, Inductive, PTL

(* Neither the ticks that wait behind an open one nor its own message, if  *)
(* it is delivered again, launch a schedule that has been paused or        *)
(* deleted: only a tick that had read it enabled, and was open when that   *)
(* changed, does (run_scheduled_scans).                                    *)
THEOREM PausedLaunchesNothing == Spec => PauseHolds
<1>1. IInv /\ PauseInv /\ [Next]_vars => [PauseStep]_vars
  <2> SUFFICES ASSUME IInv, PauseInv, [Next]_vars, NEW k \in Slots, NEW s \in sent'[k] \ sent[k]
               PROVE  enabled[s] \/ k \in pausedIn[s]
    BY DEF PauseStep
  <2>1. s \in due[k]
    BY SentWasDue
  <2> QED
    BY <2>1 DEF PauseInv
<1> QED
  BY <1>1, Inductive, PausesRead, PTL DEF Spec, PauseHolds

(* The commit of a tick moves every schedule of its batch past the time    *)
(* the tick began, those whose dispatch failed included; only one whose    *)
(* engagement is gone is left out.                                         *)
THEOREM BatchAdvanced == Spec => Advance
<1>1. IInv /\ [Next]_vars => [AdvanceStep]_vars
  <2> SUFFICES ASSUME IInv, [Next]_vars, NEW k \in Slots, pc[k] = "loop", pc'[k] = "idle",
                      scans' # scans, NEW s \in due[k] \cap rows, EngOf[s] \in engs
               PROVE  nextRun'[s] > started[k]
    BY DEF AdvanceStep
  <2>1. Commit(k)
    BY SessionEnds DEF Open, Abort
  <2>2. s \in advanced[k]
    BY <2>1 DEF IInv, PassedInv, SlotInv, Commit
  <2>3. s \in Schedules /\ RestTypeOK
    BY Typed DEF IInv
  <2>4. nextRun'[s] = started[k] + read[k][s].every
    BY <2>1, <2>2, <2>3 DEF Commit, NewNext
  <2>5. started[k] \in Nat /\ read[k][s].every \in Nat /\ read[k][s].every > 0
    BY <2>3, Typed
  <2> QED
    BY <2>4, <2>5
<1> QED
  BY <1>1, Inductive, PTL DEF Spec, Advance
=============================================================================
