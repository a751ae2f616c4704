--------------------------- MODULE ScanStreamProofs --------------------------
(***************************************************************************)
(* What a progress stream shows and how it ends, for any viewers, lines    *)
(* and faults.                                                             *)
(***************************************************************************)
EXTENDS ScanStream, TLAPS

(* While the database keeps its last status, whatever is on its way to a   *)
(* viewer, about to be published or shown as the end is that status.       *)
TruthInv ==
    \/ raced \/ db = "absent"
    \/ /\ note \in Terminal => note = db
       /\ \A v \in Viewers : \A i \in 1 .. Len(inbox[v]) :
            inbox[v][i].status \in Terminal => inbox[v][i].status = db
       /\ \A v \in Viewers : verdict[v] \in Terminal => verdict[v] = db

(* The last line that can be in the Redis list. *)
Pushed == IF wpc \in {"pushing", "pushing last"} THEN said - 1 ELSE said

Rising(seq) == \A i, j \in 1 .. Len(seq) : i < j => seq[i] < seq[j]

(* Lines keep the order in which they were said, in the list, on a screen  *)
(* and on their way to it; those on their way are newer than those shown.  *)
LogInv ==
    /\ Rising(log)
    /\ \A i \in 1 .. Len(log) : log[i] <= Pushed

ShownInv ==
    \A v \in Viewers :
        /\ Rising(shown[v])
        /\ \A i \in 1 .. Len(shown[v]) : shown[v][i] <= said
        /\ vpc[v] \in {"off", "open"} => shown[v] = <<>>

InboxInv ==
    \A v \in Viewers :
        /\ ~Hears(v) => inbox[v] = <<>>
        /\ \A i \in 1 .. Len(inbox[v]) : inbox[v][i].line <= said
        /\ \A i, j \in 1 .. Len(inbox[v]) :
             i < j /\ inbox[v][j].line # 0 => inbox[v][i].line < inbox[v][j].line
        /\ \A i \in 1 .. Len(inbox[v]), j \in 1 .. Len(shown[v]) :
             inbox[v][i].line # 0 => shown[v][j] < inbox[v][i].line

OnScreen(v, n) == \E i \in 1 .. Len(shown[v]) : shown[v][i] = n
Coming(v, n)   == \E i \in 1 .. Len(inbox[v]) : inbox[v][i].line = n
Missed(v, n)   == n \in unsaid \/ (n <= since[v] /\ n \notin logged[v])

(* Whatever was said is shown or on its way to a live stream, or fell in   *)
(* the gap before it subscribed.                                           *)
GapInv ==
    \A v \in Viewers :
        /\ since[v] <= said
        /\ vpc[v] \in {"replayed", "checked"} => \A n \in logged[v] : OnScreen(v, n)
        /\ Hears(v) => \A n \in 1 .. said : OnScreen(v, n) \/ Coming(v, n) \/ Missed(v, n)
        /\ \A j \in 1 .. Len(shown[v]) : \A n \in 1 .. shown[v][j] :
             OnScreen(v, n) \/ Missed(v, n)

LinesInv == LogInv /\ ShownInv /\ InboxInv /\ GapInv

IInv == TypeOK /\ TruthInv /\ LinesInv
-----------------------------------------------------------------------------
(* Initial states satisfy the invariant. *)
LEMMA InitIInv == Init => IInv
<1> SUFFICES ASSUME Init PROVE IInv
  OBVIOUS
<1> USE ScanStreamAssumption DEF Init, Terminal, Active
<1>1. TypeOK
  <2>1. inbox \in [Viewers -> Seq(Message)] /\ shown \in [Viewers -> Seq(Nat)] /\ log \in Seq(Nat)
    OBVIOUS
  <2>2. failing \in BOOLEAN /\ cancel \in BOOLEAN /\ raced \in BOOLEAN
    OBVIOUS
  <2>3. said \in 0 .. MaxLines /\ faults \in 0 .. MaxFaults /\ unsaid \subseteq Nat
        /\ logged \in [Viewers -> SUBSET Nat] /\ since \in [Viewers -> Nat]
    OBVIOUS
  <2>4. /\ db \in Terminal \cup Active \cup {"absent"}
        /\ wpc \in {"queued", "announcing", "working", "pushing", "ended", "pushing last", "done"}
        /\ note \in Terminal \cup {"Running", "none"}
        /\ vpc \in [Viewers -> {"off", "open", "replayed", "checked", "live", "beating", "ended"}]
        /\ verdict \in [Viewers -> Terminal \cup {"none", "Timeout", "error"}]
    OBVIOUS
  <2> QED
    BY <2>1, <2>2, <2>3, <2>4 DEF TypeOK
<1>2. \A v \in Viewers : Len(inbox[v]) = 0 /\ Len(shown[v]) = 0 /\ ~Hears(v)
  BY DEF Hears
<1>3. Len(log) = 0 /\ Pushed = 0
  BY DEF Pushed
<1>4. TruthInv /\ LogInv /\ ShownInv /\ InboxInv
  BY <1>2, <1>3 DEF TruthInv, LogInv, ShownInv, InboxInv, Rising
<1>5. GapInv
  BY <1>2 DEF GapInv
<1> QED
  BY <1>1, <1>4, <1>5 DEF IInv, LinesInv
-----------------------------------------------------------------------------
(* What a publication does to the viewers that hear it, and to the others. *)
LEMMA Published ==
    ASSUME TypeOK, NEW msg \in Message, Publish(msg)
    PROVE  /\ inbox' \in [Viewers -> Seq(Message)]
           /\ \A v \in Viewers : ~Hears(v) => inbox'[v] = inbox[v]
           /\ \A v \in Viewers : Hears(v) =>
                /\ Len(inbox'[v]) = Len(inbox[v]) + 1
                /\ \A i \in 1 .. Len(inbox[v]) : inbox'[v][i] = inbox[v][i]
                /\ inbox'[v][Len(inbox[v]) + 1] = msg
<1>1. \A v \in Viewers : inbox[v] \in Seq(Message)
  BY DEF TypeOK
<1>2. inbox' = [v \in Viewers |-> IF Hears(v) THEN Append(inbox[v], msg) ELSE inbox[v]]
  BY DEF Publish
<1>3. \A q \in Seq(Message) :
        /\ Append(q, msg) \in Seq(Message) /\ Len(Append(q, msg)) = Len(q) + 1
        /\ \A i \in 1 .. Len(q) : Append(q, msg)[i] = q[i]
        /\ Append(q, msg)[Len(q) + 1] = msg
  OBVIOUS
<1> QED
  BY <1>1, <1>2, <1>3

(* What is in an inbox after a publication was there before it, or is it.  *)
LEMMA Arrives ==
    ASSUME TypeOK, NEW msg \in Message, Publish(msg),
           NEW v \in Viewers, NEW i \in 1 .. Len(inbox'[v])
    PROVE  inbox'[v][i] = msg \/ (i \in 1 .. Len(inbox[v]) /\ inbox'[v][i] = inbox[v][i])
<1>1. Len(inbox[v]) \in Nat
  <2>1. inbox[v] \in Seq(Message)
    BY DEF TypeOK
  <2> QED
    BY <2>1
<1>2. CASE ~Hears(v)
  BY <1>2, Published
<1>3. CASE Hears(v)
  <2>1. Len(inbox'[v]) = Len(inbox[v]) + 1
    BY <1>3, Published
  <2>2. i = Len(inbox[v]) + 1 \/ i \in 1 .. Len(inbox[v])
    BY <1>1, <2>1
  <2> QED
    BY <1>3, <2>2, Published
<1> QED
  BY <1>2, <1>3

(* What the head of the inbox is, and what is left without it. *)
LEMMA Received ==
    ASSUME NEW q \in Seq(Message), q # <<>>
    PROVE  /\ Head(q) = q[1] /\ Head(q) \in Message /\ Tail(q) \in Seq(Message)
           /\ Len(q) \in Nat /\ Len(q) >= 1 /\ Len(Tail(q)) = Len(q) - 1
           /\ \A i \in 1 .. Len(q) - 1 : Tail(q)[i] = q[i + 1]
OBVIOUS

(* A line said within the bound is a message. *)
LEMMA LineTyped == said \in 0 .. MaxLines => Line(said + 1) \in Message
<1> SUFFICES ASSUME said \in 0 .. MaxLines PROVE Line(said + 1) \in Message
  OBVIOUS
<1>1. said + 1 \in Nat
  BY ScanStreamAssumption
<1> QED
  BY <1>1 DEF Line, Message

(* Appending one element. *)
LEMMA Appended ==
    ASSUME NEW q \in Seq(Nat), NEW n \in Nat
    PROVE  /\ Append(q, n) \in Seq(Nat) /\ Len(q) \in Nat
           /\ Len(Append(q, n)) = Len(q) + 1
           /\ \A i \in 1 .. Len(q) : Append(q, n)[i] = q[i]
           /\ Append(q, n)[Len(q) + 1] = n
OBVIOUS
-----------------------------------------------------------------------------
(* The types, part by part. *)
WorkTypes ==
    /\ db \in Terminal \cup Active \cup {"absent"}
    /\ wpc \in {"queued", "announcing", "working", "pushing", "ended", "pushing last", "done"}
    /\ note \in Terminal \cup {"Running", "none"}
    /\ vpc \in [Viewers -> {"off", "open", "replayed", "checked", "live", "beating", "ended"}]
    /\ verdict \in [Viewers -> Terminal \cup {"none", "Timeout", "error"}]

FlagTypes == failing \in BOOLEAN /\ cancel \in BOOLEAN /\ raced \in BOOLEAN

CountTypes ==
    /\ said \in 0 .. MaxLines /\ faults \in 0 .. MaxFaults
    /\ unsaid \subseteq Nat
    /\ logged \in [Viewers -> SUBSET Nat] /\ since \in [Viewers -> Nat]

SeqTypes ==
    /\ log \in Seq(Nat)
    /\ inbox \in [Viewers -> Seq(Message)]
    /\ shown \in [Viewers -> Seq(Nat)]

LEMMA TypeParts == TypeOK <=> WorkTypes /\ FlagTypes /\ CountTypes /\ SeqTypes
BY DEF TypeOK, WorkTypes, FlagTypes, CountTypes, SeqTypes

(* Every step keeps the types. *)
LEMMA NextTypeOK == TypeOK /\ [Next]_vars => TypeOK'
<1> SUFFICES ASSUME TypeOK, WorkTypes, FlagTypes, CountTypes, SeqTypes, [Next]_vars
             PROVE  WorkTypes' /\ FlagTypes' /\ CountTypes' /\ SeqTypes'
  <2>1. TypeOK' <=> WorkTypes' /\ FlagTypes' /\ CountTypes' /\ SeqTypes'
    BY DEF TypeOK, WorkTypes, FlagTypes, CountTypes, SeqTypes
  <2> QED
    BY <2>1, TypeParts
<1> USE ScanStreamAssumption DEF worker, viewer, history
<1>1. ASSUME Begin
      PROVE WorkTypes' /\ FlagTypes' /\ CountTypes' /\ SeqTypes'
  <2>1. WorkTypes'
    BY <1>1 DEF WorkTypes, Terminal, Active, Begin, WriteStatus
  <2>2. FlagTypes'
    BY <1>1 DEF FlagTypes, Begin, WriteStatus
  <2>3. CountTypes'
    BY <1>1 DEF CountTypes, Begin, WriteStatus
  <2>4. SeqTypes'
    BY <1>1 DEF SeqTypes, Begin, WriteStatus
  <2> QED
    BY <2>1, <2>2, <2>3, <2>4
<1>2. ASSUME Announce
      PROVE WorkTypes' /\ FlagTypes' /\ CountTypes' /\ SeqTypes'
  <2>1. WorkTypes'
    BY <1>2 DEF WorkTypes, Terminal, Active, Announce, AfterNote
  <2>2. FlagTypes'
    BY <1>2 DEF FlagTypes, Announce, AfterNote
  <2>3. CountTypes'
    BY <1>2 DEF CountTypes, Announce, AfterNote
  <2>4. SeqTypes'
    <3>1. Signal(note) \in Message
      BY DEF Signal, Message, WorkTypes
    <3> QED
      BY <1>2, <3>1, Published DEF SeqTypes, Announce
  <2> QED
    BY <2>1, <2>2, <2>3, <2>4
<1>3. ASSUME AnnounceFails
      PROVE WorkTypes' /\ FlagTypes' /\ CountTypes' /\ SeqTypes'
  <2>1. WorkTypes'
    BY <1>3 DEF WorkTypes, Terminal, Active, AnnounceFails, AfterNote, Fault
  <2>2. FlagTypes'
    BY <1>3 DEF FlagTypes, AnnounceFails, AfterNote, Fault
  <2>3. CountTypes'
    BY <1>3 DEF CountTypes, AnnounceFails, AfterNote, Fault
  <2>4. SeqTypes'
    BY <1>3 DEF SeqTypes, AnnounceFails, AfterNote, Fault
  <2> QED
    BY <2>1, <2>2, <2>3, <2>4
<1>4. ASSUME Say
      PROVE WorkTypes' /\ FlagTypes' /\ CountTypes' /\ SeqTypes'
  <2>1. WorkTypes'
    BY <1>4 DEF WorkTypes, Terminal, Active, Say
  <2>2. FlagTypes'
    BY <1>4 DEF FlagTypes, Say
  <2>3. CountTypes'
    <3>1. said < MaxLines /\ said' = said + 1 /\ faults' = faults
      BY <1>4 DEF Say
    <3>2. UNCHANGED <<unsaid, logged, since>>
      BY <1>4 DEF Say
    <3> QED
      BY <3>1, <3>2 DEF CountTypes
  <2>4. SeqTypes'
    <3>1. Line(said + 1) \in Message
      BY LineTyped DEF CountTypes
    <3> QED
      BY <1>4, <3>1, Published DEF SeqTypes, Say
  <2> QED
    BY <2>1, <2>2, <2>3, <2>4
<1>5. ASSUME SayFails
      PROVE WorkTypes' /\ FlagTypes' /\ CountTypes' /\ SeqTypes'
  <2>1. WorkTypes'
    BY <1>5 DEF WorkTypes, Terminal, Active, SayFails, Fault
  <2>2. FlagTypes'
    BY <1>5 DEF FlagTypes, SayFails, Fault
  <2>3. CountTypes'
    BY <1>5 DEF CountTypes, SayFails, Fault
  <2>4. SeqTypes'
    BY <1>5 DEF SeqTypes, SayFails, Fault
  <2> QED
    BY <2>1, <2>2, <2>3, <2>4
<1>6. ASSUME Push
      PROVE WorkTypes' /\ FlagTypes' /\ CountTypes' /\ SeqTypes'
  <2>1. WorkTypes'
    BY <1>6 DEF WorkTypes, Terminal, Active, Push, AfterLine
  <2>2. FlagTypes'
    BY <1>6 DEF FlagTypes, Push, AfterLine
  <2>3. CountTypes'
    BY <1>6 DEF CountTypes, Push, AfterLine
  <2>4. SeqTypes'
    <3>1. said \in Nat
      BY DEF CountTypes
    <3>2. log' = Append(log, said) /\ UNCHANGED <<inbox, shown>>
      BY <1>6 DEF Push
    <3> QED
      BY <3>1, <3>2, Appended DEF SeqTypes
  <2> QED
    BY <2>1, <2>2, <2>3, <2>4
<1>7. ASSUME PushFails
      PROVE WorkTypes' /\ FlagTypes' /\ CountTypes' /\ SeqTypes'
  <2>1. WorkTypes'
    BY <1>7 DEF WorkTypes, Terminal, Active, PushFails, AfterLine, Fault
  <2>2. FlagTypes'
    BY <1>7 DEF FlagTypes, PushFails, AfterLine, Fault
  <2>3. CountTypes'
    <3>1. said' = said /\ faults < MaxFaults /\ faults' = faults + 1
      BY <1>7 DEF PushFails, AfterLine, Fault
    <3>2. UNCHANGED <<unsaid, logged, since>>
      BY <1>7 DEF PushFails, AfterLine, Fault
    <3> QED
      BY <3>1, <3>2 DEF CountTypes
  <2>4. SeqTypes'
    BY <1>7 DEF SeqTypes, PushFails, AfterLine, Fault
  <2> QED
    BY <2>1, <2>2, <2>3, <2>4
<1>8. ASSUME FinishFails
      PROVE WorkTypes' /\ FlagTypes' /\ CountTypes' /\ SeqTypes'
  <2>1. WorkTypes'
    BY <1>8 DEF WorkTypes, Terminal, Active, FinishFails, Fault
  <2>2. FlagTypes'
    BY <1>8 DEF FlagTypes, FinishFails, Fault
  <2>3. CountTypes'
    BY <1>8 DEF CountTypes, FinishFails, Fault
  <2>4. SeqTypes'
    BY <1>8 DEF SeqTypes, FinishFails, Fault
  <2> QED
    BY <2>1, <2>2, <2>3, <2>4
<1>9. ASSUME Stop
      PROVE WorkTypes' /\ FlagTypes' /\ CountTypes' /\ SeqTypes'
  <2>1. WorkTypes'
    BY <1>9 DEF WorkTypes, Terminal, Active, Stop, Fault
  <2>2. FlagTypes'
    BY <1>9 DEF FlagTypes, Stop, Fault
  <2>3. CountTypes'
    BY <1>9 DEF CountTypes, Stop, Fault
  <2>4. SeqTypes'
    BY <1>9 DEF SeqTypes, Stop, Fault
  <2> QED
    BY <2>1, <2>2, <2>3, <2>4
<1>10. ASSUME NEW s \in {"Completed", "Failed"}, Finish(s)
      PROVE WorkTypes' /\ FlagTypes' /\ CountTypes' /\ SeqTypes'
  <2>1. WorkTypes'
    BY <1>10 DEF WorkTypes, Terminal, Active, Finish, WriteStatus
  <2>2. FlagTypes'
    BY <1>10 DEF FlagTypes, Finish, WriteStatus
  <2>3. CountTypes'
    BY <1>10 DEF CountTypes, Finish, WriteStatus
  <2>4. SeqTypes'
    BY <1>10 DEF SeqTypes, Finish, WriteStatus
  <2> QED
    BY <2>1, <2>2, <2>3, <2>4
<1>11. ASSUME CancelCheck
      PROVE WorkTypes' /\ FlagTypes' /\ CountTypes' /\ SeqTypes'
  <2>1. WorkTypes'
    BY <1>11 DEF WorkTypes, Terminal, Active, CancelCheck
  <2>2. FlagTypes'
    BY <1>11 DEF FlagTypes, CancelCheck
  <2>3. CountTypes'
    BY <1>11 DEF CountTypes, CancelCheck
  <2>4. SeqTypes'
    BY <1>11 DEF SeqTypes, CancelCheck
  <2> QED
    BY <2>1, <2>2, <2>3, <2>4
<1>12. ASSUME CancelCommit
      PROVE WorkTypes' /\ FlagTypes' /\ CountTypes' /\ SeqTypes'
  <2>1. WorkTypes'
    BY <1>12 DEF WorkTypes, Terminal, Active, CancelCommit
  <2>2. FlagTypes'
    BY <1>12 DEF FlagTypes, CancelCommit
  <2>3. CountTypes'
    BY <1>12 DEF CountTypes, CancelCommit
  <2>4. SeqTypes'
    BY <1>12 DEF SeqTypes, CancelCommit
  <2> QED
    BY <2>1, <2>2, <2>3, <2>4
<1>13. ASSUME Recover
      PROVE WorkTypes' /\ FlagTypes' /\ CountTypes' /\ SeqTypes'
  <2>1. WorkTypes'
    BY <1>13 DEF WorkTypes, Terminal, Active, Recover, Fault
  <2>2. FlagTypes'
    BY <1>13 DEF FlagTypes, Recover, Fault
  <2>3. CountTypes'
    BY <1>13 DEF CountTypes, Recover, Fault
  <2>4. SeqTypes'
    BY <1>13 DEF SeqTypes, Recover, Fault
  <2> QED
    BY <2>1, <2>2, <2>3, <2>4
<1>14. ASSUME DeleteEngagement
      PROVE WorkTypes' /\ FlagTypes' /\ CountTypes' /\ SeqTypes'
  <2>1. WorkTypes'
    BY <1>14 DEF WorkTypes, Terminal, Active, DeleteEngagement, Fault
  <2>2. FlagTypes'
    BY <1>14 DEF FlagTypes, DeleteEngagement, Fault
  <2>3. CountTypes'
    BY <1>14 DEF CountTypes, DeleteEngagement, Fault
  <2>4. SeqTypes'
    BY <1>14 DEF SeqTypes, DeleteEngagement, Fault
  <2> QED
    BY <2>1, <2>2, <2>3, <2>4
<1>15. ASSUME NEW v \in Viewers, Open(v)
      PROVE WorkTypes' /\ FlagTypes' /\ CountTypes' /\ SeqTypes'
  <2>1. WorkTypes'
    BY <1>15 DEF WorkTypes, Terminal, Active, Open
  <2>2. FlagTypes'
    BY <1>15 DEF FlagTypes, Open
  <2>3. CountTypes'
    BY <1>15 DEF CountTypes, Open
  <2>4. SeqTypes'
    BY <1>15 DEF SeqTypes, Open
  <2> QED
    BY <2>1, <2>2, <2>3, <2>4
<1>16. ASSUME NEW v \in Viewers, Replay(v)
      PROVE WorkTypes' /\ FlagTypes' /\ CountTypes' /\ SeqTypes'
  <2>1. WorkTypes'
    BY <1>16 DEF WorkTypes, Terminal, Active, Replay, Buffered
  <2>2. FlagTypes'
    BY <1>16 DEF FlagTypes, Replay, Buffered
  <2>3. CountTypes'
    BY <1>16 DEF CountTypes, SeqTypes, Range, Replay, Buffered
  <2>4. SeqTypes'
    BY <1>16 DEF SeqTypes, Replay, Buffered
  <2> QED
    BY <2>1, <2>2, <2>3, <2>4
<1>17. ASSUME NEW v \in Viewers, CheckStatus(v)
      PROVE WorkTypes' /\ FlagTypes' /\ CountTypes' /\ SeqTypes'
  <2>1. WorkTypes'
    BY <1>17 DEF WorkTypes, Terminal, Active, CheckStatus, End
  <2>2. FlagTypes'
    BY <1>17 DEF FlagTypes, CheckStatus, End
  <2>3. CountTypes'
    BY <1>17 DEF CountTypes, CheckStatus, End
  <2>4. SeqTypes'
    <3>1. <<>> \in Seq(Message)
      OBVIOUS
    <3>2. inbox' \in {inbox, [inbox EXCEPT ![v] = <<>>]} /\ UNCHANGED <<log, shown>>
      BY <1>17 DEF CheckStatus, End
    <3> QED
      BY <3>1, <3>2 DEF SeqTypes
  <2> QED
    BY <2>1, <2>2, <2>3, <2>4
<1>18. ASSUME NEW v \in Viewers, Subscribe(v)
      PROVE WorkTypes' /\ FlagTypes' /\ CountTypes' /\ SeqTypes'
  <2>1. WorkTypes'
    BY <1>18 DEF WorkTypes, Terminal, Active, Subscribe
  <2>2. FlagTypes'
    BY <1>18 DEF FlagTypes, Subscribe
  <2>3. CountTypes'
    BY <1>18 DEF CountTypes, Subscribe
  <2>4. SeqTypes'
    BY <1>18 DEF SeqTypes, Subscribe
  <2> QED
    BY <2>1, <2>2, <2>3, <2>4
<1>19. ASSUME NEW v \in Viewers, Receive(v)
      PROVE WorkTypes' /\ FlagTypes' /\ CountTypes' /\ SeqTypes'
  <2>1. WorkTypes'
    BY <1>19, Received DEF WorkTypes, SeqTypes, Message, Receive, End
  <2>2. FlagTypes'
    BY <1>19 DEF FlagTypes, Receive, End
  <2>3. CountTypes'
    BY <1>19 DEF CountTypes, Receive, End
  <2>4. SeqTypes'
    <3> DEFINE q == inbox[v]
    <3>1. q \in Seq(Message) /\ q # <<>>
      BY <1>19 DEF SeqTypes, Receive
    <3>2. Head(q) \in Message /\ Tail(q) \in Seq(Message) /\ <<>> \in Seq(Message)
      BY <3>1, Received
    <3>3. inbox' \in {[inbox EXCEPT ![v] = <<>>], [inbox EXCEPT ![v] = Tail(q)]}
      BY <1>19 DEF Receive, End
    <3>4. shown' \in {shown, [shown EXCEPT ![v] = Append(@, Head(q).line)]} /\ log' = log
      BY <1>19 DEF Receive, End
    <3>5. Append(shown[v], Head(q).line) \in Seq(Nat)
      BY <3>2, Appended DEF SeqTypes, Message
    <3> QED
      BY <3>2, <3>3, <3>4, <3>5 DEF SeqTypes
  <2> QED
    BY <2>1, <2>2, <2>3, <2>4
<1>20. ASSUME NEW v \in Viewers, Heartbeat(v)
      PROVE WorkTypes' /\ FlagTypes' /\ CountTypes' /\ SeqTypes'
  <2>1. WorkTypes'
    BY <1>20 DEF WorkTypes, Terminal, Active, Heartbeat
  <2>2. FlagTypes'
    BY <1>20 DEF FlagTypes, Heartbeat
  <2>3. CountTypes'
    BY <1>20 DEF CountTypes, Heartbeat
  <2>4. SeqTypes'
    BY <1>20 DEF SeqTypes, Heartbeat
  <2> QED
    BY <2>1, <2>2, <2>3, <2>4
<1>21. ASSUME NEW v \in Viewers, Recheck(v)
      PROVE WorkTypes' /\ FlagTypes' /\ CountTypes' /\ SeqTypes'
  <2>1. WorkTypes'
    BY <1>21 DEF WorkTypes, Terminal, Active, Recheck, End
  <2>2. FlagTypes'
    BY <1>21 DEF FlagTypes, Recheck, End
  <2>3. CountTypes'
    BY <1>21 DEF CountTypes, Recheck, End
  <2>4. SeqTypes'
    <3>1. <<>> \in Seq(Message)
      OBVIOUS
    <3>2. inbox' \in {inbox, [inbox EXCEPT ![v] = <<>>]} /\ UNCHANGED <<log, shown>>
      BY <1>21 DEF Recheck, End
    <3> QED
      BY <3>1, <3>2 DEF SeqTypes
  <2> QED
    BY <2>1, <2>2, <2>3, <2>4
<1>22. ASSUME NEW v \in Viewers, Timeout(v)
      PROVE WorkTypes' /\ FlagTypes' /\ CountTypes' /\ SeqTypes'
  <2>1. WorkTypes'
    BY <1>22 DEF WorkTypes, Terminal, Active, Timeout, End
  <2>2. FlagTypes'
    BY <1>22 DEF FlagTypes, Timeout, End
  <2>3. CountTypes'
    BY <1>22 DEF CountTypes, Timeout, End
  <2>4. SeqTypes'
    BY <1>22 DEF SeqTypes, Timeout, End
  <2> QED
    BY <2>1, <2>2, <2>3, <2>4
<1>23. ASSUME NEW v \in Viewers, Disconnect(v)
      PROVE WorkTypes' /\ FlagTypes' /\ CountTypes' /\ SeqTypes'
  <2>1. WorkTypes'
    BY <1>23 DEF WorkTypes, Terminal, Active, Disconnect, End, Fault
  <2>2. FlagTypes'
    BY <1>23 DEF FlagTypes, Disconnect, End, Fault
  <2>3. CountTypes'
    BY <1>23 DEF CountTypes, Disconnect, End, Fault
  <2>4. SeqTypes'
    BY <1>23 DEF SeqTypes, Disconnect, End, Fault
  <2> QED
    BY <2>1, <2>2, <2>3, <2>4
<1>25. ASSUME RecordFails
      PROVE WorkTypes' /\ FlagTypes' /\ CountTypes' /\ SeqTypes'
  <2>1. WorkTypes'
    BY <1>25 DEF WorkTypes, Terminal, Active, RecordFails, Fault
  <2>2. FlagTypes'
    BY <1>25 DEF FlagTypes, RecordFails, Fault
  <2>3. CountTypes'
    BY <1>25 DEF CountTypes, RecordFails, Fault
  <2>4. SeqTypes'
    BY <1>25 DEF SeqTypes, RecordFails, Fault
  <2> QED
    BY <2>1, <2>2, <2>3, <2>4
<1>24. CASE UNCHANGED vars
  BY <1>24 DEF vars, WorkTypes, FlagTypes, CountTypes, SeqTypes
<1> QED
  BY <1>1, <1>2, <1>3, <1>4, <1>5, <1>6, <1>7, <1>8, <1>9, <1>10, <1>11,
     <1>12, <1>13, <1>14, <1>15, <1>16, <1>17, <1>18, <1>19, <1>20, <1>21,
     <1>22, <1>23, <1>24, <1>25
  DEF Next, Work, Stream
-----------------------------------------------------------------------------
(* A status is written before it is published and read, and a write over a *)
(* terminal status is remembered.                                          *)
LEMMA NextTruth == TypeOK /\ TruthInv /\ [Next]_vars => TruthInv'
<1> SUFFICES ASSUME TypeOK, TruthInv, [Next]_vars PROVE TruthInv'
  OBVIOUS
<1> USE DEF worker, viewer, history
<1>1. ASSUME Begin PROVE TruthInv'
  BY <1>1 DEF TypeOK, TruthInv, Terminal, Active, Begin, WriteStatus
<1>2. ASSUME Announce PROVE TruthInv'
  <2>1. Signal(note) \in Message /\ Publish(Signal(note)) /\ UNCHANGED <<db, verdict, raced>>
    <3>1. Signal(note) \in Message
      BY DEF Signal, Message, TypeOK
    <3> QED
      BY <1>2, <3>1 DEF Announce
  <2>2. note' \in {note, "none"}
    BY <1>2 DEF Announce
  <2>3. (Signal(note)).status \in Terminal => (Signal(note)).status = note
    BY DEF Line, Signal, Terminal
  <2>4. ASSUME NEW v \in Viewers, NEW i \in 1 .. Len(inbox'[v]), inbox'[v][i].status \in Terminal
        PROVE  inbox'[v][i] = Signal(note) \/ (i \in 1 .. Len(inbox[v]) /\ inbox'[v][i] = inbox[v][i])
    BY <2>1, <2>4, Arrives
  <2> QED
    BY <2>1, <2>2, <2>3, <2>4 DEF TruthInv, Terminal
<1>3. ASSUME AnnounceFails PROVE TruthInv'
  BY <1>3 DEF TypeOK, TruthInv, Terminal, Active, AnnounceFails, AfterNote, Fault
<1>4. ASSUME Say PROVE TruthInv'
  <2>1. Line(said + 1) \in Message /\ Publish(Line(said + 1)) /\ UNCHANGED <<db, verdict, raced>>
    <3>1. Line(said + 1) \in Message
      BY LineTyped DEF TypeOK
    <3> QED
      BY <1>4, <3>1 DEF Say
  <2>2. note' \in {note, "none"}
    BY <1>4 DEF Say
  <2>3. (Line(said + 1)).status \in Terminal => (Line(said + 1)).status = note
    BY DEF Line, Signal, Terminal
  <2>4. ASSUME NEW v \in Viewers, NEW i \in 1 .. Len(inbox'[v]), inbox'[v][i].status \in Terminal
        PROVE  inbox'[v][i] = Line(said + 1) \/ (i \in 1 .. Len(inbox[v]) /\ inbox'[v][i] = inbox[v][i])
    BY <2>1, <2>4, Arrives
  <2> QED
    BY <2>1, <2>2, <2>3, <2>4 DEF TruthInv, Terminal
<1>5. ASSUME SayFails PROVE TruthInv'
  BY <1>5 DEF TypeOK, TruthInv, Terminal, Active, SayFails, Fault
<1>6. ASSUME Push PROVE TruthInv'
  BY <1>6 DEF TypeOK, TruthInv, Terminal, Active, Push, AfterLine
<1>7. ASSUME PushFails PROVE TruthInv'
  BY <1>7 DEF TypeOK, TruthInv, Terminal, Active, PushFails, AfterLine, Fault
<1>8. ASSUME FinishFails PROVE TruthInv'
  BY <1>8 DEF TypeOK, TruthInv, Terminal, Active, FinishFails, Fault
<1>9. ASSUME Stop PROVE TruthInv'
  BY <1>9 DEF TypeOK, TruthInv, Terminal, Active, Stop, Fault
<1>10. ASSUME NEW s \in {"Completed", "Failed"}, Finish(s) PROVE TruthInv'
  BY <1>10 DEF TypeOK, TruthInv, Terminal, Active, Finish, WriteStatus
<1>11. ASSUME CancelCheck PROVE TruthInv'
  BY <1>11 DEF TypeOK, TruthInv, Terminal, Active, CancelCheck
<1>12. ASSUME CancelCommit PROVE TruthInv'
  BY <1>12 DEF TypeOK, TruthInv, Terminal, Active, CancelCommit
<1>13. ASSUME Recover PROVE TruthInv'
  BY <1>13 DEF TypeOK, TruthInv, Terminal, Active, Recover, Fault
<1>14. ASSUME DeleteEngagement PROVE TruthInv'
  BY <1>14 DEF TypeOK, TruthInv, Terminal, Active, DeleteEngagement, Fault
<1>15. ASSUME NEW v \in Viewers, Open(v) PROVE TruthInv'
  BY <1>15 DEF TypeOK, TruthInv, Terminal, Active, Open
<1>16. ASSUME NEW v \in Viewers, Replay(v) PROVE TruthInv'
  BY <1>16 DEF TypeOK, TruthInv, Terminal, Active, Replay, Buffered
<1>17. ASSUME NEW v \in Viewers, CheckStatus(v) PROVE TruthInv'
  <2>1. UNCHANGED <<db, note, raced>>
    BY <1>17 DEF CheckStatus
  <2>2. \A u \in Viewers : inbox'[u] \in {inbox[u], <<>>} /\ verdict'[u] \in {verdict[u], db}
    BY <1>17 DEF TypeOK, CheckStatus, End
  <2> QED
    BY <2>1, <2>2 DEF TruthInv, Terminal
<1>18. ASSUME NEW v \in Viewers, Subscribe(v) PROVE TruthInv'
  BY <1>18 DEF TypeOK, TruthInv, Terminal, Active, Subscribe
<1>19. ASSUME NEW v \in Viewers, Receive(v) PROVE TruthInv'
  <2> DEFINE q == inbox[v]
  <2>1. q \in Seq(Message) /\ q # <<>>
    BY <1>19 DEF TypeOK, Receive
  <2>2. UNCHANGED <<db, note, raced>>
    BY <1>19 DEF Receive
  <2>3. \A u \in Viewers : u # v => inbox'[u] = inbox[u] /\ verdict'[u] = verdict[u]
    BY <1>19 DEF TypeOK, Receive, End
  <2>4. \/ inbox'[v] = <<>> /\ verdict'[v] = Head(q).status
        \/ inbox'[v] = Tail(q) /\ verdict'[v] = verdict[v]
    BY <1>19 DEF TypeOK, Receive, End
  <2>5. \A i \in 1 .. Len(inbox'[v]) : i + 1 \in 1 .. Len(q) /\ inbox'[v][i] = q[i + 1]
    <3>1. CASE inbox'[v] = <<>>
      BY <3>1
    <3>2. CASE inbox'[v] = Tail(q)
      BY <2>1, <3>2, Received
    <3> QED
      BY <2>4, <3>1, <3>2
  <2>6. verdict'[v] = verdict[v] \/ (1 \in 1 .. Len(q) /\ verdict'[v] = q[1].status)
    BY <2>1, <2>4, Received
  <2> QED
    BY <2>2, <2>3, <2>5, <2>6 DEF TruthInv
<1>20. ASSUME NEW v \in Viewers, Heartbeat(v) PROVE TruthInv'
  BY <1>20 DEF TypeOK, TruthInv, Terminal, Active, Heartbeat
<1>21. ASSUME NEW v \in Viewers, Recheck(v) PROVE TruthInv'
  <2>1. UNCHANGED <<db, note, raced>>
    BY <1>21 DEF Recheck
  <2>2. \A u \in Viewers : inbox'[u] \in {inbox[u], <<>>} /\ verdict'[u] \in {verdict[u], db}
    BY <1>21 DEF TypeOK, Recheck, End
  <2> QED
    BY <2>1, <2>2 DEF TruthInv, Terminal
<1>22. ASSUME NEW v \in Viewers, Timeout(v) PROVE TruthInv'
  <2>1. UNCHANGED <<db, note, raced>>
    BY <1>22 DEF Timeout
  <2>2. \A u \in Viewers : inbox'[u] \in {inbox[u], <<>>} /\ verdict'[u] \in {verdict[u], "Timeout"}
    BY <1>22 DEF TypeOK, Timeout, End
  <2> QED
    BY <2>1, <2>2 DEF TruthInv, Terminal
<1>23. ASSUME NEW v \in Viewers, Disconnect(v) PROVE TruthInv'
  <2>1. UNCHANGED <<db, note, raced>>
    BY <1>23 DEF Disconnect
  <2>2. \A u \in Viewers : inbox'[u] \in {inbox[u], <<>>} /\ verdict'[u] \in {verdict[u], "error"}
    BY <1>23 DEF TypeOK, Disconnect, End, Fault
  <2> QED
    BY <2>1, <2>2 DEF TruthInv, Terminal
<1>25. ASSUME RecordFails PROVE TruthInv'
  BY <1>25 DEF TypeOK, TruthInv, Terminal, Active, RecordFails, Fault
<1>24. CASE UNCHANGED vars
  BY <1>24 DEF vars, TruthInv
<1> QED
  BY <1>1, <1>2, <1>3, <1>4, <1>5, <1>6, <1>7, <1>8, <1>9, <1>10, <1>11,
     <1>12, <1>13, <1>14, <1>15, <1>16, <1>17, <1>18, <1>19, <1>20, <1>21,
     <1>22, <1>23, <1>24, <1>25
  DEF Next, Work, Stream
-----------------------------------------------------------------------------
(* The types of what the lines are kept in. *)
LEMMA LineTypes ==
    ASSUME TypeOK
    PROVE  /\ said \in Nat /\ Pushed \in Int
           /\ log \in Seq(Nat) /\ Len(log) \in Nat /\ \A i \in 1 .. Len(log) : log[i] \in Nat
           /\ \A v \in Viewers :
                /\ since[v] \in Nat /\ logged[v] \subseteq Nat
                /\ inbox[v] \in Seq(Message) /\ Len(inbox[v]) \in Nat
                /\ \A i \in 1 .. Len(inbox[v]) : inbox[v][i].line \in Nat
                /\ shown[v] \in Seq(Nat) /\ Len(shown[v]) \in Nat
                /\ \A i \in 1 .. Len(shown[v]) : shown[v][i] \in Nat
<1>1. said \in Nat
  <2>1. said \in 0 .. MaxLines /\ MaxLines \in Nat
    BY ScanStreamAssumption DEF TypeOK
  <2> QED
    BY <2>1
<1>2. Pushed \in Int
  BY <1>1 DEF Pushed
<1>3. \A q \in Seq(Nat) : Len(q) \in Nat /\ \A i \in 1 .. Len(q) : q[i] \in Nat
  OBVIOUS
<1>4. \A q \in Seq(Message) : Len(q) \in Nat /\ \A i \in 1 .. Len(q) : q[i].line \in Nat
  <2> SUFFICES ASSUME NEW q \in Seq(Message)
               PROVE  Len(q) \in Nat /\ \A i \in 1 .. Len(q) : q[i].line \in Nat
    OBVIOUS
  <2>1. Len(q) \in Nat /\ \A i \in 1 .. Len(q) : q[i] \in Message
    OBVIOUS
  <2> QED
    BY <2>1 DEF Message
<1>5. log \in Seq(Nat) /\ \A v \in Viewers : since[v] \in Nat /\ logged[v] \subseteq Nat
                          /\ inbox[v] \in Seq(Message) /\ shown[v] \in Seq(Nat)
  BY DEF TypeOK
<1> QED
  BY <1>1, <1>2, <1>3, <1>4, <1>5

(* Nothing is said, listed, published or shown: the lines stay as they     *)
(* are, and a viewer who stops hearing drops what was on its way.          *)
LEMMA Unmoved ==
    ASSUME TypeOK, LinesInv,
           UNCHANGED <<said, log, shown, logged, since, unsaid>>, Pushed' >= Pushed,
           \A v \in Viewers :
             /\ Hears(v)' => Hears(v) /\ inbox'[v] = inbox[v]
             /\ ~Hears(v)' => inbox'[v] = <<>>
             /\ vpc'[v] \in {"off", "open"} => vpc[v] \in {"off", "open"}
             /\ vpc'[v] \in {"replayed", "checked"} => vpc[v] \in {"replayed", "checked"}
    PROVE  LinesInv'
<1>1. LogInv'
  <2>1. \A i \in 1 .. Len(log) : log[i] \in Int /\ log[i] <= Pushed
    BY LineTypes DEF LinesInv, LogInv
  <2>2. Pushed \in Int /\ Pushed' \in Int
    <3>1. said \in Nat /\ said' \in Nat /\ Pushed \in Int
      BY LineTypes
    <3>2. Pushed' = said' - 1 \/ Pushed' = said'
      BY DEF Pushed
    <3>3. Pushed' \in Int
      BY <3>1, <3>2
    <3> QED
      BY <3>1, <3>3
  <2> QED
    BY <2>1, <2>2 DEF LinesInv, LogInv, Rising
<1>2. ShownInv'
  BY DEF LinesInv, ShownInv, Rising
<1>3. InboxInv'
  <2> SUFFICES ASSUME NEW v \in Viewers
               PROVE /\ ~Hears(v)' => inbox'[v] = <<>>
                     /\ \A i \in 1 .. Len(inbox'[v]) : inbox'[v][i].line <= said
                     /\ \A i, j \in 1 .. Len(inbox'[v]) :
                          i < j /\ inbox'[v][j].line # 0 => inbox'[v][i].line < inbox'[v][j].line
                     /\ \A i \in 1 .. Len(inbox'[v]), j \in 1 .. Len(shown[v]) :
                          inbox'[v][i].line # 0 => shown[v][j] < inbox'[v][i].line
    BY DEF InboxInv
  <2>1. CASE Hears(v)'
    BY <2>1 DEF LinesInv, InboxInv
  <2>2. CASE ~Hears(v)'
    <3>1. inbox'[v] = <<>> /\ Len(inbox'[v]) = 0
      BY <2>2
    <3> QED
      BY <3>1
  <2> QED
    BY <2>1, <2>2
<1>4. GapInv'
  <2>1. \A v \in Viewers, n \in Nat :
          /\ OnScreen(v, n)' <=> OnScreen(v, n)
          /\ Missed(v, n)' <=> Missed(v, n)
          /\ Hears(v)' => (Coming(v, n)' <=> Coming(v, n))
    BY DEF OnScreen, Missed, Coming
  <2> SUFFICES ASSUME NEW v \in Viewers
               PROVE /\ since[v] <= said
                     /\ vpc'[v] \in {"replayed", "checked"} => \A n \in logged[v] : OnScreen(v, n)'
                     /\ Hears(v)' => \A n \in 1 .. said :
                          OnScreen(v, n)' \/ Coming(v, n)' \/ Missed(v, n)'
                     /\ \A j \in 1 .. Len(shown[v]) : \A n \in 1 .. shown[v][j] :
                          OnScreen(v, n)' \/ Missed(v, n)'
    BY DEF GapInv
  <2>2. logged[v] \subseteq Nat /\ 1 .. said \subseteq Nat
    BY LineTypes
  <2>3. \A j \in 1 .. Len(shown[v]) : 1 .. shown[v][j] \subseteq Nat
    BY LineTypes
  <2> QED
    BY <2>1, <2>2, <2>3 DEF LinesInv, GapInv
<1> QED
  BY <1>1, <1>2, <1>3, <1>4 DEF LinesInv

(* What is published carries no line, or the next one.                     *)
LEMMA Spoken ==
    ASSUME TypeOK, LinesInv, NEW msg \in Message, Publish(msg),
           \/ msg.line = 0 /\ said' = said
           \/ msg.line = said + 1 /\ said' = said + 1,
           UNCHANGED <<log, vpc, shown, logged, since, unsaid>>, Pushed' = Pushed
    PROVE  LinesInv'
<1> USE DEF LinesInv
<1>1. LogInv'
  BY DEF LogInv, Rising
<1>2. said \in Nat /\ said' \in Nat /\ said <= said' /\ msg.line \in Nat
  BY LineTypes DEF Message
<1>3. \A v \in Viewers : \A i \in 1 .. Len(shown[v]) : shown[v][i] \in Nat
  BY LineTypes
<1>4. \A v \in Viewers : \A i \in 1 .. Len(inbox[v]) : inbox[v][i].line \in Nat
  BY LineTypes
<1>5. \A v \in Viewers : Len(inbox[v]) \in Nat
  BY LineTypes
<1>6. \A v \in Viewers : Hears(v)' <=> Hears(v)
  BY DEF Hears
<1>7. ShownInv'
  BY <1>2, <1>3 DEF ShownInv, Rising
<1>8. InboxInv'
  <2> SUFFICES ASSUME NEW v \in Viewers
               PROVE /\ ~Hears(v)' => inbox'[v] = <<>>
                     /\ \A i \in 1 .. Len(inbox'[v]) : inbox'[v][i].line <= said'
                     /\ \A i, j \in 1 .. Len(inbox'[v]) :
                          i < j /\ inbox'[v][j].line # 0 => inbox'[v][i].line < inbox'[v][j].line
                     /\ \A i \in 1 .. Len(inbox'[v]), j \in 1 .. Len(shown[v]) :
                          inbox'[v][i].line # 0 => shown[v][j] < inbox'[v][i].line
    BY DEF InboxInv
  <2>1. CASE ~Hears(v)
    <3>1. inbox'[v] = <<>> /\ Len(inbox'[v]) = 0
      BY <2>1, Published DEF InboxInv
    <3> QED
      BY <3>1
  <2>2. CASE Hears(v)
    <3> DEFINE n == Len(inbox[v])
    <3>1. Len(inbox'[v]) = n + 1 /\ inbox'[v][n + 1] = msg
      BY <2>2, Published
    <3>2. \A i \in 1 .. n : inbox'[v][i] = inbox[v][i]
      BY <2>2, Published
    <3>3. \A i \in 1 .. n : inbox[v][i].line <= said
      BY DEF InboxInv
    <3>4. \A i \in 1 .. Len(inbox'[v]) : i \in 1 .. n \/ i = n + 1
      BY <1>5, <3>1
    <3>5. \A i \in 1 .. Len(inbox'[v]) : inbox'[v][i].line <= said'
      BY <1>2, <1>4, <3>1, <3>2, <3>3, <3>4
    <3>6. ASSUME NEW i \in 1 .. Len(inbox'[v]), NEW j \in 1 .. Len(inbox'[v]),
                 i < j, inbox'[v][j].line # 0
          PROVE  inbox'[v][i].line < inbox'[v][j].line
      <4>1. i \in 1 .. n
        BY <1>5, <3>1, <3>6
      <4>2. CASE j \in 1 .. n
        BY <3>2, <3>6, <4>1, <4>2 DEF InboxInv
      <4>3. CASE j = n + 1
        <5>1. msg.line = said + 1
          BY <3>1, <3>6, <4>3
        <5>2. inbox'[v][i].line = inbox[v][i].line /\ inbox[v][i].line <= said
          BY <3>2, <3>3, <4>1
        <5>3. inbox'[v][j].line = said + 1
          BY <3>1, <4>3, <5>1
        <5>4. inbox[v][i].line \in Int /\ said \in Int
          BY <1>2, <1>4, <4>1
        <5> HIDE DEF n
        <5> QED
          BY <5>2, <5>3, <5>4
      <4> QED
        BY <3>4, <4>2, <4>3
    <3>7. ASSUME NEW i \in 1 .. Len(inbox'[v]), NEW j \in 1 .. Len(shown[v]),
                 inbox'[v][i].line # 0
          PROVE  shown[v][j] < inbox'[v][i].line
      <4>1. CASE i \in 1 .. n
        BY <3>2, <3>7, <4>1 DEF InboxInv
      <4>2. CASE i = n + 1
        <5>1. msg.line = said + 1
          BY <3>1, <3>7, <4>2
        <5>2. shown[v][j] <= said
          BY DEF ShownInv
        <5> QED
          BY <1>2, <1>3, <3>1, <4>2, <5>1, <5>2
      <4> QED
        BY <3>4, <4>1, <4>2
    <3> QED
      BY <1>6, <2>2, <3>5, <3>6, <3>7
  <2> QED
    BY <2>1, <2>2
<1>9. GapInv'
  <2>1. \A v \in Viewers, n \in Nat :
          (OnScreen(v, n)' <=> OnScreen(v, n)) /\ (Missed(v, n)' <=> Missed(v, n))
    BY DEF OnScreen, Missed
  <2>2. ASSUME NEW v \in Viewers, Hears(v), NEW n \in Nat, Coming(v, n)
        PROVE  Coming(v, n)'
    <3>1. PICK i \in 1 .. Len(inbox[v]) : inbox[v][i].line = n
      BY <2>2 DEF Coming
    <3>2. i \in 1 .. Len(inbox'[v]) /\ inbox'[v][i] = inbox[v][i]
      BY <1>5, <2>2, Published
    <3> QED
      BY <3>1, <3>2 DEF Coming
  <2>3. ASSUME NEW v \in Viewers, Hears(v), said' = said + 1
        PROVE  Coming(v, said)'
    <3>1. msg.line = said + 1
      BY <1>2, <2>3
    <3>2. Len(inbox[v]) + 1 \in 1 .. Len(inbox'[v]) /\ inbox'[v][Len(inbox[v]) + 1] = msg
      BY <1>5, <2>3, Published
    <3> QED
      BY <2>3, <3>1, <3>2 DEF Coming
  <2> SUFFICES ASSUME NEW v \in Viewers
               PROVE /\ since[v] <= said'
                     /\ vpc[v] \in {"replayed", "checked"} => \A n \in logged[v] : OnScreen(v, n)'
                     /\ Hears(v)' => \A n \in 1 .. said' :
                          OnScreen(v, n)' \/ Coming(v, n)' \/ Missed(v, n)'
                     /\ \A j \in 1 .. Len(shown[v]) : \A n \in 1 .. shown[v][j] :
                          OnScreen(v, n)' \/ Missed(v, n)'
    BY DEF GapInv
  <2>4. since[v] <= said'
    BY <1>2, LineTypes DEF GapInv
  <2>5. vpc[v] \in {"replayed", "checked"} => \A n \in logged[v] : OnScreen(v, n)'
    <3>1. logged[v] \subseteq Nat
      BY DEF TypeOK
    <3> QED
      BY <2>1, <3>1 DEF GapInv
  <2>6. ASSUME Hears(v)', NEW n \in 1 .. said'
        PROVE  OnScreen(v, n)' \/ Coming(v, n)' \/ Missed(v, n)'
    <3>1. n \in 1 .. said \/ (n = said + 1 /\ said' = said + 1)
      BY <1>2
    <3>2. CASE n \in 1 .. said
      BY <1>6, <2>1, <2>2, <2>6, <3>2 DEF GapInv
    <3>3. CASE n = said' /\ said' = said + 1
      <4>1. Coming(v, said)'
        BY <1>6, <2>3, <2>6, <3>3
      <4> QED
        BY <3>3, <4>1 DEF Coming
    <3> QED
      BY <3>1, <3>2, <3>3
  <2>7. \A j \in 1 .. Len(shown[v]) : \A n \in 1 .. shown[v][j] : OnScreen(v, n)' \/ Missed(v, n)'
    <3>1. \A j \in 1 .. Len(shown[v]) : 1 .. shown[v][j] \subseteq Nat
      BY <1>3
    <3> QED
      BY <2>1, <3>1 DEF GapInv
  <2> QED
    BY <2>4, <2>5, <2>6, <2>7
<1> QED
  BY <1>1, <1>7, <1>8, <1>9

(* The line just said goes to the end of the list. *)
LEMMA Listed == TypeOK /\ LinesInv /\ Push => LinesInv'
<1> SUFFICES ASSUME TypeOK, LinesInv, Push PROVE LinesInv'
  OBVIOUS
<1> DEFINE n == Len(log)
<1>1. /\ said \in Nat /\ n \in Nat
      /\ \A i \in 1 .. n : log[i] \in Nat
  BY LineTypes
<1>2. /\ log' = Append(log, said) /\ Pushed = said - 1 /\ Pushed' = said
      /\ UNCHANGED <<said, vpc, inbox, shown, logged, since, unsaid>>
  BY DEF Push, Pushed, AfterLine, viewer, history
<1>3. /\ Len(log') = n + 1 /\ log'[n + 1] = said
      /\ \A i \in 1 .. n : log'[i] = log[i]
  BY <1>1, <1>2, LineTypes, Appended
<1>4. \A i \in 1 .. Len(log') : i \in 1 .. n \/ i = n + 1
  BY <1>1, <1>3
<1>5. \A i \in 1 .. n : log[i] <= said - 1
  BY <1>2 DEF LinesInv, LogInv
<1>6. \A i \in 1 .. Len(log') : log'[i] <= Pushed'
  BY <1>1, <1>2, <1>3, <1>4, <1>5
<1>7. ASSUME NEW i \in 1 .. Len(log'), NEW j \in 1 .. Len(log'), i < j
      PROVE  log'[i] < log'[j]
  <2>1. i \in 1 .. n
    BY <1>1, <1>3, <1>7
  <2>2. CASE j \in 1 .. n
    BY <1>3, <1>7, <2>1, <2>2 DEF LinesInv, LogInv, Rising
  <2>3. CASE j = n + 1
    BY <1>1, <1>3, <1>5, <2>1, <2>3
  <2> QED
    BY <1>4, <2>2, <2>3
<1>8. LogInv'
  BY <1>6, <1>7 DEF LogInv, Rising
<1>9. ShownInv' /\ InboxInv'
  BY <1>2 DEF LinesInv, ShownInv, InboxInv, Rising, Hears
<1>10. GapInv'
  BY <1>2 DEF LinesInv, GapInv, OnScreen, Coming, Missed, Hears
<1> QED
  BY <1>8, <1>9, <1>10 DEF LinesInv

(* A viewer who replays shows the list, and what the list lacks was said   *)
(* before.                                                                 *)
LEMMA Replayed == \A v \in Viewers : TypeOK /\ LinesInv /\ Replay(v) => LinesInv'
<1> SUFFICES ASSUME NEW v \in Viewers, TypeOK, LinesInv, Replay(v) PROVE LinesInv'
  OBVIOUS
<1>1. UNCHANGED <<said, log, wpc, inbox, unsaid>>
  BY DEF Replay, worker
<1>2. \A u \in Viewers : u # v => vpc'[u] = vpc[u] /\ shown'[u] = shown[u]
                                  /\ logged'[u] = logged[u] /\ since'[u] = since[u]
  BY DEF Replay, TypeOK
<1>3. /\ vpc[v] = "open" /\ vpc'[v] = "replayed" /\ shown'[v] = log
      /\ logged'[v] = Range(log) /\ since'[v] = said
  BY DEF Replay, TypeOK, Buffered
<1>4. \A n : n \in Range(log) <=> \E i \in 1 .. Len(log) : log[i] = n
  <2>1. DOMAIN log = 1 .. Len(log)
    BY LineTypes
  <2> QED
    BY <2>1 DEF Range
<1>5. \A i \in 1 .. Len(log) : log[i] <= said /\ log[i] \in Nat /\ said \in Nat
  <2>1. \A i \in 1 .. Len(log) : log[i] <= Pushed
    BY DEF LinesInv, LogInv
  <2>2. Pushed = said \/ Pushed = said - 1
    BY DEF Pushed
  <2> QED
    BY <2>1, <2>2, LineTypes
<1>6. LogInv'
  BY <1>1 DEF LinesInv, LogInv, Pushed
<1>7. \A u \in Viewers : Hears(u)' <=> (u # v /\ Hears(u))
  BY <1>2, <1>3 DEF Hears
<1>8. inbox[v] = <<>> /\ Len(inbox[v]) = 0
  <2>1. ~Hears(v)
    BY <1>3 DEF Hears
  <2> QED
    BY <2>1 DEF LinesInv, InboxInv
<1>9. ShownInv'
  <2>1. Rising(log)
    BY DEF LinesInv, LogInv
  <2> QED
    BY <1>1, <1>2, <1>3, <1>5, <2>1 DEF LinesInv, ShownInv, Rising
<1>10. InboxInv'
  <2> SUFFICES ASSUME NEW u \in Viewers
               PROVE /\ ~Hears(u)' => inbox[u] = <<>>
                     /\ \A i \in 1 .. Len(inbox[u]) : inbox[u][i].line <= said
                     /\ \A i, j \in 1 .. Len(inbox[u]) :
                          i < j /\ inbox[u][j].line # 0 => inbox[u][i].line < inbox[u][j].line
                     /\ \A i \in 1 .. Len(inbox[u]), j \in 1 .. Len(shown'[u]) :
                          inbox[u][i].line # 0 => shown'[u][j] < inbox[u][i].line
    BY <1>1 DEF InboxInv
  <2>1. CASE u = v
    BY <1>8, <2>1
  <2>2. CASE u # v
    BY <1>2, <1>7, <2>2 DEF LinesInv, InboxInv
  <2> QED
    BY <2>1, <2>2
<1>11. GapInv'
  <2> SUFFICES ASSUME NEW u \in Viewers
               PROVE /\ since'[u] <= said
                     /\ vpc'[u] \in {"replayed", "checked"} => \A n \in logged'[u] : OnScreen(u, n)'
                     /\ Hears(u)' => \A n \in 1 .. said :
                          OnScreen(u, n)' \/ Coming(u, n)' \/ Missed(u, n)'
                     /\ \A j \in 1 .. Len(shown'[u]) : \A n \in 1 .. shown'[u][j] :
                          OnScreen(u, n)' \/ Missed(u, n)'
    BY <1>1 DEF GapInv
  <2>1. CASE u # v
    <3>1. \A n : (OnScreen(u, n)' <=> OnScreen(u, n)) /\ (Missed(u, n)' <=> Missed(u, n))
                 /\ (Coming(u, n)' <=> Coming(u, n))
      BY <1>1, <1>2, <2>1 DEF OnScreen, Missed, Coming
    <3> QED
      BY <1>2, <1>7, <2>1, <3>1 DEF LinesInv, GapInv
  <2>2. CASE u = v
    <3>1. \A n : n \in logged'[v] <=> OnScreen(v, n)'
      BY <1>3, <1>4 DEF OnScreen
    <3>2. ASSUME NEW j \in 1 .. Len(shown'[v]), NEW n \in 1 .. shown'[v][j]
          PROVE  OnScreen(v, n)' \/ Missed(v, n)'
      <4>1. n <= since'[v]
        BY <1>3, <1>5
      <4> QED
        BY <3>1, <4>1 DEF Missed
    <3>3. since'[v] <= said
      BY <1>3, LineTypes
    <3> QED
      BY <1>7, <2>2, <3>1, <3>2, <3>3
  <2> QED
    BY <2>1, <2>2
<1> QED
  BY <1>6, <1>9, <1>10, <1>11 DEF LinesInv

(* What was said before a viewer subscribes is shown or fell in its gap.   *)
LEMMA Subscribed == \A v \in Viewers : TypeOK /\ LinesInv /\ Subscribe(v) => LinesInv'
<1> SUFFICES ASSUME NEW v \in Viewers, TypeOK, LinesInv, Subscribe(v) PROVE LinesInv'
  OBVIOUS
<1>1. UNCHANGED <<said, log, wpc, inbox, shown, logged, unsaid>>
  BY DEF Subscribe, worker
<1>2. \A u \in Viewers : u # v => vpc'[u] = vpc[u] /\ since'[u] = since[u]
  BY DEF Subscribe, TypeOK
<1>3. vpc[v] = "checked" /\ vpc'[v] = "live" /\ since'[v] = said
  BY DEF Subscribe, TypeOK
<1>4. \A u \in Viewers : Hears(u)' <=> (u = v \/ Hears(u))
  BY <1>2, <1>3 DEF Hears
<1>5. LogInv'
  BY <1>1 DEF LinesInv, LogInv, Pushed
<1>6. ShownInv'
  BY <1>1, <1>2, <1>3 DEF LinesInv, ShownInv, Rising
<1>7. InboxInv'
  BY <1>1, <1>4 DEF LinesInv, InboxInv
<1>8. GapInv'
  <2> SUFFICES ASSUME NEW u \in Viewers
               PROVE /\ since'[u] <= said
                     /\ vpc'[u] \in {"replayed", "checked"} => \A n \in logged[u] : OnScreen(u, n)'
                     /\ Hears(u)' => \A n \in 1 .. said :
                          OnScreen(u, n)' \/ Coming(u, n)' \/ Missed(u, n)'
                     /\ \A j \in 1 .. Len(shown[u]) : \A n \in 1 .. shown[u][j] :
                          OnScreen(u, n)' \/ Missed(u, n)'
    BY <1>1 DEF GapInv
  <2>1. \A n : (OnScreen(u, n)' <=> OnScreen(u, n)) /\ (Coming(u, n)' <=> Coming(u, n))
    BY <1>1 DEF OnScreen, Coming
  <2>2. CASE u # v
    <3>1. \A n : Missed(u, n)' <=> Missed(u, n)
      BY <1>1, <1>2, <2>2 DEF Missed
    <3> QED
      BY <1>2, <1>4, <2>1, <2>2, <3>1 DEF LinesInv, GapInv
  <2>3. CASE u = v
    <3>1. said \in Nat /\ since[v] \in Nat /\ since[v] <= said
      BY LineTypes DEF LinesInv, GapInv
    <3>2. \A n \in Nat : Missed(v, n) => Missed(v, n)'
      BY <1>1, <1>3, <3>1 DEF Missed
    <3>3. \A n \in 1 .. said : OnScreen(v, n) \/ Missed(v, n)'
      BY <1>1, <1>3 DEF Missed, LinesInv, GapInv
    <3>4. \A j \in 1 .. Len(shown[v]) : 1 .. shown[v][j] \subseteq Nat
      BY LineTypes
    <3>5. \A j \in 1 .. Len(shown[v]) : \A n \in 1 .. shown[v][j] : OnScreen(v, n) \/ Missed(v, n)'
      BY <3>2, <3>4 DEF LinesInv, GapInv
    <3>6. since'[v] <= said
      BY <1>3, <3>1
    <3> QED
      BY <1>3, <2>1, <2>3, <3>3, <3>5, <3>6
  <2> QED
    BY <2>2, <2>3
<1> QED
  BY <1>5, <1>6, <1>7, <1>8 DEF LinesInv

(* A line that is received was on its way, and those still on their way    *)
(* are newer.                                                              *)
LEMMA Forwarded == \A v \in Viewers : TypeOK /\ LinesInv /\ Receive(v) => LinesInv'
<1> SUFFICES ASSUME NEW v \in Viewers, TypeOK, LinesInv, Receive(v) PROVE LinesInv'
  OBVIOUS
<1> DEFINE q == inbox[v]
<1>1. UNCHANGED <<said, log, wpc, logged, since, unsaid>>
  BY DEF Receive, worker, history
<1>2. vpc[v] = "live" /\ Hears(v) /\ q # <<>>
  BY DEF Receive, Hears
<1>3. Pushed' = Pushed
  BY <1>1 DEF Pushed
<1>4. CASE Head(q).status \in Terminal
  <2>1. End(v, Head(q).status) /\ UNCHANGED shown
    BY <1>4 DEF Receive
  <2>2. \A u \in Viewers : u # v => vpc'[u] = vpc[u] /\ inbox'[u] = inbox[u]
    BY <2>1 DEF End, TypeOK
  <2>3. vpc'[v] = "ended" /\ inbox'[v] = <<>>
    BY <2>1 DEF End, TypeOK
  <2>4. \A u \in Viewers : ~Hears(u) => inbox[u] = <<>>
    BY DEF LinesInv, InboxInv
  <2>5. \A u \in Viewers :
          /\ Hears(u)' => Hears(u) /\ inbox'[u] = inbox[u]
          /\ ~Hears(u)' => inbox'[u] = <<>>
          /\ vpc'[u] \in {"off", "open"} => vpc[u] \in {"off", "open"}
          /\ vpc'[u] \in {"replayed", "checked"} => vpc[u] \in {"replayed", "checked"}
    BY <2>2, <2>3, <2>4 DEF Hears
  <2>6. Pushed' >= Pushed
    BY <1>3, LineTypes
  <2> QED
    BY <1>1, <2>1, <2>5, <2>6, Unmoved
<1>5. CASE Head(q).status \notin Terminal
  <2> DEFINE l == Head(q).line
  <2>1. UNCHANGED vpc /\ inbox' = [inbox EXCEPT ![v] = Tail(q)]
    BY <1>5 DEF Receive
  <2>2. shown' = IF l = 0 THEN shown ELSE [shown EXCEPT ![v] = Append(@, l)]
    BY <1>5 DEF Receive
  <2>3. \A u \in Viewers : u # v => inbox'[u] = inbox[u] /\ shown'[u] = shown[u]
    BY <2>1, <2>2 DEF TypeOK
  <2>4. /\ inbox'[v] = Tail(q)
        /\ shown'[v] = IF l = 0 THEN shown[v] ELSE Append(shown[v], l)
    BY <2>1, <2>2 DEF TypeOK
  <2>5. q \in Seq(Message) /\ q # <<>>
    BY <1>2, LineTypes
  <2> DEFINE k == Len(q)
  <2>6. /\ k \in Nat /\ k >= 1 /\ 1 \in 1 .. k /\ Head(q) = q[1] /\ Len(inbox'[v]) = k - 1
        /\ \A i \in 1 .. Len(inbox'[v]) : i + 1 \in 1 .. k /\ inbox'[v][i] = q[i + 1]
        /\ \A i \in 2 .. k : i - 1 \in 1 .. Len(inbox'[v]) /\ inbox'[v][i - 1] = q[i]
    BY <2>4, <2>5, Received
  <2>7. \A i \in 1 .. k : q[i].line \in Nat /\ q[i].line <= said
    BY LineTypes DEF LinesInv, InboxInv
  <2>8. l \in Nat /\ l = q[1].line /\ l <= said /\ said \in Nat
    BY <2>6, <2>7, LineTypes
  <2> DEFINE m == Len(shown[v])
  <2>9. m \in Nat /\ shown[v] \in Seq(Nat) /\ \A i \in 1 .. m : shown[v][i] \in Nat
    BY LineTypes
  <2>10. \/ l = 0 /\ shown'[v] = shown[v]
         \/ /\ l # 0 /\ Len(shown'[v]) = m + 1 /\ shown'[v][m + 1] = l
            /\ \A i \in 1 .. m : shown'[v][i] = shown[v][i]
    BY <2>4, <2>8, <2>9, Appended
  <2>11. \A j \in 1 .. Len(shown'[v]) :
           \/ j \in 1 .. m /\ shown'[v][j] = shown[v][j]
           \/ j = m + 1 /\ shown'[v][j] = l /\ l # 0
    BY <2>9, <2>10
  <2>12. \A j \in 1 .. m : l # 0 => shown[v][j] < l
    BY <2>6, <2>8 DEF LinesInv, InboxInv
  <2>13. \A i \in 1 .. k : i # 1 /\ q[i].line # 0 => l < q[i].line
    <3> SUFFICES ASSUME NEW i \in 1 .. k, i # 1, q[i].line # 0 PROVE l < q[i].line
      OBVIOUS
    <3>1. 1 < i
      BY <2>6
    <3> QED
      BY <2>6, <2>8, <3>1 DEF LinesInv, InboxInv
  <2>14. \A u \in Viewers : Hears(u)' <=> Hears(u)
    BY <2>1 DEF Hears
  <2>15. LogInv'
    BY <1>1, <1>3 DEF LinesInv, LogInv, Rising
  <2>16. ShownInv'
    <3> SUFFICES ASSUME NEW u \in Viewers
                 PROVE /\ Rising(shown'[u])
                       /\ \A i \in 1 .. Len(shown'[u]) : shown'[u][i] <= said
                       /\ vpc'[u] \in {"off", "open"} => shown'[u] = <<>>
      BY <1>1 DEF ShownInv
    <3>1. CASE u # v
      BY <2>1, <2>3, <3>1 DEF LinesInv, ShownInv
    <3>2. CASE u = v
      <4>1. \A i \in 1 .. m : shown[v][i] <= said
        BY DEF LinesInv, ShownInv
      <4>2. \A i \in 1 .. Len(shown'[v]) : shown'[v][i] <= said
        BY <2>8, <2>11, <4>1
      <4>3. ASSUME NEW i \in 1 .. Len(shown'[v]), NEW j \in 1 .. Len(shown'[v]), i < j
            PROVE  shown'[v][i] < shown'[v][j]
        <5>1. i \in 1 .. m /\ shown'[v][i] = shown[v][i]
          BY <2>9, <2>11, <4>3
        <5>2. CASE j \in 1 .. m /\ shown'[v][j] = shown[v][j]
          BY <4>3, <5>1, <5>2 DEF LinesInv, ShownInv, Rising
        <5>3. CASE shown'[v][j] = l /\ l # 0
          BY <2>12, <5>1, <5>3
        <5> QED
          BY <2>11, <5>2, <5>3
      <4> QED
        BY <1>2, <2>1, <3>2, <4>2, <4>3 DEF Rising
    <3> QED
      BY <3>1, <3>2
  <2>17. InboxInv'
    <3> SUFFICES ASSUME NEW u \in Viewers
                 PROVE /\ ~Hears(u)' => inbox'[u] = <<>>
                       /\ \A i \in 1 .. Len(inbox'[u]) : inbox'[u][i].line <= said
                       /\ \A i, j \in 1 .. Len(inbox'[u]) :
                            i < j /\ inbox'[u][j].line # 0 => inbox'[u][i].line < inbox'[u][j].line
                       /\ \A i \in 1 .. Len(inbox'[u]), j \in 1 .. Len(shown'[u]) :
                            inbox'[u][i].line # 0 => shown'[u][j] < inbox'[u][i].line
      BY <1>1 DEF InboxInv
    <3>1. CASE u # v
      BY <2>3, <2>14, <3>1 DEF LinesInv, InboxInv
    <3>2. CASE u = v
      <4>1. \A i \in 1 .. Len(inbox'[v]) : inbox'[v][i].line <= said
        BY <2>6, <2>7
      <4>2. ASSUME NEW i \in 1 .. Len(inbox'[v]), NEW j \in 1 .. Len(inbox'[v]),
                   i < j, inbox'[v][j].line # 0
            PROVE  inbox'[v][i].line < inbox'[v][j].line
        <5>1. i + 1 \in 1 .. k /\ j + 1 \in 1 .. k /\ i + 1 < j + 1
          BY <2>6, <4>2
        <5>2. inbox'[v][i] = q[i + 1] /\ inbox'[v][j] = q[j + 1]
          BY <2>6
        <5> QED
          BY <4>2, <5>1, <5>2 DEF LinesInv, InboxInv
      <4>3. ASSUME NEW i \in 1 .. Len(inbox'[v]), NEW j \in 1 .. Len(shown'[v]),
                   inbox'[v][i].line # 0
            PROVE  shown'[v][j] < inbox'[v][i].line
        <5>1. i + 1 \in 1 .. k /\ i + 1 # 1 /\ inbox'[v][i] = q[i + 1]
          BY <2>6
        <5>2. CASE j \in 1 .. m /\ shown'[v][j] = shown[v][j]
          BY <4>3, <5>1, <5>2 DEF LinesInv, InboxInv
        <5>3. CASE shown'[v][j] = l
          BY <2>13, <4>3, <5>1, <5>3
        <5> QED
          BY <2>11, <5>2, <5>3
      <4> QED
        BY <1>2, <2>14, <3>2, <4>1, <4>2, <4>3
    <3> QED
      BY <3>1, <3>2
  <2>18. GapInv'
    <3> SUFFICES ASSUME NEW u \in Viewers
                 PROVE /\ since[u] <= said
                       /\ vpc[u] \in {"replayed", "checked"} => \A n \in logged[u] : OnScreen(u, n)'
                       /\ Hears(u)' => \A n \in 1 .. said :
                            OnScreen(u, n)' \/ Coming(u, n)' \/ Missed(u, n)'
                       /\ \A j \in 1 .. Len(shown'[u]) : \A n \in 1 .. shown'[u][j] :
                            OnScreen(u, n)' \/ Missed(u, n)'
      BY <1>1, <2>1 DEF GapInv
    <3>1. \A n : Missed(u, n)' <=> Missed(u, n)
      BY <1>1 DEF Missed
    <3>2. since[u] <= said
      BY DEF LinesInv, GapInv
    <3>3. CASE u # v
      <4>1. \A n : (OnScreen(u, n)' <=> OnScreen(u, n)) /\ (Coming(u, n)' <=> Coming(u, n))
        BY <2>3, <3>3 DEF OnScreen, Coming
      <4> QED
        BY <2>3, <2>14, <3>1, <3>2, <3>3, <4>1 DEF LinesInv, GapInv
    <3>4. CASE u = v
      <4>1. ASSUME NEW n, OnScreen(v, n) PROVE OnScreen(v, n)'
        <5>1. PICK i \in 1 .. m : shown[v][i] = n
          BY <4>1 DEF OnScreen
        <5>2. i \in 1 .. Len(shown'[v]) /\ shown'[v][i] = shown[v][i]
          BY <2>9, <2>10, <5>1
        <5> QED
          BY <5>1, <5>2 DEF OnScreen
      <4>2. ASSUME NEW n \in Nat, n # 0, n = l PROVE OnScreen(v, n)'
        <5>1. m + 1 \in 1 .. Len(shown'[v]) /\ shown'[v][m + 1] = n
          BY <2>9, <2>10, <4>2
        <5> QED
          BY <5>1 DEF OnScreen
      <4>3. ASSUME NEW n \in Nat, n # 0, Coming(v, n)
            PROVE  n = l \/ (Coming(v, n)' /\ l < n)
        <5>1. PICK i \in 1 .. k : q[i].line = n
          BY <4>3 DEF Coming
        <5>2. CASE i = 1
          BY <2>8, <5>1, <5>2
        <5>3. CASE i # 1
          <6>1. i \in 2 .. k
            BY <2>6, <5>1, <5>3
          <6>2. i - 1 \in 1 .. Len(inbox'[v]) /\ inbox'[v][i - 1].line = n
            BY <2>6, <5>1, <6>1
          <6>3. Coming(v, n)'
            BY <6>2 DEF Coming
          <6>4. l < n
            BY <2>13, <4>3, <5>1, <5>3
          <6> QED
            BY <6>3, <6>4
        <5> QED
          BY <5>2, <5>3
      <4>4. ASSUME NEW n \in 1 .. said
            PROVE  \/ OnScreen(v, n)' \/ Missed(v, n)'
                   \/ Coming(v, n)' /\ l < n
        <5>1. OnScreen(v, n) \/ Coming(v, n) \/ Missed(v, n)
          BY <1>2 DEF LinesInv, GapInv
        <5>2. n \in Nat /\ n # 0
          BY <2>8
        <5> QED
          BY <3>1, <3>4, <4>1, <4>2, <4>3, <5>1, <5>2
      <4>5. ASSUME NEW j \in 1 .. Len(shown'[v]), NEW n \in 1 .. shown'[v][j]
            PROVE  OnScreen(v, n)' \/ Missed(v, n)'
        <5>1. CASE j \in 1 .. m /\ shown'[v][j] = shown[v][j]
          <6>1. OnScreen(v, n) \/ Missed(v, n)
            BY <5>1 DEF LinesInv, GapInv
          <6> QED
            BY <3>1, <3>4, <4>1, <6>1
        <5>2. CASE shown'[v][j] = l
          <6>1. n \in 1 .. said /\ ~(l < n)
            BY <2>8, <5>2
          <6> QED
            BY <4>4, <6>1
        <5> QED
          BY <2>11, <5>1, <5>2
      <4>6. vpc[v] \notin {"replayed", "checked"}
        BY <1>2
      <4> QED
        BY <3>2, <3>4, <4>4, <4>5, <4>6
    <3> QED
      BY <3>3, <3>4
  <2> QED
    BY <2>15, <2>16, <2>17, <2>18 DEF LinesInv
<1> QED
  BY <1>4, <1>5

(* A line that does not reach the channel is never on its way.             *)
LEMMA Unheard == TypeOK /\ LinesInv /\ SayFails => LinesInv'
<1> SUFFICES ASSUME TypeOK, LinesInv, SayFails PROVE LinesInv'
  OBVIOUS
<1>1. /\ said' = said + 1 /\ unsaid' = unsaid \cup {said + 1}
      /\ UNCHANGED <<log, vpc, inbox, shown, logged, since>>
  BY DEF SayFails, viewer, history
<1>2. /\ said \in Nat
      /\ \A v \in Viewers : since[v] \in Nat /\ \A i \in 1 .. Len(shown[v]) : shown[v][i] \in Nat
  BY LineTypes
<1>3. Pushed = said /\ Pushed' = said + 1
  BY <1>1 DEF SayFails, Pushed
<1>4. LogInv'
  <2>1. \A i \in 1 .. Len(log) : log[i] \in Nat
    BY LineTypes
  <2> QED
    BY <1>1, <1>2, <1>3, <2>1 DEF LinesInv, LogInv, Rising
<1>5. ShownInv'
  BY <1>1, <1>2 DEF LinesInv, ShownInv, Rising
<1>6. InboxInv'
  <2>1. \A v \in Viewers : \A i \in 1 .. Len(inbox[v]) : inbox[v][i].line \in Nat
    BY LineTypes
  <2> QED
    BY <1>1, <1>2, <2>1 DEF LinesInv, InboxInv, Hears
<1>7. GapInv'
  <2>1. \A v \in Viewers : \A n : /\ OnScreen(v, n)' <=> OnScreen(v, n)
                                  /\ Coming(v, n)' <=> Coming(v, n)
                                  /\ Missed(v, n)' <=> Missed(v, n) \/ n = said + 1
    BY <1>1 DEF OnScreen, Coming, Missed
  <2>2. \A n \in 1 .. said' : n \in 1 .. said \/ n = said + 1
    BY <1>1, <1>2
  <2>3. \A v \in Viewers : since[v] <= said'
    BY <1>1, <1>2 DEF LinesInv, GapInv
  <2> QED
    BY <1>1, <2>1, <2>2, <2>3 DEF LinesInv, GapInv, Hears
<1> QED
  BY <1>4, <1>5, <1>6, <1>7 DEF LinesInv

(* Nothing but the status, the worker's place or a fault changes.          *)
LEMMA Still ==
    ASSUME TypeOK, LinesInv,
           UNCHANGED <<said, log, shown, logged, since, unsaid, vpc, inbox>>, Pushed' >= Pushed
    PROVE  LinesInv'
<1>1. \A v \in Viewers : Hears(v)' <=> Hears(v)
  BY DEF Hears
<1>2. \A v \in Viewers : ~Hears(v) => inbox[v] = <<>>
  BY DEF LinesInv, InboxInv
<1> QED
  BY <1>1, <1>2, Unmoved

(* A viewer's step that shows nothing and subscribes to nothing.           *)
LEMMA ViewerPasses ==
    ASSUME TypeOK, LinesInv, NEW v \in Viewers,
           UNCHANGED <<said, log, shown, logged, since, unsaid, wpc>>,
           \A u \in Viewers : u # v => vpc'[u] = vpc[u] /\ inbox'[u] = inbox[u],
           \/ vpc[v] = "off" /\ vpc'[v] = "open" /\ inbox'[v] = inbox[v]
           \/ vpc[v] = "replayed" /\ vpc'[v] = "checked" /\ inbox'[v] = inbox[v]
           \/ Hears(v) /\ vpc'[v] \in {"live", "beating"} /\ inbox'[v] = inbox[v]
           \/ vpc'[v] = "ended" /\ inbox'[v] = <<>>
    PROVE  LinesInv'
<1>1. \A u \in Viewers : ~Hears(u) => inbox[u] = <<>>
  BY DEF LinesInv, InboxInv
<1>2. Pushed \in Int /\ Pushed' = Pushed
  <2>1. Pushed' = Pushed
    BY DEF Pushed
  <2> QED
    BY <2>1, LineTypes
<1>3. Pushed' >= Pushed
  BY <1>2
<1>4. \A u \in Viewers :
        /\ Hears(u)' => Hears(u) /\ inbox'[u] = inbox[u]
        /\ ~Hears(u)' => inbox'[u] = <<>>
        /\ vpc'[u] \in {"off", "open"} => vpc[u] \in {"off", "open"}
        /\ vpc'[u] \in {"replayed", "checked"} => vpc[u] \in {"replayed", "checked"}
  BY <1>1 DEF Hears
<1> QED
  BY <1>3, <1>4, Unmoved
-----------------------------------------------------------------------------
(* Every step keeps the lines in order and accounts for those that lack.   *)
LEMMA NextLines == TypeOK /\ LinesInv /\ [Next]_vars => LinesInv'
<1> SUFFICES ASSUME TypeOK, LinesInv, [Next]_vars PROVE LinesInv'
  OBVIOUS
<1> USE DEF worker, viewer, history
<1>0. said \in Nat /\ Pushed \in Int
  BY LineTypes
<1>1. ASSUME Begin PROVE LinesInv'
  <2>1. UNCHANGED <<said, log, shown, logged, since, unsaid, vpc, inbox>>
    BY <1>1 DEF Begin, WriteStatus
  <2>2. Pushed' >= Pushed
    BY <1>0, <1>1 DEF Begin, WriteStatus, Pushed
  <2> QED
    BY <2>1, <2>2, Still
<1>2. ASSUME Announce PROVE LinesInv'
  <2>1. Signal(note) \in Message
    BY DEF Signal, Message, TypeOK
  <2>2. Publish(Signal(note)) /\ UNCHANGED <<log, vpc, shown, logged, since, unsaid>>
    BY <1>2 DEF Announce
  <2>3. Signal(note).line = 0 /\ said' = said
    BY <1>2 DEF Announce, Signal
  <2>4. Pushed' = Pushed
    BY <1>0, <1>2 DEF Announce, Pushed, AfterNote
  <2> QED
    BY <2>1, <2>2, <2>3, <2>4, Spoken
<1>3. ASSUME AnnounceFails PROVE LinesInv'
  <2>1. UNCHANGED <<said, log, shown, logged, since, unsaid, vpc, inbox>>
    BY <1>3 DEF AnnounceFails, AfterNote, Fault
  <2>2. Pushed' >= Pushed
    BY <1>0, <1>3 DEF AnnounceFails, AfterNote, Fault, Pushed
  <2> QED
    BY <2>1, <2>2, Still
<1>4. ASSUME Say PROVE LinesInv'
  <2>1. Line(said + 1) \in Message
    BY LineTyped DEF TypeOK
  <2>2. Publish(Line(said + 1)) /\ UNCHANGED <<log, vpc, shown, logged, since, unsaid>>
    BY <1>4 DEF Say
  <2>3. Line(said + 1).line = said + 1 /\ said' = said + 1
    BY <1>4 DEF Say, Line
  <2>4. Pushed' = Pushed
    <3>1. Pushed = said /\ Pushed' = said' - 1
      BY <1>4 DEF Say, Pushed
    <3> QED
      BY <1>0, <2>3, <3>1
  <2> QED
    BY <2>1, <2>2, <2>3, <2>4, Spoken
<1>5. ASSUME SayFails PROVE LinesInv'
  BY <1>5, Unheard
<1>6. ASSUME Push PROVE LinesInv'
  BY <1>6, Listed
<1>7. ASSUME PushFails PROVE LinesInv'
  <2>1. UNCHANGED <<said, log, shown, logged, since, unsaid, vpc, inbox>>
    BY <1>7 DEF PushFails, AfterLine, Fault
  <2>2. Pushed' >= Pushed
    <3>1. Pushed \in {said, said - 1} /\ Pushed' = said
      BY <1>7 DEF PushFails, AfterLine, Fault, Pushed
    <3> QED
      BY <1>0, <3>1
  <2> QED
    BY <2>1, <2>2, Still
<1>8. ASSUME FinishFails PROVE LinesInv'
  <2>1. UNCHANGED <<said, log, shown, logged, since, unsaid, vpc, inbox>>
    BY <1>8 DEF FinishFails, Fault
  <2>2. Pushed' >= Pushed
    BY <1>0, <1>8 DEF FinishFails, Fault, Pushed
  <2> QED
    BY <2>1, <2>2, Still
<1>9. ASSUME Stop PROVE LinesInv'
  <2>1. UNCHANGED <<said, log, shown, logged, since, unsaid, vpc, inbox>>
    BY <1>9 DEF Stop, Fault
  <2>2. Pushed' >= Pushed
    <3>1. Pushed \in {said, said - 1} /\ Pushed' = said
      BY <1>9 DEF Stop, Fault, Pushed
    <3> QED
      BY <1>0, <3>1
  <2> QED
    BY <2>1, <2>2, Still
<1>10. ASSUME NEW s \in {"Completed", "Failed"}, Finish(s) PROVE LinesInv'
  <2>1. UNCHANGED <<said, log, shown, logged, since, unsaid, vpc, inbox>>
    BY <1>10 DEF Finish, WriteStatus
  <2>2. Pushed' >= Pushed
    BY <1>0, <1>10 DEF Finish, WriteStatus, Pushed
  <2> QED
    BY <2>1, <2>2, Still
<1>11. ASSUME CancelCheck PROVE LinesInv'
  <2>1. UNCHANGED <<said, log, shown, logged, since, unsaid, vpc, inbox>>
    BY <1>11 DEF CancelCheck
  <2>2. Pushed' >= Pushed
    BY <1>0, <1>11 DEF CancelCheck, Pushed
  <2> QED
    BY <2>1, <2>2, Still
<1>12. ASSUME CancelCommit PROVE LinesInv'
  <2>1. UNCHANGED <<said, log, shown, logged, since, unsaid, vpc, inbox>>
    BY <1>12 DEF CancelCommit
  <2>2. Pushed' >= Pushed
    BY <1>0, <1>12 DEF CancelCommit, Pushed
  <2> QED
    BY <2>1, <2>2, Still
<1>13. ASSUME Recover PROVE LinesInv'
  <2>1. UNCHANGED <<said, log, shown, logged, since, unsaid, vpc, inbox>>
    BY <1>13 DEF Recover, Fault
  <2>2. Pushed' >= Pushed
    BY <1>0, <1>13 DEF Recover, Fault, Pushed
  <2> QED
    BY <2>1, <2>2, Still
<1>14. ASSUME DeleteEngagement PROVE LinesInv'
  <2>1. UNCHANGED <<said, log, shown, logged, since, unsaid, vpc, inbox>>
    BY <1>14 DEF DeleteEngagement, Fault
  <2>2. Pushed' >= Pushed
    BY <1>0, <1>14 DEF DeleteEngagement, Fault, Pushed
  <2> QED
    BY <2>1, <2>2, Still
<1>15. ASSUME NEW v \in Viewers, Open(v) PROVE LinesInv'
  <2>1. /\ UNCHANGED <<said, log, shown, logged, since, unsaid, wpc>>
        /\ \A u \in Viewers : u # v => vpc'[u] = vpc[u] /\ inbox'[u] = inbox[u]
    BY <1>15 DEF Open, TypeOK
  <2>2. \/ vpc[v] = "off" /\ vpc'[v] = "open" /\ inbox'[v] = inbox[v]
        \/ vpc[v] = "replayed" /\ vpc'[v] = "checked" /\ inbox'[v] = inbox[v]
        \/ Hears(v) /\ vpc'[v] \in {"live", "beating"} /\ inbox'[v] = inbox[v]
        \/ vpc'[v] = "ended" /\ inbox'[v] = <<>>
    BY <1>15 DEF Open, TypeOK, Hears
  <2> QED
    BY <2>1, <2>2, ViewerPasses
<1>16. ASSUME NEW v \in Viewers, Replay(v) PROVE LinesInv'
  BY <1>16, Replayed
<1>17. ASSUME NEW v \in Viewers, CheckStatus(v) PROVE LinesInv'
  <2>1. /\ UNCHANGED <<said, log, shown, logged, since, unsaid, wpc>>
        /\ \A u \in Viewers : u # v => vpc'[u] = vpc[u] /\ inbox'[u] = inbox[u]
    BY <1>17 DEF CheckStatus, End, TypeOK
  <2>2. \/ vpc[v] = "off" /\ vpc'[v] = "open" /\ inbox'[v] = inbox[v]
        \/ vpc[v] = "replayed" /\ vpc'[v] = "checked" /\ inbox'[v] = inbox[v]
        \/ Hears(v) /\ vpc'[v] \in {"live", "beating"} /\ inbox'[v] = inbox[v]
        \/ vpc'[v] = "ended" /\ inbox'[v] = <<>>
    BY <1>17 DEF CheckStatus, End, TypeOK, Hears
  <2> QED
    BY <2>1, <2>2, ViewerPasses
<1>18. ASSUME NEW v \in Viewers, Subscribe(v) PROVE LinesInv'
  BY <1>18, Subscribed
<1>19. ASSUME NEW v \in Viewers, Receive(v) PROVE LinesInv'
  BY <1>19, Forwarded
<1>20. ASSUME NEW v \in Viewers, Heartbeat(v) PROVE LinesInv'
  <2>1. /\ UNCHANGED <<said, log, shown, logged, since, unsaid, wpc>>
        /\ \A u \in Viewers : u # v => vpc'[u] = vpc[u] /\ inbox'[u] = inbox[u]
    BY <1>20 DEF Heartbeat, TypeOK
  <2>2. \/ vpc[v] = "off" /\ vpc'[v] = "open" /\ inbox'[v] = inbox[v]
        \/ vpc[v] = "replayed" /\ vpc'[v] = "checked" /\ inbox'[v] = inbox[v]
        \/ Hears(v) /\ vpc'[v] \in {"live", "beating"} /\ inbox'[v] = inbox[v]
        \/ vpc'[v] = "ended" /\ inbox'[v] = <<>>
    BY <1>20 DEF Heartbeat, TypeOK, Hears
  <2> QED
    BY <2>1, <2>2, ViewerPasses
<1>21. ASSUME NEW v \in Viewers, Recheck(v) PROVE LinesInv'
  <2>1. /\ UNCHANGED <<said, log, shown, logged, since, unsaid, wpc>>
        /\ \A u \in Viewers : u # v => vpc'[u] = vpc[u] /\ inbox'[u] = inbox[u]
    BY <1>21 DEF Recheck, End, TypeOK
  <2>2. \/ vpc[v] = "off" /\ vpc'[v] = "open" /\ inbox'[v] = inbox[v]
        \/ vpc[v] = "replayed" /\ vpc'[v] = "checked" /\ inbox'[v] = inbox[v]
        \/ Hears(v) /\ vpc'[v] \in {"live", "beating"} /\ inbox'[v] = inbox[v]
        \/ vpc'[v] = "ended" /\ inbox'[v] = <<>>
    BY <1>21 DEF Recheck, End, TypeOK, Hears
  <2> QED
    BY <2>1, <2>2, ViewerPasses
<1>22. ASSUME NEW v \in Viewers, Timeout(v) PROVE LinesInv'
  <2>1. /\ UNCHANGED <<said, log, shown, logged, since, unsaid, wpc>>
        /\ \A u \in Viewers : u # v => vpc'[u] = vpc[u] /\ inbox'[u] = inbox[u]
    BY <1>22 DEF Timeout, End, TypeOK
  <2>2. \/ vpc[v] = "off" /\ vpc'[v] = "open" /\ inbox'[v] = inbox[v]
        \/ vpc[v] = "replayed" /\ vpc'[v] = "checked" /\ inbox'[v] = inbox[v]
        \/ Hears(v) /\ vpc'[v] \in {"live", "beating"} /\ inbox'[v] = inbox[v]
        \/ vpc'[v] = "ended" /\ inbox'[v] = <<>>
    BY <1>22 DEF Timeout, End, TypeOK, Hears
  <2> QED
    BY <2>1, <2>2, ViewerPasses
<1>23. ASSUME NEW v \in Viewers, Disconnect(v) PROVE LinesInv'
  <2>1. /\ UNCHANGED <<said, log, shown, logged, since, unsaid, wpc>>
        /\ \A u \in Viewers : u # v => vpc'[u] = vpc[u] /\ inbox'[u] = inbox[u]
    BY <1>23 DEF Disconnect, End, Fault, TypeOK
  <2>2. \/ vpc[v] = "off" /\ vpc'[v] = "open" /\ inbox'[v] = inbox[v]
        \/ vpc[v] = "replayed" /\ vpc'[v] = "checked" /\ inbox'[v] = inbox[v]
        \/ Hears(v) /\ vpc'[v] \in {"live", "beating"} /\ inbox'[v] = inbox[v]
        \/ vpc'[v] = "ended" /\ inbox'[v] = <<>>
    BY <1>23 DEF Disconnect, End, Fault, TypeOK, Hears
  <2> QED
    BY <2>1, <2>2, ViewerPasses
<1>25. ASSUME RecordFails PROVE LinesInv'
  <2>1. UNCHANGED <<said, log, shown, logged, since, unsaid, vpc, inbox>>
    BY <1>25 DEF RecordFails, Fault
  <2>2. Pushed' >= Pushed
    BY <1>0, <1>25 DEF RecordFails, Fault, Pushed
  <2> QED
    BY <2>1, <2>2, Still
<1>24. CASE UNCHANGED vars
  <2>1. UNCHANGED <<said, log, shown, logged, since, unsaid, vpc, inbox, wpc>>
    BY <1>24 DEF vars
  <2>2. Pushed' = Pushed
    BY <2>1 DEF Pushed
  <2> QED
    BY <1>0, <2>1, <2>2, Still
<1> QED
  BY <1>1, <1>2, <1>3, <1>4, <1>5, <1>6, <1>7, <1>8, <1>9, <1>10, <1>11,
     <1>12, <1>13, <1>14, <1>15, <1>16, <1>17, <1>18, <1>19, <1>20, <1>21,
     <1>22, <1>23, <1>24, <1>25
  DEF Next, Work, Stream
-----------------------------------------------------------------------------
(* The streams' invariant: every state the system reaches satisfies it.    *)
LEMMA SpecIInv == Spec => []IInv
<1>1. IInv /\ [Next]_vars => IInv'
  BY NextTypeOK, NextTruth, NextLines DEF IInv
<1> QED
  BY InitIInv, <1>1, PTL DEF Spec

(* Whatever worker, viewers and faults do, the variables keep their types. *)
THEOREM TypeCorrect == Spec => []TypeOK
<1>1. IInv => TypeOK
  BY DEF IInv
<1> QED
  BY SpecIInv, <1>1, PTL

(* A status that ends a stream (scan_stream) is the database's last word,  *)
(* unless a write replaced a terminal status or the scan is gone.          *)
THEOREM EndsTruly == Spec => []EndsWithTruth
<1>1. IInv => EndsWithTruth
  BY DEF IInv, TruthInv, EndsWithTruth
<1> QED
  BY SpecIInv, <1>1, PTL

(* No stream (scan_stream) shows a line twice or out of order.             *)
THEOREM EachOnceInOrder == Spec => []OnceInOrder
<1>1. IInv => OnceInOrder
  <2> SUFFICES ASSUME IInv, NEW v \in Viewers
               PROVE  \A i, j \in DOMAIN shown[v] : i < j => shown[v][i] < shown[v][j]
    BY DEF OnceInOrder
  <2>1. shown[v] \in Seq(Nat)
    BY LineTypes DEF IInv
  <2>2. DOMAIN shown[v] = 1 .. Len(shown[v])
    BY <2>1
  <2> QED
    BY <2>2 DEF IInv, LinesInv, ShownInv, Rising
<1> QED
  BY SpecIInv, <1>1, PTL

(* A line that a stream (scan_stream) skips was said in the gap before it  *)
(* subscribed, or was never published (publish_progress).                  *)
THEOREM SkipsOnlyGap == Spec => []LostOnlyInGap
<1>1. IInv => LostOnlyInGap
  <2> SUFFICES ASSUME IInv, NEW v \in Viewers, NEW l \in Range(shown[v]), NEW n \in 1 .. l
               PROVE  n \in Range(shown[v]) \/ n \in unsaid \/ n \in (1 .. since[v]) \ logged[v]
    BY DEF LostOnlyInGap
  <2>1. /\ shown[v] \in Seq(Nat) /\ since[v] \in Nat
        /\ \A i \in 1 .. Len(shown[v]) : shown[v][i] \in Nat
    BY LineTypes DEF IInv
  <2>2. DOMAIN shown[v] = 1 .. Len(shown[v])
    BY <2>1
  <2>3. PICK j \in 1 .. Len(shown[v]) : shown[v][j] = l
    BY <2>2 DEF Range
  <2>4. OnScreen(v, n) \/ Missed(v, n)
    BY <2>3 DEF IInv, LinesInv, GapInv
  <2>5. OnScreen(v, n) => n \in Range(shown[v])
    BY <2>2 DEF OnScreen, Range
  <2>6. n \in Nat /\ n >= 1
    BY <2>1, <2>3
  <2>7. Missed(v, n) => n \in unsaid \/ n \in (1 .. since[v]) \ logged[v]
    BY <2>1, <2>6 DEF Missed
  <2> QED
    BY <2>4, <2>5, <2>7
<1> QED
  BY SpecIInv, <1>1, PTL
=============================================================================
