----------------------- MODULE ReportTemplatesProofs ------------------------
(***************************************************************************)
(* The default template, for any processes, requests, engagements and row  *)
(* ids.                                                                    *)
(***************************************************************************)
EXTENDS ReportTemplates, FiniteSetTheorems, TLAPS

(* What an open writer of the flag read covers every default, unless a     *)
(* default was committed since.                                            *)
SeenInv ==
    /\ ~raced => \A t, u \in Defaults : t = u
    /\ \A r \in Requests :
         req[r].op = "promote" /\ ~req[r].crossed => Defaults \subseteq req[r].seen
    /\ \A r \in Requests :
         req[r].op = "look" /\ ~req[r].crossed => Defaults \cap {req[r].t} \subseteq req[r].seen
    /\ \A p \in Processes :
         pc[p] = "seeding" /\ ~saw[p].crossed /\ ~saw[p].default => Defaults = {}

(* And what it read is still there, unless a promoted row was deleted.     *)
StayInv ==
    /\ \A r \in Requests :
         req[r].op = "delete" /\ ~req[r].crossed => req[r].t \notin Defaults
    /\ \A r \in Requests :
         req[r].op \in {"look", "promote"} /\ ~req[r].crossed /\ ~dropped
           => req[r].seen \subseteq Defaults
    /\ \A p \in Processes :
         pc[p] = "seeding" /\ saw[p].default /\ ~raced /\ ~dropped => Defaults # {}
    /\ DefaultStays

(* Requests are served by processes that have started.                     *)
UpInv ==
    /\ \A p \in Processes : pc[p] = "up" => admin
    /\ \A r \in Requests : req[r].op # "idle" => admin
    /\ \A r \in Requests : req[r].op \in {"look", "promote"} => req[r].t \in Templates

IInv == TypeOK /\ SeenInv /\ StayInv /\ UpInv /\ ExportsServed
-----------------------------------------------------------------------------
(* The row a new template takes. *)
LEMMA NewRow == Unused # {} => NextId \in Templates /\ tmpl[NextId] = "unused"
BY DEF Unused, NextId

(* Initial states satisfy the invariant. *)
LEMMA InitIInv == Init => IInv
<1> SUFFICES ASSUME Init PROVE IInv
  OBVIOUS
<1> USE ReportTemplatesAssumption DEF Init, Idle, Unread
<1>1. Defaults = {}
  BY DEF Defaults
<1>2. TypeOK
  <2>1. /\ tmpl \in [Templates -> {"unused", "plain", "default", "deleted"}]
        /\ ref \in [Engagements -> Templates \cup {NoTemplate}]
        /\ pc \in [Processes -> {"down", "seeding", "up"}]
        /\ answer \in [Requests -> {"none", "own", "default", "builtin", "error"}]
        /\ requests \in 0 .. MaxRequests /\ stops \in 0 .. MaxStops
    OBVIOUS
  <2>2. admin \in BOOLEAN /\ raced \in BOOLEAN /\ dropped \in BOOLEAN
    OBVIOUS
  <2>3. saw \in [Processes -> [admin : BOOLEAN, default : BOOLEAN, crossed : BOOLEAN]]
    OBVIOUS
  <2>4. req \in [Requests -> [op : {"idle", "look", "promote", "delete", "export"},
                             t : Templates \cup {NoTemplate},
                             seen : SUBSET Templates, engs : SUBSET Engagements,
                             crossed : BOOLEAN]]
    OBVIOUS
  <2>5. \A p \in Processes : pc[p] # "seeding" => saw[p] = Unread
    OBVIOUS
  <2> QED
    BY <2>1, <2>2, <2>3, <2>4, <2>5 DEF TypeOK
<1>3. SeenInv /\ StayInv /\ UpInv /\ ExportsServed
  BY <1>1 DEF SeenInv, StayInv, UpInv, ExportsServed, DefaultStays
<1> QED
  BY <1>2, <1>3 DEF IInv

(* TypeOK, part by part. *)
RowTypes ==
    /\ tmpl \in [Templates -> {"unused", "plain", "default", "deleted"}]
    /\ ref \in [Engagements -> Templates \cup {NoTemplate}]
    /\ pc \in [Processes -> {"down", "seeding", "up"}]
    /\ answer \in [Requests -> {"none", "own", "default", "builtin", "error"}]
    /\ requests \in 0 .. MaxRequests /\ stops \in 0 .. MaxStops

FlagTypes == admin \in BOOLEAN /\ raced \in BOOLEAN /\ dropped \in BOOLEAN

Saw == [admin : BOOLEAN, default : BOOLEAN, crossed : BOOLEAN]

SawTypes ==
    /\ saw \in [Processes -> Saw]
    /\ \A p \in Processes : pc[p] # "seeding" => saw[p] = Unread

Req == [op : {"idle", "look", "promote", "delete", "export"}, t : Templates \cup {NoTemplate},
        seen : SUBSET Templates, engs : SUBSET Engagements, crossed : BOOLEAN]

ReqTypes == req \in [Requests -> Req]

LEMMA TypeParts == TypeOK <=> RowTypes /\ FlagTypes /\ SawTypes /\ ReqTypes
BY DEF TypeOK, RowTypes, FlagTypes, SawTypes, ReqTypes, Saw, Req

(* What open writers know is marked without changing anything else.        *)
LEMMA Crossing ==
    /\ ReqTypes => CrossRequests \in [Requests -> Req]
    /\ SawTypes => CrossSeeds \in [Processes -> Saw]
    /\ SawTypes => \A p \in Processes : pc[p] # "seeding" => CrossSeeds[p] = Unread
<1>1. ASSUME ReqTypes, NEW q \in Requests PROVE CrossRequests[q] \in Req
  <2>1. req[q] \in Req /\ (req[q].op # "idle") \in BOOLEAN
    BY <1>1 DEF ReqTypes
  <2>2. \A x \in Req, b \in BOOLEAN : [x EXCEPT !.crossed = b] \in Req
    BY DEF Req
  <2> QED
    BY <2>1, <2>2 DEF CrossRequests
<1>2. ASSUME SawTypes, NEW p \in Processes PROVE CrossSeeds[p] \in Saw
  <2>1. saw[p] \in Saw /\ (pc[p] = "seeding") \in BOOLEAN
    BY <1>2 DEF SawTypes
  <2>2. \A x \in Saw, b \in BOOLEAN : [x EXCEPT !.crossed = b] \in Saw
    BY DEF Saw
  <2> QED
    BY <2>1, <2>2 DEF CrossSeeds
<1>3. ASSUME SawTypes, NEW p \in Processes, pc[p] # "seeding"
      PROVE  CrossSeeds[p] = Unread
  <2>1. [Unread EXCEPT !.crossed = FALSE] = Unread
    <3>1. Unread \in Saw
      BY DEF Saw, Unread
    <3>2. \A x \in Saw : x.crossed = FALSE => [x EXCEPT !.crossed = FALSE] = x
      BY SMT DEF Saw
    <3>3. Unread.crossed = FALSE
      BY DEF Unread
    <3> QED
      BY <3>1, <3>2, <3>3
  <2>2. saw[p] = Unread /\ (pc[p] = "seeding") = FALSE
    BY <1>3 DEF SawTypes
  <2> QED
    BY <2>1, <2>2 DEF CrossSeeds
<1> QED
  BY <1>1, <1>2, <1>3 DEF CrossRequests, CrossSeeds

(* Every step keeps the types. *)
LEMMA NextTypeOK == TypeOK /\ [Next]_vars => TypeOK'
<1> SUFFICES ASSUME RowTypes, FlagTypes, SawTypes, ReqTypes, [Next]_vars
             PROVE  RowTypes' /\ FlagTypes' /\ SawTypes' /\ ReqTypes'
  <2>1. TypeOK' <=> RowTypes' /\ FlagTypes' /\ SawTypes' /\ ReqTypes'
    BY DEF TypeOK, RowTypes, FlagTypes, SawTypes, ReqTypes, Saw, Req
  <2> QED
    BY <2>1, TypeParts
<1> USE ReportTemplatesAssumption DEF booting, history, Idle, Unread
<1>1. ASSUME NEW p \in Processes, BootRead(p)
      PROVE RowTypes' /\ FlagTypes' /\ SawTypes' /\ ReqTypes'
  <2>1. RowTypes'
    BY <1>1, NewRow DEF RowTypes, BootRead
  <2>2. FlagTypes'
    BY <1>1 DEF FlagTypes, BootRead
  <2>3. SawTypes'
    BY <1>1 DEF SawTypes, Saw, RowTypes, FlagTypes, BootRead
  <2>4. ReqTypes'
    BY <1>1 DEF ReqTypes, BootRead
  <2> QED
    BY <2>1, <2>2, <2>3, <2>4
<1>2. ASSUME NEW p \in Processes, BootWrite(p)
      PROVE RowTypes' /\ FlagTypes' /\ SawTypes' /\ ReqTypes'
  <2>1. RowTypes'
    BY <1>2, NewRow DEF RowTypes, BootWrite
  <2>2. FlagTypes'
    BY <1>2 DEF FlagTypes, SawTypes, Saw, BootWrite
  <2>3. SawTypes'
    <3>1. Unread \in Saw
      BY DEF Saw
    <3>2. CrossSeeds \in [Processes -> Saw]
      BY Crossing
    <3>3. \A q \in Processes : pc[q] # "seeding" => CrossSeeds[q] = Unread
      BY Crossing
    <3>4. pc' = [pc EXCEPT ![p] = "up"]
          /\ (saw' = [CrossSeeds EXCEPT ![p] = Unread] \/ saw' = [saw EXCEPT ![p] = Unread])
      BY <1>2 DEF BootWrite
    <3> QED
      BY <3>1, <3>2, <3>3, <3>4 DEF SawTypes, RowTypes
  <2>4. ReqTypes'
    BY <1>2, Crossing DEF ReqTypes, BootWrite
  <2> QED
    BY <2>1, <2>2, <2>3, <2>4
<1>3. ASSUME NEW p \in Processes, BootConflict(p)
      PROVE RowTypes' /\ FlagTypes' /\ SawTypes' /\ ReqTypes'
  <2>1. RowTypes'
    BY <1>3, NewRow DEF RowTypes, BootConflict
  <2>2. FlagTypes'
    BY <1>3 DEF FlagTypes, BootConflict
  <2>3. SawTypes'
    BY <1>3 DEF SawTypes, Saw, RowTypes, FlagTypes, BootConflict
  <2>4. ReqTypes'
    BY <1>3 DEF ReqTypes, BootConflict
  <2> QED
    BY <2>1, <2>2, <2>3, <2>4
<1>4. ASSUME NEW p \in Processes, Stop(p)
      PROVE RowTypes' /\ FlagTypes' /\ SawTypes' /\ ReqTypes'
  <2>1. RowTypes'
    BY <1>4 DEF RowTypes, Stop
  <2>2. FlagTypes'
    BY <1>4 DEF FlagTypes, Stop
  <2>3. SawTypes'
    BY <1>4 DEF SawTypes, Saw, RowTypes, FlagTypes, Stop
  <2>4. ReqTypes'
    BY <1>4 DEF ReqTypes, Req, Stop
  <2> QED
    BY <2>1, <2>2, <2>3, <2>4
<1>5. ASSUME Create
      PROVE RowTypes' /\ FlagTypes' /\ SawTypes' /\ ReqTypes'
  <2>1. RowTypes'
    <3>1. Unused # {}
      <4>1. Cardinality(Processes) \in Nat /\ Cardinality({}) = 0
        BY FS_EmptySet, FS_CardinalityType
      <4>2. Cardinality(Unused) > Cardinality(Processes)
        BY <1>5 DEF Create
      <4> QED
        BY <4>1, <4>2
    <3> QED
      BY <1>5, <3>1, NewRow DEF RowTypes, Create
  <2>2. FlagTypes'
    BY <1>5 DEF FlagTypes, Create
  <2>3. SawTypes'
    BY <1>5 DEF SawTypes, RowTypes, FlagTypes, Create
  <2>4. ReqTypes'
    BY <1>5 DEF ReqTypes, Create
  <2> QED
    BY <2>1, <2>2, <2>3, <2>4
<1>6. ASSUME NEW e \in Engagements, NEW t \in Templates \cup {NoTemplate}, Choose(e, t)
      PROVE RowTypes' /\ FlagTypes' /\ SawTypes' /\ ReqTypes'
  <2>1. RowTypes'
    BY <1>6 DEF RowTypes, Choose
  <2>2. FlagTypes'
    BY <1>6 DEF FlagTypes, Choose
  <2>3. SawTypes'
    BY <1>6 DEF SawTypes, RowTypes, FlagTypes, Choose
  <2>4. ReqTypes'
    BY <1>6 DEF ReqTypes, Choose
  <2> QED
    BY <2>1, <2>2, <2>3, <2>4
<1>7. ASSUME NEW r \in Requests, NEW t \in Templates, DefaultRead(r, t)
      PROVE RowTypes' /\ FlagTypes' /\ SawTypes' /\ ReqTypes'
  <2>1. RowTypes'
    BY <1>7 DEF RowTypes, DefaultRead, Open, Defaults
  <2>2. FlagTypes'
    BY <1>7 DEF FlagTypes, DefaultRead, Open, Defaults
  <2>3. SawTypes'
    BY <1>7 DEF SawTypes, RowTypes, FlagTypes, DefaultRead, Open, Defaults
  <2>4. ReqTypes'
    BY <1>7 DEF ReqTypes, Req, DefaultRead, Open, Defaults
  <2> QED
    BY <2>1, <2>2, <2>3, <2>4
<1>8. ASSUME NEW r \in Requests, DefaultWrite(r)
      PROVE RowTypes' /\ FlagTypes' /\ SawTypes' /\ ReqTypes'
  <2>1. RowTypes'
    BY <1>8 DEF RowTypes, DefaultWrite
  <2>2. FlagTypes'
    BY <1>8 DEF FlagTypes, ReqTypes, Req, DefaultWrite
  <2>3. SawTypes'
    <3>1. CrossSeeds \in [Processes -> Saw]
      BY Crossing
    <3>2. \A q \in Processes : pc[q] # "seeding" => CrossSeeds[q] = Unread
      BY Crossing
    <3>3. pc' = pc /\ (saw' = CrossSeeds \/ saw' = saw)
      BY <1>8 DEF DefaultWrite
    <3> QED
      BY <3>1, <3>2, <3>3 DEF SawTypes
  <2>4. ReqTypes'
    <3>1. Idle \in Req
      BY DEF Req
    <3>2. CrossRequests \in [Requests -> Req]
      BY Crossing
    <3>3. req' = [CrossRequests EXCEPT ![r] = Idle] \/ req' = [req EXCEPT ![r] = Idle]
      BY <1>8 DEF DefaultWrite
    <3> QED
      BY <3>1, <3>2, <3>3 DEF ReqTypes
  <2> QED
    BY <2>1, <2>2, <2>3, <2>4
<1>9. ASSUME NEW r \in Requests, NEW t \in Templates, DeleteRead(r, t)
      PROVE RowTypes' /\ FlagTypes' /\ SawTypes' /\ ReqTypes'
  <2>1. RowTypes'
    BY <1>9 DEF RowTypes, DeleteRead, Open
  <2>2. FlagTypes'
    BY <1>9 DEF FlagTypes, DeleteRead, Open
  <2>3. SawTypes'
    BY <1>9 DEF SawTypes, RowTypes, FlagTypes, DeleteRead, Open
  <2>4. ReqTypes'
    BY <1>9 DEF ReqTypes, Req, DeleteRead, Open
  <2> QED
    BY <2>1, <2>2, <2>3, <2>4
<1>10. ASSUME NEW r \in Requests, DeleteWrite(r)
      PROVE RowTypes' /\ FlagTypes' /\ SawTypes' /\ ReqTypes'
  <2>1. RowTypes'
    BY <1>10 DEF RowTypes, DeleteWrite
  <2>2. FlagTypes'
    BY <1>10 DEF FlagTypes, DeleteWrite
  <2>3. SawTypes'
    BY <1>10 DEF SawTypes, RowTypes, FlagTypes, DeleteWrite
  <2>4. ReqTypes'
    BY <1>10 DEF ReqTypes, Req, DeleteWrite
  <2> QED
    BY <2>1, <2>2, <2>3, <2>4
<1>11. ASSUME NEW r \in Requests, NEW e \in Engagements, ExportRead(r, e)
      PROVE RowTypes' /\ FlagTypes' /\ SawTypes' /\ ReqTypes'
  <2>1. RowTypes'
    BY <1>11 DEF RowTypes, ExportRead, Open
  <2>2. FlagTypes'
    BY <1>11 DEF FlagTypes, ExportRead, Open
  <2>3. SawTypes'
    BY <1>11 DEF SawTypes, RowTypes, FlagTypes, ExportRead, Open
  <2>4. ReqTypes'
    BY <1>11 DEF ReqTypes, Req, RowTypes, ExportRead, Open
  <2> QED
    BY <2>1, <2>2, <2>3, <2>4
<1>12. ASSUME NEW r \in Requests, ExportChoose(r)
      PROVE RowTypes' /\ FlagTypes' /\ SawTypes' /\ ReqTypes'
  <2>1. RowTypes'
    BY <1>12 DEF RowTypes, ExportChoose, Close
  <2>2. FlagTypes'
    BY <1>12 DEF FlagTypes, ExportChoose, Close
  <2>3. SawTypes'
    BY <1>12 DEF SawTypes, RowTypes, FlagTypes, ExportChoose, Close
  <2>4. ReqTypes'
    BY <1>12 DEF ReqTypes, Req, ExportChoose, Close
  <2> QED
    BY <2>1, <2>2, <2>3, <2>4
<1>14. ASSUME NEW r \in Requests, DefaultsRead(r)
      PROVE RowTypes' /\ FlagTypes' /\ SawTypes' /\ ReqTypes'
  <2>1. RowTypes' /\ FlagTypes' /\ SawTypes'
    BY <1>14 DEF RowTypes, FlagTypes, SawTypes, DefaultsRead
  <2>2. ReqTypes'
    BY <1>14 DEF ReqTypes, Req, DefaultsRead, Defaults
  <2> QED
    BY <2>1, <2>2
<1>13. CASE UNCHANGED vars
  BY <1>13 DEF vars, RowTypes, FlagTypes, SawTypes, ReqTypes
<1> QED
  BY <1>1, <1>2, <1>3, <1>4, <1>5, <1>6, <1>7, <1>8, <1>9, <1>10, <1>11,
     <1>12, <1>13, <1>14
  DEF Next, Boot, Finish
-----------------------------------------------------------------------------
(* What each writer of the table does to the set of defaults.              *)
LEMMA Seeding ==
    ASSUME TypeOK, NEW p \in Processes, BootWrite(p), Seeds(p)
    PROVE  /\ NextId \in Templates
           /\ Defaults' = Defaults \cup {NextId}
           /\ \A t \in Templates : Exists(t) => Exists(t)'
BY NewRow DEF TypeOK, BootWrite, Defaults, Exists

LEMMA Promoting ==
    ASSUME TypeOK, NEW r \in Requests, DefaultWrite(r),
           \A t \in Cleared(r) \cup Promoted(r) : Exists(t)
    PROVE  /\ Defaults' = (Defaults \ Cleared(r)) \cup (Promoted(r) \cap Templates)
           /\ \A t \in Templates : Exists(t) => Exists(t)'
<1>1. tmpl' = [t \in Templates |-> CASE t \in Cleared(r) -> "plain"
                                     [] t \in Promoted(r) -> "default"
                                     [] OTHER -> tmpl[t]]
  BY DEF DefaultWrite
<1>2. Cleared(r) \cap Promoted(r) = {}
  BY DEF Cleared, Promoted
<1>3. \A t \in Templates :
        tmpl'[t] = IF t \in Cleared(r) THEN "plain"
                   ELSE IF t \in Promoted(r) THEN "default" ELSE tmpl[t]
  BY <1>1, <1>2
<1>4. Defaults' = (Defaults \ Cleared(r)) \cup (Promoted(r) \cap Templates)
  BY <1>2, <1>3 DEF Defaults
<1>5. \A t \in Templates : Exists(t) => Exists(t)'
  BY <1>3 DEF Exists
<1> QED
  BY <1>4, <1>5

LEMMA Deleting ==
    ASSUME TypeOK, NEW r \in Requests, DeleteWrite(r)
    PROVE  /\ Defaults' = Defaults \ {req[r].t}
           /\ \A t \in Templates : Exists(t) /\ t # req[r].t => Exists(t)'
BY DEF TypeOK, DeleteWrite, Defaults, Exists

LEMMA Creating ==
    ASSUME TypeOK, Create
    PROVE  /\ Defaults' = Defaults
           /\ \A t \in Templates : Exists(t) => Exists(t)'
<1>1. Cardinality(Processes) \in Nat /\ Cardinality({}) = 0
  BY FS_EmptySet, FS_CardinalityType, ReportTemplatesAssumption
<1>2. Cardinality(Unused) > Cardinality(Processes)
  BY DEF Create
<1>3. NextId \in Templates /\ tmpl[NextId] = "unused"
  BY <1>1, <1>2, NewRow
<1> QED
  BY <1>3 DEF TypeOK, Create, Defaults, Exists

(* Every step keeps the rest of the invariant. *)
LEMMA NextRest == IInv /\ [Next]_vars => SeenInv' /\ StayInv' /\ UpInv' /\ ExportsServed'
<1> SUFFICES ASSUME TypeOK, SeenInv, StayInv, UpInv, ExportsServed, [Next]_vars
             PROVE  SeenInv' /\ StayInv' /\ UpInv' /\ ExportsServed'
  BY DEF IInv
<1>0. RowTypes /\ FlagTypes /\ SawTypes /\ ReqTypes
  BY TypeParts
<1> USE DEF booting, history, Idle, Unread, RowTypes, FlagTypes, SawTypes, ReqTypes, Saw, Req
<1>1. ASSUME NEW p \in Processes, BootRead(p)
     PROVE  SeenInv' /\ StayInv' /\ UpInv' /\ ExportsServed'
  <2>1. Defaults' = Defaults /\ tmpl' = tmpl
    BY <1>1 DEF BootRead, Defaults
  <2>2. SeenInv'
    BY <1>0, <1>1, <2>1 DEF SeenInv, BootRead
  <2>3. StayInv'
    BY <1>0, <1>1, <2>1 DEF StayInv, DefaultStays, BootRead
  <2>4. UpInv'
    BY <1>1 DEF UpInv, Serving, BootRead
  <2>5. ExportsServed'
    BY <1>1, <2>1 DEF ExportsServed, Exists, BootRead
  <2> QED
    BY <2>2, <2>3, <2>4, <2>5
<1>3. ASSUME NEW p \in Processes, BootConflict(p)
     PROVE  SeenInv' /\ StayInv' /\ UpInv' /\ ExportsServed'
  <2>1. Defaults' = Defaults /\ tmpl' = tmpl
    BY <1>3 DEF BootConflict, Defaults
  <2>2. SeenInv'
    BY <1>0, <1>3, <2>1 DEF SeenInv, BootConflict
  <2>3. StayInv'
    BY <1>0, <1>3, <2>1 DEF StayInv, DefaultStays, BootConflict
  <2>4. UpInv'
    BY <1>3 DEF UpInv, Serving, BootConflict
  <2>5. ExportsServed'
    BY <1>3, <2>1 DEF ExportsServed, Exists, BootConflict
  <2> QED
    BY <2>2, <2>3, <2>4, <2>5
<1>4. ASSUME NEW p \in Processes, Stop(p)
     PROVE  SeenInv' /\ StayInv' /\ UpInv' /\ ExportsServed'
  <2>1. Defaults' = Defaults /\ tmpl' = tmpl
    BY <1>4 DEF Stop, Defaults
  <2>2. SeenInv'
    BY <1>0, <1>4, <2>1 DEF SeenInv, Stop
  <2>3. StayInv'
    BY <1>0, <1>4, <2>1 DEF StayInv, DefaultStays, Stop
  <2>4. UpInv'
    BY <1>4 DEF UpInv, Serving, Stop
  <2>5. ExportsServed'
    BY <1>4, <2>1 DEF ExportsServed, Exists, Stop
  <2> QED
    BY <2>2, <2>3, <2>4, <2>5
<1>6. ASSUME NEW e \in Engagements, NEW t \in Templates \cup {NoTemplate}, Choose(e, t)
     PROVE  SeenInv' /\ StayInv' /\ UpInv' /\ ExportsServed'
  <2>1. Defaults' = Defaults /\ tmpl' = tmpl
    BY <1>6 DEF Choose, Defaults
  <2>2. SeenInv'
    BY <1>0, <1>6, <2>1 DEF SeenInv, Choose
  <2>3. StayInv'
    BY <1>0, <1>6, <2>1 DEF StayInv, DefaultStays, Choose
  <2>4. UpInv'
    BY <1>6 DEF UpInv, Serving, Choose
  <2>5. ExportsServed'
    BY <1>6, <2>1 DEF ExportsServed, Exists, Choose
  <2> QED
    BY <2>2, <2>3, <2>4, <2>5
<1>7. ASSUME NEW r \in Requests, NEW t \in Templates, DefaultRead(r, t)
     PROVE  SeenInv' /\ StayInv' /\ UpInv' /\ ExportsServed'
  <2>1. Defaults' = Defaults /\ tmpl' = tmpl
    BY <1>7 DEF DefaultRead, Open, Defaults
  <2>2. SeenInv'
    BY <1>0, <1>7, <2>1 DEF SeenInv, DefaultRead, Open
  <2>3. StayInv'
    BY <1>0, <1>7, <2>1 DEF StayInv, DefaultStays, DefaultRead, Open
  <2>4. UpInv'
    BY <1>7 DEF UpInv, Serving, DefaultRead, Open
  <2>5. ExportsServed'
    BY <1>7, <2>1 DEF ExportsServed, Exists, DefaultRead, Open
  <2> QED
    BY <2>2, <2>3, <2>4, <2>5
<1>9. ASSUME NEW r \in Requests, NEW t \in Templates, DeleteRead(r, t)
     PROVE  SeenInv' /\ StayInv' /\ UpInv' /\ ExportsServed'
  <2>1. Defaults' = Defaults /\ tmpl' = tmpl
    BY <1>9 DEF DeleteRead, Open, Defaults
  <2>2. SeenInv'
    BY <1>0, <1>9, <2>1 DEF SeenInv, DeleteRead, Open
  <2>3. StayInv'
    <3>1. /\ t \notin Defaults /\ UNCHANGED <<admin, pc, saw, raced, dropped>>
          /\ req' = [req EXCEPT ![r] = [op |-> "delete", t |-> t, seen |-> {},
                       engs |-> {e \in Engagements : ref[e] = t}, crossed |-> FALSE]]
      BY <1>9 DEF DeleteRead, Open, Defaults
    <3>2. req'[r].op = "delete" /\ req'[r].t = t
      BY <1>0, <3>1
    <3>3. \A q \in Requests : q # r => req'[q] = req[q]
      BY <1>0, <3>1
    <3> QED
      BY <2>1, <3>1, <3>2, <3>3 DEF StayInv, DefaultStays
  <2>4. UpInv'
    BY <1>9 DEF UpInv, Serving, DeleteRead, Open
  <2>5. ExportsServed'
    BY <1>9, <2>1 DEF ExportsServed, Exists, DeleteRead, Open
  <2> QED
    BY <2>2, <2>3, <2>4, <2>5
<1>11. ASSUME NEW r \in Requests, NEW e \in Engagements, ExportRead(r, e)
     PROVE  SeenInv' /\ StayInv' /\ UpInv' /\ ExportsServed'
  <2>1. Defaults' = Defaults /\ tmpl' = tmpl
    BY <1>11 DEF ExportRead, Open, Defaults
  <2>2. SeenInv'
    BY <1>0, <1>11, <2>1 DEF SeenInv, ExportRead, Open
  <2>3. StayInv'
    BY <1>0, <1>11, <2>1 DEF StayInv, DefaultStays, ExportRead, Open
  <2>4. UpInv'
    BY <1>11 DEF UpInv, Serving, ExportRead, Open
  <2>5. ExportsServed'
    BY <1>11, <2>1 DEF ExportsServed, Exists, ExportRead, Open
  <2> QED
    BY <2>2, <2>3, <2>4, <2>5
<1>12. ASSUME NEW r \in Requests, ExportChoose(r)
     PROVE  SeenInv' /\ StayInv' /\ UpInv' /\ ExportsServed'
  <2>1. Defaults' = Defaults /\ tmpl' = tmpl
    BY <1>12 DEF ExportChoose, Close, Defaults
  <2>2. SeenInv'
    BY <1>0, <1>12, <2>1 DEF SeenInv, ExportChoose, Close
  <2>3. StayInv'
    BY <1>0, <1>12, <2>1 DEF StayInv, DefaultStays, ExportChoose, Close
  <2>4. UpInv'
    BY <1>12 DEF UpInv, Serving, ExportChoose, Close
  <2>5. ExportsServed'
    <3>1. ref' = ref /\ raced' = raced /\ dropped' = dropped /\ req[r].op # "idle"
      BY <1>12 DEF ExportChoose, Close
    <3>2. \A q \in Requests : q # r => answer'[q] = answer[q]
      BY <1>0, <1>12 DEF ExportChoose
    <3>3. answer'[r] = CASE Own(r) -> "own"
                         [] ~Own(r) /\ Defaults = {} -> "builtin"
                         [] ~Own(r) /\ Cardinality(Defaults) = 1 -> "default"
                         [] OTHER -> "error"
      BY <1>0, <1>12 DEF ExportChoose
    <3>4. answer'[r] = "builtin" => raced \/ dropped
      <4>1. answer'[r] = "builtin" => Defaults = {}
        BY <3>3
      <4> QED
        BY <3>1, <4>1 DEF StayInv, DefaultStays, UpInv
    <3>5. answer'[r] = "error" => raced
      <4>1. answer'[r] = "error" => Defaults # {} /\ Cardinality(Defaults) # 1
        BY <3>3
      <4>2. ASSUME ~raced, NEW u \in Defaults PROVE Cardinality(Defaults) = 1
        <5>1. Defaults = {u}
          BY <4>2 DEF SeenInv
        <5> QED
          BY <5>1, FS_Singleton
      <4> QED
        BY <4>1, <4>2
    <3> QED
      BY <2>1, <3>1, <3>2, <3>4, <3>5 DEF ExportsServed, Exists
  <2> QED
    BY <2>2, <2>3, <2>4, <2>5
<1>5. ASSUME Create
     PROVE  SeenInv' /\ StayInv' /\ UpInv' /\ ExportsServed'
  <2>1. Defaults' = Defaults /\ \A t \in Templates : Exists(t) => Exists(t)'
    BY <1>5, Creating
  <2>2. SeenInv'
    BY <1>5, <2>1 DEF SeenInv, Create
  <2>3. StayInv'
    BY <1>5, <2>1 DEF StayInv, DefaultStays, Create
  <2>4. UpInv'
    BY <1>5 DEF UpInv, Serving, Create
  <2>5. ExportsServed'
    BY <1>0, <1>5, <2>1 DEF ExportsServed, Create
  <2> QED
    BY <2>2, <2>3, <2>4, <2>5
<1>2. ASSUME NEW p \in Processes, BootWrite(p)
     PROVE  SeenInv' /\ StayInv' /\ UpInv' /\ ExportsServed'
  <2>1. CASE ~Seeds(p)
    <3>1. tmpl' = tmpl /\ Defaults' = Defaults /\ req' = req /\ raced' = raced
      BY <1>2, <2>1 DEF BootWrite, Defaults
    <3>2. pc[p] = "seeding" /\ saw[p].default /\ saw' = [saw EXCEPT ![p] = Unread]
      BY <1>2, <2>1 DEF BootWrite, Seeds
    <3>3. /\ pc' = [pc EXCEPT ![p] = "up"] /\ admin' = TRUE
          /\ UNCHANGED <<ref, answer, dropped>>
      BY <1>2 DEF BootWrite
    <3>4. SeenInv'
      BY <1>0, <3>1, <3>2, <3>3 DEF SeenInv
    <3>5. StayInv'
      BY <1>0, <3>1, <3>2, <3>3 DEF StayInv, DefaultStays
    <3>6. UpInv' /\ ExportsServed'
      BY <1>0, <3>1, <3>3 DEF UpInv, ExportsServed, Exists
    <3> QED
      BY <3>4, <3>5, <3>6
  <2>2. CASE Seeds(p)
    <3>1. /\ NextId \in Templates
          /\ Defaults' = Defaults \cup {NextId}
          /\ \A t \in Templates : Exists(t) => Exists(t)'
      BY <1>2, <2>2, Seeding
    <3>2. /\ pc[p] = "seeding" /\ ~saw[p].default
          /\ raced' = (raced \/ saw[p].crossed)
          /\ req' = CrossRequests /\ saw' = [CrossSeeds EXCEPT ![p] = Unread]
          /\ pc' = [pc EXCEPT ![p] = "up"] /\ admin' = TRUE
          /\ UNCHANGED <<ref, answer, dropped>>
      BY <1>2, <2>2 DEF BootWrite, Seeds
    <3>3. /\ \A q \in Requests : req'[q].op \in {"look", "promote"} => req'[q].crossed
          /\ \A q \in Requests : req'[q].op = "delete" => req'[q].crossed
      BY <1>0, <3>2 DEF CrossRequests
    <3>11. admin' /\ \A q \in Requests : req'[q].op \in {"look", "promote"} => req'[q].t \in Templates
      BY <1>0, <3>2 DEF CrossRequests, UpInv
    <3>4. \A q \in Processes : pc'[q] = "seeding" => saw'[q].crossed
      BY <1>0, <3>2 DEF CrossSeeds
    <3>5. SeenInv'
      <4>1. ~raced' => \A t, u \in Defaults' : t = u
        BY <3>1, <3>2 DEF SeenInv
      <4> QED
        BY <3>3, <3>4, <4>1 DEF SeenInv
    <3>6. StayInv'
      <4>1. \A q \in Processes : pc'[q] = "seeding" => Defaults' # {}
        BY <3>1
      <4> QED
        BY <3>1, <3>3, <4>1 DEF StayInv, DefaultStays
    <3>7. UpInv'
      BY <3>11 DEF UpInv
    <3>8. ExportsServed'
      BY <1>0, <3>1, <3>2 DEF ExportsServed
    <3> QED
      BY <3>5, <3>6, <3>7, <3>8
  <2> QED
    BY <2>1, <2>2
<1>8. ASSUME NEW r \in Requests, DefaultWrite(r)
     PROVE  SeenInv' /\ StayInv' /\ UpInv' /\ ExportsServed'
  <2>0. /\ req[r].op = "promote" /\ req[r].t \in Templates
        /\ UNCHANGED <<ref, admin, pc, answer, dropped>>
    BY <1>8 DEF DefaultWrite, UpInv
  <2>1. CASE ~ \A t \in Cleared(r) \cup Promoted(r) : Exists(t)
    <3>1. /\ tmpl' = tmpl /\ Defaults' = Defaults /\ raced' = raced /\ saw' = saw
          /\ req' = [req EXCEPT ![r] = Idle]
      BY <1>8, <2>1 DEF DefaultWrite, Defaults
    <3>2. SeenInv' /\ StayInv'
      BY <1>0, <2>0, <3>1 DEF SeenInv, StayInv, DefaultStays
    <3>3. UpInv' /\ ExportsServed'
      BY <1>0, <2>0, <3>1 DEF UpInv, ExportsServed, Exists
    <3> QED
      BY <3>2, <3>3
  <2>2. CASE \A t \in Cleared(r) \cup Promoted(r) : Exists(t)
    <3> DEFINE d == req[r].t
    <3>1. /\ Defaults' = (Defaults \ (req[r].seen \ {d})) \cup ({d} \ req[r].seen)
          /\ \A t \in Templates : Exists(t) => Exists(t)'
      BY <1>8, <2>0, <2>2, Promoting DEF Cleared, Promoted
    <3>2. /\ raced' = (raced \/ req[r].crossed) /\ saw' = CrossSeeds
          /\ req' = [CrossRequests EXCEPT ![r] = Idle]
      BY <1>8, <2>2 DEF DefaultWrite
    <3>3. /\ \A q \in Requests : req'[q].op \in {"look", "promote"} => req'[q].crossed
          /\ \A q \in Requests : req'[q].op = "delete" => req'[q].crossed
      BY <1>0, <3>2 DEF CrossRequests
    <3>11. admin' /\ \A q \in Requests : req'[q].op \in {"look", "promote"} => req'[q].t \in Templates
      <4>1. admin'
        BY <2>0 DEF UpInv
      <4>2. \A q \in Requests : CrossRequests[q].op = req[q].op /\ CrossRequests[q].t = req[q].t
        BY <1>0 DEF CrossRequests
      <4>3. \A q \in Requests : q # r => req'[q] = CrossRequests[q]
        BY <3>2 DEF CrossRequests
      <4>4. req'[r].op = "idle"
        BY <3>2 DEF CrossRequests
      <4>5. ASSUME NEW q \in Requests, req'[q].op \in {"look", "promote"} PROVE req'[q].t \in Templates
        BY <4>2, <4>3, <4>4, <4>5 DEF UpInv
      <4> QED
        BY <4>1, <4>5
    <3>4. \A q \in Processes : pc'[q] = "seeding" => saw'[q].crossed
      BY <1>0, <2>0, <3>2 DEF CrossSeeds
    <3>5. ~raced' => Defaults' \subseteq {d}
      BY <2>0, <3>1, <3>2 DEF SeenInv
    <3>6. ~raced' /\ ~dropped' => d \in Defaults'
      BY <2>0, <3>1, <3>2 DEF StayInv
    <3>7. SeenInv'
      <4>1. ~raced' => \A t, u \in Defaults' : t = u
        BY <3>5
      <4> QED
        BY <3>3, <3>4, <4>1 DEF SeenInv
    <3>8. StayInv'
      BY <3>3, <3>6 DEF StayInv, DefaultStays
    <3>9. UpInv'
      BY <3>11 DEF UpInv
    <3>10. ExportsServed'
      BY <1>0, <2>0, <3>1, <3>2 DEF ExportsServed
    <3> QED
      BY <3>7, <3>8, <3>9, <3>10
  <2> QED
    BY <2>1, <2>2
<1>10. ASSUME NEW r \in Requests, DeleteWrite(r)
     PROVE  SeenInv' /\ StayInv' /\ UpInv' /\ ExportsServed'
  <2> DEFINE d == req[r].t
  <2>1. /\ Defaults' = Defaults \ {d}
        /\ \A t \in Templates : Exists(t) /\ t # d => Exists(t)'
    BY <1>10, Deleting
  <2>2. /\ req[r].op = "delete" /\ req' = [req EXCEPT ![r] = Idle]
        /\ dropped' = (dropped \/ (d \in Defaults /\ req[r].crossed))
        /\ UNCHANGED <<admin, pc, saw, answer, raced>>
    BY <1>10 DEF DeleteWrite
  <2>3. ~dropped' => ~dropped /\ Defaults' = Defaults
    BY <2>1, <2>2 DEF StayInv
  <2>4. SeenInv'
    BY <1>0, <2>1, <2>2 DEF SeenInv
  <2>5. StayInv'
    <3>1. \A q \in Requests : q # r => req'[q] = req[q]
      BY <1>0, <2>2
    <3>2. req'[r].op = "idle"
      BY <1>0, <2>2
    <3> QED
      BY <2>1, <2>2, <2>3, <3>1, <3>2 DEF StayInv, DefaultStays
  <2>6. UpInv'
    BY <1>0, <2>2 DEF UpInv
  <2>7. ExportsServed'
    <3>1. \A e \in Engagements : ref'[e] # NoTemplate => ref'[e] = ref[e] /\ ref[e] # d
      BY <1>10 DEF DeleteWrite
    <3> QED
      BY <1>0, <2>1, <2>2, <3>1 DEF ExportsServed
  <2> QED
    BY <2>4, <2>5, <2>6, <2>7
<1>14. ASSUME NEW r \in Requests, DefaultsRead(r)
     PROVE  SeenInv' /\ StayInv' /\ UpInv' /\ ExportsServed'
  <2>1. Defaults' = Defaults /\ tmpl' = tmpl
    BY <1>14 DEF DefaultsRead, Defaults
  <2>2. /\ req[r].op = "look" /\ req'[r].op = "promote"
        /\ req'[r].t = req[r].t /\ req'[r].crossed = req[r].crossed
        /\ req'[r].seen = req[r].seen \cup (Defaults \ {req[r].t})
    BY <1>0, <1>14 DEF DefaultsRead
  <2>3. /\ \A q \in Requests : q # r => req'[q] = req[q]
        /\ UNCHANGED <<ref, admin, pc, saw, answer, raced, dropped>>
    BY <1>0, <1>14 DEF DefaultsRead
  <2>4. SeenInv'
    BY <2>1, <2>2, <2>3 DEF SeenInv
  <2>5. StayInv'
    BY <2>1, <2>2, <2>3 DEF StayInv, DefaultStays
  <2>6. UpInv' /\ ExportsServed'
    BY <2>1, <2>2, <2>3 DEF UpInv, ExportsServed, Exists
  <2> QED
    BY <2>4, <2>5, <2>6
<1>13. CASE UNCHANGED vars
  BY <1>13 DEF vars, SeenInv, StayInv, UpInv, ExportsServed, DefaultStays, Defaults, Exists
<1> QED
  BY <1>1, <1>2, <1>3, <1>4, <1>5, <1>6, <1>7, <1>8, <1>9, <1>10, <1>11,
     <1>12, <1>13, <1>14
  DEF Next, Boot, Finish

LEMMA Inductive == Spec => []IInv
<1>1. IInv /\ [Next]_vars => IInv'
  BY NextTypeOK, NextRest DEF IInv
<1> QED
  BY InitIInv, <1>1, PTL DEF Spec
-----------------------------------------------------------------------------
(* Types, for any processes, requests, engagements and row ids.            *)
THEOREM TypeCorrect == Spec => []TypeOK
<1>1. IInv => TypeOK
  BY DEF IInv
<1> QED
  BY <1>1, Inductive, PTL

(* Two rows are default only after two writers of the flag overlapped      *)
(* (set_default_template, lifespan), however many processes and requests.  *)
THEOREM AtMostOneDefault == Spec => []OneDefault
<1>1. IInv => OneDefault
  <2>1. SUFFICES ASSUME SeenInv, ~raced
                PROVE  Cardinality(Defaults) \in Nat /\ Cardinality(Defaults) <= 1
    <3>1. IInv => SeenInv /\ raced \in BOOLEAN
      BY DEF IInv, TypeOK
    <3>2. ASSUME Cardinality(Defaults) \in Nat, Cardinality(Defaults) <= 1
          PROVE  ~(Cardinality(Defaults) > 1)
      BY <3>2
    <3> QED
      BY <2>1, <3>1, <3>2 DEF OneDefault
  <2>2. CASE Defaults = {}
    BY <2>2, FS_EmptySet
  <2>3. ASSUME NEW t \in Defaults PROVE Cardinality(Defaults) \in Nat /\ Cardinality(Defaults) <= 1
    <3>1. Defaults = {t}
      BY <2>1, <2>3 DEF SeenInv
    <3> QED
      BY <3>1, FS_Singleton
  <2> QED
    BY <2>2, <2>3
<1> QED
  BY <1>1, Inductive, PTL

(* Once the API has started a default exists, unless a delete or a         *)
(* promotion overlapped a promotion (delete_report_template refuses the    *)
(* template that is default).                                              *)
THEOREM DefaultRemains == Spec => []DefaultStays
<1>1. IInv => DefaultStays
  BY DEF IInv, StayInv
<1> QED
  BY <1>1, Inductive, PTL

(* No engagement keeps a deleted template, and exports find one.           *)
THEOREM ExportsFindTemplate == Spec => []ExportsServed
<1>1. IInv => ExportsServed
  BY DEF IInv
<1> QED
  BY <1>1, Inductive, PTL
=============================================================================
