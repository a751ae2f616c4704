-------------------------- MODULE ReportTemplates ---------------------------
(***************************************************************************)
(* Report templates: administrators create, delete and promote them,       *)
(* engagements choose one, API processes seed a default when they start,   *)
(* and report exports pick one.  Each request reads, and writes what it    *)
(* decided from the read, in one READ COMMITTED transaction; nothing in    *)
(* the schema keeps is_default to one row.                                 *)
(*                                                                         *)
(* An operator named X_Y is X with a mistake in it: no action uses it.     *)
(***************************************************************************)
EXTENDS Integers, FiniteSets

CONSTANTS
    Templates,    \* row ids of report_templates
    Engagements,
    Requests,     \* requests open at a time
    Processes,    \* uvicorn worker processes
    MaxRequests,  \* bound: requests in all
    MaxStops,     \* bound: processes stopped while up
    NoTemplate

ASSUME ReportTemplatesAssumption ==
    /\ MaxRequests \in Nat /\ MaxStops \in Nat
    /\ NoTemplate \notin Templates
    /\ IsFiniteSet(Processes)

VARIABLES
    tmpl,     \* of each row id: unused, plain, default, deleted
    ref,      \* report_template_id of each engagement
    admin,    \* the row of the built-in administrator exists
    pc,       \* of each process: down, seeding, up
    saw,      \* what a seeding process read
    req,      \* open requests: what they do and what they read
    answer,   \* what the last export of a request slot used
    requests, stops,
    raced,    \* a default was set over one set since the read (history)
    dropped   \* a row promoted since the read was deleted (history)

booting  == <<pc, saw, stops>>
history  == <<raced, dropped>>
vars == <<tmpl, ref, admin, booting, req, answer, requests, history>>

Exists(t) == tmpl[t] \in {"plain", "default"}
Unused    == {t \in Templates : tmpl[t] = "unused"}
NextId    == CHOOSE t \in Unused : TRUE
Defaults  == {t \in Templates : tmpl[t] = "default"}

Idle   == [op |-> "idle", t |-> NoTemplate, seen |-> {}, engs |-> {}, crossed |-> FALSE]
Unread == [admin |-> FALSE, default |-> FALSE, crossed |-> FALSE]

Init ==
    /\ tmpl = [t \in Templates |-> "unused"]
    /\ ref = [e \in Engagements |-> NoTemplate]
    /\ admin = FALSE
    /\ pc = [p \in Processes |-> "down"]
    /\ saw = [p \in Processes |-> Unread]
    /\ req = [r \in Requests |-> Idle]
    /\ answer = [r \in Requests |-> "none"]
    /\ requests = 0 /\ stops = 0
    /\ raced = FALSE /\ dropped = FALSE

(* A default was committed: open readers of the defaults are out of date.  *)
CrossRequests == [q \in Requests |-> [req[q] EXCEPT !.crossed = req[q].op # "idle"]]
CrossSeeds == [p \in Processes |-> [saw[p] EXCEPT !.crossed = pc[p] = "seeding"]]
-----------------------------------------------------------------------------
(* Startup (lifespan): the administrator and the default template are      *)
(* looked up and added in one transaction.                                 *)

(* Several defaults make scalar_one_or_none raise: the process exits, and  *)
(* its supervisor starts another.                                          *)
BootRead(p) ==
    /\ pc[p] = "down"
    /\ Cardinality(Defaults) <= 1
    /\ pc' = [pc EXCEPT ![p] = "seeding"]
    /\ saw' = [saw EXCEPT ![p] =
         [admin |-> admin, default |-> Defaults # {}, crossed |-> FALSE]]
    /\ UNCHANGED <<tmpl, ref, admin, stops, req, answer, requests, history>>

Seeds(p) == ~saw[p].default

BootWrite(p) ==
    /\ pc[p] = "seeding"
    /\ saw[p].admin \/ ~admin
    /\ admin' = TRUE
    /\ IF Seeds(p)
       THEN /\ Unused # {}
            /\ tmpl' = [tmpl EXCEPT ![NextId] = "default"]
            /\ raced' = (raced \/ saw[p].crossed)
            /\ req' = CrossRequests
            /\ saw' = [CrossSeeds EXCEPT ![p] = Unread]
       ELSE /\ saw' = [saw EXCEPT ![p] = Unread]
            /\ UNCHANGED <<tmpl, raced, req>>
    /\ pc' = [pc EXCEPT ![p] = "up"]
    /\ UNCHANGED <<ref, stops, answer, requests, dropped>>

BootConflict_Ignored(p) ==
    /\ pc[p] = "seeding"
    /\ ~saw[p].admin /\ admin
    /\ UNCHANGED vars

(* Another process inserted the administrator first: the unique username   *)
(* fails this transaction, its template included.                          *)
BootConflict(p) ==
    /\ pc[p] = "seeding"
    /\ ~saw[p].admin /\ admin
    /\ pc' = [pc EXCEPT ![p] = "down"]
    /\ saw' = [saw EXCEPT ![p] = Unread]
    /\ UNCHANGED <<tmpl, ref, admin, stops, req, answer, requests, history>>

(* A stopped process takes its open requests with it, rolled back.         *)
Stop(p) ==
    /\ pc[p] # "down" /\ stops < MaxStops
    /\ \E its \in SUBSET Requests :
         req' = [r \in Requests |-> IF r \in its THEN Idle ELSE req[r]]
    /\ stops' = stops + 1
    /\ pc' = [pc EXCEPT ![p] = "down"]
    /\ saw' = [saw EXCEPT ![p] = Unread]
    /\ UNCHANGED <<tmpl, ref, admin, answer, requests, history>>
-----------------------------------------------------------------------------
Serving == \E p \in Processes : pc[p] = "up"

Open(r, op, t, seen, engs) ==
    /\ Serving /\ req[r].op = "idle" /\ requests < MaxRequests
    /\ requests' = requests + 1
    /\ req' = [req EXCEPT ![r] = [op |-> op, t |-> t, seen |-> seen,
                                  engs |-> engs, crossed |-> FALSE]]
    /\ UNCHANGED <<tmpl, ref, admin, booting, history>>

Close(r) ==
    /\ req' = [req EXCEPT ![r] = Idle]
    /\ UNCHANGED <<ref, admin, booting, requests>>

(* create_report_template: never a default.  Bound: enough row ids remain  *)
(* for the processes' seeds.                                               *)
Create ==
    /\ Serving /\ requests < MaxRequests
    /\ Cardinality(Unused) > Cardinality(Processes)
    /\ tmpl' = [tmpl EXCEPT ![NextId] = "plain"]
    /\ requests' = requests + 1
    /\ UNCHANGED <<ref, admin, booting, req, answer, history>>

(* update_engagement: a choice that does not exist fails its foreign key.  *)
Choose(e, t) ==
    /\ Serving /\ ref[e] # t /\ requests < MaxRequests
    /\ t # NoTemplate => Exists(t)
    /\ ref' = [ref EXCEPT ![e] = t]
    /\ requests' = requests + 1
    /\ UNCHANGED <<tmpl, admin, booting, req, answer, history>>

(* set_default_template reads the row and then the defaults.  A row both   *)
(* SELECTs return keeps the flag the first one read.                       *)
DefaultRead(r, t) ==
    /\ Exists(t)
    /\ Open(r, "look", t, Defaults \cap {t}, {})
    /\ UNCHANGED answer

DefaultsRead(r) ==
    /\ req[r].op = "look"
    /\ req' = [req EXCEPT ![r].op = "promote",
                          ![r].seen = @ \cup (Defaults \ {req[r].t})]
    /\ UNCHANGED <<tmpl, ref, admin, booting, answer, requests, history>>

Cleared_Nothing(r) == {}
Cleared(r) == req[r].seen \ {req[r].t}

(* The rows whose attribute changed are updated, each by its key: a row    *)
(* deleted meanwhile fails the request.                                    *)
Promoted(r) == {req[r].t} \ req[r].seen

DefaultWrite(r) ==
    /\ req[r].op = "promote"
    /\ IF \A t \in Cleared(r) \cup Promoted(r) : Exists(t)
       THEN /\ tmpl' = [t \in Templates |-> CASE t \in Cleared(r) -> "plain"
                                              [] t \in Promoted(r) -> "default"
                                              [] OTHER -> tmpl[t]]
            /\ raced' = (raced \/ req[r].crossed)
            /\ saw' = CrossSeeds
            /\ req' = [CrossRequests EXCEPT ![r] = Idle]
       ELSE /\ req' = [req EXCEPT ![r] = Idle]
            /\ UNCHANGED <<tmpl, raced, saw>>
    /\ UNCHANGED <<ref, admin, pc, stops, answer, requests, dropped>>

DeleteRead_AnyTemplate(r, t) ==
    /\ Exists(t)
    /\ Open(r, "delete", t, {}, {e \in Engagements : ref[e] = t})
    /\ UNCHANGED answer

DeleteRead(r, t) ==
    /\ Exists(t) /\ tmpl[t] # "default"
    /\ Open(r, "delete", t, {}, {e \in Engagements : ref[e] = t})
    /\ UNCHANGED answer

(* The engagements read are reset by key, whatever they point at now; the  *)
(* foreign key resets the others.  A row that is gone is deleted again     *)
(* with a warning.                                                         *)
DeleteWrite(r) ==
    /\ req[r].op = "delete"
    /\ LET t == req[r].t IN
       /\ ref' = [e \in Engagements |->
            IF e \in req[r].engs \/ ref[e] = t THEN NoTemplate ELSE ref[e]]
       /\ dropped' = (dropped \/ (t \in Defaults /\ req[r].crossed))
       /\ tmpl' = [tmpl EXCEPT ![t] = "deleted"]
    /\ req' = [req EXCEPT ![r] = Idle]
    /\ UNCHANGED <<admin, booting, answer, requests, raced>>

(* export_report: the engagement's own template, or else the default.      *)
ExportRead(r, e) ==
    /\ Open(r, "export", ref[e], {}, {})
    /\ answer' = [answer EXCEPT ![r] = "none"]

Own(r) == req[r].t # NoTemplate /\ Exists(req[r].t)

ExportChoose_OwnOnly(r) ==
    /\ req[r].op = "export"
    /\ answer' = [answer EXCEPT ![r] = IF Own(r) THEN "own" ELSE "builtin"]
    /\ Close(r)
    /\ UNCHANGED <<tmpl, history>>

ExportChoose(r) ==
    /\ req[r].op = "export"
    /\ answer' = [answer EXCEPT ![r] =
         CASE Own(r) -> "own"
           [] ~Own(r) /\ Defaults = {} -> "builtin"
           [] ~Own(r) /\ Cardinality(Defaults) = 1 -> "default"
           [] OTHER -> "error"]
    /\ Close(r)
    /\ UNCHANGED <<tmpl, history>>
-----------------------------------------------------------------------------
Boot(p) == BootRead(p) \/ BootWrite(p) \/ BootConflict(p)

Finish(r) == DefaultsRead(r) \/ DefaultWrite(r) \/ DeleteWrite(r) \/ ExportChoose(r)

Next ==
    \/ \E p \in Processes : Boot(p) \/ Stop(p)
    \/ Create
    \/ \E e \in Engagements, t \in Templates \cup {NoTemplate} : Choose(e, t)
    \/ \E r \in Requests :
         \/ Finish(r)
         \/ \E t \in Templates : DefaultRead(r, t) \/ DeleteRead(r, t)
         \/ \E e \in Engagements : ExportRead(r, e)

Spec == Init /\ [][Next]_vars

(* The supervisor restarts a process that exits; a request finishes.       *)
FairSpec == /\ Spec
            /\ \A p \in Processes : WF_vars(Boot(p))
            /\ \A r \in Requests : WF_vars(Finish(r))
-----------------------------------------------------------------------------
TypeOK ==
    /\ tmpl \in [Templates -> {"unused", "plain", "default", "deleted"}]
    /\ ref \in [Engagements -> Templates \cup {NoTemplate}]
    /\ admin \in BOOLEAN
    /\ pc \in [Processes -> {"down", "seeding", "up"}]
    /\ saw \in [Processes -> [admin : BOOLEAN, default : BOOLEAN, crossed : BOOLEAN]]
    /\ \A p \in Processes : pc[p] # "seeding" => saw[p] = Unread
    /\ req \in [Requests -> [op : {"idle", "look", "promote", "delete", "export"},
                             t : Templates \cup {NoTemplate},
                             seen : SUBSET Templates, engs : SUBSET Engagements,
                             crossed : BOOLEAN]]
    /\ answer \in [Requests -> {"none", "own", "default", "builtin", "error"}]
    /\ requests \in 0 .. MaxRequests /\ stops \in 0 .. MaxStops
    /\ raced \in BOOLEAN /\ dropped \in BOOLEAN

(* Two defaults exist only after two writers of the flag overlapped: two   *)
(* promotions, or a promotion or another seed during a process's startup;  *)
(* processes that start together on an empty database leave one, thanks to *)
(* the unique administrator in the same transaction.                       *)
OneDefault == Cardinality(Defaults) > 1 => raced

(* Once the API has started a default exists, and the template that is     *)
(* default cannot be deleted (delete_report_template), unless a delete or  *)
(* a promotion overlapped a promotion.                                     *)
DefaultStays == admin /\ Defaults = {} => raced \/ dropped

(* No engagement points at a template that does not exist, and an export   *)
(* fails, or falls back to the built-in template, only after such a race.  *)
ExportsServed ==
    /\ \A e \in Engagements : ref[e] # NoTemplate => Exists(ref[e])
    /\ \A r \in Requests :
         /\ answer[r] = "error" => raced
         /\ answer[r] = "builtin" => raced \/ dropped

(* A process that must start does start for good, unless two defaults stay *)
(* in the table: the first boot's conflicts and the stops pass.            *)
StartsUp ==
    \A p \in Processes : <>[](pc[p] = "up") \/ <>[](Cardinality(Defaults) > 1)
=============================================================================
