----------------------------- MODULE UserCache -----------------------------
(***************************************************************************)
(* How api/auth.py turns a token into a user, beside the admin requests    *)
(* that change roles and delete accounts.                                  *)
(*                                                                         *)
(* A user request looks in the Redis cache, then in the database, then     *)
(* fills the cache.  An admin request reads the database only.  An admin   *)
(* handler invalidates the cache entry and get_db commits later, so any    *)
(* request may run in between.                                             *)
(*                                                                         *)
(* _dict_to_user builds the cached user with User.__new__ and assigns its  *)
(* mapped attributes; SQLAlchemy refuses that on an instance its __init__  *)
(* never saw, the except clause of _get_current_user swallows the error,   *)
(* and the request goes on to the database: FromCache finds nothing.       *)
(*                                                                         *)
(* An operator named X_Y is X with a mistake in it: no action uses it.     *)
(***************************************************************************)
EXTENDS Naturals

CONSTANTS
    Users, Requests,
    Builtin,        \* the account named "admin"
    Roles,          \* roles in use, "Admin" among them
    RedisFails,     \* TRUE when Redis commands may fail
    MaxCommits      \* bound: commits of admin requests

ASSUME UserCacheAssumption ==
    /\ Builtin \in Users
    /\ "Admin" \in Roles /\ "none" \notin Roles /\ "gone" \notin Roles
    /\ RedisFails \in BOOLEAN
    /\ MaxCommits \in Nat

VARIABLES
    role,     \* committed role of each user, "gone" once deleted
    cached,   \* role in the Redis entry, "none" without one
    step,     \* where each request stands
    req,      \* its user and, for admin requests, the target and new role
    got,      \* role it resolved its user to, "none" before that
    held,     \* roles its user has had since it was sent (history)
    commits   \* commits of admin requests so far

vars == <<role, cached, step, req, got, held, commits>>

Values   == Roles \cup {"gone"}
Steps    == {"idle", "get", "select", "setex", "resolved",
             "check", "handler", "commit"}
Payload  == [user : Users, target : Users, new : Values]

Init ==
    /\ role \in {f \in [Users -> Roles] : f[Builtin] = "Admin"}
    /\ cached = [u \in Users |-> "none"]
    /\ step = [r \in Requests |-> "idle"]
    /\ req = [r \in Requests |-> [user |-> Builtin, target |-> Builtin, new |-> "gone"]]
    /\ got = [r \in Requests |-> "none"]
    /\ held = [r \in Requests |-> {}]
    /\ commits = 0

Goto(r, s) == step' = [step EXCEPT ![r] = s]
-----------------------------------------------------------------------------
(* A request arrives: at _get_current_user, or at require_admin. *)
Send(r, p, s) ==
    /\ step[r] \in {"idle", "resolved"}
    /\ req' = [req EXCEPT ![r] = p]
    /\ got' = [got EXCEPT ![r] = "none"]
    /\ held' = [held EXCEPT ![r] = {role[p.user]}]
    /\ Goto(r, s)
    /\ UNCHANGED <<role, cached, commits>>

FromCache_Deserialised(u) == cached[u]
FromCache(u) == "none"

CacheGet(r) ==
    /\ step[r] = "get"
    /\ \E found \in {FromCache(req[r].user)} \cup (IF RedisFails THEN {"none"} ELSE {}) :
          /\ got' = [got EXCEPT ![r] = found]
          /\ Goto(r, IF found = "none" THEN "select" ELSE "resolved")
    /\ UNCHANGED <<role, cached, req, held, commits>>

(* A user without a row is answered 401 and not cached. *)
Select(r) ==
    LET found == role[req[r].user] IN
    /\ step[r] = "select"
    /\ got' = [got EXCEPT ![r] = found]
    /\ Goto(r, IF found = "gone" THEN "resolved" ELSE "setex")
    /\ UNCHANGED <<role, cached, req, held, commits>>

CacheFill(r) ==
    /\ step[r] = "setex"
    /\ \/ cached' = [cached EXCEPT ![req[r].user] = got[r]]
       \/ RedisFails /\ UNCHANGED cached
    /\ Goto(r, "resolved")
    /\ UNCHANGED <<role, req, got, held, commits>>

(* USER_CACHE_TTL seconds after the entry was written. *)
Expire(u) ==
    /\ cached[u] # "none"
    /\ cached' = [cached EXCEPT ![u] = "none"]
    /\ UNCHANGED <<role, step, req, got, held, commits>>
-----------------------------------------------------------------------------
require_admin_AnyRole(r) ==
    LET found == role[req[r].user] IN
    /\ step[r] = "check"
    /\ got' = [got EXCEPT ![r] = found]
    /\ Goto(r, IF found # "gone" THEN "handler" ELSE "resolved")
    /\ UNCHANGED <<role, cached, req, held, commits>>

require_admin(r) ==
    LET found == role[req[r].user] IN
    /\ step[r] = "check"
    /\ got' = [got EXCEPT ![r] = found]
    /\ Goto(r, IF found = "Admin" THEN "handler" ELSE "resolved")
    /\ UNCHANGED <<role, cached, req, held, commits>>

invalidate_user_cache(u) ==
    \/ cached' = [cached EXCEPT ![u] = "none"]
    \/ RedisFails /\ UNCHANGED cached

Admissible(p) ==
    /\ role[p.target] # "gone"
    /\ p.new = "gone" => p.target \notin {p.user, Builtin}
    /\ p.target = Builtin => p.user = Builtin

(* change_role and delete_user: new is "gone" for the latter. *)
Handle(r) ==
    LET p == req[r] IN
    /\ step[r] = "handler"
    /\ \/ /\ Admissible(p)
          /\ invalidate_user_cache(p.target)
          /\ Goto(r, "commit")
       \/ /\ ~Admissible(p)
          /\ Goto(r, "resolved")
          /\ UNCHANGED cached
    /\ UNCHANGED <<role, req, got, held, commits>>

(* The statement of a row deleted in the meantime matches no row and the *)
(* request is rolled back, like one whose commit fails.                  *)
Commit(r) ==
    LET p == req[r] IN
    /\ step[r] = "commit"
    /\ \/ /\ role[p.target] # "gone"
          /\ commits < MaxCommits
          /\ commits' = commits + 1
          /\ role' = [role EXCEPT ![p.target] = p.new]
          /\ held' = [q \in Requests |->
               IF req[q].user = p.target THEN held[q] \cup {p.new} ELSE held[q]]
       \/ UNCHANGED <<role, held, commits>>
    /\ Goto(r, "resolved")
    /\ UNCHANGED <<cached, req, got>>

(* change_password invalidates the entry of its own user, whose role the *)
(* commit leaves alone.                                                  *)
change_password(u) ==
    /\ cached[u] # "none"
    /\ invalidate_user_cache(u)
    /\ UNCHANGED <<role, step, req, got, held, commits>>

Next ==
    \/ \E r \in Requests, u \in Users :
          Send(r, [user |-> u, target |-> u, new |-> "gone"], "get")
    \/ \E r \in Requests, p \in Payload : Send(r, p, "check")
    \/ \E r \in Requests :
          \/ CacheGet(r) \/ Select(r) \/ CacheFill(r)
          \/ require_admin(r) \/ Handle(r) \/ Commit(r)
    \/ \E u \in Users : Expire(u) \/ change_password(u)

Spec == Init /\ [][Next]_vars
-----------------------------------------------------------------------------
(* The variables keep their types. *)
TypeOK ==
    /\ role \in [Users -> Values]
    /\ cached \in [Users -> Roles \cup {"none"}]
    /\ step \in [Requests -> Steps]
    /\ req \in [Requests -> Payload]
    /\ got \in [Requests -> Values \cup {"none"}]
    /\ held \in [Requests -> SUBSET Values]
    /\ commits \in 0 .. MaxCommits

(* A demotion or a deletion takes effect on the next request whatever the  *)
(* cache holds: a request that resolved its user found a role the user has *)
(* had since the request was sent, so none acts on a role taken away       *)
(* before.                                                                 *)
ResolvedFresh == \A r \in Requests : got[r] \in held[r] \cup {"none"}

(* Admin work is done only by requests of users that were Admin while the *)
(* request ran.                                                           *)
AdminsOnly == \A r \in Requests :
    step[r] \in {"handler", "commit"} => "Admin" \in held[r]
=============================================================================
