-------------------------- MODULE UserCacheProofs --------------------------
(***************************************************************************)
(* Proofs about UserCache for any users, requests and roles.               *)
(*                                                                         *)
(* The history variable held[r] always contains the role the database      *)
(* holds for the user of a request in progress (HeldInv): Send starts it   *)
(* with that role and Commit adds every later one.  What Select and        *)
(* require_admin read is therefore in held[r], and stays there.            *)
(***************************************************************************)
EXTENDS UserCache, TLAPS

HeldInv == \A r \in Requests : step[r] # "idle" => role[req[r].user] \in held[r]

FillInv == \A r \in Requests : step[r] = "setex" => got[r] \in Roles

AdminInv == \A r \in Requests : step[r] \in {"handler", "commit"} => got[r] = "Admin"

IInv == TypeOK /\ HeldInv /\ FillInv /\ AdminInv /\ ResolvedFresh

(* The initial states satisfy the inductive invariant. *)
LEMMA InitIInv == Init => IInv
<1> SUFFICES ASSUME Init PROVE IInv
    OBVIOUS
<1> USE UserCacheAssumption DEF Init
<1>1. TypeOK
  BY DEF TypeOK, Values, Steps, Payload
<1>2. HeldInv /\ FillInv /\ AdminInv /\ ResolvedFresh
  BY DEF HeldInv, FillInv, AdminInv, ResolvedFresh
<1> QED
  BY <1>1, <1>2 DEF IInv

(* A request that arrives starts its history with its user's role. *)
LEMMA SendIInv ==
  ASSUME IInv, NEW r \in Requests, NEW p \in Payload, NEW s \in {"get", "check"},
         Send(r, p, s)
  PROVE  IInv'
<1> USE UserCacheAssumption DEF Send, Goto, IInv
<1>0. p.user \in Users /\ role[p.user] \in Values /\ s \in Steps
  BY DEF TypeOK, Payload, Steps
<1>1. TypeOK'
  BY <1>0 DEF TypeOK
<1>2. HeldInv'
  BY DEF HeldInv, TypeOK
<1>3. FillInv' /\ AdminInv'
  BY DEF FillInv, AdminInv, TypeOK
<1>4. ResolvedFresh'
  BY DEF ResolvedFresh, TypeOK
<1> QED
  BY <1>1, <1>2, <1>3, <1>4

(* The steps of a user request. *)
LEMMA UserRequestIInv ==
  ASSUME IInv, NEW r \in Requests, CacheGet(r) \/ Select(r) \/ CacheFill(r)
  PROVE  IInv'
<1> USE UserCacheAssumption DEF Goto, IInv
<1>1. CASE CacheGet(r)
  <2>1. got' = [got EXCEPT ![r] = "none"] /\ step' = [step EXCEPT ![r] = "select"]
    BY <1>1 DEF CacheGet, FromCache
  <2>2. UNCHANGED <<role, cached, req, held, commits>>
    BY <1>1 DEF CacheGet
  <2>3. TypeOK'
    BY <2>1, <2>2 DEF TypeOK, Steps
  <2>4. HeldInv' /\ FillInv' /\ AdminInv' /\ ResolvedFresh'
    BY <1>1, <2>1, <2>2 DEF CacheGet, HeldInv, FillInv, AdminInv, ResolvedFresh, TypeOK
  <2> QED
    BY <2>3, <2>4
<1>2. CASE Select(r)
  <2>1. role[req[r].user] \in Values /\ role[req[r].user] \in held[r]
    BY <1>2 DEF Select, HeldInv, TypeOK, Payload
  <2>2. TypeOK'
    BY <1>2, <2>1 DEF Select, TypeOK, Steps
  <2>3. HeldInv' /\ ResolvedFresh'
    BY <1>2, <2>1 DEF Select, HeldInv, ResolvedFresh, TypeOK
  <2>4. FillInv' /\ AdminInv'
    BY <1>2, <2>1 DEF Select, FillInv, AdminInv, TypeOK, Values
  <2> QED
    BY <2>2, <2>3, <2>4
<1>3. CASE CacheFill(r)
  <2>1. got[r] \in Roles /\ req[r].user \in Users
    BY <1>3 DEF CacheFill, FillInv, TypeOK, Payload
  <2>2. TypeOK'
    BY <1>3, <2>1 DEF CacheFill, TypeOK, Steps
  <2>3. HeldInv' /\ FillInv' /\ AdminInv' /\ ResolvedFresh'
    BY <1>3 DEF CacheFill, HeldInv, FillInv, AdminInv, ResolvedFresh, TypeOK
  <2> QED
    BY <2>2, <2>3
<1> QED
  BY <1>1, <1>2, <1>3

(* The steps of an admin request up to its commit. *)
LEMMA AdminRequestIInv ==
  ASSUME IInv, NEW r \in Requests, require_admin(r) \/ Handle(r)
  PROVE  IInv'
<1> USE UserCacheAssumption DEF Goto, IInv
<1>1. CASE require_admin(r)
  <2>1. role[req[r].user] \in Values /\ role[req[r].user] \in held[r]
    BY <1>1 DEF require_admin, HeldInv, TypeOK, Payload
  <2>2. TypeOK'
    BY <1>1, <2>1 DEF require_admin, TypeOK, Steps
  <2>3. HeldInv' /\ ResolvedFresh'
    BY <1>1, <2>1 DEF require_admin, HeldInv, ResolvedFresh, TypeOK
  <2>4. FillInv' /\ AdminInv'
    BY <1>1 DEF require_admin, FillInv, AdminInv, TypeOK
  <2> QED
    BY <2>2, <2>3, <2>4
<1>2. CASE Handle(r)
  <2>1. cached' \in [Users -> Roles \cup {"none"}]
    BY <1>2 DEF Handle, invalidate_user_cache, TypeOK
  <2>2. step' \in [Requests -> Steps]
    BY <1>2 DEF Handle, TypeOK, Steps
  <2>3. TypeOK'
    BY <1>2, <2>1, <2>2 DEF Handle, TypeOK
  <2>4. HeldInv' /\ FillInv' /\ AdminInv' /\ ResolvedFresh'
    BY <1>2 DEF Handle, HeldInv, FillInv, AdminInv, ResolvedFresh, TypeOK
  <2> QED
    BY <2>3, <2>4
<1> QED
  BY <1>1, <1>2

(* A commit adds the new role to the history of every request of its user. *)
LEMMA CommitIInv ==
  ASSUME IInv, NEW r \in Requests, Commit(r)
  PROVE  IInv'
<1> USE UserCacheAssumption DEF IInv
<1> DEFINE p == req[r]
<1>1. p.target \in Users /\ p.new \in Values
  BY DEF TypeOK, Payload
<1>2. step' = [step EXCEPT ![r] = "resolved"] /\ UNCHANGED <<cached, req, got>>
  BY DEF Commit, Goto
<1>3. CASE UNCHANGED <<role, held, commits>>
  <2>1. TypeOK'
    BY <1>2, <1>3 DEF TypeOK, Steps
  <2> QED
    BY <1>2, <1>3, <2>1 DEF Commit, HeldInv, FillInv, AdminInv, ResolvedFresh, TypeOK
<1>4. CASE /\ commits < MaxCommits
           /\ commits' = commits + 1
           /\ role' = [role EXCEPT ![p.target] = p.new]
           /\ held' = [q \in Requests |->
                IF req[q].user = p.target THEN held[q] \cup {p.new} ELSE held[q]]
  <2>1. held' \in [Requests -> SUBSET Values]
    BY <1>1, <1>4 DEF TypeOK
  <2>2. commits' \in 0 .. MaxCommits /\ role' \in [Users -> Values]
    BY <1>1, <1>4 DEF TypeOK
  <2>3. TypeOK'
    BY <1>2, <2>1, <2>2 DEF TypeOK, Steps
  <2>4. HeldInv'
    <3> SUFFICES ASSUME NEW q \in Requests, step'[q] # "idle"
                 PROVE  role'[req'[q].user] \in held'[q]
        BY DEF HeldInv
    <3>1. step[q] # "idle"
      BY <1>2 DEF Commit, TypeOK
    <3>2. role[req[q].user] \in held[q] /\ req[q].user \in Users
      BY <3>1 DEF HeldInv, TypeOK, Payload
    <3> QED
      BY <1>1, <1>2, <1>4, <3>2 DEF TypeOK
  <2>5. FillInv' /\ AdminInv'
    BY <1>2 DEF FillInv, AdminInv, TypeOK
  <2>6. ResolvedFresh'
    BY <1>2, <1>4 DEF ResolvedFresh
  <2> QED
    BY <2>3, <2>4, <2>5, <2>6
<1> QED
  BY <1>3, <1>4 DEF Commit

(* Expiry and change_password touch the cache alone. *)
LEMMA CacheIInv ==
  ASSUME IInv, NEW u \in Users, Expire(u) \/ change_password(u)
  PROVE  IInv'
<1>1. cached' \in [Users -> Roles \cup {"none"}]
  BY DEF Expire, change_password, invalidate_user_cache, IInv, TypeOK
<1>2. UNCHANGED <<role, step, req, got, held, commits>>
  BY DEF Expire, change_password
<1> QED
  BY <1>1, <1>2 DEF IInv, TypeOK, HeldInv, FillInv, AdminInv, ResolvedFresh

(* Every step preserves the inductive invariant. *)
LEMMA NextIInv == IInv /\ [Next]_vars => IInv'
<1> SUFFICES ASSUME IInv, [Next]_vars PROVE IInv'
    OBVIOUS
<1>1. ASSUME NEW r \in Requests, NEW u \in Users,
             Send(r, [user |-> u, target |-> u, new |-> "gone"], "get")
      PROVE  IInv'
  <2>1. [user |-> u, target |-> u, new |-> "gone"] \in Payload
    BY DEF Payload, Values
  <2> QED
    BY <1>1, <2>1, SendIInv
<1>2. ASSUME NEW r \in Requests, NEW p \in Payload, Send(r, p, "check") PROVE IInv'
  BY <1>2, SendIInv
<1>3. ASSUME NEW r \in Requests,
             \/ CacheGet(r) \/ Select(r) \/ CacheFill(r)
             \/ require_admin(r) \/ Handle(r) \/ Commit(r)
      PROVE  IInv'
  BY <1>3, UserRequestIInv, AdminRequestIInv, CommitIInv
<1>4. ASSUME NEW u \in Users, Expire(u) \/ change_password(u) PROVE IInv'
  BY <1>4, CacheIInv
<1>5. CASE UNCHANGED vars
  BY <1>5 DEF vars, IInv, TypeOK, HeldInv, FillInv, AdminInv, ResolvedFresh
<1> QED
  BY <1>1, <1>2, <1>3, <1>4, <1>5 DEF Next

(* The inductive invariant holds in every reachable state. *)
LEMMA Invariance == Spec => []IInv
<1> QED
  BY InitIInv, NextIInv, PTL DEF Spec

(* Type correctness. *)
THEOREM TypeCorrect == Spec => []TypeOK
<1>1. IInv => TypeOK
  BY DEF IInv
<1> QED
  BY <1>1, Invariance, PTL

(* However many users, requests and Redis failures there are, a request    *)
(* resolves its user to a role the user has had since the request was      *)
(* sent.                                                                   *)
THEOREM NoStaleAnswer == Spec => []ResolvedFresh
<1>1. IInv => ResolvedFresh
  BY DEF IInv
<1> QED
  BY <1>1, Invariance, PTL

(* Role changes and deletions are made only for users who were Admin after *)
(* the request was sent.                                                   *)
THEOREM OnlyAdminsAct == Spec => []AdminsOnly
<1>1. IInv => AdminsOnly
  <2> SUFFICES ASSUME IInv, NEW r \in Requests, step[r] \in {"handler", "commit"}
               PROVE  "Admin" \in held[r]
      BY DEF AdminsOnly
  <2>1. got[r] = "Admin"
    BY DEF IInv, AdminInv
  <2> QED
    BY <2>1 DEF IInv, ResolvedFresh
<1> QED
  BY <1>1, Invariance, PTL
=============================================================================
