---------------------- MODULE WebhookDeliveriesProofs -----------------------
(***************************************************************************)
(* The secret and the delivery history of a webhook, for any senders,      *)
(* editors, URLs and bounds.                                               *)
(***************************************************************************)
EXTENDS WebhookDeliveries, FiniteSetTheorems, WellFoundedInduction, TLAPS

(* A row that waits for its commit has been stamped. *)
StampInv == \A k \in Senders : own[k] \in 0 .. stamps

(* A URL other than the legacy one has a secret, what an editor saw stays, *)
(* and an answer that no rotation has overtaken is the secret in force.    *)
SecretInv ==
    /\ url \notin {NoUrl, legacy} => secret # 0
    /\ secret = 0 => fresh = 0
    /\ \A q \in Editors : /\ edit[q].saw => secret # 0
                          /\ edit[q].was \notin {NoUrl, legacy} => secret # 0
    /\ \A c \in Clients :
         answer[c] # 0 /\ c \notin overtaken => clobbered \/ answer[c] = secret

(* What a session is about to delete has Kept newer attempts, among those  *)
(* on record and its own.                                                  *)
Counted(k) == recorded \cup ({own[k]} \ {0})

PruneInv ==
    \A k \in Senders : \A r \in prune[k] : Cardinality(Newer(Counted(k), r)) >= Kept

IInv == TypeOK /\ StampInv /\ SecretInv /\ Signed /\ ShownInForce /\ PruneInv /\ NewestKept
-----------------------------------------------------------------------------
(* Initial states are well typed. *)
LEMMA InitTypeOK == Init => TypeOK /\ StampInv
<1> SUFFICES ASSUME Init PROVE TypeOK /\ StampInv
  OBVIOUS
<1> USE WebhookDeliveriesAssumption DEF Init
<1>1. edit \in [Editors -> [open : BOOLEAN, url : Urls \cup {NoUrl},
                             was : Urls \cup {NoUrl}, saw : BOOLEAN]]
  BY DEF NoEdit
<1>2. held \in [Senders -> [url : Urls \cup {NoUrl}, secret : 0 .. fresh]]
  BY DEF NotHeld
<1>3. prune \in [Senders -> SUBSET (1 .. stamps)]
  OBVIOUS
<1>4. answer \in [Clients -> 0 .. fresh] /\ overtaken \subseteq Clients
  OBVIOUS
<1>5. crossed \in BOOLEAN /\ clobbered \in BOOLEAN
  OBVIOUS
<1> QED
  BY <1>1, <1>2, <1>3, <1>4, <1>5 DEF TypeOK, StampInv

(* Every step keeps the types. *)
LEMMA NextTypeOK == TypeOK /\ StampInv /\ [Next]_vars => TypeOK' /\ StampInv'
<1> SUFFICES ASSUME TypeOK, StampInv, [Next]_vars PROVE TypeOK' /\ StampInv'
  OBVIOUS
<1> USE WebhookDeliveriesAssumption
        DEF TypeOK, StampInv, settings, sending, history, NoEdit, NotHeld
<1>1. ASSUME NEW q \in Editors, NEW u \in Urls \cup {NoUrl}, EditRead(q, u)
      PROVE TypeOK' /\ StampInv'
  BY <1>1 DEF EditRead
<1>2. ASSUME NEW q \in Editors, EditWrite(q) PROVE TypeOK' /\ StampInv'
  BY <1>2 DEF EditWrite, Written
<1>3. ASSUME NEW c \in Clients, Rotate(c) PROVE TypeOK' /\ StampInv'
  BY <1>3 DEF Rotate
<1>4. ASSUME NEW c \in Clients, Reveal(c) PROVE TypeOK' /\ StampInv'
  BY <1>4 DEF Reveal
<1>9. ASSUME NEW c \in Clients, Answer(c) PROVE TypeOK' /\ StampInv'
  BY <1>9 DEF Answer
<1>5. ASSUME NEW k \in Senders, Post(k) PROVE TypeOK' /\ StampInv'
  BY <1>5 DEF Post
<1>6. ASSUME NEW k \in Senders, Prune(k) PROVE TypeOK' /\ StampInv'
  <2>1. stamps' \in {stamps, stamps + 1} /\ own'[k] \in 0 .. stamps'
    BY <1>6 DEF Prune
  <2>2. \A r \in 1 .. stamps : r \in 1 .. stamps'
    BY <2>1
  <2>3. prune'[k] \subseteq 1 .. stamps'
    <3>1. CASE Counts(k)
      <4>1. stamps' = stamps + 1 /\ prune'[k] \subseteq rows \cup {stamps + 1}
        BY <1>6, <3>1 DEF Prune, Excess
      <4>2. rows \cup {stamps + 1} \subseteq 1 .. (stamps + 1)
        OBVIOUS
      <4> QED
        BY <4>1, <4>2
    <3>2. CASE ~Counts(k)
      <4>1. stamps' = stamps /\ prune'[k] \subseteq rows
        BY <1>6, <3>2 DEF Prune, Excess
      <4> QED
        BY <4>1
    <3> QED
      BY <3>1, <3>2
  <2>4. prune' \in [Senders -> SUBSET (1 .. stamps')]
    BY <1>6, <2>2, <2>3 DEF Prune
  <2>5. own' \in [Senders -> Nat] /\ \A j \in Senders : own'[j] \in 0 .. stamps'
    <3>1. \A j \in Senders : own'[j] = own[j] \/ j = k
      BY <1>6 DEF Prune
    <3>2. \A j \in Senders : own'[j] \in 0 .. stamps'
      BY <2>1, <3>1
    <3>3. own' = [j \in Senders |-> own'[j]]
      BY <1>6 DEF Prune
    <3> QED
      BY <2>1, <3>2, <3>3
  <2>6. /\ recorded' \subseteq 1 .. stamps' /\ rows' \subseteq recorded'
        /\ pc' \in [Senders -> {"idle", "posting", "pruning"}]
    BY <1>6, <2>2 DEF Prune
  <2>7. UNCHANGED <<settings, held, history>>
    BY <1>6 DEF Prune
  <2> QED
    BY <2>1, <2>4, <2>5, <2>6, <2>7
<1>7. ASSUME NEW k \in Senders, Record(k) PROVE TypeOK' /\ StampInv'
  <2>1. stamps' \in {stamps, stamps + 1} /\ Stamp(k) \in 1 .. stamps'
    BY <1>7 DEF Record, Stamp
  <2>2. \A r \in 1 .. stamps : r \in 1 .. stamps'
    BY <2>1
  <2>3. prune' \in [Senders -> SUBSET (1 .. stamps')]
    BY <1>7, <2>2 DEF Record
  <2>4. own' \in [Senders -> Nat] /\ \A j \in Senders : own'[j] \in 0 .. stamps'
    BY <1>7, <2>1 DEF Record
  <2>5. /\ recorded' \subseteq 1 .. stamps' /\ rows' \subseteq recorded'
        /\ pc' \in [Senders -> {"idle", "posting", "pruning"}]
    BY <1>7, <2>1, <2>2 DEF Record
  <2>6. held' \in [Senders -> [url : Urls \cup {NoUrl}, secret : 0 .. fresh]]
    BY <1>7 DEF Record
  <2>7. UNCHANGED <<settings, shown, overtaken, crossed, clobbered>>
    BY <1>7 DEF Record
  <2> QED
    BY <2>1, <2>3, <2>4, <2>5, <2>6, <2>7
<1>8. CASE UNCHANGED vars
  BY <1>8 DEF vars
<1> QED
  BY <1>1, <1>2, <1>3, <1>4, <1>5, <1>6, <1>7, <1>8, <1>9 DEF Next

(* Secrets: generated once, kept when the URL is cleared. *)
LEMMA NextSecrets ==
    TypeOK /\ SecretInv /\ Signed /\ ShownInForce /\ [Next]_vars
        => SecretInv' /\ Signed' /\ ShownInForce'
<1> SUFFICES ASSUME TypeOK, SecretInv, Signed, ShownInForce, [Next]_vars
             PROVE  SecretInv' /\ Signed' /\ ShownInForce'
  OBVIOUS
<1> USE WebhookDeliveriesAssumption
        DEF TypeOK, SecretInv, Signed, ShownInForce, settings, sending, history, NoEdit, NotHeld
<1>1. ASSUME NEW q \in Editors, NEW u \in Urls \cup {NoUrl}, EditRead(q, u)
      PROVE SecretInv' /\ Signed' /\ ShownInForce'
  BY <1>1 DEF EditRead
<1>2. ASSUME NEW q \in Editors, EditWrite(q)
      PROVE SecretInv' /\ Signed' /\ ShownInForce'
  <2> USE DEF EditWrite, Written
  <2>1. UNCHANGED <<answer, legacy, held, shown, overtaken, crossed>>
    BY <1>2
  <2>2. \A p \in Editors : edit'[p] = IF p = q THEN NoEdit ELSE edit[p]
    BY <1>2
  <2>3. url' \in {url, edit[q].url} /\ (secret # 0 => secret' # 0)
    BY <1>2
  <2>4. url' \notin {NoUrl, legacy} => secret' # 0
    BY <1>2, <2>3 DEF Generates
  <2>5. \/ UNCHANGED <<secret, fresh, clobbered>>
        \/ secret = 0 /\ secret' = fresh + 1 /\ fresh' = fresh + 1 /\ UNCHANGED clobbered
        \/ secret # 0 /\ secret' = fresh + 1 /\ fresh' = fresh + 1 /\ clobbered'
    BY <1>2 DEF Generates
  <2> HIDE DEF EditWrite, Written
  <2>6. SecretInv'
    BY <2>1, <2>2, <2>3, <2>4, <2>5
  <2> QED
    BY <2>1, <2>5, <2>6
<1>3. ASSUME NEW c \in Clients, Rotate(c) PROVE SecretInv' /\ Signed' /\ ShownInForce'
  BY <1>3 DEF Rotate
<1>4. ASSUME NEW c \in Clients, Reveal(c) PROVE SecretInv' /\ Signed' /\ ShownInForce'
  BY <1>4 DEF Reveal
<1>9. ASSUME NEW c \in Clients, Answer(c) PROVE SecretInv' /\ Signed' /\ ShownInForce'
  BY <1>9 DEF Answer
<1>5. ASSUME NEW k \in Senders, Post(k) PROVE SecretInv' /\ Signed' /\ ShownInForce'
  BY <1>5 DEF Post
<1>6. ASSUME NEW k \in Senders, Prune(k) PROVE SecretInv' /\ Signed' /\ ShownInForce'
  BY <1>6 DEF Prune
<1>7. ASSUME NEW k \in Senders, Record(k) PROVE SecretInv' /\ Signed' /\ ShownInForce'
  BY <1>7 DEF Record
<1>8. CASE UNCHANGED vars
  BY <1>8 DEF vars
<1> QED
  BY <1>1, <1>2, <1>3, <1>4, <1>5, <1>6, <1>7, <1>8, <1>9 DEF Next

(* More attempts, no fewer newer ones. *)
LEMMA NewerGrows ==
    ASSUME NEW S, NEW T, S \subseteq T, NEW n \in Nat, T \subseteq 0 .. n, NEW r
    PROVE  /\ Cardinality(Newer(S, r)) \in Nat
           /\ Cardinality(Newer(T, r)) \in Nat
           /\ Cardinality(Newer(S, r)) <= Cardinality(Newer(T, r))
<1>1. IsFiniteSet(0 .. n)
  BY FS_Interval
<1>2. Newer(T, r) \subseteq 0 .. n /\ Newer(S, r) \subseteq Newer(T, r)
  BY DEF Newer
<1>3. IsFiniteSet(Newer(T, r))
  BY <1>1, <1>2, FS_Subset
<1> QED
  BY <1>2, <1>3, FS_Subset, FS_CardinalityType

(* Pruning spares the newest attempts. *)
LEMMA NextNewest ==
    TypeOK /\ StampInv /\ PruneInv /\ NewestKept /\ [Next]_vars => PruneInv' /\ NewestKept'
<1> SUFFICES ASSUME TypeOK, StampInv, PruneInv, NewestKept, [Next]_vars
             PROVE  PruneInv' /\ NewestKept'
  OBVIOUS
<1> USE WebhookDeliveriesAssumption DEF TypeOK, StampInv, settings, sending, history
<1>1. ASSUME NEW q \in Editors, NEW u \in Urls \cup {NoUrl}, EditRead(q, u)
      PROVE PruneInv' /\ NewestKept'
  BY <1>1 DEF EditRead, PruneInv, Counted, NewestKept
<1>2. ASSUME NEW q \in Editors, EditWrite(q) PROVE PruneInv' /\ NewestKept'
  BY <1>2 DEF EditWrite, PruneInv, Counted, NewestKept
<1>3. ASSUME NEW c \in Clients, Rotate(c) PROVE PruneInv' /\ NewestKept'
  BY <1>3 DEF Rotate, PruneInv, Counted, NewestKept
<1>4. ASSUME NEW c \in Clients, Reveal(c) PROVE PruneInv' /\ NewestKept'
  BY <1>4 DEF Reveal, PruneInv, Counted, NewestKept
<1>9. ASSUME NEW c \in Clients, Answer(c) PROVE PruneInv' /\ NewestKept'
  BY <1>9 DEF Answer, PruneInv, Counted, NewestKept
<1>5. ASSUME NEW k \in Senders, Post(k) PROVE PruneInv' /\ NewestKept'
  BY <1>5 DEF Post, PruneInv, Counted, NewestKept
<1>6. ASSUME NEW k \in Senders, Prune(k) PROVE PruneInv' /\ NewestKept'
  <2>1. NewestKept'
    BY <1>6 DEF Prune, NewestKept
  <2>2. ASSUME NEW j \in Senders, NEW r \in prune'[j]
        PROVE  Cardinality(Newer(Counted(j), r))' >= Kept
    <3>1. CASE j # k
      <4>1. Counted(j)' = Counted(j) /\ r \in prune[j]
        BY <1>6, <3>1 DEF Prune, Counted
      <4> QED
        BY <4>1 DEF PruneInv
    <3>2. CASE j = k
      <4> DEFINE S == IF Counts(k) THEN rows \cup {stamps + 1} ELSE rows
      <4>1. r \in Excess(S)
        BY <1>6, <3>2 DEF Prune
      <4>2. S \subseteq Counted(k)'
        <5>1. CASE Counts(k)
          BY <1>6, <5>1 DEF Prune, Counted
        <5>2. CASE ~Counts(k)
          BY <1>6, <5>2 DEF Prune, Counted
        <5> QED
          BY <5>1, <5>2
      <4>3. own'[k] \in 0 .. (stamps + 1) /\ recorded' \subseteq 0 .. (stamps + 1)
        BY <1>6 DEF Prune
      <4>4. Counted(k)' \subseteq 0 .. (stamps + 1)
        BY <4>3 DEF Counted
      <4>5. Cardinality(Newer(S, r)) >= Kept
        BY <4>1 DEF Excess
      <4>6. stamps + 1 \in Nat
        OBVIOUS
      <4>7. /\ Cardinality(Newer(S, r)) \in Nat
            /\ Cardinality(Newer(Counted(k)', r)) \in Nat
            /\ Cardinality(Newer(S, r)) <= Cardinality(Newer(Counted(k)', r))
        BY <4>2, <4>4, <4>6, NewerGrows
      <4> QED
        BY <3>2, <4>5, <4>7
    <3> QED
      BY <3>1, <3>2
  <2> QED
    BY <2>1, <2>2 DEF PruneInv
<1>7. ASSUME NEW k \in Senders, Record(k) PROVE PruneInv' /\ NewestKept'
  <2>1. recorded \subseteq recorded' /\ recorded' \subseteq 0 .. stamps' /\ stamps' \in Nat
    <3>1. stamps' \in {stamps, stamps + 1} /\ Stamp(k) \in 0 .. stamps'
      BY <1>7 DEF Record, Stamp
    <3>2. recorded' = recorded \cup {Stamp(k)}
      BY <1>7 DEF Record
    <3>3. stamps' \in Nat /\ \A x \in recorded : x \in 0 .. stamps'
      BY <3>1
    <3> QED
      BY <3>1, <3>2, <3>3
  <2>2. ASSUME NEW j \in Senders, NEW r \in prune'[j]
        PROVE  Cardinality(Newer(Counted(j), r))' >= Kept
    <3>1. j # k /\ r \in prune[j] /\ own'[j] = own[j]
      BY <1>7 DEF Record
    <3>2. Counted(j) \subseteq Counted(j)' /\ Counted(j)' \subseteq 0 .. stamps'
      BY <1>7, <2>1, <3>1 DEF Counted, Record
    <3>3. /\ Cardinality(Newer(Counted(j), r)) \in Nat
          /\ Cardinality(Newer(Counted(j)', r)) \in Nat
          /\ Cardinality(Newer(Counted(j), r)) <= Cardinality(Newer(Counted(j)', r))
      BY <2>1, <3>2, NewerGrows
    <3> QED
      BY <3>1, <3>3 DEF PruneInv
  <2>3. ASSUME NEW r \in recorded' \ rows'
        PROVE  Cardinality(Newer(recorded, r))' >= Kept
    <3>1. CASE r \in prune[k]
      <4>1. Counted(k) \subseteq recorded'
        BY <1>7 DEF Counted, Record, Stamp
      <4>2. /\ Cardinality(Newer(Counted(k), r)) \in Nat
            /\ Cardinality(Newer(recorded', r)) \in Nat
            /\ Cardinality(Newer(Counted(k), r)) <= Cardinality(Newer(recorded', r))
        BY <2>1, <4>1, NewerGrows
      <4> QED
        BY <3>1, <4>2 DEF PruneInv
    <3>2. CASE r \notin prune[k]
      <4>1. r \in recorded \ rows
        BY <1>7, <3>2 DEF Record
      <4>2. /\ Cardinality(Newer(recorded, r)) \in Nat
            /\ Cardinality(Newer(recorded', r)) \in Nat
            /\ Cardinality(Newer(recorded, r)) <= Cardinality(Newer(recorded', r))
        BY <2>1, NewerGrows
      <4> QED
        BY <4>1, <4>2 DEF NewestKept
    <3> QED
      BY <3>1, <3>2
  <2>4. PruneInv'
    BY <2>2 DEF PruneInv
  <2>5. NewestKept'
    BY <2>3 DEF NewestKept
  <2> QED
    BY <2>4, <2>5
<1>8. CASE UNCHANGED vars
  BY <1>8 DEF vars, PruneInv, Counted, NewestKept
<1> QED
  BY <1>1, <1>2, <1>3, <1>4, <1>5, <1>6, <1>7, <1>8, <1>9 DEF Next
-----------------------------------------------------------------------------
(* The invariant holds at first. *)
LEMMA InitIInv == Init => IInv
<1> SUFFICES ASSUME Init PROVE IInv
  OBVIOUS
<1> QED
  BY InitTypeOK
     DEF IInv, Init, SecretInv, Signed, ShownInForce, PruneInv, NewestKept, NoEdit, NotHeld

(* The invariant is inductive. *)
LEMMA Invariance == Spec => []IInv
<1>1. IInv /\ [Next]_vars => IInv'
  BY NextTypeOK, NextSecrets, NextNewest DEF IInv
<1> QED
  BY <1>1, InitIInv, PTL DEF Spec

(* Every reachable state is well typed. *)
THEOREM TypeCorrect == Spec => []TypeOK
<1>1. IInv => TypeOK
  BY DEF IInv
<1> QED
  BY <1>1, Invariance, PTL

(* A sender that read a URL set since secrets are generated read a secret  *)
(* with it: only the legacy URL is posted to unsigned, however edits that  *)
(* set, clear and set URLs again overlap.                                  *)
THEOREM DeliveriesSigned == Spec => []Signed
<1>1. IInv => Signed
  BY DEF IInv
<1> QED
  BY <1>1, Invariance, PTL

(* The secret last shown is in force, or the one in force is about to be   *)
(* answered, unless first-time URL changes raced or the last answer had    *)
(* been overtaken by a rotation on its way.                                *)
THEOREM SecretShownHolds == Spec => []ShownInForce
<1>1. IInv => ShownInForce
  BY DEF IInv
<1> QED
  BY <1>1, Invariance, PTL

(* However many senders prune at once, the newest Kept attempts stay.      *)
THEOREM NewestSurvive == Spec => []NewestKept
<1>1. IInv => NewestKept
  BY DEF IInv
<1> QED
  BY <1>1, Invariance, PTL
-----------------------------------------------------------------------------
(* Of the rows a query has seen, it leaves Kept at most.  A session that   *)
(* prunes late adds no more to them than the senders that recorded since   *)
(* its query, each counted once: when one of those records again, what it  *)
(* spares was bounded by fewer (C[k] are the senders that recorded since   *)
(* the query of k).                                                        *)
Pruning(k) == pc[k] = "pruning"
Spared(k)  == rows \ prune[k]

Bounding(C) ==
    \A k \in Senders : Pruning(k) =>
        /\ k \notin C[k]
        /\ Cardinality(Spared(k)) <= Kept + Cardinality(C[k])
        /\ \A j \in C[k] : Pruning(j) => C[j] \subseteq C[k]

BoundInv == \E C \in [Senders -> SUBSET Senders] : Bounding(C)

(* A set of natural numbers has a least element. *)
LEMMA Least ==
  ASSUME NEW S \in SUBSET Nat, S # {}
  PROVE  \E x \in S : \A y \in S : x <= y
<1>1. \E x \in S : \A y \in S : ~ (<<y, x>> \in OpToRel(<, Nat))
  BY NatLessThanWellFounded, WFMin
<1>2. \E x \in S : \A y \in S : ~ (y < x)
  BY <1>1 DEF OpToRel
<1> QED
  BY <1>2

(* The pruning query leaves at most Kept of the rows it sees. *)
LEMMA QueryLeavesKept ==
  ASSUME NEW S \in SUBSET Nat, IsFiniteSet(S)
  PROVE  Cardinality(S \ Excess(S)) <= Kept
<1> DEFINE T == S \ Excess(S)
<1>1. IsFiniteSet(T)
  BY FS_Subset
<1>2. CASE T = {}
  BY <1>2, FS_EmptySet, WebhookDeliveriesAssumption DEF WebhookDeliveriesAssumption
<1>3. CASE T # {}
  <2>1. T \in SUBSET Nat
    OBVIOUS
  <2>2. PICK m \in T : \A y \in T : m <= y
    BY <1>3, <2>1, Least
  <2>3. T \ {m} \subseteq Newer(S, m)
    BY <2>1, <2>2 DEF Newer
  <2>4. IsFiniteSet(Newer(S, m))
    BY FS_Subset DEF Newer
  <2>5. Cardinality(T \ {m}) <= Cardinality(Newer(S, m))
    BY <2>3, <2>4, FS_Subset
  <2>6. Cardinality(Newer(S, m)) < Kept
    <3>1. Cardinality(Newer(S, m)) \in Nat
      BY <2>4, FS_CardinalityType
    <3> QED
      BY <2>2, <3>1, WebhookDeliveriesAssumption DEF Excess, WebhookDeliveriesAssumption
  <2>7. Cardinality(T \ {m}) = Cardinality(T) - 1
    BY <1>1, <2>2, FS_RemoveElement
  <2> QED
    BY <1>1, <2>4, <2>5, <2>6, <2>7, FS_CardinalityType, WebhookDeliveriesAssumption
       DEF WebhookDeliveriesAssumption
<1> QED
  BY <1>2, <1>3

(* Sets of senders and of rows are finite. *)
LEMMA Finite ==
  ASSUME TypeOK
  PROVE  /\ IsFiniteSet(Senders) /\ Cardinality(Senders) \in Nat
         /\ \A C \in SUBSET Senders : /\ IsFiniteSet(C) /\ Cardinality(C) \in Nat
                                      /\ Cardinality(C) <= Cardinality(Senders)
         /\ \A R \in SUBSET rows : IsFiniteSet(R) /\ Cardinality(R) \in Nat
         /\ rows \in SUBSET Nat
<1>1. IsFiniteSet(Senders)
  BY WebhookDeliveriesAssumption, FS_Union DEF Senders, WebhookDeliveriesAssumption
<1>2. IsFiniteSet(1 .. stamps)
  BY FS_Interval DEF TypeOK
<1>3. rows \subseteq 1 .. stamps /\ rows \in SUBSET Nat
  BY DEF TypeOK
<1> QED
  BY <1>1, <1>2, <1>3, FS_Subset, FS_CardinalityType

(* One row more, one member more at most. *)
LEMMA OneMore ==
  ASSUME NEW S, NEW T, NEW x, IsFiniteSet(T), S \subseteq T \cup {x}
  PROVE  /\ IsFiniteSet(S) /\ Cardinality(S) \in Nat /\ Cardinality(T) \in Nat
         /\ Cardinality(S) <= Cardinality(T) + 1
<1>1. /\ IsFiniteSet(T \cup {x})
      /\ Cardinality(T \cup {x}) \in {Cardinality(T), Cardinality(T) + 1}
  BY FS_AddElement
<1>2. IsFiniteSet(S) /\ Cardinality(S) <= Cardinality(T \cup {x})
  BY <1>1, FS_Subset
<1> QED
  BY <1>1, <1>2, FS_CardinalityType

(* A query bounds what its session spares, by Kept alone. *)
LEMMA PruneBound ==
  ASSUME TypeOK, BoundInv, NEW k \in Senders, Prune(k)
  PROVE  BoundInv'
<1>1. PICK C \in [Senders -> SUBSET Senders] : Bounding(C)
  BY DEF BoundInv
<1> DEFINE D == [C EXCEPT ![k] = {}]
<1>2. D \in [Senders -> SUBSET Senders]
  OBVIOUS
<1>3. /\ UNCHANGED rows
      /\ \A j \in Senders \ {k} : prune'[j] = prune[j] /\ pc'[j] = pc[j]
  BY DEF Prune, TypeOK
<1>4. Cardinality(rows \ prune'[k]) <= Kept
  <2> DEFINE S == IF Counts(k) THEN rows \cup {stamps + 1} ELSE rows
  <2>1. prune'[k] = Excess(S)
    BY DEF Prune, TypeOK
  <2>2. S \in SUBSET Nat /\ IsFiniteSet(S)
    <3>1. rows \in SUBSET Nat /\ IsFiniteSet(rows) /\ stamps + 1 \in Nat
      BY Finite DEF TypeOK
    <3> QED
      BY <3>1, FS_AddElement
  <2> HIDE DEF S
  <2>3. Cardinality(S \ Excess(S)) <= Kept
    BY <2>2, QueryLeavesKept
  <2>4. IsFiniteSet(S \ Excess(S)) /\ Cardinality(S \ Excess(S)) \in Nat
    BY <2>2, FS_Subset, FS_CardinalityType
  <2>5. rows \ prune'[k] \subseteq S \ Excess(S)
    BY <2>1 DEF S
  <2>6. /\ Cardinality(rows \ prune'[k]) <= Cardinality(S \ Excess(S))
        /\ Cardinality(rows \ prune'[k]) \in Nat
    BY <2>4, <2>5, FS_Subset, FS_CardinalityType
  <2> QED
    BY <2>3, <2>4, <2>6, WebhookDeliveriesAssumption DEF WebhookDeliveriesAssumption
<1>5. ASSUME NEW j \in Senders, Pruning(j)'
      PROVE  /\ j \notin D[j]
             /\ Cardinality(Spared(j))' <= Kept + Cardinality(D[j])
             /\ \A i \in D[j] : Pruning(i)' => D[i] \subseteq D[j]
  <2>1. CASE j = k
    BY <1>3, <1>4, <2>1, FS_EmptySet, WebhookDeliveriesAssumption
       DEF Spared, WebhookDeliveriesAssumption
  <2>2. CASE j # k
    <3>1. Pruning(j) /\ D[j] = C[j] /\ Spared(j)' = Spared(j)
      BY <1>3, <1>5, <2>2 DEF Pruning, Spared
    <3>2. ASSUME NEW i \in D[j], Pruning(i)' PROVE D[i] \subseteq D[j]
      <4>1. i \in Senders /\ (i = k => D[i] = {}) /\ (i # k => D[i] = C[i])
        BY <1>2
      <4>2. i # k => Pruning(i)
        BY <1>3, <3>2, <4>1 DEF Pruning
      <4> QED
        BY <1>1, <3>1, <4>1, <4>2 DEF Bounding
    <3> QED
      BY <1>1, <3>1, <3>2 DEF Bounding
  <2> QED
    BY <2>1, <2>2
<1> HIDE DEF D
<1> QED
  BY <1>2, <1>5 DEF BoundInv, Bounding

(* A commit adds one row to what the others spare, and its sender to those *)
(* they count.                                                             *)
LEMMA RecordBound ==
  ASSUME TypeOK, BoundInv, NEW k \in Senders, Record(k)
  PROVE  BoundInv' /\ RowsBounded'
<1>1. PICK C \in [Senders -> SUBSET Senders] : Bounding(C)
  BY DEF BoundInv
<1> DEFINE D == [j \in Senders |-> C[j] \cup {k}]
<1>2. D \in [Senders -> SUBSET Senders]
  OBVIOUS
<1>3. /\ ~Pruning(k)' /\ Pruning(k)
      /\ \A j \in Senders \ {k} : prune'[j] = prune[j] /\ pc'[j] = pc[j]
      /\ rows' = (rows \cup {Stamp(k)}) \ prune[k]
  BY DEF Record, Pruning, TypeOK
<1>4. /\ k \notin C[k] /\ C[k] \in SUBSET Senders
      /\ Cardinality(Spared(k)) <= Kept + Cardinality(C[k])
  BY <1>1, <1>3 DEF Bounding
<1>5. rows' \subseteq Spared(k) \cup {Stamp(k)}
  BY <1>3 DEF Spared
<1>6. \A j \in Senders : IsFiniteSet(Spared(j)) /\ Cardinality(Spared(j)) \in Nat
  BY Finite DEF Spared
<1>7. \A j \in Senders : /\ IsFiniteSet(C[j]) /\ Cardinality(C[j]) \in Nat
                         /\ Cardinality(C[j]) <= Cardinality(Senders)
  BY Finite
<1>8. \A j \in Senders : k \notin C[j] => Cardinality(D[j]) = Cardinality(C[j]) + 1
  BY <1>7, FS_AddElement
<1>9. RowsBounded'
  <2>1. Cardinality(rows') \in Nat /\ Cardinality(rows') <= Cardinality(Spared(k)) + 1
    BY <1>5, <1>6, OneMore
  <2>2. Cardinality(D[k]) <= Cardinality(Senders) /\ Cardinality(D[k]) = Cardinality(C[k]) + 1
    BY <1>2, <1>4, <1>8, Finite
  <2> QED
    BY <1>4, <1>6, <1>7, <2>1, <2>2, Finite, WebhookDeliveriesAssumption
       DEF RowsBounded, WebhookDeliveriesAssumption
<1>10. ASSUME NEW j \in Senders, Pruning(j)'
       PROVE  /\ j \notin D[j]
              /\ Cardinality(Spared(j))' <= Kept + Cardinality(D[j])
              /\ \A i \in D[j] : Pruning(i)' => D[i] \subseteq D[j]
  <2>1. j # k
    BY <1>3, <1>10
  <2>2. Pruning(j) /\ prune'[j] = prune[j]
    BY <1>3, <1>10, <2>1 DEF Pruning
  <2>3. /\ j \notin C[j] /\ Cardinality(Spared(j)) <= Kept + Cardinality(C[j])
        /\ \A i \in C[j] : Pruning(i) => C[i] \subseteq C[j]
    BY <1>1, <2>2 DEF Bounding
  <2>4. ASSUME NEW i \in D[j], Pruning(i)' PROVE D[i] \subseteq D[j]
    <3>1. i # k /\ i \in C[j] /\ i \in Senders
      BY <1>2, <1>3, <2>4
    <3>2. Pruning(i)
      BY <1>3, <2>4, <3>1 DEF Pruning
    <3> QED
      BY <2>3, <3>1, <3>2
  <2>5. Cardinality(Spared(j))' <= Kept + Cardinality(D[j])
    <3>1. CASE k \notin C[j]
      <4>1. Spared(j)' \subseteq Spared(j) \cup {Stamp(k)}
        BY <1>3, <2>2 DEF Spared
      <4>2. /\ Cardinality(Spared(j)') \in Nat
            /\ Cardinality(Spared(j)') <= Cardinality(Spared(j)) + 1
        BY <1>6, <4>1, OneMore
      <4>3. Cardinality(D[j]) = Cardinality(C[j]) + 1
        BY <1>8, <3>1
      <4> QED
        BY <1>6, <1>7, <2>3, <4>2, <4>3, WebhookDeliveriesAssumption DEF WebhookDeliveriesAssumption
    <3>2. CASE k \in C[j]
      <4>1. Spared(j)' \subseteq Spared(k) \cup {Stamp(k)}
        BY <1>5 DEF Spared
      <4>2. /\ Cardinality(Spared(j)') \in Nat
            /\ Cardinality(Spared(j)') <= Cardinality(Spared(k)) + 1
        BY <1>6, <4>1, OneMore
      <4>3. D[k] \subseteq C[j] /\ D[j] = C[j]
        BY <1>3, <2>3, <3>2
      <4>4. Cardinality(D[k]) <= Cardinality(C[j]) /\ Cardinality(D[k]) = Cardinality(C[k]) + 1
        BY <1>4, <1>7, <1>8, <4>3, FS_Subset
      <4>5. Cardinality(C[k]) \in Nat /\ Cardinality(C[j]) \in Nat /\ D[j] = C[j]
        BY <1>7, <4>3
      <4>6. Cardinality(C[k]) + 1 <= Cardinality(C[j])
        BY <4>4
      <4>7. Cardinality(Spared(k)) \in Nat /\ Kept \in Nat
        BY <1>6, WebhookDeliveriesAssumption DEF WebhookDeliveriesAssumption
      <4> HIDE DEF D
      <4> QED
        BY <1>4, <4>2, <4>5, <4>6, <4>7
    <3> QED
      BY <3>1, <3>2
  <2> QED
    BY <2>1, <2>3, <2>4, <2>5
<1> HIDE DEF D
<1>11. BoundInv'
  BY <1>2, <1>10 DEF BoundInv, Bounding
<1> QED
  BY <1>9, <1>11

(* Other steps change neither the rows nor what is about to be deleted. *)
LEMMA OtherBound ==
  ASSUME BoundInv, UNCHANGED <<rows, prune>>, \A k \in Senders : Pruning(k)' => Pruning(k)
  PROVE  BoundInv'
<1>1. PICK C \in [Senders -> SUBSET Senders] : Bounding(C)
  BY DEF BoundInv
<1>2. Bounding(C)'
  BY <1>1 DEF Bounding, Spared
<1> QED
  BY <1>2 DEF BoundInv

(* Every step keeps the table bounded. *)
LEMMA NextBound ==
    TypeOK /\ BoundInv /\ RowsBounded /\ [Next]_vars => BoundInv' /\ RowsBounded'
<1> SUFFICES ASSUME TypeOK, BoundInv, RowsBounded, [Next]_vars
             PROVE  BoundInv' /\ RowsBounded'
  OBVIOUS
<1>1. ASSUME NEW k \in Senders, Prune(k) PROVE BoundInv' /\ RowsBounded'
  <2>1. RowsBounded'
    BY <1>1 DEF Prune, RowsBounded
  <2> QED
    BY <1>1, <2>1, PruneBound
<1>2. ASSUME NEW k \in Senders, Record(k) PROVE BoundInv' /\ RowsBounded'
  BY <1>2, RecordBound
<1>3. ASSUME NEW k \in Senders, Post(k) PROVE BoundInv' /\ RowsBounded'
  <2>1. UNCHANGED <<rows, prune>> /\ \A j \in Senders : Pruning(j)' => Pruning(j)
    BY <1>3 DEF Post, Pruning, TypeOK
  <2> QED
    BY <2>1, OtherBound DEF RowsBounded
<1>4. CASE UNCHANGED <<rows, prune, pc>>
  <2>1. \A j \in Senders : Pruning(j)' => Pruning(j)
    BY <1>4 DEF Pruning
  <2> QED
    BY <1>4, <2>1, OtherBound DEF RowsBounded
<1>5. ASSUME NEW q \in Editors, EditWrite(q) \/ \E u \in Urls \cup {NoUrl} : EditRead(q, u)
      PROVE  UNCHANGED <<rows, prune, pc>>
  BY <1>5 DEF EditWrite, EditRead, sending
<1>6. (\E c \in Clients : Rotate(c) \/ Reveal(c) \/ Answer(c)) \/ UNCHANGED vars
        => UNCHANGED <<rows, prune, pc>>
  BY DEF Rotate, Reveal, Answer, vars, sending, history
<1> QED
  BY <1>1, <1>2, <1>3, <1>4, <1>5, <1>6 DEF Next

(* The table is empty at first. *)
LEMMA InitBound == Init => BoundInv /\ RowsBounded
<1> SUFFICES ASSUME Init PROVE BoundInv /\ RowsBounded
  OBVIOUS
<1>1. Bounding([k \in Senders |-> {}])
  BY DEF Init, Bounding, Pruning
<1>2. BoundInv
  BY <1>1 DEF BoundInv
<1>3. Cardinality(rows) = 0 /\ Cardinality(Senders) \in Nat
  BY InitTypeOK, Finite, FS_EmptySet DEF Init
<1> QED
  BY <1>2, <1>3, WebhookDeliveriesAssumption DEF RowsBounded, WebhookDeliveriesAssumption

(* However many senders record at once and however often, the table holds  *)
(* no more than one row too many for each: pruning needs no cleanup job.   *)
THEOREM TableBounded == Spec => []RowsBounded
<1>1. TypeOK /\ StampInv /\ BoundInv /\ RowsBounded /\ [Next]_vars
        => (TypeOK /\ StampInv /\ BoundInv /\ RowsBounded)'
  BY NextTypeOK, NextBound
<1> QED
  BY <1>1, InitTypeOK, InitBound, PTL DEF Spec
=============================================================================
