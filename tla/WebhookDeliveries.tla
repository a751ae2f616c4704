------------------------- MODULE WebhookDeliveries --------------------------
(***************************************************************************)
(* The webhook of one engagement: analysts set its URL, reveal and rotate  *)
(* the signing secret, and ask for test deliveries; workers deliver when   *)
(* scans end.  A sender reads URL and secret, posts for up to five         *)
(* seconds, and records the attempt in a session that also prunes the      *)
(* history to the newest Kept rows it sees.                                *)
(*                                                                         *)
(* A row is its created_at stamp, a secret the number of its generation,   *)
(* 0 for none.  An operator named X_Y is X with a mistake in it: no action *)
(* uses it.                                                                *)
(***************************************************************************)
EXTENDS Integers, FiniteSets

CONSTANTS
    Urls,
    Workers,     \* worker processes that deliver when a scan ends
    Testers,     \* API requests that send a test delivery
    Editors,     \* API requests that change the URL
    Clients,     \* API requests that reveal or rotate the secret
    Kept,        \* MAX_DELIVERIES_PER_ENGAGEMENT
    MaxRows,     \* bound: attempts recorded
    MaxSecrets,  \* bound: secrets generated
    NoUrl

Senders == Workers \cup Testers

ASSUME WebhookDeliveriesAssumption ==
    /\ Kept \in Nat \ {0} /\ MaxRows \in Nat /\ MaxSecrets \in Nat
    /\ NoUrl \notin Urls
    /\ Workers \cap Testers = {}
    /\ IsFiniteSet(Workers) /\ IsFiniteSet(Testers)

VARIABLES
    url, secret,   \* committed columns of the engagement
    fresh,         \* secrets generated so far
    edit,          \* open URL changes: the new URL, and the URL and secret seen
    answer,        \* the secret a request is about to answer with, 0 for none
    pc,            \* of each sender: idle, posting, pruning
    held,          \* the URL and the secret it read
    own,           \* the stamp of its uncommitted row, 0 for none
    prune,         \* rows its session deletes
    rows,          \* committed rows
    stamps,        \* stamps given so far
    legacy,        \* URL from before secrets were generated (never changes)
    shown,         \* the secret last answered to a client (history)
    overtaken,     \* open requests after whose commit or read a rotation committed (history)
    crossed,       \* the last answer was overtaken (history)
    clobbered,     \* a first-time URL change replaced a secret (history)
    recorded       \* rows ever committed (history)

settings == <<url, secret, fresh, edit, answer, legacy>>
sending  == <<pc, held, own, prune, rows, stamps>>
history  == <<shown, overtaken, crossed, clobbered, recorded>>
vars     == <<settings, sending, history>>

NoEdit    == [open |-> FALSE, url |-> NoUrl, was |-> NoUrl, saw |-> FALSE]
NotHeld   == [url |-> NoUrl, secret |-> 0]

Init ==
    /\ url \in Urls \cup {NoUrl} /\ legacy = url /\ secret = 0 /\ fresh = 0
    /\ edit = [q \in Editors |-> NoEdit]
    /\ answer = [c \in Clients |-> 0]
    /\ pc = [k \in Senders |-> "idle"]
    /\ held = [k \in Senders |-> NotHeld]
    /\ own = [k \in Senders |-> 0]
    /\ prune = [k \in Senders |-> {}]
    /\ rows = {} /\ stamps = 0
    /\ shown = 0 /\ overtaken = {} /\ crossed = FALSE
    /\ clobbered = FALSE /\ recorded = {}
-----------------------------------------------------------------------------
(* update_engagement: reads the engagement, then writes the URL and, if it *)
(* saw no secret, one of its own.  Clearing the URL keeps the secret, and a *)
(* URL equal to the one it read is not written.                            *)
EditRead(q, u) ==
    /\ ~edit[q].open /\ fresh < MaxSecrets
    /\ edit' = [edit EXCEPT ![q] =
         [open |-> TRUE, url |-> u, was |-> url, saw |-> secret # 0]]
    /\ UNCHANGED <<url, secret, fresh, answer, legacy, sending, history>>

Generates_EveryEdit(q) == edit[q].url # NoUrl
Generates(q) == edit[q].url # NoUrl /\ ~edit[q].saw

Written(q) == IF edit[q].url = edit[q].was THEN url ELSE edit[q].url

EditWrite_ClearsSecret(q) ==
    /\ edit[q].open
    /\ url' = Written(q)
    /\ IF Generates(q)
       THEN /\ fresh < MaxSecrets
            /\ fresh' = fresh + 1 /\ secret' = fresh + 1
       ELSE /\ secret' = IF edit[q].url = NoUrl THEN 0 ELSE secret
            /\ UNCHANGED fresh
    /\ edit' = [edit EXCEPT ![q] = NoEdit]
    /\ UNCHANGED <<answer, legacy, sending, history>>

EditWrite(q) ==
    /\ edit[q].open
    /\ url' = Written(q)
    /\ IF Generates(q)
       THEN /\ fresh < MaxSecrets
            /\ fresh' = fresh + 1 /\ secret' = fresh + 1
            /\ clobbered' = (clobbered \/ (secret # 0 /\ ~edit[q].saw))
       ELSE UNCHANGED <<fresh, secret, clobbered>>
    /\ edit' = [edit EXCEPT ![q] = NoEdit]
    /\ UNCHANGED <<answer, legacy, sending, shown, overtaken, crossed, recorded>>

(* rotate_webhook_secret: a blind write, committed before it is answered.  *)
Rotate(c) ==
    /\ answer[c] = 0 /\ fresh < MaxSecrets
    /\ fresh' = fresh + 1 /\ secret' = fresh + 1
    /\ answer' = [answer EXCEPT ![c] = fresh + 1]
    /\ overtaken' = {d \in Clients : answer[d] # 0}
    /\ UNCHANGED <<url, edit, legacy, sending, shown, crossed, clobbered, recorded>>

(* get_webhook_secret: what it read is answered later. *)
Reveal(c) ==
    /\ answer[c] = 0 /\ secret # 0
    /\ answer' = [answer EXCEPT ![c] = secret]
    /\ UNCHANGED <<url, secret, fresh, edit, legacy, sending, history>>

Answer(c) ==
    /\ answer[c] # 0
    /\ shown' = answer[c]
    /\ crossed' = (c \in overtaken)
    /\ overtaken' = overtaken \ {c}
    /\ answer' = [answer EXCEPT ![c] = 0]
    /\ UNCHANGED <<url, secret, fresh, edit, legacy, sending, clobbered, recorded>>
-----------------------------------------------------------------------------
(* The sender reads URL and secret, signs, and posts; the answer, good or  *)
(* bad, comes later.                                                       *)
Post(k) ==
    /\ pc[k] = "idle" /\ url # NoUrl /\ stamps + Cardinality(Senders) <= MaxRows
    /\ pc' = [pc EXCEPT ![k] = "posting"]
    /\ held' = [held EXCEPT ![k] = [url |-> url, secret |-> secret]]
    /\ UNCHANGED <<settings, own, prune, rows, stamps, history>>

Newer(S, r) == {x \in S : x > r}

(* What the pruning query returns from the rows it sees. *)
Excess_Oldest(S) == {r \in S : Cardinality(S) - Cardinality(Newer(S, r)) > Kept}
Excess_OffByOne(S) == {r \in S : Cardinality(Newer(S, r)) > Kept}
Excess(S) == {r \in S : Cardinality(Newer(S, r)) >= Kept}

(* The worker's session flushes its row before the query (autoflush); the  *)
(* API's does not (autoflush=False), so its own row is not counted.        *)
Counts(k) == k \in Workers

Prune(k) ==
    /\ pc[k] = "posting"
    /\ pc' = [pc EXCEPT ![k] = "pruning"]
    /\ IF Counts(k)
       THEN /\ stamps' = stamps + 1
            /\ own' = [own EXCEPT ![k] = stamps + 1]
            /\ prune' = [prune EXCEPT ![k] = Excess(rows \cup {stamps + 1})]
       ELSE /\ prune' = [prune EXCEPT ![k] = Excess(rows)]
            /\ UNCHANGED <<stamps, own>>
    /\ UNCHANGED <<settings, held, rows, history>>

Stamp(k) == IF own[k] = 0 THEN stamps + 1 ELSE own[k]

Record(k) ==
    /\ pc[k] = "pruning"
    /\ rows' = (rows \cup {Stamp(k)}) \ prune[k]
    /\ recorded' = recorded \cup {Stamp(k)}
    /\ stamps' = IF own[k] = 0 THEN stamps + 1 ELSE stamps
    /\ pc' = [pc EXCEPT ![k] = "idle"]
    /\ held' = [held EXCEPT ![k] = NotHeld]
    /\ own' = [own EXCEPT ![k] = 0]
    /\ prune' = [prune EXCEPT ![k] = {}]
    /\ UNCHANGED <<settings, shown, overtaken, crossed, clobbered>>
-----------------------------------------------------------------------------
Next ==
    \/ \E q \in Editors : EditWrite(q) \/ \E u \in Urls \cup {NoUrl} : EditRead(q, u)
    \/ \E c \in Clients : Rotate(c) \/ Reveal(c) \/ Answer(c)
    \/ \E k \in Senders : Post(k) \/ Prune(k) \/ Record(k)

Spec == Init /\ [][Next]_vars
-----------------------------------------------------------------------------
TypeOK ==
    /\ url \in Urls \cup {NoUrl}
    /\ fresh \in 0 .. MaxSecrets /\ secret \in 0 .. fresh
    /\ edit \in [Editors -> [open : BOOLEAN, url : Urls \cup {NoUrl},
                            was : Urls \cup {NoUrl}, saw : BOOLEAN]]
    /\ answer \in [Clients -> 0 .. fresh] /\ legacy \in Urls \cup {NoUrl}
    /\ pc \in [Senders -> {"idle", "posting", "pruning"}]
    /\ held \in [Senders -> [url : Urls \cup {NoUrl}, secret : 0 .. fresh]]
    /\ own \in [Senders -> Nat] /\ stamps \in Nat
    /\ rows \subseteq recorded /\ recorded \subseteq 1 .. stamps
    /\ prune \in [Senders -> SUBSET (1 .. stamps)]
    /\ shown \in 0 .. fresh
    /\ overtaken \subseteq Clients
    /\ crossed \in BOOLEAN /\ clobbered \in BOOLEAN

(* The secret last shown to a client is the one in force, or the one in    *)
(* force is about to be answered, though URLs are edited, cleared and set  *)
(* again meanwhile (update_engagement), with two exceptions: a first-time  *)
(* URL change that overlapped another or a rotation, and an answer that    *)
(* left after a rotation had overtaken it (rotate_webhook_secret and       *)
(* get_webhook_secret answer after their commit).                          *)
ShownInForce ==
    shown \notin {0, secret} =>
        clobbered \/ crossed \/ \E c \in Clients : answer[c] = secret

(* Only the URL an engagement had before secrets were generated is ever    *)
(* posted to unsigned: every URL set since came with a secret, in whatever *)
(* order edits overlap (update_engagement, _dispatch_webhook).             *)
Signed ==
    \A k \in Senders : held[k].url \notin {NoUrl, legacy} => held[k].secret # 0

(* Pruning never removes one of the Kept newest attempts on record,        *)
(* however the sessions of workers and tests overlap.                      *)
NewestKept == \A r \in recorded \ rows : Cardinality(Newer(recorded, r)) >= Kept

(* The table holds at most one row too many for each sender that can be    *)
(* recording at once: pruning keeps up without a cleanup job.              *)
RowsBounded == Cardinality(rows) <= Kept + Cardinality(Senders)
=============================================================================
