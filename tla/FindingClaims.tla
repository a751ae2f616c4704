--------------------------- MODULE FindingClaims ---------------------------
(* What finding_delta's docstring says and the rows do not support. *)
EXTENDS MCFindingDedup

(* "resolved - dedup_hash in baseline but absent from latest (fixed /      *)
(* gone)" (finding_delta): what the latest scan reported again is not      *)
(* listed as resolved against a scan that was parsed before it.            *)
Latest(a) == \A b \in Attempts : pc[b] = "committed" <=> b = a \/ b \in before[a]

ResolvedIsGone ==
    \A a \in Attempts : \A b \in before[a] :
        Latest(a) /\ ScanOf[a] # ScanOf[b] =>
            Resolved(ScanOf[b], ScanOf[a]) \cap Range(Report[a]) = {}
=============================================================================
