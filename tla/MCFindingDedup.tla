-------------------------- MODULE MCFindingDedup ---------------------------
(* Small instances of FindingDedup for TLC. *)
EXTENDS FindingDedup

CONSTANTS h1, h2, a1, a2, a3, bulk1

(* a1 and a2 are two attempts of one scan, a3 of a later one. *)
TwoScans == [a \in Attempts |-> IF a = a3 THEN "second" ELSE "first"]

(* a1 and a2 report in one order, a3 crosses them; a2 repeats a hash. *)
Crossing == [a \in Attempts |->
    CASE a = a1 -> <<h1, h2>> [] a = a2 -> <<h1, h1, h2>> [] a = a3 -> <<h2, h1>>]

(* An engagement with cloud scans, and one with web scans. *)
CloudTools == [h \in Hashes |-> "ScoutSuite"]
WebTools   == [h \in Hashes |-> "nuclei"]
=============================================================================
