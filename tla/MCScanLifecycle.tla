-------------------------- MODULE MCScanLifecycle --------------------------
(* Small instances of ScanLifecycle for TLC. *)
EXTENDS ScanLifecycle, TLC

CONSTANTS s1, s2, w1, w2

WebKind   == [s \in Scans |-> "web"]
MixedKind == [s \in Scans |-> IF s = s1 THEN "cloud" ELSE "mobile"]

WebPool   == [w \in Workers |-> "web"]
InfraPool == [w \in Workers |-> "infra"]

AllFaults    == FaultKinds
NoRedelivery == FaultKinds \ {"redeliver"}

(* The slots of a run serve one queue, so they are interchangeable. *)
SlotSymmetry == Permutations(Workers)
=============================================================================
