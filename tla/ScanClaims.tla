---------------------------- MODULE ScanClaims -----------------------------
(* What the progress stream takes for granted of a scan's status and the   *)
(* code does not keep.                                                     *)
EXTENDS MCScanLifecycle

NoFaults == {}

(* Cancelled is one of _TERMINAL_STATUSES (findings.py), at which the      *)
(* progress stream closes for good: a Cancelled scan does not run again.   *)
CancelledIsTerminal ==
    [][\A s \in Scans :
        status[s] = "Cancelled" => status'[s] \in {"Cancelled", "absent"}]_vars
=============================================================================
