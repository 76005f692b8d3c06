----------------------------- MODULE MCScanJobs -----------------------------
(* Instances of ScanJobs for TLC. *)
EXTENDS ScanJobs, TLC

CONSTANTS s1, s2

OneServer == {s1}
TwoServers == {s1, s2}
=============================================================================
