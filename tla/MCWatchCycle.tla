----------------------------- MODULE MCWatchCycle -----------------------------
(* Instances of WatchCycle for TLC. *)
EXTENDS WatchCycle

CONSTANTS s1, s2

(* Every message fits into a DriftReport. *)
ShortMessages == {"short"}
KeepAll == [m \in ShortMessages |-> m]

Survivable == TolerableFaults \ {"slack"}
================================================================================
