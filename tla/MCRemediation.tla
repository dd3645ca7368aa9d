----------------------------- MODULE MCRemediation -----------------------------
(* Two replicas and all fixers. *)
EXTENDS Remediation, TLC

CONSTANTS r1, r2

TwoReplicas == {r1, r2}
AllFixers == {"StuckJobsWithBadSecretRef", "StuckRSPods", "StaleErrorPods",
              "deleteStaleCertificateRequests", "deleteStaleOrders", "TLSSecretMismatch"}
================================================================================
