-------------------------------- MODULE Fixers --------------------------------
(***************************************************************************)
(* The fixers (internal/fix) as the decisions they take between their reads.  *)
(*                                                                         *)
(* A fixer lists its candidates, reads what a candidate belongs to, and        *)
(* writes.  What it reads, one after the other, are the parts of its object    *)
(* (Parts); seen is the set of facts it read of a part, or Unreadable.  A       *)
(* fixer goes on from a part to the next, and from the last one to the write,  *)
(* when its operator holds of what it saw.                                    *)
(***************************************************************************)
EXTENDS Naturals, Sequences

Unreadable == {"unreadable"}

(* Annotations and labels of Argo CD, Flux or Helm; spec.paused; spec.suspend; the
   protected namespaces, with those of the environment. *)
GitOpsReason(seen) == "GitOps" \in seen
IsPaused(seen) == "paused" \in seen
IsSuspended(seen) == "suspended" \in seen
IsProtectedNamespace(seen) == "protected" \in seen

ownerNameByKind(seen, kind) == kind \in seen
podInCCE(pod) == "CreateContainerConfigError" \in pod
podHasMissingSecretKey(pod) == "missingKey" \in pod

(* Seeded defect: the suspended CronJob is not asked for. *)
respawnsSuspended(part, seen) ==
    CASE part = "pod" ->
            /\ ownerNameByKind(seen, "Job") /\ podHasMissingSecretKey(seen)
            /\ ~IsProtectedNamespace(seen)
      [] part = "job" -> ownerNameByKind(seen, "CronJob")
      [] part = "cronjob" -> seen # Unreadable /\ ~GitOpsReason(seen)

(* Deletes the Job of a pod that lacks a Secret key, for its CronJob to respawn. *)
StuckJobsWithBadSecretRef(part, seen) ==
    CASE part = "pod" ->
            /\ ownerNameByKind(seen, "Job") /\ podHasMissingSecretKey(seen)
            /\ ~IsProtectedNamespace(seen)
      [] part = "job" -> ownerNameByKind(seen, "CronJob")
      [] part = "cronjob" -> seen # Unreadable /\ ~IsSuspended(seen) /\ ~GitOpsReason(seen)

(* Restarts the Deployment of a pod whose ReplicaSet is not of the live revision;
   both revisions must be known. *)
StuckRSPods(part, seen) ==
    CASE part = "pod" ->
            /\ podInCCE(seen) /\ ~podHasMissingSecretKey(seen) /\ ~IsProtectedNamespace(seen)
            /\ ownerNameByKind(seen, "ReplicaSet")
      [] part = "replicaset" -> ownerNameByKind(seen, "Deployment") /\ "revision" \in seen
      [] part = "deployment" ->
            /\ seen # Unreadable /\ ~GitOpsReason(seen) /\ ~IsPaused(seen)
            /\ "newerRevision" \in seen

(* Deletes a Failed pod that is a Job's or no one's.  The Job matters only for
   its GitOps marks, and not when it cannot be read. *)
StaleErrorPods(part, seen) ==
    CASE part = "pod" ->
            /\ "Failed" \in seen /\ "otherOwner" \notin seen
            /\ ~IsProtectedNamespace(seen) /\ ~GitOpsReason(seen)
      [] part = "job" -> ~GitOpsReason(seen)

(* Both delete what failed, unless cert-manager is known to have no ready
   replica. *)
controllerReady(seen) == seen = Unreadable \/ "ready" \in seen
certRequestFailed(seen) == seen \cap {"failureTime", "readyFalseFailed"} # {}

(* Seeded defect: one of the two failed states is forgotten. *)
onlyInvalid(seen) == "invalid" \in seen

orderFailed(seen) == seen \cap {"errored", "invalid"} # {}

deleteStaleCertificateRequests(part, seen) ==
    CASE part = "controller" -> controllerReady(seen)
      [] part = "request" -> ~IsProtectedNamespace(seen) /\ certRequestFailed(seen)

deleteStaleOrders(part, seen) ==
    CASE part = "controller" -> controllerReady(seen)
      [] part = "order" -> ~IsProtectedNamespace(seen) /\ orderFailed(seen)

(* Points a TLS entry of an Ingress, by its index, from a Secret whose certificate
   is about to expire to the Secret of a ready Certificate for its host. *)
secretCertExpiryFix(seen) == "expiresSoon" \in seen
certReadyFix(seen) == "Ready" \in seen
findMismatchedCertFix(seen) == certReadyFix(seen) /\ "sameHost" \in seen

TLSSecretMismatchFix(part, seen) ==
    CASE part = "ingress" ->
            /\ seen # Unreadable /\ ~IsProtectedNamespace(seen) /\ ~GitOpsReason(seen)
            /\ "staleSecretAtIndex" \in seen
      [] part = "secret" -> secretCertExpiryFix(seen)
      [] part = "certificate" -> findMismatchedCertFix(seen)

--------------------------------------------------------------------------------
(* The reads of a fixer in their order. *)
Parts(fixer) ==
    CASE fixer = "StuckJobsWithBadSecretRef" -> <<"pod", "job", "cronjob">>
      [] fixer = "StuckRSPods" -> <<"pod", "replicaset", "deployment">>
      [] fixer = "StaleErrorPods" -> <<"pod", "job">>
      [] fixer = "deleteStaleCertificateRequests" -> <<"controller", "request">>
      [] fixer = "deleteStaleOrders" -> <<"controller", "order">>
      [] fixer = "TLSSecretMismatch" -> <<"ingress", "secret", "certificate">>

GoesOn(fixer, part, seen) ==
    CASE fixer = "StuckJobsWithBadSecretRef" -> StuckJobsWithBadSecretRef(part, seen)
      [] fixer = "StuckRSPods" -> StuckRSPods(part, seen)
      [] fixer = "StaleErrorPods" -> StaleErrorPods(part, seen)
      [] fixer = "deleteStaleCertificateRequests" -> deleteStaleCertificateRequests(part, seen)
      [] fixer = "deleteStaleOrders" -> deleteStaleOrders(part, seen)
      [] fixer = "TLSSecretMismatch" -> TLSSecretMismatchFix(part, seen)

(* The fixers that write to the owner of their candidates, once a run.  They also
   remember (deletedJobs, restarted) an owner that they found frozen. *)
OncePerOwner(fixer) == fixer \in {"StuckJobsWithBadSecretRef", "StuckRSPods"}
FoundFrozen(fixer, part, seen) ==
    /\ OncePerOwner(fixer) /\ part \in {"cronjob", "deployment"}
    /\ IsSuspended(seen) \/ IsPaused(seen) \/ GitOpsReason(seen)
================================================================================
