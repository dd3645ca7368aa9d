------------------------------- MODULE DriftRules -------------------------------
(***************************************************************************)
(* The drift analyzers: disruption, workload state, GitOps, capacity,       *)
(* configuration and orphaned volumes.  Ages are minutes, unless said       *)
(* otherwise.                                                               *)
(***************************************************************************)
EXTENDS Findings

(* DisruptionDrift.  pdbBlockedAnchor: the transition of the condition
   DisruptionAllowed=False, or else the creation of the budget. *)
gracePDBBlocked == 5
graceQuotaAtMax == 60
graceJobFailedIndexes == 10

pdbBlockedAnchor(pdb) == IF pdb.since # Never THEN pdb.since ELSE pdb.age

runPDB(w, down) ==
    Needs({"poddisruptionbudgets"}, down, Each(w.objs, LAMBDA pdb :
        When(pdb.allowed = 0 /\ pdbBlockedAnchor(pdb) >= gracePDBBlocked,
             <<"PodDisruptionBudget", "ns/pdb">>, "critical")))

runStuckJobs(w, down) ==
    Needs({"jobs"}, down, Each(w.objs, LAMBDA job :
        When(job.indexed /\ job.failedIndexes /\ job.age >= graceJobFailedIndexes,
             <<"Job", "ns/job">>, "warning")))

(* used and hard are compared as text: beyond the limit is not at the limit. *)
runResourceQuota(w, down) ==
    Needs({"resourcequotas"}, down, Each(w.objs, LAMBDA rq :
        When(rq.used = rq.hard /\ rq.age >= graceQuotaAtMax,
             <<"ResourceQuota", "ns/rq">>, "warning")))

(* PVOrphan: days; all orphans are one diagnostic. *)
pvOrphanGrace == 7
PVOrphan(w, down) ==
    Needs({"persistentvolumes"}, down,
        When(Some(w.objs, LAMBDA pv : pv.phase = "Released" /\ pv.age >= pvOrphanGrace),
             <<"PersistentVolume", "cluster/orphaned-released">>, "warning"))

--------------------------------------------------------------------------------
(* WorkloadStateDrift: up to three diagnostics about one CNPG Cluster. *)
workloadGrace == 5
checkCNPGClusters(w, down) ==
    LET subject == <<"Cluster", "ns/pg">>
    IN  Needs({"clusters"}, down, Each(w.objs, LAMBDA c :
            IF c.age < workloadGrace THEN <<>>
            ELSE When(c.phase \notin {"", "healthy", "creating"}, subject,
                      IF c.phase \in {"failover", "failed"} THEN "critical" ELSE "warning")
                 \o When(c.phase = "healthy" /\ c.ready < c.desired, subject, "warning")
                 \o When(c.primary # c.target, subject, "critical")))

podIsReady(pod) == pod = "ready"

(* checkStatefulSets: pod-0 of a set that lacks ready replicas is missing or
   not ready. *)
checkStatefulSets(w, down) ==
    Needs({"statefulsets", "pods"}, down, Each(w.objs, LAMBDA ss :
        When(/\ ss.desired # 0 /\ ss.ready # ss.desired
             /\ ss.age >= workloadGrace
             /\ ~podIsReady(ss.pod0),
             <<"StatefulSet", "ns/sts">>, IF ss.pod0 = "absent" THEN "critical" ELSE "warning")))

--------------------------------------------------------------------------------
(* GitOpsDrift.  The clock is the last reconciliation, unknown counts as 0. *)
gitopsGrace == 10
checkArgoApplications(w, down) ==
    LET subject == <<"Application", "ns/app">>
    IN  Needs({"applications"}, down, Each(w.objs, LAMBDA app :
            When(app.sync \notin {"", "Synced"} /\ app.since >= gitopsGrace, subject, "warning")
            \o When(app.health \notin {"", "Healthy", "Progressing"} /\ app.since >= gitopsGrace,
                    subject, IF app.health = "Degraded" THEN "critical" ELSE "warning")))

fluxReadyDiagnostic(u) ==
    When(u.ready \notin {"True", "none"} /\ u.since >= gitopsGrace,
         <<u.kind, "ns/flux">>, IF u.failed THEN "critical" ELSE "warning")

checkFlux(w, down) ==
    Each(w.objs, LAMBDA u : IF u.kind \in down THEN <<>> ELSE fluxReadyDiagnostic(u))

--------------------------------------------------------------------------------
(* CapacityDrift.  "since" is the age of AbleToScale=False (Never: no parsable
   time), "dwell" the time since the last scaling. *)
capacityGrace == 15
saturationGrace == 24 * 60
idleGrace == 30 * 24 * 60

checkHPAs(w, down) ==
    LET subject == <<"HorizontalPodAutoscaler", "ns/hpa">>
    IN  Needs({"horizontalpodautoscalers"}, down, Each(w.objs, LAMBDA h :
            IF h.system THEN <<>>
            ELSE IF h.ableFalse /\ h.since >= capacityGrace THEN When(TRUE, subject, "critical")
            ELSE IF h.current >= h.max /\ h.max > 0 /\ h.max > h.min /\ h.dwell >= saturationGrace
                 THEN When(TRUE, subject, "critical")
            ELSE IF h.current <= h.min /\ h.min > 0 /\ h.max > h.min + 1 /\ h.dwell >= idleGrace
                 THEN When(TRUE, subject, "warning")
            ELSE When(h.noMetric, subject, "warning")))

(* checkPVCExpansion: a young FileSystemResizePending hides the comparison of
   the requested and the actual size. *)
checkPVCExpansion(w, down) ==
    Needs({"persistentvolumeclaims"}, down, Each(w.objs, LAMBDA pvc :
        When(/\ ~pvc.system
             /\ IF pvc.pending THEN pvc.since >= capacityGrace
                ELSE pvc.request # pvc.capacity /\ pvc.age >= capacityGrace,
             <<"PersistentVolumeClaim", "ns/pvc">>, "critical")))

--------------------------------------------------------------------------------
(* ConfigDrift. *)
checkCRDStoredVersions(w, down) ==
    Needs({"customresourcedefinitions"}, down, Each(w.objs, LAMBDA crd :
        When(crd.stored > 1, <<"CustomResourceDefinition", "cluster/crd">>, "critical")))

(* deploymentMutatedAt: the Progressing condition's update, or the creation. *)
rolloutGrace == 15
deploymentMutatedAt(d) == IF d.since # Never THEN d.since ELSE d.age

Deployment == <<"Deployment", "ns/app">>
checkDeploymentRollouts(w, down) ==
    Needs({"deployments"}, down, Each(w.objs, LAMBDA d :
        IF d.system \/ d.replicas = 0 \/ deploymentMutatedAt(d) < rolloutGrace THEN <<>>
        ELSE IF d.generation > d.observed THEN When(TRUE, Deployment, "critical")
        ELSE When(d.updated < d.replicas, Deployment,
                  IF d.available = 0 THEN "critical" ELSE "warning")))

(* checkConfigChecksumDrift: the checksum/config values of the Deployment's
   pods, found through their ReplicaSets. *)
checkConfigChecksumDrift(w, down) ==
    Needs({"pods", "replicasets"}, down, Each(w.objs, LAMBDA d :
        When(~d.system /\ d.checksums >= 2, Deployment, "warning")))

ConfigDrift(w, down) == checkDeploymentRollouts(w, down) \o checkConfigChecksumDrift(w, down)
================================================================================
