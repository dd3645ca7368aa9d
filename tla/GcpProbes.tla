------------------------------- MODULE GcpProbes -------------------------------
(***************************************************************************)
(* The GCP probes of internal/cloud/gcp and the live client they call.       *)
(***************************************************************************)
EXTENDS CloudProbes

(* Cloud SQL.  The percentage comes from Cloud Monitoring, where a failed query
   and an empty answer both leave the instance unmeasured. *)
latestDiskUsedPercent(points) ==
    LET measured == SelectSeq(points, LAMBDA p : p # Never)
    IN  IF measured = <<>> THEN Never ELSE IF measured[1] > 100 THEN 100 ELSE measured[1]
CloudSQLDiskUsedPercent(db, down) ==
    IF "monitoring" \in down THEN Never ELSE latestDiskUsedPercent(db.points)
ListCloudSQLInstances(w, down) ==
    Answer("cloudsql" \in down, Decoded(w.objs, LAMBDA db :
        [state |-> db.state, resizes |-> db.resizes, backup |-> db.backup,
         used |-> CloudSQLDiskUsedPercent(db, down)]))
evaluateCloudSQLInstance(db, i) ==
    LET subject == <<"gcp-cloudsql", Name(i)>>
    IN  When(db.state # "RUNNABLE", subject,
             IF db.state \in {"FAILED", "SUSPENDED"} THEN "critical" ELSE "warning")
        \o (IF db.resizes THEN <<>> ELSE StorageFinding(db.used, subject))
        \o When(~db.backup, subject, "warning")
CloudSQL(w, down) == Inspect(w, ListCloudSQLInstances(w, down), evaluateCloudSQLInstance)

(* Persistent disks: ages in hours, Never for a timestamp that does not parse.
   The client does not know since when a disk is detached, so its age is used. *)
detachedCleanupGrace == 24
transitionalGrace == 1
ListPersistentDisks(w, down) ==
    Answer("disks" \in down, Decoded(w.objs, LAMBDA d :
        [status |-> d.status, attached |-> d.attached, dwell |-> 0, age |-> d.age]))
(* Seeded defect: the comparison is the wrong way round. *)
youngerThan(age, grace) == age # Never /\ age < grace

Older(age, grace) == age # Never /\ age > grace
evaluatePersistentDisk(d, i) ==
    LET subject == <<"gcp-disk", Name(i)>>
        dwell == IF d.dwell = 0 THEN d.age ELSE d.dwell
    IN  CASE d.status = "FAILED" -> When(TRUE, subject, "critical")
          [] d.status \in {"CREATING", "RESTORING", "DELETING"} ->
                When(Older(d.age, transitionalGrace), subject, "warning")
          [] d.status = "READY" ->
                When(~d.attached /\ Older(dwell, detachedCleanupGrace), subject, "warning")
          [] OTHER -> When(TRUE, subject, "warning")
PersistentDisks(w, down) == Inspect(w, ListPersistentDisks(w, down), evaluatePersistentDisk)

(* GKE.  w.env.cluster.status is "" when the cluster does not exist; the pools
   of a cluster that cannot be read have no version to compare with. *)
GetGKECluster(w, down) == Answer("cluster" \in down, w.env.cluster)
GKEControlPlane(w, down) ==
    LET cluster == GetGKECluster(w, down)
        subject == <<"gcp-gke", "cluster">>
        status == cluster.items.status
    IN  IF ~w.env.configured THEN skipped
        ELSE IF cluster.failed THEN probeFailed
        ELSE IF status = "" THEN Result("CRITICAL", When(TRUE, subject, "critical"))
        ELSE Rollup(When(status # "RUNNING", subject,
                         IF status \in {"ERROR", "DEGRADED"} THEN "critical" ELSE "warning")
                    \o When(status = "RUNNING" /\ cluster.items.version = <<>>, subject, "info"))

ListGKENodePools(w, down) ==
    LET cluster == GetGKECluster(w, down)
        version == IF cluster.failed \/ cluster.items.status = "" THEN <<>>
                   ELSE cluster.items.version
        decode(p) == [status |-> p.status, version |-> p.version, cluster |-> version]
    IN  Answer("nodepools" \in down,
               IF w.env.cluster.status = "" THEN <<>> ELSE Decoded(w.objs, decode))
GKENodePools(w, down) ==
    LET check(p, i) ==
            LET subject == <<"gcp-gke-pool", Name(i)>>
            IN  When(p.status # "RUNNING", subject,
                     IF p.status \in {"ERROR", "RUNNING_WITH_ERROR"} THEN "critical" ELSE "warning")
                \o When(VersionDrift(p.cluster, p.version), subject, "warning")
    IN  Inspect(w, ListGKENodePools(w, down), check)

--------------------------------------------------------------------------------
(* Service accounts: keys or a policy that cannot be read count as none. *)
keySprawlThreshold == 2
hasWorkloadIdentityBinding(sa) == sa.bound
ListServiceAccounts(w, down) ==
    Answer("serviceaccounts" \in down, Decoded(w.objs, LAMBDA sa :
        [disabled |-> sa.disabled, keys |-> IF "keys" \in down THEN 0 ELSE sa.keys,
         bound |-> "policy" \notin down /\ hasWorkloadIdentityBinding(sa)]))
IAMServiceAccounts(w, down) ==
    LET check(sa, i) ==
            LET subject == <<"gcp-sa", Name(i)>>
            IN  IF sa.disabled /\ sa.keys > 0 THEN When(TRUE, subject, "warning")
                ELSE When(sa.keys > keySprawlThreshold, subject, "warning")
                     \o When(sa.bound /\ sa.keys > 0, subject, "warning")
    IN  Inspect(w, ListServiceAccounts(w, down), check)

(* Subnets: the client measures no usage (Never stands for -1), so only small
   ranges are reported. *)
defaultSmallPrefixThreshold == 26
ListGcpSubnets(w, down) ==
    Answer("subnetworks" \in down, Decoded(w.objs, LAMBDA s :
        [mask |-> s.mask, total |-> usableIPsFromCIDR(s.mask, 4), available |-> Never]))
GcpSubnets(w, down) ==
    LET check(s, i) ==
            LET subject == <<"gcp-subnet", Name(i)>>
            IN  IF s.total = 0 THEN <<>>
                ELSE IF s.available = Never
                     THEN When(s.mask > defaultSmallPrefixThreshold, subject, "warning")
                     ELSE FreeAddresses(s.available, s.total, subject)
    IN  Inspect(w, ListGcpSubnets(w, down), check)

(* Load balancers: a backend whose health cannot be read is not counted. *)
ListBackendServices(w, down) ==
    LET decode(s) == [total |-> Len(s.backends),
                      healthy |-> IF "health" \in down THEN 0 ELSE Count(s.backends, LAMBDA b : b),
                      unhealthy |-> IF "health" \in down THEN 0 ELSE Count(s.backends, LAMBDA b : ~b)]
    IN  Answer("backendservices" \in down, Decoded(w.objs, decode))
LoadBalancerBackends(w, down) ==
    LET check(s, i) ==
            LET subject == <<"gcp-lb", Name(i)>>
            IN  IF s.healthy = 0 /\ (s.unhealthy > 0 \/ s.total > 0)
                THEN When(TRUE, subject, "critical")
                ELSE When(s.unhealthy > 0, subject, "warning")
    IN  Inspect(w, ListBackendServices(w, down), check)

(* Managed certificates; self-managed ones are left out. *)
gcpCertExpiryWarnWindow == 21
ListManagedCertificates(w, down) ==
    Answer("sslcertificates" \in down, Decoded(w.objs, LAMBDA c :
        [managed |-> c.managed, status |-> c.status, left |-> c.left]))
ManagedCertificates(w, down) ==
    LET check(c, i) ==
            LET subject == <<"gcp-cert", Name(i)>>
            IN  IF ~c.managed THEN <<>>
                ELSE When(c.status = "ACTIVE" /\ c.left < gcpCertExpiryWarnWindow, subject, "warning")
                     \o When(c.status \in {"PROVISIONING_FAILED", "PROVISIONING_FAILED_PERMANENTLY",
                                           "RENEWAL_FAILED"}, subject, "critical")
    IN  Inspect(w, ListManagedCertificates(w, down), check)

(* Buckets: a policy that cannot be read has no public binding. *)
ListBuckets(w, down) ==
    Answer("buckets" \in down, Decoded(w.objs, LAMBDA b :
        [public |-> "bucket policy" \notin down /\ b.public, enforced |-> b.enforced]))
GCSPublicAccess(w, down) ==
    LET check(b, i) == When(b.public \/ ~b.enforced, <<"gcp-bucket", Name(i)>>,
                            IF b.public THEN "critical" ELSE "warning")
    IN  Inspect(w, ListBuckets(w, down), check)

(* KMS: state is "" for a key without a primary version. *)
ListCryptoKeys(w, down) ==
    Answer({"keyrings", "cryptokeys"} \cap down # {}, Decoded(w.objs, LAMBDA k :
        [state |-> k.state, rotates |-> k.rotates]))
CryptoKeys(w, down) ==
    LET check(k, i) ==
            LET subject == <<"gcp-kms", Name(i)>>
            IN  CASE k.state = "ENABLED"  -> When(~k.rotates, subject, "warning")
                  [] k.state = "DISABLED" -> When(TRUE, subject, "warning")
                  [] OTHER -> When(k.state \in {"DESTROY_SCHEDULED", "DESTROYED", "IMPORT_FAILED",
                                                "GENERATION_FAILED"}, subject, "critical")
    IN  Inspect(w, ListCryptoKeys(w, down), check)
================================================================================
