------------------------------ MODULE DiagnosePass ------------------------------
(***************************************************************************)
(* Repeated passes of one rule of the catalog over a cluster that changes:   *)
(* objects come and go, time passes, reads of the API fail and recover.       *)
(*                                                                         *)
(* A pass never tells the watcher that a read failed otherwise than through    *)
(* what the rule returns, and of what the rule returns the watcher keeps one  *)
(* severity per subject.                                                    *)
(***************************************************************************)
EXTENDS PodRules, SecretRules, DriftRules, PostureRules, NetworkRules, PlatformProbes,
        AwsProbes, GcpProbes, AzureProbes

CONSTANTS
    Spaces,         \* rule -> [objects, max, envs, reads]: what the rule may meet
    MaxFailed       \* how many reads fail at a time

VARIABLES
    rule,           \* the rule, fixed in a behaviour
    world,          \* [objs, env]: what it reads
    down,           \* its reads that fail at the moment
    report,         \* subject -> severity after the last pass
    status,         \* ComponentResult.Status of the last pass
    since           \* what happened since: nothing, only time passed, or more

vars == <<rule, world, down, report, status, since>>

Rules == DOMAIN Spaces

--------------------------------------------------------------------------------
(* The catalog. *)
RunCloudProbe(r, w, d) ==
    CASE r = "RDS" -> RDS(w, d)
      [] r = "EBSVolumes" -> EBSVolumes(w, d)
      [] r = "EKSControlPlane" -> EKSControlPlane(w, d)
      [] r = "EKSNodeGroups" -> EKSNodeGroups(w, d)
      [] r = "IAMRoles" -> IAMRoles(w, d)
      [] r = "ALBTargetHealth" -> ALBTargetHealth(w, d)
      [] r = "ACMCertExpiry" -> ACMCertExpiry(w, d)
      [] r = "KMSKeys" -> KMSKeys(w, d)
      [] r = "S3BucketPublicAccess" -> S3BucketPublicAccess(w, d)
      [] r = "VPCSubnets" -> VPCSubnets(w, d)
      [] r = "CloudSQL" -> CloudSQL(w, d)
      [] r = "PersistentDisks" -> PersistentDisks(w, d)
      [] r = "GKEControlPlane" -> GKEControlPlane(w, d)
      [] r = "GKENodePools" -> GKENodePools(w, d)
      [] r = "IAMServiceAccounts" -> IAMServiceAccounts(w, d)
      [] r = "GcpSubnets" -> GcpSubnets(w, d)
      [] r = "LoadBalancerBackends" -> LoadBalancerBackends(w, d)
      [] r = "ManagedCertificates" -> ManagedCertificates(w, d)
      [] r = "GCSPublicAccess" -> GCSPublicAccess(w, d)
      [] r = "CryptoKeys" -> CryptoKeys(w, d)
      [] r = "SQLDatabases" -> SQLDatabases(w, d)
      [] r = "Disks" -> Disks(w, d)
      [] r = "AKSControlPlane" -> AKSControlPlane(w, d)
      [] r = "AKSNodePools" -> AKSNodePools(w, d)
      [] r = "ManagedIdentities" -> ManagedIdentities(w, d)
      [] r = "AzureSubnets" -> AzureSubnets(w, d)
      [] r = "AppGatewayBackends" -> AppGatewayBackends(w, d)
      [] r = "Certificates" -> Certificates(w, d)
      [] r = "StoragePublicAccess" -> StoragePublicAccess(w, d)
      [] r = "KeyVaults" -> KeyVaults(w, d)

RunProbe(r, w, d) ==
    CASE r = "CrashLoopBackOff" -> CrashLoopBackOff(w, d)
      [] r = "PendingPods" -> PendingPods(w, d)
      [] r = "FailedMounts" -> FailedMounts(w, d)
      [] r = "Nodes" -> Nodes(w, d)
      [] r = "NodePressure" -> NodePressure(w, d)
      [] r = "GPUNodes" -> GPUNodes(w, d)
      [] r = "ETCD" -> ETCD(w, d)
      [] r = "K3sDatastore" -> K3sDatastore(w, d)
      [] r = "PVCs" -> PVCs(w, d)
      [] r = "K3sLocalPathStorage" -> K3sLocalPathStorage(w, d)
      [] r = "Ceph" -> Ceph(w, d)
      [] r = "Postgres" -> Postgres(w, d)
      [] r = "Services" -> Services(w, d)
      [] r = "DaemonSets" -> DaemonSets(w, d)
      [] r = "HPAScaling" -> HPAScaling(w, d)
      [] r = "Kong" -> Kong(w, d)
      [] r = "ArgoCDApplication" -> ArgoCDApplication(w, d)
      [] r = "Velero" -> Velero(w, d)
      [] r = "KongRoutes" -> KongRoutes(w, d)
      [] r = "TraefikRoutes" -> TraefikRoutes(w, d)
      [] OTHER -> RunCloudProbe(r, w, d)

(* Analyzers that report the same Pod, or the same Namespace, run
   in the order of their registration. *)
RunAnalyzer(r, w, d) ==
    CASE r = "PodAnalyzers" ->
            Analyzer(ImagePullAuth(w, d) \o FailedPods(w, d) \o OOMKillRecurrence(w, d))
      [] r = "LogPatternMatcher" -> Analyzer(LogPatternMatcher(w, d))
      [] r = "SecretKeyMissing" -> Analyzer(SecretKeyMissing(w, d))
      [] r = "CronJobStuck" -> Analyzer(CronJobStuck(w, d))
      [] r = "FailingExternalSecrets" -> Analyzer(FailingExternalSecrets(w, d))
      [] r = "SecretReferences" ->
            Analyzer(ProactiveSecretKeyCheck(w, d) \o UnprovisionedSecret(w, d))
      [] r = "TLSSecretMismatch" -> Analyzer(TLSSecretMismatch(w, d))
      [] r = "CertExpiry" -> CertExpiry(w, d)
      [] r = "VaultPathMissing" -> Analyzer(VaultPathMissing(w, d))
      [] r = "PodDisruptionBudgets" -> Analyzer(runPDB(w, d))
      [] r = "StuckJobs" -> Analyzer(runStuckJobs(w, d))
      [] r = "ResourceQuotas" -> Analyzer(runResourceQuota(w, d))
      [] r = "PVOrphan" -> Analyzer(PVOrphan(w, d))
      [] r = "CNPGClusters" -> Analyzer(checkCNPGClusters(w, d))
      [] r = "StatefulSets" -> Analyzer(checkStatefulSets(w, d))
      [] r = "ArgoApplications" -> Analyzer(checkArgoApplications(w, d))
      [] r = "Flux" -> Analyzer(checkFlux(w, d))
      [] r = "HPAs" -> Analyzer(checkHPAs(w, d))
      [] r = "PVCExpansion" -> Analyzer(checkPVCExpansion(w, d))
      [] r = "CRDStoredVersions" -> Analyzer(checkCRDStoredVersions(w, d))
      [] r = "ConfigDrift" -> Analyzer(ConfigDrift(w, d))
      [] r = "RBACDrift" -> Analyzer(RBACDrift(w, d))
      [] r = "MutableImageTags" -> Analyzer(checkMutableImageTags(w, d))
      [] r = "NamespacePosture" ->
            Analyzer(checkPSSPosture(w, d) \o checkNetworkPolicyCoverage(w, d)
                     \o NetworkPolicyProposer(w, d))
      [] r = "DNSChainDrift" -> Analyzer(DNSChainDrift(w, d))
      [] OTHER -> RunProbe(r, w, d)

Run(w, d) == RunAnalyzer(rule, w, d)

--------------------------------------------------------------------------------
Space == Spaces[rule]
Worlds(space) ==
    [objs : UNION {[1..n -> space.objects] : n \in 0..space.max}, env : space.envs]

NoReport == buildCurrentState(<<>>)

Init ==
    /\ rule \in Rules
    /\ world \in Worlds(Space)
    /\ down = {}
    /\ report = NoReport
    /\ status = ""
    /\ since = "more"

(* runDiagnose and runCloudDiagnose run the rule, buildCurrentState keeps what it
   returned.  A panic ends the process before anything is kept. *)
Pass ==
    LET result == Run(world, down)
    IN  /\ status' = result.status
        /\ report' = IF result.status = "PANIC" THEN report ELSE buildCurrentState(result.findings)
        /\ since' = "nothing"
        /\ UNCHANGED <<rule, world, down>>

ReadFails ==
    /\ Cardinality(down) < MaxFailed
    /\ \E r \in Space.reads \ down : down' = down \cup {r}
    /\ since' = "more"
    /\ UNCHANGED <<rule, world, report, status>>

ReadRecovers ==
    /\ \E r \in down : down' = down \ {r}
    /\ since' = "more"
    /\ UNCHANGED <<rule, world, report, status>>

(* An object is created or deleted; what else the rule reads stays as it is. *)
ObjectCreated ==
    /\ Len(world.objs) < Space.max
    /\ \E o \in Space.objects : world' = [world EXCEPT !.objs = Append(@, o)]
    /\ since' = "more"
    /\ UNCHANGED <<rule, down, report, status>>

ObjectDeleted ==
    /\ world.objs # <<>>
    /\ world' = [world EXCEPT !.objs = Tail(@)]
    /\ since' = "more"
    /\ UNCHANGED <<rule, down, report, status>>

(* Time passes for all objects alike: what was younger stays younger. *)
Rising == {"age", "since", "dwell", "success", "scheduled", "killed", "completed"}
Clocks(objs) == {c \in (DOMAIN objs) \X (Rising \cup {"left"}) : c[2] \in DOMAIN objs[c[1]]}
Read(objs, c) == objs[c[1]][c[2]]

Aged(before, after) ==
    /\ \A i \in DOMAIN before : \A f \in DOMAIN before[i] \ (Rising \cup {"left"}) :
           after[i][f] = before[i][f]
    /\ \A c \in Clocks(before) :
           \/ Read(before, c) = Never /\ Read(after, c) = Never
           \/ /\ Never \notin {Read(before, c), Read(after, c)}
              /\ IF c[2] = "left" THEN Read(after, c) <= Read(before, c)
                                  ELSE Read(after, c) >= Read(before, c)
    /\ \A c, e \in Clocks(before) : "left" \notin {c[2], e[2]} =>
           (Read(before, c) < Read(before, e)) = (Read(after, c) < Read(after, e))

TimePasses ==
    /\ Clocks(world.objs) # {}
    /\ \E objs \in [DOMAIN world.objs -> Space.objects] :
          /\ objs # world.objs
          /\ Aged(world.objs, objs)
          /\ world' = [world EXCEPT !.objs = objs]
    /\ since' = IF since = "more" THEN "more" ELSE "time"
    /\ UNCHANGED <<rule, down, report, status>>

Next == Pass \/ ReadFails \/ ReadRecovers \/ ObjectCreated \/ ObjectDeleted \/ TimePasses

Spec == Init /\ [][Next]_vars

--------------------------------------------------------------------------------
(* The reads whose failure a rule takes for the absence of what it would have
   read, so that a failing API raises findings about a healthy cluster. *)
PresumedAbsent ==
    {<<"SecretReferences", "secrets">>, <<"SecretReferences", "externalsecrets">>,
     <<"VaultPathMissing", "ClusterSecretStore">>, <<"VaultPathMissing", "SecretStore">>,
     <<"VaultPathMissing", "a">>, <<"VaultPathMissing", "b">>, <<"VaultPathMissing", "c">>,
     <<"RBACDrift", "allowlist">>, <<"RBACDrift", "serviceaccounts">>,
     <<"RBACDrift", "RoleBinding">>,
     <<"NamespacePosture", "daemonsets">>, <<"NamespacePosture", "networkpolicies">>,
     <<"NamespacePosture", "networkpolicies of the namespace">>,
     <<"DNSChainDrift", "zones">>, <<"DNSChainDrift", "z">>, <<"DNSChainDrift", "service">>,
     <<"DNSChainDrift", "endpointslices">>, <<"DNSChainDrift", "endpoints">>,
     <<"KongRoutes", "endpointslices">>,
     <<"TraefikRoutes", "middlewares">>, <<"TraefikRoutes", "tlsstores">>,
     <<"Nodes", "nodes">>, <<"PVCs", "persistentvolumeclaims">>, <<"Services", "pods">>,
     <<"K3sLocalPathStorage", "persistentvolumeclaims">>, <<"K3sLocalPathStorage", "nodes">>,
     <<"Ceph", "cephclusters">>, <<"Postgres", "clusters">>, <<"K3sDatastore", "configmaps">>,
     <<"S3BucketPublicAccess", "pab">>, <<"LoadBalancerBackends", "health">>,
     <<"ManagedIdentities", "roleassignments">>}

(* A read that fails raises no finding, and raises none to a higher severity,
   apart from the reads named above: what a pass reports while reads fail, a pass
   that could read everything would find at least as severe. *)
FailedReadRaisesNothing ==
    [][(Pass /\ status' # "PANIC" /\ \A r \in down : <<rule, r>> \notin PresumedAbsent) =>
        LET truth == Run(world, {}).findings
        IN  \A s \in DOMAIN report' : \E i \in DOMAIN truth :
                /\ truth[i].subject = s
                /\ SeverityRank(report'[s]) <= SeverityRank(NormalizeSeverity(truth[i].severity))]_vars

(* OOMKillRecurrence looks back 24 hours.  The certificates of a domain share a
   subject, so one that comes to expire soon hides one that is about to. *)
Forgetting == {"PodAnalyzers", "ACMCertExpiry"}

(* A subject that is reported stays reported, at least as severely, when between
   two passes nothing happens except that time passes, apart from the rules
   named above. *)
TimeOnlyEscalates ==
    [][(Pass /\ since = "time" /\ rule \notin Forgetting) =>
        \A s \in DOMAIN report : RankIn(report', s) >= SeverityRank(report[s])]_vars

(* The secondary reads whose failure a probe does not show in its status. *)
Blind ==
    {<<"FailedMounts", "events">>, <<"K3sLocalPathStorage", "storageclasses">>,
     <<"Postgres", "clusters">>,
     <<"TraefikRoutes", "ingressroutetcps">>, <<"CloudSQL", "monitoring">>,
     <<"GCSPublicAccess", "bucket policy">>, <<"SQLDatabases", "monitor">>,
     <<"AppGatewayBackends", "backendhealth">>, <<"KeyVaults", "token">>,
     <<"KeyVaults", "keys">>, <<"KeyVaults", "secrets">>}

(* A probe says HEALTHY only where it would not say CRITICAL if it could read
   everything, apart from the reads named above; and a probe with a critical
   finding says so, apart from GPUNodes, which says WARNING. *)
StatusIsHonest ==
    [][Pass =>
        /\ (status' \in {"HEALTHY", "OK"} /\ \A r \in down : <<rule, r>> \notin Blind) =>
                Run(world, {}).status # "CRITICAL"
        /\ (status' # "" /\ rule # "GPUNodes" /\ Of(Run(world, down).findings, "critical")) =>
                status' \in {"CRITICAL", "PROBE_FAILED"}]_vars

(* A pass returns, whatever reads fail. *)
PassReturns == status # "PANIC"
================================================================================
