----------------------------- MODULE MCDiagnosePass -----------------------------
(***************************************************************************)
(* What every rule may meet: its objects (values on both sides of each        *)
(* threshold), how many of them, what else it reads and which reads may fail.  *)
(***************************************************************************)
EXTENDS DiagnosePass

On(objects, max, envs, reads) ==
    [objects |-> objects, max |-> max, envs |-> envs, reads |-> reads]
NoEnv == {[none |-> TRUE]}
Cloud == [configured : BOOLEAN]

Schedules ==
    [parsed : {FALSE}, minute : {0}, hour : {0}, dow : {0}, dom : {0}]
    \cup [parsed : {TRUE}, minute : {0, Fixed}, hour : {0}, dow : {0}, dom : {0}]
    \cup [parsed : {TRUE}, minute : {Fixed}, hour : {Fixed}, dow : {0, Fixed}, dom : {0, 2, Fixed}]

AnalyzerSpaces ==
    "PodAnalyzers" :> On([phase : {"Running", "Failed"}, terminating : BOOLEAN, restarts : {2, 3},
            killed : {1, 24, 25, Never}, waiting : {"", "ImagePullBackOff"},
            pullErrors : SUBSET {"auth"}], 1, NoEnv, {"pods", "events"})
    @@ "LogPatternMatcher" :> On([label : {"ImagePullBackOff", "ProbeFailed", "Forbidden"}, count : {0, 4, 5}],
            2, [exists : BOOLEAN, ready : BOOLEAN, restarts : {2, 3}], {"events", "pod"})
    @@ "SecretKeyMissing" :> On([waiting : {"", "CreateContainerConfigError"}, message : BOOLEAN, event : BOOLEAN],
            2, NoEnv, {"pods", "events"})
    @@ "CronJobStuck" :> On([suspended : BOOLEAN, schedule : Schedules, success : {1, 25, 169, Never},
            scheduled : {1, Never}, age : {24, 170, 800}], 1, NoEnv, {"cronjobs"})
    @@ "FailingExternalSecrets" :> On([ready : {"", "True", "False", "Unknown"}], 1, NoEnv, {"externalsecrets"})
    @@ "SecretReferences" :> On([kind : {"Deployment", "StatefulSet", "CronJob"}, ref : {"key", "envFrom", "volume"},
            optional : BOOLEAN], 1, [exists : BOOLEAN, hasKey : BOOLEAN, eso : BOOLEAN],
            {"secrets", "externalsecrets", "Deployment", "StatefulSet", "CronJob"})
    @@ "TLSSecretMismatch" :> On([left : {0, 13, 14, Never}, secret : {"s", "t"}, host : {"h"}], 1,
            [certs : UNION {[1..n -> [secret : {"s", "t"}, ready : {"True", "False"}, dnsNames : SUBSET {"h"}]] : n \in 0..1}],
            {"ingresses", "secret", "certificates"})
    @@ "CertExpiry" :> On([ready : {"", "True", "False"}, left : {-1, 0, 13, 14, Never}, requestFailed : BOOLEAN],
            1, NoEnv, {"certificates", "certificaterequests", "certificates of the namespace"})
    @@ "VaultPathMissing" :> On([kind : {"ClusterSecretStore", "SecretStore"}, vault : BOOLEAN,
            paths : {{}, {"a"}, {"a", "b", "c"}}, property : BOOLEAN], 1,
            [vault : [{"a", "b", "c"} -> {"present", "absent", "nokey"}]],
            {"externalsecrets", "ClusterSecretStore", "SecretStore", "a", "b", "c"})
    @@ "PodDisruptionBudgets" :> On([allowed : {0, 1}, since : {1, 5, Never}, age : {4, 5, 9}], 1, NoEnv, {"poddisruptionbudgets"})
    @@ "StuckJobs" :> On([indexed : BOOLEAN, failedIndexes : BOOLEAN, age : {9, 10}], 1, NoEnv, {"jobs"})
    @@ "ResourceQuotas" :> On([used : {1, 2, 3}, hard : {2}, age : {59, 60}], 1, NoEnv, {"resourcequotas"})
    @@ "PVOrphan" :> On([phase : {"Bound", "Released"}, age : {6, 7}], 2, NoEnv, {"persistentvolumes"})
    @@ "CNPGClusters" :> On([phase : {"", "healthy", "creating", "failover", "switchover"}, ready : {1, 2}, desired : {2},
            primary : {"a"}, target : {"a", "b"}, age : {4, 5}], 1, NoEnv, {"clusters"})
    @@ "StatefulSets" :> On([desired : {0, 2}, ready : {0, 1, 2}, pod0 : {"ready", "unready", "absent"}, age : {4, 5}],
            1, NoEnv, {"statefulsets", "pods"})
    @@ "ArgoApplications" :> On([sync : {"", "Synced", "OutOfSync"}, health : {"", "Healthy", "Degraded", "Missing"},
            since : {0, 9, 10}], 1, NoEnv, {"applications"})
    @@ "Flux" :> On([kind : {"Kustomization", "HelmRelease"}, ready : {"True", "False", "none"}, failed : BOOLEAN, since : {9, 10}],
            1, NoEnv, {"Kustomization", "HelmRelease"})
    @@ "HPAs" :> On([system : {FALSE}, ableFalse : BOOLEAN, since : {14, 15}, current : {1, 3, 9}, min : {1}, max : {9},
            dwell : {60, 24 * 60, 30 * 24 * 60}, noMetric : BOOLEAN], 1, NoEnv, {"horizontalpodautoscalers"})
    @@ "PVCExpansion" :> On([system : BOOLEAN, pending : BOOLEAN, since : {14, 15}, request : {1, 2}, capacity : {1}, age : {14, 15, 20}],
            1, NoEnv, {"persistentvolumeclaims"})
    @@ "CRDStoredVersions" :> On([stored : {1, 2}], 1, NoEnv, {"customresourcedefinitions"})
    @@ "ConfigDrift" :> On([system : {FALSE}, replicas : {0, 2}, since : {14, 15, Never}, age : {20}, generation : {2}, observed : {1, 2},
            updated : {1, 2}, available : {0, 1}, checksums : {1, 2}], 1, NoEnv, {"deployments", "pods", "replicasets"})
    @@ "RBACDrift" :> On([kind : {"ClusterRole", "Role"}, wildcards : SUBSET {"apps", "system-groups"}, system : BOOLEAN, allowed : BOOLEAN],
            1, [pods : {<<>>, <<[ns |-> "team", sa |-> "sa", automount |-> "unset"]>>,
                        <<[ns |-> "allowed", sa |-> "sa", automount |-> "true"]>>},
                automount : {"unset", "false"}, bindings : SUBSET {"RoleBinding"}, saAllowed : BOOLEAN],
            {"ClusterRole", "pods", "allowlist", "serviceaccounts", "RoleBinding"})
    @@ "MutableImageTags" :> On([system : {FALSE}, images : SUBSET {"pinned@sha256", "trusted:1", "other:1"}], 2,
            [reversed : BOOLEAN], {"pods"})
    @@ "NamespacePosture" :> On([system : {FALSE}, enforce : {"", "restricted"}, pods : BOOLEAN, policy : BOOLEAN, protected : BOOLEAN],
            2, [daemonsets : {{}, {"flannel"}, {"calico"}}, cap : {1}],
            {"namespaces", "pods", "networkpolicies", "daemonsets", "networkpolicies of the namespace"})
    @@ "DNSChainDrift" :> On([skipped : {FALSE}, host : {"a.example"}, paths : {{}, {"/x"}}, service : {"", "svc"}], 2,
            [seeds : SUBSET {"b.example"}, services : {<<>>, <<[controller |-> TRUE, ip |-> "ip"]>>}, token : BOOLEAN,
             zones : {[z |-> {}], [z |-> {[host |-> "a.example", content |-> "ip"]}], [z |-> {[host |-> "a.example", content |-> "other"]}]},
             backend : {[exists |-> FALSE, external |-> FALSE, slices |-> Never, endpoints |-> Never],
                        [exists |-> TRUE, external |-> TRUE, slices |-> Never, endpoints |-> Never],
                        [exists |-> TRUE, external |-> FALSE, slices |-> 1, endpoints |-> Never],
                        [exists |-> TRUE, external |-> FALSE, slices |-> Never, endpoints |-> 1],
                        [exists |-> TRUE, external |-> FALSE, slices |-> 0, endpoints |-> 1]}],
            {"ingresses", "services", "zones", "z", "service", "endpointslices", "endpoints"})

Waiting == [waiting : {"", "CrashLoopBackOff"}, restarts : {0, 10, 11}]
StuckPods == [phase : {"Running", "Pending"}, terminating : BOOLEAN, bound : BOOLEAN,
              waiting : {"", "ImagePullBackOff", "ContainerCreating"}, age : {59, 60, 89, 90},
              mountEvent : BOOLEAN]
EtcdPods == [etcd : BOOLEAN, terminating : {FALSE}, ready : BOOLEAN, restarts : {0, 1}]
Backend == {[slices |-> 1, endpoints |-> 1], [slices |-> 0, endpoints |-> 1], [slices |-> 1, endpoints |-> Never]}

ProbeSpaces ==
    "CrashLoopBackOff" :> On([terminating : {FALSE}, protected : BOOLEAN,
            containers : UNION {[1..n -> Waiting] : n \in 0..1}], 2, NoEnv, {"pods"})
    @@ "PendingPods" :> On(StuckPods, 1, NoEnv, {"pods"})
    @@ "FailedMounts" :> On(StuckPods, 1, NoEnv, {"pods", "events"})
    @@ "Nodes" :> On([ready : {"True", "False", "Unknown"}], 2, NoEnv, {"nodes"})
    @@ "NodePressure" :> On([pressure : SUBSET {"DiskPressure", "MemoryPressure", "PIDPressure"}], 2, NoEnv, {"nodes"})
    @@ "GPUNodes" :> On([ready : {"True", "False"}, gpus : {0, 1, Never}, cordoned : BOOLEAN], 2, NoEnv, {"nodes"})
    @@ "ETCD" :> On([etcd : BOOLEAN, terminating : BOOLEAN, ready : BOOLEAN, restarts : {0, 1}], 2, NoEnv, {"pods"})
    @@ "K3sDatastore" :> On(EtcdPods, 2,
            [nodes : {<<>>, <<1>>, <<1, 28>>, <<1, 2, Never>>}, configMap : {26, 27}, k3s : BOOLEAN, singleNodeOK : BOOLEAN],
            {"nodes", "pods", "configmaps"})
    @@ "PVCs" :> On([phase : {"Bound", "Pending", "Lost"}], 2, NoEnv, {"persistentvolumeclaims"})
    @@ "K3sLocalPathStorage" :> On([phase : {"Bound", "Pending"}, class : {"", "local-path", "other"}], 2,
            [isDefault : BOOLEAN, nodes : {<<>>, <<9, 10>>, <<19, 20>>, <<Never>>}],
            {"persistentvolumeclaims", "storageclasses", "nodes"})
    @@ "Ceph" :> On([phase : {"", "Ready", "Progressing"}, health : {"HEALTH_OK", "HEALTH_WARN", "HEALTH_ERR"}, used : {80, 81}],
            1, NoEnv, {"cephclusters"})
    @@ "Postgres" :> On([instances : {0, 2}, ready : {1, 2}, phase : {"healthy", "failover"}], 1,
            [spilo : {"", "none", "Running"}], {"clusters", "pods"})
    @@ "Services" :> On([pods : UNION {[1..n -> {"ready", "unready"}] : n \in 0..2}], 1, NoEnv, {"pods"})
    @@ "DaemonSets" :> On([watched : BOOLEAN, desired : {0, 2}, ready : {0, 1, 2}], 2, NoEnv, {"daemonsets"})
    @@ "HPAScaling" :> On([conditions : UNION {[1..n -> {"True", "ScalingDisabled", "FailedGetScale"}] : n \in 0..2}],
            1, NoEnv, {"horizontalpodautoscalers"})
    @@ "Kong" :> On([programmed : {"", "True", "False"}], 2, NoEnv, {"kongplugins"})
    @@ "ArgoCDApplication" :> On([health : {"", "Healthy", "Degraded", "Missing", "Suspended", "Progressing"},
            sync : {"Synced", "OutOfSync", "Unknown"}], 1, NoEnv, {"applications"})
    @@ "Velero" :> On([phase : {"", "Completed", "Failed", "PartiallyFailed", "InProgress", "New"}, age : {4, 5, 26, 27},
            completed : {4, 26, 27, Never}], 1, NoEnv, {"backups"})
    @@ "KongRoutes" :> On([kong : BOOLEAN, backends : {<<>>} \cup {<<b>> : b \in Backend}, plugins : SUBSET {"p"}, consumers : SUBSET {"c"}],
            1, [plugins : {{}, {"p"}, {"q"}}, consumers : {{}, {"c"}, {"d"}}],
            {"ingresses", "kongplugins", "kongconsumers", "endpointslices", "endpoints"})
    @@ "TraefikRoutes" :> On([tcp : BOOLEAN, services : SUBSET {"s"}, middlewares : SUBSET {"m"}, tls : {"", "no certificate"}], 2,
            [services : SUBSET {"s"}, middlewares : SUBSET {"m"}, tlsStore : BOOLEAN],
            {"ingressroutes", "ingressroutes (containo.us)", "services", "middlewares", "tlsstores", "ingressroutetcps"})

AwsSpaces ==
    "RDS" :> On([status : {"available", "modifying", "storage-full"}, multiAZ : BOOLEAN, replica : BOOLEAN, retention : {0, 6, 7}],
            1, Cloud, {"rds"})
    @@ "EBSVolumes" :> On([state : {"in-use", "available", "creating", "error"}, attached : BOOLEAN, age : {7, 8}], 2, Cloud, {"ebs"})
    @@ "EKSControlPlane" :> On([status : {"ACTIVE"}, issues : {FALSE}, desired : {1}, min : {1}, version : {<<1, 29>>, <<1, 27>>, <<1, 31>>}],
            1, [configured : BOOLEAN, cluster : [status : {"", "ACTIVE", "UPDATING", "FAILED"}, version : {<<1, 29>>, <<>>}],
                addons : {<<>>, <<[status |-> "DEGRADED", version |-> "v1", latest |-> "v2"]>>}],
            {"cluster", "nodegroups", "nodegroup", "addons", "versions"})
    @@ "EKSNodeGroups" :> On([status : {"ACTIVE", "UPDATING", "DEGRADED"}, issues : BOOLEAN, desired : {1, 2}, min : {2},
                version : {<<1, 29>>, <<1, 27>>, <<1>>}],
            1, [configured : BOOLEAN, cluster : [status : {"", "ACTIVE"}, version : {<<1, 29>>}], addons : {<<>>}],
            {"cluster", "nodegroups", "nodegroup"})
    @@ "IAMRoles" :> On([exists : BOOLEAN, trust : BOOLEAN], 2, Cloud, {"a", "b"})
    @@ "ALBTargetHealth" :> On([targets : UNION {[1..n -> {"healthy", "unhealthy", "draining", "initial"}] : n \in 0..2}],
            1, Cloud, {"targetgroups", "targethealth"})
    @@ "ACMCertExpiry" :> On([domain : {"a"}, status : {"ISSUED", "PENDING_VALIDATION", "EXPIRED"}, left : {2, 3, 13, 14, Never}],
            2, Cloud, {"acm"})
    @@ "KMSKeys" :> On([state : {"Enabled", "Disabled", "PendingDeletion", "Creating"}, left : {6, 7, Never}], 1, Cloud, {"kms", "kms key"})
    @@ "S3BucketPublicAccess" :> On([block : {"none", "partial", "full"}], 2, Cloud, {"s3", "pab"})
    @@ "VPCSubnets" :> On([free : {2, 3, 9, 10}], 2, Cloud, {"subnets"})

GcpSpaces ==
    "CloudSQL" :> On([state : {"RUNNABLE", "MAINTENANCE", "FAILED"}, resizes : BOOLEAN, backup : BOOLEAN,
                points : {<<>>, <<Never, 79>>, <<80>>, <<90, 10>>, <<101>>}], 1, Cloud, {"cloudsql", "monitoring"})
    @@ "PersistentDisks" :> On([status : {"READY", "CREATING", "FAILED", "OTHER"}, attached : BOOLEAN, age : {1, 2, 24, 25, Never}],
            1, Cloud, {"disks"})
    @@ "GKEControlPlane" :> On({[none |-> TRUE]}, 0,
            [configured : BOOLEAN, cluster : [status : {"", "RUNNING", "ERROR", "RECONCILING"}, version : {<<1, 29>>, <<>>}]], {"cluster"})
    @@ "GKENodePools" :> On([status : {"RUNNING", "ERROR", "STOPPING"}, version : {<<1, 29>>, <<1, 27>>, <<1, 30>>}], 2,
            [configured : BOOLEAN, cluster : [status : {"", "RUNNING"}, version : {<<1, 29>>}]], {"cluster", "nodepools"})
    @@ "IAMServiceAccounts" :> On([disabled : BOOLEAN, keys : 0..3, bound : BOOLEAN], 1, Cloud, {"serviceaccounts", "keys", "policy"})
    @@ "GcpSubnets" :> On([mask : {24, 26, 27, 30}], 2, Cloud, {"subnetworks"})
    @@ "LoadBalancerBackends" :> On([backends : UNION {[1..n -> BOOLEAN] : n \in 0..2}], 1, Cloud, {"backendservices", "health"})
    @@ "ManagedCertificates" :> On([managed : BOOLEAN, status : {"ACTIVE", "PROVISIONING", "RENEWAL_FAILED"}, left : {20, 21, Never}],
            1, Cloud, {"sslcertificates"})
    @@ "GCSPublicAccess" :> On([public : BOOLEAN, enforced : BOOLEAN], 2, Cloud, {"buckets", "bucket policy"})
    @@ "CryptoKeys" :> On([state : {"", "ENABLED", "DISABLED", "DESTROYED"}, rotates : BOOLEAN], 2, Cloud, {"keyrings", "cryptokeys"})

AzureSpaces ==
    "SQLDatabases" :> On([status : {"Online", "Paused", "Offline"}, points : {<<>>, <<90, 79>>, <<10, 80>>, <<101, Never>>}],
            1, Cloud, {"servers", "databases", "monitor"})
    @@ "Disks" :> On([provisioning : {"Succeeded", "Creating", "Failed", "Deleting"}, state : {"Attached", "Unattached"}, attached : BOOLEAN],
            1, Cloud, {"disks"})
    @@ "AKSControlPlane" :> On({[none |-> TRUE]}, 0,
            [configured : BOOLEAN, cluster : [provisioning : {"none", "Succeeded", "Failed", "Updating"}, power : {"Running", "Stopped"},
                                              version : {<<1, 29>>}]], {"clusters"})
    @@ "AKSNodePools" :> On([provisioning : {"Succeeded", "Failed", "Updating"}, power : {"Running", "Stopped"}, version : {<<1, 29>>, <<1, 27>>}],
            1, [configured : BOOLEAN, cluster : [provisioning : {"none", "Succeeded"}, power : {"Running"}, version : {<<1, 29>>}]],
            {"clusters", "pools"})
    @@ "ManagedIdentities" :> On([roles : 0..1], 2, Cloud, {"identities", "roleassignments"})
    @@ "AzureSubnets" :> On([mask : {28, 30}, used : {0, 8, 10, 11}], 1, Cloud, {"vnets", "subnets"})
    @@ "AppGatewayBackends" :> On([reported : BOOLEAN, addresses : 0..1,
                servers : UNION {[1..n -> {{"Up"}, {"Down"}, {"Up", "Down"}, {"Draining"}}] : n \in 0..1}],
            1, Cloud, {"gateways", "backendhealth"})
    @@ "Certificates" :> On([thumbprint : BOOLEAN, left : {20, 21, Never}], 2, Cloud, {"certificates"})
    @@ "StoragePublicAccess" :> On([public : BOOLEAN, https : BOOLEAN], 2, Cloud, {"accounts"})
    @@ "KeyVaults" :> On([softDelete : BOOLEAN, purge : BOOLEAN, items : {<<>>, <<0, 14>>, <<15>>}], 1, Cloud,
            {"vaults", "token", "keys", "secrets"})

AllSpaces == AnalyzerSpaces @@ ProbeSpaces @@ AwsSpaces @@ GcpSpaces @@ AzureSpaces

CertSpaces == [r \in {"CertExpiry"} |-> AnalyzerSpaces[r]]
================================================================================
