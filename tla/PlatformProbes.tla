----------------------------- MODULE PlatformProbes -----------------------------
(***************************************************************************)
(* The probes of internal/probe that look at the platform: nodes, storage,   *)
(* databases, autoscaling, delivery and backup.  A probe that cannot read     *)
(* what it judges returns PROBE_FAILED or SKIPPED; some of them also raise a  *)
(* critical finding.                                                        *)
(***************************************************************************)
EXTENDS Findings

(* The status of a probe that reports one verdict for its component. *)
Verdict(findings, bad) == Result(IF findings = <<>> THEN "HEALTHY" ELSE bad, findings)
Alarm(component) == Result("PROBE_FAILED", When(TRUE, <<component, component>>, "critical"))

Nodes(w, down) ==
    IF "nodes" \in down \/ w.objs = <<>> THEN Alarm("Cluster Nodes")
    ELSE Verdict(When(Some(w.objs, LAMBDA n : n.ready # "True"),
                      <<"Cluster Nodes", "Cluster Nodes">>, "critical"), "CRITICAL")

(* NodePressure: one finding per condition type, types in alphabetical order. *)
pressureSeverity(type) ==
    IF type \in {"DiskPressure", "NetworkUnavailable"} THEN "critical" ELSE "warning"
NodePressure(w, down) ==
    LET present(type) == Some(w.objs, LAMBDA n : type \in n.pressure)
        types == SelectSeq(<<"DiskPressure", "MemoryPressure", "NetworkUnavailable", "PIDPressure">>,
                           present)
        findings == Each(types, LAMBDA t :
                        When(TRUE, <<"Node Pressure", "Node Pressure">>, pressureSeverity(t)))
    IN  IF "nodes" \in down \/ w.objs = <<>> THEN Result("PROBE_FAILED", <<>>)
        ELSE Verdict(findings, IF Of(findings, "critical") THEN "CRITICAL" ELSE "WARNING")

(* GPUNodes: gpus is the allocatable count of a GPU resource, Never on a node
   without one.  The status is WARNING even with critical findings. *)
nodeGPUAllocatable(n) == n.gpus
nodeReady(n) == n.ready = "True"
GPUNodes(w, down) ==
    LET component == <<"GPU Nodes", "GPU Nodes">>
        check(n) == IF nodeGPUAllocatable(n) = Never THEN <<>>
                    ELSE When(~nodeReady(n), component, "critical")
                         \o When(n.cordoned, component, "warning")
                         \o When(nodeGPUAllocatable(n) = 0, component, "critical")
        findings == Each(w.objs, check)
    IN  IF "nodes" \in down THEN Result("PROBE_FAILED", <<>>)
        ELSE Result(IF findings = <<>> THEN "OK" ELSE "WARNING", findings)

--------------------------------------------------------------------------------
(* ETCD and K3sDatastore look at the etcd pods of kube-system; ETCD leaves out
   the terminating ones. *)
looksLikeEtcdPod(p) == p.etcd
ETCD(w, down) ==
    LET members == SelectSeq(w.objs, LAMBDA p : ~p.terminating /\ looksLikeEtcdPod(p))
        component == <<"ETCD", "ETCD">>
        restarted(m) == m.restarts > 0
        findings == When(Some(members, LAMBDA m : ~m.ready), component, "critical")
                    \o When(Some(members, LAMBDA m : restarted(m) /\ ~m.ready), component, "critical")
                    \o When(Some(members, LAMBDA m : restarted(m) /\ m.ready), component, "warning")
    IN  IF "pods" \in down THEN Result("PROBE_FAILED", <<>>)
        ELSE IF members = <<>> THEN Result("WARNING", When(TRUE, component, "warning"))
        ELSE Verdict(findings, IF Of(findings, "critical") THEN "CRITICAL" ELSE "WARNING")

(* K3sDatastore: w.env.nodes are the hours since the last snapshot of each node
   with the etcd role (Never without one), w.env.configMap the hours since the
   newest snapshot ConfigMap. *)
defaultK3sSnapshotSLA == 26
declaredQuorum(w) == (Len(w.env.nodes) \div 2) + 1
staleSnapshot(w) ==
    LET ages == {w.env.nodes[i] : i \in DOMAIN w.env.nodes} \ {Never}
    IN  \E a, newest \in ages : a - newest > defaultK3sSnapshotSLA

snapshotConfigMap(w, down) ==
    "configmaps" \in down \/ w.env.configMap > defaultK3sSnapshotSLA

K3sDatastore(w, down) ==
    LET component == <<"K3s Datastore", "K3s Datastore">>
        members == SelectSeq(w.objs, looksLikeEtcdPod)
        declared == Len(w.env.nodes)
        running == Count(members, LAMBDA m : m.ready)
        findings ==
            When(declared >= 3 /\ running < declaredQuorum(w), component, "critical")
            \o When(declared = 2, component, "warning")
            \o When(declared > Len(members), component, "critical")
            \o When(Some(w.env.nodes, LAMBDA age : age = Never), component, "warning")
            \o When(staleSnapshot(w), component, "warning")
            \o When(running < Len(members), component, "critical")
            \o When(Some(members, LAMBDA m : m.restarts > 0), component, "warning")
            \o When(snapshotConfigMap(w, down), component, "warning")
    IN  IF "nodes" \in down THEN Result("PROBE_FAILED", <<>>)
        ELSE IF ~w.env.k3s THEN Result("SKIPPED", <<>>)
        ELSE IF "pods" \in down THEN Result("PROBE_FAILED", <<>>)
        ELSE Rollup(IF members = <<>> THEN When(~w.env.singleNodeOK, component, "info")
                    ELSE findings)

--------------------------------------------------------------------------------
PVCs(w, down) ==
    LET component == <<"Storage Claims", "Storage Claims">>
        lost == Some(w.objs, LAMBDA p : p.phase = "Lost")
        pending == Some(w.objs, LAMBDA p : p.phase = "Pending")
    IN  IF "persistentvolumeclaims" \in down THEN Alarm("Storage Claims")
        ELSE Verdict(When(lost, component, "critical") \o When(pending, component, "warning"),
                     IF lost THEN "CRITICAL" ELSE "DEGRADED")

(* K3sLocalPathStorage: claims of the class local-path, and claims without a
   class when it is known to be the default; free is the percentage of
   ephemeral storage a node can still allocate, Never when it does not say. *)
localPath(p, w, down) ==
    p.class = "local-path" \/ (p.class = "" /\ w.env.isDefault /\ "storageclasses" \notin down)
nodeDisk(free, i) ==
    When(free < 10, <<"Node", Name(i)>>, "critical")
    \o When(free >= 10 /\ free < 20, <<"Node", Name(i)>>, "warning")
K3sLocalPathStorage(w, down) ==
    LET claims == SelectSeq(w.objs, LAMBDA p : localPath(p, w, down))
        nodes == w.env.nodes
    IN  IF "persistentvolumeclaims" \in down THEN Alarm("K3s LocalPath Storage")
        ELSE IF claims = <<>> THEN Result("HEALTHY", <<>>)
        ELSE IF "nodes" \in down THEN Alarm("K3s LocalPath Storage")
        ELSE Rollup(EachNamed(nodes, nodeDisk)
                    \o When(nodes # <<>> /\ ~Some(nodes, LAMBDA free : free # Never),
                            <<"K3s LocalPath Storage", "K3s LocalPath Storage">>, "info")
                    \o EachNamed(w.objs, LAMBDA p, i :
                           When(localPath(p, w, down) /\ p.phase = "Pending",
                                <<"PVC", Name(i)>>, "warning")))

(* Ceph: used is the percentage of the capacity, 0 when the capacity is not
   known (percentUsed). *)
percentUsed(c) == c.used
cephHealth(c) ==
    CASE c.health = "HEALTH_OK"   -> "HEALTHY"
      [] c.health = "HEALTH_WARN" -> "warning"
      [] OTHER                    -> "critical"
Ceph(w, down) ==
    LET check(c) ==
            IF c.phase \notin {"", "Ready"} THEN When(TRUE, <<"Ceph", "ns/ceph">>, "critical")
            ELSE When(cephHealth(c) # "HEALTHY", <<"Ceph", "ns/ceph">>, cephHealth(c))
                 \o When(percentUsed(c) > 80, <<"Ceph", "ns/ceph">>, "warning")
    IN  IF "cephclusters" \in down THEN Alarm("Ceph Storage")
        ELSE IF w.objs = <<>> THEN Result("SKIPPED", <<>>)
        ELSE Rollup(Each(w.objs, check))

--------------------------------------------------------------------------------
(* Postgres: CNPG clusters if there are any, or else the pods of Spilo. *)
cnpgHealthy(c) == c.instances > 0 /\ c.ready = c.instances /\ c.phase = "healthy"
Postgres(w, down) ==
    LET cnpg == IF "clusters" \in down THEN <<>> ELSE w.objs
        subject == <<"PostgreSQL", "ns/pg">>
        primary == w.env.spilo
    IN  IF cnpg # <<>>
        THEN Verdict(Each(cnpg, LAMBDA c : When(~cnpgHealthy(c), subject, "critical")), "CRITICAL")
        ELSE IF "pods" \in down \/ primary = "" THEN Result("SKIPPED", <<>>)
        ELSE Verdict(When(primary # "Running", subject, "critical"), "CRITICAL")

(* Services: w.objs are targets, each with the readiness of its pods that are
   not terminating (podIsReadyProbe, podIsReady of services.go: all containers). *)
podIsReadyProbe(pod) == pod = "ready"
Services(w, down) ==
    LET check(t) ==
            LET ready == Count(t.pods, podIsReadyProbe)
            IN  When(t.pods # <<>> /\ ready = 0, <<"Service", "target">>, "critical")
                \o When(ready > 0 /\ ready < Len(t.pods), <<"Service", "target">>, "warning")
    IN  Rollup(Each(w.objs, LAMBDA t :
            IF "pods" \in down THEN When(TRUE, <<"Service", "target">>, "critical") ELSE check(t)))

DaemonSets(w, down) ==
    IF "daemonsets" \in down THEN Result("PROBE_FAILED", <<>>)
    ELSE Verdict(Each(w.objs, LAMBDA ds :
             When(ds.watched /\ ds.desired > 0 /\ ds.ready < ds.desired,
                  <<"System DaemonSets", "System DaemonSets">>, "critical")), "CRITICAL")

(* HPAScaling: the first condition that is False decides. *)
HPAScaling(w, down) ==
    LET failing(h) == SelectSeq(h.conditions, LAMBDA c : c # "True")
        severity(c) == IF c = "ScalingDisabled" THEN "warning" ELSE "critical"
    IN  IF "horizontalpodautoscalers" \in down THEN Result("PROBE_FAILED", <<>>)
        ELSE Rollup(Each(w.objs, LAMBDA h :
                 IF failing(h) = <<>> THEN <<>>
                 ELSE When(TRUE, <<"HPA", "ns/hpa">>, severity(failing(h)[1]))))

Kong(w, down) ==
    IF "kongplugins" \in down THEN Result("SKIPPED", <<>>)
    ELSE Rollup(Each(w.objs, LAMBDA p :
             When(p.programmed = "False", <<"KongPlugin", "ns/plugin">>, "critical")))

ArgoCDApplication(w, down) ==
    LET severity(app) ==
            CASE app.health \in {"Degraded", "Missing"} -> "critical"
              [] app.health = "Suspended" -> "warning"
              [] app.health \notin {"Degraded", "Missing", "Suspended"} /\ app.sync \in {"OutOfSync", "Unknown"} -> "warning"
              [] OTHER -> "HEALTHY"
    IN  IF "applications" \in down THEN Result("SKIPPED", <<>>)
        ELSE Rollup(Each(w.objs, LAMBDA app :
                 When(severity(app) # "HEALTHY", <<"Application", "ns/app">>, severity(app))))

(* Velero: hours; the backup of a schedule that was created last is judged. *)
defaultBackupSLA == 26
veleroStuckInProgress == 4
latestBackup(backups) ==
    backups[CHOOSE i \in DOMAIN backups : \A j \in DOMAIN backups :
        backups[i].age < backups[j].age \/ (backups[i].age = backups[j].age /\ i <= j)]
Velero(w, down) ==
    LET l == latestBackup(w.objs)
        severity == CASE l.phase = "Completed" ->
                            IF (IF l.completed # Never THEN l.completed ELSE l.age) > defaultBackupSLA
                            THEN "critical" ELSE "HEALTHY"
                      [] l.phase \in {"Failed", "PartiallyFailed"} -> "critical"
                      [] l.phase \in {"InProgress", ""} ->
                            IF l.age > veleroStuckInProgress THEN "warning" ELSE "HEALTHY"
                      [] OTHER -> "warning"
    IN  IF "backups" \in down THEN Result("SKIPPED", <<>>)
        ELSE IF w.objs = <<>> THEN Result("HEALTHY", <<>>)
        ELSE Rollup(When(severity # "HEALTHY", <<"Backup", "schedule">>, severity))
================================================================================
