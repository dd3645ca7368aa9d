------------------------------ MODULE AzureProbes ------------------------------
(***************************************************************************)
(* The Azure probes of internal/cloud/azure and the live client they call.   *)
(***************************************************************************)
EXTENDS CloudProbes

(* SQL.  The percentage comes from Azure Monitor, newest point last; the client
   takes every database to have backups. *)
latestStoragePercent(points) ==
    LET measured == SelectSeq(points, LAMBDA p : p # Never)
        last == measured[Len(measured)]
    IN  IF measured = <<>> THEN Never ELSE IF last > 100 THEN 100 ELSE last
SQLDatabaseStoragePercent(db, down) ==
    IF "monitor" \in down THEN Never ELSE latestStoragePercent(db.points)
ListSQLDatabases(w, down) ==
    Answer({"servers", "databases"} \cap down # {}, Decoded(w.objs, LAMBDA db :
        [status |-> db.status, used |-> SQLDatabaseStoragePercent(db, down), backup |-> TRUE]))
evaluateSQLDatabase(db, i) ==
    LET subject == <<"azure-sql", Name(i)>>
    IN  When(db.status # "Online", subject,
             IF db.status \in {"Offline", "Suspect", "EmergencyMode", "Inaccessible", "Disabled"}
             THEN "critical" ELSE "warning")
        \o StorageFinding(db.used, subject)
        \o When(~db.backup, subject, "warning")
SQLDatabases(w, down) == Inspect(w, ListSQLDatabases(w, down), evaluateSQLDatabase)

(* Disks.  The client sets neither the time of creation nor the time detached. *)
azureDetachedCleanupGrace == 24
azureTransitionalGrace == 1
ListDisks(w, down) ==
    Answer("disks" \in down, Decoded(w.objs, LAMBDA d :
        [provisioning |-> d.provisioning, state |-> d.state, attached |-> d.attached,
         age |-> Never, dwell |-> 0]))
evaluateDisk(d, i) ==
    LET subject == <<"azure-disk", Name(i)>>
        dwell == IF d.dwell = 0 /\ d.age # Never THEN d.age ELSE d.dwell
    IN  CASE d.provisioning = "Failed" -> When(TRUE, subject, "critical")
          [] d.provisioning \in {"Creating", "Updating"} ->
                When(d.age # Never /\ d.age > azureTransitionalGrace, subject, "warning")
          [] d.provisioning = "Succeeded" ->
                When(/\ d.state = "Unattached" /\ ~d.attached
                     /\ dwell > azureDetachedCleanupGrace, subject, "warning")
          [] OTHER -> When(TRUE, subject, "warning")
Disks(w, down) == Inspect(w, ListDisks(w, down), evaluateDisk)

(* AKS.  w.env.cluster.provisioning is "none" when no cluster has the name. *)
GetAKSCluster(w, down) == Answer("clusters" \in down, w.env.cluster)
AKSControlPlane(w, down) ==
    LET cluster == GetAKSCluster(w, down)
        c == cluster.items
        subject == <<"azure-aks", "cluster">>
    IN  IF ~w.env.configured THEN skipped
        ELSE IF cluster.failed THEN probeFailed
        ELSE IF c.provisioning = "none" THEN Result("CRITICAL", When(TRUE, subject, "critical"))
        ELSE Rollup(When(c.provisioning # "Succeeded" \/ c.power = "Stopped", subject,
                         IF c.provisioning = "Failed" \/ c.power = "Stopped"
                         THEN "critical" ELSE "warning"))

ListAKSNodePools(w, down) ==
    LET cluster == GetAKSCluster(w, down)
    IN  Answer(cluster.failed \/ (cluster.items.provisioning # "none" /\ "pools" \in down),
               IF cluster.items.provisioning = "none" THEN <<>>
               ELSE Decoded(w.objs, LAMBDA p : [provisioning |-> p.provisioning, power |-> p.power,
                        version |-> p.version, cluster |-> cluster.items.version]))
AKSNodePools(w, down) ==
    LET check(p, i) ==
            LET subject == <<"azure-aks-pool", Name(i)>>
            IN  When(p.provisioning # "Succeeded" \/ p.power = "Stopped", subject,
                     IF p.provisioning = "Failed" THEN "critical" ELSE "warning")
                \o When(VersionDrift(p.cluster, p.version), subject, "warning")
    IN  Inspect(w, ListAKSNodePools(w, down), check)

--------------------------------------------------------------------------------
(* Identities: role assignments that cannot be listed count as none. *)
countRoleAssignments(id, down) == IF "roleassignments" \in down THEN 0 ELSE id.roles
ListManagedIdentities(w, down) ==
    Answer("identities" \in down, Decoded(w.objs, LAMBDA id :
        [roles |-> countRoleAssignments(id, down)]))
ManagedIdentities(w, down) ==
    LET check(id, i) == When(id.roles = 0, <<"azure-identity", Name(i)>>, "warning")
    IN  Inspect(w, ListManagedIdentities(w, down), check)

(* Subnets: the addresses in use are those of the subnet's attachments. *)
subnetUsedIPCount(s) == s.used
ListAzureSubnets(w, down) ==
    LET decode(s) ==
            LET total == usableIPsFromCIDR(s.mask, 5)
                used == subnetUsedIPCount(s)
            IN  [total |-> total, available |-> IF used > total THEN 0 ELSE total - used]
    IN  Answer({"vnets", "subnets"} \cap down # {}, Decoded(w.objs, decode))
AzureSubnets(w, down) ==
    LET check(s, i) == IF s.total = 0 THEN <<>>
                       ELSE FreeAddresses(s.available, s.total, <<"azure-subnet", Name(i)>>)
    IN  Inspect(w, ListAzureSubnets(w, down), check)

(* Application gateways: a server is as healthy as the best of its HTTP settings
   says; a pool whose gateway gave no health is not measured. *)
rankHealth(h) ==
    CASE h = "Up" -> 5 [] h = "Partial" -> 4 [] h = "Draining" -> 3 [] h = "Down" -> 2
      [] h = "Unknown" -> 1 [] OTHER -> 0
isHealthy(h) == h \in {"Up", "Partial"}
bestHealth(server) ==
    CHOOSE h \in server : \A other \in server : rankHealth(h) >= rankHealth(other)
aggregateBackendHealth(servers) ==
    [healthy |-> Count(servers, LAMBDA s : isHealthy(bestHealth(s))), total |-> Len(servers)]
ListAppGatewayBackends(w, down) ==
    LET decode(pool) ==
            LET health == aggregateBackendHealth(pool.servers)
            IN  IF "backendhealth" \in down \/ ~pool.reported
                THEN [healthy |-> Never, unhealthy |-> 0, total |-> pool.addresses]
                ELSE [healthy |-> health.healthy, unhealthy |-> 0,
                      total |-> IF health.total > 0 THEN health.total ELSE pool.addresses]
    IN  Answer("gateways" \in down, Decoded(w.objs, decode))
AppGatewayBackends(w, down) ==
    LET check(p, i) ==
            LET subject == <<"azure-appgw", Name(i)>>
            IN  IF p.healthy = Never THEN <<>>
                ELSE IF p.healthy = 0 /\ (p.unhealthy > 0 \/ p.total > 0)
                     THEN When(TRUE, subject, "critical")
                     ELSE When(p.unhealthy > 0, subject, "warning")
    IN  Inspect(w, ListAppGatewayBackends(w, down), check)

(* App Service certificates: one without thumbprint is not issued. *)
azureCertExpiryWarnWindow == 21
ListAppServiceCertificates(w, down) ==
    Answer("certificates" \in down, Decoded(w.objs, LAMBDA c :
        [issued |-> c.thumbprint, left |-> c.left]))
Certificates(w, down) ==
    LET check(c, i) == When(~c.issued \/ c.left < azureCertExpiryWarnWindow, <<"azure-cert", Name(i)>>,
                            IF c.issued THEN "warning" ELSE "critical")
    IN  Inspect(w, ListAppServiceCertificates(w, down), check)

ListStorageAccounts(w, down) ==
    Answer("accounts" \in down, Decoded(w.objs, LAMBDA a : [public |-> a.public, https |-> a.https]))
StoragePublicAccess(w, down) ==
    LET check(a, i) == When(a.public, <<"azure-storage", Name(i)>>, "critical")
                       \o When(~a.https, <<"azure-storage", Name(i)>>, "warning")
    IN  Inspect(w, ListStorageAccounts(w, down), check)

(* Key vaults: items are the days left of its keys, then of its secrets. *)
kvWarnWindow == 14
ListKeyVaults(w, down) ==
    Answer("vaults" \in down, Decoded(w.objs, LAMBDA v :
        [softDelete |-> v.softDelete, purge |-> v.purge, items |-> v.items]))
kvListItems(url, v, down) == Answer(url \in down, v.items)
ListKeyVaultItems(v, down) ==
    Answer("token" \in down \/ kvListItems("keys", v, down).failed
                            \/ kvListItems("secrets", v, down).failed, v.items)
KeyVaults(w, down) ==
    LET check(v, i) ==
            LET subject == <<"azure-keyvault", Name(i)>>
                items == ListKeyVaultItems(v, down)
            IN  When(~v.softDelete \/ ~v.purge, subject,
                     IF v.softDelete THEN "warning" ELSE "critical")
                \o (IF items.failed THEN <<>>
                    ELSE Each(items.items, LAMBDA left :
                            When(left <= kvWarnWindow, subject,
                                 IF left = 0 THEN "critical" ELSE "warning")))
    IN  Inspect(w, ListKeyVaults(w, down), check)
================================================================================
