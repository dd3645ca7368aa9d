------------------------------- MODULE AwsProbes -------------------------------
(***************************************************************************)
(* The AWS probes of internal/cloud/aws and the live client they call.       *)
(* w.objs are the objects of the AWS API, w.env.configured says that there is  *)
(* a client (and, for EKS and IAM, that the setting is present).              *)
(***************************************************************************)
EXTENDS CloudProbes

(* RDS.  The client reads no storage metric: StorageUsedPercent stays 0. *)
mapDBInstance(db) ==
    [status |-> db.status, used |-> 0, multiAZ |-> db.multiAZ, replica |-> db.replica,
     retention |-> db.retention]
DescribeDBInstances(w, down) == Answer("rds" \in down, Decoded(w.objs, mapDBInstance))

backupRetentionWarnDays == 7
evaluateInstance(db, i) ==
    LET subject == <<"aws-rds", Name(i)>>
    IN  When(db.status # "available", subject,
             IF db.status \in {"storage-full", "failed"} THEN "critical" ELSE "warning")
        \o StorageFinding(db.used, subject)
        \o When(~db.multiAZ /\ ~db.replica, subject, "warning")
        \o When(db.retention < backupRetentionWarnDays, subject,
                IF db.retention = 0 THEN "warning" ELSE "info")
RDS(w, down) == Inspect(w, DescribeDBInstances(w, down), evaluateInstance)

(* EBS.  A volume without attachment is taken to be detached since it was made. *)
detachedAgeThreshold == 7
DescribeVolumes(w, down) ==
    Answer("ebs" \in down,
           Decoded(w.objs, LAMBDA v : [state |-> v.state,
                                       detached |-> IF v.attached THEN 0 ELSE v.age]))
EBSVolumes(w, down) ==
    LET check(v, i) ==
            LET subject == <<"aws-ebs", Name(i)>>
            IN  When(v.state \notin {"in-use", "available"}, subject,
                     IF v.state = "error" THEN "critical" ELSE "warning")
                \o When(v.state = "available" /\ v.detached > detachedAgeThreshold, subject, "warning")
    IN  Inspect(w, DescribeVolumes(w, down), check)

(* EKS.  w.env.cluster.status is "" when the cluster does not exist. *)
DescribeEKSCluster(w, down) == Answer("cluster" \in down, w.env.cluster)
ListEKSNodeGroups(w, down) ==
    Answer({"nodegroups", "nodegroup"} \cap down # {},
           Decoded(w.objs, LAMBDA g : [status |-> g.status, issues |-> g.issues,
                                       desired |-> g.desired, min |-> g.min,
                                       version |-> g.version]))
(* latest is "" when the versions of the add-on cannot be listed. *)
ListEKSAddons(w, down) ==
    Answer("addons" \in down,
           Decoded(w.env.addons, LAMBDA a : [status |-> a.status, version |-> a.version,
                latest |-> IF "versions" \in down THEN "" ELSE a.latest]))

eksAddon(a, i) ==
    When(a.status \in {"DEGRADED", "CREATE_FAILED", "UPDATE_FAILED"}, <<"aws-eks-addon", Name(i)>>,
         "warning")
    \o When(a.latest # "" /\ a.version # "" /\ a.version # a.latest, <<"aws-eks-addon", Name(i)>>,
            "info")
EKSControlPlane(w, down) ==
    LET cluster == DescribeEKSCluster(w, down)
        groups == ListEKSNodeGroups(w, down)
        addons == ListEKSAddons(w, down)
        subject == <<"aws-eks", "cluster">>
        status == cluster.items.status
        skew(g, i) == When(VersionDrift(cluster.items.version, g.version),
                           <<"aws-eks-ng", Name(i)>>, "warning")
    IN  IF ~w.env.configured THEN skipped
        ELSE IF cluster.failed THEN probeFailed
        ELSE IF status = "" THEN Result("CRITICAL", When(TRUE, subject, "critical"))
        ELSE Rollup(When(status # "ACTIVE", subject,
                         IF status \in {"CREATING", "UPDATING"} THEN "warning" ELSE "critical")
                    \o (IF groups.failed THEN <<>> ELSE EachNamed(groups.items, skew))
                    \o (IF addons.failed THEN <<>> ELSE EachNamed(addons.items, eksAddon)))

EKSNodeGroups(w, down) ==
    LET cluster == DescribeEKSCluster(w, down)
        version == IF cluster.failed \/ cluster.items.status = "" THEN <<>>
                   ELSE cluster.items.version
        check(g, i) ==
            LET subject == <<"aws-eks-ng", Name(i)>>
            IN  When(g.status # "ACTIVE", subject,
                     IF g.status \in {"CREATING", "UPDATING"} THEN "warning" ELSE "critical")
                \o When(g.issues /\ g.status = "ACTIVE", subject, "warning")
                \o When(g.desired < g.min, subject, "warning")
                \o When(VersionDrift(version, g.version), subject, "warning")
    IN  Inspect(w, ListEKSNodeGroups(w, down), check)

--------------------------------------------------------------------------------
(* IAM: the roles are read one by one, and the first that cannot be read fails
   the probe, which drops what it had found. *)
GetIAMRole(w, i, down) ==
    Answer(Name(i) \in down,
           [exists |-> w.objs[i].exists, trust |-> w.objs[i].exists /\ w.objs[i].trust])
IAMRoles(w, down) ==
    LET role(i) == GetIAMRole(w, i, down).items
        check(r, i) == When(~role(i).exists \/ ~role(i).trust, <<"aws-iam-role", Name(i)>>,
                            IF role(i).exists THEN "warning" ELSE "critical")
    IN  Inspect(w, Answer(\E i \in DOMAIN w.objs : GetIAMRole(w, i, down).failed, w.objs), check)

(* ALB: draining targets count as unhealthy. *)
DescribeALBTargetGroupsWithHealth(w, down) ==
    LET decode(tg) == LET In(states) == Count(tg.targets, LAMBDA t : t \in states)
                      IN  [healthy |-> In({"healthy"}), unhealthy |-> In({"unhealthy", "draining"}),
                           initial |-> In({"initial"})]
    IN  Answer({"targetgroups", "targethealth"} \cap down # {}, Decoded(w.objs, decode))
ALBTargetHealth(w, down) ==
    LET check(tg, i) ==
            When(tg.healthy = 0 /\ tg.unhealthy > 0, <<"aws-alb-tg", Name(i)>>, "critical")
            \o When(tg.healthy + tg.unhealthy + tg.initial = 0, <<"aws-alb-tg", Name(i)>>, "warning")
    IN  Inspect(w, DescribeALBTargetGroupsWithHealth(w, down), check)

(* ACM: the subject is the domain, which several certificates may share; left
   are the days until NotAfter, Never when there is none. *)
certExpiryWindowWarn == 14
certExpiryWindowCrit == 3
ListACMCertificates(w, down) ==
    Answer("acm" \in down, Decoded(w.objs, LAMBDA c :
        [domain |-> c.domain, status |-> c.status, left |-> c.left]))
ACMCertExpiry(w, down) ==
    LET check(c, i) ==
            LET subject == <<"aws-acm", c.domain>>
            IN  CASE c.status = "PENDING_VALIDATION" -> When(TRUE, subject, "warning")
                  [] c.status \notin {"ISSUED", "PENDING_VALIDATION"} -> When(TRUE, subject, "critical")
                  [] OTHER -> When(c.left < certExpiryWindowWarn, subject,
                                   IF c.left < certExpiryWindowCrit THEN "critical" ELSE "warning")
    IN  Inspect(w, ListACMCertificates(w, down), check)

(* KMS: left are the days until the deletion date. *)
kmsDeletionWindowCrit == 7
ListKMSKeys(w, down) ==
    Answer({"kms", "kms key"} \cap down # {}, Decoded(w.objs, LAMBDA k :
        [state |-> k.state, left |-> k.left]))
KMSKeys(w, down) ==
    LET check(k, i) ==
            When(k.state \notin {"Enabled", "Creating"}, <<"aws-kms", Name(i)>>,
                 IF k.state = "PendingDeletion" /\ k.left < kmsDeletionWindowCrit
                 THEN "critical" ELSE "warning")
    IN  Inspect(w, ListKMSKeys(w, down), check)

(* S3: a public access block that cannot be read counts as one that is missing. *)
ListS3BucketPAB(w, down) ==
    Answer("s3" \in down, Decoded(w.objs, LAMBDA b :
        [policyError |-> b.block = "none" \/ "pab" \in down, full |-> b.block = "full"]))
S3BucketPublicAccess(w, down) ==
    LET check(b, i) == When(b.policyError \/ ~b.full, <<"aws-s3", Name(i)>>, "critical")
    IN  Inspect(w, ListS3BucketPAB(w, down), check)

(* VPC: free addresses. *)
subnetWarnIPs == 10
subnetCritIPs == 3
DescribeSubnets(w, down) ==
    Answer("subnets" \in down, Decoded(w.objs, LAMBDA s : [free |-> s.free]))
VPCSubnets(w, down) ==
    LET check(s, i) == When(s.free < subnetWarnIPs, <<"aws-subnet", Name(i)>>,
                            IF s.free < subnetCritIPs THEN "critical" ELSE "warning")
    IN  Inspect(w, DescribeSubnets(w, down), check)
================================================================================
