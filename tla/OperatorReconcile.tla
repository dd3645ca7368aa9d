--------------------------- MODULE OperatorReconcile ---------------------------
(***************************************************************************)
(* The operator (internal/operator: reconciler.go and the builders): it     *)
(* turns AgenticSRE resources into workloads, roles and bindings, removes   *)
(* what a changed spec no longer asks for, and cleans up behind a finalizer *)
(* what Kubernetes does not garbage-collect.                                *)
(*                                                                         *)
(* One worker reconciles one resource at a time, one write per step.  Reads *)
(* come from informer caches, which may be behind; an update based on an    *)
(* outdated copy is refused by the API server; any call may fail.  At the   *)
(* same time users edit and delete the resources and the objects, the       *)
(* garbage collector works, and the operator is restarted.                  *)
(***************************************************************************)
EXTENDS Naturals, Sequences, FiniteSets

CONSTANTS
    CRs,          \* names of AgenticSRE resources, all in the namespace Home
    Home,
    Cluster,      \* the "namespace" of cluster-scoped objects
    Shared,       \* the name of the two ClusterRoles that all resources use
    Namespaces,   \* for audit events and stores
    Secrets,      \* names of signing-key Secrets
    Specs,        \* the specs users give to a resource
    Lagging,      \* kinds whose informer cache may be behind
    Deletable,    \* kinds of objects that users delete by hand
    MaxUID,       \* bound on resources ever created
    MaxEdits,     \* bound on edits and deletions by users and on restarts
    MaxFaults     \* bound on failed calls

Features == {"watcher", "webhook", "diagnose", "remediate", "ai", "metrics",
             "memory", "approval", "networkPolicy", "ingress"}

(* What of a spec decides control flow.  serviceAccountName 0 is empty;
   complete: every required field of an enabled feature is there; version
   stands for the fields that only shape the objects. *)
SpecType ==
    [features : SUBSET Features, serviceAccountName : Nat, complete : BOOLEAN,
     backend : {"inmemory", "configmap"}, replicas : Nat, auditNamespace : Namespaces,
     storeNamespace : Namespaces, secretName : Secrets, version : Nat]

ClusterKinds == {"readerRole", "readerBinding", "fixerRole", "fixerBinding"}
EventsKinds == {"eventsRole", "eventsBinding"}
StoresKinds == {"storesRole", "storesBinding"}
SilenceKinds == {"silenceRole", "silenceBinding"}
SigningKinds == {"signingRole", "signingBinding"}
ServerKinds == {"approvalSA", "approvalService", "approvalDeployment"}
Kinds ==
    {"sa", "watcher", "webhook", "diagnose", "remediate", "aiwatch", "metrics",
     "ragService", "rag", "signingKey", "networkPolicy", "ingress"}
    \cup ClusterKinds \cup EventsKinds \cup StoresKinds \cup SilenceKinds
    \cup SigningKinds \cup ServerKinds

ASSUME Names ==
    /\ Home \in Namespaces /\ Cluster \notin Namespaces
    /\ Shared \notin CRs /\ Secrets \cap CRs = {} /\ Shared \notin Secrets
    /\ Specs \subseteq SpecType /\ Specs # {}
    /\ Lagging \subseteq Kinds /\ Deletable \subseteq Kinds
ASSUME Bounds == {MaxUID, MaxEdits, MaxFaults} \subseteq Nat

VARIABLES
    cr,        \* the resources in the API server
    crCache,   \* the informer's copy of them
    objs,      \* the objects in the API server
    cache,     \* the informers' copies of them
    behind,    \* changes of objects the informers have yet to see: <<object, whom to enqueue>>
    queue,     \* the work queue
    busy,      \* the resource under reconciliation, if any (a set)
    copy,      \* the worker's copy of it
    plan,      \* the calls it has still to make
    failed,    \* firstErr # nil
    uids,      \* resources created so far
    keys,      \* key pairs generated so far
    edits,
    faults

worker == <<busy, copy, plan, failed>>
vars == <<cr, crCache, objs, cache, behind, queue, worker, uids, keys, edits, faults>>

(* A resource: uid 0 is "not there". *)
Resource ==
    [uid : Nat, deleting : BOOLEAN, finalizer : BOOLEAN, spec : Specs,
     ready : {"unknown", "true", "false", "invalid"}]
Absent == [uid |-> 0, deleting |-> FALSE, finalizer |-> FALSE,
           spec |-> CHOOSE s \in Specs : TRUE, ready |-> "unknown"]

(* An object: its owner reference (uid 0: none) and its content, the version
   it was built from or, for a Secret, the number of its key pair. *)
Object == [kind : Kinds, name : CRs \cup Secrets \cup {Shared},
           ns : Namespaces \cup {Cluster}]
Stored == [owner : CRs, uid : Nat, content : Nat]

Init ==
    /\ cr = [c \in CRs |-> Absent]
    /\ crCache = cr
    /\ objs = <<>>
    /\ cache = <<>>
    /\ behind = {}
    /\ queue = {}
    /\ busy = {}
    /\ copy = Absent
    /\ plan = {}
    /\ failed = FALSE
    /\ uids = 0
    /\ keys = 0
    /\ edits = 0
    /\ faults = 0

--------------------------------------------------------------------------------
(* The validations at the top of Reconcile. *)
Valid(s) ==
    /\ s.complete
    /\ "approval" \in s.features => ~(s.backend = "inmemory" /\ s.replicas > 1)

On(s, feature, kinds) == IF feature \in s.features THEN kinds ELSE {}

(* The kinds a builder returns an object for, by feature. *)
ReaderWanted(s) ==
    {"readerRole", "readerBinding"} \cup (IF s.serviceAccountName = 0 THEN {"sa"} ELSE {})
WatcherWanted(s) == On(s, "watcher", {"watcher"} \cup On(s, "webhook", {"webhook"}))
CronWanted(s) == On(s, "diagnose", {"diagnose"}) \cup On(s, "remediate", {"remediate"})
AIWanted(s) == On(s, "ai", {"aiwatch"} \cup On(s, "metrics", {"metrics"}))
MemoryWanted(s) == On(s, "memory", {"ragService", "rag"})
StoresWanted(s) == IF s.backend = "configmap" THEN StoresKinds ELSE {}
ExposureWanted(s) == On(s, "networkPolicy", {"networkPolicy"}) \cup On(s, "ingress", {"ingress"})
ApprovalWanted(s) ==
    On(s, "approval",
       {"signingKey", "fixerRole", "fixerBinding"} \cup ServerKinds \cup SigningKinds
       \cup EventsKinds \cup SilenceKinds \cup StoresWanted(s) \cup ExposureWanted(s))

Wanted(s) ==
    ReaderWanted(s) \cup WatcherWanted(s) \cup CronWanted(s) \cup AIWanted(s)
    \cup MemoryWanted(s) \cup ApprovalWanted(s)

(* The kinds that are deleted when they are not wanted. *)
TornDown(s) ==
    ({"watcher", "webhook", "diagnose", "remediate", "aiwatch", "metrics", "rag",
      "ragService", "networkPolicy", "ingress"}
     \cup (IF "approval" \in s.features THEN {}
           ELSE ServerKinds \cup SigningKinds \cup EventsKinds \cup StoresKinds
                \cup {"fixerBinding"})) \ Wanted(s)

(* The sub-reconcilers; a failed call ends the one it belongs to. *)
Group(kind) ==
    CASE kind = "sa" -> "ServiceAccount"
      [] kind \in {"readerRole", "readerBinding"} -> "ReaderRBAC"
      [] kind \in {"watcher", "webhook"} -> "Watcher"
      [] kind = "diagnose" -> "Diagnose"
      [] kind = "remediate" -> "Remediate"
      [] kind \in {"aiwatch", "metrics"} -> "AIWatch"
      [] kind \in {"rag", "ragService"} -> "Qdrant"
      [] OTHER -> "ApprovalServer"

Ensure(kind) == [verb |-> "ensure", kind |-> kind]
Delete(kind) == [verb |-> "delete", kind |-> kind]
Call == [verb : {"ensure", "delete"}, kind : Kinds]

(* The calls of a reconcile, of the two halves of reconcileApprovalServer and of
   finalizeReaderRBAC in their order. *)
ReconcileOrder == <<
    Ensure("sa"), Ensure("readerRole"), Ensure("readerBinding"),
    Ensure("watcher"), Delete("watcher"), Ensure("webhook"), Delete("webhook"),
    Ensure("diagnose"), Delete("diagnose"), Ensure("remediate"), Delete("remediate"),
    Ensure("aiwatch"), Delete("aiwatch"), Ensure("metrics"), Delete("metrics"),
    Ensure("ragService"), Ensure("rag"), Delete("rag"), Delete("ragService")>>
ApprovalOrder == <<
    Ensure("signingKey"), Ensure("approvalSA"), Ensure("fixerRole"), Ensure("fixerBinding"),
    Ensure("signingRole"), Ensure("signingBinding"), Ensure("eventsRole"),
    Ensure("eventsBinding"), Ensure("storesRole"), Ensure("storesBinding"),
    Ensure("silenceRole"), Ensure("silenceBinding"), Ensure("approvalService"),
    Ensure("approvalDeployment"), Ensure("networkPolicy"), Delete("networkPolicy"),
    Ensure("ingress"), Delete("ingress")>>
TeardownOrder == <<
    Delete("ingress"), Delete("networkPolicy"), Delete("approvalDeployment"),
    Delete("approvalService"), Delete("approvalSA"), Delete("signingRole"),
    Delete("signingBinding"), Delete("eventsRole"), Delete("eventsBinding"),
    Delete("storesRole"), Delete("storesBinding"), Delete("fixerBinding")>>
FinalizeOrder == <<
    Delete("readerBinding"), Delete("fixerBinding"), Delete("eventsBinding"),
    Delete("eventsRole")>>

CallOrder ==
    [deploy |-> ReconcileOrder \o ApprovalOrder,
     teardown |-> ReconcileOrder \o TeardownOrder,
     finalize |-> FinalizeOrder]
Rank ==
    [mode \in DOMAIN CallOrder |->
        LET order == CallOrder[mode] IN
        [call \in {order[i] : i \in DOMAIN order} |->
            CHOOSE i \in DOMAIN order : order[i] = call]]

Mode(r) == IF r.deleting THEN "finalize"
           ELSE IF "approval" \in r.spec.features THEN "deploy" ELSE "teardown"
IsNext(call) ==
    call \in plan /\ \A other \in plan : Rank[Mode(copy)][call] <= Rank[Mode(copy)][other]

ReconcilePlan(s) == {Ensure(k) : k \in Wanted(s)} \cup {Delete(k) : k \in TornDown(s)}

(* The objects without owner reference that were created for the resource. *)
FinalizePlan(s) ==
    {Delete("readerBinding"), Delete("fixerBinding")}
    \cup (IF s.auditNamespace = Home THEN {} ELSE {Delete(k) : k \in EventsKinds})

(* Seeded defect: the default of the Secret's name is forgotten. *)
TargetWithoutName(call, c, s) ==
    [kind |-> call.kind,
     name |-> CASE call.kind \in {"readerRole", "fixerRole"} -> Shared
                [] call.kind = "signingKey" -> ""
                [] OTHER -> c,
     ns |-> CASE call.kind \in ClusterKinds -> Cluster
              [] call.kind \in EventsKinds -> s.auditNamespace
              [] call.kind \in StoresKinds /\ call.verb = "ensure" -> s.storeNamespace
              [] OTHER -> Home]

(* The object a call is about.  The teardown looks for the stores' objects in
   the resource's own namespace wherever they were created. *)
Target(call, c, s) ==
    [kind |-> call.kind,
     name |-> CASE call.kind \in {"readerRole", "fixerRole"} -> Shared
                [] call.kind = "signingKey" -> s.secretName
                [] OTHER -> c,
     ns |-> CASE call.kind \in ClusterKinds -> Cluster
              [] call.kind \in EventsKinds -> s.auditNamespace
              [] call.kind \in StoresKinds /\ call.verb = "ensure" -> s.storeNamespace
              [] OTHER -> Home]

(* What the update of an existing object brings it to: the subject of the
   reader binding, the fields of the workloads; nothing else depends on the
   spec. *)
ContentFor(kind, s) ==
    CASE kind = "readerBinding" -> s.serviceAccountName
      [] kind \in {"watcher", "webhook", "diagnose", "remediate", "aiwatch", "metrics",
                   "ragService", "rag", "signingRole", "storesRole", "approvalService",
                   "approvalDeployment", "networkPolicy", "ingress"} -> s.version
      [] OTHER -> 0

--------------------------------------------------------------------------------
(* Failure of one call. *)
Ok == UNCHANGED faults
Fails == faults < MaxFaults /\ faults' = faults + 1

With(f, o, v) == [x \in DOMAIN f \cup {o} |-> IF x = o THEN v ELSE f[x]]
Without(f, o) == [x \in DOMAIN f \ {o} |-> f[x]]

(* Owns in SetupWithManager: a change of an object of these kinds enqueues the
   resource its owner reference names.  (No NetworkPolicy, nothing without owner
   reference.) *)
Owns == Kinds \ (ClusterKinds \cup {"networkPolicy"})

Notified(o, f) == IF o \in DOMAIN f /\ o.kind \in Owns /\ f[o].uid # 0 THEN {f[o].owner} ELSE {}

(* A write.  The informer of its kind sees the change at once or, if it lags,
   later. *)
Write(o, new) ==
    LET notified == Notified(o, objs) \cup Notified(o, new) IN
    /\ objs' = new
    /\ IF new = objs THEN UNCHANGED <<cache, behind, queue>>
       ELSE IF o.kind \in Lagging
       THEN behind' = behind \cup {<<o, notified>>} /\ UNCHANGED <<cache, queue>>
       ELSE /\ cache' = IF o \in DOMAIN new THEN With(cache, o, new[o]) ELSE Without(cache, o)
            /\ queue' = queue \cup notified
            /\ UNCHANGED behind

SyncObject(o) ==
    LET late == {e \in behind : e[1] = o} IN
    /\ late # {}
    /\ cache' = IF o \in DOMAIN objs THEN With(cache, o, objs[o]) ELSE Without(cache, o)
    /\ queue' = queue \cup UNION {e[2] : e \in late}
    /\ behind' = behind \ late
    /\ UNCHANGED <<cr, crCache, objs, worker, uids, keys, edits, faults>>

SyncCR(c) ==
    /\ crCache[c] # cr[c]
    /\ crCache' = [crCache EXCEPT ![c] = cr[c]]
    /\ queue' = queue \cup {c}
    /\ UNCHANGED <<cr, objs, cache, behind, worker, uids, keys, edits, faults>>

--------------------------------------------------------------------------------
(* Users.  The worker reads a resource when it starts and compares it when it
   is done, so a change in between is a change at either end. *)
Edit == edits < MaxEdits /\ edits' = edits + 1

Apply(c, s) ==
    /\ Edit /\ plan = {}
    /\ IF cr[c].uid = 0
       THEN /\ uids < MaxUID
            /\ uids' = uids + 1
            /\ cr' = [cr EXCEPT ![c] = [Absent EXCEPT !.uid = uids + 1, !.spec = s]]
       ELSE /\ s # cr[c].spec
            /\ cr' = [cr EXCEPT ![c].spec = s]
            /\ UNCHANGED uids
    /\ UNCHANGED <<crCache, objs, cache, behind, queue, worker, keys, faults>>

DeleteCR(c) ==
    /\ Edit /\ plan = {}
    /\ cr[c].uid # 0 /\ ~cr[c].deleting
    /\ cr' = [cr EXCEPT ![c] = IF @.finalizer THEN [@ EXCEPT !.deleting = TRUE] ELSE Absent]
    /\ UNCHANGED <<crCache, objs, cache, behind, queue, worker, uids, keys, faults>>

DeleteObject(o) ==
    /\ Edit
    /\ o \in DOMAIN objs /\ o.kind \in Deletable
    /\ Write(o, Without(objs, o))
    /\ UNCHANGED <<cr, crCache, worker, uids, keys, faults>>

(* The garbage collector removes what has an owner reference to a resource
   that is not there any more. *)
CollectGarbage(o) ==
    /\ o \in DOMAIN objs
    /\ objs[o].uid # 0 /\ cr[objs[o].owner].uid # objs[o].uid
    /\ Write(o, Without(objs, o))
    /\ UNCHANGED <<cr, crCache, worker, uids, keys, edits, faults>>

(* The operator is replaced: fresh caches, every resource is enqueued. *)
Restart ==
    /\ Edit
    /\ crCache' = cr
    /\ cache' = objs /\ behind' = {}
    /\ queue' = {c \in CRs : cr[c].uid # 0}
    /\ busy' = {} /\ copy' = Absent /\ plan' = {} /\ failed' = FALSE
    /\ UNCHANGED <<cr, objs, uids, keys, faults>>

--------------------------------------------------------------------------------
Begin(c, r, calls) ==
    /\ busy' = {c} /\ copy' = r /\ plan' = calls /\ failed' = FALSE
    /\ queue' = queue \ {c}

(* Seeded defect: errors are logged and the resource is not enqueued again. *)
ReturnWithoutRetry(c, again) ==
    /\ busy' = {} /\ copy' = Absent /\ plan' = {} /\ failed' = FALSE
    /\ queue' = queue \ (IF busy = {} THEN {c} ELSE {})

(* The reconcile returns; with an error the resource is enqueued again. *)
Return(c, again) ==
    /\ busy' = {} /\ copy' = Absent /\ plan' = {} /\ failed' = FALSE
    /\ queue' = IF again THEN queue \cup {c} ELSE queue \ (IF busy = {} THEN {c} ELSE {})

(* Reconcile up to the children: fetch, finalizer, validation. *)
Ignore(c) ==
    /\ busy = {} /\ c \in queue
    /\ crCache[c].uid = 0 \/ (crCache[c].deleting /\ ~crCache[c].finalizer)
    /\ Return(c, FALSE)
    /\ UNCHANGED <<cr, crCache, objs, cache, behind, uids, keys, edits, faults>>

finalizeReaderRBAC(c) ==
    /\ busy = {} /\ c \in queue
    /\ crCache[c].deleting /\ crCache[c].finalizer
    /\ Begin(c, crCache[c], FinalizePlan(crCache[c].spec))
    /\ UNCHANGED <<cr, crCache, objs, cache, behind, uids, keys, edits, faults>>

(* Seeded defect: the finalizer is added to the worker's copy only. *)
ReconcileWithoutFinalizer(c) ==
    /\ busy = {} /\ c \in queue
    /\ crCache[c].uid # 0 /\ ~crCache[c].deleting
    /\ Begin(c, crCache[c],
             IF Valid(crCache[c].spec) THEN ReconcilePlan(crCache[c].spec) ELSE {})
    /\ UNCHANGED <<cr, crCache, objs, cache, behind, uids, keys, edits, faults>>

Reconcile(c) ==
    /\ busy = {} /\ c \in queue
    /\ crCache[c].uid # 0 /\ ~crCache[c].deleting
    /\ LET r == [crCache[c] EXCEPT !.finalizer = TRUE] IN
       IF crCache[c].finalizer \/ crCache[c] = cr[c]
       THEN \/ /\ Ok
               /\ cr' = IF crCache[c].finalizer THEN cr ELSE [cr EXCEPT ![c] = r]
               /\ Begin(c, r, IF Valid(r.spec) THEN ReconcilePlan(r.spec) ELSE {})
            \/ Fails /\ Return(c, TRUE) /\ UNCHANGED cr
       ELSE Ok /\ Return(c, TRUE) /\ UNCHANGED cr
    /\ UNCHANGED <<crCache, objs, cache, behind, uids, keys, edits>>

--------------------------------------------------------------------------------
Owner(o) == IF o.ns = Home THEN copy.uid ELSE 0

(* createOrUpdate, and reconcileSigningKeySecret, which never updates.  An
   object the cache does not have is created; "already exists" is no error.
   One it has is updated, which the server refuses if the copy is outdated. *)
Creates(call, o) == o \notin DOMAIN cache
Refused(call, o) ==
    /\ ~Creates(call, o)
    /\ call.kind # "signingKey"
    /\ ~(o \in DOMAIN objs /\ objs[o] = cache[o])

(* Seeded defect: a create that finds the object there becomes an update of it. *)
EnsuredOverwriting(call, c, o) ==
    IF Creates(call, o)
    THEN With(objs, o, [owner |-> c, uid |-> Owner(o),
                        content |-> IF call.kind = "signingKey" THEN keys + 1
                                    ELSE ContentFor(call.kind, copy.spec)])
    ELSE IF call.kind = "signingKey" THEN objs
    ELSE With(objs, o, [objs[o] EXCEPT !.content = ContentFor(call.kind, copy.spec)])

Ensured(call, c, o) ==
    IF Creates(call, o)
    THEN IF o \in DOMAIN objs THEN objs
         ELSE With(objs, o, [owner |-> c, uid |-> Owner(o),
                             content |-> IF call.kind = "signingKey" THEN keys + 1
                                         ELSE ContentFor(call.kind, copy.spec)])
    ELSE IF call.kind = "signingKey" THEN objs
    ELSE With(objs, o, [objs[o] EXCEPT !.content = ContentFor(call.kind, copy.spec)])

(* deleteIfExists asks the cache first, and so does the finalizer for the
   bindings; it deletes the events objects without asking. *)
Deleted(call, o) ==
    IF o \in DOMAIN cache \/ (copy.deleting /\ call.kind \in EventsKinds)
    THEN Without(objs, o) ELSE objs

(* An error ends the sub-reconciler, or the whole finalizer. *)
Skip(call, c) ==
    IF copy.deleting THEN Return(c, TRUE)
    ELSE /\ failed' = TRUE
         /\ plan' = {other \in plan : Group(other.kind) # Group(call.kind)}
         /\ UNCHANGED <<busy, copy, queue>>

Child(c, call) ==
    /\ c \in busy /\ IsNext(call)
    /\ LET o == Target(call, c, copy.spec) IN
       IF call.verb = "ensure" /\ Refused(call, o)
       THEN Ok /\ Skip(call, c) /\ UNCHANGED <<objs, cache, behind, keys>>
       ELSE \/ /\ Ok
               /\ Write(o, IF call.verb = "ensure" THEN Ensured(call, c, o) ELSE Deleted(call, o))
               /\ keys' = IF call = Ensure("signingKey") /\ Creates(call, o) THEN keys + 1 ELSE keys
               /\ plan' = plan \ {call}
               /\ UNCHANGED <<busy, copy, failed>>
            \/ Fails /\ Skip(call, c) /\ UNCHANGED <<objs, cache, behind, keys>>
    /\ UNCHANGED <<cr, crCache, uids, edits>>

(* computeConditions reads the caches too. *)
Seen(c, s, kinds) == \A k \in kinds : Target(Ensure(k), c, s) \in DOMAIN cache

(* Seeded defect: errors of the sub-reconcilers are not tracked. *)
CanBeReadyDespiteErrors(c, s) ==
    /\ Seen(c, s, {"readerRole", "readerBinding"})
    /\ cache[Target(Ensure("readerBinding"), c, s)].content = s.serviceAccountName
    /\ Seen(c, s, On(s, "ai", {"aiwatch"}))
    /\ Seen(c, s, On(s, "memory", {"ragService", "rag"}))
    /\ Seen(c, s, On(s, "approval", {"signingKey", "approvalService", "approvalDeployment"}))

CanBeReady(c, s) ==
    /\ ~failed
    /\ Seen(c, s, {"readerRole", "readerBinding"})
    /\ cache[Target(Ensure("readerBinding"), c, s)].content = s.serviceAccountName
    /\ Seen(c, s, On(s, "ai", {"aiwatch"}))
    /\ Seen(c, s, On(s, "memory", {"ragService", "rag"}))
    /\ Seen(c, s, On(s, "approval", {"signingKey", "approvalService", "approvalDeployment"}))

computeConditions(c, s) ==
    IF ~CanBeReady(c, s) THEN {"false"}
    ELSE IF {"ai", "memory", "approval"} \cap s.features = {} THEN {"true"}
    ELSE {"true", "false"}

(* updateStatus.  It is refused if the resource has changed since; only an
   invalid spec makes that an error. *)
updateStatus(c, ready) ==
    /\ c \in busy /\ plan = {} /\ ~copy.deleting
    /\ IF Valid(copy.spec) THEN ready \in computeConditions(c, copy.spec) ELSE ready = "invalid"
    /\ \/ /\ Ok /\ cr[c] = copy
          /\ cr' = [cr EXCEPT ![c].ready = ready]
          /\ Return(c, failed)
       \/ /\ (Ok /\ cr[c] # copy) \/ Fails
          /\ Return(c, failed \/ ~Valid(copy.spec))
          /\ UNCHANGED cr
    /\ UNCHANGED <<crCache, objs, cache, behind, uids, keys, edits>>

(* Seeded defect: the finalizer is removed from the worker's copy only. *)
RemoveFinalizerLocally(c) ==
    /\ c \in busy /\ plan = {} /\ copy.deleting
    /\ Ok /\ Return(c, FALSE)
    /\ UNCHANGED <<cr, crCache, objs, cache, behind, uids, keys, edits>>

(* The finalizer is removed, and with it the resource. *)
RemoveFinalizer(c) ==
    /\ c \in busy /\ plan = {} /\ copy.deleting
    /\ \/ Ok /\ cr[c] = copy /\ cr' = [cr EXCEPT ![c] = Absent] /\ Return(c, FALSE)
       \/ ((Ok /\ cr[c] # copy) \/ Fails) /\ Return(c, TRUE) /\ UNCHANGED cr
    /\ UNCHANGED <<crCache, objs, cache, behind, uids, keys, edits>>

--------------------------------------------------------------------------------
Worker ==
    \E c \in CRs :
        \/ Ignore(c) \/ finalizeReaderRBAC(c) \/ Reconcile(c)
        \/ \E call \in plan : Child(c, call)
        \/ \E ready \in {"true", "false", "invalid"} : updateStatus(c, ready)
        \/ RemoveFinalizer(c)

Informers ==
    \/ \E c \in CRs : SyncCR(c)
    \/ \E e \in behind : SyncObject(e[1])

Environment ==
    \/ \E c \in CRs : DeleteCR(c) \/ \E s \in Specs : Apply(c, s)
    \/ \E o \in DOMAIN objs : DeleteObject(o) \/ CollectGarbage(o)
    \/ Restart

Next == Worker \/ Informers \/ Environment

Spec == Init /\ [][Next]_vars

(* The worker goroutine runs, watches deliver what happened, the garbage
   collector does its work. *)
FairSpec ==
    /\ Spec
    /\ WF_vars(Worker)
    /\ WF_vars(Informers)
    /\ WF_vars(\E o \in DOMAIN objs : CollectGarbage(o))

--------------------------------------------------------------------------------
TypeOK ==
    /\ cr \in [CRs -> Resource]
    /\ crCache \in [CRs -> Resource]
    /\ DOMAIN objs \subseteq Object /\ \A o \in DOMAIN objs : objs[o] \in Stored
    /\ DOMAIN cache \subseteq Object /\ \A o \in DOMAIN cache : cache[o] \in Stored
    /\ behind \subseteq Object \X SUBSET CRs
    /\ queue \subseteq CRs
    /\ busy \subseteq CRs
    /\ copy \in Resource
    /\ plan \subseteq Call
    /\ failed \in BOOLEAN
    /\ uids \in Nat /\ keys \in Nat /\ edits \in Nat /\ faults \in Nat

(* Nothing the garbage collector leaves behind survives its resource: when a
   resource is gone, so is every object made for it that has no owner
   reference (finalizeReaderRBAC: the objects of a deleted resource in another
   namespace "leaked for the cluster's lifetime until now"). *)
NothingOutlives ==
    \A o \in DOMAIN objs :
        objs[o].uid = 0 /\ o.name # Shared => cr[objs[o].owner].uid # 0

KeepsKeys ==
    \A o \in DOMAIN objs :
        o.kind = "signingKey" /\ cr[objs[o].owner].uid = objs[o].uid =>
            o \in DOMAIN objs' /\ objs'[o].content = objs[o].content

(* As long as the resource that owns it is there, a signing key is neither
   replaced nor removed, whichever features are switched off and on, whatever
   the cache says and however often the operator is restarted: "the operator
   MUST NOT regenerate the keypair". *)
KeyKept == [][KeepsKeys]_vars

BecomesReady(c) == cr[c].ready # "true" /\ cr'[c].ready = "true"

ReadyAfterBuilt ==
    \A c \in CRs : BecomesReady(c) =>
        \A k \in Wanted(cr[c].spec) \ Deletable :
            LET o == Target(Ensure(k), c, cr[c].spec)
            IN  o \in DOMAIN objs \/ (o.ns = Home /\ cr[c].uid > 1)

(* A resource becomes Ready ("all subresources reconciled") only when every
   object its spec asks for is there, unless users delete it or it was a
   leftover of an earlier resource, which the garbage collector takes away. *)
ReadyMeansBuilt == [][ReadyAfterBuilt]_vars

Built(c) ==
    LET s == cr[c].spec IN
    /\ \A k \in Wanted(s) :
          LET o == Target(Ensure(k), c, s) IN
          /\ o \in DOMAIN objs
          /\ k # "signingKey" => objs[o].content = ContentFor(k, s)
          /\ objs[o].uid \in {0, cr[c].uid}
    /\ \A k \in TornDown(s) : Target(Delete(k), c, s) \notin DOMAIN objs

(* A resource that stays as it is gets the objects its spec asks for, with
   their present content, and loses the ones that are torn down, although
   updates are refused, caches lag, users delete objects and the garbage
   collector takes leftovers of an earlier resource of the same name. *)
Converges ==
    \A c \in CRs :
        <>[](cr[c].uid # 0 /\ ~cr[c].deleting /\ Valid(cr[c].spec)) => <>[]Built(c)

(* A deletion is not held up for ever by its finalizer. *)
DeletionCompletes == \A c \in CRs : cr[c].deleting ~> ~cr[c].deleting
================================================================================
