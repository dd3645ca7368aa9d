------------------------------ MODULE PostureRules ------------------------------
(***************************************************************************)
(* The RBAC and security posture analyzers and the NetworkPolicy proposer   *)
(* (internal/diagnose, pkg/netpol).                                         *)
(***************************************************************************)
EXTENDS Findings

(* RBACDrift.  The allowlist ConfigMap is read once per pass; when it cannot be
   read nothing is allowlisted.  onlySystemAPIGroups: wildcard verbs on system
   API groups only do not count. *)
loadRBACAllowlist(allowed, down) == allowed /\ "allowlist" \notin down
onlySystemAPIGroups(rule) == rule = "system-groups"
isSystemRBAC(role) == role.system
isSystemRBACWithExtra(role, down) ==
    isSystemRBAC(role) \/ loadRBACAllowlist(role.allowed, down)

wildcardRoles(w, down) ==
    SelectSeq(w.objs, LAMBDA role :
        /\ role.kind \notin down
        /\ \E r \in role.wildcards : ~onlySystemAPIGroups(r))

checkWildcardVerbs(w, down) ==
    Each(SelectSeq(wildcardRoles(w, down), LAMBDA role : ~isSystemRBACWithExtra(role, down)),
         LAMBDA role : When(TRUE, <<role.kind, "role">>, "warning"))

(* The ServiceAccount some pod runs as with its token mounted, unless a binding
   names it; bindings that cannot be listed are no bindings.  Without the list
   of ServiceAccounts their own automountServiceAccountToken is not known. *)
automount(w, p, down) ==
    IF p.automount # "unset" THEN p.automount = "true"
    ELSE w.env.automount = "false" => "serviceaccounts" \in down

referenced(w, down) ==
    /\ "pods" \notin down
    /\ Some(w.env.pods, LAMBDA p :
           /\ p.ns # "system"
           /\ ~loadRBACAllowlist(p.ns = "allowed", down)
           /\ p.sa # "default"
           /\ automount(w, p, down))

unboundServiceAccount(w, down) ==
    referenced(w, down) /\ w.env.bindings \subseteq down

checkUnboundServiceAccounts(w, down) ==
    When(unboundServiceAccount(w, down) /\ ~loadRBACAllowlist(w.env.saAllowed, down),
         <<"ServiceAccount", "ns/sa">>, "warning")

(* What the allowlist and the built-in lists suppress is one info digest. *)
suppressedDigest(w, down) ==
    When(\/ Some(wildcardRoles(w, down), LAMBDA role : isSystemRBACWithExtra(role, down))
         \/ unboundServiceAccount(w, down) /\ loadRBACAllowlist(w.env.saAllowed, down),
         <<"RBACDrift", "cluster/suppressed-expected-system">>, "info")

RBACDrift(w, down) ==
    checkWildcardVerbs(w, down) \o checkUnboundServiceAccounts(w, down)
    \o suppressedDigest(w, down)

--------------------------------------------------------------------------------
(* SecurityDrift.checkMutableImageTags: w.objs are the pods of one controller,
   each with the set of its image references.  Pods with the same unpinned
   images form a group; the groups come out of a map sorted by namespace and
   owner only, so w.env.reversed is the order of two groups of one owner. *)
classifyDigestPinSeverity(image) == IF image = "trusted:1" THEN "info" ELSE "warning"
unpinned(p) == {img \in p.images : img \notin {"pinned@sha256", "app:latest", "untagged"}}

checkMutableImageTags(w, down) ==
    LET flagged == SelectSeq(w.objs, LAMBDA p : ~p.system /\ unpinned(p) # {})
        groups == FoldLeft(LAMBDA gs, p : IF unpinned(p) \in ToSet(gs) THEN gs
                                          ELSE Append(gs, unpinned(p)), <<>>, flagged)
        severity(g) == IF \E img \in g : classifyDigestPinSeverity(img) = "warning"
                       THEN "warning" ELSE "info"
    IN  Needs({"pods"}, down,
            Each(IF w.env.reversed THEN Reverse(groups) ELSE groups,
                 LAMBDA g : When(TRUE, <<"Workload", "ns/owner">>, severity(g))))

(* checkPSSPosture: no enforce label, or the label "privileged". *)
checkPSSPosture(w, down) ==
    Needs({"namespaces"}, down, EachNamed(w.objs, LAMBDA ns, i :
        When(~ns.system /\ ns.enforce \in {"", "privileged"},
             <<"Namespace", Name(i)>>, "warning")))

(* DetectCNI: whether a DaemonSet shows a CNI that enforces policies; unknown
   and flannel alone do not. *)
DetectCNI(w, down) ==
    /\ "daemonsets" \notin down
    /\ w.env.daemonsets \cap {"cilium", "anetd", "calico", "aws-node", "azure-npm", "kube-router"} # {}

(* checkNetworkPolicyCoverage: policies that cannot be listed do not exist. *)
checkNetworkPolicyCoverage(w, down) ==
    LET candidate(ns) == /\ ~ns.system
                         /\ ns.pods /\ "pods" \notin down
                         /\ ~(ns.policy /\ "networkpolicies" \notin down)
    IN  Needs({"namespaces"}, down,
            IF DetectCNI(w, down)
            THEN EachNamed(w.objs, LAMBDA ns, i :
                     When(candidate(ns), <<"Namespace", Name(i)>>, "warning"))
            ELSE When(Some(w.objs, candidate), <<"Cluster", "cni-no-netpol-enforcement">>, "info"))

--------------------------------------------------------------------------------
(* SnapshotProposer.ProposeForNamespace: no proposal for a protected namespace,
   one with a policy or one without pods.  What the proposed policy says is left
   out. *)
proposes(ns, down) ==
    /\ ~ns.protected
    /\ ~(ns.policy /\ "networkpolicies of the namespace" \notin down)
    /\ ns.pods /\ "pods of the namespace" \notin down

(* NetworkPolicyProposer: at most MaxPerCycle proposals, the others one digest. *)
NetworkPolicyProposer(w, down) ==
    LET proposal(ns) == ~ns.system /\ proposes(ns, down)
        before(i) == Count(SubSeq(w.objs, 1, i - 1), proposal)
    IN  IF ~DetectCNI(w, down) THEN <<>>
        ELSE Needs({"namespaces"}, down,
                 EachNamed(w.objs, LAMBDA ns, i :
                     When(proposal(ns) /\ before(i) < w.env.cap,
                          <<"Namespace/missing-network-policy", Name(i)>>, "warning"))
                 \o When(Count(w.objs, proposal) > w.env.cap,
                         <<"Namespace/missing-network-policy", "batched">>, "info"))
================================================================================
