-------------------------- MODULE Remediation_proofs --------------------------
(***************************************************************************)
(* For any set of replicas, any outages, exits and changes of the cluster:     *)
(* what the fixers write they were allowed to write, and one replica leads     *)
(* while they do.                                                           *)
(***************************************************************************)
EXTENDS Remediation, LeaderElection_proofs

Run == [step : Nat, at : Nat, done : BOOLEAN]

(* Facts that the decisions know of and that no condition is about. *)
Unmodelled == {"unreadable", "invalid", "readyFalseFailed"}

KnownFacts(f) == {c.fact : c \in Conditions(f)}

FixTypeOK ==
    /\ fixer \in Fixers
    /\ world \in [PartsOf(fixer) -> SUBSET KnownFacts(fixer)]
    /\ run \in [Replicas -> Run]
    /\ wire \in [Replicas -> BOOLEAN]
    /\ shut \in [Replicas -> SUBSET Conditions(fixer)]

(* What a part that a fixer takes for fine unread may hide. *)
Exempt(c) == fixer \in FailOpen /\ c.part \in {"job", "controller"}

(* WritesWhatItMay made inductive: a run that is at a step has seen every earlier
   part, each at a time when its conditions held. *)
ReadSoFar ==
    \A r \in Replicas : \A i \in DOMAIN Parts(fixer) :
        i < run[r].step => \A c \in shut[r] : c.part = Parts(fixer)[i] => Exempt(c)

FixInv == FixTypeOK /\ ReadSoFar /\ WritesWhatItMay
--------------------------------------------------------------------------------
(* The decisions of the fixers against the conditions of an operator. *)
LEMMA PartsAre ==
    ASSUME NEW f \in Fixers
    PROVE  /\ Len(Parts(f)) \in {2, 3}
           /\ Head(Parts(f)) = Parts(f)[1]
           /\ DOMAIN Parts(f) = 1..Len(Parts(f))
<1>1. /\ f = "StuckJobsWithBadSecretRef" => Parts(f) = <<"pod", "job", "cronjob">>
      /\ f = "StuckRSPods" => Parts(f) = <<"pod", "replicaset", "deployment">>
      /\ f = "StaleErrorPods" => Parts(f) = <<"pod", "job">>
      /\ f = "deleteStaleCertificateRequests" => Parts(f) = <<"controller", "request">>
      /\ f = "deleteStaleOrders" => Parts(f) = <<"controller", "order">>
      /\ f = "TLSSecretMismatch" => Parts(f) = <<"ingress", "secret", "certificate">>
  BY DEF Parts
<1>2. \/ \E a, b : Parts(f) = <<a, b>>
      \/ \E a, b, d : Parts(f) = <<a, b, d>>
  BY <1>1, FixersAssumption
<1> QED BY <1>2

LEMMA RuleFields ==
    ASSUME NEW part, NEW fact
    PROVE  /\ Need(part, fact).part = part /\ Need(part, fact).fact = fact
           /\ Ban(part, fact).part = part /\ Ban(part, fact).fact = fact
BY DEF Need, Ban

LEMMA RuleHolds ==
    ASSUME NEW w, NEW part, NEW fact
    PROVE  /\ fact \in w[part] => Holds(Need(part, fact), w)
           /\ fact \notin w[part] => Holds(Ban(part, fact), w)
<1>1. fact \in w[part] => Holds(Need(part, fact), w)
  BY DEF Need, Holds
<1>2. fact \notin w[part] => Holds(Ban(part, fact), w)
  BY DEF Ban, Holds
<1> QED BY <1>1, <1>2

LEMMA ConditionsAre ==
    ASSUME NEW f \in Fixers, NEW c \in Conditions(f)
    PROVE  /\ \E i \in DOMAIN Parts(f) : c.part = Parts(f)[i]
           /\ c.fact \notin Unmodelled
<1>1. CASE f = "StuckJobsWithBadSecretRef"
  <2>1. c \in JobConditions
    BY <1>1 DEF Conditions
  <2>2. c.part \in {"pod", "job", "cronjob"} /\ c.fact \notin Unmodelled
    BY <2>1 DEF JobConditions, Need, Ban, Unmodelled
  <2> QED BY <1>1, <2>2 DEF Parts
<1>2. CASE f = "StuckRSPods"
  <2>1. c \in ReplicaSetConditions
    BY <1>2 DEF Conditions
  <2>2. c.part \in {"pod", "replicaset", "deployment"} /\ c.fact \notin Unmodelled
    BY <2>1 DEF ReplicaSetConditions, Need, Ban, Unmodelled
  <2> QED BY <1>2, <2>2 DEF Parts
<1>3. CASE f = "StaleErrorPods"
  <2>1. c \in ErrorPodConditions
    BY <1>3 DEF Conditions
  <2>2. c.part \in {"pod", "job"} /\ c.fact \notin Unmodelled
    BY <2>1 DEF ErrorPodConditions, Need, Ban, Unmodelled
  <2> QED BY <1>3, <2>2 DEF Parts
<1>4. CASE f = "deleteStaleCertificateRequests"
  <2>1. c \in RequestConditions
    BY <1>4 DEF Conditions
  <2>2. c.part \in {"controller", "request"} /\ c.fact \notin Unmodelled
    BY <2>1 DEF RequestConditions, Need, Ban, Unmodelled
  <2> QED BY <1>4, <2>2 DEF Parts
<1>5. CASE f = "deleteStaleOrders"
  <2>1. c \in OrderConditions
    BY <1>5 DEF Conditions
  <2>2. c.part \in {"controller", "order"} /\ c.fact \notin Unmodelled
    BY <2>1 DEF OrderConditions, Need, Ban, Unmodelled
  <2> QED BY <1>5, <2>2 DEF Parts
<1>6. CASE f = "TLSSecretMismatch"
  <2>1. c \in IngressConditions
    BY <1>6 DEF Conditions
  <2>2. c.part \in {"ingress", "secret", "certificate"} /\ c.fact \notin Unmodelled
    BY <2>1 DEF IngressConditions, Need, Ban, Unmodelled
  <2> QED BY <1>6, <2>2 DEF Parts
<1> QED BY <1>1, <1>2, <1>3, <1>4, <1>5, <1>6, FixersAssumption

(* A fixer goes on from a part that it could read only if each of the operator's
   conditions on that part holds. *)
LEMMA GoesOnRightly ==
    ASSUME NEW f \in Fixers, NEW c \in Conditions(f), NEW w, w[c.part] \cap Unmodelled = {},
           GoesOn(f, c.part, w[c.part])
    PROVE  Holds(c, w)
<1> USE DEF GoesOn, GitOpsReason, IsPaused, IsSuspended, IsProtectedNamespace, ownerNameByKind,
        podInCCE, podHasMissingSecretKey
<1>1. CASE f = "StuckJobsWithBadSecretRef"
  <2>0. c \in JobConditions
    BY <1>1 DEF Conditions
  <2>1. ASSUME c.part = "pod"
        PROVE  /\ "Job" \in w["pod"] /\ "missingKey" \in w["pod"]
               /\ "protected" \notin w["pod"]
    BY <1>1, <2>1
    DEF StuckJobsWithBadSecretRef
  <2>2. ASSUME c.part = "job"
        PROVE  "CronJob" \in w["job"]
    BY <1>1, <2>2
    DEF StuckJobsWithBadSecretRef
  <2>3. ASSUME c.part = "cronjob"
        PROVE  "suspended" \notin w["cronjob"] /\ "GitOps" \notin w["cronjob"]
    BY <1>1, <2>3
    DEF StuckJobsWithBadSecretRef
  <2> QED BY <2>0, <2>1, <2>2, <2>3, RuleHolds, RuleFields, SMTT(30) DEF JobConditions
<1>2. CASE f = "StuckRSPods"
  <2>0. c \in ReplicaSetConditions
    BY <1>2 DEF Conditions
  <2>1. ASSUME c.part = "pod"
        PROVE  /\ "CreateContainerConfigError" \in w["pod"] /\ "missingKey" \notin w["pod"]
               /\ "protected" \notin w["pod"] /\ "ReplicaSet" \in w["pod"]
    BY <1>2, <2>1
    DEF StuckRSPods
  <2>2. ASSUME c.part = "replicaset"
        PROVE  "Deployment" \in w["replicaset"] /\ "revision" \in w["replicaset"]
    BY <1>2, <2>2
    DEF StuckRSPods
  <2>3. ASSUME c.part = "deployment"
        PROVE  /\ "GitOps" \notin w["deployment"] /\ "paused" \notin w["deployment"]
               /\ "newerRevision" \in w["deployment"]
    BY <1>2, <2>3
    DEF StuckRSPods
  <2> QED BY <2>0, <2>1, <2>2, <2>3, RuleHolds, RuleFields, SMTT(30) DEF ReplicaSetConditions
<1>3. CASE f = "StaleErrorPods"
  <2>0. c \in ErrorPodConditions
    BY <1>3 DEF Conditions
  <2>1. ASSUME c.part = "pod"
        PROVE  /\ "Failed" \in w["pod"] /\ "otherOwner" \notin w["pod"]
               /\ "protected" \notin w["pod"] /\ "GitOps" \notin w["pod"]
    BY <1>3, <2>1
    DEF StaleErrorPods
  <2>2. ASSUME c.part = "job"
        PROVE  "GitOps" \notin w["job"]
    BY <1>3, <2>2
    DEF StaleErrorPods
  <2> QED BY <2>0, <2>1, <2>2, RuleHolds, RuleFields, SMTT(30) DEF ErrorPodConditions
<1>4. CASE f = "deleteStaleCertificateRequests"
  <2>0. c \in RequestConditions
    BY <1>4 DEF Conditions
  <2>1. ASSUME c.part = "controller"
        PROVE  "ready" \in w["controller"]
    BY <1>4, <2>1
    DEF deleteStaleCertificateRequests, controllerReady, certRequestFailed,
        Unreadable, Unmodelled
  <2>2. ASSUME c.part = "request"
        PROVE  "protected" \notin w["request"] /\ "failureTime" \in w["request"]
    BY <1>4, <2>2
    DEF deleteStaleCertificateRequests, controllerReady, certRequestFailed,
        Unreadable, Unmodelled
  <2> QED BY <2>0, <2>1, <2>2, RuleHolds, RuleFields, SMTT(30) DEF RequestConditions
<1>5. CASE f = "deleteStaleOrders"
  <2>0. c \in OrderConditions
    BY <1>5 DEF Conditions
  <2>1. ASSUME c.part = "controller"
        PROVE  "ready" \in w["controller"]
    BY <1>5, <2>1
    DEF deleteStaleOrders, controllerReady, orderFailed, Unreadable, Unmodelled
  <2>2. ASSUME c.part = "order"
        PROVE  "protected" \notin w["order"] /\ "errored" \in w["order"]
    BY <1>5, <2>2
    DEF deleteStaleOrders, controllerReady, orderFailed, Unreadable, Unmodelled
  <2> QED BY <2>0, <2>1, <2>2, RuleHolds, RuleFields, SMTT(30) DEF OrderConditions
<1>6. CASE f = "TLSSecretMismatch"
  <2>0. c \in IngressConditions
    BY <1>6 DEF Conditions
  <2>1. ASSUME c.part = "ingress"
        PROVE  /\ "protected" \notin w["ingress"] /\ "GitOps" \notin w["ingress"]
               /\ "staleSecretAtIndex" \in w["ingress"]
    BY <1>6, <2>1
    DEF TLSSecretMismatchFix, secretCertExpiryFix, certReadyFix, findMismatchedCertFix
  <2>2. ASSUME c.part = "secret"
        PROVE  "expiresSoon" \in w["secret"]
    BY <1>6, <2>2
    DEF TLSSecretMismatchFix, secretCertExpiryFix, certReadyFix, findMismatchedCertFix
  <2>3. ASSUME c.part = "certificate"
        PROVE  "Ready" \in w["certificate"] /\ "sameHost" \in w["certificate"]
    BY <1>6, <2>3
    DEF TLSSecretMismatchFix, secretCertExpiryFix, certReadyFix, findMismatchedCertFix
  <2> QED BY <2>0, <2>1, <2>2, <2>3, RuleHolds, RuleFields, SMTT(30) DEF IngressConditions
<1> QED BY <1>1, <1>2, <1>3, <1>4, <1>5, <1>6, FixersAssumption

(* From a part that it could not read a fixer goes on only where it fails open. *)
LEMMA GoesOnBlindly ==
    ASSUME NEW f \in Fixers, NEW i \in DOMAIN Parts(f), GoesOn(f, Parts(f)[i], Unreadable)
    PROVE  f \in FailOpen /\ Parts(f)[i] \in {"job", "controller"}
<1> DEFINE part == Parts(f)[i]
<1> USE DEF GoesOn, FailOpen, Unreadable, GitOpsReason, IsPaused, IsSuspended,
        IsProtectedNamespace, ownerNameByKind, podInCCE, podHasMissingSecretKey
<1>1. CASE f = "StuckJobsWithBadSecretRef"
  <2>1. part \in {"pod", "job", "cronjob"}
    BY <1>1 DEF Parts
  <2> QED BY <1>1, <2>1 DEF StuckJobsWithBadSecretRef
<1>2. CASE f = "StuckRSPods"
  <2>1. part \in {"pod", "replicaset", "deployment"}
    BY <1>2 DEF Parts
  <2> QED BY <1>2, <2>1 DEF StuckRSPods
<1>3. CASE f = "StaleErrorPods"
  <2>1. part \in {"pod", "job"}
    BY <1>3 DEF Parts
  <2> QED BY <1>3, <2>1 DEF StaleErrorPods
<1>4. CASE f = "deleteStaleCertificateRequests"
  <2>1. part \in {"controller", "request"}
    BY <1>4 DEF Parts
  <2> QED BY <1>4, <2>1 DEF deleteStaleCertificateRequests, certRequestFailed
<1>5. CASE f = "deleteStaleOrders"
  <2>1. part \in {"controller", "order"}
    BY <1>5 DEF Parts
  <2> QED BY <1>5, <2>1 DEF deleteStaleOrders, orderFailed
<1>6. CASE f = "TLSSecretMismatch"
  <2>1. part \in {"ingress", "secret", "certificate"}
    BY <1>6 DEF Parts
  <2> QED BY <1>6, <2>1 DEF TLSSecretMismatchFix, secretCertExpiryFix, certReadyFix,
                              findMismatchedCertFix
<1> QED BY <1>1, <1>2, <1>3, <1>4, <1>5, <1>6, FixersAssumption

(* What a run has read of a part when it goes on from it. *)
LEMMA ReadPart ==
    ASSUME FixTypeOK, NEW i \in DOMAIN Parts(fixer),
           GoesOn(fixer, Parts(fixer)[i],
                  IF api THEN world[Parts(fixer)[i]] ELSE Unreadable),
           NEW c \in Broken(world), c.part = Parts(fixer)[i]
    PROVE  Exempt(c)
<1>1. fixer \in Fixers /\ c \in Conditions(fixer) /\ ~Holds(c, world)
  BY DEF FixTypeOK, Broken
<1>2. CASE api
  <2>1. c.part \in PartsOf(fixer)
    BY DEF PartsOf
  <2>2. world[c.part] \subseteq KnownFacts(fixer)
    BY <2>1 DEF FixTypeOK
  <2>3. world[c.part] \cap Unmodelled = {}
    BY <1>1, <2>2, ConditionsAre DEF KnownFacts
  <2> QED BY <1>1, <1>2, <2>3, GoesOnRightly
<1>3. CASE ~api
  BY <1>1, <1>3, GoesOnBlindly DEF Exempt
<1> QED BY <1>2, <1>3

(* Updates of a run. *)
LEMMA RunTypes ==
    ASSUME NEW now \in Run, NEW m \in Nat, NEW n \in Nat, NEW d \in BOOLEAN
    PROVE  /\ [now EXCEPT !.step = m] \in Run
           /\ [now EXCEPT !.step = m, !.at = n] \in Run
           /\ [now EXCEPT !.done = d] \in Run
BY Zenon DEF Run

LEMMA NextCandidateIs ==
    ASSUME FixTypeOK, NEW now \in Run
    PROVE  /\ NextCandidate(now) \in Run
           /\ NextCandidate(now).step \in {0, 2}
<1>1. Idle \in Run /\ Idle.step = 0
  BY DEF Idle, Run
<1>2. CASE NextCandidate(now) = Idle
  BY <1>1, <1>2
<1>3. CASE ~now.done /\ NextCandidate(now) = [now EXCEPT !.step = 2, !.at = now.at + 1]
  <2> DEFINE next == [now EXCEPT !.step = 2, !.at = now.at + 1]
  <2>1. next \in Run
    <3>1. now.at + 1 \in Nat /\ 2 \in Nat
      BY DEF Run
    <3> HIDE DEF next
    <3> QED BY <3>1, RunTypes, Zenon DEF next
  <2>2. next.step = 2
    BY DEF Run
  <2> QED BY <1>3, <2>1, <2>2
<1> QED BY <1>2, <1>3 DEF NextCandidate

LEMMA CuredWorld ==
    ASSUME FixTypeOK
    PROVE  Cured \in [PartsOf(fixer) -> SUBSET KnownFacts(fixer)]
BY DEF FixTypeOK, Cured

(* A replica goes on: what has to be seen to. *)
LEMMA ProceedStep ==
    ASSUME FixInv, NEW r \in Replicas, NEW now \in Run, NEW writing \in BOOLEAN,
           NEW w \in [PartsOf(fixer) -> SUBSET KnownFacts(fixer)],
           Proceed(r, now, writing, w),
           \A i \in DOMAIN Parts(fixer) : i < now.step =>
               \A c \in shut[r] \cap Broken(w) : c.part = Parts(fixer)[i] => Exempt(c),
           writing => \A c \in shut[r] : Exempt(c)
    PROVE  FixInv'
<1>1. FixTypeOK /\ ReadSoFar /\ WritesWhatItMay
  BY DEF FixInv
<1>2. /\ world' = w /\ run' = [run EXCEPT ![r] = now] /\ wire' = [wire EXCEPT ![r] = writing]
      /\ fixer' = fixer
      /\ shut' = [q \in Replicas |->
            IF q = r /\ now = Idle /\ ~writing THEN {} ELSE shut[q] \cap Broken(w)]
  BY DEF Proceed
<1>3. \A q \in Replicas : /\ shut'[q] \subseteq shut[q]
                          /\ shut'[q] = {} \/ shut'[q] \subseteq Broken(w)
  BY <1>2
<1>4. \A q \in Replicas : /\ run'[q] = IF q = r THEN now ELSE run[q]
                          /\ wire'[q] = IF q = r THEN writing ELSE wire[q]
  BY <1>1, <1>2 DEF FixTypeOK
<1>5. FixTypeOK'
  BY <1>1, <1>2, <1>3 DEF FixTypeOK
<1>6. ReadSoFar'
  BY <1>1, <1>2, <1>3, <1>4 DEF ReadSoFar, Exempt
<1>7. WritesWhatItMay'
  BY <1>1, <1>2, <1>3, <1>4 DEF WritesWhatItMay, Exempt
<1> QED BY <1>5, <1>6, <1>7 DEF FixInv
--------------------------------------------------------------------------------
LEMMA FixInit == Init => FixInv
<1> SUFFICES ASSUME Init PROVE FixInv
  OBVIOUS
<1>1. /\ fixer \in Fixers /\ run = [r \in Replicas |-> Idle]
      /\ wire = [r \in Replicas |-> FALSE] /\ shut = [r \in Replicas |-> {}]
  BY DEF Init
<1>2. Idle \in Run /\ Idle.step = 0
  BY DEF Idle, Run
<1>3. PICK broken : world = WorldWithout(fixer, broken)
  BY DEF Init
<1>4. world \in [PartsOf(fixer) -> SUBSET KnownFacts(fixer)]
  BY <1>3 DEF WorldWithout, KnownFacts
<1>5. FixTypeOK
  BY <1>1, <1>2, <1>4 DEF FixTypeOK
<1> QED
  BY <1>1, <1>2, <1>5 DEF FixInv, ReadSoFar, WritesWhatItMay

LEMMA StartStep ==
    ASSUME FixInv, NEW r \in Replicas, Start(r)
    PROVE  FixInv'
<1>1. FixTypeOK /\ ReadSoFar /\ WritesWhatItMay
  BY DEF FixInv
<1> DEFINE first == [Idle EXCEPT !.step = 2, !.at = 1]
<1>2. first \in Run /\ first.step = 2
  BY DEF Idle, Run
<1>3. /\ run' = [run EXCEPT ![r] = first] /\ shut' = [shut EXCEPT ![r] = Broken(world)]
      /\ ~wire[r] /\ UNCHANGED <<fixer, world, wire>>
      /\ GoesOn(fixer, Head(Parts(fixer)), IF api THEN world[Head(Parts(fixer))] ELSE Unreadable)
  BY DEF Start
<1> HIDE DEF first
<1>4. Head(Parts(fixer)) = Parts(fixer)[1] /\ 1 \in DOMAIN Parts(fixer)
  BY <1>1, PartsAre DEF FixTypeOK
<1>5. \A c \in Broken(world) : c.part = Parts(fixer)[1] => Exempt(c)
  BY <1>1, <1>3, <1>4, ReadPart
<1>6. FixTypeOK'
  BY <1>1, <1>2, <1>3 DEF FixTypeOK, Broken
<1>7. \A q \in Replicas : /\ run'[q] = IF q = r THEN first ELSE run[q]
                          /\ shut'[q] = IF q = r THEN Broken(world) ELSE shut[q]
  BY <1>1, <1>3 DEF FixTypeOK
<1>8. ReadSoFar'
  <2> SUFFICES ASSUME NEW q \in Replicas, NEW i \in DOMAIN Parts(fixer), i < run'[q].step,
                      NEW c \in shut'[q], c.part = Parts(fixer)[i]
               PROVE  Exempt(c)
    BY <1>3 DEF ReadSoFar, Exempt
  <2>1. CASE q = r
    <3>1. i = 1
      BY <1>1, <1>2, <1>7, <2>1, PartsAre DEF FixTypeOK
    <3> QED BY <1>5, <1>7, <2>1, <3>1
  <2>2. CASE q # r
    BY <1>1, <1>7, <2>2 DEF ReadSoFar
  <2> QED BY <2>1, <2>2
<1>9. WritesWhatItMay'
  BY <1>1, <1>3, <1>7 DEF WritesWhatItMay
<1> QED BY <1>6, <1>8, <1>9 DEF FixInv

LEMMA ReadStep ==
    ASSUME FixInv, NEW r \in Replicas, Read(r)
    PROVE  FixInv'
<1>1. FixTypeOK /\ ReadSoFar /\ run[r] \in Run
      /\ world \in [PartsOf(fixer) -> SUBSET KnownFacts(fixer)]
  BY DEF FixInv, FixTypeOK
<1> DEFINE n == run[r].step
           part == Parts(fixer)[n]
           seen == IF api THEN world[part] ELSE Unreadable
           frozen == FoundFrozen(fixer, part, seen)
           on == [run[r] EXCEPT !.step = n + 1]
           off == [run[r] EXCEPT !.done = frozen]
           now == IF GoesOn(fixer, part, seen) THEN on ELSE NextCandidate(off)
<1>2. n \in 2..Len(Parts(fixer)) /\ Proceed(r, now, FALSE, world)
  BY DEF Read
<1>3. n \in Nat /\ n >= 2 /\ n \in DOMAIN Parts(fixer) /\ DOMAIN Parts(fixer) \subseteq Nat
  BY <1>1, <1>2, PartsAre DEF FixTypeOK, Run
<1>4. ASSUME NEW i \in DOMAIN Parts(fixer), i < n, NEW c \in shut[r], c.part = Parts(fixer)[i]
      PROVE  Exempt(c)
  BY <1>1, <1>4 DEF ReadSoFar
<1>5. CASE GoesOn(fixer, part, seen)
  <2>1. on \in Run
    <3>1. n + 1 \in Nat 
      BY <1>3
    <3> HIDE DEF on, n
    <3> QED BY <1>1, <3>1, RunTypes, Zenon DEF on
  <2>2. on.step = n + 1
    BY <1>1 DEF Run
  <2>3. ASSUME NEW i \in DOMAIN Parts(fixer), i < on.step,
               NEW c \in shut[r] \cap Broken(world), c.part = Parts(fixer)[i]
        PROVE  Exempt(c)
    <3>1. i < n \/ i = n
      BY <1>3, <2>2, <2>3
    <3>2. CASE i = n
      BY <1>1, <1>5, <2>3, <3>2, ReadPart
    <3> QED BY <1>4, <2>3, <3>1, <3>2
  <2>4. Proceed(r, on, FALSE, world)
    BY <1>2, <1>5
  <2> HIDE DEF on
  <2> QED BY <1>1, <2>1, <2>3, <2>4, ProceedStep
<1>6. CASE ~GoesOn(fixer, part, seen)
  <2>1. frozen \in BOOLEAN
    BY <1>1 DEF FoundFrozen
  <2>2. off \in Run
    <3>1. 0 \in Nat
      OBVIOUS
    <3> HIDE DEF off, frozen
    <3> QED BY <1>1, <2>1, <3>1, RunTypes, Zenon DEF off
  <2> DEFINE next == NextCandidate(off)
  <2>3. next \in Run /\ next.step \in {0, 2}
    BY <1>1, <2>2, NextCandidateIs
  <2>4. ASSUME NEW i \in DOMAIN Parts(fixer), i < next.step,
               NEW c \in shut[r] \cap Broken(world), c.part = Parts(fixer)[i]
        PROVE  Exempt(c)
    <3>1. i < n
      BY <1>3, <2>3, <2>4
    <3> QED BY <1>4, <2>4, <3>1
  <2>5. Proceed(r, next, FALSE, world)
    BY <1>2, <1>6
  <2> HIDE DEF next
  <2> QED BY <1>1, <2>3, <2>4, <2>5, ProceedStep
<1> QED BY <1>5, <1>6

(* A run that has read all parts may write. *)
LEMMA AllRead ==
    ASSUME FixInv, NEW r \in Replicas, run[r].step \in {Writing, Waiting}, NEW c \in shut[r]
    PROVE  Exempt(c)
<1>1. FixTypeOK /\ ReadSoFar /\ fixer \in Fixers /\ c \in Conditions(fixer)
  BY DEF FixInv, FixTypeOK
<1>2. PICK i \in DOMAIN Parts(fixer) : c.part = Parts(fixer)[i]
  BY <1>1, ConditionsAre
<1>3. i < run[r].step
  BY <1>1, <1>2, PartsAre DEF Writing, Waiting
<1> QED BY <1>1, <1>2, <1>3 DEF ReadSoFar

LEMMA SendStep ==
    ASSUME FixInv, NEW r \in Replicas, Send(r)
    PROVE  FixInv'
<1>1. FixTypeOK /\ run[r] \in Run /\ fixer \in Fixers
      /\ world \in [PartsOf(fixer) -> SUBSET KnownFacts(fixer)]
  BY DEF FixInv, FixTypeOK
<1> DEFINE now == [run[r] EXCEPT !.step = Waiting]
<1>2. run[r].step = Writing /\ Proceed(r, now, TRUE, world)
  BY DEF Send
<1>3. now \in Run
  <2>1. Waiting \in Nat 
    BY <1>1, PartsAre DEF Waiting
  <2> HIDE DEF now
  <2> QED BY <1>1, <2>1, RunTypes, Zenon DEF now
<1>4. \A c \in shut[r] : Exempt(c)
  BY <1>2, AllRead
<1> HIDE DEF now
<1> QED BY <1>1, <1>2, <1>3, <1>4, ProceedStep

(* The answer to a write, or its loss. *)
LEMMA AnswerStep ==
    ASSUME FixInv, NEW r \in Replicas, NEW now \in Run,
           NEW w \in [PartsOf(fixer) -> SUBSET KnownFacts(fixer)],
           Proceed(r, Answered(r, now), FALSE, w)
    PROVE  FixInv'
<1>1. FixTypeOK /\ ReadSoFar /\ run[r] \in Run /\ fixer \in Fixers
  BY DEF FixInv, FixTypeOK
<1>2. CASE run[r].step = Waiting
  <2> DEFINE next == NextCandidate(now)
  <2>1. next \in Run
    BY <1>1, NextCandidateIs
  <2>2. Proceed(r, next, FALSE, w)
    BY <1>2 DEF Answered
  <2>3. \A c \in shut[r] : Exempt(c)
    BY <1>2, AllRead
  <2> HIDE DEF next
  <2> QED BY <2>1, <2>2, <2>3, ProceedStep
<1>3. CASE run[r].step # Waiting
  <2>1. Proceed(r, run[r], FALSE, w)
    BY <1>3 DEF Answered
  <2>2. \A i \in DOMAIN Parts(fixer) : i < run[r].step =>
            \A c \in shut[r] \cap Broken(w) : c.part = Parts(fixer)[i] => Exempt(c)
    BY <1>1 DEF ReadSoFar
  <2> QED BY <1>1, <2>1, <2>2, ProceedStep
<1> QED BY <1>2, <1>3

LEMMA WriteStep ==
    ASSUME FixInv, NEW r \in Replicas, Applied(r) \/ Failed(r)
    PROVE  FixInv'
<1>1. FixTypeOK /\ run[r] \in Run
      /\ world \in [PartsOf(fixer) -> SUBSET KnownFacts(fixer)]
  BY DEF FixInv, FixTypeOK
<1>2. Cured \in [PartsOf(fixer) -> SUBSET KnownFacts(fixer)]
  BY <1>1, CuredWorld
<1>3. CASE Applied(r)
  <2> DEFINE now == [run[r] EXCEPT !.done = OncePerOwner(fixer)]
  <2>1. Proceed(r, Answered(r, now), FALSE, Cured)
    BY <1>3 DEF Applied
  <2>2. OncePerOwner(fixer) \in BOOLEAN
    BY DEF OncePerOwner
  <2>3. now \in Run
    <3>1. 0 \in Nat
      OBVIOUS
    <3> HIDE DEF now
    <3> QED BY <1>1, <2>2, <3>1, RunTypes, Zenon DEF now
  <2> HIDE DEF now
  <2> QED BY <1>2, <2>1, <2>3, AnswerStep
<1>4. CASE Failed(r)
  <2>1. PICK w \in {world, Cured} : Proceed(r, Answered(r, run[r]), FALSE, w)
    BY <1>4 DEF Failed
  <2> QED BY <1>1, <1>2, <2>1, AnswerStep
<1> QED BY <1>3, <1>4

LEMMA ChangeStep ==
    ASSUME FixInv, Change
    PROVE  FixInv'
<1>1. FixTypeOK /\ ReadSoFar /\ WritesWhatItMay /\ fixer \in Fixers
  BY DEF FixInv, FixTypeOK
<1>2. PICK c \in Conditions(fixer) :
        LET w == [world EXCEPT ![c.part] =
                      IF c.fact \in @ THEN @ \ {c.fact} ELSE @ \cup {c.fact}]
        IN  world' = w /\ shut' = [r \in Replicas |-> shut[r] \cap Broken(w)]
  BY DEF Change
<1>3. UNCHANGED <<fixer, run, wire>>
  BY DEF Change
<1>4. c.fact \in KnownFacts(fixer)
  BY DEF KnownFacts
<1>5. world' \in [PartsOf(fixer) -> SUBSET KnownFacts(fixer)]
  BY <1>1, <1>2, <1>4 DEF FixTypeOK
<1>6. shut' \in [Replicas -> SUBSET Conditions(fixer)] /\ \A r \in Replicas : shut'[r] \subseteq shut[r]
  BY <1>1, <1>2 DEF FixTypeOK
<1>7. FixTypeOK'
  BY <1>1, <1>3, <1>5, <1>6 DEF FixTypeOK
<1>8. ReadSoFar' /\ WritesWhatItMay'
  BY <1>1, <1>3, <1>6 DEF ReadSoFar, WritesWhatItMay, Exempt
<1> QED BY <1>7, <1>8 DEF FixInv

LEMMA ExitStep ==
    ASSUME FixInv, RunsEnd
    PROVE  FixInv'
<1>1. FixTypeOK /\ ReadSoFar /\ WritesWhatItMay
  BY DEF FixInv
<1>2. UNCHANGED <<fixer, world, wire>>
  BY DEF RunsEnd
<1>3. \A r \in Replicas : /\ run'[r] \in {run[r], Idle}
                          /\ shut'[r] \in {shut[r], {}}
  BY DEF RunsEnd
<1>4. Idle \in Run /\ Idle.step = 0
  BY DEF Idle, Run
<1>5. FixTypeOK'
  <2>1. run' \in [Replicas -> Run]
    BY <1>1, <1>4 DEF RunsEnd, FixTypeOK
  <2>2. shut' \in [Replicas -> SUBSET Conditions(fixer)]
    BY <1>1 DEF RunsEnd, FixTypeOK
  <2> QED BY <1>1, <1>2, <2>1, <2>2 DEF FixTypeOK
<1>6. ReadSoFar'
  <2> SUFFICES ASSUME NEW r \in Replicas, NEW i \in DOMAIN Parts(fixer), i < run'[r].step,
                      NEW c \in shut'[r], c.part = Parts(fixer)[i]
               PROVE  Exempt(c)
    BY <1>2 DEF ReadSoFar, Exempt
  <2>1. i \in Nat
    BY <1>1, PartsAre DEF FixTypeOK
  <2>2. run'[r] = run[r] /\ c \in shut[r]
    BY <1>3, <1>4, <2>1
  <2> QED BY <1>1, <2>2 DEF ReadSoFar
<1>7. WritesWhatItMay'
  BY <1>1, <1>2, <1>3 DEF WritesWhatItMay
<1> QED BY <1>5, <1>6, <1>7 DEF FixInv

LEMMA FixInvStep ==
    ASSUME FixInv, [Next]_vars
    PROVE  FixInv'
<1>1. CASE UNCHANGED vars
  BY <1>1
  DEF vars, fixVars, electionVars, FixInv, FixTypeOK, ReadSoFar, WritesWhatItMay, Exempt
<1>2. ASSUME NEW r \in Replicas, FixStep(r) PROVE FixInv'
  BY <1>2, StartStep, ReadStep, SendStep, WriteStep DEF FixStep
<1>3. CASE Change
  BY <1>3, ChangeStep
<1>4. CASE Election
  BY <1>4, ExitStep DEF Election
<1> QED BY <1>1, <1>2, <1>3, <1>4 DEF Next

(* For any replicas, any outages, crashes and rollouts, any losses of writes and
   of answers, and any changes of the cluster: a fixer writes only what held to be
   written at some time in its run, whether its replica still leads or not. *)
THEOREM FixersWriteWhatTheyMay == Spec => []WritesWhatItMay
<1>1. FixInv => WritesWhatItMay
  BY DEF FixInv
<1> QED BY <1>1, FixInit, FixInvStep, PTL DEF Spec

(* The fixers at work change nothing in the election: LeadersAreUnique carries
   over to the replicas with their runs. *)
THEOREM FixersHaveOneLeader == Spec => []OneLeader
<1>1. Init => IndInv
  BY InitInd DEF Init
<1>2. [Next]_vars => [ElectionNext]_electionVars
  BY DEF Next, vars, FixStep, Start, Read, Send, Applied, Failed, Proceed, Change, Election
<1>3. IndInv => OneLeader
  BY DEF IndInv, LeaderIsFresh, OneLeader
<1> QED BY <1>1, <1>2, <1>3, StepInd, PTL DEF Spec
================================================================================
