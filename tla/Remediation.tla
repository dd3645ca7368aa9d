------------------------------ MODULE Remediation ------------------------------
(***************************************************************************)
(* A fixer at work in the replicas of the watcher, against a cluster that      *)
(* changes while it reads, and with writes that arrive late or whose answer    *)
(* is lost.                                                                 *)
(*                                                                         *)
(* The model follows one object of one fixer with, for the fixers that write   *)
(* to an owner, two candidates of the same owner.  Writes go by name, or by    *)
(* index: they hit what is there when they arrive.                            *)
(***************************************************************************)
EXTENDS LeaderElection, Fixers

CONSTANTS
    Fixers,         \* the fixers to consider
    MaxChanges      \* how often the cluster changes by itself

ASSUME FixersAssumption ==
    /\ Fixers \subseteq {"StuckJobsWithBadSecretRef", "StuckRSPods", "StaleErrorPods",
                        "deleteStaleCertificateRequests", "deleteStaleOrders",
                        "TLSSecretMismatch"}
    /\ MaxChanges \in Nat

VARIABLES
    fixer,          \* the fixer, fixed in a behaviour
    world,          \* part -> the facts that hold of it
    changes,
    run,            \* replica -> where its run is
    wire,           \* replica -> whether a write of it is in flight
    shut            \* replica -> conditions that did not hold since its run began

fixVars == <<fixer, world, changes, run, wire, shut>>
vars == <<electionVars, fixVars>>

--------------------------------------------------------------------------------
(* What an operator relies on: the fact of a part is needed for a write, or
   forbids it.  From the fixers' descriptions, not from their code. *)
Need(part, fact) == [part |-> part, fact |-> fact, needed |-> TRUE]
Ban(part, fact) == [part |-> part, fact |-> fact, needed |-> FALSE]

JobConditions ==
    {Need("pod", "Job"), Need("pod", "missingKey"), Ban("pod", "protected"),
     Need("job", "CronJob"), Ban("cronjob", "suspended"), Ban("cronjob", "GitOps")}
ReplicaSetConditions ==
    {Need("pod", "CreateContainerConfigError"), Ban("pod", "missingKey"),
     Ban("pod", "protected"), Need("pod", "ReplicaSet"),
     Need("replicaset", "Deployment"), Need("replicaset", "revision"),
     Ban("deployment", "GitOps"), Ban("deployment", "paused"),
     Need("deployment", "newerRevision")}
ErrorPodConditions ==
    {Need("pod", "Failed"), Ban("pod", "otherOwner"), Ban("pod", "protected"),
     Ban("pod", "GitOps"), Ban("job", "GitOps")}
RequestConditions ==
    {Need("controller", "ready"), Ban("request", "protected"), Need("request", "failureTime")}
OrderConditions ==
    {Need("controller", "ready"), Ban("order", "protected"), Need("order", "errored")}
IngressConditions ==
    {Ban("ingress", "protected"), Ban("ingress", "GitOps"),
     Need("ingress", "staleSecretAtIndex"), Need("secret", "expiresSoon"),
     Need("certificate", "Ready"), Need("certificate", "sameHost")}

Conditions(f) ==
    CASE f = "StuckJobsWithBadSecretRef" -> JobConditions
      [] f = "StuckRSPods" -> ReplicaSetConditions
      [] f = "StaleErrorPods" -> ErrorPodConditions
      [] f = "deleteStaleCertificateRequests" -> RequestConditions
      [] f = "deleteStaleOrders" -> OrderConditions
      [] f = "TLSSecretMismatch" -> IngressConditions

(* What a write that arrives takes away. *)
Symptom(f) ==
    CHOOSE c \in Conditions(f) :
        c.fact \in {"missingKey", "CreateContainerConfigError", "Failed", "failureTime",
                    "errored", "staleSecretAtIndex"} /\ c.needed

(* Owners, namespaces and hosts are those of the object and do not change. *)
Unchanging == {"Job", "CronJob", "ReplicaSet", "Deployment", "otherOwner", "protected",
               "revision", "sameHost"}

PartsOf(f) == {Parts(f)[i] : i \in DOMAIN Parts(f)}
Holds(c, w) == c.fact \in w[c.part] <=> c.needed
Broken(w) == {c \in Conditions(fixer) : ~Holds(c, w)}

(* The worlds where the given conditions, and no others, do not hold. *)
WorldWithout(f, broken) ==
    [p \in PartsOf(f) |->
        {c.fact : c \in {c \in Conditions(f) : c.part = p /\ (c.needed <=> c \notin broken)}}]

Candidates == IF OncePerOwner(fixer) THEN 2 ELSE 1
Idle == [step |-> 0, at |-> 0, done |-> FALSE]
Writing == Len(Parts(fixer)) + 1
Waiting == Len(Parts(fixer)) + 2

--------------------------------------------------------------------------------
(* At the beginning at most one condition does not hold. *)
Init ==
    /\ ElectionInit
    /\ fixer \in Fixers
    /\ \E broken \in {{}} \cup {{c} : c \in Conditions(fixer)} : world = WorldWithout(fixer, broken)
    /\ changes = 0
    /\ run = [r \in Replicas |-> Idle]
    /\ wire = [r \in Replicas |-> FALSE]
    /\ shut = [r \in Replicas |-> {}]

(* The world becomes w, and replica r goes on to now; writing tells whether a
   write of it is in flight then.  What was shut all the time may be so still. *)
Proceed(r, now, writing, w) ==
    /\ world' = w
    /\ run' = [run EXCEPT ![r] = now]
    /\ wire' = [wire EXCEPT ![r] = writing]
    /\ shut' = [q \in Replicas |->
            IF q = r /\ now = Idle /\ ~writing THEN {} ELSE shut[q] \cap Broken(w)]
    /\ UNCHANGED <<electionVars, fixer, changes>>

(* The loop goes on with the next candidate, of which the list has told the facts
   of the first part.  A candidate whose owner is done is passed over. *)
NextCandidate(now) ==
    IF now.at < Candidates /\ ~now.done
    THEN [now EXCEPT !.step = 2, !.at = @ + 1]
    ELSE Idle

(* The first read of a run: the list of the candidates, or the controller's
   Deployment.  Nothing happens if it fails, or if there is no candidate. *)
Start(r) ==
    /\ MayAct(r) /\ run[r] = Idle /\ ~wire[r]
    /\ \E seen \in {IF api THEN world[Head(Parts(fixer))] ELSE Unreadable} :
          GoesOn(fixer, Head(Parts(fixer)), seen)
    /\ run' = [run EXCEPT ![r] = [Idle EXCEPT !.step = 2, !.at = 1]]
    /\ shut' = [shut EXCEPT ![r] = Broken(world)]
    /\ UNCHANGED <<electionVars, fixer, world, changes, wire>>

Read(r) ==
    /\ MayAct(r) /\ run[r].step \in 2..Len(Parts(fixer))
    /\ LET part == Parts(fixer)[run[r].step]
           seen == IF api THEN world[part] ELSE Unreadable
           frozen == FoundFrozen(fixer, part, seen)
       IN  Proceed(r, IF GoesOn(fixer, part, seen) THEN [run[r] EXCEPT !.step = @ + 1]
                      ELSE NextCandidate([run[r] EXCEPT !.done = frozen]),
                   FALSE, world)

Send(r) ==
    /\ MayAct(r) /\ run[r].step = Writing
    /\ Proceed(r, [run[r] EXCEPT !.step = Waiting], TRUE, world)

Cured == [world EXCEPT ![Symptom(fixer).part] = @ \ {Symptom(fixer).fact}]

(* The run goes on with the answer to its write; the process may be gone by then. *)
Answered(r, now) == IF run[r].step = Waiting THEN NextCandidate(now) ELSE run[r]

(* The write arrives and is answered; a settled owner is remembered. *)
Applied(r) ==
    /\ api /\ wire[r]
    /\ Proceed(r, Answered(r, [run[r] EXCEPT !.done = OncePerOwner(fixer)]), FALSE, Cured)

(* The connection breaks: the write is lost, or only its answer is. *)
Failed(r) ==
    /\ ~api /\ wire[r]
    /\ \E w \in {world, Cured} : Proceed(r, Answered(r, run[r]), FALSE, w)

(* Someone changes the cluster, or the trouble comes or goes by itself. *)
Change ==
    /\ changes < MaxChanges
    /\ \E c \in {c \in Conditions(fixer) : c.fact \notin Unchanging} :
          LET w == [world EXCEPT ![c.part] =
                        IF c.fact \in @ THEN @ \ {c.fact} ELSE @ \cup {c.fact}]
          IN  world' = w /\ shut' = [r \in Replicas |-> shut[r] \cap Broken(w)]
    /\ changes' = changes + 1
    /\ UNCHANGED <<electionVars, fixer, run, wire>>

(* A run ends with its process; a write in flight does not. *)
RunsEnd ==
    /\ LET alive == {r \in Replicas : elector'[r] \in Running \cup {"cancelled"}}
       IN  /\ run' = [r \in Replicas |-> IF r \in alive THEN run[r] ELSE Idle]
           /\ shut' = [r \in Replicas |-> IF r \in alive \/ wire[r] THEN shut[r] ELSE {}]
    /\ UNCHANGED <<fixer, world, changes, wire>>

Election == ElectionNext /\ RunsEnd

FixStep(r) == Start(r) \/ Read(r) \/ Send(r) \/ Applied(r) \/ Failed(r)

Next == (\E r \in Replicas : FixStep(r)) \/ Change \/ Election

Spec == Init /\ [][Next]_vars

(* A process that is up and the elector in it go on, time passes, and the API
   server comes back; nothing has to go wrong. *)
GoesOnElecting(r) ==
    Renew(r) \/ GiveUp(r) \/ Release(r) \/ Cancel(r) \/ BodyReturns(r) \/ Restart(r)

Fairness ==
    /\ \A r \in Replicas :
          WF_vars(FixStep(r)) /\ WF_vars((GoesOnElecting(r) \/ Acquire(r)) /\ RunsEnd)
    /\ WF_vars((Elapse \/ Recover) /\ RunsEnd)

FairSpec == Spec /\ Fairness

--------------------------------------------------------------------------------
(* The parts that a fixer takes for fine when they cannot be read. *)
FailOpen == {"StaleErrorPods", "deleteStaleCertificateRequests", "deleteStaleOrders"}

(* Whatever a fixer writes, each condition for the write held at some time since
   the run began that sent it: what an operator froze, paused or put under GitOps
   before is left alone, by a replica that lost the lease and by a write that was
   delayed as well.  (The Job of a failed pod and the controller of cert-manager
   count as fine when they cannot be read.) *)
WritesWhatItMay ==
    \A r \in Replicas : wire[r] =>
        \A c \in shut[r] : fixer \in FailOpen /\ c.part \in {"job", "controller"}

(* An object for whose repair everything is in place does not stay that way: some
   replica leads and repairs it, or someone changes the cluster. *)
SickIsRepaired == []<>(Broken(world) # {})
================================================================================
