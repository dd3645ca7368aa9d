---------------------------- MODULE LeaderElection ----------------------------
(***************************************************************************)
(* The replicas of the watcher and the lease between them (RunWithLeader).    *)
(*                                                                         *)
(* client-go is external: a candidate takes a lease that is free or that was  *)
(* not renewed for LeaseDuration; the holder tries to renew it every          *)
(* RetryPeriod and gives up after RenewDeadline of failures.  Time counts in   *)
(* steps of five seconds from the last renewal.  An elector that gives up      *)
(* first releases the lease (ReleaseOnCancel) and cancels the context of the   *)
(* body only when it returns, and the process exits when the body has         *)
(* returned.  It is assumed that no process is suspended for longer than the   *)
(* margin between giving up and LeaseDuration.                               *)
(***************************************************************************)
EXTENDS Naturals, FiniteSets

CONSTANTS
    Replicas,
    None,           \* no holder
    MaxOutages,     \* how often the API server becomes unreachable
    MaxExits        \* how often a process is killed or told to stop

ASSUME LeaderAssumption ==
    /\ None \notin Replicas
    /\ MaxOutages \in Nat
    /\ MaxExits \in Nat

VARIABLES
    lease,          \* the holder of the Lease object
    age,            \* time since it was renewed
    elector,        \* replica -> what its process does
    api,            \* whether the API server answers
    outages, exits

electionVars == <<lease, age, elector, api, outages, exits>>

(* Seeded defect: the two durations are mixed up. *)
swappedDurations == [LeaseDuration |-> 4, RenewDeadline |-> 6, RetryPeriod |-> 1]

(* withDefaults: 30, 20 and 5 seconds. *)
withDefaults == [LeaseDuration |-> 6, RenewDeadline |-> 4, RetryPeriod |-> 1]

(* The body of a replica runs until its context is cancelled. *)
Running == {"leading", "yielding", "released"}
States == Running \cup {"candidate", "cancelled", "stopping"}

MayAct(r) == elector[r] \in Running

--------------------------------------------------------------------------------
ElectionInit ==
    /\ lease = None
    /\ age = 0
    /\ elector = [r \in Replicas |-> "candidate"]
    /\ api = TRUE
    /\ outages = 0
    /\ exits = 0

(* OnStartedLeading runs the body. *)
Acquire(r) ==
    /\ elector[r] = "candidate" /\ api
    /\ lease = None \/ lease = r \/ age >= withDefaults.LeaseDuration
    /\ lease' = r
    /\ age' = 0
    /\ elector' = [elector EXCEPT ![r] = "leading"]
    /\ UNCHANGED <<api, outages, exits>>

Renew(r) ==
    /\ elector[r] = "leading" /\ api /\ lease = r /\ age > 0
    /\ age' = 0
    /\ UNCHANGED <<lease, elector, api, outages, exits>>

(* Renewals have failed for RenewDeadline. *)
GiveUp(r) ==
    /\ elector[r] = "leading" /\ ~api
    /\ age >= withDefaults.RenewDeadline
    /\ elector' = [elector EXCEPT ![r] = "yielding"]
    /\ UNCHANGED <<lease, age, api, outages, exits>>

(* The release is one more update of the Lease, which may fail. *)
Release(r) ==
    /\ elector[r] = "yielding"
    /\ elector' = [elector EXCEPT ![r] = "released"]
    /\ lease' \in {lease} \cup (IF api /\ lease = r THEN {None} ELSE {})
    /\ UNCHANGED <<age, api, outages, exits>>

(* The elector returns: the context of the body is cancelled, and
   OnStoppedLeading only logs. *)
Cancel(r) ==
    /\ elector[r] = "released"
    /\ elector' = [elector EXCEPT ![r] = "cancelled"]
    /\ UNCHANGED <<lease, age, api, outages, exits>>

(* The body returns, leaderErr lets RunWithLeader return, the process exits and
   is started again. *)
BodyReturns(r) ==
    /\ elector[r] = "cancelled"
    /\ elector' = [elector EXCEPT ![r] = "candidate"]
    /\ UNCHANGED <<lease, age, api, outages, exits>>

(* SIGTERM cancels the context of the command: RunWithLeader returns at once,
   while the elector may or may not get to release the lease. *)
Terminate(r) ==
    /\ elector[r] \in {"candidate", "leading"} /\ exits < MaxExits
    /\ elector' = [elector EXCEPT ![r] = "stopping"]
    /\ lease' \in {lease} \cup (IF api /\ elector[r] = "leading" THEN {None} ELSE {})
    /\ exits' = exits + 1
    /\ UNCHANGED <<age, api, outages>>

Crash(r) ==
    /\ elector[r] # "stopping" /\ exits < MaxExits
    /\ elector' = [elector EXCEPT ![r] = "candidate"]
    /\ exits' = exits + 1
    /\ UNCHANGED <<lease, age, api, outages>>

Restart(r) ==
    /\ elector[r] = "stopping"
    /\ elector' = [elector EXCEPT ![r] = "candidate"]
    /\ UNCHANGED <<lease, age, api, outages, exits>>

(* Time passes; a leader has had its try to renew, and has given up, in time. *)
Elapse ==
    /\ lease # None /\ age < withDefaults.LeaseDuration
    /\ \A r \in Replicas : elector[r] = "leading" =>
          age < withDefaults.RetryPeriod + (IF api THEN 0 ELSE withDefaults.RenewDeadline)
    /\ age' = age + 1
    /\ UNCHANGED <<lease, elector, api, outages, exits>>

Outage ==
    /\ api /\ outages < MaxOutages
    /\ api' = FALSE
    /\ outages' = outages + 1
    /\ UNCHANGED <<lease, age, elector, exits>>

Recover ==
    /\ ~api
    /\ api' = TRUE
    /\ UNCHANGED <<lease, age, elector, outages, exits>>

ElectionStep(r) ==
    \/ Acquire(r) \/ Renew(r) \/ GiveUp(r) \/ Release(r) \/ Cancel(r) \/ BodyReturns(r)
    \/ Terminate(r) \/ Crash(r) \/ Restart(r)

ElectionNext == (\E r \in Replicas : ElectionStep(r)) \/ Elapse \/ Outage \/ Recover

ElectionSpec == ElectionInit /\ [][ElectionNext]_electionVars

--------------------------------------------------------------------------------
ElectionTypeOK ==
    /\ lease \in Replicas \cup {None}
    /\ age \in 0..withDefaults.LeaseDuration
    /\ elector \in [Replicas -> States]
    /\ api \in BOOLEAN
    /\ outages \in 0..MaxOutages
    /\ exits \in 0..MaxExits

(* At most one replica leads: whoever may take the lease over, the holder has
   given up before, although it does not learn of it from anyone else. *)
OneLeader ==
    \A r, q \in Replicas : elector[r] = "leading" /\ elector[q] = "leading" => r = q
================================================================================
