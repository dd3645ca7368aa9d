------------------------- MODULE LeaderElection_proofs -------------------------
(***************************************************************************)
(* For any set of replicas and any number of outages and exits, at most one   *)
(* replica leads.  The argument is the one behind the three durations: who     *)
(* leads holds the lease, and has renewed it more recently than LeaseDuration, *)
(* since it gives up after RetryPeriod and RenewDeadline; so no one else may    *)
(* take the lease while it leads.                                            *)
(***************************************************************************)
EXTENDS LeaderElection, TLAPS

(* Who leads holds a lease that is too fresh to be taken over. *)
LeaderIsFresh ==
    \A r \in Replicas : elector[r] = "leading" =>
        /\ lease = r
        /\ age <= withDefaults.RetryPeriod + withDefaults.RenewDeadline

IndInv == ElectionTypeOK /\ LeaderIsFresh

LEMMA Durations ==
    /\ withDefaults.LeaseDuration = 6
    /\ withDefaults.RenewDeadline = 4
    /\ withDefaults.RetryPeriod = 1
BY DEF withDefaults

LEMMA InitInd == ElectionInit => IndInv
BY LeaderAssumption, Durations DEF LeaderAssumption, Durations,
       ElectionInit, IndInv, ElectionTypeOK, LeaderIsFresh, States, Running

LEMMA ReplicaStep ==
    ASSUME IndInv, NEW r \in Replicas, ElectionStep(r)
    PROVE  IndInv'
<1> USE LeaderAssumption, Durations DEF LeaderAssumption, Durations, IndInv, ElectionTypeOK, States, Running
<1>1. CASE Acquire(r)
  <2>1. ASSUME NEW q \in Replicas, elector[q] = "leading" PROVE FALSE
    <3>1. lease = q /\ age <= 5
      BY <2>1 DEF LeaderIsFresh
    <3>2. q # r
      BY <1>1, <2>1 DEF Acquire
    <3> QED
      BY <1>1, <3>1, <3>2 DEF Acquire
  <2>2. LeaderIsFresh'
    BY <1>1, <2>1 DEF Acquire, LeaderIsFresh
  <2> QED
    BY <1>1, <2>2 DEF Acquire
<1>2. CASE Renew(r)
  BY <1>2 DEF Renew, LeaderIsFresh
<1>3. CASE GiveUp(r)
  BY <1>3 DEF GiveUp, LeaderIsFresh
<1>4. CASE Release(r)
  <2>1. ASSUME NEW q \in Replicas, elector'[q] = "leading" PROVE lease' = q
    BY <1>4, <2>1 DEF Release, LeaderIsFresh
  <2> QED
    BY <1>4, <2>1 DEF Release, LeaderIsFresh
<1>5. CASE Cancel(r)
  BY <1>5 DEF Cancel, LeaderIsFresh
<1>6. CASE BodyReturns(r)
  BY <1>6 DEF BodyReturns, LeaderIsFresh
<1>7. CASE Terminate(r)
  <2>1. ASSUME NEW q \in Replicas, elector'[q] = "leading" PROVE lease' = q
    BY <1>7, <2>1 DEF Terminate, LeaderIsFresh
  <2> QED
    BY <1>7, <2>1 DEF Terminate, LeaderIsFresh
<1>8. CASE Crash(r)
  BY <1>8 DEF Crash, LeaderIsFresh
<1>9. CASE Restart(r)
  BY <1>9 DEF Restart, LeaderIsFresh
<1> QED
  BY <1>1, <1>2, <1>3, <1>4, <1>5, <1>6, <1>7, <1>8, <1>9 DEF ElectionStep

LEMMA StepInd ==
    ASSUME IndInv, [ElectionNext]_electionVars
    PROVE  IndInv'
<1> USE LeaderAssumption, Durations DEF LeaderAssumption, Durations, IndInv, ElectionTypeOK
<1>1. CASE \E r \in Replicas : ElectionStep(r)
  BY <1>1, ReplicaStep
<1>2. CASE Elapse
  BY <1>2 DEF Elapse, LeaderIsFresh
<1>3. CASE Outage
  <2>1. outages' \in 0..MaxOutages
    <3> outages < MaxOutages /\ outages' = outages + 1
      BY <1>3 DEF Outage
    <3> QED
      OBVIOUS
  <2>2. api' \in BOOLEAN
    BY <1>3 DEF Outage
  <2>3. LeaderIsFresh'
    BY <1>3 DEF Outage, LeaderIsFresh
  <2>4. UNCHANGED <<lease, age, elector, exits>>
    BY <1>3 DEF Outage
  <2> QED
    BY <2>1, <2>2, <2>3, <2>4
<1>4. CASE Recover
  BY <1>4 DEF Recover, LeaderIsFresh
<1>5. CASE UNCHANGED electionVars
  BY <1>5 DEF electionVars, LeaderIsFresh
<1> QED
  BY <1>1, <1>2, <1>3, <1>4, <1>5 DEF ElectionNext

(* RunWithLeader: at most one replica leads, whatever fails and whenever. *)
THEOREM LeadersAreUnique == ElectionSpec => []OneLeader
<1>1. IndInv => OneLeader
  BY DEF IndInv, LeaderIsFresh, OneLeader
<1> QED
  BY <1>1, InitInd, StepInd, PTL DEF ElectionSpec
================================================================================
