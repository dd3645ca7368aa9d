------------------------- MODULE TriggerPipeline_proofs -------------------------
(* TLAPS proofs about TriggerPipeline, for any sets of kinds, alerts and
   webhook sources. *)
EXTENDS TriggerPipeline, TLAPS

USE DEF world, watching, debounce, loop

LEMMA BoundsAreNat ==
    /\ MaxObjects \in Nat /\ MaxEvents \in Nat /\ MaxLate \in Nat
    /\ MaxObjects > 0 /\ MaxEvents > 0 /\ MaxLate > 0
BY Bounds

LEMMA TypeStep == ASSUME TypeOK, [Next]_vars PROVE TypeOK'
<1> USE BoundsAreNat DEF TypeOK
<1>1. CASE UNCHANGED vars
  BY <1>1 DEF vars
<1>2. ASSUME NEW g \in Kinds, NEW n \in 0..MaxObjects, ClusterChange(g, n) PROVE TypeOK'
  BY <1>2 DEF ClusterChange, Noticed, Sources
<1>3. ASSUME NEW a \in Alerts, AlertFires(a) \/ AlertResolves(a) PROVE TypeOK'
  BY <1>3 DEF AlertFires, AlertResolves, Sources
<1>4. ASSUME NEW h \in Hooks, ServeHTTP(h) PROVE TypeOK'
  BY <1>4 DEF ServeHTTP, Noticed, Sources
<1>5. ASSUME NEW g \in Kinds, WatchFails(g) \/ WatchCloses(g) \/ WatchLoop(g) PROVE TypeOK'
  BY <1>5 DEF WatchFails, WatchCloses, WatchLoop, Watch, PauseOver, WatchEvent, Sources
<1>6. CASE Restart
  BY <1>6 DEF Restart
<1>7. CASE tick
  BY <1>7 DEF tick, Sources
<1>8. CASE Debounce \/ DebounceElapses \/ TimerExpires \/ Fire \/ ResyncTicks
  BY <1>8 DEF Debounce, DebounceElapses, TimerExpires, Fire, ResyncTicks
<1>9. CASE MainLoop
  BY <1>9 DEF MainLoop, InitialCycle, EventCycle, ResyncCycle, CycleEnds, Read
<1> QED
  BY <1>1, <1>2, <1>3, <1>4, <1>5, <1>6, <1>7, <1>8, <1>9 DEF Next, Environment

(* The state keeps its shape; with it no watch hands out an event it does not
   have (watchGVR) and no channel holds more than one token. *)
THEOREM TypeCorrect == Spec => []TypeOK
<1>1. Init => TypeOK
  BY BoundsAreNat DEF Init, TypeOK
<1> QED BY <1>1, TypeStep, PTL DEF Spec

--------------------------------------------------------------------------------
WakeupInv == TypeOK /\ NoLostWakeup

LEMMA WakeupStep == ASSUME WakeupInv, [Next]_vars PROVE NoLostWakeup'
<1> USE DEF NoLostWakeup, OnItsWay
<1>0. TypeOK /\ NoLostWakeup
  BY DEF WakeupInv
<1>1. CASE UNCHANGED vars
  BY <1>0, <1>1 DEF vars
<1>2. ASSUME NEW g \in Kinds, NEW n \in 0..MaxObjects, ClusterChange(g, n) PROVE NoLostWakeup'
  BY <1>0, <1>2 DEF ClusterChange, Noticed, TypeOK, Sources
<1>3. ASSUME NEW a \in Alerts, AlertFires(a) \/ AlertResolves(a) PROVE NoLostWakeup'
  BY <1>0, <1>3 DEF AlertFires, AlertResolves, TypeOK
<1>4. ASSUME NEW h \in Hooks, ServeHTTP(h) PROVE NoLostWakeup'
  BY <1>4 DEF ServeHTTP
<1>5. ASSUME NEW g \in Kinds, WatchFails(g) \/ WatchCloses(g) \/ WatchLoop(g) PROVE NoLostWakeup'
  <2>1. CASE WatchFails(g) \/ PauseOver(g)
    BY <1>0, <2>1 DEF WatchFails, PauseOver
  <2>2. CASE WatchCloses(g)
    BY <1>0, <2>2 DEF WatchCloses, TypeOK
  <2>3. CASE Watch(g)
    BY <1>0, <2>3 DEF Watch, TypeOK, Sources
  <2>4. CASE WatchEvent(g)
    BY <2>4 DEF WatchEvent
  <2> QED BY <1>5, <2>1, <2>2, <2>3, <2>4 DEF WatchLoop
<1>6. CASE Restart
  BY <1>6 DEF Restart
<1>7. CASE tick
  <2>1. ASSUME NEW s \in Sources, change'[s] = "noticed", trigCh' = 0 PROVE OnItsWay(s)'
    <3>1. firing \ promSeen = {} /\ trigCh = 0
      BY <1>0, <1>7, <2>1 DEF tick, TypeOK
    <3>2. change[s] = "noticed"
      BY <1>7, <2>1, <3>1 DEF tick
    <3> QED BY <1>0, <1>7, <3>1, <3>2 DEF tick
  <2>2. trigCh' \in 0..1
    BY <1>0, <1>7 DEF tick, TypeOK
  <2> QED BY <2>1, <2>2
<1>8. CASE Debounce \/ DebounceElapses \/ TimerExpires \/ Fire \/ ResyncTicks
  BY <1>0, <1>8 DEF Debounce, DebounceElapses, TimerExpires, Fire, ResyncTicks, TypeOK
<1>9. CASE MainLoop
  BY <1>0, <1>9 DEF MainLoop, InitialCycle, EventCycle, ResyncCycle, CycleEnds, Read, TypeOK
<1> QED
  BY <1>1, <1>2, <1>3, <1>4, <1>5, <1>6, <1>7, <1>8, <1>9 DEF Next, Environment

(* However many tokens the one-place channels drop, a change that a trigger
   noticed is never forgotten (the non-blocking sends of watchGVR, tick and
   ServeHTTP, the debounce goroutine and the select loop of Run). *)
THEOREM WakeupSafe == Spec => []NoLostWakeup
<1>1. Init => WakeupInv
  BY BoundsAreNat DEF Init, WakeupInv, TypeOK, NoLostWakeup
<1>2. WakeupInv /\ [Next]_vars => WakeupInv'
  BY TypeStep, WakeupStep DEF WakeupInv
<1>3. WakeupInv => NoLostWakeup
  BY DEF WakeupInv
<1> QED BY <1>1, <1>2, <1>3, PTL DEF Spec

--------------------------------------------------------------------------------
ReplayInv == TypeOK /\ BlindOnlyWhenEmpty

LEMMA ReplayStep == ASSUME ReplayInv, [Next]_vars PROVE BlindOnlyWhenEmpty'
<1> USE DEF BlindOnlyWhenEmpty
<1>0. TypeOK /\ BlindOnlyWhenEmpty
  BY DEF ReplayInv
<1>1. CASE UNCHANGED vars
  BY <1>0, <1>1 DEF vars
<1>2. ASSUME NEW g \in Kinds, NEW n \in 0..MaxObjects, ClusterChange(g, n) PROVE BlindOnlyWhenEmpty'
  BY <1>0, <1>2 DEF ClusterChange, Noticed, TypeOK, Sources
<1>3. ASSUME NEW a \in Alerts, AlertFires(a) \/ AlertResolves(a) PROVE BlindOnlyWhenEmpty'
  BY <1>0, <1>3, SourcesApart DEF AlertFires, AlertResolves, TypeOK, Sources
<1>4. ASSUME NEW h \in Hooks, ServeHTTP(h) PROVE BlindOnlyWhenEmpty'
  BY <1>0, <1>4, SourcesApart DEF ServeHTTP, Noticed, TypeOK, Sources
<1>5. ASSUME NEW g \in Kinds, WatchFails(g) \/ WatchCloses(g) \/ WatchLoop(g) PROVE BlindOnlyWhenEmpty'
  BY <1>0, <1>5 DEF WatchFails, WatchCloses, WatchLoop, Watch, PauseOver, WatchEvent, TypeOK, Sources
<1>6. CASE Restart
  BY <1>6 DEF Restart
<1>7. CASE tick
  BY <1>0, <1>7 DEF tick, TypeOK, Sources
<1>8. CASE Debounce \/ DebounceElapses \/ TimerExpires \/ Fire \/ ResyncTicks
  BY <1>0, <1>8 DEF Debounce, DebounceElapses, TimerExpires, Fire, ResyncTicks
<1>9. CASE MainLoop
  BY <1>0, <1>9 DEF MainLoop, InitialCycle, EventCycle, ResyncCycle, CycleEnds, Read, TypeOK, Sources
<1> QED
  BY <1>1, <1>2, <1>3, <1>4, <1>5, <1>6, <1>7, <1>8, <1>9 DEF Next, Environment

(* A reconnected watch has caught up with every change made while it was down,
   except that the last object of a kind disappeared (watchGVR, Live.Watch). *)
THEOREM ReplaySafe == Spec => []BlindOnlyWhenEmpty
<1>1. Init => ReplayInv
  BY BoundsAreNat DEF Init, ReplayInv, TypeOK, BlindOnlyWhenEmpty
<1>2. ReplayInv /\ [Next]_vars => ReplayInv'
  BY TypeStep, ReplayStep DEF ReplayInv
<1>3. ReplayInv => BlindOnlyWhenEmpty
  BY DEF ReplayInv
<1> QED BY <1>1, <1>2, <1>3, PTL DEF Spec
================================================================================
