---------------------------- MODULE TriggerPipeline ----------------------------
(***************************************************************************)
(* What starts a diagnose cycle (internal/watcher/watcher.go, Run): one     *)
(* watch goroutine per resource kind, the Alertmanager poller               *)
(* (internal/trigger/prom) and the webhook receiver                         *)
(* (internal/server/webhook) push into trigCh, a debounce goroutine turns   *)
(* bursts into one token in fireCh, and the main loop runs a cycle for      *)
(* every token and for every tick of the resync ticker.  All channels hold  *)
(* one token and every send is non-blocking, so tokens are dropped all the  *)
(* time; the question is whether a change can be forgotten.                 *)
(*                                                                         *)
(* A change is followed from the moment it happens until a cycle has read   *)
(* its source: "blind" while nothing was sent for it, "noticed" from then.  *)
(***************************************************************************)
EXTENDS Naturals

CONSTANTS
    Kinds,         \* watchedGVRs
    Alerts,        \* fingerprints of alerts that pass AlertNameFilter
    Hooks,         \* authenticated webhook sources
    MaxObjects,    \* bound on the objects of a kind
    MaxEvents,     \* bound on the undelivered events of one watch
    MaxLate        \* bound on expired timers whose function has not run yet

Sources == Kinds \cup Alerts \cup Hooks

ASSUME SourcesApart ==
    Kinds \cap Alerts = {} /\ Kinds \cap Hooks = {} /\ Alerts \cap Hooks = {}
ASSUME Bounds == {MaxObjects, MaxEvents, MaxLate} \subseteq Nat \ {0}

VARIABLES
    objects,    \* number of objects of each kind
    watch,      \* the watch goroutine of each kind
    events,     \* events on its ResultChan
    firing,     \* active alerts at Alertmanager
    promSeen,   \* Client.seen of the poller
    trigCh,     \* len(trigCh)
    timer,      \* the debounce timer; "ripe": Debounce has passed since it was set
    late,       \* AfterFunc goroutines that have not sent yet
    fireCh,     \* len(fireCh)
    resyncC,    \* len(resync.C)
    main,       \* the main loop: "initial", "waiting" or "cycle"
    toRead,     \* sources the running cycle has not read yet
    change      \* the youngest change of each source that no cycle has read

world == <<objects, firing>>
watching == <<watch, events>>
debounce == <<timer, late>>
loop == <<fireCh, resyncC, main, toRead>>
vars == <<world, watching, promSeen, trigCh, debounce, loop, change>>

--------------------------------------------------------------------------------
Init ==
    /\ objects \in [Kinds -> 0..MaxObjects]
    /\ firing \in SUBSET Alerts
    /\ watch = [g \in Kinds |-> "connecting"]
    /\ events = [g \in Kinds |-> 0]
    /\ promSeen = {}
    /\ trigCh = 0
    /\ timer = "off"
    /\ late = 0
    /\ fireCh = 0
    /\ resyncC = 0
    /\ main = "initial"
    /\ toRead = {}
    /\ change = [s \in Sources |-> "none"]

Noticed(s) == change' = [change EXCEPT ![s] = "noticed"]

(* An object of kind g is created, modified or deleted.  An open watch gets an
   event for it; an established watch is the only thing that sees it. *)
ClusterChange(g, n) ==
    /\ n > 0 \/ objects[g] > 0
    /\ n \in {objects[g] - 1, objects[g], objects[g] + 1}
    /\ n \in 0..MaxObjects
    /\ objects' = [objects EXCEPT ![g] = n]
    /\ IF watch[g] = "watching"
       THEN /\ events[g] < MaxEvents
            /\ events' = [events EXCEPT ![g] = @ + 1]
            /\ Noticed(g)
       ELSE /\ change' = [change EXCEPT ![g] = "blind"]
            /\ UNCHANGED events
    /\ UNCHANGED <<firing, watch, promSeen, trigCh, debounce, loop>>

AlertFires(a) ==
    /\ a \notin firing
    /\ firing' = firing \cup {a}
    /\ change' = [change EXCEPT ![a] = "blind"]
    /\ UNCHANGED <<objects, watching, promSeen, trigCh, debounce, loop>>

AlertResolves(a) ==
    /\ a \in firing
    /\ firing' = firing \ {a}
    /\ UNCHANGED <<objects, watching, promSeen, trigCh, debounce, loop, change>>

--------------------------------------------------------------------------------
(* Seeded defect: the watch resumes at the current resource version. *)
WatchWithoutReplay(g) ==
    /\ watch[g] = "connecting"
    /\ watch' = [watch EXCEPT ![g] = "watching"]
    /\ events' = [events EXCEPT ![g] = 0]
    /\ UNCHANGED <<world, promSeen, trigCh, debounce, loop, change>>

(* lv.Watch succeeds.  It passes no resource version, so the server first
   replays every existing object as an ADDED event, if there is one. *)
Watch(g) ==
    /\ watch[g] = "connecting"
    /\ watch' = [watch EXCEPT ![g] = "watching"]
    /\ IF objects[g] > 0
       THEN /\ events' = [events EXCEPT ![g] = 1]
            /\ change' = [change EXCEPT ![g] = IF @ = "none" THEN "none" ELSE "noticed"]
       ELSE UNCHANGED <<events, change>>
    /\ UNCHANGED <<world, promSeen, trigCh, debounce, loop>>

(* lv.Watch fails: retry after 30 seconds, or give up for good when the kind
   is not installed. *)
WatchFails(g) ==
    /\ watch[g] = "connecting"
    /\ \/ watch' = [watch EXCEPT ![g] = "pausing"]
       \/ objects[g] = 0 /\ watch' = [watch EXCEPT ![g] = "returned"]
    /\ UNCHANGED <<world, events, promSeen, trigCh, debounce, loop, change>>

(* The stream ends (server timeout, error event); what was on it is lost. *)
WatchCloses(g) ==
    /\ watch[g] = "watching"
    /\ watch' = [watch EXCEPT ![g] = "pausing"]
    /\ events' = [events EXCEPT ![g] = 0]
    /\ change' = [change EXCEPT ![g] = IF events[g] > 0 /\ @ = "noticed" THEN "blind" ELSE @]
    /\ UNCHANGED <<world, promSeen, trigCh, debounce, loop>>

PauseOver(g) ==
    /\ watch[g] = "pausing"
    /\ watch' = [watch EXCEPT ![g] = "connecting"]
    /\ UNCHANGED <<world, events, promSeen, trigCh, debounce, loop, change>>

(* Seeded defect: the end of the stream is taken for an event. *)
WatchEventUnchecked(g) ==
    /\ watch[g] = "watching"
    /\ events' = [events EXCEPT ![g] = @ - 1]
    /\ trigCh' = 1
    /\ UNCHANGED <<world, watch, promSeen, debounce, loop, change>>

(* An event of any type: a non-blocking send to trigCh. *)
WatchEvent(g) ==
    /\ watch[g] = "watching" /\ events[g] > 0
    /\ events' = [events EXCEPT ![g] = @ - 1]
    /\ trigCh' = 1
    /\ UNCHANGED <<world, watch, promSeen, debounce, loop, change>>

(* One successful poll: a send for each fingerprint that is new, and the ones
   that stopped firing are forgotten.  A failed poll changes nothing. *)
tick ==
    /\ promSeen' = firing
    /\ trigCh' = IF firing \ promSeen = {} THEN trigCh ELSE 1
    /\ change' = [s \in Sources |->
                     IF s \in firing \ promSeen /\ change[s] = "blind" THEN "noticed"
                     ELSE change[s]]
    /\ UNCHANGED <<world, watching, debounce, loop>>

(* An authenticated POST; any other request changes nothing. *)
ServeHTTP(h) ==
    /\ trigCh' = 1
    /\ Noticed(h)
    /\ UNCHANGED <<world, watching, promSeen, debounce, loop>>

--------------------------------------------------------------------------------
(* Seeded defect: the timer is stopped and not set again. *)
DebounceForgetsTimer ==
    /\ trigCh > 0
    /\ trigCh' = 0
    /\ timer' = IF timer = "off" THEN "set" ELSE "off"
    /\ UNCHANGED <<world, watching, promSeen, late, loop, change>>

(* The debounce goroutine: take the token, stop the timer, set it anew.  Stop
   does not stop a function that has already been started. *)
Debounce ==
    /\ trigCh > 0
    /\ trigCh' = 0
    /\ timer' = "set"
    /\ UNCHANGED <<world, watching, promSeen, late, loop, change>>

DebounceElapses ==
    /\ timer = "set"
    /\ timer' = "ripe"
    /\ UNCHANGED <<world, watching, promSeen, trigCh, late, loop, change>>

TimerExpires ==
    /\ timer = "ripe" /\ late < MaxLate
    /\ timer' = "off"
    /\ late' = late + 1
    /\ UNCHANGED <<world, watching, promSeen, trigCh, loop, change>>

Fire ==
    /\ late > 0
    /\ late' = late - 1
    /\ fireCh' = 1
    /\ UNCHANGED <<world, watching, promSeen, trigCh, timer, resyncC, main, toRead, change>>

ResyncTicks ==
    /\ resyncC = 0
    /\ resyncC' = 1
    /\ UNCHANGED <<world, watching, promSeen, trigCh, debounce, fireCh, main, toRead, change>>

--------------------------------------------------------------------------------
(* The main loop: the initial cycle, then one cycle per token. *)
InitialCycle ==
    /\ main = "initial"
    /\ main' = "cycle" /\ toRead' = Sources
    /\ UNCHANGED <<world, watching, promSeen, trigCh, debounce, fireCh, resyncC, change>>

EventCycle ==
    /\ main = "waiting" /\ fireCh > 0
    /\ fireCh' = 0
    /\ main' = "cycle" /\ toRead' = Sources
    /\ UNCHANGED <<world, watching, promSeen, trigCh, debounce, resyncC, change>>

(* Seeded defect: a tick without a pending trigger is skipped. *)
ResyncNeedsTrigger ==
    /\ main = "waiting" /\ resyncC > 0 /\ fireCh > 0
    /\ resyncC' = 0
    /\ main' = "cycle" /\ toRead' = Sources
    /\ UNCHANGED <<world, watching, promSeen, trigCh, debounce, fireCh, change>>

ResyncCycle ==
    /\ main = "waiting" /\ resyncC > 0
    /\ resyncC' = 0
    /\ main' = "cycle" /\ toRead' = Sources
    /\ UNCHANGED <<world, watching, promSeen, trigCh, debounce, fireCh, change>>

(* runDiagnose reads the sources one after the other; what changes behind its
   back is for the next cycle. *)
Read(s) ==
    /\ main = "cycle" /\ s \in toRead
    /\ toRead' = toRead \ {s}
    /\ change' = [change EXCEPT ![s] = "none"]
    /\ UNCHANGED <<world, watching, promSeen, trigCh, debounce, fireCh, resyncC, main>>

(* Seeded defect: tokens that arrived during the cycle are discarded. *)
CycleDrains ==
    /\ main = "cycle" /\ toRead = {}
    /\ main' = "waiting"
    /\ fireCh' = 0
    /\ UNCHANGED <<world, watching, promSeen, trigCh, debounce, resyncC, toRead, change>>

CycleEnds ==
    /\ main = "cycle" /\ toRead = {}
    /\ main' = "waiting"
    /\ UNCHANGED <<world, watching, promSeen, trigCh, debounce, fireCh, resyncC, toRead, change>>

(* The process is replaced; the new one starts with nothing but an initial
   cycle to run. *)
Restart ==
    /\ watch' = [g \in Kinds |-> "connecting"]
    /\ events' = [g \in Kinds |-> 0]
    /\ promSeen' = {}
    /\ trigCh' = 0
    /\ timer' = "off"
    /\ late' = 0
    /\ fireCh' = 0
    /\ resyncC' = 0
    /\ main' = "initial"
    /\ toRead' = {}
    /\ UNCHANGED <<world, change>>

--------------------------------------------------------------------------------
Environment ==
    \/ \E g \in Kinds, n \in 0..MaxObjects : ClusterChange(g, n)
    \/ \E a \in Alerts : AlertFires(a) \/ AlertResolves(a)
    \/ \E h \in Hooks : ServeHTTP(h)
    \/ \E g \in Kinds : WatchFails(g) \/ WatchCloses(g)
    \/ Restart

WatchLoop(g) == Watch(g) \/ PauseOver(g) \/ WatchEvent(g)
MainLoop == InitialCycle \/ EventCycle \/ ResyncCycle \/ CycleEnds \/ \E s \in Sources : Read(s)

Next ==
    \/ Environment
    \/ \E g \in Kinds : WatchLoop(g)
    \/ tick
    \/ Debounce \/ DebounceElapses \/ TimerExpires \/ Fire
    \/ ResyncTicks
    \/ MainLoop

Spec == Init /\ [][Next]_vars

(* Every goroutine keeps running and a cycle ends.  The timer expires a while
   after it became ripe, unless it is set again first. *)
Goroutines ==
    /\ \A g \in Kinds : WF_vars(WatchEvent(g))
    /\ WF_vars(Debounce)
    /\ WF_vars(DebounceElapses) /\ WF_vars(TimerExpires)
    /\ WF_vars(Fire)
    /\ WF_vars(MainLoop)

FairSpec == Spec /\ Goroutines

--------------------------------------------------------------------------------
TypeOK ==
    /\ objects \in [Kinds -> 0..MaxObjects]
    /\ firing \subseteq Alerts
    /\ watch \in [Kinds -> {"connecting", "watching", "pausing", "returned"}]
    /\ events \in [Kinds -> 0..MaxEvents]
    /\ promSeen \subseteq Alerts
    /\ trigCh \in 0..1
    /\ timer \in {"off", "set", "ripe"}
    /\ late \in 0..MaxLate
    /\ fireCh \in 0..1
    /\ resyncC \in 0..1
    /\ main \in {"initial", "waiting", "cycle"}
    /\ toRead \subseteq Sources
    /\ change \in [Sources -> {"none", "blind", "noticed"}]

(* A cycle that has yet to read s is running or will be started by a token or
   timer that is already on its way. *)
OnItsWay(s) ==
    \/ main = "initial" \/ s \in toRead
    \/ fireCh > 0 \/ late > 0 \/ timer # "off" \/ trigCh > 0
    \/ s \in Kinds /\ events[s] > 0

(* No lost wake-up: whatever tokens are dropped, timers re-set and processes
   replaced, a change that was noticed is either read or something that leads
   to a cycle reading it is on its way (watchGVR, tick, ServeHTTP, the debounce
   goroutine, the select loop of Run). *)
NoLostWakeup == \A s \in Sources : change[s] = "noticed" => OnItsWay(s)

(* Only the disappearance of the last object can escape an open watch: every
   other change made while it was down is replayed by the reconnect. *)
BlindOnlyWhenEmpty ==
    \A g \in Kinds : watch[g] = "watching" /\ change[g] = "blind" => objects[g] = 0

(* Every change is read by a later cycle, noticed or not: the resync ticker
   catches what the triggers miss.  (While it ticks, and not in an endless
   crash loop.) *)
EveryChangeIsDiagnosed ==
    WF_vars(ResyncTicks) /\ <>[][~Restart]_vars =>
        \A s \in Sources : (change[s] # "none") ~> (change[s] = "none")

(* Without the ticker: once triggers stop coming, what was noticed is read.
   (The debounce has no maximum wait: every trigger sets the timer again.) *)
QuietChangeIsDiagnosed ==
    <>[][~Restart /\ ~Debounce]_vars =>
        \A s \in Sources : (change[s] = "noticed") ~> (change[s] # "noticed")
================================================================================
