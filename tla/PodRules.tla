-------------------------------- MODULE PodRules --------------------------------
(***************************************************************************)
(* The rules that look at Pods: analyzers of internal/diagnose and probes   *)
(* of internal/probe.                                                       *)
(***************************************************************************)
EXTENDS Findings

Pod == <<"Pod", "ns/pod">>

(* FailedPods: terminal phase Failed and not already being deleted. *)
FailedPods(w, down) ==
    Needs({"pods"}, down, Each(w.objs, LAMBDA p :
        When(p.phase = "Failed" /\ ~p.terminating, Pod, "critical")))

(* OOMKillRecurrence: hours since the last OOM kill; one diagnostic per
   pod. *)
oomRecurrenceMinCount == 3
oomRecurrenceWindow == 24

OOMKillRecurrence(w, down) ==
    Needs({"pods"}, down, Each(w.objs, LAMBDA p :
        When(p.restarts >= oomRecurrenceMinCount /\ p.killed <= oomRecurrenceWindow,
             Pod, "warning")))

(* pullBackoffContainer: a container, or an init container, waits with
   ImagePullBackOff or ErrImagePull. *)
pullBackoffContainer(p) == p.waiting = "ImagePullBackOff"

(* pullAuthEvent: what the messages of the pod's Failed events say.  A message
   with a not-found signal does not count, whatever else it contains. *)
pullAuthEvent(p, down) == "events" \notin down /\ "auth" \in p.pullErrors

ImagePullAuth(w, down) ==
    Needs({"pods"}, down, Each(w.objs, LAMBDA p :
        When(pullBackoffContainer(p) /\ pullAuthEvent(p, down), Pod, "critical")))

--------------------------------------------------------------------------------
(* LogPatternMatcher: w.objs are the Events of one object, each with the label
   of the pattern its message matches and its count; w.env is the Pod. *)
logPatterns ==
    [ImagePullBackOff   |-> "critical",
     OOMKilled          |-> "warning",
     ProbeFailed        |-> "warning",
     VolumeAttachFailed |-> "critical",
     Forbidden          |-> "warning"]

probeRecurrenceThreshold == 5
probeRestartThreshold == 3

(* eventOccurrences and the sum over the events with the same label: an event
   without a count stands for one occurrence. *)
eventOccurrences(e) == IF e.count = 0 THEN 1 ELSE e.count
occurrences(events, label) ==
    FoldLeft(LAMBDA n, e : IF e.label = label THEN n + eventOccurrences(e) ELSE n, 0, events)

(* podHealthSignals. *)
podHealthSignals(pod) == ~pod.ready \/ pod.restarts >= probeRestartThreshold

escalatedSeverity(n, pod, down) ==
    IF \/ n >= probeRecurrenceThreshold
       \/ "pod" \notin down /\ pod.exists /\ podHealthSignals(pod)
    THEN "critical" ELSE logPatterns.ProbeFailed

(* One diagnostic per label, in the order in which the labels are first seen. *)
labels(events) ==
    FoldLeft(LAMBDA ls, e : IF e.label \in ToSet(ls) THEN ls ELSE Append(ls, e.label),
             <<>>, events)

LogPatternMatcher(w, down) ==
    Needs({"events"}, down, Each(labels(w.objs), LAMBDA l :
        When(TRUE, Pod, IF l = "ProbeFailed"
                        THEN escalatedSeverity(occurrences(w.objs, l), w.env, down)
                        ELSE logPatterns[l])))

--------------------------------------------------------------------------------
(* The probes.  A probe reports every pod under its own component's subject. *)
CrashLoopSubject == <<"Probe", "CrashLoopBackOff">>
CriticalRestartThreshold == 10

(* podMaxRestartCount: of the waiting containers the first with the most
   restarts, or no container. *)
podMaxRestartCount(containers) ==
    FoldLeft(LAMBDA best, c : IF c.waiting # "" /\ (best = <<>> \/ c.restarts > best[1].restarts)
                              THEN <<c>> ELSE best,
             <<>>, containers)

CrashLoopBackOff(w, down) ==
    LET crashing(p) == /\ ~p.terminating
                       /\ podMaxRestartCount(p.containers) # <<>>
                       /\ podMaxRestartCount(p.containers)[1].waiting = "CrashLoopBackOff"
        severe(p) == \/ p.protected
                     \/ podMaxRestartCount(p.containers)[1].restarts > CriticalRestartThreshold
        critical == Each(w.objs, LAMBDA p :
                        When(crashing(p) /\ severe(p), CrashLoopSubject, "critical"))
        warning == Each(w.objs, LAMBDA p :
                       When(crashing(p) /\ ~severe(p), CrashLoopSubject, "warning"))
    IN  IF "pods" \in down THEN Result("PROBE_FAILED", <<>>)
        ELSE Result(CASE critical # <<>> -> "CRITICAL"
                      [] critical = <<>> /\ warning # <<>> -> "WARNING"
                      [] OTHER -> "HEALTHY", critical \o warning)

(* The probes whose findings are all critical. *)
CriticalOrHealthy(findings) ==
    Result(IF findings = <<>> THEN "HEALTHY" ELSE "CRITICAL", findings)

isImagePullFailure(p) == p.waiting \in {"ImagePullBackOff", "InvalidImageName"}

(* PendingPods: seconds since creation. *)
pendingMinAge == 60
PendingPods(w, down) ==
    IF "pods" \in down THEN Result("PROBE_FAILED", <<>>)
    ELSE CriticalOrHealthy(Each(w.objs, LAMBDA p :
             When(/\ ~p.terminating
                  /\ p.phase = "Pending"
                  /\ ~isImagePullFailure(p)
                  /\ ~p.bound
                  /\ p.age >= pendingMinAge, <<"Probe", "Pending Pods">>, "critical")))

podInContainerCreating(p) == p.waiting = "ContainerCreating"

(* FailedMounts: without its Events a stuck pod is not reported. *)
mountMinAge == 90
FailedMounts(w, down) ==
    IF "pods" \in down THEN Result("PROBE_FAILED", <<>>)
    ELSE CriticalOrHealthy(Each(w.objs, LAMBDA p :
             When(/\ ~p.terminating
                  /\ p.phase = "Pending"
                  /\ podInContainerCreating(p)
                  /\ p.age >= mountMinAge
                  /\ p.mountEvent /\ "events" \notin down,
                  <<"Probe", "Failed Mounts">>, "critical")))

--------------------------------------------------------------------------------
(* SecretKeyMissing: the text "couldn't find key ... in Secret ..." comes from
   the container's waiting message or from an Event of the pod; one diagnostic
   per (Secret, key). *)
podHasCCE(p) == p.waiting = "CreateContainerConfigError"
collectErrorMessages(p, down) == p.message \/ (p.event /\ "events" \notin down)

SecretKeyMissing(w, down) ==
    Needs({"pods"}, down,
        When(Some(w.objs, LAMBDA p : podHasCCE(p) /\ collectErrorMessages(p, down)),
             <<"Secret", "ns/secret/key">>, "critical"))

(* CronJobStuck: hours.  A field of a schedule is 0 for "*", n for "*/n", and
   Fixed otherwise; a schedule that has not five fields (@weekly) has none. *)
cronJobOverdueGrace == 24
Fixed == 100

everyN(field) == IF field < Fixed THEN field ELSE 0

cronInterval(s) ==
    IF ~s.parsed THEN 24
    ELSE IF s.minute < Fixed THEN 0
    ELSE IF s.hour = 0 THEN 1
    ELSE IF everyN(s.hour) > 0 THEN s.hour
    ELSE IF s.dow # 0 THEN 7 * 24
    ELSE IF s.dom # 0 THEN (IF everyN(s.dom) > 0 THEN 24 * s.dom ELSE 30 * 24)
    ELSE 24

cronJobSeverity(cj) ==
    LET interval == cronInterval(cj.schedule)
        overdue == IF interval > cronJobOverdueGrace THEN interval ELSE cronJobOverdueGrace
    IN  IF cj.suspended THEN "warning"
        ELSE IF cj.success = Never /\ cj.age > overdue THEN "critical"
        ELSE IF cj.success # Never /\ cj.success > overdue THEN "warning"
        ELSE IF cj.scheduled # Never /\ cj.scheduled > overdue /\ cj.success = Never
             THEN "warning"
        ELSE "ok"

CronJobStuck(w, down) ==
    Needs({"cronjobs"}, down, Each(w.objs, LAMBDA cj :
        When(cronJobSeverity(cj) # "ok", <<"CronJob", "ns/cj">>, cronJobSeverity(cj))))
================================================================================
