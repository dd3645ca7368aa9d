----------------------------- MODULE DiagnoseCycle -----------------------------
(***************************************************************************)
(* The two passes of a watch cycle with remediation: runDiagnose with the     *)
(* Endpoints probe, which remembers failures from pass to pass, and with the   *)
(* Silences, which are listed, counted and applied in every pass.             *)
(*                                                                         *)
(* Time is left out: a Silence is open until it expires or is extended.  The   *)
(* findings of cloud probes are left out: no Silence is applied to them.       *)
(***************************************************************************)
EXTENDS Findings, FiniteSets, FiniteSetsExt

CONSTANTS
    Urls,                   \* URLs of endpoints
    Setups,                 \* where they are known from: origin -> URLs
    MinConsecutiveFailures,
    Diagnostics,            \* what the analyzers may return: [source, subject, severity]
    Silences,               \* Silence CRs
    Matcher,                \* Silence -> [source, subject, severity], "" for any
    MaxFaults               \* API calls that fail in a behaviour

ASSUME CycleAssumption ==
    /\ MinConsecutiveFailures \in Nat \ {0}
    /\ Setups \subseteq [{"static", "learnt", "ingress"} -> SUBSET Urls]
    /\ IsFiniteSet(Silences)

(* No analyzer uses the subject of an endpoint.  Two of them may share one: a Pod
   that cannot pull its image and was OOMKilled has a finding from each. *)
ASSUME SubjectAssumption ==
    \A d \in Diagnostics : d.subject \notin {"static", "learnt", "ingress"} \X Urls

VARIABLES
    net,            \* URL -> what a request meets
    raised,         \* the Diagnostics the analyzers return at the moment
    streaks,        \* streakTracker.counts, up to MinConsecutiveFailures
    open,           \* the Silences whose spec.until is in the future
    statuses,       \* Silence -> status.active; matchCount is left out
    hosts,          \* one of Setups, fixed in a behaviour
    remediation,    \* RunRemediation, fixed in a behaviour
    pc,             \* "idle", or "fixed": between the two passes
    report,         \* subject -> severity: buildCurrentState of the last cycle
    faults,
    lastProbe       \* URL -> outcome of its last probe (history)

vars == <<net, raised, streaks, open, statuses, pc, hosts, remediation, report, faults,
          lastProbe>>

(* Endpoints.Targets, the learnt apex domains, and the Ingress hosts that are not
   opted out. *)
Origins == {"static", "learnt", "ingress"}

--------------------------------------------------------------------------------
(* The targets of a pass: static ones, then learnt ones and discovered ones
   whose host is not known yet.  The name of a target tells where it is from. *)
learntApexTargets(known, down) ==
    IF "rag" \in down THEN {} ELSE {[url |-> u, name |-> <<"learnt", u>>] : u \in hosts["learnt"] \ known}
DiscoverIngressTargets(known, down) ==
    IF "ingresses" \in down THEN {}
    ELSE {[url |-> u, name |-> <<"ingress", u>>] : u \in hosts["ingress"] \ known}

Targets(down) ==
    LET static == hosts["static"]
        learnt == learntApexTargets(static, down)
        known == static \cup {t.url : t \in learnt}
    IN  {[url |-> u, name |-> <<"static", u>>] : u \in static} \cup learnt
        \cup DiscoverIngressTargets(known, down)

(* checkEndpoint: what one request tells.  A flaky endpoint answers or times out;
   "refused" stands for every failure that is neither retried nor certain, a
   failed L7 body assertion included, "tls" for those that are certain. *)
Conditions == {"ok", "refused", "tls", "flaky"}
Outcomes == {"ok", "timeout", "refused", "tls"}
checkEndpoint(u) == IF net[u] = "flaky" THEN {"ok", "timeout"} ELSE {net[u]}

isTransientFailure(outcome) == outcome = "timeout"
isDeterministicFailure(outcome) == outcome = "tls"

probeWithRetry(first, retry) == IF isTransientFailure(first) THEN retry ELSE first

(* Seeded defects: a success does not reset the streak; every pass starts with a
   tracker of its own. *)
neverReset(count, failed) ==
    IF failed THEN Min({count + 1, MinConsecutiveFailures}) ELSE count
freshTracker(count, failed) == IF failed THEN 1 ELSE 0

(* streakTracker.record *)
record(count, failed) ==
    IF failed THEN Min({count + 1, MinConsecutiveFailures}) ELSE 0

endpointSeverity(outcome, streak) ==
    IF isDeterministicFailure(outcome) \/ streak >= MinConsecutiveFailures
    THEN "critical" ELSE "warning"

(* Endpoints.Name *)
EndpointsName == "External Endpoints"

(* Endpoints.Run; answer gives the outcome of each target after its retry. *)
Endpoints(targets, answer) ==
    {[source |-> EndpointsName, subject |-> t.name,
      severity |-> endpointSeverity(answer[t.url], record(streaks[t.url], TRUE))]
        : t \in {x \in targets : answer[x.url] # "ok"}}

--------------------------------------------------------------------------------
(* silence.Matches: fields that are set must be equal; a matcher without fields
   matches nothing.  messagePattern, one more such field, is left out. *)
Matches(s, d) ==
    LET m == Matcher[s]
    IN  /\ s \in open
        /\ \E f \in DOMAIN m : m[f] # ""
        /\ \A f \in DOMAIN m : m[f] # "" => m[f] = d[f]

MatchesAny(d) == \E s \in Silences : Matches(s, d)

(* Seeded defect: the probes' findings bypass the Silences. *)
onlyDiagnostics(findings, down) ==
    IF "silences" \in down THEN findings
    ELSE {d \in findings : d.source = EndpointsName \/ ~MatchesAny(d)}

(* Filter for diagnostics, and the loop of runDiagnose over probe findings. *)
Filter(findings, down) ==
    IF "silences" \in down THEN findings ELSE {d \in findings : ~MatchesAny(d)}

CountMatches(s, diags) == Cardinality({d \in diags : Matches(s, d)})

(* Seeded defect: only a match is worth a patch. *)
onlyMatches(s, diags, unpatched) ==
    IF CountMatches(s, diags) > 0 /\ s \notin unpatched THEN s \in open ELSE statuses[s]

(* Lister.List and UpdateStatuses: a merge patch for every Silence that matched or
   whose status is out of date. *)
UpdateStatuses(s, diags, unpatched) ==
    IF (CountMatches(s, diags) > 0 \/ statuses[s] # (s \in open)) /\ s \notin unpatched
    THEN s \in open ELSE statuses[s]

--------------------------------------------------------------------------------
(* buildCurrentState.  A subject has the severity of the last of its findings; with
   findings in no order, of any one of them. *)
CurrentState(findings) ==
    [s \in {f.subject : f \in findings} |->
        NormalizeSeverity((CHOOSE f \in findings : f.subject = s).severity)]

(* runDiagnose, with the reads down failing and the patches of unpatched refused:
   what it returns, and what it changes. *)
Kind(outcome) ==
    CASE outcome = "ok" -> "ok"
      [] outcome # "ok" /\ isDeterministicFailure(outcome) -> "certain"
      [] OTHER -> "maybe"

Answers(u) == {probeWithRetry(first, retry) : first, retry \in checkEndpoint(u)}

Returned(answer, down) == Filter(Endpoints(Targets(down), answer) \cup raised, down)

runDiagnose(answer, down, unpatched) ==
    LET probed == {t.url : t \in Targets(down)}
        failed(u) == answer[u] # "ok"
        silencing == "silences" \notin down
    IN  /\ faults' = faults + Cardinality(down) + Cardinality(unpatched)
        /\ streaks' = [u \in Urls |->
                IF u \in probed THEN record(streaks[u], failed(u)) ELSE streaks[u]]
        /\ statuses' = [s \in Silences |->
                IF silencing THEN UpdateStatuses(s, raised, unpatched) ELSE statuses[s]]
        /\ lastProbe' = [u \in Urls |-> IF u \in probed THEN Kind(answer[u]) ELSE lastProbe[u]]

Reads == {"rag", "ingresses", "silences"}
SomePass(then(_, _)) ==
    \E answer \in {a \in [Urls -> Outcomes] : \A u \in Urls : a[u] \in Answers(u)} :
        \E down \in SUBSET Reads, unpatched \in SUBSET Silences :
            /\ faults + Cardinality(down) + Cardinality(unpatched) <= MaxFaults
            /\ runDiagnose(answer, down, unpatched)
            /\ then(answer, down)

Init ==
    /\ net \in [Urls -> Conditions]
    /\ raised = {}
    /\ streaks = [u \in Urls |-> 0]
    /\ open = Silences
    /\ statuses = [s \in Silences |-> FALSE]
    /\ pc = "idle"
    /\ hosts \in Setups
    /\ remediation \in BOOLEAN
    /\ report = CurrentState({})
    /\ faults = 0
    /\ lastProbe = [u \in Urls |-> "ok"]

(* runCycle without remediation: one pass. *)
Cycle ==
    /\ pc = "idle" /\ ~remediation
    /\ SomePass(LAMBDA answer, down : report' = CurrentState(Returned(answer, down)))
    /\ UNCHANGED <<net, raised, open, pc, hosts, remediation>>

(* runCycle with remediation: a pass and the fixers; then a second pass, whose
   findings replace those of the first. *)
Diagnose ==
    /\ pc = "idle" /\ remediation
    /\ SomePass(LAMBDA answer, down : pc' = "fixed")
    /\ UNCHANGED <<net, raised, open, hosts, remediation, report>>

Rediagnose ==
    /\ pc = "fixed"
    /\ SomePass(LAMBDA answer, down : report' = CurrentState(Returned(answer, down)))
    /\ pc' = "idle"
    /\ UNCHANGED <<net, raised, open, hosts, remediation>>

(* The world: endpoints and the analyzers' subjects change, and Silences expire or
   are extended. *)
watched == <<streaks, statuses, pc, hosts, remediation, report, faults, lastProbe>>

NetChanges ==
    /\ \E u \in Urls, condition \in Conditions : net' = [net EXCEPT ![u] = condition]
    /\ UNCHANGED <<raised, open, watched>>

ClusterChanges ==
    /\ \E d \in Diagnostics : raised' \in {raised \cup {d}, raised \ {d}}
    /\ UNCHANGED <<net, open, watched>>

Expire(s) ==
    /\ s \in open
    /\ open' = open \ {s}
    /\ UNCHANGED <<net, raised, watched>>

Extend(s) ==
    /\ s \notin open
    /\ open' = open \cup {s}
    /\ UNCHANGED <<net, raised, watched>>

Next ==
    \/ Cycle
    \/ Diagnose
    \/ Rediagnose
    \/ NetChanges
    \/ ClusterChanges
    \/ \E s \in Silences : Expire(s) \/ Extend(s)

Spec == Init /\ [][Next]_vars

(* The watch loop runs a cycle at every tick, and a cycle that has begun goes on. *)
FairSpec == Spec /\ WF_vars(Cycle) /\ WF_vars(Diagnose) /\ WF_vars(Rediagnose)

--------------------------------------------------------------------------------
(* The steps that replace the report: Cycle and Rediagnose. *)
CycleEnds ==
    pc' = "idle" /\ (pc = "fixed" \/ (~remediation /\ UNCHANGED <<net, raised, open>>))

(* Whether a Silence matches a diagnostic in the severity it is reported with. *)
Silenced(d) == MatchesAny([d EXCEPT !.severity = NormalizeSeverity(@)])

(* A cycle whose last pass meets no failing call reports nothing that an open
   Silence matches, neither from an analyzer nor from a probe (silence_types.go:
   "silences every warning-severity finding regardless of source"): a subject that
   has a silenced finding is reported only with another one that no Silence
   matches.  Holds for analyzers that set a severity. *)
SilencedIsQuiet ==
    [][(CycleEnds /\ faults' = faults) =>
        /\ \A d \in raised : (Silenced(d) /\ d.subject \in DOMAIN report') =>
               \E e \in raised : /\ e.subject = d.subject /\ ~Silenced(e)
                                /\ report'[d.subject] = NormalizeSeverity(e.severity)
        /\ \A u \in Urls, origin \in Origins :
               LET subject == <<origin, u>>
               IN  subject \in DOMAIN report' =>
                       ~MatchesAny([source |-> EndpointsName, subject |-> subject,
                                    severity |-> report'[subject]])]_vars

(* While fixers do not run, so that a cycle probes once, a failure that may be a
   blip is reported as critical only when the cycle that probed the endpoint
   before found it failing as well (endpoints.go: "consecutive failed probe cycles
   for the same target", "the first failure emits at SeverityWarning"), through
   passes that do not discover it. *)
BlipIsNotCritical ==
    [][\A u \in Urls, origin \in Origins :
        (/\ CycleEnds /\ ~remediation
         /\ <<origin, u>> \in DOMAIN report' /\ report'[<<origin, u>>] = "critical"
         /\ lastProbe'[u] = "maybe")
        => lastProbe[u] # "ok"]_vars

(* A configured endpoint that stays down is reported as critical and stays so, or
   is silenced. *)
SustainedOutageIsCritical ==
    \A u \in Urls :
        (u \in hosts["static"] /\ <>[](net[u] \in {"refused", "tls"}) /\ <>[](open = {}))
        => <>[](<<"static", u>> \in DOMAIN report /\ report[<<"static", u>>] = "critical")

(* The status of a Silence that has expired for good says so in the end. *)
ExpiredSilenceIsMarked ==
    \A s \in Silences : <>[](s \notin open) => <>[](~statuses[s])
================================================================================
