# Formal model of Srenix (cluster-health-autopilot)

Srenix watches a Kubernetes cluster: it runs probes and analyzers, optionally
runs fixers, and tells people what it found through Slack, DriftReport custom
resources, tickets in an issue tracker and an audit trail. This directory holds
TLA+ modules of the parts of it that keep state and act over several steps, and
of the rules by which its probes, analyzers and fixers decide; the TLC
configurations that check them; and proofs checked by TLAPS.

Paths below are relative to the repository root (`src/` in `PROJECT.json`).

## 1. Inventory

### 1.1 Parts, their state and their operations

| Part | Code | State it keeps | Operations |
|---|---|---|---|
| Trigger pipeline | `internal/watcher/watcher.go` (`Run`, `watchGVR`), `internal/trigger/prom`, `internal/server/webhook` | one goroutine per watched kind, `trigCh`, the debounce timer, `fireCh`, the resync ticker, the poller's set of known alert fingerprints | watch, reconnect, poll, receive a webhook, debounce, start a cycle |
| Diagnose cycle | `internal/watcher/watcher.go` (`runCycle` and what it calls) | `seen` (subject -> fingerprint, time of last post), time of the last cloud run, pending approval links | diagnose, run fixers, diagnose again, diff, update `seen`, hand over to the writers below |
| DriftReport writer | `internal/report/driftreport.go` | DriftReport custom resources, one per subject | `AssembleEntries`, `Reconcile`: list, patch or create, delete what is left |
| Ticketing | `internal/report/ticketing*.go`, `pkg/ticketing/**` | `status.ticket` of a DriftReport; the tickets of the tracker | `RouteResolves`, `RouteTicketCleanup`, `RouteTickets`, comment on recurrence |
| Slack routing | `internal/report/routing.go`, `slack*.go`, `daily.go` | none (the channel's readers have it) | split by channel and severity, post |
| Alertmanager emission | `internal/report/alertmanager.go` | alerts with an end time at Alertmanager | post, refresh, expire |
| Silences | `pkg/silence` | Silence custom resources with an active flag and a match counter in their status | filter, update status |
| Approval links | `internal/watcher/watcher.go`, `pkg/ai/*token*.go`, `jwt.go`, `signer.go` | cache of pending URLs with a time to live, time of first sight per finding | wait for the dwell time, sign, cache |
| Audit trail | `pkg/audit` | head hash, count since the last checkpoint; the log | write, checkpoint, resume, verify |
| Operator | `internal/operator`, `api/v1alpha1` | the objects owned by an `AgenticSRE` resource, its finalizer, status conditions, the signing key | reconcile, tear down, finalize |
| Leader election | `internal/watcher/leader.go` | a Lease | acquire, renew, release, run the watcher while leading |
| Probes, analyzers, cloud probes | `internal/probe`, `internal/diagnose`, `internal/cloud` | none, but for the failure streaks of the endpoint probe | read the cluster or a cloud API, return findings and a status |
| Fixers | `internal/fix`, `pkg/fix` | within a run, which owners were written to or left alone | read the object and its owners, delete, patch or restart, record a skip |
| Investigation, enrichment, AI interfaces | `internal/investigator`, `internal/watcher/enrich.go`, `investigate.go`, `pkg/ai` | none | annotate findings, validate proposed actions |
| RAG feeder, network-policy proposer, release sources, resolution recorder, anonymizer, Vault and DNS clients, command line | see `PROJECT.json` | a fingerprint cache in the feeder, nothing else | read-only lookups, one-shot transformations |

### 1.2 How they interact

```
 watches ----\
 Alertmanager -> trigCh -> debounce -> fireCh --\
 webhook ----/                                   > main loop -> runCycle
 resync ticker ---------------------------------/                  |
   diagnose -> [fixers -> diagnose again] -> diff with seen -------+
   -> Slack -> close tickets of cleared subjects -> close tickets below the floor
   -> DriftReports (upsert, then delete) -> open or comment tickets
```

The main loop runs one cycle at a time, so the parts below `runCycle` are
sequential; what is concurrent is the cluster, the people who see Slack and the
tracker, the goroutines that feed the main loop, and the process replacement.
Two facts shape almost every property:

* `seen` is memory, a DriftReport is durable, and the reference to a ticket is
  stored **only** in the DriftReport (`status.ticket`). A ticket whose report is
  deleted before it is closed cannot be found again.
* Each cycle makes many calls to three outside systems (API server, Slack,
  tracker), each of which may fail alone, and the order of the calls decides
  what a failure or a restart between two of them leaves behind.

### 1.3 What is hard, and what correctness means

| Part | Hard behaviour | What must hold |
|---|---|---|
| Trigger pipeline | non-blocking sends into channels of one, a timer that is re-set while its function may already be running, watches that close and reconnect | no change that was noticed is forgotten; every change is read by some cycle |
| Diagnose cycle | two diagnose passes, one used for posting, the other for remembering; a cloud pass that runs less often than the cycle; a restart at any point | readers of Slack have heard what the cluster is like; nothing is recorded that was not told; a restart repeats nothing |
| DriftReport writer | a failed patch in the middle of a loop decides what the next loop deletes | reports of absent findings are deleted eventually, and findings that stay are on record in the end |
| Ticketing | two systems written without a transaction; refs deleted with the reports | every open ticket can be reached; a ticket is closed only when its finding is gone; a finding that stays gets a ticket |
| Audit trail | errors, retries and restarts between hashing and storing | the log verifies at all times and no edit of it does |
| Operator | several objects per reconcile, each call may fail; spec changes and deletion | what exists is what the spec asks for; nothing outlives the resource |
| Leader election | a holder that cannot reach the API server learns of its loss from nobody; its last run goes on while the new leader starts | one replica leads; a run that outlives its lease does nothing it might not have done |
| Fixers | a dozen reads before one write, each of an object that others change; writes that are delayed or whose answer is lost; several stuck pods of one owner | no write against a condition that never held during the run; what can be repaired is |
| Probes and analyzers | each of their reads may fail alone, and absence is what many of them look for; several findings of one subject end in one report | a failing read and the clock do not change what a report means, and a status tells of it |
| Silences, endpoint probe | two passes per cycle share the streaks; Silences expire and endpoints flicker between them | a silenced finding is quiet, a blip is not critical and an outage becomes so |

The list of hazards with their lines is in `PROJECT.json`.

## 2. Modules

| Module | Models | Checked by |
|---|---|---|
| `WatchCycle` | the diagnose cycle with `seen`, Slack, DriftReports and tickets | `MCWatchCycle`, `WatchCycle_*.cfg` |
| `TicketLedger` | what ticketing promises; implemented by `WatchCycle` | run `ledger` (`LedgerKept`) |
| `TriggerPipeline` | everything that starts a cycle | `MCTriggerPipeline`, `TriggerPipeline_*.cfg` |
| `Findings` | what a rule returns and what the watcher keeps of it | with `DiagnosePass` |
| `PodRules`, `SecretRules`, `DriftRules`, `PostureRules`, `NetworkRules`, `PlatformProbes` | the analyzers and probes, by what they look at | with `DiagnosePass` |
| `CloudProbes`, `AwsProbes`, `GcpProbes`, `AzureProbes` | the cloud probes and their live clients | with `DiagnosePass` |
| `DiagnosePass` | one rule of the catalog, pass after pass, in a cluster that changes | `MCDiagnosePass`, `DiagnosePass_*.cfg` |
| `DiagnoseCycle` | the two passes of a cycle with Silences and the endpoint probe | `MCDiagnoseCycle`, `DiagnoseCycle_silence.cfg` |
| `LeaderElection` | the lease and the replicas | with `Remediation` |
| `Fixers` | the gates of every fixer, in the order of its reads | with `Remediation` |
| `Remediation` | a fixer at work in the replicas of `LeaderElection` | `MCRemediation`, `Remediation_remediation.cfg` |
| `AuditChain` | the hash-chained audit sink and its two verifiers | `MCAuditChain`, `AuditChain_chain.cfg` |
| `OperatorReconcile` | the operator, the API server's view of it and its caches | `MCOperatorReconcile`, `OperatorReconcile_*.cfg` |
| `WatchCycle_proofs`, `TriggerPipeline_proofs`, `AuditChain_proofs`, `OperatorReconcile_proofs`, `LeaderElection_proofs`, `Remediation_proofs`, `DiagnoseCycle_proofs` | theorems about the module they extend | TLAPS |

Definitions with a comment "Seeded defect" are variants of the definition that
follows them. No specification uses them; each is a plausible bug, and the
properties are shown to notice it (`mutants` in `PROJECT.json`).

### 2.1 WatchCycle

State. `cond` is what a diagnose pass would report if it ran now, per subject.
`seen`, `crs` and `tickets` are the watcher's map, the DriftReports and the
tracker. `told` and `lastWord` are history: what Slack was ever told about a
subject, and what its readers now believe to be active. `pc` is the place in
`runCycle`; `pre`, `post`, `posting`, `fresh`, `cleared`, `todo` and `stale`
are its local variables.

A subject's finding is a severity and a message. `truncateAt` is any idempotent
function on messages, as the cut at 4096 bytes is. Time is one bit per
timestamp: the repeat interval of a `seen` entry, the comment interval and
the last observation of a report, and the cloud cadence have elapsed or not.

Actions follow `runCycle` in order: `runDiagnose`, `RunFixers`, `ReDiagnose`,
`Diff` (one critical section of `w.mu`), `RouteAndPost`, `RouteResolves` and
`ResolveTicket`, `RouteTicketCleanup` and `CleanupTicket`, `Reconcile` with
`PatchReport`, `CreateReport`, `DeleteReport`, and `RouteTickets` with
`UpsertTicket` and `maybeCommentOnRecurrence`. A loop of the code over a map is
a set `todo` worked off in any order. Each external call has its failure branch,
with exactly what the code skips, continues or tolerates there. `Restart` may
come between any two steps and loads `seen` from the reports.

`Faults` names the calls that may fail in a run. They fall into two groups:
`TolerableFaults`, which the ticket ledger survives, and `LedgerFaults`, which
it does not; the split is a result of the model, not an assumption of it.

`TicketLedger` is the abstract specification of the same ticketing, without
reports, cycles, Slack or restarts: findings are absent, minor or grave; a grave
one may be given a ticket while it has none; a ticket is closed for a finding
that is gone, or on record as minor. The refinement mapping (`Ledger`) takes
`post` for what is found, the reports for what is on record and the tracker's
open tickets for the load. `LedgerKept` says that every step of `WatchCycle` is a
step of the abstract ledger or changes nothing of it.

Left out because they do not change this state: Alertmanager emission, silence
filtering (section 2.6; here a silenced finding is one the cluster does not
have), approval links, enrichment, message layout and chunking. A probe or an
analyzer whose API call fails returns no findings, or others (section 2.5); in
`cond` that is the finding disappearing or appearing.

### 2.2 TriggerPipeline

State. The channels by their length, the timer, the number `late` of timer
functions that have been started and not yet sent, the watch goroutine of each
kind, the poller's fingerprints, and the main loop with the set `toRead` of
sources that the running cycle has not read yet. `change[s]` is history: whether
the youngest change of source `s` that no cycle has read was noticed by a
trigger.

Actions: `Watch`, `WatchFails`, `WatchCloses`, `PauseOver`, `WatchEvent` for
`watchGVR`; `tick` for the Alertmanager poll; `ServeHTTP` for the webhook;
`Debounce`, `DebounceElapses`, `TimerExpires`, `Fire` for the debounce
goroutine and its `AfterFunc`; `ResyncTicks`; `InitialCycle`, `EventCycle`,
`ResyncCycle`, `Read`, `CycleEnds` for the main loop; `Restart`. The API server
is external: a watch without resource version starts with a replay of the
existing objects, which is how `internal/snapshot/live.go` calls it.

A cycle's reading of its sources is all that matters here; what the cycle does
with them is `WatchCycle`.

### 2.3 AuditChain

State. The log of the inner sink, the head hash, the count since the last
checkpoint, and what a failed attempt has left in an event's `Details` map.
`digests` is the list of everything ever hashed; the hash of an entry is its
place in that list, so equal hashes mean equal entries (SHA-256 without
collisions). `due` is the moment inside `Write` between the data event and its
checkpoint; a restart may fall there.

Actions: `Write`, `WriteCheckpoint`, `CadenceCheckpoint`,
`NewChainedSinkResuming`. `VerifyChain` and `VerifyChainWithCheckpoints` are
operators on a log. Inner-sink outcomes are a parameter: success, an error with
nothing stored, an error although the entry was stored, and an event JSON cannot
encode.

### 2.4 OperatorReconcile

State. `cr` and `objs` are the API server, `crCache` and `cache` the informers'
copies, `behind` the changes an informer has not delivered yet, `queue` the work
queue. `copy`, `plan` and `failed` are the locals of the one running
`Reconcile`: the resource as it was read, the calls still to make, and
`firstErr`. A spec is its set of features and the fields that decide control
flow; everything that only shapes an object is a version number. An object is
its kind, name and namespace, its owner reference and the version it was built
from.

Actions. `Ignore`, `finalizeReaderRBAC` and `Reconcile` are the three ways a
reconcile starts (not found; in deletion; fetch, finalizer and validation).
`Child` is one call of `createOrUpdate`, `reconcileSigningKeySecret` or
`deleteIfExists`, in the order of the code (`CallOrder`); an error skips the
rest of its sub-reconciler and is remembered, as `track` does, or ends the
finalizer. `updateStatus` computes the conditions from the caches and writes the
status; `RemoveFinalizer` ends a deletion. Users apply, change and delete
resources and delete objects; the garbage collector works on owner references;
informers deliver late; the operator restarts between any two calls.

`Lagging` is the set of kinds whose cache may be behind. The worker reads a
resource once, when it starts, so changes of a resource by users are
restricted to the moments when no call is pending; a change in the middle is
indistinguishable from one before the status update.

Left out: the label-only update of the signing-key Secret and the per-feature
conditions besides `Ready`.

### 2.5 The rules and DiagnosePass

A rule, that is a probe or an analyzer of the catalog, is an operator of a world
and of the set of its reads that fail. A world is the list of objects the rule
loops over and a record of what else it reads; dates, quantities and names are
reduced to the values its thresholds and comparisons tell apart. What each read's
failure does (an early return, a skipped kind, an empty map that is then searched)
is taken from the code of that rule, read by read. Findings come in the order in
which the code appends them, because `buildCurrentState` keeps the last one of
a subject. Rules that report the same subjects are run together in the order of
their registration.

`DiagnosePass` picks one rule and lets it run (`Pass`) again and again, while
reads fail and recover, objects come and go and time passes. A panic of a rule is
a result like others, since nothing recovers from one.

Three sets in `DiagnosePass` name where a property does not hold, rule by rule and
read by read; each entry is a behaviour of the code that TLC exhibits when the
entry is removed.

* `PresumedAbsent`: reads whose failure is taken for the absence of what would
  have been read, so that an API failure raises findings about a healthy cluster
  (`RBACDrift` without its allowlist, `KongRoutes` without EndpointSlices, ...).
* `Forgetting`: rules that look back a limited time (`OOMKillRecurrence`), or
  whose subjects several objects share (`ACMCertExpiry`).
* `Blind`: reads whose failure a probe does not show in its status.

The network-policy proposer is modelled as far as the analyzer that calls it is:
when there is a proposal and how many there are, not what it lets in.

### 2.6 DiagnoseCycle

State. The condition of each endpoint, the findings the analyzers return at the
moment, the streak counters of the endpoint probe, the Silences that are open and
their statuses (active or not), and the report of the last cycle. `lastProbe` is
history: the last outcome per endpoint.

Actions: `Cycle` is a cycle without remediation; `Diagnose` and `Rediagnose` are
the two passes of one with remediation, between which the world may change.
Each pass finds its targets (configured, learnt and discovered, each host once),
probes them with one retry of a transient failure, lists the Silences, patches
their statuses and filters what it found. Lists and patches may fail. The match
counter of a Silence, which nothing reads, is left out.

### 2.7 LeaderElection, Fixers and Remediation

`LeaderElection`: the Lease with its holder and age, and the state of each
replica's process from candidate to leading, giving up, releasing, cancelling the
body and exit. client-go is external: it is modelled by the three durations
`withDefaults` gives it and by the order release, return, cancel.

`Fixers` has, for every fixer, the objects it reads in the order it reads them
(`Parts`), whether it goes on after what it has seen of one (`GoesOn`), and which
findings about an owner it remembers for the rest of the run (`FoundFrozen`).

`Remediation` composes them: a replica whose body runs starts a fixer, reads part
after part from the cluster as it then is, sends its write and waits for the
answer; the write arrives late, is lost, or is applied without an answer. A run
goes on after its lease is lost until its context is cancelled, and a write that
was sent outlives its process. `Conditions` says for each fixer what an operator
may rely on, from the fixers' descriptions and not from their code, so that
`WritesWhatItMay` compares the two. `FailOpen` names the fixers that take a part
they cannot read for fine: the Job of a failed pod and the Deployment of
cert-manager.

## 3. Runs

### 3.1 Passing runs

| Run | Instance | Shows |
|---|---|---|
| `ledger` | one subject, warnings and criticals, floor "critical", restarts, up to 3 failures among all tolerable calls (Slack excepted), 3 tickets | every open ticket stays linked, nothing is recorded before it was told, no restart announces again what the channel heard last, a finding that stays gets a ticket, a finding that is gone leaves nothing behind; all of it implements `TicketLedger` |
| `remedy` | a fixable subject and a cloud one, remediation on, one lost post, failed create or failed spec patch | once no cloud finding is outstanding, a finding that stays is eventually what Slack last heard; a finding that stays is eventually on record for good, although a failed spec patch has its report deleted |
| `pipeline` | one kind, one alert, one webhook, late timer functions, restarts | no lost wake-up; a reconnected watch has missed only the disappearance of the last object; with the resync ticker every change is read by a cycle, also when no trigger notices it; without it a noticed change is read once triggers pause |
| `rules` | every rule over all worlds of its space (0 to 2 objects, the values on both sides of each threshold), any one read failing, objects and time changing between passes | a failing read raises no finding, time only escalates, a status of HEALTHY is honest (each apart from the named exceptions) |
| `silence` | one endpoint that is configured, learnt or discovered, two analyzers that report one Pod as warning and as critical, one Silence by severity, critical after 2 failures, one failing list or patch, with and without remediation | an open Silence silences analyzers and probes alike, without remediation a blip is not critical, a lasting outage becomes so, an expired Silence is marked in the end |
| `remediation` | 2 replicas, each fixer, one outage, one kill or stop, one change of the cluster, at the beginning at most one condition not met | one leader, no write against a condition that never held since its run began, and an object that can be repaired does not stay broken |
| `chain` | 4 entries, 2 clock values, 2 failures or restarts, a checkpoint every 2 events | the log verifies, no single edit of it does, the place of an edit and the last checkpoint before it are reported, the unanchored tail stays within the cadence |
| `operator` | one resource, three specs around the approval server, one of them invalid, 3 edits, deletions by hand or restarts, one failed call, a cache that lags behind the signing key's Secret | nothing outlives the resource, the signing key stays although the operator generates another and tries to create it, `Ready` is never early |
| `recreate` | one name used by two resources in turn, a memory store on and off, a lagging cache, one failed call, 3 edits | a resource left alone gets exactly its objects; a deletion completes |

### 3.2 Runs that exhibit a disagreement

Each checks one property that a comment or a document of the repository states,
and TLC finds a behaviour of the code that does not have it. The quotations and
lines are under `findings` in `PROJECT.json`.

| Run | What happens |
|---|---|
| `floor` | A finding is critical and has a ticket, drops to a warning for one cycle and is critical again. The cleanup of tickets below the floor reads the severity on record, which is the previous cycle's, and closes the ticket of a finding that is critical now. A comment may follow, but a comment does not reopen the ticket. |
| `autofix` | A finding cured by a fixer is not in that cycle's cleared list (computed from the pass before the fixers) and is gone from `seen` and the reports afterwards: its ticket stays open for ever. |
| `panic` | A Certificate is not ready and has no failed CertificateRequest, and the second list of Certificates fails: `certNotReadyDetail` ranges over the nil list instead of falling back to the Certificate's own message. |

The models show more behaviours of this kind, which appear as hypotheses of the
theorems or as restrictions of the runs and properties rather than as runs of their
own.

Against a comment or a document of the repository:

* Between two cloud runs all cloud findings count as cleared: their resolution is
  posted, and their return with the next cloud run, although nothing has changed
  (`docs/DEMO_GUIDE.md:634`, "stays quiet as long as cluster state doesn't
  change"). The new post also displaces the reminders of other findings, hence the
  antecedent of `PersistentFindingIsTold`.
* After a failed spec patch Reconcile deletes the report of a present finding, and
  its ticket ref with it (the comment at `internal/report/driftreport.go:163-171`
  has only absent subjects' reports deleted). `PersistentFindingIsRecorded` is what
  remains.
* An analyzer that leaves its severity empty is reported as a warning, but no
  Silence for severity warning matches it (`api/v1alpha1/silence_types.go:24-25`,
  "silences every warning-severity finding"). `SilencedIsQuiet` does not hold with
  such an analyzer.
* With remediation a cycle probes twice, so the first failed cycle of an endpoint
  is critical at once (`internal/probe/endpoints.go:105-108` and
  `docs/DEMO_GUIDE.md:676-681`, a warning first). `BlipIsNotCritical` is about
  cycles without remediation.
* The last finding of a subject displaces the others, also a critical one
  (`docs/THREAT_MODEL_AI.md:450`, "Critical finding always surfaces"). 22 rules
  report a subject twice with the worst not last.
* A failed list of Services leaves the external ports out of a proposed
  NetworkPolicy, which the comments at `pkg/netpol/proposer.go:131-136` and
  `:222-225` call required. The contents of a proposal are not modelled.
* A restart of a Deployment whose answer is lost is not remembered, and the next
  stuck pod causes a second one (`internal/fix/stuck_rs_pods.go:49`, "Restart at
  most once per Deployment per run").
* A log cut back to an earlier checkpoint counts as anchored
  (`pkg/audit/hash_chain.go:314`); `LastGoodAnchor` excludes it.

Without a text that says otherwise:

* With remediation on, a finding that is absent before the fixers and present after
  them has its ticket closed in the cycle that records it, and a change between the
  two passes enters `seen` unposted (hence "no remediation" in `CloseSafe` and
  `ToldSafe`).
* A ticket whose ref could not be stored is followed by a second one
  (`LedgerFaults`), and so is the ticket of a finding that clears and comes back,
  since the ref went with the report.
* A restart between the post and the report loses the announcement of a resolution
  (no restart in `ChannelSafe`). A list that fails at the start, and a report
  deleted after a failed spec patch, make a restart announce everything again
  (`SeedConfig`).
* The debounce has no maximum wait, so the event path alone reads a change only
  once triggers pause (`QuietChangeIsDiagnosed`).
* A binding that the finalizer's cache has not seen is not deleted, nor is one in an
  audit namespace that the spec has since moved away from (`Settled`).
* An event retried with the map of a failed attempt yields an entry that does not
  verify, and so does every entry after one that was stored although the inner sink
  returned an error (`Contract`).
* The exception sets of section 2.5 and `FailOpen` list what the rules and fixers
  do with reads that fail.

### 3.3 Bounds

* One subject is enough for the ledger properties: the code treats subjects
  independently except for the composition of one Slack message, which is what
  the second subject in `remedy` is for; being a cloud subject, it also comes and
  goes with the cloud cadence. The theorems of section
  5 remove the bound for the safety properties.
* `MaxTickets` stops new findings from appearing, not cycles from running, so
  all cleaning up after the last ticket is explored. Three tickets allow clear,
  recurrence, clear, recurrence.
* `MaxFaults` 3 allows a failure, a failed repair and a restart. Liveness
  properties hold after the last failure; that is the meaning of "eventually"
  when failures do not go on for ever.
* One kind of object suffices for the pipeline, since kinds share only
  `trigCh`, to which the alert and the webhook send as well. One late
  function is enough for the timer race (the old function and the new timer).
  The one object is created, changed and removed, so both a change and a
  disappearance can be missed; `WakeupSafe` and `ReplaySafe` remove the bounds.
* Four log entries contain two checkpoints with data around them, which is
  what it takes to edit, drop and swap entries across one.
* One resource suffices for the operator except for the two shared ClusterRoles,
  which it never deletes. Three edits allow create, change, delete, or create,
  delete, create again. One failed call can hit each call of each reconcile; the
  theorems of section 5 remove these bounds for the safety properties.

* A rule looks at each object by itself or asks for the presence of some object,
  so lists of two tell "all", "some" and "none" apart, and order too; for rules
  with many fields the list has at most one object. `MaxFailed` 1: the exceptions
  are per read, and two failing reads of one rule combine only by skipping more.
  Rules do not interact except by reporting the same subject, which is why such
  rules are run together.
* One endpoint with three origins suffices for the targets, since a host is probed
  once however often it is known.
* Two replicas are what a hand-over takes; `LeadersAreUnique` removes that bound.
  One outage, one exit and one change can fall between any two steps of both
  replicas. Two stuck pods of one owner are what the memory of a run is for.

The run `chain` switches deadlock checking off because its log is bounded, the
runs of the operator because it is quiescent when nobody edits anything; all
other systems run for ever and are checked for deadlock.

### 3.4 Fairness

* `WatchCycle`: weak fairness of `runCycle`. The resync ticker starts a cycle
  again and again, and every call in a cycle has a client time-out. Strong
  fairness of the clocks, which are enabled only while the process is idle
  because nothing reads them elsewhere: time passes anyhow. No fairness for the
  cluster, failures or restarts.
* `TriggerPipeline`: weak fairness of each goroutine and of the timer, which Go's
  scheduler gives. Weak fairness of the ticker, and that restarts end, are
  antecedents of `EveryChangeIsDiagnosed` alone, so that
  `QuietChangeIsDiagnosed` is about the event path. None for watches
  reconnecting: `EveryChangeIsDiagnosed` holds even if they never do.
* `DiagnoseCycle`: weak fairness of a cycle and of its second pass: the watch loop
  runs a cycle at every tick. None for the network, the cluster or the Silences;
  the liveness properties are about what stays as it is.
* `Remediation`: weak fairness of each replica's fixer steps and of its elector,
  of time, and of the API server's recovery. None for outages, exits or changes.
* `OperatorReconcile`: weak fairness of the worker goroutine, of the informers
  (a watch delivers what happened) and of the garbage collector. None for users,
  failures or restarts, which the bounds let end.

## 4. Plan

Done: the diagnose cycle and its abstract ledger, the trigger pipeline, the rules
and the pass, the cycle with Silences and streaks, leader election and fixers, the
audit chain, the operator; and the theorems of section 5, which cover every safety
property of the passing runs except three about the rules.

Next, in this order:

1. Lemmas about single rules: for a rule outside `PresumedAbsent`, that the
   findings with some reads failing are among those with none failing, beginning
   with the probes whose lists are filtered object by object.
2. `NothingOutlives` without the hypothesis on the audit namespace, for the
   bindings the present spec names.
3. `FailedReadRaisesNothing` for the rules of step 1 together.

## 5. Proofs

TLAPS checks, for every value of the constants that satisfies the named
assumptions (`KindAssumption`, `ConfigAssumption`, `SourcesApart`, `Bounds`,
`Kinds`, `Numbers`, `OutcomesKnown`, `Names`, `LeaderAssumption`, `FixersAssumption`,
`CycleAssumption`, `SubjectAssumption`):

| Theorem | Statement | Hypotheses |
|---|---|---|
| `WatchCycle_proofs!TypeCorrect` | `[]TypeOK` | none |
| `LedgerSafe` | `[]NoOrphanTicket` | `LedgerConfig`: no remediation, resolve-on-clear, none of `LedgerFaults` |
| `ToldSafe` | `[]RecordedIsTold` | no remediation, Slack accepts posts |
| `CloseSafe` | `[][ClosesForAReason]_vars`: a ticket is closed for a finding that is gone or on record below the floor | no remediation |
| `ChannelSafe` | `[]LastWordIsCurrent`: at the end of a cycle the channel's readers believe of each subject outside the cloud what the cluster is like | `ChannelConfig`: no remediation, resolved notices on, Slack accepts posts, no restart |
| `SeededSafe` | `[]RestartIsQuiet` | `SeedConfig`: no remediation, resolved notices on, Slack accepts posts, the list at start and spec patches succeed |
| `LedgerRefines` | `LedgerKept`: the watcher implements `TicketLedger` | `LedgerConfig` |
| `TriggerPipeline_proofs!TypeCorrect` | `[]TypeOK` | none |
| `WakeupSafe` | `[]NoLostWakeup` | none |
| `ReplaySafe` | `[]BlindOnlyWhenEmpty` | none |
| `AuditChain_proofs!TypeCorrect` | `[]TypeOK` | `Contract`: no retry with the same map, an error means nothing was stored |
| `ChainSafe` | `[]ChainVerifies` | `Contract` |
| `TamperSafe` | `[]TamperEvident` | `Contract` |
| `AnchorSafe` | `[]LastGoodAnchor` | `Contract` |
| `CadenceSafe` | `[]CadenceKept` | `Contract` |
| `OperatorReconcile_proofs!TypeCorrect` | `[]TypeOK` | none |
| `KeySafe` | `KeyKept` | users do not delete the Secret |
| `CleanupSafe` | `[]NothingOutlives` | `Settled`: the binding caches are up to date, the audit namespace never moves, stores are in the resource's namespace |
| `ReadySafe` | `ReadyMeansBuilt` | `OneKeeper`: one resource, or users delete the signing key anyway |
| `LeaderElection_proofs!LeadersAreUnique` | `[]OneLeader` | none besides the default durations |
| `Remediation_proofs!FixersWriteWhatTheyMay` | `[]WritesWhatItMay` | none |
| `FixersHaveOneLeader` | `[]OneLeader` of the composition | none |
| `DiagnoseCycle_proofs!SilencesHold` | `SilencedIsQuiet` | `SeveritiesSet`: every analyzer sets a severity |
| `BlipsAreWarnings` | `BlipIsNotCritical` | critical after more than one failure |

Section 3.2 says what happens without each of the hypotheses; that Slack has to
accept posts in `ToldSafe`, the second half of `Contract`, and the hypothesis of
`KeySafe` are immediate. Two resources of one namespace may name the same
signing-key Secret; it is owned by the one that created it, so that the second can
be told Ready in the moment before the garbage collector takes the Secret away
with the first: hence `OneKeeper`. With a threshold of one, every failure of an
endpoint is critical at once, as configured.

Arguments.

* `TypeOK` of `WatchCycle` is not inductive: a step of a loop reads the report
  or the finding of a subject chosen steps before. `LoopsTyped` says that the
  remaining work of each loop has what its body reads, `RefsValid` that a ref
  points at a ticket of the same subject.
* `PlainInv` (no remediation): a cycle posts, remembers and records one and the
  same state. This is exactly what remediation breaks (run `autofix`).
* `LedgerInv` adds, for each open ticket, the reason why its report survives
  the rest of the cycle, which depends on where the cycle is (`Backed`): before
  the diff its subject is in `seen`; then it is present or cleared; after the
  resolves loop only the former, so the sweep spares its report.
* `ToldInv`: what is in `seen` was told, literally or in its stored form, or is
  about to be posted in this cycle.
* `CloseInv`: what the two closing loops are working off is gone from the
  state or on record below the floor. No more can be proved: the run `floor`
  violates the version that speaks of the present severity.
* `ChannelInv`: between cycles the channel's readers believe what `seen` holds
  (`WordKept`). `Diff` moves `seen` ahead of the channel, and until the post the
  subjects where the two differ are exactly among those about to be posted or
  announced as resolved. A restart between `Diff` and the post would lose the
  second kind, and remediation would make `seen` differ from what is posted.
* `QuietInv`: a restart sets `seen` back to what is on record, so between cycles
  `seen` agrees with the channel or with the report (`QuietKept`), and nothing that
  the two agree on is about to be announced (`NewsIsNew`). That holds at the end of
  a cycle because until its patch a listed report with an entry is still to be
  handled by the upsert loop (`StaleKept`), so that no report of a present finding
  is deleted, unless a patch fails.
* `RefineInv` is `LedgerInv`, `ClosingGone` and that the tickets loop is offered
  grave findings only (`TodoGrave`). `LedgerRefines` then takes the steps one by
  one: all but the diff, the reports' writes, the tracker's calls and the cluster's
  changes leave the mapped state alone; opening needs that the subject has no open
  ticket, which holds because its report has no live ref and every open ticket is
  `Backed` by one.
* `NoLostWakeup` and `BlindOnlyWhenEmpty` are inductive together with `TypeOK`.
* `ChainInv`: the digest table has no duplicates, no event holds a leftover
  hash, every entry is linked to its predecessor and hashed as stored, hashes
  increase along the log, and the head is the hash of the last entry. That
  hashes increase is what makes dropping and swapping visible. Every edit
  disturbs the log at its first changed entry and nowhere before (`EditsDisturb`),
  and there the verifier stops (`DisturbedIsFound`), which gives `TamperSafe` and
  `AnchorSafe`.
* `CadenceInv`: the data events behind the last checkpoint are at most the counter
  plus what failed checkpoints and restarts have excused, and below the cadence
  unless a checkpoint is due.
* `LeaderIsFresh`: who leads holds the lease and has renewed it at most
  `RetryPeriod + RenewDeadline` ago, which is less than `LeaseDuration`.
* `CleanupInv`: every copy of a resource that the informer or the worker holds
  is a past state of it (`CopiesOfThePast`), so the finalizer in such a copy
  really was added (`WorkerKnows`); an object without owner reference belongs to
  a resource that has its finalizer (`ExposedIsKnown`); the caches the finalizer
  asks are complete (`CacheComplete`); and while the finalizer runs, every such
  object that still exists is still in its plan (`SweepPlanned`). The last one
  is what makes the removal of the finalizer safe, and it is false without
  `Settled`.
* `KeyKept` needs only `TypeOK` and that no plan ever contains a deletion of the
  Secret.
* `BuildInv`: the calls of a reconcile that are not pending any more and did not
  fail have left their object there (`BuiltSoFar`). The garbage collector is what
  could take such an object away again; it does not, since an object in the
  resource's namespace bears the uid of its owner (`Ownership`), and the owner is
  the present resource unless an earlier one had the name. The signing key is
  looked up in the cache and not written, so for it the cache must not remember
  what is gone (`CachedKeysAreThere`).
* `FixInv`: a run that is at its n-th read has seen each earlier part at a moment
  when the conditions on it held (`ReadSoFar`), so that at its write nothing is
  left that was shut all the time. The conditions come fixer by fixer
  (`JobConditions` ... `IngressConditions`) and each is met by what `GoesOn` lets
  through. Where the lease is plays no part: these hold for a run that outlives it.
* `FixersHaveOneLeader`: every step of the composition is a step of the election or
  leaves its state alone.
* `CycleInv`: an endpoint whose last probe succeeded has no streak
  (`StreaksOfFailures`). `SilencesHold` needs no
  more than the types: it follows the findings of one pass through the filter to
  the report, where several of one subject meet.

Only model-checked: all liveness properties (fairness is beyond what the
prover handles), and of the safety properties three of `DiagnosePass`
(`FailedReadRaisesNothing`, `TimeOnlyEscalates`, `StatusIsHonest`): each is a statement about 75 decision tables, most of them
loops over lists of objects, which takes an induction over the list per rule.

## 6. Not modelled

* Approval and silence links: the watcher mints them; the server that redeems them
  and enforces their one use is not part of the repository.
* Alertmanager emission: one POST per cycle with an expiry, nothing is kept.
* Investigation, enrichment, the AI interfaces, the validator of proposed actions
  and release sources: pure functions of one finding or one manifest that add text
  or refuse, without state.
* The RAG feeder: it sends what changed to an external store; the cycle depends on
  it only through the learnt targets, which `DiagnoseCycle` takes as given.
* The audit Events sink, the resolution recorder, the Vault client: one stateless
  call each. What a failing Vault call does to a rule is in `SecretRules`.
* In the rules: messages and remediation texts, quantities and dates beyond what
  thresholds tell apart, the snapshot clients that replay recorded data.
* In the operator: what the builders put into an object besides what decides its
  existence, its owner and whether it changed.
* API types, Helm chart, catalog data, command-line wiring, examples, HTTP clients,
  text layout and anonymization: declarations and pure input/output.
