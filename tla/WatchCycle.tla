------------------------------ MODULE WatchCycle ------------------------------
(***************************************************************************)
(* The watcher's diagnose cycle (internal/watcher/watcher.go, runCycle) and *)
(* everything it leaves behind: the in-memory seen map, the Slack channel,  *)
(* the DriftReport custom resources (internal/report/driftreport.go) and    *)
(* the tickets in the issue tracker (internal/report/ticketing*.go with the *)
(* OpenProject sink).                                                       *)
(*                                                                         *)
(* One process runs one cycle at a time.  The cluster changes under it, any *)
(* call to the API server, to Slack or to the tracker may fail, and the     *)
(* process may be restarted between any two steps.  A step makes up to two  *)
(* calls; a restart between them is a failure of the second one followed by *)
(* Restart.  Elapsed time is one bit per timestamp: "at least the           *)
(* configured interval ago" or not.                                         *)
(***************************************************************************)
EXTENDS Naturals, Sequences, FiniteSets

CONSTANTS
    Subjects,          \* identities of findings (diagnose.Diagnostic.Subject)
    CloudSubjects,     \* the ones only cloud probes report
    FixableSubjects,   \* the ones a registered Fixer acts on
    FixerReport,       \* the subject of a FixerAction/... or FixerSkipped/... report
    Severities,        \* severities that probes and analyzers emit
    Messages,          \* message texts
    truncateAt,        \* what truncateAt(message, 4096) leaves of a message
    RunRemediation,    \* Config.RunRemediation, with a Mutator present
    PostOnResolved,    \* Config.PostOnResolved
    NoChangeDigest,    \* Config.NoChangeSlackDigest
    RepeatInterval,    \* Config.RepeatInterval > 0
    CriticalRepeat,    \* Config.CriticalRepeatInterval > 0
    ResolveOnClear,    \* TicketingConfig.ResolveOnClear
    CommentInterval,   \* TicketingConfig.CommentInterval > 0
    MinSeverity,       \* TicketingConfig.MinSeverity
    Faults,            \* the calls that may fail, and "crash"
    MaxFaults,         \* bound on the number of failures
    MaxTickets,        \* no finding newly appears once this many tickets exist
    None               \* an absent map entry

(* What can fail in a cycle.  The ticket ledger does not survive the last    *)
(* five; "refWrite" is every way for a ticket to be created without its ref  *)
(* being kept: the patch fails, the answer of the create call is lost or has *)
(* no id, the process dies between the two calls.                            *)
TolerableFaults ==
    {"slack", "cleanupList", "reconcileList", "ticketsList", "statusPatch",
     "create", "delete", "upsert", "markResolved", "comment", "stamp", "crash"}
LedgerFaults == {"loadList", "resolvesList", "specPatch", "refWrite", "resolve"}

Keys == Subjects \cup {FixerReport}
Finding == [severity : Severities \cup {"info"}, message : Messages]

(* seenEntry, and the part of a DriftReport the cycle uses: status.ticket is
   ref (0: none), resolved and whether lastCommentedAt is within
   CommentInterval; aged says that status.lastObserved is not recent. *)
SeenEntry == [fp : Finding, due : BOOLEAN]
Report == [finding : Finding, ref : Nat, resolved : BOOLEAN,
           debounced : BOOLEAN, aged : BOOLEAN]

ASSUME KindAssumption ==
    /\ CloudSubjects \subseteq Subjects
    /\ FixableSubjects \subseteq Subjects
    /\ FixerReport \notin Subjects
    /\ Severities \subseteq {"info", "warning", "critical"}
    /\ Messages # {}
    /\ truncateAt \in [Messages -> Messages]
    /\ \A m \in Messages : truncateAt[truncateAt[m]] = truncateAt[m]
    /\ None \notin Finding \cup SeenEntry \cup Report

ASSUME ConfigAssumption ==
    /\ {RunRemediation, PostOnResolved, NoChangeDigest, RepeatInterval,
        CriticalRepeat, ResolveOnClear, CommentInterval} \subseteq BOOLEAN
    /\ MinSeverity \in {"", "info", "warning", "critical"}
    /\ Faults \subseteq TolerableFaults \cup LedgerFaults
    /\ MaxFaults \in Nat
    /\ MaxTickets \in Nat

VARIABLES
    cond,       \* what a diagnose pass over the cluster would report, per subject
    cloudDue,   \* no cloud run yet, or CloudCadence ago
    pc,         \* where runCycle is
    pre,        \* preFix
    post,       \* postFix
    fixLog,     \* fixResults: "none", "skipped" or "acted" (hasActions)
    posting,    \* subjects of toPost
    fresh,      \* the ones of them with isNewThisCycle set
    cleared,    \* clearedSubjects
    todo,       \* subjects the current loop has still to handle
    stale,      \* existingByName of Reconcile
    seen,       \* Watcher.seen
    crs,        \* DriftReport custom resources by subject
    tickets,    \* the tracker's tickets in order of creation
    told,       \* findings ever delivered to Slack, per subject
    lastWord,   \* the finding Slack readers last heard is active, per subject
    faults      \* failures so far

cycle == <<pre, post, fixLog, posting, fresh, cleared>>
slack == <<told, lastWord>>
vars == <<cond, cloudDue, pc, cycle, todo, stale, seen, crs, tickets, slack, faults>>

--------------------------------------------------------------------------------
(* Failure of one call; every action says which calls it makes. *)
Ok == UNCHANGED faults
Fails(call) ==
    /\ call \in Faults
    /\ faults < MaxFaults
    /\ faults' = faults + 1

NoFindings == [k \in Keys |-> None]

(* ticketSeverityRank and meetsTicketThreshold: unknown severities rank as
   warning, an empty floor means critical. *)
ticketSeverityRank(sev) ==
    CASE sev = "critical" -> 3
      [] sev = "info"     -> 1
      [] OTHER            -> 2

meetsTicketThreshold(sev) ==
    ticketSeverityRank(sev) >=
        ticketSeverityRank(IF MinSeverity = "" THEN "critical" ELSE MinSeverity)

(* The finding as a DriftReport's spec holds it. *)
Stored(f) == [f EXCEPT !.message = truncateAt[@]]

hasActions == fixLog = "acted"
diffState == IF hasActions THEN pre ELSE post

(* AssembleEntries: the post-fix findings plus the record of what the fixers
   did or skipped, which no probe or analyzer reports. *)
FixerFinding == [severity |-> "info", message |-> CHOOSE m \in Messages : TRUE]
AssembleEntries ==
    [post EXCEPT ![FixerReport] = IF fixLog = "none" THEN None ELSE FixerFinding]

(* Seeded defects: a critical finding without an interval of its own does not
   fall back to RepeatInterval; only critical findings are ever repeated. *)
repeatWithoutFallback(sev) == IF sev = "critical" THEN CriticalRepeat ELSE RepeatInterval
repeatOnlyCritical(sev) == sev = "critical" /\ (RepeatInterval \/ CriticalRepeat)

(* repeatIntervalFor: whether reminders of this severity exist at all. *)
repeatIntervalFor(sev) == RepeatInterval \/ (sev = "critical" /\ CriticalRepeat)

(* The patches of one report: specPatch and statusPatch of Reconcile, and the
   three writers of status.ticket.  A ref is written with resolved = false and
   a recurrence comment clears the flag. *)
specPatch(r, f) == [r EXCEPT !.finding = Stored(f)]
statusPatch(r) == [r EXCEPT !.aged = FALSE]
writeTicketRef(r, ref) == [r EXCEPT !.ref = ref, !.resolved = FALSE]
markTicketResolved(r) == [r EXCEPT !.resolved = TRUE]
stampTicketComment(r) == [r EXCEPT !.debounced = TRUE, !.resolved = FALSE]

(* What time does to a report. *)
DebounceOver(r) == [r EXCEPT !.debounced = FALSE]
Aged(r) == [r EXCEPT !.aged = TRUE]

readTicketRef(k) == crs[k] # None /\ crs[k].ref # 0

--------------------------------------------------------------------------------
Init ==
    /\ cond = NoFindings
    /\ cloudDue = TRUE
    /\ pc = "idle"
    /\ pre = NoFindings
    /\ post = NoFindings
    /\ fixLog = "none"
    /\ posting = {}
    /\ fresh = {}
    /\ cleared = {}
    /\ todo = {}
    /\ stale = {}
    /\ seen = NoFindings
    /\ crs = NoFindings
    /\ tickets = <<>>
    /\ told = [k \in Keys |-> {}]
    /\ lastWord = NoFindings
    /\ faults = 0

(* The cluster drifts or recovers.  Only the diagnose passes and the fixers
   read cond, so a change at any other point is a change at the next read. *)
ClusterChange(s, f) ==
    /\ pc \in {"idle", "fix", "rediagnose"}
    /\ f # cond[s]
    /\ cond[s] = None => Len(tickets) < MaxTickets
    /\ cond' = [cond EXCEPT ![s] = f]
    /\ UNCHANGED <<cloudDue, pc, cycle, todo, stale, seen, crs, tickets, slack, faults>>

(* Time passes, one timestamp at a time.  (A cloud finding that comes back
   with the next cloud run may open a ticket, hence the bound.) *)
CloudCadenceElapses ==
    /\ pc = "idle" /\ ~cloudDue
    /\ Len(tickets) < MaxTickets
    /\ cloudDue' = TRUE
    /\ UNCHANGED <<cond, pc, cycle, todo, stale, seen, crs, tickets, slack, faults>>

RepeatIntervalElapses(k) ==
    /\ pc = "idle" /\ seen[k] # None /\ ~seen[k].due
    /\ seen' = [seen EXCEPT ![k] = [@ EXCEPT !.due = TRUE]]
    /\ UNCHANGED <<cond, cloudDue, pc, cycle, todo, stale, crs, tickets, slack, faults>>

CommentIntervalElapses(k) ==
    /\ pc = "idle" /\ crs[k] # None /\ crs[k].debounced
    /\ crs' = [crs EXCEPT ![k] = DebounceOver(@)]
    /\ UNCHANGED <<cond, cloudDue, pc, cycle, todo, stale, seen, tickets, slack, faults>>

(* status.lastObserved is read by the next process only. *)
ObservationAges(k) ==
    /\ "crash" \in Faults
    /\ pc = "idle" /\ crs[k] # None /\ ~crs[k].aged
    /\ crs' = [crs EXCEPT ![k] = Aged(@)]
    /\ UNCHANGED <<cond, cloudDue, pc, cycle, todo, stale, seen, tickets, slack, faults>>

--------------------------------------------------------------------------------
(* Seeded defect: reports not observed recently are left out. *)
loadSeenRecent ==
    [k \in Keys |-> IF crs[k] = None \/ crs[k].aged THEN None
                    ELSE [fp |-> crs[k].finding, due |-> FALSE]]

(* The process is replaced (crash, eviction, rollout): all memory is lost and
   the new one runs loadSeenFromDriftReports, over every DriftReport there is. *)
loadSeenFromDriftReports ==
    [k \in Keys |-> IF crs[k] = None THEN None
                    ELSE [fp |-> crs[k].finding, due |-> crs[k].aged]]

Restart ==
    /\ "crash" \in Faults
    /\ \/ faults < MaxFaults /\ faults' = faults + 1 /\ seen' = loadSeenFromDriftReports
       \/ /\ "loadList" \in Faults
          /\ faults + 1 < MaxFaults /\ faults' = faults + 2 /\ seen' = NoFindings
    /\ pc' = "idle"
    /\ cloudDue' = TRUE
    /\ pre' = NoFindings
    /\ post' = NoFindings
    /\ fixLog' = "none"
    /\ posting' = {}
    /\ fresh' = {}
    /\ cleared' = {}
    /\ todo' = {}
    /\ stale' = {}
    /\ UNCHANGED <<cond, crs, tickets, slack>>

(* runDiagnose and runCloudDiagnose.  Off cadence the latter returns nil, so
   the cloud subjects are absent from this cycle's state. *)
runDiagnose ==
    /\ pc = "idle"
    /\ pre' = [k \in Keys |-> IF k \in CloudSubjects /\ ~cloudDue THEN None ELSE cond[k]]
    /\ cloudDue' = (cloudDue /\ CloudSubjects = {})
    /\ IF RunRemediation
       THEN pc' = "fix" /\ UNCHANGED post
       ELSE pc' = "diff" /\ post' = pre'
    /\ UNCHANGED <<cond, fixLog, posting, fresh, cleared, todo, stale, seen, crs, tickets, slack, faults>>

(* Every registered fixer runs over the cluster as it is now.  An action need
   not cure the finding it was taken for (a dry run, a pod that fails again). *)
RunFixers(acted, healed, log) ==
    /\ pc = "fix"
    /\ acted \subseteq {s \in FixableSubjects : cond[s] # None}
    /\ healed \subseteq acted
    /\ log = "acted" <=> acted # {}
    /\ fixLog' = log
    /\ cond' = [k \in Keys |-> IF k \in healed THEN None ELSE cond[k]]
    /\ pc' = "rediagnose"
    /\ UNCHANGED <<cloudDue, pre, post, posting, fresh, cleared, todo, stale, seen, crs, tickets, slack, faults>>

(* The second runDiagnose; the cloud results of the first are merged back. *)
ReDiagnose ==
    /\ pc = "rediagnose"
    /\ post' = [k \in Keys |-> IF k \in CloudSubjects THEN pre[k] ELSE cond[k]]
    /\ pc' = "diff"
    /\ UNCHANGED <<cond, cloudDue, pre, fixLog, posting, fresh, cleared, todo, stale, seen, crs, tickets, slack, faults>>

(* Seeded defects of diff: a subject is posted without looking whether it is in
   the state; a changed finding is not posted. *)
toPostUnchecked ==
    {k \in Keys : seen[k] = None \/ seen[k].fp # diffState[k]}
toPostWithoutChanges ==
    {k \in Keys :
        /\ diffState[k] # None
        /\ seen[k] = None \/ (repeatIntervalFor(diffState[k].severity) /\ seen[k].due)}

(* diff(diffState), updateSeen(postFix, toPost) and clearedSubjects, one
   critical section of w.mu. *)
isNewThisCycle(k) == seen[k] = None \/ seen[k].fp # diffState[k]

toPost ==
    {k \in Keys :
        /\ diffState[k] # None
        /\ \/ isNewThisCycle(k)
           \/ repeatIntervalFor(diffState[k].severity) /\ seen[k].due}

updateSeen ==
    [k \in Keys |->
        IF post[k] = None THEN None
        ELSE [fp  |-> post[k],
              due |-> IF k \in toPost THEN FALSE
                      ELSE IF seen[k] = None THEN TRUE ELSE seen[k].due]]

(* Seeded defect: computed after updateSeen has pruned the map. *)
clearedAfterPrune == {k \in Keys : updateSeen[k] # None /\ diffState[k] = None}

clearedSubjects == {k \in Keys : seen[k] # None /\ diffState[k] = None}

Diff ==
    /\ pc = "diff"
    /\ posting' = toPost
    /\ fresh' = {k \in toPost : isNewThisCycle(k)}
    /\ cleared' = clearedSubjects
    /\ seen' = updateSeen
    /\ pc' = "slack"
    /\ UNCHANGED <<cond, cloudDue, pre, post, fixLog, todo, stale, crs, tickets, slack, faults>>

(* RouteAndPostConfig: toPost splits into what the fixers made disappear
   (Alerts channel) and what is still there, posted with the resolved notices
   (Critical channel).  A failed post is logged and forgotten. *)
unfixable == {k \in posting : post[k] # None}
fixedIssues == posting \ unfixable
toResolve == IF PostOnResolved THEN cleared ELSE {}

(* SplitCriticalPayloadsConfig: next to a new finding the stable ones shrink to
   "and N other stable findings already posted in earlier cycles"; with
   NoChangeDigest they are counted, not named, when nothing else is to say. *)
rendered ==
    IF unfixable \cap fresh # {} THEN unfixable \cap fresh
    ELSE IF NoChangeDigest /\ toResolve = {} THEN {}
    ELSE unfixable

PostSlack(delivered) ==
    /\ pc = "slack"
    /\ told' = [k \in Keys |-> IF k \in delivered \cap (fixedIssues \cup rendered)
                               THEN told[k] \cup {diffState[k]} ELSE told[k]]
    /\ lastWord' = [k \in Keys |->
                        IF k \in delivered \cap rendered THEN diffState[k]
                        ELSE IF k \in delivered \cap (fixedIssues \cup toResolve) THEN None
                        ELSE lastWord[k]]
    /\ pc' = "posted"
    /\ UNCHANGED <<cond, cloudDue, cycle, todo, stale, seen, crs, tickets>>

RouteAndPost ==
    \/ PostSlack(Keys) /\ Ok
    \/ PostSlack(Keys \ fixedIssues) /\ fixedIssues # {} /\ Fails("slack")
    \/ PostSlack(fixedIssues) /\ Fails("slack")

--------------------------------------------------------------------------------
(* RouteResolves and RouteTicketCleanup share their body: close the ticket,
   then stamp status.ticket.resolved; a failed close skips the stamp, a failed
   stamp is tolerated. *)
CloseTicket(k) ==
    /\ k \in todo
    /\ todo' = todo \ {k}
    /\ \/ Fails("resolve") /\ UNCHANGED <<crs, tickets>>
       \/ /\ tickets' = [tickets EXCEPT ![crs[k].ref] = [@ EXCEPT !.open = FALSE]]
          /\ \/ Fails("markResolved") /\ UNCHANGED crs
             \/ Ok /\ crs' = [crs EXCEPT ![k] = markTicketResolved(@)]

(* RouteResolves looks at the cleared subjects whose report has an unresolved
   ref.  When the reports cannot be listed it returns before the loop. *)
resolvable == {k \in cleared : readTicketRef(k) /\ ~crs[k].resolved}

RouteResolves ==
    /\ pc = "posted"
    /\ pc' = "resolves"
    /\ \/ Ok /\ todo' = IF ResolveOnClear THEN resolvable ELSE {}
       \/ ResolveOnClear /\ cleared # {} /\ Fails("resolvesList") /\ todo' = {}
    /\ UNCHANGED <<cond, cloudDue, cycle, stale, seen, crs, tickets, slack>>

ResolveTicket(k) ==
    /\ pc = "resolves"
    /\ CloseTicket(k)
    /\ UNCHANGED <<cond, cloudDue, pc, cycle, stale, seen, slack>>

(* RouteTicketCleanup goes by the severity of the previous cycle's report. *)
belowFloor ==
    {k \in Keys : /\ readTicketRef(k)
                  /\ ~crs[k].resolved
                  /\ ~meetsTicketThreshold(crs[k].finding.severity)}

RouteTicketCleanup ==
    /\ pc = "resolves" /\ todo = {}
    /\ pc' = "cleanup"
    /\ \/ Ok /\ todo' = IF ResolveOnClear THEN belowFloor ELSE {}
       \/ ResolveOnClear /\ Fails("cleanupList") /\ todo' = {}
    /\ UNCHANGED <<cond, cloudDue, cycle, stale, seen, crs, tickets, slack>>

CleanupTicket(k) ==
    /\ pc = "cleanup"
    /\ CloseTicket(k)
    /\ UNCHANGED <<cond, cloudDue, pc, cycle, stale, seen, slack>>

--------------------------------------------------------------------------------
(* Seeded defect: only subjects cleared in this very cycle are candidates for
   deletion. *)
ReconcileClearedOnly ==
    /\ pc = "cleanup" /\ todo = {}
    /\ \/ /\ Ok
          /\ todo' = {k \in Keys : AssembleEntries[k] # None}
          /\ stale' = {k \in Keys : crs[k] # None /\ (k \in todo' \/ k \in cleared)}
       \/ Fails("reconcileList") /\ UNCHANGED <<todo, stale>>
    /\ pc' = "upsert"
    /\ UNCHANGED <<cond, cloudDue, cycle, seen, crs, tickets, slack>>

(* Seeded defect: an entry is upserted only when it is new or has a report. *)
ReconcileNewOrListed ==
    /\ pc = "cleanup" /\ todo = {}
    /\ \/ /\ Ok
          /\ stale' = {k \in Keys : crs[k] # None}
          /\ todo' = {k \in fresh \cup stale' : AssembleEntries[k] # None}
       \/ Fails("reconcileList") /\ UNCHANGED <<todo, stale>>
    /\ pc' = "upsert"
    /\ UNCHANGED <<cond, cloudDue, cycle, seen, crs, tickets, slack>>

(* Reconcile: list the reports, upsert every entry, delete what is left of
   existingByName.  A failed list returns before any of it. *)
Reconcile ==
    /\ pc = "cleanup" /\ todo = {}
    /\ \/ /\ Ok
          /\ todo' = {k \in Keys : AssembleEntries[k] # None}
          /\ stale' = {k \in Keys : crs[k] # None}
       \/ Fails("reconcileList") /\ UNCHANGED <<todo, stale>>
    /\ pc' = "upsert"
    /\ UNCHANGED <<cond, cloudDue, cycle, seen, crs, tickets, slack>>

(* A known subject: a failed spec patch continues the loop and leaves the
   report in existingByName; a failed status patch is only recorded. *)
PatchReport(k) ==
    /\ pc = "upsert" /\ k \in todo /\ crs[k] # None
    /\ todo' = todo \ {k}
    /\ \/ Fails("specPatch") /\ UNCHANGED <<crs, stale>>
       \/ /\ stale' = stale \ {k}
          /\ \/ /\ Fails("statusPatch")
                /\ crs' = [crs EXCEPT ![k] = specPatch(@, AssembleEntries[k])]
             \/ /\ Ok
                /\ crs' = [crs EXCEPT ![k] = statusPatch(specPatch(@, AssembleEntries[k]))]
    /\ UNCHANGED <<cond, cloudDue, pc, cycle, seen, tickets, slack>>

(* A new subject.  Without its status a report has no lastObserved, which a
   later load reads as the zero time. *)
NewReport(k, aged) ==
    [finding |-> Stored(AssembleEntries[k]), ref |-> 0, resolved |-> FALSE,
     debounced |-> FALSE, aged |-> aged]

CreateReport(k) ==
    /\ pc = "upsert" /\ k \in todo /\ crs[k] = None
    /\ todo' = todo \ {k}
    /\ \/ Fails("create") /\ UNCHANGED crs
       \/ Fails("statusPatch") /\ crs' = [crs EXCEPT ![k] = NewReport(k, TRUE)]
       \/ Ok /\ crs' = [crs EXCEPT ![k] = NewReport(k, FALSE)]
    /\ UNCHANGED <<cond, cloudDue, pc, cycle, stale, seen, tickets, slack>>

UpsertsDone ==
    /\ pc = "upsert" /\ todo = {}
    /\ pc' = "sweep"
    /\ UNCHANGED <<cond, cloudDue, cycle, todo, stale, seen, crs, tickets, slack, faults>>

DeleteReport(k) ==
    /\ pc = "sweep" /\ k \in stale
    /\ stale' = stale \ {k}
    /\ \/ Fails("delete") /\ UNCHANGED crs
       \/ Ok /\ crs' = [crs EXCEPT ![k] = None]
    /\ UNCHANGED <<cond, cloudDue, pc, cycle, todo, seen, tickets, slack>>

--------------------------------------------------------------------------------
(* Seeded defect: the severity floor is not applied. *)
ticketableAny == {k \in unfixable : crs[k] # None}

(* RouteTickets: the posted findings at or above the floor that are still
   there and have a report. *)
ticketable ==
    {k \in unfixable : /\ crs[k] # None
                       /\ meetsTicketThreshold(diffState[k].severity)}

RouteTickets ==
    /\ pc = "sweep" /\ stale = {}
    /\ pc' = "tickets"
    /\ \/ Ok /\ todo' = ticketable
       \/ Fails("ticketsList") /\ todo' = {}
    /\ UNCHANGED <<cond, cloudDue, cycle, stale, seen, crs, tickets, slack>>

(* No ref yet: Sink.Upsert, which creates a work package every time it is
   called, then writeTicketRef.  A failed write leaves a ticket without ref. *)
UpsertTicket(k) ==
    /\ pc = "tickets" /\ k \in todo /\ ~readTicketRef(k)
    /\ todo' = todo \ {k}
    /\ \/ Fails("upsert") /\ UNCHANGED <<crs, tickets>>
       \/ /\ tickets' = Append(tickets, [subject |-> k, open |-> TRUE])
          /\ \/ Fails("refWrite") /\ UNCHANGED crs
             \/ Ok /\ crs' = [crs EXCEPT ![k] = writeTicketRef(@, Len(tickets) + 1)]
    /\ UNCHANGED <<cond, cloudDue, pc, cycle, stale, seen, slack>>

(* maybeCommentOnRecurrence: a debounced comment, then its stamp, which also
   clears the resolved flag.  Sink.Comment does not reopen the ticket. *)
maybeCommentOnRecurrence(k) ==
    /\ pc = "tickets" /\ k \in todo /\ readTicketRef(k)
    /\ todo' = todo \ {k}
    /\ IF CommentInterval /\ ~crs[k].debounced
       THEN \/ Fails("comment") /\ UNCHANGED crs
            \/ Fails("stamp") /\ UNCHANGED crs
            \/ Ok /\ crs' = [crs EXCEPT ![k] = stampTicketComment(@)]
       ELSE Ok /\ UNCHANGED crs
    /\ UNCHANGED <<cond, cloudDue, pc, cycle, stale, seen, tickets, slack>>

CycleDone ==
    /\ pc = "tickets" /\ todo = {}
    /\ pc' = "idle"
    /\ pre' = NoFindings
    /\ post' = NoFindings
    /\ fixLog' = "none"
    /\ posting' = {}
    /\ fresh' = {}
    /\ cleared' = {}
    /\ UNCHANGED <<cond, cloudDue, todo, stale, seen, crs, tickets, slack, faults>>

--------------------------------------------------------------------------------
Environment ==
    \/ \E s \in Subjects, f \in [severity : Severities, message : Messages] \cup {None} :
          ClusterChange(s, f)
    \/ Restart

TimePasses ==
    \/ CloudCadenceElapses
    \/ \E k \in Keys :
          RepeatIntervalElapses(k) \/ CommentIntervalElapses(k) \/ ObservationAges(k)

runCycle ==
    \/ runDiagnose
    \/ \E acted \in SUBSET FixableSubjects, log \in {"none", "skipped", "acted"} :
          \E healed \in SUBSET acted : RunFixers(acted, healed, log)
    \/ ReDiagnose
    \/ Diff
    \/ RouteAndPost
    \/ RouteResolves
    \/ RouteTicketCleanup
    \/ Reconcile
    \/ UpsertsDone
    \/ RouteTickets
    \/ CycleDone
    \/ \E k \in Keys :
          \/ ResolveTicket(k) \/ CleanupTicket(k)
          \/ PatchReport(k) \/ CreateReport(k) \/ DeleteReport(k)
          \/ UpsertTicket(k) \/ maybeCommentOnRecurrence(k)

Next == Environment \/ TimePasses \/ runCycle

Spec == Init /\ [][Next]_vars

(* The resync ticker keeps starting cycles and a cycle has no blocking wait
   that is not bounded by a client timeout.  Time passes whatever the process
   does; the clock actions are limited to pc = "idle" only because nothing
   reads them elsewhere, hence strong fairness. *)
Fairness ==
    /\ WF_vars(runCycle)
    /\ \A k \in Keys : SF_vars(RepeatIntervalElapses(k))
    /\ SF_vars(CloudCadenceElapses)

FairSpec == Spec /\ Fairness

--------------------------------------------------------------------------------
MaybeFinding == [Keys -> Finding \cup {None}]
Phases == {"idle", "fix", "rediagnose", "diff", "slack", "posted", "resolves",
           "cleanup", "upsert", "sweep", "tickets"}
Ticket == [subject : Keys, open : BOOLEAN]

(* The shape of the state. *)
TypeOK ==
    /\ cond \in MaybeFinding
    /\ cloudDue \in BOOLEAN
    /\ pc \in Phases
    /\ pre \in MaybeFinding
    /\ post \in MaybeFinding
    /\ fixLog \in {"none", "skipped", "acted"}
    /\ posting \subseteq Keys
    /\ fresh \subseteq posting
    /\ cleared \subseteq Keys
    /\ todo \subseteq Keys
    /\ stale \subseteq Keys
    /\ seen \in [Keys -> SeenEntry \cup {None}]
    /\ crs \in [Keys -> Report \cup {None}]
    /\ tickets \in Seq(Ticket)
    /\ told \in [Keys -> SUBSET Finding]
    /\ lastWord \in MaybeFinding
    /\ faults \in Nat

(* No open ticket is ever out of the watcher's reach: the report of its
   subject still points at it (status.ticket), so a later clear can close it
   and a recurrence finds it.  In particular a subject never has two open
   tickets.  Holds for every failure in TolerableFaults, restarts included,
   while fixers do not run (RouteResolves, Reconcile, UpsertTicket, Restart). *)
NoOrphanTicket ==
    \A t \in 1..Len(tickets) :
        tickets[t].open => /\ crs[tickets[t].subject] # None
                           /\ crs[tickets[t].subject].ref = t

(* A DriftReport never holds a finding that Slack was not told at least once:
   RouteAndPost comes before Reconcile, so a restart between the two posts
   again rather than seeding the seen map with something nobody heard of. *)
RecordedIsTold ==
    \A s \in Subjects :
        crs[s] # None => \E f \in told[s] : crs[s].finding = Stored(f)

(* Nothing is announced as new that is on record and that is exactly what Slack
   last heard of the subject, however many restarts lie in between (DEMO_GUIDE
   5.2: "after a pod restart, the seen-map is seeded from existing DriftReport
   CRs - no Slack flood").  diff reads seen, which loadSeenFromDriftReports fills
   from reports that Reconcile writes steps after RouteAndPost. *)
RestartIsQuiet ==
    pc = "slack" => \A k \in Subjects \cap fresh :
        ~(lastWord[k] = diffState[k] /\ crs[k] # None /\ crs[k].finding = diffState[k])

Closes(t) == tickets[t].open /\ ~tickets'[t].open

(* A ticket is closed only in a cycle that does not have its finding or has it
   below the ticketing floor now (ticketing_lifecycle.go: "closes any still-open
   ticket whose finding severity is now BELOW the MinSeverity floor", "still
   at/above floor - legitimately open"). *)
ClosedOnlyWhenGone ==
    [][\A t \in 1..Len(tickets) : Closes(t) =>
          LET f == post[tickets[t].subject]
          IN  f = None \/ ~meetsTicketThreshold(f.severity)]_vars

(* The refinement mapping to TicketLedger: post is what the cycle found, the
   reports are the record, and the tracker's open tickets the load. *)
Grade(f) ==
    IF f = None THEN "none" ELSE IF meetsTicketThreshold(f.severity) THEN "grave" ELSE "minor"
OpenTickets(k) == {t \in 1..Len(tickets) : tickets[t].subject = k /\ tickets[t].open}

Ledger == INSTANCE TicketLedger WITH
    Findings <- Keys,
    found <- [k \in Keys |-> Grade(post[k])],
    known <- [k \in Keys |-> IF crs[k] = None THEN "none" ELSE Grade(crs[k].finding)],
    load <- [k \in Keys |-> OpenTickets(k)]

(* The cycle with its reports, sinks and restarts keeps the promise of
   TicketLedger: one ticket for a grave finding, never two that are open, closed
   for what is gone. *)
LedgerKept == Ledger!Spec

(* A finding that stays at or above the floor is eventually on record with a
   ticket for good, whatever failed on the way, as long as reminders are enabled: only
   a posted finding is offered to RouteTickets. *)
PersistentFindingIsTicketed ==
    \A s \in Subjects :
        <>[](cond[s] # None /\ meetsTicketThreshold(cond[s].severity) /\ s \notin CloudSubjects)
            => <>[](readTicketRef(s))

(* A finding that stays away is eventually forgotten: no report, no seen
   entry (a failed delete or list is made good by a later cycle). *)
ClearedIsForgotten ==
    \A s \in Subjects :
        <>[](cond[s] = None) => <>[](crs[s] = None /\ seen[s] = None)

(* A finding that stays is eventually on record for good.  Reconcile deletes the
   report of a present finding when its spec patch fails, with the ticket ref in
   it; a later cycle writes the report anew. *)
PersistentFindingIsRecorded ==
    \A s \in Subjects \ CloudSubjects, f \in Finding :
        <>[](cond[s] = f) => <>[](crs[s] # None /\ crs[s].finding = Stored(f))

(* Once the cluster stays as it is and has no cloud finding, each of its findings
   is eventually what Slack last heard, although seen is updated before the post
   and from another state than the one the post is computed from: the reminder
   repairs a lost or skipped post.  (A reminder that goes out with a new finding
   is summarised away, and a cloud finding is new with every cloud run.) *)
PersistentFindingIsTold ==
    \A s \in Subjects, f \in Finding :
        /\ <>[](cond[s] = f /\ \A c \in CloudSubjects : cond[c] = None)
        /\ <>[][UNCHANGED cond]_vars
        => <>[](lastWord[s] = f)
================================================================================
