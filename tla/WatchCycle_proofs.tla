--------------------------- MODULE WatchCycle_proofs ---------------------------
(* Theorems about WatchCycle: its type invariant, the ticket ledger and the
   order of telling and recording, for every set of subjects, every
   configuration the hypotheses allow and every number of failures. *)
EXTENDS WatchCycle, SequenceTheorems, TLAPS

(* TypeOK made inductive: a loop handles only subjects that have what its body
   reads. *)
LoopsTyped ==
    /\ pc = "slack" => \A k \in posting : diffState[k] # None
    /\ pc \in {"resolves", "cleanup", "tickets"} => \A k \in todo : crs[k] # None
    /\ pc \in {"resolves", "cleanup"} => \A k \in todo : crs[k].ref # 0
    /\ pc = "upsert" => \A k \in todo : AssembleEntries[k] # None

RefsValid ==
    \A k \in Keys : crs[k] # None /\ crs[k].ref # 0 =>
        /\ crs[k].ref \in 1..Len(tickets)
        /\ tickets[crs[k].ref].subject = k

TypeInv == TypeOK /\ LoopsTyped /\ RefsValid

(* While fixers do not run: a cycle persists, diffs and remembers one and the
   same state, and the fixers' own report does not occur. *)
NoFixers == fixLog = "none" /\ pc \notin {"fix", "rediagnose"}

FixerReportAbsent == cond[FixerReport] = None /\ post[FixerReport] = None

SeenIsPost ==
    pc \notin {"idle", "diff"} => \A k \in Keys :
        post[k] # None => seen[k] # None /\ seen[k].fp = post[k]

TodoKept ==
    pc \in {"upsert", "tickets"} => \A k \in todo : post[k] # None

PlainInv == TypeInv /\ NoFixers /\ FixerReportAbsent /\ SeenIsPost /\ TodoKept

(* What Reconcile's sweep deletes while no spec patch fails: until its patch, a
   listed report with an entry is still to be handled by the upsert loop. *)
StaleKept ==
    /\ pc \notin {"upsert", "sweep"} => stale = {}
    /\ \A k \in stale : crs[k] # None
    /\ pc = "upsert" => \A k \in stale : AssembleEntries[k] # None => k \in todo
    /\ pc = "sweep" => \A k \in stale : AssembleEntries[k] = None

SweepInv == TypeInv /\ StaleKept

(* NoOrphanTicket made inductive.  Where a cycle stands decides why an open
   ticket cannot lose its report: until Diff its subject is in seen; then the
   subject is in the final state or among the cleared ones; after the resolves
   loop only the former is left, so the sweep spares its report. *)
Backed(t) ==
    LET k == tickets[t].subject
    IN  /\ crs[k] # None /\ crs[k].ref = t /\ ~crs[k].resolved
        /\ pc \in {"idle", "diff"} => seen[k] # None
        /\ pc \in {"slack", "posted"} => post[k] # None \/ k \in cleared
        /\ pc = "resolves" => post[k] # None \/ k \in todo
        /\ pc \in {"cleanup", "upsert", "sweep", "tickets"} => post[k] # None

OpenBacked == \A t \in 1..Len(tickets) : tickets[t].open => Backed(t)

LedgerInv == PlainInv /\ StaleKept /\ OpenBacked

(* What the refinement of TicketLedger rests on besides: the tickets loop is
   offered grave findings only. *)
TodoGrave ==
    pc = "tickets" => \A k \in todo : meetsTicketThreshold(post[k].severity)

(* RecordedIsTold made inductive: what is in seen has been told, literally or
   in its stored form, unless it is about to be posted. *)
Heard(k, f) == \E g \in told[k] : f = g \/ f = Stored(g)

SeenHeard ==
    \A k \in Subjects : seen[k] # None =>
        Heard(k, seen[k].fp) \/ (pc = "slack" /\ k \in fresh)

ToldInv == PlainInv /\ SeenHeard /\ RecordedIsTold

(* What the two closing loops work off. *)
ClosingGone ==
    /\ pc \in {"slack", "posted"} => \A k \in cleared : post[k] = None
    /\ pc = "resolves" => \A k \in todo : post[k] = None
    /\ pc = "cleanup" => \A k \in todo : ~meetsTicketThreshold(crs[k].finding.severity)

CloseInv == PlainInv /\ ClosingGone

(* The two reasons to close a ticket.  The second is weaker than what
   ClosedOnlyWhenGone asks: the record is last cycle's. *)
ClosesForAReason ==
    \A t \in 1..Len(tickets) : Closes(t) =>
        LET s == tickets[t].subject
        IN  post[s] = None \/ ~meetsTicketThreshold(crs[s].finding.severity)

(* What the seen map and the reports hold of a subject, and what Diff leaves. *)
Held(k) == IF seen[k] = None THEN None ELSE seen[k].fp
Filed(k) == IF crs[k] = None THEN None ELSE crs[k].finding

SeenOnlyPost ==
    pc \notin {"idle", "diff"} => \A k \in Keys : post[k] = None => seen[k] = None

(* When a cycle ends, the last thing Slack heard of a subject is what the cluster
   has: the finding with its present severity and message, or nothing outstanding
   (DEMO_GUIDE 5.2: a changed severity or message posts).  A cloud subject is
   left out: between two cloud runs it is reported as resolved. *)
LastWordIsCurrent ==
    pc = "tickets" => \A s \in Subjects \ CloudSubjects : lastWord[s] = cond[s]

(* LastWordIsCurrent made inductive: between cycles the channel and the seen map
   agree; once Diff has moved seen on, the subjects where the channel lags are
   the ones about to be posted or about to be reported as resolved. *)
PostIsCond == pc # "idle" => \A s \in Subjects \ CloudSubjects : post[s] = cond[s]

WordKept ==
    /\ pc \in {"idle", "diff"} => \A k \in Keys : lastWord[k] = Held(k)
    /\ pc = "slack" => \A k \in Keys : lastWord[k] = post[k] \/ k \in fresh \cup cleared
    /\ pc \notin {"idle", "diff", "slack"} => \A k \in Keys : lastWord[k] = post[k]

ChannelInv == CloseInv /\ SeenOnlyPost /\ PostIsCond /\ WordKept

(* RestartIsQuiet made inductive: the seen map agrees with the channel or with
   the report, which a restart copies it from; a cycle ends with the state it
   found in the seen map and either in the channel or on record. *)
FiledStored == \A k \in Keys : crs[k] # None => Stored(crs[k].finding) = crs[k].finding

QuietKept ==
    /\ pc \in {"idle", "diff"} => \A k \in Keys :
          lastWord[k] = Held(k) \/ Held(k) = Filed(k)
    /\ pc = "slack" => \A k \in Keys :
          k \in fresh \cup cleared \/ lastWord[k] = post[k] \/ post[k] = Filed(k)
    /\ pc \notin {"idle", "diff", "slack"} => \A k \in Keys :
          lastWord[k] = post[k] \/ post[k] = Filed(k)

NewsIsNew ==
    pc = "slack" => \A k \in fresh : ~(lastWord[k] = post[k] /\ post[k] = Filed(k))

QuietInv == CloseInv /\ StaleKept /\ SeenOnlyPost /\ FiledStored /\ QuietKept /\ NewsIsNew
--------------------------------------------------------------------------------
LEMMA NoneApart ==
    /\ None \notin Finding /\ None \notin SeenEntry /\ None \notin Report
    /\ FixerReport \notin Subjects
BY KindAssumption

LEMMA StoredType ==
    ASSUME NEW f \in Finding
    PROVE  Stored(f) \in Finding /\ Stored(Stored(f)) = Stored(f)
BY KindAssumption DEF Stored, Finding

LEMMA FixerFindingType == FixerFinding \in Finding
<1>1. (CHOOSE m \in Messages : TRUE) \in Messages
  BY KindAssumption
<1> QED BY <1>1 DEF FixerFinding, Finding

LEMMA EntriesType ==
    ASSUME TypeOK
    PROVE  AssembleEntries \in MaybeFinding
BY FixerFindingType DEF TypeOK, AssembleEntries, MaybeFinding

(* What the patches of one report leave of its fields. *)
LEMMA StampTypes ==
    ASSUME NEW r \in Report
    PROVE  /\ DebounceOver(r) \in Report /\ DebounceOver(r).ref = r.ref
           /\ DebounceOver(r).resolved = r.resolved /\ DebounceOver(r).finding = r.finding
           /\ Aged(r) \in Report /\ Aged(r).ref = r.ref
           /\ Aged(r).resolved = r.resolved /\ Aged(r).finding = r.finding
           /\ statusPatch(r) \in Report /\ statusPatch(r).ref = r.ref
           /\ statusPatch(r).resolved = r.resolved /\ statusPatch(r).finding = r.finding
           /\ markTicketResolved(r) \in Report /\ markTicketResolved(r).ref = r.ref
           /\ markTicketResolved(r).resolved = TRUE /\ markTicketResolved(r).finding = r.finding
           /\ stampTicketComment(r) \in Report /\ stampTicketComment(r).ref = r.ref
           /\ stampTicketComment(r).resolved = FALSE /\ stampTicketComment(r).finding = r.finding
BY DEF Report, DebounceOver, Aged, statusPatch, markTicketResolved, stampTicketComment

LEMMA SpecPatchType ==
    ASSUME NEW r \in Report, NEW f, Stored(f) \in Finding
    PROVE  /\ specPatch(r, f) \in Report /\ specPatch(r, f).ref = r.ref
           /\ specPatch(r, f).resolved = r.resolved /\ specPatch(r, f).finding = Stored(f)
BY DEF Report, specPatch

LEMMA WriteRefType ==
    ASSUME NEW r \in Report, NEW n \in Nat
    PROVE  /\ writeTicketRef(r, n) \in Report /\ writeTicketRef(r, n).ref = n
           /\ writeTicketRef(r, n).resolved = FALSE /\ writeTicketRef(r, n).finding = r.finding
BY DEF Report, writeTicketRef

(* The effect of each step that changes a report or a ticket. *)
AgeEffect(k) ==
    /\ crs' \in [Keys -> Report \cup {None}]
    /\ \A j \in Keys : /\ crs[j] = None <=> crs'[j] = None
                       /\ crs[j] # None => /\ crs'[j].ref = crs[j].ref
                                            /\ crs'[j].resolved = crs[j].resolved
                                            /\ crs'[j].finding = crs[j].finding

LEMMA AgeStep ==
    ASSUME TypeInv, NEW k \in Keys, CommentIntervalElapses(k) \/ ObservationAges(k)
    PROVE  AgeEffect(k)
<1>1. crs[k] \in Report /\ crs \in [Keys -> Report \cup {None}]
  BY DEF TypeInv, TypeOK, CommentIntervalElapses, ObservationAges
<1>2. /\ DebounceOver(crs[k]) \in Report /\ DebounceOver(crs[k]).ref = crs[k].ref
      /\ DebounceOver(crs[k]).resolved = crs[k].resolved
      /\ DebounceOver(crs[k]).finding = crs[k].finding
  BY <1>1, StampTypes
<1>3. /\ Aged(crs[k]) \in Report /\ Aged(crs[k]).ref = crs[k].ref
      /\ Aged(crs[k]).resolved = crs[k].resolved
      /\ Aged(crs[k]).finding = crs[k].finding
  BY <1>1, StampTypes
<1>4. CASE CommentIntervalElapses(k)
  <2>1. crs' = [crs EXCEPT ![k] = DebounceOver(crs[k])]
    BY <1>4 DEF CommentIntervalElapses
  <2> QED BY <1>1, <1>2, <2>1, NoneApart DEF AgeEffect
<1>5. CASE ObservationAges(k)
  <2>1. crs' = [crs EXCEPT ![k] = Aged(crs[k])]
    BY <1>5 DEF ObservationAges
  <2> QED BY <1>1, <1>3, <2>1, NoneApart DEF AgeEffect
<1> QED BY <1>4, <1>5

CloseEffect(k) ==
    /\ todo' = todo \ {k} /\ faults' \in Nat
    /\ crs' \in [Keys -> Report \cup {None}] /\ tickets' \in Seq(Ticket)
    /\ Len(tickets') = Len(tickets)
    /\ \A t \in 1..Len(tickets) : /\ tickets'[t].subject = tickets[t].subject
                                  /\ tickets'[t].open => tickets[t].open
                                  /\ t # crs[k].ref => tickets'[t] = tickets[t]
    /\ \A j \in Keys : j # k => crs'[j] = crs[j]
    /\ crs'[k] # None /\ crs'[k].ref = crs[k].ref /\ crs'[k].finding = crs[k].finding
    /\ "resolve" \notin Faults => ~tickets'[crs[k].ref].open

LEMMA CloseStep ==
    ASSUME TypeInv, NEW k \in Keys, pc \in {"resolves", "cleanup"}, CloseTicket(k)
    PROVE  CloseEffect(k)
<1> DEFINE i == crs[k].ref
           e == [tickets[i] EXCEPT !.open = FALSE]
<1>1. /\ crs[k] \in Report /\ crs \in [Keys -> Report \cup {None}] /\ i # 0
      /\ tickets \in Seq(Ticket) /\ faults \in Nat
  BY DEF TypeInv, TypeOK, LoopsTyped, CloseTicket
<1>2. i \in 1..Len(tickets)
  BY <1>1, NoneApart DEF TypeInv, RefsValid
<1>3. tickets[i] \in Ticket
  BY <1>1, <1>2
<1>4. e \in Ticket /\ e.subject = tickets[i].subject /\ e.open = FALSE
  BY <1>3 DEF Ticket
<1>5. todo' = todo \ {k} /\ faults' \in Nat
  BY <1>1 DEF CloseTicket, Ok, Fails
<1>6. CASE "resolve" \in Faults /\ UNCHANGED <<crs, tickets>>
  BY <1>1, <1>5, <1>6, NoneApart DEF CloseEffect
<1>7. CASE tickets' = [tickets EXCEPT ![i] = e] /\ UNCHANGED crs
  <2>1. /\ tickets' \in Seq(Ticket) /\ Len(tickets') = Len(tickets)
        /\ \A t \in 1..Len(tickets) : tickets'[t] = IF t = i THEN e ELSE tickets[t]
    BY <1>1, <1>2, <1>4, <1>7, ExceptSeq
  <2> QED BY <1>1, <1>2, <1>4, <1>5, <1>7, <2>1, NoneApart DEF CloseEffect
<1>8. CASE /\ tickets' = [tickets EXCEPT ![i] = e]
           /\ crs' = [crs EXCEPT ![k] = markTicketResolved(crs[k])]
  <2>1. /\ tickets' \in Seq(Ticket) /\ Len(tickets') = Len(tickets)
        /\ \A t \in 1..Len(tickets) : tickets'[t] = IF t = i THEN e ELSE tickets[t]
    BY <1>1, <1>2, <1>4, <1>8, ExceptSeq
  <2>2. /\ markTicketResolved(crs[k]) \in Report
        /\ markTicketResolved(crs[k]).ref = crs[k].ref
        /\ markTicketResolved(crs[k]).finding = crs[k].finding
    BY <1>1, StampTypes
  <2> QED BY <1>1, <1>2, <1>4, <1>5, <1>8, <2>1, <2>2, NoneApart DEF CloseEffect
<1> QED BY <1>6, <1>7, <1>8 DEF CloseTicket, Fails, Ok

UpsertEffect(k) ==
    /\ todo' = todo \ {k} /\ faults' \in Nat
    /\ crs' \in [Keys -> Report \cup {None}]
    /\ \A j \in Keys : j # k => crs'[j] = crs[j]
    /\ crs[k] # None => /\ crs'[k] # None /\ crs'[k].ref = crs[k].ref
                        /\ crs'[k].resolved = crs[k].resolved
    /\ crs[k] = None => crs'[k] = None \/ crs'[k].ref = 0
    /\ \/ crs'[k] = crs[k]
       \/ crs'[k] # None /\ crs'[k].finding = Stored(AssembleEntries[k])
    /\ stale' \subseteq stale
    /\ stale \ {k} \subseteq stale'
    /\ crs[k] # None /\ "specPatch" \notin Faults => k \notin stale'

LEMMA UpsertStep ==
    ASSUME TypeInv, NEW k \in Keys, PatchReport(k) \/ CreateReport(k)
    PROVE  UpsertEffect(k)
<1>1. Stored(AssembleEntries[k]) \in Finding
  BY EntriesType, StoredType
  DEF PatchReport, CreateReport, TypeInv, LoopsTyped, MaybeFinding
<1>2. crs \in [Keys -> Report \cup {None}] /\ faults \in Nat
  BY DEF TypeInv, TypeOK
<1>3. todo' = todo \ {k} /\ faults' \in Nat
  <2>1. CASE PatchReport(k)
    <3>1. todo' = todo \ {k}
      BY <2>1 DEF PatchReport
    <3>2. Fails("specPatch") \/ Fails("statusPatch") \/ Ok
      BY <2>1, Zenon DEF PatchReport
    <3>3. faults' \in Nat
      BY <1>2, <3>2 DEF Ok, Fails
    <3> QED BY <3>1, <3>3
  <2>2. CASE CreateReport(k)
    <3>1. todo' = todo \ {k}
      BY <2>2 DEF CreateReport
    <3>2. Fails("create") \/ Fails("statusPatch") \/ Ok
      BY <2>2, Zenon DEF CreateReport
    <3>3. faults' \in Nat
      BY <1>2, <3>2 DEF Ok, Fails
    <3> QED BY <3>1, <3>3
  <2> QED BY <2>1, <2>2
<1>4. CASE UNCHANGED <<crs, stale>> /\ (crs[k] # None => "specPatch" \in Faults)
  BY <1>2, <1>3, <1>4, NoneApart DEF UpsertEffect
<1>5. CASE CreateReport(k) /\ crs' # crs
  <2>1. PICK aged \in BOOLEAN : crs' = [crs EXCEPT ![k] = NewReport(k, aged)]
    BY <1>5 DEF CreateReport
  <2>2. /\ NewReport(k, aged) \in Report /\ NewReport(k, aged).ref = 0
        /\ NewReport(k, aged).finding = Stored(AssembleEntries[k])
    BY <1>1 DEF NewReport, Report
  <2>3. crs[k] = None /\ stale' = stale
    BY <1>5 DEF CreateReport
  <2> QED BY <1>2, <1>3, <2>1, <2>2, <2>3, NoneApart DEF UpsertEffect
<1>6. CASE PatchReport(k) /\ stale' = stale \ {k}
  <2>1. crs[k] \in Report
    BY <1>2, <1>6 DEF PatchReport
  <2> DEFINE r == specPatch(crs[k], AssembleEntries[k])
  <2>2. /\ r \in Report /\ r.ref = crs[k].ref /\ r.resolved = crs[k].resolved
        /\ r.finding = Stored(AssembleEntries[k])
    BY <1>1, <2>1, SpecPatchType
  <2>3. /\ statusPatch(r) \in Report /\ statusPatch(r).ref = crs[k].ref
        /\ statusPatch(r).resolved = crs[k].resolved
        /\ statusPatch(r).finding = Stored(AssembleEntries[k])
    BY <2>2, StampTypes
  <2>4. \/ crs' = crs
        \/ crs' = [crs EXCEPT ![k] = r]
        \/ crs' = [crs EXCEPT ![k] = statusPatch(r)]
    BY <1>6 DEF PatchReport
  <2> HIDE DEF r
  <2> QED BY <1>2, <1>3, <1>6, <2>1, <2>2, <2>3, <2>4, NoneApart DEF UpsertEffect
<1> QED BY <1>4, <1>5, <1>6 DEF PatchReport, CreateReport, Fails, Ok

TicketEffect(k) ==
    /\ todo' = todo \ {k} /\ faults' \in Nat
    /\ crs' \in [Keys -> Report \cup {None}] /\ tickets' \in Seq(Ticket)
    /\ \A j \in Keys : j # k => crs'[j] = crs[j]
    /\ crs'[k] # None /\ crs'[k].finding = crs[k].finding
    /\ Len(tickets') >= Len(tickets)
    /\ \A t \in 1..Len(tickets) : tickets'[t] = tickets[t]
    /\ \/ /\ tickets' = tickets
          /\ crs'[k].ref = crs[k].ref
          /\ crs'[k].resolved => crs[k].resolved
       \/ /\ crs[k].ref = 0
          /\ Len(tickets') = Len(tickets) + 1
          /\ tickets'[Len(tickets) + 1] = [subject |-> k, open |-> TRUE]
          /\ \/ "refWrite" \in Faults /\ crs'[k] = crs[k]
             \/ crs'[k].ref = Len(tickets) + 1 /\ ~crs'[k].resolved

LEMMA TicketStep ==
    ASSUME TypeInv, NEW k \in Keys, UpsertTicket(k) \/ maybeCommentOnRecurrence(k)
    PROVE  TicketEffect(k)
<1>1. /\ crs[k] \in Report /\ crs \in [Keys -> Report \cup {None}]
      /\ tickets \in Seq(Ticket) /\ faults \in Nat
  BY DEF TypeInv, TypeOK, LoopsTyped, UpsertTicket, maybeCommentOnRecurrence
<1>2. todo' = todo \ {k} /\ faults' \in Nat
  BY <1>1 DEF UpsertTicket, maybeCommentOnRecurrence, Ok, Fails
<1>3. Len(tickets) \in Nat /\ Len(tickets) + 1 \in Nat
  BY <1>1
<1>4. CASE UNCHANGED <<crs, tickets>>
  BY <1>1, <1>2, <1>3, <1>4, NoneApart DEF TicketEffect
<1>5. CASE maybeCommentOnRecurrence(k) /\ crs' # crs
  <2>1. /\ crs' = [crs EXCEPT ![k] = stampTicketComment(crs[k])]
        /\ stampTicketComment(crs[k]) \in Report
        /\ stampTicketComment(crs[k]).ref = crs[k].ref
        /\ stampTicketComment(crs[k]).resolved = FALSE
        /\ stampTicketComment(crs[k]).finding = crs[k].finding
    BY <1>1, <1>5, StampTypes DEF maybeCommentOnRecurrence
  <2>2. tickets' = tickets
    BY <1>5 DEF maybeCommentOnRecurrence
  <2> QED BY <1>1, <1>2, <1>3, <2>1, <2>2, NoneApart DEF TicketEffect
<1>6. CASE UpsertTicket(k) /\ tickets' = Append(tickets, [subject |-> k, open |-> TRUE])
  <2>1. [subject |-> k, open |-> TRUE] \in Ticket
    BY DEF Ticket
  <2>2. /\ tickets' \in Seq(Ticket) /\ Len(tickets') = Len(tickets) + 1
        /\ \A t \in 1..Len(tickets) : tickets'[t] = tickets[t]
        /\ tickets'[Len(tickets) + 1] = [subject |-> k, open |-> TRUE]
    BY <1>1, <1>6, <2>1, AppendProperties
  <2>3. crs[k].ref = 0
    BY <1>1, <1>6, NoneApart DEF UpsertTicket, readTicketRef
  <2>4. CASE "refWrite" \in Faults /\ crs' = crs
    BY <1>1, <1>2, <1>3, <2>2, <2>3, <2>4, NoneApart DEF TicketEffect
  <2>5. CASE crs' = [crs EXCEPT ![k] = writeTicketRef(crs[k], Len(tickets) + 1)]
    <3> DEFINE r == writeTicketRef(crs[k], Len(tickets) + 1)
    <3>1. /\ r \in Report /\ r.ref = Len(tickets) + 1 /\ r.resolved = FALSE
          /\ r.finding = crs[k].finding
      BY <1>1, <1>3, WriteRefType, Zenon
    <3> HIDE DEF r
    <3> QED BY <1>1, <1>2, <1>3, <2>2, <2>3, <2>5, <3>1, NoneApart DEF TicketEffect, r
  <2> QED BY <1>6, <2>4, <2>5 DEF UpsertTicket, Fails, Ok
<1> QED BY <1>4, <1>5, <1>6 DEF UpsertTicket, maybeCommentOnRecurrence, Ok, Fails

LEMMA TypeInit == Init => TypeInv
BY DEF Init, TypeInv, TypeOK, LoopsTyped, RefsValid, MaybeFinding, NoFindings, Phases

LEMMA TypeStep == TypeInv /\ [Next]_vars => TypeInv'
<1> SUFFICES ASSUME TypeInv, [Next]_vars PROVE TypeInv'
  OBVIOUS
<1> USE DEF TypeInv, Phases, cycle, slack
<1>1. CASE UNCHANGED vars
  BY <1>1 DEF vars, TypeOK, LoopsTyped, RefsValid, diffState, hasActions, AssembleEntries
<1>2. CASE \E s \in Subjects, f \in [severity : Severities, message : Messages] \cup {None} :
              ClusterChange(s, f)
  <2>1. PICK s \in Subjects, f \in [severity : Severities, message : Messages] \cup {None} :
              ClusterChange(s, f)
    BY <1>2
  <2>2. f \in Finding \cup {None} /\ s \in Keys
    BY DEF Finding, Keys
  <2>3. TypeOK'
    BY <2>1, <2>2 DEF ClusterChange, TypeOK, MaybeFinding
  <2>4. LoopsTyped'
    BY <2>1 DEF ClusterChange, LoopsTyped
  <2> QED BY <2>1, <2>3, <2>4 DEF ClusterChange, RefsValid
<1>3. CASE Restart
  <2>1. loadSeenFromDriftReports \in [Keys -> SeenEntry \cup {None}]
    BY DEF TypeOK, loadSeenFromDriftReports, SeenEntry, Report
  <2>2. NoFindings \in MaybeFinding /\ NoFindings \in [Keys -> SeenEntry \cup {None}]
    BY DEF NoFindings, MaybeFinding
  <2>3. TypeOK'
    BY <1>3, <2>1, <2>2 DEF Restart, TypeOK
  <2> QED BY <1>3, <2>3 DEF Restart, LoopsTyped, RefsValid
<1>4. CASE CloudCadenceElapses
  BY <1>4 DEF CloudCadenceElapses, TypeOK, LoopsTyped, RefsValid
<1>5. ASSUME NEW k \in Keys, RepeatIntervalElapses(k) PROVE TypeInv'
  <2>1. seen' \in [Keys -> SeenEntry \cup {None}]
    BY <1>5 DEF RepeatIntervalElapses, TypeOK, SeenEntry
  <2> QED BY <1>5, <2>1 DEF RepeatIntervalElapses, TypeOK, LoopsTyped, RefsValid
<1>6. ASSUME NEW k \in Keys, CommentIntervalElapses(k) \/ ObservationAges(k) PROVE TypeInv'
  <2>1. AgeEffect(k)
    BY <1>6, AgeStep
  <2>2. pc = "idle" /\ UNCHANGED <<cond, cloudDue, pc, cycle, todo, stale, seen, tickets, slack, faults>>
    BY <1>6 DEF CommentIntervalElapses, ObservationAges
  <2> QED BY <2>1, <2>2 DEF AgeEffect, TypeOK, LoopsTyped, RefsValid
<1>7. CASE runDiagnose
  <2>1. pre' \in MaybeFinding
    BY <1>7 DEF runDiagnose, TypeOK, MaybeFinding
  <2> QED BY <1>7, <2>1 DEF runDiagnose, TypeOK, LoopsTyped, RefsValid
<1>8. ASSUME NEW acted, NEW healed, NEW log \in {"none", "skipped", "acted"},
             RunFixers(acted, healed, log)
      PROVE  TypeInv'
  <2>1. cond' \in MaybeFinding
    BY <1>8 DEF RunFixers, TypeOK, MaybeFinding
  <2> QED BY <1>8, <2>1 DEF RunFixers, TypeOK, LoopsTyped, RefsValid
<1>9. CASE ReDiagnose
  <2>1. post' \in MaybeFinding
    BY <1>9 DEF ReDiagnose, TypeOK, MaybeFinding
  <2> QED BY <1>9, <2>1 DEF ReDiagnose, TypeOK, LoopsTyped, RefsValid
<1>10. CASE Diff
  <2>1. seen' \in [Keys -> SeenEntry \cup {None}]
    BY <1>10 DEF Diff, TypeOK, updateSeen, MaybeFinding, SeenEntry
  <2>2. posting' \subseteq Keys /\ cleared' \subseteq Keys
    BY <1>10 DEF Diff, toPost, clearedSubjects
  <2>3. LoopsTyped'
    BY <1>10 DEF Diff, LoopsTyped, toPost, diffState, hasActions
  <2> QED BY <1>10, <2>1, <2>2, <2>3 DEF Diff, TypeOK, RefsValid
<1>11. CASE RouteAndPost
  <2>1. PICK delivered : PostSlack(delivered) /\ faults' \in {faults, faults + 1}
    BY <1>11 DEF RouteAndPost, Ok, Fails
  <2>2. \A k \in posting : diffState[k] \in Finding
    BY <2>1 DEF PostSlack, TypeOK, LoopsTyped, RefsValid, MaybeFinding, diffState
  <2>3. rendered \subseteq posting /\ fixedIssues \subseteq posting
    BY DEF rendered, unfixable, fixedIssues
  <2>4. told' \in [Keys -> SUBSET Finding]
    BY <2>1, <2>2, <2>3 DEF PostSlack, TypeOK
  <2>5. lastWord' \in MaybeFinding
    BY <2>1, <2>2, <2>3 DEF PostSlack, TypeOK, MaybeFinding
  <2> QED BY <2>1, <2>4, <2>5 DEF PostSlack, TypeOK, LoopsTyped, RefsValid
<1>12. CASE RouteResolves
  <2>1. todo' \subseteq Keys /\ \A k \in todo' : crs[k] # None /\ crs[k].ref # 0
    BY <1>12 DEF RouteResolves, resolvable, readTicketRef, TypeOK
  <2> QED BY <1>12, <2>1 DEF RouteResolves, TypeOK, LoopsTyped, RefsValid, Ok, Fails
<1>13. CASE RouteTicketCleanup
  <2>1. todo' \subseteq Keys /\ \A k \in todo' : crs[k] # None /\ crs[k].ref # 0
    BY <1>13 DEF RouteTicketCleanup, belowFloor, readTicketRef
  <2> QED BY <1>13, <2>1 DEF RouteTicketCleanup, TypeOK, LoopsTyped, RefsValid, Ok, Fails
<1>14. ASSUME NEW k \in Keys, ResolveTicket(k) \/ CleanupTicket(k) PROVE TypeInv'
  <2>1. /\ CloseTicket(k) /\ pc \in {"resolves", "cleanup"}
        /\ UNCHANGED <<cond, cloudDue, pc, cycle, stale, seen, slack>>
    BY <1>14 DEF ResolveTicket, CleanupTicket
  <2>2. CloseEffect(k)
    BY <2>1, CloseStep
  <2>3. TypeOK'
    BY <2>1, <2>2 DEF CloseEffect, TypeOK
  <2>4. LoopsTyped'
    BY <2>1, <2>2 DEF CloseEffect, LoopsTyped, TypeOK
  <2>5. RefsValid'
    <3>1. crs[k] # None
      BY <2>1 DEF CloseTicket, LoopsTyped
    <3>2. ASSUME NEW j \in Keys, crs'[j] # None, crs'[j].ref # 0
          PROVE  crs[j] # None /\ crs'[j].ref = crs[j].ref
      BY <2>2, <3>1, <3>2 DEF CloseEffect
    <3> QED BY <2>2, <3>2 DEF CloseEffect, RefsValid
  <2> QED BY <2>3, <2>4, <2>5
<1>15. CASE Reconcile
  <2>1. /\ todo' \subseteq Keys /\ stale' \subseteq Keys
        /\ \A k \in todo' : AssembleEntries[k] # None
    BY <1>15 DEF Reconcile, TypeOK
  <2>2. AssembleEntries' = AssembleEntries
    BY <1>15 DEF Reconcile, AssembleEntries
  <2> QED BY <1>15, <2>1, <2>2 DEF Reconcile, TypeOK, LoopsTyped, RefsValid, Ok, Fails
<1>16. ASSUME NEW k \in Keys, PatchReport(k) \/ CreateReport(k) PROVE TypeInv'
  <2>1. UpsertEffect(k)
    BY <1>16, UpsertStep
  <2>2. pc = "upsert" /\ UNCHANGED <<cond, cloudDue, pc, cycle, seen, tickets, slack>>
    BY <1>16 DEF PatchReport, CreateReport
  <2>3. AssembleEntries' = AssembleEntries
    BY <2>2 DEF AssembleEntries
  <2>4. TypeOK'
    BY <2>1, <2>2 DEF UpsertEffect, TypeOK
  <2>5. LoopsTyped'
    BY <2>1, <2>2, <2>3 DEF UpsertEffect, LoopsTyped
  <2>6. RefsValid'
    BY <2>1, <2>2 DEF UpsertEffect, RefsValid
  <2> QED BY <2>4, <2>5, <2>6
<1>17. CASE UpsertsDone
  BY <1>17 DEF UpsertsDone, TypeOK, LoopsTyped, RefsValid
<1>18. ASSUME NEW k \in Keys, DeleteReport(k) PROVE TypeInv'
  BY <1>18 DEF DeleteReport, TypeOK, LoopsTyped, RefsValid, Ok, Fails
<1>19. CASE RouteTickets
  <2>1. todo' \subseteq Keys /\ \A k \in todo' : crs[k] # None
    BY <1>19 DEF RouteTickets, ticketable, unfixable, TypeOK
  <2> QED BY <1>19, <2>1 DEF RouteTickets, TypeOK, LoopsTyped, RefsValid, Ok, Fails
<1>20. ASSUME NEW k \in Keys, UpsertTicket(k) \/ maybeCommentOnRecurrence(k) PROVE TypeInv'
  <2>1. TicketEffect(k)
    BY <1>20, TicketStep
  <2>2. pc = "tickets" /\ UNCHANGED <<cond, cloudDue, pc, cycle, stale, seen, slack>>
    BY <1>20 DEF UpsertTicket, maybeCommentOnRecurrence
  <2>3. TypeOK'
    BY <2>1, <2>2 DEF TicketEffect, TypeOK
  <2>4. LoopsTyped'
    BY <2>1, <2>2 DEF TicketEffect, LoopsTyped, TypeOK
  <2>5. RefsValid'
    <3>1. Len(tickets) \in Nat /\ crs[k] # None
      BY <1>20 DEF TypeOK, UpsertTicket, maybeCommentOnRecurrence, LoopsTyped
    <3>2. ASSUME NEW j \in Keys, crs'[j] # None, crs'[j].ref # 0, j # k
          PROVE  /\ crs'[j].ref \in 1..Len(tickets')
                 /\ tickets'[crs'[j].ref].subject = j
      BY <2>1, <3>1, <3>2 DEF TicketEffect, RefsValid
    <3>3. ASSUME crs'[k].ref # 0
          PROVE  /\ crs'[k].ref \in 1..Len(tickets')
                 /\ tickets'[crs'[k].ref].subject = k
      BY <2>1, <3>1, <3>3 DEF TicketEffect, RefsValid
    <3> QED BY <3>2, <3>3 DEF RefsValid
  <2> QED BY <2>3, <2>4, <2>5
<1>22. CASE CycleDone
  BY <1>22 DEF CycleDone, TypeOK, LoopsTyped, RefsValid, NoFindings, MaybeFinding
<1> QED
  BY <1>1, <1>2, <1>3, <1>4, <1>5, <1>6, <1>7, <1>8, <1>9, <1>10, <1>11, <1>12,
     <1>13, <1>14, <1>15, <1>16, <1>17, <1>18, <1>19, <1>20, <1>22
  DEF Next, Environment, TimePasses, runCycle

(* The state keeps its shape in every behaviour, remediation, failures and
   restarts included: no loop of runCycle reads a map entry that is absent. *)
THEOREM TypeCorrect == Spec => []TypeOK
<1>1. TypeInv => TypeOK
  BY DEF TypeInv
<1> QED BY <1>1, TypeInit, TypeStep, PTL DEF Spec
--------------------------------------------------------------------------------
(* Reconcile's sweep. *)
LEMMA SweepInit == Init => SweepInv
BY TypeInit DEF Init, SweepInv, StaleKept

LEMMA SweepStep ==
    ASSUME "specPatch" \notin Faults, SweepInv, [Next]_vars
    PROVE  SweepInv'
<1>1. TypeInv /\ StaleKept /\ TypeInv'
  BY TypeStep DEF SweepInv
<1> SUFFICES StaleKept'
  BY <1>1 DEF SweepInv
<1> USE DEF cycle, slack
<1>2. CASE UNCHANGED vars
  BY <1>1, <1>2 DEF vars, StaleKept, AssembleEntries
<1>3. CASE Restart
  BY <1>3 DEF Restart, StaleKept
<1>4. CASE Reconcile
  <2>1. pc = "cleanup" /\ pc' = "upsert" /\ UNCHANGED <<crs, cycle>>
    BY <1>4 DEF Reconcile
  <2>2. AssembleEntries' = AssembleEntries
    BY <2>1 DEF AssembleEntries
  <2>3. \/ /\ todo' = {k \in Keys : AssembleEntries[k] # None}
           /\ stale' = {k \in Keys : crs[k] # None}
        \/ stale' = {}
    BY <1>1, <1>4, <2>1 DEF Reconcile, StaleKept
  <2> QED BY <2>1, <2>2, <2>3 DEF StaleKept
<1>5. ASSUME NEW k \in Keys, PatchReport(k) \/ CreateReport(k) PROVE StaleKept'
  <2>1. UpsertEffect(k)
    BY <1>1, <1>5, UpsertStep
  <2>2. pc = "upsert" /\ UNCHANGED <<pc, cycle>>
    BY <1>5 DEF PatchReport, CreateReport
  <2>3. AssembleEntries' = AssembleEntries
    BY <2>2 DEF AssembleEntries
  <2>4. ASSUME NEW j \in stale' PROVE j \in stale /\ j # k /\ j \in Keys /\ crs'[j] = crs[j]
    BY <1>1, <2>1, <2>4 DEF UpsertEffect, StaleKept, TypeInv, TypeOK
  <2> QED BY <1>1, <2>1, <2>2, <2>3, <2>4 DEF UpsertEffect, StaleKept
<1>6. CASE UpsertsDone
  BY <1>1, <1>6 DEF UpsertsDone, StaleKept, AssembleEntries
<1>7. ASSUME NEW k \in Keys, DeleteReport(k) PROVE StaleKept'
  <2>1. pc = "sweep" /\ stale' = stale \ {k} /\ UNCHANGED <<pc, cycle>>
    BY <1>7 DEF DeleteReport
  <2>2. AssembleEntries' = AssembleEntries
    BY <2>1 DEF AssembleEntries
  <2>3. \A j \in Keys : j # k => crs'[j] = crs[j]
    BY <1>1, <1>7 DEF DeleteReport, TypeInv, TypeOK
  <2> QED BY <1>1, <2>1, <2>2, <2>3 DEF StaleKept, TypeInv, TypeOK
<1>8. CASE RouteTickets
  BY <1>1, <1>8 DEF RouteTickets, StaleKept
<1>9. CASE pc \notin {"upsert", "sweep"} /\ pc' \notin {"upsert", "sweep"} /\ stale' = stale
  BY <1>1, <1>9 DEF StaleKept
<1> QED
  BY <1>2, <1>3, <1>4, <1>5, <1>6, <1>7, <1>8, <1>9
  DEF Next, Environment, TimePasses, runCycle, ClusterChange, CloudCadenceElapses,
      RepeatIntervalElapses, CommentIntervalElapses, ObservationAges, runDiagnose, RunFixers,
      ReDiagnose, Diff, RouteAndPost, PostSlack, RouteResolves, ResolveTicket,
      RouteTicketCleanup, CleanupTicket, UpsertTicket, maybeCommentOnRecurrence, CycleDone
--------------------------------------------------------------------------------
(* Cycles without fixers. *)
LEMMA PlainInit == Init => PlainInv
BY TypeInit
DEF Init, PlainInv, NoFixers, FixerReportAbsent, SeenIsPost, TodoKept, NoFindings, Keys

(* Without fixers a cycle persists exactly what it diagnosed. *)
LEMMA EntriesArePost ==
    ASSUME PlainInv
    PROVE  AssembleEntries = post /\ diffState = post
BY DEF PlainInv, TypeInv, TypeOK, MaybeFinding, NoFixers, FixerReportAbsent,
       AssembleEntries, diffState, hasActions, Keys

LEMMA LoadedSeen ==
    ASSUME TypeInv, NEW k \in Keys, crs[k] # None
    PROVE  /\ loadSeenFromDriftReports[k] # None
           /\ loadSeenFromDriftReports[k].fp = crs[k].finding
<1>1. loadSeenFromDriftReports[k] = [fp |-> crs[k].finding, due |-> crs[k].aged]
  BY DEF loadSeenFromDriftReports
<1>2. crs[k] \in Report
  BY DEF TypeInv, TypeOK
<1>3. loadSeenFromDriftReports[k] \in SeenEntry
  BY <1>1, <1>2 DEF SeenEntry, Report
<1> QED BY <1>1, <1>3, NoneApart

LEMMA UpdatedSeen ==
    ASSUME TypeInv, NEW k \in Keys, post[k] # None
    PROVE  updateSeen[k] # None /\ updateSeen[k].fp = post[k]
<1>1. PICK b : updateSeen[k] = [fp |-> post[k], due |-> b]
  BY DEF updateSeen
<1>2. b \in BOOLEAN
  BY <1>1 DEF updateSeen, TypeInv, TypeOK, SeenEntry
<1>3. updateSeen[k] \in SeenEntry
  BY <1>1, <1>2 DEF SeenEntry, TypeInv, TypeOK, MaybeFinding
<1> QED BY <1>1, <1>3, NoneApart

LEMMA DueSeen ==
    ASSUME TypeInv, NEW k \in Keys, RepeatIntervalElapses(k), NEW j \in Keys, seen[j] # None
    PROVE  seen'[j] # None /\ seen'[j].fp = seen[j].fp
<1>1. seen \in [Keys -> SeenEntry \cup {None}] /\ seen[j] \in SeenEntry
  BY DEF TypeInv, TypeOK
<1>2. seen'[j] \in SeenEntry /\ seen'[j].fp = seen[j].fp
  BY <1>1 DEF RepeatIntervalElapses, SeenEntry
<1> QED BY <1>2, NoneApart

LEMMA PlainStep ==
    ASSUME ~RunRemediation, PlainInv, [Next]_vars
    PROVE  PlainInv'
<1>1. TypeInv /\ NoFixers /\ FixerReportAbsent /\ SeenIsPost /\ TodoKept /\ TypeInv'
  BY TypeStep DEF PlainInv
<1>2. AssembleEntries = post /\ diffState = post
  BY EntriesArePost
<1> SUFFICES NoFixers' /\ FixerReportAbsent' /\ SeenIsPost' /\ TodoKept'
  BY <1>1 DEF PlainInv
<1> DEFINE Goal == NoFixers' /\ FixerReportAbsent' /\ SeenIsPost' /\ TodoKept'
<1> USE DEF cycle, slack
<1>3. CASE UNCHANGED vars
  BY <1>1, <1>3 DEF vars, NoFixers, FixerReportAbsent, SeenIsPost, TodoKept
<1>4. ASSUME NEW s \in Subjects, NEW f, ClusterChange(s, f) PROVE Goal
  <2>1. FixerReportAbsent'
    BY <1>1, <1>4, NoneApart
    DEF ClusterChange, FixerReportAbsent, Keys, TypeInv, TypeOK, MaybeFinding
  <2> QED BY <1>1, <1>4, <2>1 DEF ClusterChange, NoFixers, SeenIsPost, TodoKept
<1>5. CASE Restart
  BY <1>1, <1>5 DEF Restart, NoFixers, FixerReportAbsent, SeenIsPost, TodoKept, NoFindings, Keys
<1>6. CASE /\ pc' = pc /\ pc \in {"idle", "resolves", "cleanup", "sweep"}
           /\ UNCHANGED <<cond, cycle>> /\ (seen' = seen \/ pc = "idle")
  BY <1>1, <1>6 DEF NoFixers, FixerReportAbsent, SeenIsPost, TodoKept
<1>7. CASE runDiagnose
  <2>1. post'[FixerReport] = None
    BY <1>1, <1>7 DEF runDiagnose, FixerReportAbsent, Keys
  <2> QED BY <1>1, <1>7, <2>1 DEF runDiagnose, NoFixers, FixerReportAbsent, SeenIsPost, TodoKept
<1>8. ~(\E acted, healed, log : RunFixers(acted, healed, log)) /\ ~ReDiagnose
  BY <1>1 DEF NoFixers, RunFixers, ReDiagnose
<1>9. CASE Diff
  <2>1. SeenIsPost'
    BY <1>1, <1>9, UpdatedSeen DEF Diff, SeenIsPost
  <2> QED BY <1>1, <1>9, <2>1 DEF Diff, NoFixers, FixerReportAbsent, TodoKept
<1>10. CASE RouteAndPost \/ RouteResolves \/ RouteTicketCleanup \/ UpsertsDone
  BY <1>1, <1>10
  DEF RouteAndPost, PostSlack, RouteResolves, RouteTicketCleanup, UpsertsDone,
      NoFixers, FixerReportAbsent, SeenIsPost, TodoKept
<1>11. CASE Reconcile
  <2>1. \A k \in todo' : post[k] # None
    BY <1>1, <1>2, <1>11 DEF Reconcile
  <2> QED BY <1>1, <1>11, <2>1 DEF Reconcile, NoFixers, FixerReportAbsent, SeenIsPost, TodoKept
<1>12. CASE RouteTickets
  <2>1. \A k \in todo' : post[k] # None
    BY <1>12 DEF RouteTickets, ticketable, unfixable
  <2> QED BY <1>1, <1>12, <2>1 DEF RouteTickets, NoFixers, FixerReportAbsent, SeenIsPost, TodoKept
<1>13. CASE todo' \subseteq todo /\ UNCHANGED <<cond, pc, cycle, seen>>
  BY <1>1, <1>13 DEF NoFixers, FixerReportAbsent, SeenIsPost, TodoKept
<1>14. ASSUME NEW k \in Keys,
              \/ PatchReport(k) \/ CreateReport(k) \/ UpsertTicket(k)
              \/ maybeCommentOnRecurrence(k)
       PROVE  Goal
  <2>1. todo' \subseteq todo /\ UNCHANGED <<cond, pc, cycle, seen>>
    BY <1>14 DEF PatchReport, CreateReport, UpsertTicket, maybeCommentOnRecurrence
  <2> QED BY <1>13, <2>1
<1>15. CASE CycleDone
  BY <1>1, <1>15 DEF CycleDone, NoFixers, FixerReportAbsent, SeenIsPost, TodoKept, NoFindings, Keys
<1>16. ASSUME NEW k \in Keys,
              \/ CloudCadenceElapses \/ RepeatIntervalElapses(k) \/ CommentIntervalElapses(k)
              \/ ObservationAges(k) \/ ResolveTicket(k) \/ CleanupTicket(k) \/ DeleteReport(k)
       PROVE  Goal
  BY <1>6, <1>16
  DEF CloudCadenceElapses, RepeatIntervalElapses, CommentIntervalElapses, ObservationAges,
      ResolveTicket, CleanupTicket, DeleteReport
<1>17. FixerReport \in Keys
  BY DEF Keys
<1> QED
  BY <1>3, <1>4, <1>5, <1>7, <1>8, <1>9, <1>10, <1>11, <1>12, <1>14, <1>15, <1>16, <1>17
  DEF Next, Environment, TimePasses, runCycle
--------------------------------------------------------------------------------
(* The ticket ledger. *)
LedgerConfig == ~RunRemediation /\ ResolveOnClear /\ Faults \cap LedgerFaults = {}

LEMMA LedgerInit == Init => LedgerInv
<1>1. Init => tickets = <<>>
  BY DEF Init
<1>2. Init => OpenBacked
  BY <1>1 DEF OpenBacked
<1> QED BY <1>2, PlainInit, SweepInit DEF LedgerInv, SweepInv

(* The ticket of a report is the only one of its subject that can be open. *)
LEMMA OpenIsRef ==
    ASSUME TypeInv, OpenBacked, NEW t \in 1..Len(tickets), tickets[t].open
    PROVE  /\ tickets[t].subject \in Keys
           /\ crs[tickets[t].subject] # None
           /\ crs[tickets[t].subject].ref = t
           /\ ~crs[tickets[t].subject].resolved
<1>1. tickets[t] \in Ticket
  BY DEF TypeInv, TypeOK
<1> QED BY <1>1 DEF OpenBacked, Backed, Ticket

LEMMA LedgerStep ==
    ASSUME LedgerConfig, LedgerInv, [Next]_vars
    PROVE  LedgerInv'
<1>1. /\ ~RunRemediation /\ ResolveOnClear /\ "loadList" \notin Faults
      /\ "resolvesList" \notin Faults /\ "specPatch" \notin Faults
      /\ "refWrite" \notin Faults /\ "resolve" \notin Faults
  BY DEF LedgerConfig, LedgerFaults
<1>2. PlainInv /\ TypeInv /\ SeenIsPost /\ TodoKept /\ StaleKept /\ OpenBacked
  BY DEF LedgerInv, PlainInv
<1>3. PlainInv' /\ StaleKept'
  BY <1>1, <1>2, PlainStep, SweepStep DEF SweepInv
<1>4. AssembleEntries = post /\ diffState = post
  BY <1>2, EntriesArePost
<1>5. \A t \in 1..Len(tickets) : tickets[t].subject \in Keys
  <2>1. \A t \in 1..Len(tickets) : tickets[t] \in Ticket
    BY <1>2 DEF TypeInv, TypeOK
  <2> QED BY <2>1 DEF Ticket
<1> SUFFICES OpenBacked'
  BY <1>3 DEF LedgerInv
<1> USE DEF cycle, slack
<1>6. CASE UNCHANGED vars
  BY <1>2, <1>6 DEF vars, OpenBacked, Backed
<1>7. CASE Restart
  <2>1. pc' = "idle" /\ seen' = loadSeenFromDriftReports /\ UNCHANGED <<crs, tickets>>
    BY <1>1, <1>7 DEF Restart
  <2> QED BY <1>2, <1>5, <2>1, LoadedSeen DEF OpenBacked, Backed
<1>8. ASSUME NEW k \in Keys, RepeatIntervalElapses(k) PROVE OpenBacked'
  <2>1. pc = "idle" /\ UNCHANGED <<pc, cycle, todo, crs, tickets>>
    BY <1>8 DEF RepeatIntervalElapses
  <2>2. \A j \in Keys : seen[j] # None => seen'[j] # None
    BY <1>2, <1>8, DueSeen
  <2> QED BY <1>2, <1>5, <2>1, <2>2 DEF OpenBacked, Backed
<1>9. ASSUME NEW k \in Keys, CommentIntervalElapses(k) \/ ObservationAges(k) PROVE OpenBacked'
  <2>1. AgeEffect(k)
    BY <1>2, <1>9, AgeStep
  <2>2. pc = "idle" /\ UNCHANGED <<pc, cycle, todo, seen, tickets>>
    BY <1>9 DEF CommentIntervalElapses, ObservationAges
  <2> QED BY <1>2, <1>5, <2>1, <2>2 DEF AgeEffect, OpenBacked, Backed
<1>10. CASE runDiagnose
  <2>1. pc = "idle" /\ pc' = "diff" /\ UNCHANGED <<seen, crs, tickets>>
    BY <1>1, <1>10 DEF runDiagnose
  <2> QED BY <1>2, <2>1 DEF OpenBacked, Backed
<1>11. CASE Diff
  <2>1. pc = "diff" /\ pc' = "slack" /\ UNCHANGED <<post, crs, tickets>>
    BY <1>11 DEF Diff
  <2>2. \A k \in Keys : seen[k] # None => post[k] # None \/ k \in cleared'
    BY <1>4, <1>11 DEF Diff, clearedSubjects
  <2> QED BY <1>2, <1>5, <2>1, <2>2 DEF OpenBacked, Backed
<1>12. CASE RouteAndPost
  <2>1. pc = "slack" /\ pc' = "posted" /\ UNCHANGED <<cycle, crs, tickets>>
    BY <1>12 DEF RouteAndPost, PostSlack
  <2> QED BY <1>2, <2>1 DEF OpenBacked, Backed
<1>13. CASE RouteResolves
  <2>1. /\ pc = "posted" /\ pc' = "resolves" /\ todo' = resolvable
        /\ UNCHANGED <<cycle, crs, tickets>>
    BY <1>1, <1>13 DEF RouteResolves, Fails
  <2>2. ASSUME NEW t \in 1..Len(tickets), tickets[t].open PROVE Backed(t)'
    <3> DEFINE k == tickets[t].subject
    <3>1. crs[k] # None /\ crs[k].ref = t /\ ~crs[k].resolved
      BY <1>2, <2>2, OpenIsRef
    <3>2. post[k] # None \/ k \in cleared
      BY <1>2, <2>1, <2>2 DEF OpenBacked, Backed
    <3>3. k \in cleared => k \in todo'
      BY <2>1, <3>1 DEF resolvable, readTicketRef
    <3> QED BY <2>1, <3>1, <3>2, <3>3 DEF Backed
  <2> QED BY <2>1, <2>2 DEF OpenBacked
<1>14. CASE RouteTicketCleanup
  <2>1. /\ pc = "resolves" /\ todo = {} /\ pc' = "cleanup" /\ UNCHANGED <<cycle, crs, tickets>>
    BY <1>14 DEF RouteTicketCleanup
  <2> QED BY <1>2, <2>1 DEF OpenBacked, Backed
<1>15. ASSUME NEW k \in Keys, ResolveTicket(k) \/ CleanupTicket(k) PROVE OpenBacked'
  <2>1. /\ CloseTicket(k) /\ pc \in {"resolves", "cleanup"} /\ UNCHANGED <<pc, cycle, seen>>
    BY <1>15 DEF ResolveTicket, CleanupTicket
  <2>2. CloseEffect(k)
    BY <1>2, <2>1, CloseStep
  <2>3. ASSUME NEW t \in 1..Len(tickets'), tickets'[t].open PROVE Backed(t)'
    <3> DEFINE j == tickets[t].subject
    <3>1. t \in 1..Len(tickets) /\ tickets[t].open /\ tickets'[t].subject = j
      BY <2>2, <2>3 DEF CloseEffect
    <3>2. Backed(t) /\ j \in Keys /\ crs[j].ref = t
      BY <1>2, <3>1, OpenIsRef DEF OpenBacked
    <3>3. j # k
      BY <1>1, <2>2, <2>3, <3>2 DEF CloseEffect
    <3>4. crs'[j] = crs[j] /\ todo' = todo \ {k}
      BY <2>2, <3>2, <3>3 DEF CloseEffect
    <3> QED BY <2>1, <3>1, <3>2, <3>3, <3>4 DEF Backed
  <2> QED BY <2>3 DEF OpenBacked
<1>16. CASE Reconcile
  <2>1. pc = "cleanup" /\ pc' = "upsert" /\ UNCHANGED <<cycle, crs, tickets>>
    BY <1>16 DEF Reconcile
  <2> QED BY <1>2, <2>1 DEF OpenBacked, Backed
<1>17. ASSUME NEW k \in Keys, PatchReport(k) \/ CreateReport(k) PROVE OpenBacked'
  <2>1. UpsertEffect(k)
    BY <1>2, <1>17, UpsertStep
  <2>2. pc = "upsert" /\ UNCHANGED <<pc, cycle, tickets>>
    BY <1>17 DEF PatchReport, CreateReport
  <2> QED BY <1>2, <1>5, <2>1, <2>2 DEF UpsertEffect, OpenBacked, Backed
<1>18. CASE UpsertsDone
  BY <1>2, <1>18 DEF UpsertsDone, OpenBacked, Backed
<1>19. ASSUME NEW k \in Keys, DeleteReport(k) PROVE OpenBacked'
  <2>1. pc = "sweep" /\ k \in stale /\ UNCHANGED <<pc, cycle, tickets>>
    BY <1>19 DEF DeleteReport
  <2>2. \A j \in Keys : j # k => crs'[j] = crs[j]
    BY <1>2, <1>19 DEF DeleteReport, TypeInv, TypeOK
  <2>3. post[k] = None
    BY <1>2, <1>4, <2>1 DEF StaleKept
  <2> QED BY <1>2, <1>5, <2>1, <2>2, <2>3 DEF OpenBacked, Backed
<1>20. CASE RouteTickets
  <2>1. pc = "sweep" /\ pc' = "tickets" /\ UNCHANGED <<cycle, crs, tickets>>
    BY <1>20 DEF RouteTickets
  <2> QED BY <1>2, <2>1 DEF OpenBacked, Backed
<1>21. ASSUME NEW k \in Keys, UpsertTicket(k) \/ maybeCommentOnRecurrence(k) PROVE OpenBacked'
  <2>1. TicketEffect(k)
    BY <1>2, <1>21, TicketStep
  <2>2. pc = "tickets" /\ k \in todo /\ UNCHANGED <<pc, cycle>>
    BY <1>21 DEF UpsertTicket, maybeCommentOnRecurrence
  <2>3. post[k] # None /\ Len(tickets) \in Nat
    BY <1>2, <2>2 DEF TodoKept, TypeInv, TypeOK
  <2>4. ASSUME NEW t \in 1..Len(tickets), tickets'[t].open PROVE Backed(t)'
    <3> DEFINE j == tickets[t].subject
    <3>1. tickets'[t] = tickets[t] /\ tickets[t].open
      BY <2>1, <2>4 DEF TicketEffect
    <3>2. Backed(t) /\ j \in Keys /\ crs[j] # None /\ crs[j].ref = t /\ t # 0
      BY <1>2, <3>1, OpenIsRef DEF OpenBacked
    <3>3. crs'[j] # None /\ crs'[j].ref = t /\ ~crs'[j].resolved
      BY <2>1, <3>2 DEF TicketEffect, Backed
    <3> QED BY <2>2, <3>1, <3>2, <3>3 DEF Backed
  <2>5. ASSUME NEW t \in 1..Len(tickets'), t \notin 1..Len(tickets) PROVE Backed(t)'
    <3>1. /\ t = Len(tickets) + 1 /\ tickets'[t].subject = k
          /\ crs'[k] # None /\ crs'[k].ref = t /\ ~crs'[k].resolved
      BY <1>1, <2>1, <2>3, <2>5 DEF TicketEffect
    <3> QED BY <2>2, <2>3, <3>1 DEF Backed
  <2> QED BY <2>4, <2>5 DEF OpenBacked
<1>22. CASE CycleDone
  <2>1. pc = "tickets" /\ pc' = "idle" /\ UNCHANGED <<seen, crs, tickets>>
    BY <1>22 DEF CycleDone
  <2> QED BY <1>2, <1>5, <2>1 DEF OpenBacked, Backed, SeenIsPost
<1>23. ASSUME NEW s, NEW f, ClusterChange(s, f) \/ CloudCadenceElapses PROVE OpenBacked'
  BY <1>2, <1>23 DEF ClusterChange, CloudCadenceElapses, OpenBacked, Backed
<1>24. ~(\E acted, healed, log : RunFixers(acted, healed, log)) /\ ~ReDiagnose
  BY <1>2 DEF PlainInv, NoFixers, RunFixers, ReDiagnose
<1> QED
  BY <1>6, <1>7, <1>8, <1>9, <1>10, <1>11, <1>12, <1>13, <1>14, <1>15, <1>16, <1>17,
     <1>18, <1>19, <1>20, <1>21, <1>22, <1>23, <1>24
  DEF Next, Environment, TimePasses, runCycle

(* While fixers do not run, tickets are resolved on clear, and none of the five
   calls in LedgerFaults fails, every open ticket stays linked from the report
   of its subject: whatever else fails, and wherever the process is restarted. *)
THEOREM LedgerSafe == ASSUME LedgerConfig PROVE Spec => []NoOrphanTicket
<1>1. LedgerInv /\ [Next]_vars => LedgerInv'
  BY LedgerStep
<1>2. LedgerInv => NoOrphanTicket
  BY DEF LedgerInv, OpenBacked, Backed, NoOrphanTicket
<1> QED BY <1>1, <1>2, LedgerInit, PTL DEF Spec
--------------------------------------------------------------------------------
(* Telling before recording. *)
LEMMA ToldInit == Init => ToldInv
BY PlainInit DEF Init, ToldInv, SeenHeard, RecordedIsTold, NoFindings, Keys

LEMMA HeardStored ==
    ASSUME TypeInv, NEW k \in Keys, NEW f, Heard(k, f)
    PROVE  \E g \in told[k] : Stored(f) = Stored(g)
<1>1. PICK g \in told[k] : f = g \/ f = Stored(g)
  BY DEF Heard
<1>2. Stored(Stored(g)) = Stored(g)
  BY StoredType DEF TypeInv, TypeOK
<1> QED BY <1>1, <1>2

LEMMA ToldStep ==
    ASSUME ~RunRemediation, "slack" \notin Faults, ToldInv, [Next]_vars
    PROVE  ToldInv'
<1>1. PlainInv /\ TypeInv /\ NoFixers /\ SeenIsPost /\ TodoKept /\ SeenHeard /\ RecordedIsTold
  BY DEF ToldInv, PlainInv
<1>2. PlainInv'
  BY <1>1, PlainStep
<1>3. AssembleEntries = post /\ diffState = post
  BY <1>1, EntriesArePost
<1>4. Subjects \subseteq Keys
  BY DEF Keys
<1> SUFFICES SeenHeard' /\ RecordedIsTold'
  BY <1>2 DEF ToldInv
<1> DEFINE Goal == SeenHeard' /\ RecordedIsTold'
<1> USE DEF cycle, slack
<1>5. ASSUME UNCHANGED <<seen, told>>, pc # "slack" PROVE SeenHeard'
  BY <1>1, <1>5 DEF SeenHeard, Heard
<1>6. ASSUME SeenHeard',
             \A k \in Keys : crs'[k] # None => /\ crs[k] # None
                                               /\ crs'[k].finding = crs[k].finding,
             UNCHANGED told
      PROVE  Goal
  BY <1>1, <1>4, <1>6 DEF RecordedIsTold
<1>7. CASE UNCHANGED vars
  BY <1>1, <1>7 DEF vars, SeenHeard, Heard, RecordedIsTold
<1>8. CASE Restart
  <2>1. pc' = "idle" /\ UNCHANGED <<crs, told>>
    BY <1>8 DEF Restart
  <2>2. seen' = loadSeenFromDriftReports \/ seen' = NoFindings
    BY <1>8 DEF Restart
  <2>3. ASSUME NEW k \in Subjects, seen'[k] # None PROVE Heard(k, seen'[k].fp)
    <3>1. seen' = loadSeenFromDriftReports /\ crs[k] # None
      BY <1>4, <2>2, <2>3 DEF NoFindings, loadSeenFromDriftReports
    <3>2. seen'[k].fp = crs[k].finding
      BY <1>1, <1>4, <3>1, LoadedSeen
    <3> QED BY <1>1, <3>1, <3>2 DEF Heard, RecordedIsTold
  <2>4. SeenHeard'
    BY <2>1, <2>3 DEF SeenHeard, Heard
  <2> QED BY <1>6, <2>1, <2>4
<1>9. ASSUME NEW k \in Keys, RepeatIntervalElapses(k) PROVE Goal
  <2>1. pc = "idle" /\ UNCHANGED <<pc, crs, told>>
    BY <1>9 DEF RepeatIntervalElapses
  <2>2. ASSUME NEW j \in Subjects, seen'[j] # None PROVE seen[j] # None /\ seen'[j].fp = seen[j].fp
    <3>1. seen[j] # None
      BY <1>1, <1>4, <1>9, <2>2 DEF RepeatIntervalElapses, TypeInv, TypeOK
    <3> QED BY <1>1, <1>4, <1>9, <3>1, DueSeen
  <2>3. SeenHeard'
    BY <1>1, <2>1, <2>2 DEF SeenHeard, Heard
  <2> QED BY <1>6, <2>1, <2>3
<1>10. ASSUME NEW k \in Keys, CommentIntervalElapses(k) \/ ObservationAges(k) PROVE Goal
  <2>1. AgeEffect(k)
    BY <1>1, <1>10, AgeStep
  <2>2. pc = "idle" /\ UNCHANGED <<pc, seen, told>>
    BY <1>10 DEF CommentIntervalElapses, ObservationAges
  <2> QED BY <1>5, <1>6, <2>1, <2>2 DEF AgeEffect
<1>11. CASE Diff
  <2>1. /\ pc = "diff" /\ pc' = "slack" /\ seen' = updateSeen
        /\ fresh' = {k \in toPost : isNewThisCycle(k)}
        /\ UNCHANGED <<crs, told>>
    BY <1>11 DEF Diff
  <2>2. ASSUME NEW k \in Subjects, seen'[k] # None, k \notin fresh' PROVE Heard(k, seen'[k].fp)
    <3>1. post[k] # None
      BY <1>4, <2>1, <2>2 DEF updateSeen
    <3>2. seen'[k].fp = post[k]
      BY <1>1, <1>4, <2>1, <3>1, UpdatedSeen
    <3>3. seen[k] # None /\ seen[k].fp = post[k]
      BY <1>3, <1>4, <2>1, <2>2, <3>1 DEF toPost, isNewThisCycle
    <3> QED BY <1>1, <2>1, <3>2, <3>3 DEF SeenHeard
  <2>3. SeenHeard'
    BY <2>1, <2>2 DEF SeenHeard, Heard
  <2> QED BY <1>6, <2>1, <2>3
<1>12. CASE RouteAndPost
  <2>1. PostSlack(Keys)
    BY <1>12 DEF RouteAndPost, Fails
  <2>2. /\ pc = "slack" /\ pc' = "posted" /\ UNCHANGED <<post, seen, crs>>
        /\ \A k \in Keys : told'[k] = IF k \in fixedIssues \cup rendered
                                      THEN told[k] \cup {post[k]} ELSE told[k]
    BY <1>3, <2>1 DEF PostSlack
  <2>a. fresh \subseteq posting
    BY <1>1 DEF TypeInv, TypeOK
  <2>b. fresh \subseteq fixedIssues \cup rendered
    BY <2>a DEF fixedIssues, rendered, unfixable
  <2>3. ASSUME NEW k \in Subjects, seen[k] # None PROVE Heard(k, seen[k].fp)'
    <3>1. CASE k \in fresh
      <4>1. post[k] # None
        BY <1>1, <1>3, <2>2, <2>a, <3>1 DEF TypeInv, LoopsTyped
      <4>2. seen[k].fp = post[k]
        BY <1>1, <1>4, <2>2, <4>1 DEF SeenIsPost
      <4> QED BY <1>4, <2>2, <2>b, <3>1, <4>2 DEF Heard
    <3>2. CASE k \notin fresh
      BY <1>1, <1>4, <2>2, <2>3, <3>2 DEF SeenHeard, Heard
    <3> QED BY <3>1, <3>2
  <2>4. SeenHeard'
    BY <2>2, <2>3 DEF SeenHeard, Heard
  <2>5. RecordedIsTold'
    BY <1>1, <1>4, <2>2 DEF RecordedIsTold
  <2> QED BY <2>4, <2>5
<1>13. ASSUME NEW k \in Keys, ResolveTicket(k) \/ CleanupTicket(k) PROVE Goal
  <2>1. /\ CloseTicket(k) /\ pc \in {"resolves", "cleanup"} /\ UNCHANGED <<pc, seen, told>>
    BY <1>13 DEF ResolveTicket, CleanupTicket
  <2>2. CloseEffect(k)
    BY <1>1, <2>1, CloseStep
  <2>3. crs[k] # None
    BY <1>1, <2>1 DEF CloseTicket, TypeInv, LoopsTyped
  <2> QED BY <1>5, <1>6, <2>1, <2>2, <2>3 DEF CloseEffect
<1>14. ASSUME NEW k \in Keys, PatchReport(k) \/ CreateReport(k) PROVE Goal
  <2>1. UpsertEffect(k)
    BY <1>1, <1>14, UpsertStep
  <2>2. pc = "upsert" /\ k \in todo /\ UNCHANGED <<pc, seen, told>>
    BY <1>14 DEF PatchReport, CreateReport
  <2>3. ASSUME k \in Subjects PROVE \E g \in told[k] : Stored(post[k]) = Stored(g)
    <3>1. post[k] # None /\ seen[k] # None /\ seen[k].fp = post[k]
      BY <1>1, <2>2 DEF TodoKept, SeenIsPost
    <3>2. Heard(k, post[k])
      BY <1>1, <2>2, <2>3, <3>1 DEF SeenHeard
    <3> QED BY <1>1, <3>2, HeardStored
  <2>4. RecordedIsTold'
    <3> SUFFICES ASSUME NEW s \in Subjects, crs'[s] # None
                 PROVE  \E g \in told[s] : crs'[s].finding = Stored(g)
      BY <2>2 DEF RecordedIsTold
    <3>1. CASE crs'[s] = crs[s]
      BY <1>1, <3>1 DEF RecordedIsTold
    <3>2. CASE crs'[s] # crs[s]
      <4>1. s = k /\ crs'[k].finding = Stored(post[k])
        BY <1>3, <1>4, <2>1, <3>2 DEF UpsertEffect
      <4> QED BY <2>3, <4>1
    <3> QED BY <3>1, <3>2
  <2> QED BY <1>5, <2>2, <2>4
<1>15. ASSUME NEW k \in Keys, DeleteReport(k) PROVE Goal
  <2>1. pc = "sweep" /\ UNCHANGED <<pc, seen, told>>
    BY <1>15 DEF DeleteReport
  <2>2. \A j \in Keys : crs'[j] # None => crs'[j] = crs[j]
    BY <1>1, <1>15 DEF DeleteReport, TypeInv, TypeOK
  <2> QED BY <1>5, <1>6, <2>1, <2>2
<1>16. ASSUME NEW k \in Keys, UpsertTicket(k) \/ maybeCommentOnRecurrence(k) PROVE Goal
  <2>1. TicketEffect(k)
    BY <1>1, <1>16, TicketStep
  <2>2. pc = "tickets" /\ crs[k] # None /\ UNCHANGED <<pc, seen, told>>
    BY <1>1, <1>16 DEF UpsertTicket, maybeCommentOnRecurrence, TypeInv, LoopsTyped
  <2> QED BY <1>5, <1>6, <2>1, <2>2 DEF TicketEffect
<1>17. ASSUME NEW s, NEW f,
              \/ ClusterChange(s, f) \/ CloudCadenceElapses \/ runDiagnose \/ RouteResolves
              \/ RouteTicketCleanup \/ Reconcile \/ UpsertsDone \/ RouteTickets \/ CycleDone
       PROVE  Goal
  <2>1. UNCHANGED <<seen, told, crs>> /\ pc # "slack" /\ pc' # "slack"
    BY <1>17
    DEF ClusterChange, CloudCadenceElapses, runDiagnose, RouteResolves, RouteTicketCleanup,
        Reconcile, UpsertsDone, RouteTickets, CycleDone
  <2> QED BY <1>5, <1>6, <2>1
<1>18. ~(\E acted, healed, log : RunFixers(acted, healed, log)) /\ ~ReDiagnose
  BY <1>1 DEF NoFixers, RunFixers, ReDiagnose
<1> QED
  BY <1>7, <1>8, <1>9, <1>10, <1>11, <1>12, <1>13, <1>14, <1>15, <1>16, <1>17, <1>18
  DEF Next, Environment, TimePasses, runCycle

(* While fixers do not run and Slack accepts every post, no DriftReport holds a
   finding that was never posted, so a restart cannot silence one. *)
THEOREM ToldSafe ==
    ASSUME ~RunRemediation, "slack" \notin Faults PROVE Spec => []RecordedIsTold
<1>1. ToldInv /\ [Next]_vars => ToldInv'
  BY ToldStep
<1>2. ToldInv => RecordedIsTold
  BY DEF ToldInv
<1> QED BY <1>1, <1>2, ToldInit, PTL DEF Spec
--------------------------------------------------------------------------------
(* Closing. *)
LEMMA CloseInit == Init => CloseInv
BY PlainInit DEF Init, CloseInv, ClosingGone

LEMMA ClosingStep ==
    ASSUME ~RunRemediation, CloseInv, [Next]_vars
    PROVE  CloseInv' /\ ClosesForAReason
<1>1. PlainInv /\ TypeInv /\ NoFixers /\ ClosingGone
  BY DEF CloseInv, PlainInv
<1>2. PlainInv'
  BY <1>1, PlainStep
<1>3. AssembleEntries = post /\ diffState = post
  BY <1>1, EntriesArePost
<1>4. Len(tickets) \in Nat
  BY <1>1 DEF TypeInv, TypeOK
<1> SUFFICES ClosingGone' /\ ClosesForAReason
  BY <1>2 DEF CloseInv
<1> DEFINE Goal == ClosingGone' /\ ClosesForAReason
<1> USE DEF cycle, slack
<1>5. ASSUME tickets' = tickets PROVE ClosesForAReason
  BY <1>5 DEF ClosesForAReason, Closes
<1>6. CASE UNCHANGED vars
  BY <1>1, <1>6 DEF vars, ClosingGone, ClosesForAReason, Closes
<1>7. CASE Diff
  <2>1. pc' = "slack" /\ UNCHANGED <<post, tickets>> /\ \A k \in cleared' : post[k] = None
    BY <1>3, <1>7 DEF Diff, clearedSubjects
  <2> QED BY <1>5, <2>1 DEF ClosingGone
<1>8. CASE RouteAndPost
  <2>1. pc = "slack" /\ pc' = "posted" /\ UNCHANGED <<cycle, tickets>>
    BY <1>8 DEF RouteAndPost, PostSlack
  <2> QED BY <1>1, <1>5, <2>1 DEF ClosingGone
<1>9. CASE RouteResolves
  <2>1. /\ pc = "posted" /\ pc' = "resolves" /\ UNCHANGED <<cycle, tickets>>
        /\ todo' \subseteq cleared
    BY <1>9 DEF RouteResolves, resolvable
  <2> QED BY <1>1, <1>5, <2>1 DEF ClosingGone
<1>10. CASE RouteTicketCleanup
  <2>1. /\ pc' = "cleanup" /\ UNCHANGED <<cycle, crs, tickets>>
        /\ \A k \in todo' : ~meetsTicketThreshold(crs[k].finding.severity)
    BY <1>10 DEF RouteTicketCleanup, belowFloor
  <2> QED BY <1>5, <2>1 DEF ClosingGone
<1>11. ASSUME NEW k \in Keys, ResolveTicket(k) \/ CleanupTicket(k) PROVE Goal
  <2>1. /\ CloseTicket(k) /\ pc \in {"resolves", "cleanup"} /\ UNCHANGED <<pc, cycle>>
        /\ k \in todo
    BY <1>11 DEF ResolveTicket, CleanupTicket, CloseTicket
  <2>2. CloseEffect(k)
    BY <1>1, <2>1, CloseStep
  <2>3. ClosingGone'
    <3>1. \A j \in todo' : j \in todo /\ j \in Keys /\ crs'[j].finding = crs[j].finding
      BY <1>1, <2>2 DEF CloseEffect, TypeInv, TypeOK
    <3> QED BY <1>1, <2>1, <3>1 DEF ClosingGone
  <2>4. tickets[crs[k].ref].subject = k
    BY <1>1, <2>1 DEF TypeInv, LoopsTyped, RefsValid
  <2>5. post[k] = None \/ ~meetsTicketThreshold(crs[k].finding.severity)
    BY <1>1, <2>1 DEF ClosingGone
  <2>6. ClosesForAReason
    BY <2>2, <2>4, <2>5 DEF CloseEffect, ClosesForAReason, Closes
  <2> QED BY <2>3, <2>6
<1>12. ASSUME NEW k \in Keys, UpsertTicket(k) \/ maybeCommentOnRecurrence(k) PROVE Goal
  <2>1. TicketEffect(k)
    BY <1>1, <1>12, TicketStep
  <2>2. pc' = "tickets"
    BY <1>12 DEF UpsertTicket, maybeCommentOnRecurrence
  <2> QED BY <2>1, <2>2 DEF TicketEffect, ClosingGone, ClosesForAReason, Closes
<1>13. CASE tickets' = tickets /\ pc' \in {"idle", "diff", "upsert", "sweep", "tickets"}
  BY <1>5, <1>13 DEF ClosingGone
<1>14. ~(\E acted, healed, log : RunFixers(acted, healed, log)) /\ ~ReDiagnose
  BY <1>1 DEF NoFixers, RunFixers, ReDiagnose
<1>15. pc \in {"idle", "fix", "rediagnose"} => pc = "idle"
  BY <1>1 DEF NoFixers
<1> QED
  BY <1>6, <1>7, <1>8, <1>9, <1>10, <1>11, <1>12, <1>13, <1>14, <1>15
  DEF Next, Environment, TimePasses, runCycle, ClusterChange, Restart, CloudCadenceElapses,
      RepeatIntervalElapses, CommentIntervalElapses, ObservationAges, runDiagnose, Reconcile,
      PatchReport, CreateReport, UpsertsDone, DeleteReport, RouteTickets, CycleDone

(* While fixers do not run, a ticket is closed only for a finding that the
   cycle does not have or that is on record below the floor, whatever fails.
   The record may be outdated: see ClosedOnlyWhenGone. *)
THEOREM CloseSafe == ASSUME ~RunRemediation PROVE Spec => [][ClosesForAReason]_vars
<1>1. CloseInv /\ [Next]_vars => CloseInv' /\ ClosesForAReason
  BY ClosingStep
<1> QED BY <1>1, CloseInit, PTL DEF Spec

(* Once Diff has run, the seen map holds nothing that the cycle did not find. *)
LEMMA SeenOnlyStep ==
    ASSUME ~RunRemediation, PlainInv, SeenOnlyPost, [Next]_vars
    PROVE  SeenOnlyPost'
<1>1. NoFixers
  BY DEF PlainInv
<1> USE DEF cycle
<1>2. CASE pc' \in {"idle", "diff"} \/ UNCHANGED <<pc, post, seen>>
  BY <1>2 DEF SeenOnlyPost
<1>3. CASE Diff
  <2>1. seen' = updateSeen /\ UNCHANGED post
    BY <1>3 DEF Diff
  <2> QED BY <2>1 DEF SeenOnlyPost, updateSeen
<1>4. CASE pc \notin {"idle", "diff"} /\ UNCHANGED <<post, seen>>
  BY <1>4 DEF SeenOnlyPost
<1>5. ~(\E acted, healed, log : RunFixers(acted, healed, log)) /\ ~ReDiagnose
  BY <1>1 DEF NoFixers, RunFixers, ReDiagnose
<1>6. pc \in {"idle", "fix", "rediagnose"} => pc = "idle"
  BY <1>1 DEF NoFixers
<1> QED
  BY <1>2, <1>3, <1>4, <1>5, <1>6
  DEF vars, Next, Environment, TimePasses, runCycle, ClusterChange, Restart,
      CloudCadenceElapses, RepeatIntervalElapses, CommentIntervalElapses, ObservationAges,
      runDiagnose, RouteAndPost, PostSlack, RouteResolves, ResolveTicket, RouteTicketCleanup,
      CleanupTicket, Reconcile, PatchReport, CreateReport, UpsertsDone, DeleteReport,
      RouteTickets, UpsertTicket, maybeCommentOnRecurrence, CycleDone

(* The effect of a post that arrives: fresh findings are the last word, cleared
   ones are resolved, and a reminder repeats what the cycle found. *)
LEMMA PostStep ==
    ASSUME ~RunRemediation, PostOnResolved, "slack" \notin Faults, CloseInv, RouteAndPost
    PROVE  /\ pc = "slack" /\ pc' = "posted" /\ UNCHANGED <<cond, post, seen, crs>>
           /\ \A k \in Keys : lastWord'[k] = post[k] \/ lastWord'[k] = lastWord[k]
           /\ \A k \in fresh \cup cleared : k \in Keys /\ lastWord'[k] = post[k]
<1>1. PlainInv /\ TypeInv /\ ClosingGone
  BY DEF CloseInv, PlainInv
<1>2. diffState = post
  BY <1>1, EntriesArePost
<1>3. PostSlack(Keys)
  BY DEF RouteAndPost, Fails
<1>4. pc = "slack" /\ pc' = "posted" /\ UNCHANGED <<cond, post, seen, crs>>
  BY <1>3 DEF PostSlack, cycle
<1>5. \A k \in posting : post[k] # None
  BY <1>1, <1>2, <1>4 DEF TypeInv, LoopsTyped
<1>6. /\ fresh \subseteq rendered /\ rendered \subseteq posting /\ fixedIssues = {}
      /\ cleared \subseteq Keys /\ posting \subseteq Keys
  BY <1>1, <1>5 DEF TypeInv, TypeOK, rendered, unfixable, fixedIssues
<1>7. \A k \in Keys : lastWord'[k] = IF k \in rendered THEN post[k]
                                     ELSE IF k \in cleared THEN None ELSE lastWord[k]
  BY <1>2, <1>3, <1>6 DEF PostSlack, toResolve
<1>8. \A k \in cleared : post[k] = None
  BY <1>1, <1>4 DEF ClosingGone
<1> QED BY <1>4, <1>6, <1>7, <1>8
--------------------------------------------------------------------------------
(* The channel. *)
ChannelConfig == ~RunRemediation /\ PostOnResolved /\ Faults \cap {"slack", "crash"} = {}

LEMMA ChannelInit == Init => ChannelInv
BY CloseInit DEF Init, ChannelInv, SeenOnlyPost, PostIsCond, WordKept, Held, NoFindings

LEMMA HeldAfterRepeat ==
    ASSUME TypeInv, NEW k \in Keys, RepeatIntervalElapses(k), NEW j \in Keys
    PROVE  Held(j)' = Held(j)
<1>1. CASE seen[j] # None
  BY <1>1, DueSeen DEF Held
<1>2. CASE seen[j] = None
  BY <1>2 DEF RepeatIntervalElapses, TypeInv, TypeOK, Held
<1> QED BY <1>1, <1>2

LEMMA HeldIsPost ==
    ASSUME SeenIsPost, SeenOnlyPost, pc \notin {"idle", "diff"}, NEW k \in Keys
    PROVE  Held(k) = post[k]
BY DEF SeenIsPost, SeenOnlyPost, Held

LEMMA HeldBeforeDiff ==
    ASSUME PlainInv, Diff, NEW k \in Keys, k \notin fresh', k \notin cleared'
    PROVE  Held(k) = post[k]
<1>1. /\ diffState = post /\ fresh' = {j \in toPost : isNewThisCycle(j)}
      /\ cleared' = clearedSubjects
  BY EntriesArePost DEF Diff
<1>2. CASE post[k] = None
  BY <1>1, <1>2 DEF clearedSubjects, Held
<1>3. CASE post[k] # None
  BY <1>1, <1>3 DEF toPost, isNewThisCycle, Held
<1> QED BY <1>2, <1>3

LEMMA ChannelStep ==
    ASSUME ChannelConfig, ChannelInv, [Next]_vars
    PROVE  ChannelInv'
<1>1. ~RunRemediation /\ PostOnResolved /\ "slack" \notin Faults /\ "crash" \notin Faults
  BY DEF ChannelConfig
<1>2. /\ CloseInv /\ PlainInv /\ TypeInv /\ NoFixers /\ SeenIsPost /\ SeenOnlyPost
      /\ PostIsCond /\ WordKept
  BY DEF ChannelInv, CloseInv, PlainInv
<1>3. CloseInv' /\ SeenOnlyPost'
  BY <1>1, <1>2, ClosingStep, SeenOnlyStep
<1> SUFFICES PostIsCond' /\ WordKept'
  BY <1>3 DEF ChannelInv
<1> DEFINE Goal == PostIsCond' /\ WordKept'
<1> USE DEF cycle, slack
<1>4. CASE UNCHANGED <<cond, pc, post, fresh, cleared, seen, lastWord>>
  BY <1>2, <1>4 DEF PostIsCond, WordKept, Held
<1>5. ASSUME NEW s, NEW f, ClusterChange(s, f) PROVE Goal
  <2>1. pc = "idle" /\ UNCHANGED <<pc, seen, lastWord>>
    BY <1>2, <1>5 DEF ClusterChange, NoFixers
  <2> QED BY <1>2, <2>1 DEF PostIsCond, WordKept, Held
<1>6. ASSUME NEW k \in Keys, RepeatIntervalElapses(k) PROVE Goal
  <2>1. pc = "idle" /\ UNCHANGED <<pc, lastWord>>
    BY <1>6 DEF RepeatIntervalElapses
  <2>2. \A j \in Keys : Held(j)' = Held(j)
    BY <1>2, <1>6, HeldAfterRepeat
  <2> QED BY <1>2, <2>1, <2>2 DEF PostIsCond, WordKept
<1>7. CASE runDiagnose
  <2>1. pc = "idle" /\ pc' = "diff" /\ UNCHANGED <<cond, seen, lastWord>>
    BY <1>1, <1>7 DEF runDiagnose
  <2>2. \A s \in Subjects \ CloudSubjects : post'[s] = cond[s]
    BY <1>1, <1>7 DEF runDiagnose, Keys
  <2> QED BY <1>2, <2>1, <2>2 DEF PostIsCond, WordKept, Held
<1>8. CASE Diff
  <2>1. pc = "diff" /\ pc' = "slack" /\ UNCHANGED <<cond, post, lastWord>>
    BY <1>8 DEF Diff
  <2>2. \A k \in Keys : k \notin fresh' /\ k \notin cleared' => lastWord[k] = post[k]
    BY <1>2, <1>8, <2>1, HeldBeforeDiff DEF WordKept
  <2> QED BY <1>2, <2>1, <2>2 DEF PostIsCond, WordKept
<1>9. CASE RouteAndPost
  <2>1. /\ pc = "slack" /\ pc' = "posted" /\ UNCHANGED <<cond, post>>
        /\ \A k \in Keys : lastWord'[k] = post[k] \/ lastWord'[k] = lastWord[k]
        /\ \A k \in fresh \cup cleared : lastWord'[k] = post[k]
    BY <1>1, <1>2, <1>9, PostStep
  <2> QED BY <1>2, <2>1 DEF PostIsCond, WordKept
<1>10. CASE /\ pc \notin {"idle", "diff", "slack"} /\ pc' \notin {"idle", "diff", "slack"}
            /\ UNCHANGED <<cond, post, seen, lastWord>>
  BY <1>2, <1>10 DEF PostIsCond, WordKept
<1>11. CASE CycleDone
  <2>1. pc = "tickets" /\ pc' = "idle" /\ UNCHANGED <<seen, lastWord>>
    BY <1>11 DEF CycleDone
  <2>2. \A k \in Keys : lastWord[k] = Held(k)
    BY <1>2, <2>1, HeldIsPost DEF WordKept
  <2> QED BY <2>1, <2>2 DEF PostIsCond, WordKept, Held
<1>12. ~(\E acted, healed, log : RunFixers(acted, healed, log)) /\ ~ReDiagnose /\ ~Restart
  BY <1>1, <1>2 DEF NoFixers, RunFixers, ReDiagnose, Restart
<1> QED
  BY <1>4, <1>5, <1>6, <1>7, <1>8, <1>9, <1>10, <1>11, <1>12
  DEF vars, Next, Environment, TimePasses, runCycle, CloudCadenceElapses,
      CommentIntervalElapses, ObservationAges, RouteResolves, ResolveTicket,
      RouteTicketCleanup, CleanupTicket, Reconcile, PatchReport, CreateReport, UpsertsDone,
      DeleteReport, RouteTickets, UpsertTicket, maybeCommentOnRecurrence

(* While fixers do not run, resolved notices are on, Slack accepts every post and
   the process is not restarted, what Slack last heard of a subject is at the end
   of every cycle what the cluster has, whatever else fails. *)
THEOREM ChannelSafe == ASSUME ChannelConfig PROVE Spec => []LastWordIsCurrent
<1>1. ChannelInv /\ [Next]_vars => ChannelInv'
  BY ChannelStep
<1>2. ChannelInv => LastWordIsCurrent
  BY DEF ChannelInv, PostIsCond, WordKept, LastWordIsCurrent, Keys
<1> QED BY <1>1, <1>2, ChannelInit, PTL DEF Spec
--------------------------------------------------------------------------------
(* Restarts. *)
SeedConfig ==
    ~RunRemediation /\ PostOnResolved /\ Faults \cap {"slack", "loadList", "specPatch"} = {}

LEMMA QuietInit == Init => QuietInv
BY CloseInit, SweepInit
DEF Init, QuietInv, SweepInv, SeenOnlyPost, FiledStored, QuietKept, NewsIsNew, Held, Filed,
    NoFindings

LEMMA QuietStep ==
    ASSUME SeedConfig, QuietInv, [Next]_vars
    PROVE  QuietInv'
<1>1. /\ ~RunRemediation /\ PostOnResolved /\ "slack" \notin Faults
      /\ "loadList" \notin Faults /\ "specPatch" \notin Faults
  BY DEF SeedConfig
<1>2. /\ CloseInv /\ PlainInv /\ TypeInv /\ NoFixers /\ SeenIsPost /\ TodoKept /\ StaleKept
      /\ SeenOnlyPost /\ FiledStored /\ QuietKept /\ NewsIsNew
  BY DEF QuietInv, CloseInv, PlainInv
<1>3. CloseInv' /\ SeenOnlyPost' /\ StaleKept'
  BY <1>1, <1>2, ClosingStep, SeenOnlyStep, SweepStep DEF SweepInv
<1>4. AssembleEntries = post
  BY <1>2, EntriesArePost
<1>5. crs \in [Keys -> Report \cup {None}] /\ fresh \subseteq Keys
  BY <1>2 DEF TypeInv, TypeOK
<1> SUFFICES FiledStored' /\ QuietKept' /\ NewsIsNew'
  BY <1>3 DEF QuietInv
<1> DEFINE Goal == FiledStored' /\ QuietKept' /\ NewsIsNew'
<1> USE DEF cycle, slack
<1>6. ASSUME \A k \in Keys : Filed(k)' = Filed(k) PROVE FiledStored'
  <2> SUFFICES ASSUME NEW k \in Keys, crs'[k] # None
               PROVE  Stored(crs'[k].finding) = crs'[k].finding
    BY DEF FiledStored
  <2>1. crs'[k].finding = Filed(k)
    BY <1>6 DEF Filed
  <2>2. CASE crs[k] # None
    BY <1>2, <2>1, <2>2 DEF FiledStored, Filed
  <2>3. CASE crs[k] = None
    <3>1. crs'[k].finding = None /\ crs'[k] \in Report
      BY <1>3, <2>1, <2>3 DEF Filed, CloseInv, PlainInv, TypeInv, TypeOK
    <3> QED BY <3>1, NoneApart DEF Report
  <2> QED BY <2>2, <2>3
<1>7. ASSUME \A k \in Keys : Filed(k)' = Filed(k) /\ Held(k)' = Held(k),
             UNCHANGED <<pc, post, fresh, cleared, lastWord>>
      PROVE  Goal
  BY <1>2, <1>5, <1>6, <1>7 DEF QuietKept, NewsIsNew
<1>8. CASE UNCHANGED <<pc, post, fresh, cleared, seen, crs, lastWord>>
  BY <1>7, <1>8 DEF Held, Filed
<1>9. CASE Restart
  <2>1. pc' = "idle" /\ seen' = loadSeenFromDriftReports /\ UNCHANGED crs
    BY <1>1, <1>9 DEF Restart
  <2>2. \A k \in Keys : Filed(k)' = Filed(k)
    BY <2>1 DEF Filed
  <2>3. ASSUME NEW k \in Keys PROVE Held(k)' = Filed(k)'
    <3>1. CASE crs[k] = None
      BY <2>1, <3>1 DEF loadSeenFromDriftReports, Held, Filed
    <3>2. CASE crs[k] # None
      BY <1>2, <2>1, <3>2, LoadedSeen DEF Held, Filed
    <3> QED BY <3>1, <3>2
  <2> QED BY <1>6, <2>1, <2>2, <2>3 DEF QuietKept, NewsIsNew
<1>10. ASSUME NEW k \in Keys, RepeatIntervalElapses(k) PROVE Goal
  <2>1. \A j \in Keys : Held(j)' = Held(j)
    BY <1>2, <1>10, HeldAfterRepeat
  <2>2. UNCHANGED <<pc, post, fresh, cleared, crs, lastWord>>
    BY <1>10 DEF RepeatIntervalElapses
  <2> QED BY <1>7, <2>1, <2>2 DEF Filed
<1>11. ASSUME NEW k \in Keys, CommentIntervalElapses(k) \/ ObservationAges(k) PROVE Goal
  <2>1. AgeEffect(k)
    BY <1>2, <1>11, AgeStep
  <2>2. UNCHANGED <<pc, post, fresh, cleared, seen, lastWord>>
    BY <1>11 DEF CommentIntervalElapses, ObservationAges
  <2> QED BY <1>7, <2>1, <2>2 DEF AgeEffect, Filed, Held
<1>12. CASE runDiagnose
  <2>1. pc = "idle" /\ pc' = "diff" /\ UNCHANGED <<seen, crs, lastWord>>
    BY <1>1, <1>12 DEF runDiagnose
  <2> QED BY <1>2, <2>1 DEF FiledStored, QuietKept, NewsIsNew, Held, Filed
<1>13. CASE Diff
  <2>1. /\ pc = "diff" /\ pc' = "slack" /\ UNCHANGED <<post, crs, lastWord>>
        /\ fresh' = {k \in toPost : isNewThisCycle(k)}
    BY <1>13 DEF Diff
  <2>2. \A k \in Keys : Filed(k)' = Filed(k) /\ (lastWord[k] = Held(k) \/ Held(k) = Filed(k))
    BY <1>2, <2>1 DEF QuietKept, Filed
  <2>3. \A k \in Keys : k \in fresh' \cup cleared' \/ Held(k) = post[k]
    BY <1>2, <1>13, HeldBeforeDiff
  <2>4. ASSUME NEW k \in fresh' PROVE k \in Keys /\ post[k] # None /\ Held(k) # post[k]
    <3>1. k \in Keys /\ diffState[k] # None /\ isNewThisCycle(k)
      BY <2>1, <2>4 DEF toPost
    <3> QED BY <1>2, <3>1, EntriesArePost DEF isNewThisCycle, Held
  <2>5. QuietKept'
    BY <2>1, <2>2, <2>3 DEF QuietKept
  <2>6. NewsIsNew'
    BY <2>1, <2>2, <2>4 DEF NewsIsNew
  <2> QED BY <1>6, <2>2, <2>5, <2>6
<1>14. CASE RouteAndPost
  <2>1. /\ pc = "slack" /\ pc' = "posted" /\ UNCHANGED <<post, crs>>
        /\ \A k \in Keys : lastWord'[k] = post[k] \/ lastWord'[k] = lastWord[k]
        /\ \A k \in fresh \cup cleared : lastWord'[k] = post[k]
    BY <1>1, <1>2, <1>14, PostStep
  <2>2. \A k \in Keys : Filed(k)' = Filed(k)
    BY <2>1 DEF Filed
  <2> QED BY <1>2, <1>6, <2>1, <2>2 DEF QuietKept, NewsIsNew
<1>15. ASSUME \A k \in Keys : Filed(k)' = Filed(k), UNCHANGED <<post, lastWord>>,
              pc \notin {"idle", "diff", "slack"}, pc' \notin {"idle", "diff", "slack"}
       PROVE  Goal
  BY <1>2, <1>6, <1>15 DEF QuietKept, NewsIsNew
<1>16. ASSUME NEW k \in Keys, ResolveTicket(k) \/ CleanupTicket(k) PROVE Goal
  <2>1. /\ CloseTicket(k) /\ pc \in {"resolves", "cleanup"}
        /\ UNCHANGED <<pc, post, lastWord>>
    BY <1>16 DEF ResolveTicket, CleanupTicket
  <2>2. CloseEffect(k) /\ crs[k] # None
    BY <1>2, <2>1, CloseStep DEF CloseTicket, TypeInv, LoopsTyped
  <2>3. \A j \in Keys : Filed(j)' = Filed(j)
    BY <2>2 DEF CloseEffect, Filed
  <2> QED BY <1>15, <2>1, <2>3
<1>17. ASSUME NEW k \in Keys, PatchReport(k) \/ CreateReport(k) PROVE Goal
  <2>1. UpsertEffect(k)
    BY <1>2, <1>17, UpsertStep
  <2>2. pc = "upsert" /\ k \in todo /\ UNCHANGED <<pc, post, lastWord>>
    BY <1>17 DEF PatchReport, CreateReport
  <2>3. post[k] # None /\ post[k] \in Finding
    BY <1>2, <2>2 DEF TodoKept, TypeInv, TypeOK, MaybeFinding
  <2>4. Stored(Stored(post[k])) = Stored(post[k])
    BY <2>3, StoredType
  <2>5. \A j \in Keys : j # k => Filed(j)' = Filed(j)
    BY <2>1 DEF UpsertEffect, Filed
  <2>6. \/ Filed(k)' = Filed(k) /\ crs'[k] = crs[k]
        \/ crs'[k] # None /\ Filed(k)' = Stored(post[k])
    BY <1>4, <2>1 DEF UpsertEffect, Filed
  <2>7. FiledStored'
    <3> SUFFICES ASSUME NEW j \in Keys, crs'[j] # None
                 PROVE  Stored(crs'[j].finding) = crs'[j].finding
      BY DEF FiledStored
    <3>1. CASE crs'[j] = crs[j]
      BY <1>2, <3>1 DEF FiledStored
    <3>2. CASE crs'[j] # crs[j]
      <4>1. j = k /\ crs'[k].finding = Stored(post[k])
        BY <2>1, <2>6, <3>2 DEF UpsertEffect, Filed
      <4> QED BY <2>4, <4>1
    <3> QED BY <3>1, <3>2
  <2>8. lastWord[k] = post[k] \/ post[k] = Filed(k)'
    <3>1. lastWord[k] = post[k] \/ post[k] = Filed(k)
      BY <1>2, <2>2 DEF QuietKept
    <3>2. ASSUME post[k] = Filed(k) PROVE Stored(post[k]) = post[k]
      BY <1>2, <2>3, <3>2 DEF FiledStored, Filed
    <3> QED BY <2>6, <3>1, <3>2
  <2>9. QuietKept'
    BY <1>2, <2>2, <2>5, <2>8 DEF QuietKept
  <2> QED BY <2>2, <2>7, <2>9 DEF NewsIsNew
<1>18. ASSUME NEW k \in Keys, DeleteReport(k) PROVE Goal
  <2>1. pc = "sweep" /\ k \in stale /\ UNCHANGED <<pc, post, lastWord>>
    BY <1>18 DEF DeleteReport
  <2>2. \A j \in Keys : crs'[j] = crs[j] \/ (j = k /\ crs'[j] = None)
    BY <1>5, <1>18 DEF DeleteReport
  <2>3. post[k] = None
    BY <1>2, <1>4, <2>1 DEF StaleKept
  <2> QED BY <1>2, <2>1, <2>2, <2>3 DEF FiledStored, QuietKept, NewsIsNew, Filed
<1>19. ASSUME NEW k \in Keys, UpsertTicket(k) \/ maybeCommentOnRecurrence(k) PROVE Goal
  <2>1. TicketEffect(k)
    BY <1>2, <1>19, TicketStep
  <2>2. pc = "tickets" /\ crs[k] # None /\ UNCHANGED <<pc, post, lastWord>>
    BY <1>2, <1>19 DEF UpsertTicket, maybeCommentOnRecurrence, TypeInv, LoopsTyped
  <2>3. \A j \in Keys : Filed(j)' = Filed(j)
    BY <2>1, <2>2 DEF TicketEffect, Filed
  <2> QED BY <1>15, <2>2, <2>3
<1>20. CASE RouteResolves \/ RouteTicketCleanup \/ Reconcile \/ UpsertsDone \/ RouteTickets
  <2>1. /\ pc \notin {"idle", "diff", "slack"} /\ pc' \notin {"idle", "diff", "slack"}
        /\ UNCHANGED <<post, crs, lastWord>>
    BY <1>20 DEF RouteResolves, RouteTicketCleanup, Reconcile, UpsertsDone, RouteTickets
  <2> QED BY <1>15, <2>1 DEF Filed
<1>21. CASE CycleDone
  <2>1. pc = "tickets" /\ pc' = "idle" /\ UNCHANGED <<seen, crs, lastWord>>
    BY <1>21 DEF CycleDone
  <2>2. \A k \in Keys : /\ Held(k)' = Held(k) /\ Held(k) = post[k]
                        /\ Filed(k)' = Filed(k)
    BY <1>2, <2>1, HeldIsPost DEF Held, Filed
  <2>3. \A k \in Keys : lastWord[k] = post[k] \/ post[k] = Filed(k)
    BY <1>2, <2>1 DEF QuietKept
  <2> QED BY <1>6, <2>1, <2>2, <2>3 DEF QuietKept, NewsIsNew
<1>22. ASSUME NEW s, NEW f, ClusterChange(s, f) \/ CloudCadenceElapses PROVE Goal
  BY <1>8, <1>22 DEF ClusterChange, CloudCadenceElapses
<1>23. ~(\E acted, healed, log : RunFixers(acted, healed, log)) /\ ~ReDiagnose
  BY <1>2 DEF NoFixers, RunFixers, ReDiagnose
<1>24. CASE UNCHANGED vars
  BY <1>8, <1>24 DEF vars
<1> QED
  BY <1>9, <1>10, <1>11, <1>12, <1>13, <1>14, <1>16, <1>17, <1>18, <1>19, <1>20, <1>21,
     <1>22, <1>23, <1>24
  DEF Next, Environment, TimePasses, runCycle

(* While fixers do not run, resolved notices are on, and no post, spec patch or
   load of the reports fails, no restart makes news of a finding that is on
   record and was the last word on its subject, wherever in a cycle it happens
   and whatever else fails. *)
THEOREM SeededSafe == ASSUME SeedConfig PROVE Spec => []RestartIsQuiet
<1>1. QuietInv /\ [Next]_vars => QuietInv'
  BY QuietStep
<1>2. QuietInv => RestartIsQuiet
  <2> SUFFICES ASSUME QuietInv PROVE RestartIsQuiet
    OBVIOUS
  <2>1. diffState = post /\ NewsIsNew
    BY EntriesArePost DEF QuietInv, CloseInv
  <2> QED BY <2>1 DEF RestartIsQuiet, NewsIsNew, Filed
<1> QED BY <1>1, <1>2, QuietInit, PTL DEF Spec
--------------------------------------------------------------------------------
(* The refinement of TicketLedger. *)
RefineInv == LedgerInv /\ ClosingGone /\ TodoGrave

LEMMA RefineInit == Init => RefineInv
BY LedgerInit DEF Init, RefineInv, ClosingGone, TodoGrave

LEMMA RefineStep ==
    ASSUME LedgerConfig, RefineInv, [Next]_vars
    PROVE  RefineInv'
<1>1. ~RunRemediation /\ LedgerInv /\ CloseInv /\ PlainInv /\ TodoGrave
  BY DEF LedgerConfig, RefineInv, LedgerInv, CloseInv
<1>2. LedgerInv' /\ ClosingGone'
  BY <1>1, LedgerStep, ClosingStep DEF CloseInv
<1>3. diffState = post
  BY <1>1, EntriesArePost
<1> SUFFICES TodoGrave'
  BY <1>2 DEF RefineInv
<1> USE DEF cycle, slack
<1>4. CASE UNCHANGED vars
  BY <1>1, <1>4 DEF vars, TodoGrave
<1>5. CASE RouteTickets
  <2>1. UNCHANGED post /\ \A k \in todo' : meetsTicketThreshold(post[k].severity)
    BY <1>3, <1>5 DEF RouteTickets, ticketable
  <2> QED BY <2>1 DEF TodoGrave
<1>6. ASSUME NEW k \in Keys, UpsertTicket(k) \/ maybeCommentOnRecurrence(k) PROVE TodoGrave'
  <2>1. todo' \subseteq todo /\ UNCHANGED <<pc, post>>
    BY <1>6 DEF UpsertTicket, maybeCommentOnRecurrence
  <2> QED BY <1>1, <2>1 DEF TodoGrave
<1>7. CASE pc' # "tickets"
  BY <1>7 DEF TodoGrave
<1> QED
  BY <1>4, <1>5, <1>6, <1>7
  DEF Next, Environment, TimePasses, runCycle, ClusterChange, Restart, CloudCadenceElapses,
      RepeatIntervalElapses, CommentIntervalElapses, ObservationAges, runDiagnose, RunFixers,
      ReDiagnose, Diff, RouteAndPost, PostSlack, RouteResolves, ResolveTicket,
      RouteTicketCleanup, CleanupTicket, Reconcile, PatchReport, CreateReport, UpsertsDone,
      DeleteReport, CycleDone

(* The ticket that the report of a subject points at is the subject's whole load. *)
LEMMA LoadIsRef ==
    ASSUME TypeInv, OpenBacked, NEW k \in Keys
    PROVE  /\ \A t \in OpenTickets(k) : crs[k] # None /\ crs[k].ref = t /\ t # 0
           /\ crs[k] # None /\ crs[k].ref # 0 /\ tickets[crs[k].ref].open
                 => OpenTickets(k) = {crs[k].ref}
<1>1. \A t \in OpenTickets(k) : crs[k] # None /\ crs[k].ref = t /\ t # 0
  BY OpenIsRef DEF OpenTickets
<1>2. ASSUME crs[k] # None, crs[k].ref # 0, tickets[crs[k].ref].open
      PROVE  OpenTickets(k) = {crs[k].ref}
  <2>1. crs[k].ref \in 1..Len(tickets) /\ tickets[crs[k].ref].subject = k
    BY <1>2 DEF TypeInv, RefsValid
  <2>2. crs[k].ref \in OpenTickets(k)
    BY <1>2, <2>1 DEF OpenTickets
  <2> QED BY <1>1, <2>2
<1> QED BY <1>1, <1>2

Found == [k \in Keys |-> Grade(post[k])]
Known == [k \in Keys |-> IF crs[k] = None THEN "none" ELSE Grade(crs[k].finding)]
Load == [k \in Keys |-> OpenTickets(k)]

(* A step that leaves every subject's open tickets alone is an observation. *)
LEMMA ObserveStep ==
    ASSUME \A k \in Keys : OpenTickets(k)' = OpenTickets(k)
    PROVE  Ledger!Observe
<1>1. Found' \in [Keys -> Ledger!Grades] /\ Known' \in [Keys -> Ledger!Grades]
  BY DEF Found, Known, Grade, Ledger!Grades
<1>2. Load' = Load
  BY DEF Load
<1> QED BY <1>1, <1>2 DEF Found, Known, Load, Ledger!Observe

LEMMA LedgerClose ==
    ASSUME LedgerConfig, RefineInv, NEW k \in Keys, ResolveTicket(k) \/ CleanupTicket(k)
    PROVE  Ledger!Close(k) \/ Ledger!Observe
<1>1. TypeInv /\ OpenBacked /\ ClosingGone /\ "resolve" \notin Faults
  BY DEF RefineInv, LedgerInv, PlainInv, LedgerConfig, LedgerFaults
<1>2. /\ CloseTicket(k) /\ pc \in {"resolves", "cleanup"} /\ k \in todo /\ UNCHANGED post
  BY DEF ResolveTicket, CleanupTicket, CloseTicket, cycle
<1>3. CloseEffect(k)
  BY <1>1, <1>2, CloseStep
<1> DEFINE i == crs[k].ref
<1>4. /\ crs[k] # None /\ i # 0 /\ i \in 1..Len(tickets) /\ tickets[i].subject = k
  BY <1>1, <1>2 DEF TypeInv, LoopsTyped, RefsValid
<1>5. \A j \in Keys : j # k => OpenTickets(j)' = OpenTickets(j)
  BY <1>3, <1>4 DEF CloseEffect, OpenTickets
<1>6. CASE tickets[i].open
  <2>1. OpenTickets(k) = {i}
    BY <1>1, <1>4, <1>6, LoadIsRef
  <2>2. OpenTickets(k)' = {}
    <3>1. \A t \in 1..Len(tickets) : t # i => ~(tickets[t].subject = k /\ tickets[t].open)
      BY <2>1 DEF OpenTickets
    <3> QED BY <1>1, <1>3, <3>1 DEF CloseEffect, OpenTickets
  <2>3. Load' = [Load EXCEPT ![k] = {}]
    BY <1>5, <2>2 DEF Load
  <2>4. Found' = Found /\ Known' = Known
    BY <1>2, <1>3, <1>4 DEF Found, Known, CloseEffect
  <2>5. Found[k] = "none" \/ Known[k] # "grave"
    BY <1>1, <1>2, <1>4 DEF ClosingGone, Found, Known, Grade
  <2>6. \E ticket \in Load[k] : Load[k] = {ticket}
    BY <2>1 DEF Load
  <2> QED BY <2>3, <2>4, <2>5, <2>6 DEF Found, Known, Load, Ledger!Close
<1>7. CASE ~tickets[i].open
  <2>1. OpenTickets(k)' = OpenTickets(k)
    BY <1>3, <1>7 DEF CloseEffect, OpenTickets
  <2> QED BY <1>5, <2>1, ObserveStep
<1> QED BY <1>6, <1>7

LEMMA LedgerOpen ==
    ASSUME LedgerConfig, RefineInv, NEW k \in Keys,
           UpsertTicket(k) \/ maybeCommentOnRecurrence(k)
    PROVE  Ledger!Open(k) \/ Ledger!Observe
<1>1. TypeInv /\ OpenBacked /\ TodoKept /\ TodoGrave
  BY DEF RefineInv, LedgerInv, PlainInv
<1>2. /\ pc = "tickets" /\ k \in todo /\ UNCHANGED post
  BY DEF UpsertTicket, maybeCommentOnRecurrence, cycle
<1>3. TicketEffect(k) /\ crs[k] # None /\ Len(tickets) \in Nat
  BY <1>1, <1>2, TicketStep DEF TypeInv, TypeOK, LoopsTyped
<1>4. CASE tickets' = tickets
  <2>1. \A j \in Keys : OpenTickets(j)' = OpenTickets(j)
    BY <1>4 DEF OpenTickets
  <2> QED BY <2>1, ObserveStep
<1>5. CASE tickets' # tickets
  <2> DEFINE n == Len(tickets) + 1
  <2>1. /\ crs[k].ref = 0 /\ Len(tickets') = n /\ tickets'[n] = [subject |-> k, open |-> TRUE]
        /\ \A t \in 1..Len(tickets) : tickets'[t] = tickets[t]
    BY <1>3, <1>5 DEF TicketEffect
  <2>2. OpenTickets(k) = {}
    BY <1>1, <2>1, LoadIsRef
  <2>3. \A t \in 1..n : t = n \/ t \in 1..Len(tickets)
    BY <1>3
  <2>4. n \in 1..n /\ n \notin 1..Len(tickets) /\ 1..Len(tickets) \subseteq 1..n
    BY <1>3
  <2>5. \A j \in Keys : OpenTickets(j)' = IF j = k THEN {n} ELSE OpenTickets(j)
    <3> SUFFICES ASSUME NEW j \in Keys
                 PROVE  OpenTickets(j)' = IF j = k THEN {n} ELSE OpenTickets(j)
      OBVIOUS
    <3>1. OpenTickets(j)' = {t \in 1..n : tickets'[t].subject = j /\ tickets'[t].open}
      BY <2>1 DEF OpenTickets
    <3> HIDE DEF n
    <3> QED BY <2>1, <2>2, <2>3, <2>4, <3>1 DEF OpenTickets
  <2>6. Load' = [Load EXCEPT ![k] = {n}] /\ Load'[k] = {n} /\ Load[k] = {}
    BY <2>2, <2>5 DEF Load
  <2>7. Found' = Found /\ Known' = Known
    <3>1. \A j \in Keys : crs'[j] = None <=> crs[j] = None
      BY <1>3 DEF TicketEffect
    <3>2. \A j \in Keys : crs'[j] = crs[j] \/ crs'[j].finding = crs[j].finding
      BY <1>3 DEF TicketEffect
    <3> QED BY <1>2, <3>1, <3>2 DEF Found, Known
  <2>8. Found[k] = "grave"
    BY <1>1, <1>2 DEF TodoKept, TodoGrave, Found, Grade
  <2>9. \E ticket \in Load'[k] : Load' = [Load EXCEPT ![k] = {ticket}]
    BY <2>6
  <2> QED BY <2>6, <2>7, <2>8, <2>9 DEF Found, Known, Load, Ledger!Open
<1> QED BY <1>4, <1>5

(* Under the conditions of LedgerSafe the watcher's cycle, with its reports, its
   failures and its restarts, implements TicketLedger: at most one open ticket for
   a finding, opened for a grave one, closed for one that is gone or on record as
   not grave. *)
THEOREM LedgerRefines == ASSUME LedgerConfig PROVE Spec => LedgerKept
<1>1. Init => Ledger!Init
  <2> SUFFICES ASSUME Init PROVE Ledger!Init
    OBVIOUS
  <2>1. tickets = <<>> /\ post = NoFindings /\ crs = NoFindings
    BY DEF Init
  <2>2. \A k \in Keys : OpenTickets(k) = {}
    BY <2>1 DEF OpenTickets
  <2> QED BY <2>1, <2>2 DEF Ledger!Init, NoFindings, Grade
<1>2. RefineInv /\ [Next]_vars => [Ledger!Next]_<<Found, Known, Load>>
  <2> SUFFICES ASSUME RefineInv, [Next]_vars PROVE [Ledger!Next]_<<Found, Known, Load>>
    OBVIOUS
  <2>1. CASE tickets' = tickets
    <3>1. \A k \in Keys : OpenTickets(k)' = OpenTickets(k)
      BY <2>1 DEF OpenTickets
    <3> QED BY <3>1, ObserveStep DEF Ledger!Next
  <2>2. ASSUME NEW k \in Keys, ResolveTicket(k) \/ CleanupTicket(k) PROVE Ledger!Next
    BY <2>2, LedgerClose DEF Ledger!Next
  <2>3. ASSUME NEW k \in Keys, UpsertTicket(k) \/ maybeCommentOnRecurrence(k) PROVE Ledger!Next
    BY <2>3, LedgerOpen DEF Ledger!Next
  <2> QED
    BY <2>1, <2>2, <2>3
    DEF vars, Next, Environment, TimePasses, runCycle, ClusterChange, Restart,
        CloudCadenceElapses, RepeatIntervalElapses, CommentIntervalElapses, ObservationAges,
        runDiagnose, RunFixers, ReDiagnose, Diff, RouteAndPost, PostSlack, RouteResolves,
        RouteTicketCleanup, Reconcile, PatchReport, CreateReport, UpsertsDone, DeleteReport,
        RouteTickets, CycleDone
<1>3. RefineInv /\ [Next]_vars => RefineInv'
  BY RefineStep
<1> QED
  BY <1>1, <1>2, <1>3, RefineInit, PTL DEF Spec, LedgerKept, Ledger!Spec, Found, Known, Load
================================================================================
