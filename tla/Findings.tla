------------------------------- MODULE Findings -------------------------------
(***************************************************************************)
(* What probes and analyzers return, and what the watcher and the           *)
(* DriftReport writer keep of it.                                           *)
(*                                                                         *)
(* A rule (a Probe or an Analyzer of the catalog) is an operator R(w, down) *)
(* of the part w of the cluster that it reads and of the set down of its    *)
(* reads that fail.  w.objs is the list of objects it loops over, in the    *)
(* order of the API server's list, w.env whatever else it reads.  Ages are  *)
(* numbers in the unit of the rule's own threshold.  A rule returns its     *)
(* findings in the order in which the code appends them.                    *)
(***************************************************************************)
EXTENDS Naturals, Sequences, SequencesExt

(* diagnose.Diagnostic and probe.Finding: a subject, <<kind, name>>, and a
   severity, which analyzers may leave empty. *)
When(c, subject, severity) ==
    IF c THEN <<[subject |-> subject, severity |-> severity]>> ELSE <<>>

(* The findings of a loop over a list. *)
Each(list, body(_)) == FlattenSeq([i \in DOMAIN list |-> body(list[i])])

(* The same with the position of the object, which stands for its name. *)
EachNamed(list, body(_, _)) == FlattenSeq([i \in DOMAIN list |-> body(list[i], i)])
Name(i) == <<"a", "b", "c">>[i]

(* A rule that returns early when one of these reads fails. *)
Needs(reads, down, findings) == IF reads \cap down = {} THEN findings ELSE <<>>

Some(list, p(_)) == \E i \in DOMAIN list : p(list[i])
Count(list, p(_)) == Len(SelectSeq(list, p))

SeverityRank(severity) ==
    CASE severity = "info"     -> 1
      [] severity = "warning"  -> 2
      [] severity = "critical" -> 3

(* An age, or a time left, that is not known or does not exist. *)
Never == 100000

NormalizeSeverity(severity) == IF severity = "" THEN "warning" ELSE severity

--------------------------------------------------------------------------------
(* probe.Result.  An analyzer has no status. *)
Result(status, findings) == [status |-> status, findings |-> findings]
Analyzer(findings) == Result("", findings)

Of(findings, severity) == Some(findings, LAMBDA f : f.severity = severity)

(* Seeded defect: a warning decides before a critical finding. *)
warningFirst(findings) ==
    Result(CASE Of(findings, "warning") -> "DEGRADED"
             [] ~Of(findings, "warning") /\ Of(findings, "critical") -> "CRITICAL"
             [] OTHER -> "HEALTHY", findings)

(* rollupComponentStatus, used by the probes that report per object. *)
Rollup(findings) ==
    Result(CASE Of(findings, "critical") -> "CRITICAL"
             [] ~Of(findings, "critical") /\ Of(findings, "warning") -> "DEGRADED"
             [] OTHER -> "HEALTHY", findings)

--------------------------------------------------------------------------------
Subjects(findings) == {findings[i].subject : i \in DOMAIN findings}

(* buildCurrentState, and wantBySubject of Reconcile: one entry per subject, the
   last finding of a subject overwrites the ones before it. *)
buildCurrentState(findings) ==
    [s \in Subjects(findings) |->
        NormalizeSeverity(findings[CHOOSE i \in DOMAIN findings :
            /\ findings[i].subject = s
            /\ \A j \in DOMAIN findings : findings[j].subject = s => j <= i].severity)]

(* The severity of a subject in such a state, 0 when it is not reported. *)
RankIn(state, s) == IF s \in DOMAIN state THEN SeverityRank(state[s]) ELSE 0
================================================================================
