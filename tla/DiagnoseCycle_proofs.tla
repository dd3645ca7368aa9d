------------------------- MODULE DiagnoseCycle_proofs -------------------------
(***************************************************************************)
(* For any endpoints, Silences and diagnostics, and any number of failing      *)
(* calls: a cycle reports nothing that is silenced, and a first failure is     *)
(* not critical.                                                             *)
(***************************************************************************)
EXTENDS DiagnoseCycle, FiniteSetTheorems, TLAPS

CycleTypeOK ==
    /\ raised \subseteq Diagnostics
    /\ streaks \in [Urls -> Nat]
    /\ hosts \in Setups
    /\ pc \in {"idle", "fixed"}
    /\ faults \in Nat
    /\ lastProbe \in [Urls -> {"ok", "certain", "maybe"}]

(* What BlipIsNotCritical rests on: a probe that succeeds has reset the streak. *)
StreaksOfFailures == \A u \in Urls : lastProbe[u] = "ok" => streaks[u] = 0

CycleInv == CycleTypeOK /\ StreaksOfFailures
--------------------------------------------------------------------------------
LEMMA MinOfTwo ==
    ASSUME NEW a \in Nat, NEW b \in Nat
    PROVE  /\ Min({a, b}) \in {a, b} /\ Min({a, b}) \in Nat
           /\ Min({a, b}) <= a /\ Min({a, b}) <= b
<1>1. \E x \in {a, b} : \A y \in {a, b} : x <= y
  <2>1. CASE a <= b
    BY <2>1
  <2>2. CASE b <= a
    BY <2>2
  <2> QED BY <2>1, <2>2
<1>2. Min({a, b}) \in {a, b} /\ \A y \in {a, b} : Min({a, b}) <= y
  BY <1>1, Zenon DEF Min
<1> QED BY <1>2

LEMMA ReadsAreFinite == IsFiniteSet(Reads)
<1>1. IsFiniteSet({"rag"}) /\ IsFiniteSet({"ingresses"}) /\ IsFiniteSet({"silences"})
  BY FS_Singleton
<1>2. IsFiniteSet({"rag"} \cup {"ingresses"})
  BY <1>1, FS_Union
<1>3. IsFiniteSet(({"rag"} \cup {"ingresses"}) \cup {"silences"})
  BY <1>1, <1>2, FS_Union
<1>4. Reads = ({"rag"} \cup {"ingresses"}) \cup {"silences"}
  BY DEF Reads
<1> QED BY <1>3, <1>4

(* A pass of runDiagnose, with what the cycle makes of it. *)
LEMMA CyclePass ==
    ASSUME Cycle \/ Rediagnose
    PROVE  \E answer \in [Urls -> Outcomes], down \in SUBSET Reads, unpatched \in SUBSET Silences :
              /\ runDiagnose(answer, down, unpatched)
              /\ report' = CurrentState(Returned(answer, down))
BY DEF Cycle, Rediagnose, SomePass

LEMMA DiagnosePassed ==
    ASSUME Diagnose
    PROVE  \E answer \in [Urls -> Outcomes], down \in SUBSET Reads, unpatched \in SUBSET Silences :
              runDiagnose(answer, down, unpatched)
BY DEF Diagnose, SomePass
--------------------------------------------------------------------------------
LEMMA CycleInit == Init => CycleInv
<1> SUFFICES ASSUME Init PROVE CycleInv
  OBVIOUS
<1>1. CycleTypeOK
  BY DEF Init, CycleTypeOK
<1>2. StreaksOfFailures
  BY DEF Init, StreaksOfFailures
<1> QED BY <1>1, <1>2 DEF CycleInv

(* What a pass makes of the streak of one endpoint. *)
LEMMA PassStreaks ==
    ASSUME CycleInv, NEW answer \in [Urls -> Outcomes], NEW down, NEW unpatched,
           runDiagnose(answer, down, unpatched), NEW u \in Urls
    PROVE  /\ streaks'[u] \in Nat
           /\ lastProbe'[u] \in {"ok", "certain", "maybe"}
           /\ lastProbe'[u] = "ok" => streaks'[u] = 0
<1>1. streaks[u] \in Nat /\ lastProbe[u] \in {"ok", "certain", "maybe"}
      /\ (lastProbe[u] = "ok" => streaks[u] = 0)
  BY DEF CycleInv, CycleTypeOK, StreaksOfFailures
<1> DEFINE probed == {t.url : t \in Targets(down)}
<1>2. /\ streaks'[u] = IF u \in probed THEN record(streaks[u], answer[u] # "ok") ELSE streaks[u]
      /\ lastProbe'[u] = IF u \in probed THEN Kind(answer[u]) ELSE lastProbe[u]
  BY DEF runDiagnose
<1>3. record(streaks[u], answer[u] # "ok") \in Nat
  BY <1>1, MinOfTwo, CycleAssumption DEF record
<1>4. Kind(answer[u]) \in {"ok", "certain", "maybe"} /\ (Kind(answer[u]) = "ok" => answer[u] = "ok")
  BY DEF Kind
<1>5. answer[u] = "ok" => record(streaks[u], answer[u] # "ok") = 0
  BY DEF record
<1> HIDE DEF probed
<1> QED BY <1>1, <1>2, <1>3, <1>4, <1>5

LEMMA PassStep ==
    ASSUME CycleInv, NEW answer \in [Urls -> Outcomes], NEW down \in SUBSET Reads,
           NEW unpatched \in SUBSET Silences,
           runDiagnose(answer, down, unpatched), UNCHANGED <<raised, hosts>>,
           pc' \in {"idle", "fixed"}
    PROVE  CycleInv'
<1>1. /\ DOMAIN streaks' = Urls /\ streaks' = [u \in Urls |-> streaks'[u]]
      /\ lastProbe' = [u \in Urls |-> lastProbe'[u]]
  BY DEF runDiagnose
<1>2. faults' \in Nat
  <2>1. Cardinality(down) \in Nat /\ Cardinality(unpatched) \in Nat
    BY ReadsAreFinite, FS_Subset, FS_CardinalityType, CycleAssumption
  <2> QED BY <2>1 DEF runDiagnose, CycleInv, CycleTypeOK
<1>3. /\ streaks' \in [Urls -> Nat] /\ lastProbe' \in [Urls -> {"ok", "certain", "maybe"}]
      /\ StreaksOfFailures'
  BY <1>1, PassStreaks DEF StreaksOfFailures
<1> QED BY <1>2, <1>3 DEF CycleInv, CycleTypeOK

LEMMA CycleStep ==
    ASSUME CycleInv, [Next]_vars
    PROVE  CycleInv'
<1>1. CASE UNCHANGED vars
  BY <1>1 DEF vars, CycleInv, CycleTypeOK, StreaksOfFailures
<1>2. CASE Cycle \/ Rediagnose
  <2>1. UNCHANGED <<raised, hosts>> /\ pc' \in {"idle", "fixed"}
    BY <1>2 DEF Cycle, Rediagnose, CycleInv, CycleTypeOK
  <2> QED BY <1>2, <2>1, CyclePass, PassStep
<1>3. CASE Diagnose
  <2>1. UNCHANGED <<raised, hosts>> /\ pc' \in {"idle", "fixed"}
    BY <1>3 DEF Diagnose, SomePass
  <2> QED BY <1>3, <2>1, DiagnosePassed, PassStep
<1>4. CASE ClusterChanges
  <2>1. PICK d \in Diagnostics : raised' \in {raised \cup {d}, raised \ {d}}
    BY <1>4 DEF ClusterChanges
  <2>2. raised' \subseteq Diagnostics
    BY <2>1 DEF CycleInv, CycleTypeOK
  <2> QED
    BY <1>4, <2>2
    DEF ClusterChanges, watched, CycleInv, CycleTypeOK, StreaksOfFailures
<1>5. CASE NetChanges \/ \E s \in Silences : Expire(s) \/ Extend(s)
  BY <1>5
  DEF NetChanges, Expire, Extend, watched, CycleInv, CycleTypeOK,
      StreaksOfFailures
<1> QED BY <1>1, <1>2, <1>3, <1>4, <1>5 DEF Next

--------------------------------------------------------------------------------
(* The findings of a pass and the report made of them. *)
LEMMA TargetsNamed ==
    ASSUME CycleTypeOK, NEW down, NEW t \in Targets(down)
    PROVE  t.url \in Urls /\ \E origin \in Origins : t.name = <<origin, t.url>>
<1>1. \A origin \in Origins : hosts[origin] \subseteq Urls
  BY CycleAssumption DEF CycleTypeOK, Origins
<1>2. PICK origin \in Origins : \E u \in hosts[origin] : t = [url |-> u, name |-> <<origin, u>>]
  BY DEF Targets, learntApexTargets, DiscoverIngressTargets, Origins
<1> QED BY <1>1, <1>2

Found(answer, down) == Endpoints(Targets(down), answer) \cup raised
DownSeverity(answer, u) == endpointSeverity(answer[u], record(streaks[u], TRUE))
DownFinding(answer, origin, u) ==
    [source |-> EndpointsName, subject |-> <<origin, u>>, severity |-> DownSeverity(answer, u)]

(* A finding under the subject of an endpoint is the Endpoints probe's. *)
LEMMA EndpointFinding ==
    ASSUME CycleTypeOK, NEW answer, NEW down, NEW origin \in Origins, NEW u \in Urls,
           NEW f \in Found(answer, down), f.subject = <<origin, u>>
    PROVE  /\ \E t \in Targets(down) : t.url = u /\ answer[u] # "ok"
           /\ f = DownFinding(answer, origin, u)
<1>1. f \notin raised
  <2>1. <<origin, u>> \in {"static", "learnt", "ingress"} \X Urls
    BY DEF Origins
  <2>2. f \in Diagnostics => f.subject \notin {"static", "learnt", "ingress"} \X Urls
    BY SubjectAssumption, Zenon
  <2> QED BY <2>1, <2>2 DEF CycleTypeOK
<1>2. PICK t \in Targets(down) :
         /\ answer[t.url] # "ok"
         /\ f = [source |-> EndpointsName, subject |-> t.name,
                 severity |-> endpointSeverity(answer[t.url], record(streaks[t.url], TRUE))]
  BY <1>1 DEF Found, Endpoints
<1>3. t.url = u /\ t.name = <<origin, u>>
  <2>1. f.subject = t.name
    BY <1>2
  <2>2. PICK o \in Origins : t.name = <<o, t.url>>
    BY TargetsNamed
  <2> QED BY <2>1, <2>2
<1> QED BY <1>2, <1>3 DEF DownFinding, DownSeverity

(* The report of a pass has the severity of a finding that passed the filter. *)
LEMMA ReportedFinding ==
    ASSUME NEW findings, NEW s \in DOMAIN CurrentState(findings)
    PROVE  \E f \in findings : /\ f.subject = s
                               /\ CurrentState(findings)[s] = NormalizeSeverity(f.severity)
<1>1. \E f \in findings : f.subject = s
  BY DEF CurrentState
<1> DEFINE g == CHOOSE f \in findings : f.subject = s
<1>2. g \in findings /\ g.subject = s
  BY <1>1
<1>3. CurrentState(findings)[s] = NormalizeSeverity(g.severity)
  BY DEF CurrentState
<1> QED BY <1>2, <1>3

LEMMA EndsWithPass ==
    ASSUME CycleTypeOK, Next, CycleEnds, vars' # vars
    PROVE  Cycle \/ Rediagnose
<1>1. ~Diagnose
  BY DEF CycleEnds, Diagnose, SomePass
<1>2. ASSUME NetChanges \/ ClusterChanges \/ \E s \in Silences : Expire(s) \/ Extend(s)
      PROVE  FALSE
  <2>1. UNCHANGED watched
    BY <1>2 DEF NetChanges, ClusterChanges, Expire, Extend
  <2>2. UNCHANGED <<net, raised, open>>
    BY <2>1 DEF CycleEnds, watched
  <2> QED BY <2>1, <2>2 DEF watched, vars
<1> QED BY <1>1, <1>2 DEF Next

(* A pass no call of which failed has applied the Silences. *)
LEMMA NothingDown ==
    ASSUME CycleTypeOK, NEW answer, NEW down \in SUBSET Reads, NEW unpatched \in SUBSET Silences,
           runDiagnose(answer, down, unpatched), faults' = faults
    PROVE  down = {}
<1>1. IsFiniteSet(down) /\ IsFiniteSet(unpatched)
  BY ReadsAreFinite, FS_Subset, CycleAssumption
<1>2. Cardinality(down) \in Nat /\ Cardinality(unpatched) \in Nat
  BY <1>1, FS_CardinalityType
<1>3. faults \in Nat /\ faults' = faults + Cardinality(down) + Cardinality(unpatched)
  BY DEF CycleTypeOK, runDiagnose
<1>4. Cardinality(down) = 0
  BY <1>2, <1>3
<1> QED BY <1>1, <1>4, FS_EmptySet

(* Every diagnostic has a severity; without one it is reported as a warning and
   compared with a Silence as empty. *)
SeveritiesSet ==
    \A d \in Diagnostics : d = [d EXCEPT !.severity = NormalizeSeverity(@)]

(* Whatever the analyzers return, as long as they set a severity, however the
   endpoints answer and whichever Silences are open, a cycle without a failing
   call reports nothing that an open Silence matches. *)
THEOREM SilencesHold == ASSUME SeveritiesSet PROVE Spec => SilencedIsQuiet
<1> DEFINE Quiet ==
        /\ \A d \in raised : (Silenced(d) /\ d.subject \in DOMAIN report') =>
               \E e \in raised : /\ e.subject = d.subject /\ ~Silenced(e)
                                /\ report'[d.subject] = NormalizeSeverity(e.severity)
        /\ \A u \in Urls, origin \in Origins :
               LET subject == <<origin, u>>
               IN  subject \in DOMAIN report' =>
                       ~MatchesAny([source |-> EndpointsName, subject |-> subject,
                                    severity |-> report'[subject]])
<1>1. ASSUME CycleInv, [Next]_vars
      PROVE  [CycleEnds /\ faults' = faults => Quiet]_vars
  <2> SUFFICES ASSUME Next, vars' # vars, CycleEnds, faults' = faults
               PROVE  Quiet
    BY <1>1
  <2>1. CycleTypeOK
    BY <1>1 DEF CycleInv
  <2>2. PICK answer \in [Urls -> Outcomes], down \in SUBSET Reads, unpatched \in SUBSET Silences :
            /\ runDiagnose(answer, down, unpatched)
            /\ report' = CurrentState(Returned(answer, down))
    BY <2>1, EndsWithPass, CyclePass
  <2>3. down = {}
    BY <2>1, <2>2, NothingDown
  <2>4. \A f : f \in Returned(answer, down) <=>
                  f \in Found(answer, down) /\ ~MatchesAny(f)
    BY <2>3, Zenon DEF Returned, Filter, Found
  <2>5. \A s \in DOMAIN report' : \E f \in Returned(answer, down) :
            f.subject = s /\ report'[s] = NormalizeSeverity(f.severity)
    BY <2>2, ReportedFinding
  <2>6. ASSUME NEW d \in raised, d.subject \in DOMAIN report'
        PROVE  \E e \in raised : /\ e.subject = d.subject /\ ~Silenced(e)
                                /\ report'[d.subject] = NormalizeSeverity(e.severity)
    <3>1. PICK f \in Returned(answer, down) :
              f.subject = d.subject /\ report'[d.subject] = NormalizeSeverity(f.severity)
      BY <2>5, <2>6
    <3>2. d \in Diagnostics /\ d.subject \notin Origins \X Urls
      BY <2>1, SubjectAssumption DEF CycleTypeOK, Origins
    <3>3. f \in raised
      <4> SUFFICES ASSUME f \in Endpoints(Targets(down), answer)
                   PROVE  FALSE
        BY <2>4, <3>1 DEF Found
      <4>1. PICK t \in Targets(down) :
                f = [source |-> EndpointsName, subject |-> t.name,
                     severity |-> endpointSeverity(answer[t.url], record(streaks[t.url], TRUE))]
        BY DEF Endpoints
      <4>2. t.url \in Urls /\ \E origin \in Origins : t.name = <<origin, t.url>>
        BY <2>1, TargetsNamed
      <4>3. t.name \in Origins \X Urls
        BY <4>2
      <4> QED BY <3>1, <3>2, <4>1, <4>3
    <3>4. ~MatchesAny(f) /\ f = [f EXCEPT !.severity = NormalizeSeverity(@)]
      BY <2>1, <2>4, <3>1, <3>3 DEF SeveritiesSet, CycleTypeOK
    <3>5. ~Silenced(f)
      BY <3>4, Zenon DEF Silenced
    <3> QED BY <3>1, <3>3, <3>5
  <2>7. ASSUME NEW u \in Urls, NEW origin \in Origins, <<origin, u>> \in DOMAIN report'
        PROVE  ~MatchesAny([source |-> EndpointsName, subject |-> <<origin, u>>,
                            severity |-> report'[<<origin, u>>]])
    <3>1. PICK f \in Returned(answer, down) :
              f.subject = <<origin, u>> /\ report'[<<origin, u>>] = NormalizeSeverity(f.severity)
      BY <2>5, <2>7
    <3>2. f = DownFinding(answer, origin, u)
      BY <2>1, <2>4, <3>1, EndpointFinding
    <3>3. f.severity = DownSeverity(answer, u)
      BY <3>2, Zenon DEF DownFinding
    <3>4. report'[<<origin, u>>] = DownSeverity(answer, u)
      BY <3>1, <3>3 DEF NormalizeSeverity, DownSeverity, endpointSeverity
    <3> QED BY <2>4, <3>1, <3>2, <3>4, Zenon DEF DownFinding
  <2> QED BY <2>6, <2>7
<1>2. [][CycleEnds /\ faults' = faults => Quiet]_vars => SilencedIsQuiet
  BY PTL DEF SilencedIsQuiet
<1> QED BY <1>1, <1>2, CycleInit, CycleStep, PTL DEF Spec

(* For every threshold above one, while fixers do not run, a failure that may be a
   blip is critical only after a cycle that found it failing as well.  With a
   threshold of one every failure is critical at once, as the configuration asks. *)
THEOREM BlipsAreWarnings ==
    ASSUME MinConsecutiveFailures > 1
    PROVE  Spec => BlipIsNotCritical
<1> DEFINE Blip ==
        \A u \in Urls, origin \in Origins :
            (/\ CycleEnds /\ ~remediation
             /\ <<origin, u>> \in DOMAIN report' /\ report'[<<origin, u>>] = "critical"
             /\ lastProbe'[u] = "maybe")
            => lastProbe[u] # "ok"
<1>1. ASSUME CycleInv, [Next]_vars
      PROVE  [Blip]_vars
  <2> SUFFICES ASSUME Next, vars' # vars, CycleEnds, NEW u \in Urls, NEW origin \in Origins,
                      <<origin, u>> \in DOMAIN report', report'[<<origin, u>>] = "critical",
                      lastProbe'[u] = "maybe"
               PROVE  lastProbe[u] # "ok"
    BY <1>1
  <2>1. CycleTypeOK
    BY <1>1 DEF CycleInv
  <2>2. PICK answer \in [Urls -> Outcomes], down \in SUBSET Reads, unpatched \in SUBSET Silences :
            /\ runDiagnose(answer, down, unpatched)
            /\ report' = CurrentState(Returned(answer, down))
    BY <2>1, EndsWithPass, CyclePass
  <2>3. PICK f \in Returned(answer, down) :
            f.subject = <<origin, u>> /\ report'[<<origin, u>>] = NormalizeSeverity(f.severity)
    BY <2>2, ReportedFinding
  <2>4. f \in Found(answer, down)
    BY <2>3 DEF Returned, Filter, Found
  <2>5. /\ \E t \in Targets(down) : t.url = u
        /\ f = DownFinding(answer, origin, u)
    BY <2>1, <2>3, <2>4, EndpointFinding
  <2> DEFINE streak == record(streaks[u], TRUE)
  <2>6. f.severity = endpointSeverity(answer[u], streak)
    BY <2>5, Zenon DEF DownFinding, DownSeverity
  <2>7. endpointSeverity(answer[u], streak) = "critical"
    BY <2>3, <2>6 DEF NormalizeSeverity, endpointSeverity
  <2>8. lastProbe'[u] = Kind(answer[u])
    BY <2>2, <2>5 DEF runDiagnose
  <2>9. ~isDeterministicFailure(answer[u])
    BY <2>8 DEF Kind, isDeterministicFailure
  <2>10. streak >= MinConsecutiveFailures
    BY <2>7, <2>9 DEF endpointSeverity
  <2>11. streaks[u] \in Nat /\ MinConsecutiveFailures \in Nat
    BY <2>1, CycleAssumption DEF CycleTypeOK
  <2>12. streak <= streaks[u] + 1 /\ streak \in Nat
    BY <2>11, MinOfTwo DEF record
  <2> HIDE DEF streak
  <2>13. streaks[u] # 0
    BY <2>10, <2>11, <2>12
  <2> QED BY <1>1, <2>13 DEF CycleInv, StreaksOfFailures
<1>2. [][Blip]_vars => BlipIsNotCritical
  BY PTL DEF BlipIsNotCritical
<1> QED BY <1>1, <1>2, CycleInit, CycleStep, PTL DEF Spec
================================================================================
