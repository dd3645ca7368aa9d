------------------------- MODULE OperatorReconcile_proofs -------------------------
(***************************************************************************)
(* Theorems about OperatorReconcile, for every set of resources, specs,     *)
(* lagging caches and deletable kinds and for every bound.                  *)
(***************************************************************************)
EXTENDS OperatorReconcile, TLAPS

USE DEF Ensure, Delete

(* What the operator builds and tears down are objects of its kinds, and the
   signing key is never torn down. *)
LEMMA PlanType ==
    ASSUME NEW s \in Specs
    PROVE  /\ ReconcilePlan(s) \subseteq Call /\ FinalizePlan(s) \subseteq Call
           /\ Delete("signingKey") \notin ReconcilePlan(s) \cup FinalizePlan(s)
<1>1. Wanted(s) \subseteq Kinds
  BY DEF Wanted, ReaderWanted, WatcherWanted, CronWanted, AIWanted, MemoryWanted,
     ApprovalWanted, StoresWanted, ExposureWanted, On, Kinds, ClusterKinds, EventsKinds, StoresKinds,
         SilenceKinds, SigningKinds, ServerKinds
<1>2. TornDown(s) \subseteq Kinds /\ "signingKey" \notin TornDown(s)
  BY DEF TornDown, Kinds, ClusterKinds, EventsKinds, StoresKinds,
         SilenceKinds, SigningKinds, ServerKinds
<1>3. FinalizePlan(s) \subseteq Call /\ Delete("signingKey") \notin FinalizePlan(s)
  BY DEF FinalizePlan, Call, Kinds, ClusterKinds, EventsKinds
<1>4. ReconcilePlan(s) \subseteq Call
  BY <1>1, <1>2 DEF ReconcilePlan, Call
<1>5. Delete("signingKey") \notin ReconcilePlan(s)
  BY <1>2 DEF ReconcilePlan
<1> QED  BY <1>3, <1>4, <1>5

LEMMA TargetType ==
    ASSUME NEW call \in Call, NEW c \in CRs, NEW s \in Specs
    PROVE  Target(call, c, s) \in Object /\ Target(call, c, s).kind = call.kind
<1>1. s.auditNamespace \in Namespaces /\ s.storeNamespace \in Namespaces /\ s.secretName \in Secrets
  BY Names DEF SpecType
<1>2. call.kind \in Kinds
  BY DEF Call
<1> QED  BY <1>1, <1>2, Names DEF Target, Object

LEMMA ContentType ==
    ASSUME NEW kind \in Kinds, NEW s \in Specs
    PROVE  ContentFor(kind, s) \in Nat
<1>1. s.serviceAccountName \in Nat /\ s.version \in Nat
  BY Names DEF SpecType
<1> QED  BY <1>1 DEF ContentFor

LEMMA AbsentType == Absent \in Resource
<1>1. (CHOOSE s \in Specs : TRUE) \in Specs
  BY Names
<1> QED  BY <1>1 DEF Absent, Resource

--------------------------------------------------------------------------------
(* Objects as a function from some objects to what is stored for them. *)
Holds(f) == DOMAIN f \subseteq Object /\ \A o \in DOMAIN f : f[o] \in Stored

LEMMA WithHolds ==
    ASSUME NEW f, Holds(f), NEW o \in Object, NEW v \in Stored
    PROVE  Holds(With(f, o, v))
BY DEF With, Holds

LEMMA WithoutHolds ==
    ASSUME NEW f, Holds(f), NEW o
    PROVE  Holds(Without(f, o))
BY DEF Without, Holds

LEMMA WriteType ==
    ASSUME TypeOK, NEW o \in Object, NEW new, Holds(new), Write(o, new)
    PROVE  /\ Holds(objs') /\ Holds(cache')
           /\ behind' \subseteq Object \X SUBSET CRs
           /\ queue' \subseteq CRs
<1>1. Holds(objs) /\ Holds(cache)
  BY DEF TypeOK, Holds
<1>2. Notified(o, objs) \subseteq CRs /\ Notified(o, new) \subseteq CRs
  BY <1>1 DEF Notified, Holds, Stored
<1>3. Holds(objs')
  BY DEF Write
<1>4. Holds(cache')
  <2>1. CASE o \in DOMAIN new
    BY <2>1, <1>1, WithHolds DEF Write, Holds
  <2>2. CASE o \notin DOMAIN new
    BY <2>2, <1>1, WithoutHolds DEF Write
  <2> QED  BY <2>1, <2>2
<1> QED  BY <1>2, <1>3, <1>4 DEF Write, TypeOK
--------------------------------------------------------------------------------
(* What createOrUpdate and deleteIfExists leave in the API server. *)
LEMMA EnsuredHolds ==
    ASSUME TypeOK, NEW call \in Call, NEW c \in CRs, NEW o \in Object, o.kind = call.kind,
           ~Refused(call, o)
    PROVE  Holds(Ensured(call, c, o))
<1>1. Holds(objs) /\ Holds(cache)
  BY DEF TypeOK, Holds
<1>2. copy.uid \in Nat /\ copy.spec \in Specs /\ keys \in Nat
  BY DEF TypeOK, Resource
<1>3. Owner(o) \in Nat
  BY <1>2 DEF Owner
<1>4. ContentFor(call.kind, copy.spec) \in Nat
  BY <1>2, ContentType DEF Call
<1>5. CASE Creates(call, o)
  <2> DEFINE v == [owner |-> c, uid |-> Owner(o),
                   content |-> IF call.kind = "signingKey" THEN keys + 1
                               ELSE ContentFor(call.kind, copy.spec)]
  <2>1. v \in Stored
    BY <1>2, <1>3, <1>4 DEF Stored
  <2>2. Holds(With(objs, o, v))
    BY <2>1, <1>1, WithHolds
  <2> QED  BY <2>2, <1>1, <1>5 DEF Ensured
<1>6. CASE ~Creates(call, o) /\ call.kind # "signingKey"
  <2> DEFINE v == [objs[o] EXCEPT !.content = ContentFor(call.kind, copy.spec)]
  <2>1. o \in DOMAIN objs
    BY <1>6 DEF Refused
  <2>2. v \in Stored
    BY <2>1, <1>1, <1>4 DEF Stored, Holds
  <2>3. Holds(With(objs, o, v))
    BY <2>2, <1>1, WithHolds
  <2> QED  BY <2>3, <1>6 DEF Ensured
<1>7. CASE ~Creates(call, o) /\ call.kind = "signingKey"
  BY <1>1, <1>7 DEF Ensured
<1> QED  BY <1>5, <1>6, <1>7

LEMMA DeletedHolds ==
    ASSUME TypeOK, NEW call, NEW o
    PROVE  Holds(Deleted(call, o))
<1>1. Holds(objs)
  BY DEF TypeOK, Holds
<1> QED  BY <1>1, WithoutHolds DEF Deleted

(* One call of the worker. *)
LEMMA ChildType ==
    ASSUME TypeOK, NEW c \in CRs, NEW call \in plan, Child(c, call)
    PROVE  TypeOK'
<1> DEFINE o == Target(call, c, copy.spec)
<1>1. call \in Call /\ copy.spec \in Specs
  BY DEF TypeOK, Resource
<1>2. o \in Object /\ o.kind = call.kind
  BY <1>1, TargetType
<1>3. UNCHANGED <<cr, crCache, uids, edits>>
  BY DEF Child
<1>4. CASE Skip(call, c) /\ UNCHANGED <<objs, cache, behind, keys>> /\ faults' \in Nat
  BY <1>3, <1>4, AbsentType DEF Skip, Return, TypeOK
<1>5. ASSUME Ok, plan' = plan \ {call}, UNCHANGED <<busy, copy, failed>>, keys' \in Nat,
             NEW new, Holds(new), Write(o, new)
      PROVE  TypeOK'
  <2>1. /\ Holds(objs') /\ Holds(cache')
        /\ behind' \subseteq Object \X SUBSET CRs
        /\ queue' \subseteq CRs
    BY <1>2, <1>5, WriteType
  <2> QED  BY <1>3, <1>5, <2>1 DEF Ok, Holds, TypeOK
<1>6. CASE call.verb = "ensure" /\ Refused(call, o)
  BY <1>4, <1>6 DEF Child, Ok, TypeOK
<1>7. CASE ~(call.verb = "ensure" /\ Refused(call, o))
  <2>1. CASE Fails /\ Skip(call, c) /\ UNCHANGED <<objs, cache, behind, keys>>
    BY <1>4, <2>1 DEF Fails, TypeOK
  <2>2. CASE /\ Ok
             /\ Write(o, IF call.verb = "ensure" THEN Ensured(call, c, o) ELSE Deleted(call, o))
             /\ keys' = IF call = Ensure("signingKey") /\ Creates(call, o) THEN keys + 1 ELSE keys
             /\ plan' = plan \ {call}
             /\ UNCHANGED <<busy, copy, failed>>
    <3>1. Holds(IF call.verb = "ensure" THEN Ensured(call, c, o) ELSE Deleted(call, o))
      BY <1>1, <1>2, <1>7, EnsuredHolds, DeletedHolds
    <3>2. keys' \in Nat
      BY <2>2 DEF TypeOK
    <3> HIDE DEF o
    <3> QED  BY <1>5, <2>2, <3>1, <3>2
  <2> QED  BY <1>7, <2>1, <2>2 DEF Child
<1> QED  BY <1>6, <1>7

LEMMA ReturnType ==
    ASSUME TypeOK, NEW c \in CRs, NEW again \in BOOLEAN, Return(c, again)
    PROVE  /\ busy' \subseteq CRs /\ copy' \in Resource /\ plan' \subseteq Call
           /\ failed' \in BOOLEAN /\ queue' \subseteq CRs
<1>1. queue \subseteq CRs
  BY DEF TypeOK
<1>2. queue' \subseteq CRs
  <2>1. CASE again
    BY <1>1, <2>1 DEF Return
  <2>2. CASE ~again
    BY <1>1, <2>2 DEF Return
  <2> QED  BY <2>1, <2>2
<1> QED  BY <1>2, AbsentType DEF Return

LEMMA TypeStep == TypeOK /\ [Next]_vars => TypeOK'
<1> SUFFICES ASSUME TypeOK, [Next]_vars PROVE TypeOK'
  OBVIOUS
<1> USE AbsentType
<1>1. ASSUME NEW c \in CRs, Ignore(c) PROVE TypeOK'
  BY <1>1 DEF Ignore, Return, TypeOK
<1>2. ASSUME NEW c \in CRs, finalizeReaderRBAC(c) PROVE TypeOK'
  <2>1. crCache[c] \in Resource /\ FinalizePlan(crCache[c].spec) \subseteq Call
    BY PlanType DEF TypeOK, Resource
  <2> QED  BY <1>2, <2>1 DEF finalizeReaderRBAC, Begin, TypeOK
<1>3. ASSUME NEW c \in CRs, Reconcile(c) PROVE TypeOK'
  <2> DEFINE r == [crCache[c] EXCEPT !.finalizer = TRUE]
  <2>1. r \in Resource
    BY DEF TypeOK, Resource
  <2>2. ReconcilePlan(r.spec) \subseteq Call
    BY <2>1, PlanType DEF Resource
  <2>3. CASE Return(c, TRUE) /\ UNCHANGED cr /\ faults' \in Nat
    BY <1>3, <2>3 DEF Reconcile, Return, TypeOK
  <2>4. CASE /\ Ok
             /\ cr' = IF crCache[c].finalizer THEN cr ELSE [cr EXCEPT ![c] = r]
             /\ Begin(c, r, IF Valid(r.spec) THEN ReconcilePlan(r.spec) ELSE {})
    BY <1>3, <2>1, <2>2, <2>4 DEF Reconcile, Ok, Begin, TypeOK
  <2>5. (Ok \/ Fails) => faults' \in Nat
    BY DEF Ok, Fails, TypeOK
  <2>6. CASE crCache[c].finalizer \/ crCache[c] = cr[c]
    BY <1>3, <2>3, <2>4, <2>5, <2>6 DEF Reconcile
  <2>7. CASE ~(crCache[c].finalizer \/ crCache[c] = cr[c])
    BY <1>3, <2>3, <2>5, <2>7 DEF Reconcile
  <2> QED  BY <2>6, <2>7
<1>4. ASSUME NEW c \in CRs, NEW ready \in {"true", "false", "invalid"}, updateStatus(c, ready)
      PROVE  TypeOK'
  <2>1. cr' \in [CRs -> Resource]
    BY <1>4 DEF updateStatus, TypeOK, Resource
  <2>2. PICK again \in BOOLEAN : Return(c, again)
    <3>1. failed \in BOOLEAN /\ (failed \/ ~Valid(copy.spec)) \in BOOLEAN
      BY DEF TypeOK
    <3>2. Return(c, failed) \/ Return(c, failed \/ ~Valid(copy.spec))
      BY <1>4 DEF updateStatus
    <3> QED  BY <3>1, <3>2
  <2>3. faults' \in Nat /\ UNCHANGED <<crCache, objs, cache, behind, uids, keys, edits>>
    BY <1>4 DEF updateStatus, Ok, Fails, TypeOK
  <2> QED  BY <2>1, <2>2, <2>3, ReturnType DEF TypeOK
<1>5. ASSUME NEW c \in CRs, RemoveFinalizer(c) PROVE TypeOK'
  <2>1. cr' \in [CRs -> Resource]
    BY <1>5 DEF RemoveFinalizer, TypeOK
  <2>2. PICK again \in BOOLEAN : Return(c, again)
    BY <1>5 DEF RemoveFinalizer
  <2>3. faults' \in Nat /\ UNCHANGED <<crCache, objs, cache, behind, uids, keys, edits>>
    <3>1. Ok \/ Fails
      BY <1>5 DEF RemoveFinalizer
    <3>2. faults' \in Nat
      BY <3>1 DEF Ok, Fails, TypeOK
    <3> QED  BY <1>5, <3>2 DEF RemoveFinalizer
  <2> QED  BY <2>1, <2>2, <2>3, ReturnType DEF TypeOK
<1>6. ASSUME NEW c \in CRs, SyncCR(c) PROVE TypeOK'
  BY <1>6 DEF SyncCR, TypeOK, worker
<1>7. ASSUME NEW e \in behind, SyncObject(e[1]) PROVE TypeOK'
  <2> DEFINE o == e[1]
  <2>1. o \in Object /\ Holds(objs) /\ Holds(cache)
    BY DEF TypeOK, Holds
  <2>2. Holds(cache')
    <3>1. CASE o \in DOMAIN objs
      BY <1>7, <2>1, <3>1, WithHolds DEF SyncObject, Holds
    <3>2. CASE o \notin DOMAIN objs
      BY <1>7, <2>1, <3>2, WithoutHolds DEF SyncObject
    <3> QED  BY <3>1, <3>2
  <2>3. queue' \subseteq CRs /\ behind' \subseteq behind
    BY <1>7 DEF SyncObject, TypeOK
  <2> QED  BY <1>7, <2>1, <2>2, <2>3 DEF SyncObject, TypeOK, worker, Holds
<1>8. ASSUME NEW c \in CRs, DeleteCR(c) PROVE TypeOK'
  <2>1. cr' \in [CRs -> Resource]
    BY <1>8 DEF DeleteCR, TypeOK, Resource
  <2> QED  BY <1>8, <2>1 DEF DeleteCR, Edit, TypeOK, worker
<1>9. ASSUME NEW c \in CRs, NEW s \in Specs, Apply(c, s) PROVE TypeOK'
  <2>1. [Absent EXCEPT !.uid = uids + 1, !.spec = s] \in Resource
    <3>1. uids + 1 \in Nat
      BY DEF TypeOK
    <3> QED  BY <3>1 DEF Resource, Absent
  <2>2. [cr[c] EXCEPT !.spec = s] \in Resource
    BY DEF TypeOK, Resource
  <2>3. uids' \in Nat
    BY <1>9 DEF Apply, TypeOK
  <2>4. cr' \in [CRs -> Resource]
    <3>1. CASE cr[c].uid = 0
      BY <1>9, <2>1, <3>1 DEF Apply, TypeOK
    <3>2. CASE cr[c].uid # 0
      BY <1>9, <2>2, <3>2 DEF Apply, TypeOK
    <3> QED  BY <3>1, <3>2
  <2> QED  BY <1>9, <2>3, <2>4 DEF Apply, Edit, TypeOK, worker
<1>10. ASSUME NEW o \in DOMAIN objs, DeleteObject(o) \/ CollectGarbage(o) PROVE TypeOK'
  <2>1. o \in Object /\ Holds(Without(objs, o)) /\ Write(o, Without(objs, o))
    BY <1>10, WithoutHolds DEF TypeOK, Holds, DeleteObject, CollectGarbage
  <2>2. /\ Holds(objs') /\ Holds(cache')
        /\ behind' \subseteq Object \X SUBSET CRs
        /\ queue' \subseteq CRs
    BY <2>1, WriteType
  <2>3. UNCHANGED <<cr, crCache, worker, uids, keys, faults>> /\ edits' \in Nat
    BY <1>10 DEF DeleteObject, CollectGarbage, Edit, TypeOK
  <2> QED  BY <2>2, <2>3 DEF TypeOK, Holds, worker
<1>11. ASSUME Restart PROVE TypeOK'
  <2>1. queue' \subseteq CRs /\ edits' \in Nat
    BY <1>11 DEF Restart, Edit, TypeOK
  <2>2. Holds(cache') /\ Holds(objs')
    BY <1>11 DEF Restart, Holds, TypeOK
  <2>3. busy' = {} /\ copy' \in Resource /\ plan' = {} /\ failed' = FALSE /\ behind' = {}
    BY <1>11 DEF Restart
  <2>4. crCache' = cr /\ UNCHANGED <<cr, uids, keys, faults>>
    BY <1>11 DEF Restart
  <2> QED  BY <2>1, <2>2, <2>3, <2>4 DEF TypeOK, Holds
<1>12. ASSUME UNCHANGED vars PROVE TypeOK'
  BY <1>12 DEF vars, worker, TypeOK
<1> QED
  BY <1>1, <1>2, <1>3, <1>4, <1>5, <1>6, <1>7, <1>8, <1>9, <1>10, <1>11, <1>12, ChildType
  DEF Next, Worker, Informers, Environment

(* The worker's copy, its plan, the caches and the objects keep their shape: no
   call of a reconcile is about an object that its kind does not allow. *)
THEOREM TypeCorrect == Spec => []TypeOK
<1>1. Init => TypeOK
  <2> SUFFICES ASSUME Init PROVE TypeOK
    OBVIOUS
  <2>1. DOMAIN objs = {} /\ DOMAIN cache = {}
    BY DEF Init
  <2>2. cr \in [CRs -> Resource] /\ crCache \in [CRs -> Resource] /\ copy \in Resource
    BY AbsentType DEF Init
  <2> QED  BY <2>1, <2>2 DEF Init, TypeOK
<1> QED  BY <1>1, TypeStep, PTL DEF Spec
--------------------------------------------------------------------------------
PlanSparesKeys == Delete("signingKey") \notin plan

LEMMA PlanSparesKeysStep == TypeOK /\ PlanSparesKeys /\ [Next]_vars => PlanSparesKeys'
<1> SUFFICES ASSUME TypeOK, PlanSparesKeys, [Next]_vars PROVE PlanSparesKeys'
  OBVIOUS
<1>1. CASE plan' \subseteq plan
  BY <1>1 DEF PlanSparesKeys
<1>2. ASSUME NEW c \in CRs, finalizeReaderRBAC(c) PROVE PlanSparesKeys'
  <2>1. crCache[c].spec \in Specs
    BY DEF TypeOK, Resource
  <2> QED  BY <1>2, <2>1, PlanType DEF finalizeReaderRBAC, Begin, PlanSparesKeys
<1>3. ASSUME NEW c \in CRs, Reconcile(c) PROVE PlanSparesKeys'
  <2>1. [crCache[c] EXCEPT !.finalizer = TRUE].spec \in Specs
    BY DEF TypeOK, Resource
  <2>2. Delete("signingKey") \notin ReconcilePlan([crCache[c] EXCEPT !.finalizer = TRUE].spec)
    BY <2>1, PlanType
  <2> QED  BY <1>3, <2>2 DEF Reconcile, Begin, Return, PlanSparesKeys
<1>4. ASSUME NEW c \in CRs, NEW call \in plan, Child(c, call) PROVE plan' \subseteq plan
  BY <1>4 DEF Child, Skip, Return
<1>5. ASSUME NEW c \in CRs, Ignore(c) PROVE plan' \subseteq plan
  BY <1>5 DEF Ignore, Return
<1>6. ASSUME NEW c \in CRs, NEW ready, updateStatus(c, ready) PROVE plan' \subseteq plan
  BY <1>6 DEF updateStatus, Return
<1>7. ASSUME NEW c \in CRs, RemoveFinalizer(c) PROVE plan' \subseteq plan
  BY <1>7 DEF RemoveFinalizer, Return
<1>8. ASSUME Informers \/ Environment PROVE plan' \subseteq plan
  BY <1>8 DEF Informers, Environment, SyncCR, SyncObject, DeleteCR, Apply, DeleteObject,
              CollectGarbage, Restart, worker
<1>9. ASSUME UNCHANGED vars PROVE plan' \subseteq plan
  BY <1>9 DEF vars, worker
<1> QED
  BY <1>1, <1>2, <1>3, <1>4, <1>5, <1>6, <1>7, <1>8, <1>9 DEF Next, Worker

(* A write about another object leaves an object alone. *)
LEMMA KeyStep ==
    TypeOK /\ PlanSparesKeys /\ "signingKey" \notin Deletable /\ [Next]_vars => KeepsKeys
<1> SUFFICES ASSUME TypeOK, PlanSparesKeys, "signingKey" \notin Deletable, [Next]_vars,
                    NEW o \in DOMAIN objs, o.kind = "signingKey",
                    cr[objs[o].owner].uid = objs[o].uid
             PROVE  o \in DOMAIN objs' /\ objs'[o].content = objs[o].content
  BY DEF KeepsKeys
<1>1. CASE UNCHANGED objs
  BY <1>1
<1>2. ASSUME NEW x \in DOMAIN objs, DeleteObject(x) \/ CollectGarbage(x)
      PROVE  o \in DOMAIN objs' /\ objs'[o].content = objs[o].content
  <2>1. x # o /\ objs' = Without(objs, x)
    BY <1>2 DEF DeleteObject, CollectGarbage, Write
  <2> QED  BY <2>1 DEF Without
<1>3. ASSUME NEW c \in CRs, NEW call \in plan, Child(c, call)
      PROVE  o \in DOMAIN objs' /\ objs'[o].content = objs[o].content
  <2> DEFINE x == Target(call, c, copy.spec)
  <2>1. call \in Call /\ x.kind = call.kind
    BY TargetType DEF TypeOK, Resource
  <2>2. CASE call.verb = "ensure" /\ objs' = Ensured(call, c, x)
    <3>1. CASE Creates(call, x)
      BY <2>2, <3>1 DEF Ensured, With
    <3>2. CASE ~Creates(call, x) /\ call.kind = "signingKey"
      BY <2>2, <3>2 DEF Ensured
    <3>3. CASE ~Creates(call, x) /\ call.kind # "signingKey"
      BY <2>1, <2>2, <3>3 DEF Ensured, With
    <3> QED  BY <3>1, <3>2, <3>3
  <2>3. CASE call.verb = "delete" /\ objs' = Deleted(call, x)
    <3>1. call = Delete(call.kind)
      BY <2>1, <2>3 DEF Call
    <3>2. call.kind # "signingKey"
      BY <3>1 DEF PlanSparesKeys
    <3> QED  BY <2>1, <2>3, <3>2 DEF Deleted, Without
  <2>4. \/ UNCHANGED objs
        \/ call.verb = "ensure" /\ objs' = Ensured(call, c, x)
        \/ call.verb = "delete" /\ objs' = Deleted(call, x)
    BY <1>3, <2>1 DEF Child, Write, Call
  <2> QED  BY <1>1, <2>2, <2>3, <2>4
<1>4. ASSUME NEW c \in CRs, Ignore(c) \/ finalizeReaderRBAC(c) \/ Reconcile(c) \/ RemoveFinalizer(c)
      PROVE  UNCHANGED objs
  BY <1>4 DEF Ignore, finalizeReaderRBAC, Reconcile, RemoveFinalizer
<1>5. ASSUME NEW c \in CRs, NEW ready, updateStatus(c, ready) PROVE UNCHANGED objs
  BY <1>5 DEF updateStatus
<1>6. ASSUME Informers PROVE UNCHANGED objs
  BY <1>6 DEF Informers, SyncCR, SyncObject
<1>7. ASSUME NEW c \in CRs, DeleteCR(c) \/ \E s \in Specs : Apply(c, s) PROVE UNCHANGED objs
  BY <1>7 DEF DeleteCR, Apply
<1>8. ASSUME Restart \/ UNCHANGED vars PROVE UNCHANGED objs
  BY <1>8 DEF Restart, vars
<1> QED
  BY <1>1, <1>2, <1>3, <1>4, <1>5, <1>6, <1>7, <1>8 DEF Next, Worker, Environment

(* Unless users delete it, a signing key is neither replaced nor removed while
   the resource that owns it exists (reconcileSigningKeySecret, the teardown
   list of reconcileApprovalServer, finalizeReaderRBAC), whatever fails, lags,
   is switched off and on or restarted. *)
THEOREM KeySafe == "signingKey" \notin Deletable => (Spec => KeyKept)
<1> SUFFICES ASSUME "signingKey" \notin Deletable PROVE Spec => KeyKept
  OBVIOUS
<1>1. Init => PlanSparesKeys
  BY DEF Init, PlanSparesKeys
<1>2. TypeOK /\ PlanSparesKeys /\ [Next]_vars => [KeepsKeys]_vars
  BY KeyStep
<1> QED  BY <1>1, <1>2, PlanSparesKeysStep, TypeCorrect, PTL DEF Spec, KeyKept
--------------------------------------------------------------------------------
(* The inductive invariant behind NothingOutlives.  The informer's copy of a
   resource is a copy of its past, and a resource seen with the finalizer and
   without a deletion time is still there. *)
CopiesOfThePast ==
    \A c \in CRs :
        /\ cr[c].uid <= uids /\ crCache[c].uid <= uids
        /\ crCache[c].uid = 0 => ~crCache[c].deleting
        /\ crCache[c].deleting /\ crCache[c].uid = cr[c].uid => cr[c].deleting
        /\ crCache[c].uid # 0 /\ crCache[c].finalizer /\ ~crCache[c].deleting =>
              cr[c].uid = crCache[c].uid /\ cr[c].finalizer
        /\ cr[c].uid = 0 => ~cr[c].deleting /\ ~cr[c].finalizer

(* So is the worker's copy; what it creates objects for cannot go away while it
   works, and a finalizer only deletes. *)
WorkerKnows ==
    \A c \in busy :
        /\ busy = {c}
        /\ copy.uid # 0 /\ copy.uid <= uids
        /\ copy.deleting /\ copy.uid = cr[c].uid => cr[c].deleting
        /\ copy.deleting /\ copy.uid = crCache[c].uid => crCache[c].deleting
        /\ ~copy.deleting => cr[c].uid = copy.uid /\ cr[c].finalizer
        /\ copy.deleting => \A call \in plan : call.verb = "delete"

Exposed(o) == objs[o].uid = 0 /\ o.name # Shared

(* Objects without owner reference exist for resources with a finalizer only,
   and are where that finalizer looks for them. *)
ExposedIsKnown ==
    \A o \in DOMAIN objs : Exposed(o) =>
        /\ cr[objs[o].owner].finalizer
        /\ o.name = objs[o].owner
        /\ \/ o.kind \in {"readerBinding", "fixerBinding"} /\ o.ns = Cluster
           \/ o.kind \in EventsKinds /\ o.ns # Home /\ \A s \in Specs : s.auditNamespace = o.ns

(* Informers that do not lag know of every object. *)
CacheComplete ==
    \A o \in DOMAIN objs : o.kind \notin Lagging => o \in DOMAIN cache

(* What the finalizer has not deleted yet is still in its plan. *)
SweepPlanned ==
    \A c \in busy : copy.deleting =>
        \A o \in DOMAIN objs : Exposed(o) /\ objs[o].owner = c => Delete(o.kind) \in plan

CleanupInv == CopiesOfThePast /\ WorkerKnows /\ ExposedIsKnown /\ CacheComplete /\ SweepPlanned
Known == CopiesOfThePast /\ WorkerKnows

(* Steps that leave the resources alone and at most let the worker go on. *)
LEMMA KnownStill ==
    ASSUME Known, UNCHANGED <<cr, crCache, uids>>,
           busy' = {} \/ (UNCHANGED <<busy, copy>> /\ plan' \subseteq plan)
    PROVE  Known'
<1>1. CopiesOfThePast'
  BY DEF Known, CopiesOfThePast
<1>2. CASE busy' = {}
  BY <1>1, <1>2 DEF Known, WorkerKnows
<1>3. CASE UNCHANGED <<busy, copy>> /\ plan' \subseteq plan
  BY <1>1, <1>3 DEF Known, WorkerKnows
<1> QED  BY <1>2, <1>3

LEMMA KnownStep == TypeOK /\ Known /\ [Next]_vars => Known'
<1> SUFFICES ASSUME TypeOK, Known, [Next]_vars PROVE Known'
  OBVIOUS
<1>1. ASSUME NEW c \in CRs, Ignore(c) PROVE Known'
  <2>1. UNCHANGED <<cr, crCache, uids>> /\ busy' = {}
    BY <1>1 DEF Ignore, Return
  <2> QED  BY <2>1, KnownStill
<1>2. ASSUME NEW c \in CRs, finalizeReaderRBAC(c) PROVE Known'
  <2>1. UNCHANGED <<cr, crCache, uids>> /\ busy' = {c} /\ copy' = crCache[c]
    BY <1>2 DEF finalizeReaderRBAC, Begin
  <2>2. CopiesOfThePast'
    BY <2>1 DEF Known, CopiesOfThePast
  <2>3. \A call \in plan' : call.verb = "delete"
    <3>1. plan' = FinalizePlan(crCache[c].spec)
      BY <1>2 DEF finalizeReaderRBAC, Begin
    <3>2. CASE crCache[c].spec.auditNamespace = Home
      BY <3>1, <3>2 DEF FinalizePlan
    <3>3. CASE crCache[c].spec.auditNamespace # Home
      BY <3>1, <3>3 DEF FinalizePlan
    <3> QED  BY <3>2, <3>3
  <2>4. WorkerKnows'
    BY <1>2, <2>1, <2>3 DEF finalizeReaderRBAC, Known, CopiesOfThePast, WorkerKnows
  <2> QED  BY <2>2, <2>4 DEF Known
<1>3. ASSUME NEW c \in CRs, Reconcile(c) PROVE Known'
  <2> DEFINE r == [crCache[c] EXCEPT !.finalizer = TRUE]
  <2>1. CASE Return(c, TRUE) /\ UNCHANGED cr
    <3>1. UNCHANGED <<cr, crCache, uids>> /\ busy' = {}
      BY <1>3, <2>1 DEF Reconcile, Return
    <3> QED  BY <3>1, KnownStill
  <2>2. CASE /\ crCache[c].finalizer \/ crCache[c] = cr[c]
             /\ cr' = IF crCache[c].finalizer THEN cr ELSE [cr EXCEPT ![c] = r]
             /\ Begin(c, r, IF Valid(r.spec) THEN ReconcilePlan(r.spec) ELSE {})
    <3>1. /\ UNCHANGED <<crCache, uids>> /\ busy' = {c} /\ copy' = r
          /\ crCache[c].uid # 0 /\ ~crCache[c].deleting
      BY <1>3, <2>2 DEF Reconcile, Begin
    <3>2. r.uid = crCache[c].uid /\ r.finalizer /\ ~r.deleting
      BY <3>1 DEF TypeOK, Resource
    <3>3. /\ \A d \in CRs : d # c => cr'[d] = cr[d]
          /\ cr'[c].uid = cr[c].uid /\ cr'[c].deleting = cr[c].deleting
          /\ cr'[c].uid = r.uid /\ cr'[c].finalizer
          /\ cr[c].finalizer => cr'[c].finalizer
      <4>1. CASE crCache[c].finalizer
        BY <2>2, <3>1, <3>2, <4>1 DEF Known, CopiesOfThePast
      <4>2. CASE ~crCache[c].finalizer
        BY <2>2, <3>1, <3>2, <4>2 DEF TypeOK, Resource
      <4> QED  BY <4>1, <4>2
    <3> HIDE DEF r
    <3>4. CopiesOfThePast'
      BY <3>1, <3>2, <3>3 DEF Known, CopiesOfThePast
    <3>5. WorkerKnows'
      BY <3>1, <3>2, <3>3 DEF Known, CopiesOfThePast, WorkerKnows
    <3> QED  BY <3>4, <3>5 DEF Known
  <2> HIDE DEF r
  <2>3. CASE crCache[c].finalizer \/ crCache[c] = cr[c]
    BY <1>3, <2>1, <2>2, <2>3 DEF Reconcile, r
  <2>4. CASE ~(crCache[c].finalizer \/ crCache[c] = cr[c])
    BY <1>3, <2>1, <2>4 DEF Reconcile
  <2> QED  BY <2>3, <2>4
<1>4. ASSUME NEW c \in CRs, NEW ready, updateStatus(c, ready) PROVE Known'
  <2>1. UNCHANGED <<crCache, uids>> /\ busy' = {}
    BY <1>4 DEF updateStatus, Return
  <2>2. \A d \in CRs : /\ cr'[d].uid = cr[d].uid /\ cr'[d].deleting = cr[d].deleting
                        /\ cr'[d].finalizer = cr[d].finalizer
    BY <1>4 DEF updateStatus, TypeOK, Resource
  <2>3. CopiesOfThePast'
    BY <2>1, <2>2 DEF Known, CopiesOfThePast
  <2> QED  BY <2>1, <2>3 DEF Known, WorkerKnows
<1>5. ASSUME NEW c \in CRs, RemoveFinalizer(c) PROVE Known'
  <2>1. UNCHANGED <<crCache, uids>> /\ busy' = {} /\ c \in busy /\ copy.deleting
    BY <1>5 DEF RemoveFinalizer, Return
  <2>2. CASE UNCHANGED cr
    BY <2>1, <2>2, KnownStill
  <2>3. CASE cr[c] = copy /\ cr' = [cr EXCEPT ![c] = Absent]
    <3>1. /\ \A d \in CRs : d # c => cr'[d] = cr[d]
          /\ cr'[c].uid = 0 /\ ~cr'[c].deleting /\ ~cr'[c].finalizer
      BY <2>3 DEF TypeOK, Absent
    <3>2. ~(crCache[c].uid # 0 /\ crCache[c].finalizer /\ ~crCache[c].deleting)
      BY <2>1, <2>3 DEF Known, CopiesOfThePast, WorkerKnows
    <3>3. uids \in Nat
      BY DEF TypeOK
    <3>4. CopiesOfThePast'
      BY <2>1, <3>1, <3>2, <3>3 DEF Known, CopiesOfThePast
    <3> QED  BY <2>1, <3>4 DEF Known, WorkerKnows
  <2> QED  BY <1>5, <2>2, <2>3 DEF RemoveFinalizer
<1>6. ASSUME NEW c \in CRs, SyncCR(c) PROVE Known'
  <2>1. /\ UNCHANGED <<cr, uids, busy, copy, plan>>
        /\ crCache'[c] = cr[c] /\ \A d \in CRs : d # c => crCache'[d] = crCache[d]
    BY <1>6 DEF SyncCR, worker, TypeOK
  <2>2. CopiesOfThePast'
    BY <2>1 DEF Known, CopiesOfThePast
  <2>3. WorkerKnows'
    <3> SUFFICES ASSUME NEW d \in busy
                 PROVE  copy.deleting /\ copy.uid = crCache'[d].uid => crCache'[d].deleting
      BY <2>1 DEF Known, WorkerKnows
    <3>1. d \in CRs
      BY DEF TypeOK
    <3> QED  BY <2>1, <3>1 DEF Known, WorkerKnows
  <2> QED  BY <2>2, <2>3 DEF Known
<1>7. ASSUME NEW c \in CRs, DeleteCR(c) PROVE Known'
  <2>1. UNCHANGED <<crCache, uids, busy, copy, plan>>
    BY <1>7 DEF DeleteCR, worker
  <2>2. /\ \A d \in CRs : d # c => cr'[d] = cr[d]
        /\ cr[c].finalizer => cr'[c].uid = cr[c].uid /\ cr'[c].finalizer /\ cr'[c].deleting
        /\ ~cr[c].finalizer => cr'[c].uid = 0 /\ ~cr'[c].deleting /\ ~cr'[c].finalizer
    BY <1>7 DEF DeleteCR, TypeOK, Resource, Absent
  <2>3. uids \in Nat /\ cr[c].uid # 0
    BY <1>7 DEF TypeOK, DeleteCR
  <2>4. CopiesOfThePast'
    BY <2>1, <2>2, <2>3 DEF Known, CopiesOfThePast
  <2>5. WorkerKnows'
    <3> SUFFICES ASSUME NEW d \in busy
                 PROVE  /\ copy.deleting /\ copy.uid = cr'[d].uid => cr'[d].deleting
                        /\ ~copy.deleting => cr'[d].uid = copy.uid /\ cr'[d].finalizer
      BY <2>1 DEF Known, WorkerKnows
    <3>1. d \in CRs
      BY DEF TypeOK
    <3> QED  BY <2>1, <2>2, <3>1 DEF Known, WorkerKnows
  <2> QED  BY <2>4, <2>5 DEF Known
<1>8. ASSUME NEW c \in CRs, NEW s \in Specs, Apply(c, s) PROVE Known'
  <2>1. UNCHANGED <<crCache, busy, copy, plan>>
    BY <1>8 DEF Apply, worker
  <2>2. \A d \in CRs : d # c => cr'[d] = cr[d]
    BY <1>8 DEF Apply, TypeOK
  <2>3. uids \in Nat /\ \A d \in CRs : cr[d].uid \in Nat /\ crCache[d].uid \in Nat
    BY DEF TypeOK, Resource
  <2>4. copy.uid \in Nat /\ \A d \in busy : d \in CRs
    BY DEF TypeOK, Resource
  <2>5. CASE cr[c].uid = 0
    <3> DEFINE new == [Absent EXCEPT !.uid = uids + 1, !.spec = s]
    <3>1. new.uid = uids + 1 /\ ~new.deleting /\ ~new.finalizer
      BY DEF Absent
    <3>2. /\ cr'[c].uid = uids + 1 /\ ~cr'[c].deleting /\ ~cr'[c].finalizer
          /\ uids' = uids + 1
      <4>1. cr' = [cr EXCEPT ![c] = new] /\ uids' = uids + 1
        BY <1>8, <2>5 DEF Apply
      <4> HIDE DEF new
      <4> QED  BY <3>1, <4>1 DEF TypeOK
    <3>3. CopiesOfThePast'
      BY <2>1, <2>2, <2>3, <2>5, <3>2 DEF Known, CopiesOfThePast
    <3>4. WorkerKnows'
      <4> SUFFICES ASSUME NEW d \in busy
                   PROVE  /\ copy.uid <= uids'
                          /\ copy.deleting /\ copy.uid = cr'[d].uid => cr'[d].deleting
                          /\ ~copy.deleting => cr'[d].uid = copy.uid /\ cr'[d].finalizer
        BY <2>1 DEF Known, WorkerKnows
      <4> QED  BY <2>2, <2>3, <2>4, <2>5, <3>2 DEF Known, WorkerKnows
    <3> QED  BY <3>3, <3>4 DEF Known
  <2>6. CASE cr[c].uid # 0
    <3>1. /\ cr'[c].uid = cr[c].uid /\ cr'[c].deleting = cr[c].deleting
          /\ cr'[c].finalizer = cr[c].finalizer /\ uids' = uids
      BY <1>8, <2>6 DEF Apply, TypeOK, Resource
    <3>2. CopiesOfThePast'
      BY <2>1, <2>2, <3>1 DEF Known, CopiesOfThePast
    <3>3. WorkerKnows'
      <4> SUFFICES ASSUME NEW d \in busy
                   PROVE  /\ copy.deleting /\ copy.uid = cr'[d].uid => cr'[d].deleting
                          /\ ~copy.deleting => cr'[d].uid = copy.uid /\ cr'[d].finalizer
        BY <2>1, <3>1 DEF Known, WorkerKnows
      <4> QED  BY <2>2, <2>4, <3>1 DEF Known, WorkerKnows
    <3> QED  BY <3>2, <3>3 DEF Known
  <2> QED  BY <2>5, <2>6
<1>9. ASSUME NEW c \in CRs, NEW call \in plan, Child(c, call) PROVE Known'
  <2>1. /\ UNCHANGED <<cr, crCache, uids>>
        /\ busy' = {} \/ (UNCHANGED <<busy, copy>> /\ plan' \subseteq plan)
    BY <1>9 DEF Child, Skip, Return
  <2> QED  BY <2>1, KnownStill
<1>10. ASSUME NEW o, SyncObject(o) \/ DeleteObject(o) \/ CollectGarbage(o) PROVE Known'
  <2>1. UNCHANGED <<cr, crCache, uids, busy, copy, plan>>
    BY <1>10 DEF SyncObject, DeleteObject, CollectGarbage, worker
  <2> QED  BY <2>1, KnownStill
<1>11. ASSUME Restart PROVE Known'
  <2>1. crCache' = cr /\ busy' = {} /\ UNCHANGED <<cr, uids>>
    BY <1>11 DEF Restart
  <2> QED  BY <2>1 DEF Known, CopiesOfThePast, WorkerKnows
<1>12. ASSUME UNCHANGED vars PROVE Known'
  <2>1. UNCHANGED <<cr, crCache, uids, busy, copy, plan>>
    BY <1>12 DEF vars, worker
  <2> QED  BY <2>1, KnownStill
<1> QED
  BY <1>1, <1>2, <1>3, <1>4, <1>5, <1>6, <1>7, <1>8, <1>9, <1>10, <1>11, <1>12
  DEF Next, Worker, Informers, Environment
--------------------------------------------------------------------------------
LEMMA WriteComplete ==
    ASSUME CacheComplete, NEW o, NEW new, Write(o, new), DOMAIN new \subseteq DOMAIN objs \cup {o}
    PROVE  CacheComplete'
<1> SUFFICES ASSUME NEW x \in DOMAIN objs', x.kind \notin Lagging PROVE x \in DOMAIN cache'
  BY DEF CacheComplete
<1>1. objs' = new
  BY DEF Write
<1>2. CASE new = objs \/ o.kind \in Lagging
  BY <1>1, <1>2 DEF Write, CacheComplete
<1>3. CASE new # objs /\ o.kind \notin Lagging
  <2>1. x # o => x \in DOMAIN cache
    BY <1>1 DEF CacheComplete
  <2> QED  BY <1>1, <1>3, <2>1 DEF Write, With, Without
<1> QED  BY <1>2, <1>3

(* What one call of the worker does to the objects. *)
LEMMA ChildWrites ==
    ASSUME TypeOK, NEW c \in CRs, NEW call \in plan, Child(c, call),
           NEW x, x = Target(call, c, copy.spec)
    PROVE  \/ UNCHANGED <<objs, cache>>
           \/ /\ call.verb = "ensure" /\ ~Refused(call, x)
              /\ Write(x, Ensured(call, c, x)) /\ DOMAIN Ensured(call, c, x) = DOMAIN objs \cup {x}
           \/ /\ call.verb = "ensure" /\ Write(x, objs)
           \/ /\ call.verb = "delete"
              /\ Write(x, Deleted(call, x)) /\ DOMAIN Deleted(call, x) \subseteq DOMAIN objs
<1>1. call \in Call
  BY DEF TypeOK
<1>2. \/ UNCHANGED <<objs, cache>>
      \/ call.verb = "ensure" /\ ~Refused(call, x) /\ Write(x, Ensured(call, c, x))
      \/ call.verb = "delete" /\ Write(x, Deleted(call, x))
  BY <1>1 DEF Child, Call
<1>3. CASE call.verb = "ensure" /\ ~Refused(call, x) /\ Write(x, Ensured(call, c, x))
  <2>1. Ensured(call, c, x) = objs \/ DOMAIN Ensured(call, c, x) = DOMAIN objs \cup {x}
    BY DEF Ensured, With
  <2> QED  BY <1>3, <2>1
<1>4. DOMAIN Deleted(call, x) \subseteq DOMAIN objs
  BY DEF Deleted, Without
<1> QED  BY <1>2, <1>3, <1>4

LEMMA CacheStep == TypeOK /\ CacheComplete /\ [Next]_vars => CacheComplete'
<1> SUFFICES ASSUME TypeOK, CacheComplete, [Next]_vars PROVE CacheComplete'
  OBVIOUS
<1>1. CASE UNCHANGED <<objs, cache>>
  BY <1>1 DEF CacheComplete
<1>2. ASSUME NEW o \in DOMAIN objs, DeleteObject(o) \/ CollectGarbage(o) PROVE CacheComplete'
  <2>1. Write(o, Without(objs, o)) /\ DOMAIN Without(objs, o) \subseteq DOMAIN objs
    BY <1>2 DEF DeleteObject, CollectGarbage, Without
  <2> QED  BY <2>1, WriteComplete
<1>3. ASSUME NEW c \in CRs, NEW call \in plan, Child(c, call) PROVE CacheComplete'
  <2> DEFINE x == Target(call, c, copy.spec)
  <2>1. \/ UNCHANGED <<objs, cache>>
        \/ \E new : Write(x, new) /\ DOMAIN new \subseteq DOMAIN objs \cup {x}
    BY <1>3, ChildWrites
  <2> HIDE DEF x
  <2> QED  BY <1>1, <2>1, WriteComplete
<1>4. ASSUME NEW o, SyncObject(o) PROVE CacheComplete'
  BY <1>4 DEF SyncObject, With, Without, CacheComplete
<1>5. ASSUME Restart PROVE CacheComplete'
  BY <1>5 DEF Restart, CacheComplete
<1>6. ASSUME NEW c \in CRs, Ignore(c) \/ finalizeReaderRBAC(c) \/ Reconcile(c) \/ RemoveFinalizer(c)
      PROVE  UNCHANGED <<objs, cache>>
  BY <1>6 DEF Ignore, finalizeReaderRBAC, Reconcile, RemoveFinalizer
<1>7. ASSUME NEW c \in CRs, NEW ready, updateStatus(c, ready) PROVE UNCHANGED <<objs, cache>>
  BY <1>7 DEF updateStatus
<1>8. ASSUME NEW c \in CRs, SyncCR(c) \/ DeleteCR(c) \/ \E s \in Specs : Apply(c, s)
      PROVE  UNCHANGED <<objs, cache>>
  BY <1>8 DEF SyncCR, DeleteCR, Apply
<1>9. ASSUME UNCHANGED vars PROVE UNCHANGED <<objs, cache>>
  BY <1>9 DEF vars
<1> QED
  BY <1>1, <1>2, <1>3, <1>4, <1>5, <1>6, <1>7, <1>8, <1>9
  DEF Next, Worker, Informers, Environment

--------------------------------------------------------------------------------
(* Steps that add no exposed object, take no finalizer away and leave the
   worker's sweep alone or end it. *)
LEMMA ExposedStill ==
    ASSUME ExposedIsKnown, SweepPlanned, TypeOK,
           \A o \in DOMAIN objs' : Exposed(o)' =>
               o \in DOMAIN objs /\ Exposed(o) /\ objs'[o].owner = objs[o].owner,
           \A c \in CRs : cr[c].finalizer => cr'[c].finalizer,
           busy' = {} \/ ~copy'.deleting \/ UNCHANGED <<busy, copy, plan>>
    PROVE  ExposedIsKnown' /\ SweepPlanned'
<1>1. \A o \in DOMAIN objs : objs[o].owner \in CRs
  BY DEF TypeOK, Stored
<1>2. ExposedIsKnown'
  BY <1>1 DEF ExposedIsKnown
<1>3. SweepPlanned'
  BY DEF SweepPlanned
<1> QED  BY <1>2, <1>3
(* What the cleanup takes for granted: the informer of the bindings does not
   lag, a resource never moves its audit events to another namespace, and the
   approval stores live in the resource's own. *)
Settled ==
    /\ "readerBinding" \notin Lagging /\ "fixerBinding" \notin Lagging
    /\ \A s, t \in Specs : s.auditNamespace = t.auditNamespace
    /\ \A s \in Specs : s.storeNamespace = Home

(* Where the calls for exposed kinds go. *)
LEMMA ExposedTarget ==
    ASSUME Settled, NEW call \in Call, NEW c \in CRs, NEW s \in Specs,
           NEW x, x = Target(call, c, s), x.ns # Home, x.name # Shared, call.verb = "ensure"
    PROVE  /\ x.name = c
           /\ \/ x.kind \in {"readerBinding", "fixerBinding"} /\ x.ns = Cluster
              \/ x.kind \in EventsKinds /\ \A t \in Specs : t.auditNamespace = x.ns
<1>1. s.storeNamespace = Home /\ \A t \in Specs : t.auditNamespace = s.auditNamespace
  BY DEF Settled
<1>2. x.kind = call.kind
  BY DEF Target
<1>3. CASE call.kind \in ClusterKinds
  <2>1. x.ns = Cluster
    BY <1>3 DEF Target, ClusterKinds, EventsKinds, StoresKinds
  <2>2. call.kind \notin {"readerRole", "fixerRole"}
    BY DEF Target
  <2>3. call.kind \in {"readerBinding", "fixerBinding"}
    BY <1>3, <2>2 DEF ClusterKinds
  <2>4. x.name = c
    BY <2>2, <2>3 DEF Target
  <2> QED  BY <1>2, <2>1, <2>3, <2>4
<1>4. CASE call.kind \in EventsKinds
  BY <1>1, <1>2, <1>4 DEF Target, ClusterKinds, EventsKinds
<1>5. CASE call.kind \in StoresKinds
  BY <1>1, <1>5 DEF Target, ClusterKinds, EventsKinds, StoresKinds
<1>6. CASE call.kind \notin ClusterKinds \cup EventsKinds \cup StoresKinds
  <2>1. x.ns = Home
    BY <1>6 DEF Target
  <2> QED  BY <2>1
<1> QED  BY <1>3, <1>4, <1>5, <1>6

LEMMA SweepStart ==
    ASSUME ExposedIsKnown, NEW s \in Specs, NEW o \in DOMAIN objs, Exposed(o)
    PROVE  /\ Delete(o.kind) \in FinalizePlan(s)
           /\ TypeOK => o = Target(Delete(o.kind), objs[o].owner, s)
<1>1. CASE o.kind \in {"readerBinding", "fixerBinding"} /\ o.ns = Cluster
  <2>1. Delete(o.kind) \in FinalizePlan(s)
    BY <1>1 DEF FinalizePlan
  <2>2. ASSUME TypeOK PROVE o = Target(Delete(o.kind), objs[o].owner, s)
    <3>1. o \in Object
      BY <2>2 DEF TypeOK
    <3>2. o.name = objs[o].owner
      BY DEF ExposedIsKnown
    <3>3. CASE o.kind = "readerBinding"
      BY <1>1, <3>1, <3>2, <3>3 DEF Target, Object, ClusterKinds, EventsKinds, StoresKinds
    <3>4. CASE o.kind = "fixerBinding"
      BY <1>1, <3>1, <3>2, <3>4 DEF Target, Object, ClusterKinds, EventsKinds, StoresKinds
    <3> QED  BY <1>1, <3>3, <3>4
  <2> QED  BY <2>1, <2>2
<1>2. CASE o.kind \in EventsKinds /\ o.ns # Home /\ s.auditNamespace = o.ns
  <2>1. Delete(o.kind) \in FinalizePlan(s)
    BY <1>2 DEF FinalizePlan
  <2>2. ASSUME TypeOK PROVE o = Target(Delete(o.kind), objs[o].owner, s)
    <3>1. o \in Object
      BY <2>2 DEF TypeOK
    <3>2. o.name = objs[o].owner
      BY DEF ExposedIsKnown
    <3> QED  BY <1>2, <3>1, <3>2 DEF Target, Object, ClusterKinds, EventsKinds
  <2> QED  BY <2>1, <2>2
<1>3. \/ o.kind \in {"readerBinding", "fixerBinding"} /\ o.ns = Cluster
      \/ o.kind \in EventsKinds /\ o.ns # Home /\ s.auditNamespace = o.ns
  BY DEF ExposedIsKnown
<1> QED  BY <1>1, <1>2, <1>3

LEMMA ChildExposed ==
    ASSUME Settled, TypeOK, Known, ExposedIsKnown, CacheComplete, SweepPlanned,
           NEW c \in CRs, NEW call \in plan, Child(c, call),
           NEW x, x = Target(call, c, copy.spec)
    PROVE  ExposedIsKnown' /\ SweepPlanned'
<1>1. call \in Call /\ copy.spec \in Specs /\ c \in busy /\ x.kind = call.kind
  BY TargetType DEF TypeOK, Resource, Child
<1>2. UNCHANGED cr
  BY DEF Child
<1>3. \/ UNCHANGED objs /\ (busy' = {} \/ (UNCHANGED copy /\ ~copy.deleting))
      \/ /\ plan' = plan \ {call} /\ UNCHANGED <<busy, copy>>
         /\ \/ call.verb = "ensure" /\ objs' = Ensured(call, c, x) /\ ~Refused(call, x)
            \/ call.verb = "delete" /\ objs' = Deleted(call, x)
  BY <1>1 DEF Child, Skip, Return, Write, Call
<1>4. busy = {c} /\ copy.uid # 0 /\ (~copy.deleting => cr[c].finalizer)
      /\ (copy.deleting => call.verb = "delete")
  BY <1>1 DEF Known, WorkerKnows
<1>5. CASE UNCHANGED objs /\ (busy' = {} \/ (UNCHANGED copy /\ ~copy.deleting))
  BY <1>2, <1>5, ExposedStill DEF Exposed
<1>6. CASE /\ plan' = plan \ {call} /\ UNCHANGED <<busy, copy>>
           /\ call.verb = "ensure" /\ objs' = Ensured(call, c, x) /\ ~Refused(call, x)
  <2>1. ~copy.deleting
    BY <1>4, <1>6
  <2>2. SweepPlanned'
    BY <1>6, <2>1 DEF SweepPlanned
  <2>3. ExposedIsKnown'
    <3>1. CASE objs' = objs
      BY <1>2, <3>1 DEF ExposedIsKnown, Exposed
    <3>2. CASE x \notin DOMAIN objs /\ \E v : objs' = With(objs, x, [owner |-> c, uid |-> Owner(x), content |-> v])
      <4>1. PICK v : objs' = With(objs, x, [owner |-> c, uid |-> Owner(x), content |-> v])
        BY <3>2
      <4>2. /\ \A o \in DOMAIN objs : o # x /\ objs'[o] = objs[o]
            /\ DOMAIN objs' = DOMAIN objs \cup {x}
            /\ objs'[x].uid = Owner(x) /\ objs'[x].owner = c
        BY <3>2, <4>1 DEF With
      <4>3. Exposed(x)' => /\ x.ns # Home /\ x.name # Shared /\ x.name = c
                           /\ \/ x.kind \in {"readerBinding", "fixerBinding"} /\ x.ns = Cluster
                              \/ x.kind \in EventsKinds /\ \A t \in Specs : t.auditNamespace = x.ns
        <5> SUFFICES ASSUME Exposed(x)' PROVE x.ns # Home /\ x.name # Shared
          BY <1>1, <1>6, ExposedTarget
        <5> QED  BY <1>4, <4>2 DEF Exposed, Owner
      <4> QED  BY <1>2, <1>4, <2>1, <4>2, <4>3 DEF ExposedIsKnown, Exposed
    <3>3. CASE x \in DOMAIN objs /\ \E v : objs' = With(objs, x, [objs[x] EXCEPT !.content = v])
      <4>1. PICK v : objs' = With(objs, x, [objs[x] EXCEPT !.content = v])
        BY <3>3
      <4>2. objs[x] \in Stored
        BY <3>3 DEF TypeOK
      <4>3. /\ \A o \in DOMAIN objs : objs'[o].uid = objs[o].uid /\ objs'[o].owner = objs[o].owner
            /\ DOMAIN objs' = DOMAIN objs
        BY <3>3, <4>1, <4>2 DEF With, Stored
      <4> QED  BY <1>2, <4>3 DEF ExposedIsKnown, Exposed
    <3>4. \/ objs' = objs
          \/ x \notin DOMAIN objs /\ \E v : objs' = With(objs, x, [owner |-> c, uid |-> Owner(x), content |-> v])
          \/ x \in DOMAIN objs /\ \E v : objs' = With(objs, x, [objs[x] EXCEPT !.content = v])
      BY <1>6 DEF Ensured, Refused, Creates
    <3> QED  BY <3>1, <3>2, <3>3, <3>4
  <2> QED  BY <2>2, <2>3
<1>7. CASE /\ plan' = plan \ {call} /\ UNCHANGED <<busy, copy>>
           /\ call.verb = "delete" /\ objs' = Deleted(call, x)
  <2>1. \A o \in DOMAIN objs' : o \in DOMAIN objs /\ objs'[o] = objs[o]
    BY <1>7 DEF Deleted, Without
  <2>2. ExposedIsKnown'
    BY <1>2, <2>1 DEF ExposedIsKnown, Exposed
  <2>3. ASSUME copy.deleting, NEW o \in DOMAIN objs', Exposed(o)', objs'[o].owner = c
        PROVE  Delete(o.kind) \in plan'
    <3>1. o \in DOMAIN objs /\ Exposed(o) /\ objs[o].owner = c /\ Delete(o.kind) \in plan
      BY <1>1, <2>1, <2>3 DEF Exposed, SweepPlanned
    <3>2. ASSUME Delete(o.kind) = call PROVE FALSE
      <4>1. o = x
        BY <1>1, <3>1, <3>2, SweepStart
      <4>2. x \in DOMAIN cache \/ call.kind \in EventsKinds
        <5>1. o.kind \in {"readerBinding", "fixerBinding"} \cup EventsKinds
          BY <3>1 DEF ExposedIsKnown
        <5>2. CASE o.kind \in {"readerBinding", "fixerBinding"}
          BY <3>1, <4>1, <5>2 DEF Settled, CacheComplete
        <5> QED  BY <1>1, <4>1, <5>1, <5>2
      <4>3. objs' = Without(objs, x)
        BY <1>7, <2>3, <4>2 DEF Deleted
      <4> QED  BY <2>3, <4>1, <4>3 DEF Without
    <3> QED  BY <1>7, <3>1, <3>2
  <2>4. SweepPlanned'
    BY <1>4, <1>7, <2>3 DEF SweepPlanned
  <2> QED  BY <2>2, <2>4
<1> QED  BY <1>3, <1>5, <1>6, <1>7
LEMMA ExposedStep ==
    ASSUME Settled, TypeOK, CleanupInv, [Next]_vars
    PROVE  ExposedIsKnown' /\ SweepPlanned'
<1> USE DEF CleanupInv
<1>1. CASE /\ UNCHANGED objs
           /\ \A c \in CRs : cr[c].finalizer => cr'[c].finalizer
           /\ busy' = {} \/ ~copy'.deleting \/ UNCHANGED <<busy, copy, plan>>
  BY <1>1, ExposedStill DEF Exposed
<1>2. ASSUME NEW c \in CRs, Ignore(c) PROVE ExposedIsKnown' /\ SweepPlanned'
  <2>1. UNCHANGED <<objs, cr>> /\ busy' = {}
    BY <1>2 DEF Ignore, Return
  <2> QED  BY <1>1, <2>1
<1>3. ASSUME NEW c \in CRs, finalizeReaderRBAC(c) PROVE ExposedIsKnown' /\ SweepPlanned'
  <2>1. /\ UNCHANGED <<objs, cr>> /\ busy' = {c}
        /\ plan' = FinalizePlan(crCache[c].spec) /\ crCache[c].spec \in Specs
    BY <1>3 DEF finalizeReaderRBAC, Begin, TypeOK, Resource
  <2>2. ExposedIsKnown'
    BY <2>1 DEF ExposedIsKnown, Exposed
  <2>3. SweepPlanned'
    BY <2>1, SweepStart DEF SweepPlanned, Exposed
  <2> QED  BY <2>2, <2>3
<1>4. ASSUME NEW c \in CRs, Reconcile(c) PROVE ExposedIsKnown' /\ SweepPlanned'
  <2>1. UNCHANGED objs
    BY <1>4 DEF Reconcile
  <2> DEFINE r == [crCache[c] EXCEPT !.finalizer = TRUE]
  <2>2. r.finalizer /\ ~r.deleting
    BY <1>4 DEF Reconcile, TypeOK, Resource
  <2>3. \/ busy' = {} /\ UNCHANGED cr
        \/ copy' = r /\ (UNCHANGED cr \/ cr' = [cr EXCEPT ![c] = r])
    BY <1>4 DEF Reconcile, Begin, Return
  <2> HIDE DEF r
  <2>4. \A d \in CRs : cr[d].finalizer => cr'[d].finalizer
    BY <2>2, <2>3 DEF TypeOK
  <2> QED  BY <1>1, <2>1, <2>2, <2>3, <2>4
<1>5. ASSUME NEW c \in CRs, NEW ready, updateStatus(c, ready) PROVE ExposedIsKnown' /\ SweepPlanned'
  <2>1. UNCHANGED objs /\ busy' = {}
    BY <1>5 DEF updateStatus, Return
  <2>2. \A d \in CRs : cr[d].finalizer => cr'[d].finalizer
    BY <1>5 DEF updateStatus, TypeOK, Resource
  <2> QED  BY <1>1, <2>1, <2>2
<1>6. ASSUME NEW c \in CRs, RemoveFinalizer(c) PROVE ExposedIsKnown' /\ SweepPlanned'
  <2>1. /\ UNCHANGED objs /\ busy' = {} /\ c \in busy /\ plan = {} /\ copy.deleting
        /\ UNCHANGED cr \/ cr' = [cr EXCEPT ![c] = Absent]
    BY <1>6 DEF RemoveFinalizer, Return
  <2>2. SweepPlanned'
    BY <2>1 DEF SweepPlanned
  <2>3. \A o \in DOMAIN objs : Exposed(o) => objs[o].owner # c
    BY <2>1 DEF SweepPlanned
  <2>4. \A d \in CRs \ {c} : cr'[d] = cr[d]
    BY <2>1 DEF TypeOK
  <2>5. \A o \in DOMAIN objs : objs[o].owner \in CRs
    BY DEF TypeOK, Stored
  <2>6. ExposedIsKnown'
    BY <2>1, <2>3, <2>4, <2>5 DEF ExposedIsKnown, Exposed
  <2> QED  BY <2>2, <2>6
<1>7. ASSUME NEW c \in CRs, NEW call \in plan, Child(c, call)
      PROVE  ExposedIsKnown' /\ SweepPlanned'
  BY <1>7, ChildExposed DEF Known
<1>8. ASSUME NEW c \in CRs, SyncCR(c) PROVE ExposedIsKnown' /\ SweepPlanned'
  <2>1. UNCHANGED <<objs, cr, busy, copy, plan>>
    BY <1>8 DEF SyncCR, worker
  <2> QED  BY <1>1, <2>1
<1>9. ASSUME NEW o, SyncObject(o) PROVE ExposedIsKnown' /\ SweepPlanned'
  <2>1. UNCHANGED <<objs, cr, busy, copy, plan>>
    BY <1>9 DEF SyncObject, worker
  <2> QED  BY <1>1, <2>1
<1>10. ASSUME NEW x, DeleteObject(x) \/ CollectGarbage(x) PROVE ExposedIsKnown' /\ SweepPlanned'
  <2>1. UNCHANGED <<cr, busy, copy, plan>> /\ objs' = Without(objs, x)
    BY <1>10 DEF DeleteObject, CollectGarbage, Write, worker
  <2>2. \A o \in DOMAIN objs' : o \in DOMAIN objs /\ objs'[o] = objs[o]
    BY <2>1 DEF Without
  <2> QED  BY <2>1, <2>2, ExposedStill DEF Exposed
<1>11. ASSUME NEW c \in CRs, DeleteCR(c) PROVE ExposedIsKnown' /\ SweepPlanned'
  <2>1. UNCHANGED <<objs, busy, copy, plan>>
    BY <1>11 DEF DeleteCR, worker
  <2>2. \A d \in CRs : cr[d].finalizer => cr'[d].finalizer
    BY <1>11 DEF DeleteCR, TypeOK, Resource
  <2> QED  BY <1>1, <2>1, <2>2
<1>12. ASSUME NEW c \in CRs, NEW s \in Specs, Apply(c, s) PROVE ExposedIsKnown' /\ SweepPlanned'
  <2>1. UNCHANGED <<objs, busy, copy, plan>>
    BY <1>12 DEF Apply, worker
  <2>2. \A d \in CRs : d # c => cr'[d] = cr[d]
    BY <1>12 DEF Apply, TypeOK
  <2>3. cr[c].finalizer => cr'[c].finalizer
    <3>1. CASE cr[c].uid = 0
      BY <3>1 DEF CopiesOfThePast
    <3>2. CASE cr[c].uid # 0
      BY <1>12, <3>2 DEF Apply, TypeOK, Resource
    <3> QED  BY <3>1, <3>2
  <2> QED  BY <1>1, <2>1, <2>2, <2>3
<1>13. ASSUME Restart PROVE ExposedIsKnown' /\ SweepPlanned'
  <2>1. UNCHANGED <<objs, cr>> /\ busy' = {}
    BY <1>13 DEF Restart
  <2> QED  BY <1>1, <2>1
<1>14. ASSUME UNCHANGED vars PROVE ExposedIsKnown' /\ SweepPlanned'
  <2>1. UNCHANGED <<objs, cr, busy, copy, plan>>
    BY <1>14 DEF vars, worker
  <2> QED  BY <1>1, <2>1
<1> QED
  BY <1>2, <1>3, <1>4, <1>5, <1>6, <1>7, <1>8, <1>9, <1>10, <1>11, <1>12, <1>13, <1>14
  DEF Next, Worker, Informers, Environment

(* When a resource is gone, no object without owner reference that was made for
   it is left (finalizeReaderRBAC), whatever fails, lags behind, is deleted and
   created again or restarted, provided that the cache the finalizer asks is
   up to date and the namespaces its objects are in do not move. *)
THEOREM CleanupSafe == Settled => (Spec => []NothingOutlives)
<1> SUFFICES ASSUME Settled PROVE Spec => []NothingOutlives
  OBVIOUS
<1>1. Init => CleanupInv
  <2> SUFFICES ASSUME Init PROVE CleanupInv
    OBVIOUS
  <2>1. /\ DOMAIN objs = {} /\ busy = {} /\ uids = 0
        /\ \A c \in CRs : cr[c] = Absent /\ crCache[c] = Absent
    BY DEF Init
  <2>2. CopiesOfThePast
    <3>1. Absent.uid = 0 /\ ~Absent.deleting /\ ~Absent.finalizer
      BY DEF Absent
    <3> QED  BY <2>1, <3>1 DEF CopiesOfThePast
  <2> QED
    BY <2>1, <2>2 DEF CleanupInv, WorkerKnows, ExposedIsKnown, CacheComplete, SweepPlanned
<1>2. TypeOK /\ CleanupInv /\ [Next]_vars => CleanupInv'
  <2> SUFFICES ASSUME TypeOK, CleanupInv, [Next]_vars PROVE CleanupInv'
    OBVIOUS
  <2>1. CopiesOfThePast' /\ WorkerKnows'
    BY KnownStep DEF Known, CleanupInv
  <2>2. CacheComplete'
    BY CacheStep DEF CleanupInv
  <2>3. ExposedIsKnown' /\ SweepPlanned'
    BY ExposedStep
  <2> QED  BY <2>1, <2>2, <2>3 DEF CleanupInv
<1>3. TypeOK /\ CleanupInv => NothingOutlives
  <2> SUFFICES ASSUME TypeOK, CleanupInv, NEW o \in DOMAIN objs, objs[o].uid = 0, o.name # Shared
               PROVE  cr[objs[o].owner].uid # 0
    BY DEF NothingOutlives
  <2>1. objs[o].owner \in CRs /\ cr[objs[o].owner].finalizer
    <3>1. objs[o] \in Stored
      BY DEF TypeOK
    <3> QED  BY <3>1 DEF Stored, CleanupInv, ExposedIsKnown, Exposed
  <2> QED  BY <2>1 DEF CleanupInv, CopiesOfThePast
<1> QED  BY <1>1, <1>2, <1>3, TypeCorrect, PTL DEF Spec
--------------------------------------------------------------------------------
(* The inductive invariant behind ReadyMeansBuilt.  The worker's calls are what is
   left of the plan for its copy's spec. *)
PlanOfSpec ==
    \A c \in busy : ~copy.deleting => plan \subseteq ReconcilePlan(copy.spec)

(* Objects in Home, and only they, bear a uid, that of a resource there has been.
   What is named after a resource is its own, and the first resource has met no
   leftovers. *)
Ownership ==
    \A o \in DOMAIN objs :
        /\ objs[o].uid <= uids
        /\ o.ns # Home <=> objs[o].uid = 0
        /\ o.kind = "signingKey" => o.ns = Home
        /\ o.name \in CRs => objs[o].owner = o.name
        /\ cr[objs[o].owner].uid = 1 => objs[o].uid <= 1

NothingBefore == uids = 0 => DOMAIN objs = {} /\ DOMAIN cache = {}

(* The cache does not remember a signing key that is gone. *)
CachedKeysAreThere ==
    "signingKey" \notin Deletable =>
        \A c \in CRs : cr[c].uid = 1 =>
            \A o \in DOMAIN cache : o.kind = "signingKey" => o \in DOMAIN objs

Standing(c, k) ==
    LET o == Target(Ensure(k), c, copy.spec)
    IN  o \in DOMAIN objs \/ (o.ns = Home /\ copy.uid > 1)

(* As long as no call has failed, what has been ensured is there. *)
BuiltSoFar ==
    \A c \in busy : (~copy.deleting /\ ~failed /\ Valid(copy.spec)) =>
        \A k \in Wanted(copy.spec) \ Deletable : Ensure(k) \in plan \/ Standing(c, k)

BuildInv == PlanOfSpec /\ Ownership /\ NothingBefore /\ CachedKeysAreThere /\ BuiltSoFar

(* Two resources with the same signing key: the second one may be told Ready while
   the garbage collector takes the key away with the first. *)
OneKeeper == "signingKey" \in Deletable \/ \A c, d \in CRs : c = d

LEMMA PlanOfSpecStep ==
    ASSUME TypeOK, PlanOfSpec, [Next]_vars
    PROVE  PlanOfSpec'
<1>1. CASE busy' = {} \/ copy'.deleting \/ (UNCHANGED <<busy, copy>> /\ plan' \subseteq plan)
  BY <1>1 DEF PlanOfSpec
<1>2. ASSUME NEW c \in CRs, finalizeReaderRBAC(c) PROVE copy'.deleting
  BY <1>2 DEF finalizeReaderRBAC, Begin
<1>3. ASSUME NEW c \in CRs, Reconcile(c) PROVE PlanOfSpec'
  <2> DEFINE r == [crCache[c] EXCEPT !.finalizer = TRUE]
  <2>1. \/ busy' = {}
        \/ copy' = r /\ plan' = IF Valid(r.spec) THEN ReconcilePlan(r.spec) ELSE {}
    BY <1>3 DEF Reconcile, Begin, Return
  <2> HIDE DEF r
  <2> QED BY <1>1, <2>1 DEF PlanOfSpec
<1>4. ASSUME NEW c \in CRs, NEW call \in plan, Child(c, call)
      PROVE  busy' = {} \/ (UNCHANGED <<busy, copy>> /\ plan' \subseteq plan)
  BY <1>4 DEF Child, Skip, Return
<1>5. ASSUME NEW c \in CRs, Ignore(c) PROVE busy' = {}
  BY <1>5 DEF Ignore, Return
<1>6. ASSUME NEW c \in CRs, NEW ready, updateStatus(c, ready) PROVE busy' = {}
  BY <1>6 DEF updateStatus, Return
<1>7. ASSUME NEW c \in CRs, RemoveFinalizer(c) PROVE busy' = {}
  BY <1>7 DEF RemoveFinalizer, Return
<1>8. ASSUME Informers \/ Environment PROVE busy' = {} \/ UNCHANGED <<busy, copy, plan>>
  BY <1>8 DEF Informers, Environment, SyncCR, SyncObject, DeleteCR, Apply, DeleteObject,
              CollectGarbage, Restart, worker
<1>9. ASSUME UNCHANGED vars PROVE UNCHANGED <<busy, copy, plan>>
  BY <1>9 DEF vars, worker
<1> QED
  BY <1>1, <1>2, <1>3, <1>4, <1>5, <1>6, <1>7, <1>8, <1>9 DEF Next, Worker

(* What a step makes of the uid of a resource. *)
LEMMA UidStep ==
    ASSUME TypeOK, [Next]_vars, NEW c \in CRs
    PROVE  /\ uids' \in {uids, uids + 1}
           /\ \/ cr'[c].uid \in {0, cr[c].uid}
              \/ cr'[c].uid = uids + 1 /\ uids' = uids + 1 /\ UNCHANGED <<objs, cache>>
<1> DEFINE Kept == uids' = uids /\ cr'[c].uid = cr[c].uid
<1>1. ASSUME NEW d \in CRs, Ignore(d) \/ finalizeReaderRBAC(d) \/ SyncCR(d) PROVE Kept
  BY <1>1 DEF Ignore, finalizeReaderRBAC, SyncCR
<1>2. ASSUME NEW d \in CRs, Reconcile(d) PROVE Kept
  <2> DEFINE r == [crCache[d] EXCEPT !.finalizer = TRUE]
  <2>1. uids' = uids /\ (UNCHANGED cr \/ (crCache[d] = cr[d] /\ cr' = [cr EXCEPT ![d] = r]))
    BY <1>2 DEF Reconcile
  <2>2. crCache[d] = cr[d] => r.uid = cr[d].uid
    BY DEF TypeOK, Resource
  <2> HIDE DEF r
  <2> QED BY <2>1, <2>2 DEF TypeOK
<1>3. ASSUME NEW d \in CRs, NEW ready, updateStatus(d, ready) PROVE Kept
  BY <1>3 DEF updateStatus, TypeOK, Resource
<1>4. ASSUME NEW d \in CRs, RemoveFinalizer(d) PROVE uids' = uids /\ cr'[c].uid \in {0, cr[c].uid}
  <2>1. uids' = uids /\ (UNCHANGED cr \/ cr' = [cr EXCEPT ![d] = Absent])
    BY <1>4 DEF RemoveFinalizer
  <2>2. Absent.uid = 0
    BY DEF Absent
  <2> QED BY <2>1, <2>2 DEF TypeOK
<1>5. ASSUME NEW d \in CRs, NEW call \in plan, Child(d, call) PROVE Kept
  BY <1>5 DEF Child
<1>6. ASSUME NEW o, SyncObject(o) \/ DeleteObject(o) \/ CollectGarbage(o) PROVE Kept
  BY <1>6 DEF SyncObject, DeleteObject, CollectGarbage
<1>7. ASSUME NEW d \in CRs, DeleteCR(d) PROVE uids' = uids /\ cr'[c].uid \in {0, cr[c].uid}
  <2>1. /\ uids' = uids
        /\ \/ cr' = [cr EXCEPT ![d] = Absent]
           \/ cr' = [cr EXCEPT ![d] = [cr[d] EXCEPT !.deleting = TRUE]]
    BY <1>7 DEF DeleteCR, TypeOK
  <2>2. Absent.uid = 0 /\ [cr[d] EXCEPT !.deleting = TRUE].uid = cr[d].uid
    BY DEF Absent, TypeOK, Resource
  <2> QED BY <2>1, <2>2 DEF TypeOK
<1>8. ASSUME NEW d \in CRs, NEW s \in Specs, Apply(d, s)
      PROVE  \/ Kept
             \/ /\ uids' = uids + 1 /\ UNCHANGED <<objs, cache>>
                /\ cr'[c].uid \in {cr[c].uid, uids + 1}
  <2>1. CASE cr[d].uid = 0
    <3> DEFINE new == [Absent EXCEPT !.uid = uids + 1, !.spec = s]
    <3>1. new.uid = uids + 1
      BY DEF Absent
    <3>2. cr' = [cr EXCEPT ![d] = new] /\ uids' = uids + 1 /\ UNCHANGED <<objs, cache>>
      BY <1>8, <2>1 DEF Apply
    <3> HIDE DEF new
    <3> QED BY <3>1, <3>2 DEF TypeOK
  <2>2. CASE cr[d].uid # 0
    BY <1>8, <2>2 DEF Apply, TypeOK, Resource
  <2> QED BY <2>1, <2>2
<1>9. ASSUME Restart \/ UNCHANGED vars PROVE Kept
  BY <1>9 DEF Restart, vars
<1> HIDE DEF Kept
<1>10. Kept => uids' = uids /\ cr'[c].uid = cr[c].uid
  BY DEF Kept
<1> QED
  BY <1>1, <1>2, <1>3, <1>4, <1>5, <1>6, <1>7, <1>8, <1>9, <1>10
  DEF Next, Worker, Informers, Environment

(* An object there is after a step was there before, or the worker has made it. *)
Made(o) ==
    \E c \in busy, call \in plan :
        /\ call.verb = "ensure" /\ o = Target(call, c, copy.spec)
        /\ objs'[o].owner = c /\ objs'[o].uid = Owner(o)
        /\ UNCHANGED <<cr, uids>>

LEMMA ObjectsStep ==
    ASSUME TypeOK, [Next]_vars, NEW o \in DOMAIN objs'
    PROVE  \/ o \in DOMAIN objs /\ objs'[o].uid = objs[o].uid /\ objs'[o].owner = objs[o].owner
           \/ Made(o)
<1>1. CASE UNCHANGED objs
  BY <1>1
<1>2. ASSUME NEW x \in DOMAIN objs, DeleteObject(x) \/ CollectGarbage(x)
      PROVE  o \in DOMAIN objs /\ objs'[o] = objs[o]
  <2>1. objs' = Without(objs, x)
    BY <1>2 DEF DeleteObject, CollectGarbage, Write
  <2> QED BY <2>1 DEF Without
<1>3. ASSUME NEW c \in CRs, NEW call \in plan, Child(c, call)
      PROVE  \/ o \in DOMAIN objs /\ objs'[o].uid = objs[o].uid /\ objs'[o].owner = objs[o].owner
             \/ Made(o)
  <2> DEFINE x == Target(call, c, copy.spec)
  <2>1. \/ UNCHANGED objs
        \/ call.verb = "ensure" /\ objs' = Ensured(call, c, x) /\ ~Refused(call, x)
        \/ call.verb = "delete" /\ objs' = Deleted(call, x)
    BY <1>3 DEF Child, Write, TypeOK, Call
  <2>2. c \in busy /\ UNCHANGED <<cr, uids>>
    BY <1>3 DEF Child
  <2>3. CASE call.verb = "delete" /\ objs' = Deleted(call, x)
    BY <2>3 DEF Deleted, Without
  <2>4. CASE call.verb = "ensure" /\ objs' = Ensured(call, c, x) /\ ~Refused(call, x)
    <3> HIDE DEF x
    <3>1. \/ objs' = objs
          \/ \E v : objs' = With(objs, x, [owner |-> c, uid |-> Owner(x), content |-> v])
          \/ x \in DOMAIN objs /\ \E v : objs' = With(objs, x, [objs[x] EXCEPT !.content = v])
      BY <2>4 DEF Ensured, Refused, Creates
    <3>2. CASE \E v : objs' = With(objs, x, [owner |-> c, uid |-> Owner(x), content |-> v])
      <4>1. PICK v : objs' = With(objs, x, [owner |-> c, uid |-> Owner(x), content |-> v])
        BY <3>2
      <4>2. o # x => o \in DOMAIN objs /\ objs'[o] = objs[o]
        BY <4>1 DEF With
      <4>3. o = x => objs'[o].owner = c /\ objs'[o].uid = Owner(o)
        BY <4>1 DEF With
      <4> QED BY <2>2, <2>4, <4>2, <4>3 DEF Made, x
    <3>3. CASE x \in DOMAIN objs /\ \E v : objs' = With(objs, x, [objs[x] EXCEPT !.content = v])
      <4>1. PICK v : objs' = With(objs, x, [objs[x] EXCEPT !.content = v])
        BY <3>3
      <4>2. objs[x] \in Stored
        BY <3>3 DEF TypeOK
      <4> QED BY <3>3, <4>1, <4>2 DEF With, Stored
    <3> QED BY <1>1, <3>1, <3>2, <3>3
  <2> QED BY <1>1, <2>1, <2>3, <2>4
<1>4. ASSUME NEW c \in CRs, Ignore(c) \/ finalizeReaderRBAC(c) \/ Reconcile(c) \/ RemoveFinalizer(c)
      PROVE  UNCHANGED objs
  BY <1>4 DEF Ignore, finalizeReaderRBAC, Reconcile, RemoveFinalizer
<1>5. ASSUME NEW c \in CRs, NEW ready, updateStatus(c, ready) PROVE UNCHANGED objs
  BY <1>5 DEF updateStatus
<1>6. ASSUME Informers PROVE UNCHANGED objs
  BY <1>6 DEF Informers, SyncCR, SyncObject
<1>7. ASSUME NEW c \in CRs, DeleteCR(c) \/ \E s \in Specs : Apply(c, s) PROVE UNCHANGED objs
  BY <1>7 DEF DeleteCR, Apply
<1>8. ASSUME Restart \/ UNCHANGED vars PROVE UNCHANGED objs
  BY <1>8 DEF Restart, vars
<1> QED
  BY <1>1, <1>2, <1>3, <1>4, <1>5, <1>6, <1>7, <1>8 DEF Next, Worker, Environment

(* Where the objects are that a spec asks for, and how they are named. *)
LEMMA TargetName ==
    ASSUME NEW call \in Call, NEW c \in CRs, NEW s \in Specs, NEW x, x = Target(call, c, s)
    PROVE  /\ x.kind = call.kind
           /\ x.name \in CRs => x.name = c
           /\ x.name = c \/ x.kind = "signingKey" \/ x.ns # Home
           /\ x.kind = "signingKey" => x.ns = Home
<1>1. x.kind = call.kind /\ Home # Cluster /\ s.secretName \in Secrets
  BY Names DEF Target, SpecType
<1>2. CASE call.kind \in {"readerRole", "fixerRole"}
  <2>1. x.name = Shared /\ x.ns = Cluster
    BY <1>2 DEF Target, ClusterKinds, EventsKinds, StoresKinds
  <2> QED BY <1>1, <1>2, <2>1, Names
<1>3. CASE call.kind = "signingKey"
  <2>1. call.kind \notin ClusterKinds \cup EventsKinds \cup StoresKinds
    BY <1>3 DEF ClusterKinds, EventsKinds, StoresKinds
  <2>2. x.ns = Home
    BY <2>1 DEF Target
  <2>3. x.name = s.secretName
    BY <1>3 DEF Target
  <2> QED BY <1>1, <1>3, <2>2, <2>3, Names
<1>4. CASE call.kind \notin {"readerRole", "fixerRole", "signingKey"}
  <2>1. x.name = c
    BY <1>4 DEF Target
  <2> QED BY <1>1, <1>4, <2>1
<1> QED BY <1>2, <1>3, <1>4

LEMMA OwnershipStep ==
    ASSUME TypeOK, Known, Ownership, [Next]_vars
    PROVE  Ownership'
<1> SUFFICES ASSUME NEW o \in DOMAIN objs'
             PROVE  /\ objs'[o].uid <= uids'
                    /\ o.ns # Home <=> objs'[o].uid = 0
                    /\ o.kind = "signingKey" => o.ns = Home
                    /\ o.name \in CRs => objs'[o].owner = o.name
                    /\ cr'[objs'[o].owner].uid = 1 => objs'[o].uid <= 1
  BY DEF Ownership
<1>1. uids \in Nat /\ copy.uid \in Nat /\ copy.spec \in Specs
  BY DEF TypeOK, Resource
<1>2. CASE o \in DOMAIN objs /\ objs'[o].uid = objs[o].uid /\ objs'[o].owner = objs[o].owner
  <2>1. objs[o].owner \in CRs /\ objs[o].uid \in Nat
    BY <1>2 DEF TypeOK, Stored
  <2>2. /\ uids' \in {uids, uids + 1}
        /\ \/ cr'[objs[o].owner].uid \in {0, cr[objs[o].owner].uid}
           \/ cr'[objs[o].owner].uid = uids + 1
    BY <2>1, UidStep
  <2>3. objs[o].uid <= uids /\ (cr[objs[o].owner].uid = 1 => objs[o].uid <= 1)
    BY <1>2 DEF Ownership
  <2>4. cr'[objs[o].owner].uid = 1 => objs[o].uid <= 1
    BY <1>1, <2>1, <2>2, <2>3
  <2>5. objs'[o].uid <= uids'
    BY <1>1, <1>2, <2>1, <2>2, <2>3
  <2> QED BY <1>2, <2>4, <2>5 DEF Ownership
<1>3. CASE Made(o)
  <2>1. PICK c \in busy, call \in plan :
            /\ call.verb = "ensure" /\ o = Target(call, c, copy.spec)
            /\ objs'[o].owner = c /\ objs'[o].uid = Owner(o)
            /\ UNCHANGED <<cr, uids>>
    BY <1>3 DEF Made
  <2>2. c \in CRs /\ call \in Call
    BY DEF TypeOK
  <2>3. copy.uid # 0 /\ copy.uid <= uids /\ ~copy.deleting /\ cr[c].uid = copy.uid
    BY <2>1 DEF Known, WorkerKnows
  <2>4. /\ o.name \in CRs => o.name = c
        /\ o.kind = "signingKey" => o.ns = Home
    BY <1>1, <2>1, <2>2, TargetName
  <2>5. objs'[o].uid = IF o.ns = Home THEN copy.uid ELSE 0
    BY <2>1 DEF Owner
  <2> QED BY <1>1, <2>1, <2>3, <2>4, <2>5
<1> QED BY <1>2, <1>3, ObjectsStep

LEMMA NothingBeforeStep ==
    ASSUME TypeOK, Known, NothingBefore, [Next]_vars
    PROVE  NothingBefore'
<1> SUFFICES ASSUME uids' = 0 PROVE DOMAIN objs' = {} /\ DOMAIN cache' = {}
  BY DEF NothingBefore
<1>1. uids = 0
  <2>1. uids \in Nat
    BY DEF TypeOK
  <2>2. uids' = uids \/ \E c \in CRs, s \in Specs : Apply(c, s)
    BY DEF Next, Worker, Informers, Environment, Ignore, finalizeReaderRBAC, Reconcile, Child,
           updateStatus, RemoveFinalizer, SyncCR, SyncObject, DeleteCR, DeleteObject,
           CollectGarbage, Restart, vars
  <2>3. ASSUME NEW c \in CRs PROVE uids' \in {uids, uids + 1}
    BY UidStep
  <2> QED BY <2>1, <2>2, <2>3
<1>2. DOMAIN objs' = {} /\ DOMAIN cache' = {}
  <2>1. DOMAIN objs = {} /\ DOMAIN cache = {} /\ busy = {}
    <3>1. copy.uid \in Nat
      BY DEF TypeOK, Resource
    <3> QED BY <1>1, <3>1 DEF NothingBefore, Known, WorkerKnows
  <2>2. DOMAIN objs' = {}
    BY <2>1, ObjectsStep DEF Made
  <2>3. UNCHANGED cache \/ DOMAIN cache' = {}
    <3>1. ASSUME NEW e \in behind, SyncObject(e[1]) PROVE DOMAIN cache' = {}
      BY <2>1, <3>1 DEF SyncObject, Without
    <3>2. ASSUME Restart PROVE DOMAIN cache' = {}
      BY <2>1, <3>2 DEF Restart
    <3>3. ASSUME NEW c \in CRs, NEW call \in plan PROVE ~Child(c, call)
      BY <2>1 DEF Child
    <3>4. ASSUME NEW c \in CRs,
                 \/ Ignore(c) \/ finalizeReaderRBAC(c) \/ Reconcile(c) \/ RemoveFinalizer(c)
                 \/ \E ready \in {"true", "false", "invalid"} : updateStatus(c, ready)
          PROVE  UNCHANGED cache
      BY <3>4 DEF Ignore, finalizeReaderRBAC, Reconcile, RemoveFinalizer, updateStatus
    <3>5. ASSUME NEW c \in CRs, SyncCR(c) \/ DeleteCR(c) \/ \E s \in Specs : Apply(c, s)
          PROVE  UNCHANGED cache
      BY <3>5 DEF SyncCR, DeleteCR, Apply
    <3>6. UNCHANGED vars => UNCHANGED cache
      BY DEF vars
    <3> QED
      BY <2>1, <3>1, <3>2, <3>3, <3>4, <3>5, <3>6 DEF Next, Worker, Informers, Environment
  <2> QED BY <2>1, <2>2, <2>3
<1> QED BY <1>2

(* The caches learn of an object only from the API server. *)
LEMMA CacheGrows ==
    ASSUME TypeOK, [Next]_vars
    PROVE  DOMAIN cache' \subseteq DOMAIN cache \cup DOMAIN objs'
<1>1. CASE UNCHANGED cache
  BY <1>1
<1>2. ASSUME NEW o, NEW new, Write(o, new) PROVE DOMAIN cache' \subseteq DOMAIN cache \cup DOMAIN objs'
  BY <1>2 DEF Write, With, Without
<1>3. ASSUME NEW o, DeleteObject(o) \/ CollectGarbage(o)
      PROVE  DOMAIN cache' \subseteq DOMAIN cache \cup DOMAIN objs'
  BY <1>2, <1>3 DEF DeleteObject, CollectGarbage
<1>4. ASSUME NEW c \in CRs, NEW call \in plan, Child(c, call)
      PROVE  DOMAIN cache' \subseteq DOMAIN cache \cup DOMAIN objs'
  <2> DEFINE x == Target(call, c, copy.spec)
  <2>1. UNCHANGED cache \/ \E new : Write(x, new)
    BY <1>4, ChildWrites
  <2> HIDE DEF x
  <2> QED BY <1>1, <1>2, <2>1
<1>5. ASSUME NEW o, SyncObject(o) PROVE DOMAIN cache' \subseteq DOMAIN cache \cup DOMAIN objs'
  BY <1>5 DEF SyncObject, With, Without
<1>6. ASSUME Restart PROVE DOMAIN cache' \subseteq DOMAIN cache \cup DOMAIN objs'
  BY <1>6 DEF Restart
<1>7. ASSUME NEW c \in CRs, Ignore(c) \/ finalizeReaderRBAC(c) \/ Reconcile(c) \/ RemoveFinalizer(c)
      PROVE  UNCHANGED cache
  BY <1>7 DEF Ignore, finalizeReaderRBAC, Reconcile, RemoveFinalizer
<1>8. ASSUME NEW c \in CRs, NEW ready, updateStatus(c, ready) PROVE UNCHANGED cache
  BY <1>8 DEF updateStatus
<1>9. ASSUME NEW c \in CRs, SyncCR(c) \/ DeleteCR(c) \/ \E s \in Specs : Apply(c, s)
      PROVE  UNCHANGED cache
  BY <1>9 DEF SyncCR, DeleteCR, Apply
<1>10. UNCHANGED vars => UNCHANGED cache
  BY DEF vars
<1> QED
  BY <1>1, <1>3, <1>4, <1>5, <1>6, <1>7, <1>8, <1>9, <1>10
  DEF Next, Worker, Informers, Environment

LEMMA CachedKeysStep ==
    ASSUME OneKeeper, TypeOK, PlanSparesKeys, Ownership, NothingBefore, CachedKeysAreThere,
           [Next]_vars
    PROVE  CachedKeysAreThere'
<1> SUFFICES ASSUME "signingKey" \notin Deletable, NEW c \in CRs, cr'[c].uid = 1,
                    NEW o \in DOMAIN cache', o.kind = "signingKey"
             PROVE  o \in DOMAIN objs'
  BY DEF CachedKeysAreThere
<1>1. CASE o \notin DOMAIN cache
  BY <1>1, CacheGrows
<1>2. CASE o \in DOMAIN cache
  <2>1. cr[c].uid = 1
    <3>1. uids \in Nat
      BY DEF TypeOK
    <3>2. \/ cr'[c].uid \in {0, cr[c].uid}
          \/ cr'[c].uid = uids + 1 /\ UNCHANGED cache
      BY UidStep
    <3>3. uids = 0 => DOMAIN cache = {}
      BY DEF NothingBefore
    <3> QED BY <1>2, <3>1, <3>2, <3>3
  <2>2. o \in DOMAIN objs
    BY <1>2, <2>1 DEF CachedKeysAreThere
  <2>3. objs[o].owner = c /\ objs[o].uid \in Nat
    BY <2>2 DEF OneKeeper, TypeOK, Stored
  <2>4. objs[o].uid = 1
    BY <2>1, <2>2, <2>3 DEF Ownership
  <2>5. KeepsKeys
    BY KeyStep
  <2> QED BY <2>1, <2>2, <2>3, <2>4, <2>5 DEF KeepsKeys
<1> QED BY <1>1, <1>2

LEMMA WantedKinds ==
    ASSUME NEW s \in Specs
    PROVE  /\ \A k \in Wanted(s) : Ensure(k) \in Call /\ Ensure(k) \in ReconcilePlan(s)
           /\ \A call \in ReconcilePlan(s) : call.verb = "delete" => call.kind \notin Wanted(s)
<1>1. \A k \in Wanted(s) : Ensure(k) \in ReconcilePlan(s)
  BY DEF ReconcilePlan
<1>2. ReconcilePlan(s) \subseteq Call
  BY PlanType
<1>3. \A call \in ReconcilePlan(s) : call.verb = "delete" => call.kind \notin Wanted(s)
  BY DEF ReconcilePlan, TornDown
<1> QED BY <1>1, <1>2, <1>3

(* While it is being built for, the garbage collector leaves an object alone. *)
LEMMA NotCollected ==
    ASSUME OneKeeper, TypeOK, Known, Ownership, NEW c \in busy, ~copy.deleting,
           NEW k \in Wanted(copy.spec) \ Deletable,
           NEW o \in DOMAIN objs, o = Target(Ensure(k), c, copy.spec),
           o.ns # Home \/ ~(copy.uid > 1), CollectGarbage(o)
    PROVE  FALSE
<1>1. c \in CRs /\ copy.spec \in Specs /\ copy.uid \in Nat
  BY DEF TypeOK, Resource
<1>2. objs[o].uid # 0 /\ cr[objs[o].owner].uid # objs[o].uid
  BY DEF CollectGarbage
<1>3. o.ns = Home
  BY <1>2 DEF Ownership
<1>4. copy.uid = 1 /\ cr[c].uid = 1
  BY <1>1, <1>3 DEF Known, WorkerKnows
<1>5. objs[o].owner \in CRs /\ objs[o].uid \in Nat
  BY DEF TypeOK, Stored
<1>6. Ensure(k) \in Call /\ o.kind = k /\ (o.name = c \/ k = "signingKey")
  BY <1>1, <1>3, WantedKinds, TargetName
<1>7. objs[o].owner = c
  <2>1. CASE o.name = c
    BY <1>1, <2>1 DEF Ownership
  <2>2. CASE k = "signingKey"
    BY <1>1, <1>5, <2>2 DEF OneKeeper
  <2> QED BY <1>6, <2>1, <2>2
<1>8. objs[o].uid <= 1
  BY <1>4, <1>7 DEF Ownership
<1> QED BY <1>2, <1>4, <1>5, <1>7, <1>8

(* createOrUpdate leaves the object in the API server, and so does
   reconcileSigningKeySecret unless the cache remembers a leftover. *)
LEMMA EnsuredStands ==
    ASSUME TypeOK, Known, CachedKeysAreThere, NEW c \in busy, ~copy.deleting,
           NEW k \in Wanted(copy.spec) \ Deletable,
           NEW x, x = Target(Ensure(k), c, copy.spec), ~Refused(Ensure(k), x)
    PROVE  x \in DOMAIN Ensured(Ensure(k), c, x) \/ (x.ns = Home /\ copy.uid > 1)
<1>1. c \in CRs /\ copy.spec \in Specs /\ copy.uid \in Nat /\ Ensure(k) \in Call
  BY WantedKinds DEF TypeOK, Resource
<1>2. CASE x \notin DOMAIN cache
  BY <1>2 DEF Ensured, Creates, With
<1>3. CASE x \in DOMAIN cache /\ k # "signingKey"
  BY <1>3 DEF Ensured, Refused, Creates, With
<1>4. CASE x \in DOMAIN cache /\ k = "signingKey"
  <2>1. Ensured(Ensure(k), c, x) = objs
    BY <1>4 DEF Ensured, Creates
  <2>2. x.kind = "signingKey" /\ x.ns = Home
    BY <1>1, <1>4, TargetName
  <2>3. copy.uid # 0 /\ cr[c].uid = copy.uid
    BY DEF Known, WorkerKnows
  <2>4. copy.uid = 1 => x \in DOMAIN objs
    BY <1>1, <1>4, <2>2, <2>3 DEF CachedKeysAreThere
  <2> QED BY <1>1, <2>1, <2>2, <2>3, <2>4
<1> QED BY <1>2, <1>3, <1>4

LEMMA ChildBuilds ==
    ASSUME TypeOK, Known, BuildInv, NEW c \in CRs, NEW call \in plan, Child(c, call)
    PROVE  BuiltSoFar'
<1> DEFINE x == Target(call, c, copy.spec)
<1>1. call \in Call /\ copy.spec \in Specs /\ c \in busy /\ busy = {c}
  BY DEF TypeOK, Resource, Child, Known, WorkerKnows
<1>2. \/ busy' = {} \/ failed'
      \/ /\ plan' = plan \ {call} /\ UNCHANGED <<busy, copy, failed>>
         /\ \/ call.verb = "ensure" /\ objs' = Ensured(call, c, x) /\ ~Refused(call, x)
            \/ call.verb = "delete" /\ objs' = Deleted(call, x)
  BY <1>1 DEF Child, Skip, Return, Write, Call
<1> HIDE DEF x
<1>3. CASE busy' = {} \/ failed'
  BY <1>3 DEF BuiltSoFar
<1>4. CASE /\ plan' = plan \ {call} /\ UNCHANGED <<busy, copy, failed>>
           /\ \/ call.verb = "ensure" /\ objs' = Ensured(call, c, x) /\ ~Refused(call, x)
              \/ call.verb = "delete" /\ objs' = Deleted(call, x)
  <2> SUFFICES ASSUME ~copy.deleting, ~failed, Valid(copy.spec),
                      NEW k \in Wanted(copy.spec) \ Deletable
               PROVE  Ensure(k) \in plan' \/ Standing(c, k)'
    BY <1>1, <1>4 DEF BuiltSoFar
  <2> DEFINE o == Target(Ensure(k), c, copy.spec)
  <2>1. Ensure(k) \in plan \/ Standing(c, k)
    BY <1>1 DEF BuildInv, BuiltSoFar
  <2>2. Standing(c, k)' <=> (o \in DOMAIN objs' \/ (o.ns = Home /\ copy.uid > 1))
    BY <1>4 DEF Standing
  <2>3. Standing(c, k) <=> (o \in DOMAIN objs \/ (o.ns = Home /\ copy.uid > 1))
    BY DEF Standing
  <2>4. o.kind = k /\ x.kind = call.kind
    BY <1>1, WantedKinds, TargetName DEF x
  <2>5. CASE call.verb = "ensure" /\ objs' = Ensured(call, c, x) /\ ~Refused(call, x)
    <3>1. DOMAIN objs \subseteq DOMAIN objs'
      BY <2>5 DEF Ensured, With
    <3>2. CASE Ensure(k) # call
      BY <1>4, <2>1, <2>2, <2>3, <3>1, <3>2
    <3>3. CASE Ensure(k) = call
      <4>1. o = x
        BY <3>3 DEF x
      <4>2. x \in DOMAIN Ensured(Ensure(k), c, x) \/ (x.ns = Home /\ copy.uid > 1)
        BY <1>1, <2>5, <3>3, EnsuredStands DEF BuildInv, x
      <4> HIDE DEF o
      <4> QED BY <2>2, <2>5, <3>3, <4>1, <4>2
    <3> QED BY <3>2, <3>3
  <2>6. CASE call.verb = "delete" /\ objs' = Deleted(call, x)
    <3>1. call.kind # k
      BY <1>1, <2>6, WantedKinds DEF BuildInv, PlanOfSpec
    <3>2. o # x /\ Ensure(k) # call
      BY <2>4, <2>6, <3>1
    <3>3. o \in DOMAIN objs => o \in DOMAIN objs'
      BY <2>6, <3>2 DEF Deleted, Without
    <3> HIDE DEF o
    <3> QED BY <1>4, <2>1, <2>2, <2>3, <3>2, <3>3
  <2> QED BY <1>4, <2>5, <2>6
<1> QED BY <1>2, <1>3, <1>4

LEMMA BuiltStep ==
    ASSUME OneKeeper, TypeOK, Known, BuildInv, [Next]_vars
    PROVE  BuiltSoFar'
<1>1. CASE busy' = {} \/ copy'.deleting \/ UNCHANGED <<objs, busy, copy, plan, failed>>
  <2>1. CASE busy' = {} \/ copy'.deleting
    BY <2>1 DEF BuiltSoFar
  <2>2. CASE UNCHANGED <<objs, busy, copy, plan, failed>>
    <3>1. ASSUME NEW c, NEW k PROVE Standing(c, k)' <=> Standing(c, k)
      BY <2>2 DEF Standing
    <3> QED BY <2>2, <3>1 DEF BuildInv, BuiltSoFar
  <2> QED BY <1>1, <2>1, <2>2
<1>2. ASSUME NEW c \in CRs, finalizeReaderRBAC(c) PROVE copy'.deleting
  BY <1>2 DEF finalizeReaderRBAC, Begin
<1>3. ASSUME NEW c \in CRs, Reconcile(c) PROVE BuiltSoFar'
  <2> DEFINE r == [crCache[c] EXCEPT !.finalizer = TRUE]
  <2>1. \/ busy' = {}
        \/ copy' = r /\ plan' = IF Valid(r.spec) THEN ReconcilePlan(r.spec) ELSE {}
    BY <1>3 DEF Reconcile, Begin, Return
  <2>2. r.spec \in Specs
    BY DEF TypeOK, Resource
  <2> HIDE DEF r
  <2>3. CASE copy' = r /\ plan' = IF Valid(r.spec) THEN ReconcilePlan(r.spec) ELSE {}
    BY <2>2, <2>3, WantedKinds DEF BuiltSoFar
  <2> QED BY <1>1, <2>1, <2>3
<1>4. ASSUME NEW x \in DOMAIN objs, DeleteObject(x) \/ CollectGarbage(x) PROVE BuiltSoFar'
  <2>1. objs' = Without(objs, x) /\ UNCHANGED <<busy, copy, plan, failed>>
    BY <1>4 DEF DeleteObject, CollectGarbage, Write, worker
  <2> SUFFICES ASSUME NEW c \in busy, ~copy.deleting, ~failed, Valid(copy.spec),
                      NEW k \in Wanted(copy.spec) \ Deletable, Ensure(k) \notin plan
               PROVE  Standing(c, k)'
    BY <2>1 DEF BuiltSoFar
  <2> DEFINE o == Target(Ensure(k), c, copy.spec)
  <2>2. o \in DOMAIN objs \/ (o.ns = Home /\ copy.uid > 1)
    BY DEF BuildInv, BuiltSoFar, Standing
  <2>3. Standing(c, k)' <=> (o \in DOMAIN objs' \/ (o.ns = Home /\ copy.uid > 1))
    BY <2>1 DEF Standing
  <2>4. o.kind = k
    BY WantedKinds, TargetName DEF TypeOK, Resource
  <2>5. CASE o.ns = Home /\ copy.uid > 1
    BY <2>3, <2>5
  <2>6. CASE o \in DOMAIN objs /\ ~(o.ns = Home /\ copy.uid > 1)
    <3>1. ASSUME DeleteObject(x) PROVE x # o
      BY <2>4, <3>1 DEF DeleteObject
    <3>2. ASSUME CollectGarbage(x) PROVE x # o
      BY <2>6, <3>2, NotCollected DEF BuildInv
    <3>3. o \in DOMAIN objs'
      BY <1>4, <2>1, <2>6, <3>1, <3>2 DEF Without
    <3> QED BY <2>3, <3>3
  <2> QED BY <2>2, <2>5, <2>6
<1>5. ASSUME NEW c \in CRs, Ignore(c) \/ RemoveFinalizer(c) PROVE busy' = {}
  BY <1>5 DEF Ignore, RemoveFinalizer, Return
<1>6. ASSUME NEW c \in CRs, NEW ready, updateStatus(c, ready) PROVE busy' = {}
  BY <1>6 DEF updateStatus, Return
<1>7. ASSUME Informers PROVE UNCHANGED <<objs, busy, copy, plan, failed>>
  BY <1>7 DEF Informers, SyncCR, SyncObject, worker
<1>8. ASSUME NEW c \in CRs, DeleteCR(c) \/ \E s \in Specs : Apply(c, s)
      PROVE  UNCHANGED <<objs, busy, copy, plan, failed>>
  BY <1>8 DEF DeleteCR, Apply, worker
<1>9. Restart => busy' = {}
  BY DEF Restart
<1>10. UNCHANGED vars => UNCHANGED <<objs, busy, copy, plan, failed>>
  BY DEF vars, worker
<1> QED
  BY <1>1, <1>2, <1>3, <1>4, <1>5, <1>6, <1>7, <1>8, <1>9, <1>10, ChildBuilds
  DEF Next, Worker, Environment

(* Only updateStatus makes a resource Ready, after a reconcile without an error. *)
LEMMA ReadyStep ==
    ASSUME TypeOK, BuildInv, [Next]_vars, NEW c \in CRs, BecomesReady(c)
    PROVE  \A k \in Wanted(cr[c].spec) \ Deletable :
              LET o == Target(Ensure(k), c, cr[c].spec)
              IN  o \in DOMAIN objs \/ (o.ns = Home /\ cr[c].uid > 1)
<1>1. ASSUME NEW d \in CRs, NEW ready, updateStatus(d, ready), cr'[c].ready # cr[c].ready
      PROVE  /\ d = c /\ c \in busy /\ plan = {} /\ ~copy.deleting /\ cr[c] = copy
             /\ ready = "true" /\ Valid(copy.spec) /\ ~failed
  <2>1. cr[d] = copy /\ cr' = [cr EXCEPT ![d].ready = ready]
    BY <1>1 DEF updateStatus
  <2>2. d = c /\ ready = "true"
    BY <1>1, <2>1 DEF TypeOK, Resource, BecomesReady
  <2>3. Valid(copy.spec) /\ "true" \in computeConditions(d, copy.spec)
    BY <1>1, <2>2 DEF updateStatus
  <2>4. CanBeReady(d, copy.spec)
    BY <2>3 DEF computeConditions
  <2> QED BY <1>1, <2>1, <2>2, <2>3, <2>4 DEF updateStatus, CanBeReady
<1>2. ASSUME NEW d \in CRs, NEW ready, updateStatus(d, ready), cr'[c].ready # cr[c].ready,
             NEW k \in Wanted(cr[c].spec) \ Deletable
      PROVE  Standing(c, k) /\ cr[c] = copy
  BY <1>1, <1>2 DEF BuildInv, BuiltSoFar
<1>3. cr'[c].ready # cr[c].ready
  BY DEF BecomesReady
<1>4. \E d \in CRs, ready \in {"true", "false", "invalid"} : updateStatus(d, ready)
  <2> DEFINE Same == ~BecomesReady(c)
  <2>1. ASSUME NEW d \in CRs, Reconcile(d) PROVE Same
    <3> DEFINE r == [crCache[d] EXCEPT !.finalizer = TRUE]
    <3>1. UNCHANGED cr \/ (crCache[d] = cr[d] /\ cr' = [cr EXCEPT ![d] = r])
      BY <2>1 DEF Reconcile
    <3>2. crCache[d] = cr[d] => r.ready = cr[d].ready
      BY DEF TypeOK, Resource
    <3> HIDE DEF r
    <3> QED BY <3>1, <3>2 DEF TypeOK, BecomesReady
  <2>2. Absent.ready # "true"
    BY DEF Absent
  <2>3. ASSUME NEW d \in CRs, RemoveFinalizer(d) PROVE Same
    <3>1. UNCHANGED cr \/ cr' = [cr EXCEPT ![d] = Absent]
      BY <2>3 DEF RemoveFinalizer
    <3> QED BY <2>2, <3>1 DEF TypeOK, BecomesReady
  <2>4. ASSUME NEW d \in CRs, DeleteCR(d) PROVE Same
    <3>1. \/ cr' = [cr EXCEPT ![d] = Absent]
          \/ cr' = [cr EXCEPT ![d] = [cr[d] EXCEPT !.deleting = TRUE]]
      BY <2>4 DEF DeleteCR, TypeOK
    <3>2. [cr[d] EXCEPT !.deleting = TRUE].ready = cr[d].ready
      BY DEF TypeOK, Resource
    <3> QED BY <2>2, <3>1, <3>2 DEF TypeOK, BecomesReady
  <2>5. ASSUME NEW d \in CRs, NEW s \in Specs, Apply(d, s) PROVE Same
    <3> DEFINE new == [Absent EXCEPT !.uid = uids + 1, !.spec = s]
               edited == [cr[d] EXCEPT !.spec = s]
    <3>1. cr' = [cr EXCEPT ![d] = new] \/ cr' = [cr EXCEPT ![d] = edited]
      BY <2>5 DEF Apply, TypeOK
    <3>2. new.ready # "true" /\ edited.ready = cr[d].ready
      BY DEF Absent, TypeOK, Resource
    <3> HIDE DEF new, edited
    <3> QED BY <3>1, <3>2 DEF TypeOK, BecomesReady
  <2>6. UNCHANGED cr => Same
    BY DEF BecomesReady
  <2>7. ASSUME NEW d \in CRs, Ignore(d) \/ finalizeReaderRBAC(d) \/ SyncCR(d) PROVE UNCHANGED cr
    BY <2>7 DEF Ignore, finalizeReaderRBAC, SyncCR
  <2>8. ASSUME NEW d \in CRs, NEW call \in plan, Child(d, call) PROVE UNCHANGED cr
    BY <2>8 DEF Child
  <2>9. ASSUME NEW o, SyncObject(o) \/ DeleteObject(o) \/ CollectGarbage(o) PROVE UNCHANGED cr
    BY <2>9 DEF SyncObject, DeleteObject, CollectGarbage
  <2>10. Restart \/ UNCHANGED vars => UNCHANGED cr
    BY DEF Restart, vars
  <2> HIDE DEF Same
  <2>11. ~Same
    BY DEF Same
  <2> QED
    BY <2>1, <2>3, <2>4, <2>5, <2>6, <2>7, <2>8, <2>9, <2>10, <2>11
    DEF Next, Worker, Informers, Environment
<1> QED BY <1>2, <1>3, <1>4 DEF Standing

(* For any specs, lagging caches, failing calls and edits: a resource is reported
   Ready only when every object its spec asks for is in the API server (the errors
   that reconcile tracks, createOrUpdate, computeConditions), apart from what users
   delete and, in its own namespace, from leftovers of an earlier resource. *)
THEOREM ReadySafe ==
    ASSUME OneKeeper
    PROVE  Spec => ReadyMeansBuilt
<1>1. Init => Known /\ BuildInv
  <2> SUFFICES ASSUME Init PROVE Known /\ BuildInv
    OBVIOUS
  <2>1. /\ DOMAIN objs = {} /\ DOMAIN cache = {} /\ busy = {} /\ uids = 0
        /\ \A c \in CRs : cr[c] = Absent /\ crCache[c] = Absent
    BY DEF Init
  <2>2. Absent.uid = 0 /\ ~Absent.deleting /\ ~Absent.finalizer
    BY DEF Absent
  <2>3. Known
    BY <2>1, <2>2 DEF Known, CopiesOfThePast, WorkerKnows
  <2> QED
    BY <2>1, <2>3 DEF BuildInv, PlanOfSpec, Ownership, NothingBefore, CachedKeysAreThere, BuiltSoFar
<1>2. TypeOK /\ PlanSparesKeys /\ Known /\ BuildInv /\ [Next]_vars => Known' /\ BuildInv'
  BY KnownStep, PlanOfSpecStep, OwnershipStep, NothingBeforeStep, CachedKeysStep, BuiltStep
  DEF BuildInv
<1>3. TypeOK /\ BuildInv /\ [Next]_vars => [ReadyAfterBuilt]_vars
  BY ReadyStep DEF ReadyAfterBuilt
<1>4. Init => PlanSparesKeys
  BY DEF Init, PlanSparesKeys
<1> QED BY <1>1, <1>2, <1>3, <1>4, PlanSparesKeysStep, TypeCorrect, PTL DEF Spec, ReadyMeansBuilt
================================================================================
