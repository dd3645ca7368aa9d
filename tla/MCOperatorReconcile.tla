-------------------------- MODULE MCOperatorReconcile --------------------------
(* Instances of OperatorReconcile for TLC. *)
EXTENDS OperatorReconcile

CONSTANTS c1, key, audit

Plain ==
    [features |-> {}, serviceAccountName |-> 0, complete |-> TRUE, backend |-> "inmemory",
     replicas |-> 1, auditNamespace |-> Home, storeNamespace |-> Home, secretName |-> key,
     version |-> 1]

(* The approval server with a foreign audit namespace, switched off and on,
   and with replicas that its store does not allow. *)
Approval == [Plain EXCEPT !.features = {"approval"}, !.auditNamespace = audit]
ApprovalOff == [Approval EXCEPT !.features = {}, !.serviceAccountName = 1]
TooManyReplicas == [Approval EXCEPT !.replicas = 2]
ApprovalSpecs == {Approval, ApprovalOff, TooManyReplicas}

(* The watcher with and without the AI memory. *)
Memory == [Plain EXCEPT !.features = {"watcher", "memory"}]
NoMemory == [Plain EXCEPT !.features = {"watcher"}, !.serviceAccountName = 1, !.version = 2]
MemorySpecs == {Memory, NoMemory}
================================================================================
