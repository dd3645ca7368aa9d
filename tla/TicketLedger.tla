----------------------------- MODULE TicketLedger -----------------------------
(***************************************************************************)
(* What the ticketing of the watcher promises its users, without reports,      *)
(* cycles, Slack or restarts: a finding that is grave enough gets one ticket,   *)
(* a finding has never two that are open, and a ticket is closed only for a     *)
(* finding that is gone or was on record as not grave.                         *)
(***************************************************************************)
CONSTANT Findings

VARIABLES
    found,      \* finding -> "none", "minor" or "grave": what the cycle at work found
    known,      \* finding -> the same: what is on record
    load        \* finding -> its open tickets

Grades == {"none", "minor", "grave"}

Init ==
    /\ found = [f \in Findings |-> "none"]
    /\ known = [f \in Findings |-> "none"]
    /\ load = [f \in Findings |-> {}]

(* The cluster is looked at, or a record is made. *)
Observe ==
    /\ found' \in [Findings -> Grades]
    /\ known' \in [Findings -> Grades]
    /\ UNCHANGED load

Open(f) ==
    /\ found[f] = "grave"
    /\ load[f] = {}
    /\ \E ticket \in load'[f] : load' = [load EXCEPT ![f] = {ticket}]
    /\ UNCHANGED <<found, known>>

Close(f) ==
    /\ found[f] = "none" \/ known[f] # "grave"
    /\ \E ticket \in load[f] : load[f] = {ticket}
    /\ load' = [load EXCEPT ![f] = {}]
    /\ UNCHANGED <<found, known>>

Next == Observe \/ \E f \in Findings : Open(f) \/ Close(f)

Spec == Init /\ [][Next]_<<found, known, load>>
================================================================================
