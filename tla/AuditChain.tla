------------------------------- MODULE AuditChain -------------------------------
(***************************************************************************)
(* The tamper-evident audit trail (pkg/audit/hash_chain.go): ChainedSink    *)
(* links every entry to its predecessor by hash, adds a checkpoint after    *)
(* every CheckpointEvery data events, and continues an existing chain after *)
(* a restart; VerifyChain checks a log.                                     *)
(*                                                                         *)
(* sha256 is a collision-free function of the hashed entry: digests lists   *)
(* the entries hashed so far, and the hash of an entry is its place in the  *)
(* list.  0 is the empty string, the anchor of the chain and the value of   *)
(* an absent field.                                                         *)
(*                                                                         *)
(* Details is a map, so an event that is written again after an error       *)
(* brings back the fields the failed attempt put there, unless its caller   *)
(* passed none.                                                             *)
(***************************************************************************)
EXTENDS Naturals, Sequences, FiniteSets

CONSTANTS
    Events,            \* data events
    Reused,            \* those that are retried with the same non-nil Details map
    Times,             \* what the clock can say
    CheckpointEvery,   \* 0: NewChainedSink, no automatic checkpoints
    Signatures,        \* results of signing: 0 none, 1 signed
    Outcomes,          \* what the inner sink can do with a write
    MaxEntries,        \* bound on the log
    MaxFaults          \* bound on failed writes and restarts

checkpoint == "audit.checkpoint"

ASSUME Kinds == checkpoint \notin Events /\ Reused \subseteq Events
ASSUME Numbers ==
    /\ {CheckpointEvery, MaxEntries, MaxFaults} \subseteq Nat
    /\ Times \subseteq Nat \ {0}
    /\ Signatures \subseteq {0, 1}
(* "error": nothing was stored; "late error": the entry was stored all the same;
   "unencodable": json.Marshal fails. *)
ASSUME OutcomesKnown == Outcomes \subseteq {"ok", "error", "late error", "unencodable"}

VARIABLES
    store,             \* the log the inner sink keeps
    digests,           \* the entries that were hashed
    lastHash,
    sinceCheckpoint,
    details,           \* entry_time and entry_hash in the map of a failed event
    due,               \* 1: Write holds the lock and has a checkpoint to write
    missed,            \* history: data events that failed checkpoints and restarts excuse
    faults             \* failures and restarts so far

vars == <<store, digests, lastHash, sinceCheckpoint, details, due, missed, faults>>

Entry ==
    [event: Events \cup {checkpoint}, entry_time: Times, prev_hash: Nat,
     entry_hash: Nat, sig: {0, 1}]

NoDetails == [entry_time |-> 0, entry_hash |-> 0]

Init ==
    /\ store = <<>>
    /\ digests = <<>>
    /\ lastHash = 0
    /\ sinceCheckpoint = 0
    /\ details = [e \in Events |-> NoDetails]
    /\ due = 0
    /\ missed = 0
    /\ faults = 0

--------------------------------------------------------------------------------
(* Seeded defect: the time is not part of the hashed bytes. *)
sha256WithoutTime(e, d) ==
    LET same == {h \in DOMAIN d : [d[h] EXCEPT !.entry_time = e.entry_time] = e} IN
    IF same # {} THEN CHOOSE h \in same : \A k \in same : h <= k ELSE Len(d) + 1

(* The hash of an entry; one that was never hashed gets the next number. *)
sha256(e, d) ==
    IF \E h \in DOMAIN d : d[h] = e THEN CHOOSE h \in DOMAIN d : d[h] = e ELSE Len(d) + 1

Hashed(e, d) == IF \E h \in DOMAIN d : d[h] = e THEN d ELSE Append(d, e)

(* An entry of a broken prefix: its link to the previous entry, or the hash of
   what it says without its entry_hash, is wrong. *)
broken(s, d) ==
    {i \in DOMAIN s :
        \/ s[i].prev_hash # (IF i = 1 THEN 0 ELSE s[i - 1].entry_hash)
        \/ s[i].entry_hash # sha256([s[i] EXCEPT !.entry_hash = 0], d)}

(* The first broken entry, 0 (the code's -1) for an intact chain. *)
VerifyChain(s, d) ==
    IF broken(s, d) = {} THEN 0
    ELSE CHOOSE i \in broken(s, d) : \A j \in broken(s, d) : i <= j

Checkpoints(s, limit) == {i \in 1..limit : s[i].event = checkpoint}
LastCheckpoint(s, limit) ==
    IF Checkpoints(s, limit) = {} THEN 0
    ELSE CHOOSE i \in Checkpoints(s, limit) : \A j \in Checkpoints(s, limit) : j <= i

isSignedCheckpoint(e) == e.event = checkpoint /\ e.sig # 0

(* Seeded defect: the checkpoints behind the break count as well. *)
scansWholeLog(s, d) ==
    [BrokenIndex |-> VerifyChain(s, d), LastCheckpointIndex |-> LastCheckpoint(s, Len(s)),
     TailAnchored |-> VerifyChain(s, d) = 0 /\ s # <<>> /\ isSignedCheckpoint(s[Len(s)])]

(* The last checkpoint of the verified prefix, and whether the log ends with a
   signed one; the signature itself is not looked at. *)
VerifyChainWithCheckpoints(s, d) ==
    LET b == VerifyChain(s, d)
    IN  [BrokenIndex |-> b,
         LastCheckpointIndex |-> LastCheckpoint(s, IF b = 0 THEN Len(s) ELSE b - 1),
         TailAnchored |-> b = 0 /\ s # <<>> /\ isSignedCheckpoint(s[Len(s)])]

--------------------------------------------------------------------------------
stampEntryTime(m, t) == IF m.entry_time # 0 THEN m.entry_time ELSE t

(* The entry as it is hashed: whatever entry_hash the map already held is
   part of the bytes. *)
Stamped(event, m, t, sig) ==
    [event |-> event, entry_time |-> stampEntryTime(m, t), prev_hash |-> lastHash,
     entry_hash |-> m.entry_hash, sig |-> sig]

(* Seeded defect: the head moves before the inner sink has answered. *)
chainEntryAdvancesFirst(e, o) ==
    /\ digests' = IF o = "unencodable" THEN digests ELSE Hashed(e, digests)
    /\ store' = IF o \in {"ok", "late error"}
                THEN Append(store, [e EXCEPT !.entry_hash = sha256(e, digests)]) ELSE store
    /\ lastHash' = IF o = "unencodable" THEN lastHash ELSE sha256(e, digests)
    /\ faults' = IF o = "ok" THEN faults ELSE faults + 1

(* Seeded defect: the hash leaves out the time. *)
chainEntryWithoutTime(e, o) ==
    /\ digests' = IF o = "unencodable" THEN digests ELSE Hashed(e, digests)
    /\ store' = IF o \in {"ok", "late error"}
                THEN Append(store, [e EXCEPT !.entry_hash = sha256(e, digests),
                                             !.entry_time = 0]) ELSE store
    /\ lastHash' = IF o = "ok" THEN sha256(e, digests) ELSE lastHash
    /\ faults' = IF o = "ok" THEN faults ELSE faults + 1

(* Hash, embed entry_hash, delegate; the head moves only on success. *)
chainEntryLocked(e, o) ==
    /\ digests' = IF o = "unencodable" THEN digests ELSE Hashed(e, digests)
    /\ store' = IF o \in {"ok", "late error"}
                THEN Append(store, [e EXCEPT !.entry_hash = sha256(e, digests)]) ELSE store
    /\ lastHash' = IF o = "ok" THEN sha256(e, digests) ELSE lastHash
    /\ faults' = IF o = "ok" THEN faults ELSE faults + 1

Room(o) == Len(store) < MaxEntries /\ (o = "ok" \/ faults < MaxFaults)

(* Seeded defect: the checkpoint comes one event late. *)
countLate == IF CheckpointEvery > 0 /\ sinceCheckpoint >= CheckpointEvery THEN 1 ELSE 0

(* A data event counts towards the next checkpoint. *)
count == IF CheckpointEvery > 0 /\ sinceCheckpoint + 1 >= CheckpointEvery THEN 1 ELSE 0

(* Write, up to the checkpoint it may owe.  Its caller either retries an event
   that failed or brings a new one. *)
Write(event, t, o) ==
    /\ due = 0 /\ Room(o)
    /\ LET e == Stamped(event, details[event], t, 0) IN
       /\ chainEntryLocked(e, o)
       /\ details' = [details EXCEPT ![event] =
             IF o = "ok" \/ event \notin Reused THEN NoDetails
             ELSE [entry_time |-> e.entry_time,
                   entry_hash |-> IF o = "unencodable" THEN @.entry_hash
                                  ELSE sha256(e, digests)]]
    /\ IF o = "ok" /\ CheckpointEvery > 0
       THEN sinceCheckpoint' = sinceCheckpoint + 1 /\ due' = count
       ELSE UNCHANGED <<sinceCheckpoint, due>>
    /\ UNCHANGED missed

(* A checkpoint is chained like a data event and resets the count; its errors
   are dropped, and so is the error of a signer. *)
writeCheckpointLocked(t, sig, o) ==
    /\ Room(o)
    /\ chainEntryLocked(Stamped(checkpoint, NoDetails, t, sig), o)
    /\ IF o = "ok" THEN sinceCheckpoint' = 0 /\ missed' = 0
       ELSE missed' = missed + due /\ UNCHANGED sinceCheckpoint
    /\ due' = 0
    /\ UNCHANGED details

(* By the cadence, or by the caller's WriteCheckpoint. *)
WriteCheckpoint(t, sig, o) == due = 0 /\ writeCheckpointLocked(t, sig, o)
CadenceCheckpoint(t, sig, o) == due = 1 /\ writeCheckpointLocked(t, sig, o)

(* The process is replaced, between a data event and its checkpoint too; the
   store gives the new sink its last entry_hash. *)
NewChainedSinkResuming ==
    /\ faults < MaxFaults
    /\ lastHash' = IF store = <<>> THEN 0 ELSE store[Len(store)].entry_hash
    /\ sinceCheckpoint' = 0
    /\ details' = [e \in Events |-> NoDetails]
    /\ due' = 0
    /\ missed' = missed + sinceCheckpoint
    /\ faults' = faults + 1
    /\ UNCHANGED <<store, digests>>

Next ==
    \/ \E event \in Events, t \in Times, o \in Outcomes : Write(event, t, o)
    \/ \E t \in Times, sig \in Signatures, o \in Outcomes \ {"unencodable"} :
          WriteCheckpoint(t, sig, o) \/ CadenceCheckpoint(t, sig, o)
    \/ NewChainedSinkResuming

Spec == Init /\ [][Next]_vars

--------------------------------------------------------------------------------
TypeOK ==
    /\ store \in Seq(Entry)
    /\ digests \in Seq(Entry)
    /\ lastHash \in Nat
    /\ sinceCheckpoint \in Nat
    /\ details \in [Events -> [entry_time: Times \cup {0}, entry_hash: Nat]]
    /\ due \in 0..1
    /\ missed \in Nat
    /\ faults \in 0..MaxFaults

(* The log verifies at every moment, through failed writes, checkpoints and
   restarts (Write: "the chain state is NOT advanced (so a downstream retry
   continues from the same prev_hash)"). *)
ChainVerifies == VerifyChain(store, digests) = 0

(* What one edit of the log can be: entry i says something else, with its old
   hash or with a new one, or disappears, or changes places with entry j. *)
Rewritten(i, c) == [store EXCEPT ![i] = [c EXCEPT !.entry_hash = store[i].entry_hash]]
Rehashed(i, c) == [store EXCEPT ![i] = [c EXCEPT !.entry_hash = sha256(c, digests)]]
Without(i) == [k \in 1..(Len(store) - 1) |-> IF k < i THEN store[k] ELSE store[k + 1]]
Swapped(i, j) == [store EXCEPT ![i] = store[j], ![j] = store[i]]

(* The contents entry i could be changed to, every field but entry_hash. *)
Edits(i) ==
    {c \in [event: Events \cup {checkpoint}, entry_time: Times, prev_hash: {store[i].prev_hash},
            entry_hash: {0}, sig: {0, 1}] : c # [store[i] EXCEPT !.entry_hash = 0]}

(* An entry cannot be edited, taken out of the middle or moved without
   VerifyChain noticing ("if entry M was edited, entry M's recomputed self-hash
   (or entry M+1's prev_hash link) will not match"). *)
TamperEvident ==
    \A i \in DOMAIN store :
       /\ \A c \in Edits(i) :
             /\ VerifyChain(Rewritten(i, c), digests) # 0
             /\ i < Len(store) => VerifyChain(Rehashed(i, c), Hashed(c, digests)) # 0
       /\ i < Len(store) => VerifyChain(Without(i), digests) # 0
       /\ \A j \in DOMAIN store : i # j => VerifyChain(Swapped(i, j), digests) # 0

(* The logs in which entry i is the first that one edit disturbs. *)
EditedAt(i) ==
    {Rewritten(i, c) : c \in Edits(i)}
    \cup (IF i < Len(store) THEN {Without(i)} ELSE {})
    \cup {Swapped(i, j) : j \in (i + 1)..Len(store)}

(* Of an edited log VerifyChainWithCheckpoints tells the place of the edit and the
   last checkpoint before it, and never that its tail is anchored ("a caller of a
   broken chain still learns the last good anchor").  A log that is cut off is
   not among the edits. *)
LastGoodAnchor ==
    \A i \in DOMAIN store : \A s \in EditedAt(i) :
        VerifyChainWithCheckpoints(s, digests) =
            [BrokenIndex |-> i, LastCheckpointIndex |-> LastCheckpoint(store, i - 1),
             TailAnchored |-> FALSE]

DataSinceCheckpoint ==
    Cardinality({i \in DOMAIN store : \A j \in i..Len(store) : store[j].event # checkpoint})

(* The unanchored tail is shorter than CheckpointEvery but for the checkpoints
   that failed and the events a restart forgot to count. *)
CadenceKept ==
    CheckpointEvery > 0 /\ due = 0 => DataSinceCheckpoint < CheckpointEvery + missed
================================================================================
