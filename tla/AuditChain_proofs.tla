---------------------------- MODULE AuditChain_proofs ----------------------------
(* TLAPS proofs about AuditChain: the log always verifies, no single edit of it
   does, and its unanchored tail is bounded. *)
EXTENDS AuditChain, TLAPS, WellFoundedInduction, FiniteSetTheorems

(* What the callers and the inner sink must keep to: no event is retried with
   the map of its failed attempt, and an error means that nothing was stored. *)
Contract == Reused = {} /\ "late error" \notin Outcomes

(* The hash table of an ideal hash function: no two places hold the same entry,
   and an entry's prev_hash was there before it. *)
Table(d) ==
    /\ d \in Seq(Entry)
    /\ \A g, h \in DOMAIN d : d[g] = d[h] => g = h
    /\ \A h \in DOMAIN d : d[h].prev_hash < h

LEMMA NumbersAre ==
    CheckpointEvery \in Nat /\ MaxEntries \in Nat /\ MaxFaults \in Nat
BY Numbers

(* A set of positions that is not empty has a first one. *)
LEMMA FirstExists ==
    ASSUME NEW S, S \subseteq Nat, S # {}
    PROVE  \E i \in S : \A j \in S : i <= j
<1> DEFINE R == OpToRel(<, Nat)
<1>1. IsWellFoundedOn(R, Nat)
  BY NatLessThanWellFounded
<1>2. \E i \in S : \A j \in S : <<j, i>> \notin R
  <2> HIDE DEF R
  <2> QED BY <1>1, WFMin
<1>3. \A i, j \in Nat : j < i => <<j, i>> \in R
  BY DEF OpToRel
<1> HIDE DEF R
<1>4. PICK i \in S : \A j \in S : <<j, i>> \notin R
  BY <1>2
<1>5. ASSUME NEW j \in S PROVE i <= j
  <2>1. i \in Nat /\ j \in Nat
    BY <1>4, <1>5
  <2>2. ~(j < i)
    BY <1>3, <1>4, <2>1, Zenon
  <2> QED BY <2>1, <2>2
<1> QED BY <1>4, <1>5

(* VerifyChain answers 0 exactly when no entry is broken. *)
LEMMA VerifyMeans ==
    ASSUME NEW s, NEW d, DOMAIN s \subseteq Nat \ {0}
    PROVE  VerifyChain(s, d) = 0 <=> broken(s, d) = {}
<1>1. broken(s, d) \subseteq Nat \ {0}
  BY DEF broken
<1>2. ASSUME broken(s, d) # {} PROVE VerifyChain(s, d) # 0
  <2> DEFINE B == broken(s, d)
  <2>1. \E i \in B : \A j \in B : i <= j
    BY <1>1, <1>2, FirstExists
  <2>2. VerifyChain(s, d) \in B
    BY <1>2, <2>1 DEF VerifyChain
  <2> QED BY <1>1, <2>2
<1> QED BY <1>2 DEF VerifyChain

(* Hashing an entry: where it ends up, and that nothing else moves. *)
LEMMA HashPlaces ==
    ASSUME NEW d, Table(d), NEW e \in Entry, e.prev_hash <= Len(d)
    PROVE  /\ Table(Hashed(e, d))
           /\ sha256(e, d) \in DOMAIN Hashed(e, d)
           /\ Hashed(e, d)[sha256(e, d)] = e
           /\ DOMAIN d \subseteq DOMAIN Hashed(e, d)
           /\ \A h \in DOMAIN d : Hashed(e, d)[h] = d[h]
<1>1. CASE \E h \in DOMAIN d : d[h] = e
  <2>1. sha256(e, d) \in DOMAIN d /\ d[sha256(e, d)] = e
    BY <1>1 DEF sha256
  <2> QED BY <1>1, <2>1 DEF Hashed
<1>2. CASE ~ \E h \in DOMAIN d : d[h] = e
  <2>1. d \in Seq(Entry) /\ Hashed(e, d) = Append(d, e) /\ sha256(e, d) = Len(d) + 1
    BY <1>2 DEF Hashed, sha256, Table
  <2>2. /\ Append(d, e) \in Seq(Entry) /\ Len(d) \in Nat
        /\ DOMAIN d = 1..Len(d) /\ DOMAIN Append(d, e) = 1..(Len(d) + 1)
        /\ Append(d, e)[Len(d) + 1] = e
        /\ \A h \in 1..Len(d) : Append(d, e)[h] = d[h]
    BY <2>1
  <2>3. e.prev_hash \in Nat
    BY DEF Entry
  <2>4. Table(Append(d, e))
    BY <1>2, <2>2, <2>3 DEF Table
  <2> QED BY <2>1, <2>2, <2>4
<1> QED BY <1>1, <1>2

(* An entry in the table has one hash, its place. *)
LEMMA HashUnique ==
    ASSUME NEW d, Table(d), NEW h \in DOMAIN d
    PROVE  sha256(d[h], d) = h
BY DEF sha256, Table

--------------------------------------------------------------------------------
(* Every entry of the log is linked to its predecessor, is what its hash says,
   and has a later hash than all before it; lastHash is the hash of the last. *)
Linked ==
    \A i \in DOMAIN store :
        /\ store[i].prev_hash = IF i = 1 THEN 0 ELSE store[i - 1].entry_hash
        /\ store[i].entry_hash \in DOMAIN digests
        /\ digests[store[i].entry_hash] = [store[i] EXCEPT !.entry_hash = 0]

Increasing ==
    \A i, j \in DOMAIN store : i < j => store[i].entry_hash < store[j].entry_hash

HeadIsTail == lastHash = IF store = <<>> THEN 0 ELSE store[Len(store)].entry_hash

ChainInv ==
    /\ TypeOK
    /\ Table(digests)
    /\ details = [e \in Events |-> NoDetails]
    /\ Linked
    /\ Increasing
    /\ HeadIsTail

(* The strengthening is enough: an invariant state has a log that verifies. *)
LEMMA InvVerifies == ASSUME ChainInv PROVE ChainVerifies
<1>1. DOMAIN store \subseteq Nat \ {0}
  BY DEF ChainInv, TypeOK
<1>2. ASSUME NEW i \in DOMAIN store PROVE i \notin broken(store, digests)
  <2>1. sha256(digests[store[i].entry_hash], digests) = store[i].entry_hash
    BY HashUnique DEF ChainInv, Linked
  <2>2. sha256([store[i] EXCEPT !.entry_hash = 0], digests) = store[i].entry_hash
    BY <2>1 DEF ChainInv, Linked
  <2>3. store[i].prev_hash = IF i = 1 THEN 0 ELSE store[i - 1].entry_hash
    BY DEF ChainInv, Linked
  <2> QED BY <2>2, <2>3 DEF broken
<1>3. broken(store, digests) = {}
  BY <1>2 DEF broken
<1> QED BY <1>1, <1>3, VerifyMeans DEF ChainVerifies

(* The one step that touches the log: an entry without leftovers is hashed, and
   stored on success. *)
LEMMA ChainStep ==
    ASSUME ChainInv, NEW o \in {"ok", "error", "unencodable"},
           NEW e \in Entry, e.prev_hash = lastHash, e.entry_hash = 0,
           chainEntryLocked(e, o)
    PROVE  /\ store' \in Seq(Entry) /\ lastHash' \in Nat
           /\ Table(digests') /\ Linked' /\ Increasing' /\ HeadIsTail'
<1> DEFINE h == sha256(e, digests)
           x == [e EXCEPT !.entry_hash = h]
<1>1. /\ store \in Seq(Entry) /\ Len(store) \in Nat /\ DOMAIN store = 1..Len(store)
      /\ digests \in Seq(Entry) /\ Len(digests) \in Nat /\ DOMAIN digests = 1..Len(digests)
      /\ lastHash \in Nat /\ Table(digests)
  BY DEF ChainInv, TypeOK
<1>2. \A i \in DOMAIN store : store[i] \in Entry /\ store[i].entry_hash \in 1..Len(digests)
  <2>1. \A i \in DOMAIN store : store[i] \in Entry
    BY <1>1
  <2>2. \A i \in DOMAIN store : store[i].entry_hash \in DOMAIN digests
    BY Zenon DEF ChainInv, Linked
  <2> QED BY <1>1, <2>1, <2>2
<1>3. lastHash <= Len(digests) /\ \A i \in DOMAIN store : store[i].entry_hash <= lastHash
  <2>1. CASE store = <<>>
    BY <1>1, <2>1 DEF ChainInv, HeadIsTail
  <2>2. CASE store # <<>>
    <3>1. Len(store) \in DOMAIN store /\ lastHash = store[Len(store)].entry_hash
      BY <1>1, <2>2 DEF ChainInv, HeadIsTail
    <3>2. lastHash <= Len(digests)
      BY <1>1, <1>2, <3>1
    <3>3. ASSUME NEW i \in DOMAIN store PROVE store[i].entry_hash <= lastHash
      <4>1. CASE i = Len(store)
        BY <1>1, <3>1, <4>1
      <4>2. CASE i < Len(store)
        <5>1. store[i].entry_hash < store[Len(store)].entry_hash
          BY <3>1, <4>2 DEF ChainInv, Increasing
        <5>2. store[i].entry_hash \in Nat
          BY <1>1, <1>2
        <5> QED BY <1>1, <3>1, <5>1, <5>2
      <4> QED BY <1>1, <4>1, <4>2
    <3> QED BY <3>2, <3>3
  <2> QED BY <2>1, <2>2
<1>4. /\ Table(Hashed(e, digests))
      /\ h \in DOMAIN Hashed(e, digests)
      /\ Hashed(e, digests)[h] = e
      /\ DOMAIN digests \subseteq DOMAIN Hashed(e, digests)
      /\ \A g \in DOMAIN digests : Hashed(e, digests)[g] = digests[g]
  BY <1>1, <1>3, HashPlaces
<1>5. h \in Nat /\ lastHash < h
  <2>1. h \in Nat
    BY <1>4 DEF Table
  <2> QED BY <1>4, <2>1 DEF Table
<1> HIDE DEF h
<1>6. CASE o = "unencodable"
  <2>1. UNCHANGED <<store, digests, lastHash>>
    BY <1>6 DEF chainEntryLocked
  <2> QED BY <1>1, <2>1 DEF ChainInv, Linked, Increasing, HeadIsTail
<1>7. CASE o = "error"
  <2>1. UNCHANGED <<store, lastHash>> /\ digests' = Hashed(e, digests)
    BY <1>7 DEF chainEntryLocked
  <2>2. Linked'
    BY <1>1, <1>2, <1>4, <2>1 DEF ChainInv, Linked
  <2> QED BY <1>1, <1>4, <2>1, <2>2 DEF ChainInv, Increasing, HeadIsTail
<1>8. CASE o = "ok"
  <2>1. store' = Append(store, x) /\ digests' = Hashed(e, digests) /\ lastHash' = h
    BY <1>8 DEF chainEntryLocked, h
  <2>2. /\ x \in Entry /\ x.entry_hash = h /\ x.prev_hash = lastHash
        /\ [x EXCEPT !.entry_hash = 0] = e
    BY <1>5 DEF Entry
  <2> HIDE DEF x
  <2>3. /\ Append(store, x) \in Seq(Entry)
        /\ Len(Append(store, x)) = Len(store) + 1
        /\ DOMAIN Append(store, x) = 1..(Len(store) + 1)
        /\ Append(store, x)[Len(store) + 1] = x
        /\ \A i \in 1..Len(store) : Append(store, x)[i] = store[i]
    BY <1>1, <2>2
  <2>4. Linked'
    <3> SUFFICES ASSUME NEW i \in 1..(Len(store) + 1)
                 PROVE  /\ store'[i].prev_hash = IF i = 1 THEN 0 ELSE store'[i - 1].entry_hash
                        /\ store'[i].entry_hash \in DOMAIN digests'
                        /\ digests'[store'[i].entry_hash] = [store'[i] EXCEPT !.entry_hash = 0]
      BY <2>1, <2>3 DEF Linked
    <3>1. CASE i = Len(store) + 1
      <4>1. store'[i] = x
        BY <2>1, <2>3, <3>1
      <4>2. x.prev_hash = IF i = 1 THEN 0 ELSE store'[i - 1].entry_hash
        <5>1. CASE store = <<>>
          BY <1>1, <2>2, <3>1, <5>1 DEF ChainInv, HeadIsTail
        <5>2. CASE store # <<>>
          <6>1. Len(store) > 0 /\ i - 1 = Len(store) /\ i # 1
            BY <1>1, <3>1, <5>2
          <6>2. store'[i - 1] = store[Len(store)]
            BY <1>1, <2>1, <2>3, <6>1
          <6> QED BY <2>2, <5>2, <6>1, <6>2 DEF ChainInv, HeadIsTail
        <5> QED BY <5>1, <5>2
      <4> QED BY <1>4, <2>1, <2>2, <4>1, <4>2
    <3>2. CASE i \in 1..Len(store)
      <4>1. store'[i] = store[i] /\ (i # 1 => store'[i - 1] = store[i - 1])
        BY <1>1, <2>1, <2>3, <3>2
      <4>2. /\ store[i].prev_hash = IF i = 1 THEN 0 ELSE store[i - 1].entry_hash
            /\ store[i].entry_hash \in DOMAIN digests
            /\ digests[store[i].entry_hash] = [store[i] EXCEPT !.entry_hash = 0]
        BY <1>1, <3>2 DEF ChainInv, Linked
      <4> QED BY <1>4, <2>1, <4>1, <4>2
    <3> QED BY <1>1, <3>1, <3>2
  <2>5. Increasing'
    <3> SUFFICES ASSUME NEW i \in 1..(Len(store) + 1), NEW j \in 1..(Len(store) + 1), i < j
                 PROVE  store'[i].entry_hash < store'[j].entry_hash
      BY <2>1, <2>3 DEF Increasing
    <3>1. i \in 1..Len(store) /\ store'[i] = store[i]
      BY <1>1, <2>1, <2>3
    <3>2. CASE j = Len(store) + 1
      <4>1. store[i].entry_hash \in Nat /\ store[i].entry_hash <= lastHash
        BY <1>1, <1>2, <1>3, <3>1
      <4> QED BY <1>1, <1>5, <2>1, <2>2, <2>3, <3>1, <3>2, <4>1
    <3>3. CASE j \in 1..Len(store)
      BY <1>1, <2>1, <2>3, <3>1, <3>3 DEF ChainInv, Increasing
    <3> QED BY <1>1, <3>2, <3>3
  <2>6. HeadIsTail'
    BY <1>1, <2>1, <2>2, <2>3 DEF HeadIsTail
  <2> QED BY <1>4, <1>5, <2>1, <2>3, <2>4, <2>5, <2>6
<1> QED BY <1>6, <1>7, <1>8

LEMMA InvInit == ASSUME Init PROVE ChainInv
<1>1. TypeOK
  BY NumbersAre DEF Init, TypeOK, NoDetails
<1>2. Table(digests) /\ Linked /\ Increasing /\ HeadIsTail
  BY DEF Init, Table, Linked, Increasing, HeadIsTail
<1> QED BY <1>1, <1>2 DEF ChainInv, Init

LEMMA InvStep == ASSUME Contract, ChainInv, [Next]_vars PROVE ChainInv'
<1>0. details = [e \in Events |-> NoDetails]
  BY DEF ChainInv
<1>a. /\ lastHash \in Nat /\ sinceCheckpoint \in Nat /\ due \in 0..1 /\ missed \in Nat
      /\ faults \in Nat /\ faults <= MaxFaults /\ MaxFaults \in Nat
  BY NumbersAre DEF ChainInv, TypeOK
<1>b. ASSUME NEW o \in Outcomes PROVE o \in {"ok", "error", "unencodable"}
  BY OutcomesKnown DEF Contract
<1>c. ASSUME NEW o, Room(o), faults' = IF o = "ok" THEN faults ELSE faults + 1
      PROVE  faults' \in 0..MaxFaults
  BY <1>a, <1>c DEF Room
<1>1. CASE UNCHANGED vars
  BY <1>1 DEF vars, ChainInv, TypeOK, Table, Linked, Increasing, HeadIsTail
<1>2. ASSUME NEW event \in Events, NEW t \in Times, NEW o \in Outcomes, Write(event, t, o)
      PROVE  ChainInv'
  <2> DEFINE e == Stamped(event, details[event], t, 0)
  <2>1. e = [event |-> event, entry_time |-> t, prev_hash |-> lastHash, entry_hash |-> 0, sig |-> 0]
    BY <1>0 DEF Stamped, stampEntryTime, NoDetails
  <2>2. e \in Entry /\ e.prev_hash = lastHash /\ e.entry_hash = 0
    BY <1>a, <2>1, Numbers DEF Entry
  <2>3. o \in {"ok", "error", "unencodable"}
    BY <1>b
  <2>4. chainEntryLocked(e, o)
    BY <1>2 DEF Write
  <2>5. details' = [x \in Events |-> NoDetails]
    BY <1>0, <1>2 DEF Write, Contract
  <2> HIDE DEF e
  <2>6. /\ store' \in Seq(Entry) /\ lastHash' \in Nat
        /\ Table(digests') /\ Linked' /\ Increasing' /\ HeadIsTail'
    BY <2>2, <2>3, <2>4, ChainStep
  <2>7. TypeOK'
    <3>1. faults' \in 0..MaxFaults
      BY <1>2, <1>c, <2>4 DEF Write, chainEntryLocked
    <3>2. sinceCheckpoint' \in Nat /\ due' \in 0..1 /\ missed' \in Nat
      BY <1>2, <1>a DEF Write, count
    <3> QED BY <2>5, <2>6, <3>1, <3>2 DEF TypeOK, Table, NoDetails
  <2> QED BY <2>5, <2>6, <2>7 DEF ChainInv
<1>3. ASSUME NEW t \in Times, NEW sig \in Signatures, NEW o \in Outcomes \ {"unencodable"},
             writeCheckpointLocked(t, sig, o)
      PROVE  ChainInv'
  <2> DEFINE e == Stamped(checkpoint, NoDetails, t, sig)
  <2>1. e = [event |-> checkpoint, entry_time |-> t, prev_hash |-> lastHash, entry_hash |-> 0,
             sig |-> sig]
    BY DEF Stamped, stampEntryTime, NoDetails
  <2>2. e \in Entry /\ e.prev_hash = lastHash /\ e.entry_hash = 0
    BY <1>a, <2>1, Numbers DEF Entry
  <2>3. o \in {"ok", "error", "unencodable"}
    BY <1>b
  <2>4. chainEntryLocked(e, o)
    BY <1>3 DEF writeCheckpointLocked
  <2> HIDE DEF e
  <2>5. /\ store' \in Seq(Entry) /\ lastHash' \in Nat
        /\ Table(digests') /\ Linked' /\ Increasing' /\ HeadIsTail'
    BY <2>2, <2>3, <2>4, ChainStep
  <2>6. TypeOK'
    <3>1. faults' \in 0..MaxFaults
      BY <1>3, <1>c, <2>4 DEF writeCheckpointLocked, chainEntryLocked
    <3>2. /\ sinceCheckpoint' \in Nat /\ due' \in 0..1 /\ missed' \in Nat
          /\ details' = details
      BY <1>3, <1>a DEF writeCheckpointLocked
    <3> QED BY <1>0, <2>5, <3>1, <3>2 DEF ChainInv, TypeOK, Table
  <2> QED BY <1>0, <1>3, <2>5, <2>6 DEF ChainInv, writeCheckpointLocked
<1>4. CASE NewChainedSinkResuming
  <2>1. UNCHANGED <<store, digests>> /\ details' = [e \in Events |-> NoDetails]
    BY <1>4 DEF NewChainedSinkResuming
  <2>2. lastHash' = lastHash
    BY <1>4 DEF NewChainedSinkResuming, ChainInv, HeadIsTail
  <2>3. TypeOK'
    <3>1. sinceCheckpoint' \in Nat /\ due' \in 0..1 /\ missed' \in Nat /\ faults' \in 0..MaxFaults
      BY <1>4, <1>a DEF NewChainedSinkResuming
    <3> QED BY <1>a, <2>1, <2>2, <3>1 DEF ChainInv, TypeOK, NoDetails
  <2> QED BY <2>1, <2>2, <2>3 DEF ChainInv, Table, Linked, Increasing, HeadIsTail
<1> QED BY <1>1, <1>2, <1>3, <1>4 DEF Next, WriteCheckpoint, CadenceCheckpoint

(* Whatever fails and however often the process is replaced, the state keeps
   its shape: every stored entry carries a time and both hashes. *)
THEOREM TypeCorrect == ASSUME Contract PROVE Spec => []TypeOK
<1>1. ChainInv => TypeOK
  BY DEF ChainInv
<1> QED BY <1>1, InvInit, InvStep, PTL DEF Spec

(* Through failed writes, checkpoints and restarts the log verifies
   (chainEntryLocked, NewChainedSinkResuming and VerifyChain agree). *)
THEOREM ChainSafe == ASSUME Contract PROVE Spec => []ChainVerifies
<1> QED BY InvInit, InvStep, InvVerifies, PTL DEF Spec

--------------------------------------------------------------------------------
(* An entry whose hash is not that of its contents, or that does not follow its
   predecessor, is noticed. *)
LEMMA Noticed ==
    ASSUME NEW s, NEW d, NEW n \in Nat, DOMAIN s = 1..n, NEW i \in 1..n,
           \/ s[i].prev_hash # (IF i = 1 THEN 0 ELSE s[i - 1].entry_hash)
           \/ s[i].entry_hash # sha256([s[i] EXCEPT !.entry_hash = 0], d)
    PROVE  VerifyChain(s, d) # 0
<1>1. i \in broken(s, d)
  BY DEF broken
<1>2. DOMAIN s \subseteq Nat \ {0}
  OBVIOUS
<1> QED BY <1>1, <1>2, VerifyMeans

(* Another entry has another hash. *)
LEMMA HashDiffers ==
    ASSUME NEW d, Table(d), NEW h \in DOMAIN d, NEW c, c # d[h]
    PROVE  sha256(c, d) # h
<1>1. CASE \E g \in DOMAIN d : d[g] = c
  BY <1>1 DEF sha256
<1>2. CASE ~ \E g \in DOMAIN d : d[g] = c
  BY <1>2 DEF sha256, Table
<1> QED BY <1>1, <1>2

(* The first entry that is wrong is the one VerifyChain names. *)
LEMMA FirstBroken ==
    ASSUME NEW s, NEW d, NEW n \in Nat, DOMAIN s = 1..n, NEW i \in broken(s, d),
           \A k \in 1..(i - 1) : k \notin broken(s, d)
    PROVE  VerifyChain(s, d) = i
<1>1. broken(s, d) \subseteq 1..n
  BY DEF broken
<1>2. \A j \in broken(s, d) : i <= j
  BY <1>1
<1>3. ASSUME NEW k \in broken(s, d), \A j \in broken(s, d) : k <= j PROVE k = i
  BY <1>1, <1>2, <1>3
<1> QED BY <1>2, <1>3 DEF VerifyChain

(* One edit of the log leaves the entries before it as they are and makes the
   entry it begins with wrong. *)
Disturbs(s, i) ==
    /\ \E m \in Nat : DOMAIN s = 1..m
    /\ i \in broken(s, digests)
    /\ \A k \in 1..(i - 1) : s[k] = store[k]

LEMMA EditsDisturb ==
    ASSUME ChainInv
    PROVE  /\ \A i \in DOMAIN store : \A c \in Edits(i) : Disturbs(Rewritten(i, c), i)
           /\ \A i \in DOMAIN store : i < Len(store) => Disturbs(Without(i), i)
           /\ \A i, j \in DOMAIN store : i < j => Disturbs(Swapped(i, j), i)
<1> DEFINE n == Len(store)
<1>1. /\ n \in Nat /\ DOMAIN store = 1..n /\ Table(digests)
      /\ DOMAIN digests \subseteq Nat \ {0}
      /\ \A i \in 1..n : store[i] \in Entry
  BY DEF ChainInv, TypeOK
<1> HIDE DEF n
<1>2. \A i \in 1..n : store[i].entry_hash \in DOMAIN digests
  BY <1>1, Zenon DEF ChainInv, Linked
<1>3. \A i \in 1..n : digests[store[i].entry_hash] = [store[i] EXCEPT !.entry_hash = 0]
  BY <1>1, Zenon DEF ChainInv, Linked
<1>4. \A i \in 1..n : store[i].prev_hash = IF i = 1 THEN 0 ELSE store[i - 1].entry_hash
  BY <1>1, Zenon DEF ChainInv, Linked
<1>5. \A i, j \in 1..n : i < j => store[i].entry_hash < store[j].entry_hash
  BY <1>1, Zenon DEF ChainInv, Increasing
<1>6. \A i \in 1..n : store[i].entry_hash \in Nat \ {0}
  BY <1>1, <1>2
<1>7. ASSUME NEW i \in 1..n, NEW c \in Edits(i) PROVE Disturbs(Rewritten(i, c), i)
  <2>1. c # [store[i] EXCEPT !.entry_hash = 0] /\ c.entry_hash = 0
        /\ c = [event |-> c.event, entry_time |-> c.entry_time, prev_hash |-> c.prev_hash,
                entry_hash |-> 0, sig |-> c.sig]
    BY DEF Edits
  <2>2. sha256(c, digests) # store[i].entry_hash
    <3>1. store[i].entry_hash \in DOMAIN digests
      BY <1>2
    <3>2. c # digests[store[i].entry_hash]
      BY <1>3, <2>1, Zenon
    <3> QED BY <1>1, <3>1, <3>2, HashDiffers
  <2>3. /\ DOMAIN Rewritten(i, c) = 1..n
        /\ Rewritten(i, c)[i] = [c EXCEPT !.entry_hash = store[i].entry_hash]
        /\ \A k \in 1..(i - 1) : Rewritten(i, c)[k] = store[k]
    BY <1>1 DEF Rewritten
  <2>4. /\ Rewritten(i, c)[i].entry_hash = store[i].entry_hash
        /\ [Rewritten(i, c)[i] EXCEPT !.entry_hash = 0] = c
    BY <2>1, <2>3
  <2> HIDE DEF Rewritten
  <2>5. i \in broken(Rewritten(i, c), digests)
    BY <2>2, <2>3, <2>4 DEF broken
  <2> QED BY <1>1, <2>3, <2>5 DEF Disturbs
<1>8. ASSUME NEW i \in 1..n, i < n PROVE Disturbs(Without(i), i)
  <2>1. /\ i \in 1..(n - 1) /\ n - 1 \in Nat /\ i + 1 \in 1..n /\ i + 1 # 1
        /\ i + 1 - 1 = i
    BY <1>1, <1>8
  <2>2. /\ DOMAIN Without(i) = 1..(n - 1) /\ Without(i)[i] = store[i + 1]
        /\ \A k \in 1..(i - 1) : Without(i)[k] = store[k]
        /\ i # 1 => Without(i)[i - 1] = store[i - 1] /\ i - 1 \in 1..n
    BY <1>1, <2>1 DEF Without, n
  <2>3. store[i + 1].prev_hash = store[i].entry_hash
    BY <1>4, <2>1
  <2>4. store[i].entry_hash # (IF i = 1 THEN 0 ELSE store[i - 1].entry_hash)
    <3>1. CASE i = 1
      BY <1>6, <3>1
    <3>2. CASE i # 1
      <4>1. i - 1 \in 1..n /\ i - 1 < i
        BY <1>1, <3>2
      <4>2. store[i - 1].entry_hash < store[i].entry_hash
        BY <1>5, <4>1
      <4> QED BY <1>6, <3>2, <4>1, <4>2
    <3> QED BY <3>1, <3>2
  <2> HIDE DEF Without
  <2>5. i \in broken(Without(i), digests)
    BY <2>1, <2>2, <2>3, <2>4 DEF broken
  <2> QED BY <2>1, <2>2, <2>5 DEF Disturbs
<1>9. ASSUME NEW i \in 1..n, NEW j \in 1..n, i < j PROVE Disturbs(Swapped(i, j), i)
  <2>1. /\ DOMAIN Swapped(i, j) = 1..n /\ Swapped(i, j)[i] = store[j]
        /\ \A k \in 1..(i - 1) : Swapped(i, j)[k] = store[k]
        /\ i # 1 => Swapped(i, j)[i - 1] = store[i - 1]
    BY <1>1, <1>9 DEF Swapped
  <2>2. /\ j - 1 \in 1..n /\ j # 1 /\ i <= j - 1
        /\ i # 1 => i - 1 \in 1..n /\ i - 1 < j - 1
    BY <1>1, <1>9
  <2>3. store[j].prev_hash = store[j - 1].entry_hash
    BY <1>4, <2>2
  <2>4. store[j - 1].entry_hash # (IF i = 1 THEN 0 ELSE store[i - 1].entry_hash)
    <3>1. CASE i = 1
      BY <1>6, <2>2, <3>1
    <3>2. CASE i # 1
      <4>1. store[i - 1].entry_hash < store[j - 1].entry_hash
        BY <1>5, <2>2, <3>2
      <4> QED BY <1>6, <2>2, <3>2, <4>1
    <3> QED BY <3>1, <3>2
  <2> HIDE DEF Swapped
  <2>5. i \in broken(Swapped(i, j), digests)
    BY <2>1, <2>3, <2>4 DEF broken
  <2> QED BY <1>1, <2>1, <2>5 DEF Disturbs
<1> QED BY <1>1, <1>7, <1>8, <1>9 DEF n

LEMMA DisturbedIsFound ==
    ASSUME ChainInv, NEW i \in DOMAIN store, NEW s, Disturbs(s, i)
    PROVE  VerifyChain(s, digests) = i
<1>1. PICK m \in Nat : DOMAIN s = 1..m
  BY DEF Disturbs
<1>2. i \in 1..m /\ i \in 1..Len(store) /\ DOMAIN store = 1..Len(store) /\ Len(store) \in Nat
  BY <1>1 DEF Disturbs, broken, ChainInv, TypeOK
<1>3. ASSUME NEW k \in 1..(i - 1) PROVE k \notin broken(s, digests)
  <2>1. k \in DOMAIN store /\ (k # 1 => k - 1 \in 1..(i - 1))
    BY <1>2
  <2>2. s[k] = store[k] /\ (k # 1 => s[k - 1] = store[k - 1])
    BY <2>1 DEF Disturbs
  <2>3. /\ store[k].prev_hash = IF k = 1 THEN 0 ELSE store[k - 1].entry_hash
        /\ store[k].entry_hash \in DOMAIN digests
        /\ digests[store[k].entry_hash] = [store[k] EXCEPT !.entry_hash = 0]
    BY <2>1 DEF ChainInv, Linked
  <2>4. sha256([store[k] EXCEPT !.entry_hash = 0], digests) = store[k].entry_hash
    BY <2>3, HashUnique DEF ChainInv
  <2> QED BY <2>2, <2>3, <2>4 DEF broken
<1> QED BY <1>1, <1>3, FirstBroken DEF Disturbs

LEMMA InvEvident == ASSUME ChainInv PROVE TamperEvident
<1> DEFINE n == Len(store)
<1>1. /\ n \in Nat /\ DOMAIN store = 1..n /\ Table(digests)
      /\ \A i \in 1..n : store[i] \in Entry
  BY DEF ChainInv, TypeOK
<1> HIDE DEF n
<1>2. ASSUME NEW i \in 1..n, NEW c \in Edits(i)
      PROVE  VerifyChain(Rewritten(i, c), digests) # 0
  <2>1. VerifyChain(Rewritten(i, c), digests) = i
    BY <1>1, EditsDisturb, DisturbedIsFound
  <2> QED BY <1>1, <2>1
<1>3. ASSUME NEW i \in 1..n, NEW c \in Edits(i), i < n
      PROVE  VerifyChain(Rehashed(i, c), Hashed(c, digests)) # 0
  <2>1. c # [store[i] EXCEPT !.entry_hash = 0]
        /\ c = [event |-> c.event, entry_time |-> c.entry_time, prev_hash |-> c.prev_hash,
                entry_hash |-> 0, sig |-> c.sig]
    BY DEF Edits
  <2>2. sha256(c, digests) # store[i].entry_hash
    <3>1. store[i].entry_hash \in DOMAIN digests
      BY <1>1, Zenon DEF ChainInv, Linked
    <3>2. c # digests[store[i].entry_hash]
      BY <1>1, <2>1, Zenon DEF ChainInv, Linked
    <3> QED BY <1>1, <3>1, <3>2, HashDiffers
  <2>3. i + 1 \in 1..n /\ i + 1 # 1 /\ i + 1 - 1 = i
    BY <1>1, <1>3
  <2>4. /\ DOMAIN Rehashed(i, c) = 1..n
        /\ Rehashed(i, c)[i].entry_hash = sha256(c, digests)
        /\ Rehashed(i, c)[i + 1] = store[i + 1]
    BY <1>1, <2>1, <2>3 DEF Rehashed
  <2>5. store[i + 1].prev_hash = store[i].entry_hash
    <3>1. \A k \in 1..n : store[k].prev_hash = IF k = 1 THEN 0 ELSE store[k - 1].entry_hash
      BY <1>1, Zenon DEF ChainInv, Linked
    <3> QED BY <2>3, <3>1
  <2>6. Rehashed(i, c)[i + 1].prev_hash
          # (IF i + 1 = 1 THEN 0 ELSE Rehashed(i, c)[i + 1 - 1].entry_hash)
    BY <2>2, <2>3, <2>4, <2>5
  <2> DEFINE s == Rehashed(i, c)
             d == Hashed(c, digests)
             k == i + 1
  <2>7. /\ k \in 1..n /\ DOMAIN s = 1..n
        /\ s[k].prev_hash # (IF k = 1 THEN 0 ELSE s[k - 1].entry_hash)
    BY <2>3, <2>4, <2>6
  <2> HIDE DEF s, d, k
  <2>8. VerifyChain(s, d) # 0
    BY <1>1, <2>7, Noticed
  <2> QED BY <2>8 DEF s, d
<1>4. ASSUME NEW i \in 1..n, i < n PROVE VerifyChain(Without(i), digests) # 0
  <2>1. VerifyChain(Without(i), digests) = i
    BY <1>1, <1>4, EditsDisturb, DisturbedIsFound DEF n
  <2> QED BY <1>1, <2>1
<1>5. ASSUME NEW i \in 1..n, NEW j \in 1..n, i < j
      PROVE  /\ VerifyChain(Swapped(i, j), digests) # 0
             /\ VerifyChain(Swapped(j, i), digests) # 0
  <2>1. Swapped(j, i) = Swapped(i, j)
    BY <1>1, <1>5 DEF Swapped
  <2>2. VerifyChain(Swapped(i, j), digests) = i
    BY <1>1, <1>5, EditsDisturb, DisturbedIsFound
  <2> QED BY <1>1, <2>1, <2>2
<1>6. ASSUME NEW i \in 1..n, NEW j \in 1..n, i # j
      PROVE  VerifyChain(Swapped(i, j), digests) # 0
  <2>1. i < j \/ j < i
    BY <1>1, <1>6
  <2> QED BY <1>5, <2>1
<1> QED BY <1>1, <1>2, <1>3, <1>4, <1>6 DEF TamperEvident, n

(* No entry of a log the sink wrote can be edited, dropped from the middle or
   moved without VerifyChain reporting it. *)
THEOREM TamperSafe == ASSUME Contract PROVE Spec => []TamperEvident
<1> QED BY InvInit, InvStep, InvEvident, PTL DEF Spec

(* The checkpoints of equal prefixes are the same. *)
LEMMA SamePrefix ==
    ASSUME NEW s, NEW u, NEW m, \A k \in 1..m : s[k] = u[k]
    PROVE  LastCheckpoint(s, m) = LastCheckpoint(u, m)
<1>1. Checkpoints(s, m) = Checkpoints(u, m)
  BY DEF Checkpoints
<1> QED BY <1>1 DEF LastCheckpoint

LEMMA InvAnchor == ASSUME ChainInv PROVE LastGoodAnchor
<1>1. Len(store) \in Nat /\ DOMAIN store = 1..Len(store)
  BY DEF ChainInv, TypeOK
<1>2. ASSUME NEW i \in DOMAIN store, NEW s \in EditedAt(i) PROVE Disturbs(s, i)
  <2>1. CASE s \in {Rewritten(i, c) : c \in Edits(i)}
    BY <2>1, EditsDisturb
  <2>2. CASE i < Len(store) /\ s = Without(i)
    BY <2>2, EditsDisturb
  <2>3. CASE s \in {Swapped(i, j) : j \in (i + 1)..Len(store)}
    <3>1. PICK j \in (i + 1)..Len(store) : s = Swapped(i, j)
      BY <2>3
    <3>2. j \in DOMAIN store /\ i < j
      BY <1>1
    <3> QED BY <3>1, <3>2, EditsDisturb
  <2> QED BY <2>1, <2>2, <2>3 DEF EditedAt
<1>3. ASSUME NEW i \in DOMAIN store, NEW s \in EditedAt(i)
      PROVE  VerifyChainWithCheckpoints(s, digests) =
                [BrokenIndex |-> i, LastCheckpointIndex |-> LastCheckpoint(store, i - 1),
                 TailAnchored |-> FALSE]
  <2>1. Disturbs(s, i) /\ VerifyChain(s, digests) = i
    BY <1>2, DisturbedIsFound
  <2>2. i # 0
    BY <1>1
  <2>3. LastCheckpoint(s, i - 1) = LastCheckpoint(store, i - 1)
    BY <2>1, SamePrefix DEF Disturbs
  <2> QED BY <2>1, <2>2, <2>3 DEF VerifyChainWithCheckpoints
<1> QED BY <1>3 DEF LastGoodAnchor

(* Of an edited log the place of the edit and the last checkpoint before it are
   reported (VerifyChainWithCheckpoints). *)
THEOREM AnchorSafe == ASSUME Contract PROVE Spec => []LastGoodAnchor
<1> QED BY InvInit, InvStep, InvAnchor, PTL DEF Spec

--------------------------------------------------------------------------------
(* The data events at the end of the log. *)
Unanchored == {i \in DOMAIN store : \A j \in i..Len(store) : store[j].event # checkpoint}

(* What is not excused is in the count, and the count is below the cadence unless
   its checkpoint is due. *)
CadenceInv ==
    /\ ChainInv
    /\ IsFiniteSet(Unanchored)
    /\ CheckpointEvery > 0 =>
          /\ Cardinality(Unanchored) <= sinceCheckpoint + missed
          /\ Cardinality(Unanchored) < CheckpointEvery + due + missed

(* A stored data event makes the tail one longer, a checkpoint empties it. *)
LEMMA UnanchoredStep ==
    ASSUME ChainInv, IsFiniteSet(Unanchored), NEW x, store' = Append(store, x)
    PROVE  /\ x.event = checkpoint => Unanchored' = {}
           /\ x.event # checkpoint => /\ IsFiniteSet(Unanchored')
                                      /\ Cardinality(Unanchored') = Cardinality(Unanchored) + 1
<1> DEFINE n == Len(store)
<1>1. n \in Nat /\ DOMAIN store = 1..n /\ store \in Seq(Entry)
  BY DEF ChainInv, TypeOK
<1>2. /\ Len(store') = n + 1 /\ DOMAIN store' = 1..(n + 1)
      /\ store'[n + 1] = x /\ \A i \in 1..n : store'[i] = store[i]
  BY <1>1
<1> HIDE DEF n
<1>3. CASE x.event = checkpoint
  <2>1. ASSUME NEW i \in DOMAIN store' PROVE i \notin Unanchored'
    <3>1. n + 1 \in i..Len(store')
      BY <1>1, <1>2
    <3> QED BY <1>2, <1>3, <3>1 DEF Unanchored
  <2> QED BY <1>3, <2>1 DEF Unanchored
<1>4. CASE x.event # checkpoint
  <2>1. ASSUME NEW i \in 1..n PROVE i \in Unanchored' <=> i \in Unanchored
    <3>1. i..Len(store') = (i..n) \cup {n + 1}
      BY <1>1, <1>2
    <3>2. \A j \in i..n : store'[j] = store[j]
      BY <1>1, <1>2
    <3>3. (\A j \in i..Len(store') : store'[j].event # checkpoint)
            <=> (\A j \in i..n : store[j].event # checkpoint)
      BY <1>2, <1>4, <3>1, <3>2
    <3>4. i \in DOMAIN store /\ i \in DOMAIN store'
      BY <1>1, <1>2
    <3> QED BY <3>3, <3>4 DEF Unanchored, n
  <2>2. n + 1 \in Unanchored'
    <3>1. (n + 1)..Len(store') = {n + 1}
      BY <1>1, <1>2
    <3> QED BY <1>1, <1>2, <1>4, <3>1 DEF Unanchored
  <2>3. Unanchored \subseteq 1..n /\ Unanchored' \subseteq 1..(n + 1)
    BY <1>1, <1>2 DEF Unanchored
  <2>4. n + 1 \notin Unanchored
    BY <1>1, <2>3
  <2>5. ASSUME NEW i PROVE i \in Unanchored' <=> i \in Unanchored \cup {n + 1}
    <3>1. CASE i \in 1..n
      BY <1>1, <2>1, <3>1
    <3>2. CASE i = n + 1
      BY <2>2, <3>2
    <3>3. CASE i \notin 1..(n + 1)
      <4>1. i \notin 1..n /\ i # n + 1
        BY <1>1, <3>3
      <4> QED BY <2>3, <3>3, <4>1
    <3> QED BY <1>1, <3>1, <3>2, <3>3
  <2>6. Unanchored' = Unanchored \cup {n + 1}
    BY <2>5, Zenon
  <2> QED BY <1>4, <2>4, <2>6, FS_AddElement
<1> QED BY <1>3, <1>4

LEMMA CadenceStep == ASSUME Contract, CadenceInv, [Next]_vars PROVE CadenceInv'
<1>1. ChainInv'
  BY InvStep DEF CadenceInv
<1>2. /\ sinceCheckpoint \in Nat /\ due \in 0..1 /\ missed \in Nat /\ CheckpointEvery \in Nat
      /\ ChainInv /\ IsFiniteSet(Unanchored) /\ Cardinality(Unanchored) \in Nat
  BY NumbersAre, FS_CardinalityType DEF CadenceInv, ChainInv, TypeOK
<1>3. \A o \in Outcomes : o \in {"ok", "error", "unencodable"}
  BY OutcomesKnown DEF Contract
<1>4. store' = store => Unanchored' = Unanchored
  BY DEF Unanchored
<1>5. CASE UNCHANGED vars
  BY <1>1, <1>4, <1>5 DEF vars, CadenceInv
<1>6. ASSUME NEW event \in Events, NEW t \in Times, NEW o \in Outcomes, Write(event, t, o)
      PROVE  CadenceInv'
  <2> DEFINE e == Stamped(event, details[event], t, 0)
             x == [e EXCEPT !.entry_hash = sha256(e, digests)]
  <2>1. x.event = event /\ event # checkpoint
    BY Kinds DEF Stamped
  <2>2. CASE o = "ok"
    <3>1. store' = Append(store, x)
      BY <1>6, <2>2 DEF Write, chainEntryLocked
    <3> HIDE DEF x
    <3>2. IsFiniteSet(Unanchored') /\ Cardinality(Unanchored') = Cardinality(Unanchored) + 1
      BY <1>2, <2>1, <3>1, UnanchoredStep
    <3>3. /\ missed' = missed /\ due = 0
          /\ CheckpointEvery > 0 => /\ sinceCheckpoint' = sinceCheckpoint + 1
                                    /\ due' = count
      BY <1>6, <2>2 DEF Write
    <3> QED BY <1>1, <1>2, <3>2, <3>3 DEF CadenceInv, count
  <2>3. CASE o # "ok"
    <3>1. store' = store
      BY <1>3, <1>6, <2>3 DEF Write, chainEntryLocked
    <3>2. UNCHANGED <<sinceCheckpoint, due, missed>>
      BY <1>6, <2>3 DEF Write
    <3> QED BY <1>1, <1>4, <3>1, <3>2 DEF CadenceInv
  <2> QED BY <2>2, <2>3
<1>7. ASSUME NEW t \in Times, NEW sig \in Signatures, NEW o \in Outcomes \ {"unencodable"},
             writeCheckpointLocked(t, sig, o)
      PROVE  CadenceInv'
  <2> DEFINE e == Stamped(checkpoint, NoDetails, t, sig)
             x == [e EXCEPT !.entry_hash = sha256(e, digests)]
  <2>1. x.event = checkpoint
    BY DEF Stamped
  <2>2. CASE o = "ok"
    <3>1. store' = Append(store, x)
      BY <1>7, <2>2 DEF writeCheckpointLocked, chainEntryLocked
    <3> HIDE DEF x
    <3>2. Unanchored' = {} /\ IsFiniteSet(Unanchored') /\ Cardinality(Unanchored') = 0
      BY <1>2, <2>1, <3>1, UnanchoredStep, FS_EmptySet
    <3>3. sinceCheckpoint' = 0 /\ missed' = 0 /\ due' = 0
      BY <1>7, <2>2 DEF writeCheckpointLocked
    <3> QED BY <1>1, <1>2, <3>2, <3>3 DEF CadenceInv
  <2>3. CASE o # "ok"
    <3>1. store' = store
      BY <1>3, <1>7, <2>3 DEF writeCheckpointLocked, chainEntryLocked
    <3>2. sinceCheckpoint' = sinceCheckpoint /\ missed' = missed + due /\ due' = 0
      BY <1>7, <2>3 DEF writeCheckpointLocked
    <3> QED BY <1>1, <1>2, <1>4, <3>1, <3>2 DEF CadenceInv
  <2> QED BY <2>2, <2>3
<1>8. CASE NewChainedSinkResuming
  <2>1. store' = store /\ sinceCheckpoint' = 0 /\ due' = 0 /\ missed' = missed + sinceCheckpoint
    BY <1>8 DEF NewChainedSinkResuming
  <2> QED BY <1>1, <1>2, <1>4, <2>1 DEF CadenceInv
<1> QED BY <1>5, <1>6, <1>7, <1>8 DEF Next, WriteCheckpoint, CadenceCheckpoint

(* The part of the log that no checkpoint covers stays within the cadence, but for
   failed checkpoints and restarts (chainEntryLocked, writeCheckpointLocked). *)
THEOREM CadenceSafe == ASSUME Contract PROVE Spec => []CadenceKept
<1>1. Init => CadenceInv
  <2> SUFFICES ASSUME Init PROVE CadenceInv
    OBVIOUS
  <2>1. Unanchored = {} /\ sinceCheckpoint = 0 /\ missed = 0 /\ due = 0
    BY DEF Init, Unanchored
  <2> QED BY <2>1, InvInit, NumbersAre, FS_EmptySet DEF CadenceInv
<1>2. CadenceInv => CadenceKept
  BY NumbersAre DEF CadenceInv, CadenceKept, DataSinceCheckpoint, Unanchored, ChainInv, TypeOK
<1> QED BY <1>1, <1>2, CadenceStep, PTL DEF Spec
================================================================================
