------------------------------ MODULE CloudProbes ------------------------------
(***************************************************************************)
(* What the probes of the three cloud providers share.  A probe whose client  *)
(* is nil, or whose cluster name is not set, is skipped; a list that fails     *)
(* fails the probe; otherwise it judges the objects one by one and rolls the   *)
(* findings up.  A client operation that pages through its API keeps nothing   *)
(* when any page fails.                                                      *)
(***************************************************************************)
EXTENDS Findings

(* The result of a client operation: an error, or the items it decoded. *)
Answer(failed, items) == [failed |-> failed, items |-> items]
Decoded(list, decode(_)) == [i \in DOMAIN list |-> decode(list[i])]

skipped == Result("SKIPPED", <<>>)
probeFailed == Result("PROBE_FAILED", <<>>)

Inspect(w, answer, check(_, _)) ==
    IF ~w.env.configured THEN skipped
    ELSE IF answer.failed THEN probeFailed
    ELSE Rollup(EachNamed(answer.items, check))

(* A version is the sequence of its dotted parts, <<>> the empty string. *)
parseMinor(version) == IF Len(version) < 2 THEN Never ELSE version[2]
minorVersionSkew(v1, v2) ==
    LET m1 == parseMinor(v1)
        m2 == parseMinor(v2)
    IN  IF Never \in {m1, m2} THEN 0 ELSE IF m1 > m2 THEN m1 - m2 ELSE m2 - m1
minorVersionNewer(vA, vB) ==
    /\ Never \notin {parseMinor(vA), parseMinor(vB)}
    /\ parseMinor(vA) > parseMinor(vB)
VersionDrift(cluster, pool) ==
    /\ cluster # <<>> /\ pool # <<>>
    /\ minorVersionSkew(cluster, pool) > 1 \/ minorVersionNewer(pool, cluster)

(* Storage in use, in percent; Never stands for -1, not measured. *)
storageWarnPercent == 80
storageCritPercent == 90
StorageFinding(used, subject) ==
    IF used = Never THEN <<>>
    ELSE IF used >= storageCritPercent THEN When(TRUE, subject, "critical")
    ELSE When(used >= storageWarnPercent, subject, "warning")

(* Free addresses of a subnet, in percent. *)
subnetCritFreePercent == 10
subnetWarnFreePercent == 25
FreeAddresses(available, total, subject) ==
    LET free == (available * 100) \div total
    IN  IF free < subnetCritFreePercent THEN When(TRUE, subject, "critical")
        ELSE When(free < subnetWarnFreePercent, subject, "warning")

(* A block of 2^(32 - mask) addresses without the ones the provider reserves. *)
usableIPsFromCIDR(mask, reserved) ==
    IF 32 - mask <= 2 THEN 0 ELSE 2 ^ (32 - mask) - reserved
================================================================================
