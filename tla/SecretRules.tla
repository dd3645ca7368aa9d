------------------------------- MODULE SecretRules -------------------------------
(***************************************************************************)
(* The analyzers about Secrets, the ExternalSecrets and Vault paths they    *)
(* come from, and certificates.                                             *)
(***************************************************************************)
EXTENDS Findings

(* FailingExternalSecrets: an ExternalSecret without a Ready condition is not
   reported; the Events only choose the words. *)
readReadyCondition(eso) == eso.ready
FailingExternalSecrets(w, down) ==
    Needs({"externalsecrets"}, down, Each(w.objs, LAMBDA eso :
        When(readReadyCondition(eso) \notin {"True", ""}, <<"ExternalSecret", "ns/eso">>, "")))

(* Workloads refer to the one Secret of w.env by an env entry's secretKeyRef
   ("key"), by an envFrom or by a volume.  A kind that cannot be listed is
   skipped. *)
listed(w, down, kinds) ==
    SelectSeq(w.objs, LAMBDA wl : wl.kind \in kinds /\ wl.kind \notin down)

MissingSecret == <<"missing-secret", "ns/secret">>
MissingKey == <<"missing-key", "ns/secret/key">>

(* ProactiveSecretKeyCheck needs the Secrets and looks neither at CronJobs nor
   at volumes; one diagnostic per Secret and per key. *)
ProactiveSecretKeyCheck(w, down) ==
    LET required(refs) == Some(listed(w, down, {"Deployment", "StatefulSet"}),
                               LAMBDA wl : wl.ref \in refs /\ ~wl.optional)
    IN  Needs({"secrets"}, down,
            When(~w.env.exists /\ required({"key", "envFrom"}), MissingSecret, "")
            \o When(w.env.exists /\ ~w.env.hasKey /\ required({"key"}), MissingKey, ""))

(* UnprovisionedSecret treats Secrets, or ExternalSecrets, that it cannot list
   as absent. *)
UnprovisionedSecret(w, down) ==
    LET existing == w.env.exists /\ "secrets" \notin down
        provisioned == w.env.eso /\ "externalsecrets" \notin down
        referenced == Some(listed(w, down, {"Deployment", "StatefulSet", "CronJob"}),
                           LAMBDA wl : wl.ref = "volume" \/ (wl.ref = "envFrom" /\ ~wl.optional))
    IN  When(referenced /\ ~existing /\ ~provisioned, <<"unprovisioned", "ns/secret">>, "")

--------------------------------------------------------------------------------
(* TLSSecretMismatch: days left of the certificate in the Secret that a TLS
   entry of an Ingress names, and the namespace's Certificates. *)
ExpiryWindow == 14

secretCertExpiry(entry, down) == IF "secret" \in down THEN Never ELSE entry.left

certificateIsReady(cert) == cert.ready = "True"
findMismatchedManagedCert(entry, certs) ==
    \E i \in DOMAIN certs : /\ certs[i].secret # entry.secret
                            /\ certificateIsReady(certs[i])
                            /\ entry.host \in certs[i].dnsNames

TLSSecretMismatch(w, down) ==
    Needs({"ingresses"}, down, Each(w.objs, LAMBDA entry :
        When(/\ secretCertExpiry(entry, down) < ExpiryWindow
             /\ "certificates" \notin down
             /\ findMismatchedManagedCert(entry, w.env.certs),
             <<"tls-secret-mismatch", "ns/ing/0">>, "")))

(* certNotReadyDetail: without a message of a failed CertificateRequest it lists
   the namespace's Certificates once more and ranges over the result whether or
   not that list succeeded; the result of a failed list is nil. *)
failedCertRequest(cert, down) == cert.requestFailed /\ "certificaterequests" \notin down
certNotReadyDetailPanics(cert, down) ==
    ~failedCertRequest(cert, down) /\ "certificates of the namespace" \in down

(* CertExpiry: a Certificate that is not Ready is reported at once, the others
   by the days left. *)
defaultWarnWindow == 14
certReadyCondition(cert) == cert.ready
CertExpiry(w, down) ==
    LET notReady(cert) == certReadyCondition(cert) = "False"
        findings == Each(w.objs, LAMBDA cert :
            IF notReady(cert) \/ cert.left < 0
            THEN When(TRUE, <<"Certificate", "ns/cert">>, "critical")
            ELSE When(cert.left < defaultWarnWindow, <<"Certificate", "ns/cert">>, "warning"))
    IN  IF "certificates" \in down THEN Analyzer(<<>>)
        ELSE IF Some(w.objs, LAMBDA cert : notReady(cert) /\ certNotReadyDetailPanics(cert, down))
             THEN Result("PANIC", <<>>)
        ELSE Analyzer(findings)

--------------------------------------------------------------------------------
(* VaultPathMissing.  An ExternalSecret names Vault paths, and optionally one
   property of each, through a store of either kind; w.env.vault says of every
   path whether it exists ("absent") and has the property ("nokey"). *)
hasVaultProvider(eso) == eso.vault

(* loadVaultBackedStores: the stores of one kind are unknown when that kind
   cannot be listed; if no store is known at all every ExternalSecret counts as
   Vault-backed, with a hint when a list failed. *)
hasAnyStore(w, down) == Some(w.objs, LAMBDA eso : eso.kind \notin down)
rbacHint(w, down) ==
    When(~hasAnyStore(w, down) /\ down \cap {"ClusterSecretStore", "SecretStore"} # {},
         <<"vault-store-rbac-missing", "">>, "")

isVaultBackedESO(eso, w, down) ==
    hasAnyStore(w, down) => (eso.kind \notin down /\ hasVaultProvider(eso))

(* collectVaultRefs: path -> whether a property of it is required. *)
collectVaultRefs(w, down) ==
    LET backed == SelectSeq(w.objs, LAMBDA eso : isVaultBackedESO(eso, w, down))
    IN  [p \in UNION {backed[i].paths : i \in DOMAIN backed} |->
            Some(backed, LAMBDA eso : p \in eso.paths /\ eso.property)]

(* renderTransportErrors: many paths with the same error are one outage. *)
vaultOutageThreshold == 3
renderTransportErrors(paths) ==
    IF Len(paths) >= vaultOutageThreshold
    THEN When(TRUE, <<"vault-outage", "error">>, "")
    ELSE Each(paths, LAMBDA p : When(TRUE, <<"vault-error", p>>, ""))

(* The paths are visited in sorted order; a path p that cannot be queried is in
   down. *)
VaultPathMissing(w, down) ==
    LET required == collectVaultRefs(w, down)
        paths == SelectSeq(<<"a", "b", "c">>, LAMBDA p : p \in DOMAIN required)
        checked(p) == When(w.env.vault[p] = "absent", <<"missing-vault-path", p>>, "")
                      \o When(w.env.vault[p] = "nokey" /\ required[p],
                              <<"vault-missing-key", p>>, "")
    IN  Needs({"externalsecrets"}, down,
            rbacHint(w, down)
            \o Each(SelectSeq(paths, LAMBDA p : p \notin down), checked)
            \o renderTransportErrors(SelectSeq(paths, LAMBDA p : p \in down)))
================================================================================
