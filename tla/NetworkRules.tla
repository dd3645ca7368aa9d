------------------------------ MODULE NetworkRules ------------------------------
(***************************************************************************)
(* The rules that follow a request: DNS record, Ingress, Service and its     *)
(* endpoints, and the routes of Kong and Traefik.                           *)
(***************************************************************************)
EXTENDS Findings

(* serviceReadyAddressCount: the EndpointSlices of the Service if there are any,
   or else its Endpoints object; svc.slices and svc.endpoints are ready addresses
   and Never stands for "no such object". *)
readyAddressCount(svc) == svc.endpoints
serviceReadyAddressCount(svc, down) ==
    IF "endpointslices" \notin down /\ svc.slices # Never THEN svc.slices
    ELSE IF "endpoints" \notin down /\ svc.endpoints # Never THEN readyAddressCount(svc)
    ELSE 0

(* DNSChainDrift.  The Ingresses that count are not opted out and are not an
   ACME solver; the first of them that claims a host gives its backend, the
   Service of its first path ("" when it has none). *)
claims(ingresses, host) == SelectSeq(ingresses, LAMBDA ing : ~ing.skipped /\ ing.host = host)
resolveIngressBackend(ingresses, host) == Head(claims(ingresses, host)).service

(* Two Ingresses claim the same path of a host; a rule without paths claims
   Prefix "/". *)
claimedPaths(ing) == IF ing.paths = {} THEN {"/"} ELSE ing.paths
duplicateHost(ingresses, host) ==
    LET cs == claims(ingresses, host)
    IN  \E i, j \in DOMAIN cs : i < j /\ claimedPaths(cs[i]) \cap claimedPaths(cs[j]) # {}

(* findIngressControllerLBIP: "" when no controller Service has an address, and
   when Services cannot be listed. *)
isIngressControllerService(svc) == svc.controller
extractLBIP(svc) == svc.ip
findIngressControllerLBIP(services, down) ==
    LET found == SelectSeq(services, LAMBDA s : isIngressControllerService(s) /\ extractLBIP(s) # "")
    IN  IF "services" \in down \/ found = <<>> THEN "" ELSE extractLBIP(found[1])

(* Cloudflare.ListDNSRecords and ListZones read page after page; an error on any
   page is the error of the list, so down names the list. *)
ListZones(env, down) == IF "zones" \in down THEN {} ELSE DOMAIN env.zones
ListDNSRecords(env, zone) == env.zones[zone]

(* buildCFRecordCache: no token, or no list of zones, disables the layer; the
   records of a zone that cannot be read are absent from the cache. *)
cfDisabled(env, down) == ~env.token \/ "zones" \in down
buildCFRecordCache(env, down) ==
    UNION {ListDNSRecords(env, z) : z \in ListZones(env, down) \ down}

checkCFLayer(host, cfRecords, lbIP) ==
    LET records == {r \in cfRecords : r.host = host}
    IN  IF records = {} THEN "missing"
        ELSE IF lbIP # "" /\ \A r \in records : r.content # lbIP THEN "elsewhere"
        ELSE "ok"

(* The hops behind the DNS record.  A Service that cannot be read does not
   exist. *)
checkK8sLayers(w, host, down) ==
    LET be == resolveIngressBackend(w.objs, host)
        svc == w.env.backend
    IN  When(duplicateHost(w.objs, host), <<"duplicate-ingress-host", host>>, "warning")
        \o CASE be = "" -> <<>>
             [] be # "" /\ ("service" \in down \/ ~svc.exists) ->
                    When(TRUE, <<"ingress-orphan-service", host>>, "critical")
             [] be # "" /\ "service" \notin down /\ svc.exists /\ svc.external ->
                    When(TRUE, <<"service-external-name-mismatch", host>>, "warning")
             [] OTHER ->
                    When(serviceReadyAddressCount(svc, down) = 0,
                         <<"service-no-endpoints", host>>, "critical")

(* Hosts in sorted order.  A host that only the list of seeds names stops after
   the DNS layer: the missing-ingress diagnostic behind that test is never
   reached. *)
DNSChainDrift(w, down) ==
    LET claimed == {h \in {"a.example", "b.example"} : claims(w.objs, h) # <<>>}
        hosts == SelectSeq(<<"a.example", "b.example">>, LAMBDA h : h \in claimed \cup w.env.seeds)
        lbIP == findIngressControllerLBIP(w.env.services, down)
        records == buildCFRecordCache(w.env, down)
        layer(h) == IF cfDisabled(w.env, down) THEN "ok" ELSE checkCFLayer(h, records, lbIP)
        chain(h) == When(layer(h) = "missing", <<"missing-cloudflare-record", h>>, "critical")
                    \o When(layer(h) = "elsewhere", <<"cloudflare-points-elsewhere", h>>, "critical")
                    \o IF layer(h) = "missing" \/ h \notin claimed THEN <<>>
                       ELSE checkK8sLayers(w, h, down)
    IN  IF w.objs = <<>> THEN <<>>
        ELSE Needs({"ingresses"}, down,
                 Each(hosts, chain)
                 \o When(cfDisabled(w.env, down) /\ hosts # <<>>,
                         <<"DNSChainDrift", "external-dns-not-verified">>, "info"))
--------------------------------------------------------------------------------
(* KongRoutes.  All its findings carry the component "Kong Routes".
   isKongIngress: by class or by one of Kong's annotations. *)
isKongIngress(ing) == ing.kong

(* loadKongCRDIndex: the objects of a kind, or none of the kind can be told
   missing, because the list failed or is empty. *)
loadKongCRDIndex(objects, kind, down) == IF kind \in down THEN {} ELSE objects
(* Seeded defect: a list that failed is a list without objects. *)
missingFromAny(refs, index) == refs \ index # {}

missingRef(refs, index) == index # {} /\ refs \ index # {}

(* serviceHasReadyEndpoint: EndpointSlices decide whenever they can be listed;
   when neither kind can be read the Service passes. *)
serviceHasReadyEndpoint(svc, down) ==
    IF "endpointslices" \notin down THEN svc.slices \notin {0, Never}
    ELSE "endpoints" \notin down => svc.endpoints \notin {0, Never}

KongRoutes(w, down) ==
    LET component == <<"Kong Routes", "Kong Routes">>
        plugins == loadKongCRDIndex(w.env.plugins, "kongplugins", down)
        consumers == loadKongCRDIndex(w.env.consumers, "kongconsumers", down)
        check(ing) ==
            IF ~isKongIngress(ing) THEN <<>>
            ELSE Each(ing.backends, LAMBDA svc :
                     When(~serviceHasReadyEndpoint(svc, down), component, "warning"))
                 \o When(missingRef(ing.plugins, plugins), component, "warning")
                 \o When(missingRef(ing.consumers, consumers), component, "warning")
        findings == Each(w.objs, check)
    IN  IF "ingresses" \in down THEN Result("PROBE_FAILED", <<>>)
        ELSE Result(IF findings = <<>> THEN "OK" ELSE "WARNING", findings)

(* TraefikRoutes.  listTraefikCRDs: the routes of traefik.io, or of the older
   group when those cannot be listed; what else it lists counts as empty when it
   fails.  w.objs are the routes of the group that answers. *)
listTraefikCRDs(down) == ~({"ingressroutes", "ingressroutes (containo.us)"} \subseteq down)
buildNameSet(names, kind, down) == IF kind \in down THEN {} ELSE names

checkIngressRoute(ir, svcSet, mwSet, tlsStore) ==
    LET component == <<"IngressRoute", "ns/ir">>
    IN  When(ir.services \ svcSet # {}, component, "critical")
        \o When(ir.middlewares \ mwSet # {}, component, "warning")
        \o When(ir.tls = "no certificate" /\ ~tlsStore, component, "warning")

checkIngressRouteTCP(tcp, svcSet) ==
    When(tcp.services \ svcSet # {}, <<"IngressRouteTCP", "ns/tcp">>, "critical")

TraefikRoutes(w, down) ==
    LET svcSet == w.env.services
        mwSet == buildNameSet(w.env.middlewares, "middlewares", down)
        tlsStore == w.env.tlsStore /\ "tlsstores" \notin down
        http == SelectSeq(w.objs, LAMBDA r : ~r.tcp)
        tcp == IF "ingressroutetcps" \in down THEN <<>> ELSE SelectSeq(w.objs, LAMBDA r : r.tcp)
    IN  IF ~listTraefikCRDs(down) THEN Result("SKIPPED", <<>>)
        ELSE IF "services" \in down THEN Result("PROBE_FAILED", <<>>)
        ELSE Rollup(Each(http, LAMBDA ir : checkIngressRoute(ir, svcSet, mwSet, tlsStore))
                    \o Each(tcp, LAMBDA r : checkIngressRouteTCP(r, svcSet)))
================================================================================
