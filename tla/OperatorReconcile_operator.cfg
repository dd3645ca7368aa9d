CONSTANTS
    c1 = c1
    key = key
    audit = audit
    Home = Home
    Cluster = Cluster
    Shared = Shared
    CRs = {c1}
    Namespaces = {Home, audit}
    Secrets = {key}
    Specs <- ApprovalSpecs
    Lagging = {"signingKey"}
    Deletable = {"approvalService"}
    MaxUID = 1
    MaxEdits = 3
    MaxFaults = 1
SPECIFICATION Spec
INVARIANTS TypeOK NothingOutlives
PROPERTIES KeyKept ReadyMeansBuilt
CHECK_DEADLOCK FALSE
