CONSTANTS
    c1 = c1
    key = key
    audit = audit
    Home = Home
    Cluster = Cluster
    Shared = Shared
    CRs = {c1}
    Namespaces = {Home, audit}
    Secrets = {key}
    Specs <- MemorySpecs
    Lagging = {"ragService"}
    Deletable = {"rag"}
    MaxUID = 2
    MaxEdits = 3
    MaxFaults = 1
SPECIFICATION FairSpec
PROPERTIES Converges DeletionCompletes
CHECK_DEADLOCK FALSE
