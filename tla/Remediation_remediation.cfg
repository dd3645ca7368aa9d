SPECIFICATION FairSpec
CONSTANTS
    r1 = r1
    r2 = r2
    None = None
    Replicas <- TwoReplicas
    Fixers <- AllFixers
    MaxOutages = 1
    MaxExits = 1
    MaxChanges = 1
INVARIANTS
    OneLeader
    WritesWhatItMay
PROPERTIES
    SickIsRepaired
