CONSTANTS
    pods = pods
    alert = alert
    hook = hook
    Kinds = {pods}
    Alerts = {alert}
    Hooks = {hook}
    MaxObjects = 1
    MaxEvents = 1
    MaxLate = 1
SPECIFICATION FairSpec
INVARIANTS TypeOK NoLostWakeup BlindOnlyWhenEmpty
PROPERTIES EveryChangeIsDiagnosed QuietChangeIsDiagnosed
