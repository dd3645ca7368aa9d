CONSTANTS
    s1 = s1
    s2 = s2
    Subjects = {s1, s2}
    CloudSubjects = {s2}
    FixableSubjects = {s1}
    FixerReport = FixerReport
    Severities = {"warning"}
    Messages <- ShortMessages
    truncateAt <- KeepAll
    RunRemediation = TRUE
    PostOnResolved = TRUE
    NoChangeDigest = FALSE
    RepeatInterval = TRUE
    CriticalRepeat = FALSE
    ResolveOnClear = TRUE
    CommentInterval = TRUE
    MinSeverity = "critical"
    Faults = {"slack", "create", "specPatch"}
    MaxFaults = 1
    MaxTickets = 1
    None = None
SPECIFICATION FairSpec
PROPERTIES PersistentFindingIsTold PersistentFindingIsRecorded
