CONSTANTS
    s1 = s1
    s2 = s2
    Subjects = {s1}
    CloudSubjects = {}
    FixableSubjects = {}
    FixerReport = FixerReport
    Severities = {"warning", "critical"}
    Messages <- ShortMessages
    truncateAt <- KeepAll
    RunRemediation = FALSE
    PostOnResolved = TRUE
    NoChangeDigest = FALSE
    RepeatInterval = TRUE
    CriticalRepeat = FALSE
    ResolveOnClear = TRUE
    CommentInterval = TRUE
    MinSeverity = "critical"
    Faults = {}
    MaxFaults = 0
    MaxTickets = 1
    None = None
SPECIFICATION FairSpec
PROPERTIES ClosedOnlyWhenGone
