CONSTANTS
    s1 = s1
    s2 = s2
    Subjects = {s1, s2}
    CloudSubjects = {}
    FixableSubjects = {s1}
    FixerReport = FixerReport
    Severities = {"critical"}
    Messages <- ShortMessages
    truncateAt <- KeepAll
    RunRemediation = TRUE
    PostOnResolved = TRUE
    NoChangeDigest = FALSE
    RepeatInterval = TRUE
    CriticalRepeat = FALSE
    ResolveOnClear = TRUE
    CommentInterval = TRUE
    MinSeverity = "critical"
    Faults = {}
    MaxFaults = 0
    MaxTickets = 1
    None = None
SPECIFICATION Spec
INVARIANTS NoOrphanTicket
