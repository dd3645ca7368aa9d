CONSTANT Urls = {"a"}
CONSTANT Setups <- MCSetups
CONSTANT MinConsecutiveFailures = 2
CONSTANT Diagnostics <- MCDiagnostics
CONSTANT Silences <- MCSilences
CONSTANT Matcher <- MCMatcher
CONSTANT MaxFaults = 1
SPECIFICATION FairSpec
PROPERTY SilencedIsQuiet
PROPERTY BlipIsNotCritical
PROPERTY SustainedOutageIsCritical
PROPERTY ExpiredSilenceIsMarked
