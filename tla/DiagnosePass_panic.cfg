CONSTANT Spaces <- CertSpaces
CONSTANT MaxFailed = 1
SPECIFICATION Spec
INVARIANT PassReturns
