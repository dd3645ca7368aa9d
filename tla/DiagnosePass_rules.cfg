CONSTANT Spaces <- AllSpaces
CONSTANT MaxFailed = 1
SPECIFICATION Spec
PROPERTY FailedReadRaisesNothing
PROPERTY TimeOnlyEscalates
PROPERTY StatusIsHonest
