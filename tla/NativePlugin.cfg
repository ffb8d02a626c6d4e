SPECIFICATION Spec
CONSTANT MaxChildren = 2
INVARIANT TypeOK
INVARIANT NoOrphan
INVARIANT OneShot
INVARIANT FirstCauseWins
PROPERTY EverythingEnds
CHECK_DEADLOCK FALSE
