SPECIFICATION Spec
CONSTANT MaxChildren = 1
PROPERTY GraceBeforeTermination
CHECK_DEADLOCK FALSE
