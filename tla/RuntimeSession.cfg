SPECIFICATION Spec
CONSTANT Scripts <- UpToThree
CONSTANT Commands <- CliCommands
INVARIANT AnswersFollowTheStream
PROPERTY EveryRequestAnswered
CHECK_DEADLOCK FALSE
