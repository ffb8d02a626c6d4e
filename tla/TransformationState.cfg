CONSTANTS
  Blocks = {"one", "two", "three", "four"}
  NoBlock = NoBlock
  Scalars = {"x", "y", "m", "r", "n", "f"}
  Segments <- MCSegments
  Keys = {"mine", "theirs"}
  OwnedKeys = {"mine"}
  NoValue = NoValue
  MaxBlocks = 3
  Documents <- MCDocuments
  Proposals <- MCProposals
  MaxRevision = 1
SPECIFICATION Spec
INVARIANTS
  TypeOK
  EditsAreSimultaneous
  ProtectionsFollow
  ChangesTellTheStory
  PlainPatchesCommit
PROPERTY PatchIsAtomic
CHECK_DEADLOCK FALSE
