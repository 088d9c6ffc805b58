CONSTANTS
  Numbers = {0, 1, 65535}
  Revisions <- MCRevisions
  Chars <- MCChars
  Separator = 44
  MaxLength = 2
  MaxArguments = 3
SPECIFICATION Spec
INVARIANTS
  StatusesAgree
  VersionsOrdered
  ComparisonIgnoresCase
  SplitUndoesJoin
CHECK_DEADLOCK FALSE
