CONSTANTS
  Names = {"base", "model", "variant", "mine"}
  Values = {1, 2, 3}
  Bundled <- MCBundled
  Drafts <- MCDrafts
  MaxCommands = 3
  Absent = Absent
  Broken = Broken
  None = None
  Unset = Unset
  Delete = Delete
  Invalid = Invalid
SPECIFICATION Spec
INVARIANTS
  ImportsStandAlone
  EditOpensWhatResolves
PROPERTIES
  CopyingIsNeutral
  OwnFilesAreKept
