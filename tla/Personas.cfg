SPECIFICATION Spec
CONSTANTS
  Fields = {"position", "relationship", "disposition", "policy"}
  Paths = {"position", "relationship", "disposition", "policy"}
  Covers <- MCCovers
  Kind <- MCKind
  Required <- MCRequired
  Position = "position"
  Policy = "policy"
  Values = {0, 1}
  NoPosition = 0
  Events = {e1, e2}
  MaxChanges = 2
  MaxUpdates = 2
  MaxEdits = 1
  MaxCrashes = 1
  None = None
SYMMETRY MCSymmetry
INVARIANTS
  StructureIsTheUsers
  OneRecordForAPath
  HistoryIsComplete
CHECK_DEADLOCK FALSE
