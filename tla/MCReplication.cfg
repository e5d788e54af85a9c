\* Binlogs of four entries and one fault; three reads and two writes.
CONSTANTS
  Ids = {1, 2}
  Cols <- MCCols
  Vals = {0, 1, 2}
  Rows <- MCRows
  ConfRules <- MCRules
  None = None
  NoPos = NoPos
  Torn = Torn
  BulkSize = 2
  ChanCap = 2
  MaxLog = 4
  MaxFaults = 1
  Readers = {1, 2, 3}
  Writers = {1, 2}
  Absent = Absent
SPECIFICATION CopiesSpec
INVARIANTS
  TypesOK
  SavedIsFlushed
  IndexIsTable
PROPERTIES
  CatchesUp
  StaleEntriesExpire
CHECK_DEADLOCK FALSE
