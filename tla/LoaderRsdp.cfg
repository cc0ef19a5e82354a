CONSTANTS
  SEGMENTS = 2
  DESCRIPTORS = 3
  EVENTS = 2
  TABLE_ENTRIES = {0, 3}
  ConfigTables <- MCConfigTables
  BeyondTable = {"other"}
  Comparisons = {"equal"}
SPECIFICATION Spec
INVARIANT RsdpNotFound
CHECK_DEADLOCK FALSE
