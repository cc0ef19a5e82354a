CONSTANTS
  SEGMENTS = 2
  DESCRIPTORS = 3
  EVENTS = 2
  TABLE_ENTRIES = {0, 2}
  ConfigTables <- MCConfigTables
  BeyondTable = {"acpi2", "other"}
  Comparisons = {"equal", "different"}
SPECIFICATION Spec
INVARIANT KernelLoaded
CHECK_DEADLOCK FALSE
