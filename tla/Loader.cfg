CONSTANTS
  SEGMENTS = 2
  DESCRIPTORS = 3
  EVENTS = 2
  TABLE_ENTRIES = {0, 2}
  ConfigTables <- MCConfigTables
  BeyondTable = {"acpi2", "other"}
  Comparisons = {"equal", "different"}
SPECIFICATION Spec
INVARIANTS
  TypeOK
  EnteredChecked
  MapCoversLoader
  SlackSuffices
  KeyStaleByEventOnly
PROPERTY LoaderEnds
\* The loader stops in fail_load or in the kernel.
CHECK_DEADLOCK FALSE
