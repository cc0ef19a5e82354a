-------------------------------- MODULE MCLoader --------------------------------
EXTENDS Loader

CONSTANT TABLE_ENTRIES   \* the configuration tables' number of entries

MCConfigTables == UNION {[1 .. n -> EntryKinds] : n \in TABLE_ENTRIES}
=============================================================================
