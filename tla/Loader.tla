--------------------------------- MODULE Loader ---------------------------------
(***************************************************************************)
(* The boot loader, efi_main (bootloader/main.c), from its first call of   *)
(* the firmware to the kernel's entry point: a sequence of calls, some     *)
(* whose status is tested and some whose status is not, while the firmware *)
(* may change the memory map at any time through events of its own.        *)
(*                                                                         *)
(* pc names the next step.  Four values end the loader: "failed" is        *)
(* fail_load's endless loop, "no rsdp" that loop after the message of      *)
(* line 161, "undefined" an access through a pointer that was never set or *)
(* is null (not followed any further), "kernel" the jump to mmk_entry.     *)
(***************************************************************************)
EXTENDS Integers, Sequences, FiniteSets

CONSTANTS
  SEGMENTS,      \* the program headers of type PT_LOAD
  DESCRIPTORS,   \* the descriptors of the memory map at first
  EVENTS,        \* bound: the changes of the map the firmware makes by itself
  ConfigTables,  \* the configuration tables the firmware may have
  BeyondTable,   \* what may lie in memory after the configuration table
  Comparisons    \* the meanings that CompareGuid's nonzero result may have

(* The entries of a configuration table: ACPI 2.0's, which points to an    *)
(* RSDP of revision 2; ACPI 1.0's, which points to one of revision 0 that  *)
(* starts with the same eight bytes; any other.                            *)
EntryKinds == {"acpi2", "acpi1", "other"}

ASSUME LoaderAssumption ==
  /\ SEGMENTS \in Nat /\ DESCRIPTORS \in Nat /\ EVENTS \in Nat
  /\ ConfigTables \subseteq Seq(EntryKinds)
  /\ BeyondTable \subseteq EntryKinds
  /\ Comparisons \subseteq {"equal", "different"}

VARIABLES
  config_table,     \* the firmware's; it never changes, nor do the next two:
  beyond,           \* the kind of the entries after it in memory
  compare_guid,     \* when CompareGuid is not zero: GUIDs "equal" or "different"
  pc,
  header,           \* kernel_header: "unread", "valid" or "invalid"
  segment,          \* the program header the loop is at
  image,            \* of each segment: "absent", "partial" or "loaded"
  owned,            \* what the firmware has allocated to the loader
  descriptors,      \* the descriptors of the firmware's memory map
  changes,          \* how often that map has changed: the firmware's map key
  events,           \* how many of these changes the loader did not ask for
  memory_map,       \* what the loader's copy calls loader data
  memory_map_size,  \* the capacity of the loader's buffer, in descriptors
  memory_map_key,
  quiet,            \* history: no event since the last GetMemoryMap
  rsdp,             \* NULL, or the kind of the entry it comes from
  services          \* boot services are "active" or "exited"

firmware  == <<config_table, beyond, compare_guid>>
imageVars == <<header, segment, image>>
poolVars  == <<owned, descriptors, changes>>
mapVars   == <<memory_map, memory_map_size, memory_map_key, events, quiet>>
vars == <<config_table, beyond, compare_guid, pc, header, segment, image, owned,
          descriptors, changes, events, memory_map, memory_map_size,
          memory_map_key, quiet, rsdp, services>>

NULL     == "null"
Segments == 1 .. SEGMENTS
Ended    == {"failed", "no rsdp", "undefined", "kernel"}
Steps == {"open kernel", "get info", "read header", "check header",
          "open resources", "open fonts", "load font", "load glyphs", "make font",
          "read program headers",
          "load segments", "size map", "allocate map", "read map", "find rsdp",
          "exit"}

-----------------------------------------------------------------------------
(* A successful AllocatePool or AllocatePages: the firmware splits at most *)
(* one descriptor in three.                                                *)
Allocate(thing) ==
  /\ owned' = owned \cup {thing}
  /\ changes' = changes + 1
  /\ descriptors' \in descriptors .. descriptors + 2

(* A call of load_file and the test for NULL after it.  On the boot volume *)
(* get_volume may return NULL, which load_file does not test.              *)
OpenFile(here, next, on_volume) ==
  /\ pc = here
  /\ pc' \in {next, "failed"} \cup (IF on_volume THEN {"undefined"} ELSE {})
  /\ UNCHANGED <<firmware, imageVars, poolVars, mapVars, rsdp, services>>

OpenKernel    == OpenFile("open kernel", "get info", TRUE)
OpenResources == OpenFile("open resources", "open fonts", TRUE)
OpenFonts     == OpenFile("open fonts", "load font", FALSE)

(* GetInfo with a size never set and no buffer, AllocatePool, then GetInfo *)
(* into the pointer itself instead of what it points to.                   *)
GetInfo ==
  /\ pc = "get info"
  /\ \/ pc' = "read header" /\ UNCHANGED poolVars
     \/ pc' = "read header" /\ Allocate(<<"file info">>)
     \/ pc' = "undefined" /\ UNCHANGED poolVars
  /\ UNCHANGED <<firmware, imageVars, mapVars, rsdp, services>>

ReadHeader ==
  /\ pc = "read header"
  /\ \/ pc' = "failed" /\ UNCHANGED header
     \/ pc' = "check header" /\ header' \in {"valid", "invalid"}
  /\ UNCHANGED <<firmware, segment, image, poolVars, mapVars, rsdp, services>>

CheckHeader ==
  /\ pc = "check header"
  /\ pc' = IF header = "valid" THEN "open resources" ELSE "failed"
  /\ UNCHANGED <<firmware, imageVars, poolVars, mapVars, rsdp, services>>

(* Mutant: main.c:72 does not test for NULL. *)
LoadFontUnchecked ==
  /\ pc = "load font"
  /\ \/ pc' = "read program headers" /\ UNCHANGED poolVars
     \/ pc' \in {"load glyphs", "read program headers"} /\ Allocate(<<"font header">>)
     \/ pc' = "undefined" /\ UNCHANGED poolVars
  /\ UNCHANGED <<firmware, imageVars, mapVars, rsdp, services>>

(* load_font_from_file: a missing file or a wrong magic number makes it    *)
(* return NULL; the statuses of its three AllocatePool are not tested.     *)
LoadFont ==
  /\ pc = "load font"
  /\ \/ pc' = "failed" /\ UNCHANGED poolVars
     \/ pc' \in {"load glyphs", "failed"} /\ Allocate(<<"font header">>)
     \/ pc' = "undefined" /\ UNCHANGED poolVars
  /\ UNCHANGED <<firmware, imageVars, mapVars, rsdp, services>>

(* The second and the third of them. *)
AllocateUnchecked(here, next, thing) ==
  /\ pc = here
  /\ \/ pc' = next /\ Allocate(thing)
     \/ pc' = "undefined" /\ UNCHANGED poolVars
  /\ UNCHANGED <<firmware, imageVars, mapVars, rsdp, services>>

LoadGlyphs == AllocateUnchecked("load glyphs", "make font", <<"glyphs">>)
MakeFont   == AllocateUnchecked("make font", "read program headers", <<"font">>)

(* No status is tested: without the buffer, or with less than all of the   *)
(* headers in it, the loop runs over memory that was never written.        *)
ReadProgramHeaders ==
  /\ pc = "read program headers"
  /\ \/ /\ pc' = "load segments"
        /\ segment' = 1
        /\ Allocate(<<"program headers">>)
     \/ pc' = "undefined" /\ UNCHANGED <<segment, poolVars>>
  /\ UNCHANGED <<firmware, header, image, mapVars, rsdp, services>>

(* Mutant: the loop does not advance after a refused allocation. *)
StickyLoadSegment ==
  /\ pc = "load segments" /\ segment <= SEGMENTS
  /\ \/ Allocate(<<"segment", segment>>) /\ segment' = segment + 1
     \/ UNCHANGED <<poolVars, segment>>
  /\ \E read \in {"loaded", "partial"} : image' = [image EXCEPT ![segment] = read]
  /\ UNCHANGED <<firmware, pc, header, mapVars, rsdp, services>>

(* Mutant: the loop goes one program header too far. *)
LoadSegmentBeyond ==
  /\ pc = "load segments" /\ segment <= SEGMENTS + 1
  /\ segment' = segment + 1
  /\ Allocate(<<"segment", segment>>) \/ UNCHANGED poolVars
  /\ \E read \in {"loaded", "partial"} : image' = [image EXCEPT ![segment] = read]
  /\ UNCHANGED <<firmware, pc, header, mapVars, rsdp, services>>

(* AllocatePages at the segment's address, then Read to that address,      *)
(* whatever the first and SetPosition returned: the image is whole only if *)
(* the Read is, and the memory the loader's only if the firmware agreed.   *)
LoadSegment ==
  /\ pc = "load segments" /\ segment <= SEGMENTS
  /\ segment' = segment + 1
  /\ Allocate(<<"segment", segment>>) \/ UNCHANGED poolVars
  /\ \E read \in {"loaded", "partial"} : image' = [image EXCEPT ![segment] = read]
  /\ UNCHANGED <<firmware, pc, header, mapVars, rsdp, services>>

(* "Kernel loaded successfully!", and init_gop, which leaves no trace: if  *)
(* it fails, the framebuffer the kernel gets was never filled in.          *)
FinishImage ==
  /\ pc = "load segments" /\ segment > SEGMENTS
  /\ pc' = "size map"
  /\ UNCHANGED <<firmware, imageVars, poolVars, mapVars, rsdp, services>>

-----------------------------------------------------------------------------
(* Mutant: no room is added. *)
SizeMapExactly ==
  /\ pc = "size map"
  /\ \/ pc' = "failed" /\ UNCHANGED <<memory_map_size, memory_map_key, quiet>>
     \/ /\ pc' = "allocate map"
        /\ memory_map_size' = descriptors
        /\ memory_map_key' = changes
        /\ quiet' = TRUE
  /\ UNCHANGED <<firmware, imageVars, poolVars, memory_map, events, rsdp, services>>

(* The first GetMemoryMap, with no buffer: it asks for one, and the loader *)
(* adds room for two descriptors more.                                     *)
SizeMap ==
  /\ pc = "size map"
  /\ \/ pc' = "failed" /\ UNCHANGED <<memory_map_size, memory_map_key, quiet>>
     \/ /\ pc' = "allocate map"
        /\ memory_map_size' = descriptors + 2
        /\ memory_map_key' = changes
        /\ quiet' = TRUE
  /\ UNCHANGED <<firmware, imageVars, poolVars, memory_map, events, rsdp, services>>

AllocateMap ==
  /\ pc = "allocate map"
  /\ \/ pc' = "failed" /\ UNCHANGED poolVars
     \/ pc' = "read map" /\ Allocate(<<"memory map">>)
  /\ UNCHANGED <<firmware, imageVars, mapVars, rsdp, services>>

(* The second GetMemoryMap fails if its buffer is too small; of its other  *)
(* errors none can occur in this call.                                     *)
MapFits == descriptors <= memory_map_size

(* Mutant: the key is the one the first call returned. *)
ReadMapKeepingKey ==
  /\ pc = "read map"
  /\ IF MapFits
       THEN /\ pc' = "find rsdp"
            /\ memory_map' = owned
            /\ memory_map_size' = descriptors
            /\ quiet' = TRUE
       ELSE pc' = "failed" /\ UNCHANGED <<memory_map, memory_map_size, quiet>>
  /\ UNCHANGED <<firmware, imageVars, poolVars, memory_map_key, events, rsdp, services>>

(* Mutant: the map is the one of the first call, before its own buffer. *)
ReadOldMap ==
  /\ pc = "read map"
  /\ IF MapFits
       THEN /\ pc' = "find rsdp"
            /\ memory_map' = owned \ {<<"memory map">>}
            /\ memory_map_size' = descriptors
            /\ memory_map_key' = changes
            /\ quiet' = TRUE
       ELSE pc' = "failed" /\ UNCHANGED <<memory_map, memory_map_size, memory_map_key, quiet>>
  /\ UNCHANGED <<firmware, imageVars, poolVars, events, rsdp, services>>

ReadMap ==
  /\ pc = "read map"
  /\ IF MapFits
       THEN /\ pc' = "find rsdp"
            /\ memory_map' = owned
            /\ memory_map_size' = descriptors
            /\ memory_map_key' = changes
            /\ quiet' = TRUE
       ELSE pc' = "failed" /\ UNCHANGED <<memory_map, memory_map_size, memory_map_key, quiet>>
  /\ UNCHANGED <<firmware, imageVars, poolVars, events, rsdp, services>>

(* The loop over the configuration table advances config_table AND indexes *)
(* it: in iteration i it tests the GUID of entry 2 * i, counted from 0,    *)
(* but the signature of entry i, and takes the RSDP of entry i.            *)
(* CompareGuid is the UEFI library's, which the code takes to be nonzero   *)
(* for equal GUIDs, while libraries differ in this: both are modelled.     *)
EntryAt(n) == IF n < Len(config_table) THEN config_table[n + 1] ELSE beyond
CompareGuid(kind) == (kind = "acpi2") <=> (compare_guid = "equal")
Matches == {i \in 0 .. Len(config_table) - 1 :
              CompareGuid(EntryAt(2 * i)) /\ EntryAt(i) \in {"acpi1", "acpi2"}}

FindRsdp ==
  /\ pc = "find rsdp"
  /\ IF Matches = {}
       THEN pc' = "no rsdp" /\ UNCHANGED rsdp
       ELSE /\ pc' = "exit"
            /\ rsdp' \in {EntryAt(i) : i \in {k \in Matches : \A j \in Matches : j <= k}}
  /\ UNCHANGED <<firmware, imageVars, poolVars, mapVars, services>>

(* ExitBootServices refuses a key that is not the map's current one; the   *)
(* loader enters the kernel whatever it answers.                           *)
Exit ==
  /\ pc = "exit"
  /\ pc' = "kernel"
  /\ services' = IF memory_map_key = changes THEN "exited" ELSE "active"
  /\ UNCHANGED <<firmware, imageVars, poolVars, mapVars, rsdp>>

(* While boot services are active the firmware's own timers and drivers,   *)
(* the console behind Print among them, may allocate memory.  What they    *)
(* free could only make the map shorter, and is left out.                  *)
FirmwareEvent ==
  /\ pc \notin Ended /\ events < EVENTS
  /\ events' = events + 1
  /\ changes' = changes + 1
  /\ descriptors' \in {descriptors, descriptors + 1}
  /\ quiet' = FALSE
  /\ UNCHANGED <<firmware, pc, imageVars, owned, memory_map, memory_map_size,
                 memory_map_key, rsdp, services>>

Init ==
  /\ config_table \in ConfigTables /\ beyond \in BeyondTable
  /\ compare_guid \in Comparisons
  /\ pc = "open kernel"
  /\ header = "unread" /\ segment = 1 /\ image = [s \in Segments |-> "absent"]
  /\ owned = {} /\ descriptors = DESCRIPTORS /\ changes = 0
  /\ memory_map = {} /\ memory_map_size = 0 /\ memory_map_key = 0
  /\ events = 0 /\ quiet = TRUE
  /\ rsdp = NULL /\ services = "active"

Step ==
  \/ OpenKernel \/ GetInfo \/ ReadHeader \/ CheckHeader
  \/ OpenResources \/ OpenFonts \/ LoadFont \/ LoadGlyphs \/ MakeFont
  \/ ReadProgramHeaders \/ LoadSegment \/ FinishImage
  \/ SizeMap \/ AllocateMap \/ ReadMap \/ FindRsdp \/ Exit

Next == Step \/ FirmwareEvent

(* The processor goes on executing the loader. *)
Spec == Init /\ [][Next]_vars /\ WF_vars(Step)

-----------------------------------------------------------------------------
Things == {<<"segment", s>> : s \in Segments}
            \cup {<<"file info">>, <<"font header">>, <<"glyphs">>, <<"font">>,
                  <<"program headers">>, <<"memory map">>}

TypeOK ==
  /\ config_table \in ConfigTables /\ beyond \in BeyondTable
  /\ compare_guid \in Comparisons
  /\ pc \in Steps \cup Ended
  /\ header \in {"unread", "valid", "invalid"}
  /\ segment \in 1 .. SEGMENTS + 1
  /\ image \in [Segments -> {"absent", "partial", "loaded"}]
  /\ owned \subseteq Things /\ memory_map \subseteq Things
  /\ events \in 0 .. EVENTS
  /\ changes \in 0 .. EVENTS + Cardinality(Things)
  /\ descriptors \in DESCRIPTORS .. DESCRIPTORS + events + 2 * (changes - events)
  /\ memory_map_size \in Nat /\ memory_map_key \in 0 .. changes
  /\ quiet \in BOOLEAN
  /\ rsdp \in EntryKinds \cup {NULL} /\ services \in {"active", "exited"}

(* The kernel runs only after every check of efi_main: a verified header,  *)
(* all segments visited, a font whose three parts are the loader's, a      *)
(* buffer for the map, an RSDP signature found, whatever came between the  *)
(* steps.                                                                  *)
EnteredChecked ==
  pc = "kernel" =>
    /\ header = "valid"
    /\ \A s \in Segments : image[s] # "absent"
    /\ {<<"font header">>, <<"glyphs">>, <<"font">>, <<"memory map">>} \subseteq owned
    /\ rsdp \in {"acpi1", "acpi2"}

(* Everything the firmware allocated to the loader, the buffer of the map  *)
(* itself included, is loader data in the map the kernel gets, so that the *)
(* page-frame allocator reserves it: the loader allocates nothing after it *)
(* has read the map.                                                       *)
MapCoversLoader == pc = "kernel" => memory_map = owned

(* The two descriptors added to the size suffice for what AllocatePool     *)
(* does to the map: the second GetMemoryMap finds its buffer too small     *)
(* only if the firmware itself changed the map since the first.            *)
SlackSuffices == pc = "read map" /\ quiet => MapFits

(* The loader itself does not spoil its map key: if boot services are      *)
(* still active in the kernel, the firmware changed the map after the key  *)
(* was read.  (main.c:166 says "Exiting boot services..." either way.)     *)
KeyStaleByEventOnly == pc = "kernel" /\ quiet => services = "exited"

(* The loader comes to an end, one way or another. *)
LoaderEnds == <>(pc \in Ended)

(* main.c:161 "An RSDP version 2 was not found!": said only when the       *)
(* firmware's configuration table has none.                                *)
RsdpNotFound ==
  pc = "no rsdp" => \A i \in DOMAIN config_table : config_table[i] # "acpi2"

(* main.c:104 "Kernel loaded successfully!": from there on every segment   *)
(* of the kernel is in memory, and the memory is the loader's.             *)
KernelLoaded ==
  pc \in {"size map", "allocate map", "read map", "find rsdp", "exit", "kernel"} =>
    \A s \in Segments : image[s] = "loaded" /\ <<"segment", s>> \in owned
=============================================================================
