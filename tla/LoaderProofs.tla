------------------------------ MODULE LoaderProofs ------------------------------
(***************************************************************************)
(* Proofs about the boot loader: what holds when the kernel is entered,    *)
(* for any number of segments, descriptors, events of the firmware and     *)
(* configuration tables.                                                   *)
(***************************************************************************)
EXTENDS Loader, FiniteSetTheorems, TLAPS

(* The steps before the header has been found valid, and those before the  *)
(* segments have been loaded, with the ends these steps can come to.       *)
BeforeCheck == {"open kernel", "get info", "read header", "check header"}
BeforeLoaded ==
  BeforeCheck \cup {"open resources", "open fonts", "load font",
                    "load glyphs", "make font", "read program headers",
                    "load segments"}
Stuck == {"failed", "undefined"}

(* What of the type invariant the proofs need. *)
Typed ==
  /\ segment \in Nat
  /\ image \in [Segments -> {"absent", "partial", "loaded"}]
  /\ descriptors \in Nat
  /\ memory_map_size \in Nat

(* The image: checked before anything is loaded, and every segment the     *)
(* loop has passed visited.                                                *)
ImageInv ==
  /\ pc \notin BeforeCheck \cup Stuck => header = "valid"
  /\ pc = "load segments" => \A s \in Segments : s < segment => image[s] # "absent"
  /\ pc \notin BeforeLoaded \cup Stuck => \A s \in Segments : image[s] # "absent"
  /\ pc \in {"exit", "kernel"} => rsdp \in {"acpi1", "acpi2"}

(* What the kernel needs the loader to own: the parts of the font, and the *)
(* buffer of the memory map.                                               *)
BeforeFonts == {"open kernel", "get info", "read header", "check header",
                "open resources", "open fonts", "load font"}
BeforeHeaders ==
  BeforeFonts \cup {"load glyphs", "make font", "read program headers"}
OwnedInv ==
  /\ pc \notin BeforeFonts \cup Stuck => <<"font header">> \in owned
  /\ pc \notin BeforeFonts \cup {"load glyphs"} \cup Stuck => <<"glyphs">> \in owned
  /\ pc \notin BeforeFonts \cup {"load glyphs", "make font"} \cup Stuck =>
       <<"font">> \in owned
  /\ pc \in {"read map", "find rsdp", "exit", "kernel"} => <<"memory map">> \in owned

(* The memory map: complete once read, and nothing is allocated after.     *)
MapInv == pc \in {"find rsdp", "exit", "kernel"} => memory_map = owned

(* The room for the map, as long as the firmware changes nothing itself.   *)
RoomInv ==
  quiet =>
    /\ pc = "allocate map" => memory_map_size = descriptors + 2
    /\ pc = "read map" => descriptors <= memory_map_size

(* The key of the map, likewise. *)
KeyInv ==
  quiet =>
    /\ pc \in {"find rsdp", "exit"} => memory_map_key = changes
    /\ pc = "kernel" => services = "exited"

LoaderInv == Typed /\ ImageInv /\ OwnedInv /\ MapInv /\ RoomInv /\ KeyInv

-----------------------------------------------------------------------------
LEMMA InitEstablishes == Init => LoaderInv
<1> SUFFICES ASSUME Init PROVE LoaderInv  OBVIOUS
<1>1. Typed
  BY LoaderAssumption DEF Init, Typed, Segments
<1>2. ImageInv
  BY DEF Init, ImageInv, BeforeCheck, BeforeLoaded, Stuck
<1>3. OwnedInv /\ MapInv /\ RoomInv /\ KeyInv
  BY DEF Init, OwnedInv, BeforeFonts, MapInv, RoomInv, KeyInv
<1> QED  BY <1>1, <1>2, <1>3 DEF LoaderInv

LEMMA StepPreservesTyped ==
  ASSUME Typed, [Next]_vars
  PROVE  Typed'
<1> USE DEF Typed
<1>1. ASSUME FinishImage \/ Exit \/ FindRsdp \/ OpenKernel \/ OpenResources
               \/ OpenFonts \/ ReadHeader \/ CheckHeader \/ UNCHANGED vars
      PROVE  Typed'
  BY <1>1 DEF FinishImage, Exit, FindRsdp, OpenKernel, OpenResources, OpenFonts,
              OpenFile, ReadHeader, CheckHeader, imageVars, poolVars, mapVars, vars
<1>2. ASSUME NEW thing, Allocate(thing)
      PROVE  descriptors' \in Nat
  BY <1>2 DEF Allocate
<1>3. ASSUME GetInfo \/ LoadFont \/ LoadGlyphs \/ MakeFont \/ AllocateMap \/ ReadProgramHeaders
      PROVE  Typed'
  <2>1. descriptors' \in Nat
    BY <1>2, <1>3 DEF GetInfo, LoadFont, LoadGlyphs, MakeFont, AllocateUnchecked, AllocateMap, ReadProgramHeaders, poolVars
  <2>2. segment' \in {segment, 1}
    BY <1>3, Zenon DEF GetInfo, LoadFont, LoadGlyphs, MakeFont, AllocateUnchecked, AllocateMap, ReadProgramHeaders, imageVars
  <2>3. image' = image /\ memory_map_size' = memory_map_size
    BY <1>3 DEF GetInfo, LoadFont, LoadGlyphs, MakeFont, AllocateUnchecked, AllocateMap, ReadProgramHeaders, imageVars, mapVars
  <2> QED  BY <2>1, <2>2, <2>3
<1>4. ASSUME LoadSegment
      PROVE  Typed'
  <2>1. descriptors' \in Nat
    BY <1>2, <1>4 DEF LoadSegment, poolVars
  <2>2. segment' = segment + 1
    BY <1>4, Zenon DEF LoadSegment
  <2>3. memory_map_size' = memory_map_size
    BY <1>4 DEF LoadSegment, mapVars
  <2>4. image' \in [Segments -> {"absent", "partial", "loaded"}]
    BY <1>4 DEF LoadSegment
  <2> QED  BY <2>1, <2>2, <2>3, <2>4
<1>5. ASSUME SizeMap \/ ReadMap
      PROVE  Typed'
  <2>1. memory_map_size' \in {memory_map_size, descriptors, descriptors + 2}
    BY <1>5, Zenon DEF SizeMap, ReadMap
  <2>2. segment' = segment /\ image' = image /\ descriptors' = descriptors
    BY <1>5, Zenon DEF SizeMap, ReadMap, imageVars, poolVars
  <2> QED  BY <2>1, <2>2
<1>6. ASSUME FirmwareEvent
      PROVE  Typed'
  BY <1>6 DEF FirmwareEvent, imageVars
<1> QED  BY <1>1, <1>3, <1>4, <1>5, <1>6 DEF Next, Step

(* The loop over the program headers, as arithmetic. *)
LEMMA NoneBeforeFirst == \A s \in Segments : ~(s < 1)
BY LoaderAssumption DEF Segments

LEMMA NextVisited ==
  ASSUME NEW n \in Nat, NEW s \in Segments, s < n + 1
  PROVE  s = n \/ s < n
BY LoaderAssumption DEF Segments

LEMMA AllVisited ==
  ASSUME NEW n \in Nat, n > SEGMENTS
  PROVE  \A s \in Segments : s < n
BY LoaderAssumption DEF Segments

LEMMA RoomForOne ==
  ASSUME NEW d \in Nat, NEW e \in d .. d + 2
  PROVE  e <= d + 2
OBVIOUS

LEMMA StepPreservesImage ==
  ASSUME Typed, ImageInv, [Next]_vars
  PROVE  ImageInv'
<1> USE DEF ImageInv, BeforeCheck, BeforeLoaded, Stuck
<1>1. ASSUME OpenKernel \/ OpenResources \/ OpenFonts
      PROVE  ImageInv'
  BY <1>1 DEF OpenKernel, OpenResources, OpenFonts, OpenFile, imageVars
<1>2. ASSUME GetInfo \/ LoadFont \/ LoadGlyphs \/ MakeFont
      PROVE  ImageInv'
  <2>1. \/ pc = "get info" /\ pc' \in {"read header", "undefined"}
        \/ pc = "load font" /\ pc' \in {"load glyphs", "failed", "undefined"}
        \/ pc = "load glyphs" /\ pc' \in {"make font", "undefined"}
        \/ pc = "make font" /\ pc' \in {"read program headers", "undefined"}
    BY <1>2, Zenon DEF GetInfo, LoadFont, LoadGlyphs, MakeFont, AllocateUnchecked
  <2>2. header' = header /\ segment' = segment /\ image' = image
    BY <1>2, Zenon DEF GetInfo, LoadFont, LoadGlyphs, MakeFont, AllocateUnchecked, imageVars
  <2> QED  BY <2>1, <2>2
<1>3. ASSUME ReadHeader \/ CheckHeader
      PROVE  ImageInv'
  BY <1>3 DEF ReadHeader, CheckHeader, imageVars
<1>4. ASSUME ReadProgramHeaders
      PROVE  ImageInv'
  <2>1. /\ pc = "read program headers"
        /\ (pc' = "load segments" /\ segment' = 1) \/ pc' = "undefined"
        /\ header' = header /\ image' = image
    BY <1>4, Zenon DEF ReadProgramHeaders
  <2>2. ASSUME NEW s \in Segments, s < segment', pc' = "load segments"
        PROVE  FALSE
    <3>1. segment' = 1  BY <2>1, <2>2, Zenon
    <3>2. s < 1  BY <2>2, <3>1, Zenon
    <3> QED  BY <3>2, NoneBeforeFirst, Zenon
  <2>3. header = "valid"
    BY <2>1
  <2> QED  BY <2>1, <2>2, <2>3
<1>5. ASSUME LoadSegment
      PROVE  ImageInv'
  <2>1. /\ pc = "load segments" /\ pc' = pc /\ header' = header
        /\ segment' = segment + 1
    BY <1>5 DEF LoadSegment
  <2>2. ASSUME NEW s \in Segments, s < segment'
        PROVE  image'[s] # "absent"
    <3>1. PICK read \in {"loaded", "partial"} : image' = [image EXCEPT ![segment] = read]
      BY <1>5 DEF LoadSegment
    <3>2. s = segment \/ s < segment
      <4>1. s < segment + 1  BY <2>1, <2>2, Zenon
      <4> QED  BY <4>1, NextVisited, Zenon DEF Typed
    <3> QED  BY <2>1, <3>1, <3>2 DEF Typed
  <2> QED  BY <2>1, <2>2
<1>6. ASSUME FinishImage
      PROVE  ImageInv'
  <2>1. \A s \in Segments : s < segment
    <3>1. segment > SEGMENTS  BY <1>6 DEF FinishImage
    <3> QED  BY <3>1, AllVisited, Zenon DEF Typed
  <2>2. /\ pc = "load segments" /\ pc' = "size map"
        /\ header' = header /\ image' = image
    BY <1>6 DEF FinishImage, imageVars
  <2> QED  BY <2>1, <2>2
<1>7. ASSUME SizeMap \/ AllocateMap \/ ReadMap
      PROVE  ImageInv'
  BY <1>7 DEF SizeMap, AllocateMap, ReadMap, imageVars
<1>8. ASSUME FindRsdp
      PROVE  ImageInv'
  <2>1. pc' = "exit" => rsdp' \in {"acpi1", "acpi2"}
    BY <1>8 DEF FindRsdp, Matches
  <2>2. /\ pc = "find rsdp" /\ pc' \in {"no rsdp", "exit"}
        /\ header' = header /\ image' = image
    BY <1>8 DEF FindRsdp, imageVars
  <2> QED  BY <2>1, <2>2
<1>9. ASSUME Exit \/ FirmwareEvent \/ UNCHANGED vars
      PROVE  ImageInv'
  BY <1>9 DEF Exit, FirmwareEvent, imageVars, vars
<1> QED  BY <1>1, <1>2, <1>3, <1>4, <1>5, <1>6, <1>7, <1>8, <1>9 DEF Next, Step

LEMMA StepPreservesOwned ==
  ASSUME OwnedInv, [Next]_vars
  PROVE  OwnedInv'
<1> USE DEF OwnedInv, BeforeFonts, Stuck
<1>1. ASSUME OpenKernel \/ OpenResources \/ OpenFonts \/ GetInfo \/ LoadFont
               \/ LoadGlyphs \/ MakeFont
      PROVE  OwnedInv'
  BY <1>1 DEF OpenKernel, OpenResources, OpenFonts, OpenFile, GetInfo, LoadFont,
              LoadGlyphs, MakeFont, AllocateUnchecked, Allocate, poolVars
<1>2. ASSUME ReadHeader \/ CheckHeader \/ ReadProgramHeaders \/ LoadSegment \/ FinishImage
      PROVE  OwnedInv'
  BY <1>2 DEF ReadHeader, CheckHeader, ReadProgramHeaders, LoadSegment, FinishImage,
              Allocate, poolVars
<1>3. ASSUME SizeMap \/ AllocateMap \/ ReadMap
      PROVE  OwnedInv'
  BY <1>3 DEF SizeMap, AllocateMap, ReadMap, Allocate, poolVars
<1>4. ASSUME FindRsdp \/ Exit \/ FirmwareEvent \/ UNCHANGED vars
      PROVE  OwnedInv'
  BY <1>4 DEF FindRsdp, Exit, FirmwareEvent, poolVars, vars, Ended
<1> QED  BY <1>1, <1>2, <1>3, <1>4 DEF Next, Step

LEMMA StepPreservesMap ==
  ASSUME MapInv, [Next]_vars
  PROVE  MapInv'
<1> USE DEF MapInv
<1>1. ASSUME OpenKernel \/ OpenResources \/ OpenFonts \/ GetInfo \/ LoadFont \/ LoadGlyphs \/ MakeFont
      PROVE  MapInv'
  BY <1>1 DEF OpenKernel, OpenResources, OpenFonts, OpenFile, GetInfo, LoadFont,
              LoadGlyphs, MakeFont, AllocateUnchecked
<1>2. ASSUME ReadHeader \/ CheckHeader \/ ReadProgramHeaders \/ LoadSegment \/ FinishImage
      PROVE  MapInv'
  BY <1>2 DEF ReadHeader, CheckHeader, ReadProgramHeaders, LoadSegment, FinishImage
<1>3. ASSUME SizeMap \/ AllocateMap \/ ReadMap
      PROVE  MapInv'
  BY <1>3 DEF SizeMap, AllocateMap, ReadMap, poolVars
<1>4. ASSUME FindRsdp \/ Exit \/ FirmwareEvent \/ UNCHANGED vars
      PROVE  MapInv'
  BY <1>4 DEF FindRsdp, Exit, FirmwareEvent, poolVars, mapVars, vars, Ended
<1> QED  BY <1>1, <1>2, <1>3, <1>4 DEF Next, Step

LEMMA StepPreservesRoom ==
  ASSUME Typed, RoomInv, [Next]_vars
  PROVE  RoomInv'
<1> USE DEF RoomInv
<1>1. ASSUME OpenKernel \/ OpenResources \/ OpenFonts \/ GetInfo \/ LoadFont \/ LoadGlyphs \/ MakeFont
      PROVE  RoomInv'
  BY <1>1 DEF OpenKernel, OpenResources, OpenFonts, OpenFile, GetInfo, LoadFont,
              LoadGlyphs, MakeFont, AllocateUnchecked
<1>2. ASSUME ReadHeader \/ CheckHeader \/ ReadProgramHeaders \/ LoadSegment \/ FinishImage
      PROVE  RoomInv'
  BY <1>2 DEF ReadHeader, CheckHeader, ReadProgramHeaders, LoadSegment, FinishImage
<1>3. ASSUME SizeMap
      PROVE  RoomInv'
  BY <1>3 DEF SizeMap, poolVars
<1>4. ASSUME AllocateMap
      PROVE  RoomInv'
  <2>1. CASE pc' = "failed"
    BY <2>1
  <2>2. CASE pc' = "read map"
    <3>1. pc = "allocate map" /\ descriptors' \in descriptors .. descriptors + 2
      BY <1>4, <2>2, Zenon DEF AllocateMap, Allocate
    <3>2. memory_map_size' = memory_map_size
      BY <1>4, Zenon DEF AllocateMap, mapVars
    <3>3. quiet' => quiet
      BY <1>4, Zenon DEF AllocateMap, mapVars
    <3>4. quiet' => memory_map_size = descriptors + 2
      BY <3>1, <3>3, Zenon
    <3>5. quiet' => descriptors' <= memory_map_size'
      BY <3>1, <3>2, <3>4, RoomForOne, Zenon DEF Typed
    <3> QED  BY <2>2, <3>5
  <2> QED  BY <1>4, <2>1, <2>2 DEF AllocateMap
<1>5. ASSUME ReadMap \/ FindRsdp \/ Exit \/ FirmwareEvent \/ UNCHANGED vars
      PROVE  RoomInv'
  BY <1>5 DEF ReadMap, FindRsdp, Exit, FirmwareEvent, poolVars, mapVars, vars
<1> QED  BY <1>1, <1>2, <1>3, <1>4, <1>5 DEF Next, Step

LEMMA StepPreservesKey ==
  ASSUME KeyInv, [Next]_vars
  PROVE  KeyInv'
<1> USE DEF KeyInv
<1>1. ASSUME OpenKernel \/ OpenResources \/ OpenFonts \/ GetInfo \/ LoadFont \/ LoadGlyphs \/ MakeFont
      PROVE  KeyInv'
  BY <1>1 DEF OpenKernel, OpenResources, OpenFonts, OpenFile, GetInfo, LoadFont,
              LoadGlyphs, MakeFont, AllocateUnchecked
<1>2. ASSUME ReadHeader \/ CheckHeader \/ ReadProgramHeaders \/ LoadSegment \/ FinishImage
      PROVE  KeyInv'
  BY <1>2 DEF ReadHeader, CheckHeader, ReadProgramHeaders, LoadSegment, FinishImage
<1>3. ASSUME SizeMap \/ AllocateMap \/ ReadMap
      PROVE  KeyInv'
  BY <1>3 DEF SizeMap, AllocateMap, ReadMap, poolVars
<1>4. ASSUME FindRsdp \/ Exit \/ FirmwareEvent \/ UNCHANGED vars
      PROVE  KeyInv'
  BY <1>4 DEF FindRsdp, Exit, FirmwareEvent, poolVars, mapVars, vars, Ended
<1> QED  BY <1>1, <1>2, <1>3, <1>4 DEF Next, Step

(* The invariant the properties follow from. *)
THEOREM LoaderInvariant == Spec => []LoaderInv
<1>1. LoaderInv /\ [Next]_vars => LoaderInv'
  BY StepPreservesTyped, StepPreservesImage, StepPreservesOwned, StepPreservesMap,
     StepPreservesRoom, StepPreservesKey
     DEF LoaderInv
<1> QED  BY <1>1, InitEstablishes, PTL DEF Spec

-----------------------------------------------------------------------------
(* efi_main enters the kernel only with a verified header, every segment   *)
(* visited, the three parts of the font and the buffer of the map its own, *)
(* and an RSDP signature found, in any order of events.                    *)
THEOREM KernelEnteredChecked == Spec => []EnteredChecked
<1>1. LoaderInv => EnteredChecked
  BY DEF LoaderInv, ImageInv, OwnedInv, EnteredChecked, BeforeCheck, BeforeLoaded,
         BeforeFonts, Stuck
<1> QED  BY <1>1, LoaderInvariant, PTL

(* The map the kernel is given knows of everything the loader allocated.   *)
THEOREM MapComplete == Spec => []MapCoversLoader
<1>1. LoaderInv => MapCoversLoader
  BY DEF LoaderInv, MapInv, MapCoversLoader
<1> QED  BY <1>1, LoaderInvariant, PTL

(* Two descriptors more are room enough for the loader's own allocation.   *)
THEOREM RoomSuffices == Spec => []SlackSuffices
<1>1. LoaderInv => SlackSuffices
  BY DEF LoaderInv, RoomInv, SlackSuffices, MapFits
<1> QED  BY <1>1, LoaderInvariant, PTL

(* The loader alone never makes ExitBootServices refuse its key.           *)
THEOREM KeyFresh == Spec => []KeyStaleByEventOnly
<1>1. LoaderInv => KeyStaleByEventOnly
  BY DEF LoaderInv, KeyInv, KeyStaleByEventOnly
<1> QED  BY <1>1, LoaderInvariant, PTL

-----------------------------------------------------------------------------
(* The types.  The loader allocates each thing once, so that the changes   *)
(* of the memory map and its length are bounded: each change is an event   *)
(* of the firmware's or one of the things the loader owns.                 *)

(* What the loader may still allocate. *)
BeforeMap == BeforeHeaders \cup {"load segments", "size map", "allocate map"}
SegmentThings(S) == {<<"segment", s>> : s \in S}
StillToCome ==
  (IF pc \in {"open kernel", "get info"} THEN {<<"file info">>} ELSE {})
    \cup (IF pc \in BeforeFonts THEN {<<"font header">>} ELSE {})
    \cup (IF pc \in BeforeFonts \cup {"load glyphs"} THEN {<<"glyphs">>} ELSE {})
    \cup (IF pc \in BeforeFonts \cup {"load glyphs", "make font"} THEN {<<"font">>}
                                                                 ELSE {})
    \cup (IF pc \in BeforeHeaders THEN {<<"program headers">>} ELSE {})
    \cup (IF pc \in BeforeHeaders THEN SegmentThings(Segments) ELSE {})
    \cup (IF pc = "load segments" THEN SegmentThings(segment .. SEGMENTS) ELSE {})
    \cup (IF pc \in BeforeMap THEN {<<"memory map">>} ELSE {})

Counted ==
  /\ owned \subseteq Things /\ owned \cap StillToCome = {}
  /\ events \in 0 .. EVENTS
  /\ changes = events + Cardinality(owned)
  /\ descriptors \in DESCRIPTORS .. DESCRIPTORS + events + 2 * Cardinality(owned)
  /\ memory_map_key \in 0 .. changes

Ranges ==
  /\ config_table \in ConfigTables /\ beyond \in BeyondTable
  /\ compare_guid \in Comparisons
  /\ pc \in Steps \cup Ended
  /\ header \in {"unread", "valid", "invalid"}
  /\ segment \in 1 .. SEGMENTS + 1
  /\ memory_map \subseteq Things
  /\ quiet \in BOOLEAN
  /\ rsdp \in EntryKinds \cup {NULL} /\ services \in {"active", "exited"}

Singles == {<<"file info">>, <<"font header">>, <<"glyphs">>, <<"font">>,
            <<"program headers">>, <<"memory map">>}

LEMMA ThingsDiffer ==
  /\ \A S : SegmentThings(S) \cap Singles = {}
  /\ <<"file info">> \notin Singles \ {<<"file info">>}
  /\ <<"font header">> \notin {<<"glyphs">>, <<"font">>, <<"program headers">>, <<"memory map">>}
  /\ <<"glyphs">> \notin {<<"font">>, <<"program headers">>, <<"memory map">>}
  /\ <<"font">> \notin {<<"program headers">>, <<"memory map">>}
  /\ <<"program headers">> # <<"memory map">>
<1>1. ASSUME NEW s, NEW n
      PROVE  <<"segment", s>> # <<n>>
  OBVIOUS
<1>2. \A S : SegmentThings(S) \cap Singles = {}
  BY <1>1 DEF SegmentThings, Singles
<1>3. \A m, n : m # n => <<m>> # <<n>>
  OBVIOUS
<1> QED
  BY <1>2, <1>3

LEMMA ThingsFinite ==
  /\ IsFiniteSet(Things)
  /\ \A S \in SUBSET Things : /\ IsFiniteSet(S) /\ Cardinality(S) \in Nat
                              /\ Cardinality(S) <= Cardinality(Things)
  /\ Cardinality(Things) \in Nat
<1>1. IsFiniteSet(Segments)
  BY FS_Interval, LoaderAssumption DEF Segments
<1>2. IsFiniteSet(SegmentThings(Segments))
  <2>1. SegmentThings(Segments) = {"segment"} \X Segments
    BY DEF SegmentThings
  <2>2. IsFiniteSet({"segment"})
    BY FS_Singleton
  <2> QED
    BY <1>1, <2>1, <2>2, FS_Product
<1>3. IsFiniteSet(Singles)
  <2>1. ASSUME NEW x, NEW y, NEW z
        PROVE  IsFiniteSet({x, y, z})
    <3>1. IsFiniteSet({x} \cup {y} \cup {z})
      BY FS_Singleton, FS_Union
    <3>2. {x} \cup {y} \cup {z} = {x, y, z}
      OBVIOUS
    <3> QED
      BY <3>1, <3>2
  <2>2. Singles = {<<"file info">>, <<"font header">>, <<"glyphs">>}
                    \cup {<<"font">>, <<"program headers">>, <<"memory map">>}
    BY DEF Singles
  <2> QED
    BY <2>1, <2>2, FS_Union
<1>4. IsFiniteSet(Things)
  BY <1>2, <1>3, FS_Union DEF Things, Singles, SegmentThings
<1> QED
  BY <1>4, FS_Subset, FS_CardinalityType

LEMMA InitTyped == Init => Counted /\ Ranges
<1> SUFFICES ASSUME Init  PROVE Counted /\ Ranges
  OBVIOUS
<1>1. Cardinality(owned) = 0 /\ owned = {}
  BY FS_EmptySet DEF Init
<1>2. events = 0 /\ changes = 0 /\ memory_map_key = 0 /\ descriptors = DESCRIPTORS
  BY DEF Init
<1>3. Counted
  BY <1>1, <1>2, LoaderAssumption DEF Counted
<1>4. segment \in 1 .. SEGMENTS + 1
  <2>1. segment = 1
    BY DEF Init
  <2> QED
    BY <2>1, LoaderAssumption
<1>5. Ranges
  BY <1>4 DEF Init, Ranges, Steps
<1> QED
  BY <1>3, <1>5

(* One thing more, among those not allocated yet. *)
LEMMA AllocationCounts ==
  ASSUME Counted, NEW thing \in Things \ owned, Allocate(thing),
         events' = events, memory_map_key' = memory_map_key,
         (owned \cup {thing}) \cap StillToCome' = {}
  PROVE  Counted'
<1>1. /\ owned' = owned \cup {thing} /\ changes' = changes + 1
      /\ descriptors' \in descriptors .. descriptors + 2
  BY DEF Allocate
<1>2. Cardinality(owned') = Cardinality(owned) + 1 /\ Cardinality(owned) \in Nat
  BY <1>1, ThingsFinite, FS_AddElement DEF Counted
<1>3. /\ events \in 0 .. EVENTS /\ EVENTS \in Nat /\ DESCRIPTORS \in Nat
      /\ changes = events + Cardinality(owned)
      /\ descriptors \in DESCRIPTORS .. DESCRIPTORS + events + 2 * Cardinality(owned)
      /\ memory_map_key \in 0 .. changes
  BY LoaderAssumption DEF Counted
<1>4. /\ changes' = events + Cardinality(owned')
      /\ descriptors' \in DESCRIPTORS .. DESCRIPTORS + events + 2 * Cardinality(owned')
      /\ memory_map_key \in 0 .. changes'
  BY <1>1, <1>2, <1>3
<1>5. owned' \subseteq Things /\ owned' \cap StillToCome' = {}
  BY <1>1 DEF Counted
<1> QED
  BY <1>3, <1>4, <1>5 DEF Counted

LEMMA NoAllocationCounts ==
  ASSUME Counted, owned' = owned, changes' = changes, descriptors' = descriptors,
         events' = events, memory_map_key' \in {memory_map_key, changes},
         StillToCome' \subseteq StillToCome
  PROVE  Counted'
<1>1. changes \in Nat
  BY ThingsFinite DEF Counted
<1>2. changes \in 0 .. changes
  BY <1>1
<1>3. memory_map_key' \in 0 .. changes
  BY <1>2 DEF Counted
<1> QED
  BY <1>3 DEF Counted

LEMMA SegmentsToCome ==
  ASSUME segment \in Nat \ {0}
  PROVE  /\ \A s \in segment + 1 .. SEGMENTS : s \in segment .. SEGMENTS /\ s # segment
         /\ segment <= SEGMENTS => segment \in segment .. SEGMENTS /\ segment \in Segments
         /\ segment .. SEGMENTS \subseteq Segments /\ 1 .. SEGMENTS = Segments
BY LoaderAssumption DEF Segments

LEMMA StepPreservesCounted ==
  ASSUME Counted, segment \in Nat \ {0}, [Next]_vars
  PROVE  Counted'
<1> USE DEF BeforeFonts, BeforeHeaders, BeforeMap
<1>1. CASE OpenKernel \/ OpenResources \/ OpenFonts
  <2>1. StillToCome' \subseteq StillToCome
    BY <1>1 DEF OpenKernel, OpenResources, OpenFonts, OpenFile, StillToCome, imageVars
  <2> QED
    BY <1>1, <2>1, NoAllocationCounts
    DEF OpenKernel, OpenResources, OpenFonts, OpenFile, poolVars, mapVars
<1>2. CASE ReadHeader \/ CheckHeader \/ FinishImage \/ SizeMap \/ ReadMap
  <2>1. StillToCome' \subseteq StillToCome
    BY <1>2 DEF ReadHeader, CheckHeader, FinishImage, SizeMap, ReadMap, StillToCome,
                imageVars
  <2> QED
    BY <1>2, <2>1, NoAllocationCounts
    DEF ReadHeader, CheckHeader, FinishImage, SizeMap, ReadMap, poolVars, mapVars
<1>3. CASE FindRsdp \/ Exit \/ UNCHANGED vars
  <2>1. StillToCome' \subseteq StillToCome
    BY <1>3 DEF FindRsdp, Exit, StillToCome, imageVars, vars
  <2> QED
    BY <1>3, <2>1, NoAllocationCounts DEF FindRsdp, Exit, poolVars, mapVars, vars
<1>4. ASSUME NEW thing \in Things, Allocate(thing), thing \in StillToCome,
             StillToCome' \subseteq StillToCome \ {thing}, UNCHANGED mapVars
      PROVE  Counted'
  BY <1>4, AllocationCounts DEF Counted, mapVars
<1>5. CASE GetInfo
  <2>1. CASE UNCHANGED poolVars
    <3>1. StillToCome' \subseteq StillToCome
      BY <1>5 DEF GetInfo, StillToCome, imageVars
    <3> QED
      BY <1>5, <2>1, <3>1, NoAllocationCounts DEF GetInfo, poolVars, mapVars
  <2>2. CASE pc' = "read header" /\ Allocate(<<"file info">>)
    <3>1. /\ <<"file info">> \in StillToCome /\ <<"file info">> \in Things
          /\ StillToCome' \subseteq StillToCome \ {<<"file info">>}
      <4>1. pc = "get info"
        BY <1>5 DEF GetInfo
      <4>2. StillToCome' = {<<"font header">>} \cup {<<"glyphs">>} \cup {<<"font">>}
                            \cup {<<"program headers">>}
                            \cup SegmentThings(Segments) \cup {<<"memory map">>}
        BY <2>2 DEF StillToCome
      <4>3. StillToCome = {<<"file info">>} \cup StillToCome'
        BY <4>1, <4>2 DEF StillToCome
      <4>4. <<"file info">> \notin StillToCome'
        BY <4>2, ThingsDiffer DEF Singles
      <4> QED
        BY <4>3, <4>4 DEF Things
    <3> QED
      BY <1>4, <1>5, <2>2, <3>1 DEF GetInfo
  <2> QED
    BY <1>5, <2>1, <2>2 DEF GetInfo
<1>6. CASE LoadFont
  <2>1. CASE UNCHANGED poolVars
    <3>1. StillToCome' \subseteq StillToCome
      BY <1>6 DEF LoadFont, StillToCome, imageVars
    <3> QED
      BY <1>6, <2>1, <3>1, NoAllocationCounts DEF LoadFont, poolVars, mapVars
  <2>2. CASE pc' \in {"load glyphs", "failed"} /\ Allocate(<<"font header">>)
    <3>1. /\ <<"font header">> \in StillToCome /\ <<"font header">> \in Things
          /\ StillToCome' \subseteq StillToCome \ {<<"font header">>}
      <4>1. pc = "load font"
        BY <1>6 DEF LoadFont
      <4>2. StillToCome = {<<"font header">>} \cup {<<"glyphs">>} \cup {<<"font">>}
                            \cup {<<"program headers">>}
                            \cup SegmentThings(Segments) \cup {<<"memory map">>}
        BY <4>1 DEF StillToCome
      <4>3. StillToCome' \subseteq {<<"glyphs">>} \cup {<<"font">>} \cup {<<"program headers">>}
                                     \cup SegmentThings(Segments) \cup {<<"memory map">>}
        BY <2>2 DEF StillToCome
      <4> QED
        BY <4>2, <4>3, ThingsDiffer DEF Things, Singles
    <3> QED
      BY <1>4, <1>6, <2>2, <3>1 DEF LoadFont
  <2> QED
    BY <1>6, <2>1, <2>2 DEF LoadFont
<1>11. CASE LoadGlyphs \/ MakeFont
  <2>1. CASE UNCHANGED poolVars
    <3>1. StillToCome' \subseteq StillToCome
      BY <1>11 DEF LoadGlyphs, MakeFont, AllocateUnchecked, StillToCome, imageVars
    <3> QED
      BY <1>11, <2>1, <3>1, NoAllocationCounts
      DEF LoadGlyphs, MakeFont, AllocateUnchecked, poolVars, mapVars
  <2>2. CASE pc = "load glyphs" /\ pc' = "make font" /\ Allocate(<<"glyphs">>)
    <3>1. /\ <<"glyphs">> \in StillToCome /\ <<"glyphs">> \in Things
          /\ StillToCome' \subseteq StillToCome \ {<<"glyphs">>}
      BY <2>2, ThingsDiffer DEF StillToCome, Things, Singles
    <3> QED
      BY <1>4, <1>11, <2>2, <3>1 DEF LoadGlyphs, MakeFont, AllocateUnchecked
  <2>3. CASE pc = "make font" /\ pc' = "read program headers" /\ Allocate(<<"font">>)
    <3>1. /\ <<"font">> \in StillToCome /\ <<"font">> \in Things
          /\ StillToCome' \subseteq StillToCome \ {<<"font">>}
      BY <2>3, ThingsDiffer DEF StillToCome, Things, Singles
    <3> QED
      BY <1>4, <1>11, <2>3, <3>1 DEF LoadGlyphs, MakeFont, AllocateUnchecked
  <2> QED
    BY <1>11, <2>1, <2>2, <2>3 DEF LoadGlyphs, MakeFont, AllocateUnchecked
<1>7. CASE ReadProgramHeaders
  <2>1. CASE UNCHANGED poolVars /\ pc' = "undefined"
    <3>1. StillToCome' \subseteq StillToCome
      BY <2>1 DEF StillToCome
    <3> QED
      BY <1>7, <2>1, <3>1, NoAllocationCounts DEF ReadProgramHeaders, poolVars, mapVars
  <2>2. CASE pc' = "load segments" /\ segment' = 1 /\ Allocate(<<"program headers">>)
    <3>1. segment' .. SEGMENTS = Segments
      BY <2>2 DEF Segments
    <3>2. /\ <<"program headers">> \in StillToCome /\ <<"program headers">> \in Things
          /\ StillToCome' \subseteq StillToCome \ {<<"program headers">>}
      <4>1. pc = "read program headers" /\ pc' = "load segments"
        BY <1>7, <2>2 DEF ReadProgramHeaders
      <4>2. StillToCome = {<<"program headers">>} \cup SegmentThings(Segments)
                            \cup {<<"memory map">>}
        BY <4>1 DEF StillToCome
      <4>3. StillToCome' = SegmentThings(Segments) \cup {<<"memory map">>}
        BY <3>1, <4>1 DEF StillToCome
      <4> QED
        BY <4>2, <4>3, ThingsDiffer DEF Things, Singles
    <3> QED
      BY <1>4, <1>7, <2>2, <3>2 DEF ReadProgramHeaders
  <2> QED
    BY <1>7, <2>1, <2>2 DEF ReadProgramHeaders
<1>8. CASE LoadSegment
  <2>1. pc = "load segments" /\ pc' = pc /\ segment' = segment + 1 /\ segment <= SEGMENTS
    BY <1>8 DEF LoadSegment
  <2>2. StillToCome = SegmentThings(segment .. SEGMENTS) \cup {<<"memory map">>}
    BY <2>1 DEF StillToCome
  <2>3. StillToCome' = SegmentThings(segment + 1 .. SEGMENTS) \cup {<<"memory map">>}
    BY <2>1 DEF StillToCome
  <2>4. /\ <<"segment", segment>> \in StillToCome /\ <<"segment", segment>> \in Things
        /\ StillToCome' \subseteq StillToCome \ {<<"segment", segment>>}
    <3>1. <<"segment", segment>> \in SegmentThings(segment .. SEGMENTS)
          /\ <<"segment", segment>> \in Things
      BY <2>1, SegmentsToCome DEF Things, SegmentThings
    <3>2. SegmentThings(segment + 1 .. SEGMENTS)
            \subseteq SegmentThings(segment .. SEGMENTS) \ {<<"segment", segment>>}
      BY SegmentsToCome DEF SegmentThings
    <3>3. <<"segment", segment>> # <<"memory map">>
      BY <3>1, ThingsDiffer
    <3> QED
      BY <2>2, <2>3, <3>1, <3>2, <3>3
  <2>5. CASE UNCHANGED poolVars
    BY <1>8, <2>4, <2>5, NoAllocationCounts DEF LoadSegment, poolVars, mapVars
  <2>6. CASE Allocate(<<"segment", segment>>)
    BY <1>4, <1>8, <2>4, <2>6 DEF LoadSegment
  <2> QED
    BY <1>8, <2>5, <2>6 DEF LoadSegment
<1>9. CASE AllocateMap
  <2>1. CASE UNCHANGED poolVars
    <3>1. StillToCome' \subseteq StillToCome
      BY <1>9 DEF AllocateMap, StillToCome, imageVars
    <3> QED
      BY <1>9, <2>1, <3>1, NoAllocationCounts DEF AllocateMap, poolVars, mapVars
  <2>2. CASE pc' = "read map" /\ Allocate(<<"memory map">>)
    <3>1. /\ <<"memory map">> \in StillToCome /\ <<"memory map">> \in Things
          /\ StillToCome' \subseteq StillToCome \ {<<"memory map">>}
      BY <1>9, <2>2 DEF AllocateMap, StillToCome, imageVars, Things
    <3> QED
      BY <1>4, <1>9, <2>2, <3>1 DEF AllocateMap
  <2> QED
    BY <1>9, <2>1, <2>2 DEF AllocateMap
<1>10. CASE FirmwareEvent
  <2>1. /\ owned' = owned /\ pc' = pc /\ segment' = segment
        /\ memory_map_key' = memory_map_key
    BY <1>10 DEF FirmwareEvent, imageVars
  <2>2. StillToCome' = StillToCome
    BY <2>1 DEF StillToCome
  <2>3. /\ events < EVENTS /\ events' = events + 1 /\ changes' = changes + 1
        /\ descriptors' \in {descriptors, descriptors + 1}
    BY <1>10 DEF FirmwareEvent
  <2>4. /\ events \in 0 .. EVENTS /\ EVENTS \in Nat /\ DESCRIPTORS \in Nat
        /\ changes = events + Cardinality(owned) /\ Cardinality(owned) \in Nat
        /\ descriptors \in DESCRIPTORS .. DESCRIPTORS + events + 2 * Cardinality(owned)
        /\ memory_map_key \in 0 .. changes
    BY LoaderAssumption, ThingsFinite DEF Counted
  <2>5. /\ events' \in 0 .. EVENTS /\ changes' = events' + Cardinality(owned)
        /\ descriptors' \in DESCRIPTORS .. DESCRIPTORS + events' + 2 * Cardinality(owned)
        /\ memory_map_key \in 0 .. changes'
    BY <2>3, <2>4
  <2> QED
    BY <2>1, <2>2, <2>5 DEF Counted
<1> QED
  BY <1>1, <1>2, <1>3, <1>5, <1>6, <1>7, <1>8, <1>9, <1>10, <1>11 DEF Next, Step

LEMMA FirstSegmentRange == 1 \in 1 .. SEGMENTS + 1
BY LoaderAssumption

LEMMA NextSegmentRange ==
  \A n \in 1 .. SEGMENTS + 1 : n <= SEGMENTS => n + 1 \in 1 .. SEGMENTS + 1
BY LoaderAssumption

LEMMA StepPreservesRanges ==
  ASSUME Ranges, Counted, [Next]_vars
  PROVE  Ranges'
<1> USE DEF Ranges, Steps, Ended
<1>1. CASE OpenKernel \/ OpenResources \/ OpenFonts \/ GetInfo \/ ReadHeader
  BY <1>1 DEF OpenKernel, OpenResources, OpenFonts, OpenFile, GetInfo, ReadHeader,
              firmware, imageVars, mapVars
<1>2. CASE CheckHeader \/ LoadFont \/ LoadGlyphs \/ MakeFont \/ FinishImage \/ Exit
        \/ AllocateMap
  BY <1>2 DEF CheckHeader, LoadFont, LoadGlyphs, MakeFont, AllocateUnchecked, FinishImage,
              Exit, AllocateMap, firmware, imageVars, mapVars
<1>3. ASSUME segment' \in 1 .. SEGMENTS + 1, pc' \in Steps \cup Ended,
             UNCHANGED <<firmware, header, mapVars, rsdp, services>>
      PROVE  Ranges'
  BY <1>3 DEF firmware, mapVars
<1>4. CASE ReadProgramHeaders
  <2>1. segment' \in {segment, 1} /\ pc' \in {"load segments", "undefined"}
        /\ UNCHANGED <<firmware, header, mapVars, rsdp, services>>
    BY <1>4 DEF ReadProgramHeaders
  <2> QED
    BY <1>3, <2>1, FirstSegmentRange DEF Ranges
<1>5. CASE LoadSegment
  <2>1. segment' = segment + 1 /\ segment <= SEGMENTS /\ pc' = pc
        /\ UNCHANGED <<firmware, header, mapVars, rsdp, services>>
    BY <1>5 DEF LoadSegment
  <2>2. segment' \in 1 .. SEGMENTS + 1
    BY <2>1, NextSegmentRange DEF Ranges
  <2> QED
    BY <1>3, <2>1, <2>2
<1>6. CASE SizeMap \/ FindRsdp \/ UNCHANGED vars
  BY <1>6 DEF SizeMap, FindRsdp, firmware, imageVars, mapVars, vars, Matches, EntryKinds
<1>7. CASE ReadMap \/ FirmwareEvent
  BY <1>7 DEF ReadMap, FirmwareEvent, firmware, imageVars, Counted
<1> QED
  BY <1>1, <1>2, <1>4, <1>5, <1>6, <1>7 DEF Next, Step

(* Whatever the firmware answers and does by itself, the loader allocates  *)
(* no more than its few things, its loop stays on the program headers, and *)
(* the key it keeps is one the map has had.                                *)
THEOREM LoaderTypeCorrect == Spec => []TypeOK
<1>1. Init => Typed /\ Counted /\ Ranges
  BY InitEstablishes, InitTyped DEF LoaderInv
<1>2. Typed /\ Counted /\ Ranges /\ [Next]_vars => (Typed /\ Counted /\ Ranges)'
  <2> SUFFICES ASSUME Typed, Counted, Ranges, [Next]_vars
               PROVE  Typed' /\ Counted' /\ Ranges'
    OBVIOUS
  <2>1. segment \in Nat \ {0}
    BY LoaderAssumption DEF Ranges
  <2> QED
    BY <2>1, StepPreservesTyped, StepPreservesCounted, StepPreservesRanges
<1>3. Typed /\ Counted /\ Ranges => TypeOK
  <2> SUFFICES ASSUME Typed, Counted, Ranges  PROVE TypeOK
    OBVIOUS
  <2>1. /\ events \in 0 .. EVENTS /\ EVENTS \in Nat /\ DESCRIPTORS \in Nat
        /\ changes = events + Cardinality(owned)
        /\ Cardinality(owned) \in Nat /\ Cardinality(Things) \in Nat
        /\ Cardinality(owned) <= Cardinality(Things)
        /\ descriptors \in DESCRIPTORS .. DESCRIPTORS + events + 2 * Cardinality(owned)
    BY LoaderAssumption, ThingsFinite DEF Counted
  <2>2. /\ changes \in 0 .. EVENTS + Cardinality(Things)
        /\ descriptors \in DESCRIPTORS .. DESCRIPTORS + events + 2 * (changes - events)
    BY <2>1
  <2> QED
    BY <2>2 DEF TypeOK, Typed, Counted, Ranges
<1> QED
  BY <1>1, <1>2, <1>3, PTL DEF Spec
=============================================================================
