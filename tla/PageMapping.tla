------------------------------ MODULE PageMapping ------------------------------
(***************************************************************************)
(* The page-table manager (memory/paging/table_manager/pt_manager.c) and   *)
(* the map indexer (memory/paging/map_indexer), as operators on a machine: *)
(* a record of the allocator and of the memory that page tables live in.   *)
(*                                                                         *)
(* A page, virtual or physical, is its page number.  A table is the number *)
(* of the frame it fills; its entries hold a frame number, the present and *)
(* writable bits being set together, or NOT_PRESENT.                       *)
(***************************************************************************)
EXTENDS MemoryMap

CONSTANT RADIX   \* entries of a table (512 in the code)

ASSUME RadixAssumption == RADIX \in Nat \ {0}

NOT_PRESENT == -1

Index  == 0 .. RADIX - 1
Entry  == Frame \cup {NOT_PRESENT}
Tables == [Frame -> [Index -> Entry]]

ZeroedTable == [i \in Index |-> NOT_PRESENT]

(* map_index: one index for each of the four levels, nine bits each. *)
map_index(page) ==
  LET above_pt  == page \div RADIX
      above_pd  == above_pt \div RADIX
      above_pdp == above_pd \div RADIX
  IN  [p_index  |-> page % RADIX,     pt_index  |-> above_pt % RADIX,
       pd_index |-> above_pd % RADIX, pdp_index |-> above_pdp % RADIX]

-----------------------------------------------------------------------------
(* The frames a table may fill without destroying anything, as far as the  *)
(* memory map tells: a frame that is not conventional memory is firmware's,*)
(* the loader's or no memory at all, and the bitmap's frames hold what the *)
(* allocator knows.                                                        *)
UsableFrames(map) == Conventional(map) \ BitmapFrames(map)

(* Mutant: the new table is not cleared. *)
EnsureDirtyTable(m, table, index) ==
  IF m.lost \/ m.tables[table][index] # NOT_PRESENT
    THEN m
    ELSE LET page == RequestedPage(m.allocator)
         IN  IF page \notin m.usable
               THEN [m EXCEPT !.lost = TRUE]
               ELSE [m EXCEPT !.allocator = pfallocator_request_page(@),
                              !.tables[table][index] = page]

(* Mutant: the entry's present bit is not tested. *)
EnsureNewTable(m, table, index) ==
  LET page == RequestedPage(m.allocator)
  IN  IF m.lost \/ page \notin m.usable
        THEN [m EXCEPT !.lost = TRUE]
        ELSE [m EXCEPT !.allocator = pfallocator_request_page(@),
                       !.tables    = [@ EXCEPT ![page] = ZeroedTable,
                                               ![table][index] = page]]

(* One of the three blocks of ptmanager_map_memory: the entry at index of  *)
(* table, made to point to a zeroed frame just requested when it points to *)
(* none.  The result of the request is not tested: when it is NULL, or a   *)
(* frame not in m.usable, memset destroys what that frame held.  The       *)
(* machine is then lost, and no longer followed.                           *)
EnsureTable(m, table, index) ==
  IF m.lost \/ m.tables[table][index] # NOT_PRESENT
    THEN m
    ELSE LET page == RequestedPage(m.allocator)
         IN  IF page \notin m.usable
               THEN [m EXCEPT !.lost = TRUE]
               ELSE [m EXCEPT !.allocator = pfallocator_request_page(@),
                              !.tables    = [@ EXCEPT ![page] = ZeroedTable,
                                                      ![table][index] = page]]

(* Mutant: the entry of the last table holds an address, not a frame. *)
MapUnshifted(m, pml4, virtual, physical) ==
  LET i   == map_index(virtual)
      m1  == EnsureTable(m, pml4, i.pdp_index)
      pdp == m1.tables[pml4][i.pdp_index]
      m2  == EnsureTable(m1, pdp, i.pd_index)
      pd  == m2.tables[pdp][i.pd_index]
      m3  == EnsureTable(m2, pd, i.pt_index)
      pt  == m3.tables[pd][i.pt_index]
  IN  IF m3.lost THEN m3
      ELSE [m3 EXCEPT !.tables[pt][i.p_index] = physical * (MAX_FRAME + 1)]

(* Mutant: the second directory is indexed with the third one's index. *)
MapWithOneIndexTwice(m, pml4, virtual, physical) ==
  LET i   == map_index(virtual)
      m1  == EnsureTable(m, pml4, i.pdp_index)
      pdp == m1.tables[pml4][i.pdp_index]
      m2  == EnsureTable(m1, pdp, i.pt_index)
      pd  == m2.tables[pdp][i.pt_index]
      m3  == EnsureTable(m2, pd, i.pt_index)
      pt  == m3.tables[pd][i.pt_index]
  IN  IF m3.lost THEN m3 ELSE [m3 EXCEPT !.tables[pt][i.p_index] = physical]

ptmanager_map_memory(m, pml4, virtual, physical) ==
  LET i   == map_index(virtual)
      m1  == EnsureTable(m, pml4, i.pdp_index)
      pdp == m1.tables[pml4][i.pdp_index]
      m2  == EnsureTable(m1, pdp, i.pd_index)
      pd  == m2.tables[pdp][i.pd_index]
      m3  == EnsureTable(m2, pd, i.pt_index)
      pt  == m3.tables[pd][i.pt_index]
  IN  IF m3.lost THEN m3 ELSE [m3 EXCEPT !.tables[pt][i.p_index] = physical]

-----------------------------------------------------------------------------
(* The processor's page walk, which is not part of the kernel: the root,   *)
(* the tables of the three levels below it, and last the frame a virtual   *)
(* page translates to.                                                     *)
Follow(tables, table, index) ==
  IF table = NOT_PRESENT THEN NOT_PRESENT ELSE tables[table][index]

Path(tables, pml4, page) ==
  LET i   == map_index(page)
      pdp == Follow(tables, pml4, i.pdp_index)
      pd  == Follow(tables, pdp, i.pd_index)
      pt  == Follow(tables, pd, i.pt_index)
  IN  <<pml4, pdp, pd, pt, Follow(tables, pt, i.p_index)>>

Walk(tables, pml4, page) == Path(tables, pml4, page)[5]

PathTables(tables, pml4, page) == {Path(tables, pml4, page)[n] : n \in 1 .. 4}

(* The tables a directory's entries point to, over a set of directories... *)
Children(tables, directories) ==
  {tables[d][i] : d \in directories, i \in Index} \ {NOT_PRESENT}

(* ... and the tables of the whole tree, level by level. *)
Directories(tables, pml4) ==
  LET pdps == Children(tables, {pml4})
  IN  {pml4} \cup pdps \cup Children(tables, pdps)
TablesOf(tables, pml4) ==
  Directories(tables, pml4) \cup Children(tables, Directories(tables, pml4))

(* How many tables a set of mapped pages needs: the root, and on each of   *)
(* the three levels below one for each prefix of the pages' numbers.       *)
Above(numbers) == {n \div RADIX : n \in numbers}

TablesFor(pages) ==
  LET pts  == Above(pages)
      pds  == Above(pts)
      pdps == Above(pds)
  IN  1 + Cardinality(pdps) + Cardinality(pds) + Cardinality(pts)
=============================================================================
