---------------------------- MODULE MCPciEnumeration ----------------------------
EXTENDS PciEnumeration, MCKernelMemory

CONSTANT ECAM_BASES   \* base pages of the configuration spaces

(* A configuration space is listed once, the higher one first. *)
MCMcfgTables ==
  UNION {{s \in [1 .. n -> ECAM_BASES] : \A j, k \in 1 .. n : j < k => s[j] > s[k]} :
           n \in 0 .. 2}
=============================================================================
