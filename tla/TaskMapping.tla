----------------------------- MODULE TaskMapping -----------------------------
(*****************************************************************************)
(* Local mappings of an ARM task: map_page and unmap_page of                 *)
(* src/arch/arm/task.rs and src/task/mod.rs, over the task's Level 3 table   *)
(* (src/arch/arm/mm.rs) and the TLB of the core the task runs on.  Pages     *)
(* below high_mem_base are always mapped and only take a place on the stack. *)
(* The kernel does not switch tasks yet, so there is one task and its core.  *)
(*****************************************************************************)
EXTENDS Integers, Sequences

CONSTANTS
  MAX_LOCAL_MAPPINGS,
  Page,            \* physical pages, as numbers
  high_mem_base,
  Core,            \* core indices
  this_core,       \* the core the task runs on
  MaxMaps          \* bound on the mappings held at once

ASSUME TaskAssumption ==
  /\ MAX_LOCAL_MAPPINGS \in Nat \ {0} /\ MaxMaps \in Nat
  /\ Page \subseteq Nat /\ high_mem_base \in Nat /\ this_core \in Core

VARIABLES
  table,      \* the task's local mapping table
  tlb,        \* translations of the section that the core's TLB holds
  map_count, pin_mask, affinity,
  halted,     \* the kernel panicked
  mappings    \* ghost: the pages mapped and not unmapped, oldest first

vars == <<table, tlb, map_count, pin_mask, affinity, halted, mappings>>

Index == 0 .. MAX_LOCAL_MAPPINGS - 1
Null == -1      \* an invalid descriptor, or a page the TLB does not hold
NoMask == {}    \* None

(* init_bootstrap_context. *)
Init ==
  /\ table = [i \in Index |-> Null] /\ tlb = [i \in Index |-> Null]
  /\ map_count = 0 /\ pin_mask = NoMask /\ affinity = NoMask
  /\ halted = FALSE /\ mappings = <<>>

(* Mutant: the TLB entry is left alone. *)
UpdateEntryStale(i, page) == table' = [table EXCEPT ![i] = page] /\ UNCHANGED tlb

(* mmu_update_table_entry_local: write the entry, invalidate the address. *)
UpdateEntry(i, page) ==
  /\ table' = [table EXCEPT ![i] = page]
  /\ tlb' = [tlb EXCEPT ![i] = Null]

(* What the call that panics did before does not matter any more. *)
Panic ==
  /\ halted' = TRUE
  /\ UNCHANGED <<table, tlb, map_count, pin_mask, affinity, mappings>>

(* map_page of a page in linear memory: the count moves, the table does not. *)
MapLinear(page) ==
  /\ page < high_mem_base
  /\ map_count' = map_count + 1 /\ mappings' = Append(mappings, page)
  /\ UNCHANGED <<table, tlb, pin_mask, affinity, halted>>

(* map_page of a page in high memory. *)
MapHigh(page) ==
  /\ page >= high_mem_base
  /\ IF map_count < MAX_LOCAL_MAPPINGS
     THEN /\ pin_mask' = IF pin_mask = NoMask THEN {this_core} ELSE pin_mask
          /\ UpdateEntry(map_count, page)
          /\ map_count' = map_count + 1 /\ mappings' = Append(mappings, page)
          /\ UNCHANGED <<affinity, halted>>
     ELSE Panic

(* unmap_page_local: a null entry stands for a page in linear memory. *)
ClearEntry(i) ==
  IF table[i] = Null THEN UNCHANGED <<table, tlb>> ELSE UpdateEntry(i, Null)

(* Mutant: any unmapped page ends the pin. *)
PinAfterUnmapEager == NoMask

PinAfterUnmap == IF map_count = 1 THEN NoMask ELSE pin_mask

(* unmap_page; indexing past the table panics. *)
UnmapPage ==
  /\ map_count > 0
  /\ IF map_count - 1 \in Index
     THEN /\ ClearEntry(map_count - 1)
          /\ map_count' = map_count - 1 /\ pin_mask' = PinAfterUnmap
          /\ mappings' = SubSeq(mappings, 1, Len(mappings) - 1)
          /\ UNCHANGED <<affinity, halted>>
     ELSE Panic

SetAffinity(mask) ==
  /\ affinity' = mask
  /\ UNCHANGED <<table, tlb, map_count, pin_mask, halted, mappings>>

GetAffinity == IF pin_mask # NoMask THEN pin_mask ELSE affinity

(* The core walks the table, at an access or of its own accord. *)
FillTlb(i) ==
  /\ table[i] # Null /\ tlb' = [tlb EXCEPT ![i] = table[i]]
  /\ UNCHANGED <<table, map_count, pin_mask, affinity, halted, mappings>>

Run ==
  \/ \E page \in Page : map_count < MaxMaps /\ (MapLinear(page) \/ MapHigh(page))
  \/ UnmapPage
  \/ \E mask \in SUBSET Core : SetAffinity(mask)
  \/ \E i \in Index : FillTlb(i)

Halt == halted /\ UNCHANGED vars

Next == (~halted /\ Run) \/ Halt

Spec == Init /\ [][Next]_vars

-----------------------------------------------------------------------------
(*****************************************************************************)
(* Properties.                                                               *)
(*****************************************************************************)

(* The types of the variables. *)
TypeOK ==
  /\ table \in [Index -> Page \cup {Null}] /\ tlb \in [Index -> Page \cup {Null}]
  /\ map_count \in Nat /\ pin_mask \in SUBSET Core /\ affinity \in SUBSET Core
  /\ halted \in BOOLEAN /\ mappings \in Seq(Page)

(* What an access to page i of the section reaches, Null for a fault. *)
Translation(i) == IF tlb[i] # Null THEN tlb[i] ELSE table[i]

(* The page of high memory mapped i-th, if there is one. *)
Mapped(i) ==
  IF i + 1 \in DOMAIN mappings /\ mappings[i + 1] >= high_mem_base
  THEN mappings[i + 1] ELSE Null

(* Every address map_page returned for high memory reaches its page until    *)
(* it is unmapped, through the TLB too; the other addresses of the section,  *)
(* unmapped ones included, fault.                                            *)
MappingsTranslate == \A i \in Index : Translation(i) = Mapped(i)

(* "When at least one local mapping exists to a high memory page, the task   *)
(* will be pinned to the current core", whatever affinity was set meanwhile: *)
(* its addresses mean nothing on another core.                               *)
PinnedWhileMapped ==
  (\E k \in DOMAIN mappings : mappings[k] >= high_mem_base) => GetAffinity = {this_core}

(* "The function will panic if no more pages can be mapped into the thread's *)
(* local mappings": no mapping is made beyond the table's last entry.        *)
MappingsFitTable == map_count <= MAX_LOCAL_MAPPINGS

=============================================================================
