------------------------------ MODULE BootTables ------------------------------
(*****************************************************************************)
(* The translation tables that the start code makes (start/mm.s of both      *)
(* architectures): mmu_create_kernel_page_tables, then, with the MMU on,     *)
(* mmu_setup_primary_core_stacks.  They take the first pages of the kernel's *)
(* page table area, which begins at page PagesStart.  The identity tables,   *)
(* which are gone when Rust code runs, are left out.                         *)
(*****************************************************************************)
EXTENDS TranslationTable

PagesStart == machine.kernel_pages_start

(* section_align_block. *)
SectionAlign(base, size) ==
  LET first == base - (base % SectionSize)
      last == base + size + SectionSize - 1
  IN [base |-> first, size |-> last - (last % SectionSize) - first]

(* map_block: sections in one table; the first entry is always written. *)
MapBlock(tables, t, block) ==
  LET virt == machine.virtual_base + block.base
      first == DescriptorIndex(virt, LastLevel - 1)
      last == DescriptorIndex(virt + block.size - 1, LastLevel - 1)
  IN [tables EXCEPT ![t] = [i \in Index |->
        IF i \in first .. Max({first, last})
        THEN MakeDescriptor(LastLevel - 1, block.base + (i - first) * SectionSize, FALSE)
        ELSE @[i]]]

(* create_table_entry, init_table: a pointer to the table in another page. *)
CreateTableEntry(tables, t, i, lower) == [tables EXCEPT ![t][i] = Pointer(lower)]

(* The pages of consecutive entries of a last-level table. *)
MapPages(tables, t, i, base, count) ==
  [tables EXCEPT ![t] = [j \in Index |->
     IF j \in i .. i + count - 1 THEN MakeDescriptor(LastLevel, base + j - i, FALSE) ELSE @[j]]]

(* The tables that cover the first and the last GiB of the kernel segment: a *)
(* 3/1 split has one for both.                                               *)
LowerL2 == CASE machine.arch = "aarch64" -> PagesStart + 2
             [] machine.vm_split = 3 -> PagesStart
             [] OTHER -> PagesStart + 1
UpperL2 == IF machine.vm_split = 3 THEN PagesStart ELSE PagesStart + 2

KernelBlock == SectionAlign(0, machine.kernel_end)
BlobBlock == SectionAlign(machine.blob.base, machine.blob.size)

(* init_tables of AArch64, init_table of ARM with a 2/2 split. *)
InitTables(tables) ==
  LET first(level) == DescriptorIndex(machine.virtual_base, level)
  IN CASE machine.arch = "aarch64" ->
            CreateTableEntry(CreateTableEntry(tables, PagesStart, first(1), PagesStart + 1),
                             PagesStart + 1, first(2), PagesStart + 2)
       [] machine.vm_split = 3 -> tables
       [] OTHER -> CreateTableEntry(CreateTableEntry(tables, PagesStart, first(1) % 2, LowerL2),
                                    PagesStart, (first(1) % 2) + 1, UpperL2)

(* Mutant: the recursive mapping in the entry below. *)
RecursiveIndexLow == Entries - 3

(* ARM's recursive mapping, in the last entry but one, and map_vectors: the  *)
(* page of the vectors and that of the stubs.                                *)
RecursiveIndex == Entries - 2
MapVectors(tables) ==
  IF machine.arch = "aarch64" THEN tables
  ELSE MapPages(CreateTableEntry(CreateTableEntry(tables, UpperL2, RecursiveIndex, UpperL2),
                                 UpperL2, Entries - 1, UpperL2 + 1),
                UpperL2 + 1, machine.vectors.index, machine.vectors.base, 2)

(* mmu_create_kernel_page_tables, after it cleared the area. *)
CreateKernelPageTables(tables) ==
  MapBlock(MapBlock(MapVectors(InitTables(tables)), LowerL2, KernelBlock), LowerL2, BlobBlock)

StacksPerCore == IF machine.arch = "arm" THEN 5 ELSE 1
StackStep == IF machine.arch = "arm" THEN machine.stack_pages + 1 ELSE machine.stack_pages
StackBase == machine.stack_start - StacksPerCore * StackStep

(* mmu_setup_primary_core_stack of AArch64: three new tables. *)
SetupStackAArch64(tables) ==
  LET Idx(level) == DescriptorIndex(StackBase, level)
      l2 == PagesStart + 3
  IN MapPages(CreateTableEntry(CreateTableEntry(CreateTableEntry(tables,
                PagesStart, Idx(1), l2), l2, Idx(2), l2 + 1), l2 + 1, Idx(3), l2 + 2),
              l2 + 2, Idx(4), machine.stack_base, machine.stack_pages)

(* mmu_setup_primary_core_stacks of ARM: "skip existing L2", "skip existing  *)
(* L3", and five stacks above a guard page each.                             *)
StackL3 == LowerL2 + 2
SetupStacksArm(tables) ==
  FoldLeft(LAMBDA acc, s : MapPages(acc, StackL3, DescriptorIndex(StackBase, 3) + s * StackStep + 1,
                                    machine.stack_base + s * machine.stack_pages,
                                    machine.stack_pages),
           CreateTableEntry(tables, LowerL2, DescriptorIndex(StackBase, 2), StackL3),
           <<0, 1, 2, 3, 4>>)

SetupPrimaryCoreStacks(tables) ==
  IF machine.arch = "arm" THEN SetupStacksArm(tables) ELSE SetupStackAArch64(tables)

(* The start code, on a cleared area. *)
BootstrapTables(tables) == SetupPrimaryCoreStacks(CreateKernelPageTables(tables))

-----------------------------------------------------------------------------
(* What the start code means to map: set of <<va, pa, device>>. *)
Linear(block) ==
  {<<machine.virtual_base + pa, pa, FALSE>> : pa \in block.base .. block.base + block.size - 1}

SegmentSize == EntrySize(FirstLevel(machine.virtual_base))
                 * (IF machine.vm_split = 2 THEN 2 ELSE Entries)

(* RECURSIVE_MAP_AREA. *)
RecursiveBase == machine.virtual_base + SegmentSize - 2 * SectionSize

BootstrapMapping ==
  Linear(KernelBlock) \cup Linear(BlobBlock)
    \cup {<<StackBase + s * StackStep + (StackStep - machine.stack_pages) + n,
            machine.stack_base + s * machine.stack_pages + n, FALSE>> :
            s \in 0 .. StacksPerCore - 1, n \in 0 .. machine.stack_pages - 1}
    \cup (IF machine.arch = "aarch64" THEN {}
          ELSE {<<machine.virtual_base + SegmentSize - SectionSize + machine.vectors.index + n,
                  machine.vectors.base + n, FALSE>> : n \in 0 .. 1})

=============================================================================
