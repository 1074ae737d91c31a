------------------------------ MODULE PageTable ------------------------------
(*****************************************************************************)
(* direct_map_memory and map_memory of src/arch/{arm,aarch64}/mm.rs on the   *)
(* tables of the start code: the calls that init makes, with tables from the *)
(* boot page allocator, then the bootstrap task's own table, through which   *)
(* it maps pages of high memory on ARM, and the calls of init_isr_stacks,    *)
(* with tables from the linear zone.  The recursion fill_table -> alloc_table_and_fill ->         *)
(* fill_table is a stack of frames, one turn of a fill loop a step.          *)
(*                                                                           *)
(* A call writes the descriptor of a lower table after it filled that table, *)
(* and the tables are those the MMU is walking.                              *)
(*****************************************************************************)
EXTENDS BootTables, BufferedPageAllocator

CONSTANTS
  MaxCalls,   \* bound on the number of calls
  MaxLocal    \* bound on the pages that the task maps at once

ASSUME PageTableAssumption ==
  /\ MaxCalls \in Nat /\ MaxLocal \in Nat
  /\ \A m \in Machines : \A q \in m.requests :
       q.strategy \in {"Compact", "Granular"} /\ q.size > 0 /\ q.allocator \in {"boot", "zone"}

VARIABLES
  tables,   \* tables[t][i]: descriptor i of the table in page t
  bitmap,   \* of the boot page allocator
  taken,    \* pages that the linear zone gave for tables
  stack,    \* the frames of the call under way, the innermost last
  call,     \* the call under way or the last one
  calls,    \* calls begun
  booted,   \* arch::init and task::init are done
  local,    \* the pages the bootstrap task has mapped, the latest last
  asked,    \* what is mapped by the start code and the calls that returned: set of
            \* <<va, pa, device>>
  halted    \* a panic

vars == <<machine, tables, bitmap, taken, stack, call, calls, booted, local, asked, halted>>

Root == PagesStart

(* Mutant: the area begins one page into the tables of AArch64. *)
BootstrapPagesTight == IF machine.arch = "arm" THEN 4 ELSE 5

(* The area of the boot page allocator begins behind the bootstrap tables:   *)
(* "a maximum of four" on ARM, "no more than six" on AArch64.                *)
BootstrapPages == IF machine.arch = "arm" THEN 4 ELSE 6
AreaEnd == PagesStart + machine.kernel_pages_size
BootPages == AllocPage(bitmap, PagesStart + BootstrapPages, AreaEnd)

(* A page of the linear zone, which is in the direct map (LinearMemoryMapped *)
(* of MemoryConfig).                                                         *)
ZonePages ==
  {t \in machine.zone_pages \ taken : <<machine.virtual_base + t, t, FALSE>> \in asked}

(* BOOTSTRAP_LOCAL_TABLE, a page of the ARM image that the loader cleared.   *)
LocalTables == IF machine.arch = "arm" THEN {machine.local_table} ELSE {}

(* The start code clears its area; a page of the zone holds whatever its     *)
(* last owner left there.                                                    *)
Init ==
  /\ machine \in Machines
  /\ \E stale \in {Invalid, Pointer(Root)} :
       tables = BootstrapTables([t \in (PagesStart .. AreaEnd - 1) \cup machine.zone_pages
                                              \cup LocalTables |->
                   IF t \in machine.zone_pages THEN [i \in Index |-> stale] ELSE ZeroTable])
  /\ bitmap = NoBits /\ taken = {}
  /\ stack = <<>> /\ calls = 0 /\ call = CHOOSE q \in machine.requests : TRUE
  /\ booted = FALSE /\ local = <<>>
  /\ asked = BootstrapMapping /\ halted = FALSE

Frame(level, table, virt, base, size) ==
  [level |-> level, table |-> table, virt |-> virt, base |-> base, size |-> size,
   below |-> -1]   \* the lower table whose descriptor is still to be written

(* VA = (PA - base) + virt, for the pages of a call. *)
Mapping(q) == {<<q.virt + i, q.base + i, q.device>> : i \in 0 .. q.size - 1}

(* A call of boot code, which maps no page twice: memory ranges are disjoint *)
(* (RangesOrdered of MemoryConfig), without the kernel and the blob, and so  *)
(* are the areas above them.  The boot page allocator goes when init ends,   *)
(* the zone's allocator comes after it.                                      *)
Begin(request) ==
  /\ ~halted /\ stack = <<>> /\ calls < MaxCalls
  /\ request.allocator = IF booted THEN "zone" ELSE "boot"
  /\ {m[1] : m \in asked} \cap {m[1] : m \in Mapping(request)} = {}
  /\ call' = request /\ calls' = calls + 1
  /\ stack' = <<Frame(FirstLevel(request.virt), Root, request.virt, request.base, request.size)>>
  /\ UNCHANGED <<machine, tables, bitmap, taken, booted, local, asked, halted>>

Top == stack[Len(stack)]

(* The alignment test of fill_table_compact: ARM asks for section alignment  *)
(* at every level, AArch64 for that of the entry.                            *)
Aligned(f) == f.virt % (IF machine.arch = "arm" THEN SectionSize ELSE EntrySize(f.level)) = 0

(* The loop writes a block or page descriptor and does not descend. *)
WritesEntry(f) ==
  IF call.strategy = "Granular" THEN f.level = LastLevel
  ELSE Aligned(f) /\ f.size >= EntrySize(f.level)

(* How far one turn of the loop advances. *)
FillSize(f) ==
  IF call.strategy = "Granular" THEN Min({f.size, EntrySize(f.level)})
  ELSE IF WritesEntry(f) THEN EntrySize(f.level)
  ELSE IF Aligned(f) THEN f.size
  ELSE f.size % EntrySize(f.level)

(* What the lower table is asked to fill: all that is left when granular. *)
LowerSize(f) == IF call.strategy = "Granular" THEN f.size ELSE FillSize(f)

(* Mutant: the physical address stays behind. *)
AdvanceVirt(f) == [f EXCEPT !.virt = @ + FillSize(f), !.size = @ - FillSize(f)]

Advance(f) ==
  [f EXCEPT !.virt = @ + FillSize(f), !.base = @ + FillSize(f), !.size = @ - FillSize(f)]

WriteEntry ==
  LET f == Top IN
  /\ ~halted /\ stack # <<>> /\ f.size > 0 /\ f.below = -1
  /\ WritesEntry(f) /\ HasDescriptor(f.level)
  /\ tables' = [tables EXCEPT ![f.table][DescriptorIndex(f.virt, f.level)] =
                  MakeDescriptor(f.level, f.base, call.device)]
  /\ stack' = [stack EXCEPT ![Len(stack)] = Advance(f)]
  /\ UNCHANGED <<machine, bitmap, taken, call, calls, booted, local, asked, halted>>

NeedsTable(f) == ~IsPointer(f.level, tables[f.table][DescriptorIndex(f.virt, f.level)])

(* What alloc(1) may return. *)
NewTables == IF call.allocator = "boot" THEN BootPages ELSE ZonePages

(* Mutant: a table that is there is replaced. *)
LowerTablesNew(f) == NewTables

(* The table of the next level: the one that is there, or a new page. *)
LowerTables(f) ==
  IF NeedsTable(f) THEN NewTables ELSE {tables[f.table][DescriptorIndex(f.virt, f.level)].addr}

(* alloc_table_and_fill, up to the call of fill_table. *)
Descend ==
  LET f == Top IN
  /\ ~halted /\ stack # <<>> /\ f.size > 0 /\ f.below = -1
  /\ ~WritesEntry(f) /\ f.level # LastLevel
  /\ \E t \in LowerTables(f) :
       /\ stack' = Append([stack EXCEPT ![Len(stack)].below = t],
                          Frame(f.level + 1, t, f.virt, f.base, LowerSize(f)))
       /\ tables' = IF t \in NewTables THEN [tables EXCEPT ![t] = ZeroTable] ELSE tables
       /\ bitmap' = IF t \in BootPages THEN MarkPage(bitmap, PagesStart + BootstrapPages, AreaEnd, t)
                    ELSE bitmap
       /\ taken' = taken \cup ({t} \cap ZonePages)
  /\ UNCHANGED <<machine, call, calls, booted, local, asked, halted>>

(* No page for a table, or no descriptor for the level: unwrap panics. *)
FillPanic ==
  LET f == Top IN
  /\ ~halted /\ stack # <<>> /\ f.size > 0 /\ f.below = -1
  /\ \/ WritesEntry(f) /\ ~HasDescriptor(f.level)
     \/ ~WritesEntry(f) /\ (f.level = LastLevel \/ LowerTables(f) = {})
  /\ halted' = TRUE
  /\ UNCHANGED <<machine, tables, bitmap, taken, stack, call, calls, booted, local, asked>>

(* The rest of alloc_table_and_fill and of the turn: the lower table's       *)
(* descriptor is written.                                                    *)
Ascend ==
  LET upper == stack[Len(stack) - 1] IN
  /\ ~halted /\ Len(stack) > 1 /\ Top.size = 0
  /\ tables' = [tables EXCEPT ![upper.table][DescriptorIndex(upper.virt, upper.level)] =
                  Pointer(upper.below)]
  /\ stack' = [SubSeq(stack, 1, Len(stack) - 1) EXCEPT
                 ![Len(stack) - 1] = [Advance(upper) EXCEPT !.below = -1]]
  /\ UNCHANGED <<machine, bitmap, taken, call, calls, booted, local, asked, halted>>

Return ==
  /\ ~halted /\ Len(stack) = 1 /\ Top.size = 0
  /\ stack' = <<>>
  /\ asked' = asked \cup Mapping(call)
  /\ UNCHANGED <<machine, tables, bitmap, taken, call, calls, booted, local, halted>>

(* The MMU's walk from table t at a level: {} or the one <<pa, device>>.     *)
(* With a 2/2 split "only bit 30 is used to index the Level 1 table".        *)
RECURSIVE Walk(_, _, _)
Walk(level, t, va) ==
  LET index == DescriptorIndex(va, level)
      desc == tables[t][IF level = 1 /\ machine.vm_split = 2 THEN index % 2 ELSE index]
  IN
  IF desc.type = "invalid" THEN {}
  ELSE IF IsPointer(level, desc) THEN Walk(level + 1, desc.addr, va)
  ELSE {<<desc.addr + (va % EntrySize(level)), desc.device>>}

Translate(va) == Walk(FirstLevel(va), Root, va)

(* The table that a store to a page of the recursive window changes. *)
WrittenAt(va) == {r[1] : r \in Translate(va)}

(*****************************************************************************)
(* The bootstrap task's local mappings (src/arch/arm/task.rs).  Their table  *)
(* is linked into the kernel's for the section of the task's core and then   *)
(* written through the recursive mapping.                                    *)
(*****************************************************************************)
(* THREAD_LOCAL_AREA_VIRTUAL_BASE, which is core 0's section of it. *)
LocalBase ==
  LET top == machine.stack_start - 4 * StackStep * machine.core_count   \* ISR_STACK_AREA
                                 - SectionSize * machine.core_count
  IN top - (top % SectionSize)

(* map_thread_local_table: one entry of the Level 2 table for the address. *)
MapThreadLocalTable(virt, table) ==
  LET l2 == IF FirstLevel(virt) = 1 THEN tables[Root][DescriptorIndex(virt, 1)].addr ELSE Root
  IN [tables EXCEPT ![l2][DescriptorIndex(virt, 2)] = Pointer(table)]

(* task::init, with init_bootstrap_context, which maps nothing on AArch64. *)
TaskInit ==
  /\ ~halted /\ stack = <<>> /\ ~booted
  /\ booted' = TRUE
  /\ tables' = IF machine.arch = "arm" THEN MapThreadLocalTable(LocalBase, machine.local_table)
               ELSE tables
  /\ UNCHANGED <<machine, bitmap, taken, stack, call, calls, local, asked, halted>>

(* get_page_virtual_address_for_virtual_address: where the recursive mapping *)
(* shows the last-level table of an address in the upper GiB.                *)
TableAddress(virt) == RecursiveBase + DescriptorIndex(virt, 2)

(* map_page of a page in high memory and unmap_page: the entry is written    *)
(* through the address of the table.                                         *)
MapLocal(page) ==
  /\ ~halted /\ stack = <<>> /\ booted /\ Len(local) < MaxLocal
  /\ page \in machine.high_pages
  /\ \E t \in WrittenAt(TableAddress(LocalBase)) :
       tables' = [tables EXCEPT ![t][Len(local)] = MakeDescriptor(LastLevel, page, FALSE)]
  /\ local' = Append(local, page)
  /\ asked' = asked \cup {<<LocalBase + Len(local), page, FALSE>>}
  /\ UNCHANGED <<machine, bitmap, taken, stack, call, calls, booted, halted>>

UnmapLocal ==
  /\ ~halted /\ stack = <<>> /\ local # <<>>
  /\ \E t \in WrittenAt(TableAddress(LocalBase)) :
       tables' = [tables EXCEPT ![t][Len(local) - 1] = Invalid]
  /\ local' = SubSeq(local, 1, Len(local) - 1)
  /\ asked' = {m \in asked : m[1] # LocalBase + Len(local) - 1}
  /\ UNCHANGED <<machine, bitmap, taken, stack, call, calls, booted, halted>>

Rest == (halted \/ stack = <<>>) /\ UNCHANGED vars

Next ==
  \/ \E q \in machine.requests : Begin(q)
  \/ WriteEntry \/ Descend \/ Ascend \/ Return \/ FillPanic \/ Rest
  \/ TaskInit \/ UnmapLocal \/ \E page \in machine.high_pages : MapLocal(page)

Spec == Init /\ [][Next]_vars
FairSpec == Spec /\ WF_vars(WriteEntry \/ Descend \/ Ascend \/ Return \/ FillPanic)

-----------------------------------------------------------------------------
(*****************************************************************************)
(* Properties.                                                               *)
(*****************************************************************************)

(* ARM shows the upper table's own entries in one section. *)
RecursiveWindow ==
  IF machine.arch = "aarch64" THEN {}
  ELSE RecursiveBase .. RecursiveBase + SectionSize - 1

Segment == (machine.virtual_base .. machine.virtual_base + SegmentSize - 1) \ RecursiveWindow

(* Between calls every page that the start code or a call mapped translates  *)
(* to what was meant, also after later calls that share its tables, and      *)
(* nothing else in the kernel segment is mapped.                             *)
MapsWhatWasAsked ==
  stack = <<>> =>
    \A va \in Segment : Translate(va) = {<<m[2], m[3]>> : m \in {n \in asked : n[1] = va}}

(* While a call is at work no address that is mapped loses its translation:  *)
(* the kernel, its stack and its vectors included, runs on these tables.     *)
NeverUnmapped == \A m \in asked : Translate(m[1]) = {<<m[2], m[3]>>}

(* The pages in use as tables, the bootstrap tables and those handed out. *)
InUse ==
  {t \in PagesStart .. AreaEnd - 1 : \E i \in Index : tables[t][i].type # "invalid"} \cup taken
    \cup (IF booted THEN LocalTables ELSE {})

Refs ==
  {<<t, i>> \in InUse \X Index :
     tables[t][i].type = "table" /\ tables[t][i].addr # t}   \* not the recursive entry

(* The tables form a tree over the pages that were handed out and no others: *)
(* the root is reached through no descriptor, any other table through one,   *)
(* and between calls no page that an allocator gave is lost.  A table is     *)
(* written through the linear map, in which it must be.                      *)
TablesFormATree ==
  LET Lower(r) == tables[r[1]][r[2]].addr
      handed == {PagesStart + BootstrapPages + b :
                   b \in 0 .. GetAllocMem(bitmap) - 1} \cup taken
  IN /\ \A r \in Refs : Lower(r) # Root
     /\ \A r, s \in Refs : Lower(r) = Lower(s) => r = s
     /\ stack = <<>> => {Lower(r) : r \in Refs} = InUse \ {Root} /\ handed \subseteq InUse
     /\ \A t \in InUse : Translate(machine.virtual_base + t) = {<<t, FALSE>>}

(* Once task::init ran, and through all later calls, a store to the address   *)
(* that the recursive mapping has for the task's table reaches that table,   *)
(* and the MMU reaches it too for the section of the task's core: what the   *)
(* start code, the layout of the areas and the linking of the table compute  *)
(* separately agrees.                                                        *)
LocalTableReached ==
  (booted /\ machine.arch = "arm") =>
    /\ WrittenAt(TableAddress(LocalBase)) = {machine.local_table}
    /\ \A i \in Index :
         Translate(LocalBase + i)
           = IF i < Len(local) THEN {<<local[i + 1], FALSE>>} ELSE {}

(* "Let an assert occur if we cannot allocate a table": a mapping call halts  *)
(* the kernel for no other reason; ranges that do not begin on a section get *)
(* page entries "until it is section-aligned".                               *)
HaltsOnlyWithoutPages == halted => NewTables = {}

(* A mapping call returns or halts the kernel.  (The code does not keep      *)
(* this: where the virtual address is not aligned to the entry of a level,   *)
(* but the rest of the size is a multiple of it, a turn of the loop of       *)
(* AArch64 fills nothing and the loop goes on for ever.)                     *)
CallReturns == stack # <<>> ~> stack = <<>> \/ halted

=============================================================================
