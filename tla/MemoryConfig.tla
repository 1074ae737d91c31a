----------------------------- MODULE MemoryConfig -----------------------------
(*****************************************************************************)
(* How boot turns the memory nodes of the device tree into the page          *)
(* allocators' memory: DtbMemoryScanner reads the nodes and the zone tagger  *)
(* fills the range set, trim_ranges and init_memory_config shape it,         *)
(* init_direct_map maps it, and mm::init_allocators carves the allocators'   *)
(* metadata out of it and gives each zone its slice of ranges.  Addresses    *)
(* are page numbers.                                                         *)
(*                                                                           *)
(* A node is its name, its properties in the order of the blob, and the      *)
(* words between them and the next node's name: what a turn of scan reads.   *)
(*****************************************************************************)
EXTENDS RangeSet, DtbReader, MetadataLayout

CONSTANTS
  Headers,            \* what the blob may begin with
  Nodes,              \* the nodes there may be
  MaxRegs,            \* bound on the (base, size) pairs of the device tree
  Machines,           \* the builds: HIGH_MEM_SIZE (0 when all memory is linear, AArch64), the
                      \* page database's range (of size 0 on AArch64), whether usize overflow
                      \* panics (dev profile) or wraps (release), and the number of values of
                      \* a word: a usize is one word on ARM and two on AArch64
  virtual_base,       \* base of the kernel segment
  kernel_end,         \* section-aligned end of the kernel
  kernel_base,        \* physical start of the kernel
  Blob                \* section-aligned range of the device tree blob

ASSUME MemoryAssumption ==
  /\ MaxRegs \in Nat
  /\ virtual_base \in 1 .. UMAX /\ kernel_end \in Nat
  /\ kernel_base \in 0 .. UMAX - virtual_base   \* the kernel is mapped above virtual_base
  /\ \A m \in Machines : /\ m.high_mem_size \in 0 .. UMAX - virtual_base
                         /\ m.page_database.base \in Nat /\ m.page_database.size \in Nat
                         /\ m.overflow_checks \in BOOLEAN
                         /\ UMAX + 1 \in {m.cell, m.cell * m.cell}
  /\ Blob.base \in Nat /\ Blob.size \in Nat
  /\ \A node \in Nodes : \A i \in DOMAIN node.props :
       node.props[i].name = "reg" => node.props[i].value \in Seq(Nat \X Nat)

VARIABLES
  machine,    \* the build, fixed
  phase,      \* the boot step under way
  addr_cells, size_cells,   \* of the root node, while its scanner is there
  step,       \* pairs read, index into the ranges, or index into the exclusions
  reported,   \* pages of the memory that was reported while the set had room
  config,     \* the memory configuration
  mapped,     \* pages in the direct map
  zones,      \* each zone's bounding range, its slice of ranges and its metadata's page
  meta        \* pages of the allocators' metadata

cells == <<addr_cells, size_cells>>
root_cells == [addr |-> addr_cells, size |-> size_cells]
NoCells == [addr |-> 0, size |-> 0]
vars == <<machine, phase, cells, step, reported, config, mapped, zones, meta>>

Zone == {"Linear", "High"}

Area(base, size) == [tag |-> "Invalid", base |-> base, size |-> size]

(* The pages of a sequence of ranges. *)
CoverAll(set) == UNION {Cover(r) : r \in ToSet(set)}

NoZone == [range |-> Area(0, 0), ranges |-> <<>>, metadata |-> 0]

Init ==
  /\ machine \in Machines
  /\ phase = "new" /\ step = 0 /\ addr_cells = 0 /\ size_cells = 0
  /\ reported = {} /\ config = <<>> /\ mapped = {} /\ meta = {}
  /\ zones = [z \in Zone |-> NoZone]

Panic ==
  /\ phase' = "panic"
  /\ UNCHANGED <<machine, cells, step, reported, config, mapped, zones, meta>>

(* get_high_mem_base; past every address on AArch64, which has no high zone. *)
high_mem_base ==
  IF machine.high_mem_size = 0 THEN UMAX + 1 ELSE UMAX - virtual_base - machine.high_mem_size + 1

(* RangeZoneTagger::handle_range: each side of the split into its zone. *)
HandleRange(set, base, size) ==
  LET parts == Split(Area(base, size), high_mem_base)
      InsertPart(to, part, zone) ==
        IF part = <<>> THEN to ELSE InsertRange(to, [part[1] EXCEPT !.tag = zone])
  IN InsertPart(InsertPart(set, parts.low, "Linear"), parts.high, "High")

(* The size of a pair, cut to what fits below usize::MAX. *)
ClampSize(base, size) ==
  LET room == IF base = 0 THEN UMAX ELSE UMAX - base + 1
  IN IF size < room THEN size ELSE room

(* What a node says, whatever the order of its properties: its cells, or the *)
(* root's, and its pairs.                                                    *)
Said(node, name, default) ==
  IF \E i \in DOMAIN node.props : node.props[i].name = name
  THEN node.props[CHOOSE i \in DOMAIN node.props : node.props[i].name = name].value ELSE default

CellsOf(node, root) == [addr |-> Said(node, "#address-cells", root.addr),
                        size |-> Said(node, "#size-cells", root.size)]

Pairs(node) == Said(node, "reg", <<>>)

(* The words of a property with so many cells and values of a cell, and of a *)
(* node from its name on; a reg property may have a word too many.           *)
PropertyWords(prop, count, cell) ==
  LET Cells(value, n) == [i \in 1 .. n |-> U32((value \div cell ^ (n - i)) % cell)]
      words == FlattenSeq([i \in DOMAIN prop.value |->
                             Cells(prop.value[i][1], count.addr) \o Cells(prop.value[i][2], count.size)])
  IN CASE prop.name = "nop" -> <<U32(FDT_NOOP)>>
       [] prop.name \in {"#address-cells", "#size-cells"} ->
            Property(prop.name, 4, <<U32(prop.value)>>)
       [] prop.name = "reg" -> Property(prop.name, 4 * Len(words), words)
       [] prop.name = "odd reg" -> Property("reg", 4 * prop.value, [i \in 1 .. prop.value |-> U32(1)])
       [] OTHER -> Property(prop.name, 3, <<Str(prop.value)>>)

NodeWords(node, count, cell) ==
  FlattenSeq([i \in DOMAIN node.props |-> PropertyWords(node.props[i], count, cell)])
    \o node.after

(* The values of a node's pairs fit their cells. *)
PairsFit(node, count, cell) ==
  \A i \in DOMAIN Pairs(node) :
    Pairs(node)[i][1] < cell ^ count.addr /\ Pairs(node)[i][2] < cell ^ count.size

(* The nodes that can come: the root first. *)
NextNodes ==
  {node \in Nodes :
     /\ IF node.name = "" THEN phase = "root"
        ELSE phase = "scan" /\ step + Len(Pairs(node)) <= MaxRegs
     /\ PairsFit(node, CellsOf(node, root_cells), machine.cell)}

(* The pages of a pair that a set with so many ranges can still take. *)
Reportable(base, size, used) ==
  CASE used >= SET_SIZE -> {}
    [] used = SET_SIZE - 1 /\ base < high_mem_base -> base .. Min({base + size, high_mem_base}) - 1
    [] OTHER -> base .. base + size - 1

Report(acc, pair) ==
  LET base == pair[1]
      size == ClampSize(base, pair[2])
      ranges == IF base < high_mem_base /\ base + size > high_mem_base THEN 2 ELSE 1
  IN IF base > UMAX \/ pair[2] = 0 THEN acc
     ELSE [pages |-> acc.pages \cup Reportable(base, size, acc.used), used |-> acc.used + ranges]

(* The pairs that a node says are memory, none when they have no cells, and  *)
(* the memory reported with them.                                            *)
MemorySaid(node, count) ==
  IF Said(node, "device_type", "none") = "memory" /\ count # NoCells THEN Pairs(node) ELSE <<>>

ReportPairs(pages, used, pairs) ==
  LET report[n \in 0 .. Len(pairs)] ==
        IF n = 0 THEN [pages |-> pages, used |-> used] ELSE Report(report[n - 1], pairs[n])
  IN report[Len(pairs)].pages

Reported(node) == ReportPairs(reported, Len(config), MemorySaid(node, CellsOf(node, root_cells)))

-----------------------------------------------------------------------------
(* A turn of the loop of add_memory_blocks: out of range and empty pairs are *)
(* skipped.                                                                  *)
AddMemoryBlock(set, pair) ==
  IF pair[1] > UMAX \/ pair[2] = 0 THEN set
  ELSE HandleRange(set, pair[1], ClampSize(pair[1], pair[2]))

(* The loop over the pairs. *)
AddMemoryBlocks(set, pairs) ==
  LET added[n \in 0 .. Len(pairs)] ==
        IF n = 0 THEN set ELSE AddMemoryBlock(added[n - 1], pairs[n])
  IN added[Len(pairs)]

(* The pairs that the loop gets, up to the end of the blob: the caller drops *)
(* its error, so that a reg property that is no sequence of pairs has none.  *)
RegPairs(dtb, reg, acells, scells, cell) ==
  LET pair_size == GetRegPairSize(acells, scells)
      Loc(i) == reg.loc + (i - 1) * (acells + scells)
      there == {i \in 1 .. reg.size \div pair_size : HasRegPair(dtb, Loc(i), acells, scells)}
      Pair(i) == GetRegPair(dtb, Loc(i), acells, scells, cell)
  IN IF pair_size = 0 \/ reg.size = 0 \/ reg.size < pair_size \/ reg.size % pair_size # 0 THEN <<>>
     ELSE [i \in 1 .. Cardinality(there) |-> <<Pair(i).addr, Pair(i).size>>]

(* A turn of the loops of scan_root_node and scan_device_node over the       *)
(* properties: cells are read, the positions of device_type and reg kept.    *)
ReadProperty(dtb, st) ==
  LET header == GetNextProperty(dtb, st.loc)
      loc == header.loc
      skipped == [st EXCEPT !.loc = SkipAndAlign(dtb, loc, header.size)]
  IN CASE ~st.ok \/ ~header.found -> st
       [] header.name \in {"#address-cells", "#size-cells"} /\ ~HasU32(dtb, loc) ->
            [st EXCEPT !.ok = FALSE]
       [] header.name = "#address-cells" ->
            [st EXCEPT !.loc = loc + 1, !.addr_cells = GetU32(dtb, loc)]
       [] header.name = "#size-cells" ->
            [st EXCEPT !.loc = loc + 1, !.size_cells = GetU32(dtb, loc)]
       [] header.name = "device_type" -> [skipped EXCEPT !.dev_type = loc]
       [] header.name = "reg" -> [skipped EXCEPT !.reg = [loc |-> loc, size |-> header.size]]
       [] OTHER -> skipped

ReadNode(dtb, root) ==
  FoldLeft(LAMBDA st, word : ReadProperty(dtb, st),
           [loc |-> 1, ok |-> TRUE, addr_cells |-> root.addr, size_cells |-> root.size,
            dev_type |-> 0, reg |-> [loc |-> 0, size |-> 0]],
           PropertyMarkers(dtb))

(* check_device_type. *)
IsMemory(dtb, read) ==
  read.dev_type # 0 /\ HasU32(dtb, read.dev_type) /\ GetString(dtb, read.dev_type) = "memory"

(* The pairs of a node that scan_device_node has read, if it is memory. *)
MemoryRead(dtb, read, cell) ==
  IF IsMemory(dtb, read) /\ read.reg.loc # 0
  THEN RegPairs(dtb, read.reg, read.addr_cells, read.size_cells, cell) ELSE <<>>

(* What scan_root_node reads, from a scanner that has no cells yet. *)
RootRead(node, cell) == ReadNode(NodeWords(node, NoCells, cell), NoCells)

(* The cells that a root node can give, ... *)
RootCells(cell) ==
  {NoCells} \cup {[addr |-> RootRead(node, cell).addr_cells, size |-> RootRead(node, cell).size_cells] :
                    node \in {n \in Nodes : n.name = ""}}

(* ... and the reader's part, which TLC checks for the nodes of a model: the *)
(* pairs it finds in the words of a node are those the node says.            *)
ASSUME ReaderAssumption ==
  \A m \in Machines : \A root \in RootCells(m.cell) : \A node \in Nodes :
    LET dtb == NodeWords(node, CellsOf(node, root), m.cell)
        read == ReadNode(dtb, root)
    IN node.name # "" /\ PairsFit(node, CellsOf(node, root), m.cell) /\ read.ok =>
         MemoryRead(dtb, read, m.cell) = MemorySaid(node, CellsOf(node, root))

(* Where a turn of scan leads: the scanner goes when the tree ends, and the  *)
(* callers of get_memory_layout assert that it returns true.                 *)
AfterNode(dtb, ok, acells, scells) ==
  LET next == ScanToNextNode(dtb, 1)
  IN /\ phase' = CASE ok /\ next = "node" -> "scan"
                   [] ok /\ next = "end" -> "trim"
                   [] OTHER -> "panic"
     /\ addr_cells' = IF phase' = "scan" THEN acells ELSE 0
     /\ size_cells' = IF phase' = "scan" THEN scells ELSE 0

(* get_memory_layout up to the scan. *)
NewReader(header) ==
  /\ phase = "new"
  /\ phase' = IF ReaderNew(header) THEN "root" ELSE "panic"
  /\ UNCHANGED <<machine, cells, step, reported, config, mapped, zones, meta>>

(* A turn of scan with scan_root_node ... *)
ScanRootNode(node) ==
  LET dtb == NodeWords(node, NoCells, machine.cell)
      read == RootRead(node, machine.cell)
  IN /\ phase = "root" /\ node.name = ""
     /\ AfterNode(dtb, read.ok, read.addr_cells, read.size_cells)
     /\ step' = IF phase' = "trim" THEN 1 ELSE step
     /\ UNCHANGED <<machine, reported, config, mapped, zones, meta>>

(* ... and with scan_device_node. *)
ScanDeviceNode(node) ==
  LET dtb == NodeWords(node, CellsOf(node, root_cells), machine.cell)
      read == ReadNode(dtb, root_cells)
      count == step + Len(Pairs(node))
  IN /\ phase = "scan" /\ node.name # ""
     /\ AfterNode(dtb, read.ok, addr_cells, size_cells)
     /\ config' = IF read.ok THEN AddMemoryBlocks(config, MemoryRead(dtb, read, machine.cell)) ELSE config
     /\ reported' = Reported(node)
     /\ step' = IF phase' = "trim" THEN 1 ELSE count
     /\ UNCHANGED <<machine, mapped, zones, meta>>

Overlap(i) == Cmp(config[i], config[i + 1]) \notin {"Less", "Greater"}

(* trim_overlapping_ranges moves on ... *)
TrimAdvance ==
  /\ phase = "trim" /\ step < Len(config)
  /\ ~Overlap(step)
  /\ step' = step + 1
  /\ UNCHANGED <<machine, cells, phase, reported, config, mapped, zones, meta>>

(* ... or merges two ranges and compares at the same index again. *)
TrimMerge ==
  /\ phase = "trim" /\ step < Len(config)
  /\ Overlap(step) /\ ~(machine.overflow_checks /\ TrimOverflows(config, step))
  /\ config' = TrimStep(config, step)
  /\ UNCHANGED <<machine, cells, phase, step, reported, mapped, zones, meta>>

TrimPanic ==
  /\ phase = "trim" /\ step < Len(config)
  /\ machine.overflow_checks /\ TrimOverflows(config, step)
  /\ Panic

(* The end of get_memory_layout, which the caller asserts found memory. *)
TrimDone ==
  /\ phase = "trim" /\ step >= Len(config) /\ config # <<>>
  /\ config' = TrimEmptyRanges(config)
  /\ phase' = "exclude" /\ step' = 1
  /\ UNCHANGED <<machine, cells, reported, mapped, zones, meta>>

NoMemory == phase = "trim" /\ config = <<>> /\ Panic

(* The areas init_memory_config excludes, in its order. *)
Exclusions ==
  <<machine.page_database, Area(virtual_base, UMAX - virtual_base + 1), Area(0, kernel_end), Blob>>

ExcludePanics(e) ==
  \/ ExcludeFull(config, e)
  \/ machine.overflow_checks /\ \E r \in ToSet(config) : ExcludeOverflows(r, e)

ExcludeNext ==
  /\ phase = "exclude" /\ step <= Len(Exclusions)
  /\ ~ExcludePanics(Exclusions[step])
  /\ config' = ExcludeRange(config, Exclusions[step])
  /\ step' = step + 1
  /\ UNCHANGED <<machine, cells, phase, reported, mapped, zones, meta>>

ExcludePanic ==
  phase = "exclude" /\ step <= Len(Exclusions) /\ ExcludePanics(Exclusions[step]) /\ Panic

(* Mutant: the page at high_mem_base is left out with the one below it. *)
LinearPartShort(r) ==
  {p \in ToSet(Exclude(r, Area(high_mem_base - 1, UMAX - high_mem_base + 2))) :
     p.base < high_mem_base - 1}

(* init_direct_map: the part of a range below high memory. *)
LinearPart(r) ==
  IF machine.high_mem_size = 0 THEN {r}
  ELSE {p \in ToSet(Exclude(r, Area(high_mem_base, UMAX - high_mem_base + 1))) :
          p.base < high_mem_base}

InitDirectMap ==
  /\ phase = "exclude" /\ step > Len(Exclusions)
  /\ mapped' = UNION {Cover(p) : p \in UNION {LinearPart(r) : r \in ToSet(config)}}
  /\ phase' = "zones"
  /\ UNCHANGED <<machine, cells, step, reported, config, zones, meta>>

(* init_zone_info: indices and bounding range of the ranges of a zone. *)
ZoneIndices(z) == {i \in DOMAIN config : config[i].tag = z}

BoundingRange(z) ==
  IF ZoneIndices(z) = {} THEN Area(0, 0)
  ELSE LET first == config[Min(ZoneIndices(z))]
           last == config[Max(ZoneIndices(z))]
       IN [first EXCEPT !.size = End(last) - first.base + 1]

(* The zones' metadata, rounded up to pages. *)
MetaSize(z) == MetadataPages(BoundingRange(z).size)

MetaTotal == MetaSize("Linear") + MetaSize("High")

(* A linear range has room for all metadata and something is left of it. *)
HoldsMetadata(r) == r.tag = "Linear" /\ MetaTotal < r.size

MetaHosts == {i \in DOMAIN config : HoldsMetadata(config[i])}

(* Mutant: one page below the end of the range. *)
MetaBaseShort == IF MetaHosts = {} THEN 0 ELSE End(config[Min(MetaHosts)]) - MetaTotal

(* init_allocator_memory_config: the end of the first range that is large    *)
(* enough; 0 when there is none.                                             *)
MetaBase == IF MetaHosts = {} THEN 0 ELSE End(config[Min(MetaHosts)]) - MetaTotal + 1

(* init_allocators: the metadata of a zone that has memory comes after that  *)
(* of the zones before it.                                                   *)
ZoneMetadata(z) ==
  MetaBase + (IF z = "High" /\ ZoneIndices("Linear") # {} THEN MetaSize("Linear") ELSE 0)

AllocConfig == ExcludeRange(config, Area(MetaBase, MetaTotal))

(* get_maximum_physical_address, "the bitwise negation of the kernel's base  *)
(* physical address".                                                        *)
max_physical == UMAX - kernel_base

(* BuddyPageAllocator::new: the metadata covers the bounding range, and the  *)
(* ranges are those at the indices a zone has in the configuration.          *)
NewAllocator(z) ==
  [range |-> BoundingRange(z), metadata |-> ZoneMetadata(z),
   ranges |-> SubSeq(AllocConfig, Min(ZoneIndices(z)), Min({Max(ZoneIndices(z)), Len(AllocConfig)}))]

(* The slice is out of bounds, or new returns None. *)
AllocatorPanics(z) ==
  LET new == NewAllocator(z)
  IN \/ Max(ZoneIndices(z)) > Len(AllocConfig)
     \/ End(new.range) > max_physical
     \/ \E r \in ToSet(new.ranges) : r.base < new.range.base \/ End(r) > End(new.range)

MetadataPanics == MetaBase = 0 \/ ExcludePanics(Area(MetaBase, MetaTotal))

Served == {z \in Zone : ZoneIndices(z) # {}}

InitAllocators ==
  /\ phase = "zones" /\ ~MetadataPanics /\ \A z \in Served : ~AllocatorPanics(z)
  /\ meta' = Cover(Area(MetaBase, MetaTotal))
  /\ zones' = [z \in Zone |-> IF z \in Served THEN NewAllocator(z) ELSE NoZone]
  /\ phase' = "done"
  /\ UNCHANGED <<machine, cells, step, reported, config, mapped>>

AllocatorsPanic ==
  /\ phase = "zones"
  /\ MetadataPanics \/ \E z \in Served : AllocatorPanics(z)
  /\ Panic

(* Boot goes on elsewhere, or the kernel has halted. *)
Rest == phase \in {"done", "panic"} /\ UNCHANGED vars

Next ==
  \/ \E header \in Headers : NewReader(header)
  \/ \E node \in NextNodes : ScanRootNode(node) \/ ScanDeviceNode(node)
  \/ TrimAdvance \/ TrimMerge \/ TrimPanic \/ TrimDone \/ NoMemory
  \/ ExcludeNext \/ ExcludePanic
  \/ InitDirectMap \/ InitAllocators \/ AllocatorsPanic
  \/ Rest

Spec == Init /\ [][Next]_vars
FairSpec == Spec /\ WF_vars(Next)

-----------------------------------------------------------------------------
(*****************************************************************************)
(* Properties.                                                               *)
(*****************************************************************************)

(* Memory the kernel must not hand out: the areas of init_memory_config. *)
Reserved == CoverAll(Exclusions)

(* The ranges stay sorted by base, and once trimmed they are disjoint, not   *)
(* empty, and linear ranges come before high ones: the start and end indices *)
(* of init_zone_info denote the ranges of one zone only then.                *)
RangesOrdered ==
  /\ \A i, j \in DOMAIN config : i < j => config[i].base <= config[j].base
  /\ phase \in {"exclude", "zones", "done"} =>
       /\ \A i, j \in DOMAIN config : i < j => End(config[i]) < config[j].base
       /\ \A r \in ToSet(config) : r.size > 0 /\ (r.tag = "Linear" <=> r.base < high_mem_base)

(* Whatever trim_ranges and exclude_range do, the configuration holds the    *)
(* reported memory without the areas excluded so far: no page is lost by a   *)
(* merge or a split and no reserved page survives its exclusion.             *)
MemoryExact ==
  LET gone == IF phase = "exclude" THEN CoverAll(SubSeq(Exclusions, 1, step - 1)) ELSE Reserved
  IN CASE phase \in {"new", "root", "scan", "trim"} -> CoverAll(config) = reported
       [] phase = "panic" -> TRUE
       [] OTHER -> CoverAll(config) = reported \ gone

(* After init_allocators each zone serves ranges of its own kind only, no    *)
(* page is served twice, and the zones and the metadata together are the     *)
(* memory that is not reserved: the indices taken before the metadata was    *)
(* excluded still denote the same ranges after it, and new accepts them.     *)
ZonesServeTheirMemory ==
  /\ phase = "zones" /\ ~MetadataPanics => \A z \in Served : ~AllocatorPanics(z)
  /\ phase = "done" =>
       /\ \A z \in Zone : \A r \in ToSet(zones[z].ranges) :
            r.tag = z /\ Cover(r) \subseteq Cover(zones[z].range)
       /\ CoverAll(zones["Linear"].ranges) \cap CoverAll(zones["High"].ranges) = {}
       /\ CoverAll(zones["Linear"].ranges) \cup CoverAll(zones["High"].ranges) =
            (reported \ Reserved) \ meta

(* The bit of a pair, as a word of memory and a bit of it, for a block that  *)
(* the allocator of a zone can have: aligned, in one of its ranges.          *)
PairFlag(z, page, level) ==
  LET at == GetFlagIndexAndBit(zones[z].range.size, page - zones[z].range.base, level)
  IN <<zones[z].metadata * PAGE_WORDS + at[1], at[2]>>

Blocks(z) ==
  UNION {{b \in Cover(r) \X Level : b[1] % 2 ^ b[2] = 0 /\ b[1] + 2 ^ b[2] - 1 <= End(r)} :
           r \in ToSet(zones[z].ranges)}

(* Whatever the sizes and bases of the zones, the bit of each of their       *)
(* blocks lies in the memory set aside as metadata, and only the two blocks  *)
(* of a pair share a bit: not two levels, and not the two allocators, each   *)
(* behind a lock of its own.                                                 *)
PairFlagsApart ==
  phase = "done" =>
    LET flags(z) == {[z |-> z, level |-> b[2], flag |-> PairFlag(z, b[1], b[2]),
                      pair |-> (b[1] - zones[z].range.base) \div 2 ^ (b[2] + 1)] : b \in Blocks(z)}
        all == flags("Linear") \cup flags("High")
    IN /\ \A f \in all : f.flag[1] \div PAGE_WORDS \in meta
       /\ Cardinality({f.flag : f \in all}) = Cardinality(all)

(* The direct map covers the metadata and all that the linear zone serves,   *)
(* and no high memory: both are used through virtual_base + address.         *)
LinearMemoryMapped ==
  phase = "done" =>
    /\ meta \subseteq mapped
    /\ CoverAll(zones["Linear"].ranges) \subseteq mapped
    /\ CoverAll(zones["High"].ranges) \cap mapped = {}

(* What boot does with overlapping memory nodes: trim_ranges "combines       *)
(* ranges as necessary to ensure ranges do not overlap", so boot goes on.    *)
TrimReturns == phase = "trim" ~> phase # "trim"

(* exclude "handles returning None if the overlap results in empty ranges":  *)
(* an exclusion whose result fits the set does not fail for lack of room.    *)
RoomForResult ==
  phase = "exclude" /\ step <= Len(Exclusions) =>
    (Len(ExcludeRange(config, Exclusions[step])) <= SET_SIZE => ~ExcludeFull(config, Exclusions[step]))

(* "excludes any physical memory beyond the virtual base address": memory    *)
(* that reaches the last address is excluded like any other.                 *)
TopOfMemoryExcluded ==
  [][phase = "exclude" /\ ~ExcludeFull(config, Exclusions[step]) => phase' # "panic"]_vars

=============================================================================
