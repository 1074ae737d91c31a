# A verification project for the Propeller kernel

TLA+ models of the Propeller kernel (Rust and assembly, ARM and AArch64), the
TLC configurations that check them on small instances, and TLAPS proofs of the
results that matter most. `PROJECT.json` lists every run, the source lines each
definition stands for, the mutants that show each property can fail, the
hazards the properties are aimed at, and the theorems. Paths are relative to
the directory that holds the repository as `src/`.

Run a check with `tlc -workers 2 -config <cfg> <module>`, a proof with
`tlapm <module>.tla`.

## 1. The system

Propeller is an early-stage kernel. Boot code in assembly starts one core, makes
first translation tables and calls `pk_init` (`src/src/main.rs`). The
architecture layer reads cores and memory from the device tree, maps linear
memory and stacks; the memory manager builds page allocators for the memory
zones, and slab allocators on top of them; a bootstrap task can map high memory
for itself. There is no scheduler, no context switch and no device driver yet,
and only the primary core runs; locks and per-core caches are written for
several cores, and are modelled with several.

| Component | State it keeps | Operations | Correct when |
|---|---|---|---|
| Buddy page allocator (`mm/page_allocator.rs`) | list heads, nodes inside free pages, pair bits, counters | `new`, `allocate`, `free` | a page has one owner; blocks are aligned and inside the given ranges; pairs merge; no page drops out |
| Spin lock (`sync/spin_lock.rs`, `start/spin_lock.s`) | lock word, exclusive monitor, event register | `lock`, `try_lock`, drop of the guard | one holder; no core sleeps on a free lock |
| Slab manager (`mm/slab_allocator.rs`) | three rings of slabs, free chains, statistics | `alloc`, `free`, `free_unused` | a slab is on the list its contents say; an object has one owner |
| Bundles and core caches (same file) | two bundles per core, lists of empty and full bundles | `alloc_internal`, `free_internal`, exchanges | objects and bundles are in one place, for every interleaving of cores |
| Ranges, range sets (`support/range*.rs`) | bounded sorted array | `insert_range`, `exclude_range`, `trim_ranges`, `split` | no address lost or gained |
| Memory layout, zones (`arch/*/mod.rs`, `mm/mod.rs`, `dtb_memory.rs`) | memory configuration, zones, metadata | device tree scan, exclusions, direct map, `init_allocators` | zones, metadata and reserved areas partition memory; linear memory is mapped |
| Page tables (`arch/*/mm.rs`, `start/mm.s`) | tables the MMU walks | the start code's tables, `direct_map_memory`, `map_memory`, `map_thread_local_table` | an address translates as asked, also during later calls; tables form a tree |
| Hash map (`support/hash_map.rs`) | open table, quadratic probing | `insert`, `find`, `erase`, `clear` | a key that was inserted is found |
| Core configuration (`common/cpu.rs`, `dtb_cpu.rs`) | core list, ID map | node scan, `add_core` | list and map agree, primary at index 0 |
| ISR stacks (`arch/*/mod.rs`, `start/*.s`) | stack area, stack list | primary setup, `init_isr_stacks` | stacks apart, guard pages, own list entry |
| Task mappings (`arch/arm/task.rs`, `task/mod.rs`) | mapping stack, local table, TLB, affinity | `map_page`, `unmap_page`, affinity | a mapped page is reached, an unmapped one is not; a pinned task stays |
| Boot page allocator, bitmaps (`common/memory.rs`, `bits.rs`) | bitmap | `new`, `alloc`, `set_bit`, `first_zero`, `ones` | a page is handed out once, behind the tables in use |
| Device tree reader (`support/dtb.rs`) | cursor | header check, properties, cells, `scan` | its users find what the tree says, whatever the order of properties |
| Debug output, exceptions, tests | - | - | not modelled (section 8) |

Interactions: the slab managers allocate slabs from the page allocator, each
under its own spin lock; core caches exchange bundles with a bundle manager,
itself backed by slab managers; boot passes ranges from the memory
configuration to the zones' page allocators; the ISR stacks use the indices of
the core configuration, whose ID map is the hash map; page tables begin as the
start code's, take pages from the boot page allocator and later from the linear
zone, and hold the bootstrap task's table, which the task edits through the
recursive mapping; cores and memory are both found by the device tree reader.

What is hard here, and what the properties are for: intrusive lists inside
memory that clients overwrite; splits and merges across calls; cores that meet
between two lock sections; lost wake-ups; tables that are changed while the MMU
walks them and the TLB caches them; arithmetic at the ends of ranges, levels
and tables; tables and sets that run full. The `hazards` of `PROJECT.json` list
these by source line.

## 2. Modules

Core: `PageAllocator` (abstract contract of the trait), `BuddyPageAllocator`
(implementation), `BuddyAligned` (the alignment that the proofs suppose and the
inductive invariants), `BuddyProofs`. `Mutex` (abstract), `SpinLock`, `SpinLockProofs`.
`ObjectPool` (abstract), `SlabManager`, `SlabManagerProofs`, `SlabAllocator`
(composes core caches, bundle manager and slab layer; the slab managers below
are used as what `ObjectPool` promises), `SlabAllocatorProofs`. `DtbReader` (operators
on the words of a blob, used by the two scanners). `Range`, `RangeSet`
(operators), `MetadataLayout` (where the pair bits lie), `MemoryConfig`
(composes them into the boot pipeline), `MemoryProofs`. `TranslationTable`
(descriptors and levels), `BootTables` (what the start code builds), `Bitmap`
and `BufferedPageAllocator`, and `PageTable`, which composes these four with
the mapping calls and the bootstrap task's table. `HashTable` (operators),
`HashMap`, `CoreConfig` (uses `HashTable` and `DtbReader`), `IsrStacks`
(extends `CoreConfig`: the stacks are those of the cores that were found), and
`CoreProofs`, about these and the boot page allocator. `TaskMapping`, `TaskMappingProofs`. `Induction` has what several of the proofs
need: induction over the natural numbers for a set of them, finite chains of
links, and what a loop computes, as a function of the number of its turns. `MC*` modules give constants values for TLC.

How state and actions correspond to the code:

* **BuddyPageAllocator.** Addresses are page numbers. `head`, `node`, `flags`,
  `alloc_mem`, `free_mem` are the allocator's fields and the `BlockNode`s in
  free pages; `op` is the call under way and `todo` the rest of
  `init_metadata`. One loop turn of a call is one action (`InitBlock`,
  `AllocateSplit`, `FreeCoalesce`, ...), each including the whole
  `add_to_list`/`remove_from_list` it makes, their checksum and sanity
  assertions included (`panic`). `ClientWrite` lets owners overwrite their
  pages, nodes included. `listed`, `served` are history. Allocator calls are
  serialised by their spin lock, so one call is under way at a time.
* **SpinLock.** One action per instruction of the two `spin_lock.s`, with each
  core's exclusive monitor and event register. `Interrupt` is an exception
  return, which clears the monitor and sets the event register; the number of
  exceptions per core is bounded by `MaxInterrupts`. `arch` is chosen in `Init`.
* **SlabManager.** Slabs, nodes in slabs, object chains. `free_unused` is one
  step a slab, because another client of the page allocator (`OtherAlloc`,
  `OtherFree`) takes that allocator's lock in between.
* **SlabAllocator.** A step runs up to the release of a lock; interrupts are
  masked during a call, so a core's cache is its own. `owners` counts clients
  per object. `aliased` records that an exchange left a cache with a bundle it
  had given to the manager.
* **DtbReader.** A blob is a sequence of words, a cursor an index into it; a
  string with its padding is one word. Loops over noops and properties are
  operators, so a scanner's handler of a node is one step.
* **MemoryConfig.** One action per device tree node, per turn of
  `trim_overlapping_ranges`, per exclusion, then the direct map and
  `init_allocators`. `machine` is the build: ARM with a high zone or AArch64
  without, overflow checks on or off, and the values of a cell. `reported` is
  history: the memory that the tree describes and there was room for.
* **PageTable.** `Init` is the result of the start code (`BootstrapTables`) on
  an image of either architecture. The recursion of `fill_table` is a stack of
  frames, one turn of a loop a step; pages from the zone have stale contents.
  `TaskInit` ends `arch::init`, and with it the boot page allocator, and links
  the task's table; `MapLocal` and `UnmapLocal` write to the page that the MMU
  finds at the table's address in the recursive window. `asked` is history.
  `machine` is ARM (three levels, 3/1 split) or AArch64 (four levels).
* **HashTable/HashMap.** Probing by the code's formula for any hash function;
  `dict` is history.
* **CoreConfig/IsrStacks.** One action per node of the tree, read with the
  cursor of `DtbReader`. Boot sets up the primary core's stacks, finds the
  cores, then maps a stack a step.
* **TaskMapping.** The stack of mappings, the task's table, a TLB that may fill
  from the table at any time, pin and affinity.

Panics halt the kernel: the state stays as it is.

## 3. Runs

All passing runs finish within two minutes; state counts are distinct states.

| Run | Bounds | Checks | States |
|---|---|---|---|
| `buddy` | 12 pages, 3 levels, 4 layouts (three blocks, two, a hole, odd pages) | `TypeOK`, one owner per page, rings, pair bits, merging, checksums, counters, pages lost only in whole top pairs; implements `PageAllocator` | 40,150 |
| `spin` | 3 cores, both architectures, 1 exception per core | `NoLostWakeup`; implements `Mutex`; waiters are served | 43,098 |
| `slab` | 3 slabs of 3 objects, another client of the pages | rings, free chains, assertions, statistics, ownership; implements `ObjectPool`; `free_unused` gives back all it should | 135,204 |
| `slab_cache` | 2 cores, 4 bundles of 1, 3 objects | objects and bundles in one place (until an exchange aliases a bundle), indices in bounds (always); a slab manager may find no page at any call | 921,968 |
| `memory` | 64 pages of address space, a root node and up to 3 regs from 8 bases and 7 sizes, set of 4 ranges, 3 block levels, words of 4 bits, both builds | order, exactness, zones, direct map, pair bits apart | 88,885 |
| `page_table` | up to 4 calls, 2 local mappings; segment of 256 pages; ARM with 16-entry tables, 2 boot and 2 zone pages for tables, AArch64 with 4-entry tables, 2 and 3 | translations, no unmapping during a call, tree, task's table reached | 70,066 |
| `hash_map` | 5 slots, 4 keys, 2 values, all hash functions into 2 values | keys found; failure only when half full | 167,584 |
| `cores` | blobs of up to 4 nodes from some 40, 4 core IDs of one or two cells, room for 3 cores, a map of 3 slots, all hash functions into 2 values, stacks of 1 and 2 pages | index map, cores listed, description, stacks apart, stack list | 428,096 |
| `task_map` | table of 3, 4 pages (2 high), up to 5 mappings, 2 cores | translation, pinning | 12,740 |
| `buddy_head` | as `buddy` | **violated**: `HeadReachesList` | |
| `buddy_section` | 6 pages from a section-aligned base | **violated**: `AllocationsDisjoint` | |
| `slab_unique` | 1 core, 4 bundles, 3 objects | **violated**: `UniqueOwners` | |

Why the bounds are enough. Three levels have a lowest, a middle and a largest
one, and 12 pages have three largest blocks, so that rings of one, two and more
blocks, a pair whose buddy is outside the area and chains of merges all occur.
Three cores give a holder, a waiter and a third that takes the lock in between.
Three slabs of three objects put a slab on each list, with first, middle and
last objects. A bundle of one object is full and empty at once between two
calls, so each exchange is reached with three objects. The memory cells include
empty ones, ones past the address space, overlapping and adjacent ones, and a
range set so small that it fills while ranges are inserted and while exclusions
split them. Two colliding hash values for four keys in five slots make every
probe sequence overlap. In the `cores` run three slots for three cores and two
hash values make inserts fail, whose result `add_core` ignores. Device trees
include nodes in any order, properties before and after those they depend on, values whose words read as markers, and
blobs that break off at each place the reader tests. The page table run uses
the calls that boot makes (linear memory between and behind kernel and blob, a
device, stacks in the section of the primary core's and below it), with fewer
table pages than they need; other
calls, on which the code goes wrong, are in section 6. The task's bound of five
mappings passes the end of its table of three.

Deadlock is checked in every run: halting and having finished boot are
stuttering steps of their own.

## 4. Fairness

* `spin`: weak fairness of each core's `Step` (the next instruction of a core
  that is inside `lock`, `try_lock` or `unlock`, and the end of a critical
  section: a guard is dropped). A core that has not asked need not ask. What is
  shown is that a core does not sleep for ever while the lock is free for the
  taking; starvation by other cores, which the code does not exclude, is not
  claimed otherwise.

No other run states liveness. The calls of the page and slab allocators are
bounded loops; two loops of boot that may not end are in section 6
(`TrimReturns`, `CallReturns`), under the `FairSpec` of their modules: weak
fairness of the steps of single-threaded boot code.

## 5. What is proved

TLAPS proves, for all values of the constants that satisfy the assumptions:

* **Buddy allocator** (`BuddyProofs`, from `AreaAssumption`, `LayoutAssumption`
  and `PowersOfTwo`, and under the hypothesis `BaseAligned`): `TypeCorrect`,
  `PagesOwnedOnce`, `ListsAreRings`, `FlagsTrackLists`, `NoChecksumPanic`,
  `CountersExact`, `BuddiesMerge`, `LossesAreTopPairs`, and `Implements`, the
  refinement of `PageAllocator`. Each theorem states `BaseAligned`, that the area
  begins on a boundary of the largest block. The code does not ensure it: boot
  aligns the base on a section (`arch/arm/mod.rs:526`), and `buddy_section` shows
  what happens on such a base. None of
  the first five properties is inductive alone: a merge is safe only if the pair
  bit is right, the bit is right only if the lists hold aligned blocks, the lists
  stay disjoint only if the block of the call under way and the ranges still to
  be added are disjoint from them. The inductive invariant `IInv` (in
  `BuddyAligned`) is the conjunction of these with what `op` and `todo` say. It
  rests on lemmas about buddies, pairs, halves and spans. `PowersOfTwo` states two
  facts of exponentiation that the provers do not know.

  `CountersExact` adds `Ledger`: the counters move when a call ends, so while
  `free` runs the block it was given still counts as allocated. That the sizes
  `new` adds up are the pages of disjoint ranges is an induction over the list
  of ranges.

  `BuddiesMerge` has the hypothesis `RangesApart`, that no range begins where
  another ends, and adds `TodoApart`. During construction there may be a free
  block just below the rest of a range; it has no buddy there because
  `init_metadata` took the largest block that fits. Without the hypothesis the
  property is false: ranges are added one at a time, and two that meet can leave
  two buddies on a list. The documentation of `new` draws its ranges with gaps
  (`page_allocator.rs:90`), but `trim_ranges` joins only ranges that overlap, so
  adjacent memory banks reach the allocator as two ranges. Nothing is then owned
  twice (`PagesOwnedOnce` does not need the hypothesis); a larger block is not
  formed until one of the two is allocated and freed.

  `LossesAreTopPairs` follows the pages that are nowhere (`Lost`) through every
  step: only the step that ends `free` beyond the last level changes them. It
  needs `EndsWithPair`, that the block of such a call is then a pair of largest
  blocks, which the merge before it made.
* **Spin lock** (`SpinLockProofs`, from `InterruptAssumption`): `LockInvariance`, `WakeupsKept`,
  `SpinLockIsMutex` (refinement of `Mutex`), for any set of cores, both
  architectures and any number of exceptions. The strengthening says that the
  word is 1 exactly while a core holds the guard, that a core whose exclusive
  store would succeed has seen 0 with no store since, and that on AArch64 a
  core without a pending event still watches the word.
* **Memory layout** (`MemoryProofs`, from `UmaxAssumption`, `SetSizeAssumption`,
  `LayoutAssumption`, `MemoryAssumption` and `ReaderAssumption`):
  `RangesOrderedHolds`, `MemoryExactHolds`, `ZonesServeTheirMemoryHolds`,
  `LinearMemoryMappedHolds` and `PairFlagsApartHold`, for every machine, every
  set of device tree nodes in any order, any size of the address space and of
  the range set, and any numbers of block levels, word bits and page words.
  Under them are `ExcludeExact` and `SplitExact`: what `exclude` and `split`
  leave is exactly the right set of addresses.

  The inductive invariant `MemoryInv` follows the pipeline by phase. In every
  phase the set is sorted and each range lies on its zone's side of
  `high_mem_base`; its pages are those reported less the areas excluded so far.
  While `trim_overlapping_ranges` runs, each range before the index it compares
  at ends below all ranges behind it, and the last range may be in the set
  twice; without the index, disjointness is not inductive, because a merge at one
  place says nothing of the pairs behind it. The loop ends only with the index at
  the last range, so then all ranges are apart and there is no second copy from
  which an exclusion would have to be cut as well.
  Once the ranges are apart, they are linear before high, so the first and
  last index of each zone that `init_zone_info` takes denote one zone, also after
  the metadata has been cut out of the first (`ZonesServeTheirMemory`,
  `LinearMemoryMapped`). `PairFlagsApart` is arithmetic on `MetadataLayout`: the
  words of one level end where those of the next begin, a zone's words end where
  the next zone's begin, and the last ends inside the metadata.

  `ReaderAssumption` says that reading the words of a node gives the regs the
  node was written with. It is a statement about the constants (the nodes of the
  tree), and TLC evaluates it on all the nodes of the `memory` run; the theorems
  start from there.
* **Task mappings** (`TaskMappingProofs`, from `TaskAssumption`): `TaskInvariance`,
  `MappedPagesReached`, `StaysPinned`. The invariant relates table, TLB and
  stack entry by entry, and pin and stack.
* **Slab manager** (`SlabManagerProofs`, from `SlabAssumption`): `SlabsAreOwned`,
  `AssertionsAlwaysHold`, `StatisticsExact`, `ChainsExact`, `ListsAreExact`,
  `FreeUnusedFreesAll` (an action property) and `RefinesObjectPool`, for any
  number of slabs and objects per slab. The invariant `IInv` says that each list is
  one ring (links match both ways, and a set that holds the head and the
  successor of each member is the whole list) and that each slab's free objects
  form a chain, an enumeration without repetition along the links. While
  `free_unused` is between two slabs the first unused slab has no valid node; the
  invariant then says which slabs remain and that the walk from where it is
  meets each of them, which is what `FreesAllUnused` needs. Walks (`Ring`, `Chain`) are recursive functions, and what they compute
  follows by induction from the chains.
* **Core caches** (`SlabAllocatorProofs`, from `BundleAssumption` and
  `AddressAssumption`): `IndexesAreSafe`, `BundlesHaveOneOwner`,
  `ObjectsAreConserved`, for any set of cores, bundles and objects. The
  invariant has a chain for each of the manager's two lists, with the link of
  every other bundle poisoned, and places every object by slot: held slots of
  bundles, clients, the slab layer and the calls between two lock sections
  exclude each other. The last two theorems hold until `aliased`; `slab_unique` shows why. `AddressAssumption` says that
  nothing lies at the null address, that no bundle lies at the poison pattern,
  and that there are finitely many bundles.
* **Hash map** (`CoreProofs`, from `TableAssumption`):
  `InsertedAreFound`, for any table size and any hash function, and
  `InsertFailsHalfFull`, for a table of prime size, as the map's documentation
  asks for. The first is inductive with one addition: of the slots that a key's
  probe sequence visits, the first that holds the key holds its newest value.
  The second is a fact about quadratic probing: the first (N + 1) / 2 probes are
  distinct modulo a prime.
* **Core configuration** (`CoreProofs`, from `TableAssumption`,
  `CoreAssumption`, `NodesAssumption` and `CpuReaderAssumption`):
  `CoresListedHolds`, for any nodes in any order and any `MAX_CORES`, and
  `IndexesAgreeHolds`, for a table of prime size and any hash function. The map
  is that of the list's cores whose inserts found a slot: `add_core` ignores the
  result of `insert`, and an ID that was not inserted is not found. Up to
  (N + 1) / 2 cores all inserts succeed, as in `InsertFailsHalfFull`; with the
  389 slots of AArch64 that is 195 cores. The inductive invariant `CoreInv` says
  of the list after every node that its cores are those of the nodes there was
  room for, in some order, by ID; that IDs do not repeat and the primary core is
  first; and that what the map has of an ID is its index. The last is not
  inductive without unique IDs: when the primary core arrives late, two entries
  of the list change places and two of the map are rewritten, and each rewriting
  may fail. `CpuReaderAssumption` is to cpu nodes what `ReaderAssumption` is to
  memory nodes, and says less: that the ID which the reader finds is the node's.
  Methods and release addresses are not in the theorems; `CoresAsDescribed` is
  about them, and is model-checked.
* **ISR stacks** (`CoreProofs`, the same assumptions and `StacksAssumption`):
  `StacksApartHold` and `StackListCompletes`, for `Arch = "aarch64"`, any number
  of cores and any size of the stacks. For `"arm"` both properties are false
  (section 6). The invariant `StacksInv` gives, for the loop of
  `init_isr_stacks` at its index, the mapped pages and the entries written as
  those of the cores up to the index and no others. Stacks are a stride apart
  and each is one page shorter than the stride, which leaves the guard page. The
  start code maps the primary core's stack at the top of the area before the
  cores are known; the loop leaves that place free because it counts from 1 and
  the scan put the primary core at index 0, which is where `StacksInv` needs
  `CoreInv`.
* **Boot page allocator** (`CoreProofs`, from `BitmapAssumption`):
  `BootPagesOnce`, what one `alloc` returns and marks, for any area, bitmap and
  word size. It rests on what `first_zero` and `set_bit` compute, also when the
  length ends inside a word.

Induction over the natural numbers is available to these proofs for a set of
numbers (`NatSetInduction`), where the library's rule takes an operator. So
recursive functions are within reach, recursive operators are not.

Only model-checked:

* Liveness (`WaiterServed`), which is out of the prover's reach.
* `CoresAsDescribed`, which depends on all that the reader finds in a node.
* The four invariants of `PageTable` (`MapsWhatWasAsked`, `NeverUnmapped`,
  `TablesFormATree`, `LocalTableReached`). The MMU's walk is a recursive
  operator, on which no theorem can be stated. They also hold only for requests
  that are aligned as boot's are, on tables of 2^`index_bits` entries; section 6
  has requests on which the code does not do what was asked. A theorem would
  need those conditions as hypotheses.
* What the device tree reader computes: it folds an operator over the words of a
  blob, which the provers cannot unfold. `ReaderAssumption` and
  `CpuReaderAssumption` state the result, and TLC evaluates them on the nodes of
  the runs.

## 6. Where the code and its comments disagree

Three disagreements have a run (see `findings`): the head that is lost when the
head block of a list is removed (`page_allocator.rs:705`), misaligned blocks
when the area begins on a section only (`page_allocator.rs:459`), and the
bundle a cache keeps after giving it away (`slab_allocator.rs:1018`).

The models show these too. Each property is stated in the module and left out
of the runs; checking it in the run's configuration, or with the change in
parentheses, produces the counterexample.

* `mm/page_allocator.rs:681` - `ListSanityHolds`, run `buddy`: The assertion
  assert_eq!(head_addr, block_addr) at src/src/mm/page_allocator.rs:683
  ("sanity check the block and list", :680) fails in a legal sequence of calls:
  the last block of a ring whose head was lost is coalesced.
* `mm/page_allocator.rs:442` - `FreeMemIsListed`, run `buddy`: The coalescing
  loop runs through the top level too: a largest block whose buddy is free
  takes the buddy off its list and then ends with neither linked.
  src/src/arch/common/memory.rs:93 says get_free_mem is "the amount of memory
  currently available to this allocator in bytes"; that memory is not
  available.
* `mm/slab_allocator.rs:483` - `FreeUnusedWhenNone`, run `slab`: free_unused
  enters its loop with no unused slab and dereferences a null node;
  src/doc/ARCHITECTURE.md:797 says "In a memory pressure situation, the Slab
  Allocator provides the ability to free all unused slabs", without requiring
  that there be one.
* `mm/slab_allocator.rs:494` - `NodesVerify`, run `slab`: free_unused moves
  node_addr to the next node before it frees, so it gives back the pages of the
  next slab and reads that slab's node afterwards, when another client of the
  page allocator may have written to it; src/src/mm/slab_allocator.rs:83 says
  "Slab nodes use an XOR check as a sanity check", and the check fails.
* `mm/slab_allocator.rs:1096` - `BundleNotReturnedTwice`, run `slab_cache`:
  exchange_full_bundle takes the full standby bundle and, when no empty one can
  be had, returns None; free_internal keeps standby and gives it back again at
  a later free, which fails assert_eq!(wrapper.next, bits::POISON)
  (src/src/mm/slab_allocator.rs:616). src/doc/ARCHITECTURE.md:886 says of this
  case "If it cannot allocate one, the object is just released to the Slab
  Manager directly."
* `support/range_set.rs:162` - `TrimReturns`, run `memory` with `FairSpec`:
  trim_overlapping_ranges removes a range without lowering count, so the last
  range is duplicated and merges with itself for ever;
  src/src/support/range_set.rs:139 says it "Combines ranges as necessary to
  ensure ranges do not overlap".
* `support/range.rs:172` - `TopOfMemoryExcluded`, run `memory`: excl_end + 1
  overflows when the exclusion ends at the top of the address space, as the one
  beyond the virtual base does, although that part is empty;
  src/src/arch/arm/mod.rs:478 says init_memory_config "excludes any physical
  memory beyond the virtual base address".
* `support/range_set.rs:122` - `RoomForResult`, run `memory`: exclude returns a
  range of size 0 where src/src/support/range.rs:110 says it "handles returning
  None if the overlap results in empty ranges", and exclude_range panics for
  want of a slot although the result fits.
* `arch/arm/mm.rs:504` - `MapsWhatWasAsked`, run `page_table` (an ARM granular
  request of 2 pages at offset 127): The granular fill passes the whole
  remaining size to the next table at every entry of an upper table; a block
  that crosses a table boundary is wrapped into the first table. The
  documentation at src/src/arch/arm/mm.rs:129 says "Mapping a physical address
  PA to a virtual address VA where `VA = (PA - base) + virt`".
* `arch/arm/mm.rs:416` - `HaltsOnlyWithoutPages`, run `page_table` (an ARM
  direct request of 5 pages from 21): Alignment is tested against the section at
  every level, so level 3 descends below the last level for an address that is
  not on a section and panics; src/src/arch/arm/mm.rs:389 says "If the virtual
  address is not also section-aligned, Level 3 page entries will be used until
  it is section-aligned." The same test would let level 1 write a block at an
  address that is only section-aligned.
* `arch/aarch64/mm.rs:235` - `CallReturns`, run `page_table` with `FairSpec` (an
  AArch64 direct request of 4 pages from 18): fill_size = size & (entry_size - 1)
  is 0 when the size is a multiple of the entry and the address is not aligned:
  the loop makes no progress, where the comment at src/src/arch/aarch64/mm.rs:232
  says "only map enough to align, then use blocks".
* `arch/arm/start/mm.s:327` - `NeverUnmapped` and `TablesFormATree`, run
  `page_table` (the ARM machine with `vm_split` 2, `virtual_base` 512 and
  `stack_start` 976): With a 2/2 split the stacks, whose start
  (src/src/arch/arm/start/start.s:20) is in the upper GiB, are entered into the
  Level 2 table of the lower one ("we just need to skip the L1 table", :319),
  and the next page but one, taken for their Level 3 table, is that of the
  vectors. get_descriptor_index (src/src/arch/arm/mm.rs:755) also takes two
  bits of the address for level 1, where init_table of the start code and the
  MMU take one. src/doc/ARCHITECTURE.md:199 says "Propeller supports the
  canonical 2/2 and 3/1 splits"; the run is about the 3/1 split.
* `support/hash_map.rs:146` - `ErasedKeysGone`, run `hash_map`: erase removes
  the first pair of the key, but insert takes the first empty slot on the probe
  sequence without looking further, so after an erasure a key can be in the
  table twice; src/src/support/hash_map.rs:137 says "Erase a (key, value) pair
  from the map."
* `arch/arm_common/dtb_cpu.rs:172` - `PrimaryAlwaysAdded`, run `cores`:
  get_core_count() > MAX_CORES - 1 is true only when the configuration is full,
  so no spot is kept; the comment at src/src/arch/arm_common/dtb_cpu.rs:170
  says "Reserve a spot in the configuration to ensure that we always add the
  primary core."
* `arch/arm_common/dtb_cpu.rs:317` - `PropertiesBehindRegRead`, run `cores`:
  read_thread_id reads with a copy of the cursor and leaves the property unread,
  so the properties after reg are not found and the core gets the default
  method; src/src/arch/arm_common/dtb_cpu.rs:75 says "If a `cpu@N` node does not
  specify a core enable method, the method found here will be used", and
  src/src/support/dtb.rs:442 "All pairs must be read or the property must be
  skipped."
* `arch/arm_common/dtb_cpu.rs:205` - `CpuReaderAssumption`, run `cores` (a node
  with two compatible strings before `reg`), which TLC reports as false:
  read_compatible takes the first string of the list and leaves the cursor on
  the second, which ends the loop over the properties; the ID is then not that
  of reg but 0.
* `arch/arm/mod.rs:640` - `StacksApart`, run `cores` (`Arch = "arm"`): The area
  and the stride of the secondary cores count four stacks and the loop maps
  five; src/doc/ARCHITECTURE.md:396 says "The ISR Stacks area virtually maps
  each core's ISR stacks with unmapped guard pages in between each to trap
  stack overflows ... 5 stacks per core".
* `arch/arm/mod.rs:623` - `StackListComplete`, run `cores` (`Arch = "arm"`):
  Entries are six words (ID and five stacks) and the first secondary core's is
  written at word 5: it overwrites the primary core's SVC stack, which
  src/src/arch/arm/start/start.s:288 says is in the list ("Writes the primary
  core's stack pointers to the stack list").
* `arch/arm/start/mm.s:379` - `PrimaryStacksInImage`, run `cores` (`Arch =
  "arm"`): sub r6, r7, lsl #2 goes back four stacks from the start of the SVC
  stack, which is the top of the five; the comment at
  src/src/arch/arm/start/mm.s:375 says "Get the physical base of the FIQ
  stack." The stacks are mapped one stack too high.
* `arch/arm/task.rs:185` - `MappingsFitTable`, run `task_map`: The linear path
  of map_page counts a mapping without testing for a full table;
  src/src/arch/arm/task.rs:164 says "The function will panic if no more pages
  can be mapped into the thread's local mappings." The later unmap_page indexes
  past the table.

## 7. Plan

Done first, because everything else rests on it: buddy allocator, spin lock and
slab layers with their contracts and the first proofs; then boot's memory
pipeline, page tables, hash map, cores with their stacks, and task mappings.

Then the layers under them: the device tree reader under cores and memory, the
metadata layout under the zones, the start code's tables, the boot page
allocator over its bitmap and the bootstrap task's table under the page tables.

Then proofs: the buddy allocator, spin lock, ranges and task mappings; after
them the slab manager, the core caches, the hash map, and the buddy allocator's
counters and merging; and then boot: the memory layout, the cores, their stacks
and the boot page allocator.

Left: the invariants of `PageTable`. A proof would begin with a walk written as
a recursive function of the level, and with the premises on requests and layout
that boot keeps, stated as assumptions on the constants.

## 8. Abstractions and what is not modelled

* Memory is sequentially consistent; barriers have no other effect. Cache
  maintenance is not modelled, TLB maintenance is (task mappings).
* Addresses are page numbers; `UMAX` stands for the last page of the address
  space, and arithmetic that wraps or panics there is modelled so.
* Not modelled: the bytes inside a word of the device tree; the identity
  tables, control registers and drop of privilege of the start code; exception
  handlers (they only save registers); descriptor permission and shareability
  bits; the operations of bitmaps, boot allocator and device tree reader that
  the kernel does not call; `init` and `deinit`, which are code of the object
  types; debug output; the module tests, which were read for what they expect. AArch64 tasks map
  nothing: `map_page` is an addition.
* The start code skips the blob when there is none; `init` asserts one, so the
  model always has it.
* Masks and bit tricks (`ones`, `ceil_log2` and their kin) are modelled by what they compute: their
  constants are those of 32 and 64 bits and have no smaller instance.
* A device tree has one cpu node per core. In the nodes of the `cores` run `reg`
  comes first or last, and a compatible list of several strings behind it only;
  section 6 says what a list before it does.
* The hash of a key is any value. The code's is the 32 bits of FNV-1a in a 64-bit
  integer, so the sum of a hash and the square of a probe does not overflow.
