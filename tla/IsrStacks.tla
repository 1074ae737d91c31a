------------------------------ MODULE IsrStacks ------------------------------
(*****************************************************************************)
(* The ISR stacks of the cores.  The start code maps and lists those of the  *)
(* primary core (mm.s, start.s) before the cores are known; CoreConfig finds *)
(* the cores; init_memory_config sizes the area for them and init_isr_stacks *)
(* allocates, maps and lists the stacks of all but the core at index 0       *)
(* (src/arch/{arm,aarch64}/mod.rs).  Addresses are page numbers; a stack     *)
(* grows down from its top onto an unmapped guard page.                      *)
(*****************************************************************************)
EXTENDS CoreConfig

CONSTANTS
  Arch,         \* "arm" (FIQ, UND, ABT, IRQ and SVC stacks) or "aarch64" (EL1)
  AreaEnd,      \* PAGE_DATABASE_VIRTUAL_BASE, the top of the primary's stacks
  StackPages    \* the sizes of a stack there may be

ASSUME StacksAssumption ==
  Arch \in {"arm", "aarch64"} /\ AreaEnd \in Nat /\ StackPages \subseteq Nat \ {0}

VARIABLES
  stack_pages,   \* kernel_stack_pages, fixed
  boot,          \* "start", "cores", "smp", "done" or "panic"
  index, s,      \* init_isr_stacks: core index and stack number under way
  mapped,        \* virtual page -> the physical page it maps to
  list           \* stack list: word index -> core ID or top of a stack

isr_vars == <<stack_pages, boot, index, s, mapped, list>>

StacksPerCore == IF Arch = "arm" THEN 5 ELSE 1
EntryWords == StacksPerCore + 1

(* Mutant: no room for the guard page. *)
StepSizeTight == stack_pages

StepSize == stack_pages + 1

(* The steps per core in the size of the area and in the stride of the       *)
(* secondary cores, and the list index of the first of those.                *)
StepsPerCore == IF Arch = "arm" THEN 4 ELSE 1
FirstEntry == IF Arch = "arm" THEN 5 ELSE 2

AreaBase == AreaEnd - StepSize * StepsPerCore * Len(cores)

(* Physical pages: the image has the primary's stacks at pages 0 and up of   *)
(* its stack section; the allocator's blocks are named by their user.        *)
ImagePage(n) == [block |-> "image", page |-> n]
BlockPage(c, i, n) == [block |-> <<c, i>>, page |-> n]

(* The mapping m with stack i of core c at base. *)
MapPages(m, base, c, i) ==
  [va \in DOMAIN m \cup (base .. base + stack_pages - 1) |->
     IF va \in base .. base + stack_pages - 1 THEN BlockPage(c, i, va - base) ELSE m[va]]

BootInit ==
  /\ Init
  /\ stack_pages \in StackPages
  /\ boot = "start" /\ index = 1 /\ s = 1
  /\ mapped = [va \in {} |-> ImagePage(0)]
  /\ list = [w \in {} |-> 0]

PrimaryTop(i) == AreaEnd - (StacksPerCore - i) * StepSize

(* The image page of the first stack, counted from the start of the section. *)
(* ARM goes back four stacks from the end of the five.                       *)
PrimaryImageBase == IF Arch = "arm" THEN stack_pages ELSE 0

(* mmu_setup_primary_core_stacks, then setup_stacks (the AArch64 names       *)
(* differ): map the stacks from the lowest up and list ID and tops.          *)
SetupPrimary ==
  /\ boot = "start" /\ boot' = "cores"
  /\ mapped' = [va \in UNION {PrimaryTop(i) - stack_pages .. PrimaryTop(i) - 1 :
                                i \in 1 .. StacksPerCore} |->
                  LET i == CHOOSE i \in 1 .. StacksPerCore :
                             va \in PrimaryTop(i) - stack_pages .. PrimaryTop(i) - 1
                  IN ImagePage(PrimaryImageBase + (i - 1) * stack_pages
                                 + va - (PrimaryTop(i) - stack_pages))]
  /\ list' = [w \in 0 .. StacksPerCore |->
                IF w = 0 THEN [id |-> primary_id] ELSE [top |-> PrimaryTop(w)]]
  /\ UNCHANGED <<vars, stack_pages, index, s>>

(* init_core_config: the steps of CoreConfig. *)
Discover == boot = "cores" /\ Next /\ UNCHANGED isr_vars

(* init_smp: nothing to do for one core. *)
InitSmp ==
  /\ boot = "cores" /\ phase = "done"
  /\ boot' = IF Len(cores) < 2 THEN "done" ELSE "smp"
  /\ UNCHANGED <<vars, stack_pages, index, s, mapped, list>>

(* Where stack i of the core at index c begins, and its core's list entry. *)
StackBase(c, i) == AreaBase + StepSize * StepsPerCore * (c - 1) + 1 + StepSize * (i - 1)

(* Mutant: entries are a word apart. *)
EntryIndexDense(c) == FirstEntry + (c - 1)

EntryIndex(c) == FirstEntry + EntryWords * (c - 1)

Set(l, w, value) == [x \in DOMAIN l \cup {w} |-> IF x = w THEN value ELSE l[x]]

(* One turn of the inner loop of init_isr_stacks, the ID with the first. *)
MapStack ==
  LET base == StackBase(index, s)
      named == IF s = 1 THEN Set(list, EntryIndex(index), [id |-> cores[index + 1].id]) ELSE list
  IN /\ boot = "smp"
     /\ mapped' = MapPages(mapped, base, index, s)
     /\ list' = Set(named, EntryIndex(index) + s, [top |-> base + stack_pages])
     /\ IF s < StacksPerCore THEN s' = s + 1 /\ UNCHANGED <<index, boot>>
        ELSE /\ s' = 1 /\ index' = index + 1
             /\ boot' = IF index + 1 = Len(cores) THEN "done" ELSE "smp"
     /\ UNCHANGED <<vars, stack_pages>>

(* "We must successfully allocate stacks for each core." *)
AllocPanic ==
  /\ boot = "smp" /\ boot' = "panic"
  /\ UNCHANGED <<vars, stack_pages, index, s, mapped, list>>

(* Boot goes on elsewhere, or the kernel has halted. *)
Rest == (boot \in {"done", "panic"} \/ phase = "failed") /\ UNCHANGED <<vars, isr_vars>>

BootNext == SetupPrimary \/ Discover \/ InitSmp \/ MapStack \/ AllocPanic \/ Rest

BootSpec == BootInit /\ [][BootNext]_<<vars, isr_vars>>

-----------------------------------------------------------------------------
(*****************************************************************************)
(* Properties.                                                               *)
(*****************************************************************************)

(* The stacks set up so far, by core index; those of index 0 are the booting *)
(* core's.                                                                   *)
Ready == IF boot = "start" THEN {}
         ELSE {r \in (0 .. index) \X (1 .. StacksPerCore) :
                 r[1] < index \/ (r[1] = index /\ r[2] < s)}

Base(c, i) == IF c = 0 THEN PrimaryTop(i) - stack_pages ELSE StackBase(c, i)

(* No core's stack takes a page of another's, and below every stack there is *)
(* "an unmapped guard page": the stacks are those of all cores set up so     *)
(* far, the primary's, which are in use, included.                           *)
StacksApart ==
  \A r \in Ready :
    LET base == Base(r[1], r[2])
    IN /\ base - 1 \notin DOMAIN mapped
       /\ base >= AreaEnd - StepSize * StacksPerCore * Max({1, Len(cores)})
       /\ \A n \in 0 .. stack_pages - 1 :
            mapped[base + n].block = IF r[1] = 0 THEN "image" ELSE r

(* Once boot has set up the stacks, every core of the configuration finds    *)
(* exactly one list entry with its ID, its own stacks' tops behind it: the   *)
(* index the configuration gave a core, the offset in the list and the       *)
(* position in the area agree, wherever the primary core was in the device   *)
(* tree.  (A configuration without the primary core is a case of its own:    *)
(* see PrimaryAlwaysAdded.)                                                  *)
StackListComplete ==
  boot = "done" /\ (\E j \in DOMAIN cores : cores[j].id = primary_id) =>
    \A j \in DOMAIN cores :
      /\ {w \in DOMAIN list : w % EntryWords = 0 /\ list[w] = [id |-> cores[j].id]}
           = {EntryWords * (j - 1)}
      /\ \A i \in 1 .. StacksPerCore :
           list[EntryWords * (j - 1) + i] = [top |-> Base(j - 1, i) + stack_pages]

(* The primary core's stacks are the pages the image reserves for them: what *)
(* follows in the image, the stack list first, is not written by a push.     *)
PrimaryStacksInImage ==
  \A va \in DOMAIN mapped :
    mapped[va].block = "image" => mapped[va].page \in 0 .. StacksPerCore * stack_pages - 1

=============================================================================
