--------------------------- MODULE TranslationTable ---------------------------
(*****************************************************************************)
(* Translation tables and their descriptors (src/arch/{arm,aarch64}/mm.rs).  *)
(* Addresses are page numbers, a table has 2^index_bits entries at every     *)
(* level and fills a page; level LastLevel holds pages, the level above it   *)
(* sections.                                                                 *)
(*****************************************************************************)
EXTENDS Integers, Sequences, FiniteSets, FiniteSetsExt, SequencesExt

CONSTANTS
  Machines    \* the builds: arch ("arm" with three levels, "aarch64" with four), index_bits,
              \* virtual_base, vm_split (3 or 2; 0 on AArch64); what the start code knows of
              \* the image; the pages for tables and the calls that may be made

ASSUME MachinesAssumption ==
  \A m \in Machines :
    m.arch \in {"arm", "aarch64"} /\ m.index_bits \in Nat \ {0} /\ m.virtual_base \in Nat

VARIABLE machine  \* the build, fixed

Entries == 2 ^ machine.index_bits
Index == 0 .. Entries - 1
LastLevel == IF machine.arch = "arm" THEN 3 ELSE 4

Invalid == [type |-> "invalid", addr |-> 0, device |-> FALSE]

(* make_pointer_descriptor, make_pointer_entry. *)
Pointer(t) == [type |-> "table", addr |-> t, device |-> FALSE]
ZeroTable == [i \in Index |-> Invalid]

(* get_table_entry_size, get_descriptor_index: level 1 of ARM has four entries. *)
EntrySize(level) == 2 ^ (machine.index_bits * (LastLevel - level))
SectionSize == EntrySize(LastLevel - 1)
DescriptorIndex(virt, level) ==
  (virt \div EntrySize(level)) % (IF machine.arch = "arm" /\ level = 1 THEN 4 ELSE Entries)

(* get_first_table_level: a segment of 1 GiB starts at level 2. *)
FirstLevel(virt) ==
  IF machine.arch = "arm" /\ machine.vm_split = 3 /\ virt >= machine.virtual_base THEN 2 ELSE 1

(* make_descriptor: the address is masked to the size of the entry.  AArch64 *)
(* has no block descriptor at level 1.                                       *)
HasDescriptor(level) == machine.arch = "arm" \/ level > 1
MakeDescriptor(level, base, device) ==
  [type   |-> IF level = LastLevel THEN "page" ELSE "block",
   addr   |-> base - (base % EntrySize(level)),
   device |-> device]

(* is_pointer_descriptor, is_pointer_entry. *)
IsPointer(level, desc) == level # LastLevel /\ desc.type = "table"

=============================================================================
