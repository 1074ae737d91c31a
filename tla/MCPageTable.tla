----------------------------- MODULE MCPageTable -----------------------------
(* Images and calls for TLC.  The kernel segment begins at page 256 and has  *)
(* 256 pages: sections of 16 on ARM, of 4 on AArch64.                        *)
EXTENDS PageTable

Base == 256

Direct(base, size) ==
  [virt |-> Base + base, base |-> base, size |-> size, device |-> FALSE, strategy |-> "Compact",
   allocator |-> "boot"]

Map(offset, base, size, device, allocator) ==
  [virt |-> Base + offset, base |-> base, size |-> size, device |-> device,
   strategy |-> "Granular", allocator |-> allocator]

(* Sections of linear memory between the kernel and the blob and behind      *)
(* them; a device; stacks in the section of the primary core's and in the    *)
(* one below it.                                                             *)
ArmRequests ==
  {Direct(16, 16), Direct(48, 16), Direct(48, 32), Direct(64, 32)}
    \cup {Map(112, 900, 1, TRUE, "boot"), Map(113, 900, 2, TRUE, "boot")}
    \cup {Map(v, 20 + b, 1, FALSE, "zone") : v \in {189, 191, 193}, b \in {0, 5}}

(* Linear memory that begins or ends on a boundary of every entry it         *)
(* crosses; a device in the linear map; stacks that share none, some or all  *)
(* of the primary core's tables.                                             *)
A64Requests ==
  {Direct(4, 4), Direct(12, 4), Direct(12, 20), Direct(16, 16), Direct(16, 20), Direct(32, 8)}
    \cup {Map(56, 56, 1, TRUE, "boot"), Map(13, 13, 2, TRUE, "boot")}
    \cup {Map(v, 20 + b, s, FALSE, "zone") : v \in {182, 202, 204}, b \in {0, 3}, s \in {1, 2}}

(* The stacks of the primary core end at page 208, those of the others begin *)
(* at page 184 on ARM; the local mappings of core 0 are at page 128.         *)
MCMachines ==
  {[arch |-> "arm", index_bits |-> 4, virtual_base |-> Base, vm_split |-> 3,
    kernel_pages_start |-> 3, kernel_pages_size |-> 6, kernel_end |-> 15,
    blob |-> [base |-> 33, size |-> 2], vectors |-> [index |-> 12, base |-> 1],
    stack_start |-> Base + 208, stack_base |-> 9, stack_pages |-> 1,
    core_count |-> 3, local_table |-> 14, high_pages |-> {1000},
    zone_pages |-> {17, 50}, requests |-> ArmRequests],
   [arch |-> "aarch64", index_bits |-> 2, virtual_base |-> Base, vm_split |-> 0,
    kernel_pages_start |-> 0, kernel_pages_size |-> 8, kernel_end |-> 7,
    blob |-> [base |-> 9, size |-> 2], vectors |-> [index |-> 0, base |-> 0],
    stack_start |-> Base + 208, stack_base |-> 1, stack_pages |-> 2,
    core_count |-> 3, local_table |-> 0, high_pages |-> {},
    zone_pages |-> {13, 17, 18}, requests |-> A64Requests]}

=============================================================================
