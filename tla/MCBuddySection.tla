---------------------------- MODULE MCBuddySection ----------------------------
(* The area the boot code leaves after the kernel image: its first page is   *)
(* aligned on a section (2 pages here) and not on the largest block (4).     *)
EXTENDS BuddyPageAllocator

MCLayouts == { << [base |-> 2, size |-> 6] >> }

=============================================================================
