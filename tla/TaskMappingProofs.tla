-------------------------- MODULE TaskMappingProofs --------------------------
(*****************************************************************************)
(* Proofs about the local mappings of a task, for every size of the table,   *)
(* every set of pages and every bound on the mappings.                       *)
(*****************************************************************************)
EXTENDS TaskMapping, SequenceTheorems, TLAPS

(* The entry of the table is the page mapped there, the TLB holds the entry  *)
(* or nothing, and the count is the height of the stack.                     *)
TableMatches ==
  /\ Len(mappings) = map_count
  /\ \A i \in Index : table[i] = Mapped(i)
  /\ \A i \in Index : tlb[i] \in {Null, table[i]}

(* The pin is this core's, and it is there while the stack holds high memory. *)
PinMatches ==
  /\ pin_mask \in {NoMask, {this_core}}
  /\ (\E k \in DOMAIN mappings : mappings[k] >= high_mem_base) => pin_mask = {this_core}

IInv == TypeOK /\ TableMatches /\ PinMatches

(* Pushing a page leaves the others in place. *)
LEMMA PushKeeps ==
  ASSUME NEW page \in Page, mappings \in Seq(Page), mappings' = Append(mappings, page)
  PROVE  /\ mappings' \in Seq(Page) /\ Len(mappings') = Len(mappings) + 1
         /\ \A k \in DOMAIN mappings' :
              mappings'[k] = IF k = Len(mappings) + 1 THEN page ELSE mappings[k]
         /\ DOMAIN mappings = 1 .. Len(mappings)
         /\ DOMAIN mappings' = 1 .. Len(mappings) + 1
  OBVIOUS

(* Popping removes the last page. *)
LEMMA PopKeeps ==
  ASSUME mappings \in Seq(Page), Len(mappings) > 0,
         mappings' = SubSeq(mappings, 1, Len(mappings) - 1)
  PROVE  /\ mappings' \in Seq(Page) /\ Len(mappings') = Len(mappings) - 1
         /\ DOMAIN mappings = 1 .. Len(mappings)
         /\ DOMAIN mappings' = 1 .. Len(mappings) - 1
         /\ \A k \in DOMAIN mappings' : mappings'[k] = mappings[k]
<1> DEFINE n == Len(mappings) - 1
<1>1. /\ n \in Nat /\ DOMAIN mappings = 1 .. n + 1
      /\ \A i \in 1 .. n : mappings[i] \in Page
  BY LenProperties
<1>2. /\ SubSeq(mappings, 1, n) \in Seq(Page)
      /\ Len(SubSeq(mappings, 1, n)) = IF 1 <= n THEN n - 1 + 1 ELSE 0
      /\ \A i \in 1 .. n - 1 + 1 : SubSeq(mappings, 1, n)[i] = mappings[1 + i - 1]
  <2> HIDE DEF n
  <2> QED BY <1>1, SubSeqProperties
<1>3. mappings' \in Seq(Page) /\ Len(mappings') = n
  BY <1>1, <1>2
<1>4. DOMAIN mappings' = 1 .. n
  BY <1>3, LenProperties
<1> QED BY <1>1, <1>2, <1>3, <1>4

(* The invariant holds at the start. *)
LEMMA InitIInv == Init => IInv
<1> SUFFICES ASSUME Init PROVE IInv
  OBVIOUS
<1>1. mappings = <<>> /\ mappings \in Seq(Page) /\ Len(mappings) = 0 /\ DOMAIN mappings = {}
  BY EmptySeq DEF Init
<1>2. TypeOK
  BY <1>1 DEF Init, TypeOK, NoMask
<1>3. TableMatches
  BY <1>1 DEF Init, TableMatches, Mapped
<1>4. PinMatches
  BY <1>1 DEF Init, PinMatches
<1> QED BY <1>2, <1>3, <1>4 DEF IInv

(* map_page keeps it for linear memory, *)
LEMMA MapLinearKeeps ==
  ASSUME IInv, NEW page \in Page, MapLinear(page)
  PROVE  IInv'
<1>1. /\ mappings' \in Seq(Page) /\ Len(mappings') = Len(mappings) + 1
      /\ \A k \in DOMAIN mappings' :
           mappings'[k] = IF k = Len(mappings) + 1 THEN page ELSE mappings[k]
      /\ DOMAIN mappings = 1 .. Len(mappings)
      /\ DOMAIN mappings' = 1 .. Len(mappings) + 1
  BY PushKeeps DEF IInv, TypeOK, MapLinear
<1>2. TypeOK'
  BY <1>1 DEF IInv, TypeOK, MapLinear
<1>3. TableMatches'
  BY <1>1, TaskAssumption DEF IInv, TypeOK, MapLinear, TableMatches, Mapped, Index
<1>4. PinMatches'
  BY <1>1, TaskAssumption DEF IInv, TypeOK, MapLinear, PinMatches
<1> QED BY <1>2, <1>3, <1>4 DEF IInv

(* and for high memory; *)
LEMMA MapHighKeeps ==
  ASSUME IInv, NEW page \in Page, MapHigh(page), map_count < MAX_LOCAL_MAPPINGS
  PROVE  IInv'
<1>0. /\ mappings' = Append(mappings, page) /\ map_count' = map_count + 1
      /\ UpdateEntry(map_count, page) /\ page >= high_mem_base
      /\ pin_mask' = IF pin_mask = NoMask THEN {this_core} ELSE pin_mask
      /\ UNCHANGED <<affinity, halted>>
  BY DEF MapHigh
<1>1. /\ mappings' \in Seq(Page) /\ Len(mappings') = Len(mappings) + 1
      /\ \A k \in DOMAIN mappings' :
           mappings'[k] = IF k = Len(mappings) + 1 THEN page ELSE mappings[k]
      /\ DOMAIN mappings = 1 .. Len(mappings)
      /\ DOMAIN mappings' = 1 .. Len(mappings) + 1
  BY <1>0, PushKeeps DEF IInv, TypeOK
<1>2. map_count \in Index /\ map_count = Len(mappings)
  BY TaskAssumption DEF IInv, TypeOK, TableMatches, Index
<1>3. TypeOK'
  <2>1. table' \in [Index -> Page \cup {Null}] /\ tlb' \in [Index -> Page \cup {Null}]
    BY <1>0, <1>2 DEF IInv, TypeOK, UpdateEntry
  <2>2. pin_mask' \in SUBSET Core
    BY <1>0, TaskAssumption DEF IInv, TypeOK
  <2> QED BY <2>1, <2>2, <1>0, <1>1 DEF IInv, TypeOK
<1>4. TableMatches'
  <2>1. \A i \in Index : table'[i] = IF i = map_count THEN page ELSE table[i]
    BY <1>0, <1>2 DEF UpdateEntry, IInv, TypeOK
  <2>2. \A i \in Index : tlb'[i] = IF i = map_count THEN Null ELSE tlb[i]
    BY <1>0, <1>2 DEF UpdateEntry, IInv, TypeOK
  <2>3. \A i \in Index : table'[i] = Mapped(i)'
    BY <2>1, <1>0, <1>1, <1>2, TaskAssumption DEF IInv, TypeOK, TableMatches, Mapped, Index
  <2> QED BY <2>1, <2>2, <2>3, <1>0, <1>1, <1>2 DEF IInv, TableMatches
<1>5. PinMatches'
  BY <1>0 DEF IInv, PinMatches, NoMask
<1> QED BY <1>3, <1>4, <1>5 DEF IInv

(* unmap_page keeps it. *)
LEMMA UnmapKeeps ==
  ASSUME IInv, UnmapPage, map_count - 1 \in Index
  PROVE  IInv'
<1>0. /\ ClearEntry(map_count - 1) /\ map_count' = map_count - 1 /\ map_count > 0
      /\ mappings' = SubSeq(mappings, 1, Len(mappings) - 1)
      /\ pin_mask' = PinAfterUnmap /\ UNCHANGED <<affinity, halted>>
  BY DEF UnmapPage
<1>1. /\ mappings' \in Seq(Page) /\ Len(mappings') = Len(mappings) - 1
      /\ DOMAIN mappings = 1 .. Len(mappings)
      /\ DOMAIN mappings' = 1 .. Len(mappings) - 1
      /\ \A k \in DOMAIN mappings' : mappings'[k] = mappings[k]
  BY <1>0, PopKeeps DEF IInv, TypeOK, TableMatches
<1>2. map_count = Len(mappings) /\ map_count \in Nat
  BY DEF IInv, TypeOK, TableMatches
<1>3. /\ \A i \in Index : table'[i] = IF i = map_count - 1 THEN Null ELSE table[i]
      /\ \A i \in Index : tlb'[i] = IF i = map_count - 1 THEN Null ELSE tlb[i]
      /\ table' \in [Index -> Page \cup {Null}] /\ tlb' \in [Index -> Page \cup {Null}]
  BY <1>0 DEF ClearEntry, UpdateEntry, IInv, TypeOK, TableMatches
<1>4. TypeOK'
  BY <1>0, <1>1, <1>3, <1>2 DEF IInv, TypeOK, PinAfterUnmap, NoMask
<1>5. TableMatches'
  <2>1. \A i \in Index : table'[i] = Mapped(i)'
    BY <1>0, <1>1, <1>2, <1>3, TaskAssumption DEF IInv, TypeOK, TableMatches, Mapped, Index
  <2> QED BY <2>1, <1>0, <1>1, <1>2, <1>3 DEF IInv, TableMatches
<1>6. PinMatches'
  BY <1>0, <1>1, <1>2 DEF IInv, PinMatches, PinAfterUnmap, NoMask
<1> QED BY <1>4, <1>5, <1>6 DEF IInv

(* Every step keeps the invariant. *)
LEMMA NextIInv == IInv /\ [Next]_vars => IInv'
<1> SUFFICES ASSUME IInv, [Next]_vars PROVE IInv'
  OBVIOUS
<1>1. ASSUME NEW page \in Page, MapLinear(page) PROVE IInv'
  BY <1>1, MapLinearKeeps
<1>2. CASE Panic
  BY <1>2 DEF Panic, IInv, TypeOK, TableMatches, PinMatches, Mapped
<1>3. ASSUME NEW page \in Page, MapHigh(page) PROVE IInv'
  BY <1>2, <1>3, MapHighKeeps DEF MapHigh
<1>4. CASE UnmapPage
  BY <1>2, <1>4, UnmapKeeps DEF UnmapPage
<1>5. ASSUME NEW mask \in SUBSET Core, SetAffinity(mask) PROVE IInv'
  BY <1>5 DEF SetAffinity, IInv, TypeOK, TableMatches, PinMatches, Mapped
<1>6. ASSUME NEW i \in Index, FillTlb(i) PROVE IInv'
  BY <1>6 DEF FillTlb, IInv, TypeOK, TableMatches, PinMatches, Mapped
<1>7. CASE UNCHANGED vars
  BY <1>7 DEF vars, IInv, TypeOK, TableMatches, PinMatches, Mapped
<1> QED BY <1>1, <1>3, <1>4, <1>5, <1>6, <1>7 DEF Next, Run, Halt

(* The table, the TLB and the stack of mappings agree in every reachable     *)
(* state, for every size of the table and any number of mappings, those that *)
(* pass the table included.                                                  *)
THEOREM TaskInvariance == Spec => []IInv
  BY InitIInv, NextIInv, PTL DEF Spec

(* Every address map_page returned for high memory reaches its page until    *)
(* unmap_page takes it away, and no other address of the section translates. *)
THEOREM MappedPagesReached == Spec => []MappingsTranslate
<1>1. IInv => MappingsTranslate
  BY DEF IInv, TableMatches, MappingsTranslate, Translation
<1> QED BY <1>1, TaskInvariance, PTL

(* A task with high memory mapped may run on its core only, whatever         *)
(* affinity is set.                                                          *)
THEOREM StaysPinned == Spec => []PinnedWhileMapped
<1>1. IInv => PinnedWhileMapped
  BY DEF IInv, PinMatches, PinnedWhileMapped, GetAffinity, NoMask
<1> QED BY <1>1, TaskInvariance, PTL

=============================================================================
