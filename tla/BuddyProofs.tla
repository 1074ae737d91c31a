------------------------------ MODULE BuddyProofs ------------------------------
(*****************************************************************************)
(* Proofs about the buddy allocator, for every area, every number of levels, *)
(* every aligned first page and every list of available ranges.              *)
(*****************************************************************************)
EXTENDS BuddyAligned, SequenceTheorems, Induction, TLAPS

(*****************************************************************************)
(* The arithmetic of blocks: how the bit operations of page_allocator.rs     *)
(* relate a block, its buddy, their pair and the pages they cover.           *)
(*****************************************************************************)

(* A page number that is a multiple of s is s times its quotient. *)
LEMMA Multiple ==
  ASSUME NEW s \in Nat \ {0}, NEW b \in Nat, b % s = 0
  PROVE  b \div s \in Nat /\ b = (b \div s) * s
PROOF OBVIOUS

(* Dividing a multiple of s gives its factor back. *)
LEMMA Quotient ==
  ASSUME NEW s \in Nat \ {0}, NEW k \in Nat
  PROVE  (k * s) \div s = k /\ (k * s) % s = 0
PROOF OBVIOUS

(* A multiple of 2s is a multiple of s, and so is the number s above it. *)
LEMMA HalfMultiple ==
  ASSUME NEW s \in Nat \ {0}, NEW b \in Nat, b % (2 * s) = 0
  PROVE  b % s = 0 /\ (b + s) % s = 0 /\ (b \div s) % 2 = 0
<1> DEFINE j == b \div (2 * s)
<1>1. j \in Nat /\ b = j * (2 * s)
  BY Multiple, 2 * s \in Nat \ {0}
<1>2. b = (2 * j) * s /\ b + s = (2 * j + 1) * s
  BY <1>1
<1>3. 2 * j \in Nat /\ 2 * j + 1 \in Nat
  BY <1>1
<1> HIDE DEF j
<1>4. ((2 * j) * s) \div s = 2 * j /\ ((2 * j) * s) % s = 0 /\ ((2 * j + 1) * s) % s = 0
  BY <1>3, Quotient
<1>5. (2 * j) % 2 = 0
  BY <1>1
<1> QED BY <1>2, <1>4, <1>5

(* An even multiple of s is a multiple of 2s. *)
LEMMA EvenMultiple ==
  ASSUME NEW s \in Nat \ {0}, NEW k \in Nat, k % 2 = 0
  PROVE  (k * s) % (2 * s) = 0
<1> DEFINE j == k \div 2
<1>1. j \in Nat /\ k = 2 * j
  OBVIOUS
<1>2. k * s = j * (2 * s)
  BY <1>1
<1> HIDE DEF j
<1>3. (j * (2 * s)) % (2 * s) = 0
  BY <1>1, Quotient, 2 * s \in Nat \ {0}
<1> QED BY <1>2, <1>3

(* A block of level l that is aligned on its size is a whole number of      *)
(* blocks above the first page; its buddy is the next or the previous one.  *)
LEMMA BlockIndex ==
  ASSUME BaseAligned, NEW l \in Level, NEW b \in Page, IsAligned(b, l)
  PROVE  LET s == BlockPages(l)
             k == (b - Base) \div s
         IN /\ k \in Nat /\ b = Base + k * s
            /\ BlockPair(b, l) = k \div 2
            /\ Buddy(b, l) = IF k % 2 = 1 THEN b - s ELSE b + s
<1> DEFINE s == BlockPages(l)
           k == (b - Base) \div s
<1>1. s \in Nat \ {0} /\ Base \in Nat /\ Base % s = 0 /\ b \in Nat /\ b >= Base /\ b % s = 0
  BY PowersOfTwo, AreaAssumption DEF BaseAligned, Page, IsAligned, Level
<1> HIDE DEF s
<1>2. b - Base \in Nat /\ (b - Base) % s = 0
  <2>1. b = (b \div s) * s /\ b \div s \in Nat
    BY <1>1, Multiple
  <2>2. Base = (Base \div s) * s /\ Base \div s \in Nat
    BY <1>1, Multiple
  <2>3. b \div s >= Base \div s
    BY <1>1, <2>1, <2>2
  <2> DEFINE d == (b \div s) - (Base \div s)
  <2>4. d \in Nat /\ b - Base = d * s
    BY <1>1, <2>1, <2>2, <2>3
  <2> HIDE DEF d
  <2>5. (d * s) % s = 0
    BY <1>1, <2>4, Quotient
  <2>6. b - Base \in Nat
    BY <1>1
  <2> QED BY <2>4, <2>5, <2>6
<1>3. k \in Nat /\ b - Base = k * s
  BY <1>1, <1>2, Multiple
<1>4. b = Base + k * s
  BY <1>1, <1>3
<1>5. BlockPair(b, l) = k \div 2
  BY DEF BlockPair, s
<1>6. Bit(b - Base, l) = k % 2
  BY DEF Bit, s
<1>7. Buddy(b, l) = IF k % 2 = 1 THEN b - s ELSE b + s
  BY <1>1, <1>6 DEF Buddy, XorBit, s
<1> QED BY <1>3, <1>4, <1>5, <1>7 DEF s

(* Two numbers have the same half exactly when they are the same or the     *)
(* even and the odd one of a pair.                                          *)
LEMMA SameHalf ==
  ASSUME NEW k \in Nat, NEW m \in Nat
  PROVE  k \div 2 = m \div 2 <=> (m = k \/ m = IF k % 2 = 1 THEN k - 1 ELSE k + 1)
PROOF OBVIOUS

(* Blocks of a level are disjoint: s times different numbers differ by s.   *)
LEMMA Apart ==
  ASSUME NEW s \in Nat \ {0}, NEW k \in Nat, NEW m \in Nat, k < m
  PROVE  k * s + s <= m * s
PROOF OBVIOUS

(* What `free` relies on when it looks for a buddy: buddies are distinct,   *)
(* each is the other's buddy, both are aligned, they share their pair's bit *)
(* and nobody else does.                                                    *)
LEMMA BuddyFacts ==
  ASSUME BaseAligned, NEW l \in Level, NEW b \in Page, IsAligned(b, l)
  PROVE  /\ Buddy(b, l) \in Nat /\ Buddy(b, l) >= Base
         /\ Buddy(b, l) # b
         /\ IsAligned(Buddy(b, l), l)
         /\ \A c \in Page : IsAligned(c, l) =>
              (BlockPair(c, l) = BlockPair(b, l) <=> (c = b \/ c = Buddy(b, l)))
<1> DEFINE s == BlockPages(l)
           K(c) == (c - Base) \div s
           other == IF K(b) % 2 = 1 THEN K(b) - 1 ELSE K(b) + 1
<1>1. s \in Nat \ {0} /\ Base \in Nat /\ Base % s = 0
  BY PowersOfTwo, AreaAssumption DEF BaseAligned, Level
<1>2. \A c \in Page : IsAligned(c, l) =>
         K(c) \in Nat /\ c = Base + K(c) * s /\ BlockPair(c, l) = K(c) \div 2
  BY BlockIndex
<1>3. Buddy(b, l) = IF K(b) % 2 = 1 THEN b - s ELSE b + s
  BY BlockIndex
<1> HIDE DEF s, K
<1>4. K(b) \in Nat /\ b = Base + K(b) * s
  BY <1>2
<1>5. other \in Nat /\ other # K(b)
  BY <1>4
<1>6. Buddy(b, l) = Base + other * s
  <2>1. CASE K(b) % 2 = 1
    BY <2>1, <1>1, <1>3, <1>4
  <2>2. CASE K(b) % 2 # 1
    BY <2>2, <1>1, <1>3, <1>4
  <2> QED BY <2>1, <2>2
<1> HIDE DEF other
<1>7. Buddy(b, l) \in Nat /\ Buddy(b, l) >= Base
  BY <1>1, <1>5, <1>6
<1>8. Buddy(b, l) # b
  BY <1>1, <1>3, <1>4
<1>9. IsAligned(Buddy(b, l), l)
  <2>1. Base = (Base \div s) * s /\ Base \div s \in Nat
    BY <1>1, Multiple
  <2> DEFINE d == (Base \div s) + other
  <2>2. d \in Nat /\ Buddy(b, l) = d * s
    BY <1>1, <1>5, <1>6, <2>1
  <2> HIDE DEF d
  <2>3. (d * s) % s = 0
    BY <1>1, <2>2, Quotient
  <2> QED BY <2>2, <2>3 DEF IsAligned, s
<1>10. ASSUME NEW c \in Page, IsAligned(c, l)
       PROVE  BlockPair(c, l) = BlockPair(b, l) <=> (c = b \/ c = Buddy(b, l))
  <2>1. K(c) \in Nat /\ c = Base + K(c) * s /\ BlockPair(c, l) = K(c) \div 2
    BY <1>2, <1>10
  <2>2. BlockPair(b, l) = K(b) \div 2
    BY <1>2
  <2>3. K(b) \div 2 = K(c) \div 2 <=> (K(c) = K(b) \/ K(c) = other)
    BY <1>4, <2>1, SameHalf DEF other
  <2>4. K(c) = K(b) <=> c = b
    <3>1. c - Base = b - Base <=> c = b
      BY <1>4, <2>1, <1>1
    <3>2. c = b => K(c) = K(b)
      OBVIOUS
    <3> QED BY <3>2, <1>4, <2>1
  <2>5. K(c) = other <=> c = Buddy(b, l)
    <3>1. K(c) = other => c = Buddy(b, l)
      BY <1>6, <2>1
    <3>2. ASSUME K(c) < other PROVE c # Buddy(b, l)
      BY <3>2, <1>1, <1>5, <1>6, <2>1, Apart
    <3>3. ASSUME other < K(c) PROVE c # Buddy(b, l)
      BY <3>3, <1>1, <1>5, <1>6, <2>1, Apart
    <3> QED BY <3>1, <3>2, <3>3, <1>5, <2>1
  <2> QED BY <2>1, <2>2, <2>3, <2>4, <2>5
<1> QED BY <1>7, <1>8, <1>9, <1>10

(* A block is its own first page, and is not empty. *)
LEMMA SpanStart ==
  ASSUME NEW l \in Level, NEW b \in Nat
  PROVE  b \in Span(b, l)
BY PowersOfTwo DEF Span

(* Coalescing: the lower of two buddies is aligned for the next level, and  *)
(* a block of that level there covers exactly the two buddies.              *)
LEMMA MergeFacts ==
  ASSUME BaseAligned, NEW l \in Level, NEW b \in Page, IsAligned(b, l),
         NEW low, low = IF Buddy(b, l) < b THEN Buddy(b, l) ELSE b
  PROVE  /\ Span(low, l + 1) = Span(b, l) \cup Span(Buddy(b, l), l)
         /\ l + 1 \in Level => IsAligned(low, l + 1)
<1> DEFINE s == BlockPages(l)
           k == (b - Base) \div s
<1>1. s \in Nat \ {0} /\ Base \in Nat /\ BlockPages(l + 1) = 2 * s
  BY PowersOfTwo, AreaAssumption DEF Level
<1>2. /\ k \in Nat /\ b = Base + k * s
      /\ Buddy(b, l) = IF k % 2 = 1 THEN b - s ELSE b + s
  BY BlockIndex
<1> HIDE DEF s, k
<1>3. b \in Nat
  BY <1>1 DEF Page
<1>4. Span(low, l + 1) = low .. low + 2 * s - 1
  BY <1>1 DEF Span
<1>5. Span(b, l) = b .. b + s - 1 /\ Span(Buddy(b, l), l) = Buddy(b, l) .. Buddy(b, l) + s - 1
  BY DEF Span, s
<1>6. Span(low, l + 1) = Span(b, l) \cup Span(Buddy(b, l), l)
  <2>1. CASE k % 2 = 1
    BY <2>1, <1>1, <1>2, <1>3, <1>4, <1>5
  <2>2. CASE k % 2 # 1
    BY <2>2, <1>1, <1>2, <1>3, <1>4, <1>5
  <2> QED BY <2>1, <2>2
<1>7. ASSUME l + 1 \in Level PROVE IsAligned(low, l + 1)
  <2>1. Base % (2 * s) = 0
    BY <1>1, <1>7 DEF BaseAligned
  <2>2. Base = (Base \div (2 * s)) * (2 * s) /\ Base \div (2 * s) \in Nat
    BY <1>1, <2>1, Multiple, 2 * s \in Nat \ {0}
  <2> DEFINE e == k \div 2
             d == (Base \div (2 * s)) + e
  <2>3. e \in Nat /\ k = 2 * e + (k % 2)
    BY <1>2
  <2>4. low = Base + (2 * e) * s
    <3>1. CASE k % 2 = 1
      BY <3>1, <1>1, <1>2, <1>3, <2>3
    <3>2. CASE k % 2 # 1
      BY <3>2, <1>1, <1>2, <1>3, <2>3
    <3> QED BY <3>1, <3>2
  <2> HIDE DEF e
  <2>5. d \in Nat /\ low = d * (2 * s)
    BY <1>1, <2>2, <2>3, <2>4
  <2> HIDE DEF d
  <2>6. (d * (2 * s)) % (2 * s) = 0
    BY <1>1, <2>5, Quotient, 2 * s \in Nat \ {0}
  <2> QED BY <1>1, <2>5, <2>6 DEF IsAligned
<1> QED BY <1>6, <1>7

(* Splitting: the odd half starts where OR-ing the bit says, both halves    *)
(* are aligned, disjoint, and together cover the block.                     *)
LEMMA SplitFacts ==
  ASSUME NEW l \in Level, l + 1 \in Level, NEW b \in Nat, IsAligned(b, l + 1)
  PROVE  /\ IsAligned(b, l) /\ IsAligned(OrBit(b, l), l)
         /\ OrBit(b, l) \in Nat
         /\ Span(b, l + 1) = Span(b, l) \cup Span(OrBit(b, l), l)
         /\ Span(b, l) \cap Span(OrBit(b, l), l) = {}
<1> DEFINE s == BlockPages(l)
<1>1. s \in Nat \ {0} /\ BlockPages(l + 1) = 2 * s
  BY PowersOfTwo
<1>2. b % (2 * s) = 0
  BY <1>1 DEF IsAligned
<1> HIDE DEF s
<1>3. b % s = 0 /\ (b + s) % s = 0 /\ (b \div s) % 2 = 0
  BY <1>1, <1>2, HalfMultiple
<1>4. OrBit(b, l) = b + s
  BY <1>3 DEF OrBit, Bit, s
<1>5. IsAligned(b, l) /\ IsAligned(OrBit(b, l), l)
  BY <1>3, <1>4 DEF IsAligned, s
<1>6. /\ Span(b, l + 1) = b .. b + 2 * s - 1
      /\ Span(b, l) = b .. b + s - 1
      /\ Span(OrBit(b, l), l) = b + s .. b + s + s - 1
  BY <1>1, <1>4 DEF Span, s
<1> QED BY <1>1, <1>4, <1>5, <1>6

-----------------------------------------------------------------------------
(*****************************************************************************)
(* The lists and their flags.                                                *)
(*****************************************************************************)

(* What the list primitives need to know of the lists before they run. *)
Lists == TypeOK /\ ListedAligned /\ ListsDisjoint /\ RingsClosed /\ FlagsMatchLists

(* A block is on one list only. *)
LEMMA OneList ==
  ASSUME TypeOK, ListsDisjoint, NEW l \in Level, NEW k \in Level, l # k,
         NEW b \in listed[l]
  PROVE  b \notin listed[k]
<1>0. listed \in [Level -> SUBSET Page]
  BY DEF TypeOK
<1>1. b \in Nat
  BY <1>0, AreaAssumption DEF Page
<1>2. b \in Span(b, l) /\ b \in Span(b, k)
  BY <1>1, SpanStart
<1> QED BY <1>2 DEF ListsDisjoint

(* The list primitives flip the bit of one pair; the other pairs keep       *)
(* theirs and the flipped one follows the block that came or went.          *)
LEMMA TogglePair ==
  ASSUME BaseAligned, Lists, NEW l \in Level, NEW b \in Page, IsAligned(b, l),
         flags' = [flags EXCEPT ![l] = Toggle(@, BlockPair(b, l))],
         listed' \in [Level -> SUBSET Page],
         \A k \in Level : k # l => listed'[k] = listed[k],
         \A c : c # b => (c \in listed'[l] <=> c \in listed[l]),
         b \in listed'[l] <=> b \notin listed[l]
  PROVE  FlagsMatchLists' /\ flags' \in [Level -> SUBSET (0 .. Size)]
<1>1. flags \in [Level -> SUBSET (0 .. Size)]
  BY DEF Lists, TypeOK
<1>2. BlockPair(b, l) \in 0 .. Size
  <2> DEFINE s == BlockPages(l)
             k == (b - Base) \div s
  <2>1. s \in Nat \ {0} /\ Base \in Nat /\ Size \in Nat
    BY PowersOfTwo, AreaAssumption DEF Level
  <2>2. k \in Nat /\ b = Base + k * s /\ BlockPair(b, l) = k \div 2
    BY BlockIndex
  <2> HIDE DEF s, k
  <2>3. k <= k * s
    BY <2>1, <2>2
  <2>4. b - Base < Size
    BY <2>1 DEF Page
  <2>5. k * s = b - Base
    BY <2>1, <2>2
  <2>6. k <= Size
    BY <2>1, <2>2, <2>3, <2>4, <2>5
  <2> QED BY <2>1, <2>2, <2>6
<1>3. flags' \in [Level -> SUBSET (0 .. Size)]
  BY <1>1, <1>2 DEF Toggle
<1>4. ASSUME NEW k \in Level, NEW c \in Page, IsAligned(c, k)
      PROVE  BlockPair(c, k) \in flags'[k] <=> ~(c \in listed'[k] <=> Buddy(c, k) \in listed'[k])
  <2>1. BlockPair(c, k) \in flags[k] <=> ~(c \in listed[k] <=> Buddy(c, k) \in listed[k])
    BY <1>4 DEF Lists, FlagsMatchLists
  <2>2. CASE k # l
    BY <2>1, <2>2, <1>1
  <2>3. CASE k = l
    <3>1. BlockPair(c, l) = BlockPair(b, l) <=> (c = b \/ c = Buddy(b, l))
      BY <1>4, <2>3, BuddyFacts
    <3>2. BlockPair(b, l) = BlockPair(c, l) <=> (b = c \/ b = Buddy(c, l))
      BY <1>4, <2>3, BuddyFacts
    <3>3. Buddy(b, l) # b /\ Buddy(c, l) # c
      BY <1>4, <2>3, BuddyFacts
    <3>4. CASE BlockPair(c, l) = BlockPair(b, l)
      <4>1. BlockPair(c, l) \in flags'[l] <=> BlockPair(c, l) \notin flags[l]
        BY <1>1, <3>4 DEF Toggle
      <4>2. \/ c = b /\ Buddy(c, l) # b
            \/ c # b /\ Buddy(c, l) = b
        BY <3>1, <3>2, <3>3, <3>4
      <4> QED BY <4>1, <4>2, <2>1, <2>3
    <3>5. CASE BlockPair(c, l) # BlockPair(b, l)
      <4>1. BlockPair(c, l) \in flags'[l] <=> BlockPair(c, l) \in flags[l]
        BY <1>1, <3>5 DEF Toggle
      <4>2. c # b /\ Buddy(c, l) # b
        BY <3>2, <3>5
      <4> QED BY <4>1, <4>2, <2>1, <2>3
    <3> QED BY <3>4, <3>5
  <2> QED BY <2>2, <2>3
<1>5. FlagsMatchLists'
  BY <1>4 DEF FlagsMatchLists, IsAligned, BlockPair, Buddy, XorBit, Bit, BlockPages, Level, Page
<1> QED BY <1>3, <1>5

(* add_to_list keeps the rings closed: the new block is linked in between   *)
(* the tail and the head, or becomes a ring of its own.                     *)
LEMMA AddKeepsLists ==
  ASSUME BaseAligned, Lists, NEW l \in Level, NEW b \in Page, IsAligned(b, l),
         \A k \in Level : b \notin listed[k], AddToList(l, b)
  PROVE  /\ head' \in [Level -> {0} \cup Page]
         /\ node' \in [{0} \cup Page -> [next : {0} \cup Page, prev : {0} \cup Page, ok : BOOLEAN]]
         /\ flags' \in [Level -> SUBSET (0 .. Size)]
         /\ listed' = [listed EXCEPT ![l] = @ \cup {b}]
         /\ listed' \in [Level -> SUBSET Page]
         /\ ListedAligned' /\ RingsClosed' /\ FlagsMatchLists'
<1> DEFINE first == head[l]
           last  == node[first].prev
           Node  == [next : {0} \cup Page, prev : {0} \cup Page, ok : BOOLEAN]
<1>1. /\ head \in [Level -> {0} \cup Page]
      /\ node \in [{0} \cup Page -> Node]
      /\ listed \in [Level -> SUBSET Page]
  BY DEF Lists, TypeOK
<1>2. listed' = [listed EXCEPT ![l] = @ \cup {b}] /\ listed' \in [Level -> SUBSET Page]
  BY <1>1 DEF AddToList
<1>3. FlagsMatchLists' /\ flags' \in [Level -> SUBSET (0 .. Size)]
  <2>1. flags' = [flags EXCEPT ![l] = Toggle(@, BlockPair(b, l))]
    BY DEF AddToList
  <2>2. \A k \in Level : k # l => listed'[k] = listed[k]
    BY <1>1, <1>2
  <2>3. \A c : c # b => (c \in listed'[l] <=> c \in listed[l])
    BY <1>1, <1>2
  <2>4. b \in listed'[l] <=> b \notin listed[l]
    BY <1>1, <1>2
  <2> QED BY <1>2, <2>1, <2>2, <2>3, <2>4, TogglePair
<1>4. ListedAligned'
  BY <1>1, <1>2 DEF ListedAligned, Lists
<1>5. 0 \notin Page
  BY AreaAssumption DEF Page
<1>6. \A k \in Level : \A c \in listed[k] :
        /\ c \in Page /\ c # b /\ node[c].ok
        /\ node[c].next \in listed[k] /\ node[node[c].next].prev = c
        /\ node[c].prev \in listed[k] /\ node[node[c].prev].next = c
  BY <1>1 DEF Lists, RingsClosed
<1>7. \A k \in Level : head[k] # 0 => head[k] \in listed[k]
  BY DEF Lists, RingsClosed
<1>8. \A k \in Level : k # l => listed[k] \cap listed[l] = {}
  BY OneList DEF Lists
<1>9. CASE first = 0
  <2>1. head' = [head EXCEPT ![l] = b] /\ node' = [node EXCEPT ![b] = LinkedNode(b, b)]
    BY <1>9 DEF AddToList
  <2>2. LinkedNode(b, b) \in Node /\ LinkedNode(b, b).next = b /\ LinkedNode(b, b).prev = b /\ LinkedNode(b, b).ok
    BY DEF LinkedNode
  <2>3. head' \in [Level -> {0} \cup Page] /\ node' \in [{0} \cup Page -> Node]
    BY <1>1, <2>1, <2>2
  <2>4. \A k \in Level : head'[k] # 0 => head'[k] \in listed'[k]
    BY <1>1, <1>2, <1>7, <2>1
  <2>5. node'[b] = LinkedNode(b, b) /\ \A c \in Page : c # b => node'[c] = node[c]
    BY <1>1, <2>1
  <2>6. ASSUME NEW k \in Level, NEW c \in listed'[k]
        PROVE  /\ node'[c].ok
               /\ node'[c].next \in listed'[k] /\ node'[node'[c].next].prev = c
               /\ node'[c].prev \in listed'[k] /\ node'[node'[c].prev].next = c
    <3>1. CASE c = b
      BY <3>1, <1>1, <1>2, <2>2, <2>5
    <3>2. CASE c # b
      BY <3>2, <1>1, <1>2, <1>6, <2>5
    <3> QED BY <3>1, <3>2
  <2>7. RingsClosed'
    BY <2>4, <2>6 DEF RingsClosed, Level
  <2> QED BY <1>2, <1>3, <1>4, <2>3, <2>7
<1>10. CASE first # 0
  <2>1. /\ head' = head
        /\ node' = [node EXCEPT ![b] = LinkedNode(first, last), ![first].prev = b, ![last].next = b]
    BY <1>10 DEF AddToList
  <2>2. /\ first \in listed[l] /\ last \in listed[l]
        /\ node[last].next = first /\ node[first].prev = last
        /\ first # b /\ last # b /\ first \in Page /\ last \in Page
    BY <1>1, <1>6, <1>7, <1>10
  <2>3. /\ LinkedNode(first, last) \in Node
        /\ LinkedNode(first, last).next = first /\ LinkedNode(first, last).prev = last
        /\ LinkedNode(first, last).ok
    BY <2>2 DEF LinkedNode
  <2> HIDE DEF first, last
  <2>4. node' \in [{0} \cup Page -> Node]
    BY <1>1, <2>1, <2>2, <2>3
  <2>5. /\ node'[b] = LinkedNode(first, last)
        /\ node'[first].prev = b /\ node'[last].next = b
        /\ \A c \in Page : c # b => node'[c].ok = node[c].ok
        /\ \A c \in Page : c # b /\ c # first => node'[c].prev = node[c].prev
        /\ \A c \in Page : c # b /\ c # last => node'[c].next = node[c].next
    BY <1>1, <2>1, <2>2, <2>3
  <2>6. ASSUME NEW k \in Level, NEW c \in listed'[k]
        PROVE  /\ node'[c].ok
               /\ node'[c].next \in listed'[k] /\ node'[node'[c].next].prev = c
               /\ node'[c].prev \in listed'[k] /\ node'[node'[c].prev].next = c
    <3>1. CASE c = b
      <4>1. k = l
        BY <3>1, <1>1, <1>2
      <4> QED BY <3>1, <4>1, <1>1, <1>2, <2>2, <2>3, <2>5
    <3>2. CASE c # b
      <4>1. c \in listed[k] /\ c \in Page
        BY <3>2, <1>1, <1>2
      <4>2. listed[k] \subseteq listed'[k] /\ (k = l => b \in listed'[k])
        BY <1>1, <1>2
      <4>3. node'[c].ok
        BY <4>1, <3>2, <1>6, <2>5
      <4>4. node'[c].next \in listed'[k] /\ node'[node'[c].next].prev = c
        <5>1. CASE c = last
          <6>1. k = l
            BY <5>1, <4>1, <2>2, <1>8
          <6> QED BY <5>1, <6>1, <4>2, <2>3, <2>5
        <5>2. CASE c # last
          <6>1. node'[c].next = node[c].next /\ node[c].next \in listed[k] /\ node[c].next \in Page
            BY <5>2, <4>1, <3>2, <1>1, <1>6, <2>5
          <6>2. node[c].next # first /\ node[c].next # b
            BY <5>2, <4>1, <1>6, <2>2
          <6>3. node'[node[c].next].prev = node[node[c].next].prev
            BY <6>1, <6>2, <2>5
          <6>4. node[node[c].next].prev = c
            BY <4>1, <1>6
          <6> QED BY <6>1, <6>3, <6>4, <4>2
        <5> QED BY <5>1, <5>2
      <4>5. node'[c].prev \in listed'[k] /\ node'[node'[c].prev].next = c
        <5>1. CASE c = first
          <6>1. k = l
            BY <5>1, <4>1, <2>2, <1>8
          <6> QED BY <5>1, <6>1, <4>2, <2>3, <2>5
        <5>2. CASE c # first
          <6>1. node'[c].prev = node[c].prev /\ node[c].prev \in listed[k] /\ node[c].prev \in Page
            BY <5>2, <4>1, <3>2, <1>1, <1>6, <2>5
          <6>2. node[c].prev # last /\ node[c].prev # b
            BY <5>2, <4>1, <1>6, <2>2
          <6>3. node'[node[c].prev].next = node[node[c].prev].next
            BY <6>1, <6>2, <2>5
          <6>4. node[node[c].prev].next = c
            BY <4>1, <1>6
          <6> QED BY <6>1, <6>3, <6>4, <4>2
        <5> QED BY <5>1, <5>2
      <4> QED BY <4>3, <4>4, <4>5
    <3> QED BY <3>1, <3>2
  <2>7. \A k \in Level : head'[k] # 0 => head'[k] \in listed'[k]
    BY <1>1, <1>2, <1>7, <2>1
  <2>8. RingsClosed'
    BY <2>6, <2>7 DEF RingsClosed, Level
  <2> QED BY <1>1, <1>2, <1>3, <1>4, <2>1, <2>4, <2>8
<1> QED BY <1>9, <1>10

(* remove_from_list closes the ring over the gap, and leaves a head that is *)
(* a block of the list (or none).                                           *)
LEMMA RemoveKeepsLists ==
  ASSUME BaseAligned, Lists, NEW l \in Level, NEW b \in listed[l], RemoveSanity(l, b), RemoveFromList(l, b)
  PROVE  /\ head' \in [Level -> {0} \cup Page]
         /\ node' \in [{0} \cup Page -> [next : {0} \cup Page, prev : {0} \cup Page, ok : BOOLEAN]]
         /\ flags' \in [Level -> SUBSET (0 .. Size)]
         /\ listed' = [listed EXCEPT ![l] = @ \ {b}]
         /\ listed' \in [Level -> SUBSET Page]
         /\ ListedAligned' /\ RingsClosed' /\ FlagsMatchLists'
<1> DEFINE nxt  == node[b].next
           prv  == node[b].prev
           Node == [next : {0} \cup Page, prev : {0} \cup Page, ok : BOOLEAN]
<1>1. /\ head \in [Level -> {0} \cup Page]
      /\ node \in [{0} \cup Page -> Node]
      /\ listed \in [Level -> SUBSET Page]
  BY DEF Lists, TypeOK
<1>2. listed' = [listed EXCEPT ![l] = @ \ {b}] /\ listed' \in [Level -> SUBSET Page]
  BY <1>1 DEF RemoveFromList
<1>3. FlagsMatchLists' /\ flags' \in [Level -> SUBSET (0 .. Size)]
  <2>1. flags' = [flags EXCEPT ![l] = Toggle(@, BlockPair(b, l))]
    BY DEF RemoveFromList
  <2>2. \A k \in Level : k # l => listed'[k] = listed[k]
    BY <1>1, <1>2
  <2>3. \A c : c # b => (c \in listed'[l] <=> c \in listed[l])
    BY <1>1, <1>2
  <2>4. b \in listed'[l] <=> b \notin listed[l]
    BY <1>1, <1>2
  <2>5. b \in Page /\ IsAligned(b, l)
    BY <1>1 DEF Lists, ListedAligned
  <2> QED BY <1>2, <2>1, <2>2, <2>3, <2>4, <2>5, TogglePair
<1>4. ListedAligned'
  BY <1>1, <1>2 DEF ListedAligned, Lists
<1>5. 0 \notin Page
  BY AreaAssumption DEF Page
<1>6. \A k \in Level : \A c \in listed[k] :
        /\ c \in Page /\ node[c].ok
        /\ node[c].next \in listed[k] /\ node[node[c].next].prev = c
        /\ node[c].prev \in listed[k] /\ node[node[c].prev].next = c
  BY <1>1 DEF Lists, RingsClosed
<1>7. \A k \in Level : head[k] # 0 => head[k] \in listed[k]
  BY DEF Lists, RingsClosed
<1>8. \A k \in Level : k # l => listed[k] \cap listed[l] = {}
  BY OneList DEF Lists
<1>9. \A k \in Level : \A c : c \in listed'[k] <=> (c \in listed[k] /\ ~(k = l /\ c = b))
  BY <1>1, <1>2
<1>10. head' = [head EXCEPT ![l] = IF nxt = b \/ @ = b THEN 0 ELSE @]
  BY DEF RemoveFromList
<1>11. head' \in [Level -> {0} \cup Page]
  BY <1>1, <1>10
<1>12. CASE nxt = b
  <2>1. node' = node /\ prv = b /\ head[l] = b
    BY <1>12 DEF RemoveFromList, RemoveSanity
  <2>2. \A k \in Level : head'[k] # 0 => head'[k] \in listed'[k]
    BY <1>1, <1>7, <1>9, <1>10, <1>12
  <2>3. ASSUME NEW k \in Level, NEW c \in listed'[k]
        PROVE  /\ node'[c].ok
               /\ node'[c].next \in listed'[k] /\ node'[node'[c].next].prev = c
               /\ node'[c].prev \in listed'[k] /\ node'[node'[c].prev].next = c
    <3>1. c \in listed[k] /\ ~(k = l /\ c = b)
      BY <1>9
    <3>2. k = l => node[c].next # b /\ node[c].prev # b
      BY <3>1, <2>1, <1>6, <1>12
    <3> QED BY <3>1, <3>2, <2>1, <1>6, <1>9
  <2>4. RingsClosed'
    BY <2>2, <2>3 DEF RingsClosed, Level
  <2> QED BY <1>1, <1>2, <1>3, <1>4, <1>11, <2>1, <2>4
<1>13. CASE nxt # b
  <2>1. node' = [node EXCEPT ![nxt].prev = prv, ![prv].next = nxt, ![b] = ZeroNode]
    BY <1>13 DEF RemoveFromList
  <2>2. /\ nxt \in listed[l] /\ prv \in listed[l] /\ b \in listed[l]
        /\ node[nxt].prev = b /\ node[prv].next = b /\ node[b].next = nxt /\ node[b].prev = prv
        /\ nxt \in Page /\ prv \in Page /\ b \in Page
    BY <1>6
  <2>3. prv # b
    BY <2>2, <1>13
  <2>4. ZeroNode \in Node
    BY DEF ZeroNode
  <2>5. nxt # b
    BY <1>13
  <2> HIDE DEF nxt, prv
  <2>6. node' \in [{0} \cup Page -> Node]
    BY <1>1, <2>1, <2>2, <2>4
  <2>7. /\ node'[nxt].prev = prv /\ node'[prv].next = nxt
        /\ \A c \in Page : c # b => node'[c].ok = node[c].ok
        /\ \A c \in Page : c # b /\ c # nxt => node'[c].prev = node[c].prev
        /\ \A c \in Page : c # b /\ c # prv => node'[c].next = node[c].next
    BY <1>1, <2>1, <2>2, <2>3, <2>5
  <2>8. ASSUME NEW k \in Level, NEW c \in listed'[k]
        PROVE  /\ node'[c].ok
               /\ node'[c].next \in listed'[k] /\ node'[node'[c].next].prev = c
               /\ node'[c].prev \in listed'[k] /\ node'[node'[c].prev].next = c
    <3>1. c \in listed[k] /\ c \in Page /\ c # b
      BY <1>6, <1>8, <1>9
    <3>2. node'[c].ok
      BY <3>1, <1>6, <2>7
    <3>3. node'[c].next \in listed'[k] /\ node'[node'[c].next].prev = c
      <4>1. CASE c = prv
        <5>1. k = l
          BY <4>1, <3>1, <2>2, <1>8
        <5> QED BY <4>1, <5>1, <1>9, <2>2, <2>5, <2>7
      <4>2. CASE c # prv
        <5>1. node'[c].next = node[c].next /\ node[c].next \in listed[k] /\ node[c].next \in Page
          BY <4>2, <3>1, <1>6, <2>7
        <5>2. node[c].next # b /\ node[c].next # nxt
          BY <4>2, <3>1, <1>6, <2>2
        <5>3. node'[node[c].next].prev = node[node[c].next].prev
          BY <5>1, <5>2, <2>7
        <5>4. node[node[c].next].prev = c
          BY <3>1, <1>6
        <5> QED BY <5>1, <5>2, <5>3, <5>4, <1>9
      <4> QED BY <4>1, <4>2
    <3>4. node'[c].prev \in listed'[k] /\ node'[node'[c].prev].next = c
      <4>1. CASE c = nxt
        <5>1. k = l
          BY <4>1, <3>1, <2>2, <1>8
        <5> QED BY <4>1, <5>1, <1>9, <2>2, <2>3, <2>7
      <4>2. CASE c # nxt
        <5>1. node'[c].prev = node[c].prev /\ node[c].prev \in listed[k] /\ node[c].prev \in Page
          BY <4>2, <3>1, <1>6, <2>7
        <5>2. node[c].prev # b /\ node[c].prev # prv
          BY <4>2, <3>1, <1>6, <2>2
        <5>3. node'[node[c].prev].next = node[node[c].prev].next
          BY <5>1, <5>2, <2>7
        <5>4. node[node[c].prev].next = c
          BY <3>1, <1>6
        <5> QED BY <5>1, <5>2, <5>3, <5>4, <1>9
      <4> QED BY <4>1, <4>2
    <3> QED BY <3>2, <3>3, <3>4
  <2>9. \A k \in Level : head'[k] # 0 => head'[k] \in listed'[k]
    BY <1>1, <1>7, <1>9, <1>10
  <2>10. RingsClosed'
    BY <2>8, <2>9 DEF RingsClosed, Level
  <2> QED BY <1>2, <1>3, <1>4, <1>11, <2>6, <2>10
<1> QED BY <1>12, <1>13

(* The checks of the list primitives pass on closed rings: verify_checksum  *)
(* holds for the head, the tail and the neighbours of a listed block.       *)
LEMMA ChecksPass ==
  ASSUME RingsClosed, NEW l \in Level
  PROVE  AddChecks(l) /\ \A b \in listed[l] : RemoveChecksums(b)
<1>1. AddChecks(l)
  BY DEF RingsClosed, AddChecks
<1>2. \A b \in listed[l] : RemoveChecksums(b)
  BY DEF RingsClosed, RemoveChecksums
<1> QED BY <1>1, <1>2

(* A block disjoint from the listed ones can join them. *)
LEMMA AddKeepsDisjoint ==
  ASSUME ListsDisjoint, listed \in [Level -> SUBSET Page], NEW l \in Level, NEW b,
         listed' = [listed EXCEPT ![l] = @ \cup {b}],
         \A k \in Level : \A c \in listed[k] : Span(c, k) \cap Span(b, l) = {}
  PROVE  ListsDisjoint'
<1>1. \A k \in Level : \A c : c \in listed'[k] <=> (c \in listed[k] \/ (k = l /\ c = b))
  OBVIOUS
<1>2. SUFFICES ASSUME NEW j \in Level, NEW k \in Level, NEW d \in listed'[j], NEW c \in listed'[k],
                      j # k \/ d # c
               PROVE  Span(d, j) \cap Span(c, k) = {}
  BY DEF ListsDisjoint, Level, Span, BlockPages
<1>3. CASE d \in listed[j] /\ c \in listed[k]
  BY <1>2, <1>3 DEF ListsDisjoint
<1>4. CASE ~(d \in listed[j] /\ c \in listed[k])
  BY <1>1, <1>2, <1>4
<1> QED BY <1>3, <1>4

(* Dropping blocks keeps the rest disjoint. *)
LEMMA RemoveKeepsDisjoint ==
  ASSUME ListsDisjoint, listed \in [Level -> SUBSET Page], NEW l \in Level, NEW b,
         listed' = [listed EXCEPT ![l] = @ \ {b}]
  PROVE  ListsDisjoint'
BY DEF ListsDisjoint

(* The initial state satisfies the invariant, whatever ranges are given. *)
LEMMA InitInvariant == Init => IInv
<1> SUFFICES ASSUME Init PROVE IInv
  OBVIOUS
<1>1. /\ head = [l \in Level |-> 0] /\ node = [p \in {0} \cup Page |-> ZeroNode]
      /\ flags = [l \in Level |-> {}] /\ listed = [l \in Level |-> {}]
      /\ todo \in Layouts /\ op = Idle /\ panic = "none" /\ held = {}
      /\ served = UNION {RangePages(todo[i]) : i \in DOMAIN todo}
  BY DEF Init
<1>2. /\ todo \in Seq([base : Nat, size : Nat \ {0}])
      /\ \A i \in DOMAIN todo : RangePages(todo[i]) \subseteq Page
      /\ \A i, j \in DOMAIN todo : i # j => RangePages(todo[i]) \cap RangePages(todo[j]) = {}
  BY <1>1, LayoutAssumption DEF Page
<1>3. \A i \in DOMAIN todo : todo[i] \in [base : Page, size : Nat]
  <2> TAKE i \in DOMAIN todo
  <2>0. DOMAIN todo = 1 .. Len(todo) /\ todo \in [1 .. Len(todo) -> [base : Nat, size : Nat \ {0}]]
    BY <1>2, LenProperties
  <2>1. todo[i] \in [base : Nat, size : Nat \ {0}]
    BY <2>0
  <2>2. todo[i].base \in RangePages(todo[i])
    BY <2>1 DEF RangePages
  <2> QED BY <1>2, <2>1, <2>2
<1>4. todo \in Seq([base : Page, size : Nat])
  <2>1. Len(todo) \in Nat /\ todo \in [1 .. Len(todo) -> [base : Nat, size : Nat \ {0}]]
    BY <1>2, LenProperties
  <2>2. todo \in [1 .. Len(todo) -> [base : Page, size : Nat]]
    BY <2>1, <1>3
  <2> QED BY <2>1, <2>2, SeqDef
<1>5. served \subseteq Page /\ \A i \in DOMAIN todo : RangePages(todo[i]) \subseteq served
  BY <1>1, <1>2
<1>6. TypeOK
  BY <1>1, <1>4, <1>5, AreaAssumption DEF TypeOK, ZeroNode, Idle, Level
<1>7. \A l \in Level : listed[l] = {} /\ flags[l] = {} /\ head[l] = 0
  BY <1>1
<1>8. ListedAligned /\ ListsDisjoint /\ ListsOwned /\ ListsBuilt /\ RingsClosed
  BY <1>7 DEF ListedAligned, ListsDisjoint, ListsOwned, ListsBuilt, RingsClosed
<1>9. FlagsMatchLists
  BY <1>7 DEF FlagsMatchLists
<1>10. OpInv /\ InFlight = {}
  BY <1>1 DEF OpInv, Idle, InFlight
<1>11. TodoInv
  BY <1>1, <1>2, <1>5 DEF TodoInv
<1> QED BY <1>1, <1>6, <1>8, <1>9, <1>10, <1>11 DEF IInv, NoDoubleOwnership, ChecksumsVerify

(* One iteration of init_metadata: the block comes off the front of the     *)
(* first range, and the ranges left stay disjoint from it and each other.   *)
LEMMA InitBlockInvariant ==
  ASSUME BaseAligned
  PROVE  IInv /\ InitBlock => IInv'
<1> SUFFICES ASSUME IInv, InitBlock PROVE IInv'
  OBVIOUS
<1> DEFINE r == Head(todo)
           Rg == [base : Page, size : Nat]
<1>1. /\ todo # <<>> /\ todo \in Seq(Rg) /\ op = Idle /\ held = {} /\ panic = "none"
      /\ listed \in [Level -> SUBSET Page] /\ served \in SUBSET Page
  BY DEF InitBlock, IInv, TodoInv, TypeOK
<1>2. /\ r \in Rg /\ r = todo[1] /\ Tail(todo) \in Seq(Rg) /\ Len(todo) \in Nat \ {0}
      /\ DOMAIN todo = 1 .. Len(todo) /\ Len(Tail(todo)) = Len(todo) - 1
      /\ DOMAIN Tail(todo) = 1 .. Len(todo) - 1
      /\ \A i \in 1 .. Len(todo) - 1 : Tail(todo)[i] = todo[i + 1]
  <2>1. r \in Rg /\ Tail(todo) \in Seq(Rg) /\ Len(Tail(todo)) = Len(todo) - 1
    BY <1>1, HeadTailProperties
  <2>2. Len(todo) \in Nat \ {0} /\ DOMAIN todo = 1 .. Len(todo)
    BY <1>1, LenProperties, EmptySeq
  <2>3. DOMAIN Tail(todo) = 1 .. Len(todo) - 1
    BY <2>1, LenProperties
  <2>4. \A i \in 1 .. Len(todo) - 1 : Tail(todo)[i] = todo[i + 1]
    BY <1>1, <2>1, HeadTailProperties
  <2>5. r = todo[1]
    BY <1>1, <2>2
  <2> QED BY <2>1, <2>2, <2>3, <2>4, <2>5
<1>3. PICK l \in Level :
        /\ Fits(r, l)
        /\ Adding(l, r.base,
             /\ todo' = IF r.size = BlockPages(l)
                        THEN Tail(todo)
                        ELSE [todo EXCEPT ![1] = [base |-> r.base + BlockPages(l),
                                                  size |-> r.size - BlockPages(l)]]
             /\ UNCHANGED <<alloc_mem, free_mem, op, panic, held, served>>)
  BY DEF InitBlock
<1> DEFINE b == r.base
           s == BlockPages(l)
<1>4. AddChecks(l)
  BY ChecksPass DEF IInv
<1>5. /\ AddToList(l, b)
      /\ todo' = IF r.size = s THEN Tail(todo)
                 ELSE [todo EXCEPT ![1] = [base |-> b + s, size |-> r.size - s]]
      /\ op' = op /\ panic' = panic /\ held' = held /\ served' = served
  BY <1>3, <1>4 DEF Adding
<1>6. b \in Page /\ b \in Nat /\ r.size \in Nat /\ s \in Nat \ {0} /\ s <= r.size /\ IsAligned(b, l)
  BY <1>2, <1>3, PowersOfTwo, AreaAssumption DEF Fits, Page
<1>7. Span(b, l) = b .. b + s - 1 /\ RangePages(r) = b .. b + r.size - 1
  BY DEF Span, RangePages
<1>8. RangePages(r) \subseteq served
  BY <1>2 DEF IInv, TodoInv
<1>9. Span(b, l) \subseteq RangePages(r)
  BY <1>6, <1>7
<1>10. \A k \in Level : \A c \in listed[k] : Span(c, k) \cap Span(b, l) = {}
  BY <1>2, <1>9 DEF IInv, NoDoubleOwnership, ListsBuilt
<1>11. \A k \in Level : b \notin listed[k]
  BY <1>1, <1>6, <1>10, SpanStart
<1>12. Lists
  BY DEF IInv, NoDoubleOwnership, Lists
<1>13. /\ head' \in [Level -> {0} \cup Page]
       /\ node' \in [{0} \cup Page -> [next : {0} \cup Page, prev : {0} \cup Page, ok : BOOLEAN]]
       /\ flags' \in [Level -> SUBSET (0 .. Size)]
       /\ listed' = [listed EXCEPT ![l] = @ \cup {b}]
       /\ listed' \in [Level -> SUBSET Page]
       /\ ListedAligned' /\ RingsClosed' /\ FlagsMatchLists'
  BY <1>5, <1>6, <1>11, <1>12, AddKeepsLists
<1>14. ListsDisjoint'
  BY <1>1, <1>10, <1>13, AddKeepsDisjoint DEF IInv, NoDoubleOwnership
<1> HIDE DEF r, b, s
<1>15. /\ todo' \in Seq(Rg)
       /\ \A i \in DOMAIN todo' : \E j \in DOMAIN todo :
            RangePages(todo'[i]) \subseteq RangePages(todo[j])
       /\ \A i \in DOMAIN todo' : RangePages(todo'[i]) \cap Span(b, l) = {}
       /\ \A i, j \in DOMAIN todo' : i # j => RangePages(todo'[i]) \cap RangePages(todo'[j]) = {}
  <2>1. \A i, j \in DOMAIN todo : i # j => RangePages(todo[i]) \cap RangePages(todo[j]) = {}
    BY DEF IInv, TodoInv
  <2>2. CASE r.size = s
    <3>1. todo' = Tail(todo)
      BY <1>5, <2>2
    <3>2. \A i \in DOMAIN todo' : i + 1 \in DOMAIN todo /\ i + 1 # 1 /\ todo'[i] = todo[i + 1]
      BY <3>1, <1>2
    <3>3. 1 \in DOMAIN todo
      BY <1>2
    <3>4. \A i \in DOMAIN todo' : RangePages(todo'[i]) \cap Span(b, l) = {}
      BY <3>2, <3>3, <2>1, <1>2, <1>9
    <3>5. \A i, j \in DOMAIN todo' : i # j => i + 1 # j + 1
      BY <3>1, <1>2
    <3> QED BY <3>1, <3>2, <3>4, <3>5, <2>1, <1>2
  <2>3. CASE r.size # s
    <3> DEFINE q == [base |-> b + s, size |-> r.size - s]
    <3>1. todo' = [todo EXCEPT ![1] = q]
      BY <1>5, <2>3
    <3>2. RangePages(q) = b + s .. b + s + (r.size - s) - 1
      BY DEF RangePages
    <3>3. /\ RangePages(q) \subseteq RangePages(r) /\ RangePages(q) \cap Span(b, l) = {}
          /\ b + s \in RangePages(q)
      BY <3>2, <1>6, <1>7, <2>3
    <3>4. q \in Rg
      BY <3>3, <1>1, <1>6, <1>8
    <3> HIDE DEF q
    <3>5. /\ todo' \in Seq(Rg) /\ Len(todo') = Len(todo)
          /\ \A j \in 1 .. Len(todo) : todo'[j] = IF j = 1 THEN q ELSE todo[j]
      BY <3>1, <3>4, <1>1, <1>2, ExceptSeq
    <3>6. DOMAIN todo' = 1 .. Len(todo) /\ 1 \in DOMAIN todo
      BY <3>5, <1>2, LenProperties
    <3>7. \A j \in DOMAIN todo' : j \in DOMAIN todo /\ RangePages(todo'[j]) \subseteq RangePages(todo[j])
      BY <3>3, <3>5, <3>6, <1>2
    <3>8. \A j \in DOMAIN todo' : RangePages(todo'[j]) \cap Span(b, l) = {}
      BY <3>3, <3>5, <3>6, <2>1, <1>2, <1>9
    <3> QED BY <3>5, <3>7, <3>8, <2>1
  <2> QED BY <2>2, <2>3
<1>16. TypeOK'
  BY <1>1, <1>5, <1>13, <1>15 DEF IInv, TypeOK
<1>17. InFlight = {} /\ InFlight' = {} /\ OpInv'
  BY <1>1, <1>5 DEF InFlight, Idle, OpInv
<1>18. TodoInv'
  <2>1. op' = Idle /\ held' = {}
    BY <1>1, <1>5
  <2>2. \A i \in DOMAIN todo' : RangePages(todo'[i]) \subseteq served'
    <3>1. \A i \in DOMAIN todo : RangePages(todo[i]) \subseteq served
      BY DEF IInv, TodoInv
    <3> TAKE i \in DOMAIN todo'
    <3>2. PICK j \in DOMAIN todo : RangePages(todo'[i]) \subseteq RangePages(todo[j])
      BY <1>15
    <3> QED BY <3>1, <3>2, <1>5
  <2> QED BY <2>1, <2>2, <1>15 DEF TodoInv, Idle
<1>19. ListsOwned'
  BY <1>1, <1>5, <1>8, <1>9, <1>13, <1>17 DEF IInv, NoDoubleOwnership, ListsOwned
<1>20. ListsBuilt'
  <2> SUFFICES ASSUME NEW i \in DOMAIN todo', NEW k \in Level, NEW c \in listed'[k]
               PROVE  RangePages(todo'[i]) \cap Span(c, k) = {}
    BY DEF ListsBuilt
  <2>1. CASE c \in listed[k]
    BY <2>1, <1>15 DEF IInv, NoDoubleOwnership, ListsBuilt
  <2>2. CASE c \notin listed[k]
    BY <2>2, <1>1, <1>13, <1>15
  <2> QED BY <2>1, <2>2
<1> QED
  BY <1>1, <1>5, <1>13, <1>14, <1>16, <1>17, <1>18, <1>19, <1>20
     DEF IInv, NoDoubleOwnership, ChecksumsVerify

(* Once construction is over there is nothing to say of `todo`. *)
LEMMA NothingToAdd ==
  ASSUME todo = <<>>, todo' = todo
  PROVE  TodoInv' /\ ListsBuilt'
<1>1. DOMAIN todo' = {} /\ todo' = <<>>
  OBVIOUS
<1> QED BY <1>1 DEF TodoInv, ListsBuilt

(* A failed sanity check leaves the allocator's state as it was. *)
LEMMA PanicInvariant == IInv /\ Panic("list head") => IInv'
<1> SUFFICES ASSUME IInv, Panic("list head") PROVE IInv'
  OBVIOUS
<1>1. panic' = "list head" /\ UNCHANGED <<head, node, flags, todo, op, held, listed, served>>
  BY DEF Panic
<1>2. TypeOK'
  BY <1>1 DEF IInv, TypeOK
<1>3. ListedAligned' /\ OpInv' /\ TodoInv' /\ RingsClosed' /\ FlagsMatchLists'
  BY <1>1 DEF IInv, ListedAligned, OpInv, TodoInv, RingsClosed, FlagsMatchLists
<1>4. NoDoubleOwnership'
  BY <1>1 DEF IInv, NoDoubleOwnership, ListsDisjoint, ListsOwned, ListsBuilt, InFlight
<1> QED BY <1>1, <1>2, <1>3, <1>4 DEF IInv, ChecksumsVerify

(* allocate: the popped block moves from its list to the call. *)
LEMMA AllocatePopInvariant ==
  ASSUME BaseAligned, IInv, NEW pages, AllocatePop(pages)
  PROVE  IInv'
<1>1. /\ todo = <<>> /\ panic = "none" /\ op = Idle /\ InFlight = {}
      /\ listed \in [Level -> SUBSET Page] /\ held \subseteq served
  BY DEF AllocatePop, Ready, InFlight, Idle, IInv, TypeOK, NoDoubleOwnership
<1>2. PICK t \in Level, l \in Level :
        /\ Available(pages, t, l)
        /\ Removing(l, head[l],
             /\ op' = [kind |-> "alloc", block |-> head[l], level |-> l, target |-> t]
             /\ UNCHANGED <<todo, alloc_mem, free_mem, panic, held, served>>)
  BY DEF AllocatePop
<1> DEFINE b == head[l]
<1>3. b \in listed[l] /\ t <= l
  BY <1>2 DEF IInv, RingsClosed, Available
<1>4. RemoveChecksums(b)
  BY <1>3, ChecksPass DEF IInv
<1>5. CASE ~RemoveSanity(l, b)
  BY <1>2, <1>4, <1>5, PanicInvariant DEF Removing
<1>6. CASE RemoveSanity(l, b)
  <2>1. /\ RemoveFromList(l, b)
        /\ op' = [kind |-> "alloc", block |-> b, level |-> l, target |-> t]
        /\ todo' = todo /\ panic' = panic /\ held' = held /\ served' = served
    BY <1>2, <1>4, <1>6 DEF Removing
  <2> HIDE DEF b
  <2>2. Lists
    BY DEF IInv, NoDoubleOwnership, Lists
  <2>3. /\ head' \in [Level -> {0} \cup Page]
        /\ node' \in [{0} \cup Page -> [next : {0} \cup Page, prev : {0} \cup Page, ok : BOOLEAN]]
        /\ flags' \in [Level -> SUBSET (0 .. Size)]
        /\ listed' = [listed EXCEPT ![l] = @ \ {b}]
        /\ listed' \in [Level -> SUBSET Page]
        /\ ListedAligned' /\ RingsClosed' /\ FlagsMatchLists'
    BY <1>3, <1>6, <2>1, <2>2, RemoveKeepsLists
  <2>4. b \in Page /\ IsAligned(b, l)
    BY <1>1, <1>3 DEF IInv, ListedAligned
  <2>5. ListsDisjoint'
    BY <1>1, <2>3, RemoveKeepsDisjoint DEF IInv, NoDoubleOwnership
  <2>6. InFlight' = Span(b, l)
    BY <2>1 DEF InFlight
  <2>7. Span(b, l) \subseteq served \ held
    BY <1>1, <1>3 DEF IInv, NoDoubleOwnership, ListsOwned
  <2>8. ListsOwned'
    <3> SUFFICES ASSUME NEW k \in Level, NEW c \in listed'[k]
                 PROVE  Span(c, k) \subseteq served' \ (held' \cup InFlight')
      BY DEF ListsOwned
    <3>1. c \in listed[k] /\ (k # l \/ c # b)
      BY <1>1, <2>3
    <3>2. Span(c, k) \cap Span(b, l) = {}
      BY <3>1, <1>3 DEF IInv, NoDoubleOwnership, ListsDisjoint
    <3>3. Span(c, k) \subseteq served \ held
      BY <3>1 DEF IInv, NoDoubleOwnership, ListsOwned
    <3> QED BY <2>1, <2>6, <3>2, <3>3
  <2>9. OpInv'
    BY <1>3, <2>1, <2>4 DEF OpInv
  <2>10. TypeOK'
    <3>1. l \in 0 .. Levels
      BY AreaAssumption DEF Level
    <3> QED BY <3>1, <2>1, <2>3, <2>4 DEF IInv, TypeOK
  <2>11. TodoInv' /\ ListsBuilt'
    BY <1>1, <2>1, NothingToAdd
  <2> QED
    BY <1>1, <2>1, <2>3, <2>5, <2>6, <2>7, <2>8, <2>9, <2>10, <2>11
       DEF IInv, NoDoubleOwnership, ChecksumsVerify
<1> QED BY <1>5, <1>6

(* split_free_block: the odd half goes from the call to a list. *)
LEMMA AllocateSplitInvariant ==
  ASSUME BaseAligned
  PROVE  IInv /\ AllocateSplit => IInv'
<1> SUFFICES ASSUME IInv, AllocateSplit PROVE IInv'
  OBVIOUS
<1> DEFINE l == op.level - 1
           b == OrBit(op.block, l)
<1>1. /\ todo = <<>> /\ panic = "none" /\ op.kind = "alloc"
      /\ listed \in [Level -> SUBSET Page] /\ served \subseteq Page /\ held \subseteq served
  BY DEF AllocateSplit, Ready, IInv, TypeOK, NoDoubleOwnership
<1>2. op \in [kind : {"idle", "alloc", "free"}, block : {0} \cup Page, level : 0 .. Levels, target : Level]
  BY DEF IInv, TypeOK
<1>3. /\ l \in Level /\ op.level = l + 1 /\ l + 1 \in Level /\ op.target <= l
      /\ op.block \in Page /\ IsAligned(op.block, l + 1)
  <2>1. op.level > op.target /\ op.level \in Level /\ op.block \in Page /\ IsAligned(op.block, op.level)
    BY <1>1 DEF AllocateSplit, IInv, OpInv
  <2>2. op.target \in Level
    BY <1>2
  <2>3. l \in Level /\ op.level = l + 1 /\ op.target <= l
    BY <2>1, <2>2, AreaAssumption DEF Level
  <2> QED BY <2>1, <2>3
<1>4. Adding(l, b, /\ op' = [op EXCEPT !.level = l]
                   /\ UNCHANGED <<todo, alloc_mem, free_mem, panic, held, served>>)
  BY DEF AllocateSplit
<1> HIDE DEF l, b
<1>5. AddChecks(l)
  BY <1>3, ChecksPass DEF IInv
<1>6. /\ AddToList(l, b) /\ op' = [op EXCEPT !.level = l]
      /\ todo' = todo /\ panic' = panic /\ held' = held /\ served' = served
  BY <1>4, <1>5 DEF Adding
<1>7. op.block \in Nat
  BY <1>3, AreaAssumption DEF Page
<1>8. /\ IsAligned(op.block, l) /\ IsAligned(b, l) /\ b \in Nat
      /\ Span(op.block, l + 1) = Span(op.block, l) \cup Span(b, l)
      /\ Span(op.block, l) \cap Span(b, l) = {}
  BY <1>3, <1>7, SplitFacts DEF b
<1>9. InFlight = Span(op.block, l + 1) /\ InFlight' = Span(op.block, l)
  BY <1>1, <1>2, <1>3, <1>6 DEF InFlight
<1>10. InFlight \subseteq served \ held
  BY DEF IInv, NoDoubleOwnership
<1>11. b \in Page
  <2>1. b \in Span(b, l)
    BY <1>3, <1>8, SpanStart
  <2> QED BY <2>1, <1>1, <1>8, <1>9, <1>10
<1>12. \A k \in Level : \A c \in listed[k] :
         Span(c, k) \subseteq served \ held /\ Span(c, k) \cap InFlight = {}
  BY DEF IInv, NoDoubleOwnership, ListsOwned
<1>13. \A k \in Level : \A c \in listed[k] : Span(c, k) \cap Span(b, l) = {}
  BY <1>8, <1>9, <1>12
<1>14. \A k \in Level : b \notin listed[k]
  BY <1>3, <1>8, <1>13, SpanStart
<1>15. Lists
  BY DEF IInv, NoDoubleOwnership, Lists
<1>16. /\ head' \in [Level -> {0} \cup Page]
       /\ node' \in [{0} \cup Page -> [next : {0} \cup Page, prev : {0} \cup Page, ok : BOOLEAN]]
       /\ flags' \in [Level -> SUBSET (0 .. Size)]
       /\ listed' = [listed EXCEPT ![l] = @ \cup {b}]
       /\ listed' \in [Level -> SUBSET Page]
       /\ ListedAligned' /\ RingsClosed' /\ FlagsMatchLists'
  BY <1>3, <1>6, <1>8, <1>11, <1>14, <1>15, AddKeepsLists
<1>17. ListsDisjoint'
  BY <1>1, <1>3, <1>13, <1>16, AddKeepsDisjoint DEF IInv, NoDoubleOwnership
<1>18. ListsOwned'
  <2> SUFFICES ASSUME NEW k \in Level, NEW c \in listed'[k]
               PROVE  Span(c, k) \subseteq served' \ (held' \cup InFlight')
    BY DEF ListsOwned
  <2>1. CASE c \in listed[k]
    BY <2>1, <1>6, <1>8, <1>9, <1>12
  <2>2. CASE c \notin listed[k]
    <3>1. k = l /\ c = b
      BY <2>2, <1>1, <1>16
    <3> QED BY <3>1, <1>6, <1>8, <1>9, <1>10
  <2> QED BY <2>1, <2>2
<1>19. OpInv'
  BY <1>1, <1>2, <1>3, <1>6, <1>8 DEF OpInv
<1>20. TypeOK'
  <2>1. l \in 0 .. Levels
    BY <1>3, AreaAssumption DEF Level
  <2> QED BY <2>1, <1>2, <1>6, <1>16 DEF IInv, TypeOK
<1>21. TodoInv' /\ ListsBuilt'
  BY <1>1, <1>6, NothingToAdd
<1>22. InFlight' \subseteq served' \ held'
  BY <1>6, <1>8, <1>9, <1>10
<1> QED
  BY <1>1, <1>6, <1>16, <1>17, <1>18, <1>19, <1>20, <1>21, <1>22
     DEF IInv, NoDoubleOwnership, ChecksumsVerify

(* Steps that only move pages between a client and the call in progress. *)
LEMMA ListsUntouched ==
  ASSUME IInv, UNCHANGED <<head, node, flags, listed>>
  PROVE  ListedAligned' /\ ListsDisjoint' /\ RingsClosed' /\ FlagsMatchLists'
BY DEF IInv, NoDoubleOwnership, ListedAligned, ListsDisjoint, RingsClosed, FlagsMatchLists

(* allocate returns: the call's block becomes the client's. *)
LEMMA AllocateReturnInvariant == IInv /\ AllocateReturn => IInv'
<1> SUFFICES ASSUME IInv, AllocateReturn PROVE IInv'
  OBVIOUS
<1>1. /\ todo = <<>> /\ panic = "none" /\ op.kind = "alloc" /\ op.level = op.target
      /\ held' = held \cup Span(op.block, op.target) /\ op' = Idle
      /\ UNCHANGED <<head, node, flags, listed, todo, panic, served>>
  BY DEF AllocateReturn, Ready, allocVars
<1>2. InFlight = Span(op.block, op.target) /\ InFlight' = {}
  BY <1>1 DEF InFlight, Idle
<1>3. InFlight \subseteq served \ held /\ held \subseteq served /\ served \subseteq Page
  BY DEF IInv, NoDoubleOwnership, TypeOK
<1>4. ListsOwned'
  BY <1>1, <1>2 DEF IInv, NoDoubleOwnership, ListsOwned
<1>5. OpInv'
  BY <1>1 DEF OpInv, Idle
<1>6. TypeOK'
  BY <1>1, <1>2, <1>3, AreaAssumption DEF IInv, TypeOK, Idle, Level
<1>7. TodoInv' /\ ListsBuilt'
  BY <1>1, NothingToAdd
<1>8. ListedAligned' /\ ListsDisjoint' /\ RingsClosed' /\ FlagsMatchLists'
  BY <1>1, ListsUntouched
<1> QED
  BY <1>1, <1>2, <1>3, <1>4, <1>5, <1>6, <1>7, <1>8 DEF IInv, NoDoubleOwnership, ChecksumsVerify

(* free is called: the client's pages become the call's. *)
LEMMA FreeInvariant ==
  ASSUME IInv, NEW b \in Page, NEW l \in Level, Free(b, l)
  PROVE  IInv'
<1>1. /\ todo = <<>> /\ panic = "none" /\ op = Idle
      /\ IsAligned(b, l) /\ Span(b, l) \subseteq held
      /\ held' = held \ Span(b, l)
      /\ op' = [kind |-> "free", block |-> b, level |-> l, target |-> l]
      /\ UNCHANGED <<head, node, flags, listed, todo, panic, served>>
  BY DEF Free, Ready, allocVars
<1>2. InFlight = {} /\ InFlight' = Span(b, l)
  BY <1>1 DEF InFlight, Idle
<1>3. held \subseteq served /\ served \subseteq Page
  BY DEF IInv, NoDoubleOwnership, TypeOK
<1>4. ListsOwned'
  BY <1>1, <1>2 DEF IInv, NoDoubleOwnership, ListsOwned
<1>5. OpInv'
  BY <1>1 DEF OpInv
<1>6. TypeOK'
  <2>1. l \in 0 .. Levels
    BY AreaAssumption DEF Level
  <2> QED BY <2>1, <1>1, <1>3 DEF IInv, TypeOK
<1>7. TodoInv' /\ ListsBuilt'
  BY <1>1, NothingToAdd
<1>8. ListedAligned' /\ ListsDisjoint' /\ RingsClosed' /\ FlagsMatchLists'
  BY <1>1, ListsUntouched
<1> QED
  BY <1>1, <1>2, <1>3, <1>4, <1>5, <1>6, <1>7, <1>8 DEF IInv, NoDoubleOwnership, ChecksumsVerify

(* free ends: the (coalesced) block goes from the call to a list. *)
LEMMA FreeLinkInvariant ==
  ASSUME BaseAligned
  PROVE  IInv /\ FreeLink => IInv'
<1> SUFFICES ASSUME IInv, FreeLink PROVE IInv'
  OBVIOUS
<1> DEFINE l == op.level
           b == op.block
<1>1. /\ todo = <<>> /\ panic = "none" /\ op.kind = "free" /\ l \in Level
      /\ listed \in [Level -> SUBSET Page] /\ held \subseteq served
  BY DEF FreeLink, Freeing, Ready, IInv, TypeOK, NoDoubleOwnership
<1>2. b \in Page /\ IsAligned(b, l)
  BY <1>1 DEF IInv, OpInv
<1>3. AddChecks(l)
  BY <1>1, ChecksPass DEF IInv
<1>4. /\ AddToList(l, b) /\ op' = Idle
      /\ todo' = todo /\ panic' = panic /\ held' = held /\ served' = served
  BY <1>3 DEF FreeLink, Adding, FreeCounts
<1>5. InFlight = Span(b, l) /\ InFlight' = {}
  BY <1>1, <1>4 DEF InFlight, Idle
<1> HIDE DEF l, b
<1>6. InFlight \subseteq served \ held
  BY DEF IInv, NoDoubleOwnership
<1>7. \A k \in Level : \A c \in listed[k] :
        Span(c, k) \subseteq served \ held /\ Span(c, k) \cap Span(b, l) = {}
  BY <1>5 DEF IInv, NoDoubleOwnership, ListsOwned
<1>8. \A k \in Level : b \notin listed[k]
  <2>1. b \in Nat
    BY <1>2, AreaAssumption DEF Page
  <2> QED BY <2>1, <1>1, <1>7, SpanStart
<1>9. Lists
  BY DEF IInv, NoDoubleOwnership, Lists
<1>10. /\ head' \in [Level -> {0} \cup Page]
       /\ node' \in [{0} \cup Page -> [next : {0} \cup Page, prev : {0} \cup Page, ok : BOOLEAN]]
       /\ flags' \in [Level -> SUBSET (0 .. Size)]
       /\ listed' = [listed EXCEPT ![l] = @ \cup {b}]
       /\ listed' \in [Level -> SUBSET Page]
       /\ ListedAligned' /\ RingsClosed' /\ FlagsMatchLists'
  BY <1>1, <1>2, <1>4, <1>8, <1>9, AddKeepsLists
<1>11. ListsDisjoint'
  BY <1>1, <1>7, <1>10, AddKeepsDisjoint DEF IInv, NoDoubleOwnership
<1>12. ListsOwned'
  <2> SUFFICES ASSUME NEW k \in Level, NEW c \in listed'[k]
               PROVE  Span(c, k) \subseteq served' \ (held' \cup InFlight')
    BY DEF ListsOwned
  <2>1. CASE c \in listed[k]
    BY <2>1, <1>4, <1>5, <1>7
  <2>2. CASE c \notin listed[k]
    <3>1. k = l /\ c = b
      BY <2>2, <1>1, <1>10
    <3> QED BY <3>1, <1>4, <1>5, <1>6
  <2> QED BY <2>1, <2>2
<1>13. OpInv'
  BY <1>4 DEF OpInv, Idle
<1>14. TypeOK'
  <2>1. op' \in [kind : {"idle", "alloc", "free"}, block : {0} \cup Page,
                 level : 0 .. Levels, target : Level]
    BY <1>4, AreaAssumption DEF Idle, Level
  <2>2. TypeOK
    BY DEF IInv
  <2> QED BY <1>4, <1>10, <2>1, <2>2 DEF TypeOK
<1>15. TodoInv' /\ ListsBuilt'
  BY <1>1, <1>4, NothingToAdd
<1> QED
  BY <1>1, <1>4, <1>5, <1>10, <1>11, <1>12, <1>13, <1>14, <1>15
     DEF IInv, NoDoubleOwnership, ChecksumsVerify

(* free coalesces: the pair's bit says the buddy is on the list, so it      *)
(* joins the freed block in the call.                                       *)
LEMMA FreeCoalesceInvariant ==
  ASSUME BaseAligned
  PROVE  IInv /\ FreeCoalesce => IInv'
<1> SUFFICES ASSUME IInv, FreeCoalesce PROVE IInv'
  OBVIOUS
<1> DEFINE l == op.level
           b == op.block
           buddy == Buddy(b, l)
           low == IF buddy < b THEN buddy ELSE b
<1>1. /\ todo = <<>> /\ panic = "none" /\ op.kind = "free" /\ l \in Level
      /\ listed \in [Level -> SUBSET Page] /\ held \subseteq served
      /\ BlockPair(b, l) \in flags[l]
  BY DEF FreeCoalesce, Freeing, BuddyFree, Ready, IInv, TypeOK, NoDoubleOwnership
<1>2. op \in [kind : {"idle", "alloc", "free"}, block : {0} \cup Page, level : 0 .. Levels, target : Level]
  BY DEF IInv, TypeOK
<1>3. b \in Page /\ IsAligned(b, l) /\ b \in Nat
  BY <1>1, AreaAssumption DEF IInv, OpInv, Page
<1>4. Removing(l, buddy,
        /\ op' = [op EXCEPT !.block = low, !.level = l + 1]
        /\ UNCHANGED <<todo, alloc_mem, free_mem, panic, held, served>>)
  BY DEF FreeCoalesce
<1>5. InFlight = Span(b, l)
  BY <1>1 DEF InFlight
<1> HIDE DEF l, b
<1>6. \A k \in Level : \A c \in listed[k] :
        Span(c, k) \subseteq served \ held /\ Span(c, k) \cap Span(b, l) = {}
  BY <1>5 DEF IInv, NoDoubleOwnership, ListsOwned
<1>7. b \notin listed[l]
  BY <1>1, <1>3, <1>6, SpanStart
<1>8. buddy \in listed[l] /\ buddy \in Page
  <2>1. BlockPair(b, l) \in flags[l] <=> ~(b \in listed[l] <=> buddy \in listed[l])
    BY <1>1, <1>3 DEF IInv, FlagsMatchLists
  <2> QED BY <2>1, <1>1, <1>7
<1>9. RemoveChecksums(buddy)
  BY <1>1, <1>8, ChecksPass DEF IInv
<1>10. CASE ~RemoveSanity(l, buddy)
  BY <1>4, <1>9, <1>10, PanicInvariant DEF Removing
<1>11. CASE RemoveSanity(l, buddy)
  <2>1. /\ RemoveFromList(l, buddy)
        /\ op' = [op EXCEPT !.block = low, !.level = l + 1]
        /\ todo' = todo /\ panic' = panic /\ held' = held /\ served' = served
    BY <1>4, <1>9, <1>11 DEF Removing
  <2>2. Lists
    BY DEF IInv, NoDoubleOwnership, Lists
  <2>3. Span(low, l + 1) = Span(b, l) \cup Span(buddy, l) /\ (l + 1 \in Level => IsAligned(low, l + 1))
    BY <1>1, <1>3, MergeFacts
  <2>4. low \in Page
    BY <1>3, <1>8
  <2> HIDE DEF low, buddy
  <2>5. /\ head' \in [Level -> {0} \cup Page]
        /\ node' \in [{0} \cup Page -> [next : {0} \cup Page, prev : {0} \cup Page, ok : BOOLEAN]]
        /\ flags' \in [Level -> SUBSET (0 .. Size)]
        /\ listed' = [listed EXCEPT ![l] = @ \ {buddy}]
        /\ listed' \in [Level -> SUBSET Page]
        /\ ListedAligned' /\ RingsClosed' /\ FlagsMatchLists'
    BY <1>1, <1>8, <1>11, <2>1, <2>2, RemoveKeepsLists
  <2>6. ListsDisjoint'
    BY <1>1, <2>5, RemoveKeepsDisjoint DEF IInv, NoDoubleOwnership
  <2>7. InFlight' = Span(b, l) \cup Span(buddy, l)
    BY <1>1, <1>2, <2>1, <2>3 DEF InFlight
  <2>8. InFlight' \subseteq served' \ held'
    <3>1. Span(b, l) \subseteq served \ held
      BY <1>5 DEF IInv, NoDoubleOwnership
    <3> QED BY <3>1, <1>1, <1>6, <1>8, <2>1, <2>7
  <2>9. ListsOwned'
    <3> SUFFICES ASSUME NEW k \in Level, NEW c \in listed'[k]
                 PROVE  Span(c, k) \subseteq served' \ (held' \cup InFlight')
      BY DEF ListsOwned
    <3>1. c \in listed[k] /\ (k # l \/ c # buddy)
      BY <1>1, <2>5
    <3>2. Span(c, k) \cap Span(buddy, l) = {}
      BY <3>1, <1>1, <1>8 DEF IInv, NoDoubleOwnership, ListsDisjoint
    <3> QED BY <3>1, <3>2, <1>6, <2>1, <2>7
  <2>10. l + 1 \in 0 .. Levels
    BY <1>1, AreaAssumption DEF Level
  <2>11. OpInv'
    BY <1>1, <1>2, <2>1, <2>3, <2>4, <2>10 DEF OpInv
  <2>12. TypeOK'
    BY <1>2, <2>1, <2>4, <2>5, <2>10 DEF IInv, TypeOK
  <2>13. TodoInv' /\ ListsBuilt'
    BY <1>1, <2>1, NothingToAdd
  <2> QED
    BY <1>1, <2>1, <2>5, <2>6, <2>8, <2>9, <2>11, <2>12, <2>13
       DEF IInv, NoDoubleOwnership, ChecksumsVerify
<1> QED BY <1>10, <1>11

(* free runs out of levels: the largest block and its buddy are forgotten.  *)
LEMMA FreeExhaustedInvariant == IInv /\ FreeExhausted => IInv'
<1> SUFFICES ASSUME IInv, FreeExhausted PROVE IInv'
  OBVIOUS
<1>1. /\ todo = <<>> /\ panic = "none" /\ op' = Idle
      /\ UNCHANGED <<head, node, flags, listed, todo, panic, held, served>>
  BY DEF FreeExhausted, FreeCounts, Freeing, Ready, allocVars
<1>2. InFlight' = {}
  BY <1>1 DEF InFlight, Idle
<1>3. ListsOwned'
  BY <1>1, <1>2 DEF IInv, NoDoubleOwnership, ListsOwned
<1>4. OpInv'
  BY <1>1 DEF OpInv, Idle
<1>5. TypeOK'
  <2>1. op' \in [kind : {"idle", "alloc", "free"}, block : {0} \cup Page,
                 level : 0 .. Levels, target : Level]
    BY <1>1, AreaAssumption DEF Idle, Level
  <2>2. TypeOK
    BY DEF IInv
  <2> QED BY <1>1, <2>1, <2>2 DEF TypeOK
<1>6. TodoInv' /\ ListsBuilt'
  BY <1>1, NothingToAdd
<1>7. ListedAligned' /\ ListsDisjoint' /\ RingsClosed' /\ FlagsMatchLists'
  BY <1>1, ListsUntouched
<1> QED
  BY <1>1, <1>2, <1>3, <1>4, <1>5, <1>6, <1>7 DEF IInv, NoDoubleOwnership, ChecksumsVerify

(* A client writes over a page it owns: no node of a list lives there.      *)
LEMMA ClientWriteInvariant ==
  ASSUME IInv, NEW p \in Page, ClientWrite(p)
  PROVE  IInv'
<1>1. /\ p \in held
      /\ node' = [node EXCEPT ![p] = ZeroNode]
      /\ UNCHANGED <<head, flags, todo, op, panic, held, listed, served>>
  BY DEF ClientWrite
<1>2. \A l \in Level : listed[l] \subseteq Page /\ p \notin listed[l]
  <2> SUFFICES ASSUME NEW l \in Level PROVE listed[l] \subseteq Page /\ p \notin listed[l]
    OBVIOUS
  <2>1. listed[l] \subseteq Page
    BY DEF IInv, TypeOK
  <2>2. p \in Nat
    BY AreaAssumption DEF Page
  <2>3. ASSUME p \in listed[l] PROVE FALSE
    <3>1. p \in Span(p, l)
      BY <2>2, SpanStart
    <3>2. Span(p, l) \subseteq served \ (held \cup InFlight)
      BY <2>3 DEF IInv, NoDoubleOwnership, ListsOwned
    <3> QED BY <3>1, <3>2, <1>1
  <2> QED BY <2>1, <2>3
<1>3. node \in [{0} \cup Page -> [next : {0} \cup Page, prev : {0} \cup Page, ok : BOOLEAN]]
  BY DEF IInv, TypeOK
<1>4. \A l \in Level : \A b \in listed[l] : node'[b] = node[b]
  BY <1>1, <1>2, <1>3
<1>5. RingsClosed'
  <2> SUFFICES ASSUME NEW l \in Level
               PROVE  /\ head[l] # 0 => head[l] \in listed[l]
                      /\ \A b \in listed[l] :
                           /\ node'[b].ok
                           /\ node'[b].next \in listed[l] /\ node'[node'[b].next].prev = b
                           /\ node'[b].prev \in listed[l] /\ node'[node'[b].prev].next = b
    BY <1>1 DEF RingsClosed
  <2>1. /\ head[l] # 0 => head[l] \in listed[l]
        /\ \A b \in listed[l] :
             /\ node[b].ok
             /\ node[b].next \in listed[l] /\ node[node[b].next].prev = b
             /\ node[b].prev \in listed[l] /\ node[node[b].prev].next = b
    BY DEF IInv, RingsClosed
  <2> SUFFICES ASSUME NEW b \in listed[l]
               PROVE  /\ node'[b].ok
                      /\ node'[b].next \in listed[l] /\ node'[node'[b].next].prev = b
                      /\ node'[b].prev \in listed[l] /\ node'[node'[b].prev].next = b
    BY <2>1
  <2>2. node'[b] = node[b] /\ node[b].next \in listed[l] /\ node[b].prev \in listed[l]
    BY <2>1, <1>4
  <2>3. node'[node[b].next] = node[node[b].next] /\ node'[node[b].prev] = node[node[b].prev]
    BY <2>2, <1>4
  <2> QED BY <2>1, <2>2, <2>3
<1>6. TypeOK'
  <2>1. node' \in [{0} \cup Page -> [next : {0} \cup Page, prev : {0} \cup Page, ok : BOOLEAN]]
    BY <1>1, <1>3 DEF ZeroNode
  <2>2. TypeOK
    BY DEF IInv
  <2> QED BY <1>1, <2>1, <2>2 DEF TypeOK
<1>7. ListedAligned' /\ OpInv' /\ TodoInv' /\ FlagsMatchLists' /\ ChecksumsVerify'
  BY <1>1 DEF IInv, ListedAligned, OpInv, TodoInv, FlagsMatchLists, ChecksumsVerify
<1>8. NoDoubleOwnership'
  BY <1>1 DEF IInv, NoDoubleOwnership, ListsDisjoint, ListsOwned, ListsBuilt, InFlight
<1> QED BY <1>5, <1>6, <1>7, <1>8 DEF IInv

(* A step that changes nothing: a request that finds no block, the halted   *)
(* core, or a stuttering step.                                              *)
LEMMA StutterInvariant == IInv /\ UNCHANGED vars => IInv'
<1> SUFFICES ASSUME IInv, UNCHANGED vars PROVE IInv'
  OBVIOUS
<1>1. UNCHANGED <<head, node, flags, todo, op, panic, held, listed, served>>
  BY DEF vars
<1>2. TypeOK' /\ ListedAligned' /\ OpInv' /\ TodoInv'
  BY <1>1 DEF IInv, TypeOK, ListedAligned, OpInv, TodoInv
<1>3. NoDoubleOwnership'
  BY <1>1 DEF IInv, NoDoubleOwnership, ListsDisjoint, ListsOwned, ListsBuilt, InFlight
<1>4. RingsClosed' /\ FlagsMatchLists' /\ ChecksumsVerify'
  BY <1>1 DEF IInv, RingsClosed, FlagsMatchLists, ChecksumsVerify
<1> QED BY <1>2, <1>3, <1>4 DEF IInv

(* Every step of the allocator and of its clients keeps the invariant. *)
LEMMA NextInvariant ==
  ASSUME BaseAligned
  PROVE  IInv /\ [Next]_vars => IInv'
<1> SUFFICES ASSUME IInv, [Next]_vars PROVE IInv'
  OBVIOUS
<1>1. CASE InitBlock
  BY <1>1, InitBlockInvariant
<1>2. CASE \E pages \in 0 .. BlockPages(Levels - 1) + 1 : AllocateNone(pages) \/ AllocatePop(pages)
  <2>1. PICK pages : AllocateNone(pages) \/ AllocatePop(pages)
    BY <1>2
  <2>2. CASE AllocateNone(pages)
    BY <2>2, StutterInvariant DEF AllocateNone
  <2>3. CASE AllocatePop(pages)
    BY <2>3, AllocatePopInvariant
  <2> QED BY <2>1, <2>2, <2>3
<1>3. CASE AllocateSplit
  BY <1>3, AllocateSplitInvariant
<1>4. CASE AllocateReturn
  BY <1>4, AllocateReturnInvariant
<1>5. CASE \E b \in Page, l \in Level : Free(b, l)
  BY <1>5, FreeInvariant
<1>6. CASE FreeLink
  BY <1>6, FreeLinkInvariant
<1>7. CASE FreeCoalesce
  BY <1>7, FreeCoalesceInvariant
<1>8. CASE FreeExhausted
  BY <1>8, FreeExhaustedInvariant
<1>9. CASE \E p \in Page : ClientWrite(p)
  BY <1>9, ClientWriteInvariant
<1>10. CASE Halt
  BY <1>10, StutterInvariant DEF Halt
<1>11. CASE UNCHANGED vars
  BY <1>11, StutterInvariant
<1> QED
  BY <1>1, <1>2, <1>3, <1>4, <1>5, <1>6, <1>7, <1>8, <1>9, <1>10, <1>11 DEF Next

(* The inductive invariant holds in every reachable state of the code of    *)
(* page_allocator.rs, for every aligned area and every number of levels.    *)
THEOREM Invariance ==
  ASSUME BaseAligned
  PROVE  Spec => []IInv
BY InitInvariant, NextInvariant, PTL DEF Spec

(* The metadata keeps its types: every block linked by add_to_list is a     *)
(* page of the area, for any sequence of allocate and free calls.           *)
THEOREM TypeCorrect ==
  ASSUME BaseAligned
  PROVE  Spec => []TypeOK
<1>1. IInv => TypeOK
  BY DEF IInv
<1> QED BY <1>1, Invariance, PTL

(* No page is ever owned twice, across every split of allocate and every    *)
(* coalesce of free.                                                        *)
THEOREM PagesOwnedOnce ==
  ASSUME BaseAligned
  PROVE  Spec => []NoDoubleOwnership
<1>1. IInv => NoDoubleOwnership
  BY DEF IInv
<1> QED BY <1>1, Invariance, PTL

(* The rings add_to_list and remove_from_list walk are closed: their        *)
(* traversals stay among the free blocks of the level.                      *)
THEOREM ListsAreRings ==
  ASSUME BaseAligned
  PROVE  Spec => []RingsClosed
<1>1. IInv => RingsClosed
  BY DEF IInv
<1> QED BY <1>1, Invariance, PTL

(* The pair bits free tests tell exactly which buddies are on the lists.    *)
THEOREM FlagsTrackLists ==
  ASSUME BaseAligned
  PROVE  Spec => []FlagsMatchLists
<1>1. IInv => FlagsMatchLists
  BY DEF IInv
<1> QED BY <1>1, Invariance, PTL

(* The checksum assertion of get_block_node_mut never panics.               *)
THEOREM NoChecksumPanic ==
  ASSUME BaseAligned
  PROVE  Spec => []ChecksumsVerify
<1>1. IInv => ChecksumsVerify
  BY DEF IInv
<1> QED BY <1>1, Invariance, PTL

(* What alloc and free of the PageAllocator trait promise: the allocator's  *)
(* steps are the contract's Alloc, the contract's Free, or none of the      *)
(* client's business.                                                       *)
LEMMA StepImplements ==
  ASSUME IInv, [Next]_vars
  PROVE  [Contract!Next]_<<served, held>>
<1> USE DEF Contract!Next, Contract!Alloc, Contract!Free, Contract!Block
<1>1. CASE AllocateReturn
  <2> DEFINE b == op.block
             l == op.target
  <2>1. /\ op.kind = "alloc" /\ op.level = l /\ l \in Level
        /\ held' = held \cup Span(b, l) /\ served' = served
    BY <1>1 DEF AllocateReturn, IInv, TypeOK
  <2>2. b \in Page /\ IsAligned(b, l)
    BY <2>1 DEF IInv, OpInv
  <2>3. Span(b, l) \subseteq served \ held
    BY <2>1 DEF IInv, NoDoubleOwnership, InFlight
  <2>4. b \in served
    <3>1. b \in Nat
      BY <2>2, AreaAssumption DEF Page
    <3>2. b \in Span(b, l)
      BY <2>1, <3>1, SpanStart
    <3> QED BY <2>3, <3>2
  <2> HIDE DEF b, l
  <2>5. l \in 0 .. Levels - 1
    BY <2>1 DEF Level
  <2> QED BY <2>1, <2>2, <2>3, <2>4, <2>5 DEF Span, BlockPages, IsAligned
<1>2. CASE \E b \in Page, l \in Level : Free(b, l)
  <2>1. PICK b \in Page, l \in Level : Free(b, l)
    BY <1>2
  <2>2. /\ IsAligned(b, l) /\ Span(b, l) \subseteq held
        /\ held' = held \ Span(b, l) /\ served' = served
    BY <2>1 DEF Free
  <2>3. b \in held
    <3>1. b \in Nat
      BY AreaAssumption DEF Page
    <3>2. b \in Span(b, l)
      BY <3>1, SpanStart
    <3> QED BY <2>2, <3>2
  <2>4. l \in 0 .. Levels - 1
    BY DEF Level
  <2> QED BY <2>2, <2>3, <2>4 DEF Span, BlockPages, IsAligned
<1>3. CASE InitBlock
  BY <1>3 DEF InitBlock, Adding, Panic
<1>4. CASE \E pages \in 0 .. BlockPages(Levels - 1) + 1 : AllocateNone(pages) \/ AllocatePop(pages)
  BY <1>4 DEF AllocateNone, AllocatePop, Removing, Panic, vars
<1>5. CASE AllocateSplit
  BY <1>5 DEF AllocateSplit, Adding, Panic
<1>6. CASE FreeLink \/ FreeCoalesce \/ FreeExhausted
  BY <1>6 DEF FreeLink, FreeCoalesce, FreeExhausted, Adding, Removing, Panic
<1>7. CASE \E p \in Page : ClientWrite(p)
  BY <1>7 DEF ClientWrite
<1>8. CASE Halt \/ UNCHANGED vars
  BY <1>8 DEF Halt, vars
<1> QED
  BY <1>1, <1>2, <1>3, <1>4, <1>5, <1>6, <1>7, <1>8 DEF Next

(* BuddyPageAllocator implements the contract of its trait. *)
THEOREM Implements ==
  ASSUME BaseAligned
  PROVE  Spec => ImplementsPageAllocator
<1>1. Init => Contract!Init
  BY InitInvariant DEF Init, Contract!Init, IInv, TypeOK
<1>2. IInv /\ [Next]_vars => [Contract!Next]_<<served, held>>
  BY StepImplements
<1> QED
  BY <1>1, <1>2, Invariance, PTL DEF Spec, ImplementsPageAllocator, Contract!Spec

-----------------------------------------------------------------------------
(*****************************************************************************)
(* The counters.                                                             *)
(*****************************************************************************)

(* A run of n pages has n pages. *)
LEMMA RunSize ==
  ASSUME NEW b \in Int, NEW n \in Nat
  PROVE  IsFiniteSet(b .. b + n - 1) /\ Cardinality(b .. b + n - 1) = n
<1>1. /\ IsFiniteSet(b .. b + n - 1)
      /\ Cardinality(b .. b + n - 1) = IF b > b + n - 1 THEN 0 ELSE (b + n - 1) - b + 1
  BY FS_Interval
<1> QED BY <1>1

(* There are finitely many pages. *)
LEMMA PagesFinite == IsFiniteSet(Page)
<1>1. Base \in Int /\ Size \in Nat
  BY AreaAssumption
<1>2. IsFiniteSet(Base .. Base + Size - 1)
  BY <1>1, RunSize
<1> QED BY <1>2 DEF Page

(* The sizes of disjoint ranges add up to the number of their pages. *)
LEMMA TotalIsPages ==
  ASSUME NEW t \in Layouts
  PROVE  TotalSize(t) = Cardinality(UNION {RangePages(t[i]) : i \in DOMAIN t})
<1> DEFINE n == Len(t)
           U(i) == UNION {RangePages(t[j]) : j \in 1 .. i}
<1>1. /\ t \in Seq([base : Nat, size : Nat \ {0}])
      /\ \A i \in DOMAIN t : RangePages(t[i]) \subseteq Page
      /\ \A i, j \in DOMAIN t : i # j => RangePages(t[i]) \cap RangePages(t[j]) = {}
  BY LayoutAssumption DEF Page
<1>2. n \in Nat /\ DOMAIN t = 1 .. n /\ t \in [1 .. n -> [base : Nat, size : Nat \ {0}]]
  BY <1>1, LenProperties
<1> HIDE DEF n
<1>3. \A i \in 0 .. n : IsFiniteSet(U(i)) /\ Cardinality(U(i)) \in Nat
  <2> SUFFICES ASSUME NEW i \in 0 .. n PROVE IsFiniteSet(U(i)) /\ Cardinality(U(i)) \in Nat
    OBVIOUS
  <2>1. U(i) \subseteq Page
    BY <1>1, <1>2
  <2> QED BY <2>1, PagesFinite, FS_Subset, FS_CardinalityType
<1>4. U(0) = {}
  OBVIOUS
<1>5. ASSUME NEW i \in 1 .. n
      PROVE  Cardinality(U(i)) = Cardinality(U(i - 1)) + t[i].size
  <2>1. i - 1 \in 0 .. n /\ i \in DOMAIN t /\ t[i].base \in Int /\ t[i].size \in Nat
    BY <1>2
  <2>2. U(i) = U(i - 1) \cup RangePages(t[i])
    BY <1>2
  <2>3. U(i - 1) \cap RangePages(t[i]) = {}
    <3>1. \A j \in 1 .. i - 1 : j \in DOMAIN t /\ j # i
      BY <1>2
    <3>2. \A j \in 1 .. i - 1 : RangePages(t[j]) \cap RangePages(t[i]) = {}
      BY <1>1, <2>1, <3>1
    <3> QED BY <3>2
  <2>4. IsFiniteSet(RangePages(t[i])) /\ Cardinality(RangePages(t[i])) = t[i].size
    BY <2>1, RunSize DEF RangePages
  <2>5. IsFiniteSet(U(i - 1)) /\ Cardinality(U(i - 1)) \in Nat
    BY <1>3, <2>1
  <2> HIDE DEF U
  <2>6. Cardinality(U(i - 1) \cup RangePages(t[i])) = Cardinality(U(i - 1)) + Cardinality(RangePages(t[i])) - Cardinality({})
    BY <2>3, <2>4, <2>5, FS_Union
  <2> QED BY <2>1, <2>2, <2>4, <2>5, <2>6, FS_EmptySet
<1>6. Cardinality(U(0)) = 0
  BY <1>4, FS_EmptySet
<1> HIDE DEF U
<1> DEFINE g == [i \in 0 .. n |-> Cardinality(U(i))]
           sum == CHOOSE x : x = [i \in 0 .. n |-> IF i = 0 THEN 0 ELSE x[i - 1] + t[i].size]
           Q == {k \in Nat : k \in 0 .. n => sum[k] = g[k]}
<1>7. TotalSize(t) = sum[n]
  BY DEF TotalSize, n
<1>8. g = [i \in 0 .. n |-> IF i = 0 THEN 0 ELSE g[i - 1] + t[i].size]
  <2>1. \A i \in 0 .. n : g[i] = IF i = 0 THEN 0 ELSE g[i - 1] + t[i].size
    BY <1>2, <1>5, <1>6
  <2> QED BY <2>1
<1>9. sum = [i \in 0 .. n |-> IF i = 0 THEN 0 ELSE sum[i - 1] + t[i].size]
  BY <1>8
<1> HIDE DEF g, sum
<1>10. 0 \in Q
  BY <1>2, <1>8, <1>9
<1>11. \A k \in Nat : k \in Q => k + 1 \in Q
  BY <1>2, <1>8, <1>9
<1> HIDE DEF Q
<1>12. n \in Q
  BY <1>2, <1>10, <1>11, NatSetInduction
<1>13. sum[n] = Cardinality(U(n))
  BY <1>2, <1>12 DEF Q, g
<1>14. U(n) = UNION {RangePages(t[i]) : i \in DOMAIN t}
  BY <1>2 DEF U
<1> QED BY <1>7, <1>13, <1>14

(* The counters and the call to free stay as they were. *)
LEMMA LedgerKept ==
  ASSUME Ledger, UNCHANGED <<alloc_mem, free_mem, held, served>>,
         op'.kind = "free" <=> op.kind = "free", op.kind = "free" => op'.target = op.target
  PROVE  Ledger'
BY DEF Ledger

(* The blocks of a call to allocate and of a call to free, as sets of pages *)
(* of the right size.                                                       *)
LEMMA HeldSizes ==
  ASSUME held \subseteq Page, NEW b \in Page, NEW l \in Level
  PROVE  /\ Span(b, l) \subseteq held => Cardinality(held \ Span(b, l)) = Cardinality(held) - BlockPages(l)
         /\ Span(b, l) \cap held = {} => Cardinality(held \cup Span(b, l)) = Cardinality(held) + BlockPages(l)
         /\ BlockPages(l) \in Nat /\ Cardinality(held) \in Nat
<1> DEFINE A == Span(b, l)
           n == BlockPages(l)
<1>1. b \in Int /\ n \in Nat
  BY PowersOfTwo, AreaAssumption DEF Page
<1>2. IsFiniteSet(A) /\ Cardinality(A) = n
  BY <1>1, RunSize DEF Span
<1>3. IsFiniteSet(held) /\ Cardinality(held) \in Nat
  BY PagesFinite, FS_Subset, FS_CardinalityType
<1> HIDE DEF A, n
<1>4. ASSUME A \subseteq held
      PROVE  Cardinality(held \ A) = Cardinality(held) - n
  <2>1. held \cap A = A
    BY <1>4
  <2>2. Cardinality(held \ A) = Cardinality(held) - Cardinality(held \cap A)
    BY <1>3, FS_Difference
  <2> QED BY <1>2, <2>1, <2>2
<1>5. ASSUME A \cap held = {}
      PROVE  Cardinality(held \cup A) = Cardinality(held) + n
  <2>1. held \cap A = {}
    BY <1>5
  <2>2. Cardinality(held \cup A) = Cardinality(held) + Cardinality(A) - Cardinality(held \cap A)
    BY <1>2, <1>3, FS_Union
  <2>3. Cardinality({}) = 0
    BY FS_EmptySet
  <2> QED BY <1>1, <1>2, <1>3, <2>1, <2>2, <2>3
<1> QED BY <1>1, <1>3, <1>4, <1>5 DEF A, n

(* `new` counts every page it is given as free. *)
LEMMA InitLedger == Init => Ledger
<1> SUFFICES ASSUME Init PROVE Ledger
  OBVIOUS
<1>1. /\ todo \in Layouts /\ alloc_mem = 0 /\ free_mem = TotalSize(todo) /\ op.kind = "idle" /\ held = {}
      /\ served = UNION {RangePages(todo[i]) : i \in DOMAIN todo}
  BY DEF Init, Idle
<1>2. free_mem = Cardinality(served)
  BY <1>1, TotalIsPages
<1>3. IsFiniteSet(served)
  <2>1. served \subseteq Page
    BY InitInvariant DEF IInv, TypeOK
  <2> QED BY <2>1, PagesFinite, FS_Subset
<1>4. Cardinality(served) \in Nat /\ Cardinality(held) = 0
  BY <1>1, <1>3, FS_CardinalityType, FS_EmptySet
<1> QED BY <1>1, <1>2, <1>4 DEF Ledger

(* allocate counts the block it returns, free the block it was given,       *)
(* whatever it was coalesced into; nothing else moves the counters.         *)
LEMMA NextLedger == IInv /\ Ledger /\ [Next]_vars => Ledger'
<1> SUFFICES ASSUME IInv, Ledger, [Next]_vars PROVE Ledger'
  OBVIOUS
<1>0. /\ held \subseteq Page
      /\ op \in [kind : {"idle", "alloc", "free"}, block : {0} \cup Page, level : 0 .. Levels, target : Level]
  BY DEF IInv, TypeOK
<1>1. CASE AllocateReturn
  <2> DEFINE b == op.block
             l == op.target
             n == BlockPages(l)
  <2>1. /\ op.kind = "alloc" /\ op.level = l /\ op'.kind = "idle" /\ held' = held \cup Span(b, l)
        /\ free_mem' = free_mem - n /\ alloc_mem' = alloc_mem + n /\ served' = served
    BY <1>1 DEF AllocateReturn, Idle
  <2>2. b \in Page /\ l \in Level
    BY <1>0, <2>1 DEF IInv, OpInv
  <2>3. Span(b, l) \cap held = {}
    BY <2>1 DEF IInv, NoDoubleOwnership, InFlight
  <2> HIDE DEF b, l
  <2>4. /\ Cardinality(held \cup Span(b, l)) = Cardinality(held) + n
        /\ n \in Nat /\ Cardinality(held) \in Nat
    BY <1>0, <2>2, <2>3, HeldSizes
  <2> HIDE DEF n
  <2> QED BY <2>1, <2>4 DEF Ledger
<1>2. CASE \E b \in Page, l \in Level : Free(b, l)
  <2>1. PICK b \in Page, l \in Level : Free(b, l)
    BY <1>2
  <2> DEFINE n == BlockPages(l)
  <2>2. /\ op.kind = "idle" /\ op'.kind = "free" /\ op'.target = l
        /\ Span(b, l) \subseteq held /\ held' = held \ Span(b, l)
        /\ UNCHANGED <<alloc_mem, free_mem, served>>
    BY <2>1 DEF Free, Idle
  <2>3. Cardinality(held \ Span(b, l)) = Cardinality(held) - n /\ n \in Nat /\ Cardinality(held) \in Nat
    BY <1>0, <2>2, HeldSizes
  <2>4. BlockPages(op'.target) = n
    BY <2>2
  <2> HIDE DEF n
  <2> QED BY <2>2, <2>3, <2>4 DEF Ledger
<1>3. CASE FreeLink \/ FreeExhausted
  <2> DEFINE l == op.target
             n == BlockPages(l)
  <2>1. op.kind = "free" /\ l \in Level
    BY <1>0, <1>3 DEF FreeLink, FreeExhausted, Freeing
  <2>2. FreeCounts /\ held' = held /\ served' = served
    <3>1. CASE FreeLink
      <4>1. op.level \in Level
        BY <3>1 DEF FreeLink
      <4>2. AddChecks(op.level)
        BY <4>1, ChecksPass DEF IInv
      <4> QED BY <3>1, <4>2 DEF FreeLink, Adding
    <3>2. CASE FreeExhausted
      BY <3>2 DEF FreeExhausted
    <3> QED BY <1>3, <3>1, <3>2
  <2>3. /\ free_mem' = free_mem + n /\ alloc_mem' = alloc_mem - n /\ op'.kind = "idle"
    BY <2>2 DEF FreeCounts, Idle
  <2>4. n \in Nat
    BY <2>1, PowersOfTwo
  <2>5. Cardinality(held) \in Nat
    BY <1>0, PagesFinite, FS_Subset, FS_CardinalityType
  <2>6. alloc_mem = Cardinality(held) + n
    BY <2>1 DEF Ledger
  <2> HIDE DEF n
  <2> QED BY <2>1, <2>2, <2>3, <2>4, <2>5, <2>6 DEF Ledger
<1>4. CASE InitBlock
  <2>1. UNCHANGED <<alloc_mem, free_mem, held, served, op>>
    BY <1>4 DEF InitBlock, Adding, Panic
  <2> QED BY <2>1, LedgerKept
<1>5. CASE \E pages \in 0 .. BlockPages(Levels - 1) + 1 : AllocateNone(pages) \/ AllocatePop(pages)
  <2>1. PICK pages : AllocateNone(pages) \/ AllocatePop(pages)
    BY <1>5
  <2>2. CASE AllocateNone(pages)
    BY <2>2, LedgerKept DEF AllocateNone, vars
  <2>3. CASE AllocatePop(pages)
    <3>1. op.kind = "idle"
      BY <2>3 DEF AllocatePop, Idle
    <3>2. UNCHANGED <<alloc_mem, free_mem, held, served>> /\ (op' = op \/ op'.kind = "alloc")
      <4>1. PICK t \in Level, l \in Level :
              Removing(l, head[l],
                /\ op' = [kind |-> "alloc", block |-> head[l], level |-> l, target |-> t]
                /\ UNCHANGED <<todo, alloc_mem, free_mem, panic, held, served>>)
        BY <2>3 DEF AllocatePop
      <4>2. \/ Panic("checksum") \/ Panic("list head")
            \/ /\ op' = [kind |-> "alloc", block |-> head[l], level |-> l, target |-> t]
               /\ UNCHANGED <<todo, alloc_mem, free_mem, panic, held, served>>
        BY <4>1, Zenon DEF Removing
      <4>3. CASE Panic("checksum") \/ Panic("list head")
        BY <4>3 DEF Panic
      <4>4. CASE /\ op' = [kind |-> "alloc", block |-> head[l], level |-> l, target |-> t]
                 /\ UNCHANGED <<todo, alloc_mem, free_mem, panic, held, served>>
        BY <4>4
      <4> QED BY <4>2, <4>3, <4>4
    <3> QED BY <3>1, <3>2, LedgerKept
  <2> QED BY <2>1, <2>2, <2>3
<1>6. CASE AllocateSplit
  <2>1. op.kind = "alloc"
    BY <1>6 DEF AllocateSplit
  <2>2. UNCHANGED <<alloc_mem, free_mem, held, served>> /\ op'.kind = "alloc"
    BY <1>0, <1>6, <2>1 DEF AllocateSplit, Adding, Panic
  <2> QED BY <2>1, <2>2, LedgerKept
<1>7. CASE FreeCoalesce
  <2>1. op.kind = "free"
    BY <1>7 DEF FreeCoalesce, Freeing
  <2>2. UNCHANGED <<alloc_mem, free_mem, held, served>> /\ op'.kind = "free" /\ op'.target = op.target
    BY <1>0, <1>7, <2>1 DEF FreeCoalesce, Removing, Panic
  <2> QED BY <2>1, <2>2, LedgerKept
<1>8. CASE (\E p \in Page : ClientWrite(p)) \/ Halt \/ UNCHANGED vars
  <2>1. UNCHANGED <<alloc_mem, free_mem, held, served, op>>
    BY <1>8 DEF ClientWrite, Halt, vars
  <2> QED BY <2>1, LedgerKept
<1> QED
  BY <1>1, <1>2, <1>3, <1>4, <1>5, <1>6, <1>7, <1>8 DEF Next

(* get_free_mem and get_alloc_mem always add up to the memory `new` was     *)
(* given, and between calls the second is exactly what clients own.         *)
THEOREM CountersExact ==
  ASSUME BaseAligned
  PROVE  Spec => []Accounting
<1>1. IInv /\ Ledger => Accounting
  <2> SUFFICES ASSUME IInv, Ledger PROVE Accounting
    OBVIOUS
  <2>1. held \subseteq Page
    BY DEF IInv, TypeOK
  <2>2. Cardinality(held) \in Nat
    BY <2>1, PagesFinite, FS_Subset, FS_CardinalityType
  <2> QED BY <2>2 DEF Ledger, Accounting, Idle
<1> QED
  BY <1>1, InitLedger, NextLedger, Invariance, PTL DEF Spec

-----------------------------------------------------------------------------
(*****************************************************************************)
(* Coalescing.                                                               *)
(*****************************************************************************)

(* The buddy of a block aligned for the next level is above it. *)
LEMMA UpperBuddy ==
  ASSUME BaseAligned, NEW l \in Level, l + 1 \in Level, NEW b \in Page, IsAligned(b, l + 1)
  PROVE  IsAligned(b, l) /\ Buddy(b, l) = b + BlockPages(l)
<1> DEFINE s == BlockPages(l)
           k == (b - Base) \div s
<1>1. /\ s \in Nat \ {0} /\ BlockPages(l + 1) = 2 * s /\ b \in Nat /\ Base \in Nat /\ b >= Base
      /\ Base % (2 * s) = 0 /\ 2 * s \in Nat \ {0}
  <2>1. s \in Nat \ {0} /\ BlockPages(l + 1) = 2 * s
    BY PowersOfTwo
  <2>2. Base % BlockPages(l + 1) = 0
    BY DEF BaseAligned
  <2> QED BY <2>1, <2>2, AreaAssumption DEF Page
<1>2. IsAligned(b, l)
  BY <1>1, SplitFacts
<1>3. k \in Nat /\ b = Base + k * s /\ Buddy(b, l) = IF k % 2 = 1 THEN b - s ELSE b + s
  BY <1>2, BlockIndex
<1>4. b % (2 * s) = 0
  BY <1>1 DEF IsAligned
<1> HIDE DEF s, k
<1> DEFINE i == b \div (2 * s)
           j == Base \div (2 * s)
<1>5. i \in Nat /\ b = i * (2 * s) /\ j \in Nat /\ Base = j * (2 * s)
  BY <1>1, <1>4, Multiple
<1> HIDE DEF i, j
<1>6. k * s = (2 * (i - j)) * s
  BY <1>1, <1>3, <1>5
<1>7. k = 2 * (i - j)
  BY <1>1, <1>3, <1>5, <1>6
<1>8. k % 2 = 0
  BY <1>3, <1>5, <1>7
<1> QED BY <1>2, <1>3, <1>8 DEF s

(* Each of two buddies is the other's. *)
LEMMA BuddyBack ==
  ASSUME BaseAligned, NEW l \in Level, NEW b \in Page, IsAligned(b, l), NEW c \in Page, c = Buddy(b, l)
  PROVE  Buddy(c, l) = b
<1>1. IsAligned(c, l) /\ c # b /\ BlockPair(c, l) = BlockPair(b, l)
  BY BuddyFacts
<1>2. BlockPair(b, l) = BlockPair(c, l) <=> (b = c \/ b = Buddy(c, l))
  BY <1>1, BuddyFacts
<1> QED BY <1>1, <1>2

(* A block whose buddy is not on the list can join the list. *)
LEMMA AddKeepsCoalesced ==
  ASSUME BaseAligned, listed \in [Level -> SUBSET Page], ListedAligned, Coalesced,
         NEW l \in Level, NEW b \in Page, IsAligned(b, l),
         listed' = [listed EXCEPT ![l] = @ \cup {b}],
         l + 1 \in Level => Buddy(b, l) \notin listed[l]
  PROVE  Coalesced'
<1>1. \A k \in Level : \A c : c \in listed'[k] <=> (c \in listed[k] \/ (k = l /\ c = b))
  OBVIOUS
<1>2. ASSUME NEW k \in Level, k + 1 \in Level, NEW c \in listed'[k]
      PROVE  Buddy(c, k) \notin listed'[k]
  <2>1. CASE c \in listed[k]
    <3>1. Buddy(c, k) \notin listed[k] /\ c \in Page /\ IsAligned(c, k)
      BY <1>2, <2>1 DEF Coalesced, ListedAligned
    <3>2. ASSUME k = l, Buddy(c, k) = b PROVE FALSE
      <4>1. Buddy(b, l) = c
        BY <3>1, <3>2, BuddyBack
      <4> QED BY <1>2, <2>1, <3>2, <4>1
    <3> QED BY <1>1, <3>1, <3>2
  <2>2. CASE c \notin listed[k]
    <3>1. k = l /\ c = b
      BY <1>1, <1>2, <2>2
    <3>2. Buddy(b, l) # b
      BY BuddyFacts
    <3> QED BY <1>1, <1>2, <3>1, <3>2
  <2> QED BY <2>1, <2>2
<1> QED BY <1>2 DEF Coalesced, Level, Buddy, XorBit, Bit, BlockPages

(* A list that loses blocks gains no pair of buddies. *)
LEMMA FewerKeepCoalesced ==
  ASSUME Coalesced, \A l \in Level : listed'[l] \subseteq listed[l]
  PROVE  Coalesced'
<1>1. ASSUME NEW l \in Level, l + 1 \in Level, NEW b \in listed'[l]
      PROVE  Buddy(b, l) \notin listed'[l]
  BY <1>1 DEF Coalesced
<1> QED BY <1>1 DEF Coalesced, Level, Buddy, XorBit, Bit, BlockPages

(* What TodoApart says of the range todo[i] and a block b of level k. *)
Away(t, i, b, k) ==
  /\ t[i].base + t[i].size # b
  /\ b + BlockPages(k) = t[i].base =>
       i = 1 /\ (k + 1 \in Level /\ IsAligned(b, k + 1) => t[i].size < BlockPages(k))

(* One iteration of init_metadata: the block it takes off the first range   *)
(* has no free buddy, because the largest block that fits was taken here    *)
(* and just before, and no other range touches this one.                    *)
LEMMA InitBlockCoalesces ==
  ASSUME BaseAligned, IInv, TodoApart, Coalesced, InitBlock
  PROVE  TodoApart' /\ Coalesced'
<1> DEFINE r == Head(todo)
           Rg == [base : Page, size : Nat]
<1>1. /\ todo # <<>> /\ todo \in Seq(Rg) /\ listed \in [Level -> SUBSET Page]
      /\ ListedAligned
  BY DEF InitBlock, IInv, TypeOK
<1>2. /\ r \in Rg /\ r = todo[1] /\ Len(todo) \in Nat \ {0} /\ DOMAIN todo = 1 .. Len(todo)
      /\ DOMAIN Tail(todo) = 1 .. Len(todo) - 1 /\ 1 \in DOMAIN todo
      /\ \A i \in DOMAIN todo : todo[i] \in Rg
      /\ \A i \in 1 .. Len(todo) - 1 : Tail(todo)[i] = todo[i + 1]
  <2>1. r \in Rg /\ Tail(todo) \in Seq(Rg) /\ Len(Tail(todo)) = Len(todo) - 1
    BY <1>1, HeadTailProperties
  <2>2. Len(todo) \in Nat \ {0} /\ DOMAIN todo = 1 .. Len(todo)
    BY <1>1, LenProperties, EmptySeq
  <2>3. DOMAIN Tail(todo) = 1 .. Len(todo) - 1
    BY <2>1, LenProperties
  <2>4. \A i \in 1 .. Len(todo) - 1 : Tail(todo)[i] = todo[i + 1]
    BY <1>1, <2>1, HeadTailProperties
  <2>5. r = todo[1] /\ 1 \in DOMAIN todo
    BY <1>1, <2>2
  <2>6. \A i \in DOMAIN todo : todo[i] \in Rg
    BY <1>1, <2>2, ElementOfSeq
  <2> QED BY <2>1, <2>2, <2>3, <2>4, <2>5, <2>6
<1>3. PICK l \in Level :
        /\ Fits(r, l) /\ (l + 1 \in Level => ~Fits(r, l + 1))
        /\ Adding(l, r.base,
             /\ todo' = IF r.size = BlockPages(l)
                        THEN Tail(todo)
                        ELSE [todo EXCEPT ![1] = [base |-> r.base + BlockPages(l),
                                                  size |-> r.size - BlockPages(l)]]
             /\ UNCHANGED <<alloc_mem, free_mem, op, panic, held, served>>)
  BY DEF InitBlock
<1> DEFINE b == r.base
           s == BlockPages(l)
           n == r.size
<1>4. AddChecks(l)
  BY ChecksPass DEF IInv
<1>5. /\ listed' = [listed EXCEPT ![l] = @ \cup {b}]
      /\ todo' = IF n = s THEN Tail(todo) ELSE [todo EXCEPT ![1] = [base |-> b + s, size |-> n - s]]
  BY <1>3, <1>4 DEF Adding, AddToList
<1>6. /\ b \in Page /\ b \in Nat /\ n \in Nat /\ s \in Nat \ {0} /\ s <= n /\ IsAligned(b, l)
      /\ BlockPages(l + 1) = 2 * s
  BY <1>2, <1>3, PowersOfTwo, AreaAssumption DEF Fits, Page
<1>7. l + 1 \in Level /\ IsAligned(b, l + 1) => n < 2 * s
  BY <1>3, <1>6 DEF Fits
<1>8. RangePages(r) = b .. b + n - 1
  BY DEF RangePages
<1>9. /\ \A k \in Level : \A c \in listed[k] : Span(c, k) \cap RangePages(r) = {}
      /\ \A i \in DOMAIN todo : i # 1 => RangePages(todo[i]) \cap RangePages(r) = {}
  BY <1>2 DEF IInv, NoDoubleOwnership, ListsBuilt, TodoInv
<1>10. /\ \A i \in DOMAIN todo : todo[i].size > 0
       /\ \A i, j \in DOMAIN todo : i # j => todo[i].base + todo[i].size # todo[j].base
       /\ \A i \in DOMAIN todo : \A k \in Level : \A c \in listed[k] : Away(todo, i, c, k)
  BY DEF TodoApart, Away
<1>11. \A k \in Level : \A c : c \in listed'[k] <=> (c \in listed[k] \/ (k = l /\ c = b))
  BY <1>1, <1>5
<1> HIDE DEF r, b, s, n
<1>12. ASSUME l + 1 \in Level, Buddy(b, l) \in listed[l] PROVE FALSE
  <2> DEFINE c == Buddy(b, l)
  <2>1. c \in Nat /\ c \in Page
    BY <1>1, <1>6, <1>12, BuddyFacts
  <2>2. c = b - s \/ c = b + s
    BY <1>6, BlockIndex DEF s
  <2>3. Away(todo, 1, c, l)
    BY <1>2, <1>10, <1>12
  <2>4. todo[1].base = b /\ todo[1].size = n
    BY <1>2 DEF b, n
  <2>5. c \in Span(c, l)
    BY <2>1, SpanStart
  <2>6. c \notin RangePages(r)
    BY <1>9, <1>12, <2>5
  <2>7. IsAligned(IF c < b THEN c ELSE b, l + 1)
    BY <1>6, <1>12, MergeFacts
  <2> HIDE DEF c
  <2>8. CASE c = b + s
    <3>1. n < 2 * s
      BY <1>6, <1>7, <1>12, <2>7, <2>8
    <3>2. n # s
      BY <2>3, <2>4, <2>8, <1>6 DEF Away
    <3> QED BY <1>6, <1>8, <2>6, <2>8, <3>1, <3>2
  <2>9. CASE c = b - s
    <3>1. IsAligned(c, l + 1) /\ c + s = b
      BY <1>6, <2>1, <2>7, <2>9
    <3>2. n < s
      BY <1>12, <2>3, <2>4, <3>1 DEF Away, s
    <3> QED BY <1>6, <3>2
  <2> QED BY <2>2, <2>8, <2>9
<1>13. Coalesced'
  BY <1>1, <1>5, <1>6, <1>12, AddKeepsCoalesced
<1>14. CASE n = s
  <2>1. todo' = Tail(todo)
    BY <1>5, <1>14
  <2>2. \A i \in DOMAIN todo' : i + 1 \in DOMAIN todo /\ i \in Nat /\ i + 1 # 1 /\ todo'[i] = todo[i + 1]
    BY <2>1, <1>2
  <2>3. ASSUME NEW i \in DOMAIN todo', NEW k \in Level, NEW c \in listed'[k]
        PROVE  Away(todo', i, c, k)
    <3>1. i + 1 \in DOMAIN todo /\ i + 1 # 1 /\ todo'[i] = todo[i + 1]
      BY <2>2
    <3>2. CASE c \in listed[k]
      <4>1. Away(todo, i + 1, c, k)
        BY <1>10, <3>1, <3>2
      <4> QED BY <3>1, <4>1 DEF Away
    <3>3. CASE k = l /\ c = b
      <4>1. todo[i + 1].base + todo[i + 1].size # b /\ b + n # todo[i + 1].base
        BY <1>2, <1>10, <3>1 DEF b, n
      <4> QED BY <3>1, <3>3, <4>1, <1>14 DEF Away, s
    <3> QED BY <1>11, <3>2, <3>3
  <2>4. \A i, j \in DOMAIN todo' : i # j => i + 1 # j + 1
    BY <2>2
  <2>5. \A i, j \in DOMAIN todo' : i # j => todo'[i].base + todo'[i].size # todo'[j].base
    BY <1>10, <2>2, <2>4
  <2>6. \A i \in DOMAIN todo' : todo'[i].size > 0
    BY <1>10, <2>2
  <2> QED BY <1>13, <2>3, <2>5, <2>6 DEF TodoApart, Away, Level, IsAligned, BlockPages
<1>15. CASE n # s
  <2> DEFINE q == [base |-> b + s, size |-> n - s]
  <2>1. todo' = [todo EXCEPT ![1] = q]
    BY <1>5, <1>15
  <2>2. /\ q.base = b + s /\ q.size = n - s /\ q.size > 0 /\ q.size \in Nat
        /\ q.base + q.size = b + n
    BY <1>6, <1>15
  <2> HIDE DEF q
  <2>3. DOMAIN todo' = DOMAIN todo /\ \A i \in DOMAIN todo' : todo'[i] = IF i = 1 THEN q ELSE todo[i]
    BY <2>1, <1>2, <1>1
  <2>4. ASSUME NEW i \in DOMAIN todo, i # 1
        PROVE  /\ todo[i].base + todo[i].size # b + s /\ b + s # todo[i].base
               /\ todo[i].base + todo[i].size # b /\ b + n # todo[i].base
    <3>1. todo[i].base \in Nat /\ todo[i].size \in Nat /\ todo[i].size > 0
      BY <1>2, <1>10, AreaAssumption DEF Page
    <3>2. RangePages(todo[i]) = todo[i].base .. todo[i].base + todo[i].size - 1
      BY DEF RangePages
    <3>3. RangePages(todo[i]) \cap RangePages(r) = {}
      BY <1>9, <2>4
    <3>4. todo[i].base + todo[i].size # b /\ b + n # todo[i].base
      BY <1>2, <1>10, <2>4 DEF b, n
    <3>5. ASSUME todo[i].base + todo[i].size = b + s PROVE FALSE
      <4>1. b + s - 1 \in RangePages(todo[i]) /\ b + s - 1 \in RangePages(r)
        BY <1>6, <1>8, <3>1, <3>2, <3>5
      <4> QED BY <3>3, <4>1
    <3>6. ASSUME b + s = todo[i].base PROVE FALSE
      <4>1. b + s \in RangePages(todo[i]) /\ b + s \in RangePages(r)
        BY <1>6, <1>8, <1>15, <3>1, <3>2, <3>6
      <4> QED BY <3>3, <4>1
    <3> QED BY <3>4, <3>5, <3>6
  <2>5. ASSUME NEW i \in DOMAIN todo', NEW k \in Level, NEW c \in listed'[k]
        PROVE  Away(todo', i, c, k)
    <3>1. CASE c \in listed[k]
      <4>1. Away(todo, i, c, k)
        BY <1>10, <2>3, <3>1
      <4>2. CASE i # 1
        BY <2>3, <4>1, <4>2 DEF Away
      <4>3. CASE i = 1
        <5>1. todo[1].base + todo[1].size = b + n
          BY <1>2 DEF b, n
        <5>2. c \in Nat /\ BlockPages(k) \in Nat \ {0}
          BY <1>1, <3>1, PowersOfTwo, AreaAssumption DEF Page
        <5>3. ASSUME c + BlockPages(k) = b + s PROVE FALSE
          <6>1. b + s - 1 \in Span(c, k) /\ b + s - 1 \in RangePages(r)
            BY <1>6, <1>8, <5>2, <5>3 DEF Span
          <6> QED BY <1>9, <3>1, <6>1
        <5> QED BY <2>2, <2>3, <4>1, <4>3, <5>1, <5>3 DEF Away
      <4> QED BY <4>2, <4>3
    <3>2. CASE k = l /\ c = b
      <4>1. CASE i # 1
        BY <2>3, <2>4, <3>2, <4>1 DEF Away, s
      <4>2. CASE i = 1
        <5>1. todo'[1] = q
          BY <1>2, <2>3
        <5>2. b + n # b
          BY <1>6
        <5>3. l + 1 \in Level /\ IsAligned(b, l + 1) => n - s < s
          BY <1>6, <1>7
        <5> QED BY <2>2, <3>2, <4>2, <5>1, <5>2, <5>3 DEF Away, s
      <4> QED BY <4>1, <4>2
    <3> QED BY <1>11, <3>1, <3>2
  <2>6. \A i, j \in DOMAIN todo' : i # j => todo'[i].base + todo'[i].size # todo'[j].base
    BY <1>10, <2>2, <2>3, <2>4
  <2>7. \A i \in DOMAIN todo' : todo'[i].size > 0
    BY <1>10, <2>2, <2>3
  <2> QED BY <1>13, <2>5, <2>6, <2>7 DEF TodoApart, Away, Level, IsAligned, BlockPages
<1> QED BY <1>14, <1>15

(* Once construction is over no range is left for a block to touch. *)
LEMMA NothingLeft ==
  ASSUME todo = <<>>, todo' = todo
  PROVE  TodoApart'
<1>1. DOMAIN todo' = {}
  OBVIOUS
<1> QED BY <1>1 DEF TodoApart

(* allocate: the odd half of a split block has its buddy in the call. *)
LEMMA SplitCoalesces ==
  ASSUME BaseAligned, IInv, Coalesced, AllocateSplit
  PROVE  Coalesced'
<1> DEFINE l == op.level - 1
           c == op.block
           b == OrBit(c, l)
<1>1. /\ op.kind = "alloc" /\ listed \in [Level -> SUBSET Page] /\ ListedAligned
      /\ op.level > op.target /\ op.level \in Level /\ c \in Page /\ IsAligned(c, op.level)
  BY DEF AllocateSplit, IInv, OpInv, TypeOK
<1>2. op.target \in Level
  BY DEF IInv, TypeOK
<1>3. l \in Level /\ op.level = l + 1 /\ l + 1 \in Level
  BY <1>1, <1>2, AreaAssumption DEF Level
<1>4. AddChecks(l)
  BY <1>3, ChecksPass DEF IInv
<1>5. listed' = [listed EXCEPT ![l] = @ \cup {b}]
  BY <1>4 DEF AllocateSplit, Adding, AddToList
<1> HIDE DEF l, c
<1>6. c \in Nat /\ IsAligned(c, l + 1)
  BY <1>1, <1>3, AreaAssumption DEF Page
<1>7. /\ IsAligned(c, l) /\ IsAligned(b, l) /\ b \in Nat
      /\ Span(c, l + 1) = Span(c, l) \cup Span(b, l)
  BY <1>3, <1>6, SplitFacts
<1>8. InFlight = Span(c, l + 1) /\ InFlight \subseteq Page
  BY <1>1, <1>3 DEF InFlight, IInv, NoDoubleOwnership, TypeOK, c
<1>9. c \in InFlight /\ b \in Page
  <2>1. c \in Span(c, l) /\ b \in Span(b, l)
    BY <1>3, <1>6, <1>7, SpanStart
  <2> QED BY <1>7, <1>8, <2>1
<1>10. b = Buddy(c, l)
  <2>1. Buddy(c, l) = c + BlockPages(l)
    BY <1>1, <1>3, <1>6, UpperBuddy
  <2>2. b = c \/ b = c + BlockPages(l)
    BY DEF OrBit
  <2>3. Bit(c, l) = 0
    <3>1. BlockPages(l) \in Nat \ {0} /\ BlockPages(l + 1) = 2 * BlockPages(l)
      BY <1>3, PowersOfTwo
    <3>2. c % (2 * BlockPages(l)) = 0
      BY <1>6, <3>1 DEF IsAligned
    <3> QED BY <1>6, <3>1, <3>2, HalfMultiple DEF Bit
  <2> QED BY <2>1, <2>3 DEF OrBit
<1> HIDE DEF b
<1>11. Buddy(b, l) = c
  BY <1>1, <1>3, <1>7, <1>9, <1>10, BuddyBack
<1>12. c \notin listed[l]
  <2>1. c \in Span(c, l)
    BY <1>3, <1>6, SpanStart
  <2> QED BY <1>3, <1>9, <2>1 DEF IInv, NoDoubleOwnership, ListsOwned
<1> QED BY <1>1, <1>3, <1>5, <1>7, <1>9, <1>11, <1>12, AddKeepsCoalesced

(* free links a block only when the pair's bit says its buddy is not free. *)
LEMMA LinkCoalesces ==
  ASSUME BaseAligned, IInv, Coalesced, FreeLink
  PROVE  Coalesced'
<1> DEFINE l == op.level
           b == op.block
<1>1. /\ op.kind = "free" /\ l \in Level /\ listed \in [Level -> SUBSET Page] /\ ListedAligned
      /\ b \in Page /\ IsAligned(b, l) /\ BlockPair(b, l) \notin flags[l]
  BY DEF FreeLink, Freeing, BuddyFree, IInv, OpInv, TypeOK
<1>2. AddChecks(l)
  BY <1>1, ChecksPass DEF IInv
<1>3. listed' = [listed EXCEPT ![l] = @ \cup {b}]
  BY <1>2 DEF FreeLink, Adding, AddToList
<1>4. b \in Span(b, l) /\ InFlight = Span(b, l)
  BY <1>1, SpanStart, AreaAssumption DEF Page, InFlight
<1>5. b \notin listed[l]
  BY <1>1, <1>4 DEF IInv, NoDoubleOwnership, ListsOwned
<1>6. Buddy(b, l) \notin listed[l]
  BY <1>1, <1>5 DEF IInv, FlagsMatchLists
<1> HIDE DEF l, b
<1> QED BY <1>1, <1>3, <1>6, AddKeepsCoalesced

(* remove_from_list takes blocks away; a failed check takes none. *)
LEMMA RemovingCoalesces ==
  ASSUME IInv, Coalesced, NEW l \in Level, NEW b, NEW ACTION Rest, Removing(l, b, Rest)
  PROVE  Coalesced'
<1>1. listed \in [Level -> SUBSET Page]
  BY DEF IInv, TypeOK
<1>2. listed' = listed \/ listed' = [listed EXCEPT ![l] = @ \ {b}]
  BY DEF Removing, Panic, RemoveFromList
<1>3. \A k \in Level : listed'[k] \subseteq listed[k]
  BY <1>1, <1>2
<1> QED BY <1>3, FewerKeepCoalesced

(* Every step keeps buddies apart. *)
LEMMA NextCoalesced ==
  ASSUME BaseAligned
  PROVE  IInv /\ TodoApart /\ Coalesced /\ [Next]_vars => TodoApart' /\ Coalesced'
<1> SUFFICES ASSUME IInv, TodoApart, Coalesced, [Next]_vars PROVE TodoApart' /\ Coalesced'
  OBVIOUS
<1>0. ASSUME UNCHANGED <<listed, todo>> PROVE TodoApart' /\ Coalesced'
  BY <1>0 DEF TodoApart, Coalesced
<1>1. CASE InitBlock
  BY <1>1, InitBlockCoalesces
<1>2. CASE \E pages \in 0 .. BlockPages(Levels - 1) + 1 : AllocateNone(pages) \/ AllocatePop(pages)
  <2>1. PICK pages : AllocateNone(pages) \/ AllocatePop(pages)
    BY <1>2
  <2>2. CASE AllocateNone(pages)
    BY <2>2, <1>0 DEF AllocateNone, vars
  <2>3. CASE AllocatePop(pages)
    <3>1. PICK t \in Level, l \in Level :
            Removing(l, head[l],
              /\ op' = [kind |-> "alloc", block |-> head[l], level |-> l, target |-> t]
              /\ UNCHANGED <<todo, alloc_mem, free_mem, panic, held, served>>)
      BY <2>3 DEF AllocatePop
    <3>2. todo = <<>> /\ todo' = todo
      BY <2>3, <3>1 DEF AllocatePop, Ready, Removing, Panic
    <3>3. Coalesced'
      BY <3>1, RemovingCoalesces
    <3> QED BY <3>2, <3>3, NothingLeft
  <2> QED BY <2>1, <2>2, <2>3
<1>3. CASE AllocateSplit
  <2>1. todo = <<>> /\ todo' = todo
    BY <1>3 DEF AllocateSplit, Ready, Adding, Panic
  <2> QED BY <1>3, <2>1, NothingLeft, SplitCoalesces
<1>4. CASE FreeLink
  <2>1. todo = <<>> /\ todo' = todo
    BY <1>4 DEF FreeLink, Freeing, Ready, Adding, Panic
  <2> QED BY <1>4, <2>1, NothingLeft, LinkCoalesces
<1>5. CASE FreeCoalesce
  <2>1. todo = <<>> /\ todo' = todo /\ op.level \in Level
    BY <1>5 DEF FreeCoalesce, Freeing, Ready, Removing, Panic
  <2> DEFINE buddy == Buddy(op.block, op.level)
  <2>2. Removing(op.level, buddy,
          /\ op' = [op EXCEPT !.block = IF buddy < @ THEN buddy ELSE @, !.level = @ + 1]
          /\ UNCHANGED <<todo, alloc_mem, free_mem, panic, held, served>>)
    BY <1>5 DEF FreeCoalesce
  <2>3. Coalesced'
    BY <2>1, <2>2, RemovingCoalesces
  <2> QED BY <2>1, <2>3, NothingLeft
<1>6. CASE AllocateReturn \/ FreeExhausted \/ (\E b \in Page, l \in Level : Free(b, l))
  BY <1>0, <1>6 DEF AllocateReturn, FreeExhausted, Free, allocVars
<1>7. CASE (\E p \in Page : ClientWrite(p)) \/ Halt \/ UNCHANGED vars
  BY <1>0, <1>7 DEF ClientWrite, Halt, vars
<1> QED
  BY <1>1, <1>2, <1>3, <1>4, <1>5, <1>6, <1>7 DEF Next

(* Two buddies below the largest level are never both free, when no range   *)
(* `new` is given begins where another ends.  (Adjacent ranges are added    *)
(* one at a time, and each may leave one of two buddies on the lists.)      *)
THEOREM BuddiesMerge == ASSUME BaseAligned, RangesApart PROVE Spec => []Coalesced
<1>1. Init => TodoApart /\ Coalesced
  <2> SUFFICES ASSUME Init PROVE TodoApart /\ Coalesced
    OBVIOUS
  <2>1. todo \in Layouts /\ \A l \in Level : listed[l] = {}
    BY DEF Init
  <2>2. todo \in Seq([base : Nat, size : Nat \ {0}])
    BY <2>1, LayoutAssumption
  <2>3. \A i \in DOMAIN todo : todo[i].size > 0
    <3>1. DOMAIN todo = 1 .. Len(todo) /\ todo \in [1 .. Len(todo) -> [base : Nat, size : Nat \ {0}]]
      BY <2>2, LenProperties
    <3> QED BY <3>1
  <2>4. \A i, j \in DOMAIN todo : i # j => todo[i].base + todo[i].size # todo[j].base
    BY <2>1, RangesApart DEF RangesApart
  <2> QED BY <2>1, <2>3, <2>4 DEF TodoApart, Coalesced
<1> QED
  BY <1>1, NextCoalesced, Invariance, PTL DEF Spec

-----------------------------------------------------------------------------
(*****************************************************************************)
(* Where the pages are.                                                      *)
(*****************************************************************************)

(* Two merged buddies of the largest level are a pair counted from the      *)
(* first page.                                                              *)
LEMMA MergedPair ==
  ASSUME BaseAligned, NEW l \in Level, l + 1 = Levels, NEW b \in Page, IsAligned(b, l),
         NEW low, low = IF Buddy(b, l) < b THEN Buddy(b, l) ELSE b
  PROVE  \E k \in 0 .. Size : Span(low, l + 1) = TopPair(k)
<1> DEFINE s == BlockPages(l)
           j == (b - Base) \div s
           e == j \div 2
<1>1. /\ s \in Nat \ {0} /\ Base \in Nat /\ Size \in Nat /\ BlockPages(Levels) = 2 * s
      /\ b \in Nat /\ b < Base + Size
  BY PowersOfTwo, AreaAssumption DEF Level, Page
<1>2. /\ j \in Nat /\ b = Base + j * s
      /\ Buddy(b, l) = IF j % 2 = 1 THEN b - s ELSE b + s
  BY BlockIndex
<1> HIDE DEF s, j
<1>3. e \in Nat /\ j = 2 * e + (j % 2) /\ e <= j
  BY <1>2
<1>4. low = Base + e * (2 * s)
  <2>1. CASE j % 2 = 1
    BY <2>1, <1>1, <1>2, <1>3
  <2>2. CASE j % 2 # 1
    BY <2>2, <1>1, <1>2, <1>3
  <2> QED BY <2>1, <2>2
<1>5. j <= Size
  BY <1>1, <1>2
<1> HIDE DEF e
<1>6. e \in 0 .. Size
  BY <1>1, <1>2, <1>3, <1>5
<1>7. Span(low, l + 1) = TopPair(e)
  BY <1>1, <1>4 DEF Span, TopPair
<1> QED BY <1>6, <1>7

(* A block that joins a list covers its pages there. *)
LEMMA AddCovers ==
  ASSUME listed \in [Level -> SUBSET Page], NEW l \in Level, NEW b,
         listed' = [listed EXCEPT ![l] = @ \cup {b}]
  PROVE  \A p : (\E k \in Level : \E c \in listed'[k] : p \in Span(c, k)) <=>
                (Covered(p) \/ p \in Span(b, l))
<1>1. \A k \in Level : \A c : c \in listed'[k] <=> (c \in listed[k] \/ (k = l /\ c = b))
  OBVIOUS
<1> QED BY <1>1 DEF Covered

(* A block taken off a list stops covering its own pages only. *)
LEMMA RemoveCovers ==
  ASSUME listed \in [Level -> SUBSET Page], NEW l \in Level, NEW b \in listed[l],
         listed' = [listed EXCEPT ![l] = @ \ {b}]
  PROVE  \A p : ((\E k \in Level : \E c \in listed'[k] : p \in Span(c, k)) \/ p \in Span(b, l)) <=>
                Covered(p)
<1>1. \A k \in Level : \A c : c \in listed'[k] <=> (c \in listed[k] /\ ~(k = l /\ c = b))
  OBVIOUS
<1> QED BY <1>1 DEF Covered

(* Pages that go from one place to another are not lost. *)
LEMMA SameLost ==
  ASSUME served' = served,
         \A p : (\/ p \in held' \/ p \in InFlight'
                 \/ \E k \in Level : \E c \in listed'[k] : p \in Span(c, k)
                 \/ \E i \in DOMAIN todo' : p \in RangePages(todo'[i]))
                <=> Placed(p)
  PROVE  Lost' = Lost
<1> DEFINE There(p) ==
             \/ p \in held' \/ p \in InFlight'
             \/ \E k \in Level : \E c \in listed'[k] : p \in Span(c, k)
             \/ \E i \in DOMAIN todo' : p \in RangePages(todo'[i])
<1>1. Lost' = {p \in served' : ~There(p)}
  BY DEF Lost, Placed, Covered, Level, Span, RangePages, BlockPages
<1>2. \A p : There(p) <=> Placed(p)
  OBVIOUS
<1> HIDE DEF There
<1>3. {p \in served' : ~There(p)} = {p \in served : ~Placed(p)}
  BY <1>2
<1> QED BY <1>1, <1>3 DEF Lost

(* The same once construction is over. *)
LEMMA SameLostReady ==
  ASSUME served' = served, todo = <<>>, todo' = todo,
         \A p : (\/ p \in held' \/ p \in InFlight'
                 \/ \E k \in Level : \E c \in listed'[k] : p \in Span(c, k))
                <=> (p \in held \/ p \in InFlight \/ Covered(p))
  PROVE  Lost' = Lost
<1>1. DOMAIN todo = {} /\ DOMAIN todo' = {}
  OBVIOUS
<1>2. \A p : Placed(p) <=> (p \in held \/ p \in InFlight \/ Covered(p))
  BY <1>1 DEF Placed
<1> QED BY <1>1, <1>2, SameLost

(* A step that leaves every place alone loses nothing. *)
LEMMA LostUntouched ==
  ASSUME UNCHANGED <<served, held, listed, todo, op>>
  PROVE  Lost' = Lost /\ (EndsWithPair => EndsWithPair')
<1>1. InFlight' = InFlight
  BY DEF InFlight
<1>2. Lost' = Lost
  BY <1>1, SameLost DEF Placed, Covered
<1>3. EndsWithPair => EndsWithPair'
  BY <1>1 DEF EndsWithPair
<1> QED BY <1>2, <1>3

(* init_metadata: the block linked is what the range gives up. *)
LEMMA InitBlockLoses ==
  ASSUME IInv, InitBlock
  PROVE  Lost' = Lost /\ EndsWithPair'
<1> DEFINE Rg == [base : Page, size : Nat]
           r == Head(todo)
<1>1. /\ todo # <<>> /\ todo \in Seq(Rg) /\ op = Idle
      /\ listed \in [Level -> SUBSET Page]
  BY DEF InitBlock, IInv, TypeOK, TodoInv
<1>2. /\ DOMAIN todo = 1 .. Len(todo) /\ Len(todo) \in Nat /\ 1 \in DOMAIN todo /\ r = todo[1] /\ r \in Rg
      /\ DOMAIN Tail(todo) = 1 .. Len(todo) - 1
      /\ \A i \in 1 .. Len(todo) - 1 : Tail(todo)[i] = todo[i + 1]
  <2>1. Len(todo) \in Nat /\ DOMAIN todo = 1 .. Len(todo) /\ Len(todo) # 0
    BY <1>1, LenProperties, EmptySeq
  <2>2. Tail(todo) \in Seq(Rg) /\ Len(Tail(todo)) = Len(todo) - 1 /\ r = todo[1]
    BY <1>1, HeadTailProperties
  <2>3. DOMAIN Tail(todo) = 1 .. Len(todo) - 1
    BY <2>2, LenProperties
  <2>4. \A i \in 1 .. Len(todo) - 1 : Tail(todo)[i] = todo[i + 1]
    BY <1>1, <2>1, HeadTailProperties
  <2>5. r \in Rg
    BY <1>1, HeadTailProperties
  <2> QED BY <2>1, <2>2, <2>3, <2>4, <2>5
<1>3. PICK l \in Level :
        /\ Fits(r, l)
        /\ Adding(l, r.base,
             /\ todo' = IF r.size = BlockPages(l)
                        THEN Tail(todo)
                        ELSE [todo EXCEPT ![1] = [base |-> r.base + BlockPages(l),
                                                  size |-> r.size - BlockPages(l)]]
             /\ UNCHANGED <<alloc_mem, free_mem, op, panic, held, served>>)
  BY DEF InitBlock
<1> DEFINE b == r.base
           s == BlockPages(l)
<1>4. AddChecks(l)
  BY ChecksPass DEF IInv
<1>5. /\ listed' = [listed EXCEPT ![l] = @ \cup {b}]
      /\ todo' = IF r.size = s THEN Tail(todo)
                 ELSE [todo EXCEPT ![1] = [base |-> b + s, size |-> r.size - s]]
      /\ op' = op /\ held' = held /\ served' = served
  BY <1>3, <1>4 DEF Adding, AddToList
<1>6. b \in Nat /\ r.size \in Nat /\ s \in Nat \ {0} /\ s <= r.size
  BY <1>2, <1>3, PowersOfTwo, AreaAssumption DEF Fits, Page
<1>7. Span(b, l) = b .. b + s - 1 /\ RangePages(r) = b .. b + r.size - 1
  BY DEF Span, RangePages
<1>8. InFlight' = InFlight /\ EndsWithPair'
  BY <1>1, <1>5 DEF InFlight, EndsWithPair, Idle
<1> HIDE DEF r, b, s
<1>9. \A p : ((\E i \in DOMAIN todo' : p \in RangePages(todo'[i])) \/ p \in Span(b, l)) <=>
             \E i \in DOMAIN todo : p \in RangePages(todo[i])
  <2>1. CASE r.size = s
    <3>1. DOMAIN todo' = 1 .. Len(todo) - 1 /\ \A i \in DOMAIN todo' : todo'[i] = todo[i + 1]
      BY <2>1, <1>2, <1>5
    <3>2. Span(b, l) = RangePages(todo[1])
      BY <2>1, <1>2, <1>7
    <3>3. \A i \in DOMAIN todo : i = 1 \/ (i - 1 \in DOMAIN todo' /\ todo'[i - 1] = todo[i])
      BY <3>1, <1>2
    <3>4. \A i \in DOMAIN todo' : i + 1 \in DOMAIN todo
      BY <3>1, <1>2
    <3> QED BY <3>1, <3>2, <3>3, <3>4, <1>2
  <2>2. CASE r.size # s
    <3> DEFINE q == [base |-> b + s, size |-> r.size - s]
    <3>1. RangePages(q) = b + s .. b + s + (r.size - s) - 1
      BY DEF RangePages
    <3>2. RangePages(todo[1]) = RangePages(q) \cup Span(b, l)
      BY <3>1, <1>2, <1>6, <1>7
    <3> HIDE DEF q
    <3>3. todo' = [todo EXCEPT ![1] = q]
      BY <1>5, <2>2 DEF q
    <3>4. DOMAIN todo' = DOMAIN todo /\ \A i \in DOMAIN todo : todo'[i] = IF i = 1 THEN q ELSE todo[i]
      BY <3>3, <1>1, <1>2
    <3> QED BY <3>2, <3>4, <1>2
  <2> QED BY <2>1, <2>2
<1>10. \A p : (\E k \in Level : \E c \in listed'[k] : p \in Span(c, k)) <=>
              (Covered(p) \/ p \in Span(b, l))
  BY <1>1, <1>5, AddCovers
<1>11. Lost' = Lost
  BY <1>5, <1>8, <1>9, <1>10, SameLost DEF Placed
<1> QED BY <1>8, <1>11


(* allocate: the popped block goes from its list to the call. *)
LEMMA AllocatePopLoses ==
  ASSUME IInv, EndsWithPair, NEW pages, AllocatePop(pages)
  PROVE  Lost' = Lost /\ EndsWithPair'
<1>1. todo = <<>> /\ op = Idle /\ InFlight = {} /\ listed \in [Level -> SUBSET Page]
  BY DEF AllocatePop, Ready, InFlight, Idle, IInv, TypeOK
<1>2. PICK t \in Level, l \in Level :
        /\ Available(pages, t, l)
        /\ Removing(l, head[l],
             /\ op' = [kind |-> "alloc", block |-> head[l], level |-> l, target |-> t]
             /\ UNCHANGED <<todo, alloc_mem, free_mem, panic, held, served>>)
  BY DEF AllocatePop
<1>3. head[l] \in listed[l]
  BY <1>2 DEF Available, IInv, RingsClosed
<1> DEFINE b == head[l]
<1>4. \/ Panic("checksum") \/ Panic("list head")
      \/ /\ listed' = [listed EXCEPT ![l] = @ \ {b}]
         /\ op' = [kind |-> "alloc", block |-> b, level |-> l, target |-> t]
         /\ UNCHANGED <<todo, held, served>>
  BY <1>2 DEF Removing, RemoveFromList
<1>5. CASE Panic("checksum") \/ Panic("list head")
  BY <1>5, LostUntouched DEF Panic
<1>6. CASE /\ listed' = [listed EXCEPT ![l] = @ \ {b}]
           /\ op' = [kind |-> "alloc", block |-> b, level |-> l, target |-> t]
           /\ UNCHANGED <<todo, held, served>>
  <2> HIDE DEF b
  <2>1. InFlight' = Span(b, l)
    BY <1>6 DEF InFlight
  <2>2. \A p : ((\E k \in Level : \E c \in listed'[k] : p \in Span(c, k)) \/ p \in Span(b, l)) <=>
               Covered(p)
    BY <1>1, <1>3, <1>6, RemoveCovers DEF b
  <2>3. Lost' = Lost
    BY <1>1, <1>6, <2>1, <2>2, SameLostReady
  <2>4. EndsWithPair'
    <3>1. op'.level \in Level
      BY <1>6
    <3>2. op'.level # Levels
      BY <3>1, AreaAssumption DEF Level
    <3> QED BY <3>2 DEF EndsWithPair
  <2> QED BY <2>3, <2>4
<1> QED BY <1>4, <1>5, <1>6

(* split_free_block: the odd half goes from the call to a list. *)
LEMMA AllocateSplitLoses ==
  ASSUME IInv, EndsWithPair, AllocateSplit
  PROVE  Lost' = Lost /\ EndsWithPair'
<1> DEFINE l == op.level - 1
           c == op.block
           b == OrBit(c, l)
<1>1. /\ op.kind = "alloc" /\ listed \in [Level -> SUBSET Page] /\ todo = <<>>
      /\ op.level > op.target /\ op.level \in Level /\ c \in Page /\ IsAligned(c, op.level)
  BY DEF AllocateSplit, Ready, IInv, OpInv, TypeOK
<1>2. op \in [kind : {"idle", "alloc", "free"}, block : {0} \cup Page, level : 0 .. Levels, target : Level]
  BY DEF IInv, TypeOK
<1>3. l \in Level /\ op.level = l + 1 /\ l + 1 \in Level
  <2>1. op.target \in Level
    BY <1>2
  <2> QED BY <1>1, <2>1, AreaAssumption DEF Level
<1>4. AddChecks(l)
  BY <1>3, ChecksPass DEF IInv
<1>5. /\ listed' = [listed EXCEPT ![l] = @ \cup {b}] /\ op' = [op EXCEPT !.level = l]
      /\ UNCHANGED <<todo, held, served>>
  BY <1>4 DEF AllocateSplit, Adding, AddToList
<1> HIDE DEF l
<1>6. op' = [op EXCEPT !.level = l] /\ c \in Nat
  BY <1>1, <1>5, AreaAssumption DEF Page
<1>7. InFlight = Span(c, l + 1) /\ InFlight' = Span(c, l)
  BY <1>1, <1>2, <1>3, <1>6 DEF InFlight
<1> HIDE DEF c, b
<1>8. Span(c, l + 1) = Span(c, l) \cup Span(b, l)
  BY <1>1, <1>3, <1>6, SplitFacts DEF b
<1>9. \A p : (\E k \in Level : \E d \in listed'[k] : p \in Span(d, k)) <=>
             (Covered(p) \/ p \in Span(b, l))
  BY <1>1, <1>3, <1>5, AddCovers
<1>10. Lost' = Lost
  BY <1>1, <1>5, <1>7, <1>8, <1>9, SameLostReady
<1>11. EndsWithPair'
  <2>1. op'.level = l /\ l # Levels
    BY <1>2, <1>3, <1>6, AreaAssumption DEF Level
  <2> QED BY <2>1 DEF EndsWithPair
<1> QED BY <1>10, <1>11

(* allocate returns, or free is called: the pages change hands. *)
LEMMA HandoverLoses ==
  ASSUME IInv, EndsWithPair, AllocateReturn \/ \E b \in Page, l \in Level : Free(b, l)
  PROVE  Lost' = Lost /\ EndsWithPair'
<1>1. CASE AllocateReturn
  <2>1. /\ todo = <<>> /\ op.kind = "alloc" /\ op.level = op.target /\ op' = Idle
        /\ held' = held \cup Span(op.block, op.target)
        /\ UNCHANGED <<listed, todo, served>>
    BY <1>1 DEF AllocateReturn, Ready, allocVars
  <2>2. InFlight = Span(op.block, op.target) /\ InFlight' = {} /\ EndsWithPair'
    BY <2>1 DEF InFlight, Idle, EndsWithPair
  <2>3. Lost' = Lost
    BY <2>1, <2>2, SameLostReady DEF Covered
  <2> QED BY <2>2, <2>3
<1>2. CASE \E b \in Page, l \in Level : Free(b, l)
  <2>1. PICK b \in Page, l \in Level : Free(b, l)
    BY <1>2
  <2>2. /\ todo = <<>> /\ op = Idle /\ Span(b, l) \subseteq held /\ held' = held \ Span(b, l)
        /\ op' = [kind |-> "free", block |-> b, level |-> l, target |-> l]
        /\ UNCHANGED <<listed, todo, served>>
    BY <2>1 DEF Free, Ready, allocVars
  <2>3. InFlight = {} /\ InFlight' = Span(b, l)
    BY <2>2 DEF InFlight, Idle
  <2>4. Lost' = Lost
    BY <2>2, <2>3, SameLostReady DEF Covered
  <2>5. op'.level # Levels
    BY <2>2, AreaAssumption DEF Level
  <2> QED BY <2>4, <2>5 DEF EndsWithPair
<1> QED BY <1>1, <1>2


(* free links: the call's block goes to a list. *)
LEMMA FreeLinkLoses ==
  ASSUME IInv, FreeLink
  PROVE  Lost' = Lost /\ EndsWithPair'
<1> DEFINE l == op.level
           b == op.block
<1>1. op.kind = "free" /\ l \in Level /\ listed \in [Level -> SUBSET Page] /\ todo = <<>>
  BY DEF FreeLink, Freeing, Ready, IInv, TypeOK
<1>2. AddChecks(l)
  BY <1>1, ChecksPass DEF IInv
<1>3. /\ listed' = [listed EXCEPT ![l] = @ \cup {b}] /\ op' = Idle
      /\ UNCHANGED <<todo, held, served>>
  BY <1>2 DEF FreeLink, FreeCounts, Adding, AddToList
<1>4. InFlight = Span(b, l) /\ InFlight' = {} /\ EndsWithPair'
  BY <1>1, <1>3 DEF InFlight, Idle, EndsWithPair
<1> HIDE DEF l, b
<1>5. \A p : (\E k \in Level : \E c \in listed'[k] : p \in Span(c, k)) <=>
             (Covered(p) \/ p \in Span(b, l))
  BY <1>1, <1>3, AddCovers
<1>6. Lost' = Lost
  BY <1>1, <1>3, <1>4, <1>5, SameLostReady
<1> QED BY <1>4, <1>6

(* free coalesces: the buddy goes from its list to the call, and two        *)
(* buddies of the largest level make a pair.                                *)
LEMMA FreeCoalesceLoses ==
  ASSUME BaseAligned, IInv, EndsWithPair, FreeCoalesce
  PROVE  Lost' = Lost /\ EndsWithPair'
<1> DEFINE l == op.level
           b == op.block
           buddy == Buddy(b, l)
           low == IF buddy < b THEN buddy ELSE b
<1>1. /\ todo = <<>> /\ op.kind = "free" /\ l \in Level
      /\ listed \in [Level -> SUBSET Page] /\ BlockPair(b, l) \in flags[l]
  BY DEF FreeCoalesce, Freeing, BuddyFree, Ready, IInv, TypeOK
<1>2. op \in [kind : {"idle", "alloc", "free"}, block : {0} \cup Page, level : 0 .. Levels, target : Level]
  BY DEF IInv, TypeOK
<1>3. b \in Page /\ IsAligned(b, l) /\ b \in Nat
  BY <1>1, AreaAssumption DEF IInv, OpInv, Page
<1>4. Removing(l, buddy,
        /\ op' = [op EXCEPT !.block = low, !.level = l + 1]
        /\ UNCHANGED <<todo, alloc_mem, free_mem, panic, held, served>>)
  BY DEF FreeCoalesce
<1>5. InFlight = Span(b, l)
  BY <1>1 DEF InFlight
<1> HIDE DEF l, b
<1>6. \A k \in Level : \A c \in listed[k] : Span(c, k) \cap Span(b, l) = {}
  BY <1>5 DEF IInv, NoDoubleOwnership, ListsOwned
<1>7. b \notin listed[l]
  BY <1>1, <1>3, <1>6, SpanStart
<1>8. buddy \in listed[l]
  <2>1. BlockPair(b, l) \in flags[l] <=> ~(b \in listed[l] <=> buddy \in listed[l])
    BY <1>1, <1>3 DEF IInv, FlagsMatchLists
  <2> QED BY <2>1, <1>1, <1>7
<1>9. \/ Panic("checksum") \/ Panic("list head")
      \/ /\ listed' = [listed EXCEPT ![l] = @ \ {buddy}]
         /\ op' = [op EXCEPT !.block = low, !.level = l + 1]
         /\ UNCHANGED <<todo, held, served>>
  BY <1>4 DEF Removing, RemoveFromList
<1>10. CASE Panic("checksum") \/ Panic("list head")
  BY <1>10, LostUntouched DEF Panic
<1>11. CASE /\ listed' = [listed EXCEPT ![l] = @ \ {buddy}]
            /\ op' = [op EXCEPT !.block = low, !.level = l + 1]
            /\ UNCHANGED <<todo, held, served>>
  <2>1. Span(low, l + 1) = Span(b, l) \cup Span(buddy, l)
    BY <1>1, <1>3, MergeFacts
  <2>2. l + 1 = Levels => \E k \in 0 .. Size : Span(low, l + 1) = TopPair(k)
    BY <1>1, <1>3, MergedPair
  <2> HIDE DEF low, buddy
  <2>3. op'.kind = "free" /\ op'.block = low /\ op'.level = l + 1
    BY <1>1, <1>2, <1>11
  <2>4. InFlight' = Span(low, l + 1)
    BY <2>3 DEF InFlight
  <2>5. \A p : ((\E k \in Level : \E c \in listed'[k] : p \in Span(c, k)) \/ p \in Span(buddy, l)) <=>
               Covered(p)
    BY <1>1, <1>8, <1>11, RemoveCovers
  <2>6. Lost' = Lost
    BY <1>1, <1>5, <1>11, <2>1, <2>4, <2>5, SameLostReady
  <2>7. EndsWithPair'
    BY <2>2, <2>3, <2>4 DEF EndsWithPair, TopPair, BlockPages
  <2> QED BY <2>6, <2>7
<1> QED BY <1>9, <1>10, <1>11

(* free runs out of levels: a whole pair, which was nowhere else, is lost.  *)
LEMMA FreeExhaustedLoses ==
  ASSUME IInv, EndsWithPair, FreeExhausted
  PROVE  /\ \E k \in 0 .. Size : Lost' = Lost \cup TopPair(k)
         /\ EndsWithPair'
<1>1. /\ todo = <<>> /\ op.kind = "free" /\ op.level = Levels /\ op' = Idle
      /\ UNCHANGED <<listed, todo, held, served>>
  BY DEF FreeExhausted, FreeCounts, Freeing, Ready, allocVars
<1>2. PICK k \in 0 .. Size : InFlight = TopPair(k)
  BY <1>1 DEF EndsWithPair
<1>3. InFlight' = {} /\ EndsWithPair'
  BY <1>1 DEF InFlight, Idle, EndsWithPair
<1>4. InFlight \subseteq served \ held
  BY DEF IInv, NoDoubleOwnership
<1>5. \A p \in InFlight : ~Covered(p)
  BY DEF IInv, NoDoubleOwnership, ListsOwned, Covered
<1>6. DOMAIN todo = {}
  BY <1>1
<1> DEFINE There(p) == p \in held \/ Covered(p)
<1>7. Lost' = {p \in served : ~There(p)}
  BY <1>1, <1>3, <1>6 DEF Lost, Placed, Covered
<1>8. Lost = {p \in served : ~There(p) /\ p \notin InFlight}
  BY <1>6 DEF Lost, Placed
<1>9. \A p \in InFlight : p \in served /\ ~There(p)
  BY <1>4, <1>5
<1> HIDE DEF There
<1>10. {p \in served : ~There(p)} = {p \in served : ~There(p) /\ p \notin InFlight} \cup InFlight
  BY <1>9
<1> QED BY <1>2, <1>3, <1>7, <1>8, <1>10

(* Every step loses nothing, or one whole pair of largest blocks. *)
LEMMA NextLoses ==
  ASSUME BaseAligned, IInv, EndsWithPair, [Next]_vars
  PROVE  /\ Lost' = Lost \/ \E k \in 0 .. Size : Lost' = Lost \cup TopPair(k)
         /\ EndsWithPair'
<1>1. CASE InitBlock
  BY <1>1, InitBlockLoses
<1>2. CASE \E pages \in 0 .. BlockPages(Levels - 1) + 1 : AllocateNone(pages) \/ AllocatePop(pages)
  <2>1. PICK pages : AllocateNone(pages) \/ AllocatePop(pages)
    BY <1>2
  <2>2. CASE AllocateNone(pages)
    BY <2>2, LostUntouched DEF AllocateNone, vars
  <2>3. CASE AllocatePop(pages)
    BY <2>3, AllocatePopLoses
  <2> QED BY <2>1, <2>2, <2>3
<1>3. CASE AllocateSplit
  BY <1>3, AllocateSplitLoses
<1>4. CASE AllocateReturn \/ \E b \in Page, l \in Level : Free(b, l)
  BY <1>4, HandoverLoses
<1>5. CASE FreeLink
  BY <1>5, FreeLinkLoses
<1>6. CASE FreeCoalesce
  BY <1>6, FreeCoalesceLoses
<1>7. CASE FreeExhausted
  BY <1>7, FreeExhaustedLoses
<1>8. CASE (\E p \in Page : ClientWrite(p)) \/ Halt \/ UNCHANGED vars
  BY <1>8, LostUntouched DEF ClientWrite, Halt, vars
<1> QED
  BY <1>1, <1>2, <1>3, <1>4, <1>5, <1>6, <1>7, <1>8 DEF Next

(* No split, merge or construction drops a page: what the allocator loses   *)
(* it loses at the end of free's loop, a whole pair of largest blocks at a  *)
(* time.                                                                    *)
THEOREM LossesAreTopPairs ==
  ASSUME BaseAligned
  PROVE  Spec => []OnlyTopPairsLost
<1>1. Init => OnlyTopPairsLost /\ EndsWithPair
  <2> SUFFICES ASSUME Init PROVE OnlyTopPairsLost /\ EndsWithPair
    OBVIOUS
  <2>1. served = UNION {RangePages(todo[i]) : i \in DOMAIN todo} /\ op = Idle
    BY DEF Init
  <2>2. \A p \in served : \E i \in DOMAIN todo : p \in RangePages(todo[i])
    BY <2>1
  <2>3. Lost = {}
    BY <2>2 DEF Lost, Placed
  <2> QED BY <2>1, <2>3 DEF OnlyTopPairsLost, EndsWithPair, Idle
<1>2. IInv /\ OnlyTopPairsLost /\ EndsWithPair /\ [Next]_vars => OnlyTopPairsLost' /\ EndsWithPair'
  <2> SUFFICES ASSUME IInv, OnlyTopPairsLost, EndsWithPair, [Next]_vars
               PROVE  OnlyTopPairsLost' /\ EndsWithPair'
    OBVIOUS
  <2>1. /\ Lost' = Lost \/ \E k \in 0 .. Size : Lost' = Lost \cup TopPair(k)
        /\ EndsWithPair'
    BY NextLoses
  <2>2. \A p \in Lost' : \E k \in 0 .. Size : p \in TopPair(k) /\ TopPair(k) \subseteq Lost'
    BY <2>1 DEF OnlyTopPairsLost
  <2> QED BY <2>1, <2>2 DEF OnlyTopPairsLost, TopPair, BlockPages
<1> QED
  BY <1>1, <1>2, Invariance, PTL DEF Spec

=============================================================================
