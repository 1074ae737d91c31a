------------------------------- MODULE DtbReader -------------------------------
(*****************************************************************************)
(* The device tree reader of src/support/dtb.rs: cursor operations on a      *)
(* flattened device tree, and the walk of DtbReader::scan from node to node. *)
(*                                                                           *)
(* dtb is the sequence of big-endian words of (a part of) the structure      *)
(* block and a cursor an index into it, Len(dtb) + 1 at the end: every       *)
(* cursor that the code keeps is word-aligned.  A word is [u32 |-> n] or     *)
(* [str |-> s]; a string, with its terminator and padding, is one word, and  *)
(* so is the offset of a property's name in the string table.                *)
(*****************************************************************************)
EXTENDS Naturals, Sequences, FiniteSetsExt, SequencesExt

FDT_BEGIN_NODE == 1
FDT_END_NODE == 2
FDT_PROP == 3
FDT_NOOP == 4
FDT_END == 9
FDT_MAGIC == "d00dfeed"
FDT_WORD_BYTES == 4
FDT_HEADER_SIZE == 32
FDT_MAX_SIZE == 64 * 1024 * 1024

U32(n) == [u32 |-> n]
Str(s) == [str |-> s]

-----------------------------------------------------------------------------
(* check_dtb, and the ten words that new reads of a header: more than        *)
(* FDT_HEADER_SIZE.                                                          *)
CheckDtb(header) ==
  /\ header.blob # 0
  /\ header.magic = FDT_MAGIC
  /\ header.total_size \in FDT_HEADER_SIZE .. FDT_MAX_SIZE

ReaderNew(header) == CheckDtb(header) /\ 10 * FDT_WORD_BYTES <= header.total_size

(* get_u32: there is a word, and its value; that of text is no marker. *)
HasU32(dtb, loc) == loc <= Len(dtb)
GetU32(dtb, loc) == IF "u32" \in DOMAIN dtb[loc] THEN dtb[loc].u32 ELSE 0

(* get_null_terminated_u8_slice at the start of a word that is there; the    *)
(* callers' skip_and_align(1) then moves to the next word.                   *)
GetString(dtb, loc) == IF "str" \in DOMAIN dtb[loc] THEN dtb[loc].str ELSE ""

(* skip_and_align: to the next word boundary, or to the end of the blob. *)
SkipAndAlign(dtb, loc, bytes) ==
  Min({Len(dtb) + 1, loc + (bytes + FDT_WORD_BYTES - 1) \div FDT_WORD_BYTES})

(* The first word at or after loc that is not one of the markers, and so     *)
(* ends a loop that ignores them.                                            *)
PastMarkers(dtb, loc, markers) ==
  Min({i \in loc .. Len(dtb) : GetU32(dtb, i) \notin markers} \cup {Len(dtb) + 1})

NoProperty(loc) == [found |-> FALSE, loc |-> loc]

(* get_next_property: past noops, the cursor stays on any other marker. *)
GetNextProperty(dtb, loc) ==
  LET at == PastMarkers(dtb, loc, {FDT_NOOP})
  IN IF ~HasU32(dtb, at) \/ GetU32(dtb, at) # FDT_PROP THEN NoProperty(at)
     ELSE IF ~HasU32(dtb, at + 2) THEN NoProperty(Len(dtb) + 1)
     ELSE [found |-> TRUE, size |-> GetU32(dtb, at + 1), name |-> GetString(dtb, at + 2),
           loc |-> at + 3]

(* A loop over properties makes no more turns than there are such markers. *)
PropertyMarkers(dtb) == SelectSeq(dtb, LAMBDA word : word = U32(FDT_PROP))

(* The n cells at loc as a u64, a cell having `cell` values. *)
GetCells(dtb, loc, n, cell) ==
  FoldLeft(LAMBDA value, word : (value * cell + word.u32) % (cell * cell),
           0, SubSeq(dtb, loc, loc + n - 1))

GetRegPairSize(addr_cells, size_cells) == FDT_WORD_BYTES * (addr_cells + size_cells)

(* get_reg_pair: there is one, and what it is. *)
HasRegPair(dtb, loc, addr_cells, size_cells) ==
  addr_cells # 0 /\ loc + addr_cells + size_cells <= Len(dtb) + 1

GetRegPair(dtb, loc, addr_cells, size_cells, cell) ==
  [addr |-> GetCells(dtb, loc, addr_cells, cell),
   size |-> GetCells(dtb, loc + addr_cells, size_cells, cell)]

(* How a property is laid out in a blob. *)
Property(name, size, words) == <<U32(FDT_PROP), U32(size), Str(name)>> \o words

-----------------------------------------------------------------------------
(* skip_node_properties: the begin or end marker behind the properties, or 0 *)
(* for an error.                                                             *)
SkipNodeProperties(dtb, loc) ==
  LET Skip[i \in 1 .. Len(dtb) + 1] ==
        LET at == PastMarkers(dtb, i, {FDT_NOOP})
        IN CASE ~HasU32(dtb, at) -> 0
             [] GetU32(dtb, at) \in {FDT_BEGIN_NODE, FDT_END_NODE} -> at
             [] GetU32(dtb, at) = FDT_PROP /\ HasU32(dtb, at + 1) ->
                  Skip[SkipAndAlign(dtb, at + 2, GetU32(dtb, at + 1) + FDT_WORD_BYTES)]
             [] OTHER -> 0
  IN Skip[loc]

(* The rest of a turn of scan, from the properties of a node: another node   *)
(* begins, the tree ends, or the blob is invalid.                            *)
ScanToNextNode(dtb, loc) ==
  LET props_end == SkipNodeProperties(dtb, loc)
      at == PastMarkers(dtb, props_end, {FDT_END_NODE, FDT_NOOP})
  IN CASE props_end = 0 \/ ~HasU32(dtb, at) -> "invalid"
       [] GetU32(dtb, at) = FDT_BEGIN_NODE -> "node"
       [] GetU32(dtb, at) = FDT_END -> "end"
       [] OTHER -> "invalid"

=============================================================================
