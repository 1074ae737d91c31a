------------------------ MODULE BufferedPageAllocator ------------------------
(*****************************************************************************)
(* BufferedPageAllocator of src/arch/common/memory.rs, which gives boot the  *)
(* pages of its tables: single pages of one area, tracked by a bitmap.       *)
(* Operators on the bitmap; start and end are page numbers.  free has no     *)
(* callers.                                                                  *)
(*****************************************************************************)
EXTENDS Bitmap

(* new: pages past the bitmap are never handed out. *)
BitmapLength(start, end) == Length(end - start)

(* alloc(1): {} for None, or the one page it returns ... *)
AllocPage(bitmap, start, end) == {start + z : z \in FirstZero(bitmap, BitmapLength(start, end))}

(* ... which is marked. *)
MarkPage(bitmap, start, end, page) == SetBit(bitmap, BitmapLength(start, end), page - start)

(* get_alloc_mem, in pages. *)
GetAllocMem(bitmap) == Ones(bitmap)

=============================================================================
