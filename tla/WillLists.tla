------------------------------ MODULE WillLists ------------------------------
(***************************************************************************)
(* The lists of wills the read methods return: the answer of the contract  *)
(* without repeated wills and in the order of their ids, and its pages.    *)
(* A will is a record with its id; its other fields are left out, and a    *)
(* cursor text is the number it writes, or Malformed.                      *)
(***************************************************************************)
EXTENDS Integers, Sequences, SequencesExt

CONSTANTS
  Absent,      (* An option that is not given, no next page.               *)
  Malformed    (* InvalidCursorError, InvalidPaginationOptionsError.       *)

ASSUME WillListsAssumption == {Absent, Malformed} \cap Int = {}

(* deduplicateWillsById(): the first of those with the same id. *)
DeduplicateWillsById(wills) ==
  LET repeated(i) == \E j \in 1..(i - 1) : wills[j].id = wills[i].id
      First(kept, i) == IF repeated(i) THEN kept ELSE Append(kept, wills[i])
  IN FoldLeft(First, <<>>, [i \in DOMAIN wills |-> i])

(* sortWillsById(). *)
SortWillsById(wills) == SortSeq(wills, LAMBDA a, b : a.id < b.id)

(* mapWillList(). *)
MapWillList(raw) == SortWillsById(DeduplicateWillsById(raw))

(* parseCursor(): an offset, without sign or leading zeros. *)
ParseCursor(cursor) ==
  CASE cursor = Absent -> 0
    [] cursor \in Nat -> cursor
    [] OTHER -> Malformed

(* normalizePositiveInteger(). *)
NormalizePageSize(pageSize) ==
  IF pageSize = Absent \/ pageSize \in Nat \ {0} THEN pageSize ELSE Malformed

(* getWillsByOwner() refuses its options before it reads anything. *)
PageRefused(pageSize, cursor) ==
  ParseCursor(cursor) = Malformed \/ NormalizePageSize(pageSize) = Malformed

(* paginate(): the page, and the cursor of the next one. *)
Paginate(wills, pageSize, cursor) ==
  LET start == ParseCursor(cursor)
      size == IF NormalizePageSize(pageSize) = Absent THEN Len(wills) ELSE pageSize
      page == SubSeq(wills, start + 1, Min({start + size, Len(wills)}))
      next == start + Len(page)
  IN [wills |-> page,
      nextCursor |-> IF next < Len(wills) THEN next ELSE Absent]
=============================================================================
