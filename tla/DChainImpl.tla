----------------------------- MODULE DChainImpl -----------------------------
(***************************************************************************)
(* The cells of a double chain (libvig/verified/double-chain-impl.c): an   *)
(* array of prev/next links holding two rings, the allocated indexes in    *)
(* the order of their last use and the free indexes as a stack.  An array  *)
(* of structures is a record of two functions, and an operation of the C   *)
(* file is an operator from cells to cells.                                *)
(***************************************************************************)
EXTENDS Integers

CONSTANT IndexRange        \* index_range, the number of indexes

ASSUME IndexRangeAssumption == IndexRange \in Nat \ {0}

ALLOC_LIST_HEAD == 0
FREE_LIST_HEAD == 1
INDEX_SHIFT == 2           \* DCHAIN_RESERVED

Indexes == 0 .. (IndexRange - 1)
CellIds == 0 .. (IndexRange + 1)
DataCells == 2 .. (IndexRange + 1)
Links == [CellIds -> CellIds]
Cells == [prev : Links, next : Links]

(* One assignment to a field of a cell, and the "prev = next = v" that     *)
(* marks the cells of the free list.                                       *)
SetNext(c, i, v) == [c EXCEPT !.next = [@ EXCEPT ![i] = v]]
SetPrev(c, i, v) == [c EXCEPT !.prev = [@ EXCEPT ![i] = v]]
SetBoth(c, i, v) == SetPrev(SetNext(c, i, v), i, v)

(* All the indexes are free, in increasing order.                          *)
dchain_impl_init ==
  LET next == [i \in CellIds |-> IF i = ALLOC_LIST_HEAD THEN ALLOC_LIST_HEAD
                                 ELSE IF i = IndexRange + 1 THEN FREE_LIST_HEAD
                                 ELSE i + 1]
  IN  [prev |-> next, next |-> next]

(* Only the forward link is taken out.                                     *)
UnlinkForward(c, x) == SetNext(c, c.prev[x], c.next[x])

(* Extract a cell from the "alloc" chain.                                  *)
Unlink(c, x) == SetPrev(SetNext(c, c.prev[x], c.next[x]), c.next[x], c.prev[x])

(* Link a cell at the very end of the "alloc" chain, before the head.      *)
LinkLast(c, x) ==
  LET last == c.prev[ALLOC_LIST_HEAD]
      own  == SetPrev(SetNext(c, x, ALLOC_LIST_HEAD), x, last)
  IN  SetPrev(SetNext(own, last, x), ALLOC_LIST_HEAD, x)

HasFreeIndex(c) == c.next[FREE_LIST_HEAD] # FREE_LIST_HEAD

NewIndex(c) == c.next[FREE_LIST_HEAD] - INDEX_SHIFT

dchain_impl_allocate_new_index(c) ==
  LET allocated == c.next[FREE_LIST_HEAD]
  IN  IF HasFreeIndex(c)
      THEN LinkLast(SetBoth(c, FREE_LIST_HEAD, c.next[allocated]), allocated)
      ELSE c

(* A free cell has equal links; so has the only cell of the "alloc" chain, *)
(* whose links both are the head.                                          *)
dchain_impl_is_index_allocated(c, index) ==
  LET x == index + INDEX_SHIFT
  IN  c.next[x] = c.prev[x] => c.next[x] = ALLOC_LIST_HEAD

(* The cells after dchain_impl_free_index: the cell of an allocated index  *)
(* moves to the top of the free list, a free index changes nothing.        *)
dchain_impl_free_index(c, index) ==
  LET x == index + INDEX_SHIFT
      u == Unlink(c, x)
      f == SetBoth(u, x, u.next[FREE_LIST_HEAD])
  IN  IF dchain_impl_is_index_allocated(c, index)
      THEN SetBoth(f, FREE_LIST_HEAD, x)
      ELSE c

HasOldestIndex(c) == c.next[ALLOC_LIST_HEAD] # ALLOC_LIST_HEAD

OldestIndex(c) == c.next[ALLOC_LIST_HEAD] - INDEX_SHIFT

(* The relinking forgotten: the cell keeps its place in the order of use.  *)
dchain_impl_rejuvenate_index_in_place(c, index) == c

(* The cell of an allocated index moves to the end of the "alloc" chain,   *)
(* unless it is the only one there.                                        *)
dchain_impl_rejuvenate_index(c, index) ==
  LET x == index + INDEX_SHIFT
  IN  IF c.next[x] = c.prev[x] THEN c ELSE LinkLast(Unlink(c, x), x)
=============================================================================
