---------------------------- MODULE DoubleChain ----------------------------
(***************************************************************************)
(* A double chain (libvig/verified/double-chain.c): the cells and, for     *)
(* every index, the time of its last use.  The callers are the network     *)
(* functions: they pass the time of the packet being processed, which      *)
(* never goes back, and indexes in range (the contracts of double-chain.h).*)
(***************************************************************************)
EXTENDS DChainImpl

CONSTANT MaxTime           \* bound: the clock stops here

MaxTimeAssumption == MaxTime \in Nat

VARIABLES cells,           \* struct dchain_cell cells[index_range + 2]
          timestamps,      \* vigor_time_t timestamps[index_range]
          reply,           \* the value the last call returned, with its index_out
          now              \* the time the callers pass

vars == <<cells, timestamps, reply, now>>

Times == 0 .. MaxTime

NoIndex == -1

Ops == {"init", "allocate", "rejuvenate", "free", "expire", "is_allocated"}

Answer(op, ok, i) == reply' = [op |-> op, ok |-> ok, index |-> i]

(* dchain_allocate: timestamps come from malloc, uninitialized.            *)
Init == /\ cells = dchain_impl_init
        /\ timestamps \in [Indexes -> Times]
        /\ reply = [op |-> "init", ok |-> TRUE, index |-> NoIndex]
        /\ now = 0

Tick == now < MaxTime /\ now' = now + 1 /\ UNCHANGED <<cells, timestamps, reply>>

dchain_allocate_new_index ==
  /\ cells' = dchain_impl_allocate_new_index(cells)
  /\ IF HasFreeIndex(cells)
     THEN /\ timestamps' = [timestamps EXCEPT ![NewIndex(cells)] = now]
          /\ Answer("allocate", TRUE, NewIndex(cells))
     ELSE UNCHANGED timestamps /\ Answer("allocate", FALSE, NoIndex)
  /\ UNCHANGED now

dchain_rejuvenate_index(index) ==
  /\ cells' = dchain_impl_rejuvenate_index(cells, index)
  /\ timestamps' = IF dchain_impl_is_index_allocated(cells, index)
                   THEN [timestamps EXCEPT ![index] = now] ELSE timestamps
  /\ Answer("rejuvenate", dchain_impl_is_index_allocated(cells, index), index)
  /\ UNCHANGED now

dchain_expire_one_index(time) ==
  LET expires == HasOldestIndex(cells) /\ timestamps[OldestIndex(cells)] < time
  IN  /\ cells' = IF expires THEN dchain_impl_free_index(cells, OldestIndex(cells))
                  ELSE cells
      /\ Answer("expire", expires,
                IF HasOldestIndex(cells) THEN OldestIndex(cells) ELSE NoIndex)
      /\ UNCHANGED <<timestamps, now>>

dchain_free_index(index) ==
  /\ cells' = dchain_impl_free_index(cells, index)
  /\ Answer("free", dchain_impl_is_index_allocated(cells, index), index)
  /\ UNCHANGED <<timestamps, now>>

dchain_is_index_allocated(index) ==
  /\ Answer("is_allocated", dchain_impl_is_index_allocated(cells, index), index)
  /\ UNCHANGED <<cells, timestamps, now>>

Next == \/ Tick
        \/ dchain_allocate_new_index
        \/ \E i \in Indexes : \/ dchain_rejuvenate_index(i)
                              \/ dchain_free_index(i)
                              \/ dchain_is_index_allocated(i)
        \/ \E time \in -1 .. now : dchain_expire_one_index(time)

Spec == Init /\ [][Next]_vars
-----------------------------------------------------------------------------
TypeOK == /\ cells \in Cells
          /\ timestamps \in [Indexes -> Times]
          /\ reply \in [op : Ops, ok : BOOLEAN, index : Indexes \cup {NoIndex}]
          /\ now \in Times

Allocated == {i \in Indexes : dchain_impl_is_index_allocated(cells, i)}

(* The cells reached from a list head through at most n "next" links.      *)
Reach(h) ==
  LET from[n \in 0 .. IndexRange] ==
        IF n = 0 THEN {h} ELSE from[n - 1] \cup {cells.next[x] : x \in from[n - 1]}
  IN  from[IndexRange] \ {h}

(* double-chain-impl.h says that after initialization any cell is on one   *)
(* and only one of the two lists: following "next" from the two heads,     *)
(* whatever was allocated, freed, expired and moved, reaches every cell    *)
(* exactly once, each ring comes back to its head, and the one-cell test   *)
(* of dchain_is_index_allocated tells the rings apart.                     *)
OneListEach ==
  LET alloc == Reach(ALLOC_LIST_HEAD)
      free  == Reach(FREE_LIST_HEAD)
  IN  /\ TypeOK
      /\ alloc \cup free = DataCells
      /\ alloc = {i + INDEX_SHIFT : i \in Allocated}
      /\ alloc \cap free = {}

(* Every operation is one of the abstract allocator and gives its answer:  *)
(* allocation fails only when all the indexes are taken, never hands out a *)
(* taken one, and expiration removes an index no other was used before.    *)
A == INSTANCE IndexAllocator WITH times <- [i \in Allocated |-> timestamps[i]]

AllocatorSpec == A!Spec

=============================================================================
