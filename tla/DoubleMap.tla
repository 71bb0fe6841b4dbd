----------------------------- MODULE DoubleMap -----------------------------
(***************************************************************************)
(* A map with two keys (libvig/verified/double-map.c): an array of values  *)
(* and, for either key of a value, a hash table from the key to the index  *)
(* of the value.  The indexes come from a double chain, and the values     *)
(* that were not used for a while are erased by expire_items               *)
(* (libvig/verified/expirator.c), whose loop is one step per iteration.    *)
(***************************************************************************)
EXTENDS DChainImpl, FiniteSets

CONSTANTS KeysA, HashA, KeysB, HashB,
          KeysCapacity,    \* keys_capacity, the slots of a hash table
          ZeroA, ZeroB,    \* what the memory of the arrays holds at first
          MaxTime          \* bound: the clock stops here

VARIABLES cells, timestamps,   \* the double chain
          values,              \* index -> the two keys of the value
          ma, mb,              \* the two hash tables
          n_vals,
          border,              \* the time of expire_items in its loop, or NoTime
          now

vars == <<cells, timestamps, values, ma, mb, n_vals, border, now>>

NoTime == -1

A == INSTANCE MapImpl WITH Keys <- KeysA, Hash <- HashA, Values <- Indexes,
                           Capacity <- KeysCapacity
B == INSTANCE MapImpl WITH Keys <- KeysB, Hash <- HashB, Values <- Indexes,
                           Capacity <- KeysCapacity

DoubleMapAssumption == /\ A!MapAssumption /\ B!MapAssumption
                       /\ KeysCapacity >= IndexRange
                       /\ ZeroA \in KeysA /\ ZeroB \in KeysB /\ MaxTime \in Nat

Allocated == {i \in Indexes : dchain_impl_is_index_allocated(cells, i)}

dmap_allocate == /\ values = [i \in Indexes |-> [a |-> ZeroA, b |-> ZeroB]]
                 /\ ma = A!map_impl_init(ZeroA, 0) /\ mb = B!map_impl_init(ZeroB, 0)
                 /\ n_vals = 0

Init == /\ cells = dchain_impl_init /\ timestamps = [i \in Indexes |-> 0]
        /\ dmap_allocate
        /\ border = NoTime /\ now = 0

dmap_get_a(a) == A!map_impl_get(ma, a)

dmap_get_b(b) == B!map_impl_get(mb, b)

(* The keys are extracted from the copy of the value, in the array.        *)
dmap_put(v, index) ==
  /\ values' = [values EXCEPT ![index] = v]
  /\ ma' = A!map_impl_put(ma, v.a, index)
  /\ mb' = B!map_impl_put(mb, v.b, index)
  /\ n_vals' = n_vals + 1

(* One of the two tables keeps its entry.                                  *)
dmap_erase_a(index) ==
  /\ ma' = A!map_impl_erase(ma, values[index].a)
  /\ n_vals' = n_vals - 1
  /\ UNCHANGED <<values, mb>>

dmap_erase(index) ==
  /\ ma' = A!map_impl_erase(ma, values[index].a)
  /\ mb' = B!map_impl_erase(mb, values[index].b)
  /\ n_vals' = n_vals - 1
  /\ UNCHANGED values

Tick == /\ border = NoTime /\ now < MaxTime /\ now' = now + 1
        /\ UNCHANGED <<cells, timestamps, values, ma, mb, n_vals, border>>

(* A caller adds a value with two keys that are new, at a free index.      *)
Add(v) ==
  /\ border = NoTime /\ HasFreeIndex(cells)
  /\ ~dmap_get_a(v.a).found /\ ~dmap_get_b(v.b).found
  /\ cells' = dchain_impl_allocate_new_index(cells)
  /\ timestamps' = [timestamps EXCEPT ![NewIndex(cells)] = now]
  /\ dmap_put(v, NewIndex(cells))
  /\ UNCHANGED <<border, now>>

(* And refreshes the one a key leads to.                                   *)
Refresh(r) ==
  /\ border = NoTime /\ r.found
  /\ cells' = dchain_impl_rejuvenate_index(cells, r.value)
  /\ timestamps' = [timestamps EXCEPT ![r.value] = now]
  /\ UNCHANGED <<values, ma, mb, n_vals, border, now>>

expire_start(time) ==
  /\ border = NoTime /\ border' = time
  /\ UNCHANGED <<cells, timestamps, values, ma, mb, n_vals, now>>

(* dchain_expire_one_index finds an index to free.                         *)
Expires == HasOldestIndex(cells) /\ timestamps[OldestIndex(cells)] < border

(* An iteration of the loop of expire_items, and its end.                  *)
expire_items ==
  /\ border # NoTime /\ Expires
  /\ cells' = dchain_impl_free_index(cells, OldestIndex(cells))
  /\ dmap_erase(OldestIndex(cells))
  /\ UNCHANGED <<timestamps, border, now>>

expire_done ==
  /\ border # NoTime /\ ~Expires /\ border' = NoTime
  /\ UNCHANGED <<cells, timestamps, values, ma, mb, n_vals, now>>

Next == \/ Tick
        \/ \E v \in [a : KeysA, b : KeysB] : Add(v)
        \/ \E a \in KeysA : Refresh(dmap_get_a(a))
        \/ \E b \in KeysB : Refresh(dmap_get_b(b))
        \/ \E time \in 0 .. now : expire_start(time)
        \/ expire_items
        \/ expire_done

Spec == Init /\ [][Next]_vars
-----------------------------------------------------------------------------
(* Either key of a value leads to its index and no other key to any, so a  *)
(* value is found by both of its keys or by none: between the iterations   *)
(* of expire_items too, whatever slots of the two tables were reused.      *)
TwoWays ==
  /\ n_vals = Cardinality(Allocated)
  /\ \A a \in KeysA : LET r == dmap_get_a(a)
                      IN  /\ r.found => r.value \in Allocated /\ values[r.value].a = a
                          /\ ~r.found => \A i \in Allocated : values[i].a # a
  /\ \A b \in KeysB : LET r == dmap_get_b(b)
                      IN  /\ r.found => r.value \in Allocated /\ values[r.value].b = b
                          /\ ~r.found => \A i \in Allocated : values[i].b # b
=============================================================================
