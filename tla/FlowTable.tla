----------------------------- MODULE FlowTable -----------------------------
(***************************************************************************)
(* The table of a network function: a double chain that allocates indexes, *)
(* a vector that holds the key of every index and a hash map from keys to  *)
(* indexes, kept in step by the callers (the flow managers of vignat and   *)
(* vigfw, the balancer of viglb) and by the expirator                      *)
(* (libvig/verified/expirator.c), whose loop is one step per iteration.    *)
(***************************************************************************)
EXTENDS DChainImpl, MapImpl

CONSTANTS ZeroKey,         \* the key the vector is initialized with
          MaxTime          \* bound: the clock stops here

(* The flow managers allocate the three containers with one capacity.      *)
TableAssumption == /\ MaxTime \in Nat /\ ZeroKey \in Keys
                   /\ Capacity = IndexRange /\ Values = Indexes

VARIABLES cells, timestamps,   \* the double chain
          fv,                  \* the vector: index -> key
          fm, size,            \* the map: its hash table and its entry count
          pc,                  \* "idle", or "expire" in the loop of the expirator
          call,                \* the argument of the last call: a key, or a time
          now

vars == <<cells, timestamps, fv, fm, size, pc, call, now>>

Allocated == {i \in Indexes : dchain_impl_is_index_allocated(cells, i)}

vector_allocate == fv = [i \in Indexes |-> ZeroKey]

map_allocate == fm = map_impl_init(ZeroKey, 0) /\ size = 0

(* The state alloc_state leaves; the time stamps are what malloc left.     *)
Init == /\ cells = dchain_impl_init
        /\ \E left \in {0, MaxTime} : timestamps = [i \in Indexes |-> left]
        /\ vector_allocate
        /\ map_allocate
        /\ pc = "idle" /\ call = [time |-> 0]
        /\ now = 0

map_get(k) == map_impl_get(fm, k)

(* The callers' part of the contracts of map.h, a key that is absent and   *)
(* room for it, is not checked by the code.                                *)
map_put(k, i) == fm' = map_impl_put(fm, k, i) /\ size' = size + 1

map_erase(k) == fm' = map_impl_erase(fm, k) /\ size' = size - 1

Tick == /\ pc = "idle" /\ now < MaxTime /\ now' = now + 1
        /\ UNCHANGED <<cells, timestamps, fv, fm, size, pc, call>>

(* flow_manager_allocate_flow, for a key the map does not have: nothing    *)
(* changes when no index is free.                                          *)
allocate_flow(k) ==
  LET index == NewIndex(cells)
  IN  /\ pc = "idle" /\ ~map_get(k).found /\ HasFreeIndex(cells)
      /\ cells' = dchain_impl_allocate_new_index(cells)
      /\ timestamps' = [timestamps EXCEPT ![index] = now]
      /\ fv' = [fv EXCEPT ![index] = k]
      /\ map_put(k, index)
      /\ call' = [key |-> k]
      /\ UNCHANGED <<pc, now>>

(* flow_manager_get_internal: the index of the key is rejuvenated.         *)
get_internal(k) ==
  LET index == map_get(k).value
  IN  /\ pc = "idle" /\ map_get(k).found
      /\ cells' = dchain_impl_rejuvenate_index(cells, index)
      /\ timestamps' = IF dchain_impl_is_index_allocated(cells, index)
                       THEN [timestamps EXCEPT ![index] = now] ELSE timestamps
      /\ call' = [key |-> k]
      /\ UNCHANGED <<fv, fm, size, pc, now>>

(* lb_get_backend on a flow whose backend is gone: the key leaves the map, *)
(* then its index is freed.                                                *)
erase_flow(k) ==
  /\ pc = "idle" /\ map_get(k).found
  /\ map_erase(k)
  /\ cells' = dchain_impl_free_index(cells, map_get(k).value)
  /\ call' = [key |-> k]
  /\ UNCHANGED <<timestamps, fv, pc, now>>

(* flow_manager_expire calls expire_items_single_map with a time up to     *)
(* now; one before 0 frees as little as 0.                                 *)
expire_start(t) ==
  /\ pc = "idle" /\ pc' = "expire" /\ call' = [time |-> t]
  /\ UNCHANGED <<cells, timestamps, fv, fm, size, now>>

(* dchain_expire_one_index finds an index to free.                         *)
Expires == HasOldestIndex(cells) /\ timestamps[OldestIndex(cells)] < call.time

(* An iteration of the loop of expire_items_single_map.                    *)
expire_items_single_map ==
  /\ pc = "expire" /\ Expires
  /\ cells' = dchain_impl_free_index(cells, OldestIndex(cells))
  /\ map_erase(fv[OldestIndex(cells)])
  /\ UNCHANGED <<timestamps, fv, pc, call, now>>

expire_done ==
  /\ pc = "expire" /\ ~Expires /\ pc' = "idle"
  /\ UNCHANGED <<cells, timestamps, fv, fm, size, call, now>>

Next == \/ Tick
        \/ \E k \in Keys : allocate_flow(k) \/ get_internal(k) \/ erase_flow(k)
        \/ \E t \in 0 .. now : expire_start(t)
        \/ expire_items_single_map
        \/ expire_done

Spec == Init /\ [][Next]_vars
-----------------------------------------------------------------------------
TypeOK == /\ cells \in Cells
          /\ timestamps \in [Indexes -> 0 .. MaxTime]
          /\ fv \in [Indexes -> Keys]
          /\ fm.busybits \in [Slots -> BOOLEAN] /\ fm.keyps \in [Slots -> Keys]
          /\ fm.chns \in [Slots -> 0 .. Capacity] /\ fm.values \in [Slots -> Indexes]
          /\ size \in 0 .. Capacity
          /\ pc \in {"idle", "expire"}
          /\ pc = "expire" => call.time \in 0 .. now
          /\ now \in 0 .. MaxTime

Busy == {s \in Slots : fm.busybits[s]}

(* The distance at which the entry of a busy slot was put.                 *)
DistanceOf(s) == CHOOSE d \in Distances : Probe(fm.keyps[s], d) = s

(* The counter of a slot is exactly the number of the entries whose probe  *)
(* path goes through it, and the size the number of busy slots: after any  *)
(* puts and erases, find_key stops neither too early (an entry hidden      *)
(* behind a zero) nor does a counter leak.                                 *)
ChainCounts ==
  /\ size = Cardinality(Busy)
  /\ \A s \in Slots :
       fm.chns[s] = Cardinality({t \in Busy : s \in Path(fm.keyps[t], DistanceOf(t))})

(* The three containers agree, between the iterations of the expirator     *)
(* too: the entries of the hash table are the keys stored at the allocated *)
(* indexes, each with its index.  So map_put always finds room and an      *)
(* absent key, map_erase finds the key it is given, and an index found in  *)
(* the map is allocated.                                                   *)
Coherent ==
  /\ TypeOK
  /\ \A i \in Allocated : \E s \in Busy : fm.keyps[s] = fv[i] /\ fm.values[s] = i
  /\ \A s \in Busy : fm.values[s] \in Allocated /\ fv[fm.values[s]] = fm.keyps[s]
  /\ \A s, t \in Busy : fm.keyps[s] = fm.keyps[t] => s = t

(* The table is an expiring map: lookups find what was added and only      *)
(* that, whatever collisions and erased slots lie on the way.  Its         *)
(* expire_all is atomic: during the loop the entries before the border are *)
(* gone already, and when the loop ends none of them is left and no other  *)
(* was removed.                                                            *)
E == INSTANCE ExpiringMap WITH
       emap <- [i \in {j \in Allocated : pc = "expire" => timestamps[j] >= call.time}
                  |-> [key |-> fv[i], time |-> timestamps[i]]]

=============================================================================
