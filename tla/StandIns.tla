------------------------------ MODULE StandIns ------------------------------
(***************************************************************************)
(* The models of libVig that symbolic execution runs a network function    *)
(* with (libvig/models/verified), next to the containers they stand for.   *)
(* From one border of the loop to the next the function makes the calls    *)
(* the assertions of the stand-ins allow; it gets the answer of the real   *)
(* containers, and models keeps every state the stand-ins can be in after  *)
(* giving that same answer.  What holds of the function with the stand-ins *)
(* holds with the containers as long as there is always such a state.      *)
(***************************************************************************)
EXTENDS FlowState, FiniteSets

CONSTANTS Keys,
          Allowed,        \* what the entry condition of the second vector accepts
          ZeroValue,      \* what null_init leaves
          NUM_ELEMS,      \* keys that the stand-in of the map remembers
          ExpTime,
          MaxTime         \* bound of the clock

StandInsAssumption == /\ ZeroValue \in Allowed
                      /\ Indexes # {} /\ NUM_ELEMS \in Nat /\ MaxTime \in Nat /\ ExpTime \in Nat

VARIABLES t,              \* map, vector of keys and double chain
          vals,           \* the second vector
          now,
          calls,          \* "expire" until the first call after the border, "any" then
          pending,        \* the index to put or to free before the border, if any
          lent,           \* the cell of the second vector that was borrowed, if any
          models          \* the states of the stand-ins

vars == <<t, vals, now, calls, pending, lent, models>>

None == -1           \* no index: a key that is not there, nothing lent
Settled == [op |-> "none", index |-> None]
-----------------------------------------------------------------------------
(* A call of a stand-in: the pairs of the state after it and the answer.   *)

StandIn == [claimed : PartialFunctions(Keys, Indexes \cup {None}), new_index : Indexes,
            out_of_space : BOOLEAN, is_index_allocated : BOOLEAN]

Claim(m, k, v) ==
  [m EXCEPT !.claimed = [x \in DOMAIN @ \cup {k} |-> IF x = k THEN v ELSE @[x]]]

(* map_reset and dchain_reset.                                             *)
loop_reset ==
  {[claimed |-> [k \in {} |-> None], new_index |-> i, out_of_space |-> b,
    is_index_allocated |-> FALSE] : i \in Indexes, b \in BOOLEAN}

(* A key that is met first may be there with any index; a miss is not      *)
(* remembered.  A key that was erased is claimed with None.                *)
map_get(m, k) ==
  IF k \in DOMAIN m.claimed
  THEN {<<m, m.claimed[k]>>}
  ELSE {<<m, None>>} \cup {<<Claim(m, k, i), i>> : i \in Indexes}

map_put(m, k, i) == {<<Claim(m, k, i), None>>}

map_erase(m, k) == {<<Claim(m, k, None), None>>}

(* Room for a key that is met first.                                       *)
HasRoom(m, k) == k \in DOMAIN m.claimed \/ Cardinality(DOMAIN m.claimed) < NUM_ELEMS

dchain_allocate_new_index(m) ==
  IF m.out_of_space THEN {<<m, None>>}
  ELSE {<<[m EXCEPT !.is_index_allocated = TRUE], m.new_index>>}

dchain_rejuvenate_index(m) == {<<m, 1>>}

dchain_is_index_allocated(m) == {<<m, answer>> : answer \in {0, 1}}

(* The index is free, and the double chain is still out of space.          *)
dchain_free_index_kept(m) == {<<m, 1>>}

dchain_free_index(m) == {<<[m EXCEPT !.out_of_space = FALSE], 1>>}

(* expire_items_single_map frees some number, and tells the double chain.  *)
dchain_make_space(m, nfreed) == [m EXCEPT !.out_of_space = @ /\ nfreed = 0]

expire_items_single_map(m) ==
  {<<dchain_make_space(m, nfreed), nfreed>> : nfreed \in 0 .. Cardinality(Indexes)}

(* A borrowed cell holds anything that the entry condition accepts.        *)
vector_borrow(m) == {<<m, v>> : v \in Allowed}

(* The states left when the answer is the one of the containers.           *)
After(Call(_), answer) == {r[1] : r \in {s \in UNION {Call(m) : m \in models} : s[2] = answer}}
-----------------------------------------------------------------------------
Init == /\ t \in NewTables(Keys)
        /\ vals = [i \in Indexes |-> ZeroValue]
        /\ now = 0 /\ calls = "expire" /\ pending = Settled /\ lent = None
        /\ models = loop_reset

Idle == pending = Settled /\ lent = None

(* loop_iteration_border, and the next packet.                             *)
Border == /\ Idle
          /\ now' \in now .. MaxTime
          /\ calls' = "expire" /\ models' = loop_reset
          /\ UNCHANGED <<t, vals, pending, lent>>

(* Every function expires before it looks anything up.                     *)
ExpireItems ==
  LET expired == Expire(t, now - ExpTime)
      nfreed  == Cardinality(DOMAIN t.heap) - Cardinality(DOMAIN expired.heap)
  IN  /\ calls = "expire"
      /\ t' = expired
      /\ models' = After(expire_items_single_map, nfreed)
      /\ calls' = "any"
      /\ UNCHANGED <<vals, now, pending, lent>>

MapGet(k) ==
  LET Call(m) == map_get(m, k)
  IN  /\ Idle /\ \A m \in models : HasRoom(m, k)
      /\ models' = After(Call, IF k \in DOMAIN t.fm THEN t.fm[k] ELSE None)
      /\ calls' = "any"
      /\ UNCHANGED <<t, vals, now, pending, lent>>

(* At most one index between two borders.                                  *)
Allocate ==
  /\ Idle /\ \A m \in models : m.out_of_space \/ ~m.is_index_allocated
  /\ \/ \E i \in FreeIndexes(t) :
          /\ models' = After(dchain_allocate_new_index, i)
          /\ t' = [t EXCEPT !.heap = [j \in DOMAIN @ \cup {i} |-> IF j = i THEN now ELSE @[j]]]
          /\ pending' = [op |-> "put", index |-> i]
     \/ /\ FreeIndexes(t) = {}
        /\ models' = After(dchain_allocate_new_index, None)
        /\ UNCHANGED <<t, pending>>
  /\ calls' = "any"
  /\ UNCHANGED <<vals, now, lent>>

(* The key goes to the vector and to the map, which must not hold it.      *)
MapPut(k) ==
  LET Call(m) == map_put(m, k, pending.index)
  IN  /\ pending.op = "put" /\ lent = None
      /\ k \notin DOMAIN t.fm /\ \A m \in models : HasRoom(m, k)
      /\ t' = AllocateAt(t, k, pending.index, now)
      /\ models' = After(Call, None)
      /\ pending' = Settled
      /\ UNCHANGED <<vals, now, calls, lent>>

MapErase(k) ==
  LET Call(m) == map_erase(m, k)
  IN  /\ Idle /\ k \in DOMAIN t.fm /\ \A m \in models : HasRoom(m, k)
      /\ t' = [t EXCEPT !.fm = [x \in DOMAIN @ \ {k} |-> @[x]]]
      /\ models' = After(Call, None)
      /\ pending' = [op |-> "free", index |-> t.fm[k]]
      /\ calls' = "any"
      /\ UNCHANGED <<vals, now, lent>>

FreeIndex ==
  /\ pending.op = "free"
  /\ t' = [t EXCEPT !.heap = [j \in DOMAIN @ \ {pending.index} |-> @[j]]]
  /\ models' = After(dchain_free_index, IF pending.index \in DOMAIN t.heap THEN 1 ELSE 0)
  /\ pending' = Settled
  /\ UNCHANGED <<vals, now, calls, lent>>

(* The index comes from a map_get that found a key.                        *)
RejuvenateIndex ==
  /\ Idle
  /\ \E i \in {t.fm[k] : k \in DOMAIN t.fm} :
       /\ models' = After(dchain_rejuvenate_index, IF i \in DOMAIN t.heap THEN 1 ELSE 0)
       /\ t' = Rejuvenate(t, i, now)
  /\ calls' = "any"
  /\ UNCHANGED <<vals, now, pending, lent>>

IsIndexAllocated ==
  /\ Idle
  /\ \E i \in Indexes :
       models' = After(dchain_is_index_allocated, IF i \in DOMAIN t.heap THEN 1 ELSE 0)
  /\ calls' = "any"
  /\ UNCHANGED <<t, vals, now, pending, lent>>

VectorBorrow ==
  /\ lent = None
  /\ \E i \in Indexes : lent' = i /\ models' = After(vector_borrow, vals[i])
  /\ calls' = "any"
  /\ UNCHANGED <<t, vals, now, pending>>

(* The stand-in asserts the entry condition of what is returned.           *)
VectorReturn ==
  /\ lent # None
  /\ \E v \in Allowed : vals' = [vals EXCEPT ![lent] = v]
  /\ lent' = None
  /\ UNCHANGED <<t, now, calls, pending, models>>

Next == \/ Border \/ ExpireItems \/ Allocate \/ FreeIndex \/ RejuvenateIndex
        \/ IsIndexAllocated \/ VectorBorrow \/ VectorReturn
        \/ \E k \in Keys : MapGet(k) \/ MapPut(k) \/ MapErase(k)

Spec == Init /\ [][Next]_vars
-----------------------------------------------------------------------------
TypeOK == /\ t \in Tables(Keys, 0 .. MaxTime) /\ vals \in [Indexes -> Allowed]
          /\ now \in 0 .. MaxTime /\ calls \in {"expire", "any"}
          /\ pending \in {Settled} \cup [op : {"put", "free"}, index : Indexes]
          /\ lent \in {None} \cup Indexes
          /\ models \subseteq StandIn

(* Whatever the containers answered since the border, the stand-ins could  *)
(* have given the same answers: a table that is full, an index that is     *)
(* used again after its key was erased, keys looked up twice.  So symbolic *)
(* execution misses no path of nf_process.  And what they remember of a    *)
(* key is so, which is why map_put of an absent key passes the assertion   *)
(* that it is no duplicate.                                                *)
Covered ==
  /\ models # {}
  /\ \A m \in models : \A k \in DOMAIN m.claimed :
       m.claimed[k] = (IF k \in DOMAIN t.fm THEN t.fm[k] ELSE None)
=============================================================================
