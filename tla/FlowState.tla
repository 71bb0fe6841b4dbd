----------------------------- MODULE FlowState -----------------------------
(***************************************************************************)
(* The containers of a network function, by their contracts: fm the map    *)
(* (key -> index), fv the vector (index -> key) and heap the double chain  *)
(* (allocated index -> time of its last use).  Module FlowTable shows that *)
(* the loop of the expirator has the effect Expire gives it at once.       *)
(***************************************************************************)
EXTENDS Integers

CONSTANT Indexes

(* The vector is initialized with one key throughout.                      *)
NewTables(Keys) ==
  {[fm |-> [k \in {} |-> 0], fv |-> [i \in Indexes |-> key], heap |-> [i \in {} |-> 0]] :
     key \in Keys}

(* The entry erased from the map, its index kept.                          *)
ExpireKeysOnly(t, time) ==
  LET old == {i \in DOMAIN t.heap : t.heap[i] < time}
  IN  [t EXCEPT !.fm = [k \in DOMAIN @ \ {t.fv[i] : i \in old} |-> @[k]]]

(* expire_items_single_map.                                                *)
Expire(t, time) ==
  LET old == {i \in DOMAIN t.heap : t.heap[i] < time}
  IN  [t EXCEPT !.heap = [i \in DOMAIN @ \ old |-> @[i]],
                !.fm = [k \in DOMAIN @ \ {t.fv[i] : i \in old} |-> @[k]]]

(* dchain_rejuvenate_index.                                                *)
Rejuvenate(t, i, now) == [t EXCEPT !.heap = [j \in DOMAIN @ |-> IF j = i THEN now ELSE @[j]]]

(* dchain_allocate_new_index picks a free index, if there is one.          *)
FreeIndexes(t) == Indexes \ DOMAIN t.heap

(* The new index, the key copied to the vector, and map_put.               *)
AllocateAt(t, key, i, now) ==
  [fm |-> [k \in DOMAIN t.fm \cup {key} |-> IF k = key THEN i ELSE t.fm[k]],
   fv |-> [t.fv EXCEPT ![i] = key],
   heap |-> [j \in DOMAIN t.heap \cup {i} |-> IF j = i THEN now ELSE t.heap[j]]]

PartialFunctions(A, B) == UNION {[S -> B] : S \in SUBSET A}

Tables(Keys, Times) == [fm   : PartialFunctions(Keys, Indexes),
                        fv   : [Indexes -> Keys],
                        heap : PartialFunctions(Indexes, Times)]

Coherence(t) ==
  /\ \A i \in DOMAIN t.heap : t.fv[i] \in DOMAIN t.fm /\ t.fm[t.fv[i]] = i
  /\ \A k \in DOMAIN t.fm : t.fm[k] \in DOMAIN t.heap /\ t.fv[t.fm[k]] = k

AsEMap(t) == [i \in DOMAIN t.heap |-> [key |-> t.fv[i], time |-> t.heap[i]]]
=============================================================================
