------------------------------ MODULE MapImpl ------------------------------
(***************************************************************************)
(* The hash table of a map (libvig/verified/map-impl.c, map-impl-pow2.c):  *)
(* open addressing with linear probing, and for every slot the number of   *)
(* entries whose probe path goes through it (chns), which tells a lookup   *)
(* when to stop and lets an erased slot be reused without tombstones.      *)
(* A loop over the slots from "start" is the set of the distances at which *)
(* it can stop; it stops at the least.                                     *)
(***************************************************************************)
EXTENDS Integers, FiniteSets, FiniteSetsExt

CONSTANTS Keys,            \* the keys, compared by keys_eq
          Hash,            \* khash, an unsigned number per key
          Values,          \* the values of the map
          Capacity         \* the number of slots

MapAssumption == /\ Capacity \in Nat \ {0}
                 /\ Hash \in [Keys -> Nat]
                 /\ Keys # {} /\ Values # {}

Slots == 0 .. (Capacity - 1)
Distances == 0 .. (Capacity - 1)

NotFound == -1

loop(k) == k % Capacity

(* The slot a probe for a key visits after d others.                       *)
Probe(key, d) == loop(loop(Hash[key]) + d)

SameHash(m, key, d) ==
  m.busybits[Probe(key, d)] /\ m.k_hashes[Probe(key, d)] = Hash[key]

Match(m, key, d) == SameHash(m, key, d) /\ m.keyps[Probe(key, d)] = key

(* The arrays other than busybits and chns come from malloc: a key and a   *)
(* value stand for what they hold.                                         *)
map_impl_init(k, v) ==
  [busybits |-> [s \in Slots |-> FALSE], chns |-> [s \in Slots |-> 0],
   keyps |-> [s \in Slots |-> k], k_hashes |-> [s \in Slots |-> Hash[k]],
   values |-> [s \in Slots |-> v]]

(* A lookup that ends at the first slot that is not busy.                  *)
find_key_free_slot(m, key) ==
  LET stops == {d \in Distances : \/ Match(m, key, d)
                                  \/ ~m.busybits[Probe(key, d)]}
      d     == Min(stops)
  IN  IF stops # {} /\ Match(m, key, d) THEN Probe(key, d) ELSE NotFound

(* A slot with another hash and no path through it ends the search; one    *)
(* with the same hash and another key does not.                            *)
find_key(m, key) ==
  LET stops == {d \in Distances : \/ Match(m, key, d)
                                  \/ ~SameHash(m, key, d) /\ m.chns[Probe(key, d)] = 0}
      d     == Min(stops)
  IN  IF stops # {} /\ Match(m, key, d) THEN Probe(key, d) ELSE NotFound

(* The slots a probe visits before distance d, and the chain counters when *)
(* n entries more go through them.                                         *)
Path(key, d) == {Probe(key, e) : e \in 0 .. (d - 1)}

AddToPath(m, key, d, n) ==
  [s \in Slots |-> m.chns[s] + IF s \in Path(key, d) THEN n ELSE 0]

map_impl_get(m, key) ==
  IF find_key(m, key) = NotFound THEN [found |-> FALSE]
  ELSE [found |-> TRUE, value |-> m.values[find_key(m, key)]]

(* The search of find_empty, which counts the new entry on its way.        *)
find_empty(m, key) == Min({d \in Distances : ~m.busybits[Probe(key, d)]})

(* The entry counted in its own slot too.                                  *)
map_impl_put_own(m, key, value) ==
  LET d == find_empty(m, key)
      s == Probe(key, d)
  IN  [m EXCEPT !.busybits[s] = TRUE, !.keyps[s] = key, !.k_hashes[s] = Hash[key],
                !.values[s] = value, !.chns = AddToPath(m, key, d + 1, 1)]

map_impl_put(m, key, value) ==
  LET d == find_empty(m, key)
      s == Probe(key, d)
  IN  [m EXCEPT !.busybits[s] = TRUE, !.keyps[s] = key, !.k_hashes[s] = Hash[key],
                !.values[s] = value, !.chns = AddToPath(m, key, d, 1)]

(* find_key_remove_chain takes the entry off the counters on its way; it   *)
(* does not stop at counters of zero, so an absent key would take one off  *)
(* every slot.                                                             *)
find_key_remove_chain(m, key) ==
  LET found == {d \in Distances : Match(m, key, d)}
  IN  IF found = {}
      THEN [m EXCEPT !.chns = AddToPath(m, key, Capacity, -1)]
      ELSE [m EXCEPT !.busybits[Probe(key, Min(found))] = FALSE,
                     !.chns = AddToPath(m, key, Min(found), -1)]

map_impl_erase(m, key) == find_key_remove_chain(m, key)

map_impl_size(m) == Cardinality({s \in Slots : m.busybits[s]})
=============================================================================
