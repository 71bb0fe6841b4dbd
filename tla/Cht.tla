-------------------------------- MODULE Cht --------------------------------
(***************************************************************************)
(* The consistent hashing table of the load balancer                       *)
(* (libvig/verified/cht.c): every bucket of the hash lists the backends in *)
(* an order of preference, backend_capacity slots per bucket, and          *)
(* cht_fill_cht deals the slots out one per step of its inner loop.        *)
(***************************************************************************)
EXTENDS Integers, FiniteSets

CONSTANT Shapes            \* of the tables filled: pairs of a height and a capacity

ChtAssumption ==
  Shapes \subseteq {t \in (Nat \ {0, 1}) \X (Nat \ {0}) : t[2] < t[1]}

VARIABLES table,           \* the height and the capacity of this table
          i, j,            \* the two loops: turn i of backend j
          next,            \* bucket -> the slots of it that are taken
          cht              \* the slots of all buckets, bucket after bucket

vars == <<table, i, j, next, cht>>

cht_height == table[1]

backend_capacity == table[2]

Buckets == 0 .. cht_height - 1

Backends == 0 .. backend_capacity - 1

Slots == 0 .. cht_height * backend_capacity - 1

(* The n-th bucket of backend b.                                           *)
permutations(b, n) ==
  (((b * 31) % cht_height) + ((b % (cht_height - 1)) + 1) * n) % cht_height

Init == /\ table \in Shapes
        /\ i = 0 /\ j = 0
        /\ next = [b \in Buckets |-> 0]
        /\ cht = [s \in Slots |-> 0]

Fill ==
  LET bucket_id == permutations(j, i)
      slot      == backend_capacity * bucket_id + next[bucket_id]
  IN  /\ i < cht_height
      /\ next' = [next EXCEPT ![bucket_id] = @ + 1]
      /\ IF slot \in Slots THEN cht' = [cht EXCEPT ![slot] = j]
         ELSE UNCHANGED cht     \* a write beyond the vector, which RowsFit excludes
      /\ IF j + 1 < backend_capacity THEN j' = j + 1 /\ i' = i ELSE j' = 0 /\ i' = i + 1
      /\ UNCHANGED table

Filled == i = cht_height

Done == Filled /\ UNCHANGED vars

Next == Fill \/ Done

Spec == Init /\ [][Next]_vars

candidate_idx(start, n) == start * backend_capacity + n

(* The hash reduced by the number of backends alive, as without the table. *)
find_modulo(hash, active) ==
  {b \in active : Cardinality({a \in active : a < b}) = hash % Cardinality(active)}

(* The backends that a hash finds when those of active are alive: the      *)
(* first of its row, or none.                                              *)
cht_find_preferred_available_backend(hash, active) ==
  LET start == hash % cht_height
      hits  == {n \in Backends : cht[candidate_idx(start, n)] \in active}
  IN  {cht[candidate_idx(start, n)] : n \in {m \in hits : \A k \in hits : m <= k}}
-----------------------------------------------------------------------------
TypeOK == /\ table \in Shapes
          /\ i \in 0 .. cht_height /\ j \in Backends
          /\ next \in [Buckets -> 0 .. cht_height * backend_capacity]
          /\ cht \in [Slots -> Backends]

(* No bucket is dealt more slots than it has, so that no bucket's row runs *)
(* into the next one and no write leaves the vector.                       *)
RowsFit == \A b \in Buckets : next[b] <= backend_capacity

(* The table filled, every bucket lists every backend: the valid_cht of    *)
(* cht.h, which rests on the height being prime.                           *)
RowsArePermutations ==
  Filled => \A b \in Buckets :
              {cht[b * backend_capacity + n] : n \in Backends} = Backends

(* The table filled, a hash finds a backend whenever one is alive, for     *)
(* every set of backends that may be alive.                                *)
FindsAny ==
  Filled => \A b \in Buckets, active \in SUBSET Backends :
              active # {} => cht_find_preferred_available_backend(b, active) # {}

(* The death of a backend moves only the hashes that it served.            *)
DisruptsOnlyItsOwn ==
  Filled => \A hash \in Buckets, active \in SUBSET Backends, dead \in Backends :
              LET before == cht_find_preferred_available_backend(hash, active)
                  after  == cht_find_preferred_available_backend(hash, active \ {dead})
              IN  dead \notin before => after = before

(* The table filled, every backend is the first choice of some bucket: no  *)
(* backend waits for the death of another to get its first flow.           *)
NoneStarved ==
  Filled => \A b \in Backends : \E k \in Buckets : cht[k * backend_capacity] = b
=============================================================================
