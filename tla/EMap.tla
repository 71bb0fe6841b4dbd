-------------------------------- MODULE EMap --------------------------------
(***************************************************************************)
(* The expiring map the specifications of the network functions speak of   *)
(* (libvig/verified/emap.h): a function from the indexes in use to the key *)
(* stored there and the time of its last use.                              *)
(***************************************************************************)
EXTENDS Integers

CONSTANTS Indexes

Empty == [i \in {} |-> 0]

expire_all(e, t) == [i \in {j \in DOMAIN e : e[j].time >= t} |-> e[i]]

has_idx(e, i) == i \in DOMAIN e

get_key(e, i) == e[i].key

has(e, k) == \E i \in DOMAIN e : e[i].key = k

get(e, k) == CHOOSE i \in DOMAIN e : e[i].key = k

full(e) == DOMAIN e = Indexes

add(e, k, i, t) ==
  [j \in DOMAIN e \cup {i} |-> IF j = i THEN [key |-> k, time |-> t] ELSE e[j]]

refresh_idx(e, i, t) ==
  [j \in DOMAIN e |-> IF j = i THEN [key |-> e[i].key, time |-> t] ELSE e[j]]

erase(e, k) == [j \in {i \in DOMAIN e : e[i].key # k} |-> e[j]]
=============================================================================
