---------------------------- MODULE ExpiringMap ----------------------------
(***************************************************************************)
(* An expiring map as a network function uses it: an operation happens at  *)
(* once, expiration included, and keys are unique.                         *)
(***************************************************************************)
EXTENDS EMap

CONSTANTS Keys, MaxTime

VARIABLES emap,
          call,            \* the argument of the last operation
          now

vars == <<emap, call, now>>

Init == emap = Empty /\ call = [time |-> 0] /\ now = 0

Tick == now < MaxTime /\ now' = now + 1 /\ UNCHANGED <<emap, call>>

Add(k) == /\ ~has(emap, k)
          /\ \E i \in Indexes \ DOMAIN emap : emap' = add(emap, k, i, now)
          /\ call' = [key |-> k]
          /\ UNCHANGED now

Refresh(k) == /\ has(emap, k)
              /\ emap' = refresh_idx(emap, get(emap, k), now)
              /\ call' = [key |-> k]
              /\ UNCHANGED now

Erase(k) == /\ has(emap, k)
            /\ emap' = erase(emap, k)
            /\ call' = [key |-> k]
            /\ UNCHANGED now

Expire(t) == /\ emap' = expire_all(emap, t)
             /\ call' = [time |-> t]
             /\ UNCHANGED now

Next == \/ Tick
        \/ \E k \in Keys : Add(k) \/ Refresh(k) \/ Erase(k)
        \/ \E t \in 0 .. now : Expire(t)

Spec == Init /\ [][Next]_vars
=============================================================================
