--------------------------- MODULE IndexAllocator ---------------------------
(***************************************************************************)
(* What a double chain promises (the contracts of libvig/verified/         *)
(* double-chain.h): a set of allocated indexes, each with the time of its  *)
(* last use; indexes come from the free ones, and only an index no other   *)
(* was used before expires, when its last use lies before the given time.  *)
(***************************************************************************)
EXTENDS Integers

CONSTANTS Indexes,         \* the indexes of the allocator
          MaxTime          \* the last instant of the clock

VARIABLES times,           \* allocated index -> time of its last use
          reply,           \* the answer of the last call
          now              \* the clock

vars == <<times, reply, now>>

Allocated == DOMAIN times

With(i, t) == [j \in Allocated \cup {i} |-> IF j = i THEN t ELSE times[j]]

Without(i) == [j \in Allocated \ {i} |-> times[j]]

Answer(op, ok, i) == reply' = [op |-> op, ok |-> ok, index |-> i]

NoIndex == -1

Init == /\ times = [i \in {} |-> 0]
        /\ reply = [op |-> "init", ok |-> TRUE, index |-> NoIndex]
        /\ now = 0

Tick == now < MaxTime /\ now' = now + 1 /\ UNCHANGED <<times, reply>>

Allocate ==
  /\ \/ \E i \in Indexes \ Allocated : times' = With(i, now) /\ Answer("allocate", TRUE, i)
     \/ Allocated = Indexes /\ Answer("allocate", FALSE, NoIndex) /\ UNCHANGED times
  /\ UNCHANGED now

Rejuvenate(i) ==
  /\ Answer("rejuvenate", i \in Allocated, i)
  /\ times' = IF i \in Allocated THEN With(i, now) ELSE times
  /\ UNCHANGED now

Free(i) ==
  /\ Answer("free", i \in Allocated, i)
  /\ times' = IF i \in Allocated THEN Without(i) ELSE times
  /\ UNCHANGED now

Oldest == {i \in Allocated : \A j \in Allocated : times[i] <= times[j]}

ExpireOne(time) ==
  /\ \/ \E i \in Oldest : /\ times[i] < time
                          /\ times' = Without(i)
                          /\ Answer("expire", TRUE, i)
     \/ /\ \A i \in Allocated : times[i] >= time
        /\ \E i \in Indexes \cup {NoIndex} : Answer("expire", FALSE, i)
        /\ UNCHANGED times
  /\ UNCHANGED now

IsAllocated(i) ==
  /\ Answer("is_allocated", i \in Allocated, i)
  /\ UNCHANGED <<times, now>>

Next == \/ Tick
        \/ Allocate
        \/ \E i \in Indexes : Rejuvenate(i) \/ Free(i) \/ IsAllocated(i)
        \/ \E time \in -1 .. now : ExpireOne(time)

Spec == Init /\ [][Next]_vars
=============================================================================
