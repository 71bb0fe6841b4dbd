---------------------------- MODULE DChainLocks ----------------------------
(***************************************************************************)
(* The double chain of the lock-based runtime (double-chain-locks.c) and   *)
(* its expirator (expirator-locks.c).  Every lcore has its own copy of the *)
(* cells and of the time stamps, and a second list of the indexes it has   *)
(* used itself.  Refreshing an index touches the copy of the caller only   *)
(* and needs no write lock; allocating, freeing and expiring change every  *)
(* copy and run under it (module NfLock), so each packet is one step here, *)
(* and the loop of the expirator one step per iteration.                   *)
(***************************************************************************)
EXTENDS DChainImpl

CONSTANTS Lcores,
          expiration_time,
          CountWrap,       \* bound: the counter of the expirator, 2^32 values in the code
          MaxTime          \* bound: the clock stops here

ASSUME DChainLocksAssumption ==
  MaxTime \in Nat /\ expiration_time \in Nat \ {0} /\ CountWrap \in Nat \ {0}

VARIABLES cells, active_cells,   \* per lcore, both lists of cells
          timestamps,            \* per lcore: index -> time, -1 when free
          mapped,                \* the indexes whose key is in the map
          vigor_now,             \* per lcore: the time of its packet
          border,                \* per lcore: the time it is expiring with, or -1
          count,                 \* the items the expirator has counted
          now

vars == <<cells, active_cells, timestamps, mapped, vigor_now, border, count, now>>

Times == 0 .. MaxTime

NoTime == -1

(* Inactive cells hold FREE_LIST_HEAD; that head itself is never read.     *)
dchain_locks_impl_activity_init ==
  LET next == [i \in CellIds |-> IF i = ALLOC_LIST_HEAD THEN ALLOC_LIST_HEAD ELSE FREE_LIST_HEAD]
  IN  [prev |-> next, next |-> next]

IsActive(c, index) == c.next[index + INDEX_SHIFT] # FREE_LIST_HEAD

(* The cell is linked at the end; the last one stays where it is.          *)
dchain_locks_impl_activate_index(c, index) ==
  LET x == index + INDEX_SHIFT
  IN  IF ~IsActive(c, index) THEN LinkLast(c, x)
      ELSE IF c.next[x] = ALLOC_LIST_HEAD THEN c
      ELSE LinkLast(Unlink(c, x), x)

(* The cell marked inactive and left in the list.                          *)
dchain_locks_impl_deactivate_index_linked(c, index) ==
  SetBoth(c, index + INDEX_SHIFT, FREE_LIST_HEAD)

dchain_locks_impl_deactivate_index(c, index) ==
  LET x == index + INDEX_SHIFT
  IN  IF IsActive(c, index) THEN SetBoth(Unlink(c, x), x, FREE_LIST_HEAD) ELSE c

dchain_locks_impl_reposition_index(c, index, new_prev_index) ==
  LET x == index + INDEX_SHIFT
      p == new_prev_index + INDEX_SHIFT
      u == Unlink(c, x)
      n == u.next[p]
      l == SetNext(SetPrev(u, x, p), x, n)
  IN  IF dchain_impl_is_index_allocated(c, index)
      THEN SetNext(SetPrev(l, n, x), p, x)
      ELSE c

Init == /\ cells = [l \in Lcores |-> dchain_impl_init]
        /\ active_cells = [l \in Lcores |-> dchain_locks_impl_activity_init]
        /\ timestamps = [l \in Lcores |-> [i \in Indexes |-> NoTime]]
        /\ mapped = {}
        /\ vigor_now = [l \in Lcores |-> 0]
        /\ border = [l \in Lcores |-> NoTime]
        /\ count = 0 /\ now = 0

Tick == /\ now < MaxTime /\ now' = now + 1
        /\ UNCHANGED <<cells, active_cells, timestamps, mapped, vigor_now, border, count>>

(* No lcore is in the loop of the expirator, which holds the write lock.   *)
Unlocked == \A l \in Lcores : border[l] = NoTime

(* An lcore reads the clock for a packet before it takes the lock, so the  *)
(* steps it then takes may come after those of lcores with a later time.   *)
Receive(l) == /\ border[l] = NoTime /\ vigor_now' = [vigor_now EXCEPT ![l] = now]
              /\ UNCHANGED <<cells, active_cells, timestamps, mapped, border, count, now>>

(* The caller found the index in the map.                                  *)
dchain_locks_rejuvenate_index(l, index) ==
  /\ Unlocked /\ index \in mapped
  /\ cells' = [cells EXCEPT ![l] = dchain_impl_rejuvenate_index(@, index)]
  /\ IF dchain_impl_is_index_allocated(cells[l], index)
     THEN /\ timestamps' = [timestamps EXCEPT ![l][index] = vigor_now[l]]
          /\ active_cells' = [active_cells EXCEPT ![l] =
                                dchain_locks_impl_activate_index(@, index)]
     ELSE UNCHANGED <<timestamps, active_cells>>
  /\ UNCHANGED <<mapped, vigor_now, border, count, now>>

(* The cells of the caller only.                                           *)
dchain_locks_allocate_new_index_own(l) ==
  LET index == NewIndex(cells[l])
  IN  /\ Unlocked
      /\ HasFreeIndex(cells[l])
      /\ cells' = [cells EXCEPT ![l] = dchain_impl_allocate_new_index(@)]
      /\ timestamps' = [m \in Lcores |-> [timestamps[m] EXCEPT ![index] = vigor_now[l]]]
      /\ active_cells' = [active_cells EXCEPT ![l] = dchain_locks_impl_activate_index(@, index)]
      /\ mapped' = mapped \cup {index}
      /\ UNCHANGED <<vigor_now, border, count, now>>

(* Every copy gives an index and the last answer is returned; the caller   *)
(* puts its key into the map.  A full chain changes nothing.               *)
dchain_locks_allocate_new_index(l) ==
  LET New(m) == NewIndex(cells[m])
      last   == CHOOSE m \in Lcores : \A k \in Lcores : k <= m
  IN  /\ Unlocked
      /\ HasFreeIndex(cells[last])
      /\ cells' = [m \in Lcores |-> dchain_impl_allocate_new_index(cells[m])]
      /\ timestamps' = [m \in Lcores |-> [timestamps[m] EXCEPT ![New(m)] = vigor_now[l]]]
      /\ active_cells' = [active_cells EXCEPT ![l] = dchain_locks_impl_activate_index(@, New(last))]
      /\ mapped' = mapped \cup {New(last)}
      /\ UNCHANGED <<vigor_now, border, count, now>>

(* In every copy: off the lists, on the free list, no time stamp.          *)
FreeEverywhere(index) ==
  /\ cells' = [m \in Lcores |-> dchain_impl_free_index(cells[m], index)]
  /\ active_cells' = [m \in Lcores |-> dchain_locks_impl_deactivate_index(active_cells[m], index)]
  /\ timestamps' = [m \in Lcores |-> [timestamps[m] EXCEPT ![index] = NoTime]]

(* With the key erased from the map by the caller.                         *)
dchain_locks_free_index(index) ==
  /\ Unlocked /\ index \in mapped
  /\ FreeEverywhere(index)
  /\ mapped' = mapped \ {index}
  /\ UNCHANGED <<vigor_now, border, count, now>>

(* The place of a time in the list of the caller: the first index after    *)
(* the given one, other than it, that the time fits behind; -1 if none.    *)
NewPrev(l, index, time) ==
  LET c == cells[l]
      at[n \in 0 .. IndexRange] == IF n = 0 THEN index + INDEX_SHIFT
                                   ELSE IF at[n - 1] = ALLOC_LIST_HEAD THEN ALLOC_LIST_HEAD
                                   ELSE c.next[at[n - 1]]
      fits == {n \in 1 .. (IndexRange - 1) :
                 /\ at[n] # ALLOC_LIST_HEAD /\ at[n + 1] # ALLOC_LIST_HEAD
                 /\ timestamps[l][at[n] - INDEX_SHIFT] <= time
                 /\ time <= timestamps[l][at[n + 1] - INDEX_SHIFT]}
  IN  IF fits = {} THEN -1
      ELSE at[CHOOSE n \in fits : \A m \in fits : n <= m] - INDEX_SHIFT

(* The cell moves to the place of the time; the time itself is not stored. *)
dchain_locks_update_timestamp(l, index, time) ==
  LET new_prev == NewPrev(l, index, time)
  IN  /\ cells' = [cells EXCEPT ![l] =
                     IF new_prev = -1 THEN dchain_impl_rejuvenate_index(@, index)
                     ELSE dchain_locks_impl_reposition_index(@, index, new_prev)]
      /\ UNCHANGED <<active_cells, timestamps>>

(* The latest use of an index on any lcore.                                *)
MostRecentOwn(l, index) == timestamps[l][index]

MostRecent(l, index) ==
  LET times == {timestamps[m][index] : m \in Lcores}
  IN  CHOOSE t \in times : \A u \in times : u <= t

(* The oldest index of the caller's own list, when it is past the border.  *)
Due(l) == /\ HasOldestIndex(active_cells[l])
          /\ timestamps[l][OldestIndex(active_cells[l])] > NoTime
          /\ timestamps[l][OldestIndex(active_cells[l])] < border[l]

StartExpire(l) == /\ Unlocked /\ vigor_now[l] >= expiration_time
                  /\ border' = [border EXCEPT ![l] = vigor_now[l] - expiration_time]
                  /\ UNCHANGED <<cells, active_cells, timestamps, mapped, vigor_now, count, now>>

(* expire_items_single_map_locks, while dchain_locks_expire_one_index      *)
(* answers 1: the key of the index is erased from the map.                 *)
ExpireOne(l) ==
  LET index == OldestIndex(active_cells[l])
  IN  /\ border[l] # NoTime /\ Due(l)
      /\ IF MostRecent(l, index) >= border[l]
         THEN dchain_locks_update_timestamp(l, index, MostRecent(l, index))
         ELSE FreeEverywhere(index)
      /\ mapped' = mapped \ {index}
      /\ count' = (count + 1) % CountWrap
      /\ UNCHANGED <<vigor_now, border, now>>

EndExpire(l) == /\ border[l] # NoTime /\ ~Due(l)
                /\ border' = [border EXCEPT ![l] = NoTime] /\ count' = 0
                /\ UNCHANGED <<cells, active_cells, timestamps, mapped, vigor_now, now>>

Next == \/ Tick
        \/ \E i \in Indexes : dchain_locks_free_index(i)
        \/ \E l \in Lcores : \/ Receive(l)
                             \/ dchain_locks_allocate_new_index(l)
                             \/ \E i \in Indexes : dchain_locks_rejuvenate_index(l, i)
                             \/ StartExpire(l) \/ ExpireOne(l) \/ EndExpire(l)

Spec == Init /\ [][Next]_vars

(* The lcore with the write lock runs on.                                  *)
FairSpec == Spec /\ \A l \in Lcores : WF_vars(ExpireOne(l) \/ EndExpire(l))
-----------------------------------------------------------------------------
TypeOK == /\ cells \in [Lcores -> Cells]
          /\ active_cells \in [Lcores -> Cells]
          /\ timestamps \in [Lcores -> [Indexes -> Times \cup {NoTime}]]
          /\ mapped \subseteq Indexes
          /\ vigor_now \in [Lcores -> Times]
          /\ border \in [Lcores -> Times \cup {NoTime}]
          /\ count \in 0 .. (CountWrap - 1)
          /\ now \in Times

Allocated(l) == {i \in Indexes : dchain_impl_is_index_allocated(cells[l], i)}

Active(l) == {i \in Indexes : IsActive(active_cells[l], i)}

(* The indexes reached from the head of the "alloc" list.                  *)
Listed(c) ==
  LET from[n \in 0 .. IndexRange] ==
        IF n = 0 THEN {ALLOC_LIST_HEAD} ELSE from[n - 1] \cup {c.next[x] : x \in from[n - 1]}
  IN  {x - INDEX_SHIFT : x \in from[IndexRange] \ {ALLOC_LIST_HEAD}}

(* The copies of the lcores agree on which indexes are free and in which   *)
(* order they are handed out, however differently the lcores have used     *)
(* them: an allocation gives the same index in every copy.                 *)
CopiesAgree ==
  \A l, m \in Lcores : l < m =>
    /\ Allocated(l) = Allocated(m)
    /\ \A x \in {FREE_LIST_HEAD} \cup {i + INDEX_SHIFT : i \in Indexes \ Allocated(l)} :
         cells[l].next[x] = cells[m].next[x]

(* In every copy the list of the allocated indexes holds exactly those,    *)
(* and the list of its own indexes exactly those the lcore has used and    *)
(* nobody has freed since: an lcore never expires what it does not have.   *)
ListsExact ==
  /\ TypeOK
  /\ \A l \in Lcores : /\ Listed(cells[l]) = Allocated(l)
                       /\ Listed(active_cells[l]) = Active(l)
                       /\ Active(l) \subseteq Allocated(l)

(* An index that any lcore has used since the border is not expired.       *)
OnlyOldFreed ==
  [][\A l \in Lcores :
       border[l] # NoTime =>
         \A i \in Indexes :
           i \in Allocated(l) \ Allocated(l)' => \A m \in Lcores : timestamps[m][i] < border[l]]_vars

(* expirator.h: the expirator returns, so the write lock is given back.    *)
ExpiratorReturns == \A l \in Lcores : (border[l] # NoTime) ~> (border[l] = NoTime)
=============================================================================
