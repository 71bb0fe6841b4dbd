-------------------------------- MODULE Hhh --------------------------------
(***************************************************************************)
(* The hierarchical heavy hitter detector (vighhh/hhh_main.c, hhh_state.c) *)
(* keeps, for every prefix length that is configured, a token bucket per   *)
(* subnet in an expiring table of its own.  A packet is charged to its     *)
(* subnets from the shortest prefix to the longest; nf_process is one step *)
(* and only reports.                                                       *)
(***************************************************************************)
EXTENDS Integers, FiniteSets, FiniteSetsExt

CONSTANTS Bits, Sources,       \* the length of an address, 32; addresses
          Prefixes,            \* subnets_mask: the prefix lengths configured
          Sizes,
          capacity,            \* dyn_capacity, for every length
          link_capacity, threshold,
          burst,
          SECOND,              \* VIGOR_TIME_SECONDS_MULTIPLIER
          MaxTime              \* bound: the clock stops here

VARIABLES tables,              \* prefix -> subnet_indexers, subnets and allocators
          subnet_buckets,      \* prefix -> vector: index -> bucket
          hit,                 \* the subnet reported for the last packet, and its size
          credit,              \* history: what exact token buckets would hold
          last,                \* history: when a bucket was last charged; -1 before
          pauses,              \* history: packets charged after a pause
          rounded,             \* history: refills cut down to bytes since the bucket was full
          now

history == <<credit, last, pauses, rounded>>

vars == <<tables, subnet_buckets, hit, history, now>>

SubnetIndexes == 0 .. (capacity - 1)

F == INSTANCE FlowState WITH Indexes <- SubnetIndexes

(* A percentage of the link, in bytes.                                     *)
threshold_rate == ((link_capacity \div 8) * threshold) \div 100

(* nf_process asserts that no packet is larger than the burst.             *)
HhhAssumption == /\ Sources \subseteq 0 .. (2^Bits - 1)
                 /\ Prefixes \subseteq 1 .. Bits /\ Prefixes # {} /\ capacity \in Nat \ {0}
                 /\ Sizes \subseteq 0 .. burst /\ burst \in Nat \ {0}
                 /\ threshold_rate \in Nat \ {0} /\ SECOND \in Nat \ {0} /\ MaxTime \in Nat

Masked(src, prefix) == src - (src % 2^(Bits - prefix))

Subnets(prefix) == {Masked(src, prefix) : src \in Sources}

AtMost(limit, n) == IF n > limit THEN limit ELSE n

PerSubnet(value) == [p \in Prefixes |-> [s \in Subnets(p) |-> value]]

(* A bucket is taken as full when it was not used for the time the rate    *)
(* takes to fill it, rounded down to ticks: all but Unearned is earned.    *)
Quiet == (burst * SECOND) \div threshold_rate

Unearned == (burst * SECOND) % threshold_rate

Paused(p, s) == last[p][s] >= 0 /\ now - last[p][s] >= Quiet

NoHit == [prefix |-> 0]

Init == /\ \E t \in F!NewTables({0}) : tables = [p \in Prefixes |-> t]
        /\ subnet_buckets = [p \in Prefixes |->
                               [i \in SubnetIndexes |-> [bucket_size |-> 0, bucket_time |-> 0]]]
        /\ hit = NoHit
        /\ credit = PerSubnet(burst * SECOND)
        /\ last = PerSubnet(-1) /\ pauses = PerSubnet(0) /\ rounded = PerSubnet(0)
        /\ now = 0

Tick == /\ now < MaxTime /\ now' = now + 1
        /\ credit' = [p \in Prefixes |->
                        [s \in Subnets(p) |-> AtMost(burst * SECOND, credit[p][s] + threshold_rate)]]
        /\ UNCHANGED <<tables, subnet_buckets, hit, last, pauses, rounded>>

(* The subnets not seen at this very time forgotten.                       *)
expire_entries_all == [p \in Prefixes |-> F!Expire(tables[p], now)]

expire_entries ==
  [p \in Prefixes |-> F!Expire(tables[p], now - ((SECOND * burst) \div threshold_rate))]

Refilled(value) ==
  LET time_diff == now - value.bucket_time
  IN  IF time_diff < (burst * SECOND) \div threshold_rate
      THEN AtMost(burst, value.bucket_size + (time_diff * threshold_rate) \div SECOND)
      ELSE burst

Present(t, p, src) == Masked(src, p) \in DOMAIN t[p].fm

(* The prefixes the loop gets to: it returns at the first one whose subnet *)
(* is new and whose table is full.                                         *)
Reached(t, src) ==
  {p \in Prefixes : \A q \in Prefixes :
     q <= p => Present(t, q, src) \/ F!FreeIndexes(t[q]) # {}}

Bucket(t, p, src) == subnet_buckets[p][t[p].fm[Masked(src, p)]]

(* The prefixes at which the bucket does not hold more than the packet.    *)
Captured(t, src, size) ==
  {p \in Reached(t, src) : Present(t, p, src) /\ Refilled(Bucket(t, p, src)) <= size}

(* The bucket of a subnet after a packet, opened or taken up.              *)
Charged(t, p, src, size) ==
  [bucket_time |-> now,
   bucket_size |-> IF ~Present(t, p, src) THEN burst - size
                   ELSE IF p \in Captured(t, src, size) THEN Refilled(Bucket(t, p, src))
                   ELSE Refilled(Bucket(t, p, src)) - size]

(* Whether the refill of a bucket that it does not fill loses a fraction   *)
(* of a byte.                                                              *)
CutDown(value) == ((now - value.bucket_time) * threshold_rate) % SECOND # 0

(* The exact buckets of the subnets of a source charged, at the prefixes   *)
(* reached at which it is not captured; and what is known of the refills.  *)
Charge(t, src, size, reached, captured) ==
  LET At(f, P, v(_, _)) == [p \in Prefixes |->
                              IF p \in P THEN [f[p] EXCEPT ![Masked(src, p)] = v(p, Masked(src, p))]
                              ELSE f[p]]
      charged == reached \ captured
      refills(p, s) == IF ~Present(t, p, src) \/ Refilled(Bucket(t, p, src)) = burst THEN 0
                       ELSE IF CutDown(Bucket(t, p, src)) THEN rounded[p][s] + 1
                       ELSE rounded[p][s]
  IN  /\ credit' = At(credit, charged, LAMBDA p, s : credit[p][s] - size * SECOND)
      /\ last' = At(last, charged, LAMBDA p, s : now)
      /\ pauses' = At(pauses, charged,
                      LAMBDA p, s : IF Paused(p, s) THEN pauses[p][s] + 1 ELSE pauses[p][s])
      /\ rounded' = At(rounded, reached, refills)

(* The index of every subnet of the source: its own, or any free one.      *)
Places(t, src) ==
  {place \in [Prefixes -> SubnetIndexes] : \A p \in Prefixes :
     place[p] \in IF Present(t, p, src) THEN {t[p].fm[Masked(src, p)]}
                  ELSE IF p \in Reached(t, src) THEN F!FreeIndexes(t[p])
                  ELSE {0}}

(* Only the longest prefix captured is reported, and nothing when the loop *)
(* returned early.                                                         *)
update_buckets(t, src, size, place) ==
  LET reached  == Reached(t, src)
      captured == Captured(t, src, size)
  IN  /\ tables' = [p \in Prefixes |->
                      IF p \notin reached THEN t[p]
                      ELSE IF Present(t, p, src) THEN F!Rejuvenate(t[p], place[p], now)
                      ELSE F!AllocateAt(t[p], Masked(src, p), place[p], now)]
      /\ subnet_buckets' =
           [p \in Prefixes |->
              IF p \in reached
              THEN [subnet_buckets[p] EXCEPT ![place[p]] = Charged(t, p, src, size)]
              ELSE subnet_buckets[p]]
      /\ hit' = IF reached # Prefixes \/ captured = {} THEN NoHit
                ELSE [prefix |-> Max(captured), subnet |-> Masked(src, Max(captured)),
                      size |-> size]
      /\ Charge(t, src, size, reached, captured)

(* A packet that is not IPv4 is dropped at once.                           *)
ProcessOther == hit' = NoHit /\ UNCHANGED <<tables, subnet_buckets, history, now>>

(* Packets from outside are analysed.                                      *)
ProcessWan(src, size) ==
  /\ LET t == expire_entries
     IN  \E place \in Places(t, src) : update_buckets(t, src, size, place)
  /\ UNCHANGED now

ProcessRest == /\ tables' = expire_entries
               /\ hit' = NoHit
               /\ UNCHANGED <<subnet_buckets, history, now>>

Next == \/ Tick
        \/ ProcessOther
        \/ ProcessRest
        \/ \E src \in Sources, size \in Sizes : ProcessWan(src, size)

Spec == Init /\ [][Next]_vars
-----------------------------------------------------------------------------
(* A subnet that sends more than the rate and the burst allow is captured: *)
(* what its bucket, at any prefix the packets got to, did not capture is   *)
(* never more than the burst and the rate since, and Unearned for every    *)
(* pause.  Forgetting a quiet subnet gives it no more than keeping it,     *)
(* since only a bucket that would be full is forgotten, and the tables of  *)
(* every prefix stay in step.                                              *)
HittersCaptured ==
  \A p \in Prefixes :
    /\ F!Coherence(tables[p])
    /\ \A s \in Subnets(p) :
         /\ credit[p][s] >= -(pauses[p][s] * Unearned)
         /\ s \notin DOMAIN tables[p].fm => last[p][s] = -1 \/ Paused(p, s)

(* Only heavy hitters are reported: a subnet is reported when the exact    *)
(* bucket does not hold more than the packet and, for every refill since   *)
(* the bucket was full that had to be cut down to bytes, a fraction of one *)
(* byte.                                                                   *)
OnlyHittersReported ==
  (hit' # hit /\ hit' # NoHit)
    => LET p == hit'.prefix
           s == hit'.subnet
       IN  credit[p][s] <= hit'.size * SECOND + rounded'[p][s] * (SECOND - 1)
=============================================================================
