------------------------------ MODULE Policer ------------------------------
(***************************************************************************)
(* The policer (vigpol/policer_main.c): a token bucket per destination,    *)
(* kept in an expiring table; a destination without an entry stands for a  *)
(* full bucket.  Sizes are bytes, and VIGOR_TIME_SECONDS_MULTIPLIER ticks  *)
(* of the clock are a second.                                              *)
(***************************************************************************)
EXTENDS FlowState

CONSTANTS Destinations, Sizes,
          lan_device, wan_device, Others,   \* the devices
          rate, burst,                      \* bytes per second, bytes
          VIGOR_TIME_SECONDS_MULTIPLIER,
          MaxTime                           \* bound: the clock stops here

(* policer_config.c refuses a rate or a burst of zero.                     *)
PolicerAssumption ==
  /\ rate \in Nat \ {0} /\ burst \in Nat \ {0} /\ Sizes \subseteq Nat
  /\ VIGOR_TIME_SECONDS_MULTIPLIER \in Nat \ {0} /\ MaxTime \in Nat
  /\ lan_device # wan_device /\ {lan_device, wan_device} \cap Others = {}
  /\ "none" \notin Destinations

VARIABLES table,           \* dyn_map, dyn_keys and dyn_heap
          dyn_vals,        \* vector: index -> bucket_size, bucket_time
          out,             \* the packet and the device nf_process returned
          credit,          \* history: what an exact token bucket would hold
          last,            \* history: when a packet was last let through; -1 before
          pauses,          \* history: packets let through after a pause
          rounded,         \* history: refills cut down to bytes since the bucket was full
          now

vars == <<table, dyn_vals, out, credit, last, pauses, rounded, now>>

SECOND == VIGOR_TIME_SECONDS_MULTIPLIER

AtMost(limit, n) == IF n > limit THEN limit ELSE n

(* A destination is given a full bucket when its entry has expired, after  *)
(* the whole seconds of the burst, or its refill reaches the burst: after  *)
(* at least Quiet ticks without a packet let through.  The rate would have *)
(* filled the bucket up to Unearned, which is 0 for a burst of whole       *)
(* seconds and almost the burst for one that is far below the rate.        *)
Quiet == AtMost((burst * SECOND) \div rate, SECOND * (burst \div rate) + 1)

Unearned == burst * SECOND - Quiet * rate

Paused(d) == last[d] >= 0 /\ now - last[d] >= Quiet

NoPacket == [dst |-> "none", size |-> 0]

Forward(device, dst_device, p) ==
  out' = [device |-> device, dst_device |-> dst_device, pkt |-> p]

Init == /\ table \in NewTables(Destinations)
        /\ dyn_vals = [i \in Indexes |-> [bucket_size |-> 0, bucket_time |-> 0]]
        /\ out = [device |-> lan_device, dst_device |-> lan_device, pkt |-> NoPacket]
        /\ credit = [d \in Destinations |-> burst * SECOND]
        /\ last = [d \in Destinations |-> -1]
        /\ pauses = [d \in Destinations |-> 0]
        /\ rounded = [d \in Destinations |-> 0]
        /\ now = 0

(* The exact bucket gains rate bytes per second, in fractions of a byte.   *)
Tick == /\ now < MaxTime /\ now' = now + 1
        /\ credit' = [d \in Destinations |-> AtMost(burst * SECOND, credit[d] + rate)]
        /\ UNCHANGED <<table, dyn_vals, out, last, pauses, rounded>>

(* The seconds taken for ticks.                                            *)
policer_expire_entries_early(t) == Expire(t, now - burst \div rate)

(* Entries that have just reached the limit taken too.                     *)
policer_expire_entries_at_limit(t) == Expire(t, now - SECOND * (burst \div rate) + 1)

policer_expire_entries(t) == Expire(t, now - SECOND * (burst \div rate))

(* The tokens of the time since the last packet not added.                 *)
RefilledNever(value) == value.bucket_size

Refilled(value) ==
  LET time_diff == now - value.bucket_time
  IN  IF time_diff < (burst * SECOND) \div rate
      THEN AtMost(burst, value.bucket_size + (time_diff * rate) \div SECOND)
      ELSE burst

Admit(p) == /\ Forward(wan_device, lan_device, p)
            /\ credit' = [credit EXCEPT ![p.dst] = @ - p.size * SECOND]
            /\ last' = [last EXCEPT ![p.dst] = now]
            /\ pauses' = [pauses EXCEPT ![p.dst] = IF Paused(p.dst) THEN @ + 1 ELSE @]

Refuse(p) == Forward(wan_device, wan_device, p) /\ UNCHANGED <<credit, last, pauses>>

(* Whether a refill loses a fraction of a byte.                            *)
CutDown(value) == ((now - value.bucket_time) * rate) % SECOND # 0

Present(t, p) ==
  LET index  == t.fm[p.dst]
      filled == Refilled(dyn_vals[index])
      fwd    == filled > p.size
  IN  /\ table' = Rejuvenate(t, index, now)
      /\ dyn_vals' = [dyn_vals EXCEPT ![index] =
                        [bucket_size |-> IF fwd THEN filled - p.size ELSE filled,
                         bucket_time |-> now]]
      /\ rounded' = [rounded EXCEPT ![p.dst] =
                        IF filled = burst THEN 0
                        ELSE IF CutDown(dyn_vals[index]) THEN @ + 1 ELSE @]
      /\ IF fwd THEN Admit(p) ELSE Refuse(p)

Absent(t, p) ==
  \/ /\ p.size > burst \/ FreeIndexes(t) = {}
     /\ table' = t
     /\ Refuse(p)
     /\ UNCHANGED <<dyn_vals, rounded>>
  \/ /\ p.size <= burst
     /\ \E index \in FreeIndexes(t) :
          /\ table' = AllocateAt(t, p.dst, index, now)
          /\ dyn_vals' = [dyn_vals EXCEPT ![index] =
                            [bucket_size |-> burst - p.size, bucket_time |-> now]]
     /\ rounded' = [rounded EXCEPT ![p.dst] = 0]
     /\ Admit(p)

policer_check_tb(t, p) ==
  IF p.dst \in DOMAIN t.fm THEN Present(t, p) ELSE Absent(t, p)

(* A packet that is not IPv4 is dropped before anything else is done.      *)
ProcessOther(device) ==
  /\ Forward(device, device, NoPacket)
  /\ UNCHANGED <<table, dyn_vals, credit, last, pauses, rounded, now>>

ProcessWan(p) == policer_check_tb(policer_expire_entries(table), p) /\ UNCHANGED now

(* Outgoing packets are not policed, those of other devices are dropped.   *)
ProcessRest(device) ==
  /\ table' = policer_expire_entries(table)
  /\ Forward(device, IF device = lan_device THEN wan_device ELSE device, NoPacket)
  /\ UNCHANGED <<dyn_vals, credit, last, pauses, rounded, now>>

Next == \/ Tick
        \/ \E device \in Others \cup {lan_device, wan_device} : ProcessOther(device)
        \/ \E p \in [dst : Destinations, size : Sizes] : ProcessWan(p)
        \/ \E device \in Others \cup {lan_device} : ProcessRest(device)

Spec == Init /\ [][Next]_vars
-----------------------------------------------------------------------------
(* The two assertions of policer_check_tb are part of it: a bucket never   *)
(* exceeds the burst and its time is not in the future.                    *)
TypeOK == /\ table \in Tables(Destinations, 0 .. now)
          /\ dyn_vals \in [Indexes -> [bucket_size : 0 .. burst, bucket_time : 0 .. now]]
          /\ credit \in [Destinations -> Int]
          /\ last \in [Destinations -> -1 .. now]
          /\ pauses \in [Destinations -> Nat] /\ rounded \in [Destinations -> Nat]
          /\ now \in 0 .. MaxTime

(* What is let through to a destination never exceeds what the rate and    *)
(* the burst allow by more than Unearned for every pause: in any span of t *)
(* seconds at most burst + rate * t bytes, and that excess.  The expiry of *)
(* idle destinations, whose time is cut to whole seconds, gives no more;   *)
(* with a burst of whole seconds it gives nothing that was not earned.     *)
Conforms == \A d \in Destinations : credit[d] >= -(pauses[d] * Unearned)

(* The policer drops only the excess: a packet of a destination is refused *)
(* only when the table is full or the exact bucket does not hold more than *)
(* the packet and, for every refill since the bucket was full that had to  *)
(* be cut down to bytes, a fraction of one byte.                           *)
DropsOnlyExcess ==
  \A p \in [dst : Destinations, size : Sizes] :
    (now' = now /\ out' = [device |-> wan_device, dst_device |-> wan_device, pkt |-> p])
      => \/ credit[p.dst] <= p.size * SECOND + rounded'[p.dst] * (SECOND - 1)
         \/ p.dst \notin DOMAIN table'.fm /\ FreeIndexes(table') = {}

OnlyExcessDropped == [][DropsOnlyExcess]_vars
=============================================================================
