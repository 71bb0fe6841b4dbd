------------------------------- MODULE PoliFw -------------------------------
(***************************************************************************)
(* The firewall with a policer (vigpolifw/fw_main.c, fw_flowmanager.c, and *)
(* vigpoliupfw, which polices what goes out).  nf_process, one step, gives *)
(* every packet to both: either can drop it, and what the other has        *)
(* recorded of it stays.  A packet is the flow it belongs to and its size. *)
(***************************************************************************)
EXTENDS Integers

CONSTANTS Hosts, Peers, Sizes,
          lan_device, wan_device, Others,   \* the devices
          policed_device,                   \* wan_device, or lan_device in vigpoliupfw
          expiration_time,
          max_flows, dyn_capacity,
          config_rate, config_burst,        \* config.rate and config.burst
          SECOND,                           \* VIGOR_TIME_SECONDS_MULTIPLIER
          MaxTime                           \* bound: the clock stops here

VARIABLES flow_table,      \* fm, fv and heap
          int_devices,
          dyn_table,       \* dyn_map, dyn_keys and dyn_heap
          dyn_vals,
          out,             \* the packet, and if firewall and policer both let it pass
          passed,          \* history: flow -> when the firewall last passed it; -1 before
          left,            \* history: the flows of which a packet got out
          credit,          \* history: what an exact token bucket would hold
          last,            \* history: when a bucket was last charged; -1 before
          pauses,          \* history: packets let through after a pause
          now

history == <<passed, left, credit, last, pauses>>

vars == <<flow_table, int_devices, dyn_table, dyn_vals, out, history, now>>

FlowIndexes == 0 .. (max_flows - 1)
DynIndexes  == 0 .. (dyn_capacity - 1)

F == INSTANCE FlowState WITH Indexes <- FlowIndexes
D == INSTANCE FlowState WITH Indexes <- DynIndexes

(* policer_check_tb takes both as uint16_t.                                *)
rate  == config_rate % 65536
burst == config_burst % 65536

PoliFwAssumption ==
  /\ config_rate \in Nat /\ rate # 0 /\ config_burst \in Nat \ {0} /\ Sizes \subseteq Nat
  /\ expiration_time \in Nat \ {0} /\ SECOND \in Nat \ {0} /\ MaxTime \in Nat
  /\ max_flows \in Nat \ {0} /\ dyn_capacity \in Nat \ {0}
  /\ lan_device # wan_device /\ {lan_device, wan_device} \cap Others = {}
  /\ policed_device \in {lan_device, wan_device}

FlowIds == [src : Hosts, dst : Peers]

Devices == Others \cup {lan_device, wan_device}

(* dst_addr of the packets that are policed.                               *)
Destinations == IF policed_device = wan_device THEN Hosts ELSE Peers
dst_addr(id) == IF policed_device = wan_device THEN id.src ELSE id.dst

AtMost(limit, n) == IF n > limit THEN limit ELSE n

(* As in module Policer: after Quiet ticks a bucket is given as full, and  *)
(* the rate has not earned Unearned of it.                                 *)
Quiet == AtMost((burst * SECOND) \div rate, SECOND * (burst \div rate) + 1)

Unearned == burst * SECOND - Quiet * rate

Paused(d) == last[d] >= 0 /\ now - last[d] >= Quiet

NoPacket == [src |-> "none"]

Init == /\ flow_table \in F!NewTables(FlowIds)
        /\ int_devices = [i \in FlowIndexes |-> "none"]
        /\ dyn_table \in D!NewTables(Destinations)
        /\ dyn_vals = [i \in DynIndexes |-> [bucket_size |-> 0, bucket_time |-> 0]]
        /\ out = [device |-> wan_device, pkt |-> NoPacket, fwd |-> FALSE]
        /\ passed = [id \in FlowIds |-> -1]
        /\ left = {}
        /\ credit = [d \in Destinations |-> config_burst * SECOND]
        /\ last = [d \in Destinations |-> -1] /\ pauses = [d \in Destinations |-> 0]
        /\ now = 0

Tick == /\ now < MaxTime /\ now' = now + 1
        /\ credit' = [d \in Destinations |-> AtMost(config_burst * SECOND, credit[d] + config_rate)]
        /\ UNCHANGED <<flow_table, int_devices, dyn_table, dyn_vals, out, passed, left, last, pauses>>

flow_manager_expire(t) == F!Expire(t, now - expiration_time)

policer_expire_entries(t) == D!Expire(t, now - SECOND * (burst \div rate))

(* A full table records nothing.                                           *)
allocate_or_refresh_flow(t, id, internal_device) ==
  \/ /\ id \in DOMAIN t.fm
     /\ flow_table' = F!Rejuvenate(t, t.fm[id], now)
     /\ UNCHANGED int_devices
  \/ /\ id \notin DOMAIN t.fm /\ F!FreeIndexes(t) = {}
     /\ flow_table' = t
     /\ UNCHANGED int_devices
  \/ /\ id \notin DOMAIN t.fm
     /\ \E index \in F!FreeIndexes(t) :
          /\ flow_table' = F!AllocateAt(t, id, index, now)
          /\ int_devices' = [int_devices EXCEPT ![index] = internal_device]

(* The firewall, for a packet of flow id in either direction.              *)
nf_process_firewall(device, id, dst_device) ==
  LET t == flow_manager_expire(flow_table)
  IN  IF device = wan_device
      THEN IF id \in DOMAIN t.fm
           THEN /\ dst_device = int_devices[t.fm[id]]
                /\ flow_table' = F!Rejuvenate(t, t.fm[id], now)
                /\ passed' = [passed EXCEPT ![id] = now]
                /\ UNCHANGED int_devices
           ELSE /\ dst_device = wan_device
                /\ flow_table' = t
                /\ UNCHANGED <<int_devices, passed>>
      ELSE /\ dst_device = wan_device
           /\ allocate_or_refresh_flow(t, id, device)
           /\ passed' = [passed EXCEPT ![id] = now]

Refilled(value) ==
  LET time_diff == now - value.bucket_time
  IN  IF time_diff < (burst * SECOND) \div rate
      THEN AtMost(burst, value.bucket_size + (time_diff * rate) \div SECOND)
      ELSE burst

(* The bucket of a destination: taken up, opened, or refused; the answer   *)
(* is fwd.                                                                 *)
policer_check_tb(t, dst, size, fwd) ==
  \/ /\ dst \in DOMAIN t.fm
     /\ LET index  == t.fm[dst]
            filled == Refilled(dyn_vals[index])
        IN  /\ fwd = (filled > size)
            /\ dyn_table' = D!Rejuvenate(t, index, now)
            /\ dyn_vals' = [dyn_vals EXCEPT ![index] =
                              [bucket_size |-> IF fwd THEN filled - size ELSE filled,
                               bucket_time |-> now]]
  \/ /\ dst \notin DOMAIN t.fm /\ (size > burst \/ D!FreeIndexes(t) = {})
     /\ ~fwd /\ dyn_table' = t
     /\ UNCHANGED dyn_vals
  \/ /\ dst \notin DOMAIN t.fm /\ size <= burst /\ fwd
     /\ \E index \in D!FreeIndexes(t) :
          /\ dyn_table' = D!AllocateAt(t, dst, index, now)
          /\ dyn_vals' = [dyn_vals EXCEPT ![index] =
                            [bucket_size |-> burst - size, bucket_time |-> now]]

(* The policer: one direction is policed, the other is not, and packets of *)
(* other devices are dropped.                                              *)
nf_process_policer(device, dst, size, dst_device) ==
  LET t       == policer_expire_entries(dyn_table)
      Across  == IF device = wan_device THEN lan_device ELSE wan_device
  IN  IF device = policed_device
      THEN \E fwd \in BOOLEAN : /\ policer_check_tb(t, dst, size, fwd)
                                /\ dst_device = IF fwd THEN Across ELSE device
      ELSE /\ dyn_table' = t
           /\ dst_device = IF device \in Others THEN device ELSE Across
           /\ UNCHANGED dyn_vals

(* Only what got through is charged to the exact bucket: not a packet that *)
(* the firewall drops and the policer has let pass.                        *)
Charge(d, size) ==
  /\ credit' = [credit EXCEPT ![d] = @ - size * SECOND]
  /\ last' = [last EXCEPT ![d] = now]
  /\ pauses' = [pauses EXCEPT ![d] = IF Paused(d) THEN @ + 1 ELSE @]

(* Dropped only when both answers are the device it came from.             *)
DroppedByBoth(device, fw, pol) == fw = device /\ pol = device

(* A packet is dropped when either answer is the device it came from.      *)
Dropped(device, fw, pol) == fw = device \/ pol = device

nf_process(device, id, size) ==
  \E fw, pol \in Devices :
    LET fwd == ~Dropped(device, fw, pol)
    IN  /\ nf_process_firewall(device, id, fw)
        /\ nf_process_policer(device, dst_addr(id), size, pol)
        /\ out' = [device |-> device, pkt |-> id, fwd |-> fwd]
        /\ left' = IF fwd /\ device # wan_device THEN left \cup {id} ELSE left
        /\ IF device = policed_device /\ fwd
           THEN Charge(dst_addr(id), size) ELSE UNCHANGED <<credit, last, pauses>>
        /\ UNCHANGED now

(* A packet that is not TCP or UDP over IPv4 is dropped at once.           *)
ProcessOther(device) ==
  /\ out' = [device |-> device, pkt |-> NoPacket, fwd |-> FALSE]
  /\ UNCHANGED <<flow_table, int_devices, dyn_table, dyn_vals, history, now>>

Next == \/ Tick
        \/ \E device \in Devices : ProcessOther(device)
        \/ \E device \in Devices, id \in FlowIds, size \in Sizes : nf_process(device, id, size)

Spec == Init /\ [][Next]_vars
-----------------------------------------------------------------------------
(* Each of the two holds although the other may drop what it let pass: the *)
(* tables stay in step, and what passes the policed direction never        *)
(* exceeds the configured rate and burst but by Unearned for every pause.  *)
BothKept ==
  /\ F!Coherence(flow_table) /\ D!Coherence(dyn_table)
  /\ \A d \in Destinations : credit[d] >= -(pauses[d] * Unearned)

(* A packet gets in only when the firewall has passed its flow within the  *)
(* expiration time, in either direction.  When what comes in is policed, a *)
(* packet of the flow has really got out.  When what goes out is policed,  *)
(* one was only offered: the firewall records the flow of a packet that    *)
(* the policer then drops, and the flow is open to answers to no packet.   *)
OnlyLiveFlowsEnter ==
  (now' = now /\ out'.device = wan_device /\ out'.fwd)
    => LET id == out'.pkt
       IN  /\ passed[id] >= 0 /\ now - passed[id] <= expiration_time
           /\ policed_device = wan_device => id \in left
=============================================================================
