--------------------------------- MODULE Fw ---------------------------------
(***************************************************************************)
(* The firewall (vigfw/fw_main.c, fw_flowmanager.c): nf_process is one     *)
(* step.  A packet is its source, its destination and its protocol; the    *)
(* flow of a packet from outside is that of the packet it would answer.    *)
(***************************************************************************)
EXTENDS FlowState

CONSTANTS Hosts, Peers,    \* internal and external endpoints
          Prots,           \* the IP protocols, TCP and UDP
          Lan,             \* the internal devices
          wan_device,
          expiration_time,
          MaxTime          \* bound: the clock stops here

FwAssumption == /\ expiration_time \in Nat \ {0} /\ MaxTime \in Nat
                /\ wan_device \notin Lan

VARIABLES table,           \* fm, fv and heap of the flow manager
          int_devices,     \* vector: index -> the device the flow came from
          out,             \* the device nf_process returned and the packet
          passed,          \* history: flow -> when it last passed either way; -1 before
          now

vars == <<table, int_devices, out, passed, now>>

FlowIds == [src : Hosts, dst : Peers, prot : Prots]

NoPacket == [src |-> "none"]

Reply(p) == [src |-> p.dst, dst |-> p.src, prot |-> p.prot]

Forward(device, dst_device, p) ==
  out' = [device |-> device, dst_device |-> dst_device, pkt |-> p]

(* Both vectors are initialized throughout by the same function.           *)
Init == /\ table \in NewTables(FlowIds)
        /\ int_devices = [i \in Indexes |-> "none"]
        /\ out = [device |-> wan_device, dst_device |-> wan_device, pkt |-> NoPacket]
        /\ passed = [f \in FlowIds |-> -1]
        /\ now = 0

Tick == now < MaxTime /\ now' = now + 1 /\ UNCHANGED <<table, int_devices, out, passed>>

(* The expiration left out: entries live for ever.                         *)
flow_manager_expire_never(t) == t

flow_manager_expire(t) == Expire(t, now - expiration_time)

(* The flow found and not refreshed.                                       *)
flow_manager_get_refresh_flow_stale(t, id) == t

flow_manager_get_refresh_flow(t, id) == Rejuvenate(t, t.fm[id], now)

ProcessOther(device) ==
  /\ table' = flow_manager_expire(table)
  /\ Forward(device, device, NoPacket)
  /\ UNCHANGED <<int_devices, passed, now>>

ProcessWan(p) ==
  LET t  == flow_manager_expire(table)
      id == Reply(p)
  IN  /\ IF id \in DOMAIN t.fm
         THEN /\ table' = flow_manager_get_refresh_flow(t, id)
              /\ Forward(wan_device, int_devices[t.fm[id]], p)
              /\ passed' = [passed EXCEPT ![id] = now]
         ELSE table' = t /\ Forward(wan_device, wan_device, p) /\ UNCHANGED passed
      /\ UNCHANGED <<int_devices, now>>

(* A full table records nothing.                                           *)
allocate_or_refresh_flow(t, id, internal_device) ==
  \/ /\ id \in DOMAIN t.fm
     /\ table' = Rejuvenate(t, t.fm[id], now)
     /\ UNCHANGED int_devices
  \/ id \notin DOMAIN t.fm /\ FreeIndexes(t) = {} /\ table' = t /\ UNCHANGED int_devices
  \/ /\ id \notin DOMAIN t.fm
     /\ \E index \in FreeIndexes(t) :
          /\ table' = AllocateAt(t, id, index, now)
          /\ int_devices' = [int_devices EXCEPT ![index] = internal_device]

(* The outgoing packet is let out whether or not its flow is recorded.     *)
ProcessLan(device, p) ==
  /\ allocate_or_refresh_flow(flow_manager_expire(table), p, device)
  /\ Forward(device, wan_device, p)
  /\ passed' = [passed EXCEPT ![p] = now]
  /\ UNCHANGED now

Next == \/ Tick
        \/ \E device \in Lan \cup {wan_device} : ProcessOther(device)
        \/ \E id \in FlowIds : ProcessWan(Reply(id)) \/ \E device \in Lan : ProcessLan(device, id)

Spec == Init /\ [][Next]_vars
-----------------------------------------------------------------------------
TypeOK == /\ table \in Tables(FlowIds, 0 .. now)
          /\ int_devices \in [Indexes -> Lan \cup {"none"}]
          /\ out.dst_device \in Lan \cup {wan_device}
          /\ passed \in [FlowIds -> -1 .. MaxTime]
          /\ now \in 0 .. MaxTime

(* Map, vector and double chain stay in step whatever packets come.        *)
Coherent == Coherence(table)

(* Nothing unsolicited gets in: a packet from the external device passes   *)
(* only when its flow has gone out before and has not been quiet for more  *)
(* than the expiration time since.                                         *)
EntersOnlyLive ==
  \A id \in FlowIds :
    (passed'[id] # passed[id] /\ out'.device = wan_device)
      => passed[id] >= 0 /\ now - passed[id] <= expiration_time

OnlyLiveFlowsEnter == [][EntersOnlyLive]_vars

(* The firewall does what vigfw/spec.py says: same flows, same packets.    *)
S == INSTANCE FwSpec WITH
       EXT_DEVICE <- wan_device, EXP_TIME <- expiration_time,
       flow_emap <- AsEMap(table),
       out <- [device |-> out.device, pkt |-> out.pkt,
               dst |-> IF out.dst_device = out.device THEN "none" ELSE out.dst_device]

SpecPy == S!Spec
=============================================================================
