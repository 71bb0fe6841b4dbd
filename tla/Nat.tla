-------------------------------- MODULE Nat --------------------------------
(***************************************************************************)
(* The NAT (vignat/nat_main.c, nat_flowmanager.c): nf_process is one step. *)
(* An endpoint stands for an address and a port; a packet from the         *)
(* internal network has a source and a destination endpoint, one from the  *)
(* external network a source endpoint and the port it is sent to.          *)
(***************************************************************************)
EXTENDS FlowState

CONSTANTS Hosts, Peers,    \* internal and external endpoints
          Prots,           \* the IP protocols, TCP and UDP
          Lan,             \* the internal devices
          wan_device,
          PortCount,       \* the number of ports, 2^16 in the code
          start_port, max_flows, expiration_time,
          MaxTime          \* bound: the clock stops here

(* The shipped configuration: every 16-bit port is the port of an index.   *)
NatAssumption == /\ PortCount \in Nat \ {0} /\ expiration_time \in Nat \ {0}
                 /\ start_port = 0 /\ max_flows = PortCount
                 /\ Indexes = 0 .. (max_flows - 1)
                 /\ wan_device \notin Lan /\ MaxTime \in Nat

VARIABLES table,           \* the state of the flow manager
          out,             \* the device nf_process returned and the packet it left
          now

vars == <<table, out, now>>

Ports == 0 .. (PortCount - 1)

FlowIds == [src : Hosts, dst : Peers, prot : Prots, idev : Lan]

Packets == [internal |-> [src : Hosts, dst : Peers, prot : Prots],
            external |-> [src : Peers, dst_port : Ports, prot : Prots]]

NoPacket == [src |-> "none"]

(* A packet nf_process returns to its own device is dropped by the loop.   *)
Forward(device, dst_device, p, q) ==
  out' = [device |-> device, dst_device |-> dst_device, received |-> p, pkt |-> q, time |-> now]

Drop(device, p) == Forward(device, device, p, p)

Init == /\ table \in NewTables(FlowIds)
        /\ out = [device |-> wan_device, dst_device |-> wan_device, received |-> NoPacket,
                  pkt |-> NoPacket, time |-> 0]
        /\ now = 0

Tick == now < MaxTime /\ now' = now + 1 /\ UNCHANGED <<table, out>>

(* The border one tick late.                                               *)
flow_manager_expire_early(t) == Expire(t, now - expiration_time + 1)

flow_manager_expire(t) == Expire(t, now - expiration_time)

flow_manager_get_internal(t, id) == Rejuvenate(t, t.fm[id], now)

flow_manager_allocate_flow(t, id, index) == AllocateAt(t, id, index, now)

(* The flow found and not refreshed.                                       *)
flow_manager_get_external_stale(t, port) ==
  LET index == port - start_port
  IN  [found |-> index \in DOMAIN t.heap, flow |-> t.fv[index], t |-> t]

(* The lookup by external port: the flow stored at the index of the port,  *)
(* refreshed before the packet is compared with it.                        *)
flow_manager_get_external(t, port) ==
  LET index == port - start_port
  IN  [found |-> index \in DOMAIN t.heap,
       flow  |-> t.fv[index],
       t     |-> Rejuvenate(t, index, now)]

(* What nf_process makes of a packet from the external network.            *)
FromWan(t, p) ==
  LET e == flow_manager_get_external(t, p.dst_port)
  IN  IF ~e.found THEN [t |-> t, dst_device |-> wan_device, pkt |-> p]
      ELSE IF e.flow.dst # p.src \/ e.flow.prot # p.prot
           THEN [t |-> e.t, dst_device |-> wan_device, pkt |-> p]
           ELSE [t |-> e.t, dst_device |-> e.flow.idev,
                 pkt |-> [src |-> p.src, dst |-> e.flow.src, prot |-> p.prot]]

(* Not IPv4, or neither TCP nor UDP.                                       *)
ProcessOther(device) ==
  /\ table' = flow_manager_expire(table)
  /\ Drop(device, NoPacket)
  /\ UNCHANGED now

ProcessWan(p) ==
  LET r == FromWan(flow_manager_expire(table), p)
  IN  /\ table' = r.t
      /\ Forward(wan_device, r.dst_device, p, r.pkt)
      /\ UNCHANGED now

external_port_next(index) == (start_port + index + 1) % PortCount

external_port(index) == (start_port + index) % PortCount

ProcessLan(device, p) ==
  LET t  == flow_manager_expire(table)
      id == [src |-> p.src, dst |-> p.dst, prot |-> p.prot, idev |-> device]
      Translated(index) == [src_port |-> external_port(index), dst |-> p.dst, prot |-> p.prot]
  IN  /\ \/ /\ id \in DOMAIN t.fm
            /\ table' = flow_manager_get_internal(t, id)
            /\ Forward(device, wan_device, p, Translated(t.fm[id]))
         \/ /\ id \notin DOMAIN t.fm
            /\ \E index \in FreeIndexes(t) :
                 /\ table' = flow_manager_allocate_flow(t, id, index)
                 /\ Forward(device, wan_device, p, Translated(index))
         \/ /\ id \notin DOMAIN t.fm /\ FreeIndexes(t) = {}
            /\ table' = t
            /\ Drop(device, p)
      /\ UNCHANGED now

Next == \/ Tick
        \/ \E device \in Lan \cup {wan_device} : ProcessOther(device)
        \/ \E p \in Packets.external : ProcessWan(p)
        \/ \E device \in Lan, p \in Packets.internal : ProcessLan(device, p)

Spec == Init /\ [][Next]_vars
-----------------------------------------------------------------------------
TypeOK == /\ table \in Tables(FlowIds, 0 .. now)
          /\ out.dst_device \in Lan \cup {wan_device}
          /\ now \in 0 .. MaxTime

(* Map, vector and double chain stay in step whatever packets come.        *)
Coherent == Coherence(table)

(* The answer to a translated packet comes back: for as long as the flow   *)
(* may live, a packet from the peer to the port the NAT wrote is delivered *)
(* to the endpoint that sent the first packet, on the device it came from. *)
RoundTrip ==
  (out.device \in Lan /\ out.dst_device = wan_device /\ now - out.time <= expiration_time)
    => LET r == FromWan(flow_manager_expire(table),
                        [src |-> out.pkt.dst, dst_port |-> out.pkt.src_port, prot |-> out.pkt.prot])
       IN  /\ r.dst_device = out.device
           /\ r.pkt.dst = out.received.src

(* A flow used within the expiration time keeps its index, so its external *)
(* port: no packet of another flow takes it over or evicts it.             *)
PortKept ==
  \A i \in DOMAIN table.heap : table.heap[i] >= now' - expiration_time =>
     i \in DOMAIN table'.heap /\ table'.fv[i] = table.fv[i]

(* The NAT does what vignat/spec.py says: same flows, same packets out.    *)
S == INSTANCE NatSpec WITH
       EXT_PORT <- wan_device, EXP_TIME <- expiration_time,
       flow_emap <- AsEMap(table),
       out <- IF out.dst_device = out.device
              THEN [device |-> out.device, received |-> out.received, dst |-> "none"]
              ELSE [device |-> out.device, received |-> out.received,
                    dst |-> out.dst_device, pkt |-> out.pkt]
=============================================================================
