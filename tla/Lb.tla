--------------------------------- MODULE Lb ---------------------------------
(***************************************************************************)
(* The load balancer (viglb/lb_main.c, lb_balancer.c): nf_process is one   *)
(* step.  Packets of clients come in on the external device and are sent   *)
(* to a backend; any packet of a backend is its heartbeat.  The hash table *)
(* of module Cht gives every flow the backends in an order of preference.  *)
(***************************************************************************)
EXTENDS Integers, Sequences

CONSTANTS Flows, Ips, Nics, wan_device,
          FlowIndexes, BackendIndexes,
          cht,             \* flow -> the row of its hash in the table
          flow_expiration_time, backend_expiration_time,
          MaxTime          \* bound: the clock stops here

LbAssumption ==
  /\ flow_expiration_time \in Nat \ {0} /\ backend_expiration_time \in Nat \ {0}
  /\ MaxTime \in Nat /\ wan_device \notin Nics
  /\ \A f \in Flows : {cht[f][i] : i \in DOMAIN cht[f]} = BackendIndexes

VARIABLES flows,           \* flow_to_flow_id, flow_heap and flow_chain
          actives,         \* ip_to_backend_id, backend_ips and active_backends
          flow_id_to_backend_id, backends,
          out,             \* the packet and the backend it is sent to
          beat,            \* history: address -> the time of its last heartbeat
          served,          \* history: flow -> its backend, while it should be kept
          now

vars == <<flows, actives, flow_id_to_backend_id, backends, out, beat, served, now>>

F == INSTANCE FlowState WITH Indexes <- FlowIndexes
B == INSTANCE FlowState WITH Indexes <- BackendIndexes

(* A packet nf_process returns to the external device is dropped.          *)
NoBackend == [ip |-> "none", nic |-> wan_device]

NotServed == [ip |-> "none", at |-> -1]

Init == /\ flows \in F!NewTables(Flows)
        /\ actives \in B!NewTables(Ips)
        /\ \E b \in BackendIndexes : flow_id_to_backend_id = [i \in FlowIndexes |-> b]
        /\ backends = [i \in BackendIndexes |-> NoBackend]
        /\ out = [device |-> wan_device, pkt |-> "none", backend |-> NoBackend]
        /\ beat = [ip \in Ips |-> -1]
        /\ served = [f \in Flows |-> NotServed]
        /\ now = 0

Tick == /\ now < MaxTime /\ now' = now + 1
        /\ UNCHANGED <<flows, actives, flow_id_to_backend_id, backends, out, beat, served>>

lb_expire_flows == F!Expire(flows, now - flow_expiration_time)

lb_expire_backends == B!Expire(actives, now - backend_expiration_time)

(* dchain_is_index_allocated(active_backends, i).                          *)
Active(i) == i \in DOMAIN lb_expire_backends.heap

(* The last of the row taken.                                              *)
cht_find_preferred_available_backend_last(flow) ==
  LET row == cht[flow]
      available == {i \in DOMAIN row : Active(row[i])}
  IN  row[CHOOSE i \in available : \A j \in available : j <= i]

(* The first of the row that is active.                                    *)
cht_find_preferred_available_backend(flow) ==
  LET row == cht[flow]
      available == {i \in DOMAIN row : Active(row[i])}
  IN  row[CHOOSE i \in available : \A j \in available : i <= j]

Found(flow) == \E i \in DOMAIN cht[flow] : Active(cht[flow][i])

Sent(flow, backend) == out' = [device |-> wan_device, pkt |-> flow, backend |-> backend]

(* The backend of a new flow not recorded.                                 *)
AssignUnrecorded(t, flow) ==
  LET backend_index == cht_find_preferred_available_backend(flow)
  IN  \/ /\ Found(flow)
         /\ \/ \E flow_index \in F!FreeIndexes(t) : flows' = F!AllocateAt(t, flow, flow_index, now)
            \/ F!FreeIndexes(t) = {} /\ flows' = t
         /\ Sent(flow, backends[backend_index])
         /\ UNCHANGED flow_id_to_backend_id
      \/ /\ ~Found(flow)
         /\ flows' = t /\ Sent(flow, NoBackend) /\ UNCHANGED flow_id_to_backend_id

(* lb_get_backend for a flow that is not in the table.                     *)
Assign(t, flow) ==
  LET backend_index == cht_find_preferred_available_backend(flow)
  IN  \/ /\ Found(flow)
         /\ \/ \E flow_index \in F!FreeIndexes(t) :
                 /\ flows' = F!AllocateAt(t, flow, flow_index, now)
                 /\ flow_id_to_backend_id' = [flow_id_to_backend_id EXCEPT
                                                ![flow_index] = backend_index]
            \/ F!FreeIndexes(t) = {} /\ flows' = t /\ UNCHANGED flow_id_to_backend_id
         /\ Sent(flow, backends[backend_index])
      \/ /\ ~Found(flow)
         /\ flows' = t /\ Sent(flow, NoBackend) /\ UNCHANGED flow_id_to_backend_id

(* The entry in the map left when the index is freed.                      *)
EraseFlowIndex(t, flow) == [t EXCEPT !.heap = [i \in DOMAIN @ \ {t.fm[flow]} |-> @[i]]]

(* map_erase and dchain_free_index.                                        *)
EraseFlow(t, flow) ==
  [t EXCEPT !.fm = [k \in DOMAIN @ \ {flow} |-> @[k]],
            !.heap = [i \in DOMAIN @ \ {t.fm[flow]} |-> @[i]]]

(* The assignment used whether or not the backend is active.               *)
lb_get_backend_dead(flow) ==
  LET t          == lb_expire_flows
      flow_index == t.fm[flow]
  IN  \/ flow \notin DOMAIN t.fm /\ Assign(t, flow)
      \/ /\ flow \in DOMAIN t.fm
         /\ flows' = F!Rejuvenate(t, flow_index, now)
         /\ Sent(flow, backends[flow_id_to_backend_id[flow_index]])
         /\ UNCHANGED flow_id_to_backend_id

(* The recursive call for a flow whose backend is gone finds it absent.    *)
lb_get_backend(flow) ==
  LET t             == lb_expire_flows
      flow_index    == t.fm[flow]
      backend_index == flow_id_to_backend_id[flow_index]
  IN  \/ flow \notin DOMAIN t.fm /\ Assign(t, flow)
      \/ flow \in DOMAIN t.fm /\ ~Active(backend_index) /\ Assign(EraseFlow(t, flow), flow)
      \/ /\ flow \in DOMAIN t.fm /\ Active(backend_index)
         /\ flows' = F!Rejuvenate(t, flow_index, now)
         /\ Sent(flow, backends[backend_index])
         /\ UNCHANGED flow_id_to_backend_id

(* The flows whose backend has just been forgotten need not be kept.       *)
Forget(s) == [f \in Flows |-> IF s[f].ip \in DOMAIN lb_expire_backends.fm THEN s[f] ELSE NotServed]

ProcessOther(device) ==
  /\ flows' = lb_expire_flows /\ actives' = lb_expire_backends
  /\ out' = [device |-> device, pkt |-> "none", backend |-> NoBackend]
  /\ served' = Forget(served)
  /\ UNCHANGED <<flow_id_to_backend_id, backends, beat, now>>

ProcessClient(flow) ==
  /\ actives' = lb_expire_backends
  /\ lb_get_backend(flow)
  /\ served' = [Forget(served) EXCEPT
                  ![flow] = IF flow \in DOMAIN flows'.fm
                            THEN [ip |-> out'.backend.ip, at |-> now] ELSE NotServed]
  /\ UNCHANGED <<backends, beat, now>>

(* A known backend is refreshed, a new one registered if there is room.    *)
lb_process_heartbit(t, ip, nic) ==
  \/ ip \in DOMAIN t.fm /\ actives' = B!Rejuvenate(t, t.fm[ip], now) /\ UNCHANGED backends
  \/ /\ ip \notin DOMAIN t.fm
     /\ \E backend_index \in B!FreeIndexes(t) :
          /\ actives' = B!AllocateAt(t, ip, backend_index, now)
          /\ backends' = [backends EXCEPT ![backend_index] = [ip |-> ip, nic |-> nic]]
  \/ ip \notin DOMAIN t.fm /\ B!FreeIndexes(t) = {} /\ actives' = t /\ UNCHANGED backends

ProcessHeartbeat(device, ip) ==
  /\ flows' = lb_expire_flows
  /\ lb_process_heartbit(lb_expire_backends, ip, device)
  /\ out' = [device |-> device, pkt |-> ip, backend |-> NoBackend]
  /\ beat' = [beat EXCEPT ![ip] = now]
  /\ served' = Forget(served)
  /\ UNCHANGED <<flow_id_to_backend_id, now>>

Next == \/ Tick
        \/ \E device \in Nics \cup {wan_device} : ProcessOther(device)
        \/ \E flow \in Flows : ProcessClient(flow)
        \/ \E device \in Nics, ip \in Ips : ProcessHeartbeat(device, ip)

Spec == Init /\ [][Next]_vars
-----------------------------------------------------------------------------
TypeOK == /\ flows \in F!Tables(Flows, 0 .. now)
          /\ actives \in B!Tables(Ips, 0 .. now)
          /\ flow_id_to_backend_id \in [FlowIndexes -> BackendIndexes]
          /\ backends \in [BackendIndexes -> [ip : Ips, nic : Nics] \cup {NoBackend}]
          /\ beat \in [Ips -> -1 .. now]
          /\ now \in 0 .. MaxTime

(* Both tables stay in step, the erasure of a flow whose backend is gone   *)
(* included, and a registered backend is stored under its own address.     *)
Coherent == /\ F!Coherence(flows) /\ B!Coherence(actives)
            /\ \A i \in DOMAIN actives.heap : backends[i].ip = actives.fv[i]

ClientStep(f) == out'.device = wan_device /\ out'.pkt = f /\ now' = now

(* A flow stays with its backend for as long as it is remembered and the   *)
(* backend has not been forgotten: no other flow, backend or expiry moves  *)
(* it, however the indexes of both tables are reused.                      *)
Sticky ==
  \A f \in Flows :
     (ClientStep(f) /\ served[f].ip \in DOMAIN actives'.fm
        /\ served[f].at >= now - flow_expiration_time)
       => out'.backend.ip = served[f].ip

(* No packet goes to a backend that has not been heard of within the       *)
(* expiration time, although flows keep the index of their backend.        *)
OnlyToLive ==
  \A f \in Flows : (ClientStep(f) /\ out'.backend # NoBackend)
     => beat[out'.backend.ip] >= now - backend_expiration_time

(* A client is served whenever any backend is registered.                  *)
Served == \A f \in Flows : ClientStep(f) /\ DOMAIN actives'.fm # {} => out'.backend # NoBackend

(* The load balancer does what viglb/spec.py says.                         *)
S == INSTANCE LbSpec WITH
       EXT_PORT <- wan_device, EXP_TIME <- flow_expiration_time,
       BACKEND_EXP_TIME <- backend_expiration_time,
       flow_emap <- F!AsEMap(flows), backend_ip_emap <- B!AsEMap(actives),
       out <- [port |-> out.device, pkt |-> out.pkt, backend |-> out.backend]
=============================================================================
