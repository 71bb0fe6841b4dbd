------------------------------- MODULE LbSpec -------------------------------
(***************************************************************************)
(* The specification of the load balancer (viglb/spec.py) over two         *)
(* expiring maps, of flows and of the addresses of the backends.           *)
(***************************************************************************)
EXTENDS Integers, Sequences

CONSTANTS Flows, Ips, Nics, EXT_PORT, FlowIndexes, BackendIndexes,
          cht,             \* flow -> the backends in order of preference
          EXP_TIME, BACKEND_EXP_TIME, MaxTime

VARIABLES flow_emap, flow_id_to_backend_id, backends, backend_ip_emap,
          out,             \* the packet received and the backend it was sent to, if any
          now

vars == <<flow_emap, flow_id_to_backend_id, backends, backend_ip_emap, out, now>>

F == INSTANCE EMap WITH Indexes <- FlowIndexes
B == INSTANCE EMap WITH Indexes <- BackendIndexes

NoBackend == [ip |-> "none", nic |-> EXT_PORT]

Init == /\ flow_emap = F!Empty
        /\ flow_id_to_backend_id \in [FlowIndexes -> BackendIndexes]
        /\ backends \in [BackendIndexes -> {NoBackend}]
        /\ backend_ip_emap = B!Empty
        /\ out = [port |-> EXT_PORT, pkt |-> "none", backend |-> NoBackend]
        /\ now = 0

Tick == /\ now < MaxTime /\ now' = now + 1
        /\ UNCHANGED <<flow_emap, flow_id_to_backend_id, backends, backend_ip_emap, out>>

ExpiredFlows == F!expire_all(flow_emap, now - EXP_TIME)

ExpiredBackends == B!expire_all(backend_ip_emap, now - BACKEND_EXP_TIME)

Mismatch(port) == /\ flow_emap' = ExpiredFlows /\ backend_ip_emap' = ExpiredBackends
                  /\ out' = [port |-> port, pkt |-> "none", backend |-> NoBackend]
                  /\ UNCHANGED <<flow_id_to_backend_id, backends>>

exists_with_cht(flow) == \E i \in DOMAIN cht[flow] : B!has_idx(ExpiredBackends, cht[flow][i])

choose_with_cht(flow) ==
  LET live == {i \in DOMAIN cht[flow] : B!has_idx(ExpiredBackends, cht[flow][i])}
  IN  cht[flow][CHOOSE i \in live : \A j \in live : i <= j]

(* The flow is not in the map e: it is assigned a backend, if there is one,*)
(* and remembered, if there is room.                                       *)
Assign(e, flow) ==
  LET bknd == choose_with_cht(flow)
  IN  IF exists_with_cht(flow)
      THEN /\ IF F!full(e) THEN flow_emap' = e /\ UNCHANGED flow_id_to_backend_id
              ELSE \E idx \in FlowIndexes \ DOMAIN e :
                     /\ flow_emap' = F!add(e, flow, idx, now)
                     /\ flow_id_to_backend_id' = [flow_id_to_backend_id EXCEPT ![idx] = bknd]
           /\ out' = [port |-> EXT_PORT, pkt |-> flow, backend |-> backends[bknd]]
      ELSE /\ flow_emap' = e
           /\ out' = [port |-> EXT_PORT, pkt |-> flow, backend |-> NoBackend]
           /\ UNCHANGED flow_id_to_backend_id

Client(flow) ==
  LET e    == ExpiredFlows
      bknd == flow_id_to_backend_id[F!get(e, flow)]
  IN  /\ IF F!has(e, flow)
         THEN IF B!has_idx(ExpiredBackends, bknd)
              THEN /\ flow_emap' = F!refresh_idx(e, F!get(e, flow), now)
                   /\ out' = [port |-> EXT_PORT, pkt |-> flow, backend |-> backends[bknd]]
                   /\ UNCHANGED flow_id_to_backend_id
              ELSE Assign(F!erase(e, flow), flow)
         ELSE Assign(e, flow)
      /\ backend_ip_emap' = ExpiredBackends
      /\ UNCHANGED backends

Heartbeat(port, ip) ==
  LET e == ExpiredBackends
  IN  /\ flow_emap' = ExpiredFlows
      /\ \/ /\ B!has(e, ip)
            /\ backend_ip_emap' = B!refresh_idx(e, B!get(e, ip), now)
            /\ UNCHANGED backends
         \/ /\ ~B!has(e, ip)
            /\ \E idx \in BackendIndexes \ DOMAIN e :
                 /\ backend_ip_emap' = B!add(e, ip, idx, now)
                 /\ backends' = [backends EXCEPT ![idx] = [ip |-> ip, nic |-> port]]
         \/ ~B!has(e, ip) /\ B!full(e) /\ backend_ip_emap' = e /\ UNCHANGED backends
      /\ out' = [port |-> port, pkt |-> ip, backend |-> NoBackend]
      /\ UNCHANGED flow_id_to_backend_id

Next == \/ Tick
        \/ /\ \/ \E port \in Nics \cup {EXT_PORT} : Mismatch(port)
              \/ \E flow \in Flows : Client(flow)
              \/ \E port \in Nics, ip \in Ips : Heartbeat(port, ip)
           /\ UNCHANGED now

Spec == Init /\ [][Next]_vars
=============================================================================
