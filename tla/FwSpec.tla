------------------------------- MODULE FwSpec -------------------------------
(***************************************************************************)
(* The specification of the firewall (vigfw/spec.py).                      *)
(***************************************************************************)
EXTENDS EMap

CONSTANTS FlowIds, Lan, EXT_DEVICE, EXP_TIME, MaxTime

VARIABLES flow_emap, int_devices,
          out,             \* the packet received and where it was sent, if it was
          now

vars == <<flow_emap, int_devices, out, now>>

NoPacket == [src |-> "none"]

Dropped(device, p) == [device |-> device, dst |-> "none", pkt |-> p]

Sent(device, dst, p) == [device |-> device, dst |-> dst, pkt |-> p]

Init == /\ flow_emap = Empty
        /\ int_devices \in [Indexes -> Lan \cup {"none"}]
        /\ out = Dropped(EXT_DEVICE, NoPacket)
        /\ now = 0

Tick == now < MaxTime /\ now' = now + 1 /\ UNCHANGED <<flow_emap, int_devices, out>>

Mismatch(device) == /\ flow_emap' = expire_all(flow_emap, now - EXP_TIME)
                    /\ out' = Dropped(device, NoPacket)
                    /\ UNCHANGED int_devices

External(flow) ==
  LET e == expire_all(flow_emap, now - EXP_TIME)
      p == [src |-> flow.dst, dst |-> flow.src, prot |-> flow.prot]
  IN  /\ IF has(e, flow)
         THEN /\ flow_emap' = refresh_idx(e, get(e, flow), now)
              /\ out' = Sent(EXT_DEVICE, int_devices[get(e, flow)], p)
         ELSE flow_emap' = e /\ out' = Dropped(EXT_DEVICE, p)
      /\ UNCHANGED int_devices

Internal(device, flow) ==
  LET e == expire_all(flow_emap, now - EXP_TIME)
  IN  /\ \/ /\ has(e, flow)
            /\ flow_emap' = refresh_idx(e, get(e, flow), now)
            /\ UNCHANGED int_devices
         \/ ~has(e, flow) /\ full(e) /\ flow_emap' = e /\ UNCHANGED int_devices
         \/ /\ ~has(e, flow)
            /\ \E idx \in Indexes \ DOMAIN e :
                 /\ flow_emap' = add(e, flow, idx, now)
                 /\ int_devices' = [int_devices EXCEPT ![idx] = device]
      /\ out' = Sent(device, EXT_DEVICE, flow)

Next == \/ Tick
        \/ /\ \/ \E device \in Lan \cup {EXT_DEVICE} : Mismatch(device)
              \/ \E flow \in FlowIds : External(flow) \/ \E device \in Lan : Internal(device, flow)
           /\ UNCHANGED now

Spec == Init /\ [][Next]_vars
=============================================================================
