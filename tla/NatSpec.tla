------------------------------ MODULE NatSpec ------------------------------
(***************************************************************************)
(* The specification of the NAT (vignat/spec.py), a formalization of       *)
(* RFC 3022 over an expiring map of flows.                                 *)
(***************************************************************************)
EXTENDS EMap

CONSTANTS FlowIds, Packets, Lan, EXT_PORT, start_port, EXP_TIME, MaxTime

VARIABLES flow_emap,
          out,             \* the packet received, and the one sent if any
          now

vars == <<flow_emap, out, now>>

NoPacket == [src |-> "none"]

Dropped(device, p) == [device |-> device, received |-> p, dst |-> "none"]

Sent(device, p, dst, q) == [device |-> device, received |-> p, dst |-> dst, pkt |-> q]

Init == flow_emap = Empty /\ out = Dropped(EXT_PORT, NoPacket) /\ now = 0

Tick == now < MaxTime /\ now' = now + 1 /\ UNCHANGED <<flow_emap, out>>

Mismatch(device) == /\ flow_emap' = expire_all(flow_emap, now - EXP_TIME)
                    /\ out' = Dropped(device, NoPacket)

External(p) ==
  LET e    == expire_all(flow_emap, now - EXP_TIME)
      idx  == p.dst_port - start_port
      flow == get_key(e, idx)
  IN  IF has_idx(e, idx)
      THEN /\ flow_emap' = refresh_idx(e, idx, now)
           /\ out' = IF flow.dst # p.src \/ flow.prot # p.prot THEN Dropped(EXT_PORT, p)
                     ELSE Sent(EXT_PORT, p, flow.idev,
                               [src |-> flow.dst, dst |-> flow.src, prot |-> flow.prot])
      ELSE flow_emap' = e /\ out' = Dropped(EXT_PORT, p)

Internal(device, p) ==
  LET e    == expire_all(flow_emap, now - EXP_TIME)
      flow == [src |-> p.src, dst |-> p.dst, prot |-> p.prot, idev |-> device]
      Translated(idx) ==
        Sent(device, p, EXT_PORT, [src_port |-> idx + start_port, dst |-> p.dst, prot |-> p.prot])
  IN  \/ /\ has(e, flow)
         /\ flow_emap' = refresh_idx(e, get(e, flow), now)
         /\ out' = Translated(get(e, flow))
      \/ ~has(e, flow) /\ full(e) /\ flow_emap' = e /\ out' = Dropped(device, p)
      \/ /\ ~has(e, flow)
         /\ \E idx \in Indexes \ DOMAIN e : /\ flow_emap' = add(e, flow, idx, now)
                                            /\ out' = Translated(idx)

Next == \/ Tick
        \/ /\ \/ \E device \in Lan \cup {EXT_PORT} : Mismatch(device)
              \/ \E p \in Packets.external : External(p)
              \/ \E device \in Lan, p \in Packets.internal : Internal(device, p)
           /\ UNCHANGED now

Spec == Init /\ [][Next]_vars
=============================================================================
