----------------------------- MODULE BridgeSpec -----------------------------
(***************************************************************************)
(* The specification of the bridge (vigbridge/spec.py), which knows two    *)
(* ports.                                                                  *)
(***************************************************************************)
EXTENDS EMap

CONSTANTS Macs, EXP_TIME, MaxTime,
          stat_emap        \* static rules: <<destination, port>> -> port, or -2

VARIABLES dyn_emap, dyn_vals,
          out,             \* the frame received and the ports it was sent on
          now

vars == <<dyn_emap, dyn_vals, out, now>>

Ports == {0, 1}

NoFrame == [saddr |-> "none", daddr |-> "none"]

Init == /\ dyn_emap = Empty
        /\ dyn_vals \in [Indexes -> Ports]
        /\ out = [port |-> 0, frame |-> NoFrame, sent |-> {}]
        /\ now = 0

Tick == now < MaxTime /\ now' = now + 1 /\ UNCHANGED <<dyn_emap, dyn_vals, out>>

(* The table after the source of a frame has been learned or refreshed.    *)
Learn(saddr, port) ==
  LET e == expire_all(dyn_emap, now - EXP_TIME)
  IN  \/ /\ has(e, saddr)
         /\ dyn_emap' = refresh_idx(e, get(e, saddr), now)
         /\ UNCHANGED dyn_vals
      \/ /\ ~has(e, saddr)
         /\ \E idx \in Indexes \ DOMAIN e : /\ dyn_emap' = add(e, saddr, idx, now)
                                            /\ dyn_vals' = [dyn_vals EXCEPT ![idx] = port]
      \/ ~has(e, saddr) /\ full(e) /\ dyn_emap' = e /\ UNCHANGED dyn_vals

(* The ports a frame is sent on, by the static rules, the table learned or *)
(* else the broadcast.                                                     *)
SentOn(daddr, port, e, vals) ==
  LET static_key == <<daddr, port>>
  IN  IF static_key \in DOMAIN stat_emap
      THEN IF stat_emap[static_key] \in {-2, port} THEN {} ELSE {stat_emap[static_key]}
      ELSE IF has(e, daddr) THEN {vals[get(e, daddr)]} \ {port}
      ELSE {1 - port}

Receive(port, f) ==
  /\ Learn(f.saddr, port)
  /\ out' = [port |-> port, frame |-> f, sent |-> SentOn(f.daddr, port, dyn_emap', dyn_vals')]
  /\ UNCHANGED now

Next == \/ Tick
        \/ \E port \in Ports, f \in [saddr : Macs, daddr : Macs] : Receive(port, f)

Spec == Init /\ [][Next]_vars
=============================================================================
