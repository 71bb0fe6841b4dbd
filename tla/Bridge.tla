------------------------------- MODULE Bridge -------------------------------
(***************************************************************************)
(* The learning bridge (vigbridge/bridge_main.c): nf_process is one step.  *)
(* Static rules filter or direct the frames to a station that come from a  *)
(* device; the source of every frame is learned.                           *)
(***************************************************************************)
EXTENDS FlowState, FiniteSets

CONSTANTS Macs, Devices,
          StaticRules,     \* the static configuration: <<address, device>> -> device, or -2
          expiration_time,
          MaxTime          \* bound: the clock stops here

BridgeAssumption == /\ expiration_time \in Nat /\ MaxTime \in Nat /\ Devices \subseteq Nat
                    /\ StaticRules \in PartialFunctions(Macs \X Devices, Devices \cup {-2})

VARIABLES table,           \* dyn_map, dyn_keys and dyn_heap
          dyn_vals,        \* vector: index -> the device of the station
          st_map,
          out,             \* the frame and what nf_process returned
          heard,           \* history: station -> when it was heard, and where first
          now

vars == <<table, dyn_vals, st_map, out, heard, now>>

FLOOD_FRAME == 65535

NoFrame == [saddr |-> "none", daddr |-> "none"]

(* "at" is the time of the last frame of a station, "home" the device of   *)
(* its first since it was unknown.                                         *)
Unheard == [at |-> -1, home |-> -1]

Init == /\ table \in NewTables(Macs)
        /\ dyn_vals = [i \in Indexes |-> 0]
        /\ st_map = StaticRules
        /\ out = [device |-> 0, frame |-> NoFrame, dst_device |-> 0]
        /\ heard = [m \in Macs |-> Unheard]
        /\ now = 0

Tick == now < MaxTime /\ now' = now + 1 /\ UNCHANGED <<table, dyn_vals, st_map, out, heard>>

bridge_expire_entries(t) == Expire(t, now - expiration_time)

(* The entry of a known station not refreshed.                             *)
bridge_put_update_entry_stale(t, src, src_device) ==
  \/ src \in DOMAIN t.fm /\ table' = t /\ UNCHANGED dyn_vals
  \/ /\ src \notin DOMAIN t.fm
     /\ \E index \in FreeIndexes(t) :
          /\ table' = AllocateAt(t, src, index, now)
          /\ dyn_vals' = [dyn_vals EXCEPT ![index] = src_device]
  \/ src \notin DOMAIN t.fm /\ FreeIndexes(t) = {} /\ table' = t /\ UNCHANGED dyn_vals

(* The device of a known station is left as it was learned.                *)
bridge_put_update_entry(t, src, src_device) ==
  \/ src \in DOMAIN t.fm /\ table' = Rejuvenate(t, t.fm[src], now) /\ UNCHANGED dyn_vals
  \/ /\ src \notin DOMAIN t.fm
     /\ \E index \in FreeIndexes(t) :
          /\ table' = AllocateAt(t, src, index, now)
          /\ dyn_vals' = [dyn_vals EXCEPT ![index] = src_device]
  \/ src \notin DOMAIN t.fm /\ FreeIndexes(t) = {} /\ table' = t /\ UNCHANGED dyn_vals

(* The static rules not looked at.                                         *)
bridge_get_device_dynamic(t, vals, dst, src_device) ==
  IF dst \in DOMAIN t.fm THEN vals[t.fm[dst]] ELSE -1

bridge_get_device(t, vals, dst, src_device) ==
  IF <<dst, src_device>> \in DOMAIN st_map THEN st_map[<<dst, src_device>>]
  ELSE IF dst \in DOMAIN t.fm THEN vals[t.fm[dst]]
  ELSE -1

(* A station heard within the expiration time is known, if there was room. *)
Hear(src, src_device) ==
  LET Live(m) == heard[m].home # -1 /\ heard[m].at >= now - expiration_time
      room    == Cardinality({m \in Macs : Live(m)}) < Cardinality(Indexes)
  IN  heard' = [heard EXCEPT ![src] =
                  [at |-> now,
                   home |-> IF Live(src) THEN @.home ELSE IF room THEN src_device ELSE -1]]

nf_process(device, f) ==
  /\ bridge_put_update_entry(bridge_expire_entries(table), f.saddr, device)
  /\ LET forward_to == bridge_get_device(table', dyn_vals', f.daddr, device)
     IN  out' = [device |-> device, frame |-> f,
                 dst_device |-> CASE forward_to = -1 -> FLOOD_FRAME
                                  [] forward_to = -2 -> device
                                  [] OTHER -> forward_to]
  /\ Hear(f.saddr, device)
  /\ UNCHANGED <<st_map, now>>

Next == \/ Tick
        \/ \E device \in Devices, f \in [saddr : Macs, daddr : Macs] : nf_process(device, f)

Spec == Init /\ [][Next]_vars
-----------------------------------------------------------------------------
TypeOK == /\ table \in Tables(Macs, 0 .. now)
          /\ dyn_vals \in [Indexes -> Devices]
          /\ st_map = StaticRules
          /\ out.device \in Devices /\ out.dst_device \in Devices \cup {FLOOD_FRAME}
          /\ heard \in [Macs -> [at : -1 .. now, home : Devices \cup {-1}]]
          /\ now \in 0 .. MaxTime

(* Map, vector and double chain stay in step whatever frames come.         *)
Coherent == Coherence(table)

(* The table holds exactly the stations heard within the expiration time,  *)
(* each with the device of its first frame: seen through the history of    *)
(* the frames alone, the bridge forgets nobody early and nobody late, and  *)
(* a full table turns away only stations it does not know.                 *)
KnowsTheHeard ==
  LET t == Expire(table, now - expiration_time)
  IN  \A m \in Macs :
        /\ m \in DOMAIN t.fm <=> (heard[m].home # -1 /\ heard[m].at >= now - expiration_time)
        /\ m \in DOMAIN t.fm => dyn_vals[t.fm[m]] = heard[m].home

(* The bridge does what vigbridge/spec.py says, for two devices.           *)
S == INSTANCE BridgeSpec WITH
       EXP_TIME <- expiration_time, stat_emap <- StaticRules,
       dyn_emap <- AsEMap(table),
       out <- [port |-> out.device, frame |-> out.frame,
               sent |-> CASE out.dst_device = out.device -> {}
                          [] out.dst_device = FLOOD_FRAME -> Devices \ {out.device}
                          [] OTHER -> {out.dst_device}]
=============================================================================
