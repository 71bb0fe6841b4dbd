-------------------------------- MODULE Nfs --------------------------------
(***************************************************************************)
(* The network functions that forward between hosts, each with the         *)
(* containers it keeps: a binary is built for one of them (Makefile, NF),  *)
(* so a behaviour picks one and has no other step.  The module extends the *)
(* firewall; the others share variables of their own, and those that the   *)
(* one picked does not have are unused.                                    *)
(* "cht" is nf_init of the balancer, for several tables; "poliupfw" is     *)
(* "polifw" policing what goes out.                                        *)
(***************************************************************************)
EXTENDS Fw, FiniteSets, TLC

CONSTANTS h1, h2, lan,                   \* internal endpoints and their device
          m1, m2, m3,                    \* the bridge: stations
          f1, f2, ip1, ip2, ip3          \* the balancer: flows and backends

VARIABLES nf, clock, answer, state,
          dyn_vals, st_map, heard,
          flows, actives, flow_id_to_backend_id, backends, beat, served,
          devices, gone, flow_table, dyn_table, left, credit, last, pauses,
          i, j, next, cht

bridgeVars == <<dyn_vals, st_map, heard>>
lbVars     == <<flows, actives, flow_id_to_backend_id, backends, beat, served>>
poliVars   == <<devices, gone, flow_table, dyn_table, left, credit, last, pauses>>
chtVars    == <<i, j, next, cht>>

otherVars == <<clock, answer, state, bridgeVars, lbVars, poliVars, chtVars>>

allVars == <<nf, vars, otherVars>>

(* Two internal endpoints, two peers and two protocols; two ports.         *)
N == INSTANCE Nat WITH
       Hosts <- {h1, h2}, Lan <- {lan}, PortCount <- 2, start_port <- 0, max_flows <- 2,
       expiration_time <- 1, MaxTime <- 2,
       table <- state, out <- answer, now <- clock

(* Three stations on two devices and room for two.  Frames to m1 from      *)
(* device 0 are filtered, those to m2 from device 1 directed to device 0.  *)
B == INSTANCE Bridge WITH
       Macs <- {m1, m2, m3}, Devices <- {0, 1},
       StaticRules <- [k \in {<<m1, 0>>, <<m2, 1>>} |-> IF k = <<m1, 0>> THEN -2 ELSE 0],
       expiration_time <- 1, MaxTime <- 2,
       table <- state, out <- answer, now <- clock

(* Two flows that prefer the two backends in opposite orders; room for two *)
(* of three backends, and for one flow.                                    *)
L == INSTANCE Lb WITH
       Flows <- {f1, f2}, Ips <- {ip1, ip2, ip3}, Nics <- {0},
       FlowIndexes <- {0}, BackendIndexes <- {0, 1},
       cht <- [f \in {f1, f2} |-> IF f = f1 THEN <<0, 1>> ELSE <<1, 0>>],
       flow_expiration_time <- 1, backend_expiration_time <- 1, MaxTime <- 2,
       out <- answer, now <- clock

(* The firewalls with a policer: one policed host, or one host that sends  *)
(* to two policed peers; one flow and one bucket at a time.  The burst is  *)
(* not of whole seconds, and a packet of 6 bytes never passes.             *)
F == INSTANCE PoliFw WITH
       Sizes <- {4, 6}, lan_device <- lan,
       Others <- {}, policed_device <- wan_device, expiration_time <- 1, max_flows <- 1,
       dyn_capacity <- 1, config_rate <- 3, config_burst <- 5, SECOND <- 1, MaxTime <- 3,
       int_devices <- devices, passed <- gone, out <- answer, now <- clock

U == INSTANCE PoliFw WITH
       Sizes <- {4, 6}, lan_device <- lan,
       Others <- {}, policed_device <- lan, expiration_time <- 1, max_flows <- 1,
       dyn_capacity <- 1, config_rate <- 3, config_burst <- 5, SECOND <- 1, MaxTime <- 3,
       int_devices <- devices, passed <- gone, out <- answer, now <- clock

C == INSTANCE Cht WITH
       Shapes <- {<<2, 1>>, <<3, 2>>, <<5, 2>>, <<5, 4>>, <<7, 3>>, <<7, 6>>, <<11, 5>>,
                  <<13, 7>>, <<31, 4>>},
       table <- state

ASSUME Assumptions == /\ FwAssumption /\ N!NatAssumption /\ B!BridgeAssumption
                      /\ L!LbAssumption /\ F!PoliFwAssumption /\ U!PoliFwAssumption
                      /\ C!ChtAssumption

NoBridge == dyn_vals = "unused" /\ st_map = "unused" /\ heard = "unused"
NoLb     == /\ flows = "unused" /\ actives = "unused" /\ flow_id_to_backend_id = "unused"
            /\ backends = "unused" /\ beat = "unused" /\ served = "unused"
NoPoli   == /\ devices = "unused" /\ gone = "unused" /\ flow_table = "unused"
            /\ dyn_table = "unused" /\ left = "unused" /\ credit = "unused"
            /\ last = "unused" /\ pauses = "unused"
NoCht    == i = "unused" /\ j = "unused" /\ next = "unused" /\ cht = "unused"

OnlyPoli == state = "unused" /\ st_map = "unused" /\ heard = "unused" /\ NoLb /\ NoCht
OnlyCht  == clock = 0 /\ answer = "unused" /\ NoBridge /\ NoLb /\ NoPoli
NoOther  == OnlyCht /\ state = "unused" /\ NoCht

InitOther == \/ nf = "nat" /\ N!Init /\ NoBridge /\ NoLb /\ NoPoli /\ NoCht
             \/ nf = "bridge" /\ B!Init /\ NoLb /\ NoPoli /\ NoCht
             \/ nf = "lb" /\ L!Init /\ state = "unused" /\ NoBridge /\ NoPoli /\ NoCht
             \/ nf = "polifw" /\ F!Init /\ OnlyPoli
             \/ nf = "poliupfw" /\ U!Init /\ OnlyPoli
             \/ nf = "cht" /\ C!Init /\ OnlyCht

(* The firewall at rest, with no flow in its vectors.                      *)
Rest == /\ table \in NewTables({NoPacket})
        /\ int_devices = [k \in Indexes |-> "none"]
        /\ out = [device |-> wan_device, dst_device |-> wan_device, pkt |-> NoPacket]
        /\ passed = [f \in FlowIds |-> -1]
        /\ now = 0

InitAny == (nf = "fw" /\ Init /\ NoOther) \/ (InitOther /\ Rest)

NextOther ==
  \/ nf = "nat" /\ N!Next /\ UNCHANGED <<bridgeVars, lbVars, poliVars, chtVars>>
  \/ nf = "bridge" /\ B!Next /\ UNCHANGED <<lbVars, poliVars, chtVars>>
  \/ nf = "lb" /\ L!Next /\ UNCHANGED <<state, bridgeVars, poliVars, chtVars>>
  \/ nf = "polifw" /\ F!Next /\ UNCHANGED <<state, st_map, heard, lbVars, chtVars>>
  \/ nf = "poliupfw" /\ U!Next /\ UNCHANGED <<state, st_map, heard, lbVars, chtVars>>
  \/ nf = "cht" /\ C!Next /\ UNCHANGED <<clock, answer, bridgeVars, lbVars, poliVars>>

NextAny == /\ \/ nf = "fw" /\ Next /\ UNCHANGED otherVars
              \/ NextOther /\ UNCHANGED vars
           /\ UNCHANGED nf

NfsSpec == InitAny /\ [][NextAny]_allVars

(* The protocols are only compared with each other, and so are the peers.  *)
Symmetry == Permutations(Prots) \cup Permutations(Peers)
-----------------------------------------------------------------------------
(* NAT: map, vector and double chain of the flow manager stay in step, and *)
(* the answer to a packet translated by nf_process is delivered to the     *)
(* endpoint that sent it, for as long as the flow may live.                *)
NatRoundTrip == nf = "nat" => N!TypeOK /\ N!Coherent /\ N!RoundTrip

(* NAT: no packet of another flow takes over or evicts the external port   *)
(* of a flow used within the expiration time.                              *)
NatPortKept == [][nf = "nat" => N!PortKept]_allVars

(* Bridge: the containers of bridge_put_update_entry stay in step and hold *)
(* exactly the stations heard within the expiration time, each with the    *)
(* device of its first frame.                                              *)
BridgeKnowsTheHeard == nf = "bridge" => B!TypeOK /\ B!Coherent /\ B!KnowsTheHeard

(* Balancer: lb_get_backend leaves a flow with its backend for as long as  *)
(* both are remembered, however the indexes of both tables are reused.     *)
LbSticky == [][nf = "lb" => L!Sticky]_allVars

(* Balancer: a client is served whenever any backend is registered, with   *)
(* the table of flows full too, and only by a backend heard of within the  *)
(* expiration time, although flows keep the index of their backend; and    *)
(* the tables of both stay in step, when a flow is erased because its      *)
(* backend is gone too.                                                    *)
LbServedByLive == /\ [](nf = "lb" => L!TypeOK /\ L!Coherent)
                  /\ [][nf = "lb" => L!OnlyToLive /\ L!Served]_allVars

(* Firewall, NAT, bridge and balancer: nf_process does what the spec.py of *)
(* each says, with the same packets.                                       *)
EverySpecPy ==
  /\ nf = "fw" => S!Init
  /\ nf = "nat" => N!S!Init
  /\ nf = "bridge" => B!S!Init
  /\ nf = "lb" => L!S!Init
  /\ [][/\ nf = "fw" => [S!Next]_(S!vars)
        /\ nf = "nat" => [N!S!Next]_(N!S!vars)
        /\ nf = "bridge" => [B!S!Next]_(B!S!vars)
        /\ nf = "lb" => [L!S!Next]_(L!S!vars)]_allVars

(* Firewall with a policer: each of the two holds although the other may   *)
(* drop what it let pass.  The tables of both stay in step, and policed    *)
(* traffic stays within the rate and the burst, as in module Policer.  A   *)
(* packet gets in only when the firewall passed its flow, either way,      *)
(* within the expiration time; in vigpolifw a packet of the flow has got   *)
(* out, in vigpoliupfw the policer may have dropped every one.             *)
PoliFwBothHold ==
  /\ [](/\ nf = "polifw" => F!BothKept
        /\ nf = "poliupfw" => U!BothKept)
  /\ [][/\ nf = "polifw" => F!OnlyLiveFlowsEnter
        /\ nf = "poliupfw" => U!OnlyLiveFlowsEnter]_allVars

(* Hash table: cht_fill_cht deals no bucket more slots than it has, so no  *)
(* write leaves the vector, and once filled every bucket lists every       *)
(* backend (valid_cht of cht.h) and every backend is the first choice of   *)
(* some bucket.  Then a hash finds a backend whenever one is alive, and    *)
(* the death of a backend moves only the hashes it served.                 *)
ChtSpreads ==
  nf = "cht" => /\ C!TypeOK /\ C!RowsFit /\ C!RowsArePermutations /\ C!NoneStarved
                /\ C!FindsAny /\ C!DisruptsOnlyItsOwn

=============================================================================
