------------------------------ MODULE Watchers ------------------------------
(***************************************************************************)
(* The network functions that watch or limit traffic, each with the        *)
(* containers it keeps; as in module Nfs a behaviour picks one of them.    *)
(* The module extends the policer; the others share variables of their     *)
(* own, and those that the one picked does not have are unused.            *)
(* "policer_short" is the policer with a burst below the rate, as the      *)
(* default configuration has it; "psd_one" is the port scan detector "psd" *)
(* with room for one source, and "psd_reuse" with room for two, both with  *)
(* sources that expire.                                                    *)
(***************************************************************************)
EXTENDS Policer, FiniteSets, TLC

CONSTANT NoPort

VARIABLES nf, clock, answer, flows, recent,
          vals, credits, gaps, cuts,
          srcs, counter, ports_key, ports, touched, stale,
          clients, keys, buckets, allocators, fwd, counted,
          tables, subnet_buckets, hit

bucketVars == <<credits, gaps, cuts>>
psdVars    == <<srcs, counter, ports_key, ports, touched, stale>>
clVars     == <<clients, keys, buckets, allocators, fwd, counted>>
hhhVars    == <<tables, subnet_buckets, hit>>

otherVars == <<clock, answer, flows, recent, vals, bucketVars, psdVars, clVars, hhhVars>>

allVars == <<nf, vars, otherVars>>

TS == INSTANCE Policer WITH
       Sizes <- {1, 2, 3}, rate <- 3, burst <- 2, VIGOR_TIME_SECONDS_MULTIPLIER <- 2,
       MaxTime <- 4,
       table <- flows, dyn_vals <- vals, out <- answer, credit <- credits, last <- recent,
       pauses <- gaps, rounded <- cuts, now <- clock

(* Two sources and three ports, whose hashes collide in a small table.     *)
PortHash == [k \in ({"a", "b"} \X {0, 1, 2}) \cup {NoPort} |->
               IF k = NoPort THEN 0 ELSE 2 * k[2] + (IF k[1] = "a" THEN 0 ELSE 1)]

(* Sources that never expire.                                              *)
P == INSTANCE Psd WITH
       Sources <- {"a", "b"}, Ports <- {0, 1, 2}, capacity <- 2, max_ports <- 2,
       expiration_time <- 1, MaxTime <- 1, out <- answer, now <- clock

(* An index that is used again: only index 0, whose cleanup is in range.   *)
P1 == INSTANCE Psd WITH
       Sources <- {"a", "b"}, Ports <- {0, 1, 2}, capacity <- 1, max_ports <- 2,
       expiration_time <- 1, MaxTime <- 4, out <- answer, now <- clock

(* Two indexes that are used again; the cleanup of index 1 erases nothing. *)
PR == INSTANCE Psd WITH
       Sources <- {"a", "b"}, Ports <- {0, 1, 2}, capacity <- 2, max_ports <- 1,
       expiration_time <- 1, MaxTime <- 3, out <- answer, now <- clock

(* Rows of two ports: the cleanup of index 1 reaches into the other row.   *)
P2 == INSTANCE Psd WITH
       Sources <- {"a", "b"}, Ports <- {0, 1, 2}, capacity <- 2, max_ports <- 2,
       expiration_time <- 1, MaxTime <- 4, out <- answer, now <- clock

(* Three clients, two flows.  In the first row a and b share a hash; in    *)
(* the second, b and c share the one that c has in the first.              *)
SketchHash == [r \in {0, 1} |-> [c \in {"a", "b", "c"} |->
                 IF r = 0 THEN IF c = "c" THEN 1 ELSE 0
                 ELSE IF c = "a" THEN 2 ELSE 1]]

K == INSTANCE Cl WITH
       Clients <- {"a", "b", "c"}, Ports <- {1}, max_flows <- 2, capacity <- 3,
       threshold <- 0, Garbage <- {0, 9}, flow_expiration_time <- 1,
       client_expiration_time <- 2, MaxTime <- 4,
       table <- flows, last <- recent, now <- clock

(* Four flows of every client, and at most one to be let in.               *)
K1 == INSTANCE Cl WITH
       Clients <- {"a", "b", "c"}, Ports <- {1, 2, 3, 4}, max_flows <- 4, capacity <- 3,
       threshold <- 1, Garbage <- {0}, flow_expiration_time <- 1,
       client_expiration_time <- 2, MaxTime <- 1,
       table <- flows, last <- recent, now <- clock

(* Three addresses of two bits in two subnets, and one bucket for every    *)
(* length.  The burst is 14 half bytes, 2 ticks and 4 fifths at 5 half     *)
(* bytes per tick: a bucket is full after 2 ticks and forgotten after 3.   *)
H == INSTANCE Hhh WITH
       Bits <- 2, Sources <- {0, 1, 2}, Prefixes <- {1, 2}, Sizes <- {2, 6}, capacity <- 1,
       link_capacity <- 4000, threshold <- 1, burst <- 7, SECOND <- 2, MaxTime <- 4,
       credit <- credits, last <- recent, pauses <- gaps, rounded <- cuts, now <- clock

ASSUME Assumptions == /\ PolicerAssumption /\ TS!PolicerAssumption
                      /\ P!PsdAssumption /\ P1!PsdAssumption
                      /\ PR!PsdAssumption /\ P2!PsdAssumption
                      /\ K!ClAssumption /\ K1!ClAssumption /\ H!HhhAssumption

NoBuckets == credits = "unused" /\ gaps = "unused" /\ cuts = "unused"
NoPsd     == /\ srcs = "unused" /\ counter = "unused" /\ ports_key = "unused"
             /\ ports = "unused" /\ touched = "unused" /\ stale = "unused"
NoCl      == /\ clients = "unused" /\ keys = "unused" /\ buckets = "unused"
             /\ allocators = "unused" /\ fwd = "unused" /\ counted = "unused"
NoHhh     == tables = "unused" /\ subnet_buckets = "unused" /\ hit = "unused"

OnlyShort == NoPsd /\ NoCl /\ NoHhh
OnlyPsd   == /\ flows = "unused" /\ recent = "unused" /\ vals = "unused"
             /\ NoBuckets /\ NoCl /\ NoHhh
OnlyCl    == answer = "unused" /\ vals = "unused" /\ NoBuckets /\ NoPsd /\ NoHhh
OnlyHhh   == answer = "unused" /\ flows = "unused" /\ vals = "unused" /\ NoPsd /\ NoCl
NoOther   == clock = 0 /\ OnlyPsd /\ answer = "unused" /\ NoPsd

InitOther == \/ nf = "policer" /\ NoOther
             \/ nf = "policer_short" /\ TS!Init /\ OnlyShort
             \/ nf = "psd" /\ P!Init /\ OnlyPsd
             \/ nf = "psd_one" /\ P1!Init /\ OnlyPsd
             \/ nf = "psd_reuse" /\ PR!Init /\ OnlyPsd
             \/ nf = "cl" /\ K!Init /\ OnlyCl
             \/ nf = "hhh" /\ H!Init /\ OnlyHhh

InitAny == Init /\ InitOther

NextShort == nf = "policer_short" /\ TS!Next /\ UNCHANGED <<psdVars, clVars, hhhVars>>

NotPsd == <<flows, recent, vals, bucketVars, clVars, hhhVars>>

NextPsd == /\ \/ nf = "psd" /\ P!Next
              \/ nf = "psd_one" /\ P1!Next
              \/ nf = "psd_reuse" /\ PR!Next
           /\ UNCHANGED NotPsd

NotCl == <<answer, vals, bucketVars, psdVars, hhhVars>>

NextCl == nf = "cl" /\ K!Next /\ UNCHANGED NotCl

NextHhh == nf = "hhh" /\ H!Next /\ UNCHANGED <<answer, flows, vals, psdVars, clVars>>

NextOther == NextShort \/ NextPsd \/ NextCl \/ NextHhh

NextAny == /\ \/ nf = "policer" /\ Next /\ UNCHANGED otherVars
              \/ NextOther /\ UNCHANGED vars
           /\ UNCHANGED nf

WatchersSpec == InitAny /\ [][NextAny]_allVars

(* The detector alone, with two rows of two ports that are used again.     *)
NextAlarm == P2!Next /\ UNCHANGED <<nf, vars, NotPsd>>

AlarmSpec == nf = "psd_two" /\ Init /\ P2!Init /\ OnlyPsd /\ [][NextAlarm]_allVars

(* The limiter alone, with room for the flows of one client.               *)
NextLimit == K1!Next /\ UNCHANGED <<nf, vars, NotCl>>

LimitSpec == nf = "cl_four" /\ Init /\ K1!Init /\ OnlyCl /\ [][NextLimit]_allVars

(* The free list of the chain starts in the order of the indexes, and two  *)
(* indexes never change places in it while no source expires.              *)
LeastIndexFirst ==
  \A f \in DOMAIN srcs'.heap \ DOMAIN srcs.heap : \A g \in {0, 1} \ DOMAIN srcs'.heap : f < g

(* The destinations are only compared with each other.                     *)
Symmetry == Permutations(Destinations)
-----------------------------------------------------------------------------
(* The containers stay in step, and what the code asserts of a bucket of   *)
(* the policer holds.  The map of the detector holds exactly the ports of  *)
(* the rows in use, whatever packets come, as long as no source expires or *)
(* only index 0 is used again; and the hashes of the limiter are those of  *)
(* the allocated counters.                                                 *)
Coherent == /\ nf = "policer" => TypeOK /\ Coherence(table)
            /\ nf = "policer_short" => TS!TypeOK /\ TS!Coherence(flows)
            /\ nf = "psd" => P!TypeOK /\ P!PortsExact
            /\ nf = "psd_one" => P1!TypeOK /\ P1!PortsExact
            /\ nf = "psd_reuse" => PR!TypeOK
            /\ nf = "cl" => K!Coherent

(* Policer, with a burst below the rate: entries are forgotten at the next *)
(* tick (policer_expire_entries), and what policer_check_tb lets through   *)
(* is still no more than rate, burst and pauses explain; and it drops only *)
(* the excess and what rounding takes, or when the table is full.          *)
ShortBurst == /\ [](nf = "policer_short" => TS!Conforms)
              /\ [][nf = "policer_short" => TS!DropsOnlyExcess]_allVars

(* Detector: a source that stays tracked gets no more than max_ports ports *)
(* through (psd_main.c, the "maximum allowed number of touched ports").    *)
(* When an index other than 0 is used again there may be more: the ports   *)
(* of an earlier tracking that the cleanup left behind.                    *)
PsdScanStopped == /\ nf = "psd" => P!ScanStopped
                  /\ nf = "psd_one" => P1!ScanStopped
                  /\ nf = "psd_reuse" => PR!ScanStopped

(* Detector: nothing another source does, and nothing left of an earlier   *)
(* owner of the index, makes detect_port_scanning report a source, where   *)
(* no source expires, only index 0 is used again or a row has one port.    *)
(* Otherwise a cleanup reaches into the row of another (NoFalseAlarms).    *)
PsdNoFalseAlarm == [][/\ nf = "psd" => P!NoFalseAlarm
                      /\ nf = "psd_one" => P1!NoFalseAlarm
                      /\ nf = "psd_reuse" => PR!NoFalseAlarm]_allVars

(* psd_main.c: "Return true if a port scanning is detected."  A packet is  *)
(* dropped only if its source has got max_ports other ports through while  *)
(* it was tracked.                                                         *)
NoFalseAlarms == [][nf = "psd_two" => P2!NoFalseAlarm]_allVars

(* Limiter: for clients whose hashes the rows do not mix up, limit_clients *)
(* lets in exactly max_clients + 2 flows of a hash in a window, the time   *)
(* until its clients are all quiet for the expiration time, whatever       *)
(* malloc left in the counters.                                            *)
ClLimitExact == [][nf = "cl" => K!LimitExact]_allVars

(* cl_config.h: "Maximum allowed number of clients".  Of the flows of one  *)
(* hash in a window, which are what limit_clients counts, no more than     *)
(* max_clients are let in.                                                 *)
ClWithinLimit == nf = "cl_four" => K1!WithinLimit

(* Heavy hitters: every subnet that exceeds the rate and the burst by more *)
(* than Unearned for every pause is captured, although quiet subnets are   *)
(* forgotten, and only a subnet that exceeds them is ever reported, up to  *)
(* what cutting the refills down to bytes takes.                           *)
HhhExact == [](nf = "hhh" => H!HittersCaptured) /\ [][nf = "hhh" => H!OnlyHittersReported]_allVars
=============================================================================
