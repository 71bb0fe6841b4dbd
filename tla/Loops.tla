------------------------------- MODULE Loops -------------------------------
(***************************************************************************)
(* The packet loops, one per build: "poll" is nf.c with batches of one on  *)
(* three devices that never refuse a packet; "drops" the same with queues  *)
(* that fill up, for a function that does not flood, VIGOR_ALLOW_DROPS     *)
(* set; "aborts" without it; "batch" the loop of the parallel runtimes,    *)
(* whose queue never fills up; "tm" what three lcores of the transactional *)
(* runtime do around nf_process.  "start" is what MAIN of nf.c does before *)
(* its loop, for every network function, and "launch" what MAIN of the     *)
(* parallel runtimes does, with the counting programs they were tried on.  *)
(* "rss" builds the keys that spread packets over the lcores.              *)
(***************************************************************************)
EXTENDS Integers, Sequences, FiniteSets

CONSTANTS b1, b2, b3, FLOOD_FRAME

Buffers == {b1, b2, b3}

VARIABLES build, refcnt, tx, pc, VIGOR_DEVICE,
          mbuf, dst_device, device, total_sent,
          mbufs, n, mbufs_to_send,
          tid, budget, sgl, counter, seen, early,
          nf, config, given, mishap,
          prog, nb_devices, main, pools, devices, queue_id, lock, counted, overlap,
          accesses, call_paths_constraints, trimmed_accesses, libvig_access_constraints,
          unique_devices, unique_packet_fields, rss_options, constraints, rss_keys, next

bufferVars == <<refcnt, tx, VIGOR_DEVICE>>
pollVars  == <<mbuf, dst_device, device, total_sent>>
batchVars == <<mbufs, n, mbufs_to_send>>
htmVars   == <<tid, budget, sgl, counter, seen, early>>
startVars == <<nf, config, given, mishap>>
launchVars == <<prog, nb_devices, main, pools, devices, queue_id, lock, counted, overlap>>
rssVars == <<accesses, call_paths_constraints, trimmed_accesses, libvig_access_constraints,
             unique_devices, unique_packet_fields, rss_options, constraints, rss_keys, next>>

vars == <<build, pc, bufferVars, pollVars, batchVars, htmVars, startVars, launchVars, rssVars>>

P == INSTANCE PacketLoop WITH
       Devices <- 0 .. 2, TX_QUEUE_SIZE <- 3, Answers <- {0, 1, 2, FLOOD_FRAME},
       VIGOR_ALLOW_DROPS <- FALSE

D == INSTANCE PacketLoop WITH
       Devices <- 0 .. 2, TX_QUEUE_SIZE <- 1, Answers <- 0 .. 2, VIGOR_ALLOW_DROPS <- TRUE

A == INSTANCE PacketLoop WITH
       Devices <- 0 .. 2, TX_QUEUE_SIZE <- 1, Answers <- 0 .. 2, VIGOR_ALLOW_DROPS <- FALSE

B == INSTANCE BatchLoop WITH
       Devices <- 0 .. 1, TX_QUEUE_SIZE <- 3, Answers <- {0, 1, FLOOD_FRAME},
       VIGOR_BATCH_SIZE <- 3

T == INSTANCE Htm WITH Lcores <- 0 .. 2, Master <- 0, HTM_SGL_INIT_BUDGET <- 1, Wrap <- 2

(* Three options, as many as the balancer cannot do without; numbers that  *)
(* are negative, zero, no power of two, one, and too wide for 16 bits.     *)
S == INSTANCE Startup WITH
       nb_devices <- 2, Arguments <- {-1, 0, 3, 4, 65536}, MaxOptions <- 3

(* Lcores whose numbers are not those of their queues.                     *)
L == INSTANCE Launch WITH Lcores <- {0, 2}, Master <- 0, DeviceCounts <- {1, 2}, Wrap <- 3

R == INSTANCE RssConfig WITH LogKinds <- {"lookups", "indexes"}, Values <- {0, 1}

ASSUME Assumptions == /\ P!PacketLoopAssumption /\ D!PacketLoopAssumption
                      /\ A!PacketLoopAssumption /\ B!BatchLoopAssumption
                      /\ T!HtmAssumption /\ S!StartupAssumption
                      /\ L!LaunchAssumption /\ R!RssAssumption

NoBatch == mbufs = <<>> /\ n = 0 /\ mbufs_to_send = <<>>

NoPoll == mbuf = "none" /\ dst_device = 0 /\ device = 0 /\ total_sent = 0

NoHtm == /\ tid = "unused" /\ budget = "unused" /\ sgl = "unused" /\ counter = "unused"
         /\ seen = "unused" /\ early = "unused"

NoStart == nf = "unused" /\ config = "unused" /\ given = "unused" /\ mishap = "unused"

NoLaunch == /\ prog = "unused" /\ nb_devices = "unused" /\ main = "unused" /\ pools = "unused"
            /\ devices = "unused" /\ queue_id = "unused" /\ lock = "unused"
            /\ counted = "unused" /\ overlap = "unused"

NoRss == /\ accesses = "unused" /\ call_paths_constraints = "unused"
         /\ trimmed_accesses = "unused" /\ libvig_access_constraints = "unused"
         /\ unique_devices = "unused" /\ unique_packet_fields = "unused"
         /\ rss_options = "unused" /\ constraints = "unused" /\ rss_keys = "unused"
         /\ next = "unused"

NoBuffers == refcnt = [b \in Buffers |-> 0] /\ tx = <<>> /\ VIGOR_DEVICE = 0

Init == \/ /\ \/ build = "poll" /\ P!Init /\ NoBatch /\ NoHtm /\ NoStart /\ NoLaunch
              \/ build = "drops" /\ D!Init /\ NoBatch /\ NoHtm /\ NoStart /\ NoLaunch
              \/ build = "aborts" /\ A!Init /\ NoBatch /\ NoHtm /\ NoStart /\ NoLaunch
              \/ build = "batch" /\ B!Init /\ NoPoll /\ NoHtm /\ NoStart /\ NoLaunch
              \/ build = "tm" /\ T!Init /\ NoBuffers /\ NoPoll /\ NoBatch /\ NoStart /\ NoLaunch
              \/ build = "start" /\ S!Init /\ NoBuffers /\ NoPoll /\ NoBatch /\ NoHtm /\ NoLaunch
              \/ /\ build = "launch" /\ L!Init /\ NoBuffers /\ NoPoll /\ NoBatch /\ NoStart
                 /\ tid = "unused" /\ budget = "unused" /\ sgl = "unused" /\ early = "unused"
           /\ NoRss
        \/ /\ build = "rss" /\ R!Init /\ NoBuffers /\ NoPoll /\ NoBatch /\ NoHtm /\ NoStart
           /\ NoLaunch

(* A packet no device takes ends a loop built without VIGOR_ALLOW_DROPS.   *)
Aborted == build = "aborts" /\ pc = "abort" /\ UNCHANGED vars

Worker == /\ \/ build = "poll" /\ P!Worker /\ UNCHANGED batchVars
             \/ build = "drops" /\ D!Worker /\ UNCHANGED batchVars
             \/ build = "aborts" /\ A!Worker /\ UNCHANGED batchVars
             \/ build = "batch" /\ B!Worker /\ UNCHANGED pollVars
          /\ UNCHANGED <<build, htmVars, startVars, launchVars, rssVars>>

Hardware(d) ==
  /\ d \in DOMAIN tx
  /\ \/ build # "batch" /\ P!Hardware(d) /\ UNCHANGED batchVars
     \/ build = "batch" /\ B!Hardware(d) /\ UNCHANGED pollVars
  /\ UNCHANGED <<build, htmVars, startVars, launchVars, rssVars>>

Lcore(l) == /\ build = "tm" /\ T!Lcore(l)
            /\ UNCHANGED <<build, bufferVars, pollVars, batchVars, startVars, launchVars, rssVars>>

Abort(l) == /\ build = "tm" /\ T!Abort(l)
            /\ UNCHANGED <<build, bufferVars, pollVars, batchVars, startVars, launchVars, rssVars>>

Start == /\ build = "start" /\ S!Next
         /\ UNCHANGED <<build, bufferVars, mbuf, dst_device, total_sent, batchVars, htmVars,
                         launchVars, rssVars>>

Launch == /\ build = "launch" /\ L!Next
          /\ UNCHANGED <<build, bufferVars, pollVars, batchVars, startVars, tid, budget, sgl, early,
                          rssVars>>

Rss == /\ build = "rss" /\ R!Next
       /\ UNCHANGED <<build, bufferVars, pollVars, batchVars, htmVars, startVars, launchVars>>

Next == \/ Start \/ Launch \/ Rss \/ Worker \/ (\E d \in 0 .. 2 : Hardware(d)) \/ Aborted
        \/ \E l \in 0 .. 2 : Lcore(l) \/ Abort(l)

(* The loop runs on unless it aborts, a device sends what it was given,    *)
(* and lcores run; when a transaction aborts is up to the hardware.        *)
FairSpec == /\ Init /\ [][Next]_vars /\ WF_vars(Worker)
            /\ \A d \in 0 .. 2 : WF_vars(Hardware(d)) /\ WF_vars(Lcore(d))
-----------------------------------------------------------------------------
TypeOK == /\ build = "poll" => P!TypeOK
          /\ build = "drops" => D!TypeOK
          /\ build = "aborts" => A!TypeOK
          /\ build = "batch" => B!TypeOK
          /\ build = "tm" => T!TypeOK

(* The count of a buffer is the number of those who hold it, at every step *)
(* of the loop and of the hardware: no packet is back in the pool while a  *)
(* device still has to send it, none is freed twice, and none is lost,     *)
(* whatever the function answers: packets a device refuses where none is   *)
(* flooded ("drops", "aborts"), floods where every device takes them       *)
(* ("poll"), and a batch that is taken whole.  Of a flood that a device    *)
(* refuses it does not hold (run flood_refused).                           *)
RefsExact == /\ TypeOK
             /\ build = "poll" => P!RefsExact
             /\ build = "drops" => D!RefsExact
             /\ build = "aborts" => A!RefsExact
             /\ build = "batch" => B!RefsExact

(* Transactions and the lock: packets are counted as if one after the      *)
(* other.  What nf_process has read of the counters is still there when it *)
(* writes them, and an lcore is in the fallback only as the owner of the   *)
(* lock (HTM_SGL_begin, HTM_enter_fallback).                               *)
TmIsolated == build = "tm" => T!Isolated

(* However transactions abort, packets keep being counted.                 *)
TmKeepsProcessing == build = "tm" => T!KeepsProcessing

(* No function enters its loop without its devices or its containers:      *)
(* whatever options it was given or left without, nf_config_init, the      *)
(* devices and nf_init either end the program or leave every device up and *)
(* existing, and every container with room (the hash maps with a power of  *)
(* two of slots).  Numbers that size no container are not looked at: a     *)
(* rate left at zero, a height of the balancer's table that is no prime.   *)
(* The functions that have defaults start with those alone, but for the    *)
(* port scan detector, whose default for --max-ports never does.           *)
StartsSound == build = "start" => S!StartsSound /\ S!DefaultsStart

(* The parallel runtimes launch lcores that each poll a queue of their     *)
(* own on both devices, and leave none unpolled, whatever the numbers of   *)
(* the lcores (nf_init_device, worker_main); and what the counting         *)
(* programs protect, atomically, by a lock or by keeping it apart, counts  *)
(* every packet once although the master lcore is initialised last.        *)
LaunchSound == build = "launch" => L!QueuesServed /\ L!CountsExact

(* Shared nothing: packets with which call paths look up the same entry of *)
(* an object that is written to reach the same lcore, under the keys that  *)
(* RSSConfigBuilder derives from the log of a function; and a packet whose *)
(* index another lcore has allocated is treated there as one that no flow  *)
(* claims, and changes nothing.                                            *)
RssTogether == build = "rss" => R!SameEntrySameLcore /\ R!LostIndexHarmless

(* Every buffer comes back to the pool, so that packets can be received    *)
(* for ever, unless the loop aborts.                                       *)
Returned == \A b \in Buffers : refcnt[b] > 0 ~> (refcnt[b] = 0 \/ (build = "aborts" /\ pc = "abort"))
=============================================================================
