------------------------------- MODULE Launch -------------------------------
(***************************************************************************)
(* How the programs of synthesized/boilerplate come up on several lcores,  *)
(* and the counting programs of boilerplate/motivation: MAIN creates a     *)
(* pool for each lcore, gives every device a queue for each lcore, and     *)
(* launches worker_main, which initialises the function on its lcore and   *)
(* then polls its own queue of every device.                               *)
(***************************************************************************)
EXTENDS Integers, Sequences, FiniteSets

CONSTANTS Lcores, Master,
          DeviceCounts,     \* what rte_eth_dev_count_avail may answer
          Wrap              \* bound: the counters count modulo Wrap

LaunchAssumption == /\ Lcores \subseteq Nat /\ IsFiniteSet(Lcores) /\ Master \in Lcores
                    /\ DeviceCounts \subseteq Nat /\ Wrap \in Nat \ {0, 1}

(* The queue an lcore gets if queues went by the numbers of the lcores.    *)
QueueOf_number(l) == l

(* RTE_LCORE_FOREACH takes the lcores in the order of their numbers, and   *)
(* rxq counts them.                                                        *)
QueueOf(l) == Cardinality({m \in Lcores : m < l})

Queues == 0 .. Cardinality(Lcores) - 1
Slaves == Lcores \ {Master}

(* MAIN: how many pools it creates, and the lcores it launches.            *)
sequential_main         == [pools |-> 1, slaves |-> {}]
shared_nothing_main     == [pools |-> Cardinality(Lcores), slaves |-> Slaves]
locks_main              == shared_nothing_main
tm_main                 == shared_nothing_main           \* HTM_init is in Htm
mot_shared_nothing_main == shared_nothing_main
mot_atomic_main         == shared_nothing_main
mot_locks_main          == shared_nothing_main
mot_tm_main             == tm_main
mot_unprotected_main    == shared_nothing_main

(* nf_init_device: the queues to send on, the pool of each queue packets   *)
(* arrive on, and the queue that every lcore is to poll.                   *)
sequential_device ==
  [tx |-> {0}, rx |-> [q \in {0} |-> 0], queue_id |-> [l \in Lcores |-> 0]]

shared_nothing_device ==
  [tx |-> Queues, rx |-> [q \in Queues |-> q], queue_id |-> [l \in Lcores |-> QueueOf(l)]]

locks_device == shared_nothing_device
tm_device    == shared_nothing_device

(* Queue 0 is set up alone, and again with the others.                     *)
mot_shared_nothing_device == [shared_nothing_device EXCEPT !.tx = {0} \cup @]

mot_atomic_device      == mot_shared_nothing_device
mot_locks_device       == mot_shared_nothing_device
mot_tm_device          == mot_shared_nothing_device
mot_unprotected_device == mot_shared_nothing_device

Counting == {"mot_shared_nothing", "mot_atomic", "mot_locks", "mot_unprotected"}

Programs == Counting \cup {"sequential", "shared_nothing", "locks", "tm", "mot_tm"}

MainOf(p) ==
  CASE p = "sequential"         -> sequential_main
    [] p = "shared_nothing"     -> shared_nothing_main
    [] p = "locks"              -> locks_main
    [] p = "tm"                 -> tm_main
    [] p = "mot_shared_nothing" -> mot_shared_nothing_main
    [] p = "mot_atomic"         -> mot_atomic_main
    [] p = "mot_locks"          -> mot_locks_main
    [] p = "mot_tm"             -> mot_tm_main
    [] p = "mot_unprotected"    -> mot_unprotected_main

DeviceOf(p) ==
  CASE p = "sequential"         -> sequential_device
    [] p = "shared_nothing"     -> shared_nothing_device
    [] p = "locks"              -> locks_device
    [] p = "tm"                 -> tm_device
    [] p = "mot_shared_nothing" -> mot_shared_nothing_device
    [] p = "mot_atomic"         -> mot_atomic_device
    [] p = "mot_locks"          -> mot_locks_device
    [] p = "mot_tm"             -> mot_tm_device
    [] p = "mot_unprotected"    -> mot_unprotected_device
-----------------------------------------------------------------------------
VARIABLES prog, nb_devices,
          main,          \* "pools", "devices", "launch", "worker", "exit" or "crash"
          pools,         \* how many there are
          devices,       \* the set-up of the devices started so far
          queue_id,      \* lcores_conf[lcore].queue_id
          pc,            \* of worker_main on each lcore
          counter, seen, \* the counters, and what nf_process has read of them
          lock,          \* who holds the spin lock of motivation/locks.c, or "free"
          counted,       \* history: the packets counted since the counters were cleared
          overlap        \* history: they were cleared while an lcore was counting

countVars == <<counter, seen, lock, counted, overlap>>
startVars == <<pools, devices, queue_id>>
vars == <<prog, nb_devices, main, startVars, pc, countVars>>

Init == /\ prog \in Programs /\ nb_devices \in DeviceCounts
        /\ main = "pools" /\ pools = 0 /\ devices = <<>>
        /\ queue_id = [l \in Lcores |-> 0] /\ pc = [l \in Lcores |-> "off"]
        /\ counter = [l \in Lcores |-> 0] /\ seen = [l \in Lcores |-> 0]
        /\ lock = "free" /\ counted = [l \in Lcores |-> 0] /\ overlap = FALSE

Exit == main' = "exit" /\ UNCHANGED <<prog, nb_devices, startVars, pc, countVars>>

CreatePool ==
  /\ main = "pools"
  /\ \/ Exit
     \/ /\ pools' = pools + 1
        /\ main' = IF pools + 1 = MainOf(prog).pools THEN "devices" ELSE main
        /\ UNCHANGED <<prog, nb_devices, devices, queue_id, pc, countVars>>

(* A device that does not become promiscuous counts as started.            *)
nf_init_device ==
  /\ main = "devices" /\ Len(devices) < nb_devices
  /\ \/ Exit
     \/ /\ devices' = Append(devices, DeviceOf(prog))
        /\ queue_id' = DeviceOf(prog).queue_id
        /\ UNCHANGED <<prog, nb_devices, main, pools, pc, countVars>>

DevicesReady == /\ main = "devices" /\ Len(devices) = nb_devices /\ main' = "launch"
                /\ UNCHANGED <<prog, nb_devices, startVars, pc, countVars>>

(* The other lcores in their order, then the master lcore itself.          *)
rte_eal_remote_launch ==
  LET waiting == {l \in MainOf(prog).slaves : pc[l] = "off"}
      next    == IF waiting = {} THEN Master ELSE CHOOSE l \in waiting : \A m \in waiting : l <= m
  IN  /\ main = "launch"
      /\ pc' = [pc EXCEPT ![next] = "start"]
      /\ main' = IF waiting = {} THEN "worker" ELSE main
      /\ UNCHANGED <<prog, nb_devices, startVars, countVars>>
-----------------------------------------------------------------------------
Goto(l, label) == pc' = [pc EXCEPT ![l] = label]

(* The counters of nf_process: its own, or those of the program.  All six  *)
(* are treated alike, and one stands for them; the load that is added is   *)
(* 13^200 % 17 = 1.                                                        *)
Cell(l) == IF prog = "mot_shared_nothing" THEN l ELSE Master

Inside == {"read", "write", "unlock"}

mot_shared_nothing_init(l) ==
  /\ counter' = [counter EXCEPT ![l] = 0] /\ counted' = [counted EXCEPT ![l] = 0]
  /\ UNCHANGED <<seen, lock, overlap>>

(* Only the master lcore clears the counters, when the others may be at    *)
(* work already.                                                           *)
mot_atomic_init(l) ==
  /\ counter' = IF l = Master THEN [counter EXCEPT ![Master] = 0] ELSE counter
  /\ counted' = IF l = Master THEN [counted EXCEPT ![Master] = 0] ELSE counted
  /\ overlap' = (overlap \/ (l = Master /\ \E m \in Slaves : pc[m] \in Inside))
  /\ UNCHANGED <<seen, lock>>

mot_unprotected_init(l) == mot_atomic_init(l)

(* The lock is initialised with them, whoever holds it.                    *)
mot_locks_init(l) ==
  /\ counter' = IF l = Master THEN [counter EXCEPT ![Master] = 0] ELSE counter
  /\ counted' = IF l = Master THEN [counted EXCEPT ![Master] = 0] ELSE counted
  /\ lock' = IF l = Master THEN "free" ELSE lock
  /\ overlap' = (overlap \/ (l = Master /\ \E m \in Slaves : pc[m] \in Inside))
  /\ UNCHANGED seen

nf_init(l) ==
  CASE prog = "mot_shared_nothing" -> mot_shared_nothing_init(l)
    [] prog = "mot_atomic"         -> mot_atomic_init(l)
    [] prog = "mot_locks"          -> mot_locks_init(l)
    [] prog = "mot_unprotected"    -> mot_unprotected_init(l)
    [] OTHER                       -> UNCHANGED countVars

(* motivation/locks.c returns nothing from nf_init but on the master       *)
(* lcore, so that there any answer is possible; in the boilerplates the    *)
(* function is generated, and may fail.                                    *)
nf_init_fails(l) == \/ prog = "mot_locks" /\ l # Master
                    \/ prog \in {"sequential", "shared_nothing", "locks", "tm"}

(* nf_util_init does not look at the answer of rte_malloc: without memory  *)
(* the first packet ends the program.  The batches need two devices.       *)
WorkerStart(l) ==
  /\ pc[l] = "start"
  /\ \/ prog # "sequential" /\ main' = "crash" /\ UNCHANGED <<pc, countVars>>
     \/ nf_init_fails(l) /\ main' = "exit" /\ UNCHANGED <<pc, countVars>>
     \/ nf_init(l) /\ nb_devices # 2 /\ main' = "exit" /\ UNCHANGED pc
     \/ nf_init(l) /\ nb_devices = 2 /\ Goto(l, "loop") /\ UNCHANGED main
  /\ UNCHANGED <<prog, nb_devices, startVars>>

Increment(l, value) == /\ counter' = [counter EXCEPT ![Cell(l)] = (value + 1) % Wrap]
                       /\ counted' = [counted EXCEPT ![Cell(l)] = (@ + 1) % Wrap]

(* nf_process of a packet with a TCP or UDP header; the others are         *)
(* dropped and count nothing.                                              *)
mot_atomic_process(l) == /\ prog = "mot_atomic" /\ pc[l] = "loop"
                         /\ Increment(l, counter[Cell(l)])
                         /\ UNCHANGED <<pc, seen, lock, overlap>>

mot_locks_process(l) ==
  /\ prog = "mot_locks"
  /\ \/ /\ pc[l] = "loop" /\ lock = "free" /\ lock' = "held" /\ Goto(l, "read")
        /\ UNCHANGED <<counter, seen, counted, overlap>>
     \/ /\ pc[l] = "unlock" /\ lock' = "free" /\ Goto(l, "loop")
        /\ UNCHANGED <<counter, seen, counted, overlap>>

mot_unprotected_process(l) == /\ prog = "mot_unprotected" /\ pc[l] = "loop" /\ Goto(l, "read")
                              /\ UNCHANGED countVars

mot_shared_nothing_process(l) ==
  prog = "mot_shared_nothing" /\ pc[l] = "loop" /\ Goto(l, "read") /\ UNCHANGED countVars

(* An addition that is not atomic: read, and write.                        *)
Add(l) ==
  \/ /\ pc[l] = "read" /\ seen' = [seen EXCEPT ![l] = counter[Cell(l)]] /\ Goto(l, "write")
     /\ UNCHANGED <<counter, lock, counted, overlap>>
  \/ /\ pc[l] = "write" /\ Increment(l, seen[l])
     /\ Goto(l, IF prog = "mot_locks" THEN "unlock" ELSE "loop")
     /\ UNCHANGED <<seen, lock, overlap>>

nf_process(l) ==
  /\ \/ mot_atomic_process(l) \/ mot_locks_process(l) \/ mot_unprotected_process(l)
     \/ mot_shared_nothing_process(l) \/ Add(l)
  /\ UNCHANGED <<prog, nb_devices, main, startVars>>

Alive == main \notin {"exit", "crash"}

(* The loop without packets, and the end of the program.                   *)
Polling == (~Alive \/ \E l \in Lcores : pc[l] = "loop") /\ UNCHANGED vars

Next == \/ Alive /\ \/ CreatePool \/ nf_init_device \/ DevicesReady \/ rte_eal_remote_launch
                    \/ \E l \in Lcores : WorkerStart(l) \/ nf_process(l)
        \/ Polling

Spec == Init /\ [][Next]_vars
-----------------------------------------------------------------------------
Working == {l \in Lcores : pc[l] \notin {"off", "start"}}

(* Every lcore at work polls a queue of its own, which every device has    *)
(* and fills from that lcore's pool, and can send on; once all are at      *)
(* work, no queue that a device may put packets in is left unpolled.       *)
QueuesServed ==
  \A d \in DOMAIN devices :
    /\ \A l \in Working : /\ queue_id[l] \in devices[d].tx
                          /\ queue_id[l] \in DOMAIN devices[d].rx
                          /\ devices[d].rx[queue_id[l]] < pools
    /\ \A l, m \in Working :
         l # m => devices[d].rx[queue_id[l]] # devices[d].rx[queue_id[m]]
    /\ Working = MainOf(prog).slaves \cup {Master} =>
         DOMAIN devices[d].rx = {queue_id[l] : l \in Working}

(* The programs that protect their counters count every packet once,       *)
(* provided that motivation/locks.c did not initialise its lock while an   *)
(* lcore held it; after that the lock may let two in for ever.             *)
CountsExact ==
  \/ prog = "mot_unprotected"
  \/ prog = "mot_locks" /\ overlap
  \/ counter = counted
=============================================================================
