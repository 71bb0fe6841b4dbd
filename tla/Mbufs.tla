------------------------------- MODULE Mbufs -------------------------------
(***************************************************************************)
(* Packet buffers and transmit queues, as the loops use those of DPDK.  A  *)
(* buffer is out of the pool while its reference count is positive.  The   *)
(* hardware fills a buffer of the pool for every packet it receives, sends *)
(* what is queued in order, and drops one reference to each packet sent.   *)
(***************************************************************************)
EXTENDS Integers, Sequences, FiniteSets

CONSTANTS Devices,         \* 0, 1, ...
          Buffers,         \* those of the memory pool
          TX_QUEUE_SIZE

MbufsAssumption == /\ Devices = 0 .. (Cardinality(Devices) - 1)
                   /\ IsFiniteSet(Buffers) /\ TX_QUEUE_SIZE \in Nat \ {0}

VARIABLES refcnt,          \* buffer -> number of references; 0 in the pool
          tx               \* device -> its transmit queue

nb_devices == Cardinality(Devices)

InitMbufs == refcnt = [b \in Buffers |-> 0] /\ tx = [d \in Devices |-> <<>>]

Pool == {b \in Buffers : refcnt[b] = 0}

rte_pktmbuf_free(counts, b) == [counts EXCEPT ![b] = @ - 1]

(* As many as there is room for are taken.                                 *)
Room(d) == TX_QUEUE_SIZE - Len(tx[d])

Transmit(d) == /\ tx[d] # <<>>
               /\ tx' = [tx EXCEPT ![d] = Tail(@)]
               /\ refcnt' = rte_pktmbuf_free(refcnt, Head(tx[d]))

(* The places of the transmit queues that hold a buffer.                   *)
Queued(b) ==
  Cardinality(UNION {{<<d, i>> : i \in {j \in DOMAIN tx[d] : tx[d][j] = b}} : d \in Devices})
=============================================================================
