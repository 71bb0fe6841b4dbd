----------------------------- MODULE BatchLoop -----------------------------
(***************************************************************************)
(* The loop of the parallel runtimes on one lcore (worker_main of          *)
(* boilerplate/shared-nothing.c; those of locks.c, tm.c and nf.c with      *)
(* batches have the same body): two devices, up to VIGOR_BATCH_SIZE        *)
(* packets received at once, and those for the other device sent together. *)
(***************************************************************************)
EXTENDS Mbufs

CONSTANTS Answers,         \* what nf_process returns: devices and FLOOD_FRAME
          FLOOD_FRAME, VIGOR_BATCH_SIZE

BatchLoopAssumption == /\ MbufsAssumption
                       /\ Answers \subseteq Devices \cup {FLOOD_FRAME}
                       /\ FLOOD_FRAME \notin Devices /\ nb_devices = 2
                       /\ VIGOR_BATCH_SIZE \in Nat \ {0}

VARIABLES pc,              \* "rx" or "process"
          VIGOR_DEVICE,
          mbufs,           \* the batch
          n,               \* the packets of the batch already given to nf_process
          mbufs_to_send

loop == <<pc, VIGOR_DEVICE, mbufs, n, mbufs_to_send>>

vars == <<refcnt, tx, pc, VIGOR_DEVICE, mbufs, n, mbufs_to_send>>

Init == /\ InitMbufs
        /\ pc = "rx" /\ VIGOR_DEVICE = 0 /\ mbufs = <<>> /\ n = 0 /\ mbufs_to_send = <<>>

(* The packets of a burst are different buffers of the pool.               *)
Bursts == {s \in UNION {[1 .. k -> Pool] : k \in 0 .. VIGOR_BATCH_SIZE} :
             \A i, j \in DOMAIN s : i # j => s[i] # s[j]}

Rx == /\ pc = "rx"
      /\ mbufs' \in Bursts
      /\ refcnt' = [b \in Buffers |-> IF \E i \in DOMAIN mbufs' : mbufs'[i] = b
                                      THEN 1 ELSE refcnt[b]]
      /\ pc' = "process" /\ n' = 0 /\ mbufs_to_send' = <<>>
      /\ UNCHANGED <<tx, VIGOR_DEVICE>>

(* flood with two devices: one reference, one device to send to.           *)
flood(b) ==
  LET other == 1 - VIGOR_DEVICE
  IN  IF Room(other) > 0
      THEN tx' = [tx EXCEPT ![other] = Append(@, b)] /\ UNCHANGED refcnt
      ELSE refcnt' = rte_pktmbuf_free(refcnt, b) /\ UNCHANGED tx

(* A dropped packet left to nobody.                                        *)
ProcessKept ==
  LET b == mbufs[n + 1]
  IN  /\ pc = "process" /\ n < Len(mbufs)
      /\ \E dst_device \in Answers :
           \/ dst_device = VIGOR_DEVICE /\ UNCHANGED <<refcnt, tx, mbufs_to_send>>
           \/ dst_device = FLOOD_FRAME /\ flood(b) /\ UNCHANGED mbufs_to_send
           \/ /\ dst_device \notin {VIGOR_DEVICE, FLOOD_FRAME}
              /\ mbufs_to_send' = Append(mbufs_to_send, b)
              /\ UNCHANGED <<refcnt, tx>>
      /\ n' = n + 1
      /\ UNCHANGED <<pc, VIGOR_DEVICE, mbufs>>

Process ==
  LET b == mbufs[n + 1]
  IN  /\ pc = "process" /\ n < Len(mbufs)
      /\ \E dst_device \in Answers :
           \/ /\ dst_device = VIGOR_DEVICE
              /\ refcnt' = rte_pktmbuf_free(refcnt, b)
              /\ UNCHANGED <<tx, mbufs_to_send>>
           \/ dst_device = FLOOD_FRAME /\ flood(b) /\ UNCHANGED mbufs_to_send
           \/ /\ dst_device \notin {VIGOR_DEVICE, FLOOD_FRAME}
              /\ mbufs_to_send' = Append(mbufs_to_send, b)
              /\ UNCHANGED <<refcnt, tx>>
      /\ n' = n + 1
      /\ UNCHANGED <<pc, VIGOR_DEVICE, mbufs>>

(* The counts after the packets of a range of places of s are freed.       *)
FreeRange(counts, s, from, to) ==
  [b \in Buffers |-> counts[b] - Cardinality({i \in from .. to : s[i] = b})]

(* One burst to the other device.  For the packets of mbufs_to_send it did *)
(* not take, those at the same places of mbufs are freed.                  *)
Tx ==
  LET other      == 1 - VIGOR_DEVICE
      tx_count   == Len(mbufs_to_send)
      sent_count == IF Room(other) < tx_count THEN Room(other) ELSE tx_count
  IN  /\ pc = "process" /\ n = Len(mbufs)
      /\ tx' = [tx EXCEPT ![other] = @ \o SubSeq(mbufs_to_send, 1, sent_count)]
      /\ refcnt' = FreeRange(refcnt, mbufs, sent_count + 1, tx_count)
      /\ pc' = "rx" /\ VIGOR_DEVICE' = other
      /\ mbufs' = <<>> /\ n' = 0 /\ mbufs_to_send' = <<>>

Worker == Rx \/ Process \/ Tx

Hardware(d) == Transmit(d) /\ UNCHANGED loop

Next == Worker \/ \E d \in Devices : Hardware(d)

Spec == Init /\ [][Next]_vars
-----------------------------------------------------------------------------
TypeOK == /\ refcnt \in [Buffers -> 0 .. 1]
          /\ \A d \in Devices : tx[d] \in Seq(Buffers) /\ Len(tx[d]) <= TX_QUEUE_SIZE
          /\ pc \in {"rx", "process"} /\ VIGOR_DEVICE \in Devices
          /\ mbufs \in Seq(Buffers) /\ mbufs_to_send \in Seq(Buffers)
          /\ n \in 0 .. Len(mbufs)

(* The places of the batch that hold a buffer: not yet processed, or to be *)
(* sent.                                                                   *)
Held(b) == Cardinality({i \in (n + 1) .. Len(mbufs) : mbufs[i] = b})
             + Cardinality({i \in DOMAIN mbufs_to_send : mbufs_to_send[i] = b})

(* The count of a buffer is the number of those who hold it: a packet that *)
(* a device has not sent yet is never back in the pool, none is freed      *)
(* twice and none is lost, whatever the function answers in a batch.       *)
RefsExact == \A b \in Buffers : refcnt[b] = Queued(b) + Held(b)
=============================================================================
