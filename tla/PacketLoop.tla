----------------------------- MODULE PacketLoop -----------------------------
(***************************************************************************)
(* The loop around a network function (nf.c, batch size 1): the devices    *)
(* are polled in turn, a packet received is given to nf_process and then   *)
(* dropped, sent or flooded.  Each call of a device is a step, and the     *)
(* hardware sends meanwhile.                                               *)
(***************************************************************************)
EXTENDS Mbufs

CONSTANTS Answers,         \* what nf_process returns: devices and FLOOD_FRAME
          FLOOD_FRAME,
          VIGOR_ALLOW_DROPS

PacketLoopAssumption == /\ MbufsAssumption
                        /\ Answers \subseteq Devices \cup {FLOOD_FRAME}
                        /\ FLOOD_FRAME \notin Devices /\ VIGOR_ALLOW_DROPS \in BOOLEAN

VARIABLES pc,              \* "rx", "process", "send", "flood" or "abort"
          VIGOR_DEVICE,
          mbuf,            \* the packet in hand
          dst_device,
          device, total_sent   \* locals of flood

loop == <<pc, VIGOR_DEVICE, mbuf, dst_device, device, total_sent>>

vars == <<refcnt, tx, pc, VIGOR_DEVICE, mbuf, dst_device, device, total_sent>>

NoBuffer == "none"

Init == /\ InitMbufs
        /\ pc = "rx" /\ VIGOR_DEVICE = 0 /\ mbuf = NoBuffer /\ dst_device = 0
        /\ device = 0 /\ total_sent = 0

(* Done with the packet: on to the next device.                            *)
NextDevice == /\ pc' = "rx" /\ VIGOR_DEVICE' = (VIGOR_DEVICE + 1) % nb_devices
              /\ mbuf' = NoBuffer /\ dst_device' = 0 /\ device' = 0 /\ total_sent' = 0

RxNothing == pc = "rx" /\ NextDevice /\ UNCHANGED <<refcnt, tx>>

Rx == /\ pc = "rx"
      /\ \E b \in Pool : mbuf' = b /\ refcnt' = [refcnt EXCEPT ![b] = 1]
      /\ pc' = "process"
      /\ UNCHANGED <<tx, VIGOR_DEVICE, dst_device, device, total_sent>>

Process == /\ pc = "process"
           /\ dst_device' \in Answers
           /\ pc' = "send"
           /\ UNCHANGED <<refcnt, tx, VIGOR_DEVICE, mbuf, device, total_sent>>

Drop == /\ pc = "send" /\ dst_device = VIGOR_DEVICE
        /\ refcnt' = rte_pktmbuf_free(refcnt, mbuf)
        /\ NextDevice /\ UNCHANGED tx

Send == /\ pc = "send" /\ dst_device \notin {VIGOR_DEVICE, FLOOD_FRAME}
        /\ Room(dst_device) > 0
        /\ tx' = [tx EXCEPT ![dst_device] = Append(@, mbuf)]
        /\ NextDevice /\ UNCHANGED refcnt

(* The device does not take the packet.                                    *)
SendRefused ==
  /\ pc = "send" /\ dst_device \notin {VIGOR_DEVICE, FLOOD_FRAME}
  /\ Room(dst_device) = 0
  /\ IF VIGOR_ALLOW_DROPS
     THEN refcnt' = rte_pktmbuf_free(refcnt, mbuf) /\ NextDevice
     ELSE /\ pc' = "abort"
          /\ UNCHANGED <<refcnt, VIGOR_DEVICE, mbuf, dst_device, device, total_sent>>
  /\ UNCHANGED tx

(* A reference for every device, its own included.                         *)
FloodBeginAll ==
  /\ pc = "send" /\ dst_device = FLOOD_FRAME
  /\ refcnt' = [refcnt EXCEPT ![mbuf] = nb_devices]
  /\ pc' = "flood"
  /\ UNCHANGED <<tx, VIGOR_DEVICE, mbuf, dst_device, device, total_sent>>

FloodBegin ==
  /\ pc = "send" /\ dst_device = FLOOD_FRAME
  /\ refcnt' = [refcnt EXCEPT ![mbuf] = nb_devices - 1]
  /\ pc' = "flood"
  /\ UNCHANGED <<tx, VIGOR_DEVICE, mbuf, dst_device, device, total_sent>>

(* One device of the loop of flood; the packet's own is skipped.           *)
FloodOne ==
  LET sent == IF device # VIGOR_DEVICE /\ Room(device) > 0 THEN 1 ELSE 0
  IN  /\ pc = "flood" /\ device < nb_devices
      /\ tx' = IF sent = 1 THEN [tx EXCEPT ![device] = Append(@, mbuf)] ELSE tx
      /\ total_sent' = total_sent + sent
      /\ device' = device + 1
      /\ UNCHANGED <<refcnt, pc, VIGOR_DEVICE, mbuf, dst_device>>

(* Not sent everywhere: the count is set to 1 and the packet freed.        *)
FloodEnd ==
  /\ pc = "flood" /\ device = nb_devices
  /\ refcnt' = IF total_sent = nb_devices - 1 THEN refcnt
               ELSE rte_pktmbuf_free([refcnt EXCEPT ![mbuf] = 1], mbuf)
  /\ NextDevice /\ UNCHANGED tx

Worker == \/ RxNothing \/ Rx \/ Process \/ Drop \/ Send \/ SendRefused
          \/ FloodBegin \/ FloodOne \/ FloodEnd

Hardware(d) == Transmit(d) /\ UNCHANGED loop

Next == Worker \/ \E d \in Devices : Hardware(d)

Spec == Init /\ [][Next]_vars
-----------------------------------------------------------------------------
TypeOK == /\ refcnt \in [Buffers -> 0 .. nb_devices]
          /\ \A d \in Devices : tx[d] \in Seq(Buffers) /\ Len(tx[d]) <= TX_QUEUE_SIZE
          /\ pc \in {"rx", "process", "send", "flood", "abort"}
          /\ VIGOR_DEVICE \in Devices
          /\ mbuf \in Buffers \cup {NoBuffer}
          /\ dst_device \in Answers \cup {0}
          /\ device \in 0 .. nb_devices /\ total_sent \in 0 .. nb_devices

(* The references the loop itself has to a buffer: one to the packet in    *)
(* hand, and while it floods one for every device it has not given it to.  *)
Held(b) == IF b # mbuf THEN 0
           ELSE IF pc = "flood" THEN nb_devices - 1 - total_sent ELSE 1

(* The count of a buffer is the number of those who hold it, at every step *)
(* of the loop and of the hardware: no packet is in the pool while a       *)
(* device still has to send it, none is freed twice, and none is lost.     *)
(* flood says of a packet it could not send that it means to "ensure the   *)
(* packet is freed"; when some devices have taken the packet and another   *)
(* has not, it frees one that they still have to send.                     *)
RefsExact == \A b \in Buffers : refcnt[b] = Queued(b) + Held(b)
=============================================================================
