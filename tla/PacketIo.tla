------------------------------ MODULE PacketIo ------------------------------
(***************************************************************************)
(* Access to a packet (libvig/verified/packet-io.c, nf-util.h): a pointer  *)
(* to its data in a buffer with headroom, two global lengths, and the      *)
(* pointers to the chunks lent to the network function.  Chunks are cut or *)
(* added by moving, byte by byte, what lies before them.                   *)
(***************************************************************************)
EXTENDS Integers, Sequences

CONSTANTS Headroom,        \* the bytes a buffer has before its data
          Lengths,         \* the lengths of packets
          Sizes,           \* the lengths of chunks the functions ask for
          MAX_N_CHUNKS,
          MaxEdits         \* bound: cuts and insertions per packet

VARIABLES mem,             \* the bytes of the buffer
          data,            \* *p: where the packet starts
          global_total_length, global_read_length,
          chunks_borrowed, \* the pointers lent out; its length is chunks_borrowed_num
          busy,            \* nf_process has the packet
          edits

vars == <<mem, data, global_total_length, global_read_length, chunks_borrowed, busy, edits>>

Positions == 0 .. (Headroom + CHOOSE n \in Lengths : \A m \in Lengths : m <= n)

PacketIoAssumption == /\ Headroom \in Nat /\ Lengths \subseteq Nat \ {0}
                      /\ Sizes \subseteq Nat /\ MAX_N_CHUNKS \in Nat \ {0}
                      /\ MaxEdits \in Nat

Init == /\ mem = [x \in Positions |-> x]
        /\ data = Headroom /\ global_total_length = 0 /\ global_read_length = 0
        /\ chunks_borrowed = <<>> /\ busy = FALSE /\ edits = 0

packet_get_unread_length == global_total_length - global_read_length

packet_get_chunk_length(chunk) == data + global_read_length - chunk

LastChunk == chunks_borrowed[Len(chunks_borrowed)]

(* The loop of nf.c: packet_state_total_length of a new packet; the bytes  *)
(* stand for their first place.                                            *)
packet_state_total_length(len) ==
  /\ ~busy /\ busy' = TRUE /\ edits' = 0
  /\ mem' = [x \in Positions |-> x] /\ data' = Headroom
  /\ global_total_length' = len
  /\ UNCHANGED <<global_read_length, chunks_borrowed>>

(* The functions ask for no more than packet_get_unread_length.            *)
nf_borrow_next_chunk(length) ==
  /\ busy /\ Len(chunks_borrowed) < MAX_N_CHUNKS /\ length <= packet_get_unread_length
  /\ chunks_borrowed' = Append(chunks_borrowed, data + global_read_length)
  /\ global_read_length' = global_read_length + length
  /\ UNCHANGED <<mem, data, global_total_length, busy, edits>>

nf_return_chunk ==
  /\ busy /\ chunks_borrowed # <<>>
  /\ global_read_length' = LastChunk - data
  /\ chunks_borrowed' = SubSeq(chunks_borrowed, 1, Len(chunks_borrowed) - 1)
  /\ UNCHANGED <<mem, data, global_total_length, busy, edits>>

(* The loop of nf.c, after nf_process; the first chunk is returned last.   *)
nf_return_all_chunks ==
  /\ busy /\ busy' = FALSE
  /\ global_read_length' = IF chunks_borrowed = <<>> THEN global_read_length
                           ELSE chunks_borrowed[1] - data
  /\ chunks_borrowed' = <<>>
  /\ UNCHANGED <<mem, data, global_total_length, edits>>

(* The bytes from "first" on copied upwards from the first: what was just  *)
(* written is read again.                                                  *)
MovedUpAscending(first, last, offset) ==
  [x \in Positions |-> IF x \in (first + offset) .. last
                       THEN mem[first + ((x - first) % offset)] ELSE mem[x]]

(* The loop of packet_shrink_chunk, from the last byte down: the bytes     *)
(* from "first" move up by offset.                                         *)
MovedUp(first, last, offset) ==
  [x \in Positions |-> IF x \in (first + offset) .. last THEN mem[x - offset] ELSE mem[x]]

(* The loop of packet_insert_new_chunk, from the new start on: the bytes   *)
(* up to "limit" move down by length.                                      *)
MovedDown(first, limit, length) ==
  [x \in Positions |-> IF x \in first .. (limit - length - 1) THEN mem[x + length] ELSE mem[x]]

nf_shrink_chunk(length) ==
  LET limit  == data + global_read_length
      offset == packet_get_chunk_length(LastChunk) - length
  IN  /\ busy /\ Len(chunks_borrowed) \in 1 .. (MAX_N_CHUNKS - 1)
      /\ offset >= 0
      /\ mem' = IF offset = 0 THEN mem ELSE MovedUp(data, limit - 1, offset)
      /\ data' = data + offset
      /\ global_read_length' = global_read_length - offset
      /\ global_total_length' = global_total_length - offset
      /\ chunks_borrowed' = [i \in DOMAIN chunks_borrowed |-> chunks_borrowed[i] + offset]
      /\ edits < MaxEdits /\ edits' = edits + 1
      /\ UNCHANGED busy

(* rte_pktmbuf_prepend finds headroom.                                     *)
nf_insert_new_chunk(length) ==
  LET start == data - length
      limit == data + global_read_length
      moved == [i \in DOMAIN chunks_borrowed |-> chunks_borrowed[i] - length]
  IN  /\ busy /\ Len(chunks_borrowed) \in 1 .. (MAX_N_CHUNKS - 1)
      /\ start >= 0
      /\ mem' = MovedDown(start, limit, length)
      /\ data' = start
      /\ chunks_borrowed' = Append(moved, start + global_read_length)
      /\ global_read_length' = global_read_length + length
      /\ global_total_length' = global_total_length + length
      /\ edits < MaxEdits /\ edits' = edits + 1
      /\ UNCHANGED busy

Next == \/ \E len \in Lengths : packet_state_total_length(len)
        \/ \E n \in Sizes : \/ nf_borrow_next_chunk(n)
                            \/ nf_shrink_chunk(n)
                            \/ nf_insert_new_chunk(n)
        \/ nf_return_chunk
        \/ nf_return_all_chunks

Spec == Init /\ [][Next]_vars
-----------------------------------------------------------------------------
(* The bytes from one position up to another.                              *)
Bytes(from, to) == [i \in 1 .. (to - from) |-> mem[from + i - 1]]

ChunkEnd(i) == IF i = Len(chunks_borrowed) THEN data + global_read_length
               ELSE chunks_borrowed[i + 1]

(* The chunks lent out are the headers of the packet, end to end, whatever *)
(* was moved to cut or add one: nf_shrink_chunk takes the end off the last *)
(* and nf_insert_new_chunk adds one, and no other byte changes or gets     *)
(* lost.  And the next packet is read from its start.                      *)
P == INSTANCE Packet WITH
       Arrivals <- {[i \in 1 .. len |-> Headroom + i - 1] : len \in Lengths},
       headers <- [i \in DOMAIN chunks_borrowed |-> Bytes(chunks_borrowed[i], ChunkEnd(i))],
       rest    <- Bytes(data + global_read_length, data + global_total_length)
=============================================================================
