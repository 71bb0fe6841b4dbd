------------------------------- MODULE Packet -------------------------------
(***************************************************************************)
(* A packet as a network function sees it: the headers it has taken, in    *)
(* the order of the packet, and the rest that it has not looked at.        *)
(***************************************************************************)
EXTENDS Integers, Sequences, SequencesExt

CONSTANTS Arrivals,        \* the packets that can arrive
          Sizes            \* the lengths of the headers

VARIABLES headers, rest,
          busy             \* the function has the packet

vars == <<headers, rest, busy>>

Contents == FlattenSeq(headers) \o rest

Init == headers = <<>> /\ rest = <<>> /\ busy = FALSE

Receive == ~busy /\ busy' = TRUE /\ headers' = <<>> /\ rest' \in Arrivals

Borrow(n) == /\ busy /\ n <= Len(rest)
             /\ headers' = Append(headers, SubSeq(rest, 1, n))
             /\ rest' = SubSeq(rest, n + 1, Len(rest))
             /\ UNCHANGED busy

(* The last header taken becomes part of the rest again.                   *)
Return == /\ busy /\ headers # <<>>
          /\ headers' = Front(headers)
          /\ rest' = Last(headers) \o rest
          /\ UNCHANGED busy

ReturnAll == busy /\ busy' = FALSE /\ headers' = <<>> /\ rest' = Contents

(* The last header loses its end.                                          *)
Shrink(n) == /\ busy /\ headers # <<>> /\ n <= Len(Last(headers))
             /\ headers' = Append(Front(headers), SubSeq(Last(headers), 1, n))
             /\ UNCHANGED <<rest, busy>>

(* A header of n bytes, whatever they are, comes after the last one.       *)
Insert(n) == /\ busy /\ headers # <<>> /\ headers' # <<>>
             /\ Front(headers') = headers /\ Len(Last(headers')) = n
             /\ UNCHANGED <<rest, busy>>

Next == \/ Receive \/ Return \/ ReturnAll
        \/ \E n \in Sizes : Borrow(n) \/ Shrink(n) \/ Insert(n)
=============================================================================
