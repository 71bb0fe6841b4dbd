------------------------------- MODULE Libvig -------------------------------
(***************************************************************************)
(* The containers of libVig, each used on its own: the double chain, the   *)
(* flow table (double chain, vector, map and expirator), the double map,   *)
(* the longest prefix match, the access to packets, and the stand-ins used *)
(* for symbolic execution.  A behaviour picks one of them and has no step  *)
(* of another.  The module extends the double chain; the others share      *)
(* variables of their own, and those that the one picked does not have are *)
(* unused.                                                                 *)
(***************************************************************************)
EXTENDS DoubleChain, FiniteSets, TLC

CONSTANTS k1, k2, k3,          \* keys
          a1, a2               \* the other keys of the double map

VARIABLES part, list, stamps, clock,
          fv, fm, size, pc, call,
          values, ma, mb, n_vals, border,
          lpm_24, lpm_long, lpm_long_index, rules,
          mem, data, global_total_length, global_read_length, chunks_borrowed, busy, edits,
          t, vals, calls, pending, lent, models

clockVars  == <<list, stamps, clock>>
tableVars  == <<fv, fm, size, pc, call>>
dmapVars   == <<values, ma, mb, n_vals, border>>
lpmVars    == <<lpm_24, lpm_long, lpm_long_index, rules>>
packetVars == <<mem, data, global_total_length, global_read_length, chunks_borrowed, busy, edits>>

standVars  == <<t, vals, calls, pending, lent, models>>

otherVars == <<clockVars, tableVars, dmapVars, lpmVars, packetVars, standVars>>

allVars == <<part, vars, otherVars>>

(* Two keys have one hash and start at the last slot, so the second wraps  *)
(* to the first slot, where the third starts.                              *)
HashLast(n) == [k \in {k1, k2, k3} |-> IF k = k3 THEN n ELSE n - 1]

(* So the two may change places.                                           *)
Twins == Permutations({k1, k2})

F == INSTANCE FlowTable WITH
       Keys <- {k1, k2, k3}, Hash <- HashLast(3), ZeroKey <- k3,
       Capacity <- 3, IndexRange <- 3, Values <- {0, 1, 2}, MaxTime <- 1,
       cells <- list, timestamps <- stamps, now <- clock

D == INSTANCE DoubleMap WITH
       KeysA <- {a1, a2}, HashA <- [k \in {a1, a2} |-> 1], ZeroA <- a1,
       KeysB <- {k1, k2, k3}, HashB <- HashLast(2), ZeroB <- k3,
       KeysCapacity <- 2, IndexRange <- 2, MaxTime <- 2,
       cells <- list, timestamps <- stamps, now <- clock

(* Two short and two long prefix lengths, one group.                       *)
L == INSTANCE Lpm WITH
       HighBits <- 1, LowBits <- 2, OffsetMax <- 1, Routes <- {1, 2}, MaxRules <- 3

P == INSTANCE PacketIo WITH
       Headroom <- 2, Lengths <- {1, 4}, Sizes <- {0, 1, 2}, MAX_N_CHUNKS <- 3, MaxEdits <- 2

S == INSTANCE StandIns WITH
       Keys <- {k1, k2, k3}, Indexes <- {0, 1}, Allowed <- {0, 2}, ZeroValue <- 0,
       NUM_ELEMS <- 4, ExpTime <- 1, MaxTime <- 2, now <- clock

ASSUME Assumptions == /\ MaxTimeAssumption /\ F!MapAssumption /\ F!TableAssumption
                      /\ D!DoubleMapAssumption
                      /\ L!LpmAssumption /\ P!PacketIoAssumption /\ S!StandInsAssumption

NoClock  == list = "unused" /\ stamps = "unused" /\ clock = "unused"
NoTable  == /\ fv = "unused" /\ fm = "unused" /\ size = "unused" /\ pc = "unused"
            /\ call = "unused"
NoDmap   == /\ values = "unused" /\ ma = "unused" /\ mb = "unused" /\ n_vals = "unused"
            /\ border = "unused"
NoLpm    == /\ lpm_24 = "unused" /\ lpm_long = "unused" /\ lpm_long_index = "unused"
            /\ rules = "unused"
NoPacket == /\ mem = "unused" /\ data = "unused" /\ global_total_length = "unused"
            /\ global_read_length = "unused" /\ chunks_borrowed = "unused"
            /\ busy = "unused" /\ edits = "unused"

NoStand  == /\ t = "unused" /\ vals = "unused" /\ calls = "unused" /\ pending = "unused"
            /\ lent = "unused" /\ models = "unused"

InitChain == part = "chain" /\ NoClock /\ NoTable /\ NoDmap /\ NoLpm /\ NoPacket /\ NoStand

InitOther ==
  \/ part = "table" /\ F!Init /\ NoDmap /\ NoLpm /\ NoPacket /\ NoStand
  \/ part = "dmap" /\ D!Init /\ NoTable /\ NoLpm /\ NoPacket /\ NoStand
  \/ part = "lpm" /\ L!Init /\ NoClock /\ NoTable /\ NoDmap /\ NoPacket /\ NoStand
  \/ part = "packet" /\ P!Init /\ NoClock /\ NoTable /\ NoDmap /\ NoLpm /\ NoStand
  \/ /\ part = "standins" /\ S!Init /\ list = "unused" /\ stamps = "unused"
     /\ NoTable /\ NoDmap /\ NoLpm /\ NoPacket

NextOther ==
  \/ part = "table" /\ F!Next /\ UNCHANGED <<dmapVars, lpmVars, packetVars, standVars>>
  \/ part = "dmap" /\ D!Next /\ UNCHANGED <<tableVars, lpmVars, packetVars, standVars>>
  \/ part = "lpm" /\ L!Next /\ UNCHANGED <<clockVars, tableVars, dmapVars, packetVars, standVars>>
  \/ part = "packet" /\ P!Next /\ UNCHANGED <<clockVars, tableVars, dmapVars, lpmVars, standVars>>
  \/ /\ part = "standins" /\ S!Next
     /\ UNCHANGED <<list, stamps, tableVars, dmapVars, lpmVars, packetVars>>

(* What the idle chain of the other parts finds in malloc's memory does    *)
(* not matter.                                                             *)
InitAny == Init /\ (InitChain \/ (InitOther /\ timestamps = [i \in Indexes |-> 0]))

NextAny == /\ \/ part = "chain" /\ Next /\ UNCHANGED otherVars
              \/ NextOther /\ UNCHANGED vars
           /\ UNCHANGED part

LibvigSpec == InitAny /\ [][NextAny]_allVars
-----------------------------------------------------------------------------
(* Flow table: hash map, vector and double chain stay in step, between the *)
(* iterations of expire_items_single_map too, so map_put always finds room *)
(* and an absent key and map_erase the key it is given; and the chain      *)
(* counters of the hash map are exact after any puts and erases.           *)
TableCoherent == part = "table" => F!Coherent /\ F!ChainCounts

(* Flow table: it is an expiring map.  map_get finds what was added and    *)
(* only that, whatever collisions and erased slots lie on the way, and the *)
(* loop of expire_items_single_map has the effect of an atomic expire_all. *)
TableExpiringMap == /\ part = "table" => F!E!Init
                    /\ [][part = "table" => [F!E!Next]_(F!E!vars)]_allVars

(* Double map: a value is found by both of its keys or by none, between    *)
(* the iterations of expire_items too.                                     *)
DmapTwoWays == part = "dmap" => D!TwoWays

(* Longest prefix match: with rules in ascending order lpm_lookup_elem     *)
(* returns the route of the longest rule that covers the address, among    *)
(* the long ones once a long rule shares its high bits.                    *)
LpmLongestPrefix == part = "lpm" => L!LongestPrefix

(* Packets: the chunks lent out are the headers of the packet, end to end, *)
(* whatever nf_shrink_chunk and nf_insert_new_chunk move; no other byte    *)
(* changes, and the next packet is read from its start.                    *)
PacketBytes == /\ part = "packet" => P!P!Init
               /\ [][part = "packet" => [P!P!Next]_(P!P!vars)]_allVars

(* Stand-ins: whatever the containers answer between two borders, map_get, *)
(* dchain_allocate_new_index and the others of libvig/models could have    *)
(* answered too, and what they remember of a key is so.                    *)
StandInsCover == part = "standins" => S!TypeOK /\ S!Covered
=============================================================================
