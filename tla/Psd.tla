-------------------------------- MODULE Psd --------------------------------
(***************************************************************************)
(* The port scan detector (vigpsd/psd_main.c): nf_process is one step.     *)
(* The map of the touched ports keeps pointers to its keys, which lie in   *)
(* the vector ports_key, max_ports slots for every source: a slot that is  *)
(* written while the map still points at it changes the key of that entry, *)
(* but not the hash the entry was filed under.                             *)
(***************************************************************************)
EXTENDS Integers, FiniteSets

CONSTANTS Sources, Ports,
          NoPort,          \* the key touched_port_allocate leaves in every slot
          PortHash,        \* touched_port_hash
          capacity, max_ports, expiration_time,
          MaxTime          \* bound: the clock stops here

TouchedPorts == (Sources \X Ports) \cup {NoPort}

PsdAssumption ==
  /\ capacity \in Nat \ {0} /\ max_ports \in Nat \ {0}
  /\ expiration_time \in Nat /\ MaxTime \in Nat
  /\ PortHash \in [TouchedPorts -> Nat]

SrcIndexes == 0 .. capacity - 1

PortSlots == 0 .. capacity * max_ports - 1

VARIABLES srcs,            \* srcs, srcs_key and allocator
          counter,         \* touched_ports_counter
          ports_key,
          ports,           \* the map ports; its keyps are slots of ports_key
          out,             \* the packet received and whether it was forwarded
          touched,         \* history: source -> the ports let through since it is tracked
          stale,           \* history: source -> its ports in the map when tracking began
          now

vars == <<srcs, counter, ports_key, ports, out, touched, stale, now>>

T == INSTANCE FlowState WITH Indexes <- SrcIndexes

M == INSTANCE MapImpl WITH
       Keys <- TouchedPorts, Hash <- PortHash, Values <- {0}, Capacity <- capacity * max_ports

(* The map with the keys its pointers lead to.                             *)
View(p, keys) == [p EXCEPT !.keyps = [s \in M!Slots |-> keys[@[s]]]]

Has(p, keys, key) == M!map_impl_get(View(p, keys), key).found

HasRoom(p) == M!map_impl_size(p) < capacity * max_ports

(* map_put and map_erase on the map of pointers.                           *)
Put(p, keys, slot) ==
  LET v == View(p, keys)
      s == M!Probe(keys[slot], M!find_empty(v, keys[slot]))
  IN  [M!map_impl_put(v, keys[slot], 0) EXCEPT !.keyps = [p.keyps EXCEPT ![s] = slot]]

Erase(p, keys, key) == [M!map_impl_erase(View(p, keys), key) EXCEPT !.keyps = p.keyps]

(* The counters come from malloc and are never initialized; tables of the  *)
(* size of the default configuration come as zero pages.                   *)
Init == /\ srcs \in T!NewTables(Sources)
        /\ counter = [i \in SrcIndexes |-> 0]
        /\ ports_key = [s \in PortSlots |-> NoPort]
        /\ ports = [busybits |-> [s \in M!Slots |-> FALSE], chns |-> [s \in M!Slots |-> 0],
                    keyps |-> [s \in M!Slots |-> 0], values |-> [s \in M!Slots |-> 0],
                    k_hashes |-> [s \in M!Slots |-> PortHash[NoPort]]]
        /\ out = [device |-> "lan", pkt |-> NoPort, fwd |-> FALSE]
        /\ touched = [s \in Sources |-> {}]
        /\ stale = [s \in Sources |-> {}]
        /\ now = 0

Tick == /\ now < MaxTime /\ now' = now + 1
        /\ UNCHANGED <<srcs, counter, ports_key, ports, out, touched, stale>>

expire_entries == T!Expire(srcs, now - expiration_time)

(* The keys in the slots from start to n_elems - 1 erased in that order.   *)
expire_items_single_map_iteratively(start, n_elems) ==
  LET cleaned[i \in start - 1 .. n_elems] ==
        IF i < start THEN ports ELSE Erase(cleaned[i - 1], ports_key, ports_key[i])
  IN  IF start < n_elems THEN cleaned[n_elems - 1] ELSE ports

(* The port saved and not counted.                                         *)
RecordUncounted(p, i, n, key) ==
  LET slot == max_ports * i + n
      keys == [ports_key EXCEPT ![slot] = key]
  IN  /\ HasRoom(p)
      /\ ports_key' = keys
      /\ ports' = Put(p, keys, slot)
      /\ UNCHANGED counter

(* The source at index i gets the port as the n-th of its row, in a map p. *)
Record(p, i, n, key) ==
  LET slot == max_ports * i + n
      keys == [ports_key EXCEPT ![slot] = key]
  IN  /\ HasRoom(p)        \* map_put into a full map is undefined
      /\ ports_key' = keys
      /\ ports' = Put(p, keys, slot)
      /\ counter' = [counter EXCEPT ![i] = n + 1]

Answer(device, pkt, fwd) == out' = [device |-> device, pkt |-> pkt, fwd |-> fwd]

(* The ports let through, for the sources that are tracked.                *)
Seen(src, port) ==
  touched' = [s \in Sources |->
                (IF s \in DOMAIN expire_entries.fm THEN touched[s] ELSE {})
                \cup (IF s = src /\ s \in DOMAIN srcs'.fm /\ out'.fwd THEN {port} ELSE {})]

(* A source that is not in the table; when it is full, none is tracked.    *)
allocate(t, src, port) ==
  \/ \E index \in T!FreeIndexes(t) :
       LET cleaned == expire_items_single_map_iteratively(index, counter[index])
       IN  /\ srcs' = T!AllocateAt(t, src, index, now)
           /\ Record(cleaned, index, 0, <<src, port>>)
           /\ stale' = [stale EXCEPT ![src] =
                          {p \in Ports : Has(cleaned, ports_key, <<src, p>>)}]
  \/ T!FreeIndexes(t) = {} /\ srcs' = t /\ UNCHANGED <<counter, ports_key, ports, stale>>

(* One port less.                                                          *)
AtLimitEarly(index) == counter[index] + 1 >= max_ports

AtLimit(index) == counter[index] >= max_ports

detect_port_scanning(t, src, port) ==
  LET index   == t.fm[src]
      present == Has(ports, ports_key, <<src, port>>)
  IN  \/ src \notin DOMAIN t.fm /\ allocate(t, src, port) /\ Answer("wan", <<src, port>>, TRUE)
      \/ /\ src \in DOMAIN t.fm
         /\ srcs' = T!Rejuvenate(t, index, now)
         /\ UNCHANGED stale
         /\ \/ present /\ Answer("wan", <<src, port>>, TRUE) /\ UNCHANGED <<counter, ports_key, ports>>
            \/ /\ ~present /\ AtLimit(index)
               /\ Answer("wan", <<src, port>>, FALSE) /\ UNCHANGED <<counter, ports_key, ports>>
            \/ /\ ~present /\ ~AtLimit(index)
               /\ Record(ports, index, counter[index], <<src, port>>)
               /\ Answer("wan", <<src, port>>, TRUE)

ProcessWan(src, port) ==
  detect_port_scanning(expire_entries, src, port) /\ Seen(src, port) /\ UNCHANGED now

(* Packets of the LAN, or of an unknown device, only expire sources.       *)
ProcessOther(device) ==
  /\ srcs' = expire_entries
  /\ Answer(device, NoPort, device = "lan")
  /\ touched' = [s \in Sources |-> IF s \in DOMAIN expire_entries.fm THEN touched[s] ELSE {}]
  /\ UNCHANGED <<counter, ports_key, ports, stale, now>>

Next == \/ Tick
        \/ \E src \in Sources, port \in Ports : ProcessWan(src, port)
        \/ \E device \in {"lan", "other"} : ProcessOther(device)

Spec == Init /\ [][Next]_vars
-----------------------------------------------------------------------------
TypeOK == /\ srcs \in T!Tables(Sources, 0 .. now)
          /\ counter \in [SrcIndexes -> 0 .. max_ports]
          /\ ports_key \in [PortSlots -> TouchedPorts]
          /\ ports.busybits \in [M!Slots -> BOOLEAN] /\ ports.keyps \in [M!Slots -> PortSlots]
          /\ touched \in [Sources -> SUBSET Ports] /\ stale \in [Sources -> SUBSET Ports]
          /\ now \in 0 .. MaxTime

(* A source that stays tracked gets no more than max_ports ports through,  *)
(* the "maximum allowed number of touched ports" of the configuration, but *)
(* for those that the cleanup left in the map from when it was tracked     *)
(* before: these pass and are not counted.                                 *)
ScanStopped == \A s \in Sources : Cardinality(touched[s] \ stale[s]) <= max_ports

(* A packet is dropped only if its source has got max_ports other ports    *)
(* through while it was tracked: nothing another source does, and nothing  *)
(* left of an earlier owner of the index, makes a source a scanner.        *)
NoFalseAlarm ==
  \A s \in Sources, p \in Ports :
     (now' = now /\ out'.pkt = <<s, p>> /\ ~out'.fwd)
       => Cardinality(touched[s] \ {p}) >= max_ports

Entries == {s \in M!Slots : ports.busybits[s]}

(* The map holds exactly the ports of the rows in use, each under the hash *)
(* of its key: no entry outlives the cleanup of its row, and no port of a  *)
(* source passes uncounted.  The cleanup has this effect at index 0 only,  *)
(* where its range starts at the row.                                      *)
PortsExact ==
  /\ \A s \in Sources : stale[s] = {}
  /\ {ports.keyps[s] : s \in Entries}
       = UNION {max_ports * i .. max_ports * i + counter[i] - 1 : i \in SrcIndexes}
  /\ \A s \in Entries : /\ ports.k_hashes[s] = PortHash[ports_key[ports.keyps[s]]]
                         /\ \A r \in Entries : ports.keyps[r] = ports.keyps[s] => r = s
=============================================================================
