----------------------------- MODULE RssConfig -----------------------------
(***************************************************************************)
(* How the shared-nothing runtime gets its RSS keys                        *)
(* (synthesized/rss-config-from-lvas): from a log of the accesses that     *)
(* every call path of a network function makes to its containers, the      *)
(* builder derives which packets must reach the same lcore, and asks the   *)
(* R3S solver for keys that send them there.  One action per call of the   *)
(* constructor of RSSConfigBuilder.                                        *)
(*                                                                         *)
(* An expression is the sequence of the packet fields, or symbols, that it *)
(* concatenates; a packet gives a value to every field that RSS can hash.  *)
(***************************************************************************)
EXTENDS Integers, Sequences, FiniteSets, SequencesExt

CONSTANTS LogKinds,        \* the logs to start from: "lookups", "indexes"
          Values           \* what a field can hold

VARIABLES accesses, call_paths_constraints,
          trimmed_accesses, libvig_access_constraints,
          unique_devices, unique_packet_fields, rss_options,
          constraints, rss_keys,
          next,            \* analyse_dchain_interpretations: the next access
          pc

vars == <<accesses, call_paths_constraints, trimmed_accesses, libvig_access_constraints,
          unique_devices, unique_packet_fields, rss_options, constraints, rss_keys, next, pc>>

RssAssumption == LogKinds \subseteq {"lookups", "indexes"} /\ Values # {}

NotSet == -1

(* R3S_pf_t, the fields RSS hashes, and one that it does not.              *)
Fields == {"src", "dst"}

OtherFields == {"mac"}

Packets == [Fields -> Values]

Devices == {0, 1}

Keys == {<<f>> : f \in Fields \cup OtherFields} \cup {<<"src", "dst">>, <<"dst", "src">>}
-----------------------------------------------------------------------------
(* The logs of functions that look up one or two objects with keys taken   *)
(* from the packet, on one device or both.  A look-up has two outcomes, so *)
(* that every one is in two call paths; only in the second may it be       *)
(* followed by a write.                                                    *)
Sites == [device : Devices, object : {"A", "B"}, key : Keys, op : {"READ", "WRITE"}]

LookUp(s, path) ==
  [file |-> <<s.device, path>>, device |-> s.device, dst |-> 1 - s.device, object |-> s.object,
   op |-> IF path = 1 THEN "READ" ELSE s.op, interface |-> "map_get", data_structure |-> "map",
   success |-> NotSet, reads |-> TRUE, key |-> s.key, value |-> "index"]

Nests(k, l) == IsPrefix(k, l) \/ IsPrefix(l, k)

(* What the builder needs for its keys to be right: an object has keys of  *)
(* one length, a device reads the fields in one order, and if not all keys *)
(* are of the same fields then they are all used on one device.            *)
Nested(ss) ==
  \A s, t \in Range(ss) :
    /\ s.object = t.object => Len(s.key) = Len(t.key)
    /\ s.device = t.device => Nests(s.key, t.key)
    /\ Range(s.key) # Range(t.key) => s.device = t.device

LookUpLogs ==
  {[accesses |-> [i \in DOMAIN ss |-> LookUp(ss[i], 1)] \o [i \in DOMAIN ss |-> LookUp(ss[i], 2)],
    call_paths_constraints |-> <<>>] :
     ss \in {t \in [1 .. 2 -> Sites] \cup [1 .. 3 -> {s \in Sites : s.op = "WRITE"}] : Nested(t)}}

(* The logs of a translator: the LAN keys a map with the whole packet and  *)
(* allocates an index, which the WAN finds in a field of the packet,       *)
(* checks, and uses; "w2" are the replies to "l1" and "l2", if the log     *)
(* says so, and "w3" what has found an index of someone else: sent to d3,  *)
(* it stores v3 with the operation op3.                                    *)
Chain(f, dev, dst, op, ok, key) ==
  [file |-> f, device |-> dev, dst |-> dst, object |-> "chain", op |-> op,
   interface |-> IF op = "VERIFY" THEN "dchain_is_index_allocated" ELSE "dchain_",
   data_structure |-> "dchain", success |-> ok, reads |-> op # "CREATE", key |-> key, value |-> ""]

Store(f, dev, dst, obj, op, key, v) ==
  [file |-> f, device |-> dev, dst |-> dst, object |-> obj, op |-> op, interface |-> obj,
   data_structure |-> obj, success |-> NotSet, reads |-> TRUE, key |-> key, value |-> v]

IndexLog(flow, index, d3, op3, v3, replies) ==
  [accesses |->
     << Store("l1", 0, 1, "map", "READ", flow, "index"), Chain("l1", 0, 1, "CREATE", 1, <<>>),
        Store("l1", 0, 1, "map", "WRITE", flow, "index"),
        Store("l1", 0, 1, "vector", "WRITE", <<"new_index">>, "flow"),
        Store("l2", 0, 1, "map", "READ", flow, "index"),
        Chain("l2", 0, 1, "UPDATE", NotSet, <<"allocated_index">>),
        Chain("w1", 1, NotSet, "VERIFY", 0, index),
        Chain("w2", 1, 0, "VERIFY", 1, index), Store("w2", 1, 0, "vector", "READ", index, "flow"),
        Chain("w3", 1, d3, "VERIFY", 1, index), Store("w3", 1, d3, "vector", "READ", index, "flow"),
        Store("w3", 1, d3, "vector", op3, index, v3) >>,
   call_paths_constraints |->
     IF replies THEN [i \in 1 .. 2 |-> [source |-> "w2", pair |-> <<"l1", "l2">>[i],
                                        source_key |-> <<"src">>, pair_key |-> <<"dst">>]]
     ELSE <<>>]

IndexLogs ==
  {IndexLog(flow, index, d3, op3, v3, replies) :
     flow \in {<<"src", "dst">>, <<"src">>}, index \in {<<"dst">>, <<"new_index">>},
     d3 \in {0, NotSet}, op3 \in {"READ", "WRITE", "UPDATE"}, v3 \in {"flow", "other"},
     replies \in BOOLEAN}

(* The log of a balancer, which has backends chosen by a hash table.       *)
BalancerLog ==
  [accesses |-> << [Store("l1", 0, 1, "cht", "UPDATE", <<"src">>, "")
                      EXCEPT !.interface = "cht_find_preferred_available_backend"] >>,
   call_paths_constraints |-> <<>>]

Logs == (IF "lookups" \in LogKinds THEN LookUpLogs ELSE {})
          \cup (IF "indexes" \in LogKinds THEN IndexLogs \cup {BalancerLog} ELSE {})

Init == /\ \E l \in Logs : /\ accesses = l.accesses
                           /\ call_paths_constraints = l.call_paths_constraints
        /\ trimmed_accesses = <<>> /\ libvig_access_constraints = <<>>
        /\ unique_devices = {} /\ unique_packet_fields = {} /\ rss_options = {}
        /\ constraints = <<>> /\ rss_keys = <<>> /\ next = 1
        /\ pc = "devices"

log == <<accesses, call_paths_constraints>>

exit == /\ pc' = "exit"
        /\ UNCHANGED <<log, trimmed_accesses, libvig_access_constraints, unique_devices,
                       unique_packet_fields, rss_options, constraints, rss_keys, next>>
-----------------------------------------------------------------------------
(* DependencyManager::get_unique_packet_fields.                            *)
get_unique_packet_fields(key) == Range(key) \cap Fields

(* Constraint::get_packet_fields; if both accesses are of one device, the  *)
(* fields are those of the first.                                          *)
get_packet_fields(c, device) ==
  get_unique_packet_fields(IF c.first.device = device THEN c.first.key ELSE c.second.key)

InPacket(c) == (Range(c.first.key) \cup Range(c.second.key)) \cap (Fields \cup OtherFields)

NotInPacket(c) == (Range(c.first.key) \cup Range(c.second.key)) \ (Fields \cup OtherFields)

(* The device with the higher number comes first.                          *)
LibvigAccessConstraint(a, b) ==
  IF a.device >= b.device THEN [first |-> a, second |-> b] ELSE [first |-> b, second |-> a]

Writes == {"WRITE", "CREATE", "UPDATE"}
-----------------------------------------------------------------------------
fill_unique_devices ==
  /\ pc = "devices" /\ pc' = "trim"
  /\ LET used == {a.device : a \in Range(accesses)}
                   \cup ({a.dst : a \in Range(accesses)} \ {NotSet})
     IN unique_devices' = IF used = {} THEN {0, 1} ELSE used
  /\ UNCHANGED <<log, trimmed_accesses, libvig_access_constraints, unique_packet_fields,
                 rss_options, constraints, rss_keys, next>>

(* device_per_call_path: the last access of the call path decides.         *)
device_per_call_path(file) ==
  LET mine == SelectSeq(accesses, LAMBDA a : a.file = file) IN Last(mine).device

(* Objects that are only read need no constraints.                         *)
filter_reads_without_writes_on_objects ==
  /\ pc = "trim" /\ pc' = "fill"
  /\ LET ops(o) == {a.op : a \in {b \in Range(accesses) : b.object = o}}
     IN trimmed_accesses' =
          SelectSeq(accesses, LAMBDA a : \/ ops(a.object) \cap {"READ", "VERIFY"} = {}
                                         \/ ops(a.object) \cap Writes # {})
  /\ UNCHANGED <<log, libvig_access_constraints, unique_devices, unique_packet_fields,
                 rss_options, constraints, rss_keys, next>>

OnOneDevice(a, b) ==
  a.object = b.object /\ a.file # b.file /\ a.reads /\ b.reads /\ a.device = b.device

(* Two call paths that look up the same object.                            *)
Constrained(a, b) == a.object = b.object /\ a.file # b.file /\ a.reads /\ b.reads

(* check_incompatible_dependencies looks twice at the first access.        *)
fill_libvig_access_constraints ==
  /\ pc = "fill"
  /\ LET n == Len(trimmed_accesses)
         first(k) == trimmed_accesses[1 + ((k - 1) \div n)]
         second(k) == trimmed_accesses[1 + ((k - 1) % n)]
         pairs == SelectSeq([k \in 1 .. n * n |-> k], LAMBDA k :
                    (k - 1) \div n < (k - 1) % n /\ Constrained(first(k), second(k)))
         found == [i \in DOMAIN pairs |-> LibvigAccessConstraint(first(pairs[i]), second(pairs[i]))]
     IN IF \E c \in Range(found) : Range(c.first.key) \cap OtherFields # {}
        THEN exit
        ELSE /\ pc' = "analyse"
             /\ libvig_access_constraints' = found
             /\ unique_packet_fields' =
                  UNION {get_unique_packet_fields(c.first.key)
                           \cup get_unique_packet_fields(c.second.key) : c \in Range(found)}
             /\ UNCHANGED <<log, trimmed_accesses, unique_devices, rss_options, constraints,
                            rss_keys, next>>
-----------------------------------------------------------------------------
CallPath(file) == SelectSeq(trimmed_accesses, LAMBDA a : a.file = file)

(* A write changes nothing if it puts back what the first read of such a   *)
(* data structure returned.                                                *)
is_write_modifying(cp, write) ==
  LET reads == SelectSeq(cp, LAMBDA a : a.op = "READ" /\ a.data_structure = write.data_structure)
  IN \/ write.op = "UPDATE" \/ reads = <<>>
     \/ reads # <<>> /\ Head(reads).value # write.value

are_call_paths_equivalent(cp1, cp2) ==
  /\ \A a \in Range(cp1) \cup Range(cp2) : a.dst = cp1[1].dst
  /\ \A cp \in {cp1, cp2} : \A w \in Range(cp) :
       w.op \in {"WRITE", "UPDATE"} => ~is_write_modifying(cp, w)

Verifications(cp, success) ==
  \E a \in Range(cp) : a.interface = "dchain_is_index_allocated" /\ a.success = success

Files == {a.file : a \in Range(trimmed_accesses)}

FailedPaths == {f \in Files : Verifications(CallPath(f), 0)}

SuccessfulPaths == {f \in Files \ FailedPaths : Verifications(CallPath(f), 1)}

(* Successful ones that no other call path has to go with.                 *)
UnmatchedPaths ==
  {f \in SuccessfulPaths : \A c \in Range(call_paths_constraints) : c.source # f}

(* remove_constraints_from_object, remove_equivalent_index_dchain_-        *)
(* constraints, remove_constraints_with_pfs.                               *)
Removed(c, v) ==
  LET pfs == get_unique_packet_fields(v.key)
  IN \/ c.first.object = v.object
     \/ /\ v.device \in {c.first.device, c.second.device}
        /\ \/ "new_index" \in NotInPacket(c) /\ pfs \subseteq get_packet_fields(c, v.device)
           \/ /\ {c.first.file, c.second.file} \cap SuccessfulPaths # {}
              /\ pfs = get_packet_fields(c, v.device)

(* The assertion of get_packet_fields, in remove_constraints_with_pfs.     *)
AssertionFails(v) ==
  \E c \in Range(libvig_access_constraints) :
    /\ c.first.object # v.object
    /\ {c.first.file, c.second.file} \cap SuccessfulPaths # {}
    /\ v.device \notin {c.first.device, c.second.device}

verify_dchain_correctness(v) ==
  IF get_unique_packet_fields(v.key) = {}
  THEN UNCHANGED <<libvig_access_constraints, pc>>
  ELSE IF /\ \A f \in FailedPaths, g \in UnmatchedPaths :
               are_call_paths_equivalent(CallPath(f), CallPath(g))
          /\ ~AssertionFails(v)
  THEN /\ libvig_access_constraints' =
            SelectSeq(libvig_access_constraints, LAMBDA c : ~Removed(c, v))
       /\ UNCHANGED pc
  ELSE pc' = "exit" /\ UNCHANGED libvig_access_constraints

(* One round of the loop.                                                  *)
analyse_dchain_interpretations ==
  /\ pc = "analyse" /\ next <= Len(trimmed_accesses) /\ next' = next + 1
  /\ LET a == trimmed_accesses[next]
     IN IF a.interface = "cht_find_preferred_available_backend"
        THEN pc' = "exit" /\ UNCHANGED libvig_access_constraints
        ELSE IF a.op = "VERIFY" THEN verify_dchain_correctness(a)
        ELSE UNCHANGED <<libvig_access_constraints, pc>>
  /\ UNCHANGED <<log, trimmed_accesses, unique_devices, unique_packet_fields, rss_options,
                 constraints, rss_keys>>

load_rss_config_options ==
  /\ pc = "analyse" /\ next > Len(trimmed_accesses) /\ pc' = "generate"
  /\ rss_options' = IF libvig_access_constraints = <<>> THEN Fields ELSE unique_packet_fields
  /\ UNCHANGED <<log, trimmed_accesses, libvig_access_constraints, unique_devices,
                 unique_packet_fields, constraints, rss_keys, next>>
-----------------------------------------------------------------------------
(* CallPathsConstraint::process.                                           *)
Processed(c) ==
  [first  |-> [device |-> device_per_call_path(c.source), key |-> c.source_key],
   second |-> [device |-> device_per_call_path(c.pair), key |-> c.pair_key]]

With(f, d, x) == [e \in DOMAIN f \cup {d} |-> IF e = d THEN x ELSE f[e]]

(* A constraint between call paths narrows the fields of its two devices.  *)
AddCallPaths(g, c) ==
  LET narrow(per, d) == With(per, d, IF d \in DOMAIN per
                                     THEN per[d] \cap get_packet_fields(c, d)
                                     ELSE get_packet_fields(c, d))
  IN [g EXCEPT !.fields = narrow(narrow(@, c.first.device), c.second.device),
               !.list = Append(@, c)]

(* analyse_constraint ends the program on what it cannot interpret.        *)
Unknown(c) == \/ NotInPacket(c) # {} /\ InPacket(c) # {}
              \/ ~(NotInPacket(c) \subseteq {"new_index", "allocated_index"})

(* The first constraint that a device meets only sets its fields.          *)
AddAccesses(g, cd) ==
  LET c == cd[1]
      d == cd[2]
      fields == get_packet_fields(c, d)
  IN IF g.exit \/ Unknown(c) THEN [g EXCEPT !.exit = TRUE]
     ELSE IF InPacket(c) = {} THEN g
     ELSE IF d \notin DOMAIN g.fields THEN [g EXCEPT !.fields = With(@, d, fields)]
     ELSE IF g.fields[d] \cap fields = {} THEN [g EXCEPT !.exit = TRUE]
     ELSE [g EXCEPT !.fields[d] = @ \cap fields, !.list = Append(@, c)]

(* Every constraint with its first device, then with its second.           *)
PerDevice(cs) == FlattenSeq([i \in DOMAIN cs |-> << <<cs[i], cs[i].first.device>>,
                                                   <<cs[i], cs[i].second.device>> >>])

generate_solver_constraints ==
  /\ pc = "generate"
  /\ LET nothing == [fields |-> [d \in {} |-> {}], list |-> <<>>, exit |-> FALSE]
         paths == [i \in DOMAIN call_paths_constraints |-> Processed(call_paths_constraints[i])]
         g == FoldLeft(AddAccesses, FoldLeft(AddCallPaths, nothing, paths),
                       PerDevice(libvig_access_constraints))
     IN IF g.exit THEN exit
        ELSE /\ pc' = "filter" /\ constraints' = g.list
             /\ UNCHANGED <<log, trimmed_accesses, libvig_access_constraints, unique_devices,
                            unique_packet_fields, rss_options, rss_keys, next>>

(* The smallest set of fields, unless one is not part of the other.        *)
Smaller(s, cd) ==
  LET fields == get_packet_fields(cd[1], cd[2])
  IN IF s.stop \/ fields = {} \/ Cardinality(fields) >= Cardinality(s.pfs) THEN s
     ELSE IF fields \subseteq s.pfs THEN [s EXCEPT !.pfs = fields] ELSE [s EXCEPT !.stop = TRUE]

filter_constraints ==
  /\ pc = "filter" /\ pc' = "build"
  /\ LET s == FoldLeft(Smaller, [pfs |-> unique_packet_fields, stop |-> FALSE],
                       PerDevice(constraints))
         kept(c) == \A d \in {c.first.device, c.second.device} : get_packet_fields(c, d) = s.pfs
     IN constraints' = IF s.stop \/ s.pfs = unique_packet_fields THEN constraints
                       ELSE SelectSeq(constraints, kept)
  /\ UNCHANGED <<log, trimmed_accesses, libvig_access_constraints, unique_devices,
                 unique_packet_fields, rss_options, rss_keys, next>>
-----------------------------------------------------------------------------
Key(key, packet) == [i \in DOMAIN key |-> packet[key[i]]]

(* get_constraints_between_devices, without those for which                *)
(* constraint_to_solver_input has no answer.                               *)
Between(d1, d2) == {c \in Range(constraints) : /\ c.first.device = d1 /\ c.second.device = d2
                                               /\ InPacket(c) \subseteq Fields}

(* The conjunction of the constraints between the devices, if there are    *)
(* any.                                                                    *)
make_solver_constraints(x, y) ==
  /\ Between(x[1], y[1]) # {}
  /\ \A c \in Between(x[1], y[1]) : Key(c.first.key, x[2]) = Key(c.second.key, y[2])

(* A key for every device, whose number is taken to be its index.          *)
Arrivals == (0 .. (Cardinality(unique_devices) - 1)) \X Packets

Merge(xy, together) ==
  LET both == together[xy[1]] \cup together[xy[2]]
  IN [z \in DOMAIN together |-> IF z \in both THEN both ELSE together[z]]

(* External: keys under which any two packets that satisfy the constraints *)
(* hash to the same lcore; for every packet, those that share its lcore    *)
(* under all such keys.                                                    *)
R3S_keys_fit_cnstrs ==
  FoldSet(Merge, [x \in Arrivals |-> {x}],
          {xy \in Arrivals \X Arrivals : make_solver_constraints(xy[1], xy[2])})

(* Without constraints the keys are random, and the solver may give up.    *)
build_rss_config ==
  /\ pc = "build"
  /\ \/ /\ pc' = "done"
        /\ rss_keys' = IF constraints = <<>> THEN [x \in Arrivals |-> {x}] ELSE R3S_keys_fit_cnstrs
        /\ UNCHANGED <<log, trimmed_accesses, libvig_access_constraints, unique_devices,
                       unique_packet_fields, rss_options, constraints, next>>
     \/ constraints # <<>> /\ exit

Finished == pc \in {"done", "exit"} /\ UNCHANGED vars

Next == \/ fill_unique_devices \/ filter_reads_without_writes_on_objects
        \/ fill_libvig_access_constraints \/ analyse_dchain_interpretations
        \/ load_rss_config_options \/ generate_solver_constraints \/ filter_constraints
        \/ build_rss_config \/ Finished

Spec == Init /\ [][Next]_vars
-----------------------------------------------------------------------------
(* An index that the call path has had verified, not a key of its own.     *)
IsIndex(a) == \E v \in Range(accesses) : v.op = "VERIFY" /\ v.file = a.file /\ v.key = a.key

Shared(o) == \E a \in Range(accesses) : a.object = o /\ a.op \in Writes

ByPacket(a) == a.reads /\ Range(a.key) \cap (Fields \cup OtherFields) # {} /\ ~IsIndex(a)

(* Shared nothing: two packets with which call paths look up the same      *)
(* entry of an object that is written to are sent to the same lcore by the *)
(* keys that come out.                                                     *)
SameEntrySameLcore ==
  pc = "done" =>
    \A a, b \in {c \in Range(accesses) : ByPacket(c) /\ Shared(c.object)} :
      a.object = b.object =>
        \A p, q \in Packets : Key(a.key, p) = Key(b.key, q) =>
                                <<b.device, q>> \in rss_keys[<<a.device, p>>]

(* The solver is left out only if there is nothing to ask it.              *)
(* build_rss_config: "No constraints. Generating random keys."             *)
RandomOnlyIfFree ==
  pc = "done" /\ constraints = <<>> =>
    \A c \in Range(libvig_access_constraints) : InPacket(c) = {}

Changes(a) == \/ a.op = "UPDATE"
              \/ /\ a.op = "WRITE"
                 /\ ~\E r \in Range(accesses) : /\ r.op = "READ" /\ r.file = a.file
                                               /\ r.object = a.object /\ r.value = a.value

(* Packets whose index another lcore allocated: where the check of the     *)
(* index fails, the packet has the fate that it has where the check        *)
(* succeeds and no flow claims the packet, and nothing is written.         *)
LostIndexHarmless ==
  pc = "done" =>
    \A a, b \in Range(accesses) :
      /\ a.file \in FailedPaths /\ b.file \in UnmatchedPaths
      /\ \E v \in Range(trimmed_accesses) : v.op = "VERIFY" /\ Range(v.key) \cap Fields # {}
      => a.dst = b.dst /\ ~Changes(a) /\ ~Changes(b)
=============================================================================
