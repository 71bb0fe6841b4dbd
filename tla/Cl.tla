--------------------------------- MODULE Cl ---------------------------------
(***************************************************************************)
(* The connection limiter (vigcl/cl_main.c) and its sketch                 *)
(* (libvig/unverified/sketch.c): a table of flows, and per row of the      *)
(* sketch a double chain and a vector of counters, with one map from       *)
(* hashes to indexes for all the rows.  nf_process is one step.            *)
(***************************************************************************)
EXTENDS Integers, FiniteSets

CONSTANTS Clients, Ports,
          max_flows,
          capacity,            \* sketch_capacity: hashes and counters of a row
          SketchHash,          \* row, client -> hash, below the capacity
          threshold,           \* max_clients
          Garbage,             \* what malloc may leave in a counter
          flow_expiration_time, client_expiration_time,
          MaxTime              \* bound: the clock stops here

VARIABLES table,               \* flows, flows_keys and flow_allocator
          clients,             \* map: hash -> index
          keys,                \* row -> vector: index -> hash
          buckets,             \* row -> vector: index -> counter
          allocators,          \* row -> double chain: index -> time
          fwd,                 \* the flow of the last packet, and if it was forwarded
          counted, last,       \* history: hash -> flows let in and when it was last used
          now

vars == <<table, clients, keys, buckets, allocators, fwd, counted, last, now>>

Rows   == DOMAIN SketchHash
Hashes == 0 .. (capacity - 1)

ClAssumption == /\ 0 \in Rows /\ capacity \in Nat \ {0} /\ max_flows \in Nat \ {0}
                /\ SketchHash \in [Rows -> [Clients -> Hashes]]
                /\ threshold \in Nat /\ Garbage \subseteq Nat
                /\ flow_expiration_time \in Nat \ {0} /\ client_expiration_time \in Nat \ {0}
                /\ MaxTime \in Nat

F == INSTANCE FlowState WITH Indexes <- 0 .. (max_flows - 1)

Flows == [client : Clients, port : Ports]

NoFlow == [client |-> "none", port |-> "none", new |-> FALSE, fwd |-> FALSE]

Without(f, S) == [x \in DOMAIN f \ S |-> f[x]]
With(f, x, v) == [y \in DOMAIN f \cup {x} |-> IF y = x THEN v ELSE f[y]]

(* bucket_allocate leaves the counters as they are.                        *)
sketch_allocate ==
  /\ clients = [h \in {} |-> 0]
  /\ keys = [r \in Rows |-> [i \in Hashes |-> 0]]
  /\ \E left \in Garbage : buckets = [r \in Rows |-> [i \in Hashes |-> left]]
  /\ allocators = [r \in Rows |-> [i \in {} |-> 0]]

Init == /\ table \in F!NewTables(Flows)
        /\ sketch_allocate
        /\ fwd = NoFlow
        /\ counted = [h \in Hashes |-> 0] /\ last = [h \in Hashes |-> -1]
        /\ now = 0

Tick == /\ now < MaxTime /\ now' = now + 1
        /\ UNCHANGED <<table, clients, keys, buckets, allocators, fwd, counted, last>>

(* The indexes expired in a row and the hashes stored there.               *)
Old(row) == {i \in DOMAIN allocators[row] :
               allocators[row][i] < now - client_expiration_time}

(* The hashes left in the map.                                             *)
sketch_expire_keep == [clients    |-> clients,
                       allocators |-> [r \in Rows |-> Without(allocators[r], Old(r))]]

sketch_expire == [clients    |-> Without(clients, UNION {{keys[r][i] : i \in Old(r)} : r \in Rows}),
                  allocators |-> [r \in Rows |-> Without(allocators[r], Old(r))]]

expire_flows == F!Expire(table, now - flow_expiration_time)

(* In every row: an index that is not found, or not allocated in the row,  *)
(* is not rejuvenated.                                                     *)
sketch_refresh(s, client) ==
  [s EXCEPT !.allocators =
     [r \in Rows |-> LET h == SketchHash[r][client]
                     IN  IF h \in DOMAIN s.clients /\ s.clients[h] \in DOMAIN s.allocators[r]
                         THEN [s.allocators[r] EXCEPT ![s.clients[h]] = now]
                         ELSE s.allocators[r]]]

(* The least counter of the rows whose hash is found, whether or not its   *)
(* row has set it, is above the threshold.                                 *)
sketch_fetch(s, client) ==
  LET present == {r \in Rows : SketchHash[r][client] \in DOMAIN s.clients}
      value(r) == buckets[r][s.clients[SketchHash[r][client]]]
  IN  present # {} /\ \A r \in present : value(r) > threshold

(* The counters are left alone.                                            *)
SketchKept(s) ==
  clients' = s.clients /\ allocators' = s.allocators /\ UNCHANGED <<keys, buckets>>

(* The present hash counted and not rejuvenated.                           *)
sketch_touch_buckets_stale(s, client) ==
  LET h    == SketchHash[0][client]
      free == Hashes \ DOMAIN s.allocators[0]
  IN  IF h \in DOMAIN s.clients
      THEN /\ clients' = s.clients /\ allocators' = s.allocators
           /\ buckets' = [buckets EXCEPT ![0][s.clients[h]] = @ + 1]
           /\ UNCHANGED keys
      ELSE \E i \in free : /\ clients' = With(s.clients, h, i)
                           /\ allocators' = [s.allocators EXCEPT ![0] = With(@, i, now)]
                           /\ keys' = [keys EXCEPT ![0][i] = h]
                           /\ buckets' = [buckets EXCEPT ![0][i] = 0]

(* Every branch of the loop returns: only row 0 is counted.                *)
sketch_touch_buckets(s, client) ==
  LET h    == SketchHash[0][client]
      free == Hashes \ DOMAIN s.allocators[0]
  IN  IF h \in DOMAIN s.clients
      THEN LET i == s.clients[h]
           IN  /\ clients' = s.clients
               /\ allocators' = IF i \in DOMAIN s.allocators[0]
                                THEN [s.allocators EXCEPT ![0][i] = now] ELSE s.allocators
               /\ buckets' = [buckets EXCEPT ![0][i] = @ + 1]
               /\ UNCHANGED keys
      ELSE IF free = {} THEN SketchKept(s)
      ELSE \E i \in free : /\ clients' = With(s.clients, h, i)
                           /\ allocators' = [s.allocators EXCEPT ![0] = With(@, i, now)]
                           /\ keys' = [keys EXCEPT ![0][i] = h]
                           /\ buckets' = [buckets EXCEPT ![0][i] = 0]

(* The flows a window has let in: a hash quiet for longer than the         *)
(* expiration time of clients starts again.                                *)
Window(h) == IF last[h] < now - client_expiration_time THEN 0 ELSE counted[h]

Answer(flow, new, forward, h, n) ==
  /\ fwd' = [client |-> flow.client, port |-> flow.port, new |-> new, fwd |-> forward]
  /\ counted' = [x \in Hashes |-> IF x = h THEN n ELSE Window(x)]
  /\ last' = IF n > 0 /\ forward THEN [last EXCEPT ![h] = now] ELSE last

(* A refused flow keeps its place in the table.                            *)
limit_clients(t, s, flow) ==
  LET h == SketchHash[0][flow.client]
  IN  \/ /\ flow \in DOMAIN t.fm
         /\ table' = F!Rejuvenate(t, t.fm[flow], now)
         /\ SketchKept(sketch_refresh(s, flow.client))
         /\ Answer(flow, FALSE, TRUE, h, Window(h))
      \/ /\ flow \notin DOMAIN t.fm /\ F!FreeIndexes(t) = {}
         /\ table' = t
         /\ SketchKept(s)
         /\ fwd' = [client |-> flow.client, port |-> flow.port, new |-> FALSE, fwd |-> TRUE]
         /\ UNCHANGED <<counted, last>>
      \/ /\ flow \notin DOMAIN t.fm
         /\ \E index \in F!FreeIndexes(t) : table' = F!AllocateAt(t, flow, index, now)
         /\ IF sketch_fetch(s, flow.client)
            THEN SketchKept(s) /\ Answer(flow, TRUE, FALSE, h, Window(h))
            ELSE /\ sketch_touch_buckets(s, flow.client)
                 /\ Answer(flow, TRUE, TRUE, h, Window(h) + 1)

(* Packets that are not TCP or UDP over IPv4 are dropped at once.          *)
ProcessOther ==
  /\ fwd' = NoFlow
  /\ UNCHANGED <<table, clients, keys, buckets, allocators, counted, last, now>>

(* What does not come from outside is forwarded or dropped by its device.  *)
ProcessLan ==
  /\ table' = expire_flows
  /\ SketchKept(sketch_expire)
  /\ fwd' = NoFlow
  /\ UNCHANGED <<counted, last, now>>

ProcessWan(flow) == limit_clients(expire_flows, sketch_expire, flow) /\ UNCHANGED now

Next == \/ Tick
        \/ ProcessOther
        \/ ProcessLan
        \/ \E flow \in Flows : ProcessWan(flow)

Spec == Init /\ [][Next]_vars
-----------------------------------------------------------------------------
(* The clients with a hash in a further row that no client has in row 0.   *)
Alone == {c \in Clients : \A r \in Rows \ {0}, d \in Clients : SketchHash[r][c] # SketchHash[0][d]}

(* The containers of flows and of the sketch stay in step: the map holds   *)
(* the hashes stored at the allocated indexes of row 0 and no other row    *)
(* has any, so a new hash always finds a free index.                       *)
Coherent ==
  /\ F!Coherence(table)
  /\ \A r \in Rows \ {0} : DOMAIN allocators[r] = {}
  /\ {<<h, clients[h]>> : h \in DOMAIN clients}
       = {<<keys[0][i], i>> : i \in DOMAIN allocators[0]}

(* Where the limit is, for the clients the rows do not mix up: the first   *)
(* packet of a flow is let in exactly as long as the clients with its hash *)
(* have opened no more than threshold + 1 flows since they were last all   *)
(* quiet for the expiration time.  So threshold + 2 get in, the first of   *)
(* which sets the counter to 0, and neither garbage in the counters of the *)
(* other rows nor the expiry of flows moves the limit.                     *)
LimitExact ==
  (now' = now /\ fwd'.new /\ fwd'.client \in Alone)
    => fwd'.fwd = (Window(SketchHash[0][fwd'.client]) <= threshold + 1)

(* What the configuration says of the limit (cl_config.h: "Maximum allowed *)
(* number of clients"): of the flows the limiter counts, those of one hash *)
(* in a window, no more than that are let in.                              *)
WithinLimit == \A h \in Hashes : counted[h] <= threshold
=============================================================================
