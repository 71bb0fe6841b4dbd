----------------------------- MODULE Fw_proofs -----------------------------
(***************************************************************************)
(* For every set of endpoints, devices and table capacity, and every       *)
(* expiration time: the containers of the firewall stay in step, and only  *)
(* packets of live flows enter.                                            *)
(***************************************************************************)
EXTENDS Fw, FlowState_proofs

(* The time stamp of a flow in the table is when it last passed.           *)
StampsIn(t) == \A id \in DOMAIN t.fm : passed[id] = t.heap[t.fm[id]]

(* The inductive invariant.                                                *)
IInv == /\ now \in Nat
        /\ passed \in [FlowIds -> Int]
        /\ table \in Tables(FlowIds, 0 .. now)
        /\ Coherent
        /\ StampsIn(table)

(* What expiration leaves: flows that passed within the expiration time.   *)
Live(t) == /\ t \in Tables(FlowIds, 0 .. now)
           /\ Coherence(t)
           /\ StampsIn(t)
           /\ \A id \in DOMAIN t.fm : passed[id] >= 0 /\ now - passed[id] <= expiration_time

(* A lookup comes after the expiration: it finds only such flows.          *)
LEMMA ExpireLive ==
  ASSUME FwAssumption, IInv, NEW u, u = flow_manager_expire(table)
  PROVE  Live(u)
<1> DEFINE Times == 0 .. now
           time == now - expiration_time
<1>1. /\ Times \subseteq Int /\ table \in Tables(FlowIds, Times) /\ Coherence(table)
      /\ time \in Int /\ u = Expire(table, time) /\ now \in Nat
  BY DEF FwAssumption, IInv, Coherent, flow_manager_expire
<1>2. \A n \in Times : n \in Int /\ n >= 0
  BY <1>1
<1>3. \A n \in Int : n >= time => now - n <= expiration_time
  BY <1>1 DEF FwAssumption
<1> HIDE DEF Times, time
<1>4. u \in Tables(FlowIds, Times) /\ Coherence(u) /\ Expired(table, time, u)
  BY <1>1, ExpireFacts
<1>5. \A id \in DOMAIN u.fm : /\ id \in DOMAIN table.fm /\ table.heap[table.fm[id]] >= time
                              /\ u.fm[id] = table.fm[id] /\ u.fm[id] \in DOMAIN u.heap
                              /\ u.heap[u.fm[id]] = table.heap[table.fm[id]]
  BY <1>4 DEF Expired, Coherence
<1>6. StampsIn(u)
  BY <1>5 DEF IInv, StampsIn
<1>7. \A i \in DOMAIN u.heap : u.heap[i] \in Times
  BY <1>4, TableElim
<1>8. \A id \in DOMAIN u.fm : passed[id] >= 0 /\ now - passed[id] <= expiration_time
  BY <1>2, <1>3, <1>5, <1>6, <1>7 DEF StampsIn
<1> QED BY <1>4, <1>6, <1>8 DEF Live, Times

(* A flow refreshed, or recorded at a free index, as its packet passes.    *)
LEMMA RefreshKeeps ==
  ASSUME IInv, NEW t, Live(t), NEW id \in DOMAIN t.fm,
         table' = Rejuvenate(t, t.fm[id], now), passed' = [passed EXCEPT ![id] = now], now' = now
  PROVE  IInv'
<1> DEFINE Times == 0 .. now
           index == t.fm[id]
<1>1. t \in Tables(FlowIds, Times) /\ now \in Times /\ Coherence(t)
  BY DEF IInv, Live
<1> HIDE DEF Times, index
<1>2. table' \in Tables(FlowIds, Times) /\ Coherence(table') /\ Rejuvenated(t, index, now, table')
  BY <1>1, RejuvenateFacts DEF index
<1>3. id \in FlowIds
  BY <1>1, TableElim
<1>4. passed' \in [FlowIds -> Int] /\ passed'[id] = now
      /\ \A k \in FlowIds : k # id => passed'[k] = passed[k]
  BY <1>3 DEF IInv
<1>5. \A k \in DOMAIN t.fm : /\ k \in FlowIds /\ t.fm[k] \in DOMAIN t.heap
                             /\ (k # id => t.fm[k] # index)
  BY <1>1, TableElim DEF Coherence, index
<1>6. StampsIn(table)'
  BY <1>2, <1>4, <1>5 DEF StampsIn, Rejuvenated, Live, index
<1> QED BY <1>2, <1>4, <1>6 DEF IInv, Coherent, Coherence, Times

LEMMA RecordKeeps ==
  ASSUME IInv, NEW t, Live(t), NEW id \in FlowIds, id \notin DOMAIN t.fm,
         NEW index \in FreeIndexes(t),
         table' = AllocateAt(t, id, index, now), passed' = [passed EXCEPT ![id] = now], now' = now
  PROVE  IInv'
<1> DEFINE Times == 0 .. now
<1>1. t \in Tables(FlowIds, Times) /\ now \in Times /\ Coherence(t)
  BY DEF IInv, Live
<1> HIDE DEF Times
<1>2. table' \in Tables(FlowIds, Times) /\ Coherence(table') /\ Allocated(t, id, index, now, table')
  BY <1>1, AllocateFacts
<1>3. passed' \in [FlowIds -> Int] /\ passed'[id] = now
      /\ \A k \in FlowIds : k # id => passed'[k] = passed[k]
  BY DEF IInv
<1>4. \A k \in DOMAIN t.fm : k \in FlowIds /\ t.fm[k] \in DOMAIN t.heap
  BY <1>1, TableElim DEF Coherence
<1>5. StampsIn(table)'
  BY <1>2, <1>3, <1>4 DEF StampsIn, Allocated, Live
<1> QED BY <1>2, <1>3, <1>5 DEF IInv, Coherent, Coherence, Times

(* Only the expired entries go; a flow that passes without being recorded  *)
(* is not in the table.                                                    *)
LEMMA ExpiredKeeps ==
  ASSUME IInv, NEW t, Live(t), table' = t, now' = now,
         passed' \in [FlowIds -> Int], \A id \in DOMAIN t.fm : passed'[id] = passed[id]
  PROVE  IInv'
BY DEF IInv, Live, StampsIn, Coherent, Coherence

LEMMA InitIInv == Init => IInv
<1> SUFFICES ASSUME Init PROVE IInv
  OBVIOUS
<1>1. table \in Tables(FlowIds, 0 .. now) /\ Coherence(table) /\ DOMAIN table.fm = {}
  BY NewTableFacts DEF Init
<1> QED BY <1>1 DEF Init, IInv, StampsIn, Coherent

LEMMA NextIInv ==
  ASSUME FwAssumption, IInv, [Next]_vars
  PROVE  IInv'
<1> PICK t : t = flow_manager_expire(table)
  OBVIOUS
<1>0. Live(t)
  BY ExpireLive
<1>1. CASE Tick
  <2>1. now' = now + 1 /\ table' = table /\ passed' = passed
    BY <1>1 DEF Tick
  <2>2. 0 .. now \subseteq 0 .. now'
    BY <2>1 DEF IInv
  <2>3. table' \in Tables(FlowIds, 0 .. now')
    BY <2>1, <2>2, TableLater DEF IInv
  <2> QED BY <2>1, <2>3 DEF IInv, StampsIn, Coherent, Coherence
<1>2. ASSUME NEW device \in Lan \cup {wan_device}, ProcessOther(device)
      PROVE  IInv'
  BY <1>0, <1>2, ExpiredKeeps DEF ProcessOther, IInv
<1>3. ASSUME NEW id \in FlowIds, ProcessWan(Reply(id))
      PROVE  IInv'
  <2>1. Reply(Reply(id)) = id
    BY DEF Reply, FlowIds
  <2>2. CASE id \in DOMAIN t.fm
    <3>1. /\ table' = Rejuvenate(t, t.fm[id], now) /\ now' = now
          /\ passed' = [passed EXCEPT ![id] = now]
      BY <1>3, <2>1, <2>2 DEF ProcessWan, flow_manager_get_refresh_flow
    <3> QED BY <1>0, <2>2, <3>1, RefreshKeeps
  <2>3. CASE id \notin DOMAIN t.fm
    <3>1. table' = t /\ now' = now /\ passed' = passed
      BY <1>3, <2>1, <2>3 DEF ProcessWan
    <3> QED BY <1>0, <3>1, ExpiredKeeps DEF IInv
  <2> QED BY <2>2, <2>3
<1>4. ASSUME NEW id \in FlowIds, NEW device \in Lan, ProcessLan(device, id)
      PROVE  IInv'
  <2>1. /\ allocate_or_refresh_flow(t, id, device) /\ now' = now
        /\ passed' = [passed EXCEPT ![id] = now]
    BY <1>4 DEF ProcessLan
  <2>2. CASE id \in DOMAIN t.fm /\ table' = Rejuvenate(t, t.fm[id], now)
    BY <1>0, <2>1, <2>2, RefreshKeeps
  <2>3. CASE id \notin DOMAIN t.fm /\ table' = t
    <3>1. /\ passed' \in [FlowIds -> Int] /\ DOMAIN t.fm \subseteq FlowIds
          /\ \A k \in FlowIds : k # id => passed'[k] = passed[k]
      BY <1>0, <2>1, TableElim DEF IInv, Live
    <3> QED BY <1>0, <2>1, <2>3, <3>1, ExpiredKeeps
  <2>4. CASE /\ id \notin DOMAIN t.fm
             /\ \E index \in FreeIndexes(t) : table' = AllocateAt(t, id, index, now)
    BY <1>0, <2>1, <2>4, RecordKeeps
  <2> QED BY <2>1, <2>2, <2>3, <2>4 DEF allocate_or_refresh_flow
<1>5. CASE UNCHANGED vars
  BY <1>5 DEF vars, IInv, StampsIn, Coherent, Coherence
<1> QED BY <1>1, <1>2, <1>3, <1>4, <1>5 DEF Next

(* A packet that comes in and passes belongs to a live flow.               *)
LEMMA EntersLive ==
  ASSUME FwAssumption, IInv, [Next]_vars, NEW id \in FlowIds,
         passed'[id] # passed[id], out'.device = wan_device
  PROVE  passed[id] >= 0 /\ now - passed[id] <= expiration_time
<1> PICK t : t = flow_manager_expire(table)
  OBVIOUS
<1>0. Live(t)
  BY ExpireLive
<1>1. CASE \/ Tick \/ UNCHANGED vars
           \/ \E device \in Lan \cup {wan_device} : ProcessOther(device)
  <2>1. passed' = passed
    BY <1>1 DEF Tick, vars, ProcessOther
  <2> QED BY <2>1
<1>2. ASSUME NEW k \in FlowIds, ProcessWan(Reply(k))
      PROVE  passed[id] >= 0 /\ now - passed[id] <= expiration_time
  <2>1. Reply(Reply(k)) = k
    BY DEF Reply, FlowIds
  <2>2. CASE k \in DOMAIN t.fm
    <3>1. passed' = [passed EXCEPT ![k] = now] /\ passed \in [FlowIds -> Int]
      BY <1>2, <2>1, <2>2 DEF ProcessWan, IInv
    <3>2. k = id
      BY <3>1
    <3> QED BY <1>0, <2>2, <3>2 DEF Live
  <2>3. CASE k \notin DOMAIN t.fm
    BY <1>2, <2>1, <2>3 DEF ProcessWan
  <2> QED BY <2>2, <2>3
<1>3. ASSUME NEW k \in FlowIds, NEW device \in Lan, ProcessLan(device, k)
      PROVE  passed[id] >= 0 /\ now - passed[id] <= expiration_time
  <2>1. out'.device = device
    BY <1>3 DEF ProcessLan, Forward
  <2> QED BY <2>1 DEF FwAssumption
<1> QED BY <1>1, <1>2, <1>3 DEF Next

(* Map, vector and chain of the firewall stay in step for every capacity   *)
(* and whatever packets come.                                              *)
THEOREM SpecCoherent ==
  ASSUME FwAssumption PROVE Spec => []Coherent
<1>1. IInv /\ [Next]_vars => IInv'
  BY NextIInv
<1>2. IInv => Coherent
  BY DEF IInv
<1> QED BY <1>1, <1>2, InitIInv, PTL DEF Spec

(* For every capacity and expiration time: a packet from outside passes    *)
(* only when its flow has gone out before and has not been quiet for more  *)
(* than the expiration time since.                                         *)
THEOREM SpecOnlyLiveFlowsEnter ==
  ASSUME FwAssumption PROVE Spec => OnlyLiveFlowsEnter
<1>1. IInv /\ [Next]_vars => IInv'
  BY NextIInv
<1>2. IInv /\ [Next]_vars => [EntersOnlyLive]_vars
  BY EntersLive DEF EntersOnlyLive
<1> QED BY <1>1, <1>2, InitIInv, PTL DEF Spec, OnlyLiveFlowsEnter
=============================================================================
