--------------------------- MODULE NfLock_proofs ---------------------------
(***************************************************************************)
(* Mutual exclusion of nf_lock for any number of lcores, and the           *)
(* refinement of the abstract reader-writer lock.                          *)
(***************************************************************************)
EXTENDS NfLock, TLAPS

(* A worker still collecting tokens has one left to take.                  *)
CollectBound == \A l \in Lcores : pc[l] = "collect" => cursor[l] < N

(* The inductive invariant: who owns which atom.                           *)
IInv == TypeOK /\ CollectBound /\ TokenOwners

(* Before the first packet no lcore owns an atom of the lock.              *)
LEMMA InitIInv == Init => IInv
BY NAssumption
   DEF Init, InitLock, IInv, TypeOK, CollectBound, TokenOwners, TokenSet, TokenUnique,
       WriteSet, WriteUnique, Holds, HoldsWrite, Lcores, LoopPcs, StartPcs

(* Every step of worker_main keeps the ownership discipline; each action   *)
(* first says who holds which atom after it.                               *)
LEMMA NextIInv == IInv /\ [Next]_vars => IInv'
<1> SUFFICES ASSUME IInv, [Next]_vars PROVE IInv'
  OBVIOUS
<1> USE NAssumption DEF IInv
<1>1. ASSUME NEW l \in Lcores, Recv(l) PROVE IInv'
  <2>1. TypeOK' /\ CollectBound'
    BY <1>1 DEF Recv, Goto, TypeOK, CollectBound, Lcores, LoopPcs, StartPcs
  <2>2. \A k, t \in Lcores : Holds(k, t)' <=> Holds(k, t)
    BY <1>1 DEF Recv, Goto, TypeOK, CollectBound, Holds, Lcores
  <2>3. \A k \in Lcores : HoldsWrite(k)' <=> HoldsWrite(k)
    BY <1>1 DEF Recv, Goto, TypeOK, HoldsWrite, Lcores
  <2>4. TokenSet' /\ TokenUnique'
    BY <1>1, <2>2 DEF Recv, TypeOK, CollectBound, TokenOwners, TokenSet, TokenUnique, Lcores
  <2>5. WriteSet' /\ WriteUnique'
    BY <1>1, <2>3 DEF Recv, TypeOK, TokenOwners, WriteSet, WriteUnique, HoldsWrite
  <2> QED
    BY <2>1, <2>4, <2>5 DEF TokenOwners
<1>2. ASSUME NEW l \in Lcores, BlockWrites(l) PROVE IInv'
  <2>1. TypeOK' /\ CollectBound'
    BY <1>2 DEF BlockWrites, Goto, TypeOK, CollectBound, Lcores, LoopPcs, StartPcs
  <2>2. \A k, t \in Lcores : Holds(k, t)' <=> Holds(k, t) \/ (k = l /\ t = l)
    BY <1>2 DEF BlockWrites, Goto, TypeOK, CollectBound, Holds, Lcores
  <2>3. \A k \in Lcores : HoldsWrite(k)' <=> HoldsWrite(k)
    BY <1>2 DEF BlockWrites, Goto, TypeOK, HoldsWrite, Lcores
  <2>4. TokenSet' /\ TokenUnique'
    BY <1>2, <2>2 DEF BlockWrites, TypeOK, CollectBound, TokenOwners, TokenSet, TokenUnique, Lcores
  <2>5. WriteSet' /\ WriteUnique'
    BY <1>2, <2>3 DEF BlockWrites, TypeOK, TokenOwners, WriteSet, WriteUnique, HoldsWrite
  <2> QED
    BY <2>1, <2>4, <2>5 DEF TokenOwners
<1>3. ASSUME NEW l \in Lcores, EndRead(l) PROVE IInv'
  <2>1. TypeOK' /\ CollectBound'
    BY <1>3 DEF EndRead, Goto, TypeOK, CollectBound, Lcores, LoopPcs, StartPcs
  <2>2. \A k, t \in Lcores : Holds(k, t)' <=> Holds(k, t)
    BY <1>3 DEF EndRead, Goto, TypeOK, CollectBound, Holds, Lcores
  <2>3. \A k \in Lcores : HoldsWrite(k)' <=> HoldsWrite(k)
    BY <1>3 DEF EndRead, Goto, TypeOK, HoldsWrite, Lcores
  <2>4. TokenSet' /\ TokenUnique'
    BY <1>3, <2>2 DEF EndRead, TypeOK, CollectBound, TokenOwners, TokenSet, TokenUnique, Lcores
  <2>5. WriteSet' /\ WriteUnique'
    BY <1>3, <2>3 DEF EndRead, TypeOK, TokenOwners, WriteSet, WriteUnique, HoldsWrite
  <2> QED
    BY <2>1, <2>4, <2>5 DEF TokenOwners
<1>4. ASSUME NEW l \in Lcores, AllowWrites(l) PROVE IInv'
  <2>1. TypeOK' /\ CollectBound'
    BY <1>4 DEF AllowWrites, Goto, TypeOK, CollectBound, Lcores, LoopPcs, StartPcs
  <2>2. \A k, t \in Lcores : Holds(k, t)' <=> Holds(k, t) /\ ~(k = l /\ t = l)
    BY <1>4 DEF AllowWrites, Goto, TypeOK, CollectBound, Holds, Lcores
  <2>3. \A k \in Lcores : HoldsWrite(k)' <=> HoldsWrite(k)
    BY <1>4 DEF AllowWrites, Goto, TypeOK, HoldsWrite, Lcores
  <2>4. TokenSet' /\ TokenUnique'
    <3>1. Holds(l, l)
      BY <1>4 DEF AllowWrites, TypeOK, CollectBound, Holds, Lcores
    <3>2. TokenUnique'
      BY <1>4, <2>2, <3>1 DEF AllowWrites, TypeOK, TokenOwners, TokenSet, TokenUnique
    <3>3. TokenSet'
      BY <1>4, <2>2, <3>1 DEF AllowWrites, TypeOK, TokenOwners, TokenSet, TokenUnique
    <3> QED
      BY <3>2, <3>3
  <2>5. WriteSet' /\ WriteUnique'
    BY <1>4, <2>3 DEF AllowWrites, TypeOK, TokenOwners, WriteSet, WriteUnique, HoldsWrite
  <2> QED
    BY <2>1, <2>4, <2>5 DEF TokenOwners
<1>5. ASSUME NEW l \in Lcores, WriteLockClear(l) PROVE IInv'
  <2>1. TypeOK' /\ CollectBound'
    BY <1>5 DEF WriteLockClear, Goto, TypeOK, CollectBound, Lcores, LoopPcs, StartPcs
  <2>2. \A k, t \in Lcores : Holds(k, t)' <=> Holds(k, t) /\ ~(k = l /\ t = l)
    BY <1>5 DEF WriteLockClear, Goto, TypeOK, CollectBound, Holds, Lcores
  <2>3. \A k \in Lcores : HoldsWrite(k)' <=> HoldsWrite(k)
    BY <1>5 DEF WriteLockClear, Goto, TypeOK, HoldsWrite, Lcores
  <2>4. TokenSet' /\ TokenUnique'
    <3>1. Holds(l, l)
      BY <1>5 DEF WriteLockClear, TypeOK, CollectBound, Holds, Lcores
    <3>2. TokenUnique'
      BY <1>5, <2>2, <3>1 DEF WriteLockClear, TypeOK, TokenOwners, TokenSet, TokenUnique
    <3>3. TokenSet'
      BY <1>5, <2>2, <3>1 DEF WriteLockClear, TypeOK, TokenOwners, TokenSet, TokenUnique
    <3> QED
      BY <3>2, <3>3
  <2>5. WriteSet' /\ WriteUnique'
    BY <1>5, <2>3 DEF WriteLockClear, TypeOK, TokenOwners, WriteSet, WriteUnique, HoldsWrite
  <2> QED
    BY <2>1, <2>4, <2>5 DEF TokenOwners
<1>6. ASSUME NEW l \in Lcores, WriteLockAcquire(l) PROVE IInv'
  <2>1. TypeOK' /\ CollectBound'
    BY <1>6 DEF WriteLockAcquire, Goto, TypeOK, CollectBound, Lcores, LoopPcs, StartPcs
  <2>2. \A k, t \in Lcores : Holds(k, t)' <=> Holds(k, t)
    BY <1>6 DEF WriteLockAcquire, Goto, TypeOK, CollectBound, Holds, Lcores
  <2>3. \A k \in Lcores : HoldsWrite(k)' <=> HoldsWrite(k) \/ k = l
    BY <1>6 DEF WriteLockAcquire, Goto, TypeOK, HoldsWrite, Lcores
  <2>4. TokenSet' /\ TokenUnique'
    BY <1>6, <2>2 DEF WriteLockAcquire, TypeOK, CollectBound, TokenOwners, TokenSet, TokenUnique, Lcores
  <2>5. WriteSet' /\ WriteUnique'
    BY <1>6, <2>3 DEF WriteLockAcquire, TypeOK, TokenOwners, WriteSet, WriteUnique, HoldsWrite
  <2> QED
    BY <2>1, <2>4, <2>5 DEF TokenOwners
<1>7. ASSUME NEW l \in Lcores, WriteLockCollect(l) PROVE IInv'
  <2>1. TypeOK' /\ CollectBound'
    BY <1>7 DEF WriteLockCollect, Goto, TypeOK, CollectBound, Lcores, LoopPcs, StartPcs
  <2>2. \A k, t \in Lcores : Holds(k, t)' <=> Holds(k, t) \/ (k = l /\ t = cursor[l])
    BY <1>7 DEF WriteLockCollect, Goto, TypeOK, CollectBound, Holds, Lcores
  <2>3. \A k \in Lcores : HoldsWrite(k)' <=> HoldsWrite(k)
    BY <1>7 DEF WriteLockCollect, Goto, TypeOK, HoldsWrite, Lcores
  <2>4. TokenSet' /\ TokenUnique'
    <3>1. cursor[l] \in Lcores
      BY <1>7 DEF WriteLockCollect, TypeOK, CollectBound, Holds, Lcores
    <3>2. TokenUnique'
      BY <1>7, <2>2, <3>1 DEF WriteLockCollect, TypeOK, TokenOwners, TokenSet, TokenUnique
    <3>3. TokenSet'
      BY <1>7, <2>2, <3>1 DEF WriteLockCollect, TypeOK, TokenOwners, TokenSet, TokenUnique
    <3> QED
      BY <3>2, <3>3
  <2>5. WriteSet' /\ WriteUnique'
    BY <1>7, <2>3 DEF WriteLockCollect, TypeOK, TokenOwners, WriteSet, WriteUnique, HoldsWrite
  <2> QED
    BY <2>1, <2>4, <2>5 DEF TokenOwners
<1>8. ASSUME NEW l \in Lcores, EndWrite(l) PROVE IInv'
  <2>1. TypeOK' /\ CollectBound'
    BY <1>8 DEF EndWrite, Goto, TypeOK, CollectBound, Lcores, LoopPcs, StartPcs
  <2>2. \A k, t \in Lcores : Holds(k, t)' <=> Holds(k, t)
    BY <1>8 DEF EndWrite, Goto, TypeOK, CollectBound, Holds, Lcores
  <2>3. \A k \in Lcores : HoldsWrite(k)' <=> HoldsWrite(k)
    BY <1>8 DEF EndWrite, Goto, TypeOK, HoldsWrite, Lcores
  <2>4. TokenSet' /\ TokenUnique'
    BY <1>8, <2>2 DEF EndWrite, TypeOK, CollectBound, TokenOwners, TokenSet, TokenUnique, Lcores
  <2>5. WriteSet' /\ WriteUnique'
    BY <1>8, <2>3 DEF EndWrite, TypeOK, TokenOwners, WriteSet, WriteUnique, HoldsWrite
  <2> QED
    BY <2>1, <2>4, <2>5 DEF TokenOwners
<1>9. ASSUME NEW l \in Lcores, WriteUnlockToken(l) PROVE IInv'
  <2>1. TypeOK' /\ CollectBound'
    BY <1>9 DEF WriteUnlockToken, Goto, TypeOK, CollectBound, Lcores, LoopPcs, StartPcs
  <2>2. \A k, t \in Lcores : Holds(k, t)' <=> Holds(k, t) /\ ~(k = l /\ t = cursor[l])
    BY <1>9 DEF WriteUnlockToken, Goto, TypeOK, CollectBound, Holds, Lcores
  <2>3. \A k \in Lcores : HoldsWrite(k)' <=> HoldsWrite(k)
    BY <1>9 DEF WriteUnlockToken, Goto, TypeOK, HoldsWrite, Lcores
  <2>4. TokenSet' /\ TokenUnique'
    <3>1. cursor[l] \in Lcores /\ Holds(l, cursor[l])
      BY <1>9 DEF WriteUnlockToken, TypeOK, CollectBound, Holds, Lcores
    <3>2. TokenUnique'
      BY <1>9, <2>2, <3>1 DEF WriteUnlockToken, TypeOK, TokenOwners, TokenSet, TokenUnique
    <3>3. TokenSet'
      BY <1>9, <2>2, <3>1 DEF WriteUnlockToken, TypeOK, TokenOwners, TokenSet, TokenUnique
    <3> QED
      BY <3>2, <3>3
  <2>5. WriteSet' /\ WriteUnique'
    BY <1>9, <2>3 DEF WriteUnlockToken, TypeOK, TokenOwners, WriteSet, WriteUnique, HoldsWrite
  <2> QED
    BY <2>1, <2>4, <2>5 DEF TokenOwners
<1>10. ASSUME NEW l \in Lcores, WriteUnlock(l) PROVE IInv'
  <2>1. TypeOK' /\ CollectBound'
    BY <1>10 DEF WriteUnlock, Goto, TypeOK, CollectBound, Lcores, LoopPcs, StartPcs
  <2>2. \A k, t \in Lcores : Holds(k, t)' <=> Holds(k, t)
    BY <1>10 DEF WriteUnlock, Goto, TypeOK, CollectBound, Holds, Lcores
  <2>3. \A k \in Lcores : HoldsWrite(k)' <=> HoldsWrite(k) /\ k # l
    BY <1>10 DEF WriteUnlock, Goto, TypeOK, HoldsWrite, Lcores
  <2>4. TokenSet' /\ TokenUnique'
    BY <1>10, <2>2 DEF WriteUnlock, TypeOK, CollectBound, TokenOwners, TokenSet, TokenUnique, Lcores
  <2>5. WriteSet' /\ WriteUnique'
    BY <1>10, <2>3 DEF WriteUnlock, TypeOK, TokenOwners, WriteSet, WriteUnique, HoldsWrite
  <2> QED
    BY <2>1, <2>4, <2>5 DEF TokenOwners
<1>11. ASSUME NEW l \in Lcores, Send(l) PROVE IInv'
  <2>1. TypeOK' /\ CollectBound'
    BY <1>11 DEF Send, Goto, TypeOK, CollectBound, Lcores, LoopPcs, StartPcs
  <2>2. \A k, t \in Lcores : Holds(k, t)' <=> Holds(k, t)
    BY <1>11 DEF Send, Goto, TypeOK, CollectBound, Holds, Lcores
  <2>3. \A k \in Lcores : HoldsWrite(k)' <=> HoldsWrite(k)
    BY <1>11 DEF Send, Goto, TypeOK, HoldsWrite, Lcores
  <2>4. TokenSet' /\ TokenUnique'
    BY <1>11, <2>2 DEF Send, TypeOK, CollectBound, TokenOwners, TokenSet, TokenUnique, Lcores
  <2>5. WriteSet' /\ WriteUnique'
    BY <1>11, <2>3 DEF Send, TypeOK, TokenOwners, WriteSet, WriteUnique, HoldsWrite
  <2> QED
    BY <2>1, <2>4, <2>5 DEF TokenOwners
<1>12. CASE UNCHANGED vars
  BY <1>12 DEF vars, TypeOK, CollectBound, TokenOwners, TokenSet, TokenUnique,
     WriteSet, WriteUnique, Holds, HoldsWrite
<1> QED
  BY <1>1, <1>2, <1>3, <1>4, <1>5, <1>6, <1>7, <1>8, <1>9, <1>10, <1>11, <1>12
  DEF Next, Step
(* The ownership discipline holds in every state of the lock-based worker. *)
LEMMA Ownership == Spec => []IInv
<1>1. Init => IInv
  BY InitIInv
<1>2. IInv /\ [Next]_vars => IInv'
  BY NextIInv
<1> QED
  BY <1>1, <1>2, PTL DEF Spec

(* An atom of nf_lock is set exactly while one lcore holds it, for any     *)
(* number of lcores.                                                       *)
THEOREM SpecTokenOwners == Spec => []TokenOwners
BY Ownership, PTL DEF IInv

LEMMA IInvExclusion == IInv => Exclusion
<1> SUFFICES ASSUME IInv, NEW l \in Lcores, NEW k \in Lcores, InWrite(l), InProcess(k)
             PROVE l = k
  BY DEF Exclusion
<1>1. Holds(l, k) /\ Holds(k, k)
  BY DEF InWrite, InProcess, Holds
<1> QED
  BY <1>1 DEF IInv, TokenOwners, TokenUnique

(* The write-mode nf_process of an lcore never overlaps another lcore's    *)
(* nf_process, for any number of lcores.                                   *)
THEOREM SpecExclusion == Spec => []Exclusion
BY Ownership, IInvExclusion, PTL

(* nf_lock implements the abstract reader-writer lock.                     *)
THEOREM SpecRefinesRW == Spec => RWSpec
<1>1. Init => RW!Init
  BY DEF Init, RW!Init
<1>2. IInv /\ IInv' /\ [Next]_vars => [RW!Next]_(RW!vars)
  <2> SUFFICES ASSUME IInv, IInv', [Next]_vars
               PROVE  [RW!Next]_(RW!vars)
    OBVIOUS
  <2> DEFINE R == {i \in Lcores : pc[i] = "read"}
             W == {i \in Lcores : pc[i] = "write"}
  <2>0. /\ \A l \in Lcores : l \in W => W = {l} /\ R = {}
        /\ \A l \in Lcores : l \in W' => W' = {l} /\ R' = {}
    <3>1. Exclusion /\ Exclusion'
      BY IInvExclusion, PTL
    <3> QED
      BY <3>1 DEF Exclusion, InWrite, InProcess
  <2>t. pc \in [Lcores -> StartPcs \cup LoopPcs]
    BY DEF IInv, TypeOK
  <2>1. ASSUME NEW l \in Lcores, BlockWrites(l) PROVE RW!StartRead(l)
    <3>1. R' = R \cup {l} /\ l \notin R /\ W' = W
      BY <2>1, <2>t DEF BlockWrites, Goto
    <3>2. W = {}
      <4>1. \A k \in Lcores : k \in W => Holds(k, l)
        BY DEF Holds
      <4> QED
        BY <4>1, <2>1 DEF IInv, TokenOwners, TokenSet, BlockWrites
    <3> QED
      BY <3>1, <3>2 DEF RW!StartRead
  <2>2. ASSUME NEW l \in Lcores, EndRead(l) PROVE RW!EndRead(l)
    BY <2>2, <2>t DEF EndRead, Goto, RW!EndRead
  <2>3. ASSUME NEW l \in Lcores, WriteLockCollect(l)
        PROVE  RW!StartWrite(l) \/ UNCHANGED RW!vars
    <3>1. CASE pc'[l] = "write"
      <4>1. R' = R /\ l \in W'
        BY <2>3, <2>t, <3>1 DEF WriteLockCollect, Goto
      <4>2. R = {} /\ W' = {l}
        BY <2>0, <4>1
      <4>3. W = {}
        <5>1. \A k \in Lcores : k \in W => HoldsWrite(k) /\ HoldsWrite(l) /\ k # l
          BY <2>3 DEF HoldsWrite, WriteLockCollect
        <5> QED
          BY <5>1 DEF IInv, TokenOwners, WriteUnique
      <4> QED
        BY <4>1, <4>2, <4>3 DEF RW!StartWrite
    <3>2. CASE pc'[l] # "write"
      <4>1. pc' = pc
        BY <2>3, <2>t, <3>2 DEF WriteLockCollect, Goto
      <4> QED
        BY <4>1 DEF RW!vars
    <3> QED
      BY <3>1, <3>2
  <2>4. ASSUME NEW l \in Lcores, EndWrite(l) PROVE RW!EndWrite(l)
    BY <2>4, <2>t DEF EndWrite, Goto, RW!EndWrite
  <2>5. ASSUME NEW l \in Lcores,
               \/ Recv(l) \/ AllowWrites(l) \/ WriteLockClear(l) \/ WriteLockAcquire(l)
               \/ WriteUnlockToken(l) \/ WriteUnlock(l) \/ Send(l)
        PROVE  UNCHANGED RW!vars
    <3>1. \A k \in Lcores : pc'[k] # pc[k] => pc[k] \notin {"read", "write"}
                                             /\ pc'[k] \notin {"read", "write"}
      BY <2>5, <2>t DEF Recv, AllowWrites, WriteLockClear, WriteLockAcquire,
         WriteUnlockToken, WriteUnlock, Send, Goto
    <3> QED
      BY <3>1 DEF RW!vars
  <2>6. CASE UNCHANGED vars
    BY <2>6 DEF vars, RW!vars
  <2> QED
    BY <2>1, <2>2, <2>3, <2>4, <2>5, <2>6 DEF Next, Step, RW!Next
<1> QED
  BY <1>1, <1>2, Ownership, PTL DEF Spec, RWSpec, RW!Spec
=============================================================================
