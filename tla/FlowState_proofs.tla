-------------------------- MODULE FlowState_proofs --------------------------
(***************************************************************************)
(* What the operations on the containers of a network function return: of  *)
(* which type, that they keep map, vector and double chain in step, and    *)
(* which entries they keep.  The proofs of the network functions cite      *)
(* these facts and never open the operations.                              *)
(***************************************************************************)
EXTENDS FlowState, TLAPS

(* What the three operations do, of the table t before and u after them.   *)
Expired(t, time, u) ==
  /\ u.fv = t.fv
  /\ \A i : i \in DOMAIN u.heap <=> i \in DOMAIN t.heap /\ t.heap[i] >= time
  /\ \A i \in DOMAIN u.heap : u.heap[i] = t.heap[i]
  /\ \A k : k \in DOMAIN u.fm <=> k \in DOMAIN t.fm /\ t.heap[t.fm[k]] >= time
  /\ \A k \in DOMAIN u.fm : u.fm[k] = t.fm[k]

Rejuvenated(t, index, now, u) ==
  /\ u.fv = t.fv /\ u.fm = t.fm
  /\ DOMAIN u.heap = DOMAIN t.heap
  /\ \A i \in DOMAIN u.heap : u.heap[i] = IF i = index THEN now ELSE t.heap[i]

Allocated(t, key, index, now, u) ==
  /\ DOMAIN u.fm = DOMAIN t.fm \cup {key}
  /\ \A k \in DOMAIN u.fm : u.fm[k] = IF k = key THEN index ELSE t.fm[k]
  /\ \A i \in Indexes : u.fv[i] = IF i = index THEN key ELSE t.fv[i]
  /\ DOMAIN u.heap = DOMAIN t.heap \cup {index}
  /\ \A i \in DOMAIN u.heap : u.heap[i] = IF i = index THEN now ELSE t.heap[i]
  /\ index \in Indexes /\ index \notin DOMAIN t.heap

(* A table restricted to some of its keys and indexes is a table.          *)
LEMMA PartialType ==
  ASSUME NEW A, NEW B, NEW f, DOMAIN f \subseteq A, f = [x \in DOMAIN f |-> f[x]],
         \A x \in DOMAIN f : f[x] \in B
  PROVE  f \in PartialFunctions(A, B)
<1>1. f \in [DOMAIN f -> B]
  OBVIOUS
<1>2. DOMAIN f \in SUBSET A
  OBVIOUS
<1> QED BY <1>1, <1>2 DEF PartialFunctions

(* The converse: what it is to be a partial function.                      *)
LEMMA PartialElim ==
  ASSUME NEW A, NEW B, NEW f \in PartialFunctions(A, B)
  PROVE  /\ DOMAIN f \subseteq A /\ f = [x \in DOMAIN f |-> f[x]]
         /\ \A x \in DOMAIN f : f[x] \in B
<1>1. PICK S \in SUBSET A : f \in [S -> B]
  BY DEF PartialFunctions
<1> QED BY <1>1

(* The record a table is, and the types of its three parts.                *)
LEMMA TableElim ==
  ASSUME NEW Keys, NEW Times, NEW t \in Tables(Keys, Times)
  PROVE  /\ t = [fm |-> t.fm, fv |-> t.fv, heap |-> t.heap]
         /\ DOMAIN t.fm \subseteq Keys /\ \A k \in DOMAIN t.fm : t.fm[k] \in Indexes
         /\ t.fv \in [Indexes -> Keys]
         /\ DOMAIN t.heap \subseteq Indexes /\ \A i \in DOMAIN t.heap : t.heap[i] \in Times
<1>1. /\ t.fm \in PartialFunctions(Keys, Indexes)
      /\ t.heap \in PartialFunctions(Indexes, Times)
      /\ t.fv \in [Indexes -> Keys]
      /\ t = [fm |-> t.fm, fv |-> t.fv, heap |-> t.heap]
  BY DEF Tables
<1> QED BY <1>1, PartialElim

(* Later times: a table stays a table when the clock advances.             *)
LEMMA TableLater ==
  ASSUME NEW Keys, NEW Times, NEW Later, Times \subseteq Later,
         NEW t \in Tables(Keys, Times)
  PROVE  t \in Tables(Keys, Later)
<1>1. /\ t.fm \in PartialFunctions(Keys, Indexes)
      /\ t.heap \in PartialFunctions(Indexes, Times)
      /\ t.fv \in [Indexes -> Keys]
      /\ t = [fm |-> t.fm, fv |-> t.fv, heap |-> t.heap]
  BY DEF Tables
<1>2. t.heap \in PartialFunctions(Indexes, Later)
  BY <1>1, PartialElim, PartialType
<1> QED BY <1>1, <1>2 DEF Tables

(* A new table has no entry.                                               *)
LEMMA NewTableFacts ==
  ASSUME NEW Keys, NEW Times, NEW t \in NewTables(Keys)
  PROVE  /\ t \in Tables(Keys, Times)
         /\ Coherence(t)
         /\ DOMAIN t.fm = {} /\ DOMAIN t.heap = {}
<1>1. PICK key \in Keys :
        t = [fm |-> [k \in {} |-> 0], fv |-> [i \in Indexes |-> key], heap |-> [i \in {} |-> 0]]
  BY DEF NewTables
<1>2. /\ t.fm = [k \in {} |-> 0] /\ t.fv = [i \in Indexes |-> key] /\ t.heap = [i \in {} |-> 0]
      /\ t = [fm |-> t.fm, fv |-> t.fv, heap |-> t.heap]
  BY <1>1
<1>3. DOMAIN t.fm = {} /\ DOMAIN t.heap = {}
  BY <1>2
<1>4. t.fm \in PartialFunctions(Keys, Indexes) /\ t.heap \in PartialFunctions(Indexes, Times)
  BY <1>2, <1>3, PartialType
<1>5. t.fv \in [Indexes -> Keys]
  BY <1>2
<1> QED BY <1>2, <1>3, <1>4, <1>5 DEF Tables, Coherence

(* Expiration removes exactly the entries not used since time: a key of    *)
(* the table stays exactly when the time of its index is not before it.    *)
LEMMA ExpireFacts ==
  ASSUME NEW Keys, NEW Times, Times \subseteq Int, NEW t \in Tables(Keys, Times), Coherence(t),
         NEW time \in Int, NEW u, u = Expire(t, time)
  PROVE  /\ u \in Tables(Keys, Times)
         /\ Coherence(u)
         /\ Expired(t, time, u)
<1> DEFINE old == {i \in DOMAIN t.heap : t.heap[i] < time}
           gone == {t.fv[i] : i \in old}
<1>0. /\ t = [fm |-> t.fm, fv |-> t.fv, heap |-> t.heap]
      /\ DOMAIN t.fm \subseteq Keys /\ \A k \in DOMAIN t.fm : t.fm[k] \in Indexes
      /\ t.fv \in [Indexes -> Keys]
      /\ DOMAIN t.heap \subseteq Indexes /\ \A i \in DOMAIN t.heap : t.heap[i] \in Times
  BY TableElim
<1>1. u = [fm   |-> [k \in DOMAIN t.fm \ gone |-> t.fm[k]],
           fv   |-> t.fv,
           heap |-> [i \in DOMAIN t.heap \ old |-> t.heap[i]]]
  BY <1>0 DEF Expire
<1>2. /\ u.fm = [k \in DOMAIN t.fm \ gone |-> t.fm[k]]
      /\ u.fv = t.fv
      /\ u.heap = [i \in DOMAIN t.heap \ old |-> t.heap[i]]
      /\ u = [fm |-> u.fm, fv |-> u.fv, heap |-> u.heap]
  BY <1>1
<1>3. /\ \A i : i \in DOMAIN u.heap <=> i \in DOMAIN t.heap /\ t.heap[i] >= time
      /\ \A i \in DOMAIN u.heap : u.heap[i] = t.heap[i]
  BY <1>0, <1>2
<1>4. \A k \in DOMAIN t.fm : k \in gone <=> t.heap[t.fm[k]] < time
  BY DEF Coherence
<1>5. /\ \A k : k \in DOMAIN u.fm <=> k \in DOMAIN t.fm /\ t.heap[t.fm[k]] >= time
      /\ \A k \in DOMAIN u.fm : u.fm[k] = t.fm[k]
  <2>1. \A k \in DOMAIN t.fm : t.heap[t.fm[k]] \in Int
    BY <1>0 DEF Coherence
  <2> QED BY <1>2, <1>4, <2>1
<1> HIDE DEF old, gone
<1>6. Coherence(u)
  BY <1>0, <1>2, <1>3, <1>5 DEF Coherence
<1>7. u.fm \in PartialFunctions(Keys, Indexes) /\ u.heap \in PartialFunctions(Indexes, Times)
  <2>1. u.fm = [k \in DOMAIN u.fm |-> u.fm[k]] /\ u.heap = [i \in DOMAIN u.heap |-> u.heap[i]]
    BY <1>2
  <2> QED BY <2>1, <1>0, <1>3, <1>5, PartialType
<1> QED BY <1>0, <1>2, <1>3, <1>5, <1>6, <1>7 DEF Tables, Expired

(* Refreshing an index changes its time and nothing else.                  *)
LEMMA RejuvenateFacts ==
  ASSUME NEW Keys, NEW Times, NEW t \in Tables(Keys, Times), Coherence(t),
         NEW index, NEW now \in Times, NEW u, u = Rejuvenate(t, index, now)
  PROVE  /\ u \in Tables(Keys, Times)
         /\ Coherence(u)
         /\ Rejuvenated(t, index, now, u)
<1>0. /\ t = [fm |-> t.fm, fv |-> t.fv, heap |-> t.heap]
      /\ DOMAIN t.heap \subseteq Indexes /\ \A i \in DOMAIN t.heap : t.heap[i] \in Times
      /\ t.fv \in [Indexes -> Keys]
  BY TableElim
<1>1. u = [fm |-> t.fm, fv |-> t.fv,
           heap |-> [j \in DOMAIN t.heap |-> IF j = index THEN now ELSE t.heap[j]]]
  BY <1>0 DEF Rejuvenate
<1>2. /\ u.fm = t.fm /\ u.fv = t.fv
      /\ u.heap = [j \in DOMAIN t.heap |-> IF j = index THEN now ELSE t.heap[j]]
      /\ u = [fm |-> u.fm, fv |-> u.fv, heap |-> u.heap]
  BY <1>1
<1>3. /\ DOMAIN u.heap = DOMAIN t.heap
      /\ \A i \in DOMAIN u.heap : u.heap[i] = IF i = index THEN now ELSE t.heap[i]
  BY <1>2
<1>4. Coherence(u)
  BY <1>2, <1>3 DEF Coherence
<1>5. u.heap \in PartialFunctions(Indexes, Times)
  <2>1. u.heap = [j \in DOMAIN u.heap |-> u.heap[j]]
    BY <1>2
  <2> QED BY <2>1, <1>0, <1>3, PartialType
<1>6. u.fm \in PartialFunctions(Keys, Indexes)
  BY <1>2 DEF Tables
<1> QED BY <1>0, <1>2, <1>3, <1>4, <1>5, <1>6 DEF Tables, Rejuvenated

(* A new entry: the key and the free index are bound to each other, and no *)
(* other key or index is touched.                                          *)
LEMMA AllocateFacts ==
  ASSUME NEW Keys, NEW Times, NEW t \in Tables(Keys, Times), Coherence(t),
         NEW key \in Keys, key \notin DOMAIN t.fm, NEW index \in FreeIndexes(t),
         NEW now \in Times, NEW u, u = AllocateAt(t, key, index, now)
  PROVE  /\ u \in Tables(Keys, Times)
         /\ Coherence(u)
         /\ Allocated(t, key, index, now, u)
<1>0. /\ DOMAIN t.fm \subseteq Keys /\ \A k \in DOMAIN t.fm : t.fm[k] \in Indexes
      /\ t.fv \in [Indexes -> Keys]
      /\ DOMAIN t.heap \subseteq Indexes /\ \A i \in DOMAIN t.heap : t.heap[i] \in Times
  BY TableElim
<1>1. index \in Indexes /\ index \notin DOMAIN t.heap
  BY DEF FreeIndexes
<1>2. /\ u.fm = [k \in DOMAIN t.fm \cup {key} |-> IF k = key THEN index ELSE t.fm[k]]
      /\ u.fv = [t.fv EXCEPT ![index] = key]
      /\ u.heap = [j \in DOMAIN t.heap \cup {index} |-> IF j = index THEN now ELSE t.heap[j]]
      /\ u = [fm |-> u.fm, fv |-> u.fv, heap |-> u.heap]
  BY DEF AllocateAt
<1>3. /\ DOMAIN u.fm = DOMAIN t.fm \cup {key}
      /\ \A k \in DOMAIN u.fm : u.fm[k] = IF k = key THEN index ELSE t.fm[k]
  BY <1>2
<1>4. \A i \in Indexes : u.fv[i] = IF i = index THEN key ELSE t.fv[i]
  BY <1>0, <1>1, <1>2
<1>5. /\ DOMAIN u.heap = DOMAIN t.heap \cup {index}
      /\ \A i \in DOMAIN u.heap : u.heap[i] = IF i = index THEN now ELSE t.heap[i]
  BY <1>2
<1>6. Coherence(u)
  <2>1. \A i \in DOMAIN u.heap : u.fv[i] \in DOMAIN u.fm /\ u.fm[u.fv[i]] = i
    <3> SUFFICES ASSUME NEW i \in DOMAIN u.heap
                 PROVE  u.fv[i] \in DOMAIN u.fm /\ u.fm[u.fv[i]] = i
      OBVIOUS
    <3>1. CASE i = index
      <4>1. u.fv[i] = key
        BY <3>1, <1>1, <1>4
      <4> QED BY <3>1, <4>1, <1>3
    <3>2. CASE i # index
      <4>1. i \in DOMAIN t.heap
        BY <3>2, <1>5
      <4>2. t.fv[i] \in DOMAIN t.fm /\ t.fm[t.fv[i]] = i
        BY <4>1 DEF Coherence
      <4>3. u.fv[i] = t.fv[i]
        BY <3>2, <4>1, <1>0, <1>4
      <4> QED BY <4>2, <4>3, <1>3
    <3> QED BY <3>1, <3>2
  <2>2. \A k \in DOMAIN u.fm : u.fm[k] \in DOMAIN u.heap /\ u.fv[u.fm[k]] = k
    BY <1>0, <1>1, <1>3, <1>4, <1>5 DEF Coherence
  <2> QED BY <2>1, <2>2 DEF Coherence
<1>7. u.fm \in PartialFunctions(Keys, Indexes) /\ u.heap \in PartialFunctions(Indexes, Times)
  <2>1. u.fm = [k \in DOMAIN u.fm |-> u.fm[k]] /\ u.heap = [i \in DOMAIN u.heap |-> u.heap[i]]
    BY <1>2
  <2> QED BY <2>1, <1>0, <1>1, <1>3, <1>5, PartialType
<1>8. u.fv \in [Indexes -> Keys]
  BY <1>0, <1>2
<1> QED BY <1>1, <1>2, <1>3, <1>4, <1>5, <1>6, <1>7, <1>8 DEF Tables, Allocated
=============================================================================
