------------------------- MODULE DoubleChain_proofs -------------------------
(***************************************************************************)
(* The lists of a double chain stay two disjoint rings that hold every     *)
(* cell, ordered by last use, for any number of indexes; hence the double  *)
(* chain implements the abstract allocator.                                *)
(*                                                                         *)
(* "Being on a list" is reachability, which is not first order.  A rank    *)
(* replaces it: a number per cell that grows along the "alloc" chain and   *)
(* shrinks along the free list.  A link skips no cell of its list, so the  *)
(* heads see the extreme ranks and no cell is left out of the rings.       *)
(***************************************************************************)
EXTENDS DoubleChain, TLAPS

Ranks == [DataCells -> Int]

Distinct(S, r) == \A x, y \in S : r[x] = r[y] => x = y

(* The cells S, in increasing rank, form a doubly linked ring through the  *)
(* head of the "alloc" list.                                               *)
RingClosed(c, S) ==
  \A x \in S \cup {ALLOC_LIST_HEAD} :
     /\ c.next[x] \in S \cup {ALLOC_LIST_HEAD}
     /\ c.prev[x] \in S \cup {ALLOC_LIST_HEAD}
     /\ c.prev[c.next[x]] = x
     /\ c.next[c.prev[x]] = x

RingGrows(c, S, r) ==
  \A x \in S : c.next[x] # ALLOC_LIST_HEAD => r[x] < r[c.next[x]]

RingSkipsNone(c, S, r) ==
  \A x, y \in S : r[x] < r[y] => /\ c.next[x] # ALLOC_LIST_HEAD
                                 /\ r[c.next[x]] <= r[y]

RingEnds(c, S, r) ==
  \A y \in S : /\ c.next[ALLOC_LIST_HEAD] # ALLOC_LIST_HEAD
               /\ c.prev[ALLOC_LIST_HEAD] # ALLOC_LIST_HEAD
               /\ r[c.next[ALLOC_LIST_HEAD]] <= r[y]
               /\ r[y] <= r[c.prev[ALLOC_LIST_HEAD]]

AllocRing(c, S, r) == /\ S \subseteq DataCells
                      /\ Distinct(S, r)
                      /\ RingClosed(c, S)
                      /\ RingGrows(c, S, r)
                      /\ RingSkipsNone(c, S, r)
                      /\ RingEnds(c, S, r)

(* The cells F, in decreasing rank, form the stack of the free list.       *)
StackClosed(c, F) ==
  \A x \in F \cup {FREE_LIST_HEAD} : /\ c.next[x] \in F \cup {FREE_LIST_HEAD}
                                     /\ c.prev[x] = c.next[x]

StackShrinks(c, F, r) ==
  \A x \in F : c.next[x] # FREE_LIST_HEAD => r[c.next[x]] < r[x]

StackSkipsNone(c, F, r) ==
  \A x, y \in F : r[y] < r[x] => /\ c.next[x] # FREE_LIST_HEAD
                                 /\ r[y] <= r[c.next[x]]

StackTop(c, F, r) ==
  \A y \in F : /\ c.next[FREE_LIST_HEAD] # FREE_LIST_HEAD
               /\ r[y] <= r[c.next[FREE_LIST_HEAD]]

FreeStack(c, F, r) == /\ F \subseteq DataCells
                      /\ Distinct(F, r)
                      /\ StackClosed(c, F)
                      /\ StackShrinks(c, F, r)
                      /\ StackSkipsNone(c, F, r)
                      /\ StackTop(c, F, r)

-----------------------------------------------------------------------------
(* What the updates do to the two links of every cell.                     *)
LEMMA CellLinks ==
  ASSUME NEW c \in Cells
  PROVE  /\ c.next \in Links /\ c.prev \in Links
         /\ \A x \in CellIds : c.next[x] \in CellIds /\ c.prev[x] \in CellIds
  BY DEF Cells, Links

LEMMA SetNextLinks ==
  ASSUME NEW c \in Cells, NEW i \in CellIds, NEW v \in CellIds
  PROVE  /\ SetNext(c, i, v) \in Cells
         /\ SetNext(c, i, v).next = [c.next EXCEPT ![i] = v]
         /\ SetNext(c, i, v).prev = c.prev
  BY DEF SetNext, Cells, Links

LEMMA SetPrevLinks ==
  ASSUME NEW c \in Cells, NEW i \in CellIds, NEW v \in CellIds
  PROVE  /\ SetPrev(c, i, v) \in Cells
         /\ SetPrev(c, i, v).prev = [c.prev EXCEPT ![i] = v]
         /\ SetPrev(c, i, v).next = c.next
  BY DEF SetPrev, Cells, Links

LEMMA SetBothLinks ==
  ASSUME NEW c \in Cells, NEW i \in CellIds, NEW v \in CellIds
  PROVE  /\ SetBoth(c, i, v) \in Cells
         /\ SetBoth(c, i, v).next = [c.next EXCEPT ![i] = v]
         /\ SetBoth(c, i, v).prev = [c.prev EXCEPT ![i] = v]
<1> DEFINE n == SetNext(c, i, v)
<1>1. n \in Cells /\ n.next = [c.next EXCEPT ![i] = v] /\ n.prev = c.prev
  BY SetNextLinks
<1>2. SetBoth(c, i, v) = SetPrev(n, i, v)
  BY DEF SetBoth
<1> HIDE DEF n
<1> QED BY <1>1, <1>2, SetPrevLinks

LEMMA UnlinkLinks ==
  ASSUME NEW c \in Cells, NEW x \in CellIds
  PROVE  /\ Unlink(c, x) \in Cells
         /\ Unlink(c, x).next = [c.next EXCEPT ![c.prev[x]] = c.next[x]]
         /\ Unlink(c, x).prev = [c.prev EXCEPT ![c.next[x]] = c.prev[x]]
<1>1. c.prev[x] \in CellIds /\ c.next[x] \in CellIds
  BY CellLinks
<1> DEFINE n == SetNext(c, c.prev[x], c.next[x])
<1>2. n \in Cells /\ n.next = [c.next EXCEPT ![c.prev[x]] = c.next[x]] /\ n.prev = c.prev
  BY <1>1, SetNextLinks
<1>3. Unlink(c, x) = SetPrev(n, c.next[x], c.prev[x])
  BY DEF Unlink
<1> HIDE DEF n
<1> QED BY <1>1, <1>2, <1>3, SetPrevLinks

LEMMA LinkLastLinks ==
  ASSUME NEW c \in Cells, NEW x \in CellIds, ALLOC_LIST_HEAD \in CellIds
  PROVE  LET last == c.prev[ALLOC_LIST_HEAD]
         IN  /\ LinkLast(c, x) \in Cells
             /\ LinkLast(c, x).next = [[c.next EXCEPT ![x] = ALLOC_LIST_HEAD]
                                         EXCEPT ![last] = x]
             /\ LinkLast(c, x).prev = [[c.prev EXCEPT ![x] = last]
                                         EXCEPT ![ALLOC_LIST_HEAD] = x]
<1> DEFINE last == c.prev[ALLOC_LIST_HEAD]
           n == SetNext(c, x, ALLOC_LIST_HEAD)
           own == SetPrev(n, x, last)
           out == SetNext(own, last, x)
<1>1. last \in CellIds
  BY CellLinks
<1>2. n \in Cells /\ n.next = [c.next EXCEPT ![x] = ALLOC_LIST_HEAD] /\ n.prev = c.prev
  BY SetNextLinks
<1> HIDE DEF n, last
<1>3. own \in Cells /\ own.next = n.next /\ own.prev = [c.prev EXCEPT ![x] = last]
  BY <1>1, <1>2, SetPrevLinks
<1> HIDE DEF own
<1>4. out \in Cells /\ out.next = [own.next EXCEPT ![last] = x] /\ out.prev = own.prev
  BY <1>1, <1>3, SetNextLinks
<1>5. LinkLast(c, x) = SetPrev(out, ALLOC_LIST_HEAD, x)
  BY DEF LinkLast, out, own, n, last
<1> HIDE DEF out
<1>6. /\ LinkLast(c, x) \in Cells
      /\ LinkLast(c, x).next = out.next
      /\ LinkLast(c, x).prev = [out.prev EXCEPT ![ALLOC_LIST_HEAD] = x]
  BY <1>4, <1>5, SetPrevLinks
<1> QED BY <1>2, <1>3, <1>4, <1>6 DEF last
(* The same, cell by cell.                                                 *)
LEMMA SetBothAt ==
  ASSUME NEW c \in Cells, NEW i \in CellIds, NEW v \in CellIds, NEW y \in CellIds
  PROVE  /\ SetBoth(c, i, v).next[y] = IF y = i THEN v ELSE c.next[y]
         /\ SetBoth(c, i, v).prev[y] = IF y = i THEN v ELSE c.prev[y]
<1> DEFINE d == SetBoth(c, i, v)
<1>1. d.next = [c.next EXCEPT ![i] = v] /\ d.prev = [c.prev EXCEPT ![i] = v]
  BY SetBothLinks
<1> HIDE DEF d
<1>2. /\ d.next[y] = IF y = i THEN v ELSE c.next[y]
      /\ d.prev[y] = IF y = i THEN v ELSE c.prev[y]
  BY <1>1, CellLinks DEF Links
<1> QED BY <1>2 DEF d

LEMMA UnlinkAt ==
  ASSUME NEW c \in Cells, NEW x \in CellIds, NEW y \in CellIds
  PROVE  /\ Unlink(c, x).next[y] = IF y = c.prev[x] THEN c.next[x] ELSE c.next[y]
         /\ Unlink(c, x).prev[y] = IF y = c.next[x] THEN c.prev[x] ELSE c.prev[y]
<1> DEFINE d == Unlink(c, x)
<1>1. /\ d.next = [c.next EXCEPT ![c.prev[x]] = c.next[x]]
      /\ d.prev = [c.prev EXCEPT ![c.next[x]] = c.prev[x]]
  BY UnlinkLinks
<1> HIDE DEF d
<1>2. /\ d.next[y] = IF y = c.prev[x] THEN c.next[x] ELSE c.next[y]
      /\ d.prev[y] = IF y = c.next[x] THEN c.prev[x] ELSE c.prev[y]
  BY <1>1, CellLinks DEF Links
<1> QED BY <1>2 DEF d

LEMMA LinkLastAt ==
  ASSUME NEW c \in Cells, NEW x \in CellIds, NEW y \in CellIds, 0 \in CellIds
  PROVE  /\ LinkLast(c, x).next[y] = IF y = c.prev[0] THEN x
                                     ELSE IF y = x THEN 0 ELSE c.next[y]
         /\ LinkLast(c, x).prev[y] = IF y = 0 THEN x
                                     ELSE IF y = x THEN c.prev[0] ELSE c.prev[y]
<1> DEFINE d == LinkLast(c, x)
           l == c.prev[0]
<1>1. /\ d.next = [[c.next EXCEPT ![x] = 0] EXCEPT ![l] = x]
      /\ d.prev = [[c.prev EXCEPT ![x] = l] EXCEPT ![0] = x]
  BY LinkLastLinks DEF ALLOC_LIST_HEAD
<1> HIDE DEF d
<1>2. /\ d.next[y] = IF y = l THEN x ELSE IF y = x THEN 0 ELSE c.next[y]
      /\ d.prev[y] = IF y = 0 THEN x ELSE IF y = x THEN l ELSE c.prev[y]
  BY <1>1, CellLinks DEF Links
<1> QED BY <1>2 DEF d
-----------------------------------------------------------------------------
(* The lists depend only on the links of their own cells and head.         *)
LEMMA RingFrame ==
  ASSUME NEW c \in Cells, NEW d \in Cells, NEW S, NEW r \in Ranks, NEW q \in Ranks,
         AllocRing(c, S, r),
         \A x \in S \cup {ALLOC_LIST_HEAD} : d.next[x] = c.next[x] /\ d.prev[x] = c.prev[x],
         \A x \in S : q[x] = r[x]
  PROVE  AllocRing(d, S, q)
  BY DEF AllocRing, Distinct, RingClosed, RingGrows, RingSkipsNone, RingEnds

LEMMA StackFrame ==
  ASSUME NEW c \in Cells, NEW d \in Cells, NEW F, NEW r \in Ranks, NEW q \in Ranks,
         FreeStack(c, F, r),
         \A x \in F \cup {FREE_LIST_HEAD} : d.next[x] = c.next[x] /\ d.prev[x] = c.prev[x],
         \A x \in F : q[x] = r[x]
  PROVE  FreeStack(d, F, q)
  BY DEF FreeStack, Distinct, StackClosed, StackShrinks, StackSkipsNone, StackTop

(* Taking a cell out of the ring leaves a ring of the others.              *)
LEMMA UnlinkRing ==
  ASSUME NEW c \in Cells, NEW S, NEW r \in Ranks, AllocRing(c, S, r), NEW x \in S
  PROVE  AllocRing(Unlink(c, x), S \ {x}, r)
<1> DEFINE d == Unlink(c, x)
           T == S \ {x}
           p == c.prev[x]
           n == c.next[x]
<1>0. S \subseteq DataCells /\ x \in CellIds /\ S \subseteq CellIds /\ 0 \in CellIds /\ 0 \notin S
  BY IndexRangeAssumption DEF AllocRing, DataCells, CellIds
<1>1. /\ \A y \in CellIds : d.next[y] = IF y = p THEN n ELSE c.next[y]
      /\ \A y \in CellIds : d.prev[y] = IF y = n THEN p ELSE c.prev[y]
  BY <1>0, UnlinkAt
<1>2. \A y \in S : r[y] \in Int
  BY <1>0 DEF Ranks
<1>3. /\ p \in S \cup {0} /\ n \in S \cup {0} /\ c.prev[n] = x /\ c.next[p] = x
      /\ p # x /\ n # x
  BY <1>0, <1>2 DEF AllocRing, RingClosed, RingGrows, ALLOC_LIST_HEAD
<1> HIDE DEF d, p, n
<1>4. RingClosed(d, T)
  BY <1>0, <1>1, <1>3 DEF AllocRing, RingClosed, ALLOC_LIST_HEAD
<1>5. RingGrows(d, T, r)
  BY <1>0, <1>1, <1>2, <1>3 DEF AllocRing, RingClosed, RingGrows, ALLOC_LIST_HEAD, n
<1>6. RingSkipsNone(d, T, r)
  BY <1>0, <1>1, <1>2, <1>3 DEF AllocRing, RingClosed, RingSkipsNone, Distinct, ALLOC_LIST_HEAD, n
<1>7. RingEnds(d, T, r)
  BY <1>0, <1>1, <1>2, <1>3 DEF AllocRing, RingClosed, RingEnds, RingGrows, RingSkipsNone, Distinct, ALLOC_LIST_HEAD, n, p
<1> QED BY <1>0, <1>4, <1>5, <1>6, <1>7 DEF AllocRing, Distinct, d

(* Linking a cell with the highest rank at the end extends the ring.       *)
LEMMA LinkLastRing ==
  ASSUME NEW c \in Cells, NEW S, NEW r \in Ranks, AllocRing(c, S, r),
         NEW x \in DataCells \ S, \A y \in S : r[y] < r[x]
  PROVE  AllocRing(LinkLast(c, x), S \cup {x}, r)
<1> DEFINE d == LinkLast(c, x)
           T == S \cup {x}
           l == c.prev[0]
<1>0. /\ S \subseteq DataCells /\ x \in CellIds /\ S \subseteq CellIds /\ 0 \in CellIds
      /\ 0 \notin S /\ x # 0 /\ x \notin S
  BY IndexRangeAssumption DEF AllocRing, DataCells, CellIds
<1>1. /\ \A y \in CellIds : d.next[y] = IF y = l THEN x ELSE IF y = x THEN 0 ELSE c.next[y]
      /\ \A y \in CellIds : d.prev[y] = IF y = 0 THEN x ELSE IF y = x THEN l ELSE c.prev[y]
  BY <1>0, LinkLastAt
<1>2. \A y \in T : r[y] \in Int
  BY <1>0 DEF Ranks
<1>3. l \in S \cup {0} /\ c.next[l] = 0 /\ (\A y \in S \cup {0} : y # l => c.next[y] # 0)
  BY <1>0 DEF AllocRing, RingClosed, ALLOC_LIST_HEAD
<1> HIDE DEF d
<1>4. RingClosed(d, T)
  BY <1>0, <1>1, <1>3 DEF AllocRing, RingClosed, ALLOC_LIST_HEAD
<1>5. RingGrows(d, T, r)
  BY <1>0, <1>1, <1>2, <1>3 DEF AllocRing, RingClosed, RingGrows, ALLOC_LIST_HEAD
<1>6. RingSkipsNone(d, T, r)
  BY <1>0, <1>1, <1>2, <1>3 DEF AllocRing, RingClosed, RingSkipsNone, RingEnds, ALLOC_LIST_HEAD
<1>7. RingEnds(d, T, r)
  BY <1>0, <1>1, <1>2, <1>3 DEF AllocRing, RingClosed, RingEnds, ALLOC_LIST_HEAD
<1> QED BY <1>0, <1>2, <1>4, <1>5, <1>6, <1>7 DEF AllocRing, Distinct, d

(* Removing the top of the free stack, and pushing a cell on it.           *)
LEMMA PopStack ==
  ASSUME NEW c \in Cells, NEW F, NEW r \in Ranks, FreeStack(c, F, r), HasFreeIndex(c)
  PROVE  LET a == c.next[FREE_LIST_HEAD]
         IN  /\ a \in F
             /\ FreeStack(SetBoth(c, FREE_LIST_HEAD, c.next[a]), F \ {a}, r)
<1> DEFINE a == c.next[1]
           v == c.next[a]
           d == SetBoth(c, 1, v)
           G == F \ {a}
<1>0. F \subseteq DataCells /\ F \subseteq CellIds /\ 1 \in CellIds /\ 1 \notin F
  BY IndexRangeAssumption DEF FreeStack, DataCells, CellIds
<1>1. a \in F /\ v \in CellIds
  BY <1>0, CellLinks DEF HasFreeIndex, FreeStack, StackClosed, FREE_LIST_HEAD
<1>2. \A y \in CellIds : /\ d.next[y] = IF y = 1 THEN v ELSE c.next[y]
                        /\ d.prev[y] = IF y = 1 THEN v ELSE c.prev[y]
  BY <1>0, <1>1, SetBothAt
<1>3. \A y \in F : r[y] \in Int
  BY <1>0 DEF Ranks
<1> HIDE DEF d
<1>4. \A y \in F : r[y] <= r[a] /\ (y # a => r[y] < r[a])
  BY <1>0, <1>1, <1>3 DEF FreeStack, StackTop, Distinct, FREE_LIST_HEAD
<1>5. StackClosed(d, G)
  BY <1>0, <1>1, <1>2, <1>3, <1>4 DEF FreeStack, StackClosed, StackShrinks, FREE_LIST_HEAD
<1>6. StackShrinks(d, G, r)
  BY <1>0, <1>2 DEF FreeStack, StackShrinks, FREE_LIST_HEAD
<1>7. StackSkipsNone(d, G, r)
  BY <1>0, <1>2 DEF FreeStack, StackSkipsNone, FREE_LIST_HEAD
<1>8. StackTop(d, G, r)
  BY <1>0, <1>1, <1>2, <1>4 DEF FreeStack, StackSkipsNone, StackTop, FREE_LIST_HEAD
<1> QED BY <1>0, <1>1, <1>5, <1>6, <1>7, <1>8 DEF FreeStack, Distinct, d, FREE_LIST_HEAD

LEMMA PushStack ==
  ASSUME NEW c \in Cells, NEW F, NEW r \in Ranks, FreeStack(c, F, r),
         NEW x \in DataCells \ F, \A y \in F : r[y] < r[x]
  PROVE  FreeStack(SetBoth(SetBoth(c, x, c.next[FREE_LIST_HEAD]), FREE_LIST_HEAD, x),
                   F \cup {x}, r)
<1> DEFINE a == c.next[1]
           e == SetBoth(c, x, a)
           d == SetBoth(e, 1, x)
           G == F \cup {x}
<1>0. /\ F \subseteq DataCells /\ F \subseteq CellIds /\ 1 \in CellIds /\ 1 \notin F
      /\ x \in CellIds /\ x # 1 /\ x \notin F
  BY IndexRangeAssumption DEF FreeStack, DataCells, CellIds
<1>1. a \in F \cup {1} /\ a \in CellIds
  BY <1>0, CellLinks DEF FreeStack, StackClosed, FREE_LIST_HEAD
<1>2. \A y \in CellIds : /\ d.next[y] = IF y = 1 THEN x ELSE IF y = x THEN a ELSE c.next[y]
                        /\ d.prev[y] = IF y = 1 THEN x ELSE IF y = x THEN a ELSE c.prev[y]
  <2>1. e \in Cells
    BY <1>0, <1>1, SetBothLinks
  <2>2. \A y \in CellIds : /\ e.next[y] = IF y = x THEN a ELSE c.next[y]
                          /\ e.prev[y] = IF y = x THEN a ELSE c.prev[y]
    BY <1>0, <1>1, SetBothAt
  <2> HIDE DEF e
  <2>3. \A y \in CellIds : /\ d.next[y] = IF y = 1 THEN x ELSE e.next[y]
                          /\ d.prev[y] = IF y = 1 THEN x ELSE e.prev[y]
    BY <1>0, <2>1, SetBothAt
  <2> QED BY <2>2, <2>3
<1>3. \A y \in G : r[y] \in Int
  BY <1>0 DEF Ranks
<1> HIDE DEF d, e
<1>4. StackClosed(d, G)
  BY <1>0, <1>1, <1>2 DEF FreeStack, StackClosed, FREE_LIST_HEAD
<1>5. StackShrinks(d, G, r)
  BY <1>0, <1>1, <1>2 DEF FreeStack, StackShrinks, FREE_LIST_HEAD
<1>6. StackSkipsNone(d, G, r)
  BY <1>0, <1>1, <1>2, <1>3 DEF FreeStack, StackSkipsNone, StackTop, FREE_LIST_HEAD
<1>7. StackTop(d, G, r)
  BY <1>0, <1>2, <1>3 DEF FreeStack, StackTop, FREE_LIST_HEAD
<1> QED BY <1>0, <1>3, <1>4, <1>5, <1>6, <1>7 DEF FreeStack, Distinct, d, e, FREE_LIST_HEAD
-----------------------------------------------------------------------------
(* The two lists together: the cells of S are allocated, all others free.  *)
Shape(c, S, r) == AllocRing(c, S, r) /\ FreeStack(c, DataCells \ S, r)

(* There is always a rank above those of a list.                           *)
LEMMA FreshRank ==
  ASSUME NEW c \in Cells, NEW S, NEW r \in Ranks, Shape(c, S, r)
  PROVE  /\ \E m \in Int : \A y \in S : r[y] < m
         /\ \E m \in Int : \A y \in DataCells \ S : r[y] < m
<1>1. \E m \in Int : \A y \in S : r[y] < m
  <2>1. CASE S = {}
    BY <2>1
  <2>2. CASE S # {}
    <3> DEFINE m == r[c.prev[0]] + 1
    <3>1. S \subseteq DataCells /\ (\A y \in S : r[y] \in Int /\ r[y] <= r[c.prev[0]]) /\ c.prev[0] \in S
      BY <2>2 DEF Shape, AllocRing, RingEnds, RingClosed, Ranks, ALLOC_LIST_HEAD
    <3>2. m \in Int /\ \A y \in S : r[y] < m
      BY <3>1
    <3> QED BY <3>2
  <2> QED BY <2>1, <2>2
<1>2. \E m \in Int : \A y \in DataCells \ S : r[y] < m
  <2> DEFINE F == DataCells \ S
  <2>1. CASE F = {}
    BY <2>1
  <2>2. CASE F # {}
    <3> DEFINE m == r[c.next[1]] + 1
    <3>1. (\A y \in F : r[y] \in Int /\ r[y] <= r[c.next[1]]) /\ c.next[1] \in F
      BY <2>2 DEF Shape, FreeStack, StackTop, StackClosed, Ranks, FREE_LIST_HEAD
    <3>2. m \in Int /\ \A y \in F : r[y] < m
      BY <3>1
    <3> QED BY <3>2
  <2> QED BY <2>1, <2>2
<1> QED BY <1>1, <1>2

(* The test of dchain_is_index_allocated reads the list off one cell.      *)
LEMMA AllocatedIff ==
  ASSUME NEW c \in Cells, NEW S, NEW r \in Ranks, Shape(c, S, r), NEW i \in Indexes
  PROVE  dchain_impl_is_index_allocated(c, i) <=> i + INDEX_SHIFT \in S
<1> DEFINE x == i + 2
<1>0. x \in DataCells /\ S \subseteq DataCells /\ 0 \notin DataCells /\ 1 # 0
  BY IndexRangeAssumption DEF Indexes, DataCells, Shape, AllocRing
<1>1. CASE x \in S
  <2>1. \A y \in S : r[y] \in Int
    BY <1>0 DEF Ranks
  <2>2. c.next[x] = c.prev[x] => c.next[x] = 0
    BY <1>0, <1>1, <2>1 DEF Shape, AllocRing, RingClosed, RingGrows, ALLOC_LIST_HEAD
  <2> QED BY <1>1, <2>2 DEF dchain_impl_is_index_allocated, INDEX_SHIFT, ALLOC_LIST_HEAD
<1>2. CASE x \notin S
  <2>1. c.next[x] = c.prev[x] /\ c.next[x] # 0
    BY <1>0, <1>2 DEF Shape, FreeStack, StackClosed, FREE_LIST_HEAD
  <2> QED BY <1>2, <2>1 DEF dchain_impl_is_index_allocated, INDEX_SHIFT, ALLOC_LIST_HEAD
<1> QED BY <1>1, <1>2

(* The three operations that move a cell keep the shape; the ranks of the  *)
(* allocated cells they do not move stay, and a cell allocated or          *)
(* rejuvenated gets the highest.                                           *)
LEMMA AllocateShape ==
  ASSUME NEW c \in Cells, NEW S, NEW r \in Ranks, Shape(c, S, r), HasFreeIndex(c),
         NEW a, a = c.next[FREE_LIST_HEAD]
  PROVE  /\ a \in DataCells \ S
         /\ dchain_impl_allocate_new_index(c) \in Cells
         /\ \E q \in Ranks : /\ Shape(dchain_impl_allocate_new_index(c), S \cup {a}, q)
                            /\ \A y \in S : q[y] = r[y] /\ q[y] < q[a]
<1> DEFINE F == DataCells \ S
           e == SetBoth(c, FREE_LIST_HEAD, c.next[a])
           d == LinkLast(e, a)
<1>0. /\ S \subseteq DataCells /\ DataCells \subseteq CellIds /\ 0 \in CellIds /\ 1 \in CellIds
      /\ 0 \notin DataCells /\ 1 \notin DataCells /\ 0 # 1
  BY IndexRangeAssumption DEF Shape, AllocRing, DataCells, CellIds
<1>1. a \in F /\ FreeStack(e, F \ {a}, r)
  BY PopStack DEF Shape
<1>2. dchain_impl_allocate_new_index(c) = d
  BY DEF dchain_impl_allocate_new_index
<1>3. e \in Cells /\ (\A y \in CellIds \ {1} : e.next[y] = c.next[y] /\ e.prev[y] = c.prev[y])
  <2>1. c.next[a] \in CellIds /\ FREE_LIST_HEAD \in CellIds
    BY <1>0, <1>1, CellLinks DEF FREE_LIST_HEAD
  <2>2. e \in Cells
    BY <2>1, SetBothLinks
  <2>3. \A y \in CellIds : /\ e.next[y] = IF y = 1 THEN c.next[a] ELSE c.next[y]
                          /\ e.prev[y] = IF y = 1 THEN c.next[a] ELSE c.prev[y]
    BY <2>1, SetBothAt DEF FREE_LIST_HEAD
  <2> QED BY <2>2, <2>3
<1>4. PICK m \in Int : \A y \in S : r[y] < m
  BY FreshRank
<1> DEFINE q == [r EXCEPT ![a] = m]
<1>5. q \in Ranks /\ q[a] = m /\ (\A y \in DataCells \ {a} : q[y] = r[y])
  BY <1>1 DEF Ranks
<1> HIDE DEF e, q
<1>6. AllocRing(e, S, q)
  <2>1. \A x \in S \cup {ALLOC_LIST_HEAD} : e.next[x] = c.next[x] /\ e.prev[x] = c.prev[x]
    BY <1>0, <1>3 DEF ALLOC_LIST_HEAD
  <2>2. \A x \in S : q[x] = r[x]
    BY <1>0, <1>1, <1>5
  <2> QED BY <1>3, <1>5, <2>1, <2>2, RingFrame DEF Shape
<1>7. a \in DataCells \ S /\ (\A y \in S : q[y] < q[a] /\ q[y] = r[y])
  BY <1>0, <1>1, <1>4, <1>5
<1>8. AllocRing(d, S \cup {a}, q)
  BY <1>3, <1>5, <1>6, <1>7, LinkLastRing
<1>9. d \in Cells /\ FreeStack(d, DataCells \ (S \cup {a}), q)
  <2>1. d \in Cells
    BY <1>0, <1>1, <1>3, LinkLastLinks DEF ALLOC_LIST_HEAD
  <2>2. e.prev[0] \in S \cup {0}
    BY <1>6 DEF AllocRing, RingClosed, ALLOC_LIST_HEAD
  <2>3. \A x \in (F \ {a}) \cup {1} : d.next[x] = e.next[x] /\ d.prev[x] = e.prev[x]
    BY <1>0, <1>1, <1>3, <2>2, LinkLastAt
  <2> HIDE DEF d
  <2>4. \A x \in F \ {a} : q[x] = r[x]
    BY <1>5
  <2>5. FreeStack(d, F \ {a}, q)
    BY <1>1, <1>3, <1>5, <2>1, <2>3, <2>4, StackFrame DEF FREE_LIST_HEAD
  <2>6. F \ {a} = DataCells \ (S \cup {a})
    OBVIOUS
  <2> QED BY <2>1, <2>5, <2>6 DEF d
<1> QED BY <1>2, <1>5, <1>7, <1>8, <1>9 DEF Shape

LEMMA UnlinkShape ==
  ASSUME NEW c \in Cells, NEW S, NEW r \in Ranks, Shape(c, S, r), NEW x \in S
  PROVE  /\ Unlink(c, x) \in Cells
         /\ AllocRing(Unlink(c, x), S \ {x}, r)
         /\ FreeStack(Unlink(c, x), DataCells \ S, r)
<1> DEFINE d == Unlink(c, x)
<1>0. /\ S \subseteq DataCells /\ DataCells \subseteq CellIds /\ 1 \in CellIds
      /\ 0 \notin DataCells /\ 1 \notin DataCells /\ 0 # 1
  BY IndexRangeAssumption DEF Shape, AllocRing, DataCells, CellIds
<1>1. AllocRing(d, S \ {x}, r)
  BY UnlinkRing DEF Shape
<1>2. d \in Cells
  BY <1>0, UnlinkLinks
<1>3. c.prev[x] \in S \cup {0} /\ c.next[x] \in S \cup {0}
  BY DEF Shape, AllocRing, RingClosed, ALLOC_LIST_HEAD
<1>4. \A y \in (DataCells \ S) \cup {1} : d.next[y] = c.next[y] /\ d.prev[y] = c.prev[y]
  BY <1>0, <1>3, UnlinkAt
<1> HIDE DEF d
<1>5. FreeStack(d, DataCells \ S, r)
  BY <1>2, <1>4, StackFrame DEF Shape, FREE_LIST_HEAD
<1> QED BY <1>1, <1>2, <1>5 DEF d

LEMMA FreeShape ==
  ASSUME NEW c \in Cells, NEW S, NEW r \in Ranks, Shape(c, S, r),
         NEW i \in Indexes, NEW x \in S, x = i + INDEX_SHIFT
  PROVE  /\ dchain_impl_free_index(c, i) \in Cells
         /\ \E q \in Ranks : /\ Shape(dchain_impl_free_index(c, i), S \ {x}, q)
                            /\ \A y \in S \ {x} : q[y] = r[y]
<1> DEFINE F == DataCells \ S
           u == Unlink(c, x)
           f == SetBoth(u, x, u.next[FREE_LIST_HEAD])
           d == SetBoth(f, FREE_LIST_HEAD, x)
<1>0. /\ S \subseteq DataCells /\ DataCells \subseteq CellIds /\ 0 \in CellIds /\ 1 \in CellIds
      /\ 0 \notin DataCells /\ 1 \notin DataCells /\ 0 # 1
  BY IndexRangeAssumption DEF Shape, AllocRing, DataCells, CellIds
<1>1. u \in Cells /\ AllocRing(u, S \ {x}, r) /\ FreeStack(u, F, r)
  BY UnlinkShape
<1>2. dchain_impl_free_index(c, i) = d
  BY AllocatedIff DEF dchain_impl_free_index
<1>3. PICK m \in Int : \A y \in F : r[y] < m
  BY FreshRank
<1> DEFINE q == [r EXCEPT ![x] = m]
<1>4. q \in Ranks /\ q[x] = m /\ (\A y \in DataCells \ {x} : q[y] = r[y])
  BY <1>0 DEF Ranks
<1> HIDE DEF u, q
<1>5. x \in S /\ x \in CellIds /\ u.next[1] \in CellIds
  BY <1>0, <1>1, CellLinks
<1>6. f \in Cells /\ d \in Cells
  BY <1>0, <1>1, <1>5, SetBothLinks DEF FREE_LIST_HEAD
<1>7. \A y \in (S \ {x}) \cup {0} : d.next[y] = u.next[y] /\ d.prev[y] = u.prev[y]
  <2>1. \A y \in CellIds \ {x} : f.next[y] = u.next[y] /\ f.prev[y] = u.prev[y]
    BY <1>0, <1>1, <1>5, SetBothAt DEF FREE_LIST_HEAD
  <2>2. \A y \in CellIds \ {1} : d.next[y] = f.next[y] /\ d.prev[y] = f.prev[y]
    BY <1>0, <1>5, <1>6, SetBothAt DEF FREE_LIST_HEAD
  <2> QED BY <1>0, <1>5, <2>1, <2>2
<1>8. FreeStack(u, F, q)
  <2>1. \A y \in F : q[y] = r[y]
    BY <1>4, <1>5
  <2> QED BY <1>1, <1>4, <2>1, StackFrame
<1>9. x \in DataCells \ F /\ \A y \in F : q[y] < q[x]
  BY <1>0, <1>3, <1>4, <1>5
<1>10. FreeStack(d, F \cup {x}, q)
  BY <1>1, <1>4, <1>8, <1>9, PushStack
<1>11. \A y \in S \ {x} : q[y] = r[y]
  BY <1>0, <1>4
<1> HIDE DEF d
<1>12. AllocRing(d, S \ {x}, q)
  BY <1>1, <1>4, <1>6, <1>7, <1>11, RingFrame DEF ALLOC_LIST_HEAD
<1>13. F \cup {x} = DataCells \ (S \ {x})
  BY <1>0, <1>5
<1>14. Shape(d, S \ {x}, q)
  BY <1>10, <1>12, <1>13 DEF Shape
<1> QED BY <1>2, <1>4, <1>6, <1>11, <1>14

LEMMA RejuvenateShape ==
  ASSUME NEW c \in Cells, NEW S, NEW r \in Ranks, Shape(c, S, r),
         NEW i \in Indexes, NEW x \in S, x = i + INDEX_SHIFT
  PROVE  /\ dchain_impl_rejuvenate_index(c, i) \in Cells
         /\ \E q \in Ranks : /\ Shape(dchain_impl_rejuvenate_index(c, i), S, q)
                            /\ \A y \in S \ {x} : q[y] = r[y] /\ q[y] < q[x]
<1> DEFINE F == DataCells \ S
           u == Unlink(c, x)
           d == LinkLast(u, x)
<1>0. /\ S \subseteq DataCells /\ DataCells \subseteq CellIds /\ 0 \in CellIds /\ 1 \in CellIds
      /\ 0 \notin DataCells /\ 1 \notin DataCells /\ 0 # 1
  BY IndexRangeAssumption DEF Shape, AllocRing, DataCells, CellIds
<1>a. CASE c.next[x] = c.prev[x]
  <2>1. dchain_impl_rejuvenate_index(c, i) = c
    BY <1>a DEF dchain_impl_rejuvenate_index
  <2>2. c.next[x] = 0 /\ c.prev[x] = 0
    BY <1>a, AllocatedIff DEF dchain_impl_is_index_allocated, ALLOC_LIST_HEAD
  <2>3. x \in S
    OBVIOUS
  <2>4. c.next[0] = x /\ c.prev[0] = x
    BY <2>2, <2>3 DEF Shape, AllocRing, RingClosed, ALLOC_LIST_HEAD
  <2>5. \A y \in S : r[y] \in Int /\ r[x] <= r[y] /\ r[y] <= r[x]
    BY <1>0, <2>4 DEF Shape, AllocRing, RingEnds, Ranks, ALLOC_LIST_HEAD
  <2>6. \A y \in S : y = x
    BY <2>3, <2>5 DEF Shape, AllocRing, Distinct
  <2> QED BY <2>1, <2>6
<1>b. CASE c.next[x] # c.prev[x]
  <2>1. dchain_impl_rejuvenate_index(c, i) = d
    BY <1>b DEF dchain_impl_rejuvenate_index
  <2>2. u \in Cells /\ AllocRing(u, S \ {x}, r) /\ FreeStack(u, F, r)
    BY UnlinkShape
  <2>3. PICK m \in Int : \A y \in S : r[y] < m
    BY FreshRank
  <2> DEFINE q == [r EXCEPT ![x] = m]
  <2>4. q \in Ranks /\ q[x] = m /\ (\A y \in DataCells \ {x} : q[y] = r[y])
    BY <1>0 DEF Ranks
  <2>5. x \in S
    OBVIOUS
  <2> HIDE DEF u, q
  <2>6. AllocRing(u, S \ {x}, q)
    <3>1. \A y \in S \ {x} : q[y] = r[y]
      BY <1>0, <2>4
    <3> QED BY <2>2, <2>4, <3>1, RingFrame
  <2>7. /\ x \in DataCells \ (S \ {x})
        /\ \A y \in S \ {x} : q[y] < q[x] /\ q[y] = r[y]
    BY <1>0, <2>3, <2>4, <2>5
  <2>8. AllocRing(d, (S \ {x}) \cup {x}, q)
    BY <2>2, <2>4, <2>6, <2>7, LinkLastRing
  <2>9. d \in Cells
    BY <1>0, <2>2, <2>5, LinkLastLinks DEF ALLOC_LIST_HEAD
  <2>10. u.prev[0] \in S \cup {0}
    BY <2>6 DEF AllocRing, RingClosed, ALLOC_LIST_HEAD
  <2>11. \A y \in F \cup {1} : d.next[y] = u.next[y] /\ d.prev[y] = u.prev[y]
    BY <1>0, <2>2, <2>5, <2>10, LinkLastAt
  <2>12. \A y \in F : q[y] = r[y]
    BY <2>4, <2>5
  <2> HIDE DEF d
  <2>13. FreeStack(d, F, q)
    BY <2>2, <2>4, <2>9, <2>11, <2>12, StackFrame DEF FREE_LIST_HEAD
  <2>14. (S \ {x}) \cup {x} = S
    BY <2>5
  <2>15. Shape(d, S, q)
    BY <2>8, <2>13, <2>14 DEF Shape
  <2> QED BY <2>1, <2>4, <2>7, <2>9, <2>15
<1> QED BY <1>a, <1>b

(* At the start every cell is free.                                        *)
LEMMA InitShape ==
  dchain_impl_init \in Cells /\ \E r \in Ranks : Shape(dchain_impl_init, {}, r)
<1> DEFINE c == dchain_impl_init
           r == [x \in DataCells |-> -x]
<1>1. /\ c \in Cells
      /\ c.next = c.prev
      /\ c.next[0] = 0 /\ c.next[1] = 2 /\ c.next[IndexRange + 1] = 1
      /\ \A x \in 2 .. IndexRange : c.next[x] = x + 1
  <2> DEFINE n == [i \in CellIds |-> IF i = ALLOC_LIST_HEAD THEN ALLOC_LIST_HEAD
                                      ELSE IF i = IndexRange + 1 THEN FREE_LIST_HEAD
                                      ELSE i + 1]
  <2>1. c = [prev |-> n, next |-> n]
    BY DEF dchain_impl_init
  <2>2. /\ n \in [CellIds -> CellIds]
        /\ n[0] = 0 /\ n[1] = 2 /\ n[IndexRange + 1] = 1
        /\ \A x \in 2 .. IndexRange : n[x] = x + 1
    <3>1. \A x \in CellIds : n[x] = IF x = 0 THEN 0 ELSE IF x = IndexRange + 1 THEN 1 ELSE x + 1
      BY DEF ALLOC_LIST_HEAD, FREE_LIST_HEAD
    <3>2. n = [x \in CellIds |-> n[x]]
      OBVIOUS
    <3> HIDE DEF n
    <3>3. \A x \in CellIds : n[x] \in CellIds
      BY <3>1, IndexRangeAssumption DEF CellIds
    <3>4. n \in [CellIds -> CellIds]
      BY <3>2, <3>3
    <3>5. /\ n[0] = 0 /\ n[1] = 2 /\ n[IndexRange + 1] = 1
          /\ \A x \in 2 .. IndexRange : n[x] = x + 1
      BY <3>1, IndexRangeAssumption DEF CellIds
    <3> QED BY <3>4, <3>5
  <2> HIDE DEF n, c
  <2> QED BY <2>1, <2>2 DEF Cells, Links
<1>2. r \in Ranks /\ \A x \in DataCells : r[x] = -x
  BY IndexRangeAssumption DEF Ranks, DataCells
<1> HIDE DEF c, r
<1>3. AllocRing(c, {}, r)
  BY <1>1 DEF AllocRing, Distinct, RingClosed, RingGrows, RingSkipsNone, RingEnds, ALLOC_LIST_HEAD
<1>4. FreeStack(c, DataCells, r)
  BY <1>1, <1>2, IndexRangeAssumption DEF FreeStack, Distinct, StackClosed, StackShrinks,
     StackSkipsNone, StackTop, FREE_LIST_HEAD, DataCells
<1>5. Shape(c, {}, r)
  BY <1>3, <1>4 DEF Shape
<1> QED BY <1>1, <1>2, <1>5 DEF c
-----------------------------------------------------------------------------
(* The order of the ring is the order of the last uses.                    *)
Ordered(S, r) ==
  /\ \A x, y \in S : r[x] < r[y] => timestamps[x - INDEX_SHIFT] <= timestamps[y - INDEX_SHIFT]
  /\ \A x \in S : timestamps[x - INDEX_SHIFT] <= now

(* The inductive invariant.                                                *)
Listed(S, r) == S \in SUBSET DataCells /\ r \in Ranks /\ Shape(cells, S, r) /\ Ordered(S, r)

IInv == TypeOK /\ \E S, r : Listed(S, r)

LEMMA InitIInv ==
  ASSUME MaxTimeAssumption, Init PROVE IInv
<1>1. TypeOK
  BY InitShape DEF MaxTimeAssumption, Init, TypeOK, Times, Ops, NoIndex
<1>2. PICK r \in Ranks : Shape(dchain_impl_init, {}, r)
  BY InitShape
<1>3. Listed({}, r)
  BY <1>2 DEF Init, Listed, Ordered
<1> QED BY <1>1, <1>3 DEF IInv

(* The abstract state after a step that leaves S allocated.                *)
LEMMA AllocatedSet ==
  ASSUME NEW S, NEW r, Listed(S, r), TypeOK
  PROVE  Allocated = {i \in Indexes : i + INDEX_SHIFT \in S}
  BY AllocatedIff DEF Allocated, Listed, TypeOK

LEMMA TickStep ==
  ASSUME MaxTimeAssumption, IInv, Tick PROVE IInv' /\ A!Tick
<1>1. PICK S, r : Listed(S, r)
  BY DEF IInv
<1>2. TypeOK'
  BY DEF MaxTimeAssumption, IInv, TypeOK, Tick, Times
<1>3. /\ cells' = cells /\ timestamps' = timestamps /\ now' = now + 1 /\ now \in Int
      /\ S \subseteq DataCells /\ timestamps \in [Indexes -> Int]
  BY <1>1 DEF Tick, IInv, TypeOK, Times, Listed
<1>4. \A x \in S : x - INDEX_SHIFT \in Indexes
  BY <1>3, IndexRangeAssumption DEF DataCells, Indexes, INDEX_SHIFT
<1>5. Ordered(S, r)'
  BY <1>1, <1>3, <1>4 DEF Ordered, Listed
<1>6. Listed(S, r)'
  BY <1>1, <1>3, <1>5 DEF Listed
<1>7. A!Tick
  BY DEF Tick, A!Tick, Allocated
<1> QED BY <1>2, <1>6, <1>7 DEF IInv

LEMMA AllocateStep ==
  ASSUME IInv, dchain_allocate_new_index PROVE IInv' /\ A!Allocate
<1>1. PICK S, r : Listed(S, r)
  BY DEF IInv
<1>2. /\ cells \in Cells /\ r \in Ranks /\ Shape(cells, S, r) /\ Ordered(S, r)
      /\ S \subseteq DataCells /\ TypeOK
      /\ timestamps \in [Indexes -> Times] /\ now \in Times
  BY <1>1 DEF IInv, TypeOK, Listed
<1>3. Allocated = {i \in Indexes : i + 2 \in S}
  BY <1>1, <1>2, AllocatedSet DEF INDEX_SHIFT
<1>4. \A x \in DataCells : x - 2 \in Indexes /\ x = (x - 2) + 2
  BY IndexRangeAssumption DEF DataCells, Indexes
<1>a. CASE ~HasFreeIndex(cells)
  <2>1. UNCHANGED <<cells, timestamps, now>> /\ Answer("allocate", FALSE, NoIndex)
    BY <1>a DEF dchain_allocate_new_index, dchain_impl_allocate_new_index
  <2>2. TypeOK'
    BY <1>2, <2>1 DEF TypeOK, Answer, Ops
  <2>3. Listed(S, r)'
    BY <1>1, <2>1 DEF Listed, Ordered
  <2>4. DataCells \ S = {}
    BY <1>2, <1>a DEF HasFreeIndex, Shape, FreeStack, StackTop
  <2>5. Allocated = Indexes
    BY <1>3, <2>4, IndexRangeAssumption DEF DataCells, Indexes
  <2>6. A!Allocate
    BY <2>1, <2>5 DEF A!Allocate, A!Answer, Answer, A!Allocated, Allocated, NoIndex, A!NoIndex
  <2> QED BY <2>2, <2>3, <2>6 DEF IInv
<1>b. CASE HasFreeIndex(cells)
  <2>a. PICK a : a = cells.next[FREE_LIST_HEAD]
    OBVIOUS
  <2>i. PICK i : i = NewIndex(cells)
    OBVIOUS
  <2> DEFINE T == S \cup {a}
  <2>1. /\ cells' = dchain_impl_allocate_new_index(cells)
        /\ timestamps' = [timestamps EXCEPT ![i] = now]
        /\ now' = now /\ Answer("allocate", TRUE, i)
    BY <1>b, <2>i DEF dchain_allocate_new_index
  <2>2. PICK q \in Ranks : /\ a \in DataCells \ S
                           /\ cells' \in Cells
                           /\ Shape(cells', T, q)
                           /\ \A y \in S : q[y] = r[y] /\ q[y] < q[a]
    <3>1. /\ a \in DataCells \ S
          /\ dchain_impl_allocate_new_index(cells) \in Cells
          /\ \E q \in Ranks : /\ Shape(dchain_impl_allocate_new_index(cells), S \cup {a}, q)
                             /\ \A y \in S : q[y] = r[y] /\ q[y] < q[a]
      BY <1>2, <1>b, <2>a, AllocateShape
    <3> QED BY <2>1, <3>1
  <2>3. i = a - 2 /\ i \in Indexes /\ i + 2 = a
    BY <1>4, <2>a, <2>i, <2>2 DEF NewIndex, INDEX_SHIFT
  <2>4. TypeOK'
    BY <1>2, <2>1, <2>2, <2>3 DEF TypeOK, Answer, Ops
  <2>5. /\ timestamps' \in [Indexes -> Times] /\ timestamps'[i] = now
        /\ \A j \in Indexes \ {i} : timestamps'[j] = timestamps[j]
    BY <1>2, <2>1, <2>3
  <2>6. Ordered(T, q)'
    <3>1. \A y \in S : y - 2 \in Indexes \ {i}
      BY <1>2, <1>4, <2>2, <2>3
    <3>2. \A x \in T : q[x] \in Int
      BY <1>2, <2>2 DEF Ranks
    <3>3. now \in Int /\ \A j \in Indexes : timestamps[j] \in Int
      BY <1>2 DEF Times
    <3> QED BY <1>2, <2>1, <2>2, <2>3, <2>5, <3>1, <3>2, <3>3 DEF Ordered, INDEX_SHIFT
  <2>7. Listed(T, q)'
    BY <1>2, <2>2, <2>6 DEF Listed
  <2>8. Allocated' = Allocated \cup {i} /\ i \notin Allocated
    <3>1. Allocated' = {j \in Indexes : j + 2 \in T}
      BY <2>4, <2>7, AllocatedIff DEF Allocated, Listed, TypeOK, INDEX_SHIFT
    <3>2. \A j \in Indexes : j + 2 = a => j = i
      BY <2>3 DEF Indexes
    <3> QED BY <1>3, <2>2, <2>3, <3>1, <3>2
  <2>9. [j \in Allocated' |-> timestamps'[j]]
          = [j \in Allocated \cup {i} |-> IF j = i THEN now ELSE timestamps[j]]
    BY <2>5, <2>8 DEF Allocated
  <2>10. A!Allocate
    BY <2>1, <2>3, <2>8, <2>9 DEF A!Allocate, A!Answer, Answer, A!Allocated, A!With
  <2> QED BY <2>4, <2>7, <2>10 DEF IInv
<1> QED BY <1>a, <1>b

Replies == [op : Ops, ok : BOOLEAN, index : Indexes \cup {NoIndex}]

(* A call that only answers.                                               *)
LEMMA AnswerStep ==
  ASSUME IInv, UNCHANGED <<cells, timestamps, now>>, reply' \in Replies
  PROVE  IInv' /\ Allocated' = Allocated
<1>1. PICK S, r : Listed(S, r)
  BY DEF IInv
<1>2. TypeOK'
  BY DEF IInv, TypeOK, Replies
<1>3. Listed(S, r)'
  BY <1>1 DEF Listed, Ordered
<1> QED BY <1>2, <1>3 DEF IInv, Allocated

(* A call that frees an allocated index.                                   *)
LEMMA FreeStep ==
  ASSUME IInv, NEW i \in Allocated, cells' = dchain_impl_free_index(cells, i),
         UNCHANGED <<timestamps, now>>, reply' \in Replies
  PROVE  /\ IInv'
         /\ [j \in Allocated' |-> timestamps'[j]] = [j \in Allocated \ {i} |-> timestamps[j]]
<1>1. PICK S, r : Listed(S, r)
  BY DEF IInv
<1>2. /\ cells \in Cells /\ r \in Ranks /\ Shape(cells, S, r) /\ Ordered(S, r)
      /\ S \subseteq DataCells /\ TypeOK
  BY <1>1 DEF IInv, TypeOK, Listed
<1>3. Allocated = {j \in Indexes : j + 2 \in S}
  BY <1>1, <1>2, AllocatedSet DEF INDEX_SHIFT
<1>4. PICK x : x = i + 2
  OBVIOUS
<1>5. x \in S /\ i \in Indexes /\ x = i + INDEX_SHIFT
  BY <1>3, <1>4 DEF INDEX_SHIFT
<1>6. PICK q \in Ranks : /\ cells' \in Cells
                         /\ Shape(cells', S \ {x}, q)
                         /\ \A y \in S \ {x} : q[y] = r[y]
  <2>1. /\ dchain_impl_free_index(cells, i) \in Cells
        /\ \E q \in Ranks : /\ Shape(dchain_impl_free_index(cells, i), S \ {x}, q)
                           /\ \A y \in S \ {x} : q[y] = r[y]
    BY <1>2, <1>5, FreeShape
  <2> QED BY <2>1
<1>7. TypeOK'
  BY <1>2, <1>6 DEF TypeOK, Replies
<1>8. Ordered(S \ {x}, q)'
  BY <1>2, <1>6 DEF Ordered
<1>9. Listed(S \ {x}, q)'
  BY <1>2, <1>6, <1>8 DEF Listed
<1>10. Allocated' = Allocated \ {i}
  <2>1. Allocated' = {j \in Indexes : j + 2 \in S \ {x}}
    BY <1>7, <1>9, AllocatedIff DEF Allocated, Listed, TypeOK, INDEX_SHIFT
  <2>2. \A j \in Indexes : j + 2 = x => j = i
    BY <1>4, <1>5 DEF Indexes
  <2> QED BY <1>3, <1>4, <2>1, <2>2
<1> QED BY <1>7, <1>9, <1>10 DEF IInv

LEMMA FreeIndexStep ==
  ASSUME IInv, NEW i \in Indexes, dchain_free_index(i) PROVE IInv' /\ A!Free(i)
<1>1. reply' \in Replies
  BY DEF dchain_free_index, Answer, Replies, Ops, dchain_impl_is_index_allocated
<1>a. CASE i \in Allocated
  <2>1. /\ cells' = dchain_impl_free_index(cells, i) /\ UNCHANGED <<timestamps, now>>
        /\ Answer("free", TRUE, i)
    BY <1>a DEF dchain_free_index, Allocated
  <2>2. IInv' /\ [j \in Allocated' |-> timestamps'[j]] = [j \in Allocated \ {i} |-> timestamps[j]]
    BY <1>1, <1>a, <2>1, FreeStep
  <2> QED BY <1>a, <2>1, <2>2 DEF A!Free, A!Answer, Answer, A!Allocated, A!Without
<1>b. CASE i \notin Allocated
  <2>0. dchain_impl_is_index_allocated(cells, i) = (i \in Allocated)
    BY DEF Allocated, dchain_impl_is_index_allocated
  <2>1. UNCHANGED <<cells, timestamps, now>> /\ Answer("free", i \in Allocated, i)
    BY <1>b, <2>0 DEF dchain_free_index, dchain_impl_free_index
  <2>2. IInv' /\ Allocated' = Allocated
    BY <1>1, <2>1, AnswerStep
  <2>3. [j \in Allocated' |-> timestamps'[j]] = [j \in Allocated |-> timestamps[j]]
    BY <2>1, <2>2
  <2> QED BY <1>b, <2>1, <2>2, <2>3 DEF A!Free, A!Answer, Answer, A!Allocated
<1> QED BY <1>a, <1>b

LEMMA IsAllocatedStep ==
  ASSUME IInv, NEW i \in Indexes, dchain_is_index_allocated(i)
  PROVE  IInv' /\ A!IsAllocated(i)
<1>1. reply' \in Replies
  BY DEF dchain_is_index_allocated, Answer, Replies, Ops, dchain_impl_is_index_allocated
<1>2. dchain_impl_is_index_allocated(cells, i) = (i \in Allocated)
  BY DEF Allocated, dchain_impl_is_index_allocated
<1>3. UNCHANGED <<cells, timestamps, now>> /\ Answer("is_allocated", i \in Allocated, i)
  BY <1>2 DEF dchain_is_index_allocated
<1>4. IInv' /\ Allocated' = Allocated
  BY <1>1, <1>3, AnswerStep
<1> QED BY <1>3, <1>4 DEF A!IsAllocated, A!Answer, Answer, A!Allocated

LEMMA ExpireStep ==
  ASSUME IInv, NEW time \in -1 .. now, dchain_expire_one_index(time)
  PROVE  IInv' /\ A!ExpireOne(time)
<1>1. PICK S, r : Listed(S, r)
  BY DEF IInv
<1>2. /\ cells \in Cells /\ r \in Ranks /\ Shape(cells, S, r) /\ Ordered(S, r)
      /\ S \subseteq DataCells /\ TypeOK /\ now \in Times /\ timestamps \in [Indexes -> Times]
  BY <1>1 DEF IInv, TypeOK, Listed
<1>3. Allocated = {j \in Indexes : j + 2 \in S}
  BY <1>1, <1>2, AllocatedSet DEF INDEX_SHIFT
<1>4. \A x \in DataCells : x - 2 \in Indexes /\ x = (x - 2) + 2
  BY IndexRangeAssumption DEF DataCells, Indexes
<1>5. time \in Int /\ \A j \in Indexes : timestamps[j] \in Int /\ j + 2 \in Int /\ (j + 2) - 2 = j
  BY <1>2 DEF Times, Indexes
<1>a. CASE ~HasOldestIndex(cells)
  <2>1. UNCHANGED <<cells, timestamps, now>> /\ Answer("expire", FALSE, NoIndex)
    BY <1>a DEF dchain_expire_one_index
  <2>2. IInv' /\ Allocated' = Allocated
    BY <2>1, AnswerStep DEF Answer, Replies, Ops
  <2>3. Allocated = {}
    BY <1>2, <1>3, <1>a DEF HasOldestIndex, Shape, AllocRing, RingEnds
  <2> QED BY <2>1, <2>2, <2>3 DEF A!ExpireOne, A!Answer, Answer, A!Allocated, NoIndex, A!NoIndex
<1>b. CASE HasOldestIndex(cells)
  <2>i. PICK i : i = OldestIndex(cells)
    OBVIOUS
  <2>1. cells.next[0] \in S /\ i = cells.next[0] - 2 /\ \A y \in S : r[cells.next[0]] <= r[y]
    BY <1>2, <1>b, <2>i DEF HasOldestIndex, OldestIndex, Shape, AllocRing, RingClosed,
       RingEnds, ALLOC_LIST_HEAD, INDEX_SHIFT
  <2>2. i \in Indexes /\ i + 2 \in S /\ i + 2 = cells.next[0] /\ i \in Allocated
    BY <1>2, <1>3, <1>4, <2>1
  <2>3. \A j \in Allocated : timestamps[i] <= timestamps[j]
    <3> SUFFICES ASSUME NEW j \in Allocated PROVE timestamps[i] <= timestamps[j]
      OBVIOUS
    <3>1. j + 2 \in S /\ j \in Indexes /\ r[i + 2] <= r[j + 2] /\ r[i + 2] \in Int /\ r[j + 2] \in Int
      BY <1>2, <1>3, <2>1, <2>2 DEF Ranks
    <3>2. CASE r[i + 2] = r[j + 2]
      <4>1. i + 2 = j + 2
        BY <1>2, <2>2, <3>1, <3>2 DEF Shape, AllocRing, Distinct
      <4>2. i = j
        BY <1>5, <2>2, <3>1, <4>1
      <4> QED BY <1>5, <2>2, <4>2
    <3>3. CASE r[i + 2] < r[j + 2]
      <4>1. timestamps[(i + 2) - 2] <= timestamps[(j + 2) - 2]
        BY <1>2, <2>2, <3>1, <3>3 DEF Ordered, INDEX_SHIFT
      <4> QED BY <1>5, <2>2, <3>1, <4>1
    <3> QED BY <3>1, <3>2, <3>3
  <2>c. CASE timestamps[i] < time
    <3>1. /\ cells' = dchain_impl_free_index(cells, i) /\ UNCHANGED <<timestamps, now>>
          /\ Answer("expire", TRUE, i)
      BY <1>b, <2>c, <2>i DEF dchain_expire_one_index
    <3>2. reply' \in Replies
      BY <2>2, <3>1 DEF Answer, Replies, Ops
    <3>3. IInv' /\ [j \in Allocated' |-> timestamps'[j]] = [j \in Allocated \ {i} |-> timestamps[j]]
      BY <2>2, <3>1, <3>2, FreeStep
    <3> QED BY <2>2, <2>3, <2>c, <3>1, <3>3
         DEF A!ExpireOne, A!Oldest, A!Answer, Answer, A!Allocated, A!Without
  <2>d. CASE ~(timestamps[i] < time)
    <3>1. UNCHANGED <<cells, timestamps, now>> /\ Answer("expire", FALSE, i)
      BY <1>b, <2>d, <2>i DEF dchain_expire_one_index
    <3>2. reply' \in Replies
      BY <2>2, <3>1 DEF Answer, Replies, Ops
    <3>3. IInv' /\ Allocated' = Allocated
      BY <3>1, <3>2, AnswerStep
    <3>4. \A j \in Allocated : timestamps[j] >= time
      BY <1>3, <1>5, <2>2, <2>3, <2>d
    <3> QED BY <2>2, <3>1, <3>3, <3>4
         DEF A!ExpireOne, A!Answer, Answer, A!Allocated
  <2> QED BY <2>c, <2>d
<1> QED BY <1>a, <1>b

LEMMA RejuvenateStep ==
  ASSUME IInv, NEW i \in Indexes, dchain_rejuvenate_index(i) PROVE IInv' /\ A!Rejuvenate(i)
<1>0. reply' \in Replies
  BY DEF dchain_rejuvenate_index, Answer, Replies, Ops, dchain_impl_is_index_allocated
<1>1. PICK S, r : Listed(S, r)
  BY DEF IInv
<1>2. /\ cells \in Cells /\ r \in Ranks /\ Shape(cells, S, r) /\ Ordered(S, r)
      /\ S \subseteq DataCells /\ TypeOK
      /\ timestamps \in [Indexes -> Times] /\ now \in Times
  BY <1>1 DEF IInv, TypeOK, Listed
<1>3. Allocated = {j \in Indexes : j + 2 \in S}
  BY <1>1, <1>2, AllocatedSet DEF INDEX_SHIFT
<1>4. \A x \in DataCells : x - 2 \in Indexes /\ x = (x - 2) + 2
  BY IndexRangeAssumption DEF DataCells, Indexes
<1>5. dchain_impl_is_index_allocated(cells, i) = (i \in Allocated)
  BY DEF Allocated, dchain_impl_is_index_allocated
<1>6. Answer("rejuvenate", i \in Allocated, i) /\ now' = now
  BY <1>5 DEF dchain_rejuvenate_index
<1>a. CASE i \notin Allocated
  <2>1. UNCHANGED <<cells, timestamps, now>>
    BY <1>5, <1>a DEF dchain_rejuvenate_index, dchain_impl_rejuvenate_index,
       dchain_impl_is_index_allocated
  <2>2. IInv' /\ Allocated' = Allocated
    BY <1>0, <2>1, AnswerStep
  <2>3. [j \in Allocated' |-> timestamps'[j]] = [j \in Allocated |-> timestamps[j]]
    BY <2>1, <2>2
  <2> QED BY <1>6, <1>a, <2>2, <2>3 DEF A!Rejuvenate, A!Answer, Answer, A!Allocated
<1>b. CASE i \in Allocated
  <2>1. /\ cells' = dchain_impl_rejuvenate_index(cells, i)
        /\ timestamps' = [timestamps EXCEPT ![i] = now]
    BY <1>5, <1>b DEF dchain_rejuvenate_index
  <2>x. PICK x : x = i + 2
    OBVIOUS
  <2>2. x \in S /\ x = i + INDEX_SHIFT /\ x - 2 = i
    BY <1>3, <1>b, <2>x DEF INDEX_SHIFT, Indexes
  <2>3. PICK q \in Ranks : /\ cells' \in Cells
                           /\ Shape(cells', S, q)
                           /\ \A y \in S \ {x} : q[y] = r[y] /\ q[y] < q[x]
    <3>1. /\ dchain_impl_rejuvenate_index(cells, i) \in Cells
          /\ \E q \in Ranks : /\ Shape(dchain_impl_rejuvenate_index(cells, i), S, q)
                             /\ \A y \in S \ {x} : q[y] = r[y] /\ q[y] < q[x]
      BY <1>2, <2>2, RejuvenateShape
    <3> QED BY <2>1, <3>1
  <2>4. /\ timestamps' \in [Indexes -> Times] /\ timestamps'[i] = now
        /\ \A j \in Indexes \ {i} : timestamps'[j] = timestamps[j]
    BY <1>2, <2>1
  <2>5. TypeOK'
    BY <1>0, <1>2, <1>6, <2>3, <2>4 DEF TypeOK, Replies
  <2>6. Ordered(S, q)'
    <3>1. \A y \in S \ {x} : y - 2 \in Indexes \ {i}
      BY <1>2, <1>4, <2>x
    <3>2. \A y \in S : q[y] \in Int
      BY <1>2, <2>3 DEF Ranks
    <3>3. now \in Int /\ \A j \in Indexes : timestamps[j] \in Int
      BY <1>2 DEF Times
    <3> QED BY <1>2, <1>6, <2>2, <2>3, <2>4, <3>1, <3>2, <3>3 DEF Ordered, INDEX_SHIFT
  <2>7. Listed(S, q)'
    BY <1>2, <2>3, <2>6 DEF Listed
  <2>8. Allocated' = Allocated
    <3>1. Allocated' = {j \in Indexes : j + 2 \in S}
      BY <2>5, <2>7, AllocatedIff DEF Allocated, Listed, TypeOK, INDEX_SHIFT
    <3> QED BY <1>3, <3>1
  <2>9. [j \in Allocated' |-> timestamps'[j]]
          = [j \in Allocated \cup {i} |-> IF j = i THEN now ELSE timestamps[j]]
    BY <1>b, <2>4, <2>8 DEF Allocated
  <2> QED BY <1>6, <1>b, <2>5, <2>7, <2>9
       DEF IInv, A!Rejuvenate, A!Answer, Answer, A!Allocated, A!With
<1> QED BY <1>a, <1>b
-----------------------------------------------------------------------------
(* Every step of the double chain keeps the invariant and is a step of the *)
(* abstract allocator.                                                     *)
LEMMA NextStep ==
  ASSUME MaxTimeAssumption, IInv, [Next]_vars PROVE IInv' /\ [A!Next]_A!vars
<1>1. CASE Tick
  BY <1>1, TickStep DEF A!Next
<1>2. CASE dchain_allocate_new_index
  BY <1>2, AllocateStep DEF A!Next
<1>3. ASSUME NEW i \in Indexes, dchain_rejuvenate_index(i) PROVE IInv' /\ [A!Next]_A!vars
  BY <1>3, RejuvenateStep DEF A!Next
<1>4. ASSUME NEW i \in Indexes, dchain_free_index(i) PROVE IInv' /\ [A!Next]_A!vars
  BY <1>4, FreeIndexStep DEF A!Next
<1>5. ASSUME NEW i \in Indexes, dchain_is_index_allocated(i) PROVE IInv' /\ [A!Next]_A!vars
  BY <1>5, IsAllocatedStep DEF A!Next
<1>6. ASSUME NEW time \in -1 .. now, dchain_expire_one_index(time)
      PROVE  IInv' /\ [A!Next]_A!vars
  BY <1>6, ExpireStep DEF A!Next
<1>7. CASE UNCHANGED vars
  <2>1. reply \in Replies
    BY DEF IInv, TypeOK, Replies
  <2> QED BY <1>7, <2>1, AnswerStep DEF vars, A!vars
<1> QED BY <1>1, <1>2, <1>3, <1>4, <1>5, <1>6, <1>7 DEF Next

(* The links, the time stamps and the answers stay in range: no call       *)
(* follows a link out of the array.                                        *)
THEOREM SpecTypeOK ==
  ASSUME MaxTimeAssumption PROVE Spec => []TypeOK
<1>1. IInv => TypeOK
  BY DEF IInv
<1>2. Init => IInv
  BY InitIInv
<1>3. IInv /\ [Next]_vars => IInv'
  BY NextStep
<1> QED BY <1>1, <1>2, <1>3, PTL DEF Spec

(* Whatever the number of indexes, the linked lists implement the abstract *)
(* allocator: dchain_allocate_new_index fails only when every index is     *)
(* taken and never hands out a taken one, dchain_expire_one_index frees a  *)
(* least recently used index exactly when it is older than the border.     *)
THEOREM SpecRefinesAllocator ==
  ASSUME MaxTimeAssumption PROVE Spec => AllocatorSpec
<1>1. Init => A!Init
  <2> SUFFICES ASSUME Init PROVE A!Init
    OBVIOUS
  <2>1. PICK r \in Ranks : Shape(cells, {}, r)
    BY InitShape DEF Init
  <2>2. Allocated = {}
    BY <2>1, InitShape, AllocatedIff DEF Allocated, Init
  <2> QED BY <2>2 DEF Init, A!Init, NoIndex, A!NoIndex
<1>2. Init => IInv
  BY InitIInv
<1>3. IInv /\ [Next]_vars => IInv' /\ [A!Next]_A!vars
  BY NextStep
<1> QED BY <1>1, <1>2, <1>3, PTL DEF Spec, AllocatorSpec, A!Spec
=============================================================================
