--------------------------- MODULE Policer_proofs ---------------------------
(***************************************************************************)
(* For every set of destinations, table capacity, rate, burst and clock:   *)
(* what the policer lets through, and what it drops, compared with a token *)
(* bucket that neither rounds nor forgets.                                 *)
(***************************************************************************)
EXTENDS Policer, FlowState_proofs

(* Multiplication by a natural number is monotone.                         *)
LEMMA MulMono ==
  ASSUME NEW a \in Int, NEW b \in Int, NEW c \in Nat, a <= b
  PROVE  a * c <= b * c /\ a * c \in Int /\ b * c \in Int
<1>1. b * c = a * c + (b - a) * c
  OBVIOUS
<1>2. (b - a) * c >= 0
  OBVIOUS
<1> QED BY <1>1, <1>2

(* Rounding down loses less than one.                                      *)
LEMMA DivMul ==
  ASSUME NEW a \in Nat, NEW b \in Nat \ {0}
  PROVE  /\ a \div b \in Nat /\ (a \div b) * b \in Nat
         /\ (a \div b) * b <= a /\ a <= (a \div b) * b + (b - 1)
         /\ a % b = 0 => a = (a \div b) * b
OBVIOUS

(* One more tick.                                                          *)
LEMMA NextTick ==
  ASSUME NEW n \in Int, NEW m, m = n + 1, NEW x \in Int, NEW r \in Int
  PROVE  (m - x) * r = (n - x) * r + r /\ (n - x) * r \in Int
OBVIOUS

(* One more of a product.                                                  *)
LEMMA OneMore ==
  ASSUME NEW n \in Nat, NEW u \in Nat
  PROVE  (n + 1) * u = n * u + u /\ n * u \in Nat
OBVIOUS

(* A bucket of F bytes from which z are taken.                             *)
LEMMA Taken ==
  ASSUME NEW F \in Nat, NEW z \in Nat, NEW s \in Nat
  PROVE  /\ (F - z) * s = F * s - z * s
         /\ F * s \in Nat /\ z * s \in Nat
OBVIOUS

(* The types of the constants, and the pause that makes a bucket full.     *)
LEMMA ConstantTypes ==
  ASSUME PolicerAssumption
  PROVE  /\ rate \in Nat \ {0} /\ burst \in Nat \ {0} /\ SECOND \in Nat \ {0}
         /\ Sizes \subseteq Nat /\ MaxTime \in Nat /\ burst * SECOND \in Nat
BY DEF PolicerAssumption, SECOND

(* What a pause may give is at most the bucket, and nothing is subtracted. *)
LEMMA QuietFacts ==
  ASSUME PolicerAssumption
  PROVE  /\ Quiet \in Nat /\ Quiet <= (burst * SECOND) \div rate
         /\ Quiet <= SECOND * (burst \div rate) + 1 /\ SECOND * (burst \div rate) \in Nat
         /\ Quiet * rate \in Nat /\ Unearned \in Nat
         /\ Unearned = burst * SECOND - Quiet * rate
<1> DEFINE full == (burst * SECOND) \div rate
           whole == burst \div rate
<1>0. rate \in Nat \ {0} /\ burst \in Nat \ {0} /\ SECOND \in Nat \ {0} /\ burst * SECOND \in Nat
  BY ConstantTypes
<1>1. full \in Nat /\ full * rate \in Nat /\ full * rate <= burst * SECOND
  BY <1>0, DivMul
<1>2. whole \in Nat
  BY <1>0, DivMul
<1> HIDE DEF full, whole
<1>3. SECOND * whole \in Nat
  BY <1>0, <1>2
<1>4. Quiet = AtMost(full, SECOND * whole + 1)
  BY DEF Quiet, full, whole
<1>5. Quiet \in Nat /\ Quiet <= full /\ Quiet <= SECOND * whole + 1
  BY <1>1, <1>3, <1>4 DEF AtMost
<1>6. Quiet * rate <= full * rate /\ Quiet * rate \in Int
  BY <1>0, <1>1, <1>5, MulMono
<1>7. Quiet * rate \in Nat
  BY <1>0, <1>5
<1>8. Unearned = burst * SECOND - Quiet * rate
  BY DEF Unearned
<1>9. Unearned \in Nat
  BY <1>0, <1>1, <1>6, <1>7, <1>8
<1> QED BY <1>3, <1>5, <1>7, <1>8, <1>9 DEF full, whole

(* The types of what the products below are made of.                       *)
LEMMA UnitTypes ==
  ASSUME PolicerAssumption
  PROVE  Unearned \in Nat /\ Quiet \in Nat /\ rate \in Nat /\ SECOND - 1 \in Nat
<1>1. SECOND - 1 \in Nat /\ rate \in Nat
  BY ConstantTypes
<1> QED BY <1>1, QuietFacts

(* The refilled bucket of a destination whose time since the last packet   *)
(* is x.  It never holds more than was earned, but for the X that pauses   *)
(* have given, when the refill is not taken as full for its time; and      *)
(* never much less: a fraction of a byte, if any was cut off.              *)
LEMMA RefillBound ==
  ASSUME NEW r \in Nat \ {0}, NEW s \in Nat \ {0}, NEW g \in Nat,
         NEW b \in 0 .. g, NEW x \in Nat, NEW F,
         F = IF x < (g * s) \div r THEN AtMost(g, b + (x * r) \div s) ELSE g
  PROVE  /\ F \in 0 .. g /\ F * s \in Nat /\ F * s <= g * s
         /\ b * s \in Nat /\ x * r \in Nat /\ g * s \in Nat
         /\ x < (g * s) \div r => F * s <= b * s + x * r
         /\ F # g => b * s + x * r <= F * s + IF (x * r) % s # 0 THEN s - 1 ELSE 0
<1>0. g * s \in Nat /\ x * r \in Nat /\ b * s \in Nat /\ b \in Nat
  OBVIOUS
<1> DEFINE e == x * r
           m == e \div s
<1>1. /\ m \in Nat /\ m * s \in Nat /\ m * s <= e /\ e <= m * s + (s - 1)
      /\ e % s = 0 => e = m * s
  BY <1>0, DivMul
<1>2. F = IF x < (g * s) \div r THEN AtMost(g, b + m) ELSE g
  OBVIOUS
<1>e. e \in Nat /\ (e % s) \in Nat
  BY <1>0
<1> HIDE DEF e, m
<1>3. F \in 0 .. g
  BY <1>0, <1>1, <1>2 DEF AtMost
<1>4. F * s <= g * s /\ F * s \in Nat
  BY <1>0, <1>3, MulMono
<1>5. (b + m) * s = b * s + m * s
  BY <1>0, <1>1
<1>6. ASSUME x < (g * s) \div r
      PROVE  F * s <= b * s + e
  <2>1. F <= b + m
    BY <1>6, <1>0, <1>1, <1>2 DEF AtMost
  <2>2. F * s <= (b + m) * s
    BY <2>1, <1>0, <1>1, <1>3, MulMono
  <2> QED BY <2>2, <1>0, <1>1, <1>4, <1>5, <1>e
<1>7. ASSUME F # g
      PROVE  b * s + e <= F * s + IF e % s # 0 THEN s - 1 ELSE 0
  <2>1. F = b + m
    BY <1>7, <1>0, <1>1, <1>2 DEF AtMost
  <2>2. F * s = b * s + m * s
    BY <2>1, <1>5
  <2> QED BY <2>2, <1>0, <1>1, <1>e
<1> QED BY <1>0, <1>3, <1>4, <1>6, <1>7 DEF e

(* After a pause the exact bucket is full but for Unearned.                *)
LEMMA PauseFills ==
  ASSUME PolicerAssumption, NEW c \in Int, NEW y \in Int, y >= Quiet, NEW X \in Nat,
         c = burst * SECOND \/ c >= y * rate - X
  PROVE  c >= burst * SECOND - (X + Unearned)
<1>1. Quiet * rate <= y * rate /\ y * rate \in Int /\ Quiet * rate \in Int
  BY QuietFacts, ConstantTypes, MulMono
<1> QED BY <1>1, QuietFacts, ConstantTypes
-----------------------------------------------------------------------------
Owed(d) == pauses[d] * Unearned

Capped == \A d \in Destinations : credit[d] <= burst * SECOND

(* Since the last packet let through the exact bucket has gained the rate. *)
Gained == \A d \in Destinations :
            \/ credit[d] = burst * SECOND
            \/ last[d] >= 0 /\ credit[d] >= (now - last[d]) * rate - Owed(d)

(* The entry of a destination: its time is that of the chain, not before   *)
(* the last packet let through, and its bucket is that of the exact one,   *)
(* up to what pauses gave and rounding took.                               *)
Entry(t, d) ==
  LET v == dyn_vals[t.fm[d]]
  IN  /\ v.bucket_time = t.heap[t.fm[d]]
      /\ last[d] >= 0 /\ last[d] <= v.bucket_time
      /\ \/ credit[d] = burst * SECOND
         \/ now - last[d] >= Quiet
         \/ credit[d] >= v.bucket_size * SECOND + (now - v.bucket_time) * rate - Owed(d)
      /\ credit[d] <= v.bucket_size * SECOND + (now - v.bucket_time) * rate
                        + rounded[d] * (SECOND - 1)

Entries(t) ==
  /\ \A d \in Destinations \ DOMAIN t.fm : last[d] = -1 \/ now - last[d] >= Quiet
  /\ \A d \in DOMAIN t.fm : Entry(t, d)

(* The inductive invariant.                                                *)
IInv == TypeOK /\ Coherence(table) /\ Capped /\ Gained /\ Entries(table)

(* Its types, for one destination and its entry.                           *)
LEMMA Types ==
  ASSUME PolicerAssumption, IInv, NEW d \in Destinations
  PROVE  /\ now \in Nat /\ credit[d] \in Int /\ last[d] \in Int /\ last[d] <= now
         /\ last[d] >= -1 /\ pauses[d] \in Nat /\ rounded[d] \in Nat
         /\ Owed(d) \in Nat /\ (now - last[d]) * rate \in Int
         /\ rounded[d] * (SECOND - 1) \in Nat
<1>1. /\ now \in Nat /\ credit[d] \in Int /\ last[d] \in -1 .. now
      /\ pauses[d] \in Nat /\ rounded[d] \in Nat
  BY ConstantTypes DEF IInv, TypeOK
<1>2. last[d] \in Int /\ last[d] <= now /\ last[d] >= -1
  BY <1>1
<1>3. Unearned \in Nat /\ rate \in Nat /\ SECOND - 1 \in Nat
  BY UnitTypes
<1>4. pauses[d] * Unearned \in Nat /\ (now - last[d]) * rate \in Int
  BY <1>1, <1>2, <1>3
<1>5. rounded[d] * (SECOND - 1) \in Nat
  BY <1>1, <1>3
<1> QED BY <1>1, <1>2, <1>4, <1>5 DEF Owed

(* A bucket of the table in fractions of a byte, and the time since then.  *)
LEMMA BucketTypes ==
  ASSUME NEW g \in Nat, NEW n \in Nat, NEW b \in 0 .. g, NEW x \in 0 .. n,
         NEW s \in Nat, NEW r \in Nat
  PROVE  /\ b * s \in Nat /\ x \in Int /\ x <= n /\ n - x \in Nat
         /\ (n - x) * r \in Nat
OBVIOUS

(* The same of the entry of a destination that is in the table.            *)
LEMMA EntryTypes ==
  ASSUME PolicerAssumption, IInv, NEW t \in Tables(Destinations, 0 .. now),
         NEW d \in DOMAIN t.fm, NEW v, v = dyn_vals[t.fm[d]]
  PROVE  /\ d \in Destinations /\ t.fm[d] \in Indexes
         /\ v.bucket_size \in 0 .. burst /\ v.bucket_size * SECOND \in Nat
         /\ v.bucket_time \in Int /\ v.bucket_time <= now /\ now - v.bucket_time \in Nat
         /\ (now - v.bucket_time) * rate \in Nat
<1>1. d \in Destinations /\ t.fm[d] \in Indexes
  BY TableElim
<1>2. v.bucket_size \in 0 .. burst /\ v.bucket_time \in 0 .. now /\ now \in Nat
  BY <1>1, ConstantTypes DEF IInv, TypeOK
<1>3. v.bucket_size * SECOND \in Nat
  BY <1>2, ConstantTypes, BucketTypes
<1> QED BY <1>1, <1>2, <1>3, ConstantTypes, BucketTypes

(* Nothing is let through that the exact bucket and the pauses do not      *)
(* cover.                                                                  *)
LEMMA IInvConforms ==
  ASSUME PolicerAssumption, IInv
  PROVE  Conforms
<1> SUFFICES ASSUME NEW d \in Destinations PROVE credit[d] >= -(pauses[d] * Unearned)
  BY DEF Conforms
<1>1. CASE credit[d] = burst * SECOND
  BY <1>1, Types, ConstantTypes DEF Owed
<1>2. CASE last[d] >= 0 /\ credit[d] >= (now - last[d]) * rate - Owed(d)
  <2>1. (now - last[d]) * rate >= 0
    BY Types, ConstantTypes
  <2> QED BY <1>2, <2>1, Types DEF Owed
<1> QED BY <1>1, <1>2 DEF IInv, Gained

(* Who is forgotten has let nothing through for a pause.                   *)
LEMMA ExpireKeeps ==
  ASSUME PolicerAssumption, IInv, NEW u, u = policer_expire_entries(table)
  PROVE  u \in Tables(Destinations, 0 .. now) /\ Coherence(u) /\ Entries(u)
<1> DEFINE span == SECOND * (burst \div rate)
           time == now - span
           Times == 0 .. now
<1>0. span \in Nat /\ Quiet <= span + 1 /\ Quiet \in Nat
  BY QuietFacts
<1>1. table \in Tables(Destinations, Times) /\ Coherence(table) /\ now \in Nat
  BY ConstantTypes DEF IInv, TypeOK
<1>2. u = Expire(table, time)
  BY DEF policer_expire_entries
<1> HIDE DEF span
<1>3. time \in Int
  BY <1>0, <1>1
<1>4. Times \subseteq Int
  BY <1>1
<1>5. u \in Tables(Destinations, Times) /\ Coherence(u) /\ Expired(table, time, u)
  <2> HIDE DEF time, Times
  <2> QED BY <1>1, <1>2, <1>3, <1>4, ExpireFacts
<1>6. /\ \A d : d \in DOMAIN u.fm <=> d \in DOMAIN table.fm /\ table.heap[table.fm[d]] >= time
      /\ \A d \in DOMAIN u.fm : u.fm[d] = table.fm[d]
      /\ \A i \in DOMAIN u.heap : u.heap[i] = table.heap[i]
  BY <1>5 DEF Expired
<1>7. ASSUME NEW d \in Destinations \ DOMAIN u.fm
      PROVE  last[d] = -1 \/ now - last[d] >= Quiet
  <2>1. CASE d \notin DOMAIN table.fm
    BY <2>1 DEF IInv, Entries
  <2>2. CASE d \in DOMAIN table.fm
    <3> DEFINE v == dyn_vals[table.fm[d]]
    <3>1. v.bucket_time = table.heap[table.fm[d]] /\ last[d] <= v.bucket_time
      BY <2>2 DEF IInv, Entries, Entry
    <3>2. v.bucket_time \in Int /\ last[d] \in Int
      BY <2>2, <1>1, EntryTypes, Types
    <3>3. ~(table.heap[table.fm[d]] >= time)
      BY <1>6, <2>2
    <3> HIDE DEF v
    <3>4. last[d] < now - span
      BY <3>1, <3>2, <3>3, <1>3
    <3> QED BY <3>2, <3>4, <1>0, <1>1
  <2> QED BY <2>1, <2>2
<1>8. ASSUME NEW d \in DOMAIN u.fm
      PROVE  Entry(u, d)
  <2>1. d \in DOMAIN table.fm /\ u.fm[d] = table.fm[d]
    BY <1>6
  <2>2. u.heap[u.fm[d]] = table.heap[table.fm[d]]
    BY <1>5, <1>6, <2>1 DEF Coherence
  <2> QED BY <2>1, <2>2 DEF IInv, Entries, Entry
<1> QED BY <1>5, <1>7, <1>8 DEF Entries

(* Every step of time earns what the bucket may hold.                      *)
LEMMA TickKeeps ==
  ASSUME PolicerAssumption, IInv, Tick
  PROVE  IInv'
<1>0. /\ table' = table /\ dyn_vals' = dyn_vals /\ now' = now + 1 /\ now < MaxTime
      /\ last' = last /\ pauses' = pauses /\ rounded' = rounded
      /\ credit' = [d \in Destinations |-> AtMost(burst * SECOND, credit[d] + rate)]
  BY DEF Tick
<1>1. now \in 0 .. MaxTime /\ table \in Tables(Destinations, 0 .. now)
      /\ credit \in [Destinations -> Int] /\ last \in [Destinations -> -1 .. now]
      /\ dyn_vals \in [Indexes -> [bucket_size : 0 .. burst, bucket_time : 0 .. now]]
  BY DEF IInv, TypeOK
<1>2. \A d \in Destinations :
        /\ credit'[d] \in Int /\ credit'[d] <= burst * SECOND /\ credit'[d] <= credit[d] + rate
        /\ credit'[d] = burst * SECOND \/ credit'[d] = credit[d] + rate
        /\ credit[d] = burst * SECOND => credit'[d] = burst * SECOND
  BY <1>0, <1>1, ConstantTypes DEF AtMost
<1>3. TypeOK'
  <2>0. now \in Nat /\ now + 1 \in Nat /\ 0 .. now \subseteq 0 .. now' /\ -1 .. now \subseteq -1 .. now'
    BY <1>0, <1>1, ConstantTypes
  <2>1. table' \in Tables(Destinations, 0 .. now')
    BY <1>0, <1>1, <2>0, TableLater
  <2>2. dyn_vals' \in [Indexes -> [bucket_size : 0 .. burst, bucket_time : 0 .. now']]
    BY <1>0, <1>1, <2>0
  <2>3. credit' \in [Destinations -> Int]
    BY <1>0, <1>2
  <2>4. last' \in [Destinations -> -1 .. now']
    BY <1>0, <1>1, <2>0
  <2>5. now' \in 0 .. MaxTime
    BY <1>0, <1>1, ConstantTypes
  <2>6. pauses' \in [Destinations -> Nat] /\ rounded' \in [Destinations -> Nat]
    BY <1>0 DEF IInv, TypeOK
  <2> QED BY <2>1, <2>2, <2>3, <2>4, <2>5, <2>6 DEF TypeOK
<1>4. Coherence(table)'
  BY <1>0 DEF IInv, Coherence
<1>5. Capped'
  BY <1>2 DEF Capped
<1>6. \A d : Owed(d)' = Owed(d)
  BY <1>0 DEF Owed
<1>7. ASSUME NEW d \in Destinations
      PROVE  \/ credit'[d] = burst * SECOND
             \/ last'[d] >= 0 /\ credit'[d] >= (now' - last'[d]) * rate - Owed(d)'
  <2>1. CASE credit[d] = burst * SECOND
    BY <2>1, <1>2
  <2>2. CASE last[d] >= 0 /\ credit[d] >= (now - last[d]) * rate - Owed(d)
    <3>1. (now' - last[d]) * rate = (now - last[d]) * rate + rate
      BY <1>0, Types, ConstantTypes, NextTick
    <3>2. credit[d] + rate >= (now' - last[d]) * rate - Owed(d)
      BY <2>2, <3>1, Types, ConstantTypes
    <3> QED BY <2>2, <3>2, <1>0, <1>2, <1>6
  <2> QED BY <2>1, <2>2 DEF IInv, Gained
<1>8. ASSUME NEW d \in Destinations, now - last[d] >= Quiet
      PROVE  now' - last'[d] >= Quiet
  BY <1>8, <1>0, Types, QuietFacts
<1>9. ASSUME NEW d \in DOMAIN table.fm
      PROVE  Entry(table, d)'
  <2> DEFINE v == dyn_vals[table.fm[d]]
             e == (now - v.bucket_time) * rate
  <2>0. d \in Destinations /\ v.bucket_time \in Int /\ v.bucket_size * SECOND \in Nat /\ e \in Nat
    BY <1>1, EntryTypes
  <2>1. Entry(table, d)
    BY DEF IInv, Entries
  <2>2. (now' - v.bucket_time) * rate = e + rate
    BY <1>0, <2>0, Types, ConstantTypes, NextTick
  <2>3. credit[d] <= v.bucket_size * SECOND + e + rounded[d] * (SECOND - 1)
    BY <2>1 DEF Entry
  <2>4. credit'[d] <= v.bucket_size * SECOND + (e + rate) + rounded[d] * (SECOND - 1)
    <3> HIDE DEF v, e
    <3> QED BY <2>0, <2>3, <1>2, Types, ConstantTypes
  <2>5. \/ credit'[d] = burst * SECOND
        \/ now' - last'[d] >= Quiet
        \/ credit'[d] >= v.bucket_size * SECOND + (e + rate) - Owed(d)
    <3>1. \/ credit[d] = burst * SECOND
          \/ now - last[d] >= Quiet
          \/ credit[d] >= v.bucket_size * SECOND + e - Owed(d)
      BY <2>1 DEF Entry
    <3> HIDE DEF v, e
    <3>2. CASE credit[d] >= v.bucket_size * SECOND + e - Owed(d)
      BY <3>2, <2>0, <1>2, Types, ConstantTypes
    <3> QED BY <3>1, <3>2, <2>0, <1>2, <1>8
  <2>6. v.bucket_time = table.heap[table.fm[d]] /\ last[d] >= 0 /\ last[d] <= v.bucket_time
    BY <2>1 DEF Entry
  <2> HIDE DEF e
  <2> QED BY <2>2, <2>4, <2>5, <2>6, <1>0, <1>6 DEF Entry
<1>10. Gained' /\ Entries(table)'
  BY <1>0, <1>7, <1>8, <1>9 DEF Gained, Entries, IInv
<1> QED BY <1>3, <1>4, <1>5, <1>10 DEF IInv

(* A packet that leaves only the expired table behind.                     *)
LEMMA ExpiredOnlyKeeps ==
  ASSUME PolicerAssumption, IInv,
         NEW t \in Tables(Destinations, 0 .. now), Coherence(t), Entries(t),
         table' = t, UNCHANGED <<dyn_vals, credit, last, pauses, rounded, now>>
  PROVE  IInv'
<1>1. TypeOK'
  BY DEF IInv, TypeOK
<1>2. Coherence(table)'
  BY DEF Coherence
<1>3. Capped' /\ Gained'
  BY DEF IInv, Capped, Gained, Owed
<1>4. Entries(table)'
  BY DEF Entries, Entry, Owed
<1> QED BY <1>1, <1>2, <1>3, <1>4 DEF IInv

(* The entry of one destination is charged.  Its bucket holds nb bytes     *)
(* now, and the exact one nc; the other entries are as they were.          *)
LEMMA ChargeKeeps ==
  ASSUME PolicerAssumption, IInv,
         NEW t \in Tables(Destinations, 0 .. now), Entries(t),
         NEW dst \in Destinations, NEW index \in Indexes,
         NEW nb \in 0 .. burst, NEW nc \in Int, NEW nl \in 0 .. now,
         NEW np \in Nat, NEW nr \in Nat,
         table' \in Tables(Destinations, 0 .. now), Coherence(table'),
         DOMAIN table'.fm = DOMAIN t.fm \cup {dst},
         table'.fm[dst] = index, table'.heap[index] = now,
         \A d \in DOMAIN t.fm : d # dst =>
            /\ table'.fm[d] = t.fm[d] /\ t.fm[d] # index
            /\ table'.heap[t.fm[d]] = t.heap[t.fm[d]],
         dyn_vals' = [dyn_vals EXCEPT ![index] = [bucket_size |-> nb, bucket_time |-> now]],
         credit' = [credit EXCEPT ![dst] = nc], last' = [last EXCEPT ![dst] = nl],
         pauses' = [pauses EXCEPT ![dst] = np], rounded' = [rounded EXCEPT ![dst] = nr],
         now' = now,
         nc <= burst * SECOND, nc <= nb * SECOND + nr * (SECOND - 1),
         nc = burst * SECOND \/ nc >= (now - nl) * rate - np * Unearned,
         nc = burst * SECOND \/ now - nl >= Quiet \/ nc >= nb * SECOND - np * Unearned
  PROVE  IInv'
<1>0. /\ now \in 0 .. MaxTime /\ credit \in [Destinations -> Int]
      /\ last \in [Destinations -> -1 .. now]
      /\ pauses \in [Destinations -> Nat] /\ rounded \in [Destinations -> Nat]
      /\ dyn_vals \in [Indexes -> [bucket_size : 0 .. burst, bucket_time : 0 .. now]]
  BY DEF IInv, TypeOK
<1>1. credit'[dst] = nc /\ last'[dst] = nl /\ pauses'[dst] = np /\ rounded'[dst] = nr
  BY <1>0
<1>2. \A d \in Destinations : d # dst =>
        /\ credit'[d] = credit[d] /\ last'[d] = last[d]
        /\ pauses'[d] = pauses[d] /\ rounded'[d] = rounded[d] /\ Owed(d)' = Owed(d)
  BY <1>0 DEF Owed
<1>3. /\ dyn_vals'[index].bucket_size = nb /\ dyn_vals'[index].bucket_time = now
      /\ \A i \in Indexes : i # index => dyn_vals'[i] = dyn_vals[i]
  BY <1>0
<1>4. TypeOK'
  <2>0. now \in Nat /\ now \in 0 .. now /\ nl \in -1 .. now
    BY <1>0, ConstantTypes
  <2>1. dyn_vals' \in [Indexes -> [bucket_size : 0 .. burst, bucket_time : 0 .. now]]
    <3>1. [bucket_size |-> nb, bucket_time |-> now] \in [bucket_size : 0 .. burst, bucket_time : 0 .. now]
      BY <2>0
    <3> QED BY <3>1, <1>0
  <2>2. credit' \in [Destinations -> Int] /\ last' \in [Destinations -> -1 .. now]
    BY <1>0, <2>0
  <2>3. pauses' \in [Destinations -> Nat] /\ rounded' \in [Destinations -> Nat]
    BY <1>0
  <2> QED BY <1>0, <2>1, <2>2, <2>3 DEF TypeOK
<1>5. Coherence(table)'
  BY DEF Coherence
<1>6. Capped'
  BY <1>1, <1>2 DEF IInv, Capped
<1>7. nl >= 0 /\ nl <= now /\ (now - now) * rate = 0 /\ nb * SECOND \in Nat
  <2>1. now \in Nat /\ nl \in Int /\ nl >= 0 /\ nl <= now
    BY <1>0, ConstantTypes
  <2>2. rate \in Nat /\ SECOND \in Nat /\ burst \in Nat
    BY ConstantTypes
  <2>3. (now - now) * rate = 0
    BY <2>1, <2>2
  <2>4. nb * SECOND \in Nat
    BY <2>2
  <2> QED BY <2>1, <2>3, <2>4
<1>8. Gained'
  BY <1>1, <1>2, <1>7 DEF IInv, Gained, Owed
<1>9. ASSUME NEW d \in Destinations \ DOMAIN table'.fm
      PROVE  last'[d] = -1 \/ now' - last'[d] >= Quiet
  BY <1>2 DEF Entries
<1>10. ASSUME NEW d \in DOMAIN table'.fm
       PROVE  Entry(table, d)'
  <2>1. CASE d = dst
    <3>1. /\ dyn_vals'[table'.fm[d]].bucket_time = now /\ dyn_vals'[table'.fm[d]].bucket_size = nb
          /\ table'.heap[table'.fm[d]] = now
      BY <2>1, <1>3
    <3>2. np * Unearned \in Nat /\ nr * (SECOND - 1) \in Nat
      <4>1. Unearned \in Nat /\ SECOND - 1 \in Nat
        BY UnitTypes
      <4> QED BY <4>1
    <3>3. /\ nc <= nb * SECOND + (now - now) * rate + nr * (SECOND - 1)
          /\ \/ nc = burst * SECOND
             \/ now - nl >= Quiet
             \/ nc >= nb * SECOND + (now - now) * rate - np * Unearned
      BY <1>7, <3>2
    <3> QED BY <2>1, <3>1, <3>3, <1>1, <1>7 DEF Entry, Owed
  <2>2. CASE d # dst
    <3>1. d \in DOMAIN t.fm
      BY <2>2
    <3>2. d \in Destinations /\ t.fm[d] \in Indexes
      BY <3>1, TableElim
    <3>3. table'.fm[d] = t.fm[d] /\ table'.heap[t.fm[d]] = t.heap[t.fm[d]] /\ t.fm[d] # index
      BY <2>2, <3>1
    <3>4. dyn_vals'[t.fm[d]] = dyn_vals[t.fm[d]]
      BY <3>2, <3>3, <1>3
    <3>5. Entry(t, d)
      BY <3>1 DEF Entries
    <3> QED BY <2>2, <3>2, <3>3, <3>4, <3>5, <1>2 DEF Entry
  <2> QED BY <2>1, <2>2
<1>11. Entries(table)'
  BY <1>9, <1>10 DEF Entries
<1> QED BY <1>4, <1>5, <1>6, <1>8, <1>11 DEF IInv

(* What a packet leaves in a bucket.                                       *)
LEMMA Left ==
  ASSUME NEW g \in Nat, NEW F \in 0 .. g, NEW z \in Nat
  PROVE  (IF F > z THEN F - z ELSE F) \in 0 .. g
OBVIOUS

(* The history of a destination that is taken up, from the exact bucket,   *)
(* its bucket and what the packet finds.                                   *)
LEMMA TakenUp ==
  ASSUME PolicerAssumption, IInv,
         NEW t \in Tables(Destinations, 0 .. now), Entries(t),
         NEW d \in DOMAIN t.fm, NEW v, v = dyn_vals[t.fm[d]], NEW F, F = Refilled(v),
         NEW nr, nr = IF F = burst THEN 0 ELSE IF CutDown(v) THEN rounded[d] + 1 ELSE rounded[d]
  PROVE  /\ F \in 0 .. burst /\ F * SECOND \in Nat
         /\ nr \in Nat /\ nr * (SECOND - 1) \in Nat
         /\ credit[d] <= F * SECOND + nr * (SECOND - 1)
         /\ IF Paused(d) THEN credit[d] >= F * SECOND - (Owed(d) + Unearned)
                         ELSE credit[d] >= F * SECOND - Owed(d)
<1> DEFINE b == v.bucket_size
           x == now - v.bucket_time
           y == now - last[d]
           c == credit[d]
           X == Owed(d)
           q == SECOND - 1
           rr == rounded[d]
           e == x * rate
           bs == b * SECOND
<1>1. /\ d \in Destinations /\ b \in 0 .. burst /\ bs \in Nat /\ x \in Nat
      /\ e \in Nat /\ v.bucket_time \in Int
  BY EntryTypes
<1>2. now \in Nat /\ c \in Int /\ last[d] \in Int /\ X \in Nat /\ rr \in Nat /\ q \in Nat
  BY <1>1, Types, UnitTypes
<1>3. /\ last[d] >= 0 /\ last[d] <= v.bucket_time
      /\ c = burst * SECOND \/ y >= Quiet \/ c >= bs + e - X
      /\ c <= bs + e + rr * q
  BY DEF Entries, Entry
<1>4. c <= burst * SECOND /\ (c = burst * SECOND \/ c >= y * rate - X)
  BY <1>1 DEF IInv, Capped, Gained
<1>5. F = IF x < (burst * SECOND) \div rate
          THEN AtMost(burst, b + (x * rate) \div SECOND) ELSE burst
  BY DEF Refilled
<1>6. (CutDown(v) <=> e % SECOND # 0) /\ (Paused(d) <=> y >= Quiet)
  BY <1>3 DEF CutDown, Paused
<1>7. x <= y /\ y \in Int
  <2> DEFINE bt == v.bucket_time
             la == last[d]
  <2>1. now \in Int /\ la \in Int /\ bt \in Int /\ la <= bt
    BY <1>1, <1>2, <1>3
  <2>2. x = now - bt /\ y = now - la
    OBVIOUS
  <2> HIDE DEF bt, la, x, y
  <2> QED BY <2>1, <2>2
<1> HIDE DEF b, x, y, c, X, q, rr
<1>8. /\ F \in 0 .. burst /\ F * SECOND \in Nat /\ F * SECOND <= burst * SECOND
      /\ x < (burst * SECOND) \div rate => F * SECOND <= b * SECOND + x * rate
      /\ F # burst => b * SECOND + x * rate
                        <= F * SECOND + IF (x * rate) % SECOND # 0 THEN SECOND - 1 ELSE 0
  BY <1>1, <1>5, ConstantTypes, RefillBound
<1>9. (rr + 1) * q = rr * q + q /\ rr * q \in Nat /\ 0 * q = 0
  BY <1>2, OneMore
<1>10. nr = IF F = burst THEN 0 ELSE IF CutDown(v) THEN rr + 1 ELSE rr
  BY DEF rr
<1>11. nr \in Nat /\ nr * q \in Nat
  BY <1>2, <1>9, <1>10
<1>12. c <= F * SECOND + nr * q
  <2>1. CASE F = burst
    <3>1. nr * q = 0
      BY <2>1, <1>9, <1>10
    <3> QED BY <2>1, <3>1, <1>2, <1>4, <1>8
  <2>2. CASE F # burst
    <3>0. bs + e <= F * SECOND + IF e % SECOND # 0 THEN q ELSE 0
      BY <2>2, <1>8 DEF q
    <3> HIDE DEF e, bs
    <3>1. CASE e % SECOND # 0
      <4>1. nr * q = rr * q + q
        BY <2>2, <3>1, <1>6, <1>9, <1>10
      <4> QED BY <3>0, <3>1, <4>1, <1>1, <1>2, <1>3, <1>8, <1>9
    <3>2. CASE ~(e % SECOND # 0)
      <4>1. nr * q = rr * q
        BY <2>2, <3>2, <1>6, <1>10
      <4> QED BY <3>0, <3>2, <4>1, <1>1, <1>2, <1>3, <1>8, <1>9
    <3> QED BY <3>1, <3>2
  <2> QED BY <2>1, <2>2
<1>13. CASE y >= Quiet
  <2>1. c >= burst * SECOND - (X + Unearned)
    BY <1>13, <1>2, <1>4, <1>7, PauseFills
  <2>2. c >= F * SECOND - (X + Unearned)
    <3> DEFINE g == burst * SECOND
               fs == F * SECOND
    <3>1. g \in Nat /\ fs \in Nat /\ fs <= g /\ c >= g - (X + Unearned) /\ Unearned \in Nat
      BY <2>1, <1>8, UnitTypes, ConstantTypes
    <3> HIDE DEF g, fs
    <3>2. c >= fs - (X + Unearned)
      BY <3>1, <1>2
    <3> QED BY <3>2 DEF fs
  <2> QED BY <2>2, <1>6, <1>8, <1>11, <1>12, <1>13 DEF c, X, q
<1>14. CASE ~(y >= Quiet)
  <2>1. Quiet <= (burst * SECOND) \div rate /\ Quiet \in Nat
    BY QuietFacts
  <2>2. (burst * SECOND) \div rate \in Nat
    BY ConstantTypes, DivMul
  <2> DEFINE w == (burst * SECOND) \div rate
  <2>3. x < w
    <3> HIDE DEF w
    <3>1. w \in Nat /\ Quiet <= w
      BY <2>1, <2>2 DEF w
    <3> QED BY <3>1, <2>1, <1>14, <1>7, <1>1
  <2>4. F * SECOND <= bs + e
    BY <2>3, <1>8
  <2> HIDE DEF bs, e
  <2>5. c >= F * SECOND - X
    BY <2>4, <1>14, <1>1, <1>2, <1>3, <1>8, ConstantTypes
  <2> QED BY <2>5, <1>6, <1>8, <1>11, <1>12, <1>14 DEF c, X, q
<1> QED BY <1>13, <1>14

(* The packet of a destination in the table: what is taken from the bucket *)
(* is taken from the exact one, which holds at least as much but for what  *)
(* pauses gave, and little more.                                           *)
LEMMA PresentKeeps ==
  ASSUME PolicerAssumption, IInv,
         NEW t \in Tables(Destinations, 0 .. now), Coherence(t), Entries(t),
         NEW p \in [dst : Destinations, size : Sizes], p.dst \in DOMAIN t.fm,
         Present(t, p), now' = now
  PROVE  IInv' /\ DropsOnlyExcess
<1> DEFINE d == p.dst
           index == t.fm[d]
           F == Refilled(dyn_vals[index])
           c == credit[d]
           X == Owed(d)
           zs == p.size * SECOND
           nb == IF F > p.size THEN F - p.size ELSE F
           nc == IF F > p.size THEN c - zs ELSE c
           nl == IF F > p.size THEN now ELSE last[d]
           np == IF F > p.size /\ Paused(d) THEN pauses[d] + 1 ELSE pauses[d]
           nr == IF F = burst THEN 0
                 ELSE IF CutDown(dyn_vals[index]) THEN rounded[d] + 1 ELSE rounded[d]
<1>0. d \in Destinations /\ p.size \in Nat
  BY ConstantTypes
<1>1. index \in Indexes /\ last[d] >= 0
  BY EntryTypes DEF Entries, Entry
<1>2. /\ now \in Nat /\ c \in Int /\ last[d] \in Int /\ last[d] <= now /\ X \in Nat
      /\ pauses[d] \in Nat /\ (now - last[d]) * rate \in Int
  BY <1>0, Types
<1>3. /\ F \in 0 .. burst /\ F * SECOND \in Nat
      /\ nr \in Nat /\ nr * (SECOND - 1) \in Nat
      /\ c <= F * SECOND + nr * (SECOND - 1)
      /\ IF Paused(d) THEN c >= F * SECOND - (X + Unearned) ELSE c >= F * SECOND - X
  BY TakenUp
<1>4. /\ c <= burst * SECOND
      /\ c = burst * SECOND \/ c >= (now - last[d]) * rate - X
  BY <1>0 DEF IInv, Capped, Gained
<1>5. /\ table' = Rejuvenate(t, index, now)
      /\ dyn_vals' = [dyn_vals EXCEPT ![index] = [bucket_size |-> nb, bucket_time |-> now]]
      /\ rounded' = [rounded EXCEPT ![d] = nr]
      /\ IF F > p.size THEN Admit(p) ELSE Refuse(p)
  BY DEF Present
<1>6. /\ credit' = [credit EXCEPT ![d] = nc] /\ last' = [last EXCEPT ![d] = nl]
      /\ pauses' = [pauses EXCEPT ![d] = np]
  <2>1. /\ credit \in [Destinations -> Int] /\ last \in [Destinations -> -1 .. now]
        /\ pauses \in [Destinations -> Nat]
    BY DEF IInv, TypeOK
  <2> HIDE DEF F
  <2>2. CASE F > p.size
    BY <2>2, <1>5 DEF Admit
  <2>3. CASE ~(F > p.size)
    <3>1. credit' = credit /\ last' = last /\ pauses' = pauses
      BY <2>3, <1>5 DEF Refuse
    <3> QED BY <2>1, <2>3, <3>1
  <2> QED BY <2>2, <2>3
<1>7. Paused(d) <=> now - last[d] >= Quiet
  BY <1>1 DEF Paused
<1> HIDE DEF F, index, nr, c, X, d
<1>8. /\ zs \in Nat
      /\ F > p.size => zs <= F * SECOND /\ (F - p.size) * SECOND = F * SECOND - zs
  <2>1. F \in Nat /\ SECOND \in Nat
    BY <1>3, ConstantTypes
  <2>2. zs \in Nat /\ (F - p.size) * SECOND = F * SECOND - zs
    BY <2>1, <1>0, Taken
  <2>3. F > p.size => zs <= F * SECOND
    BY <2>1, <1>0, MulMono
  <2> QED BY <2>2, <2>3
<1> HIDE DEF zs
<1>9. IInv'
  <2> DEFINE fwd == F > p.size
             paused == now - last[d] >= Quiet
             m == nr * (SECOND - 1)
             gain == (now - last[d]) * rate
  <2>1. nb * SECOND = IF fwd THEN F * SECOND - zs ELSE F * SECOND
    BY <1>8
  <2>2. np * Unearned = (IF fwd /\ paused THEN X + Unearned ELSE X) /\ np \in Nat
    <3>1. /\ (pauses[d] + 1) * Unearned = pauses[d] * Unearned + Unearned
          /\ pauses[d] + 1 \in Nat
      <4> DEFINE pp == pauses[d]
      <4>1. pp \in Nat /\ Unearned \in Nat
        BY <1>2, UnitTypes
      <4> HIDE DEF pp
      <4>2. (pp + 1) * Unearned = pp * Unearned + Unearned /\ pp + 1 \in Nat
        BY <4>1, OneMore
      <4> QED BY <4>2 DEF pp
    <3> QED BY <3>1, <1>2, <1>7 DEF X, Owed
  <2>3. (now - nl) * rate = IF fwd THEN 0 ELSE gain
    <3>1. (now - now) * rate = 0
      BY <1>2, ConstantTypes
    <3> QED BY <3>1
  <2>4. nb \in 0 .. burst /\ nl \in 0 .. now
    <3>1. nb \in 0 .. burst
      BY <1>0, <1>3, ConstantTypes, Left
    <3>2. nl \in 0 .. now
      BY <1>1, <1>2
    <3> QED BY <3>1, <3>2
  <2>5. now - nl >= Quiet <=> IF fwd THEN now - now >= Quiet ELSE paused
    OBVIOUS
  <2>6. /\ nc \in Int /\ nc <= burst * SECOND /\ nc <= nb * SECOND + m
        /\ nc = burst * SECOND \/ nc >= (now - nl) * rate - np * Unearned
        /\ nc = burst * SECOND \/ (~fwd /\ paused) \/ nc >= nb * SECOND - np * Unearned
    <3> DEFINE g == burst * SECOND
               fs == F * SECOND
               ns == nb * SECOND
               nu == np * Unearned
               ng == (now - nl) * rate
    <3>1. /\ c \in Int /\ X \in Nat /\ Unearned \in Nat /\ zs \in Nat /\ gain \in Int
          /\ g \in Nat /\ fs \in Nat /\ m \in Nat
      BY <1>2, <1>3, <1>8, UnitTypes, ConstantTypes
    <3>2. /\ c <= g /\ c <= fs + m /\ (c = g \/ c >= gain - X) /\ (fwd => zs <= fs)
          /\ (paused => c >= fs - (X + Unearned)) /\ (~paused => c >= fs - X)
      BY <1>3, <1>4, <1>7, <1>8
    <3>3. /\ ns = (IF fwd THEN fs - zs ELSE fs) /\ nc = (IF fwd THEN c - zs ELSE c)
          /\ nu = (IF fwd /\ paused THEN X + Unearned ELSE X)
          /\ ng = (IF fwd THEN 0 ELSE gain)
      BY <2>1, <2>2, <2>3
    <3> HIDE DEF g, fs, ns, nu, ng, fwd, paused, m, gain, nc
    <3>4. /\ nc \in Int /\ nc <= g /\ nc <= ns + m
          /\ nc = g \/ nc >= ng - nu
          /\ nc = g \/ (~fwd /\ paused) \/ nc >= ns - nu
      <4>1. CASE fwd /\ paused
        BY <3>1, <3>2, <3>3, <4>1
      <4>2. CASE fwd /\ ~paused
        BY <3>1, <3>2, <3>3, <4>2
      <4>3. CASE ~fwd
        BY <3>1, <3>2, <3>3, <4>3
      <4> QED BY <4>1, <4>2, <4>3
    <3> QED BY <3>4 DEF g, ns, nu, ng
  <2>7. nc = burst * SECOND \/ now - nl >= Quiet \/ nc >= nb * SECOND - np * Unearned
    BY <2>5, <2>6
  <2>8. table' \in Tables(Destinations, 0 .. now) /\ Coherence(table')
        /\ Rejuvenated(t, index, now, table')
    <3> DEFINE Times == 0 .. now
    <3>1. t \in Tables(Destinations, Times) /\ now \in Times
      BY <1>2
    <3> HIDE DEF Times
    <3>2. table' \in Tables(Destinations, Times) /\ Coherence(table')
          /\ Rejuvenated(t, index, now, table')
      BY <3>1, <1>5, RejuvenateFacts
    <3> QED BY <3>2 DEF Times
  <2>9. /\ table'.fm = t.fm /\ DOMAIN table'.heap = DOMAIN t.heap
        /\ \A i \in DOMAIN t.heap : table'.heap[i] = IF i = index THEN now ELSE t.heap[i]
    BY <2>8 DEF Rejuvenated
  <2>10. \A k \in DOMAIN t.fm : t.fm[k] \in DOMAIN t.heap /\ (k # d => t.fm[k] # index)
    BY DEF Coherence, index, d
  <2>11. /\ DOMAIN table'.fm = DOMAIN t.fm \cup {d}
         /\ table'.fm[d] = index /\ table'.heap[index] = now
         /\ \A k \in DOMAIN t.fm : k # d =>
               /\ table'.fm[k] = t.fm[k] /\ t.fm[k] # index
               /\ table'.heap[t.fm[k]] = t.heap[t.fm[k]]
    BY <2>9, <2>10 DEF index, d
  <2> HIDE DEF nb, nc, nl, np
  <2> QED BY <1>0, <1>1, <1>3, <1>5, <1>6, <2>2, <2>4, <2>6, <2>7, <2>8, <2>11, ChargeKeeps
<1>10. DropsOnlyExcess
  <2> SUFFICES ASSUME NEW q \in [dst : Destinations, size : Sizes],
                      out' = [device |-> wan_device, dst_device |-> wan_device, pkt |-> q]
               PROVE  credit[q.dst] <= q.size * SECOND + rounded'[q.dst] * (SECOND - 1)
    BY DEF DropsOnlyExcess
  <2>1. ~(F > p.size) /\ q = p
    <3>1. CASE F > p.size
      <4>1. out'.dst_device = lan_device
        BY <3>1, <1>5 DEF Admit, Forward
      <4> QED BY <4>1 DEF PolicerAssumption
    <3>2. CASE ~(F > p.size)
      <4>1. out'.pkt = p
        BY <3>2, <1>5 DEF Refuse, Forward
      <4> QED BY <3>2, <4>1
    <3> QED BY <3>1, <3>2
  <2>2. F * SECOND <= zs
    <3>1. F <= p.size /\ F \in Int /\ SECOND \in Nat
      BY <2>1, <1>0, <1>3, ConstantTypes
    <3> QED BY <3>1, <1>0, MulMono DEF zs
  <2>3. rounded'[d] = nr
    <3>1. rounded \in [Destinations -> Nat]
      BY DEF IInv, TypeOK
    <3> QED BY <3>1, <1>0, <1>5
  <2> DEFINE m == nr * (SECOND - 1)
             fs == F * SECOND
  <2>4. c <= zs + m
    <3>1. c <= fs + m /\ fs <= zs /\ fs \in Nat /\ m \in Nat
      BY <2>2, <1>3
    <3> HIDE DEF fs, m
    <3> QED BY <3>1, <1>2, <1>8
  <2> QED BY <2>1, <2>3, <2>4 DEF c, zs, d
<1> QED BY <1>9, <1>10

(* The packet of a destination not in the table: it starts with a full     *)
(* bucket, which it has earned but for what a pause gives.                 *)
LEMMA AbsentKeeps ==
  ASSUME PolicerAssumption, IInv,
         NEW t \in Tables(Destinations, 0 .. now), Coherence(t), Entries(t),
         NEW p \in [dst : Destinations, size : Sizes], p.dst \notin DOMAIN t.fm,
         Absent(t, p), now' = now
  PROVE  IInv' /\ DropsOnlyExcess
<1> DEFINE d == p.dst
           c == credit[d]
           X == Owed(d)
           zs == p.size * SECOND
           g == burst * SECOND
<1>0. d \in Destinations /\ p.size \in Nat
  BY ConstantTypes
<1>1. /\ now \in Nat /\ c \in Int /\ last[d] \in Int /\ X \in Nat /\ last[d] >= -1
      /\ pauses[d] \in Nat /\ rounded[d] * (SECOND - 1) \in Nat
  BY <1>0, Types
<1>2. c <= g /\ g \in Nat /\ zs \in Nat
  <2>1. SECOND \in Nat
    BY ConstantTypes
  <2>2. p.size * SECOND \in Nat
    BY <2>1, <1>0
  <2> QED BY <2>2, <1>0, ConstantTypes DEF IInv, Capped
<1>3. CASE /\ p.size > burst \/ FreeIndexes(t) = {}
           /\ table' = t
           /\ Refuse(p)
           /\ UNCHANGED <<dyn_vals, rounded>>
  <2>1. IInv'
    BY <1>3, ExpiredOnlyKeeps DEF Refuse
  <2>2. ASSUME NEW q \in [dst : Destinations, size : Sizes],
               out' = [device |-> wan_device, dst_device |-> wan_device, pkt |-> q]
        PROVE  \/ credit[q.dst] <= q.size * SECOND + rounded'[q.dst] * (SECOND - 1)
               \/ q.dst \notin DOMAIN table'.fm /\ FreeIndexes(table') = {}
    <3>1. q = p
      <4>1. out'.pkt = p
        BY <1>3 DEF Refuse, Forward
      <4> QED BY <4>1, <2>2
    <3>2. CASE FreeIndexes(t) = {}
      BY <1>3, <3>1, <3>2
    <3>3. CASE p.size > burst
      <4>1. g <= zs
        <5>1. burst \in Int /\ p.size \in Int /\ burst <= p.size /\ SECOND \in Nat
          BY <3>3, <1>0, ConstantTypes
        <5> QED BY <5>1, MulMono
      <4> DEFINE m == rounded[d] * (SECOND - 1)
      <4>2. m \in Nat
        BY <1>1
      <4> HIDE DEF m, g, zs, c
      <4>3. c <= zs + m
        BY <4>1, <4>2, <1>1, <1>2
      <4> QED BY <4>3, <1>3, <3>1 DEF m, zs, c
    <3> QED BY <3>2, <3>3, <1>3
  <2> QED BY <2>1, <2>2 DEF DropsOnlyExcess
<1>4. ASSUME NEW index \in FreeIndexes(t), p.size <= burst, Admit(p),
             table' = AllocateAt(t, d, index, now),
             dyn_vals' = [dyn_vals EXCEPT ![index] =
                            [bucket_size |-> burst - p.size, bucket_time |-> now]],
             rounded' = [rounded EXCEPT ![d] = 0]
      PROVE  IInv'
  <2> DEFINE nb == burst - p.size
             nc == c - zs
             np == IF Paused(d) THEN pauses[d] + 1 ELSE pauses[d]
  <2>1. /\ credit' = [credit EXCEPT ![d] = nc] /\ last' = [last EXCEPT ![d] = now]
        /\ pauses' = [pauses EXCEPT ![d] = np]
    BY <1>4 DEF Admit
  <2>2. nb \in 0 .. burst /\ nb * SECOND = g - zs /\ nb * SECOND \in Nat /\ zs <= g
    <3>1. burst \in Nat /\ SECOND \in Nat
      BY ConstantTypes
    <3>2. (burst - p.size) * SECOND = burst * SECOND - p.size * SECOND
      BY <3>1, <1>0, Taken
    <3>3. nb \in 0 .. burst /\ nb \in Nat
      BY <3>1, <1>0, <1>4
    <3>4. p.size * SECOND <= burst * SECOND
      BY <3>1, <1>0, <1>4, MulMono
    <3>5. nb * SECOND \in Nat
      <4> HIDE DEF nb
      <4> QED BY <3>1, <3>3
    <3> QED BY <3>2, <3>3, <3>4, <3>5
  <2>3. /\ np \in Nat /\ np * Unearned \in Nat
        /\ np * Unearned = IF Paused(d) THEN X + Unearned ELSE X
    <3> DEFINE pp == pauses[d]
    <3>1. pp \in Nat /\ Unearned \in Nat
      BY <1>1, UnitTypes
    <3>2. X = pp * Unearned /\ np = IF Paused(d) THEN pp + 1 ELSE pp
      BY DEF Owed
    <3> HIDE DEF pp, X, np
    <3>3. (pp + 1) * Unearned = pp * Unearned + Unearned /\ pp * Unearned \in Nat /\ pp + 1 \in Nat
      BY <3>1, OneMore
    <3> QED BY <3>1, <3>2, <3>3
  <2>4. c >= g - np * Unearned
    <3>1. CASE Paused(d)
      <4> DEFINE y == now - last[d]
      <4>1. y >= Quiet /\ y \in Int
        BY <3>1, <1>1 DEF Paused
      <4>2. c = g \/ c >= y * rate - X
        BY <1>0 DEF IInv, Gained
      <4> HIDE DEF y, c, X
      <4>3. c >= burst * SECOND - (X + Unearned)
        BY <4>1, <4>2, <1>1, PauseFills
      <4> QED BY <3>1, <4>3, <2>3
    <3>2. CASE ~Paused(d)
      <4>1. last[d] = -1
        BY <3>2, <1>0, <1>1 DEF Entries, Paused
      <4>2. c = g
        BY <4>1, <1>0 DEF IInv, Gained
      <4> HIDE DEF c, g, np
      <4> QED BY <4>2, <2>3, <1>2
    <3> QED BY <3>1, <3>2
  <2>5. nc \in Int /\ nc <= g /\ nc <= nb * SECOND + 0 * (SECOND - 1)
        /\ nc >= (now - now) * rate - np * Unearned /\ nc >= nb * SECOND - np * Unearned
    <3> DEFINE ns == nb * SECOND
               nu == np * Unearned
    <3>1. 0 * (SECOND - 1) = 0 /\ (now - now) * rate = 0
      BY <1>1, UnitTypes
    <3>2. ns = g - zs /\ ns \in Nat /\ nu \in Nat /\ c >= g - nu
      BY <2>2, <2>3, <2>4
    <3>3. nc \in Int /\ nc <= g /\ nc <= ns + 0 /\ nc >= 0 - nu /\ nc >= ns - nu
      <4> HIDE DEF ns, nu, c, g, zs
      <4> QED BY <3>2, <1>1, <1>2
    <3> QED BY <3>1, <3>3
  <2>6. /\ table' \in Tables(Destinations, 0 .. now) /\ Coherence(table')
        /\ Allocated(t, d, index, now, table')
    <3> DEFINE Times == 0 .. now
    <3>1. t \in Tables(Destinations, Times) /\ now \in Times
      BY <1>1
    <3> HIDE DEF Times
    <3>2. table' \in Tables(Destinations, Times) /\ Coherence(table')
          /\ Allocated(t, d, index, now, table')
      BY <3>1, <1>0, <1>4, AllocateFacts
    <3> QED BY <3>2 DEF Times
  <2>7. /\ DOMAIN table'.fm = DOMAIN t.fm \cup {d}
        /\ \A k \in DOMAIN table'.fm : table'.fm[k] = IF k = d THEN index ELSE t.fm[k]
        /\ DOMAIN table'.heap = DOMAIN t.heap \cup {index}
        /\ \A i \in DOMAIN table'.heap : table'.heap[i] = IF i = index THEN now ELSE t.heap[i]
        /\ index \in Indexes /\ index \notin DOMAIN t.heap
    BY <2>6 DEF Allocated
  <2>8. \A k \in DOMAIN t.fm : t.fm[k] \in DOMAIN t.heap
    BY DEF Coherence
  <2>9. /\ table'.fm[d] = index /\ table'.heap[index] = now
        /\ \A k \in DOMAIN t.fm : k # d =>
              /\ table'.fm[k] = t.fm[k] /\ t.fm[k] # index
              /\ table'.heap[t.fm[k]] = t.heap[t.fm[k]]
    BY <2>7, <2>8
  <2>10. now \in 0 .. now /\ 0 \in Nat
    BY <1>1
  <2> HIDE DEF nb, nc, np, d
  <2> QED BY <1>0, <1>4, <2>1, <2>2, <2>3, <2>5, <2>6, <2>7, <2>9, <2>10, ChargeKeeps DEF nb
<1>5. ASSUME Admit(p) PROVE DropsOnlyExcess
  <2>1. out'.dst_device = lan_device /\ lan_device # wan_device
    BY <1>5 DEF Admit, Forward, PolicerAssumption
  <2> QED BY <2>1 DEF DropsOnlyExcess
<1> QED BY <1>3, <1>4, <1>5 DEF Absent

(* The policer starts with no entries and full buckets.                    *)
LEMMA InitIInv ==
  ASSUME PolicerAssumption, Init
  PROVE  IInv
<1>0. /\ now = 0 /\ \A d \in Destinations : credit[d] = burst * SECOND /\ last[d] = -1
  BY DEF Init
<1>1. table \in Tables(Destinations, 0 .. now) /\ Coherence(table) /\ DOMAIN table.fm = {}
  BY NewTableFacts DEF Init
<1>2. TypeOK
  <2>1. dyn_vals \in [Indexes -> [bucket_size : 0 .. burst, bucket_time : 0 .. now]]
    BY ConstantTypes DEF Init
  <2>2. /\ credit \in [Destinations -> Int] /\ last \in [Destinations -> -1 .. now]
        /\ pauses \in [Destinations -> Nat] /\ rounded \in [Destinations -> Nat]
        /\ now \in 0 .. MaxTime
    BY ConstantTypes DEF Init
  <2> QED BY <1>1, <2>1, <2>2 DEF TypeOK
<1>3. Capped /\ Gained
  BY <1>0, ConstantTypes DEF Capped, Gained
<1>4. Entries(table)
  BY <1>0, <1>1 DEF Entries
<1> QED BY <1>1, <1>2, <1>3, <1>4 DEF IInv

(* A packet that is not policed is none of those that are refused.         *)
LEMMA OtherPacket ==
  ASSUME PolicerAssumption, NEW device, NEW dst_device, Forward(device, dst_device, NoPacket)
  PROVE  DropsOnlyExcess
<1>1. out'.pkt.dst = "none"
  BY DEF Forward, NoPacket
<1> QED BY <1>1 DEF DropsOnlyExcess, PolicerAssumption

(* Every step keeps the invariant and drops only the excess.               *)
LEMMA NextIInv ==
  ASSUME PolicerAssumption, IInv, Next
  PROVE  IInv' /\ DropsOnlyExcess
<1> PICK t : t = policer_expire_entries(table)
  OBVIOUS
<1>0. t \in Tables(Destinations, 0 .. now) /\ Coherence(t) /\ Entries(t)
  BY ExpireKeeps
<1>1. CASE Tick
  <2>1. now' # now
    <3>1. now' = now + 1 /\ now \in Nat
      BY <1>1, ConstantTypes DEF Tick, IInv, TypeOK
    <3> QED BY <3>1
  <2> QED BY <1>1, <2>1, TickKeeps DEF DropsOnlyExcess
<1>2. ASSUME NEW device \in Others \cup {lan_device, wan_device}, ProcessOther(device)
      PROVE  IInv' /\ DropsOnlyExcess
  <2>1. IInv'
    BY <1>2 DEF ProcessOther, IInv, TypeOK, Coherence, Capped, Gained, Entries, Entry, Owed
  <2> QED BY <1>2, <2>1, OtherPacket DEF ProcessOther
<1>3. ASSUME NEW p \in [dst : Destinations, size : Sizes], ProcessWan(p)
      PROVE  IInv' /\ DropsOnlyExcess
  <2>1. policer_check_tb(t, p) /\ now' = now
    BY <1>3 DEF ProcessWan
  <2>2. CASE p.dst \in DOMAIN t.fm
    BY <1>0, <2>1, <2>2, PresentKeeps DEF policer_check_tb
  <2>3. CASE p.dst \notin DOMAIN t.fm
    BY <1>0, <2>1, <2>3, AbsentKeeps DEF policer_check_tb
  <2> QED BY <2>2, <2>3
<1>4. ASSUME NEW device \in Others \cup {lan_device}, ProcessRest(device)
      PROVE  IInv' /\ DropsOnlyExcess
  <2>1. IInv'
    BY <1>0, <1>4, ExpiredOnlyKeeps DEF ProcessRest
  <2> QED BY <1>4, <2>1, OtherPacket DEF ProcessRest
<1> QED BY <1>1, <1>2, <1>3, <1>4 DEF Next

(* And so does a step in which nothing happens.                            *)
LEMMA StutterIInv ==
  ASSUME IInv, UNCHANGED vars
  PROVE  IInv'
BY DEF vars, IInv, TypeOK, Coherence, Capped, Gained, Entries, Entry, Owed

(* For every table capacity, rate and burst, in any run of the policer:    *)
(* the assertions of policer_check_tb hold, and what has been let through  *)
(* to a destination never exceeds the rate and the burst by more than      *)
(* Unearned for every pause, nothing when the burst is of whole seconds.   *)
THEOREM SpecConforms ==
  ASSUME PolicerAssumption
  PROVE  Spec => [](TypeOK /\ Conforms)
<1>1. Init => IInv
  BY InitIInv
<1>2. IInv /\ [Next]_vars => IInv'
  BY NextIInv, StutterIInv
<1>3. IInv => TypeOK /\ Conforms
  BY IInvConforms DEF IInv
<1> QED BY <1>1, <1>2, <1>3, PTL DEF Spec

(* And for all of them, a packet is refused only when the table is full or *)
(* when the exact bucket does not hold more than the packet and what the   *)
(* refills since it was full were cut down by.                             *)
THEOREM SpecOnlyExcessDropped ==
  ASSUME PolicerAssumption
  PROVE  Spec => OnlyExcessDropped
<1>1. Init => IInv
  BY InitIInv
<1>2. IInv /\ [Next]_vars => IInv'
  BY NextIInv, StutterIInv
<1>3. IInv /\ [Next]_vars => [DropsOnlyExcess]_vars
  BY NextIInv
<1> QED BY <1>1, <1>2, <1>3, PTL DEF Spec, OnlyExcessDropped
=============================================================================
