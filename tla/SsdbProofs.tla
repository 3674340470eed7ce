----------------------------- MODULE SsdbProofs -----------------------------
(***************************************************************************)
(* Proofs about Ssdb: the counters of hashes, sorted sets and queues, the  *)
(* index of the scores and the ends of the queues agree with the entries,  *)
(* for any names, keys, values and scores, any number of failing reads and *)
(* writes, any interleaving with hclear, kills and the cleaning thread.    *)
(* Then the binlog: every change of the data has a record of its own       *)
(* number, and only records beyond the capacity are ever deleted.  Last,   *)
(* the keys: however it was asked, the store holds none but legal ones.    *)
(***************************************************************************)
EXTENDS Ssdb, FiniteSetTheorems, SequenceTheorems, NaturalsInduction, TLAPS

-----------------------------------------------------------------------------
(* What a batch leaves under a key: what its last entry with this key      *)
(* says, and what was there if it has none.                                *)

Untouched(B, x) == \A i \in DOMAIN B : B[i].key # x

Writes(B, x, e) ==
    \E i \in DOMAIN B : /\ B[i] = e /\ e.key = x
                        /\ \A j \in DOMAIN B : B[j].key = x => j <= i

LEMMA AppliedUntouched ==
    ASSUME NEW B, NEW x, Untouched(B, x)
    PROVE  /\ x \in DOMAIN Applied(B) <=> x \in DOMAIN db
           /\ x \in DOMAIN db => Applied(B)[x] = db[x]
  <1> DEFINE written == {B[i].key : i \in DOMAIN B}
             final(y) == B[Max({i \in DOMAIN B : B[i].key = y})]
             held == {y \in DOMAIN db \cup written : y \in written => final(y).keep}
  <1>1. Applied(B) = [y \in held |-> IF y \in written THEN final(y).value ELSE db[y]]
    BY DEF Applied
  <1>2. x \notin written
    BY DEF Untouched
  <1> HIDE DEF written, final
  <1>3. x \in held <=> x \in DOMAIN db
    BY <1>2
  <1> HIDE DEF held
  <1>4. QED
    BY <1>1, <1>2, <1>3

LEMMA AppliedWrites ==
    ASSUME NEW B, DOMAIN B \subseteq Nat, NEW x, NEW e, Writes(B, x, e)
    PROVE  /\ x \in DOMAIN Applied(B) <=> e.keep
           /\ e.keep => Applied(B)[x] = e.value
  <1> DEFINE written == {B[i].key : i \in DOMAIN B}
             places(y) == {i \in DOMAIN B : B[i].key = y}
             final(y) == B[Max(places(y))]
             held == {y \in DOMAIN db \cup written : y \in written => final(y).keep}
  <1>1. Applied(B) = [y \in held |-> IF y \in written THEN final(y).value ELSE db[y]]
    BY DEF Applied
  <1>2. PICK i \in DOMAIN B : /\ B[i] = e /\ e.key = x
                              /\ \A j \in DOMAIN B : B[j].key = x => j <= i
    BY DEF Writes
  <1>3. i \in places(x) /\ \A j \in places(x) : j <= i /\ j \in Nat
    BY <1>2
  <1>4. x \in written
    BY <1>2
  <1> HIDE DEF written, places
  <1>5. Max(places(x)) = i
    <2>1. \A m \in places(x) : (\A j \in places(x) : m >= j) <=> m = i
      BY <1>3
    <2>2. QED
      BY <1>3, <2>1 DEF Max
  <1>6. final(x) = e
    BY <1>2, <1>5
  <1> HIDE DEF final
  <1>7. x \in held <=> e.keep
    BY <1>4, <1>6
  <1> HIDE DEF held
  <1>8. QED
    BY <1>1, <1>4, <1>6, <1>7

\* A batch adds no keys but its own.
LEMMA AppliedDomain ==
    ASSUME NEW B, NEW x \in DOMAIN Applied(B)
    PROVE  x \in DOMAIN db \/ ~Untouched(B, x)
  BY DEF Applied, Untouched

\* Batches one after the other.
LEMMA ConcatBatches ==
    ASSUME NEW S, NEW T, NEW A \in Seq(S), NEW B \in Seq(T)
    PROVE  /\ A \o B \in Seq(S \cup T) /\ DOMAIN (A \o B) \subseteq Nat
           /\ \A x : Untouched(A, x) /\ Untouched(B, x) => Untouched(A \o B, x)
           /\ \A x, e : Writes(A, x, e) /\ Untouched(B, x) => Writes(A \o B, x, e)
           /\ \A x, e : Writes(B, x, e) => Writes(A \o B, x, e)
  <1> DEFINE C == A \o B  m == Len(A)  n == Len(B)
  <1>1. A \in Seq(S \cup T) /\ B \in Seq(S \cup T)
    OBVIOUS
  <1>2. /\ C \in Seq(S \cup T) /\ Len(C) = m + n
        /\ \A i \in 1 .. m : C[i] = A[i]
        /\ \A i \in 1 .. n : C[m + i] = B[i]
    <2>1. /\ C \in Seq(S \cup T) /\ Len(C) = m + n
          /\ \A i \in 1 .. m + n : C[i] = IF i <= m THEN A[i] ELSE B[i - m]
      BY <1>1, ConcatProperties
    <2>2. m \in Nat /\ n \in Nat
      BY LenProperties
    <2>3. \A i \in 1 .. m : i \in 1 .. m + n /\ i <= m
      BY <2>2
    <2>4. \A i \in 1 .. n : m + i \in 1 .. m + n /\ ~(m + i <= m) /\ (m + i) - m = i
      BY <2>2
    <2> HIDE DEF C, m, n
    <2>5. QED
      BY <2>1, <2>3, <2>4
  <1>3. /\ m \in Nat /\ n \in Nat /\ DOMAIN A = 1 .. m /\ DOMAIN B = 1 .. n
        /\ DOMAIN C = 1 .. m + n
    BY <1>2, LenProperties
  <1> HIDE DEF C, m, n
  <1>4. \A i \in 1 .. m + n : i \in 1 .. m \/ (i - m \in 1 .. n /\ m + (i - m) = i)
    BY <1>3
  <1>5. \A i \in 1 .. m : i \in 1 .. m + n
    BY <1>3
  <1>6. \A i \in 1 .. n : m + i \in 1 .. m + n /\ m + i \notin 1 .. m
    BY <1>3
  <1>7. \A i \in DOMAIN C : (\E j \in DOMAIN A : C[i] = A[j]) \/ \E j \in DOMAIN B : C[i] = B[j]
    BY <1>2, <1>3, <1>4
  <1>8. ASSUME NEW x, Untouched(A, x), Untouched(B, x) PROVE Untouched(C, x)
    BY <1>7, <1>8 DEF Untouched
  <1>9. ASSUME NEW x, NEW e, Writes(A, x, e), Untouched(B, x) PROVE Writes(C, x, e)
    <2>1. PICK i \in 1 .. m : /\ A[i] = e /\ e.key = x
                              /\ \A j \in 1 .. m : A[j].key = x => j <= i
      BY <1>3, <1>9 DEF Writes
    <2>2. \A j \in 1 .. n : C[m + j].key # x
      BY <1>2, <1>3, <1>9 DEF Untouched
    <2>3. \A j \in 1 .. m + n : C[j].key = x => j <= i
      <3>1. SUFFICES ASSUME NEW j \in 1 .. m + n, C[j].key = x PROVE j <= i
        OBVIOUS
      <3>2. j \in 1 .. m
        BY <1>4, <2>2, <3>1
      <3>3. QED
        BY <1>2, <2>1, <3>1, <3>2
    <2>4. i \in 1 .. m + n /\ C[i] = e
      BY <1>2, <1>5, <2>1
    <2>5. QED
      BY <1>3, <2>1, <2>3, <2>4 DEF Writes
  <1>10. ASSUME NEW x, NEW e, Writes(B, x, e) PROVE Writes(C, x, e)
    <2>1. PICK i \in 1 .. n : /\ B[i] = e /\ e.key = x
                              /\ \A j \in 1 .. n : B[j].key = x => j <= i
      BY <1>3, <1>10 DEF Writes
    <2>2. \A j \in 1 .. m + n : C[j].key = x => j <= m + i
      <3>1. SUFFICES ASSUME NEW j \in 1 .. m + n, C[j].key = x PROVE j <= m + i
        OBVIOUS
      <3>2. CASE j \in 1 .. m
        BY <1>3, <3>2
      <3>3. CASE j - m \in 1 .. n /\ m + (j - m) = j
        <4>1. B[j - m].key = x
          BY <1>2, <3>1, <3>3
        <4>2. j - m <= i
          BY <2>1, <3>3, <4>1
        <4>3. QED
          BY <1>3, <4>2
      <3>4. QED
        BY <1>4, <3>2, <3>3
    <2>3. m + i \in 1 .. m + n /\ C[m + i] = e
      BY <1>2, <1>6, <2>1
    <2>4. QED
      BY <1>3, <2>1, <2>2, <2>3 DEF Writes
  <1>11. DOMAIN C \subseteq Nat
    BY <1>3
  <1>12. QED
    BY <1>2, <1>8, <1>9, <1>10, <1>11 DEF C

\* Batches of none, one, two and three.
LEMMA NoBatch ==
    ASSUME NEW S
    PROVE  <<>> \in Seq(S) /\ \A x : Untouched(<<>>, x)
  BY DEF Untouched

LEMMA OneBatch ==
    ASSUME NEW a
    PROVE  /\ <<a>> \in Seq({a})
           /\ \A x : a.key # x => Untouched(<<a>>, x)
           /\ Writes(<<a>>, a.key, a)
  <1>1. DOMAIN <<a>> = {1} /\ <<a>>[1] = a
    OBVIOUS
  <1>2. QED
    BY <1>1 DEF Untouched, Writes

LEMMA TwoBatch ==
    ASSUME NEW a, NEW b
    PROVE  /\ <<a, b>> \in Seq({a, b})
           /\ \A x : a.key # x /\ b.key # x => Untouched(<<a, b>>, x)
           /\ Writes(<<a, b>>, b.key, b)
           /\ a.key # b.key => Writes(<<a, b>>, a.key, a)
  <1>1. DOMAIN <<a, b>> = {1, 2} /\ <<a, b>>[1] = a /\ <<a, b>>[2] = b
    OBVIOUS
  <1> DEFINE t == <<a, b>>
  <1>2. t \in Seq({a, b})
    OBVIOUS
  <1> HIDE DEF t
  <1>3. Writes(t, b.key, b)
    BY <1>1 DEF Writes, t
  <1>4. a.key # b.key => Writes(t, a.key, a)
    BY <1>1 DEF Writes, t
  <1>5. QED
    BY <1>1, <1>2, <1>3, <1>4 DEF Untouched, t

LEMMA ThreeBatch ==
    ASSUME NEW a, NEW b, NEW c, a.key # b.key, a.key # c.key, b.key # c.key
    PROVE  /\ <<a, b, c>> \in Seq({a, b, c})
           /\ \A x : a.key # x /\ b.key # x /\ c.key # x => Untouched(<<a, b, c>>, x)
           /\ Writes(<<a, b, c>>, a.key, a)
           /\ Writes(<<a, b, c>>, b.key, b)
           /\ Writes(<<a, b, c>>, c.key, c)
  <1> DEFINE t == <<a, b, c>>
  <1>1. DOMAIN t = {1, 2, 3} /\ t[1] = a /\ t[2] = b /\ t[3] = c
    OBVIOUS
  <1>2. t \in Seq({a, b, c})
    OBVIOUS
  <1> HIDE DEF t
  <1>3. Writes(t, a.key, a) /\ Writes(t, b.key, b) /\ Writes(t, c.key, c)
    BY <1>1 DEF Writes
  <1>4. QED
    BY <1>1, <1>2, <1>3 DEF Untouched, t

-----------------------------------------------------------------------------
(* What a transaction does to the store but for the binlog.                *)

Stays(x) ==
    /\ x \in DOMAIN db' <=> x \in DOMAIN db
    /\ x \in DOMAIN db => db'[x] = db[x]

\* The store changes by the batch B.
ChangesBy(B) ==
    /\ \A x : x[1] # SYNCLOG /\ Untouched(B, x) => Stays(x)
    /\ \A x, e : x[1] # SYNCLOG /\ Writes(B, x, e) =>
                    /\ x \in DOMAIN db' <=> e.keep
                    /\ e.keep => db'[x] = e.value
    /\ \A x \in DOMAIN db' : x \in DOMAIN db \/ ~Untouched(B, x) \/ \E s : x = SeqKey(s)

LEMMA LogBatch ==
    ASSUME NEW T, NEW logs \in Seq(T)
    PROVE  /\ AddLogs(logs) \in Seq({Put(SeqKey(last + i), logs[i]) : i \in DOMAIN logs})
           /\ \A x : Untouched(AddLogs(logs), x) \/ \E s : x = SeqKey(s)
           /\ \A x : x[1] # SYNCLOG => Untouched(AddLogs(logs), x)
  <1> DEFINE L == [i \in DOMAIN logs |-> Put(SeqKey(last + i), logs[i])]
             P == {Put(SeqKey(last + i), logs[i]) : i \in DOMAIN logs}
  <1>1. DOMAIN logs = 1 .. Len(logs) /\ Len(logs) \in Nat
    BY LenProperties
  <1>2. L \in Seq(P)
    BY <1>1
  <1>3. \A i \in DOMAIN L : L[i].key = SeqKey(last + i)
    BY DEF Put
  <1>4. \A s, x : x[1] # SYNCLOG => SeqKey(s) # x
    BY DEF SeqKey
  <1>5. CASE enabled
    BY <1>2, <1>3, <1>4, <1>5 DEF AddLogs, Untouched
  <1>6. CASE ~enabled
    BY <1>6 DEF AddLogs, Untouched
  <1>7. QED
    BY <1>5, <1>6

\* A transaction that commits changes the store by its batch.
LEMMA TransactWrites ==
    ASSUME NEW call, NEW o, NEW f, Transact(call, o, f), o.commits, f # "write",
           NEW S, NEW T, o.batch \in Seq(S), o.logs \in Seq(T)
    PROVE  ChangesBy(o.batch) /\ misread' = misread \cup o.misread
  <1> DEFINE B == o.batch  L == AddLogs(o.logs)
             P == {Put(SeqKey(last + i), o.logs[i]) : i \in DOMAIN o.logs}
  <1>1. db' = Applied(B \o L) /\ misread' = misread \cup o.misread
    BY DEF Transact
  <1>2. B \in Seq(S) /\ L \in Seq(P)
    BY LogBatch
  <1>3. \A x : Untouched(L, x) \/ \E s : x = SeqKey(s)
    BY LogBatch
  <1>4. \A x : x[1] # SYNCLOG => Untouched(L, x)
    BY LogBatch
  <1> HIDE DEF B, L, P
  <1>5. DOMAIN (B \o L) \subseteq Nat
    BY ONLY <1>2, ConcatBatches, Zenon
  <1>6. \A x : Untouched(B, x) /\ Untouched(L, x) => Untouched(B \o L, x)
    BY ONLY <1>2, ConcatBatches, Zenon
  <1>7. \A x, e : Writes(B, x, e) /\ Untouched(L, x) => Writes(B \o L, x, e)
    BY ONLY <1>2, ConcatBatches, Zenon
  <1> DEFINE C == B \o L
  <1> HIDE DEF C
  <1>8. ASSUME NEW x, x[1] # SYNCLOG, Untouched(B, x) PROVE Stays(x)
    <2>1. Untouched(C, x)
      BY <1>4, <1>6, <1>8 DEF C
    <2>2. QED
      BY <1>1, <2>1, AppliedUntouched DEF C, Stays
  <1>9. ASSUME NEW x, NEW e, x[1] # SYNCLOG, Writes(B, x, e)
        PROVE  (x \in DOMAIN db' <=> e.keep) /\ (e.keep => db'[x] = e.value)
    <2>1. Writes(C, x, e) /\ DOMAIN C \subseteq Nat
      BY <1>4, <1>5, <1>7, <1>9 DEF C
    <2>2. QED
      BY <1>1, <2>1, AppliedWrites DEF C
  <1>10. ASSUME NEW x \in DOMAIN db'
        PROVE  x \in DOMAIN db \/ ~Untouched(B, x) \/ \E s : x = SeqKey(s)
    <2>1. x \in DOMAIN db \/ ~Untouched(C, x)
      BY <1>1, <1>10, AppliedDomain DEF C
    <2>2. Untouched(B, x) /\ Untouched(L, x) => Untouched(C, x)
      BY <1>6 DEF C
    <2>3. QED
      BY <1>3, <2>1, <2>2
  <1>11. ChangesBy(B)
    BY <1>8, <1>9, <1>10 DEF ChangesBy
  <1>12. QED
    BY <1>1, <1>11 DEF B

LEMMA TransactChanges ==
    ASSUME NEW call, NEW o, NEW f, Transact(call, o, f),
           NEW S, NEW T, o.commits => o.batch \in Seq(S) /\ o.logs \in Seq(T)
    PROVE  \/ db' = db /\ misread' = misread
           \/ o.commits /\ f # "write" /\ ChangesBy(o.batch) /\ misread' = misread \cup o.misread
  <1>1. CASE ~(o.commits /\ f # "write")
    BY <1>1 DEF Transact
  <1>2. CASE o.commits /\ f # "write"
    BY <1>2, TransactWrites
  <1>3. QED
    BY <1>1, <1>2

-----------------------------------------------------------------------------
(* The invariant.                                                          *)

\* The keys of the store.
Places == Ends \cup {0} \cup QMin + 1 .. QMax

Shaped(x) ==
    \/ x[1] \in {SYNCLOG, KV, HSIZE, ZSIZE, QSIZE} /\ x = <<x[1], x[2]>>
    \/ x[1] \in {HASH, ZSET} /\ x = <<x[1], x[2], x[3]>>
    \/ x[1] = QUEUE /\ x = <<x[1], x[2], x[3]>> /\ x[3] \in Places
    \/ x[1] = ZSCORE /\ x = <<x[1], x[2], x[3], x[4]>>

WellFormed(d) == \A x \in DOMAIN d : Shaped(x)

Counts(d, x, number) ==
    IF number = 0 THEN x \notin DOMAIN d ELSE x \in DOMAIN d /\ d[x] = number

\* A hash has so many entries, and its counter says how many.
HashRight(n) ==
    /\ IsFiniteSet(DOMAIN Hash(db, n))
    /\ <<HASH, n>> \notin misread => Counts(db, HSizeKey(n), Cardinality(DOMAIN Hash(db, n)))

\* So has a sorted set, and its index has them under their scores.
ZsetRight(n) ==
    /\ IsFiniteSet(DOMAIN Zset(db, n))
    /\ <<ZSET, n>> \notin misread =>
         /\ Counts(db, ZSizeKey(n), Cardinality(DOMAIN Zset(db, n)))
         /\ {x \in Of(db, ZSCORE) : x[2] = n}
              = {ZscoreKey(n, k, Zset(db, n)[k]) : k \in DOMAIN Zset(db, n)}

\* The ends of a queue and its size are there together, and the size is no
\* more than what fits between the ends.
QueueEnds(n) ==
    LET front == Sequence(n, QFRONT)
        back  == Sequence(n, QBACK)
    IN /\ QItemKey(n, QFRONT) \in DOMAIN db <=> QSizeKey(n) \in DOMAIN db
       /\ QItemKey(n, QBACK) \in DOMAIN db <=> QSizeKey(n) \in DOMAIN db
       /\ QSizeKey(n) \in DOMAIN db =>
            /\ front \in QMin + 1 .. QMax /\ back \in QMin + 1 .. QMax
            /\ QSize(n) \in 1 .. back - front + 1

\* Unless qset_by_seq wrote behind its end, its entries are those between.
QueueRight(n) ==
    LET front == Sequence(n, QFRONT)
        back  == Sequence(n, QBACK)
    IN IF QSizeKey(n) \in DOMAIN db
       THEN /\ QSize(n) = back - front + 1
            /\ \A s \in Places \ Ends : QItemKey(n, s) \in DOMAIN db <=> s \in front .. back
       ELSE \A s \in Places \ Ends : QItemKey(n, s) \notin DOMAIN db

IInv ==
    /\ WellFormed(db)
    /\ \A n \in HNames : HashRight(n)
    /\ \A n \in ZNames : ZsetRight(n)
    /\ \A n \in QNames : QueueEnds(n) /\ (n \notin orphaned => QueueRight(n))

-----------------------------------------------------------------------------
(* Keys.                                                                   *)

LEMMA KeysShaped ==
    /\ \A s : Shaped(SeqKey(s)) /\ Shaped(KvKey(s))
    /\ \A n : Shaped(HSizeKey(n)) /\ Shaped(ZSizeKey(n)) /\ Shaped(QSizeKey(n))
    /\ \A n, k : Shaped(HashKey(n, k)) /\ Shaped(ZsetKey(n, k))
    /\ \A n, k, score : Shaped(ZscoreKey(n, k, score))
    /\ \A n, s : s \in Places => Shaped(QItemKey(n, s))
  <1>1. ASSUME NEW s PROVE Shaped(SeqKey(s)) /\ Shaped(KvKey(s))
    BY DEF Shaped, SeqKey, KvKey, SYNCLOG, KV
  <1>2. ASSUME NEW n PROVE Shaped(HSizeKey(n)) /\ Shaped(ZSizeKey(n)) /\ Shaped(QSizeKey(n))
    BY DEF Shaped, HSizeKey, ZSizeKey, QSizeKey, HSIZE, ZSIZE, QSIZE
  <1>3. ASSUME NEW n, NEW k PROVE Shaped(HashKey(n, k)) /\ Shaped(ZsetKey(n, k))
    BY DEF Shaped, HashKey, ZsetKey, HASH, ZSET
  <1>4. ASSUME NEW n, NEW k, NEW score PROVE Shaped(ZscoreKey(n, k, score))
    BY DEF Shaped, ZscoreKey, ZSCORE
  <1>5. ASSUME NEW n, NEW s, s \in Places PROVE Shaped(QItemKey(n, s))
    BY <1>5 DEF Shaped, QItemKey, QUEUE
  <1>6. QED
    BY <1>1, <1>2, <1>3, <1>4, <1>5

LEMMA HashMember ==
    ASSUME NEW d, WellFormed(d), NEW n, NEW k
    PROVE  /\ k \in DOMAIN Hash(d, n) <=> HashKey(n, k) \in DOMAIN d
           /\ k \in DOMAIN Hash(d, n) => Hash(d, n)[k] = d[HashKey(n, k)]
  <1>1. DOMAIN Hash(d, n) = {x[3] : x \in {y \in Of(d, HASH) : y[2] = n}}
    BY DEF Hash
  <1>2. \A y \in Of(d, HASH) : y[2] = n => y = HashKey(n, y[3]) /\ y \in DOMAIN d
    BY DEF WellFormed, Shaped, Of, HashKey, HASH, ZSET, QUEUE, ZSCORE, SYNCLOG, KV, HSIZE, ZSIZE, QSIZE
  <1>3. HashKey(n, k)[1] = HASH /\ HashKey(n, k)[2] = n /\ HashKey(n, k)[3] = k
    BY DEF HashKey
  <1>4. k \in DOMAIN Hash(d, n) => HashKey(n, k) \in DOMAIN d
    BY <1>1, <1>2
  <1>5. HashKey(n, k) \in DOMAIN d => k \in DOMAIN Hash(d, n)
    BY <1>1, <1>3 DEF Of
  <1>6. QED
    BY <1>4, <1>5 DEF Hash

LEMMA ZsetMember ==
    ASSUME NEW d, WellFormed(d), NEW n, NEW k
    PROVE  /\ k \in DOMAIN Zset(d, n) <=> ZsetKey(n, k) \in DOMAIN d
           /\ k \in DOMAIN Zset(d, n) => Zset(d, n)[k] = d[ZsetKey(n, k)]
  <1>1. DOMAIN Zset(d, n) = {x[3] : x \in {y \in Of(d, ZSET) : y[2] = n}}
    BY DEF Zset
  <1>2. \A y \in Of(d, ZSET) : y[2] = n => y = ZsetKey(n, y[3]) /\ y \in DOMAIN d
    BY DEF WellFormed, Shaped, Of, ZsetKey, HASH, ZSET, QUEUE, ZSCORE, SYNCLOG, KV, HSIZE, ZSIZE, QSIZE
  <1>3. ZsetKey(n, k)[1] = ZSET /\ ZsetKey(n, k)[2] = n /\ ZsetKey(n, k)[3] = k
    BY DEF ZsetKey
  <1>4. k \in DOMAIN Zset(d, n) => ZsetKey(n, k) \in DOMAIN d
    BY <1>1, <1>2
  <1>5. ZsetKey(n, k) \in DOMAIN d => k \in DOMAIN Zset(d, n)
    BY <1>1, <1>3 DEF Of
  <1>6. QED
    BY <1>4, <1>5 DEF Zset

-----------------------------------------------------------------------------
(* What an operation on one object leaves of the others.                   *)

SameStore(types, n) == \A x : x[1] \in types /\ x[2] = n => Stays(x)

HashKeys  == {HASH, HSIZE}
ZsetKeys  == {ZSET, ZSCORE, ZSIZE}
QueueKeys == {QUEUE, QSIZE}

LEMMA HashSame ==
    ASSUME NEW n, HashRight(n), misread \subseteq misread', SameStore(HashKeys, n)
    PROVE  HashRight(n)'
  <1>1. {y \in Of(db', HASH) : y[2] = n} = {y \in Of(db, HASH) : y[2] = n}
    BY DEF Of, SameStore, HashKeys, Stays
  <1>2. DOMAIN Hash(db', n) = DOMAIN Hash(db, n)
    BY <1>1 DEF Hash
  <1>3. Stays(HSizeKey(n))
    BY DEF SameStore, HashKeys, HSizeKey
  <1>4. QED
    BY <1>2, <1>3 DEF HashRight, Counts, Stays

LEMMA ZsetSame ==
    ASSUME NEW n, WellFormed(db), WellFormed(db'),
           ZsetRight(n), misread \subseteq misread', SameStore(ZsetKeys, n)
    PROVE  ZsetRight(n)'
  <1>1. {y \in Of(db', ZSET) : y[2] = n} = {y \in Of(db, ZSET) : y[2] = n}
    BY DEF Of, SameStore, ZsetKeys, Stays
  <1>2. {y \in Of(db', ZSCORE) : y[2] = n} = {y \in Of(db, ZSCORE) : y[2] = n}
    BY DEF Of, SameStore, ZsetKeys, Stays
  <1>3. DOMAIN Zset(db', n) = DOMAIN Zset(db, n)
    BY <1>1 DEF Zset
  <1>4. \A k \in DOMAIN Zset(db, n) : Zset(db', n)[k] = Zset(db, n)[k]
    <2>1. SUFFICES ASSUME NEW k \in DOMAIN Zset(db, n) PROVE Zset(db', n)[k] = Zset(db, n)[k]
      OBVIOUS
    <2>2. ZsetKey(n, k) \in DOMAIN db /\ Zset(db, n)[k] = db[ZsetKey(n, k)]
      BY <2>1, ZsetMember
    <2>3. Zset(db', n)[k] = db'[ZsetKey(n, k)]
      BY <1>3, <2>1, ZsetMember
    <2>4. Stays(ZsetKey(n, k))
      BY DEF SameStore, ZsetKeys, ZsetKey
    <2>5. QED
      BY <2>2, <2>3, <2>4 DEF Stays
  <1>5. Stays(ZSizeKey(n))
    BY DEF SameStore, ZsetKeys, ZSizeKey
  <1>6. {ZscoreKey(n, k, Zset(db', n)[k]) : k \in DOMAIN Zset(db', n)}
          = {ZscoreKey(n, k, Zset(db, n)[k]) : k \in DOMAIN Zset(db, n)}
    BY <1>3, <1>4
  <1>7. QED
    BY <1>2, <1>3, <1>5, <1>6 DEF ZsetRight, Counts, Stays

LEMMA QueueSame ==
    ASSUME NEW n, SameStore(QueueKeys, n)
    PROVE  /\ QueueEnds(n) => QueueEnds(n)'
           /\ QueueRight(n) => QueueRight(n)'
  <1>1. \A s : Stays(QItemKey(n, s))
    BY DEF SameStore, QueueKeys, QItemKey
  <1>2. Stays(QSizeKey(n))
    BY DEF SameStore, QueueKeys, QSizeKey
  <1>3. \A s : Sequence(n, s)' = Sequence(n, s)
    BY <1>1 DEF Sequence, Stays
  <1>4. QSize(n)' = QSize(n)
    BY <1>2 DEF QSize, Stays
  <1>5. /\ \A s : QItemKey(n, s) \in DOMAIN db' <=> QItemKey(n, s) \in DOMAIN db
        /\ QSizeKey(n) \in DOMAIN db' <=> QSizeKey(n) \in DOMAIN db
    BY <1>1, <1>2 DEF Stays
  <1>6. QED
    BY <1>3, <1>4, <1>5 DEF QueueEnds, QueueRight

-----------------------------------------------------------------------------
(* A batch that touches one object.                                        *)

ObjectKeys == HashKeys \cup ZsetKeys \cup QueueKeys

\* The keys of B are plain values, or of these types and this name.
OnlyAt(B, types, n) ==
    \A x : Untouched(B, x) \/ (Shaped(x) /\ (x[1] = KV \/ (x[1] \in types /\ x[2] = n)))

Frame(types, n) ==
    /\ WellFormed(db')
    /\ \A x : x[1] \in ObjectKeys /\ ~(x[1] \in types /\ x[2] = n) => Stays(x)

LEMMA TypesDiffer ==
    /\ SYNCLOG \notin ObjectKeys /\ KV \notin ObjectKeys
    /\ HashKeys \cap ZsetKeys = {} /\ HashKeys \cap QueueKeys = {}
    /\ ZsetKeys \cap QueueKeys = {}
  BY DEF ObjectKeys, HashKeys, ZsetKeys, QueueKeys, SYNCLOG, KV, HASH, HSIZE, ZSET, ZSCORE,
         ZSIZE, QUEUE, QSIZE

LEMMA BatchFrame ==
    ASSUME NEW B, NEW types, NEW n, WellFormed(db), ChangesBy(B), OnlyAt(B, types, n)
    PROVE  Frame(types, n)
  <1>1. ASSUME NEW x \in DOMAIN db' PROVE Shaped(x)
    BY <1>1, KeysShaped DEF ChangesBy, OnlyAt, WellFormed
  <1>2. ASSUME NEW x, x[1] \in ObjectKeys, ~(x[1] \in types /\ x[2] = n) PROVE Stays(x)
    <2>1. x[1] # SYNCLOG /\ x[1] # KV
      BY <1>2, TypesDiffer
    <2>2. Untouched(B, x)
      BY <1>2, <2>1 DEF OnlyAt
    <2>3. QED
      BY <2>1, <2>2 DEF ChangesBy
  <1>3. QED
    BY <1>1, <1>2 DEF Frame, WellFormed

\* What is not of that object goes on as it was.
LEMMA Elsewhere ==
    ASSUME IInv, NEW types, NEW n, Frame(types, n), misread \subseteq misread'
    PROVE  /\ \A m \in HNames : m # n \/ types \cap HashKeys = {} => HashRight(m)'
           /\ \A m \in ZNames : m # n \/ types \cap ZsetKeys = {} => ZsetRight(m)'
           /\ \A m \in QNames : m # n \/ types \cap QueueKeys = {} =>
                                   QueueEnds(m)' /\ (QueueRight(m) => QueueRight(m)')
  <1>1. ASSUME NEW m \in HNames, m # n \/ types \cap HashKeys = {} PROVE HashRight(m)'
    <2>1. SameStore(HashKeys, m)
      BY <1>1 DEF SameStore, Frame, ObjectKeys
    <2>2. QED
      BY <2>1, HashSame DEF IInv
  <1>2. ASSUME NEW m \in ZNames, m # n \/ types \cap ZsetKeys = {} PROVE ZsetRight(m)'
    <2>1. SameStore(ZsetKeys, m)
      BY <1>2 DEF SameStore, Frame, ObjectKeys
    <2>2. QED
      BY <2>1, ZsetSame DEF IInv, Frame
  <1>3. ASSUME NEW m \in QNames, m # n \/ types \cap QueueKeys = {}
        PROVE  QueueEnds(m)' /\ (QueueRight(m) => QueueRight(m)')
    <2>1. SameStore(QueueKeys, m)
      BY <1>3 DEF SameStore, Frame, ObjectKeys
    <2>2. QED
      BY <2>1, QueueSame DEF IInv
  <1>4. QED
    BY <1>1, <1>2, <1>3

-----------------------------------------------------------------------------
(* Counters.                                                               *)

LEMMA Counted ==
    ASSUME NEW x, NEW c \in Nat, Counts(db, x, c), x[1] # SYNCLOG,
           NEW by \in Int, c + by \in Nat, NEW f, f # "size",
           NEW B, ChangesBy(B), Writes(B, x, IncrSize(x, by, f)[1])
    PROVE  Counts(db', x, c + by)
  <1>1. Size(x, f = "size") = c
    <2>1. Max({0, c}) = c
      <3>1. \A m \in {0, c} : (\A j \in {0, c} : m >= j) <=> m = c
        OBVIOUS
      <3>2. QED
        BY <3>1 DEF Max
    <2>2. QED
      BY <2>1 DEF Size, Counts
  <1> DEFINE size == c + by
             e == IF size = 0 THEN Delete(x) ELSE Put(x, size)
  <1>2. IncrSize(x, by, f)[1] = e
    BY <1>1 DEF IncrSize
  <1>3. (x \in DOMAIN db' <=> e.keep) /\ (e.keep => db'[x] = e.value)
    BY <1>2 DEF ChangesBy
  <1>4. CASE size = 0
    BY <1>3, <1>4 DEF Counts, Delete
  <1>5. CASE size # 0
    BY <1>3, <1>5 DEF Counts, Put
  <1>6. QED
    BY <1>4, <1>5

LEMMA SizeBatch ==
    ASSUME NEW x, NEW by, NEW f
    PROVE  /\ IncrSize(x, by, f) = <<IncrSize(x, by, f)[1]>>
           /\ IncrSize(x, by, f)[1].key = x
  BY DEF IncrSize, Put, Delete

-----------------------------------------------------------------------------
(* What transactions write.                                                *)

IsSeq(s) == s \in Seq({s[i] : i \in DOMAIN s})

Batch(B, types, n) == IsSeq(B) /\ OnlyAt(B, types, n)

Works(o, types, n) == o.commits => Batch(o.batch, types, n) /\ IsSeq(o.logs)

LEMMA SeqIsSeq ==
    ASSUME NEW S, NEW s \in Seq(S)
    PROVE  IsSeq(s)
  <1>1. DOMAIN s = 1 .. Len(s) /\ Len(s) \in Nat
    BY LenProperties
  <1>2. QED
    BY <1>1 DEF IsSeq

LEMMA NoneIsBatch ==
    ASSUME NEW types, NEW n
    PROVE  IsSeq(<<>>) /\ Batch(<<>>, types, n)
  <1>1. <<>> \in Seq({})
    OBVIOUS
  <1>2. IsSeq(<<>>)
    BY <1>1, SeqIsSeq
  <1>3. QED
    BY <1>2, NoBatch DEF Batch, OnlyAt

LEMMA OneIsBatch ==
    ASSUME NEW a, NEW types, NEW n,
           Shaped(a.key), a.key[1] = KV \/ (a.key[1] \in types /\ a.key[2] = n)
    PROVE  Batch(<<a>>, types, n)
  <1>1. IsSeq(<<a>>)
    BY OneBatch, SeqIsSeq
  <1>2. QED
    BY <1>1, OneBatch DEF Batch, OnlyAt

LEMMA OneIsSeq ==
    ASSUME NEW a
    PROVE  IsSeq(<<a>>)
  BY OneBatch, SeqIsSeq

LEMMA ConcatIsBatch ==
    ASSUME NEW A, NEW B, NEW types, NEW n, Batch(A, types, n), Batch(B, types, n)
    PROVE  /\ Batch(A \o B, types, n) /\ DOMAIN (A \o B) \subseteq Nat
           /\ \A x : Untouched(A, x) /\ Untouched(B, x) => Untouched(A \o B, x)
           /\ \A x, e : Writes(A, x, e) /\ Untouched(B, x) => Writes(A \o B, x, e)
           /\ \A x, e : Writes(B, x, e) => Writes(A \o B, x, e)
  <1> DEFINE S == {A[i] : i \in DOMAIN A}  T == {B[i] : i \in DOMAIN B}
  <1>1. A \in Seq(S) /\ B \in Seq(T)
    BY DEF Batch, IsSeq
  <1> HIDE DEF S, T
  <1>2. A \o B \in Seq(S \cup T)
    BY ONLY <1>1, ConcatBatches, Zenon
  <1>3. DOMAIN (A \o B) \subseteq Nat
    BY ONLY <1>1, ConcatBatches, Zenon
  <1>4. \A x : Untouched(A, x) /\ Untouched(B, x) => Untouched(A \o B, x)
    BY ONLY <1>1, ConcatBatches, Zenon
  <1>5. \A x, e : Writes(A, x, e) /\ Untouched(B, x) => Writes(A \o B, x, e)
    BY ONLY <1>1, ConcatBatches, Zenon
  <1>6. \A x, e : Writes(B, x, e) => Writes(A \o B, x, e)
    BY ONLY <1>1, ConcatBatches, Zenon
  <1> DEFINE C == A \o B
  <1>7. IsSeq(C)
    <2> HIDE DEF C
    <2>1. C \in Seq(S \cup T)
      BY <1>2 DEF C
    <2>2. QED
      BY <2>1, SeqIsSeq
  <1>8. OnlyAt(C, types, n)
    <2> HIDE DEF C
    <2>1. \A x : Untouched(A, x) /\ Untouched(B, x) => Untouched(C, x)
      BY <1>4 DEF C
    <2>2. QED
      BY <2>1 DEF Batch, OnlyAt
  <1>9. QED
    BY <1>3, <1>4, <1>5, <1>6, <1>7, <1>8 DEF Batch

LEMMA TransactFrame ==
    ASSUME WellFormed(db), NEW call, NEW o, NEW f, Transact(call, o, f),
           NEW types, NEW n, Works(o, types, n)
    PROVE  \/ db' = db /\ misread' = misread
           \/ /\ o.commits /\ f # "write" /\ ChangesBy(o.batch)
              /\ misread' = misread \cup o.misread /\ Frame(types, n)
  <1> DEFINE S == {o.batch[i] : i \in DOMAIN o.batch}
             T == {o.logs[i] : i \in DOMAIN o.logs}
  <1>1. o.commits => o.batch \in Seq(S) /\ o.logs \in Seq(T)
    BY DEF Works, Batch, IsSeq
  <1> HIDE DEF S, T
  <1>2. \/ db' = db /\ misread' = misread
        \/ /\ o.commits /\ f # "write" /\ ChangesBy(o.batch)
           /\ misread' = misread \cup o.misread
    BY <1>1, TransactChanges
  <1>3. o.commits => OnlyAt(o.batch, types, n)
    BY DEF Works, Batch
  <1>4. QED
    BY <1>2, <1>3, BatchFrame

-----------------------------------------------------------------------------
(* Hashes.                                                                 *)

LEMMA HashEntries ==
    ASSUME WellFormed(db), WellFormed(db'), NEW n, NEW k,
           \A j : j # k => Stays(HashKey(n, j))
    PROVE  IF HashKey(n, k) \in DOMAIN db'
           THEN DOMAIN Hash(db', n) = DOMAIN Hash(db, n) \cup {k}
           ELSE DOMAIN Hash(db', n) = DOMAIN Hash(db, n) \ {k}
  <1>1. \A j : j \in DOMAIN Hash(db', n) <=> HashKey(n, j) \in DOMAIN db'
    BY HashMember
  <1>2. \A j : j \in DOMAIN Hash(db, n) <=> HashKey(n, j) \in DOMAIN db
    BY HashMember
  <1>3. \A j : j # k => (HashKey(n, j) \in DOMAIN db' <=> HashKey(n, j) \in DOMAIN db)
    BY DEF Stays
  <1>4. QED
    BY <1>1, <1>2, <1>3

LEMMA HashKeysAt ==
    ASSUME NEW n
    PROVE  /\ \A k : Shaped(HashKey(n, k)) /\ HashKey(n, k)[1] \in HashKeys
                     /\ HashKey(n, k)[2] = n /\ HashKey(n, k) # HSizeKey(n)
                     /\ HashKey(n, k)[1] # SYNCLOG
           /\ Shaped(HSizeKey(n)) /\ HSizeKey(n)[1] \in HashKeys /\ HSizeKey(n)[2] = n
           /\ HSizeKey(n)[1] # SYNCLOG
           /\ \A j, k : j # k => HashKey(n, j) # HashKey(n, k)
  BY KeysShaped DEF HashKey, HSizeKey, HashKeys, HASH, HSIZE, SYNCLOG

LEMMA HashStoredWorks ==
    ASSUME NEW n, NEW k, NEW v, NEW failed, NEW ret, NEW f
    PROVE  Works(HashStored(n, k, v, failed, ret, f), HashKeys, n)
  <1> DEFINE o == HashStored(n, k, v, failed, ret, f)
             one == HsetOne(n, k, v, failed)
             size == IF one.new > 0 THEN IncrSize(HSizeKey(n), 1, f) ELSE <<>>
             p == Put(HashKey(n, k), v)
  <1>1. o.batch = one.batch \o size /\ o.logs = one.logs
    BY DEF HashStored, Commit
  <1>2. one.batch \in {<<>>, <<p>>} /\ one.logs \in {<<>>, <<Log("HSET", HashKey(n, k))>>}
    BY DEF HsetOne
  <1>3. Batch(<<p>>, HashKeys, n)
    <2>1. p.key = HashKey(n, k)
      BY DEF Put
    <2> HIDE DEF p
    <2>2. QED
      BY <2>1, HashKeysAt, OneIsBatch
  <1>4. Batch(size, HashKeys, n)
    <2> DEFINE e == IncrSize(HSizeKey(n), 1, f)[1]
    <2>1. e.key = HSizeKey(n) /\ IncrSize(HSizeKey(n), 1, f) = <<e>>
      BY SizeBatch
    <2> HIDE DEF e
    <2>2. Batch(<<e>>, HashKeys, n)
      BY <2>1, HashKeysAt, OneIsBatch
    <2>3. QED
      BY <2>1, <2>2, NoneIsBatch
  <1> HIDE DEF o, one, size, p
  <1>5. Batch(one.batch, HashKeys, n)
    BY <1>2, <1>3, NoneIsBatch
  <1>6. Batch(o.batch, HashKeys, n)
    BY <1>1, <1>4, <1>5, ConcatIsBatch
  <1>7. IsSeq(o.logs)
    BY <1>1, <1>2, OneIsSeq, NoneIsBatch
  <1>8. QED
    BY <1>6, <1>7 DEF Works, o

\* A batch with the entry k, followed by nothing or by the counter.
LEMMA EntryBatch ==
    ASSUME NEW a, NEW n, NEW types, Batch(<<a>>, types, n)
    PROVE  /\ <<a>> \o <<>> = <<a>>
           /\ \A e : Batch(<<e>>, types, n) =>
                /\ Writes(<<a>> \o <<e>>, e.key, e)
                /\ a.key # e.key => Writes(<<a>> \o <<e>>, a.key, a)
                /\ \A x : a.key # x /\ e.key # x => Untouched(<<a>> \o <<e>>, x)
  <1>1. <<a>> \o <<>> = <<a>>
    OBVIOUS
  <1>2. ASSUME NEW e, Batch(<<e>>, types, n)
        PROVE  /\ Writes(<<a>> \o <<e>>, e.key, e)
               /\ a.key # e.key => Writes(<<a>> \o <<e>>, a.key, a)
               /\ \A x : a.key # x /\ e.key # x => Untouched(<<a>> \o <<e>>, x)
    <2>1. \A x : Untouched(<<a>>, x) /\ Untouched(<<e>>, x) => Untouched(<<a>> \o <<e>>, x)
      BY <1>2, ConcatIsBatch, Zenon
    <2>2. \A x, y : Writes(<<a>>, x, y) /\ Untouched(<<e>>, x) => Writes(<<a>> \o <<e>>, x, y)
      BY <1>2, ConcatIsBatch, Zenon
    <2>3. \A x, y : Writes(<<e>>, x, y) => Writes(<<a>> \o <<e>>, x, y)
      BY <1>2, ConcatIsBatch, Zenon
    <2>4. QED
      BY ONLY <2>1, <2>2, <2>3, OneBatch, Zenon
  <1>3. QED
    BY <1>1, <1>2

LEMMA HashStoredRight ==
    ASSUME WellFormed(db), NEW n, HashRight(n), Frame(HashKeys, n),
           NEW k, NEW v, NEW failed, NEW ret, NEW f,
           ChangesBy(HashStored(n, k, v, failed, ret, f).batch),
           misread' = misread \cup HashStored(n, k, v, failed, ret, f).misread
    PROVE  HashRight(n)'
  <1> DEFINE o == HashStored(n, k, v, failed, ret, f)
             x == HashKey(n, k)
             c == HSizeKey(n)
             found == Found(x, failed)
             p == Put(x, v)
             e == IncrSize(c, 1, f)[1]
             old == DOMAIN Hash(db, n)
  <1>1. WellFormed(db') /\ IsFiniteSet(old) /\ Cardinality(old) \in Nat
    BY FS_CardinalityType DEF Frame, HashRight
  <1>2. /\ p.key = x /\ p.keep = TRUE /\ p.value = v
        /\ e.key = c /\ IncrSize(c, 1, f) = <<e>>
    BY SizeBatch DEF Put
  <1>3. Batch(<<p>>, HashKeys, n) /\ Batch(<<e>>, HashKeys, n)
    <2> HIDE DEF p, e
    <2>1. QED
      BY <1>2, HashKeysAt, OneIsBatch
  <1>4. /\ x # c /\ x[1] # SYNCLOG /\ c[1] # SYNCLOG
        /\ \A j : HashKey(n, j)[1] # SYNCLOG /\ HashKey(n, j) # c
        /\ \A j : j # k => HashKey(n, j) # x
    BY HashKeysAt
  <1>5. found = 1 => x \in DOMAIN db /\ ~failed
    BY DEF Found
  <1>6. found = 0 => x \notin DOMAIN db /\ ~failed
    BY DEF Found
  <1>7. k \in old <=> x \in DOMAIN db
    BY HashMember
  <1>8. misread \subseteq misread'
    OBVIOUS
  <1>9. CASE found = 1 /\ db[x] = v
    <2>1. o.batch = <<>>
      BY <1>9 DEF HashStored, HsetOne, Commit
    <2>2. \A y : y[1] # SYNCLOG => Stays(y)
      BY <2>1, NoBatch DEF ChangesBy
    <2>3. SameStore(HashKeys, n)
      BY <2>2, TypesDiffer DEF SameStore, ObjectKeys
    <2>4. QED
      BY <1>8, <2>3, HashSame
  <1>10. CASE found # 0 /\ ~(found = 1 /\ db[x] = v)
    <2>1. o.batch = <<p>> /\ (failed => <<HASH, n>> \in misread')
      <3>1. HsetOne(n, k, v, failed).new = 0 /\ HsetOne(n, k, v, failed).batch = <<p>>
        BY <1>10 DEF HsetOne
      <3>2. o.batch = <<p>> \o <<>>
        BY <3>1 DEF HashStored, Commit
      <3>3. failed => <<HASH, n>> \in o.misread
        BY DEF HashStored, Commit, Suspect
      <3>4. <<p>> \o <<>> = <<p>>
        OBVIOUS
      <3> HIDE DEF o, p
      <3>5. QED
        BY <3>2, <3>3, <3>4 DEF o
    <2> HIDE DEF p, e, o
    <2>2. Writes(<<p>>, x, p) /\ \A y : y # x => Untouched(<<p>>, y)
      BY <1>2, OneBatch
    <2>3. x \in DOMAIN db' /\ (\A j : j # k => Stays(HashKey(n, j))) /\ Stays(c)
      BY <1>2, <1>4, <2>1, <2>2 DEF ChangesBy, o
    <2>4. DOMAIN Hash(db', n) = old \cup {k}
      BY <1>1, <2>3, HashEntries
    <2>5. IsFiniteSet(old \cup {k})
      BY <1>1, FS_AddElement
    <2>6. ~failed => old \cup {k} = old
      BY <1>5, <1>7, <1>10 DEF Found
    <2> HIDE DEF x, c, found, old
    <2>7. <<HASH, n>> \notin misread' => Counts(db', c, Cardinality(DOMAIN Hash(db', n)))
      BY <1>8, <2>1, <2>3, <2>4, <2>6 DEF HashRight, Counts, Stays, old, c
    <2>8. QED
      BY <2>4, <2>5, <2>7 DEF HashRight, c
  <1>11. CASE found = 0
    <2>1. o.batch = <<p>> \o <<e>> /\ (f = "size" => <<HASH, n>> \in misread')
      <3>1. HsetOne(n, k, v, failed).new = 1 /\ HsetOne(n, k, v, failed).batch = <<p>>
        BY <1>11 DEF HsetOne
      <3>2. o.batch = <<p>> \o <<e>>
        <4> DEFINE one == HsetOne(n, k, v, failed)
        <4>1. o.batch = one.batch \o (IF one.new > 0 THEN IncrSize(c, 1, f) ELSE <<>>)
          BY DEF HashStored, Commit
        <4> HIDE DEF o, one, p, e
        <4>2. QED
          BY <1>2, <3>1, <4>1 DEF one
      <3>3. f = "size" => <<HASH, n>> \in o.misread
        BY <3>1 DEF HashStored, Commit, Suspect
      <3> HIDE DEF p, e, o
      <3>5. QED
        BY <3>2, <3>3 DEF o
    <2> HIDE DEF p, e, o
    <2>2. /\ Writes(<<p>> \o <<e>>, c, e) /\ Writes(<<p>> \o <<e>>, x, p)
          /\ \A y : y # x /\ y # c => Untouched(<<p>> \o <<e>>, y)
      BY <1>2, <1>3, <1>4, EntryBatch
    <2>3. x \in DOMAIN db' /\ (\A j : j # k => Stays(HashKey(n, j)))
      BY <1>2, <1>4, <2>1, <2>2 DEF ChangesBy, o
    <2>4. DOMAIN Hash(db', n) = old \cup {k} /\ k \notin old
      BY <1>1, <1>6, <1>7, <1>11, <2>3, HashEntries
    <2>5. IsFiniteSet(old \cup {k}) /\ Cardinality(old \cup {k}) = Cardinality(old) + 1
      BY <1>1, <2>4, FS_AddElement
    <2>6. f # "size" /\ Counts(db, c, Cardinality(old)) => Counts(db', c, Cardinality(old) + 1)
      <3> DEFINE N == Cardinality(old)  B == <<p>> \o <<e>>
      <3>1. N \in Nat /\ ChangesBy(B) /\ Writes(B, c, e) /\ c[1] # SYNCLOG
        BY <1>1, <1>4, <2>1, <2>2 DEF o
      <3> HIDE DEF N, B, c
      <3>2. SUFFICES ASSUME f # "size", Counts(db, c, N) PROVE Counts(db', c, N + 1)
        BY DEF N
      <3>3. Writes(B, c, IncrSize(c, 1, f)[1]) /\ 1 \in Int /\ N + 1 \in Nat
        BY <3>1 DEF e
      <3>4. QED
        BY ONLY <3>1, <3>2, <3>3, Counted
    <2>7. <<HASH, n>> \notin misread' => Counts(db', c, Cardinality(DOMAIN Hash(db', n)))
      <3> HIDE DEF x, found
      <3>1. SUFFICES ASSUME <<HASH, n>> \notin misread'
                     PROVE  Counts(db', c, Cardinality(DOMAIN Hash(db', n)))
        OBVIOUS
      <3>2. Counts(db, c, Cardinality(old)) /\ f # "size"
        BY <1>8, <2>1, <3>1 DEF HashRight
      <3>3. QED
        BY <2>4, <2>5, <2>6, <3>2
    <2>8. QED
      BY <2>4, <2>5, <2>7 DEF HashRight
  <1>12. QED
    BY <1>9, <1>10, <1>11

LEMMA HdelWorks ==
    ASSUME NEW n, NEW k, NEW f
    PROVE  Works(Hdel(n, k, f), HashKeys, n)
  <1> DEFINE o == Hdel(n, k, f)
             p == Delete(HashKey(n, k))
             e == IncrSize(HSizeKey(n), -1, f)[1]
  <1>1. /\ p.key = HashKey(n, k)
        /\ e.key = HSizeKey(n) /\ IncrSize(HSizeKey(n), -1, f) = <<e>>
    BY SizeBatch DEF Delete
  <1>2. o.commits => \/ o.batch = <<>> /\ o.logs = <<>>
                     \/ /\ o.batch = <<p>> \o IncrSize(HSizeKey(n), -1, f)
                        /\ o.logs = <<Log("HDEL", HashKey(n, k))>>
    BY DEF Hdel, Commit, Return
  <1> HIDE DEF o, p, e
  <1>3. Batch(<<p>>, HashKeys, n) /\ Batch(<<e>>, HashKeys, n)
    BY <1>1, HashKeysAt, OneIsBatch
  <1>4. Batch(<<p>> \o <<e>>, HashKeys, n)
    BY <1>3, ConcatIsBatch
  <1>5. o.commits => Batch(o.batch, HashKeys, n) /\ IsSeq(o.logs)
    BY <1>1, <1>2, <1>4, NoneIsBatch, OneIsSeq
  <1>6. QED
    BY <1>5 DEF Works, o

LEMMA HdelRight ==
    ASSUME WellFormed(db), NEW n, HashRight(n), Frame(HashKeys, n),
           NEW k, NEW f, Hdel(n, k, f).commits,
           ChangesBy(Hdel(n, k, f).batch),
           misread' = misread \cup Hdel(n, k, f).misread
    PROVE  HashRight(n)'
  <1> DEFINE o == Hdel(n, k, f)
             x == HashKey(n, k)
             c == HSizeKey(n)
             found == Found(x, f = "entry")
             p == Delete(x)
             e == IncrSize(c, -1, f)[1]
             old == DOMAIN Hash(db, n)
             new == DOMAIN Hash(db', n)
  <1>1. WellFormed(db') /\ IsFiniteSet(old) /\ Cardinality(old) \in Nat
    BY FS_CardinalityType DEF Frame, HashRight
  <1>2. /\ p.key = x /\ p.keep = FALSE
        /\ e.key = c /\ IncrSize(c, -1, f) = <<e>>
    BY SizeBatch DEF Delete
  <1>3. Batch(<<p>>, HashKeys, n) /\ Batch(<<e>>, HashKeys, n)
    <2> HIDE DEF p, e
    <2>1. QED
      BY <1>2, HashKeysAt, OneIsBatch
  <1>4. /\ x # c /\ x[1] # SYNCLOG /\ c[1] # SYNCLOG
        /\ \A j : HashKey(n, j)[1] # SYNCLOG /\ HashKey(n, j) # c
        /\ \A j : j # k => HashKey(n, j) # x
    BY HashKeysAt
  <1>5. misread \subseteq misread'
    OBVIOUS
  <1>6. CASE found = 0
    <2>1. o.batch = <<>>
      BY <1>6 DEF Hdel, Commit, Return
    <2>2. \A y : y[1] # SYNCLOG => Stays(y)
      BY <2>1, NoBatch DEF ChangesBy
    <2>3. SameStore(HashKeys, n)
      BY <2>2, TypesDiffer DEF SameStore, ObjectKeys
    <2>4. QED
      BY <1>5, <2>3, HashSame
  <1>7. CASE found # 0
    <2>1. /\ o.batch = <<p>> \o <<e>>
          /\ o.misread = Suspect(HASH, n, f \in {"entry", "size"})
      <3>1. /\ o.batch = <<p>> \o IncrSize(c, -1, f)
            /\ o.misread = Suspect(HASH, n, f \in {"entry", "size"})
        BY <1>7 DEF Hdel, Commit, Return
      <3> HIDE DEF o, p, e
      <3>2. QED
        BY <1>2, <3>1
    <2>2. f \in {"entry", "size"} => <<HASH, n>> \in misread'
      BY <2>1 DEF Suspect
    <2>3. f # "entry" => k \in old
      BY <1>7, HashMember DEF Found
    <2> HIDE DEF p, e, o
    <2>4. /\ Writes(<<p>> \o <<e>>, c, e) /\ Writes(<<p>> \o <<e>>, x, p)
          /\ \A y : y # x /\ y # c => Untouched(<<p>> \o <<e>>, y)
      BY <1>2, <1>3, <1>4, EntryBatch
    <2>5. x \notin DOMAIN db' /\ (\A j : j # k => Stays(HashKey(n, j)))
      <3> DEFINE B == <<p>> \o <<e>>
      <3>1. ChangesBy(B)
        BY <2>1 DEF o
      <3>2. Writes(B, x, p) /\ \A y : y # x /\ y # c => Untouched(B, y)
        BY <2>4
      <3> HIDE DEF B, x, c
      <3>3. x \notin DOMAIN db'
        BY <1>2, <1>4, <3>1, <3>2 DEF ChangesBy
      <3>4. \A j : j # k => Stays(HashKey(n, j))
        BY <1>4, <3>1, <3>2 DEF ChangesBy
      <3>5. QED
        BY <3>3, <3>4
    <2>6. new = old \ {k}
      BY <1>1, <2>5, HashEntries
    <2>7. /\ IsFiniteSet(old \ {k})
          /\ Cardinality(old \ {k}) \in Nat
          /\ k \in old => Cardinality(old \ {k}) = Cardinality(old) - 1
      BY <1>1, FS_RemoveElement, FS_CardinalityType
    <2>8. ASSUME <<HASH, n>> \notin misread' PROVE Counts(db', c, Cardinality(new))
      <3> DEFINE N == Cardinality(old)  B == <<p>> \o <<e>>
      <3>1. N \in Nat /\ ChangesBy(B) /\ Writes(B, c, e) /\ c[1] # SYNCLOG
        BY <1>1, <1>4, <2>1, <2>4 DEF o
      <3>2. f # "size" /\ k \in old /\ Counts(db, c, N)
        BY <1>5, <2>2, <2>3, <2>8 DEF HashRight
      <3>3. Cardinality(new) = N + (-1) /\ N + (-1) \in Nat
        BY <1>1, <2>6, <2>7, <3>2
      <3> HIDE DEF N, B, c, new, old
      <3>4. Writes(B, c, IncrSize(c, -1, f)[1])
        BY <3>1 DEF e
      <3>5. Counts(db', c, N + (-1))
        BY ONLY <3>1, <3>2, <3>3, <3>4, Counted
      <3>6. QED
        BY <3>3, <3>5
    <2>9. QED
      BY <2>6, <2>7, <2>8 DEF HashRight
  <1>8. QED
    BY <1>6, <1>7

-----------------------------------------------------------------------------
(* Sorted sets.                                                            *)

LEMMA ZsetEntries ==
    ASSUME WellFormed(db), WellFormed(db'), NEW n, NEW k,
           \A j : j # k => Stays(ZsetKey(n, j))
    PROVE  /\ IF ZsetKey(n, k) \in DOMAIN db'
              THEN DOMAIN Zset(db', n) = DOMAIN Zset(db, n) \cup {k}
              ELSE DOMAIN Zset(db', n) = DOMAIN Zset(db, n) \ {k}
           /\ \A j \in DOMAIN Zset(db, n) : j # k => Zset(db', n)[j] = Zset(db, n)[j]
  <1>1. \A j : j \in DOMAIN Zset(db', n) <=> ZsetKey(n, j) \in DOMAIN db'
    BY ZsetMember
  <1>2. \A j : j \in DOMAIN Zset(db, n) <=> ZsetKey(n, j) \in DOMAIN db
    BY ZsetMember
  <1>3. \A j : j # k => (ZsetKey(n, j) \in DOMAIN db' <=> ZsetKey(n, j) \in DOMAIN db)
    BY DEF Stays
  <1>4. ASSUME NEW j \in DOMAIN Zset(db, n), j # k
        PROVE  Zset(db', n)[j] = Zset(db, n)[j]
    <2>1. Zset(db, n)[j] = db[ZsetKey(n, j)] /\ ZsetKey(n, j) \in DOMAIN db
      BY <1>4, ZsetMember
    <2>2. j \in DOMAIN Zset(db', n)
      BY <1>1, <1>3, <1>4, <2>1
    <2>3. Zset(db', n)[j] = db'[ZsetKey(n, j)]
      BY <2>2, ZsetMember
    <2>4. QED
      BY <1>4, <2>1, <2>3 DEF Stays
  <1>5. QED
    BY <1>1, <1>2, <1>3, <1>4

LEMMA ZsetKeysAt ==
    ASSUME NEW n
    PROVE  /\ \A k : Shaped(ZsetKey(n, k)) /\ ZsetKey(n, k)[1] \in ZsetKeys
                     /\ ZsetKey(n, k)[2] = n /\ ZsetKey(n, k) # ZSizeKey(n)
                     /\ ZsetKey(n, k)[1] # SYNCLOG /\ ZsetKey(n, k)[1] # ZSCORE
           /\ \A k, s : /\ Shaped(ZscoreKey(n, k, s)) /\ ZscoreKey(n, k, s)[1] = ZSCORE
                        /\ ZscoreKey(n, k, s)[2] = n /\ ZscoreKey(n, k, s) # ZSizeKey(n)
           /\ ZSCORE \in ZsetKeys /\ ZSCORE # SYNCLOG
           /\ Shaped(ZSizeKey(n)) /\ ZSizeKey(n)[1] \in ZsetKeys /\ ZSizeKey(n)[2] = n
           /\ ZSizeKey(n)[1] # SYNCLOG /\ ZSizeKey(n)[1] # ZSCORE
           /\ \A j, k : j # k => ZsetKey(n, j) # ZsetKey(n, k)
           /\ \A j, k, s, t : ZscoreKey(n, j, s) = ZscoreKey(n, k, t) => j = k /\ s = t
  BY KeysShaped DEF ZsetKey, ZscoreKey, ZSizeKey, ZsetKeys, ZSET, ZSCORE, ZSIZE, SYNCLOG

\* The index of a sorted set, and what it should be.
Index(d, n) == {x \in Of(d, ZSCORE) : x[2] = n}

Scored(d, n) == {ZscoreKey(n, k, Zset(d, n)[k]) : k \in DOMAIN Zset(d, n)}

\* An entry is stored with its place, and its old place goes.
LEMMA ScoreIndexed ==
    ASSUME WellFormed(db), WellFormed(db'), NEW n, Index(db, n) = Scored(db, n),
           NEW k, NEW score, \A j : j # k => Stays(ZsetKey(n, j)),
           ZsetKey(n, k) \in DOMAIN db', db'[ZsetKey(n, k)] = score,
           ZscoreKey(n, k, score) \in DOMAIN db',
           k \in DOMAIN Zset(db, n) => ZscoreKey(n, k, Zset(db, n)[k]) \notin DOMAIN db',
           \A x : /\ x[1] = ZSCORE /\ x # ZscoreKey(n, k, score)
                  /\ ~(k \in DOMAIN Zset(db, n) /\ x = ZscoreKey(n, k, Zset(db, n)[k]))
                  => Stays(x)
    PROVE  Index(db', n) = Scored(db', n)
  <1> DEFINE old == Zset(db, n)  new == Zset(db', n)
  <1>1. DOMAIN new = DOMAIN old \cup {k} /\ \A j \in DOMAIN old : j # k => new[j] = old[j]
    BY ZsetEntries
  <1>2. new[k] = score
    BY <1>1, ZsetMember
  <1>3. /\ Index(db, n) = {x \in Of(db, ZSCORE) : x[2] = n}
        /\ Index(db', n) = {x \in Of(db', ZSCORE) : x[2] = n}
        /\ Scored(db, n) = {ZscoreKey(n, j, old[j]) : j \in DOMAIN old}
        /\ Scored(db', n) = {ZscoreKey(n, j, new[j]) : j \in DOMAIN new}
    BY DEF Index, Scored
  <1> HIDE DEF old, new
  <1>4. ASSUME NEW x \in Index(db', n) PROVE x \in Scored(db', n)
    <2>1. x \in DOMAIN db' /\ x[1] = ZSCORE /\ x[2] = n
      BY <1>3, <1>4 DEF Of
    <2>2. CASE x = ZscoreKey(n, k, score)
      BY <1>1, <1>2, <1>3, <2>2
    <2>3. CASE x # ZscoreKey(n, k, score)
      <3>1. Stays(x) /\ ~(k \in DOMAIN old /\ x = ZscoreKey(n, k, old[k]))
        BY <2>1, <2>3 DEF old
      <3>2. x \in Index(db, n)
        BY <1>3, <2>1, <3>1 DEF Of, Stays
      <3>3. PICK j \in DOMAIN old : x = ZscoreKey(n, j, old[j])
        BY <1>3, <3>2
      <3>4. j # k
        BY <3>1, <3>3
      <3>5. j \in DOMAIN new /\ new[j] = old[j]
        BY <1>1, <3>4
      <3>6. QED
        BY <1>3, <3>3, <3>5
    <2>4. QED
      BY <2>2, <2>3
  <1>5. ASSUME NEW x \in Scored(db', n) PROVE x \in Index(db', n)
    <2>1. PICK j \in DOMAIN new : x = ZscoreKey(n, j, new[j])
      BY <1>3, <1>5
    <2>2. x[1] = ZSCORE /\ x[2] = n
      BY <2>1 DEF ZscoreKey
    <2>3. x \in DOMAIN db'
      <3>1. CASE j = k
        BY <1>2, <2>1, <3>1
      <3>2. CASE j # k
        <4>1. j \in DOMAIN old /\ new[j] = old[j]
          BY <1>1, <3>2
        <4>2. x \in Index(db, n)
          BY <1>3, <2>1, <4>1
        <4>3. x # ZscoreKey(n, k, score) /\ \A s : x # ZscoreKey(n, k, s)
          BY <2>1, <3>2 DEF ZscoreKey
        <4>4. Stays(x)
          BY <2>2, <4>3
        <4>5. QED
          BY <1>3, <4>2, <4>4 DEF Of, Stays
      <3>3. QED
        BY <3>1, <3>2
    <2>4. QED
      BY <1>3, <2>2, <2>3 DEF Of
  <1>6. QED
    BY <1>4, <1>5

\* An entry goes with its place.
LEMMA ScoreUnindexed ==
    ASSUME WellFormed(db), WellFormed(db'), NEW n, Index(db, n) = Scored(db, n),
           NEW k \in DOMAIN Zset(db, n), \A j : j # k => Stays(ZsetKey(n, j)),
           ZsetKey(n, k) \notin DOMAIN db',
           ZscoreKey(n, k, Zset(db, n)[k]) \notin DOMAIN db',
           \A x : x[1] = ZSCORE /\ x # ZscoreKey(n, k, Zset(db, n)[k]) => Stays(x)
    PROVE  Index(db', n) = Scored(db', n)
  <1> DEFINE old == Zset(db, n)  new == Zset(db', n)
  <1>1. DOMAIN new = DOMAIN old \ {k} /\ \A j \in DOMAIN old : j # k => new[j] = old[j]
    BY ZsetEntries
  <1>3. /\ Index(db, n) = {x \in Of(db, ZSCORE) : x[2] = n}
        /\ Index(db', n) = {x \in Of(db', ZSCORE) : x[2] = n}
        /\ Scored(db, n) = {ZscoreKey(n, j, old[j]) : j \in DOMAIN old}
        /\ Scored(db', n) = {ZscoreKey(n, j, new[j]) : j \in DOMAIN new}
    BY DEF Index, Scored
  <1> HIDE DEF old, new
  <1>4. ASSUME NEW x \in Index(db', n) PROVE x \in Scored(db', n)
    <2>1. x \in DOMAIN db' /\ x[1] = ZSCORE /\ x[2] = n
      BY <1>3, <1>4 DEF Of
    <2>2. Stays(x) /\ x # ZscoreKey(n, k, old[k])
      BY <2>1 DEF old
    <2>3. x \in Index(db, n)
      BY <1>3, <2>1, <2>2 DEF Of, Stays
    <2>4. PICK j \in DOMAIN old : x = ZscoreKey(n, j, old[j])
      BY <1>3, <2>3
    <2>5. j \in DOMAIN new /\ new[j] = old[j]
      BY <1>1, <2>2, <2>4
    <2>6. QED
      BY <1>3, <2>4, <2>5
  <1>5. ASSUME NEW x \in Scored(db', n) PROVE x \in Index(db', n)
    <2>1. PICK j \in DOMAIN new : x = ZscoreKey(n, j, new[j])
      BY <1>3, <1>5
    <2>2. x[1] = ZSCORE /\ x[2] = n
      BY <2>1 DEF ZscoreKey
    <2>3. j \in DOMAIN old /\ new[j] = old[j] /\ j # k
      BY <1>1
    <2>4. x \in Index(db, n)
      BY <1>3, <2>1, <2>3
    <2>5. \A s : x # ZscoreKey(n, k, s)
      BY <2>1, <2>3 DEF ZscoreKey
    <2>6. Stays(x)
      BY <2>2, <2>5
    <2>7. QED
      BY <1>3, <2>4, <2>6 DEF Of, Stays
  <1>6. QED
    BY <1>4, <1>5

LEMMA TwoIsBatch ==
    ASSUME NEW a, NEW b, NEW types, NEW n, Batch(<<a>>, types, n), Batch(<<b>>, types, n)
    PROVE  Batch(<<a, b>>, types, n)
  <1>1. IsSeq(<<a, b>>)
    BY TwoBatch, SeqIsSeq
  <1>2. OnlyAt(<<a, b>>, types, n)
    BY OneBatch, TwoBatch DEF Batch, OnlyAt, Untouched
  <1>3. QED
    BY <1>1, <1>2 DEF Batch

\* A batch of the old place, the new place, the entry and the counter, the
\* first and the last of which may be missing.
LEMMA ScoreBatch ==
    ASSUME NEW types, NEW n, NEW pre, NEW place, NEW entry, NEW size,
           Batch(pre, types, n), Batch(size, types, n),
           Batch(<<place>>, types, n), Batch(<<entry>>, types, n),
           place.key # entry.key,
           Untouched(pre, entry.key), Untouched(size, entry.key), Untouched(size, place.key)
    PROVE  LET B == (pre \o <<place, entry>>) \o size
           IN /\ Batch(B, types, n)
              /\ Writes(B, entry.key, entry) /\ Writes(B, place.key, place)
              /\ \A x, e : Writes(size, x, e) => Writes(B, x, e)
              /\ \A x, e : /\ Writes(pre, x, e) /\ x # place.key /\ x # entry.key
                           /\ Untouched(size, x)
                           => Writes(B, x, e)
              /\ \A x : /\ Untouched(pre, x) /\ x # place.key /\ x # entry.key
                        /\ Untouched(size, x)
                        => Untouched(B, x)
  <1> DEFINE T == <<place, entry>>  A == pre \o T  B == A \o size
  <1>1. /\ Batch(T, types, n)
        /\ \A x : place.key # x /\ entry.key # x => Untouched(T, x)
        /\ Writes(T, entry.key, entry) /\ Writes(T, place.key, place)
    BY TwoBatch, TwoIsBatch
  <1> HIDE DEF T
  <1>2. Batch(A, types, n)
    BY ONLY <1>1, Batch(pre, types, n), ConcatIsBatch, Zenon
  <1>3. \A x : Untouched(pre, x) /\ Untouched(T, x) => Untouched(A, x)
    BY ONLY <1>1, Batch(pre, types, n), ConcatIsBatch, Zenon
  <1>4. \A x, e : Writes(pre, x, e) /\ Untouched(T, x) => Writes(A, x, e)
    BY ONLY <1>1, Batch(pre, types, n), ConcatIsBatch, Zenon
  <1>5. \A x, e : Writes(T, x, e) => Writes(A, x, e)
    BY ONLY <1>1, Batch(pre, types, n), ConcatIsBatch, Zenon
  <1> HIDE DEF A
  <1>6. Batch(B, types, n)
    BY ONLY <1>2, Batch(size, types, n), ConcatIsBatch, Zenon
  <1>7. \A x : Untouched(A, x) /\ Untouched(size, x) => Untouched(B, x)
    BY ONLY <1>2, Batch(size, types, n), ConcatIsBatch, Zenon
  <1>8. \A x, e : Writes(A, x, e) /\ Untouched(size, x) => Writes(B, x, e)
    BY ONLY <1>2, Batch(size, types, n), ConcatIsBatch, Zenon
  <1>9. \A x, e : Writes(size, x, e) => Writes(B, x, e)
    BY ONLY <1>2, Batch(size, types, n), ConcatIsBatch, Zenon
  <1> HIDE DEF B
  <1>10. Writes(B, entry.key, entry) /\ Writes(B, place.key, place)
    BY <1>1, <1>5, <1>8
  <1>11. \A x, e : Writes(pre, x, e) /\ x # place.key /\ x # entry.key /\ Untouched(size, x)
                     => Writes(B, x, e)
    BY <1>1, <1>4, <1>8
  <1>12. \A x : Untouched(pre, x) /\ x # place.key /\ x # entry.key /\ Untouched(size, x)
                  => Untouched(B, x)
    BY <1>1, <1>3, <1>7
  <1>13. QED
    BY <1>6, <1>9, <1>10, <1>11, <1>12 DEF B, A, T

LEMMA ScoreStoredWorks ==
    ASSUME NEW n, NEW k, NEW score, NEW failed, NEW ret, NEW f
    PROVE  Works(ScoreStored(n, k, score, failed, ret, f), ZsetKeys, n)
  <1> DEFINE o == ScoreStored(n, k, score, failed, ret, f)
             one == ZsetOne(n, k, score, failed)
             x == ZsetKey(n, k)
             c == ZSizeKey(n)
             found == Found(x, failed)
             old == IF found = 1 THEN db[x] ELSE 0
             d == Delete(ZscoreKey(n, k, old))
             pre == IF found = 0 THEN <<>> ELSE <<d>>
             place == Put(ZscoreKey(n, k, score), "")
             entry == Put(x, score)
             e == IncrSize(c, 1, f)[1]
             size == IF one.new > 0 THEN IncrSize(c, 1, f) ELSE <<>>
  <1>1. o.batch = one.batch \o size /\ o.logs = one.logs
    BY DEF ScoreStored, Commit
  <1>2. /\ one.batch \in {<<>>, pre \o <<place, entry>>}
        /\ one.logs \in {<<>>, <<Log("ZSET", x)>>}
    BY DEF ZsetOne
  <1>3. /\ d.key = ZscoreKey(n, k, old) /\ place.key = ZscoreKey(n, k, score)
        /\ entry.key = x /\ e.key = c /\ IncrSize(c, 1, f) = <<e>>
    BY SizeBatch DEF Put, Delete
  <1> HIDE DEF d, place, entry, e, old, one, o, found
  <1>4. /\ Batch(<<d>>, ZsetKeys, n) /\ Batch(<<place>>, ZsetKeys, n)
        /\ Batch(<<entry>>, ZsetKeys, n) /\ Batch(<<e>>, ZsetKeys, n)
    BY <1>3, ZsetKeysAt, OneIsBatch
  <1>5. Batch(pre, ZsetKeys, n) /\ Batch(size, ZsetKeys, n) /\ Batch(<<place, entry>>, ZsetKeys, n)
    BY <1>3, <1>4, NoneIsBatch, TwoIsBatch
  <1> HIDE DEF pre, size
  <1>6. Batch(one.batch, ZsetKeys, n)
    <2>1. Batch(pre \o <<place, entry>>, ZsetKeys, n)
      BY <1>5, ConcatIsBatch
    <2>2. QED
      BY <1>2, <2>1, NoneIsBatch
  <1>7. Batch(o.batch, ZsetKeys, n)
    BY <1>1, <1>5, <1>6, ConcatIsBatch
  <1>8. IsSeq(o.logs)
    BY <1>1, <1>2, OneIsSeq, NoneIsBatch
  <1>9. QED
    BY <1>7, <1>8 DEF Works, o

LEMMA ScoreStoredRight ==
    ASSUME WellFormed(db), NEW n, ZsetRight(n), Frame(ZsetKeys, n),
           NEW k, NEW score, NEW failed, NEW ret, NEW f,
           ChangesBy(ScoreStored(n, k, score, failed, ret, f).batch),
           misread' = misread \cup ScoreStored(n, k, score, failed, ret, f).misread
    PROVE  ZsetRight(n)'
  <1> DEFINE o == ScoreStored(n, k, score, failed, ret, f)
             one == ZsetOne(n, k, score, failed)
             x == ZsetKey(n, k)
             c == ZSizeKey(n)
             found == Found(x, failed)
             last1 == IF found = 1 THEN db[x] ELSE 0
             d == Delete(ZscoreKey(n, k, last1))
             pre == IF found = 0 THEN <<>> ELSE <<d>>
             place == Put(ZscoreKey(n, k, score), "")
             entry == Put(x, score)
             e == IncrSize(c, 1, f)[1]
             size == IF found = 0 THEN <<e>> ELSE <<>>
             old == DOMAIN Zset(db, n)
             new == DOMAIN Zset(db', n)
             B == (pre \o <<place, entry>>) \o size
  <1>1. WellFormed(db') /\ IsFiniteSet(old) /\ Cardinality(old) \in Nat /\ misread \subseteq misread'
    BY FS_CardinalityType DEF Frame, ZsetRight
  <1>2. /\ d.key = ZscoreKey(n, k, last1) /\ d.keep = FALSE
        /\ place.key = ZscoreKey(n, k, score) /\ place.keep = TRUE
        /\ entry.key = x /\ entry.keep = TRUE /\ entry.value = score
        /\ e.key = c /\ IncrSize(c, 1, f) = <<e>>
    BY SizeBatch DEF Put, Delete
  <1>3. /\ found = 1 => x \in DOMAIN db /\ ~failed
        /\ found = 0 => x \notin DOMAIN db /\ ~failed
        /\ found # 0 /\ ~failed => found = 1
    BY DEF Found
  <1>4. k \in old <=> x \in DOMAIN db
    BY ZsetMember
  <1>5. CASE found = 1 /\ last1 = score
    <2>1. o.batch = <<>>
      <3>1. one.batch = <<>> /\ one.new = 0
        BY <1>5 DEF ZsetOne
      <3>2. o.batch = one.batch \o (IF one.new > 0 THEN IncrSize(c, 1, f) ELSE <<>>)
        BY DEF ScoreStored, Commit
      <3> HIDE DEF one, o
      <3>3. QED
        BY <3>1, <3>2
    <2>2. \A y : y[1] # SYNCLOG => Stays(y)
      BY <2>1, NoBatch DEF ChangesBy
    <2>3. SameStore(ZsetKeys, n)
      BY <2>2, TypesDiffer DEF SameStore, ObjectKeys
    <2>4. QED
      BY <1>1, <2>3, ZsetSame
  <1>6. CASE ~(found = 1 /\ last1 = score)
    <2>1. /\ o.batch = B
          /\ o.misread = Suspect(ZSET, n, failed \/ (f = "size" /\ found = 0))
      <3>1. /\ one.batch = pre \o <<place, entry>>
            /\ one.new = IF found = 0 THEN 1 ELSE 0
        BY <1>6 DEF ZsetOne
      <3>2. /\ o.batch = one.batch \o (IF one.new > 0 THEN IncrSize(c, 1, f) ELSE <<>>)
            /\ o.misread = Suspect(ZSET, n, failed \/ (f = "size" /\ one.new > 0))
        BY DEF ScoreStored, Commit
      <3> HIDE DEF one, o, e, pre, found
      <3>3. one.new > 0 <=> found = 0
        <4>1. (found = 0 => one.new = 1) /\ (found # 0 => one.new = 0)
          BY ONLY <3>1
        <4>2. QED
          BY ONLY <4>1
      <3>4. QED
        BY <1>2, <3>1, <3>2, <3>3
    <2>2. (failed => <<ZSET, n>> \in misread') /\ (f = "size" /\ found = 0 => <<ZSET, n>> \in misread')
      BY <2>1 DEF Suspect
    <2>3. ChangesBy(B)
      BY <2>1
    <2> HIDE DEF d, place, entry, e, last1, found
    <2>4. /\ Batch(<<d>>, ZsetKeys, n) /\ Batch(<<place>>, ZsetKeys, n)
          /\ Batch(<<entry>>, ZsetKeys, n) /\ Batch(<<e>>, ZsetKeys, n)
      BY <1>2, ZsetKeysAt, OneIsBatch
    <2>5. /\ \A j : ZsetKey(n, j) # c /\ ZsetKey(n, j)[1] # SYNCLOG /\ (j # k => ZsetKey(n, j) # x)
          /\ \A j, s, t : ZscoreKey(n, j, s) # c /\ ZscoreKey(n, j, s) # ZsetKey(n, t)
          /\ \A j, s : ZscoreKey(n, j, s)[1] = ZSCORE
          /\ c[1] # SYNCLOG /\ c[1] # ZSCORE /\ x[1] # ZSCORE /\ ZSCORE # SYNCLOG
      <3>1. \A j, s : ZscoreKey(n, j, s)[1] = ZSCORE
        BY DEF ZscoreKey
      <3>2. /\ \A j : ZsetKey(n, j)[1] # ZSCORE /\ ZsetKey(n, j)[1] # SYNCLOG
            /\ \A j : ZsetKey(n, j) # c
            /\ c[1] # ZSCORE /\ c[1] # SYNCLOG /\ ZSCORE # SYNCLOG
        BY ZsetKeysAt
      <3>3. \A j : j # k => ZsetKey(n, j) # x
        BY DEF ZsetKey
      <3>4. QED
        BY ONLY <3>1, <3>2, <3>3 DEF x
    <2>6. /\ \A y : y # d.key => Untouched(pre, y)
          /\ \A y : found = 0 => Untouched(pre, y)
          /\ found # 0 => Writes(pre, d.key, d)
          /\ \A y : y # c => Untouched(size, y)
          /\ \A y : found # 0 => Untouched(size, y)
          /\ found = 0 => Writes(size, c, e)
      BY <1>2, OneBatch, NoBatch
    <2>7. Batch(pre, ZsetKeys, n) /\ Batch(size, ZsetKeys, n)
      BY <2>4, NoneIsBatch
    <2> HIDE DEF pre, size, x, c
    <2>8. /\ place.key # entry.key /\ Untouched(pre, entry.key)
          /\ Untouched(size, entry.key) /\ Untouched(size, place.key)
          /\ place.key # c /\ entry.key # c /\ d.key # c /\ d.key # entry.key
      BY <1>2, <2>5, <2>6 DEF x
    <2>9. /\ Writes(B, entry.key, entry) /\ Writes(B, place.key, place)
          /\ \A y, v : Writes(size, y, v) => Writes(B, y, v)
          /\ \A y, v : /\ Writes(pre, y, v) /\ y # place.key /\ y # entry.key
                       /\ Untouched(size, y)
                       => Writes(B, y, v)
          /\ \A y : /\ Untouched(pre, y) /\ y # place.key /\ y # entry.key /\ Untouched(size, y)
                    => Untouched(B, y)
      BY <2>4, <2>7, <2>8, ScoreBatch
    <2> HIDE DEF B
    <2>10. \A y : /\ y[1] # SYNCLOG /\ y # place.key /\ y # entry.key
                  /\ (found # 0 => y # d.key) /\ (found = 0 => y # c)
                  => Stays(y)
      BY <2>3, <2>6, <2>9 DEF ChangesBy
    <2>11. x \in DOMAIN db' /\ db'[x] = score
      BY <1>2, <2>3, <2>5, <2>9 DEF ChangesBy, x
    <2>12. place.key \in DOMAIN db'
      BY <1>2, <2>3, <2>5, <2>9 DEF ChangesBy
    <2>13. \A j : j # k => Stays(ZsetKey(n, j))
      BY <1>2, <2>5, <2>10 DEF x
    <2>14. new = old \cup {k}
      BY <1>1, <2>11, <2>13, ZsetEntries DEF x
    <2>15. /\ IsFiniteSet(old \cup {k})
           /\ Cardinality(old \cup {k}) = IF k \in old THEN Cardinality(old) ELSE Cardinality(old) + 1
      BY <1>1, FS_AddElement
    <2>16. ASSUME <<ZSET, n>> \notin misread' PROVE Counts(db', c, Cardinality(new))
      <3>1. Counts(db, c, Cardinality(old))
        BY <1>1, <2>16 DEF ZsetRight, c
      <3>2. CASE found = 0
        <4> DEFINE N == Cardinality(old)
        <4>1. Writes(B, c, e) /\ f # "size" /\ Cardinality(new) = N + 1
          BY <1>3, <1>4, <2>2, <2>6, <2>9, <2>14, <2>15, <2>16, <3>2
        <4>2. N \in Nat /\ N + 1 \in Nat /\ 1 \in Int
          BY <1>1
        <4> HIDE DEF N
        <4>3. Counts(db, c, N) /\ Writes(B, c, IncrSize(c, 1, f)[1])
          BY <3>1, <4>1 DEF N, e
        <4>4. Counts(db', c, N + 1)
          BY ONLY <2>3, <2>5, <4>1, <4>2, <4>3, Counted
        <4>5. QED
          BY <4>1, <4>4
      <3>3. CASE found # 0
        <4>1. Stays(c)
          BY <2>5, <2>8, <2>10, <3>3
        <4>2. k \in old
          BY <1>3, <1>4, <2>2, <2>16, <3>3
        <4>3. Cardinality(new) = Cardinality(old)
          BY <2>14, <2>15, <4>2
        <4>4. QED
          BY <3>1, <4>1, <4>3 DEF Counts, Stays
      <3>4. QED
        BY <3>2, <3>3
    <2>17. ASSUME <<ZSET, n>> \notin misread' PROVE Index(db', n) = Scored(db', n)
      <3>1. Index(db, n) = Scored(db, n)
        BY <1>1, <2>17 DEF ZsetRight, Index, Scored
      <3>2. ~failed
        BY <2>2, <2>17
      <3>3. CASE found = 0
        <4>1. k \notin old
          BY <1>3, <1>4, <3>3
        <4>2. \A y : y[1] = ZSCORE /\ y # place.key => Stays(y)
          BY <1>2, <2>5, <2>10, <3>3
        <4>3. QED
          BY <1>1, <1>2, <2>11, <2>12, <2>13, <3>1, <4>1, <4>2, ScoreIndexed DEF x
      <3>4. CASE found # 0
        <4>1. k \in old /\ found = 1 /\ last1 # score
          BY <1>3, <1>4, <1>6, <3>2, <3>4
        <4>2. last1 = Zset(db, n)[k]
          BY <4>1, ZsetMember DEF last1, x
        <4>3. d.key # place.key
          BY <1>2, <4>1 DEF ZscoreKey
        <4>4. Writes(B, d.key, d)
          BY <2>6, <2>8, <2>9, <3>4, <4>3
        <4>5. d.key \notin DOMAIN db'
          <5>1. d.key[1] # SYNCLOG
            BY <1>2, <2>5
          <5>2. QED
            BY <1>2, <2>3, <4>4, <5>1 DEF ChangesBy
        <4>6. \A y : y[1] = ZSCORE /\ y # place.key /\ y # d.key => Stays(y)
          BY <1>2, <2>5, <2>10, <3>4
        <4>7. d.key = ZscoreKey(n, k, Zset(db, n)[k])
          BY <1>2, <4>2
        <4>8. /\ ZsetKey(n, k) \in DOMAIN db' /\ db'[ZsetKey(n, k)] = score
              /\ ZscoreKey(n, k, score) \in DOMAIN db'
              /\ ZscoreKey(n, k, Zset(db, n)[k]) \notin DOMAIN db'
          BY <1>2, <2>11, <2>12, <4>5, <4>7 DEF x
        <4>9. \A y : /\ y[1] = ZSCORE /\ y # ZscoreKey(n, k, score)
                     /\ ~(k \in DOMAIN Zset(db, n) /\ y = ZscoreKey(n, k, Zset(db, n)[k]))
                     => Stays(y)
          BY <1>2, <4>1, <4>6, <4>7
        <4>10. WellFormed(db')
          BY <1>1
        <4>11. QED
          BY ONLY WellFormed(db), <2>13, <3>1, <4>8, <4>9, <4>10, ScoreIndexed
      <3>5. QED
        BY <3>3, <3>4
    <2>18. QED
      BY <2>14, <2>15, <2>16, <2>17 DEF ZsetRight, Index, Scored, c
  <1>7. QED
    BY <1>5, <1>6

LEMMA ZdelWorks ==
    ASSUME NEW n, NEW k, NEW f
    PROVE  Works(Zdel(n, k, f), ZsetKeys, n)
  <1> DEFINE o == Zdel(n, k, f)
             x == ZsetKey(n, k)
             d == Delete(ZscoreKey(n, k, db[x]))
             p == Delete(x)
             e == IncrSize(ZSizeKey(n), -1, f)[1]
  <1>1. /\ d.key = ZscoreKey(n, k, db[x]) /\ p.key = x
        /\ e.key = ZSizeKey(n) /\ IncrSize(ZSizeKey(n), -1, f) = <<e>>
    BY SizeBatch DEF Delete
  <1>2. o.commits => \/ o.batch = <<>> /\ o.logs = <<>>
                     \/ /\ o.batch = <<d, p>> \o IncrSize(ZSizeKey(n), -1, f)
                        /\ o.logs = <<Log("ZDEL", x)>>
    BY DEF Zdel, Commit, Return
  <1> HIDE DEF o, d, p, e
  <1>3. Batch(<<d>>, ZsetKeys, n) /\ Batch(<<p>>, ZsetKeys, n) /\ Batch(<<e>>, ZsetKeys, n)
    BY <1>1, ZsetKeysAt, OneIsBatch
  <1>4. Batch(<<d, p>> \o <<e>>, ZsetKeys, n)
    BY <1>3, TwoIsBatch, ConcatIsBatch
  <1>5. o.commits => Batch(o.batch, ZsetKeys, n) /\ IsSeq(o.logs)
    BY <1>1, <1>2, <1>4, NoneIsBatch, OneIsSeq
  <1>6. QED
    BY <1>5 DEF Works, o

LEMMA ZdelRight ==
    ASSUME WellFormed(db), NEW n, ZsetRight(n), Frame(ZsetKeys, n),
           NEW k, NEW f, Zdel(n, k, f).commits,
           ChangesBy(Zdel(n, k, f).batch),
           misread' = misread \cup Zdel(n, k, f).misread
    PROVE  ZsetRight(n)'
  <1> DEFINE o == Zdel(n, k, f)
             x == ZsetKey(n, k)
             c == ZSizeKey(n)
             d == Delete(ZscoreKey(n, k, db[x]))
             p == Delete(x)
             e == IncrSize(c, -1, f)[1]
             old == DOMAIN Zset(db, n)
             new == DOMAIN Zset(db', n)
             T == <<d, p>>
             B == T \o <<e>>
  <1>1. WellFormed(db') /\ IsFiniteSet(old) /\ Cardinality(old) \in Nat /\ misread \subseteq misread'
    BY FS_CardinalityType DEF Frame, ZsetRight
  <1>2. /\ d.key = ZscoreKey(n, k, db[x]) /\ d.keep = FALSE /\ p.key = x /\ p.keep = FALSE
        /\ e.key = c /\ IncrSize(c, -1, f) = <<e>>
    BY SizeBatch DEF Delete
  <1>3. CASE Found(x, f = "entry") # 1
    <2>1. o.batch = <<>>
      BY <1>3 DEF Zdel, Commit, Return
    <2>2. \A y : y[1] # SYNCLOG => Stays(y)
      BY <2>1, NoBatch DEF ChangesBy
    <2>3. SameStore(ZsetKeys, n)
      BY <2>2, TypesDiffer DEF SameStore, ObjectKeys
    <2>4. QED
      BY <1>1, <2>3, ZsetSame
  <1>4. CASE Found(x, f = "entry") = 1
    <2>1. /\ o.batch = B
          /\ o.misread = Suspect(ZSET, n, f = "size")
      <3>1. /\ o.batch = T \o IncrSize(c, -1, f)
            /\ o.misread = Suspect(ZSET, n, f = "size")
        BY <1>4 DEF Zdel, Commit, Return
      <3> HIDE DEF o, T, e
      <3>2. QED
        BY <1>2, <3>1
    <2>2. (f = "size" => <<ZSET, n>> \in misread') /\ ChangesBy(B)
      BY <2>1 DEF Suspect
    <2>3. k \in old /\ Zset(db, n)[k] = db[x]
      BY <1>4, ZsetMember DEF Found
    <2> HIDE DEF d, p, e
    <2>4. /\ Batch(<<d>>, ZsetKeys, n) /\ Batch(<<p>>, ZsetKeys, n) /\ Batch(<<e>>, ZsetKeys, n)
      BY <1>2, ZsetKeysAt, OneIsBatch
    <2>5. /\ \A j : ZsetKey(n, j) # c /\ ZsetKey(n, j)[1] # SYNCLOG /\ (j # k => ZsetKey(n, j) # x)
          /\ \A j, s, t : ZscoreKey(n, j, s) # c /\ ZscoreKey(n, j, s) # ZsetKey(n, t)
          /\ \A j, s : ZscoreKey(n, j, s)[1] = ZSCORE
          /\ c[1] # SYNCLOG /\ c[1] # ZSCORE /\ x[1] # ZSCORE /\ ZSCORE # SYNCLOG
      <3>1. \A j, s : ZscoreKey(n, j, s)[1] = ZSCORE
        BY DEF ZscoreKey
      <3>2. /\ \A j : ZsetKey(n, j)[1] # ZSCORE /\ ZsetKey(n, j)[1] # SYNCLOG
            /\ \A j : ZsetKey(n, j) # c
            /\ c[1] # ZSCORE /\ c[1] # SYNCLOG /\ ZSCORE # SYNCLOG
        BY ZsetKeysAt
      <3>3. \A j : j # k => ZsetKey(n, j) # x
        BY DEF ZsetKey
      <3>4. QED
        BY ONLY <3>1, <3>2, <3>3 DEF x
    <2> HIDE DEF x, c
    <2>6. d.key # p.key /\ d.key # c /\ p.key # c
      BY <1>2, <2>5 DEF x
    <2>7. /\ Batch(T, ZsetKeys, n)
          /\ Writes(T, d.key, d) /\ Writes(T, p.key, p)
          /\ \A y : y # d.key /\ y # p.key => Untouched(T, y)
      BY <2>4, <2>6, TwoIsBatch, TwoBatch
    <2> HIDE DEF T
    <2>8. /\ Writes(<<e>>, c, e) /\ \A y : y # c => Untouched(<<e>>, y)
      BY <1>2, OneBatch
    <2>9. \A y : Untouched(T, y) /\ Untouched(<<e>>, y) => Untouched(B, y)
      BY ONLY <2>4, <2>7, ConcatIsBatch, Zenon
    <2>10. \A y, v : Writes(T, y, v) /\ Untouched(<<e>>, y) => Writes(B, y, v)
      BY ONLY <2>4, <2>7, ConcatIsBatch, Zenon
    <2>11. \A y, v : Writes(<<e>>, y, v) => Writes(B, y, v)
      BY ONLY <2>4, <2>7, ConcatIsBatch, Zenon
    <2> HIDE DEF B
    <2>12. Writes(B, c, e) /\ Writes(B, d.key, d) /\ Writes(B, p.key, p)
      BY <2>6, <2>7, <2>8, <2>10, <2>11
    <2>13. \A y : y[1] # SYNCLOG /\ y # d.key /\ y # p.key /\ y # c => Stays(y)
      BY <2>2, <2>7, <2>8, <2>9 DEF ChangesBy
    <2>14. x \notin DOMAIN db' /\ d.key \notin DOMAIN db'
      <3>1. x[1] # SYNCLOG /\ d.key[1] # SYNCLOG
        BY <1>2, <2>5 DEF x
      <3>2. QED
        BY <1>2, <2>2, <2>12, <3>1 DEF ChangesBy
    <2>15. \A j : j # k => Stays(ZsetKey(n, j))
      BY <1>2, <2>5, <2>13 DEF x
    <2>16. new = old \ {k}
      BY <1>1, <2>14, <2>15, ZsetEntries DEF x
    <2>17. /\ IsFiniteSet(old \ {k}) /\ Cardinality(old \ {k}) \in Nat
           /\ Cardinality(old \ {k}) = Cardinality(old) - 1
      BY <1>1, <2>3, FS_RemoveElement, FS_CardinalityType
    <2>18. ASSUME <<ZSET, n>> \notin misread' PROVE Counts(db', c, Cardinality(new))
      <3> DEFINE N == Cardinality(old)
      <3>1. Counts(db, c, N) /\ f # "size"
        BY <1>1, <2>2, <2>18 DEF ZsetRight, c
      <3>2. Cardinality(new) = N + (-1) /\ N + (-1) \in Nat /\ N \in Nat
        BY <1>1, <2>16, <2>17
      <3> HIDE DEF N, new, old
      <3>3. Writes(B, c, IncrSize(c, -1, f)[1])
        BY <2>12 DEF e
      <3>4. Counts(db', c, N + (-1))
        BY ONLY <2>2, <2>5, <3>1, <3>2, <3>3, Counted
      <3>5. QED
        BY <3>2, <3>4
    <2>19. ASSUME <<ZSET, n>> \notin misread' PROVE Index(db', n) = Scored(db', n)
      <3>1. Index(db, n) = Scored(db, n)
        BY <1>1, <2>19 DEF ZsetRight, Index, Scored
      <3>2. d.key = ZscoreKey(n, k, Zset(db, n)[k])
        BY <1>2, <2>3
      <3>3. \A y : y[1] = ZSCORE /\ y # d.key => Stays(y)
        BY <1>2, <2>5, <2>13
      <3>4. /\ ZsetKey(n, k) \notin DOMAIN db'
            /\ ZscoreKey(n, k, Zset(db, n)[k]) \notin DOMAIN db'
            /\ \A y : y[1] = ZSCORE /\ y # ZscoreKey(n, k, Zset(db, n)[k]) => Stays(y)
        BY <2>14, <3>2, <3>3 DEF x
      <3>5. WellFormed(db') /\ k \in DOMAIN Zset(db, n)
        BY <1>1, <2>3
      <3>6. QED
        BY ONLY WellFormed(db), <2>15, <3>1, <3>4, <3>5, ScoreUnindexed
    <2>20. QED
      BY <2>16, <2>17, <2>18, <2>19 DEF ZsetRight, Index, Scored, c
  <1>5. QED
    BY <1>3, <1>4

-----------------------------------------------------------------------------
(* The operations on hashes, sorted sets and plain values.                 *)

\* What leaves every object as it is, or changes one of them rightly.
LEMMA HashStep ==
    ASSUME IInv, NEW n, Frame(HashKeys, n), misread \subseteq misread',
           n \in HNames => HashRight(n)', orphaned' = orphaned
    PROVE  IInv'
  <1>1. /\ \A m \in HNames : m # n => HashRight(m)'
        /\ \A m \in ZNames : ZsetRight(m)'
        /\ \A m \in QNames : QueueEnds(m)' /\ (QueueRight(m) => QueueRight(m)')
    BY TypesDiffer, Elsewhere
  <1>2. QED
    BY <1>1 DEF IInv, Frame

LEMMA ZsetStep ==
    ASSUME IInv, NEW n, Frame(ZsetKeys, n), misread \subseteq misread',
           n \in ZNames => ZsetRight(n)', orphaned' = orphaned
    PROVE  IInv'
  <1>1. /\ \A m \in HNames : HashRight(m)'
        /\ \A m \in ZNames : m # n => ZsetRight(m)'
        /\ \A m \in QNames : QueueEnds(m)' /\ (QueueRight(m) => QueueRight(m)')
    BY TypesDiffer, Elsewhere
  <1>2. QED
    BY <1>1 DEF IInv, Frame

LEMMA QueueStep ==
    ASSUME IInv, NEW n, Frame(QueueKeys, n), misread \subseteq misread',
           orphaned \subseteq orphaned',
           n \in QNames => QueueEnds(n)' /\ (n \notin orphaned' => QueueRight(n)')
    PROVE  IInv'
  <1>1. /\ \A m \in HNames : HashRight(m)'
        /\ \A m \in ZNames : ZsetRight(m)'
        /\ \A m \in QNames : m # n => QueueEnds(m)' /\ (QueueRight(m) => QueueRight(m)')
    BY TypesDiffer, Elsewhere
  <1>2. QED
    BY <1>1 DEF IInv, Frame

LEMMA OtherStep ==
    ASSUME IInv, Frame({}, Nothing), misread \subseteq misread', orphaned \subseteq orphaned'
    PROVE  IInv'
  <1>1. /\ \A m \in HNames : HashRight(m)'
        /\ \A m \in ZNames : ZsetRight(m)'
        /\ \A m \in QNames : QueueEnds(m)' /\ (QueueRight(m) => QueueRight(m)')
    BY Elsewhere
  <1>2. QED
    BY <1>1 DEF IInv, Frame

\* A step that leaves the store.
LEMMA SameStep ==
    ASSUME IInv, db' = db, misread' = misread, orphaned \subseteq orphaned'
    PROVE  IInv'
  <1>1. Frame({}, Nothing)
    BY DEF Frame, Stays, IInv
  <1>2. QED
    BY <1>1, OtherStep

LEMMA OtherTransact ==
    ASSUME IInv, NEW call, NEW o, NEW f, Operation(call, o, f), Works(o, {}, Nothing)
    PROVE  IInv'
  <1>1. Transact(call, o, f) /\ orphaned' = orphaned
    BY DEF Operation
  <1>2. \/ db' = db /\ misread' = misread
        \/ misread' = misread \cup o.misread /\ Frame({}, Nothing)
    BY <1>1, TransactFrame DEF IInv
  <1>3. QED
    BY <1>1, <1>2, SameStep, OtherStep

LEMMA KvKeyAt == \A k : Shaped(KvKey(k)) /\ KvKey(k)[1] = KV
  BY KeysShaped DEF KvKey

LEMMA StoreWorks ==
    ASSUME NEW k, NEW v, NEW ret
    PROVE  Works(Store(k, v, ret), {}, Nothing)
  <1> DEFINE p == Put(KvKey(k), v)
  <1>1. Store(k, v, ret).batch = <<p>> /\ Store(k, v, ret).logs = <<Log("KSET", KvKey(k))>>
    BY DEF Store, Commit
  <1>2. p.key = KvKey(k)
    BY DEF Put
  <1> HIDE DEF p
  <1>3. Batch(<<p>>, {}, Nothing)
    BY <1>2, KvKeyAt, OneIsBatch
  <1>4. QED
    BY <1>1, <1>3, OneIsSeq DEF Works

LEMMA ReturnWorks ==
    ASSUME NEW ret, NEW types, NEW n
    PROVE  Works(Return(ret), types, n)
  BY DEF Works, Return

LEMMA NothingWorks ==
    ASSUME NEW ret, NEW types, NEW n
    PROVE  Works(Commit(<<>>, <<>>, ret), types, n)
  BY NoneIsBatch DEF Works, Commit

\* What an operation answers besides is nothing to its batch.
LEMMA ItemWorks ==
    ASSUME NEW o, NEW item, NEW types, NEW n, Works(o, types, n),
           o = [commits |-> o.commits, batch |-> o.batch, logs |-> o.logs, ret |-> o.ret,
                item |-> o.item, misread |-> o.misread]
    PROVE  LET q == [o EXCEPT !.item = item]
           IN /\ Works(q, types, n)
              /\ q.commits = o.commits /\ q.batch = o.batch /\ q.misread = o.misread
  <1> DEFINE q == [o EXCEPT !.item = item]
  <1>1. /\ q.commits = o.commits /\ q.batch = o.batch /\ q.logs = o.logs
        /\ q.misread = o.misread
    OBVIOUS
  <1> HIDE DEF q
  <1>2. QED
    BY <1>1 DEF Works, q

LEMMA SetSteps == IInv /\ (KvSet \/ KvSetnx \/ KvGetset \/ KvDel \/ KvIncr) => IInv'
  <1> SUFFICES ASSUME IInv, KvSet \/ KvSetnx \/ KvGetset \/ KvDel \/ KvIncr PROVE IInv'
    OBVIOUS
  <1>1. CASE KvSet
    <2>1. PICK k, v, f : Operation(<<"set", k, v>>, Set(k, v), f)
      BY <1>1 DEF KvSet
    <2>2. Works(Set(k, v), {}, Nothing)
      BY StoreWorks, ReturnWorks DEF Set
    <2>3. QED
      BY <2>1, <2>2, OtherTransact
  <1>2. CASE KvSetnx
    <2>1. PICK k, v, f : Operation(<<"setnx", k, v>>, Setnx(k, v, f), f)
      BY <1>2 DEF KvSetnx
    <2>2. Works(Setnx(k, v, f), {}, Nothing)
      BY StoreWorks, ReturnWorks DEF Setnx
    <2>3. QED
      BY <2>1, <2>2, OtherTransact
  <1>3. CASE KvGetset
    <2>1. PICK k, v, f : Operation(<<"getset", k, v>>, Getset(k, v, f), f)
      BY <1>3 DEF KvGetset
    <2>2. \A ret, item : Works([Store(k, v, ret) EXCEPT !.item = item], {}, Nothing)
      <3>1. SUFFICES ASSUME NEW ret, NEW item
                     PROVE  Works([Store(k, v, ret) EXCEPT !.item = item], {}, Nothing)
        OBVIOUS
      <3> DEFINE o == Store(k, v, ret)
      <3>2. o = [commits |-> o.commits, batch |-> o.batch, logs |-> o.logs, ret |-> o.ret,
                 item |-> o.item, misread |-> o.misread]
        BY DEF Store, Commit
      <3>3. Works(o, {}, Nothing)
        BY StoreWorks
      <3> HIDE DEF o
      <3>4. Works([o EXCEPT !.item = item], {}, Nothing)
        BY <3>2, <3>3, ItemWorks
      <3>5. QED
        BY <3>4 DEF o
    <2>3. Works(Getset(k, v, f), {}, Nothing)
      BY <2>2, ReturnWorks DEF Getset
    <2>4. QED
      BY <2>1, <2>3, OtherTransact
  <1>4. CASE KvDel
    <2>1. PICK k, f : Operation(<<"del", k>>, Del(k), f)
      BY <1>4 DEF KvDel
    <2>2. Works(Del(k), {}, Nothing)
      <3> DEFINE p == Delete(KvKey(k))
                 o == Commit(<<p>>, <<Log("KDEL", KvKey(k))>>, 1)
      <3>1. o.batch = <<p>> /\ o.logs = <<Log("KDEL", KvKey(k))>>
        BY DEF Commit
      <3>2. p.key = KvKey(k)
        BY DEF Delete
      <3>3. Del(k) = Return(-1) \/ Del(k) = o
        BY DEF Del
      <3> HIDE DEF p, o
      <3>4. Batch(<<p>>, {}, Nothing)
        BY <3>2, KvKeyAt, OneIsBatch
      <3>5. Works(o, {}, Nothing)
        BY <3>1, <3>4, OneIsSeq DEF Works
      <3>6. QED
        BY <3>3, <3>5, ReturnWorks
    <2>3. QED
      BY <2>1, <2>2, OtherTransact
  <1>5. CASE KvIncr
    <2>1. PICK k, by, f : Operation(<<"incr", k, by>>, Incr(k, by, f), f)
      BY <1>5 DEF KvIncr
    <2> DEFINE sum == Addend(KvKey(k)) + by
               o == Store(k, sum, 1)
    <2>2. Works([o EXCEPT !.item = sum], {}, Nothing)
      <3>1. o = [commits |-> o.commits, batch |-> o.batch, logs |-> o.logs, ret |-> o.ret,
                 item |-> o.item, misread |-> o.misread]
        BY DEF Store, Commit
      <3>2. Works(o, {}, Nothing)
        BY StoreWorks
      <3> HIDE DEF o
      <3>3. QED
        BY <3>1, <3>2, ItemWorks
    <2>3. Works(Incr(k, by, f), {}, Nothing)
      BY <2>2, ReturnWorks DEF Incr
    <2>4. QED
      BY <2>1, <2>3, OtherTransact
  <1>6. QED
    BY <1>1, <1>2, <1>3, <1>4, <1>5

LEMMA MultiSteps == IInv /\ (KvMultiSet \/ KvMultiDel) => IInv'
  <1> SUFFICES ASSUME IInv, KvMultiSet \/ KvMultiDel PROVE IInv'
    OBVIOUS
  <1>1. CASE KvMultiSet
    <2>1. PICK kvs \in Pairs, f \in Faults({"write"}) :
            Operation(<<"multi_set", kvs>>, MultiSet(kvs), f)
      BY <1>1 DEF KvMultiSet
    <2> DEFINE B == [i \in DOMAIN kvs |-> Put(KvKey(kvs[i][1]), kvs[i][2])]
               L == [i \in DOMAIN kvs |-> Log("KSET", KvKey(kvs[i][1]))]
    <2>2. DOMAIN kvs = 1 .. Len(kvs) /\ Len(kvs) \in Nat
      BY SsdbAssumption, LenProperties
    <2>3. IsSeq(B) /\ IsSeq(L)
      BY <2>2 DEF IsSeq
    <2>4. \A i \in DOMAIN B : Shaped(B[i].key) /\ B[i].key[1] = KV
      BY KvKeyAt DEF Put
    <2>5. MultiSet(kvs) = Return(0) \/ MultiSet(kvs) = Commit(B, L, Len(kvs))
      BY DEF MultiSet
    <2> HIDE DEF B, L
    <2>6. Batch(B, {}, Nothing)
      BY <2>3, <2>4 DEF Batch, OnlyAt, Untouched
    <2>7. Works(Commit(B, L, Len(kvs)), {}, Nothing)
      BY <2>3, <2>6 DEF Works, Commit
    <2>8. QED
      BY <2>1, <2>5, <2>7, ReturnWorks, OtherTransact
  <1>2. CASE KvMultiDel
    <2>1. PICK k1, k2, f : Operation(<<"multi_del", <<k1, k2>>>>, MultiDel(<<k1, k2>>), f)
      BY <1>2 DEF KvMultiDel
    <2> DEFINE ks == <<k1, k2>>
               B == [i \in DOMAIN ks |-> Delete(KvKey(ks[i]))]
               L == [i \in DOMAIN ks |-> Log("KDEL", KvKey(ks[i]))]
    <2>2. DOMAIN ks = 1 .. 2
      OBVIOUS
    <2>3. MultiDel(ks) = Commit(B, L, Len(ks))
      BY DEF MultiDel
    <2> HIDE DEF ks
    <2>4. IsSeq(B) /\ IsSeq(L)
      BY <2>2 DEF IsSeq
    <2>5. \A i \in DOMAIN B : Shaped(B[i].key) /\ B[i].key[1] = KV
      BY KvKeyAt DEF Delete
    <2> HIDE DEF B, L
    <2>6. Batch(B, {}, Nothing)
      BY <2>4, <2>5 DEF Batch, OnlyAt, Untouched
    <2>7. Works(Commit(B, L, Len(ks)), {}, Nothing)
      BY <2>4, <2>6 DEF Works, Commit
    <2>8. QED
      BY <2>1, <2>3, <2>7, OtherTransact DEF ks
  <1>3. QED
    BY <1>1, <1>2

LEMMA MisreadRecord ==
    ASSUME NEW b, NEW l, NEW ret, NEW m
    PROVE  LET o == [Commit(b, l, ret) EXCEPT !.misread = m]
           IN o = [commits |-> o.commits, batch |-> o.batch, logs |-> o.logs, ret |-> o.ret,
                   item |-> o.item, misread |-> o.misread]
  <1>1. ASSUME NEW T, NEW r, r = [commits |-> T, batch |-> b, logs |-> l, ret |-> ret,
                           item |-> Nothing, misread |-> {}]
        PROVE  [r EXCEPT !.misread = m]
                 = [commits |-> T, batch |-> b, logs |-> l, ret |-> ret,
                    item |-> Nothing, misread |-> m]
    BY <1>1
  <1>2. ASSUME NEW T, NEW q, q = [commits |-> T, batch |-> b, logs |-> l, ret |-> ret,
                           item |-> Nothing, misread |-> m]
        PROVE  q = [commits |-> q.commits, batch |-> q.batch, logs |-> q.logs,
                    ret |-> q.ret, item |-> q.item, misread |-> q.misread]
    BY <1>2
  <1>3. QED
    <2> DEFINE r == Commit(b, l, ret)  q == [r EXCEPT !.misread = m]
    <2>1. \E T : r = [commits |-> T, batch |-> b, logs |-> l, ret |-> ret,
                      item |-> Nothing, misread |-> {}]
      BY Zenon DEF Commit
    <2> HIDE DEF r
    <2>2. \E T : q = [commits |-> T, batch |-> b, logs |-> l, ret |-> ret,
                      item |-> Nothing, misread |-> m]
      BY ONLY <1>1, <2>1
    <2> HIDE DEF q
    <2>3. q = [commits |-> q.commits, batch |-> q.batch, logs |-> q.logs,
               ret |-> q.ret, item |-> q.item, misread |-> q.misread]
      BY ONLY <1>2, <2>2
    <2>4. QED
      BY <2>3 DEF q, r

LEMMA StoredRecord ==
    ASSUME NEW n, NEW k, NEW v, NEW failed, NEW ret, NEW f
    PROVE  /\ LET o == HashStored(n, k, v, failed, ret, f)
              IN o = [commits |-> o.commits, batch |-> o.batch, logs |-> o.logs, ret |-> o.ret,
                      item |-> o.item, misread |-> o.misread]
           /\ LET o == ScoreStored(n, k, v, failed, ret, f)
              IN o = [commits |-> o.commits, batch |-> o.batch, logs |-> o.logs, ret |-> o.ret,
                      item |-> o.item, misread |-> o.misread]
  <1>1. ASSUME NEW b, NEW l, NEW m
        PROVE  LET o == [Commit(b, l, ret) EXCEPT !.misread = m]
               IN o = [commits |-> o.commits, batch |-> o.batch, logs |-> o.logs, ret |-> o.ret,
                       item |-> o.item, misread |-> o.misread]
    BY MisreadRecord
  <1>2. \E b, l, m : HashStored(n, k, v, failed, ret, f) = [Commit(b, l, ret) EXCEPT !.misread = m]
    BY Zenon DEF HashStored
  <1>3. \E b, l, m : ScoreStored(n, k, v, failed, ret, f) = [Commit(b, l, ret) EXCEPT !.misread = m]
    BY Zenon DEF ScoreStored
  <1>4. QED
    BY <1>1, <1>2, <1>3

\* A hash operation whose batch keeps the hash right.
LEMMA HashTransact ==
    ASSUME IInv, NEW call, NEW o, NEW f, Transact(call, o, f), orphaned' = orphaned,
           NEW n, Works(o, HashKeys, n),
           n \in HNames /\ o.commits /\ ChangesBy(o.batch) /\ Frame(HashKeys, n)
             /\ misread' = misread \cup o.misread => HashRight(n)'
    PROVE  IInv'
  <1>1. \/ db' = db /\ misread' = misread
        \/ /\ o.commits /\ ChangesBy(o.batch)
           /\ misread' = misread \cup o.misread /\ Frame(HashKeys, n)
    BY TransactFrame DEF IInv
  <1>2. CASE db' = db /\ misread' = misread
    BY <1>2, SameStep
  <1>3. CASE /\ o.commits /\ ChangesBy(o.batch)
             /\ misread' = misread \cup o.misread /\ Frame(HashKeys, n)
    BY <1>3, HashStep
  <1>4. QED
    BY <1>1, <1>2, <1>3

LEMMA HashStoredTransact ==
    ASSUME IInv, NEW call, NEW n, NEW k, NEW v, NEW failed, NEW ret, NEW f, NEW o,
           LET s == HashStored(n, k, v, failed, ret, f)
           IN Works(o, HashKeys, n) /\ o.batch = s.batch /\ o.misread = s.misread,
           Transact(call, o, f), orphaned' = orphaned
    PROVE  IInv'
  <1> DEFINE s == HashStored(n, k, v, failed, ret, f)
  <1>1. Works(o, HashKeys, n) /\ o.batch = s.batch /\ o.misread = s.misread
    OBVIOUS
  <1> HIDE DEF s
  <1>2. ASSUME n \in HNames, ChangesBy(o.batch), Frame(HashKeys, n),
               misread' = misread \cup o.misread
        PROVE  HashRight(n)'
    <2>1. WellFormed(db) /\ HashRight(n) /\ ChangesBy(s.batch) /\ misread' = misread \cup s.misread
      BY <1>1, <1>2 DEF IInv
    <2>2. QED
      BY <1>2, <2>1, HashStoredRight DEF s
  <1>3. QED
    BY <1>1, <1>2, HashTransact

LEMMA HdelTransact ==
    ASSUME IInv, NEW call, NEW n, NEW k, NEW f, Transact(call, Hdel(n, k, f), f),
           orphaned' = orphaned
    PROVE  IInv'
  <1> DEFINE o == Hdel(n, k, f)
  <1>1. ASSUME n \in HNames, o.commits, ChangesBy(o.batch), Frame(HashKeys, n),
               misread' = misread \cup o.misread
        PROVE  HashRight(n)'
    BY <1>1, HdelRight DEF IInv
  <1>2. Works(o, HashKeys, n)
    BY HdelWorks
  <1> HIDE DEF o
  <1>3. Transact(call, o, f)
    BY DEF o
  <1>4. QED
    BY <1>1, <1>2, <1>3, HashTransact

LEMMA HashSteps ==
    IInv /\ (HashSet \/ HashDel \/ HashIncr \/ \E f : HclearDel(f)) => IInv'
  <1> SUFFICES ASSUME IInv, HashSet \/ HashDel \/ HashIncr \/ \E f : HclearDel(f) PROVE IInv'
    OBVIOUS
  <1>1. CASE HashSet
    <2>1. PICK n, k, v, f : Operation(<<"hset", n, k, v>>, Hset(n, k, v, f), f)
      BY <1>1 DEF HashSet
    <2> DEFINE call == <<"hset", n, k, v>>
               failed == f = "entry"
               ret == HsetOne(n, k, v, failed).new
               o == HashStored(n, k, v, failed, ret, f)
    <2>2. Hset(n, k, v, f) = Return(-1) \/ Hset(n, k, v, f) = o
      BY DEF Hset
    <2>3. /\ Operation(call, Hset(n, k, v, f), f)
          /\ Transact(call, Hset(n, k, v, f), f) /\ orphaned' = orphaned
      BY <2>1 DEF Operation
    <2>4. Works(o, HashKeys, n)
      BY HashStoredWorks
    <2> HIDE DEF call, ret, failed
    <2>5. CASE Hset(n, k, v, f) = Return(-1)
      BY <2>3, <2>5, ReturnWorks, OtherTransact
    <2>6. CASE Hset(n, k, v, f) = o
      <3>1. Transact(call, o, f)
        BY <2>3, <2>6
      <3>2. QED
        BY ONLY IInv, <2>3, <2>4, <3>1, HashStoredTransact
    <2>7. QED
      BY <2>2, <2>5, <2>6
  <1>2. CASE HashDel
    <2>1. PICK n, k, f : Operation(<<"hdel", n, k>>, Hdel(n, k, f), f)
      BY <1>2 DEF HashDel
    <2>2. QED
      BY <2>1, HdelTransact DEF Operation
  <1>3. CASE HashIncr
    <2>1. PICK n, k, by, f : Operation(<<"hincr", n, k, by>>, Hincr(n, k, by, f), f)
      BY <1>3 DEF HashIncr
    <2> DEFINE call == <<"hincr", n, k, by>>
               failed == f = "again"
               sum == Addend(HashKey(n, k)) + by
               s == HashStored(n, k, sum, failed, 1, f)
               o == [s EXCEPT !.item = sum]
               r == Hincr(n, k, by, f)
    <2>2. r = Return(-1) \/ r = Return(0) \/ r = o
      BY DEF Hincr
    <2>3. Operation(call, r, f) /\ Transact(call, r, f) /\ orphaned' = orphaned
      BY <2>1 DEF Operation
    <2>4. Works(s, HashKeys, n)
      BY HashStoredWorks
    <2>5. s = [commits |-> s.commits, batch |-> s.batch, logs |-> s.logs, ret |-> s.ret,
               item |-> s.item, misread |-> s.misread]
      BY StoredRecord
    <2> HIDE DEF call, failed, sum, s, r
    <2>6. Works(o, HashKeys, n) /\ o.batch = s.batch /\ o.misread = s.misread
      BY <2>4, <2>5, ItemWorks
    <2> HIDE DEF o
    <2>7. CASE r = Return(-1) \/ r = Return(0)
      BY <2>3, <2>7, ReturnWorks, OtherTransact
    <2>8. CASE r = o
      <3>1. Transact(call, o, f)
        BY <2>3, <2>8
      <3>2. QED
        BY ONLY IInv, <2>3, <2>6, <3>1, HashStoredTransact DEF s
    <2>9. QED
      BY <2>2, <2>7, <2>8
  <1>4. CASE \E f : HclearDel(f)
    <2>1. PICK f : HclearDel(f)
      BY <1>4
    <2>2. \E k : Transact(<<"hdel", clearing.name, k>>, Hdel(clearing.name, k, f), f)
      BY <2>1 DEF HclearDel
    <2>3. orphaned' = orphaned
      BY <2>1 DEF HclearDel
    <2>4. QED
      BY <2>2, <2>3, HdelTransact
  <1>5. QED
    BY <1>1, <1>2, <1>3, <1>4

\* A sorted set operation whose batch keeps the set right.
LEMMA ZsetTransact ==
    ASSUME IInv, NEW call, NEW o, NEW f, Transact(call, o, f), orphaned' = orphaned,
           NEW n, Works(o, ZsetKeys, n),
           n \in ZNames /\ o.commits /\ ChangesBy(o.batch) /\ Frame(ZsetKeys, n)
             /\ misread' = misread \cup o.misread => ZsetRight(n)'
    PROVE  IInv'
  <1>1. \/ db' = db /\ misread' = misread
        \/ /\ o.commits /\ ChangesBy(o.batch)
           /\ misread' = misread \cup o.misread /\ Frame(ZsetKeys, n)
    BY TransactFrame DEF IInv
  <1>2. CASE db' = db /\ misread' = misread
    BY <1>2, SameStep
  <1>3. CASE /\ o.commits /\ ChangesBy(o.batch)
             /\ misread' = misread \cup o.misread /\ Frame(ZsetKeys, n)
    BY <1>3, ZsetStep
  <1>4. QED
    BY <1>1, <1>2, <1>3

LEMMA ScoreStoredTransact ==
    ASSUME IInv, NEW call, NEW n, NEW k, NEW score, NEW failed, NEW ret, NEW f, NEW o,
           LET s == ScoreStored(n, k, score, failed, ret, f)
           IN Works(o, ZsetKeys, n) /\ o.batch = s.batch /\ o.misread = s.misread,
           Transact(call, o, f), orphaned' = orphaned
    PROVE  IInv'
  <1> DEFINE s == ScoreStored(n, k, score, failed, ret, f)
  <1>1. Works(o, ZsetKeys, n) /\ o.batch = s.batch /\ o.misread = s.misread
    OBVIOUS
  <1> HIDE DEF s
  <1>2. ASSUME n \in ZNames, ChangesBy(o.batch), Frame(ZsetKeys, n),
               misread' = misread \cup o.misread
        PROVE  ZsetRight(n)'
    <2>1. WellFormed(db) /\ ZsetRight(n) /\ ChangesBy(s.batch) /\ misread' = misread \cup s.misread
      BY <1>1, <1>2 DEF IInv
    <2>2. QED
      BY <1>2, <2>1, ScoreStoredRight DEF s
  <1>3. QED
    BY <1>1, <1>2, ZsetTransact

LEMMA ZsetSteps == IInv /\ (ZsetSet \/ ZsetDel \/ ZsetIncr) => IInv'
  <1> SUFFICES ASSUME IInv, ZsetSet \/ ZsetDel \/ ZsetIncr PROVE IInv'
    OBVIOUS
  <1>1. CASE ZsetSet
    <2>1. PICK n, k, score, f : Operation(<<"zset", n, k, score>>, Zset1(n, k, score, f), f)
      BY <1>1 DEF ZsetSet
    <2> DEFINE call == <<"zset", n, k, score>>
               failed == f = "entry"
               ret == ZsetOne(n, k, score, failed).new
               o == ScoreStored(n, k, score, failed, ret, f)
               r == Zset1(n, k, score, f)
    <2>2. r = Return(-1) \/ r = Commit(<<>>, <<>>, 0) \/ r = o
      BY DEF Zset1
    <2>3. Operation(call, r, f) /\ Transact(call, r, f) /\ orphaned' = orphaned
      BY <2>1 DEF Operation
    <2>4. Works(o, ZsetKeys, n)
      BY ScoreStoredWorks
    <2> HIDE DEF call, ret, failed, r
    <2>5. CASE r = Return(-1) \/ r = Commit(<<>>, <<>>, 0)
      BY <2>3, <2>5, ReturnWorks, NothingWorks, OtherTransact
    <2>6. CASE r = o
      <3>1. Transact(call, o, f)
        BY <2>3, <2>6
      <3>2. QED
        BY ONLY IInv, <2>3, <2>4, <3>1, ScoreStoredTransact
    <2>7. QED
      BY <2>2, <2>5, <2>6
  <1>2. CASE ZsetDel
    <2>1. PICK n, k, f : Operation(<<"zdel", n, k>>, Zdel(n, k, f), f)
      BY <1>2 DEF ZsetDel
    <2> DEFINE call == <<"zdel", n, k>>
               o == Zdel(n, k, f)
    <2>2. Transact(call, o, f) /\ orphaned' = orphaned
      BY <2>1 DEF Operation
    <2>3. ASSUME n \in ZNames, o.commits, ChangesBy(o.batch), Frame(ZsetKeys, n),
                 misread' = misread \cup o.misread
          PROVE  ZsetRight(n)'
      BY <2>3, ZdelRight DEF IInv
    <2>4. Works(o, ZsetKeys, n)
      BY ZdelWorks
    <2> HIDE DEF o, call
    <2>5. QED
      BY <2>2, <2>3, <2>4, ZsetTransact
  <1>3. CASE ZsetIncr
    <2>1. PICK n, k, by, f : Operation(<<"zincr", n, k, by>>, Zincr(n, k, by, f), f)
      BY <1>3 DEF ZsetIncr
    <2> DEFINE call == <<"zincr", n, k, by>>
               failed == f = "again"
               score == Addend(ZsetKey(n, k)) + by
               s == ScoreStored(n, k, score, failed, 1, f)
               o == [s EXCEPT !.item = score]
               z == Commit(<<>>, <<>>, 1)
               y == [z EXCEPT !.item = score]
               r == Zincr(n, k, by, f)
    <2>2. r = Return(-1) \/ r = y \/ r = o
      BY DEF Zincr
    <2>3. Operation(call, r, f) /\ Transact(call, r, f) /\ orphaned' = orphaned
      BY <2>1 DEF Operation
    <2>4. Works(s, ZsetKeys, n) /\ Works(z, {}, Nothing)
      BY ScoreStoredWorks, NothingWorks
    <2>5. /\ s = [commits |-> s.commits, batch |-> s.batch, logs |-> s.logs, ret |-> s.ret,
                  item |-> s.item, misread |-> s.misread]
          /\ z = [commits |-> z.commits, batch |-> z.batch, logs |-> z.logs, ret |-> z.ret,
                  item |-> z.item, misread |-> z.misread]
      BY StoredRecord DEF Commit
    <2> HIDE DEF call, failed, score, s, r, z
    <2>6. Works(o, ZsetKeys, n) /\ o.batch = s.batch /\ o.misread = s.misread
      BY <2>4, <2>5, ItemWorks
    <2>7. Works(y, {}, Nothing)
      BY <2>4, <2>5, ItemWorks
    <2> HIDE DEF o, y
    <2>8. CASE r = Return(-1) \/ r = y
      BY <2>3, <2>7, <2>8, ReturnWorks, OtherTransact
    <2>9. CASE r = o
      <3>1. Transact(call, o, f)
        BY <2>3, <2>9
      <3>2. QED
        BY ONLY IInv, <2>3, <2>6, <3>1, ScoreStoredTransact DEF s
    <2>10. QED
      BY <2>2, <2>8, <2>9
  <1>4. QED
    BY <1>1, <1>2, <1>3

-----------------------------------------------------------------------------
(* Hclear, kills and the cleaning thread.                                  *)

LEMMA CleanSteps ==
    ASSUME IInv, (\E n : HclearBegin(n)) \/ HclearAgain \/ HclearEnd
                 \/ Restart \/ CleanBegin \/ (\E f : CleanChunk(f)) \/ CleanEnd
    PROVE  IInv'
  <1>1. CASE \E f : CleanChunk(f)
    <2>1. PICK f : CleanChunk(f)
      BY <1>1
    <2>2. misread' = misread /\ orphaned' = orphaned
      BY <2>1 DEF CleanChunk
    <2> DEFINE B == [i \in 1 .. Min({cleaning.end, cleaning.start + Chunk - 1}) - cleaning.start + 1 |->
                       Delete(SeqKey(cleaning.start + i - 1))]
    <2>3. db' = db \/ db' = Applied(B)
      BY <2>1 DEF CleanChunk
    <2>4. CASE db' = db
      BY <2>2, <2>4, SameStep
    <2>5. CASE db' = Applied(B)
      <3>1. \A i \in DOMAIN B : \E s : B[i].key = SeqKey(s)
        BY DEF Delete
      <3> HIDE DEF B
      <3>2. \A s : SeqKey(s)[1] = SYNCLOG
        BY DEF SeqKey
      <3>3. \A x : x[1] # SYNCLOG => Untouched(B, x)
        BY <3>1, <3>2 DEF Untouched
      <3>4. \A x : x[1] # SYNCLOG => Stays(x)
        BY <2>5, <3>3, AppliedUntouched DEF Stays
      <3>5. \A x \in DOMAIN db' : x \in DOMAIN db \/ \E s : x = SeqKey(s)
        BY <2>5, <3>1, AppliedDomain DEF Untouched
      <3>6. WellFormed(db')
        BY <3>5, KeysShaped DEF IInv, WellFormed
      <3>7. Frame({}, Nothing)
        BY <3>4, <3>6, TypesDiffer DEF Frame
      <3>8. QED
        BY <2>2, <3>7, OtherStep
    <2>6. QED
      BY <2>3, <2>4, <2>5
  <1>2. CASE ~\E f : CleanChunk(f)
    <2>1. db' = db /\ misread' = misread /\ orphaned' = orphaned
      BY <1>2 DEF HclearBegin, HclearAgain, HclearEnd, Restart, CleanBegin, CleanEnd
    <2>2. QED
      BY <2>1, SameStep
  <1>3. QED
    BY <1>1, <1>2

-----------------------------------------------------------------------------
(* Queues.                                                                 *)

LEMMA ThreeParts ==
    ASSUME NEW types, NEW n, NEW A, NEW B, NEW C,
           Batch(A, types, n), Batch(B, types, n), Batch(C, types, n)
    PROVE  LET T == (A \o B) \o C
           IN /\ Batch(T, types, n)
              /\ \A x : Untouched(A, x) /\ Untouched(B, x) /\ Untouched(C, x) => Untouched(T, x)
              /\ \A x, e : Writes(C, x, e) => Writes(T, x, e)
              /\ \A x, e : Writes(B, x, e) /\ Untouched(C, x) => Writes(T, x, e)
              /\ \A x, e : Writes(A, x, e) /\ Untouched(B, x) /\ Untouched(C, x) => Writes(T, x, e)
  <1> DEFINE D == A \o B  T == D \o C
  <1>1. Batch(A, types, n) /\ Batch(B, types, n) /\ Batch(C, types, n)
    OBVIOUS
  <1>2. Batch(D, types, n)
    BY ONLY <1>1, ConcatIsBatch, Zenon
  <1>3. \A x : Untouched(A, x) /\ Untouched(B, x) => Untouched(D, x)
    BY ONLY <1>1, ConcatIsBatch, Zenon
  <1>4. \A x, e : Writes(A, x, e) /\ Untouched(B, x) => Writes(D, x, e)
    BY ONLY <1>1, ConcatIsBatch, Zenon
  <1>5. \A x, e : Writes(B, x, e) => Writes(D, x, e)
    BY ONLY <1>1, ConcatIsBatch, Zenon
  <1> HIDE DEF D
  <1>6. Batch(T, types, n)
    BY ONLY <1>1, <1>2, ConcatIsBatch, Zenon
  <1>7. \A x : Untouched(D, x) /\ Untouched(C, x) => Untouched(T, x)
    BY ONLY <1>1, <1>2, ConcatIsBatch, Zenon
  <1>8. \A x, e : Writes(D, x, e) /\ Untouched(C, x) => Writes(T, x, e)
    BY ONLY <1>1, <1>2, ConcatIsBatch, Zenon
  <1>9. \A x, e : Writes(C, x, e) => Writes(T, x, e)
    BY ONLY <1>1, <1>2, ConcatIsBatch, Zenon
  <1> HIDE DEF T
  <1>10. \A x, e : Writes(A, x, e) /\ Untouched(B, x) /\ Untouched(C, x) => Writes(T, x, e)
    BY ONLY <1>4, <1>8
  <1>11. \A x, e : Writes(B, x, e) /\ Untouched(C, x) => Writes(T, x, e)
    BY ONLY <1>5, <1>8
  <1>12. \A x : Untouched(A, x) /\ Untouched(B, x) /\ Untouched(C, x) => Untouched(T, x)
    BY ONLY <1>3, <1>7
  <1>13. QED
    BY <1>6, <1>9, <1>10, <1>11, <1>12 DEF D, T

Becomes(x, v) == x \in DOMAIN db' /\ db'[x] = v

Gone(x) == x \notin DOMAIN db'

LEMMA BatchWrites ==
    ASSUME NEW B, ChangesBy(B), NEW x, x[1] # SYNCLOG
    PROVE  /\ \A v : Writes(B, x, Put(x, v)) => Becomes(x, v)
           /\ Writes(B, x, Delete(x)) => Gone(x)
           /\ Untouched(B, x) => Stays(x)
  <1>1. ASSUME NEW v, Writes(B, x, Put(x, v)) PROVE Becomes(x, v)
    <2> DEFINE e == Put(x, v)
    <2>1. e.keep = TRUE /\ e.value = v /\ Writes(B, x, e)
      BY <1>1 DEF Put
    <2> HIDE DEF e
    <2>2. QED
      BY <2>1 DEF ChangesBy, Becomes
  <1>2. ASSUME Writes(B, x, Delete(x)) PROVE Gone(x)
    <2> DEFINE e == Delete(x)
    <2>1. e.keep = FALSE /\ Writes(B, x, e)
      BY <1>2 DEF Delete
    <2> HIDE DEF e
    <2>2. QED
      BY <2>1 DEF ChangesBy, Gone
  <1>3. QED
    BY <1>1, <1>2 DEF ChangesBy

LEMMA QueueKeysAt ==
    ASSUME NEW n
    PROVE  /\ \A s : s \in Places => Shaped(QItemKey(n, s))
           /\ \A s : /\ QItemKey(n, s)[1] \in QueueKeys /\ QItemKey(n, s)[2] = n
                     /\ QItemKey(n, s)[1] # SYNCLOG /\ QItemKey(n, s) # QSizeKey(n)
           /\ Shaped(QSizeKey(n)) /\ QSizeKey(n)[1] \in QueueKeys /\ QSizeKey(n)[2] = n
           /\ QSizeKey(n)[1] # SYNCLOG
           /\ \A s, t : s # t => QItemKey(n, s) # QItemKey(n, t)
  BY KeysShaped DEF QItemKey, QSizeKey, QueueKeys, QUEUE, QSIZE, SYNCLOG

LEMMA PlacesDiffer ==
    /\ QFRONT # QBACK /\ QFRONT \in Places /\ QBACK \in Places /\ 0 \in Places \ Ends
    /\ \A s \in QMin + 1 .. QMax : s \in Places \ Ends /\ s \in Int /\ s # QFRONT /\ s # QBACK
    /\ QInit \in QMin + 1 .. QMax /\ QMin \in Nat /\ QMax \in Nat
  <1>1. \A s \in QMin + 1 .. QMax : s \in Int /\ s > 4
    BY SsdbAssumption
  <1>2. QInit \in QMin + 1 .. QMax /\ QMin \in Nat /\ QMax \in Nat
    BY SsdbAssumption
  <1>3. \A s \in QMin + 1 .. QMax : s \in Int /\ s # QFRONT /\ s # QBACK
    BY <1>1 DEF QFRONT, QBACK
  <1>4. \A s \in QMin + 1 .. QMax : s \in Places \ Ends
    BY <1>3 DEF Places, Ends
  <1>5. QED
    BY <1>2, <1>3, <1>4 DEF Places, Ends, QFRONT, QBACK

\* The store after an operation that leaves a queue with entries.
LEMMA QueueFilled ==
    ASSUME NEW n, NEW a \in QMin + 1 .. QMax, NEW b \in QMin + 1 .. QMax,
           NEW size \in 1 .. b - a + 1,
           Becomes(QItemKey(n, QFRONT), a), Becomes(QItemKey(n, QBACK), b),
           Becomes(QSizeKey(n), size)
    PROVE  /\ QueueEnds(n)'
           /\ size = b - a + 1
                /\ (\A s \in Places \ Ends : QItemKey(n, s) \in DOMAIN db' <=> s \in a .. b)
                => QueueRight(n)'
  <1>1. Sequence(n, QFRONT)' = a /\ Sequence(n, QBACK)' = b /\ QSize(n)' = size
    BY DEF Sequence, QSize, Becomes
  <1>2. QueueEnds(n)'
    BY <1>1 DEF QueueEnds, Becomes
  <1>3. QED
    BY <1>1, <1>2 DEF QueueRight, Becomes

\* The store after an operation that leaves it with none.
LEMMA QueueEmptied ==
    ASSUME NEW n, Gone(QItemKey(n, QFRONT)), Gone(QItemKey(n, QBACK)), Gone(QSizeKey(n))
    PROVE  /\ QueueEnds(n)'
           /\ (\A s \in Places \ Ends : Gone(QItemKey(n, s))) => QueueRight(n)'
  BY DEF QueueEnds, QueueRight, Gone

\* A queue operation whose batch keeps the queue right.
LEMMA QueueTransact ==
    ASSUME IInv, NEW call, NEW o, NEW f, Transact(call, o, f), orphaned \subseteq orphaned',
           NEW n \in QNames, Works(o, QueueKeys, n),
           o.commits /\ f # "write" /\ ChangesBy(o.batch)
             => QueueEnds(n)' /\ (n \notin orphaned' => QueueRight(n)')
    PROVE  IInv'
  <1>1. \/ db' = db /\ misread' = misread
        \/ /\ o.commits /\ f # "write" /\ ChangesBy(o.batch)
           /\ misread' = misread \cup o.misread /\ Frame(QueueKeys, n)
    BY TransactFrame DEF IInv
  <1>2. CASE db' = db /\ misread' = misread
    BY <1>2, SameStep
  <1>3. CASE /\ o.commits /\ f # "write" /\ ChangesBy(o.batch)
             /\ misread' = misread \cup o.misread /\ Frame(QueueKeys, n)
    BY <1>3, QueueStep
  <1>4. QED
    BY <1>1, <1>2, <1>3

LEMMA QueueValues ==
    ASSUME NEW n, QueueEnds(n)
    PROVE  IF QSizeKey(n) \in DOMAIN db
           THEN /\ QItemKey(n, QFRONT) \in DOMAIN db /\ QItemKey(n, QBACK) \in DOMAIN db
                /\ Sequence(n, QFRONT) \in QMin + 1 .. QMax
                /\ Sequence(n, QBACK) \in QMin + 1 .. QMax
                /\ QSize(n) \in 1 .. Sequence(n, QBACK) - Sequence(n, QFRONT) + 1
                /\ db[QItemKey(n, QFRONT)] = Sequence(n, QFRONT)
                /\ db[QItemKey(n, QBACK)] = Sequence(n, QBACK)
                /\ db[QSizeKey(n)] = QSize(n)
           ELSE /\ QItemKey(n, QFRONT) \notin DOMAIN db /\ QItemKey(n, QBACK) \notin DOMAIN db
                /\ Sequence(n, QFRONT) = 0 /\ Sequence(n, QBACK) = 0 /\ QSize(n) = 0
  BY DEF QueueEnds, Sequence, QSize

\* An item is pushed onto an empty queue.
LEMMA QpushFirst ==
    ASSUME IInv, NEW n \in QNames, QSizeKey(n) \notin DOMAIN db, NEW item,
           NEW B, ChangesBy(B),
           B = (<<Put(QItemKey(n, QFRONT), QInit), Put(QItemKey(n, QBACK), QInit)>>
                  \o <<Put(QItemKey(n, QInit), item)>>) \o <<Put(QSizeKey(n), 1)>>
    PROVE  /\ QueueEnds(n)' /\ (n \notin orphaned => QueueRight(n)')
           /\ Becomes(QItemKey(n, QFRONT), QInit) /\ Becomes(QItemKey(n, QBACK), QInit)
           /\ Becomes(QItemKey(n, QInit), item)
  <1> DEFINE F == QItemKey(n, QFRONT)  K == QItemKey(n, QBACK)  x == QItemKey(n, QInit)
             c == QSizeKey(n)
             p == Put(F, QInit)  q == Put(K, QInit)  r == Put(x, item)  z == Put(c, 1)
  <1>1. p.key = F /\ q.key = K /\ r.key = x /\ z.key = c
    BY DEF Put
  <1>2. F # K /\ x # F /\ x # K /\ F # c /\ K # c /\ x # c
    BY PlacesDiffer, QueueKeysAt
  <1>3. F[1] # SYNCLOG /\ K[1] # SYNCLOG /\ x[1] # SYNCLOG /\ c[1] # SYNCLOG
    BY QueueKeysAt
  <1>4. /\ Batch(<<p>>, QueueKeys, n) /\ Batch(<<q>>, QueueKeys, n)
        /\ Batch(<<r>>, QueueKeys, n) /\ Batch(<<z>>, QueueKeys, n)
    <2> HIDE DEF p, q, r, z
    <2>1. QED
      BY <1>1, PlacesDiffer, QueueKeysAt, OneIsBatch
  <1>5. ChangesBy((<<p, q>> \o <<r>>) \o <<z>>)
    OBVIOUS
  <1>6. /\ p = Put(F, QInit) /\ q = Put(K, QInit) /\ r = Put(x, item) /\ z = Put(c, 1)
    OBVIOUS
  <1> HIDE DEF p, q, r, z
  <1>7. Batch(<<p, q>>, QueueKeys, n)
    BY <1>4, TwoIsBatch
  <1>8. /\ Writes(<<p, q>>, F, p) /\ Writes(<<p, q>>, K, q)
        /\ \A y : y # F /\ y # K => Untouched(<<p, q>>, y)
        /\ Writes(<<r>>, x, r) /\ \A y : y # x => Untouched(<<r>>, y)
        /\ Writes(<<z>>, c, z) /\ \A y : y # c => Untouched(<<z>>, y)
    BY <1>1, <1>2, OneBatch, TwoBatch
  <1> DEFINE T == (<<p, q>> \o <<r>>) \o <<z>>
  <1>9. /\ \A y : Untouched(<<p, q>>, y) /\ Untouched(<<r>>, y) /\ Untouched(<<z>>, y)
                    => Untouched(T, y)
        /\ \A y, e : Writes(<<z>>, y, e) => Writes(T, y, e)
        /\ \A y, e : Writes(<<r>>, y, e) /\ Untouched(<<z>>, y) => Writes(T, y, e)
        /\ \A y, e : Writes(<<p, q>>, y, e) /\ Untouched(<<r>>, y) /\ Untouched(<<z>>, y)
                       => Writes(T, y, e)
    BY <1>4, <1>7, ThreeParts
  <1> HIDE DEF T
  <1>10. /\ Writes(T, F, Put(F, QInit)) /\ Writes(T, K, Put(K, QInit))
         /\ Writes(T, x, Put(x, item)) /\ Writes(T, c, Put(c, 1))
         /\ \A y : y # F /\ y # K /\ y # x /\ y # c => Untouched(T, y)
    BY <1>2, <1>6, <1>8, <1>9
  <1>11. ChangesBy(T)
    BY <1>5 DEF T
  <1>12. /\ Becomes(F, QInit) /\ Becomes(K, QInit) /\ Becomes(x, item) /\ Becomes(c, 1)
         /\ \A y : y[1] # SYNCLOG /\ y # F /\ y # K /\ y # x /\ y # c => Stays(y)
    <2> HIDE DEF F, K, x, c
    <2>1. QED
      BY <1>3, <1>10, <1>11, BatchWrites
  <1>13. QInit \in QMin + 1 .. QMax /\ QInit - QInit + 1 = 1 /\ 1 \in 1 .. QInit - QInit + 1
    BY PlacesDiffer
  <1>14. ASSUME n \notin orphaned, NEW s \in Places \ Ends
         PROVE  QItemKey(n, s) \in DOMAIN db' <=> s \in QInit .. QInit
    <2>1. QItemKey(n, s) \notin DOMAIN db
      BY <1>14 DEF IInv, QueueRight
    <2>2. CASE s = QInit
      BY <1>12, <1>13, <2>2 DEF Becomes
    <2>3. CASE s # QInit
      <3>1. Stays(QItemKey(n, s))
        BY <1>12, <1>14, <2>3, QueueKeysAt DEF Ends
      <3>2. s \notin QInit .. QInit
        BY <1>13, <2>3
      <3>3. QED
        BY <2>1, <3>1, <3>2 DEF Stays
    <2>4. QED
      BY <2>2, <2>3
  <1>15. QED
    BY <1>12, <1>13, <1>14, QueueFilled

\* An item is pushed next to one of the ends.
LEMMA QpushNext ==
    ASSUME IInv, NEW n \in QNames, QSizeKey(n) \in DOMAIN db, NEW item, NEW end \in Ends,
           NEW seq, seq = Sequence(n, end) + (IF end = QFRONT THEN -1 ELSE 1),
           ~(seq <= QMin), ~(seq >= QMax), NEW B, ChangesBy(B),
           B = (<<Put(QItemKey(n, end), seq)>> \o <<Put(QItemKey(n, seq), item)>>)
                 \o <<Put(QSizeKey(n), QSize(n) + 1)>>
    PROVE  /\ QueueEnds(n)' /\ (n \notin orphaned => QueueRight(n)')
           /\ Becomes(QItemKey(n, end), seq) /\ Becomes(QItemKey(n, seq), item)
           /\ \A y : /\ y[1] # SYNCLOG /\ y # QSizeKey(n)
                    /\ y # QItemKey(n, end) /\ y # QItemKey(n, seq) => Stays(y)
  <1> DEFINE E == QItemKey(n, end)  x == QItemKey(n, seq)  c == QSizeKey(n)
             front == Sequence(n, QFRONT)  back == Sequence(n, QBACK)  size == QSize(n)
             p == Put(E, seq)  r == Put(x, item)  z == Put(c, size + 1)
  <1>1. p.key = E /\ r.key = x /\ z.key = c
    BY DEF Put
  <1>2. /\ front \in QMin + 1 .. QMax /\ back \in QMin + 1 .. QMax
        /\ size \in 1 .. back - front + 1
        /\ QItemKey(n, QFRONT) \in DOMAIN db /\ db[QItemKey(n, QFRONT)] = front
        /\ QItemKey(n, QBACK) \in DOMAIN db /\ db[QItemKey(n, QBACK)] = back
    BY QueueValues DEF IInv
  <1>3. (end = QFRONT /\ seq = front - 1) \/ (end = QBACK /\ seq = back + 1)
    BY DEF Ends, QFRONT, QBACK
  <1>4. seq \in QMin + 1 .. QMax
    BY <1>2, <1>3, PlacesDiffer
  <1>5. /\ x # E /\ x # c /\ E # c
        /\ E[1] # SYNCLOG /\ x[1] # SYNCLOG /\ c[1] # SYNCLOG
        /\ \A y : y # end => QItemKey(n, y) # E
        /\ \A y : y # seq => QItemKey(n, y) # x
        /\ \A y : QItemKey(n, y) # c /\ QItemKey(n, y)[1] # SYNCLOG
    BY <1>3, <1>4, PlacesDiffer, QueueKeysAt
  <1>6. Batch(<<p>>, QueueKeys, n) /\ Batch(<<r>>, QueueKeys, n) /\ Batch(<<z>>, QueueKeys, n)
    <2> HIDE DEF p, r, z
    <2>1. QED
      BY <1>1, <1>3, <1>4, PlacesDiffer, QueueKeysAt, OneIsBatch
  <1>7. ChangesBy((<<p>> \o <<r>>) \o <<z>>)
    OBVIOUS
  <1>8. p = Put(E, seq) /\ r = Put(x, item) /\ z = Put(c, size + 1)
    OBVIOUS
  <1> HIDE DEF p, r, z
  <1>9. /\ Writes(<<p>>, E, p) /\ \A y : y # E => Untouched(<<p>>, y)
        /\ Writes(<<r>>, x, r) /\ \A y : y # x => Untouched(<<r>>, y)
        /\ Writes(<<z>>, c, z) /\ \A y : y # c => Untouched(<<z>>, y)
    BY <1>1, OneBatch
  <1> DEFINE T == (<<p>> \o <<r>>) \o <<z>>
  <1>10. /\ \A y : Untouched(<<p>>, y) /\ Untouched(<<r>>, y) /\ Untouched(<<z>>, y)
                    => Untouched(T, y)
         /\ \A y, e : Writes(<<z>>, y, e) => Writes(T, y, e)
         /\ \A y, e : Writes(<<r>>, y, e) /\ Untouched(<<z>>, y) => Writes(T, y, e)
         /\ \A y, e : Writes(<<p>>, y, e) /\ Untouched(<<r>>, y) /\ Untouched(<<z>>, y)
                        => Writes(T, y, e)
    BY <1>6, ThreeParts
  <1> HIDE DEF T
  <1>11. /\ Writes(T, E, Put(E, seq)) /\ Writes(T, x, Put(x, item)) /\ Writes(T, c, Put(c, size + 1))
         /\ \A y : y # E /\ y # x /\ y # c => Untouched(T, y)
    BY <1>5, <1>8, <1>9, <1>10
  <1>12. ChangesBy(T)
    BY <1>7 DEF T
  <1> HIDE DEF E, x, c, front, back, size
  <1>13. /\ Becomes(E, seq) /\ Becomes(x, item) /\ Becomes(c, size + 1)
         /\ \A y : y[1] # SYNCLOG /\ y # E /\ y # x /\ y # c => Stays(y)
    BY <1>5, <1>11, <1>12, BatchWrites
  <1> DEFINE a == IF end = QFRONT THEN seq ELSE front
             b == IF end = QFRONT THEN back ELSE seq
  <1>14. Becomes(QItemKey(n, QFRONT), a) /\ Becomes(QItemKey(n, QBACK), b)
    <2>1. \A y \in Ends : y # end => Stays(QItemKey(n, y))
      <3>1. \A y \in Ends : y # seq
        BY <1>4, PlacesDiffer DEF Ends
      <3>2. QED
        BY <1>5, <1>13, <3>1
    <2>2. CASE end = QFRONT
      BY <1>2, <1>13, <2>1, <2>2, PlacesDiffer DEF Ends, Becomes, Stays, E
    <2>3. CASE end = QBACK
      BY <1>2, <1>13, <2>1, <2>3, PlacesDiffer DEF Ends, Becomes, Stays, E
    <2>4. QED
      BY <1>3, <2>2, <2>3
  <1>15. /\ a \in QMin + 1 .. QMax /\ b \in QMin + 1 .. QMax /\ size + 1 \in 1 .. b - a + 1
         /\ size = back - front + 1 => size + 1 = b - a + 1
         /\ \A s \in Int : s # seq => (s \in a .. b <=> s \in front .. back)
         /\ seq \in a .. b
    <2>1. CASE end = QFRONT
      BY <1>2, <1>3, <1>4, <2>1, PlacesDiffer
    <2>2. CASE end # QFRONT
      BY <1>2, <1>3, <1>4, <2>2, PlacesDiffer
    <2>3. QED
      BY <2>1, <2>2
  <1> HIDE DEF a, b
  <1>16. QueueEnds(n)' /\ (size + 1 = b - a + 1 /\ (\A s \in Places \ Ends :
             QItemKey(n, s) \in DOMAIN db' <=> s \in a .. b) => QueueRight(n)')
    BY <1>13, <1>14, <1>15, QueueFilled DEF c
  <1>17. ASSUME n \notin orphaned PROVE QueueRight(n)'
    <2>1. /\ size = back - front + 1
          /\ \A s \in Places \ Ends : QItemKey(n, s) \in DOMAIN db <=> s \in front .. back
      BY <1>17 DEF IInv, QueueRight, size, front, back
    <2>2. ASSUME NEW s \in Places \ Ends
          PROVE  QItemKey(n, s) \in DOMAIN db' <=> s \in a .. b
      <3>1. CASE s = seq
        BY <1>13, <1>15, <3>1 DEF Becomes, x
      <3>2. CASE s # seq
        <4>1. Stays(QItemKey(n, s))
          BY <1>3, <1>5, <1>13, <2>2, <3>2 DEF Ends
        <4>2. s \in Int
          BY PlacesDiffer DEF Places, QFRONT, QBACK
        <4>3. QED
          BY <1>15, <2>1, <3>2, <4>1, <4>2 DEF Stays
      <3>3. QED
        BY <3>1, <3>2
    <2>3. QED
      BY <1>15, <1>16, <2>1, <2>2
  <1>18. \A s : s # end /\ s # seq => Stays(QItemKey(n, s))
    BY <1>5, <1>13
  <1>19. QED
    BY <1>13, <1>16, <1>17, <1>18 DEF E, x, c

LEMMA ItemIsBatch ==
    ASSUME NEW n, NEW v
    PROVE  /\ \A s \in Places : /\ Batch(<<Put(QItemKey(n, s), v)>>, QueueKeys, n)
                               /\ Batch(<<Delete(QItemKey(n, s))>>, QueueKeys, n)
           /\ Batch(<<Put(QSizeKey(n), v)>>, QueueKeys, n)
           /\ Batch(<<Delete(QSizeKey(n))>>, QueueKeys, n)
  <1>1. ASSUME NEW x, Shaped(x), x[1] \in QueueKeys, x[2] = n
        PROVE  Batch(<<Put(x, v)>>, QueueKeys, n) /\ Batch(<<Delete(x)>>, QueueKeys, n)
    <2> DEFINE p == Put(x, v)  d == Delete(x)
    <2>1. p.key = x /\ d.key = x
      BY DEF Put, Delete
    <2> HIDE DEF p, d
    <2>2. Batch(<<p>>, QueueKeys, n) /\ Batch(<<d>>, QueueKeys, n)
      BY <1>1, <2>1, OneIsBatch
    <2>3. QED
      BY <2>2 DEF p, d
  <1>2. QED
    BY <1>1, QueueKeysAt

LEMMA SizesBatch ==
    ASSUME NEW n, NEW by
    PROVE  Batch(IncrQSize(n, by), QueueKeys, n)
  <1> DEFINE d == Delete(QSizeKey(n))  p == Delete(QItemKey(n, QFRONT))
             q == Delete(QItemKey(n, QBACK))  z == Put(QSizeKey(n), QSize(n) + by)
  <1>1. /\ Batch(<<d>>, QueueKeys, n) /\ Batch(<<p>>, QueueKeys, n)
        /\ Batch(<<q>>, QueueKeys, n) /\ Batch(<<z>>, QueueKeys, n)
    BY ItemIsBatch, PlacesDiffer
  <1>2. d.key # p.key /\ d.key # q.key /\ p.key # q.key
    BY PlacesDiffer, QueueKeysAt DEF Delete
  <1>3. IncrQSize(n, by) = <<d, p, q>> \/ IncrQSize(n, by) = <<z>>
    BY DEF IncrQSize
  <1> HIDE DEF d, p, q, z
  <1>4. IsSeq(<<d, p, q>>)
    BY <1>2, ThreeBatch, SeqIsSeq
  <1>5. OnlyAt(<<d, p, q>>, QueueKeys, n)
    BY <1>1, <1>2, OneBatch, ThreeBatch DEF Batch, OnlyAt, Untouched
  <1>6. QED
    BY <1>1, <1>3, <1>4, <1>5 DEF Batch

LEMMA QueuePushStep == IInv /\ QueuePush => IInv'
  <1> SUFFICES ASSUME IInv, QueuePush PROVE IInv'
    OBVIOUS
  <1>1. PICK n \in QNames, item \in Values, end \in Ends, f \in Faults({"entry", "size", "write"}) :
            Operation(<<"qpush", n, item, end>>, Qpush(n, item, end, f), f)
    BY DEF QueuePush
  <1> DEFINE call == <<"qpush", n, item, end>>
             new == QItemKey(n, end) \notin DOMAIN db
             seq == IF new THEN QInit
                    ELSE Sequence(n, end) + (IF end = QFRONT THEN -1 ELSE 1)
             ends == IF new THEN <<Put(QItemKey(n, QFRONT), seq), Put(QItemKey(n, QBACK), seq)>>
                     ELSE <<Put(QItemKey(n, end), seq)>>
             cmd == IF end = QFRONT THEN "QPUSH_FRONT" ELSE "QPUSH_BACK"
             B == (ends \o <<Put(QItemKey(n, seq), item)>>) \o IncrQSize(n, 1)
             L == <<Log(cmd, QItemKey(n, seq))>>
             o == Commit(B, L, QSize(n) + 1)
             r == Qpush(n, item, end, f)
  <1>2. \/ r = Return(-1)
        \/ ~(seq <= QMin) /\ ~(seq >= QMax) /\ r = o
    BY DEF Qpush
  <1>3. Operation(call, r, f) /\ Transact(call, r, f) /\ orphaned' = orphaned
    BY <1>1 DEF Operation
  <1> HIDE DEF call, r
  <1>4. CASE r = Return(-1)
    BY <1>3, <1>4, ReturnWorks, OtherTransact
  <1>5. CASE ~(seq <= QMin) /\ ~(seq >= QMax) /\ r = o
    <2>1. new <=> QSizeKey(n) \notin DOMAIN db
      BY QueueValues DEF IInv, Ends
    <2>2. seq \in QMin + 1 .. QMax
      <3>1. CASE new
        BY <3>1, PlacesDiffer
      <3>2. CASE ~new
        <4>1. Sequence(n, end) \in Int
          BY <2>1, <3>2, QueueValues, PlacesDiffer DEF IInv, Ends
        <4>2. QMin \in Nat /\ QMax \in Nat
          BY PlacesDiffer
        <4> HIDE DEF new
        <4>3. seq \in Int
          BY <3>2, <4>1
        <4> HIDE DEF seq
        <4>4. QED
          BY <1>5, <4>2, <4>3
      <3>3. QED
        BY <3>1, <3>2
    <2>3. seq \in Places /\ end \in Places
      BY <2>2, PlacesDiffer DEF Ends
    <2>4. Batch(<<Put(QItemKey(n, seq), item)>>, QueueKeys, n)
      BY <2>3, ItemIsBatch
    <2>5. Batch(ends, QueueKeys, n)
      <3> DEFINE p == Put(QItemKey(n, QFRONT), seq)  q == Put(QItemKey(n, QBACK), seq)
      <3>1. Batch(<<p>>, QueueKeys, n) /\ Batch(<<q>>, QueueKeys, n)
        BY ItemIsBatch, PlacesDiffer
      <3>2. Batch(<<Put(QItemKey(n, end), seq)>>, QueueKeys, n)
        BY <2>3, ItemIsBatch
      <3>3. Batch(<<p, q>>, QueueKeys, n)
        BY <3>1, TwoIsBatch
      <3> HIDE DEF seq
      <3>4. QED
        BY <3>2, <3>3
    <2>6. Batch(B, QueueKeys, n)
      <3> HIDE DEF seq, ends
      <3>1. Batch(IncrQSize(n, 1), QueueKeys, n)
        BY SizesBatch
      <3>2. QED
        BY <2>4, <2>5, <3>1, ThreeParts
    <2>7. Works(o, QueueKeys, n)
      <3> HIDE DEF B
      <3>1. IsSeq(L)
        BY OneIsSeq
      <3> HIDE DEF L
      <3>2. QED
        BY <2>6, <3>1 DEF Works, Commit
    <2>8. o.batch = B
      BY DEF Commit
    <2>9. ASSUME ChangesBy(B) PROVE QueueEnds(n)' /\ (n \notin orphaned => QueueRight(n)')
      <3>1. CASE new
        <4>1. QSizeKey(n) \notin DOMAIN db /\ QSize(n) = 0
          BY <2>1, <3>1, QueueValues DEF IInv
        <4>2. IncrQSize(n, 1) = <<Put(QSizeKey(n), 1)>>
          BY <4>1 DEF IncrQSize
        <4>3. B = (<<Put(QItemKey(n, QFRONT), QInit), Put(QItemKey(n, QBACK), QInit)>>
                     \o <<Put(QItemKey(n, QInit), item)>>) \o <<Put(QSizeKey(n), 1)>>
          BY <3>1, <4>2
        <4> HIDE DEF B
        <4>4. QED
          BY <2>9, <4>1, <4>3, QpushFirst
      <3>2. CASE ~new
        <4>1. QSizeKey(n) \in DOMAIN db
          BY <2>1, <3>2
        <4>2. QSize(n) \in Nat \ {0}
          BY <4>1, QueueValues, PlacesDiffer DEF IInv
        <4>3. IncrQSize(n, 1) = <<Put(QSizeKey(n), QSize(n) + 1)>>
          BY <4>2 DEF IncrQSize
        <4>4. seq = Sequence(n, end) + (IF end = QFRONT THEN -1 ELSE 1)
          BY <3>2
        <4>5. ends = <<Put(QItemKey(n, end), seq)>>
          BY <3>2
        <4> HIDE DEF seq, ends
        <4>6. B = (<<Put(QItemKey(n, end), seq)>> \o <<Put(QItemKey(n, seq), item)>>)
                    \o <<Put(QSizeKey(n), QSize(n) + 1)>>
          BY <4>3, <4>5
        <4> HIDE DEF B, new
        <4>7. QED
          BY ONLY IInv, <1>5, <2>9, <4>1, <4>4, <4>6, QpushNext, n \in QNames, end \in Ends
      <3>3. QED
        BY <3>1, <3>2
    <2> HIDE DEF B
    <2> HIDE DEF o
    <2>10. Transact(call, o, f)
      BY <1>3, <1>5
    <2>11. QED
      BY ONLY IInv, <1>3, <2>7, <2>8, <2>9, <2>10, n \in QNames, QueueTransact
  <1>6. QED
    BY <1>2, <1>4, <1>5

\* The last item is popped: the queue goes with it.
LEMMA QpopLast ==
    ASSUME IInv, NEW n \in QNames, QSizeKey(n) \in DOMAIN db, QSize(n) = 1, NEW end \in Ends,
           NEW B, ChangesBy(B),
           B = (<<Delete(QItemKey(n, Sequence(n, end)))>>
                  \o <<Delete(QSizeKey(n)), Delete(QItemKey(n, QFRONT)), Delete(QItemKey(n, QBACK))>>)
                 \o <<>>
    PROVE  /\ QueueEnds(n)' /\ (n \notin orphaned => QueueRight(n)')
           /\ Gone(QItemKey(n, QFRONT))
  <1> DEFINE seq == Sequence(n, end)  x == QItemKey(n, seq)  c == QSizeKey(n)
             F == QItemKey(n, QFRONT)  K == QItemKey(n, QBACK)
             p == Delete(x)  d == Delete(c)  q == Delete(F)  r == Delete(K)
  <1>1. p.key = x /\ d.key = c /\ q.key = F /\ r.key = K
    BY DEF Delete
  <1>2. seq \in QMin + 1 .. QMax
    BY QueueValues DEF IInv, Ends
  <1>3. /\ x # c /\ x # F /\ x # K /\ F # K /\ c # F /\ c # K
        /\ \A y : QItemKey(n, y) # c /\ QItemKey(n, y)[1] # SYNCLOG
        /\ c[1] # SYNCLOG
        /\ \A y : y # seq => QItemKey(n, y) # x
        /\ \A y \in Places \ Ends : QItemKey(n, y) # F /\ QItemKey(n, y) # K
    BY <1>2, PlacesDiffer, QueueKeysAt DEF Ends
  <1>4. /\ Batch(<<p>>, QueueKeys, n) /\ Batch(<<>>, QueueKeys, n)
        /\ Batch(<<d, q, r>>, QueueKeys, n)
    <2>1. Batch(<<p>>, QueueKeys, n)
      BY <1>2, PlacesDiffer, ItemIsBatch
    <2>2. IncrQSize(n, -1) = <<d, q, r>>
      BY DEF IncrQSize
    <2>3. Batch(IncrQSize(n, -1), QueueKeys, n)
      BY SizesBatch
    <2> HIDE DEF p, d, q, r
    <2>4. QED
      BY <2>1, <2>2, <2>3, NoneIsBatch
  <1>5. ChangesBy((<<p>> \o <<d, q, r>>) \o <<>>)
    OBVIOUS
  <1>6. p = Delete(x) /\ d = Delete(c) /\ q = Delete(F) /\ r = Delete(K)
    OBVIOUS
  <1> HIDE DEF p, d, q, r
  <1>7. /\ Writes(<<p>>, x, p) /\ \A y : y # x => Untouched(<<p>>, y)
        /\ Writes(<<d, q, r>>, c, d) /\ Writes(<<d, q, r>>, F, q) /\ Writes(<<d, q, r>>, K, r)
        /\ \A y : y # c /\ y # F /\ y # K => Untouched(<<d, q, r>>, y)
        /\ \A y : Untouched(<<>>, y)
    BY <1>1, <1>3, OneBatch, ThreeBatch, NoBatch
  <1> DEFINE T == (<<p>> \o <<d, q, r>>) \o <<>>
  <1>8. /\ \A y : Untouched(<<p>>, y) /\ Untouched(<<d, q, r>>, y) /\ Untouched(<<>>, y)
                    => Untouched(T, y)
        /\ \A y, e : Writes(<<d, q, r>>, y, e) /\ Untouched(<<>>, y) => Writes(T, y, e)
        /\ \A y, e : Writes(<<p>>, y, e) /\ Untouched(<<d, q, r>>, y) /\ Untouched(<<>>, y)
                        => Writes(T, y, e)
    BY <1>4, ThreeParts
  <1> HIDE DEF T
  <1>9. /\ Writes(T, x, Delete(x)) /\ Writes(T, c, Delete(c)) /\ Writes(T, F, Delete(F))
        /\ Writes(T, K, Delete(K))
        /\ \A y : y # x /\ y # c /\ y # F /\ y # K => Untouched(T, y)
    BY <1>3, <1>6, <1>7, <1>8
  <1>10. ChangesBy(T)
    BY <1>5 DEF T
  <1>11. /\ Gone(x) /\ Gone(c) /\ Gone(F) /\ Gone(K)
         /\ \A y : y[1] # SYNCLOG /\ y # x /\ y # c /\ y # F /\ y # K => Stays(y)
    <2>1. x[1] # SYNCLOG /\ F[1] # SYNCLOG /\ K[1] # SYNCLOG
      BY <1>3
    <2> HIDE DEF x, c, F, K
    <2>2. QED
      BY <1>3, <1>9, <1>10, <2>1, BatchWrites
  <1>12. ASSUME n \notin orphaned, NEW s \in Places \ Ends PROVE Gone(QItemKey(n, s))
    <2>1. CASE s = seq
      BY <1>11, <2>1
    <2>2. CASE s # seq
      <3>1. Stays(QItemKey(n, s))
        BY <1>3, <1>11, <2>2
      <3>2. /\ 1 = Sequence(n, QBACK) - Sequence(n, QFRONT) + 1
            /\ QItemKey(n, s) \in DOMAIN db <=> s \in Sequence(n, QFRONT) .. Sequence(n, QBACK)
        BY <1>12 DEF IInv, QueueRight
      <3>3. /\ Sequence(n, QFRONT) \in QMin + 1 .. QMax /\ Sequence(n, QBACK) \in QMin + 1 .. QMax
            /\ QMin \in Nat /\ QMax \in Nat
        BY QueueValues, PlacesDiffer DEF IInv
      <3>4. seq = Sequence(n, QFRONT) /\ seq = Sequence(n, QBACK)
        BY <3>2, <3>3 DEF Ends
      <3>5. s \notin Sequence(n, QFRONT) .. Sequence(n, QBACK)
        BY <2>2, <3>3, <3>4
      <3>6. QED
        BY <3>1, <3>2, <3>5 DEF Stays, Gone
    <2>3. QED
      BY <2>1, <2>2
  <1>13. QED
    BY <1>11, <1>12, QueueEmptied

\* One of several items is popped.
LEMMA QpopNext ==
    ASSUME IInv, NEW n \in QNames, QSizeKey(n) \in DOMAIN db, QSize(n) > 1, NEW end \in Ends,
           NEW next, next = Sequence(n, end) + (IF end = QFRONT THEN 1 ELSE -1),
           NEW B, ChangesBy(B),
           B = (<<Delete(QItemKey(n, Sequence(n, end)))>> \o <<Put(QSizeKey(n), QSize(n) + (-1))>>)
                 \o <<Put(QItemKey(n, end), next)>>
    PROVE  /\ QueueEnds(n)' /\ (n \notin orphaned => QueueRight(n)')
           /\ Becomes(QItemKey(n, end), next)
           /\ \A s : s # end /\ s # Sequence(n, end) => Stays(QItemKey(n, s))
  <1> DEFINE E == QItemKey(n, end)  seq == Sequence(n, end)  x == QItemKey(n, seq)
             c == QSizeKey(n)
             front == Sequence(n, QFRONT)  back == Sequence(n, QBACK)  size == QSize(n)
             p == Delete(x)  z == Put(c, size + (-1))  r == Put(E, next)
  <1>1. p.key = x /\ z.key = c /\ r.key = E
    BY DEF Put, Delete
  <1>2. /\ front \in QMin + 1 .. QMax /\ back \in QMin + 1 .. QMax
        /\ size \in 1 .. back - front + 1
        /\ QItemKey(n, QFRONT) \in DOMAIN db /\ db[QItemKey(n, QFRONT)] = front
        /\ QItemKey(n, QBACK) \in DOMAIN db /\ db[QItemKey(n, QBACK)] = back
    BY QueueValues DEF IInv
  <1>3. \/ end = QFRONT /\ seq = front /\ next = front + 1
        \/ end = QBACK /\ seq = back /\ next = back - 1
    <2>1. QBACK # QFRONT /\ QMin \in Nat /\ QMax \in Nat
      BY PlacesDiffer
    <2>2. CASE end = QFRONT
      BY <2>2
    <2>3. CASE end = QBACK
      <3>1. next = back + (-1)
        BY <2>1, <2>3
      <3> HIDE DEF back, seq
      <3>2. QED
        BY <1>2, <2>1, <2>3, <3>1 DEF seq, back
    <2>4. QED
      BY <2>2, <2>3 DEF Ends
  <1>4. seq \in QMin + 1 .. QMax /\ front < back
    <2>1. QMin \in Nat /\ QMax \in Nat /\ size > 1
      BY PlacesDiffer
    <2> HIDE DEF front, back, size, seq
    <2>2. QED
      BY <1>2, <1>3, <2>1
  <1>5. /\ x # E /\ x # c /\ E # c
        /\ E[1] # SYNCLOG /\ x[1] # SYNCLOG /\ c[1] # SYNCLOG
        /\ \A y : y # end => QItemKey(n, y) # E
        /\ \A y : y # seq => QItemKey(n, y) # x
        /\ \A y : QItemKey(n, y) # c /\ QItemKey(n, y)[1] # SYNCLOG
    BY <1>3, <1>4, PlacesDiffer, QueueKeysAt
  <1>6. Batch(<<p>>, QueueKeys, n) /\ Batch(<<z>>, QueueKeys, n) /\ Batch(<<r>>, QueueKeys, n)
    <2>1. seq \in Places /\ end \in Places
      BY <1>3, <1>4, PlacesDiffer
    <2> HIDE DEF seq
    <2>2. QED
      BY <2>1, ItemIsBatch
  <1>7. ChangesBy((<<p>> \o <<z>>) \o <<r>>)
    OBVIOUS
  <1>8. p = Delete(x) /\ z = Put(c, size + (-1)) /\ r = Put(E, next)
    OBVIOUS
  <1> HIDE DEF p, r, z
  <1>9. /\ Writes(<<p>>, x, p) /\ \A y : y # x => Untouched(<<p>>, y)
        /\ Writes(<<r>>, E, r) /\ \A y : y # E => Untouched(<<r>>, y)
        /\ Writes(<<z>>, c, z) /\ \A y : y # c => Untouched(<<z>>, y)
    BY <1>1, OneBatch
  <1> DEFINE T == (<<p>> \o <<z>>) \o <<r>>
  <1>10. /\ \A y : Untouched(<<p>>, y) /\ Untouched(<<z>>, y) /\ Untouched(<<r>>, y)
                    => Untouched(T, y)
         /\ \A y, e : Writes(<<r>>, y, e) => Writes(T, y, e)
         /\ \A y, e : Writes(<<z>>, y, e) /\ Untouched(<<r>>, y) => Writes(T, y, e)
         /\ \A y, e : Writes(<<p>>, y, e) /\ Untouched(<<z>>, y) /\ Untouched(<<r>>, y)
                        => Writes(T, y, e)
    BY <1>6, ThreeParts
  <1> HIDE DEF T
  <1>11. /\ Writes(T, E, Put(E, next)) /\ Writes(T, x, Delete(x))
         /\ Writes(T, c, Put(c, size + (-1)))
         /\ \A y : y # E /\ y # x /\ y # c => Untouched(T, y)
    BY <1>5, <1>8, <1>9, <1>10
  <1>12. ChangesBy(T)
    BY <1>7 DEF T
  <1> HIDE DEF E, x, c, front, back, size, seq
  <1>13. /\ Becomes(E, next) /\ Gone(x) /\ Becomes(c, size + (-1))
         /\ \A y : y[1] # SYNCLOG /\ y # E /\ y # x /\ y # c => Stays(y)
    BY <1>5, <1>11, <1>12, BatchWrites
  <1> DEFINE a == IF end = QFRONT THEN next ELSE front
             b == IF end = QFRONT THEN back ELSE next
  <1>14. Becomes(QItemKey(n, QFRONT), a) /\ Becomes(QItemKey(n, QBACK), b)
    <2>1. \A y \in Ends : y # end => Stays(QItemKey(n, y))
      <3>1. \A y \in Ends : y # seq
        BY <1>4, PlacesDiffer DEF Ends
      <3>2. QED
        BY <1>5, <1>13, <3>1
    <2>2. CASE end = QFRONT
      BY <1>2, <1>13, <2>1, <2>2, PlacesDiffer DEF Ends, Becomes, Stays, E
    <2>3. CASE end = QBACK
      BY <1>2, <1>13, <2>1, <2>3, PlacesDiffer DEF Ends, Becomes, Stays, E
    <2>4. QED
      BY <1>3, <2>2, <2>3
  <1>15. /\ a \in QMin + 1 .. QMax /\ b \in QMin + 1 .. QMax /\ size + (-1) \in 1 .. b - a + 1
         /\ size = back - front + 1 => size + (-1) = b - a + 1
         /\ \A s \in Int : s # seq => (s \in a .. b <=> s \in front .. back)
         /\ seq \notin a .. b
    <2>1. QMin \in Nat /\ QMax \in Nat /\ size > 1
      BY PlacesDiffer DEF size
    <2>2. CASE end = QFRONT
      BY <1>2, <1>3, <1>4, <2>1, <2>2, PlacesDiffer
    <2>3. CASE end # QFRONT
      BY <1>2, <1>3, <1>4, <2>1, <2>3, PlacesDiffer
    <2>4. QED
      BY <2>2, <2>3
  <1> HIDE DEF a, b
  <1>16. QueueEnds(n)' /\ (size + (-1) = b - a + 1 /\ (\A s \in Places \ Ends :
             QItemKey(n, s) \in DOMAIN db' <=> s \in a .. b) => QueueRight(n)')
    BY <1>13, <1>14, <1>15, QueueFilled DEF c
  <1>17. ASSUME n \notin orphaned PROVE QueueRight(n)'
    <2>1. /\ size = back - front + 1
          /\ \A s \in Places \ Ends : QItemKey(n, s) \in DOMAIN db <=> s \in front .. back
      BY <1>17 DEF IInv, QueueRight, size, front, back
    <2>2. ASSUME NEW s \in Places \ Ends
          PROVE  QItemKey(n, s) \in DOMAIN db' <=> s \in a .. b
      <3>1. CASE s = seq
        BY <1>13, <1>15, <3>1 DEF Gone, x
      <3>2. CASE s # seq
        <4>1. Stays(QItemKey(n, s))
          BY <1>3, <1>5, <1>13, <2>2, <3>2 DEF Ends
        <4>2. s \in Int
          BY PlacesDiffer DEF Places, QFRONT, QBACK
        <4>3. QED
          BY <1>15, <2>1, <3>2, <4>1, <4>2 DEF Stays
      <3>3. QED
        BY <3>1, <3>2
    <2>3. QED
      BY <1>15, <1>16, <2>1, <2>2
  <1>18. \A s : s # end /\ s # seq => Stays(QItemKey(n, s))
    BY <1>5, <1>13
  <1>19. QED
    BY <1>13, <1>16, <1>17, <1>18 DEF E, seq

LEMMA QueuePopStep == IInv /\ QueuePop => IInv'
  <1> SUFFICES ASSUME IInv, QueuePop PROVE IInv'
    OBVIOUS
  <1>1. PICK n \in QNames, end \in Ends, f \in Faults({"entry", "again", "size", "write"}) :
            Operation(<<"qpop", n, end>>, Qpop(n, end, f), f)
    BY DEF QueuePop
  <1> DEFINE call == <<"qpop", n, end>>
             seq == Sequence(n, end)
             x == QItemKey(n, seq)
             next == seq + (IF end = QFRONT THEN 1 ELSE -1)
             ends == IF QSize(n) > 1 THEN <<Put(QItemKey(n, end), next)>> ELSE <<>>
             cmd == IF end = QFRONT THEN "QPOP_FRONT" ELSE "QPOP_BACK"
             B == (<<Delete(x)>> \o IncrQSize(n, -1)) \o ends
             L == <<Log(cmd, <<n>>)>>
             o == Commit(B, L, 1)
             q == [o EXCEPT !.item = db[x]]
             r == Qpop(n, end, f)
  <1>2. \/ r = Return(-1) \/ r = Return(0)
        \/ QItemKey(n, end) \in DOMAIN db /\ r = q
    BY DEF Qpop
  <1>3. Operation(call, r, f) /\ Transact(call, r, f) /\ orphaned' = orphaned
    BY <1>1 DEF Operation
  <1> HIDE DEF call, r
  <1>4. CASE r = Return(-1) \/ r = Return(0)
    BY <1>3, <1>4, ReturnWorks, OtherTransact
  <1>5. CASE QItemKey(n, end) \in DOMAIN db /\ r = q
    <2>1. QSizeKey(n) \in DOMAIN db
      BY <1>5, QueueValues DEF IInv, Ends
    <2>2. seq \in QMin + 1 .. QMax /\ QSize(n) \in Nat \ {0}
      BY <2>1, QueueValues, PlacesDiffer DEF IInv, Ends
    <2>3. Batch(<<Delete(x)>>, QueueKeys, n)
      <3>1. seq \in Places
        BY <2>2, PlacesDiffer
      <3> HIDE DEF seq
      <3>2. QED
        BY <3>1, ItemIsBatch
    <2>4. Batch(ends, QueueKeys, n)
      <3>1. end \in Places
        BY PlacesDiffer DEF Ends
      <3> HIDE DEF next
      <3>2. Batch(<<Put(QItemKey(n, end), next)>>, QueueKeys, n) /\ Batch(<<>>, QueueKeys, n)
        BY <3>1, ItemIsBatch, NoneIsBatch
      <3>3. QED
        BY <3>2
    <2>5. Batch(B, QueueKeys, n)
      <3> HIDE DEF x, ends
      <3>1. Batch(IncrQSize(n, -1), QueueKeys, n)
        BY SizesBatch
      <3>2. QED
        BY <2>3, <2>4, <3>1, ThreeParts
    <2>6. Works(o, QueueKeys, n)
      <3> HIDE DEF B
      <3>1. IsSeq(L)
        BY OneIsSeq
      <3> HIDE DEF L
      <3>2. QED
        BY <2>5, <3>1 DEF Works, Commit
    <2>7. o.batch = B
      BY DEF Commit
    <2>8. o = [commits |-> o.commits, batch |-> o.batch, logs |-> o.logs, ret |-> o.ret,
               item |-> o.item, misread |-> o.misread]
      BY DEF Commit
    <2>9. ASSUME ChangesBy(B) PROVE QueueEnds(n)' /\ (n \notin orphaned => QueueRight(n)')
      <3>1. CASE QSize(n) = 1
        <4>1. ends = <<>>
          BY <3>1
        <4>2. IncrQSize(n, -1)
                = <<Delete(QSizeKey(n)), Delete(QItemKey(n, QFRONT)), Delete(QItemKey(n, QBACK))>>
          BY <3>1 DEF IncrQSize
        <4> HIDE DEF ends
        <4>3. B = (<<Delete(QItemKey(n, Sequence(n, end)))>>
                     \o <<Delete(QSizeKey(n)), Delete(QItemKey(n, QFRONT)),
                          Delete(QItemKey(n, QBACK))>>)
                    \o <<>>
          BY <4>1, <4>2
        <4> HIDE DEF B
        <4>4. QED
          BY ONLY IInv, <2>1, <2>9, <3>1, <4>3, QpopLast, n \in QNames, end \in Ends
      <3>2. CASE QSize(n) # 1
        <4>1. QSize(n) > 1
          BY <2>2, <3>2
        <4>2. ends = <<Put(QItemKey(n, end), next)>>
          BY <4>1
        <4>3. IncrQSize(n, -1) = <<Put(QSizeKey(n), QSize(n) + (-1))>>
          BY <2>2, <4>1 DEF IncrQSize
        <4> HIDE DEF ends
        <4>4. next = Sequence(n, end) + (IF end = QFRONT THEN 1 ELSE -1)
          OBVIOUS
        <4> HIDE DEF next
        <4>5. B = (<<Delete(QItemKey(n, Sequence(n, end)))>>
                     \o <<Put(QSizeKey(n), QSize(n) + (-1))>>)
                    \o <<Put(QItemKey(n, end), next)>>
          BY <4>2, <4>3
        <4> HIDE DEF B
        <4>6. QED
          BY ONLY IInv, <2>1, <2>9, <4>1, <4>4, <4>5, QpopNext, n \in QNames, end \in Ends
      <3>3. QED
        BY <3>1, <3>2
    <2> HIDE DEF o
    <2>10. Works(q, QueueKeys, n) /\ q.batch = o.batch
      BY <2>6, <2>8, ItemWorks
    <2> HIDE DEF B, q
    <2>11. Transact(call, q, f)
      BY <1>3, <1>5
    <2>12. QED
      BY ONLY IInv, <1>3, <2>7, <2>9, <2>10, <2>11, n \in QNames, QueueTransact
  <1>6. QED
    BY <1>2, <1>4, <1>5

\* An entry that may be there is written, and nothing else.
LEMMA QStoreKeeps ==
    ASSUME IInv, NEW n \in QNames, NEW seq \in Places \ Ends, NEW item,
           ChangesBy(QStore(n, seq, item).batch)
    PROVE  /\ QueueEnds(n)'
           /\ /\ n \notin orphaned /\ QSizeKey(n) \in DOMAIN db
              /\ seq \in Sequence(n, QFRONT) .. Sequence(n, QBACK)
              => QueueRight(n)'
           /\ Becomes(QItemKey(n, seq), item) /\ \A s : s # seq => Stays(QItemKey(n, s))
  <1> DEFINE x == QItemKey(n, seq)  p == Put(x, item)
  <1>1. QStore(n, seq, item).batch = <<p>>
    BY DEF QStore, Commit
  <1>2. p.key = x /\ ChangesBy(<<p>>)
    BY <1>1 DEF Put
  <1>3. p = Put(x, item)
    OBVIOUS
  <1> HIDE DEF p
  <1>4. Writes(<<p>>, x, Put(x, item)) /\ \A y : y # x => Untouched(<<p>>, y)
    BY <1>2, <1>3, OneBatch
  <1>5. Becomes(x, item) /\ \A y : y[1] # SYNCLOG /\ y # x => Stays(y)
    <2>1. x[1] # SYNCLOG
      BY QueueKeysAt
    <2> HIDE DEF x
    <2>2. QED
      BY <1>2, <1>4, <2>1, BatchWrites
  <1>6. \A s : s # seq => Stays(QItemKey(n, s))
    BY <1>5, QueueKeysAt
  <1>7. Stays(QSizeKey(n))
    BY <1>5, QueueKeysAt
  <1>8. seq # QFRONT /\ seq # QBACK
    BY DEF Ends
  <1>9. /\ Stays(QItemKey(n, QFRONT)) /\ Stays(QItemKey(n, QBACK))
    BY <1>6, <1>8
  <1>10. CASE QSizeKey(n) \in DOMAIN db
    <2> DEFINE front == Sequence(n, QFRONT)  back == Sequence(n, QBACK)  size == QSize(n)
    <2>1. /\ front \in QMin + 1 .. QMax /\ back \in QMin + 1 .. QMax
          /\ size \in 1 .. back - front + 1
          /\ Becomes(QItemKey(n, QFRONT), front) /\ Becomes(QItemKey(n, QBACK), back)
          /\ Becomes(QSizeKey(n), size)
      BY <1>7, <1>9, <1>10, QueueValues DEF IInv, Stays, Becomes
    <2> HIDE DEF front, back, size
    <2>2. QueueEnds(n)' /\ (size = back - front + 1 /\ (\A s \in Places \ Ends :
             QItemKey(n, s) \in DOMAIN db' <=> s \in front .. back) => QueueRight(n)')
      BY <2>1, QueueFilled
    <2>3. ASSUME n \notin orphaned, seq \in front .. back PROVE QueueRight(n)'
      <3>1. /\ size = back - front + 1
            /\ \A s \in Places \ Ends : QItemKey(n, s) \in DOMAIN db <=> s \in front .. back
        BY <1>10, <2>3 DEF IInv, QueueRight, front, back, size
      <3>2. \A s \in Places \ Ends : QItemKey(n, s) \in DOMAIN db' <=> s \in front .. back
        BY <1>5, <1>6, <2>3, <3>1 DEF Stays, Becomes
      <3>3. QED
        BY <2>2, <3>1, <3>2
    <2>4. QED
      BY <1>5, <1>6, <2>2, <2>3 DEF front, back
  <1>11. CASE QSizeKey(n) \notin DOMAIN db
    <2>1. Gone(QItemKey(n, QFRONT)) /\ Gone(QItemKey(n, QBACK)) /\ Gone(QSizeKey(n))
      BY <1>7, <1>9, <1>11, QueueValues DEF IInv, Stays, Gone
    <2>2. QED
      BY <1>5, <1>6, <1>11, <2>1, QueueEmptied
  <1>12. QED
    BY <1>10, <1>11

LEMMA QStoreWorks ==
    ASSUME NEW n, NEW seq \in Places, NEW item
    PROVE  Works(QStore(n, seq, item), QueueKeys, n)
  <1> DEFINE p == Put(QItemKey(n, seq), item)
  <1>1. /\ QStore(n, seq, item).batch = <<p>>
        /\ QStore(n, seq, item).logs = <<Log("QSET", QItemKey(n, seq))>>
    BY DEF QStore, Commit
  <1>2. Batch(<<p>>, QueueKeys, n)
    BY ItemIsBatch
  <1> HIDE DEF p
  <1>3. QED
    BY <1>1, <1>2, OneIsSeq DEF Works

LEMMA QueueSetStep == IInv /\ QueueSet => IInv'
  <1> SUFFICES ASSUME IInv, QueueSet PROVE IInv'
    OBVIOUS
  <1>1. PICK n \in QNames, index \in Indexes, item \in Values, f \in Faults({"entry", "size", "write"}) :
            Operation(<<"qset", n, index, item>>, Qset(n, index, item, f), f)
    BY DEF QueueSet
  <1> DEFINE call == <<"qset", n, index, item>>
             seq == AtIndex(n, index)
             o == QStore(n, seq, item)
             r == Qset(n, index, item, f)
             front == Sequence(n, QFRONT)
             back == Sequence(n, QBACK)
             size == QSize(n)
  <1>2. \/ r = Return(-1) \/ r = Return(0)
        \/ ~(index >= size) /\ ~(index < -size) /\ r = o
    BY DEF Qset
  <1>3. Operation(call, r, f) /\ Transact(call, r, f) /\ orphaned' = orphaned
    BY <1>1 DEF Operation
  <1> HIDE DEF call, r
  <1>4. CASE r = Return(-1) \/ r = Return(0)
    BY <1>3, <1>4, ReturnWorks, OtherTransact
  <1>5. CASE ~(index >= size) /\ ~(index < -size) /\ r = o
    <2>1. index \in Int
      BY SsdbAssumption
    <2>2. QSizeKey(n) \in DOMAIN db
      <3>1. QSizeKey(n) \notin DOMAIN db => size = 0
        BY QueueValues DEF IInv
      <3> HIDE DEF size
      <3>2. QED
        BY <1>5, <2>1, <3>1
    <2>3. /\ front \in QMin + 1 .. QMax /\ back \in QMin + 1 .. QMax
          /\ size \in 1 .. back - front + 1 /\ QMin \in Nat /\ QMax \in Nat
      BY <2>2, QueueValues, PlacesDiffer DEF IInv
    <2>4. seq = IF index >= 0 THEN front + index ELSE back + index + 1
      BY DEF AtIndex
    <2> HIDE DEF front, back, size, seq
    <2>5. seq \in front .. back /\ seq \in QMin + 1 .. QMax
      <3>1. CASE index >= 0
        BY <1>5, <2>1, <2>3, <2>4, <3>1
      <3>2. CASE ~(index >= 0)
        BY <1>5, <2>1, <2>3, <2>4, <3>2
      <3>3. QED
        BY <3>1, <3>2
    <2>6. seq \in Places \ Ends
      BY <2>5, PlacesDiffer
    <2>7. Works(o, QueueKeys, n)
      BY <2>6, QStoreWorks
    <2>8. ChangesBy(o.batch) => QueueEnds(n)' /\ (n \notin orphaned => QueueRight(n)')
      BY <2>2, <2>5, <2>6, QStoreKeeps DEF front, back
    <2> HIDE DEF o
    <2>9. Transact(call, o, f)
      BY <1>3, <1>5
    <2>10. QED
      BY ONLY IInv, <1>3, <2>7, <2>8, <2>9, n \in QNames, QueueTransact
  <1>6. QED
    BY <1>2, <1>4, <1>5

LEMMA QueueSetBySeqStep == IInv /\ QueueSetBySeq => IInv'
  <1> SUFFICES ASSUME IInv, QueueSetBySeq PROVE IInv'
    OBVIOUS
  <1>1. PICK n \in QNames, seq \in {0} \cup QMin + 1 .. QMax, item \in Values,
             f \in Faults({"entry", "size", "write"}) :
            /\ Transact(<<"qset_by_seq", n, seq, item>>, QsetBySeq(n, seq, item, f), f)
            /\ orphaned' = IF answer'.ret = 1 /\ seq = Sequence(n, QFRONT) + QSize(n)
                           THEN orphaned \cup {n} ELSE orphaned
    BY DEF QueueSetBySeq
  <1> DEFINE call == <<"qset_by_seq", n, seq, item>>
             r == QsetBySeq(n, seq, item, f)
             o == QStore(n, seq, item)
             front == Sequence(n, QFRONT)
             back == Sequence(n, QBACK)
             size == QSize(n)
  <1>2. \/ r = Return(-1) \/ r = Return(0)
        \/ ~(seq < front) /\ ~(seq > front + size) /\ r = o
    BY DEF QsetBySeq
  <1>3. Transact(call, r, f) /\ orphaned \subseteq orphaned'
    BY <1>1
  <1>4. seq \in Places \ Ends /\ seq \in Int
    BY PlacesDiffer
  <1> HIDE DEF r
  <1>5. CASE r = Return(-1) \/ r = Return(0)
    <2>1. Works(r, QueueKeys, n) /\ ~r.commits
      BY <1>5, ReturnWorks DEF Return
    <2> HIDE DEF call
    <2>2. QED
      BY ONLY IInv, <1>3, <2>1, n \in QNames, QueueTransact
  <1>6. CASE ~(seq < front) /\ ~(seq > front + size) /\ r = o
    <2>1. Works(o, QueueKeys, n) /\ o.commits /\ o.ret = 1
      BY <1>4, QStoreWorks DEF QStore, Commit
    <2>2. Transact(call, o, f)
      BY <1>3, <1>6
    <2>3. f # "write" => answer'.ret = 1
      BY <2>1, <2>2 DEF Transact
    <2>4. ASSUME f # "write", ChangesBy(o.batch)
          PROVE  QueueEnds(n)' /\ (n \notin orphaned' => QueueRight(n)')
      <3>1. QueueEnds(n)'
        BY <1>4, <2>4, QStoreKeeps
      <3>2. ASSUME n \notin orphaned' PROVE QueueRight(n)'
        <4>1. seq # front + size /\ n \notin orphaned
          BY <1>1, <2>3, <2>4, <3>2
        <4>2. QSizeKey(n) \in DOMAIN db
          <5>1. QSizeKey(n) \notin DOMAIN db => front = 0 /\ size = 0
            BY QueueValues DEF IInv
          <5> HIDE DEF front, size
          <5>2. QED
            BY <1>4, <1>6, <4>1, <5>1
        <4>3. /\ front \in QMin + 1 .. QMax /\ back \in QMin + 1 .. QMax
              /\ size \in 1 .. back - front + 1 /\ QMin \in Nat /\ QMax \in Nat
          BY <4>2, QueueValues, PlacesDiffer DEF IInv
        <4> HIDE DEF front, back, size, o
        <4>4. seq \in front .. back
          BY <1>4, <1>6, <4>1, <4>3
        <4>5. QED
          BY <1>4, <2>4, <4>1, <4>2, <4>4, QStoreKeeps DEF front, back, o
      <3>3. QED
        BY <3>1, <3>2
    <2> HIDE DEF o, call
    <2>5. QED
      BY ONLY IInv, <1>3, <2>1, <2>2, <2>4, n \in QNames, QueueTransact
  <1>7. QED
    BY <1>2, <1>5, <1>6


-----------------------------------------------------------------------------
(* qfix.                                                                   *)

LEMMA LeastNat ==
    ASSUME NEW T, T \subseteq Nat, T # {}
    PROVE  \E x \in T : \A y \in T : x <= y
  <1>1. IsWellFoundedOn(OpToRel(<, Nat), Nat)
    BY NatLessThanWellFounded
  <1>2. PICK x \in T : \A y \in T : ~ (<<y, x>> \in OpToRel(<, Nat))
    BY <1>1, WFMin, Zenon
  <1>3. \A y \in T : ~ (y < x)
    BY <1>2, Zenon DEF OpToRel
  <1>4. QED
    BY <1>3

LEMMA GreatestNat ==
    ASSUME NEW T, T \subseteq Nat, T # {}, NEW b \in Nat, \A y \in T : y <= b
    PROVE  \E x \in T : \A y \in T : y <= x
  <1> DEFINE U == {n \in Nat : \A y \in T : y <= n}
  <1>1. PICK x \in U : \A y \in U : x <= y
    <2>1. b \in U /\ U \subseteq Nat
      OBVIOUS
    <2> HIDE DEF U
    <2>2. QED
      BY <2>1, LeastNat
  <1>2. x \in Nat /\ \A y \in T : y <= x
    OBVIOUS
  <1>3. ASSUME x \notin T PROVE FALSE
    <2>1. \A y \in T : y \in Nat /\ y <= x /\ y # x
      BY <1>2, <1>3
    <2>2. PICK z \in T : TRUE
      OBVIOUS
    <2>3. x > 0 /\ \A y \in T : y <= x - 1
      BY <1>2, <2>1, <2>2
    <2>4. x - 1 \in U
      BY <1>2, <2>3
    <2>5. QED
      BY <1>1, <1>2, <2>4
  <1>4. QED
    BY <1>2, <1>3

\* How a key of three parts compares with others.
LEMMA LessThree ==
    ASSUME NEW a, NEW b, NEW c
    PROVE  /\ \A p, q : Less(<<a, b, c>>, <<p, q>>) <=> a < p \/ (a = p /\ b < q)
           /\ \A p, q, r : Less(<<a, b, c>>, <<p, q, r>>)
                 <=> a < p \/ (a = p /\ b < q) \/ (a = p /\ b = q /\ c < r)
           /\ \A p, q, r, t : a < p => Less(<<a, b, c>>, <<p, q, r, t>>)
  <1>1. ASSUME NEW p, NEW q, NEW r, NEW t
        PROVE  /\ Less(<<a, b, c>>, <<p, q>>) <=> a < p \/ (a = p /\ b < q)
               /\ Less(<<a, b, c>>, <<p, q, r>>)
                    <=> a < p \/ (a = p /\ b < q) \/ (a = p /\ b = q /\ c < r)
               /\ a < p => Less(<<a, b, c>>, <<p, q, r, t>>)
    <2> DEFINE s == <<a, b, c>>  x == <<p, q>>  y == <<p, q, r>>  z == <<p, q, r, t>>
    <2>1. /\ Len(s) = 3 /\ s[1] = a /\ s[2] = b /\ s[3] = c
          /\ Len(x) = 2 /\ x[1] = p /\ x[2] = q
          /\ Len(y) = 3 /\ y[1] = p /\ y[2] = q /\ y[3] = r
          /\ Len(z) = 4 /\ z[1] = p /\ z[2] = q /\ z[3] = r /\ z[4] = t
      OBVIOUS
    <2> HIDE DEF s, x, y, z
    <2>2. /\ 1 .. 2 = {1, 2} /\ 1 .. 3 = {1, 2, 3} /\ 1 .. 4 = {1, 2, 3, 4}
          /\ 1 .. 1 - 1 = {} /\ 1 .. 2 - 1 = {1} /\ 1 .. 3 - 1 = {1, 2} /\ 1 .. 4 - 1 = {1, 2, 3}
      OBVIOUS
    <2>3. Less(s, x) <=> a < p \/ (a = p /\ b < q)
      BY <2>1, <2>2 DEF Less
    <2>4. Less(s, y) <=> a < p \/ (a = p /\ b < q) \/ (a = p /\ b = q /\ c < r)
      BY <2>1, <2>2 DEF Less
    <2>5. a < p => Less(s, z)
      BY <2>1, <2>2 DEF Less
    <2>6. QED
      BY <2>3, <2>4, <2>5 DEF s, x, y, z
  <1>2. QED
    BY <1>1

\* The numbers of the entries of a queue.
Items(n) == {s \in QMin + 1 .. QMax : QItemKey(n, s) \in DOMAIN db}

\* How the key of an entry compares with others.
LEMMA ItemBefore ==
    ASSUME NEW n \in QNames, NEW s
    PROVE  /\ \A p, q : Less(QItemKey(n, s), <<p, q>>) <=> QUEUE < p \/ (QUEUE = p /\ n < q)
           /\ \A p, q, r : Less(QItemKey(n, s), <<p, q, r>>)
                 <=> QUEUE < p \/ (QUEUE = p /\ n < q) \/ (QUEUE = p /\ n = q /\ s < r)
           /\ \A p, q, r, t : QUEUE < p => Less(QItemKey(n, s), <<p, q, r, t>>)
           /\ \A t : Less(QItemKey(n, s), QItemKey(n, t)) <=> s < t
  <1>1. QItemKey(n, s) = <<QUEUE, n, s>>
    BY DEF QItemKey
  <1>2. \A p, q : Less(<<QUEUE, n, s>>, <<p, q>>) <=> QUEUE < p \/ (QUEUE = p /\ n < q)
    BY LessThree, Zenon
  <1>3. \A p, q, r : Less(<<QUEUE, n, s>>, <<p, q, r>>)
          <=> QUEUE < p \/ (QUEUE = p /\ n < q) \/ (QUEUE = p /\ n = q /\ s < r)
    BY LessThree, Zenon
  <1>4. \A p, q, r, t : QUEUE < p => Less(<<QUEUE, n, s>>, <<p, q, r, t>>)
    BY LessThree, Zenon
  <1>5. ASSUME NEW t PROVE Less(<<QUEUE, n, s>>, <<QUEUE, n, t>>) <=> s < t
    <2>1. ~(QUEUE < QUEUE) /\ ~(n < n)
      BY SsdbAssumption DEF QUEUE
    <2>2. QED
      BY <1>3, <2>1, Zenon
  <1>6. \A t : QItemKey(n, t) = <<QUEUE, n, t>>
    BY DEF QItemKey
  <1>7. \A t : Less(QItemKey(n, s), QItemKey(n, t)) <=> s < t
    BY <1>1, <1>5, <1>6, Zenon
  <1>8. \A p, q : Less(QItemKey(n, s), <<p, q>>) <=> QUEUE < p \/ (QUEUE = p /\ n < q)
    BY <1>1, <1>2, Zenon
  <1>9. \A p, q, r : Less(QItemKey(n, s), <<p, q, r>>)
          <=> QUEUE < p \/ (QUEUE = p /\ n < q) \/ (QUEUE = p /\ n = q /\ s < r)
    BY <1>1, <1>3, Zenon
  <1>10. \A p, q, r, t : QUEUE < p => Less(QItemKey(n, s), <<p, q, r, t>>)
    BY <1>1, <1>4, Zenon
  <1>11. QED
    BY <1>7, <1>8, <1>9, <1>10, Zenon

\* What qfix looks through are these entries.
LEMMA FixInside ==
    ASSUME NEW n \in QNames, WellFormed(db)
    PROVE  {x \in DOMAIN db : /\ Less(QItemKey(n, QMin - 1), x)
                              /\ QItemKey(n, QMax) = <<>> \/ ~Less(QItemKey(n, QMax), x)}
             = {QItemKey(n, s) : s \in Items(n)}
  <1> DEFINE start == QItemKey(n, QMin - 1)  end == QItemKey(n, QMax)
  <1>1. n \in Nat /\ QMin \in Nat /\ QMax \in Nat /\ 4 < QMin
    BY SsdbAssumption
  <1>2. end # <<>>
    BY DEF QItemKey
  <1> HIDE DEF start, end
  <1>3. ASSUME NEW x \in DOMAIN db, Less(start, x), ~Less(end, x)
        PROVE  x \in {QItemKey(n, s) : s \in Items(n)}
    <2>1. Shaped(x)
      BY DEF WellFormed
    <2>2. CASE x[1] \in {SYNCLOG, KV, HSIZE, ZSIZE, QSIZE} /\ x = <<x[1], x[2]>>
      <3>1. PICK p, q : p \in {SYNCLOG, KV, HSIZE, ZSIZE, QSIZE} /\ x = <<p, q>>
        BY <2>2
      <3>2. QUEUE < p \/ (QUEUE = p /\ n < q)
        BY <1>3, <3>1, ItemBefore DEF start
      <3>3. QED
        BY <3>1, <3>2 DEF QUEUE, SYNCLOG, KV, HSIZE, ZSIZE, QSIZE
    <2>3. CASE x[1] \in {HASH, ZSET} /\ x = <<x[1], x[2], x[3]>>
      <3>1. PICK p, q, r : p \in {HASH, ZSET} /\ x = <<p, q, r>>
        BY <2>3
      <3>2. QUEUE < p \/ (QUEUE = p /\ n < q) \/ (QUEUE = p /\ n = q /\ QMin - 1 < r)
        BY <1>3, <3>1, ItemBefore DEF start
      <3>3. ~(QUEUE < p)
        BY <1>3, <3>1, ItemBefore DEF end
      <3>4. QED
        BY <3>1, <3>2, <3>3 DEF QUEUE, HASH, ZSET
    <2>4. CASE x[1] = QUEUE /\ x = <<x[1], x[2], x[3]>> /\ x[3] \in Places
      <3>1. PICK q, r : x = <<QUEUE, q, r>> /\ r \in Places
        BY <2>4
      <3>2. QUEUE < QUEUE \/ (QUEUE = QUEUE /\ n < q) \/ (QUEUE = QUEUE /\ n = q /\ QMin - 1 < r)
        BY <1>3, <3>1, ItemBefore DEF start
      <3>3. ~(QUEUE = QUEUE /\ n < q)
        BY <1>3, <3>1, ItemBefore DEF end
      <3>4. n = q /\ QMin - 1 < r
        BY <3>2, <3>3 DEF QUEUE
      <3>5. r \in QMin + 1 .. QMax
        BY <1>1, <3>1, <3>4 DEF Places, Ends, QFRONT, QBACK
      <3>6. x = QItemKey(n, r)
        BY <3>1, <3>4 DEF QItemKey
      <3>7. QED
        BY <3>5, <3>6 DEF Items
    <2>5. CASE x[1] = ZSCORE /\ x = <<x[1], x[2], x[3], x[4]>>
      <3>1. PICK q, r, t : x = <<ZSCORE, q, r, t>>
        BY <2>5
      <3>2. ~(QUEUE < ZSCORE)
        BY <1>3, <3>1, ItemBefore DEF end
      <3>3. QED
        BY <3>2 DEF QUEUE, ZSCORE
    <2>6. QED
      BY <2>1, <2>2, <2>3, <2>4, <2>5 DEF Shaped
  <1>4. ASSUME NEW s \in Items(n)
        PROVE  LET x == QItemKey(n, s) IN x \in DOMAIN db /\ Less(start, x) /\ ~Less(end, x)
    <2>1. s \in QMin + 1 .. QMax /\ s \in Int /\ QItemKey(n, s) \in DOMAIN db
      BY DEF Items
    <2>2. ~(QMax < s) /\ QMin - 1 < s
      BY <1>1, <2>1
    <2>3. QED
      BY <2>1, <2>2, ItemBefore DEF start, end
  <1>5. QED
    BY <1>2, <1>3, <1>4 DEF start, end

\* The entries in order: as many as there are, the least number first and
\* the greatest last.
LEMMA SortedItems ==
    ASSUME NEW n \in QNames, NEW I, I \subseteq QMin + 1 .. QMax
    PROVE  LET S == {QItemKey(n, s) : s \in I}
               sorted == Sorted(S, Less)
               N == Cardinality(I)
           IN /\ IsFiniteSet(I) /\ N \in 0 .. QMax
              /\ IsSeq(sorted) /\ Len(sorted) = N
              /\ I # {} => /\ N >= 1
                           /\ sorted[1][3] \in I /\ sorted[N][3] \in I
                           /\ \A s \in I : sorted[1][3] <= s /\ s <= sorted[N][3]
  <1> DEFINE S == {QItemKey(n, s) : s \in I}
             sorted == Sorted(S, Less)
             N == Cardinality(I)
             Below(x) == {y \in S : Less(y, x)}
  <1>1. QMin \in Nat /\ QMax \in Nat /\ I \subseteq Nat /\ \A s \in I : s <= QMax
    BY PlacesDiffer
  <1>2. IsFiniteSet(I) /\ N \in 0 .. QMax
    <2>1. /\ IsFiniteSet(QMin + 1 .. QMax)
          /\ Cardinality(QMin + 1 .. QMax)
               = IF QMin + 1 > QMax THEN 0 ELSE QMax - (QMin + 1) + 1
      BY <1>1, FS_Interval
    <2>2. IsFiniteSet(I) /\ N <= Cardinality(QMin + 1 .. QMax)
      BY <2>1, FS_Subset
    <2>3. N \in Nat
      BY <2>2, FS_CardinalityType
    <2>4. QED
      BY <1>1, <2>1, <2>2, <2>3
  <1>3. IsFiniteSet(S) /\ Cardinality(S) = N
    <2> DEFINE g == [s \in I |-> QItemKey(n, s)]
    <2>1. g \in [I -> S] /\ \A s, t \in I : g[s] = g[t] => s = t
      BY DEF QItemKey
    <2>2. \A x \in S : \E s \in I : g[s] = x
      OBVIOUS
    <2>3. g \in Bijection(I, S)
      <3> HIDE DEF S, g
      <3>1. QED
        BY <2>1, <2>2 DEF Bijection, Injection, Surjection, IsInjective
    <2>4. ExistsBijection(I, S)
      BY <2>3 DEF ExistsBijection
    <2>5. QED
      BY <1>2, <2>4, FS_Bijection
  <1>4. sorted = [i \in 1 .. N |-> CHOOSE x \in S : Cardinality(Below(x)) = i - 1]
    BY <1>3 DEF Sorted
  <1>5. \A x \in S : x[3] \in I /\ x = QItemKey(n, x[3])
    BY DEF QItemKey
  <1>6. \A x, y \in S : Less(x, y) <=> x[3] < y[3]
    BY <1>5, ItemBefore
  <1>7. \A s \in I : QItemKey(n, s) \in S /\ QItemKey(n, s)[3] = s
    BY DEF QItemKey
  <1> HIDE DEF S, sorted, N
  <1>8. ASSUME I # {}
        PROVE  /\ N >= 1
               /\ sorted[1][3] \in I /\ sorted[N][3] \in I
               /\ \A s \in I : sorted[1][3] <= s /\ s <= sorted[N][3]
    <2>1. N >= 1
      BY <1>2, <1>8, FS_EmptySet DEF N
    <2>2. PICK x \in S : Cardinality(Below(x)) = 0
      <3>1. PICK s \in I : \A t \in I : s <= t
        BY <1>1, <1>8, LeastNat
      <3>2. ASSUME NEW y \in S PROVE ~(y[3] < s)
        <4>1. s \in Nat /\ y[3] \in Nat /\ s <= y[3]
          BY <1>1, <1>5, <3>1
        <4>2. QED
          BY <4>1
      <3>3. \A y \in S : ~Less(y, QItemKey(n, s))
        BY <1>6, <1>7, <3>2, Zenon
      <3>4. Below(QItemKey(n, s)) = {}
        BY <3>3
      <3>5. QED
        BY <1>7, <3>4, FS_EmptySet
    <2> DEFINE first == sorted[1]  final == sorted[N]
    <2>3. first \in S /\ Cardinality(Below(first)) = 0
      <3>1. first = CHOOSE y \in S : Cardinality(Below(y)) = 0
        <4>1. 1 \in 1 .. N /\ 1 - 1 = 0
          BY <1>2, <2>1
        <4> HIDE DEF Below
        <4>2. QED
          BY <1>4, <4>1
      <3> HIDE DEF Below, first
      <3>2. QED
        BY <2>2, <3>1
    <2>4. Below(first) = {}
      <3>1. IsFiniteSet(Below(first))
        BY <1>3, FS_Subset
      <3>2. QED
        BY <2>3, <3>1, FS_EmptySet
    <2>5. PICK z \in S : Cardinality(Below(z)) = N - 1
      <3>1. PICK s \in I : \A t \in I : t <= s
        BY <1>1, <1>8, GreatestNat
      <3>2. \A y \in S : Less(y, QItemKey(n, s)) <=> y # QItemKey(n, s)
        <4>1. ASSUME NEW y \in S PROVE y[3] < s <=> y # QItemKey(n, s)
          <5>1. s \in Nat /\ y[3] \in Nat /\ y[3] <= s
            BY <1>1, <1>5, <3>1
          <5>2. y[3] = s <=> y = QItemKey(n, s)
            BY <1>5, <1>7, Zenon
          <5>3. QED
            BY <5>1, <5>2
        <4>2. QED
          BY <1>6, <1>7, <4>1, Zenon
      <3>3. Cardinality(S \ {QItemKey(n, s)}) = N - 1
        BY <1>3, <1>7, FS_RemoveElement
      <3>4. Below(QItemKey(n, s)) = S \ {QItemKey(n, s)}
        BY <3>2
      <3>5. QED
        BY <1>7, <3>3, <3>4
    <2>6. final \in S /\ Cardinality(Below(final)) = N - 1
      <3>1. final = CHOOSE y \in S : Cardinality(Below(y)) = N - 1
        <4>1. N \in 1 .. N
          BY <1>2, <2>1
        <4> HIDE DEF Below
        <4>2. QED
          BY <1>4, <4>1
      <3> HIDE DEF Below, final
      <3>2. QED
        BY <2>5, <3>1
    <2>7. ASSUME NEW y \in S, final[3] < y[3] PROVE FALSE
      <3>1. y # final /\ Below(final) \subseteq (S \ {final}) \ {y}
        <4>1. final[3] \in Nat /\ y[3] \in Nat
          BY <1>1, <1>5, <2>6
        <4>2. ~Less(final, final) /\ ~Less(y, final) /\ y # final
          BY <1>6, <2>6, <2>7, <4>1
        <4>3. QED
          BY <4>2
      <3>2. IsFiniteSet(S \ {final}) /\ Cardinality(S \ {final}) = N - 1
        BY <1>3, <2>6, FS_RemoveElement
      <3>3. /\ IsFiniteSet((S \ {final}) \ {y})
            /\ Cardinality((S \ {final}) \ {y}) = N - 1 - 1
        BY <2>7, <3>1, <3>2, FS_RemoveElement
      <3>4. Cardinality(Below(final)) <= N - 1 - 1
        BY <3>1, <3>3, FS_Subset
      <3>5. QED
        BY <1>2, <2>6, <3>4
    <2>8. first[3] \in I /\ final[3] \in I
      BY <1>5, <2>3, <2>6
    <2>9. ASSUME NEW s \in I PROVE first[3] <= s /\ s <= final[3]
      <3>1. ~(s < first[3])
        BY <1>6, <1>7, <2>3, <2>4
      <3>2. ~(final[3] < s)
        BY <1>7, <2>7
      <3>3. QED
        BY <1>1, <2>8, <3>1, <3>2
    <2>10. QED
      BY <2>1, <2>8, <2>9
  <1>9. IsSeq(sorted) /\ Len(sorted) = N
    <2> DEFINE T == {sorted[i] : i \in 1 .. N}
    <2>1. DOMAIN sorted = 1 .. N /\ sorted \in [1 .. N -> T]
      <3> DEFINE e(i) == CHOOSE x \in S : Cardinality(Below(x)) = i - 1
      <3>1. sorted = [i \in 1 .. N |-> e(i)]
        BY <1>4
      <3> HIDE DEF e
      <3>2. QED
        BY <3>1
    <2>2. N \in Nat
      BY <1>2, PlacesDiffer
    <2>3. sorted \in Seq(T)
      <3> HIDE DEF T
      <3>1. QED
        BY <2>1, <2>2, SeqDef
    <2>4. Len(sorted) = N
      BY <2>1, <2>2, <2>3, LenProperties
    <2>5. QED
      BY <2>1, <2>3, <2>4 DEF IsSeq
  <1>10. QED
    BY <1>2, <1>8, <1>9 DEF S, sorted, N

LEMMA FixItems ==
    ASSUME NEW n \in QNames, WellFormed(db)
    PROVE  LET items == QfixItems(n)
               I == Items(n)
           IN /\ items = <<>> <=> I = {}
              /\ I # {} => /\ Len(items) = Cardinality(I) /\ Len(items) \in Nat \ {0}
                           /\ items[1][3] \in I /\ items[Len(items)][3] \in I
                           /\ \A s \in I : items[1][3] <= s /\ s <= items[Len(items)][3]
  <1> DEFINE I == Items(n)
             S == {QItemKey(n, s) : s \in I}
             sorted == Sorted(S, Less)
             N == Cardinality(I)
  <1>1. /\ IsFiniteSet(I) /\ N \in 0 .. QMax
        /\ IsSeq(sorted) /\ Len(sorted) = N
        /\ I # {} => /\ N >= 1
                     /\ sorted[1][3] \in I /\ sorted[N][3] \in I
                     /\ \A s \in I : sorted[1][3] <= s /\ s <= sorted[N][3]
    <2>1. I \subseteq QMin + 1 .. QMax
      BY DEF Items
    <2> HIDE DEF I
    <2>2. QED
      BY <2>1, SortedItems
  <1>2. QfixItems(n) = SubSeq(sorted, 1, Min({QMax, Len(sorted)}))
    BY FixInside DEF QfixItems, Iterated
  <1> HIDE DEF S, sorted, N
  <1>3. QMax \in Nat /\ N \in Nat /\ N <= QMax
    BY <1>1, PlacesDiffer
  <1>4. Min({QMax, Len(sorted)}) = N
    <2>1. \A m \in {QMax, N} : (\A j \in {QMax, N} : m =< j) <=> m = N
      BY <1>3
    <2>2. QED
      BY <1>1, <2>1 DEF Min
  <1> DEFINE items == QfixItems(n)  T == {sorted[i] : i \in DOMAIN sorted}
  <1>5. items = SubSeq(sorted, 1, N)
    BY <1>2, <1>4
  <1>6. \A i \in 1 .. N : sorted[i] \in T
    <2>1. DOMAIN sorted = 1 .. N
      BY <1>1, LenProperties DEF IsSeq
    <2>2. QED
      BY <2>1
  <1> HIDE DEF items, T
  <1>7. /\ items \in Seq(T) /\ Len(items) = (IF 1 <= N THEN N - 1 + 1 ELSE 0)
        /\ \A i \in 1 .. N - 1 + 1 : items[i] = sorted[1 + i - 1]
    BY <1>3, <1>5, <1>6, SubSeqProperties
  <1>8. Len(items) = N
    BY <1>3, <1>7
  <1>9. items = <<>> <=> I = {}
    <2>1. N = 0 <=> I = {}
      BY <1>1, FS_EmptySet DEF N
    <2>2. items = <<>> <=> Len(items) = 0
      BY <1>7, EmptySeq
    <2>3. QED
      BY <1>8, <2>1, <2>2
  <1>10. ASSUME I # {} PROVE items[1] = sorted[1] /\ items[N] = sorted[N] /\ N \in Nat \ {0}
    BY <1>1, <1>3, <1>7, <1>10
  <1>11. QED
    BY <1>1, <1>8, <1>9, <1>10 DEF items, N

\* A batch of the size of a queue and its ends.
LEMMA QueueBatch ==
    ASSUME NEW n, NEW a, NEW b, NEW c,
           a.key = QSizeKey(n), b.key = QItemKey(n, QFRONT), c.key = QItemKey(n, QBACK)
    PROVE  /\ Batch(<<a, b, c>>, QueueKeys, n)
           /\ Writes(<<a, b, c>>, a.key, a) /\ Writes(<<a, b, c>>, b.key, b)
           /\ Writes(<<a, b, c>>, c.key, c)
           /\ \A x : x # a.key /\ x # b.key /\ x # c.key => Untouched(<<a, b, c>>, x)
  <1>1. a.key # b.key /\ a.key # c.key /\ b.key # c.key
    BY PlacesDiffer, QueueKeysAt
  <1>2. /\ <<a, b, c>> \in Seq({a, b, c})
        /\ \A x : a.key # x /\ b.key # x /\ c.key # x => Untouched(<<a, b, c>>, x)
        /\ Writes(<<a, b, c>>, a.key, a) /\ Writes(<<a, b, c>>, b.key, b)
        /\ Writes(<<a, b, c>>, c.key, c)
    BY <1>1, ThreeBatch
  <1>3. \A x \in {a.key, b.key, c.key} : Shaped(x) /\ x[1] \in QueueKeys /\ x[2] = n
    BY PlacesDiffer, QueueKeysAt
  <1> DEFINE t == <<a, b, c>>
  <1> HIDE DEF t
  <1>4. IsSeq(t)
    BY <1>2, SeqIsSeq DEF t
  <1>5. OnlyAt(t, QueueKeys, n)
    BY <1>2, <1>3 DEF t, OnlyAt
  <1>6. QED
    BY <1>2, <1>4, <1>5 DEF t, Batch

LEMMA QfixWorks ==
    ASSUME NEW n
    PROVE  Works(Qfix(n), QueueKeys, n)
  <1> DEFINE items == QfixItems(n)
             F == QItemKey(n, QFRONT)  K == QItemKey(n, QBACK)  Z == QSizeKey(n)
             u == Delete(Z)  v == Delete(F)  w == Delete(K)
             a == Put(Z, Len(items))  b == Put(F, items[1][3])  c == Put(K, items[Len(items)][3])
  <1>1. /\ u.key = Z /\ v.key = F /\ w.key = K
        /\ a.key = Z /\ b.key = F /\ c.key = K
    BY DEF Put, Delete
  <1>2. Qfix(n).logs = <<>> /\ Qfix(n).batch \in {<<u, v, w>>, <<a, b, c>>}
    BY DEF Qfix, Commit
  <1> HIDE DEF u, v, w, a, b, c
  <1>3. Batch(<<u, v, w>>, QueueKeys, n) /\ Batch(<<a, b, c>>, QueueKeys, n)
    BY <1>1, QueueBatch
  <1>4. IsSeq(<<>>)
    BY NoneIsBatch
  <1>5. QED
    BY <1>2, <1>3, <1>4 DEF Works

\* The entries of a queue that qset_by_seq did not write behind.
LEMMA ItemsRight ==
    ASSUME NEW n, QueueEnds(n), QueueRight(n)
    PROVE  LET front == Sequence(n, QFRONT)
               back == Sequence(n, QBACK)
           IN Items(n) = IF QSizeKey(n) \in DOMAIN db THEN front .. back ELSE {}
  <1> DEFINE front == Sequence(n, QFRONT)
             back == Sequence(n, QBACK)
  <1>1. CASE QSizeKey(n) \in DOMAIN db
    <2>1. /\ front \in QMin + 1 .. QMax /\ back \in QMin + 1 .. QMax
          /\ QMin \in Nat /\ QMax \in Nat
      BY <1>1, QueueValues, PlacesDiffer
    <2>2. \A s \in QMin + 1 .. QMax : QItemKey(n, s) \in DOMAIN db <=> s \in front .. back
      BY <1>1, PlacesDiffer DEF QueueRight
    <2> HIDE DEF front, back
    <2>3. front .. back \subseteq QMin + 1 .. QMax
      BY <2>1
    <2>4. QED
      BY <1>1, <2>2, <2>3 DEF Items, front, back
  <1>2. CASE QSizeKey(n) \notin DOMAIN db
    <2>1. \A s \in QMin + 1 .. QMax : QItemKey(n, s) \notin DOMAIN db
      BY <1>2, PlacesDiffer DEF QueueRight
    <2>2. QED
      BY <1>2, <2>1 DEF Items
  <1>3. QED
    BY <1>1, <1>2

\* qfix where it finds no entry.
LEMMA QfixEmpty ==
    ASSUME IInv, NEW n \in QNames, QfixItems(n) = <<>>, ChangesBy(Qfix(n).batch)
    PROVE  QueueEnds(n)' /\ (n \notin orphaned => QueueRight(n)')
  <1> DEFINE F == QItemKey(n, QFRONT)  K == QItemKey(n, QBACK)  Z == QSizeKey(n)
             u == Delete(Z)  v == Delete(F)  w == Delete(K)
  <1>1. u.key = Z /\ v.key = F /\ w.key = K
    BY DEF Delete
  <1>2. Qfix(n).batch = <<u, v, w>>
    BY DEF Qfix, Commit
  <1>3. u = Delete(Z) /\ v = Delete(F) /\ w = Delete(K)
    OBVIOUS
  <1> HIDE DEF u, v, w
  <1>4. /\ Writes(<<u, v, w>>, Z, Delete(Z)) /\ Writes(<<u, v, w>>, F, Delete(F))
        /\ Writes(<<u, v, w>>, K, Delete(K))
        /\ \A x : x # Z /\ x # F /\ x # K => Untouched(<<u, v, w>>, x)
    <2> DEFINE t == <<u, v, w>>
    <2>1. /\ Writes(t, u.key, u) /\ Writes(t, v.key, v) /\ Writes(t, w.key, w)
          /\ \A x : x # u.key /\ x # v.key /\ x # w.key => Untouched(t, x)
      BY <1>1, QueueBatch
    <2> HIDE DEF t, Z, F, K
    <2>2. QED
      BY <1>1, <1>3, <2>1 DEF t
  <1>5. Z[1] # SYNCLOG /\ F[1] # SYNCLOG /\ K[1] # SYNCLOG
    BY QueueKeysAt
  <1> DEFINE B == <<u, v, w>>
  <1>6. ChangesBy(B)
    BY <1>2
  <1> HIDE DEF B, Z, F, K
  <1>7. Gone(Z) /\ Gone(F) /\ Gone(K)
    BY <1>4, <1>5, <1>6, BatchWrites DEF B
  <1>8. \A x : x[1] # SYNCLOG /\ x # Z /\ x # F /\ x # K => Stays(x)
    BY <1>4, <1>6, BatchWrites DEF B
  <1>9. ASSUME n \notin orphaned, NEW s \in Places \ Ends PROVE Gone(QItemKey(n, s))
    <2>1. Items(n) = {}
      BY FixItems DEF IInv
    <2>2. QueueEnds(n) /\ QueueRight(n)
      BY <1>9 DEF IInv
    <2>3. Z \notin DOMAIN db
      <3>1. ASSUME Z \in DOMAIN db PROVE FALSE
        <4>1. Sequence(n, QFRONT) .. Sequence(n, QBACK) = {}
          BY <2>1, <2>2, <3>1, ItemsRight DEF Z
        <4>2. /\ Sequence(n, QFRONT) \in QMin + 1 .. QMax /\ Sequence(n, QBACK) \in QMin + 1 .. QMax
              /\ QSize(n) \in 1 .. Sequence(n, QBACK) - Sequence(n, QFRONT) + 1
          BY <2>2, <3>1, QueueValues DEF Z
        <4>3. QED
          BY <4>1, <4>2, PlacesDiffer
      <3>2. QED
        BY <3>1
    <2>4. QItemKey(n, s) \notin DOMAIN db
      BY <2>2, <2>3 DEF QueueRight, Z
    <2>5. /\ QItemKey(n, s)[1] # SYNCLOG /\ QItemKey(n, s) # Z
          /\ QItemKey(n, s) # F /\ QItemKey(n, s) # K
      BY QueueKeysAt DEF Z, F, K, Ends
    <2>6. QED
      BY <1>8, <2>4, <2>5 DEF Stays, Gone
  <1>10. QED
    BY <1>7, <1>9, QueueEmptied DEF Z, F, K

\* qfix where it finds some.
LEMMA QfixFilled ==
    ASSUME IInv, NEW n \in QNames, QfixItems(n) # <<>>, ChangesBy(Qfix(n).batch)
    PROVE  QueueEnds(n)' /\ (n \notin orphaned => QueueRight(n)')
  <1> DEFINE I == Items(n)
             items == QfixItems(n)
             N == Len(items)  first == items[1][3]  final == items[Len(items)][3]
             F == QItemKey(n, QFRONT)  K == QItemKey(n, QBACK)  Z == QSizeKey(n)
             u == Put(Z, N)  v == Put(F, first)  w == Put(K, final)
             B == <<u, v, w>>
  <1>1. u.key = Z /\ v.key = F /\ w.key = K
    BY DEF Put
  <1>2. ChangesBy(B)
    BY DEF Qfix, Commit
  <1>3. u = Put(Z, N) /\ v = Put(F, first) /\ w = Put(K, final)
    OBVIOUS
  <1>4. /\ N = Cardinality(I) /\ N \in Nat \ {0}
        /\ first \in I /\ final \in I
        /\ \A s \in I : first <= s /\ s <= final
    BY FixItems DEF IInv
  <1>5. I \subseteq QMin + 1 .. QMax /\ I \subseteq Int
    BY PlacesDiffer DEF Items
  <1>6. n \notin orphaned => I = IF Z \in DOMAIN db
                                 THEN Sequence(n, QFRONT) .. Sequence(n, QBACK) ELSE {}
    BY ItemsRight DEF IInv
  <1> HIDE DEF I, items, N, first, final, u, v, w
  <1>7. /\ Writes(B, Z, Put(Z, N)) /\ Writes(B, F, Put(F, first))
        /\ Writes(B, K, Put(K, final))
        /\ \A x : x # Z /\ x # F /\ x # K => Untouched(B, x)
    <2>1. /\ Writes(B, u.key, u) /\ Writes(B, v.key, v) /\ Writes(B, w.key, w)
          /\ \A x : x # u.key /\ x # v.key /\ x # w.key => Untouched(B, x)
      BY <1>1, QueueBatch
    <2> HIDE DEF B, Z, F, K
    <2>2. QED
      BY <1>1, <1>3, <2>1
  <1>8. Z[1] # SYNCLOG /\ F[1] # SYNCLOG /\ K[1] # SYNCLOG
    BY QueueKeysAt
  <1> HIDE DEF B, Z, F, K
  <1>9. Becomes(Z, N) /\ Becomes(F, first) /\ Becomes(K, final)
    BY <1>2, <1>7, <1>8, BatchWrites
  <1>10. \A x : x[1] # SYNCLOG /\ x # Z /\ x # F /\ x # K => Stays(x)
    BY <1>2, <1>7, BatchWrites
  <1>11. first \in Int /\ final \in Int /\ first <= final
    BY <1>4, <1>5
  <1>12. IsFiniteSet(first .. final) /\ Cardinality(first .. final) = final - first + 1
    BY <1>11, FS_Interval
  <1>13. N \in 1 .. final - first + 1
    <2>1. I \subseteq first .. final
      BY <1>4, <1>5, <1>11
    <2>2. N <= final - first + 1
      BY <1>4, <1>12, <2>1, FS_Subset
    <2>3. QED
      BY <1>4, <1>11, <2>2
  <1>14. QueueEnds(n)' /\ (N = final - first + 1 /\ (\A s \in Places \ Ends :
             QItemKey(n, s) \in DOMAIN db' <=> s \in first .. final) => QueueRight(n)')
    BY <1>4, <1>5, <1>9, <1>13, QueueFilled DEF Z, F, K
  <1>15. ASSUME n \notin orphaned PROVE QueueRight(n)'
    <2> DEFINE front == Sequence(n, QFRONT)  back == Sequence(n, QBACK)
    <2>1. Z \in DOMAIN db /\ I = front .. back
      BY <1>4, <1>6, <1>15
    <2>2. front \in Int /\ back \in Int
      BY <1>15, <2>1, QueueValues, PlacesDiffer DEF IInv, Z
    <2>3. \A s \in Places \ Ends : QItemKey(n, s) \in DOMAIN db <=> s \in front .. back
      BY <1>15, <2>1 DEF IInv, QueueRight, Z
    <2> HIDE DEF front, back
    <2>4. I = first .. final
      <3>1. front <= first /\ first <= back /\ front <= final /\ final <= back
        BY <1>4, <2>1
      <3>2. front \in I /\ back \in I
        BY <1>11, <2>1, <2>2, <3>1
      <3>3. first <= front /\ back <= final
        BY <1>4, <3>2
      <3>4. first = front /\ final = back
        BY <1>11, <2>2, <3>1, <3>3
      <3>5. QED
        BY <2>1, <3>4
    <2>5. ASSUME NEW s \in Places \ Ends
          PROVE  QItemKey(n, s) \in DOMAIN db' <=> s \in first .. final
      <3>1. /\ QItemKey(n, s)[1] # SYNCLOG /\ QItemKey(n, s) # Z
            /\ QItemKey(n, s) # F /\ QItemKey(n, s) # K
        BY QueueKeysAt DEF Z, F, K, Ends
      <3>2. Stays(QItemKey(n, s))
        BY <1>10, <3>1
      <3>3. QED
        BY <2>1, <2>3, <2>4, <3>2 DEF Stays
    <2>6. N = final - first + 1
      BY <1>4, <1>12, <2>4
    <2>7. QED
      BY <1>14, <2>5, <2>6
  <1>16. QED
    BY <1>14, <1>15

LEMMA QueueFixStep == IInv /\ QueueFix => IInv'
  <1> SUFFICES ASSUME IInv, QueueFix PROVE IInv'
    OBVIOUS
  <1>1. PICK n \in QNames, f \in Faults({"write"}) : Operation(<<"qfix", n>>, Qfix(n), f)
    BY DEF QueueFix
  <1> DEFINE call == <<"qfix", n>>  o == Qfix(n)
  <1>2. Transact(call, o, f) /\ orphaned' = orphaned
    BY <1>1 DEF Operation
  <1>3. Works(o, QueueKeys, n)
    BY QfixWorks
  <1>4. ChangesBy(o.batch) => QueueEnds(n)' /\ (n \notin orphaned' => QueueRight(n)')
    BY <1>2, QfixEmpty, QfixFilled
  <1> HIDE DEF call, o
  <1>5. QED
    BY ONLY IInv, <1>2, <1>3, <1>4, n \in QNames, QueueTransact

-----------------------------------------------------------------------------
(* The invariant holds.                                                    *)

LEMMA InitRight == Init => IInv
  <1> SUFFICES ASSUME Init PROVE IInv
    OBVIOUS
  <1>1. DOMAIN db = {}
    BY DEF Init
  <1>2. WellFormed(db)
    BY <1>1 DEF WellFormed
  <1>3. ASSUME NEW n
        PROVE  /\ DOMAIN Hash(db, n) = {} /\ DOMAIN Zset(db, n) = {}
               /\ {x \in Of(db, ZSCORE) : x[2] = n} = {}
    BY <1>1 DEF Hash, Zset, Of
  <1>4. IsFiniteSet({}) /\ Cardinality({}) = 0
    BY FS_EmptySet
  <1>5. ASSUME NEW n PROVE HashRight(n)
    BY <1>1, <1>3, <1>4 DEF HashRight, Counts
  <1>6. ASSUME NEW n PROVE ZsetRight(n)
    <2>1. {ZscoreKey(n, k, Zset(db, n)[k]) : k \in DOMAIN Zset(db, n)} = {}
      BY <1>3
    <2>2. QED
      BY <1>1, <1>3, <1>4, <2>1 DEF ZsetRight, Counts
  <1>7. ASSUME NEW n PROVE QueueEnds(n) /\ QueueRight(n)
    BY <1>1 DEF QueueEnds, QueueRight
  <1>8. QED
    BY <1>2, <1>5, <1>6, <1>7 DEF IInv

LEMMA NextRight == IInv /\ [Next]_vars => IInv'
  <1> SUFFICES ASSUME IInv, [Next]_vars PROVE IInv'
    OBVIOUS
  <1>1. CASE KvSet \/ KvSetnx \/ KvGetset \/ KvDel \/ KvIncr
    BY ONLY IInv, <1>1, SetSteps
  <1>2. CASE KvMultiSet \/ KvMultiDel
    BY ONLY IInv, <1>2, MultiSteps
  <1>3. CASE HashSet \/ HashDel \/ HashIncr \/ \E f : HclearDel(f)
    BY ONLY IInv, <1>3, HashSteps
  <1>4. CASE ZsetSet \/ ZsetDel \/ ZsetIncr
    BY ONLY IInv, <1>4, ZsetSteps
  <1>5. CASE QueuePush \/ QueuePop \/ QueueSet \/ QueueSetBySeq \/ QueueFix
    BY ONLY IInv, <1>5, QueuePushStep, QueuePopStep, QueueSetStep, QueueSetBySeqStep, QueueFixStep
  <1>6. CASE \/ (\E n : HclearBegin(n)) \/ HclearAgain \/ HclearEnd
             \/ Restart \/ CleanBegin \/ (\E f : CleanChunk(f)) \/ CleanEnd
    BY ONLY IInv, <1>6, CleanSteps
  <1>7. CASE UNCHANGED vars
    BY <1>7, SameStep DEF vars
  <1>8. QED
    BY <1>1, <1>2, <1>3, <1>4, <1>5, <1>6, <1>7, Zenon DEF Next

LEMMA QueueMember ==
    ASSUME NEW n, WellFormed(db)
    PROVE  {x[3] : x \in {y \in Primary(db) : y[1] = QUEUE /\ y[2] = n}}
             = {s \in Places \ Ends : QItemKey(n, s) \in DOMAIN db}
  <1>1. ASSUME NEW y \in Primary(db), y[1] = QUEUE, y[2] = n
        PROVE  y[3] \in Places \ Ends /\ QItemKey(n, y[3]) \in DOMAIN db
    <2>1. y \in DOMAIN db /\ y[3] \notin Ends
      BY <1>1 DEF Primary, Ends, QUEUE, KV, HASH, ZSET
    <2>2. y = <<y[1], y[2], y[3]>> /\ y[3] \in Places
      BY <1>1, <2>1 DEF WellFormed, Shaped, QUEUE, SYNCLOG, KV, HSIZE, ZSIZE, QSIZE, HASH,
                        ZSET, ZSCORE
    <2>3. y = QItemKey(n, y[3])
      BY <1>1, <2>2 DEF QItemKey
    <2>4. QED
      BY <2>1, <2>2, <2>3
  <1>2. ASSUME NEW s \in Places \ Ends, QItemKey(n, s) \in DOMAIN db
        PROVE  LET y == QItemKey(n, s)
               IN y \in Primary(db) /\ y[1] = QUEUE /\ y[2] = n /\ y[3] = s
    BY <1>2 DEF Primary, Ends, QItemKey
  <1>3. QED
    BY <1>1, <1>2

LEMMA QueueCounted ==
    ASSUME NEW n, WellFormed(db), QueueEnds(n), QueueRight(n)
    PROVE  LET items == {x[3] : x \in {y \in Primary(db) : y[1] = QUEUE /\ y[2] = n}}
           IN /\ Counts(db, QSizeKey(n), Cardinality(items))
              /\ items = {} => \A end \in Ends : QItemKey(n, end) \notin DOMAIN db
              /\ items # {} => items = Sequence(n, QFRONT) .. Sequence(n, QBACK)
  <1> DEFINE items == {x[3] : x \in {y \in Primary(db) : y[1] = QUEUE /\ y[2] = n}}
             front == Sequence(n, QFRONT)
             back == Sequence(n, QBACK)
  <1>1. items = {s \in Places \ Ends : QItemKey(n, s) \in DOMAIN db}
    BY QueueMember
  <1> HIDE DEF items
  <1>2. CASE QSizeKey(n) \in DOMAIN db
    <2>1. /\ front \in QMin + 1 .. QMax /\ back \in QMin + 1 .. QMax
          /\ QSize(n) \in 1 .. back - front + 1 /\ db[QSizeKey(n)] = QSize(n)
          /\ QMin \in Nat /\ QMax \in Nat
      BY <1>2, QueueValues, PlacesDiffer
    <2>2. /\ QSize(n) = back - front + 1
          /\ \A s \in Places \ Ends : QItemKey(n, s) \in DOMAIN db <=> s \in front .. back
      BY <1>2 DEF QueueRight
    <2> HIDE DEF front, back
    <2>3. front .. back \subseteq QMin + 1 .. QMax
      BY <2>1
    <2>4. items = front .. back
      BY <1>1, <2>2, <2>3, PlacesDiffer
    <2>5. front \in Int /\ back \in Int /\ ~(front > back) /\ back - front + 1 # 0
      BY <2>1, <2>2
    <2>6. Cardinality(items) = QSize(n) /\ items # {} /\ QSize(n) # 0
      <3>1. Cardinality(front .. back) = back - front + 1
        BY <2>5, FS_Interval
      <3>2. front \in front .. back
        BY <2>5
      <3>3. QED
        BY <2>2, <2>4, <2>5, <3>1, <3>2
    <2>7. QED
      BY <1>2, <2>1, <2>4, <2>6 DEF Counts, items, front, back
  <1>3. CASE QSizeKey(n) \notin DOMAIN db
    <2>1. items = {}
      BY <1>1, <1>3 DEF QueueRight
    <2>2. \A end \in Ends : QItemKey(n, end) \notin DOMAIN db
      BY <1>3 DEF QueueEnds, Ends
    <2>3. Cardinality(items) = 0
      BY <2>1, FS_EmptySet
    <2>4. QED
      BY <1>3, <2>1, <2>2, <2>3 DEF Counts, items
  <1>4. QED
    BY <1>2, <1>3

LEMMA RightCounts == IInv => CountersAgree
  <1> SUFFICES ASSUME IInv PROVE CountersAgree
    OBVIOUS
  <1>1. ASSUME NEW n \in HNames, <<HASH, n>> \notin misread
        PROVE  Counts(db, HSizeKey(n), Cardinality(DOMAIN Hash(db, n)))
    BY <1>1 DEF IInv, HashRight
  <1>2. ASSUME NEW n \in ZNames, <<ZSET, n>> \notin misread
        PROVE  /\ Counts(db, ZSizeKey(n), Cardinality(DOMAIN Zset(db, n)))
               /\ {x \in Of(db, ZSCORE) : x[2] = n}
                    = {ZscoreKey(n, k, Zset(db, n)[k]) : k \in DOMAIN Zset(db, n)}
    BY <1>2 DEF IInv, ZsetRight
  <1>3. ASSUME NEW n \in QNames \ orphaned
        PROVE  LET items == {x[3] : x \in {y \in Primary(db) : y[1] = QUEUE /\ y[2] = n}}
               IN /\ Counts(db, QSizeKey(n), Cardinality(items))
                  /\ items = {} => \A end \in Ends : QItemKey(n, end) \notin DOMAIN db
                  /\ items # {} => items = Sequence(n, QFRONT) .. Sequence(n, QBACK)
    BY QueueCounted DEF IInv
  <1>4. QED
    BY <1>1, <1>2, <1>3 DEF CountersAgree, Counts

\* However operations, restarts, the cleaning thread and failures of reads
\* and writes interleave: every key in the store has the shape its type says;
\* a hash or sorted set whose reads never failed is counted, and indexed by
\* score, as it is; the ends and the size of a queue come and go together.
THEOREM StoreRight == Spec => []IInv
  <1>1. Init => IInv
    BY InitRight
  <1>2. IInv /\ [Next]_vars => IInv'
    BY NextRight
  <1>3. QED
    BY <1>1, <1>2, PTL DEF Spec

\* Counters, score index and queue ends agree with the entries, for any sets
\* of names, keys, values and scores: what incr_hsize, zset_one, incr_zsize,
\* _qpush, _qpop, qset_by_seq and qfix leave behind one another is consistent.
THEOREM CountersFollow == Spec => []CountersAgree
  <1>1. IInv => CountersAgree
    BY RightCounts
  <1>2. QED
    BY <1>1, StoreRight, PTL


-----------------------------------------------------------------------------
(* The binlog.  A transaction tells what it changes: each entry in its     *)
(* batch is named by one of its records.                                   *)

IsEntry(x) == x[1] \in {KV, HASH, ZSET} \/ (x[1] = QUEUE /\ x[3] \notin {QFRONT, QBACK})

\* The batch B leaves the binlog alone, and every entry but y.
Safe(B, y) ==
    /\ IsSeq(B)
    /\ \A x : x[1] = SYNCLOG \/ (IsEntry(x) /\ x # y) => Untouched(B, x)

Told(o) ==
    o.commits =>
      /\ IsSeq(o.batch) /\ IsSeq(o.logs)
      /\ \A x : x[1] = SYNCLOG => Untouched(o.batch, x)
      /\ \A x : IsEntry(x) /\ ~Untouched(o.batch, x) => \E i \in DOMAIN o.logs : Tells(o.logs[i], x)

\* A key that is neither an entry nor in the binlog.
NoLog == <<HSIZE>>

LEMMA SafeNone == \A y : Safe(<<>>, y)
  <1>1. IsSeq(<<>>) /\ \A x : Untouched(<<>>, x)
    BY NoneIsBatch, NoBatch
  <1>2. QED
    BY <1>1, Zenon DEF Safe

LEMMA SafeOne ==
    ASSUME NEW a, NEW y, a.key[1] # SYNCLOG, a.key = y \/ ~IsEntry(a.key)
    PROVE  Safe(<<a>>, y)
  <1>1. IsSeq(<<a>>)
    BY OneIsSeq
  <1>2. \A x : a.key # x => Untouched(<<a>>, x)
    BY OneBatch
  <1>3. QED
    BY <1>1, <1>2 DEF Safe

LEMMA SafeConcat ==
    ASSUME NEW A, NEW B, NEW y, Safe(A, y), Safe(B, y)
    PROVE  Safe(A \o B, y)
  <1> DEFINE S == {A[i] : i \in DOMAIN A}  T == {B[i] : i \in DOMAIN B}
  <1>1. A \in Seq(S) /\ B \in Seq(T)
    BY DEF Safe, IsSeq
  <1> HIDE DEF S, T
  <1>2. A \o B \in Seq(S \cup T)
    BY ONLY <1>1, ConcatBatches, Zenon
  <1>3. \A x : Untouched(A, x) /\ Untouched(B, x) => Untouched(A \o B, x)
    BY ONLY <1>1, ConcatBatches, Zenon
  <1> DEFINE C == A \o B
  <1> HIDE DEF C
  <1>4. IsSeq(C)
    BY <1>2, SeqIsSeq DEF C
  <1>5. ASSUME NEW x, x[1] = SYNCLOG \/ (IsEntry(x) /\ x # y) PROVE Untouched(C, x)
    BY <1>3, <1>5 DEF Safe, C
  <1>6. QED
    BY <1>4, <1>5 DEF Safe, C

LEMMA SafeTwo ==
    ASSUME NEW a, NEW b, NEW y, Safe(<<a>>, y), Safe(<<b>>, y)
    PROVE  Safe(<<a, b>>, y)
  <1>1. IsSeq(<<a, b>>)
    BY TwoBatch, SeqIsSeq
  <1>2. \A x : Untouched(<<a>>, x) => a.key # x
    BY DEF Untouched
  <1>3. \A x : Untouched(<<b>>, x) => b.key # x
    BY DEF Untouched
  <1>4. \A x : a.key # x /\ b.key # x => Untouched(<<a, b>>, x)
    BY TwoBatch
  <1>5. QED
    BY <1>1, <1>2, <1>3, <1>4 DEF Safe

LEMMA SafeThree ==
    ASSUME NEW a, NEW b, NEW c, NEW y, a.key # b.key, a.key # c.key, b.key # c.key,
           Safe(<<a>>, y), Safe(<<b>>, y), Safe(<<c>>, y)
    PROVE  Safe(<<a, b, c>>, y)
  <1>1. IsSeq(<<a, b, c>>)
    BY ThreeBatch, SeqIsSeq
  <1>2. \A x : Untouched(<<a>>, x) => a.key # x
    BY DEF Untouched
  <1>3. \A x : Untouched(<<b>>, x) => b.key # x
    BY DEF Untouched
  <1>4. \A x : Untouched(<<c>>, x) => c.key # x
    BY DEF Untouched
  <1>5. \A x : a.key # x /\ b.key # x /\ c.key # x => Untouched(<<a, b, c>>, x)
    BY ThreeBatch
  <1>6. QED
    BY <1>1, <1>2, <1>3, <1>4, <1>5 DEF Safe

\* Which keys are entries.
LEMMA EntryKeys ==
    /\ \A k : KvKey(k)[1] # SYNCLOG
    /\ \A n, k : HashKey(n, k)[1] # SYNCLOG /\ ZsetKey(n, k)[1] # SYNCLOG
    /\ \A n : /\ HSizeKey(n)[1] # SYNCLOG /\ ~IsEntry(HSizeKey(n))
              /\ ZSizeKey(n)[1] # SYNCLOG /\ ~IsEntry(ZSizeKey(n))
              /\ QSizeKey(n)[1] # SYNCLOG /\ ~IsEntry(QSizeKey(n))
              /\ ~IsEntry(QItemKey(n, QFRONT)) /\ ~IsEntry(QItemKey(n, QBACK))
    /\ \A n, s : QItemKey(n, s)[1] # SYNCLOG
    /\ \A n, k, score : ZscoreKey(n, k, score)[1] # SYNCLOG /\ ~IsEntry(ZscoreKey(n, k, score))
  <1>1. \A k : KvKey(k)[1] # SYNCLOG
    BY DEF KvKey, KV, SYNCLOG
  <1>2. \A n, k : HashKey(n, k)[1] # SYNCLOG /\ ZsetKey(n, k)[1] # SYNCLOG
    BY DEF HashKey, ZsetKey, HASH, ZSET, SYNCLOG
  <1>3. \A n : /\ HSizeKey(n)[1] # SYNCLOG /\ ~IsEntry(HSizeKey(n))
               /\ ZSizeKey(n)[1] # SYNCLOG /\ ~IsEntry(ZSizeKey(n))
               /\ QSizeKey(n)[1] # SYNCLOG /\ ~IsEntry(QSizeKey(n))
    BY DEF IsEntry, HSizeKey, ZSizeKey, QSizeKey, HSIZE, ZSIZE, QSIZE, KV, HASH, ZSET, QUEUE, SYNCLOG
  <1>4. \A n : ~IsEntry(QItemKey(n, QFRONT)) /\ ~IsEntry(QItemKey(n, QBACK))
    BY DEF IsEntry, QItemKey, QUEUE, KV, HASH, ZSET
  <1>5. \A n, s : QItemKey(n, s)[1] # SYNCLOG
    BY DEF QItemKey, QUEUE, SYNCLOG
  <1>6. \A n, k, score : ZscoreKey(n, k, score)[1] # SYNCLOG /\ ~IsEntry(ZscoreKey(n, k, score))
    BY DEF IsEntry, ZscoreKey, ZSCORE, KV, HASH, ZSET, QUEUE, SYNCLOG
  <1>7. QED
    BY <1>1, <1>2, <1>3, <1>4, <1>5, <1>6

\* One record for one entry.
LEMMA OneTold ==
    ASSUME NEW o, NEW y, NEW l, o.commits => Safe(o.batch, y) /\ o.logs = <<l>>, Tells(l, y)
    PROVE  Told(o)
  <1>1. SUFFICES ASSUME o.commits
                 PROVE  /\ IsSeq(o.batch) /\ IsSeq(o.logs)
                        /\ \A x : x[1] = SYNCLOG => Untouched(o.batch, x)
                        /\ \A x : IsEntry(x) /\ ~Untouched(o.batch, x)
                                    => \E i \in DOMAIN o.logs : Tells(o.logs[i], x)
    BY DEF Told
  <1>2. Safe(o.batch, y) /\ o.logs = <<l>>
    BY <1>1
  <1>3. 1 \in DOMAIN o.logs /\ o.logs[1] = l
    BY <1>2
  <1>4. IsSeq(o.logs)
    BY <1>2, OneIsSeq
  <1>5. \A x : IsEntry(x) /\ ~Untouched(o.batch, x) => x = y
    BY <1>2 DEF Safe
  <1>6. QED
    BY <1>2, <1>3, <1>4, <1>5 DEF Safe

\* No record where no entry is written.
LEMMA NoneTold ==
    ASSUME NEW o, o.commits => Safe(o.batch, NoLog) /\ o.logs = <<>>
    PROVE  Told(o)
  <1>1. ~IsEntry(NoLog)
    BY DEF IsEntry, NoLog, HSIZE, KV, HASH, ZSET, QUEUE
  <1>2. IsSeq(<<>>)
    BY NoneIsBatch
  <1>3. o.commits => \A x : IsEntry(x) => Untouched(o.batch, x)
    BY <1>1 DEF Safe
  <1>4. QED
    BY <1>2, <1>3 DEF Told, Safe

LEMMA LogTells == \A cmd, x : Tells(Log(cmd, x), x)
  BY DEF Tells, Log

LEMMA ReturnTold == \A ret : Told(Return(ret))
  BY DEF Told, Return

LEMMA NothingTold == \A ret : Told(Commit(<<>>, <<>>, ret))
  <1>1. ASSUME NEW ret PROVE Told(Commit(<<>>, <<>>, ret))
    <2>1. Commit(<<>>, <<>>, ret).batch = <<>> /\ Commit(<<>>, <<>>, ret).logs = <<>>
      BY DEF Commit
    <2>2. QED
      BY <2>1, SafeNone, NoneTold
  <1>2. QED
    BY <1>1

\* What an operation answers besides is nothing to its records.
LEMMA ItemTold ==
    ASSUME NEW o, NEW item, Told(o),
           o = [commits |-> o.commits, batch |-> o.batch, logs |-> o.logs, ret |-> o.ret,
                item |-> o.item, misread |-> o.misread]
    PROVE  Told([o EXCEPT !.item = item])
  <1> DEFINE q == [o EXCEPT !.item = item]
  <1>1. q.commits = o.commits /\ q.batch = o.batch /\ q.logs = o.logs
    OBVIOUS
  <1> HIDE DEF q
  <1>2. QED
    BY <1>1 DEF Told, q

LEMMA StoreTold ==
    ASSUME NEW k, NEW v, NEW ret
    PROVE  Told(Store(k, v, ret)) /\ \A item : Told([Store(k, v, ret) EXCEPT !.item = item])
  <1> DEFINE o == Store(k, v, ret)  p == Put(KvKey(k), v)  l == Log("KSET", KvKey(k))
  <1>1. o.batch = <<p>> /\ o.logs = <<l>>
    BY DEF Store, Commit
  <1>2. p.key = KvKey(k)
    BY DEF Put
  <1>3. Tells(l, KvKey(k))
    BY LogTells
  <1>4. o = [commits |-> o.commits, batch |-> o.batch, logs |-> o.logs, ret |-> o.ret,
             item |-> o.item, misread |-> o.misread]
    BY DEF Store, Commit
  <1> HIDE DEF o, p, l
  <1>5. Safe(<<p>>, KvKey(k))
    BY <1>2, EntryKeys, SafeOne
  <1>6. Told(o)
    BY <1>1, <1>3, <1>5, OneTold
  <1>7. \A item : Told([o EXCEPT !.item = item])
    BY <1>4, <1>6, ItemTold
  <1>8. QED
    BY <1>6, <1>7 DEF o

LEMMA DelTold == \A k : Told(Del(k))
  <1> SUFFICES ASSUME NEW k PROVE Told(Del(k))
    OBVIOUS
  <1> DEFINE p == Delete(KvKey(k))  l == Log("KDEL", KvKey(k))  o == Commit(<<p>>, <<l>>, 1)
  <1>1. o.batch = <<p>> /\ o.logs = <<l>>
    BY DEF Commit
  <1>2. p.key = KvKey(k)
    BY DEF Delete
  <1>3. Tells(l, KvKey(k))
    BY LogTells
  <1>4. Del(k) = Return(-1) \/ Del(k) = o
    BY DEF Del
  <1> HIDE DEF o, p, l
  <1>5. Safe(<<p>>, KvKey(k))
    BY <1>2, EntryKeys, SafeOne
  <1>6. Told(o)
    BY <1>1, <1>3, <1>5, OneTold
  <1>7. QED
    BY <1>4, <1>6, ReturnTold

\* One record for each plain value of a batch.
LEMMA EachTold ==
    ASSUME NEW B, NEW L, NEW ret, IsSeq(B), IsSeq(L), DOMAIN B = DOMAIN L,
           \A i \in DOMAIN B : B[i].key[1] # SYNCLOG /\ Tells(L[i], B[i].key)
    PROVE  Told(Commit(B, L, ret))
  <1> DEFINE o == Commit(B, L, ret)
  <1>1. o.batch = B /\ o.logs = L
    BY DEF Commit
  <1> HIDE DEF o
  <1>2. QED
    BY <1>1 DEF Told, o, Untouched

LEMMA MultiTold ==
    /\ \A kvs \in Pairs : Told(MultiSet(kvs))
    /\ \A k1, k2 : Told(MultiDel(<<k1, k2>>))
  <1>1. ASSUME NEW kvs \in Pairs PROVE Told(MultiSet(kvs))
    <2> DEFINE B == [i \in DOMAIN kvs |-> Put(KvKey(kvs[i][1]), kvs[i][2])]
               L == [i \in DOMAIN kvs |-> Log("KSET", KvKey(kvs[i][1]))]
    <2>1. DOMAIN kvs = 1 .. Len(kvs) /\ Len(kvs) \in Nat
      BY SsdbAssumption, LenProperties
    <2>2. IsSeq(B) /\ IsSeq(L) /\ DOMAIN B = DOMAIN L
      BY <2>1 DEF IsSeq
    <2>3. \A i \in DOMAIN B : B[i].key = KvKey(kvs[i][1])
      BY DEF Put
    <2>4. \A i \in DOMAIN B : Tells(L[i], KvKey(kvs[i][1]))
      BY LogTells
    <2>5. MultiSet(kvs) = Return(0) \/ MultiSet(kvs) = Commit(B, L, Len(kvs))
      BY DEF MultiSet
    <2> HIDE DEF B, L
    <2>6. QED
      BY <2>2, <2>3, <2>4, <2>5, EntryKeys, EachTold, ReturnTold
  <1>2. ASSUME NEW k1, NEW k2 PROVE Told(MultiDel(<<k1, k2>>))
    <2> DEFINE ks == <<k1, k2>>
               B == [i \in DOMAIN ks |-> Delete(KvKey(ks[i]))]
               L == [i \in DOMAIN ks |-> Log("KDEL", KvKey(ks[i]))]
    <2>1. DOMAIN ks = 1 .. 2
      OBVIOUS
    <2>2. MultiDel(ks) = Commit(B, L, Len(ks))
      BY DEF MultiDel
    <2> HIDE DEF ks
    <2>3. IsSeq(B) /\ IsSeq(L) /\ DOMAIN B = DOMAIN L
      BY <2>1 DEF IsSeq
    <2>4. \A i \in DOMAIN B : B[i].key = KvKey(ks[i])
      BY DEF Delete
    <2>5. \A i \in DOMAIN B : Tells(L[i], KvKey(ks[i]))
      BY LogTells
    <2> HIDE DEF B, L
    <2>6. Told(MultiDel(ks))
      BY <2>2, <2>3, <2>4, <2>5, EntryKeys, EachTold
    <2>7. QED
      BY <2>6 DEF ks
  <1>3. QED
    BY <1>1, <1>2

\* A counter that goes with an entry, or does not.
LEMMA SizeSafe ==
    ASSUME NEW c, c[1] # SYNCLOG, ~IsEntry(c), NEW by, NEW f, NEW y
    PROVE  Safe(IncrSize(c, by, f), y)
  <1> DEFINE e == IncrSize(c, by, f)[1]
  <1>1. e.key = c /\ IncrSize(c, by, f) = <<e>>
    BY SizeBatch
  <1> HIDE DEF e
  <1>2. QED
    BY <1>1, SafeOne

LEMMA HashStoredTold ==
    ASSUME NEW n, NEW k, NEW v, NEW failed, NEW ret, NEW f
    PROVE  Told(HashStored(n, k, v, failed, ret, f))
  <1> DEFINE o == HashStored(n, k, v, failed, ret, f)
             one == HsetOne(n, k, v, failed)
             size == IF one.new > 0 THEN IncrSize(HSizeKey(n), 1, f) ELSE <<>>
             x == HashKey(n, k)
             p == Put(x, v)
             l == Log("HSET", x)
             same == Found(x, failed) = 1 /\ db[x] = v
  <1>1. o.batch = one.batch \o size /\ o.logs = one.logs
    BY DEF HashStored, Commit
  <1>2. IF same THEN one.batch = <<>> /\ one.logs = <<>> /\ size = <<>>
                ELSE one.batch = <<p>> /\ one.logs = <<l>>
    BY DEF HsetOne
  <1>3. p.key = x /\ Tells(l, x)
    BY LogTells DEF Put
  <1>4. \A y : Safe(size, y)
    <2>1. \A y : Safe(IncrSize(HSizeKey(n), 1, f), y)
      BY EntryKeys, SizeSafe
    <2> HIDE DEF one
    <2>2. QED
      BY <2>1, SafeNone
  <1>5. x[1] # SYNCLOG
    BY EntryKeys
  <1> HIDE DEF o, one, size, p, l, x, same
  <1>6. CASE same
    <2>1. Safe(o.batch, NoLog)
      BY <1>1, <1>2, <1>6, SafeNone, SafeConcat
    <2>2. QED
      BY <1>1, <1>2, <1>6, <2>1, NoneTold DEF o
  <1>7. CASE ~same
    <2>1. Safe(<<p>>, x)
      BY <1>3, <1>5, SafeOne
    <2>2. Safe(o.batch, x)
      BY <1>1, <1>2, <1>4, <1>7, <2>1, SafeConcat
    <2>3. QED
      BY <1>1, <1>2, <1>3, <1>7, <2>2, OneTold DEF o
  <1>8. QED
    BY <1>6, <1>7

LEMMA HdelTold ==
    ASSUME NEW n, NEW k, NEW f
    PROVE  Told(Hdel(n, k, f))
  <1> DEFINE o == Hdel(n, k, f)
             x == HashKey(n, k)
             p == Delete(x)
             size == IncrSize(HSizeKey(n), -1, f)
             l == Log("HDEL", x)
  <1>1. p.key = x /\ Tells(l, x) /\ x[1] # SYNCLOG
    BY LogTells, EntryKeys DEF Delete
  <1>2. \/ ~o.commits
        \/ o.batch = <<>> /\ o.logs = <<>>
        \/ o.batch = <<p>> \o size /\ o.logs = <<l>>
    BY DEF Hdel, Commit, Return
  <1>3. Safe(size, x)
    BY EntryKeys, SizeSafe
  <1> HIDE DEF o, p, l, x, size
  <1>4. Safe(<<p>> \o size, x)
    BY <1>1, <1>3, SafeOne, SafeConcat
  <1>5. CASE ~o.commits
    BY <1>5 DEF Told, o
  <1>6. CASE o.batch = <<>> /\ o.logs = <<>>
    BY <1>6, SafeNone, NoneTold DEF o
  <1>7. CASE o.batch = <<p>> \o size /\ o.logs = <<l>>
    BY <1>1, <1>4, <1>7, OneTold DEF o
  <1>8. QED
    BY <1>2, <1>5, <1>6, <1>7

LEMMA ScoreStoredTold ==
    ASSUME NEW n, NEW k, NEW score, NEW failed, NEW ret, NEW f
    PROVE  Told(ScoreStored(n, k, score, failed, ret, f))
  <1> DEFINE o == ScoreStored(n, k, score, failed, ret, f)
             one == ZsetOne(n, k, score, failed)
             x == ZsetKey(n, k)
             c == ZSizeKey(n)
             found == Found(x, failed)
             old == IF found = 1 THEN db[x] ELSE 0
             same == found = 1 /\ old = score
             d == Delete(ZscoreKey(n, k, old))
             pre == IF found = 0 THEN <<>> ELSE <<d>>
             place == Put(ZscoreKey(n, k, score), "")
             entry == Put(x, score)
             l == Log("ZSET", x)
             size == IF one.new > 0 THEN IncrSize(c, 1, f) ELSE <<>>
  <1>1. o.batch = one.batch \o size /\ o.logs = one.logs
    BY DEF ScoreStored, Commit
  <1>2. IF same THEN one.batch = <<>> /\ one.logs = <<>> /\ size = <<>>
                ELSE one.batch = pre \o <<place, entry>> /\ one.logs = <<l>>
    <2>1. one = [batch |-> IF same THEN <<>> ELSE pre \o <<place, entry>>,
                 logs |-> IF same THEN <<>> ELSE <<l>>,
                 new |-> IF found = 0 THEN 1 ELSE 0]
      BY DEF ZsetOne
    <2> HIDE DEF one, place, entry, l, d, found
    <2>2. /\ one.batch = IF same THEN <<>> ELSE pre \o <<place, entry>>
          /\ one.logs = IF same THEN <<>> ELSE <<l>>
          /\ same => one.new = 0
      BY <2>1
    <2> HIDE DEF same
    <2>3. QED
      BY <2>2
  <1>3. /\ d.key = ZscoreKey(n, k, old) /\ place.key = ZscoreKey(n, k, score)
        /\ entry.key = x /\ Tells(l, x)
    BY LogTells DEF Put, Delete
  <1>4. Safe(size, x)
    <2>1. Safe(IncrSize(c, 1, f), x)
      BY EntryKeys, SizeSafe
    <2> HIDE DEF one
    <2>2. QED
      BY <2>1, SafeNone
  <1>5. x[1] # SYNCLOG
    BY EntryKeys
  <1> HIDE DEF o, one, x, c, found, old, d, place, entry, l, size, same
  <1>6. Safe(<<d>>, x) /\ Safe(<<place>>, x) /\ Safe(<<entry>>, x)
    BY <1>3, <1>5, EntryKeys, SafeOne
  <1>7. Safe(pre, x)
    BY <1>6, SafeNone
  <1> HIDE DEF pre
  <1>8. CASE same
    <2>1. Safe(o.batch, NoLog)
      BY <1>1, <1>2, <1>8, SafeNone, SafeConcat
    <2>2. QED
      BY <1>1, <1>2, <1>8, <2>1, NoneTold DEF o
  <1>9. CASE ~same
    <2>1. Safe(<<place, entry>>, x)
      BY <1>6, SafeTwo
    <2>2. Safe(pre \o <<place, entry>>, x)
      BY <1>7, <2>1, SafeConcat
    <2>3. Safe(o.batch, x)
      BY <1>1, <1>2, <1>4, <1>9, <2>2, SafeConcat
    <2>4. QED
      BY <1>1, <1>2, <1>3, <1>9, <2>3, OneTold DEF o
  <1>10. QED
    BY <1>8, <1>9

LEMMA ZdelTold ==
    ASSUME NEW n, NEW k, NEW f
    PROVE  Told(Zdel(n, k, f))
  <1> DEFINE o == Zdel(n, k, f)
             x == ZsetKey(n, k)
             d == Delete(ZscoreKey(n, k, db[x]))
             p == Delete(x)
             size == IncrSize(ZSizeKey(n), -1, f)
             l == Log("ZDEL", x)
  <1>1. /\ d.key = ZscoreKey(n, k, db[x]) /\ p.key = x /\ Tells(l, x) /\ x[1] # SYNCLOG
    BY LogTells, EntryKeys DEF Delete
  <1>2. \/ ~o.commits
        \/ o.batch = <<>> /\ o.logs = <<>>
        \/ o.batch = <<d, p>> \o size /\ o.logs = <<l>>
    BY DEF Zdel, Commit, Return
  <1>3. Safe(size, x)
    BY EntryKeys, SizeSafe
  <1> HIDE DEF o, d, p, l, x, size
  <1>4. Safe(<<d>>, x) /\ Safe(<<p>>, x)
    BY <1>1, EntryKeys, SafeOne
  <1>5. Safe(<<d, p>> \o size, x)
    BY <1>3, <1>4, SafeTwo, SafeConcat
  <1>6. CASE ~o.commits
    BY <1>6 DEF Told, o
  <1>7. CASE o.batch = <<>> /\ o.logs = <<>>
    BY <1>7, SafeNone, NoneTold DEF o
  <1>8. CASE o.batch = <<d, p>> \o size /\ o.logs = <<l>>
    BY <1>1, <1>5, <1>8, OneTold DEF o
  <1>9. QED
    BY <1>2, <1>6, <1>7, <1>8

\* The ends and the size of a queue.
LEMMA EndSafe ==
    ASSUME NEW n, NEW v, NEW y
    PROVE  /\ Safe(<<Put(QSizeKey(n), v)>>, y) /\ Safe(<<Delete(QSizeKey(n))>>, y)
           /\ \A end \in Ends : Safe(<<Put(QItemKey(n, end), v)>>, y)
           /\ \A end \in Ends : Safe(<<Delete(QItemKey(n, end))>>, y)
  <1>1. ASSUME NEW x, x[1] # SYNCLOG, ~IsEntry(x)
        PROVE  Safe(<<Put(x, v)>>, y) /\ Safe(<<Delete(x)>>, y)
    <2> DEFINE p == Put(x, v)  d == Delete(x)
    <2>1. p.key = x /\ d.key = x
      BY DEF Put, Delete
    <2> HIDE DEF p, d
    <2>2. Safe(<<p>>, y) /\ Safe(<<d>>, y)
      BY <1>1, <2>1, SafeOne
    <2>3. QED
      BY <2>2 DEF p, d
  <1>2. \A end \in Ends : QItemKey(n, end)[1] # SYNCLOG /\ ~IsEntry(QItemKey(n, end))
    BY EntryKeys DEF Ends
  <1>3. QSizeKey(n)[1] # SYNCLOG /\ ~IsEntry(QSizeKey(n))
    BY EntryKeys
  <1>4. QED
    BY <1>1, <1>2, <1>3

LEMMA EndsSafe ==
    ASSUME NEW n, NEW a, NEW b, NEW c,
           a.key = QSizeKey(n), b.key = QItemKey(n, QFRONT), c.key = QItemKey(n, QBACK), NEW y
    PROVE  Safe(<<a, b, c>>, y)
  <1>1. a.key # b.key /\ a.key # c.key /\ b.key # c.key
    BY PlacesDiffer, QueueKeysAt
  <1>2. Safe(<<a>>, y) /\ Safe(<<b>>, y) /\ Safe(<<c>>, y)
    BY EntryKeys, SafeOne
  <1>3. QED
    BY <1>1, <1>2, SafeThree

LEMMA QSizeSafe ==
    ASSUME NEW n, NEW by, NEW y
    PROVE  Safe(IncrQSize(n, by), y)
  <1> DEFINE d == Delete(QSizeKey(n))  p == Delete(QItemKey(n, QFRONT))
             q == Delete(QItemKey(n, QBACK))  z == Put(QSizeKey(n), QSize(n) + by)
  <1>1. IncrQSize(n, by) = <<d, p, q>> \/ IncrQSize(n, by) = <<z>>
    BY DEF IncrQSize
  <1>2. Safe(<<z>>, y)
    BY EndSafe
  <1>3. d.key = QSizeKey(n) /\ p.key = QItemKey(n, QFRONT) /\ q.key = QItemKey(n, QBACK)
    BY DEF Delete
  <1> HIDE DEF d, p, q, z
  <1>4. Safe(<<d, p, q>>, y)
    BY <1>3, EndsSafe
  <1>5. QED
    BY <1>1, <1>2, <1>4

\* An entry of a queue, or what qset_by_seq takes for one.
LEMMA ItemSafe ==
    ASSUME NEW n, NEW s, NEW v
    PROVE  LET x == QItemKey(n, s) IN Safe(<<Put(x, v)>>, x) /\ Safe(<<Delete(x)>>, x)
  <1> DEFINE x == QItemKey(n, s)  p == Put(x, v)  d == Delete(x)
  <1>1. p.key = x /\ d.key = x /\ x[1] # SYNCLOG
    BY EntryKeys DEF Put, Delete
  <1> HIDE DEF p, d, x
  <1>2. Safe(<<p>>, x) /\ Safe(<<d>>, x)
    BY <1>1, SafeOne
  <1>3. QED
    BY <1>2 DEF p, d, x

LEMMA QpushTold ==
    ASSUME NEW n, NEW item, NEW end \in Ends, NEW f
    PROVE  Told(Qpush(n, item, end, f))
  <1> DEFINE new == QItemKey(n, end) \notin DOMAIN db
             seq == IF new THEN QInit
                    ELSE Sequence(n, end) + (IF end = QFRONT THEN -1 ELSE 1)
             p == Put(QItemKey(n, QFRONT), seq)
             q == Put(QItemKey(n, QBACK), seq)
             e == Put(QItemKey(n, end), seq)
             ends == IF new THEN <<p, q>> ELSE <<e>>
             cmd == IF end = QFRONT THEN "QPUSH_FRONT" ELSE "QPUSH_BACK"
             x == QItemKey(n, seq)
             a == Put(x, item)
             size == IncrQSize(n, 1)
             l == Log(cmd, x)
             o == Commit((ends \o <<a>>) \o size, <<l>>, QSize(n) + 1)
  <1>1. Qpush(n, item, end, f) = Return(-1) \/ Qpush(n, item, end, f) = o
    BY DEF Qpush
  <1>2. o.batch = (ends \o <<a>>) \o size /\ o.logs = <<l>>
    BY DEF Commit
  <1>3. Tells(l, x)
    BY LogTells
  <1> HIDE DEF o, l, seq, new
  <1>4. Safe(<<a>>, x)
    BY ItemSafe
  <1>5. Safe(<<p>>, x) /\ Safe(<<q>>, x) /\ Safe(<<e>>, x)
    BY EndSafe DEF Ends
  <1>6. Safe(size, x)
    BY QSizeSafe
  <1> HIDE DEF p, q, e, x, a, size
  <1>7. Safe(ends, x)
    BY <1>5, SafeTwo
  <1> HIDE DEF ends
  <1>8. Safe(ends \o <<a>>, x)
    BY <1>4, <1>7, SafeConcat
  <1>9. Safe(o.batch, x)
    BY <1>2, <1>6, <1>8, SafeConcat
  <1>10. Told(o)
    BY <1>2, <1>3, <1>9, OneTold
  <1>11. QED
    BY <1>1, <1>10, ReturnTold

LEMMA QpopTold ==
    ASSUME NEW n, NEW end \in Ends, NEW f
    PROVE  Told(Qpop(n, end, f))
  <1> DEFINE seq == Sequence(n, end)
             x == QItemKey(n, seq)
             next == seq + (IF end = QFRONT THEN 1 ELSE -1)
             ends == IF QSize(n) > 1 THEN <<Put(QItemKey(n, end), next)>> ELSE <<>>
             cmd == IF end = QFRONT THEN "QPOP_FRONT" ELSE "QPOP_BACK"
             a == Delete(x)
             size == IncrQSize(n, -1)
             l == Log(cmd, <<n>>)
             o == Commit((<<a>> \o size) \o ends, <<l>>, 1)
             q == [o EXCEPT !.item = db[x]]
  <1>1. \/ Qpop(n, end, f) = Return(-1) \/ Qpop(n, end, f) = Return(0)
        \/ Qpop(n, end, f) = q
    BY DEF Qpop
  <1>2. o.batch = (<<a>> \o size) \o ends /\ o.logs = <<l>>
    BY DEF Commit
  <1>3. o = [commits |-> o.commits, batch |-> o.batch, logs |-> o.logs, ret |-> o.ret,
             item |-> o.item, misread |-> o.misread]
    BY DEF Commit
  <1>4. Tells(l, x)
    <2>1. l.cmd = cmd /\ l.key = <<n>>
      BY DEF Log
    <2>2. l.key[1] = n
      BY <2>1
    <2> HIDE DEF l
    <2>3. CASE end = QFRONT
      BY <2>1, <2>2, <2>3 DEF Tells
    <2>4. CASE end # QFRONT
      <3>1. end = QBACK
        BY <2>4 DEF Ends
      <3>2. QED
        BY <2>1, <2>2, <2>4, <3>1 DEF Tells
    <2>5. QED
      BY <2>3, <2>4
  <1>5. Safe(<<a>>, x)
    BY ItemSafe
  <1>6. Safe(ends, x)
    <2> HIDE DEF next, x
    <2>1. Safe(<<Put(QItemKey(n, end), next)>>, x)
      BY EndSafe
    <2>2. QED
      BY <2>1, SafeNone
  <1>7. Safe(size, x)
    BY QSizeSafe
  <1> HIDE DEF o, l, x, a, size, ends
  <1>8. Safe(<<a>> \o size, x)
    BY <1>5, <1>7, SafeConcat
  <1>9. Safe(o.batch, x)
    BY <1>2, <1>6, <1>8, SafeConcat
  <1>10. Told(o)
    BY <1>2, <1>4, <1>9, OneTold
  <1>11. Told(q)
    BY <1>3, <1>10, ItemTold
  <1> HIDE DEF q
  <1>12. QED
    BY <1>1, <1>11, ReturnTold

LEMMA QStoreTold ==
    ASSUME NEW n, NEW seq, NEW item
    PROVE  Told(QStore(n, seq, item))
  <1> DEFINE x == QItemKey(n, seq)  p == Put(x, item)  l == Log("QSET", x)
             o == QStore(n, seq, item)
  <1>1. o.batch = <<p>> /\ o.logs = <<l>>
    BY DEF QStore, Commit
  <1>2. Tells(l, x) /\ Safe(<<p>>, x)
    BY LogTells, ItemSafe
  <1> HIDE DEF o, l, p, x
  <1>3. QED
    BY <1>1, <1>2, OneTold DEF o

LEMMA QfixTold ==
    ASSUME NEW n
    PROVE  Told(Qfix(n))
  <1> DEFINE items == QfixItems(n)
             F == QItemKey(n, QFRONT)  K == QItemKey(n, QBACK)  Z == QSizeKey(n)
             u == Delete(Z)  v == Delete(F)  w == Delete(K)
             a == Put(Z, Len(items))  b == Put(F, items[1][3])  c == Put(K, items[Len(items)][3])
             o == Qfix(n)
  <1>1. /\ u.key = Z /\ v.key = F /\ w.key = K
        /\ a.key = Z /\ b.key = F /\ c.key = K
    BY DEF Put, Delete
  <1>2. o.logs = <<>> /\ o.batch \in {<<u, v, w>>, <<a, b, c>>}
    BY DEF Qfix, Commit
  <1> HIDE DEF u, v, w, a, b, c, o
  <1>3. Safe(<<u, v, w>>, NoLog) /\ Safe(<<a, b, c>>, NoLog)
    BY <1>1, EndsSafe
  <1>4. Safe(o.batch, NoLog)
    BY <1>2, <1>3
  <1>5. QED
    BY <1>2, <1>4, NoneTold DEF o

\* Something is done that tells what it changes.
TellingStep == \E call, o, f : Transact(call, o, f) /\ Told(o)

LEMMA OperationTold ==
    ASSUME NEW call, NEW o, NEW f, Operation(call, o, f) \/ Transact(call, o, f), Told(o)
    PROVE  TellingStep
  BY DEF Operation, TellingStep

LEMMA KvTold ==
    KvSet \/ KvSetnx \/ KvGetset \/ KvDel \/ KvIncr \/ KvMultiSet \/ KvMultiDel => TellingStep
  <1>1. ASSUME KvSet PROVE TellingStep
    <2>1. PICK k, v, f : Operation(<<"set", k, v>>, Set(k, v), f)
      BY <1>1 DEF KvSet
    <2>2. Told(Set(k, v))
      BY StoreTold, ReturnTold DEF Set
    <2>3. QED
      BY <2>1, <2>2, OperationTold
  <1>2. ASSUME KvSetnx PROVE TellingStep
    <2>1. PICK k, v, f : Operation(<<"setnx", k, v>>, Setnx(k, v, f), f)
      BY <1>2 DEF KvSetnx
    <2>2. Told(Setnx(k, v, f))
      BY StoreTold, ReturnTold DEF Setnx
    <2>3. QED
      BY <2>1, <2>2, OperationTold
  <1>3. ASSUME KvGetset PROVE TellingStep
    <2>1. PICK k, v, f : Operation(<<"getset", k, v>>, Getset(k, v, f), f)
      BY <1>3 DEF KvGetset
    <2>2. \A ret, item : Told([Store(k, v, ret) EXCEPT !.item = item])
      BY StoreTold
    <2>3. Told(Getset(k, v, f))
      BY <2>2, ReturnTold DEF Getset
    <2>4. QED
      BY <2>1, <2>3, OperationTold
  <1>4. ASSUME KvDel PROVE TellingStep
    <2>1. PICK k, f : Operation(<<"del", k>>, Del(k), f)
      BY <1>4 DEF KvDel
    <2>2. QED
      BY <2>1, DelTold, OperationTold
  <1>5. ASSUME KvIncr PROVE TellingStep
    <2>1. PICK k, by, f : Operation(<<"incr", k, by>>, Incr(k, by, f), f)
      BY <1>5 DEF KvIncr
    <2> DEFINE sum == Addend(KvKey(k)) + by
    <2>2. Told([Store(k, sum, 1) EXCEPT !.item = sum])
      BY StoreTold
    <2>3. Told(Incr(k, by, f))
      BY <2>2, ReturnTold DEF Incr
    <2>4. QED
      BY <2>1, <2>3, OperationTold
  <1>6. ASSUME KvMultiSet PROVE TellingStep
    <2>1. PICK kvs \in Pairs, f \in Faults({"write"}) :
            Operation(<<"multi_set", kvs>>, MultiSet(kvs), f)
      BY <1>6 DEF KvMultiSet
    <2>2. QED
      BY <2>1, MultiTold, OperationTold
  <1>7. ASSUME KvMultiDel PROVE TellingStep
    <2>1. PICK k1, k2, f : Operation(<<"multi_del", <<k1, k2>>>>, MultiDel(<<k1, k2>>), f)
      BY <1>7 DEF KvMultiDel
    <2>2. QED
      BY <2>1, MultiTold, OperationTold
  <1>8. QED
    BY <1>1, <1>2, <1>3, <1>4, <1>5, <1>6, <1>7

LEMMA HashTold == HashSet \/ HashDel \/ HashIncr \/ (\E f : HclearDel(f)) => TellingStep
  <1>1. ASSUME HashSet PROVE TellingStep
    <2>1. PICK n, k, v, f : Operation(<<"hset", n, k, v>>, Hset(n, k, v, f), f)
      BY <1>1 DEF HashSet
    <2>2. Told(Hset(n, k, v, f))
      BY HashStoredTold, ReturnTold DEF Hset
    <2>3. QED
      BY <2>1, <2>2, OperationTold
  <1>2. ASSUME HashDel PROVE TellingStep
    <2>1. PICK n, k, f : Operation(<<"hdel", n, k>>, Hdel(n, k, f), f)
      BY <1>2 DEF HashDel
    <2>2. QED
      BY <2>1, HdelTold, OperationTold
  <1>3. ASSUME HashIncr PROVE TellingStep
    <2>1. PICK n, k, by, f : Operation(<<"hincr", n, k, by>>, Hincr(n, k, by, f), f)
      BY <1>3 DEF HashIncr
    <2> DEFINE sum == Addend(HashKey(n, k)) + by
               s == HashStored(n, k, sum, f = "again", 1, f)
               r == Hincr(n, k, by, f)
    <2>2. Told(s)
      BY HashStoredTold
    <2>3. s = [commits |-> s.commits, batch |-> s.batch, logs |-> s.logs, ret |-> s.ret,
               item |-> s.item, misread |-> s.misread]
      BY StoredRecord
    <2>4. r = Return(-1) \/ r = Return(0) \/ r = [s EXCEPT !.item = sum]
      BY DEF Hincr
    <2> HIDE DEF s, r, sum
    <2>5. Told(r)
      BY <2>2, <2>3, <2>4, ItemTold, ReturnTold
    <2>6. QED
      BY <2>1, <2>5, OperationTold DEF r
  <1>4. ASSUME \E f : HclearDel(f) PROVE TellingStep
    <2>1. PICK f : HclearDel(f)
      BY <1>4
    <2> DEFINE k == Head(clearing.todo)
    <2>2. Transact(<<"hdel", clearing.name, k>>, Hdel(clearing.name, k, f), f)
      BY <2>1 DEF HclearDel
    <2> HIDE DEF k
    <2>3. QED
      BY <2>2, HdelTold, OperationTold
  <1>5. QED
    BY <1>1, <1>2, <1>3, <1>4

LEMMA ZsetTold == ZsetSet \/ ZsetDel \/ ZsetIncr => TellingStep
  <1>1. ASSUME ZsetSet PROVE TellingStep
    <2>1. PICK n, k, score, f : Operation(<<"zset", n, k, score>>, Zset1(n, k, score, f), f)
      BY <1>1 DEF ZsetSet
    <2>2. Told(Zset1(n, k, score, f))
      BY ScoreStoredTold, ReturnTold, NothingTold DEF Zset1
    <2>3. QED
      BY <2>1, <2>2, OperationTold
  <1>2. ASSUME ZsetDel PROVE TellingStep
    <2>1. PICK n, k, f : Operation(<<"zdel", n, k>>, Zdel(n, k, f), f)
      BY <1>2 DEF ZsetDel
    <2>2. QED
      BY <2>1, ZdelTold, OperationTold
  <1>3. ASSUME ZsetIncr PROVE TellingStep
    <2>1. PICK n, k, by, f : Operation(<<"zincr", n, k, by>>, Zincr(n, k, by, f), f)
      BY <1>3 DEF ZsetIncr
    <2> DEFINE score == Addend(ZsetKey(n, k)) + by
               s == ScoreStored(n, k, score, f = "again", 1, f)
               z == Commit(<<>>, <<>>, 1)
               r == Zincr(n, k, by, f)
    <2>2. r = Return(-1) \/ r = [z EXCEPT !.item = score] \/ r = [s EXCEPT !.item = score]
      BY DEF Zincr
    <2>3. Told(s) /\ Told(z)
      BY ScoreStoredTold, NothingTold
    <2>4. /\ s = [commits |-> s.commits, batch |-> s.batch, logs |-> s.logs, ret |-> s.ret,
                  item |-> s.item, misread |-> s.misread]
          /\ z = [commits |-> z.commits, batch |-> z.batch, logs |-> z.logs, ret |-> z.ret,
                  item |-> z.item, misread |-> z.misread]
      BY StoredRecord DEF Commit
    <2> HIDE DEF s, z, r, score
    <2>5. Told(r)
      BY <2>2, <2>3, <2>4, ItemTold, ReturnTold
    <2>6. QED
      BY <2>1, <2>5, OperationTold DEF r
  <1>4. QED
    BY <1>1, <1>2, <1>3

LEMMA QueueTold ==
    QueuePush \/ QueuePop \/ QueueSet \/ QueueSetBySeq \/ QueueFix => TellingStep
  <1>1. ASSUME QueuePush PROVE TellingStep
    <2>1. PICK n \in QNames, item \in Values, end \in Ends, f \in Faults({"entry", "size", "write"}) :
              Operation(<<"qpush", n, item, end>>, Qpush(n, item, end, f), f)
      BY <1>1 DEF QueuePush
    <2>2. QED
      BY <2>1, QpushTold, OperationTold
  <1>2. ASSUME QueuePop PROVE TellingStep
    <2>1. PICK n \in QNames, end \in Ends, f \in Faults({"entry", "again", "size", "write"}) :
              Operation(<<"qpop", n, end>>, Qpop(n, end, f), f)
      BY <1>2 DEF QueuePop
    <2>2. QED
      BY <2>1, QpopTold, OperationTold
  <1>3. ASSUME QueueSet PROVE TellingStep
    <2>1. PICK n, index, item, f : Operation(<<"qset", n, index, item>>, Qset(n, index, item, f), f)
      BY <1>3 DEF QueueSet
    <2>2. Told(Qset(n, index, item, f))
      BY QStoreTold, ReturnTold DEF Qset
    <2>3. QED
      BY <2>1, <2>2, OperationTold
  <1>4. ASSUME QueueSetBySeq PROVE TellingStep
    <2>1. PICK n, seq, item, f :
              Transact(<<"qset_by_seq", n, seq, item>>, QsetBySeq(n, seq, item, f), f)
      BY <1>4 DEF QueueSetBySeq
    <2>2. Told(QsetBySeq(n, seq, item, f))
      BY QStoreTold, ReturnTold DEF QsetBySeq
    <2>3. QED
      BY <2>1, <2>2, OperationTold
  <1>5. ASSUME QueueFix PROVE TellingStep
    <2>1. PICK n, f : Operation(<<"qfix", n>>, Qfix(n), f)
      BY <1>5 DEF QueueFix
    <2>2. QED
      BY <2>1, QfixTold, OperationTold
  <1>6. QED
    BY <1>1, <1>2, <1>3, <1>4, <1>5

-----------------------------------------------------------------------------
(* The numbers of the records.                                             *)

\* Last is the number of the last record; from min on no number is missing
\* but those under the cleaning thread, and none of the last Capacity is.
LogRight ==
    /\ enabled \in BOOLEAN
    /\ last \in Nat /\ last <= MaxLogs /\ min \in Nat /\ min <= last
    /\ Numbers(db) \subseteq 1 .. last
    /\ ~enabled => Numbers(db) = {} /\ cleaning = Nothing
    /\ min <= 1 \/ min <= last - Capacity + 1
    /\ cleaning # Nothing =>
         /\ cleaning \in [start : Int, end : Int]
         /\ min <= cleaning.start /\ cleaning.start <= cleaning.end + 1
         /\ min <= cleaning.end /\ cleaning.end <= last - Capacity
    /\ enabled => \A s \in min .. last : \/ s = 0 \/ s \in Numbers(db)
                                         \/ cleaning # Nothing /\ s <= cleaning.end

LEMMA NumberIn ==
    ASSUME NEW d, WellFormed(d), NEW s
    PROVE  s \in Numbers(d) <=> SeqKey(s) \in DOMAIN d
  <1>1. SeqKey(s)[1] = SYNCLOG /\ SeqKey(s)[2] = s
    BY DEF SeqKey
  <1>2. ASSUME NEW x \in DOMAIN d, x[1] = SYNCLOG PROVE x = SeqKey(x[2])
    BY <1>2 DEF WellFormed, Shaped, SeqKey, SYNCLOG, KV, HSIZE, ZSIZE, QSIZE, HASH, ZSET, QUEUE, ZSCORE
  <1>3. QED
    BY <1>1, <1>2 DEF Numbers, Of

\* The records of a transaction, and their keys.
LEMMA RecordBatch ==
    ASSUME NEW logs, IsSeq(logs), last \in Nat
    PROVE  LET L == AddLogs(logs)
           IN /\ Len(L) \in Nat /\ (~enabled => Len(L) = 0)
              /\ \A s : s \notin last + 1 .. last + Len(L) => Untouched(L, SeqKey(s))
              /\ \A i \in DOMAIN logs : enabled =>
                    /\ last + i \in last + 1 .. last + Len(L)
                    /\ Writes(L, SeqKey(last + i), Put(SeqKey(last + i), logs[i]))
              /\ enabled => \A s \in last + 1 .. last + Len(L) : s - last \in DOMAIN logs
  <1> DEFINE L == AddLogs(logs)  K == [i \in DOMAIN logs |-> Put(SeqKey(last + i), logs[i])]
  <1>1. DOMAIN logs = 1 .. Len(logs) /\ Len(logs) \in Nat
    BY LenProperties DEF IsSeq
  <1>2. CASE ~enabled
    <2>1. L = <<>> /\ Len(L) = 0
      BY <1>2 DEF AddLogs
    <2> HIDE DEF L
    <2>2. \A x : Untouched(L, x)
      BY <2>1, NoBatch
    <2>3. QED
      BY <1>2, <2>1, <2>2 DEF L
  <1>3. CASE enabled
    <2>1. L = K
      BY <1>3 DEF AddLogs
    <2>2. Len(K) = Len(logs) /\ DOMAIN K = 1 .. Len(logs)
      BY <1>1
    <2>3. \A i \in DOMAIN K : K[i] = Put(SeqKey(last + i), logs[i]) /\ K[i].key = SeqKey(last + i)
      BY DEF Put
    <2>4. \A s, t : SeqKey(s) = SeqKey(t) => s = t
      BY DEF SeqKey
    <2> HIDE DEF L, K
    <2>5. ASSUME NEW s, s \notin last + 1 .. last + Len(L) PROVE Untouched(L, SeqKey(s))
      <3>1. ASSUME NEW i \in DOMAIN K, K[i].key = SeqKey(s) PROVE FALSE
        <4>1. last + i = s
          BY <2>3, <2>4, <3>1
        <4>2. QED
          BY <1>1, <2>1, <2>2, <2>5, <4>1
      <3>2. QED
        BY <2>1, <3>1 DEF Untouched
    <2>6. ASSUME NEW i \in DOMAIN logs
          PROVE  /\ last + i \in last + 1 .. last + Len(L)
                 /\ Writes(L, SeqKey(last + i), Put(SeqKey(last + i), logs[i]))
      <3> DEFINE e == Put(SeqKey(last + i), logs[i])
      <3>1. e.key = SeqKey(last + i)
        BY DEF Put
      <3>2. i \in DOMAIN K /\ K[i] = e
        BY <1>1, <2>2, <2>3
      <3> HIDE DEF e
      <3>3. ASSUME NEW j \in DOMAIN K, K[j].key = SeqKey(last + i) PROVE j <= i
        <4>1. last + j = last + i
          BY <2>3, <2>4, <3>3
        <4>2. QED
          BY <1>1, <2>2, <3>2, <4>1
      <3>4. Writes(K, SeqKey(last + i), e)
        BY <3>1, <3>2, <3>3 DEF Writes
      <3>5. QED
        BY <1>1, <2>1, <2>2, <3>4 DEF e
    <2>7. \A s \in last + 1 .. last + Len(L) : s - last \in DOMAIN logs
      BY <1>1, <2>1, <2>2
    <2>8. QED
      BY <1>1, <1>3, <2>1, <2>2, <2>5, <2>6, <2>7 DEF L
  <1>4. QED
    BY <1>2, <1>3

\* A transaction that is written adds its records behind the last one.
LEMMA RecordsAdded ==
    ASSUME WellFormed(db), WellFormed(db'), last \in Nat,
           NEW call, NEW o, NEW f, Transact(call, o, f), Told(o), o.commits, f # "write"
    PROVE  /\ last' \in Nat /\ last <= last' /\ (~enabled => last' = last)
           /\ \A s : s \in Numbers(db') <=> s \in Numbers(db) \/ s \in last + 1 .. last'
           /\ \A i \in DOMAIN o.logs : enabled => /\ last + i \in last + 1 .. last'
                                                  /\ db'[SeqKey(last + i)] = o.logs[i]
           /\ \A x : x[1] # SYNCLOG /\ Untouched(o.batch, x) => Stays(x)
  <1> DEFINE B == o.batch  L == AddLogs(o.logs)  C == B \o L
             S == {B[i] : i \in DOMAIN B}
             P == {Put(SeqKey(last + i), o.logs[i]) : i \in DOMAIN o.logs}
  <1>1. db' = Applied(C) /\ last' = last + Len(L)
    BY DEF Transact
  <1>2. /\ IsSeq(B) /\ IsSeq(o.logs)
        /\ \A x : x[1] = SYNCLOG => Untouched(B, x)
    BY DEF Told
  <1>3. /\ Len(L) \in Nat /\ (~enabled => Len(L) = 0)
        /\ \A s : s \notin last + 1 .. last + Len(L) => Untouched(L, SeqKey(s))
        /\ \A i \in DOMAIN o.logs : enabled =>
              /\ last + i \in last + 1 .. last + Len(L)
              /\ Writes(L, SeqKey(last + i), Put(SeqKey(last + i), o.logs[i]))
        /\ enabled => \A s \in last + 1 .. last + Len(L) : s - last \in DOMAIN o.logs
    BY <1>2, RecordBatch
  <1>4. B \in Seq(S) /\ L \in Seq(P)
    <2> DEFINE T == {o.logs[i] : i \in DOMAIN o.logs}
    <2>1. o.logs \in Seq(T)
      BY <1>2 DEF IsSeq
    <2> HIDE DEF T
    <2>2. L \in Seq(P)
      BY <2>1, LogBatch
    <2>3. QED
      BY <1>2, <2>2 DEF IsSeq
  <1>5. \A x : x[1] # SYNCLOG => Untouched(L, x)
    <2> DEFINE T == {o.logs[i] : i \in DOMAIN o.logs}
    <2>1. o.logs \in Seq(T)
      BY <1>2 DEF IsSeq
    <2> HIDE DEF T
    <2>2. QED
      BY <2>1, LogBatch
  <1> HIDE DEF B, L, S, P
  <1>6. DOMAIN C \subseteq Nat
    BY ONLY <1>4, ConcatBatches, Zenon
  <1>7. \A x : Untouched(B, x) /\ Untouched(L, x) => Untouched(C, x)
    BY ONLY <1>4, ConcatBatches, Zenon
  <1>8. \A x, e : Writes(L, x, e) => Writes(C, x, e)
    BY ONLY <1>4, ConcatBatches, Zenon
  <1> HIDE DEF C
  <1>9. ASSUME NEW x, x[1] # SYNCLOG, Untouched(B, x) PROVE Stays(x)
    <2>1. Untouched(C, x)
      BY <1>5, <1>7, <1>9
    <2>2. QED
      BY <1>1, <2>1, AppliedUntouched DEF Stays
  <1>10. ASSUME NEW i \in DOMAIN o.logs, enabled
         PROVE  /\ last + i \in last + 1 .. last'
                /\ SeqKey(last + i) \in DOMAIN db' /\ db'[SeqKey(last + i)] = o.logs[i]
    <2> DEFINE x == SeqKey(last + i)  e == Put(x, o.logs[i])
    <2>1. e.keep = TRUE /\ e.value = o.logs[i]
      BY DEF Put
    <2>2. last + i \in last + 1 .. last' /\ Writes(L, x, e)
      BY <1>1, <1>3, <1>10
    <2> HIDE DEF x, e
    <2>3. Writes(C, x, e)
      BY <1>8, <2>2
    <2>4. x \in DOMAIN db' /\ db'[x] = e.value
      BY <1>1, <1>6, <2>1, <2>3, AppliedWrites
    <2>5. QED
      BY <2>1, <2>2, <2>4 DEF x
  <1>11. ASSUME NEW s, s \notin last + 1 .. last'
         PROVE  SeqKey(s) \in DOMAIN db' <=> SeqKey(s) \in DOMAIN db
    <2>1. SeqKey(s)[1] = SYNCLOG
      BY DEF SeqKey
    <2>2. Untouched(C, SeqKey(s))
      BY <1>1, <1>2, <1>3, <1>7, <1>11, <2>1
    <2>3. QED
      BY <1>1, <2>2, AppliedUntouched
  <1>12. ASSUME NEW s \in last + 1 .. last' PROVE SeqKey(s) \in DOMAIN db'
    <2>1. enabled
      BY <1>1, <1>3, <1>12
    <2>2. s - last \in DOMAIN o.logs /\ last + (s - last) = s
      BY <1>1, <1>3, <1>12, <2>1
    <2>3. QED
      BY <1>10, <2>1, <2>2
  <1>13. \A s : s \in Numbers(db') <=> s \in Numbers(db) \/ s \in last + 1 .. last'
    BY <1>11, <1>12, NumberIn
  <1>14. QED
    BY <1>1, <1>3, <1>9, <1>10, <1>13 DEF B

\* Nothing changes but answers and the like.
LEMMA StaysTold ==
    ASSUME LogRight, db' = db, last' = last, min' = min, cleaning' = cleaning, enabled' = enabled
    PROVE  ChangeTold /\ LogRight'
  <1>1. LogRight'
    BY DEF LogRight
  <1>2. Changed = {}
    BY DEF Changed
  <1>3. last + 1 .. last = {}
    BY DEF LogRight
  <1>4. QED
    BY <1>1, <1>2, <1>3 DEF ChangeTold, LogRight

LEMMA TransactTells ==
    ASSUME WellFormed(db), WellFormed(db'), LogRight,
           NEW call, NEW o, NEW f, Transact(call, o, f), Told(o)
    PROVE  ChangeTold /\ LogRight'
  <1>1. min' = min /\ cleaning' = cleaning /\ enabled' = enabled /\ last' <= MaxLogs
    BY DEF Transact
  <1>2. CASE ~(o.commits /\ f # "write")
    <2>1. db' = db /\ last' = last
      BY <1>2 DEF Transact
    <2>2. QED
      BY <1>1, <2>1, StaysTold
  <1>3. CASE o.commits /\ f # "write"
    <2>1. last \in Nat
      BY DEF LogRight
    <2>2. /\ last' \in Nat /\ last <= last' /\ (~enabled => last' = last)
          /\ \A s : s \in Numbers(db') <=> s \in Numbers(db) \/ s \in last + 1 .. last'
          /\ \A i \in DOMAIN o.logs : enabled => /\ last + i \in last + 1 .. last'
                                                 /\ db'[SeqKey(last + i)] = o.logs[i]
          /\ \A x : x[1] # SYNCLOG /\ Untouched(o.batch, x) => Stays(x)
      BY <1>3, <2>1, RecordsAdded
    <2>3. Numbers(db') \ Numbers(db) = last + 1 .. last' /\ Numbers(db) \ Numbers(db') = {}
      <3>1. ASSUME NEW s \in last + 1 .. last' PROVE s \notin Numbers(db)
        BY <2>2 DEF LogRight
      <3>2. QED
        BY <2>2, <3>1
    <2>4. \A s \in last + 1 .. last' : s \in Numbers(db')
      BY <2>2
    <2>5. ASSUME enabled, NEW x \in Changed \cap (Primary(db) \cup Primary(db'))
          PROVE  \E s \in last + 1 .. last' : Tells(db'[SeqKey(s)], x)
      <3>1. IsEntry(x) /\ x[1] # SYNCLOG
        BY DEF IsEntry, Primary, KV, HASH, ZSET, QUEUE, SYNCLOG
      <3>2. ~Stays(x)
        BY DEF Changed, Stays
      <3>3. ~Untouched(o.batch, x)
        BY <2>2, <3>1, <3>2
      <3>4. PICK i \in DOMAIN o.logs : Tells(o.logs[i], x)
        BY <1>3, <3>1, <3>3 DEF Told
      <3>5. last + i \in last + 1 .. last' /\ db'[SeqKey(last + i)] = o.logs[i]
        BY <2>2, <2>5
      <3>6. Tells(db'[SeqKey(last + i)], x)
        BY <3>4, <3>5
      <3>7. QED
        BY <3>5, <3>6
    <2>6. ASSUME enabled, NEW s \in min' .. last'
          PROVE  s = 0 \/ s \in Numbers(db') \/ (cleaning' # Nothing /\ s <= cleaning'.end)
      <3>1. s \in min .. last \/ s \in last + 1 .. last'
        BY <1>1, <2>1, <2>2
      <3>2. QED
        BY <1>1, <2>2, <2>6, <3>1 DEF LogRight
    <2>7. LogRight'
      <3>1. Numbers(db') \subseteq 1 .. last'
        BY <2>1, <2>2 DEF LogRight
      <3>2. ~enabled => Numbers(db') = {}
        BY <2>1, <2>2 DEF LogRight
      <3>3. Capacity \in Nat
        BY SsdbAssumption
      <3>4. min <= 1 \/ min <= last' - Capacity + 1
        <4>1. min \in Nat /\ (min <= 1 \/ min <= last - Capacity + 1)
          BY DEF LogRight
        <4>2. last' \in Nat /\ last <= last'
          BY <2>2
        <4>3. \A m, c, a, b \in Int : a <= b /\ m <= a - c + 1 => m <= b - c + 1
          OBVIOUS
        <4>4. {min, Capacity, last, last'} \subseteq Int
          BY <2>1, <3>3, <4>1, <4>2
        <4>5. QED
          BY ONLY <4>1, <4>2, <4>3, <4>4
      <3>5. cleaning # Nothing => cleaning.end \in Int /\ cleaning.end <= last' - Capacity
        BY <2>1, <2>2, <3>3 DEF LogRight
      <3>6. min \in Nat /\ min <= last'
        BY <2>2 DEF LogRight
      <3>7. QED
        BY <1>1, <2>2, <2>6, <3>1, <3>2, <3>4, <3>5, <3>6 DEF LogRight
    <2>8. ChangeTold
      <3>1. last' >= last /\ last' >= min'
        BY <1>1, <2>2 DEF LogRight
      <3>2. ~enabled => Numbers(db') = {}
        BY <1>1, <2>7 DEF LogRight
      <3>3. QED
        BY <2>3, <2>5, <2>6, <3>1, <3>2 DEF ChangeTold
    <2>9. QED
      BY <2>7, <2>8
  <1>4. QED
    BY <1>2, <1>3

LEMMA CleanBeginTold == LogRight /\ CleanBegin => ChangeTold /\ LogRight'
  <1> SUFFICES ASSUME LogRight, CleanBegin PROVE ChangeTold /\ LogRight'
    OBVIOUS
  <1>1. /\ enabled /\ cleaning = Nothing /\ last - min >= Capacity + CleanSlack
        /\ cleaning' = [start |-> min, end |-> last - Capacity]
        /\ db' = db /\ last' = last /\ min' = min /\ enabled' = enabled
    BY DEF CleanBegin
  <1>2. Capacity \in Nat /\ CleanSlack \in Nat /\ last \in Nat /\ min \in Nat
    BY SsdbAssumption DEF LogRight
  <1>3. /\ cleaning' \in [start : Int, end : Int] /\ cleaning' # Nothing
        /\ cleaning'.start = min /\ cleaning'.end = last - Capacity /\ min <= last - Capacity
    <2>1. [start |-> min, end |-> last - Capacity] \in [start : Int, end : Int]
      BY <1>2
    <2>2. cleaning' # Nothing
      BY <1>1, <2>1, SsdbAssumption
    <2>3. QED
      BY <1>1, <1>2, <2>1, <2>2
  <1>4. \A s \in min .. last : s = 0 \/ s \in Numbers(db)
    BY <1>1 DEF LogRight
  <1>5. LogRight'
    BY <1>1, <1>2, <1>3, <1>4 DEF LogRight
  <1>6. Changed = {}
    BY <1>1 DEF Changed
  <1>7. last + 1 .. last = {} /\ last >= last /\ last >= min
    BY DEF LogRight
  <1>8. QED
    BY <1>1, <1>4, <1>5, <1>6, <1>7 DEF ChangeTold

LEMMA CleanEndTold == LogRight /\ CleanEnd => ChangeTold /\ LogRight'
  <1> SUFFICES ASSUME LogRight, CleanEnd PROVE ChangeTold /\ LogRight'
    OBVIOUS
  <1>1. /\ cleaning # Nothing /\ cleaning.start > cleaning.end
        /\ min' = cleaning.end + 1 /\ cleaning' = Nothing
        /\ db' = db /\ last' = last /\ enabled' = enabled
    BY DEF CleanEnd
  <1>2. Capacity \in Nat \ {0} /\ last \in Nat /\ min \in Nat /\ last <= MaxLogs /\ MaxLogs \in Nat
    BY SsdbAssumption DEF LogRight
  <1>3. cleaning.end \in Int /\ min <= cleaning.end /\ cleaning.end <= last - Capacity /\ enabled
    BY <1>1 DEF LogRight
  <1>4. min' \in Nat /\ min' <= last /\ min' <= last - Capacity + 1 /\ min <= min'
    BY <1>1, <1>2, <1>3
  <1>5. ASSUME NEW s \in min' .. last PROVE s = 0 \/ s \in Numbers(db)
    <2>1. s \in min .. last /\ ~(s <= cleaning.end)
      BY <1>1, <1>2, <1>3, <1>4
    <2>2. QED
      BY <1>3, <2>1 DEF LogRight
  <1>6. LogRight'
    BY <1>1, <1>2, <1>3, <1>4, <1>5 DEF LogRight
  <1>7. Changed = {}
    BY <1>1 DEF Changed
  <1>8. last + 1 .. last = {} /\ last >= last /\ last >= min'
    BY <1>2, <1>4
  <1>9. QED
    BY <1>1, <1>3, <1>5, <1>6, <1>7, <1>8 DEF ChangeTold

LEMMA CleanChunkTold ==
    ASSUME WellFormed(db), WellFormed(db'), LogRight, NEW f, CleanChunk(f)
    PROVE  ChangeTold /\ LogRight'
  <1> DEFINE start == cleaning.start  end == cleaning.end
             upto == Min({end, start + Chunk - 1})
             B == [i \in 1 .. upto - start + 1 |-> Delete(SeqKey(start + i - 1))]
  <1>1. /\ cleaning # Nothing /\ start <= end
        /\ \/ cleaning' = [cleaning EXCEPT !.start = end + 1] /\ db' = db
           \/ cleaning' = [cleaning EXCEPT !.start = upto + 1] /\ db' = Applied(B)
        /\ min' = min /\ last' = last /\ enabled' = enabled
    BY DEF CleanChunk
  <1>2. /\ Capacity \in Nat \ {0} /\ last \in Nat /\ min \in Nat /\ min <= last
        /\ start \in Int /\ end \in Int /\ min <= start /\ end <= last - Capacity /\ min <= end
        /\ cleaning \in [start : Int, end : Int] /\ enabled
    BY <1>1, SsdbAssumption DEF LogRight
  <1>3. upto \in Int /\ start <= upto /\ upto <= end
    <2>1. Chunk \in Nat \ {0}
      BY SsdbAssumption
    <2> DEFINE b == start + Chunk - 1
    <2>2. b \in Int /\ start <= b
      BY <1>2, <2>1
    <2> HIDE DEF b, start, end
    <2>3. \A m \in {end, b} : (\A j \in {end, b} : m =< j) <=> m = IF end <= b THEN end ELSE b
      BY <1>2, <2>2
    <2>4. Min({end, b}) = IF end <= b THEN end ELSE b
      BY <2>3 DEF Min
    <2>5. QED
      BY <1>1, <1>2, <2>2, <2>4 DEF b
  <1> HIDE DEF upto
  <1>4. /\ cleaning' \in [start : Int, end : Int] /\ cleaning' # Nothing
        /\ cleaning'.end = end /\ min <= cleaning'.start /\ cleaning'.start <= end + 1
    <2>1. \A c \in Int : /\ [cleaning EXCEPT !.start = c] \in [start : Int, end : Int]
                         /\ [cleaning EXCEPT !.start = c].start = c
                         /\ [cleaning EXCEPT !.start = c].end = end
      BY <1>2
    <2>2. end + 1 \in Int /\ upto + 1 \in Int
      BY <1>2, <1>3
    <2>3. PICK c \in {end + 1, upto + 1} : cleaning' = [cleaning EXCEPT !.start = c]
      BY <1>1
    <2>4. c \in Int /\ min <= c /\ c <= end + 1
      BY <1>1, <1>2, <1>3
    <2> HIDE DEF start, end
    <2>5. cleaning' \in [start : Int, end : Int] /\ cleaning'.start = c /\ cleaning'.end = end
      BY <2>1, <2>3, <2>4
    <2>6. QED
      BY <2>4, <2>5, SsdbAssumption
  <1>5. /\ \A x : x[1] # SYNCLOG => Stays(x)
        /\ \A s : s \in Numbers(db') => s \in Numbers(db)
        /\ \A s \in Numbers(db) : s \in Numbers(db') \/ s <= end
    <2>1. CASE db' = db
      BY <2>1 DEF Stays
    <2>2. CASE db' = Applied(B)
      <3>1. \A i \in DOMAIN B : B[i].key = SeqKey(start + i - 1)
        BY DEF Delete
      <3>2. DOMAIN B = 1 .. upto - start + 1
        OBVIOUS
      <3>3. \A i \in DOMAIN B : ~B[i].keep
        BY DEF Delete
      <3> HIDE DEF B, start, end
      <3>4. \A s : SeqKey(s)[1] = SYNCLOG
        BY DEF SeqKey
      <3>5. \A s, t : SeqKey(s) = SeqKey(t) => s = t
        BY DEF SeqKey
      <3>6. \A x : x[1] # SYNCLOG => Untouched(B, x)
        BY <3>1, <3>4 DEF Untouched
      <3>7. \A x : x[1] # SYNCLOG => Stays(x)
        BY <2>2, <3>6, AppliedUntouched DEF Stays
      <3>8. ASSUME NEW s \in Numbers(db), s \notin Numbers(db') PROVE s <= end
        <4>1. SeqKey(s) \in DOMAIN db /\ SeqKey(s) \notin DOMAIN db'
          BY <3>8, NumberIn
        <4>2. ~Untouched(B, SeqKey(s))
          BY <2>2, <4>1, AppliedUntouched
        <4>3. PICK i \in DOMAIN B : s = start + i - 1
          BY <3>1, <3>5, <4>2 DEF Untouched
        <4>4. s <= upto /\ s \in Int
          BY <1>2, <1>3, <3>2, <4>3 DEF start, end
        <4>5. QED
          BY <1>2, <1>3, <4>4
      <3>9. ASSUME NEW s, s \in Numbers(db'), s \notin Numbers(db) PROVE FALSE
        <4>1. SeqKey(s) \notin DOMAIN db /\ SeqKey(s) \in DOMAIN db'
          BY <3>9, NumberIn
        <4>2. PICK i \in DOMAIN B : B[i].key = SeqKey(s)
          BY <2>2, <4>1, AppliedUntouched DEF Untouched
        <4>3. ASSUME NEW j \in DOMAIN B, B[j].key = SeqKey(s) PROVE j <= i
          <5>1. start + j - 1 = start + i - 1
            BY <3>1, <3>5, <4>2, <4>3
          <5>2. QED
            BY <1>2, <1>3, <3>2, <5>1 DEF start, end
        <4>4. Writes(B, SeqKey(s), B[i]) /\ DOMAIN B \subseteq Nat
          BY <3>2, <4>2, <4>3 DEF Writes
        <4>5. ~B[i].keep
          BY <3>3
        <4>6. QED
          BY <2>2, <4>1, <4>4, <4>5, AppliedWrites
      <3>10. QED
        BY <3>7, <3>8, <3>9
    <2>3. QED
      BY <1>1, <2>1, <2>2
  <1> HIDE DEF start, end, B
  <1>6. ASSUME NEW s \in min .. last
        PROVE  s = 0 \/ s \in Numbers(db') \/ s <= end
    BY <1>2, <1>5 DEF LogRight, end
  <1>7. LogRight'
    BY <1>1, <1>2, <1>4, <1>5, <1>6 DEF LogRight
  <1>8. Changed \cap (Primary(db) \cup Primary(db')) = {}
    BY <1>5 DEF Changed, Stays, Primary, KV, HASH, ZSET, QUEUE, SYNCLOG
  <1>9. last + 1 .. last = {} /\ last >= last /\ last >= min
    BY <1>2
  <1>10. \A s \in Numbers(db) \ Numbers(db') : s <= last - Capacity
    <2>1. \A s \in Numbers(db) : s \in Int
      BY DEF LogRight
    <2>2. QED
      BY <1>2, <1>5, <2>1
  <1>11. Numbers(db') \ Numbers(db) = {}
    BY <1>5
  <1>12. QED
    BY <1>1, <1>2, <1>4, <1>6, <1>7, <1>8, <1>9, <1>10, <1>11 DEF ChangeTold

-----------------------------------------------------------------------------
(* What a restart finds of them.                                           *)

\* Before a record come the records with smaller numbers.
LEMMA LessRecord ==
    ASSUME NEW x, Shaped(x), NEW m
    PROVE  Less(x, SeqKey(m)) <=> x[1] = SYNCLOG /\ x[2] < m
  <1> DEFINE y == SeqKey(m)
  <1>1. Len(y) = 2 /\ y[1] = SYNCLOG /\ y[2] = m
    BY DEF SeqKey
  <1>2. /\ 1 .. 2 = {1, 2} /\ 1 .. 1 - 1 = {} /\ 1 .. 2 - 1 = {1}
    OBVIOUS
  <1> HIDE DEF y
  <1>3. ASSUME Len(x) \in {2, 3, 4}
        PROVE  Less(x, y) <=> x[1] < SYNCLOG \/ (x[1] = SYNCLOG /\ x[2] < m)
    BY <1>1, <1>2, <1>3 DEF Less
  <1>4. Len(x) \in {2, 3, 4}
    <2>1. ASSUME NEW p, NEW q, x = <<p, q>> PROVE Len(x) = 2
      BY <2>1
    <2>2. ASSUME NEW p, NEW q, NEW r, x = <<p, q, r>> PROVE Len(x) = 3
      BY <2>2
    <2>3. ASSUME NEW p, NEW q, NEW r, NEW t, x = <<p, q, r, t>> PROVE Len(x) = 4
      BY <2>3
    <2>4. QED
      BY <2>1, <2>2, <2>3 DEF Shaped
  <1>5. ~(x[1] < SYNCLOG)
    BY DEF Shaped, SYNCLOG, KV, HSIZE, ZSIZE, QSIZE, HASH, ZSET, QUEUE, ZSCORE
  <1>6. QED
    BY <1>3, <1>4, <1>5 DEF y

LEMMA NumberIs ==
    ASSUME NEW there, NEW s, SeqKey(s) \in there,
           \A x \in there : x[1] = SYNCLOG => x = SeqKey(s)
    PROVE  NumberAt(there) = s
  <1>1. SeqKey(s)[1] = SYNCLOG /\ SeqKey(s)[2] = s
    BY DEF SeqKey
  <1> DEFINE x == CHOOSE x \in there : x[1] = SYNCLOG
  <1>2. x \in there /\ x[1] = SYNCLOG
    BY <1>1
  <1>3. x = SeqKey(s)
    BY <1>2
  <1>4. QED
    BY <1>1, <1>3 DEF NumberAt

\* Records are the keys of their numbers, and compare as these.
LEMMA RecordKeys ==
    ASSUME WellFormed(db)
    PROVE  /\ \A x \in DOMAIN db : x[1] = SYNCLOG => x = SeqKey(x[2]) /\ x[2] \in Numbers(db)
           /\ \A s \in Numbers(db) : SeqKey(s) \in DOMAIN db
           /\ \A s, t : Less(SeqKey(s), SeqKey(t)) <=> s < t
           /\ \A x \in DOMAIN db : \A t : Less(x, SeqKey(t)) <=> x[1] = SYNCLOG /\ x[2] < t
  <1>1. ASSUME NEW x \in DOMAIN db, x[1] = SYNCLOG
        PROVE  x = SeqKey(x[2]) /\ x[2] \in Numbers(db)
    <2>1. x = SeqKey(x[2])
      BY <1>1 DEF WellFormed, Shaped, SeqKey, SYNCLOG, KV, HSIZE, ZSIZE, QSIZE, HASH, ZSET, QUEUE, ZSCORE
    <2>2. QED
      BY <1>1, <2>1 DEF Numbers, Of
  <1>2. \A s \in Numbers(db) : SeqKey(s) \in DOMAIN db
    BY NumberIn
  <1>3. ASSUME NEW s, NEW t PROVE Less(SeqKey(s), SeqKey(t)) <=> s < t
    <2>1. SeqKey(s)[1] = SYNCLOG /\ SeqKey(s)[2] = s /\ Shaped(SeqKey(s))
      BY KeysShaped DEF SeqKey
    <2>2. QED
      BY <2>1, LessRecord
  <1>4. ASSUME NEW x \in DOMAIN db, NEW t
        PROVE  Less(x, SeqKey(t)) <=> x[1] = SYNCLOG /\ x[2] < t
    BY LessRecord DEF WellFormed
  <1>5. QED
    BY <1>1, <1>2, <1>3, <1>4

LEMMA NoneFound ==
    ASSUME WellFormed(db), Numbers(db) = {}
    PROVE  FindLast = 0 /\ \A a : FindNext(a) = 0
  <1>1. \A x \in DOMAIN db : x[1] # SYNCLOG
    BY RecordKeys
  <1>2. \A there \in SUBSET DOMAIN db : NumberAt(there) = 0
    BY <1>1 DEF NumberAt
  <1>3. \A start : Seek(start) \in SUBSET DOMAIN db /\ SeekPrev(start) \in SUBSET DOMAIN db
    BY DEF Seek, SeekPrev
  <1>4. QED
    BY <1>2, <1>3 DEF FindLast, FindNext

LEMMA LastFound ==
    ASSUME WellFormed(db), Numbers(db) \subseteq 1 .. last, last \in Numbers(db), last <= MaxLogs
    PROVE  FindLast = last
  <1> DEFINE start == SeqKey(LastSeq)  there == SeekPrev(start)
  <1>1. \A s \in Numbers(db) : s \in Nat /\ s <= last /\ s < LastSeq
    BY SsdbAssumption DEF LastSeq
  <1>2. SeqKey(last) \in DOMAIN db /\ Less(SeqKey(last), start)
    BY <1>1, RecordKeys
  <1>3. ASSUME NEW y \in DOMAIN db, Less(y, start) PROVE ~Less(SeqKey(last), y)
    <2>1. y = SeqKey(y[2]) /\ y[2] \in Numbers(db)
      BY <1>3, RecordKeys
    <2>2. ~(last < y[2])
      BY <1>1, <2>1
    <2>3. QED
      BY <2>1, <2>2, RecordKeys
  <1>4. SeqKey(last) \in there
    BY <1>2, <1>3 DEF SeekPrev
  <1>5. ASSUME NEW x \in there, x[1] = SYNCLOG PROVE x = SeqKey(last)
    <2>1. x \in DOMAIN db /\ ~Less(x, SeqKey(last))
      BY <1>2 DEF SeekPrev
    <2>2. x = SeqKey(x[2]) /\ x[2] \in Numbers(db) /\ ~(x[2] < last)
      BY <1>5, <2>1, RecordKeys
    <2>3. x[2] = last
      BY <1>1, <2>2
    <2>4. QED
      BY <2>2, <2>3
  <1> HIDE DEF there
  <1>6. NumberAt(there) = last
    BY <1>4, <1>5, NumberIs
  <1>7. QED
    BY <1>6 DEF FindLast, there

LEMMA FirstFound ==
    ASSUME WellFormed(db), Numbers(db) \subseteq Nat, NEW a \in Nat, NEW s \in Numbers(db), a <= s,
           \A t \in Numbers(db) : a <= t => s <= t
    PROVE  FindNext(a) = s
  <1> DEFINE start == SeqKey(a)  there == Seek(start)
  <1>1. SeqKey(s) \in DOMAIN db /\ ~Less(SeqKey(s), start)
    <2>1. s \in Nat /\ ~(s < a)
      OBVIOUS
    <2>2. QED
      BY <2>1, RecordKeys
  <1>2. ASSUME NEW y \in DOMAIN db, ~Less(y, start) PROVE ~Less(y, SeqKey(s))
    <2>1. ASSUME y[1] = SYNCLOG, y[2] < s PROVE FALSE
      <3>1. y[2] \in Numbers(db) /\ ~(y[2] < a)
        BY <1>2, <2>1, RecordKeys
      <3>2. y[2] \in Nat /\ s \in Nat
        BY <3>1
      <3>3. a <= y[2]
        BY <3>1, <3>2
      <3>4. s <= y[2]
        BY <3>1, <3>3
      <3>5. QED
        BY <2>1, <3>2, <3>4
    <2>2. QED
      BY <2>1, RecordKeys
  <1>3. SeqKey(s) \in there
    BY <1>1, <1>2 DEF Seek
  <1>4. ASSUME NEW x \in there, x[1] = SYNCLOG PROVE x = SeqKey(s)
    <2>1. x \in DOMAIN db /\ ~Less(x, start) /\ ~Less(SeqKey(s), x)
      BY <1>1 DEF Seek
    <2>2. x = SeqKey(x[2]) /\ x[2] \in Numbers(db) /\ ~(x[2] < a)
      BY <1>4, <2>1, RecordKeys
    <2>3. ~(s < x[2])
      BY <2>1, <2>2, RecordKeys
    <2>4. x[2] \in Nat /\ s \in Nat
      BY <2>2
    <2>5. s <= x[2]
      BY <2>2, <2>4
    <2>6. QED
      BY <2>2, <2>3, <2>4, <2>5
  <1> HIDE DEF there
  <1>5. NumberAt(there) = s
    BY <1>3, <1>4, NumberIs
  <1>6. QED
    BY <1>5 DEF FindNext, there

\* A restart goes on behind the last record, and begins at the first of the
\* last Capacity that there is.
LEMMA RestartFinds ==
    ASSUME WellFormed(db), LogRight, enabled, last # 0
    PROVE  /\ FindLast = last
           /\ LET m == Opened(last)
              IN /\ m \in 1 .. last /\ (m <= 1 \/ m <= last - Capacity + 1)
                 /\ \A s \in m .. last : s \in Numbers(db)
  <1> DEFINE first == IF last > Capacity THEN last - Capacity ELSE 0
  <1>1. /\ Capacity \in Nat \ {0} /\ last \in Nat \ {0} /\ min \in Nat /\ min <= last
        /\ Numbers(db) \subseteq 1 .. last /\ last <= MaxLogs
        /\ min <= 1 \/ min <= last - Capacity + 1
    BY SsdbAssumption DEF LogRight
  <1>2. first \in Nat /\ first < last /\ (first = 0 \/ first = last - Capacity)
    BY <1>1
  <1>3. \A s \in Int : s > first /\ s <= last => s \in min .. last /\ s > last - Capacity
    <2>1. first >= last - Capacity
      BY <1>1
    <2>2. \A s \in Int : s > first => s >= min
      <3>1. CASE min <= 1
        BY <1>1, <1>2, <3>1
      <3>2. CASE min <= last - Capacity + 1
        <4>1. min <= first + 1
          BY <1>1, <1>2, <2>1, <3>2
        <4> HIDE DEF first
        <4>2. QED
          BY <1>1, <1>2, <4>1
      <3>3. QED
        BY <1>1, <3>1, <3>2
    <2> HIDE DEF first
    <2>3. QED
      BY <1>1, <1>2, <2>1, <2>2
  <1> HIDE DEF first
  <1>4. ASSUME NEW s \in Int, s > first, s <= last PROVE s \in Numbers(db)
    <2>1. s \in min .. last /\ s > last - Capacity
      BY <1>3, <1>4
    <2>2. s # 0
      BY <1>2, <1>4
    <2>3. cleaning # Nothing => cleaning.end \in Int /\ cleaning.end <= last - Capacity
      BY DEF LogRight
    <2>4. ~(cleaning # Nothing /\ s <= cleaning.end)
      BY <1>1, <2>1, <2>3
    <2>5. QED
      BY <2>1, <2>2, <2>4 DEF LogRight
  <1>5. last \in Numbers(db)
    BY <1>1, <1>2, <1>4
  <1>6. FindLast = last
    BY <1>1, <1>5, LastFound
  <1> DEFINE T == {s \in Numbers(db) : first <= s}
  <1>7. PICK m \in T : \A t \in T : m <= t
    <2>1. T \subseteq Nat /\ last \in T
      BY <1>1, <1>2, <1>5
    <2> HIDE DEF T
    <2>2. QED
      BY <2>1, LeastNat
  <1>8. m \in Numbers(db) /\ first <= m /\ m \in 1 .. last
    BY <1>1, <1>7
  <1>9. FindNext(first) = m
    BY <1>1, <1>2, <1>7, <1>8, FirstFound
  <1>10. Opened(last) = m
    BY <1>1, <1>8, <1>9 DEF Opened, first
  <1>11. m <= first + 1
    <2>1. first + 1 \in Int /\ first + 1 > first /\ first + 1 <= last /\ first <= first + 1
      BY <1>1, <1>2
    <2>2. first + 1 \in T
      BY <1>4, <2>1
    <2>3. QED
      BY <1>7, <2>2
  <1>12. m <= 1 \/ m <= last - Capacity + 1
    BY <1>1, <1>2, <1>8, <1>11
  <1>13. ASSUME NEW s \in m .. last PROVE s \in Numbers(db)
    <2>1. CASE s = m
      BY <1>8, <2>1
    <2>2. CASE s # m
      <3>1. s \in Int /\ s > first /\ s <= last
        BY <1>1, <1>2, <1>8, <2>2
      <3>2. QED
        BY <1>4, <3>1
    <2>3. QED
      BY <2>1, <2>2
  <1>14. QED
    BY <1>6, <1>8, <1>10, <1>12, <1>13

LEMMA RestartTold == WellFormed(db) /\ LogRight /\ Restart => ChangeTold /\ LogRight'
  <1> SUFFICES ASSUME WellFormed(db), LogRight, Restart PROVE ChangeTold /\ LogRight'
    OBVIOUS
  <1>1. /\ last' = FindLast /\ min' = Opened(FindLast) /\ cleaning' = Nothing
        /\ db' = db /\ enabled' = enabled
    BY DEF Restart
  <1>2. Changed = {}
    BY <1>1 DEF Changed
  <1>3. MaxLogs \in Nat /\ Capacity \in Nat \ {0} /\ last \in Nat
    BY SsdbAssumption DEF LogRight
  <1>4. CASE enabled /\ last # 0
    <2>1. /\ last' = last /\ min' \in 1 .. last
          /\ min' <= 1 \/ min' <= last - Capacity + 1
          /\ \A s \in min' .. last : s \in Numbers(db)
      BY <1>1, <1>4, RestartFinds
    <2>2. min' \in Nat /\ min' <= last
      BY <1>3, <2>1
    <2>3. LogRight'
      BY <1>1, <1>4, <2>1, <2>2 DEF LogRight
    <2>4. last + 1 .. last = {} /\ last >= last /\ last >= min'
      BY <1>3, <2>2
    <2>5. QED
      BY <1>1, <1>2, <1>4, <2>1, <2>3, <2>4 DEF ChangeTold
  <1>5. CASE ~enabled \/ last = 0
    <2>1. Numbers(db) = {}
      <3>1. last = 0 => 1 .. last = {}
        BY <1>3
      <3>2. QED
        BY <1>5, <3>1 DEF LogRight
    <2>2. last' = 0 /\ min' = 0
      <3>1. FindLast = 0 /\ FindNext(0) = 0
        BY <2>1, NoneFound
      <3>2. ~(0 > Capacity)
        BY <1>3
      <3>3. QED
        BY <1>1, <3>1, <3>2 DEF Opened
    <2>3. \A s \in 0 .. 0 : s = 0
      OBVIOUS
    <2>4. LogRight'
      <3>1. /\ last' \in Nat /\ last' <= MaxLogs /\ min' \in Nat /\ min' <= last' /\ min' <= 1
        BY <1>3, <2>2
      <3>2. Numbers(db') \subseteq 1 .. last' /\ Numbers(db') = {}
        BY <1>1, <2>1
      <3>3. \A s \in min' .. last' : s = 0
        BY <2>2, <2>3
      <3>4. enabled' \in BOOLEAN
        BY <1>1 DEF LogRight
      <3>5. QED
        BY <1>1, <3>1, <3>2, <3>3, <3>4 DEF LogRight
    <2>5. ChangeTold
      <3>1. CASE ~enabled
        BY <1>1, <2>1, <3>1 DEF ChangeTold
      <3>2. CASE enabled
        <4>1. last = 0
          BY <1>5, <3>2
        <4>2. 0 + 1 .. 0 = {} /\ 0 >= 0
          OBVIOUS
        <4>3. QED
          BY <1>1, <1>2, <2>1, <2>2, <2>3, <3>2, <4>1, <4>2 DEF ChangeTold
      <3>3. QED
        BY <3>1, <3>2
    <2>6. QED
      BY <2>4, <2>5
  <1>6. QED
    BY <1>4, <1>5

LEMMA InitLog == Init => LogRight
  <1> SUFFICES ASSUME Init PROVE LogRight
    OBVIOUS
  <1>1. /\ enabled \in BOOLEAN /\ DOMAIN db = {} /\ min = 0 /\ last = 0 /\ cleaning = Nothing
    BY DEF Init
  <1>2. Numbers(db) = {}
    BY <1>1 DEF Numbers, Of
  <1>3. MaxLogs \in Nat /\ \A s \in 0 .. 0 : s = 0
    BY SsdbAssumption
  <1>4. QED
    BY <1>1, <1>2, <1>3 DEF LogRight

LEMMA NextLog ==
    IInv /\ IInv' /\ LogRight /\ [Next]_vars => ChangeTold /\ LogRight'
  <1> SUFFICES ASSUME IInv, IInv', LogRight, [Next]_vars PROVE ChangeTold /\ LogRight'
    OBVIOUS
  <1>1. WellFormed(db) /\ WellFormed(db')
    BY DEF IInv
  <1>2. CASE TellingStep
    <2>1. PICK call, o, f : Transact(call, o, f) /\ Told(o)
      BY <1>2 DEF TellingStep
    <2>2. QED
      BY ONLY <1>1, LogRight, <2>1, TransactTells
  <1>3. CASE (\E n : HclearBegin(n)) \/ HclearAgain \/ HclearEnd \/ UNCHANGED vars
    <2>1. db' = db /\ last' = last /\ min' = min /\ cleaning' = cleaning /\ enabled' = enabled
      BY <1>3 DEF HclearBegin, HclearAgain, HclearEnd, vars
    <2>2. QED
      BY <2>1, StaysTold
  <1>4. CASE Restart
    BY <1>1, <1>4, RestartTold
  <1>5. CASE CleanBegin
    BY <1>5, CleanBeginTold
  <1>6. CASE \E f : CleanChunk(f)
    BY <1>1, <1>6, CleanChunkTold
  <1>7. CASE CleanEnd
    BY <1>7, CleanEndTold
  <1>8. Next => \/ TellingStep
                \/ (\E n : HclearBegin(n)) \/ HclearAgain \/ HclearEnd
                \/ Restart \/ CleanBegin \/ (\E f : CleanChunk(f)) \/ CleanEnd
    BY KvTold, HashTold, ZsetTold, QueueTold, Zenon DEF Next
  <1>9. QED
    BY <1>2, <1>3, <1>4, <1>5, <1>6, <1>7, <1>8, Zenon

\* Whatever is written, fails, is cleaned up or is killed: the last record
\* has the number last_seq, no number is missing from min_seq on but those
\* the cleaning thread is about to give up, and none of the last capacity is.
THEOREM RecordsRight == Spec => []LogRight
  <1>1. Init => LogRight
    BY InitLog
  <1>2. IInv /\ IInv' /\ LogRight /\ [Next]_vars => LogRight'
    BY NextLog
  <1>3. QED
    BY <1>1, <1>2, StoreRight, PTL DEF Spec

\* Each step writes a record for each entry it changes, numbered on from the
\* last one, and deletes none but obsolete ones: what add_log of every
\* operation, commit, BinlogQueue's constructor and log_clean_thread_func
\* promise a reader of the log together.
THEOREM ChangesTold == Spec => LogTellsChanges
  <1>1. IInv /\ IInv' /\ LogRight /\ [Next]_vars => ChangeTold
    BY NextLog
  <1>2. IInv /\ IInv' /\ LogRight /\ [Next]_vars => [ChangeTold]_vars
    BY <1>1
  <1>3. QED
    BY <1>2, StoreRight, RecordsRight, PTL DEF Spec, LogTellsChanges

-----------------------------------------------------------------------------
(* What a queue holds.                                                     *)

\* In the store d the queue n holds the entries a to b.
Holds(d, n, a, b) ==
    /\ a \in QMin + 1 .. QMax /\ b \in QMin + 1 .. QMax /\ a <= b
    /\ QItemKey(n, QFRONT) \in DOMAIN d /\ d[QItemKey(n, QFRONT)] = a
    /\ QItemKey(n, QBACK) \in DOMAIN d /\ d[QItemKey(n, QBACK)] = b
    /\ \A s \in Places \ Ends : QItemKey(n, s) \in DOMAIN d <=> s \in a .. b

\* It holds none.
HoldsNone(d, n) == \A s \in Places : QItemKey(n, s) \notin DOMAIN d

LEMMA QueueHeld ==
    ASSUME NEW d, NEW n
    PROVE  /\ \A a, b : Holds(d, n, a, b) =>
                 Queue(d, n) = [i \in 1 .. b - a + 1 |-> d[QItemKey(n, a + i - 1)]]
           /\ HoldsNone(d, n) => Queue(d, n) = <<>>
  <1>1. ASSUME NEW a, NEW b, Holds(d, n, a, b)
        PROVE  Queue(d, n) = [i \in 1 .. b - a + 1 |-> d[QItemKey(n, a + i - 1)]]
    <2>1. /\ a \in Int /\ b \in Int /\ a <= b /\ \A s \in a .. b : s \in Places \ Ends
      <3>1. \A s \in a .. b : s \in QMin + 1 .. QMax
        BY <1>1, PlacesDiffer DEF Holds
      <3>2. QED
        BY <1>1, <3>1, PlacesDiffer DEF Holds
    <2>2. Cardinality(a .. b) = b - a + 1
      BY <2>1, FS_Interval
    <2>3. \A i \in 1 .. b - a + 1 : QItemKey(n, a + i - 1) \in DOMAIN d
      <3>1. \A i \in 1 .. b - a + 1 : a + i - 1 \in a .. b
        BY <2>1
      <3>2. QED
        BY <1>1, <2>1, <3>1 DEF Holds
    <2>4. Queue(d, n) = [i \in 1 .. Cardinality(a .. b) |->
                            LET x == QItemKey(n, a + i - 1)
                            IN IF x \in DOMAIN d THEN d[x] ELSE Nothing]
      BY <1>1 DEF Queue, Holds
    <2>5. QED
      BY <2>2, <2>3, <2>4
  <1>2. ASSUME HoldsNone(d, n) PROVE Queue(d, n) = <<>>
    BY <1>2, PlacesDiffer DEF Queue, HoldsNone
  <1>3. QED
    BY <1>1, <1>2

\* A queue qset_by_seq did not write behind holds what its ends say.
LEMMA QueueState ==
    IInv => \A n \in QNames : n \notin orphaned =>
              IF QSizeKey(n) \in DOMAIN db
              THEN /\ Holds(db, n, Sequence(n, QFRONT), Sequence(n, QBACK))
                   /\ QSize(n) = Sequence(n, QBACK) - Sequence(n, QFRONT) + 1
              ELSE HoldsNone(db, n) /\ QSize(n) = 0
  <1> SUFFICES ASSUME IInv, NEW n \in QNames, n \notin orphaned
               PROVE  IF QSizeKey(n) \in DOMAIN db
                      THEN /\ Holds(db, n, Sequence(n, QFRONT), Sequence(n, QBACK))
                           /\ QSize(n) = Sequence(n, QBACK) - Sequence(n, QFRONT) + 1
                      ELSE HoldsNone(db, n) /\ QSize(n) = 0
    OBVIOUS
  <1> DEFINE front == Sequence(n, QFRONT)  back == Sequence(n, QBACK)
  <1>1. QueueEnds(n) /\ QueueRight(n)
    BY DEF IInv
  <1>2. CASE QSizeKey(n) \in DOMAIN db
    <2>1. /\ front \in QMin + 1 .. QMax /\ back \in QMin + 1 .. QMax
          /\ QSize(n) \in 1 .. back - front + 1 /\ QMin \in Nat /\ QMax \in Nat
          /\ QItemKey(n, QFRONT) \in DOMAIN db /\ db[QItemKey(n, QFRONT)] = front
          /\ QItemKey(n, QBACK) \in DOMAIN db /\ db[QItemKey(n, QBACK)] = back
      BY <1>1, <1>2, QueueValues, PlacesDiffer
    <2>2. /\ QSize(n) = back - front + 1
          /\ \A s \in Places \ Ends : QItemKey(n, s) \in DOMAIN db <=> s \in front .. back
      BY <1>1, <1>2 DEF QueueRight
    <2> HIDE DEF front, back
    <2>3. front <= back
      BY <2>1
    <2>4. Holds(db, n, front, back)
      BY <2>1, <2>2, <2>3 DEF Holds
    <2>5. QED
      BY <1>2, <2>2, <2>4 DEF front, back
  <1>3. CASE QSizeKey(n) \notin DOMAIN db
    <2>1. \A s \in Places \ Ends : QItemKey(n, s) \notin DOMAIN db
      BY <1>1, <1>3 DEF QueueRight
    <2>2. /\ QItemKey(n, QFRONT) \notin DOMAIN db /\ QItemKey(n, QBACK) \notin DOMAIN db
          /\ QSize(n) = 0
      BY <1>1, <1>3, QueueValues
    <2>3. QED
      BY <1>3, <2>1, <2>2 DEF HoldsNone, Ends
  <1>4. QED
    BY <1>2, <1>3

QueuesHeld == \A n \in QNames : n \notin orphaned =>
                 (\E a, b : Holds(db, n, a, b)) \/ HoldsNone(db, n)

LEMMA QueueHolds == IInv => QueuesHeld
  BY QueueState DEF QueuesHeld

LEMMA QueueHoldsNext == IInv' => QueuesHeld'
  BY QueueHolds, PTL

-----------------------------------------------------------------------------
(* The order of the keys.                                                  *)

LEMMA LessIrreflexive ==
    ASSUME NEW a \in Seq(Int)
    PROVE  ~Less(a, a)
  <1>1. ASSUME NEW i \in 1 .. Len(a), i = Len(a) + 1 \/ (i <= Len(a) /\ a[i] < a[i])
        PROVE  FALSE
    <2>1. a[i] \in Int /\ Len(a) \in Nat
      BY LenProperties, ElementOfSeq
    <2>2. QED
      BY <1>1, <2>1
  <1>2. QED
    BY <1>1 DEF Less

LEMMA LessTransitive ==
    ASSUME NEW a \in Seq(Int), NEW b \in Seq(Int), NEW c \in Seq(Int), Less(a, b), Less(b, c)
    PROVE  Less(a, c)
  <1>1. /\ Len(a) \in Nat /\ Len(b) \in Nat /\ Len(c) \in Nat
        /\ \A i \in 1 .. Len(a) : a[i] \in Int
        /\ \A i \in 1 .. Len(b) : b[i] \in Int
        /\ \A i \in 1 .. Len(c) : c[i] \in Int
    BY LenProperties, ElementOfSeq
  <1>2. PICK i \in 1 .. Len(b) :
           /\ \A k \in 1 .. i - 1 : k <= Len(a) /\ a[k] = b[k]
           /\ i = Len(a) + 1 \/ (i <= Len(a) /\ a[i] < b[i])
    BY DEF Less
  <1>3. PICK j \in 1 .. Len(c) :
           /\ \A k \in 1 .. j - 1 : k <= Len(b) /\ b[k] = c[k]
           /\ j = Len(b) + 1 \/ (j <= Len(b) /\ b[j] < c[j])
    BY DEF Less
  <1> DEFINE Below(m) == /\ \A k \in 1 .. m - 1 : k <= Len(a) /\ a[k] = c[k]
                         /\ m = Len(a) + 1 \/ (m <= Len(a) /\ a[m] < c[m])
  <1>4. CASE i < j
    <2>1. i \in 1 .. Len(c)
      BY <1>1, <1>4
    <2>2. b[i] = c[i] /\ \A k \in 1 .. i - 1 : b[k] = c[k]
      BY <1>1, <1>3, <1>4
    <2>3. Below(i)
      BY <1>2, <2>2
    <2>4. QED
      BY <2>1, <2>3 DEF Less
  <1>5. CASE i = j
    <2>1. Below(i)
      BY <1>1, <1>2, <1>3, <1>5, SMTT(30)
    <2>2. QED
      BY <1>5, <2>1 DEF Less
  <1>6. CASE j < i
    <2>1. Below(j)
      BY <1>1, <1>2, <1>3, <1>6, SMTT(30)
    <2>2. QED
      BY <2>1 DEF Less
  <1>7. QED
    BY <1>4, <1>5, <1>6

LEMMA LessTotal ==
    ASSUME NEW a \in Seq(Int), NEW b \in Seq(Int), a # b
    PROVE  Less(a, b) \/ Less(b, a)
  <1>1. /\ Len(a) \in Nat /\ Len(b) \in Nat
        /\ \A i \in 1 .. Len(a) : a[i] \in Int
        /\ \A i \in 1 .. Len(b) : b[i] \in Int
    BY LenProperties, ElementOfSeq
  <1> DEFINE Same(k) == k <= Len(a) /\ k <= Len(b) /\ a[k] = b[k]
             T == {k \in Nat \ {0} : ~Same(k)}
  <1>2. PICK i \in T : \A k \in T : i <= k
    <2>1. Len(a) + 1 \in T
      BY <1>1
    <2>2. T \subseteq Nat /\ T # {}
      BY <2>1
    <2> HIDE DEF T
    <2>3. QED
      BY <2>2, LeastNat
  <1>3. i \in Nat \ {0} /\ ~Same(i)
    OBVIOUS
  <1>4. \A k \in 1 .. i - 1 : Same(k)
    <2>1. ASSUME NEW k \in 1 .. i - 1, ~Same(k) PROVE FALSE
      <3>1. k \in T /\ k < i
        BY <1>3, <2>1
      <3>2. QED
        BY <1>2, <1>3, <3>1
    <2>2. QED
      BY <2>1
  <1>5. i <= Len(a) + 1 /\ i <= Len(b) + 1
    <2>1. i = 1 \/ Same(i - 1)
      BY <1>3, <1>4
    <2>2. QED
      BY <1>1, <1>3, <2>1
  <1>6. CASE i = Len(a) + 1 /\ i = Len(b) + 1
    <2>1. Len(a) = Len(b) /\ \A k \in 1 .. Len(a) : a[k] = b[k]
      BY <1>1, <1>4, <1>6
    <2>2. a = b
      BY <2>1, SeqEqual
    <2>3. QED
      BY <2>2
  <1>7. CASE i <= Len(b) /\ (i = Len(a) + 1 \/ (i <= Len(a) /\ a[i] < b[i]))
    <2>1. i \in 1 .. Len(b)
      BY <1>1, <1>3, <1>7
    <2>2. \A k \in 1 .. i - 1 : k <= Len(a) /\ a[k] = b[k]
      BY <1>4
    <2>3. Less(a, b)
      BY <1>7, <2>1, <2>2 DEF Less
    <2>4. QED
      BY <2>3
  <1>8. CASE i <= Len(a) /\ (i = Len(b) + 1 \/ (i <= Len(b) /\ b[i] < a[i]))
    <2>1. i \in 1 .. Len(a)
      BY <1>1, <1>3, <1>8
    <2>2. \A k \in 1 .. i - 1 : k <= Len(b) /\ b[k] = a[k]
      BY <1>4
    <2>3. Less(b, a)
      BY <1>8, <2>1, <2>2 DEF Less
    <2>4. QED
      BY <2>3
  <1>9. QED
    BY <1>1, <1>3, <1>5, <1>6, <1>7, <1>8

\* An order of a finite set: how many come before an element is its place.
StrictOrder(R, S) ==
    /\ \A x \in S : <<x, x>> \notin R
    /\ \A x, y, z \in S : <<x, y>> \in R /\ <<y, z>> \in R => <<x, z>> \in R
    /\ \A x, y \in S : x = y \/ <<x, y>> \in R \/ <<y, x>> \in R

Before(R, S, x) == {y \in S : <<y, x>> \in R}

LEMMA PlacesInOrder ==
    ASSUME NEW S, IsFiniteSet(S), NEW R, StrictOrder(R, S)
    PROVE  /\ Cardinality(S) \in Nat
           /\ \A x \in S : Cardinality(Before(R, S, x)) \in 0 .. Cardinality(S) - 1
           /\ \A x, y \in S : <<x, y>> \in R
                 <=> Cardinality(Before(R, S, x)) < Cardinality(Before(R, S, y))
           /\ \A i \in 1 .. Cardinality(S) :
                 \E x \in S : Cardinality(Before(R, S, x)) = i - 1
  <1> DEFINE N == Cardinality(S)
             place == [x \in S |-> Cardinality(Before(R, S, x))]
  <1>1. N \in Nat
    BY FS_CardinalityType
  <1>2. \A x \in S : IsFiniteSet(Before(R, S, x)) /\ place[x] \in Nat
    <2>1. ASSUME NEW x \in S PROVE IsFiniteSet(Before(R, S, x)) /\ place[x] \in Nat
      <3>1. Before(R, S, x) \subseteq S
        BY DEF Before
      <3>2. QED
        BY <3>1, FS_Subset, FS_CardinalityType
    <2>2. QED
      BY <2>1
  <1>3. \A x \in S : place[x] \in 0 .. N - 1
    <2>1. ASSUME NEW x \in S PROVE place[x] \in 0 .. N - 1
      <3>1. Before(R, S, x) \subseteq S \ {x}
        BY DEF Before, StrictOrder
      <3>2. IsFiniteSet(S \ {x}) /\ Cardinality(S \ {x}) = N - 1
        BY FS_RemoveElement
      <3>3. Cardinality(Before(R, S, x)) <= N - 1
        BY <3>1, <3>2, FS_Subset
      <3>4. QED
        BY <1>1, <1>2, <3>3
    <2>2. QED
      BY <2>1
  <1>4. \A x, y \in S : <<x, y>> \in R => place[x] < place[y]
    <2>1. ASSUME NEW x \in S, NEW y \in S, <<x, y>> \in R PROVE place[x] < place[y]
      <3>1. x \in Before(R, S, y) /\ x \notin Before(R, S, x)
        BY <2>1 DEF Before, StrictOrder
      <3>2. Before(R, S, x) \subseteq Before(R, S, y) \ {x}
        BY <2>1, <3>1 DEF Before, StrictOrder
      <3>3. /\ IsFiniteSet(Before(R, S, y) \ {x})
            /\ Cardinality(Before(R, S, y) \ {x}) = Cardinality(Before(R, S, y)) - 1
        BY <1>2, <3>1, FS_RemoveElement
      <3>4. Cardinality(Before(R, S, x)) <= Cardinality(Before(R, S, y)) - 1
        BY <3>2, <3>3, FS_Subset
      <3>5. QED
        BY <1>2, <3>4
    <2>2. QED
      BY <2>1
  <1> HIDE DEF place
  <1>5. \A x, y \in S : place[x] < place[y] => <<x, y>> \in R
    <2>1. ASSUME NEW x \in S, NEW y \in S, place[x] < place[y] PROVE <<x, y>> \in R
      <3>1. place[x] \in Nat /\ place[y] \in Nat
        BY <1>2
      <3>2. x # y /\ ~(<<y, x>> \in R)
        BY <1>4, <2>1, <3>1
      <3>3. QED
        BY <3>2 DEF StrictOrder
    <2>2. QED
      BY <2>1
  <1>6. \A x, y \in S : place[x] = place[y] => x = y
    <2>1. ASSUME NEW x \in S, NEW y \in S, place[x] = place[y], x # y PROVE FALSE
      <3>1. place[x] \in Nat /\ place[y] \in Nat
        BY <1>2
      <3>2. <<x, y>> \in R \/ <<y, x>> \in R
        BY <2>1 DEF StrictOrder
      <3>3. QED
        BY <1>4, <2>1, <3>1, <3>2
    <2>2. QED
      BY <2>1
  <1>7. place \in Surjection(S, 0 .. N - 1)
    <2>1. place \in Injection(S, 0 .. N - 1)
      <3>1. place \in [S -> 0 .. N - 1]
        BY <1>3 DEF place
      <3>2. QED
        BY <1>6, <3>1 DEF Injection, IsInjective
    <2>2. IsFiniteSet(0 .. N - 1) /\ Cardinality(0 .. N - 1) = N
      <3>1. \A b \in Int : IsFiniteSet(0 .. b) /\ Cardinality(0 .. b) = IF 0 > b THEN 0 ELSE b - 0 + 1
        BY FS_Interval
      <3>2. QED
        BY <1>1, <3>1
    <2> HIDE DEF N
    <2>3. QED
      BY <2>1, <2>2, FS_Injection DEF N
  <1>8. ASSUME NEW i \in 1 .. N PROVE \E x \in S : place[x] = i - 1
    <2>1. i - 1 \in 0 .. N - 1
      BY <1>1
    <2>2. QED
      BY <1>7, <2>1 DEF Surjection
  <1>9. \A x \in S : place[x] = Cardinality(Before(R, S, x))
    BY DEF place
  <1>10. QED
    BY <1>1, <1>3, <1>4, <1>5, <1>8, <1>9

\* What puts each at its place has all of them in order.
Enumerates(s, R, S) ==
    /\ Cardinality(S) \in Nat
    /\ s \in Seq(S) /\ Len(s) = Cardinality(S) /\ DOMAIN s = 1 .. Cardinality(S)
    /\ \A i, j \in 1 .. Cardinality(S) : i < j <=> <<s[i], s[j]>> \in R
    /\ \A i, j \in 1 .. Cardinality(S) : s[i] = s[j] => i = j
    /\ \A x \in S : \E i \in 1 .. Cardinality(S) : s[i] = x

LEMMA InPlace ==
    ASSUME NEW S, IsFiniteSet(S), NEW R, StrictOrder(R, S), NEW s,
           s = [i \in 1 .. Cardinality(S) |-> s[i]],
           \A i \in 1 .. Cardinality(S) : s[i] \in S /\ Cardinality(Before(R, S, s[i])) = i - 1
    PROVE  Enumerates(s, R, S)
  <1> DEFINE N == Cardinality(S)
             P(x) == Cardinality(Before(R, S, x))
  <1>1. /\ N \in Nat
        /\ \A x \in S : P(x) \in 0 .. N - 1
        /\ \A x, y \in S : <<x, y>> \in R <=> P(x) < P(y)
    BY PlacesInOrder
  <1>2. \A i \in 1 .. N : s[i] \in S /\ P(s[i]) = i - 1
    OBVIOUS
  <1>3. DOMAIN s = 1 .. N /\ s \in [1 .. N -> S]
    <2> HIDE DEF N
    <2>1. s = [i \in 1 .. N |-> s[i]]
      BY DEF N
    <2>2. QED
      BY <1>2, <2>1
  <1> HIDE DEF N, P
  <1>4. s \in Seq(S)
    BY <1>1, <1>3, SeqDef
  <1>5. Len(s) = N
    <2>1. Len(s) \in Nat /\ 1 .. Len(s) = 1 .. N
      BY <1>3, <1>4, LenProperties
    <2>2. \A m, n \in Nat : 1 .. m = 1 .. n => m = n
      <3>1. ASSUME NEW m \in Nat, NEW n \in Nat, 1 .. m = 1 .. n, m < n PROVE FALSE
        <4>1. n \in 1 .. n /\ n \notin 1 .. m
          BY <3>1
        <4>2. QED
          BY <3>1, <4>1
      <3>2. ASSUME NEW m \in Nat, NEW n \in Nat, 1 .. m = 1 .. n PROVE m = n
        <4>1. ~(m < n) /\ ~(n < m)
          BY <3>1, <3>2
        <4>2. QED
          BY <4>1
      <3>3. QED
        BY <3>2
    <2>3. QED
      BY <1>1, <2>1, <2>2
  <1>6. \A i, j \in 1 .. N : i < j <=> <<s[i], s[j]>> \in R
    <2>1. ASSUME NEW i \in 1 .. N, NEW j \in 1 .. N PROVE i < j <=> <<s[i], s[j]>> \in R
      <3>1. P(s[i]) = i - 1 /\ P(s[j]) = j - 1
        BY <1>2, Zenon
      <3>2. <<s[i], s[j]>> \in R <=> P(s[i]) < P(s[j])
        BY <1>1, <1>2, Zenon
      <3>3. i - 1 < j - 1 <=> i < j
        BY <1>1
      <3>4. QED
        BY <3>1, <3>2, <3>3
    <2>2. QED
      BY <2>1
  <1>7. \A i, j \in 1 .. N : s[i] = s[j] => i = j
    <2>1. ASSUME NEW i \in 1 .. N, NEW j \in 1 .. N, s[i] = s[j] PROVE i = j
      <3>1. P(s[i]) = i - 1 /\ P(s[j]) = j - 1
        BY <1>2, Zenon
      <3>2. i - 1 = j - 1
        BY <2>1, <3>1
      <3>3. QED
        BY <3>2
    <2>2. QED
      BY <2>1
  <1>8. ASSUME NEW x \in S PROVE \E i \in 1 .. N : s[i] = x
    <2>1. P(x) \in 0 .. N - 1
      BY <1>1
    <2> DEFINE i == P(x) + 1
    <2>2. i \in 1 .. N /\ i - 1 = P(x)
      BY <1>1, <2>1
    <2> HIDE DEF i
    <2>3. P(s[i]) = P(x) /\ s[i] \in S
      BY <1>2, <2>2
    <2>4. ~(<<s[i], x>> \in R) /\ ~(<<x, s[i]>> \in R)
      <3>1. ~(P(x) < P(x))
        BY <1>1, <2>1
      <3>2. QED
        BY <1>1, <2>3, <3>1
    <2>5. s[i] = x
      BY <2>3, <2>4 DEF StrictOrder
    <2>6. QED
      BY <2>2, <2>5
  <1>9. QED
    BY <1>1, <1>3, <1>4, <1>5, <1>6, <1>7, <1>8 DEF Enumerates, N

\* Sorted lists keys in their order.
KeyOrder == {p \in Seq(Int) \X Seq(Int) : Less(p[1], p[2])}

LEMMA SortedKeys ==
    ASSUME NEW S, IsFiniteSet(S), S \subseteq Seq(Int)
    PROVE  Enumerates(Sorted(S, Less), KeyOrder, S)
  <1> DEFINE R == KeyOrder
             s == Sorted(S, Less)
             Below(x) == {y \in S : Less(y, x)}
  <1>1. \A x, y \in S : <<x, y>> \in R <=> Less(x, y)
    BY DEF KeyOrder
  <1> HIDE DEF R
  <1>2. StrictOrder(R, S)
    <2>1. \A x \in S : ~Less(x, x)
      BY LessIrreflexive
    <2>2. \A x, y, z \in S : Less(x, y) /\ Less(y, z) => Less(x, z)
      BY LessTransitive
    <2>3. \A x, y \in S : x = y \/ Less(x, y) \/ Less(y, x)
      BY LessTotal
    <2>4. QED
      BY <1>1, <2>1, <2>2, <2>3 DEF StrictOrder
  <1>3. \A x \in S : Before(R, S, x) = Below(x)
    BY <1>1 DEF Before
  <1>4. s = [i \in 1 .. Cardinality(S) |-> CHOOSE x \in S : Cardinality(Below(x)) = i - 1]
    BY DEF Sorted
  <1> HIDE DEF s, Below
  <1>5. ASSUME NEW i \in 1 .. Cardinality(S)
        PROVE  s[i] \in S /\ Cardinality(Before(R, S, s[i])) = i - 1
    <2>1. \E x \in S : Cardinality(Before(R, S, x)) = i - 1
      BY <1>2, PlacesInOrder
    <2>2. \E x \in S : Cardinality(Below(x)) = i - 1
      BY <1>3, <2>1
    <2>3. s[i] = CHOOSE x \in S : Cardinality(Below(x)) = i - 1
      BY <1>4
    <2>4. s[i] \in S /\ Cardinality(Below(s[i])) = i - 1
      BY <2>2, <2>3
    <2>5. QED
      BY <1>3, <2>4
  <1>6. s = [i \in 1 .. Cardinality(S) |-> s[i]]
    <2> DEFINE e(i) == CHOOSE x \in S : Cardinality(Below(x)) = i - 1
    <2>1. s = [i \in 1 .. Cardinality(S) |-> e(i)]
      BY <1>4
    <2> HIDE DEF e
    <2>2. QED
      BY <2>1
  <1>7. Enumerates(s, R, S)
    BY <1>2, <1>5, <1>6, InPlace
  <1>8. QED
    BY <1>7 DEF s, R

Starts(P, x) == Len(P) <= Len(x) /\ \A i \in 1 .. Len(P) : x[i] = P[i]

LEMMA PrefixStarts ==
    ASSUME NEW P \in Seq(Int), NEW x \in Seq(Int)
    PROVE  IsPrefix(P, x) <=> Starts(P, x)
  <1>1. Len(P) \in Nat /\ Len(x) \in Nat
    BY LenProperties
  <1>2. CASE Len(P) <= Len(x)
    <2> DEFINE p == SubSeq(P, 1, Len(P))  q == SubSeq(x, 1, Len(P))
    <2>1. /\ p \in Seq(Int) /\ Len(p) = Len(P)
          /\ \A i \in 1 .. Len(P) : p[i] = P[i]
      <3>1. \A i \in 1 .. Len(P) : P[i] \in Int
        BY ElementOfSeq
      <3>2. /\ p \in Seq(Int) /\ Len(p) = IF 1 <= Len(P) THEN Len(P) - 1 + 1 ELSE 0
            /\ \A i \in 1 .. Len(P) - 1 + 1 : p[i] = P[1 + i - 1]
        BY <1>1, <3>1, SubSeqProperties
      <3> HIDE DEF p
      <3>3. QED
        BY <1>1, <3>2
    <2>2. /\ q \in Seq(Int) /\ Len(q) = Len(P)
          /\ \A i \in 1 .. Len(P) : q[i] = x[i]
      <3>1. \A i \in 1 .. Len(P) : x[i] \in Int
        BY <1>1, <1>2, ElementOfSeq
      <3>2. /\ q \in Seq(Int) /\ Len(q) = IF 1 <= Len(P) THEN Len(P) - 1 + 1 ELSE 0
            /\ \A i \in 1 .. Len(P) - 1 + 1 : q[i] = x[1 + i - 1]
        BY <1>1, <3>1, SubSeqProperties
      <3> HIDE DEF q
      <3>3. QED
        BY <1>1, <3>2
    <2>3. IsPrefix(P, x) <=> p = q
      BY <1>2 DEF IsPrefix
    <2> HIDE DEF p, q
    <2>4. p = q <=> \A i \in 1 .. Len(P) : p[i] = q[i]
      BY <2>1, <2>2, SeqEqual
    <2>5. QED
      BY <1>2, <2>1, <2>2, <2>3, <2>4 DEF Starts
  <1>3. CASE ~(Len(P) <= Len(x))
    BY <1>3 DEF IsPrefix, Starts
  <1>4. QED
    BY <1>2, <1>3

\* What lies between keys of one prefix has it too.
LEMMA StartsBetween ==
    ASSUME NEW P \in Seq(Int), NEW x \in Seq(Int), NEW y \in Seq(Int), NEW z \in Seq(Int),
           Starts(P, x), Starts(P, z), Less(x, y), Less(y, z)
    PROVE  Starts(P, y)
  <1>1. /\ Len(P) \in Nat /\ Len(x) \in Nat /\ Len(y) \in Nat /\ Len(z) \in Nat
        /\ \A i \in 1 .. Len(P) : P[i] \in Int
        /\ \A i \in 1 .. Len(x) : x[i] \in Int
        /\ \A i \in 1 .. Len(y) : y[i] \in Int
        /\ \A i \in 1 .. Len(z) : z[i] \in Int
    BY LenProperties, ElementOfSeq
  <1>2. SUFFICES ASSUME ~Starts(P, y) PROVE FALSE
    OBVIOUS
  <1> DEFINE T == {i \in 1 .. Len(P) : ~(i <= Len(y) /\ y[i] = P[i])}
  <1>3. PICK d \in T : \A i \in T : d <= i
    <2>1. T # {}
      <3>1. CASE Len(P) <= Len(y)
        BY <1>1, <1>2, <3>1 DEF Starts
      <3>2. CASE ~(Len(P) <= Len(y))
        <4>1. Len(P) \in T
          BY <1>1, <3>2
        <4>2. QED
          BY <4>1
      <3>3. QED
        BY <3>1, <3>2
    <2>2. T \subseteq Nat
      OBVIOUS
    <2> HIDE DEF T
    <2>3. QED
      BY <2>1, <2>2, LeastNat
  <1>4. d \in 1 .. Len(P) /\ ~(d <= Len(y) /\ y[d] = P[d])
    OBVIOUS
  <1>5. \A i \in 1 .. d - 1 : i <= Len(y) /\ y[i] = P[i]
    <2>1. ASSUME NEW i \in 1 .. d - 1, ~(i <= Len(y) /\ y[i] = P[i]) PROVE FALSE
      <3>1. i \in T
        BY <1>1, <1>4, <2>1
      <3>2. QED
        BY <1>3, <1>4, <3>1
    <2>2. QED
      BY <2>1
  <1> HIDE DEF T
  <1>6. \A i \in 1 .. Len(P) : i <= Len(x) /\ x[i] = P[i] /\ i <= Len(z) /\ z[i] = P[i]
    BY <1>1 DEF Starts
  <1>7. PICK i \in 1 .. Len(y) :
           /\ \A k \in 1 .. i - 1 : k <= Len(x) /\ x[k] = y[k]
           /\ i = Len(x) + 1 \/ (i <= Len(x) /\ x[i] < y[i])
    BY DEF Less
  <1>8. PICK j \in 1 .. Len(z) :
           /\ \A k \in 1 .. j - 1 : k <= Len(y) /\ y[k] = z[k]
           /\ j = Len(y) + 1 \/ (j <= Len(y) /\ y[j] < z[j])
    BY DEF Less
  <1>9. ~(i < d)
    <2>1. ASSUME i < d PROVE FALSE
      <3>1. i \in 1 .. d - 1 /\ i \in 1 .. Len(P)
        BY <1>1, <1>4, <2>1
      <3>2. y[i] = P[i] /\ x[i] = P[i] /\ i <= Len(x)
        BY <1>5, <1>6, <3>1
      <3>3. P[i] \in Int
        BY <1>1, <3>1
      <3>4. i # Len(x) + 1
        BY <1>1, <3>2
      <3>5. ~(P[i] < P[i])
        BY <3>3
      <3>6. x[i] < y[i]
        BY <1>7, <3>4
      <3>7. QED
        BY <3>2, <3>5, <3>6
    <2>2. QED
      BY <2>1
  <1>10. ~(d < i)
    <2>1. ASSUME d < i PROVE FALSE
      <3>1. d \in 1 .. i - 1 /\ d <= Len(y)
        BY <1>1, <1>4, <2>1
      <3>2. x[d] = y[d] /\ x[d] = P[d]
        BY <1>4, <1>6, <1>7, <3>1
      <3>3. QED
        BY <1>4, <3>1, <3>2
    <2>2. QED
      BY <2>1
  <1>11. d <= Len(y) /\ P[d] < y[d]
    <2>1. i = d
      BY <1>1, <1>4, <1>9, <1>10
    <2>2. x[d] = P[d] /\ d <= Len(x)
      BY <1>4, <1>6
    <2>3. QED
      BY <1>1, <1>7, <2>1, <2>2
  <1>12. CASE j < d
    <2>1. j \in 1 .. d - 1 /\ j \in 1 .. Len(P)
      BY <1>1, <1>4, <1>12
    <2>2. y[j] = P[j] /\ z[j] = P[j] /\ j <= Len(y)
      BY <1>5, <1>6, <2>1
    <2>3. QED
      BY <1>1, <1>8, <2>1, <2>2, SMTT(30)
  <1>13. CASE d < j
    <2>1. d \in 1 .. j - 1
      BY <1>1, <1>4, <1>13
    <2>2. y[d] = z[d] /\ z[d] = P[d]
      BY <1>4, <1>6, <1>8, <2>1
    <2>3. QED
      BY <1>4, <1>11, <2>2
  <1>14. CASE j = d
    <2>1. y[d] < z[d] /\ z[d] = P[d]
      BY <1>1, <1>4, <1>6, <1>8, <1>11, <1>14
    <2>2. P[d] \in Int /\ y[d] \in Int
      BY <1>1, <1>4, <1>11
    <2>3. QED
      BY <1>11, <2>1, <2>2
  <1>15. QED
    BY <1>4, <1>12, <1>13, <1>14

\* While keeps what comes before the first key without the prefix.
LEMMA WhileKeeps ==
    ASSUME NEW T, NEW t \in Seq(T), NEW P
    PROVE  \E m \in 0 .. Len(t) :
             /\ While(t, P) \in Seq(T) /\ Len(While(t, P)) = m
             /\ \A i \in 1 .. m : While(t, P)[i] = t[i] /\ IsPrefix(P, t[i])
             /\ m < Len(t) => ~IsPrefix(P, t[m + 1])
  <1>1. Len(t) \in Nat
    BY LenProperties
  <1> DEFINE A == {p \in 0 .. Len(t) : \A i \in 1 .. p : IsPrefix(P, t[i])}
  <1>2. PICK m \in A : \A p \in A : p <= m
    <2>1. 0 \in A
      BY <1>1
    <2>2. A \subseteq Nat /\ \A p \in A : p <= Len(t)
      BY <1>1
    <2> HIDE DEF A
    <2>3. QED
      BY <1>1, <2>1, <2>2, GreatestNat
  <1>3. m \in 0 .. Len(t) /\ \A i \in 1 .. m : IsPrefix(P, t[i])
    OBVIOUS
  <1>4. Max(A) = m
    <2>1. \A q \in A : q \in Nat
      BY <1>1
    <2> HIDE DEF A
    <2>2. \A q \in A : (\A p \in A : q >= p) <=> q = m
      BY <1>2, <2>1
    <2>3. QED
      BY <1>2, <2>2 DEF Max
  <1>5. m < Len(t) => ~IsPrefix(P, t[m + 1])
    <2>1. ASSUME m < Len(t), IsPrefix(P, t[m + 1]) PROVE FALSE
      <3>1. m + 1 \in A
        <4>1. \A i \in 1 .. m + 1 : i \in 1 .. m \/ i = m + 1
          BY <1>1, <1>3
        <4>2. m + 1 \in 0 .. Len(t)
          BY <1>1, <1>3, <2>1
        <4>3. QED
          BY <1>3, <2>1, <4>1, <4>2
      <3>2. QED
        BY <1>1, <1>2, <1>3, <3>1
    <2>2. QED
      BY <2>1
  <1>6. While(t, P) = SubSeq(t, 1, m)
    BY <1>4 DEF While
  <1> HIDE DEF A
  <1> DEFINE u == SubSeq(t, 1, m)
  <1>7. \A i \in 1 .. m : t[i] \in T
    BY <1>1, <1>3, ElementOfSeq
  <1>8. /\ u \in Seq(T) /\ Len(u) = IF 1 <= m THEN m - 1 + 1 ELSE 0
        /\ \A i \in 1 .. m - 1 + 1 : u[i] = t[1 + i - 1]
    BY <1>1, <1>3, <1>7, SubSeqProperties
  <1> HIDE DEF u
  <1>9. u \in Seq(T) /\ Len(u) = m /\ \A i \in 1 .. m : u[i] = t[i]
    BY <1>1, <1>3, <1>8
  <1>10. QED
    BY <1>3, <1>5, <1>6, <1>9 DEF u

\* A limit keeps that many from the front.
LEMMA LimitKeeps ==
    ASSUME NEW T, NEW s \in Seq(T), NEW limit \in Nat
    PROVE  LET u == SubSeq(s, 1, Min({limit, Len(s)}))
           IN /\ u \in Seq(T)
              /\ Len(u) = IF limit <= Len(s) THEN limit ELSE Len(s)
              /\ \A i \in 1 .. Len(u) : u[i] = s[i]
  <1> DEFINE m == IF limit <= Len(s) THEN limit ELSE Len(s)
  <1>1. Len(s) \in Nat /\ m \in Nat /\ m <= Len(s)
    BY LenProperties
  <1>2. Min({limit, Len(s)}) = m
    <2>1. \A q \in {limit, Len(s)} : (\A j \in {limit, Len(s)} : q =< j) <=> q = m
      BY <1>1
    <2>2. QED
      BY <2>1 DEF Min
  <1> DEFINE u == SubSeq(s, 1, m)
  <1>3. /\ u \in Seq(T) /\ Len(u) = IF 1 <= m THEN m - 1 + 1 ELSE 0
        /\ \A i \in 1 .. m - 1 + 1 : u[i] = s[1 + i - 1]
    <2>1. \A i \in 1 .. m : s[i] \in T
      BY <1>1, ElementOfSeq
    <2> HIDE DEF m
    <2>2. QED
      BY <1>1, <2>1, SubSeqProperties
  <1> HIDE DEF u, m
  <1>4. u \in Seq(T) /\ Len(u) = m /\ \A i \in 1 .. m : u[i] = s[i]
    BY <1>1, <1>3
  <1>5. QED
    BY <1>2, <1>4 DEF u, m

\* The keys of the store but those of the records of the binlog.
StoreKeys ==
    UNION {{KvKey(k) : k \in Keys},
           {HashKey(n, k) : n \in HNames, k \in Keys}, {HSizeKey(n) : n \in HNames},
           {ZsetKey(n, k) : n \in ZNames, k \in Keys}, {ZSizeKey(n) : n \in ZNames},
           {ZscoreKey(n, k, score) : n \in ZNames, k \in Keys, score \in Scores},
           {QItemKey(n, seq) : n \in QNames, seq \in Int}, {QSizeKey(n) : n \in QNames}}

LegalDb(d) == /\ IsFiniteSet(DOMAIN d)
              /\ \A x \in DOMAIN d : x[1] = SYNCLOG \/ x \in StoreKeys

LEMMA StoreKeysNumbers == StoreKeys \subseteq Seq(Int)
  <1>1. /\ \A k \in Keys : k \in Int
        /\ \A n \in HNames \cup ZNames \cup QNames : n \in Int
        /\ \A score \in Scores : score \in Int
    BY SsdbAssumption
  <1>2. /\ \A k \in Int : KvKey(k) \in Seq(Int)
        /\ \A n, k \in Int : HashKey(n, k) \in Seq(Int) /\ ZsetKey(n, k) \in Seq(Int)
                             /\ QItemKey(n, k) \in Seq(Int)
        /\ \A n \in Int : HSizeKey(n) \in Seq(Int) /\ ZSizeKey(n) \in Seq(Int) /\ QSizeKey(n) \in Seq(Int)
        /\ \A n, k, score \in Int : ZscoreKey(n, k, score) \in Seq(Int)
    BY DEF KvKey, HashKey, ZsetKey, QItemKey, HSizeKey, ZSizeKey, QSizeKey, ZscoreKey,
           KV, HASH, ZSET, QUEUE, HSIZE, ZSIZE, QSIZE, ZSCORE
  <1>3. \A x \in StoreKeys : \/ \E k \in Keys : x = KvKey(k)
                             \/ \E n \in HNames, k \in Keys : x = HashKey(n, k)
                             \/ \E n \in HNames : x = HSizeKey(n)
                             \/ \E n \in ZNames, k \in Keys : x = ZsetKey(n, k)
                             \/ \E n \in ZNames : x = ZSizeKey(n)
                             \/ \E n \in ZNames, k \in Keys, score \in Scores : x = ZscoreKey(n, k, score)
                             \/ \E n \in QNames, seq \in Int : x = QItemKey(n, seq)
                             \/ \E n \in QNames : x = QSizeKey(n)
    BY DEF StoreKeys
  <1>4. \A n : n \in HNames \/ n \in ZNames \/ n \in QNames => n \in Int
    BY <1>1
  <1>5. ASSUME NEW x \in StoreKeys PROVE x \in Seq(Int)
    <2>1. CASE \E k \in Keys : x = KvKey(k)
      BY <1>1, <1>2, <2>1
    <2>2. CASE \E n \in HNames, k \in Keys : x = HashKey(n, k)
      BY <1>1, <1>2, <1>4, <2>2
    <2>3. CASE \E n \in HNames : x = HSizeKey(n)
      BY <1>2, <1>4, <2>3
    <2>4. CASE \E n \in ZNames, k \in Keys : x = ZsetKey(n, k)
      BY <1>1, <1>2, <1>4, <2>4
    <2>5. CASE \E n \in ZNames : x = ZSizeKey(n)
      BY <1>2, <1>4, <2>5
    <2>6. CASE \E n \in ZNames, k \in Keys, score \in Scores : x = ZscoreKey(n, k, score)
      BY <1>1, <1>2, <1>4, <2>6
    <2>7. CASE \E n \in QNames, seq \in Int : x = QItemKey(n, seq)
      BY <1>2, <1>4, <2>7
    <2>8. CASE \E n \in QNames : x = QSizeKey(n)
      BY <1>2, <1>4, <2>8
    <2>9. QED
      BY <1>3, <2>1, <2>2, <2>3, <2>4, <2>5, <2>6, <2>7, <2>8
  <1>6. QED
    BY <1>5

\* No record of the binlog comes behind a key of another type.
LEMMA RecordsFirst ==
    ASSUME NEW a, NEW b, NEW x, x[1] = SYNCLOG, Shaped(x), a \in Int, a > 1
    PROVE  ~Less(<<a, b>>, x)
  <1>1. PICK q : x = <<SYNCLOG, q>>
    BY DEF Shaped, SYNCLOG, HASH, ZSET, QUEUE, ZSCORE, KV, HSIZE, ZSIZE, QSIZE
  <1>2. ASSUME NEW i \in 1 .. 2,
               \A j \in 1 .. i - 1 : j <= Len(<<a, b>>) /\ <<a, b>>[j] = <<SYNCLOG, q>>[j],
               i = Len(<<a, b>>) + 1 \/ (i <= Len(<<a, b>>) /\ <<a, b>>[i] < <<SYNCLOG, q>>[i])
        PROVE  FALSE
    <2>1. CASE i = 1
      BY <1>2, <2>1 DEF SYNCLOG
    <2>2. CASE i = 2
      <3>1. 1 \in 1 .. i - 1
        BY <2>2
      <3>2. a = SYNCLOG
        BY <1>2, <3>1
      <3>3. QED
        BY <3>2 DEF SYNCLOG
    <2>3. QED
      BY <2>1, <2>2
  <1>3. QED
    BY <1>1, <1>2 DEF Less

\* What a scan finds from a prefix on: some of the keys that have it, and one
\* if there are any.
LEMMA ScanFinds ==
    ASSUME WellFormed(db), LegalDb(db), NEW a \in Int, a > 1, NEW b \in Int, NEW limit \in Nat \ {0}
    PROVE  LET P == <<a, b>>
               held == {x \in DOMAIN db : x # P /\ Starts(P, x)}
               u == While(Iterated(P, <<>>, limit), P)
           IN /\ held \subseteq Seq(Int)
              /\ u \in Seq(held)
              /\ \A i, j \in DOMAIN u : u[i] = u[j] => i = j
              /\ u = <<>> => held = {}
  <1> DEFINE P == <<a, b>>
             held == {x \in DOMAIN db : x # P /\ Starts(P, x)}
             S == {x \in DOMAIN db : Less(P, x)}
             s == Sorted(S, Less)
             N == Cardinality(S)
             t == Iterated(P, <<>>, limit)
             u == While(t, P)
  <1>1. P \in Seq(Int) /\ Len(P) = 2 /\ P[1] = a /\ P[2] = b
    OBVIOUS
  <1>2. IsFiniteSet(S) /\ S \subseteq Seq(Int)
    <2>1. IsFiniteSet(S)
      BY FS_Subset DEF LegalDb
    <2>2. \A x \in S : x[1] # SYNCLOG
      BY RecordsFirst DEF WellFormed
    <2>3. QED
      BY <2>1, <2>2, StoreKeysNumbers DEF LegalDb
  <1>3. held \subseteq Seq(Int)
    <2>1. \A x \in held : x[1] = a
      BY <1>1 DEF Starts
    <2>2. a # SYNCLOG
      BY DEF SYNCLOG
    <2>3. QED
      BY <2>1, <2>2, StoreKeysNumbers DEF LegalDb
  <1> HIDE DEF P
  <1>4. held \subseteq S
    <2>1. ASSUME NEW x \in held PROVE Less(P, x)
      <3>1. x \in Seq(Int) /\ Len(x) \in Nat /\ 2 <= Len(x) /\ \A i \in 1 .. 2 : x[i] = P[i]
        BY <1>1, <1>3, LenProperties DEF Starts
      <3>2. Len(x) # 2
        <4>1. Len(x) = 2 => x = P
          BY <1>1, <3>1, SeqEqual
        <4>2. QED
          BY <4>1
      <3>3. 3 \in 1 .. Len(x) /\ 3 = Len(P) + 1 /\ \A j \in 1 .. 3 - 1 : j <= Len(P) /\ P[j] = x[j]
        BY <1>1, <3>1, <3>2
      <3>4. QED
        BY <3>3 DEF Less
    <2>2. QED
      BY <2>1
  <1>5. Enumerates(s, KeyOrder, S)
    BY <1>2, SortedKeys
  <1>6. t = SubSeq(s, 1, Min({limit, Len(s)}))
    <2>1. {x \in DOMAIN db : Less(P, x) /\ (<<>> = <<>> \/ ~Less(<<>>, x))} = S
      OBVIOUS
    <2>2. QED
      BY <2>1, Zenon DEF Iterated
  <1> HIDE DEF S, s, t, held, u, N
  <1>7. N \in Nat /\ s \in Seq(S) /\ Len(s) = N /\ DOMAIN s = 1 .. N
    BY <1>5 DEF Enumerates, N
  <1>8. /\ t \in Seq(S)
        /\ Len(t) = IF limit <= N THEN limit ELSE N
        /\ \A i \in 1 .. Len(t) : t[i] = s[i]
    BY <1>6, <1>7, LimitKeeps
  <1>9. PICK m \in 0 .. Len(t) :
           /\ u \in Seq(S) /\ Len(u) = m
           /\ \A i \in 1 .. m : u[i] = t[i] /\ IsPrefix(P, t[i])
           /\ m < Len(t) => ~IsPrefix(P, t[m + 1])
    BY <1>8, WhileKeeps DEF u
  <1>10. DOMAIN u = 1 .. m
    BY <1>9, LenProperties
  <1>11. \A i \in 1 .. m : i \in 1 .. N /\ u[i] = s[i]
    BY <1>7, <1>8, <1>9
  <1>12. \A i, j \in DOMAIN u : u[i] = u[j] => i = j
    <2>1. \A i, j \in 1 .. N : s[i] = s[j] => i = j
      BY <1>5 DEF Enumerates, N
    <2>2. QED
      BY <1>10, <1>11, <2>1
  <1>13. u \in Seq(held)
    <2>1. ASSUME NEW i \in 1 .. m PROVE u[i] \in held
      <3>1. u[i] \in S /\ IsPrefix(P, u[i])
        BY <1>9, <1>10, ElementOfSeq
      <3>2. u[i] \in DOMAIN db /\ u[i] \in Seq(Int) /\ Less(P, u[i])
        BY <1>2, <3>1 DEF S
      <3>3. Starts(P, u[i])
        BY <1>1, <3>1, <3>2, PrefixStarts
      <3>4. u[i] # P
        BY <1>1, <3>2, LessIrreflexive
      <3>5. QED
        BY <3>2, <3>3, <3>4 DEF held
    <2>2. u \in [1 .. m -> held] /\ m \in Nat
      <3>1. u \in [1 .. m -> S]
        BY <1>9, LenProperties
      <3>2. m \in Nat
        BY <1>8, <1>9, LenProperties
      <3>3. QED
        BY <2>1, <3>1, <3>2
    <2>3. QED
      BY <2>2, SeqDef
  <1>14. ASSUME u = <<>>, NEW z \in held PROVE FALSE
    <2>1. m = 0
      BY <1>9, <1>14
    <2>2. z \in S
      BY <1>4
    <2>3. PICK k \in 1 .. N : s[k] = z
      BY <1>5, <2>2 DEF Enumerates, N
    <2>4. 1 \in 1 .. N /\ 1 <= Len(t)
      BY <1>7, <1>8, <2>3
    <2> DEFINE y == s[1]
    <2>5. y \in S /\ t[1] = y
      BY <1>7, <1>8, <2>4, ElementOfSeq
    <2>6. y = z \/ Less(y, z)
      <3>1. k = 1 \/ 1 < k
        BY <1>7, <2>3
      <3>2. 1 < k => <<s[1], s[k]>> \in KeyOrder
        BY <1>5, <2>3, <2>4 DEF Enumerates, N
      <3>3. QED
        BY <2>3, <3>1, <3>2 DEF KeyOrder
    <2> HIDE DEF y
    <2>7. y \in Seq(Int) /\ z \in Seq(Int) /\ Less(P, y)
      BY <1>2, <2>2, <2>5 DEF S
    <2>8. Starts(P, z) /\ Starts(P, P)
      BY <1>1 DEF held, Starts
    <2>9. Starts(P, y)
      <3>1. CASE y = z
        BY <2>8, <3>1
      <3>2. CASE Less(y, z)
        BY <1>1, <2>7, <2>8, <3>2, StartsBetween
      <3>3. QED
        BY <2>6, <3>1, <3>2
    <2>10. IsPrefix(P, y)
      BY <1>1, <2>7, <2>9, PrefixStarts
    <2>11. 0 < Len(t) /\ ~IsPrefix(P, t[0 + 1])
      BY <1>9, <2>1, <2>4
    <2>12. QED
      BY <2>5, <2>10, <2>11
  <1>15. QED
    BY <1>3, <1>12, <1>13, <1>14 DEF held, u, t, P

-----------------------------------------------------------------------------
(* What is put is put under numbers.                                       *)

LegalKeys(B) == IsSeq(B) /\ \A i \in DOMAIN B : B[i].keep => B[i].key \in StoreKeys

LegalBody(o) == o.commits => LegalKeys(o.batch) /\ IsSeq(o.logs)

LEMMA LegalNone == LegalKeys(<<>>)
  BY NoneIsBatch DEF LegalKeys

LEMMA LegalOne ==
    ASSUME NEW e, e.keep => e.key \in StoreKeys
    PROVE  LegalKeys(<<e>>)
  <1>1. IsSeq(<<e>>)
    BY OneIsSeq
  <1>2. QED
    BY <1>1 DEF LegalKeys

LEMMA LegalTwo ==
    ASSUME NEW a, NEW b, a.keep => a.key \in StoreKeys, b.keep => b.key \in StoreKeys
    PROVE  LegalKeys(<<a, b>>)
  <1>1. IsSeq(<<a, b>>)
    BY TwoBatch, SeqIsSeq
  <1>2. DOMAIN <<a, b>> = 1 .. 2 /\ <<a, b>>[1] = a /\ <<a, b>>[2] = b
    OBVIOUS
  <1>3. \A i \in 1 .. 2 : i = 1 \/ i = 2
    OBVIOUS
  <1>4. QED
    BY <1>1, <1>2, <1>3 DEF LegalKeys

LEMMA LegalThree ==
    ASSUME NEW a, NEW b, NEW c, a.keep => a.key \in StoreKeys, b.keep => b.key \in StoreKeys,
           c.keep => c.key \in StoreKeys
    PROVE  LegalKeys(<<a, b, c>>)
  <1>1. IsSeq(<<a, b, c>>)
    <2>1. <<a, b, c>> \in Seq({a, b, c})
      OBVIOUS
    <2>2. QED
      BY <2>1, SeqIsSeq
  <1>2. DOMAIN <<a, b, c>> = 1 .. 3 /\ <<a, b, c>>[1] = a /\ <<a, b, c>>[2] = b /\ <<a, b, c>>[3] = c
    OBVIOUS
  <1>3. \A i \in 1 .. 3 : i = 1 \/ i = 2 \/ i = 3
    OBVIOUS
  <1>4. QED
    BY <1>1, <1>2, <1>3 DEF LegalKeys

LEMMA LegalConcat ==
    ASSUME NEW A, NEW B, LegalKeys(A), LegalKeys(B)
    PROVE  LegalKeys(A \o B)
  <1> DEFINE S == {A[i] : i \in DOMAIN A}  T == {B[i] : i \in DOMAIN B}
  <1>1. A \in Seq(S \cup T) /\ B \in Seq(S \cup T)
    <2>1. A \in Seq(S) /\ B \in Seq(T)
      BY DEF LegalKeys, IsSeq
    <2> HIDE DEF S, T
    <2>2. QED
      BY <2>1, SeqMonotonic
  <1>2. \A e \in S \cup T : e.keep => e.key \in StoreKeys
    BY DEF LegalKeys
  <1> DEFINE C == A \o B
  <1> HIDE DEF S, T
  <1>3. C \in Seq(S \cup T)
    BY <1>1, ConcatProperties
  <1> HIDE DEF C
  <1>4. \A i \in DOMAIN C : C[i] \in S \cup T
    BY <1>3, ElementOfSeq, LenProperties
  <1>5. IsSeq(C)
    BY <1>3, SeqIsSeq
  <1>6. QED
    BY <1>2, <1>4, <1>5 DEF LegalKeys, C

LEMMA LegalSize ==
    ASSUME NEW c, c \in StoreKeys, NEW by, NEW f
    PROVE  LegalKeys(IncrSize(c, by, f))
  <1> DEFINE e == IncrSize(c, by, f)[1]
  <1>1. e.key = c /\ IncrSize(c, by, f) = <<e>>
    BY SizeBatch
  <1> HIDE DEF e
  <1>2. QED
    BY <1>1, LegalOne

\* The keys of names and keys that are numbers.
LEMMA LegalNames ==
    /\ \A k \in Keys : KvKey(k) \in StoreKeys
    /\ \A n \in HNames : HSizeKey(n) \in StoreKeys /\ \A k \in Keys : HashKey(n, k) \in StoreKeys
    /\ \A n \in ZNames :
         /\ ZSizeKey(n) \in StoreKeys
         /\ \A k \in Keys : ZsetKey(n, k) \in StoreKeys
         /\ \A k \in Keys, score \in Scores : ZscoreKey(n, k, score) \in StoreKeys
    /\ \A n \in QNames : QSizeKey(n) \in StoreKeys /\ \A seq \in Int : QItemKey(n, seq) \in StoreKeys
  BY DEF StoreKeys

\* The keys that are neither empty nor too long.
LEMMA LegalGiven ==
    /\ \A k \in Named : k # Empty /\ k # TooLong => k \in Keys
    /\ \A k \in Keys \cup {TooLong} : k # TooLong => k \in Keys
    /\ \A kvs \in Pairs : \A i \in DOMAIN kvs :
          kvs[i][1] \notin {Empty, TooLong} => kvs[i][1] \in Keys
  <1>1. ASSUME NEW kvs \in Pairs, NEW i \in DOMAIN kvs, kvs[i][1] \notin {Empty, TooLong}
        PROVE  kvs[i][1] \in Keys
    <2>1. kvs \in Seq((Keys \cup {Empty, TooLong}) \X Values)
      BY SsdbAssumption
    <2>2. kvs[i] \in (Keys \cup {Empty, TooLong}) \X Values
      BY <2>1, ElementOfSeq, LenProperties
    <2>3. QED
      BY <1>1, <2>2
  <1>2. QED
    BY <1>1 DEF Named

LEMMA LegalReturn == \A ret : LegalBody(Return(ret))
  BY DEF LegalBody, Return

LEMMA LegalNothing == \A ret : LegalBody(Commit(<<>>, <<>>, ret))
  BY LegalNone, NoneIsBatch DEF LegalBody, Commit

LEMMA LegalItem ==
    ASSUME NEW o, NEW item, LegalBody(o),
           o = [commits |-> o.commits, batch |-> o.batch, logs |-> o.logs, ret |-> o.ret,
                item |-> o.item, misread |-> o.misread]
    PROVE  LegalBody([o EXCEPT !.item = item])
  <1> DEFINE q == [o EXCEPT !.item = item]
  <1>1. q.commits = o.commits /\ q.batch = o.batch /\ q.logs = o.logs
    OBVIOUS
  <1> HIDE DEF q
  <1>2. QED
    BY <1>1 DEF LegalBody, q

LEMMA LegalStore ==
    ASSUME NEW k \in Keys, NEW v, NEW ret
    PROVE  LegalBody(Store(k, v, ret)) /\ \A item : LegalBody([Store(k, v, ret) EXCEPT !.item = item])
  <1> DEFINE o == Store(k, v, ret)  p == Put(KvKey(k), v)  l == Log("KSET", KvKey(k))
  <1>1. o.batch = <<p>> /\ o.logs = <<l>>
    BY DEF Store, Commit
  <1>2. p.key \in StoreKeys
    BY LegalNames DEF Put
  <1>3. o = [commits |-> o.commits, batch |-> o.batch, logs |-> o.logs, ret |-> o.ret,
             item |-> o.item, misread |-> o.misread]
    BY DEF Store, Commit
  <1> HIDE DEF o, p, l
  <1>4. LegalBody(o)
    BY <1>1, <1>2, LegalOne, OneIsSeq DEF LegalBody
  <1>5. \A item : LegalBody([o EXCEPT !.item = item])
    BY <1>3, <1>4, LegalItem
  <1>6. QED
    BY <1>4, <1>5 DEF o

LEMMA LegalDel == \A k : LegalBody(Del(k))
  <1> SUFFICES ASSUME NEW k PROVE LegalBody(Del(k))
    OBVIOUS
  <1> DEFINE p == Delete(KvKey(k))  l == Log("KDEL", KvKey(k))  o == Commit(<<p>>, <<l>>, 1)
  <1>1. o.batch = <<p>> /\ o.logs = <<l>>
    BY DEF Commit
  <1>2. ~p.keep
    BY DEF Delete
  <1>3. Del(k) = Return(-1) \/ Del(k) = o
    BY DEF Del
  <1> HIDE DEF o, p, l
  <1>4. LegalBody(o)
    BY <1>1, <1>2, LegalOne, OneIsSeq DEF LegalBody
  <1>5. QED
    BY <1>3, <1>4, LegalReturn

LEMMA LegalMulti ==
    /\ \A kvs \in Pairs : LegalBody(MultiSet(kvs))
    /\ \A k1, k2 : LegalBody(MultiDel(<<k1, k2>>))
  <1>1. ASSUME NEW kvs \in Pairs PROVE LegalBody(MultiSet(kvs))
    <2> DEFINE B == [i \in DOMAIN kvs |-> Put(KvKey(kvs[i][1]), kvs[i][2])]
               L == [i \in DOMAIN kvs |-> Log("KSET", KvKey(kvs[i][1]))]
               o == Commit(B, L, Len(kvs))
    <2>1. DOMAIN kvs = 1 .. Len(kvs) /\ Len(kvs) \in Nat
      BY SsdbAssumption, LenProperties
    <2>2. IsSeq(B) /\ IsSeq(L)
      BY <2>1 DEF IsSeq
    <2>3. \/ MultiSet(kvs) = Return(0)
          \/ MultiSet(kvs) = o /\ \A i \in DOMAIN kvs : kvs[i][1] \in Keys
      BY LegalGiven DEF MultiSet
    <2>4. (\A i \in DOMAIN kvs : kvs[i][1] \in Keys) => \A i \in DOMAIN B : B[i].key \in StoreKeys
      BY LegalNames DEF Put
    <2>5. o.batch = B /\ o.logs = L
      BY DEF Commit
    <2> HIDE DEF B, L, o
    <2>6. (\A i \in DOMAIN kvs : kvs[i][1] \in Keys) => LegalBody(o)
      BY <2>2, <2>4, <2>5 DEF LegalBody, LegalKeys
    <2>7. QED
      BY <2>3, <2>6, LegalReturn
  <1>2. ASSUME NEW k1, NEW k2 PROVE LegalBody(MultiDel(<<k1, k2>>))
    <2> DEFINE ks == <<k1, k2>>
               B == [i \in DOMAIN ks |-> Delete(KvKey(ks[i]))]
               L == [i \in DOMAIN ks |-> Log("KDEL", KvKey(ks[i]))]
               o == MultiDel(ks)
    <2>1. DOMAIN ks = 1 .. 2
      OBVIOUS
    <2>2. o.batch = B /\ o.logs = L
      BY DEF MultiDel, Commit
    <2> HIDE DEF ks, o
    <2>3. IsSeq(B) /\ IsSeq(L)
      BY <2>1 DEF IsSeq
    <2>4. \A i \in DOMAIN B : ~B[i].keep
      BY DEF Delete
    <2> HIDE DEF B, L
    <2>5. QED
      BY <2>2, <2>3, <2>4 DEF LegalBody, LegalKeys, o, ks
  <1>3. QED
    BY <1>1, <1>2

LEMMA LegalHashStored ==
    ASSUME NEW n \in HNames, NEW k \in Keys, NEW v, NEW failed, NEW ret, NEW f
    PROVE  LegalBody(HashStored(n, k, v, failed, ret, f))
  <1> DEFINE o == HashStored(n, k, v, failed, ret, f)
             one == HsetOne(n, k, v, failed)
             size == IF one.new > 0 THEN IncrSize(HSizeKey(n), 1, f) ELSE <<>>
             p == Put(HashKey(n, k), v)
             l == Log("HSET", HashKey(n, k))
  <1>1. o.batch = one.batch \o size /\ o.logs = one.logs
    BY DEF HashStored, Commit
  <1>2. one.batch \in {<<>>, <<p>>} /\ one.logs \in {<<>>, <<l>>}
    BY DEF HsetOne
  <1>3. p.key \in StoreKeys
    BY LegalNames DEF Put
  <1>4. LegalKeys(size)
    <2>1. LegalKeys(IncrSize(HSizeKey(n), 1, f))
      BY LegalNames, LegalSize
    <2> HIDE DEF one
    <2>2. QED
      BY <2>1, LegalNone
  <1> HIDE DEF o, one, size, p, l
  <1>5. LegalKeys(one.batch) /\ IsSeq(one.logs)
    BY <1>2, <1>3, LegalOne, LegalNone, OneIsSeq, NoneIsBatch
  <1>6. LegalKeys(o.batch)
    BY <1>1, <1>4, <1>5, LegalConcat
  <1>7. QED
    BY <1>1, <1>5, <1>6 DEF LegalBody, o

LEMMA LegalHdel ==
    ASSUME NEW n \in HNames, NEW k, NEW f
    PROVE  LegalBody(Hdel(n, k, f))
  <1> DEFINE o == Hdel(n, k, f)
             p == Delete(HashKey(n, k))
             size == IncrSize(HSizeKey(n), -1, f)
             l == Log("HDEL", HashKey(n, k))
  <1>1. ~p.keep
    BY DEF Delete
  <1>2. \/ ~o.commits
        \/ o.batch = <<>> /\ o.logs = <<>>
        \/ o.batch = <<p>> \o size /\ o.logs = <<l>>
    BY DEF Hdel, Commit, Return
  <1>3. LegalKeys(size)
    BY LegalNames, LegalSize
  <1> HIDE DEF o, p, l, size
  <1>4. LegalKeys(<<p>> \o size)
    BY <1>1, <1>3, LegalOne, LegalConcat
  <1>5. QED
    BY <1>2, <1>4, LegalNone, OneIsSeq, NoneIsBatch DEF LegalBody, o

LEMMA LegalScoreStored ==
    ASSUME NEW n \in ZNames, NEW k \in Keys, NEW score \in Scores, NEW failed, NEW ret, NEW f
    PROVE  LegalBody(ScoreStored(n, k, score, failed, ret, f))
  <1> DEFINE o == ScoreStored(n, k, score, failed, ret, f)
             one == ZsetOne(n, k, score, failed)
             found == Found(ZsetKey(n, k), failed)
             old == IF found = 1 THEN db[ZsetKey(n, k)] ELSE 0
             d == Delete(ZscoreKey(n, k, old))
             pre == IF found = 0 THEN <<>> ELSE <<d>>
             place == Put(ZscoreKey(n, k, score), "")
             entry == Put(ZsetKey(n, k), score)
             l == Log("ZSET", ZsetKey(n, k))
             size == IF one.new > 0 THEN IncrSize(ZSizeKey(n), 1, f) ELSE <<>>
  <1>1. o.batch = one.batch \o size /\ o.logs = one.logs
    BY DEF ScoreStored, Commit
  <1>2. one.batch \in {<<>>, pre \o <<place, entry>>} /\ one.logs \in {<<>>, <<l>>}
    BY DEF ZsetOne
  <1>3. ~d.keep /\ place.key \in StoreKeys /\ entry.key \in StoreKeys
    BY LegalNames DEF Put, Delete
  <1>4. LegalKeys(size)
    <2>1. LegalKeys(IncrSize(ZSizeKey(n), 1, f))
      BY LegalNames, LegalSize
    <2> HIDE DEF one
    <2>2. QED
      BY <2>1, LegalNone
  <1> HIDE DEF o, one, found, old, d, place, entry, l, size
  <1>5. LegalKeys(pre)
    BY <1>3, LegalOne, LegalNone
  <1> HIDE DEF pre
  <1>6. LegalKeys(pre \o <<place, entry>>)
    BY <1>3, <1>5, LegalTwo, LegalConcat
  <1>7. LegalKeys(one.batch) /\ IsSeq(one.logs)
    BY <1>2, <1>6, LegalNone, OneIsSeq, NoneIsBatch
  <1>8. LegalKeys(o.batch)
    BY <1>1, <1>4, <1>7, LegalConcat
  <1>9. QED
    BY <1>1, <1>7, <1>8 DEF LegalBody, o

LEMMA LegalZdel ==
    ASSUME NEW n \in ZNames, NEW k, NEW f
    PROVE  LegalBody(Zdel(n, k, f))
  <1> DEFINE o == Zdel(n, k, f)
             d == Delete(ZscoreKey(n, k, db[ZsetKey(n, k)]))
             p == Delete(ZsetKey(n, k))
             size == IncrSize(ZSizeKey(n), -1, f)
             l == Log("ZDEL", ZsetKey(n, k))
  <1>1. ~d.keep /\ ~p.keep
    BY DEF Delete
  <1>2. \/ ~o.commits
        \/ o.batch = <<>> /\ o.logs = <<>>
        \/ o.batch = <<d, p>> \o size /\ o.logs = <<l>>
    BY DEF Zdel, Commit, Return
  <1>3. LegalKeys(size)
    BY LegalNames, LegalSize
  <1> HIDE DEF o, d, p, l, size
  <1>4. LegalKeys(<<d, p>> \o size)
    BY <1>1, <1>3, LegalTwo, LegalConcat
  <1>5. QED
    BY <1>2, <1>4, LegalNone, OneIsSeq, NoneIsBatch DEF LegalBody, o

LEMMA LegalQSize ==
    ASSUME NEW n \in QNames, NEW by
    PROVE  LegalKeys(IncrQSize(n, by))
  <1> DEFINE d == Delete(QSizeKey(n))  p == Delete(QItemKey(n, QFRONT))
             q == Delete(QItemKey(n, QBACK))  z == Put(QSizeKey(n), QSize(n) + by)
  <1>1. ~d.keep /\ ~p.keep /\ ~q.keep /\ z.key \in StoreKeys
    BY LegalNames DEF Put, Delete
  <1>2. IncrQSize(n, by) = <<d, p, q>> \/ IncrQSize(n, by) = <<z>>
    BY DEF IncrQSize
  <1> HIDE DEF d, p, q, z
  <1>3. QED
    BY <1>1, <1>2, LegalOne, LegalThree

\* The numbers of the ends of a queue, and the places next to them.
LEMMA LegalEnds ==
    ASSUME IInv, NEW n \in QNames
    PROVE  /\ \A end \in Ends : end \in Int /\ Sequence(n, end) \in Int
           /\ \A x \in Int : QItemKey(n, x) \in StoreKeys
  <1>2. \A end \in Ends : Sequence(n, end) \in Int
    BY QueueValues, PlacesDiffer DEF IInv, Ends
  <1>3. QFRONT \in Int /\ QBACK \in Int
    BY DEF QFRONT, QBACK
  <1>4. QED
    BY <1>2, <1>3, LegalNames DEF Ends

LEMMA LegalQpush ==
    ASSUME IInv, NEW n \in QNames, NEW item, NEW end \in Ends, NEW f
    PROVE  LegalBody(Qpush(n, item, end, f))
  <1> DEFINE new == QItemKey(n, end) \notin DOMAIN db
             seq == IF new THEN QInit
                    ELSE Sequence(n, end) + (IF end = QFRONT THEN -1 ELSE 1)
             p == Put(QItemKey(n, QFRONT), seq)
             q == Put(QItemKey(n, QBACK), seq)
             e == Put(QItemKey(n, end), seq)
             ends == IF new THEN <<p, q>> ELSE <<e>>
             cmd == IF end = QFRONT THEN "QPUSH_FRONT" ELSE "QPUSH_BACK"
             a == Put(QItemKey(n, seq), item)
             size == IncrQSize(n, 1)
             l == Log(cmd, QItemKey(n, seq))
             o == Commit((ends \o <<a>>) \o size, <<l>>, QSize(n) + 1)
  <1>1. Qpush(n, item, end, f) = Return(-1) \/ Qpush(n, item, end, f) = o
    BY DEF Qpush
  <1>2. o.batch = (ends \o <<a>>) \o size /\ o.logs = <<l>>
    BY DEF Commit
  <1>3. /\ \A s \in Ends : s \in Int /\ Sequence(n, s) \in Int
        /\ \A x \in Int : QItemKey(n, x) \in StoreKeys
    BY LegalEnds
  <1>4. seq \in Int
    <2>1. Sequence(n, end) \in Int /\ QInit \in Int
      BY <1>3, PlacesDiffer
    <2> HIDE DEF new
    <2>2. QED
      BY <2>1
  <1> HIDE DEF o, l, seq, new
  <1>5. p.key \in StoreKeys /\ q.key \in StoreKeys /\ e.key \in StoreKeys /\ a.key \in StoreKeys
    BY <1>3, <1>4 DEF Put, Ends
  <1>6. LegalKeys(size)
    BY LegalQSize
  <1> HIDE DEF p, q, e, a, size
  <1>7. LegalKeys(ends)
    BY <1>5, LegalOne, LegalTwo
  <1> HIDE DEF ends
  <1>8. LegalKeys(ends \o <<a>>)
    BY <1>5, <1>7, LegalOne, LegalConcat
  <1>9. LegalKeys(o.batch)
    BY <1>2, <1>6, <1>8, LegalConcat
  <1>10. LegalBody(o)
    BY <1>2, <1>9, OneIsSeq DEF LegalBody
  <1>11. QED
    BY <1>1, <1>10, LegalReturn

LEMMA LegalQpop ==
    ASSUME IInv, NEW n \in QNames, NEW end \in Ends, NEW f
    PROVE  LegalBody(Qpop(n, end, f))
  <1> DEFINE seq == Sequence(n, end)
             x == QItemKey(n, seq)
             next == seq + (IF end = QFRONT THEN 1 ELSE -1)
             e == Put(QItemKey(n, end), next)
             ends == IF QSize(n) > 1 THEN <<e>> ELSE <<>>
             cmd == IF end = QFRONT THEN "QPOP_FRONT" ELSE "QPOP_BACK"
             a == Delete(x)
             size == IncrQSize(n, -1)
             l == Log(cmd, <<n>>)
             o == Commit((<<a>> \o size) \o ends, <<l>>, 1)
             q == [o EXCEPT !.item = db[x]]
  <1>1. \/ Qpop(n, end, f) = Return(-1) \/ Qpop(n, end, f) = Return(0)
        \/ Qpop(n, end, f) = q
    BY DEF Qpop
  <1>2. o.batch = (<<a>> \o size) \o ends /\ o.logs = <<l>>
    BY DEF Commit
  <1>3. o = [commits |-> o.commits, batch |-> o.batch, logs |-> o.logs, ret |-> o.ret,
             item |-> o.item, misread |-> o.misread]
    BY DEF Commit
  <1>4. e.key \in StoreKeys
    BY LegalEnds DEF Put
  <1>5. ~a.keep
    BY DEF Delete
  <1>6. LegalKeys(size)
    BY LegalQSize
  <1> HIDE DEF o, l, a, size, e
  <1>7. LegalKeys(ends)
    BY <1>4, LegalOne, LegalNone
  <1> HIDE DEF ends
  <1>8. LegalKeys(<<a>> \o size)
    BY <1>5, <1>6, LegalOne, LegalConcat
  <1>9. LegalKeys(o.batch)
    BY <1>2, <1>7, <1>8, LegalConcat
  <1>10. LegalBody(o)
    BY <1>2, <1>9, OneIsSeq DEF LegalBody
  <1>11. LegalBody(q)
    BY <1>3, <1>10, LegalItem
  <1> HIDE DEF q
  <1>12. QED
    BY <1>1, <1>11, LegalReturn

LEMMA LegalQStore ==
    ASSUME NEW n \in QNames, NEW seq \in Int, NEW item
    PROVE  LegalBody(QStore(n, seq, item))
  <1> DEFINE p == Put(QItemKey(n, seq), item)  l == Log("QSET", QItemKey(n, seq))
             o == QStore(n, seq, item)
  <1>1. o.batch = <<p>> /\ o.logs = <<l>>
    BY DEF QStore, Commit
  <1>2. p.key \in StoreKeys
    BY LegalNames DEF Put
  <1> HIDE DEF o, l, p
  <1>3. QED
    BY <1>1, <1>2, LegalOne, OneIsSeq DEF LegalBody, o

LEMMA LegalQfix ==
    ASSUME NEW n \in QNames
    PROVE  LegalBody(Qfix(n))
  <1> DEFINE items == QfixItems(n)
             F == QItemKey(n, QFRONT)  K == QItemKey(n, QBACK)  Z == QSizeKey(n)
             u == Delete(Z)  v == Delete(F)  w == Delete(K)
             a == Put(Z, Len(items))  b == Put(F, items[1][3])  c == Put(K, items[Len(items)][3])
             o == Qfix(n)
  <1>1. ~u.keep /\ ~v.keep /\ ~w.keep
    BY DEF Delete
  <1>2. QFRONT \in Int /\ QBACK \in Int
    BY DEF QFRONT, QBACK
  <1>3. a.key \in StoreKeys /\ b.key \in StoreKeys /\ c.key \in StoreKeys
    BY <1>2, LegalNames DEF Put
  <1>4. o.logs = <<>> /\ o.batch \in {<<u, v, w>>, <<a, b, c>>}
    BY DEF Qfix, Commit
  <1> HIDE DEF u, v, w, a, b, c, o
  <1>5. LegalKeys(<<u, v, w>>) /\ LegalKeys(<<a, b, c>>)
    BY <1>1, <1>3, LegalThree
  <1>6. QED
    BY <1>4, <1>5, NoneIsBatch DEF LegalBody, o

\* Something is done that puts nothing but under numbers.
LegalStep == \E call, o, f : Transact(call, o, f) /\ LegalBody(o)

LEMMA OperationLegal ==
    ASSUME NEW call, NEW o, NEW f, Operation(call, o, f) \/ Transact(call, o, f), LegalBody(o)
    PROVE  LegalStep
  BY DEF Operation, LegalStep

LEMMA KvLegal ==
    KvSet \/ KvSetnx \/ KvGetset \/ KvDel \/ KvIncr \/ KvMultiSet \/ KvMultiDel => LegalStep
  <1>1. ASSUME KvSet PROVE LegalStep
    <2>1. PICK k \in Named, v \in Values, f \in Faults({"write"}) :
             Operation(<<"set", k, v>>, Set(k, v), f)
      BY <1>1 DEF KvSet
    <2>2. LegalBody(Set(k, v))
      BY LegalGiven, LegalStore, LegalReturn DEF Set
    <2>3. QED
      BY <2>1, <2>2, OperationLegal
  <1>2. ASSUME KvSetnx PROVE LegalStep
    <2>1. PICK k \in Named, v \in Values, f \in Faults({"entry", "write"}) :
             Operation(<<"setnx", k, v>>, Setnx(k, v, f), f)
      BY <1>2 DEF KvSetnx
    <2>2. LegalBody(Setnx(k, v, f))
      BY LegalGiven, LegalStore, LegalReturn DEF Setnx
    <2>3. QED
      BY <2>1, <2>2, OperationLegal
  <1>3. ASSUME KvGetset PROVE LegalStep
    <2>1. PICK k \in Named, v \in Values, f \in Faults({"entry", "write"}) :
             Operation(<<"getset", k, v>>, Getset(k, v, f), f)
      BY <1>3 DEF KvGetset
    <2>2. k \in Keys => \A ret, item : LegalBody([Store(k, v, ret) EXCEPT !.item = item])
      BY LegalStore
    <2>3. LegalBody(Getset(k, v, f))
      BY <2>2, LegalGiven, LegalReturn DEF Getset
    <2>4. QED
      BY <2>1, <2>3, OperationLegal
  <1>4. ASSUME KvDel PROVE LegalStep
    <2>1. PICK k, f : Operation(<<"del", k>>, Del(k), f)
      BY <1>4 DEF KvDel
    <2>2. QED
      BY <2>1, LegalDel, OperationLegal
  <1>5. ASSUME KvIncr PROVE LegalStep
    <2>1. PICK k \in Keys \cup {TooLong}, by \in {-1, 1}, f \in Faults({"entry", "write"}) :
             Operation(<<"incr", k, by>>, Incr(k, by, f), f)
      BY <1>5 DEF KvIncr
    <2> DEFINE sum == Addend(KvKey(k)) + by
    <2>2. k \in Keys => LegalBody([Store(k, sum, 1) EXCEPT !.item = sum])
      BY LegalStore
    <2>3. LegalBody(Incr(k, by, f))
      BY <2>2, LegalGiven, LegalReturn DEF Incr
    <2>4. QED
      BY <2>1, <2>3, OperationLegal
  <1>6. ASSUME KvMultiSet PROVE LegalStep
    <2>1. PICK kvs \in Pairs, f \in Faults({"write"}) :
            Operation(<<"multi_set", kvs>>, MultiSet(kvs), f)
      BY <1>6 DEF KvMultiSet
    <2>2. QED
      BY <2>1, LegalMulti, OperationLegal
  <1>7. ASSUME KvMultiDel PROVE LegalStep
    <2>1. PICK k1, k2, f : Operation(<<"multi_del", <<k1, k2>>>>, MultiDel(<<k1, k2>>), f)
      BY <1>7 DEF KvMultiDel
    <2>2. QED
      BY <2>1, LegalMulti, OperationLegal
  <1>8. QED
    BY <1>1, <1>2, <1>3, <1>4, <1>5, <1>6, <1>7

LEMMA HashLegal ==
    /\ HashSet \/ HashDel \/ HashIncr => LegalStep
    /\ (\E f : HclearDel(f)) /\ clearing.name \in HNames => LegalStep
  <1>1. ASSUME HashSet PROVE LegalStep
    <2>1. PICK n \in HNames, k \in Named, v \in Values, f \in Faults({"entry", "size", "write"}) :
             Operation(<<"hset", n, k, v>>, Hset(n, k, v, f), f)
      BY <1>1 DEF HashSet
    <2>2. LegalBody(Hset(n, k, v, f))
      BY LegalGiven, LegalHashStored, LegalReturn DEF Hset
    <2>3. QED
      BY <2>1, <2>2, OperationLegal
  <1>2. ASSUME HashDel PROVE LegalStep
    <2>1. PICK n \in HNames, k \in Keys \cup {TooLong}, f \in Faults({"entry", "size", "write"}) :
             Operation(<<"hdel", n, k>>, Hdel(n, k, f), f)
      BY <1>2 DEF HashDel
    <2>2. QED
      BY <2>1, LegalHdel, OperationLegal
  <1>3. ASSUME HashIncr PROVE LegalStep
    <2>1. PICK n \in HNames, k \in Named, by \in {-1, 1}, f \in Faults({"entry", "again", "size", "write"}) :
             Operation(<<"hincr", n, k, by>>, Hincr(n, k, by, f), f)
      BY <1>3 DEF HashIncr
    <2> DEFINE sum == Addend(HashKey(n, k)) + by
               s == HashStored(n, k, sum, f = "again", 1, f)
               r == Hincr(n, k, by, f)
    <2>2. k \in Keys => LegalBody(s)
      <3> HIDE DEF sum
      <3>1. QED
        BY LegalHashStored
    <2>3. s = [commits |-> s.commits, batch |-> s.batch, logs |-> s.logs, ret |-> s.ret,
               item |-> s.item, misread |-> s.misread]
      BY StoredRecord
    <2>4. r = Return(-1) \/ r = Return(0) \/ (k \in Keys /\ r = [s EXCEPT !.item = sum])
      BY LegalGiven DEF Hincr
    <2> HIDE DEF s, r, sum
    <2>5. LegalBody(r)
      BY <2>2, <2>3, <2>4, LegalItem, LegalReturn
    <2>6. QED
      BY <2>1, <2>5, OperationLegal DEF r
  <1>4. ASSUME \E f : HclearDel(f), clearing.name \in HNames PROVE LegalStep
    <2>1. PICK f : HclearDel(f)
      BY <1>4
    <2> DEFINE k == Head(clearing.todo)
    <2>2. Transact(<<"hdel", clearing.name, k>>, Hdel(clearing.name, k, f), f)
      BY <2>1 DEF HclearDel
    <2> HIDE DEF k
    <2>3. QED
      BY <1>4, <2>2, LegalHdel, OperationLegal
  <1>5. QED
    BY <1>1, <1>2, <1>3, <1>4

LEMMA ZsetLegal == ZsetSet \/ ZsetDel \/ ZsetIncr => LegalStep
  <1>1. ASSUME ZsetSet PROVE LegalStep
    <2>1. PICK n \in ZNames, k \in Named, score \in Scores, f \in Faults({"entry", "size", "write"}) :
             Operation(<<"zset", n, k, score>>, Zset1(n, k, score, f), f)
      BY <1>1 DEF ZsetSet
    <2>2. LegalBody(Zset1(n, k, score, f))
      BY LegalGiven, LegalScoreStored, LegalReturn, LegalNothing DEF Zset1
    <2>3. QED
      BY <2>1, <2>2, OperationLegal
  <1>2. ASSUME ZsetDel PROVE LegalStep
    <2>1. PICK n \in ZNames, k \in Keys \cup {TooLong}, f \in Faults({"entry", "size", "write"}) :
             Operation(<<"zdel", n, k>>, Zdel(n, k, f), f)
      BY <1>2 DEF ZsetDel
    <2>2. QED
      BY <2>1, LegalZdel, OperationLegal
  <1>3. ASSUME ZsetIncr PROVE LegalStep
    <2>1. PICK n \in ZNames, k \in Named, by \in {-1, 1}, f \in Faults({"entry", "again", "size", "write"}) :
             /\ Addend(ZsetKey(n, k)) + by \in Scores
             /\ Operation(<<"zincr", n, k, by>>, Zincr(n, k, by, f), f)
      BY <1>3 DEF ZsetIncr
    <2> DEFINE score == Addend(ZsetKey(n, k)) + by
               s == ScoreStored(n, k, score, f = "again", 1, f)
               z == Commit(<<>>, <<>>, 1)
               r == Zincr(n, k, by, f)
    <2>2. \/ r = Return(-1) \/ r = [z EXCEPT !.item = score]
          \/ k \in Keys /\ r = [s EXCEPT !.item = score]
      BY LegalGiven DEF Zincr
    <2>3. score \in Scores
      BY <2>1
    <2>4. (k \in Keys => LegalBody(s)) /\ LegalBody(z)
      <3> HIDE DEF score
      <3>1. QED
        BY <2>3, LegalScoreStored, LegalNothing
    <2>5. /\ s = [commits |-> s.commits, batch |-> s.batch, logs |-> s.logs, ret |-> s.ret,
                  item |-> s.item, misread |-> s.misread]
          /\ z = [commits |-> z.commits, batch |-> z.batch, logs |-> z.logs, ret |-> z.ret,
                  item |-> z.item, misread |-> z.misread]
      BY StoredRecord DEF Commit
    <2> HIDE DEF s, z, r, score
    <2>6. LegalBody(r)
      BY <2>2, <2>4, <2>5, LegalItem, LegalReturn
    <2>7. QED
      BY <2>1, <2>6, OperationLegal DEF r
  <1>4. QED
    BY <1>1, <1>2, <1>3

LEMMA QueueLegal ==
    IInv /\ (QueuePush \/ QueuePop \/ QueueSet \/ QueueSetBySeq \/ QueueFix) => LegalStep
  <1>1. ASSUME IInv, QueuePush PROVE LegalStep
    <2>1. PICK n \in QNames, item \in Values, end \in Ends, f \in Faults({"entry", "size", "write"}) :
              Operation(<<"qpush", n, item, end>>, Qpush(n, item, end, f), f)
      BY <1>1 DEF QueuePush
    <2>2. QED
      BY <1>1, <2>1, LegalQpush, OperationLegal
  <1>2. ASSUME IInv, QueuePop PROVE LegalStep
    <2>1. PICK n \in QNames, end \in Ends, f \in Faults({"entry", "again", "size", "write"}) :
              Operation(<<"qpop", n, end>>, Qpop(n, end, f), f)
      BY <1>2 DEF QueuePop
    <2>2. QED
      BY <1>2, <2>1, LegalQpop, OperationLegal
  <1>3. ASSUME IInv, QueueSet PROVE LegalStep
    <2>1. PICK n \in QNames, index \in Indexes, item \in Values, f \in Faults({"entry", "size", "write"}) :
             Operation(<<"qset", n, index, item>>, Qset(n, index, item, f), f)
      BY <1>3 DEF QueueSet
    <2>2. AtIndex(n, index) \in Int
      <3>1. Sequence(n, QFRONT) \in Int /\ Sequence(n, QBACK) \in Int /\ index \in Int
        BY <1>3, LegalEnds, SsdbAssumption DEF Ends
      <3>2. QED
        BY <3>1 DEF AtIndex
    <2> DEFINE q == QStore(n, AtIndex(n, index), item)
    <2>4. LegalBody(q)
      BY <2>2, LegalQStore
    <2>5. Qset(n, index, item, f) \in {Return(-1), Return(0), q}
      BY DEF Qset
    <2> HIDE DEF q
    <2>6. QED
      BY <2>1, <2>4, <2>5, LegalReturn, OperationLegal
  <1>4. ASSUME IInv, QueueSetBySeq PROVE LegalStep
    <2>1. PICK n \in QNames, seq \in {0} \cup QMin + 1 .. QMax, item \in Values, f \in Faults({"entry", "size", "write"}) :
              Transact(<<"qset_by_seq", n, seq, item>>, QsetBySeq(n, seq, item, f), f)
      BY <1>4 DEF QueueSetBySeq
    <2>2. seq \in Int
      BY PlacesDiffer
    <2> DEFINE q == QStore(n, seq, item)
    <2>3. LegalBody(q)
      BY <2>2, LegalQStore
    <2>4. QsetBySeq(n, seq, item, f) \in {Return(-1), Return(0), q}
      BY DEF QsetBySeq
    <2> HIDE DEF q
    <2>5. QED
      BY <2>1, <2>3, <2>4, LegalReturn, OperationLegal
  <1>5. ASSUME QueueFix PROVE LegalStep
    <2>1. PICK n \in QNames, f \in Faults({"write"}) :
             Operation(<<"qfix", n>>, Qfix(n), f)
      BY <1>5 DEF QueueFix
    <2>2. QED
      BY <2>1, LegalQfix, OperationLegal
  <1>6. QED
    BY <1>1, <1>2, <1>3, <1>4, <1>5

-----------------------------------------------------------------------------
(* The store stays finite, and numbered.                                   *)

\* The last of the places of a key.
LEMMA LastPlace ==
    ASSUME NEW T, NEW n \in Nat, T \subseteq 1 .. n, T # {}
    PROVE  Max(T) \in T /\ \A j \in T : j <= Max(T)
  <1>1. PICK x \in T : \A y \in T : y <= x
    <2>1. T \subseteq Nat /\ \A y \in T : y <= n
      OBVIOUS
    <2>2. QED
      BY <2>1, GreatestNat
  <1>2. \A m \in T : (\A j \in T : m >= j) <=> m = x
    BY <1>1
  <1>3. Max(T) = x
    BY <1>1, <1>2 DEF Max
  <1>4. QED
    BY <1>1, <1>3

LEMMA TouchedWrites ==
    ASSUME NEW B, IsSeq(B), NEW x, ~Untouched(B, x)
    PROVE  \E i \in DOMAIN B : Writes(B, x, B[i])
  <1> DEFINE T == {i \in DOMAIN B : B[i].key = x}  m == Max(T)
  <1>1. DOMAIN B = 1 .. Len(B) /\ Len(B) \in Nat
    BY LenProperties DEF IsSeq
  <1>2. T \subseteq 1 .. Len(B) /\ T # {}
    BY <1>1 DEF Untouched
  <1> HIDE DEF T
  <1>3. m \in T /\ \A j \in T : j <= m
    BY <1>1, <1>2, LastPlace
  <1> HIDE DEF m
  <1>4. m \in DOMAIN B /\ Writes(B, x, B[m])
    BY <1>3 DEF T, Writes
  <1>5. QED
    BY <1>4

LEMMA FiniteApplied ==
    ASSUME IsFiniteSet(DOMAIN db), NEW S, NEW C \in Seq(S)
    PROVE  IsFiniteSet(DOMAIN Applied(C))
  <1> DEFINE n == Len(C)  K == {C[i].key : i \in 1 .. n}  g == [i \in 1 .. n |-> C[i].key]
  <1>1. n \in Nat /\ DOMAIN C = 1 .. n
    BY LenProperties
  <1>2. IsFiniteSet(1 .. n)
    BY <1>1, FS_Interval
  <1>3. g \in Surjection(1 .. n, K)
    BY DEF Surjection
  <1>4. \A x \in DOMAIN Applied(C) : x \in DOMAIN db \cup K
    <2>1. \A x : ~Untouched(C, x) => x \in K
      BY <1>1 DEF Untouched
    <2> HIDE DEF K
    <2>2. QED
      BY <2>1, AppliedDomain
  <1> HIDE DEF n, K, g
  <1>5. IsFiniteSet(K)
    BY <1>2, <1>3, FS_Surjection
  <1> DEFINE U == DOMAIN db \cup K
  <1>6. IsFiniteSet(U)
    BY <1>5, FS_Union
  <1> HIDE DEF U
  <1>7. DOMAIN Applied(C) \in SUBSET U
    BY <1>4 DEF U
  <1>8. QED
    BY <1>6, <1>7, FS_Subset

LEMMA TransactLegal ==
    ASSUME LegalDb(db), NEW call, NEW o, NEW f, Transact(call, o, f), LegalBody(o)
    PROVE  LegalDb(db')
  <1>1. CASE ~(o.commits /\ f # "write")
    <2>1. db' = db
      BY <1>1 DEF Transact
    <2>2. QED
      BY <2>1
  <1>2. CASE o.commits /\ f # "write"
    <2> DEFINE B == o.batch  L == AddLogs(o.logs)
               S == {B[i] : i \in DOMAIN B}
               T == {o.logs[i] : i \in DOMAIN o.logs}
               P == {Put(SeqKey(last + i), o.logs[i]) : i \in DOMAIN o.logs}
    <2>1. B \in Seq(S) /\ o.logs \in Seq(T)
      BY <1>2 DEF LegalBody, LegalKeys, IsSeq
    <2>2. LegalKeys(B)
      BY <1>2 DEF LegalBody
    <2>3. db' = Applied(B \o L)
      BY <1>2 DEF Transact
    <2> HIDE DEF S, T
    <2>4. L \in Seq(P)
      BY <2>1, LogBatch
    <2>5. ChangesBy(B)
      BY <1>2, <2>1, TransactWrites
    <2> HIDE DEF B, L, P
    <2>6. B \o L \in Seq(S \cup P)
      BY <2>1, <2>4, ConcatBatches
    <2>7. IsFiniteSet(DOMAIN db')
      <3> DEFINE C == B \o L  U == S \cup P
      <3>1. C \in Seq(U) /\ db' = Applied(C)
        BY <2>3, <2>6
      <3> HIDE DEF C, U
      <3>2. IsFiniteSet(DOMAIN Applied(C))
        BY <3>1, FiniteApplied DEF LegalDb
      <3>3. QED
        BY <3>1, <3>2
    <2>8. ASSUME NEW x \in DOMAIN db', x[1] # SYNCLOG PROVE x \in StoreKeys
      <3>1. CASE Untouched(B, x)
        <4>1. x \in DOMAIN db
          BY <2>5, <2>8, <3>1 DEF ChangesBy, Stays
        <4>2. QED
          BY <2>8, <4>1 DEF LegalDb
      <3>2. CASE ~Untouched(B, x)
        <4>1. PICK i \in DOMAIN B : Writes(B, x, B[i])
          BY <2>2, <3>2, TouchedWrites DEF LegalKeys
        <4>2. B[i].keep
          BY <2>5, <2>8, <4>1 DEF ChangesBy
        <4>3. B[i].key = x
          BY <4>1 DEF Writes
        <4>4. QED
          BY <2>2, <4>2, <4>3 DEF LegalKeys
      <3>3. QED
        BY <3>1, <3>2
    <2>9. QED
      BY <2>7, <2>8 DEF LegalDb
  <1>3. QED
    BY <1>1, <1>2

\* The cleaning thread deletes records, and nothing else.
LEMMA CleanKeeps ==
    ASSUME WellFormed(db), WellFormed(db'), LogRight, NEW f, CleanChunk(f)
    PROVE  /\ \A x : x[1] # SYNCLOG => Stays(x)
           /\ DOMAIN db' \subseteq DOMAIN db
  <1>1. ChangeTold
    BY CleanChunkTold
  <1>2. ASSUME NEW x, x[1] # SYNCLOG PROVE Stays(x)
    <2>1. CASE db' = db
      BY <2>1 DEF Stays
    <2>2. CASE db' # db
      <3> DEFINE upto == Min({cleaning.end, cleaning.start + Chunk - 1})
                 B == [i \in 1 .. upto - cleaning.start + 1 |-> Delete(SeqKey(cleaning.start + i - 1))]
      <3>1. db' = Applied(B)
        BY <2>2 DEF CleanChunk
      <3>2. \A i \in DOMAIN B : B[i].key[1] = SYNCLOG
        BY DEF Delete, SeqKey
      <3> HIDE DEF B
      <3>3. Untouched(B, x)
        BY <1>2, <3>2 DEF Untouched
      <3>4. QED
        BY <3>1, <3>3, AppliedUntouched DEF Stays
    <2>3. QED
      BY <2>1, <2>2
  <1>3. Numbers(db') \subseteq Numbers(db)
    <2>1. CASE ~enabled
      BY <1>1, <2>1 DEF ChangeTold
    <2>2. CASE enabled
      <3>1. Numbers(db') \ Numbers(db) = last + 1 .. last'
        BY <1>1, <2>2 DEF ChangeTold
      <3>2. last' = last /\ last \in Nat
        BY DEF CleanChunk, LogRight
      <3>3. last + 1 .. last = {}
        BY <3>2
      <3>4. QED
        BY <3>1, <3>2, <3>3
    <2>3. QED
      BY <2>1, <2>2
  <1>4. ASSUME NEW x \in DOMAIN db' PROVE x \in DOMAIN db
    <2>1. CASE x[1] # SYNCLOG
      BY <1>2, <1>4, <2>1 DEF Stays
    <2>2. CASE x[1] = SYNCLOG
      <3>1. x = SeqKey(x[2])
        BY <1>4, <2>2 DEF WellFormed, Shaped, SeqKey, SYNCLOG, KV, HSIZE, ZSIZE, QSIZE, HASH, ZSET, QUEUE, ZSCORE
      <3>2. x[2] \in Numbers(db')
        BY <1>4, <3>1, NumberIn
      <3>3. SeqKey(x[2]) \in DOMAIN db
        BY <1>3, <3>2, NumberIn
      <3>4. QED
        BY <3>1, <3>3
    <2>3. QED
      BY <2>1, <2>2
  <1>5. QED
    BY <1>2, <1>4

\* All keys are of names, keys and scores there are, and errors are counted.
StoreLegal ==
    /\ errors \in Nat /\ LegalDb(db)
    /\ clearing # Nothing => clearing.name \in HNames

LEMMA TransactErrors ==
    ASSUME errors \in Nat, NEW call, NEW o, NEW f, Transact(call, o, f)
    PROVE  errors' \in Nat
  BY DEF Transact

Operations ==
    \/ KvSet \/ KvSetnx \/ KvGetset \/ KvDel \/ KvIncr \/ KvMultiSet \/ KvMultiDel
    \/ HashSet \/ HashDel \/ HashIncr \/ ZsetSet \/ ZsetDel \/ ZsetIncr
    \/ QueuePush \/ QueuePop \/ QueueSet \/ QueueFix

LEMMA OperationNoticed == Operations => clearing' = Noticed
  <1>1. \A call, o, f : Operation(call, o, f) => clearing' = Noticed
    BY DEF Operation
  <1>2. KvSet \/ KvSetnx \/ KvGetset \/ KvDel \/ KvIncr \/ KvMultiSet \/ KvMultiDel
          => clearing' = Noticed
    BY <1>1 DEF KvSet, KvSetnx, KvGetset, KvDel, KvIncr, KvMultiSet, KvMultiDel
  <1>3. HashSet \/ HashDel \/ HashIncr \/ ZsetSet \/ ZsetDel \/ ZsetIncr => clearing' = Noticed
    BY <1>1 DEF HashSet, HashDel, HashIncr, ZsetSet, ZsetDel, ZsetIncr
  <1>4. QueuePush \/ QueuePop \/ QueueSet \/ QueueFix => clearing' = Noticed
    BY <1>1 DEF QueuePush, QueuePop, QueueSet, QueueFix
  <1>5. QED
    BY <1>2, <1>3, <1>4 DEF Operations

\* A step of hclear that deletes nothing, of the cleaning thread, or none.
OtherSteps ==
    \/ (\E n \in HNames : HclearBegin(n)) \/ HclearAgain \/ HclearEnd
    \/ Restart \/ CleanBegin \/ (\E f : CleanChunk(f)) \/ CleanEnd \/ UNCHANGED vars

LEMMA NextSteps == [Next]_vars => Operations \/ QueueSetBySeq \/ (\E f : HclearDel(f)) \/ OtherSteps
  BY Zenon DEF Next, Operations, OtherSteps

LEMMA NamedStep == StoreLegal /\ [Next]_vars => (clearing' # Nothing => clearing'.name \in HNames)
  <1> SUFFICES ASSUME StoreLegal, [Next]_vars PROVE clearing' # Nothing => clearing'.name \in HNames
    OBVIOUS
  <1>1. clearing # Nothing => clearing.name \in HNames
    BY DEF StoreLegal
  <1>2. CASE Operations
    <2>1. clearing' = Noticed
      BY <1>2, OperationNoticed
    <2>2. Noticed = clearing \/ (clearing # Nothing /\ Noticed.name = clearing.name)
      <3>1. [clearing EXCEPT !.moved = TRUE, !.held = 0].name = clearing.name
        OBVIOUS
      <3>2. QED
        BY <3>1 DEF Noticed
    <2>3. QED
      BY <1>1, <2>1, <2>2
  <1>3. CASE QueueSetBySeq
    BY <1>1, <1>3 DEF QueueSetBySeq
  <1>4. CASE \E f : HclearDel(f)
    <2>1. /\ clearing # Nothing
          /\ clearing' = Nothing \/ clearing' = [clearing EXCEPT !.todo = Tail(@), !.num = @ + 1]
      BY <1>4 DEF HclearDel
    <2>2. [clearing EXCEPT !.todo = Tail(@), !.num = @ + 1].name = clearing.name
      OBVIOUS
    <2>3. QED
      BY <1>1, <2>1, <2>2
  <1>5. CASE \E n \in HNames : HclearBegin(n)
    BY <1>5 DEF HclearBegin
  <1>6. CASE HclearAgain
    BY <1>1, <1>6 DEF HclearAgain
  <1>7. CASE HclearEnd \/ Restart
    BY <1>7 DEF HclearEnd, Restart
  <1>8. CASE CleanBegin \/ (\E f : CleanChunk(f)) \/ CleanEnd \/ UNCHANGED vars
    BY <1>1, <1>8 DEF CleanBegin, CleanChunk, CleanEnd, vars
  <1>9. QED
    BY <1>2, <1>3, <1>4, <1>5, <1>6, <1>7, <1>8, NextSteps, Zenon DEF OtherSteps

LEMMA StepLegal ==
    IInv /\ IInv' /\ LogRight /\ StoreLegal /\ [Next]_vars => StoreLegal'
  <1> SUFFICES ASSUME IInv, IInv', LogRight, StoreLegal, [Next]_vars PROVE StoreLegal'
    OBVIOUS
  <1>1. errors \in Nat /\ LegalDb(db) /\ (clearing # Nothing => clearing.name \in HNames)
    BY DEF StoreLegal
  <1>2. clearing' # Nothing => clearing'.name \in HNames
    BY NamedStep
  <1>3. CASE LegalStep
    <2>1. PICK call, o, f : Transact(call, o, f) /\ LegalBody(o)
      BY <1>3 DEF LegalStep
    <2>2. LegalDb(db')
      BY <1>1, <2>1, TransactLegal
    <2>3. errors' \in Nat
      BY <1>1, <2>1, TransactErrors
    <2>4. QED
      BY <1>2, <2>2, <2>3 DEF StoreLegal
  <1>4. CASE Operations \/ QueueSetBySeq
    <2>1. LegalStep
      BY <1>4, KvLegal, HashLegal, ZsetLegal, QueueLegal, Zenon DEF Operations
    <2>2. QED
      BY <1>3, <2>1
  <1>5. CASE \E f : HclearDel(f)
    <2>1. clearing.name \in HNames
      BY <1>1, <1>5 DEF HclearDel
    <2>2. LegalStep
      BY <1>5, <2>1, HashLegal
    <2>3. QED
      BY <1>3, <2>2
  <1>6. CASE \E f : CleanChunk(f)
    <2>1. PICK f : CleanChunk(f)
      BY <1>6
    <2>2. (\A x : x[1] # SYNCLOG => Stays(x)) /\ DOMAIN db' \subseteq DOMAIN db
      BY <2>1, CleanKeeps DEF IInv
    <2>3. IsFiniteSet(DOMAIN db')
      BY <1>1, <2>2, FS_Subset DEF LegalDb
    <2>4. LegalDb(db')
      BY <1>1, <2>2, <2>3 DEF LegalDb
    <2>5. errors' \in Nat
      BY <1>1, <2>1 DEF CleanChunk
    <2>6. QED
      BY <1>2, <2>4, <2>5 DEF StoreLegal
  <1>7. CASE \/ (\E n \in HNames : HclearBegin(n)) \/ HclearAgain \/ HclearEnd
             \/ Restart \/ CleanBegin \/ CleanEnd \/ UNCHANGED vars
    <2>1. db' = db /\ errors' = errors
      BY <1>7 DEF HclearBegin, HclearAgain, HclearEnd, Restart, CleanBegin, CleanEnd, vars
    <2>2. QED
      BY <1>1, <1>2, <2>1 DEF StoreLegal
  <1>8. QED
    BY <1>4, <1>5, <1>6, <1>7, NextSteps, Zenon DEF OtherSteps

LEMMA InitLegal == Init => StoreLegal
  <1> SUFFICES ASSUME Init PROVE StoreLegal
    OBVIOUS
  <1>1. DOMAIN db = {} /\ errors = 0 /\ clearing = Nothing
    BY DEF Init
  <1>2. IsFiniteSet({})
    BY FS_EmptySet
  <1>3. LegalDb(db)
    BY <1>1, <1>2 DEF LegalDb
  <1>4. QED
    BY <1>1, <1>3 DEF StoreLegal

\* Whatever an operation was given, the store holds finitely many keys, and
\* none but of the names, keys and scores there are: the empty key and keys
\* beyond SSDB_KEY_LEN_MAX are refused by each operation that writes.
THEOREM KeysLegal == Spec => []StoreLegal
  <1>1. Init => StoreLegal
    BY InitLegal
  <1>2. IInv /\ IInv' /\ LogRight /\ StoreLegal /\ [Next]_vars => StoreLegal'
    BY StepLegal
  <1>3. Spec => []IInv
    BY StoreRight
  <1>4. Spec => []LogRight
    BY RecordsRight
  <1>5. QED
    BY <1>1, <1>2, <1>3, <1>4, PTL DEF Spec

=============================================================================
