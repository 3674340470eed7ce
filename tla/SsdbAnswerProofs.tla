-------------------------- MODULE SsdbAnswerProofs --------------------------
(***************************************************************************)
(* Proofs about the answers of Ssdb: each operation does to the plain      *)
(* values, hashes, sorted sets and queues what it promises, and answers    *)
(* what it did.  What a step makes of the contents follows from what it    *)
(* leaves under the keys of the entries and of the ends of queues;         *)
(* SsdbProofs has the shape of the store and the counters.                 *)
(* Then the reads: the keys a scan, list, rank or range is about are a run *)
(* of the keys between its bounds, and an iterator lists them in order.    *)
(***************************************************************************)
EXTENDS SsdbProofs

LEMMA SameFunction ==
    ASSUME NEW f, NEW g, f = [x \in DOMAIN f |-> f[x]], g = [x \in DOMAIN g |-> g[x]],
           DOMAIN f = DOMAIN g, \A x \in DOMAIN f : f[x] = g[x]
    PROVE  f = g
  <1>1. [x \in DOMAIN f |-> f[x]] = [x \in DOMAIN g |-> g[x]]
    OBVIOUS
  <1>2. QED
    BY <1>1

LEMMA KvMember ==
    ASSUME NEW d, WellFormed(d), NEW k
    PROVE  /\ k \in DOMAIN Kv(d) <=> KvKey(k) \in DOMAIN d
           /\ k \in DOMAIN Kv(d) => Kv(d)[k] = d[KvKey(k)]
  <1>1. DOMAIN Kv(d) = {x[2] : x \in Of(d, KV)}
    BY DEF Kv
  <1>2. \A y \in Of(d, KV) : y = KvKey(y[2]) /\ y \in DOMAIN d
    BY DEF WellFormed, Shaped, Of, KvKey, HASH, ZSET, QUEUE, ZSCORE, SYNCLOG, KV, HSIZE, ZSIZE, QSIZE
  <1>3. KvKey(k)[1] = KV /\ KvKey(k)[2] = k
    BY DEF KvKey
  <1>4. k \in DOMAIN Kv(d) => KvKey(k) \in DOMAIN d
    BY <1>1, <1>2
  <1>5. KvKey(k) \in DOMAIN d => k \in DOMAIN Kv(d)
    BY <1>1, <1>3 DEF Of
  <1>6. QED
    BY <1>4, <1>5 DEF Kv

LEMMA AreFunctions ==
    ASSUME NEW d, NEW n
    PROVE  /\ Kv(d) = [k \in DOMAIN Kv(d) |-> Kv(d)[k]]
           /\ Hash(d, n) = [k \in DOMAIN Hash(d, n) |-> Hash(d, n)[k]]
           /\ Zset(d, n) = [k \in DOMAIN Zset(d, n) |-> Zset(d, n)[k]]
  <1>1. Kv(d) = [k \in DOMAIN Kv(d) |-> Kv(d)[k]]
    BY DEF Kv
  <1>2. Hash(d, n) = [k \in DOMAIN Hash(d, n) |-> Hash(d, n)[k]]
    BY DEF Hash
  <1>3. Zset(d, n) = [k \in DOMAIN Zset(d, n) |-> Zset(d, n)[k]]
    BY DEF Zset
  <1>4. QED
    BY <1>1, <1>2, <1>3

\* What f is after k is set to v, or taken away.
Altered(f, k, there, v) == IF there THEN With(f, k, v) ELSE Without(f, k)

\* A function g that differs from f at k.
LEMMA AlteredFunction ==
    ASSUME NEW f, NEW g, NEW k, NEW v, NEW there \in BOOLEAN, g = [x \in DOMAIN g |-> g[x]],
           k \in DOMAIN g <=> there, there => g[k] = v,
           \A x : x # k => /\ x \in DOMAIN g <=> x \in DOMAIN f
                           /\ x \in DOMAIN f => g[x] = f[x]
    PROVE  g = Altered(f, k, there, v)
  <1>1. CASE there
    <2> DEFINE h == With(f, k, v)
    <2>1. /\ h = [x \in DOMAIN h |-> h[x]] /\ DOMAIN h = DOMAIN f \cup {k}
          /\ h[k] = v /\ \A x \in DOMAIN f : x # k => h[x] = f[x]
      BY DEF With
    <2> HIDE DEF h
    <2>2. DOMAIN g = DOMAIN h /\ \A x \in DOMAIN g : g[x] = h[x]
      BY <1>1, <2>1
    <2>3. g = h
      BY <2>1, <2>2, SameFunction
    <2>4. QED
      BY <1>1, <2>3 DEF Altered, h
  <1>2. CASE ~there
    <2> DEFINE h == Without(f, k)
    <2>1. /\ h = [x \in DOMAIN h |-> h[x]] /\ DOMAIN h = DOMAIN f \ {k}
          /\ \A x \in DOMAIN f : x # k => h[x] = f[x]
      BY DEF Without
    <2> HIDE DEF h
    <2>2. DOMAIN g = DOMAIN h /\ \A x \in DOMAIN g : g[x] = h[x]
      BY <1>2, <2>1
    <2>3. g = h
      BY <2>1, <2>2, SameFunction
    <2>4. QED
      BY <1>2, <2>3 DEF Altered, h
  <1>3. QED
    BY <1>1, <1>2

EntriesStay(y) == \A x : IsEntry(x) /\ x # y => Stays(x)

EndsStay == \A n : Stays(QItemKey(n, QFRONT)) /\ Stays(QItemKey(n, QBACK))

\* An object none of whose keys is written.
LEMMA ObjectsStay ==
    ASSUME IInv, IInv'
    PROVE  /\ (\A k : Stays(KvKey(k))) => Kv(db') = Kv(db)
           /\ \A n : (\A k : Stays(HashKey(n, k))) => Hash(db', n) = Hash(db, n)
           /\ \A n : (\A k : Stays(ZsetKey(n, k))) => Zset(db', n) = Zset(db, n)
           /\ \A n \in QNames : (\A s : Stays(QItemKey(n, s))) => Queue(db', n) = Queue(db, n)
  <1>1. ASSUME \A k : Stays(KvKey(k)) PROVE Kv(db') = Kv(db)
    <2>1. \A k : /\ k \in DOMAIN Kv(db') <=> k \in DOMAIN Kv(db)
                 /\ k \in DOMAIN Kv(db) => Kv(db')[k] = Kv(db)[k]
      BY <1>1, KvMember DEF Stays, IInv
    <2>2. DOMAIN Kv(db') = DOMAIN Kv(db)
      BY <2>1
    <2>3. QED
      BY ONLY <2>1, <2>2, AreFunctions, SameFunction
  <1>2. ASSUME NEW n, \A k : Stays(HashKey(n, k)) PROVE Hash(db', n) = Hash(db, n)
    <2>1. \A k : /\ k \in DOMAIN Hash(db', n) <=> k \in DOMAIN Hash(db, n)
                 /\ k \in DOMAIN Hash(db, n) => Hash(db', n)[k] = Hash(db, n)[k]
      BY <1>2, HashMember DEF Stays, IInv
    <2>2. DOMAIN Hash(db', n) = DOMAIN Hash(db, n)
      BY <2>1
    <2>3. QED
      BY ONLY <2>1, <2>2, AreFunctions, SameFunction
  <1>3. ASSUME NEW n, \A k : Stays(ZsetKey(n, k)) PROVE Zset(db', n) = Zset(db, n)
    <2>1. \A k : /\ k \in DOMAIN Zset(db', n) <=> k \in DOMAIN Zset(db, n)
                 /\ k \in DOMAIN Zset(db, n) => Zset(db', n)[k] = Zset(db, n)[k]
      BY <1>3, ZsetMember DEF Stays, IInv
    <2>2. DOMAIN Zset(db', n) = DOMAIN Zset(db, n)
      BY <2>1
    <2>3. QED
      BY ONLY <2>1, <2>2, AreFunctions, SameFunction
  <1>4. ASSUME NEW n \in QNames, \A s : Stays(QItemKey(n, s))
        PROVE  Queue(db', n) = Queue(db, n)
    <2>1. \A s : /\ QItemKey(n, s) \in DOMAIN db' <=> QItemKey(n, s) \in DOMAIN db
                 /\ QItemKey(n, s) \in DOMAIN db => db'[QItemKey(n, s)] = db[QItemKey(n, s)]
      BY <1>4 DEF Stays
    <2>2. CASE QItemKey(n, QFRONT) \notin DOMAIN db
      BY <2>1, <2>2 DEF Queue
    <2>3. CASE QItemKey(n, QFRONT) \in DOMAIN db
      <3> DEFINE item(d, s) == IF QItemKey(n, s) \in DOMAIN d THEN d[QItemKey(n, s)] ELSE Nothing
      <3>1. \A s : item(db', s) = item(db, s)
        BY <2>1
      <3>2. QItemKey(n, QBACK) \in DOMAIN db
        BY <2>3 DEF IInv, QueueEnds
      <3>3. QED
        BY <2>1, <2>3, <3>1, <3>2 DEF Queue
    <2>4. QED
      BY <2>2, <2>3
  <1>5. QED
    BY <1>1, <1>2, <1>3, <1>4

\* The objects none of whose keys is y.
LEMMA OthersStay ==
    ASSUME IInv, IInv', NEW y, EntriesStay(y)
    PROVE  /\ y[1] # KV => Kv(db') = Kv(db)
           /\ \A n : ~(y[1] = HASH /\ y[2] = n) => Hash(db', n) = Hash(db, n)
           /\ \A n : ~(y[1] = ZSET /\ y[2] = n) => Zset(db', n) = Zset(db, n)
           /\ \A n \in QNames : ~(y[1] = QUEUE /\ y[2] = n) /\ Stays(QItemKey(n, QFRONT))
                       /\ Stays(QItemKey(n, QBACK)) => Queue(db', n) = Queue(db, n)
  <1>1. y[1] # KV => \A k : Stays(KvKey(k))
    BY DEF EntriesStay, IsEntry, KvKey
  <1>2. \A n : ~(y[1] = HASH /\ y[2] = n) => \A k : Stays(HashKey(n, k))
    BY DEF EntriesStay, IsEntry, HashKey
  <1>3. \A n : ~(y[1] = ZSET /\ y[2] = n) => \A k : Stays(ZsetKey(n, k))
    BY DEF EntriesStay, IsEntry, ZsetKey
  <1>4. ASSUME NEW n, ~(y[1] = QUEUE /\ y[2] = n),
               Stays(QItemKey(n, QFRONT)), Stays(QItemKey(n, QBACK)), NEW s
        PROVE  Stays(QItemKey(n, s))
    <2>1. s \notin {QFRONT, QBACK} => Stays(QItemKey(n, s))
      BY <1>4 DEF EntriesStay, IsEntry, QItemKey
    <2>2. QED
      BY <1>4, <2>1
  <1>5. QED
    BY <1>1, <1>2, <1>3, <1>4, ObjectsStay

LEMMA SameContents ==
    ASSUME IInv, IInv', \A y : IsEntry(y) => Stays(y), EndsStay
    PROVE  Contents(db') = Contents(db)
  <1>1. EntriesStay(NoLog) /\ NoLog[1] \notin {KV, HASH, ZSET, QUEUE}
    BY DEF EntriesStay, NoLog, HSIZE, KV, HASH, ZSET, QUEUE
  <1>2. /\ Kv(db') = Kv(db)
        /\ \A m : Hash(db', m) = Hash(db, m) /\ Zset(db', m) = Zset(db, m)
        /\ \A m \in QNames : Queue(db', m) = Queue(db, m)
    BY <1>1, OthersStay DEF EndsStay
  <1>3. QED
    BY <1>2 DEF Contents

\* What becomes of the contents when one entry of a type is altered.
LEMMA KvContents ==
    ASSUME IInv, IInv', NEW k, EntriesStay(KvKey(k)), EndsStay
    PROVE  LET there == KvKey(k) \in DOMAIN db'
           IN Contents(db') = [Contents(db) EXCEPT
                                 !.kv = Altered(Kv(db), k, there, db'[KvKey(k)])]
  <1> DEFINE there == KvKey(k) \in DOMAIN db'
             v == db'[KvKey(k)]
  <1>1. KvKey(k)[1] = KV /\ KV # HASH /\ KV # ZSET /\ KV # QUEUE
    BY DEF KvKey, KV, HASH, ZSET, QUEUE
  <1>2. /\ \A n : Hash(db', n) = Hash(db, n) /\ Zset(db', n) = Zset(db, n)
        /\ \A n \in QNames : Queue(db', n) = Queue(db, n)
    BY <1>1, OthersStay DEF EndsStay
  <1>3. \A j : j # k => Stays(KvKey(j))
    BY <1>1 DEF EntriesStay, IsEntry, KvKey
  <1>4. \A j : j # k => /\ j \in DOMAIN Kv(db') <=> j \in DOMAIN Kv(db)
                        /\ j \in DOMAIN Kv(db) => Kv(db')[j] = Kv(db)[j]
    BY <1>3, KvMember DEF Stays, IInv
  <1>5. /\ k \in DOMAIN Kv(db') <=> there
        /\ there => Kv(db')[k] = v
    BY KvMember DEF IInv
  <1>6. there \in BOOLEAN /\ Kv(db') = [j \in DOMAIN Kv(db') |-> Kv(db')[j]]
    BY AreFunctions
  <1> HIDE DEF there, v
  <1>7. Kv(db') = Altered(Kv(db), k, there, v)
    BY <1>4, <1>5, <1>6, AlteredFunction
  <1>8. /\ [m \in HNames |-> Hash(db', m)] = [m \in HNames |-> Hash(db, m)]
        /\ [m \in ZNames |-> Zset(db', m)] = [m \in ZNames |-> Zset(db, m)]
        /\ [m \in QNames |-> Queue(db', m)] = [m \in QNames |-> Queue(db, m)]
    BY <1>2
  <1>9. Contents(db') = [Contents(db) EXCEPT !.kv = Altered(Kv(db), k, there, v)]
    <2> DEFINE kv == Kv(db)
               hash == [m \in HNames |-> Hash(db, m)]
               zset == [m \in ZNames |-> Zset(db, m)]
               queue == [m \in QNames |-> Queue(db, m)]
               new == Altered(Kv(db), k, there, v)
    <2>1. Contents(db) = [kv |-> kv, hash |-> hash, zset |-> zset, queue |-> queue]
      BY DEF Contents
    <2>2. Contents(db') = [kv |-> new, hash |-> hash, zset |-> zset, queue |-> queue]
      BY <1>7, <1>8 DEF Contents
    <2> HIDE DEF kv, hash, zset, queue, new
    <2>3. [Contents(db) EXCEPT !.kv = new]
            = [kv |-> new, hash |-> hash, zset |-> zset, queue |-> queue]
      BY ONLY <2>1
    <2>4. QED
      BY <2>2, <2>3 DEF new
  <1>10. QED
    BY <1>9 DEF there, v

\* What becomes of them when only plain values are written.
LEMMA KvOnly ==
    ASSUME IInv, IInv', \A x : IsEntry(x) /\ x[1] # KV => Stays(x), EndsStay
    PROVE  Contents(db') = [Contents(db) EXCEPT !.kv = Kv(db')]
  <1>1. /\ \A n, k : Stays(HashKey(n, k)) /\ Stays(ZsetKey(n, k))
        /\ \A n, s : Stays(QItemKey(n, s))
    <2>1. \A n, k : Stays(HashKey(n, k))
      BY DEF IsEntry, HashKey, HASH, KV
    <2>2. \A n, k : Stays(ZsetKey(n, k))
      BY DEF IsEntry, ZsetKey, ZSET, KV
    <2>3. \A n, s : s \notin {QFRONT, QBACK} => Stays(QItemKey(n, s))
      BY DEF IsEntry, QItemKey, QUEUE, KV
    <2>4. QED
      BY <2>1, <2>2, <2>3 DEF EndsStay
  <1>2. /\ \A n : Hash(db', n) = Hash(db, n) /\ Zset(db', n) = Zset(db, n)
        /\ \A n \in QNames : Queue(db', n) = Queue(db, n)
    BY <1>1, ObjectsStay
  <1>3. /\ [m \in HNames |-> Hash(db', m)] = [m \in HNames |-> Hash(db, m)]
        /\ [m \in ZNames |-> Zset(db', m)] = [m \in ZNames |-> Zset(db, m)]
        /\ [m \in QNames |-> Queue(db', m)] = [m \in QNames |-> Queue(db, m)]
    BY <1>2
  <1> DEFINE kv == Kv(db)
             hash == [m \in HNames |-> Hash(db, m)]
             zset == [m \in ZNames |-> Zset(db, m)]
             queue == [m \in QNames |-> Queue(db, m)]
             new == Kv(db')
  <1>4. Contents(db) = [kv |-> kv, hash |-> hash, zset |-> zset, queue |-> queue]
    BY DEF Contents
  <1>5. Contents(db') = [kv |-> new, hash |-> hash, zset |-> zset, queue |-> queue]
    BY <1>3 DEF Contents
  <1> HIDE DEF kv, hash, zset, queue, new
  <1>6. [Contents(db) EXCEPT !.kv = new]
          = [kv |-> new, hash |-> hash, zset |-> zset, queue |-> queue]
    BY ONLY <1>4
  <1>7. QED
    BY <1>5, <1>6 DEF new

LEMMA HashContents ==
    ASSUME IInv, IInv', NEW n \in HNames, NEW k, EntriesStay(HashKey(n, k)), EndsStay
    PROVE  LET there == HashKey(n, k) \in DOMAIN db'
           IN Contents(db') = [Contents(db) EXCEPT
                                 !.hash[n] = Altered(Hash(db, n), k, there, db'[HashKey(n, k)])]
  <1> DEFINE there == HashKey(n, k) \in DOMAIN db'
             v == db'[HashKey(n, k)]
  <1>1. /\ HashKey(n, k)[1] = HASH /\ HashKey(n, k)[2] = n
        /\ KV # HASH /\ HASH # ZSET /\ HASH # QUEUE
    BY DEF HashKey, KV, HASH, ZSET, QUEUE
  <1>2. /\ Kv(db') = Kv(db)
        /\ \A m : m # n => Hash(db', m) = Hash(db, m)
        /\ \A m : Zset(db', m) = Zset(db, m)
        /\ \A m \in QNames : Queue(db', m) = Queue(db, m)
    BY <1>1, OthersStay DEF EndsStay
  <1>3. \A j : j # k => Stays(HashKey(n, j))
    BY <1>1 DEF EntriesStay, IsEntry, HashKey
  <1>4. \A j : j # k => /\ j \in DOMAIN Hash(db', n) <=> j \in DOMAIN Hash(db, n)
                        /\ j \in DOMAIN Hash(db, n) => Hash(db', n)[j] = Hash(db, n)[j]
    BY <1>3, HashMember DEF Stays, IInv
  <1>5. /\ k \in DOMAIN Hash(db', n) <=> there
        /\ there => Hash(db', n)[k] = v
    BY HashMember DEF IInv
  <1>6. there \in BOOLEAN /\ Hash(db', n) = [j \in DOMAIN Hash(db', n) |-> Hash(db', n)[j]]
    BY AreFunctions
  <1> HIDE DEF there, v
  <1>7. Hash(db', n) = Altered(Hash(db, n), k, there, v)
    BY <1>4, <1>5, <1>6, AlteredFunction
  <1>8. [m \in HNames |-> Hash(db', m)]
          = [[m \in HNames |-> Hash(db, m)] EXCEPT ![n] = Altered(Hash(db, n), k, there, v)]
    BY <1>2, <1>7
  <1>9. /\ [m \in ZNames |-> Zset(db', m)] = [m \in ZNames |-> Zset(db, m)]
        /\ [m \in QNames |-> Queue(db', m)] = [m \in QNames |-> Queue(db, m)]
    BY <1>2
  <1>10. Contents(db') = [Contents(db) EXCEPT !.hash[n] = Altered(Hash(db, n), k, there, v)]
    <2> DEFINE kv == Kv(db)
               hash == [m \in HNames |-> Hash(db, m)]
               zset == [m \in ZNames |-> Zset(db, m)]
               queue == [m \in QNames |-> Queue(db, m)]
               new == Altered(Hash(db, n), k, there, v)
    <2>1. Contents(db) = [kv |-> kv, hash |-> hash, zset |-> zset, queue |-> queue]
      BY DEF Contents
    <2>2. Contents(db') = [kv |-> kv, hash |-> [hash EXCEPT ![n] = new], zset |-> zset, queue |-> queue]
      BY <1>2, <1>8, <1>9 DEF Contents
    <2> HIDE DEF kv, hash, zset, queue, new
    <2>3. [Contents(db) EXCEPT !.hash[n] = new]
            = [kv |-> kv, hash |-> [hash EXCEPT ![n] = new], zset |-> zset, queue |-> queue]
      BY ONLY <2>1
    <2>4. QED
      BY <2>2, <2>3 DEF new
  <1>11. QED
    BY <1>10 DEF there, v

LEMMA ZsetContents ==
    ASSUME IInv, IInv', NEW n \in ZNames, NEW k, EntriesStay(ZsetKey(n, k)), EndsStay
    PROVE  LET there == ZsetKey(n, k) \in DOMAIN db'
           IN Contents(db') = [Contents(db) EXCEPT
                                 !.zset[n] = Altered(Zset(db, n), k, there, db'[ZsetKey(n, k)])]
  <1> DEFINE there == ZsetKey(n, k) \in DOMAIN db'
             v == db'[ZsetKey(n, k)]
  <1>1. /\ ZsetKey(n, k)[1] = ZSET /\ ZsetKey(n, k)[2] = n
        /\ KV # ZSET /\ HASH # ZSET /\ ZSET # QUEUE
    BY DEF ZsetKey, KV, HASH, ZSET, QUEUE
  <1>2. /\ Kv(db') = Kv(db)
        /\ \A m : Hash(db', m) = Hash(db, m)
        /\ \A m : m # n => Zset(db', m) = Zset(db, m)
        /\ \A m \in QNames : Queue(db', m) = Queue(db, m)
    BY <1>1, OthersStay DEF EndsStay
  <1>3. \A j : j # k => Stays(ZsetKey(n, j))
    BY <1>1 DEF EntriesStay, IsEntry, ZsetKey
  <1>4. \A j : j # k => /\ j \in DOMAIN Zset(db', n) <=> j \in DOMAIN Zset(db, n)
                        /\ j \in DOMAIN Zset(db, n) => Zset(db', n)[j] = Zset(db, n)[j]
    BY <1>3, ZsetMember DEF Stays, IInv
  <1>5. /\ k \in DOMAIN Zset(db', n) <=> there
        /\ there => Zset(db', n)[k] = v
    BY ZsetMember DEF IInv
  <1>6. there \in BOOLEAN /\ Zset(db', n) = [j \in DOMAIN Zset(db', n) |-> Zset(db', n)[j]]
    BY AreFunctions
  <1> HIDE DEF there, v
  <1>7. Zset(db', n) = Altered(Zset(db, n), k, there, v)
    BY <1>4, <1>5, <1>6, AlteredFunction
  <1>8. [m \in ZNames |-> Zset(db', m)]
          = [[m \in ZNames |-> Zset(db, m)] EXCEPT ![n] = Altered(Zset(db, n), k, there, v)]
    BY <1>2, <1>7
  <1>9. /\ [m \in HNames |-> Hash(db', m)] = [m \in HNames |-> Hash(db, m)]
        /\ [m \in QNames |-> Queue(db', m)] = [m \in QNames |-> Queue(db, m)]
    BY <1>2
  <1>10. Contents(db') = [Contents(db) EXCEPT !.zset[n] = Altered(Zset(db, n), k, there, v)]
    <2> DEFINE kv == Kv(db)
               hash == [m \in HNames |-> Hash(db, m)]
               zset == [m \in ZNames |-> Zset(db, m)]
               queue == [m \in QNames |-> Queue(db, m)]
               new == Altered(Zset(db, n), k, there, v)
    <2>1. Contents(db) = [kv |-> kv, hash |-> hash, zset |-> zset, queue |-> queue]
      BY DEF Contents
    <2>2. Contents(db') = [kv |-> kv, hash |-> hash, zset |-> [zset EXCEPT ![n] = new], queue |-> queue]
      BY <1>2, <1>8, <1>9 DEF Contents
    <2> HIDE DEF kv, hash, zset, queue, new
    <2>3. [Contents(db) EXCEPT !.zset[n] = new]
            = [kv |-> kv, hash |-> hash, zset |-> [zset EXCEPT ![n] = new], queue |-> queue]
      BY ONLY <2>1
    <2>4. QED
      BY <2>2, <2>3 DEF new
  <1>11. QED
    BY <1>10 DEF there, v

-----------------------------------------------------------------------------
(* What a transaction answers and does.                                    *)

LEMMA PromiseKept ==
    ASSUME answer'.sure = TRUE,
           Promised(answer'.call, answer'.ret, answer'.item, Contents(db), Contents(db'),
                    errors' = errors)
    PROVE  AnswerRight
  <1>1. (IF db' = db THEN Contents(db) ELSE Contents(db')) = Contents(db')
    OBVIOUS
  <1>2. QED
    BY <1>1 DEF AnswerRight

LEMMA BatchStay ==
    ASSUME NEW B, NEW y, ChangesBy(B), Safe(B, y)
    PROVE  EntriesStay(y)
  <1>1. \A x : IsEntry(x) => x[1] # SYNCLOG
    BY DEF IsEntry, KV, HASH, ZSET, QUEUE, SYNCLOG
  <1>2. QED
    BY <1>1 DEF ChangesBy, Safe, EntriesStay

LEMMA FrameEnds ==
    ASSUME NEW types, NEW n, Frame(types, n), QUEUE \notin types
    PROVE  EndsStay
  <1>1. \A m, s : QItemKey(m, s)[1] = QUEUE /\ QUEUE \in ObjectKeys
    BY DEF QItemKey, ObjectKeys, QueueKeys
  <1>2. QED
    BY <1>1 DEF Frame, EndsStay

\* A transaction whose body comes to o is answered so, with the read or write
\* f failing, and writes its batch or nothing.
Outcome(o, f) ==
    /\ answer'.item = o.item /\ answer'.sure = TRUE
    /\ (errors' = errors) = (f = "none")
    /\ IF o.commits /\ f # "write" THEN answer'.ret = o.ret /\ ChangesBy(o.batch)
       ELSE db' = db /\ answer'.ret = IF o.commits THEN -1 ELSE o.ret

LEMMA TransactOutcome ==
    ASSUME IInv, errors \in Nat, NEW call, NEW o, NEW f, Transact(call, o, f),
           NEW types, NEW n, Works(o, types, n)
    PROVE  /\ answer'.call = call /\ Outcome(o, f)
           /\ o.commits /\ f # "write" => Frame(types, n)
  <1>1. /\ answer'.call = call /\ answer'.item = o.item /\ answer'.sure = TRUE
        /\ answer'.ret = IF o.commits /\ ~(o.commits /\ f # "write") THEN -1 ELSE o.ret
        /\ errors' = IF f = "none" THEN errors ELSE errors + 1
        /\ ~(o.commits /\ f # "write") => db' = db
    BY DEF Transact
  <1>2. (errors' = errors) = (f = "none")
    BY <1>1
  <1> DEFINE S == {o.batch[i] : i \in DOMAIN o.batch}
             T == {o.logs[i] : i \in DOMAIN o.logs}
  <1>3. o.commits => o.batch \in Seq(S) /\ o.logs \in Seq(T)
    BY DEF Works, Batch, IsSeq
  <1> HIDE DEF S, T
  <1>4. ASSUME o.commits, f # "write" PROVE ChangesBy(o.batch)
    BY <1>3, <1>4, TransactWrites
  <1>5. o.commits => OnlyAt(o.batch, types, n)
    BY DEF Works, Batch
  <1>6. o.commits /\ f # "write" => Frame(types, n)
    BY <1>4, <1>5, BatchFrame DEF IInv
  <1>7. QED
    BY <1>1, <1>2, <1>4, <1>6 DEF Outcome

LEMMA ContentsAt ==
    ASSUME NEW d
    PROVE  /\ Contents(d).kv = Kv(d)
           /\ \A n \in HNames : Contents(d).hash[n] = Hash(d, n)
           /\ \A n \in ZNames : Contents(d).zset[n] = Zset(d, n)
           /\ \A n \in QNames : Contents(d).queue[n] = Queue(d, n)
  BY DEF Contents

\* An operation that writes at most the entry y, or fails.
LEMMA EntryOutcome ==
    ASSUME NEW o, NEW f, Outcome(o, f), NEW y, NEW types, NEW n, QUEUE \notin types,
           o.commits /\ f # "write" => Safe(o.batch, y) /\ Frame(types, n)
    PROVE  EntriesStay(y) /\ EndsStay
  <1>1. CASE o.commits /\ f # "write"
    <2>1. ChangesBy(o.batch) /\ Safe(o.batch, y) /\ Frame(types, n)
      BY <1>1 DEF Outcome
    <2>2. QED
      BY <2>1, BatchStay, FrameEnds
  <1>2. CASE ~(o.commits /\ f # "write")
    <2>1. db' = db
      BY <1>2 DEF Outcome
    <2>2. QED
      BY <2>1 DEF EntriesStay, EndsStay, Stays
  <1>3. QED
    BY <1>1, <1>2

\* What is left under y by a batch of one.
LEMMA OneWrites ==
    ASSUME NEW a, ChangesBy(<<a>>), a.key[1] # SYNCLOG
    PROVE  (a.key \in DOMAIN db' <=> a.keep) /\ (a.keep => db'[a.key] = a.value)
  <1>1. Writes(<<a>>, a.key, a)
    BY OneBatch
  <1>2. QED
    BY <1>1 DEF ChangesBy

-----------------------------------------------------------------------------
(* Plain values.                                                           *)

LEMMA StoreDone ==
    ASSUME IInv, IInv', NEW k, NEW v, NEW o, NEW f, Outcome(o, f), o.commits, f # "write",
           o.batch = <<Put(KvKey(k), v)>>, Frame({}, Nothing)
    PROVE  Contents(db') = [Contents(db) EXCEPT !.kv = With(Kv(db), k, v)]
  <1> DEFINE p == Put(KvKey(k), v)  x == KvKey(k)
  <1>1. p.key = x /\ p.keep = TRUE /\ p.value = v /\ x[1] # SYNCLOG
    BY EntryKeys DEF Put
  <1>2. o.batch = <<p>> /\ ChangesBy(o.batch)
    BY DEF Outcome
  <1> HIDE DEF p, x
  <1>3. x \in DOMAIN db' /\ db'[x] = v
    BY <1>1, <1>2, OneWrites
  <1>4. EntriesStay(x) /\ EndsStay
    BY <1>1, <1>2, SafeOne, EntryOutcome
  <1>5. QED
    BY <1>3, <1>4, KvContents DEF Altered, x

LEMMA DelDone ==
    ASSUME IInv, IInv', NEW k, NEW o, NEW f, Outcome(o, f), o.commits, f # "write",
           o.batch = <<Delete(KvKey(k))>>, Frame({}, Nothing)
    PROVE  Contents(db') = [Contents(db) EXCEPT !.kv = Without(Kv(db), k)]
  <1> DEFINE p == Delete(KvKey(k))  x == KvKey(k)
  <1>1. p.key = x /\ p.keep = FALSE /\ x[1] # SYNCLOG
    BY EntryKeys DEF Delete
  <1>2. o.batch = <<p>> /\ ChangesBy(o.batch)
    BY DEF Outcome
  <1> HIDE DEF p, x
  <1>3. x \notin DOMAIN db'
    BY <1>1, <1>2, OneWrites
  <1>4. EntriesStay(x) /\ EndsStay
    BY <1>1, <1>2, SafeOne, EntryOutcome
  <1>5. QED
    BY <1>3, <1>4, KvContents DEF Altered, x

\* What the commands of plain values promise, by name.
LEMMA KvPromises ==
    ASSUME NEW k, NEW v, NEW ret, NEW item, NEW b, NEW a, NEW fine
    PROVE  /\ /\ fine /\ k \in Keys => ret = 1
              /\ IF ret = 1 THEN a = [b EXCEPT !.kv = With(b.kv, k, v)] ELSE a = b
              => Promised(<<"set", k, v>>, ret, item, b, a, fine)
           /\ /\ fine /\ k \in Keys => ret = 1 - Had(b.kv, k)
              /\ ret = 1 => Had(b.kv, k) = 0
              /\ IF ret = 1 THEN a = [b EXCEPT !.kv = With(b.kv, k, v)] ELSE a = b
              => Promised(<<"setnx", k, v>>, ret, item, b, a, fine)
           /\ /\ a = b \/ a = [b EXCEPT !.kv = With(b.kv, k, v)]
              /\ ret = 1 => item = b.kv[k]
              /\ fine /\ k \in Keys => /\ ret = Had(b.kv, k)
                                       /\ a = [b EXCEPT !.kv = With(b.kv, k, v)]
              => Promised(<<"getset", k, v>>, ret, item, b, a, fine)
           /\ /\ fine /\ k \in Keys => ret = 1
              /\ IF ret = 1 THEN a = [b EXCEPT !.kv = Without(b.kv, k)] ELSE a = b
              => Promised(<<"del", k>>, ret, item, b, a, fine)
           /\ (IF ret # 1 THEN a = b
               ELSE item = Sum(b.kv, k, v) /\ a = [b EXCEPT !.kv = With(b.kv, k, item)])
              => Promised(<<"incr", k, v>>, ret, item, b, a, fine)
  <1>1. /\ fine /\ k \in Keys => ret = 1
        /\ IF ret = 1 THEN a = [b EXCEPT !.kv = With(b.kv, k, v)] ELSE a = b
        => Promised(<<"set", k, v>>, ret, item, b, a, fine)
    BY DEF Promised
  <1>2. /\ fine /\ k \in Keys => ret = 1 - Had(b.kv, k)
        /\ ret = 1 => Had(b.kv, k) = 0
        /\ IF ret = 1 THEN a = [b EXCEPT !.kv = With(b.kv, k, v)] ELSE a = b
        => Promised(<<"setnx", k, v>>, ret, item, b, a, fine)
    BY DEF Promised
  <1>3. /\ a = b \/ a = [b EXCEPT !.kv = With(b.kv, k, v)]
        /\ ret = 1 => item = b.kv[k]
        /\ fine /\ k \in Keys => /\ ret = Had(b.kv, k)
                                 /\ a = [b EXCEPT !.kv = With(b.kv, k, v)]
        => Promised(<<"getset", k, v>>, ret, item, b, a, fine)
    BY DEF Promised
  <1>4. /\ fine /\ k \in Keys => ret = 1
        /\ IF ret = 1 THEN a = [b EXCEPT !.kv = Without(b.kv, k)] ELSE a = b
        => Promised(<<"del", k>>, ret, item, b, a, fine)
    BY DEF Promised
  <1>5. (IF ret # 1 THEN a = b
         ELSE item = Sum(b.kv, k, v) /\ a = [b EXCEPT !.kv = With(b.kv, k, item)])
        => Promised(<<"incr", k, v>>, ret, item, b, a, fine)
    BY DEF Promised
  <1>6. QED
    BY <1>1, <1>2, <1>3, <1>4, <1>5

\* Keys are neither the empty key nor the one too long.
LEMMA KeysNamed == \A k \in Keys : k # Empty /\ k # TooLong
  BY SsdbAssumption DEF Empty, TooLong

LEMMA FoundKv ==
    ASSUME IInv, NEW k
    PROVE  /\ k \in DOMAIN Kv(db) <=> KvKey(k) \in DOMAIN db
           /\ KvKey(k) \in DOMAIN db => Kv(db)[k] = db[KvKey(k)]
           /\ Found(KvKey(k), FALSE) = Had(Kv(db), k)
           /\ Found(KvKey(k), TRUE) = -1
           /\ Addend(KvKey(k)) = IF k \in DOMAIN Kv(db) THEN Kv(db)[k] ELSE 0
  <1>1. /\ k \in DOMAIN Kv(db) <=> KvKey(k) \in DOMAIN db
        /\ KvKey(k) \in DOMAIN db => Kv(db)[k] = db[KvKey(k)]
    BY KvMember DEF IInv
  <1>2. QED
    BY <1>1 DEF Found, Had, Addend

LEMMA SetAnswer ==
    ASSUME IInv, IInv', errors \in Nat, KvSet
    PROVE  AnswerRight
  <1>1. PICK k \in Named, v \in Values, f \in Faults({"write"}) :
          Operation(<<"set", k, v>>, Set(k, v), f)
    BY DEF KvSet
  <1> DEFINE o == Set(k, v)  call == <<"set", k, v>>
             a == Contents(db')  b == Contents(db)  fine == errors' = errors
             ret == answer'.ret  item == answer'.item
  <1>2. IF k = Empty THEN o = Return(0) ELSE IF k = TooLong THEN o = Return(-1)
        ELSE o = Store(k, v, 1)
    BY DEF Set
  <1>3. Works(o, {}, Nothing)
    BY <1>2, StoreWorks, ReturnWorks
  <1>4. /\ answer'.call = call /\ Outcome(o, f)
        /\ o.commits /\ f # "write" => Frame({}, Nothing)
    BY <1>1, <1>3, TransactOutcome DEF Operation
  <1>5. fine = (f = "none") /\ answer'.sure = TRUE
    BY <1>4 DEF Outcome
  <1>6. CASE o.commits /\ f # "write"
    <2>1. o.batch = <<Put(KvKey(k), v)>> /\ o.ret = 1
      BY <1>2, <1>6 DEF Store, Commit, Return
    <2>2. ret = 1
      BY <1>4, <1>6, <2>1 DEF Outcome
    <2>3. a = [b EXCEPT !.kv = With(b.kv, k, v)]
      BY <1>4, <1>6, <2>1, StoreDone, ContentsAt
    <2> HIDE DEF o, a, b, fine, ret, item
    <2>4. Promised(call, ret, item, b, a, fine)
      BY <2>2, <2>3, KvPromises
    <2>5. QED
      BY <1>4, <1>5, <2>4, PromiseKept DEF a, b, fine, ret, item
  <1>7. CASE ~(o.commits /\ f # "write")
    <2>1. a = b
      BY <1>4, <1>7 DEF Outcome
    <2>2. ret # 1 /\ (k \in Keys => f # "none")
      BY <1>2, <1>4, <1>7, KeysNamed DEF Outcome, Store, Commit, Return
    <2> HIDE DEF o, a, b, ret, item
    <2>3. Promised(call, ret, item, b, a, fine)
      BY <1>5, <2>1, <2>2, KvPromises
    <2>4. QED
      BY <1>4, <1>5, <2>3, PromiseKept DEF a, b, ret, item
  <1>8. QED
    BY <1>6, <1>7

LEMMA SetnxAnswer ==
    ASSUME IInv, IInv', errors \in Nat, KvSetnx
    PROVE  AnswerRight
  <1>1. PICK k \in Named, v \in Values, f \in Faults({"entry", "write"}) :
          Operation(<<"setnx", k, v>>, Setnx(k, v, f), f)
    BY DEF KvSetnx
  <1> DEFINE o == Setnx(k, v, f)  call == <<"setnx", k, v>>
             a == Contents(db')  b == Contents(db)  fine == errors' = errors
             ret == answer'.ret  item == answer'.item
             found == Found(KvKey(k), f = "entry")
  <1>2. IF k = Empty THEN o = Return(0) ELSE IF k = TooLong THEN o = Return(-1)
        ELSE IF found # 0 THEN o = Return(0) ELSE o = Store(k, v, 1)
    BY DEF Setnx
  <1>3. Works(o, {}, Nothing)
    BY <1>2, StoreWorks, ReturnWorks
  <1>4. /\ answer'.call = call /\ Outcome(o, f)
        /\ o.commits /\ f # "write" => Frame({}, Nothing)
    BY <1>1, <1>3, TransactOutcome DEF Operation
  <1>5. fine = (f = "none") /\ answer'.sure = TRUE
    BY <1>4 DEF Outcome
  <1>6. Had(b.kv, k) \in {0, 1} /\ (f # "entry" => found = Had(b.kv, k))
        /\ (f = "entry" => found = -1)
    <2>1. (f = "entry") \in BOOLEAN
      OBVIOUS
    <2>2. QED
      BY <2>1, FoundKv, ContentsAt DEF Had
  <1> HIDE DEF found
  <1>7. CASE o.commits /\ f # "write"
    <2>1. o.batch = <<Put(KvKey(k), v)>> /\ o.ret = 1 /\ found = 0
      BY <1>2, <1>7 DEF Store, Commit, Return
    <2>2. ret = 1
      BY <1>4, <1>7, <2>1 DEF Outcome
    <2>3. a = [b EXCEPT !.kv = With(b.kv, k, v)]
      BY <1>4, <1>7, <2>1, StoreDone, ContentsAt
    <2>4. Had(b.kv, k) = 0 /\ ret = 1 - Had(b.kv, k)
      BY <1>6, <2>1, <2>2
    <2> HIDE DEF o, a, b, fine, ret, item
    <2>5. Promised(call, ret, item, b, a, fine)
      BY <2>2, <2>3, <2>4, KvPromises
    <2>6. QED
      BY <1>4, <1>5, <2>5, PromiseKept DEF a, b, fine, ret, item
  <1>8. CASE ~(o.commits /\ f # "write")
    <2>1. a = b
      BY <1>4, <1>8 DEF Outcome
    <2>2. ret # 1 /\ (k \in Keys /\ f = "none" => found # 0 /\ ret = 0)
      BY <1>2, <1>4, <1>8, KeysNamed DEF Outcome, Store, Commit, Return
    <2>3. k \in Keys /\ f = "none" => ret = 1 - Had(b.kv, k)
      BY <1>6, <2>2
    <2> HIDE DEF o, a, b, ret, item
    <2>4. Promised(call, ret, item, b, a, fine)
      BY <1>5, <2>1, <2>2, <2>3, KvPromises
    <2>5. QED
      BY <1>4, <1>5, <2>4, PromiseKept DEF a, b, ret, item
  <1>9. QED
    BY <1>7, <1>8

LEMMA GetsetAnswer ==
    ASSUME IInv, IInv', errors \in Nat, KvGetset
    PROVE  AnswerRight
  <1>1. PICK k \in Named, v \in Values, f \in Faults({"entry", "write"}) :
          Operation(<<"getset", k, v>>, Getset(k, v, f), f)
    BY DEF KvGetset
  <1> DEFINE found == Found(KvKey(k), f = "entry")
             old == IF found = 1 THEN db[KvKey(k)] ELSE Nothing
             s == Store(k, v, found)
             stored == [s EXCEPT !.item = old]
             o == Getset(k, v, f)  call == <<"getset", k, v>>
             a == Contents(db')  b == Contents(db)  fine == errors' = errors
             ret == answer'.ret  item == answer'.item
  <1>2. IF k = Empty THEN o = Return(0) ELSE IF k = TooLong THEN o = Return(-1)
        ELSE o = stored
    BY DEF Getset
  <1>3. /\ s = [commits |-> TRUE, batch |-> <<Put(KvKey(k), v)>>,
                logs |-> <<Log("KSET", KvKey(k))>>, ret |-> found,
                item |-> Nothing, misread |-> {}]
        /\ Works(s, {}, Nothing)
    BY StoreWorks DEF Store, Commit
  <1> HIDE DEF found, old, s
  <1>4. /\ Works(stored, {}, Nothing) /\ stored.commits /\ stored.ret = found
        /\ stored.item = old /\ stored.batch = <<Put(KvKey(k), v)>>
    <2>1. s = [commits |-> s.commits, batch |-> s.batch, logs |-> s.logs, ret |-> s.ret,
               item |-> s.item, misread |-> s.misread]
      BY <1>3
    <2>2. Works(stored, {}, Nothing)
      BY <1>3, <2>1, ItemWorks
    <2>3. QED
      BY <1>3, <2>2
  <1> HIDE DEF stored
  <1>5. Works(o, {}, Nothing)
    BY <1>2, <1>4, ReturnWorks
  <1>6. /\ answer'.call = call /\ Outcome(o, f)
        /\ o.commits /\ f # "write" => Frame({}, Nothing)
    BY <1>1, <1>5, TransactOutcome DEF Operation
  <1>7. fine = (f = "none") /\ answer'.sure = TRUE
    BY <1>6 DEF Outcome
  <1>8. /\ f # "entry" => found = Had(b.kv, k)
        /\ f = "entry" => found = -1
        /\ found = 1 => old = b.kv[k]
    <2>1. (f = "entry") \in BOOLEAN
      OBVIOUS
    <2>2. f # "entry" => found = Had(b.kv, k)
      BY <2>1, FoundKv, ContentsAt DEF found
    <2>3. f = "entry" => found = -1
      BY FoundKv DEF found
    <2>4. found = 1 => k \in DOMAIN b.kv
      BY <2>2, <2>3 DEF Had
    <2>5. found = 1 => old = b.kv[k]
      BY <2>4, FoundKv, ContentsAt DEF old
    <2>6. QED
      BY <2>2, <2>3, <2>5
  <1>9. CASE o.commits /\ f # "write"
    <2>1. o = stored
      BY <1>2, <1>9 DEF Return
    <2>2. ret = found /\ item = old
      BY <1>4, <1>6, <1>9, <2>1 DEF Outcome
    <2>3. a = [b EXCEPT !.kv = With(b.kv, k, v)]
      BY <1>4, <1>6, <1>9, <2>1, StoreDone, ContentsAt
    <2> HIDE DEF o, a, b, ret, item
    <2>4. Promised(call, ret, item, b, a, fine)
      BY <1>7, <1>8, <2>2, <2>3, KvPromises
    <2>5. QED
      BY <1>6, <1>7, <2>4, PromiseKept DEF a, b, ret, item
  <1>10. CASE ~(o.commits /\ f # "write")
    <2>1. a = b
      BY <1>6, <1>10 DEF Outcome
    <2>2. ret # 1 /\ (k \in Keys => f # "none")
      BY <1>2, <1>4, <1>6, <1>10, KeysNamed DEF Outcome, Return
    <2> HIDE DEF o, a, b, ret, item
    <2>3. Promised(call, ret, item, b, a, fine)
      BY <1>7, <2>1, <2>2, KvPromises
    <2>4. QED
      BY <1>6, <1>7, <2>3, PromiseKept DEF a, b, ret, item
  <1>11. QED
    BY <1>9, <1>10

LEMMA DelWorks ==
    ASSUME NEW k
    PROVE  /\ Works(Del(k), {}, Nothing)
           /\ k = TooLong => Del(k) = Return(-1)
           /\ k # TooLong => /\ Del(k).commits /\ Del(k).ret = 1
                             /\ Del(k).batch = <<Delete(KvKey(k))>>
  <1> DEFINE p == Delete(KvKey(k))
             o == Commit(<<p>>, <<Log("KDEL", KvKey(k))>>, 1)
  <1>1. o.batch = <<p>> /\ o.logs = <<Log("KDEL", KvKey(k))>> /\ o.commits /\ o.ret = 1
    BY DEF Commit
  <1>2. p.key = KvKey(k)
    BY DEF Delete
  <1>3. IF k = TooLong THEN Del(k) = Return(-1) ELSE Del(k) = o
    BY DEF Del
  <1> HIDE DEF o
  <1>4. Batch(<<p>>, {}, Nothing)
    <2> HIDE DEF p
    <2>1. QED
      BY <1>2, KvKeyAt, OneIsBatch
  <1>5. Works(o, {}, Nothing)
    BY <1>1, <1>4, OneIsSeq DEF Works
  <1>6. QED
    BY <1>1, <1>3, <1>5, ReturnWorks

LEMMA DelAnswer ==
    ASSUME IInv, IInv', errors \in Nat, KvDel
    PROVE  AnswerRight
  <1>1. PICK k \in Keys \cup {TooLong}, f \in Faults({"write"}) :
          Operation(<<"del", k>>, Del(k), f)
    BY DEF KvDel
  <1> DEFINE o == Del(k)  call == <<"del", k>>
             a == Contents(db')  b == Contents(db)  fine == errors' = errors
             ret == answer'.ret  item == answer'.item
  <1>2. /\ answer'.call = call /\ Outcome(o, f)
        /\ o.commits /\ f # "write" => Frame({}, Nothing)
    BY <1>1, DelWorks, TransactOutcome DEF Operation
  <1>3. fine = (f = "none") /\ answer'.sure = TRUE
    BY <1>2 DEF Outcome
  <1>4. CASE o.commits /\ f # "write"
    <2>1. o.batch = <<Delete(KvKey(k))>> /\ o.ret = 1
      BY <1>4, DelWorks DEF Return
    <2>2. ret = 1
      BY <1>2, <1>4, <2>1 DEF Outcome
    <2>3. a = [b EXCEPT !.kv = Without(b.kv, k)]
      BY <1>2, <1>4, <2>1, DelDone, ContentsAt
    <2> HIDE DEF o, a, b, fine, ret, item
    <2>4. Promised(call, ret, item, b, a, fine)
      BY <2>2, <2>3, KvPromises
    <2>5. QED
      BY <1>2, <1>3, <2>4, PromiseKept DEF a, b, fine, ret, item
  <1>5. CASE ~(o.commits /\ f # "write")
    <2>1. a = b
      BY <1>2, <1>5 DEF Outcome
    <2>2. ret # 1 /\ (k \in Keys => f # "none")
      BY <1>2, <1>5, DelWorks, KeysNamed DEF Outcome, Return
    <2> HIDE DEF o, a, b, ret, item
    <2>3. Promised(call, ret, item, b, a, fine)
      BY <1>3, <2>1, <2>2, KvPromises
    <2>4. QED
      BY <1>2, <1>3, <2>3, PromiseKept DEF a, b, ret, item
  <1>6. QED
    BY <1>4, <1>5

LEMMA IncrAnswer ==
    ASSUME IInv, IInv', errors \in Nat, KvIncr
    PROVE  AnswerRight
  <1>1. PICK k \in Keys \cup {TooLong}, by \in {-1, 1}, f \in Faults({"entry", "write"}) :
          Operation(<<"incr", k, by>>, Incr(k, by, f), f)
    BY DEF KvIncr
  <1> DEFINE sum == Addend(KvKey(k)) + by
             s == Store(k, sum, 1)
             stored == [s EXCEPT !.item = sum]
             o == Incr(k, by, f)  call == <<"incr", k, by>>
             a == Contents(db')  b == Contents(db)  fine == errors' = errors
             ret == answer'.ret  item == answer'.item
  <1>2. o = Return(-1) \/ o = Return(0) \/ o = stored
    BY DEF Incr
  <1>3. /\ s = [commits |-> TRUE, batch |-> <<Put(KvKey(k), sum)>>,
                logs |-> <<Log("KSET", KvKey(k))>>, ret |-> 1,
                item |-> Nothing, misread |-> {}]
        /\ Works(s, {}, Nothing)
    BY StoreWorks DEF Store, Commit
  <1>4. sum = Sum(b.kv, k, by)
    BY FoundKv, ContentsAt DEF Sum
  <1> HIDE DEF sum, s
  <1>5. /\ Works(stored, {}, Nothing) /\ stored.commits /\ stored.ret = 1
        /\ stored.item = sum /\ stored.batch = <<Put(KvKey(k), sum)>>
    <2>1. s = [commits |-> s.commits, batch |-> s.batch, logs |-> s.logs, ret |-> s.ret,
               item |-> s.item, misread |-> s.misread]
      BY <1>3
    <2>2. Works(stored, {}, Nothing)
      BY <1>3, <2>1, ItemWorks
    <2>3. QED
      BY <1>3, <2>2
  <1> HIDE DEF stored
  <1>6. Works(o, {}, Nothing)
    BY <1>2, <1>5, ReturnWorks
  <1>7. /\ answer'.call = call /\ Outcome(o, f)
        /\ o.commits /\ f # "write" => Frame({}, Nothing)
    BY <1>1, <1>6, TransactOutcome DEF Operation
  <1>8. answer'.sure = TRUE
    BY <1>7 DEF Outcome
  <1>9. CASE o.commits /\ f # "write"
    <2>1. o = stored
      BY <1>2, <1>9 DEF Return
    <2>2. ret = 1 /\ item = sum
      BY <1>5, <1>7, <1>9, <2>1 DEF Outcome
    <2>3. a = [b EXCEPT !.kv = With(b.kv, k, sum)]
      BY <1>5, <1>7, <1>9, <2>1, StoreDone, ContentsAt
    <2> HIDE DEF o, a, b, ret, item, fine
    <2>4. Promised(call, ret, item, b, a, fine)
      BY <1>4, <2>2, <2>3, KvPromises
    <2>5. QED
      BY <1>7, <1>8, <2>4, PromiseKept DEF a, b, ret, item, fine
  <1>10. CASE ~(o.commits /\ f # "write")
    <2>1. a = b
      BY <1>7, <1>10 DEF Outcome
    <2>2. ret # 1
      BY <1>2, <1>5, <1>7, <1>10 DEF Outcome, Return
    <2> HIDE DEF o, a, b, ret, item, fine
    <2>3. Promised(call, ret, item, b, a, fine)
      BY <2>1, <2>2, KvPromises
    <2>4. QED
      BY <1>7, <1>8, <2>3, PromiseKept DEF a, b, ret, item, fine
  <1>11. QED
    BY <1>9, <1>10

\* What a batch of plain values leaves.
LEMMA KvBatch ==
    ASSUME IInv, IInv', NEW B, ChangesBy(B), Frame({}, Nothing),
           \A i \in DOMAIN B : B[i].key[1] = KV
    PROVE  /\ Contents(db') = [Contents(db) EXCEPT !.kv = Kv(db')]
           /\ \A k : Untouched(B, KvKey(k)) =>
                /\ k \in DOMAIN Kv(db') <=> k \in DOMAIN Kv(db)
                /\ k \in DOMAIN Kv(db) => Kv(db')[k] = Kv(db)[k]
           /\ \A k, e : Writes(B, KvKey(k), e) =>
                /\ k \in DOMAIN Kv(db') <=> e.keep
                /\ e.keep => Kv(db')[k] = e.value
  <1>1. \A x : IsEntry(x) /\ x[1] # KV => Stays(x)
    <2>1. ASSUME NEW x, IsEntry(x), x[1] # KV PROVE Stays(x)
      <3>1. Untouched(B, x) /\ x[1] # SYNCLOG
        BY <2>1 DEF Untouched, IsEntry, HASH, ZSET, QUEUE, SYNCLOG
      <3>2. QED
        BY <3>1 DEF ChangesBy
    <2>2. QED
      BY <2>1
  <1>2. EndsStay
    BY FrameEnds
  <1>3. Contents(db') = [Contents(db) EXCEPT !.kv = Kv(db')]
    BY <1>1, <1>2, KvOnly
  <1>4. ASSUME NEW k, Untouched(B, KvKey(k))
        PROVE  /\ k \in DOMAIN Kv(db') <=> k \in DOMAIN Kv(db)
               /\ k \in DOMAIN Kv(db) => Kv(db')[k] = Kv(db)[k]
    <2>1. Stays(KvKey(k))
      BY <1>4, EntryKeys DEF ChangesBy
    <2>2. QED
      BY <2>1, KvMember DEF Stays, IInv
  <1>5. ASSUME NEW k, NEW e, Writes(B, KvKey(k), e)
        PROVE  /\ k \in DOMAIN Kv(db') <=> e.keep
               /\ e.keep => Kv(db')[k] = e.value
    <2>1. (KvKey(k) \in DOMAIN db' <=> e.keep) /\ (e.keep => db'[KvKey(k)] = e.value)
      BY <1>5, EntryKeys DEF ChangesBy
    <2>2. QED
      BY <2>1, KvMember DEF IInv
  <1>6. QED
    BY <1>3, <1>4, <1>5

LEMMA KvKeysDiffer == \A j, k : KvKey(j) = KvKey(k) => j = k
  BY DEF KvKey

LEMMA MultiSetDone ==
    ASSUME IInv, IInv', NEW kvs \in Seq(Int \X Values), NEW B,
           B = [i \in DOMAIN kvs |-> Put(KvKey(kvs[i][1]), kvs[i][2])],
           ChangesBy(B), Frame({}, Nothing)
    PROVE  Contents(db') = [Contents(db) EXCEPT !.kv = WithAll(Kv(db), kvs)]
  <1> DEFINE given == {kvs[i][1] : i \in DOMAIN kvs}
             places(k) == {i \in DOMAIN kvs : kvs[i][1] = k}
             final(k) == kvs[Max(places(k))][2]
             f == Kv(db)  g == Kv(db')  h == WithAll(f, kvs)
  <1>1. DOMAIN kvs = 1 .. Len(kvs) /\ Len(kvs) \in Nat
    BY LenProperties
  <1>2. /\ DOMAIN B = DOMAIN kvs
        /\ \A i \in DOMAIN B : /\ B[i].key = KvKey(kvs[i][1])
                               /\ B[i].keep = TRUE /\ B[i].value = kvs[i][2]
    BY DEF Put
  <1>3. /\ Contents(db') = [Contents(db) EXCEPT !.kv = g]
        /\ \A k : Untouched(B, KvKey(k)) =>
             (k \in DOMAIN g <=> k \in DOMAIN f) /\ (k \in DOMAIN f => g[k] = f[k])
        /\ \A k, e : Writes(B, KvKey(k), e) =>
             (k \in DOMAIN g <=> e.keep) /\ (e.keep => g[k] = e.value)
    <2>1. \A i \in DOMAIN B : B[i].key[1] = KV
      BY <1>2, KvKeyAt
    <2>2. QED
      BY <2>1, KvBatch
  <1>4. h = [k \in DOMAIN f \cup given |-> IF k \in given THEN final(k) ELSE f[k]]
    BY DEF WithAll
  <1>5. g = [k \in DOMAIN g |-> g[k]]
    BY AreFunctions
  <1> HIDE DEF f, g, h, final
  <1>6. ASSUME NEW k \in given PROVE k \in DOMAIN g /\ g[k] = final(k)
    <2> DEFINE m == Max(places(k))
    <2>1. places(k) # {} /\ places(k) \subseteq 1 .. Len(kvs)
      BY <1>1
    <2> HIDE DEF places
    <2>2. m \in places(k) /\ \A j \in places(k) : j <= m
      BY <1>1, <2>1, LastPlace
    <2>3. m \in DOMAIN B /\ B[m].key = KvKey(k)
      BY <1>2, <2>2 DEF places
    <2>4. \A j \in DOMAIN B : B[j].key = KvKey(k) => j <= m
      <3>1. ASSUME NEW j \in DOMAIN B, B[j].key = KvKey(k) PROVE j <= m
        <4>1. kvs[j][1] = k /\ j \in DOMAIN kvs
          BY <1>2, <3>1, KvKeysDiffer
        <4>2. j \in places(k)
          BY <4>1 DEF places
        <4>3. QED
          BY <2>2, <4>2
      <3>2. QED
        BY <3>1
    <2> DEFINE e == B[m]
    <2>5. Writes(B, KvKey(k), e)
      BY <2>3, <2>4 DEF Writes
    <2>6. e.keep /\ e.value = kvs[m][2]
      BY <1>2, <2>3
    <2> HIDE DEF e
    <2>7. k \in DOMAIN g /\ g[k] = kvs[m][2]
      BY <1>3, <2>5, <2>6
    <2>8. QED
      BY <2>7 DEF final
  <1>7. ASSUME NEW k, k \notin given
        PROVE  (k \in DOMAIN g <=> k \in DOMAIN f) /\ (k \in DOMAIN f => g[k] = f[k])
    <2>1. Untouched(B, KvKey(k))
      BY <1>2, <1>7, KvKeysDiffer DEF Untouched
    <2>2. QED
      BY <1>3, <2>1
  <1> HIDE DEF given
  <1>8. DOMAIN g = DOMAIN h
    BY <1>4, <1>6, <1>7
  <1>9. \A k \in DOMAIN g : g[k] = h[k]
    BY <1>4, <1>6, <1>7
  <1>10. h = [k \in DOMAIN h |-> h[k]]
    BY <1>4
  <1>11. g = h
    BY ONLY <1>5, <1>8, <1>9, <1>10, SameFunction
  <1>12. QED
    BY <1>3, <1>11 DEF h, f

LEMMA MultiDelDone ==
    ASSUME IInv, IInv', NEW k1, NEW k2, NEW B,
           B = [i \in DOMAIN <<k1, k2>> |-> Delete(KvKey(<<k1, k2>>[i]))],
           ChangesBy(B), Frame({}, Nothing)
    PROVE  Contents(db') = [Contents(db) EXCEPT !.kv = Without(Without(Kv(db), k1), k2)]
  <1> DEFINE f == Kv(db)  g == Kv(db')  h == Without(Without(f, k1), k2)
  <1>1. /\ DOMAIN B = 1 .. 2
        /\ B[1] = Delete(KvKey(k1)) /\ B[2] = Delete(KvKey(k2))
    OBVIOUS
  <1>2. /\ B[1].key = KvKey(k1) /\ B[1].keep = FALSE
        /\ B[2].key = KvKey(k2) /\ B[2].keep = FALSE
    BY <1>1 DEF Delete
  <1>3. \A i \in 1 .. 2 : i = 1 \/ i = 2
    OBVIOUS
  <1>4. /\ Contents(db') = [Contents(db) EXCEPT !.kv = g]
        /\ \A k : Untouched(B, KvKey(k)) =>
             (k \in DOMAIN g <=> k \in DOMAIN f) /\ (k \in DOMAIN f => g[k] = f[k])
        /\ \A k, e : Writes(B, KvKey(k), e) =>
             (k \in DOMAIN g <=> e.keep) /\ (e.keep => g[k] = e.value)
    <2>1. \A i \in DOMAIN B : B[i].key[1] = KV
      BY <1>1, <1>2, <1>3, KvKeyAt
    <2>2. QED
      BY ONLY IInv, IInv', ChangesBy(B), Frame({}, Nothing), <2>1, KvBatch
  <1>5. k2 \notin DOMAIN g
    <2> DEFINE e == B[2]
    <2>1. Writes(B, KvKey(k2), e)
      BY <1>1, <1>2 DEF Writes
    <2>2. e.keep = FALSE
      BY <1>2
    <2> HIDE DEF e
    <2>3. QED
      BY <1>4, <2>1, <2>2
  <1>6. k1 \notin DOMAIN g
    <2>1. CASE k1 = k2
      BY <1>5, <2>1
    <2>2. CASE k1 # k2
      <3> DEFINE e == B[1]
      <3>1. Writes(B, KvKey(k1), e)
        BY <1>1, <1>2, <1>3, <2>2, KvKeysDiffer DEF Writes
      <3>2. e.keep = FALSE
        BY <1>2
      <3> HIDE DEF e
      <3>3. QED
        BY <1>4, <3>1, <3>2
    <2>3. QED
      BY <2>1, <2>2
  <1>7. ASSUME NEW k, k # k1, k # k2
        PROVE  (k \in DOMAIN g <=> k \in DOMAIN f) /\ (k \in DOMAIN f => g[k] = f[k])
    <2>1. Untouched(B, KvKey(k))
      BY <1>1, <1>2, <1>3, <1>7, KvKeysDiffer DEF Untouched
    <2>2. QED
      BY <1>4, <2>1
  <1>8. g = [k \in DOMAIN g |-> g[k]]
    BY AreFunctions
  <1>9. /\ h = [k \in DOMAIN h |-> h[k]] /\ DOMAIN h = DOMAIN f \ {k1, k2}
        /\ \A k \in DOMAIN h : h[k] = f[k]
    BY DEF Without
  <1> HIDE DEF f, g, h
  <1>10. DOMAIN g = DOMAIN h /\ \A k \in DOMAIN g : g[k] = h[k]
    BY <1>5, <1>6, <1>7, <1>9
  <1>11. g = h
    BY ONLY <1>8, <1>9, <1>10, SameFunction
  <1>12. QED
    BY <1>4, <1>11 DEF h, f

LEMMA MultiPromises ==
    ASSUME NEW kvs, NEW k1, NEW k2, NEW ret, NEW item, NEW b, NEW a, NEW fine
    PROVE  /\ (IF ret = Len(kvs) THEN a = [b EXCEPT !.kv = WithAll(b.kv, kvs)] ELSE a = b)
              => Promised(<<"multi_set", kvs>>, ret, item, b, a, fine)
           /\ (IF ret = 2 THEN a = [b EXCEPT !.kv = Without(Without(b.kv, k1), k2)] ELSE a = b)
              => Promised(<<"multi_del", <<k1, k2>>>>, ret, item, b, a, fine)
  <1>1. (IF ret = Len(kvs) THEN a = [b EXCEPT !.kv = WithAll(b.kv, kvs)] ELSE a = b)
        => Promised(<<"multi_set", kvs>>, ret, item, b, a, fine)
    BY DEF Promised
  <1>2. (IF ret = 2 THEN a = [b EXCEPT !.kv = Without(Without(b.kv, k1), k2)] ELSE a = b)
        => Promised(<<"multi_del", <<k1, k2>>>>, ret, item, b, a, fine)
    BY DEF Promised
  <1>3. QED
    BY <1>1, <1>2

LEMMA MultiSetAnswer ==
    ASSUME IInv, IInv', errors \in Nat, KvMultiSet
    PROVE  AnswerRight
  <1>1. PICK kvs \in Pairs, f \in Faults({"write"}) :
          Operation(<<"multi_set", kvs>>, MultiSet(kvs), f)
    BY DEF KvMultiSet
  <1> DEFINE B == [i \in DOMAIN kvs |-> Put(KvKey(kvs[i][1]), kvs[i][2])]
             L == [i \in DOMAIN kvs |-> Log("KSET", KvKey(kvs[i][1]))]
             s == Commit(B, L, Len(kvs))
             o == MultiSet(kvs)  call == <<"multi_set", kvs>>
             a == Contents(db')  b == Contents(db)  fine == errors' = errors
             ret == answer'.ret  item == answer'.item
  <1>2. kvs \in Seq((Keys \cup {Empty, TooLong}) \X Values) /\ DOMAIN kvs = 1 .. Len(kvs) /\ Len(kvs) \in Nat
    BY SsdbAssumption, LenProperties
  <1>3. \/ o = Return(0) /\ Len(kvs) # 0
        \/ o = s
    BY <1>2 DEF MultiSet
  <1>4. s.commits /\ s.ret = Len(kvs) /\ s.batch = B /\ s.logs = L
    BY DEF Commit
  <1>5. Works(s, {}, Nothing)
    <2>1. IsSeq(B) /\ IsSeq(L)
      BY <1>2 DEF IsSeq
    <2>2. \A i \in DOMAIN B : Shaped(B[i].key) /\ B[i].key[1] = KV
      BY KvKeyAt DEF Put
    <2> HIDE DEF B, L, s
    <2>3. Batch(B, {}, Nothing)
      BY <2>1, <2>2 DEF Batch, OnlyAt, Untouched
    <2>4. QED
      BY <1>4, <2>1, <2>3 DEF Works
  <1> HIDE DEF s
  <1>6. Works(o, {}, Nothing)
    BY <1>3, <1>5, ReturnWorks
  <1>7. /\ answer'.call = call /\ Outcome(o, f)
        /\ o.commits /\ f # "write" => Frame({}, Nothing)
    BY <1>1, <1>6, TransactOutcome DEF Operation
  <1>8. answer'.sure = TRUE
    BY <1>7 DEF Outcome
  <1>9. CASE o.commits /\ f # "write"
    <2>1. o = s
      BY <1>3, <1>9 DEF Return
    <2>2. ret = Len(kvs) /\ ChangesBy(B)
      BY <1>4, <1>7, <1>9, <2>1 DEF Outcome
    <2>3. Frame({}, Nothing)
      BY <1>7, <1>9
    <2>4. a = [b EXCEPT !.kv = WithAll(b.kv, kvs)]
      <3>1. (Keys \cup {Empty, TooLong}) \X Values \subseteq Int \X Values
        BY SsdbAssumption DEF Empty, TooLong
      <3>2. kvs \in Seq(Int \X Values)
        BY ONLY <1>2, <3>1
      <3>3. QED
        BY <1>2, <2>2, <2>3, <3>2, MultiSetDone, ContentsAt
    <2> HIDE DEF o, a, b, ret, item, fine
    <2>5. Promised(call, ret, item, b, a, fine)
      BY <2>2, <2>4, MultiPromises
    <2>6. QED
      BY <1>7, <1>8, <2>5, PromiseKept DEF a, b, ret, item, fine
  <1>10. CASE ~(o.commits /\ f # "write")
    <2>1. a = b
      BY <1>7, <1>10 DEF Outcome
    <2>2. ret # Len(kvs)
      BY <1>2, <1>3, <1>4, <1>7, <1>10 DEF Outcome, Return
    <2> HIDE DEF o, a, b, ret, item, fine
    <2>3. Promised(call, ret, item, b, a, fine)
      BY <2>1, <2>2, MultiPromises
    <2>4. QED
      BY <1>7, <1>8, <2>3, PromiseKept DEF a, b, ret, item, fine
  <1>11. QED
    BY <1>9, <1>10

LEMMA MultiDelAnswer ==
    ASSUME IInv, IInv', errors \in Nat, KvMultiDel
    PROVE  AnswerRight
  <1>1. PICK k1 \in Keys, k2 \in Keys, f \in Faults({"write"}) :
          Operation(<<"multi_del", <<k1, k2>>>>, MultiDel(<<k1, k2>>), f)
    BY DEF KvMultiDel
  <1> DEFINE ks == <<k1, k2>>
             B == [i \in DOMAIN ks |-> Delete(KvKey(ks[i]))]
             L == [i \in DOMAIN ks |-> Log("KDEL", KvKey(ks[i]))]
             o == MultiDel(ks)  call == <<"multi_del", ks>>
             a == Contents(db')  b == Contents(db)  fine == errors' = errors
             ret == answer'.ret  item == answer'.item
  <1>2. DOMAIN ks = 1 .. 2 /\ Len(ks) = 2
    OBVIOUS
  <1>3. o.commits /\ o.ret = 2 /\ o.batch = B /\ o.logs = L
    BY <1>2 DEF MultiDel, Commit
  <1>4. Works(o, {}, Nothing)
    <2>1. IsSeq(B) /\ IsSeq(L)
      <3> HIDE DEF ks
      <3>1. QED
        BY <1>2 DEF IsSeq
    <2>2. \A i \in DOMAIN B : Shaped(B[i].key) /\ B[i].key[1] = KV
      BY KvKeyAt DEF Delete
    <2> HIDE DEF B, L, o
    <2>3. Batch(B, {}, Nothing)
      BY <2>1, <2>2 DEF Batch, OnlyAt, Untouched
    <2>4. QED
      BY <1>3, <2>1, <2>3 DEF Works
  <1>5. /\ answer'.call = call /\ Outcome(o, f)
        /\ o.commits /\ f # "write" => Frame({}, Nothing)
    BY <1>1, <1>4, TransactOutcome DEF Operation
  <1>6. answer'.sure = TRUE
    BY <1>5 DEF Outcome
  <1> HIDE DEF o
  <1>7. CASE f # "write"
    <2>1. ret = 2 /\ ChangesBy(B) /\ Frame({}, Nothing)
      BY <1>3, <1>5, <1>7 DEF Outcome
    <2>2. a = [b EXCEPT !.kv = Without(Without(b.kv, k1), k2)]
      BY <2>1, MultiDelDone, ContentsAt
    <2> HIDE DEF a, b, ret, item, fine
    <2>3. Promised(call, ret, item, b, a, fine)
      BY <2>1, <2>2, MultiPromises
    <2>4. QED
      BY <1>5, <1>6, <2>3, PromiseKept DEF a, b, ret, item, fine
  <1>8. CASE f = "write"
    <2>1. a = b /\ ret # 2
      BY <1>3, <1>5, <1>8 DEF Outcome
    <2> HIDE DEF a, b, ret, item, fine
    <2>2. Promised(call, ret, item, b, a, fine)
      BY <2>1, MultiPromises
    <2>3. QED
      BY <1>5, <1>6, <2>2, PromiseKept DEF a, b, ret, item, fine
  <1>9. QED
    BY <1>7, <1>8

-----------------------------------------------------------------------------
(* Hashes.                                                                 *)

\* A batch with the entry a, and nothing behind it or a counter.
LEMMA EntryWrites ==
    ASSUME NEW a, NEW c, NEW by, NEW f, NEW size, size = <<>> \/ size = IncrSize(c, by, f),
           a.key # c, a.key[1] # SYNCLOG, c[1] # SYNCLOG, ~IsEntry(c),
           NEW types, NEW n, Batch(<<a>>, types, n), Batch(IncrSize(c, by, f), types, n),
           ChangesBy(<<a>> \o size)
    PROVE  /\ a.key \in DOMAIN db' <=> a.keep
           /\ a.keep => db'[a.key] = a.value
           /\ Safe(<<a>> \o size, a.key)
  <1>1. Safe(<<a>>, a.key) /\ Safe(size, a.key)
    BY SafeOne, SafeNone, SizeSafe
  <1>2. Writes(<<a>> \o size, a.key, a)
    <2>1. CASE size = <<>>
      BY <2>1, EntryBatch, OneBatch
    <2>2. CASE size = IncrSize(c, by, f)
      <3> DEFINE e == IncrSize(c, by, f)[1]
      <3>1. e.key = c /\ size = <<e>>
        BY <2>2, SizeBatch
      <3> HIDE DEF e
      <3>2. Batch(<<e>>, types, n)
        BY <2>2, <3>1
      <3>3. QED
        BY <3>1, <3>2, EntryBatch
    <2>3. QED
      BY <2>1, <2>2
  <1> DEFINE B == <<a>> \o size
  <1> HIDE DEF B
  <1>3. ChangesBy(B) /\ Writes(B, a.key, a)
    BY <1>2 DEF B
  <1>4. (a.key \in DOMAIN db' <=> a.keep) /\ (a.keep => db'[a.key] = a.value)
    BY <1>3 DEF ChangesBy
  <1>5. QED
    BY <1>1, <1>4, SafeConcat

LEMMA HSizeIsBatch ==
    ASSUME NEW n, NEW by, NEW f
    PROVE  Batch(IncrSize(HSizeKey(n), by, f), HashKeys, n)
  <1> DEFINE e == IncrSize(HSizeKey(n), by, f)[1]
  <1>1. e.key = HSizeKey(n) /\ IncrSize(HSizeKey(n), by, f) = <<e>>
    BY SizeBatch
  <1> HIDE DEF e
  <1>2. QED
    BY <1>1, HashKeysAt, OneIsBatch

LEMMA QueueOther == QUEUE \notin HashKeys /\ QUEUE \notin ZsetKeys
  BY DEF HashKeys, ZsetKeys, QUEUE, HASH, HSIZE, ZSET, ZSCORE, ZSIZE

LEMMA HashStoredDone ==
    ASSUME IInv, IInv', NEW n \in HNames, NEW k, NEW v, NEW failed, NEW ret, NEW f,
           NEW o, Outcome(o, f), o.commits, f # "write", Frame(HashKeys, n),
           o.batch = HashStored(n, k, v, failed, ret, f).batch
    PROVE  Contents(db') = [Contents(db) EXCEPT !.hash[n] = With(Hash(db, n), k, v)]
  <1> DEFINE one == HsetOne(n, k, v, failed)
             c == HSizeKey(n)
             size == IF one.new > 0 THEN IncrSize(c, 1, f) ELSE <<>>
             x == HashKey(n, k)
             p == Put(x, v)
             same == Found(x, failed) = 1 /\ db[x] = v
  <1>1. o.batch = one.batch \o size
    BY DEF HashStored, Commit
  <1>2. IF same THEN one.batch = <<>> /\ size = <<>> ELSE one.batch = <<p>>
    BY DEF HsetOne
  <1>3. /\ p.key = x /\ p.keep = TRUE /\ p.value = v
        /\ x[1] # SYNCLOG /\ c[1] # SYNCLOG /\ ~IsEntry(c) /\ x # c
    BY EntryKeys, HashKeysAt DEF Put
  <1>4. Batch(IncrSize(c, 1, f), HashKeys, n) /\ Batch(<<p>>, HashKeys, n)
    <2> HIDE DEF p
    <2>1. QED
      BY <1>3, HSizeIsBatch, HashKeysAt, OneIsBatch
  <1>5. ChangesBy(o.batch)
    BY DEF Outcome
  <1>6. same => x \in DOMAIN db /\ db[x] = v
    BY DEF Found
  <1>7. size = <<>> \/ size = IncrSize(c, 1, f)
    OBVIOUS
  <1> HIDE DEF one, size, x, p, same, c
  <1>8. x \in DOMAIN db' /\ db'[x] = v /\ Safe(o.batch, x)
    <2>1. CASE same
      <3>1. o.batch = <<>>
        BY <1>1, <1>2, <2>1
      <3>2. Stays(x)
        BY <1>3, <1>5, <3>1, NoBatch DEF ChangesBy
      <3>3. QED
        BY <1>6, <2>1, <3>1, <3>2, SafeNone DEF Stays
    <2>2. CASE ~same
      <3>1. o.batch = <<p>> \o size
        BY <1>1, <1>2, <2>2
      <3>2. ChangesBy(<<p>> \o size)
        BY <1>5, <3>1
      <3>3. QED
        BY <1>3, <1>4, <1>7, <3>1, <3>2, EntryWrites
    <2>3. QED
      BY <2>1, <2>2
  <1>9. EntriesStay(x) /\ EndsStay
    BY <1>8, QueueOther, EntryOutcome
  <1>10. QED
    BY <1>8, <1>9, HashContents DEF Altered, x

\* What hdel makes of a hash, and what it answers.
LEMMA HdelDone ==
    ASSUME IInv, IInv', NEW n \in HNames, NEW k, NEW f, Outcome(Hdel(n, k, f), f),
           Hdel(n, k, f).commits /\ f # "write" => Frame(HashKeys, n)
    PROVE  LET ret == answer'.ret
           IN /\ IF ret = 1
                 THEN Contents(db') = [Contents(db) EXCEPT !.hash[n] = Without(Hash(db, n), k)]
                 ELSE Contents(db') = Contents(db)
              /\ f = "none" /\ k \in Keys => ret = Had(Hash(db, n), k)
              /\ ret \in {-1, 0, 1}
  <1> DEFINE o == Hdel(n, k, f)
             x == HashKey(n, k)
             c == HSizeKey(n)
             found == Found(x, f = "entry")
             p == Delete(x)
             size == IncrSize(c, -1, f)
             ret == answer'.ret
  <1>1. \/ k = TooLong /\ o = Return(-1)
        \/ k # TooLong /\ found = 0 /\ o = Commit(<<>>, <<>>, 0)
        \/ /\ k # TooLong /\ found # 0
           /\ o.commits /\ o.ret = 1 /\ o.batch = <<p>> \o size
    BY DEF Hdel, Commit
  <1>2. /\ p.key = x /\ p.keep = FALSE
        /\ x[1] # SYNCLOG /\ c[1] # SYNCLOG /\ ~IsEntry(c) /\ x # c
    BY EntryKeys, HashKeysAt DEF Delete
  <1>3. Batch(size, HashKeys, n) /\ Batch(<<p>>, HashKeys, n)
    <2> HIDE DEF p
    <2>1. QED
      BY <1>2, HSizeIsBatch, HashKeysAt, OneIsBatch
  <1>4. f = "none" => (found # 0 <=> k \in DOMAIN Hash(db, n)) /\ found \in {0, 1}
    BY HashMember DEF Found, IInv
  <1>5. k \in Keys => k # TooLong
    BY KeysNamed
  <1>6. Outcome(o, f) /\ (o.commits /\ f # "write" => Frame(HashKeys, n))
    OBVIOUS
  <1>7. size = IncrSize(c, -1, f)
    OBVIOUS
  <1> HIDE DEF o, x, c, found, p, size, ret
  <1>8. CASE k = TooLong /\ o = Return(-1)
    <2>1. db' = db /\ ret = -1
      BY <1>6, <1>8 DEF Outcome, Return, ret
    <2>2. QED
      BY <1>5, <1>8, <2>1 DEF ret
  <1>9. CASE k # TooLong /\ found = 0 /\ o = Commit(<<>>, <<>>, 0)
    <2>1. o.commits /\ o.batch = <<>> /\ o.ret = 0
      BY <1>9 DEF Commit
    <2>2. ret = IF f = "write" THEN -1 ELSE 0
      BY <1>6, <2>1 DEF Outcome, ret
    <2>3. Safe(o.batch, x)
      BY <2>1, SafeNone
    <2>4. EntriesStay(x) /\ EndsStay
      BY <1>6, <2>3, QueueOther, EntryOutcome
    <2>5. Stays(x)
      <3>1. CASE f = "write"
        BY <1>6, <2>1, <3>1 DEF Outcome, Stays
      <3>2. CASE f # "write"
        BY <1>2, <1>6, <2>1, <3>2, NoBatch DEF Outcome, ChangesBy
      <3>3. QED
        BY <3>1, <3>2
    <2>6. Contents(db') = Contents(db)
      <3>1. \A y : IsEntry(y) => Stays(y)
        BY <2>4, <2>5 DEF EntriesStay
      <3>2. QED
        BY <2>4, <3>1, SameContents
    <2>7. f = "none" => Had(Hash(db, n), k) = 0
      BY <1>4, <1>9 DEF Had
    <2>8. QED
      BY <2>2, <2>6, <2>7 DEF ret
  <1>10. CASE /\ k # TooLong /\ found # 0
              /\ o.commits /\ o.ret = 1 /\ o.batch = <<p>> \o size
    <2>1. CASE f = "write"
      <3>1. db' = db /\ ret = -1
        BY <1>6, <1>10, <2>1 DEF Outcome, ret
      <3>2. QED
        BY <2>1, <3>1 DEF ret
    <2>2. CASE f # "write"
      <3>1. ret = 1 /\ ChangesBy(o.batch) /\ Frame(HashKeys, n)
        BY <1>6, <1>10, <2>2 DEF Outcome, ret
      <3>2. ChangesBy(<<p>> \o size)
        BY <1>10, <3>1
      <3>3. x \notin DOMAIN db' /\ Safe(o.batch, x)
        BY <1>2, <1>3, <1>7, <1>10, <3>2, EntryWrites
      <3>4. EntriesStay(x) /\ EndsStay
        BY <1>6, <3>3, QueueOther, EntryOutcome
      <3>5. Contents(db') = [Contents(db) EXCEPT !.hash[n] = Without(Hash(db, n), k)]
        BY <3>3, <3>4, HashContents DEF Altered, x
      <3>6. f = "none" => Had(Hash(db, n), k) = 1
        BY <1>4, <1>10 DEF Had
      <3>7. QED
        BY <3>1, <3>5, <3>6 DEF ret
    <2>3. QED
      BY <2>1, <2>2
  <1>11. QED
    BY <1>1, <1>8, <1>9, <1>10

LEMMA HashPromises ==
    ASSUME NEW n, NEW k, NEW v, NEW ret, NEW item, NEW b, NEW a, NEW fine
    PROVE  /\ /\ fine /\ k \in Keys => ret = 1 - Had(b.hash[n], k)
              /\ IF ret >= 0 THEN a = [b EXCEPT !.hash[n] = With(b.hash[n], k, v)] ELSE a = b
              => Promised(<<"hset", n, k, v>>, ret, item, b, a, fine)
           /\ /\ fine /\ k \in Keys => ret = Had(b.hash[n], k)
              /\ IF ret = 1 THEN a = [b EXCEPT !.hash[n] = Without(b.hash[n], k)] ELSE a = b
              => Promised(<<"hdel", n, k>>, ret, item, b, a, fine)
           /\ (IF ret # 1 THEN a = b
               ELSE /\ item = Sum(b.hash[n], k, v)
                    /\ a = [b EXCEPT !.hash[n] = With(b.hash[n], k, item)])
              => Promised(<<"hincr", n, k, v>>, ret, item, b, a, fine)
  <1>1. /\ fine /\ k \in Keys => ret = 1 - Had(b.hash[n], k)
        /\ IF ret >= 0 THEN a = [b EXCEPT !.hash[n] = With(b.hash[n], k, v)] ELSE a = b
        => Promised(<<"hset", n, k, v>>, ret, item, b, a, fine)
    BY DEF Promised
  <1>2. /\ fine /\ k \in Keys => ret = Had(b.hash[n], k)
        /\ IF ret = 1 THEN a = [b EXCEPT !.hash[n] = Without(b.hash[n], k)] ELSE a = b
        => Promised(<<"hdel", n, k>>, ret, item, b, a, fine)
    BY DEF Promised
  <1>3. (IF ret # 1 THEN a = b
         ELSE /\ item = Sum(b.hash[n], k, v)
              /\ a = [b EXCEPT !.hash[n] = With(b.hash[n], k, item)])
        => Promised(<<"hincr", n, k, v>>, ret, item, b, a, fine)
    BY DEF Promised
  <1>4. QED
    BY <1>1, <1>2, <1>3

\* hdel, asked for or by hclear.
LEMMA HdelAnswer ==
    ASSUME IInv, IInv', errors \in Nat, NEW n \in HNames, NEW k, NEW f,
           Transact(<<"hdel", n, k>>, Hdel(n, k, f), f)
    PROVE  AnswerRight
  <1> DEFINE call == <<"hdel", n, k>>
             a == Contents(db')  b == Contents(db)  fine == errors' = errors
             ret == answer'.ret  item == answer'.item
             o == Hdel(n, k, f)
  <1>1. Works(o, HashKeys, n) /\ Transact(call, o, f)
    BY HdelWorks
  <1>2. /\ answer'.call = call /\ Outcome(o, f)
        /\ o.commits /\ f # "write" => Frame(HashKeys, n)
    <2> HIDE DEF o, call
    <2>1. QED
      BY <1>1, TransactOutcome
  <1>3. fine = (f = "none") /\ answer'.sure = TRUE
    BY <1>2 DEF Outcome
  <1>4. /\ IF ret = 1 THEN a = [b EXCEPT !.hash[n] = Without(b.hash[n], k)] ELSE a = b
        /\ fine /\ k \in Keys => ret = Had(b.hash[n], k)
    BY <1>2, <1>3, HdelDone, ContentsAt
  <1> HIDE DEF a, b, ret, item, fine
  <1>5. Promised(call, ret, item, b, a, fine)
    BY <1>4, HashPromises
  <1>6. QED
    BY <1>2, <1>3, <1>5, PromiseKept DEF a, b, ret, item, fine

LEMMA HsetAnswer ==
    ASSUME IInv, IInv', errors \in Nat, HashSet
    PROVE  AnswerRight
  <1>1. PICK n \in HNames, k \in Named, v \in Values, f \in Faults({"entry", "size", "write"}) :
          Operation(<<"hset", n, k, v>>, Hset(n, k, v, f), f)
    BY DEF HashSet
  <1> DEFINE failed == f = "entry"
             new == HsetOne(n, k, v, failed).new
             s == HashStored(n, k, v, failed, new, f)
             o == Hset(n, k, v, f)  call == <<"hset", n, k, v>>
             a == Contents(db')  b == Contents(db)  fine == errors' = errors
             ret == answer'.ret  item == answer'.item
  <1>2. IF k \in {Empty, TooLong} THEN o = Return(-1) ELSE o = s
    BY DEF Hset
  <1>3. s.commits /\ s.ret = new
    BY DEF HashStored, Commit
  <1>4. new \in {0, 1} /\ (f = "none" => new = 1 - Had(b.hash[n], k))
    <2>1. new = IF Found(HashKey(n, k), failed) = 0 THEN 1 ELSE 0
      BY DEF HsetOne
    <2>2. f = "none" => (Found(HashKey(n, k), failed) = 0 <=> k \notin DOMAIN b.hash[n])
      BY HashMember, ContentsAt DEF Found, IInv
    <2> HIDE DEF new
    <2>3. QED
      BY <2>1, <2>2 DEF Had
  <1>5. Works(s, HashKeys, n)
    BY HashStoredWorks
  <1>6. Works(o, HashKeys, n)
    <2> HIDE DEF s, o
    <2>1. QED
      BY <1>2, <1>5, ReturnWorks
  <1>7. /\ answer'.call = call /\ Outcome(o, f)
        /\ o.commits /\ f # "write" => Frame(HashKeys, n)
    <2>1. Transact(call, o, f)
      BY <1>1 DEF Operation
    <2> HIDE DEF o, call
    <2>2. QED
      BY <1>6, <2>1, TransactOutcome
  <1>8. fine = (f = "none") /\ answer'.sure = TRUE
    BY <1>7 DEF Outcome
  <1> HIDE DEF o, new, failed
  <1>9. CASE o.commits /\ f # "write"
    <2>1. o = s
      <3> HIDE DEF s
      <3>1. QED
        BY <1>2, <1>9 DEF Return
    <2>2. ret = new
      <3> HIDE DEF s
      <3>1. QED
        BY <1>3, <1>7, <1>9, <2>1 DEF Outcome
    <2>3. a = [b EXCEPT !.hash[n] = With(b.hash[n], k, v)]
      <3>1. o.batch = HashStored(n, k, v, failed, new, f).batch
        BY <2>1
      <3> HIDE DEF s
      <3>2. QED
        BY <1>7, <1>9, <3>1, HashStoredDone, ContentsAt
    <2>4. ret >= 0 /\ (fine => ret = 1 - Had(b.hash[n], k))
      BY <1>4, <1>8, <2>2
    <2> HIDE DEF a, b, ret, item, fine, s
    <2>5. Promised(call, ret, item, b, a, fine)
      BY <2>3, <2>4, HashPromises
    <2>6. QED
      BY <1>7, <1>8, <2>5, PromiseKept DEF a, b, ret, item, fine
  <1>10. CASE ~(o.commits /\ f # "write")
    <2> HIDE DEF s
    <2>1. a = b
      BY <1>7, <1>10 DEF Outcome
    <2>2. ret = -1 /\ (k \in Keys => f # "none")
      BY <1>2, <1>3, <1>7, <1>10, KeysNamed DEF Outcome, Return
    <2>3. ~(ret >= 0)
      BY <2>2
    <2> HIDE DEF a, b, ret, item
    <2>4. Promised(call, ret, item, b, a, fine)
      BY <1>8, <2>1, <2>2, <2>3, HashPromises
    <2>5. QED
      BY <1>7, <1>8, <2>4, PromiseKept DEF a, b, ret, item
  <1>11. QED
    BY <1>9, <1>10

LEMMA HincrAnswer ==
    ASSUME IInv, IInv', errors \in Nat, HashIncr
    PROVE  AnswerRight
  <1>1. PICK n \in HNames, k \in Named, by \in {-1, 1},
             f \in Faults({"entry", "again", "size", "write"}) :
          Operation(<<"hincr", n, k, by>>, Hincr(n, k, by, f), f)
    BY DEF HashIncr
  <1> DEFINE failed == f = "again"
             sum == Addend(HashKey(n, k)) + by
             s == HashStored(n, k, sum, failed, 1, f)
             stored == [s EXCEPT !.item = sum]
             o == Hincr(n, k, by, f)  call == <<"hincr", n, k, by>>
             a == Contents(db')  b == Contents(db)  fine == errors' = errors
             ret == answer'.ret  item == answer'.item
  <1>2. o = Return(-1) \/ o = Return(0) \/ o = stored
    BY DEF Hincr
  <1>3. s.commits /\ s.ret = 1
    BY DEF HashStored, Commit
  <1>4. Works(s, HashKeys, n)
    BY HashStoredWorks
  <1>5. s = [commits |-> s.commits, batch |-> s.batch, logs |-> s.logs, ret |-> s.ret,
             item |-> s.item, misread |-> s.misread]
    BY StoredRecord
  <1>6. sum = Sum(b.hash[n], k, by)
    BY HashMember, ContentsAt DEF Sum, Addend, IInv
  <1>7. \A q : q.batch = s.batch /\ Outcome(q, f) /\ q.commits /\ f # "write"
               /\ Frame(HashKeys, n) => a = [b EXCEPT !.hash[n] = With(b.hash[n], k, sum)]
    BY HashStoredDone, ContentsAt
  <1> HIDE DEF s, sum
  <1>8. /\ Works(stored, HashKeys, n) /\ stored.batch = s.batch /\ stored.commits
        /\ stored.ret = 1 /\ stored.item = sum
    BY <1>3, <1>4, <1>5, ItemWorks
  <1> HIDE DEF stored, o
  <1>9. Works(o, HashKeys, n)
    BY <1>2, <1>8, ReturnWorks
  <1>10. /\ answer'.call = call /\ Outcome(o, f)
         /\ o.commits /\ f # "write" => Frame(HashKeys, n)
    <2>1. Transact(call, o, f)
      BY <1>1 DEF Operation, o
    <2> HIDE DEF call
    <2>2. QED
      BY <1>9, <2>1, TransactOutcome
  <1>11. answer'.sure = TRUE
    BY <1>10 DEF Outcome
  <1>12. CASE o.commits /\ f # "write"
    <2>1. o = stored
      BY <1>2, <1>12 DEF Return
    <2>2. ret = 1 /\ item = sum
      BY <1>8, <1>10, <1>12, <2>1 DEF Outcome
    <2>3. a = [b EXCEPT !.hash[n] = With(b.hash[n], k, sum)]
      BY <1>7, <1>8, <1>10, <1>12, <2>1
    <2> HIDE DEF a, b, ret, item, fine
    <2>4. Promised(call, ret, item, b, a, fine)
      BY <1>6, <2>2, <2>3, HashPromises
    <2>5. QED
      BY <1>10, <1>11, <2>4, PromiseKept DEF a, b, ret, item, fine
  <1>13. CASE ~(o.commits /\ f # "write")
    <2>1. a = b
      BY <1>10, <1>13 DEF Outcome
    <2>2. ret # 1
      BY <1>2, <1>8, <1>10, <1>13 DEF Outcome, Return
    <2> HIDE DEF a, b, ret, item, fine
    <2>3. Promised(call, ret, item, b, a, fine)
      BY <2>1, <2>2, HashPromises
    <2>4. QED
      BY <1>10, <1>11, <2>3, PromiseKept DEF a, b, ret, item, fine
  <1>14. QED
    BY <1>12, <1>13

-----------------------------------------------------------------------------
(* Sorted sets.                                                            *)

\* A transaction that writes nothing.
LEMMA NothingDone ==
    ASSUME IInv, IInv', NEW o, NEW f, Outcome(o, f), o.commits, o.batch = <<>>,
           NEW types, NEW n, QUEUE \notin types, f # "write" => Frame(types, n)
    PROVE  /\ Contents(db') = Contents(db)
           /\ answer'.ret = IF f = "write" THEN -1 ELSE o.ret
  <1>1. answer'.ret = IF f = "write" THEN -1 ELSE o.ret
    BY DEF Outcome
  <1>2. CASE f = "write"
    BY <1>1, <1>2 DEF Outcome
  <1>3. CASE f # "write"
    <2>1. ChangesBy(<<>>)
      BY <1>3 DEF Outcome
    <2>2. \A y : IsEntry(y) => Stays(y)
      BY <2>1, NoBatch DEF ChangesBy, IsEntry, KV, HASH, ZSET, QUEUE, SYNCLOG
    <2>3. EndsStay
      BY <1>3, FrameEnds
    <2>4. QED
      BY <1>1, <2>2, <2>3, SameContents
  <1>4. QED
    BY <1>2, <1>3

LEMMA ZSizeIsBatch ==
    ASSUME NEW n, NEW by, NEW f
    PROVE  /\ Batch(IncrSize(ZSizeKey(n), by, f), ZsetKeys, n)
           /\ \A x : x # ZSizeKey(n) => Untouched(IncrSize(ZSizeKey(n), by, f), x)
  <1> DEFINE e == IncrSize(ZSizeKey(n), by, f)[1]
  <1>1. e.key = ZSizeKey(n) /\ IncrSize(ZSizeKey(n), by, f) = <<e>>
    BY SizeBatch
  <1> HIDE DEF e
  <1>2. QED
    BY <1>1, ZsetKeysAt, OneIsBatch, OneBatch

LEMMA ZsetKeysDiffer ==
    ASSUME NEW n, NEW k
    PROVE  /\ ZsetKey(n, k) # ZSizeKey(n)
           /\ \A score : /\ ZscoreKey(n, k, score) # ZsetKey(n, k)
                         /\ ZscoreKey(n, k, score) # ZSizeKey(n)
  BY DEF ZsetKey, ZSizeKey, ZscoreKey, ZSET, ZSIZE, ZSCORE

LEMMA ScoreStoredDone ==
    ASSUME IInv, IInv', NEW n \in ZNames, NEW k, NEW score, NEW failed, NEW ret, NEW f,
           NEW o, Outcome(o, f), o.commits, f # "write", Frame(ZsetKeys, n),
           o.batch = ScoreStored(n, k, score, failed, ret, f).batch
    PROVE  Contents(db') = [Contents(db) EXCEPT !.zset[n] = With(Zset(db, n), k, score)]
  <1> DEFINE one == ZsetOne(n, k, score, failed)
             x == ZsetKey(n, k)
             c == ZSizeKey(n)
             found == Found(x, failed)
             old == IF found = 1 THEN db[x] ELSE 0
             same == found = 1 /\ old = score
             d == Delete(ZscoreKey(n, k, old))
             pre == IF found = 0 THEN <<>> ELSE <<d>>
             place == Put(ZscoreKey(n, k, score), "")
             entry == Put(x, score)
             incr == IncrSize(c, 1, f)
             size == IF one.new > 0 THEN incr ELSE <<>>
  <1>1. o.batch = one.batch \o size
    BY DEF ScoreStored, Commit
  <1>2. IF same THEN one.batch = <<>> /\ size = <<>>
                ELSE one.batch = pre \o <<place, entry>>
    <2>1. one = [batch |-> IF same THEN <<>> ELSE pre \o <<place, entry>>,
                 logs |-> IF same THEN <<>> ELSE <<Log("ZSET", x)>>,
                 new |-> IF found = 0 THEN 1 ELSE 0]
      BY DEF ZsetOne
    <2> HIDE DEF one, place, entry, d, found
    <2>2. /\ one.batch = IF same THEN <<>> ELSE pre \o <<place, entry>>
          /\ same => one.new = 0
      BY <2>1
    <2> HIDE DEF same
    <2>3. QED
      BY <2>2
  <1>3. /\ d.key = ZscoreKey(n, k, old) /\ place.key = ZscoreKey(n, k, score)
        /\ entry.key = x /\ entry.keep = TRUE /\ entry.value = score
    BY DEF Put, Delete
  <1>4. x[1] # SYNCLOG /\ x # c /\ place.key # x /\ place.key # c
    BY <1>3, EntryKeys, ZsetKeysDiffer
  <1>5. Batch(incr, ZsetKeys, n) /\ Safe(incr, x) /\ \A y : y # c => Untouched(incr, y)
    BY ZSizeIsBatch, EntryKeys, SizeSafe
  <1>6. ChangesBy(o.batch)
    BY DEF Outcome
  <1>7. same => x \in DOMAIN db /\ db[x] = score
    BY DEF Found
  <1> HIDE DEF one, found, d, place, entry, same, old, incr
  <1>8. /\ Batch(<<d>>, ZsetKeys, n) /\ Batch(<<place>>, ZsetKeys, n)
        /\ Batch(<<entry>>, ZsetKeys, n)
    <2> HIDE DEF pre, size
    <2>1. \A a, y : a.key = y /\ Shaped(y) /\ y[1] \in ZsetKeys /\ y[2] = n
                    => Batch(<<a>>, ZsetKeys, n)
      BY OneIsBatch
    <2>2. \A y, s : /\ Shaped(ZsetKey(n, y)) /\ ZsetKey(n, y)[1] \in ZsetKeys
                    /\ ZsetKey(n, y)[2] = n
                    /\ Shaped(ZscoreKey(n, y, s)) /\ ZscoreKey(n, y, s)[1] \in ZsetKeys
                    /\ ZscoreKey(n, y, s)[2] = n
      <3> SUFFICES ASSUME NEW y, NEW s
                   PROVE  /\ Shaped(ZsetKey(n, y)) /\ ZsetKey(n, y)[1] \in ZsetKeys
                          /\ ZsetKey(n, y)[2] = n
                          /\ Shaped(ZscoreKey(n, y, s)) /\ ZscoreKey(n, y, s)[1] \in ZsetKeys
                          /\ ZscoreKey(n, y, s)[2] = n
        OBVIOUS
      <3>1. Shaped(ZsetKey(n, y)) /\ ZsetKey(n, y)[1] \in ZsetKeys /\ ZsetKey(n, y)[2] = n
        BY ZsetKeysAt
      <3>2. ZscoreKey(n, y, s)[1] = ZSCORE /\ ZSCORE \in ZsetKeys
        BY ZsetKeysAt
      <3>3. Shaped(ZscoreKey(n, y, s)) /\ ZscoreKey(n, y, s)[2] = n
        BY ZsetKeysAt
      <3>4. QED
        BY <3>1, <3>2, <3>3
    <2>3. Batch(<<d>>, ZsetKeys, n) /\ Batch(<<place>>, ZsetKeys, n)
      BY ONLY <1>3, <2>1, <2>2
    <2>4. Batch(<<entry>>, ZsetKeys, n)
      BY ONLY <1>3, <2>1, <2>2
    <2>5. QED
      BY <2>3, <2>4
  <1>9. /\ Batch(pre, ZsetKeys, n) /\ Batch(size, ZsetKeys, n)
        /\ \A y : y # c => Untouched(size, y)
    BY <1>5, <1>8, NoneIsBatch, NoBatch
  <1>10. /\ Safe(<<d>>, x) /\ Safe(<<place>>, x) /\ Safe(<<entry>>, x) /\ Safe(size, x)
    <2>1. Safe(<<d>>, x) /\ Safe(<<place>>, x) /\ Safe(<<entry>>, x)
      BY <1>3, <1>4, EntryKeys, SafeOne
    <2>2. Safe(size, x)
      BY <1>5, SafeNone
    <2>3. QED
      BY <2>1, <2>2
  <1>11. Untouched(pre, x) /\ Safe(pre, x)
    <2>1. d.key # x
      BY <1>3, ZsetKeysDiffer
    <2>2. Untouched(<<d>>, x)
      BY <2>1, OneBatch
    <2>3. QED
      BY <1>10, <2>2, NoBatch, SafeNone
  <1> HIDE DEF x, c, pre, size
  <1>12. x \in DOMAIN db' /\ db'[x] = score /\ Safe(o.batch, x)
    <2>1. CASE same
      <3>1. o.batch = <<>>
        BY <1>1, <1>2, <2>1
      <3>2. Stays(x)
        BY <1>4, <1>6, <3>1, NoBatch DEF ChangesBy
      <3>3. QED
        BY <1>7, <2>1, <3>1, <3>2, SafeNone DEF Stays
    <2>2. CASE ~same
      <3> DEFINE B == (pre \o <<place, entry>>) \o size
      <3>1. o.batch = B
        BY <1>1, <1>2, <2>2
      <3>2. Writes(B, entry.key, entry)
        BY <1>3, <1>4, <1>8, <1>9, <1>11, ScoreBatch
      <3>3. Safe(<<place, entry>>, x)
        BY <1>10, SafeTwo
      <3>4. Safe(B, x)
        BY <1>10, <1>11, <3>3, SafeConcat
      <3> HIDE DEF B
      <3>5. x \in DOMAIN db' /\ db'[x] = score
        BY <1>3, <1>4, <1>6, <3>1, <3>2 DEF ChangesBy
      <3>6. QED
        BY <3>1, <3>4, <3>5
    <2>3. QED
      BY <2>1, <2>2
  <1>13. EntriesStay(x) /\ EndsStay
    BY <1>12, QueueOther, EntryOutcome
  <1>14. QED
    BY <1>12, <1>13, ZsetContents DEF Altered, x

LEMMA ZdelDone ==
    ASSUME IInv, IInv', NEW n \in ZNames, NEW k, NEW f, Outcome(Zdel(n, k, f), f),
           Zdel(n, k, f).commits /\ f # "write" => Frame(ZsetKeys, n)
    PROVE  LET ret == answer'.ret
           IN /\ IF ret = 1
                 THEN Contents(db') = [Contents(db) EXCEPT !.zset[n] = Without(Zset(db, n), k)]
                 ELSE Contents(db') = Contents(db)
              /\ f = "none" /\ k \in Keys => ret = Had(Zset(db, n), k)
  <1> DEFINE o == Zdel(n, k, f)
             x == ZsetKey(n, k)
             c == ZSizeKey(n)
             found == Found(x, f = "entry")
             d == Delete(ZscoreKey(n, k, db[x]))
             p == Delete(x)
             size == IncrSize(c, -1, f)
             ret == answer'.ret
  <1>1. \/ k = TooLong /\ o = Return(-1)
        \/ k # TooLong /\ found # 1 /\ o = Commit(<<>>, <<>>, 0)
        \/ /\ k # TooLong /\ found = 1
           /\ o.commits /\ o.ret = 1 /\ o.batch = <<d, p>> \o size
    BY DEF Zdel, Commit
  <1>2. /\ p.key = x /\ p.keep = FALSE /\ d.key = ZscoreKey(n, k, db[x])
        /\ x[1] # SYNCLOG /\ x # c
    BY EntryKeys, ZsetKeysDiffer DEF Delete
  <1>3. /\ Batch(size, ZsetKeys, n) /\ Safe(size, x)
        /\ \A y : y # c => Untouched(size, y)
    BY ZSizeIsBatch, EntryKeys, SizeSafe
  <1>4. f = "none" => (found = 1 <=> k \in DOMAIN Zset(db, n))
    BY ZsetMember DEF Found, IInv
  <1>5. k \in Keys => k # TooLong
    BY KeysNamed
  <1>6. Outcome(o, f) /\ (o.commits /\ f # "write" => Frame(ZsetKeys, n))
    OBVIOUS
  <1>7. d.key # x
    BY <1>2, ZsetKeysDiffer
  <1> HIDE DEF o, c, found, d, p, size, ret
  <1>8. /\ Batch(<<d>>, ZsetKeys, n) /\ Batch(<<p>>, ZsetKeys, n)
        /\ Safe(<<d>>, x) /\ Safe(<<p>>, x)
    <2>1. \A a, y : a.key = y /\ Shaped(y) /\ y[1] \in ZsetKeys /\ y[2] = n
                    => Batch(<<a>>, ZsetKeys, n)
      BY OneIsBatch
    <2>2. Batch(<<d>>, ZsetKeys, n) /\ Batch(<<p>>, ZsetKeys, n)
      BY ONLY <1>2, <2>1, ZsetKeysAt DEF x
    <2>3. QED
      BY <1>2, <2>2, EntryKeys, SafeOne
  <1> HIDE DEF x
  <1>9. CASE k = TooLong /\ o = Return(-1)
    <2>1. db' = db /\ ret = -1
      BY <1>6, <1>9 DEF Outcome, Return, ret
    <2>2. QED
      BY <1>5, <1>9, <2>1 DEF ret
  <1>10. CASE k # TooLong /\ found # 1 /\ o = Commit(<<>>, <<>>, 0)
    <2>1. o.commits /\ o.batch = <<>> /\ o.ret = 0
      BY <1>10 DEF Commit
    <2>2. Contents(db') = Contents(db) /\ ret = IF f = "write" THEN -1 ELSE 0
      BY <1>6, <2>1, QueueOther, NothingDone DEF ret
    <2>3. f = "none" => Had(Zset(db, n), k) = 0
      BY <1>4, <1>10 DEF Had
    <2>4. QED
      BY <2>2, <2>3 DEF ret
  <1>11. CASE /\ k # TooLong /\ found = 1
              /\ o.commits /\ o.ret = 1 /\ o.batch = <<d, p>> \o size
    <2>1. CASE f = "write"
      <3>1. db' = db /\ ret = -1
        BY <1>6, <1>11, <2>1 DEF Outcome, ret
      <3>2. QED
        BY <2>1, <3>1 DEF ret
    <2>2. CASE f # "write"
      <3>1. ret = 1 /\ ChangesBy(o.batch) /\ Frame(ZsetKeys, n)
        BY <1>6, <1>11, <2>2 DEF Outcome, ret
      <3> DEFINE T == <<d, p>>  B == T \o size
      <3>2. Writes(T, x, p) /\ Batch(T, ZsetKeys, n) /\ Safe(T, x)
        BY <1>2, <1>7, <1>8, TwoBatch, TwoIsBatch, SafeTwo
      <3> HIDE DEF T
      <3>3. Untouched(size, x)
        BY <1>2, <1>3
      <3>4. \A y, e : Writes(T, y, e) /\ Untouched(size, y) => Writes(B, y, e)
        BY ONLY <1>3, <3>2, ConcatIsBatch, Zenon
      <3>5. Safe(B, x)
        BY <1>3, <3>2, SafeConcat
      <3> HIDE DEF B
      <3>6. o.batch = B
        BY <1>11 DEF B, T
      <3>7. x \notin DOMAIN db'
        BY <1>2, <3>1, <3>2, <3>3, <3>4, <3>6 DEF ChangesBy
      <3>8. EntriesStay(x) /\ EndsStay
        BY <1>6, <3>5, <3>6, QueueOther, EntryOutcome
      <3>9. Contents(db') = [Contents(db) EXCEPT !.zset[n] = Without(Zset(db, n), k)]
        BY <3>7, <3>8, ZsetContents DEF Altered, x
      <3>10. f = "none" => Had(Zset(db, n), k) = 1
        BY <1>4, <1>11 DEF Had
      <3>11. QED
        BY <3>1, <3>9, <3>10 DEF ret
    <2>3. QED
      BY <2>1, <2>2
  <1>12. QED
    BY <1>1, <1>9, <1>10, <1>11

LEMMA ZsetPromises ==
    ASSUME NEW n, NEW k, NEW v, NEW ret, NEW item, NEW b, NEW a, NEW fine
    PROVE  /\ /\ fine /\ k \in Keys => ret = 1 - Had(b.zset[n], k)
              /\ IF ret >= 0 /\ k # Empty
                 THEN a = [b EXCEPT !.zset[n] = With(b.zset[n], k, v)] ELSE a = b
              => Promised(<<"zset", n, k, v>>, ret, item, b, a, fine)
           /\ /\ fine /\ k \in Keys => ret = Had(b.zset[n], k)
              /\ IF ret = 1 THEN a = [b EXCEPT !.zset[n] = Without(b.zset[n], k)] ELSE a = b
              => Promised(<<"zdel", n, k>>, ret, item, b, a, fine)
           /\ (IF ret # 1 \/ k = Empty THEN a = b
               ELSE /\ item = Sum(b.zset[n], k, v)
                    /\ a = [b EXCEPT !.zset[n] = With(b.zset[n], k, item)])
              => Promised(<<"zincr", n, k, v>>, ret, item, b, a, fine)
  <1>1. /\ fine /\ k \in Keys => ret = 1 - Had(b.zset[n], k)
        /\ IF ret >= 0 /\ k # Empty
           THEN a = [b EXCEPT !.zset[n] = With(b.zset[n], k, v)] ELSE a = b
        => Promised(<<"zset", n, k, v>>, ret, item, b, a, fine)
    BY DEF Promised
  <1>2. /\ fine /\ k \in Keys => ret = Had(b.zset[n], k)
        /\ IF ret = 1 THEN a = [b EXCEPT !.zset[n] = Without(b.zset[n], k)] ELSE a = b
        => Promised(<<"zdel", n, k>>, ret, item, b, a, fine)
    BY DEF Promised
  <1>3. (IF ret # 1 \/ k = Empty THEN a = b
         ELSE /\ item = Sum(b.zset[n], k, v)
              /\ a = [b EXCEPT !.zset[n] = With(b.zset[n], k, item)])
        => Promised(<<"zincr", n, k, v>>, ret, item, b, a, fine)
    BY DEF Promised
  <1>4. QED
    BY <1>1, <1>2, <1>3

LEMMA ZdelAnswer ==
    ASSUME IInv, IInv', errors \in Nat, ZsetDel
    PROVE  AnswerRight
  <1>1. PICK n \in ZNames, k \in Keys \cup {TooLong}, f \in Faults({"entry", "size", "write"}) :
          Operation(<<"zdel", n, k>>, Zdel(n, k, f), f)
    BY DEF ZsetDel
  <1> DEFINE call == <<"zdel", n, k>>
             a == Contents(db')  b == Contents(db)  fine == errors' = errors
             ret == answer'.ret  item == answer'.item
             o == Zdel(n, k, f)
  <1>2. Works(o, ZsetKeys, n) /\ Transact(call, o, f)
    BY <1>1, ZdelWorks DEF Operation
  <1>3. /\ answer'.call = call /\ Outcome(o, f)
        /\ o.commits /\ f # "write" => Frame(ZsetKeys, n)
    <2> HIDE DEF o, call
    <2>1. QED
      BY <1>2, TransactOutcome
  <1>4. fine = (f = "none") /\ answer'.sure = TRUE
    BY <1>3 DEF Outcome
  <1>5. /\ IF ret = 1 THEN a = [b EXCEPT !.zset[n] = Without(b.zset[n], k)] ELSE a = b
        /\ fine /\ k \in Keys => ret = Had(b.zset[n], k)
    BY <1>3, <1>4, ZdelDone, ContentsAt
  <1> HIDE DEF a, b, ret, item, fine
  <1>6. Promised(call, ret, item, b, a, fine)
    BY <1>5, ZsetPromises
  <1>7. QED
    BY <1>3, <1>4, <1>6, PromiseKept DEF a, b, ret, item, fine

LEMMA ZsetAnswer ==
    ASSUME IInv, IInv', errors \in Nat, ZsetSet
    PROVE  AnswerRight
  <1>1. PICK n \in ZNames, k \in Named, score \in Scores, f \in Faults({"entry", "size", "write"}) :
          Operation(<<"zset", n, k, score>>, Zset1(n, k, score, f), f)
    BY DEF ZsetSet
  <1> DEFINE failed == f = "entry"
             new == ZsetOne(n, k, score, failed).new
             s == ScoreStored(n, k, score, failed, new, f)
             o == Zset1(n, k, score, f)  call == <<"zset", n, k, score>>
             none == Commit(<<>>, <<>>, 0)
             a == Contents(db')  b == Contents(db)  fine == errors' = errors
             ret == answer'.ret  item == answer'.item
  <1>2. IF k = Empty THEN o = none ELSE IF k = TooLong THEN o = Return(-1) ELSE o = s
    BY DEF Zset1
  <1>3. s.commits /\ s.ret = new
    BY DEF ScoreStored, Commit
  <1>4. new \in {0, 1} /\ (f = "none" => new = 1 - Had(b.zset[n], k))
    <2>1. new = IF Found(ZsetKey(n, k), failed) = 0 THEN 1 ELSE 0
      BY DEF ZsetOne
    <2>2. f = "none" => (Found(ZsetKey(n, k), failed) = 0 <=> k \notin DOMAIN b.zset[n])
      BY ZsetMember, ContentsAt DEF Found, IInv
    <2> HIDE DEF new
    <2>3. QED
      BY <2>1, <2>2 DEF Had
  <1>5. Works(s, ZsetKeys, n)
    BY ScoreStoredWorks
  <1>6. Works(o, ZsetKeys, n)
    <2> HIDE DEF s, o
    <2>1. QED
      BY <1>2, <1>5, ReturnWorks, NothingWorks
  <1>7. /\ answer'.call = call /\ Outcome(o, f)
        /\ o.commits /\ f # "write" => Frame(ZsetKeys, n)
    <2>1. Transact(call, o, f)
      BY <1>1 DEF Operation
    <2> HIDE DEF o, call
    <2>2. QED
      BY <1>6, <2>1, TransactOutcome
  <1>8. fine = (f = "none") /\ answer'.sure = TRUE
    BY <1>7 DEF Outcome
  <1>9. \A q : q.batch = s.batch /\ Outcome(q, f) /\ q.commits /\ f # "write"
               /\ Frame(ZsetKeys, n) => a = [b EXCEPT !.zset[n] = With(b.zset[n], k, score)]
    BY ScoreStoredDone, ContentsAt
  <1>10. none.commits /\ none.batch = <<>> /\ none.ret = 0
    BY DEF Commit
  <1> HIDE DEF o, new, failed, s, none
  <1>11. CASE k = Empty
    <2>1. a = b
      BY <1>2, <1>7, <1>10, <1>11, QueueOther, NothingDone
    <2>2. k \notin Keys
      BY <1>11, KeysNamed
    <2> HIDE DEF a, b, ret, item, fine
    <2>3. Promised(call, ret, item, b, a, fine)
      BY <1>11, <2>1, <2>2, ZsetPromises
    <2>4. QED
      BY <1>7, <1>8, <2>3, PromiseKept DEF a, b, ret, item, fine
  <1>12. CASE k # Empty /\ o.commits /\ f # "write"
    <2>1. o = s
      BY <1>2, <1>12 DEF Return
    <2>2. ret = new
      BY <1>3, <1>7, <1>12, <2>1 DEF Outcome
    <2>3. a = [b EXCEPT !.zset[n] = With(b.zset[n], k, score)]
      BY <1>7, <1>9, <1>12, <2>1
    <2>4. ret >= 0 /\ (fine => ret = 1 - Had(b.zset[n], k))
      BY <1>4, <1>8, <2>2
    <2> HIDE DEF a, b, ret, item, fine
    <2>5. Promised(call, ret, item, b, a, fine)
      BY <1>12, <2>3, <2>4, ZsetPromises
    <2>6. QED
      BY <1>7, <1>8, <2>5, PromiseKept DEF a, b, ret, item, fine
  <1>13. CASE k # Empty /\ ~(o.commits /\ f # "write")
    <2>1. a = b
      BY <1>7, <1>13 DEF Outcome
    <2>2. ret = -1 /\ (k \in Keys => f # "none")
      BY <1>2, <1>3, <1>7, <1>13, KeysNamed DEF Outcome, Return
    <2>3. ~(ret >= 0)
      BY <2>2
    <2> HIDE DEF a, b, ret, item
    <2>4. Promised(call, ret, item, b, a, fine)
      BY <1>8, <2>1, <2>2, <2>3, ZsetPromises
    <2>5. QED
      BY <1>7, <1>8, <2>4, PromiseKept DEF a, b, ret, item
  <1>14. QED
    BY <1>11, <1>12, <1>13

LEMMA ZincrAnswer ==
    ASSUME IInv, IInv', errors \in Nat, ZsetIncr
    PROVE  AnswerRight
  <1>1. PICK n \in ZNames, k \in Named, by \in {-1, 1},
             f \in Faults({"entry", "again", "size", "write"}) :
          Operation(<<"zincr", n, k, by>>, Zincr(n, k, by, f), f)
    BY DEF ZsetIncr
  <1> DEFINE failed == f = "again"
             sum == Addend(ZsetKey(n, k)) + by
             s == ScoreStored(n, k, sum, failed, 1, f)
             none == Commit(<<>>, <<>>, 1)
             stored == [s EXCEPT !.item = sum]
             empty == [none EXCEPT !.item = sum]
             o == Zincr(n, k, by, f)  call == <<"zincr", n, k, by>>
             a == Contents(db')  b == Contents(db)  fine == errors' = errors
             ret == answer'.ret  item == answer'.item
  <1>2. \/ o = Return(-1)
        \/ k = Empty /\ o = empty
        \/ k # Empty /\ o = stored
    BY DEF Zincr
  <1>3. /\ s.commits /\ s.ret = 1
        /\ none.commits /\ none.batch = <<>>
    BY DEF ScoreStored, Commit
  <1>4. Works(s, ZsetKeys, n) /\ Works(none, ZsetKeys, n)
    BY ScoreStoredWorks, NothingWorks
  <1>5. /\ s = [commits |-> s.commits, batch |-> s.batch, logs |-> s.logs, ret |-> s.ret,
                item |-> s.item, misread |-> s.misread]
        /\ none = [commits |-> none.commits, batch |-> none.batch, logs |-> none.logs,
                   ret |-> none.ret, item |-> none.item, misread |-> none.misread]
    BY StoredRecord DEF Commit
  <1>6. sum = Sum(b.zset[n], k, by)
    BY ZsetMember, ContentsAt DEF Sum, Addend, IInv
  <1>7. \A q : q.batch = s.batch /\ Outcome(q, f) /\ q.commits /\ f # "write"
               /\ Frame(ZsetKeys, n) => a = [b EXCEPT !.zset[n] = With(b.zset[n], k, sum)]
    BY ScoreStoredDone, ContentsAt
  <1> HIDE DEF s, sum, none
  <1>8. /\ Works(stored, ZsetKeys, n) /\ stored.batch = s.batch /\ stored.commits
        /\ stored.ret = 1 /\ stored.item = sum
    BY <1>3, <1>4, <1>5, ItemWorks
  <1>9. Works(empty, ZsetKeys, n) /\ empty.commits /\ empty.batch = <<>>
    BY <1>3, <1>4, <1>5, ItemWorks
  <1> HIDE DEF stored, empty, o
  <1>10. Works(o, ZsetKeys, n)
    BY <1>2, <1>8, <1>9, ReturnWorks
  <1>11. /\ answer'.call = call /\ Outcome(o, f)
         /\ o.commits /\ f # "write" => Frame(ZsetKeys, n)
    <2>1. Transact(call, o, f)
      BY <1>1 DEF Operation, o
    <2> HIDE DEF call
    <2>2. QED
      BY <1>10, <2>1, TransactOutcome
  <1>12. answer'.sure = TRUE
    BY <1>11 DEF Outcome
  <1>13. CASE k # Empty /\ o.commits /\ f # "write"
    <2>1. o = stored
      BY <1>2, <1>13 DEF Return
    <2>2. ret = 1 /\ item = sum
      BY <1>8, <1>11, <1>13, <2>1 DEF Outcome
    <2>3. a = [b EXCEPT !.zset[n] = With(b.zset[n], k, sum)]
      BY <1>7, <1>8, <1>11, <1>13, <2>1
    <2> HIDE DEF a, b, ret, item, fine
    <2>4. Promised(call, ret, item, b, a, fine)
      BY <1>6, <1>13, <2>2, <2>3, ZsetPromises
    <2>5. QED
      BY <1>11, <1>12, <2>4, PromiseKept DEF a, b, ret, item, fine
  <1>14. CASE k = Empty \/ ~(o.commits /\ f # "write")
    <2>1. a = b
      <3>1. CASE o.commits
        <4>1. CASE f = "write"
          BY <1>11, <4>1 DEF Outcome
        <4>2. CASE f # "write"
          <5>1. o = empty
            BY <1>2, <1>14, <3>1, <4>2 DEF Return
          <5>2. QED
            BY <1>9, <1>11, <3>1, <5>1, QueueOther, NothingDone
        <4>3. QED
          BY <4>1, <4>2
      <3>2. CASE ~o.commits
        BY <1>11, <3>2 DEF Outcome
      <3>3. QED
        BY <3>1, <3>2
    <2>2. ret # 1 \/ k = Empty
      BY <1>2, <1>8, <1>11, <1>14 DEF Outcome, Return
    <2> HIDE DEF a, b, ret, item, fine
    <2>3. Promised(call, ret, item, b, a, fine)
      BY <2>1, <2>2, ZsetPromises
    <2>4. QED
      BY <1>11, <1>12, <2>3, PromiseKept DEF a, b, ret, item, fine
  <1>15. QED
    BY <1>13, <1>14

-----------------------------------------------------------------------------
(* Queues.                                                                 *)

\* A queue none of whose entries changes.
LEMMA QueueUnchanged ==
    ASSUME IInv, IInv', NEW n \in QNames, n \notin orphaned, n \notin orphaned',
           \A s : s \notin Ends => Stays(QItemKey(n, s))
    PROVE  Queue(db', n) = Queue(db, n)
  <1>1. (\E a, b : Holds(db, n, a, b)) \/ HoldsNone(db, n)
    BY QueueHolds DEF QueuesHeld
  <1>2. (\E a, b : Holds(db', n, a, b)) \/ HoldsNone(db', n)
    BY QueueHoldsNext DEF QueuesHeld
  <1>3. \A s \in Places \ Ends : /\ QItemKey(n, s) \in DOMAIN db' <=> QItemKey(n, s) \in DOMAIN db
                                 /\ QItemKey(n, s) \in DOMAIN db
                                       => db'[QItemKey(n, s)] = db[QItemKey(n, s)]
    BY DEF Stays
  <1>4. ASSUME NEW d, NEW a, NEW b, Holds(d, n, a, b)
        PROVE  /\ a \in Int /\ b \in Int /\ a \in Places \ Ends /\ b \in Places \ Ends
               /\ QItemKey(n, a) \in DOMAIN d /\ QItemKey(n, b) \in DOMAIN d
    <2>1. a \in Int /\ b \in Int /\ a \in Places \ Ends /\ b \in Places \ Ends /\ a <= b
      BY <1>4, PlacesDiffer DEF Holds
    <2>2. QED
      BY <1>4, <2>1 DEF Holds
  <1>5. CASE HoldsNone(db, n)
    <2>1. HoldsNone(db', n)
      <3>1. ASSUME NEW a, NEW b, Holds(db', n, a, b) PROVE FALSE
        BY <1>3, <1>4, <1>5, <3>1 DEF HoldsNone
      <3>2. QED
        BY <1>2, <3>1
    <2>2. QED
      BY <1>5, <2>1, QueueHeld
  <1>6. ASSUME NEW a, NEW b, Holds(db, n, a, b) PROVE Queue(db', n) = Queue(db, n)
    <2>1. ~HoldsNone(db', n)
      BY <1>3, <1>4, <1>6 DEF HoldsNone
    <2>2. PICK e, f : Holds(db', n, e, f)
      BY <1>2, <2>1
    <2>3. /\ a \in Int /\ b \in Int /\ a \in Places \ Ends /\ b \in Places \ Ends
          /\ QItemKey(n, a) \in DOMAIN db /\ QItemKey(n, b) \in DOMAIN db
      BY <1>4, <1>6
    <2>4. /\ e \in Int /\ f \in Int /\ e \in Places \ Ends /\ f \in Places \ Ends
          /\ QItemKey(n, e) \in DOMAIN db' /\ QItemKey(n, f) \in DOMAIN db'
      BY <1>4, <2>2
    <2>5. a \in e .. f /\ b \in e .. f /\ e \in a .. b /\ f \in a .. b
      BY <1>3, <1>6, <2>2, <2>3, <2>4 DEF Holds
    <2>6. a = e /\ b = f
      BY <2>3, <2>4, <2>5
    <2>7. /\ Queue(db, n) = [i \in 1 .. b - a + 1 |-> db[QItemKey(n, a + i - 1)]]
          /\ Queue(db', n) = [i \in 1 .. b - a + 1 |-> db'[QItemKey(n, a + i - 1)]]
      BY <1>6, <2>2, <2>6, QueueHeld
    <2>8. \A i \in 1 .. b - a + 1 : db'[QItemKey(n, a + i - 1)] = db[QItemKey(n, a + i - 1)]
      <3>1. ASSUME NEW i \in 1 .. b - a + 1
            PROVE  db'[QItemKey(n, a + i - 1)] = db[QItemKey(n, a + i - 1)]
        <4> DEFINE s == a + i - 1
        <4>1. s \in a .. b
          BY <2>3
        <4> HIDE DEF s
        <4>2. s \in Places \ Ends
          <5>1. s \in QMin + 1 .. QMax
            BY <1>6, <2>3, <4>1, PlacesDiffer DEF Holds
          <5>2. QED
            BY <5>1, PlacesDiffer
        <4>3. QItemKey(n, s) \in DOMAIN db
          BY <1>6, <4>1, <4>2 DEF Holds
        <4>4. db'[QItemKey(n, s)] = db[QItemKey(n, s)]
          BY <1>3, <4>2, <4>3
        <4>5. QED
          BY <4>4 DEF s
      <3>2. QED
        BY <3>1
    <2>9. QED
      BY <2>7, <2>8
  <1>7. QED
    BY <1>1, <1>5, <1>6

\* The entries and ends that are not those of the queue n.
OnlyQueue(n) ==
    /\ \A x : IsEntry(x) /\ ~(x[1] = QUEUE /\ x[2] = n) => Stays(x)
    /\ \A m, s : m # n => Stays(QItemKey(m, s))

LEMMA QueueContents ==
    ASSUME IInv, IInv', NEW n \in QNames, OnlyQueue(n)
    PROVE  Contents(db') = [Contents(db) EXCEPT !.queue[n] = Queue(db', n)]
  <1>1. /\ \A k : Stays(KvKey(k))
        /\ \A m, k : Stays(HashKey(m, k)) /\ Stays(ZsetKey(m, k))
    <2>1. \A k : Stays(KvKey(k))
      BY DEF OnlyQueue, IsEntry, KvKey, KV, QUEUE
    <2>2. \A m, k : Stays(HashKey(m, k))
      BY DEF OnlyQueue, IsEntry, HashKey, HASH, QUEUE
    <2>3. \A m, k : Stays(ZsetKey(m, k))
      BY DEF OnlyQueue, IsEntry, ZsetKey, ZSET, QUEUE
    <2>4. QED
      BY <2>1, <2>2, <2>3
  <1>2. /\ Kv(db') = Kv(db)
        /\ \A m : Hash(db', m) = Hash(db, m) /\ Zset(db', m) = Zset(db, m)
        /\ \A m \in QNames : m # n => Queue(db', m) = Queue(db, m)
    BY <1>1, ObjectsStay DEF OnlyQueue
  <1>3. /\ [m \in HNames |-> Hash(db', m)] = [m \in HNames |-> Hash(db, m)]
        /\ [m \in ZNames |-> Zset(db', m)] = [m \in ZNames |-> Zset(db, m)]
        /\ [m \in QNames |-> Queue(db', m)]
             = [[m \in QNames |-> Queue(db, m)] EXCEPT ![n] = Queue(db', n)]
    BY <1>2
  <1> DEFINE kv == Kv(db)
             hash == [m \in HNames |-> Hash(db, m)]
             zset == [m \in ZNames |-> Zset(db, m)]
             queue == [m \in QNames |-> Queue(db, m)]
             new == Queue(db', n)
  <1>4. Contents(db) = [kv |-> kv, hash |-> hash, zset |-> zset, queue |-> queue]
    BY DEF Contents
  <1>5. Contents(db') = [kv |-> kv, hash |-> hash, zset |-> zset, queue |-> [queue EXCEPT ![n] = new]]
    BY <1>2, <1>3 DEF Contents
  <1> HIDE DEF kv, hash, zset, queue, new
  <1>6. [Contents(db) EXCEPT !.queue[n] = new]
          = [kv |-> kv, hash |-> hash, zset |-> zset, queue |-> [queue EXCEPT ![n] = new]]
    BY ONLY <1>4
  <1>7. QED
    BY <1>5, <1>6 DEF new

\* A batch that leaves plain values alone and is the queue's.
LEMMA QueueOnly ==
    ASSUME NEW n, NEW B, ChangesBy(B), OnlyAt(B, QueueKeys, n), NEW s, Safe(B, QItemKey(n, s))
    PROVE  OnlyQueue(n)
  <1>1. ASSUME NEW x, IsEntry(x), ~(x[1] = QUEUE /\ x[2] = n) PROVE Stays(x)
    <2>1. x # QItemKey(n, s)
      BY <1>1 DEF QItemKey
    <2>2. Untouched(B, x) /\ x[1] # SYNCLOG
      BY <1>1, <2>1 DEF Safe, IsEntry, KV, HASH, ZSET, QUEUE, SYNCLOG
    <2>3. QED
      BY <2>2 DEF ChangesBy
  <1>2. ASSUME NEW m, NEW t, m # n PROVE Stays(QItemKey(m, t))
    <2> DEFINE x == QItemKey(m, t)
    <2>1. x[1] # KV /\ x[1] # SYNCLOG /\ x[2] # n
      BY <1>2 DEF QItemKey, KV, QUEUE, SYNCLOG
    <2> HIDE DEF x
    <2>2. Untouched(B, x)
      BY <2>1 DEF OnlyAt
    <2>3. Stays(x)
      BY <2>1, <2>2 DEF ChangesBy
    <2>4. QED
      BY <2>3 DEF x
  <1>3. QED
    BY <1>1, <1>2 DEF OnlyQueue

\* Sequences as functions.
LEMMA SequenceFunctions ==
    ASSUME NEW q, NEW m \in Nat, q = [i \in 1 .. m |-> q[i]], NEW v
    PROVE  /\ Len(q) = m
           /\ <<v>> \o q = [i \in 1 .. m + 1 |-> IF i = 1 THEN v ELSE q[i - 1]]
           /\ Append(q, v) = [i \in 1 .. m + 1 |-> IF i = m + 1 THEN v ELSE q[i]]
           /\ \A p \in 1 .. m : [q EXCEPT ![p] = v] = [i \in 1 .. m |-> IF i = p THEN v ELSE q[i]]
  <1> DEFINE T == {q[i] : i \in 1 .. m} \cup {v}
  <1>1. q \in Seq(T) /\ Len(q) = m /\ v \in T
    <2>1. \A i \in 1 .. m : q[i] \in T
      OBVIOUS
    <2> HIDE DEF T
    <2>2. [i \in 1 .. m |-> q[i]] \in Seq(T) /\ Len([i \in 1 .. m |-> q[i]]) = m
      BY <2>1
    <2>3. v \in T
      BY DEF T
    <2>4. QED
      BY <2>2, <2>3
  <1> HIDE DEF T
  <1>2. <<v>> \in Seq(T) /\ Len(<<v>>) = 1 /\ <<v>>[1] = v
    BY <1>1
  <1>3. <<v>> \o q = [i \in 1 .. m + 1 |-> IF i = 1 THEN v ELSE q[i - 1]]
    <2> DEFINE h == <<v>> \o q  g == [i \in 1 .. m + 1 |-> IF i = 1 THEN v ELSE q[i - 1]]
    <2>1. /\ h \in Seq(T) /\ Len(h) = m + 1
          /\ \A i \in 1 .. m + 1 : h[i] = IF i = 1 THEN v ELSE q[i - 1]
      <3> DEFINE u == <<v>>
      <3>1. u \in Seq(T) /\ Len(u) = 1 /\ u[1] = v
        BY <1>2
      <3> HIDE DEF u
      <3>2. /\ u \o q \in Seq(T) /\ Len(u \o q) = Len(u) + Len(q)
            /\ \A i \in 1 .. Len(u) + Len(q) :
                   (u \o q)[i] = IF i <= Len(u) THEN u[i] ELSE q[i - Len(u)]
        BY <1>1, <3>1, ConcatProperties
      <3>3. /\ u \o q \in Seq(T) /\ Len(u \o q) = m + 1
            /\ \A i \in 1 .. m + 1 : (u \o q)[i] = IF i = 1 THEN v ELSE q[i - 1]
        <4>1. \A i \in 1 .. m + 1 : i <= 1 => i = 1
          OBVIOUS
        <4>2. QED
          BY <1>1, <3>1, <3>2, <4>1
      <3>4. QED
        BY <3>3 DEF u
    <2>2. DOMAIN h = 1 .. m + 1 /\ h = [i \in DOMAIN h |-> h[i]]
      <3> HIDE DEF h
      <3>1. QED
        BY <2>1
    <2>3. DOMAIN g = 1 .. m + 1 /\ \A i \in 1 .. m + 1 : g[i] = IF i = 1 THEN v ELSE q[i - 1]
      OBVIOUS
    <2>4. g = [i \in DOMAIN g |-> g[i]]
      OBVIOUS
    <2> HIDE DEF h, g
    <2>5. DOMAIN h = DOMAIN g /\ \A i \in DOMAIN h : h[i] = g[i]
      BY <2>1, <2>2, <2>3
    <2>6. h = g
      BY ONLY <2>2, <2>4, <2>5, SameFunction
    <2>7. QED
      BY <2>6 DEF h, g
  <1>4. Append(q, v) = [i \in 1 .. m + 1 |-> IF i = m + 1 THEN v ELSE q[i]]
    <2> DEFINE h == Append(q, v)  g == [i \in 1 .. m + 1 |-> IF i = m + 1 THEN v ELSE q[i]]
    <2>1. /\ h \in Seq(T) /\ Len(h) = m + 1
          /\ \A i \in 1 .. m + 1 : h[i] = IF i = m + 1 THEN v ELSE q[i]
      <3>1. /\ h \in Seq(T) /\ Len(h) = Len(q) + 1 /\ h[Len(q) + 1] = v
            /\ \A i \in 1 .. Len(q) : h[i] = q[i]
        BY <1>1, AppendProperties
      <3>2. \A i \in 1 .. m + 1 : i = m + 1 \/ i \in 1 .. m
        OBVIOUS
      <3> HIDE DEF h
      <3>3. QED
        BY <1>1, <3>1, <3>2
    <2>2. DOMAIN h = 1 .. m + 1 /\ h = [i \in DOMAIN h |-> h[i]]
      <3> HIDE DEF h
      <3>1. QED
        BY <2>1
    <2>3. DOMAIN g = 1 .. m + 1 /\ \A i \in 1 .. m + 1 : g[i] = IF i = m + 1 THEN v ELSE q[i]
      OBVIOUS
    <2>4. g = [i \in DOMAIN g |-> g[i]]
      OBVIOUS
    <2> HIDE DEF h, g
    <2>5. DOMAIN h = DOMAIN g /\ \A i \in DOMAIN h : h[i] = g[i]
      BY <2>1, <2>2, <2>3
    <2>6. h = g
      BY ONLY <2>2, <2>4, <2>5, SameFunction
    <2>7. QED
      BY <2>6 DEF h, g
  <1>5. \A p \in 1 .. m : [q EXCEPT ![p] = v] = [i \in 1 .. m |-> IF i = p THEN v ELSE q[i]]
    OBVIOUS
  <1>6. QED
    BY <1>1, <1>3, <1>4, <1>5

LEMMA SequenceParts ==
    ASSUME NEW q, NEW m \in Nat, q = [i \in 1 .. m |-> q[i]], m > 0
    PROVE  /\ q # <<>>
           /\ Head(q) = q[1] /\ Tail(q) = [i \in 1 .. m - 1 |-> q[i + 1]]
           /\ Last(q) = q[m] /\ Front(q) = [i \in 1 .. m - 1 |-> q[i]]
  <1> DEFINE T == {q[i] : i \in 1 .. m}
  <1>1. q \in Seq(T) /\ Len(q) = m
    <2>1. \A i \in 1 .. m : q[i] \in T
      OBVIOUS
    <2> HIDE DEF T
    <2>2. [i \in 1 .. m |-> q[i]] \in Seq(T) /\ Len([i \in 1 .. m |-> q[i]]) = m
      BY <2>1
    <2>3. QED
      BY <2>2
  <1> HIDE DEF T
  <1>2. q # <<>> /\ Head(q) = q[1] /\ Last(q) = q[m]
    BY <1>1 DEF Last
  <1>3. Tail(q) = [i \in 1 .. m - 1 |-> q[i + 1]]
    BY <1>1
  <1>4. Front(q) = [i \in 1 .. m - 1 |-> q[i]]
    BY <1>1 DEF Front
  <1>5. QED
    BY <1>2, <1>3, <1>4

\* The entries of a queue by their numbers.
LEMMA HeldItems ==
    ASSUME NEW d, NEW n, NEW a, NEW b, Holds(d, n, a, b)
    PROVE  /\ a \in Int /\ b \in Int /\ a <= b /\ QMin \in Nat /\ QMax \in Nat
           /\ a \in QMin + 1 .. QMax /\ b \in QMin + 1 .. QMax
           /\ Queue(d, n) = [i \in 1 .. b - a + 1 |-> Queue(d, n)[i]]
           /\ Len(Queue(d, n)) = b - a + 1 /\ Queue(d, n) # <<>>
           /\ \A i \in 1 .. b - a + 1 :
                 /\ a + i - 1 \in a .. b
                 /\ QItemKey(n, a + i - 1) \in DOMAIN d
                 /\ Queue(d, n)[i] = d[QItemKey(n, a + i - 1)]
           /\ \A s \in a .. b : s \in Places \ Ends /\ s # QFRONT /\ s # QBACK
  <1>1. /\ a \in Int /\ b \in Int /\ a <= b /\ QMin \in Nat /\ QMax \in Nat
        /\ a \in QMin + 1 .. QMax /\ b \in QMin + 1 .. QMax
    BY PlacesDiffer DEF Holds
  <1>2. \A s \in a .. b : s \in Places \ Ends /\ s # QFRONT /\ s # QBACK
    <2>1. \A s \in a .. b : s \in QMin + 1 .. QMax
      BY <1>1
    <2>2. QED
      BY <2>1, PlacesDiffer
  <1>3. Queue(d, n) = [i \in 1 .. b - a + 1 |-> d[QItemKey(n, a + i - 1)]]
    BY QueueHeld
  <1>4. \A i \in 1 .. b - a + 1 : a + i - 1 \in a .. b
    BY <1>1
  <1>5. \A i \in 1 .. b - a + 1 : QItemKey(n, a + i - 1) \in DOMAIN d
    BY <1>2, <1>4 DEF Holds
  <1> DEFINE q == Queue(d, n)  m == b - a + 1
  <1>6. q = [i \in 1 .. m |-> q[i]] /\ m \in Nat /\ m > 0
    BY <1>1, <1>3
  <1> HIDE DEF q, m
  <1>7. Len(q) = m /\ q # <<>>
    BY <1>6, SequenceFunctions
  <1>8. QED
    BY <1>1, <1>2, <1>3, <1>4, <1>5, <1>6, <1>7 DEF q, m

\* The first or last entry is added.
LEMMA PushedQueue ==
    ASSUME NEW n, NEW a, NEW b, Holds(db, n, a, b), NEW end \in Ends, NEW item,
           NEW seq \in QMin + 1 .. QMax, seq = IF end = QFRONT THEN a - 1 ELSE b + 1,
           Becomes(QItemKey(n, end), seq), Becomes(QItemKey(n, seq), item),
           \A s : s # end /\ s # seq => Stays(QItemKey(n, s))
    PROVE  /\ Queue(db', n) = IF end = QFRONT THEN <<item>> \o Queue(db, n)
                              ELSE Append(Queue(db, n), item)
           /\ Len(Queue(db, n)) = b - a + 1
  <1> DEFINE q == Queue(db, n)  m == b - a + 1
             c == IF end = QFRONT THEN seq ELSE a
             e == IF end = QFRONT THEN b ELSE seq
  <1>1. /\ a \in Int /\ b \in Int /\ a <= b /\ QMin \in Nat /\ QMax \in Nat
        /\ a \in QMin + 1 .. QMax /\ b \in QMin + 1 .. QMax
        /\ q = [i \in 1 .. m |-> q[i]] /\ Len(q) = m
        /\ \A i \in 1 .. m : /\ a + i - 1 \in a .. b
                             /\ QItemKey(n, a + i - 1) \in DOMAIN db
                             /\ q[i] = db[QItemKey(n, a + i - 1)]
        /\ \A s \in a .. b : s \in Places \ Ends /\ s # QFRONT /\ s # QBACK
    BY HeldItems
  <1>2. seq \in Int /\ seq # QFRONT /\ seq # QBACK /\ seq \notin a .. b /\ QFRONT # QBACK
        /\ seq \in Places \ Ends
    <2>1. seq \in Int /\ seq # QFRONT /\ seq # QBACK /\ QFRONT # QBACK /\ seq \in Places \ Ends
      BY PlacesDiffer
    <2>2. seq = a - 1 \/ seq = b + 1
      OBVIOUS
    <2>3. seq \notin a .. b
      BY <1>1, <2>1, <2>2
    <2>4. QED
      BY <2>1, <2>3
  <1>3. Holds(db', n, c, e)
    <2>1. c \in QMin + 1 .. QMax /\ e \in QMin + 1 .. QMax /\ c <= e
      BY <1>1, <1>2
    <2>2. /\ QItemKey(n, QFRONT) \in DOMAIN db' /\ db'[QItemKey(n, QFRONT)] = c
          /\ QItemKey(n, QBACK) \in DOMAIN db' /\ db'[QItemKey(n, QBACK)] = e
      <3>1. CASE end = QFRONT
        BY <1>2, <3>1 DEF Becomes, Stays, Holds
      <3>2. CASE end = QBACK
        BY <1>2, <3>2 DEF Becomes, Stays, Holds
      <3>3. QED
        BY <3>1, <3>2 DEF Ends
    <2>3. \A s \in Int : s \in c .. e <=> s \in a .. b \/ s = seq
      BY <1>1, <1>2
    <2>4. ASSUME NEW s \in Places \ Ends PROVE QItemKey(n, s) \in DOMAIN db' <=> s \in c .. e
      <3>1. s \in Int /\ s # end
        BY PlacesDiffer DEF Places, Ends
      <3>2. CASE s = seq
        BY <1>2, <2>3, <3>2 DEF Becomes
      <3>3. CASE s # seq
        BY <2>3, <3>1, <3>3 DEF Stays, Holds
      <3>4. QED
        BY <3>2, <3>3
    <2> HIDE DEF c, e
    <2>5. QED
      BY <2>1, <2>2, <2>4 DEF Holds
  <1> DEFINE r == Queue(db', n)
  <1>4. /\ r = [i \in 1 .. e - c + 1 |-> r[i]]
        /\ \A i \in 1 .. e - c + 1 : r[i] = db'[QItemKey(n, c + i - 1)]
    BY <1>3, HeldItems, SMTT(30)
  <1>5. e - c + 1 = m + 1 /\ m \in Nat
    BY <1>1
  <1>6. \A s \in a .. b : db'[QItemKey(n, s)] = db[QItemKey(n, s)]
    <2>1. ASSUME NEW s \in a .. b PROVE db'[QItemKey(n, s)] = db[QItemKey(n, s)]
      <3>1. s # end /\ s # seq /\ QItemKey(n, s) \in DOMAIN db
        BY <1>1, <1>2 DEF Ends, Holds
      <3>2. QED
        BY <3>1 DEF Stays
    <2>2. QED
      BY <2>1
  <1>7. db'[QItemKey(n, seq)] = item
    BY DEF Becomes
  <1> HIDE DEF q, r, m
  <1>8. CASE end = QFRONT
    <2>1. c = seq /\ seq = a - 1
      BY <1>8
    <2>2. \A i \in 1 .. m + 1 : r[i] = IF i = 1 THEN item ELSE q[i - 1]
      <3>1. ASSUME NEW i \in 1 .. m + 1 PROVE r[i] = IF i = 1 THEN item ELSE q[i - 1]
        <4>1. r[i] = db'[QItemKey(n, seq + i - 1)]
          BY <1>4, <1>5, <2>1
        <4>2. CASE i = 1
          <5>1. seq + i - 1 = seq
            BY <1>2, <4>2
          <5>2. QED
            BY <1>7, <4>1, <4>2, <5>1
        <4>3. CASE i # 1
          <5>1. i - 1 \in 1 .. m /\ seq + i - 1 = a + (i - 1) - 1 /\ i \in Int
            BY <1>1, <1>5, <2>1, <4>3, SMTT(30)
          <5>2. q[i - 1] = db[QItemKey(n, a + (i - 1) - 1)] /\ a + (i - 1) - 1 \in a .. b
            BY <1>1, <5>1
          <5>3. QED
            BY <1>6, <4>1, <4>3, <5>1, <5>2
        <4>4. QED
          BY <4>2, <4>3
      <3>2. QED
        BY <3>1
    <2>3. r = [i \in 1 .. m + 1 |-> IF i = 1 THEN item ELSE q[i - 1]]
      <3>1. r = [i \in 1 .. m + 1 |-> r[i]]
        BY <1>4, <1>5
      <3>2. [i \in 1 .. m + 1 |-> r[i]] = [i \in 1 .. m + 1 |-> IF i = 1 THEN item ELSE q[i - 1]]
        BY <2>2
      <3>3. QED
        BY <3>1, <3>2
    <2>4. r = <<item>> \o q
      BY <1>1, <1>5, <2>3, SequenceFunctions
    <2>5. QED
      BY <1>1, <1>8, <2>4 DEF q, r, m
  <1>9. CASE end # QFRONT
    <2>1. c = a /\ seq = b + 1
      BY <1>9
    <2>2. \A i \in 1 .. m + 1 : r[i] = IF i = m + 1 THEN item ELSE q[i]
      <3>1. ASSUME NEW i \in 1 .. m + 1 PROVE r[i] = IF i = m + 1 THEN item ELSE q[i]
        <4>1. r[i] = db'[QItemKey(n, a + i - 1)]
          BY <1>4, <1>5, <2>1
        <4>2. CASE i = m + 1
          <5>1. a + i - 1 = seq
            BY <1>1, <2>1, <4>2 DEF m
          <5>2. QED
            BY <1>7, <4>1, <4>2, <5>1
        <4>3. CASE i # m + 1
          <5>1. i \in 1 .. m
            BY <1>5, <4>3
          <5>2. q[i] = db[QItemKey(n, a + i - 1)] /\ a + i - 1 \in a .. b
            BY <1>1, <5>1
          <5>3. QED
            BY <1>6, <4>1, <4>3, <5>2
        <4>4. QED
          BY <4>2, <4>3
      <3>2. QED
        BY <3>1
    <2>3. r = [i \in 1 .. m + 1 |-> IF i = m + 1 THEN item ELSE q[i]]
      <3>1. r = [i \in 1 .. m + 1 |-> r[i]]
        BY <1>4, <1>5
      <3>2. [i \in 1 .. m + 1 |-> r[i]] = [i \in 1 .. m + 1 |-> IF i = m + 1 THEN item ELSE q[i]]
        BY <2>2
      <3>3. QED
        BY <3>1, <3>2
    <2>4. r = Append(q, item)
      BY <1>1, <1>5, <2>3, SequenceFunctions, SMTT(30)
    <2>5. QED
      BY <1>1, <1>9, <2>4 DEF q, r, m
  <1>10. QED
    BY <1>8, <1>9

\* The only entry is added.
LEMMA FirstQueue ==
    ASSUME NEW n, NEW item, HoldsNone(db, n),
           Becomes(QItemKey(n, QFRONT), QInit), Becomes(QItemKey(n, QBACK), QInit),
           Becomes(QItemKey(n, QInit), item)
    PROVE  Queue(db', n) = <<item>> /\ Queue(db, n) = <<>>
  <1>1. Queue(db, n) = <<>>
    BY QueueHeld
  <1>2. QInit \in Int
    BY PlacesDiffer
  <1>3. Queue(db', n) = [i \in 1 .. Cardinality(QInit .. QInit) |->
                            LET x == QItemKey(n, QInit + i - 1)
                            IN IF x \in DOMAIN db' THEN db'[x] ELSE Nothing]
    BY DEF Queue, Becomes
  <1>4. Cardinality(QInit .. QInit) = 1
    <2>1. \A u, w \in Int : u <= w => Cardinality(u .. w) = w - u + 1
      BY FS_Interval
    <2>2. \A u \in Int : u <= u /\ u - u + 1 = 1
      OBVIOUS
    <2>3. \A u \in Int : Cardinality(u .. u) = 1
      BY ONLY <2>1, <2>2
    <2>4. QED
      BY <1>2, <2>3
  <1>5. \A i \in 1 .. 1 : QInit + i - 1 = QInit
    BY <1>2
  <1>6. Queue(db', n) = [i \in 1 .. 1 |-> item]
    BY <1>3, <1>4, <1>5 DEF Becomes
  <1>7. [i \in 1 .. 1 |-> item] = <<item>>
    OBVIOUS
  <1>8. QED
    BY <1>1, <1>6, <1>7

\* The first or last entry is taken away, and others are left.
LEMMA PoppedQueue ==
    ASSUME NEW n, NEW a, NEW b, Holds(db, n, a, b), a < b, NEW end \in Ends,
           NEW seq, seq = IF end = QFRONT THEN a ELSE b,
           NEW next, next = IF end = QFRONT THEN a + 1 ELSE b - 1,
           Becomes(QItemKey(n, end), next), Gone(QItemKey(n, seq)),
           \A s : s # end /\ s # seq => Stays(QItemKey(n, s))
    PROVE  Queue(db', n) = IF end = QFRONT THEN Tail(Queue(db, n)) ELSE Front(Queue(db, n))
  <1> DEFINE q == Queue(db, n)  m == b - a + 1
             c == IF end = QFRONT THEN next ELSE a
             e == IF end = QFRONT THEN b ELSE next
  <1>1. /\ a \in Int /\ b \in Int /\ a <= b /\ QMin \in Nat /\ QMax \in Nat
        /\ a \in QMin + 1 .. QMax /\ b \in QMin + 1 .. QMax
        /\ q = [i \in 1 .. m |-> q[i]] /\ Len(q) = m
        /\ \A i \in 1 .. m : /\ a + i - 1 \in a .. b
                             /\ QItemKey(n, a + i - 1) \in DOMAIN db
                             /\ q[i] = db[QItemKey(n, a + i - 1)]
        /\ \A s \in a .. b : s \in Places \ Ends /\ s # QFRONT /\ s # QBACK
    BY HeldItems
  <1>2. seq \in Int /\ seq # QFRONT /\ seq # QBACK /\ seq \in a .. b /\ QFRONT # QBACK
    <2>1. seq \in a .. b
      BY <1>1
    <2>2. QED
      BY <1>1, <2>1, PlacesDiffer
  <1>3. \A s \in Int : s \in c .. e <=> s \in a .. b /\ s # seq
    <2>1. CASE end = QFRONT
      BY <1>1, <2>1
    <2>2. CASE end # QFRONT
      BY <1>1, <2>2
    <2>3. QED
      BY <2>1, <2>2
  <1>4. Holds(db', n, c, e)
    <2>1. c \in QMin + 1 .. QMax /\ e \in QMin + 1 .. QMax /\ c <= e
      BY <1>1, <1>2
    <2>2. /\ QItemKey(n, QFRONT) \in DOMAIN db' /\ db'[QItemKey(n, QFRONT)] = c
          /\ QItemKey(n, QBACK) \in DOMAIN db' /\ db'[QItemKey(n, QBACK)] = e
      <3>1. CASE end = QFRONT
        BY <1>2, <3>1 DEF Becomes, Stays, Holds
      <3>2. CASE end = QBACK
        BY <1>2, <3>2 DEF Becomes, Stays, Holds
      <3>3. QED
        BY <3>1, <3>2 DEF Ends
    <2>3. ASSUME NEW s \in Places \ Ends PROVE QItemKey(n, s) \in DOMAIN db' <=> s \in c .. e
      <3>1. s \in Int /\ s # end
        BY PlacesDiffer DEF Places, Ends
      <3>2. CASE s = seq
        BY <1>3, <3>1, <3>2 DEF Gone
      <3>3. CASE s # seq
        BY <1>3, <3>1, <3>3 DEF Stays, Holds
      <3>4. QED
        BY <3>2, <3>3
    <2> HIDE DEF c, e
    <2>4. QED
      BY <2>1, <2>2, <2>3 DEF Holds
  <1> DEFINE r == Queue(db', n)
  <1>5. /\ r = [i \in 1 .. e - c + 1 |-> r[i]]
        /\ \A i \in 1 .. e - c + 1 : c + i - 1 \in c .. e /\ r[i] = db'[QItemKey(n, c + i - 1)]
        /\ \A s \in c .. e : s \in Places \ Ends /\ s # QFRONT /\ s # QBACK
    BY <1>4, HeldItems, SMTT(30)
  <1>6. e - c + 1 = m - 1 /\ m \in Nat /\ m > 0 /\ m - 1 \in Nat
    BY <1>1
  <1>7. \A s \in c .. e : db'[QItemKey(n, s)] = db[QItemKey(n, s)]
    <2>1. ASSUME NEW s \in c .. e PROVE db'[QItemKey(n, s)] = db[QItemKey(n, s)]
      <3>1. s \in Int
        BY <1>1
      <3>2. s \in a .. b /\ s # seq
        BY <1>3, <3>1
      <3>3. s # end /\ QItemKey(n, s) \in DOMAIN db
        BY <1>1, <3>2 DEF Ends, Holds
      <3>4. QED
        BY <3>2, <3>3 DEF Stays
    <2>2. QED
      BY <2>1
  <1> HIDE DEF q, r, m
  <1>8. CASE end = QFRONT
    <2>1. c = a + 1
      BY <1>8
    <2>2. \A i \in 1 .. m - 1 : r[i] = q[i + 1]
      <3>1. ASSUME NEW i \in 1 .. m - 1 PROVE r[i] = q[i + 1]
        <4>1. r[i] = db'[QItemKey(n, c + i - 1)] /\ c + i - 1 \in c .. e
          BY <1>5, <1>6
        <4>2. i + 1 \in 1 .. m /\ c + i - 1 = a + (i + 1) - 1
          BY <1>1, <1>6, <2>1, SMTT(30)
        <4>3. q[i + 1] = db[QItemKey(n, a + (i + 1) - 1)]
          BY <1>1, <4>2
        <4>4. QED
          BY <1>7, <4>1, <4>2, <4>3
      <3>2. QED
        BY <3>1
    <2>3. r = [i \in 1 .. m - 1 |-> q[i + 1]]
      <3>1. r = [i \in 1 .. m - 1 |-> r[i]]
        BY <1>5, <1>6
      <3>2. [i \in 1 .. m - 1 |-> r[i]] = [i \in 1 .. m - 1 |-> q[i + 1]]
        BY <2>2
      <3>3. QED
        BY <3>1, <3>2
    <2>4. Tail(q) = [i \in 1 .. m - 1 |-> q[i + 1]]
      <3>1. q = [i \in 1 .. m |-> q[i]]
        BY <1>1
      <3>2. QED
        BY ONLY <1>6, <3>1, SequenceParts, Zenon
    <2>5. r = Tail(q)
      BY ONLY <2>3, <2>4, Zenon
    <2>6. QED
      BY <1>8, <2>5 DEF q, r
  <1>9. CASE end # QFRONT
    <2>1. c = a
      BY <1>9
    <2>2. \A i \in 1 .. m - 1 : r[i] = q[i]
      <3>1. ASSUME NEW i \in 1 .. m - 1 PROVE r[i] = q[i]
        <4>1. r[i] = db'[QItemKey(n, a + i - 1)] /\ a + i - 1 \in c .. e
          BY <1>5, <1>6, <2>1
        <4>2. i \in 1 .. m
          BY <1>6
        <4>3. q[i] = db[QItemKey(n, a + i - 1)]
          BY <1>1, <4>2
        <4>4. QED
          BY <1>7, <4>1, <4>3
      <3>2. QED
        BY <3>1
    <2>3. r = [i \in 1 .. m - 1 |-> q[i]]
      <3>1. r = [i \in 1 .. m - 1 |-> r[i]]
        BY <1>5, <1>6
      <3>2. [i \in 1 .. m - 1 |-> r[i]] = [i \in 1 .. m - 1 |-> q[i]]
        BY <2>2
      <3>3. QED
        BY <3>1, <3>2
    <2>4. Front(q) = [i \in 1 .. m - 1 |-> q[i]]
      <3>1. q = [i \in 1 .. m |-> q[i]]
        BY <1>1
      <3>2. QED
        BY ONLY <1>6, <3>1, SequenceParts, Zenon
    <2>5. r = Front(q)
      BY ONLY <2>3, <2>4, Zenon
    <2>6. QED
      BY <1>9, <2>5 DEF q, r
  <1>10. QED
    BY <1>8, <1>9

\* The ends of what it holds.
LEMMA HeldEnds ==
    ASSUME NEW n, NEW a, NEW b, Holds(db, n, a, b)
    PROVE  /\ Head(Queue(db, n)) = db[QItemKey(n, a)] /\ QItemKey(n, a) \in DOMAIN db
           /\ Last(Queue(db, n)) = db[QItemKey(n, b)] /\ QItemKey(n, b) \in DOMAIN db
           /\ Queue(db, n) # <<>>
           /\ a = b => Tail(Queue(db, n)) = <<>> /\ Front(Queue(db, n)) = <<>>
  <1> DEFINE q == Queue(db, n)  m == b - a + 1
  <1>1. /\ a \in Int /\ b \in Int /\ a <= b
        /\ q = [i \in 1 .. m |-> q[i]] /\ q # <<>>
        /\ \A i \in 1 .. m : /\ QItemKey(n, a + i - 1) \in DOMAIN db
                             /\ q[i] = db[QItemKey(n, a + i - 1)]
    BY HeldItems
  <1>2. m \in Nat /\ m > 0 /\ a + 1 - 1 = a /\ a + m - 1 = b /\ 1 \in 1 .. m /\ m \in 1 .. m
    BY <1>1
  <1>3. /\ q[1] = db[QItemKey(n, a)] /\ QItemKey(n, a) \in DOMAIN db
        /\ q[m] = db[QItemKey(n, b)] /\ QItemKey(n, b) \in DOMAIN db
    BY <1>1, <1>2
  <1>4. a = b => m = 1
    BY <1>1
  <1> HIDE DEF q, m
  <1>5. /\ Head(q) = q[1] /\ Tail(q) = [i \in 1 .. m - 1 |-> q[i + 1]]
        /\ Last(q) = q[m] /\ Front(q) = [i \in 1 .. m - 1 |-> q[i]]
    BY ONLY <1>1, <1>2, SequenceParts
  <1>6. a = b => Tail(q) = <<>> /\ Front(q) = <<>>
    <2>1. a = b => Tail(q) = [i \in 1 .. 0 |-> q[i + 1]] /\ Front(q) = [i \in 1 .. 0 |-> q[i]]
      BY <1>4, <1>5
    <2>2. QED
      BY <2>1
  <1>7. QED
    BY <1>1, <1>3, <1>5, <1>6 DEF q

\* An entry is written over.
LEMMA SetQueue ==
    ASSUME IInv, NEW n, NEW a, NEW b, Holds(db, n, a, b), NEW seq \in a .. b, NEW item,
           Becomes(QItemKey(n, seq), item), \A s : s # seq => Stays(QItemKey(n, s))
    PROVE  /\ seq - a + 1 \in 1 .. b - a + 1 /\ DOMAIN Queue(db, n) = 1 .. b - a + 1
           /\ Queue(db', n) = [Queue(db, n) EXCEPT ![seq - a + 1] = item]
  <1> DEFINE q == Queue(db, n)  m == b - a + 1  p == seq - a + 1
  <1>1. /\ a \in Int /\ b \in Int /\ a <= b
        /\ a \in QMin + 1 .. QMax /\ b \in QMin + 1 .. QMax
        /\ q = [i \in 1 .. m |-> q[i]]
        /\ \A i \in 1 .. m : /\ a + i - 1 \in a .. b
                             /\ QItemKey(n, a + i - 1) \in DOMAIN db
                             /\ q[i] = db[QItemKey(n, a + i - 1)]
        /\ \A s \in a .. b : s \in Places \ Ends /\ s # QFRONT /\ s # QBACK
    BY HeldItems
  <1>2. seq \in Int /\ seq # QFRONT /\ seq # QBACK /\ p \in 1 .. m /\ a + p - 1 = seq
    BY <1>1
  <1>3. Holds(db', n, a, b)
    <2>1. /\ QItemKey(n, QFRONT) \in DOMAIN db' /\ db'[QItemKey(n, QFRONT)] = a
          /\ QItemKey(n, QBACK) \in DOMAIN db' /\ db'[QItemKey(n, QBACK)] = b
      BY <1>2 DEF Stays, Holds
    <2>2. ASSUME NEW s \in Places \ Ends PROVE QItemKey(n, s) \in DOMAIN db' <=> s \in a .. b
      BY DEF Stays, Holds, Becomes
    <2>3. QED
      BY <1>1, <2>1, <2>2 DEF Holds
  <1> DEFINE r == Queue(db', n)
  <1>4. /\ r = [i \in 1 .. m |-> r[i]]
        /\ \A i \in 1 .. m : r[i] = db'[QItemKey(n, a + i - 1)]
    BY <1>3, HeldItems
  <1> HIDE DEF q, r
  <1>5. \A i \in 1 .. m : r[i] = IF i = p THEN item ELSE q[i]
    <2>1. ASSUME NEW i \in 1 .. m PROVE r[i] = IF i = p THEN item ELSE q[i]
      <3>1. r[i] = db'[QItemKey(n, a + i - 1)] /\ q[i] = db[QItemKey(n, a + i - 1)]
            /\ QItemKey(n, a + i - 1) \in DOMAIN db
        BY <1>1, <1>4
      <3>2. CASE i = p
        BY <1>2, <3>1, <3>2 DEF Becomes
      <3>3. CASE i # p
        <4>1. a + i - 1 # seq
          BY <1>1, <1>2, <3>3
        <4>2. QED
          BY <3>1, <3>3, <4>1 DEF Stays
      <3>4. QED
        BY <3>2, <3>3
    <2>2. QED
      BY <2>1
  <1> HIDE DEF m, p
  <1>6. r = [i \in 1 .. m |-> IF i = p THEN item ELSE q[i]]
    <2>1. [i \in 1 .. m |-> r[i]] = [i \in 1 .. m |-> IF i = p THEN item ELSE q[i]]
      BY <1>5
    <2>2. QED
      BY <1>4, <2>1
  <1>7. [q EXCEPT ![p] = item] = [i \in 1 .. m |-> IF i = p THEN item ELSE q[i]]
    BY <1>1
  <1>8. DOMAIN q = 1 .. m
    BY <1>1
  <1>9. QED
    BY <1>2, <1>6, <1>7, <1>8 DEF q, r, m, p

\* What qpush writes.
LEMMA QpushBatch ==
    ASSUME IInv, NEW n \in QNames, NEW item, NEW end \in Ends, NEW f
    PROVE  LET r == Qpush(n, item, end, f)
           IN /\ Works(r, QueueKeys, n)
              /\ \/ r = Return(-1)
                 \/ /\ r.commits /\ r.ret = QSize(n) + 1 /\ QSizeKey(n) \notin DOMAIN db
                    /\ r.batch = (<<Put(QItemKey(n, QFRONT), QInit), Put(QItemKey(n, QBACK), QInit)>>
                                    \o <<Put(QItemKey(n, QInit), item)>>) \o <<Put(QSizeKey(n), 1)>>
                 \/ /\ r.commits /\ r.ret = QSize(n) + 1 /\ QSizeKey(n) \in DOMAIN db
                    /\ \E seq \in QMin + 1 .. QMax :
                          /\ seq = Sequence(n, end) + (IF end = QFRONT THEN -1 ELSE 1)
                          /\ ~(seq <= QMin) /\ ~(seq >= QMax)
                          /\ r.batch = (<<Put(QItemKey(n, end), seq)>> \o <<Put(QItemKey(n, seq), item)>>)
                                         \o <<Put(QSizeKey(n), QSize(n) + 1)>>
  <1> DEFINE new == QItemKey(n, end) \notin DOMAIN db
             seq == IF new THEN QInit
                    ELSE Sequence(n, end) + (IF end = QFRONT THEN -1 ELSE 1)
             ends == IF new THEN <<Put(QItemKey(n, QFRONT), seq), Put(QItemKey(n, QBACK), seq)>>
                     ELSE <<Put(QItemKey(n, end), seq)>>
             cmd == IF end = QFRONT THEN "QPUSH_FRONT" ELSE "QPUSH_BACK"
             B == (ends \o <<Put(QItemKey(n, seq), item)>>) \o IncrQSize(n, 1)
             L == <<Log(cmd, QItemKey(n, seq))>>
             o == Commit(B, L, QSize(n) + 1)
             r == Qpush(n, item, end, f)
  <1>1. \/ r = Return(-1)
        \/ ~(seq <= QMin) /\ ~(seq >= QMax) /\ r = o
    BY DEF Qpush
  <1> HIDE DEF r
  <1>2. CASE r = Return(-1)
    BY <1>2, ReturnWorks DEF r
  <1>3. CASE ~(seq <= QMin) /\ ~(seq >= QMax) /\ r = o
    <2>1. new <=> QSizeKey(n) \notin DOMAIN db
      BY QueueValues DEF IInv, Ends
    <2>2. seq \in QMin + 1 .. QMax
      <3>1. CASE new
        BY <3>1, PlacesDiffer
      <3>2. CASE ~new
        <4>1. Sequence(n, end) \in Int
          BY <2>1, <3>2, QueueValues, PlacesDiffer DEF IInv, Ends
        <4>2. QMin \in Nat /\ QMax \in Nat
          BY PlacesDiffer
        <4> HIDE DEF new
        <4>3. seq \in Int
          BY <3>2, <4>1
        <4> HIDE DEF seq
        <4>4. QED
          BY <1>3, <4>2, <4>3
      <3>3. QED
        BY <3>1, <3>2
    <2>3. seq \in Places /\ end \in Places
      BY <2>2, PlacesDiffer DEF Ends
    <2>4. Batch(<<Put(QItemKey(n, seq), item)>>, QueueKeys, n)
      BY <2>3, ItemIsBatch
    <2>5. Batch(ends, QueueKeys, n)
      <3> DEFINE p == Put(QItemKey(n, QFRONT), seq)  q == Put(QItemKey(n, QBACK), seq)
      <3>1. Batch(<<p>>, QueueKeys, n) /\ Batch(<<q>>, QueueKeys, n)
        BY ItemIsBatch, PlacesDiffer
      <3>2. Batch(<<Put(QItemKey(n, end), seq)>>, QueueKeys, n)
        BY <2>3, ItemIsBatch
      <3>3. Batch(<<p, q>>, QueueKeys, n)
        BY <3>1, TwoIsBatch
      <3> HIDE DEF seq
      <3>4. QED
        BY <3>2, <3>3
    <2>6. Batch(B, QueueKeys, n)
      <3> HIDE DEF seq, ends
      <3>1. Batch(IncrQSize(n, 1), QueueKeys, n)
        BY SizesBatch
      <3>2. QED
        BY <2>4, <2>5, <3>1, ThreeParts
    <2>7. r.batch = B /\ r.logs = L /\ r.commits /\ r.ret = QSize(n) + 1
      BY <1>3 DEF Commit
    <2>8. Works(r, QueueKeys, n)
      <3> HIDE DEF B
      <3>1. IsSeq(L)
        BY OneIsSeq
      <3> HIDE DEF L
      <3>2. QED
        BY <2>6, <2>7, <3>1 DEF Works
    <2>9. CASE new
      <3>1. QSizeKey(n) \notin DOMAIN db /\ QSize(n) = 0
        BY <2>1, <2>9, QueueValues DEF IInv
      <3>2. IncrQSize(n, 1) = <<Put(QSizeKey(n), 1)>>
        BY <3>1 DEF IncrQSize
      <3>3. B = (<<Put(QItemKey(n, QFRONT), QInit), Put(QItemKey(n, QBACK), QInit)>>
                   \o <<Put(QItemKey(n, QInit), item)>>) \o <<Put(QSizeKey(n), 1)>>
        BY <2>9, <3>2
      <3> HIDE DEF B
      <3>4. QED
        BY <2>7, <2>8, <3>1, <3>3 DEF r
    <2>10. CASE ~new
      <3>1. QSizeKey(n) \in DOMAIN db
        BY <2>1, <2>10
      <3>2. QSize(n) \in Nat \ {0}
        BY <3>1, QueueValues, PlacesDiffer DEF IInv
      <3>3. IncrQSize(n, 1) = <<Put(QSizeKey(n), QSize(n) + 1)>>
        BY <3>2 DEF IncrQSize
      <3>4. seq = Sequence(n, end) + (IF end = QFRONT THEN -1 ELSE 1)
        BY <2>10
      <3>5. ends = <<Put(QItemKey(n, end), seq)>>
        BY <2>10
      <3> HIDE DEF seq, ends
      <3>6. B = (<<Put(QItemKey(n, end), seq)>> \o <<Put(QItemKey(n, seq), item)>>)
                  \o <<Put(QSizeKey(n), QSize(n) + 1)>>
        BY <3>3, <3>5
      <3> HIDE DEF B, new
      <3>7. QED
        BY <1>3, <2>2, <2>7, <2>8, <3>1, <3>4, <3>6 DEF r
    <2>11. QED
      BY <2>9, <2>10
  <1>4. QED
    BY <1>1, <1>2, <1>3

\* What qpop writes.
LEMMA QpopBatch ==
    ASSUME IInv, NEW n \in QNames, NEW end \in Ends, NEW f
    PROVE  LET r == Qpop(n, end, f)
               x == QItemKey(n, Sequence(n, end))
           IN /\ Works(r, QueueKeys, n)
              /\ \/ r = Return(-1) /\ f # "none"
                 \/ r = Return(0) /\ (QItemKey(n, end) \notin DOMAIN db \/ x \notin DOMAIN db)
                 \/ /\ r.commits /\ r.ret = 1 /\ r.item = db[x] /\ x \in DOMAIN db
                    /\ QSizeKey(n) \in DOMAIN db /\ QSize(n) = 1
                    /\ r.batch = (<<Delete(x)>> \o <<Delete(QSizeKey(n)), Delete(QItemKey(n, QFRONT)),
                                                     Delete(QItemKey(n, QBACK))>>) \o <<>>
                 \/ /\ r.commits /\ r.ret = 1 /\ r.item = db[x] /\ x \in DOMAIN db
                    /\ QSizeKey(n) \in DOMAIN db /\ QSize(n) > 1
                    /\ \E next : /\ next = Sequence(n, end) + (IF end = QFRONT THEN 1 ELSE -1)
                                 /\ r.batch = (<<Delete(x)>> \o <<Put(QSizeKey(n), QSize(n) + (-1))>>)
                                                \o <<Put(QItemKey(n, end), next)>>
  <1> DEFINE seq == Sequence(n, end)
             x == QItemKey(n, seq)
             next == seq + (IF end = QFRONT THEN 1 ELSE -1)
             ends == IF QSize(n) > 1 THEN <<Put(QItemKey(n, end), next)>> ELSE <<>>
             cmd == IF end = QFRONT THEN "QPOP_FRONT" ELSE "QPOP_BACK"
             B == (<<Delete(x)>> \o IncrQSize(n, -1)) \o ends
             L == <<Log(cmd, <<n>>)>>
             o == Commit(B, L, 1)
             r == Qpop(n, end, f)
  <1>1. \/ r = Return(-1) /\ f # "none"
        \/ r = Return(0) /\ (QItemKey(n, end) \notin DOMAIN db \/ x \notin DOMAIN db)
        \/ /\ QItemKey(n, end) \in DOMAIN db /\ x \in DOMAIN db
           /\ r = [o EXCEPT !.item = db[x]]
    BY DEF Qpop
  <1>2. CASE r = Return(-1) /\ f # "none"
    BY <1>2, ReturnWorks
  <1>3. CASE r = Return(0) /\ (QItemKey(n, end) \notin DOMAIN db \/ x \notin DOMAIN db)
    BY <1>3, ReturnWorks
  <1> HIDE DEF r
  <1>4. CASE /\ QItemKey(n, end) \in DOMAIN db /\ x \in DOMAIN db
             /\ r = [o EXCEPT !.item = db[x]]
    <2>1. QSizeKey(n) \in DOMAIN db
      BY <1>4, QueueValues DEF IInv, Ends
    <2>2. seq \in QMin + 1 .. QMax /\ QSize(n) \in Nat \ {0}
      BY <2>1, QueueValues, PlacesDiffer DEF IInv, Ends
    <2>3. Batch(<<Delete(x)>>, QueueKeys, n)
      <3>1. seq \in Places
        BY <2>2, PlacesDiffer
      <3> HIDE DEF seq
      <3>2. QED
        BY <3>1, ItemIsBatch
    <2>4. Batch(ends, QueueKeys, n)
      <3>1. end \in Places
        BY PlacesDiffer DEF Ends
      <3> HIDE DEF next
      <3>2. Batch(<<Put(QItemKey(n, end), next)>>, QueueKeys, n) /\ Batch(<<>>, QueueKeys, n)
        BY <3>1, ItemIsBatch, NoneIsBatch
      <3>3. QED
        BY <3>2
    <2>5. Batch(B, QueueKeys, n)
      <3> HIDE DEF x, ends
      <3>1. Batch(IncrQSize(n, -1), QueueKeys, n)
        BY SizesBatch
      <3>2. QED
        BY <2>3, <2>4, <3>1, ThreeParts
    <2>6. r.batch = B /\ r.logs = L /\ r.commits /\ r.ret = 1 /\ r.item = db[x]
      <3> HIDE DEF x, B, L
      <3>1. QED
        BY <1>4 DEF Commit
    <2>7. Works(r, QueueKeys, n)
      <3> HIDE DEF B
      <3>1. IsSeq(L)
        BY OneIsSeq
      <3> HIDE DEF L
      <3>2. QED
        BY <2>5, <2>6, <3>1 DEF Works
    <2>8. CASE QSize(n) = 1
      <3>1. ends = <<>>
        BY <2>8
      <3>2. IncrQSize(n, -1)
              = <<Delete(QSizeKey(n)), Delete(QItemKey(n, QFRONT)), Delete(QItemKey(n, QBACK))>>
        BY <2>8 DEF IncrQSize
      <3> HIDE DEF ends, x
      <3>3. B = (<<Delete(x)>> \o <<Delete(QSizeKey(n)), Delete(QItemKey(n, QFRONT)),
                                    Delete(QItemKey(n, QBACK))>>) \o <<>>
        BY <3>1, <3>2
      <3> HIDE DEF B
      <3>4. QED
        BY <1>4, <2>1, <2>6, <2>7, <2>8, <3>3 DEF r, x
    <2>9. CASE QSize(n) # 1
      <3>1. QSize(n) > 1
        BY <2>2, <2>9
      <3>2. ends = <<Put(QItemKey(n, end), next)>>
        BY <3>1
      <3>3. IncrQSize(n, -1) = <<Put(QSizeKey(n), QSize(n) + (-1))>>
        BY <2>2, <3>1 DEF IncrQSize
      <3> HIDE DEF ends, x
      <3>4. next = Sequence(n, end) + (IF end = QFRONT THEN 1 ELSE -1)
        OBVIOUS
      <3> HIDE DEF next
      <3>5. B = (<<Delete(x)>> \o <<Put(QSizeKey(n), QSize(n) + (-1))>>)
                  \o <<Put(QItemKey(n, end), next)>>
        BY <3>2, <3>3
      <3> HIDE DEF B
      <3>6. QED
        BY <1>4, <2>1, <2>6, <2>7, <3>1, <3>4, <3>5 DEF r, x
    <2>10. QED
      BY <2>8, <2>9
  <1>5. QED
    BY <1>1, <1>2, <1>3, <1>4 DEF r

\* What the commands of queues promise, by name.
LEMMA QueuePromises ==
    ASSUME NEW n, NEW v, NEW w, NEW ret, NEW item, NEW b, NEW a, NEW fine
    PROVE  /\ (IF ret = -1 THEN a = b
               ELSE /\ ret = Len(b.queue[n]) + 1
                    /\ a = [b EXCEPT !.queue[n] = IF w = QFRONT THEN <<v>> \o b.queue[n]
                                                  ELSE Append(b.queue[n], v)])
              => Promised(<<"qpush", n, v, w>>, ret, item, b, a, fine)
           /\ /\ fine => ret = (IF b.queue[n] = <<>> THEN 0 ELSE 1)
              /\ IF ret # 1 THEN a = b
                 ELSE IF v = QFRONT
                 THEN item = Head(b.queue[n]) /\ a = [b EXCEPT !.queue[n] = Tail(b.queue[n])]
                 ELSE item = Last(b.queue[n]) /\ a = [b EXCEPT !.queue[n] = Front(b.queue[n])]
              => Promised(<<"qpop", n, v>>, ret, item, b, a, fine)
           /\ /\ fine => (ret = 1) = (Place(b.queue[n], v) # 0)
              /\ IF ret = 1
                 THEN a = [b EXCEPT !.queue[n] = [b.queue[n] EXCEPT ![Place(b.queue[n], v)] = w]]
                 ELSE a = b
              => Promised(<<"qset", n, v, w>>, ret, item, b, a, fine)
           /\ \/ a = b
              \/ \E p \in DOMAIN b.queue[n] :
                    ret = 1 /\ a = [b EXCEPT !.queue[n] = [b.queue[n] EXCEPT ![p] = w]]
              => Promised(<<"qset_by_seq", n, v, w>>, ret, item, b, a, fine)
           /\ a = b => Promised(<<"qfix", n>>, ret, item, b, a, fine)
  <1>1. (IF ret = -1 THEN a = b
         ELSE /\ ret = Len(b.queue[n]) + 1
              /\ a = [b EXCEPT !.queue[n] = IF w = QFRONT THEN <<v>> \o b.queue[n]
                                            ELSE Append(b.queue[n], v)])
        => Promised(<<"qpush", n, v, w>>, ret, item, b, a, fine)
    BY DEF Promised
  <1>2. /\ fine => ret = (IF b.queue[n] = <<>> THEN 0 ELSE 1)
        /\ IF ret # 1 THEN a = b
           ELSE IF v = QFRONT
           THEN item = Head(b.queue[n]) /\ a = [b EXCEPT !.queue[n] = Tail(b.queue[n])]
           ELSE item = Last(b.queue[n]) /\ a = [b EXCEPT !.queue[n] = Front(b.queue[n])]
        => Promised(<<"qpop", n, v>>, ret, item, b, a, fine)
    BY DEF Promised
  <1>3. /\ fine => (ret = 1) = (Place(b.queue[n], v) # 0)
        /\ IF ret = 1
           THEN a = [b EXCEPT !.queue[n] = [b.queue[n] EXCEPT ![Place(b.queue[n], v)] = w]]
           ELSE a = b
        => Promised(<<"qset", n, v, w>>, ret, item, b, a, fine)
    BY DEF Promised
  <1>4. \/ a = b
        \/ \E p \in DOMAIN b.queue[n] :
              ret = 1 /\ a = [b EXCEPT !.queue[n] = [b.queue[n] EXCEPT ![p] = w]]
        => Promised(<<"qset_by_seq", n, v, w>>, ret, item, b, a, fine)
    BY DEF Promised
  <1>5. a = b => Promised(<<"qfix", n>>, ret, item, b, a, fine)
    BY DEF Promised
  <1>6. QED
    BY <1>1, <1>2, <1>3, <1>4, <1>5

\* An operation on a queue qset_by_seq wrote behind is not looked at.
LEMMA OrphanedRight ==
    ASSUME answer'.sure = TRUE, answer'.call[1] \in QueueOps, answer'.call[2] \in orphaned'
    PROVE  AnswerRight
  BY DEF AnswerRight

\* What an operation that writes nothing leaves of the contents.
LEMMA NothingWritten ==
    ASSUME NEW o, NEW f, Outcome(o, f), ~(o.commits /\ f # "write")
    PROVE  Contents(db') = Contents(db)
  BY DEF Outcome

\* What an operation on a queue makes of the contents: of that queue alone.
LEMMA QueueOutcome ==
    ASSUME IInv, IInv', NEW n \in QNames, NEW o, NEW f, Outcome(o, f), o.commits, f # "write",
           Works(o, QueueKeys, n), NEW s, Safe(o.batch, QItemKey(n, s))
    PROVE  Contents(db') = [Contents(db) EXCEPT !.queue[n] = Queue(db', n)]
  <1>1. ChangesBy(o.batch) /\ OnlyAt(o.batch, QueueKeys, n)
    BY DEF Outcome, Works, Batch
  <1>2. QED
    BY <1>1, QueueOnly, QueueContents

LEMMA QpushSafe ==
    ASSUME NEW n, NEW item, NEW seq
    PROVE  /\ \A u : Safe((<<Put(QItemKey(n, QFRONT), u), Put(QItemKey(n, QBACK), u)>>
                             \o <<Put(QItemKey(n, seq), item)>>) \o <<Put(QSizeKey(n), 1)>>,
                          QItemKey(n, seq))
           /\ \A end \in Ends : \A u, v : Safe((<<Put(QItemKey(n, end), u)>> \o <<Put(QItemKey(n, seq), item)>>)
                                             \o <<Put(QSizeKey(n), v)>>, QItemKey(n, seq))
  <1> DEFINE x == QItemKey(n, seq)  a == Put(x, item)
  <1>1. Safe(<<a>>, x)
    BY ItemSafe
  <1>2. ASSUME NEW u
        PROVE  Safe((<<Put(QItemKey(n, QFRONT), u), Put(QItemKey(n, QBACK), u)>>
                       \o <<Put(QItemKey(n, seq), item)>>) \o <<Put(QSizeKey(n), 1)>>, x)
    <2> DEFINE p == Put(QItemKey(n, QFRONT), u)  q == Put(QItemKey(n, QBACK), u)
               z == Put(QSizeKey(n), 1)
    <2>1. Safe(<<p>>, x) /\ Safe(<<q>>, x) /\ Safe(<<z>>, x)
      BY EndSafe DEF Ends
    <2> HIDE DEF p, q, z, x, a
    <2>2. Safe(<<p, q>>, x)
      BY <2>1, SafeTwo
    <2>3. Safe(<<p, q>> \o <<a>>, x)
      BY <1>1, <2>2, SafeConcat
    <2>4. Safe((<<p, q>> \o <<a>>) \o <<z>>, x)
      BY <2>1, <2>3, SafeConcat
    <2>5. QED
      BY <2>4 DEF p, q, z, a, x
  <1>3. ASSUME NEW end \in Ends, NEW u, NEW v
        PROVE  Safe((<<Put(QItemKey(n, end), u)>> \o <<Put(QItemKey(n, seq), item)>>)
                      \o <<Put(QSizeKey(n), v)>>, x)
    <2> DEFINE p == Put(QItemKey(n, end), u)  z == Put(QSizeKey(n), v)
    <2>1. Safe(<<p>>, x) /\ Safe(<<z>>, x)
      BY EndSafe
    <2> HIDE DEF p, z, x, a
    <2>2. Safe(<<p>> \o <<a>>, x)
      BY <1>1, <2>1, SafeConcat
    <2>3. Safe((<<p>> \o <<a>>) \o <<z>>, x)
      BY <2>1, <2>2, SafeConcat
    <2>4. QED
      BY <2>3 DEF p, z, a, x
  <1>4. QED
    BY <1>2, <1>3 DEF x

LEMMA QpopSafe ==
    ASSUME NEW n, NEW seq
    PROVE  LET x == QItemKey(n, seq)
           IN /\ Safe((<<Delete(x)>> \o <<Delete(QSizeKey(n)), Delete(QItemKey(n, QFRONT)),
                                          Delete(QItemKey(n, QBACK))>>) \o <<>>, x)
              /\ \A end \in Ends : \A u, v : Safe((<<Delete(x)>> \o <<Put(QSizeKey(n), u)>>)
                                                \o <<Put(QItemKey(n, end), v)>>, x)
  <1> DEFINE x == QItemKey(n, seq)  a == Delete(x)
  <1>1. Safe(<<a>>, x)
    BY ItemSafe
  <1>2. Safe((<<a>> \o <<Delete(QSizeKey(n)), Delete(QItemKey(n, QFRONT)),
                         Delete(QItemKey(n, QBACK))>>) \o <<>>, x)
    <2> DEFINE d == Delete(QSizeKey(n))  p == Delete(QItemKey(n, QFRONT))
               q == Delete(QItemKey(n, QBACK))
    <2>1. d.key = QSizeKey(n) /\ p.key = QItemKey(n, QFRONT) /\ q.key = QItemKey(n, QBACK)
      BY DEF Delete
    <2> HIDE DEF d, p, q, x, a
    <2>2. Safe(<<d, p, q>>, x)
      BY <2>1, EndsSafe
    <2>3. Safe(<<a>> \o <<d, p, q>>, x)
      BY <1>1, <2>2, SafeConcat
    <2>4. Safe((<<a>> \o <<d, p, q>>) \o <<>>, x)
      BY <2>3, SafeNone, SafeConcat
    <2>5. QED
      BY <2>4 DEF d, p, q
  <1>3. ASSUME NEW end \in Ends, NEW u, NEW v
        PROVE  Safe((<<a>> \o <<Put(QSizeKey(n), u)>>) \o <<Put(QItemKey(n, end), v)>>, x)
    <2> DEFINE p == Put(QItemKey(n, end), v)  z == Put(QSizeKey(n), u)
    <2>1. Safe(<<p>>, x) /\ Safe(<<z>>, x)
      BY EndSafe
    <2> HIDE DEF p, z, x, a
    <2>2. Safe(<<a>> \o <<z>>, x)
      BY <1>1, <2>1, SafeConcat
    <2>3. Safe((<<a>> \o <<z>>) \o <<p>>, x)
      BY <2>1, <2>2, SafeConcat
    <2>4. QED
      BY <2>3 DEF p, z
  <1>4. QED
    BY <1>2, <1>3 DEF x, a

LEMMA QpushAnswer ==
    ASSUME IInv, IInv', errors \in Nat, QueuePush
    PROVE  AnswerRight
  <1>1. PICK n \in QNames, item \in Values, end \in Ends, f \in Faults({"entry", "size", "write"}) :
            Operation(<<"qpush", n, item, end>>, Qpush(n, item, end, f), f)
    BY DEF QueuePush
  <1> DEFINE o == Qpush(n, item, end, f)  call == <<"qpush", n, item, end>>
             a == Contents(db')  b == Contents(db)  fine == errors' = errors
             ret == answer'.ret  it == answer'.item
             q == Queue(db, n)  front == Sequence(n, QFRONT)  back == Sequence(n, QBACK)
  <1>2. Transact(call, o, f) /\ orphaned' = orphaned
    BY <1>1 DEF Operation
  <1>3. Works(o, QueueKeys, n)
    BY QpushBatch
  <1>4. \/ o = Return(-1)
        \/ /\ o.commits /\ o.ret = QSize(n) + 1 /\ QSizeKey(n) \notin DOMAIN db
           /\ o.batch = (<<Put(QItemKey(n, QFRONT), QInit), Put(QItemKey(n, QBACK), QInit)>>
                           \o <<Put(QItemKey(n, QInit), item)>>) \o <<Put(QSizeKey(n), 1)>>
        \/ /\ o.commits /\ o.ret = QSize(n) + 1 /\ QSizeKey(n) \in DOMAIN db
           /\ \E seq \in QMin + 1 .. QMax :
                 /\ seq = Sequence(n, end) + (IF end = QFRONT THEN -1 ELSE 1)
                 /\ ~(seq <= QMin) /\ ~(seq >= QMax)
                 /\ o.batch = (<<Put(QItemKey(n, end), seq)>> \o <<Put(QItemKey(n, seq), item)>>)
                                \o <<Put(QSizeKey(n), QSize(n) + 1)>>
    BY QpushBatch
  <1> HIDE DEF o, call
  <1>5. answer'.call = call /\ Outcome(o, f)
    BY <1>2, <1>3, TransactOutcome
  <1>6. answer'.sure = TRUE /\ call[1] \in QueueOps /\ call[2] = n
    BY <1>5 DEF Outcome, call, QueueOps
  <1>7. CASE n \in orphaned'
    BY <1>5, <1>6, <1>7, OrphanedRight
  <1>8. CASE n \notin orphaned'
    <2>1. n \notin orphaned
      BY <1>2, <1>8
    <2>2. /\ b.queue[n] = q
          /\ IF QSizeKey(n) \in DOMAIN db
             THEN Holds(db, n, front, back) /\ QSize(n) = back - front + 1
             ELSE HoldsNone(db, n) /\ QSize(n) = 0
      BY <2>1, ContentsAt, QueueState
    <2>3. CASE ~(o.commits /\ f # "write")
      <3>1. a = b /\ ret = -1
        BY <1>4, <1>5, <2>3, NothingWritten DEF Outcome, Return
      <3> HIDE DEF a, b, fine, ret, it
      <3>2. Promised(call, ret, it, b, a, fine)
        BY <3>1, QueuePromises DEF call
      <3>3. QED
        BY <1>5, <1>6, <3>2, PromiseKept DEF a, b, fine, ret, it
    <2>4. ASSUME o.commits, f # "write", o.ret = QSize(n) + 1,
                 Queue(db', n) = IF end = QFRONT THEN <<item>> \o q ELSE Append(q, item),
                 QSize(n) = Len(q), Len(q) \in Nat, NEW s, Safe(o.batch, QItemKey(n, s))
          PROVE  AnswerRight
      <3>1. ret = Len(q) + 1 /\ ret # -1
        BY <1>5, <2>4 DEF Outcome
      <3>2. a = [b EXCEPT !.queue[n] = IF end = QFRONT THEN <<item>> \o q ELSE Append(q, item)]
        BY <1>3, <1>5, <2>4, QueueOutcome
      <3> HIDE DEF a, b, fine, ret, it, q
      <3>3. Promised(call, ret, it, b, a, fine)
        BY <2>2, <3>1, <3>2, QueuePromises DEF call
      <3>4. QED
        BY <1>5, <1>6, <3>3, PromiseKept DEF a, b, fine, ret, it
    <2>5. CASE /\ o.commits /\ f # "write" /\ o.ret = QSize(n) + 1 /\ QSizeKey(n) \notin DOMAIN db
               /\ o.batch = (<<Put(QItemKey(n, QFRONT), QInit), Put(QItemKey(n, QBACK), QInit)>>
                               \o <<Put(QItemKey(n, QInit), item)>>) \o <<Put(QSizeKey(n), 1)>>
      <3>1. ChangesBy(o.batch)
        BY <1>5, <2>5 DEF Outcome
      <3> DEFINE B == o.batch
      <3> HIDE DEF B
      <3>2. /\ Becomes(QItemKey(n, QFRONT), QInit) /\ Becomes(QItemKey(n, QBACK), QInit)
            /\ Becomes(QItemKey(n, QInit), item)
        BY <2>5, <3>1, QpushFirst DEF B
      <3>3. Queue(db', n) = <<item>> /\ q = <<>>
        BY <2>2, <2>5, <3>2, FirstQueue
      <3>4. Safe(o.batch, QItemKey(n, QInit))
        BY <2>5, QpushSafe
      <3>5. <<item>> \o <<>> = <<item>> /\ Append(<<>>, item) = <<item>> /\ Len(<<>>) = 0
        <4>1. <<item>> \in Seq({item})
          OBVIOUS
        <4>2. QED
          BY <4>1
      <3> HIDE DEF q
      <3>6. /\ Queue(db', n) = IF end = QFRONT THEN <<item>> \o q ELSE Append(q, item)
            /\ QSize(n) = Len(q) /\ Len(q) \in Nat
        BY <2>2, <2>5, <3>3, <3>5
      <3>7. QED
        BY <2>4, <2>5, <3>4, <3>6
    <2>6. ASSUME o.commits, f # "write", o.ret = QSize(n) + 1, QSizeKey(n) \in DOMAIN db,
                 NEW seq \in QMin + 1 .. QMax,
                 seq = Sequence(n, end) + (IF end = QFRONT THEN -1 ELSE 1),
                 ~(seq <= QMin), ~(seq >= QMax),
                 o.batch = (<<Put(QItemKey(n, end), seq)>> \o <<Put(QItemKey(n, seq), item)>>)
                             \o <<Put(QSizeKey(n), QSize(n) + 1)>>
          PROVE  AnswerRight
      <3>1. ChangesBy(o.batch)
        BY <1>5, <2>6 DEF Outcome
      <3> DEFINE B == o.batch
      <3> HIDE DEF B
      <3>2. /\ Becomes(QItemKey(n, end), seq) /\ Becomes(QItemKey(n, seq), item)
            /\ \A s : s # end /\ s # seq => Stays(QItemKey(n, s))
        <4> DEFINE t == seq
        <4>1. /\ ChangesBy(B)
              /\ B = (<<Put(QItemKey(n, end), t)>> \o <<Put(QItemKey(n, t), item)>>)
                       \o <<Put(QSizeKey(n), QSize(n) + 1)>>
          BY <2>6, <3>1 DEF B
        <4>2. /\ QSizeKey(n) \in DOMAIN db /\ ~(t <= QMin) /\ ~(t >= QMax)
              /\ t = Sequence(n, end) + (IF end = QFRONT THEN -1 ELSE 1)
          BY <2>6
        <4>3. IInv /\ n \in QNames /\ end \in Ends
          OBVIOUS
        <4> HIDE DEF t
        <4>4. /\ Becomes(QItemKey(n, end), t) /\ Becomes(QItemKey(n, t), item)
              /\ \A y : /\ y[1] # SYNCLOG /\ y # QSizeKey(n)
                       /\ y # QItemKey(n, end) /\ y # QItemKey(n, t) => Stays(y)
          BY ONLY <4>1, <4>2, <4>3, QpushNext
        <4>5. \A s : s # end /\ s # t => Stays(QItemKey(n, s))
          BY <4>4, QueueKeysAt
        <4>6. QED
          BY <4>4, <4>5 DEF t
      <3>3. /\ front \in Int /\ back \in Int /\ front <= back
            /\ Holds(db, n, front, back) /\ QSize(n) = back - front + 1
        BY <2>2, <2>6, HeldItems
      <3>4. seq = IF end = QFRONT THEN front - 1 ELSE back + 1
        <4>1. CASE end = QFRONT
          BY <2>6, <3>3, <4>1
        <4>2. CASE end = QBACK
          BY <2>6, <3>3, <4>2, PlacesDiffer
        <4>3. QED
          BY <4>1, <4>2 DEF Ends
      <3> HIDE DEF front, back
      <3>5. /\ Queue(db', n) = IF end = QFRONT THEN <<item>> \o q ELSE Append(q, item)
            /\ Len(q) = back - front + 1
        BY <3>2, <3>3, <3>4, PushedQueue
      <3>6. Safe(o.batch, QItemKey(n, seq))
        BY <2>6, QpushSafe
      <3> HIDE DEF q
      <3>7. QSize(n) = Len(q) /\ Len(q) \in Nat
        BY <3>3, <3>5
      <3>8. QED
        BY <2>4, <2>6, <3>5, <3>6, <3>7
    <2>7. CASE o = Return(-1)
      <3>1. ~o.commits
        BY <2>7 DEF Return
      <3>2. QED
        BY <2>3, <3>1
    <2>8. CASE /\ o.commits /\ o.ret = QSize(n) + 1 /\ QSizeKey(n) \in DOMAIN db
               /\ \E seq \in QMin + 1 .. QMax :
                     /\ seq = Sequence(n, end) + (IF end = QFRONT THEN -1 ELSE 1)
                     /\ ~(seq <= QMin) /\ ~(seq >= QMax)
                     /\ o.batch = (<<Put(QItemKey(n, end), seq)>> \o <<Put(QItemKey(n, seq), item)>>)
                                    \o <<Put(QSizeKey(n), QSize(n) + 1)>>
      <3>1. PICK seq \in QMin + 1 .. QMax :
               /\ seq = Sequence(n, end) + (IF end = QFRONT THEN -1 ELSE 1)
               /\ ~(seq <= QMin) /\ ~(seq >= QMax)
               /\ o.batch = (<<Put(QItemKey(n, end), seq)>> \o <<Put(QItemKey(n, seq), item)>>)
                              \o <<Put(QSizeKey(n), QSize(n) + 1)>>
        BY <2>8
      <3>2. CASE f # "write"
        BY <2>6, <2>8, <3>1, <3>2
      <3>3. QED
        BY <2>3, <3>2
    <2>9. CASE /\ o.commits /\ o.ret = QSize(n) + 1 /\ QSizeKey(n) \notin DOMAIN db
               /\ o.batch = (<<Put(QItemKey(n, QFRONT), QInit), Put(QItemKey(n, QBACK), QInit)>>
                               \o <<Put(QItemKey(n, QInit), item)>>) \o <<Put(QSizeKey(n), 1)>>
      BY <2>3, <2>5, <2>9
    <2>10. QED
      BY <1>4, <2>7, <2>8, <2>9
  <1>9. QED
    BY <1>7, <1>8

LEMMA QpopAnswer ==
    ASSUME IInv, IInv', errors \in Nat, QueuePop
    PROVE  AnswerRight
  <1>1. PICK n \in QNames, end \in Ends, f \in Faults({"entry", "again", "size", "write"}) :
            Operation(<<"qpop", n, end>>, Qpop(n, end, f), f)
    BY DEF QueuePop
  <1> DEFINE o == Qpop(n, end, f)  call == <<"qpop", n, end>>
             a == Contents(db')  b == Contents(db)  fine == errors' = errors
             ret == answer'.ret  it == answer'.item
             q == Queue(db, n)  front == Sequence(n, QFRONT)  back == Sequence(n, QBACK)
             seq == Sequence(n, end)  x == QItemKey(n, seq)
  <1>2. Transact(call, o, f) /\ orphaned' = orphaned
    BY <1>1 DEF Operation
  <1>3. Works(o, QueueKeys, n)
    BY QpopBatch
  <1>4. \/ o = Return(-1) /\ f # "none"
        \/ o = Return(0) /\ (QItemKey(n, end) \notin DOMAIN db \/ x \notin DOMAIN db)
        \/ /\ o.commits /\ o.ret = 1 /\ o.item = db[x] /\ x \in DOMAIN db
           /\ QSizeKey(n) \in DOMAIN db /\ QSize(n) = 1
           /\ o.batch = (<<Delete(x)>> \o <<Delete(QSizeKey(n)), Delete(QItemKey(n, QFRONT)),
                                            Delete(QItemKey(n, QBACK))>>) \o <<>>
        \/ /\ o.commits /\ o.ret = 1 /\ o.item = db[x] /\ x \in DOMAIN db
           /\ QSizeKey(n) \in DOMAIN db /\ QSize(n) > 1
           /\ \E next : /\ next = Sequence(n, end) + (IF end = QFRONT THEN 1 ELSE -1)
                        /\ o.batch = (<<Delete(x)>> \o <<Put(QSizeKey(n), QSize(n) + (-1))>>)
                                       \o <<Put(QItemKey(n, end), next)>>
    BY QpopBatch
  <1> HIDE DEF o, call
  <1>5. answer'.call = call /\ Outcome(o, f)
    BY <1>2, <1>3, TransactOutcome
  <1>6. answer'.sure = TRUE /\ call[1] \in QueueOps /\ call[2] = n /\ fine = (f = "none")
    BY <1>5 DEF Outcome, call, QueueOps
  <1>7. CASE n \in orphaned'
    BY <1>5, <1>6, <1>7, OrphanedRight
  <1>8. CASE n \notin orphaned'
    <2>1. n \notin orphaned
      BY <1>2, <1>8
    <2>2. /\ b.queue[n] = q
          /\ IF QSizeKey(n) \in DOMAIN db
             THEN Holds(db, n, front, back) /\ QSize(n) = back - front + 1
             ELSE HoldsNone(db, n) /\ QSize(n) = 0
      BY <2>1, ContentsAt, QueueState
    <2>3. ASSUME QSizeKey(n) \in DOMAIN db
          PROVE  /\ front \in Int /\ back \in Int /\ front <= back
                 /\ QItemKey(n, end) \in DOMAIN db /\ x \in DOMAIN db
                 /\ seq = IF end = QFRONT THEN front ELSE back
                 /\ q # <<>>
                 /\ db[x] = IF end = QFRONT THEN Head(q) ELSE Last(q)
                 /\ front = back => Tail(q) = <<>> /\ Front(q) = <<>>
      <3>1. seq = IF end = QFRONT THEN front ELSE back
        BY DEF Ends
      <3>2. /\ front \in Int /\ back \in Int /\ front <= back
        BY <2>2, <2>3, HeldItems
      <3>3. QItemKey(n, end) \in DOMAIN db
        BY <2>2, <2>3 DEF Holds, Ends
      <3>4. /\ Head(q) = db[QItemKey(n, front)] /\ QItemKey(n, front) \in DOMAIN db
            /\ Last(q) = db[QItemKey(n, back)] /\ QItemKey(n, back) \in DOMAIN db
            /\ q # <<>>
            /\ front = back => Tail(q) = <<>> /\ Front(q) = <<>>
        <4> DEFINE u == front  w == back
        <4>1. Holds(db, n, u, w)
          BY <2>2, <2>3
        <4> HIDE DEF u, w
        <4>2. /\ Head(Queue(db, n)) = db[QItemKey(n, u)] /\ QItemKey(n, u) \in DOMAIN db
              /\ Last(Queue(db, n)) = db[QItemKey(n, w)] /\ QItemKey(n, w) \in DOMAIN db
              /\ Queue(db, n) # <<>>
              /\ u = w => Tail(Queue(db, n)) = <<>> /\ Front(Queue(db, n)) = <<>>
          BY <4>1, HeldEnds
        <4>3. QED
          BY <4>2 DEF u, w
      <3>5. QED
        BY <3>1, <3>2, <3>3, <3>4
    <2>4. CASE ~(o.commits /\ f # "write")
      <3>1. a = b /\ ret # 1
        BY <1>4, <1>5, <2>4, NothingWritten DEF Outcome, Return
      <3>2. f = "none" => ret = 0 /\ q = <<>>
        <4>1. ASSUME f = "none" PROVE ret = 0 /\ q = <<>>
          <5>1. o = Return(0) /\ (QItemKey(n, end) \notin DOMAIN db \/ x \notin DOMAIN db)
            BY <1>4, <2>4, <4>1
          <5>2. HoldsNone(db, n)
            BY <2>2, <2>3, <5>1
          <5>3. q = <<>>
            BY <5>2, QueueHeld
          <5>4. ret = 0
            BY <1>5, <2>4, <5>1 DEF Outcome, Return
          <5>5. QED
            BY <5>3, <5>4
        <4>2. QED
          BY <4>1
      <3> HIDE DEF a, b, ret, it, q
      <3>3. Promised(call, ret, it, b, a, fine)
        BY <1>6, <2>2, <3>1, <3>2, QueuePromises DEF call
      <3>4. QED
        BY <1>5, <1>6, <3>3, PromiseKept DEF a, b, ret, it
    <2>5. ASSUME o.commits, f # "write", o.ret = 1, o.item = db[x], QSizeKey(n) \in DOMAIN db,
                 Queue(db', n) = IF end = QFRONT THEN Tail(q) ELSE Front(q),
                 Safe(o.batch, x)
          PROVE  AnswerRight
      <3>1. ret = 1 /\ it = db[x]
        BY <1>5, <2>5 DEF Outcome
      <3>2. a = [b EXCEPT !.queue[n] = IF end = QFRONT THEN Tail(q) ELSE Front(q)]
        BY <1>3, <1>5, <2>5, QueueOutcome
      <3>3. q # <<>> /\ it = IF end = QFRONT THEN Head(q) ELSE Last(q)
        BY <2>3, <2>5, <3>1
      <3> HIDE DEF a, b, fine, ret, it, q
      <3>4. Promised(call, ret, it, b, a, fine)
        BY <2>2, <3>1, <3>2, <3>3, QueuePromises DEF call
      <3>5. QED
        BY <1>5, <1>6, <3>4, PromiseKept DEF a, b, fine, ret, it
    <2>6. CASE /\ o.commits /\ f # "write" /\ o.ret = 1 /\ o.item = db[x]
               /\ QSizeKey(n) \in DOMAIN db /\ QSize(n) = 1
               /\ o.batch = (<<Delete(x)>> \o <<Delete(QSizeKey(n)), Delete(QItemKey(n, QFRONT)),
                                                Delete(QItemKey(n, QBACK))>>) \o <<>>
      <3>1. ChangesBy(o.batch)
        BY <1>5, <2>6 DEF Outcome
      <3> DEFINE B == o.batch
      <3> HIDE DEF B
      <3>2. Gone(QItemKey(n, QFRONT))
        BY <2>6, <3>1, QpopLast DEF B
      <3>3. Queue(db', n) = <<>>
        BY <3>2 DEF Gone, Queue
      <3>4. front = back
        BY <2>2, <2>3, <2>6
      <3>5. Tail(q) = <<>> /\ Front(q) = <<>>
        BY <2>3, <2>6, <3>4
      <3>6. Safe(o.batch, x)
        BY <2>6, QpopSafe
      <3> HIDE DEF q
      <3>7. Queue(db', n) = IF end = QFRONT THEN Tail(q) ELSE Front(q)
        BY <3>3, <3>5
      <3>8. QED
        BY <2>5, <2>6, <3>6, <3>7
    <2>7. ASSUME o.commits, f # "write", o.ret = 1, o.item = db[x], x \in DOMAIN db,
                 QSizeKey(n) \in DOMAIN db, QSize(n) > 1,
                 NEW next, next = Sequence(n, end) + (IF end = QFRONT THEN 1 ELSE -1),
                 o.batch = (<<Delete(x)>> \o <<Put(QSizeKey(n), QSize(n) + (-1))>>)
                             \o <<Put(QItemKey(n, end), next)>>
          PROVE  AnswerRight
      <3>1. ChangesBy(o.batch)
        BY <1>5, <2>7 DEF Outcome
      <3> DEFINE B == o.batch
      <3> HIDE DEF B
      <3>2. /\ Becomes(QItemKey(n, end), next)
            /\ \A s : s # end /\ s # seq => Stays(QItemKey(n, s))
        BY <2>7, <3>1, QpopNext DEF B
      <3>3. /\ front \in Int /\ back \in Int /\ front < back
            /\ Holds(db, n, front, back)
            /\ seq = IF end = QFRONT THEN front ELSE back
        <4>1. /\ front \in Int /\ back \in Int /\ Holds(db, n, front, back)
              /\ QSize(n) = back - front + 1 /\ seq = IF end = QFRONT THEN front ELSE back
          BY <2>2, <2>3, <2>7
        <4> HIDE DEF front, back
        <4>2. front < back
          BY <2>7, <4>1
        <4>3. QED
          BY <4>1, <4>2
      <3>4. next = IF end = QFRONT THEN front + 1 ELSE back - 1
        <4> HIDE DEF front, back
        <4>1. next = seq + (IF end = QFRONT THEN 1 ELSE -1)
          BY <2>7
        <4> HIDE DEF seq
        <4>2. QED
          BY <3>3, <4>1
      <3>5. Gone(x)
        <4>1. end # seq /\ x[1] # SYNCLOG
          <5> DEFINE u == front  w == back
          <5>1. Holds(db, n, u, w) /\ seq \in u .. w
            BY <3>3
          <5>2. x[1] # SYNCLOG
            BY QueueKeysAt
          <5> HIDE DEF u, w, seq, x
          <5>3. seq # QFRONT /\ seq # QBACK
            BY <5>1, HeldItems
          <5>4. QED
            BY <5>2, <5>3 DEF Ends
        <4>2. Writes(o.batch, x, Delete(x))
          <5> DEFINE p == Delete(x)  z == Put(QSizeKey(n), QSize(n) + (-1))
                     r == Put(QItemKey(n, end), next)
          <5>1. p.key = x /\ z.key = QSizeKey(n) /\ r.key = QItemKey(n, end)
            BY DEF Put, Delete
          <5>2. x # QSizeKey(n) /\ x # QItemKey(n, end)
            BY <4>1, QueueKeysAt
          <5>3. Batch(<<p>>, QueueKeys, n) /\ Batch(<<z>>, QueueKeys, n) /\ Batch(<<r>>, QueueKeys, n)
            <6>1. seq \in Places /\ end \in Places
              BY <3>3, HeldItems, PlacesDiffer DEF Ends
            <6> HIDE DEF seq
            <6>2. QED
              BY <6>1, ItemIsBatch
          <5>4. o.batch = (<<p>> \o <<z>>) \o <<r>> /\ p = Delete(x)
            BY <2>7
          <5> HIDE DEF p, z, r, x
          <5>5. Writes(<<p>>, x, p) /\ Untouched(<<z>>, x) /\ Untouched(<<r>>, x)
            BY <5>1, <5>2, OneBatch
          <5>6. Writes((<<p>> \o <<z>>) \o <<r>>, x, p)
            BY <5>3, <5>5, ThreeParts
          <5>7. QED
            BY <5>4, <5>6
        <4> HIDE DEF x
        <4>3. QED
          BY <3>1, <4>1, <4>2, BatchWrites
      <3> HIDE DEF front, back, seq
      <3>6. Queue(db', n) = IF end = QFRONT THEN Tail(q) ELSE Front(q)
        BY <3>2, <3>3, <3>4, <3>5, PoppedQueue
      <3>7. Safe(o.batch, x)
        BY <2>7, QpopSafe
      <3> HIDE DEF q, x
      <3>8. QED
        BY <2>5, <2>7, <3>6, <3>7
    <2>8. CASE \E r : o = Return(r)
      <3>1. ~o.commits
        BY <2>8 DEF Return
      <3>2. QED
        BY <2>4, <3>1
    <2>9. CASE /\ o.commits /\ o.ret = 1 /\ o.item = db[x] /\ x \in DOMAIN db
               /\ QSizeKey(n) \in DOMAIN db /\ QSize(n) > 1
               /\ \E next : /\ next = Sequence(n, end) + (IF end = QFRONT THEN 1 ELSE -1)
                            /\ o.batch = (<<Delete(x)>> \o <<Put(QSizeKey(n), QSize(n) + (-1))>>)
                                           \o <<Put(QItemKey(n, end), next)>>
      <3>1. PICK next : /\ next = Sequence(n, end) + (IF end = QFRONT THEN 1 ELSE -1)
                        /\ o.batch = (<<Delete(x)>> \o <<Put(QSizeKey(n), QSize(n) + (-1))>>)
                                       \o <<Put(QItemKey(n, end), next)>>
        BY <2>9
      <3> HIDE DEF x
      <3>2. CASE f # "write"
        BY <2>7, <2>9, <3>1, <3>2
      <3>3. QED
        BY <2>4, <3>2
    <2>10. CASE /\ o.commits /\ o.ret = 1 /\ o.item = db[x] /\ x \in DOMAIN db
                /\ QSizeKey(n) \in DOMAIN db /\ QSize(n) = 1
                /\ o.batch = (<<Delete(x)>> \o <<Delete(QSizeKey(n)), Delete(QItemKey(n, QFRONT)),
                                                 Delete(QItemKey(n, QBACK))>>) \o <<>>
      <3> HIDE DEF x
      <3>1. QED
        BY <2>4, <2>6, <2>10
    <2>11. QED
      <3> HIDE DEF x
      <3>1. QED
        BY <1>4, <2>8, <2>9, <2>10
  <1>9. QED
    BY <1>7, <1>8

\* What the write of one entry of a queue does.
LEMMA QStoreDone ==
    ASSUME IInv, IInv', NEW n \in QNames, n \notin orphaned, QSizeKey(n) \in DOMAIN db,
           NEW seq \in Sequence(n, QFRONT) .. Sequence(n, QBACK), NEW item, NEW f, f # "write",
           Outcome(QStore(n, seq, item), f)
    PROVE  /\ answer'.ret = 1
           /\ seq - Sequence(n, QFRONT) + 1 \in DOMAIN Queue(db, n)
           /\ Contents(db') = [Contents(db) EXCEPT !.queue[n] =
                                 [Queue(db, n) EXCEPT ![seq - Sequence(n, QFRONT) + 1] = item]]
  <1> DEFINE o == QStore(n, seq, item)
             front == Sequence(n, QFRONT)  back == Sequence(n, QBACK)
  <1>1. o.commits /\ o.ret = 1 /\ o.batch = <<Put(QItemKey(n, seq), item)>>
    BY DEF QStore, Commit
  <1>2. Holds(db, n, front, back)
    BY QueueState
  <1>3. seq \in Places \ Ends
    <2> HIDE DEF front, back
    <2>1. QED
      BY <1>2, HeldItems DEF front, back
  <1>4. ChangesBy(o.batch) /\ answer'.ret = 1
    BY <1>1 DEF Outcome
  <1>5. Becomes(QItemKey(n, seq), item) /\ \A s : s # seq => Stays(QItemKey(n, s))
    BY <1>3, <1>4, QStoreKeeps
  <1>6. Works(o, QueueKeys, n)
    BY <1>3, QStoreWorks
  <1>7. Safe(o.batch, QItemKey(n, seq))
    BY <1>1, ItemSafe
  <1> HIDE DEF o
  <1>8. Contents(db') = [Contents(db) EXCEPT !.queue[n] = Queue(db', n)]
    BY <1>1, <1>6, <1>7, QueueOutcome DEF o
  <1> HIDE DEF front, back
  <1>9. seq \in front .. back
    BY DEF front, back
  <1>10. /\ seq - front + 1 \in DOMAIN Queue(db, n)
         /\ Queue(db', n) = [Queue(db, n) EXCEPT ![seq - front + 1] = item]
    <2> DEFINE t == seq
    <2>1. t \in front .. back /\ Becomes(QItemKey(n, t), item)
          /\ \A s : s # t => Stays(QItemKey(n, s))
      BY <1>5, <1>9
    <2> HIDE DEF t
    <2>2. /\ t - front + 1 \in DOMAIN Queue(db, n)
          /\ Queue(db', n) = [Queue(db, n) EXCEPT ![t - front + 1] = item]
      <3>1. /\ t - front + 1 \in 1 .. back - front + 1
            /\ DOMAIN Queue(db, n) = 1 .. back - front + 1
            /\ Queue(db', n) = [Queue(db, n) EXCEPT ![t - front + 1] = item]
        BY ONLY IInv, <1>2, <2>1, SetQueue
      <3>2. QED
        BY <3>1
    <2>3. QED
      BY <2>2 DEF t
  <1>11. QED
    BY <1>4, <1>8, <1>10 DEF front

LEMMA QsetAnswer ==
    ASSUME IInv, IInv', errors \in Nat, QueueSet
    PROVE  AnswerRight
  <1>1. PICK n \in QNames, index \in Indexes, item \in Values, f \in Faults({"entry", "size", "write"}) :
            Operation(<<"qset", n, index, item>>, Qset(n, index, item, f), f)
    BY DEF QueueSet
  <1> DEFINE r == Qset(n, index, item, f)  call == <<"qset", n, index, item>>
             seq == AtIndex(n, index)  o == QStore(n, seq, item)
             a == Contents(db')  b == Contents(db)  fine == errors' = errors
             ret == answer'.ret  it == answer'.item
             q == Queue(db, n)  front == Sequence(n, QFRONT)  back == Sequence(n, QBACK)
             size == QSize(n)  p == Place(q, index)
  <1>2. Transact(call, r, f) /\ orphaned' = orphaned
    BY <1>1 DEF Operation
  <1>3. \/ r = Return(-1) /\ f # "none"
        \/ r = Return(0) /\ (index >= size \/ index < -size)
        \/ r = Return(0) /\ QItemKey(n, EndOf(index)) \notin DOMAIN db
        \/ r = o /\ ~(index >= size) /\ ~(index < -size)
    BY DEF Qset
  <1> HIDE DEF r, call
  <1>4. CASE n \in orphaned'
    <2>1. answer'.sure = TRUE /\ answer'.call = call
      BY <1>2 DEF Transact
    <2>2. call[1] \in QueueOps /\ call[2] = n
      BY DEF call, QueueOps
    <2>3. QED
      BY <1>4, <2>1, <2>2, OrphanedRight
  <1>5. CASE n \notin orphaned'
    <2>1. n \notin orphaned /\ index \in Int
      BY <1>2, <1>5, SsdbAssumption
    <2>2. /\ b.queue[n] = q
          /\ IF QSizeKey(n) \in DOMAIN db
             THEN Holds(db, n, front, back) /\ size = back - front + 1
             ELSE HoldsNone(db, n) /\ size = 0
      BY <2>1, ContentsAt, QueueState
    <2>3. /\ QSizeKey(n) \notin DOMAIN db => q = <<>> /\ Len(q) = 0 /\ DOMAIN q = 1 .. 0
          /\ QSizeKey(n) \in DOMAIN db =>
                /\ front \in Int /\ back \in Int /\ front <= back
                /\ Len(q) = back - front + 1 /\ DOMAIN q = 1 .. back - front + 1
                /\ QItemKey(n, EndOf(index)) \in DOMAIN db
      <3>1. CASE QSizeKey(n) \notin DOMAIN db
        BY <2>2, <3>1, QueueHeld
      <3>2. CASE QSizeKey(n) \in DOMAIN db
        <4> DEFINE u == front  w == back
        <4>1. Holds(db, n, u, w)
          BY <2>2, <3>2
        <4>2. QItemKey(n, EndOf(index)) \in DOMAIN db
          BY <4>1 DEF EndOf, Holds
        <4> HIDE DEF u, w
        <4>3. /\ u \in Int /\ w \in Int /\ u <= w
              /\ Len(Queue(db, n)) = w - u + 1 /\ DOMAIN Queue(db, n) = 1 .. w - u + 1
          BY <4>1, HeldItems
        <4>4. QED
          BY <3>2, <4>2, <4>3 DEF u, w
      <3>3. QED
        BY <3>1, <3>2
    <2>4. /\ index >= size \/ index < -size => p = 0
          /\ ~(index >= size) /\ ~(index < -size) =>
                /\ QSizeKey(n) \in DOMAIN db
                /\ seq \in front .. back /\ p = seq - front + 1 /\ p # 0
      <3> HIDE DEF q
      <3>1. seq = IF index >= 0 THEN front + index ELSE back + index + 1
        BY DEF AtIndex
      <3>2. p = LET i == IF index >= 0 THEN index + 1 ELSE Len(q) + index + 1
                IN IF i \in DOMAIN q THEN i ELSE 0
        BY DEF Place
      <3> HIDE DEF p, seq, size, front, back
      <3>3. CASE QSizeKey(n) \notin DOMAIN db
        BY <2>1, <2>2, <2>3, <3>2, <3>3
      <3>4. CASE QSizeKey(n) \in DOMAIN db
        <4>1. /\ front \in Int /\ back \in Int /\ front <= back /\ size = back - front + 1
              /\ Len(q) = size /\ DOMAIN q = 1 .. size
          BY <2>2, <2>3, <3>4
        <4>2. CASE index >= 0
          BY <2>1, <3>1, <3>2, <3>4, <4>1, <4>2
        <4>3. CASE ~(index >= 0)
          BY <2>1, <3>1, <3>2, <3>4, <4>1, <4>3
        <4>4. QED
          BY <4>2, <4>3
      <3>5. QED
        BY <3>3, <3>4
    <2>5. Works(r, QueueKeys, n)
      <3>1. CASE r = Return(-1) \/ r = Return(0)
        BY <3>1, ReturnWorks
      <3>2. CASE r = o /\ ~(index >= size) /\ ~(index < -size)
        <4>1. QSizeKey(n) \in DOMAIN db /\ seq \in front .. back
          BY <2>4, <3>2
        <4> HIDE DEF front, back, seq
        <4>2. seq \in Places
          BY <2>2, <4>1, HeldItems
        <4>3. QED
          BY <3>2, <4>2, QStoreWorks
      <3>3. QED
        BY <1>3, <3>1, <3>2
    <2>6. answer'.call = call /\ Outcome(r, f)
      BY <1>2, <2>5, TransactOutcome
    <2>7. answer'.sure = TRUE /\ fine = (f = "none")
      BY <2>6 DEF Outcome
    <2> SUFFICES Promised(call, ret, it, b, a, fine)
      <3> HIDE DEF a, b, fine, ret, it
      <3>1. QED
        BY <2>6, <2>7, PromiseKept DEF a, b, fine, ret, it
    <2>8. CASE ~(r.commits /\ f # "write")
      <3>1. a = b /\ ret # 1
        BY <1>3, <2>6, <2>8, NothingWritten DEF Outcome, Return, QStore, Commit
      <3>2. f = "none" => p = 0
        <4>1. CASE r = o
          BY <2>8, <4>1 DEF QStore, Commit
        <4>2. CASE r # o
          <5> HIDE DEF p, size, o
          <5>1. QItemKey(n, EndOf(index)) \notin DOMAIN db => QSizeKey(n) \notin DOMAIN db
            BY <2>3
          <5>2. QED
            BY <1>3, <2>4, <4>2, <5>1
        <4>3. QED
          BY <4>1, <4>2
      <3> HIDE DEF a, b, ret, it, q
      <3>3. QED
        BY <2>2, <2>7, <3>1, <3>2, QueuePromises DEF call
    <2>9. CASE r.commits /\ f # "write"
      <3>1. r = o /\ ~(index >= size) /\ ~(index < -size)
        BY <1>3, <2>9 DEF Return
      <3>2. QSizeKey(n) \in DOMAIN db /\ seq \in front .. back /\ p = seq - front + 1 /\ p # 0
        BY <2>4, <3>1
      <3>3. Outcome(QStore(n, seq, item), f)
        BY <2>6, <3>1
      <3> HIDE DEF seq
      <3>4. ret = 1 /\ a = [b EXCEPT !.queue[n] = [q EXCEPT ![seq - front + 1] = item]]
        BY <2>1, <2>9, <3>2, <3>3, QStoreDone
      <3>5. a = [b EXCEPT !.queue[n] = [q EXCEPT ![p] = item]]
        <4> HIDE DEF p, front, a, b, q
        <4>1. QED
          BY <3>2, <3>4
      <3> HIDE DEF a, b, ret, it, q
      <3>6. QED
        BY <2>2, <3>2, <3>4, <3>5, QueuePromises DEF call
    <2>10. QED
      BY <2>8, <2>9
  <1>6. QED
    BY <1>4, <1>5

LEMMA QsetBySeqAnswer ==
    ASSUME IInv, IInv', errors \in Nat, QueueSetBySeq
    PROVE  AnswerRight
  <1>1. PICK n \in QNames, seq \in {0} \cup QMin + 1 .. QMax, item \in Values,
             f \in Faults({"entry", "size", "write"}) :
            /\ Transact(<<"qset_by_seq", n, seq, item>>, QsetBySeq(n, seq, item, f), f)
            /\ orphaned' = IF answer'.ret = 1 /\ seq = Sequence(n, QFRONT) + QSize(n)
                           THEN orphaned \cup {n} ELSE orphaned
    BY DEF QueueSetBySeq
  <1> DEFINE call == <<"qset_by_seq", n, seq, item>>
             r == QsetBySeq(n, seq, item, f)
             o == QStore(n, seq, item)
             a == Contents(db')  b == Contents(db)  fine == errors' = errors
             ret == answer'.ret  it == answer'.item
             q == Queue(db, n)  front == Sequence(n, QFRONT)  back == Sequence(n, QBACK)
             size == QSize(n)
  <1>2. \/ r = Return(-1) \/ r = Return(0)
        \/ ~(seq < front) /\ ~(seq > front + size) /\ r = o
    BY DEF QsetBySeq
  <1>3. Transact(call, r, f) /\ orphaned \subseteq orphaned'
    BY <1>1
  <1>4. seq \in Places \ Ends /\ seq \in Int
    BY PlacesDiffer
  <1> HIDE DEF r
  <1>5. Works(r, QueueKeys, n)
    BY <1>2, <1>4, ReturnWorks, QStoreWorks
  <1> HIDE DEF o, call
  <1>6. answer'.call = call /\ Outcome(r, f)
    BY <1>3, <1>5, TransactOutcome
  <1>7. answer'.sure = TRUE /\ call[1] \in QueueOps /\ call[2] = n
    BY <1>6 DEF Outcome, call, QueueOps
  <1>8. CASE n \in orphaned'
    BY <1>6, <1>7, <1>8, OrphanedRight
  <1>9. CASE n \notin orphaned'
    <2>1. n \notin orphaned /\ b.queue[n] = q
      BY <1>3, <1>9, ContentsAt
    <2> SUFFICES Promised(call, ret, it, b, a, fine)
      <3> HIDE DEF a, b, fine, ret, it
      <3>1. QED
        BY <1>6, <1>7, PromiseKept DEF a, b, fine, ret, it
    <2>2. CASE ~(r.commits /\ f # "write")
      <3>1. a = b
        BY <1>6, <2>2, NothingWritten
      <3> HIDE DEF a, b, ret, it, q, fine
      <3>2. QED
        BY <3>1, QueuePromises DEF call
    <2>3. CASE r.commits /\ f # "write"
      <3>1. r = o /\ ~(seq < front) /\ ~(seq > front + size)
        BY <1>2, <2>3 DEF Return
      <3>2. o.ret = 1
        BY DEF o, QStore, Commit
      <3>3. seq # front + size
        BY <1>1, <1>6, <1>9, <2>3, <3>1, <3>2 DEF Outcome
      <3>4. IF QSizeKey(n) \in DOMAIN db
            THEN Holds(db, n, front, back) /\ size = back - front + 1
            ELSE front = 0 /\ size = 0
        BY <2>1, QueueState, QueueValues DEF IInv
      <3>5. QSizeKey(n) \in DOMAIN db /\ seq \in front .. back
        <4>1. CASE QSizeKey(n) \in DOMAIN db
          <5> HIDE DEF front, back, size
          <5>1. /\ front \in Int /\ back \in Int /\ size = back - front + 1
            BY <3>4, <4>1, HeldItems
          <5>2. QED
            BY <1>4, <3>1, <3>3, <4>1, <5>1
        <4>2. CASE QSizeKey(n) \notin DOMAIN db
          <5> HIDE DEF front, back, size
          <5>1. QED
            BY <1>4, <3>1, <3>3, <3>4, <4>2
        <4>3. QED
          BY <4>1, <4>2
      <3>6. Outcome(QStore(n, seq, item), f)
        BY <1>6, <3>1 DEF o
      <3>7. /\ ret = 1 /\ seq - front + 1 \in DOMAIN q
            /\ a = [b EXCEPT !.queue[n] = [q EXCEPT ![seq - front + 1] = item]]
        BY <2>1, <2>3, <3>5, <3>6, QStoreDone
      <3> DEFINE p == seq - front + 1
      <3>8. ret = 1 /\ p \in DOMAIN q /\ a = [b EXCEPT !.queue[n] = [q EXCEPT ![p] = item]]
        BY <3>7
      <3> HIDE DEF a, b, ret, it, q, p, fine
      <3>9. QED
        BY <2>1, <3>8, QueuePromises DEF call
    <2>4. QED
      BY <2>2, <2>3
  <1>10. QED
    BY <1>8, <1>9

\* qfix writes the ends and the size of its queue, or takes them away.
LEMMA QfixBatch ==
    ASSUME NEW n
    PROVE  \E p, q, r :
              /\ Qfix(n).batch = <<p, q, r>>
              /\ p.key = QSizeKey(n) /\ q.key = QItemKey(n, QFRONT) /\ r.key = QItemKey(n, QBACK)
  <1> DEFINE items == QfixItems(n)
             F == QItemKey(n, QFRONT)  K == QItemKey(n, QBACK)  Z == QSizeKey(n)
             u == Delete(Z)  v == Delete(F)  w == Delete(K)
             a == Put(Z, Len(items))  b == Put(F, items[1][3])  c == Put(K, items[Len(items)][3])
  <1>1. /\ u.key = Z /\ v.key = F /\ w.key = K
        /\ a.key = Z /\ b.key = F /\ c.key = K
    BY DEF Put, Delete
  <1>2. Qfix(n).batch \in {<<u, v, w>>, <<a, b, c>>}
    BY DEF Qfix, Commit
  <1> HIDE DEF u, v, w, a, b, c, F, K, Z
  <1>3. CASE Qfix(n).batch = <<u, v, w>>
    BY <1>1, <1>3 DEF F, K, Z
  <1>4. CASE Qfix(n).batch = <<a, b, c>>
    BY <1>1, <1>4 DEF F, K, Z
  <1>5. QED
    BY <1>2, <1>3, <1>4

LEMMA QfixAnswer ==
    ASSUME IInv, IInv', errors \in Nat, QueueFix
    PROVE  AnswerRight
  <1>1. PICK n \in QNames, f \in Faults({"write"}) : Operation(<<"qfix", n>>, Qfix(n), f)
    BY DEF QueueFix
  <1> DEFINE call == <<"qfix", n>>  o == Qfix(n)
             a == Contents(db')  b == Contents(db)  fine == errors' = errors
             ret == answer'.ret  it == answer'.item
  <1>2. Transact(call, o, f) /\ orphaned' = orphaned
    BY <1>1 DEF Operation
  <1>3. Works(o, QueueKeys, n)
    BY QfixWorks
  <1>4. PICK p, q, r : /\ o.batch = <<p, q, r>>
                       /\ p.key = QSizeKey(n)
                       /\ q.key = QItemKey(n, QFRONT) /\ r.key = QItemKey(n, QBACK)
    BY QfixBatch
  <1> HIDE DEF call, o
  <1>5. answer'.call = call /\ Outcome(o, f)
    BY <1>2, <1>3, TransactOutcome
  <1>6. answer'.sure = TRUE /\ call[1] \in QueueOps /\ call[2] = n
    BY <1>5 DEF Outcome, call, QueueOps
  <1>7. p.key # q.key /\ p.key # r.key /\ q.key # r.key
    BY <1>4, PlacesDiffer, QueueKeysAt
  <1>8. CASE n \in orphaned'
    BY <1>5, <1>6, <1>8, OrphanedRight
  <1>9. CASE n \notin orphaned'
    <2>1. a = b
      <3>1. CASE ~(o.commits /\ f # "write")
        BY <1>5, <3>1, NothingWritten
      <3>2. CASE o.commits /\ f # "write"
        <4>1. ChangesBy(<<p, q, r>>)
          BY <1>4, <1>5, <3>2 DEF Outcome
        <4>2. Safe(<<p, q, r>>, QItemKey(n, QFRONT))
          BY <1>4, EndsSafe
        <4>3. a = [b EXCEPT !.queue[n] = Queue(db', n)]
          BY <1>3, <1>4, <1>5, <3>2, <4>2, QueueOutcome
        <4>4. \A s : s \notin Ends => Stays(QItemKey(n, s))
          <5>1. ASSUME NEW s, s \notin Ends PROVE Stays(QItemKey(n, s))
            <6> DEFINE x == QItemKey(n, s)
            <6>1. x # p.key /\ x # q.key /\ x # r.key /\ x[1] # SYNCLOG
              BY <1>4, <5>1, QueueKeysAt DEF Ends
            <6> HIDE DEF x
            <6>2. Untouched(<<p, q, r>>, x)
              BY <1>7, <6>1, ThreeBatch
            <6>3. Stays(x)
              BY <4>1, <6>1, <6>2, BatchWrites
            <6>4. QED
              BY <6>3 DEF x
          <5>2. QED
            BY <5>1
        <4>5. Queue(db', n) = b.queue[n]
          BY <1>2, <1>9, <4>4, QueueUnchanged, ContentsAt
        <4>6. b = [b EXCEPT !.queue[n] = b.queue[n]]
          BY DEF Contents
        <4>7. QED
          BY <4>3, <4>5, <4>6
      <3>3. QED
        BY <3>1, <3>2
    <2> HIDE DEF a, b, ret, it, fine
    <2>2. Promised(call, ret, it, b, a, fine)
      BY <2>1, QueuePromises DEF call
    <2>3. QED
      BY <1>5, <1>6, <2>2, PromiseKept DEF a, b, fine, ret, it
  <1>10. QED
    BY <1>8, <1>9

\* hclear deletes what it finds, and finds something where there is something.
LEMMA ClearScanRight ==
    ASSUME WellFormed(db), LegalDb(db), NEW n \in HNames
    PROVE  LET todo == ClearScan(n)
           IN /\ todo \in Seq(DOMAIN Hash(db, n))
              /\ \A i, j \in DOMAIN todo : todo[i] = todo[j] => i = j
              /\ todo = <<>> => DOMAIN Hash(db, n) = {}
  <1> DEFINE P == <<HASH, n>>
             held == {x \in DOMAIN db : x # P /\ Starts(P, x)}
             u == While(Iterated(P, <<>>, ClearBatch), P)
             todo == ClearScan(n)
             H == DOMAIN Hash(db, n)
  <1>1. /\ held \subseteq Seq(Int)
        /\ u \in Seq(held)
        /\ \A i, j \in DOMAIN u : u[i] = u[j] => i = j
        /\ u = <<>> => held = {}
    <2>1. HASH \in Int /\ HASH > 1 /\ n \in Int /\ ClearBatch \in Nat \ {0}
      BY SsdbAssumption DEF HASH
    <2>2. QED
      BY <2>1, ScanFinds
  <1>2. todo = Final(u)
    <2>1. Bound(P, Empty) = P /\ EndBound(P, Empty) = <<>>
      BY DEF Bound, EndBound
    <2>2. QED
      BY <2>1, Zenon DEF ClearScan, HScan
  <1>3. \A x \in held : x = HashKey(n, x[3]) /\ Len(x) = 3 /\ x[3] \in H
    <2>1. ASSUME NEW x \in held PROVE x = HashKey(n, x[3]) /\ Len(x) = 3 /\ x[3] \in H
      <3>1. x[1] = HASH /\ x[2] = n /\ x \in DOMAIN db
        BY DEF Starts
      <3>2. x = <<HASH, n, x[3]>>
        BY <3>1 DEF WellFormed, Shaped, HASH, ZSET, QUEUE, ZSCORE, SYNCLOG, KV, HSIZE, ZSIZE, QSIZE
      <3>3. x = HashKey(n, x[3]) /\ Len(x) = 3
        BY <3>2 DEF HashKey
      <3>4. HashKey(n, x[3]) \in DOMAIN db
        BY <3>1, <3>3
      <3>5. x[3] \in H
        BY <3>4, HashMember
      <3>6. QED
        BY <3>3, <3>5
    <2>2. QED
      BY <2>1
  <1>4. \A k \in H : HashKey(n, k) \in held
    <2>1. ASSUME NEW k \in H PROVE HashKey(n, k) \in held
      <3>1. HashKey(n, k) \in DOMAIN db
        BY HashMember
      <3>2. HashKey(n, k) # P /\ Starts(P, HashKey(n, k))
        BY DEF Starts, HashKey
      <3>3. QED
        BY <3>1, <3>2
    <2>2. QED
      BY <2>1
  <1> HIDE DEF P, held, u, todo, H
  <1>5. u \in [1 .. Len(u) -> held] /\ Len(u) \in Nat /\ DOMAIN u = 1 .. Len(u)
    BY <1>1, LenProperties
  <1>6. todo = [i \in 1 .. Len(u) |-> u[i][3]]
    <2>1. \A i \in 1 .. Len(u) : u[i][Len(u[i])] = u[i][3]
      BY <1>3, <1>5
    <2>2. QED
      BY <1>2, <1>5, <2>1 DEF Final
  <1>7. todo \in [1 .. Len(u) -> H] /\ DOMAIN todo = 1 .. Len(u)
    BY <1>3, <1>5, <1>6
  <1>8. todo \in Seq(H) /\ Len(todo) = Len(u)
    BY <1>5, <1>7
  <1>9. \A i, j \in DOMAIN todo : todo[i] = todo[j] => i = j
    <2>1. ASSUME NEW i \in 1 .. Len(u), NEW j \in 1 .. Len(u), todo[i] = todo[j] PROVE i = j
      <3>1. u[i] = HashKey(n, u[i][3]) /\ u[j] = HashKey(n, u[j][3])
        BY <1>3, <1>5
      <3>2. u[i][3] = u[j][3]
        BY <1>6, <2>1
      <3>3. u[i] = u[j]
        BY <3>1, <3>2
      <3>4. QED
        BY <1>1, <1>5, <3>3
    <2>2. QED
      BY <1>7, <2>1
  <1>10. todo = <<>> => H = {}
    <2>1. todo = <<>> => Len(u) = 0
      BY <1>8
    <2>2. Len(u) = 0 => u = <<>>
      BY <1>1
    <2>3. QED
      BY <1>1, <1>4, <2>1, <2>2
  <1>11. QED
    BY <1>8, <1>9, <1>10 DEF todo, H

-----------------------------------------------------------------------------
(* What an hclear under way knows of its hash.                             *)

\* It has still to delete c.todo of the keys H, which are what is left.
Clears(c, H) ==
    /\ c.held = c.count + c.num + Cardinality(H)
    /\ c.todo \in Seq(H)
    /\ \A i, j \in DOMAIN c.todo : c.todo[i] = c.todo[j] => i = j
    /\ c.todo = <<>> /\ c.num = 0 => H = {}

Clearings == [name : HNames, todo : Seq(Int), num : Nat, count : Nat,
              moved : BOOLEAN, held : Nat]

ClearingRight ==
    clearing # Nothing =>
      /\ clearing \in Clearings
      /\ ~clearing.moved => Clears(clearing, DOMAIN Hash(db, clearing.name))

\* The keys of a hash none of whose entries comes or goes.
LEMMA SameKeys ==
    ASSUME IInv, IInv', NEW n, \A k : HashKey(n, k) \in DOMAIN db' <=> HashKey(n, k) \in DOMAIN db
    PROVE  DOMAIN Hash(db', n) = DOMAIN Hash(db, n)
  <1>1. \A k : k \in DOMAIN Hash(db', n) <=> k \in DOMAIN Hash(db, n)
    BY HashMember DEF IInv
  <1>2. QED
    BY <1>1

LEMMA ClearingMoved ==
    ASSUME NEW c \in Clearings, NEW t, t = [c EXCEPT !.moved = TRUE, !.held = 0]
    PROVE  t \in Clearings /\ t.moved = TRUE
  <1>1. PICK n \in HNames, s \in Seq(Int), i \in Nat, j \in Nat, b \in BOOLEAN, h \in Nat :
            c = [name |-> n, todo |-> s, num |-> i, count |-> j, moved |-> b, held |-> h]
    BY Zenon DEF Clearings
  <1>2. t \in Clearings
    BY <1>1 DEF Clearings
  <1>3. t.moved = TRUE
    BY <1>1
  <1>4. QED
    BY <1>2, <1>3

LEMMA ClearingStays ==
    ASSUME IInv, IInv', ClearingRight, clearing' = clearing,
           \A x : x[1] # SYNCLOG => Stays(x)
    PROVE  ClearingRight'
  <1> DEFINE n == clearing.name
  <1>1. \A k : HashKey(n, k) \in DOMAIN db' <=> HashKey(n, k) \in DOMAIN db
    BY DEF HashKey, HASH, SYNCLOG, Stays
  <1> HIDE DEF n
  <1>2. DOMAIN Hash(db', n) = DOMAIN Hash(db, n)
    BY <1>1, SameKeys
  <1>3. QED
    BY <1>2 DEF ClearingRight, n

LEMMA ClearingNoticed ==
    ASSUME IInv, IInv', ClearingRight, clearing' = Noticed
    PROVE  ClearingRight'
  <1> DEFINE n == clearing.name
             moves == \E x \in Changed : x[1] = HASH /\ x[2] = n
  <1>1. CASE clearing = Nothing
    BY <1>1 DEF ClearingRight, Noticed
  <1>2. CASE clearing # Nothing /\ moves
    <2>1. clearing' = [clearing EXCEPT !.moved = TRUE, !.held = 0]
      BY <1>2 DEF Noticed
    <2>2. clearing \in Clearings
      BY <1>2 DEF ClearingRight
    <2>3. clearing' \in Clearings /\ clearing'.moved
      BY <2>1, <2>2, ClearingMoved
    <2>4. QED
      BY <2>3 DEF ClearingRight, Clearings
  <1>3. CASE clearing # Nothing /\ ~moves
    <2>1. clearing' = clearing
      BY <1>3 DEF Noticed
    <2>2. \A k : HashKey(n, k) \notin Changed
      BY <1>3 DEF HashKey
    <2>3. \A k : HashKey(n, k) \in DOMAIN db' <=> HashKey(n, k) \in DOMAIN db
      BY <2>2 DEF Changed
    <2> HIDE DEF n
    <2>4. DOMAIN Hash(db', n) = DOMAIN Hash(db, n)
      BY <2>3, SameKeys
    <2>5. QED
      BY <1>3, <2>1, <2>4 DEF ClearingRight, n
  <1>4. QED
    BY <1>1, <1>2, <1>3

LEMMA HashNumbers ==
    ASSUME WellFormed(db), LegalDb(db), NEW n
    PROVE  DOMAIN Hash(db, n) \subseteq Int
  <1>1. ASSUME NEW k \in DOMAIN Hash(db, n) PROVE k \in Int
    <2> DEFINE x == HashKey(n, k)
    <2>1. x \in DOMAIN db
      BY HashMember
    <2>2. x[1] # SYNCLOG /\ Len(x) = 3 /\ x[3] = k
      BY DEF HashKey, HASH, SYNCLOG
    <2> HIDE DEF x
    <2>3. x \in Seq(Int)
      BY <2>1, <2>2, StoreKeysNumbers DEF LegalDb
    <2>4. x[3] \in Int
      BY <2>2, <2>3
    <2>5. QED
      BY <2>2, <2>4
  <1>2. QED
    BY <1>1

\* What hclear has to do at the start of a round.
LEMMA RoundRight ==
    ASSUME IInv, LegalDb(db), NEW n \in HNames
    PROVE  LET todo == ClearScan(n)  H == DOMAIN Hash(db, n)
           IN /\ todo \in Seq(H) /\ todo \in Seq(Int)
              /\ \A i, j \in DOMAIN todo : todo[i] = todo[j] => i = j
              /\ todo = <<>> => H = {}
              /\ IsFiniteSet(H) /\ Cardinality(H) \in Nat
  <1> DEFINE todo == ClearScan(n)  H == DOMAIN Hash(db, n)
  <1>1. /\ todo \in Seq(H)
        /\ \A i, j \in DOMAIN todo : todo[i] = todo[j] => i = j
        /\ todo = <<>> => H = {}
    BY ClearScanRight DEF IInv
  <1>2. H \subseteq Int
    BY HashNumbers DEF IInv
  <1>3. IsFiniteSet(H)
    BY DEF IInv, HashRight
  <1> HIDE DEF todo, H
  <1>4. todo \in Seq(Int)
    BY <1>1, <1>2, SeqMonotonic
  <1>5. Cardinality(H) \in Nat
    BY <1>3, FS_CardinalityType
  <1>6. QED
    BY <1>1, <1>3, <1>4, <1>5 DEF todo, H

LEMMA BeginRight ==
    ASSUME IInv, LegalDb(db), NEW n \in HNames, HclearBegin(n)
    PROVE  ClearingRight'
  <1> DEFINE todo == ClearScan(n)  H == DOMAIN Hash(db, n)
             c == [name |-> n, todo |-> todo, num |-> 0, count |-> 0,
                   moved |-> FALSE, held |-> Cardinality(H)]
  <1>1. clearing' = c /\ db' = db
    BY DEF HclearBegin
  <1>2. /\ todo \in Seq(H) /\ todo \in Seq(Int)
        /\ \A i, j \in DOMAIN todo : todo[i] = todo[j] => i = j
        /\ todo = <<>> => H = {}
        /\ Cardinality(H) \in Nat
    BY RoundRight
  <1> HIDE DEF todo, H
  <1>3. c \in Clearings
    BY <1>2 DEF Clearings
  <1>4. Clears(c, H)
    BY <1>2 DEF Clears
  <1>5. c.name = n
    OBVIOUS
  <1> HIDE DEF c
  <1>6. QED
    BY <1>1, <1>3, <1>4, <1>5 DEF ClearingRight, H

LEMMA AgainRight ==
    ASSUME IInv, LegalDb(db), ClearingRight, HclearAgain
    PROVE  ClearingRight'
  <1> DEFINE n == clearing.name  todo == ClearScan(n)  H == DOMAIN Hash(db, n)
             c == [clearing EXCEPT !.todo = todo, !.num = 0, !.count = @ + clearing.num]
  <1>1. clearing # Nothing /\ clearing' = c /\ db' = db
    BY DEF HclearAgain
  <1>2. clearing \in Clearings /\ (~clearing.moved => Clears(clearing, H))
    BY <1>1 DEF ClearingRight
  <1>3. n \in HNames
    BY <1>2 DEF Clearings
  <1> HIDE DEF n
  <1>4. /\ todo \in Seq(H) /\ todo \in Seq(Int)
        /\ \A i, j \in DOMAIN todo : todo[i] = todo[j] => i = j
        /\ todo = <<>> => H = {}
        /\ Cardinality(H) \in Nat
    BY <1>3, RoundRight
  <1> HIDE DEF todo, H
  <1>5. /\ c.name = clearing.name /\ c.todo = todo /\ c.num = 0
        /\ c.count = clearing.count + clearing.num
        /\ c.moved = clearing.moved /\ c.held = clearing.held
        /\ c \in Clearings
    <2>1. clearing.count \in Nat /\ clearing.num \in Nat
      BY <1>2 DEF Clearings
    <2>2. clearing.count + clearing.num \in Nat
      BY <2>1
    <2>3. QED
      <3>1. PICK m \in HNames, s \in Seq(Int), i \in Nat, j \in Nat, g \in BOOLEAN, h \in Nat :
                clearing = [name |-> m, todo |-> s, num |-> i, count |-> j, moved |-> g, held |-> h]
        BY <1>2, Zenon DEF Clearings
      <3>2. c \in Clearings
        BY <1>4, <2>2, <3>1 DEF Clearings
      <3>3. /\ c.name = clearing.name /\ c.todo = todo /\ c.num = 0
            /\ c.count = clearing.count + clearing.num
            /\ c.moved = clearing.moved /\ c.held = clearing.held
        BY <3>1
      <3>4. QED
        BY <3>2, <3>3
  <1> HIDE DEF c
  <1>6. ASSUME ~c.moved PROVE Clears(c, H)
    <2>1. clearing.held = clearing.count + clearing.num + Cardinality(H)
      BY <1>2, <1>5, <1>6 DEF Clears
    <2>2. clearing.count \in Nat /\ clearing.num \in Nat
      BY <1>2 DEF Clearings
    <2>3. c.held = c.count + c.num + Cardinality(H)
      BY <1>4, <1>5, <2>1, <2>2
    <2>4. QED
      BY <1>4, <1>5, <2>3 DEF Clears
  <1>7. QED
    BY <1>1, <1>5, <1>6 DEF ClearingRight, H, n

\* hclear deletes a key it has to delete, or gives up.
LEMMA ClearingDeletes ==
    ASSUME IInv, IInv', errors \in Nat, NEW n \in HNames, NEW k \in DOMAIN Hash(db, n), NEW f,
           Transact(<<"hdel", n, k>>, Hdel(n, k, f), f), answer'.ret # -1
    PROVE  DOMAIN Hash(db', n) = DOMAIN Hash(db, n) \ {k}
  <1> DEFINE call == <<"hdel", n, k>>  o == Hdel(n, k, f)  x == HashKey(n, k)
             ret == answer'.ret
  <1>1. Works(o, HashKeys, n) /\ Transact(call, o, f)
    BY HdelWorks
  <1>2. /\ Outcome(o, f)
        /\ o.commits /\ f # "write" => Frame(HashKeys, n)
    <2> HIDE DEF o, call
    <2>1. QED
      BY <1>1, TransactOutcome
  <1>3. /\ IF ret = 1
           THEN Contents(db') = [Contents(db) EXCEPT !.hash[n] = Without(Hash(db, n), k)]
           ELSE Contents(db') = Contents(db)
        /\ ret \in {-1, 0, 1}
    BY <1>2, HdelDone
  <1>4. ret # 0
    <2>1. x \in DOMAIN db
      BY HashMember DEF IInv
    <2>2. Found(x, f = "entry") # 0
      BY <2>1 DEF Found
    <2>3. o.ret # 0
      BY <2>2 DEF Hdel, Return, Commit
    <2> HIDE DEF o
    <2>4. QED
      BY <1>2, <2>3 DEF Outcome
  <1>5. Contents(db') = [Contents(db) EXCEPT !.hash[n] = Without(Hash(db, n), k)]
    BY <1>3, <1>4
  <1>6. Hash(db', n) = Without(Hash(db, n), k)
    <2>1. Contents(db').hash[n] = Hash(db', n) /\ n \in DOMAIN Contents(db).hash
      BY ContentsAt DEF Contents
    <2>2. [Contents(db) EXCEPT !.hash[n] = Without(Hash(db, n), k)].hash[n] = Without(Hash(db, n), k)
      BY <2>1 DEF Contents
    <2>3. QED
      BY <1>5, <2>1, <2>2
  <1>7. QED
    BY <1>6 DEF Without

\* What is left to do behind the first.
LEMMA TailClears ==
    ASSUME NEW H, NEW todo \in Seq(H), todo # <<>>,
           \A i, j \in DOMAIN todo : todo[i] = todo[j] => i = j
    PROVE  LET k == Head(todo)  t == Tail(todo)
           IN /\ k \in H /\ t \in Seq(H \ {k})
              /\ \A i, j \in DOMAIN t : t[i] = t[j] => i = j
  <1> DEFINE k == Head(todo)  t == Tail(todo)  m == Len(todo) - 1
  <1>1. Len(todo) \in Nat /\ DOMAIN todo = 1 .. Len(todo) /\ Len(todo) # 0
    BY LenProperties, EmptySeq
  <1>2. m \in Nat /\ 1 \in 1 .. Len(todo) /\ \A i \in 1 .. m : i + 1 \in 1 .. Len(todo) /\ i + 1 # 1
    BY <1>1
  <1>3. k = todo[1] /\ k \in H
    BY <1>1, <1>2, ElementOfSeq
  <1>4. t \in Seq(H) /\ Len(t) = m /\ \A i \in 1 .. m : t[i] = todo[i + 1]
    BY <1>1
  <1>5. DOMAIN t = 1 .. m
    BY <1>4, LenProperties
  <1> HIDE DEF k, t, m
  <1>6. ASSUME NEW i \in 1 .. m PROVE t[i] \in H \ {k}
    <2>1. t[i] \in H
      BY <1>4, <1>5, ElementOfSeq
    <2>2. t[i] = todo[i + 1] /\ i + 1 \in DOMAIN todo /\ 1 \in DOMAIN todo /\ i + 1 # 1
      BY <1>1, <1>2, <1>4
    <2>3. todo[i + 1] # todo[1]
      BY <2>2
    <2>4. QED
      BY <1>3, <2>1, <2>2, <2>3
  <1>7. t \in [1 .. m -> H \ {k}]
    BY <1>4, <1>5, <1>6
  <1>8. t \in Seq(H \ {k})
    BY <1>2, <1>7
  <1>9. ASSUME NEW i \in 1 .. m, NEW j \in 1 .. m, t[i] = t[j] PROVE i = j
    <2>1. todo[i + 1] = todo[j + 1] /\ i + 1 \in DOMAIN todo /\ j + 1 \in DOMAIN todo
      BY <1>1, <1>2, <1>4, <1>9
    <2>2. i + 1 = j + 1
      BY <2>1
    <2>3. QED
      BY <2>2
  <1>10. QED
    BY <1>3, <1>5, <1>8, <1>9 DEF k, t

LEMMA DeletesRight ==
    ASSUME IInv, IInv', errors \in Nat, ClearingRight, NEW f, HclearDel(f)
    PROVE  ClearingRight'
  <1> DEFINE n == clearing.name  todo == clearing.todo  k == Head(todo)  H == DOMAIN Hash(db, n)
             t == Tail(todo)  num == clearing.num + 1
             c == [clearing EXCEPT !.todo = Tail(@), !.num = @ + 1]
  <1>1. CASE answer'.ret = -1
    BY <1>1 DEF HclearDel, ClearingRight
  <1>2. CASE answer'.ret # -1
    <2>1. clearing # Nothing /\ todo # <<>> /\ clearing' = c
          /\ Transact(<<"hdel", n, k>>, Hdel(n, k, f), f)
      BY <1>2 DEF HclearDel
    <2>2. clearing \in Clearings /\ (~clearing.moved => Clears(clearing, H))
      BY <2>1 DEF ClearingRight
    <2>3. n \in HNames /\ todo \in Seq(Int) /\ clearing.num \in Nat /\ clearing.count \in Nat
      BY <2>2 DEF Clearings
    <2>4. /\ c.name = n /\ c.todo = t /\ c.num = num
          /\ c.count = clearing.count /\ c.moved = clearing.moved /\ c.held = clearing.held
          /\ c \in Clearings
      <3>1. t \in Seq(Int) /\ num \in Nat
        BY <2>1, <2>3
      <3>2. PICK m \in HNames, s \in Seq(Int), i \in Nat, j \in Nat, g \in BOOLEAN, h \in Nat :
                clearing = [name |-> m, todo |-> s, num |-> i, count |-> j, moved |-> g, held |-> h]
        BY <2>2, Zenon DEF Clearings
      <3>3. c \in Clearings
        BY <3>1, <3>2 DEF Clearings
      <3>4. /\ c.name = n /\ c.todo = t /\ c.num = num
            /\ c.count = clearing.count /\ c.moved = clearing.moved /\ c.held = clearing.held
        BY <3>2
      <3>5. QED
        BY <3>3, <3>4
    <2> HIDE DEF c
    <2>5. ASSUME ~c.moved PROVE Clears(c, DOMAIN Hash(db', n))
      <3>1. /\ clearing.held = clearing.count + clearing.num + Cardinality(H)
            /\ todo \in Seq(H)
            /\ \A i, j \in DOMAIN todo : todo[i] = todo[j] => i = j
        BY <2>2, <2>4, <2>5 DEF Clears
      <3> HIDE DEF n, todo, H
      <3>2. /\ k \in H /\ t \in Seq(H \ {k})
            /\ \A i, j \in DOMAIN t : t[i] = t[j] => i = j
        BY <2>1, <3>1, TailClears
      <3>3. DOMAIN Hash(db', n) = H \ {k}
        <4> HIDE DEF k
        <4>1. QED
          BY <1>2, <2>1, <2>3, <3>2, ClearingDeletes DEF H
      <3>4. IsFiniteSet(H)
        BY <2>3 DEF IInv, HashRight, H
      <3>5. Cardinality(H \ {k}) = Cardinality(H) - 1 /\ Cardinality(H) \in Nat
        BY <3>2, <3>4, FS_RemoveElement, FS_CardinalityType
      <3> HIDE DEF k, t
      <3>6. c.held = c.count + c.num + Cardinality(H \ {k}) /\ c.num # 0
        BY <2>3, <2>4, <3>1, <3>5
      <3>7. Clears(c, H \ {k})
        BY <2>4, <3>2, <3>6 DEF Clears
      <3>8. QED
        BY <3>3, <3>7
    <2>6. QED
      BY <2>1, <2>4, <2>5 DEF ClearingRight
  <1>3. QED
    BY <1>1, <1>2

LEMMA StepClearing ==
    IInv /\ IInv' /\ LogRight /\ StoreLegal /\ ClearingRight /\ [Next]_vars => ClearingRight'
  <1> SUFFICES ASSUME IInv, IInv', LogRight, StoreLegal, ClearingRight, [Next]_vars
               PROVE  ClearingRight'
    OBVIOUS
  <1>1. errors \in Nat /\ LegalDb(db) /\ ClearingRight
    BY DEF StoreLegal
  <1>2. CASE Operations
    BY <1>1, <1>2, OperationNoticed, ClearingNoticed
  <1>3. CASE QueueSetBySeq
    BY <1>3 DEF QueueSetBySeq, ClearingRight
  <1>4. CASE \E f : HclearDel(f)
    <2>1. PICK f : HclearDel(f)
      BY <1>4
    <2>2. QED
      BY <1>1, <2>1, DeletesRight
  <1>5. CASE \E n \in HNames : HclearBegin(n)
    <2>1. PICK n \in HNames : HclearBegin(n)
      BY <1>5
    <2>2. QED
      BY <1>1, <2>1, BeginRight
  <1>6. CASE HclearAgain
    BY <1>1, <1>6, AgainRight
  <1>7. CASE HclearEnd \/ Restart
    BY <1>7 DEF HclearEnd, Restart, ClearingRight
  <1>8. CASE CleanBegin \/ CleanEnd \/ UNCHANGED vars
    <2>1. db' = db /\ clearing' = clearing
      BY <1>8 DEF CleanBegin, CleanEnd, vars
    <2>2. \A x : Stays(x)
      BY <2>1 DEF Stays
    <2>3. QED
      BY <1>1, <2>1, <2>2, ClearingStays
  <1>9. CASE \E f : CleanChunk(f)
    <2>1. PICK f : CleanChunk(f)
      BY <1>9
    <2>2. \A x : x[1] # SYNCLOG => Stays(x)
      BY <2>1, CleanKeeps DEF IInv
    <2>3. clearing' = clearing
      BY <2>1 DEF CleanChunk
    <2>4. QED
      BY <1>1, <2>2, <2>3, ClearingStays
  <1>10. QED
    BY <1>2, <1>3, <1>4, <1>5, <1>6, <1>7, <1>8, <1>9, NextSteps, Zenon DEF OtherSteps

LEMMA InitClearing == Init => ClearingRight
  BY DEF Init, ClearingRight

-----------------------------------------------------------------------------
(* The steps that answer no transaction.                                   *)

\* An hclear that nobody disturbed has deleted all there was.
LEMMA EndAnswer ==
    ASSUME IInv, ClearingRight, HclearEnd
    PROVE  AnswerRight
  <1> DEFINE n == clearing.name  b == Contents(db)  H == DOMAIN Hash(db, n)
  <1>1. /\ clearing # Nothing /\ clearing.todo = <<>> /\ clearing.num = 0 /\ db' = db
        /\ answer' = [call |-> <<"hclear", n>>, ret |-> clearing.count,
                      item |-> clearing.held, sure |-> ~clearing.moved]
    BY DEF HclearEnd
  <1>2. clearing \in Clearings /\ (~clearing.moved => Clears(clearing, H))
    BY <1>1 DEF ClearingRight
  <1>3. n \in HNames /\ clearing.count \in Nat /\ clearing.moved \in BOOLEAN
    BY <1>2 DEF Clearings
  <1>4. /\ answer'.call = <<"hclear", n>> /\ answer'.ret = clearing.count
        /\ answer'.item = clearing.held /\ answer'.sure = ~clearing.moved
    BY <1>1
  <1>5. CASE clearing.moved
    BY <1>1, <1>4, <1>5 DEF AnswerRight
  <1>6. CASE ~clearing.moved
    <2>1. H = {} /\ clearing.held = clearing.count + clearing.num + Cardinality(H)
      BY <1>1, <1>2, <1>6 DEF Clears
    <2>2. Cardinality({}) = 0
      BY FS_EmptySet
    <2>3. clearing.held = clearing.count
      BY <1>1, <1>3, <2>1, <2>2
    <2>4. b.hash[n] = <<>>
      <3>1. b.hash[n] = Hash(db, n)
        BY <1>3, ContentsAt
      <3>2. Hash(db, n) = [k \in H |-> Hash(db, n)[k]]
        BY AreFunctions
      <3>3. [k \in H |-> Hash(db, n)[k]] = <<>>
        BY <2>1
      <3>4. QED
        BY <3>1, <3>2, <3>3
    <2> HIDE DEF b, n, H
    <2>5. Promised(<<"hclear", n>>, clearing.count, clearing.held, b, b, errors' = errors)
      BY <2>3, <2>4 DEF Promised
    <2>6. answer'.sure = TRUE
      BY <1>4, <1>6
    <2>7. Contents(db') = b
      BY <1>1 DEF b
    <2>8. Promised(answer'.call, answer'.ret, answer'.item, Contents(db), Contents(db'),
                   errors' = errors)
      BY <1>4, <2>5, <2>7 DEF b
    <2>9. QED
      BY <2>6, <2>8, PromiseKept
  <1>7. QED
    BY <1>3, <1>5, <1>6

LEMMA UnansweredRight ==
    ASSUME IInv, IInv', LogRight, ClearingRight, OtherSteps, ~UNCHANGED vars
    PROVE  AnswerRight
  <1>1. CASE HclearEnd
    BY <1>1, EndAnswer
  <1>2. CASE (\E n \in HNames : HclearBegin(n)) \/ HclearAgain \/ Restart \/ CleanBegin \/ CleanEnd
    <2>1. db' = db /\ answer' = NoAnswer
      BY <1>2 DEF HclearBegin, HclearAgain, Restart, CleanBegin, CleanEnd
    <2>2. QED
      BY <2>1 DEF AnswerRight, NoAnswer
  <1>3. CASE \E f : CleanChunk(f)
    <2>1. PICK f : CleanChunk(f)
      BY <1>3
    <2>2. \A x : x[1] # SYNCLOG => Stays(x)
      BY <2>1, CleanKeeps DEF IInv
    <2>3. /\ \A y : IsEntry(y) => Stays(y)
          /\ EndsStay
      BY <2>2 DEF IsEntry, EndsStay, QItemKey, KV, HASH, ZSET, QUEUE, SYNCLOG
    <2>4. Contents(db') = Contents(db)
      BY <2>3, SameContents
    <2>5. answer' = NoAnswer
      BY <2>1 DEF CleanChunk
    <2>6. QED
      BY <2>4, <2>5 DEF AnswerRight, NoAnswer
  <1>4. QED
    BY <1>1, <1>2, <1>3, Zenon DEF OtherSteps

LEMMA ClearAnswer ==
    ASSUME IInv, IInv', errors \in Nat, ClearingRight, NEW f, HclearDel(f)
    PROVE  AnswerRight
  <1> DEFINE n == clearing.name  k == Head(clearing.todo)
  <1>1. Transact(<<"hdel", n, k>>, Hdel(n, k, f), f) /\ clearing # Nothing
    BY DEF HclearDel
  <1>2. n \in HNames
    BY <1>1 DEF ClearingRight, Clearings
  <1> HIDE DEF n, k
  <1>3. QED
    BY <1>1, <1>2, HdelAnswer

LEMMA OperationAnswer ==
    ASSUME IInv, IInv', errors \in Nat, Operations \/ QueueSetBySeq
    PROVE  AnswerRight
  <1>1. CASE KvSet \/ KvSetnx \/ KvGetset \/ KvDel \/ KvIncr \/ KvMultiSet \/ KvMultiDel
    BY <1>1, SetAnswer, SetnxAnswer, GetsetAnswer, DelAnswer, IncrAnswer, MultiSetAnswer,
       MultiDelAnswer, Zenon
  <1>2. CASE HashSet \/ HashIncr \/ ZsetSet \/ ZsetDel \/ ZsetIncr
    BY <1>2, HsetAnswer, HincrAnswer, ZsetAnswer, ZdelAnswer, ZincrAnswer, Zenon
  <1>3. CASE HashDel
    <2>1. PICK n \in HNames, k \in Keys \cup {TooLong}, f \in Faults({"entry", "size", "write"}) :
              Operation(<<"hdel", n, k>>, Hdel(n, k, f), f)
      BY <1>3 DEF HashDel
    <2>2. Transact(<<"hdel", n, k>>, Hdel(n, k, f), f)
      BY <2>1 DEF Operation
    <2>3. QED
      BY <2>2, HdelAnswer
  <1>4. CASE QueuePush \/ QueuePop \/ QueueSet \/ QueueSetBySeq \/ QueueFix
    BY <1>4, QpushAnswer, QpopAnswer, QsetAnswer, QsetBySeqAnswer, QfixAnswer, Zenon
  <1>5. QED
    BY <1>1, <1>2, <1>3, <1>4, Zenon DEF Operations

\* An hclear that nobody disturbs has its entries still to delete or deleted
\* and counted: the rounds of hclear, each a scan and a transaction for every
\* key it found, miss none.
THEOREM HclearCounts == Spec => []ClearingRight
  <1>1. Init => ClearingRight
    BY InitClearing
  <1>2. IInv /\ IInv' /\ LogRight /\ StoreLegal /\ ClearingRight /\ [Next]_vars => ClearingRight'
    BY StepClearing
  <1>3. QED
    BY <1>1, <1>2, StoreRight, RecordsRight, KeysLegal, PTL DEF Spec

\* Each operation of the store answers what it did and does what it promises
\* to its own entries and to no others, whichever of its reads or its write
\* fails, and whoever works on the store meanwhile; a restart and the
\* cleaning thread change nothing: set to multi_del, hset to hclear, zset to
\* zincr and qpush to qfix keep the promises of their comments and answers.
THEOREM AnswersPromised == Spec => AnswersRight
  <1>1. IInv /\ IInv' /\ LogRight /\ StoreLegal /\ ClearingRight /\ [Next]_vars => [AnswerRight]_vars
    <2> SUFFICES ASSUME IInv, IInv', LogRight, StoreLegal, ClearingRight, [Next]_vars,
                        ~UNCHANGED vars
                 PROVE  AnswerRight
      OBVIOUS
    <2>1. errors \in Nat /\ ClearingRight
      BY DEF StoreLegal
    <2>2. CASE Operations \/ QueueSetBySeq
      BY <2>1, <2>2, OperationAnswer
    <2>3. CASE \E f : HclearDel(f)
      BY <2>1, <2>3, ClearAnswer
    <2>4. CASE OtherSteps
      BY <2>1, <2>4, UnansweredRight
    <2>5. QED
      BY <2>2, <2>3, <2>4, NextSteps, Zenon
  <1>2. QED
    BY <1>1, StoreRight, RecordsRight, KeysLegal, HclearCounts, PTL DEF Spec, AnswersRight

-----------------------------------------------------------------------------
(* What a scan returns.  The keys with a prefix are a run of the keys      *)
(* between the bounds: While keeps those of them the limit has left.       *)

\* The place of an element tells how many come before it.
LEMMA PlaceOf ==
    ASSUME NEW S, NEW R, NEW s, Enumerates(s, R, S), NEW i \in 1 .. Cardinality(S)
    PROVE  /\ s[i] \in S
           /\ IsFiniteSet(Before(R, S, s[i])) /\ Cardinality(Before(R, S, s[i])) = i - 1
  <1> DEFINE N == Cardinality(S)
             B == Before(R, S, s[i])
             g == [j \in 1 .. i - 1 |-> s[j]]
  <1>1. /\ N \in Nat /\ i \in 1 .. N
        /\ \A j \in 1 .. N : s[j] \in S
        /\ \A j, k \in 1 .. N : j < k <=> <<s[j], s[k]>> \in R
        /\ \A j, k \in 1 .. N : s[j] = s[k] => j = k
        /\ \A x \in S : \E j \in 1 .. N : s[j] = x
    BY ElementOfSeq DEF Enumerates
  <1> HIDE DEF N
  <1>2. \A j \in 1 .. i - 1 : j \in 1 .. N /\ j < i
    BY <1>1
  <1>3. \A j \in 1 .. i - 1 : g[j] = s[j] /\ g[j] \in B
    BY <1>1, <1>2 DEF Before
  <1>4. \A x \in B : \E j \in 1 .. i - 1 : g[j] = x
    <2>1. ASSUME NEW x \in B PROVE \E j \in 1 .. i - 1 : g[j] = x
      <3>1. x \in S /\ <<x, s[i]>> \in R
        BY DEF Before
      <3>2. PICK j \in 1 .. N : s[j] = x
        BY <1>1, <3>1
      <3>3. j < i
        BY <1>1, <3>1, <3>2
      <3>4. j \in 1 .. i - 1
        BY <1>1, <3>3
      <3>5. QED
        BY <3>2, <3>4
    <2>2. QED
      BY <2>1
  <1>5. g \in Bijection(1 .. i - 1, B)
    <2>1. g \in [1 .. i - 1 -> B]
      BY <1>3
    <2>2. \A j, k \in 1 .. i - 1 : g[j] = g[k] => j = k
      BY <1>1, <1>2, <1>3
    <2> HIDE DEF g, B
    <2>3. g \in Surjection(1 .. i - 1, B)
      BY <1>4, <2>1 DEF Surjection
    <2>4. g \in Injection(1 .. i - 1, B)
      BY <2>1, <2>2 DEF Injection, IsInjective
    <2>5. QED
      BY <2>3, <2>4 DEF Bijection
  <1>6. IsFiniteSet(1 .. i - 1) /\ Cardinality(1 .. i - 1) = i - 1
    <2>1. i - 1 \in Nat
      BY <1>1
    <2>2. /\ IsFiniteSet(1 .. i - 1)
          /\ Cardinality(1 .. i - 1) = IF 1 > i - 1 THEN 0 ELSE i - 1 - 1 + 1
      BY <2>1, FS_Interval
    <2>3. QED
      BY <2>1, <2>2
  <1> HIDE DEF g, B
  <1>7. IsFiniteSet(B) /\ Cardinality(B) = i - 1
    BY <1>5, <1>6, FS_Bijection DEF ExistsBijection
  <1>8. QED
    BY <1>1, <1>7 DEF B

\* An order has one enumeration.
LEMMA OneEnumeration ==
    ASSUME NEW S, NEW R, NEW s, NEW t, Enumerates(s, R, S), Enumerates(t, R, S)
    PROVE  s = t
  <1> DEFINE N == Cardinality(S)
  <1>1. /\ N \in Nat /\ s \in Seq(S) /\ t \in Seq(S) /\ Len(s) = N /\ Len(t) = N
        /\ \A x \in S : \E j \in 1 .. N : t[j] = x
    BY DEF Enumerates
  <1>2. ASSUME NEW i \in 1 .. N PROVE s[i] = t[i]
    <2>1. s[i] \in S /\ Cardinality(Before(R, S, s[i])) = i - 1
      BY PlaceOf
    <2>2. PICK j \in 1 .. N : t[j] = s[i]
      BY <1>1, <2>1
    <2>3. Cardinality(Before(R, S, t[j])) = j - 1
      BY PlaceOf
    <2> HIDE DEF N
    <2>4. i = j
      BY <1>1, <2>1, <2>2, <2>3
    <2>5. QED
      BY <2>2, <2>4
  <1> HIDE DEF N
  <1>3. QED
    BY <1>1, <1>2, SeqEqual

\* Backwards it enumerates the converse.
Converse(R) == {<<p[2], p[1]>> : p \in R}

LEMMA Backwards ==
    ASSUME NEW S, NEW R, R \subseteq S \X S, NEW s, Enumerates(s, R, S)
    PROVE  Enumerates(Reverse(s), Converse(R), S)
  <1> DEFINE N == Cardinality(S)
             t == Reverse(s)
  <1>1. /\ N \in Nat /\ Len(s) = N
        /\ \A j \in 1 .. N : s[j] \in S
        /\ \A j, k \in 1 .. N : j < k <=> <<s[j], s[k]>> \in R
        /\ \A j, k \in 1 .. N : s[j] = s[k] => j = k
        /\ \A x \in S : \E j \in 1 .. N : s[j] = x
    BY ElementOfSeq DEF Enumerates
  <1>2. t = [i \in 1 .. N |-> s[N - i + 1]]
    BY <1>1 DEF Reverse
  <1>3. \A x, y \in S : <<x, y>> \in Converse(R) <=> <<y, x>> \in R
    <2>1. ASSUME NEW x \in S, NEW y \in S, <<x, y>> \in Converse(R) PROVE <<y, x>> \in R
      <3>1. PICK p \in R : <<x, y>> = <<p[2], p[1]>>
        BY <2>1 DEF Converse
      <3>2. p = <<p[1], p[2]>> /\ x = p[2] /\ y = p[1]
        BY <3>1
      <3>3. QED
        BY <3>2
    <2>2. ASSUME NEW x \in S, NEW y \in S, <<y, x>> \in R PROVE <<x, y>> \in Converse(R)
      <3>1. <<x, y>> = << <<y, x>>[2], <<y, x>>[1] >>
        OBVIOUS
      <3>2. QED
        BY <2>2, <3>1 DEF Converse
    <2>3. QED
      BY <2>1, <2>2
  <1> HIDE DEF t, N
  <1>4. \A i \in 1 .. N : N - i + 1 \in 1 .. N /\ t[i] = s[N - i + 1]
    BY <1>1, <1>2
  <1>5. t \in [1 .. N -> S] /\ DOMAIN t = 1 .. N
    BY <1>1, <1>2, <1>4
  <1>6. t \in Seq(S) /\ Len(t) = N
    BY <1>1, <1>5
  <1>7. \A i, j \in 1 .. N : i < j <=> <<t[i], t[j]>> \in Converse(R)
    <2>1. ASSUME NEW i \in 1 .. N, NEW j \in 1 .. N
          PROVE  i < j <=> <<t[i], t[j]>> \in Converse(R)
      <3> DEFINE a == N - i + 1  b == N - j + 1
      <3>1. a \in 1 .. N /\ b \in 1 .. N /\ (i < j <=> b < a)
        BY <1>1
      <3>2. t[i] = s[a] /\ t[j] = s[b]
        BY <1>4
      <3> HIDE DEF a, b
      <3>3. QED
        BY <1>1, <1>3, <3>1, <3>2
    <2>2. QED
      BY <2>1
  <1>8. \A i, j \in 1 .. N : t[i] = t[j] => i = j
    <2>1. ASSUME NEW i \in 1 .. N, NEW j \in 1 .. N, t[i] = t[j] PROVE i = j
      <3>1. N - i + 1 = N - j + 1
        BY <1>1, <1>4, <2>1
      <3>2. QED
        BY <1>1, <3>1
    <2>2. QED
      BY <2>1
  <1>9. ASSUME NEW x \in S PROVE \E i \in 1 .. N : t[i] = x
    <2>1. PICK j \in 1 .. N : s[j] = x
      BY <1>1
    <2> DEFINE i == N - j + 1
    <2>2. i \in 1 .. N /\ N - i + 1 = j
      BY <1>1
    <2> HIDE DEF i
    <2>3. QED
      BY <1>4, <2>1, <2>2
  <1>10. QED
    BY <1>1, <1>5, <1>6, <1>7, <1>8, <1>9 DEF Enumerates, t, N

\* The keys with the prefix P among those a scan passes, which g maps to T in
\* the order of T, and before which there are no others.
Passes(s, R, inside, P, g, t, Q, T) ==
    /\ \A x \in inside : g[x] = x[Len(x)]
    /\ Enumerates(s, R, inside) /\ Enumerates(t, Q, T)
    /\ \A x, w \in inside : IsPrefix(P, w) /\ <<x, w>> \in R => IsPrefix(P, x)
    /\ \A x \in inside : IsPrefix(P, x) => g[x] \in T
    /\ \A k \in T : \E x \in inside : IsPrefix(P, x) /\ g[x] = k
    /\ \A x, y \in inside : IsPrefix(P, x) /\ IsPrefix(P, y) =>
          (<<x, y>> \in R <=> <<g[x], g[y]>> \in Q)

\* As many come before one as before what it is mapped to.
LEMMA PlacesPassed ==
    ASSUME NEW inside, NEW R, NEW s, NEW T, NEW Q, NEW t, NEW P, NEW g,
           Passes(s, R, inside, P, g, t, Q, T), NEW i \in 1 .. Cardinality(inside), IsPrefix(P, s[i])
    PROVE  i \in 1 .. Cardinality(T) /\ g[s[i]] = t[i]
  <1> DEFINE x == s[i]
             A == Before(R, inside, x)
             B == Before(Q, T, g[x])
             h == [y \in A |-> g[y]]
             M == Cardinality(T)
  <1>1. x \in inside /\ IsFiniteSet(A) /\ Cardinality(A) = i - 1
    BY PlaceOf DEF Passes
  <1>2. g[x] \in T
    BY <1>1 DEF Passes
  <1>3. PICK j \in 1 .. M : t[j] = g[x]
    BY <1>2 DEF Passes, Enumerates
  <1>4. Cardinality(B) = j - 1
    <2>1. Cardinality(Before(Q, T, t[j])) = j - 1
      BY PlaceOf DEF Passes
    <2>2. QED
      BY <1>3, <2>1
  <1>5. \A y \in A : y \in inside /\ <<y, x>> \in R /\ IsPrefix(P, y)
    BY <1>1 DEF Before, Passes
  <1> HIDE DEF x, A
  <1>6. h \in Bijection(A, B)
    <2>1. \A y \in A : g[y] \in B
      BY <1>1, <1>5 DEF Passes, Before, x
    <2>2. ASSUME NEW k \in B PROVE \E y \in A : g[y] = k
      <3>1. k \in T /\ <<k, g[x]>> \in Q
        BY DEF Before
      <3>2. PICK y \in inside : IsPrefix(P, y) /\ g[y] = k
        BY <3>1 DEF Passes
      <3>3. <<y, x>> \in R
        BY <1>1, <3>1, <3>2 DEF Passes, x
      <3>4. QED
        BY <3>2, <3>3 DEF A, Before
    <2>3. ASSUME NEW y \in A, NEW z \in A, g[y] = g[z] PROVE y = z
      <3>1. <<g[y], g[y]>> \notin Q
        <4>1. PICK a \in 1 .. M : t[a] = g[y]
          BY <1>5 DEF Passes, Enumerates
        <4>2. ~(a < a)
          BY DEF Passes, Enumerates
        <4>3. QED
          BY <4>1, <4>2 DEF Passes, Enumerates
      <3>2. <<y, z>> \notin R /\ <<z, y>> \notin R
        BY <1>5, <2>3, <3>1 DEF Passes
      <3>3. y \in inside /\ z \in inside
        BY <1>5
      <3>4. PICK a \in 1 .. Cardinality(inside) : s[a] = y
        BY <3>3 DEF Passes, Enumerates
      <3>5. PICK b \in 1 .. Cardinality(inside) : s[b] = z
        BY <3>3 DEF Passes, Enumerates
      <3>6. ~(a < b) /\ ~(b < a)
        BY <3>2, <3>4, <3>5 DEF Passes, Enumerates
      <3>7. a = b
        BY <3>6 DEF Passes, Enumerates
      <3>8. QED
        BY <3>4, <3>5, <3>7
    <2> HIDE DEF B
    <2>4. h \in [A -> B] /\ \A y \in A : h[y] = g[y]
      BY <2>1
    <2> HIDE DEF h
    <2>5. h \in Surjection(A, B)
      BY <2>2, <2>4 DEF Surjection
    <2>6. h \in Injection(A, B)
      BY <2>3, <2>4 DEF Injection, IsInjective
    <2>7. QED
      BY <2>5, <2>6 DEF Bijection
  <1> HIDE DEF h, B, M
  <1>7. Cardinality(B) = Cardinality(A)
    BY <1>1, <1>6, FS_Bijection DEF ExistsBijection
  <1>8. M \in Nat
    BY DEF Passes, Enumerates, M
  <1>9. i = j
    <2>1. Cardinality(inside) \in Nat
      BY DEF Passes, Enumerates
    <2>2. QED
      BY <1>1, <1>3, <1>4, <1>7, <1>8, <2>1
  <1>10. QED
    BY <1>3, <1>9 DEF x, M

\* A scan of s up to limit shows t, of at most n elements.
Shows(s, P, limit, t, n) ==
    /\ Final(While(SubSeq(s, 1, Min({limit, Len(s)})), P)) = SubSeq(t, 1, Min({limit, Len(t)}))
    /\ Len(t) \in Nat /\ Len(t) <= n

LEMMA ScanIs ==
    ASSUME NEW inside, NEW R, NEW s, NEW T, NEW Q, NEW t, NEW P, NEW g,
           Passes(s, R, inside, P, g, t, Q, T), NEW limit \in Nat
    PROVE  Shows(s, P, limit, t, Cardinality(inside))
  <1> DEFINE N == Cardinality(inside)
             M == Cardinality(T)
             c == SubSeq(s, 1, Min({limit, Len(s)}))
             u == While(c, P)
             v == SubSeq(t, 1, Min({limit, Len(t)}))
             L == IF limit <= M THEN limit ELSE M
             C == IF limit <= N THEN limit ELSE N
  <1>1. \A x \in inside : g[x] = x[Len(x)]
    BY DEF Passes
  <1>2. Passes(s, R, inside, P, g, t, Q, T)
    OBVIOUS
  <1>3. /\ N \in Nat /\ M \in Nat /\ s \in Seq(inside) /\ Len(s) = N /\ t \in Seq(T) /\ Len(t) = M
        /\ \A i \in 1 .. N : s[i] \in inside
        /\ \A i \in 1 .. M : t[i] \in T
        /\ \A i, j \in 1 .. M : t[i] = t[j] => i = j
        /\ \A x \in inside : \E i \in 1 .. N : s[i] = x
    BY <1>2, ElementOfSeq DEF Passes, Enumerates
  <1>4. \A i \in 1 .. N : IsPrefix(P, s[i]) => i \in 1 .. M /\ g[s[i]] = t[i]
    BY <1>2, PlacesPassed
  <1> HIDE DEF N, M
  <1>5. ASSUME NEW j \in 1 .. M PROVE j \in 1 .. N /\ IsPrefix(P, s[j])
    <2>1. PICK w \in inside : IsPrefix(P, w) /\ g[w] = t[j]
      BY <1>2, <1>3 DEF Passes
    <2>2. PICK i \in 1 .. N : s[i] = w
      BY <1>3
    <2>3. i \in 1 .. M /\ t[i] = t[j]
      BY <1>4, <2>1, <2>2
    <2>4. i = j
      BY <1>3, <2>3
    <2>5. QED
      BY <2>1, <2>2, <2>4
  <1>6. M <= N
    <2>1. M = 0 \/ M \in 1 .. M
      BY <1>3
    <2>2. QED
      BY <1>3, <1>5, <2>1
  <1>7. /\ c \in Seq(inside) /\ Len(c) = C
        /\ \A i \in 1 .. C : c[i] = s[i]
    <2> DEFINE Kept == /\ c \in Seq(inside) /\ Len(c) = IF limit <= Len(s) THEN limit ELSE Len(s)
                       /\ \A i \in 1 .. Len(c) : c[i] = s[i]
    <2>0. s \in Seq(inside) /\ limit \in Nat
      BY <1>3
    <2>1. Kept
      BY ONLY <2>0, LimitKeeps
    <2> HIDE DEF c
    <2>2. Len(c) = C
      BY <1>3, <2>1
    <2>3. QED
      BY <2>1, <2>2
  <1>8. /\ v \in Seq(T) /\ Len(v) = L
        /\ \A i \in 1 .. L : v[i] = t[i]
    <2> DEFINE Kept == /\ v \in Seq(T) /\ Len(v) = IF limit <= Len(t) THEN limit ELSE Len(t)
                       /\ \A i \in 1 .. Len(v) : v[i] = t[i]
    <2>0. t \in Seq(T) /\ limit \in Nat
      BY <1>3
    <2>1. Kept
      BY ONLY <2>0, LimitKeeps
    <2> HIDE DEF v
    <2>2. Len(v) = L
      BY <1>3, <2>1
    <2>3. QED
      BY <2>1, <2>2
  <1> HIDE DEF c, v
  <1>9. PICK m \in 0 .. C :
           /\ u \in Seq(inside) /\ Len(u) = m
           /\ \A i \in 1 .. m : u[i] = c[i] /\ IsPrefix(P, c[i])
           /\ m < C => ~IsPrefix(P, c[m + 1])
    <2>1. \E m \in 0 .. Len(c) :
             /\ u \in Seq(inside) /\ Len(u) = m
             /\ \A i \in 1 .. m : u[i] = c[i] /\ IsPrefix(P, c[i])
             /\ m < Len(c) => ~IsPrefix(P, c[m + 1])
      BY <1>7, WhileKeeps
    <2>2. Len(c) = C
      BY <1>7
    <2> HIDE DEF u, C
    <2>3. QED
      BY <2>1, <2>2
  <1>10. C \in Nat /\ L \in Nat /\ L <= C /\ C <= N /\ L <= M /\ L <= limit /\ C <= limit
         /\ (\A i \in Nat : i <= M /\ i <= limit => i <= L)
    BY <1>3, <1>6
  <1> HIDE DEF u, C, L
  <1>11. \A i \in 1 .. m : i \in 1 .. N /\ u[i] = s[i] /\ IsPrefix(P, s[i])
    <2>1. \A i \in 1 .. m : i \in 1 .. C /\ i \in 1 .. N
      BY <1>3, <1>9, <1>10
    <2>2. QED
      BY <1>7, <1>9, <2>1
  <1>12. m <= L
    <2>1. m = 0 \/ m \in 1 .. m
      BY <1>9, <1>10
    <2>2. m = 0 \/ m <= M
      BY <1>3, <1>4, <1>11, <2>1
    <2>3. QED
      BY <1>9, <1>10, <2>2
  <1>13. ~(m < L)
    <2>1. ASSUME m < L PROVE FALSE
      <3>1. m + 1 \in 1 .. C /\ m < C /\ m + 1 \in 1 .. M
        BY <1>3, <1>9, <1>10, <2>1
      <3>2. IsPrefix(P, s[m + 1]) /\ c[m + 1] = s[m + 1]
        BY <1>5, <1>7, <3>1
      <3>3. QED
        BY <1>9, <3>1, <3>2
    <2>2. QED
      BY <2>1
  <1>14. m = L
    BY <1>9, <1>10, <1>12, <1>13
  <1> DEFINE f == Final(u)
  <1>15. DOMAIN u = 1 .. L
    BY <1>9, <1>14, LenProperties
  <1>16. \A i \in 1 .. L : u[i][Len(u[i])] = t[i]
    BY <1>1, <1>3, <1>4, <1>11, <1>14
  <1>17. f = [i \in 1 .. L |-> t[i]]
    BY <1>15, <1>16 DEF Final
  <1>18. v = [i \in 1 .. L |-> t[i]]
    <2>1. DOMAIN v = 1 .. L /\ v = [i \in DOMAIN v |-> v[i]]
      BY <1>8, LenProperties
    <2>2. QED
      BY <1>8, <2>1
  <1>19. QED
    <2>1. Final(u) = v
      BY <1>17, <1>18
    <2>2. Final(While(SubSeq(s, 1, Min({limit, Len(s)})), P)) = SubSeq(t, 1, Min({limit, Len(t)}))
      BY <2>1 DEF u, c, v
    <2>3. Len(t) \in Nat /\ Len(t) <= Cardinality(inside)
      BY <1>3, <1>6 DEF N
    <2>4. QED
      BY <2>2, <2>3 DEF Shows

\* Lists of numbers up and down, of keys backwards, and of a sorted set.
Up(S) == {p \in S \X S : p[1] < p[2]}
Down(S) == {p \in S \X S : p[1] > p[2]}
BackOrder == {p \in Seq(Int) \X Seq(Int) : Less(p[2], p[1])}
RankOrder(z, T) == {p \in T \X T : z[p[1]] < z[p[2]] \/ (z[p[1]] = z[p[2]] /\ p[1] < p[2])}

\* They are what Sorted makes of them.
LEMMA SortedUp ==
    ASSUME NEW S, IsFiniteSet(S), S \subseteq Int
    PROVE  Enumerates(Sorted(S, <), Up(S), S)
  <1> DEFINE s == Sorted(S, <)
             Below(x) == {y \in S : y < x}
  <1>1. s = [i \in 1 .. Cardinality(S) |-> CHOOSE x \in S : Cardinality(Below(x)) = i - 1]
    BY DEF Sorted
  <1>2. StrictOrder(Up(S), S)
    BY DEF StrictOrder, Up
  <1>3. \A x \in S : Before(Up(S), S, x) = Below(x)
    BY DEF Before, Up
  <1> HIDE DEF s, Below
  <1>4. ASSUME NEW i \in 1 .. Cardinality(S)
        PROVE  s[i] \in S /\ Cardinality(Before(Up(S), S, s[i])) = i - 1
    <2>1. \E x \in S : Cardinality(Before(Up(S), S, x)) = i - 1
      BY <1>2, PlacesInOrder
    <2>2. \E x \in S : Cardinality(Below(x)) = i - 1
      BY <1>3, <2>1
    <2>3. s[i] = CHOOSE x \in S : Cardinality(Below(x)) = i - 1
      BY <1>1
    <2>4. s[i] \in S /\ Cardinality(Below(s[i])) = i - 1
      BY <2>2, <2>3
    <2>5. QED
      BY <1>3, <2>4
  <1>5. s = [i \in 1 .. Cardinality(S) |-> s[i]]
    <2> DEFINE e(i) == CHOOSE x \in S : Cardinality(Below(x)) = i - 1
    <2>1. s = [i \in 1 .. Cardinality(S) |-> e(i)]
      BY <1>1
    <2> HIDE DEF e
    <2>2. QED
      BY <2>1
  <1>6. QED
    BY <1>2, <1>4, <1>5, InPlace DEF s

LEMMA SortedDown ==
    ASSUME NEW S, IsFiniteSet(S), S \subseteq Int
    PROVE  Enumerates(Sorted(S, >), Down(S), S)
  <1> DEFINE s == Sorted(S, >)
             Below(x) == {y \in S : y > x}
  <1>1. s = [i \in 1 .. Cardinality(S) |-> CHOOSE x \in S : Cardinality(Below(x)) = i - 1]
    BY DEF Sorted
  <1>2. StrictOrder(Down(S), S)
    BY DEF StrictOrder, Down
  <1>3. \A x \in S : Before(Down(S), S, x) = Below(x)
    BY DEF Before, Down
  <1> HIDE DEF s, Below
  <1>4. ASSUME NEW i \in 1 .. Cardinality(S)
        PROVE  s[i] \in S /\ Cardinality(Before(Down(S), S, s[i])) = i - 1
    <2>1. \E x \in S : Cardinality(Before(Down(S), S, x)) = i - 1
      BY <1>2, PlacesInOrder
    <2>2. \E x \in S : Cardinality(Below(x)) = i - 1
      BY <1>3, <2>1
    <2>3. s[i] = CHOOSE x \in S : Cardinality(Below(x)) = i - 1
      BY <1>1
    <2>4. s[i] \in S /\ Cardinality(Below(s[i])) = i - 1
      BY <2>2, <2>3
    <2>5. QED
      BY <1>3, <2>4
  <1>5. s = [i \in 1 .. Cardinality(S) |-> s[i]]
    <2> DEFINE e(i) == CHOOSE x \in S : Cardinality(Below(x)) = i - 1
    <2>1. s = [i \in 1 .. Cardinality(S) |-> e(i)]
      BY <1>1
    <2> HIDE DEF e
    <2>2. QED
      BY <2>1
  <1>6. QED
    BY <1>2, <1>4, <1>5, InPlace DEF s

LEMMA SortedBack ==
    ASSUME NEW S, IsFiniteSet(S), S \subseteq Seq(Int)
    PROVE  Enumerates(Sorted(S, LAMBDA x, y : Less(y, x)), BackOrder, S)
  <1> DEFINE s == Sorted(S, LAMBDA x, y : Less(y, x))
             Below(x) == {y \in S : Less(x, y)}
  <1>1. s = [i \in 1 .. Cardinality(S) |-> CHOOSE x \in S : Cardinality(Below(x)) = i - 1]
    BY DEF Sorted
  <1>2. StrictOrder(BackOrder, S)
    <2>1. \A x \in S : ~Less(x, x)
      BY LessIrreflexive
    <2>2. \A x, y, z \in S : Less(x, y) /\ Less(y, z) => Less(x, z)
      BY LessTransitive
    <2>3. \A x, y \in S : x = y \/ Less(x, y) \/ Less(y, x)
      BY LessTotal
    <2>4. \A x, y \in S : <<x, y>> \in BackOrder <=> Less(y, x)
      BY DEF BackOrder
    <2>5. QED
      BY <2>1, <2>2, <2>3, <2>4 DEF StrictOrder
  <1>3. \A x \in S : Before(BackOrder, S, x) = Below(x)
    BY DEF Before, BackOrder
  <1> HIDE DEF s, Below
  <1>4. ASSUME NEW i \in 1 .. Cardinality(S)
        PROVE  s[i] \in S /\ Cardinality(Before(BackOrder, S, s[i])) = i - 1
    <2>1. \E x \in S : Cardinality(Before(BackOrder, S, x)) = i - 1
      BY <1>2, PlacesInOrder
    <2>2. \E x \in S : Cardinality(Below(x)) = i - 1
      BY <1>3, <2>1
    <2>3. s[i] = CHOOSE x \in S : Cardinality(Below(x)) = i - 1
      BY <1>1
    <2>4. s[i] \in S /\ Cardinality(Below(s[i])) = i - 1
      BY <2>2, <2>3
    <2>5. QED
      BY <1>3, <2>4
  <1>5. s = [i \in 1 .. Cardinality(S) |-> s[i]]
    <2> DEFINE e(i) == CHOOSE x \in S : Cardinality(Below(x)) = i - 1
    <2>1. s = [i \in 1 .. Cardinality(S) |-> e(i)]
      BY <1>1
    <2> HIDE DEF e
    <2>2. QED
      BY <2>1
  <1>6. QED
    BY <1>2, <1>4, <1>5, InPlace DEF s

LEMMA RankedIs ==
    ASSUME NEW z, NEW T, IsFiniteSet(T), T \subseteq Int, \A k \in T : z[k] \in Int
    PROVE  Enumerates(Ranked(z, T), RankOrder(z, T), T)
  <1> DEFINE s == Ranked(z, T)
             Below(x) == {y \in T : z[y] < z[x] \/ (z[y] = z[x] /\ y < x)}
  <1>1. s = [i \in 1 .. Cardinality(T) |-> CHOOSE x \in T : Cardinality(Below(x)) = i - 1]
    BY DEF Ranked, Sorted
  <1>2. StrictOrder(RankOrder(z, T), T)
    <2>1. \A x \in T : x \in Int /\ z[x] \in Int
      OBVIOUS
    <2>2. \A x, y \in T : <<x, y>> \in RankOrder(z, T) <=> z[x] < z[y] \/ (z[x] = z[y] /\ x < y)
      BY DEF RankOrder
    <2>3. QED
      BY <2>1, <2>2 DEF StrictOrder
  <1>3. \A x \in T : Before(RankOrder(z, T), T, x) = Below(x)
    BY DEF Before, RankOrder
  <1> HIDE DEF s, Below
  <1>4. ASSUME NEW i \in 1 .. Cardinality(T)
        PROVE  s[i] \in T /\ Cardinality(Before(RankOrder(z, T), T, s[i])) = i - 1
    <2>1. \E x \in T : Cardinality(Before(RankOrder(z, T), T, x)) = i - 1
      BY <1>2, PlacesInOrder
    <2>2. \E x \in T : Cardinality(Below(x)) = i - 1
      BY <1>3, <2>1
    <2>3. s[i] = CHOOSE x \in T : Cardinality(Below(x)) = i - 1
      BY <1>1
    <2>4. s[i] \in T /\ Cardinality(Below(s[i])) = i - 1
      BY <2>2, <2>3
    <2>5. QED
      BY <1>3, <2>4
  <1>5. s = [i \in 1 .. Cardinality(T) |-> s[i]]
    <2> DEFINE e(i) == CHOOSE x \in T : Cardinality(Below(x)) = i - 1
    <2>1. s = [i \in 1 .. Cardinality(T) |-> e(i)]
      BY <1>1
    <2> HIDE DEF e
    <2>2. QED
      BY <2>1
  <1>6. QED
    BY <1>2, <1>4, <1>5, InPlace DEF s

\* Every key is a tuple of numbers.
Stored == IsFiniteSet(DOMAIN db) /\ DOMAIN db \subseteq Seq(Int)

LEMMA StoredKeys ==
    ASSUME WellFormed(db), LogRight, LegalDb(db)
    PROVE  Stored
  <1>1. ASSUME NEW x \in DOMAIN db, x[1] = SYNCLOG PROVE x \in Seq(Int)
    <2>1. PICK q \in Numbers(db) : x = SeqKey(q)
      BY <1>1, RecordKeys
    <2>2. q \in Int
      BY <2>1 DEF LogRight
    <2>3. QED
      BY <2>1, <2>2 DEF SeqKey, SYNCLOG
  <1>2. QED
    BY <1>1, StoreKeysNumbers DEF Stored, LegalDb

\* A scan up to limit returns t, which is no longer than the store.
Returns(s, limit, t) ==
    /\ s = SubSeq(t, 1, Min({limit, Len(t)}))
    /\ Len(t) \in Nat /\ Len(t) <= Cardinality(DOMAIN db)

\* A scan lists T in its order where the keys of T are those with the prefix P
\* between its bounds.
Onward(P, B, E, T, Q, t, key) ==
    /\ P \in Seq(Int) /\ B \in Seq(Int) /\ E \in Seq(Int) /\ Starts(P, B) /\ Enumerates(t, Q, T)
    /\ \A k \in T : /\ key[k] \in DOMAIN db /\ Starts(P, key[k]) /\ key[k][Len(key[k])] = k
                   /\ Less(B, key[k]) /\ (E = <<>> \/ ~Less(E, key[k]))
    /\ \A x \in DOMAIN db : Starts(P, x) /\ Less(B, x) /\ (E = <<>> \/ ~Less(E, x))
                             => \E k \in T : x = key[k]
    /\ \A j, k \in T : <<j, k>> \in Q <=> Less(key[j], key[k])

LEMMA ForwardScan ==
    ASSUME Stored, NEW P, NEW B, NEW E, NEW T, NEW Q, NEW t, NEW key,
           Onward(P, B, E, T, Q, t, key), NEW limit \in Nat
    PROVE  Returns(Final(While(Iterated(B, E, limit), P)), limit, t)
  <1>0. /\ P \in Seq(Int) /\ B \in Seq(Int) /\ E \in Seq(Int) /\ Starts(P, B) /\ Enumerates(t, Q, T)
        /\ \A k \in T : /\ key[k] \in DOMAIN db /\ Starts(P, key[k]) /\ key[k][Len(key[k])] = k
                       /\ Less(B, key[k]) /\ (E = <<>> \/ ~Less(E, key[k]))
        /\ \A x \in DOMAIN db : Starts(P, x) /\ Less(B, x) /\ (E = <<>> \/ ~Less(E, x))
                                 => \E k \in T : x = key[k]
        /\ \A j, k \in T : <<j, k>> \in Q <=> Less(key[j], key[k])
    BY DEF Onward
  <1> DEFINE inside == {x \in DOMAIN db : Less(B, x) /\ (E = <<>> \/ ~Less(E, x))}
             s == Sorted(inside, Less)
             g == [x \in inside |-> x[Len(x)]]
  <1>1. IsFiniteSet(inside) /\ inside \subseteq Seq(Int)
        /\ Cardinality(inside) <= Cardinality(DOMAIN db)
    <2>1. inside \subseteq DOMAIN db
      OBVIOUS
    <2> HIDE DEF inside
    <2>2. QED
      BY <2>1, FS_Subset DEF Stored
  <1>2. Iterated(B, E, limit) = SubSeq(s, 1, Min({limit, Len(s)}))
    BY DEF Iterated
  <1>3. Enumerates(s, KeyOrder, inside)
    <2> HIDE DEF inside
    <2>1. QED
      BY <1>1, SortedKeys
  <1> HIDE DEF s
  <1>4. \A x, y \in inside : <<x, y>> \in KeyOrder <=> Less(x, y)
    BY <1>1 DEF KeyOrder
  <1>5. \A x \in inside : IsPrefix(P, x) <=> Starts(P, x)
    BY <1>0, <1>1, PrefixStarts
  <1>6. \A x \in inside : Starts(P, x) => \E k \in T : x = key[k]
    BY <1>0
  <1>7. \A k \in T : key[k] \in inside /\ Starts(P, key[k]) /\ g[key[k]] = k
    BY <1>0
  <1>8. ASSUME NEW x \in inside, NEW w \in inside, Starts(P, w), Less(x, w)
        PROVE  Starts(P, x)
    <2>1. Less(B, x)
      OBVIOUS
    <2> HIDE DEF inside
    <2>2. QED
      BY <1>0, <1>1, <1>8, <2>1, StartsBetween
  <1> HIDE DEF inside, g
  <1>9. Passes(s, KeyOrder, inside, P, g, t, Q, T)
    <2>1. \A x, w \in inside : IsPrefix(P, w) /\ <<x, w>> \in KeyOrder => IsPrefix(P, x)
      BY <1>4, <1>5, <1>8
    <2>2. \A x \in inside : IsPrefix(P, x) => g[x] \in T
      BY <1>5, <1>6, <1>7
    <2>3. \A k \in T : \E x \in inside : IsPrefix(P, x) /\ g[x] = k
      BY <1>5, <1>7
    <2>4. ASSUME NEW x \in inside, NEW y \in inside, IsPrefix(P, x), IsPrefix(P, y)
          PROVE  <<x, y>> \in KeyOrder <=> <<g[x], g[y]>> \in Q
      <3>1. PICK j \in T : x = key[j]
        BY <1>5, <1>6, <2>4
      <3>2. PICK k \in T : y = key[k]
        BY <1>5, <1>6, <2>4
      <3>3. g[x] = j /\ g[y] = k
        BY <1>7, <3>1, <3>2
      <3>4. <<j, k>> \in Q <=> Less(key[j], key[k])
        BY <1>0
      <3>5. QED
        BY <1>4, <3>1, <3>2, <3>3, <3>4
    <2>5. \A x \in inside : g[x] = x[Len(x)]
      BY DEF g
    <2>6. QED
      BY <1>0, <1>3, <2>1, <2>2, <2>3, <2>4, <2>5 DEF Passes
  <1>10. Shows(s, P, limit, t, Cardinality(inside))
    <2>1. limit \in Nat
      OBVIOUS
    <2>2. QED
      BY ONLY <1>9, <2>1, ScanIs
  <1>11. Cardinality(inside) \in Nat /\ Cardinality(DOMAIN db) \in Nat
    BY <1>1, FS_CardinalityType DEF Stored
  <1>12. Len(t) <= Cardinality(DOMAIN db)
    BY ONLY <1>1, <1>10, <1>11 DEF Shows
  <1>13. QED
    BY ONLY <1>2, <1>10, <1>12 DEF Shows, Returns

Backward(P, B, E, T, Q, t, key) ==
    /\ P \in Seq(Int) /\ B \in Seq(Int) /\ E \in Seq(Int) /\ Starts(P, B) /\ Enumerates(t, Q, T)
    /\ \A k \in T : /\ key[k] \in DOMAIN db /\ Starts(P, key[k]) /\ key[k][Len(key[k])] = k
                   /\ Less(key[k], B) /\ (E = <<>> \/ ~Less(key[k], E))
    /\ \A x \in DOMAIN db : Starts(P, x) /\ Less(x, B) /\ (E = <<>> \/ ~Less(x, E))
                             => \E k \in T : x = key[k]
    /\ \A j, k \in T : <<j, k>> \in Q <=> Less(key[k], key[j])

LEMMA BackwardScan ==
    ASSUME Stored, NEW P, NEW B, NEW E, NEW T, NEW Q, NEW t, NEW key,
           Backward(P, B, E, T, Q, t, key), NEW limit \in Nat
    PROVE  Returns(Final(While(RevIterated(B, E, limit), P)), limit, t)
  <1>0. /\ P \in Seq(Int) /\ B \in Seq(Int) /\ E \in Seq(Int) /\ Starts(P, B) /\ Enumerates(t, Q, T)
        /\ \A k \in T : /\ key[k] \in DOMAIN db /\ Starts(P, key[k]) /\ key[k][Len(key[k])] = k
                       /\ Less(key[k], B) /\ (E = <<>> \/ ~Less(key[k], E))
        /\ \A x \in DOMAIN db : Starts(P, x) /\ Less(x, B) /\ (E = <<>> \/ ~Less(x, E))
                                 => \E k \in T : x = key[k]
        /\ \A j, k \in T : <<j, k>> \in Q <=> Less(key[k], key[j])
    BY DEF Backward
  <1> DEFINE inside == {x \in DOMAIN db : Less(x, B) /\ (E = <<>> \/ ~Less(x, E))}
             s == Sorted(inside, LAMBDA x, y : Less(y, x))
             g == [x \in inside |-> x[Len(x)]]
  <1>1. IsFiniteSet(inside) /\ inside \subseteq Seq(Int)
        /\ Cardinality(inside) <= Cardinality(DOMAIN db)
    <2>1. inside \subseteq DOMAIN db
      OBVIOUS
    <2> HIDE DEF inside
    <2>2. QED
      BY <2>1, FS_Subset DEF Stored
  <1>2. RevIterated(B, E, limit) = SubSeq(s, 1, Min({limit, Len(s)}))
    BY DEF RevIterated
  <1>3. Enumerates(s, BackOrder, inside)
    <2> HIDE DEF inside
    <2>1. QED
      BY <1>1, SortedBack
  <1> HIDE DEF s
  <1>4. \A x, y \in inside : <<x, y>> \in BackOrder <=> Less(y, x)
    BY <1>1 DEF BackOrder
  <1>5. \A x \in inside : IsPrefix(P, x) <=> Starts(P, x)
    BY <1>0, <1>1, PrefixStarts
  <1>6. \A x \in inside : Starts(P, x) => \E k \in T : x = key[k]
    BY <1>0
  <1>7. \A k \in T : key[k] \in inside /\ Starts(P, key[k]) /\ g[key[k]] = k
    BY <1>0
  <1>8. ASSUME NEW x \in inside, NEW w \in inside, Starts(P, w), Less(w, x)
        PROVE  Starts(P, x)
    <2>1. Less(x, B)
      OBVIOUS
    <2> HIDE DEF inside
    <2>2. QED
      BY <1>0, <1>1, <1>8, <2>1, StartsBetween
  <1> HIDE DEF inside, g
  <1>9. Passes(s, BackOrder, inside, P, g, t, Q, T)
    <2>1. \A x, w \in inside : IsPrefix(P, w) /\ <<x, w>> \in BackOrder => IsPrefix(P, x)
      BY <1>4, <1>5, <1>8
    <2>2. \A x \in inside : IsPrefix(P, x) => g[x] \in T
      BY <1>5, <1>6, <1>7
    <2>3. \A k \in T : \E x \in inside : IsPrefix(P, x) /\ g[x] = k
      BY <1>5, <1>7
    <2>4. ASSUME NEW x \in inside, NEW y \in inside, IsPrefix(P, x), IsPrefix(P, y)
          PROVE  <<x, y>> \in BackOrder <=> <<g[x], g[y]>> \in Q
      <3>1. PICK j \in T : x = key[j]
        BY <1>5, <1>6, <2>4
      <3>2. PICK k \in T : y = key[k]
        BY <1>5, <1>6, <2>4
      <3>3. g[x] = j /\ g[y] = k
        BY <1>7, <3>1, <3>2
      <3>4. <<j, k>> \in Q <=> Less(key[k], key[j])
        BY <1>0
      <3>5. QED
        BY <1>4, <3>1, <3>2, <3>3, <3>4
    <2>5. \A x \in inside : g[x] = x[Len(x)]
      BY DEF g
    <2>6. QED
      BY <1>0, <1>3, <2>1, <2>2, <2>3, <2>4, <2>5 DEF Passes
  <1>10. Shows(s, P, limit, t, Cardinality(inside))
    <2>1. limit \in Nat
      OBVIOUS
    <2>2. QED
      BY ONLY <1>9, <2>1, ScanIs
  <1>11. Cardinality(inside) \in Nat /\ Cardinality(DOMAIN db) \in Nat
    BY <1>1, FS_CardinalityType DEF Stored
  <1>12. Len(t) <= Cardinality(DOMAIN db)
    BY ONLY <1>1, <1>10, <1>11 DEF Shows
  <1>13. QED
    BY ONLY <1>2, <1>10, <1>12 DEF Shows, Returns

\* How keys with one prefix compare.
LEMMA LessAppend ==
    ASSUME NEW P \in Seq(Int), NEW a \in Int, NEW b \in Int
    PROVE  /\ Append(P, a) \in Seq(Int) /\ Append(P, a) # <<>>
           /\ Starts(P, P) /\ Starts(P, Append(P, a)) /\ Append(P, a)[Len(Append(P, a))] = a
           /\ Less(P, Append(P, a)) /\ ~Less(Append(P, a), P)
           /\ Less(Append(P, a), Append(P, b)) <=> a < b
           /\ Append(P, a) = Append(P, b) <=> a = b
  <1> DEFINE x == Append(P, a)  y == Append(P, b)  n == Len(P)
  <1>1. /\ n \in Nat /\ \A i \in 1 .. n : P[i] \in Int
        /\ x \in Seq(Int) /\ x # <<>> /\ Len(x) = n + 1 /\ x[n + 1] = a /\ \A i \in 1 .. n : x[i] = P[i]
        /\ y \in Seq(Int) /\ Len(y) = n + 1 /\ y[n + 1] = b /\ \A i \in 1 .. n : y[i] = P[i]
    BY LenProperties, ElementOfSeq, AppendProperties
  <1>2. Starts(P, P) /\ Starts(P, x) /\ x[Len(x)] = a
    BY <1>1 DEF Starts
  <1> HIDE DEF x, y
  <1>3. Less(P, x)
    <2>1. /\ n + 1 \in 1 .. Len(x) /\ n + 1 = Len(P) + 1
          /\ \A j \in 1 .. (n + 1) - 1 : j <= Len(P) /\ P[j] = x[j]
      BY <1>1
    <2> HIDE DEF n
    <2>2. QED
      BY <2>1 DEF Less
  <1>4. ~Less(x, P)
    <2>1. ASSUME NEW i \in 1 .. n, i = n + 1 + 1 \/ (i <= n + 1 /\ x[i] < P[i]) PROVE FALSE
      BY <1>1, <2>1
    <2>2. QED
      BY <1>1, <2>1 DEF Less
  <1>5. Less(x, y) <=> a < b
    <2>1. ASSUME a < b PROVE Less(x, y)
      <3>1. /\ n + 1 \in 1 .. Len(y) /\ n + 1 <= Len(x) /\ x[n + 1] < y[n + 1]
            /\ \A j \in 1 .. (n + 1) - 1 : j <= Len(x) /\ x[j] = y[j]
        BY <1>1, <2>1
      <3> HIDE DEF n
      <3>2. QED
        BY <3>1 DEF Less
    <2>2. ASSUME Less(x, y) PROVE a < b
      <3>1. PICK i \in 1 .. n + 1 : i = n + 1 + 1 \/ (i <= n + 1 /\ x[i] < y[i])
        BY <1>1, <2>2 DEF Less
      <3>2. x[i] < y[i] /\ (i = n + 1 \/ i \in 1 .. n)
        BY <1>1, <3>1
      <3>3. i = n + 1
        <4>1. ASSUME i \in 1 .. n PROVE FALSE
          BY <1>1, <3>2, <4>1
        <4>2. QED
          BY <3>2, <4>1
      <3>4. QED
        BY <1>1, <3>2, <3>3
    <2>3. QED
      BY <2>1, <2>2
  <1>6. x = y <=> a = b
    BY <1>1 DEF x, y
  <1>7. QED
    BY <1>1, <1>2, <1>3, <1>4, <1>5, <1>6 DEF x, y

\* The keys with the prefix P are those of S.
Grouped(P, S) ==
    /\ P \in Seq(Int) /\ S \subseteq 1 .. Top - 1
    /\ \A k \in S : Append(P, k) \in DOMAIN db
    /\ \A x \in DOMAIN db : Starts(P, x) => \E k \in S : x = Append(P, k)

LEMMA NamesFinite ==
    ASSUME NEW S, S \subseteq 1 .. Top - 1
    PROVE  IsFiniteSet(S) /\ S \subseteq Int
  <1>1. Top - 1 \in Int
    BY DEF Top
  <1>2. IsFiniteSet(1 .. Top - 1)
    BY <1>1, FS_Interval
  <1>3. S \subseteq Int
    BY <1>1
  <1>4. IsFiniteSet(S)
    BY <1>2, FS_Subset
  <1>5. QED
    BY <1>3, <1>4

\* A scan of them returns what lies between its bounds.
LEMMA GroupForward ==
    ASSUME Stored, NEW P, NEW S, Grouped(P, S), NEW limit \in Nat,
           NEW start \in Int, NEW end \in Int
    PROVE  Final(While(Iterated(Bound(P, start), EndBound(P, end), limit), P))
             = Between(S, start, end, limit)
  <1> DEFINE T == {k \in S : k > start /\ (end = Empty \/ k <= end)}
             key == [k \in T |-> Append(P, k)]
             B == Bound(P, start)
             E == EndBound(P, end)
             t == Sorted(T, <)
  <1>1. P \in Seq(Int) /\ \A k \in S : k \in Int /\ 0 < k /\ k < Top
    BY DEF Grouped, Top
  <1>2. IsFiniteSet(T) /\ T \subseteq Int
    <2>1. T \subseteq 1 .. Top - 1
      BY DEF Grouped
    <2> HIDE DEF T
    <2>2. QED
      BY <2>1, NamesFinite
  <1>3. Enumerates(t, Up(T), T)
    <2> HIDE DEF T
    <2>1. QED
      BY <1>2, SortedUp
  <1>4. B \in Seq(Int) /\ Starts(P, B) /\ E \in Seq(Int)
    <2>1. /\ Append(P, start) \in Seq(Int) /\ Starts(P, P) /\ Starts(P, Append(P, start))
          /\ Append(P, end) \in Seq(Int)
      BY <1>1, LessAppend
    <2>2. QED
      BY <1>1, <2>1 DEF Bound, EndBound
  <1>5. ASSUME NEW k \in S
        PROVE  /\ Append(P, k) \in DOMAIN db /\ Starts(P, Append(P, k))
               /\ Append(P, k)[Len(Append(P, k))] = k
               /\ Less(B, Append(P, k)) <=> k > start
               /\ (E = <<>> \/ ~Less(E, Append(P, k))) <=> (end = Empty \/ k <= end)
    <2>1. /\ Append(P, k) \in DOMAIN db /\ k \in Int /\ 0 < k
      BY <1>1 DEF Grouped
    <2>2. Starts(P, Append(P, k)) /\ Append(P, k)[Len(Append(P, k))] = k /\ Less(P, Append(P, k))
      BY <1>1, <2>1, LessAppend
    <2>3. /\ Less(Append(P, start), Append(P, k)) <=> start < k
          /\ Less(Append(P, end), Append(P, k)) <=> end < k
          /\ Append(P, end) # <<>>
      BY <1>1, <2>1, LessAppend
    <2>4. Less(B, Append(P, k)) <=> k > start
      BY <2>1, <2>2, <2>3 DEF Bound, Empty
    <2>5. (E = <<>> \/ ~Less(E, Append(P, k))) <=> (end = Empty \/ k <= end)
      BY <2>1, <2>3 DEF EndBound, Empty
    <2>6. QED
      BY <2>1, <2>2, <2>4, <2>5
  <1> HIDE DEF B, E, t
  <1>6. \A k \in T : /\ key[k] \in DOMAIN db /\ Starts(P, key[k]) /\ key[k][Len(key[k])] = k
                     /\ Less(B, key[k]) /\ (E = <<>> \/ ~Less(E, key[k]))
    BY <1>5
  <1>7. ASSUME NEW x \in DOMAIN db, Starts(P, x), Less(B, x), E = <<>> \/ ~Less(E, x)
        PROVE  \E k \in T : x = key[k]
    <2>1. PICK k \in S : x = Append(P, k)
      BY <1>7 DEF Grouped
    <2>2. k \in T
      BY <1>5, <1>7, <2>1
    <2>3. QED
      BY <2>1, <2>2
  <1>8. \A j, k \in T : <<j, k>> \in Up(T) <=> Less(key[j], key[k])
    <2>1. SUFFICES ASSUME NEW j \in T, NEW k \in T
                   PROVE  <<j, k>> \in Up(T) <=> Less(key[j], key[k])
      OBVIOUS
    <2>2. key[j] = Append(P, j) /\ key[k] = Append(P, k) /\ j \in Int /\ k \in Int
      BY <1>2
    <2>3. Less(Append(P, j), Append(P, k)) <=> j < k
      BY <1>1, <2>2, LessAppend
    <2> HIDE DEF T, key
    <2>4. QED
      BY <2>2, <2>3 DEF Up
  <1> HIDE DEF T, key
  <1>9. Onward(P, B, E, T, Up(T), t, key)
    BY <1>1, <1>3, <1>4, <1>6, <1>7, <1>8 DEF Onward
  <1>10. Final(While(Iterated(B, E, limit), P)) = SubSeq(t, 1, Min({limit, Len(t)}))
    BY <1>9, ForwardScan DEF Returns
  <1>11. QED
    BY <1>10 DEF B, E, t, T, Between

LEMMA GroupBackward ==
    ASSUME Stored, NEW P, NEW S, Grouped(P, S), NEW limit \in Nat,
           NEW start \in Int, NEW end \in Nat
    PROVE  Final(While(RevIterated(RevBound(P, start), EndBound(P, end), limit), P))
             = DownBetween(S, start, end, limit)
  <1> DEFINE T == {k \in S : (start = Empty \/ k < start) /\ k >= end}
             key == [k \in T |-> Append(P, k)]
             B == RevBound(P, start)
             E == EndBound(P, end)
             t == Sorted(T, >)
  <1>1. P \in Seq(Int) /\ \A k \in S : k \in Int /\ 0 < k /\ k < Top
    BY DEF Grouped, Top
  <1>2. IsFiniteSet(T) /\ T \subseteq Int
    <2>1. T \subseteq 1 .. Top - 1
      BY DEF Grouped
    <2> HIDE DEF T
    <2>2. QED
      BY <2>1, NamesFinite
  <1>3. Enumerates(t, Down(T), T)
    <2> HIDE DEF T
    <2>1. QED
      BY <1>2, SortedDown
  <1>4. B \in Seq(Int) /\ Starts(P, B) /\ E \in Seq(Int)
    <2>1. /\ Append(P, start) \in Seq(Int) /\ Starts(P, Append(P, start))
          /\ Append(P, end) \in Seq(Int)
      BY <1>1, LessAppend
    <2>2. Append(P, Top) \in Seq(Int) /\ Starts(P, Append(P, Top))
      BY <1>1, LessAppend DEF Top
    <2>3. QED
      BY <1>1, <2>1, <2>2 DEF RevBound, EndBound
  <1>5. ASSUME NEW k \in S
        PROVE  /\ Append(P, k) \in DOMAIN db /\ Starts(P, Append(P, k))
               /\ Append(P, k)[Len(Append(P, k))] = k
               /\ Less(Append(P, k), B) <=> start = Empty \/ k < start
               /\ (E = <<>> \/ ~Less(Append(P, k), E)) <=> k >= end
    <2>1. Append(P, k) \in DOMAIN db /\ k \in Int /\ 0 < k /\ k < Top /\ Top \in Int
      BY <1>1 DEF Grouped, Top
    <2>2. Starts(P, Append(P, k)) /\ Append(P, k)[Len(Append(P, k))] = k
      BY <1>1, <2>1, LessAppend
    <2>3. /\ Less(Append(P, k), Append(P, start)) <=> k < start
          /\ Less(Append(P, k), Append(P, end)) <=> k < end
          /\ Append(P, end) # <<>>
      BY <1>1, <2>1, LessAppend
    <2>4. Less(Append(P, k), Append(P, Top))
      BY <1>1, <2>1, LessAppend
    <2>5. Less(Append(P, k), B) <=> start = Empty \/ k < start
      BY <2>3, <2>4 DEF RevBound
    <2>6. (E = <<>> \/ ~Less(Append(P, k), E)) <=> k >= end
      BY <2>1, <2>3 DEF EndBound, Empty
    <2>7. QED
      BY <2>1, <2>2, <2>5, <2>6
  <1> HIDE DEF B, E, t
  <1>6. \A k \in T : /\ key[k] \in DOMAIN db /\ Starts(P, key[k]) /\ key[k][Len(key[k])] = k
                     /\ Less(key[k], B) /\ (E = <<>> \/ ~Less(key[k], E))
    BY <1>5
  <1>7. ASSUME NEW x \in DOMAIN db, Starts(P, x), Less(x, B), E = <<>> \/ ~Less(x, E)
        PROVE  \E k \in T : x = key[k]
    <2>1. PICK k \in S : x = Append(P, k)
      BY <1>7 DEF Grouped
    <2>2. k \in T
      BY <1>5, <1>7, <2>1
    <2>3. QED
      BY <2>1, <2>2
  <1>8. \A j, k \in T : <<j, k>> \in Down(T) <=> Less(key[k], key[j])
    <2>1. SUFFICES ASSUME NEW j \in T, NEW k \in T
                   PROVE  <<j, k>> \in Down(T) <=> Less(key[k], key[j])
      OBVIOUS
    <2>2. key[j] = Append(P, j) /\ key[k] = Append(P, k) /\ j \in Int /\ k \in Int
      BY <1>2
    <2>3. Less(Append(P, k), Append(P, j)) <=> k < j
      BY <1>1, <2>2, LessAppend
    <2> HIDE DEF T, key
    <2>4. QED
      BY <2>2, <2>3 DEF Down
  <1> HIDE DEF T, key
  <1>9. Backward(P, B, E, T, Down(T), t, key)
    BY <1>1, <1>3, <1>4, <1>6, <1>7, <1>8 DEF Backward
  <1>10. Final(While(RevIterated(B, E, limit), P)) = SubSeq(t, 1, Min({limit, Len(t)}))
    BY <1>9, BackwardScan DEF Returns
  <1>11. QED
    BY <1>10 DEF B, E, t, T, DownBetween

\* The first of a list of one is the least, backwards the greatest.
LEMMA OneOf ==
    ASSUME NEW S, S \subseteq 1 .. Top - 1
    PROVE  /\ Between(S, Empty, Empty, 1) = IF S = {} THEN <<>> ELSE <<Min(S)>>
           /\ DownBetween(S, Top, Empty, 1) = IF S = {} THEN <<>> ELSE <<Max(S)>>
  <1>1. \A k \in S : k \in Int /\ k > Empty /\ k < Top /\ k >= Empty
    BY DEF Top, Empty
  <1>2. /\ {k \in S : k > Empty /\ (Empty = Empty \/ k <= Empty)} = S
        /\ {k \in S : (Top = Empty \/ k < Top) /\ k >= Empty} = S
    BY <1>1
  <1>3. IsFiniteSet(S) /\ S \subseteq Int
    BY NamesFinite
  <1> DEFINE u == Sorted(S, <)  d == Sorted(S, >)
             v == SubSeq(u, 1, Min({1, Len(u)}))
             w == SubSeq(d, 1, Min({1, Len(d)}))
  <1>4. Enumerates(u, Up(S), S) /\ Enumerates(d, Down(S), S)
    BY <1>3, SortedUp, SortedDown
  <1>5. Between(S, Empty, Empty, 1) = v /\ DownBetween(S, Top, Empty, 1) = w
    BY <1>2 DEF Between, DownBetween
  <1> HIDE DEF u, d
  <1>6. /\ Cardinality(S) \in Nat /\ u \in Seq(S) /\ Len(u) = Cardinality(S)
        /\ d \in Seq(S) /\ Len(d) = Cardinality(S)
    BY <1>4 DEF Enumerates
  <1>7. v \in Seq(S) /\ Len(v) = (IF 1 <= Len(u) THEN 1 ELSE Len(u)) /\ \A i \in 1 .. Len(v) : v[i] = u[i]
    BY <1>6, LimitKeeps
  <1>8. w \in Seq(S) /\ Len(w) = (IF 1 <= Len(d) THEN 1 ELSE Len(d)) /\ \A i \in 1 .. Len(w) : w[i] = d[i]
    BY <1>6, LimitKeeps
  <1> HIDE DEF v, w
  <1>9. CASE S = {}
    <2>1. Cardinality(S) = 0
      BY <1>9, FS_EmptySet
    <2>2. v = <<>> /\ w = <<>>
      BY <1>6, <1>7, <1>8, <2>1
    <2>3. QED
      BY <1>5, <1>9, <2>2
  <1>10. CASE S # {}
    <2>1. 1 \in 1 .. Cardinality(S)
      <3>1. PICK k \in S : TRUE
        BY <1>10
      <3>2. PICK i \in 1 .. Cardinality(S) : u[i] = k
        BY <1>4 DEF Enumerates
      <3>3. QED
        BY <1>6
    <2>2. Len(v) = 1 /\ v[1] = u[1] /\ Len(w) = 1 /\ w[1] = d[1]
      BY <1>6, <1>7, <1>8, <2>1
    <2>3. v = <<u[1]>> /\ w = <<d[1]>>
      BY <1>7, <1>8, <2>2
    <2>4. u[1] \in S /\ d[1] \in S
      BY <1>6, <2>1, ElementOfSeq
    <2>5. ASSUME NEW k \in S PROVE u[1] <= k /\ d[1] >= k
      <3>1. PICK i \in 1 .. Cardinality(S) : u[i] = k
        BY <1>4 DEF Enumerates
      <3>2. PICK j \in 1 .. Cardinality(S) : d[j] = k
        BY <1>4 DEF Enumerates
      <3>3. (i = 1 \/ 1 < i) /\ (j = 1 \/ 1 < j)
        BY <1>6
      <3>4. 1 < i => <<u[1], u[i]>> \in Up(S)
        BY <1>4, <2>1 DEF Enumerates
      <3>5. 1 < j => <<d[1], d[j]>> \in Down(S)
        BY <1>4, <2>1 DEF Enumerates
      <3>6. 1 < i => u[1] < k
        BY <3>1, <3>4 DEF Up
      <3>7. 1 < j => d[1] > k
        BY <3>2, <3>5 DEF Down
      <3>8. u[1] \in Int /\ d[1] \in Int /\ k \in Int
        BY <1>1, <2>4
      <3>9. u[1] <= k
        BY <3>1, <3>3, <3>6, <3>8
      <3>10. d[1] >= k
        BY <3>2, <3>3, <3>7, <3>8
      <3>11. QED
        BY <3>9, <3>10
    <2>6. Min(S) = u[1]
      <3>1. ASSUME NEW m \in S PROVE (\A k \in S : m =< k) <=> m = u[1]
        <4>1. m \in Int /\ u[1] \in Int /\ u[1] =< m
          BY <1>1, <2>4, <2>5
        <4>2. (\A k \in S : m =< k) => m =< u[1]
          BY <2>4
        <4>3. (\A k \in S : u[1] =< k)
          BY <2>5
        <4>4. QED
          BY <4>1, <4>2, <4>3
      <3>2. QED
        BY <2>4, <3>1 DEF Min
    <2>7. Max(S) = d[1]
      <3>1. ASSUME NEW m \in S PROVE (\A k \in S : m >= k) <=> m = d[1]
        <4>1. m \in Int /\ d[1] \in Int /\ d[1] >= m
          BY <1>1, <2>4, <2>5
        <4>2. (\A k \in S : m >= k) => m >= d[1]
          BY <2>4
        <4>3. (\A k \in S : d[1] >= k)
          BY <2>5
        <4>4. QED
          BY <4>1, <4>2, <4>3
      <3>2. QED
        BY <2>4, <3>1 DEF Max
    <2>8. QED
      BY <1>5, <1>10, <2>3, <2>6, <2>7
  <1>11. QED
    BY <1>9, <1>10

-----------------------------------------------------------------------------
(* The runs of keys there are: plain values, the entries of a hash, and    *)
(* the counters of hashes, sorted sets and queues.                         *)

LEMMA NamesBelow ==
    /\ Keys \subseteq 1 .. Top - 1 /\ HNames \subseteq 1 .. Top - 1
    /\ ZNames \subseteq 1 .. Top - 1 /\ QNames \subseteq 1 .. Top - 1
  <1>1. ASSUME NEW k \in HNames \cup ZNames \cup QNames \cup Keys PROVE k \in 1 .. Top - 1
    <2>1. k \in Nat /\ k # 0 /\ k < Top
      BY SsdbAssumption, TextAssumption
    <2>2. QED
      BY <2>1 DEF Top
  <1>2. QED
    BY <1>1

\* The keys of a type.
LEMMA KeysOfType ==
    ASSUME LegalDb(db), NEW x \in DOMAIN db
    PROVE  /\ x[1] = KV => \E k \in Keys : x = KvKey(k)
           /\ x[1] = HASH => \E n \in HNames, k \in Keys : x = HashKey(n, k)
           /\ x[1] = HSIZE => \E n \in HNames : x = HSizeKey(n)
           /\ x[1] = ZSIZE => \E n \in ZNames : x = ZSizeKey(n)
           /\ x[1] = QSIZE => \E n \in QNames : x = QSizeKey(n)
           /\ x[1] = ZSET => \E n \in ZNames, k \in Keys : x = ZsetKey(n, k)
           /\ x[1] = ZSCORE => \E n \in ZNames, k \in Keys, score \in Scores : x = ZscoreKey(n, k, score)
  <1>1. x[1] = SYNCLOG \/ x \in StoreKeys
    BY DEF LegalDb
  <1>2. CASE x[1] = SYNCLOG
    BY <1>2 DEF SYNCLOG, KV, HASH, HSIZE, ZSIZE, QSIZE, ZSET, ZSCORE
  <1>3. CASE x \in StoreKeys
    <2>1. \/ \E k \in Keys : x = KvKey(k)
          \/ \E n \in HNames, k \in Keys : x = HashKey(n, k)
          \/ \E n \in HNames : x = HSizeKey(n)
          \/ \E n \in ZNames, k \in Keys : x = ZsetKey(n, k)
          \/ \E n \in ZNames : x = ZSizeKey(n)
          \/ \E n \in ZNames, k \in Keys, score \in Scores : x = ZscoreKey(n, k, score)
          \/ \E n \in QNames, seq \in Int : x = QItemKey(n, seq)
          \/ \E n \in QNames : x = QSizeKey(n)
      BY <1>3 DEF StoreKeys
    <2>2. /\ \A k : KvKey(k)[1] = KV
          /\ \A n, k : HashKey(n, k)[1] = HASH /\ ZsetKey(n, k)[1] = ZSET /\ QItemKey(n, k)[1] = QUEUE
          /\ \A n : HSizeKey(n)[1] = HSIZE /\ ZSizeKey(n)[1] = ZSIZE /\ QSizeKey(n)[1] = QSIZE
          /\ \A n, k, score : ZscoreKey(n, k, score)[1] = ZSCORE
      BY DEF KvKey, HashKey, ZsetKey, QItemKey, HSizeKey, ZSizeKey, QSizeKey, ZscoreKey
    <2>3. /\ KV # HASH /\ KV # HSIZE /\ KV # ZSIZE /\ KV # QSIZE /\ KV # ZSET /\ KV # ZSCORE /\ KV # QUEUE
          /\ HASH # HSIZE /\ HASH # ZSIZE /\ HASH # QSIZE /\ HASH # ZSET /\ HASH # ZSCORE /\ HASH # QUEUE
          /\ HSIZE # ZSIZE /\ HSIZE # QSIZE /\ HSIZE # ZSET /\ HSIZE # ZSCORE /\ HSIZE # QUEUE
          /\ ZSIZE # QSIZE /\ ZSIZE # ZSET /\ ZSIZE # ZSCORE /\ ZSIZE # QUEUE
          /\ QSIZE # ZSET /\ QSIZE # ZSCORE /\ QSIZE # QUEUE
          /\ ZSET # ZSCORE /\ ZSET # QUEUE /\ ZSCORE # QUEUE
      BY DEF KV, HASH, HSIZE, ZSIZE, QSIZE, ZSET, ZSCORE, QUEUE
    <2>4. QED
      BY <2>1, <2>2, <2>3, Zenon
  <1>4. QED
    BY <1>1, <1>2, <1>3

\* Prefixes of one and of two numbers.
LEMMA OnePrefix ==
    ASSUME NEW a \in Int
    PROVE  /\ <<a>> \in Seq(Int) /\ \A k : Append(<<a>>, k) = <<a, k>>
           /\ \A x : Starts(<<a>>, x) => x[1] = a
  <1>1. ASSUME NEW k PROVE Append(<<a>>, k) = <<a, k>>
    <2> DEFINE S == {a, k}  P == <<a>>  p == Append(P, k)  q == <<a, k>>
    <2>1. P \in Seq(S) /\ Len(P) = 1 /\ P[1] = a /\ k \in S
      OBVIOUS
    <2>2. q \in Seq(S) /\ Len(q) = 2 /\ q[1] = a /\ q[2] = k
      OBVIOUS
    <2> HIDE DEF S, P, q
    <2>3. P \in Seq(S) /\ k \in S
      BY <2>1
    <2>4. /\ Append(P, k) \in Seq(S) /\ Len(Append(P, k)) = Len(P) + 1
          /\ Append(P, k)[Len(P) + 1] = k
          /\ \A i \in 1 .. Len(P) : Append(P, k)[i] = P[i]
      BY ONLY <2>3, AppendProperties
    <2> HIDE DEF p
    <2>5. Len(p) = 2 /\ \A i \in 1 .. 2 : p[i] = q[i]
      BY <2>1, <2>2, <2>4 DEF p
    <2>6. p = q
      BY <2>2, <2>4, <2>5, SeqEqual DEF p
    <2>7. QED
      BY <2>6 DEF P, p, q
  <1>2. Len(<<a>>) = 1 /\ <<a>>[1] = a /\ <<a>> \in Seq(Int)
    OBVIOUS
  <1>3. \A x : Starts(<<a>>, x) => x[1] = a
    <2> DEFINE P == <<a>>
    <2>1. Len(P) = 1 /\ P[1] = a /\ 1 \in 1 .. 1
      BY <1>2
    <2> HIDE DEF P
    <2>2. \A x : Starts(P, x) => x[1] = a
      BY <2>1 DEF Starts
    <2>3. QED
      BY <2>2 DEF P
  <1>4. QED
    BY <1>1, <1>2, <1>3

LEMMA TwoPrefix ==
    ASSUME NEW a \in Int, NEW b \in Int
    PROVE  /\ <<a, b>> \in Seq(Int) /\ \A k : Append(<<a, b>>, k) = <<a, b, k>>
           /\ \A x : Starts(<<a, b>>, x) => x[1] = a /\ x[2] = b
  <1>1. ASSUME NEW k PROVE Append(<<a, b>>, k) = <<a, b, k>>
    <2> DEFINE S == {a, b, k}  P == <<a, b>>  p == Append(P, k)  q == <<a, b, k>>
    <2>1. P \in Seq(S) /\ Len(P) = 2 /\ P[1] = a /\ P[2] = b /\ k \in S
      OBVIOUS
    <2>2. q \in Seq(S) /\ Len(q) = 3 /\ q[1] = a /\ q[2] = b /\ q[3] = k
      OBVIOUS
    <2> HIDE DEF S, P, q
    <2>3. P \in Seq(S) /\ k \in S
      BY <2>1
    <2>4. /\ Append(P, k) \in Seq(S) /\ Len(Append(P, k)) = Len(P) + 1
          /\ Append(P, k)[Len(P) + 1] = k
          /\ \A i \in 1 .. Len(P) : Append(P, k)[i] = P[i]
      BY ONLY <2>3, AppendProperties
    <2> HIDE DEF p
    <2>5. Len(p) = 3 /\ \A i \in 1 .. 3 : p[i] = q[i]
      BY <2>1, <2>2, <2>4 DEF p
    <2>6. p = q
      BY <2>2, <2>4, <2>5, SeqEqual DEF p
    <2>7. QED
      BY <2>6 DEF P, p, q
  <1>2. Len(<<a, b>>) = 2 /\ <<a, b>>[1] = a /\ <<a, b>>[2] = b /\ <<a, b>> \in Seq(Int)
    OBVIOUS
  <1>3. \A x : Starts(<<a, b>>, x) => x[1] = a /\ x[2] = b
    <2> DEFINE P == <<a, b>>
    <2>1. Len(P) = 2 /\ P[1] = a /\ P[2] = b /\ 1 \in 1 .. 2 /\ 2 \in 1 .. 2
      BY <1>2
    <2> HIDE DEF P
    <2>2. \A x : Starts(P, x) => x[1] = a /\ x[2] = b
      BY <2>1 DEF Starts
    <2>3. QED
      BY <2>2 DEF P
  <1>4. QED
    BY <1>1, <1>2, <1>3

LEMMA KvGroup ==
    ASSUME WellFormed(db), LegalDb(db)
    PROVE  Grouped(<<KV>>, DOMAIN Kv(db))
  <1>1. /\ <<KV>> \in Seq(Int) /\ \A k : Append(<<KV>>, k) = KvKey(k)
        /\ \A x : Starts(<<KV>>, x) => x[1] = KV
    BY OnePrefix DEF KV, KvKey
  <1>2. \A k : k \in DOMAIN Kv(db) <=> KvKey(k) \in DOMAIN db
    BY KvMember
  <1>3. \A x \in DOMAIN db : x[1] = KV => \E k \in Keys : x = KvKey(k)
    BY KeysOfType
  <1>4. ASSUME NEW k \in DOMAIN Kv(db) PROVE k \in 1 .. Top - 1
    <2>1. KvKey(k) \in DOMAIN db /\ KvKey(k)[1] = KV
      BY <1>2 DEF KvKey
    <2>2. PICK j \in Keys : KvKey(k) = KvKey(j)
      BY <1>3, <2>1
    <2>3. k = j
      BY <2>2 DEF KvKey
    <2>4. QED
      BY <2>3, NamesBelow
  <1>5. QED
    BY <1>1, <1>2, <1>3, <1>4 DEF Grouped

LEMMA HashGroup ==
    ASSUME WellFormed(db), LegalDb(db), NEW n \in HNames
    PROVE  Grouped(<<HASH, n>>, DOMAIN Hash(db, n))
  <1>1. /\ <<HASH, n>> \in Seq(Int) /\ \A k : Append(<<HASH, n>>, k) = HashKey(n, k)
        /\ \A x : Starts(<<HASH, n>>, x) => x[1] = HASH /\ x[2] = n
    <2>1. HASH \in Int /\ n \in Int
      BY SsdbAssumption DEF HASH
    <2>2. QED
      BY <2>1, TwoPrefix DEF HashKey
  <1>2. \A k : k \in DOMAIN Hash(db, n) <=> HashKey(n, k) \in DOMAIN db
    BY HashMember
  <1>3. ASSUME NEW x \in DOMAIN db, x[1] = HASH, x[2] = n
        PROVE  \E k \in Keys : x = HashKey(n, k)
    <2>1. PICK m \in HNames, k \in Keys : x = HashKey(m, k)
      BY <1>3, KeysOfType
    <2>2. HashKey(m, k)[2] = m
      BY DEF HashKey
    <2>3. QED
      BY <1>3, <2>1, <2>2
  <1>4. ASSUME NEW k \in DOMAIN Hash(db, n) PROVE k \in 1 .. Top - 1
    <2>1. HashKey(n, k) \in DOMAIN db /\ HashKey(n, k)[1] = HASH /\ HashKey(n, k)[2] = n
      BY <1>2 DEF HashKey
    <2>2. PICK j \in Keys : HashKey(n, k) = HashKey(n, j)
      BY <1>3, <2>1
    <2>3. k = j
      BY <2>2 DEF HashKey
    <2>4. QED
      BY <2>3, NamesBelow
  <1>5. QED
    BY <1>1, <1>2, <1>3, <1>4 DEF Grouped

\* The counters of one type.
SizeKey(type, n) == <<type, n>>

LEMMA SizeGroup ==
    ASSUME NEW type \in Int, NEW Names, Names \subseteq 1 .. Top - 1, NEW S, S \subseteq Names,
           \A x \in DOMAIN db : x[1] = type => \E n \in Names : x = SizeKey(type, n),
           \A n \in Names : n \in S <=> SizeKey(type, n) \in DOMAIN db
    PROVE  Grouped(<<type>>, S)
  <1>1. /\ <<type>> \in Seq(Int) /\ \A k : Append(<<type>>, k) = SizeKey(type, k)
        /\ \A x : Starts(<<type>>, x) => x[1] = type
    BY OnePrefix DEF SizeKey
  <1>2. ASSUME NEW x \in DOMAIN db, Starts(<<type>>, x)
        PROVE  \E n \in S : x = Append(<<type>>, n)
    <2>1. PICK n \in Names : x = SizeKey(type, n)
      BY <1>1, <1>2
    <2>2. n \in S
      BY <2>1
    <2>3. QED
      BY <1>1, <2>1, <2>2
  <1>3. \A n \in S : Append(<<type>>, n) \in DOMAIN db
    BY <1>1
  <1>4. QED
    BY <1>1, <1>2, <1>3 DEF Grouped

LEMMA HSizeGroup ==
    ASSUME IInv, LegalDb(db), misread = {}
    PROVE  Grouped(<<HSIZE>>, {n \in HNames : Hash(db, n) # <<>>})
  <1> DEFINE S == {n \in HNames : Hash(db, n) # <<>>}
  <1>1. \A n : HSizeKey(n) = SizeKey(HSIZE, n)
    BY DEF HSizeKey, SizeKey
  <1>2. ASSUME NEW n \in HNames PROVE n \in S <=> SizeKey(HSIZE, n) \in DOMAIN db
    <2>1. /\ IsFiniteSet(DOMAIN Hash(db, n))
          /\ Counts(db, HSizeKey(n), Cardinality(DOMAIN Hash(db, n)))
      BY DEF IInv, HashRight
    <2>2. Hash(db, n) = <<>> <=> DOMAIN Hash(db, n) = {}
      <3>1. Hash(db, n) = [k \in DOMAIN Hash(db, n) |-> Hash(db, n)[k]]
        BY DEF Hash
      <3>2. ASSUME DOMAIN Hash(db, n) = {} PROVE Hash(db, n) = <<>>
        <4> DEFINE h == Hash(db, n)
        <4>1. h = [k \in DOMAIN h |-> h[k]] /\ DOMAIN h = {}
          BY <3>1, <3>2
        <4> HIDE DEF h
        <4>2. h = <<>>
          BY <4>1
        <4>3. QED
          BY <4>2 DEF h
      <3>3. DOMAIN <<>> = {}
        OBVIOUS
      <3>4. QED
        BY <3>2, <3>3
    <2>3. DOMAIN Hash(db, n) = {} <=> Cardinality(DOMAIN Hash(db, n)) = 0
      BY <2>1, FS_EmptySet
    <2>4. QED
      BY <1>1, <2>1, <2>2, <2>3 DEF Counts
  <1>3. \A x \in DOMAIN db : x[1] = HSIZE => \E n \in HNames : x = SizeKey(HSIZE, n)
    BY <1>1, KeysOfType
  <1>4. S \subseteq HNames /\ HNames \subseteq 1 .. Top - 1 /\ HSIZE \in Int
    BY NamesBelow DEF HSIZE
  <1> HIDE DEF S
  <1>5. QED
    BY <1>2, <1>3, <1>4, SizeGroup DEF S

LEMMA ZSizeGroup ==
    ASSUME IInv, LegalDb(db), misread = {}
    PROVE  Grouped(<<ZSIZE>>, {n \in ZNames : Zset(db, n) # <<>>})
  <1> DEFINE S == {n \in ZNames : Zset(db, n) # <<>>}
  <1>1. \A n : ZSizeKey(n) = SizeKey(ZSIZE, n)
    BY DEF ZSizeKey, SizeKey
  <1>2. ASSUME NEW n \in ZNames PROVE n \in S <=> SizeKey(ZSIZE, n) \in DOMAIN db
    <2>1. /\ IsFiniteSet(DOMAIN Zset(db, n))
          /\ Counts(db, ZSizeKey(n), Cardinality(DOMAIN Zset(db, n)))
      BY DEF IInv, ZsetRight
    <2>2. Zset(db, n) = <<>> <=> DOMAIN Zset(db, n) = {}
      <3>1. Zset(db, n) = [k \in DOMAIN Zset(db, n) |-> Zset(db, n)[k]]
        BY DEF Zset
      <3>2. ASSUME DOMAIN Zset(db, n) = {} PROVE Zset(db, n) = <<>>
        <4> DEFINE z == Zset(db, n)
        <4>1. z = [k \in DOMAIN z |-> z[k]] /\ DOMAIN z = {}
          BY <3>1, <3>2
        <4> HIDE DEF z
        <4>2. z = <<>>
          BY <4>1
        <4>3. QED
          BY <4>2 DEF z
      <3>3. DOMAIN <<>> = {}
        OBVIOUS
      <3>4. QED
        BY <3>2, <3>3
    <2>3. DOMAIN Zset(db, n) = {} <=> Cardinality(DOMAIN Zset(db, n)) = 0
      BY <2>1, FS_EmptySet
    <2>4. QED
      BY <1>1, <2>1, <2>2, <2>3 DEF Counts
  <1>3. \A x \in DOMAIN db : x[1] = ZSIZE => \E n \in ZNames : x = SizeKey(ZSIZE, n)
    BY <1>1, KeysOfType
  <1>4. S \subseteq ZNames /\ ZNames \subseteq 1 .. Top - 1 /\ ZSIZE \in Int
    BY NamesBelow DEF ZSIZE
  <1> HIDE DEF S
  <1>5. QED
    BY <1>2, <1>3, <1>4, SizeGroup DEF S

LEMMA QSizeGroup ==
    ASSUME IInv, LegalDb(db), orphaned = {}
    PROVE  Grouped(<<QSIZE>>, {n \in QNames : Queue(db, n) # <<>>})
  <1> DEFINE S == {n \in QNames : Queue(db, n) # <<>>}
  <1>1. \A n : QSizeKey(n) = SizeKey(QSIZE, n)
    BY DEF QSizeKey, SizeKey
  <1>2. ASSUME NEW n \in QNames PROVE n \in S <=> SizeKey(QSIZE, n) \in DOMAIN db
    <2>1. CASE QSizeKey(n) \in DOMAIN db
      <3> DEFINE a == Sequence(n, QFRONT)  b == Sequence(n, QBACK)
      <3>1. Holds(db, n, a, b)
        BY <2>1, QueueState
      <3> HIDE DEF a, b
      <3>2. Queue(db, n) = [i \in 1 .. b - a + 1 |-> db[QItemKey(n, a + i - 1)]]
        BY <3>1, QueueHeld
      <3>3. 1 \in 1 .. b - a + 1
        BY <3>1, SsdbAssumption DEF Holds
      <3>4. Queue(db, n) # <<>>
        <4>1. DOMAIN Queue(db, n) = 1 .. b - a + 1 /\ DOMAIN <<>> = {}
          BY <3>2
        <4>2. QED
          BY <3>3, <4>1
      <3>5. QED
        BY <1>1, <2>1, <3>4
    <2>2. CASE QSizeKey(n) \notin DOMAIN db
      <3>1. HoldsNone(db, n)
        BY <2>2, QueueState
      <3>2. Queue(db, n) = <<>>
        BY <3>1, QueueHeld
      <3>3. QED
        BY <1>1, <2>2, <3>2
    <2>3. QED
      BY <2>1, <2>2
  <1>3. \A x \in DOMAIN db : x[1] = QSIZE => \E n \in QNames : x = SizeKey(QSIZE, n)
    BY <1>1, KeysOfType
  <1>4. S \subseteq QNames /\ QNames \subseteq 1 .. Top - 1 /\ QSIZE \in Int
    BY NamesBelow DEF QSIZE
  <1> HIDE DEF S
  <1>5. QED
    BY <1>2, <1>3, <1>4, SizeGroup DEF S

-----------------------------------------------------------------------------
(* The index of a sorted set.                                              *)

\* Four numbers, the keys of the index, compare with three and with four.
LEMMA LessFour ==
    ASSUME NEW a, NEW b, NEW c, NEW d, NEW p, NEW q, NEW r, NEW t
    PROVE  Less(<<a, b, c, d>>, <<p, q, r, t>>)
             <=> \/ a < p \/ (a = p /\ b < q) \/ (a = p /\ b = q /\ c < r)
                 \/ (a = p /\ b = q /\ c = r /\ d < t)
  <1> DEFINE s == <<a, b, c, d>>  z == <<p, q, r, t>>
  <1>1. /\ Len(s) = 4 /\ s[1] = a /\ s[2] = b /\ s[3] = c /\ s[4] = d
        /\ Len(z) = 4 /\ z[1] = p /\ z[2] = q /\ z[3] = r /\ z[4] = t
    OBVIOUS
  <1> HIDE DEF s, z
  <1>2. /\ 1 .. 3 = {1, 2, 3} /\ 1 .. 4 = {1, 2, 3, 4}
        /\ 1 .. 1 - 1 = {} /\ 1 .. 2 - 1 = {1} /\ 1 .. 3 - 1 = {1, 2} /\ 1 .. 4 - 1 = {1, 2, 3}
    OBVIOUS
  <1>3. Less(s, z) <=> \/ a < p \/ (a = p /\ b < q) \/ (a = p /\ b = q /\ c < r)
                       \/ (a = p /\ b = q /\ c = r /\ d < t)
    BY <1>1, <1>2 DEF Less
  <1>4. QED
    BY <1>3 DEF s, z

LEMMA FourBeforeThree ==
    ASSUME NEW a, NEW b, NEW c, NEW d, NEW p, NEW q, NEW r
    PROVE  Less(<<a, b, c, d>>, <<p, q, r>>) <=> a < p \/ (a = p /\ b < q) \/ (a = p /\ b = q /\ c < r)
  <1> DEFINE s == <<a, b, c, d>>  z == <<p, q, r>>
  <1>1. /\ Len(s) = 4 /\ s[1] = a /\ s[2] = b /\ s[3] = c /\ s[4] = d
        /\ Len(z) = 3 /\ z[1] = p /\ z[2] = q /\ z[3] = r
    OBVIOUS
  <1> HIDE DEF s, z
  <1>2. /\ 1 .. 3 = {1, 2, 3}
        /\ 1 .. 1 - 1 = {} /\ 1 .. 2 - 1 = {1} /\ 1 .. 3 - 1 = {1, 2}
    OBVIOUS
  <1>3. Less(s, z) <=> a < p \/ (a = p /\ b < q) \/ (a = p /\ b = q /\ c < r)
    BY <1>1, <1>2 DEF Less
  <1>4. QED
    BY <1>3 DEF s, z

LEMMA ThreeBeforeFour ==
    ASSUME NEW a, NEW b, NEW c, NEW d, NEW p, NEW q, NEW r
    PROVE  Less(<<p, q, r>>, <<a, b, c, d>>)
             <=> p < a \/ (p = a /\ q < b) \/ (p = a /\ q = b /\ r < c) \/ (p = a /\ q = b /\ r = c)
  <1> DEFINE s == <<a, b, c, d>>  z == <<p, q, r>>
  <1>1. /\ Len(s) = 4 /\ s[1] = a /\ s[2] = b /\ s[3] = c /\ s[4] = d
        /\ Len(z) = 3 /\ z[1] = p /\ z[2] = q /\ z[3] = r
    OBVIOUS
  <1> HIDE DEF s, z
  <1>2. /\ 1 .. 4 = {1, 2, 3, 4}
        /\ 1 .. 1 - 1 = {} /\ 1 .. 2 - 1 = {1} /\ 1 .. 3 - 1 = {1, 2} /\ 1 .. 4 - 1 = {1, 2, 3}
    OBVIOUS
  <1>3. Less(z, s)
          <=> p < a \/ (p = a /\ q < b) \/ (p = a /\ q = b /\ r < c) \/ (p = a /\ q = b /\ r = c)
    BY <1>1, <1>2 DEF Less
  <1>4. QED
    BY <1>3 DEF s, z

\* The index has each entry of the sorted set once, under its score.
Indexed(n, z) ==
    /\ \A k \in DOMAIN z : /\ k \in Int /\ 0 < k /\ k < Top /\ z[k] \in Scores
                           /\ z[k] \in ScoreMin .. ScoreMax /\ z[k] \in Int /\ ZscoreKey(n, k, z[k]) \in DOMAIN db
    /\ \A x \in DOMAIN db : x[1] = ZSCORE =>
          \E m, s, k \in Int : x = ZscoreKey(m, k, s) /\ (m = n => k \in DOMAIN z /\ s = z[k])

LEMMA IndexedRight ==
    ASSUME IInv, LegalDb(db), NEW n \in ZNames, <<ZSET, n>> \notin misread
    PROVE  Indexed(n, Zset(db, n))
  <1> DEFINE z == Zset(db, n)
  <1>1. {x \in Of(db, ZSCORE) : x[2] = n} = {ZscoreKey(n, k, z[k]) : k \in DOMAIN z}
    BY DEF IInv, ZsetRight
  <1>2. /\ ZNames \subseteq Int /\ Keys \subseteq Int /\ Scores \subseteq Int
        /\ \A score \in Scores : score \in ScoreMin .. ScoreMax
    <2>1. Scores \subseteq ScoreMin .. ScoreMax
      BY SsdbAssumption
    <2>2. ZNames \subseteq Int /\ Keys \subseteq Int
      BY SsdbAssumption
    <2>3. QED
      BY <2>1, <2>2
  <1> HIDE DEF z
  <1>3. ASSUME NEW k \in DOMAIN z
        PROVE  ZscoreKey(n, k, z[k]) \in DOMAIN db /\ k \in Keys /\ z[k] \in Scores
    <2> DEFINE x == ZscoreKey(n, k, z[k])
    <2>1. x \in Of(db, ZSCORE)
      BY <1>1
    <2> HIDE DEF x
    <2>2. x \in DOMAIN db /\ x[1] = ZSCORE
      BY <2>1 DEF Of
    <2>3. PICK m \in ZNames, j \in Keys, score \in Scores : x = ZscoreKey(m, j, score)
      BY <2>2, KeysOfType
    <2>4. k = j /\ z[k] = score
      BY <2>3 DEF x, ZscoreKey
    <2>5. QED
      BY <2>2, <2>4 DEF x
  <1>4. ASSUME NEW x \in DOMAIN db, x[1] = ZSCORE
        PROVE  \E m, s, k \in Int : x = ZscoreKey(m, k, s) /\ (m = n => k \in DOMAIN z /\ s = z[k])
    <2>1. PICK m \in ZNames, j \in Keys, score \in Scores : x = ZscoreKey(m, j, score)
      BY <1>4, KeysOfType
    <2>2. m \in Int /\ j \in Int /\ score \in Int
      BY <1>2
    <2>3. ASSUME m = n PROVE j \in DOMAIN z /\ score = z[j]
      <3>1. x \in Of(db, ZSCORE) /\ x[2] = n
        BY <1>4, <2>1, <2>3 DEF Of, ZscoreKey
      <3>2. PICK k \in DOMAIN z : x = ZscoreKey(n, k, z[k])
        BY <1>1, <3>1
      <3>3. j = k /\ score = z[k]
        BY <2>1, <3>2 DEF ZscoreKey
      <3>4. QED
        BY <3>3
    <2>4. QED
      BY <2>1, <2>2, <2>3
  <1>5. \A k \in Keys : k \in Int /\ 0 < k /\ k < Top
    BY NamesBelow DEF Top
  <1>6. Indexed(n, z)
    BY <1>2, <1>3, <1>4, <1>5 DEF Indexed
  <1>7. QED
    BY <1>6 DEF z

\* Bounds between which the index has the entries T of the sorted set z, and
\* none of another: up from B to E, and down.
SpansUp(n, z, T, B, E) ==
    /\ B \in Seq(Int) /\ Starts(<<ZSCORE>>, B) /\ E \in Seq(Int) /\ T \subseteq DOMAIN z
    /\ \A k \in DOMAIN z : k \in T <=> /\ Less(B, ZscoreKey(n, k, z[k]))
                                       /\ E = <<>> \/ ~Less(E, ZscoreKey(n, k, z[k]))
    /\ \A m, s, k \in Int : m # n => ~(/\ Less(B, ZscoreKey(m, k, s))
                                       /\ E = <<>> \/ ~Less(E, ZscoreKey(m, k, s)))

SpansDown(n, z, T, B, E) ==
    /\ B \in Seq(Int) /\ Starts(<<ZSCORE>>, B) /\ E \in Seq(Int) /\ T \subseteq DOMAIN z
    /\ \A k \in DOMAIN z : k \in T <=> /\ Less(ZscoreKey(n, k, z[k]), B)
                                       /\ E = <<>> \/ ~Less(ZscoreKey(n, k, z[k]), E)
    /\ \A m, s, k \in Int : m # n => ~(/\ Less(ZscoreKey(m, k, s), B)
                                       /\ E = <<>> \/ ~Less(ZscoreKey(m, k, s), E))

\* How the keys of entries compare.
LEMMA ScoreKeys ==
    ASSUME NEW n \in Int, NEW k \in Int, NEW s \in Int
    PROVE  /\ ZscoreKey(n, k, s) \in Seq(Int) /\ Starts(<<ZSCORE>>, ZscoreKey(n, k, s))
           /\ ZscoreKey(n, k, s)[Len(ZscoreKey(n, k, s))] = k
           /\ \A j, t \in Int : Less(ZscoreKey(n, k, s), ZscoreKey(n, j, t)) <=> s < t \/ (s = t /\ k < j)
  <1> DEFINE x == ZscoreKey(n, k, s)
  <1>1. /\ x \in Seq(Int) /\ Len(x) = 4 /\ x[1] = ZSCORE /\ x[4] = k
        /\ x = <<ZSCORE, n, s, k>> /\ ZSCORE \in Int
    BY DEF ZscoreKey, ZSCORE
  <1>2. Starts(<<ZSCORE>>, x)
    <2> DEFINE P == <<ZSCORE>>
    <2>1. Len(P) = 1 /\ P[1] = ZSCORE /\ 1 .. 1 = {1}
      OBVIOUS
    <2> HIDE DEF P, x
    <2>2. Starts(P, x)
      BY <1>1, <2>1 DEF Starts
    <2>3. QED
      BY <2>2 DEF P
  <1>3. ASSUME NEW j \in Int, NEW t \in Int
        PROVE  Less(x, ZscoreKey(n, j, t)) <=> s < t \/ (s = t /\ k < j)
    <2>1. ZscoreKey(n, j, t) = <<ZSCORE, n, t, j>>
      BY DEF ZscoreKey
    <2> HIDE DEF x
    <2>2. Less(<<ZSCORE, n, s, k>>, <<ZSCORE, n, t, j>>)
            <=> \/ ZSCORE < ZSCORE \/ (ZSCORE = ZSCORE /\ n < n)
                \/ (ZSCORE = ZSCORE /\ n = n /\ s < t) \/ (ZSCORE = ZSCORE /\ n = n /\ s = t /\ k < j)
      BY LessFour
    <2>3. ~(ZSCORE < ZSCORE) /\ ~(n < n)
      BY <1>1
    <2>4. Less(<<ZSCORE, n, s, k>>, <<ZSCORE, n, t, j>>) <=> s < t \/ (s = t /\ k < j)
      BY ONLY <2>2, <2>3, Zenon
    <2>5. QED
      BY <1>1, <2>1, <2>4, Zenon
  <1> HIDE DEF x
  <1>4. QED
    BY <1>1, <1>2, <1>3 DEF x

LEMMA RankedForward ==
    ASSUME Stored, NEW n \in Int, NEW z, Indexed(n, z), NEW T, NEW B, NEW E,
           SpansUp(n, z, T, B, E), NEW limit \in Nat
    PROVE  LET t == Ranked(z, T)
           IN Returns(Final(While(Iterated(B, E, limit), <<ZSCORE>>)), limit, t)
  <1> DEFINE t == Ranked(z, T)  key == [k \in T |-> ZscoreKey(n, k, z[k])]  P == <<ZSCORE>>
             Q == RankOrder(z, T)
  <1>0. \A k, s \in Int :
           /\ Starts(P, ZscoreKey(n, k, s)) /\ ZscoreKey(n, k, s)[Len(ZscoreKey(n, k, s))] = k
           /\ \A j, u \in Int : Less(ZscoreKey(n, k, s), ZscoreKey(n, j, u)) <=> s < u \/ (s = u /\ k < j)
    BY ScoreKeys
  <1>1. /\ T \subseteq DOMAIN z
        /\ \A k \in T : k \in 1 .. Top - 1 /\ k \in Int /\ z[k] \in Int
        /\ \A k \in T : key[k] = ZscoreKey(n, k, z[k]) /\ key[k] \in DOMAIN db
    <2>1. T \subseteq DOMAIN z
      BY DEF SpansUp
    <2>2. \A k \in DOMAIN z : /\ k \in Int /\ 0 < k /\ k < Top /\ z[k] \in Int
                              /\ ZscoreKey(n, k, z[k]) \in DOMAIN db
      BY DEF Indexed
    <2>3. \A k \in DOMAIN z : k \in 1 .. Top - 1
      BY <2>2 DEF Top
    <2>4. \A k \in T : key[k] = ZscoreKey(n, k, z[k])
      OBVIOUS
    <2> HIDE DEF key
    <2>5. QED
      BY <2>1, <2>2, <2>3, <2>4
  <1>2. T \subseteq 1 .. Top - 1
    BY <1>1
  <1>3. IsFiniteSet(T) /\ T \subseteq Int
    BY <1>2, NamesFinite
  <1>4. Enumerates(t, Q, T)
    BY <1>1, <1>3, RankedIs
  <1>5. P \in Seq(Int)
    BY DEF ZSCORE
  <1> HIDE DEF t, key
  <1>6. ASSUME NEW k \in T
        PROVE  /\ key[k] \in DOMAIN db /\ Starts(P, key[k]) /\ key[k][Len(key[k])] = k
               /\ Less(B, key[k]) /\ (E = <<>> \/ ~Less(E, key[k]))
    <2>1. k \in DOMAIN z /\ k \in Int /\ z[k] \in Int /\ key[k] = ZscoreKey(n, k, z[k])
      BY <1>1
    <2>2. /\ Starts(P, ZscoreKey(n, k, z[k]))
          /\ ZscoreKey(n, k, z[k])[Len(ZscoreKey(n, k, z[k]))] = k
      BY <1>0, <2>1
    <2>3. Starts(P, key[k]) /\ key[k][Len(key[k])] = k
      BY <2>1, <2>2
    <2>4. Less(B, key[k]) /\ (E = <<>> \/ ~Less(E, key[k]))
      BY <2>1 DEF SpansUp
    <2>5. QED
      BY <1>1, <2>3, <2>4
  <1>7. ASSUME NEW x \in DOMAIN db, Starts(P, x), Less(B, x), E = <<>> \/ ~Less(E, x)
        PROVE  \E k \in T : x = key[k]
    <2>1. x[1] = ZSCORE
      BY <1>7, OnePrefix DEF ZSCORE
    <2>2. PICK m, s, k \in Int : x = ZscoreKey(m, k, s) /\ (m = n => k \in DOMAIN z /\ s = z[k])
      BY <2>1 DEF Indexed
    <2>3. m = n
      BY <1>7, <2>2 DEF SpansUp
    <2>4. k \in T
      BY <1>7, <2>2, <2>3 DEF SpansUp
    <2>5. QED
      BY <1>1, <2>2, <2>3, <2>4
  <1>8. ASSUME NEW j \in T, NEW k \in T
        PROVE  <<j, k>> \in Q <=> Less(key[j], key[k])
    <2>1. /\ j \in Int /\ k \in Int /\ z[j] \in Int /\ z[k] \in Int
          /\ key[j] = ZscoreKey(n, j, z[j]) /\ key[k] = ZscoreKey(n, k, z[k])
      BY <1>1
    <2>2. Less(key[j], key[k]) <=> z[j] < z[k] \/ (z[j] = z[k] /\ j < k)
      <3>1. Less(ZscoreKey(n, j, z[j]), ZscoreKey(n, k, z[k])) <=> z[j] < z[k] \/ (z[j] = z[k] /\ j < k)
        BY ONLY <1>0, <2>1
      <3>2. QED
        BY ONLY <2>1, <3>1
    <2>3. <<j, k>> \in Q <=> z[j] < z[k] \/ (z[j] = z[k] /\ j < k)
      BY DEF RankOrder
    <2>4. QED
      BY <2>2, <2>3
  <1>9. Onward(P, B, E, T, Q, t, key)
    <2>1. B \in Seq(Int) /\ E \in Seq(Int) /\ Starts(P, B)
      BY DEF SpansUp
    <2> HIDE DEF P, Q
    <2>2. QED
      BY <1>4, <1>5, <1>6, <1>7, <1>8, <2>1 DEF Onward
  <1> HIDE DEF P, Q
  <1>10. Returns(Final(While(Iterated(B, E, limit), P)), limit, t)
    BY <1>9, ForwardScan
  <1>11. QED
    BY <1>10 DEF t, P

LEMMA RankedBackward ==
    ASSUME Stored, NEW n \in Int, NEW z, Indexed(n, z), NEW T, NEW B, NEW E,
           SpansDown(n, z, T, B, E), NEW limit \in Nat
    PROVE  LET t == Reverse(Ranked(z, T))
           IN Returns(Final(While(RevIterated(B, E, limit), <<ZSCORE>>)), limit, t)
  <1> DEFINE r == Ranked(z, T)  t == Reverse(r)
             key == [k \in T |-> ZscoreKey(n, k, z[k])]  P == <<ZSCORE>>
             R == RankOrder(z, T)  Q == Converse(R)
  <1>0. \A k, s \in Int :
           /\ Starts(P, ZscoreKey(n, k, s)) /\ ZscoreKey(n, k, s)[Len(ZscoreKey(n, k, s))] = k
           /\ \A j, u \in Int : Less(ZscoreKey(n, k, s), ZscoreKey(n, j, u)) <=> s < u \/ (s = u /\ k < j)
    BY ScoreKeys
  <1>1. /\ T \subseteq DOMAIN z
        /\ \A k \in T : k \in 1 .. Top - 1 /\ k \in Int /\ z[k] \in Int
        /\ \A k \in T : key[k] = ZscoreKey(n, k, z[k]) /\ key[k] \in DOMAIN db
    <2>1. T \subseteq DOMAIN z
      BY DEF SpansDown
    <2>2. \A k \in DOMAIN z : /\ k \in Int /\ 0 < k /\ k < Top /\ z[k] \in Int
                              /\ ZscoreKey(n, k, z[k]) \in DOMAIN db
      BY DEF Indexed
    <2>3. \A k \in DOMAIN z : k \in 1 .. Top - 1
      BY <2>2 DEF Top
    <2>4. \A k \in T : key[k] = ZscoreKey(n, k, z[k])
      OBVIOUS
    <2> HIDE DEF key
    <2>5. QED
      BY <2>1, <2>2, <2>3, <2>4
  <1>2. T \subseteq 1 .. Top - 1
    BY <1>1
  <1>3. IsFiniteSet(T) /\ T \subseteq Int
    BY <1>2, NamesFinite
  <1>4. Enumerates(t, Q, T)
    <2>1. Enumerates(r, R, T)
      BY <1>1, <1>3, RankedIs
    <2>2. R \subseteq T \X T
      BY DEF RankOrder
    <2> HIDE DEF r, R
    <2>3. QED
      BY <2>1, <2>2, Backwards
  <1>5. P \in Seq(Int)
    BY DEF ZSCORE
  <1> HIDE DEF t, key
  <1>6. ASSUME NEW k \in T
        PROVE  /\ key[k] \in DOMAIN db /\ Starts(P, key[k]) /\ key[k][Len(key[k])] = k
               /\ Less(key[k], B) /\ (E = <<>> \/ ~Less(key[k], E))
    <2>1. k \in DOMAIN z /\ k \in Int /\ z[k] \in Int /\ key[k] = ZscoreKey(n, k, z[k])
      BY <1>1
    <2>2. /\ Starts(P, ZscoreKey(n, k, z[k]))
          /\ ZscoreKey(n, k, z[k])[Len(ZscoreKey(n, k, z[k]))] = k
      BY <1>0, <2>1
    <2>3. Starts(P, key[k]) /\ key[k][Len(key[k])] = k
      BY <2>1, <2>2
    <2>4. Less(key[k], B) /\ (E = <<>> \/ ~Less(key[k], E))
      BY <2>1 DEF SpansDown
    <2>5. QED
      BY <1>1, <2>3, <2>4
  <1>7. ASSUME NEW x \in DOMAIN db, Starts(P, x), Less(x, B), E = <<>> \/ ~Less(x, E)
        PROVE  \E k \in T : x = key[k]
    <2>1. x[1] = ZSCORE
      BY <1>7, OnePrefix DEF ZSCORE
    <2>2. PICK m, s, k \in Int : x = ZscoreKey(m, k, s) /\ (m = n => k \in DOMAIN z /\ s = z[k])
      BY <2>1 DEF Indexed
    <2>3. m = n
      BY <1>7, <2>2 DEF SpansDown
    <2>4. k \in T
      BY <1>7, <2>2, <2>3 DEF SpansDown
    <2>5. QED
      BY <1>1, <2>2, <2>3, <2>4
  <1>8. ASSUME NEW j \in T, NEW k \in T
        PROVE  <<j, k>> \in Q <=> Less(key[k], key[j])
    <2>1. /\ j \in Int /\ k \in Int /\ z[j] \in Int /\ z[k] \in Int
          /\ key[j] = ZscoreKey(n, j, z[j]) /\ key[k] = ZscoreKey(n, k, z[k])
      BY <1>1
    <2>2. Less(key[k], key[j]) <=> z[k] < z[j] \/ (z[k] = z[j] /\ k < j)
      <3>1. Less(ZscoreKey(n, k, z[k]), ZscoreKey(n, j, z[j])) <=> z[k] < z[j] \/ (z[k] = z[j] /\ k < j)
        BY ONLY <1>0, <2>1
      <3>2. QED
        BY ONLY <2>1, <3>1
    <2>3. <<k, j>> \in R <=> z[k] < z[j] \/ (z[k] = z[j] /\ k < j)
      BY DEF RankOrder
    <2>4. <<j, k>> \in Q <=> <<k, j>> \in R
      <3> HIDE DEF R
      <3>1. ASSUME <<j, k>> \in Q PROVE <<k, j>> \in R
        <4>1. PICK p \in R : <<j, k>> = <<p[2], p[1]>>
          BY <3>1 DEF Converse
        <4>2. p \in T \X T
          BY DEF R, RankOrder
        <4>3. p = <<k, j>>
          BY <4>1, <4>2
        <4>4. QED
          BY <4>3
      <3>2. ASSUME <<k, j>> \in R PROVE <<j, k>> \in Q
        <4>1. <<j, k>> = << <<k, j>>[2], <<k, j>>[1] >>
          OBVIOUS
        <4>2. QED
          BY <3>2, <4>1 DEF Converse
      <3>3. QED
        BY <3>1, <3>2
    <2> HIDE DEF Q, R
    <2>5. QED
      BY <2>2, <2>3, <2>4
  <1>9. Backward(P, B, E, T, Q, t, key)
    <2>1. B \in Seq(Int) /\ E \in Seq(Int) /\ Starts(P, B)
      BY DEF SpansDown
    <2> HIDE DEF P, Q
    <2>2. QED
      BY <1>4, <1>5, <1>6, <1>7, <1>8, <2>1 DEF Backward
  <1> HIDE DEF P, Q
  <1>10. Returns(Final(While(RevIterated(B, E, limit), P)), limit, t)
    BY <1>9, BackwardScan
  <1>11. QED
    BY <1>10 DEF t, P

LEMMA BoundStarts ==
    ASSUME NEW a, NEW b, NEW c, NEW d
    PROVE  Starts(<<a>>, <<a, b, c>>) /\ Starts(<<a>>, <<a, b, c, d>>)
  <1> DEFINE P == <<a>>  x == <<a, b, c>>  y == <<a, b, c, d>>
  <1>1. /\ Len(P) = 1 /\ P[1] = a /\ 1 .. 1 = {1}
        /\ Len(x) = 3 /\ x[1] = a /\ Len(y) = 4 /\ y[1] = a
    OBVIOUS
  <1> HIDE DEF P, x, y
  <1>2. Starts(P, x) /\ Starts(P, y)
    BY <1>1 DEF Starts
  <1>3. QED
    BY <1>2 DEF P, x, y

LEMMA ThreePrefix ==
    ASSUME NEW a, NEW b, NEW c, NEW k
    PROVE  Append(<<a, b, c>>, k) = <<a, b, c, k>>
  <1> DEFINE S == {a, b, c, k}  P == <<a, b, c>>  p == Append(P, k)  q == <<a, b, c, k>>
  <1>1. P \in Seq(S) /\ Len(P) = 3 /\ P[1] = a /\ P[2] = b /\ P[3] = c /\ k \in S
    OBVIOUS
  <1>2. q \in Seq(S) /\ Len(q) = 4 /\ q[1] = a /\ q[2] = b /\ q[3] = c /\ q[4] = k
    OBVIOUS
  <1> HIDE DEF S, P, q
  <1>3. P \in Seq(S) /\ k \in S
    BY <1>1
  <1>4. /\ Append(P, k) \in Seq(S) /\ Len(Append(P, k)) = Len(P) + 1
        /\ Append(P, k)[Len(P) + 1] = k
        /\ \A i \in 1 .. Len(P) : Append(P, k)[i] = P[i]
    BY ONLY <1>3, AppendProperties
  <1> HIDE DEF p
  <1>5. Len(p) = 4 /\ \A i \in 1 .. 4 : p[i] = q[i]
    BY <1>1, <1>2, <1>4 DEF p
  <1>6. p = q
    BY <1>2, <1>4, <1>5, SeqEqual DEF p
  <1>7. QED
    BY <1>6 DEF P, p, q

\* The bounds of ziterator.
LEMMA UpBounds ==
    ASSUME NEW n \in Int, NEW z, Indexed(n, z), NEW from \in Int, NEW to \in Int
    PROVE  SpansUp(n, z, {k \in DOMAIN z : z[k] >= from /\ z[k] <= to},
                   <<ZSCORE, n, from>>, <<ZSCORE, n, to, Top>>)
  <1> DEFINE T == {k \in DOMAIN z : z[k] >= from /\ z[k] <= to}
             B == <<ZSCORE, n, from>>
             E == <<ZSCORE, n, to, Top>>
  <1>0. ZSCORE \in Int /\ Top \in Int
    BY DEF ZSCORE, Top
  <1>1. B \in Seq(Int) /\ E \in Seq(Int) /\ T \subseteq DOMAIN z /\ E # <<>>
    BY <1>0
  <1>2. Starts(<<ZSCORE>>, B)
    BY BoundStarts
  <1>3. ASSUME NEW m \in Int, NEW s \in Int, NEW k \in Int
        PROVE  /\ Less(B, ZscoreKey(m, k, s)) <=> n < m \/ (n = m /\ from <= s)
               /\ Less(E, ZscoreKey(m, k, s)) <=> n < m \/ (n = m /\ (to < s \/ (to = s /\ Top < k)))
    <2>1. ZscoreKey(m, k, s) = <<ZSCORE, m, s, k>>
      BY DEF ZscoreKey
    <2>2. Less(<<ZSCORE, n, from>>, <<ZSCORE, m, s, k>>)
            <=> ZSCORE < ZSCORE \/ (ZSCORE = ZSCORE /\ n < m) \/ (ZSCORE = ZSCORE /\ n = m /\ from < s)
                \/ (ZSCORE = ZSCORE /\ n = m /\ from = s)
      BY ThreeBeforeFour
    <2>3. Less(<<ZSCORE, n, to, Top>>, <<ZSCORE, m, s, k>>)
            <=> \/ ZSCORE < ZSCORE \/ (ZSCORE = ZSCORE /\ n < m) \/ (ZSCORE = ZSCORE /\ n = m /\ to < s)
                \/ (ZSCORE = ZSCORE /\ n = m /\ to = s /\ Top < k)
      BY LessFour
    <2>4. ~(ZSCORE < ZSCORE)
      BY <1>0
    <2>5. Less(B, <<ZSCORE, m, s, k>>) <=> n < m \/ (n = m /\ from < s) \/ (n = m /\ from = s)
      BY ONLY <2>2, <2>4
    <2>6. Less(E, <<ZSCORE, m, s, k>>)
            <=> n < m \/ (n = m /\ (to < s \/ (to = s /\ Top < k)))
      BY ONLY <2>3, <2>4
    <2>7. from <= s <=> from < s \/ from = s
      OBVIOUS
    <2> HIDE DEF B, E
    <2>8. QED
      BY <2>1, <2>5, <2>6, <2>7
  <1> HIDE DEF B, E
  <1>4. ASSUME NEW k \in DOMAIN z
        PROVE  k \in T <=> /\ Less(B, ZscoreKey(n, k, z[k]))
                           /\ E = <<>> \/ ~Less(E, ZscoreKey(n, k, z[k]))
    <2>1. k \in Int /\ k < Top /\ z[k] \in Int
      BY DEF Indexed
    <2>2. /\ Less(B, ZscoreKey(n, k, z[k])) <=> n < n \/ (n = n /\ from <= z[k])
          /\ Less(E, ZscoreKey(n, k, z[k])) <=> n < n \/ (n = n /\ (to < z[k] \/ (to = z[k] /\ Top < k)))
      BY <1>3, <2>1
    <2>3. ~(Top < k) /\ ~(n < n) /\ (z[k] >= from <=> from <= z[k]) /\ (z[k] <= to <=> ~(to < z[k]))
      BY <1>0, <2>1
    <2>4. QED
      BY <1>1, <2>2, <2>3
  <1>5. ASSUME NEW m \in Int, NEW s \in Int, NEW k \in Int, m # n
        PROVE  ~(/\ Less(B, ZscoreKey(m, k, s))
                 /\ E = <<>> \/ ~Less(E, ZscoreKey(m, k, s)))
    BY <1>1, <1>3, <1>5
  <1> HIDE DEF T
  <1>6. SpansUp(n, z, T, B, E)
    BY <1>1, <1>2, <1>4, <1>5 DEF SpansUp
  <1>7. QED
    BY <1>6 DEF T, B, E

\* The entries with scores from to up, before the key c of the score from.
Ahead(z, to, from, c) == {k \in DOMAIN z : z[k] >= to /\ (z[k] < from \/ (z[k] = from /\ k < c))}

LEMMA DownBounds ==
    ASSUME NEW n \in Int, NEW z, Indexed(n, z), NEW c \in Int, NEW from \in Int, NEW to \in Int
    PROVE  /\ SpansDown(n, z, {k \in DOMAIN z : z[k] < from /\ z[k] >= to},
                        <<ZSCORE, n, from>>, <<ZSCORE, n, to>>)
           /\ SpansDown(n, z, Ahead(z, to, from, c),
                        <<ZSCORE, n, from, c>>, <<ZSCORE, n, to>>)
  <1> DEFINE S == {k \in DOMAIN z : z[k] < from /\ z[k] >= to}
             T == {k \in DOMAIN z : z[k] >= to /\ (z[k] < from \/ (z[k] = from /\ k < c))}
             A == <<ZSCORE, n, from>>
             B == <<ZSCORE, n, from, c>>
             E == <<ZSCORE, n, to>>
  <1>0. ZSCORE \in Int /\ Top \in Int
    BY DEF ZSCORE, Top
  <1>1. /\ A \in Seq(Int) /\ B \in Seq(Int) /\ E \in Seq(Int) /\ E # <<>>
        /\ S \subseteq DOMAIN z /\ T \subseteq DOMAIN z
    BY <1>0
  <1>2. Starts(<<ZSCORE>>, A) /\ Starts(<<ZSCORE>>, B)
    BY BoundStarts
  <1>3. ASSUME NEW m \in Int, NEW s \in Int, NEW k \in Int
        PROVE  /\ Less(ZscoreKey(m, k, s), A) <=> m < n \/ (m = n /\ s < from)
               /\ Less(ZscoreKey(m, k, s), B) <=> m < n \/ (m = n /\ (s < from \/ (s = from /\ k < c)))
               /\ Less(ZscoreKey(m, k, s), E) <=> m < n \/ (m = n /\ s < to)
    <2>1. ZscoreKey(m, k, s) = <<ZSCORE, m, s, k>>
      BY DEF ZscoreKey
    <2>2. Less(<<ZSCORE, m, s, k>>, <<ZSCORE, n, from>>)
            <=> ZSCORE < ZSCORE \/ (ZSCORE = ZSCORE /\ m < n) \/ (ZSCORE = ZSCORE /\ m = n /\ s < from)
      BY FourBeforeThree
    <2>3. Less(<<ZSCORE, m, s, k>>, <<ZSCORE, n, to>>)
            <=> ZSCORE < ZSCORE \/ (ZSCORE = ZSCORE /\ m < n) \/ (ZSCORE = ZSCORE /\ m = n /\ s < to)
      BY FourBeforeThree
    <2>4. Less(<<ZSCORE, m, s, k>>, <<ZSCORE, n, from, c>>)
            <=> \/ ZSCORE < ZSCORE \/ (ZSCORE = ZSCORE /\ m < n) \/ (ZSCORE = ZSCORE /\ m = n /\ s < from)
                \/ (ZSCORE = ZSCORE /\ m = n /\ s = from /\ k < c)
      BY LessFour
    <2>5. ~(ZSCORE < ZSCORE)
      BY <1>0
    <2>6. Less(<<ZSCORE, m, s, k>>, A) <=> m < n \/ (m = n /\ s < from)
      BY ONLY <2>2, <2>5
    <2>7. Less(<<ZSCORE, m, s, k>>, E) <=> m < n \/ (m = n /\ s < to)
      BY ONLY <2>3, <2>5
    <2>8. Less(<<ZSCORE, m, s, k>>, B) <=> m < n \/ (m = n /\ (s < from \/ (s = from /\ k < c)))
      BY ONLY <2>4, <2>5
    <2> HIDE DEF A, B, E
    <2>9. QED
      BY <2>1, <2>6, <2>7, <2>8
  <1> HIDE DEF A, B, E
  <1>4. ASSUME NEW k \in DOMAIN z
        PROVE  /\ k \in S <=> /\ Less(ZscoreKey(n, k, z[k]), A)
                              /\ E = <<>> \/ ~Less(ZscoreKey(n, k, z[k]), E)
               /\ k \in T <=> /\ Less(ZscoreKey(n, k, z[k]), B)
                              /\ E = <<>> \/ ~Less(ZscoreKey(n, k, z[k]), E)
    <2>1. k \in Int /\ z[k] \in Int
      BY DEF Indexed
    <2>2. /\ Less(ZscoreKey(n, k, z[k]), A) <=> n < n \/ (n = n /\ z[k] < from)
          /\ Less(ZscoreKey(n, k, z[k]), B)
               <=> n < n \/ (n = n /\ (z[k] < from \/ (z[k] = from /\ k < c)))
          /\ Less(ZscoreKey(n, k, z[k]), E) <=> n < n \/ (n = n /\ z[k] < to)
      BY <1>3, <2>1
    <2>3. ~(n < n) /\ (z[k] >= to <=> ~(z[k] < to))
      BY <1>0, <2>1
    <2>4. QED
      BY <1>1, <2>1, <2>2, <2>3
  <1>5. ASSUME NEW m \in Int, NEW s \in Int, NEW k \in Int, m # n
        PROVE  /\ ~(/\ Less(ZscoreKey(m, k, s), A)
                    /\ E = <<>> \/ ~Less(ZscoreKey(m, k, s), E))
               /\ ~(/\ Less(ZscoreKey(m, k, s), B)
                    /\ E = <<>> \/ ~Less(ZscoreKey(m, k, s), E))
    BY <1>1, <1>3, <1>5
  <1> HIDE DEF S, T
  <1>6. SpansDown(n, z, S, A, E)
    BY <1>1, <1>2, <1>4, <1>5 DEF SpansDown
  <1>7. SpansDown(n, z, T, B, E)
    BY <1>1, <1>2, <1>4, <1>5 DEF SpansDown
  <1>8. QED
    BY <1>6, <1>7 DEF S, T, A, B, E, Ahead

LEMMA BehindBounds ==
    ASSUME NEW n \in Int, NEW z, Indexed(n, z), NEW c \in Int, NEW from \in Int, NEW to \in Int,
           \A k \in DOMAIN z : z[k] <= to
    PROVE  SpansUp(n, z, {k \in DOMAIN z : z[k] > from \/ (z[k] = from /\ k > c)},
                   <<ZSCORE, n, from, c>>, <<ZSCORE, n, to, Top>>)
  <1> DEFINE T == {k \in DOMAIN z : z[k] > from \/ (z[k] = from /\ k > c)}
             B == <<ZSCORE, n, from, c>>
             E == <<ZSCORE, n, to, Top>>
  <1>0. ZSCORE \in Int /\ Top \in Int
    BY DEF ZSCORE, Top
  <1>1. B \in Seq(Int) /\ E \in Seq(Int) /\ T \subseteq DOMAIN z /\ E # <<>>
    BY <1>0
  <1>2. Starts(<<ZSCORE>>, B)
    BY BoundStarts
  <1>3. ASSUME NEW m \in Int, NEW s \in Int, NEW k \in Int
        PROVE  /\ Less(B, ZscoreKey(m, k, s)) <=> n < m \/ (n = m /\ (from < s \/ (from = s /\ c < k)))
               /\ Less(E, ZscoreKey(m, k, s)) <=> n < m \/ (n = m /\ (to < s \/ (to = s /\ Top < k)))
    <2>1. ZscoreKey(m, k, s) = <<ZSCORE, m, s, k>>
      BY DEF ZscoreKey
    <2>2. Less(<<ZSCORE, n, from, c>>, <<ZSCORE, m, s, k>>)
            <=> \/ ZSCORE < ZSCORE \/ (ZSCORE = ZSCORE /\ n < m) \/ (ZSCORE = ZSCORE /\ n = m /\ from < s)
                \/ (ZSCORE = ZSCORE /\ n = m /\ from = s /\ c < k)
      BY LessFour
    <2>3. Less(<<ZSCORE, n, to, Top>>, <<ZSCORE, m, s, k>>)
            <=> \/ ZSCORE < ZSCORE \/ (ZSCORE = ZSCORE /\ n < m) \/ (ZSCORE = ZSCORE /\ n = m /\ to < s)
                \/ (ZSCORE = ZSCORE /\ n = m /\ to = s /\ Top < k)
      BY LessFour
    <2>4. ~(ZSCORE < ZSCORE)
      BY <1>0
    <2>5. Less(B, <<ZSCORE, m, s, k>>)
            <=> n < m \/ (n = m /\ (from < s \/ (from = s /\ c < k)))
      BY ONLY <2>2, <2>4
    <2>6. Less(E, <<ZSCORE, m, s, k>>)
            <=> n < m \/ (n = m /\ (to < s \/ (to = s /\ Top < k)))
      BY ONLY <2>3, <2>4
    <2> HIDE DEF B, E
    <2>7. QED
      BY <2>1, <2>5, <2>6
  <1> HIDE DEF B, E
  <1>4. ASSUME NEW k \in DOMAIN z
        PROVE  k \in T <=> /\ Less(B, ZscoreKey(n, k, z[k]))
                           /\ E = <<>> \/ ~Less(E, ZscoreKey(n, k, z[k]))
    <2>1. k \in Int /\ k < Top /\ z[k] \in Int /\ z[k] <= to
      BY DEF Indexed
    <2>2. /\ Less(B, ZscoreKey(n, k, z[k]))
               <=> n < n \/ (n = n /\ (from < z[k] \/ (from = z[k] /\ c < k)))
          /\ Less(E, ZscoreKey(n, k, z[k])) <=> n < n \/ (n = n /\ (to < z[k] \/ (to = z[k] /\ Top < k)))
      BY <1>3, <2>1
    <2>3. ~(Top < k) /\ ~(n < n) /\ ~(to < z[k]) /\ (z[k] > from <=> from < z[k]) /\ (k > c <=> c < k)
      BY <1>0, <2>1
    <2>4. k \in T <=> from < z[k] \/ (from = z[k] /\ c < k)
      BY <2>3
    <2> HIDE DEF T
    <2>5. QED
      BY <1>1, <2>2, <2>3, <2>4
  <1>5. ASSUME NEW m \in Int, NEW s \in Int, NEW k \in Int, m # n
        PROVE  ~(/\ Less(B, ZscoreKey(m, k, s))
                 /\ E = <<>> \/ ~Less(E, ZscoreKey(m, k, s)))
    BY <1>1, <1>3, <1>5
  <1> HIDE DEF T
  <1>6. SpansUp(n, z, T, B, E)
    BY <1>1, <1>2, <1>4, <1>5 DEF SpansUp
  <1>7. QED
    BY <1>6 DEF T, B, E

LEMMA ScoreNumbers ==
    /\ ZNames \subseteq Int /\ ScoreMin \in Int /\ ScoreMax \in Int
    /\ \A score \in Scores : score \in Int /\ score # Nothing
  <1>1. ASSUME NEW score \in Scores PROVE score \in Int /\ score # Nothing
    BY SsdbAssumption
  <1>2. QED
    BY <1>1, SsdbAssumption

\* What the two scans of an index return.
LEMMA ZForwardIs ==
    ASSUME Stored, NEW n \in ZNames, NEW z, Indexed(n, z), NEW limit \in Nat
    PROVE  /\ Returns(ZForward(n, Empty, Nothing, Nothing, limit), limit, Ranked(z, DOMAIN z))
           /\ \A from, to \in Scores :
                 Returns(ZForward(n, Empty, from, to, limit), limit,
                         Ranked(z, {k \in DOMAIN z : z[k] >= from /\ z[k] <= to}))
  <1>0. /\ n \in Int /\ ScoreMin \in Int /\ ScoreMax \in Int
        /\ \A score \in Scores : score \in Int /\ score # Nothing
    BY ScoreNumbers
  <1>1. ASSUME NEW from, NEW to, NEW a \in Int, NEW b \in Int,
               a = IF from = Nothing THEN ScoreMin ELSE from,
               b = IF to = Nothing THEN ScoreMax ELSE to
        PROVE  Returns(ZForward(n, Empty, from, to, limit), limit,
                       Ranked(z, {k \in DOMAIN z : z[k] >= a /\ z[k] <= b}))
    <2> DEFINE T == {k \in DOMAIN z : z[k] >= a /\ z[k] <= b}
               B == <<ZSCORE, n, a>>
               E == <<ZSCORE, n, b, Top>>
    <2>1. SpansUp(n, z, T, B, E)
      BY <1>0, UpBounds
    <2>2. ZForward(n, Empty, from, to, limit) = Final(While(Iterated(B, E, limit), <<ZSCORE>>))
      BY <1>1 DEF ZForward, Bound
    <2> HIDE DEF T, B, E
    <2>3. Returns(Final(While(Iterated(B, E, limit), <<ZSCORE>>)), limit, Ranked(z, T))
      BY <1>0, <2>1, RankedForward
    <2>4. QED
      BY <2>2, <2>3 DEF T
  <1>2. {k \in DOMAIN z : z[k] >= ScoreMin /\ z[k] <= ScoreMax} = DOMAIN z
    <2>1. \A k \in DOMAIN z : z[k] \in ScoreMin .. ScoreMax
      BY DEF Indexed
    <2>2. QED
      BY <1>0, <2>1
  <1>3. Returns(ZForward(n, Empty, Nothing, Nothing, limit), limit,
                Ranked(z, {k \in DOMAIN z : z[k] >= ScoreMin /\ z[k] <= ScoreMax}))
    BY <1>0, <1>1
  <1>4. QED
    BY <1>0, <1>1, <1>2, <1>3

LEMMA ZBehindIs ==
    ASSUME Stored, NEW n \in ZNames, NEW z, Indexed(n, z), NEW limit \in Nat,
           NEW c \in Keys, NEW from \in Scores
    PROVE  Returns(ZForward(n, c, from, Nothing, limit), limit,
                   Ranked(z, {k \in DOMAIN z : z[k] > from \/ (z[k] = from /\ k > c)}))
  <1>0. /\ n \in Int /\ ScoreMin \in Int /\ ScoreMax \in Int
        /\ \A score \in Scores : score \in Int /\ score # Nothing
    BY ScoreNumbers
  <1> DEFINE T == {k \in DOMAIN z : z[k] > from \/ (z[k] = from /\ k > c)}
             B == <<ZSCORE, n, from, c>>
             E == <<ZSCORE, n, ScoreMax, Top>>
  <1>1. c \in Int /\ c # Empty /\ from \in Int /\ from # Nothing
    BY <1>0, SsdbAssumption DEF Empty
  <1>2. \A k \in DOMAIN z : z[k] <= ScoreMax
    <2>1. \A k \in DOMAIN z : z[k] \in ScoreMin .. ScoreMax
      BY DEF Indexed
    <2>2. QED
      BY <1>0, <2>1
  <1>3. ZForward(n, c, from, Nothing, limit)
          = Final(While(Iterated(Append(<<ZSCORE, n, from>>, c), E, limit), <<ZSCORE>>))
    BY <1>1 DEF ZForward, Bound
  <1>4. Append(<<ZSCORE, n, from>>, c) = B
    BY ThreePrefix
  <1>5. SpansUp(n, z, T, B, E)
    BY <1>0, <1>1, <1>2, BehindBounds
  <1> HIDE DEF T, B, E
  <1>6. Returns(Final(While(Iterated(B, E, limit), <<ZSCORE>>)), limit, Ranked(z, T))
    BY <1>0, <1>5, RankedForward
  <1>7. QED
    BY <1>3, <1>4, <1>6 DEF T

LEMMA ZBackwardIs ==
    ASSUME Stored, NEW n \in ZNames, NEW z, Indexed(n, z), NEW limit \in Nat
    PROVE  /\ Returns(ZBackward(n, Empty, Nothing, Nothing, limit), limit,
                      Reverse(Ranked(z, {k \in DOMAIN z : z[k] < ScoreMax})))
           /\ \A from, to \in Scores :
                 Returns(ZBackward(n, Empty, from, to, limit), limit,
                         Reverse(Ranked(z, {k \in DOMAIN z : z[k] >= to /\ z[k] <= from})))
  <1>0. /\ n \in Int /\ ScoreMin \in Int /\ ScoreMax \in Int
        /\ \A score \in Scores : score \in Int /\ score # Nothing
    BY ScoreNumbers
  <1>1. Returns(ZBackward(n, Empty, Nothing, Nothing, limit), limit,
                Reverse(Ranked(z, {k \in DOMAIN z : z[k] < ScoreMax})))
    <2> DEFINE T == {k \in DOMAIN z : z[k] < ScoreMax /\ z[k] >= ScoreMin}
               B == <<ZSCORE, n, ScoreMax>>
               E == <<ZSCORE, n, ScoreMin>>
    <2>1. SpansDown(n, z, T, B, E)
      BY <1>0, DownBounds
    <2>2. ZBackward(n, Empty, Nothing, Nothing, limit)
            = Final(While(RevIterated(B, E, limit), <<ZSCORE>>))
      BY DEF ZBackward, Bound
    <2>3. T = {k \in DOMAIN z : z[k] < ScoreMax}
      <3>1. \A k \in DOMAIN z : z[k] \in ScoreMin .. ScoreMax
        BY DEF Indexed
      <3>2. QED
        BY <1>0, <3>1
    <2> HIDE DEF T, B, E
    <2>4. Returns(Final(While(RevIterated(B, E, limit), <<ZSCORE>>)), limit, Reverse(Ranked(z, T)))
      BY <1>0, <2>1, RankedBackward
    <2>5. QED
      BY <2>2, <2>3, <2>4
  <1>2. ASSUME NEW from \in Scores, NEW to \in Scores
        PROVE  Returns(ZBackward(n, Empty, from, to, limit), limit,
                       Reverse(Ranked(z, {k \in DOMAIN z : z[k] >= to /\ z[k] <= from})))
    <2> DEFINE T == {k \in DOMAIN z : z[k] >= to /\ z[k] <= from}
               S == Ahead(z, to, from, Top)
               B == <<ZSCORE, n, from, Top>>
               E == <<ZSCORE, n, to>>
    <2>0. S = T
      <3>1. \A k \in DOMAIN z : k < Top /\ z[k] \in Int
        BY DEF Indexed
      <3>2. \A k \in DOMAIN z : z[k] <= from <=> z[k] < from \/ (z[k] = from /\ k < Top)
        BY <1>0, <3>1
      <3>3. QED
        BY <3>2 DEF Ahead
    <2>1. SpansDown(n, z, T, B, E)
      <3>1. Top \in Int
        BY DEF Top
      <3>2. SpansDown(n, z, S, B, E)
        BY <1>0, <3>1, DownBounds
      <3> HIDE DEF S, T, B, E
      <3>3. QED
        BY <2>0, <3>2
    <2>2. ZBackward(n, Empty, from, to, limit)
            = Final(While(RevIterated(RevBound(<<ZSCORE, n, from>>, Empty), E, limit), <<ZSCORE>>))
      BY <1>0 DEF ZBackward
    <2>3. RevBound(<<ZSCORE, n, from>>, Empty) = B
      BY <1>0, ThreePrefix DEF RevBound, ZSCORE
    <2> HIDE DEF T, B, E
    <2>4. Returns(Final(While(RevIterated(B, E, limit), <<ZSCORE>>)), limit, Reverse(Ranked(z, T)))
      BY <1>0, <2>1, RankedBackward
    <2>5. QED
      BY <2>2, <2>3, <2>4 DEF T
  <1>3. QED
    BY <1>1, <1>2

LEMMA ZAheadIs ==
    ASSUME Stored, NEW n \in ZNames, NEW z, Indexed(n, z), NEW limit \in Nat,
           NEW c \in Keys, NEW from \in Scores
    PROVE  Returns(ZBackward(n, c, from, Nothing, limit), limit,
                   Reverse(Ranked(z, {k \in DOMAIN z : z[k] < from \/ (z[k] = from /\ k < c)})))
  <1>0. /\ n \in Int /\ ScoreMin \in Int /\ ScoreMax \in Int
        /\ \A score \in Scores : score \in Int /\ score # Nothing
    BY ScoreNumbers
  <1> DEFINE S == Ahead(z, ScoreMin, from, c)
             T == {k \in DOMAIN z : z[k] < from \/ (z[k] = from /\ k < c)}
             B == <<ZSCORE, n, from, c>>
             E == <<ZSCORE, n, ScoreMin>>
  <1>1. c \in Int /\ c # Empty /\ from \in Int /\ from # Nothing
    BY <1>0, SsdbAssumption DEF Empty
  <1>2. S = T
    <2>1. \A k \in DOMAIN z : z[k] \in ScoreMin .. ScoreMax
      BY DEF Indexed
    <2>2. \A k \in DOMAIN z : z[k] >= ScoreMin
      BY <1>0, <2>1
    <2>3. QED
      BY <2>2 DEF Ahead
  <1>3. ZBackward(n, c, from, Nothing, limit)
          = Final(While(RevIterated(Append(<<ZSCORE, n, from>>, c), E, limit), <<ZSCORE>>))
    BY <1>1 DEF ZBackward, RevBound
  <1>4. Append(<<ZSCORE, n, from>>, c) = B
    BY ThreePrefix
  <1>5. SpansDown(n, z, S, B, E)
    BY <1>0, <1>1, DownBounds
  <1> HIDE DEF S, T, B, E
  <1>6. Returns(Final(While(RevIterated(B, E, limit), <<ZSCORE>>)), limit, Reverse(Ranked(z, T)))
    BY <1>0, <1>2, <1>5, RankedBackward
  <1>7. QED
    BY <1>3, <1>4, <1>6 DEF T

\* A list no longer than the store, as returned up to that many, and a part
\* of one.
LEMMA ReturnsAll ==
    ASSUME NEW s, NEW t \in Seq(Int), NEW N \in Nat, Len(t) <= N,
           s = SubSeq(t, 1, Min({N, Len(t)}))
    PROVE  s = t
  <1>1. Len(t) \in Nat
    BY LenProperties
  <1>2. /\ s \in Seq(Int) /\ Len(s) = (IF N <= Len(t) THEN N ELSE Len(t))
        /\ \A i \in 1 .. Len(s) : s[i] = t[i]
    BY LimitKeeps
  <1>3. N \in Nat /\ Len(t) <= N
    OBVIOUS
  <1>4. Len(s) = Len(t)
    BY ONLY <1>1, <1>2, <1>3
  <1>5. QED
    BY <1>2, <1>4, SeqEqual

LEMMA MinOfTwo ==
    ASSUME NEW a \in Int, NEW b \in Int
    PROVE  Min({a, b}) = IF a <= b THEN a ELSE b
  <1> DEFINE m == IF a <= b THEN a ELSE b
  <1>1. \A q \in {a, b} : (\A j \in {a, b} : q =< j) <=> q = m
    OBVIOUS
  <1>2. QED
    BY <1>1 DEF Min

LEMMA ReturnsPart ==
    ASSUME NEW s, NEW t \in Seq(Int), NEW offset \in Nat, NEW limit \in Nat,
           s = SubSeq(t, 1, Min({offset + limit, Len(t)}))
    PROVE  Skip(s, offset) = Part(t, offset, limit)
  <1> DEFINE N == offset + limit
             m == IF N <= Len(t) THEN N ELSE Len(t)
             u == SubSeq(s, offset + 1, m)
             v == SubSeq(t, offset + 1, m)
             l == IF offset + 1 <= m THEN m - (offset + 1) + 1 ELSE 0
  <1>1. Len(t) \in Nat /\ N \in Nat /\ m \in Nat /\ m <= Len(t) /\ offset + 1 \in Int
    BY LenProperties
  <1>2. /\ s \in Seq(Int) /\ Len(s) = m /\ \A i \in 1 .. m : s[i] = t[i]
    BY <1>1, LimitKeeps
  <1>3. Min({N, Len(t)}) = m
    BY <1>1, MinOfTwo
  <1> HIDE DEF N, m
  <1>4. \A i \in offset + 1 .. m : i \in 1 .. m /\ s[i] \in Int /\ t[i] \in Int /\ s[i] = t[i]
    <2>1. \A i \in offset + 1 .. m : i \in 1 .. m /\ i \in 1 .. Len(t)
      BY <1>1
    <2>2. \A i \in 1 .. Len(t) : t[i] \in Int
      BY ElementOfSeq
    <2>3. QED
      BY <1>2, <2>1, <2>2
  <1>5. /\ u \in Seq(Int) /\ Len(u) = l
        /\ \A i \in 1 .. m - (offset + 1) + 1 : u[i] = s[offset + 1 + i - 1]
    <2> DEFINE b == offset + 1
    <2>1. b \in Int /\ m \in Int /\ \A i \in b .. m : s[i] \in Int
      BY ONLY <1>1, <1>4
    <2> HIDE DEF b
    <2>2. /\ SubSeq(s, b, m) \in Seq(Int)
          /\ Len(SubSeq(s, b, m)) = IF b <= m THEN m - b + 1 ELSE 0
          /\ \A i \in 1 .. m - b + 1 : SubSeq(s, b, m)[i] = s[b + i - 1]
      BY ONLY <2>1, SubSeqProperties
    <2>3. QED
      BY <2>2 DEF b
  <1>6. /\ v \in Seq(Int) /\ Len(v) = l
        /\ \A i \in 1 .. m - (offset + 1) + 1 : v[i] = t[offset + 1 + i - 1]
    BY <1>1, <1>4, SubSeqProperties
  <1> HIDE DEF u, v
  <1>7. \A i \in 1 .. l : i \in 1 .. m - (offset + 1) + 1 /\ offset + 1 + i - 1 \in offset + 1 .. m
    BY <1>1
  <1> HIDE DEF l
  <1>8. u = v
    BY <1>4, <1>5, <1>6, <1>7, SeqEqual
  <1>9. QED
    BY <1>2, <1>3, <1>8 DEF u, v, N, Skip, Part

LEMMA RankedSeq ==
    ASSUME NEW n, NEW z, Indexed(n, z), NEW T, T \subseteq DOMAIN z
    PROVE  Ranked(z, T) \in Seq(Int) /\ Reverse(Ranked(z, T)) \in Seq(Int)
  <1> DEFINE r == Ranked(z, T)
  <1>1. \A k \in T : k \in Int /\ 0 < k /\ k < Top /\ z[k] \in Int
    BY DEF Indexed
  <1>2. T \subseteq 1 .. Top - 1
    BY <1>1 DEF Top
  <1>3. IsFiniteSet(T) /\ T \subseteq Int
    BY <1>2, NamesFinite
  <1>4. r \in Seq(T)
    BY <1>1, <1>3, RankedIs DEF Enumerates
  <1> HIDE DEF r
  <1>5. Len(r) \in Nat /\ DOMAIN r = 1 .. Len(r) /\ \A i \in 1 .. Len(r) : r[i] \in Int
    BY <1>3, <1>4, LenProperties, ElementOfSeq
  <1>6. r \in Seq(Int)
    BY <1>3, <1>4, <1>5, SeqDef
  <1>7. \A i \in 1 .. Len(r) : Len(r) - i + 1 \in 1 .. Len(r)
    BY <1>5
  <1>8. Reverse(r) \in [1 .. Len(r) -> Int]
    BY <1>5, <1>7 DEF Reverse
  <1>9. QED
    BY <1>5, <1>6, <1>8, SeqDef DEF r

LEMMA ZReads ==
    ASSUME IInv, LogRight, LegalDb(db), NEW n \in ZNames, <<ZSET, n>> \notin misread
    PROVE  ZsetReads(n)
  <1> DEFINE all == Cardinality(DOMAIN db)
             z == Zset(db, n)
             within(from, to) == {k \in DOMAIN z : z[k] >= from /\ z[k] <= to}
             behind(k, from) == {j \in DOMAIN z : z[j] > from \/ (z[j] = from /\ j > k)}
             before(k, from) == {j \in DOMAIN z : z[j] < from \/ (z[j] = from /\ j < k)}
             up == Ranked(z, DOMAIN z)
             down == Reverse(up)
             place(s, k) == IF k \in Range(s) THEN (CHOOSE i \in DOMAIN s : s[i] = k) - 1
                            ELSE -1
  <1>1. Stored
    BY StoredKeys DEF IInv
  <1>2. Indexed(n, z)
    BY IndexedRight
  <1>3. all \in Nat
    BY <1>1, FS_CardinalityType DEF Stored
  <1> HIDE DEF z
  <1>4. up \in Seq(Int) /\ down \in Seq(Int)
    BY <1>2, RankedSeq
  <1>5. ASSUME NEW from \in Scores, NEW to \in Scores
        PROVE  Ranked(z, within(from, to)) \in Seq(Int) /\ Reverse(Ranked(z, within(from, to))) \in Seq(Int)
    <2>1. within(from, to) \subseteq DOMAIN z
      OBVIOUS
    <2> HIDE DEF within
    <2>2. QED
      BY <1>2, <2>1, RankedSeq
  <1>6. ASSUME NEW limit \in Nat
        PROVE  /\ Returns(ZForward(n, Empty, Nothing, Nothing, limit), limit, up)
               /\ ScoreMax \notin Range(z) =>
                     Returns(ZBackward(n, Empty, Nothing, Nothing, limit), limit, down)
    <2>1. Returns(ZForward(n, Empty, Nothing, Nothing, limit), limit, up)
      BY <1>1, <1>2, ZForwardIs
    <2>2. Returns(ZBackward(n, Empty, Nothing, Nothing, limit), limit,
                  Reverse(Ranked(z, {k \in DOMAIN z : z[k] < ScoreMax})))
      BY <1>1, <1>2, ZBackwardIs
    <2>3. ScoreMax \notin Range(z) => {k \in DOMAIN z : z[k] < ScoreMax} = DOMAIN z
      <3>1. \A k \in DOMAIN z : z[k] \in Int /\ z[k] <= ScoreMax
        BY <1>2, ScoreNumbers DEF Indexed
      <3>2. ScoreMax \in Int /\ (ScoreMax \notin Range(z) => \A k \in DOMAIN z : z[k] # ScoreMax)
        BY ScoreNumbers DEF Range
      <3>3. QED
        BY <3>1, <3>2
    <2>4. QED
      BY <2>1, <2>2, <2>3
  <1>7. ASSUME NEW limit \in Nat, NEW from \in Scores, NEW to \in Scores
        PROVE  /\ Returns(ZForward(n, Empty, from, to, limit), limit, Ranked(z, within(from, to)))
               /\ Returns(ZBackward(n, Empty, from, to, limit), limit, Reverse(Ranked(z, within(to, from))))
    BY <1>1, <1>2, ZForwardIs, ZBackwardIs
  <1> HIDE DEF up, down, within
  <1>8. /\ ZForward(n, Empty, Nothing, Nothing, all) = up
        /\ ScoreMax \notin Range(z) => ZBackward(n, Empty, Nothing, Nothing, all) = down
    BY <1>3, <1>4, <1>6, ReturnsAll DEF Returns
  <1>9. \A s, k : Rank(k, s) = place(s, k)
    BY DEF Rank, Range
  <1>10. \A k \in Keys : /\ ZRank(n, k) = place(up, k)
                         /\ ScoreMax \notin Range(z) => ZRRank(n, k) = place(down, k)
    <2> HIDE DEF place
    <2>1. QED
      BY <1>8, <1>9 DEF ZRank, ZRRank
  <1>11. ASSUME NEW offset \in 0 .. 1, NEW limit \in 1 .. 2
         PROVE  /\ ZRange(n, offset, limit) = Part(up, offset, limit)
                /\ ScoreMax \notin Range(z) => ZRRange(n, offset, limit) = Part(down, offset, limit)
    <2>1. offset \in Nat /\ limit \in Nat /\ offset + limit \in Nat
      OBVIOUS
    <2> DEFINE s == ZForward(n, Empty, Nothing, Nothing, offset + limit)
               t == ZBackward(n, Empty, Nothing, Nothing, offset + limit)
    <2>2. /\ s = SubSeq(up, 1, Min({offset + limit, Len(up)}))
          /\ ScoreMax \notin Range(z) => t = SubSeq(down, 1, Min({offset + limit, Len(down)}))
      BY <1>6, <2>1 DEF Returns
    <2> HIDE DEF s, t
    <2>3. Skip(s, offset) = Part(up, offset, limit)
      BY <1>4, <2>1, <2>2, ReturnsPart
    <2>4. ScoreMax \notin Range(z) => Skip(t, offset) = Part(down, offset, limit)
      BY <1>4, <2>1, <2>2, ReturnsPart
    <2>5. QED
      BY <2>3, <2>4 DEF s, t, ZRange, ZRRange
  <1>12. ASSUME NEW from \in Scores, NEW to \in Scores
         PROVE  /\ ZScan(n, Empty, from, to, all) = Ranked(z, within(from, to))
                /\ ZRScan(n, Empty, from, to, all) = Reverse(Ranked(z, within(to, from)))
    <2> DEFINE u == Ranked(z, within(from, to))
               d == Reverse(Ranked(z, within(to, from)))
               s == ZForward(n, Empty, from, to, all)
               t == ZBackward(n, Empty, from, to, all)
    <2>1. u \in Seq(Int) /\ d \in Seq(Int)
      BY <1>5
    <2>2. Returns(s, all, u) /\ Returns(t, all, d)
      BY <1>3, <1>7
    <2>3. ZScan(n, Empty, from, to, all) = s /\ ZRScan(n, Empty, from, to, all) = t
      BY DEF ZScan, ZRScan
    <2> HIDE DEF u, d, s, t
    <2>4. s = u
      BY <1>3, <2>1, <2>2, ReturnsAll DEF Returns
    <2>5. t = d
      BY <1>3, <2>1, <2>2, ReturnsAll DEF Returns
    <2>6. QED
      BY <2>3, <2>4, <2>5 DEF u, d
  <1>13. ASSUME NEW k \in Keys, NEW from \in Scores
         PROVE  /\ ZScan(n, k, from, Nothing, all) = Ranked(z, behind(k, from))
                /\ ZRScan(n, k, from, Nothing, all) = Reverse(Ranked(z, before(k, from)))
    <2> DEFINE u == Ranked(z, behind(k, from))
               d == Reverse(Ranked(z, before(k, from)))
               s == ZForward(n, k, from, Nothing, all)
               t == ZBackward(n, k, from, Nothing, all)
    <2>1. u \in Seq(Int) /\ d \in Seq(Int)
      <3>1. behind(k, from) \subseteq DOMAIN z /\ before(k, from) \subseteq DOMAIN z
        OBVIOUS
      <3> HIDE DEF behind, before
      <3>2. QED
        BY <1>2, <3>1, RankedSeq
    <2>2. Returns(s, all, u)
      BY <1>1, <1>2, <1>3, ZBehindIs
    <2>3. Returns(t, all, d)
      BY <1>1, <1>2, <1>3, ZAheadIs
    <2>4. ZScan(n, k, from, Nothing, all) = s /\ ZRScan(n, k, from, Nothing, all) = t
      BY DEF ZScan, ZRScan
    <2> HIDE DEF u, d, s, t
    <2>5. s = u
      BY <1>3, <2>1, <2>2, ReturnsAll DEF Returns
    <2>6. t = d
      BY <1>3, <2>1, <2>3, ReturnsAll DEF Returns
    <2>7. QED
      BY <2>4, <2>5, <2>6 DEF u, d
  <1> HIDE DEF all
  <1>14. QED
    BY <1>10, <1>11, <1>12, <1>13 DEF ZsetReads, all, z, within, behind, before, up, down, place

LEMMA NamesRead ==
    ASSUME Stored, NEW type, NEW S, Grouped(<<type>>, S)
    PROVE  NamesRight(type, S)
  <1>1. Cardinality(DOMAIN db) \in Nat
    BY FS_CardinalityType DEF Stored
  <1>2. \A b \in Bounds : b[1] \in Int /\ b[2] \in Nat
    BY SsdbAssumption
  <1>3. ASSUME NEW start \in Int, NEW end \in Nat, NEW limit \in Nat
        PROVE  /\ List(type, start, end, limit) = Between(S, start, end, limit)
               /\ RList(type, start, end, limit) = DownBetween(S, start, end, limit)
    <2>1. end \in Int
      OBVIOUS
    <2>2. QED
      BY <2>1, GroupForward, GroupBackward DEF List, RList
  <1>4. S \subseteq 1 .. Top - 1
    BY DEF Grouped
  <1>5. /\ FirstOf(type) = Between(S, Empty, Empty, 1)
        /\ LastOf(type) = DownBetween(S, Top, Empty, 1)
    <2>1. Empty \in Nat /\ Empty \in Int /\ Top \in Int /\ 1 \in Nat
      BY DEF Empty, Top
    <2>2. QED
      BY <1>3, <2>1 DEF FirstOf, LastOf
  <1>6. /\ FirstOf(type) = (IF S = {} THEN <<>> ELSE <<Min(S)>>)
        /\ LastOf(type) = (IF S = {} THEN <<>> ELSE <<Max(S)>>)
    BY <1>4, <1>5, OneOf
  <1>7. QED
    <2> DEFINE all == Cardinality(DOMAIN db)
    <2>1. \A b \in Bounds :
             /\ List(type, b[1], b[2], all) = Between(S, b[1], b[2], all)
             /\ RList(type, b[1], b[2], all) = DownBetween(S, b[1], b[2], all)
      BY <1>1, <1>2, <1>3
    <2>2. QED
      BY <1>6, <2>1 DEF NamesRight

LEMMA KeyReads ==
    ASSUME Stored, WellFormed(db), LegalDb(db), NEW b \in Bounds, NEW limit \in Nat
    PROVE  KeysRight(b, limit, DOMAIN Kv(db))
  <1>1. b[1] \in Int /\ b[2] \in Int /\ b[2] \in Nat
    BY SsdbAssumption
  <1>2. Grouped(<<KV>>, DOMAIN Kv(db))
    BY KvGroup
  <1>3. Scan(b[1], b[2], limit) = Between(DOMAIN Kv(db), b[1], b[2], limit)
    BY <1>1, <1>2, GroupForward DEF Scan
  <1>4. RScan(b[1], b[2], limit) = DownBetween(DOMAIN Kv(db), b[1], b[2], limit)
    BY <1>1, <1>2, GroupBackward DEF RScan
  <1>5. QED
    BY <1>3, <1>4 DEF KeysRight

LEMMA FieldReads ==
    ASSUME Stored, WellFormed(db), LegalDb(db), NEW b \in Bounds, NEW limit \in Nat, NEW n \in HNames
    PROVE  FieldsRight(n, b, limit, DOMAIN Hash(db, n))
  <1>1. b[1] \in Int /\ b[2] \in Int /\ b[2] \in Nat
    BY SsdbAssumption
  <1>2. Grouped(<<HASH, n>>, DOMAIN Hash(db, n))
    BY HashGroup
  <1>3. HScan(n, b[1], b[2], limit) = Between(DOMAIN Hash(db, n), b[1], b[2], limit)
    BY <1>1, <1>2, GroupForward DEF HScan
  <1>4. HRScan(n, b[1], b[2], limit) = DownBetween(DOMAIN Hash(db, n), b[1], b[2], limit)
    BY <1>1, <1>2, GroupBackward DEF HRScan
  <1>5. QED
    BY <1>3, <1>4 DEF FieldsRight

LEMMA RangesFollow == IInv /\ LogRight /\ StoreLegal => RangesRight
  <1> SUFFICES ASSUME IInv, LogRight, StoreLegal PROVE RangesRight
    OBVIOUS
  <1>1. WellFormed(db) /\ LegalDb(db)
    BY DEF IInv, StoreLegal
  <1>2. Stored
    BY <1>1, StoredKeys
  <1> DEFINE all == Cardinality(DOMAIN db)
             scans == {scan \in Bounds \X {1, all} : scan[2] = all \/ scan[1][2] = Empty}
  <1>3. \A scan \in scans : scan[1] \in Bounds /\ scan[2] \in Nat
    BY <1>2, FS_CardinalityType DEF Stored
  <1> HIDE DEF scans
  <1>4. /\ \A scan \in scans : KeysRight(scan[1], scan[2], DOMAIN Kv(db))
        /\ \A n \in HNames, scan \in scans : FieldsRight(n, scan[1], scan[2], DOMAIN Hash(db, n))
    BY <1>1, <1>2, <1>3, KeyReads, FieldReads
  <1>5. misread = {} => /\ NamesRight(HSIZE, {n \in HNames : Hash(db, n) # <<>>})
                        /\ NamesRight(ZSIZE, {n \in ZNames : Zset(db, n) # <<>>})
    BY <1>1, <1>2, HSizeGroup, ZSizeGroup, NamesRead
  <1>6. orphaned = {} => NamesRight(QSIZE, {n \in QNames : Queue(db, n) # <<>>})
    BY <1>1, <1>2, QSizeGroup, NamesRead
  <1>7. \A n \in {m \in ZNames : <<ZSET, m>> \notin misread} : ZsetReads(n)
    BY <1>1, ZReads
  <1>8. QED
    BY <1>4, <1>5, <1>6, <1>7 DEF RangesRight, scans, all

\* What a scan, a list, a rank or a range returns is what the entries say, up
\* to its bounds and limit and never an entry of a neighbour in the store, and
\* backwards as well as forwards: the iterators of iterator.cpp stop at the
\* first key of another type or name, and the index of a sorted set lists its
\* entries by score and key. The lists of hashes and of sorted sets hold while
\* none was written after a failed read, that of queues while qset_by_seq wrote
\* behind none, the reads of a sorted set while it was not written after a
\* failed read, and its ranks and ranges from the end while no entry has the
\* largest score (RangesRight).
THEOREM RangesHold == Spec => []RangesRight
  <1>1. IInv /\ LogRight /\ StoreLegal => RangesRight
    BY RangesFollow
  <1>2. QED
    BY <1>1, StoreRight, RecordsRight, KeysLegal, PTL

=============================================================================
