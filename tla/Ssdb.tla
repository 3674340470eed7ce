-------------------------------- MODULE Ssdb --------------------------------
(***************************************************************************)
(* SSDB, the data structure server the wallet embeds (src/ssdb/ssdb/ssdb): *)
(* plain values, hashes, sorted sets and queues laid out over the keys of  *)
(* one LevelDB, with counters, a score index, and the binlog with its      *)
(* cleaning thread.                                                        *)
(*                                                                         *)
(* A write holds the mutex of the binlog from begin to commit and reaches  *)
(* the store in one batch, so an operation is one step; hclear and the     *)
(* cleaning thread take several. A scan, list, rank or range is what one   *)
(* iterator, and so one snapshot of LevelDB, returns. A key of the store   *)
(* is a tuple, its type byte first; tuples compare element by element, as  *)
(* the encoded bytes do.                                                   *)
(***************************************************************************)
EXTENDS Integers, Sequences, FiniteSets, FiniteSetsExt, SequencesExt, Functions, TLC

CONSTANTS
    Nothing,        \* no cleaning, clearing, item or score
    HNames,         \* names of hashes: numbers from 1
    ZNames,         \* names of sorted sets: numbers from 1
    QNames,         \* names of queues: numbers from 1
    Keys,           \* keys in them, and of plain values: numbers from 1
    Values,         \* values: numbers, and Text
    Text,           \* a value that is not a number
    Scores,         \* scores, 0 among them
    ScoreMin,       \* SSDB_SCORE_MIN
    ScoreMax,       \* SSDB_SCORE_MAX
    QMin,           \* QITEM_MIN_SEQ
    QInit,          \* QITEM_SEQ_INIT
    QMax,           \* QITEM_MAX_SEQ
    Capacity,       \* binlog_capacity
    CleanSlack,     \* the 10000 of log_clean_thread_func
    Chunk,          \* the 1000 of del_range
    ClearBatch,     \* the 1000 of hclear
    MaxEntries,     \* bound: entries and failures, without and with the binlog
    MaxLogs,        \* bound: the last binlog number
    Pairs,          \* what multi_set is given: pairs of keys and values
    Indexes,        \* places in a queue, from its front or its back
    Bounds,         \* starts and ends of the scans that are compared
    MaxCleared,     \* bound: entries one hclear deletes
    MaxErrors       \* bound: failed reads and writes

Empty   == 0            \* the empty name, and the start or end of no scan
TooLong == -1           \* a name longer than SSDB_KEY_LEN_MAX
Top     == 255          \* the byte appended to begin behind every name

ASSUME SsdbAssumption ==
    /\ HNames \cup ZNames \cup QNames \cup Keys \subseteq Nat \ {0}
    /\ {ScoreMin, ScoreMax} \subseteq Int /\ Scores \subseteq ScoreMin .. ScoreMax /\ 0 \in Scores
    /\ {QMin, QInit, QMax} \subseteq Nat /\ 4 < QMin /\ QMin < QInit /\ QInit < QMax
    /\ Pairs \subseteq Seq((Keys \cup {Empty, TooLong}) \X Values) /\ Indexes \subseteq Int
    /\ Bounds \subseteq Nat \X Nat
    /\ {Capacity, Chunk, ClearBatch} \subseteq Nat \ {0} /\ {CleanSlack, MaxLogs} \subseteq Nat
    /\ Nothing \notin [start : Int, end : Int] \cup Scores

\* Names and keys are texts in UTF-8, which has no byte 255.
ASSUME TextAssumption ==
    \A name \in HNames \cup ZNames \cup QNames \cup Keys : name < Top

VARIABLES
    enabled,    \* Options::binlog, false where no configuration is read
    db,         \* the store: from keys to values
    min,        \* min_seq_
    last,       \* last_seq
    cleaning,   \* what the cleaning thread deletes
    clearing,   \* an hclear under way
    answer,     \* what the operation of the last step returned
    misread,    \* the hashes and sorted sets written after a failed read
    orphaned,   \* the queues qset_by_seq wrote behind the last entry of
    errors      \* failed reads and writes so far

vars == <<enabled, db, min, last, cleaning, clearing, answer,
          misread, orphaned, errors>>

\* The answer of a step that is no operation, or not the last of one.
NoAnswer == [call |-> <<>>, ret |-> 0, item |-> Nothing, sure |-> FALSE]

-----------------------------------------------------------------------------
(* The keys of the store.                                                  *)

SYNCLOG == 1
HSIZE   == 72
QSIZE   == 81
ZSIZE   == 90
HASH    == 104
KV      == 107
QUEUE   == 113
ZSET    == 115
ZSCORE  == 122

SeqKey(seq)            == <<SYNCLOG, seq>>
KvKey(k)               == <<KV, k>>
HashKey(n, k)          == <<HASH, n, k>>
HSizeKey(n)            == <<HSIZE, n>>
ZsetKey(n, k)          == <<ZSET, n, k>>
ZscoreKey(n, k, score) == <<ZSCORE, n, score, k>>
ZSizeKey(n)            == <<ZSIZE, n>>
QItemKey(n, seq)       == <<QUEUE, n, seq>>
QSizeKey(n)            == <<QSIZE, n>>
QFRONT == 2
QBACK  == 3

\* Bytes compare byte by byte, and a prefix comes first.
Less(a, b) ==
    \E i \in 1 .. Len(b) :
        /\ i = Len(a) + 1 \/ (i <= Len(a) /\ a[i] < b[i])
        /\ \A j \in 1 .. i - 1 : j <= Len(a) /\ a[j] = b[j]

Of(d, type) == {x \in DOMAIN d : x[1] = type}

-----------------------------------------------------------------------------
(* What the keys stand for, and the counters that belong to it.            *)

Kv(d)      == [k \in {x[2] : x \in Of(d, KV)} |-> d[KvKey(k)]]
Hash(d, n) == [k \in {x[3] : x \in {y \in Of(d, HASH) : y[2] = n}} |-> d[HashKey(n, k)]]
Zset(d, n) == [k \in {x[3] : x \in {y \in Of(d, ZSET) : y[2] = n}} |-> d[ZsetKey(n, k)]]
Queue(d, n) ==
    IF QItemKey(n, QFRONT) \notin DOMAIN d THEN <<>>
    ELSE LET front == d[QItemKey(n, QFRONT)]
             held  == front .. d[QItemKey(n, QBACK)]
         IN [i \in 1 .. Cardinality(held) |->
                LET x == QItemKey(n, front + i - 1)
                IN IF x \in DOMAIN d THEN d[x] ELSE Nothing]

Contents(d) == [kv    |-> Kv(d),
                hash  |-> [n \in HNames |-> Hash(d, n)],
                zset  |-> [n \in ZNames |-> Zset(d, n)],
                queue |-> [n \in QNames |-> Queue(d, n)]]

\* The entries that are not counters, positions, index or binlog.
Primary(d) == {x \in DOMAIN d : \/ x[1] \in {KV, HASH, ZSET}
                                \/ x[1] = QUEUE /\ x[3] \notin {QFRONT, QBACK}}

-----------------------------------------------------------------------------
(* Transactions.  A batch is applied in order, the last write of a key     *)
(* wins.  A read that fails (f names it) answers -1; a write that fails    *)
(* leaves everything as it was.                                            *)

Put(x, v) == [key |-> x, keep |-> TRUE, value |-> v]
Delete(x) == [key |-> x, keep |-> FALSE]
Log(cmd, x) == [cmd |-> cmd, key |-> x]

Applied(batch) ==
    LET written == {batch[i].key : i \in DOMAIN batch}
        final(x) == batch[Max({i \in DOMAIN batch : batch[i].key = x})]
        held == {x \in DOMAIN db \cup written : x \in written => final(x).keep}
    IN [x \in held |-> IF x \in written THEN final(x).value ELSE db[x]]

\* add_log: numbered from last_seq, and nothing without a binlog.
AddLogs(logs) ==
    IF enabled THEN [i \in DOMAIN logs |-> Put(SeqKey(last + i), logs[i])] ELSE <<>>

\* What a body of a transaction comes to: it commits a batch, or it returns
\* before commit and the batch is dropped.
Commit(batch, logs, ret) ==
    [commits |-> TRUE, batch |-> batch, logs |-> logs, ret |-> ret,
     item |-> Nothing, misread |-> {}]

Return(ret) ==
    [commits |-> FALSE, batch |-> <<>>, logs |-> <<>>, ret |-> ret,
     item |-> Nothing, misread |-> {}]

\* No fault, or one of these.
Faults(these) == {"none"} \cup (IF errors < MaxErrors THEN these ELSE {})

Changed == {x \in DOMAIN db \cup DOMAIN db' :
                \/ x \notin DOMAIN db \/ x \notin DOMAIN db'
                \/ db[x] # db'[x]}

\* An hclear under way learns that its hash changed.
Noticed ==
    IF clearing # Nothing /\ \E x \in Changed : x[1] = HASH /\ x[2] = clearing.name
    THEN [clearing EXCEPT !.moved = TRUE, !.held = 0] ELSE clearing

Transact(call, o, f) ==
    LET written == o.commits /\ f # "write"
        batch   == o.batch \o AddLogs(o.logs)
    IN /\ db' = IF written THEN Applied(batch) ELSE db
       /\ last' = IF written THEN last + Len(AddLogs(o.logs)) ELSE last
       /\ misread' = IF written THEN misread \cup o.misread ELSE misread
       /\ answer' = [call |-> call, item |-> o.item,
                     ret |-> IF o.commits /\ ~written THEN -1 ELSE o.ret,
                     sure |-> TRUE]
       /\ errors' = IF f = "none" THEN errors ELSE errors + 1
       /\ Cardinality(Primary(db')) + errors' <= MaxEntries[enabled]
       /\ last' <= MaxLogs
       /\ UNCHANGED <<enabled, min, cleaning>>

\* (Of what runs beside an hclear only hset and hdel are looked at: hincr writes
\* what hset may, and the others share no key with it.)
Operation(call, o, f) ==
    /\ clearing = Nothing \/ call[1] \in {"hset", "hdel"}
    /\ Transact(call, o, f)
    /\ clearing' = Noticed
    /\ UNCHANGED orphaned

-----------------------------------------------------------------------------
(* Reads.                                                                  *)

\* get, hget, zget, qget_by_seq: 1 found, 0 not found, -1 error.
Found(x, failed) == IF failed THEN -1 ELSE IF x \in DOMAIN db THEN 1 ELSE 0

\* hsize and zsize: a negative counter reads as 0.
Size(x, failed) ==
    IF failed THEN -1 ELSE IF x \in DOMAIN db THEN Max({0, db[x]}) ELSE 0

Sorted(S, Before(_, _)) ==
    [i \in 1 .. Cardinality(S) |->
        CHOOSE x \in S : Cardinality({y \in S : Before(y, x)}) = i - 1]

\* An iterator that starts behind start and ends at end; the empty end is
\* none.
Iterated(start, end, limit) ==
    LET inside == {x \in DOMAIN db : Less(start, x) /\ (end = <<>> \/ ~Less(end, x))}
        sorted == Sorted(inside, Less)
    IN SubSeq(sorted, 1, Min({limit, Len(sorted)}))

RevIterated(start, end, limit) ==
    LET inside == {x \in DOMAIN db : Less(x, start) /\ (end = <<>> \/ ~Less(x, end))}
        sorted == Sorted(inside, LAMBDA x, y : Less(y, x))
    IN SubSeq(sorted, 1, Min({limit, Len(sorted)}))

\* KIterator, HIterator and get_hnames stop at the first key of another type
\* or name.
While(s, prefix) ==
    SubSeq(s, 1, Max({p \in 0 .. Len(s) : \A i \in 1 .. p : IsPrefix(prefix, s[i])}))

Bound(prefix, k) == IF k = Empty THEN prefix ELSE Append(prefix, k)
EndBound(prefix, k) == IF k = Empty THEN <<>> ELSE Append(prefix, k)

\* Mutated: a scan from no key begins like one forwards.
RevBoundPlain(prefix, k) == IF k = Empty THEN prefix ELSE Append(prefix, k)

RevBound(prefix, k) == IF k = Empty THEN Append(prefix, Top) ELSE Append(prefix, k)


Final(s) == [i \in DOMAIN s |-> s[i][Len(s[i])]]

Scan(start, end, limit) ==
    Final(While(Iterated(Bound(<<KV>>, start), EndBound(<<KV>>, end), limit),
               <<KV>>))

RScan(start, end, limit) ==
    Final(While(RevIterated(RevBound(<<KV>>, start), EndBound(<<KV>>, end), limit),
               <<KV>>))

HScan(n, start, end, limit) ==
    Final(While(Iterated(Bound(<<HASH, n>>, start), EndBound(<<HASH, n>>, end), limit),
               <<HASH, n>>))

HRScan(n, start, end, limit) ==
    Final(While(RevIterated(RevBound(<<HASH, n>>, start), EndBound(<<HASH, n>>, end), limit),
               <<HASH, n>>))

\* hlist, zlist and qlist go by the size counters.
List(type, start, end, limit) ==
    Final(While(Iterated(Bound(<<type>>, start), EndBound(<<type>>, end), limit),
               <<type>>))

RList(type, start, end, limit) ==
    Final(While(RevIterated(RevBound(<<type>>, start), EndBound(<<type>>, end), limit),
               <<type>>))

\* ziterator; Nothing is the score not given.
ZForward(n, k, from, to, limit) ==
    LET start == Bound(<<ZSCORE, n, IF from = Nothing THEN ScoreMin ELSE from>>, k)
        end   == <<ZSCORE, n, IF to = Nothing THEN ScoreMax ELSE to, Top>>
    IN Final(While(Iterated(start, end, limit), <<ZSCORE>>))

ZBackward(n, k, from, to, limit) ==
    LET start == IF from = Nothing THEN Bound(<<ZSCORE, n, ScoreMax>>, k)
                              ELSE RevBound(<<ZSCORE, n, from>>, k)
        end   == <<ZSCORE, n, IF to = Nothing THEN ScoreMin ELSE to>>
    IN Final(While(RevIterated(start, end, limit), <<ZSCORE>>))

\* zscan and zrscan. When a key is given without a score, from is the score a
\* zget found just before, a read of its own, whatever has been written since.
ZScan(n, k, from, to, limit)  == ZForward(n, k, from, to, limit)
ZRScan(n, k, from, to, limit) == ZBackward(n, k, from, to, limit)

\* zrank and zrrank: how many come before k, -1 if it is not there.
Rank(k, s) == IF \E i \in DOMAIN s : s[i] = k
              THEN (CHOOSE i \in DOMAIN s : s[i] = k) - 1 ELSE -1

ZRank(n, k)  == Rank(k, ZForward(n, Empty, Nothing, Nothing, Cardinality(DOMAIN db)))
ZRRank(n, k) == Rank(k, ZBackward(n, Empty, Nothing, Nothing, Cardinality(DOMAIN db)))

Skip(s, offset) == SubSeq(s, offset + 1, Len(s))

ZRange(n, offset, limit)  == Skip(ZForward(n, Empty, Nothing, Nothing, offset + limit), offset)
ZRRange(n, offset, limit) == Skip(ZBackward(n, Empty, Nothing, Nothing, offset + limit), offset)

\* key_range: the first and last key or name of one type.
FirstOf(type) == List(type, Empty, Empty, 1)
LastOf(type)  == RList(type, Top, Empty, 1)

-----------------------------------------------------------------------------
(* Plain values.                                                           *)

Named == Keys \cup {Empty, TooLong}

\* multi_set gives up at the first key refused, and writes nothing.
MultiSet(kvs) ==
    IF \E i \in DOMAIN kvs : kvs[i][1] \in {Empty, TooLong} THEN Return(0)
    ELSE Commit([i \in DOMAIN kvs |-> Put(KvKey(kvs[i][1]), kvs[i][2])],
                [i \in DOMAIN kvs |-> Log("KSET", KvKey(kvs[i][1]))], Len(kvs))

KvMultiSet ==
    \E kvs \in Pairs, f \in Faults({"write"}) :
        Operation(<<"multi_set", kvs>>, MultiSet(kvs), f)

MultiDel(ks) ==
    Commit([i \in DOMAIN ks |-> Delete(KvKey(ks[i]))],
           [i \in DOMAIN ks |-> Log("KDEL", KvKey(ks[i]))], Len(ks))

KvMultiDel ==
    \E k1, k2 \in Keys, f \in Faults({"write"}) :
        Operation(<<"multi_del", <<k1, k2>>>>, MultiDel(<<k1, k2>>), f)

\* The entry set, setnx, getset and incr write.
Store(k, v, ret) == Commit(<<Put(KvKey(k), v)>>, <<Log("KSET", KvKey(k))>>, ret)

Set(k, v) ==
    IF k = Empty THEN Return(0) ELSE IF k = TooLong THEN Return(-1)
    ELSE Store(k, v, 1)

KvSet == \E k \in Named, v \in Values, f \in Faults({"write"}) :
             Operation(<<"set", k, v>>, Set(k, v), f)

\* Mutated: a key that cannot be read counts as free.
SetnxUnread(k, v, f) ==
    IF k = Empty THEN Return(0) ELSE IF k = TooLong THEN Return(-1)
    ELSE IF Found(KvKey(k), f = "entry") = 1 THEN Return(0)
    ELSE Store(k, v, 1)

\* A key that cannot be read counts as set.
Setnx(k, v, f) ==
    IF k = Empty THEN Return(0) ELSE IF k = TooLong THEN Return(-1)
    ELSE IF Found(KvKey(k), f = "entry") # 0 THEN Return(0)
    ELSE Store(k, v, 1)

KvSetnx == \E k \in Named, v \in Values, f \in Faults({"entry", "write"}) :
               Operation(<<"setnx", k, v>>, Setnx(k, v, f), f)

\* A failed read is answered, and the new value is stored all the same.
Getset(k, v, f) ==
    LET found == Found(KvKey(k), f = "entry")
    IN IF k = Empty THEN Return(0) ELSE IF k = TooLong THEN Return(-1)
       ELSE [Store(k, v, found) EXCEPT
               !.item = IF found = 1 THEN db[KvKey(k)] ELSE Nothing]

KvGetset == \E k \in Named, v \in Values, f \in Faults({"entry", "write"}) :
                Operation(<<"getset", k, v>>, Getset(k, v, f), f)

Del(k) == IF k = TooLong THEN Return(-1)
          ELSE Commit(<<Delete(KvKey(k))>>, <<Log("KDEL", KvKey(k))>>, 1)

KvDel == \E k \in Keys \cup {TooLong}, f \in Faults({"write"}) :
             Operation(<<"del", k>>, Del(k), f)

\* What incr, hincr and zincr add to.
Addend(x) == IF x \in DOMAIN db THEN db[x] ELSE 0

Incr(k, by, f) ==
    LET x == KvKey(k) IN
    IF k = TooLong \/ f = "entry" THEN Return(-1)
    ELSE IF Addend(x) = Text THEN Return(0)
    ELSE [Store(k, Addend(x) + by, 1) EXCEPT !.item = Addend(x) + by]

\* Overflow is left out: what the sum comes to is among Values.
KvIncr == \E k \in Keys \cup {TooLong}, by \in {-1, 1}, f \in Faults({"entry", "write"}) :
              /\ Addend(KvKey(k)) # Text => Addend(KvKey(k)) + by \in Values
              /\ Operation(<<"incr", k, by>>, Incr(k, by, f), f)

-----------------------------------------------------------------------------
(* Hashes.                                                                 *)

\* incr_hsize and incr_zsize: a size that cannot be read counts as -1.
IncrSize(x, by, f) ==
    LET size == Size(x, f = "size") + by
    IN <<IF size = 0 THEN Delete(x) ELSE Put(x, size)>>

Suspect(type, n, bad) == IF bad THEN {<<type, n>>} ELSE {}

\* Mutated: an entry that was there is written without a record.
HsetOneSilent(n, k, v, failed) ==
    LET x == HashKey(n, k)
        found == Found(x, failed)
        same == found = 1 /\ db[x] = v
    IN [batch |-> IF same THEN <<>> ELSE <<Put(x, v)>>,
        logs |-> IF found # 0 THEN <<>> ELSE <<Log("HSET", x)>>,
        new |-> IF found = 0 THEN 1 ELSE 0]

\* hset_one: the entries written and how many of them are new.  A failed
\* read counts as an entry found with an empty value.
HsetOne(n, k, v, failed) ==
    LET x == HashKey(n, k)
        found == Found(x, failed)
        same == found = 1 /\ db[x] = v
    IN [batch |-> IF same THEN <<>> ELSE <<Put(x, v)>>,
        logs |-> IF same THEN <<>> ELSE <<Log("HSET", x)>>,
        new |-> IF found = 0 THEN 1 ELSE 0]

\* hset, and hincr behind its own read.
HashStored(n, k, v, failed, ret, f) ==
    LET one == HsetOne(n, k, v, failed)
        size == IF one.new > 0 THEN IncrSize(HSizeKey(n), 1, f) ELSE <<>>
    IN [Commit(one.batch \o size, one.logs, ret) EXCEPT
          !.misread = Suspect(HASH, n, failed \/ (f = "size" /\ one.new > 0))]

Hset(n, k, v, f) ==
    IF k \in {Empty, TooLong} THEN Return(-1)
    ELSE HashStored(n, k, v, f = "entry", HsetOne(n, k, v, f = "entry").new, f)

HashSet == \E n \in HNames, k \in Named, v \in Values, f \in Faults({"entry", "size", "write"}) :
               Operation(<<"hset", n, k, v>>, Hset(n, k, v, f), f)

\* hdel_one: a failed read counts as an entry found.
Hdel(n, k, f) ==
    LET x == HashKey(n, k) IN
    IF k = TooLong THEN Return(-1)
    ELSE IF Found(x, f = "entry") = 0 THEN Commit(<<>>, <<>>, 0)
    ELSE [Commit(<<Delete(x)>> \o IncrSize(HSizeKey(n), -1, f), <<Log("HDEL", x)>>, 1)
            EXCEPT !.misread = Suspect(HASH, n, f \in {"entry", "size"})]

HashDel == \E n \in HNames, k \in Keys \cup {TooLong}, f \in Faults({"entry", "size", "write"}) :
               Operation(<<"hdel", n, k>>, Hdel(n, k, f), f)

Hincr(n, k, by, f) ==
    LET x == HashKey(n, k) IN
    IF f = "entry" THEN Return(-1)
    ELSE IF Addend(x) = Text THEN Return(0)
    ELSE IF k \in {Empty, TooLong} THEN Return(-1)
    ELSE [HashStored(n, k, Addend(x) + by, f = "again", 1, f) EXCEPT
            !.item = Addend(x) + by]

HashIncr == \E n \in HNames, k \in Named, by \in {-1, 1}, f \in Faults({"entry", "again", "size", "write"}) :
                /\ Addend(HashKey(n, k)) # Text => Addend(HashKey(n, k)) + by \in Values
                /\ Operation(<<"hincr", n, k, by>>, Hincr(n, k, by, f), f)

\* hclear scans a batch of keys, deletes them one transaction at a time, and
\* begins again until it finds none.  (moved and held tell whether others
\* changed the hash meanwhile, and how many entries it had.)
ClearScan(n) == HScan(n, Empty, Empty, ClearBatch)

HclearBegin(n) ==
    /\ clearing = Nothing
    /\ clearing' = [name |-> n, todo |-> ClearScan(n), num |-> 0, count |-> 0,
                    moved |-> FALSE, held |-> Cardinality(DOMAIN Hash(db, n))]
    /\ answer' = NoAnswer
    /\ UNCHANGED <<enabled, db, min, last, cleaning, misread, orphaned, errors>>

HclearDel(f) ==
    /\ clearing # Nothing /\ clearing.todo # <<>>
    /\ LET k == Head(clearing.todo)
       IN Transact(<<"hdel", clearing.name, k>>, Hdel(clearing.name, k, f), f)
    /\ clearing' = IF answer'.ret = -1 THEN Nothing
                   ELSE [clearing EXCEPT !.todo = Tail(@), !.num = @ + 1]
    /\ UNCHANGED orphaned

HclearAgain ==
    /\ clearing # Nothing /\ clearing.todo = <<>> /\ clearing.num > 0
    /\ clearing.count + clearing.num <= MaxCleared
    /\ clearing' = [clearing EXCEPT !.todo = ClearScan(clearing.name), !.num = 0,
                                    !.count = @ + clearing.num]
    /\ answer' = NoAnswer
    /\ UNCHANGED <<enabled, db, min, last, cleaning, misread, orphaned, errors>>

HclearEnd ==
    /\ clearing # Nothing /\ clearing.todo = <<>> /\ clearing.num = 0
    /\ answer' = [call |-> <<"hclear", clearing.name>>, ret |-> clearing.count,
                  item |-> clearing.held, sure |-> ~clearing.moved]
    /\ clearing' = Nothing
    /\ UNCHANGED <<enabled, db, min, last, cleaning, misread, orphaned, errors>>

-----------------------------------------------------------------------------
(* Sorted sets.                                                            *)

\* Mutated: the place of the old score stays in the index.
ZsetOneKeeps(n, k, score, failed) ==
    LET x == ZsetKey(n, k)
        found == Found(x, failed)
        same == found = 1 /\ db[x] = score
    IN [batch |-> IF same THEN <<>>
                  ELSE <<Put(ZscoreKey(n, k, score), ""), Put(x, score)>>,
        logs |-> IF same THEN <<>> ELSE <<Log("ZSET", x)>>,
        new |-> IF found = 0 THEN 1 ELSE 0]

\* zset_one: the score, its place in the index and the place of the old one.
\* A failed read counts as an entry found with an empty score, which is 0.
ZsetOne(n, k, score, failed) ==
    LET x == ZsetKey(n, k)
        found == Found(x, failed)
        old == IF found = 1 THEN db[x] ELSE 0
        same == found = 1 /\ old = score
    IN [batch |-> IF same THEN <<>>
                  ELSE (IF found = 0 THEN <<>> ELSE <<Delete(ZscoreKey(n, k, old))>>)
                       \o <<Put(ZscoreKey(n, k, score), ""), Put(x, score)>>,
        logs |-> IF same THEN <<>> ELSE <<Log("ZSET", x)>>,
        new |-> IF found = 0 THEN 1 ELSE 0]

\* zset, and zincr behind its own read.
ScoreStored(n, k, score, failed, ret, f) ==
    LET one == ZsetOne(n, k, score, failed)
        size == IF one.new > 0 THEN IncrSize(ZSizeKey(n), 1, f) ELSE <<>>
    IN [Commit(one.batch \o size, one.logs, ret) EXCEPT
          !.misread = Suspect(ZSET, n, failed \/ (f = "size" /\ one.new > 0))]

Zset1(n, k, score, f) ==
    IF k = Empty THEN Commit(<<>>, <<>>, 0) ELSE IF k = TooLong THEN Return(-1)
    ELSE ScoreStored(n, k, score, f = "entry", ZsetOne(n, k, score, f = "entry").new, f)

ZsetSet == \E n \in ZNames, k \in Named, score \in Scores, f \in Faults({"entry", "size", "write"}) :
               Operation(<<"zset", n, k, score>>, Zset1(n, k, score, f), f)

\* zdel_one: a failed read counts as no entry.
Zdel(n, k, f) ==
    LET x == ZsetKey(n, k) IN
    IF k = TooLong THEN Return(-1)
    ELSE IF Found(x, f = "entry") # 1 THEN Commit(<<>>, <<>>, 0)
    ELSE [Commit(<<Delete(ZscoreKey(n, k, db[x])), Delete(x)>>
                   \o IncrSize(ZSizeKey(n), -1, f), <<Log("ZDEL", x)>>, 1)
            EXCEPT !.misread = Suspect(ZSET, n, f = "size")]

ZsetDel == \E n \in ZNames, k \in Keys \cup {TooLong}, f \in Faults({"entry", "size", "write"}) :
               Operation(<<"zdel", n, k>>, Zdel(n, k, f), f)

\* zincr answers 1 also where zset_one refused the empty key.
Zincr(n, k, by, f) ==
    LET score == Addend(ZsetKey(n, k)) + by
        stored == IF k = Empty THEN Commit(<<>>, <<>>, 1)
                  ELSE ScoreStored(n, k, score, f = "again", 1, f)
    IN IF f = "entry" \/ k = TooLong THEN Return(-1)
       ELSE [stored EXCEPT !.item = score]

ZsetIncr == \E n \in ZNames, k \in Named, by \in {-1, 1}, f \in Faults({"entry", "again", "size", "write"}) :
                /\ Addend(ZsetKey(n, k)) + by \in Scores
                /\ Operation(<<"zincr", n, k, by>>, Zincr(n, k, by, f), f)

-----------------------------------------------------------------------------
(* Queues.  front and back are the numbers of the first and last entry;    *)
(* every failed read of a queue is answered with -1.                       *)

Ends == {QFRONT, QBACK}

Sequence(n, end) == IF QItemKey(n, end) \in DOMAIN db THEN db[QItemKey(n, end)] ELSE 0

QSize(n) == IF QSizeKey(n) \in DOMAIN db THEN db[QSizeKey(n)] ELSE 0

\* incr_qsize: with the last entry go the counter and both ends.
IncrQSize(n, by) ==
    IF QSize(n) + by <= 0
    THEN <<Delete(QSizeKey(n)), Delete(QItemKey(n, QFRONT)), Delete(QItemKey(n, QBACK))>>
    ELSE <<Put(QSizeKey(n), QSize(n) + by)>>

\* _qpush: the ends are put into the batch before the queue may prove full.
Qpush(n, item, end, f) ==
    LET new == QItemKey(n, end) \notin DOMAIN db
        seq == IF new THEN QInit
               ELSE Sequence(n, end) + (IF end = QFRONT THEN -1 ELSE 1)
        ends == IF new THEN <<Put(QItemKey(n, QFRONT), seq), Put(QItemKey(n, QBACK), seq)>>
                ELSE <<Put(QItemKey(n, end), seq)>>
        cmd == IF end = QFRONT THEN "QPUSH_FRONT" ELSE "QPUSH_BACK"
    IN IF f \in {"entry", "size"} \/ seq <= QMin \/ seq >= QMax THEN Return(-1)
       ELSE Commit(ends \o <<Put(QItemKey(n, seq), item)>> \o IncrQSize(n, 1),
                   <<Log(cmd, QItemKey(n, seq))>>, QSize(n) + 1)

QueuePush == \E n \in QNames, item \in Values, end \in Ends, f \in Faults({"entry", "size", "write"}) :
                 Operation(<<"qpush", n, item, end>>, Qpush(n, item, end, f), f)

Qpop(n, end, f) ==
    LET seq == Sequence(n, end)
        x == QItemKey(n, seq)
        next == seq + (IF end = QFRONT THEN 1 ELSE -1)
        ends == IF QSize(n) > 1 THEN <<Put(QItemKey(n, end), next)>> ELSE <<>>
        cmd == IF end = QFRONT THEN "QPOP_FRONT" ELSE "QPOP_BACK"
    IN IF f = "entry" THEN Return(-1)
       ELSE IF QItemKey(n, end) \notin DOMAIN db THEN Return(0)
       ELSE IF f = "again" THEN Return(-1)
       ELSE IF x \notin DOMAIN db THEN Return(0)
       ELSE IF f = "size" THEN Return(-1)
       ELSE [Commit(<<Delete(x)>> \o IncrQSize(n, -1) \o ends, <<Log(cmd, <<n>>)>>, 1)
               EXCEPT !.item = db[x]]

QueuePop == \E n \in QNames, end \in Ends, f \in Faults({"entry", "again", "size", "write"}) :
                Operation(<<"qpop", n, end>>, Qpop(n, end, f), f)

\* The entry qset and qset_by_seq write.
QStore(n, seq, item) ==
    Commit(<<Put(QItemKey(n, seq), item)>>, <<Log("QSET", QItemKey(n, seq))>>, 1)

\* From the front, or with a negative index from the back.
AtIndex(n, index) == IF index >= 0 THEN Sequence(n, QFRONT) + index
                     ELSE Sequence(n, QBACK) + index + 1
EndOf(index) == IF index >= 0 THEN QFRONT ELSE QBACK

Qset(n, index, item, f) ==
    IF f = "size" THEN Return(-1)
    ELSE IF index >= QSize(n) \/ index < -QSize(n) THEN Return(0)
    ELSE IF f = "entry" THEN Return(-1)
    ELSE IF QItemKey(n, EndOf(index)) \notin DOMAIN db THEN Return(0)
    ELSE QStore(n, AtIndex(n, index), item)

QueueSet == \E n \in QNames, index \in Indexes, item \in Values, f \in Faults({"entry", "size", "write"}) :
                Operation(<<"qset", n, index, item>>, Qset(n, index, item, f), f)

\* qset_by_seq takes the number behind the last entry for one of the queue,
\* and 0 for one of an empty queue.
QsetBySeq(n, seq, item, f) ==
    LET first == Sequence(n, QFRONT)
    IN IF f \in {"size", "entry"} THEN Return(-1)
       ELSE IF seq < first \/ seq > first + QSize(n) THEN Return(0)
       ELSE QStore(n, seq, item)

QueueSetBySeq ==
    \E n \in QNames, seq \in {0} \cup QMin + 1 .. QMax, item \in Values, f \in Faults({"entry", "size", "write"}) :
        LET o == QsetBySeq(n, seq, item, f)
        IN /\ Transact(<<"qset_by_seq", n, seq, item>>, o, f)
           /\ clearing = Nothing /\ UNCHANGED clearing
           /\ orphaned' = IF answer'.ret = 1 /\ seq = Sequence(n, QFRONT) + QSize(n)
                          THEN orphaned \cup {n} ELSE orphaned

\* qfix counts the entries there are.
QfixItems(n) == Iterated(QItemKey(n, QMin - 1), QItemKey(n, QMax), QMax)

Qfix(n) ==
    LET items == QfixItems(n)
    IN IF items = <<>>
       THEN Commit(<<Delete(QSizeKey(n)), Delete(QItemKey(n, QFRONT)),
                     Delete(QItemKey(n, QBACK))>>, <<>>, 0)
       ELSE Commit(<<Put(QSizeKey(n), Len(items)), Put(QItemKey(n, QFRONT), items[1][3]),
                     Put(QItemKey(n, QBACK), items[Len(items)][3])>>, <<>>, 0)

QueueFix == \E n \in QNames, f \in Faults({"write"}) : Operation(<<"qfix", n>>, Qfix(n), f)

-----------------------------------------------------------------------------
(* The binlog.                                                             *)

\* Where an iterator stands behind Seek(start), and behind Prev from there.
Seek(start)     == {x \in DOMAIN db : /\ ~Less(x, start)
                                     /\ \A y \in DOMAIN db : ~Less(y, start) => ~Less(y, x)}
SeekPrev(start) == {x \in DOMAIN db : /\ Less(x, start)
                                     /\ \A y \in DOMAIN db : Less(y, start) => ~Less(x, y)}

\* The number of the record there, 0 if it is the key of something else.
NumberAt(there) == IF \E x \in there : x[1] = SYNCLOG
                   THEN (CHOOSE x \in there : x[1] = SYNCLOG)[2] ELSE 0

\* find_last: the record before the largest number, whatever is behind it.
LastSeq == MaxLogs + 1  \* UINT64_MAX, which is not used

FindLast == NumberAt(SeekPrev(SeqKey(LastSeq)))

\* find_next: the record of this number or the first one behind it.
FindNext(seq) == NumberAt(Seek(SeqKey(seq)))

Opened(seq) == LET first == IF seq > Capacity THEN seq - Capacity ELSE 0
               IN IF FindNext(first) # 0 THEN FindNext(first) ELSE first

\* The process is killed between any two steps and started again.
Restart ==
    /\ last' = FindLast
    /\ min' = Opened(FindLast)
    /\ cleaning' = Nothing /\ clearing' = Nothing
    /\ answer' = NoAnswer
    /\ UNCHANGED <<enabled, db, misread, orphaned, errors>>

\* log_clean_thread_func: it reads both numbers without the lock.
CleanBegin ==
    /\ enabled /\ cleaning = Nothing
    /\ last - min >= Capacity + CleanSlack
    /\ cleaning' = [start |-> min, end |-> last - Capacity]
    /\ answer' = NoAnswer
    /\ UNCHANGED <<enabled, db, min, last, clearing, misread, orphaned, errors>>

\* del_range: one batch; a write that fails ends it, and goes unnoticed.
CleanChunk(f) ==
    /\ cleaning # Nothing /\ cleaning.start <= cleaning.end
    /\ LET upto == Min({cleaning.end, cleaning.start + Chunk - 1})
       IN IF f = "write"
          THEN /\ cleaning' = [cleaning EXCEPT !.start = cleaning.end + 1]
               /\ UNCHANGED db
          ELSE /\ cleaning' = [cleaning EXCEPT !.start = upto + 1]
               /\ db' = Applied([i \in 1 .. upto - cleaning.start + 1 |->
                                    Delete(SeqKey(cleaning.start + i - 1))])
    /\ answer' = NoAnswer
    /\ errors' = IF f = "none" THEN errors ELSE errors + 1
    /\ UNCHANGED <<enabled, min, last, clearing, misread, orphaned>>

CleanEnd ==
    /\ cleaning # Nothing /\ cleaning.start > cleaning.end
    /\ min' = cleaning.end + 1
    /\ cleaning' = Nothing
    /\ answer' = NoAnswer
    /\ UNCHANGED <<enabled, db, last, clearing, misread, orphaned, errors>>

-----------------------------------------------------------------------------

Init ==
    /\ enabled \in BOOLEAN
    /\ db = <<>> /\ min = 0 /\ last = 0
    /\ cleaning = Nothing /\ clearing = Nothing
    /\ answer = NoAnswer
    /\ misread = {} /\ orphaned = {}
    /\ errors = 0

Next ==
    \/ KvSet \/ KvSetnx \/ KvGetset \/ KvDel \/ KvIncr \/ KvMultiSet \/ KvMultiDel
    \/ HashSet \/ HashDel \/ HashIncr
    \/ \E n \in HNames : HclearBegin(n)
    \/ \E f \in Faults({"entry", "size", "write"}) : HclearDel(f)
    \/ HclearAgain \/ HclearEnd
    \/ ZsetSet \/ ZsetDel \/ ZsetIncr
    \/ QueuePush \/ QueuePop \/ QueueSet \/ QueueSetBySeq \/ QueueFix
    \/ Restart
    \/ CleanBegin
    \/ \E f \in Faults({"write"}) : CleanChunk(f)
    \/ CleanEnd

Spec == Init /\ [][Next]_vars

-----------------------------------------------------------------------------
(* Properties.                                                             *)

\* The counters of a hash or sorted set whose reads never failed are the
\* number of its entries, the score index holds each entry once and under
\* its score, and the ends and the size of a queue are those of its entries,
\* which have no gap.  incr_hsize, zset_one, _qpush and _qpop keep them by
\* reading one value and writing others.
CountersAgree ==
    LET counts(x, number) == IF number = 0 THEN x \notin DOMAIN db
                             ELSE x \in DOMAIN db /\ db[x] = number
        items(n) == {x[3] : x \in {y \in Primary(db) : y[1] = QUEUE /\ y[2] = n}}
    IN /\ \A n \in HNames :
             <<HASH, n>> \notin misread =>
                 counts(HSizeKey(n), Cardinality(DOMAIN Hash(db, n)))
       /\ \A n \in ZNames :
             <<ZSET, n>> \notin misread =>
                 /\ counts(ZSizeKey(n), Cardinality(DOMAIN Zset(db, n)))
                 /\ {x \in Of(db, ZSCORE) : x[2] = n}
                      = {ZscoreKey(n, k, Zset(db, n)[k]) : k \in DOMAIN Zset(db, n)}
       /\ \A n \in QNames \ orphaned :
             /\ counts(QSizeKey(n), Cardinality(items(n)))
             /\ items(n) = {} => \A end \in Ends : QItemKey(n, end) \notin DOMAIN db
             /\ items(n) # {} => items(n) = Sequence(n, QFRONT) .. Sequence(n, QBACK)

Numbers(d) == {x[2] : x \in Of(d, SYNCLOG)}

Tells(r, x) ==
    \/ r.key = x
    \/ r.cmd = "QPOP_FRONT" /\ x = QItemKey(r.key[1], Sequence(r.key[1], QFRONT))
    \/ r.cmd = "QPOP_BACK" /\ x = QItemKey(r.key[1], Sequence(r.key[1], QBACK))

ChangeTold ==
    LET new == Numbers(db') \ Numbers(db)
    IN IF ~enabled THEN Numbers(db') = {}
       ELSE /\ new = last + 1 .. last' /\ last' >= last /\ last' >= min'
            /\ \A x \in Changed \cap (Primary(db) \cup Primary(db')) :
                   \E s \in new : Tells(db'[SeqKey(s)], x)
            /\ \A s \in Numbers(db) \ Numbers(db') : s <= last - Capacity
            /\ \A s \in min' .. last' : \/ s = 0 \/ s \in Numbers(db')
                                        \/ cleaning' # Nothing /\ s <= cleaning'.end

\* With the binlog on, each entry that changes is named by a record numbered
\* on from the last one and written with it, records are numbered without a
\* gap also across a kill, and none but obsolete ones are deleted: what a
\* replica reads between min_seq and max_seq is all that happened
\* (binlog.cpp:381 asserts last_seq >= min_seq_).
LogTellsChanges == [][ChangeTold]_vars

With(f, k, v) == [x \in DOMAIN f \cup {k} |-> IF x = k THEN v ELSE f[x]]
WithAll(f, kvs) ==
    LET given == {kvs[i][1] : i \in DOMAIN kvs}
        final(k) == kvs[Max({i \in DOMAIN kvs : kvs[i][1] = k})][2]
    IN [k \in DOMAIN f \cup given |-> IF k \in given THEN final(k) ELSE f[k]]
Without(f, k) == [x \in DOMAIN f \ {k} |-> f[x]]
Had(f, k) == IF k \in DOMAIN f THEN 1 ELSE 0
Sum(f, k, by) == (IF k \in DOMAIN f THEN f[k] ELSE 0) + by

\* The place of an index in a queue, 0 if there is none.
Place(q, index) == LET p == IF index >= 0 THEN index + 1 ELSE Len(q) + index + 1
                   IN IF p \in DOMAIN q THEN p ELSE 0

QueueOps == {"qpush", "qpop", "qset", "qset_by_seq", "qfix"}

\* What an operation answers with ret and item and makes of the contents b.
\* A failure changes nothing; fine says that no read failed.
Promised(c, ret, item, b, a, fine) ==
    LET op == c[1]
        n == c[2]
        same == a = b
        kvOf(f) == a = [b EXCEPT !.kv = f]
        hashOf(f) == a = [b EXCEPT !.hash[n] = f]
        zsetOf(f) == a = [b EXCEPT !.zset[n] = f]
        queueOf(q) == a = [b EXCEPT !.queue[n] = q]
    IN CASE op = "set" -> /\ fine /\ c[2] \in Keys => ret = 1
                          /\ IF ret = 1 THEN kvOf(With(b.kv, c[2], c[3])) ELSE same
         [] op = "setnx" -> /\ fine /\ c[2] \in Keys => ret = 1 - Had(b.kv, c[2])
                            /\ ret = 1 => Had(b.kv, c[2]) = 0
                            /\ IF ret = 1 THEN kvOf(With(b.kv, c[2], c[3])) ELSE same
         [] op = "getset" -> /\ same \/ kvOf(With(b.kv, c[2], c[3]))
                             /\ ret = 1 => item = b.kv[c[2]]
                             /\ fine /\ c[2] \in Keys =>
                                   /\ ret = Had(b.kv, c[2])
                                   /\ kvOf(With(b.kv, c[2], c[3]))
         [] op = "del" -> /\ fine /\ c[2] \in Keys => ret = 1
                          /\ IF ret = 1 THEN kvOf(Without(b.kv, c[2])) ELSE same
         [] op = "incr" -> IF ret # 1 THEN same
                           ELSE /\ item = Sum(b.kv, c[2], c[3])
                                /\ kvOf(With(b.kv, c[2], item))
         [] op = "multi_set" -> IF ret = Len(c[2]) THEN kvOf(WithAll(b.kv, c[2])) ELSE same
         [] op = "multi_del" -> IF ret = 2 THEN kvOf(Without(Without(b.kv, c[2][1]), c[2][2]))
                                ELSE same
         [] op = "hset" -> /\ fine /\ c[3] \in Keys => ret = 1 - Had(b.hash[n], c[3])
                           /\ IF ret >= 0 THEN hashOf(With(b.hash[n], c[3], c[4])) ELSE same
         [] op = "hdel" -> /\ fine /\ c[3] \in Keys => ret = Had(b.hash[n], c[3])
                           /\ IF ret = 1 THEN hashOf(Without(b.hash[n], c[3])) ELSE same
         [] op = "hincr" -> IF ret # 1 THEN same
                            ELSE /\ item = Sum(b.hash[n], c[3], c[4])
                                 /\ hashOf(With(b.hash[n], c[3], item))
         [] op = "hclear" -> same /\ ret = item /\ b.hash[n] = <<>>
         [] op = "zset" -> /\ fine /\ c[3] \in Keys => ret = 1 - Had(b.zset[n], c[3])
                           /\ IF ret >= 0 /\ c[3] # Empty
                              THEN zsetOf(With(b.zset[n], c[3], c[4])) ELSE same
         [] op = "zdel" -> /\ fine /\ c[3] \in Keys => ret = Had(b.zset[n], c[3])
                           /\ IF ret = 1 THEN zsetOf(Without(b.zset[n], c[3])) ELSE same
         [] op = "zincr" -> IF ret # 1 \/ c[3] = Empty THEN same
                            ELSE /\ item = Sum(b.zset[n], c[3], c[4])
                                 /\ zsetOf(With(b.zset[n], c[3], item))
         [] op = "qpush" -> IF ret = -1 THEN same
                            ELSE /\ ret = Len(b.queue[n]) + 1
                                 /\ queueOf(IF c[4] = QFRONT THEN <<c[3]>> \o b.queue[n]
                                            ELSE Append(b.queue[n], c[3]))
         [] op = "qpop" -> /\ fine => ret = (IF b.queue[n] = <<>> THEN 0 ELSE 1)
                           /\ IF ret # 1 THEN same
                              ELSE IF c[3] = QFRONT
                              THEN item = Head(b.queue[n]) /\ queueOf(Tail(b.queue[n]))
                              ELSE item = Last(b.queue[n]) /\ queueOf(Front(b.queue[n]))
         [] op = "qset" -> LET p == Place(b.queue[n], c[3])
                           IN /\ fine => (ret = 1) = (p # 0)
                              /\ IF ret = 1 THEN queueOf([b.queue[n] EXCEPT ![p] = c[4]])
                                            ELSE same
         [] op = "qset_by_seq" -> \/ same
                                  \/ \E p \in DOMAIN b.queue[n] :
                                        ret = 1 /\ queueOf([b.queue[n] EXCEPT ![p] = c[4]])
         [] op = "qfix" -> same

AnswerRight ==
    IF ~answer'.sure THEN db' = db \/ Contents(db') = Contents(db)
    ELSE \/ answer'.call[1] \in QueueOps /\ answer'.call[2] \in orphaned'
         \/ LET b == Contents(db)
                a == IF db' = db THEN b ELSE Contents(db')
            IN Promised(answer'.call, answer'.ret, answer'.item, b, a, errors' = errors)

\* Each operation answers what it did and does what it promises to its own
\* entries and to no others, whatever shares the store, whoever works on it
\* meanwhile, and whichever read or write fails; and a restart and the
\* cleaning thread change nothing.  Left out are the queues qset_by_seq wrote
\* behind, and what hclear answers of a hash others write meanwhile.
AnswersRight == [][AnswerRight]_vars

\* The first limit keys of S between two, none of them Empty or included at
\* the start.
Between(S, start, end, limit) ==
    LET inside == {k \in S : k > start /\ (end = Empty \/ k <= end)}
        sorted == Sorted(inside, <)
    IN SubSeq(sorted, 1, Min({limit, Len(sorted)}))

DownBetween(S, start, end, limit) ==
    LET inside == {k \in S : (start = Empty \/ k < start) /\ k >= end}
        sorted == Sorted(inside, >)
    IN SubSeq(sorted, 1, Min({limit, Len(sorted)}))

\* The keys of T in a sorted set, by score and key.
Ranked(z, T) == Sorted(T, LAMBDA j, k : z[j] < z[k] \/ (z[j] = z[k] /\ j < k))

Part(s, offset, limit) == SubSeq(s, offset + 1, Min({offset + limit, Len(s)}))

\* A scan of the plain values, or of a hash, returns its keys.
KeysRight(b, limit, keys) ==
    /\ Scan(b[1], b[2], limit) = Between(keys, b[1], b[2], limit)
    /\ RScan(b[1], b[2], limit) = DownBetween(keys, b[1], b[2], limit)

FieldsRight(n, b, limit, fields) ==
    /\ HScan(n, b[1], b[2], limit) = Between(fields, b[1], b[2], limit)
    /\ HRScan(n, b[1], b[2], limit) = DownBetween(fields, b[1], b[2], limit)

\* A list of the counters of a type returns the names S.
NamesRight(type, S) ==
    LET all == Cardinality(DOMAIN db) IN
    /\ \A b \in Bounds :
          /\ List(type, b[1], b[2], all) = Between(S, b[1], b[2], all)
          /\ RList(type, b[1], b[2], all) = DownBetween(S, b[1], b[2], all)
    /\ FirstOf(type) = (IF S = {} THEN <<>> ELSE <<Min(S)>>)
    /\ LastOf(type) = (IF S = {} THEN <<>> ELSE <<Max(S)>>)

\* The ranks, ranges and scans of a sorted set go by score and key: the scans
\* from any score, be it the key's or one it had; the ranks and ranges from the
\* end if no entry has the largest score, below which ziterator begins when it
\* goes backwards from no score.
ZsetReads(n) ==
    LET all == Cardinality(DOMAIN db)
        z == Zset(db, n)
        within(from, to) == {k \in DOMAIN z : z[k] >= from /\ z[k] <= to}
        up == Ranked(z, DOMAIN z)
        down == Reverse(up)
        place(s, k) == IF k \in Range(s) THEN (CHOOSE i \in DOMAIN s : s[i] = k) - 1 ELSE -1
    IN /\ \A k \in Keys : ZRank(n, k) = place(up, k)
       /\ \A offset \in 0 .. 1, limit \in 1 .. 2 : ZRange(n, offset, limit) = Part(up, offset, limit)
       /\ ScoreMax \notin Range(z) =>
             /\ \A k \in Keys : ZRRank(n, k) = place(down, k)
             /\ \A offset \in 0 .. 1, limit \in 1 .. 2 :
                   ZRRange(n, offset, limit) = Part(down, offset, limit)
       /\ \A from, to \in Scores :
             /\ ZScan(n, Empty, from, to, all) = Ranked(z, within(from, to))
             /\ ZRScan(n, Empty, from, to, all) = Reverse(Ranked(z, within(to, from)))
       /\ \A k \in Keys, from \in Scores :
             /\ ZScan(n, k, from, Nothing, all)
                  = Ranked(z, {j \in DOMAIN z : z[j] > from \/ (z[j] = from /\ j > k)})
             /\ ZRScan(n, k, from, Nothing, all)
                  = Reverse(Ranked(z, {j \in DOMAIN z : z[j] < from \/ (z[j] = from /\ j < k)}))

\* What a scan, list, rank or range returns is what the entries say, up to
\* the bounds and limits and never an entry of a neighbour in the store. Left
\* out are the lists of names and the sorted sets written after a failed read
\* (misread), the names of queues once qset_by_seq wrote behind one (orphaned),
\* and the largest score from the end (ZsetReads); the reads of a queue, each
\* of several lookups without a lock, are not modelled.
RangesRight ==
    LET all == Cardinality(DOMAIN db)
        scans == {scan \in Bounds \X {1, all} : scan[2] = all \/ scan[1][2] = Empty}
        keys == DOMAIN Kv(db)
    IN
    /\ \A scan \in scans : KeysRight(scan[1], scan[2], keys)
    /\ \A n \in HNames :
          LET fields == DOMAIN Hash(db, n)
          IN \A scan \in scans : FieldsRight(n, scan[1], scan[2], fields)
    /\ misread = {} => /\ NamesRight(HSIZE, {n \in HNames : Hash(db, n) # <<>>})
                       /\ NamesRight(ZSIZE, {n \in ZNames : Zset(db, n) # <<>>})
    /\ orphaned = {} => NamesRight(QSIZE, {n \in QNames : Queue(db, n) # <<>>})
    /\ \A n \in {m \in ZNames : <<ZSET, m>> \notin misread} : ZsetReads(n)

=============================================================================
