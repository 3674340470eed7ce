---------------------------- MODULE LevelDbProofs ----------------------------
(***************************************************************************)
(* Theorems about LevelDb, for any keys, threads, writes, sizes, levels    *)
(* and bounds.  Nothing that is still needed is deleted: neither the       *)
(* tables of a version someone reads or merges, nor the logs and tables    *)
(* the next Open needs (FilesStay).  Nobody waits for work that is not     *)
(* scheduled (WorkStarts).  A write acknowledged after a sync survives     *)
(* every kill and power cut (SyncedStay).                                  *)
(***************************************************************************)
EXTENDS LevelDb, FiniteSetTheorems, SequenceTheorems, WellFoundedInduction, TLAPS

-----------------------------------------------------------------------------
(* Numbers, recursion on them, and what is built with it.                  *)

LEMMA LeastNat ==
    ASSUME NEW T, T \subseteq Nat, T # {}
    PROVE  \E x \in T : \A y \in T : x <= y
  <1>1. IsWellFoundedOn(OpToRel(<, Nat), Nat)
    BY NatLessThanWellFounded
  <1>2. PICK x \in T : \A y \in T : ~ (<<y, x>> \in OpToRel(<, Nat))
    BY <1>1, WFMin, Zenon
  <1>3. \A y \in T : ~ (y < x)
    BY <1>2, Zenon DEF OpToRel
  <1>4. QED
    BY <1>3

LEMMA MaxBounded ==
    ASSUME NEW S, S \subseteq Nat, S # {}, NEW b \in Nat, \A y \in S : y <= b
    PROVE  Max(S) \in S /\ \A y \in S : y <= Max(S)
  <1> DEFINE T == {n \in Nat : \A y \in S : y <= n}
  <1>1. PICK x \in T : \A y \in T : x <= y
    <2>1. b \in T /\ T \subseteq Nat
      OBVIOUS
    <2> HIDE DEF T
    <2>2. QED
      BY <2>1, LeastNat
  <1>2. x \in Nat /\ \A y \in S : y <= x
    OBVIOUS
  <1>3. x \in S
    <2>1. SUFFICES ASSUME x \notin S PROVE FALSE
      OBVIOUS
    <2>2. \A y \in S : y \in Nat /\ y <= x /\ y # x
      BY <1>2, <2>1
    <2>6. PICK z \in S : TRUE
      OBVIOUS
    <2>3. x > 0 /\ \A y \in S : y <= x - 1
      BY <1>2, <2>2, <2>6
    <2>4. x - 1 \in T
      BY <1>2, <2>3
    <2>5. QED
      BY <1>1, <1>2, <2>4
  <1>4. QED
    BY <1>2, <1>3 DEF Max

\* A function defined by recursion on 0 .. n stays in the set its start is in
\* and its steps preserve.
LEMMA RecursionType ==
    ASSUME NEW n \in Nat, NEW S, NEW f,
           f[0] \in S,
           \A i \in 1 .. n : f[i - 1] \in S => f[i] \in S
    PROVE  \A i \in 0 .. n : f[i] \in S
  <1> DEFINE T == {i \in 0 .. n : f[i] \notin S}
  <1>1. SUFFICES ASSUME T # {} PROVE FALSE
    OBVIOUS
  <1>2. T \subseteq Nat
    OBVIOUS
  <1>3. PICK x \in T : \A y \in T : x <= y
    <2> HIDE DEF T
    <2>1. QED
      BY <1>1, <1>2, LeastNat
  <1>4. x # 0 /\ x \in 1 .. n /\ x - 1 \in 0 .. n
    OBVIOUS
  <1>5. x - 1 \notin T
    BY <1>3, <1>4
  <1>6. QED
    BY <1>4, <1>5

\* Such a function exists, for any start b and any steps F.
Recursion(f, n, b, F) == f[0] = b /\ \A i \in 1 .. n : f[i] = F[<<i, f[i - 1]>>]

LEMMA RecursionExists ==
    ASSUME NEW n \in Nat, NEW S, NEW b \in S, NEW D, NEW F \in [D -> S],
           \A i \in 1 .. n, s \in S : <<i, s>> \in D
    PROVE  \E f \in [0 .. n -> S] : Recursion(f, n, b, F)
  <1> USE DEF Recursion
  <1> DEFINE Upto(k) == \E f \in [0 .. k -> S] :
                            f[0] = b /\ \A i \in 1 .. k : f[i] = F[<<i, f[i - 1]>>]
             T == {k \in 0 .. n : ~ Upto(k)}
  <1>1. SUFFICES ASSUME T # {} PROVE FALSE
    <2>1. n \in 0 .. n
      OBVIOUS
    <2> HIDE DEF Upto
    <2>2. T = {} => Upto(n)
      BY <2>1
    <2>3. QED
      BY <2>2 DEF Upto
  <1>2. PICK x \in T : \A y \in T : x <= y
    <2>1. T \subseteq Nat
      OBVIOUS
    <2> HIDE DEF T
    <2>2. QED
      BY <1>1, <2>1, LeastNat
  <1>3. x \in 0 .. n /\ ~ Upto(x)
    OBVIOUS
  <1>4. x # 0
    <2>1. SUFFICES Upto(0)
      BY <1>3
    <2> DEFINE g == [i \in 0 .. 0 |-> b]
    <2>2. g \in [0 .. 0 -> S] /\ g[0] = b
      OBVIOUS
    <2>3. \A i \in 1 .. 0 : g[i] = F[<<i, g[i - 1]>>]
      OBVIOUS
    <2> HIDE DEF g
    <2>4. QED
      BY <2>2, <2>3
  <1>5. x \in 1 .. n /\ x - 1 \in 0 .. n
    BY <1>3, <1>4
  <1>6. Upto(x - 1)
    <2>1. x - 1 \notin T
      BY <1>2, <1>5
    <2>2. QED
      BY <1>5, <2>1
  <1>7. PICK f \in [0 .. x - 1 -> S] :
            f[0] = b /\ \A i \in 1 .. x - 1 : f[i] = F[<<i, f[i - 1]>>]
    BY <1>6
  <1> DEFINE g == [i \in 0 .. x |-> IF i = x THEN F[<<x, f[x - 1]>>] ELSE f[i]]
  <1>8. \A i \in 0 .. x : i # x => i \in 0 .. x - 1
    BY <1>5
  <1>9. f[x - 1] \in S /\ F[<<x, f[x - 1]>>] \in S
    BY <1>5, <1>7
  <1>10. g \in [0 .. x -> S]
    <2>1. ASSUME NEW i \in 0 .. x PROVE (IF i = x THEN F[<<x, f[x - 1]>>] ELSE f[i]) \in S
      <3>1. CASE i = x
        BY <1>9, <3>1
      <3>2. CASE i # x
        BY <1>7, <1>8, <3>2
      <3>3. QED
        BY <3>1, <3>2
    <2>2. QED
      BY <2>1
  <1>11. g[0] = b /\ \A i \in 1 .. x : g[i] = F[<<i, g[i - 1]>>]
    <2>1. g[0] = b
      BY <1>5, <1>7
    <2>2. ASSUME NEW i \in 1 .. x PROVE g[i] = F[<<i, g[i - 1]>>]
      <3>1. i \in 0 .. x /\ i - 1 \in 0 .. x /\ i - 1 # x
        BY <1>5
      <3>2. g[i - 1] = f[i - 1]
        BY <3>1
      <3>3. CASE i = x
        BY <3>1, <3>2, <3>3
      <3>4. CASE i # x
        BY <3>1, <3>2, <3>4, <1>7, <1>5
      <3>5. QED
        BY <3>3, <3>4
    <2>3. QED
      BY <2>1, <2>2
  <1>12. QED
    BY <1>3, <1>10, <1>11

\* The sequences of a sequence, one after the other, make a sequence.
LEMMA FlattenType ==
    ASSUME NEW S, NEW seqs \in Seq(Seq(S))
    PROVE  FlattenSeq(seqs) \in Seq(S)
  <1>1. CASE Len(seqs) = 0
    <2>1. FlattenSeq(seqs) = seqs
      BY <1>1 DEF FlattenSeq
    <2>2. seqs = <<>>
      BY <1>1
    <2>3. QED
      BY <2>1, <2>2
  <1>2. CASE Len(seqs) # 0
    <2> DEFINE n == Len(seqs)
               Eq(f) == f = [i \in 1 .. n |-> IF i = 1 THEN seqs[i] ELSE f[i - 1] \o seqs[i]]
               flatten == CHOOSE f : Eq(f)
    <2>1. n \in Nat \ {0} /\ \A i \in 1 .. n : seqs[i] \in Seq(S)
      BY <1>2
    <2>2. FlattenSeq(seqs) = flatten[n]
      BY <1>2 DEF FlattenSeq
    <2> HIDE DEF n
    <2>3. \E f : Eq(f)
      <3> DEFINE F == [p \in (1 .. n) \X Seq(S) |-> p[2] \o seqs[p[1]]]
      <3>2. \A i \in 1 .. n, s \in Seq(S) : F[<<i, s>>] = s \o seqs[i]
        OBVIOUS
      <3>1. F \in [(1 .. n) \X Seq(S) -> Seq(S)]
        <4>1. ASSUME NEW p \in (1 .. n) \X Seq(S) PROVE p[2] \o seqs[p[1]] \in Seq(S)
          <5>1. p[2] \in Seq(S) /\ seqs[p[1]] \in Seq(S)
            BY <2>1
          <5>2. QED
            BY <5>1, ConcatProperties
        <4>2. QED
          BY <4>1
      <3>3. <<>> \in Seq(S)
        OBVIOUS
      <3> HIDE DEF F
      <3>4. PICK g \in [0 .. n -> Seq(S)] :
                g[0] = <<>> /\ \A i \in 1 .. n : g[i] = F[<<i, g[i - 1]>>]
        <4> DEFINE Q == Seq(S)  b == <<>>  D == (1 .. n) \X Q
        <4>1. n \in Nat /\ b \in Q /\ F \in [D -> Q] /\ \A i \in 1 .. n, s \in Q : <<i, s>> \in D
          BY <2>1, <3>1, <3>3
        <4> HIDE DEF Q, b, D
        <4>2. \E g \in [0 .. n -> Q] : g[0] = b /\ \A i \in 1 .. n : g[i] = F[<<i, g[i - 1]>>]
          <5>1. \E g \in [0 .. n -> Q] : Recursion(g, n, b, F)
            BY ONLY <4>1, RecursionExists, Zenon
          <5>2. QED
            BY <5>1 DEF Recursion
        <4> USE DEF Q, b
        <4>3. QED
          BY <4>2
      <3> DEFINE f == [i \in 1 .. n |-> g[i]]
      <3>5. ASSUME NEW i \in 1 .. n
            PROVE  g[i] = IF i = 1 THEN seqs[i] ELSE f[i - 1] \o seqs[i]
        <4>1. i - 1 \in 0 .. n /\ g[i - 1] \in Seq(S) /\ seqs[i] \in Seq(S)
          BY <2>1, <3>4
        <4>2. g[i] = g[i - 1] \o seqs[i]
          BY <3>2, <3>4, <4>1
        <4>3. CASE i = 1
          <5>3. i - 1 = 0 /\ g[0] = <<>>
            BY <3>4, <4>3
          <5>1. g[i] = <<>> \o seqs[i]
            BY <4>2, <5>3
          <5>2. QED
            BY <4>1, <4>3, <5>1
        <4>4. CASE i # 1
          <5>1. i - 1 \in 1 .. n
            BY <2>1, <4>4
          <5>2. QED
            BY <4>2, <4>4, <5>1
        <4>5. QED
          BY <4>3, <4>4
      <3>6. Eq(f)
        BY <3>5
      <3>7. QED
        BY <3>6
    <2>4. Eq(flatten)
      BY <2>3
    <2> HIDE DEF flatten
    <2>5. flatten[1] \in Seq(S)
      <3>1. 1 \in 1 .. n
        BY <2>1
      <3>2. flatten[1] = seqs[1]
        BY <2>4, <3>1
      <3>3. QED
        BY <2>1, <3>1, <3>2
    <2>6. ASSUME NEW i \in 1 .. n, i # 1, flatten[i - 1] \in Seq(S) PROVE flatten[i] \in Seq(S)
      <3>1. flatten[i] = flatten[i - 1] \o seqs[i]
        BY <2>4, <2>6
      <3>2. QED
        BY <2>1, <2>6, <3>1, ConcatProperties
    <2>7. flatten[n] \in Seq(S)
      <3> DEFINE h == [i \in 0 .. n |-> IF i = 0 THEN flatten[1] ELSE flatten[i]]
      <3>1. h[0] \in Seq(S) /\ \A i \in 1 .. n : h[i] = flatten[i] /\ (i # 1 => h[i - 1] = flatten[i - 1])
        BY <2>1, <2>5
      <3> HIDE DEF h
      <3>2. ASSUME NEW i \in 1 .. n, h[i - 1] \in Seq(S) PROVE h[i] \in Seq(S)
        <4>1. CASE i = 1
          BY <2>5, <3>1, <4>1
        <4>2. CASE i # 1
          BY <2>6, <3>1, <3>2, <4>2
        <4>3. QED
          BY <4>1, <4>2
      <3>3. \A i \in 0 .. n : h[i] \in Seq(S)
        BY <2>1, <3>1, <3>2, RecursionType
      <3>4. n \in 0 .. n /\ n \in 1 .. n
        BY <2>1
      <3>5. QED
        BY <3>1, <3>3, <3>4
    <2>8. QED
      BY <2>2, <2>7
  <1>3. QED
    BY <1>1, <1>2

Records == [first : Nat, last : Nat, whole : BOOLEAN]

\* What is read out of a log is made of numbers, and so are the memtables a
\* log is cut into.
LEMMA WholeCount ==
    ASSUME NEW records \in Seq(Records)
    PROVE  Cardinality(WholeRecords(records)) \in 0 .. Len(records)
  <1>1. WholeRecords(records) \in SUBSET (1 .. Len(records))
    BY DEF WholeRecords
  <1>2. Len(records) \in Nat
    OBVIOUS
  <1>3. IsFiniteSet(1 .. Len(records)) /\ Cardinality(1 .. Len(records)) = Len(records)
    BY <1>2, FS_Interval, SMTT(30)
  <1>4. /\ IsFiniteSet(WholeRecords(records))
        /\ Cardinality(WholeRecords(records)) <= Cardinality(1 .. Len(records))
    BY <1>1, <1>3, FS_Subset
  <1>5. Cardinality(WholeRecords(records)) \in Nat
    BY <1>4, FS_CardinalityType
  <1>6. QED
    BY <1>2, <1>3, <1>4, <1>5

Replays == [full : Seq(SUBSET Nat), mem : SUBSET Nat]

LEMMA ReplayType ==
    ASSUME NEW acc \in Replays, NEW r \in Records
    PROVE  Replay(acc, r) \in Replays
  <1> DEFINE more == acc.mem \cup (r.first .. r.last)
  <1>1. more \in SUBSET Nat /\ acc.full \in Seq(SUBSET Nat)
    BY DEF Replays, Records
  <1>2. Append(acc.full, more) \in Seq(SUBSET Nat)
    BY <1>1, AppendProperties
  <1>3. QED
    BY <1>1, <1>2 DEF Replay, Replays

LEMMA MemTablesType ==
    ASSUME NEW records \in Seq(Records)
    PROVE  MemTables(records) \in Seq(SUBSET Nat)
  <1> DEFINE n == Cardinality(WholeRecords(records))
             start == [full |-> <<>>, mem |-> {}]
             Eq(f) == f = [i \in 0 .. n |-> IF i = 0 THEN start ELSE Replay(f[i - 1], records[i])]
             read == CHOOSE f : Eq(f)
  <1>1. n \in Nat /\ \A i \in 1 .. n : records[i] \in Records
    BY WholeCount
  <1>2. MemTables(records) = IF read[n].mem = {} THEN read[n].full
                             ELSE Append(read[n].full, read[n].mem)
    BY DEF MemTables
  <1>3. start \in Replays
    BY DEF Replays
  <1> HIDE DEF n, start
  <1>4. \E f : Eq(f)
    <2> DEFINE D == (1 .. n) \X Replays
               F == [p \in D |-> Replay(p[2], records[p[1]])]
    <2>1. F \in [D -> Replays] /\ \A i \in 1 .. n, s \in Replays :
                <<i, s>> \in D /\ F[<<i, s>>] = Replay(s, records[i])
      BY <1>1, ReplayType
    <2> HIDE DEF D, F
    <2>2. PICK f \in [0 .. n -> Replays] : Recursion(f, n, start, F)
      BY ONLY <1>1, <1>3, <2>1, RecursionExists, Zenon
    <2>3. ASSUME NEW i \in 0 .. n
          PROVE  f[i] = IF i = 0 THEN start ELSE Replay(f[i - 1], records[i])
      <3>1. CASE i = 0
        BY <2>2, <3>1 DEF Recursion
      <3>2. CASE i # 0
        <4>1. i \in 1 .. n /\ f[i - 1] \in Replays
          BY <1>1, <2>2, <3>2
        <4>2. QED
          BY <2>1, <2>2, <3>2, <4>1 DEF Recursion
      <3>3. QED
        BY <3>1, <3>2
    <2>4. QED
      BY <2>2, <2>3
  <1>5. Eq(read)
    BY <1>4
  <1> HIDE DEF read
  <1>6. read[0] \in Replays
    BY <1>1, <1>3, <1>5
  <1>7. ASSUME NEW i \in 1 .. n, read[i - 1] \in Replays PROVE read[i] \in Replays
    <2>1. read[i] = Replay(read[i - 1], records[i])
      BY <1>1, <1>5
    <2>2. QED
      BY <1>1, <1>7, <2>1, ReplayType
  <1>8. read[n] \in Replays
    <2>1. \A i \in 0 .. n : read[i] \in Replays
      BY <1>1, <1>6, <1>7, RecursionType
    <2>2. QED
      BY <1>1, <2>1
  <1>9. read[n].full \in Seq(SUBSET Nat) /\ read[n].mem \in SUBSET Nat
    BY <1>8 DEF Replays
  <1>10. Append(read[n].full, read[n].mem) \in Seq(SUBSET Nat)
    BY <1>9, AppendProperties
  <1>11. QED
    BY <1>2, <1>9, <1>10

-----------------------------------------------------------------------------
(* What the state is made of.                                              *)

Fields(r, names) == DOMAIN r = names

DbShape ==
    /\ Fields(db, {"up", "mem", "imm", "log", "ver", "last", "next", "logNumber",
                   "manifest", "failed", "pending", "seek"})
    /\ db.up \in BOOLEAN /\ db.failed \in BOOLEAN
    /\ db.log \in Nat /\ db.last \in Nat /\ db.next \in Nat
    /\ db.logNumber \in Nat /\ db.manifest \in Nat

-----------------------------------------------------------------------------
(* The queue of the writers.                                               *)

Changes == [key : Keys, del : BOOLEAN]

Calls == [phase : {"idle", "wait", "insert", "inserted", "append_failed", "sync_failed"},
          batch : Seq(Changes), sync : BOOLEAN, force : BOOLEAN,
          group : Nat, first : Nat, last : Nat]

QueueShape == call \in [Threads -> Calls] /\ queue \in Seq(Threads)

\* A thread is in the queue once, and only the first of the queue writes.
InLine ==
    /\ ~db.up => queue = <<>>
    /\ \A i, j \in 1 .. Len(queue) : queue[i] = queue[j] => i = j
    /\ \A i \in 1 .. Len(queue) :
         call[queue[i]].phase # "idle" /\ (i > 1 => call[queue[i]].phase = "wait")

\* While it does, its group is of the queue, what it writes is the next of the
\* sequence numbers, and it syncs if one of its group asked for it.
Grouped ==
    queue # <<>> /\ call[queue[1]].phase # "wait" =>
        LET c == call[queue[1]]
        IN  /\ c.group \in 1 .. Len(queue)
            /\ c.first = db.last + 1 /\ c.last >= db.last
            /\ \A i \in 1 .. c.group : call[queue[i]].sync => c.sync

QueueInv == QueueShape /\ InLine /\ Grouped

LEMMA QueueSame ==
    ASSUME QueueInv, UNCHANGED <<queue, call>>, db'.up = db.up, db'.last = db.last
    PROVE  QueueInv'
  BY DEF QueueInv, QueueShape, InLine, Grouped, Calls

LEMMA LengthOfQueue ==
    ASSUME QueueInv
    PROVE  /\ Len(queue) \in Nat /\ DOMAIN queue = 1 .. Len(queue)
           /\ \A i \in 1 .. Len(queue) : queue[i] \in Threads
           /\ queue # <<>> => Len(queue) >= 1 /\ Head(queue) = queue[1]
  BY LenProperties DEF QueueInv, QueueShape

\* A thread that is idle is not in the queue, and may join it.
LEMMA QueueEnqueue ==
    ASSUME QueueInv, DbShape, NEW t \in Threads, NEW batch \in Seq(Changes), NEW sync \in BOOLEAN,
           Enqueue(t, batch, sync), UNCHANGED db
    PROVE  QueueInv'
  <1>1. /\ db.up /\ call[t].phase = "idle" /\ queue' = Append(queue, t)
        /\ call' = [call EXCEPT ![t] = [Idle EXCEPT !.phase = "wait", !.batch = batch,
                                        !.sync = sync, !.force = batch = <<>>]]
    BY DEF Enqueue
  <1>2. queue \in Seq(Threads) /\ Len(queue) \in Nat
    BY LengthOfQueue DEF QueueInv, QueueShape
  <1>3. /\ queue' \in Seq(Threads) /\ Len(queue') = Len(queue) + 1
        /\ \A i \in 1 .. Len(queue) : queue'[i] = queue[i]
        /\ queue'[Len(queue) + 1] = t
    BY <1>1, <1>2, AppendProperties
  <1>4. \A i \in 1 .. Len(queue) : queue[i] \in Threads /\ queue[i] # t
    BY <1>1, LengthOfQueue DEF QueueInv, InLine
  <1>5. call \in [Threads -> Calls]
    BY DEF QueueInv, QueueShape
  <1>6. [Idle EXCEPT !.phase = "wait", !.batch = batch, !.sync = sync, !.force = batch = <<>>]
            \in Calls
    BY DEF Idle, Calls
  <1>7. /\ call' \in [Threads -> Calls] /\ call'[t].phase = "wait"
        /\ \A u \in Threads : u # t => call'[u] = call[u]
    BY <1>1, <1>5, <1>6 DEF Idle
  <1>8. QueueShape'
    BY <1>3, <1>7 DEF QueueShape
  <1>9. \A i \in 1 .. Len(queue') : i \in 1 .. Len(queue) \/ i = Len(queue) + 1
    BY <1>2, <1>3
  <1>10. InLine'
    <2>1. db'.up
      BY <1>1
    <2>2. ASSUME NEW i \in 1 .. Len(queue'), NEW j \in 1 .. Len(queue'), queue'[i] = queue'[j]
          PROVE  i = j
      BY <1>3, <1>4, <1>9, <2>2 DEF QueueInv, InLine
    <2>3. ASSUME NEW i \in 1 .. Len(queue')
          PROVE  call'[queue'[i]].phase # "idle" /\ (i > 1 => call'[queue'[i]].phase = "wait")
      <3>1. CASE i \in 1 .. Len(queue)
        BY <1>3, <1>4, <1>7, <3>1 DEF QueueInv, InLine
      <3>2. CASE i = Len(queue) + 1
        BY <1>3, <1>7, <3>2
      <3>3. QED
        BY <1>9, <3>1, <3>2
    <2>4. QED
      BY <2>1, <2>2, <2>3 DEF InLine
  <1>11. Grouped'
    <2>1. CASE Len(queue) = 0
      <3>1. queue'[1] = t
        BY <1>3, <2>1
      <3>2. QED
        BY <1>7, <3>1 DEF Grouped
    <2>2. CASE Len(queue) # 0
      <3>1. 1 \in 1 .. Len(queue) /\ queue # <<>>
        BY <1>2, <2>2
      <3>2. queue'[1] = queue[1] /\ call'[queue'[1]] = call[queue[1]]
        BY <1>3, <1>4, <1>7, <3>1
      <3>3. SUFFICES ASSUME call[queue[1]].phase # "wait" PROVE Grouped'
        BY <3>2 DEF Grouped
      <3> DEFINE c == call[queue[1]]
      <3>4. /\ c.group \in 1 .. Len(queue) /\ c.first = db.last + 1 /\ c.last >= db.last
            /\ \A i \in 1 .. c.group : call[queue[i]].sync => c.sync
        BY <3>1, <3>3 DEF QueueInv, Grouped
      <3>5. \A i \in 1 .. c.group : i \in 1 .. Len(queue) /\ call'[queue'[i]] = call[queue[i]]
        <4>1. \A i \in 1 .. c.group : i \in 1 .. Len(queue)
          BY <1>2, <3>4
        <4>2. QED
          BY <1>3, <1>4, <1>7, <4>1
      <3>6. c.group \in 1 .. Len(queue')
        BY <1>2, <1>3, <3>4
      <3> HIDE DEF c
      <3>7. call'[queue'[1]] = c
        BY <3>2 DEF c
      <3>8. QED
        BY <3>4, <3>5, <3>6, <3>7 DEF Grouped
    <2>3. QED
      BY <2>1, <2>2
  <1>12. QED
    BY <1>8, <1>10, <1>11 DEF QueueInv

\* Those who leave are the first of the queue; whoever is first then waits.
LEMMA QueueLeave ==
    ASSUME QueueInv, NEW n \in 1 .. Len(queue), Leave(n), db'.up = db.up
    PROVE  /\ QueueInv'
           /\ queue' # <<>> => call'[queue'[1]].phase = "wait"
  <1>1. queue \in Seq(Threads) /\ Len(queue) \in Nat /\ call \in [Threads -> Calls]
    BY LengthOfQueue DEF QueueInv, QueueShape
  <1>2. /\ queue' = SubSeq(queue, n + 1, Len(queue))
        /\ call' = [t \in Threads |-> IF \E i \in 1 .. n : queue[i] = t THEN Idle ELSE call[t]]
    BY DEF Leave
  <1>3. /\ queue' \in Seq(Threads) /\ Len(queue') = Len(queue) - n
        /\ \A i \in 1 .. Len(queue') : i + n \in 1 .. Len(queue) /\ queue'[i] = queue[i + n]
    <2>1. \A i \in n + 1 .. Len(queue) : queue[i] \in Threads
      BY LengthOfQueue
    <2>2. n + 1 \in Int /\ Len(queue) \in Int
      BY <1>1
    <2>3. /\ SubSeq(queue, n + 1, Len(queue)) \in Seq(Threads)
          /\ Len(SubSeq(queue, n + 1, Len(queue)))
               = IF n + 1 <= Len(queue) THEN Len(queue) - (n + 1) + 1 ELSE 0
          /\ \A i \in 1 .. Len(queue) - (n + 1) + 1 :
               SubSeq(queue, n + 1, Len(queue))[i] = queue[n + 1 + i - 1]
      BY <2>1, <2>2, SubSeqProperties
    <2>4. QED
      BY <1>1, <1>2, <2>3
  <1>4. Idle \in Calls
    BY DEF Idle, Calls
  <1>5. QueueShape'
    BY <1>1, <1>2, <1>3, <1>4 DEF QueueShape
  <1>6. \A i \in 1 .. Len(queue') : call'[queue'[i]] = call[queue[i + n]] /\ i + n > 1
    <2>1. ASSUME NEW i \in 1 .. Len(queue') PROVE \A j \in 1 .. n : queue[j] # queue[i + n]
      <3>1. i + n \in 1 .. Len(queue) /\ \A j \in 1 .. n : j \in 1 .. Len(queue) /\ j # i + n
        BY <1>1, <1>3
      <3>2. QED
        BY <3>1 DEF QueueInv, InLine
    <2>2. \A i \in 1 .. Len(queue') : queue'[i] = queue[i + n] /\ queue[i + n] \in Threads
      BY <1>3, LengthOfQueue
    <2>3. QED
      BY <1>1, <1>2, <1>3, <2>1, <2>2
  <1>7. \A i \in 1 .. Len(queue') : call'[queue'[i]].phase = "wait"
    BY <1>3, <1>6 DEF QueueInv, InLine
  <1>8. InLine'
    <2>1. ~db'.up => queue' = <<>>
      BY <1>1, <1>3, LengthOfQueue DEF QueueInv, InLine
    <2>2. \A i, j \in 1 .. Len(queue') : queue'[i] = queue'[j] => i = j
      <3>1. ASSUME NEW i \in 1 .. Len(queue'), NEW j \in 1 .. Len(queue'), queue'[i] = queue'[j]
            PROVE  i + n = j + n
        BY <1>3, <3>1 DEF QueueInv, InLine
      <3>2. QED
        BY <3>1
    <2>3. QED
      BY <1>7, <2>1, <2>2 DEF InLine
  <1>9. queue' # <<>> => call'[queue'[1]].phase = "wait"
    BY <1>1, <1>3, <1>7
  <1>10. QED
    BY <1>5, <1>8, <1>9 DEF QueueInv, Grouped

LEMMA UpdatesType ==
    ASSUME QueueInv, NEW n \in 1 .. Len(queue)
    PROVE  Updates(n) \in Seq(Changes)
  <1> DEFINE batches == [i \in 1 .. n |-> call[queue[i]].batch]
  <1>1. n \in Nat /\ \A i \in 1 .. n : queue[i] \in Threads
    BY LengthOfQueue
  <1>2. \A i \in 1 .. n : call[queue[i]].batch \in Seq(Changes)
    BY <1>1 DEF QueueInv, QueueShape, Calls
  <1>3. batches \in Seq(Seq(Changes))
    BY <1>1, <1>2
  <1>4. Updates(n) = FlattenSeq(batches)
    BY DEF Updates
  <1> HIDE DEF batches
  <1>5. QED
    BY <1>3, <1>4, FlattenType

LEMMA QueueBegin == ASSUME QueueInv, DbShape, NEW t \in Writers, BeginWrite(t) PROVE QueueInv'
  <1>1. t \in Threads
    BY DEF Threads
  <1>2. PICK w \in Writes : Enqueue(t, w.batch, w.sync)
    BY DEF BeginWrite
  <1>3. w.batch \in Seq(Changes) /\ w.sync \in BOOLEAN
    BY LevelAssumption DEF LevelAssumption, Changes
  <1>4. UNCHANGED db
    BY DEF BeginWrite
  <1>5. QED
    BY <1>1, <1>2, <1>3, <1>4, QueueEnqueue

LEMMA QueueCompactRange == ASSUME QueueInv, DbShape, CompactRange PROVE QueueInv'
  <1>1. Compactor \in Threads /\ <<>> \in Seq(Changes) /\ FALSE \in BOOLEAN
    BY DEF Threads
  <1>2. Enqueue(Compactor, <<>>, FALSE) /\ UNCHANGED db
    BY DEF CompactRange
  <1>3. QED
    BY <1>1, <1>2, QueueEnqueue

LEMMA QueueRefused ==
    ASSUME QueueInv, NEW t \in Threads, WriteRefused(t) \/ NoNewLog(t) \/ WriteNothing(t)
    PROVE  QueueInv'
  <1>1. queue # <<>> /\ Leave(1) /\ db'.up = db.up
    BY DEF WriteRefused, NoNewLog, WriteNothing, Waiting, AtFront
  <1>2. 1 \in 1 .. Len(queue)
    BY <1>1, LengthOfQueue
  <1>3. QED
    BY <1>1, <1>2, QueueLeave

\* The first of the queue goes on, and its call with it.
LEMMA QueueHead ==
    ASSUME QueueInv, NEW t \in Threads, AtFront(t), queue' = queue, db'.up = db.up,
           NEW c \in Calls, call' = [call EXCEPT ![t] = c],
           c.phase # "idle",
           c.phase # "wait" =>
             /\ c.group \in 1 .. Len(queue)
             /\ c.first = db'.last + 1 /\ c.last >= db'.last
             /\ \A i \in 1 .. c.group : call[queue[i]].sync => c.sync
    PROVE  QueueInv'
  <1>1. /\ queue # <<>> /\ 1 \in 1 .. Len(queue) /\ queue[1] = t
        /\ \A i \in 1 .. Len(queue) : queue[i] \in Threads /\ (i # 1 => queue[i] # t)
    BY LengthOfQueue DEF AtFront, QueueInv, InLine
  <1>2. call \in [Threads -> Calls] /\ queue \in Seq(Threads)
    BY DEF QueueInv, QueueShape
  <1>3. /\ call' \in [Threads -> Calls] /\ call'[t] = c
        /\ \A u \in Threads : u # t => call'[u] = call[u]
    BY <1>2
  <1>4. QueueShape'
    BY <1>2, <1>3 DEF QueueShape
  <1>5. InLine'
    BY <1>1, <1>3 DEF QueueInv, InLine
  <1>6. ASSUME c.phase # "wait", NEW i \in 1 .. c.group, call'[queue[i]].sync PROVE c.sync
    <2>1. i \in 1 .. Len(queue)
      BY <1>6, LengthOfQueue
    <2>2. CASE i = 1
      BY <1>1, <1>3, <1>6, <2>2
    <2>3. CASE i # 1
      BY <1>1, <1>3, <1>6, <2>1, <2>3
    <2>4. QED
      BY <2>2, <2>3
  <1>7. Grouped'
    BY <1>1, <1>3, <1>6 DEF Grouped
  <1>8. QED
    BY <1>4, <1>5, <1>7 DEF QueueInv

LEMMA CallOf == ASSUME QueueInv, NEW t \in Threads PROVE call[t] \in Calls
  BY DEF QueueInv, QueueShape

LEMMA HeadIsFirst ==
    ASSUME QueueInv, NEW t \in Threads, AtFront(t)
    PROVE  queue # <<>> /\ queue[1] = t /\ Head(queue) = t /\ 1 \in 1 .. Len(queue)
  BY LengthOfQueue DEF AtFront

LEMMA QueueSwitch == ASSUME QueueInv, DbShape, NEW t \in Threads, SwitchMemTable(t) PROVE QueueInv'
  <1> DEFINE c == [call[t] EXCEPT !.force = FALSE]
  <1>1. /\ AtFront(t) /\ call[t].phase = "wait" /\ queue' = queue
        /\ call' = [call EXCEPT ![t].force = FALSE]
        /\ db' = [db EXCEPT !.log = db.next, !.next = @ + 1, !.imm = <<db.mem>>, !.mem = {}]
    BY DEF SwitchMemTable, Waiting
  <1>2. db'.up = db.up /\ db'.last = db.last
    BY <1>1 DEF DbShape, Fields
  <1>3. call[t] \in Calls
    BY CallOf
  <1>4. c \in Calls /\ c.phase = "wait" /\ call' = [call EXCEPT ![t] = c]
    BY <1>1, <1>3 DEF Calls
  <1> HIDE DEF c
  <1>5. QED
    BY <1>1, <1>2, <1>4, QueueHead

LEMMA QueueAppend == ASSUME QueueInv, DbShape, NEW t \in Threads, AppendRecord(t) PROVE QueueInv'
  <1>1. AtFront(t) /\ call[t].phase = "wait" /\ queue' = queue /\ db' = db
    BY DEF AppendRecord, Waiting
  <1>2. PICK n \in 1 .. Len(queue), phase \in {"insert", "append_failed"} :
            /\ Joins(n)
            /\ call' = [call EXCEPT ![t].phase = phase, ![t].group = n,
                         ![t].first = db.last + 1, ![t].last = db.last + Len(Updates(n))]
    <2>1. PICK n \in 1 .. Len(queue) :
            LET r == Record(n, TRUE)
                Then(phase) == call' = [call EXCEPT ![t].phase = phase, ![t].group = n,
                                        ![t].first = r.first, ![t].last = r.last]
            IN  Joins(n) /\ (Then("insert") \/ Then("append_failed"))
      BY DEF AppendRecord
    <2>2. Record(n, TRUE).first = db.last + 1 /\ Record(n, TRUE).last = db.last + Len(Updates(n))
      BY DEF Record
    <2>3. QED
      BY <2>1, <2>2
  <1> DEFINE last == db.last + Len(Updates(n))
             c == [call[t] EXCEPT !.phase = phase, !.group = n, !.first = db.last + 1,
                                  !.last = last]
  <1>3. db.last \in Nat /\ db.last + 1 \in Nat /\ last \in Nat /\ last >= db.last /\ n \in Nat
    <2>1. Len(Updates(n)) \in Nat
      BY UpdatesType, LenProperties
    <2>2. QED
      BY <2>1, LengthOfQueue DEF DbShape
  <1> HIDE DEF last
  <1>4. call[t] \in Calls
    BY CallOf
  <1>5. /\ c \in Calls /\ c.phase = phase /\ c.group = n /\ c.first = db.last + 1 /\ c.last = last
        /\ c.sync = call[t].sync
    BY <1>3, <1>4 DEF Calls
  <1>6. call' = [call EXCEPT ![t] = c]
    BY <1>2, <1>4 DEF Calls, last
  <1> HIDE DEF c
  <1>7. \A i \in 1 .. n : call[queue[i]].sync => c.sync
    <2>1. \A i \in 1 .. n : i = 1 \/ i \in 2 .. n
      BY <1>3
    <2>2. Head(queue) = t /\ queue[1] = t
      BY <1>1, HeadIsFirst
    <2>3. QED
      BY <1>2, <1>5, <2>1, <2>2 DEF Joins
  <1>8. QED
    BY <1>1, <1>3, <1>5, <1>6, <1>7, QueueHead

LEMMA QueueInsert == ASSUME QueueInv, DbShape, NEW t \in Threads, InsertInto(t) PROVE QueueInv'
  <1>1. /\ AtFront(t) /\ call[t].phase = "insert" /\ queue' = queue
        /\ db' = db \/ db' = [db EXCEPT !.mem = @ \cup (call[t].first .. call[t].last)]
    BY DEF InsertInto
  <1>2. PICK phase \in {"inserted", "sync_failed"} : call' = [call EXCEPT ![t].phase = phase]
    BY DEF InsertInto
  <1> DEFINE c == [call[t] EXCEPT !.phase = phase]
  <1>3. db'.up = db.up /\ db'.last = db.last
    BY <1>1 DEF DbShape, Fields
  <1>4. call[t] \in Calls /\ queue # <<>> /\ queue[1] = t
    BY <1>1, CallOf, HeadIsFirst
  <1>5. /\ c \in Calls /\ c.phase = phase /\ c.group = call[t].group /\ c.first = call[t].first
        /\ c.last = call[t].last /\ c.sync = call[t].sync /\ call' = [call EXCEPT ![t] = c]
    BY <1>2, <1>4 DEF Calls
  <1> HIDE DEF c
  <1>6. /\ c.group \in 1 .. Len(queue) /\ c.first = db.last + 1 /\ c.last >= db.last
        /\ \A i \in 1 .. c.group : call[queue[i]].sync => c.sync
    BY <1>1, <1>4, <1>5 DEF QueueInv, Grouped
  <1>7. QED
    BY <1>1, <1>3, <1>5, <1>6, QueueHead

LEMMA QueuePublish == ASSUME QueueInv, DbShape, NEW t \in Threads, Publish(t) PROVE QueueInv'
  <1>1. /\ AtFront(t) /\ call[t].phase # "wait" /\ Leave(call[t].group)
        /\ db' = [db EXCEPT !.last = call[t].last, !.failed = @ \/ call[t].phase = "sync_failed"]
    BY DEF Publish
  <1>2. call[t].group \in 1 .. Len(queue)
    BY <1>1, HeadIsFirst DEF QueueInv, Grouped
  <1>3. db'.up = db.up
    BY <1>1 DEF DbShape, Fields
  <1>4. QED
    BY <1>1, <1>2, <1>3, QueueLeave

LEMMA QueueDies == ASSUME QueueInv, NEW after, Dies(after) PROVE QueueInv'
  <1>1. queue' = <<>> /\ call' = [t \in Threads |-> Idle]
    BY DEF Dies
  <1>2. Idle \in Calls /\ <<>> \in Seq(Threads) /\ Len(<<>>) = 0
    BY DEF Idle, Calls
  <1>3. QED
    BY <1>1, <1>2 DEF QueueInv, QueueShape, InLine, Grouped

-----------------------------------------------------------------------------
(* The files: what is on disk, what is referenced, what is swept.          *)

DiskShape ==
    /\ Fields(disk, {"logs", "safe", "tables", "manifests", "current"})
    /\ DOMAIN disk.logs \subseteq Nat /\ DOMAIN disk.safe = DOMAIN disk.logs
    /\ \A n \in DOMAIN disk.logs :
         disk.logs[n] \in Seq(Records) /\ disk.safe[n] \in 0 .. Len(disk.logs[n])
    /\ \A n \in DOMAIN disk.manifests :
         /\ Fields(disk.manifests[n], {"ver", "log", "next", "last", "half"})
         /\ disk.manifests[n].log \in Nat /\ disk.manifests[n].next \in Nat
         /\ disk.manifests[n].last \in Nat

\* The background thread: what it is at when the database is open and when it
\* is not, and what its job and its edit are.
BgShape ==
    /\ Fields(bg, {"pc", "table", "job", "edit"})
    /\ db.up => bg.pc \in {"idle", "scheduled", "build", "work", "log", "install"}
    /\ ~db.up => /\ bg.pc \in {"idle", "open", "current", "opened"}
                 /\ bg.job = <<>> /\ reader = <<>> /\ db.seek = {}
    /\ bg.pc = "work" => bg.job # <<>>
    /\ bg.job # <<>> =>
         /\ 1 \in DOMAIN bg.job
         /\ Fields(bg.job[1], {"compaction", "manual", "done", "todo"})
         /\ bg.job[1].done \in Seq(Nat)
    /\ bg.pc \in {"log", "install", "open", "current", "opened"} =>
         bg.edit[1].log \in Nat /\ bg.edit[1].next \in Nat /\ bg.edit[1].last \in Nat

CurrentManifest == disk.manifests[disk.current]

\* CURRENT names a manifest, and that its tables.
Named ==
    /\ disk.current \in DOMAIN disk.manifests
    /\ DOMAIN CurrentManifest.ver \subseteq DOMAIN disk.tables

\* There are so many logs, and so many numbers in them.
Bounded ==
    \E b \in Nat : \A n \in DOMAIN disk.logs :
        n <= b /\ \A i \in DOMAIN disk.logs[n] : disk.logs[n][i].last <= b

\* The tables of the versions in use are on disk, and those a compaction has
\* written are there and pending.
Live ==
    db.up =>
        /\ DOMAIN db.ver \subseteq DOMAIN disk.tables
        /\ bg.job # <<>> =>
             /\ DOMAIN bg.job[1].compaction.version \subseteq DOMAIN disk.tables
             /\ Range(bg.job[1].done) \subseteq DOMAIN disk.tables
             /\ Range(bg.job[1].done) \subseteq db.pending
             /\ \A f \in Range(bg.job[1].done) : f < db.next
             /\ bg.pc = "build" => bg.table \notin Range(bg.job[1].done)
        /\ db.seek \subseteq DOMAIN db.ver
        /\ reader # <<>> => DOMAIN reader[1].ver \subseteq DOMAIN disk.tables

\* The logs of the memtables, and the log the manifest names.
Numbered ==
    db.up =>
        /\ db.manifest = disk.current
        /\ db.log \in DOMAIN disk.logs /\ db.logNumber \in DOMAIN disk.logs
        /\ CurrentManifest.log \in DOMAIN disk.logs
        /\ db.logNumber <= db.log /\ db.log < db.next

\* Without an error the manifest has no half record, and is the version but
\* while an edit that is in the manifest is yet to be installed.
InStep ==
    db.up /\ ~db.failed =>
        /\ ~CurrentManifest.half
        /\ bg.pc # "install" =>
             CurrentManifest.ver = db.ver /\ CurrentManifest.log = db.logNumber

\* What an edit adds is on disk.
Editing ==
    db.up /\ bg.pc \in {"log", "install"} =>
        /\ DOMAIN bg.edit[1].added \subseteq DOMAIN disk.tables
        /\ bg.edit[1].log \in DOMAIN disk.logs /\ bg.edit[1].log <= db.log
        /\ bg.pc = "install" /\ ~db.failed =>
             /\ CurrentManifest.ver = Apply(db.ver, bg.edit[1])
             /\ CurrentManifest.log = bg.edit[1].log

\* An Open has recovered its tables, written its manifest, and pointed CURRENT
\* to it, in this order.
Opening ==
    /\ bg.pc \in {"open", "current", "opened"} =>
         /\ DOMAIN bg.edit[1].added \subseteq DOMAIN disk.tables
         /\ DOMAIN db.ver \subseteq DOMAIN disk.tables
         /\ bg.edit[1].log = db.log /\ db.log \in DOMAIN disk.logs /\ db.log < db.next
    /\ bg.pc \in {"current", "opened"} =>
         /\ db.manifest \in DOMAIN disk.manifests
         /\ disk.manifests[db.manifest] = ApplyToManifest([ver |-> db.ver, half |-> FALSE], bg.edit[1])
    /\ bg.pc = "opened" => disk.current = db.manifest

Shape == DbShape /\ DiskShape /\ BgShape

FilesInv ==
    Shape /\ Bounded /\ Named /\ Live /\ Numbered /\ InStep /\ Editing /\ Opening

LEMMA RangeAppend ==
    ASSUME NEW s \in Seq(Nat), NEW n \in Nat
    PROVE  Range(Append(s, n)) = Range(s) \cup {n}
  <1>1. /\ Append(s, n) \in Seq(Nat) /\ Len(Append(s, n)) = Len(s) + 1
        /\ \A i \in 1 .. Len(s) : Append(s, n)[i] = s[i]
        /\ Append(s, n)[Len(s) + 1] = n
    BY AppendProperties
  <1>2. DOMAIN s = 1 .. Len(s) /\ DOMAIN Append(s, n) = 1 .. Len(s) + 1 /\ Len(s) \in Nat
    BY <1>1, LenProperties
  <1>3. \A i \in 1 .. Len(s) + 1 : i \in 1 .. Len(s) \/ i = Len(s) + 1
    BY <1>2
  <1>4. \A i \in 1 .. Len(s) : i \in 1 .. Len(s) + 1
    BY <1>2
  <1>5. Len(s) + 1 \in 1 .. Len(s) + 1
    BY <1>2
  <1>6. QED
    BY <1>1, <1>2, <1>3, <1>4, <1>5 DEF Range

\* The steps that change none of this.
LEMMA FilesSame == ASSUME FilesInv, UNCHANGED <<disk, db, bg, reader>> PROVE FilesInv'
  <1>1. disk' = disk /\ db' = db /\ bg' = bg /\ reader' = reader
    OBVIOUS
  <1>2. CurrentManifest' = CurrentManifest
    BY ONLY <1>1 DEF CurrentManifest
  <1>3. DbShape' /\ DiskShape' /\ BgShape'
    BY ONLY <1>1, FilesInv DEF FilesInv, Shape, DbShape, DiskShape, BgShape, Fields
  <1>4. Bounded' /\ Named'
    BY ONLY <1>1, <1>2, FilesInv DEF FilesInv, Bounded, Named
  <1>5. Live'
    BY ONLY <1>1, FilesInv DEF FilesInv, Live
  <1>6. Numbered' /\ InStep' /\ Editing'
    BY ONLY <1>1, <1>2, FilesInv DEF FilesInv, Numbered, InStep, Editing
  <1>7. Opening'
    BY ONLY <1>1, FilesInv DEF FilesInv, Opening
  <1>8. QED
    BY ONLY <1>3, <1>4, <1>5, <1>6, <1>7 DEF FilesInv, Shape

LEMMA FilesWrite ==
    ASSUME FilesInv, NEW t \in Threads,
           WriteRefused(t) \/ NoNewLog(t) \/ WriteNothing(t) \/ BeginWrite(t)
    PROVE  FilesInv'
  BY FilesSame DEF WriteRefused, NoNewLog, WriteNothing, BeginWrite

LEMMA DoneNumbers == ASSUME BgShape, bg.job # <<>> PROVE Range(bg.job[1].done) \subseteq Nat
  <1>1. bg.job[1].done \in Seq(Nat)
    BY DEF BgShape
  <1>2. QED
    BY <1>1, LenProperties DEF Range

LEMMA RecordsOf ==
    ASSUME NEW records \in Seq(Records)
    PROVE  /\ DOMAIN records = 1 .. Len(records) /\ Len(records) \in Nat
           /\ \A i \in DOMAIN records :
                /\ records[i] \in Records
                /\ records[i].first \in Nat /\ records[i].last \in Nat
  <1>1. DOMAIN records = 1 .. Len(records) /\ Len(records) \in Nat
    BY LenProperties
  <1>2. \A i \in 1 .. Len(records) : records[i] \in Records
    BY ElementOfSeq
  <1>3. QED
    BY <1>1, <1>2 DEF Records

LEMMA FilesSwitch == ASSUME FilesInv, NEW t \in Threads, SwitchMemTable(t) PROVE FilesInv'
  <1> USE DEF FilesInv, Shape
  <1>1. /\ db.up /\ DbShape /\ DiskShape /\ BgShape
        /\ disk' = [disk EXCEPT !.logs = With(@, db.next, <<>>), !.safe = With(@, db.next, 0)]
        /\ db' = [db EXCEPT !.log = db.next, !.next = @ + 1, !.imm = <<db.mem>>, !.mem = {}]
        /\ bg' = IF bg.pc = "idle" /\ Scheduled(db', manual) THEN [bg EXCEPT !.pc = "scheduled"] ELSE bg
        /\ reader' = reader
    BY DEF SwitchMemTable, MaybeSchedule, Waiting, AtFront
  <1>2. DbShape'
    <2>1. db.next + 1 \in Nat
      BY DEF DbShape
    <2>2. QED
      BY <1>1, <2>1 DEF DbShape, Fields
  <1>3. DiskShape'
    <2>1. <<>> \in Seq(Records) /\ 0 \in 0 .. Len(<<>>) /\ db.next \in Nat
      BY DEF DbShape
    <2>2. QED
      BY <1>1, <2>1 DEF DiskShape, Fields, With
  <1>4. BgShape'
    BY <1>1 DEF BgShape, DbShape, Fields, With
  <1>5. Named'
    BY <1>1 DEF Named, DiskShape, Fields, With, CurrentManifest
  <1>6. Live'
    <2>1. db'.next = db.next + 1 /\ db.next \in Nat
      BY <1>1 DEF DbShape, Fields
    <2>2. \A f \in Nat : f < db.next => f < db'.next
      BY <2>1
    <2>3. bg.job # <<>> => Range(bg.job[1].done) \subseteq Nat
      BY DoneNumbers
    <2>4. bg'.job = bg.job /\ (bg'.pc = "build" => bg.pc = "build") /\ bg'.table = bg.table
      BY <1>1 DEF BgShape, Fields
    <2>5. /\ db'.up = db.up /\ db'.ver = db.ver /\ db'.pending = db.pending /\ db'.seek = db.seek
          /\ disk'.tables = disk.tables
      BY <1>1 DEF DbShape, DiskShape, Fields
    <2>6. QED
      BY <1>1, <2>2, <2>3, <2>4, <2>5 DEF Live
  <1>7. Numbered'
    BY <1>1 DEF Numbered, DiskShape, Fields, With, DbShape, CurrentManifest
  <1>8. InStep'
    BY <1>1 DEF InStep, DiskShape, Fields, With, DbShape, CurrentManifest, BgShape
  <1>9. Editing'
    BY <1>1, SMTT(30) DEF Editing, DiskShape, Fields, With, DbShape, CurrentManifest, BgShape, Numbered
  <1>10. Opening'
    BY <1>1 DEF Opening, BgShape, Fields, With
  <1>11. Bounded'
    <2>1. PICK b \in Nat : \A n \in DOMAIN disk.logs :
              n <= b /\ \A i \in DOMAIN disk.logs[n] : disk.logs[n][i].last <= b
      BY DEF Bounded
    <2> DEFINE c == IF b < db.next THEN db.next ELSE b
    <2>2. c \in Nat /\ b <= c /\ db.next <= c
      BY DEF DbShape
    <2> HIDE DEF c
    <2>3. disk'.logs = With(disk.logs, db.next, <<>>)
      BY <1>1 DEF DiskShape, Fields
    <2>4. /\ DOMAIN disk'.logs = {db.next} \cup DOMAIN disk.logs
          /\ \A n \in DOMAIN disk'.logs : disk'.logs[n] = IF n = db.next THEN <<>> ELSE disk.logs[n]
      BY <2>3 DEF With
    <2>5. ASSUME NEW n \in DOMAIN disk'.logs
          PROVE  n <= c /\ \A i \in DOMAIN disk'.logs[n] : disk'.logs[n][i].last <= c
      <3>1. CASE n = db.next
        BY <2>2, <2>4, <3>1
      <3>2. CASE n # db.next
        <4>1. /\ n \in DOMAIN disk.logs /\ n \in Nat /\ disk'.logs[n] = disk.logs[n]
              /\ disk.logs[n] \in Seq(Records)
          BY <2>4, <2>5, <3>2 DEF DiskShape
        <4>2. \A i \in DOMAIN disk.logs[n] : disk.logs[n][i].last \in Nat
          BY <4>1, RecordsOf
        <4>3. QED
          BY <2>1, <2>2, <4>1, <4>2
      <3>3. QED
        BY <3>1, <3>2
    <2>6. QED
      BY <2>2, <2>5 DEF Bounded
  <1>12. QED
    BY <1>2, <1>3, <1>4, <1>5, <1>6, <1>7, <1>8, <1>9, <1>10, <1>11

LEMMA FilesInsert == ASSUME FilesInv, QueueInv, NEW t \in Threads, InsertInto(t) PROVE FilesInv'
  <1> USE DEF FilesInv, Shape
  <1>1. /\ DbShape /\ DiskShape /\ BgShape
        /\ db.up /\ bg' = bg /\ reader' = reader
        /\ disk' = disk \/ disk' = [disk EXCEPT !.safe[db.log] = Len(disk.logs[db.log])]
        /\ db' = db \/ db' = [db EXCEPT !.mem = @ \cup (call[t].first .. call[t].last)]
    BY DEF InsertInto, AtFront
  <1>2. DbShape'
    BY <1>1 DEF DbShape, Fields, Numbered
  <1>3. DiskShape'
    <2>1. db.log \in DOMAIN disk.logs /\ Len(disk.logs[db.log]) \in Nat
      BY <1>1, LenProperties DEF Numbered, DiskShape
    <2>2. Len(disk.logs[db.log]) \in 0 .. Len(disk.logs[db.log])
      BY <2>1
    <2>3. QED
      <3>1. CASE disk' = disk
        BY <3>1 DEF DiskShape, Fields
      <3>2. CASE disk' = [disk EXCEPT !.safe[db.log] = Len(disk.logs[db.log])]
        <4>1. /\ DOMAIN disk' = DOMAIN disk /\ disk'.logs = disk.logs
              /\ disk'.manifests = disk.manifests /\ DOMAIN disk'.safe = DOMAIN disk.safe
              /\ \A n \in DOMAIN disk.logs :
                   disk'.safe[n] = IF n = db.log THEN Len(disk.logs[db.log]) ELSE disk.safe[n]
          BY <3>2 DEF DiskShape, Fields
        <4>2. QED
          BY <2>2, <4>1 DEF DiskShape, Fields
      <3>3. QED
        BY <1>1, <3>1, <3>2
  <1>4. BgShape'
    BY <1>1 DEF BgShape, DbShape, Fields, Numbered
  <1>5. Named'
    BY <1>1 DEF Named, DiskShape, Fields, CurrentManifest, Numbered
  <1>6. Live'
    BY <1>1 DEF Live, DiskShape, Fields, DbShape, BgShape, Numbered
  <1>7. Numbered'
    BY <1>1 DEF Numbered, DiskShape, Fields, DbShape, CurrentManifest, Numbered
  <1>8. InStep'
    BY <1>1 DEF InStep, DiskShape, Fields, DbShape, CurrentManifest, BgShape, Numbered
  <1>9. Editing'
    BY <1>1 DEF Editing, DiskShape, Fields, DbShape, CurrentManifest, BgShape, Numbered, Numbered
  <1>10. Opening'
    BY <1>1 DEF Opening, DbShape, BgShape, DiskShape, Fields, Numbered
  <1>11. Bounded'
    BY <1>1 DEF Bounded, DiskShape, Fields
  <1>12. QED
    BY <1>2, <1>3, <1>4, <1>5, <1>6, <1>7, <1>8, <1>9, <1>10, <1>11

LEMMA FilesPublish == ASSUME FilesInv, QueueInv, NEW t \in Threads, Publish(t) PROVE FilesInv'
  <1> USE DEF FilesInv, Shape
  <1>1. /\ DbShape /\ DiskShape /\ BgShape
        /\ db.up /\ disk' = disk /\ bg' = bg /\ reader' = reader
        /\ db' = [db EXCEPT !.last = call[t].last, !.failed = @ \/ call[t].phase = "sync_failed"]
    BY DEF Publish, AtFront
  <1>2. DbShape'
    <2>1. call[t].last \in Nat
      BY CallOf DEF Calls
    <2>2. (db.failed \/ call[t].phase = "sync_failed") \in BOOLEAN
      OBVIOUS
    <2>3. QED
      BY <1>1, <2>1, <2>2 DEF DbShape, Fields
  <1>3. DiskShape'
    BY <1>1 DEF DiskShape, DbShape, Fields
  <1>4. BgShape'
    BY <1>1 DEF BgShape, DbShape, Fields
  <1>5. Named'
    BY <1>1 DEF Named, DiskShape, Fields, CurrentManifest
  <1>6. Live'
    BY <1>1 DEF Live, DiskShape, Fields, DbShape, BgShape
  <1>7. Numbered'
    BY <1>1 DEF Numbered, DiskShape, Fields, DbShape, CurrentManifest
  <1>8. InStep'
    BY <1>1 DEF InStep, DiskShape, Fields, DbShape, CurrentManifest, BgShape
  <1>9. Editing'
    BY <1>1 DEF Editing, DiskShape, Fields, DbShape, CurrentManifest, BgShape, Numbered
  <1>10. Opening'
    BY <1>1 DEF Opening, DbShape, BgShape, DiskShape, Fields
  <1>11. Bounded'
    BY <1>1 DEF Bounded, DiskShape, Fields
  <1>12. QED
    BY <1>2, <1>3, <1>4, <1>5, <1>6, <1>7, <1>8, <1>9, <1>10, <1>11

LEMMA Schedules ==
    ASSUME NEW d, NEW m, MaybeSchedule(d, m)
    PROVE  bg' = bg \/ (bg.pc = "idle" /\ bg' = [bg EXCEPT !.pc = "scheduled"])
  <1>1. CASE bg.pc = "idle" /\ Scheduled(d, m)
    BY <1>1 DEF MaybeSchedule
  <1>2. CASE ~(bg.pc = "idle" /\ Scheduled(d, m))
    BY <1>2, Zenon DEF MaybeSchedule
  <1>3. QED
    BY <1>1, <1>2

LEMMA FilesIterator == ASSUME FilesInv, QueueInv, (NewIterator \/ ReleaseIterator) PROVE FilesInv'
  <1> USE DEF FilesInv, Shape
  <1>1. /\ DbShape /\ DiskShape /\ BgShape
        /\ disk' = disk /\ bg' = bg /\ db' = db
        /\ reader' = <<>> \/ (db.up /\ \E s : reader' = <<[snapshot |-> s, mem |-> db.mem, imm |-> Imm(db), ver |-> db.ver]>>)
    <2>1. CASE NewIterator
      BY <2>1, Zenon DEF NewIterator
    <2>2. CASE ReleaseIterator
      BY <2>2, Zenon DEF ReleaseIterator
    <2>3. QED
      BY <2>1, <2>2
  <1>2. DbShape'
    BY <1>1 DEF DbShape, Fields
  <1>3. DiskShape'
    BY <1>1 DEF DiskShape, DbShape, Fields
  <1>4. BgShape'
    BY <1>1 DEF BgShape, DbShape, Fields
  <1>5. Named'
    BY <1>1 DEF Named, DiskShape, Fields, CurrentManifest
  <1>6. Live'
    BY <1>1 DEF Live, DiskShape, Fields, DbShape, BgShape
  <1>7. Numbered'
    BY <1>1 DEF Numbered, DiskShape, Fields, DbShape, CurrentManifest
  <1>8. InStep'
    BY <1>1 DEF InStep, DiskShape, Fields, DbShape, CurrentManifest, BgShape
  <1>9. Editing'
    BY <1>1 DEF Editing, DiskShape, Fields, DbShape, CurrentManifest, BgShape, Numbered
  <1>10. Opening'
    BY <1>1 DEF Opening, DbShape, BgShape, DiskShape, Fields
  <1>11. Bounded'
    BY <1>1 DEF Bounded, DiskShape, Fields
  <1>12. QED
    BY <1>2, <1>3, <1>4, <1>5, <1>6, <1>7, <1>8, <1>9, <1>10, <1>11

LEMMA FilesSeek == ASSUME FilesInv, QueueInv, NEW f \in DOMAIN db.ver, ChargeSeek(f) PROVE FilesInv'
  <1> USE DEF FilesInv, Shape
  <1>1. /\ DbShape /\ DiskShape /\ BgShape
        /\ db.up /\ disk' = disk /\ reader' = reader /\ db' = [db EXCEPT !.seek = {f}]
        /\ bg' = bg \/ (bg.pc = "idle" /\ bg' = [bg EXCEPT !.pc = "scheduled"])
    <2>1. MaybeSchedule(db', manual)
      BY DEF ChargeSeek
    <2>2. bg' = bg \/ (bg.pc = "idle" /\ bg' = [bg EXCEPT !.pc = "scheduled"])
      BY <2>1, Schedules
    <2>3. QED
      BY <2>2 DEF ChargeSeek
  <1>2. DbShape'
    BY <1>1 DEF DbShape, Fields
  <1>3. DiskShape'
    BY <1>1 DEF DiskShape, DbShape, Fields
  <1>4. BgShape'
    BY <1>1 DEF BgShape, DbShape, Fields
  <1>5. Named'
    BY <1>1 DEF Named, DiskShape, Fields, CurrentManifest
  <1>6. Live'
    BY <1>1 DEF Live, DiskShape, Fields, DbShape, BgShape
  <1>7. Numbered'
    BY <1>1 DEF Numbered, DiskShape, Fields, DbShape, CurrentManifest
  <1>8. InStep'
    BY <1>1 DEF InStep, DiskShape, Fields, DbShape, CurrentManifest, BgShape
  <1>9. Editing'
    BY <1>1 DEF Editing, DiskShape, Fields, DbShape, CurrentManifest, BgShape, Numbered
  <1>10. Opening'
    BY <1>1 DEF Opening, DbShape, BgShape, DiskShape, Fields
  <1>11. Bounded'
    BY <1>1 DEF Bounded, DiskShape, Fields
  <1>12. QED
    BY <1>2, <1>3, <1>4, <1>5, <1>6, <1>7, <1>8, <1>9, <1>10, <1>11

LEMMA FilesRegister == ASSUME FilesInv, QueueInv, Register PROVE FilesInv'
  <1> USE DEF FilesInv, Shape
  <1>1. /\ DbShape /\ DiskShape /\ BgShape
        /\ db.up /\ disk' = disk /\ reader' = reader /\ db' = db
        /\ bg' = bg \/ (bg.pc = "idle" /\ bg' = [bg EXCEPT !.pc = "scheduled"])
    <2>1. MaybeSchedule(db, manual')
      BY DEF Register
    <2>2. bg' = bg \/ (bg.pc = "idle" /\ bg' = [bg EXCEPT !.pc = "scheduled"])
      BY <2>1, Schedules
    <2>3. QED
      BY <2>2 DEF Register
  <1>2. DbShape'
    BY <1>1 DEF DbShape, Fields
  <1>3. DiskShape'
    BY <1>1 DEF DiskShape, DbShape, Fields
  <1>4. BgShape'
    BY <1>1 DEF BgShape, DbShape, Fields
  <1>5. Named'
    BY <1>1 DEF Named, DiskShape, Fields, CurrentManifest
  <1>6. Live'
    BY <1>1 DEF Live, DiskShape, Fields, DbShape, BgShape
  <1>7. Numbered'
    BY <1>1 DEF Numbered, DiskShape, Fields, DbShape, CurrentManifest
  <1>8. InStep'
    BY <1>1 DEF InStep, DiskShape, Fields, DbShape, CurrentManifest, BgShape
  <1>9. Editing'
    BY <1>1 DEF Editing, DiskShape, Fields, DbShape, CurrentManifest, BgShape, Numbered
  <1>10. Opening'
    BY <1>1 DEF Opening, DbShape, BgShape, DiskShape, Fields
  <1>11. Bounded'
    BY <1>1 DEF Bounded, DiskShape, Fields
  <1>12. QED
    BY <1>2, <1>3, <1>4, <1>5, <1>6, <1>7, <1>8, <1>9, <1>10, <1>11

LEMMA FilesNothing == ASSUME FilesInv, QueueInv, (NothingToDo \/ ManualDone) PROVE FilesInv'
  <1> USE DEF FilesInv, Shape
  <1>1. /\ DbShape /\ DiskShape /\ BgShape
        /\ db.up /\ bg.pc = "scheduled" /\ disk' = disk /\ reader' = reader /\ db' = db
        /\ \E pc \in {"idle", "scheduled"} : bg' = [NoWork EXCEPT !.pc = pc]
    BY DEF NothingToDo, ManualDone, Ended, NoWork
  <1>2. DbShape'
    BY <1>1 DEF DbShape, Fields, NoWork
  <1>3. DiskShape'
    BY <1>1 DEF DiskShape, DbShape, Fields, NoWork
  <1>4. BgShape'
    BY <1>1 DEF BgShape, DbShape, Fields, NoWork
  <1>5. Named'
    BY <1>1 DEF Named, DiskShape, Fields, CurrentManifest, NoWork
  <1>6. Live'
    BY <1>1 DEF Live, DiskShape, Fields, DbShape, BgShape, NoWork
  <1>7. Numbered'
    BY <1>1 DEF Numbered, DiskShape, Fields, DbShape, CurrentManifest, NoWork
  <1>8. InStep'
    BY <1>1 DEF InStep, DiskShape, Fields, DbShape, CurrentManifest, BgShape, NoWork
  <1>9. Editing'
    BY <1>1 DEF Editing, DiskShape, Fields, DbShape, CurrentManifest, BgShape, Numbered, NoWork
  <1>10. Opening'
    BY <1>1 DEF Opening, DbShape, BgShape, DiskShape, Fields, NoWork
  <1>11. Bounded'
    BY <1>1 DEF Bounded, DiskShape, Fields
  <1>12. QED
    BY <1>2, <1>3, <1>4, <1>5, <1>6, <1>7, <1>8, <1>9, <1>10, <1>11

LEMMA FilesBeginFlush == ASSUME FilesInv, QueueInv, BeginFlush PROVE FilesInv'
  <1> USE DEF FilesInv, Shape
  <1>1. /\ DbShape /\ DiskShape /\ BgShape
        /\ db.up /\ disk' = disk /\ reader' = reader
        /\ db' = [db EXCEPT !.next = @ + 1, !.pending = @ \cup {db.next}]
        /\ bg' = [bg EXCEPT !.pc = "build", !.table = db.next] /\ bg.pc \in {"scheduled", "work"}
    BY DEF BeginFlush
  <1>2. DbShape'
    <2>1. db.next + 1 \in Nat
      BY DEF DbShape
    <2>2. QED
      BY <1>1, <2>1 DEF DbShape, Fields
  <1>3. DiskShape'
    BY <1>1 DEF DiskShape, DbShape, Fields
  <1>4. BgShape'
    BY <1>1 DEF BgShape, DbShape, Fields
  <1>5. Named'
    BY <1>1 DEF Named, DiskShape, Fields, CurrentManifest
  <1>6. Live'
    <2>1. db'.next = db.next + 1 /\ db.next \in Nat
      BY <1>1 DEF DbShape, Fields
    <2>2. \A f \in Nat : f < db.next => f < db'.next /\ f # db.next
      BY <2>1
    <2>3. bg.job # <<>> => Range(bg.job[1].done) \subseteq Nat
      BY DoneNumbers
    <2>4. bg'.job = bg.job /\ bg'.table = db.next
      BY <1>1 DEF BgShape, Fields
    <2>5. /\ db'.up = db.up /\ db'.ver = db.ver /\ db'.pending = db.pending \cup {db.next}
          /\ db'.seek = db.seek
      BY <1>1 DEF DbShape, Fields
    <2>6. QED
      BY <1>1, <2>2, <2>3, <2>4, <2>5 DEF Live
  <1>7. Numbered'
    BY <1>1 DEF Numbered, DiskShape, Fields, DbShape, CurrentManifest
  <1>8. InStep'
    BY <1>1 DEF InStep, DiskShape, Fields, DbShape, CurrentManifest, BgShape
  <1>9. Editing'
    BY <1>1 DEF Editing, DiskShape, Fields, DbShape, CurrentManifest, BgShape, Numbered
  <1>10. Opening'
    BY <1>1 DEF Opening, DbShape, BgShape, DiskShape, Fields
  <1>11. Bounded'
    BY <1>1 DEF Bounded, DiskShape, Fields
  <1>12. QED
    BY <1>2, <1>3, <1>4, <1>5, <1>6, <1>7, <1>8, <1>9, <1>10, <1>11

LEMMA FilesLogResults == ASSUME FilesInv, QueueInv, LogResults PROVE FilesInv'
  <1> USE DEF FilesInv, Shape
  <1>1. /\ DbShape /\ DiskShape /\ BgShape
        /\ db.up /\ disk' = disk /\ reader' = reader /\ db' = db
        /\ bg.pc = "work" /\ bg.job # <<>>
        /\ bg' = [bg EXCEPT !.pc = "log", !.edit = <<[kind |-> "compact", deleted |-> bg.job[1].compaction.in0 \cup bg.job[1].compaction.in1,
                    added |-> [f \in Range(bg.job[1].done) |-> bg.job[1].compaction.level + 1],
                    log |-> db.logNumber, next |-> db.next, last |-> db.last]>>]
    BY DEF LogResults, Edit, BgShape
  <1>2. DbShape'
    BY <1>1 DEF DbShape, Fields, Live
  <1>3. DiskShape'
    BY <1>1 DEF DiskShape, DbShape, Fields, Live
  <1>4. BgShape'
    BY <1>1 DEF BgShape, DbShape, Fields, Live
  <1>5. Named'
    BY <1>1 DEF Named, DiskShape, Fields, CurrentManifest, Live
  <1>6. Live'
    BY <1>1 DEF Live, DiskShape, Fields, DbShape, BgShape, Live
  <1>7. Numbered'
    BY <1>1 DEF Numbered, DiskShape, Fields, DbShape, CurrentManifest, Live
  <1>8. InStep'
    BY <1>1 DEF InStep, DiskShape, Fields, DbShape, CurrentManifest, BgShape, Live
  <1>9. Editing'
    BY <1>1 DEF Editing, DiskShape, Fields, DbShape, CurrentManifest, BgShape, Numbered, Live
  <1>10. Opening'
    BY <1>1 DEF Opening, DbShape, BgShape, DiskShape, Fields, Live
  <1>11. Bounded'
    BY <1>1 DEF Bounded, DiskShape, Fields
  <1>12. QED
    BY <1>2, <1>3, <1>4, <1>5, <1>6, <1>7, <1>8, <1>9, <1>10, <1>11

LEMMA FilesWriteOutput == ASSUME FilesInv, QueueInv, WriteOutput PROVE FilesInv'
  <1> USE DEF FilesInv, Shape
  <1>1. /\ DbShape /\ DiskShape /\ BgShape
        /\ db.up /\ reader' = reader
        /\ bg.pc = "work" /\ bg.job # <<>>
        /\ disk' = [disk EXCEPT !.tables = With(@, db.next, Head(bg.job[1].todo))]
        /\ db' = [db EXCEPT !.next = @ + 1, !.pending = @ \cup {db.next}]
        /\ bg' = [bg EXCEPT !.job[1].todo = Tail(@), !.job[1].done = Append(@, db.next)]
    BY DEF WriteOutput, BgShape
  <1>2. DbShape'
    <2>1. db.next + 1 \in Nat
      BY DEF DbShape
    <2>2. QED
      BY <1>1, <2>1 DEF DbShape, Fields
  <1>3. DiskShape'
    BY <1>1 DEF DiskShape, DbShape, Fields, With
  <1>4. BgShape'
    BY <1>1 DEF BgShape, DbShape, Fields, With
  <1>5. Named'
    BY <1>1 DEF Named, DiskShape, Fields, CurrentManifest, With
  <1>6. Live'
    <2>1. bg.job[1].done \in Seq(Nat) /\ 1 \in DOMAIN bg.job /\ db.next \in Nat
      BY <1>1 DEF BgShape, DbShape
    <2>2. bg'.job[1].done = Append(bg.job[1].done, db.next)
      BY <1>1, <2>1 DEF BgShape, Fields
    <2>3. bg'.job[1].compaction = bg.job[1].compaction
      BY <1>1, <2>1 DEF BgShape, Fields
    <2>4. Range(bg'.job[1].done) = Range(bg.job[1].done) \cup {db.next}
      BY <2>1, <2>2, RangeAppend
    <2>5. DOMAIN disk'.tables = {db.next} \cup DOMAIN disk.tables
      BY <1>1 DEF DiskShape, Fields, With
    <2>6. db'.pending = db.pending \cup {db.next} /\ db'.ver = db.ver /\ db'.up = db.up
      BY <1>1 DEF DbShape, Fields
    <2>7. QED
      <3>1. db'.next = db.next + 1 /\ db'.seek = db.seek
        BY <1>1 DEF DbShape, Fields
      <3>2. \A f \in Range(bg'.job[1].done) : f < db'.next
        <4>1. Range(bg.job[1].done) \subseteq Nat /\ \A f \in Range(bg.job[1].done) : f < db.next
          BY <1>1, DoneNumbers DEF Live
        <4>2. QED
          BY <2>1, <2>4, <3>1, <4>1
      <3>3. bg'.pc = "work"
        BY <1>1 DEF BgShape, Fields
      <3>4. QED
        BY <1>1, <2>3, <2>4, <2>5, <2>6, <3>1, <3>2, <3>3 DEF Live
  <1>7. Numbered'
    BY <1>1 DEF Numbered, DiskShape, Fields, DbShape, CurrentManifest, With
  <1>8. InStep'
    BY <1>1 DEF InStep, DiskShape, Fields, DbShape, CurrentManifest, BgShape, With
  <1>9. Editing'
    BY <1>1 DEF Editing, DiskShape, Fields, DbShape, CurrentManifest, BgShape, Numbered, With
  <1>10. Opening'
    BY <1>1 DEF Opening, DbShape, BgShape, DiskShape, Fields, With
  <1>11. Bounded'
    BY <1>1 DEF Bounded, DiskShape, Fields
  <1>12. QED
    BY <1>2, <1>3, <1>4, <1>5, <1>6, <1>7, <1>8, <1>9, <1>10, <1>11

LEMMA FilesManifestWritten == ASSUME FilesInv, QueueInv, ManifestWritten PROVE FilesInv'
  <1> USE DEF FilesInv, Shape
  <1>1. /\ DbShape /\ DiskShape /\ BgShape
        /\ db.up /\ reader' = reader /\ db' = db
        /\ bg.pc = "log" /\ bg' = [bg EXCEPT !.pc = "install"]
        /\ disk' = [disk EXCEPT !.manifests[db.manifest] = ApplyToManifest(@, bg.edit[1])]
    BY DEF ManifestWritten
  <1>2. DbShape'
    BY <1>1 DEF DbShape, Fields, Numbered, Apply, ApplyToManifest, Over, Only, Editing
  <1>3. DiskShape'
    BY <1>1 DEF DiskShape, BgShape, Fields, Numbered, ApplyToManifest
  <1>4. BgShape'
    BY <1>1 DEF BgShape, DbShape, Fields, Numbered, Apply, ApplyToManifest, Over, Only, Editing
  <1>5. Named'
    BY <1>1 DEF Named, DiskShape, Fields, CurrentManifest, Numbered, Apply, ApplyToManifest, Over, Only, Editing
  <1>6. Live'
    BY <1>1 DEF Live, DiskShape, Fields, DbShape, BgShape, Numbered, Apply, ApplyToManifest, Over, Only, Editing
  <1>7. Numbered'
    <2>1. /\ disk'.logs = disk.logs /\ disk'.current = disk.current /\ bg'.edit = bg.edit
          /\ CurrentManifest'.log \in {CurrentManifest.log, bg.edit[1].log}
      BY <1>1 DEF Named, DiskShape, BgShape, Fields, CurrentManifest, Numbered, ApplyToManifest
    <2>2. bg.edit[1].log \in DOMAIN disk.logs /\ CurrentManifest.log \in DOMAIN disk.logs
      BY <1>1 DEF Editing, Numbered
    <2>3. QED
      BY ONLY <1>1, <2>1, <2>2, Numbered DEF Numbered
  <1>8. InStep'
    BY <1>1 DEF InStep, DiskShape, Fields, DbShape, CurrentManifest, BgShape, Numbered, Apply, ApplyToManifest, Over, Only, Editing
  <1>9. Editing'
    <2>1. /\ disk'.current = disk.current /\ disk'.tables = disk.tables /\ disk'.logs = disk.logs
          /\ disk'.manifests[disk.current] = ApplyToManifest(CurrentManifest, bg.edit[1])
      BY <1>1 DEF DiskShape, Fields, Numbered, Named, CurrentManifest
    <2>2. bg'.edit = bg.edit /\ bg'.pc = "install"
      BY <1>1 DEF BgShape, Fields
    <2>3. ~db.failed => CurrentManifest.ver = db.ver /\ ~CurrentManifest.half
      BY <1>1 DEF InStep
    <2>4. CurrentManifest' = ApplyToManifest(CurrentManifest, bg.edit[1])
      BY <2>1 DEF CurrentManifest
    <2>5. QED
      BY <1>1, <2>1, <2>2, <2>3, <2>4 DEF Editing, ApplyToManifest
  <1>10. Opening'
    BY <1>1 DEF Opening, DbShape, BgShape, DiskShape, Fields, Numbered, Apply, ApplyToManifest, Over, Only, Editing
  <1>11. Bounded'
    BY <1>1 DEF Bounded, DiskShape, Fields
  <1>12. QED
    BY <1>2, <1>3, <1>4, <1>5, <1>6, <1>7, <1>8, <1>9, <1>10, <1>11

LEMMA FilesNewManifest == ASSUME FilesInv, QueueInv, NewManifest PROVE FilesInv'
  <1> USE DEF FilesInv, Shape
  <1>1. /\ DbShape /\ DiskShape /\ BgShape
        /\ bg.pc = "open" /\ reader' = reader /\ db' = db
        /\ bg' = [bg EXCEPT !.pc = "current"]
        /\ disk' = [disk EXCEPT !.manifests = With(@, db.manifest, ApplyToManifest([ver |-> db.ver, half |-> FALSE], bg.edit[1]))]
    BY DEF NewManifest
  <1>2. DbShape'
    BY <1>1 DEF DbShape, Fields, With, Apply, ApplyToManifest, Over, Only, Opening
  <1>3. DiskShape'
    BY <1>1 DEF DiskShape, BgShape, Fields, With, ApplyToManifest
  <1>4. BgShape'
    BY <1>1 DEF BgShape, DbShape, Fields, With, Apply, ApplyToManifest, Over, Only, Opening
  <1>5. Named'
    BY <1>1 DEF Named, DiskShape, Fields, CurrentManifest, With, Apply, ApplyToManifest, Over, Only, Opening
  <1>6. Live'
    BY <1>1 DEF Live, DiskShape, Fields, DbShape, BgShape, With, Apply, ApplyToManifest, Over, Only, Opening
  <1>7. Numbered'
    BY <1>1 DEF Numbered, DiskShape, Fields, DbShape, CurrentManifest, With, Apply, ApplyToManifest, Over, Only, Opening
  <1>8. InStep'
    BY <1>1 DEF InStep, DiskShape, Fields, DbShape, CurrentManifest, BgShape, With, Apply, ApplyToManifest, Over, Only, Opening
  <1>9. Editing'
    BY <1>1 DEF Editing, DiskShape, Fields, DbShape, CurrentManifest, BgShape, Numbered, With, Apply, ApplyToManifest, Over, Only, Opening
  <1>10. Opening'
    BY <1>1 DEF Opening, DbShape, BgShape, DiskShape, Fields, With, Apply, ApplyToManifest, Over, Only, Opening
  <1>11. Bounded'
    BY <1>1 DEF Bounded, DiskShape, Fields
  <1>12. QED
    BY <1>2, <1>3, <1>4, <1>5, <1>6, <1>7, <1>8, <1>9, <1>10, <1>11

LEMMA FilesCurrent == ASSUME FilesInv, QueueInv, SetCurrentFile PROVE FilesInv'
  <1> USE DEF FilesInv, Shape
  <1>1. /\ DbShape /\ DiskShape /\ BgShape
        /\ bg.pc = "current" /\ reader' = reader /\ db' = db
        /\ bg' = [bg EXCEPT !.pc = "opened"]
        /\ disk' = [disk EXCEPT !.current = db.manifest]
    BY DEF SetCurrentFile
  <1>2. DbShape'
    BY <1>1 DEF DbShape, Fields, Apply, ApplyToManifest, Over, Only, Opening
  <1>3. DiskShape'
    BY <1>1 DEF DiskShape, DbShape, Fields, Apply, ApplyToManifest, Over, Only, Opening
  <1>4. BgShape'
    BY <1>1 DEF BgShape, DbShape, Fields, Apply, ApplyToManifest, Over, Only, Opening
  <1>5. Named'
    BY <1>1 DEF Named, DiskShape, Fields, CurrentManifest, Apply, ApplyToManifest, Over, Only, Opening
  <1>6. Live'
    BY <1>1 DEF Live, DiskShape, Fields, DbShape, BgShape, Apply, ApplyToManifest, Over, Only, Opening
  <1>7. Numbered'
    BY <1>1 DEF Numbered, DiskShape, Fields, DbShape, CurrentManifest, Apply, ApplyToManifest, Over, Only, Opening
  <1>8. InStep'
    BY <1>1 DEF InStep, DiskShape, Fields, DbShape, CurrentManifest, BgShape, Apply, ApplyToManifest, Over, Only, Opening
  <1>9. Editing'
    BY <1>1 DEF Editing, DiskShape, Fields, DbShape, CurrentManifest, BgShape, Numbered, Apply, ApplyToManifest, Over, Only, Opening
  <1>10. Opening'
    <2>1. /\ bg'.pc = "opened" /\ bg'.edit = bg.edit
          /\ disk'.current = db.manifest /\ disk'.tables = disk.tables
          /\ disk'.logs = disk.logs /\ disk'.manifests = disk.manifests
      BY <1>1 DEF BgShape, DiskShape, Fields
    <2>2. QED
      BY ONLY <1>1, <2>1, Opening DEF Opening, ApplyToManifest, Apply, Over, Only
  <1>11. Bounded'
    BY <1>1 DEF Bounded, DiskShape, Fields
  <1>12. QED
    BY <1>2, <1>3, <1>4, <1>5, <1>6, <1>7, <1>8, <1>9, <1>10, <1>11

LEMMA RecordType ==
    ASSUME QueueInv, DbShape, NEW n \in 1 .. Len(queue), NEW whole \in BOOLEAN
    PROVE  Record(n, whole) \in Records
  <1>1. Len(Updates(n)) \in Nat
    BY UpdatesType, LenProperties
  <1>2. QED
    BY <1>1 DEF Record, Records, DbShape

\* A log gets one more record.
LEMMA FilesLogged ==
    ASSUME FilesInv, db.up, NEW r \in Records,
           disk' = [disk EXCEPT !.logs[db.log] = Append(@, r)],
           UNCHANGED <<db, bg, reader>>
    PROVE  FilesInv'
  <1> USE DEF FilesInv, Shape
  <1>1. /\ db.log \in DOMAIN disk.logs /\ disk.logs[db.log] \in Seq(Records)
        /\ \A n \in DOMAIN disk.logs : disk.logs[n] \in Seq(Records)
    BY DEF Numbered, DiskShape
  <1> DEFINE old == disk.logs[db.log]  new == Append(old, r)
  <1>2. /\ new \in Seq(Records) /\ Len(new) = Len(old) + 1 /\ Len(old) \in Nat
        /\ \A i \in 1 .. Len(old) : new[i] = old[i]
        /\ new[Len(old) + 1] = r
    BY <1>1, AppendProperties, LenProperties
  <1>3. /\ DOMAIN disk' = DOMAIN disk /\ disk'.safe = disk.safe /\ disk'.tables = disk.tables
        /\ disk'.manifests = disk.manifests /\ disk'.current = disk.current
        /\ DOMAIN disk'.logs = DOMAIN disk.logs
        /\ \A n \in DOMAIN disk.logs : disk'.logs[n] = IF n = db.log THEN new ELSE disk.logs[n]
    BY DEF DiskShape, Fields
  <1> HIDE DEF new
  <1>4. DiskShape'
    <2>1. ASSUME NEW n \in DOMAIN disk.logs
          PROVE  disk'.logs[n] \in Seq(Records) /\ disk.safe[n] \in 0 .. Len(disk'.logs[n])
      <3>1. CASE n = db.log
        BY <1>1, <1>2, <1>3, <3>1 DEF DiskShape
      <3>2. CASE n # db.log
        BY <1>3, <3>2 DEF DiskShape
      <3>3. QED
        BY <3>1, <3>2
    <2>2. QED
      BY <1>3, <2>1 DEF DiskShape, Fields
  <1>5. Bounded'
    <2>1. PICK b \in Nat : \A n \in DOMAIN disk.logs :
              n <= b /\ \A i \in DOMAIN disk.logs[n] : disk.logs[n][i].last <= b
      BY DEF Bounded
    <2> DEFINE c == IF b < r.last THEN r.last ELSE b
    <2>2. c \in Nat /\ b <= c /\ r.last <= c
      BY DEF Records
    <2> HIDE DEF c
    <2>3. ASSUME NEW n \in DOMAIN disk.logs
          PROVE  n <= c /\ \A i \in DOMAIN disk'.logs[n] : disk'.logs[n][i].last <= c
      <3>1. n \in Nat /\ n <= c
        BY <2>1, <2>2 DEF DiskShape
      <3>2. \A i \in DOMAIN disk.logs[n] : disk.logs[n][i].last <= c
        BY <1>1, <2>1, <2>2, RecordsOf
      <3>3. CASE n = db.log
        <4>1. DOMAIN new = 1 .. Len(old) + 1 /\ DOMAIN old = 1 .. Len(old)
          BY <1>1, <1>2, RecordsOf
        <4>2. \A i \in 1 .. Len(old) + 1 : i \in 1 .. Len(old) \/ i = Len(old) + 1
          BY <1>2
        <4>3. QED
          BY <1>2, <1>3, <2>2, <3>1, <3>2, <3>3, <4>1, <4>2
      <3>4. CASE n # db.log
        BY <1>3, <3>1, <3>2, <3>4
      <3>5. QED
        BY <3>3, <3>4
    <2>4. QED
      BY <1>3, <2>2, <2>3 DEF Bounded
  <1>6. /\ DbShape' /\ BgShape' /\ Named' /\ Live' /\ Numbered'
        /\ InStep' /\ Editing' /\ Opening'
    <2>1. DbShape' /\ BgShape'
      BY DEF DbShape, BgShape, Fields
    <2>2. CurrentManifest' = CurrentManifest
      BY <1>3 DEF CurrentManifest
    <2>3. Named' /\ Live'
      BY <1>3, <2>2 DEF Named, Live
    <2>4. Numbered' /\ InStep'
      BY <1>3, <2>2 DEF Numbered, InStep
    <2>5. Editing'
      BY <1>3, <2>2 DEF Editing, Apply, Only, Over
    <2>6. Opening'
      BY <1>3 DEF Opening, ApplyToManifest, Apply, Only, Over
    <2>7. QED
      BY <2>1, <2>3, <2>4, <2>5, <2>6
  <1>7. QED
    BY <1>4, <1>5, <1>6

LEMMA FilesAppend == ASSUME FilesInv, QueueInv, NEW t \in Threads, AppendRecord(t) PROVE FilesInv'
  <1>1. db.up /\ UNCHANGED <<db, bg, reader>>
    BY DEF AppendRecord, Waiting, AtFront
  <1>2. PICK n \in 1 .. Len(queue) :
            \/ disk' = disk
            \/ disk' = [disk EXCEPT !.logs[db.log] = Append(@, Record(n, TRUE))]
            \/ disk' = [disk EXCEPT !.logs[db.log] = Append(@, Record(n, FALSE))]
    BY Zenon DEF AppendRecord
  <1>3. Record(n, TRUE) \in Records /\ Record(n, FALSE) \in Records
    BY RecordType DEF FilesInv, Shape
  <1>4. CASE disk' = disk
    BY <1>1, <1>4, FilesSame
  <1>5. CASE disk' = [disk EXCEPT !.logs[db.log] = Append(@, Record(n, TRUE))]
    BY <1>1, <1>3, <1>5, FilesLogged
  <1>6. CASE disk' = [disk EXCEPT !.logs[db.log] = Append(@, Record(n, FALSE))]
    BY <1>1, <1>3, <1>6, FilesLogged
  <1>7. QED
    BY <1>2, <1>4, <1>5, <1>6

LEMMA EndedWork ==
    ASSUME NEW d, NEW m
    PROVE  /\ Ended(d, m).pc \in {"idle", "scheduled"} /\ Ended(d, m).job = <<>>
           /\ Fields(Ended(d, m), {"pc", "table", "job", "edit"})
  <1>1. CASE Scheduled(d, m)
    BY <1>1 DEF Ended, NoWork, Fields
  <1>2. CASE ~Scheduled(d, m)
    BY <1>2 DEF Ended, NoWork, Fields
  <1>3. QED
    BY <1>1, <1>2

\* After a flush the thread goes on with the compaction it interrupted.
LEMMA AfterFlushWork ==
    ASSUME NEW d, BgShape
    PROVE  /\ Fields(AfterFlush(d), {"pc", "table", "job", "edit"})
           /\ \/ bg.job = <<>> /\ AfterFlush(d).job = <<>> /\ AfterFlush(d).pc \in {"idle", "scheduled"}
              \/ bg.job # <<>> /\ AfterFlush(d).job = bg.job /\ AfterFlush(d).pc = "work"
  <1>1. CASE bg.job # <<>>
    <2>1. AfterFlush(d) = [bg EXCEPT !.pc = "work", !.table = 0, !.edit = <<>>]
      BY <1>1 DEF AfterFlush
    <2>2. QED
      BY <1>1, <2>1 DEF BgShape, Fields
  <1>2. CASE bg.job = <<>>
    <2>1. AfterFlush(d) = Ended(d, manual)
      BY <1>2 DEF AfterFlush
    <2>2. QED
      BY <1>2, <2>1, EndedWork
  <1>3. QED
    BY <1>1, <1>2

LEMMA FilesTableBuilt == ASSUME FilesInv, QueueInv, TableBuilt PROVE FilesInv'
  <1> USE DEF FilesInv, Shape
  <1>1. /\ DbShape /\ DiskShape /\ BgShape
        /\ db.up /\ bg.pc = "build" /\ reader' = reader /\ db' = [db EXCEPT !.pending = @ \ {bg.table}]
        /\ \E added, level :
             /\ bg' = [bg EXCEPT !.pc = "log", !.edit = <<[kind |-> "flush", deleted |-> {},
                         added |-> added, log |-> db.log, next |-> db.next, last |-> db.last]>>]
             /\ \/ added = NoFile /\ disk' = disk
                \/ /\ added = With(NoFile, bg.table, level)
                   /\ disk' = [disk EXCEPT !.tables = With(@, bg.table, Imm(db))]
    BY DEF TableBuilt, Edit
  <1>13. /\ bg'.pc = "log" /\ DOMAIN bg'.edit[1].added \subseteq DOMAIN disk'.tables
         /\ bg'.edit[1].log = db.log
         /\ DOMAIN disk.tables \subseteq DOMAIN disk'.tables /\ disk'.current = disk.current
         /\ disk'.manifests = disk.manifests /\ disk'.logs = disk.logs
    BY <1>1 DEF BgShape, DiskShape, Fields, With, NoFile
  <1>2. DbShape'
    BY <1>1 DEF DbShape, Fields, With, NoFile
  <1>3. DiskShape'
    BY <1>1 DEF DiskShape, DbShape, Fields, With, NoFile
  <1>4. BgShape'
    BY <1>1 DEF BgShape, DbShape, Fields, With, NoFile
  <1>5. Named'
    BY <1>13 DEF Named, CurrentManifest
  <1>6. Live'
    BY <1>1 DEF Live, DiskShape, Fields, DbShape, BgShape, With, NoFile
  <1>7. Numbered'
    BY <1>1 DEF Numbered, DiskShape, Fields, DbShape, CurrentManifest, With, NoFile
  <1>8. InStep'
    BY <1>1 DEF InStep, DiskShape, Fields, DbShape, CurrentManifest, BgShape, With, NoFile
  <1>9. Editing'
    <2>1. db'.log = db.log /\ db.log \in DOMAIN disk.logs /\ db.log \in Nat
      BY <1>1 DEF DbShape, Fields, Numbered
    <2>2. QED
      BY <1>13, <2>1 DEF Editing
  <1>10. Opening'
    BY <1>1 DEF Opening, DbShape, BgShape, DiskShape, Fields, With, NoFile
  <1>11. Bounded'
    BY <1>1 DEF Bounded, DiskShape, Fields
  <1>12. QED
    BY <1>2, <1>3, <1>4, <1>5, <1>6, <1>7, <1>8, <1>9, <1>10, <1>11

LEMMA FilesTableFailed == ASSUME FilesInv, QueueInv, TableFailed PROVE FilesInv'
  <1> USE DEF FilesInv, Shape
  <1>1. /\ DbShape /\ DiskShape /\ BgShape
        /\ db.up /\ bg.pc = "build" /\ reader' = reader /\ disk' = disk
        /\ db' = [db EXCEPT !.pending = @ \ {bg.table}, !.failed = TRUE]
        /\ Fields(bg', {"pc", "table", "job", "edit"})
        /\ \/ bg'.job = <<>> /\ bg'.pc \in {"idle", "scheduled"}
           \/ bg.job # <<>> /\ bg'.job = bg.job /\ bg'.pc = "work"
    <2>1. bg' = AfterFlush(db')
      BY DEF TableFailed
    <2>2. QED
      BY <2>1, AfterFlushWork DEF TableFailed
  <1>2. DbShape'
    BY <1>1 DEF DbShape, Fields
  <1>3. DiskShape'
    BY <1>1 DEF DiskShape, DbShape, Fields
  <1>4. BgShape'
    BY <1>1 DEF BgShape, DbShape, Fields
  <1>5. Named'
    BY <1>1 DEF Named, DiskShape, Fields, CurrentManifest
  <1>6. Live'
    BY <1>1 DEF Live, DiskShape, Fields, DbShape, BgShape
  <1>7. Numbered'
    BY <1>1 DEF Numbered, DiskShape, Fields, DbShape, CurrentManifest
  <1>8. InStep'
    BY <1>1 DEF InStep, DiskShape, Fields, DbShape, CurrentManifest, BgShape
  <1>9. Editing'
    BY <1>1 DEF Editing, DiskShape, Fields, DbShape, CurrentManifest, BgShape, Numbered
  <1>10. Opening'
    BY <1>1 DEF Opening, DbShape, BgShape, DiskShape, Fields
  <1>11. Bounded'
    BY <1>1 DEF Bounded, DiskShape, Fields
  <1>12. QED
    BY <1>2, <1>3, <1>4, <1>5, <1>6, <1>7, <1>8, <1>9, <1>10, <1>11

LEMMA OverlappingInputs ==
    ASSUME NEW v, NEW level, NEW lo, NEW hi
    PROVE  GetOverlappingInputs(v, level, lo, hi) \subseteq FilesAt(v, level)
  BY DEF GetOverlappingInputs

LEMMA CompactionFiles ==
    ASSUME NEW v, NEW level, NEW F, F \subseteq DOMAIN v
    PROVE  /\ Compaction(v, level, F).version = v
           /\ Compaction(v, level, F).in0 \subseteq DOMAIN v
  <1>1. \A lo, hi : GetOverlappingInputs(v, level, lo, hi) \subseteq DOMAIN v
    BY OverlappingInputs DEF FilesAt
  <1>2. QED
    BY <1>1 DEF Compaction

LEMMA PickedFiles ==
    ASSUME NEW v, NEW seek, seek \subseteq DOMAIN v, NEW c \in PickCompactions(v, seek)
    PROVE  c.version = v /\ c.in0 \subseteq DOMAIN v
  <1> DEFINE Whole(level, f) == IF level > 0 THEN {f}
                ELSE GetOverlappingInputs(v, 0, Smallest({f}), Largest({f}))
  <1>1. \A f \in DOMAIN v : \A level : Whole(level, f) \subseteq DOMAIN v
    <2>1. \A lo, hi : GetOverlappingInputs(v, 0, lo, hi) \subseteq DOMAIN v
      BY OverlappingInputs DEF FilesAt
    <2>2. QED
      BY <2>1
  <1>2. \E level : \E f \in DOMAIN v : c = Compaction(v, level, Whole(level, f))
    <2>1. CASE SizeCompaction(v)
      BY <2>1 DEF PickCompactions, FilesAt
    <2>2. CASE ~SizeCompaction(v)
      BY <2>2 DEF PickCompactions
    <2>3. QED
      BY <2>1, <2>2
  <1> HIDE DEF Whole
  <1>3. QED
    BY <1>1, <1>2, CompactionFiles

LEMMA FilesCompaction == ASSUME FilesInv, QueueInv, BeginCompaction PROVE FilesInv'
  <1> USE DEF FilesInv, Shape
  <1>1. /\ DbShape /\ DiskShape /\ BgShape
        /\ db.up /\ bg.pc = "scheduled" /\ disk' = disk /\ reader' = reader /\ db' = db
    BY DEF BeginCompaction
  <1>13. PICK c : /\ c.version = db.ver /\ c.in0 \subseteq DOMAIN db.ver
                  /\ \E manually, todo :
                       \/ bg' = [bg EXCEPT !.pc = "log", !.edit = <<[kind |-> "move", deleted |-> c.in0,
                                      added |-> [f \in c.in0 |-> c.level + 1],
                                      log |-> db.logNumber, next |-> db.next, last |-> db.last]>>]
                       \/ bg' = [bg EXCEPT !.pc = "work", !.job = <<[compaction |-> c,
                                      manual |-> manually, done |-> <<>>, todo |-> todo]>>]
    <2>1. PICK c \in IF manual.registered
                     THEN {Compaction(db.ver, manual.level, F) : F \in {ManualInputs} \ {{}}}
                     ELSE PickCompactions(db.ver, db.seek) :
            IF ~manual.registered /\ IsTrivialMove(c)
            THEN bg' = [bg EXCEPT !.pc = "log", !.edit = <<Edit(db, "move", c.in0,
                            [f \in c.in0 |-> c.level + 1], db.logNumber)>>]
            ELSE bg' = [bg EXCEPT !.pc = "work", !.job =
                            <<[compaction |-> c, manual |-> manual.registered, done |-> <<>>,
                               todo |-> Outputs(c, Min(snapshots \cup {db.last}))]>>]
      BY DEF BeginCompaction
    <2>2. c.version = db.ver /\ c.in0 \subseteq DOMAIN db.ver
      <3>1. CASE manual.registered
        <4>1. ManualInputs \subseteq DOMAIN db.ver
          BY OverlappingInputs DEF ManualInputs, FilesAt
        <4>2. c = Compaction(db.ver, manual.level, ManualInputs)
          BY <2>1, <3>1
        <4>3. QED
          BY <4>1, <4>2, CompactionFiles
      <3>2. CASE ~manual.registered
        <4>1. db.up /\ db.seek \subseteq DOMAIN db.ver
          BY DEF Live, BeginCompaction
        <4>2. QED
          BY <2>1, <3>2, <4>1, PickedFiles
      <3>3. QED
        BY <3>1, <3>2
    <2>3. \E manually, todo :
            \/ bg' = [bg EXCEPT !.pc = "log", !.edit = <<[kind |-> "move", deleted |-> c.in0,
                           added |-> [f \in c.in0 |-> c.level + 1],
                           log |-> db.logNumber, next |-> db.next, last |-> db.last]>>]
            \/ bg' = [bg EXCEPT !.pc = "work", !.job = <<[compaction |-> c,
                           manual |-> manually, done |-> <<>>, todo |-> todo]>>]
      <3>1. CASE ~manual.registered /\ IsTrivialMove(c)
        BY <2>1, <3>1 DEF Edit
      <3>2. CASE ~(~manual.registered /\ IsTrivialMove(c))
        BY <2>1, <3>2, Zenon
      <3>3. QED
        BY <3>1, <3>2
    <2>4. QED
      BY ONLY <2>2, <2>3
  <1>16. PICK manually, todo :
                       \/ bg' = [bg EXCEPT !.pc = "log", !.edit = <<[kind |-> "move", deleted |-> c.in0,
                                      added |-> [f \in c.in0 |-> c.level + 1],
                                      log |-> db.logNumber, next |-> db.next, last |-> db.last]>>]
                       \/ bg' = [bg EXCEPT !.pc = "work", !.job = <<[compaction |-> c,
                                      manual |-> manually, done |-> <<>>, todo |-> todo]>>]
    BY ONLY <1>13
  <1>14. /\ Fields(bg', {"pc", "table", "job", "edit"})
         /\ \/ /\ bg'.pc = "log" /\ bg'.job = bg.job
               /\ DOMAIN bg'.edit[1].added \subseteq DOMAIN db.ver
               /\ bg'.edit[1].log = db.logNumber /\ bg'.edit[1].next = db.next
               /\ bg'.edit[1].last = db.last
            \/ /\ bg'.pc = "work" /\ 1 \in DOMAIN bg'.job
               /\ Fields(bg'.job[1], {"compaction", "manual", "done", "todo"})
               /\ bg'.job[1].compaction.version = db.ver /\ bg'.job[1].done = <<>>
    <2>1. CASE bg' = [bg EXCEPT !.pc = "log", !.edit = <<[kind |-> "move", deleted |-> c.in0,
                            added |-> [f \in c.in0 |-> c.level + 1],
                            log |-> db.logNumber, next |-> db.next, last |-> db.last]>>]
      BY <1>13, <2>1 DEF BgShape, Fields
    <2>2. CASE bg' = [bg EXCEPT !.pc = "work", !.job = <<[compaction |-> c,
                            manual |-> manually, done |-> <<>>, todo |-> todo]>>]
      BY <1>13, <2>2 DEF BgShape, Fields
    <2>3. QED
      BY ONLY <1>16, <2>1, <2>2
  <1>15. Range(<<>>) = {} /\ <<>> \in Seq(Nat)
    BY DEF Range
  <1>2. DbShape'
    BY <1>1 DEF DbShape, Fields, Live, Range
  <1>3. DiskShape'
    BY <1>1 DEF DiskShape, DbShape, Fields, Live, Range
  <1>4. BgShape'
    <2>1. bg'.pc \in {"log", "work"} /\ db'.up
      BY <1>1, <1>14
    <2>2. bg'.job # <<>> =>
            /\ 1 \in DOMAIN bg'.job
            /\ Fields(bg'.job[1], {"compaction", "manual", "done", "todo"})
            /\ bg'.job[1].done \in Seq(Nat)
      BY <1>1, <1>14, <1>15 DEF BgShape
    <2>3. bg'.pc = "log" =>
            bg'.edit[1].log \in Nat /\ bg'.edit[1].next \in Nat /\ bg'.edit[1].last \in Nat
      BY <1>1, <1>14 DEF DbShape
    <2>4. bg'.pc = "work" => bg'.job # <<>>
      BY <1>14
    <2>5. QED
      BY ONLY <1>14, <2>1, <2>2, <2>3, <2>4 DEF BgShape
  <1>5. Named'
    BY <1>1 DEF Named, DiskShape, Fields, CurrentManifest, Live, Range
  <1>6. Live'
    BY <1>1, <1>14, <1>15 DEF Live
  <1>7. Numbered'
    BY <1>1 DEF Numbered, DiskShape, Fields, DbShape, CurrentManifest, Live, Range
  <1>8. InStep'
    BY <1>1 DEF InStep, DiskShape, Fields, DbShape, CurrentManifest, BgShape, Live, Range
  <1>9. Editing'
    BY <1>1, <1>14 DEF Editing, Live, Numbered
  <1>10. Opening'
    BY <1>1, <1>14 DEF Opening
  <1>11. Bounded'
    BY <1>1 DEF Bounded, DiskShape, Fields
  <1>12. QED
    BY <1>2, <1>3, <1>4, <1>5, <1>6, <1>7, <1>8, <1>9, <1>10, <1>11

\* The background thread ends its work, or goes back to the compaction.
GoesOn ==
    /\ Fields(bg', {"pc", "table", "job", "edit"})
    /\ \/ bg'.job = <<>> /\ bg'.pc \in {"idle", "scheduled"}
       \/ bg.job # <<>> /\ bg'.job = bg.job /\ bg'.pc = "work" /\ db'.pending = db.pending

LEMMA EndedGoesOn ==
    ASSUME NEW d, NEW m, bg' = Ended(d, m)
    PROVE  GoesOn /\ bg'.job = <<>>
  BY EndedWork DEF GoesOn

LEMMA AfterFlushGoesOn ==
    ASSUME NEW d, bg' = AfterFlush(d), BgShape, db'.pending = db.pending
    PROVE  GoesOn /\ bg'.job = bg.job
  BY AfterFlushWork DEF GoesOn

LEMMA GoesOnShape == ASSUME BgShape, GoesOn, db'.up, reader' = reader PROVE BgShape'
  <1>1. CASE bg'.job = <<>> /\ bg'.pc \in {"idle", "scheduled"}
    BY <1>1 DEF BgShape, GoesOn
  <1>2. CASE bg.job # <<>> /\ bg'.job = bg.job /\ bg'.pc = "work"
    BY <1>2 DEF BgShape, GoesOn
  <1>3. QED
    BY <1>1, <1>2 DEF GoesOn

\* An error is recorded, and only the manifest may have changed.
LEMMA FilesError ==
    ASSUME FilesInv, db.up, DbShape', DiskShape', Named', GoesOn, reader' = reader,
           db'.up, db'.failed, db'.ver = db.ver, db'.log = db.log, db'.next = db.next,
           db'.logNumber = db.logNumber, db'.manifest = db.manifest, db'.seek = db.seek,
           disk'.tables = disk.tables, disk'.logs = disk.logs, disk'.current = disk.current,
           CurrentManifest'.log \in DOMAIN disk.logs
    PROVE  FilesInv'
  <1> USE DEF FilesInv, Shape
  <1>1. BgShape'
    BY GoesOnShape
  <1>2. Live'
    <2>1. CASE bg'.job = <<>>
      BY <2>1 DEF Live
    <2>2. CASE bg.job # <<>> /\ bg'.job = bg.job /\ bg'.pc = "work" /\ db'.pending = db.pending
      BY <2>2 DEF Live
    <2>3. QED
      BY <2>1, <2>2 DEF GoesOn
  <1>3. Numbered'
    BY DEF Numbered
  <1>4. bg'.pc \in {"idle", "scheduled", "work"}
    BY DEF GoesOn
  <1>5. InStep' /\ Editing' /\ Opening'
    BY <1>4 DEF InStep, Editing, Opening
  <1>6. Bounded'
    BY DEF Bounded
  <1>7. QED
    BY <1>1, <1>2, <1>3, <1>5, <1>6

LEMMA FilesOutputFailed == ASSUME FilesInv, QueueInv, OutputFailed PROVE FilesInv'
  <1> USE DEF FilesInv, Shape
  <1>1. /\ db.up /\ disk' = disk /\ reader' = reader
        /\ db' = [Cleaned(db) EXCEPT !.failed = TRUE] /\ bg' = Ended(db', manual')
    BY DEF OutputFailed
  <1>2. DbShape' /\ DiskShape' /\ Named'
    BY <1>1 DEF DbShape, DiskShape, Fields, Cleaned, Named, CurrentManifest
  <1>3. GoesOn
    BY <1>1, EndedGoesOn
  <1>4. /\ db'.up /\ db'.failed /\ db'.ver = db.ver /\ db'.log = db.log /\ db'.next = db.next
        /\ db'.logNumber = db.logNumber /\ db'.manifest = db.manifest /\ db'.seek = db.seek
    BY <1>1 DEF DbShape, Fields, Cleaned
  <1>5. CurrentManifest'.log \in DOMAIN disk.logs
    BY <1>1 DEF CurrentManifest, Numbered
  <1>6. QED
    BY <1>1, <1>2, <1>3, <1>4, <1>5, FilesError

LEMMA FilesManifestFailed == ASSUME FilesInv, QueueInv, ManifestFailed PROVE FilesInv'
  <1> USE DEF FilesInv, Shape
  <1>1. /\ db.up /\ bg.pc = "log" /\ reader' = reader
        /\ disk' \in {disk, [disk EXCEPT !.manifests[db.manifest] = ApplyToManifest(@, bg.edit[1])],
                     [disk EXCEPT !.manifests[db.manifest].half = TRUE]}
        /\ \/ db' = [db EXCEPT !.failed = TRUE] /\ bg' = AfterFlush([db EXCEPT !.failed = TRUE])
           \/ /\ db' \in {[db EXCEPT !.failed = TRUE], Cleaned([db EXCEPT !.failed = TRUE])}
              /\ bg' = Ended(db', manual')
    BY DEF ManifestFailed
  <1>2. DbShape'
    BY <1>1 DEF DbShape, Fields, Cleaned
  <1>3. DiskShape'
    <2>1. CASE disk' = disk
      BY <2>1 DEF DiskShape
    <2>2. CASE disk' = [disk EXCEPT !.manifests[db.manifest] = ApplyToManifest(@, bg.edit[1])]
      BY <1>1, <2>2 DEF DiskShape, BgShape, Fields, Numbered, ApplyToManifest
    <2>3. CASE disk' = [disk EXCEPT !.manifests[db.manifest].half = TRUE]
      BY <1>1, <2>3 DEF DiskShape, Fields
    <2>4. QED
      BY <1>1, <2>1, <2>2, <2>3
  <1>4. /\ db'.up /\ db'.failed /\ db'.ver = db.ver /\ db'.log = db.log /\ db'.next = db.next
        /\ db'.logNumber = db.logNumber /\ db'.manifest = db.manifest /\ db'.seek = db.seek
    BY <1>1 DEF DbShape, Fields, Cleaned
  <1>5. /\ disk'.tables = disk.tables /\ disk'.logs = disk.logs /\ disk'.current = disk.current
        /\ DOMAIN disk'.manifests = DOMAIN disk.manifests
        /\ CurrentManifest' \in {CurrentManifest, ApplyToManifest(CurrentManifest, bg.edit[1]),
                                 [CurrentManifest EXCEPT !.half = TRUE]}
    <2>1. CASE disk' = disk
      BY <2>1 DEF CurrentManifest
    <2>2. CASE disk' = [disk EXCEPT !.manifests[db.manifest] = ApplyToManifest(@, bg.edit[1])]
      <3>1. db.manifest = disk.current /\ disk.current \in DOMAIN disk.manifests
        BY <1>1 DEF Numbered, Named
      <3>2. QED
        BY <2>2, <3>1 DEF DiskShape, Fields, CurrentManifest
    <2>3. CASE disk' = [disk EXCEPT !.manifests[db.manifest].half = TRUE]
      <3>1. db.manifest = disk.current /\ disk.current \in DOMAIN disk.manifests
        BY <1>1 DEF Numbered, Named
      <3>2. QED
        BY <2>3, <3>1 DEF DiskShape, Fields, CurrentManifest
    <2>4. QED
      BY <1>1, <2>1, <2>2, <2>3
  <1>6. /\ DOMAIN bg.edit[1].added \subseteq DOMAIN disk.tables
        /\ bg.edit[1].log \in DOMAIN disk.logs
    BY <1>1 DEF Editing
  <1>7. Named' /\ CurrentManifest'.log \in DOMAIN disk.logs
    <2>1. /\ DOMAIN CurrentManifest.ver \subseteq DOMAIN disk.tables
          /\ CurrentManifest.log \in DOMAIN disk.logs /\ disk.current \in DOMAIN disk.manifests
      BY <1>1 DEF Named, Numbered
    <2> DEFINE e == bg.edit[1]  m == CurrentManifest
    <2>2. /\ DOMAIN ApplyToManifest(m, e).ver \subseteq DOMAIN m.ver \cup DOMAIN e.added
          /\ ApplyToManifest(m, e).log \in {m.log, e.log}
      BY DEF ApplyToManifest, Apply, Over, Only
    <2>3. /\ DOMAIN [m EXCEPT !.half = TRUE].ver \subseteq DOMAIN m.ver
          /\ [m EXCEPT !.half = TRUE].log = m.log
      BY <1>1, <2>1 DEF DiskShape, Fields, CurrentManifest
    <2>4. QED
      BY <1>5, <1>6, <2>1, <2>2, <2>3 DEF Named
  <1>8. GoesOn
    <2>1. CASE db' = [db EXCEPT !.failed = TRUE] /\ bg' = AfterFlush([db EXCEPT !.failed = TRUE])
      <3>1. db'.pending = db.pending
        BY <2>1 DEF DbShape, Fields
      <3>2. QED
        BY <2>1, <3>1, AfterFlushGoesOn
    <2>2. CASE bg' = Ended(db', manual')
      BY <2>2, EndedGoesOn
    <2>3. QED
      BY <1>1, <2>1, <2>2
  <1>9. QED
    BY <1>1, <1>2, <1>3, <1>4, <1>5, <1>7, <1>8, FilesError

\* What a sweep leaves.
LEMMA SweptFiles ==
    ASSUME NEW d, NEW job, DiskShape,
           NEW s, s = Swept(disk, d, job)
    PROVE  /\ Fields(s, {"logs", "safe", "tables", "manifests", "current"})
           /\ s.current = disk.current
           /\ DOMAIN s.logs \subseteq DOMAIN disk.logs /\ DOMAIN s.safe = DOMAIN s.logs
           /\ \A n \in DOMAIN s.logs : s.logs[n] = disk.logs[n] /\ s.safe[n] = disk.safe[n]
           /\ \A n \in DOMAIN disk.logs : n >= d.logNumber => n \in DOMAIN s.logs
           /\ DOMAIN s.manifests \subseteq DOMAIN disk.manifests
           /\ \A n \in DOMAIN s.manifests : s.manifests[n] = disk.manifests[n]
           /\ \A n \in DOMAIN disk.manifests : n >= d.manifest => n \in DOMAIN s.manifests
           /\ \A f \in DOMAIN disk.tables :
                f \in d.pending \cup Referenced(d, job) => f \in DOMAIN s.tables
           /\ d.failed => s = disk
           /\ ~d.failed => \A n \in DOMAIN s.logs : n >= d.logNumber
  <1>1. CASE d.failed
    BY <1>1 DEF Swept, DiskShape
  <1>2. CASE ~d.failed
    <2> DEFINE live == d.pending \cup Referenced(d, job)
               logs == {n \in DOMAIN disk.logs : n >= d.logNumber}
               kinds == {n \in DOMAIN disk.manifests : n >= d.manifest}
    <2>1. s = [disk EXCEPT !.tables = Only(@, live), !.logs = Only(@, logs),
                 !.safe = Only(@, logs), !.manifests = Only(@, {n \in DOMAIN @ : n >= d.manifest})]
      BY <1>2 DEF Swept
    <2>2. /\ Fields(s, {"logs", "safe", "tables", "manifests", "current"})
          /\ s.current = disk.current /\ s.tables = Only(disk.tables, live)
          /\ s.logs = Only(disk.logs, logs) /\ s.safe = Only(disk.safe, logs)
          /\ s.manifests = Only(disk.manifests, kinds)
      BY <2>1 DEF DiskShape, Fields
    <2>3. DOMAIN disk.safe = DOMAIN disk.logs
      BY DEF DiskShape
    <2> HIDE DEF live
    <2>4. /\ DOMAIN s.logs = logs /\ DOMAIN s.safe = logs /\ DOMAIN s.manifests = kinds
          /\ DOMAIN s.tables = DOMAIN disk.tables \cap live
          /\ \A n \in logs : s.logs[n] = disk.logs[n] /\ s.safe[n] = disk.safe[n]
          /\ \A n \in kinds : s.manifests[n] = disk.manifests[n]
      BY <2>2, <2>3 DEF Only
    <2>5. QED
      BY <1>2, <2>2, <2>4 DEF live
  <1>3. QED
    BY <1>1, <1>2

LEMMA SweptShape ==
    ASSUME DiskShape, Bounded, NEW d, NEW job, disk' = Swept(disk, d, job)
    PROVE  DiskShape' /\ Bounded'
  <1>1. /\ Fields(disk', {"logs", "safe", "tables", "manifests", "current"})
        /\ DOMAIN disk'.logs \subseteq DOMAIN disk.logs /\ DOMAIN disk'.safe = DOMAIN disk'.logs
        /\ \A n \in DOMAIN disk'.logs : disk'.logs[n] = disk.logs[n] /\ disk'.safe[n] = disk.safe[n]
        /\ DOMAIN disk'.manifests \subseteq DOMAIN disk.manifests
        /\ \A n \in DOMAIN disk'.manifests : disk'.manifests[n] = disk.manifests[n]
    BY SweptFiles
  <1>2. DiskShape'
    BY <1>1 DEF DiskShape
  <1>3. Bounded'
    BY <1>1 DEF Bounded
  <1>4. QED
    BY <1>2, <1>3

\* The new version is current, and what is not needed any more may be swept.
LEMMA FilesInstalled ==
    ASSUME FilesInv, db.up, bg.pc = "install", DbShape', GoesOn, reader' = reader,
           db'.up, db'.failed = db.failed, db'.ver = Apply(db.ver, bg.edit[1]),
           db'.logNumber = bg.edit[1].log, db'.log = db.log, db'.next = db.next,
           db'.manifest = db.manifest, db'.seek = {},
           disk' = disk \/ disk' = Swept(disk, db', bg'.job)
    PROVE  FilesInv'
  <1> USE DEF FilesInv, Shape
  <1> DEFINE e == bg.edit[1]  m == CurrentManifest
  <1>1. BgShape'
    BY GoesOnShape
  <1>2. bg'.pc \in {"idle", "scheduled", "work"}
    BY DEF GoesOn
  <1>3. Editing' /\ Opening'
    BY <1>2 DEF Editing, Opening
  <1>4. DiskShape' /\ Bounded'
    BY SweptShape DEF DiskShape, Bounded
  <1>5. /\ e.log \in DOMAIN disk.logs /\ e.log <= db.log
        /\ ~db.failed => m.ver = Apply(db.ver, e) /\ m.log = e.log
        /\ DOMAIN e.added \subseteq DOMAIN disk.tables
    BY DEF Editing
  <1>6. /\ db.manifest = disk.current /\ db.log \in DOMAIN disk.logs
        /\ m.log \in DOMAIN disk.logs /\ db.log < db.next
    BY DEF Numbered
  <1>7. DOMAIN db'.ver \subseteq DOMAIN disk.tables
    <2>1. DOMAIN db.ver \subseteq DOMAIN disk.tables
      BY DEF Live
    <2>2. DOMAIN Apply(db.ver, e) \subseteq DOMAIN db.ver \cup DOMAIN e.added
      BY DEF Apply, Over, Only
    <2>3. QED
      BY <1>5, <2>1, <2>2
  <1>8. bg'.job # <<>> =>
          bg.job # <<>> /\ bg'.job = bg.job /\ bg'.pc = "work" /\ db'.pending = db.pending
    BY DEF GoesOn
  <1>9. CASE disk' = disk
    <2>1. Live'
      BY <1>7, <1>8, <1>9 DEF Live
    <2>2. Named' /\ Numbered' /\ InStep'
      BY <1>5, <1>6, <1>9 DEF Named, Numbered, InStep, CurrentManifest
    <2>3. QED
      BY <1>1, <1>3, <1>4, <2>1, <2>2
  <1>10. CASE disk' = Swept(disk, db', bg'.job)
    <2>1. /\ disk'.current = disk.current
          /\ \A n \in DOMAIN disk.logs : n >= db'.logNumber => n \in DOMAIN disk'.logs
          /\ \A n \in DOMAIN disk'.manifests : disk'.manifests[n] = disk.manifests[n]
          /\ \A n \in DOMAIN disk.manifests : n >= db'.manifest => n \in DOMAIN disk'.manifests
          /\ \A f \in DOMAIN disk.tables :
               f \in db'.pending \cup Referenced(db', bg'.job) => f \in DOMAIN disk'.tables
          /\ db'.failed => disk' = disk
      BY <1>10, SweptFiles
    <2>2. disk.current \in DOMAIN disk.manifests /\ db'.manifest = disk.current /\ db'.manifest \in Nat
      BY <1>6 DEF Named, DbShape
    <2>3. disk'.current \in DOMAIN disk'.manifests /\ CurrentManifest' = m
      BY <2>1, <2>2 DEF CurrentManifest
    <2>4. DOMAIN db'.ver \subseteq DOMAIN disk'.tables
      BY <1>7, <2>1 DEF Referenced
    <2>5. Named'
      <3>1. CASE db.failed
        BY <2>1, <2>3, <3>1 DEF Named
      <3>2. CASE ~db.failed
        BY <1>5, <2>3, <2>4, <3>2 DEF Named
      <3>3. QED
        BY <3>1, <3>2
    <2>6. Live'
      <3>1. bg'.job # <<>> =>
              /\ DOMAIN bg'.job[1].compaction.version \subseteq DOMAIN disk'.tables
              /\ Range(bg'.job[1].done) \subseteq DOMAIN disk'.tables
              /\ Range(bg'.job[1].done) \subseteq db'.pending
              /\ \A f \in Range(bg'.job[1].done) : f < db'.next
        BY <1>8, <2>1 DEF Live, Referenced
      <3>2. reader' # <<>> => DOMAIN reader'[1].ver \subseteq DOMAIN disk'.tables
        BY <2>1 DEF Live, Referenced
      <3>3. QED
        BY <1>2, <2>4, <3>1, <3>2 DEF Live
    <2>7. Numbered'
      <3>1. e.log \in Nat /\ db.log \in Nat
        BY DEF BgShape, DbShape
      <3>2. db.log \in DOMAIN disk'.logs /\ e.log \in DOMAIN disk'.logs
        BY <1>5, <1>6, <2>1, <3>1
      <3>3. m.log \in DOMAIN disk'.logs
        BY <1>5, <1>6, <2>1, <3>2
      <3>4. QED
        BY <1>5, <1>6, <2>1, <2>3, <3>2, <3>3 DEF Numbered
    <2>8. InStep'
      BY <1>5, <2>3 DEF InStep
    <2>9. QED
      BY <1>1, <1>3, <1>4, <2>5, <2>6, <2>7, <2>8
  <1>11. QED
    BY <1>9, <1>10

LEMMA FilesInstall == ASSUME FilesInv, QueueInv, Install PROVE FilesInv'
  <1> USE DEF FilesInv, Shape
  <1> DEFINE e == bg.edit[1]
             d == [db EXCEPT !.ver = Apply(@, e), !.logNumber = e.log, !.seek = {}]
  <1>1. db.up /\ bg.pc = "install" /\ reader' = reader
    BY DEF Install
  <1>2. \/ /\ db' = [d EXCEPT !.imm = <<>>] /\ disk' = Swept(disk, db', bg.job)
           /\ bg' = AfterFlush(db')
        \/ db' = d /\ bg' = Ended(d, manual) /\ disk' = disk
        \/ db' = Cleaned(d) /\ disk' = Swept(disk, db', <<>>) /\ bg' = Ended(db', manual')
    BY DEF Install
  <1>3. /\ DOMAIN d = DOMAIN db /\ d.up = db.up /\ d.ver = Apply(db.ver, e) /\ d.logNumber = e.log
        /\ d.seek = {} /\ d.mem = db.mem /\ d.imm = db.imm /\ d.log = db.log /\ d.last = db.last
        /\ d.next = db.next /\ d.manifest = db.manifest /\ d.failed = db.failed
        /\ d.pending = db.pending
    BY DEF DbShape, Fields
  <1>4. DOMAIN d = {"up", "mem", "imm", "log", "ver", "last", "next", "logNumber", "manifest",
                    "failed", "pending", "seek"}
    BY <1>3 DEF DbShape, Fields
  <1> HIDE DEF d
  <1>5. db' \in {d, [d EXCEPT !.imm = <<>>], Cleaned(d)}
    BY <1>2
  <1>6. /\ DOMAIN db' = DOMAIN db /\ db'.up = d.up /\ db'.failed = d.failed /\ db'.ver = d.ver
        /\ db'.logNumber = d.logNumber /\ db'.log = d.log /\ db'.next = d.next
        /\ db'.manifest = d.manifest /\ db'.seek = {} /\ db'.last = d.last
        /\ db'.mem = d.mem
    BY <1>3, <1>4, <1>5 DEF Cleaned
  <1>7. DbShape'
    <2>1. e.log \in Nat
      BY <1>1 DEF BgShape
    <2>2. db'.imm = <<>> \/ db'.imm = db.imm
      BY <1>3, <1>4, <1>5 DEF Cleaned
    <2>3. QED
      BY <1>3, <1>6, <2>1, <2>2 DEF DbShape, Fields
  <1>8. GoesOn /\ (disk' = disk \/ disk' = Swept(disk, db', bg'.job))
    <2>1. CASE /\ db' = [d EXCEPT !.imm = <<>>] /\ disk' = Swept(disk, db', bg.job)
               /\ bg' = AfterFlush(db')
      <3>1. db'.pending = db.pending
        BY <1>3, <1>4, <2>1
      <3>2. GoesOn /\ bg'.job = bg.job
        BY <2>1, <3>1, AfterFlushGoesOn
      <3>3. QED
        BY <2>1, <3>2
    <2>2. CASE db' = d /\ bg' = Ended(d, manual) /\ disk' = disk
      BY <2>2, EndedGoesOn
    <2>3. CASE db' = Cleaned(d) /\ disk' = Swept(disk, db', <<>>) /\ bg' = Ended(db', manual')
      <3>1. GoesOn /\ bg'.job = <<>>
        BY <2>3, EndedGoesOn
      <3>2. QED
        BY <2>3, <3>1
    <2>4. QED
      BY <1>2, <2>1, <2>2, <2>3
  <1>9. /\ db'.up /\ db'.failed = db.failed /\ db'.ver = Apply(db.ver, e)
        /\ db'.logNumber = e.log /\ db'.log = db.log /\ db'.next = db.next
        /\ db'.manifest = db.manifest /\ db'.seek = {}
    BY <1>1, <1>3, <1>6
  <1>10. QED
    BY <1>1, <1>7, <1>8, <1>9, FilesInstalled

-----------------------------------------------------------------------------
(* The files over a kill, and the next Open.                               *)

LEMMA FilesDies ==
    ASSUME FilesInv, NEW after, Dies(after), DiskShape', Bounded', Named'
    PROVE  FilesInv'
  <1>1. /\ db' = [up |-> FALSE, mem |-> {}, imm |-> <<>>, log |-> 0, ver |-> NoFile,
                  last |-> 0, next |-> 0, logNumber |-> 0, manifest |-> 0,
                  failed |-> FALSE, pending |-> {}, seek |-> {}]
        /\ bg' = [pc |-> "idle", table |-> 0, job |-> <<>>, edit |-> <<>>] /\ reader' = <<>>
    BY DEF Dies, NoWork
  <1>2. DbShape'
    BY <1>1 DEF DbShape, Fields
  <1>3. BgShape'
    BY <1>1 DEF BgShape, Fields
  <1>4. Live' /\ Numbered' /\ InStep' /\ Editing' /\ Opening'
    BY <1>1 DEF Live, Numbered, InStep, Editing, Opening
  <1>5. QED
    BY <1>2, <1>3, <1>4 DEF FilesInv, Shape

LEMMA FilesKill == ASSUME FilesInv, Kill \/ NullManual PROVE FilesInv'
  <1>1. Dies(disk) /\ disk' = disk
    BY DEF Kill, NullManual, Dies
  <1>2. DiskShape' /\ Bounded' /\ Named'
    BY <1>1 DEF FilesInv, Shape, DiskShape, Bounded, Named, CurrentManifest, Fields
  <1>3. QED
    BY <1>1, <1>2, FilesDies

\* What a power cut leaves of a log.
LEMMA CutLog ==
    ASSUME NEW records \in Seq(Records), NEW safe \in Nat, NEW n \in safe .. Len(records)
    PROVE  /\ SubSeq(records, 1, n) \in Seq(Records) /\ Len(SubSeq(records, 1, n)) = n
           /\ \A i \in 1 .. n : SubSeq(records, 1, n)[i] = records[i]
           /\ 1 .. n \subseteq 1 .. Len(records)
  <1>1. n \in Nat /\ Len(records) \in Nat /\ n <= Len(records)
    BY LenProperties
  <1>2. \A i \in 1 .. n : records[i] \in Records
    BY <1>1, ElementOfSeq
  <1>3. QED
    BY <1>1, <1>2, SubSeqProperties

LEMMA PowerCuts ==
    ASSUME DiskShape, PowerCut
    PROVE  \E len \in [DOMAIN disk.logs -> Nat] :
             /\ \A n \in DOMAIN disk.logs : len[n] \in disk.safe[n] .. Len(disk.logs[n])
             /\ Dies([disk EXCEPT !.logs =
                        [n \in DOMAIN disk.logs |-> SubSeq(disk.logs[n], 1, len[n])]])
  <1>1. PICK len \in [DOMAIN disk.logs -> 0 .. MaxSequence] :
            /\ \A n \in DOMAIN len : len[n] \in disk.safe[n] .. Len(disk.logs[n])
            /\ Dies([disk EXCEPT !.logs =
                        [n \in DOMAIN @ |-> SubSeq(@[n], 1, len[n])]])
    BY DEF PowerCut
  <1>2. len \in [DOMAIN disk.logs -> Nat]
    <2>1. \A n \in DOMAIN disk.logs : disk.safe[n] \in Nat
      BY LenProperties DEF DiskShape
    <2>2. \A n \in DOMAIN disk.logs : len[n] \in Nat
      BY <1>1, <2>1
    <2>3. QED
      BY <1>1, <2>2
  <1>3. [disk EXCEPT !.logs = [n \in DOMAIN @ |-> SubSeq(@[n], 1, len[n])]]
        = [disk EXCEPT !.logs = [n \in DOMAIN disk.logs |-> SubSeq(disk.logs[n], 1, len[n])]]
    BY DEF DiskShape, Fields
  <1>4. QED
    BY <1>1, <1>2, <1>3

LEMMA FilesPowerCut == ASSUME FilesInv, PowerCut PROVE FilesInv'
  <1> USE DEF FilesInv, Shape
  <1>1. PICK len \in [DOMAIN disk.logs -> Nat] :
             /\ \A n \in DOMAIN disk.logs : len[n] \in disk.safe[n] .. Len(disk.logs[n])
             /\ Dies([disk EXCEPT !.logs =
                        [n \in DOMAIN disk.logs |-> SubSeq(disk.logs[n], 1, len[n])]])
    BY PowerCuts
  <1> DEFINE cut == [n \in DOMAIN disk.logs |-> SubSeq(disk.logs[n], 1, len[n])]
  <1>2. disk' = [disk EXCEPT !.logs = cut]
    BY <1>1 DEF Dies
  <1>3. ASSUME NEW n \in DOMAIN disk.logs
        PROVE  /\ cut[n] \in Seq(Records) /\ disk.safe[n] \in 0 .. Len(cut[n])
               /\ DOMAIN cut[n] \subseteq DOMAIN disk.logs[n]
               /\ \A i \in DOMAIN cut[n] : cut[n][i] = disk.logs[n][i]
    <2>1. disk.logs[n] \in Seq(Records) /\ disk.safe[n] \in Nat
      BY DEF DiskShape
    <2>2. len[n] \in disk.safe[n] .. Len(disk.logs[n]) /\ len[n] \in Nat
      BY <1>1
    <2>3. /\ cut[n] \in Seq(Records) /\ Len(cut[n]) = len[n]
          /\ \A i \in 1 .. len[n] : cut[n][i] = disk.logs[n][i]
          /\ 1 .. len[n] \subseteq 1 .. Len(disk.logs[n])
      BY <2>1, <2>2, CutLog
    <2>4. DOMAIN cut[n] = 1 .. len[n] /\ DOMAIN disk.logs[n] = 1 .. Len(disk.logs[n])
      BY <2>1, <2>3, RecordsOf
    <2>5. QED
      BY <2>1, <2>2, <2>3, <2>4
  <1>4. DOMAIN cut = DOMAIN disk.logs
    OBVIOUS
  <1> HIDE DEF cut
  <1>5. /\ disk'.logs = cut /\ disk'.safe = disk.safe /\ disk'.tables = disk.tables
        /\ disk'.manifests = disk.manifests /\ disk'.current = disk.current
        /\ DOMAIN disk' = DOMAIN disk
    BY <1>2 DEF DiskShape, Fields
  <1>6. DiskShape'
    BY <1>3, <1>4, <1>5 DEF DiskShape, Fields
  <1>7. Bounded'
    BY <1>3, <1>4, <1>5 DEF Bounded
  <1>8. Named'
    BY <1>5 DEF Named, CurrentManifest
  <1>9. QED
    BY <1>1, <1>6, <1>7, <1>8, FilesDies

\* What the logs hold is bounded.
LEMMA ReadableBounded ==
    ASSUME NEW records \in Seq(Records), NEW b \in Nat,
           \A i \in DOMAIN records : records[i].last <= b
    PROVE  Readable(records) \subseteq Nat /\ \A s \in Readable(records) : s <= b
  <1>1. \A s \in Readable(records) : \E i \in DOMAIN records :
            s \in records[i].first .. records[i].last
    BY DEF Readable, EntriesOf, WholeRecords
  <1>2. ASSUME NEW s \in Readable(records) PROVE s \in Nat /\ s <= b
    <2>1. PICK i \in DOMAIN records : s \in records[i].first .. records[i].last
      BY <1>1
    <2>2. records[i].first \in Nat /\ records[i].last \in Nat
      BY RecordsOf
    <2>3. QED
      BY <2>1, <2>2
  <1>3. QED
    BY <1>2

\* The tables an Open recovers, its new log, and where its sequence numbers go on.
Recovers(tables, new, last) ==
    /\ IsFiniteSet(DOMAIN tables)
    /\ new \in Nat /\ last \in Nat /\ new > CurrentManifest.next
    /\ \A n \in LogsSince(disk) : n < new
    /\ CurrentManifest.last <= last
    /\ \A n \in LogsSince(disk) : \A s \in Readable(disk.logs[n]) : s <= last
    /\ db' = [db EXCEPT !.ver = CurrentManifest.ver, !.log = new, !.next = new + 1,
                        !.manifest = CurrentManifest.next,
                        !.logNumber = CurrentManifest.log, !.last = last]
    /\ disk' = [disk EXCEPT !.tables = Over(tables, @), !.logs = With(@, new, <<>>),
                            !.safe = With(@, new, 0)]
    /\ bg' = [pc |-> "open", table |-> 0, job |-> <<>>, edit |->
                <<[kind |-> "open", deleted |-> {}, added |-> [f \in DOMAIN tables |-> 0],
                   log |-> new, next |-> new + 1, last |-> last]>>]

LEMMA Recovering ==
    ASSUME DbShape, DiskShape, Named, Bounded, Recover
    PROVE  \E tables, new, last : Recovers(tables, new, last)
  <1> DEFINE m == CurrentManifest
             seqs == [n \in DOMAIN LogsToRecover |-> MemTables(LogsToRecover[n])]
             mems == FlattenSeq(seqs)
             read == UNION {Readable(disk.logs[n]) : n \in LogsSince(disk)}
             first == m.next + 1
             tables == [f \in first .. first + Len(mems) - 1 |-> mems[f - first + 1]]
             new == Max({first + Len(mems)} \cup {n + 1 : n \in LogsSince(disk)})
             last == Max({m.last} \cup read)
             d == [db EXCEPT !.ver = m.ver, !.log = new, !.next = new + 1, !.manifest = m.next,
                    !.logNumber = m.log, !.last = last]
  <1>1. /\ db' = d
        /\ disk' = [disk EXCEPT !.tables = Over(tables, @), !.logs = With(@, new, <<>>),
                                   !.safe = With(@, new, 0)]
        /\ bg' = [NoWork EXCEPT !.pc = "open", !.edit = <<Edit(d, "open", {},
                        [f \in DOMAIN tables |-> 0], new)>>]
    BY DEF Recover, CurrentManifest
  <1>2. m.next \in Nat /\ m.last \in Nat /\ m.log \in Nat
    BY DEF Named, DiskShape, CurrentManifest
  <1>3. PICK b \in Nat : \A n \in DOMAIN disk.logs :
            n <= b /\ \A i \in DOMAIN disk.logs[n] : disk.logs[n][i].last <= b
    BY DEF Bounded
  <1>4. LogsSince(disk) \subseteq DOMAIN disk.logs /\ DOMAIN disk.logs \subseteq Nat
    BY DEF LogsSince, DiskShape
  <1>5. read \subseteq Nat /\ \A s \in read : s <= b
    <2>1. ASSUME NEW n \in LogsSince(disk)
          PROVE  Readable(disk.logs[n]) \subseteq Nat /\ \A s \in Readable(disk.logs[n]) : s <= b
      <3>1. disk.logs[n] \in Seq(Records) /\ \A i \in DOMAIN disk.logs[n] : disk.logs[n][i].last <= b
        BY <1>3, <1>4 DEF DiskShape
      <3>2. QED
        BY <3>1, ReadableBounded
    <2>2. QED
      BY <2>1
  <1>6. Len(mems) \in Nat
    <2>1. Max({0} \cup LogsSince(disk)) \in Nat
      <3> DEFINE S == {0} \cup LogsSince(disk)
      <3>1. S \subseteq Nat /\ S # {} /\ \A y \in S : y <= b
        BY <1>3, <1>4
      <3> HIDE DEF S
      <3>2. Max(S) \in S
        BY <3>1, MaxBounded
      <3>3. QED
        BY <3>1, <3>2 DEF S
    <2> DEFINE top == Max({0} \cup LogsSince(disk))
    <2>2. /\ LogsToRecover = [n \in 1 .. top |-> IF n \in LogsSince(disk) THEN disk.logs[n] ELSE <<>>]
          /\ top \in Nat
      BY <2>1 DEF LogsToRecover
    <2> HIDE DEF top
    <2>3. \A n \in 1 .. top : LogsToRecover[n] \in Seq(Records)
      BY <1>4, <2>2 DEF DiskShape
    <2>4. seqs \in Seq(Seq(SUBSET Nat))
      <3>1. DOMAIN LogsToRecover = 1 .. top
        BY <2>2
      <3>2. \A n \in 1 .. top : MemTables(LogsToRecover[n]) \in Seq(SUBSET Nat)
        BY <2>3, MemTablesType
      <3>3. seqs = [n \in 1 .. top |-> MemTables(LogsToRecover[n])]
        BY <3>1
      <3>4. seqs \in [1 .. top -> Seq(SUBSET Nat)]
        BY <3>2, <3>3
      <3>5. QED
        BY <2>2, <3>4
    <2> HIDE DEF seqs
    <2>5. QED
      BY <2>4, FlattenType, LenProperties
  <1> HIDE DEF mems
  <1>7. new \in Nat /\ new > m.next /\ \A n \in LogsSince(disk) : n < new
    <2> DEFINE S == {first + Len(mems)} \cup {n + 1 : n \in LogsSince(disk)}
               c == first + Len(mems) + b + 1
    <2>1. S \subseteq Nat /\ S # {} /\ c \in Nat /\ first + Len(mems) \in S
          /\ \A n \in LogsSince(disk) : n + 1 \in S
      <3>1. first \in Nat /\ first + Len(mems) \in Nat
        BY <1>2, <1>6
      <3>2. c \in Nat
        BY <3>1, <1>3
      <3>3. \A n \in LogsSince(disk) : n + 1 \in Nat
        BY <1>4
      <3> HIDE DEF c, first, m
      <3>4. QED
        BY <3>1, <3>2, <3>3
    <2>2. \A y \in S : y <= c
      <3>1. first + Len(mems) <= c
        BY <1>2, <1>6
      <3>2. ASSUME NEW n \in LogsSince(disk) PROVE n + 1 <= c
        <4>1. n \in Nat /\ n <= b
          BY <1>3, <1>4
        <4>2. QED
          BY <1>2, <1>6, <4>1
      <3>3. QED
        BY <3>1, <3>2
    <2> HIDE DEF S, c
    <2>3. Max(S) \in S /\ \A y \in S : y <= Max(S)
      BY <2>1, <2>2, MaxBounded
    <2>4. new = Max(S)
      BY DEF S
    <2> HIDE DEF new
    <2>5. new \in Nat /\ first + Len(mems) <= new /\ \A n \in LogsSince(disk) : n + 1 <= new
      BY <2>1, <2>3, <2>4
    <2>6. QED
      BY <1>2, <1>4, <1>6, <2>5
  <1>8. last \in Nat /\ m.last <= last /\ \A s \in read : s <= last
    <2> DEFINE S == {m.last} \cup read  c == m.last + b
    <2>1. S \subseteq Nat /\ S # {} /\ c \in Nat /\ \A y \in S : y <= c
      <3>1. m.last \in Nat /\ c \in Nat /\ m.last <= c
        BY <1>2, <1>3
      <3>2. \A s \in read : s \in Nat /\ s <= c
        <4> HIDE DEF read, m
        <4>1. QED
          BY <1>2, <1>3, <1>5
      <3> HIDE DEF c, read, m
      <3>3. QED
        BY <3>1, <3>2
    <2> HIDE DEF c, S
    <2>2. Max(S) \in S /\ \A y \in S : y <= Max(S)
      BY <2>1, MaxBounded
    <2>3. QED
      BY <2>1, <2>2 DEF S
  <1>14. IsFiniteSet(DOMAIN tables)
    <2>1. first \in Int /\ first + Len(mems) - 1 \in Int
      BY <1>2, <1>6
    <2> DEFINE lo == first  hi == first + Len(mems) - 1
    <2>2. DOMAIN tables = lo .. hi /\ lo \in Int /\ hi \in Int
      BY <2>1
    <2> HIDE DEF lo, hi, tables
    <2>3. QED
      BY <2>2, FS_Interval
  <1> HIDE DEF tables, new, last
  <1>9. \A n \in LogsSince(disk) : \A s \in Readable(disk.logs[n]) : s <= last
    BY <1>8
  <1>10. d.next = new + 1 /\ d.last = last
    BY DEF DbShape, Fields
  <1>11. bg' = [pc |-> "open", table |-> 0, job |-> <<>>, edit |->
                <<[kind |-> "open", deleted |-> {}, added |-> [f \in DOMAIN tables |-> 0],
                   log |-> new, next |-> new + 1, last |-> last]>>]
    <2> HIDE DEF d
    <2>1. QED
      BY <1>1, <1>10 DEF NoWork, Edit
  <1>12. Recovers(tables, new, last)
    BY <1>1, <1>7, <1>8, <1>9, <1>11, <1>14 DEF Recovers
  <1>13. QED
    BY <1>12

LEMMA FilesRecover == ASSUME FilesInv, QueueInv, Recover PROVE FilesInv'
  <1> USE DEF FilesInv, Shape
  <1>1. ~db.up /\ bg = NoWork /\ reader' = reader
    BY DEF Recover
  <1>2. PICK tables, new, last : Recovers(tables, new, last)
    BY Recovering
  <1>3. /\ new \in Nat /\ last \in Nat
        /\ db' = [db EXCEPT !.ver = CurrentManifest.ver, !.log = new, !.next = new + 1,
                            !.manifest = CurrentManifest.next,
                            !.logNumber = CurrentManifest.log, !.last = last]
        /\ disk' = [disk EXCEPT !.tables = Over(tables, @), !.logs = With(@, new, <<>>),
                                !.safe = With(@, new, 0)]
        /\ bg' = [pc |-> "open", table |-> 0, job |-> <<>>, edit |->
                <<[kind |-> "open", deleted |-> {}, added |-> [f \in DOMAIN tables |-> 0],
                   log |-> new, next |-> new + 1, last |-> last]>>]
    BY <1>2 DEF Recovers
  <1>4. CurrentManifest.next \in Nat /\ CurrentManifest.log \in Nat
    BY DEF Named, DiskShape, CurrentManifest
  <1>5. new + 1 \in Nat /\ new < new + 1
    BY <1>3
  <1>6. /\ DOMAIN db' = DOMAIN db /\ db'.ver = CurrentManifest.ver /\ db'.log = new
        /\ db'.next = new + 1 /\ db'.manifest = CurrentManifest.next
        /\ db'.logNumber = CurrentManifest.log /\ db'.last = last
        /\ db'.up = db.up /\ db'.failed = db.failed /\ db'.seek = db.seek
    BY <1>3 DEF DbShape, Fields
  <1>7. DbShape'
    BY <1>3, <1>4, <1>5, <1>6 DEF DbShape, Fields
  <1>8. /\ DOMAIN disk' = DOMAIN disk /\ disk'.manifests = disk.manifests
        /\ disk'.current = disk.current /\ disk'.tables = Over(tables, disk.tables)
        /\ disk'.logs = With(disk.logs, new, <<>>) /\ disk'.safe = With(disk.safe, new, 0)
    BY <1>3 DEF DiskShape, Fields
  <1>9. /\ DOMAIN disk'.tables = DOMAIN tables \cup DOMAIN disk.tables
        /\ DOMAIN disk'.logs = {new} \cup DOMAIN disk.logs
        /\ DOMAIN disk'.safe = {new} \cup DOMAIN disk.safe
        /\ \A n \in DOMAIN disk'.logs : disk'.logs[n] = IF n = new THEN <<>> ELSE disk.logs[n]
        /\ \A n \in DOMAIN disk'.safe : disk'.safe[n] = IF n = new THEN 0 ELSE disk.safe[n]
    BY <1>8 DEF Over, With
  <1>10. DiskShape'
    <2>1. <<>> \in Seq(Records) /\ 0 \in 0 .. Len(<<>>)
      OBVIOUS
    <2>2. ASSUME NEW n \in DOMAIN disk'.logs
          PROVE  disk'.logs[n] \in Seq(Records) /\ disk'.safe[n] \in 0 .. Len(disk'.logs[n])
      <3>1. DOMAIN disk.safe = DOMAIN disk.logs
        BY DEF DiskShape
      <3>2. CASE n = new
        BY <1>9, <2>1, <3>2
      <3>3. CASE n # new
        BY <1>9, <3>1, <3>3 DEF DiskShape
      <3>4. QED
        BY <3>2, <3>3
    <2>3. QED
      BY <1>3, <1>8, <1>9, <2>2 DEF DiskShape, Fields
  <1>11. Bounded'
    <2>1. PICK b \in Nat : \A n \in DOMAIN disk.logs :
              n <= b /\ \A i \in DOMAIN disk.logs[n] : disk.logs[n][i].last <= b
      BY DEF Bounded
    <2>2. b + new \in Nat
      BY <1>3
    <2>3. ASSUME NEW n \in DOMAIN disk'.logs
          PROVE  n <= b + new /\ \A i \in DOMAIN disk'.logs[n] : disk'.logs[n][i].last <= b + new
      <3>1. CASE n = new
        BY <1>3, <1>9, <3>1
      <3>2. CASE n # new
        <4>1. n \in DOMAIN disk.logs /\ disk'.logs[n] = disk.logs[n] /\ n \in Nat
              /\ disk.logs[n] \in Seq(Records)
          BY <1>9, <3>2 DEF DiskShape
        <4>2. \A i \in DOMAIN disk.logs[n] : disk.logs[n][i].last \in Nat
          BY <4>1, RecordsOf
        <4>3. QED
          BY <1>3, <2>1, <4>1, <4>2
      <3>3. QED
        BY <3>1, <3>2
    <2>4. QED
      BY <2>2, <2>3 DEF Bounded
  <1>12. Named'
    BY <1>8, <1>9 DEF Named, CurrentManifest
  <1>13. BgShape'
    BY <1>1, <1>3, <1>5, <1>6 DEF BgShape, Fields
  <1>14. Live' /\ Numbered' /\ InStep' /\ Editing'
    BY <1>1, <1>6 DEF Live, Numbered, InStep, Editing
  <1>15. bg'.pc = "open" /\ DOMAIN bg'.edit[1].added = DOMAIN tables /\ bg'.edit[1].log = new
    BY <1>3
  <1>16. Opening'
    BY <1>5, <1>6, <1>9, <1>15 DEF Opening, Named
  <1>17. QED
    BY <1>7, <1>10, <1>11, <1>12, <1>13, <1>14, <1>16

LEMMA FilesOpened == ASSUME FilesInv, QueueInv, Opened PROVE FilesInv'
  <1> USE DEF FilesInv, Shape
  <1> DEFINE e == bg.edit[1]  m == CurrentManifest
  <1>1. /\ bg.pc = "opened" /\ reader' = reader
        /\ db' = [db EXCEPT !.up = TRUE, !.ver = Apply(@, e), !.logNumber = e.log]
        /\ disk' = Swept(disk, db', <<>>) /\ bg' = Ended(db', manual)
    BY DEF Opened
  <1>2. /\ db'.up /\ db'.ver = Apply(db.ver, e) /\ db'.logNumber = e.log /\ db'.failed = db.failed
        /\ db'.log = db.log /\ db'.next = db.next /\ db'.manifest = db.manifest
        /\ db'.seek = db.seek /\ DOMAIN db' = DOMAIN db /\ db'.last = db.last
    BY <1>1 DEF DbShape, Fields
  <1>3. DbShape'
    <2>1. e.log \in Nat
      BY <1>1 DEF BgShape
    <2>2. QED
      BY <1>2, <2>1 DEF DbShape, Fields
  <1>4. DiskShape' /\ Bounded'
    BY <1>1, SweptShape
  <1>5. /\ DOMAIN e.added \subseteq DOMAIN disk.tables /\ DOMAIN db.ver \subseteq DOMAIN disk.tables
        /\ e.log = db.log /\ db.log \in DOMAIN disk.logs /\ db.log < db.next
        /\ disk.current = db.manifest /\ db.manifest \in DOMAIN disk.manifests
        /\ m = ApplyToManifest([ver |-> db.ver, half |-> FALSE], e)
    BY <1>1 DEF Opening, CurrentManifest
  <1>6. m.ver = Apply(db.ver, e) /\ m.log = e.log /\ ~m.half
    BY <1>5 DEF ApplyToManifest
  <1>7. bg'.job = <<>> /\ bg'.pc \in {"idle", "scheduled"} /\ Fields(bg', {"pc", "table", "job", "edit"})
    BY <1>1, EndedWork
  <1>8. /\ disk'.current = disk.current
        /\ \A n \in DOMAIN disk.logs : n >= db'.logNumber => n \in DOMAIN disk'.logs
        /\ \A n \in DOMAIN disk'.manifests : disk'.manifests[n] = disk.manifests[n]
        /\ \A n \in DOMAIN disk.manifests : n >= db'.manifest => n \in DOMAIN disk'.manifests
        /\ \A f \in DOMAIN disk.tables :
             f \in db'.pending \cup Referenced(db', <<>>) => f \in DOMAIN disk'.tables
    <2>1. DiskShape /\ disk' = Swept(disk, db', <<>>)
      BY <1>1
    <2>2. QED
      BY ONLY <2>1, SweptFiles
  <1>9. disk'.current \in DOMAIN disk'.manifests /\ CurrentManifest' = m
    <2>1. db'.manifest \in Nat /\ db'.manifest = disk.current
      BY <1>2, <1>5 DEF DbShape
    <2>2. QED
      BY <1>5, <1>8, <2>1 DEF CurrentManifest
  <1>10. DOMAIN db'.ver \subseteq DOMAIN disk'.tables
    <2>1. DOMAIN Apply(db.ver, e) \subseteq DOMAIN db.ver \cup DOMAIN e.added
      BY DEF Apply, Over, Only
    <2>2. QED
      BY <1>2, <1>5, <1>8, <2>1 DEF Referenced
  <1>11. Named'
    BY <1>2, <1>6, <1>9, <1>10 DEF Named
  <1>12. BgShape'
    BY <1>2, <1>7 DEF BgShape
  <1>13. reader = <<>> /\ db.seek = {}
    BY <1>1 DEF BgShape
  <1>14. Live'
    BY <1>1, <1>2, <1>7, <1>10, <1>13 DEF Live
  <1>15. db.log \in DOMAIN disk'.logs /\ db.log \in Nat
    BY <1>2, <1>5, <1>8 DEF DbShape
  <1>16. Numbered'
    BY <1>2, <1>5, <1>6, <1>8, <1>9, <1>15 DEF Numbered
  <1>17. InStep'
    BY <1>2, <1>6, <1>9 DEF InStep
  <1>18. Editing' /\ Opening'
    BY <1>7 DEF Editing, Opening
  <1>19. QED
    BY <1>3, <1>4, <1>11, <1>12, <1>14, <1>16, <1>17, <1>18

-----------------------------------------------------------------------------
(* Every step keeps the queue and the files.                               *)

LEMMA QueueEmpty ==
    ASSUME QueueInv, UNCHANGED <<queue, call>>, ~db.up
    PROVE  QueueInv'
  <1>1. queue = <<>>
    BY DEF QueueInv, InLine
  <1>2. QED
    BY <1>1 DEF QueueInv, QueueShape, InLine, Grouped, Calls

\* What the background thread, the readers and CompactRange do to the queue: nothing.
LEMMA NotQueue ==
    ASSUME DbShape, BackgroundNext \/ ReadNext \/ MemTableCompacted \/ Register \/ NextLevel
    PROVE  UNCHANGED <<queue, call>> /\ db'.up = db.up /\ db'.last = db.last
  <1> USE DEF DbShape, Fields
  <1>1. CASE BeginFlush \/ TableBuilt \/ TableFailed \/ NothingToDo
    BY <1>1 DEF BeginFlush, TableBuilt, TableFailed, NothingToDo
  <1>2. CASE ManualDone \/ BeginCompaction \/ WriteOutput \/ LogResults
    BY <1>2 DEF ManualDone, BeginCompaction, WriteOutput, LogResults
  <1>3. CASE OutputFailed \/ ManifestWritten
    BY <1>3 DEF OutputFailed, ManifestWritten, Cleaned
  <1>4. CASE ManifestFailed
    <2>1. db' \in {[db EXCEPT !.failed = TRUE], Cleaned([db EXCEPT !.failed = TRUE])}
      BY <1>4 DEF ManifestFailed
    <2>2. QED
      BY <1>4, <2>1 DEF ManifestFailed, Cleaned
  <1>5. CASE Install
    <2> DEFINE d == [db EXCEPT !.ver = Apply(@, bg.edit[1]), !.logNumber = bg.edit[1].log,
                               !.seek = {}]
    <2>1. db' \in {d, [d EXCEPT !.imm = <<>>], Cleaned(d)}
      BY <1>5 DEF Install
    <2>2. DOMAIN d = DOMAIN db /\ d.up = db.up /\ d.last = db.last
      OBVIOUS
    <2> HIDE DEF d
    <2>3. db'.up = db.up /\ db'.last = db.last
      BY <2>1, <2>2 DEF Cleaned
    <2>4. QED
      BY <1>5, <2>3 DEF Install
  <1>6. CASE ReadNext
    BY <1>6 DEF ReadNext, GetSnapshot, ReleaseSnapshot, NewIterator, ReleaseIterator, ChargeSeek
  <1>7. CASE MemTableCompacted \/ Register \/ NextLevel
    BY <1>7 DEF MemTableCompacted, Register, NextLevel
  <1>8. QED
    BY <1>1, <1>2, <1>3, <1>4, <1>5, <1>6, <1>7 DEF BackgroundNext

LEMMA QueueNext == ASSUME QueueInv, DbShape, Next PROVE QueueInv'
  <1>1. CASE WriteNext
    <2>1. ASSUME NEW t \in Writers, BeginWrite(t) PROVE QueueInv'
      BY <2>1, QueueBegin
    <2>2. ASSUME NEW t \in Threads, ThreadNext(t) PROVE QueueInv'
      BY <2>2, QueueRefused, QueueSwitch, QueueAppend, QueueInsert, QueuePublish DEF ThreadNext
    <2>3. QED
      BY <1>1, <2>1, <2>2 DEF WriteNext
  <1>2. CASE ReadNext \/ BackgroundNext
    BY <1>2, NotQueue, QueueSame
  <1>3. CASE CompactNext
    BY <1>3, NotQueue, QueueSame, QueueCompactRange DEF CompactNext
  <1>4. CASE FaultNext
    <2>1. \E after : Dies(after)
      BY <1>4, Zenon DEF FaultNext, Kill, PowerCut, NullManual
    <2>2. QED
      BY <2>1, QueueDies
  <1>5. CASE Recover \/ Opened
    <2>1. UNCHANGED <<queue, call>> /\ (~db.up \/ Opened)
      BY <1>5 DEF Recover, Opened
    <2>2. CASE ~db.up
      BY <2>1, <2>2, QueueEmpty
    <2>3. CASE db.up /\ Opened
      <3>1. db'.up = db.up /\ db'.last = db.last
        BY <2>3 DEF Opened, DbShape, Fields
      <3>2. QED
        BY <2>1, <3>1, QueueSame
    <2>4. QED
      BY <2>1, <2>2, <2>3 DEF DbShape
  <1>6. CASE NewManifest \/ SetCurrentFile
    <2>1. UNCHANGED <<queue, call, db>>
      BY <1>6 DEF NewManifest, SetCurrentFile
    <2>2. QED
      BY <2>1, QueueSame
  <1>7. QED
    BY <1>1, <1>2, <1>3, <1>4, <1>5, <1>6 DEF Next, OpenNext

LEMMA FilesNext == ASSUME QueueInv, FilesInv, Next PROVE FilesInv'
  <1>1. CASE WriteNext
    <2>1. ASSUME NEW t \in Writers, BeginWrite(t) PROVE FilesInv'
      <3>1. t \in Threads
        BY DEF Threads
      <3>2. QED
        BY <2>1, <3>1, FilesWrite
    <2>2. ASSUME NEW t \in Threads, ThreadNext(t) PROVE FilesInv'
      BY <2>2, FilesWrite, FilesSwitch, FilesAppend, FilesInsert, FilesPublish DEF ThreadNext
    <2>3. QED
      BY <1>1, <2>1, <2>2 DEF WriteNext
  <1>2. CASE ReadNext
    <2>1. CASE GetSnapshot \/ \E s \in snapshots : ReleaseSnapshot(s)
      BY <2>1, FilesSame DEF GetSnapshot, ReleaseSnapshot
    <2>2. CASE NewIterator \/ ReleaseIterator
      BY <2>2, FilesIterator
    <2>3. CASE \E f \in DOMAIN db.ver : ChargeSeek(f)
      BY <2>3, FilesSeek
    <2>4. QED
      BY <1>2, <2>1, <2>2, <2>3 DEF ReadNext
  <1>3. CASE BackgroundNext
    BY <1>3, FilesBeginFlush, FilesTableBuilt, FilesTableFailed, FilesNothing, FilesCompaction,
       FilesWriteOutput, FilesLogResults, FilesOutputFailed, FilesManifestWritten,
       FilesManifestFailed, FilesInstall DEF BackgroundNext
  <1>4. CASE CompactNext
    <2>1. CASE CompactRange \/ MemTableCompacted \/ NextLevel
      <3>1. UNCHANGED <<disk, db, bg, reader>>
        BY <2>1 DEF CompactRange, MemTableCompacted, NextLevel
      <3>2. QED
        BY <3>1, FilesSame
    <2>2. QED
      BY <1>4, <2>1, FilesRegister DEF CompactNext
  <1>5. CASE FaultNext
    BY <1>5, FilesKill, FilesPowerCut DEF FaultNext
  <1>6. CASE OpenNext
    BY <1>6, FilesRecover, FilesNewManifest, FilesCurrent, FilesOpened DEF OpenNext
  <1>7. QED
    BY <1>1, <1>2, <1>3, <1>4, <1>5, <1>6 DEF Next

LEMMA QueueInit == ASSUME Init PROVE QueueInv
  <1>1. queue = <<>> /\ call = [t \in Threads |-> Idle] /\ db.up
    BY DEF Init
  <1>2. Idle \in Calls /\ <<>> \in Seq(Threads) /\ Len(<<>>) = 0
    BY DEF Idle, Calls
  <1>3. QED
    BY <1>1, <1>2 DEF QueueInv, QueueShape, InLine, Grouped

LEMMA FilesInit == ASSUME Init PROVE FilesInv
  <1>1. /\ db = [up |-> TRUE, mem |-> {}, imm |-> <<>>, log |-> 3, ver |-> NoFile,
                 last |-> 0, next |-> 4, logNumber |-> 3, manifest |-> 2,
                 failed |-> FALSE, pending |-> {}, seek |-> {}]
        /\ bg = [pc |-> "idle", table |-> 0, job |-> <<>>, edit |-> <<>>] /\ reader = <<>>
    BY DEF Init, NoWork
  <1>2. /\ DOMAIN disk = {"logs", "safe", "tables", "manifests", "current"}
        /\ disk.current = 2 /\ disk.tables = NoFile
        /\ DOMAIN disk.logs = {3} /\ disk.logs[3] = <<>>
        /\ DOMAIN disk.safe = {3} /\ disk.safe[3] = 0
        /\ DOMAIN disk.manifests = {2}
        /\ disk.manifests[2] = [ver |-> NoFile, log |-> 3, next |-> 4, last |-> 0, half |-> FALSE]
    BY DEF Init, With, NoFile
  <1>3. <<>> \in Seq(Records) /\ DOMAIN <<>> = {} /\ 0 \in 0 .. Len(<<>>)
    OBVIOUS
  <1>4. DbShape /\ BgShape
    BY <1>1 DEF DbShape, BgShape, Fields
  <1>5. DiskShape
    <2>1. \A n \in DOMAIN disk.logs :
            disk.logs[n] \in Seq(Records) /\ disk.safe[n] \in 0 .. Len(disk.logs[n])
      BY <1>2, <1>3
    <2>2. \A n \in DOMAIN disk.manifests : disk.manifests[n] = [ver |-> NoFile, log |-> 3, next |-> 4, last |-> 0, half |-> FALSE]
      BY <1>2
    <2>3. \A n \in DOMAIN disk.manifests :
            /\ disk.manifests[n].log \in Nat /\ disk.manifests[n].next \in Nat
            /\ disk.manifests[n].last \in Nat
      BY <2>2
    <2>4. QED
      BY <1>2, <2>1, <2>3 DEF DiskShape, Fields
  <1>6. Bounded
    <2>1. 3 \in Nat /\ \A n \in DOMAIN disk.logs : n <= 3 /\ \A i \in DOMAIN disk.logs[n] : disk.logs[n][i].last <= 3
      BY <1>2, <1>3
    <2>2. QED
      BY <2>1 DEF Bounded
  <1>7. Named /\ Live /\ Numbered /\ InStep /\ Editing /\ Opening
    BY <1>1, <1>2 DEF Named, Live, Numbered, InStep, Editing, Opening, CurrentManifest
  <1>8. QED
    BY <1>4, <1>5, <1>6, <1>7 DEF FilesInv, Shape

LEMMA Stuttering == ASSUME QueueInv, FilesInv, UNCHANGED vars PROVE QueueInv' /\ FilesInv'
  <1>1. UNCHANGED <<disk, db, bg, reader, queue, call>>
    BY DEF vars
  <1>2. QED
    BY <1>1, FilesSame, QueueSame

\* In every state the queue and the files are in order.
THEOREM StoreStays == Spec => [](QueueInv /\ FilesInv)
  <1>1. Init => QueueInv /\ FilesInv
    BY QueueInit, FilesInit
  <1>2. QueueInv /\ FilesInv /\ [Next]_vars => QueueInv' /\ FilesInv'
    BY QueueNext, FilesNext, Stuttering DEF FilesInv, Shape
  <1>3. QED
    BY <1>1, <1>2, PTL DEF Spec

\* Nothing is deleted that a reader, a compaction, the memtables or the next
\* Open still needs (FilesKept): DeleteObsoleteFiles goes by the version, the
\* pending outputs and the log number of the database alone, and these never
\* run ahead of what CURRENT's manifest says.
THEOREM FilesStay == Spec => []FilesKept
  <1>1. FilesInv => FilesKept
    BY DEF FilesInv, FilesKept, Named, Live, Numbered, CurrentManifest, Referenced
  <1>2. QED
    BY <1>1, StoreStays, PTL

-----------------------------------------------------------------------------
(* Whoever waits has work scheduled.                                       *)

\* There are finitely many tables, so a level's tables can be counted.
TablesFinite == IsFiniteSet(DOMAIN disk.tables)

LEMMA MoreTables ==
    ASSUME TablesFinite, NEW S, IsFiniteSet(S), DOMAIN disk'.tables \subseteq S \cup DOMAIN disk.tables
    PROVE  TablesFinite'
  BY FS_Union, FS_Subset DEF TablesFinite

LEMMA OneMoreTable ==
    ASSUME TablesFinite, DiskShape, NEW f, NEW c, disk' = [disk EXCEPT !.tables = With(@, f, c)]
    PROVE  TablesFinite'
  <1>1. DOMAIN disk'.tables \subseteq {f} \cup DOMAIN disk.tables
    BY DEF With, DiskShape, Fields
  <1>2. IsFiniteSet({f})
    BY FS_Singleton
  <1>3. QED
    BY <1>1, <1>2, MoreTables

LEMMA FewerTables ==
    ASSUME TablesFinite, DOMAIN disk'.tables \subseteq DOMAIN disk.tables
    PROVE  TablesFinite'
  BY FS_Subset DEF TablesFinite

LEMMA SweptTables ==
    ASSUME DiskShape, NEW d, NEW job, disk' = Swept(disk, d, job)
    PROVE  /\ DOMAIN disk'.tables \subseteq DOMAIN disk.tables
           /\ \A f \in DOMAIN disk'.tables : disk'.tables[f] = disk.tables[f]
  <1>1. CASE d.failed
    BY <1>1 DEF Swept
  <1>2. CASE ~d.failed
    <2>1. disk'.tables = Only(disk.tables, d.pending \cup Referenced(d, job))
      BY <1>2 DEF Swept, DiskShape, Fields
    <2> DEFINE live == d.pending \cup Referenced(d, job)
    <2> HIDE DEF live
    <2>2. disk'.tables = Only(disk.tables, live)
      BY <2>1 DEF live
    <2>3. QED
      BY <2>2 DEF Only
  <1>3. QED
    BY <1>1, <1>2

\* What a thread that writes leaves alone.
LEMMA WriteTables ==
    ASSUME DiskShape, DbShape, WriteNext
    PROVE  /\ disk'.tables = disk.tables /\ manual' = manual
           /\ db'.ver = db.ver /\ db'.seek = db.seek /\ db'.up = db.up
           /\ db.failed => db'.failed
           /\ \/ bg' = bg /\ db'.imm = db.imm
              \/ MaybeSchedule(db', manual')
  <1> USE DEF DbShape, DiskShape, Fields
  <1>1. ASSUME NEW t \in Writers, BeginWrite(t) PROVE UNCHANGED <<disk, db, bg, manual>>
    BY <1>1 DEF BeginWrite
  <1>2. ASSUME NEW t \in Threads, WriteRefused(t) \/ NoNewLog(t) \/ WriteNothing(t)
        PROVE  UNCHANGED <<disk, db, bg, manual>>
    BY <1>2 DEF WriteRefused, NoNewLog, WriteNothing
  <1>3. ASSUME NEW t \in Threads, SwitchMemTable(t)
        PROVE  /\ disk'.tables = disk.tables /\ manual' = manual
               /\ db'.ver = db.ver /\ db'.seek = db.seek /\ db'.up = db.up
               /\ db.failed => db'.failed
               /\ MaybeSchedule(db', manual')
    <2>1. MaybeSchedule(db', manual) /\ manual' = manual
      BY <1>3 DEF SwitchMemTable
    <2>2. MaybeSchedule(db', manual')
      BY <2>1 DEF MaybeSchedule
    <2>3. QED
      BY <1>3, <2>1, <2>2 DEF SwitchMemTable
  <1>4. ASSUME NEW t \in Threads, AppendRecord(t)
        PROVE  disk'.tables = disk.tables /\ UNCHANGED <<db, bg, manual>>
    <2>1. \/ disk' = disk
          \/ \E r : disk' = [disk EXCEPT !.logs[db.log] = Append(@, r)]
      BY <1>4, Zenon DEF AppendRecord
    <2>2. QED
      BY <1>4, <2>1 DEF AppendRecord
  <1>5. ASSUME NEW t \in Threads, InsertInto(t) \/ Publish(t)
        PROVE  /\ disk'.tables = disk.tables /\ UNCHANGED <<bg, manual>>
               /\ db'.ver = db.ver /\ db'.seek = db.seek /\ db'.up = db.up /\ db'.imm = db.imm
               /\ db.failed => db'.failed
    <2>1. CASE InsertInto(t)
      <3>1. /\ disk' = disk \/ disk' = [disk EXCEPT !.safe[db.log] = Len(disk.logs[db.log])]
            /\ db' = db \/ db' = [db EXCEPT !.mem = @ \cup (call[t].first .. call[t].last)]
            /\ UNCHANGED <<bg, manual>>
        BY <2>1 DEF InsertInto
      <3>2. QED
        BY <3>1
    <2>2. CASE Publish(t)
      <3>1. /\ disk' = disk /\ UNCHANGED <<bg, manual>>
            /\ db' = [db EXCEPT !.last = call[t].last, !.failed = @ \/ call[t].phase = "sync_failed"]
        BY <2>2 DEF Publish
      <3>2. QED
        BY <3>1
    <2>3. QED
      BY <1>5, <2>1, <2>2
  <1>6. QED
    BY <1>1, <1>2, <1>3, <1>4, <1>5 DEF WriteNext, ThreadNext

LEMMA FiniteNext == ASSUME TablesFinite, FilesInv, Next PROVE TablesFinite'
  <1>0. DiskShape /\ DbShape
    BY DEF FilesInv, Shape
  <1>1. CASE WriteNext
    BY <1>0, <1>1, WriteTables, FewerTables
  <1>2. CASE ReadNext \/ CompactNext
    <2>1. disk' = disk
      BY <1>2 DEF ReadNext, GetSnapshot, ReleaseSnapshot, NewIterator, ReleaseIterator, ChargeSeek,
                  CompactNext, CompactRange, MemTableCompacted, Register, NextLevel
    <2>2. QED
      BY <2>1, FewerTables
  <1>3. CASE BackgroundNext
    <2>1. CASE BeginFlush \/ TableFailed \/ NothingToDo \/ ManualDone \/ BeginCompaction
               \/ LogResults \/ OutputFailed
      <3>1. disk' = disk
        BY <2>1 DEF BeginFlush, TableFailed, NothingToDo, ManualDone, BeginCompaction, LogResults,
                    OutputFailed
      <3>2. QED
        BY <3>1, FewerTables
    <2>2. CASE ManifestWritten \/ ManifestFailed
      <3>1. \/ disk' = disk \/ disk' = [disk EXCEPT !.manifests[db.manifest] = ApplyToManifest(@, bg.edit[1])]
            \/ disk' = [disk EXCEPT !.manifests[db.manifest].half = TRUE]
        BY <2>2 DEF ManifestWritten, ManifestFailed
      <3>2. disk'.tables = disk.tables
        BY <1>0, <3>1 DEF DiskShape, Fields
      <3>3. QED
        BY <3>2, FewerTables
    <2>3. CASE TableBuilt
      <3>1. disk' = disk \/ disk' = [disk EXCEPT !.tables = With(@, bg.table, Imm(db))]
        BY <2>3 DEF TableBuilt
      <3>2. QED
        BY <1>0, <3>1, OneMoreTable, FewerTables
    <2>4. CASE WriteOutput
      <3>1. disk' = [disk EXCEPT !.tables = With(@, db.next, Head(bg.job[1].todo))]
        BY <2>4 DEF WriteOutput
      <3>2. QED
        BY <1>0, <3>1, OneMoreTable
    <2>5. CASE Install
      <3>1. disk' = disk \/ \E job : disk' = Swept(disk, db', job)
        BY <2>5 DEF Install
      <3>2. QED
        BY <1>0, <3>1, SweptTables, FewerTables
    <2>6. QED
      BY <1>3, <2>1, <2>2, <2>3, <2>4, <2>5 DEF BackgroundNext
  <1>4. CASE FaultNext
    <2>1. CASE Kill \/ NullManual
      BY <2>1, FewerTables DEF Kill, NullManual, Dies
    <2>2. CASE PowerCut
      <3>1. \E len : disk' = [disk EXCEPT !.logs = [n \in DOMAIN @ |-> SubSeq(@[n], 1, len[n])]]
        BY <2>2 DEF PowerCut, Dies
      <3>2. disk'.tables = disk.tables
        BY <1>0, <3>1 DEF DiskShape, Fields
      <3>3. QED
        BY <3>2, FewerTables
    <2>3. QED
      BY <1>4, <2>1, <2>2 DEF FaultNext
  <1>5. CASE Recover
    <2>1. PICK tables, new, last : Recovers(tables, new, last)
      BY <1>0, <1>5, Recovering DEF FilesInv
    <2>2. /\ IsFiniteSet(DOMAIN tables)
          /\ disk' = [disk EXCEPT !.tables = Over(tables, @), !.logs = With(@, new, <<>>),
                            !.safe = With(@, new, 0)]
      BY <2>1 DEF Recovers
    <2>3. DOMAIN disk'.tables \subseteq DOMAIN tables \cup DOMAIN disk.tables
      BY <1>0, <2>2 DEF DiskShape, Fields, Over
    <2>4. QED
      BY <2>2, <2>3, MoreTables
  <1>6. CASE NewManifest \/ SetCurrentFile
    <2>1. \/ disk' = [disk EXCEPT !.current = db.manifest]
          \/ disk' = [disk EXCEPT !.manifests = With(@, db.manifest,
                        ApplyToManifest([ver |-> db.ver, half |-> FALSE], bg.edit[1]))]
      BY <1>6 DEF NewManifest, SetCurrentFile
    <2>2. disk'.tables = disk.tables
      BY <1>0, <2>1 DEF DiskShape, Fields
    <2>3. QED
      BY <2>2, FewerTables
  <1>7. CASE Opened
    <2>1. disk' = Swept(disk, db', <<>>)
      BY <1>7 DEF Opened
    <2>2. QED
      BY <1>0, <2>1, SweptTables, FewerTables
  <1>8. QED
    BY <1>1, <1>2, <1>3, <1>4, <1>5, <1>6, <1>7 DEF Next, OpenNext

\* When there is something to do for it, the background thread is at work, or
\* its work is scheduled.
WorkScheduled == db.up /\ Scheduled(db, manual) => bg.pc # "idle"

\* Whether a level is too large is a matter of the tables of the version.
LEMMA SameSchedule ==
    ASSUME \A f \in DOMAIN db'.ver : disk'.tables[f] = disk.tables[f]
    PROVE  Scheduled(db, manual)' <=> Scheduled(db', manual')
  <1>1. ASSUME NEW l
        PROVE  Score(db.ver, l)' = Score(db'.ver, l)
    <2>1. Entries(FilesAt(db.ver, l))' = Entries(FilesAt(db'.ver, l))
      BY DEF Entries, FilesAt
    <2>2. QED
      BY <2>1, Zenon DEF Score, Size, FilesAt
  <1>2. SizeCompaction(db.ver)' <=> SizeCompaction(db'.ver)
    BY <1>1, Zenon DEF SizeCompaction
  <1>3. QED
    BY <1>2, Zenon DEF Scheduled

LEMMA EndedIdle == ASSUME NEW d, NEW m, Ended(d, m).pc = "idle" PROVE ~Scheduled(d, m)
  BY DEF Ended, NoWork

LEMMA StillScheduled ==
    ASSUME WorkScheduled, db.up, \A f \in DOMAIN db'.ver : disk'.tables[f] = disk.tables[f],
           \/ bg' = Ended(db', manual')
           \/ bg'.pc # "idle"
           \/ MaybeSchedule(db', manual') /\ BgShape
           \/ /\ bg' = bg /\ db'.ver = db.ver /\ db'.imm = db.imm /\ db'.seek = db.seek
              /\ db.failed => db'.failed
              /\ manual'.registered => manual.registered
    PROVE  WorkScheduled'
  <1>1. SUFFICES ASSUME Scheduled(db', manual'), bg'.pc = "idle" PROVE FALSE
    BY SameSchedule DEF WorkScheduled
  <1>2. CASE bg' = Ended(db', manual')
    BY <1>1, <1>2, EndedIdle
  <1>3. CASE MaybeSchedule(db', manual') /\ BgShape
    BY <1>1, <1>3 DEF MaybeSchedule, BgShape, Fields
  <1>4. CASE /\ bg' = bg /\ db'.ver = db.ver /\ db'.imm = db.imm /\ db'.seek = db.seek
             /\ db.failed => db'.failed
             /\ manual'.registered => manual.registered
    <2>1. Scheduled(db, manual)
      BY <1>1, <1>4 DEF Scheduled
    <2>2. QED
      BY <1>1, <1>4, <2>1 DEF WorkScheduled
  <1>5. QED
    BY <1>1, <1>2, <1>3, <1>4

\* Where the background thread's steps leave it.
LEMMA BackgroundGoesOn ==
    ASSUME BgShape, BackgroundNext
    PROVE  bg'.pc # "idle" \/ bg' = Ended(db', manual')
  <1> USE DEF BgShape, Fields
  <1>1. ASSUME NEW d, bg' = AfterFlush(d), manual' = manual, d = db'
        PROVE  bg'.pc # "idle" \/ bg' = Ended(db', manual')
    BY <1>1 DEF AfterFlush
  <1>2. CASE BeginFlush \/ TableBuilt \/ LogResults \/ ManifestWritten
    BY <1>2 DEF BeginFlush, TableBuilt, LogResults, ManifestWritten
  <1>3. CASE WriteOutput
    BY <1>3 DEF WriteOutput
  <1>4. CASE TableFailed
    <2>1. bg' = AfterFlush(db') /\ manual' = manual
      BY <1>4 DEF TableFailed
    <2>2. QED
      BY <1>1, <2>1
  <1>5. CASE NothingToDo \/ ManualDone \/ OutputFailed
    <2>1. bg' = Ended(db', manual')
      <3>1. CASE NothingToDo
        BY <3>1, Zenon DEF NothingToDo
      <3>2. CASE ManualDone
        BY <3>2, Zenon DEF ManualDone
      <3>3. CASE OutputFailed
        BY <3>3, Zenon DEF OutputFailed
      <3>4. QED
        BY <1>5, <3>1, <3>2, <3>3
    <2>2. QED
      BY <2>1
  <1>6. CASE BeginCompaction
    <2>1. PICK c : IF ~manual.registered /\ IsTrivialMove(c)
                   THEN bg' = [bg EXCEPT !.pc = "log", !.edit = <<Edit(db, "move", c.in0,
                            [f \in c.in0 |-> c.level + 1], db.logNumber)>>]
                   ELSE bg' = [bg EXCEPT !.pc = "work", !.job =
                            <<[compaction |-> c, manual |-> manual.registered, done |-> <<>>,
                               todo |-> Outputs(c, Min(snapshots \cup {db.last}))]>>]
      BY <1>6, Zenon DEF BeginCompaction
    <2>2. CASE ~manual.registered /\ IsTrivialMove(c)
      BY <2>1, <2>2
    <2>3. CASE ~(~manual.registered /\ IsTrivialMove(c))
      BY <2>1, <2>3
    <2>4. QED
      BY <2>2, <2>3
  <1>7. CASE ManifestFailed
    <2> DEFINE failed == [db EXCEPT !.failed = TRUE]
    <2>1. \/ db' = failed /\ bg' = AfterFlush(failed) /\ manual' = manual
          \/ bg' = Ended(db', manual')
      BY <1>7, Zenon DEF ManifestFailed
    <2> HIDE DEF failed
    <2>2. QED
      BY <1>1, <2>1
  <1>8. CASE Install
    <2> DEFINE d == [db EXCEPT !.ver = Apply(@, bg.edit[1]), !.logNumber = bg.edit[1].log,
                               !.seek = {}]
    <2>1. \/ bg' = AfterFlush(db') /\ manual' = manual
          \/ db' = d /\ bg' = Ended(d, manual) /\ manual' = manual
          \/ bg' = Ended(db', manual')
      BY <1>8 DEF Install
    <2> HIDE DEF d
    <2>2. QED
      BY <1>1, <2>1
  <1>9. QED
    BY <1>2, <1>3, <1>4, <1>5, <1>6, <1>7, <1>8 DEF BackgroundNext

LEMMA WorkBackground ==
    ASSUME WorkScheduled, FilesInv, FilesInv', BackgroundNext
    PROVE  WorkScheduled'
  <1>0. DiskShape /\ DbShape /\ BgShape
    BY DEF FilesInv, Shape
  <1>1. CASE bg'.pc # "idle"
    BY <1>1 DEF WorkScheduled
  <1>2. CASE bg' = Ended(db', manual') /\ bg'.pc = "idle"
    <2>1. db.up
      BY DEF BackgroundNext, BeginFlush, TableBuilt, TableFailed, NothingToDo, ManualDone,
             BeginCompaction, WriteOutput, LogResults, OutputFailed, ManifestWritten,
             ManifestFailed, Install
    <2>2. db'.up
      BY <1>0, <2>1, NotQueue
    <2>3. \A f \in DOMAIN db'.ver : disk'.tables[f] = disk.tables[f]
      <3>1. DOMAIN db'.ver \subseteq DOMAIN disk'.tables
        BY <2>2 DEF FilesInv, Live
      <3>2. CASE Install
        <4>1. disk' = disk \/ \E job : disk' = Swept(disk, db', job)
          BY <3>2 DEF Install
        <4>2. QED
          BY <1>0, <3>1, <4>1, SweptTables
      <3>3. CASE TableBuilt \/ WriteOutput
        <4>1. bg'.pc \in {"log", "work"}
          BY <1>0, <3>3 DEF TableBuilt, WriteOutput, BgShape, Fields
        <4>2. QED
          BY <1>2, <4>1
      <3>4. CASE ManifestWritten \/ ManifestFailed
        <4>1. \/ disk' = disk \/ disk' = [disk EXCEPT !.manifests[db.manifest] = ApplyToManifest(@, bg.edit[1])]
              \/ disk' = [disk EXCEPT !.manifests[db.manifest].half = TRUE]
          BY <3>4 DEF ManifestWritten, ManifestFailed
        <4>2. QED
          BY <1>0, <4>1 DEF DiskShape, Fields
      <3>5. CASE BeginFlush \/ TableFailed \/ NothingToDo \/ ManualDone \/ BeginCompaction
                 \/ LogResults \/ OutputFailed
        BY <3>5 DEF BeginFlush, TableFailed, NothingToDo, ManualDone, BeginCompaction, LogResults,
                    OutputFailed
      <3>6. QED
        BY <3>2, <3>3, <3>4, <3>5 DEF BackgroundNext
    <2>4. QED
      BY <1>2, <2>1, <2>3, StillScheduled
  <1>3. QED
    BY <1>0, <1>1, <1>2, BackgroundGoesOn

LEMMA WorkNext ==
    ASSUME WorkScheduled, QueueInv, FilesInv, FilesInv', Next
    PROVE  WorkScheduled'
  <1>0. DiskShape /\ DbShape /\ BgShape
    BY DEF FilesInv, Shape
  <1>1. CASE WriteNext
    <2>1. /\ disk'.tables = disk.tables /\ manual' = manual
          /\ db'.ver = db.ver /\ db'.seek = db.seek /\ db'.up = db.up
          /\ db.failed => db'.failed
          /\ \/ bg' = bg /\ db'.imm = db.imm
             \/ MaybeSchedule(db', manual')
      BY <1>0, <1>1, WriteTables
    <2>2. CASE db.up
      BY <1>0, <2>1, <2>2, StillScheduled
    <2>3. CASE ~db.up
      BY <2>1, <2>3 DEF WorkScheduled
    <2>4. QED
      BY <2>2, <2>3
  <1>2. CASE BackgroundNext
    BY <1>2, WorkBackground
  <1>3. CASE ReadNext
    <2>1. disk' = disk /\ manual' = manual /\ db'.up = db.up
          /\ ((bg' = bg /\ db' = db) \/ MaybeSchedule(db', manual))
      BY <1>0, <1>3 DEF ReadNext, GetSnapshot, ReleaseSnapshot, NewIterator, ReleaseIterator,
                        ChargeSeek, DbShape, Fields
    <2>2. CASE db.up
      BY <1>0, <2>1, <2>2, StillScheduled
    <2>3. CASE ~db.up
      BY <2>1, <2>3 DEF WorkScheduled
    <2>4. QED
      BY <2>2, <2>3
  <1>4. CASE CompactNext
    <2>1. disk' = disk /\ db' = db
      BY <1>4 DEF CompactNext, CompactRange, MemTableCompacted, Register, NextLevel
    <2>2. CASE Register
      BY <1>0, <2>1, <2>2, StillScheduled DEF Register
    <2>3. CASE CompactRange
      <3>1. bg' = bg /\ ~manual'.registered
        BY <2>3 DEF CompactRange, NoManual
      <3>2. CASE db.up
        BY <2>1, <3>1, <3>2, StillScheduled
      <3>3. CASE ~db.up
        BY <2>1, <3>3 DEF WorkScheduled
      <3>4. QED
        BY <3>2, <3>3
    <2>4. CASE MemTableCompacted
      <3>1. bg' = bg /\ manual' = [manual EXCEPT !.phase = "range"] /\ db.up
        BY <2>4 DEF MemTableCompacted
      <3>2. manual'.registered => manual.registered
        BY <3>1
      <3>3. QED
        BY <2>1, <3>1, <3>2, StillScheduled
    <2>5. CASE NextLevel
      <3>1. bg' = bg /\ ~manual'.registered /\ db.up
        BY <2>5 DEF NextLevel, NoManual
      <3>2. QED
        BY <2>1, <3>1, StillScheduled
    <2>6. QED
      BY <1>4, <2>2, <2>3, <2>4, <2>5 DEF CompactNext
  <1>5. CASE FaultNext
    <2>1. ~db'.up
      BY <1>5 DEF FaultNext, Kill, PowerCut, NullManual, Dies
    <2>2. QED
      BY <2>1 DEF WorkScheduled
  <1>6. CASE Recover \/ NewManifest \/ SetCurrentFile
    <2>1. db'.up = db.up /\ ~db.up
      <3>1. CASE Recover
        BY <1>0, <3>1 DEF Recover, BgShape, DbShape, Fields
      <3>2. CASE NewManifest
        BY <1>0, <3>2 DEF NewManifest, BgShape, DbShape, Fields
      <3>3. CASE SetCurrentFile
        BY <1>0, <3>3 DEF SetCurrentFile, BgShape, DbShape, Fields
      <3>4. QED
        BY <1>6, <3>1, <3>2, <3>3
    <2>2. QED
      BY <2>1 DEF WorkScheduled
  <1>7. CASE Opened
    <2>1. disk' = Swept(disk, db', <<>>) /\ bg' = Ended(db', manual) /\ manual' = manual
      BY <1>7, Zenon DEF Opened
    <2>2. db'.up
      BY <1>0, <1>7 DEF Opened, DbShape, Fields
    <2>3. \A f \in DOMAIN db'.ver : disk'.tables[f] = disk.tables[f]
      <3>1. DOMAIN db'.ver \subseteq DOMAIN disk'.tables
        BY <2>2 DEF FilesInv, Live
      <3>2. QED
        BY <1>0, <2>1, <3>1, SweptTables
    <2>4. ASSUME bg'.pc = "idle" PROVE ~Scheduled(db', manual')
      BY <2>1, <2>4, EndedIdle
    <2>5. QED
      BY <2>3, <2>4, SameSchedule DEF WorkScheduled
  <1>8. QED
    BY <1>1, <1>2, <1>3, <1>4, <1>5, <1>6, <1>7 DEF Next, OpenNext

\* There is room on every level for something.
LEMMA LevelHasRoom ==
    ASSUME NEW l \in 0 .. MaxLevel
    PROVE  MaxBytesForLevel[l] \in Nat \ {0}
  <1> DEFINE n == MaxLevel
             P == Nat \ {0}
             Eq(f) == f = [i \in 0 .. n |-> IF i <= 1 THEN LevelLimit ELSE LevelFactor * f[i - 1]]
             g == CHOOSE f : Eq(f)
  <1>1. n \in Nat /\ LevelLimit \in P /\ LevelFactor \in P
    BY LevelAssumption DEF LevelAssumption
  <1>2. MaxBytesForLevel = g
    BY DEF MaxBytesForLevel
  <1>3. \A s \in P : LevelFactor * s \in P
    BY <1>1
  <1> HIDE DEF n, P
  <1>4. \E f : Eq(f)
    <2> DEFINE D == (1 .. n) \X P
               F == [p \in D |-> IF p[1] = 1 THEN LevelLimit ELSE LevelFactor * p[2]]
    <2>1. F \in [D -> P] /\ \A i \in 1 .. n, s \in P :
                <<i, s>> \in D /\ F[<<i, s>>] = IF i = 1 THEN LevelLimit ELSE LevelFactor * s
      BY <1>1, <1>3
    <2> HIDE DEF D, F
    <2>2. PICK f \in [0 .. n -> P] : Recursion(f, n, LevelLimit, F)
      BY ONLY <1>1, <2>1, RecursionExists, Zenon
    <2>3. ASSUME NEW i \in 0 .. n
          PROVE  f[i] = IF i <= 1 THEN LevelLimit ELSE LevelFactor * f[i - 1]
      <3>1. CASE i = 0
        BY <2>2, <3>1 DEF Recursion
      <3>2. CASE i # 0
        <4>1. i \in 1 .. n /\ f[i - 1] \in P
          BY <1>1, <2>2, <3>2
        <4>2. f[i] = IF i = 1 THEN LevelLimit ELSE LevelFactor * f[i - 1]
          BY <2>1, <2>2, <4>1 DEF Recursion
        <4>3. QED
          BY <1>1, <3>2, <4>1, <4>2
      <3>3. QED
        BY <3>1, <3>2
    <2>4. QED
      BY <2>2, <2>3
  <1>5. Eq(g)
    BY <1>4
  <1> HIDE DEF g
  <1>6. g[0] \in P
    BY <1>1, <1>5
  <1>7. ASSUME NEW i \in 1 .. n, g[i - 1] \in P PROVE g[i] \in P
    <2>1. g[i] = IF i <= 1 THEN LevelLimit ELSE LevelFactor * g[i - 1]
      BY <1>1, <1>5
    <2>2. QED
      BY <1>1, <1>3, <1>7, <2>1
  <1>8. \A i \in 0 .. n : g[i] \in P
    BY <1>1, <1>6, <1>7, RecursionType
  <1>9. QED
    BY <1>2, <1>8 DEF n, P

LEMMA WorkInit == ASSUME Init PROVE WorkScheduled /\ TablesFinite
  <1>1. /\ db.imm = <<>> /\ db.seek = {} /\ db.ver = NoFile /\ ~manual.registered
        /\ disk.tables = NoFile
    BY DEF Init, NoManual
  <1>2. \A l : FilesAt(NoFile, l) = {}
    BY DEF FilesAt, NoFile
  <1>3. Cardinality({}) = 0 /\ IsFiniteSet({})
    BY FS_EmptySet
  <1>4. Size({}) = 0
    <2>1. Entries({}) = {}
      BY DEF Entries
    <2>2. QED
      BY <1>3, <2>1 DEF Size
  <1>5. ~SizeCompaction(NoFile)
    <2>1. SUFFICES ASSUME NEW l \in 0 .. MaxLevel - 1, Score(NoFile, l)[1] >= Score(NoFile, l)[2]
                   PROVE  FALSE
      BY Zenon DEF SizeCompaction
    <2>2. l \in 0 .. MaxLevel /\ L0Compact \in Nat \ {0}
      BY LevelAssumption DEF LevelAssumption
    <2>3. CASE l = 0
      BY <1>2, <1>3, <2>1, <2>2, <2>3 DEF Score
    <2>4. CASE l # 0
      <3>1. MaxBytesForLevel[l] \in Nat \ {0}
        BY <2>2, LevelHasRoom
      <3>2. Score(NoFile, l) = <<0, MaxBytesForLevel[l]>>
        BY <1>2, <1>4, <2>4 DEF Score
      <3>3. QED
        BY <2>1, <3>1, <3>2
    <2>5. QED
      BY <2>3, <2>4
  <1>6. ~Scheduled(db, manual)
    BY <1>1, <1>5 DEF Scheduled
  <1>7. QED
    BY <1>1, <1>3, <1>6 DEF WorkScheduled, TablesFinite, NoFile

\* Too many tables on level 0 are a reason to compact.
LEMMA FullLevel0 ==
    ASSUME NEW v, IsFiniteSet(DOMAIN v), Cardinality(FilesAt(v, 0)) >= L0Stop
    PROVE  SizeCompaction(v)
  <1>1. IsFiniteSet(FilesAt(v, 0))
    BY FS_Subset DEF FilesAt
  <1>2. Cardinality(FilesAt(v, 0)) \in Nat
    BY <1>1, FS_CardinalityType
  <1>3. /\ L0Compact \in Nat /\ L0Stop \in Nat /\ L0Compact <= L0Stop
        /\ MaxLevel \in Nat /\ MaxLevel > 0
    BY LevelAssumption DEF LevelAssumption
  <1>4. Score(v, 0) = <<Cardinality(FilesAt(v, 0)), L0Compact>>
    BY DEF Score
  <1>5. 0 \in 0 .. MaxLevel - 1 /\ Cardinality(FilesAt(v, 0)) >= L0Compact
    BY <1>2, <1>3
  <1>6. QED
    BY <1>4, <1>5 DEF SizeCompaction

\* A writer that waits for room, and a CompactRange that waits for its memtable
\* or its range, has the background thread at work or scheduled, or an error to
\* return with (WaitersHaveWork): every step that gives it something to do also
\* calls MaybeScheduleCompaction, or is its own.
THEOREM WorkStarts == Spec => []WaitersHaveWork
  <1> DEFINE Inv == QueueInv /\ FilesInv /\ TablesFinite /\ WorkScheduled
  <1>1. Init => Inv
    BY QueueInit, FilesInit, WorkInit
  <1>2. Inv /\ [Next]_vars => Inv'
    <2>1. ASSUME Inv, Next PROVE Inv'
      BY <2>1, QueueNext, FilesNext, FiniteNext, WorkNext DEF FilesInv, Shape
    <2>2. ASSUME Inv, UNCHANGED vars PROVE Inv'
      <3>1. UNCHANGED <<disk, db, bg, manual>>
        BY <2>2 DEF vars
      <3>2. TablesFinite'
        BY <2>2, <3>1 DEF TablesFinite
      <3>3. WorkScheduled'
        <4>1. CASE db.up
          BY <2>2, <3>1, <4>1, StillScheduled
        <4>2. CASE ~db.up
          BY <3>1, <4>2 DEF WorkScheduled
        <4>3. QED
          BY <4>1, <4>2
      <3>4. QED
        BY <2>2, <3>2, <3>3, Stuttering
    <2>3. QED
      BY <2>1, <2>2
  <1>3. Inv => WaitersHaveWork
    <2>1. SUFFICES ASSUME Inv, db.up, ~db.failed,
                          MustWait \/ db.imm # <<>> \/ manual.registered
                   PROVE  bg.pc # "idle"
      BY DEF WaitersHaveWork
    <2>2. CASE db.imm # <<>> \/ manual.registered
      BY <2>1, <2>2 DEF WorkScheduled, Scheduled
    <2>3. CASE Cardinality(FilesAt(db.ver, 0)) >= L0Stop
      <3>1. IsFiniteSet(DOMAIN db.ver)
        BY <2>1, FS_Subset DEF FilesInv, Live, TablesFinite
      <3>2. SizeCompaction(db.ver)
        BY <2>3, <3>1, FullLevel0
      <3>3. QED
        BY <2>1, <3>2 DEF WorkScheduled, Scheduled
    <2>4. QED
      BY <2>1, <2>2, <2>3 DEF MustWait
  <1> HIDE DEF Inv
  <1>4. QED
    BY <1>1, <1>2, <1>3, PTL DEF Spec

-----------------------------------------------------------------------------
(* What was acknowledged after a sync.                                     *)

IsOpening == bg.pc \in {"open", "current", "opened"}

HasEdit == bg.pc \in {"log", "open", "current"}

In(s, r) == s \in r.first .. r.last

\* A record that holds a lasting entry is synced, and can be read.
SafeIn(S, logs, safe) ==
    \A n \in DOMAIN logs : \A i \in DOMAIN logs[n] : \A s \in S :
        In(s, logs[n][i]) => i <= safe[n] /\ \A j \in 1 .. i : logs[n][j].whole

DurableSafe == SafeIn(Lasting, disk.logs, disk.safe)

\* The sequence numbers of the lasting entries are used up.
DurableKnown == db.up \/ IsOpening => \A s \in Lasting : s <= db.last

\* A lasting entry is as old as last, and so in a table, or in a log since log.
Covered(S, logs, last, log) ==
    \A s \in S :
        s <= last \/ \E n \in DOMAIN logs : n >= log /\ \E i \in DOMAIN logs[n] : In(s, logs[n][i])

\* So it is for CURRENT's manifest, and for the edit about to be written.
Covers ==
    /\ Covered(Lasting, disk.logs, CurrentManifest.last, CurrentManifest.log)
    /\ HasEdit => Covered(Lasting, disk.logs, bg.edit[1].last, bg.edit[1].log)

Writing == queue # <<>> /\ call[queue[1]].phase # "wait"

\* Only the write under way has a record with sequence numbers to come.
RecordsPast ==
    db.up => \A n \in DOMAIN disk.logs : \A i \in DOMAIN disk.logs[n] :
        \/ disk.logs[n][i].last <= db.last
        \/ n = db.log /\ Writing /\ disk.logs[n][i].last <= call[queue[1]].last

\* What goes into the memtable is in the log, and synced when it was asked for.
InFlight ==
    Writing =>
        LET c == call[queue[1]]
        IN  /\ c.phase \in {"insert", "inserted"} =>
                 \E i \in DOMAIN disk.logs[db.log] :
                    disk.logs[db.log][i].first = c.first /\ disk.logs[db.log][i].last = c.last
            /\ c.phase = "inserted" /\ c.sync =>
                 disk.safe[db.log] = Len(disk.logs[db.log])

\* A new log gets a number no log has; the log of an Open is the last, and empty.
LogNumbers ==
    /\ CurrentManifest.log <= CurrentManifest.next
    /\ HasEdit => bg.edit[1].log <= bg.edit[1].next
    /\ db.up \/ IsOpening => \A n \in DOMAIN disk.logs : n < db.next
    /\ db.up => CurrentManifest.log <= db.log
    /\ IsOpening => disk.logs[db.log] = <<>> /\ \A n \in DOMAIN disk.logs : n <= db.log
    /\ ~db.up => ~db.failed

SyncInv ==
    /\ Lasting \subseteq Nat /\ SyncedKept
    /\ DurableSafe /\ DurableKnown /\ Covers
    /\ RecordsPast /\ InFlight /\ LogNumbers

\* A step that writes nothing to the logs, and acknowledges nothing.
SameHead ==
    /\ Writing' <=> Writing
    /\ Writing => call'[queue'[1]] = call[queue[1]]

Follows(m, e) == m.last = e.last /\ m.log = e.log /\ m.next = e.next

LEMMA SyncBack ==
    ASSUME SyncInv, FilesInv, Lasting' = Lasting, UNCHANGED <<kept>>, SameHead,
           disk'.logs = disk.logs, disk'.safe = disk.safe,
           db'.up = db.up, db'.last = db.last, db'.log = db.log, db'.next \in Nat,
           db'.next >= db.next, ~db.up => ~db'.failed,
           \/ Follows(CurrentManifest', CurrentManifest)
           \/ HasEdit /\ Follows(CurrentManifest', bg.edit[1]),
           IsOpening' => IsOpening,
           HasEdit' => \/ HasEdit /\ Follows(bg'.edit[1], bg.edit[1])
                       \/ /\ db.up /\ bg'.edit[1].last = db.last
                          /\ bg'.edit[1].log \in Nat /\ bg'.edit[1].log <= db.log
                          /\ bg'.edit[1].next = db.next
    PROVE  SyncInv'
  <1> USE DEF SyncInv
  <1>1. Lasting' \subseteq Nat /\ SyncedKept'
    BY DEF SyncedKept
  <1>2. DurableSafe'
    BY DEF DurableSafe
  <1>3. DurableKnown'
    BY DEF DurableKnown
  <1>4. Covers'
    <2>1. Covered(Lasting, disk.logs, CurrentManifest.last, CurrentManifest.log)'
      BY DEF Covers, Follows
    <2>2. db.up => \A log : Covered(Lasting, disk.logs, db.last, log)
      BY DEF DurableKnown, Covered
    <2>3. HasEdit' => Covered(Lasting, disk.logs, bg.edit[1].last, bg.edit[1].log)'
      BY <2>2 DEF Covers, Follows
    <2>4. QED
      BY <2>1, <2>3 DEF Covers
  <1>5. RecordsPast'
    BY DEF RecordsPast, SameHead
  <1>6. InFlight'
    BY DEF InFlight, SameHead
  <1>7. LogNumbers'
    <2>1. DOMAIN disk.logs \subseteq Nat /\ db.next \in Nat /\ db.log \in Nat
      BY DEF FilesInv, Shape, DiskShape, DbShape
    <2>2. CurrentManifest'.log <= CurrentManifest'.next
      BY DEF LogNumbers, Follows
    <2>3. HasEdit' => bg'.edit[1].log <= bg'.edit[1].next
      <3>1. CASE HasEdit /\ Follows(bg'.edit[1], bg.edit[1])
        BY <3>1 DEF LogNumbers, Follows
      <3>2. CASE HasEdit' /\ ~(HasEdit /\ Follows(bg'.edit[1], bg.edit[1]))
        <4>1. /\ bg'.edit[1].log \in Nat /\ bg'.edit[1].log <= db.log
              /\ bg'.edit[1].next = db.next /\ db.log < db.next
          BY <3>2 DEF FilesInv, Numbered
        <4>2. bg'.edit[1].log <= db.next
          BY <2>1, <4>1
        <4>3. QED
          BY <4>1, <4>2
      <3>3. QED
        BY <3>1, <3>2
    <2>4. db'.up \/ IsOpening' => \A n \in DOMAIN disk'.logs : n < db'.next
      <3>1. db.up \/ IsOpening => \A n \in DOMAIN disk.logs : n < db.next
        BY DEF LogNumbers
      <3>2. QED
        BY <2>1, <3>1
    <2>5. db'.up => CurrentManifest'.log <= db'.log
      <3>1. CASE Follows(CurrentManifest', CurrentManifest)
        BY <3>1 DEF LogNumbers, Follows
      <3>2. CASE HasEdit /\ Follows(CurrentManifest', bg.edit[1]) /\ db.up
        <4>1. bg.pc = "log"
          BY <3>2 DEF FilesInv, Shape, BgShape, HasEdit
        <4>2. QED
          BY <3>2, <4>1 DEF FilesInv, Editing, Follows
      <3>3. QED
        BY <3>1, <3>2
    <2>6. IsOpening' => disk'.logs[db'.log] = <<>> /\ \A n \in DOMAIN disk'.logs : n <= db'.log
      BY DEF LogNumbers
    <2>7. ~db'.up => ~db'.failed
      OBVIOUS
    <2>8. QED
      BY <2>2, <2>3, <2>4, <2>5, <2>6, <2>7 DEF LogNumbers
  <1>8. QED
    BY <1>1, <1>2, <1>3, <1>4, <1>5, <1>6, <1>7

\* The first of the queue stays what it is, when others join, and when one
\* leaves that has not begun to write.
LEMMA HeadJoined ==
    ASSUME QueueInv, NEW t \in Threads, NEW batch, NEW sync, Enqueue(t, batch, sync)
    PROVE  SameHead
  <1>1. /\ call[t].phase = "idle" /\ queue' = Append(queue, t)
        /\ call' = [call EXCEPT ![t] = [Idle EXCEPT !.phase = "wait", !.batch = batch,
                                        !.sync = sync, !.force = batch = <<>>]]
    BY DEF Enqueue
  <1>2. queue \in Seq(Threads) /\ call \in [Threads -> Calls] /\ Len(queue) \in Nat
    BY LengthOfQueue DEF QueueInv, QueueShape
  <1>3. /\ Len(queue') = Len(queue) + 1 /\ queue'[Len(queue) + 1] = t
        /\ \A i \in 1 .. Len(queue) : queue'[i] = queue[i]
    BY <1>1, <1>2, AppendProperties
  <1>4. call'[t].phase = "wait" /\ \A u \in Threads : u # t => call'[u] = call[u]
    BY <1>1, <1>2 DEF Idle
  <1>5. CASE queue = <<>>
    <2>1. queue'[1] = t
      BY <1>3, <1>5
    <2>2. QED
      BY <1>4, <1>5, <2>1 DEF SameHead, Writing
  <1>6. CASE queue # <<>>
    <2>1. 1 \in 1 .. Len(queue) /\ queue[1] \in Threads /\ call[queue[1]].phase # "idle"
      BY <1>2, <1>6, LengthOfQueue DEF QueueInv, InLine
    <2>2. queue'[1] = queue[1] /\ queue[1] # t /\ queue' # <<>>
      BY <1>1, <1>2, <1>3, <2>1
    <2>3. QED
      BY <1>4, <1>6, <2>1, <2>2 DEF SameHead, Writing
  <1>7. QED
    BY <1>5, <1>6

LEMMA HeadLeft ==
    ASSUME QueueInv, NEW t \in Threads, Waiting(t), Leave(1), db'.up = db.up
    PROVE  SameHead
  <1>1. AtFront(t) /\ call[t].phase = "wait"
    BY DEF Waiting
  <1>2. queue[1] = t /\ 1 \in 1 .. Len(queue)
    BY <1>1, HeadIsFirst
  <1>3. queue' # <<>> => call'[queue'[1]].phase = "wait"
    BY <1>2, QueueLeave
  <1>4. QED
    BY <1>1, <1>2, <1>3 DEF SameHead, Writing

LEMMA HeadSame == ASSUME UNCHANGED <<queue, call>> PROVE SameHead
  BY DEF SameHead, Writing

LEMMA FollowsSame == ASSUME NEW m PROVE Follows(m, m)
  BY DEF Follows

\* The steps of the threads and the readers that leave the files alone.
LEMMA SyncQuiet ==
    ASSUME SyncInv, FilesInv, Lasting' = Lasting, UNCHANGED <<kept, disk, db>>, SameHead,
           bg' = bg \/ bg'.pc \in {"idle", "scheduled", "build", "work", "install"}
    PROVE  SyncInv'
  <1>1. CurrentManifest' = CurrentManifest /\ Follows(CurrentManifest, CurrentManifest)
    BY FollowsSame DEF CurrentManifest
  <1>2. HasEdit' => HasEdit /\ bg' = bg
    BY DEF HasEdit
  <1>3. IsOpening' => IsOpening
    BY DEF IsOpening
  <1>4. Follows(bg.edit[1], bg.edit[1])
    BY FollowsSame
  <1>5. db.next \in Nat /\ (~db.up => ~db.failed)
    BY DEF SyncInv, LogNumbers, FilesInv, Shape, DbShape
  <1>6. db'.next \in Nat /\ db'.next >= db.next
    BY <1>5
  <1>7. QED
    BY <1>1, <1>2, <1>3, <1>4, <1>5, <1>6, SyncBack

LEMMA SyncThreads ==
    ASSUME SyncInv, QueueInv, FilesInv, NEW t \in Threads,
           WriteRefused(t) \/ NoNewLog(t) \/ WriteNothing(t) \/ BeginWrite(t) \/ CompactRange
    PROVE  SyncInv'
  <1>1. Lasting' = Lasting /\ UNCHANGED <<kept, disk, db, bg>>
    BY DEF Lasting, WriteRefused, NoNewLog, WriteNothing, BeginWrite, CompactRange
  <1>2. CASE WriteRefused(t) \/ NoNewLog(t) \/ WriteNothing(t)
    <2>1. Waiting(t) /\ Leave(1)
      BY <1>2 DEF WriteRefused, NoNewLog, WriteNothing
    <2>2. SameHead
      BY <1>1, <2>1, HeadLeft
    <2>3. QED
      BY <1>1, <2>2, SyncQuiet
  <1>3. CASE BeginWrite(t) \/ CompactRange
    <2>1. \E u \in Threads : \E batch, sync : Enqueue(u, batch, sync)
      BY <1>3 DEF BeginWrite, CompactRange, Threads
    <2>2. SameHead
      BY <2>1, HeadJoined
    <2>3. QED
      BY <1>1, <2>2, SyncQuiet
  <1>4. QED
    BY <1>2, <1>3

LEMMA SyncReaders ==
    ASSUME SyncInv, FilesInv, ReadNext \/ MemTableCompacted \/ Register \/ NextLevel
    PROVE  SyncInv'
  <1>1. Lasting' = Lasting /\ UNCHANGED <<kept, disk, queue, call>>
    BY DEF Lasting, ReadNext, GetSnapshot, ReleaseSnapshot, NewIterator, ReleaseIterator, ChargeSeek,
           MemTableCompacted, Register, NextLevel
  <1>2. bg' = bg \/ bg'.pc = "scheduled"
    <2>1. bg' = bg \/ MaybeSchedule(db', manual) \/ MaybeSchedule(db, manual')
      BY DEF ReadNext, GetSnapshot, ReleaseSnapshot, NewIterator, ReleaseIterator, ChargeSeek,
             MemTableCompacted, Register, NextLevel
    <2>2. QED
      BY <2>1, Schedules DEF FilesInv, Shape, BgShape, Fields
  <1>3. /\ DOMAIN db' = DOMAIN db /\ db'.up = db.up /\ db'.last = db.last /\ db'.log = db.log
        /\ db'.next = db.next /\ db'.failed = db.failed
    BY DEF ReadNext, GetSnapshot, ReleaseSnapshot, NewIterator, ReleaseIterator, ChargeSeek,
           MemTableCompacted, Register, NextLevel, FilesInv, Shape, DbShape, Fields
  <1>4. SameHead
    BY <1>1, HeadSame
  <1>5. CurrentManifest' = CurrentManifest /\ Follows(CurrentManifest, CurrentManifest)
    BY <1>1, FollowsSame DEF CurrentManifest
  <1>6. HasEdit' => HasEdit /\ bg' = bg
    BY <1>2 DEF HasEdit
  <1>7. IsOpening' => IsOpening
    BY <1>2 DEF IsOpening
  <1>8. Follows(bg.edit[1], bg.edit[1])
    BY FollowsSame
  <1>9. db.next \in Nat /\ (~db.up => ~db.failed)
    BY DEF SyncInv, LogNumbers, FilesInv, Shape, DbShape
  <1>10. db'.next \in Nat /\ db'.next >= db.next
    BY <1>3, <1>9
  <1>11. QED
    BY <1>1, <1>3, <1>4, <1>5, <1>6, <1>7, <1>8, <1>9, <1>10, SyncBack

\* What the background thread's steps, but for Install, leave alone.
LEMMA BackgroundKeeps ==
    ASSUME DbShape, DiskShape, BackgroundNext, ~Install
    PROVE  /\ Lasting' = Lasting /\ UNCHANGED <<kept, queue, call>>
           /\ disk'.logs = disk.logs /\ disk'.safe = disk.safe
           /\ db'.log = db.log /\ db'.next \in Nat /\ db'.next >= db.next
  <1> USE DEF DbShape, DiskShape, Fields, Lasting
  <1>1. db.next + 1 \in Nat /\ db.next + 1 >= db.next /\ db.next >= db.next
    OBVIOUS
  <1>2. CASE BeginFlush
    BY <1>1, <1>2 DEF BeginFlush
  <1>3. CASE TableBuilt
    <2>1. disk' = disk \/ disk' = [disk EXCEPT !.tables = With(@, bg.table, Imm(db))]
      BY <1>3 DEF TableBuilt
    <2>2. db' = [db EXCEPT !.pending = @ \ {bg.table}] /\ Lasting' = Lasting /\ UNCHANGED <<kept, queue, call>>
      BY <1>3 DEF TableBuilt
    <2>3. QED
      BY <1>1, <2>1, <2>2
  <1>4. CASE TableFailed \/ NothingToDo \/ ManualDone \/ BeginCompaction \/ LogResults
    BY <1>1, <1>4 DEF TableFailed, NothingToDo, ManualDone, BeginCompaction, LogResults
  <1>5. CASE WriteOutput
    BY <1>1, <1>5 DEF WriteOutput
  <1>6. CASE OutputFailed
    BY <1>1, <1>6 DEF OutputFailed, Cleaned
  <1>7. CASE ManifestWritten \/ ManifestFailed
    <2>1. \/ disk' = disk
          \/ disk' = [disk EXCEPT !.manifests[db.manifest] = ApplyToManifest(@, bg.edit[1])]
          \/ disk' = [disk EXCEPT !.manifests[db.manifest].half = TRUE]
      BY <1>7 DEF ManifestWritten, ManifestFailed
    <2>2. disk'.logs = disk.logs /\ disk'.safe = disk.safe
      BY <2>1
    <2>3. db' \in {db, [db EXCEPT !.failed = TRUE], Cleaned([db EXCEPT !.failed = TRUE])}
      BY <1>7 DEF ManifestWritten, ManifestFailed
    <2>4. db'.log = db.log /\ db'.next = db.next
      BY <2>3 DEF Cleaned
    <2>5. QED
      BY <1>1, <1>7, <2>2, <2>4 DEF ManifestWritten, ManifestFailed
  <1>8. QED
    BY <1>2, <1>3, <1>4, <1>5, <1>6, <1>7 DEF BackgroundNext

\* An edit takes the sequence and the file number the database is at, and
\* a log no newer than the one it writes to.
LEMMA EditsMade ==
    ASSUME FilesInv, BackgroundNext, ~Install, HasEdit'
    PROVE  /\ bg'.edit[1].last = db.last
           /\ bg'.edit[1].log \in Nat /\ bg'.edit[1].log <= db.log
           /\ bg'.edit[1].next = db.next
  <1> USE DEF FilesInv, Shape
  <1>1. Fields(bg, {"pc", "table", "job", "edit"}) /\ db.log \in Nat
    BY DEF BgShape, DbShape
  <1>2. db.up => db.logNumber \in Nat /\ db.logNumber <= db.log
    BY DEF DbShape, Numbered
  <1>3. CASE BeginFlush
    BY <1>1, <1>3 DEF BeginFlush, HasEdit, Fields
  <1>4. CASE TableBuilt
    <2>1. \E added : bg' = [bg EXCEPT !.pc = "log", !.edit = <<Edit(db, "flush", {}, added, db.log)>>]
      BY <1>4 DEF TableBuilt
    <2>2. QED
      BY <1>1, <2>1 DEF Edit, Fields
  <1>5. CASE TableFailed \/ NothingToDo \/ ManualDone \/ OutputFailed \/ ManifestFailed
    <2>1. \/ \E d, m : bg' = Ended(d, m)
          \/ \E d : bg' = AfterFlush(d)
      BY <1>5, Zenon DEF TableFailed, NothingToDo, ManualDone, OutputFailed, ManifestFailed
    <2>2. bg'.pc \in {"idle", "scheduled", "work"}
      BY <2>1, EndedWork, AfterFlushWork
    <2>3. QED
      BY <2>2 DEF HasEdit
  <1>6. CASE BeginCompaction
    <2>1. PICK c : IF ~manual.registered /\ IsTrivialMove(c)
                   THEN bg' = [bg EXCEPT !.pc = "log", !.edit = <<Edit(db, "move", c.in0,
                            [f \in c.in0 |-> c.level + 1], db.logNumber)>>]
                   ELSE bg' = [bg EXCEPT !.pc = "work", !.job =
                            <<[compaction |-> c, manual |-> manual.registered, done |-> <<>>,
                               todo |-> Outputs(c, Min(snapshots \cup {db.last}))]>>]
      BY <1>6, Zenon DEF BeginCompaction
    <2>2. db.up
      BY <1>6 DEF BeginCompaction
    <2>3. CASE ~manual.registered /\ IsTrivialMove(c)
      <3> DEFINE added == [f \in c.in0 |-> c.level + 1]  gone == c.in0
      <3>1. bg' = [bg EXCEPT !.pc = "log", !.edit = <<Edit(db, "move", gone, added, db.logNumber)>>]
        BY <2>1, <2>3
      <3> HIDE DEF added, gone
      <3>2. QED
        BY <1>1, <1>2, <2>2, <3>1 DEF Edit, Fields
    <2>4. CASE ~(~manual.registered /\ IsTrivialMove(c))
      <3>1. \E job : bg' = [bg EXCEPT !.pc = "work", !.job = job]
        BY <2>1, <2>4, Zenon
      <3>2. QED
        BY <1>1, <3>1 DEF Fields, HasEdit
    <2>5. QED
      BY <2>3, <2>4
  <1>7. CASE WriteOutput \/ ManifestWritten
    <2>1. bg'.pc \in {"work", "install"}
      BY <1>1, <1>7 DEF WriteOutput, ManifestWritten, Fields
    <2>2. QED
      BY <2>1 DEF HasEdit
  <1>8. CASE LogResults
    <2>1. /\ db.up
          /\ \E deleted, added : bg' = [bg EXCEPT !.pc = "log", !.edit =
                    <<Edit(db, "compact", deleted, added, db.logNumber)>>]
      BY <1>8, Zenon DEF LogResults
    <2>2. QED
      BY <1>1, <1>2, <2>1 DEF Edit, Fields
  <1>9. QED
    BY <1>3, <1>4, <1>5, <1>6, <1>7, <1>8 DEF BackgroundNext

LEMMA WritesManifest ==
    ASSUME FilesInv, BackgroundNext, ~Install
    PROVE  \/ Follows(CurrentManifest', CurrentManifest)
           \/ HasEdit /\ Follows(CurrentManifest', bg.edit[1])
  <1> USE DEF FilesInv, Shape
  <1>1. CASE ManifestWritten \/ ManifestFailed
    <2>1. /\ bg.pc = "log" /\ db.up
          /\ \/ disk' = disk
             \/ disk' = [disk EXCEPT !.manifests[db.manifest] = ApplyToManifest(@, bg.edit[1])]
             \/ disk' = [disk EXCEPT !.manifests[db.manifest].half = TRUE]
      BY <1>1 DEF ManifestWritten, ManifestFailed
    <2>2. CASE disk' = disk
      BY <2>2, FollowsSame DEF CurrentManifest
    <2>3. CASE disk' = [disk EXCEPT !.manifests[db.manifest] = ApplyToManifest(@, bg.edit[1])]
      <3>1. db.manifest = disk.current /\ disk.current \in DOMAIN disk.manifests
        BY <2>1 DEF Numbered, Named
      <3>2. CurrentManifest' = ApplyToManifest(CurrentManifest, bg.edit[1])
        BY <2>3, <3>1 DEF DiskShape, Fields, CurrentManifest
      <3>3. QED
        BY <2>1, <3>2 DEF ApplyToManifest, Follows, HasEdit
    <2>4. CASE disk' = [disk EXCEPT !.manifests[db.manifest].half = TRUE]
      <3>1. db.manifest = disk.current /\ disk.current \in DOMAIN disk.manifests
        BY <2>1 DEF Numbered, Named
      <3>2. CurrentManifest' = [CurrentManifest EXCEPT !.half = TRUE]
        BY <2>4, <3>1 DEF DiskShape, Fields, CurrentManifest
      <3>3. QED
        BY <3>1, <3>2 DEF Follows, DiskShape, Fields, CurrentManifest
    <2>5. QED
      BY <2>1, <2>2, <2>3, <2>4
  <1>2. CASE ~(ManifestWritten \/ ManifestFailed)
    <2>1. \/ disk' = disk
          \/ disk' = [disk EXCEPT !.tables = With(@, bg.table, Imm(db))]
          \/ disk' = [disk EXCEPT !.tables = With(@, db.next, Head(bg.job[1].todo))]
      BY <1>2 DEF BackgroundNext, BeginFlush, TableBuilt, TableFailed, NothingToDo, ManualDone,
                  BeginCompaction, LogResults, OutputFailed, WriteOutput
    <2>2. CurrentManifest' = CurrentManifest
      BY <2>1 DEF CurrentManifest, DiskShape, Fields
    <2>3. QED
      BY <2>2, FollowsSame
  <1>3. QED
    BY <1>1, <1>2

LEMMA SyncBackground ==
    ASSUME SyncInv, FilesInv, FilesInv', BackgroundNext, ~Install
    PROVE  SyncInv'
  <1>1. DbShape /\ DiskShape
    BY DEF FilesInv, Shape
  <1>2. /\ Lasting' = Lasting /\ UNCHANGED <<kept, queue, call>>
        /\ disk'.logs = disk.logs /\ disk'.safe = disk.safe
        /\ db'.log = db.log /\ db'.next \in Nat /\ db'.next >= db.next
    BY <1>1, BackgroundKeeps
  <1>3. db'.up = db.up /\ db'.last = db.last
    BY <1>1, NotQueue
  <1>4. db.up
    BY DEF BackgroundNext, BeginFlush, TableBuilt, TableFailed, NothingToDo, ManualDone,
           BeginCompaction, WriteOutput, LogResults, OutputFailed, ManifestWritten,
           ManifestFailed, Install
  <1>5. ~IsOpening'
    BY <1>3, <1>4 DEF IsOpening, FilesInv, Shape, BgShape
  <1>6. SameHead
    BY <1>2, HeadSame
  <1>7. QED
    BY <1>2, <1>3, <1>4, <1>5, <1>6, WritesManifest, EditsMade, SyncBack

LEMMA SyncOpening ==
    ASSUME SyncInv, FilesInv, NewManifest \/ SetCurrentFile
    PROVE  SyncInv'
  <1> USE DEF FilesInv, Shape
  <1>1. Lasting' = Lasting /\ UNCHANGED <<kept, queue, call, db>>
    BY DEF Lasting, NewManifest, SetCurrentFile
  <1>2. db.next \in Nat /\ db'.next >= db.next /\ (~db.up => ~db'.failed)
    BY <1>1 DEF SyncInv, LogNumbers, DbShape
  <1>3. SameHead
    BY <1>1, HeadSame
  <1>4. bg.pc \in {"open", "current"} /\ Fields(bg, {"pc", "table", "job", "edit"})
    BY DEF NewManifest, SetCurrentFile, BgShape
  <1>5. bg'.edit = bg.edit /\ HasEdit /\ IsOpening /\ Follows(bg'.edit[1], bg.edit[1])
    BY <1>4, FollowsSame DEF NewManifest, SetCurrentFile, Fields, HasEdit, IsOpening
  <1>6. CASE NewManifest
    <2> DEFINE m == ApplyToManifest([ver |-> db.ver, half |-> FALSE], bg.edit[1])
    <2>1. disk' = [disk EXCEPT !.manifests = With(@, db.manifest, m)]
      BY <1>6 DEF NewManifest
    <2>2. Follows(m, bg.edit[1])
      BY DEF ApplyToManifest, Follows
    <2> HIDE DEF m
    <2>3. disk'.logs = disk.logs /\ disk'.safe = disk.safe
      BY <2>1 DEF DiskShape, Fields
    <2>4. CurrentManifest' = m \/ CurrentManifest' = CurrentManifest
      BY <2>1 DEF DiskShape, Fields, CurrentManifest, With, Named
    <2>5. QED
      BY <1>1, <1>2, <1>3, <1>5, <2>2, <2>3, <2>4, FollowsSame, SyncBack
  <1>7. CASE SetCurrentFile
    <2>1. disk' = [disk EXCEPT !.current = db.manifest] /\ bg.pc = "current"
      BY <1>7 DEF SetCurrentFile
    <2>2. disk'.logs = disk.logs /\ disk'.safe = disk.safe
      BY <2>1 DEF DiskShape, Fields
    <2>3. CurrentManifest' = ApplyToManifest([ver |-> db.ver, half |-> FALSE], bg.edit[1])
      BY <2>1 DEF DiskShape, Fields, CurrentManifest, Opening
    <2>4. Follows(CurrentManifest', bg.edit[1])
      BY <2>3 DEF ApplyToManifest, Follows
    <2>5. QED
      BY <1>1, <1>2, <1>3, <1>5, <2>2, <2>4, SyncBack
  <1>8. QED
    BY <1>6, <1>7

\* More logs and more records cover no less; what is synced stays so.
LEMMA CoveredMore ==
    ASSUME NEW S, NEW logs, NEW more, NEW last, NEW log, Covered(S, logs, last, log),
           \A n \in DOMAIN logs : n >= log =>
              n \in DOMAIN more /\ \A i \in DOMAIN logs[n] :
                i \in DOMAIN more[n] /\ more[n][i] = logs[n][i]
    PROVE  Covered(S, more, last, log)
  BY DEF Covered

LEMMA SafeFewer ==
    ASSUME NEW S, NEW logs, NEW safe, NEW fewer, NEW kind, SafeIn(S, logs, safe),
           \A n \in DOMAIN fewer : \A i \in DOMAIN fewer[n] :
              /\ n \in DOMAIN logs /\ i \in DOMAIN logs[n]
              /\ kind[n] = safe[n]
              /\ fewer[n][i] = logs[n][i]
              /\ \A j \in 1 .. i : fewer[n][j] = logs[n][j]
    PROVE  SafeIn(S, fewer, kind)
  BY DEF SafeIn

LEMMA SyncSwitch ==
    ASSUME SyncInv, QueueInv, FilesInv, NEW t \in Threads, SwitchMemTable(t)
    PROVE  SyncInv'
  <1> USE DEF SyncInv
  <1>1. /\ db.up /\ AtFront(t) /\ call[t].phase = "wait" /\ Lasting' = Lasting /\ UNCHANGED <<kept, queue>>
        /\ disk' = [disk EXCEPT !.logs = With(@, db.next, <<>>), !.safe = With(@, db.next, 0)]
        /\ db' = [db EXCEPT !.log = db.next, !.next = @ + 1, !.imm = <<db.mem>>, !.mem = {}]
        /\ call' = [call EXCEPT ![t].force = FALSE]
        /\ MaybeSchedule(db', manual)
    BY DEF Lasting, SwitchMemTable, Waiting, AtFront
  <1>2. /\ disk'.logs = With(disk.logs, db.next, <<>>) /\ disk'.safe = With(disk.safe, db.next, 0)
        /\ CurrentManifest' = CurrentManifest
    BY <1>1 DEF FilesInv, Shape, DiskShape, Fields, CurrentManifest
  <1>3. /\ db'.up = db.up /\ db'.last = db.last /\ db'.log = db.next /\ db'.next = db.next + 1
    BY <1>1 DEF FilesInv, Shape, DbShape, Fields
  <1>4. /\ DOMAIN disk.logs \subseteq Nat /\ db.next \in Nat /\ db.log \in Nat
        /\ DOMAIN disk.safe = DOMAIN disk.logs
        /\ \A n \in DOMAIN disk.logs : n < db.next
    BY <1>1 DEF FilesInv, Shape, DiskShape, DbShape, LogNumbers
  <1>5. /\ DOMAIN disk'.logs = {db.next} \cup DOMAIN disk.logs /\ disk'.logs[db.next] = <<>>
        /\ \A n \in DOMAIN disk.logs :
             n # db.next /\ disk'.logs[n] = disk.logs[n] /\ disk'.safe[n] = disk.safe[n]
    BY <1>2, <1>4 DEF With
  <1>6. ~Writing /\ ~Writing'
    <2>1. queue[1] = t /\ call'[t].phase = "wait"
      <3>1. call \in [Threads -> Calls]
        BY DEF QueueInv, QueueShape
      <3>2. call[t] \in Calls
        BY CallOf
      <3>3. QED
        BY <1>1, <3>1, <3>2, HeadIsFirst DEF Calls
    <2>2. QED
      BY <1>1, <2>1 DEF Writing
  <1>7. DOMAIN <<>> = {}
    OBVIOUS
  <1>8. Lasting' \subseteq Nat /\ SyncedKept'
    BY <1>1 DEF SyncedKept
  <1>9. DurableSafe'
    BY <1>1, <1>5, <1>7 DEF DurableSafe, SafeIn
  <1>10. DurableKnown'
    BY <1>1, <1>3 DEF DurableKnown
  <1>11. bg' = bg \/ bg'.pc = "scheduled"
    <2>1. Fields(bg, {"pc", "table", "job", "edit"})
      BY DEF FilesInv, Shape, BgShape
    <2>2. QED
      BY <1>1, <2>1, Schedules DEF Fields
  <1>12. Covers'
    <2>1. \A last, log : Covered(Lasting, disk.logs, last, log) => Covered(Lasting, disk'.logs, last, log)
      BY <1>5 DEF Covered
    <2>2. HasEdit' => HasEdit /\ bg' = bg
      BY <1>11 DEF HasEdit
    <2>3. QED
      BY <1>1, <1>2, <2>1, <2>2 DEF Covers
  <1>13. RecordsPast'
    BY <1>1, <1>3, <1>5, <1>6, <1>7 DEF RecordsPast
  <1>14. InFlight'
    BY <1>6 DEF InFlight
  <1>15. LogNumbers'
    <2>1. HasEdit' => HasEdit /\ bg' = bg
      BY <1>11 DEF HasEdit
    <2>2. ~IsOpening'
      BY <1>1, <1>11 DEF IsOpening, FilesInv, Shape, BgShape
    <2>3. \A n \in DOMAIN disk'.logs : n < db'.next
      BY <1>3, <1>4, <1>5
    <2>4. CurrentManifest.log <= db.next
      <3>1. CurrentManifest.log \in Nat /\ CurrentManifest.log <= db.log /\ db.log < db.next
        BY <1>1 DEF FilesInv, Shape, DiskShape, Named, Numbered, LogNumbers, CurrentManifest
      <3>2. QED
        BY <1>4, <3>1
    <2>5. QED
      BY <1>1, <1>2, <1>3, <2>1, <2>2, <2>3, <2>4 DEF LogNumbers
  <1>16. QED
    BY <1>8, <1>9, <1>10, <1>12, <1>13, <1>14, <1>15

\* A record is at the end of the log of the memtable.
LEMMA AppendedLog ==
    ASSUME FilesInv, db.up, NEW r,
           disk' = [disk EXCEPT !.logs[db.log] = Append(@, r)]
    PROVE  /\ DOMAIN disk'.logs = DOMAIN disk.logs /\ disk'.safe = disk.safe
           /\ db.log \in DOMAIN disk.logs /\ Len(disk.logs[db.log]) \in Nat
           /\ DOMAIN disk.logs[db.log] = 1 .. Len(disk.logs[db.log])
           /\ DOMAIN disk'.logs[db.log] = 1 .. Len(disk.logs[db.log]) + 1
           /\ \A i \in 1 .. Len(disk.logs[db.log]) : disk'.logs[db.log][i] = disk.logs[db.log][i]
           /\ disk'.logs[db.log][Len(disk.logs[db.log]) + 1] = r
           /\ \A n \in DOMAIN disk.logs : n # db.log => disk'.logs[n] = disk.logs[n]
           /\ CurrentManifest' = CurrentManifest
  <1> USE DEF FilesInv, Shape
  <1>1. db.log \in DOMAIN disk.logs /\ disk.logs[db.log] \in Seq(Records)
    BY DEF Numbered, DiskShape
  <1>2. /\ DOMAIN disk'.logs = DOMAIN disk.logs /\ disk'.safe = disk.safe
        /\ disk'.logs[db.log] = Append(disk.logs[db.log], r)
        /\ \A n \in DOMAIN disk.logs : n # db.log => disk'.logs[n] = disk.logs[n]
        /\ CurrentManifest' = CurrentManifest
    BY <1>1 DEF DiskShape, Fields, CurrentManifest
  <1>3. Len(disk.logs[db.log]) \in Nat /\ DOMAIN disk.logs[db.log] = 1 .. Len(disk.logs[db.log])
    BY <1>1, LenProperties
  <1> DEFINE log == disk.logs[db.log]  T == Records \cup {r}
  <1>4. log \in Seq(T) /\ r \in T
    <2>1. \A i \in 1 .. Len(log) : log[i] \in T
      BY <1>1, ElementOfSeq
    <2>2. QED
      BY <1>1, <1>3, <2>1
  <1> HIDE DEF log, T
  <1>5. /\ Append(log, r) \in Seq(T) /\ Len(Append(log, r)) = Len(log) + 1
        /\ \A i \in 1 .. Len(log) : Append(log, r)[i] = log[i]
        /\ Append(log, r)[Len(log) + 1] = r
    BY <1>4, AppendProperties
  <1>6. DOMAIN Append(log, r) = 1 .. Len(log) + 1
    BY <1>5, LenProperties
  <1>7. QED
    BY <1>1, <1>2, <1>3, <1>5, <1>6 DEF log

\* The head begins to write: it logs its record, or fails to.
LEMMA SyncLogged ==
    ASSUME SyncInv, FilesInv, db.up, ~Writing, Lasting' = Lasting, UNCHANGED <<kept, db, bg>>,
           Writing', NEW r \in Records, r.first = db.last + 1,
           call'[queue'[1]].first = r.first, call'[queue'[1]].last = r.last,
           \/ disk' = disk /\ call'[queue'[1]].phase = "append_failed"
           \/ /\ disk' = [disk EXCEPT !.logs[db.log] = Append(@, r)]
              /\ call'[queue'[1]].phase \in {"insert", "append_failed"}
    PROVE  SyncInv'
  <1> USE DEF SyncInv
  <1>1. Lasting' \subseteq Nat /\ SyncedKept' /\ DurableKnown'
    BY DEF SyncedKept, DurableKnown, IsOpening
  <1>2. db.last \in Nat /\ r.last \in Nat
    BY DEF FilesInv, Shape, DbShape, Records
  <1>3. CASE disk' = disk /\ call'[queue'[1]].phase = "append_failed"
    <2>1. DurableSafe'
      BY <1>3 DEF DurableSafe
    <2>2. Covers' /\ LogNumbers'
      BY <1>3 DEF Covers, LogNumbers, CurrentManifest, HasEdit, IsOpening
    <2>3. RecordsPast' /\ InFlight'
      BY <1>3 DEF RecordsPast, InFlight
    <2>4. QED
      BY <1>1, <2>1, <2>2, <2>3
  <1>4. CASE /\ disk' = [disk EXCEPT !.logs[db.log] = Append(@, r)]
             /\ call'[queue'[1]].phase \in {"insert", "append_failed"}
    <2> DEFINE old == disk.logs[db.log]  new == disk'.logs[db.log]
    <2>1. /\ DOMAIN disk'.logs = DOMAIN disk.logs /\ disk'.safe = disk.safe
          /\ db.log \in DOMAIN disk.logs /\ Len(old) \in Nat
          /\ DOMAIN old = 1 .. Len(old) /\ DOMAIN new = 1 .. Len(old) + 1
          /\ \A i \in 1 .. Len(old) : new[i] = old[i]
          /\ new[Len(old) + 1] = r
          /\ \A n \in DOMAIN disk.logs : n # db.log => disk'.logs[n] = disk.logs[n]
          /\ CurrentManifest' = CurrentManifest
      BY <1>4, AppendedLog
    <2>2. \A i \in 1 .. Len(old) + 1 : i \in 1 .. Len(old) \/ i = Len(old) + 1
      BY <2>1
    <2>3. \A i \in 1 .. Len(old) : i \in 1 .. Len(old) + 1 /\ 1 .. i \subseteq 1 .. Len(old)
      BY <2>1
    <2>4. Len(old) + 1 \in 1 .. Len(old) + 1
      BY <2>1
    <2>5. \A s \in Lasting : ~In(s, r)
      BY <1>2 DEF DurableKnown, In
    <2>6. DurableSafe'
      <3>1. SUFFICES ASSUME NEW n \in DOMAIN disk.logs, NEW i \in DOMAIN disk'.logs[n],
                            NEW s \in Lasting, In(s, disk'.logs[n][i])
                     PROVE  i <= disk.safe[n] /\ \A j \in 1 .. i : disk'.logs[n][j].whole
        BY <2>1 DEF DurableSafe, SafeIn
      <3>2. CASE n # db.log
        BY <2>1, <3>1, <3>2 DEF DurableSafe, SafeIn
      <3>3. CASE n = db.log
        <4>1. i \in 1 .. Len(old) /\ new[i] = old[i]
          BY <2>1, <2>2, <2>5, <3>1, <3>3
        <4>2. i <= disk.safe[n] /\ \A j \in 1 .. i : old[j].whole
          BY <2>1, <3>1, <3>3, <4>1 DEF DurableSafe, SafeIn
        <4>3. \A j \in 1 .. i : new[j] = old[j]
          BY <2>1, <2>3, <4>1
        <4>4. QED
          BY <3>3, <4>2, <4>3
      <3>4. QED
        BY <3>2, <3>3
    <2>7. Covers'
      <3>1. ASSUME NEW n \in DOMAIN disk.logs, NEW i \in DOMAIN disk.logs[n]
            PROVE  i \in DOMAIN disk'.logs[n] /\ disk'.logs[n][i] = disk.logs[n][i]
        BY <2>1, <2>3
      <3>2. \A last, log : Covered(Lasting, disk.logs, last, log) => Covered(Lasting, disk'.logs, last, log)
        BY <2>1, <3>1 DEF Covered
      <3>3. QED
        BY <2>1, <3>2 DEF Covers, HasEdit
    <2>8. RecordsPast'
      <3>1. SUFFICES ASSUME NEW n \in DOMAIN disk.logs, NEW i \in DOMAIN disk'.logs[n]
                     PROVE  \/ disk'.logs[n][i].last <= db.last
                            \/ n = db.log /\ Writing' /\ disk'.logs[n][i].last <= call'[queue'[1]].last
        BY <2>1 DEF RecordsPast
      <3>2. \A m \in DOMAIN disk.logs : \A j \in DOMAIN disk.logs[m] : disk.logs[m][j].last <= db.last
        BY DEF RecordsPast
      <3>3. CASE n # db.log
        BY <2>1, <3>1, <3>2, <3>3
      <3>4. CASE n = db.log /\ i \in 1 .. Len(old)
        BY <2>1, <3>1, <3>2, <3>4
      <3>5. CASE n = db.log /\ i = Len(old) + 1
        BY <1>2, <2>1, <3>1, <3>5, SMTT(30)
      <3>6. QED
        BY <2>1, <2>2, <3>1, <3>3, <3>4, <3>5
    <2>9. InFlight'
      <3>1. disk'.logs[db'.log][Len(old) + 1] = r /\ Len(old) + 1 \in DOMAIN disk'.logs[db'.log]
        BY <2>1, <2>4
      <3>2. call'[queue'[1]].phase # "inserted"
        BY <1>4
      <3>3. /\ disk'.logs[db'.log][Len(old) + 1].first = call'[queue'[1]].first
            /\ disk'.logs[db'.log][Len(old) + 1].last = call'[queue'[1]].last
        BY <3>1
      <3>4. QED
        BY ONLY <3>1, <3>2, <3>3 DEF InFlight
    <2>10. LogNumbers'
      <3>1. ~IsOpening' /\ ~IsOpening
        BY DEF IsOpening, FilesInv, Shape, BgShape
      <3>2. QED
        BY <2>1, <3>1 DEF LogNumbers, HasEdit
    <2>11. QED
      BY <1>1, <2>6, <2>7, <2>8, <2>9, <2>10
  <1>5. QED
    BY <1>3, <1>4

LEMMA SyncAppend ==
    ASSUME SyncInv, QueueInv, FilesInv, NEW t \in Threads, AppendRecord(t)
    PROVE  SyncInv'
  <1>1. /\ db.up /\ AtFront(t) /\ call[t].phase = "wait" /\ Lasting' = Lasting /\ UNCHANGED <<kept, queue, db, bg>>
    BY DEF Lasting, AppendRecord, Waiting, AtFront
  <1>2. PICK n \in 1 .. Len(queue) : \E phase \in {"insert", "append_failed"}, whole \in BOOLEAN :
            /\ call' = [call EXCEPT ![t].phase = phase, ![t].group = n,
                         ![t].first = Record(n, TRUE).first, ![t].last = Record(n, TRUE).last]
            /\ \/ disk' = disk /\ phase = "append_failed"
               \/ disk' = [disk EXCEPT !.logs[db.log] = Append(@, Record(n, whole))]
    <2>1. PICK n \in 1 .. Len(queue) :
            LET r == Record(n, TRUE)
                Logged(x) == [disk EXCEPT !.logs[db.log] = Append(@, x)]
                Then(phase) == call' = [call EXCEPT ![t].phase = phase, ![t].group = n,
                                        ![t].first = r.first, ![t].last = r.last]
            IN  \/ disk' = Logged(r) /\ Then("insert")
                \/ disk' \in {disk, Logged(Record(n, FALSE))} /\ Then("append_failed")
      BY Zenon DEF AppendRecord
    <2>2. QED
      BY <2>1, Zenon
  <1>3. PICK phase \in {"insert", "append_failed"}, whole \in BOOLEAN :
            /\ call' = [call EXCEPT ![t].phase = phase, ![t].group = n,
                         ![t].first = Record(n, TRUE).first, ![t].last = Record(n, TRUE).last]
            /\ \/ disk' = disk /\ phase = "append_failed"
               \/ disk' = [disk EXCEPT !.logs[db.log] = Append(@, Record(n, whole))]
    BY <1>2
  <1> DEFINE r == Record(n, whole)
  <1>4. r \in Records /\ r.first = db.last + 1
    BY RecordType DEF FilesInv, Shape, Record
  <1>5. r.first = Record(n, TRUE).first /\ r.last = Record(n, TRUE).last
    BY DEF Record
  <1>6. queue[1] = t /\ queue # <<>>
    BY <1>1, HeadIsFirst
  <1>7. call'[t].phase = phase /\ call'[t].first = r.first /\ call'[t].last = r.last
    <2>1. call \in [Threads -> Calls] /\ call[t] \in Calls
      BY CallOf DEF QueueInv, QueueShape
    <2>2. QED
      BY <1>3, <1>5, <2>1 DEF Calls
  <1>8. ~Writing /\ Writing'
    BY <1>1, <1>6, <1>7 DEF Writing
  <1> HIDE DEF r
  <1>9. \/ disk' = disk /\ phase = "append_failed"
        \/ disk' = [disk EXCEPT !.logs[db.log] = Append(@, r)]
    BY <1>3 DEF r
  <1>10. QED
    BY <1>1, <1>4, <1>6, <1>7, <1>8, <1>9, SyncLogged

LEMMA SyncInsert ==
    ASSUME SyncInv, QueueInv, FilesInv, NEW t \in Threads, InsertInto(t)
    PROVE  SyncInv'
  <1> USE DEF SyncInv
  <1> DEFINE log == disk.logs[db.log]
  <1>1. /\ db.up /\ AtFront(t) /\ call[t].phase = "insert"
        /\ Lasting' = Lasting /\ UNCHANGED <<kept, queue, bg>>
        /\ db' = db \/ db' = [db EXCEPT !.mem = @ \cup (call[t].first .. call[t].last)]
    BY DEF Lasting, InsertInto, AtFront
  <1>2. db'.up = db.up /\ db'.last = db.last /\ db'.log = db.log /\ db'.next = db.next
    BY <1>1 DEF FilesInv, Shape, DbShape, Fields
  <1>3. PICK phase \in {"inserted", "sync_failed"} :
          /\ call' = [call EXCEPT ![t].phase = phase]
          /\ disk' = IF phase = "inserted" /\ call[t].sync
                     THEN [disk EXCEPT !.safe[db.log] = Len(log)] ELSE disk
    BY Zenon DEF InsertInto
  <1>4. queue[1] = t /\ queue # <<>>
    BY <1>1, HeadIsFirst
  <1>5. /\ call'[t].phase = phase /\ call'[t].first = call[t].first
        /\ call'[t].last = call[t].last /\ call'[t].sync = call[t].sync
    <2>1. call \in [Threads -> Calls] /\ call[t] \in Calls
      BY CallOf DEF QueueInv, QueueShape
    <2>2. QED
      BY <1>3, <2>1 DEF Calls
  <1>6. /\ db.log \in DOMAIN disk.logs /\ Len(log) \in Nat /\ DOMAIN log = 1 .. Len(log)
        /\ DOMAIN disk.safe = DOMAIN disk.logs /\ db.log \in DOMAIN disk.safe
    BY <1>1, LenProperties DEF FilesInv, Shape, DiskShape, Numbered
  <1>7. /\ disk'.logs = disk.logs /\ CurrentManifest' = CurrentManifest
        /\ \A n \in DOMAIN disk.logs : n # db.log => disk'.safe[n] = disk.safe[n]
        /\ phase = "inserted" /\ call[t].sync => disk'.safe[db.log] = Len(log)
        /\ disk'.safe[db.log] = disk.safe[db.log] \/ disk'.safe[db.log] = Len(log)
    <2>1. CASE phase = "inserted" /\ call[t].sync
      <3>1. disk' = [disk EXCEPT !.safe[db.log] = Len(log)]
        BY <1>3, <2>1
      <3>2. QED
        BY <1>6, <3>1 DEF FilesInv, Shape, DiskShape, Fields, CurrentManifest
    <2>2. CASE ~(phase = "inserted" /\ call[t].sync)
      BY <1>3, <2>2 DEF CurrentManifest
    <2>3. QED
      BY <2>1, <2>2
  <1>8. Writing /\ Writing'
    BY <1>1, <1>4, <1>5 DEF Writing
  <1>9. Lasting' \subseteq Nat /\ SyncedKept'
    BY <1>1 DEF SyncedKept
  <1>10. DurableSafe'
    <2>1. SUFFICES ASSUME NEW n \in DOMAIN disk.logs, NEW i \in DOMAIN disk.logs[n],
                          NEW s \in Lasting, In(s, disk.logs[n][i])
                   PROVE  i <= disk'.safe[n] /\ \A j \in 1 .. i : disk.logs[n][j].whole
      BY <1>1, <1>7 DEF DurableSafe, SafeIn
    <2>2. i <= disk.safe[n] /\ \A j \in 1 .. i : disk.logs[n][j].whole
      BY <2>1 DEF DurableSafe, SafeIn
    <2>3. n = db.log => i <= Len(log)
      BY <1>6
    <2>4. QED
      BY <1>7, <2>2, <2>3
  <1>11. DurableKnown' /\ Covers' /\ LogNumbers'
    <2>1. ~db'.up => ~db'.failed
      BY <1>1, <1>2
    <2>2. QED
      BY <1>1, <1>2, <1>7, <2>1 DEF DurableKnown, Covers, LogNumbers, HasEdit, IsOpening
  <1>12. RecordsPast'
    BY <1>1, <1>2, <1>4, <1>5, <1>7, <1>8 DEF RecordsPast
  <1>13. InFlight'
    BY <1>1, <1>2, <1>4, <1>5, <1>7, <1>8 DEF InFlight
  <1>14. QED
    BY <1>9, <1>10, <1>11, <1>12, <1>13

\* What lasts from a Publish on: it is in the log of the memtable, which is
\* synced to its end and can be read.
LEMMA Acknowledged ==
    ASSUME SyncInv, QueueInv, FilesInv, NEW t \in Threads, Publish(t),
           NEW s \in Lasting', s \notin Lasting
    PROVE  LET c == call[t]
               log == disk.logs[db.log]
           IN  /\ s \in c.first .. c.last /\ kept' = kept \cup (c.first .. c.last)
               /\ \E i \in DOMAIN log : log[i].first = c.first /\ log[i].last = c.last
               /\ disk.safe[db.log] = Len(log)
               /\ \A i \in DOMAIN log : log[i].whole
  <1> DEFINE c == call[t]  log == disk.logs[db.log]  written == c.first .. c.last
             ok == c.phase = "inserted"
             synced == \E i \in 1 .. c.group : call[queue[i]].sync
  <1>1. /\ AtFront(t)
        /\ kept' = IF ok THEN kept \cup written ELSE kept
        /\ durable' = IF ok /\ synced THEN durable \cup written ELSE durable
        /\ behind' = IF ~ok \/ ~synced THEN behind
                     ELSE IF Torn(log) THEN behind \cup written ELSE behind \ written
        /\ c.phase # "wait"
    BY Zenon DEF Publish
  <1>2. ok /\ synced /\ ~Torn(log) /\ s \in written
    <2> HIDE DEF ok, synced, written, log
    <2>1. s \in durable' /\ s \notin behind' /\ (s \notin durable \/ s \in behind)
      BY DEF Lasting
    <2>2. QED
      BY <1>1, <2>1
  <1>3. queue[1] = t /\ queue # <<>> /\ Writing
    BY <1>1, HeadIsFirst DEF Writing
  <1>4. c.sync
    BY <1>1, <1>2, <1>3 DEF QueueInv, Grouped
  <1>5. /\ \E i \in DOMAIN log : log[i].first = c.first /\ log[i].last = c.last
        /\ disk.safe[db.log] = Len(log)
    BY <1>2, <1>3, <1>4 DEF SyncInv, InFlight
  <1>6. \A i \in DOMAIN log : log[i].whole
    BY <1>2 DEF Torn
  <1>7. kept' = kept \cup written
    BY <1>1, <1>2, Zenon
  <1>8. QED
    BY <1>2, <1>5, <1>6, <1>7

LEMMA SyncPublish ==
    ASSUME SyncInv, QueueInv, FilesInv, NEW t \in Threads, Publish(t)
    PROVE  SyncInv'
  <1> USE DEF SyncInv
  <1> DEFINE c == call[t]  log == disk.logs[db.log]  written == c.first .. c.last
  <1>1. /\ db.up /\ AtFront(t) /\ c.phase # "wait" /\ UNCHANGED <<disk, bg>> /\ kept \subseteq kept'
        /\ db' = [db EXCEPT !.last = c.last, !.failed = @ \/ c.phase = "sync_failed"]
        /\ Leave(c.group)
    <2>1. kept' = kept \cup written \/ kept' = kept
      BY DEF Publish
    <2>2. QED
      BY <2>1 DEF Publish, AtFront
  <1>2. db'.up = db.up /\ db'.last = c.last /\ db'.log = db.log /\ db'.next = db.next
    BY <1>1 DEF FilesInv, Shape, DbShape, Fields
  <1>3. queue[1] = t /\ queue # <<>> /\ Writing
    BY <1>1, HeadIsFirst DEF Writing
  <1>4. /\ c.first \in Nat /\ c.last \in Nat /\ db.last \in Nat
        /\ c.group \in 1 .. Len(queue) /\ c.first = db.last + 1 /\ c.last >= db.last
    BY <1>1, <1>3, CallOf DEF QueueInv, Grouped, Calls, FilesInv, Shape, DbShape
  <1>5. ~Writing'
    BY <1>2, <1>1, <1>4, QueueLeave DEF Writing
  <1>6. ASSUME NEW s \in Lasting', s \notin Lasting
        PROVE  /\ s \in written /\ kept' = kept \cup written
               /\ \E i \in DOMAIN log : log[i].first = c.first /\ log[i].last = c.last
               /\ disk.safe[db.log] = Len(log)
               /\ \A i \in DOMAIN log : log[i].whole
    BY <1>6, Acknowledged
  <1>7. /\ db.log \in DOMAIN disk.logs /\ DOMAIN log = 1 .. Len(log) /\ Len(log) \in Nat
        /\ CurrentManifest' = CurrentManifest /\ CurrentManifest.log <= db.log
        /\ HasEdit => bg.edit[1].log <= db.log
    <2>1. HasEdit => bg.pc = "log"
      BY <1>1 DEF HasEdit, FilesInv, Shape, BgShape
    <2>2. QED
      BY <1>1, <2>1, LenProperties
         DEF FilesInv, Shape, DiskShape, Numbered, Editing, LogNumbers, CurrentManifest
  <1>8. ASSUME NEW s \in Lasting', s \notin Lasting
        PROVE  s \in written /\ s \in Nat /\ s > db.last /\ s <= c.last
    BY <1>4, <1>6, <1>8
  <1>9. Lasting' \subseteq Nat /\ SyncedKept'
    <2>1. ASSUME NEW s \in Lasting', s \notin Lasting PROVE s \in Nat /\ s \in kept'
      BY <1>6, <1>8, <2>1
    <2>2. QED
      BY <1>1, <2>1 DEF SyncedKept
  <1>10. DurableSafe'
    <2>1. SUFFICES ASSUME NEW n \in DOMAIN disk.logs, NEW i \in DOMAIN disk.logs[n],
                          NEW s \in Lasting', In(s, disk.logs[n][i])
                   PROVE  i <= disk.safe[n] /\ \A j \in 1 .. i : disk.logs[n][j].whole
      BY <1>1 DEF DurableSafe, SafeIn
    <2>2. CASE s \in Lasting
      BY <2>1, <2>2 DEF DurableSafe, SafeIn
    <2>3. CASE s \notin Lasting
      <3>1. s \in Nat /\ s > db.last /\ s \in disk.logs[n][i].first .. disk.logs[n][i].last
        BY <1>8, <2>1, <2>3 DEF In
      <3>2. disk.logs[n][i].last \in Nat /\ disk.logs[n][i].first \in Nat
        <4>1. disk.logs[n] \in Seq(Records)
          BY DEF FilesInv, Shape, DiskShape
        <4>2. QED
          BY <4>1, RecordsOf
      <3>3. ~(disk.logs[n][i].last <= db.last)
        BY <1>4, <3>1, <3>2
      <3>4. n = db.log
        BY <1>1, <3>3 DEF RecordsPast
      <3>5. disk.safe[n] = Len(log) /\ \A j \in DOMAIN log : log[j].whole
        BY <1>6, <1>8, <2>3, <3>4
      <3>6. i \in 1 .. Len(log) /\ \A j \in 1 .. i : j \in 1 .. Len(log)
        BY <1>7, <3>4
      <3>7. QED
        BY <1>7, <3>4, <3>5, <3>6
    <2>4. QED
      BY <2>2, <2>3
  <1>11. DurableKnown'
    <2>1. ASSUME NEW s \in Lasting' PROVE s <= c.last
      <3>1. CASE s \in Lasting
        BY <1>1, <1>4, <3>1 DEF DurableKnown
      <3>2. CASE s \notin Lasting
        BY <1>8, <3>2
      <3>3. QED
        BY <3>1, <3>2
    <2>2. QED
      BY <1>2, <2>1 DEF DurableKnown
  <1>12. Covers'
    <2>1. ASSUME NEW last, NEW from, Covered(Lasting, disk.logs, last, from), from <= db.log
          PROVE  Covered(Lasting', disk.logs, last, from)
      <3>1. SUFFICES ASSUME NEW s \in Lasting', s \notin Lasting
                     PROVE  \E n \in DOMAIN disk.logs : n >= from /\
                              \E i \in DOMAIN disk.logs[n] : In(s, disk.logs[n][i])
        BY <2>1 DEF Covered
      <3>2. PICK i \in DOMAIN log : log[i].first = c.first /\ log[i].last = c.last
        BY <1>6, <1>8, <3>1
      <3>3. In(s, log[i])
        BY <1>8, <3>1, <3>2 DEF In
      <3>4. QED
        BY <1>7, <2>1, <3>3
    <2>2. Covered(Lasting', disk.logs, CurrentManifest.last, CurrentManifest.log)
      BY <1>7, <2>1 DEF Covers
    <2>3. HasEdit => Covered(Lasting', disk.logs, bg.edit[1].last, bg.edit[1].log)
      BY <1>7, <2>1 DEF Covers
    <2>4. QED
      BY <1>1, <1>7, <2>2, <2>3 DEF Covers, HasEdit
  <1>13. RecordsPast'
    <2>1. ASSUME NEW n \in DOMAIN disk.logs, NEW i \in DOMAIN disk.logs[n]
          PROVE  disk.logs[n][i].last <= c.last
      <3>1. disk.logs[n][i].last \in Nat
        <4>1. disk.logs[n] \in Seq(Records)
          BY DEF FilesInv, Shape, DiskShape
        <4>2. QED
          BY <4>1, RecordsOf
      <3>2. disk.logs[n][i].last <= db.last \/ disk.logs[n][i].last <= c.last
        BY <1>1, <1>3 DEF RecordsPast
      <3>3. QED
        BY <1>4, <3>1, <3>2
    <2>2. QED
      BY <1>1, <1>2, <2>1 DEF RecordsPast
  <1>14. InFlight'
    BY <1>5 DEF InFlight
  <1>15. LogNumbers'
    BY <1>1, <1>2, <1>7 DEF LogNumbers, HasEdit, IsOpening
  <1>16. QED
    BY <1>9, <1>10, <1>11, <1>12, <1>13, <1>14, <1>15

\* The logs a sweep takes away are older than those that cover.
LEMMA SyncInstalled ==
    ASSUME SyncInv, FilesInv, Lasting' = Lasting, UNCHANGED <<kept, queue, call>>, db.up, bg.pc = "install",
           GoesOn, db'.up, db'.failed = db.failed, db'.logNumber = bg.edit[1].log,
           db'.log = db.log, db'.last = db.last, db'.next = db.next, db'.manifest = db.manifest,
           disk' = disk \/ disk' = Swept(disk, db', bg'.job)
    PROVE  SyncInv'
  <1> USE DEF SyncInv
  <1> DEFINE m == CurrentManifest
  <1>1. /\ DOMAIN disk'.logs \subseteq DOMAIN disk.logs /\ CurrentManifest' = m
        /\ \A n \in DOMAIN disk'.logs : disk'.logs[n] = disk.logs[n] /\ disk'.safe[n] = disk.safe[n]
        /\ \A n \in DOMAIN disk.logs : n >= db'.logNumber => n \in DOMAIN disk'.logs
        /\ db'.failed => disk' = disk
    <2>1. CASE disk' = disk
      BY <2>1 DEF CurrentManifest
    <2>2. CASE disk' = Swept(disk, db', bg'.job)
      <3>1. DiskShape
        BY DEF FilesInv, Shape
      <3>2. /\ disk'.current = disk.current
            /\ DOMAIN disk'.logs \subseteq DOMAIN disk.logs
            /\ \A n \in DOMAIN disk'.logs :
                 disk'.logs[n] = disk.logs[n] /\ disk'.safe[n] = disk.safe[n]
            /\ \A n \in DOMAIN disk.logs : n >= db'.logNumber => n \in DOMAIN disk'.logs
            /\ \A n \in DOMAIN disk'.manifests : disk'.manifests[n] = disk.manifests[n]
            /\ \A n \in DOMAIN disk.manifests : n >= db'.manifest => n \in DOMAIN disk'.manifests
            /\ db'.failed => disk' = disk
        BY ONLY <2>2, <3>1, SweptFiles
      <3>3. db'.manifest \in Nat /\ db'.manifest = disk.current /\ disk.current \in DOMAIN disk.manifests
        BY DEF FilesInv, Shape, DbShape, Numbered, Named
      <3>4. QED
        BY <3>2, <3>3 DEF CurrentManifest
    <2>3. QED
      BY <2>1, <2>2
  <1>2. /\ bg.edit[1].log \in Nat /\ bg.edit[1].log <= db.log /\ db.log \in DOMAIN disk.logs
        /\ db.log \in Nat /\ m.log \in Nat /\ m.log <= db.log
        /\ ~db.failed => m.log = bg.edit[1].log
    BY DEF FilesInv, Shape, BgShape, DbShape, DiskShape, Numbered, Named, Editing, LogNumbers,
           CurrentManifest
  <1>3. db.log \in DOMAIN disk'.logs
    BY <1>1, <1>2
  <1>4. \A n \in DOMAIN disk.logs : n >= m.log => n \in DOMAIN disk'.logs
    BY <1>1, <1>2
  <1>5. ~HasEdit' /\ ~IsOpening'
    BY DEF GoesOn, HasEdit, IsOpening
  <1>6. Writing' <=> Writing
    BY DEF Writing
  <1>7. Lasting' \subseteq Nat /\ SyncedKept' /\ DurableKnown'
    BY DEF SyncedKept, DurableKnown
  <1>8. DurableSafe'
    BY <1>1 DEF DurableSafe, SafeIn
  <1>9. Covers'
    BY <1>1, <1>4, <1>5 DEF Covers, Covered
  <1>10. RecordsPast'
    BY <1>1, <1>6 DEF RecordsPast
  <1>11. InFlight'
    BY <1>1, <1>3, <1>6 DEF InFlight
  <1>12. LogNumbers'
    BY <1>1, <1>2, <1>5 DEF LogNumbers
  <1>13. QED
    BY <1>7, <1>8, <1>9, <1>10, <1>11, <1>12

LEMMA SyncInstall == ASSUME SyncInv, FilesInv, Install PROVE SyncInv'
  <1> DEFINE e == bg.edit[1]
             d == [db EXCEPT !.ver = Apply(@, e), !.logNumber = e.log, !.seek = {}]
  <1>1. /\ db.up /\ bg.pc = "install" /\ Lasting' = Lasting /\ UNCHANGED <<kept, queue, call>>
        /\ DbShape /\ BgShape
    BY DEF Lasting, Install, FilesInv, Shape
  <1>2. \/ /\ db' = [d EXCEPT !.imm = <<>>] /\ disk' = Swept(disk, db', bg.job)
           /\ bg' = AfterFlush(db')
        \/ db' = d /\ bg' = Ended(d, manual) /\ disk' = disk
        \/ db' = Cleaned(d) /\ disk' = Swept(disk, db', <<>>) /\ bg' = Ended(db', manual')
    BY DEF Install
  <1>3. /\ DOMAIN d = DOMAIN db /\ d.up = db.up /\ d.logNumber = e.log /\ d.log = db.log
        /\ d.last = db.last /\ d.next = db.next /\ d.manifest = db.manifest
        /\ d.failed = db.failed /\ d.pending = db.pending
    BY <1>1 DEF DbShape, Fields
  <1>4. DOMAIN d = {"up", "mem", "imm", "log", "ver", "last", "next", "logNumber", "manifest",
                    "failed", "pending", "seek"}
    BY <1>1, <1>3 DEF DbShape, Fields
  <1> HIDE DEF d
  <1>5. db' \in {d, [d EXCEPT !.imm = <<>>], Cleaned(d)}
    BY <1>2
  <1>6. /\ db'.up = d.up /\ db'.failed = d.failed /\ db'.logNumber = d.logNumber
        /\ db'.log = d.log /\ db'.next = d.next /\ db'.manifest = d.manifest /\ db'.last = d.last
    BY <1>3, <1>4, <1>5 DEF Cleaned
  <1>7. GoesOn /\ (disk' = disk \/ disk' = Swept(disk, db', bg'.job))
    <2>1. CASE /\ db' = [d EXCEPT !.imm = <<>>] /\ disk' = Swept(disk, db', bg.job)
               /\ bg' = AfterFlush(db')
      <3>1. db'.pending = db.pending
        BY <1>3, <1>4, <2>1
      <3>2. GoesOn /\ bg'.job = bg.job
        BY <1>1, <2>1, <3>1, AfterFlushGoesOn
      <3>3. QED
        BY <2>1, <3>2
    <2>2. CASE db' = d /\ bg' = Ended(d, manual) /\ disk' = disk
      BY <2>2, EndedGoesOn
    <2>3. CASE db' = Cleaned(d) /\ disk' = Swept(disk, db', <<>>) /\ bg' = Ended(db', manual')
      <3>1. GoesOn /\ bg'.job = <<>>
        BY <2>3, EndedGoesOn
      <3>2. QED
        BY <2>3, <3>1
    <2>4. QED
      BY <1>2, <2>1, <2>2, <2>3
  <1>8. QED
    BY <1>1, <1>3, <1>6, <1>7, SyncInstalled

\* The logs keep what was synced, and the next Open reads it.
LEMMA SyncDies ==
    ASSUME SyncInv, NEW after, Dies(after),
           DOMAIN after.logs = DOMAIN disk.logs, after.safe = disk.safe,
           after.manifests = disk.manifests, after.current = disk.current,
           \A n \in DOMAIN disk.logs :
              /\ \A i \in DOMAIN after.logs[n] :
                   i \in DOMAIN disk.logs[n] /\ after.logs[n][i] = disk.logs[n][i]
              /\ \A i \in DOMAIN disk.logs[n] : i <= disk.safe[n] =>
                   i \in DOMAIN after.logs[n] /\ 1 .. i \subseteq DOMAIN after.logs[n]
    PROVE  SyncInv'
  <1> USE DEF SyncInv
  <1> DEFINE readable == UNION {Readable(after.logs[n]) : n \in LogsSince(after)}
             logged == UNION {EntriesOf(disk.logs[n], DOMAIN disk.logs[n]) : n \in LogsSince(disk)}
  <1>1. /\ kept' = (kept \ logged) \cup readable /\ disk' = after /\ Lasting' = Lasting
        /\ db' = [up |-> FALSE, mem |-> {}, imm |-> <<>>, log |-> 0, ver |-> NoFile,
                  last |-> 0, next |-> 0, logNumber |-> 0, manifest |-> 0,
                  failed |-> FALSE, pending |-> {}, seek |-> {}]
        /\ queue' = <<>> /\ bg' = [pc |-> "idle", table |-> 0, job |-> <<>>, edit |-> <<>>]
    BY DEF Dies, NoWork, Lasting
  <1>2. LogsSince(after) = LogsSince(disk) /\ CurrentManifest' = CurrentManifest
    BY <1>1 DEF LogsSince, CurrentManifest
  <1>3. ASSUME NEW n \in DOMAIN disk.logs, NEW i \in DOMAIN disk.logs[n], NEW s \in Lasting,
               In(s, disk.logs[n][i])
        PROVE  /\ i \in DOMAIN after.logs[n] /\ after.logs[n][i] = disk.logs[n][i]
               /\ i \in WholeRecords(after.logs[n])
    <2>1. i <= disk.safe[n] /\ \A j \in 1 .. i : disk.logs[n][j].whole
      BY <1>3 DEF DurableSafe, SafeIn
    <2>2. i \in DOMAIN after.logs[n] /\ 1 .. i \subseteq DOMAIN after.logs[n]
      BY <2>1
    <2>3. \A j \in 1 .. i : after.logs[n][j].whole
      BY <2>1, <2>2
    <2>4. QED
      BY <2>2, <2>3 DEF WholeRecords
  <1>4. \A s \in Lasting : s \in logged => s \in readable
    <2>1. SUFFICES ASSUME NEW s \in Lasting, s \in logged PROVE s \in readable
      OBVIOUS
    <2>2. PICK n \in LogsSince(disk) : s \in EntriesOf(disk.logs[n], DOMAIN disk.logs[n])
      BY <2>1
    <2>3. n \in DOMAIN disk.logs
      BY DEF LogsSince
    <2>4. PICK i \in DOMAIN disk.logs[n] : In(s, disk.logs[n][i])
      BY <2>2 DEF EntriesOf, In
    <2>5. i \in WholeRecords(after.logs[n]) /\ In(s, after.logs[n][i])
      BY <1>3, <2>3, <2>4
    <2>6. s \in Readable(after.logs[n])
      BY <2>5 DEF Readable, EntriesOf, In
    <2>7. QED
      BY <1>2, <2>6
  <1>5. Lasting' \subseteq Nat /\ SyncedKept'
    <2> HIDE DEF readable, logged
    <2>1. QED
      BY <1>1, <1>4 DEF SyncedKept
  <1>6. DurableSafe'
    <2>1. SUFFICES ASSUME NEW n \in DOMAIN disk.logs, NEW i \in DOMAIN after.logs[n],
                          NEW s \in Lasting, In(s, after.logs[n][i])
                   PROVE  i <= disk.safe[n] /\ \A j \in 1 .. i : after.logs[n][j].whole
      BY <1>1 DEF DurableSafe, SafeIn
    <2>2. i \in DOMAIN disk.logs[n] /\ In(s, disk.logs[n][i])
      BY <2>1
    <2>3. i \in WholeRecords(after.logs[n])
      BY <1>3, <2>2
    <2>4. QED
      BY <2>2, <2>3 DEF DurableSafe, SafeIn, WholeRecords
  <1>7. DurableKnown' /\ RecordsPast' /\ InFlight'
    BY <1>1 DEF DurableKnown, RecordsPast, InFlight, IsOpening, Writing
  <1>8. Covers'
    <2>1. Covered(Lasting, after.logs, CurrentManifest.last, CurrentManifest.log)
      BY <1>3 DEF Covers, Covered
    <2>2. ~HasEdit'
      BY <1>1 DEF HasEdit
    <2>3. QED
      BY <1>1, <1>2, <2>1, <2>2 DEF Covers
  <1>9. LogNumbers'
    BY <1>1, <1>2 DEF LogNumbers, HasEdit, IsOpening
  <1>10. QED
    BY <1>5, <1>6, <1>7, <1>8, <1>9

LEMMA SyncFaults == ASSUME SyncInv, FilesInv, FaultNext PROVE SyncInv'
  <1>1. DiskShape
    BY DEF FilesInv, Shape
  <1>2. ASSUME NEW n \in DOMAIN disk.logs
        PROVE  /\ disk.logs[n] \in Seq(Records) /\ disk.safe[n] \in Nat
               /\ DOMAIN disk.logs[n] = 1 .. Len(disk.logs[n]) /\ Len(disk.logs[n]) \in Nat
    BY <1>1, RecordsOf DEF DiskShape
  <1>3. CASE Kill \/ NullManual
    <2>1. Dies(disk)
      BY <1>3 DEF Kill, NullManual
    <2>2. \A n \in DOMAIN disk.logs : \A i \in DOMAIN disk.logs[n] : 1 .. i \subseteq DOMAIN disk.logs[n]
      BY <1>2
    <2>3. QED
      BY <2>1, <2>2, SyncDies
  <1>4. CASE PowerCut
    <2>1. PICK len \in [DOMAIN disk.logs -> Nat] :
             /\ \A n \in DOMAIN disk.logs : len[n] \in disk.safe[n] .. Len(disk.logs[n])
             /\ Dies([disk EXCEPT !.logs =
                        [n \in DOMAIN disk.logs |-> SubSeq(disk.logs[n], 1, len[n])]])
      BY <1>1, <1>4, PowerCuts
    <2> DEFINE cut == [n \in DOMAIN disk.logs |-> SubSeq(disk.logs[n], 1, len[n])]
               after == [disk EXCEPT !.logs = cut]
    <2>2. ASSUME NEW n \in DOMAIN disk.logs
          PROVE  /\ \A i \in DOMAIN cut[n] : i \in DOMAIN disk.logs[n] /\ cut[n][i] = disk.logs[n][i]
                 /\ \A i \in DOMAIN disk.logs[n] : i <= disk.safe[n] =>
                      i \in DOMAIN cut[n] /\ 1 .. i \subseteq DOMAIN cut[n]
      <3>1. len[n] \in disk.safe[n] .. Len(disk.logs[n]) /\ len[n] \in Nat
        BY <2>1
      <3>2. /\ cut[n] \in Seq(Records) /\ Len(cut[n]) = len[n]
            /\ \A i \in 1 .. len[n] : cut[n][i] = disk.logs[n][i]
            /\ 1 .. len[n] \subseteq 1 .. Len(disk.logs[n])
        BY <1>2, <3>1, CutLog
      <3>3. DOMAIN cut[n] = 1 .. len[n]
        BY <3>2, RecordsOf
      <3>4. \A i \in 1 .. Len(disk.logs[n]) : i <= disk.safe[n] =>
                      i \in 1 .. len[n] /\ 1 .. i \subseteq 1 .. len[n]
        BY <1>2, <3>1
      <3>5. QED
        BY <1>2, <3>2, <3>3, <3>4
    <2>3. DOMAIN cut = DOMAIN disk.logs /\ Dies(after)
      BY <2>1
    <2> HIDE DEF cut
    <2>4. /\ after.logs = cut /\ after.safe = disk.safe /\ after.manifests = disk.manifests
          /\ after.current = disk.current
      BY <1>1 DEF DiskShape, Fields
    <2> HIDE DEF after
    <2>5. QED
      BY <2>2, <2>3, <2>4, SyncDies
  <1>5. QED
    BY <1>3, <1>4 DEF FaultNext

\* An Open recovers a sequence number no lasting entry is beyond, and begins a
\* log after all others.
LEMMA SyncRecover == ASSUME SyncInv, QueueInv, FilesInv, Recover PROVE SyncInv'
  <1> USE DEF SyncInv
  <1> DEFINE m == CurrentManifest
  <1>1. /\ ~db.up /\ Lasting' = Lasting /\ UNCHANGED <<kept, queue, call>> /\ DbShape /\ DiskShape /\ Named /\ Bounded
    BY DEF Lasting, Recover, FilesInv, Shape
  <1>2. PICK tables, new, last : Recovers(tables, new, last)
    BY <1>1, Recovering
  <1>3. /\ new \in Nat /\ last \in Nat /\ new > m.next
        /\ \A n \in LogsSince(disk) : n < new
        /\ m.last <= last
        /\ \A n \in LogsSince(disk) : \A s \in Readable(disk.logs[n]) : s <= last
        /\ db' = [db EXCEPT !.ver = m.ver, !.log = new, !.next = new + 1,
                            !.manifest = m.next, !.logNumber = m.log, !.last = last]
        /\ disk' = [disk EXCEPT !.tables = Over(tables, @), !.logs = With(@, new, <<>>),
                                !.safe = With(@, new, 0)]
        /\ bg' = [pc |-> "open", table |-> 0, job |-> <<>>, edit |->
                <<[kind |-> "open", deleted |-> {}, added |-> [f \in DOMAIN tables |-> 0],
                   log |-> new, next |-> new + 1, last |-> last]>>]
    BY <1>2 DEF Recovers
  <1>4. /\ db'.log = new /\ db'.next = new + 1 /\ db'.last = last
        /\ db'.up = db.up /\ db'.failed = db.failed
    BY <1>1, <1>3 DEF DbShape, Fields
  <1>5. /\ disk'.manifests = disk.manifests /\ disk'.current = disk.current
        /\ disk'.logs = With(disk.logs, new, <<>>) /\ disk'.safe = With(disk.safe, new, 0)
        /\ DOMAIN disk.safe = DOMAIN disk.logs
    BY <1>1, <1>3 DEF DiskShape, Fields
  <1>6. bg'.pc = "open" /\ bg'.edit[1].log = new /\ bg'.edit[1].next = new + 1 /\ bg'.edit[1].last = last
    BY <1>3
  <1>7. CurrentManifest' = m /\ m.log \in Nat /\ m.next \in Nat /\ m.last \in Nat /\ m.log <= m.next
    BY <1>1, <1>5 DEF CurrentManifest, Named, DiskShape, LogNumbers
  <1>8. ASSUME NEW n \in DOMAIN disk.logs PROVE n \in Nat /\ n < new
    <2>1. n \in Nat
      BY <1>1 DEF DiskShape
    <2>2. n >= m.log => n < new
      BY <1>3 DEF LogsSince, CurrentManifest
    <2>3. QED
      BY <1>3, <1>7, <2>1, <2>2
  <1>9. /\ DOMAIN disk'.logs = {new} \cup DOMAIN disk.logs /\ disk'.logs[new] = <<>>
        /\ \A n \in DOMAIN disk.logs :
             disk'.logs[n] = disk.logs[n] /\ disk'.safe[n] = disk.safe[n]
    BY <1>3, <1>5, <1>8 DEF With
  <1>10. ASSUME NEW s \in Lasting PROVE s <= last
    <2>1. CASE s <= m.last
      BY <1>3, <1>7, <2>1
    <2>2. CASE \E n \in DOMAIN disk.logs : n >= m.log /\ \E i \in DOMAIN disk.logs[n] : In(s, disk.logs[n][i])
      <3>1. PICK n \in DOMAIN disk.logs : n >= m.log /\ \E i \in DOMAIN disk.logs[n] : In(s, disk.logs[n][i])
        BY <2>2
      <3>2. PICK i \in DOMAIN disk.logs[n] : In(s, disk.logs[n][i])
        BY <3>1
      <3>3. n \in LogsSince(disk)
        BY <3>1 DEF LogsSince, CurrentManifest
      <3>4. i \in WholeRecords(disk.logs[n])
        BY <3>2 DEF DurableSafe, SafeIn, WholeRecords
      <3>5. s \in Readable(disk.logs[n])
        BY <3>2, <3>4 DEF Readable, EntriesOf, In
      <3>6. QED
        BY <1>3, <3>3, <3>5
    <2>3. QED
      BY <2>1, <2>2 DEF Covers, Covered
  <1>11. DOMAIN <<>> = {}
    OBVIOUS
  <1>12. Lasting' \subseteq Nat /\ SyncedKept' /\ DurableKnown'
    BY <1>1, <1>4, <1>10 DEF SyncedKept, DurableKnown
  <1>13. DurableSafe'
    BY <1>1, <1>9, <1>11 DEF DurableSafe, SafeIn
  <1>14. Covers'
    <2>1. Covered(Lasting, disk'.logs, m.last, m.log)
      BY <1>9 DEF Covers, Covered
    <2>2. Covered(Lasting, disk'.logs, last, new)
      BY <1>10 DEF Covered
    <2>3. QED
      BY <1>1, <1>6, <1>7, <2>1, <2>2 DEF Covers
  <1>15. queue = <<>> /\ RecordsPast' /\ InFlight'
    BY <1>1, <1>4 DEF QueueInv, InLine, RecordsPast, InFlight, Writing
  <1>16. LogNumbers'
    <2>1. \A n \in DOMAIN disk'.logs : n < new + 1 /\ n <= new
      BY <1>3, <1>8, <1>9
    <2>2. bg'.edit[1].log <= bg'.edit[1].next
      BY <1>3, <1>6
    <2>3. QED
      BY <1>1, <1>4, <1>7, <1>9, <2>1, <2>2 DEF LogNumbers
  <1>17. QED
    BY <1>12, <1>13, <1>14, <1>15, <1>16

\* It sweeps the logs it recovered, which its manifest does not need.
LEMMA SyncOpened == ASSUME SyncInv, QueueInv, FilesInv, Opened PROVE SyncInv'
  <1> USE DEF SyncInv
  <1> DEFINE e == bg.edit[1]  m == CurrentManifest
  <1>1. /\ bg.pc = "opened" /\ Lasting' = Lasting /\ UNCHANGED <<kept, queue, call>>
        /\ db' = [db EXCEPT !.up = TRUE, !.ver = Apply(@, e), !.logNumber = e.log]
        /\ disk' = Swept(disk, db', <<>>) /\ bg' = Ended(db', manual)
        /\ DbShape /\ DiskShape /\ BgShape /\ IsOpening
    BY DEF Lasting, Opened, FilesInv, Shape, IsOpening
  <1>2. /\ ~db.up /\ ~db.failed
    BY <1>1 DEF BgShape, DbShape, LogNumbers
  <1>3. /\ db'.up /\ db'.logNumber = e.log /\ ~db'.failed /\ db'.last = db.last
        /\ db'.log = db.log /\ db'.next = db.next /\ db'.manifest = db.manifest
    BY <1>1, <1>2 DEF DbShape, Fields
  <1>4. /\ e.log = db.log /\ db.log \in DOMAIN disk.logs /\ db.log \in Nat /\ db.log < db.next
        /\ disk.current = db.manifest /\ db.manifest \in DOMAIN disk.manifests
        /\ m = ApplyToManifest([ver |-> db.ver, half |-> FALSE], e) /\ db.manifest \in Nat
    BY <1>1 DEF FilesInv, Opening, CurrentManifest, DbShape
  <1>5. /\ disk'.current = disk.current
        /\ DOMAIN disk'.logs \subseteq DOMAIN disk.logs
        /\ \A n \in DOMAIN disk'.logs : disk'.logs[n] = disk.logs[n] /\ disk'.safe[n] = disk.safe[n]
        /\ \A n \in DOMAIN disk.logs : n >= db'.logNumber => n \in DOMAIN disk'.logs
        /\ \A n \in DOMAIN disk'.manifests : disk'.manifests[n] = disk.manifests[n]
        /\ \A n \in DOMAIN disk.manifests : n >= db'.manifest => n \in DOMAIN disk'.manifests
        /\ ~db'.failed => \A n \in DOMAIN disk'.logs : n >= db'.logNumber
    <2>1. DiskShape /\ disk' = Swept(disk, db', <<>>)
      BY <1>1
    <2>2. QED
      BY ONLY <2>1, SweptFiles
  <1>6. CurrentManifest' = m /\ m.log = db.log /\ m.log <= m.next
    BY <1>3, <1>4, <1>5 DEF CurrentManifest, ApplyToManifest, LogNumbers
  <1>7. DOMAIN disk'.logs = {db.log} /\ disk'.logs[db.log] = <<>>
    <2>1. \A n \in DOMAIN disk'.logs : n \in Nat /\ n <= db.log /\ n >= db.log
      BY <1>1, <1>3, <1>4, <1>5 DEF LogNumbers, DiskShape
    <2>2. db.log \in DOMAIN disk'.logs
      BY <1>3, <1>4, <1>5
    <2>3. disk.logs[db.log] = <<>>
      BY <1>1 DEF LogNumbers
    <2>4. QED
      BY <1>4, <1>5, <2>1, <2>2, <2>3
  <1>8. DOMAIN <<>> = {}
    OBVIOUS
  <1>9. bg'.pc \in {"idle", "scheduled"}
    BY <1>1, EndedWork
  <1>10. ~HasEdit' /\ ~IsOpening'
    BY <1>9 DEF HasEdit, IsOpening
  <1>11. queue = <<>> /\ ~Writing'
    BY <1>1, <1>2 DEF QueueInv, InLine, Writing
  <1>12. Lasting' \subseteq Nat /\ SyncedKept' /\ DurableKnown'
    BY <1>1, <1>3 DEF SyncedKept, DurableKnown
  <1>13. DurableSafe'
    BY <1>7, <1>8 DEF DurableSafe, SafeIn
  <1>14. Covers'
    <2>1. ASSUME NEW s \in Lasting PROVE s <= m.last
      <3>1. CASE s <= m.last
        BY <3>1
      <3>2. CASE \E n \in DOMAIN disk.logs : n >= m.log /\ \E i \in DOMAIN disk.logs[n] : In(s, disk.logs[n][i])
        <4>1. PICK n \in DOMAIN disk.logs : n >= m.log /\ \E i \in DOMAIN disk.logs[n] : In(s, disk.logs[n][i])
          BY <3>2
        <4>2. n = db.log /\ disk.logs[db.log] = <<>>
          <5>1. n \in Nat /\ n <= db.log /\ disk.logs[db.log] = <<>>
            BY <1>1 DEF LogNumbers, DiskShape
          <5>2. QED
            BY <1>4, <1>6, <4>1, <5>1
        <4>3. QED
          BY <1>8, <4>1, <4>2
      <3>3. QED
        BY <3>1, <3>2 DEF Covers, Covered
    <2>2. QED
      BY <1>1, <1>6, <1>10, <2>1 DEF Covers, Covered
  <1>15. RecordsPast'
    BY <1>7, <1>8 DEF RecordsPast
  <1>16. InFlight'
    BY <1>11 DEF InFlight
  <1>17. LogNumbers'
    BY <1>3, <1>4, <1>6, <1>7, <1>10 DEF LogNumbers
  <1>18. QED
    BY <1>12, <1>13, <1>14, <1>15, <1>16, <1>17

LEMMA SyncNext == ASSUME SyncInv, QueueInv, FilesInv, Next PROVE SyncInv'
  <1>1. CASE WriteNext
    <2>1. ASSUME NEW t \in Writers, BeginWrite(t) PROVE SyncInv'
      <3>1. t \in Threads
        BY DEF Threads
      <3>2. QED
        BY <2>1, <3>1, SyncThreads
    <2>2. ASSUME NEW t \in Threads, ThreadNext(t) PROVE SyncInv'
      BY <2>2, SyncThreads, SyncSwitch, SyncAppend, SyncInsert, SyncPublish DEF ThreadNext
    <2>3. QED
      BY <1>1, <2>1, <2>2 DEF WriteNext
  <1>2. CASE ReadNext
    BY <1>2, SyncReaders
  <1>3. CASE BackgroundNext
    <2>1. FilesInv'
      BY FilesNext
    <2>2. QED
      BY <1>3, <2>1, SyncBackground, SyncInstall
  <1>4. CASE CompactNext
    <2>1. Compactor \in Threads
      BY DEF Threads
    <2>2. QED
      BY <1>4, <2>1, SyncThreads, SyncReaders DEF CompactNext
  <1>5. CASE FaultNext
    BY <1>5, SyncFaults
  <1>6. CASE OpenNext
    BY <1>6, SyncRecover, SyncOpening, SyncOpened DEF OpenNext
  <1>7. QED
    BY <1>1, <1>2, <1>3, <1>4, <1>5, <1>6 DEF Next

LEMMA SyncInit == ASSUME Init PROVE SyncInv
  <1>1. /\ db.up /\ db.last = 0 /\ db.next = 4 /\ db.log = 3 /\ ~db.failed
        /\ bg.pc = "idle" /\ queue = <<>> /\ Lasting = {}
    BY DEF Init, NoWork, Lasting
  <1>2. /\ DOMAIN disk.logs = {3} /\ disk.logs[3] = <<>>
        /\ CurrentManifest.log = 3 /\ CurrentManifest.next = 4
    BY DEF Init, With, NoFile, CurrentManifest
  <1>3. DOMAIN <<>> = {}
    OBVIOUS
  <1>4. ~Writing /\ ~HasEdit /\ ~IsOpening
    BY <1>1 DEF Writing, HasEdit, IsOpening
  <1>5. SyncedKept /\ DurableSafe /\ DurableKnown /\ Covers
    BY <1>1, <1>4 DEF SyncedKept, DurableSafe, SafeIn, DurableKnown, Covers, Covered
  <1>6. RecordsPast /\ InFlight
    BY <1>2, <1>3, <1>4 DEF RecordsPast, InFlight
  <1>7. LogNumbers
    BY <1>1, <1>2, <1>4 DEF LogNumbers
  <1>8. QED
    BY <1>1, <1>5, <1>6, <1>7 DEF SyncInv

\* No kill and no power cut, however many and wherever they come, loses a
\* write that was acknowledged after a sync, its own or that of the writer it
\* was grouped with, unless its record was behind a torn one of its log
\* (SyncedKept): until a table and the manifest hold it, its
\* record is whole in the synced part of a log that CURRENT's manifest sends
\* the next Open to.
THEOREM SyncedStay == Spec => []SyncedKept
  <1> DEFINE Inv == QueueInv /\ FilesInv /\ SyncInv
  <1>1. Init => Inv
    BY QueueInit, FilesInit, SyncInit
  <1>2. Inv /\ [Next]_vars => Inv'
    <2>1. CASE Inv /\ Next
      BY <2>1, QueueNext, FilesNext, SyncNext DEF FilesInv, Shape
    <2>2. CASE Inv /\ UNCHANGED vars
      <3>1. SameHead /\ Lasting' = Lasting /\ UNCHANGED <<kept, disk, db, bg>>
        BY <2>2, HeadSame DEF Lasting, vars
      <3>2. QED
        BY <2>2, <3>1, Stuttering, SyncQuiet
    <2>3. QED
      BY <2>1, <2>2
  <1>3. Inv => SyncedKept
    BY DEF SyncInv
  <1> HIDE DEF Inv
  <1>4. QED
    BY <1>1, <1>2, <1>3, PTL DEF Spec

=============================================================================
