------------------------------- MODULE MCSsdb -------------------------------
(* Ssdb for TLC.                                                           *)
EXTENDS Ssdb

MCScores == -1 .. 0
MCScoreMin == -1

MCPairs == {<<<<1, 1>>, <<2, 9>>>>, <<<<1, 1>>, <<1, 9>>>>, <<<<2, 1>>, <<Empty, 1>>>>}
MCIndexes == -2 .. 1

\* From the start or behind a key, to the end or to a key, and to before it.
MCBounds == {<<Empty, Empty>>, <<Empty, 1>>, <<1, Empty>>, <<1, 2>>, <<2, 1>>}

\* Without the binlog what is in the store is bounded, with it what happens.
MCMaxEntries == [on \in BOOLEAN |-> IF on THEN 1 ELSE 2]

\* States that differ in the last answer, or in what the binlog records name,
\* go on alike: no step reads either.
StoreView ==
    LET logs == Of(db, SYNCLOG)
    IN <<enabled, [x \in DOMAIN db \ logs |-> db[x]], logs, min, last, cleaning,
         clearing, misread, orphaned, errors>>

=============================================================================
