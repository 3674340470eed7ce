-------------------------------- MODULE Words --------------------------------
(***************************************************************************)
(* Words of w bits as the sets of the numbers of their bits, and bytes as  *)
(* numbers: the arithmetic of uint32_t and uint64_t that the digests, the  *)
(* ciphers and the checksums are built from.                               *)
(***************************************************************************)
EXTENDS Integers, Sequences, FiniteSets, SequencesExt

Xor(a, b)     == (a \ b) \cup (b \ a)
XorAll(words) == FoldLeft(Xor, {}, words)
Inverted(w, a) == (0 .. w - 1) \ a
RotateLeft(w, a, n)  == {(i + n) % w : i \in a}
RotateRight(w, a, n) == {(i + w - n) % w : i \in a}
ShiftRight(a, n)    == {i - n : i \in {j \in a : j >= n}}
ShiftLeft(w, a, n)  == {i + n : i \in {j \in a : j + n < w}}

\* The sum, less what does not fit in the word.
RECURSIVE Plus(_, _, _)
Plus(w, a, b) == IF a \cap b = {} THEN a \cup b ELSE Plus(w, Xor(a, b), ShiftLeft(w, a \cap b, 1))
Sum(w, words) == FoldLeft(LAMBDA s, a : Plus(w, s, a), {}, words)

BitsOf(n)   == {i \in 0 .. 30 : (n \div 2^i) % 2 = 1}
NumberOf(a) == FoldSet(LAMBDA i, n : n + 2^i, 0, a)
ByteAt(a, i) == NumberOf(ShiftRight(a, 8 * i) \cap 0 .. 7)

\* Word <-> bytes, the first byte the lowest (the machine's order) or the
\* highest (REVERSE32, REVERSE64).
Little(bytes) == UNION {{8 * (i - 1) + j : j \in BitsOf(bytes[i])} : i \in DOMAIN bytes}
Big(bytes)    == Little(Reverse(bytes))
LittleBytes(w, a) == [i \in 1 .. w \div 8 |-> ByteAt(a, i - 1)] \o <<>>
BigBytes(w, a)    == Reverse(LittleBytes(w, a))
XorBytes(a, b) == [i \in DOMAIN a |-> NumberOf(Xor(BitsOf(a[i]), BitsOf(b[i])))] \o <<>>

\* Bytes cut into pieces of n, and put into a buffer from place at.
Pieces(bytes, n) == [k \in 1 .. Len(bytes) \div n |-> SubSeq(bytes, n * (k - 1) + 1, n * k)] \o <<>>
LittleWords(w, bytes) == [k \in 1 .. (8 * Len(bytes)) \div w |-> Little(Pieces(bytes, w \div 8)[k])] \o <<>>
BigWords(w, bytes)    == [k \in 1 .. (8 * Len(bytes)) \div w |-> Big(Pieces(bytes, w \div 8)[k])] \o <<>>
Put(buffer, at, bytes) ==
    SubSeq(buffer, 1, at) \o bytes \o SubSeq(buffer, at + Len(bytes) + 1, Len(buffer))
Zeros(n)   == [i \in 1 .. n |-> 0] \o <<>>
Dropped(s, n) == SubSeq(s, n + 1, Len(s))
Taken(s, n)   == SubSeq(s, 1, n)
=============================================================================
