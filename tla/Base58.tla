------------------------------- MODULE Base58 -------------------------------
(***************************************************************************)
(* Base 58 with a checksum.  A string is a sequence of digits 0 .. 57, the *)
(* character '1' being 0; any other character is NoDigit.                  *)
(***************************************************************************)
EXTENDS Integers, Sequences, SequencesExt

CONSTANTS BYTE,             \* values of a byte: 256
          BYTES,            \* bytes of a word: 4
          sha256_Raw(_)     \* the digest of a sequence of bytes

NoDigit == -1
Failed  == [ok |-> FALSE]
At(s, i) == IF i \in 1 .. Len(s) THEN s[i] ELSE NoDigit
RECURSIVE Leading(_, _)
Leading(s, x) == IF s # <<>> /\ Head(s) = x THEN 1 + Leading(Tail(s), x) ELSE 0
Zeros(n) == [i \in 1 .. n |-> 0] \o <<>>

\* One more digit: the words, most significant first, times 58 plus c.
WordTimes(outi, c) ==
    FoldRight(LAMBDA w, acc : LET t == w * 58 + acc.c
                              IN [out |-> <<t % BYTE ^ BYTES>> \o acc.out, c |-> (t \div BYTE ^ BYTES) % 64],
              outi, [out |-> <<>>, c |-> c])
RECURSIVE TakeDigits(_, _, _)
TakeDigits(outi, b58, limit) ==
    IF b58 = <<>> THEN outi
    ELSE LET r == WordTimes(outi, Head(b58))
         IN IF Head(b58) = NoDigit THEN <<>>
            ELSE IF r.c # 0 \/ r.out[1] >= limit THEN <<>> ELSE TakeDigits(r.out, Tail(b58), limit)
WordBytes(w) == [i \in 1 .. BYTES |-> (w \div BYTE ^ (BYTES - i)) % BYTE] \o <<>>

\* The binsz bytes of the number and how many of them, with the leading ones
\* of the string, are the data.
b58tobin(binsz, b58) ==
    LET outisz == (binsz + BYTES - 1) \div BYTES
        left   == binsz % BYTES
        ones   == Leading(b58, 0)
        outi   == TakeDigits(Zeros(outisz), SubSeq(b58, ones + 1, Len(b58)),
                             IF left = 0 THEN BYTE ^ BYTES ELSE BYTE ^ left)
        all    == FlattenSeq([i \in 1 .. outisz |-> WordBytes(outi[i])] \o <<>>)
        bin    == SubSeq(all, Len(all) - binsz + 1, Len(all))
    IN IF outi = <<>> THEN Failed
       ELSE [ok |-> TRUE, bin |-> bin, size |-> binsz - Leading(bin, 0) + ones]

Checksum(data) == SubSeq(sha256_Raw(sha256_Raw(data)), 1, 4)
RECURSIVE LeadingPairs(_, _)
LeadingPairs(bin, str) ==
    IF At(bin, 1) = 0 /\ At(str, 1) = 0 THEN 1 + LeadingPairs(Tail(bin), Tail(str)) ELSE 0
b58check(bin, str) ==
    LET i == LeadingPairs(bin, str) + 1
    IN IF Len(bin) < 4 THEN -4
       ELSE IF SubSeq(bin, Len(bin) - 3, Len(bin)) # Checksum(SubSeq(bin, 1, Len(bin) - 4)) THEN -1
       ELSE IF At(bin, i) = 0 \/ At(str, i) = 0 THEN -3
       ELSE bin[1]

\* The digits of buf after one more byte: from the last one on, as far as the
\* digits set before reach or a carry is left.
RECURSIVE CarryInto(_, _, _, _)
CarryInto(buf, j, carry, high) ==
    IF j > high \/ carry # 0
    THEN LET c == carry + BYTE * buf[j]
         IN CarryInto([buf EXCEPT ![j] = c % 58], j - 1, c \div 58, high)
    ELSE [buf |-> buf, high |-> j]
RECURSIVE TakeBytes(_, _, _)
TakeBytes(buf, bin, high) ==
    IF bin = <<>> THEN buf
    ELSE LET r == CarryInto(buf, Len(buf), Head(bin), high) IN TakeBytes(r.buf, Tail(bin), r.high)
b58enc(b58sz, bin) ==
    LET zcount == Leading(bin, 0)
        size == ((Len(bin) - zcount) * 138) \div 100 + 1
        buf  == TakeBytes(Zeros(size), SubSeq(bin, zcount + 1, Len(bin)), size)
        str  == Zeros(zcount) \o SubSeq(buf, Leading(buf, 0) + 1, size)
    IN IF b58sz <= Len(str) THEN Failed ELSE [ok |-> TRUE, str |-> str]

base58_encode_check(data, strsize) ==
    IF Len(data) > 128 THEN Failed ELSE b58enc(strsize, data \o Checksum(data))
base58_decode_check(str, datalen) ==
    LET r  == b58tobin(datalen + 4, str)
        nd == SubSeq(r.bin, datalen + 4 - r.size + 1, datalen + 4)
    IN IF datalen > 128 \/ ~r.ok THEN Failed
       ELSE IF b58check(nd, str) < 0 THEN Failed
       ELSE [ok |-> TRUE, data |-> SubSeq(nd, 1, r.size - 4)]
=============================================================================
