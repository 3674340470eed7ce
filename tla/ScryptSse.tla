------------------------------ MODULE ScryptSse ------------------------------
(***************************************************************************)
(* crypto_scrypt-sse.c: scrypt on vectors of four words.  A block is four  *)
(* vectors, its words stored along the diagonals of the square they form.  *)
(* This build has no stop flag.                                            *)
(***************************************************************************)
EXTENDS Words

CONSTANTS K256(_), sha256_initial_hash_value
Nosse == INSTANCE Scrypt

Lanes == 1 .. 4
blkxor(D, S) == [v \in DOMAIN D |-> [l \in Lanes |-> Xor(D[v][l], S[v][l])] \o <<>>] \o <<>>
Add(X, Y)  == [l \in Lanes |-> Plus(32, X[l], Y[l])] \o <<>>
\* X ^ (T << n) ^ (T >> 32 - n)
Turned(X, T, n) ==
    [l \in Lanes |-> XorAll(<<X[l], ShiftLeft(32, T[l], n), ShiftRight(T[l], 32 - n)>>)] \o <<>>
\* Lane l of the result is the lane that two bits of imm name.
_mm_shuffle_epi32(X, imm) == [l \in Lanes |-> X[((imm \div 4^(l - 1)) % 4) + 1]] \o <<>>

Quarters(X0, X1, X2, X3) ==
    LET Y1 == Turned(X1, Add(X0, X3), 7)
        Y2 == Turned(X2, Add(Y1, X0), 9)
        Y3 == Turned(X3, Add(Y2, Y1), 13)
    IN <<Turned(X0, Add(Y3, Y2), 18), Y1, Y2, Y3>>
DoubleRound(X) ==
    LET c == Quarters(X[1], X[2], X[3], X[4])
        r == Quarters(c[1], _mm_shuffle_epi32(c[4], 57), _mm_shuffle_epi32(c[3], 78), _mm_shuffle_epi32(c[2], 147))
    IN <<r[1], _mm_shuffle_epi32(r[4], 57), _mm_shuffle_epi32(r[3], 78), _mm_shuffle_epi32(r[2], 147)>>
salsa20_8(B) ==
    LET X == DoubleRound(DoubleRound(DoubleRound(DoubleRound(B)))) IN [v \in Lanes |-> Add(B[v], X[v])] \o <<>>

\* Bout from its places: block i of the lower half, block r + i of the upper.
blockmix_salsa8(Bin, r) ==
    LET turn(a, i) ==
            LET even == salsa20_8(blkxor(a.X, Bin[2 * i - 1]))
                odd  == salsa20_8(blkxor(even, Bin[2 * i]))
            IN [X |-> odd, Bout |-> [a.Bout EXCEPT ![i] = even, ![r + i] = odd]]
    IN FoldLeft(turn, [X |-> Bin[2 * r], Bout |-> Bin], [i \in 1 .. r |-> i]).Bout
\* The words 0 and 13 of a stored block are the first two of the block.
integerify(B, r) == B[2 * r][1][1] \cup {32 + i : i \in B[2 * r][4][2]}

\* Word i of a stored block is word 5 i mod 16 of the bytes.
Stored(bytes) ==
    [v \in Lanes |-> [l \in Lanes |-> LET w == (5 * (4 * (v - 1) + l - 1)) % 16
                                      IN Nosse!le32dec(SubSeq(bytes, 4 * w + 1, 4 * w + 4))] \o <<>>] \o <<>>
Unstored(block) ==
    Nosse!Joined([w \in 1 .. 16 |-> LET i == CHOOSE k \in 0 .. 15 : (5 * k) % 16 = w - 1
                                    IN Nosse!le32enc(block[(i \div 4) + 1][(i % 4) + 1])])
RECURSIVE Filling(_, _, _, _)
Filling(X, V, r, N) ==
    IF X = <<>> \/ Len(V) = N THEN [X |-> X, V |-> V]
    ELSE LET Y == blockmix_salsa8(X, r) IN Filling(blockmix_salsa8(Y, r), V \o <<X, Y>>, r, N)
Read(X, V, r, N) ==
    LET entry == V[Nosse!Place(integerify(X, r), N)]
    IN blockmix_salsa8([k \in DOMAIN X |-> blkxor(X[k], entry[k])] \o <<>>, r)
RECURSIVE Reading(_, _, _, _, _)
Reading(X, V, r, N, i) ==
    IF X = <<>> \/ i = N THEN X ELSE Reading(Read(Read(X, V, r, N), V, r, N), V, r, N, i + 2)
smix(B, r, N) ==
    LET X == [k \in 1 .. 2 * r |-> Stored(SubSeq(B, 64 * k - 63, 64 * k))] \o <<>>
        filled == Filling(X, <<>>, r, N)
        end == Reading(filled.X, filled.V, r, N, 0)
    IN Nosse!Joined([k \in 1 .. 2 * r |-> Unstored(end[k])])

crypto_scrypt(passwd, salt, N, r, p, buflen, failing) ==
    LET B == Pieces(Nosse!PBKDF2_SHA256(passwd, salt, 1, p * 128 * r), 128 * r)
        mixed == Nosse!Joined([k \in 1 .. p |-> smix(B[k], r, NumberOf(N))])
    IN IF Nosse!Refused(N, r, p) \/ failing \in {"B", "XY", "V"} THEN [status |-> -1, buf |-> <<>>]
       ELSE [status |-> IF failing = "munmap" THEN -1 ELSE 0,
             buf |-> Nosse!PBKDF2_SHA256(passwd, mixed, 1, buflen)]
=============================================================================
