-------------------------------- MODULE Scrypt --------------------------------
(***************************************************************************)
(* scrypt 1.1.6 with its own SHA-256: crypto_scrypt-nosse.c, the build that *)
(* is compiled, which works on words and takes two steps between its looks *)
(* at the stop flag.  ScryptRef and ScryptSse are the other two builds.    *)
(***************************************************************************)
EXTENDS Words

CONSTANTS K256(_),                   \* the words of SHA-256, by round
          sha256_initial_hash_value

\* sysendian.h
be32dec(bytes) == Big(bytes)
be32enc(x)     == BigBytes(32, x)
be64dec(bytes) == Big(bytes)
be64enc(x)     == BigBytes(64, x)
le32dec(bytes) == Little(bytes)
le32enc(x)     == LittleBytes(32, x)
le64dec(bytes) == Little(bytes)
le64enc(x)     == LittleBytes(64, x)
Joined(pieces) == FoldLeft(LAMBDA s, p : s \o p, <<>>, pieces)

-----------------------------------------------------------------------------
\* scrypt_sha256.c.  The two words of a context's count are one of 64 bits.
be32enc_vect(words) == Joined([i \in DOMAIN words |-> be32enc(words[i])])
be32dec_vect(bytes) == [i \in 1 .. Len(bytes) \div 4 |-> be32dec(SubSeq(bytes, 4 * i - 3, 4 * i))] \o <<>>
Ch(x, y, z)  == Xor(x \cap Xor(y, z), z)
Maj(x, y, z) == (x \cap (y \cup z)) \cup (y \cap z)
ROTR(x, n) == RotateRight(32, x, n)
S0(x) == XorAll(<<ROTR(x, 2), ROTR(x, 13), ROTR(x, 22)>>)
S1(x) == XorAll(<<ROTR(x, 6), ROTR(x, 11), ROTR(x, 25)>>)
s0(x) == XorAll(<<ROTR(x, 7), ROTR(x, 18), ShiftRight(x, 3)>>)
s1(x) == XorAll(<<ROTR(x, 17), ROTR(x, 19), ShiftRight(x, 10)>>)

\* A round writes two of the eight words; which ones turns with the round.
RNDr(S, word, i) ==
    LET place(n) == ((n - i) % 8) + 1
        at(n) == S[place(n)]
        t0 == Sum(32, <<at(71), S1(at(68)), Ch(at(68), at(69), at(70)), word, K256(i)>>)
        t1 == Plus(32, S0(at(64)), Maj(at(64), at(65), at(66)))
    IN [S EXCEPT ![place(67)] = Plus(32, @, t0), ![place(71)] = Plus(32, t0, t1)]
RECURSIVE Mixed(_, _, _)
Mixed(S, W, i) == IF S = <<>> \/ i = 64 THEN S ELSE Mixed(RNDr(S, W[i + 1], i), W, i + 1)
Schedule(W) ==
    FoldLeft(LAMBDA w, i : Append(w, Sum(32, <<s1(w[i - 2]), w[i - 7], s0(w[i - 15]), w[i - 16]>>)),
             W, [i \in 1 .. 48 |-> i + 16])
SHA256_Transform(state, block) ==
    LET S == Mixed(state, Schedule(be32dec_vect(block)), 0)
    IN [i \in 1 .. 8 |-> Plus(32, state[i], S[i])] \o <<>>

SHA256_Init == [count |-> {}, state |-> sha256_initial_hash_value, buf |-> Zeros(64)]
SHA256_Update(ctx, src) ==
    LET r     == NumberOf(ShiftRight(ctx.count, 3) \cap 0 .. 5)
        taken == [ctx EXCEPT !.count = Plus(64, @, BitsOf(8 * Len(src)))]
        first == Put(ctx.buf, r, Taken(src, 64 - r))
        rest  == Dropped(src, 64 - r)
        whole == Pieces(rest, 64)
    IN IF Len(src) < 64 - r THEN [taken EXCEPT !.buf = Put(@, r, src)]
       ELSE [taken EXCEPT !.state = FoldLeft(SHA256_Transform, @, <<first>> \o whole),
                          !.buf = Put(first, 0, Dropped(rest, 64 * Len(whole)))]
PAD == <<128>> \o Zeros(63)
SHA256_Pad(ctx) ==
    LET len  == be64enc(ctx.count)
        r    == NumberOf(ShiftRight(ctx.count, 3) \cap 0 .. 5)
        plen == IF r < 56 THEN 56 - r ELSE 120 - r
    IN SHA256_Update(SHA256_Update(ctx, Taken(PAD, plen)), len)
SHA256_Final(ctx) == be32enc_vect(SHA256_Pad(ctx).state)

HMAC_SHA256_Init(K) ==
    LET key == IF Len(K) > 64 THEN SHA256_Final(SHA256_Update(SHA256_Init, K)) ELSE K
        pad(byte) == XorBytes(key \o Zeros(64 - Len(key)), [i \in 1 .. 64 |-> byte])
    IN [ictx |-> SHA256_Update(SHA256_Init, pad(54)), octx |-> SHA256_Update(SHA256_Init, pad(92))]
HMAC_SHA256_Update(ctx, in) == [ctx EXCEPT !.ictx = SHA256_Update(@, in)]
HMAC_SHA256_Final(ctx) == SHA256_Final(SHA256_Update(ctx.octx, SHA256_Final(ctx.ictx)))
RECURSIVE Iterated(_, _, _, _)
Iterated(passwd, U, T, more) ==
    IF T = <<>> \/ more = 0 THEN T
    ELSE LET next == HMAC_SHA256_Final(HMAC_SHA256_Update(HMAC_SHA256_Init(passwd), U))
         IN Iterated(passwd, next, XorBytes(T, next), more - 1)
PBKDF2_SHA256(passwd, salt, c, dkLen) ==
    LET PShctx == HMAC_SHA256_Update(HMAC_SHA256_Init(passwd), salt)
        block(i) == LET U == HMAC_SHA256_Final(HMAC_SHA256_Update(PShctx, be32enc(BitsOf(i))))
                    IN Iterated(passwd, U, U, c - 1)
    IN Taken(Joined([i \in 1 .. (dkLen + 31) \div 32 |-> block(i)]), dkLen)

-----------------------------------------------------------------------------
\* Words: crypto_scrypt-nosse.c.  A buffer of r is 2r blocks of sixteen words.
blkxor(D, S) == [i \in DOMAIN D |-> Xor(D[i], S[i])] \o <<>>
R(a, b) == RotateLeft(32, a, b)
\* x[i] ^= R(x[j] + x[k], n), with the places of the words from 0.
Stirred(x, i, j, k, n) == [x EXCEPT ![i + 1] = Xor(@, R(Plus(32, x[j + 1], x[k + 1]), n))]
Quarter(x, q) ==
    LET s1st == Stirred(x, q[2], q[1], q[4], 7)
        s2nd == Stirred(s1st, q[3], q[2], q[1], 9)
        s3rd == Stirred(s2nd, q[4], q[3], q[2], 13)
    IN Stirred(s3rd, q[1], q[4], q[3], 18)
Columns == << <<0, 4, 8, 12>>, <<5, 9, 13, 1>>, <<10, 14, 2, 6>>, <<15, 3, 7, 11>> >>
Rows    == << <<0, 1, 2, 3>>, <<5, 6, 7, 4>>, <<10, 11, 8, 9>>, <<15, 12, 13, 14>> >>
RECURSIVE DoubleRounds(_, _)
DoubleRounds(x, more) ==
    IF x = <<>> \/ more = 0 THEN x ELSE DoubleRounds(FoldLeft(Quarter, x, Columns \o Rows), more - 1)
salsa20_8(B) == LET x == DoubleRounds(B, 4) IN [i \in 1 .. 16 |-> Plus(32, B[i], x[i])] \o <<>>

\* Two blocks a turn: the even ones go to the lower half of Bout, the odd ones
\* to the upper.
blockmix_salsa8(Bin, r) ==
    LET turn(a, i) ==
            LET even == salsa20_8(blkxor(a.X, Bin[2 * i - 1]))
                odd  == salsa20_8(blkxor(even, Bin[2 * i]))
            IN [X |-> odd, low |-> Append(a.low, even), high |-> Append(a.high, odd)]
        end == FoldLeft(turn, [X |-> Bin[2 * r], low |-> <<>>, high |-> <<>>], [i \in 1 .. r |-> i])
    IN end.low \o end.high
Xored(X, V) == [k \in DOMAIN X |-> blkxor(X[k], V[k])] \o <<>>
integerify(B, r) == B[2 * r][1] \cup {32 + i : i \in B[2 * r][2]}
Place(j, N) == NumberOf(j \cap BitsOf(N - 1)) + 1

\* stop: another thread sets the flag, so that the look number stop is the
\* first to see it set.  smix answers what is in X and how often it looked.
\* The steps of the first loop fill V; those of the second read it.
RECURSIVE Filling(_, _, _, _, _, _)
Filling(X, V, r, N, looks, stop) ==
    IF X = <<>> \/ Len(V) = N THEN [X |-> X, V |-> V, looks |-> looks, stopped |-> FALSE]
    ELSE LET Y == blockmix_salsa8(X, r)
             next == blockmix_salsa8(Y, r)
         IN IF looks + 1 >= stop THEN [X |-> X, V |-> V, looks |-> looks + 1, stopped |-> TRUE]
            ELSE Filling(next, V \o <<X, Y>>, r, N, looks + 1, stop)
RECURSIVE Reading(_, _, _, _, _, _, _)
Reading(X, V, r, N, i, looks, stop) ==
    IF X = <<>> \/ i = N THEN [X |-> X, looks |-> looks, stopped |-> FALSE]
    ELSE LET Y == blockmix_salsa8(Xored(X, V[Place(integerify(X, r), N)]), r)
             next == blockmix_salsa8(Xored(Y, V[Place(integerify(Y, r), N)]), r)
         IN IF looks + 1 >= stop THEN [X |-> X, looks |-> looks + 1, stopped |-> TRUE]
            ELSE Reading(next, V, r, N, i + 2, looks + 1, stop)
Blocks(words, r) == [k \in 1 .. 2 * r |-> SubSeq(words, 16 * k - 15, 16 * k)] \o <<>>
smix(B, r, N, looks, stop) ==
    LET X == Blocks([k \in 1 .. 32 * r |-> le32dec(SubSeq(B, 4 * k - 3, 4 * k))] \o <<>>, r)
        filled == Filling(X, <<>>, r, N, looks, stop)
        read   == Reading(filled.X, filled.V, r, N, 0, filled.looks, stop)
    IN IF filled.stopped THEN [B |-> B, looks |-> filled.looks]
       ELSE IF read.stopped THEN [B |-> B, looks |-> read.looks]
       ELSE [B |-> Joined([k \in 1 .. 32 * r |-> le32enc(Joined(read.X)[k])]), looks |-> read.looks]

\* N is a word of 64 bits; products of sizes above SIZE_MAX are refused.
SIZE_BITS == 64
Refused(N, r, p) ==
    \/ r * p >= 2^30
    \/ Cardinality(N) # 1
    \/ \E i \in N, j \in BitsOf(r) : i + j >= SIZE_BITS - 7

\* The blocks one after the other, until a look after one sees the flag.
RECURSIVE Parts(_, _, _, _, _, _)
Parts(B, done, r, N, looks, stop) ==
    IF B = <<>> THEN [B |-> done, stopped |-> FALSE]
    ELSE LET s == smix(Taken(B, 128 * r), r, N, looks, stop)
         IN IF s.looks + 1 >= stop THEN [B |-> done, stopped |-> TRUE]
            ELSE Parts(Dropped(B, 128 * r), done \o s.B, r, N, s.looks + 1, stop)
\* failing names the allocation that fails.
crypto_scrypt(passwd, salt, N, r, p, buflen, stop, failing) ==
    LET run == Parts(PBKDF2_SHA256(passwd, salt, 1, p * 128 * r), <<>>, r, NumberOf(N), 0, stop)
    IN IF Refused(N, r, p) \/ failing \in {"B", "XY", "V"} THEN [status |-> -1, buf |-> <<>>]
       ELSE IF run.stopped THEN [status |-> -2, buf |-> <<>>]
       ELSE [status |-> IF failing = "munmap" THEN -1 ELSE 0,
             buf |-> PBKDF2_SHA256(passwd, run.B, 1, buflen)]
=============================================================================
