----------------------------- MODULE DigestChecks -----------------------------
(***************************************************************************)
(* What the digests of trezor-crypto promise: the functions of FIPS 180-4, *)
(* FIPS 202, RIPEMD-160, RFC 2104 and RFC 8018, however the message is cut *)
(* into updates.  The references pad the whole message and write out the   *)
(* schedule; only the tables of SHA-2 are shared, which known answers test.*)
(***************************************************************************)
EXTENDS Hmac

S3  == INSTANCE Sha3
Rmd == INSTANCE Ripemd160

Message(n) == [i \in 1 .. n |-> (37 * i + 11) % 256] \o <<>>
\* Three updates: up to the cut, one byte, and the rest.
Chunks(msg, cut) ==
    <<Taken(msg, cut), IF cut < Len(msg) THEN <<msg[cut + 1]>> ELSE <<>>, Dropped(msg, cut + 1)>>
ABC == <<97, 98, 99>>

-----------------------------------------------------------------------------
\* SHA-2.
RefPadded(f, msg) ==
    LET block == f.block  tail == f.width \div 4
        used == (Len(msg) + 1 + tail) % block
    IN msg \o <<128>> \o Zeros(((block - used) % block) + tail - 4)
           \o BigBytes(32, BitsOf(8 * Len(msg)))
RefSchedule(f, words) ==
    FoldLeft(LAMBDA W, j :
                Append(W, Added(f, <<Lower(f, f.sigma1, W[j - 2]), W[j - 7], Lower(f, f.sigma0, W[j - 15]), W[j - 16]>>)),
             words, [i \in 1 .. f.rounds - 16 |-> i + 16])
RECURSIVE RefRounds(_, _, _, _)
RefRounds(f, W, r, j) ==
    IF r = <<>> \/ j > f.rounds THEN r
    ELSE LET t1 == Added(f, <<r[8], Upper(f, f.Sigma1, r[5]), (r[5] \cap r[6]) \cup (r[7] \ r[5]),
                              WordIn(K512, f.width, j - 1), W[j]>>)
             t2 == Added(f, <<Upper(f, f.Sigma0, r[1]), {i \in 0 .. f.width - 1 :
                                 Cardinality({k \in 1 .. 3 : i \in r[k]}) > 1}>>)
         IN RefRounds(f, W, <<Plus(f.width, t1, t2)>> \o SubSeq([r EXCEPT ![4] = Plus(f.width, @, t1)], 1, 7), j + 1)
RefSha2(f, msg) ==
    LET block(H, bytes) == LET end == RefRounds(f, RefSchedule(f, BigWords(f.width, bytes)), H, 1)
                           IN [i \in 1 .. 8 |-> Plus(f.width, H[i], end[i])] \o <<>>
    IN FoldLeft(LAMBDA s, a : s \o BigBytes(f.width, a), <<>>,
                FoldLeft(block, InitialHash(f.width), Pieces(RefPadded(f, msg), f.block)))

\* HMAC and PBKDF2.
RefHmac(f, key, msg) ==
    LET short == IF Len(key) > f.block THEN RefSha2(f, key) ELSE key
        block == short \o Zeros(f.block - Len(short))
    IN RefSha2(f, XorBytes(block, [i \in 1 .. f.block |-> 92])
                  \o RefSha2(f, XorBytes(block, [i \in 1 .. f.block |-> 54]) \o msg))
RECURSIVE RefPbkdf2(_, _, _, _, _)
RefPbkdf2(f, pass, u, sum, more) ==
    IF sum = <<>> \/ more = 0 THEN sum
    ELSE LET next == RefHmac(f, pass, u) IN RefPbkdf2(f, pass, next, XorBytes(sum, next), more - 1)

-----------------------------------------------------------------------------
\* Keccak: the places <<x, y>> the lanes walk through, and the constants that
\* a register of eight bits gives.
RECURSIVE RefWalkFrom(_)
RefWalkFrom(s) ==
    IF Len(s) = 24 THEN s
    ELSE RefWalkFrom(Append(s, <<Last(s)[2], (2 * Last(s)[1] + 3 * Last(s)[2]) % 5>>))
RefWalk == RefWalkFrom(<<<<1, 0>>>>)
RefOffset(place) ==
    IF place = <<0, 0>> THEN 0
    ELSE LET t == CHOOSE k \in 1 .. 24 : RefWalk[k] = place IN ((t * (t + 1)) \div 2) % 64
RefShifted(r) == IF 7 \in r THEN Xor(ShiftLeft(8, r, 1), {0, 4, 5, 6}) ELSE ShiftLeft(8, r, 1)
RECURSIVE RefRegisterFrom(_)
RefRegisterFrom(s) == IF Len(s) = 168 THEN s ELSE RefRegisterFrom(Append(s, RefShifted(Last(s))))
RefRegister == RefRegisterFrom(<<{0}>>)
RefConstants ==
    [round \in 1 .. 24 |-> {2^j - 1 : j \in {k \in 0 .. 6 : 0 \in RefRegister[k + 7 * (round - 1) + 1]}}] \o <<>>
RefStepped(A, constant) ==
    LET at(x, y) == A[x + 5 * y + 1]
        C(x) == XorAll([i \in 1 .. 5 |-> at(x, i - 1)])
        columns == [i \in 1 .. 5 |-> C(i - 1)] \o <<>>
        theta(x, y) == XorAll(<<at(x, y), columns[((x + 4) % 5) + 1], RotateLeft(64, columns[((x + 1) % 5) + 1], 1)>>)
        \* <<x, y>> receives the lane of <<x + 3 y, x>>.
        B == [i \in 1 .. 25 |-> LET u == (i - 1) % 5  v == (i - 1) \div 5  from == <<(u + 3 * v) % 5, u>>
                                IN RotateLeft(64, theta(from[1], from[2]), RefOffset(from))] \o <<>>
        b(x, y) == B[(x % 5) + 5 * y + 1]
        chi(i) == LET x == (i - 1) % 5  y == (i - 1) \div 5 IN Xor(b(x, y), b(x + 2, y) \ b(x + 1, y))
    IN [i \in 1 .. 25 |-> IF i = 1 THEN Xor(chi(1), constant) ELSE chi(i)] \o <<>>
RECURSIVE RefPermuted(_, _)
RefPermuted(A, constants) ==
    IF A = <<>> \/ constants = <<>> THEN A ELSE RefPermuted(RefStepped(A, Head(constants)), Tail(constants))
RefKeccak(bits, mark, msg) ==
    LET rate == 200 - bits \div 4
        free == rate - (Len(msg) % rate)
        pad == IF free = 1 THEN <<mark + 128>> ELSE <<mark>> \o Zeros(free - 2) \o <<128>>
        absorb(A, block) == LET words == LittleWords(64, block)
                            IN RefPermuted([i \in 1 .. 25 |-> IF i <= Len(words) THEN Xor(A[i], words[i]) ELSE A[i]]
                                             \o <<>>, RefConstants)
        end == FoldLeft(absorb, [i \in 1 .. 25 |-> {}] \o <<>>, Pieces(msg \o pad, rate))
    IN Taken(FoldLeft(LAMBDA s, a : s \o LittleBytes(64, a), <<>>, end), bits \div 8)

-----------------------------------------------------------------------------
\* RIPEMD-160: the words by the permutations rho and 9 i + 5, the turns by the
\* word they go with.
RefRho == <<7, 4, 13, 1, 10, 6, 15, 3, 12, 0, 9, 5, 2, 14, 11, 8>>
RECURSIVE RefWord(_, _, _)
RefWord(line, round, i) ==
    IF round > 0 THEN RefRho[RefWord(line, round - 1, i) + 1] ELSE IF line = 1 THEN i ELSE (9 * i + 5) % 16
RefTurns == << <<11, 14, 15, 12, 5, 8, 7, 9, 11, 13, 14, 15, 6, 7, 9, 8>>,
               <<12, 13, 11, 15, 6, 9, 9, 7, 12, 15, 11, 13, 7, 8, 7, 7>>,
               <<13, 15, 14, 11, 7, 7, 6, 8, 13, 14, 13, 12, 5, 5, 6, 9>>,
               <<14, 11, 12, 14, 8, 6, 5, 5, 15, 12, 15, 14, 9, 9, 8, 6>>,
               <<15, 12, 13, 13, 9, 5, 8, 6, 14, 11, 12, 11, 8, 6, 5, 5>> >>
RefF(n, x, y, z) ==
    CASE n = 0 -> XorAll(<<x, y, z>>)
      [] n = 1 -> {i \in 0 .. 31 : IF i \in x THEN i \in y ELSE i \in z}
      [] n = 2 -> {i \in 0 .. 31 : (i \in x \/ i \notin y) # (i \in z)}
      [] n = 3 -> {i \in 0 .. 31 : IF i \in z THEN i \in x ELSE i \in y}
      [] n = 4 -> {i \in 0 .. 31 : (i \in x) # (i \in y \/ i \notin z)}
RECURSIVE RefLine(_, _, _, _)
RefLine(line, X, r, j) ==
    IF r = <<>> \/ j = 80 THEN r
    ELSE LET round == j \div 16
             word == RefWord(line, round, j % 16)
             sum == Sum(32, <<r[1], RefF(IF line = 1 THEN round ELSE 4 - round, r[2], r[3], r[4]), X[word + 1],
                              Rmd!K[line][round + 1]>>)
         IN RefLine(line, X, <<r[5], Plus(32, RotateLeft(32, sum, RefTurns[round + 1][word + 1]), r[5]),
                               r[2], RotateLeft(32, r[3], 10), r[4]>>, j + 1)
RefRipemd(msg) ==
    LET used == (Len(msg) + 9) % 64
        padded == msg \o <<128>> \o Zeros((64 - used) % 64) \o LittleBytes(64, BitsOf(8 * Len(msg)))
        block(h, bytes) ==
            LET X == LittleWords(32, bytes)
                l == RefLine(1, X, h, 0)
                r == RefLine(2, X, h, 0)
            IN <<Sum(32, <<h[2], l[3], r[4]>>), Sum(32, <<h[3], l[4], r[5]>>), Sum(32, <<h[4], l[5], r[1]>>),
                 Sum(32, <<h[5], l[1], r[2]>>), Sum(32, <<h[1], l[2], r[3]>>)>>
    IN FoldLeft(LAMBDA s, a : s \o LittleBytes(32, a), <<>>,
                FoldLeft(block, Rmd!ripemd160_Init.state, Pieces(padded, 64)))

-----------------------------------------------------------------------------
\* What a question f about a message of n bytes cut at place cut, or a key of
\* cut bytes, is answered.
Sponge(bits) == CASE bits = 224 -> S3!sha3_224_Init [] bits = 256 -> S3!sha3_256_Init
                  [] bits = 384 -> S3!sha3_384_Init [] bits = 512 -> S3!sha3_512_Init
SpongeBits(f) == CASE f = "sha3_224" -> 224 [] f \in {"sha3_256", "keccak_256"} -> 256
                   [] f = "sha3_384" -> 384 [] f = "sha3_512" -> 512
Answer(f, n, cut) ==
    LET msg == Message(n)  key == Message(cut)  chunks == Chunks(msg, cut)
    IN CASE f = "sha256" -> sha256_Final(FoldLeft(sha256_Update, sha256_Init, chunks))
         [] f = "sha512" -> sha512_Final(FoldLeft(sha512_Update, sha512_Init, chunks))
         [] f = "sha256_Data" -> sha256_Data(msg)
         [] f = "sha512_Data" -> sha512_Data(msg)
         [] f = "sha256_Transform" -> sha256_Transform(sha256_initial_hash_value, BigWords(32, Message(64)))
         [] f = "sha512_Transform" -> sha512_Transform(InitialHash(64), BigWords(64, Message(128)))
         [] f = "hmac256" -> hmac_sha256_Final(FoldLeft(hmac_sha256_Update, hmac_sha256_Init(key), Chunks(msg, n \div 2)))
         [] f = "hmac512" -> hmac_sha512_Final(FoldLeft(hmac_sha512_Update, hmac_sha512_Init(key), Chunks(msg, n \div 2)))
         [] f = "hmac_sha256" -> hmac_sha256(key, msg)
         [] f = "hmac_sha512" -> hmac_sha512(key, msg)
         [] f = "pbkdf2_256" -> pbkdf2_hmac_sha256(ABC, key, n)
         [] f = "pbkdf2_512" -> pbkdf2_hmac_sha512(ABC, key, n)
         [] f = "ripemd160" -> Rmd!ripemd160_Final(FoldLeft(Rmd!ripemd160_Update, Rmd!ripemd160_Init, chunks))
         [] f \in {"sha3_224", "sha3_256", "sha3_384", "sha3_512", "keccak_256"} ->
              LET fed == FoldLeft(LAMBDA c, m : S3!sha3_Update(c, m, n % 2 = 0), Sponge(SpongeBits(f)), chunks)
                  end == IF f = "keccak_256" THEN S3!keccak_Final(fed) ELSE S3!sha3_Final(fed)
              \* Once finished, an update and another end change nothing.
              IN IF n % 2 = 1 THEN end.result ELSE S3!sha3_Final(S3!sha3_Update(end.ctx, ABC, TRUE)).result
         [] f = "abc" ->
              <<Taken(sha256_Raw(ABC), 4), Taken(sha512_Raw(ABC), 4), Taken(Rmd!ripemd160(ABC), 4)>>
Right(f, n, cut, answer) ==
    LET msg == Message(n)  key == Message(cut)
    IN CASE f = "sha256" -> answer = RefSha2(Form256, msg)
         [] f = "sha512" -> answer = RefSha2(Form512, msg)
         [] f = "sha256_Data" -> answer = HexDigits(RefSha2(Form256, msg))
         [] f = "sha512_Data" -> answer = HexDigits(RefSha2(Form512, msg))
         [] f = "sha256_Transform" -> answer = sha256_TransformUnrolled(sha256_initial_hash_value, BigWords(32, Message(64)))
         [] f = "sha512_Transform" -> answer = sha512_TransformUnrolled(InitialHash(64), BigWords(64, Message(128)))
         [] f \in {"hmac256", "hmac_sha256"} -> answer = RefHmac(Form256, key, msg)
         [] f \in {"hmac512", "hmac_sha512"} -> answer = RefHmac(Form512, key, msg)
         [] f = "pbkdf2_256" ->
              \E u \in {RefHmac(Form256, ABC, key \o <<0, 0, 0, 1>>)} : answer = RefPbkdf2(Form256, ABC, u, u, n - 1)
         [] f = "pbkdf2_512" ->
              \E u \in {RefHmac(Form512, ABC, key \o <<0, 0, 0, 1>>)} : answer = RefPbkdf2(Form512, ABC, u, u, n - 1)
         [] f = "ripemd160" -> answer = RefRipemd(msg)
         [] f \in {"sha3_224", "sha3_256", "sha3_384", "sha3_512"} -> answer = RefKeccak(SpongeBits(f), 6, msg)
         [] f = "keccak_256" -> answer = RefKeccak(256, 1, msg)
         [] f = "abc" -> answer = <<<<186, 120, 22, 191>>, <<221, 175, 53, 161>>, <<142, 178, 8, 247>>>>

-----------------------------------------------------------------------------
\* What the three builds of scrypt promise: the function of RFC 7914, from its
\* own definitions of Salsa20/8, BlockMix and ROMix, and an answer of its own
\* when the flag was set before the last look at it.
Nosse == INSTANCE Scrypt
Bytes == INSTANCE ScryptRef
Sse   == INSTANCE ScryptSse

\* A block is the square of its words, one row after the other.
RefQuarter(y) ==
    LET turned(a, b, c, n) == Xor(a, RotateLeft(32, Plus(32, b, c), n))
        z1 == turned(y[2], y[1], y[4], 7)
        z2 == turned(y[3], z1, y[1], 9)
        z3 == turned(y[4], z2, z1, 13)
    IN <<turned(y[1], z3, z2, 18), z1, z2, z3>>
RefTransposed(m) == [i \in 1 .. 16 |-> m[4 * ((i - 1) % 4) + ((i - 1) \div 4) + 1]] \o <<>>
\* Row k is turned left by k, given its quarter round, and turned back.
RefRowRound(m) ==
    LET row(k) == RefQuarter([l \in 1 .. 4 |-> m[4 * k + ((l - 1 + k) % 4) + 1]])
        rows == [k \in 1 .. 4 |-> row(k - 1)] \o <<>>
    IN [i \in 1 .. 16 |-> LET k == (i - 1) \div 4 IN rows[k + 1][((i - 1 - k) % 4) + 1]] \o <<>>
RefDoubleRound(m) == RefRowRound(RefTransposed(RefRowRound(RefTransposed(m))))
RECURSIVE RefRepeated(_, _)
RefRepeated(m, k) == IF m = <<>> \/ k = 0 THEN m ELSE RefRepeated(RefDoubleRound(m), k - 1)
RefSalsa(B) == LET x == RefRepeated(B, 4) IN [i \in 1 .. 16 |-> Plus(32, B[i], x[i])] \o <<>>

RECURSIVE RefChain(_, _, _)
RefChain(X, blocks, Y) ==
    IF X = <<>> \/ blocks = <<>> THEN Y
    ELSE LET T == RefSalsa([i \in 1 .. 16 |-> Xor(X[i], Head(blocks)[i])] \o <<>>)
         IN RefChain(T, Tail(blocks), Append(Y, T))
RefBlockMix(B) ==
    LET Y == RefChain(Last(B), B, <<>>)
        half(odd) == SelectSeq([i \in DOMAIN Y |-> IF i % 2 = odd THEN Y[i] ELSE <<>>], LAMBDA y : y # <<>>)
    IN half(1) \o half(0)
RefStep(a, N, mixing) ==
    LET j == NumberOf(Last(a.X)[1] \cap 0 .. 30) % N
        from == IF mixing THEN [k \in DOMAIN a.X |-> [i \in 1 .. 16 |-> Xor(a.X[k][i], a.V[j + 1][k][i])] \o <<>>] \o <<>>
                ELSE a.X
    IN [X |-> RefBlockMix(from), V |-> IF mixing THEN a.V ELSE Append(a.V, a.X)]
RECURSIVE RefRomix(_, _, _)
RefRomix(a, N, step) ==
    IF a.X = <<>> \/ step = 2 * N THEN a.X ELSE RefRomix(RefStep(a, N, step >= N), N, step + 1)
RefMixed(bytes, N) ==
    FoldLeft(LAMBDA s, word : s \o LittleBytes(32, word), <<>>,
             FoldLeft(LAMBDA s, b : s \o b, <<>>,
                      RefRomix([X |-> Pieces(LittleWords(32, bytes), 16), V |-> <<>>], N, 0)))
RefPbkdf2Of(pass, salt, c, n) ==
    LET block(i) == LET u == RefHmac(Form256, pass, salt \o <<0, 0, 0, i>>) IN RefPbkdf2(Form256, pass, u, u, c - 1)
    IN Taken(FoldLeft(LAMBDA s, i : s \o block(i), <<>>, [i \in 1 .. (n + 31) \div 32 |-> i]), n)
RefScrypt(pass, salt, N, r, p, n) ==
    LET B == Pieces(RefPbkdf2Of(pass, salt, 1, 128 * r * p), 128 * r)
    IN RefPbkdf2Of(pass, FoldLeft(LAMBDA s, b : s \o RefMixed(b, N), <<>>, B), 1, n)

-----------------------------------------------------------------------------
\* How often smix looks at the flag: nosse at each pair of steps, ref at each
\* step, sse never.  In nosse crypto_scrypt adds a look after each block.
SmixLooks(build, N) == CASE build = "nosse" -> N [] build = "ref" -> 2 * N [] build = "sse" -> 0
Looks(N, p) == p * (N + 1)

Salt == <<83, 97>>
Vector == << \h7e, \h87, \h9a, \h21, \h4f, \h3e, \hc9, \h86, \h7c, \ha9, \h40, \he6, \h41, \h71, \h8f, \h26,
             \hba, \hee, \h55, \h5b, \h8c, \h61, \hc1, \hb5, \h0d, \hf8, \h46, \h11, \h6d, \hcd, \h3b, \h1d,
             \hee, \h24, \hf3, \h19, \hdf, \h9b, \h3d, \h85, \h14, \h12, \h1e, \h4b, \h5a, \hc5, \haa, \h32,
             \h76, \h02, \h1d, \h29, \h09, \hc7, \h48, \h29, \hed, \heb, \hc6, \h8d, \hb8, \hb8, \hc2, \h5e >>
AnswerOf(f, build, N, r, p, stop, failing) ==
    LET bytes == Message(128 * r)
        blocks == Pieces(LittleWords(32, bytes), 16)
    IN CASE f = "vector" /\ build = "nosse" -> Nosse!Joined([i \in 1 .. 16 |-> LittleBytes(32, Nosse!salsa20_8(LittleWords(32, Vector))[i])])
         [] f = "vector" /\ build = "ref" -> Bytes!salsa20_8(Vector)
         [] f = "vector" /\ build = "sse" -> Sse!Unstored(Sse!salsa20_8(Sse!Stored(Vector)))
         [] f = "blockmix" /\ build = "nosse" -> Nosse!blockmix_salsa8(blocks, r)
         [] f = "blockmix" /\ build = "ref" ->
              LET Y == Bytes!blockmix_salsa8(Pieces(bytes, 64), r) IN [k \in DOMAIN Y |-> LittleWords(32, Y[k])] \o <<>>
         [] f = "blockmix" /\ build = "sse" ->
              LET X == Pieces(bytes, 64)
                  Y == Sse!blockmix_salsa8([k \in DOMAIN X |-> Sse!Stored(X[k])] \o <<>>, r)
              IN [k \in DOMAIN Y |-> LittleWords(32, Sse!Unstored(Y[k]))] \o <<>>
         [] f = "smix" /\ build = "nosse" -> Nosse!smix(bytes, r, N, 0, stop)
         [] f = "smix" /\ build = "ref" -> Bytes!smix(bytes, r, N, 0, stop)
         [] f = "smix" /\ build = "sse" -> [B |-> Sse!smix(bytes, r, N), looks |-> 0]
         [] f = "pbkdf2" -> Nosse!PBKDF2_SHA256(Message(p), Message(r), N, 40)
         [] f = "words" -> <<Nosse!be64enc(Nosse!le64dec(Message(8))), Nosse!le64enc(Nosse!be64dec(Message(8))), Nosse!be32enc(Nosse!le32dec(Message(4)))>>
         [] f = "whole" /\ build = "nosse" -> Nosse!crypto_scrypt(ABC, Salt, BitsOf(N), r, p, 40, stop, failing)
         [] f = "whole" /\ build = "ref" -> Bytes!crypto_scrypt(ABC, Salt, BitsOf(N), r, p, 40, stop, failing)
         [] f = "whole" /\ build = "sse" -> Sse!crypto_scrypt(ABC, Salt, BitsOf(N), r, p, 40, failing)
         \* N is a large power of two: the sizes cannot be had.
         [] f = "size" -> Nosse!Refused({N}, r, p)
ScryptRight(f, build, N, r, p, stop, failing, answer) ==
    LET stopped == stop <= Looks(N, p)
    IN CASE f = "vector" ->
              /\ LittleWords(32, answer) = RefSalsa(LittleWords(32, Vector))
              /\ Taken(answer, 4) = <<\ha4, \h1f, \h85, \h9c>>
         [] f = "blockmix" -> answer = RefBlockMix(Pieces(LittleWords(32, Message(128 * r)), 16))
         [] f = "smix" /\ stop > N ->
              answer = [B |-> RefMixed(Message(128 * r), N), looks |-> SmixLooks(build, N)]
         \* A stop is asked of nosse alone, the build the wallet has.
         [] f = "smix" /\ build = "nosse" /\ stop <= N ->
              answer = [B |-> Message(128 * r), looks |-> stop]
         [] f = "pbkdf2" -> answer = RefPbkdf2Of(Message(p), Message(r), N, 40)
         [] f = "words" -> answer = <<Reverse(Message(8)), Reverse(Message(8)), Reverse(Message(4))>>
         [] f = "whole" /\ failing = "none" /\ ~stopped /\ N \in {2, 4, 8} ->
              answer.status = 0 /\ answer.buf = RefScrypt(ABC, Salt, N, r, p, 40)
         [] f = "whole" /\ build = "nosse" /\ failing = "none" /\ stopped /\ N \in {2, 4, 8} ->
              answer = [status |-> -2, buf |-> <<>>]
         [] f = "whole" /\ (failing # "none" \/ N \notin {2, 4, 8}) -> answer.status = -1
         \* 128 r 2^N bytes, or 2^30 blocks, are too many.
         [] f = "size" -> answer <=> \/ r * p >= 1073741824
                                     \/ N >= 57 \/ r >= 2^(57 - N)
=============================================================================
