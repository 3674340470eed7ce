------------------------------- MODULE MCParts -------------------------------
(***************************************************************************)
(* Questions put to the pure parts of the program.  A step has a part      *)
(* answer its question; the properties compare the answer with that of a   *)
(* reference definition.                                                   *)
(***************************************************************************)
EXTENDS Integers, Sequences, FiniteSets, SequencesExt

VARIABLES question,     \* <<part, operation, operands ...>>
          answered      \* the part has answered it
vars == <<question, answered>>

\* libtommath with digits of 4 bits for arithmetic, and of 8 for reductions.
Mp  == INSTANCE MpChecks WITH DIGIT_BIT <- 4, WORD_BIT <- 10, BYTE_BIT <- 4, LONG_BIT <- 20,
            INT_BIT <- 16, KARATSUBA_MUL_CUTOFF <- 2, KARATSUBA_SQR_CUTOFF <- 2,
            TOOM_MUL_CUTOFF <- 3, TOOM_SQR_CUTOFF <- 3, PRIME_SIZE <- 4,
            SQUARE_PRIMES <- {11, 13}
Mp8 == INSTANCE MpChecks WITH DIGIT_BIT <- 8, WORD_BIT <- 18, BYTE_BIT <- 8, LONG_BIT <- 20,
            INT_BIT <- 16, KARATSUBA_MUL_CUTOFF <- 3, KARATSUBA_SQR_CUTOFF <- 3,
            TOOM_MUL_CUTOFF <- 9, TOOM_SQR_CUTOFF <- 9, PRIME_SIZE <- 4,
            SQUARE_PRIMES <- {11, 13, 17}

Numbers == {-16777215, -65536, -4097, -255, -240, -16, -1, 0, 1, 2, 3, 7, 8, 15, 16, 17, 31, 240,
            255, 256, 257, 4095, 4096, 12345, 61440, 65535, 65536, 1044736, 16777215}
Middle == {x \in Numbers : x > -32768 /\ x < 32768}
Short  == {x \in Middle : x >= 0}
Digits == 0 .. 15
Asked(part, fs, as, bs) == {part} \X fs \X as \X bs

MpQuestions ==
    Asked("sum", {"mp_add", "mp_sub", "mp_cmp", "mp_and", "mp_or", "mp_xor"}, Numbers, Numbers)
    \cup Asked("sum", {"mp_add_d", "mp_sub_d", "mp_cmp_d"}, Numbers, Digits)
    \cup Asked("product", {"mp_mul"}, Middle, Middle)
    \cup Asked("product", {"mp_karatsuba_mul"}, Short \ Digits, Short \ Digits)
    \cup Asked("product", {"mp_toom_mul"}, {256, 257, 4095, 4096, 12345}, {256, 4095, 12345})
    \cup Asked("product", {"s_mp_mul"}, {2, 15, 255}, {0, 7, 4095, 1044736, 1048575})
    \cup Asked("product", {"s_mp_mul_digs", "s_mp_mul_high_digs"}, Short, Short)
    \cup Asked("product", {"mp_sqr"}, Middle, {0})
    \cup Asked("product", {"s_mp_sqr", "fast_s_mp_sqr"}, Short, {0})
    \cup Asked("product", {"mp_karatsuba_sqr", "mp_toom_sqr"}, {256, 257, 4095, 4096, 12345}, {0})
    \cup Asked("product", {"mp_mul_d"}, Numbers, Digits)
    \cup Asked("product", {"mp_mul_2"}, Numbers, {0})
    \cup Asked("product", {"mp_mul_2d"}, Numbers, 0 .. 5)
    \cup Asked("quotient", {"mp_div", "mp_mod"}, Numbers, Numbers \ {0})
    \cup Asked("quotient", {"mp_div_d"}, Numbers, 1 .. 15)
    \cup Asked("quotient", {"mp_div_2d", "mp_mod_2d"}, Numbers, {0, 1, 3, 4, 5, 8, 11, 13, 24, 27})
    \cup Asked("quotient", {"mp_div_2", "mp_cnt_lsb", "mp_count_bits"}, Numbers, {0})
    \cup Asked("quotient", {"mp_2expt"}, {0}, 0 .. 24)
    \cup Asked("writing", {"mp_toradix_n"}, Numbers, 3 .. 10)
    \cup Asked("writing", {"mp_toradix", "mp_radix_size", "mp_read_radix"}, Numbers, {2, 3, 7, 10, 14})
    \cup Asked("writing", {"mp_to_unsigned_bin", "mp_read_unsigned_bin", "mp_read_signed_bin",
                           "mp_signed_bin_size", "mp_set_int", "mp_get_int"}, Numbers, {0})

Signed8 == {-4097, -255, -36, -1, 0, 1, 2, 12, 36, 97, 255, 256, 960, 4096, 4097}
Above == {x \in Signed8 : x > 0}
Mp8Questions ==
    Asked("root", {"mp_gcd"}, Signed8, Signed8)
    \cup Asked("root", {"mp_lcm"}, Signed8 \ {0}, Signed8 \ {0})
    \cup {q \in Asked("root", {"mp_invmod"}, Signed8, {2, 3, 12, 97, 255, 256, 4098, 4099}) :
            q[3] % q[4] # 0 /\ (q[3] >= 0 \/ q[4] % 2 = 0)}
    \cup Asked("root", {"mp_exteuclid"}, Signed8, Signed8 \ {0})
    \cup Asked("root", {"mp_jacobi"}, {x \in Signed8 : x >= 0}, {3, 5, 7, 97, 251, 257, 4099})
    \cup Asked("root", {"mp_n_root"}, Signed8, {1, 3, 5})
    \cup Asked("root", {"mp_n_root"}, {x \in Signed8 : x >= 0}, {2, 4})
    \cup Asked("root", {"mp_sqrt", "mp_is_square"},
               {0, 1, 2, 3, 4, 24, 25, 26, 255, 256, 961, 4095, 4096, 4097, 62500, 1000000, 1002001}, {0})


\* Moduli of one digit and of two, odd and even, and of the forms 2^16 - k
\* and 2^p - k.
Moduli(f) ==
    CASE f \in {"mp_mulmod", "mp_sqrmod"} -> {1, 2, 255, 256, 4098, 32749}
      [] f = "mp_reduce"      -> {3, 255, 257, 4098, 32749}
      [] f \in {"fast_montgomery", "slow_montgomery"} -> {3, 97, 251, 4099, 4101, 32749}
      [] f = "mp_dr_reduce"   -> {65281, 65283, 65535}
      [] f = "mp_reduce_2k"   -> {3, 13, 251, 16129, 16146, 16383}
      [] f = "mp_reduce_2k_l" -> {3, 13, 251, 16127, 32767, 65283}
      [] f = "mp_exptmod"     -> {2, 3, 255, 256, 257, 4098, 4101, 16127, 16146, 32749}
      [] f = "dr_exptmod"     -> {65281, 65283}
Exponents(f) ==
    IF f \in {"mp_exptmod", "dr_exptmod"} THEN {0, 1, 2, 7, 61, 182, 999, 4100} ELSE {1, 3, 255, 4100}

Mp8Reductions ==
    UNION {{<<"reduction", f, a, b, m>> : a \in {0, 1, 2, 254, 256, 4097}, b \in Exponents(f),
                                          m \in Moduli(f)} :
             f \in {"mp_mulmod", "mp_sqrmod", "mp_reduce", "fast_montgomery", "slow_montgomery",
                    "mp_dr_reduce", "mp_reduce_2k", "mp_reduce_2k_l", "mp_exptmod", "dr_exptmod"}}

Mp8Primes ==
    Asked("prime", {"mp_prime_is_prime"}, (2 .. 130) \cup {341, 561, 1387, 2047, 4033, 4099, 32749}, {4})
    \cup Asked("prime", {"mp_prime_next_prime"}, (3 .. 30) \cup {120, 250, 510, 4096, 32720}, {0, 1})
    \cup Asked("prime", {"mp_prime_fermat"}, {3, 9, 91, 341, 561, 4099}, {2, 3, 5})
    \cup Asked("prime", {"mp_prime_random"}, {1, 5, 77, 91}, {0, 1})
    \cup Asked("prime", {"mp_prime_trials"}, {1, 127, 128, 200, 512, 600, 1024, 1025, 4096}, {0})


\* trezor-crypto with 3 limbs of 8 bits for moduli of 20 bits: a curve of the
\* form of secp256k1 and one with a = -3, both of prime order.  The digests
\* are stand-ins that mix their input into four bytes of five bits.
Mixed(s, m) == FoldLeft(LAMBDA v, b : (v * 33 + b + 11) % m, 5, s)
Bytes4(v) == <<(v \div 32768) % 32, (v \div 1024) % 32, (v \div 32) % 32, v % 32>>
Mix(s) == Bytes4(Mixed(s, 1048573))
Mac(key, msg) == Bytes4(Mixed(key \o <<7>> \o msg, 1048571))
LongMac(key, msg) == Mac(key, msg) \o Mac(msg, key)
Key == INSTANCE KeyChecks WITH LIMBS <- 3, BITS <- 8, BYTES <- 2, BIP32_CACHE_SIZE <- 2, sha256_Raw <- Mix,
           ripemd160 <- Mix, hmac_sha256 <- Mac, hmac_sha512 <- LongMac, keccak <- Mix
Curves == {[p |-> 1048423, n |-> 1046701, a |-> 0, b |-> 6, g |-> <<1, 50816>>],
           [p |-> 1048423, n |-> 1047961, a |-> -3, b |-> 21, g |-> <<1, 137717>>]}
K1 == CHOOSE c \in Curves : c.a = 0
K1Table == Key!CurveOf(K1)
OtherTable == Key!CurveOf(CHOOSE c \in Curves : c # K1)
Table(c) == IF c = K1 THEN K1Table ELSE OtherTable
Randoms == {<<0, 0, 0>>, <<77, 1000, 7>>, <<255, 511, 1023>>}

Residues == {1, 2, 3, 255, 256, 4660, 65535, 524288, 1048422, 1048424, 1048575, 1048576, 2096845}
KeyNumbers ==
    Asked("number", {"bn_add", "bn_subtract", "bn_subtractmod", "bn_addmod", "bn_multiply", "bn_is_less"},
          Residues \cup {0, 1048423}, Residues \cup {0, 1048423})
    \cup Asked("number", {"bn_fast_mod", "bn_mod", "bn_mult_half", "bn_lshift", "bn_rshift", "bn_sqrt",
                          "bn_divmod58", "bn_divmod1000", "bn_bitcount"}, Residues \cup {0, 1048423}, {0})
    \cup Asked("number", {"bn_inverse", "SlowInverse"}, Residues \cup 2 .. 40, {0})
    \cup Asked("number", {"bn_mult_k", "bn_addi", "bn_subi"}, Residues, 0 .. 4)
    \cup Asked("number", {"read_be", "read_le", "uint64"}, {x \in Residues : x < 1048576}, {0})
    \cup Asked("number", {"uint32"}, 1020 .. 1023, {0})
Scalars(c) == {0, 1, 2, 16, 17, 4660, 524288, c.n - 2, c.n - 1}
KeyPoints ==
    UNION {({"point"} \X {"point_add"} \X Scalars(c) \X Scalars(c) \X {c} \X {<<0, 0, 0>>})
           \cup ({"point"} \X {"point_double"} \X Scalars(c) \X {1} \X {c} \X {<<0, 0, 0>>})
           \cup ({"point"} \X {"point_jacobian_double"} \X (Scalars(c) \ {0}) \X {1} \X {c} \X Randoms)
           \cup {q \in {"point"} \X {"point_jacobian_add"} \X (Scalars(c) \ {0}) \X (Scalars(c) \ {0}) \X {c} \X Randoms :
                    q[3] + q[4] # c.n}
           \cup ({"point"} \X {"point_multiply"} \X Scalars(c) \X {1, 4660, c.n - 1} \X {c} \X {<<77, 1000, 7>>})
           \cup ({"point"} \X {"scalar_multiply"} \X Scalars(c) \X {1} \X {c} \X Randoms) : c \in Curves}

Keys(c)  == {1, 4660, c.n - 1}
\* Multiples of the base point whose abscissa is above the order.
Wrapping == {880, 1205}
Calls == LET call(r, p) == [root |-> r, path |-> p]
         IN {<<call(a, p), call(b, q), call(a, s), call(a, p)>> :
               a \in {5}, b \in {5, 6}, p \in {<<1, 2>>, <<3, 2>>}, q \in {<<1, 2>>, <<1, 3>>, <<>>},
               s \in {<<1, 2>>, <<2, 2>>, <<1, 2, 3>>}}
Fixed == {<<77, 1000, 7>>}
KeyBytes ==
    UNION {({"key"} \X {"sign", "sign_low", "sign_msg", "sign_twice"} \X Keys(c) \X {1, 1048575} \X {c} \X Fixed)
           \cup ({"key"} \X {"sign_k"} \X {1, 4660} \X Wrapping \X {c} \X Fixed)
           \cup ({"key"} \X {"recover"} \X {880, 1500, 2000} \X {77} \X {c} \X Fixed)
           \cup ({"key"} \X {"read"} \X ((0 .. 20) \cup {c.p - 1, c.p, c.p + 1}) \X {0, 1} \X {c} \X Fixed)
           \cup ({"key"} \X {"uncompress", "account", "shared"} \X Keys(c) \X {1, 4660} \X {c} \X Fixed)
           \cup ({"key"} \X {"wif", "address", "address_of_other", "hash"} \X Keys(c) \X {0, 31, 32, 1000, 1024} \X {c} \X Fixed)
           \cup ({"key"} \X {"child", "child_address", "grandchild"} \X Keys(c) \X {0, 1, 77, 511, 512, 600} \X {c} \X Fixed)
           \cup ({"key"} \X {"private_text", "public_text", "seed"} \X Keys(c) \X {0, 1, 1000} \X {c} \X Fixed)
           \cup ({"key"} \X {"xprv"} \X (Keys(c) \cup {0, c.n, c.n + 1}) \X {7} \X {c} \X Fixed) : c \in Curves}
    \cup ({"key"} \X {"cached"} \X Calls \X {0} \X {K1} \X Fixed)
    \cup ({"key"} \X {"der"} \X (Residues \ {2096845, 1048576}) \X (Residues \ {2096845, 1048576}) \X {K1} \X Fixed)
    \cup ({"key"} \X {"base58"} \X {1, 31, 4660, 1048575} \X (0 .. 5) \X {K1} \X Fixed)


\* Digests of messages around the ends of their blocks, cut into updates.
Digest == INSTANCE DigestChecks
DigestQuestions ==
    {"digest"} \X
    (({"sha256"} \X {<<0, 0>>, <<55, 1>>, <<56, 55>>, <<63, 62>>, <<64, 63>>, <<65, 64>>, <<130, 64>>, <<130, 1>>})
     \cup ({"sha512"} \X {<<0, 0>>, <<111, 110>>, <<112, 1>>, <<127, 0>>, <<128, 127>>, <<129, 128>>})
     \cup ({"sha256_Data", "sha512_Data", "sha256_Transform", "sha512_Transform", "abc"} \X {<<3, 0>>})
     \cup ({"ripemd160"} \X {<<0, 0>>, <<3, 1>>, <<55, 54>>, <<56, 1>>, <<64, 63>>, <<120, 60>>, <<130, 1>>})
     \cup ({"hmac256", "hmac_sha256"} \X {<<3, 20>>, <<60, 64>>, <<1, 65>>})
     \cup ({"hmac512", "hmac_sha512"} \X {<<3, 20>>, <<1, 128>>, <<1, 129>>})
     \cup ({"pbkdf2_256", "pbkdf2_512"} \X {<<1, 8>>, <<3, 70>>})
     \cup ({"sha3_256", "keccak_256"} \X {<<0, 0>>, <<134, 1>>, <<135, 134>>, <<136, 135>>, <<275, 1>>})
     \cup ({"sha3_224", "sha3_384", "sha3_512"} \X {<<71, 0>>, <<144, 5>>}))

\* The cipher and its modes, in three calls each.
Cipher == INSTANCE AesChecks
Cut(f, ns) == {f} \X {128, 256} \X ns
CipherQuestions ==
    {"cipher"} \X
    ({<<"tables", 128, <<0, 0>>>>, <<"known", 128, <<0, 0>>>>, <<"refused", 128, <<15, 0>>>>}
     \cup ({"key", "reversed"} \X {128, 192, 256} \X {<<0, 0>>})
     \cup Cut("aligned", {4, 8, 16} \X (0 .. 3))
     \cup Cut("ecb", {<<32, 0>>}) \cup Cut("cbc", {<<48, 0>>})
     \cup Cut("ecb_decrypt", {<<32, 0>>}) \cup Cut("cbc_decrypt", {<<48, 0>>})
     \cup Cut("cfb", {5, 16, 50} \X {0, 3}) \cup Cut("cfb", {<<50, 20>>, <<33, 32>>})
     \cup Cut("cfb_decrypt", {<<50, 3>>, <<50, 20>>, <<33, 15>>})
     \cup Cut("ofb", {<<5, 3>>, <<50, 3>>, <<50, 20>>, <<33, 15>>, <<48, 16>>})
     \cup Cut("ctr", {<<5, 3>>, <<50, 3>>, <<50, 20>>, <<33, 15>>, <<48, 15>>, <<48, 16>>, <<20, 0>>, <<300, 3>>}))

\* The three builds of scrypt; nosse also stopped at each of its looks.
Builds == {"nosse", "ref", "sse"}
Scrypts(f, builds, Ns, rs, ps, stops, failing) ==
    {"scrypt"} \X ({f} \X builds \X Ns \X rs \X ps \X stops \X failing)
Never == 1000
ScryptQuestions ==
    Scrypts("vector", Builds, {2}, {1}, {1}, {Never}, {"none"})
    \cup Scrypts("blockmix", Builds, {2}, {1, 2, 3}, {1}, {Never}, {"none"})
    \cup Scrypts("smix", Builds, {2, 4, 8}, {1}, {1}, {Never}, {"none"})
    \cup Scrypts("smix", Builds, {2}, {2}, {1}, {Never}, {"none"})
    \cup Scrypts("smix", {"nosse"}, {4}, {1}, {1}, 1 .. 5, {"none"})
    \cup Scrypts("pbkdf2", {"nosse"}, {1}, {0, 52}, {3, 65}, {Never}, {"none"})
    \cup Scrypts("pbkdf2", {"nosse"}, {3}, {51}, {64}, {Never}, {"none"})
    \cup Scrypts("words", {"nosse"}, {2}, {1}, {1}, {Never}, {"none"})
    \cup Scrypts("whole", Builds, {2}, {1}, {1}, {Never}, {"none", "B", "XY", "V"})
    \cup Scrypts("whole", {"nosse"}, {2}, {1}, {1}, {Never}, {"munmap"})
    \cup Scrypts("whole", Builds, {0, 3, 6}, {1}, {1}, {Never}, {"none"})
    \cup Scrypts("whole", {"nosse"}, {2}, {1}, {2}, {1, 3, 6, 7}, {"none"})
    \cup Scrypts("whole", Builds, {2}, {32768}, {32767, 32768}, {Never}, {"B"})
    \cup Scrypts("size", {"nosse"}, {30, 41, 56, 63}, {1, 2, 32768, 65536, 131072}, {1, 8192, 16383}, {Never}, {"none"})

-----------------------------------------------------------------------------
Init == /\ question \in MpQuestions \cup Mp8Questions \cup Mp8Reductions \cup Mp8Primes
                     \cup KeyNumbers \cup KeyPoints \cup KeyBytes
                     \cup DigestQuestions \cup CipherQuestions \cup ScryptQuestions
        /\ answered = FALSE

Answer(parts) == ~answered /\ question[1] \in parts /\ answered' = TRUE /\ UNCHANGED question

MpParts  == {"sum", "product", "quotient", "writing"}
Mp8Parts == {"root", "reduction", "prime"}
MpAnswers  == Answer(MpParts)
Mp8Answers == Answer(Mp8Parts)
KeyAnswers == Answer({"number", "point", "key"})
CryptoAnswers == Answer({"digest", "cipher", "scrypt"})
Next == MpAnswers \/ Mp8Answers \/ KeyAnswers \/ CryptoAnswers
Spec == Init /\ [][Next]_vars

\* Every operation on big numbers answers as the integers do, in normal form,
\* whichever way libtommath takes: by columns, Karatsuba, Toom-Cook, Barrett,
\* Montgomery or a special modulus.  Left out, and wrong: the inverse of a
\* negative number by an odd modulus, where mp_invmod answers -1/a, not the
\* 1/a of mpi.c:72-75.
MpRight == [][/\ question[1] \in MpParts  => Mp!Right(question, Mp!Answer(question))
              /\ question[1] \in Mp8Parts => Mp8!Right(question, Mp8!Answer(question))]_vars

\* Numbers in limbs, points and keys come out as the integers and the group of
\* the curve have them.
KeyRight ==
    [][LET f == question[2]  x == question[3]  y == question[4]  c == question[5]
       IN /\ question[1] = "number" => Key!NumberRight(f, x, y, K1, Key!Number(f, x, y, K1))
          /\ question[1] = "point" =>
                \E t \in {Table(c)} : Key!CurveRight(f, x, y, c, Key!Curve(f, x, y, c, t, question[6]))
          /\ question[1] = "key" =>
                \E t \in {Table(c)} :
                   \E answer \in {Key!KeyAnswer(f, x, y, t, question[6])} :
                      Key!KeyAnswerRight(f, x, y, c, t, question[6], answer)
      ]_vars

\* The digests are those of the standards, however a message is cut; the cipher
\* and its modes too, and they undo what they did; the builds of scrypt agree.
\* The build the wallet has, nosse, answers -2 (crypto_scrypt.h:41) whenever it
\* was stopped and never else; nothing is said of the others, of which ref
\* answers -1 when stopped and sse never looks at the flag.
CryptoRight ==
    [][LET f == question[2][1]  x == question[2][2]  y == question[2][3]
       IN /\ question[1] = "digest" =>
                \E answer \in {Digest!Answer(f, x[1], x[2])} : Digest!Right(f, x[1], x[2], answer)
          /\ question[1] = "cipher" =>
                \E answer \in {Cipher!Answer(f, x, y[1], y[2])} : Cipher!Right(f, x, y[1], y[2], answer)
          /\ question[1] = "scrypt" =>
                LET q == question[2]
                IN \E answer \in {Digest!AnswerOf(q[1], q[2], q[3], q[4], q[5], q[6], q[7])} :
                      Digest!ScryptRight(q[1], q[2], q[3], q[4], q[5], q[6], q[7], answer)
      ]_vars
=============================================================================
