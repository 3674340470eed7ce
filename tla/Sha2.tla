--------------------------------- MODULE Sha2 ---------------------------------
(***************************************************************************)
(* sha2.c of trezor-crypto: SHA-256 and SHA-512, which differ in the width *)
(* of their words.  A form holds what they differ in; a context the state, *)
(* the count of bits and the buffer, whose stale bytes stay where they are.*)
(***************************************************************************)
EXTENDS Words

\* The words of the tables in parts of sixteen bits; those of SHA-256 are the
\* upper halves of those of SHA-512.
sha512_initial_hash_value == <<
  \h6a09, \he667, \hf3bc, \hc908, \hbb67, \hae85, \h84ca, \ha73b, \h3c6e, \hf372, \hfe94, \hf82b, \ha54f, \hf53a, \h5f1d, \h36f1,
  \h510e, \h527f, \hade6, \h82d1, \h9b05, \h688c, \h2b3e, \h6c1f, \h1f83, \hd9ab, \hfb41, \hbd6b, \h5be0, \hcd19, \h137e, \h2179 >>
K512 == <<
  \h428a, \h2f98, \hd728, \hae22, \h7137, \h4491, \h23ef, \h65cd, \hb5c0, \hfbcf, \hec4d, \h3b2f, \he9b5, \hdba5, \h8189, \hdbbc,
  \h3956, \hc25b, \hf348, \hb538, \h59f1, \h11f1, \hb605, \hd019, \h923f, \h82a4, \haf19, \h4f9b, \hab1c, \h5ed5, \hda6d, \h8118,
  \hd807, \haa98, \ha303, \h0242, \h1283, \h5b01, \h4570, \h6fbe, \h2431, \h85be, \h4ee4, \hb28c, \h550c, \h7dc3, \hd5ff, \hb4e2,
  \h72be, \h5d74, \hf27b, \h896f, \h80de, \hb1fe, \h3b16, \h96b1, \h9bdc, \h06a7, \h25c7, \h1235, \hc19b, \hf174, \hcf69, \h2694,
  \he49b, \h69c1, \h9ef1, \h4ad2, \hefbe, \h4786, \h384f, \h25e3, \h0fc1, \h9dc6, \h8b8c, \hd5b5, \h240c, \ha1cc, \h77ac, \h9c65,
  \h2de9, \h2c6f, \h592b, \h0275, \h4a74, \h84aa, \h6ea6, \he483, \h5cb0, \ha9dc, \hbd41, \hfbd4, \h76f9, \h88da, \h8311, \h53b5,
  \h983e, \h5152, \hee66, \hdfab, \ha831, \hc66d, \h2db4, \h3210, \hb003, \h27c8, \h98fb, \h213f, \hbf59, \h7fc7, \hbeef, \h0ee4,
  \hc6e0, \h0bf3, \h3da8, \h8fc2, \hd5a7, \h9147, \h930a, \ha725, \h06ca, \h6351, \he003, \h826f, \h1429, \h2967, \h0a0e, \h6e70,
  \h27b7, \h0a85, \h46d2, \h2ffc, \h2e1b, \h2138, \h5c26, \hc926, \h4d2c, \h6dfc, \h5ac4, \h2aed, \h5338, \h0d13, \h9d95, \hb3df,
  \h650a, \h7354, \h8baf, \h63de, \h766a, \h0abb, \h3c77, \hb2a8, \h81c2, \hc92e, \h47ed, \haee6, \h9272, \h2c85, \h1482, \h353b,
  \ha2bf, \he8a1, \h4cf1, \h0364, \ha81a, \h664b, \hbc42, \h3001, \hc24b, \h8b70, \hd0f8, \h9791, \hc76c, \h51a3, \h0654, \hbe30,
  \hd192, \he819, \hd6ef, \h5218, \hd699, \h0624, \h5565, \ha910, \hf40e, \h3585, \h5771, \h202a, \h106a, \ha070, \h32bb, \hd1b8,
  \h19a4, \hc116, \hb8d2, \hd0c8, \h1e37, \h6c08, \h5141, \hab53, \h2748, \h774c, \hdf8e, \heb99, \h34b0, \hbcb5, \he19b, \h48a8,
  \h391c, \h0cb3, \hc5c9, \h5a63, \h4ed8, \haa4a, \he341, \h8acb, \h5b9c, \hca4f, \h7763, \he373, \h682e, \h6ff3, \hd6b2, \hb8a3,
  \h748f, \h82ee, \h5def, \hb2fc, \h78a5, \h636f, \h4317, \h2f60, \h84c8, \h7814, \ha1f0, \hab72, \h8cc7, \h0208, \h1a64, \h39ec,
  \h90be, \hfffa, \h2363, \h1e28, \ha450, \h6ceb, \hde82, \hbde9, \hbef9, \ha3f7, \hb2c6, \h7915, \hc671, \h78f2, \he372, \h532b,
  \hca27, \h3ece, \hea26, \h619c, \hd186, \hb8c7, \h21c0, \hc207, \heada, \h7dd6, \hcde0, \heb1e, \hf57d, \h4f7f, \hee6e, \hd178,
  \h06f0, \h67aa, \h7217, \h6fba, \h0a63, \h7dc5, \ha2c8, \h98a6, \h113f, \h9804, \hbef9, \h0dae, \h1b71, \h0b35, \h131c, \h471b,
  \h28db, \h77f5, \h2304, \h7d84, \h32ca, \hab7b, \h40c7, \h2493, \h3c9e, \hbe0a, \h15c9, \hbebc, \h431d, \h67c4, \h9c10, \h0d4c,
  \h4cc5, \hd4be, \hcb3e, \h42b6, \h597f, \h299c, \hfc65, \h7e2a, \h5fcb, \h6fab, \h3ad6, \hfaec, \h6c44, \h198c, \h4a47, \h5817 >>
WordIn(table, w, j) ==
    Big(FoldLeft(LAMBDA bytes, i : bytes \o <<table[4 * j + i] \div 256, table[4 * j + i] % 256>>, <<>>,
                 [i \in 1 .. w \div 16 |-> i]))
InitialHash(w) == [j \in 1 .. 8 |-> WordIn(sha512_initial_hash_value, w, j - 1)] \o <<>>
sha256_initial_hash_value == InitialHash(32)
K256(j) == WordIn(K512, 32, j)

\* What the two forms differ in: the width of a word, the bytes of a block, the
\* rounds, and the rotations of Sigma0, Sigma1, sigma0 and sigma1 (whose third
\* is a shift).
Form256 == [width |-> 32, block |-> 64, rounds |-> 64, Sigma0 |-> <<2, 13, 22>>,
            Sigma1 |-> <<6, 11, 25>>, sigma0 |-> <<7, 18, 3>>, sigma1 |-> <<17, 19, 10>>]
Form512 == [width |-> 64, block |-> 128, rounds |-> 80, Sigma0 |-> <<28, 34, 39>>,
            Sigma1 |-> <<14, 18, 41>>, sigma0 |-> <<1, 8, 7>>, sigma1 |-> <<19, 61, 6>>]
Added(f, words) == Sum(f.width, words)
Upper(f, r, x) == XorAll([i \in 1 .. 3 |-> RotateRight(f.width, x, r[i])])
Lower(f, r, x) == XorAll(<<RotateRight(f.width, x, r[1]), RotateRight(f.width, x, r[2]), ShiftRight(x, r[3])>>)
Ch(x, y, z)  == Xor(x \cap y, z \ x)
Maj(x, y, z) == XorAll(<<x \cap y, x \cap z, y \cap z>>)
T1(f, e, ff, g, h, j, word) ==
    Added(f, <<h, Upper(f, f.Sigma1, e), Ch(e, ff, g), WordIn(K512, f.width, j), word>>)
T2(f, a, b, c) == Added(f, <<Upper(f, f.Sigma0, a), Maj(a, b, c)>>)

\* The word of round j, in a schedule of sixteen words written over in turn.
Scheduled(f, W, j) ==
    LET at(i) == W[((j + i) % 16) + 1]
    IN IF j < 16 THEN at(0)
       ELSE Added(f, <<at(0), Lower(f, f.sigma1, at(14)), at(9), Lower(f, f.sigma0, at(1))>>)

\* One round: the registers move on by one place.
Round(f, c, j) ==
    LET r == c.regs  word == Scheduled(f, c.W, j)
        t1 == T1(f, r[5], r[6], r[7], r[8], j, word)
    IN [regs |-> <<Added(f, <<t1, T2(f, r[1], r[2], r[3])>>), r[1], r[2], r[3],
                   Added(f, <<r[4], t1>>), r[5], r[6], r[7]>>,
        W |-> [c.W EXCEPT ![(j % 16) + 1] = word]]
\* The unrolled form leaves the registers where they are and moves their roles.
UnrolledRound(f, c, j) ==
    LET place(role) == ((role + 7 * j) % 8) + 1
        r(role) == c.regs[place(role)]
        word == Scheduled(f, c.W, j)
        t1 == T1(f, r(4), r(5), r(6), r(7), j, word)
    IN [regs |-> [c.regs EXCEPT ![place(3)] = Added(f, <<r(3), t1>>),
                                ![place(7)] = Added(f, <<t1, T2(f, r(0), r(1), r(2))>>)],
        W |-> [c.W EXCEPT ![(j % 16) + 1] = word]]
RECURSIVE Rounds(_, _, _, _)
Rounds(f, c, j, unrolled) ==
    IF c.regs = <<>> \/ j = f.rounds THEN c.regs
    ELSE Rounds(f, IF unrolled THEN UnrolledRound(f, c, j) ELSE Round(f, c, j), j + 1, unrolled)
Transform(f, state, data, unrolled) ==
    LET end == Rounds(f, [regs |-> state, W |-> data], 0, unrolled)
    IN [i \in 1 .. 8 |-> Added(f, <<state[i], end[i]>>)] \o <<>>
sha256_Transform(state, data) == Transform(Form256, state, data, FALSE)
sha512_Transform(state, data) == Transform(Form512, state, data, FALSE)
sha256_TransformUnrolled(state, data) == Transform(Form256, state, data, TRUE)
sha512_TransformUnrolled(state, data) == Transform(Form512, state, data, TRUE)

Started(f) == [state |-> InitialHash(f.width), bits |-> 0, buffer |-> Zeros(f.block)]
sha256_Init == Started(Form256)
sha512_Init == Started(Form512)
UsedSpace(f, ctx) == (ctx.bits \div 8) % f.block

\* The words of the buffer turned round in place, and transformed.
Reversed(f, bytes) == FoldLeft(LAMBDA s, p : s \o Reverse(p), <<>>, Pieces(bytes, f.width \div 8))
Absorbed(f, ctx) ==
    [ctx EXCEPT !.state = Transform(f, ctx.state, BigWords(f.width, ctx.buffer), FALSE),
                !.buffer = Reversed(f, ctx.buffer)]
Copied(ctx, at, data) == [ctx EXCEPT !.buffer = Put(@, at, data), !.bits = @ + 8 * Len(data)]

\* Whole blocks out of data, then the rest into the buffer.
Blocks(f, ctx, data) ==
    LET whole == FoldLeft(LAMBDA c, block : Absorbed(f, Copied(c, 0, block)), ctx, Pieces(data, f.block))
        rest == Dropped(data, Len(data) - (Len(data) % f.block))
    IN IF rest = <<>> THEN whole ELSE Copied(whole, 0, rest)
Updated(f, ctx, data) ==
    LET used == UsedSpace(f, ctx)  free == f.block - used
    IN CASE data = <<>> -> ctx
         [] data # <<>> /\ used = 0 -> Blocks(f, ctx, data)
         [] used > 0 /\ Len(data) \in 1 .. free - 1 -> Copied(ctx, used, data)
         [] used > 0 /\ Len(data) >= free ->
              Blocks(f, Absorbed(f, Copied(ctx, used, Taken(data, free))), Dropped(data, free))
sha256_Update(ctx, data) == Updated(Form256, ctx, data)
sha512_Update(ctx, data) == Updated(Form512, ctx, data)

\* A one bit, zeros, and the count of bits in the last two words.
LastBlock(f, ctx) ==
    LET short == f.block - f.width \div 4
        used == UsedSpace(f, ctx) + 1
        marked == Put(ctx.buffer, used - 1, <<128>>)
        first == Absorbed(f, [ctx EXCEPT !.buffer = Put(marked, used, Zeros(f.block - used))])
        cleared == IF used > short THEN [first EXCEPT !.buffer = Put(@, 0, Zeros(short))]
                   ELSE [ctx EXCEPT !.buffer = Put(marked, used, Zeros(short - used))]
    IN Absorbed(f, [cleared EXCEPT !.buffer = Put(@, short, BigBytes(f.width, {})
                                                         \o BigBytes(f.width, BitsOf(ctx.bits)))])
DigestOf(f, ctx) == FoldLeft(LAMBDA s, a : s \o BigBytes(f.width, a), <<>>, ctx.state)
sha256_Final(ctx) == DigestOf(Form256, LastBlock(Form256, ctx))
sha512_Last(ctx)  == LastBlock(Form512, ctx)
sha512_Final(ctx) == DigestOf(Form512, sha512_Last(ctx))

HexDigits(bytes) == FoldLeft(LAMBDA s, b : s \o <<b \div 16, b % 16>>, <<>>, bytes)
sha256_End(ctx) == HexDigits(sha256_Final(ctx))
sha512_End(ctx) == HexDigits(sha512_Final(ctx))
sha256_Raw(data)  == sha256_Final(sha256_Update(sha256_Init, data))
sha512_Raw(data)  == sha512_Final(sha512_Update(sha512_Init, data))
sha256_Data(data) == sha256_End(sha256_Update(sha256_Init, data))
sha512_Data(data) == sha512_End(sha512_Update(sha512_Init, data))
=============================================================================
