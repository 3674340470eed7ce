---------------------------------- MODULE Aes ----------------------------------
(***************************************************************************)
(* AES as trezor-crypto builds it: fixed tables, four for every round,     *)
(* unrolled schedules, reversed keys for decryption; and its modes.  A     *)
(* word is the tuple of its four bytes, the lowest first.                  *)
(***************************************************************************)
EXTENDS Words

XorNibbles == [a \in 1 .. 16 |-> [b \in 1 .. 16 |-> NumberOf(Xor(BitsOf(a - 1), BitsOf(b - 1)))] \o <<>>] \o <<>>
XorByte(a, b) == 16 * XorNibbles[a \div 16 + 1][b \div 16 + 1] + XorNibbles[(a % 16) + 1][(b % 16) + 1]
XorWord(x, y) == <<XorByte(x[1], y[1]), XorByte(x[2], y[2]), XorByte(x[3], y[3]), XorByte(x[4], y[4])>>
XorText(a, b) == [i \in DOMAIN a |-> XorByte(a[i], b[i])] \o <<>>
upr(x, n) == [i \in 1 .. 4 |-> x[((i - 1 + 4 - n) % 4) + 1]] \o <<>>

sb_data == <<
  \h63, \h7c, \h77, \h7b, \hf2, \h6b, \h6f, \hc5, \h30, \h01, \h67, \h2b, \hfe, \hd7, \hab, \h76, \hca, \h82, \hc9, \h7d, \hfa, \h59, \h47, \hf0, \had, \hd4, \ha2, \haf, \h9c, \ha4, \h72, \hc0,
  \hb7, \hfd, \h93, \h26, \h36, \h3f, \hf7, \hcc, \h34, \ha5, \he5, \hf1, \h71, \hd8, \h31, \h15, \h04, \hc7, \h23, \hc3, \h18, \h96, \h05, \h9a, \h07, \h12, \h80, \he2, \heb, \h27, \hb2, \h75,
  \h09, \h83, \h2c, \h1a, \h1b, \h6e, \h5a, \ha0, \h52, \h3b, \hd6, \hb3, \h29, \he3, \h2f, \h84, \h53, \hd1, \h00, \hed, \h20, \hfc, \hb1, \h5b, \h6a, \hcb, \hbe, \h39, \h4a, \h4c, \h58, \hcf,
  \hd0, \hef, \haa, \hfb, \h43, \h4d, \h33, \h85, \h45, \hf9, \h02, \h7f, \h50, \h3c, \h9f, \ha8, \h51, \ha3, \h40, \h8f, \h92, \h9d, \h38, \hf5, \hbc, \hb6, \hda, \h21, \h10, \hff, \hf3, \hd2,
  \hcd, \h0c, \h13, \hec, \h5f, \h97, \h44, \h17, \hc4, \ha7, \h7e, \h3d, \h64, \h5d, \h19, \h73, \h60, \h81, \h4f, \hdc, \h22, \h2a, \h90, \h88, \h46, \hee, \hb8, \h14, \hde, \h5e, \h0b, \hdb,
  \he0, \h32, \h3a, \h0a, \h49, \h06, \h24, \h5c, \hc2, \hd3, \hac, \h62, \h91, \h95, \he4, \h79, \he7, \hc8, \h37, \h6d, \h8d, \hd5, \h4e, \ha9, \h6c, \h56, \hf4, \hea, \h65, \h7a, \hae, \h08,
  \hba, \h78, \h25, \h2e, \h1c, \ha6, \hb4, \hc6, \he8, \hdd, \h74, \h1f, \h4b, \hbd, \h8b, \h8a, \h70, \h3e, \hb5, \h66, \h48, \h03, \hf6, \h0e, \h61, \h35, \h57, \hb9, \h86, \hc1, \h1d, \h9e,
  \he1, \hf8, \h98, \h11, \h69, \hd9, \h8e, \h94, \h9b, \h1e, \h87, \he9, \hce, \h55, \h28, \hdf, \h8c, \ha1, \h89, \h0d, \hbf, \he6, \h42, \h68, \h41, \h99, \h2d, \h0f, \hb0, \h54, \hbb, \h16 >>
isb_data == <<
  \h52, \h09, \h6a, \hd5, \h30, \h36, \ha5, \h38, \hbf, \h40, \ha3, \h9e, \h81, \hf3, \hd7, \hfb, \h7c, \he3, \h39, \h82, \h9b, \h2f, \hff, \h87, \h34, \h8e, \h43, \h44, \hc4, \hde, \he9, \hcb,
  \h54, \h7b, \h94, \h32, \ha6, \hc2, \h23, \h3d, \hee, \h4c, \h95, \h0b, \h42, \hfa, \hc3, \h4e, \h08, \h2e, \ha1, \h66, \h28, \hd9, \h24, \hb2, \h76, \h5b, \ha2, \h49, \h6d, \h8b, \hd1, \h25,
  \h72, \hf8, \hf6, \h64, \h86, \h68, \h98, \h16, \hd4, \ha4, \h5c, \hcc, \h5d, \h65, \hb6, \h92, \h6c, \h70, \h48, \h50, \hfd, \hed, \hb9, \hda, \h5e, \h15, \h46, \h57, \ha7, \h8d, \h9d, \h84,
  \h90, \hd8, \hab, \h00, \h8c, \hbc, \hd3, \h0a, \hf7, \he4, \h58, \h05, \hb8, \hb3, \h45, \h06, \hd0, \h2c, \h1e, \h8f, \hca, \h3f, \h0f, \h02, \hc1, \haf, \hbd, \h03, \h01, \h13, \h8a, \h6b,
  \h3a, \h91, \h11, \h41, \h4f, \h67, \hdc, \hea, \h97, \hf2, \hcf, \hce, \hf0, \hb4, \he6, \h73, \h96, \hac, \h74, \h22, \he7, \had, \h35, \h85, \he2, \hf9, \h37, \he8, \h1c, \h75, \hdf, \h6e,
  \h47, \hf1, \h1a, \h71, \h1d, \h29, \hc5, \h89, \h6f, \hb7, \h62, \h0e, \haa, \h18, \hbe, \h1b, \hfc, \h56, \h3e, \h4b, \hc6, \hd2, \h79, \h20, \h9a, \hdb, \hc0, \hfe, \h78, \hcd, \h5a, \hf4,
  \h1f, \hdd, \ha8, \h33, \h88, \h07, \hc7, \h31, \hb1, \h12, \h10, \h59, \h27, \h80, \hec, \h5f, \h60, \h51, \h7f, \ha9, \h19, \hb5, \h4a, \h0d, \h2d, \he5, \h7a, \h9f, \h93, \hc9, \h9c, \hef,
  \ha0, \he0, \h3b, \h4d, \hae, \h2a, \hf5, \hb0, \hc8, \heb, \hbb, \h3c, \h83, \h53, \h99, \h61, \h17, \h2b, \h04, \h7e, \hba, \h77, \hd6, \h26, \he1, \h69, \h14, \h63, \h55, \h21, \h0c, \h7d >>
rc_data == <<1, 2, 4, 8, 16, 32, 64, 128, \h1b, \h36>>

\* Multiples in the field of 2^8 elements: x shifted by n, less the multiples
\* of WPOLY that its high bits call for.
WPOLY == {0, 1, 3, 4, 8}
Shifted(x, n) ==
    LET bits == BitsOf(x)
    IN NumberOf(XorAll(<<ShiftLeft(16, bits, n)>>
                       \o [j \in 1 .. n |-> IF 7 - n + j \in bits THEN ShiftLeft(16, WPOLY, j - 1) ELSE {}]))
f2(x) == Shifted(x, 1)
f4(x) == Shifted(x, 2)
f8(x) == Shifted(x, 3)
f3(x) == XorByte(f2(x), x)
f9(x) == XorByte(f8(x), x)
fb(x) == XorByte(XorByte(f8(x), f2(x)), x)
fd(x) == XorByte(XorByte(f8(x), f4(x)), x)
fe(x) == XorByte(XorByte(f8(x), f4(x)), f2(x))

\* The tables: of a round and the last, forward and inverse, and of the
\* inverse mixing of columns; table r is that of row r, turned r places.
u(r, p) == upr(<<f2(p), p, p, f3(p)>>, r)
v(r, p) == upr(<<fe(p), f9(p), fd(p), fb(p)>>, r)
w(r, p) == upr(<<p, 0, 0, 0>>, r)
t_fn == [r \in 1 .. 4 |-> [i \in 1 .. 256 |-> u(r - 1, sb_data[i])] \o <<>>] \o <<>>
t_fl == [r \in 1 .. 4 |-> [i \in 1 .. 256 |-> w(r - 1, sb_data[i])] \o <<>>] \o <<>>
t_in == [r \in 1 .. 4 |-> [i \in 1 .. 256 |-> v(r - 1, isb_data[i])] \o <<>>] \o <<>>
t_il == [r \in 1 .. 4 |-> [i \in 1 .. 256 |-> w(r - 1, isb_data[i])] \o <<>>] \o <<>>
t_im == [r \in 1 .. 4 |-> [i \in 1 .. 256 |-> v(r - 1, i - 1)] \o <<>>] \o <<>>
four_tables(tab, p) ==
    XorWord(XorWord(tab[1][p[1] + 1], tab[2][p[2] + 1]), XorWord(tab[3][p[3] + 1], tab[4][p[4] + 1]))
ls_box(x, c) == four_tables(t_fl, [r \in 1 .. 4 |-> x[((r + 7 - c) % 4) + 1]])
inv_mcol(x)  == four_tables(t_im, x)

\* The tables as aes_init computes them in builds without fixed tables.
hibit(x) == LET r == CHOOSE n \in 0 .. 9 : x < 2^n /\ (n = 0 \/ x >= 2^(n - 1)) IN 2^r \div 4
ShiftedByte(x, n) == NumberOf(ShiftLeft(8, BitsOf(x), CHOOSE k \in 0 .. 7 : 2^k = n))
\* p is divided by q until it is the smaller, and a follows with b.
RECURSIVE Divided(_, _)
Divided(x, y) ==
    IF x.n < y.n THEN x
    ELSE LET p == XorByte(x.p, ShiftedByte(y.p, x.n \div y.n))
         IN Divided([p |-> p, n |-> hibit(p), a |-> XorByte(x.a, ShiftedByte(y.a, x.n \div y.n))], y)
RECURSIVE Euclid(_, _)
Euclid(x, y) == IF x.n = 0 THEN x.a ELSE Euclid(Divided(y, x), x)
gf_inv(x) ==
    IF x < 2 THEN x
    ELSE Euclid([p |-> x, n |-> hibit(x), a |-> 1], [p |-> \h1b, n |-> 128, a |-> 0])
Affine(x, turns, c) ==
    LET bits == BitsOf(x)  wide == XorAll([i \in DOMAIN turns |-> ShiftLeft(16, bits, turns[i])])
    IN XorByte(c, NumberOf(Xor(wide, ShiftRight(wide, 8)) \cap 0 .. 7))
fwd_affine(x) == Affine(x, <<0, 1, 2, 3, 4>>, \h63)
inv_affine(x) == Affine(x, <<1, 3, 6>>, 5)
aes_init ==
    [box |-> [i \in 1 .. 256 |-> fwd_affine(gf_inv(i - 1))] \o <<>>,
     inv |-> [i \in 1 .. 256 |-> gf_inv(inv_affine(i - 1))] \o <<>>]

-----------------------------------------------------------------------------
\* A schedule has 60 words, of which 4 (rounds + 1) are used.
word_in(x, c)  == SubSeq(x, 4 * c + 1, 4 * c + 4)
NoKeys == [i \in 1 .. 60 |-> <<0, 0, 0, 0>>] \o <<>>
KeyWords(key)  == [c \in 1 .. Len(key) \div 4 |-> word_in(key, c - 1)] \o <<>>
RoundWord(x, i) == XorWord(ls_box(x, 3), <<rc_data[i + 1], 0, 0, 0>>)

\* ss[1] takes the round word of the last, and each other word the one before;
\* of eight words the fifth takes it through the box.
RECURSIVE Chained(_, _)
Chained(ss, at) ==
    IF at > Len(ss) THEN ss
    ELSE Chained([ss EXCEPT ![at] = XorWord(@, IF Len(ss) = 8 /\ at = 5 THEN ls_box(ss[4], 0) ELSE ss[at - 1])],
                 at + 1)
KeyStep(ss, i) == Chained([ss EXCEPT ![1] = XorWord(@, RoundWord(ss[Len(ss)], i))], 2)
RECURSIVE Expanded(_, _, _, _)
Expanded(ks, ss, i, total) ==
    IF Len(ks) >= total THEN SubSeq(ks, 1, total)
    ELSE \* The words of the step come before those of the next.
         LET next == KeyStep(ss, i) IN Expanded(ks \o next, next, i + 1, total)
Encrypting(key, rounds) ==
    [ks |-> Put(NoKeys, 0, Expanded(KeyWords(key), KeyWords(key), 0, 4 * rounds + 4)), b0 |-> rounds * 16, b2 |-> 0]
aes_encrypt_key128(key) == Encrypting(key, 10)
aes_encrypt_key192(key) == Encrypting(key, 12)
aes_encrypt_key256(key) == Encrypting(key, 14)

\* For decryption the round keys stand in the opposite order, and those of the
\* inner rounds with their columns unmixed.
vn(n, i) == n - i + 2 * (i % 4)
Stored(k, n, at, words) == FoldLeft(LAMBDA s, j : [s EXCEPT ![vn(n, at + j - 1) + 1] = words[j]], k, [j \in DOMAIN words |-> j])
Words4(k, n, at, count) == [j \in 1 .. count |-> k[vn(n, at + j - 1) + 1]] \o <<>>
Unmixed(words) == [j \in DOMAIN words |-> inv_mcol(words[j])] \o <<>>
\* The words t ^ old[1], t ^ old[1] ^ old[2], ...
RECURSIVE Accumulated(_, _)
Accumulated(t, old) ==
    IF old = <<>> THEN <<>> ELSE LET next == XorWord(t, Head(old)) IN <<next>> \o Accumulated(next, Tail(old))

\* 128 bits: only one word of ss changes in a step.
Turned(ss, i) ==
    LET t == RoundWord(ss[((i + 3) % 4) + 1], i) IN [t |-> t, ss |-> [ss EXCEPT ![(i % 4) + 1] = XorWord(@, t)]]
kdf4(c, i) ==
    LET s34 == XorWord(c.ss[3], c.ss[4])
        s   == <<XorWord(XorWord(c.ss[1], c.ss[2]), s34), XorWord(c.ss[2], c.ss[4]), s34, c.ss[4]>>
        d   == Turned(s, i)
    IN [ss |-> d.ss, k |-> Stored(c.k, 40, 4 * i + 4, Unmixed(Accumulated(d.t, Words4(c.k, 40, 4 * i, 4))))]
kd4(c, i) ==
    LET d == Turned(c.ss, i)
    IN [ss |-> d.ss, k |-> Stored(c.k, 40, 4 * i + 4, Accumulated(inv_mcol(d.t), Words4(c.k, 40, 4 * i, 4)))]
kdl4(c, i) ==
    LET s  == Turned(c.ss, i).ss  s1 == XorWord(s[1], s[2])
    IN [ss |-> s, k |-> Stored(c.k, 40, 4 * i + 4, <<XorWord(XorWord(s1, s[3]), s[4]), XorWord(s[2], s[4]), s1, s[2]>>)]

\* 192 and 256 bits.
kdf(c, n, i) ==
    LET nk == Len(c.ss)  ss == KeyStep(c.ss, i)
    IN [ss |-> ss, k |-> Stored(c.k, n, nk * i + nk, Unmixed(ss))]
kd(c, n, i) ==
    LET nk == Len(c.ss)  ss == KeyStep(c.ss, i)
        old == Words4(c.k, n, nk * i, nk)
        first == Accumulated(inv_mcol(RoundWord(c.ss[nk], i)), SubSeq(old, 1, IF nk = 8 THEN 4 ELSE nk))
        second == IF nk = 8 THEN Accumulated(inv_mcol(ls_box(ss[4], 0)), SubSeq(old, 5, 8)) ELSE <<>>
    IN [ss |-> ss, k |-> Stored(c.k, n, nk * i + nk, first \o second)]
kdl(c, n, i) ==
    LET nk == Len(c.ss)  ss == KeyStep(c.ss, i)
    IN [ss |-> ss, k |-> Stored(c.k, n, nk * i + nk, SubSeq(ss, 1, 4))]

RECURSIVE Steps(_, _, _, _)
Steps(c, n, i, last) ==
    IF c.k = <<>> \/ i > last THEN c
    ELSE LET first == i = 0  end == i = last
         IN Steps(CASE n = 40 /\ first -> kdf4(c, i) [] n = 40 /\ end -> kdl4(c, i)
                    [] n = 40 /\ ~first /\ ~end -> kd4(c, i)
                    [] n # 40 /\ first -> kdf(c, n, i) [] n # 40 /\ end -> kdl(c, n, i)
                    [] n # 40 /\ ~first /\ ~end -> kd(c, n, i), n, i + 1, last)
Decrypting(key, rounds, last) ==
    LET words == KeyWords(key)  n == 4 * rounds
        k == Stored(Stored(NoKeys, n, 0, SubSeq(words, 1, 4)), n, 4, Unmixed(SubSeq(words, 5, Len(words))))
    IN [ks |-> Steps([ss |-> words, k |-> k], n, 0, last).k, b0 |-> rounds * 16, b2 |-> 0]
aes_decrypt_key128(key) == Decrypting(key, 10, 9)
aes_decrypt_key192(key) == Decrypting(key, 12, 7)
aes_decrypt_key256(key) == Decrypting(key, 14, 6)
\* The form without unrolling: the schedule of encryption, then unmixed.
LoopSchedule(key, rounds) ==
    LET ks == Encrypting(key, rounds).ks  n == 4 * rounds
        k == Stored(NoKeys, n, 0, SubSeq(ks, 1, n + 4))
    IN [i \in 1 .. 60 |-> IF i - 1 \in 4 .. n - 1 THEN inv_mcol(k[i]) ELSE k[i]] \o <<>>

NoContext == [ks |-> <<>>, b0 |-> 0, b2 |-> 0]
aes_encrypt_key(key, key_len) ==
    CASE key_len \in {16, 128} -> aes_encrypt_key128(key) [] key_len \in {24, 192} -> aes_encrypt_key192(key)
      [] key_len \in {32, 256} -> aes_encrypt_key256(key) [] OTHER -> NoContext
aes_decrypt_key(key, key_len) ==
    CASE key_len \in {16, 128} -> aes_decrypt_key128(key) [] key_len \in {24, 192} -> aes_decrypt_key192(key)
      [] key_len \in {32, 256} -> aes_decrypt_key256(key) [] OTHER -> NoContext

-----------------------------------------------------------------------------
\* One round: column c gathers a byte of each row, the row's turn away.
Round(tab, direction, x, keys) ==
    [c \in 1 .. 4 |->
        XorWord(keys[c], four_tables(tab, [r \in 1 .. 4 |-> x[((c - 1 + direction * (r - 1) + 4) % 4) + 1][r]]))] \o <<>>
RECURSIVE Rounds(_, _, _, _, _, _)
Rounds(tab, last, direction, x, ks, left) ==
    IF x = <<>> \/ left = 1 THEN Round(last, direction, x, ks)
    ELSE Rounds(tab, last, direction, Round(tab, direction, x, SubSeq(ks, 1, 4)), SubSeq(ks, 5, Len(ks)), left - 1)
Crypted(tab, last, direction, in, cx) ==
    LET x == [c \in 1 .. 4 |-> XorWord(word_in(in, c - 1), cx.ks[c])] \o <<>>
        end == Rounds(tab, last, direction, x, SubSeq(cx.ks, 5, 60), cx.b0 \div 16)
    IN end[1] \o end[2] \o end[3] \o end[4]
\* <<>> stands for EXIT_FAILURE.
aes_encrypt(in, cx) == IF cx.b0 \notin {160, 192, 224} THEN <<>> ELSE Crypted(t_fn, t_fl, 1, in, cx)
aes_decrypt(in, cx) == IF cx.b0 \notin {160, 192, 224} THEN <<>> ELSE Crypted(t_in, t_il, -1, in, cx)

-----------------------------------------------------------------------------
\* The modes.  iv, the position in it and what has been put out are s.
Failure == [iv |-> <<>>, pos |-> 0, out |-> <<>>, ok |-> FALSE]
Feed(iv, ctx) == [iv |-> iv, pos |-> ctx.b2, out |-> <<>>, ok |-> TRUE]
aes_mode_reset(ctx) == [ctx EXCEPT !.b2 = 0]
Whole(in, iv, ctx, step(_, _)) ==
    IF Len(in) % 16 # 0 \/ (in # <<>> /\ ctx.b0 = 0) THEN Failure
    ELSE FoldLeft(step, Feed(iv, ctx), Pieces(in, 16))
aes_ecb_encrypt(in, ctx) == Whole(in, <<>>, ctx, LAMBDA s, b : [s EXCEPT !.out = @ \o aes_encrypt(b, ctx)])
aes_ecb_decrypt(in, ctx) == Whole(in, <<>>, ctx, LAMBDA s, b : [s EXCEPT !.out = @ \o aes_decrypt(b, ctx)])
aes_cbc_encrypt(in, iv, ctx) ==
    Whole(in, iv, ctx, LAMBDA s, b : LET c == aes_encrypt(XorText(s.iv, b), ctx)
                                     IN [s EXCEPT !.iv = c, !.out = @ \o c])
aes_cbc_decrypt(in, iv, ctx) ==
    Whole(in, iv, ctx, LAMBDA s, b : [s EXCEPT !.iv = b, !.out = @ \o XorText(aes_decrypt(b, ctx), s.iv)])

\* Bytes mixed with those of iv from the position on, where CFB leaves the
\* cipher text.
Mixed(mode, s, bytes) ==
    LET out == XorText(bytes, SubSeq(s.iv, s.pos + 1, s.pos + Len(bytes)))
    IN [s EXCEPT !.iv  = CASE mode = "cfb_encrypt" -> Put(@, s.pos, out)
                           [] mode = "cfb_decrypt" -> Put(@, s.pos, bytes)
                           [] mode = "ofb" -> @,
                 !.pos = (@ + Len(bytes)) % 16, !.out = @ \o out]
Fresh(s, ctx) == [s EXCEPT !.iv = aes_encrypt(s.iv, ctx)]
Shorter(a, b) == IF a < b THEN a ELSE b
\* The rest of a block begun before, whole blocks, and the start of another.
Feedback(mode, in, iv, ctx) ==
    LET begun == Feed(iv, ctx)
        n == IF ctx.b2 = 0 THEN 0 ELSE Shorter(16 - ctx.b2, Len(in))
        head == IF n = 0 THEN begun ELSE Mixed(mode, begun, Taken(in, n))
        blocks == FoldLeft(LAMBDA s, b : Mixed(mode, Fresh(s, ctx), b), head, Pieces(Dropped(in, n), 16))
        tail == Dropped(in, Len(in) - ((Len(in) - n) % 16))
    IN IF ctx.b0 = 0 THEN Failure
       ELSE IF tail = <<>> THEN blocks
       ELSE Mixed(mode, IF blocks.pos = 0 THEN Fresh(blocks, ctx) ELSE blocks, tail)
aes_cfb_encrypt(in, iv, ctx) == Feedback("cfb_encrypt", in, iv, ctx)
aes_cfb_decrypt(in, iv, ctx) == Feedback("cfb_decrypt", in, iv, ctx)
aes_ofb_crypt(in, iv, ctx)   == Feedback("ofb", in, iv, ctx)

\* A counter is raised when its block is used up and more is wanted; the
\* position may stand at 16 until then.
aes_ctr_cbuf_inc(cbuf) ==
    LET low == {i \in 1 .. 16 : cbuf[i] # 255}
        at == IF low = {} THEN 0 ELSE CHOOSE i \in low : \A j \in low : j <= i
    IN [i \in 1 .. 16 |-> IF i > at THEN 0 ELSE IF i = at THEN cbuf[i] + 1 ELSE cbuf[i]] \o <<>>
BFR_BLOCKS == 8
RECURSIVE CtrLoop(_, _, _)
CtrLoop(s, in, ctx) ==
    IF in = <<>> \/ s.iv = <<>> THEN s
    ELSE LET blen == Shorter(BFR_BLOCKS * 16, Len(in))
             filled == FoldLeft(LAMBDA c, i : <<aes_ctr_cbuf_inc(c[1]), c[2] \o c[1]>>, <<s.iv, <<>>>>,
                                [i \in 1 .. blen \div 16 |-> i])
             text == IF blen % 16 = 0 THEN filled[2] ELSE filled[2] \o filled[1]
             pad == aes_ecb_encrypt(text, ctx).out
         IN CtrLoop([s EXCEPT !.iv = filled[1], !.pos = @ + (blen % 16),
                              !.out = @ \o XorText(Taken(in, blen), pad)], Dropped(in, blen), ctx)
aes_ctr_crypt(in, cbuf, ctx) ==
    LET s == Feed(cbuf, ctx)
        n == IF ctx.b2 = 0 THEN 0 ELSE Shorter(16 - ctx.b2, Len(in))
        pad == aes_encrypt(cbuf, ctx)
        head == [s EXCEPT !.pos = @ + n, !.out = XorText(Taken(in, n), SubSeq(pad, s.pos + 1, s.pos + n))]
        more == Len(in) > n
    IN IF ctx.b0 = 0 THEN Failure
       ELSE IF more /\ ctx.b2 > 0
            THEN CtrLoop([head EXCEPT !.iv = aes_ctr_cbuf_inc(@), !.pos = 0], Dropped(in, n), ctx)
       ELSE CtrLoop(head, Dropped(in, n), ctx)
\* Pointers p to p + n - 1 rounded down and up to n, by masks, which are right
\* for powers of two.
aes_test_alignment_detection(p, n) ==
    LET masked(a) == NumberOf(BitsOf(a) \cap BitsOf(n - 1))
        floor(a) == a - masked(a)
        ceil(a)  == a + masked(65536 - a)
        even == {i \in p .. p + n - 1 : ceil(i) = floor(i)}
    IN n \in 4 .. 16 /\ (\A i \in (p .. p + n - 1) \ even : ceil(i) = floor(i) + n) /\ Cardinality(even) = 1
=============================================================================
