------------------------------- MODULE AesChecks -------------------------------
(***************************************************************************)
(* What the cipher promises: FIPS 197 by its text, with the box from       *)
(* inverses in the field, and the modes of SP 800-38A on whole messages.   *)
(***************************************************************************)
EXTENDS Aes

Message(n) == [i \in 1 .. n |-> (37 * i + 11) % 256] \o <<>>
Key(n)     == [i \in 1 .. n |-> (73 * i + 5) % 256] \o <<>>

\* Products in the field, bit by bit.
RefDouble(a) == IF a >= 128 THEN XorByte(2 * a - 256, 27) ELSE 2 * a
RECURSIVE RefTimes(_, _)
RefTimes(a, b) ==
    IF b = 0 THEN 0
    ELSE LET rest == RefTimes(RefDouble(a), b \div 2) IN IF b % 2 = 1 THEN XorByte(a, rest) ELSE rest
\* Powers of 3 and the box.
RECURSIVE RefPowersFrom(_)
RefPowersFrom(s) == IF Len(s) = 255 THEN s ELSE RefPowersFrom(Append(s, RefTimes(Last(s), 3)))
RefBox ==
    LET powers == RefPowersFrom(<<1>>)
        place == [a \in 1 .. 255 |-> CHOOSE i \in 1 .. 255 : powers[i] = a]
        inverse(a) == IF a = 0 THEN 0 ELSE powers[((256 - place[a]) % 255) + 1]
        turned(a, n) == NumberOf(RotateLeft(8, BitsOf(a), n))
        out(a) == XorByte(XorByte(XorByte(a, turned(a, 1)), XorByte(turned(a, 2), turned(a, 3))),
                          XorByte(turned(a, 4), 99))
    IN [a \in 1 .. 256 |-> out(inverse(a - 1))] \o <<>>

\* The state is sixteen bytes in columns.
RefSub(s)    == [i \in 1 .. 16 |-> sb_data[s[i] + 1]] \o <<>>
RefShift(s)  == [i \in 1 .. 16 |-> s[((i - 1 + 4 * ((i - 1) % 4)) % 16) + 1]] \o <<>>
RefMix(s) ==
    LET at(c, r) == s[4 * c + (r % 4) + 1]
        mixed(c, r) == XorByte(XorByte(RefTimes(at(c, r), 2), RefTimes(at(c, r + 1), 3)), XorByte(at(c, r + 2), at(c, r + 3)))
    IN [i \in 1 .. 16 |-> mixed((i - 1) \div 4, (i - 1) % 4)] \o <<>>
RECURSIVE RefPower(_)
RefPower(n) == IF n = 1 THEN 1 ELSE RefDouble(RefPower(n - 1))
RECURSIVE RefExpand(_, _, _)
RefExpand(w32, nk, total) ==
    IF Len(w32) = total THEN w32
    ELSE LET i == Len(w32)  t == w32[i]
             box(x) == [k \in 1 .. 4 |-> sb_data[x[k] + 1]]
             temp == IF i % nk = 0 THEN XorWord(box(<<t[2], t[3], t[4], t[1]>>), <<RefPower(i \div nk), 0, 0, 0>>)
                     ELSE IF nk > 6 /\ i % nk = 4 THEN box(t) ELSE t
         IN RefExpand(Append(w32, XorWord(w32[i + 1 - nk], temp)), nk, total)
RECURSIVE RefRounds(_, _, _)
RefRounds(s, keys, round) ==
    LET key == FoldLeft(LAMBDA a, b : a \o b, <<>>, SubSeq(keys, 4 * round + 1, 4 * round + 4))
        shifted == RefShift(RefSub(s))
    IN IF s = <<>> \/ round = Len(keys) \div 4 - 1 THEN XorText(shifted, key)
       ELSE RefRounds(XorText(RefMix(shifted), key), keys, round + 1)
RefKeys(key) == RefExpand(KeyWords(key), Len(key) \div 4, 4 * (Len(key) \div 4) + 28)
RefFirst(in, keys) == XorText(in, keys[1] \o keys[2] \o keys[3] \o keys[4])
RefEncrypt(in, keys) == RefRounds(RefFirst(in, keys), keys, 1)

\* The modes: the blocks of the key stream or of the cipher text.
RefStream(mode, msg, iv, keys) ==
    LET blocks == (Len(msg) + 15) \div 16
        text(k) == SubSeq(msg, 16 * k - 15, Shorter(16 * k, Len(msg)))
        next(s, k) ==      \* <<what the next block is made from, the cipher text>>
            LET pad == CASE mode = "ctr" -> RefEncrypt(s[1], keys)
                         [] mode \in {"ofb", "cfb"} -> RefEncrypt(s[1], keys)
                         [] mode = "cbc" -> RefEncrypt(XorText(s[1], text(k)), keys)
                         [] mode = "ecb" -> RefEncrypt(text(k), keys)
                c == IF mode \in {"cbc", "ecb"} THEN pad ELSE XorText(text(k), SubSeq(pad, 1, Len(text(k))))
                counted == Reverse(FoldLeft(LAMBDA a, b : <<a[1] \o <<(b + a[2]) % 256>>, (b + a[2]) \div 256>>,
                                            <<<<>>, 1>>, Reverse(s[1]))[1])
            IN <<CASE mode = "ctr" -> counted [] mode = "ofb" -> pad [] mode \in {"cfb", "cbc", "ecb"} -> c, s[2] \o c>>
    IN FoldLeft(next, <<iv, <<>>>>, [k \in 1 .. blocks |-> k])[2]

-----------------------------------------------------------------------------
\* A mode f asked for a key of bits, for n bytes in three calls cut at cut.
Chunks(msg, cut) ==
    <<Taken(msg, cut), IF cut < Len(msg) THEN <<msg[cut + 1]>> ELSE <<>>, Dropped(msg, cut + 1)>>
Call(f, in, iv, ctx) ==
    CASE f = "cfb" -> aes_cfb_encrypt(in, iv, ctx)
      [] f = "cfb_decrypt" -> aes_cfb_decrypt(in, iv, ctx)
      [] f = "ofb" -> aes_ofb_crypt(in, iv, ctx)
      [] f = "ctr" -> aes_ctr_crypt(in, iv, ctx)
      [] f = "cbc" -> aes_cbc_encrypt(in, iv, ctx)
      [] f = "cbc_decrypt" -> aes_cbc_decrypt(in, iv, ctx)
      [] f = "ecb" -> aes_ecb_encrypt(in, ctx)
      [] f = "ecb_decrypt" -> aes_ecb_decrypt(in, ctx)
Carried(f, chunks, iv, ctx) ==
    FoldLeft(LAMBDA s, chunk :
                LET r == Call(f, chunk, s.iv, s.ctx)
                IN [iv |-> r.iv, ctx |-> [s.ctx EXCEPT !.b2 = r.pos], out |-> s.out \o r.out],
             [iv |-> iv, ctx |-> ctx, out |-> <<>>], chunks).out
StartIv == [i \in 1 .. 16 |-> IF i > 14 THEN 254 + (i % 2) ELSE i] \o <<>>
Blockwise(f) == f \in {"cbc", "cbc_decrypt", "ecb", "ecb_decrypt"}
Opposite(f) == CASE f = "cfb_decrypt" -> "cfb" [] f = "cbc_decrypt" -> "cbc" [] f = "ecb_decrypt" -> "ecb"
Context(f, key) ==
    IF f \in {"cbc_decrypt", "ecb_decrypt"} THEN aes_decrypt_key(key, Len(key)) ELSE aes_encrypt_key(key, 8 * Len(key))
Answer(f, bits, n, cut) ==
    LET key == Key(bits \div 8)  msg == Message(n)
        chunks == IF Blockwise(f) THEN <<Taken(msg, 16), Dropped(msg, 16)>> ELSE Chunks(msg, cut)
    IN CASE f = "tables" -> [box |-> sb_data, inv |-> isb_data]
         [] f = "key" -> aes_encrypt_key(key, bits).ks
         [] f = "reversed" -> aes_decrypt_key(key, bits).ks
         [] f = "known" -> aes_encrypt([i \in 1 .. 16 |-> 17 * (i - 1)],
                                       aes_encrypt_key([i \in 1 .. 16 |-> i - 1] \o <<>>, 16))
         [] f = "aligned" -> aes_test_alignment_detection(cut, n)
         [] f = "refused" -> <<aes_ecb_encrypt(msg, aes_encrypt_key(key, n)).ok,
                               aes_cbc_decrypt(Message(16), StartIv, aes_decrypt_key(key, n)).ok>>
         [] f \notin {"tables", "key", "reversed", "known", "aligned", "refused"} ->
              Carried(f, chunks, StartIv, Context(f, key))
Right(f, bits, n, cut, answer) ==
    LET key == Key(bits \div 8)  msg == Message(n)
    IN CASE f = "tables" -> answer.box = RefBox /\ answer = aes_init
         [] f = "key" -> Taken(answer, bits \div 8 + 28) = RefKeys(key)
         [] f = "reversed" -> answer = LoopSchedule(key, bits \div 32 + 6)
         [] f = "known" -> Taken(answer, 4) = <<\h69, \hc4, \he0, \hd8>>
         [] f = "aligned" -> answer
         [] f = "refused" -> answer = <<FALSE, FALSE>>
         [] f \in {"ecb", "cbc", "cfb", "ofb", "ctr"} ->
              \E keys \in {RefKeys(key)} : answer = RefStream(f, msg, StartIv, keys)
         \* What the reference makes of the answer is the message again.
         [] f \in {"ecb_decrypt", "cbc_decrypt", "cfb_decrypt"} ->
              \E keys \in {RefKeys(key)} : RefStream(Opposite(f), answer, StartIv, keys) = msg
=============================================================================
