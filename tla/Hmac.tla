--------------------------------- MODULE Hmac ---------------------------------
(***************************************************************************)
(* hmac.c and pbkdf2.c of trezor-crypto: the keyed digests, and the keys   *)
(* drawn from pass phrases with them, in both forms of SHA-2.              *)
(***************************************************************************)
EXTENDS Sha2

OPad == 92
IPad == 54
Raw(f, data) == IF f = Form256 THEN sha256_Raw(data) ELSE sha512_Raw(data)
Final(f, ctx) == IF f = Form256 THEN sha256_Final(ctx) ELSE sha512_Final(ctx)

\* Mutant: a key of exactly a block is digested as well.
KeyBlockEarly(f, key) ==
    LET short == IF Len(key) >= f.block THEN Raw(f, key) ELSE key
    IN short \o Zeros(f.block - Len(short))

\* The key, or its digest when it is longer than a block, filled with zeros.
KeyBlock(f, key) ==
    LET short == IF Len(key) > f.block THEN Raw(f, key) ELSE key
    IN short \o Zeros(f.block - Len(short))

Padded(block, pad) == XorBytes(block, [i \in DOMAIN block |-> pad])

\* The context of the inner digest and the pad of the outer.
HmacInit(f, key) ==
    LET block == KeyBlock(f, key)
    IN [o_key_pad |-> Padded(block, OPad), ctx |-> Updated(f, Started(f), Padded(block, IPad))]
HmacUpdate(f, hctx, msg) == [hctx EXCEPT !.ctx = Updated(f, @, msg)]
HmacFinal(f, hctx) ==
    Final(f, Updated(f, Updated(f, Started(f), hctx.o_key_pad), Final(f, hctx.ctx)))
hmac_sha256_Init(key) == HmacInit(Form256, key)
hmac_sha512_Init(key) == HmacInit(Form512, key)
hmac_sha256_Update(hctx, msg) == HmacUpdate(Form256, hctx, msg)
hmac_sha512_Update(hctx, msg) == HmacUpdate(Form512, hctx, msg)
hmac_sha256_Final(hctx) == HmacFinal(Form256, hctx)
hmac_sha512_Final(hctx) == HmacFinal(Form512, hctx)
hmac_sha256(key, msg) == hmac_sha256_Final(hmac_sha256_Update(hmac_sha256_Init(key), msg))
hmac_sha512(key, msg) == hmac_sha512_Final(hmac_sha512_Update(hmac_sha512_Init(key), msg))

\* The states of the outer and the inner digest after their first block.
Prepare(f, key) ==
    LET after(pad) == Transform(f, InitialHash(f.width), BigWords(f.width, Padded(KeyBlock(f, key), pad)), FALSE)
    IN [odig |-> after(OPad), idig |-> after(IPad)]
hmac_sha256_prepare(key) == Prepare(Form256, key)
hmac_sha512_prepare(key) == Prepare(Form512, key)

\* g is the block that is digested again and again: eight words of digest, the
\* mark, and the length of the pad and the digest.  f (here sum) adds them up.
Pbkdf2Init(f, pass, salt) ==
    LET p == Prepare(f, pass)
        salted == Updated(f, Updated(f, [Started(f) EXCEPT !.state = p.idig, !.bits = 8 * f.block], salt), <<0, 0, 0, 1>>)
        tail == <<{f.width - 1}>> \o [i \in 1 .. 6 |-> {}] \o <<BitsOf(8 * (f.block + f.width))>>
        g == Transform(f, p.odig, BigWords(f.width, Final(f, salted)) \o tail, FALSE)
    IN [odig |-> p.odig, idig |-> p.idig, tail |-> tail, g |-> g, sum |-> g, first |-> 1]
Again(f, pctx) ==
    LET inner == Transform(f, pctx.idig, pctx.g \o pctx.tail, FALSE)
        g == Transform(f, pctx.odig, inner \o pctx.tail, FALSE)
    IN [pctx EXCEPT !.g = g, !.sum = [i \in 1 .. 8 |-> Xor(pctx.sum[i], g[i])] \o <<>>]
Pbkdf2Update(f, pctx, iterations) ==
    [FoldLeft(LAMBDA c, i : Again(f, c), pctx, [i \in 1 .. iterations - pctx.first |-> i]) EXCEPT !.first = 0]
Pbkdf2Final(f, pctx) == DigestOf(f, [state |-> pctx.sum])
pbkdf2_hmac_sha256_Init(pass, salt) == Pbkdf2Init(Form256, pass, salt)
pbkdf2_hmac_sha512_Init(pass, salt) == Pbkdf2Init(Form512, pass, salt)
pbkdf2_hmac_sha256_Update(pctx, iterations) == Pbkdf2Update(Form256, pctx, iterations)
pbkdf2_hmac_sha512_Update(pctx, iterations) == Pbkdf2Update(Form512, pctx, iterations)
pbkdf2_hmac_sha256_Final(pctx) == Pbkdf2Final(Form256, pctx)
pbkdf2_hmac_sha512_Final(pctx) == Pbkdf2Final(Form512, pctx)
pbkdf2_hmac_sha256(pass, salt, iterations) ==
    pbkdf2_hmac_sha256_Final(pbkdf2_hmac_sha256_Update(pbkdf2_hmac_sha256_Init(pass, salt), iterations))
pbkdf2_hmac_sha512(pass, salt, iterations) ==
    pbkdf2_hmac_sha512_Final(pbkdf2_hmac_sha512_Update(pbkdf2_hmac_sha512_Init(pass, salt), iterations))
=============================================================================
