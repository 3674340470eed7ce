-------------------------------- MODULE Ecdsa --------------------------------
(***************************************************************************)
(* The curve arithmetic and signatures of trezor-crypto.  A curve is a     *)
(* record [prime, G, order, order_half, a, b]; a byte array of the program *)
(* is a sequence of bytes; what random32 answers is an argument.           *)
(***************************************************************************)
EXTENDS Bignum

CONSTANTS sha256_Raw(_), ripemd160(_), hmac_sha256(_, _)

B58 == INSTANCE Base58

Point(x, y)  == [x |-> x, y |-> y]
Infinity     == Point(bn_zero, bn_zero)     \* point_set_infinity
point_is_infinity(p) == bn_is_zero(p.x) /\ bn_is_zero(p.y)
point_is_equal(p, q) == bn_is_equal(p.x, q.x) /\ bn_is_equal(p.y, q.y)
point_is_negative_of(p, q) ==
    bn_is_equal(p.x, q.x) /\ ~bn_is_zero(p.y) /\ ~bn_is_equal(p.y, q.y)
Reduced(x, prime) == bn_mod(bn_fast_mod(x, prime), prime)

\* The third point of the line of slope lambda through p and a point of
\* abscissa sum - p.x, mirrored.
OnLine(lambda, p, sum, prime) ==
    LET xr == Reduced(bn_subtractmod(bn_multiply(lambda, lambda, prime), sum, prime), prime)
        dy == bn_multiply(lambda, bn_subtractmod(p.x, xr, prime), prime)
    IN Point(xr, Reduced(bn_subtractmod(dy, p.y, prime), prime))

point_double(curve, cp) ==
    LET prime == curve.prime
        inv == bn_inverse(bn_mult_k(cp.y, 2, prime), prime)
        x3  == bn_subi(bn_mult_k(bn_multiply(cp.x, cp.x, prime), 3, prime), -curve.a, prime)
    IN IF point_is_infinity(cp) THEN cp
       ELSE IF bn_is_zero(cp.y) THEN Infinity
       ELSE OnLine(bn_multiply(x3, inv, prime), cp, bn_lshift(cp.x), prime)

point_add(curve, cp1, cp2) ==
    LET prime == curve.prime
        inv == bn_inverse(bn_subtractmod(cp2.x, cp1.x, prime), prime)
        lambda == bn_multiply(inv, bn_subtractmod(cp2.y, cp1.y, prime), prime)
    IN IF point_is_infinity(cp1) THEN cp2
       ELSE IF point_is_infinity(cp2) THEN cp1
       ELSE IF point_is_equal(cp1, cp2) THEN point_double(curve, cp2)
       ELSE IF point_is_negative_of(cp1, cp2) THEN Infinity
       ELSE OnLine(lambda, cp1, bn_addmod(cp1.x, cp2.x, prime), prime)

conditional_negate(cond, x, prime) ==
    IF cond THEN bn_subtractmod(bn_zero, x, prime) ELSE x

\* random: one answer of random32 for every limb.
curve_to_jacobian(p, prime, random) ==
    LET z == Limbs([i \in 1 .. LIMBS |-> IF i < LIMBS THEN random[i] % 2 ^ BITS
                                         ELSE (random[i] % 2 ^ (TOP - 1)) + 1])
        zz == bn_multiply(z, z, prime)
    IN [x |-> bn_multiply(p.x, zz, prime), z |-> z,
        y |-> bn_multiply(p.y, bn_multiply(z, zz, prime), prime)]
jacobian_to_curve(jp, prime) ==
    LET inv == bn_inverse(jp.z, prime)
        inv2 == bn_multiply(inv, inv, prime)
    IN Point(bn_mod(bn_multiply(jp.x, inv2, prime), prime),
             bn_mod(bn_multiply(jp.y, bn_multiply(inv2, inv, prime), prime), prime))

point_jacobian_add(p1, p2, curve) ==
    LET prime == curve.prime
        z2   == bn_multiply(p2.z, p2.z, prime)
        az   == bn_mult_k(bn_multiply(z2, z2, prime), -curve.a, prime)
        xz1  == bn_multiply(p1.x, z2, prime)
        h1   == bn_fast_mod(bn_subtractmod(xz1, p2.x, prime), prime)
        xz   == bn_add(xz1, p2.x)
        doubling == bn_is_equal(h1, prime)
        yz1  == bn_multiply(p1.y, bn_multiply(z2, p2.z, prime), prime)
        r1   == bn_subtractmod(yz1, p2.y, prime)
        yz   == bn_add(yz1, p2.y)
        x3   == bn_mult_k(bn_multiply(p2.x, p2.x, prime), 3, prime)
        r    == bn_cmov(doubling, IF curve.a # 0 THEN bn_subtractmod(x3, az, prime) ELSE x3, r1)
        h    == bn_cmov(doubling, yz, h1)
        hh   == bn_multiply(h, h, prime)
        hcby == bn_multiply(yz, bn_multiply(hh, h, prime), prime)
        hsqx == bn_multiply(xz, hh, prime)
        x    == bn_fast_mod(bn_subtractmod(bn_multiply(r, r, prime), hsqx, prime), prime)
        dx   == bn_subtractmod(bn_subtractmod(hsqx, x, prime), x, prime)
        y    == bn_subtractmod(bn_multiply(r, dx, prime), hcby, prime)
    IN [x |-> x, z |-> bn_multiply(h, p2.z, prime), y |-> bn_fast_mod(bn_mult_half(y, prime), prime)]

point_jacobian_double(p, curve) ==
    LET prime == curve.prime
        z2   == bn_multiply(p.z, p.z, prime)
        az4  == bn_mult_k(bn_multiply(z2, z2, prime), -curve.a, prime)
        x3   == bn_mult_k(bn_multiply(p.x, p.x, prime), 3, prime)
        m    == bn_mult_half(bn_subtractmod(x3, az4, prime), prime)
        ysq  == bn_multiply(p.y, p.y, prime)
        xysq == bn_multiply(ysq, p.x, prime)
        x2   == bn_fast_mod(bn_lshift(xysq), prime)
        x    == bn_fast_mod(bn_subtractmod(bn_multiply(m, m, prime), x2, prime), prime)
        my   == bn_multiply(m, bn_subtractmod(xysq, x, prime), prime)
    IN [x |-> x, z |-> bn_multiply(p.y, p.z, prime),
        y |-> bn_fast_mod(bn_subtractmod(my, bn_multiply(ysq, ysq, prime), prime), prime)]

-----------------------------------------------------------------------------
\* k, or k - order when k is even, plus the power of two above: an odd number
\* of which every five bits, overlapping by one, give an odd digit.
OddScalar(curve, k) ==
    LET order(i) == IF bn_is_even(k) THEN curve.order[i] ELSE 0
    IN Spread(Limbs([i \in 1 .. LIMBS |->
         (IF i < LIMBS THEN 2 ^ BITS ELSE 2 ^ TOP) - 1 + k[i] - order(i)]), 1, BITS, Word)
Windows == (Words * Word) \div 4
RECURSIVE Shifted(_, _)
Shifted(a, n) == IF n = 0 THEN a ELSE Shifted(bn_rshift(a), n - 1)
Window(a, i)  == Shifted(a, 4 * i)[1] % 32
Multiple(bits) == (IF bits < 16 THEN 31 - bits ELSE bits) % 16     \* the odd digit, without its sign

\* From the highest window down: four doublings, and the multiple added.  The
\* sign of z follows the sign of the digits.
RECURSIVE FromHighest(_, _, _, _, _, _)
FromHighest(curve, a, pmult, jres, sign, i) ==
    LET bits == Window(a, i)
        nsign == bits < 16
        four == point_jacobian_double(point_jacobian_double(point_jacobian_double(
                    point_jacobian_double(jres, curve), curve), curve), curve)
        turned == [four EXCEPT !.z = conditional_negate(sign # nsign, @, curve.prime)]
    IN IF i < 0 \/ jres.z = <<>>       \* compared so that TLC evaluates step after step
       THEN [jres EXCEPT !.z = conditional_negate(sign, @, curve.prime)]
       ELSE FromHighest(curve, a, pmult,
                        point_jacobian_add(pmult[Multiple(bits) \div 2 + 1], turned, curve), nsign, i - 1)

RECURSIVE OddMultiples(_, _, _, _)
OddMultiples(curve, p, two, n) ==
    IF n = 1 THEN <<p>>
    ELSE LET less == OddMultiples(curve, p, two, n - 1)
         IN Append(less, point_add(curve, less[n - 1], two))

point_multiply(curve, k, p, random) ==
    LET a == OddScalar(curve, k)
        pmult == OddMultiples(curve, p, point_double(curve, p), 8)
        top == Window(a, Windows - 1)
    IN IF bn_is_zero(k) THEN Infinity
       ELSE jacobian_to_curve(
              FromHighest(curve, a, pmult,
                          curve_to_jacobian(pmult[Multiple(top) \div 2 + 1], curve.prime, random),
                          top < 16, Windows - 2), curve.prime)

\* From the lowest window up, with a table of the odd multiples of 16^i G.
RECURSIVE FromLowest(_, _, _, _, _)
FromLowest(curve, cp, a, jres, i) ==
    IF i = Windows \/ jres.z = <<>>
    THEN [jres EXCEPT !.y = conditional_negate((a[1] \div 16) % 2 = 0, @, curve.prime)]
    ELSE LET b == Shifted(a, 4)
             m == Multiple(b[1] % 32)
             turned == [jres EXCEPT !.y = conditional_negate(m % 2 = 0, @, curve.prime)]
         IN FromLowest(curve, cp, b, point_jacobian_add(cp[i + 1][m \div 2 + 1], turned, curve), i + 1)
scalar_multiply(curve, k, random) ==
    LET a == OddScalar(curve, k)
        first == curve_to_jacobian(curve.cp[1][Multiple(a[1] % 32) \div 2 + 1], curve.prime, random)
    IN IF bn_is_zero(k) THEN Infinity
       ELSE jacobian_to_curve(FromLowest(curve, curve.cp, a, first, 1), curve.prime)

-----------------------------------------------------------------------------
\* The numbers k of RFC 6979: a key and a value, mixed with the private key
\* and the digest, give one number after another.
Size == Words * BYTES        \* bytes of a number: 32
Fill(x, n) == Limbs([i \in 1 .. n |-> x])
init_k_rfc6979(priv_key, hash) ==
    LET v0 == Fill(1, Size)
        k1 == hmac_sha256(Fill(0, Size), v0 \o <<0>> \o priv_key \o hash)
        v1 == hmac_sha256(k1, v0)
        k2 == hmac_sha256(k1, v1 \o <<1>> \o priv_key \o hash)
    IN [k |-> k2, v |-> hmac_sha256(k2, v1)]
generate_k_rfc6979(state) ==
    LET v == hmac_sha256(state.k, state.v)
        k == hmac_sha256(state.k, v \o <<0>>)
    IN [number |-> bn_read_be(v), state |-> [k |-> k, v |-> hmac_sha256(k, v)]]
generate_k_random(random) ==
    Limbs([i \in 1 .. LIMBS |-> random[i] % IF i < LIMBS THEN 2 ^ BITS ELSE 2 ^ TOP])

\* A signature with one k: r is the abscissa of k G, s = (z + r d) / k; by
\* tells the parity of the ordinate and whether r wrapped, for the s below
\* half the order.
Signature(curve, priv_key, z, k, random) ==
    LET order == curve.order
        R == scalar_multiply(curve, k, random)
        wrapped == ~bn_is_less(R.x, order)
        r == IF wrapped THEN bn_subtract(R.x, order) ELSE R.x
        rd == bn_add(bn_multiply(r, bn_read_be(priv_key), order), z)
        s == bn_mod(bn_multiply(bn_inverse(k, order), rd, order), order)
        high == bn_is_less(curve.order_half, s)
        odd == bn_is_odd(R.y)
    IN [usable |-> ~bn_is_zero(r) /\ ~bn_is_zero(s),
        sig |-> bn_write_be(r) \o bn_write_be(IF high THEN bn_subtract(order, s) ELSE s),
        by |-> (IF wrapped THEN 2 ELSE 0) + IF odd # high THEN 1 ELSE 0]

\* canonical[by] tells whether the caller takes a signature with that by.
RECURSIVE SignWith(_, _, _, _, _, _, _)
SignWith(curve, priv_key, z, rng, canonical, random, tries) ==
    LET g == generate_k_rfc6979(rng)
        s == Signature(curve, priv_key, z, g.number, random)
        again == SignWith(curve, priv_key, z, g.state, canonical, random, tries - 1)
    IN IF tries = 0 THEN [ok |-> FALSE]
       ELSE IF bn_is_zero(g.number) \/ ~bn_is_less(g.number, curve.order) THEN again
       ELSE IF ~s.usable \/ ~canonical[s.by] THEN again
       ELSE [ok |-> TRUE, sig |-> s.sig, by |-> s.by]
ecdsa_sign_digest(curve, priv_key, digest, canonical, random) ==
    SignWith(curve, priv_key, bn_read_be(digest), init_k_rfc6979(priv_key, digest), canonical, random, 10000)
ecdsa_sign(curve, priv_key, msg, canonical, random) ==
    ecdsa_sign_digest(curve, priv_key, sha256_Raw(msg), canonical, random)
ecdsa_sign_double(curve, priv_key, msg, canonical, random) ==
    ecdsa_sign_digest(curve, priv_key, sha256_Raw(sha256_Raw(msg)), canonical, random)

-----------------------------------------------------------------------------
\* Public keys: a tag, the abscissa, and the ordinate or only its parity.
Compressed(p)   == <<IF bn_is_odd(p.y) THEN 3 ELSE 2>> \o bn_write_be(p.x)
Uncompressed(p) == <<4>> \o bn_write_be(p.x) \o bn_write_be(p.y)
ecdsa_get_public_key33(curve, priv_key, random) ==
    Compressed(scalar_multiply(curve, bn_read_be(priv_key), random))
ecdsa_get_public_key65(curve, priv_key, random) ==
    Uncompressed(scalar_multiply(curve, bn_read_be(priv_key), random))

ecdsa_validate_pubkey(curve, pub) ==
    LET prime == curve.prime
        x2 == bn_subi(bn_multiply(pub.x, pub.x, prime), -curve.a, prime)
        x3 == bn_addmod(bn_multiply(pub.x, x2, prime), curve.b, prime)
    IN /\ ~point_is_infinity(pub)
       /\ bn_is_less(pub.x, prime) /\ bn_is_less(pub.y, prime)
       /\ bn_is_equal(bn_mod(x3, prime), bn_mod(bn_multiply(pub.y, pub.y, prime), prime))

uncompress_coords(curve, odd, x) ==
    LET prime == curve.prime
        x2 == bn_subi(bn_multiply(x, x, prime), -curve.a, prime)
        y  == bn_sqrt(bn_add(bn_multiply(x, x2, prime), curve.b), prime)
    IN IF odd % 2 # y[1] % 2 THEN bn_subtract(prime, y) ELSE y

ecdsa_read_pubkey(curve, pub_key) ==
    LET x == bn_read_be(SubSeq(pub_key, 2, Size + 1))
        pub == IF pub_key[1] = 4 THEN Point(x, bn_read_be(SubSeq(pub_key, Size + 2, 2 * Size + 1)))
               ELSE Point(x, uncompress_coords(curve, pub_key[1], x))
    IN IF pub_key[1] \in {2, 3, 4} /\ ecdsa_validate_pubkey(curve, pub)
       THEN [ok |-> TRUE, pub |-> pub] ELSE [ok |-> FALSE]
ecdsa_uncompress_pubkey(curve, pub_key) ==
    LET r == ecdsa_read_pubkey(curve, pub_key) IN IF r.ok THEN Uncompressed(r.pub) ELSE <<>>

Usable(curve, x) == bn_is_less(x, curve.order) /\ ~bn_is_zero(x)

\* 0, or the number of the check that failed.
ecdsa_verify_digest(curve, pub_key, sig, digest, random) ==
    LET key == ecdsa_read_pubkey(curve, pub_key)
        order == curve.order
        r == bn_read_be(SubSeq(sig, 1, Size))
        s == bn_read_be(SubSeq(sig, Size + 1, 2 * Size))
        inv == bn_inverse(s, order)
        z == bn_mod(bn_multiply(inv, bn_read_be(digest), order), order)
        u == bn_mod(bn_multiply(r, inv, order), order)
        sum == point_add(curve, point_multiply(curve, u, key.pub, random), scalar_multiply(curve, z, random))
    IN IF ~key.ok THEN 1
       ELSE IF ~Usable(curve, r) \/ ~Usable(curve, s) THEN 2
       ELSE IF bn_is_zero(z) THEN 3
       ELSE IF bn_mod(sum.x, order) # r THEN 5 ELSE 0
ecdsa_verify(curve, pub_key, sig, msg, random) ==
    ecdsa_verify_digest(curve, pub_key, sig, sha256_Raw(msg), random)
ecdsa_verify_double(curve, pub_key, sig, msg, random) ==
    ecdsa_verify_digest(curve, pub_key, sig, sha256_Raw(sha256_Raw(msg)), random)

\* The public key a signature was made with, from by; <<>> when there is none.
ecdsa_verify_digest_recover(curve, sig, digest, recid, random) ==
    LET order == curve.order
        r == bn_read_be(SubSeq(sig, 1, Size))
        s == bn_read_be(SubSeq(sig, Size + 1, 2 * Size))
        x == IF recid \div 2 = 1 THEN bn_add(r, order) ELSE r
        cp == Point(x, uncompress_coords(curve, recid % 2, x))
        e == Reduced(bn_subtractmod(order, bn_read_be(digest), order), order)
        sum == point_add(curve, scalar_multiply(curve, e, random), point_multiply(curve, s, cp, random))
    IN IF ~Usable(curve, r) \/ ~Usable(curve, s) THEN <<>>
       ELSE IF recid \div 2 = 1 /\ ~bn_is_less(x, curve.prime) THEN <<>>
       ELSE IF ~ecdsa_validate_pubkey(curve, cp) THEN <<>>
       ELSE Uncompressed(point_multiply(curve, bn_inverse(r, order), sum, random))

\* Two integers of a signature, without leading zeros and never negative.
DerInteger(n) ==
    LET m == SubSeq(n, B58!Leading(n, 0) + 1, Len(n))
        p == IF m # <<>> /\ m[1] >= BYTE \div 2 THEN <<0>> \o m ELSE m
    IN <<2, Len(p)>> \o p
ecdsa_sig_to_der(sig) ==
    LET body == DerInteger(SubSeq(sig, 1, Size)) \o DerInteger(SubSeq(sig, Size + 1, 2 * Size))
    IN <<48, Len(body)>> \o body

-----------------------------------------------------------------------------
\* Addresses and keys as text: the version in as many bytes as it needs.
VersionBytes(version) ==
    LET n == CHOOSE n \in 1 .. 4 : (n = 4 \/ version < BYTE ^ n) /\ (n = 1 \/ version >= BYTE ^ (n - 1))
    IN Limbs([i \in 1 .. n |-> (version \div BYTE ^ (n - i)) % BYTE])
ecdsa_get_pubkeyhash(pub_key) ==
    ripemd160(sha256_Raw(SubSeq(pub_key, 1, IF pub_key[1] = 4 THEN 2 * Size + 1
                                            ELSE IF pub_key[1] = 0 THEN 1 ELSE Size + 1)))
ecdsa_get_address_raw(pub_key, version) == VersionBytes(version) \o ecdsa_get_pubkeyhash(pub_key)
ecdsa_get_address(pub_key, version, addrsize) ==
    B58!base58_encode_check(ecdsa_get_address_raw(pub_key, version), addrsize)
ecdsa_get_wif(priv_key, version, wifsize) ==
    B58!base58_encode_check(VersionBytes(version) \o priv_key \o <<1>>, wifsize)
ecdsa_address_decode(addr, version, hashlen) ==
    LET v == VersionBytes(version)
        r == B58!base58_decode_check(addr, Len(v) + hashlen)
    IN IF r.ok /\ Len(r.data) = Len(v) + hashlen /\ SubSeq(r.data, 1, Len(v)) = v
       THEN r ELSE [ok |-> FALSE]
=============================================================================
