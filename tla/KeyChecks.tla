------------------------------ MODULE KeyChecks ------------------------------
(***************************************************************************)
(* What the numbers, points, signatures and derived keys of trezor-crypto  *)
(* promise, told by integers and the group of the curve.                   *)
(***************************************************************************)
EXTENDS Bip32

Val(x) == FoldRight(LAMBDA d, v : v * 2 ^ BITS + d, x, 0)
Of(v)  == Limbs([i \in 1 .. LIMBS |-> (v \div 2 ^ (BITS * (i - 1))) % 2 ^ BITS])
Normal(x) == Len(x) = LIMBS /\ \A i \in 1 .. LIMBS : x[i] \in 0 .. 2 ^ BITS - 1
MulMod(x, y, m) == ((((((x % m) * (y \div 1024)) % m) * 1024) % m) + (((x % m) * (y % 1024)) % m)) % m
RECURSIVE PowMod(_, _, _)
PowMod(x, e, m) ==
    LET h == PowMod(x, e \div 2, m)
    IN IF e = 0 THEN 1
       ELSE IF e % 2 = 0 THEN MulMod(h, h, m) ELSE MulMod(MulMod(h, h, m), x % m, m)

\* The group: <<>> or <<x, y>>.
EcAdd(c, P, Q) ==
    LET slope == IF P = Q THEN MulMod((3 * MulMod(P[1], P[1], c.p) + c.a) % c.p, PowMod(2 * P[2], c.p - 2, c.p), c.p)
                 ELSE MulMod((Q[2] - P[2]) % c.p, PowMod((Q[1] - P[1]) % c.p, c.p - 2, c.p), c.p)
        x == (MulMod(slope, slope, c.p) - P[1] - Q[1]) % c.p
    IN IF P = <<>> THEN Q ELSE IF Q = <<>> THEN P
       ELSE IF P[1] = Q[1] /\ (P[2] + Q[2]) % c.p = 0 THEN <<>>
       ELSE <<x, (MulMod(slope, (P[1] - x) % c.p, c.p) - P[2]) % c.p>>
RECURSIVE EcMul(_, _, _)
EcMul(c, k, P) ==
    LET h == EcMul(c, k \div 2, EcAdd(c, P, P))
    IN IF k = 0 \/ P = <<>> THEN <<>> ELSE IF k % 2 = 1 THEN EcAdd(c, P, h) ELSE h
PointOf(P) == IF P = <<>> THEN Infinity ELSE Point(Of(P[1]), Of(P[2]))

\* The table of a curve: odd multiples of 16^i G.
CurveOf(c) ==
    [prime |-> Of(c.p), order |-> Of(c.n), order_half |-> Of(c.n \div 2), a |-> c.a, b |-> Of(c.b),
     G |-> PointOf(c.g),
     cp |-> Limbs([i \in 1 .. Windows |-> Limbs([j \in 1 .. 8 |->
                PointOf(EcMul(c, ((2 * j - 1) * 16 ^ (i - 1)) % c.n, c.g))])])]

-----------------------------------------------------------------------------
Number(f, x, y, c) ==
    LET a == Of(x)  b == Of(y)  p == Of(c.p)
    IN CASE f = "bn_add"  -> bn_add(a, b)
         [] f = "bn_addi" -> bn_addi(a, y)
         [] f = "bn_subi" -> bn_subi(a, y, p)
         [] f = "bn_subtract" -> bn_subtract(a, b)
         [] f = "bn_subtractmod" -> bn_subtractmod(a, b, p)
         [] f = "bn_addmod"   -> bn_addmod(a, b, p)
         [] f = "bn_multiply" -> bn_multiply(a, b, p)
         [] f = "bn_mult_k"   -> bn_mult_k(a, y, p)
         [] f = "bn_fast_mod" -> bn_fast_mod(a, p)
         [] f = "bn_mod"      -> bn_mod(a, p)
         [] f = "bn_mult_half" -> bn_mult_half(a, p)
         [] f = "bn_lshift"   -> bn_lshift(a)
         [] f = "bn_rshift"   -> bn_rshift(a)
         [] f = "bn_sqrt"     -> bn_sqrt(bn_multiply(a, a, p), p)
         [] f = "bn_inverse"  -> bn_inverse(a, p)
         [] f = "SlowInverse" -> SlowInverse(a, p)
         [] f = "bn_divmod58" -> bn_divmod58(a)
         [] f = "bn_divmod1000" -> bn_divmod1000(a)
         [] f = "bn_is_less"  -> bn_is_less(a, b)
         [] f = "bn_bitcount" -> bn_bitcount(a)
         [] f = "read_be" -> bn_read_be(bn_write_be(a))
         [] f = "read_le" -> bn_read_le(bn_write_le(a))
         [] f = "uint32" -> bn_write_uint32(bn_read_uint32(x))
         [] f = "uint64" -> bn_write_uint64(bn_read_uint64(x))

\* A result stands for the right residue; where the source promises a number
\* partly reduced (below twice the modulus) or reduced, it is.
NumberRight(f, x, y, c, r) ==
    LET p == c.p
        partly(v) == Normal(r) /\ Val(r) < 2 * p /\ (Val(r) - v) % p = 0
    IN CASE f = "bn_add"  -> r = Of(x + y)
         [] f = "bn_addi" -> r = Of(x + y)
         [] f = "bn_subi" -> Normal(r) /\ Val(r) = x - y + p
         [] f = "bn_subtract" -> x >= y => r = Of(x - y)
         [] f = "bn_subtractmod" -> r = Of(x - y + 2 * p)
         [] f = "bn_addmod"   -> partly(x + y)
         [] f = "bn_multiply" -> partly(MulMod(x, y, p))
         [] f = "bn_mult_k"   -> partly(x * y)
         [] f = "bn_fast_mod" -> partly(x)
         [] f = "bn_mod"      -> r = Of(x % p)
         [] f = "bn_mult_half" -> partly(IF x % 2 = 0 THEN x \div 2 ELSE (x + p) \div 2)
         [] f = "bn_lshift"   -> r = Of(2 * x)
         [] f = "bn_rshift"   -> r = Of(x \div 2)
         [] f = "bn_sqrt"     -> Val(r) \in {x % p, (p - x) % p}
         [] f \in {"bn_inverse", "SlowInverse"} -> Normal(r) /\ Val(r) < p /\ MulMod(Val(r), x % p, p) = 1
         [] f = "bn_divmod58" -> r = [q |-> Of(x \div 58), r |-> x % 58]
         [] f = "bn_divmod1000" -> r = [q |-> Of(x \div 1000), r |-> x % 1000]
         [] f = "bn_is_less"  -> r = (x < y)
         [] f = "bn_bitcount" -> x < 2 ^ r /\ (r > 0 => x >= 2 ^ (r - 1))
         [] f \in {"read_be", "read_le"} -> r = Of(x)
         [] f \in {"uint32", "uint64"} -> r = x

-----------------------------------------------------------------------------
\* Sums of multiples of the base point, and multiples of a multiple.
Curve(f, x, y, c, curve, random) ==
    LET P == EcMul(c, x, c.g)   Q == EcMul(c, y, c.g)
        J(p) == curve_to_jacobian(p, curve.prime, random)
    IN CASE f = "point_add" -> point_add(curve, PointOf(P), PointOf(Q))
         [] f = "point_double" -> point_double(curve, PointOf(P))
         [] f = "point_jacobian_add" ->
               jacobian_to_curve(point_jacobian_add(PointOf(P), J(PointOf(Q)), curve), curve.prime)
         [] f = "point_jacobian_double" ->
               jacobian_to_curve(point_jacobian_double(J(PointOf(P)), curve), curve.prime)
         [] f = "point_multiply" -> point_multiply(curve, Of(x), PointOf(Q), random)
         [] f = "scalar_multiply" -> scalar_multiply(curve, Of(x), random)
CurveRight(f, x, y, c, r) ==
    LET k == CASE f \in {"point_add", "point_jacobian_add"} -> (x + y) % c.n
               [] f \in {"point_double", "point_jacobian_double"} -> (2 * x) % c.n
               [] f = "point_multiply" -> MulMod(x, y, c.n)
               [] f = "scalar_multiply" -> x
    IN r = PointOf(EcMul(c, k, c.g))
-----------------------------------------------------------------------------
\* Signatures, keys as bytes and text, and derived keys: what comes back.
Bytes(v) == bn_write_be(Of(v))
AnyBy == [by \in 0 .. 3 |-> TRUE]
Root(d, e) == HDNode(3, e % 2 ^ Word, Bytes(e), Bytes(d), NoPub)
RECURSIVE CachedCalls(_, _, _, _)
CachedCalls(curve, cache, calls, random) ==
    IF calls = <<>> THEN <<>>
    ELSE LET r == hdnode_private_ckd_cached(curve, cache, Root(calls[1].root, 77), calls[1].path, random)
         IN <<r.node>> \o CachedCalls(curve, r.cache, Tail(calls), random)

KeyAnswer(f, d, e, curve, random) ==
    LET pub33 == ecdsa_get_public_key33(curve, Bytes(d), random)
        fill(node) == hdnode_fill_public_key(curve, node, random)
    IN CASE f = "sign"   -> hdnode_sign_digest(curve, Root(d, 1), Bytes(e), AnyBy, random)
         [] f = "sign_low"  -> ecdsa_sign_digest(curve, Bytes(d), Bytes(e), [AnyBy EXCEPT ![1] = FALSE], random)
         [] f = "sign_msg"  -> hdnode_sign(curve, Root(d, 1), Bytes(e), AnyBy, random)
         [] f = "sign_twice" -> ecdsa_sign_double(curve, Bytes(d), Bytes(e), AnyBy, random)
         [] f = "sign_k"  -> Signature(curve, Bytes(d), Of(4660), Of(e), random)
         [] f = "recover" -> ecdsa_verify_digest_recover(curve, Bytes(d) \o Bytes(e), Bytes(9), 2, random)
         [] f = "read"    -> ecdsa_read_pubkey(curve, <<2 + e>> \o Bytes(d))
         [] f = "uncompress" -> ecdsa_uncompress_pubkey(curve, pub33)
         [] f = "der"     -> ecdsa_sig_to_der(Bytes(d) \o Bytes(e))
         [] f = "wif"     -> ecdsa_get_wif(Bytes(d), e, 40)
         [] f = "address" -> ecdsa_address_decode(ecdsa_get_address(pub33, e, 40).str, e, 4)
         [] f = "address_of_other" -> ecdsa_address_decode(ecdsa_get_address(pub33, e, 40).str, e + 1, 4)
         [] f = "base58"  -> B58!base58_encode_check(Fill(0, e) \o Bytes(d), 40)
         [] f = "child"   -> hdnode_public_ckd(curve, fill(Root(d, 77)), e, random)
         [] f = "grandchild" -> DerivedBy(curve, Root(d, 77), <<e, e, e + 1>>, random)
         [] f = "child_address" ->
               hdnode_public_ckd_address_optimized(curve, ecdsa_read_pubkey(curve, pub33).pub, pub33, Bytes(77),
                                                   e, 9, 40, random)
         [] f = "cached"  -> CachedCalls(curve, EmptyCache, d, random)
         [] f = "private_text" -> hdnode_deserialize(hdnode_serialize_private(Root(d, e), e, 60).str)
         [] f = "public_text"  -> hdnode_deserialize(hdnode_serialize_public(fill(Root(d, e)), e, 60).str)
         [] f = "shared"  -> hdnode_get_shared_key(curve, Root(d, 1), ecdsa_get_public_key33(curve, Bytes(e), random),
                                                   random)
         [] f = "seed"    -> hdnode_from_seed(curve, Bytes(d), Bytes(e))
         [] f = "account" -> hdnode_get_ethereum_pubkeyhash(curve, Root(d, 1), 3, random)
         [] f = "hash"    -> hdnode_get_address(curve, Root(d, 1), e, 40, random)
         [] f = "xprv"    -> hdnode_from_xprv(curve, 1, 2, Bytes(e), Bytes(d))

\* A signature of digest by the key d is accepted, of no other digest; its s
\* is not above half the order; and it tells the public key.
Signs(curve, c, d, digest, r, random) ==
    LET pub65 == ecdsa_get_public_key65(curve, Bytes(d), random)
        sVal == Val(bn_read_be(SubSeq(r.sig, Size + 1, 2 * Size)))
        other == Bytes((Val(bn_read_be(digest)) + 1) % c.n)
    IN /\ ecdsa_verify_digest(curve, pub65, r.sig, digest, random) = 0
       /\ ecdsa_verify_digest(curve, ecdsa_get_public_key33(curve, Bytes(d), random), r.sig, digest, random) = 0
       /\ ecdsa_verify_digest(curve, pub65, r.sig, other, random) # 0
       /\ ecdsa_verify_digest_recover(curve, r.sig, digest, r.by, random) = pub65
       /\ sVal \in 1 .. c.n \div 2
IntegerAt(der, at) == read_be(SubSeq(der, at + 2, at + 1 + der[at + 1]))
Shortest(der, at) == der[at] = 2 /\ der[at + 2] < BYTE \div 2
                     /\ (der[at + 2] = 0 /\ der[at + 1] > 1 => der[at + 3] >= BYTE \div 2)
Square(c, x) == (MulMod(x, (MulMod(x, x, c.p) + c.a) % c.p, c.p) + c.b) % c.p

KeyAnswerRight(f, d, e, c, curve, random, r) ==
    LET P(k) == PointOf(EcMul(c, k, c.g))
        fill(node) == hdnode_fill_public_key(curve, node, random)
        second == IF f = "der" THEN 5 + r[4] ELSE 0
    IN CASE f = "sign"       -> r.ok /\ Signs(curve, c, d, Bytes(e), r, random)
         [] f = "sign_low"   -> r.ok /\ r.by # 1 /\ Signs(curve, c, d, Bytes(e), r, random)
         [] f = "sign_msg"   -> /\ Signs(curve, c, d, sha256_Raw(Bytes(e)), r, random)
                                /\ ecdsa_verify(curve, Compressed(P(d)), r.sig, Bytes(e), random) = 0
         [] f = "sign_twice" -> /\ Signs(curve, c, d, sha256_Raw(sha256_Raw(Bytes(e))), r, random)
                                /\ ecdsa_verify_double(curve, Compressed(P(d)), r.sig, Bytes(e), random) = 0
         [] f = "sign_k"     -> r.usable => Signs(curve, c, d, Bytes(4660), r, random)
         [] f = "recover"    -> r = <<>> \/ d + c.n < c.p
         [] f = "read" -> LET root == PowMod(Square(c, d), (c.p + 1) \div 4, c.p)
                          IN /\ r.ok <=> d < c.p /\ MulMod(root, root, c.p) = Square(c, d)
                             /\ r.ok => Val(r.pub.y) % 2 = e % 2 /\ Val(r.pub.y) \in {root, c.p - root}
         [] f = "uncompress" -> r = Uncompressed(P(d))
         [] f = "der" -> /\ r[1] = 48 /\ r[2] = Len(r) - 2
                         /\ Shortest(r, 3) /\ IntegerAt(r, 3) = d
                         /\ Shortest(r, second) /\ IntegerAt(r, second) = e
         [] f = "wif" -> /\ r.ok
                         /\ B58!base58_decode_check(r.str, 10).data = VersionBytes(e) \o Bytes(d) \o <<1>>
         [] f = "address" -> r.ok /\ r.data = VersionBytes(e) \o ecdsa_get_pubkeyhash(Compressed(P(d)))
         [] f = "address_of_other" -> ~r.ok
         [] f = "base58" -> /\ r.ok
                            /\ B58!base58_decode_check(r.str, e + 4).data = Fill(0, e) \o Bytes(d)
                            /\ ~B58!base58_decode_check([r.str EXCEPT ![Len(r.str)] = (@ + 1) % 58], e + 4).ok
                            /\ ~B58!base58_decode_check(Append(r.str, B58!NoDigit), e + 4).ok
         [] f = "child" -> LET child == fill(hdnode_private_ckd(curve, Root(d, 77), e, random))
                           IN IF Hardened(e) THEN ~r.ok
                              ELSE r.ok /\ r.node = [child EXCEPT !.private_key = NoKey]
         [] f = "grandchild" -> r.depth = 6 /\ r.child_num = e + 1 /\ Usable(curve, bn_read_be(r.private_key))
         [] f = "child_address" ->
               IF Hardened(e) THEN ~r.ok
               ELSE r = hdnode_get_address(curve, hdnode_private_ckd(curve, Root(d, 77), e, random), 9, 40, random)
         [] f = "cached" -> r = [i \in 1 .. Len(d) |-> DerivedBy(curve, Root(d[i].root, 77), d[i].path, random)] \o <<>>
         [] f = "private_text" -> r = Found([Root(d, e) EXCEPT !.public_key = NoPub])
         [] f = "public_text"  -> r = Found([fill(Root(d, e)) EXCEPT !.private_key = NoKey])
         [] f = "shared" -> r = Uncompressed(P(MulMod(d, e, c.n)))
         [] f = "seed"   -> Usable(curve, bn_read_be(r.private_key)) /\ r.depth = 0
         [] f = "account" -> r = Tail(keccak(Tail(Uncompressed(P(d)))))
         [] f = "hash"   -> B58!base58_decode_check(r.str, 4 + Len(VersionBytes(e))).data
                                = hdnode_get_address_raw(curve, Root(d, 1), e, random)
         [] f = "xprv"   -> r.ok <=> d \in 1 .. c.n - 1
=============================================================================
