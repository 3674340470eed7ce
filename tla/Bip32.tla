-------------------------------- MODULE Bip32 --------------------------------
(***************************************************************************)
(* Hierarchical keys: a node is a key of the curve with a chain code, its  *)
(* children are derived from it by number.  A public key that has not been *)
(* computed starts with 0.                                                 *)
(***************************************************************************)
EXTENDS Ecdsa

CONSTANTS hmac_sha512(_, _),        \* twice Size bytes
          keccak(_),
          BIP32_CACHE_SIZE

NoKey  == Fill(0, Size)
NoPub  == Fill(0, Size + 1)
Hardened(i) == i >= 2 ^ (Word - 1)
Left(I)  == SubSeq(I, 1, Size)
Right(I) == SubSeq(I, Size + 1, 2 * Size)
HDNode(depth, i, chain, priv, pub) ==
    [depth |-> depth, child_num |-> i, chain_code |-> chain, private_key |-> priv, public_key |-> pub]
NoNode == [ok |-> FALSE]
Found(node) == [ok |-> TRUE, node |-> node]

hdnode_from_xpub(depth, i, chain, pub) ==
    IF pub[1] \in {2, 3} THEN Found(HDNode(depth, i, chain, NoKey, pub)) ELSE NoNode
hdnode_from_xprv(curve, depth, i, chain, priv) ==
    IF Usable(curve, bn_read_be(priv)) THEN Found(HDNode(depth, i, chain, priv, NoPub)) ELSE NoNode

RECURSIVE SeedFrom(_, _, _)
SeedFrom(curve, name, I) ==
    IF Usable(curve, bn_read_be(Left(I))) THEN I ELSE SeedFrom(curve, name, hmac_sha512(name, I))
hdnode_from_seed(curve, name, seed) ==
    LET I == SeedFrom(curve, name, hmac_sha512(name, seed)) IN HDNode(0, 0, Right(I), Left(I), NoPub)

hdnode_fill_public_key(curve, node, random) ==
    IF node.public_key[1] # 0 THEN node
    ELSE [node EXCEPT !.public_key = ecdsa_get_public_key33(curve, node.private_key, random)]
hdnode_fingerprint(curve, node, random) ==
    read_be(SubSeq(ripemd160(sha256_Raw(hdnode_fill_public_key(curve, node, random).public_key)), 1, BYTES))

\* A child's private key is the parent's plus the left half of the digest of
\* the parent's key and the number.  When that is no key, the digest of the
\* right half is tried.
RECURSIVE PrivateFrom(_, _, _, _, _)
PrivateFrom(curve, chain, a, i, I) ==
    LET b == bn_read_be(Left(I))
        sum == bn_mod(bn_addmod(b, a, curve.order), curve.order)
    IN IF bn_is_less(b, curve.order) /\ ~bn_is_zero(sum)
       THEN [key |-> bn_write_be(sum), chain |-> Right(I)]
       ELSE PrivateFrom(curve, chain, a, i, hmac_sha512(chain, <<1>> \o Right(I) \o write_be(i)))
hdnode_private_ckd(curve, node, i, random) ==
    LET data == IF Hardened(i) THEN <<0>> \o node.private_key
                ELSE hdnode_fill_public_key(curve, node, random).public_key
        r == PrivateFrom(curve, node.chain_code, bn_read_be(node.private_key), i,
                         hmac_sha512(node.chain_code, data \o write_be(i)))
    IN HDNode(node.depth + 1, i, r.chain, r.key, NoPub)

\* Mutant: a digest at or above the order is taken.
AnyPublicFrom(curve, chain, a, i, data, random) ==
    LET I == hmac_sha512(chain, data \o write_be(i))
    IN [key |-> point_add(curve, a, scalar_multiply(curve, bn_read_be(Left(I)), random)), chain |-> Right(I)]
RECURSIVE PublicFrom(_, _, _, _, _, _)
PublicFrom(curve, chain, a, i, data, random) ==
    LET I == hmac_sha512(chain, data \o write_be(i))
        c == bn_read_be(Left(I))
        b == point_add(curve, a, scalar_multiply(curve, c, random))
    IN IF bn_is_less(c, curve.order) /\ ~point_is_infinity(b)
       THEN [key |-> b, chain |-> Right(I)]
       ELSE PublicFrom(curve, chain, a, i, <<1>> \o Right(I), random)
hdnode_public_ckd(curve, node, i, random) ==
    LET pub == ecdsa_read_pubkey(curve, node.public_key)
        r == PublicFrom(curve, node.chain_code, pub.pub, i, node.public_key, random)
    IN IF Hardened(i) \/ ~pub.ok THEN NoNode
       ELSE Found(HDNode(node.depth + 1, i, r.chain, NoKey, Compressed(r.key)))
hdnode_public_ckd_address_optimized(curve, pub, public_key, chain, i, version, addrsize, random) ==
    IF Hardened(i) THEN [ok |-> FALSE]
    ELSE ecdsa_get_address(Compressed(PublicFrom(curve, chain, pub, i, public_key, random).key),
                           version, addrsize)

-----------------------------------------------------------------------------
\* A ring of the nodes derived last, all but the last step of a path, for one
\* root: another root empties it.
EmptyCache == [root |-> <<>>, index |-> 1, nodes |-> Fill(<<>>, BIP32_CACHE_SIZE)]

RECURSIVE DerivedBy(_, _, _, _)
DerivedBy(curve, node, path, random) ==
    IF path = <<>> THEN node
    ELSE DerivedBy(curve, hdnode_private_ckd(curve, node, Head(path), random), Tail(path), random)

hdnode_private_ckd_cached(curve, cache0, node, path, random) ==
    LET cache == IF cache0.root = <<node>> THEN cache0 ELSE [EmptyCache EXCEPT !.root = <<node>>]
        most  == Front(path)
        known == {j \in 1 .. BIP32_CACHE_SIZE : cache.nodes[j] # <<>> /\ cache.nodes[j][1].path = most}
        hit   == CHOOSE j \in known : \A i \in known : j <= i
        above == IF known # {} THEN cache.nodes[hit][1].node ELSE DerivedBy(curve, node, most, random)
        kept  == IF known # {} THEN cache
                 ELSE [cache EXCEPT !.nodes[cache.index] = <<[path |-> most, node |-> above]>>,
                                    !.index = (@ % BIP32_CACHE_SIZE) + 1]
    IN IF path = <<>> THEN [cache |-> cache0, node |-> node]
       ELSE IF Len(path) = 1
       THEN [cache |-> cache0, node |-> hdnode_private_ckd(curve, node, path[1], random)]
       ELSE [cache |-> kept, node |-> hdnode_private_ckd(curve, above, Last(path), random)]

-----------------------------------------------------------------------------
hdnode_get_address_raw(curve, node, version, random) ==
    ecdsa_get_address_raw(hdnode_fill_public_key(curve, node, random).public_key, version)
hdnode_get_address(curve, node, version, addrsize, random) ==
    ecdsa_get_address(hdnode_fill_public_key(curve, node, random).public_key, version, addrsize)
hdnode_get_ethereum_pubkeyhash(curve, node, hashlen, random) ==
    LET hash == keccak(Tail(ecdsa_get_public_key65(curve, node.private_key, random)))
    IN SubSeq(hash, Len(hash) - hashlen + 1, Len(hash))
hdnode_sign(curve, node, msg, canonical, random) ==
    ecdsa_sign(curve, node.private_key, msg, canonical, random)
hdnode_sign_digest(curve, node, digest, canonical, random) ==
    ecdsa_sign_digest(curve, node.private_key, digest, canonical, random)
hdnode_get_shared_key(curve, node, peer_public_key, random) ==
    LET r == ecdsa_read_pubkey(curve, peer_public_key)
    IN IF ~r.ok THEN <<>>
       ELSE Uncompressed(point_multiply(curve, bn_read_be(node.private_key), r.pub, random))

\* The versions of the two kinds of text, cut to a word.
XPUB == 76067358 % 2 ^ Word
XPRV == 76066276 % 2 ^ Word
hdnode_serialize(node, fingerprint, version, use_public, strsize) ==
    B58!base58_encode_check(
        write_be(version) \o <<node.depth % BYTE>> \o write_be(fingerprint) \o write_be(node.child_num)
        \o node.chain_code \o (IF use_public THEN node.public_key ELSE <<0>> \o node.private_key), strsize)
hdnode_serialize_public(node, fingerprint, strsize)  == hdnode_serialize(node, fingerprint, XPUB, TRUE, strsize)
hdnode_serialize_private(node, fingerprint, strsize) == hdnode_serialize(node, fingerprint, XPRV, FALSE, strsize)

hdnode_deserialize(str) ==
    LET size == 3 * BYTES + 1 + Size + Size + 1
        r == B58!base58_decode_check(str, size)
        field(from, n) == SubSeq(r.data, from + 1, from + n)
        version == read_be(field(0, BYTES))
        key == field(3 * BYTES + 1 + Size, Size + 1)
        node(priv, pub) == Found(HDNode(r.data[BYTES + 1], read_be(field(2 * BYTES + 1, BYTES)),
                                        field(3 * BYTES + 1, Size), priv, pub))
    IN IF ~r.ok THEN -1
       ELSE IF Len(r.data) # size THEN -1
       ELSE IF version = XPUB THEN node(NoKey, key)
       ELSE IF version # XPRV THEN -3
       ELSE IF key[1] # 0 THEN -2
       ELSE node(Tail(key), NoPub)
=============================================================================
