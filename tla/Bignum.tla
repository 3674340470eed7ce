------------------------------- MODULE Bignum -------------------------------
(***************************************************************************)
(* The numbers of trezor-crypto: LIMBS limbs of BITS bits, the least       *)
(* significant first, for moduli just below the power of two that LIMBS-1  *)
(* words of BITS+2 bits hold.                                              *)
(***************************************************************************)
EXTENDS Integers, Sequences, SequencesExt

CONSTANTS LIMBS, BITS,      \* 9 limbs of 30 bits in the program
          BYTES             \* bytes of a word: 4 in the program

Word == BITS + 2
Words == LIMBS - 1
TOP  == 2 * Words           \* the bits of the last limb that a modulus uses
LONG == 2 * Word
BYTE == 2 ^ (Word \div BYTES)
\* Limb i of the code is x[i + 1].

\* Sums are written digit by digit, the rest carried in a register of width bits.
RECURSIVE Spread(_, _, _, _)
Spread(addends, temp, digit, width) ==
    IF addends = <<>> THEN <<>>
    ELSE LET t == (temp + Head(addends)) % 2 ^ width
         IN <<t % 2 ^ digit>> \o Spread(Tail(addends), t \div 2 ^ digit, digit, width)

Limbs(f) == f \o <<>>
\* Asked first in what follows, it has TLC evaluate the operands at once.
Whole(x) == Len(x) = LIMBS
bn_zero == Limbs([i \in 1 .. LIMBS |-> 0])
bn_one  == <<1>> \o Tail(bn_zero)

\* Words of LIMBS-1 full registers and back: limb i lies 2i bits lower.
ToWords(x) == Limbs([i \in 1 .. Words |->
                (x[i] \div 2 ^ (2 * (i - 1)) + x[i + 1] * 2 ^ (BITS - 2 * (i - 1))) % 2 ^ Word])
FromWords(ws) ==
    Limbs([i \in 1 .. LIMBS |->
        (IF i = LIMBS THEN 0 ELSE (ws[i] * 2 ^ (2 * (i - 1))) % 2 ^ BITS)
        + IF i = 1 THEN 0 ELSE ws[i - 1] \div 2 ^ (BITS - 2 * (i - 2))])

read_be(data)  == FoldLeft(LAMBDA acc, b : acc * BYTE + b, 0, data)
write_be(w)    == Limbs([i \in 1 .. BYTES |-> (w \div BYTE ^ (BYTES - i)) % BYTE])
Part(data, i)  == SubSeq(data, BYTES * i + 1, BYTES * (i + 1))
bn_read_be(data)  == FromWords(Limbs([i \in 1 .. Words |-> read_be(Part(data, Words - i))]))
bn_write_be(x)    == FlattenSeq(Reverse(Limbs([i \in 1 .. Words |-> write_be(ToWords(x)[i])])))
bn_read_le(data)  == bn_read_be(Reverse(data))
bn_write_le(x)    == Reverse(bn_write_be(x))
bn_read_uint32(n) == <<n % 2 ^ BITS, n \div 2 ^ BITS>> \o SubSeq(bn_zero, 3, LIMBS)
bn_read_uint64(n) == <<n % 2 ^ BITS, (n \div 2 ^ BITS) % 2 ^ BITS,
                       (n \div 4 ^ BITS) % 2 ^ BITS>> \o SubSeq(bn_zero, 4, LIMBS)
bn_write_uint32(x) == (x[1] + x[2] * 2 ^ BITS) % 2 ^ Word
bn_write_uint64(x) == (x[1] + x[2] * 2 ^ BITS + x[3] * 4 ^ BITS) % 4 ^ Word

bn_is_zero(x)     == \A i \in 1 .. LIMBS : x[i] = 0
bn_is_equal(x, y) == x = y
bn_is_less(x, y)  == \E i \in 1 .. LIMBS : x[i] < y[i] /\ \A j \in i + 1 .. LIMBS : x[j] = y[j]
bn_is_odd(x)  == x[1] % 2 = 1
bn_is_even(x) == x[1] % 2 = 0
bn_cmov(cond, truecase, falsecase) == IF cond THEN truecase ELSE falsecase
BitLength(w)  == CHOOSE n \in 0 .. Word : w < 2 ^ n /\ (n > 0 => w >= 2 ^ (n - 1))
bn_bitcount(x) ==
    IF bn_is_zero(x) THEN 0
    ELSE LET i == CHOOSE i \in 1 .. LIMBS : x[i] # 0 /\ \A j \in i + 1 .. LIMBS : x[j] = 0
         IN (i - 1) * BITS + BitLength(x[i])
bn_lshift(x) == Limbs([i \in 1 .. LIMBS |-> ((2 * x[i]) % 2 ^ BITS) +
                          IF i = 1 THEN 0 ELSE (x[i - 1] \div 2 ^ (BITS - 1)) % 2])
\* Mutant: the bit that moves down from the next limb is lost.
RshiftInLimb(x) == Limbs([i \in 1 .. LIMBS |-> x[i] \div 2])
bn_rshift(x) == Limbs([i \in 1 .. LIMBS |-> x[i] \div 2 +
                          IF i = LIMBS THEN 0 ELSE (x[i + 1] % 2) * 2 ^ (BITS - 1)])

bn_add(x, y)  == Spread(Limbs([i \in 1 .. LIMBS |-> x[i] + y[i]]), 0, BITS, Word)
bn_addi(x, b) == Spread(x, b, BITS, Word)
bn_normalize(x) == bn_addi(x, 0)
bn_subi(x, b, prime) == bn_add([x EXCEPT ![1] = @ - b], prime)
bn_subtract(x, y) == Spread(Limbs([i \in 1 .. LIMBS |-> 2 ^ BITS - 1 + x[i] - y[i]]), 1, BITS, Word)
bn_subtractmod(x, y, prime) ==
    IF Whole(x) /\ Whole(y)
    THEN Spread(Limbs([i \in 1 .. LIMBS |-> 2 ^ BITS - 1 + x[i] + 2 * prime[i] - y[i]]), 1, BITS, Word)
    ELSE <<>>

\* Half of x, or of x + prime where x is odd.
bn_mult_half(x, prime) ==
    LET sum == Limbs([i \in 1 .. LIMBS |-> x[i] + IF x[1] % 2 = 1 THEN prime[i] ELSE 0])
        low == Spread(Limbs([i \in 1 .. Words |-> sum[i] \div 2 + (sum[i + 1] % 2) * 2 ^ (BITS - 1)]),
                      0, BITS, Word)
        carry[i \in 0 .. Words] ==
            IF i = 0 THEN 0
            ELSE (carry[i - 1] + sum[i] \div 2 + (sum[i + 1] % 2) * 2 ^ (BITS - 1)) \div 2 ^ BITS
    IN low \o <<carry[Words] + sum[LIMBS] \div 2>>

\* The multiple of the modulus that the bits above it stand for is taken off;
\* a constant that vanishes above keeps every step from going below zero.
Unit == 2 ^ (2 * BITS + 1)
Less(x, coef, prime) ==
    Limbs([i \in 1 .. LIMBS |-> (IF i = 1 THEN Unit ELSE Unit - 2 ^ (BITS + 1)) + x[i] - prime[i] * coef])
bn_fast_mod(x, prime) ==
    IF Whole(x) THEN Spread(Less(x, x[LIMBS] \div 2 ^ TOP, prime), 0, BITS, LONG) ELSE <<>>
bn_addmod(x, y, prime)  == bn_fast_mod(Limbs([i \in 1 .. LIMBS |-> x[i] + y[i]]), prime)
bn_mult_k(x, k, prime)  == bn_fast_mod(Limbs([i \in 1 .. LIMBS |-> k * x[i]]), prime)
bn_mod(x, prime) == IF Whole(x) /\ bn_is_less(x, prime) THEN x ELSE bn_subtract(x, prime)

bn_multiply_long(k, x) ==
    LET column(c) ==      \* of index c, counted from 0
            FoldLeft(LAMBDA sum, j : sum + IF c - j \in 0 .. LIMBS - 1 THEN k[j + 1] * x[c - j + 1] ELSE 0,
                     0, Limbs([j \in 1 .. LIMBS |-> j - 1]))
    IN Spread(Limbs([i \in 1 .. 2 * LIMBS |-> column(i - 1)]), 0, BITS, LONG)

\* The limbs up to i+1 of a product lose the modulus, i-LIMBS+1 limbs up.
bn_multiply_reduce_step(res, prime, i) ==
    LET coef == (res[i + 1] \div 2 ^ TOP + res[i + 2] * 2 ^ (BITS - TOP)) % 2 ^ Word
        low  == i - LIMBS + 1
        part == Less(SubSeq(res, low + 1, low + LIMBS), coef, prime)
    IN SubSeq(res, 1, low)
       \o Spread(part \o <<Unit - 2 ^ (BITS + 1) + res[i + 2]>>, 0, BITS, LONG)
       \o SubSeq(res, i + 3, 2 * LIMBS)

RECURSIVE ReduceFrom(_, _, _)
ReduceFrom(res, prime, i) ==
    IF i < LIMBS - 1 THEN SubSeq(res, 1, LIMBS)
    ELSE ReduceFrom(bn_multiply_reduce_step(res, prime, i), prime, i - 1)
bn_multiply_reduce(res, prime) == ReduceFrom(res, prime, 2 * LIMBS - 2)
bn_multiply(k, x, prime) ==
    IF Whole(k) /\ Whole(x) THEN bn_multiply_reduce(bn_multiply_long(k, x), prime) ELSE <<>>

\* x to the power whose limbs are e, the least significant bit first.
LimbBits(e, i) == LET n == IF i < LIMBS THEN BITS ELSE BitLength(e[i])
                  IN Limbs([j \in 1 .. n |-> (e[i] \div 2 ^ (j - 1)) % 2])
RECURSIVE Raised(_, _, _, _)
Raised(x, res, bits, prime) ==
    IF bits = <<>> \/ ~Whole(x) \/ ~Whole(res) THEN res
    ELSE Raised(bn_multiply(x, x, prime), IF Head(bits) = 1 THEN bn_multiply(x, res, prime) ELSE res,
                Tail(bits), prime)
Power(x, e, prime) ==
    bn_mod(Raised(x, bn_one, FlattenSeq(Limbs([i \in 1 .. LIMBS |-> LimbBits(e, i)])), prime), prime)

bn_sqrt(x, prime) == Power(x, bn_rshift(bn_rshift(bn_addi(prime, 1))), prime)
SlowInverse(x, prime) == Power(x, [prime EXCEPT ![1] = @ - 2], prime)

-----------------------------------------------------------------------------
(* The almost inverse.  Two registers of LIMBS words share their space: len *)
(* words of u (or v), the least significant first, then s (or r), the most  *)
(* significant first.                                                       *)
RECURSIVE Trimmed(_), ByWords(_, _)
Trimmed(c) == IF c.len = 0 THEN c ELSE IF c.a[c.len] = 0 THEN Trimmed([c EXCEPT !.len = @ - 1]) ELSE c
ByWords(c, k) ==
    IF c.a[1] # 0 THEN [c |-> c, k |-> k]
    ELSE ByWords([a |-> Tail(c.a) \o <<0>>, len |-> c.len - 1], k + Word)
ByBits(c, k) ==
    LET j == CHOOSE j \in 0 .. Word - 1 : c.a[1] % 2 ^ j = 0 /\ (c.a[1] \div 2 ^ j) % 2 = 1
        right(i) == (c.a[i] \div 2 ^ j
                     + IF i < c.len THEN c.a[i + 1] * 2 ^ (Word - j) ELSE 0) % 2 ^ Word
        len == IF right(c.len) = 0 THEN c.len - 1 ELSE c.len
        left(i) == ((IF i <= c.len THEN 0 ELSE c.a[i] * 2 ^ j) % 2 ^ Word)
                   + IF i < LIMBS THEN c.a[i + 1] \div 2 ^ (Word - j) ELSE 0
    IN IF j = 0 THEN [c |-> c, k |-> k]
       ELSE [c |-> [a |-> Limbs([i \in 1 .. LIMBS |-> IF i <= len THEN right(i) ELSE left(i)]),
                    len |-> len],
             k |-> k + j]

Compare(u, v) ==
    IF u.len # v.len THEN u.len - v.len
    ELSE IF \A i \in 1 .. u.len : u.a[i] = v.a[i] THEN 0
    ELSE LET i == CHOOSE i \in 1 .. u.len : u.a[i] # v.a[i] /\ \A j \in i + 1 .. u.len : u.a[j] = v.a[j]
         IN IF u.a[i] > v.a[i] THEN 1 ELSE -1

\* The larger number loses the smaller, whose cofactor gains the other's.
Taken(even, odd) ==
    [even EXCEPT !.a = Spread(Limbs([i \in 1 .. even.len |->
         2 ^ Word - 1 + even.a[i] - IF i <= odd.len THEN odd.a[i] ELSE 0]), 1, Word, LONG)
         \o SubSeq(even.a, even.len + 1, LIMBS)]
Gained(odd, even) ==
    [odd EXCEPT !.a = SubSeq(odd.a, 1, odd.len)
         \o Reverse(Spread(Reverse(Limbs([i \in 1 .. LIMBS - odd.len |->
              odd.a[odd.len + i] + IF odd.len + i > even.len THEN even.a[odd.len + i] ELSE 0])),
              0, Word, LONG))]

\* even is the register to be halved; first tells that it is us.
RECURSIVE AlmostInverse(_, _, _, _)
AlmostInverse(odd, even, k, first) ==
    LET w == ByWords(Trimmed(even), k)
        b == ByBits(w.c, w.k)
        us == IF first THEN b.c ELSE odd
        vr == IF first THEN odd ELSE b.c
        cmp == Compare(us, vr)
    IN IF cmp = 0 THEN [us |-> us, k |-> b.k]
       ELSE IF cmp > 0 THEN AlmostInverse(Gained(vr, us), Taken(us, vr), b.k, TRUE)
       ELSE AlmostInverse(Gained(us, vr), Taken(vr, us), b.k, FALSE)

\* -1 / prime modulo a word, by repeated squaring.
RECURSIVE WordInverse(_, _)
WordInverse(amone, inverse) ==
    IF amone = 0 THEN inverse
    ELSE LET sq == (amone * amone) % 2 ^ Word
         IN WordInverse(sq, (inverse * (sq + 1)) % 2 ^ Word)

\* s is divided by 2^k, a word at a time and then by the bits left.
RECURSIVE Divided2k(_, _, _, _)
Divided2k(s, pp, inverse, k) ==
    LET n == IF k >= Word THEN Word ELSE k
        factor == (inverse * s[1]) % 2 ^ n
        plus == Limbs([i \in 1 .. Words |-> s[i] + pp[i] * factor])
        rest == Limbs([i \in 1 .. Words - 1 |-> plus[i + 1] * 2 ^ (Word - n)])
    IN IF k = 0 THEN s
       ELSE Divided2k(Spread(rest \o <<0>>, plus[1] \div 2 ^ n, Word, LONG), pp, inverse, k - n)

bn_inverse(x0, prime) ==
    LET pp == ToWords(prime)
        x  == ToWords(bn_mod(bn_fast_mod(x0, prime), prime))
        r  == AlmostInverse([a |-> pp \o <<1>>, len |-> Words], [a |-> x \o <<0>>, len |-> Words], 0, FALSE)
    IN IF Whole(x0) /\ r.k >= 0
       THEN FromWords(Divided2k(Reverse(SubSeq(r.us.a, 2, LIMBS)), pp,
                                WordInverse(pp[1] - 1, (pp[1] - 2) % 2 ^ Word), r.k))
       ELSE <<>>

-----------------------------------------------------------------------------
\* Division by a small number: the quotient and the remainder.
RECURSIVE DividedFrom(_, _, _, _)
DividedFrom(x, i, rem, d) ==
    IF i = 0 THEN [q |-> x, r |-> rem]
    ELSE LET tmp == rem * (2 ^ BITS % d) + x[i]
         IN DividedFrom([x EXCEPT ![i] = rem * (2 ^ BITS \div d) + tmp \div d], i - 1, tmp % d, d)
SmallDivided(x, d) == DividedFrom([x EXCEPT ![LIMBS] = @ \div d], LIMBS - 1, x[LIMBS] % d, d)
bn_divmod58(x)   == SmallDivided(x, 58)
bn_divmod1000(x) == SmallDivided(x, 1000)
=============================================================================
