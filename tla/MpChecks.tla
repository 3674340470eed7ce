------------------------------ MODULE MpChecks ------------------------------
(***************************************************************************)
(* What libtommath promises: every operation answers as the integers do,   *)
(* with a result in its one normal form, whichever way it took.  It does   *)
(* not where mp_invmod takes a negative number and an odd modulus, which   *)
(* nothing here asks.                                                      *)
(***************************************************************************)
EXTENDS MpModular

\* The integer and its one representation.
Val(a) == (IF a.sign = MP_NEG THEN -1 ELSE 1) * FoldRight(LAMBDA d, v : v * Base + d, a.dp, 0)
Magnitude(v) == IF v < 0 THEN -v ELSE v
RECURSIVE DigitsOf(_, _)
DigitsOf(v, radix) == IF v = 0 THEN <<>> ELSE <<v % radix>> \o DigitsOf(v \div radix, radix)
Of(v) == [sign |-> IF v < 0 THEN MP_NEG ELSE MP_ZPOS, dp |-> DigitsOf(Magnitude(v), Base)]

Quot(a, b) == LET q == Magnitude(a) \div Magnitude(b) IN IF (a < 0) = (b < 0) THEN q ELSE -q
Rem(a, b)  == LET r == Magnitude(a) % Magnitude(b) IN IF a < 0 THEN -r ELSE r
RECURSIVE BitsAnd(_, _)
BitsAnd(a, b) == IF a = 0 \/ b = 0 THEN 0
                 ELSE 2 * BitsAnd(a \div 2, b \div 2) + IF (a % 2) + (b % 2) = 2 THEN 1 ELSE 0
Compared(a, b) == IF a < b THEN MP_LT ELSE IF a > b THEN MP_GT ELSE MP_EQ

\* The answer of an operation to a question <<operation, operand, operand>>.
Sum(f, a, b) ==
    CASE f = "mp_add" -> mp_add(Of(a), Of(b))
      [] f = "mp_sub" -> mp_sub(Of(a), Of(b))
      [] f = "mp_cmp" -> mp_cmp(Of(a), Of(b))
      [] f = "mp_and" -> mp_and(Of(a), Of(b))
      [] f = "mp_or"  -> mp_or(Of(a), Of(b))
      [] f = "mp_xor" -> mp_xor(Of(a), Of(b))
      [] f = "mp_add_d" -> mp_add_d(Of(a), b)
      [] f = "mp_sub_d" -> mp_sub_d(Of(a), b)
      [] f = "mp_cmp_d" -> mp_cmp_d(Of(a), b)

SumRight(f, a, b, r) ==
    CASE f \in {"mp_add", "mp_add_d"} -> r = Of(a + b)
      [] f \in {"mp_sub", "mp_sub_d"} -> r = Of(a - b)
      [] f \in {"mp_cmp", "mp_cmp_d"} -> r = Compared(a, b)
      [] f = "mp_and" -> Magnitude(Val(r)) = BitsAnd(Magnitude(a), Magnitude(b)) /\ r = Of(Val(r))
      [] f = "mp_or"  -> Magnitude(Val(r)) = Magnitude(a) + Magnitude(b)
                                             - BitsAnd(Magnitude(a), Magnitude(b))
      [] f = "mp_xor" -> Magnitude(Val(r)) = Magnitude(a) + Magnitude(b)
                                             - 2 * BitsAnd(Magnitude(a), Magnitude(b))

Product(f, a, b) ==
    CASE f = "mp_mul"   -> mp_mul(Of(a), Of(b))
      [] f = "mp_sqr"   -> mp_sqr(Of(a))
      [] f = "s_mp_sqr" -> s_mp_sqr(Of(a))
      [] f = "fast_s_mp_sqr" -> fast_s_mp_sqr(Of(a))
      [] f = "mp_karatsuba_mul" -> mp_karatsuba_mul(Of(a), Of(b))
      [] f = "mp_toom_mul" -> mp_toom_mul(Of(a), Of(b))
      [] f = "mp_karatsuba_sqr" -> mp_karatsuba_sqr(Of(a))
      [] f = "mp_toom_sqr" -> mp_toom_sqr(Of(a))
      [] f = "s_mp_mul" -> s_mp_mul(Of(a), Of(b))
      [] f = "mp_mul_d" -> mp_mul_d(Of(a), b)
      [] f = "mp_mul_2" -> mp_mul_2(Of(a))
      [] f = "mp_mul_2d" -> mp_mul_2d(Of(a), b)
      [] f = "s_mp_mul_digs" -> s_mp_mul_digs(Of(a), Of(b), 3)
      [] f = "s_mp_mul_high_digs" ->
            s_mp_mul_high_digs(Of(a), Of(b), Most(0, Used(Of(a)) - 1))

ProductRight(f, a, b, r) ==
    CASE f \in {"mp_mul", "mp_mul_d", "s_mp_mul", "mp_karatsuba_mul", "mp_toom_mul"} ->
               r = Of(a * b)
      [] f \in {"mp_sqr", "s_mp_sqr", "fast_s_mp_sqr", "mp_karatsuba_sqr", "mp_toom_sqr"} ->
               r = Of(a * a)
      [] f = "mp_mul_2"  -> r = Of(2 * a)
      [] f = "mp_mul_2d" -> r = Of(a * 2 ^ b)
      [] f = "s_mp_mul_digs" -> r = Of((a * b) % Base ^ 3)
      \* The digits from digs on, short of what the lower ones would carry.
      [] f = "s_mp_mul_high_digs" ->
            LET digs == Most(0, Used(Of(a)) - 1)
            IN /\ Val(r) % Base ^ digs = 0 /\ r = Of(Val(r)) /\ Val(r) <= a * b
               /\ a * b - Val(r) <= digs * (Base - 1) ^ 2 * Base ^ digs

Quotient(f, a, b) ==
    CASE f = "mp_div"    -> mp_div(Of(a), Of(b))
      [] f = "mp_mod"    -> mp_mod(Of(a), Of(b))
      [] f = "mp_div_d"  -> mp_div_d(Of(a), b)
      [] f = "mp_div_2"  -> mp_div_2(Of(a))
      [] f = "mp_div_2d" -> mp_div_2d(Of(a), b)
      [] f = "mp_mod_2d" -> mp_mod_2d(Of(a), b)
      [] f = "mp_cnt_lsb" -> mp_cnt_lsb(Of(a))
      [] f = "mp_count_bits" -> mp_count_bits(Of(a))
      [] f = "mp_2expt" -> mp_2expt(b)

QuotientRight(f, a, b, r) ==
    CASE f = "mp_div"   -> r = [q |-> Of(Quot(a, b)), d |-> Of(Rem(a, b))]
      [] f = "mp_mod"   -> /\ (Val(r) - a) % Magnitude(b) = 0 /\ r = Of(Val(r))
                           /\ IF b > 0 THEN Val(r) \in 0 .. b - 1 ELSE Val(r) \in b .. 0
      [] f = "mp_div_d"  -> r = [q |-> Of(Quot(a, b)), d |-> Magnitude(a) % b]
      [] f = "mp_div_2"  -> r = Of(Quot(a, 2))
      [] f = "mp_div_2d" -> r = Of(Quot(a, 2 ^ b))
      [] f = "mp_mod_2d" -> r = Of(Rem(a, 2 ^ b))
      [] f = "mp_cnt_lsb" -> IF a = 0 THEN r = 0 ELSE a % 2 ^ r = 0 /\ a % 2 ^ (r + 1) # 0
      [] f = "mp_count_bits" -> Magnitude(a) < 2 ^ r /\ (a = 0 => r = 0)
                                /\ (a # 0 => Magnitude(a) >= 2 ^ (r - 1))
      [] f = "mp_2expt" -> r = Of(2 ^ b)

\* A number goes out as text or bytes and comes back; sizes tell the truth.
Written(f, a, b) ==
    CASE f = "mp_toradix"   -> mp_toradix(Of(a), b)
      [] f = "mp_toradix_n" -> mp_toradix_n(Of(a), 10, b)
      [] f = "mp_read_radix" -> mp_read_radix(mp_toradix(Of(a), b), b)
      [] f = "mp_radix_size" -> mp_radix_size(Of(a), b)
      [] f = "mp_to_unsigned_bin" -> mp_to_unsigned_bin_n(Of(a), 9)
      [] f = "mp_read_unsigned_bin" -> mp_read_unsigned_bin(<<0>> \o mp_to_unsigned_bin(Of(a)))
      [] f = "mp_read_signed_bin" -> mp_read_signed_bin(mp_to_signed_bin_n(Of(a), 9))
      [] f = "mp_signed_bin_size" -> mp_signed_bin_size(Of(a))
      [] f = "mp_set_int" -> mp_set_int(Magnitude(a))
      [] f = "mp_get_int" -> mp_get_int(Of(a))

Signed(a, s) == IF a < 0 THEN <<MINUS>> \o s ELSE s
WrittenRight(f, a, b, r) ==
    LET text(radix) == Signed(a, IF a = 0 THEN <<0>> ELSE Reverse(DigitsOf(Magnitude(a), radix)))
        bytes == Reverse(DigitsOf(Magnitude(a), 2 ^ BYTE_BIT))
    IN CASE f = "mp_toradix"    -> r = text(b)
         [] f = "mp_toradix_n"  -> Len(r) < b /\ IsSuffix(IF a < 0 THEN Tail(r) ELSE r, text(10))
                                   /\ (Len(text(10)) < b => r = text(10))
         [] f = "mp_read_radix" -> r = Of(a)
         [] f = "mp_radix_size" -> r = Len(text(b)) + 1 - (IF a = 0 /\ b = 2 THEN 1 ELSE 0)
         [] f = "mp_to_unsigned_bin" -> r = bytes
         [] f = "mp_read_unsigned_bin" -> r = Of(Magnitude(a))
         [] f = "mp_read_signed_bin" -> r = Of(a)
         [] f = "mp_signed_bin_size" -> r = 1 + Len(bytes)
         [] f = "mp_set_int" -> r = Of(Magnitude(a) % 2 ^ INT_BIT)
         [] f = "mp_get_int" -> r = Magnitude(a) % 2 ^ INT_BIT

\* Powers by halving the exponent.
MulMod(x, y, m) == ((((x * (y \div 256)) % m) * 256) + x * (y % 256)) % m
RECURSIVE PowMod(_, _, _)
PowMod(x, e, m) ==
    LET h == PowMod(x, e \div 2, m)
    IN IF e = 0 THEN 1 % m
       ELSE IF e % 2 = 0 THEN MulMod(h, h, m) ELSE MulMod(MulMod(h, h, m), x % m, m)
IsPrime(n) == n > 1 /\ \A k \in 2 .. n - 1 : k * k > n \/ n % k # 0
Legendre(a, p) == LET r == PowMod(a, (p - 1) \div 2, p) IN IF r = p - 1 THEN -1 ELSE r
Common(a, b) == Max({0} \cup {d \in 1 .. Most(Magnitude(a), Magnitude(b)) : a % d = 0 /\ b % d = 0})

\* Divisors, inverses, roots and symbols.
Root(f, a, b) ==
    CASE f = "mp_gcd" -> mp_gcd(Of(a), Of(b))
      [] f = "mp_lcm" -> mp_lcm(Of(a), Of(b))
      [] f = "mp_invmod" -> mp_invmod(Of(a), Of(b))
      [] f = "mp_exteuclid" -> mp_exteuclid(Of(a), Of(b))
      [] f = "mp_jacobi" -> mp_jacobi(Of(a), Of(b))
      [] f = "mp_n_root" -> mp_n_root(Of(a), b)
      [] f = "mp_sqrt" -> mp_sqrt(Of(a))
      [] f = "mp_is_square" -> mp_is_square(Of(a))

RootRight(f, a, b, r) ==
    CASE f = "mp_gcd" -> r = Of(Common(a, b))
      [] f = "mp_lcm" -> r = Of(Magnitude(a * b) \div Common(a, b))
      \* Not asked of a negative number and an odd modulus: fast_mp_invmod
      \* answers -1/a there, against the 1/a (mod b) of mpi.c's comment.
      [] f = "mp_invmod" ->
            IF Common(a, b) # 1 THEN r = MP_VAL
            ELSE r = Of(Val(r)) /\ Val(r) \in 0 .. b - 1 /\ (Val(r) * a) % b = 1
      [] f = "mp_exteuclid" -> /\ Val(r[1]) * a + Val(r[2]) * b = Val(r[3])
                               /\ Val(r[3]) = Common(a, b)
      [] f = "mp_jacobi" -> r = Legendre(a, b)
      [] f = "mp_n_root" -> LET v == Magnitude(Val(r)) IN
                               /\ v ^ b <= Magnitude(a) /\ (v + 1) ^ b > Magnitude(a)
                               /\ a # 0 => (Val(r) < 0) = (a < 0)
      [] f = "mp_sqrt" -> Val(r) ^ 2 <= a /\ (Val(r) + 1) ^ 2 > a
      [] f = "mp_is_square" -> r = \E x \in 1 .. a : x * x = a

\* The product of two numbers below the modulus is brought below it.  For
\* Montgomery's reduction one of them is multiplied first by the power of the
\* base the reduction divides by.
Reduced(f, a, b, m) ==
    LET x == mp_mul(Of(a % m), Of(b % m))
        n == Of(m)
        lifted == mp_mul(mp_mulmod(Of(a), mp_montgomery_calc_normalization(n), n), Of(b % m))
    IN CASE f = "mp_mulmod" -> mp_mulmod(Of(a), Of(b), n)
         [] f = "mp_sqrmod" -> mp_addmod(mp_sqrmod(Of(a), n), mp_submod(Of(a), Of(b), n), n)
         [] f = "mp_reduce" -> mp_reduce(x, n, mp_reduce_setup(n))
         [] f = "fast_montgomery" ->
               fast_mp_montgomery_reduce(lifted, n, mp_montgomery_setup(n))
         [] f = "slow_montgomery" ->
               SlowMontgomery(lifted, n, mp_montgomery_setup(n))
         [] f = "mp_dr_reduce" -> mp_dr_reduce(x, n, mp_dr_setup(n))
         [] f = "mp_reduce_2k" -> mp_reduce_2k(x, n, mp_reduce_2k_setup(n))
         [] f = "mp_reduce_2k_l" -> mp_reduce_2k_l(x, n, mp_reduce_2k_setup_l(n))
         [] f = "mp_exptmod" -> mp_exptmod(Of(a), Of(b), n)
         [] f = "dr_exptmod" -> mp_exptmod_fast(Of(a), Of(b), n, 1)

ReducedRight(f, a, b, m, r) ==
    CASE f = "mp_sqrmod" -> r = Of((MulMod(a % m, a % m, m) + a - b) % m)
      [] f \in {"mp_exptmod", "dr_exptmod"} -> r = Of(IF b = 0 THEN 1 ELSE PowMod(a % m, b, m))
      [] OTHER -> r = Of(MulMod(a % m, b % m, m))

Prime(f, a, b) ==
    CASE f = "mp_prime_is_prime" -> mp_prime_is_prime(Of(a), b)
      [] f = "mp_prime_next_prime" -> mp_prime_next_prime(Of(a), PRIME_SIZE, b = 1)
      [] f = "mp_prime_fermat" -> mp_prime_fermat(Of(a), Of(b))
      [] f = "mp_prime_random" ->
            mp_prime_random_ex(2, 12, IF b = 0 THEN {"SAFE"} ELSE {"2MSB"},
                               [i \in 1 .. 64 |-> <<(a * i) % 256, (a * i * 7 + i * b) % 256>>], 64)
      [] f = "mp_prime_trials" -> mp_prime_rabin_miller_trials(a)

PrimeRight(f, a, b, r) ==
    CASE f = "mp_prime_is_prime" -> r = IsPrime(a)
      [] f = "mp_prime_next_prime" ->
            LET fits(p) == IsPrime(p) /\ (b = 1 => p % 4 = 3)
            IN Val(r) > a /\ fits(Val(r)) /\ \A p \in a + 1 .. Val(r) - 1 : ~fits(p)
      [] f = "mp_prime_fermat" -> r = (PowMod(b, a, a) = b)
      [] f = "mp_prime_random" ->
            r = MP_VAL \/ (IsPrime(Val(r)) /\ Val(r) \in 2 ^ 11 .. 2 ^ 12 - 1 /\
               IF b = 0 THEN IsPrime((Val(r) - 1) \div 2) ELSE Val(r) >= 2 ^ 11 + 2 ^ 10)
      [] f = "mp_prime_trials" ->      \* never more for a larger number
            /\ r >= 4
            /\ a <= 1024 => \A s \in 1 .. a : mp_prime_rabin_miller_trials(s) >= r

\* The answer to a question <<part, operation, operands>>, and whether it is
\* the right one.
Answer(q) ==
    CASE q[1] = "sum"       -> Sum(q[2], q[3], q[4])
      [] q[1] = "product"   -> Product(q[2], q[3], q[4])
      [] q[1] = "quotient"  -> Quotient(q[2], q[3], q[4])
      [] q[1] = "writing"   -> Written(q[2], q[3], q[4])
      [] q[1] = "root"      -> Root(q[2], q[3], q[4])
      [] q[1] = "reduction" -> Reduced(q[2], q[3], q[4], q[5])
      [] q[1] = "prime"     -> Prime(q[2], q[3], q[4])

Right(q, r) ==
    CASE q[1] = "sum"       -> SumRight(q[2], q[3], q[4], r)
      [] q[1] = "product"   -> ProductRight(q[2], q[3], q[4], r)
      [] q[1] = "quotient"  -> QuotientRight(q[2], q[3], q[4], r)
      [] q[1] = "writing"   -> WrittenRight(q[2], q[3], q[4], r)
      [] q[1] = "root"      -> RootRight(q[2], q[3], q[4], r)
      [] q[1] = "reduction" -> ReducedRight(q[2], q[3], q[4], q[5], r)
      [] q[1] = "prime"     -> PrimeRight(q[2], q[3], q[4], r)
=============================================================================
