----------------------------- MODULE MpModular -----------------------------
(***************************************************************************)
(* The number theory of libtommath 1.0: greatest common divisors,          *)
(* inverses, the reductions and the windowed exponentiation that chooses   *)
(* among them, roots, symbols and primes.                                  *)
(***************************************************************************)
EXTENDS MpInt

CONSTANTS PRIME_SIZE,       \* primes in ltm_prime_tab: 256
          SQUARE_PRIMES     \* the primes is_square sifts by: 11 to 31

One == mp_set(1)

-----------------------------------------------------------------------------
(* Divisors and inverses.                                                  *)

\* u is odd; v loses u, then its zero bits, until nothing is left of it.
RECURSIVE GcdLoop(_, _)
GcdLoop(u, v) ==
    LET larger == mp_cmp_mag(u, v) = MP_GT
        lo == IF larger THEN v ELSE u
        d  == s_mp_sub(IF larger THEN u ELSE v, lo, MP_ZPOS)
    IN IF mp_iszero(v) THEN u ELSE GcdLoop(lo, mp_div_2d(d, mp_cnt_lsb(d)))

mp_gcd(a, b) ==
    LET u == mp_abs(a)
        v == mp_abs(b)
        k == Least(mp_cnt_lsb(u), mp_cnt_lsb(v))
    IN CASE mp_iszero(a) -> v
         [] mp_iszero(b) /\ ~mp_iszero(a) -> u
         [] OTHER -> mp_mul_2d(GcdLoop(mp_div_2d(u, mp_cnt_lsb(u)), mp_div_2d(v, mp_cnt_lsb(v))), k)

mp_lcm(a, b) ==
    LET g == mp_gcd(a, b)
    IN mp_abs(IF mp_cmp_mag(a, b) = MP_LT THEN mp_mul(b, mp_div(a, g).q)
                                          ELSE mp_mul(a, mp_div(b, g).q))

\* u1 * a + u2 * b = u3, and the same for v.
RECURSIVE EuclidLoop(_, _, _, _, _, _)
EuclidLoop(u1, u2, u3, v1, v2, v3) ==
    LET q == mp_div(u3, v3).q
    IN IF mp_iszero(v3) THEN <<u1, u2, u3>>
       ELSE EuclidLoop(v1, v2, v3, mp_sub(u1, mp_mul(v1, q)), mp_sub(u2, mp_mul(v2, q)),
                       mp_sub(u3, mp_mul(v3, q)))

mp_exteuclid(a, b) ==
    LET u == EuclidLoop(One, mp_zero, a, mp_zero, One, b)
    IN IF u[3].sign = MP_NEG THEN <<mp_neg(u[1]), mp_neg(u[2]), mp_neg(u[3])>> ELSE u

\* u even is halved, and B with it, made even first by an odd x.
RECURSIVE Halved(_, _, _)
Halved(u, B, x) ==
    IF ~mp_iseven(u) THEN <<u, B>>
    ELSE Halved(mp_div_2(u), mp_div_2(IF mp_isodd(B) THEN mp_sub(B, x) ELSE B), x)

RECURSIVE InvLoop(_, _, _, _, _)
InvLoop(u0, v0, B0, D0, x) ==
    LET u == Halved(u0, B0, x)
        v == Halved(v0, D0, x)
        less == mp_cmp(u[1], v[1]) = MP_LT
        r == IF less THEN <<u[1], mp_sub(v[1], u[1]), u[2], mp_sub(v[2], u[2])>>
                     ELSE <<mp_sub(u[1], v[1]), v[1], mp_sub(u[2], v[2]), v[2]>>
    IN IF mp_iszero(r[1]) THEN [v |-> r[2], D |-> r[4]] ELSE InvLoop(r[1], r[2], r[3], r[4], x)

RECURSIVE Raised(_, _)
Raised(C, b) == IF C.sign = MP_NEG THEN Raised(mp_add(C, b), b) ELSE C

\* For an odd b.  The sign of a is put on the result, although y has it too.
fast_mp_invmod(a, b) ==
    LET r == InvLoop(b, mp_mod(a, b), mp_zero, One, b)
    IN IF mp_iseven(b) \/ mp_cmp_d(r.v, 1) # MP_EQ THEN MP_VAL
       ELSE [Raised(r.D, b) EXCEPT !.sign = a.sign]

\* The same with both multipliers: A * x + B * y = u.
RECURSIVE HalvedBoth(_, _, _, _, _)
HalvedBoth(u, A, B, x, y) ==
    LET odd == mp_isodd(A) \/ mp_isodd(B)
    IN IF ~mp_iseven(u) THEN <<u, A, B>>
       ELSE HalvedBoth(mp_div_2(u), mp_div_2(IF odd THEN mp_add(A, y) ELSE A),
                       mp_div_2(IF odd THEN mp_sub(B, x) ELSE B), x, y)

RECURSIVE SlowInvLoop(_, _, _, _)
SlowInvLoop(u0, v0, x, y) ==
    LET u == HalvedBoth(u0[1], u0[2], u0[3], x, y)
        v == HalvedBoth(v0[1], v0[2], v0[3], x, y)
        minus(p, q) == <<mp_sub(p[1], q[1]), mp_sub(p[2], q[2]), mp_sub(p[3], q[3])>>
        less == mp_cmp(u[1], v[1]) = MP_LT
        u1 == IF less THEN u ELSE minus(u, v)
        v1 == IF less THEN minus(v, u) ELSE v
    IN IF mp_iszero(u1[1]) THEN v1 ELSE SlowInvLoop(u1, v1, x, y)

RECURSIVE Lowered(_, _)
Lowered(C, b) == IF mp_cmp_mag(C, b) = MP_LT THEN C ELSE Lowered(mp_sub(C, b), b)

mp_invmod_slow(a, b) ==
    LET x == mp_mod(a, b)
        v == SlowInvLoop(<<x, One, mp_zero>>, <<b, mp_zero, One>>, x, b)
    IN IF mp_iseven(x) /\ mp_iseven(b) THEN MP_VAL
       ELSE IF mp_cmp_d(v[1], 1) # MP_EQ THEN MP_VAL ELSE Lowered(Raised(v[2], b), b)

mp_invmod(a, b) ==
    CASE b.sign = MP_NEG \/ mp_iszero(b) -> MP_VAL
      [] mp_isodd(b) /\ b.sign = MP_ZPOS -> fast_mp_invmod(a, b)
      [] OTHER -> mp_invmod_slow(a, b)

mp_addmod(a, b, c) == mp_mod(mp_add(a, b), c)
mp_submod(a, b, c) == mp_mod(mp_sub(a, b), c)
mp_mulmod(a, b, c) == mp_mod(mp_mul(a, b), c)
mp_sqrmod(a, b) == mp_mod(mp_sqr(a), b)

-----------------------------------------------------------------------------
(* Reductions below a modulus.                                             *)

\* Barrett's, with mu = b^2k / m.
mp_reduce_setup(b) == mp_div(mp_2expt(Used(b) * 2 * DIGIT_BIT), b).q

RECURSIVE Below(_, _)
Below(x, m) == IF mp_cmp(x, m) = MP_LT THEN x ELSE Below(s_mp_sub(x, m, x.sign), m)

mp_reduce(x, m, mu) ==
    LET um == Used(m)
        q1 == mp_rshd(x, um - 1)
        q2 == IF um > 2 ^ (DIGIT_BIT - 1) THEN mp_mul(q1, mu) ELSE s_mp_mul_high_digs(q1, mu, um)
        q3 == s_mp_mul_digs(mp_rshd(q2, um + 1), m, um + 1)
        d  == mp_sub(mp_mod_2d(x, DIGIT_BIT * (um + 1)), q3)
    IN Below(IF mp_cmp_d(d, 0) = MP_LT THEN mp_add(d, mp_lshd(One, um + 1)) ELSE d, m)

\* Newton's iteration doubles the bits of 1/n that are right, from four.
mp_montgomery_setup(n) ==
    LET b == D(n, 0)
        better(x) == (x * (2 - b * x)) % Base
        x0 == (((b + 2) % 8) \div 4) * 8 + b
    IN IF b % 2 = 0 THEN MP_VAL
       ELSE (Base - better(better(better(better(x0 % Base))))) % Base

\* W takes the multiple of n that clears its digit ix.
ClearDigit(W, ix, n, rho) ==
    LET mu == ((W[ix] % Base) * rho) % Base
        V  == [i \in DOMAIN W |-> IF i - ix \in 0 .. Used(n) - 1
                                  THEN (W[i] + mu * n.dp[i - ix + 1]) % 2 ^ WORD_BIT ELSE W[i]]
    IN [V EXCEPT ![ix + 1] = (@ + V[ix] \div Base) % 2 ^ WORD_BIT]

RECURSIVE ClearDigits(_, _, _, _)
ClearDigits(W, ix, n, rho) ==
    IF ix = Used(n) THEN W ELSE ClearDigits(ClearDigit(W, ix, n, rho), ix + 1, n, rho)

Once(x, n) == IF mp_cmp_mag(x, n) # MP_LT THEN s_mp_sub(x, n, x.sign) ELSE x

fast_mp_montgomery_reduce(x, n, rho) ==
    LET k == Used(n)
        W == ClearDigits([i \in 0 .. 2 * k |-> D(x, i)], 0, n, rho)
    IN Once(Clamped(x.sign, SubSeq(WordCarried([i \in 1 .. k + 1 |-> W[k + i - 1]], 0), 1, k + 1)), n)

\* A row at a time, each carried as far as it goes.
RECURSIVE MontgomeryRows(_, _, _, _)
MontgomeryRows(x, ix, n, rho) ==
    IF ix = Used(n) THEN x
    ELSE LET mu   == (x[ix + 1] * rho) % Base
             cols == [i \in 1 .. Len(x) - ix |-> x[ix + i] + mu * D(n, i - 1)]
         IN MontgomeryRows(SubSeq(x, 1, ix) \o SubSeq(Carried(cols, 0), 1, Len(x) - ix),
                           ix + 1, n, rho)

SlowMontgomery(x, n, rho) ==
    LET digs == 2 * Used(n) + 1
        rows == MontgomeryRows([i \in 1 .. digs |-> D(x, i - 1)], 0, n, rho)
    IN Once(mp_rshd(Clamped(x.sign, rows), Used(n)), n)

mp_montgomery_reduce(x, n, rho) ==
    IF 2 * Used(n) + 1 < MP_WARRAY /\ Used(n) < CombaLimit
    THEN fast_mp_montgomery_reduce(x, n, rho) ELSE SlowMontgomery(x, n, rho)

\* b^k mod n, by doubling from the highest bit of n.
RECURSIVE Doubled(_, _, _)
Doubled(a, b, times) ==
    IF times = 0 THEN a ELSE Doubled(Once(mp_mul_2(a), b), b, times - 1)

mp_montgomery_calc_normalization(b) ==
    LET bits == mp_count_bits(b) % DIGIT_BIT
    IN IF Used(b) > 1 THEN Doubled(mp_2expt((Used(b) - 1) * DIGIT_BIT + bits - 1), b,
                                   DIGIT_BIT - bits + 1)
                      ELSE Doubled(One, b, DIGIT_BIT)

\* A modulus b^m - k, for a digit k: the upper half comes back times k.
mp_dr_is_modulus(a) == Used(a) >= 2 /\ \A i \in 2 .. Used(a) : a.dp[i] = MP_MASK
mp_dr_setup(a) == Base - D(a, 0)

RECURSIVE mp_dr_reduce(_, _, _)
mp_dr_reduce(x, n, k) ==
    LET m == Used(n)
        y == Clamped(x.sign, Carried([i \in 1 .. m |-> D(x, m + i - 1) * k + D(x, i - 1)], 0))
    IN IF mp_cmp_mag(y, n) = MP_LT THEN y ELSE mp_dr_reduce(s_mp_sub(y, n, x.sign), n, k)

\* A modulus 2^p - d: for a digit d, or for any.
mp_reduce_is_2k(a) ==
    CASE Used(a) = 0 -> FALSE
      [] Used(a) = 1 -> TRUE
      [] OTHER -> \A ix \in DIGIT_BIT .. mp_count_bits(a) - 1 :
                      (D(a, ix \div DIGIT_BIT) \div 2 ^ (ix % DIGIT_BIT)) % 2 = 1
mp_reduce_is_2k_l(a) ==
    CASE Used(a) = 0 -> FALSE
      [] Used(a) = 1 -> TRUE
      [] OTHER -> Cardinality({i \in DOMAIN a.dp : a.dp[i] = MP_MASK}) >= Used(a) \div 2

mp_reduce_2k_setup_l(a) == s_mp_sub(mp_2expt(mp_count_bits(a)), a, MP_ZPOS)
mp_reduce_2k_setup(a) == D(s_mp_sub(mp_2expt(mp_count_bits(a)), a, MP_ZPOS), 0)

RECURSIVE mp_reduce_2k(_, _, _)
mp_reduce_2k(a, n, d) ==
    LET p == mp_count_bits(n)
        q == IF d # 1 THEN mp_mul_d(mp_div_2d(a, p), d) ELSE mp_div_2d(a, p)
        s == s_mp_add(mp_mod_2d(a, p), q, a.sign)
    IN IF mp_cmp_mag(s, n) = MP_LT THEN s ELSE mp_reduce_2k(s_mp_sub(s, n, a.sign), n, d)

RECURSIVE mp_reduce_2k_l(_, _, _)
mp_reduce_2k_l(a, n, d) ==
    LET p == mp_count_bits(n)
        s == s_mp_add(mp_mod_2d(a, p), mp_mul(mp_div_2d(a, p), d), a.sign)
    IN IF mp_cmp_mag(s, n) = MP_LT THEN s ELSE mp_reduce_2k_l(s_mp_sub(s, n, a.sign), n, d)

-----------------------------------------------------------------------------
(* Powers.                                                                 *)

RECURSIVE ExptBits(_, _, _)
ExptBits(c, bits, g) ==
    IF bits = <<>> THEN c
    ELSE ExptBits(IF Head(bits) = 1 THEN mp_mul(mp_sqr(c), g) ELSE mp_sqr(c), Tail(bits), g)

\* The bits of a digit, the highest first.
DigitBits(d) == [i \in 1 .. DIGIT_BIT |-> (d \div 2 ^ (DIGIT_BIT - i)) % 2]
mp_expt_d(a, b) == ExptBits(One, DigitBits(b), a)

WinSize(X) ==
    LET x == mp_count_bits(X)
    IN CASE x <= 7    -> 2
         [] x \in 8 .. 36      -> 3
         [] x \in 37 .. 140    -> 4
         [] x \in 141 .. 450   -> 5
         [] x \in 451 .. 1303  -> 6
         [] x \in 1304 .. 3529 -> 7
         [] OTHER -> 8

Redux(how, x, P) ==
    CASE how.kind = "reduce"     -> mp_reduce(x, P, how.mp)
      [] how.kind = "2k_l"       -> mp_reduce_2k_l(x, P, how.mp)
      [] how.kind = "montgomery" -> mp_montgomery_reduce(x, P, how.mp)
      [] how.kind = "dr"         -> mp_dr_reduce(x, P, how.mp)
      [] how.kind = "2k"         -> mp_reduce_2k(x, P, how.mp)

RECURSIVE Squared(_, _, _, _)
Squared(res, times, how, P) ==
    IF times = 0 THEN res ELSE Squared(Redux(how, mp_sqr(res), P), times - 1, how, P)

\* The powers of M1 a window can hold, the highest bit of which is set.
RECURSIVE Powers(_, _, _, _, _)
Powers(x, M1, winsize, how, P) ==
    IF x = 2 ^ (winsize - 1) THEN Squared(M1, winsize - 1, how, P)
    ELSE Redux(how, mp_mul(Powers(x - 1, M1, winsize, how, P), M1), P)

\* One bit of the exponent: leading zeros are passed over, zeros between
\* windows square, and a full window multiplies.
BitStep(w, y, M1, winsize, how, P) ==
    LET cpy == w.bitcpy + 1
        buf == w.bitbuf + y * 2 ^ (winsize - cpy)
    IN CASE w.mode = 0 /\ y = 0 -> w
         [] w.mode = 1 /\ y = 0 -> [w EXCEPT !.res = Squared(@, 1, how, P)]
         [] (w.mode = 2 \/ y = 1) /\ cpy < winsize ->
                [w EXCEPT !.mode = 2, !.bitcpy = cpy, !.bitbuf = buf]
         [] OTHER -> [mode |-> 1, bitcpy |-> 0, bitbuf |-> 0,
                      res |-> Redux(how, mp_mul(Squared(w.res, winsize, how, P),
                                                Powers(buf, M1, winsize, how, P)), P)]

\* The window that is not full is worked off bit by bit.
RECURSIVE TailBits(_, _, _, _, _, _)
TailBits(res, n, buf, M1, how, P) ==
    LET s == Squared(res, 1, how, P)
    IN IF n = 0 THEN res
       ELSE TailBits(IF Head(buf) = 1 THEN Redux(how, mp_mul(s, M1), P) ELSE s,
                     n - 1, Tail(buf), M1, how, P)

Windowed(res, M1, X, how, P) ==
    LET winsize == WinSize(X)
        bits == FoldLeft(LAMBDA s, d : DigitBits(d) \o s, <<>>, X.dp)
        w == FoldLeft(LAMBDA v, y : BitStep(v, y, M1, winsize, how, P),
                      [res |-> res, mode |-> 0, bitcpy |-> 0, bitbuf |-> 0], bits)
        left == [i \in 1 .. winsize |-> (w.bitbuf \div 2 ^ (winsize - i)) % 2]
    IN IF w.mode = 2 THEN TailBits(w.res, w.bitcpy, left, M1, how, P) ELSE w.res

s_mp_exptmod(G, X, P, redmode) ==
    Windowed(One, mp_mod(G, P), X,
             IF redmode = 0 THEN [kind |-> "reduce", mp |-> mp_reduce_setup(P)]
                            ELSE [kind |-> "2k_l", mp |-> mp_reduce_2k_setup_l(P)], P)

mp_exptmod_fast(G, X, P, redmode) ==
    LET mont == [kind |-> "montgomery", mp |-> mp_montgomery_setup(P)]
        norm == mp_montgomery_calc_normalization(P)
        how  == IF redmode = 1 THEN [kind |-> "dr", mp |-> mp_dr_setup(P)]
                               ELSE [kind |-> "2k", mp |-> mp_reduce_2k_setup(P)]
    IN IF redmode = 0
       THEN Redux(mont, Windowed(norm, mp_mulmod(G, norm, P), X, mont, P), P)
       ELSE Windowed(One, mp_mod(G, P), X, how, P)

RECURSIVE mp_exptmod(_, _, _)
mp_exptmod(G, X, P) ==
    LET dr == IF mp_dr_is_modulus(P) THEN 1 ELSE IF mp_reduce_is_2k(P) THEN 2 ELSE 0
    IN CASE P.sign = MP_NEG -> MP_VAL
         [] P.sign = MP_ZPOS /\ X.sign = MP_NEG ->
                IF mp_invmod(G, P) = MP_VAL THEN MP_VAL
                ELSE mp_exptmod(mp_invmod(G, P), mp_abs(X), P)
         [] P.sign = MP_ZPOS /\ X.sign = MP_ZPOS /\ mp_reduce_is_2k_l(P) ->
                s_mp_exptmod(G, X, P, 1)
         [] OTHER -> IF mp_isodd(P) \/ dr # 0 THEN mp_exptmod_fast(G, X, P, dr)
                                              ELSE s_mp_exptmod(G, X, P, 0)

-----------------------------------------------------------------------------
(* Roots and squares.                                                      *)

\* The mean of a guess and what it divides into.
Mean(t1, t2) == mp_div_2(mp_add(t1, t2))
RECURSIVE SqrtLoop(_, _)
SqrtLoop(arg, t1) ==
    LET t2   == mp_div(arg, t1).q
        mean == Mean(t1, t2)
    IN IF mp_cmp_mag(mean, t2) = MP_GT THEN SqrtLoop(arg, mean) ELSE mean

mp_sqrt(arg) ==
    CASE arg.sign = MP_NEG -> MP_VAL
      [] mp_iszero(arg)    -> mp_zero
      [] OTHER -> LET half == mp_rshd(arg, Used(arg) \div 2)
                  IN SqrtLoop(arg, Mean(half, mp_div(arg, half).q))

\* t1 - (t1^b - a) / (b t1^(b - 1)) until it stays, then down to the root.
RECURSIVE RootLoop(_, _, _)
RootLoop(a, b, t1) ==
    LET t3 == mp_expt_d(t1, b - 1)
        t2 == mp_sub(t1, mp_div(mp_sub(mp_mul(t3, t1), a), mp_mul_d(t3, b)).q)
    IN IF mp_cmp(t1, t2) = MP_EQ THEN t1 ELSE RootLoop(a, b, t2)
RECURSIVE RootDown(_, _, _)
RootDown(a, b, t1) ==
    IF mp_cmp(mp_expt_d(t1, b), a) = MP_GT THEN RootDown(a, b, mp_sub_d(t1, 1)) ELSE t1

mp_n_root(a, b) ==
    IF b % 2 = 0 /\ a.sign = MP_NEG THEN MP_VAL
    ELSE [RootDown(mp_abs(a), b, RootLoop(mp_abs(a), b, mp_set(2))) EXCEPT !.sign = a.sign]

\* The tables of mp_is_square mark what is no square.
rem_128 == [n \in 0 .. 127 |-> IF \E x \in 0 .. 127 : (x * x) % 128 = n THEN 0 ELSE 1]
rem_105 == [n \in 0 .. 104 |-> IF \E x \in 0 .. 104 : (x * x) % 105 = n THEN 0 ELSE 1]

mp_is_square(arg) ==
    LET t == mp_mod(arg, mp_set_int(FoldSet(LAMBDA p, s : p * s, 1, SQUARE_PRIMES)))
        r == mp_get_int(t)
    IN CASE arg.sign = MP_NEG -> MP_VAL
         [] Used(arg) = 0 -> FALSE
         [] Used(arg) > 0 /\ arg.sign = MP_ZPOS ->
              /\ rem_128[D(arg, 0) % 128] = 0 /\ rem_105[mp_mod_d(arg, 105)] = 0
              /\ \A p \in SQUARE_PRIMES : \E x \in 0 .. p - 1 : (x * x) % p = r % p
              /\ mp_cmp_mag(mp_sqr(mp_sqrt(arg)), arg) = MP_EQ

RECURSIVE mp_jacobi(_, _)
mp_jacobi(a, p) ==
    LET k  == mp_cnt_lsb(a)
        a1 == mp_div_2d(a, k)
        s0 == IF k % 2 = 0 \/ D(p, 0) % 8 \in {1, 7} THEN 1 ELSE -1
        s  == IF D(p, 0) % 4 = 3 /\ D(a1, 0) % 4 = 3 THEN -s0 ELSE s0
    IN CASE mp_cmp_d(p, 0) # MP_GT -> MP_VAL
         [] mp_cmp_d(p, 0) = MP_GT /\ mp_iszero(a) -> 0
         [] OTHER -> IF mp_cmp_d(a1, 1) = MP_EQ THEN s ELSE s * mp_jacobi(mp_mod(p, a1), a1)

-----------------------------------------------------------------------------
(* Primes.                                                                 *)

\* The first primes.
RECURSIVE PrimesFrom(_, _)
PrimesFrom(tab, n) ==
    IF Len(tab) = PRIME_SIZE THEN tab
    ELSE PrimesFrom(IF \E i \in DOMAIN tab : n % tab[i] = 0 THEN tab ELSE Append(tab, n), n + 1)
ltm_prime_tab == PrimesFrom(<<>>, 2)

mp_prime_is_divisible(a) == \E ix \in 1 .. PRIME_SIZE : mp_mod_d(a, ltm_prime_tab[ix]) = 0

mp_prime_fermat(a, b) ==
    IF mp_cmp_d(b, 1) # MP_GT THEN MP_VAL ELSE mp_cmp(mp_exptmod(b, a, a), b) = MP_EQ

\* y is squared until it is -1, at most s - 1 times; 1 on the way tells.
RECURSIVE Witness(_, _, _, _, _)
Witness(y, j, s, n1, a) ==
    IF j > s - 1 \/ mp_cmp(y, n1) = MP_EQ THEN mp_cmp(y, n1) = MP_EQ
    ELSE LET z == mp_sqrmod(y, a)
         IN mp_cmp_d(z, 1) # MP_EQ /\ Witness(z, j + 1, s, n1, a)

mp_prime_miller_rabin(a, b) ==
    LET n1 == mp_sub_d(a, 1)
        s  == mp_cnt_lsb(n1)
        y  == mp_exptmod(b, mp_div_2d(n1, s), a)
    IN IF mp_cmp_d(b, 1) # MP_GT THEN MP_VAL
       ELSE mp_cmp_d(y, 1) = MP_EQ \/ mp_cmp(y, n1) = MP_EQ \/ Witness(y, 1, s, n1, a)

mp_prime_is_prime(a, t) ==
    CASE t <= 0 \/ t > PRIME_SIZE -> MP_VAL
      [] t \in 1 .. PRIME_SIZE ->
           \/ \E ix \in 1 .. PRIME_SIZE : mp_cmp_d(a, ltm_prime_tab[ix]) = MP_EQ
           \/ /\ ~mp_prime_is_divisible(a)
              /\ \A ix \in 1 .. t : mp_prime_miller_rabin(a, mp_set(ltm_prime_tab[ix]))

\* The candidates are sifted by their remainders, which are stepped along.
RECURSIVE SieveStep(_, _, _)
SieveStep(res_tab, step, kstep) ==
    LET next == [x \in DOMAIN res_tab |-> LET r == res_tab[x] + kstep
                    IN IF r >= ltm_prime_tab[x] THEN r - ltm_prime_tab[x] ELSE r]
        y == \E x \in DOMAIN next : x > 1 /\ next[x] = 0
    IN IF y /\ step + kstep < Base - kstep THEN SieveStep(next, step + kstep, kstep)
       ELSE [tab |-> next, step |-> step + kstep, again |-> y]

RECURSIVE NextLoop(_, _, _, _)
NextLoop(a, res_tab, kstep, t) ==
    LET v == SieveStep(res_tab, 0, kstep)
        c == mp_add_d(a, v.step)
    IN IF ~v.again /\ \A x \in 1 .. t : mp_prime_miller_rabin(c, mp_set(ltm_prime_tab[x]))
       THEN c ELSE NextLoop(c, v.tab, kstep, t)

\* A small number is looked up: the prime behind it or, for bbs_style, the
\* first of 3 modulo 4 behind the last prime that is followed by another.
SmallNext(a, bbs_style) ==
    LET to(x) == {y \in x + 1 .. PRIME_SIZE : bbs_style => ltm_prime_tab[y] % 4 = 3}
        from  == {x \in 1 .. PRIME_SIZE - 1 :
                    /\ mp_cmp_d(a, ltm_prime_tab[x]) # MP_LT
                    /\ bbs_style => ltm_prime_tab[x + 1] % 4 # 3 /\ to(x) # {}}
    IN IF from = {} \/ mp_cmp_d(a, ltm_prime_tab[PRIME_SIZE]) # MP_LT
       THEN {} ELSE {ltm_prime_tab[Min(to(Max(from)))]}

\* Where a search begins: an odd number, or one of 3 modulo 4, not above.
Start(a, bbs_style) ==
    CASE bbs_style  -> IF D(a, 0) % 4 # 3 THEN mp_sub_d(a, (D(a, 0) % 4) + 1) ELSE a
      [] ~bbs_style -> IF mp_iseven(a) THEN mp_sub_d(a, 1) ELSE a

mp_prime_next_prime(a, t, bbs_style) ==
    LET small == SmallNext(mp_abs(a), bbs_style)
        b == Start(mp_abs(a), bbs_style)
    IN CASE t <= 0 \/ t > PRIME_SIZE -> MP_VAL
         [] t \in 1 .. PRIME_SIZE /\ small # {} -> mp_set(Min(small))
         [] t \in 1 .. PRIME_SIZE /\ small = {} /\ mp_cmp_d(mp_abs(a), 1) = MP_EQ -> mp_set(2)
         [] OTHER -> NextLoop(b, [x \in 1 .. PRIME_SIZE |-> mp_mod_d(b, ltm_prime_tab[x])],
                              IF bbs_style THEN 4 ELSE 2, t)

sizes == <<<<128, 28>>, <<256, 16>>, <<384, 10>>, <<512, 7>>, <<640, 6>>, <<768, 5>>,
           <<896, 4>>, <<1024, 4>>>>
mp_prime_rabin_miller_trials(size) ==
    LET x == Min({i \in 1 .. 8 : sizes[i][1] >= size} \cup {9})
    IN CASE x = 9 -> sizes[8][2] + 1
         [] x < 9 /\ sizes[x][1] = size -> sizes[x][2]
         [] OTHER -> sizes[Most(x - 1, 1)][2]

\* The bytes the callback gives get the highest bit and the lowest ones; with
\* the second highest too when asked for.
OrBits(b, m) == b + SumOver([k \in 0 .. 7 |->
                    IF (m \div 2 ^ k) % 2 = 1 /\ (b \div 2 ^ k) % 2 = 0 THEN 2 ^ k ELSE 0])
Masked(tmp, size, safe, msb2, bbs) ==
    LET top    == OrBits(tmp[1] % 2 ^ (((size - 1) % 8) + 1), 2 ^ ((size - 1) % 8))
        first  == [tmp EXCEPT ![1] = top]
        at     == IF size % 8 = 1 THEN 2 ELSE 1
        second == IF msb2 THEN [first EXCEPT ![at] = OrBits(@, 2 ^ (7 - ((9 - size) % 8)))] ELSE first
    IN [second EXCEPT ![Len(tmp)] = OrBits(@, IF safe \/ bbs THEN 3 ELSE 1)]

RECURSIVE mp_prime_random_ex(_, _, _, _, _)
mp_prime_random_ex(t, size, flags, bytes, tries) ==
    LET a == mp_read_unsigned_bin(Masked(Head(bytes), size, "SAFE" \in flags, "2MSB" \in flags,
                                         "BBS" \in flags))
        half == mp_div_2(mp_sub_d(a, 1))
        good == mp_prime_is_prime(a, t) /\ ("SAFE" \in flags => mp_prime_is_prime(half, t))
    IN CASE size <= 1 \/ t <= 0 -> MP_VAL
         [] size > 1 /\ t > 0 /\ tries = 0 -> MP_VAL     \* the callback has no more
         [] OTHER -> IF good THEN IF "SAFE" \in flags THEN mp_add_d(mp_mul_2(half), 1) ELSE a
                     ELSE mp_prime_random_ex(t, size, flags, Tail(bytes), tries - 1)
=============================================================================
