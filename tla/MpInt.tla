------------------------------- MODULE MpInt -------------------------------
(***************************************************************************)
(* The numbers of libtommath 1.0 (ThirdParty/libtommath-1.0/mpi.c), which  *)
(* carry every amount, gas price and nonce of the wallet: addition,        *)
(* the four ways to multiply, division, shifts, and the conversions from   *)
(* and to bytes and digits of a radix.  Operators have the names of the C  *)
(* functions and return what these leave in their last arguments; memory   *)
(* and arguments that share it are left out.                               *)
(*                                                                         *)
(* A number is its sign and the digits in use, the lowest first.  A digit  *)
(* beyond those is zero, as the C code keeps it.  The widths are           *)
(* parameters: 28 and 64 bits in the 32-bit build, 60 and 128 in the other.*)
(***************************************************************************)
EXTENDS Integers, Sequences, SequencesExt, FiniteSetsExt, Folds

CONSTANTS DIGIT_BIT,            \* bits of a digit
          WORD_BIT,             \* bits of an mp_word
          BYTE_BIT,             \* bits of a byte: 8
          LONG_BIT, INT_BIT,    \* bits of an unsigned long, and the 32 an int has
          KARATSUBA_MUL_CUTOFF, KARATSUBA_SQR_CUTOFF,   \* 80 and 120
          TOOM_MUL_CUTOFF, TOOM_SQR_CUTOFF              \* 350 and 400

MP_ZPOS == 0
MP_NEG  == 1
MP_VAL  == [sign |-> -1, dp |-> <<>>]     \* an error in place of a number
MP_LT == -1
MP_EQ == 0
MP_GT == 1

Base == 2 ^ DIGIT_BIT
MP_MASK == Base - 1
MP_WARRAY == 2 ^ (WORD_BIT - 2 * DIGIT_BIT + 1)
CombaLimit == 2 ^ (WORD_BIT - 2 * DIGIT_BIT)

Least(i, j) == IF i < j THEN i ELSE j
Most(i, j) == IF i < j THEN j ELSE i
Zeros(n) == [i \in 1 .. n |-> 0]

Used(a) == Len(a.dp)
mp_iszero(a) == Used(a) = 0
D(a, i) == IF i \in 0 .. Used(a) - 1 THEN a.dp[i + 1] ELSE 0
mp_isodd(a) == D(a, 0) % 2 = 1
mp_iseven(a) == Used(a) > 0 /\ D(a, 0) % 2 = 0

mp_zero == [sign |-> MP_ZPOS, dp |-> <<>>]

mp_clamp(a) ==
    LET used == Max({0} \cup {i \in DOMAIN a.dp : a.dp[i] # 0})
    IN [sign |-> IF used = 0 THEN MP_ZPOS ELSE a.sign, dp |-> SubSeq(a.dp, 1, used)]

Clamped(sign, dp) == mp_clamp([sign |-> sign, dp |-> dp])

mp_set(b) == Clamped(MP_ZPOS, <<b % Base>>)
mp_abs(a) == [a EXCEPT !.sign = MP_ZPOS]
mp_neg(a) == [a EXCEPT !.sign = IF mp_iszero(a) \/ @ = MP_NEG THEN MP_ZPOS ELSE MP_NEG]

(* Columns become digits: each passes on what does not fit, or borrows.    *)
RECURSIVE Carried(_, _)
Carried(cols, u) ==
    IF cols = <<>> THEN <<u>>
    ELSE <<(Head(cols) + u) % Base>> \o Carried(Tail(cols), (Head(cols) + u) \div Base)

(* The same in one word, whose sums wrap around.                           *)
RECURSIVE WordCarried(_, _)
WordCarried(cols, u) ==
    IF cols = <<>> THEN <<u % Base>>
    ELSE LET w == (Head(cols) + u) % 2 ^ WORD_BIT
         IN <<w % Base>> \o WordCarried(Tail(cols), w \div Base)

SumOver(f) == FoldSet(LAMBDA i, s : s + f[i], 0, DOMAIN f)

-----------------------------------------------------------------------------
(* Comparisons.                                                            *)

mp_cmp_mag(a, b) ==
    LET differ == {i \in DOMAIN a.dp : a.dp[i] # b.dp[i]}
    IN CASE Used(a) > Used(b) -> MP_GT
         [] Used(a) < Used(b) -> MP_LT
         [] OTHER -> IF differ = {} THEN MP_EQ
                     ELSE IF a.dp[Max(differ)] > b.dp[Max(differ)] THEN MP_GT ELSE MP_LT

mp_cmp(a, b) ==
    CASE a.sign # b.sign -> IF a.sign = MP_NEG THEN MP_LT ELSE MP_GT
      [] a.sign = MP_NEG -> mp_cmp_mag(b, a)
      [] OTHER           -> mp_cmp_mag(a, b)

mp_cmp_d(a, b) ==
    CASE a.sign = MP_NEG -> MP_LT
      [] Used(a) > 1     -> MP_GT
      [] OTHER -> IF D(a, 0) > b THEN MP_GT ELSE IF D(a, 0) < b THEN MP_LT ELSE MP_EQ

-----------------------------------------------------------------------------
(* Sums.  sign is what the caller has put into the result before.          *)

s_mp_add(a, b, sign) ==
    Clamped(sign, Carried([i \in 1 .. Most(Used(a), Used(b)) |-> D(a, i - 1) + D(b, i - 1)], 0))

s_mp_sub(a, b, sign) ==
    Clamped(sign, SubSeq(Carried([i \in 1 .. Used(a) |-> D(a, i - 1) - D(b, i - 1)], 0),
                         1, Used(a)))

mp_add(a, b) ==
    CASE a.sign = b.sign           -> s_mp_add(a, b, a.sign)
      [] mp_cmp_mag(a, b) = MP_LT  -> s_mp_sub(b, a, b.sign)
      [] OTHER                     -> s_mp_sub(a, b, a.sign)

mp_sub(a, b) ==
    CASE a.sign # b.sign           -> s_mp_add(a, b, a.sign)
      [] mp_cmp_mag(a, b) # MP_LT  -> s_mp_sub(a, b, a.sign)
      [] OTHER                     -> s_mp_sub(b, a, 1 - a.sign)

\* The magnitudes alone, where both signs are plain; the other cases of the
\* two functions call each other.
AddDigit(a, b) == LET cols == [i \in 1 .. Most(1, Used(a)) |-> D(a, i - 1) + IF i = 1 THEN b ELSE 0]
                  IN SubSeq(Carried(cols, 0), 1, Used(a) + 1)
SubDigit(a, b) == SubSeq(Carried([i \in 1 .. Used(a) |-> D(a, i - 1) - IF i = 1 THEN b ELSE 0], 0),
                         1, Used(a))

mp_sub_d(a, b) ==
    CASE a.sign = MP_NEG -> Clamped(MP_NEG, AddDigit(a, b))
      [] Used(a) = 0 \/ (Used(a) = 1 /\ D(a, 0) <= b) -> Clamped(MP_NEG, <<b - D(a, 0)>>)
      [] OTHER -> Clamped(MP_ZPOS, SubDigit(a, b))

mp_add_d(a, b) ==
    CASE a.sign = MP_ZPOS -> Clamped(MP_ZPOS, AddDigit(a, b))
      [] Used(a) > 1 \/ D(a, 0) >= b ->
            LET d == mp_sub_d(mp_abs(a), b) IN Clamped(MP_NEG, d.dp)
      [] OTHER -> Clamped(MP_ZPOS, <<b - D(a, 0)>>)

-----------------------------------------------------------------------------
(* Shifts.                                                                 *)

mp_lshd(a, b) == IF b <= 0 THEN a ELSE [a EXCEPT !.dp = Zeros(b) \o @]

mp_rshd(a, b) ==
    CASE b <= 0       -> a
      [] Used(a) <= b -> mp_zero
      [] OTHER        -> [a EXCEPT !.dp = SubSeq(@, b + 1, Len(@))]

mp_mul_2(a) ==
    LET dp == Carried([i \in DOMAIN a.dp |-> 2 * a.dp[i]], 0)
    IN [a EXCEPT !.dp = IF dp[Len(dp)] # 0 THEN dp ELSE SubSeq(dp, 1, Used(a))]

mp_mul_2d(a, b) ==
    LET c == mp_lshd(a, b \div DIGIT_BIT)
    IN Clamped(c.sign, Carried([i \in DOMAIN c.dp |-> c.dp[i] * 2 ^ (b % DIGIT_BIT)], 0))

\* A digit keeps its upper bits and takes the lower ones of the next.
mp_div_2d(a, b) ==
    LET c == mp_rshd(a, b \div DIGIT_BIT)
        k == b % DIGIT_BIT
    IN IF b <= 0 THEN a
       ELSE Clamped(c.sign, [i \in DOMAIN c.dp |->
              (c.dp[i] \div 2 ^ k) + (D(c, i) % 2 ^ k) * 2 ^ (DIGIT_BIT - k)])

mp_div_2(a) ==
    Clamped(a.sign, [i \in DOMAIN a.dp |-> (a.dp[i] \div 2) + (D(a, i) % 2) * 2 ^ (DIGIT_BIT - 1)])

mp_mod_2d(a, b) ==
    CASE b <= 0                    -> mp_zero
      [] b >= Used(a) * DIGIT_BIT  -> a
      [] OTHER -> Clamped(a.sign, [i \in DOMAIN a.dp |->
            CASE i - 1 < b \div DIGIT_BIT -> a.dp[i]
              [] i - 1 = b \div DIGIT_BIT -> a.dp[i] % 2 ^ (b % DIGIT_BIT)
              [] OTHER -> 0])

mp_2expt(b) == [sign |-> MP_ZPOS, dp |-> Zeros(b \div DIGIT_BIT) \o <<2 ^ (b % DIGIT_BIT)>>]

BitLen(q) == Min({n \in 0 .. WORD_BIT : q < 2 ^ n})
mp_count_bits(a) ==
    IF mp_iszero(a) THEN 0 ELSE (Used(a) - 1) * DIGIT_BIT + BitLen(a.dp[Used(a)])

\* The zero bits below the lowest one, a nibble at a time.
lnz == [q \in 0 .. 15 |-> IF q = 0 THEN 4 ELSE Min({n \in 0 .. 3 : (q \div 2 ^ n) % 2 = 1})]
RECURSIVE Nibbles(_, _)
Nibbles(q, x) == IF q % 16 = 0 THEN Nibbles(q \div 16, x + lnz[0]) ELSE x + lnz[q % 16]
mp_cnt_lsb(a) ==
    LET x == Min({i \in DOMAIN a.dp : a.dp[i] # 0})
        q == a.dp[x]
    IN IF mp_iszero(a) THEN 0
       ELSE IF q % 2 = 1 THEN (x - 1) * DIGIT_BIT ELSE Nibbles(q, (x - 1) * DIGIT_BIT)

-----------------------------------------------------------------------------
(* Products.                                                               *)

\* The sum of the products of digits i of a and col - i of b.
Column(a, b, col) ==
    LET ty == Least(Used(b) - 1, col)
        tx == col - ty
    IN SumOver([i \in tx .. tx + Least(Used(a) - tx, ty + 1) - 1 |-> D(a, i) * D(b, col - i)])

\* Column by column, with one word for the sum.
fast_s_mp_mul_digs(a, b, digs) ==
    LET pa == Least(digs, Used(a) + Used(b))
    IN Clamped(MP_ZPOS,
               SubSeq(WordCarried([i \in 1 .. pa |-> Column(a, b, i - 1)], 0), 1, pa))

fast_s_mp_mul_high_digs(a, b, digs) ==
    LET pa == Used(a) + Used(b)
    IN Clamped(MP_ZPOS, Zeros(digs) \o
               SubSeq(WordCarried([i \in 1 .. pa - digs |-> Column(a, b, digs + i - 1)], 0),
                      1, pa - digs))

\* A row: the product with one digit is added at place ix, and the last
\* carry is put, not added, behind it.
Row(t, ix, x, ys, digs) ==
    LET at(i) == IF ix + i <= Len(t) THEN t[ix + i] ELSE 0
        row == Carried([i \in DOMAIN ys |-> at(i) + x * ys[i]], 0)
        end == ix + Len(row)
    IN SubSeq(SubSeq(t, 1, ix) \o row \o SubSeq(t, end + 1, Len(t)), 1, digs)

RECURSIVE Rows(_, _, _, _)
Rows(t, ix, a, b) ==
    IF ix >= Used(a) THEN t
    ELSE Rows(Row(t, ix, a.dp[ix + 1], SubSeq(b.dp, 1, Least(Used(b), Len(t) - ix)), Len(t)),
              ix + 1, a, b)

s_mp_mul_digs(a, b, digs) ==
    IF digs < MP_WARRAY /\ Least(Used(a), Used(b)) < CombaLimit
    THEN fast_s_mp_mul_digs(a, b, digs)
    ELSE Clamped(MP_ZPOS, Rows(Zeros(digs), 0, a, b))

\* Rows that begin at digit digs of the product.
RECURSIVE HighRows(_, _, _, _, _)
HighRows(t, ix, a, b, digs) ==
    IF ix >= Used(a) THEN t
    ELSE HighRows(Row(t, digs, a.dp[ix + 1], SubSeq(b.dp, digs - ix + 1, Used(b)), Len(t)),
                  ix + 1, a, b, digs)

s_mp_mul_high_digs(a, b, digs) ==
    IF Used(a) + Used(b) + 1 < MP_WARRAY /\ Least(Used(a), Used(b)) < CombaLimit
    THEN fast_s_mp_mul_high_digs(a, b, digs)
    ELSE Clamped(MP_ZPOS, HighRows(Zeros(Used(a) + Used(b) + 1), 0, a, b, digs))

mp_mul_d(a, b) == Clamped(a.sign, Carried([i \in DOMAIN a.dp |-> a.dp[i] * b], 0))

\* Squares take each product of two digits once and double it.
SquareColumn(a, col) ==
    LET ty == Least(Used(a) - 1, col)
        tx == col - ty
        iy == Least(Least(Used(a) - tx, ty + 1), (ty - tx + 1) \div 2)
        w  == SumOver([i \in tx .. tx + iy - 1 |-> D(a, i) * D(a, col - i)])
    IN w + w + IF col % 2 = 0 THEN D(a, col \div 2) * D(a, col \div 2) ELSE 0

fast_s_mp_sqr(a) ==
    Clamped(MP_ZPOS, SubSeq(WordCarried([i \in 1 .. 2 * Used(a) |-> SquareColumn(a, i - 1)], 0),
                            1, 2 * Used(a)))

\* Row ix: the square of digit ix, its doubled products with the digits
\* above, and the carry as far as it goes.
RECURSIVE SquareRows(_, _, _)
SquareRows(t, ix, a) ==
    IF ix >= Used(a) THEN t
    ELSE LET x == a.dp[ix + 1]
             col(i) == t[2 * ix + i] + IF i = 1 THEN x * x ELSE 2 * x * D(a, ix + i - 1)
             row == SubSeq(Carried([i \in 1 .. Len(t) - 2 * ix |-> col(i)], 0), 1, Len(t) - 2 * ix)
         IN SquareRows(SubSeq(t, 1, 2 * ix) \o row, ix + 1, a)

s_mp_sqr(a) == Clamped(MP_ZPOS, SquareRows(Zeros(2 * Used(a) + 1), 0, a))

\* a in two parts of its lower B digits and the rest.
Low(a, B) == Clamped(MP_ZPOS, SubSeq(a.dp, 1, B))
High(a, B) == [sign |-> MP_ZPOS, dp |-> SubSeq(a.dp, B + 1, Used(a))]

\* x0 + x1 * m and so on are the three parts put together, at B digits each.
Joined(x0y0, t1, x1y1, B) == mp_add(mp_add(x0y0, mp_lshd(t1, B)), mp_lshd(x1y1, 2 * B))

\* The parts of Toom-Cook, of B digits but the last.
Third(a, B, k) ==
    CASE k = 0 -> mp_mod_2d(a, DIGIT_BIT * B)
      [] k = 1 -> mp_mod_2d(mp_rshd(a, B), DIGIT_BIT * B)
      [] OTHER -> mp_rshd(a, 2 * B)

\* 4a + 2b + c, by doubling and adding.
AtTwo(a, b, c) == mp_add(mp_mul_2(mp_add(mp_mul_2(a), b)), c)

\* Long division by a digit, from the highest digit down; by three with a
\* multiplication, whose digit is then raised to the right one.
QuotientDigit(w, b) ==
    LET t == IF w < 3 THEN 0 ELSE ((w * (Base \div 3)) % 2 ^ WORD_BIT) \div Base
    IN IF b = 3 THEN t + Max({0} \cup {k \in 0 .. w : w - 3 * t - 3 * k >= 0}) ELSE w \div b

RECURSIVE DivDigits(_, _, _)
DivDigits(dp, w, b) ==
    IF dp = <<>> THEN [q |-> <<>>, d |-> w]
    ELSE LET v    == w * Base + Last(dp)
             t    == QuotientDigit(v, b)
             rest == DivDigits(Front(dp), v - t * b, b)
         IN [q |-> Append(rest.q, t), d |-> rest.d]

mp_div_3(a) ==
    LET r == DivDigits(a.dp, 0, 3) IN [q |-> Clamped(a.sign, r.q), d |-> r.d]

\* The five values at the points become the coefficients.
Interpolated(w) ==
    LET u1 == mp_div_2(mp_sub(w[1], w[4]))
        u3 == mp_div_2(mp_sub(w[3], w[0]))
        u2 == mp_sub(mp_sub(w[2], w[0]), w[4])
        v1 == mp_sub(mp_sub(u1, u2), mp_mul_2d(w[0], 3))
        v3 == mp_sub(mp_sub(u3, u2), mp_mul_2d(w[4], 3))
        v2 == mp_sub(mp_sub(mp_mul_d(u2, 3), v1), v3)
    IN [w EXCEPT ![1] = mp_div_3(mp_sub(v1, v2)).q, ![2] = v2,
                 ![3] = mp_div_3(mp_sub(v3, v2)).q]

ToomJoined(w, B) ==
    LET c == [i \in 0 .. 4 |-> mp_lshd(w[i], i * B)]
    IN mp_add(mp_add(c[4], mp_add(c[2], c[3])), mp_add(c[0], c[1]))

RECURSIVE mp_mul(_, _)
mp_karatsuba_mul(a, b) ==
    LET B    == Least(Used(a), Used(b)) \div 2
        x0y0 == mp_mul(Low(a, B), Low(b, B))
        x1y1 == mp_mul(High(a, B), High(b, B))
        t1   == mp_mul(s_mp_add(High(a, B), Low(a, B), MP_ZPOS),
                       s_mp_add(High(b, B), Low(b, B), MP_ZPOS))
    IN Joined(x0y0, s_mp_sub(t1, mp_add(x0y0, x1y1), MP_ZPOS), x1y1, B)

mp_toom_mul(a, b) ==
    LET B == Least(Used(a), Used(b)) \div 3
        x == [k \in 0 .. 2 |-> Third(a, B, k)]
        y == [k \in 0 .. 2 |-> Third(b, B, k)]
        at == [k \in 0 .. 4 |->
                CASE k = 0 -> mp_mul(x[0], y[0])
                  [] k = 1 -> mp_mul(AtTwo(x[0], x[1], x[2]), AtTwo(y[0], y[1], y[2]))
                  [] k = 2 -> mp_mul(mp_add(mp_add(x[2], x[1]), x[0]),
                                     mp_add(mp_add(y[2], y[1]), y[0]))
                  [] k = 3 -> mp_mul(AtTwo(x[2], x[1], x[0]), AtTwo(y[2], y[1], y[0]))
                  [] OTHER -> mp_mul(x[2], y[2])]
    IN ToomJoined(Interpolated(at), B)

s_mp_mul(a, b) == s_mp_mul_digs(a, b, Used(a) + Used(b) + 1)

mp_mul(a, b) ==
    LET least == Least(Used(a), Used(b))
        c == CASE least >= TOOM_MUL_CUTOFF      -> mp_toom_mul(a, b)
               [] least >= KARATSUBA_MUL_CUTOFF -> mp_karatsuba_mul(a, b)
               [] Used(a) + Used(b) + 1 < MP_WARRAY /\ least <= CombaLimit ->
                     fast_s_mp_mul_digs(a, b, Used(a) + Used(b) + 1)
               [] OTHER -> s_mp_mul(a, b)
    IN [c EXCEPT !.sign = IF Used(c) > 0 /\ a.sign # b.sign THEN MP_NEG ELSE MP_ZPOS]

RECURSIVE mp_sqr(_)
mp_karatsuba_sqr(a) ==
    LET B    == Used(a) \div 2
        x0   == Low(a, B)
        x1   == High(a, B)
        x0x0 == mp_sqr(x0)
        x1x1 == mp_sqr(x1)
        t1   == mp_sqr(s_mp_add(x1, x0, MP_ZPOS))
    IN Joined(x0x0, s_mp_sub(t1, s_mp_add(x0x0, x1x1, MP_ZPOS), MP_ZPOS), x1x1, B)

mp_toom_sqr(a) ==
    LET B == Used(a) \div 3
        x == [k \in 0 .. 2 |-> Third(a, B, k)]
        at == [k \in 0 .. 4 |->
                CASE k = 0 -> mp_sqr(x[0])
                  [] k = 1 -> mp_sqr(AtTwo(x[0], x[1], x[2]))
                  [] k = 2 -> mp_sqr(mp_add(mp_add(x[2], x[1]), x[0]))
                  [] k = 3 -> mp_sqr(AtTwo(x[2], x[1], x[0]))
                  [] OTHER -> mp_sqr(x[2])]
    IN ToomJoined(Interpolated(at), B)

mp_sqr(a) ==
    CASE Used(a) >= TOOM_SQR_CUTOFF      -> mp_abs(mp_toom_sqr(a))
      [] Used(a) >= KARATSUBA_SQR_CUTOFF -> mp_karatsuba_sqr(a)
      [] 2 * Used(a) + 1 < MP_WARRAY /\ 2 * Used(a) < CombaLimit -> fast_s_mp_sqr(a)
      [] OTHER -> s_mp_sqr(a)

-----------------------------------------------------------------------------
(* Quotients.                                                              *)

s_is_power_of_two(b) == \E x \in 0 .. DIGIT_BIT - 1 : b = 2 ^ x

\* d is what is left of the magnitude.
mp_div_d(a, b) ==
    LET x == CHOOSE n \in 0 .. DIGIT_BIT : b = 2 ^ n
        r == DivDigits(a.dp, 0, b)
    IN CASE b = 0                   -> MP_VAL
         [] b = 1 \/ mp_iszero(a)   -> [q |-> a, d |-> 0]
         [] b > 1 /\ ~mp_iszero(a) /\ s_is_power_of_two(b) ->
                [q |-> mp_div_2d(a, x), d |-> D(a, 0) % b]
         [] b = 3 /\ ~mp_iszero(a)  -> mp_div_3(a)
         [] OTHER                   -> [q |-> Clamped(a.sign, r.q), d |-> r.d]

mp_mod_d(a, b) == mp_div_d(a, b).d

\* Both operands are shifted until the divisor's highest digit is half full.
Norm(b) == LET k == mp_count_bits(b) % DIGIT_BIT
           IN IF k < DIGIT_BIT - 1 THEN DIGIT_BIT - 1 - k ELSE 0

\* The highest digit of the quotient by subtracting.
RECURSIVE TopDigit(_, _, _)
TopDigit(x, y, q) ==
    IF mp_cmp(x, y) = MP_LT THEN [x |-> x, q |-> q] ELSE TopDigit(mp_sub(x, y), y, q + 1)

\* The guess from two digits over one, lowered until two digits of the
\* divisor times it are no more than three of x.
FirstGuess(x, y, i, t) ==
    IF D(x, i) = D(y, t) THEN Base - 1
    ELSE Least(((D(x, i) * Base + D(x, i - 1)) % 2 ^ WORD_BIT) \div D(y, t), MP_MASK)

TooLarge(q, x, y, i, t) ==
    mp_cmp_mag(mp_mul_d([sign |-> MP_ZPOS, dp |-> <<D(y, t - 1), D(y, t)>>], q),
               [dp |-> <<D(x, i - 2), D(x, i - 1), D(x, i)>>]) = MP_GT

RECURSIVE Guess(_, _, _, _, _)
Guess(q, x, y, i, t) ==
    IF TooLarge(q, x, y, i, t) THEN Guess((q - 1) % Base, x, y, i, t) ELSE q

\* Mutant: a guess that was too large is not taken back.
DivStepOnce(x, y, q, i, t) ==
    LET guess == Guess(FirstGuess(x, y, i, t), x, y, i, t)
    IN [x |-> mp_abs(mp_sub(x, mp_lshd(mp_mul_d(y, guess), i - t - 1))),
        q |-> [q EXCEPT ![i - t] = guess]]

\* One digit: x loses the divisor times it, and gets it back once when that
\* was too much.  q is the quotient's digits.
DivStep(x, y, q, i, t) ==
    LET guess == Guess(FirstGuess(x, y, i, t), x, y, i, t)
        less  == mp_sub(x, mp_lshd(mp_mul_d(y, guess), i - t - 1))
    IN CASE i > Used(x) -> [x |-> x, q |-> q]
         [] i <= Used(x) /\ less.sign = MP_NEG ->
                [x |-> mp_add(less, mp_lshd(y, i - t - 1)),
                 q |-> [q EXCEPT ![i - t] = (guess - 1) % Base]]
         [] OTHER -> [x |-> less, q |-> [q EXCEPT ![i - t] = guess]]

RECURSIVE DivLoop(_, _, _, _, _)
DivLoop(x, y, q, i, t) ==
    IF i <= t THEN [x |-> x, q |-> q]
    ELSE LET r == DivStep(x, y, q, i, t) IN DivLoop(r.x, y, r.q, i - 1, t)

mp_div(a, b) ==
    LET norm == Norm(b)
        x    == mp_mul_2d(mp_abs(a), norm)
        y    == mp_mul_2d(mp_abs(b), norm)
        n    == Used(x) - 1
        t    == Used(y) - 1
        top  == TopDigit(x, mp_lshd(y, n - t), 0)
        r    == DivLoop(top.x, y, Zeros(n - t) \o <<top.q, 0, 0>>, n, t)
        rest == [r.x EXCEPT !.sign = IF mp_iszero(r.x) THEN MP_ZPOS ELSE a.sign]
    IN CASE mp_iszero(b)              -> MP_VAL
         [] ~mp_iszero(b) /\ mp_cmp_mag(a, b) = MP_LT -> [q |-> mp_zero, d |-> a]
         [] OTHER -> [q |-> [Clamped(MP_ZPOS, r.q) EXCEPT
                               !.sign = IF a.sign = b.sign THEN MP_ZPOS ELSE MP_NEG],
                      d |-> mp_div_2d(rest, norm)]

\* Of a negative divisor the remainder zero becomes the divisor.
mp_mod(a, b) ==
    LET r == mp_div(a, b)
    IN CASE mp_iszero(b) -> MP_VAL
         [] ~mp_iszero(b) /\ r.d.sign # b.sign -> mp_add(b, r.d)
         [] OTHER -> r.d

-----------------------------------------------------------------------------
(* Digit by digit; the longer operand, or b, gives the sign.               *)

BitAnd(x, y) == SumOver([k \in 0 .. DIGIT_BIT - 1 |->
                    IF (x \div 2 ^ k) % 2 = 1 /\ (y \div 2 ^ k) % 2 = 1 THEN 2 ^ k ELSE 0])

Longer(a, b) == IF Used(a) > Used(b) THEN a ELSE b

mp_and(a, b) ==
    LET t == Longer(a, b)
    IN Clamped(t.sign, [i \in DOMAIN t.dp |-> BitAnd(D(a, i - 1), D(b, i - 1))])
mp_or(a, b) ==
    LET t == Longer(a, b)
    IN Clamped(t.sign, [i \in DOMAIN t.dp |->
           D(a, i - 1) + D(b, i - 1) - BitAnd(D(a, i - 1), D(b, i - 1))])
mp_xor(a, b) ==
    LET t == Longer(a, b)
    IN Clamped(t.sign, [i \in DOMAIN t.dp |->
           D(a, i - 1) + D(b, i - 1) - 2 * BitAnd(D(a, i - 1), D(b, i - 1))])

-----------------------------------------------------------------------------
(* Text and bytes.  A character is its place in mp_s_rmap, or none of these. *)

MINUS == -1
toupper(ch) == IF ch \in 36 .. 61 THEN ch - 26 ELSE ch

RECURSIVE ReadDigits(_, _, _)
ReadDigits(a, str, radix) ==
    LET y == IF radix < 36 THEN toupper(Head(str)) ELSE Head(str)
    IN IF str = <<>> THEN a
       ELSE IF y \notin 0 .. radix - 1 THEN a
       ELSE ReadDigits(mp_add_d(mp_mul_d(a, radix), y), Tail(str), radix)

mp_read_radix(str, radix) ==
    LET neg == Len(str) > 0 /\ str[1] = MINUS
        a   == ReadDigits(mp_zero, IF neg THEN Tail(str) ELSE str, radix)
    IN IF radix \notin 2 .. 64 THEN MP_VAL
       ELSE IF neg /\ ~mp_iszero(a) THEN [a EXCEPT !.sign = MP_NEG] ELSE a

\* At most max digits, the lowest first.
RECURSIVE RadixDigits(_, _, _)
RadixDigits(t, radix, max) ==
    IF mp_iszero(t) \/ max = 0 THEN <<>>
    ELSE LET r == mp_div_d(t, radix)
         IN <<r.d>> \o RadixDigits(r.q, radix, max - 1)

Minus(a) == IF a.sign = MP_NEG THEN <<MINUS>> ELSE <<>>

mp_toradix(a, radix) ==
    CASE radix \notin 2 .. 64 -> MP_VAL
      [] radix \in 2 .. 64 /\ mp_iszero(a) -> <<0>>
      [] OTHER -> Minus(a) \o Reverse(RadixDigits(mp_abs(a), radix, -1))

\* With too little room it is the lowest digits that are written.
mp_toradix_n(a, radix, maxlen) ==
    CASE maxlen < 2 \/ radix \notin 2 .. 64 -> MP_VAL
      [] maxlen >= 2 /\ radix \in 2 .. 64 /\ mp_iszero(a) -> <<0>>
      [] OTHER -> Minus(a) \o
            Reverse(RadixDigits(mp_abs(a), radix, Most(0, maxlen - 1 - Len(Minus(a)))))

mp_radix_size(a, radix) ==
    LET minus == Len(Minus(a))
    IN CASE radix = 2            -> mp_count_bits(a) + minus + 1
         [] radix \notin 2 .. 64 -> MP_VAL
         [] radix \in 3 .. 64 /\ mp_iszero(a) -> 2
         [] OTHER -> minus + Len(RadixDigits(mp_abs(a), radix, -1)) + 1

\* The low bits a shift has left empty take a byte, and one more digit may
\* be in use.
TakeByte(a, b) == LET c == mp_mul_2d(a, BYTE_BIT)
                  IN Clamped(MP_ZPOS, [(c.dp \o <<0>>) EXCEPT ![1] = @ + b])
mp_read_unsigned_bin(b) == FoldLeft(TakeByte, mp_zero, b)
mp_read_signed_bin(b) ==
    [mp_read_unsigned_bin(Tail(b)) EXCEPT !.sign = IF b[1] = 0 THEN MP_ZPOS ELSE MP_NEG]

RECURSIVE ByteDigits(_)
ByteDigits(t) ==
    IF mp_iszero(t) THEN <<>>
    ELSE <<D(t, 0) % 2 ^ BYTE_BIT>> \o ByteDigits(mp_div_2d(t, BYTE_BIT))
mp_to_unsigned_bin(a) == Reverse(ByteDigits(a))
mp_to_signed_bin(a) == <<a.sign>> \o mp_to_unsigned_bin(a)

mp_unsigned_bin_size(a) ==
    LET size == mp_count_bits(a)
    IN size \div BYTE_BIT + IF size % BYTE_BIT # 0 THEN 1 ELSE 0
mp_signed_bin_size(a) == 1 + mp_unsigned_bin_size(a)
mp_to_unsigned_bin_n(a, outlen) ==
    IF outlen < mp_unsigned_bin_size(a) THEN MP_VAL ELSE mp_to_unsigned_bin(a)
mp_to_signed_bin_n(a, outlen) ==
    IF outlen < mp_signed_bin_size(a) THEN MP_VAL ELSE mp_to_signed_bin(a)

\* The bits of an int, four at a time.
TakeNibble(a, b) == LET c == mp_mul_2d(a, 4)
                    IN [c EXCEPT !.dp = [(@ \o <<0>>) EXCEPT ![1] = @ + b]]
mp_set_int(b) ==
    LET n == INT_BIT \div 4
    IN mp_clamp(FoldLeft(TakeNibble, mp_zero, [x \in 1 .. n |-> (b \div 16 ^ (n - x)) % 16]))

\* The digits that fill a long, cut to an int.
mp_get_int(a) ==
    LET n == Least(Used(a), (LONG_BIT + DIGIT_BIT - 1) \div DIGIT_BIT)
    IN FoldRight(LAMBDA d, res : (res * Base + d) % 2 ^ LONG_BIT, SubSeq(a.dp, 1, n), 0)
          % 2 ^ INT_BIT
=============================================================================
