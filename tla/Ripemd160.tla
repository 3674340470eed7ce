------------------------------ MODULE Ripemd160 ------------------------------
(***************************************************************************)
(* ripemd160.c of trezor-crypto: two lines of five rounds of sixteen steps *)
(* over the same words, joined at the end.                                 *)
(***************************************************************************)
EXTENDS Words

\* For each line and step: the word it takes and the distance it turns by.
Word == << << 0, 1, 2, 3, 4, 5, 6, 7, 8, 9, 10, 11, 12, 13, 14, 15,  7, 4, 13, 1, 10, 6, 15, 3, 12, 0, 9, 5, 2, 14, 11, 8,
              3, 10, 14, 4, 9, 15, 8, 1, 2, 7, 0, 6, 13, 11, 5, 12,  1, 9, 11, 10, 0, 8, 12, 4, 13, 3, 7, 15, 14, 5, 6, 2,
              4, 0, 5, 9, 7, 12, 2, 10, 14, 1, 3, 8, 11, 6, 15, 13 >>,
           << 5, 14, 7, 0, 9, 2, 11, 4, 13, 6, 15, 8, 1, 10, 3, 12,  6, 11, 3, 7, 0, 13, 5, 10, 14, 15, 8, 12, 4, 9, 1, 2,
              15, 5, 1, 3, 7, 14, 6, 9, 11, 8, 12, 2, 10, 0, 4, 13,  8, 6, 4, 1, 3, 11, 15, 0, 5, 12, 2, 13, 9, 7, 10, 14,
              12, 15, 10, 4, 1, 5, 8, 7, 6, 2, 13, 14, 0, 3, 9, 11 >> >>
Turn == << << 11, 14, 15, 12, 5, 8, 7, 9, 11, 13, 14, 15, 6, 7, 9, 8,  7, 6, 8, 13, 11, 9, 7, 15, 7, 12, 15, 9, 11, 7, 13, 12,
              11, 13, 6, 7, 14, 9, 13, 15, 14, 8, 13, 6, 5, 12, 7, 5,  11, 12, 14, 15, 14, 15, 9, 8, 9, 14, 5, 6, 8, 6, 5, 12,
              9, 15, 5, 11, 6, 8, 13, 12, 5, 12, 13, 14, 11, 8, 5, 6 >>,
           << 8, 9, 9, 11, 13, 15, 15, 5, 7, 7, 8, 11, 14, 14, 12, 6,  9, 13, 15, 7, 12, 8, 9, 11, 7, 7, 12, 7, 6, 15, 13, 11,
              9, 7, 15, 11, 8, 6, 6, 14, 12, 13, 5, 14, 13, 13, 7, 5,  15, 5, 8, 11, 14, 14, 6, 14, 6, 9, 12, 9, 12, 5, 15, 8,
              8, 5, 12, 9, 12, 5, 14, 6, 8, 13, 6, 5, 15, 13, 11, 11 >> >>
Parts(hi, lo) == Big(<<hi \div 256, hi % 256, lo \div 256, lo % 256>>)
K == << <<Parts(0, 0), Parts(\h5A82, \h7999), Parts(\h6ED9, \hEBA1), Parts(\h8F1B, \hBCDC), Parts(\hA953, \hFD4E)>>,
        <<Parts(\h50A2, \h8BE6), Parts(\h5C4D, \hD124), Parts(\h6D70, \h3EF3), Parts(\h7A6D, \h76E9), Parts(0, 0)>> >>
F(n, x, y, z) ==
    CASE n = 1 -> XorAll(<<x, y, z>>)
      [] n = 2 -> (x \cap y) \cup (z \ x)
      [] n = 3 -> Xor(x \cup Inverted(32, y), z)
      [] n = 4 -> (x \cap z) \cup (y \ z)
      [] n = 5 -> Xor(x, y \cup Inverted(32, z))

\* Step j of a line: the registers stay where they are and their roles move on.
P(line, regs, X, j) ==
    LET place(role) == ((role + 4 * j) % 5) + 1
        r(role) == regs[place(role)]
        round == j \div 16 + 1
        f == F(IF line = 1 THEN round ELSE 6 - round, r(1), r(2), r(3))
        a == Sum(32, <<r(0), f, X[Word[line][j + 1] + 1], K[line][round]>>)
    IN [regs EXCEPT ![place(0)] = Plus(32, RotateLeft(32, a, Turn[line][j + 1]), r(4)),
                    ![place(2)] = RotateLeft(32, @, 10)]
RECURSIVE Line(_, _, _, _)
Line(line, regs, X, j) ==
    IF regs = <<>> \/ j = 80 THEN regs ELSE Line(line, P(line, regs, X, j), X, j + 1)
ripemd160_process(ctx, data) ==
    LET X == LittleWords(32, data)
        left  == Line(1, ctx.state, X, 0)
        right == Line(2, ctx.state, X, 0)
        joined(i) == Sum(32, <<ctx.state[(i % 5) + 1], left[((i + 1) % 5) + 1], right[((i + 2) % 5) + 1]>>)
    IN [ctx EXCEPT !.state = [i \in 1 .. 5 |-> joined(i)] \o <<>>]

ripemd160_Init ==
    [total |-> 0, buffer |-> Zeros(64),
     state |-> <<Parts(\h6745, \h2301), Parts(\hEFCD, \hAB89), Parts(\h98BA, \hDCFE),
                 Parts(\h1032, \h5476), Parts(\hC3D2, \hE1F0)>>]
ripemd160_Update(ctx, input) ==
    LET left == ctx.total % 64  fill == 64 - left
        counted == [ctx EXCEPT !.total = @ + Len(input)]
        filled == left > 0 /\ Len(input) >= fill
        buffered == [counted EXCEPT !.buffer = Put(@, left, Taken(input, fill))]
        first == IF filled THEN ripemd160_process(buffered, buffered.buffer) ELSE counted
        rest == IF filled THEN Dropped(input, fill) ELSE input
        done == FoldLeft(ripemd160_process, first, Pieces(rest, 64))
        tail == Dropped(rest, Len(rest) - (Len(rest) % 64))
    IN IF input = <<>> THEN ctx
       ELSE [done EXCEPT !.buffer = Put(@, IF filled THEN 0 ELSE left, tail)]
ripemd160_padding == <<128>> \o Zeros(63)
ripemd160_Final(ctx) ==
    LET last == ctx.total % 64
        padn == IF last < 56 THEN 56 - last ELSE 120 - last
        end == ripemd160_Update(ripemd160_Update(ctx, Taken(ripemd160_padding, padn)),
                                LittleBytes(64, ShiftLeft(64, BitsOf(ctx.total), 3)))
    IN FoldLeft(LAMBDA s, a : s \o LittleBytes(32, a), <<>>, end.state)
ripemd160(msg) == ripemd160_Final(ripemd160_Update(ripemd160_Init, msg))
=============================================================================
