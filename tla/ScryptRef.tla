------------------------------ MODULE ScryptRef ------------------------------
(***************************************************************************)
(* crypto_scrypt-ref.c: scrypt on bytes, with a look at the stop flag      *)
(* after every step.  A buffer of r is 2r blocks of 64 bytes.              *)
(***************************************************************************)
EXTENDS Words

CONSTANTS K256(_), sha256_initial_hash_value
Nosse == INSTANCE Scrypt

blkxor(dest, src) == XorBytes(dest, src)
salsa20_8(B) ==
    LET B32 == [i \in 1 .. 16 |-> Nosse!le32dec(SubSeq(B, 4 * i - 3, 4 * i))] \o <<>>
        x   == Nosse!DoubleRounds(B32, 4)
    IN Nosse!Joined([i \in 1 .. 16 |-> Nosse!le32enc(Plus(32, B32[i], x[i]))])

\* Y keeps the blocks in the order they come in; then B takes the even ones
\* and after them the odd ones.
blockmix_salsa8(B, r) ==
    LET Y == FoldLeft(LAMBDA y, b : Append(y, salsa20_8(blkxor(y[Len(y)], b))), <<B[2 * r]>>, B)
    IN [i \in 1 .. 2 * r |-> IF i <= r THEN Y[2 * i] ELSE Y[2 * (i - r) + 1]] \o <<>>
integerify(B, r) == Nosse!le64dec(Taken(B[2 * r], 8))

\* The steps of both loops: while V is not full a step stores X in it, later
\* one mixes the entry X points to into X.
RECURSIVE Steps(_, _, _, _, _, _, _)
Steps(X, V, r, N, step, looks, stop) ==
    IF X = <<>> \/ step = 2 * N THEN [X |-> X, looks |-> looks, stopped |-> FALSE]
    ELSE LET j == Nosse!Place(integerify(X, r), N)
             from == IF step < N THEN X ELSE [k \in DOMAIN X |-> blkxor(X[k], V[j][k])] \o <<>>
             next == blockmix_salsa8(from, r)
         IN IF looks + 1 >= stop THEN [X |-> X, looks |-> looks + 1, stopped |-> TRUE]
            ELSE Steps(next, IF step < N THEN Append(V, X) ELSE V, r, N, step + 1, looks + 1, stop)
smix(B, r, N, looks, stop) ==
    LET end == Steps(Pieces(B, 64), <<>>, r, N, 0, looks, stop)
    IN [B |-> IF end.stopped THEN B ELSE Nosse!Joined(end.X), looks |-> end.looks]

RECURSIVE Parts(_, _, _, _, _, _)
Parts(B, done, r, N, looks, stop) ==
    IF B = <<>> THEN [B |-> done, stopped |-> FALSE]
    ELSE LET s == smix(Taken(B, 128 * r), r, N, looks, stop)
         IN IF s.looks + 1 >= stop THEN [B |-> done, stopped |-> TRUE]
            ELSE Parts(Dropped(B, 128 * r), done \o s.B, r, N, s.looks + 1, stop)
crypto_scrypt(passwd, salt, N, r, p, buflen, stop, failing) ==
    LET run == Parts(Nosse!PBKDF2_SHA256(passwd, salt, 1, p * 128 * r), <<>>, r, NumberOf(N), 0, stop)
    IN IF Nosse!Refused(N, r, p) \/ failing \in {"B", "XY", "V"} \/ run.stopped THEN [status |-> -1, buf |-> <<>>]
       ELSE [status |-> 0, buf |-> Nosse!PBKDF2_SHA256(passwd, run.B, 1, buflen)]
=============================================================================
