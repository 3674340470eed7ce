--------------------------------- MODULE Sha3 ---------------------------------
(***************************************************************************)
(* sha3.c of trezor-crypto: the sponge of SHA-3 and of the older Keccak    *)
(* that Ethereum hashes with.  Lanes are words of 64 bits, place x + 5 y   *)
(* of the source at x + 5 y + 1.                                           *)
(***************************************************************************)
EXTENDS Words

\* The bits set in the constant of each round.
keccak_round_constants == <<
    {0}, {1, 7, 15}, {1, 3, 7, 15, 63}, {15, 31, 63}, {0, 1, 3, 7, 15}, {0, 31},
    {0, 7, 15, 31, 63}, {0, 3, 15, 63}, {1, 3, 7}, {3, 7}, {0, 3, 15, 31}, {1, 3, 31},
    {0, 1, 3, 7, 15, 31}, {0, 1, 3, 7, 63}, {0, 3, 7, 15, 63}, {0, 1, 15, 63}, {1, 15, 63},
    {7, 63}, {1, 3, 15}, {1, 3, 31, 63}, {0, 7, 15, 31, 63}, {7, 15, 63}, {0, 31}, {3, 15, 31, 63}>>
Rotations == <<0, 1, 62, 28, 27, 36, 44, 6, 55, 20, 3, 10, 43, 25, 39, 41, 45, 15, 21, 8, 18, 2, 61, 56, 14>>
\* The lane that comes to each place: the cycle of keccak_pi.
PiCycle == <<1, 6, 9, 22, 14, 20, 2, 12, 13, 19, 23, 15, 4, 24, 21, 8, 16, 5, 3, 18, 17, 11, 7, 10>>

keccak_theta(A) ==
    LET C == [x \in 1 .. 5 |-> XorAll(<<A[x], A[x + 5], A[x + 10], A[x + 15], A[x + 20]>>)] \o <<>>
        D == [x \in 1 .. 5 |-> Xor(RotateLeft(64, C[(x % 5) + 1], 1), C[((x + 3) % 5) + 1])] \o <<>>
    IN [i \in 1 .. 25 |-> Xor(A[i], D[((i - 1) % 5) + 1])] \o <<>>
Rotated(A) == [i \in 1 .. 25 |-> RotateLeft(64, A[i], Rotations[i])] \o <<>>
keccak_pi(A) ==
    LET next(place) == PiCycle[((CHOOSE k \in 1 .. 24 : PiCycle[k] = place) % 24) + 1]
    IN [i \in 1 .. 25 |-> IF i = 1 THEN A[1] ELSE A[next(i - 1) + 1]] \o <<>>
keccak_chi(A) ==
    LET lane(i, n) == A[5 * ((i - 1) \div 5) + ((i - 1 + n) % 5) + 1]
    IN [i \in 1 .. 25 |-> Xor(A[i], lane(i, 2) \ lane(i, 1))] \o <<>>
RECURSIVE PermutedFrom(_, _)
PermutedFrom(state, round) ==
    IF state = <<>> \/ round = 24 THEN state
    ELSE PermutedFrom([keccak_chi(keccak_pi(Rotated(keccak_theta(state))))
                         EXCEPT ![1] = Xor(@, keccak_round_constants[round + 1])], round + 1)
sha3_permutation(state) == PermutedFrom(state, 0)

\* The lanes of the block are mixed in, 9, 13, 17 or 18 of them.
sha3_process_block(hash, block, block_size) ==
    LET lanes == CASE block_size <= 72 -> 9 [] block_size \in 73 .. 104 -> 13
                   [] block_size \in 105 .. 136 -> 17 [] block_size > 136 -> 18
        words == LittleWords(64, block)
    IN sha3_permutation([i \in 1 .. 25 |-> IF i <= lanes THEN Xor(hash[i], words[i]) ELSE hash[i]] \o <<>>)

\* finalized is the bit SHA3_FINALIZED of rest.
keccak_Init(bits) ==
    LET rate == 1600 - bits * 2
    IN [hash |-> [i \in 1 .. 25 |-> {}] \o <<>>, message |-> Zeros(192), rest |-> 0,
        finalized |-> FALSE, block_size |-> rate \div 8]
sha3_224_Init == keccak_Init(224)
sha3_256_Init == keccak_Init(256)
sha3_384_Init == keccak_Init(384)
sha3_512_Init == keccak_Init(512)

Processed(ctx, block) == [ctx EXCEPT !.hash = sha3_process_block(@, block, ctx.block_size)]
\* Whole blocks are read where they are when their address is a multiple of
\* eight, and through the buffer otherwise.
RECURSIVE WholeBlocks(_, _, _)
WholeBlocks(ctx, msg, aligned) ==
    IF Len(msg) < ctx.block_size THEN [ctx EXCEPT !.message = Put(@, 0, msg)]
    ELSE LET block == Taken(msg, ctx.block_size)
         IN WholeBlocks(Processed(IF aligned THEN ctx ELSE [ctx EXCEPT !.message = Put(@, 0, block)], block),
                        Dropped(msg, ctx.block_size), aligned)
sha3_Update(ctx, msg, aligned) ==
    LET idx == ctx.rest  left == ctx.block_size - idx
        counted == [ctx EXCEPT !.rest = (@ + Len(msg)) % ctx.block_size]
        started == [counted EXCEPT !.message = Put(@, idx, Taken(msg, left))]
    IN CASE ctx.finalized -> ctx
         [] ~ctx.finalized /\ idx > 0 /\ Len(msg) < left -> [counted EXCEPT !.message = Put(@, idx, msg)]
         [] ~ctx.finalized /\ idx > 0 /\ Len(msg) >= left ->
              WholeBlocks(Processed(started, Taken(started.message, ctx.block_size)), Dropped(msg, left), aligned)
         [] ~ctx.finalized /\ idx = 0 -> WholeBlocks(counted, msg, aligned)

\* The message ends with mark, zeros and a last bit; a finished context stays.
Finished(ctx, mark) ==
    LET zeroed == Put(ctx.message, ctx.rest, Zeros(ctx.block_size - ctx.rest))
        set(m, at, n) == [m EXCEPT ![at] = NumberOf(BitsOf(@) \cup BitsOf(n))]
        padded == set(set(zeroed, ctx.rest + 1, mark), ctx.block_size, 128)
    IN IF ctx.finalized THEN ctx
       ELSE [Processed([ctx EXCEPT !.message = padded], Taken(padded, ctx.block_size))
               EXCEPT !.finalized = TRUE, !.rest = 0]
Result(ctx) ==
    Taken(FoldLeft(LAMBDA s, a : s \o LittleBytes(64, a), <<>>, ctx.hash), 100 - ctx.block_size \div 2)
sha3_Final(ctx)   == LET end == Finished(ctx, 6) IN [ctx |-> end, result |-> Result(end)]
keccak_Final(ctx) == LET end == Finished(ctx, 1) IN [ctx |-> end, result |-> Result(end)]
=============================================================================
