--------------------------- MODULE MCAccountJobs ---------------------------
(* A small instance of AccountJobs for TLC: one key whose phrase has 12    *)
(* words and one whose phrase has 24; foreign keystores damaged, without   *)
(* a phrase, with another account's phrase, and with another address.      *)
EXTENDS AccountJobs

CONSTANTS K12, K24, P, Q

MCPhraseBytes == [k \in {K12, K24} |-> IF k = K12 THEN 16 ELSE 32]

Foreign(sound, address, key, phrase) ==
    [sound |-> sound, address |-> address, password |-> P, key |-> key, phrase |-> phrase]

MCForeignFiles == {Foreign(FALSE, K12, K12, NoKey), Foreign(TRUE, K24, K24, NoKey),
                   Foreign(TRUE, K12, K24, NoKey),
                   Foreign(TRUE, K24, K24, K12), Foreign(TRUE, K12, K12, K12)}
=============================================================================
