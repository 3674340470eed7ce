--------------------------- MODULE MCWalletStore ---------------------------
(***************************************************************************)
(* WalletStore for TLC: names are numbers, in the order hscan lists them.  *)
(***************************************************************************)
EXTENDS WalletStoreRefinement

\* The order of the keys in the hash: the smallest number comes first.
MCFirstOf == [S \in SUBSET Names |->
    IF S = {} THEN NoName ELSE CHOOSE n \in S : \A m \in S : n <= m]

=============================================================================
