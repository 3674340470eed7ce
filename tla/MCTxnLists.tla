----------------------------- MODULE MCTxnLists -----------------------------
(* A small instance of TxnLists for TLC: two accounts, ether and one token, *)
(* two requests under way at once.                                         *)
EXTENDS TxnLists

CONSTANTS A1, A2, T1

MCGrowing == {<<A1, Ether>>}
=============================================================================
