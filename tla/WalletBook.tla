----------------------------- MODULE WalletBook -----------------------------
(***************************************************************************)
(* What the wallet storage promises its screens: a book in which a name    *)
(* opens an account, no account is entered twice, and creating, renaming,  *)
(* removing and selecting a wallet each happen at once.                    *)
(***************************************************************************)
CONSTANTS Names, Addresses, NoName, NoAddress

VARIABLES
    opens,      \* the account each name opens, or NoAddress
    trash,      \* the name each removed account was last removed under
    selected    \* the selected name, or NoName

vars == <<opens, trash, selected>>

Init ==
    /\ opens = [n \in Names |-> NoAddress]
    /\ trash = [a \in Addresses |-> NoName]
    /\ selected = NoName

Free(n) == opens[n] = NoAddress

Enter(n, a) ==
    /\ Free(n)
    /\ \A m \in Names : opens[m] # a
    /\ opens' = [opens EXCEPT ![n] = a]
    /\ UNCHANGED <<trash, selected>>

\* The account moves to its new name, which becomes the selected one.
Move(n, m) ==
    /\ ~Free(n) /\ Free(m)
    /\ opens' = [opens EXCEPT ![m] = opens[n], ![n] = NoAddress]
    /\ selected' = m
    /\ UNCHANGED trash

\* The account is kept in the trash, and no name is selected.
Discard(n) ==
    /\ ~Free(n)
    /\ trash' = [trash EXCEPT ![opens[n]] = n]
    /\ opens' = [opens EXCEPT ![n] = NoAddress]
    /\ selected' = NoName

Select(n) ==
    /\ ~Free(n)
    /\ selected' = n
    /\ UNCHANGED <<opens, trash>>

Next ==
    \/ \E n \in Names, a \in Addresses : Enter(n, a)
    \/ \E n, m \in Names : Move(n, m)
    \/ \E n \in Names : Discard(n)
    \/ \E n \in Names : Select(n)

Spec == Init /\ [][Next]_vars
=============================================================================
