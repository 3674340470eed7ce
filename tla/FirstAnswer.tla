----------------------------- MODULE FirstAnswer -----------------------------
(***************************************************************************)
(* What a fallback provider promises a screen: a call goes through the     *)
(* providers there were when it was made, one after the other, and returns *)
(* the answer of the first that does not fail, or that none did.           *)
(***************************************************************************)
EXTENDS Integers, Sequences

CONSTANTS Providers, Calls, TakesNull, MaxProviders

VARIABLES
    list,       \* the providers there are
    turns,      \* turns[c]: the providers c goes through
    failures,   \* failures[c]: how many of them have failed
    result      \* result[c]: "none", "open", or the answer returned

vars == <<list, turns, failures, result>>

Init ==
    /\ list = <<>>
    /\ turns = [c \in Calls |-> <<>>]
    /\ failures = [c \in Calls |-> 0]
    /\ result = [c \in Calls |-> [kind |-> "unborn", from |-> 0]]

ChangeList ==
    /\ list' \in UNION {[1 .. n -> Providers] : n \in 0 .. MaxProviders}
    /\ UNCHANGED <<turns, failures, result>>

Begin(c) ==
    /\ result[c].kind = "unborn"
    /\ turns' = [turns EXCEPT ![c] = list]
    /\ result' = [result EXCEPT ![c] =
                    [kind |-> IF list = <<>> THEN "error" ELSE "pending",
                     from |-> 0]]
    /\ UNCHANGED <<list, failures>>

\* The provider whose turn it is fails; the last failure is the answer.
Fail(c) ==
    /\ result[c].kind = "pending"
    /\ failures' = [failures EXCEPT ![c] = @ + 1]
    /\ result' = [result EXCEPT ![c] =
                    IF failures[c] + 1 = Len(turns[c])
                    THEN [kind |-> "error", from |-> Len(turns[c])] ELSE @]
    /\ UNCHANGED <<list, turns>>

\* The provider whose turn it is has a value.
Return(c) ==
    /\ result[c].kind = "pending"
    /\ result' = [result EXCEPT ![c] =
                    [kind |-> "value", from |-> failures[c] + 1]]
    /\ UNCHANGED <<list, turns, failures>>

\* It has none to give: only a block promise can say so.
ReturnNull(c) ==
    /\ result[c].kind = "pending"
    /\ result' = [result EXCEPT ![c] =
                    [kind |-> IF c \in TakesNull THEN "null" ELSE "error",
                     from |-> failures[c] + 1]]
    /\ UNCHANGED <<list, turns, failures>>

Next ==
    \/ ChangeList
    \/ \E c \in Calls : Begin(c) \/ Fail(c) \/ Return(c) \/ ReturnNull(c)

Live == \A c \in Calls : WF_vars(Fail(c) \/ Return(c) \/ ReturnNull(c))

Spec == Init /\ [][Next]_vars /\ Live
=============================================================================
