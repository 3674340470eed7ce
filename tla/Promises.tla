------------------------------ MODULE Promises ------------------------------
(***************************************************************************)
(* Promise.m: a promise completes once, from any thread, and its handlers  *)
(* are dispatched to the main queue in the order they were added, those    *)
(* added after completion included.  The operators below are its           *)
(* @synchronized methods, so each is one step; the modules that use        *)
(* promises compose them.  _keepAlive and the atomic accessors are not     *)
(* modelled: no handler reads a promise before it completed.               *)
(***************************************************************************)
EXTENDS Integers, Sequences

VARIABLES
    outcome,    \* outcome[p]: how far the promise p is, and its answer
    callbacks,  \* _completionCallbacks: handlers waiting for p to complete
    main        \* the main dispatch queue: <<promise, handler>> pairs

Mark(k) == [kind |-> k, from |-> 0]

Unborn == Mark("unborn")            \* not created yet
Pending == Mark("pending")          \* created, not complete
Value(i) == [kind |-> "value", from |-> i]
Null(i) == [kind |-> "null", from |-> i]       \* [NSNull null]
Error(i) == [kind |-> "error", from |-> i]

Complete(o) == o \notin {Unborn, Pending}
Failed(o) == o.kind = "error"
Succeeded(o) == o.kind \in {"value", "null"}

\* Mutant: the handlers are dispatched last added first.
DispatchedReversed(p) ==
    [k \in DOMAIN callbacks[p] |->
        <<p, callbacks[p][Len(callbacks[p]) + 1 - k]>>]

\* executeCompleteion: every waiting handler is dispatched, in order.
Dispatched(p) == [k \in DOMAIN callbacks[p] |-> <<p, callbacks[p][k]>>]

\* resolve:, reject: -- q is what the main queue holds before this step.
SettleAfter(q, p, o) ==
    IF Complete(outcome[p])
    THEN main' = q /\ UNCHANGED <<outcome, callbacks>>
    ELSE /\ outcome' = [outcome EXCEPT ![p] = o]
         /\ main' = q \o Dispatched(p)
         /\ callbacks' = [callbacks EXCEPT ![p] = <<>>]

\* Mutant: onCompletion: does not look whether the promise is complete.
OnCompletionUnchecked(p, h) ==
    /\ callbacks' = [callbacks EXCEPT ![p] = Append(@, h)]
    /\ UNCHANGED <<outcome, main>>

\* onCompletion:
OnCompletion(p, h) ==
    /\ IF Complete(outcome[p])
       THEN main' = Append(main, <<p, h>>) /\ UNCHANGED callbacks
       ELSE callbacks' = [callbacks EXCEPT ![p] = Append(@, h)] /\ UNCHANGED main
    /\ UNCHANGED outcome
=============================================================================
