---------------------------- MODULE FallbackCalls ----------------------------
(***************************************************************************)
(* FallbackProvider.m: a call asks the providers of a snapshot of the list *)
(* one after the other, each answer arriving on a session thread and being *)
(* handled on the main queue, until one of them succeeds.  The promise of  *)
(* the caller is <<c, 0>>, the promise of its i-th provider <<c, i>>.      *)
(* Calls are started on the main thread, as the view controllers do, so a  *)
(* handler that is being run keeps the queue from advancing.               *)
(***************************************************************************)
EXTENDS Promises, Integers, SequencesExt

CONSTANTS
    Providers,      \* provider objects of the chain
    Calls,          \* operations started by the screens
    TakesNull,      \* calls whose promise class accepts NSNull (BlockInfo)
    Handlers,       \* completion handlers of the screens
    NextProvider,   \* the handler executeOperation: puts on a child promise
    MaxProviders    \* bound: length of _orderedProviders

ASSUME CallAssumption ==
    /\ MaxProviders \in Nat \ {0}
    /\ NextProvider \notin Handlers
    /\ TakesNull \subseteq Calls

VARIABLES
    ordered,    \* _orderedProviders
    asked,      \* asked[c]: the snapshot the call c goes through
    running,    \* the child promise whose handler is about to be added
    added,      \* added[c]: handlers added to <<c, 0>>, oldest first
    ran         \* ran[c]: handlers run, oldest first

promiseVars == <<outcome, callbacks, main>>
callVars == <<ordered, asked, running, added, ran>>
vars == <<outcome, callbacks, main, ordered, asked, running, added, ran>>

Promise == Calls \X (0 .. MaxProviders)
Children == Calls \X (1 .. MaxProviders)
NoChild == <<>>
NoProviders == Mark("error")            \* ProviderErrorInvalidParameters
Outcomes == [kind : {"unborn", "pending", "value", "null", "error"},
             from : 0 .. MaxProviders]

Init ==
    /\ outcome = [p \in Promise |-> Unborn]
    /\ callbacks = [p \in Promise |-> <<>>]
    /\ main = <<>>
    /\ ordered = <<>>
    /\ asked = [c \in Calls |-> <<>>]
    /\ running = NoChild
    /\ added = [c \in Calls |-> <<>>]
    /\ ran = [c \in Calls |-> <<>>]

-----------------------------------------------------------------------------
(* The list of providers                                                   *)

AddProvider(p) ==
    /\ Len(ordered) < MaxProviders
    /\ ordered' = Append(ordered, p)
    /\ UNCHANGED <<promiseVars, asked, running, added, ran>>

RemoveProviderAtIndex(i) ==
    /\ i \in DOMAIN ordered
    /\ ordered' = RemoveAt(ordered, i)
    /\ UNCHANGED <<promiseVars, asked, running, added, ran>>

-----------------------------------------------------------------------------
(* A call                                                                  *)

\* startCallback: the child promise is created, pending or, when the
\* parameters are refused or the method is not implemented, rejected.
Asks(p) == {Pending, Error(p[2])}

\* executeOperation: takes its snapshot and asks the first provider.
StartCall(c) ==
    /\ running = NoChild
    /\ outcome[<<c, 0>>] = Unborn
    /\ asked' = [asked EXCEPT ![c] = ordered]
    /\ IF ordered = <<>>
       THEN /\ outcome' = [outcome EXCEPT ![<<c, 0>>] = NoProviders]
            /\ UNCHANGED running
       ELSE /\ \E o \in Asks(<<c, 1>>) :
                  outcome' = [outcome EXCEPT ![<<c, 0>>] = Pending,
                                             ![<<c, 1>>] = o]
            /\ running' = <<c, 1>>
    /\ UNCHANGED <<callbacks, main, ordered, added, ran>>

\* Still on the main thread: the handler is added to the child just created.
ListenToChild ==
    /\ running # NoChild
    /\ OnCompletion(running, NextProvider)
    /\ running' = NoChild
    /\ UNCHANGED <<ordered, asked, added, ran>>

\* fetch:'s response, on a session thread, at any time.
Answer(p) ==
    /\ outcome[p] = Pending
    /\ \E o \in {Value(p[2]), Null(p[2]), Error(p[2])} : SettleAfter(main, p, o)
    /\ UNCHANGED callVars

\* The typed resolve: of the caller's promise: NSNull has the wrong class for
\* each of them but BlockInfoPromise, which asks for it (TakesNull).
Typed(c, o) ==
    IF o.kind = "null" /\ c \notin TakesNull THEN Error(o.from) ELSE o

\* Mutant: the providers are counted again instead of the snapshot's.
GoesOnLive(p) == Failed(outcome[p]) /\ p[2] < Len(ordered)

\* Mutant: the next provider is asked whatever the answer was.
GoesOnAnyway(p) == p[2] < Len(asked[p[1]])

\* The child failed and was not the last of the snapshot.
GoesOn(p) == Failed(outcome[p]) /\ p[2] < Len(asked[p[1]])

\* The handler of a child: the next provider, or the caller's promise.
RunNextProvider ==
    /\ running = NoChild
    /\ main # <<>> /\ Head(main)[2] = NextProvider
    /\ LET p == Head(main)[1]
           c == p[1]
           next == <<c, p[2] + 1>>
       IN  IF GoesOn(p)
           THEN /\ \E o \in Asks(next) : outcome' = [outcome EXCEPT ![next] = o]
                /\ running' = next
                /\ main' = Tail(main)
                /\ UNCHANGED callbacks
           ELSE /\ SettleAfter(Tail(main), <<c, 0>>, Typed(c, outcome[p]))
                /\ UNCHANGED running
    /\ UNCHANGED <<ordered, asked, added, ran>>

\* A screen adds a handler, once it holds the promise of its call.
AddHandler(c, h) ==
    /\ outcome[<<c, 0>>] # Unborn
    /\ running # <<c, 1>>
    /\ \A k \in DOMAIN added[c] : added[c][k] # h
    /\ OnCompletion(<<c, 0>>, h)
    /\ added' = [added EXCEPT ![c] = Append(@, h)]
    /\ UNCHANGED <<ordered, asked, running, ran>>

RunHandler ==
    /\ running = NoChild
    /\ main # <<>> /\ Head(main)[2] \in Handlers
    /\ LET c == Head(main)[1][1]
       IN  ran' = [ran EXCEPT ![c] = Append(@, Head(main)[2])]
    /\ main' = Tail(main)
    /\ UNCHANGED <<outcome, callbacks, ordered, asked, running, added>>

Next ==
    \/ \E p \in Providers : AddProvider(p)
    \/ \E i \in 1 .. MaxProviders : RemoveProviderAtIndex(i)
    \/ \E c \in Calls : StartCall(c)
    \/ ListenToChild
    \/ \E p \in Children : Answer(p)
    \/ RunNextProvider
    \/ \E c \in Calls, h \in Handlers : AddHandler(c, h)
    \/ RunHandler

\* Only the main queue goes on by itself; a session reports a timeout as an
\* error, so every child is answered in the end.
Fairness ==
    /\ WF_vars(ListenToChild)
    /\ WF_vars(RunNextProvider)
    /\ WF_vars(RunHandler)
    /\ \A p \in Children : WF_vars(Answer(p))

Spec == Init /\ [][Next]_vars /\ Fairness

-----------------------------------------------------------------------------
Entries == Promise \X (Handlers \cup {NextProvider})

\* The promises, the main queue and the calls hold what Promise.m and
\* executeOperation: put into them.
TypeOK ==
    /\ outcome \in [Promise -> Outcomes]
    /\ callbacks \in [Promise -> Seq(Handlers \cup {NextProvider})]
    /\ main \in Seq(Entries)
    /\ ordered \in Seq(Providers) /\ Len(ordered) <= MaxProviders
    /\ asked \in [Calls -> Seq(Providers)]
    /\ running \in Children \cup {NoChild}
    /\ added \in [Calls -> Seq(Handlers)]
    /\ ran \in [Calls -> Seq(Handlers)]

\* Promise.h: the handlers of a promise are called in the order in which
\* they were added, and none twice, whether they were added before or after
\* it completed.
HandlersInOrder == \A c \in Calls : IsPrefix(ran[c], added[c])

\* FallbackProvider.h: the next provider is not asked before the previous
\* one has failed, however late its answer comes and whatever list of
\* providers there is by then.
AskedInTurn ==
    \A c \in Calls, i \in 1 .. MaxProviders - 1 :
        outcome[<<c, i + 1>>] # Unborn => Failed(outcome[<<c, i>>])

\* Every handler a screen adds is called in the end: no answer, no list
\* change and no handler added between two answers loses it.
HandlersCalled ==
    \A c \in Calls, h \in Handlers :
        (\E k \in DOMAIN added[c] : added[c][k] = h)
            ~> (\E k \in DOMAIN ran[c] : ran[c][k] = h)

\* FallbackProvider.h: the children are asked "until a successful response
\* is returned", so a call some provider answered is not rejected.
SuccessReturned ==
    \A c \in Calls :
        (\E i \in 1 .. MaxProviders : Succeeded(outcome[<<c, i>>]))
            => ~Failed(outcome[<<c, 0>>])

-----------------------------------------------------------------------------
\* A fallback call seen from the screen: the answer counts when the main queue
\* has handled it, a failure when the next provider is asked.

\* The providers of c whose failure was handled.
HandledFailures(c) ==
    LET born == {i \in 1 .. MaxProviders : outcome[<<c, i>>] # Unborn}
        o == outcome[<<c, 0>>]
    IN  IF born = {} THEN 0
        ELSE IF o = Error(Len(asked[c])) /\ Failed(outcome[<<c, Len(asked[c])>>])
             THEN Cardinality(born) ELSE Cardinality(born) - 1

First == INSTANCE FirstAnswer WITH
    list <- ordered, turns <- asked,
    failures <- [c \in Calls |-> HandledFailures(c)],
    result <- [c \in Calls |-> outcome[<<c, 0>>]]

\* Every call goes through the providers of its snapshot in turn and
\* returns what FirstAnswer says, with its liveness: the queue, the late
\* answers and the changes of the list cannot be seen from outside.
AnswersAsPromised == First!Spec
=============================================================================
