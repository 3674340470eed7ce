------------------------ MODULE FallbackCallsProofs ------------------------
(***************************************************************************)
(* FallbackCalls for every chain of providers, any number of calls and any *)
(* handlers: its types, the invariant that one provider of a call at a     *)
(* time holds its turn, the order in which handlers are called, and that   *)
(* every step is one of FirstAnswer or cannot be seen from outside.        *)
(***************************************************************************)
EXTENDS FallbackCalls, TLAPS, FiniteSetTheorems, SequenceTheorems

-----------------------------------------------------------------------------
(* The inductive invariant.                                                *)

\* Every provider before one that was asked has failed.
Turns ==
    \A c \in Calls, i, j \in 1 .. MaxProviders :
        i < j /\ outcome[<<c, j>>] # Unborn => Failed(outcome[<<c, i>>])

\* What a child of a call can be: one of the snapshot, answered with an answer
\* of its own, and answered when the call is.
Asked ==
    \A c \in Calls :
        /\ Len(asked[c]) <= MaxProviders
        /\ \A i \in 1 .. MaxProviders :
              /\ outcome[<<c, i>>] \in {Unborn, Pending, Value(i), Null(i), Error(i)}
              /\ outcome[<<c, i>>] # Unborn =>
                    i <= Len(asked[c]) /\ outcome[<<c, 0>>] # Unborn
              /\ Complete(outcome[<<c, 0>>]) => outcome[<<c, i>>] # Pending

\* A handler waits only at a promise that is not complete.
Waiting == \A p \in Promise : callbacks[p] # <<>> => outcome[p] = Pending

\* The call is open and no provider after the i-th was asked.
Latest(c, i) ==
    /\ outcome[<<c, 0>>] = Pending
    /\ \A j \in 1 .. MaxProviders : j > i => outcome[<<c, j>>] = Unborn

\* The handler of a child is in one place at most: about to be added, waiting
\* for the answer, or once in the main queue, and then the child is the latest.
AtHand(c, i) ==
    running = <<c, i>> =>
        outcome[<<c, i>>] # Unborn /\ callbacks[<<c, i>>] = <<>> /\ Latest(c, i)
Waits(c, i) ==
    callbacks[<<c, i>>] # <<>> =>
        callbacks[<<c, i>>] = <<NextProvider>> /\ running # <<c, i>>
InQueue(c, i) ==
    \A k \in DOMAIN main : main[k][1] = <<c, i>> =>
        /\ main[k][2] = NextProvider /\ Complete(outcome[<<c, i>>]) /\ Latest(c, i)
        /\ callbacks[<<c, i>>] = <<>> /\ running # <<c, i>>
        /\ \A l \in DOMAIN main : main[l][1] = <<c, i>> => k = l
OneTurn ==
    \A c \in Calls, i \in 1 .. MaxProviders : AtHand(c, i) /\ Waits(c, i) /\ InQueue(c, i)

\* The queue q holds for the promise p the handlers lo .. hi of the list A, each
\* once and in their order.
Line(q, p, A, lo, hi) ==
    /\ \A k \in DOMAIN q : q[k][1] = p => \E n \in lo .. hi : q[k][2] = A[n]
    /\ \A n \in lo .. hi : \E k \in DOMAIN q : q[k] = <<p, A[n]>>
    /\ \A k, l \in DOMAIN q, m, n \in lo .. hi :
          k < l /\ q[k][1] = p /\ q[l][1] = p /\ q[k][2] = A[m] /\ q[l][2] = A[n] => m < n

\* The handlers added to a call are those that ran, those in the main queue and
\* those that wait, in this order.
Shown(c) == Len(added[c]) - Len(callbacks[<<c, 0>>])
Counted(c) ==
    /\ \A m, n \in DOMAIN added[c] : added[c][m] = added[c][n] => m = n
    /\ Len(ran[c]) <= Shown(c)
    /\ \A n \in DOMAIN ran[c] : ran[c][n] = added[c][n]
    /\ \A n \in DOMAIN callbacks[<<c, 0>>] :
          callbacks[<<c, 0>>][n] = added[c][Shown(c) + n]
Queued ==
    \A c \in Calls : Counted(c) /\ Line(main, <<c, 0>>, added[c], Len(ran[c]) + 1, Shown(c))

IInv == TypeOK /\ Turns /\ Asked /\ Waiting /\ OneTurn /\ Queued

-----------------------------------------------------------------------------

LEMMA DispatchedType ==
    ASSUME TypeOK, NEW p \in Promise
    PROVE  /\ Dispatched(p) \in Seq(Entries)
           /\ Len(Dispatched(p)) = Len(callbacks[p])
           /\ \A k \in DOMAIN callbacks[p] : Dispatched(p)[k] = <<p, callbacks[p][k]>>
  <1> DEFINE H == Handlers \cup {NextProvider}
  <1>1. callbacks[p] \in Seq(H)
    BY DEF TypeOK
  <1>2. DOMAIN callbacks[p] = 1 .. Len(callbacks[p]) /\ Len(callbacks[p]) \in Nat
    BY <1>1
  <1>3. Dispatched(p) = [k \in 1 .. Len(callbacks[p]) |-> <<p, callbacks[p][k]>>]
    BY <1>2 DEF Dispatched
  <1>4. \A k \in 1 .. Len(callbacks[p]) : <<p, callbacks[p][k]>> \in Entries
    BY <1>1, <1>2 DEF Entries
  <1>5. QED
    BY <1>2, <1>3, <1>4

\* A promise that is settled: at once, or not any more.
LEMMA SettleType ==
    ASSUME TypeOK, NEW p \in Promise, NEW o \in Outcomes, NEW q \in Seq(Entries),
           SettleAfter(q, p, o)
    PROVE  /\ outcome' \in [Promise -> Outcomes]
           /\ callbacks' \in [Promise -> Seq(Handlers \cup {NextProvider})]
           /\ main' \in Seq(Entries)
  <1>1. CASE Complete(outcome[p])
    BY <1>1 DEF SettleAfter, TypeOK
  <1>2. CASE ~Complete(outcome[p])
    <2>1. Dispatched(p) \in Seq(Entries)
      BY DispatchedType
    <2>2. main' \in Seq(Entries)
      BY <1>2, <2>1, ConcatProperties DEF SettleAfter
    <2>3. callbacks' = [callbacks EXCEPT ![p] = <<>>] /\ outcome' = [outcome EXCEPT ![p] = o]
      BY <1>2 DEF SettleAfter
    <2>4. QED
      BY <2>2, <2>3 DEF TypeOK
  <1>3. QED
    BY <1>1, <1>2

\* A handler that is added: it waits or is dispatched at once.
LEMMA ListenType ==
    ASSUME TypeOK, NEW p \in Promise, NEW h \in Handlers \cup {NextProvider},
           OnCompletion(p, h)
    PROVE  /\ callbacks' \in [Promise -> Seq(Handlers \cup {NextProvider})]
           /\ main' \in Seq(Entries)
           /\ outcome' = outcome
  <1>1. <<p, h>> \in Entries
    BY DEF Entries
  <1>2. Append(main, <<p, h>>) \in Seq(Entries)
    BY <1>1, AppendProperties DEF TypeOK
  <1>3. Append(callbacks[p], h) \in Seq(Handlers \cup {NextProvider})
    BY AppendProperties DEF TypeOK
  <1>4. QED
    BY <1>2, <1>3 DEF OnCompletion, TypeOK

LEMMA OutcomeTypes ==
    /\ {Unborn, Pending, NoProviders} \subseteq Outcomes
    /\ \A i \in 0 .. MaxProviders : {Value(i), Null(i), Error(i)} \subseteq Outcomes
  BY CallAssumption DEF Unborn, Pending, NoProviders, Mark, Value, Null, Error, Outcomes

LEMMA InitIInv == Init => IInv
  <1> SUFFICES ASSUME Init PROVE IInv
    OBVIOUS
  <1>1. TypeOK
    BY CallAssumption, OutcomeTypes DEF Init, TypeOK, NoChild
  <1>2. Turns /\ Asked /\ Waiting
    BY CallAssumption DEF Init, Turns, Asked, Waiting, Promise, Unborn, Mark, Complete
  <1>3. OneTurn
    BY CallAssumption DEF Init, OneTurn, AtHand, Waits, InQueue, Promise, NoChild
  <1>4. Queued
    BY CallAssumption DEF Init, Queued, Counted, Line, Shown, Promise
  <1>5. QED
    BY <1>1, <1>2, <1>3, <1>4 DEF IInv

LEMMA TypeStep ==
    ASSUME IInv, [Next]_vars
    PROVE  TypeOK'
  <1> USE CallAssumption, OutcomeTypes DEF promiseVars
  <1> TypeOK
    BY DEF IInv
  <1>1. ASSUME NEW p \in Providers, AddProvider(p) PROVE TypeOK'
    BY <1>1 DEF AddProvider, TypeOK
  <1>2. ASSUME NEW i \in 1 .. MaxProviders, RemoveProviderAtIndex(i) PROVE TypeOK'
    <2>1. RemoveAt(ordered, i) \in Seq(Providers) /\ Len(RemoveAt(ordered, i)) <= MaxProviders
      <3>1. ordered \in Seq(Providers) /\ Len(ordered) <= MaxProviders /\ i \in 1 .. Len(ordered)
        BY <1>2 DEF RemoveProviderAtIndex, TypeOK
      <3>2. /\ SubSeq(ordered, 1, i - 1) \in Seq(Providers)
            /\ SubSeq(ordered, i + 1, Len(ordered)) \in Seq(Providers)
            /\ Len(SubSeq(ordered, 1, i - 1)) = i - 1
            /\ Len(SubSeq(ordered, i + 1, Len(ordered))) = Len(ordered) - i
        BY <3>1
      <3> DEFINE front == SubSeq(ordered, 1, i - 1)  back == SubSeq(ordered, i + 1, Len(ordered))
      <3>3. front \o back \in Seq(Providers) /\ Len(front \o back) = Len(front) + Len(back)
        BY ONLY <3>2, ConcatProperties
      <3>4. Len(front) + Len(back) <= MaxProviders
        <4>1. Len(ordered) \in Nat /\ i \in Nat
          BY <3>1, LenProperties
        <4>2. Len(front) = i - 1 /\ Len(back) = Len(ordered) - i
          BY <3>2
        <4> HIDE DEF front, back
        <4>3. QED
          BY ONLY <3>1, <4>1, <4>2, CallAssumption
      <3>5. RemoveAt(ordered, i) = front \o back
        BY DEF RemoveAt
      <3> HIDE DEF front, back
      <3>6. QED
        BY ONLY <3>3, <3>4, <3>5
    <2>2. QED
      BY <1>2, <2>1 DEF RemoveProviderAtIndex, TypeOK
  <1>3. ASSUME NEW c \in Calls, StartCall(c) PROVE TypeOK'
    <2>1. Asks(<<c, 1>>) \subseteq Outcomes
      BY DEF Asks
    <2>2. <<c, 0>> \in Promise /\ <<c, 1>> \in Promise /\ <<c, 1>> \in Children
      BY DEF Promise, Children
    <2>3. asked' \in [Calls -> Seq(Providers)]
      BY <1>3 DEF StartCall, TypeOK
    <2>4. CASE ordered = <<>>
      BY <1>3, <2>2, <2>3, <2>4 DEF StartCall, TypeOK
    <2>5. CASE ordered # <<>>
      <3>1. PICK o \in Asks(<<c, 1>>) : outcome' = [outcome EXCEPT ![<<c, 0>>] = Pending, ![<<c, 1>>] = o]
        BY <1>3, <2>5 DEF StartCall
      <3>2. outcome' \in [Promise -> Outcomes]
        BY <2>1, <3>1 DEF TypeOK
      <3>3. running' \in Children
        BY <1>3, <2>2, <2>5 DEF StartCall
      <3>4. QED
        BY <1>3, <2>3, <3>2, <3>3 DEF StartCall, TypeOK
    <2>6. QED
      BY <2>4, <2>5
  <1>4. CASE ListenToChild
    <2>1. running \in Children /\ running \in Promise
      BY <1>4 DEF ListenToChild, TypeOK, Children, Promise
    <2>2. OnCompletion(running, NextProvider)
      BY <1>4 DEF ListenToChild
    <2>3. QED
      BY <1>4, <2>1, <2>2, ListenType DEF ListenToChild, TypeOK
  <1>5. ASSUME NEW p \in Children, Answer(p) PROVE TypeOK'
    <2>1. p \in Promise /\ p[2] \in 0 .. MaxProviders
      BY DEF Children, Promise
    <2>2. PICK o \in {Value(p[2]), Null(p[2]), Error(p[2])} : SettleAfter(main, p, o)
      BY <1>5 DEF Answer
    <2>3. o \in Outcomes /\ main \in Seq(Entries)
      BY <2>1, <2>2 DEF TypeOK
    <2>4. QED
      BY <1>5, <2>1, <2>2, <2>3, SettleType DEF Answer, TypeOK, callVars
  <1>6. CASE RunNextProvider
    <2> DEFINE p == Head(main)[1]  c == p[1]  next == <<c, p[2] + 1>>
    <2>1. main # <<>> /\ Head(main) \in Entries /\ Tail(main) \in Seq(Entries)
      BY <1>6 DEF RunNextProvider, TypeOK
    <2>2. p \in Promise /\ c \in Calls /\ p[2] \in 0 .. MaxProviders /\ p = <<c, p[2]>>
      BY <2>1 DEF Entries, Promise
    <2>3. CASE GoesOn(p)
      <3>1. Len(asked[c]) <= MaxProviders /\ Len(asked[c]) \in Nat
        BY <2>2, LenProperties DEF IInv, Asked, TypeOK
      <3>2. next \in Children /\ next \in Promise /\ next[2] \in 0 .. MaxProviders
        BY <2>2, <2>3, <3>1 DEF GoesOn, Children, Promise
      <3>3. Asks(next) \subseteq Outcomes
        BY <3>2 DEF Asks
      <3>4. QED
        BY <1>6, <2>1, <2>2, <2>3, <3>2, <3>3 DEF RunNextProvider, TypeOK
    <2>4. CASE ~GoesOn(p)
      <3>1. outcome[p] \in Outcomes /\ outcome[p].from \in 0 .. MaxProviders
        BY <2>2 DEF TypeOK, Outcomes
      <3>2. Typed(c, outcome[p]) \in Outcomes
        BY <3>1 DEF Typed
      <3>3. <<c, 0>> \in Promise
        BY <2>2 DEF Promise
      <3>4. SettleAfter(Tail(main), <<c, 0>>, Typed(c, outcome[p]))
        BY <1>6, <2>4 DEF RunNextProvider
      <3>5. QED
        BY <1>6, <2>1, <2>4, <3>2, <3>3, <3>4, SettleType DEF RunNextProvider, TypeOK
    <2>5. QED
      BY <2>3, <2>4
  <1>7. ASSUME NEW c \in Calls, NEW h \in Handlers, AddHandler(c, h) PROVE TypeOK'
    <2>1. <<c, 0>> \in Promise /\ OnCompletion(<<c, 0>>, h)
      BY <1>7 DEF AddHandler, Promise
    <2>2. added' \in [Calls -> Seq(Handlers)]
      BY <1>7, AppendProperties DEF AddHandler, TypeOK
    <2>3. QED
      BY <1>7, <2>1, <2>2, ListenType DEF AddHandler, TypeOK
  <1>8. CASE RunHandler
    <2> DEFINE c == Head(main)[1][1]
    <2>1. main # <<>> /\ Head(main) \in Entries /\ Tail(main) \in Seq(Entries)
      BY <1>8, HeadTailProperties DEF RunHandler, TypeOK
    <2>2. c \in Calls /\ Head(main)[2] \in Handlers
      BY <1>8, <2>1 DEF RunHandler, Entries, Promise
    <2>3. ran' \in [Calls -> Seq(Handlers)]
      BY <1>8, <2>2, AppendProperties DEF RunHandler, TypeOK
    <2>4. QED
      BY <1>8, <2>1, <2>3 DEF RunHandler, TypeOK
  <1>9. CASE UNCHANGED vars
    BY <1>9 DEF vars, TypeOK
  <1>10. QED
    BY <1>1, <1>2, <1>3, <1>4, <1>5, <1>6, <1>7, <1>8, <1>9 DEF Next

\* A step that settles no promise and adds no handler.
LEMMA QuietTurns ==
    ASSUME IInv, UNCHANGED <<outcome, callbacks, asked, running>>,
           main' = main \/ (main # <<>> /\ main' = Tail(main))
    PROVE  (Turns /\ Asked /\ Waiting /\ OneTurn)'
  <1>1. (Turns /\ Asked /\ Waiting)'
    BY DEF IInv, Turns, Asked, Waiting
  <1>2. \A c \in Calls, i \in 1 .. MaxProviders : Latest(c, i) => Latest(c, i)'
    BY DEF Latest
  <1>3. CASE main' = main
    BY <1>1, <1>2, <1>3 DEF IInv, OneTurn, AtHand, Waits, InQueue
  <1>4. CASE main # <<>> /\ main' = Tail(main)
    <2>1. \A k \in DOMAIN main' : k \in Int /\ k + 1 \in DOMAIN main /\ main'[k] = main[k + 1]
      <3>1. main \in Seq(Entries)
        BY DEF IInv, TypeOK
      <3>2. main' \in Seq(Entries) /\ Len(main') = Len(main) - 1
            /\ \A i \in 1 .. Len(main') : main'[i] = main[i + 1]
        BY <1>4, <3>1, HeadTailProperties
      <3>3. QED
        BY <3>1, <3>2, LenProperties
    <2>2. ASSUME NEW c \in Calls, NEW i \in 1 .. MaxProviders
          PROVE  (AtHand(c, i) /\ Waits(c, i) /\ InQueue(c, i))'
      <3>1. AtHand(c, i) /\ Waits(c, i) /\ InQueue(c, i) /\ (Latest(c, i) => Latest(c, i)')
        BY <1>2 DEF IInv, OneTurn
      <3>2. AtHand(c, i)' /\ Waits(c, i)'
        BY <3>1 DEF AtHand, Waits
      <3>3. InQueue(c, i)'
        <4>1. ASSUME NEW k \in DOMAIN main', main'[k][1] = <<c, i>>
              PROVE  /\ main'[k][2] = NextProvider /\ Complete(outcome[<<c, i>>]) /\ Latest(c, i)
                     /\ callbacks[<<c, i>>] = <<>> /\ running # <<c, i>>
          BY <2>1, <3>1, <4>1, ZenonT(60) DEF InQueue
        <4>2. ASSUME NEW k \in DOMAIN main', NEW l \in DOMAIN main',
                     main'[k][1] = <<c, i>>, main'[l][1] = <<c, i>>
              PROVE  k = l
          <5>1. k + 1 = l + 1
            BY <2>1, <3>1, <4>2 DEF InQueue
          <5>2. QED
            BY <2>1, <5>1
        <4>3. QED
          BY <3>1, <4>1, <4>2 DEF InQueue
      <3>4. QED
        BY <3>2, <3>3
    <2>3. QED
      BY <1>1, <2>2 DEF OneTurn
  <1>5. QED
    BY <1>3, <1>4

\* What is in the main queue for a child stays there.
LEMMA InQueueKept ==
    ASSUME IInv, NEW c \in Calls, NEW i \in 1 .. MaxProviders, NEW s \in {0, 1},
           Latest(c, i) => Latest(c, i)', outcome'[<<c, i>>] = outcome[<<c, i>>],
           callbacks'[<<c, i>>] = callbacks[<<c, i>>], running' # <<c, i>>,
           DOMAIN main' \subseteq Int,
           \A k \in DOMAIN main' : main'[k][1] = <<c, i>> =>
                k + s \in DOMAIN main /\ main'[k] = main[k + s]
    PROVE  InQueue(c, i)'
  <1>1. InQueue(c, i)
    BY DEF IInv, OneTurn
  <1>2. ASSUME NEW k \in DOMAIN main', main'[k][1] = <<c, i>>
        PROVE  /\ main'[k][2] = NextProvider /\ Complete(outcome[<<c, i>>]) /\ Latest(c, i)
               /\ callbacks[<<c, i>>] = <<>>
    BY <1>1, <1>2 DEF InQueue
  <1>3. ASSUME NEW k \in DOMAIN main', NEW l \in DOMAIN main',
               main'[k][1] = <<c, i>>, main'[l][1] = <<c, i>>
        PROVE  k = l
    <2>1. k + s = l + s
      BY <1>1, <1>3 DEF InQueue
    <2>2. QED
      BY <2>1
  <1>4. QED
    BY <1>2, <1>3 DEF InQueue

\* The handler of a child at the head of the queue: the child is the latest of
\* its call, and the queue holds no other entry of a child of that call.
LEMMA HeadTurn ==
    ASSUME IInv, main # <<>>, Head(main)[2] = NextProvider
    PROVE  \E c \in Calls, i \in 1 .. MaxProviders :
              /\ Head(main)[1] = <<c, i>>
              /\ Complete(outcome[<<c, i>>]) /\ Latest(c, i) /\ callbacks[<<c, i>>] = <<>>
              /\ \A k \in DOMAIN Tail(main), j \in 1 .. MaxProviders : Tail(main)[k][1] # <<c, j>>
  <1> USE CallAssumption
  <1> TypeOK /\ OneTurn /\ Queued
    BY DEF IInv
  <1>1. /\ 1 \in DOMAIN main /\ Head(main) = main[1] /\ main[1] \in Entries
        /\ \A k \in DOMAIN Tail(main) : k \in Int /\ k # 0 /\ k + 1 \in DOMAIN main /\ Tail(main)[k] = main[k + 1]
    BY HeadTailProperties, LenProperties, EmptySeq DEF TypeOK
  <1>2. PICK c \in Calls, i \in 0 .. MaxProviders : main[1][1] = <<c, i>>
    BY <1>1 DEF Entries, Promise
  <1>3. i # 0
    <2>1. SUFFICES ASSUME main[1][1] = <<c, 0>> PROVE FALSE
      BY <1>2
    <2>2. PICK n \in Len(ran[c]) + 1 .. Shown(c) : main[1][2] = added[c][n]
      BY <1>1, <2>1 DEF Queued, Line
    <2>3. n \in DOMAIN added[c]
      <3>1. <<c, 0>> \in Promise
        BY DEF Promise
      <3>2. Len(added[c]) \in Nat /\ Len(ran[c]) \in Nat /\ Len(callbacks[<<c, 0>>]) \in Nat
            /\ DOMAIN added[c] = 1 .. Len(added[c])
        BY <3>1, LenProperties DEF TypeOK
      <3>3. QED
        BY <2>2, <3>2 DEF Shown
    <2>4. added[c][n] \in Handlers
      BY <2>3, ElementOfSeq, LenProperties DEF TypeOK
    <2>5. QED
      BY <1>1, <2>2, <2>4
  <1>4. i \in 1 .. MaxProviders
    BY <1>3
  <1>5. Complete(outcome[<<c, i>>]) /\ Latest(c, i) /\ callbacks[<<c, i>>] = <<>>
    BY <1>1, <1>2, <1>4 DEF OneTurn, InQueue
  <1>6. ASSUME NEW k \in DOMAIN Tail(main), NEW j \in 1 .. MaxProviders, Tail(main)[k][1] = <<c, j>>
        PROVE  FALSE
    <2>1. k + 1 \in DOMAIN main /\ main[k + 1][1] = <<c, j>> /\ k + 1 # 1
      BY <1>1, <1>6
    <2>2. Complete(outcome[<<c, j>>]) /\ Latest(c, j)
      BY <2>1 DEF OneTurn, InQueue
    <2>3. j = i
      BY <1>4, <1>5, <2>2 DEF Latest, Complete
    <2>4. QED
      BY <1>1, <1>2, <1>4, <2>1, <2>3 DEF OneTurn, InQueue
  <1>7. QED
    BY <1>1, <1>2, <1>4, <1>5, <1>6

LEMMA TurnsStep ==
    ASSUME IInv, [Next]_vars
    PROVE  (Turns /\ Asked /\ Waiting /\ OneTurn)'
  <1> DEFINE Goal == Turns /\ Asked /\ Waiting /\ OneTurn
  <1> USE CallAssumption DEF promiseVars, callVars
  <1> TypeOK /\ Turns /\ Asked /\ Waiting /\ OneTurn
    BY DEF IInv
  <1>1. ASSUME NEW p \in Providers, AddProvider(p) PROVE Goal'
    BY <1>1, QuietTurns DEF AddProvider
  <1>2. ASSUME NEW i \in 1 .. MaxProviders, RemoveProviderAtIndex(i) PROVE Goal'
    BY <1>2, QuietTurns DEF RemoveProviderAtIndex
  <1>3. ASSUME NEW c \in Calls, StartCall(c) PROVE Goal'
    <2>1. \A i \in 1 .. MaxProviders : outcome[<<c, i>>] = Unborn
      BY <1>3 DEF StartCall, Asked
    <2>2. /\ outcome[<<c, 0>>] = Unborn /\ main' = main /\ callbacks' = callbacks
          /\ running = NoChild /\ asked' = [asked EXCEPT ![c] = ordered]
          /\ Unborn # Pending
      BY <1>3 DEF StartCall, Unborn, Pending, Mark
    <2>3. \A i \in 0 .. MaxProviders : <<c, i>> \in Promise /\ callbacks[<<c, i>>] = <<>>
      BY <2>1, <2>2 DEF Waiting, Promise
    <2>4. asked'[c] = ordered /\ \A d \in Calls : d # c => asked'[d] = asked[d]
      BY <2>2 DEF TypeOK
    <2>5. \A i \in 1 .. MaxProviders, k \in DOMAIN main : main[k][1] # <<c, i>>
      BY <2>1 DEF OneTurn, InQueue, Complete
    <2>6. CASE ordered = <<>>
      <3>1. outcome' = [outcome EXCEPT ![<<c, 0>>] = NoProviders] /\ running' = NoChild
        BY <1>3, <2>2, <2>6 DEF StartCall
      <3>2. /\ outcome'[<<c, 0>>] = NoProviders
            /\ \A p \in Promise : p # <<c, 0>> => outcome'[p] = outcome[p]
        BY <2>3, <3>1 DEF TypeOK
      <3>3. /\ \A d \in Calls, i \in 1 .. MaxProviders : outcome'[<<d, i>>] = outcome[<<d, i>>]
            /\ \A d \in Calls : d # c => outcome'[<<d, 0>>] = outcome[<<d, 0>>]
        BY <3>2 DEF Promise
      <3>4. Turns'
        BY <3>3 DEF Turns
      <3>5. Asked'
        <4>1. Len(asked'[c]) <= MaxProviders
          BY <2>4, <2>6
        <4>2. QED
          <5>1. \A i \in 1 .. MaxProviders : outcome'[<<c, i>>] = Unborn
            BY <2>1, <3>3
          <5>2. ASSUME NEW d \in Calls, d # c
                PROVE  asked'[d] = asked[d] /\ \A i \in 0 .. MaxProviders : outcome'[<<d, i>>] = outcome[<<d, i>>]
            <6>1. \A i \in 0 .. MaxProviders : i = 0 \/ i \in 1 .. MaxProviders
              OBVIOUS
            <6>2. QED
              BY <2>4, <3>3, <5>2, <6>1
          <5>3. QED
            BY <2>2, <4>1, <5>1, <5>2 DEF Asked
      <3>6. Waiting'
        BY <2>2, <2>3, <3>2 DEF Waiting
      <3>7. \A d \in Calls, i \in 1 .. MaxProviders : d # c /\ Latest(d, i) => Latest(d, i)'
        BY <3>3 DEF Latest
      <3>8. OneTurn'
        <4>1. ASSUME NEW d \in Calls, NEW i \in 1 .. MaxProviders, d # c
              PROVE  (AtHand(d, i) /\ Waits(d, i) /\ InQueue(d, i))'
          BY <2>2, <3>1, <3>3, <3>7, <4>1 DEF OneTurn, AtHand, Waits, InQueue
        <4>2. ASSUME NEW i \in 1 .. MaxProviders
              PROVE  (AtHand(c, i) /\ Waits(c, i) /\ InQueue(c, i))'
          BY <2>2, <2>3, <2>5, <3>1 DEF AtHand, Waits, InQueue, NoChild
        <4>3. QED
          BY <4>1, <4>2 DEF OneTurn
      <3>9. QED
        BY <3>4, <3>5, <3>6, <3>8
    <2>7. CASE ordered # <<>>
      <3>1. PICK o \in Asks(<<c, 1>>) :
              outcome' = [outcome EXCEPT ![<<c, 0>>] = Pending, ![<<c, 1>>] = o]
        BY <1>3, <2>7 DEF StartCall
      <3>2. running' = <<c, 1>> /\ o \in {Pending, Error(1)} /\ o # Unborn
        BY <1>3, <2>7, <3>1 DEF StartCall, Asks, Pending, Unborn, Error, Mark
      <3>3. /\ outcome'[<<c, 0>>] = Pending /\ outcome'[<<c, 1>>] = o
            /\ \A p \in Promise : p \notin {<<c, 0>>, <<c, 1>>} => outcome'[p] = outcome[p]
        BY <2>3, <3>1 DEF TypeOK
      <3>4. /\ \A i \in 2 .. MaxProviders : outcome'[<<c, i>>] = Unborn
            /\ \A d \in Calls, i \in 0 .. MaxProviders : d # c => outcome'[<<d, i>>] = outcome[<<d, i>>]
        BY <2>1, <3>3 DEF Promise
      <3>5. Turns'
        BY <3>4 DEF Turns
      <3>6. Len(ordered) \in 1 .. MaxProviders
        BY <2>7, EmptySeq, LenProperties DEF TypeOK
      <3>7. Asked'
        <4>1. \A d \in Calls : d # c => /\ \A i \in 0 .. MaxProviders : outcome'[<<d, i>>] = outcome[<<d, i>>]
                                        /\ asked'[d] = asked[d]
          BY <2>4, <3>4
        <4>2. \A i \in 1 .. MaxProviders : i = 1 \/ i \in 2 .. MaxProviders
          OBVIOUS
        <4>3. QED
          BY <2>2, <2>4, <3>2, <3>3, <3>4, <3>6, <4>1, <4>2 DEF Asked, Complete
      <3>8. Waiting'
        BY <2>2, <2>3, <3>3, <3>4 DEF Waiting
      <3>9. Latest(c, 1)'
        BY <3>3, <3>4 DEF Latest
      <3>10. \A d \in Calls, i \in 1 .. MaxProviders : d # c /\ Latest(d, i) => Latest(d, i)'
        BY <3>4 DEF Latest
      <3>11. OneTurn'
        <4>1. ASSUME NEW d \in Calls, NEW i \in 1 .. MaxProviders, d # c
              PROVE  (AtHand(d, i) /\ Waits(d, i) /\ InQueue(d, i))'
          BY <2>2, <3>2, <3>4, <3>10, <4>1, SMTT(60) DEF OneTurn, AtHand, Waits, InQueue
        <4>2. ASSUME NEW i \in 1 .. MaxProviders
              PROVE  (AtHand(c, i) /\ Waits(c, i) /\ InQueue(c, i))'
          BY <2>2, <2>3, <2>5, <3>2, <3>3, <3>9 DEF AtHand, Waits, InQueue
        <4>3. QED
          BY <4>1, <4>2 DEF OneTurn
      <3>12. QED
        BY <3>5, <3>7, <3>8, <3>11
    <2>8. QED
      BY <2>6, <2>7
  <1>4. CASE ListenToChild
    <2>1. PICK c \in Calls, i \in 1 .. MaxProviders : running = <<c, i>>
      BY <1>4 DEF ListenToChild, TypeOK, Children
    <2> DEFINE p == <<c, i>>
    <2>2. /\ p \in Promise /\ outcome' = outcome /\ asked' = asked /\ running' = NoChild
          /\ outcome[p] # Unborn /\ callbacks[p] = <<>> /\ Latest(c, i)
          /\ \A k \in DOMAIN main : main[k][1] # p
      BY <1>4, <2>1 DEF ListenToChild, OnCompletion, OneTurn, AtHand, InQueue, Promise
    <2>3. (Turns /\ Asked)' /\ \A d \in Calls, j \in 1 .. MaxProviders : Latest(d, j) => Latest(d, j)'
      BY <2>2 DEF Turns, Asked, Latest
    <2>4. CASE Complete(outcome[p])
      <3>1. main' = Append(main, <<p, NextProvider>>) /\ callbacks' = callbacks
        BY <1>4, <2>1, <2>4 DEF ListenToChild, OnCompletion
      <3>2. <<p, NextProvider>> \in Entries
        BY <2>2 DEF Entries
      <3>3. /\ DOMAIN main = 1 .. Len(main) /\ Len(main) \in Nat /\ DOMAIN main' = 1 .. Len(main) + 1
            /\ \A k \in 1 .. Len(main) : main'[k] = main[k]
            /\ main'[Len(main) + 1] = <<p, NextProvider>>
        BY <3>1, <3>2, AppendProperties, LenProperties DEF TypeOK
      <3>4. OneTurn'
        <4>1. ASSUME NEW d \in Calls, NEW j \in 1 .. MaxProviders, <<d, j>> # p
              PROVE  (AtHand(d, j) /\ Waits(d, j) /\ InQueue(d, j))'
          <5>1. AtHand(d, j) /\ Waits(d, j) /\ InQueue(d, j) /\ (Latest(d, j) => Latest(d, j)')
            BY <2>3 DEF OneTurn
          <5>2. \A k \in DOMAIN main' : main'[k][1] = <<d, j>> => k \in DOMAIN main /\ main'[k] = main[k]
            BY <3>3, <4>1
          <5>3. QED
            BY <2>1, <2>2, <3>1, <5>1, <5>2, ZenonT(60) DEF AtHand, Waits, InQueue, NoChild
        <4>2. AtHand(c, i)' /\ Waits(c, i)'
          BY <2>2, <3>1 DEF AtHand, Waits, NoChild
        <4>3. \A k \in DOMAIN main' : main'[k][1] = p => k = Len(main) + 1
          BY <2>2, <3>3
        <4>4. Latest(c, i)' /\ Complete(outcome[p])' /\ callbacks'[p] = <<>> /\ running' # p
          BY <2>2, <2>3, <2>4, <3>1 DEF NoChild
        <4>5. InQueue(c, i)'
          BY <3>3, <4>3, <4>4 DEF InQueue
        <4>6. QED
          BY <4>1, <4>2, <4>5 DEF OneTurn
      <3>5. Waiting'
        BY <2>2, <3>1 DEF Waiting
      <3>6. QED
        BY <2>3, <3>4, <3>5
    <2>5. CASE ~Complete(outcome[p])
      <3>1. main' = main /\ callbacks' = [callbacks EXCEPT ![p] = Append(@, NextProvider)]
        BY <1>4, <2>1, <2>5 DEF ListenToChild, OnCompletion
      <3>2. callbacks'[p] = <<NextProvider>> /\ \A q \in Promise : q # p => callbacks'[q] = callbacks[q]
        BY <2>2, <3>1 DEF TypeOK
      <3>3. outcome[p] = Pending
        BY <2>2, <2>5 DEF Complete
      <3>4. Waiting'
        BY <2>2, <3>2, <3>3 DEF Waiting
      <3>5. \A d \in Calls, j \in 1 .. MaxProviders : <<d, j>> \in Promise
        BY DEF Promise
      <3>6. OneTurn'
        <4>1. ASSUME NEW d \in Calls, NEW j \in 1 .. MaxProviders, <<d, j>> # p
              PROVE  (AtHand(d, j) /\ Waits(d, j) /\ InQueue(d, j))'
          <5>1. AtHand(d, j) /\ Waits(d, j) /\ InQueue(d, j) /\ (Latest(d, j) => Latest(d, j)')
            BY <2>3 DEF OneTurn
          <5>2. QED
            BY <2>2, <3>1, <3>2, <3>5, <4>1, <5>1 DEF AtHand, Waits, InQueue, NoChild
        <4>2. (AtHand(c, i) /\ Waits(c, i) /\ InQueue(c, i))'
          BY <2>2, <3>1, <3>2 DEF AtHand, Waits, InQueue, NoChild
        <4>3. QED
          BY <4>1, <4>2 DEF OneTurn
      <3>7. QED
        BY <2>3, <3>4, <3>6
    <2>6. QED
      BY <2>4, <2>5
  <1>5. ASSUME NEW p \in Children, Answer(p) PROVE Goal'
    <2>1. PICK c \in Calls, i \in 1 .. MaxProviders : p = <<c, i>>
      BY DEF Children
    <2>2. PICK o \in {Value(i), Null(i), Error(i)} : SettleAfter(main, p, o)
      BY <1>5, <2>1 DEF Answer
    <2>3. outcome[p] = Pending /\ ~Complete(outcome[p]) /\ Complete(o) /\ p \in Promise /\ p # <<c, 0>>
      BY <1>5, <2>1, <2>2
         DEF Answer, Complete, Promise, Value, Null, Error, Pending, Unborn, Mark
    <2>4. /\ outcome' = [outcome EXCEPT ![p] = o] /\ callbacks' = [callbacks EXCEPT ![p] = <<>>]
          /\ main' = main \o Dispatched(p) /\ asked' = asked /\ running' = running
      BY <1>5, <2>2, <2>3 DEF SettleAfter, Answer
    <2>5. /\ outcome'[p] = o /\ callbacks'[p] = <<>>
          /\ \A q \in Promise : q # p => outcome'[q] = outcome[q] /\ callbacks'[q] = callbacks[q]
      BY <2>3, <2>4 DEF TypeOK
    <2>6. \A d \in Calls : /\ <<d, 0>> \in Promise /\ <<d, 0>> # p /\ outcome'[<<d, 0>>] = outcome[<<d, 0>>]
                           /\ \A j \in 1 .. MaxProviders : <<d, j>> \in Promise
      BY <2>1, <2>5 DEF Promise
    <2>7. ~Failed(Pending) /\ Pending # Unborn /\ o # Unborn /\ o # Pending
      BY <2>3 DEF Failed, Pending, Unborn, Mark, Complete
    <2>8. Turns'
      BY <2>3, <2>5, <2>6, <2>7, ZenonT(60) DEF Turns
    <2>9. Asked'
      BY <2>1, <2>2, <2>3, <2>4, <2>5, <2>6, <2>7, ZenonT(60) DEF Asked
    <2>10. Waiting'
      BY <2>3, <2>5 DEF Waiting
    <2>11. Latest(c, i)
      BY <2>1, <2>3, <2>7 DEF Turns, Asked, Latest, Complete
    <2>12. \A d \in Calls, j \in 1 .. MaxProviders : Latest(d, j) => Latest(d, j)'
      BY <2>3, <2>5, <2>6, <2>7 DEF Latest
    <2>13. /\ DOMAIN main = 1 .. Len(main) /\ Len(main) \in Nat
           /\ \A k \in 1 .. Len(main) : main'[k] = main[k]
           /\ Dispatched(p) \in Seq(Entries) /\ Len(main') = Len(main) + Len(Dispatched(p))
           /\ DOMAIN main' = 1 .. Len(main')
           /\ \A k \in 1 .. Len(Dispatched(p)) : main'[Len(main) + k] = Dispatched(p)[k]
      BY <2>3, <2>4, DispatchedType, ConcatProperties, LenProperties DEF TypeOK
    <2>14. \A k \in DOMAIN main : main[k][1] # p
      BY <2>1, <2>3 DEF OneTurn, InQueue
    <2>15. \A k \in DOMAIN main' : k \in DOMAIN main \/ main'[k] = <<p, NextProvider>>
      <3>1. \A k \in 1 .. Len(Dispatched(p)) : Dispatched(p)[k] = <<p, NextProvider>>
        BY <2>1, <2>3, DispatchedType DEF OneTurn, Waits
      <3>2. \A k \in DOMAIN main' : k \in DOMAIN main \/ k - Len(main) \in 1 .. Len(Dispatched(p))
        BY <2>13, LenProperties
      <3>3. \A k \in DOMAIN main' : Len(main) + (k - Len(main)) = k
        BY <2>13
      <3>4. ASSUME NEW k \in DOMAIN main', k \notin DOMAIN main PROVE main'[k] = <<p, NextProvider>>
        <4>1. k - Len(main) \in 1 .. Len(Dispatched(p)) /\ Len(main) + (k - Len(main)) = k
          BY ONLY <3>2, <3>3, <3>4
        <4>2. main'[Len(main) + (k - Len(main))] = Dispatched(p)[k - Len(main)]
          BY ONLY <2>13, <4>1
        <4>3. QED
          BY ONLY <3>1, <4>1, <4>2
      <3>5. QED
        BY ONLY <3>4
    <2>16. DOMAIN main' \subseteq 1 .. Len(main) + 1
      BY <2>1, <2>3, <2>13, DispatchedType DEF OneTurn, Waits
    <2>17. ASSUME NEW d \in Calls, NEW j \in 1 .. MaxProviders, <<d, j>> # p
           PROVE  (AtHand(d, j) /\ Waits(d, j) /\ InQueue(d, j))'
      <3>1. AtHand(d, j) /\ Waits(d, j) /\ InQueue(d, j) /\ (Latest(d, j) => Latest(d, j)')
        BY <2>12 DEF OneTurn
      <3>2. outcome'[<<d, j>>] = outcome[<<d, j>>] /\ callbacks'[<<d, j>>] = callbacks[<<d, j>>]
        BY <2>5, <2>6, <2>17
      <3>3. \A k \in DOMAIN main' : main'[k][1] = <<d, j>> => k \in DOMAIN main /\ main'[k] = main[k]
        <4>1. ASSUME NEW k \in DOMAIN main', main'[k] = <<p, NextProvider>> PROVE main'[k][1] = p
          BY <4>1
        <4>2. QED
          BY <2>13, <2>15, <2>17, <4>1
      <3>4. QED
        BY <2>4, <3>1, <3>2, <3>3, ZenonT(60) DEF AtHand, Waits, InQueue
    <2>18. (AtHand(c, i) /\ Waits(c, i) /\ InQueue(c, i))'
      <3>1. AtHand(c, i) /\ Waits(c, i) /\ Latest(c, i)'
        BY <2>11, <2>12 DEF OneTurn
      <3>2. AtHand(c, i)' /\ Waits(c, i)'
        BY <2>1, <2>4, <2>5, <2>7, <3>1 DEF AtHand, Waits
      <3>3. ASSUME NEW k \in DOMAIN main', main'[k][1] = p PROVE k = Len(main) + 1 /\ callbacks[p] # <<>>
        <4>1. k \notin DOMAIN main
          BY <2>13, <2>14, <3>3
        <4>2. k = Len(main) + 1
          BY <2>13, <2>16, <4>1
        <4>3. QED
          BY <2>3, <2>13, <4>2, DispatchedType
      <3>4. InQueue(c, i)'
        <4>1. \A k \in DOMAIN main' : main'[k][1] = p => main'[k][2] = NextProvider
          BY <2>13, <2>15, <3>3
        <4>2. Complete(outcome[p])' /\ callbacks'[p] = <<>> /\ (callbacks[p] # <<>> => running' # p)
          BY <2>1, <2>3, <2>4, <2>5, <3>1 DEF Waits
        <4>3. QED
          BY <2>1, <3>1, <3>3, <4>1, <4>2 DEF InQueue
      <3>5. QED
        BY <3>2, <3>4
    <2>19. OneTurn'
      BY <2>1, <2>17, <2>18 DEF OneTurn
    <2>20. QED
      BY <2>8, <2>9, <2>10, <2>19
  <1>6. CASE RunNextProvider
    <2>1. running = NoChild /\ main # <<>> /\ Head(main)[2] = NextProvider /\ asked' = asked
      BY <1>6 DEF RunNextProvider
    <2>2. PICK c \in Calls, i \in 1 .. MaxProviders :
              /\ Head(main)[1] = <<c, i>>
              /\ Complete(outcome[<<c, i>>]) /\ Latest(c, i) /\ callbacks[<<c, i>>] = <<>>
              /\ \A k \in DOMAIN Tail(main), j \in 1 .. MaxProviders : Tail(main)[k][1] # <<c, j>>
      BY <2>1, HeadTurn
    <2>3. /\ Tail(main) \in Seq(Entries)
          /\ \A k \in DOMAIN Tail(main) : k \in Int /\ k + 1 \in DOMAIN main /\ Tail(main)[k] = main[k + 1]
      BY <2>1, HeadTailProperties, LenProperties DEF TypeOK
    <2>4. \A d \in Calls, j \in 0 .. MaxProviders : <<d, j>> \in Promise
      BY DEF Promise
    <2>5. outcome[<<c, 0>>] = Pending /\ ~Complete(Pending) /\ Pending # Unborn /\ ~Failed(Pending)
      BY <2>2 DEF Latest, Complete, Failed, Pending, Unborn, Mark
    <2>6. CASE GoesOn(<<c, i>>)
      <3> DEFINE next == <<c, i + 1>>
      <3>1. Failed(outcome[<<c, i>>]) /\ i < Len(asked[c]) /\ i + 1 \in 1 .. MaxProviders
        <4>1. Len(asked[c]) \in Nat /\ Len(asked[c]) <= MaxProviders
          BY LenProperties DEF Asked, TypeOK
        <4>2. Failed(outcome[<<c, i>>]) /\ i < Len(asked[c])
          BY <2>6 DEF GoesOn
        <4>3. QED
          BY <4>1, <4>2
      <3>2. PICK o \in Asks(next) : outcome' = [outcome EXCEPT ![next] = o]
        <4>1. next = <<Head(main)[1][1], Head(main)[1][2] + 1>>
          BY <2>2
        <4>2. GoesOn(Head(main)[1])
          BY <2>2, <2>6
        <4>3. QED
          BY <1>6, <4>1, <4>2 DEF RunNextProvider
      <3>3. running' = next /\ main' = Tail(main) /\ callbacks' = callbacks
        BY <1>6, <2>2, <2>6 DEF RunNextProvider
      <3>4. o \in {Pending, Error(i + 1)} /\ o # Unborn
        BY <3>2 DEF Asks, Pending, Unborn, Error, Mark
      <3>5. outcome'[next] = o /\ \A q \in Promise : q # next => outcome'[q] = outcome[q]
        BY <2>4, <3>1, <3>2 DEF TypeOK
      <3>6. outcome[next] = Unborn /\ \A j \in 1 .. MaxProviders : j > i + 1 => outcome[<<c, j>>] = Unborn
        BY <2>2, <3>1 DEF Latest
      <3>7. \A d \in Calls, j \in 0 .. MaxProviders :
               <<d, j>> # next => outcome'[<<d, j>>] = outcome[<<d, j>>]
        BY <2>4, <3>5
      <3>8. \A j \in 1 .. MaxProviders : j < i + 1 => Failed(outcome[<<c, j>>])
        BY <2>2, <3>1 DEF Turns, Complete
      <3>9. Turns'
        <4>1. ASSUME NEW d \in Calls, NEW j \in 1 .. MaxProviders, NEW k \in 1 .. MaxProviders,
                     j < k, outcome'[<<d, k>>] # Unborn
              PROVE  Failed(outcome'[<<d, j>>])
          <5>1. CASE <<d, k>> = next
            BY <3>7, <3>8, <4>1, <5>1
          <5>2. CASE <<d, k>> # next
            <6>1. Failed(outcome[<<d, j>>])
              BY <3>7, <4>1, <5>2 DEF Turns
            <6>2. ~Failed(Unborn)
              BY DEF Failed, Unborn, Mark
            <6>3. <<d, j>> # next
              BY <3>6, <6>1, <6>2
            <6>4. QED
              BY <3>7, <6>1, <6>3
          <5>3. QED
            BY <5>1, <5>2
        <4>2. QED
          BY <4>1 DEF Turns
      <3>10. Asked'
        BY <2>1, <2>5, <3>1, <3>4, <3>5, <3>7 DEF Asked
      <3>11. Waiting'
        BY <2>5, <3>1, <3>3, <3>5, <3>6 DEF Waiting
      <3>12. callbacks[next] = <<>>
        BY <2>4, <2>5, <3>1, <3>6 DEF Waiting
      <3>13. Latest(c, i + 1)'
        BY <2>5, <3>1, <3>6, <3>7 DEF Latest
      <3>14. ASSUME NEW d \in Calls, NEW j \in 1 .. MaxProviders
             PROVE  (AtHand(d, j) /\ Waits(d, j) /\ InQueue(d, j))'
        <4>1. AtHand(d, j)'
          BY <3>3, <3>4, <3>5, <3>12, <3>13 DEF AtHand
        <4>2. Waits(d, j)'
          BY <3>3, <3>12 DEF OneTurn, Waits
        <4>3. ASSUME d = c PROVE InQueue(d, j)'
          <5>1. \A k \in DOMAIN main' : main'[k][1] # <<c, j>>
            BY <2>2, <3>3
          <5>2. QED
            BY <4>3, <5>1 DEF InQueue
        <4>4. ASSUME d # c PROVE InQueue(d, j)'
          <5>1. Latest(d, j) => Latest(d, j)'
            BY <3>7, <4>4 DEF Latest
          <5>2. QED
            <6>1. /\ outcome'[<<d, j>>] = outcome[<<d, j>>] /\ callbacks'[<<d, j>>] = callbacks[<<d, j>>]
                  /\ running' # <<d, j>> /\ DOMAIN main' \subseteq Int
                  /\ \A k \in DOMAIN main' : k + 1 \in DOMAIN main /\ main'[k] = main[k + 1]
              BY <2>3, <3>3, <3>7, <4>4
            <6>2. QED
              BY <5>1, <6>1, InQueueKept
        <4>5. QED
          BY <4>1, <4>2, <4>3, <4>4
      <3>15. QED
        BY <3>9, <3>10, <3>11, <3>14 DEF OneTurn
    <2>7. CASE ~GoesOn(<<c, i>>)
      <3> DEFINE t == Typed(c, outcome[<<c, i>>])
      <3>1. SettleAfter(Tail(main), <<c, 0>>, t) /\ running' = NoChild
        BY <1>6, <2>1, <2>2, <2>7 DEF RunNextProvider
      <3>2. Complete(t)
        BY <2>2 DEF Typed, Complete, Error, Pending, Unborn, Mark
      <3>3. /\ outcome' = [outcome EXCEPT ![<<c, 0>>] = t]
            /\ callbacks' = [callbacks EXCEPT ![<<c, 0>>] = <<>>]
            /\ main' = Tail(main) \o Dispatched(<<c, 0>>)
        BY <2>5, <3>1 DEF SettleAfter
      <3>4. /\ outcome'[<<c, 0>>] = t /\ callbacks'[<<c, 0>>] = <<>>
            /\ \A q \in Promise : q # <<c, 0>> => outcome'[q] = outcome[q] /\ callbacks'[q] = callbacks[q]
        BY <2>4, <3>3, SMTT(60) DEF TypeOK
      <3>5. /\ \A d \in Calls, j \in 1 .. MaxProviders :
                  outcome'[<<d, j>>] = outcome[<<d, j>>] /\ callbacks'[<<d, j>>] = callbacks[<<d, j>>]
            /\ \A d \in Calls : d # c => outcome'[<<d, 0>>] = outcome[<<d, 0>>]
        BY <2>4, <3>4
      <3>6. Turns'
        BY <3>5 DEF Turns
      <3>7. \A j \in 1 .. MaxProviders : outcome[<<c, j>>] # Pending
        <4>1. ASSUME NEW j \in 1 .. MaxProviders PROVE outcome[<<c, j>>] # Pending
          <5>1. CASE j < i
            BY <2>2, <2>5, <5>1 DEF Turns, Complete
          <5>2. CASE j = i
            BY <2>2, <2>5, <5>2
          <5>3. CASE j > i
            BY <2>2, <2>5, <5>3 DEF Latest
          <5>4. QED
            BY <5>1, <5>2, <5>3
        <4>2. QED
          BY <4>1
      <3>8. t # Unborn
        BY <3>2 DEF Complete
      <3>9. Asked'
        <4>1. ASSUME NEW d \in Calls, NEW j \in 1 .. MaxProviders
              PROVE  /\ Complete(outcome'[<<d, 0>>]) => outcome[<<d, j>>] # Pending
                     /\ outcome[<<d, j>>] # Unborn => outcome'[<<d, 0>>] # Unborn
          BY <3>4, <3>5, <3>7, <3>8 DEF Asked
        <4>2. \A d \in Calls, j \in 1 .. MaxProviders : outcome'[<<d, j>>] = outcome[<<d, j>>]
          BY <3>5
        <4>3. QED
          BY <2>1, <4>1, <4>2 DEF Asked
      <3>10. Waiting'
        BY <3>4 DEF Waiting
      <3>11. /\ DOMAIN main' \subseteq Int
             /\ \A k \in DOMAIN main' : \/ k \in DOMAIN Tail(main) /\ main'[k] = Tail(main)[k]
                                        \/ main'[k][1] = <<c, 0>>
        <4>1. Dispatched(<<c, 0>>) \in Seq(Entries)
              /\ \A k \in 1 .. Len(Dispatched(<<c, 0>>)) : Dispatched(<<c, 0>>)[k][1] = <<c, 0>>
          <5>1. <<c, 0>> \in Promise /\ callbacks[<<c, 0>>] \in Seq(Handlers \cup {NextProvider})
            BY <2>4 DEF TypeOK
          <5>2. DOMAIN callbacks[<<c, 0>>] = 1 .. Len(Dispatched(<<c, 0>>))
            BY <5>1, DispatchedType, LenProperties
          <5>3. QED
            BY <5>1, <5>2, DispatchedType
        <4>2. /\ Len(main') = Len(Tail(main)) + Len(Dispatched(<<c, 0>>)) /\ DOMAIN main' = 1 .. Len(main')
              /\ \A k \in 1 .. Len(main') : main'[k] = IF k <= Len(Tail(main)) THEN Tail(main)[k]
                                                       ELSE Dispatched(<<c, 0>>)[k - Len(Tail(main))]
          BY <2>3, <3>3, <4>1, ConcatProperties, LenProperties
        <4>3. DOMAIN Tail(main) = 1 .. Len(Tail(main)) /\ Len(Tail(main)) \in Nat
              /\ Len(Dispatched(<<c, 0>>)) \in Nat
          BY <2>3, <4>1, LenProperties
        <4>4. DOMAIN main' \subseteq Int
          BY <4>2, <4>3
        <4>5. ASSUME NEW k \in DOMAIN main', k > Len(Tail(main)) PROVE main'[k][1] = <<c, 0>>
          <5>1. main'[k] = Dispatched(<<c, 0>>)[k - Len(Tail(main))]
            BY <4>2, <4>3, <4>5
          <5>2. k - Len(Tail(main)) \in 1 .. Len(Dispatched(<<c, 0>>))
            BY <4>2, <4>3, <4>5
          <5>3. QED
            BY <4>1, <5>1, <5>2
        <4>6. ASSUME NEW k \in DOMAIN main', k <= Len(Tail(main))
              PROVE  k \in DOMAIN Tail(main) /\ main'[k] = Tail(main)[k]
          BY <4>2, <4>3, <4>6
        <4>7. \A k \in DOMAIN main' : k > Len(Tail(main)) \/ k <= Len(Tail(main))
          BY <4>3, <4>4
        <4>8. QED
          BY ONLY <4>4, <4>5, <4>6, <4>7
      <3>12. ASSUME NEW d \in Calls, NEW j \in 1 .. MaxProviders
             PROVE  (AtHand(d, j) /\ Waits(d, j) /\ InQueue(d, j))'
        <4>1. AtHand(d, j)' /\ Waits(d, j)'
          BY <3>1, <3>5 DEF OneTurn, AtHand, Waits, NoChild
        <4>2. \A k \in DOMAIN main' : main'[k][1] = <<d, j>> => d # c /\ k \in DOMAIN Tail(main) /\ main'[k] = Tail(main)[k]
          BY <2>2, <3>11
        <4>3. ASSUME d = c PROVE InQueue(d, j)'
          <5>1. \A k \in DOMAIN main' : main'[k][1] # <<d, j>>
            BY <4>2, <4>3
          <5>2. QED
            BY <5>1 DEF InQueue
        <4>4. ASSUME d # c PROVE InQueue(d, j)'
          <5>1. Latest(d, j) => Latest(d, j)'
            BY <3>5, <4>4 DEF Latest
          <5>2. running' # <<d, j>>
            BY <3>1 DEF NoChild
          <5>3. QED
            <6>1. \A k \in DOMAIN main' : main'[k][1] = <<d, j>> => k + 1 \in DOMAIN main /\ main'[k] = main[k + 1]
              BY <2>3, <4>2
            <6>2. QED
              BY <3>5, <3>11, <5>1, <5>2, <6>1, InQueueKept
        <4>5. QED
          BY <4>1, <4>3, <4>4
      <3>13. QED
        BY <3>6, <3>9, <3>10, <3>12 DEF OneTurn
    <2>8. QED
      BY <2>6, <2>7
  <1>7. ASSUME NEW c \in Calls, NEW h \in Handlers, AddHandler(c, h) PROVE Goal'
    <2>1. /\ OnCompletion(<<c, 0>>, h) /\ outcome' = outcome /\ asked' = asked /\ running' = running
          /\ outcome[<<c, 0>>] # Unborn
      BY <1>7 DEF AddHandler, OnCompletion
    <2>2. \A d \in Calls, j \in 0 .. MaxProviders : <<d, j>> \in Promise
      BY DEF Promise
    <2>3. (Turns /\ Asked)' /\ \A d \in Calls, j \in 1 .. MaxProviders : Latest(d, j) => Latest(d, j)'
      BY <2>1 DEF Turns, Asked, Latest
    <2>4. \A q \in Promise : q # <<c, 0>> => callbacks'[q] = callbacks[q]
      BY <2>1, <2>2 DEF OnCompletion, TypeOK
    <2>5. Waiting'
      BY <2>1, <2>2, <2>4 DEF OnCompletion, Waiting, Complete
    <2>6. /\ DOMAIN main' \subseteq Int
          /\ \A k \in DOMAIN main' : (k \in DOMAIN main /\ main'[k] = main[k]) \/ main'[k][1] = <<c, 0>>
      <3>1. CASE main' = main
        BY <3>1, LenProperties DEF TypeOK
      <3>2. CASE main' = Append(main, <<<<c, 0>>, h>>)
        <4>1. <<<<c, 0>>, h>> \in Entries
          BY <2>2 DEF Entries
        <4>2. QED
          BY <3>2, <4>1, AppendProperties, LenProperties DEF TypeOK
      <3>3. QED
        BY <2>1, <3>1, <3>2 DEF OnCompletion
    <2>7. ASSUME NEW d \in Calls, NEW j \in 1 .. MaxProviders
          PROVE  (AtHand(d, j) /\ Waits(d, j) /\ InQueue(d, j))'
      <3>1. callbacks'[<<d, j>>] = callbacks[<<d, j>>]
        BY <2>2, <2>4
      <3>2. AtHand(d, j) /\ Waits(d, j) /\ InQueue(d, j) /\ (Latest(d, j) => Latest(d, j)')
        BY <2>3 DEF OneTurn
      <3>3. \A k \in DOMAIN main' : main'[k][1] = <<d, j>> => k \in DOMAIN main /\ main'[k] = main[k]
        BY <2>6
      <3>4. AtHand(d, j)' /\ Waits(d, j)'
        BY <2>1, <3>1, <3>2 DEF AtHand, Waits
      <3>5. InQueue(d, j)'
        BY <2>1, <3>1, <3>2, <3>3 DEF InQueue
      <3>6. QED
        BY <3>4, <3>5
    <2>8. QED
      BY <2>3, <2>5, <2>7 DEF OneTurn
  <1>8. CASE RunHandler
    BY <1>8, QuietTurns DEF RunHandler
  <1>9. CASE UNCHANGED vars
    BY <1>9, QuietTurns DEF vars
  <1>10. QED
    BY <1>1, <1>2, <1>3, <1>4, <1>5, <1>6, <1>7, <1>8, <1>9 DEF Next

\* The numbers of a call's handlers: those run, those due and those that wait.
LEMMA CountTypes ==
    ASSUME TypeOK, NEW c \in Calls
    PROVE  /\ <<c, 0>> \in Promise
           /\ Len(added[c]) \in Nat /\ DOMAIN added[c] = 1 .. Len(added[c])
           /\ Len(ran[c]) \in Nat /\ DOMAIN ran[c] = 1 .. Len(ran[c])
           /\ Len(callbacks[<<c, 0>>]) \in Nat
           /\ DOMAIN callbacks[<<c, 0>>] = 1 .. Len(callbacks[<<c, 0>>])
           /\ Len(main) \in Nat /\ DOMAIN main = 1 .. Len(main)
           /\ Shown(c) \in Int /\ Shown(c) <= Len(added[c])
  <1>1. <<c, 0>> \in Promise
    BY CallAssumption DEF Promise
  <1>2. /\ added[c] \in Seq(Handlers) /\ ran[c] \in Seq(Handlers) /\ main \in Seq(Entries)
        /\ callbacks[<<c, 0>>] \in Seq(Handlers \cup {NextProvider})
    BY <1>1 DEF TypeOK
  <1>3. /\ Len(added[c]) \in Nat /\ DOMAIN added[c] = 1 .. Len(added[c])
        /\ Len(ran[c]) \in Nat /\ DOMAIN ran[c] = 1 .. Len(ran[c])
    BY <1>2, LenProperties
  <1>4. /\ Len(callbacks[<<c, 0>>]) \in Nat
        /\ DOMAIN callbacks[<<c, 0>>] = 1 .. Len(callbacks[<<c, 0>>])
    BY <1>2, LenProperties
  <1>5. Len(main) \in Nat /\ DOMAIN main = 1 .. Len(main)
    BY <1>2, LenProperties
  <1>6. Shown(c) \in Int /\ Shown(c) <= Len(added[c])
    <2>1. ASSUME NEW a \in Nat, NEW b \in Nat PROVE a - b \in Int /\ a - b <= a
      OBVIOUS
    <2>2. QED
      BY ONLY <1>3, <1>4, <2>1 DEF Shown
  <1>7. QED
    BY <1>1, <1>3, <1>4, <1>5, <1>6

\* A line stays when its entries stay in the queue in their order.
LEMMA LineKept ==
    ASSUME NEW q, NEW r, NEW p, NEW A, NEW lo \in Int, NEW hi \in Int, NEW s \in {0, 1},
           DOMAIN q \subseteq Int, DOMAIN r \subseteq Int,
           \A k \in DOMAIN r : r[k][1] = p => k + s \in DOMAIN q /\ r[k] = q[k + s],
           \A k \in DOMAIN q : q[k][1] = p => k - s \in DOMAIN r /\ r[k - s] = q[k],
           Line(q, p, A, lo, hi)
    PROVE  Line(r, p, A, lo, hi)
  <1>1. ASSUME NEW k \in DOMAIN r, r[k][1] = p PROVE \E n \in lo .. hi : r[k][2] = A[n]
    <2>1. k + s \in DOMAIN q /\ q[k + s][1] = p /\ q[k + s] = r[k]
      BY <1>1
    <2>2. QED
      BY <2>1 DEF Line
  <1>2. ASSUME NEW n \in lo .. hi PROVE \E k \in DOMAIN r : r[k] = <<p, A[n]>>
    <2>1. PICK k \in DOMAIN q : q[k] = <<p, A[n]>>
      BY DEF Line
    <2>2. q[k][1] = p
      BY <2>1
    <2>3. QED
      BY <2>1, <2>2
  <1>3. ASSUME NEW k \in DOMAIN r, NEW l \in DOMAIN r, NEW m \in lo .. hi, NEW n \in lo .. hi,
               k < l, r[k][1] = p, r[l][1] = p, r[k][2] = A[m], r[l][2] = A[n]
        PROVE  m < n
    <2>1. k + s < l + s
      BY <1>3
    <2>2. QED
      BY <1>3, <2>1 DEF Line
  <1>4. QED
    BY <1>1, <1>2, <1>3 DEF Line

\* Only the handlers lo .. hi of the list matter.
LEMMA LineSame ==
    ASSUME NEW q, NEW p, NEW A, NEW B, NEW lo \in Int, NEW hi \in Int,
           \A n \in lo .. hi : A[n] = B[n], Line(q, p, A, lo, hi)
    PROVE  Line(q, p, B, lo, hi)
  BY DEF Line

\* The next w handlers are put behind the line.
LEMMA LineLonger ==
    ASSUME NEW q, NEW r, NEW p, NEW A, NEW lo \in Nat, NEW hi \in Nat, NEW w \in Nat,
           NEW L \in Nat, NEW s \in {0, 1}, lo >= 1, lo <= hi + 1, DOMAIN q \subseteq Int,
           DOMAIN r = 1 .. L + w,
           \A k \in 1 .. L : k + s \in DOMAIN q /\ r[k] = q[k + s],
           \A k \in DOMAIN q : q[k][1] = p => k - s \in 1 .. L /\ r[k - s] = q[k],
           \A k \in 1 .. w : r[L + k] = <<p, A[hi + k]>>,
           \A m, n \in 1 .. hi + w : A[m] = A[n] => m = n,
           Line(q, p, A, lo, hi)
    PROVE  Line(r, p, A, lo, hi + w)
  <1>1. \A k \in DOMAIN r : k \in 1 .. L \/ (k - L \in 1 .. w /\ L + (k - L) = k)
    OBVIOUS
  <1>2. ASSUME NEW k \in 1 .. L, r[k][1] = p
        PROVE  \E n \in lo .. hi : r[k][2] = A[n]
    <2>1. k + s \in DOMAIN q /\ q[k + s][1] = p /\ q[k + s] = r[k]
      BY <1>2
    <2>2. \A i \in DOMAIN q : q[i][1] = p => \E n \in lo .. hi : q[i][2] = A[n]
      BY DEF Line
    <2>3. QED
      BY ONLY <2>1, <2>2
  <1>3. ASSUME NEW k \in DOMAIN r, k \notin 1 .. L
        PROVE  k - L \in 1 .. w /\ r[k] = <<p, A[hi + (k - L)]>> /\ r[k][2] = A[hi + (k - L)]
    <2>1. k - L \in 1 .. w /\ L + (k - L) = k
      BY <1>1, <1>3
    <2>2. r[L + (k - L)] = <<p, A[hi + (k - L)]>>
      BY <2>1
    <2>3. QED
      BY <2>1, <2>2, SMTT(60)
  <1>4. ASSUME NEW k \in DOMAIN r, r[k][1] = p PROVE \E n \in lo .. hi + w : r[k][2] = A[n]
    <2>1. CASE k \in 1 .. L
      <3>1. PICK n \in lo .. hi : r[k][2] = A[n]
        BY <1>2, <1>4, <2>1
      <3>2. n \in lo .. hi + w
        OBVIOUS
      <3>3. QED
        BY <3>1, <3>2
    <2>2. CASE k \notin 1 .. L
      <3>1. hi + (k - L) \in lo .. hi + w
        BY <1>3, <2>2
      <3>2. QED
        BY <1>3, <2>2, <3>1
    <2>3. QED
      BY <2>1, <2>2
  <1>5. ASSUME NEW n \in lo .. hi + w PROVE \E k \in DOMAIN r : r[k] = <<p, A[n]>>
    <2>1. CASE n <= hi
      <3>1. n \in lo .. hi
        BY <2>1
      <3>2. PICK k \in DOMAIN q : q[k] = <<p, A[n]>>
        BY <3>1 DEF Line
      <3>3. k - s \in 1 .. L /\ r[k - s] = q[k]
        <4>1. q[k][1] = p
          BY <3>2
        <4>2. QED
          BY <4>1
      <3>4. k - s \in DOMAIN r
        BY <3>3
      <3>5. QED
        BY <3>2, <3>3, <3>4
    <2>2. CASE n > hi
      <3>1. n - hi \in 1 .. w /\ hi + (n - hi) = n /\ L + (n - hi) \in DOMAIN r
        BY <2>2
      <3>2. QED
        BY <3>1
    <2>3. QED
      BY <2>1, <2>2
  <1>6. ASSUME NEW k \in DOMAIN r, NEW l \in DOMAIN r, NEW m \in lo .. hi + w, NEW n \in lo .. hi + w,
               k < l, r[k][1] = p, r[l][1] = p, r[k][2] = A[m], r[l][2] = A[n]
        PROVE  m < n
    <2>a. m \in 1 .. hi + w /\ n \in 1 .. hi + w /\ \A i \in lo .. hi : i \in 1 .. hi + w
      OBVIOUS
    <2>b. \A i, j \in 1 .. hi + w : A[i] = A[j] => i = j
      OBVIOUS
    <2>c. \A i, j \in DOMAIN q, x, y \in lo .. hi :
              i < j /\ q[i][1] = p /\ q[j][1] = p /\ q[i][2] = A[x] /\ q[j][2] = A[y] => x < y
      BY DEF Line
    <2>1. CASE k \notin 1 .. L
      <3>1. l \notin 1 .. L
        BY <1>6, <2>1
      <3>2. m = hi + (k - L) /\ n = hi + (l - L)
        <4>1. hi + (k - L) \in 1 .. hi + w /\ hi + (l - L) \in 1 .. hi + w
          BY <1>3, <2>1, <3>1, SMTT(60)
        <4>2. QED
          <5>1. A[m] = A[hi + (k - L)] /\ A[n] = A[hi + (l - L)]
            BY <1>3, <1>6, <2>1, <3>1
          <5>2. QED
            BY ONLY <2>a, <2>b, <4>1, <5>1
      <3>3. QED
        BY <1>6, <3>2, SMTT(60)
    <2>2. CASE k \in 1 .. L
      <3>1. PICK i \in lo .. hi : r[k][2] = A[i]
        BY <1>2, <1>6, <2>2
      <3>2. m = i
        <4>1. A[m] = A[i]
          BY <1>6, <3>1
        <4>2. QED
          BY ONLY <2>a, <2>b, <4>1
      <3>3. CASE l \in 1 .. L
        <4>1. PICK j \in lo .. hi : r[l][2] = A[j]
          BY <1>2, <1>6, <3>3
        <4>2. n = j
          <5>1. A[n] = A[j]
            BY <1>6, <4>1
          <5>2. QED
            BY ONLY <2>a, <2>b, <5>1
        <4>3. k + s \in DOMAIN q /\ l + s \in DOMAIN q /\ k + s < l + s
              /\ r[k] = q[k + s] /\ r[l] = q[l + s]
          <5>1. k + s < l + s
            BY <1>6, <2>2, <3>3, SMTT(60)
          <5>2. QED
            BY <2>2, <3>3, <5>1
        <4>4. QED
          <5>1. m \in lo .. hi /\ n \in lo .. hi
            BY <3>2, <4>2
          <5>2. QED
            BY ONLY <1>6, <2>c, <4>3, <5>1
      <3>4. CASE l \notin 1 .. L
        <4>1. hi + (l - L) \in 1 .. hi + w
          BY <1>3, <3>4
        <4>2. n = hi + (l - L)
          <5>1. A[n] = A[hi + (l - L)]
            BY <1>3, <1>6, <3>4
          <5>2. QED
            BY ONLY <2>a, <2>b, <4>1, <5>1
        <4>3. QED
          BY <1>3, <3>2, <3>4, <4>2, SMTT(60)
      <3>5. QED
        BY <3>3, <3>4
    <2>3. QED
      BY <2>1, <2>2
  <1>7. QED
    BY <1>4, <1>5, <1>6 DEF Line

\* The entry at the head of the queue is the first of its line.
LEMMA LineHead ==
    ASSUME NEW q, NEW r, NEW p, NEW A, NEW lo \in Nat, NEW hi \in Int, lo >= 1,
           DOMAIN q \subseteq Nat \ {0}, 1 \in DOMAIN q, q[1][1] = p, DOMAIN r \subseteq Int,
           \A k \in DOMAIN r : k + 1 \in DOMAIN q /\ k # 0 /\ r[k] = q[k + 1],
           \A k \in DOMAIN q : k # 1 => k - 1 \in DOMAIN r,
           \A m, n \in 1 .. hi : A[m] = A[n] => m = n,
           Line(q, p, A, lo, hi)
    PROVE  lo <= hi /\ q[1][2] = A[lo] /\ Line(r, p, A, lo + 1, hi)
  <1>1. PICK n \in lo .. hi : q[1][2] = A[n]
    BY DEF Line
  <1>2. lo <= hi /\ lo \in lo .. hi
    BY <1>1
  <1>3. n = lo
    <2>1. PICK k \in DOMAIN q : q[k] = <<p, A[lo]>>
      BY <1>2 DEF Line
    <2>2. q[k][1] = p /\ q[k][2] = A[lo]
      BY <2>1
    <2>3. CASE k = 1
      BY <1>1, <1>2, <2>2, <2>3
    <2>4. CASE k # 1
      <3>1. 1 < k
        BY <2>4
      <3>2. n < lo
        BY <1>1, <1>2, <2>2, <3>1 DEF Line
      <3>3. QED
        BY <1>1, <3>2
    <2>5. QED
      BY <2>3, <2>4
  <1>4. ASSUME NEW k \in DOMAIN r, r[k][1] = p PROVE \E m \in lo + 1 .. hi : r[k][2] = A[m]
    <2>1. k + 1 \in DOMAIN q /\ 1 < k + 1 /\ q[k + 1] = r[k]
      <3>1. k + 1 \in Nat \ {0} /\ k + 1 # 1
        OBVIOUS
      <3>2. QED
        BY <3>1
    <2>2. PICK m \in lo .. hi : q[k + 1][2] = A[m]
      BY <1>4, <2>1 DEF Line
    <2>3. lo < m
      BY <1>1, <1>2, <1>3, <1>4, <2>1, <2>2 DEF Line
    <2>4. QED
      BY <2>1, <2>2, <2>3
  <1>5. ASSUME NEW m \in lo + 1 .. hi PROVE \E k \in DOMAIN r : r[k] = <<p, A[m]>>
    <2>1. m \in lo .. hi /\ m \in 1 .. hi /\ lo \in 1 .. hi /\ m # lo
      BY <1>2
    <2>2. PICK k \in DOMAIN q : q[k] = <<p, A[m]>>
      BY <2>1 DEF Line
    <2>3. k # 1
      BY <1>1, <1>3, <2>1, <2>2
    <2>4. k - 1 \in DOMAIN r /\ r[k - 1] = q[k]
      <3>1. k - 1 \in DOMAIN r /\ (k - 1) + 1 = k
        BY <2>3
      <3>2. QED
        BY <3>1
    <2>5. QED
      BY <2>2, <2>4
  <1>6. ASSUME NEW k \in DOMAIN r, NEW l \in DOMAIN r, NEW m \in lo + 1 .. hi, NEW i \in lo + 1 .. hi,
               k < l, r[k][1] = p, r[l][1] = p, r[k][2] = A[m], r[l][2] = A[i]
        PROVE  m < i
    <2>1. k + 1 < l + 1 /\ m \in lo .. hi /\ i \in lo .. hi
      BY <1>6
    <2>2. QED
      BY <1>6, <2>1 DEF Line
  <1>7. QED
    BY <1>1, <1>2, <1>3, <1>4, <1>5, <1>6 DEF Line

\* The queue without its head.
LEMMA TailTypes ==
    ASSUME TypeOK, main # <<>>
    PROVE  /\ Tail(main) \in Seq(Entries) /\ DOMAIN Tail(main) = 1 .. Len(Tail(main))
           /\ Len(Tail(main)) = Len(main) - 1 /\ Len(Tail(main)) \in Nat
           /\ \A k \in DOMAIN Tail(main) : k + 1 \in DOMAIN main /\ Tail(main)[k] = main[k + 1]
           /\ 1 \in DOMAIN main /\ Head(main) = main[1]
           /\ \A k \in DOMAIN main : k # 1 => k - 1 \in DOMAIN Tail(main) /\ Tail(main)[k - 1] = main[k]
  <1>1. /\ main \in Seq(Entries) /\ Len(main) \in Nat /\ DOMAIN main = 1 .. Len(main)
        /\ Tail(main) \in Seq(Entries) /\ Len(Tail(main)) = Len(main) - 1
        /\ \A i \in 1 .. Len(Tail(main)) : Tail(main)[i] = main[i + 1]
    BY HeadTailProperties, LenProperties DEF TypeOK
  <1>2. Len(main) >= 1 /\ Len(Tail(main)) \in Nat /\ DOMAIN Tail(main) = 1 .. Len(Tail(main))
    BY <1>1, EmptySeq, LenProperties
  <1>3. Head(main) = main[1]
    BY <1>1
  <1>4. QED
    BY <1>1, <1>2, <1>3

\* The queue with the handlers of a settled promise behind it.
LEMMA SettledQueue ==
    ASSUME TypeOK, NEW p \in Promise, NEW q \in Seq(Entries)
    PROVE  /\ Len(q) \in Nat /\ Len(callbacks[p]) \in Nat
           /\ DOMAIN q = 1 .. Len(q) /\ DOMAIN callbacks[p] = 1 .. Len(callbacks[p])
           /\ DOMAIN (q \o Dispatched(p)) = 1 .. Len(q) + Len(callbacks[p])
           /\ \A k \in 1 .. Len(q) : (q \o Dispatched(p))[k] = q[k]
           /\ \A k \in 1 .. Len(callbacks[p]) :
                 (q \o Dispatched(p))[Len(q) + k] = <<p, callbacks[p][k]>>
  <1>1. callbacks[p] \in Seq(Handlers \cup {NextProvider})
    BY DEF TypeOK
  <1>2. /\ Len(q) \in Nat /\ Len(callbacks[p]) \in Nat
        /\ DOMAIN q = 1 .. Len(q) /\ DOMAIN callbacks[p] = 1 .. Len(callbacks[p])
    BY <1>1, LenProperties
  <1>3. /\ Dispatched(p) \in Seq(Entries) /\ Len(Dispatched(p)) = Len(callbacks[p])
        /\ \A k \in 1 .. Len(callbacks[p]) : Dispatched(p)[k] = <<p, callbacks[p][k]>>
    BY <1>2, DispatchedType
  <1>4. /\ q \o Dispatched(p) \in Seq(Entries)
        /\ Len(q \o Dispatched(p)) = Len(q) + Len(Dispatched(p))
        /\ \A k \in 1 .. Len(q) + Len(Dispatched(p)) : (q \o Dispatched(p))[k] =
              IF k <= Len(q) THEN q[k] ELSE Dispatched(p)[k - Len(q)]
    BY <1>3, ConcatProperties, ZenonT(60)
  <1>5. DOMAIN (q \o Dispatched(p)) = 1 .. Len(q) + Len(callbacks[p])
    BY <1>3, <1>4, LenProperties
  <1>6. ASSUME NEW k \in 1 .. Len(callbacks[p])
        PROVE  (q \o Dispatched(p))[Len(q) + k] = <<p, callbacks[p][k]>>
    BY <1>2, <1>3, <1>4
  <1>7. ASSUME NEW k \in 1 .. Len(q) PROVE (q \o Dispatched(p))[k] = q[k]
    BY <1>2, <1>3, <1>4
  <1>8. QED
    BY <1>2, <1>5, <1>6, <1>7

QueuedFor(c) ==
    Counted(c) /\ Line(main, <<c, 0>>, added[c], Len(ran[c]) + 1, Shown(c))

\* A call none of whose handlers is added, dispatched or run.
LEMMA QueuedKept ==
    ASSUME IInv, NEW c \in Calls, NEW s \in {0, 1},
           added'[c] = added[c], ran'[c] = ran[c], callbacks'[<<c, 0>>] = callbacks[<<c, 0>>],
           DOMAIN main' \subseteq Int,
           \A k \in DOMAIN main' : main'[k][1] = <<c, 0>> =>
                k + s \in DOMAIN main /\ main'[k] = main[k + s],
           \A k \in DOMAIN main : main[k][1] = <<c, 0>> =>
                k - s \in DOMAIN main' /\ main'[k - s] = main[k]
    PROVE  QueuedFor(c)'
  <1>1. TypeOK /\ Counted(c) /\ Line(main, <<c, 0>>, added[c], Len(ran[c]) + 1, Shown(c))
    BY DEF IInv, Queued
  <1>2. Shown(c)' = Shown(c)
    BY DEF Shown
  <1>3. Counted(c)'
    BY <1>1, <1>2 DEF Counted
  <1>4. DOMAIN main \subseteq Int /\ Len(ran[c]) + 1 \in Int /\ Shown(c) \in Int
    BY <1>1, CountTypes
  <1>5. /\ DOMAIN main' \subseteq Int /\ s \in {0, 1}
        /\ \A k \in DOMAIN main' : main'[k][1] = <<c, 0>> =>
              k + s \in DOMAIN main /\ main'[k] = main[k + s]
        /\ \A k \in DOMAIN main : main[k][1] = <<c, 0>> =>
              k - s \in DOMAIN main' /\ main'[k - s] = main[k]
    OBVIOUS
  <1>6. Line(main', <<c, 0>>, added[c], Len(ran[c]) + 1, Shown(c))
    BY ONLY <1>1, <1>4, <1>5, LineKept, SMTT(60)
  <1>7. QED
    BY <1>2, <1>3, <1>6 DEF QueuedFor

LEMMA QueuedSame ==
    ASSUME IInv, UNCHANGED <<main, added, ran>>,
           \A c \in Calls : callbacks'[<<c, 0>>] = callbacks[<<c, 0>>]
    PROVE  Queued'
  <1>1. \A c \in Calls : Shown(c)' = Shown(c)
    BY DEF Shown
  <1>2. ASSUME NEW c \in Calls
        PROVE  (Counted(c) /\ Line(main, <<c, 0>>, added[c], Len(ran[c]) + 1, Shown(c)))'
    <2>1. Counted(c) /\ Line(main, <<c, 0>>, added[c], Len(ran[c]) + 1, Shown(c))
      BY DEF IInv, Queued
    <2>2. Counted(c)'
      BY <1>1, <2>1 DEF Counted
    <2>3. main' = main /\ added'[c] = added[c] /\ ran'[c] = ran[c] /\ Shown(c)' = Shown(c)
      BY <1>1
    <2>4. QED
      BY ONLY <2>1, <2>2, <2>3
  <1>3. QED
    BY <1>2 DEF Queued

\* The answer of a call dispatches what waits for it, behind what is due.
LEMMA QueuedSettled ==
    ASSUME IInv, NEW c \in Calls, main # <<>>, Head(main)[1] # <<c, 0>>,
           added'[c] = added[c], ran'[c] = ran[c], callbacks'[<<c, 0>>] = <<>>,
           main' = Tail(main) \o Dispatched(<<c, 0>>)
    PROVE  QueuedFor(c)'
  <1> DEFINE p == <<c, 0>>
             A == added[c]
             lo == Len(ran[c]) + 1
             w == Len(callbacks[p])
             L == Len(Tail(main))
  <1>1. TypeOK /\ Counted(c) /\ Line(main, p, A, lo, Shown(c))
    BY DEF IInv, Queued
  <1>2. /\ p \in Promise /\ Len(A) \in Nat /\ DOMAIN A = 1 .. Len(A)
        /\ Len(ran[c]) \in Nat /\ w \in Nat /\ DOMAIN callbacks[p] = 1 .. w
        /\ Shown(c) = Len(A) - w /\ DOMAIN main \subseteq Int
    <2>1. Shown(c) = Len(A) - w
      BY DEF Shown
    <2>2. QED
      BY <1>1, <2>1, CountTypes
  <1>3. /\ Tail(main) \in Seq(Entries) /\ L \in Nat /\ DOMAIN Tail(main) = 1 .. L
        /\ \A k \in 1 .. L : k + 1 \in DOMAIN main /\ Tail(main)[k] = main[k + 1]
        /\ Head(main) = main[1]
        /\ \A k \in DOMAIN main : k # 1 => k - 1 \in 1 .. L /\ Tail(main)[k - 1] = main[k]
    BY <1>1, TailTypes
  <1>4. /\ DOMAIN main' = 1 .. L + w
        /\ \A k \in 1 .. L : main'[k] = Tail(main)[k]
        /\ \A k \in 1 .. w : main'[L + k] = <<p, callbacks[p][k]>>
    BY <1>1, <1>2, <1>3, SettledQueue
  <1>5. Len(ran[c]) <= Shown(c)
    BY <1>1 DEF Counted
  <1>6. Shown(c)' = Len(A) - 0
    BY DEF Shown
  <1>7. Counted(c)'
    <2>1. /\ \A m, n \in DOMAIN added'[c] : added'[c][m] = added'[c][n] => m = n
          /\ \A n \in DOMAIN ran'[c] : ran'[c][n] = added'[c][n]
          /\ \A n \in DOMAIN callbacks'[<<c, 0>>] : FALSE
      BY <1>1 DEF Counted
    <2>2. Len(ran'[c]) = Len(ran[c])
      OBVIOUS
    <2> HIDE DEF p, A, lo, w, L
    <2>3. Len(ran[c]) <= Shown(c)'
      BY ONLY <1>2, <1>5, <1>6
    <2>4. QED
      BY ONLY <2>1, <2>2, <2>3 DEF Counted
  <1>8. \A k \in 1 .. w : callbacks[p][k] = A[Shown(c) + k]
    BY <1>1, <1>2 DEF Counted
  <1>9. \A k \in 1 .. L : k + 1 \in DOMAIN main /\ main'[k] = main[k + 1]
    BY ONLY <1>3, <1>4
  <1>10. \A k \in DOMAIN main : main[k][1] = p => k - 1 \in 1 .. L /\ main'[k - 1] = main[k]
    <2>1. main[1][1] # p
      BY <1>3
    <2> HIDE DEF p, A, lo, w, L
    <2>2. QED
      BY ONLY <1>3, <1>4, <2>1
  <1>11. \A k \in 1 .. w : main'[L + k] = <<p, A[Shown(c) + k]>>
    BY ONLY <1>4, <1>8
  <1>12. \A m, n \in 1 .. Shown(c) + w : A[m] = A[n] => m = n
    <2>1. \A m, n \in DOMAIN A : A[m] = A[n] => m = n
      BY <1>1 DEF Counted
    <2> HIDE DEF p, A, lo, w, L
    <2>2. QED
      BY ONLY <1>2, <1>5, <2>1
  <1>13. /\ lo \in Nat /\ lo >= 1 /\ Shown(c) \in Nat /\ lo <= Shown(c) + 1
         /\ Shown(c) + w = Shown(c)'
    <2>1. lo = Len(ran[c]) + 1
      OBVIOUS
    <2> HIDE DEF p, A, lo, w, L
    <2>2. QED
      BY ONLY <1>2, <1>5, <1>6, <2>1
  <1>14. Line(main', p, A, lo, Shown(c) + w)
    <2>1. 1 \in {0, 1}
      OBVIOUS
    <2> HIDE DEF p, A, lo, w, L
    <2>2. w \in Nat /\ L \in Nat /\ DOMAIN main \subseteq Int /\ DOMAIN main' = 1 .. L + w
      BY ONLY <1>2, <1>3, <1>4
    <2>3. Line(main, p, A, lo, Shown(c))
      BY ONLY <1>1
    <2>4. QED
      BY ONLY <1>9, <1>10, <1>11, <1>12, <1>13, <2>1, <2>2, <2>3, LineLonger, ZenonT(60)
  <1>15. QED
    BY <1>7, <1>13, <1>14 DEF QueuedFor

LEMMA QueuedListen == ASSUME IInv, ListenToChild PROVE Queued'
  <1>1. PICK c \in Calls, i \in 1 .. MaxProviders : running = <<c, i>>
    BY DEF ListenToChild, IInv, TypeOK, Children
  <1> DEFINE p == <<c, i>>
  <1>2. TypeOK /\ OnCompletion(p, NextProvider) /\ added' = added /\ ran' = ran
    BY <1>1 DEF ListenToChild, IInv
  <1>3. p \in Promise /\ \A d \in Calls : <<d, 0>> \in Promise /\ <<d, 0>> # p
    BY CallAssumption DEF Promise
  <1>4. \A d \in Calls : callbacks'[<<d, 0>>] = callbacks[<<d, 0>>]
    <2>1. callbacks' = callbacks \/ callbacks' = [callbacks EXCEPT ![p] = Append(@, NextProvider)]
      BY <1>2 DEF OnCompletion
    <2>2. QED
      BY <1>2, <1>3, <2>1 DEF TypeOK
  <1>5. CASE main' = main
    BY <1>2, <1>4, <1>5, QueuedSame
  <1>6. CASE main' = Append(main, <<p, NextProvider>>)
    <2>1. <<p, NextProvider>> \in Entries
      BY <1>3 DEF Entries
    <2>2. /\ main \in Seq(Entries) /\ Len(main) \in Nat /\ DOMAIN main = 1 .. Len(main)
          /\ main' \in Seq(Entries) /\ DOMAIN main' = 1 .. Len(main) + 1
          /\ \A k \in 1 .. Len(main) : main'[k] = main[k]
          /\ main'[Len(main) + 1] = <<p, NextProvider>>
      BY <1>2, <1>6, <2>1, AppendProperties, LenProperties DEF TypeOK
    <2>3. ASSUME NEW d \in Calls PROVE QueuedFor(d)'
      <3>1. <<d, 0>> # p /\ callbacks'[<<d, 0>>] = callbacks[<<d, 0>>]
        BY <1>3, <1>4
      <3>2. \A k \in DOMAIN main' : main'[k][1] = <<d, 0>> => k \in DOMAIN main /\ main'[k] = main[k]
        BY <2>2, <3>1
      <3>3. \A k \in DOMAIN main : k \in DOMAIN main' /\ main'[k] = main[k]
        BY <2>2
      <3>4. DOMAIN main' \subseteq Int /\ DOMAIN main \subseteq Int
        BY <2>2
      <3>5. /\ \A k \in DOMAIN main' : main'[k][1] = <<d, 0>> => k + 0 \in DOMAIN main /\ main'[k] = main[k + 0]
            /\ \A k \in DOMAIN main : main[k][1] = <<d, 0>> => k - 0 \in DOMAIN main' /\ main'[k - 0] = main[k]
        BY ONLY <3>2, <3>3, <3>4
      <3>6. QED
        BY <1>2, <3>1, <3>4, <3>5, QueuedKept
    <2>4. QED
      BY <2>3 DEF Queued, QueuedFor
  <1>7. QED
    BY <1>2, <1>5, <1>6 DEF OnCompletion

LEMMA QueuedAnswer == ASSUME IInv, NEW p \in Children, Answer(p) PROVE Queued'
  <1>1. PICK o : SettleAfter(main, p, o)
    BY DEF Answer
  <1>2. TypeOK /\ p \in Promise /\ main \in Seq(Entries) /\ added' = added /\ ran' = ran
    BY DEF IInv, TypeOK, Answer, callVars, Children, Promise
  <1>3. \A d \in Calls : <<d, 0>> \in Promise /\ <<d, 0>> # p
    BY CallAssumption DEF Promise, Children
  <1>4. ~Complete(outcome[p])
    BY DEF Answer, Complete
  <1>5. main' = main \o Dispatched(p) /\ callbacks' = [callbacks EXCEPT ![p] = <<>>]
    BY <1>1, <1>4 DEF SettleAfter
  <1>6. \A d \in Calls : callbacks'[<<d, 0>>] = callbacks[<<d, 0>>]
    BY <1>2, <1>3, <1>5 DEF TypeOK
  <1> DEFINE L == Len(main)  w == Len(callbacks[p])
  <1>7. /\ L \in Nat /\ w \in Nat /\ DOMAIN main = 1 .. L /\ DOMAIN main' = 1 .. L + w
        /\ \A k \in 1 .. L : main'[k] = main[k]
        /\ \A k \in 1 .. w : main'[L + k] = <<p, callbacks[p][k]>>
    BY <1>2, <1>5, SettledQueue
  <1>8. \A k \in DOMAIN main' : k \in DOMAIN main \/ main'[k][1] = p
    <2> HIDE DEF L, w
    <2>1. \A k \in 1 .. L + w : k \in 1 .. L \/ (k - L \in 1 .. w /\ L + (k - L) = k)
      BY <1>7
    <2>2. ASSUME NEW k \in 1 .. w PROVE main'[L + k][1] = p
      BY <1>7
    <2>3. QED
      BY ONLY <1>7, <2>1, <2>2
  <1>9. ASSUME NEW d \in Calls PROVE QueuedFor(d)'
    <2>1. <<d, 0>> # p /\ callbacks'[<<d, 0>>] = callbacks[<<d, 0>>]
      BY <1>3, <1>6
    <2> HIDE DEF L, w
    <2>2. DOMAIN main' \subseteq Int /\ DOMAIN main \subseteq Int
      BY <1>7
    <2>3. /\ \A k \in DOMAIN main' : main'[k][1] = <<d, 0>> => k + 0 \in DOMAIN main /\ main'[k] = main[k + 0]
          /\ \A k \in DOMAIN main : main[k][1] = <<d, 0>> => k - 0 \in DOMAIN main' /\ main'[k - 0] = main[k]
      BY ONLY <1>7, <1>8, <2>1, <2>2
    <2>4. QED
      BY <1>2, <2>1, <2>2, <2>3, QueuedKept
  <1>10. QED
    BY <1>9 DEF Queued, QueuedFor

LEMMA QueuedNext == ASSUME IInv, RunNextProvider PROVE Queued'
  <1>1. /\ main # <<>> /\ Head(main)[2] = NextProvider /\ TypeOK /\ added' = added /\ ran' = ran
    BY DEF RunNextProvider, IInv
  <1>2. PICK c \in Calls, i \in 1 .. MaxProviders : Head(main)[1] = <<c, i>> /\ Latest(c, i)
    BY <1>1, HeadTurn
  <1>3. \A d \in Calls : <<d, 0>> \in Promise /\ Head(main)[1] # <<d, 0>>
    BY <1>2, CallAssumption DEF Promise
  <1> DEFINE L == Len(Tail(main))
  <1>4. /\ Tail(main) \in Seq(Entries) /\ L \in Nat /\ DOMAIN Tail(main) = 1 .. L
        /\ \A k \in 1 .. L : k + 1 \in DOMAIN main /\ Tail(main)[k] = main[k + 1]
        /\ 1 \in DOMAIN main /\ Head(main) = main[1]
        /\ \A k \in DOMAIN main : k # 1 => k - 1 \in 1 .. L /\ Tail(main)[k - 1] = main[k]
    BY <1>1, TailTypes
  <1>5. \A d \in Calls : main[1][1] # <<d, 0>>
    BY <1>3, <1>4
  <1>6. CASE GoesOn(<<c, i>>)
    <2>1. main' = Tail(main) /\ callbacks' = callbacks
      BY <1>2, <1>6 DEF RunNextProvider
    <2>2. ASSUME NEW d \in Calls PROVE QueuedFor(d)'
      <3>1. callbacks'[<<d, 0>>] = callbacks[<<d, 0>>] /\ DOMAIN main' \subseteq Int
        BY <1>4, <2>1
      <3>2. /\ \A k \in DOMAIN main' : k + 1 \in DOMAIN main /\ main'[k] = main[k + 1]
            /\ \A k \in DOMAIN main : main[k][1] = <<d, 0>> => k - 1 \in DOMAIN main' /\ main'[k - 1] = main[k]
        BY <1>4, <1>5, <2>1
      <3>3. QED
        BY <1>1, <3>1, <3>2, QueuedKept
    <2>3. QED
      BY <2>2 DEF Queued, QueuedFor
  <1>7. CASE ~GoesOn(<<c, i>>)
    <2>1. SettleAfter(Tail(main), <<c, 0>>, Typed(c, outcome[<<c, i>>]))
      BY <1>2, <1>7 DEF RunNextProvider
    <2>2. ~Complete(outcome[<<c, 0>>])
      BY <1>2 DEF Latest, Complete
    <2>3. /\ main' = Tail(main) \o Dispatched(<<c, 0>>)
          /\ callbacks' = [callbacks EXCEPT ![<<c, 0>>] = <<>>]
      BY <2>1, <2>2 DEF SettleAfter
    <2>4. /\ callbacks'[<<c, 0>>] = <<>>
          /\ \A d \in Calls : d # c => callbacks'[<<d, 0>>] = callbacks[<<d, 0>>]
      BY <1>1, <1>3, <2>3 DEF TypeOK
    <2>5. QueuedFor(c)'
      BY <1>1, <1>3, <2>3, <2>4, QueuedSettled
    <2> DEFINE w == Len(callbacks[<<c, 0>>])
    <2>6. /\ w \in Nat /\ DOMAIN main' = 1 .. L + w
          /\ \A k \in 1 .. L : main'[k] = Tail(main)[k]
          /\ \A k \in 1 .. w : main'[L + k] = <<<<c, 0>>, callbacks[<<c, 0>>][k]>>
      BY <1>1, <1>3, <1>4, <2>3, SettledQueue
    <2>7. DOMAIN main' \subseteq Int /\ \A k \in DOMAIN main' : k \in 1 .. L \/ main'[k][1] = <<c, 0>>
      <3>1. L \in Nat
        BY <1>4
      <3> HIDE DEF L, w
      <3>2. \A k \in 1 .. L + w : k \in Int /\ (k \in 1 .. L \/ (k - L \in 1 .. w /\ L + (k - L) = k))
        BY <2>6, <3>1
      <3>3. QED
        BY <2>6, <3>2
    <2>8. ASSUME NEW d \in Calls, d # c PROVE QueuedFor(d)'
      <3>1. callbacks'[<<d, 0>>] = callbacks[<<d, 0>>] /\ <<d, 0>> # <<c, 0>>
        BY <2>4, <2>8
      <3> HIDE DEF L, w
      <3>2. /\ \A k \in DOMAIN main' : main'[k][1] = <<d, 0>> => k + 1 \in DOMAIN main /\ main'[k] = main[k + 1]
            /\ \A k \in DOMAIN main : main[k][1] = <<d, 0>> => k - 1 \in DOMAIN main' /\ main'[k - 1] = main[k]
        <4>1. \A k \in 1 .. L : k \in 1 .. L + w
          BY <1>4, <2>6
        <4>2. main[1][1] # <<d, 0>>
          BY <1>5
        <4>3. QED
          BY ONLY <1>4, <2>6, <2>7, <3>1, <4>1, <4>2
      <3>3. QED
        BY <1>1, <2>7, <3>1, <3>2, QueuedKept
    <2>9. QED
      BY <2>5, <2>8 DEF Queued, QueuedFor
  <1>8. QED
    BY <1>6, <1>7

\* A handler added to a call that has no answer waits behind the others.
LEMMA QueuedWaits ==
    ASSUME IInv, NEW c \in Calls, NEW h \in Handlers,
           \A k \in DOMAIN added[c] : added[c][k] # h,
           added'[c] = Append(added[c], h), ran'[c] = ran[c], main' = main,
           callbacks'[<<c, 0>>] = Append(callbacks[<<c, 0>>], h)
    PROVE  QueuedFor(c)'
  <1> DEFINE A == added[c]  B == Append(A, h)  W == callbacks[<<c, 0>>]  V == Append(W, h)
             lo == Len(ran[c]) + 1
  <1>1. TypeOK /\ Counted(c) /\ Line(main, <<c, 0>>, A, lo, Shown(c))
    BY DEF IInv, Queued
  <1>2. /\ <<c, 0>> \in Promise /\ Len(A) \in Nat /\ DOMAIN A = 1 .. Len(A)
        /\ Len(ran[c]) \in Nat /\ DOMAIN ran[c] = 1 .. Len(ran[c])
        /\ Len(W) \in Nat /\ DOMAIN W = 1 .. Len(W)
        /\ Shown(c) = Len(A) - Len(W)
    <2>1. Shown(c) = Len(A) - Len(W)
      BY DEF Shown
    <2>2. QED
      BY <1>1, <2>1, CountTypes
  <1>3. /\ B \in Seq(Handlers) /\ Len(B) = Len(A) + 1 /\ DOMAIN B = 1 .. Len(A) + 1
        /\ \A k \in 1 .. Len(A) : B[k] = A[k] /\ B[Len(A) + 1] = h
        /\ B[Len(A) + 1] = h
    <2>1. A \in Seq(Handlers)
      BY <1>1 DEF TypeOK
    <2>2. QED
      BY <1>2, <2>1, AppendProperties, LenProperties
  <1>4. /\ Len(V) = Len(W) + 1 /\ DOMAIN V = 1 .. Len(W) + 1
        /\ \A k \in 1 .. Len(W) : V[k] = W[k]
        /\ V[Len(W) + 1] = h
    <2>1. W \in Seq(Handlers \cup {NextProvider}) /\ h \in Handlers \cup {NextProvider}
      BY <1>1, <1>2 DEF TypeOK
    <2>2. V \in Seq(Handlers \cup {NextProvider})
      BY <2>1, AppendProperties
    <2>3. QED
      BY <1>2, <2>1, <2>2, AppendProperties, LenProperties
  <1>5. /\ \A m, n \in DOMAIN A : A[m] = A[n] => m = n
        /\ Len(ran[c]) <= Shown(c)
        /\ \A n \in DOMAIN ran[c] : ran[c][n] = A[n]
        /\ \A n \in DOMAIN W : W[n] = A[Shown(c) + n]
    BY <1>1 DEF Counted
  <1>6. \A k \in DOMAIN A : A[k] # h
    OBVIOUS
  <1>7. Shown(c)' = Len(B) - Len(V)
    BY DEF Shown
  <1>8. added'[c] = B /\ ran'[c] = ran[c] /\ callbacks'[<<c, 0>>] = V /\ main' = main
    OBVIOUS
  <1>9. lo = Len(ran[c]) + 1
    OBVIOUS
  <1> HIDE DEF A, B, W, V, lo
  <1>10. Shown(c)' = Shown(c)
    BY <1>2, <1>3, <1>4, <1>7
  <1>11. \A m, n \in DOMAIN B : B[m] = B[n] => m = n
    <2>1. \A m \in DOMAIN B : m \in 1 .. Len(A) \/ m = Len(A) + 1
      BY <1>2, <1>3
    <2>2. QED
      BY ONLY <1>2, <1>3, <1>5, <1>6, <2>1
  <1>12. \A n \in 1 .. Shown(c) : n \in 1 .. Len(A) /\ A[n] = B[n]
    BY <1>2, <1>3
  <1>13. \A n \in DOMAIN ran[c] : ran[c][n] = B[n]
    <2>1. \A n \in DOMAIN ran[c] : n \in 1 .. Shown(c)
      BY <1>2, <1>5
    <2>2. QED
      BY ONLY <1>5, <1>12, <2>1
  <1>14. \A n \in DOMAIN V : V[n] = B[Shown(c) + n]
    <2>1. \A n \in DOMAIN V : n \in 1 .. Len(W) \/ n = Len(W) + 1
      BY ONLY <1>2, <1>4
    <2>2. ASSUME NEW n \in 1 .. Len(W) PROVE V[n] = B[Shown(c) + n]
      <3>1. Shown(c) + n \in 1 .. Len(A)
        BY <1>2, <1>5, <2>2
      <3>2. V[n] = W[n] /\ W[n] = A[Shown(c) + n]
        BY <1>2, <1>4, <1>5
      <3>3. QED
        BY <1>3, <3>1, <3>2
    <2>3. Shown(c) + (Len(W) + 1) = Len(A) + 1
      BY <1>2
    <2>4. QED
      BY <1>3, <1>4, <2>1, <2>2, <2>3
  <1>15. Counted(c)'
    <2>1. Len(ran'[c]) = Len(ran[c]) /\ DOMAIN ran'[c] = DOMAIN ran[c]
      BY <1>8
    <2>2. QED
      BY ONLY <1>5, <1>8, <1>10, <1>11, <1>13, <1>14, <2>1 DEF Counted
  <1>16. Line(main, <<c, 0>>, B, lo, Shown(c))
    <2>1. lo \in Int /\ Shown(c) \in Int /\ \A n \in lo .. Shown(c) : n \in 1 .. Shown(c)
      BY <1>2, <1>5, <1>9
    <2>2. \A n \in lo .. Shown(c) : A[n] = B[n]
      BY <1>12, <2>1
    <2>3. QED
      BY ONLY <1>1, <2>1, <2>2, LineSame
  <1>17. QED
    BY <1>8, <1>9, <1>10, <1>15, <1>16 DEF QueuedFor

\* A handler added to a call that was answered goes to the end of the queue.
LEMMA QueuedDue ==
    ASSUME IInv, NEW c \in Calls, NEW h \in Handlers, callbacks[<<c, 0>>] = <<>>,
           \A k \in DOMAIN added[c] : added[c][k] # h,
           added'[c] = Append(added[c], h), ran'[c] = ran[c],
           main' = Append(main, <<<<c, 0>>, h>>), callbacks'[<<c, 0>>] = <<>>
    PROVE  QueuedFor(c)'
  <1> DEFINE A == added[c]  B == Append(A, h)  lo == Len(ran[c]) + 1  p == <<c, 0>>
             L == Len(main)
  <1>1. TypeOK /\ Counted(c) /\ Line(main, p, A, lo, Shown(c))
    BY DEF IInv, Queued
  <1>2. /\ p \in Promise /\ Len(A) \in Nat /\ DOMAIN A = 1 .. Len(A)
        /\ Len(ran[c]) \in Nat /\ DOMAIN ran[c] = 1 .. Len(ran[c])
        /\ Shown(c) = Len(A) /\ L \in Nat /\ DOMAIN main = 1 .. L
    <2>1. Shown(c) = Len(A) - 0
      BY DEF Shown
    <2>2. QED
      BY <1>1, <2>1, CountTypes
  <1>3. /\ B \in Seq(Handlers) /\ Len(B) = Len(A) + 1 /\ DOMAIN B = 1 .. Len(A) + 1
        /\ \A k \in 1 .. Len(A) : B[k] = A[k]
        /\ B[Len(A) + 1] = h
    <2>1. A \in Seq(Handlers)
      BY <1>1 DEF TypeOK
    <2>2. QED
      BY <1>2, <2>1, AppendProperties, LenProperties
  <1>4. /\ DOMAIN main' = 1 .. L + 1 /\ \A k \in 1 .. L : main'[k] = main[k]
        /\ main'[L + 1] = <<p, h>>
    <2>1. main \in Seq(Entries) /\ <<p, h>> \in Entries
      BY <1>1, <1>2 DEF TypeOK, Entries
    <2>2. Append(main, <<p, h>>) \in Seq(Entries)
      BY <2>1, AppendProperties
    <2>3. QED
      BY <1>2, <2>1, <2>2, AppendProperties, LenProperties
  <1>5. /\ \A m, n \in DOMAIN A : A[m] = A[n] => m = n
        /\ Len(ran[c]) <= Shown(c)
        /\ \A n \in DOMAIN ran[c] : ran[c][n] = A[n]
    BY <1>1 DEF Counted
  <1>6. \A k \in DOMAIN A : A[k] # h
    OBVIOUS
  <1>7. Shown(c)' = Len(B) - 0
    BY DEF Shown
  <1>8. added'[c] = B /\ ran'[c] = ran[c] /\ DOMAIN callbacks'[<<c, 0>>] = {}
    OBVIOUS
  <1>9. lo = Len(ran[c]) + 1
    OBVIOUS
  <1> HIDE DEF A, B, lo, p, L
  <1>10. Shown(c)' = Shown(c) + 1
    BY <1>2, <1>3, <1>7
  <1>11. \A m, n \in DOMAIN B : B[m] = B[n] => m = n
    <2>1. \A m \in DOMAIN B : m \in 1 .. Len(A) \/ m = Len(A) + 1
      BY <1>2, <1>3
    <2>2. QED
      BY ONLY <1>2, <1>3, <1>5, <1>6, <2>1
  <1>12. \A n \in 1 .. Shown(c) : A[n] = B[n]
    BY <1>2, <1>3
  <1>13. \A n \in DOMAIN ran[c] : ran[c][n] = B[n]
    <2>1. \A n \in DOMAIN ran[c] : n \in 1 .. Shown(c)
      BY <1>2, <1>5
    <2>2. QED
      BY ONLY <1>5, <1>12, <2>1
  <1>14. Counted(c)'
    <2>1. Len(ran'[c]) = Len(ran[c]) /\ DOMAIN ran'[c] = DOMAIN ran[c]
      BY <1>8
    <2>2. Len(ran[c]) <= Shown(c)'
      BY <1>2, <1>5, <1>10
    <2>3. QED
      BY ONLY <1>8, <1>11, <1>13, <2>1, <2>2 DEF Counted
  <1>15. lo \in Nat /\ lo >= 1 /\ Shown(c) \in Nat /\ lo <= Shown(c) + 1
    BY <1>2, <1>5, <1>9
  <1>16. Line(main, p, B, lo, Shown(c))
    <2>1. lo \in Int /\ Shown(c) \in Int /\ \A n \in lo .. Shown(c) : n \in 1 .. Shown(c)
      BY <1>15
    <2>2. \A n \in lo .. Shown(c) : A[n] = B[n]
      BY <1>12, <2>1
    <2>3. QED
      BY ONLY <1>1, <2>1, <2>2, LineSame
  <1>17. Line(main', p, B, lo, Shown(c) + 1)
    <2>1. 1 \in Nat /\ 0 \in {0, 1} /\ L \in Nat /\ DOMAIN main \subseteq Int
      BY <1>2
    <2>2. /\ \A k \in 1 .. L : k + 0 \in DOMAIN main /\ main'[k] = main[k + 0]
          /\ \A k \in DOMAIN main : main[k][1] = p => k - 0 \in 1 .. L /\ main'[k - 0] = main[k]
      BY <1>2, <1>4
    <2>3. \A k \in 1 .. 1 : main'[L + k] = <<p, B[Shown(c) + k]>>
      BY <1>2, <1>3, <1>4
    <2>4. \A m, n \in 1 .. Shown(c) + 1 : B[m] = B[n] => m = n
      BY <1>2, <1>3, <1>11
    <2>5. DOMAIN main' = 1 .. L + 1
      BY <1>4
    <2>6. QED
      BY ONLY <1>15, <1>16, <2>1, <2>2, <2>3, <2>4, <2>5, LineLonger, ZenonT(60)
  <1>18. QED
    BY <1>8, <1>9, <1>10, <1>14, <1>17 DEF QueuedFor, p

LEMMA QueuedAdd ==
    ASSUME IInv, NEW c \in Calls, NEW h \in Handlers, AddHandler(c, h)
    PROVE  Queued'
  <1> DEFINE p == <<c, 0>>
  <1>1. /\ TypeOK /\ Waiting /\ OnCompletion(p, h) /\ outcome[p] # Unborn /\ ran' = ran
        /\ \A k \in DOMAIN added[c] : added[c][k] # h
        /\ added' = [added EXCEPT ![c] = Append(@, h)]
    BY DEF AddHandler, IInv
  <1>2. /\ \A d \in Calls : <<d, 0>> \in Promise
        /\ added'[c] = Append(added[c], h) /\ \A d \in Calls : d # c => added'[d] = added[d]
    BY <1>1, CallAssumption DEF TypeOK, Promise
  <1>3. CASE Complete(outcome[p])
    <2>1. main' = Append(main, <<p, h>>) /\ callbacks' = callbacks
      BY <1>1, <1>3 DEF OnCompletion
    <2>2. callbacks[p] = <<>> /\ callbacks'[p] = <<>>
      BY <1>1, <1>2, <1>3, <2>1 DEF Waiting, Complete
    <2>3. QueuedFor(c)'
      BY <1>1, <1>2, <2>1, <2>2, QueuedDue
    <2>4. /\ Len(main) \in Nat /\ DOMAIN main = 1 .. Len(main) /\ DOMAIN main' = 1 .. Len(main) + 1
          /\ \A k \in 1 .. Len(main) : main'[k] = main[k]
          /\ main'[Len(main) + 1] = <<p, h>>
      <3>1. main \in Seq(Entries) /\ <<p, h>> \in Entries
        BY <1>1, <1>2 DEF TypeOK, Entries
      <3>2. Append(main, <<p, h>>) \in Seq(Entries)
        BY <3>1, AppendProperties
      <3>3. QED
        BY <2>1, <3>1, <3>2, AppendProperties, LenProperties
    <2>5. ASSUME NEW d \in Calls, d # c PROVE QueuedFor(d)'
      <3>1. <<d, 0>> # p /\ callbacks'[<<d, 0>>] = callbacks[<<d, 0>>] /\ added'[d] = added[d]
        BY <1>2, <2>1, <2>5
      <3>2. DOMAIN main' \subseteq Int /\ DOMAIN main \subseteq Int
        BY <2>4
      <3>3. \A k \in DOMAIN main' : main'[k][1] = <<d, 0>> => k \in DOMAIN main /\ main'[k] = main[k]
        BY <2>4, <3>1
      <3>4. \A k \in DOMAIN main : k \in DOMAIN main' /\ main'[k] = main[k]
        BY <2>4
      <3>5. /\ \A k \in DOMAIN main' : main'[k][1] = <<d, 0>> => k + 0 \in DOMAIN main /\ main'[k] = main[k + 0]
            /\ \A k \in DOMAIN main : main[k][1] = <<d, 0>> => k - 0 \in DOMAIN main' /\ main'[k - 0] = main[k]
        BY ONLY <3>2, <3>3, <3>4
      <3>6. QED
        BY <1>1, <3>1, <3>2, <3>5, QueuedKept
    <2>6. QED
      BY <2>3, <2>5 DEF Queued, QueuedFor
  <1>4. CASE ~Complete(outcome[p])
    <2>1. main' = main /\ callbacks' = [callbacks EXCEPT ![p] = Append(@, h)]
      BY <1>1, <1>4 DEF OnCompletion
    <2>2. /\ callbacks'[p] = Append(callbacks[p], h)
          /\ \A d \in Calls : d # c => callbacks'[<<d, 0>>] = callbacks[<<d, 0>>]
      BY <1>1, <1>2, <2>1 DEF TypeOK
    <2>3. QueuedFor(c)'
      BY <1>1, <1>2, <2>1, <2>2, QueuedWaits
    <2>4. DOMAIN main \subseteq Int
      BY <1>1, LenProperties DEF TypeOK
    <2>5. ASSUME NEW d \in Calls, d # c PROVE QueuedFor(d)'
      <3>1. callbacks'[<<d, 0>>] = callbacks[<<d, 0>>] /\ added'[d] = added[d] /\ DOMAIN main' \subseteq Int
        BY <1>2, <2>1, <2>2, <2>4, <2>5
      <3>2. /\ \A k \in DOMAIN main' : k + 0 \in DOMAIN main /\ main'[k] = main[k + 0]
            /\ \A k \in DOMAIN main : k - 0 \in DOMAIN main' /\ main'[k - 0] = main[k]
        BY <2>1, <2>4
      <3>3. QED
        BY <1>1, <3>1, <3>2, QueuedKept
    <2>6. QED
      BY <2>3, <2>5 DEF Queued, QueuedFor
  <1>5. QED
    BY <1>3, <1>4

LEMMA QueuedRun == ASSUME IInv, RunHandler PROVE Queued'
  <1>1. /\ TypeOK /\ OneTurn /\ main # <<>> /\ Head(main)[2] \in Handlers
        /\ main' = Tail(main) /\ callbacks' = callbacks /\ added' = added
        /\ ran' = [ran EXCEPT ![Head(main)[1][1]] = Append(@, Head(main)[2])]
    BY DEF RunHandler, IInv
  <1> DEFINE L == Len(Tail(main))
  <1>2. /\ L \in Nat /\ DOMAIN Tail(main) = 1 .. L
        /\ \A k \in 1 .. L : k + 1 \in DOMAIN main /\ Tail(main)[k] = main[k + 1]
        /\ 1 \in DOMAIN main /\ Head(main) = main[1]
        /\ \A k \in DOMAIN main : k # 1 => k - 1 \in 1 .. L /\ Tail(main)[k - 1] = main[k]
    BY <1>1, TailTypes
  <1>3. main[1] \in Entries
    BY <1>1, <1>2, ElementOfSeq, LenProperties DEF TypeOK
  <1>4. PICK c \in Calls, i \in 0 .. MaxProviders : main[1][1] = <<c, i>>
    BY <1>3 DEF Entries, Promise
  <1>5. i = 0
    <2>1. i \in 1 .. MaxProviders => main[1][2] = NextProvider
      BY <1>1, <1>2, <1>4 DEF OneTurn, InQueue
    <2>2. main[1][2] # NextProvider
      BY <1>1, <1>2, CallAssumption
    <2>3. i = 0 \/ i \in 1 .. MaxProviders
      BY CallAssumption
    <2>4. QED
      BY <2>1, <2>2, <2>3
  <1> DEFINE p == <<c, 0>>  A == added[c]  R == ran[c]  h == main[1][2]  hi == Shown(c)
  <1>6. main[1][1] = p /\ Head(main)[1][1] = c /\ Head(main)[2] = h
    BY <1>2, <1>4, <1>5
  <1>7. ran'[c] = Append(R, h) /\ \A d \in Calls : d # c => ran'[d] = ran[d]
    BY <1>1, <1>6 DEF TypeOK
  <1>8. Counted(c) /\ Line(main, p, A, Len(R) + 1, hi)
    BY DEF IInv, Queued
  <1>9. /\ Len(A) \in Nat /\ DOMAIN A = 1 .. Len(A) /\ Len(R) \in Nat /\ DOMAIN R = 1 .. Len(R)
        /\ hi \in Int /\ hi <= Len(A) /\ DOMAIN main = 1 .. Len(main) /\ Len(main) \in Nat
    BY <1>1, CountTypes
  <1>10. /\ \A m, n \in DOMAIN A : A[m] = A[n] => m = n
         /\ Len(R) <= hi
         /\ \A n \in DOMAIN R : R[n] = A[n]
         /\ \A n \in DOMAIN callbacks[p] : callbacks[p][n] = A[hi + n]
    BY <1>8 DEF Counted
  <1>11. /\ Len(R) + 1 <= hi /\ h = A[Len(R) + 1]
         /\ Line(main', p, A, (Len(R) + 1) + 1, hi)
    <2>1. main' = Tail(main)
      BY <1>1
    <2>2. DOMAIN main \subseteq Nat \ {0} /\ DOMAIN main' \subseteq Int
      BY <1>2, <1>9, <2>1
    <2>3. /\ \A k \in DOMAIN main' : k + 1 \in DOMAIN main /\ k # 0 /\ main'[k] = main[k + 1]
          /\ \A k \in DOMAIN main : k # 1 => k - 1 \in DOMAIN main'
      BY <1>2, <2>1
    <2>4. h = main[1][2]
      OBVIOUS
    <2> HIDE DEF p, A, R, h, hi, L
    <2>5. \A m, n \in 1 .. hi : A[m] = A[n] => m = n
      <3>1. \A m \in 1 .. hi : m \in DOMAIN A
        BY <1>9
      <3>2. QED
        BY ONLY <1>10, <3>1
    <2> DEFINE lo == Len(R) + 1
    <2>6. lo \in Nat /\ lo >= 1 /\ hi \in Int
      BY <1>9
    <2>7. 1 \in DOMAIN main /\ main[1][1] = p
      BY <1>2, <1>6
    <2>8. Line(main, p, A, lo, hi)
      BY <1>8
    <2>9. lo <= hi /\ main[1][2] = A[lo] /\ Line(main', p, A, lo + 1, hi)
      <3> HIDE DEF lo
      <3> QED
        BY ONLY <2>2, <2>3, <2>5, <2>6, <2>7, <2>8, LineHead, SMTT(60)
    <2>10. QED
      BY ONLY <2>4, <2>9
  <1>12. /\ Len(ran'[c]) = Len(R) + 1 /\ DOMAIN ran'[c] = 1 .. Len(R) + 1
         /\ \A n \in 1 .. Len(R) : ran'[c][n] = R[n]
         /\ ran'[c][Len(R) + 1] = h
    <2>1. R \in Seq(Handlers) /\ h \in Handlers
      BY <1>1, <1>6 DEF TypeOK
    <2>2. Append(R, h) \in Seq(Handlers)
      BY <2>1, AppendProperties
    <2>3. QED
      BY <1>7, <1>9, <2>1, <2>2, AppendProperties, LenProperties
  <1>13. Shown(c)' = hi /\ added'[c] = A /\ callbacks'[p] = callbacks[p]
    BY <1>1 DEF Shown
  <1>14. QueuedFor(c)'
    <2>1. p = <<c, 0>>
      OBVIOUS
    <2> HIDE DEF p, A, R, h, hi, L
    <2>2. \A n \in DOMAIN ran'[c] : ran'[c][n] = A[n]
      <3>1. \A n \in 1 .. Len(R) + 1 : n \in 1 .. Len(R) \/ n = Len(R) + 1
        BY <1>9
      <3>2. QED
        BY ONLY <1>9, <1>10, <1>11, <1>12, <3>1
    <2>3. Counted(c)'
      BY ONLY <1>10, <1>11, <1>12, <1>13, <2>1, <2>2 DEF Counted
    <2>4. QED
      BY ONLY <1>11, <1>12, <1>13, <2>1, <2>3 DEF QueuedFor
  <1>15. ASSUME NEW d \in Calls, d # c PROVE QueuedFor(d)'
    <2>1. /\ callbacks'[<<d, 0>>] = callbacks[<<d, 0>>] /\ added'[d] = added[d] /\ ran'[d] = ran[d]
          /\ main[1][1] # <<d, 0>>
      <3>1. callbacks' = callbacks /\ added' = added
        BY <1>1
      <3>2. ran'[d] = ran[d]
        <4>1. ran'[c] = Append(R, h) /\ \A e \in Calls : e # c => ran'[e] = ran[e]
          BY <1>7
        <4>2. QED
          BY ONLY <4>1, <1>15, ZenonT(60)
      <3>3. main[1][1] # <<d, 0>>
        <4>1. main[1][1] = <<c, 0>>
          BY <1>6
        <4>2. QED
          BY ONLY <4>1, <1>15
      <3>4. QED
        BY ONLY <3>1, <3>2, <3>3
    <2>2. DOMAIN main' \subseteq Int
      BY <1>1, <1>2
    <2>3. /\ \A k \in DOMAIN main' : k + 1 \in DOMAIN main /\ main'[k] = main[k + 1]
          /\ \A k \in DOMAIN main : main[k][1] = <<d, 0>> => k - 1 \in DOMAIN main' /\ main'[k - 1] = main[k]
      BY <1>1, <1>2, <2>1
    <2>4. QED
      BY <1>1, <2>1, <2>2, <2>3, QueuedKept
  <1>16. QED
    BY <1>14, <1>15 DEF Queued, QueuedFor

LEMMA QueuedStep == ASSUME IInv, [Next]_vars PROVE Queued'
  <1> USE DEF promiseVars
  <1>1. ASSUME NEW p \in Providers, AddProvider(p) PROVE Queued'
    BY <1>1, QueuedSame DEF AddProvider
  <1>2. ASSUME NEW i \in 1 .. MaxProviders, RemoveProviderAtIndex(i) PROVE Queued'
    BY <1>2, QueuedSame DEF RemoveProviderAtIndex
  <1>3. ASSUME NEW c \in Calls, StartCall(c) PROVE Queued'
    BY <1>3, QueuedSame DEF StartCall
  <1>4. CASE UNCHANGED vars
    BY <1>4, QueuedSame DEF vars
  <1>5. QED
    BY <1>1, <1>2, <1>3, <1>4, QueuedListen, QueuedAnswer, QueuedNext, QueuedAdd, QueuedRun
       DEF Next

\* Every state of the chain has the invariant: the turns of a call, the place
\* of each child's handler and the line of a call's own handlers in the queue.
THEOREM Inductive == Spec => []IInv
  <1>1. ASSUME IInv, [Next]_vars PROVE IInv'
    BY <1>1, TypeStep, TurnsStep, QueuedStep DEF IInv
  <1>2. QED
    BY <1>1, InitIInv, PTL DEF Spec

-----------------------------------------------------------------------------
(* What the chain promises.                                                *)

\* The promises, the main queue and the calls hold what Promise.m and
\* executeOperation: put into them.
THEOREM TypeCorrect == Spec => []TypeOK
  <1>1. IInv => TypeOK
    BY DEF IInv
  <1>2. QED
    BY <1>1, Inductive, PTL

\* executeOperation: asks the next provider from the handler of the previous
\* one, so that one has failed, whatever answers late and however the list of
\* providers changes.
THEOREM InTurn == Spec => []AskedInTurn
  <1>1. IInv => AskedInTurn
    <2> SUFFICES ASSUME IInv, NEW c \in Calls, NEW i \in 1 .. MaxProviders - 1,
                        outcome[<<c, i + 1>>] # Unborn
                 PROVE  Failed(outcome[<<c, i>>])
      BY DEF AskedInTurn
    <2>1. i \in 1 .. MaxProviders /\ i + 1 \in 1 .. MaxProviders /\ i < i + 1
      BY CallAssumption
    <2>2. QED
      BY <2>1 DEF IInv, Turns
  <1>2. QED
    BY <1>1, Inductive, PTL

\* Promise.m calls the handlers of a promise in the order in which
\* onCompletion: took them, none twice, those of before and those of after the
\* answer alike.
THEOREM InOrder == Spec => []HandlersInOrder
  <1>1. IInv => HandlersInOrder
    <2> SUFFICES ASSUME IInv, NEW c \in Calls PROVE IsPrefix(ran[c], added[c])
      BY DEF HandlersInOrder
    <2>1. TypeOK /\ Counted(c)
      BY DEF IInv, Queued
    <2>2. /\ Len(added[c]) \in Nat /\ Len(ran[c]) \in Nat
          /\ DOMAIN ran[c] = 1 .. Len(ran[c]) /\ Shown(c) \in Int /\ Shown(c) <= Len(added[c])
      BY <2>1, CountTypes
    <2>3. Len(ran[c]) <= Len(added[c]) /\ \A n \in 1 .. Len(ran[c]) : ran[c][n] = added[c][n]
      BY <2>1, <2>2 DEF Counted
    <2>4. ran[c] \in Seq(Handlers) /\ added[c] \in Seq(Handlers)
      BY <2>1 DEF TypeOK
    <2>5. QED
      BY <2>2, <2>3, <2>4 DEF IsPrefix
  <1>2. QED
    BY <1>1, Inductive, PTL

-----------------------------------------------------------------------------
(* Every step is one of FirstAnswer.                                       *)

\* The providers asked are those up to the n-th.
LEMMA BornTo ==
    ASSUME NEW O, NEW c, NEW n \in 0 .. MaxProviders,
           \A i \in 1 .. MaxProviders : O[<<c, i>>] # Unborn <=> i <= n
    PROVE  LET born == {i \in 1 .. MaxProviders : O[<<c, i>>] # Unborn}
           IN  (born = {} <=> n = 0) /\ Cardinality(born) = n
  <1> USE CallAssumption
  <1> DEFINE born == {i \in 1 .. MaxProviders : O[<<c, i>>] # Unborn}
  <1>1. born = 1 .. n
    OBVIOUS
  <1>2. Cardinality(1 .. n) = n
    BY FS_Interval
  <1>3. 1 .. n = {} <=> n = 0
    OBVIOUS
  <1>4. QED
    BY <1>1, <1>2, <1>3

\* A call whose providers were asked up to the n-th.
LEMMA FailuresTo ==
    ASSUME NEW c \in Calls, NEW n \in 0 .. MaxProviders,
           \A i \in 1 .. MaxProviders : outcome[<<c, i>>] # Unborn <=> i <= n
    PROVE  HandledFailures(c) =
              IF n = 0 THEN 0
              ELSE IF outcome[<<c, 0>>] = Error(Len(asked[c])) /\ Failed(outcome[<<c, Len(asked[c])>>])
                   THEN n ELSE n - 1
  BY BornTo DEF HandledFailures

LEMMA FailuresToNext ==
    ASSUME NEW c \in Calls, NEW n \in 0 .. MaxProviders,
           \A i \in 1 .. MaxProviders : outcome'[<<c, i>>] # Unborn <=> i <= n
    PROVE  HandledFailures(c)' =
              IF n = 0 THEN 0
              ELSE IF outcome'[<<c, 0>>] = Error(Len(asked'[c])) /\ Failed(outcome'[<<c, Len(asked'[c])>>])
                   THEN n ELSE n - 1
  BY BornTo DEF HandledFailures

\* A call with none of its promises changed.
LEMMA FailuresKept ==
    ASSUME TypeOK, NEW c \in Calls, asked'[c] = asked[c], Len(asked[c]) <= MaxProviders,
           \A i \in 0 .. MaxProviders : outcome'[<<c, i>>] = outcome[<<c, i>>]
    PROVE  HandledFailures(c)' = HandledFailures(c)
  <1>1. Len(asked[c]) \in 0 .. MaxProviders /\ \A i \in 1 .. MaxProviders : i \in 0 .. MaxProviders
    BY CallAssumption, LenProperties DEF TypeOK
  <1>2. {i \in 1 .. MaxProviders : outcome'[<<c, i>>] # Unborn}
        = {i \in 1 .. MaxProviders : outcome[<<c, i>>] # Unborn}
    BY <1>1
  <1>3. /\ outcome'[<<c, 0>>] = outcome[<<c, 0>>]
        /\ outcome'[<<c, Len(asked[c])>>] = outcome[<<c, Len(asked[c])>>]
    BY <1>1, CallAssumption
  <1>4. QED
    BY <1>2, <1>3 DEF HandledFailures

LEMMA SameAnswers ==
    ASSUME IInv, asked' = asked, outcome' = outcome
    PROVE  /\ [c \in Calls |-> HandledFailures(c)]' = [c \in Calls |-> HandledFailures(c)]
           /\ [c \in Calls |-> outcome[<<c, 0>>]]' = [c \in Calls |-> outcome[<<c, 0>>]]
  <1>1. ASSUME NEW c \in Calls PROVE HandledFailures(c)' = HandledFailures(c)
    BY FailuresKept DEF IInv, Asked
  <1>2. QED
    BY <1>1

LEMMA ListStep ==
    ASSUME IInv, TypeOK', asked' = asked, outcome' = outcome
    PROVE  First!ChangeList
  <1>1. ordered' \in UNION {[1 .. n -> Providers] : n \in 0 .. MaxProviders}
    <2>1. ordered' \in Seq(Providers) /\ Len(ordered') <= MaxProviders
      BY DEF TypeOK
    <2>2. Len(ordered') \in 0 .. MaxProviders /\ ordered' \in [1 .. Len(ordered') -> Providers]
      BY <2>1, CallAssumption, LenProperties
    <2>3. QED
      BY <2>2
  <1>2. QED
    BY <1>1, SameAnswers DEF First!ChangeList

LEMMA AnswerStep ==
    ASSUME IInv, NEW p \in Children, Answer(p)
    PROVE  UNCHANGED First!vars
  <1> USE CallAssumption
  <1> TypeOK /\ Asked
    BY DEF IInv
  <1>1. PICK c \in Calls, i \in 1 .. MaxProviders : p = <<c, i>>
    BY DEF Children
  <1>2. PICK o \in {Value(i), Null(i), Error(i)} : SettleAfter(main, p, o)
    BY <1>1 DEF Answer
  <1>3. outcome[p] = Pending /\ ~Complete(outcome[p]) /\ o # Unborn /\ Pending # Unborn /\ p \in Promise
    BY <1>1, <1>2 DEF Answer, Complete, Promise, Value, Null, Error, Pending, Unborn, Mark
  <1>4. outcome' = [outcome EXCEPT ![p] = o] /\ asked' = asked /\ ordered' = ordered
    BY <1>2, <1>3 DEF SettleAfter, Answer, callVars
  <1>5. /\ outcome'[p] = o
        /\ \A d \in Calls, j \in 0 .. MaxProviders : <<d, j>> # p => outcome'[<<d, j>>] = outcome[<<d, j>>]
    BY <1>3, <1>4 DEF TypeOK, Promise
  <1>6. \A d \in Calls : outcome'[<<d, 0>>] = outcome[<<d, 0>>]
    BY <1>1, <1>5
  <1>7. \A d \in Calls : Len(asked[d]) <= MaxProviders
    BY DEF Asked
  <1>8. ASSUME NEW d \in Calls PROVE HandledFailures(d)' = HandledFailures(d)
    <2>1. CASE d # c
      <3>1. \A j \in 0 .. MaxProviders : outcome'[<<d, j>>] = outcome[<<d, j>>]
        BY <1>1, <1>5, <2>1
      <3>2. QED
        BY <1>4, <1>7, <3>1, FailuresKept
    <2>2. CASE d = c
      <3>1. \A j \in 1 .. MaxProviders : outcome'[<<c, j>>] # Unborn <=> outcome[<<c, j>>] # Unborn
        BY <1>1, <1>3, <1>5
      <3>2. {j \in 1 .. MaxProviders : outcome'[<<c, j>>] # Unborn}
            = {j \in 1 .. MaxProviders : outcome[<<c, j>>] # Unborn}
        BY <3>1
      <3>3. Len(asked[c]) \in 0 .. MaxProviders
        BY <1>7, LenProperties DEF TypeOK
      <3>4. outcome[<<c, 0>>] = Error(Len(asked[c])) => Complete(outcome[<<c, 0>>])
        BY DEF Complete, Error, Pending, Unborn, Mark
      <3>5. outcome[<<c, 0>>] = Error(Len(asked[c])) =>
              outcome'[<<c, Len(asked[c])>>] = outcome[<<c, Len(asked[c])>>]
        BY <1>1, <1>3, <1>5, <3>3, <3>4 DEF Asked
      <3>6. QED
        BY <1>4, <1>6, <2>2, <3>2, <3>5 DEF HandledFailures
    <2>3. QED
      BY <2>1, <2>2
  <1>9. QED
    BY <1>4, <1>6, <1>8 DEF First!vars

LEMMA StartStep ==
    ASSUME IInv, NEW c \in Calls, StartCall(c)
    PROVE  First!Begin(c)
  <1> USE CallAssumption
  <1> TypeOK /\ Asked
    BY DEF IInv
  <1>1. /\ outcome[<<c, 0>>] = Unborn /\ ordered' = ordered
        /\ asked' = [asked EXCEPT ![c] = ordered]
        /\ ordered \in Seq(Providers) /\ Len(ordered) <= MaxProviders
    BY DEF StartCall, TypeOK
  <1>2. \A i \in 1 .. MaxProviders : outcome[<<c, i>>] = Unborn
    BY <1>1 DEF Asked
  <1>3. HandledFailures(c) = 0
    <2>1. 0 \in 0 .. MaxProviders /\ \A i \in 1 .. MaxProviders : outcome[<<c, i>>] # Unborn <=> i <= 0
      BY <1>2
    <2>2. QED
      BY ONLY <2>1, FailuresTo
  <1>4. \E n \in {0, 1}, o \in {Pending, NoProviders} :
           /\ o = IF ordered = <<>> THEN NoProviders ELSE Pending
           /\ n = 0 <=> ordered = <<>>
           /\ outcome'[<<c, 0>>] = o
           /\ \A i \in 1 .. MaxProviders : outcome'[<<c, i>>] # Unborn <=> i <= n
           /\ \A d \in Calls, j \in 0 .. MaxProviders : d # c => outcome'[<<d, j>>] = outcome[<<d, j>>]
    <2>1. <<c, 0>> \in Promise /\ <<c, 1>> \in Promise
      BY DEF Promise
    <2>2. CASE ordered = <<>>
      <3>1. outcome' = [outcome EXCEPT ![<<c, 0>>] = NoProviders]
        BY <2>2 DEF StartCall
      <3>2. /\ outcome'[<<c, 0>>] = NoProviders
            /\ \A i \in 1 .. MaxProviders : outcome'[<<c, i>>] = Unborn
            /\ \A d \in Calls, j \in 0 .. MaxProviders : d # c => outcome'[<<d, j>>] = outcome[<<d, j>>]
        BY <1>2, <2>1, <3>1 DEF TypeOK, Promise
      <3>3. QED
        BY <2>2, <3>2
    <2>3. CASE ordered # <<>>
      <3>1. PICK a \in Asks(<<c, 1>>) :
              outcome' = [outcome EXCEPT ![<<c, 0>>] = Pending, ![<<c, 1>>] = a]
        BY <2>3 DEF StartCall
      <3>2. a # Unborn
        BY DEF Asks, Pending, Error, Unborn, Mark
      <3>3. /\ outcome'[<<c, 0>>] = Pending
            /\ \A i \in 1 .. MaxProviders : outcome'[<<c, i>>] # Unborn <=> i <= 1
            /\ \A d \in Calls, j \in 0 .. MaxProviders : d # c => outcome'[<<d, j>>] = outcome[<<d, j>>]
        BY <1>2, <2>1, <3>1, <3>2, SMTT(60) DEF TypeOK, Promise
      <3>4. QED
        BY <2>3, <3>3
    <2>4. QED
      BY <2>2, <2>3
  <1>5. PICK n \in {0, 1}, o \in {Pending, NoProviders} :
           /\ o = IF ordered = <<>> THEN NoProviders ELSE Pending
           /\ n = 0 <=> ordered = <<>>
           /\ outcome'[<<c, 0>>] = o
           /\ \A i \in 1 .. MaxProviders : outcome'[<<c, i>>] # Unborn <=> i <= n
           /\ \A d \in Calls, j \in 0 .. MaxProviders : d # c => outcome'[<<d, j>>] = outcome[<<d, j>>]
    BY <1>4
  <1>6. HandledFailures(c)' = 0
    <2>1. n = 1 => outcome'[<<c, 0>>] # Error(Len(asked'[c]))
      BY <1>5 DEF Pending, Error, Mark
    <2>2. n \in 0 .. MaxProviders
      OBVIOUS
    <2>3. \A i \in 1 .. MaxProviders : outcome'[<<c, i>>] # Unborn <=> i <= n
      BY <1>5
    <2>4. HandledFailures(c)' = IF n = 0 THEN 0
             ELSE IF outcome'[<<c, 0>>] = Error(Len(asked'[c])) /\ Failed(outcome'[<<c, Len(asked'[c])>>])
                  THEN n ELSE n - 1
      BY ONLY <2>2, <2>3, FailuresToNext
    <2>5. QED
      BY ONLY <2>1, <2>4
  <1>7. \A d \in Calls : d # c => asked'[d] = asked[d] /\ Len(asked[d]) <= MaxProviders
    BY <1>1 DEF TypeOK, Asked
  <1>8. \A d \in Calls : HandledFailures(d)' = HandledFailures(d)
    <2>1. ASSUME NEW d \in Calls, d # c PROVE HandledFailures(d)' = HandledFailures(d)
      BY <1>5, <1>7, <2>1, FailuresKept
    <2>2. QED
      BY <1>3, <1>6, <2>1
  <1>9. [d \in Calls |-> outcome[<<d, 0>>]]' =
          [[d \in Calls |-> outcome[<<d, 0>>]] EXCEPT ![c] =
              [kind |-> IF ordered = <<>> THEN "error" ELSE "pending", from |-> 0]]
    <2>1. o = [kind |-> IF ordered = <<>> THEN "error" ELSE "pending", from |-> 0]
      BY <1>5 DEF Pending, NoProviders, Mark
    <2>2. \A d \in Calls : d # c => outcome'[<<d, 0>>] = outcome[<<d, 0>>]
      BY <1>5
    <2>3. outcome'[<<c, 0>>] = [kind |-> IF ordered = <<>> THEN "error" ELSE "pending", from |-> 0]
      BY <1>5, <2>1
    <2>4. QED
      BY ONLY <2>2, <2>3
  <1>10. [d \in Calls |-> outcome[<<d, 0>>]][c].kind = "unborn"
    BY <1>1 DEF Unborn, Mark
  <1>11. [d \in Calls |-> HandledFailures(d)]' = [d \in Calls |-> HandledFailures(d)]
    BY <1>8
  <1>12. QED
    BY <1>1, <1>9, <1>10, <1>11 DEF First!Begin

LEMMA NextStep ==
    ASSUME IInv, RunNextProvider
    PROVE  \E c \in Calls : First!Fail(c) \/ First!Return(c) \/ First!ReturnNull(c)
  <1> USE CallAssumption
  <1> TypeOK /\ Turns /\ Asked
    BY DEF IInv
  <1>0. RunNextProvider
    OBVIOUS
  <1>1. main # <<>> /\ Head(main)[2] = NextProvider /\ ordered' = ordered /\ asked' = asked
    BY DEF RunNextProvider
  <1>2. PICK c \in Calls, i \in 1 .. MaxProviders :
          Head(main)[1] = <<c, i>> /\ Complete(outcome[<<c, i>>]) /\ Latest(c, i)
    BY <1>1, HeadTurn
  <1> DEFINE a == outcome[<<c, i>>]  n == Len(asked[c])
             F == [d \in Calls |-> HandledFailures(d)]  R == [d \in Calls |-> outcome[<<d, 0>>]]
  <1>3. /\ outcome[<<c, 0>>] = Pending /\ a \in {Value(i), Null(i), Error(i)}
        /\ n \in Nat /\ i <= n /\ n <= MaxProviders
    BY <1>2, LenProperties DEF Latest, Asked, Complete, TypeOK
  <1>4. \A j \in 1 .. MaxProviders : outcome[<<c, j>>] # Unborn <=> j <= i
    <2>1. Complete(outcome[<<c, i>>]) => outcome[<<c, i>>] # Unborn
      BY DEF Complete
    <2>2. \A j \in 1 .. MaxProviders : j < i => Failed(outcome[<<c, j>>])
      BY <1>2, <2>1 DEF Turns
    <2>3. ~Failed(Unborn)
      BY DEF Failed, Unborn, Mark
    <2>4. QED
      BY <1>2, <2>1, <2>2, <2>3 DEF Latest
  <1>5. F[c] = i - 1 /\ R[c].kind = "pending"
    <2>1. outcome[<<c, 0>>] # Error(n)
      BY <1>3 DEF Pending, Error, Mark
    <2>2. i \in 0 .. MaxProviders /\ i # 0
      OBVIOUS
    <2>3. HandledFailures(c) = i - 1
      BY <1>4, <2>1, <2>2, FailuresTo
    <2>4. QED
      BY <1>3, <2>3 DEF Pending, Mark
  <1>6. \A d \in Calls, j \in 0 .. MaxProviders : <<d, j>> \in Promise
    BY DEF Promise
  <1>7. \A d \in Calls : Len(asked[d]) <= MaxProviders
    BY DEF Asked
  <1>8. CASE GoesOn(<<c, i>>)
    <2> DEFINE next == <<c, i + 1>>
    <2>0. \E o \in Asks(<<c, i + 1>>) : outcome' = [outcome EXCEPT ![<<c, i + 1>>] = o]
      <3>1. Head(main)[1] = <<c, i>> /\ Head(main)[1][1] = c /\ Head(main)[1][2] = i
        BY <1>2
      <3> HIDE DEF next
      <3>2. QED
        BY ONLY <1>0, <1>8, <3>1 DEF RunNextProvider
    <2>1. PICK o \in Asks(next) : outcome' = [outcome EXCEPT ![next] = o]
      BY <2>0
    <2>2. i < n /\ i + 1 \in 1 .. MaxProviders /\ Failed(a)
      BY <1>3, <1>8 DEF GoesOn
    <2>3. /\ outcome'[next] = o /\ o # Unborn
          /\ \A d \in Calls, j \in 0 .. MaxProviders : <<d, j>> # next => outcome'[<<d, j>>] = outcome[<<d, j>>]
      BY <1>6, <2>1, <2>2 DEF TypeOK, Asks, Pending, Error, Unborn, Mark
    <2>4. R' = R
      BY <2>2, <2>3
    <2>5. HandledFailures(c)' = i
      <3>1. \A j \in 1 .. MaxProviders : outcome'[<<c, j>>] # Unborn <=> j <= i + 1
        <4>1. ASSUME NEW j \in 1 .. MaxProviders PROVE outcome'[<<c, j>>] # Unborn <=> j <= i + 1
          <5>1. CASE j = i + 1
            BY <2>3, <5>1
          <5>2. CASE j # i + 1
            <6>1. outcome'[<<c, j>>] = outcome[<<c, j>>]
              BY <2>3, <5>2
            <6>2. j <= i <=> j <= i + 1
              BY <5>2
            <6>3. QED
              BY <1>4, <6>1, <6>2
          <5>3. QED
            BY <5>1, <5>2
        <4>2. QED
          BY <4>1
      <3>2. outcome'[<<c, 0>>] # Error(Len(asked'[c]))
        BY <1>3, <2>2, <2>3 DEF Pending, Error, Mark
      <3>3. i + 1 \in 0 .. MaxProviders /\ i + 1 # 0 /\ (i + 1) - 1 = i
        BY <2>2
      <3>4. QED
        BY <3>1, <3>2, <3>3, FailuresToNext
    <2>6. ASSUME NEW d \in Calls, d # c PROVE HandledFailures(d)' = HandledFailures(d)
      <3>1. \A j \in 0 .. MaxProviders : outcome'[<<d, j>>] = outcome[<<d, j>>]
        BY <2>3, <2>6
      <3>2. QED
        BY <1>1, <1>7, <3>1, FailuresKept
    <2>7. F' = [F EXCEPT ![c] = @ + 1]
      <3>1. F[c] + 1 = i
        BY <1>5
      <3>2. QED
        BY ONLY <2>5, <2>6, <3>1
    <2>8. R' = [R EXCEPT ![c] = IF F[c] + 1 = Len(asked[c]) THEN [kind |-> "error", from |-> Len(asked[c])] ELSE @]
      <3>1. F[c] + 1 # Len(asked[c])
        BY <1>3, <1>5, <2>2
      <3>2. R = [R EXCEPT ![c] = @]
        OBVIOUS
      <3>3. QED
        BY <2>4, <3>1, <3>2
    <2>9. First!Fail(c)
      BY <1>1, <1>5, <2>7, <2>8 DEF First!Fail
    <2>10. QED
      BY <2>9
  <1>9. CASE ~GoesOn(<<c, i>>)
    <2> DEFINE t == Typed(c, a)
    <2>1. SettleAfter(Tail(main), <<c, 0>>, t)
      BY ONLY <1>0, <1>2, <1>9 DEF RunNextProvider
    <2>2. outcome' = [outcome EXCEPT ![<<c, 0>>] = t]
      BY <1>3, <2>1 DEF SettleAfter, Complete
    <2>3. /\ outcome'[<<c, 0>>] = t
          /\ \A d \in Calls, j \in 0 .. MaxProviders : <<d, j>> # <<c, 0>> => outcome'[<<d, j>>] = outcome[<<d, j>>]
      BY <1>6, <2>2 DEF TypeOK
    <2>4. R' = [R EXCEPT ![c] = t]
      <3>1. \A d \in Calls : d # c => outcome'[<<d, 0>>] = outcome[<<d, 0>>]
        BY <2>3
      <3>2. outcome'[<<c, 0>>] = t
        BY <2>3
      <3> HIDE DEF t
      <3>3. QED
        BY ONLY <3>1, <3>2
    <2>5. ASSUME NEW d \in Calls, d # c PROVE HandledFailures(d)' = HandledFailures(d)
      <3>1. \A j \in 0 .. MaxProviders : outcome'[<<d, j>>] = outcome[<<d, j>>]
        BY <2>3, <2>5
      <3>2. QED
        BY <1>1, <1>7, <3>1, FailuresKept
    <2>6. HandledFailures(c)' = IF t = Error(n) /\ Failed(outcome[<<c, n>>]) THEN i ELSE i - 1
      <3>1. \A j \in 1 .. MaxProviders : outcome'[<<c, j>>] # Unborn <=> j <= i
        BY <1>4, <2>3
      <3>2. i \in 0 .. MaxProviders /\ i # 0
        OBVIOUS
      <3>3. outcome'[<<c, n>>] = outcome[<<c, n>>] /\ Len(asked'[c]) = n
        BY <1>1, <1>3, <2>3
      <3>4. QED
        BY <2>3, <3>1, <3>2, <3>3, FailuresToNext
    <2>7. CASE a = Error(i)
      <3>1. Failed(a) /\ t = Error(i)
        BY <2>7 DEF Failed, Typed, Error
      <3>2. i = n
        BY <1>3, <1>9, <3>1 DEF GoesOn
      <3>3. HandledFailures(c)' = i
        BY <2>6, <3>1, <3>2
      <3>4. F' = [F EXCEPT ![c] = @ + 1]
        <4>1. F[c] + 1 = i
          BY <1>5
        <4>2. QED
          BY ONLY <2>5, <3>3, <4>1
      <3>5. R' = [R EXCEPT ![c] = IF F[c] + 1 = Len(asked[c]) THEN [kind |-> "error", from |-> Len(asked[c])] ELSE @]
        <4>1. F[c] + 1 = Len(asked[c]) /\ t = [kind |-> "error", from |-> Len(asked[c])]
          BY <1>3, <1>5, <3>1, <3>2 DEF Error
        <4>2. QED
          BY <2>4, <4>1
      <3>6. First!Fail(c)
        BY <1>1, <1>5, <3>4, <3>5 DEF First!Fail
      <3>7. QED
        BY <3>6
    <2>8. CASE a \in {Value(i), Null(i)}
      <3>1. ~Failed(a)
        BY <2>8 DEF Failed, Value, Null
      <3>2. t = Error(n) => i = n
        BY <2>8 DEF Typed, Value, Null, Error
      <3>3. HandledFailures(c)' = i - 1
        BY <2>6, <3>1, <3>2
      <3>4. F' = F
        BY <1>5, <2>5, <3>3
      <3>5. F[c] + 1 = i
        BY <1>5
      <3>6. CASE a = Value(i)
        <4>1. t = [kind |-> "value", from |-> F[c] + 1]
          BY <3>5, <3>6 DEF Typed, Value
        <4>2. First!Return(c)
          BY <1>1, <1>5, <2>4, <3>4, <4>1 DEF First!Return
        <4>3. QED
          BY <4>2
      <3>7. CASE a = Null(i)
        <4>1. t = [kind |-> IF c \in TakesNull THEN "null" ELSE "error", from |-> F[c] + 1]
          BY <3>5, <3>7 DEF Typed, Null, Error
        <4>2. First!ReturnNull(c)
          BY <1>1, <1>5, <2>4, <3>4, <4>1 DEF First!ReturnNull
        <4>3. QED
          BY <4>2
      <3>8. QED
        BY <2>8, <3>6, <3>7
    <2>9. QED
      BY <1>3, <2>7, <2>8
  <1>10. QED
    BY <1>8, <1>9

LEMMA FirstStep == ASSUME IInv, [Next]_vars PROVE [First!Next]_(First!vars)
  <1> USE DEF promiseVars
  <1>1. TypeOK'
    BY TypeStep
  <1>2. ASSUME ordered' = ordered, asked' = asked, outcome' = outcome PROVE UNCHANGED First!vars
    BY <1>2, SameAnswers DEF First!vars
  <1>3. ASSUME NEW p \in Providers, AddProvider(p) PROVE First!Next
    BY <1>1, <1>3, ListStep DEF AddProvider, First!Next
  <1>4. ASSUME NEW i \in 1 .. MaxProviders, RemoveProviderAtIndex(i) PROVE First!Next
    BY <1>1, <1>4, ListStep DEF RemoveProviderAtIndex, First!Next
  <1>5. ASSUME NEW c \in Calls, StartCall(c) PROVE First!Next
    BY <1>5, StartStep DEF First!Next
  <1>6. CASE ListenToChild
    BY <1>2, <1>6 DEF ListenToChild, OnCompletion
  <1>7. ASSUME NEW p \in Children, Answer(p) PROVE UNCHANGED First!vars
    BY <1>7, AnswerStep
  <1>8. CASE RunNextProvider
    BY <1>8, NextStep DEF First!Next
  <1>9. ASSUME NEW c \in Calls, NEW h \in Handlers, AddHandler(c, h) PROVE UNCHANGED First!vars
    BY <1>2, <1>9 DEF AddHandler, OnCompletion
  <1>10. CASE RunHandler
    BY <1>2, <1>10 DEF RunHandler
  <1>11. CASE UNCHANGED vars
    BY <1>2, <1>11 DEF vars
  <1>12. QED
    BY <1>3, <1>4, <1>5, <1>6, <1>7, <1>8, <1>9, <1>10, <1>11 DEF Next

LEMMA FirstInit == Init => First!Init
  <1> SUFFICES ASSUME Init PROVE First!Init
    OBVIOUS
  <1>1. \A c \in Calls, i \in 0 .. MaxProviders : outcome[<<c, i>>] = Unborn
    BY DEF Init, Promise
  <1>2. ASSUME NEW c \in Calls PROVE HandledFailures(c) = 0 /\ outcome[<<c, 0>>] = [kind |-> "unborn", from |-> 0]
    <2>1. 0 \in 0 .. MaxProviders /\ \A i \in 1 .. MaxProviders : outcome[<<c, i>>] # Unborn <=> i <= 0
      BY <1>1, CallAssumption
    <2>2. HandledFailures(c) = 0
      BY ONLY <2>1, <1>2, FailuresTo
    <2>3. QED
      BY <1>1, <2>1, <2>2 DEF Unborn, Mark
  <1>3. QED
    BY <1>2 DEF Init, First!Init

\* However late the answers come and whatever is added to the list or removed
\* from it meanwhile, a call seen from the screen starts as FirstAnswer does
\* and takes none but its steps.
THEOREM ActsAsPromised == Spec => First!Init /\ [][First!Next]_(First!vars)
  <1>1. IInv /\ [Next]_vars => [First!Next]_(First!vars)
    BY FirstStep
  <1>2. QED
    BY <1>1, FirstInit, Inductive, PTL DEF Spec

=============================================================================
