-------------------------- MODULE TransferFlowProofs --------------------------
(***************************************************************************)
(* Proofs about TransferFlow, for all tokens, prices, amounts and nonces.  *)
(* The safety properties follow from one invariant: a nonce handed out for *)
(* an order stays unused by the registered orders until this one joins.    *)
(***************************************************************************)
EXTENDS TransferFlow, TLAPS

\* No registered order has the nonce of o.
Fresh(o) == \A q \in registered : q.nonce # o.nonce

RegisteredDistinct ==
    \A o, q \in registered : o.nonce = q.nonce => o = q

\* What each screen holds, and which waits belong to it.
Screens ==
    /\ page # "home" => form \in Forms
    /\ pricesAsked => page # "home"
    /\ page = "confirm" => order \in Orders
    /\ page \in {"home", "form"} => button = "send"
    /\ step \in {"nonce", "decimals"} => page = "form" /\ order \in Orders
    /\ step = "nonce" => form.price \in Prices \cup {NoPrice}
    /\ step = "decimals" => IsContract(form.token)
    /\ step \in {"password", "retry", "unlock"} =>
            page = "confirm" /\ button = "send"
    /\ step \in {"sync", "refused", "send", "told"} =>
            page = "confirm" /\ button = "done"

\* The nonce of an order that is neither registered nor given up is free.
NonceKept ==
    /\ step = "decimals" => Fresh(order)
    /\ page = "confirm" /\ button = "send" => Fresh(order)
    /\ step = "sync" => Fresh(order)
    /\ step = "send" => order \in registered

IInv ==
    /\ TypeOK
    /\ Screens
    /\ RegisteredDistinct
    /\ NonceKept
    /\ RegisteredFirst
    /\ SentOnChain
    /\ CoveredAsChecked
-----------------------------------------------------------------------------
LEMMA InitIInv == Init => IInv
  <1> SUFFICES ASSUME Init PROVE IInv
    OBVIOUS
  <1>1. NoAnswer \in [eth : Amounts, price : Prices \cup {NoPrice}]
    BY TransferAssumption DEF NoAnswer, Amounts
  <1>2. TypeOK
    BY <1>1 DEF Init, TypeOK, Steps
  <1>3. QED
    BY <1>2 DEF Init, IInv, Screens, RegisteredDistinct, NonceKept,
                RegisteredFirst, SentOnChain, CoveredAsChecked

\* Back at the root the screens hold nothing and wait for nothing.
LEMMA PopTypes ==
    ASSUME TypeOK, PopToRoot,
           registered' \subseteq Orders, broadcast' \subseteq Orders, sent' = sent
    PROVE  TypeOK' /\ Screens'
  <1>1. NoAnswer \in [eth : Amounts, price : Prices \cup {NoPrice}]
    BY TransferAssumption DEF NoAnswer, Amounts
  <1>2. prices' \in Prices \cup {NoPrice}
    BY DEF PopToRoot, TypeOK
  <1>3. TypeOK'
    BY <1>1, <1>2 DEF PopToRoot, TypeOK, Steps
  <1> QED
    BY <1>3 DEF PopToRoot, Screens

\* Types and screens: one step per action.
LEMMA TypeStep == IInv /\ [Next]_vars => (TypeOK /\ Screens)'
  <1> DEFINE Goal == TypeOK /\ Screens
  <1> SUFFICES ASSUME IInv, [Next]_vars PROVE Goal'
    OBVIOUS
  <1> USE TransferAssumption
      DEF IInv, TypeOK, Screens, Forms, Orders, Steps, Amounts, AllTokens, NoPrice,
          NoAnswer, Idle, backend, formVars, IsContract
  <1>1. CASE OpenTransfer
    <2>1. form' \in Forms
      BY <1>1 DEF OpenTransfer
    <2> QED
      BY <1>1, <2>1 DEF OpenTransfer
  <1>2. CASE PricesAnswered
    <2>1. prices' \in Prices \cup {NoPrice}
      BY <1>2 DEF PricesAnswered
    <2>2. form' \in Forms
      BY <1>2, <2>1 DEF PricesAnswered
    <2> QED
      BY <1>2, <2>1, <2>2, ZenonT(60) DEF PricesAnswered
  <1>3. CASE ChooseToken
    <2>1. PICK t \in Tokens \cup {ETH} :
            form' = [form EXCEPT !.token = t, !.decimals = t \in WithDecimals]
      BY <1>3 DEF ChooseToken
    <2>2. form \in Forms
      BY <1>3 DEF ChooseToken
    <2>3. (t \in WithDecimals) \in BOOLEAN
      OBVIOUS
    <2>4. form' \in Forms
      BY <2>1, <2>2, <2>3
    <2> QED
      BY <1>3, <2>4 DEF ChooseToken
  <1>4. CASE EditForm
    BY <1>4 DEF EditForm
  <1>5. CASE LeaveForm
    BY <1>5, PopTypes DEF LeaveForm
  <1>6. CASE NextTapped
    BY <1>6 DEF NextTapped
  <1>7. CASE BackToForm
    BY <1>7 DEF BackToForm, NoOrder
  <1>8. CASE AskPassword
    BY <1>8 DEF AskPassword
  <1>9. CASE CancelPassword
    BY <1>9 DEF CancelPassword
  <1>10. CASE PasswordEntered
    BY <1>10 DEF PasswordEntered
  <1>11. CASE Callback
    <2>1. ASSUME NEW eth \in Amounts, NEW balance \in Amounts,
                 NonceAnswered(eth, balance)
          PROVE Goal'
      <3>1. /\ step = "nonce" /\ page = "form" /\ order \in Orders /\ form \in Forms
            /\ answered' \in [eth : Amounts, price : Prices \cup {NoPrice}]
            /\ UNCHANGED <<form, formVars, backend>>
        BY <2>1 DEF NonceAnswered
      <3>2. CASE Refuse /\ UNCHANGED button
        BY <3>1, <3>2 DEF Refuse
      <3>3. ASSUME NEW n \in FreeNonces, Confirm(n, form.amount) PROVE Goal'
        <4>1. order' \in Orders
          BY <3>1, <3>3 DEF Confirm, FreeNonces
        <4> QED
          BY <3>1, <3>3, <4>1 DEF Confirm
      <3>4. ASSUME NEW n \in FreeNonces, IsContract(form.token),
                   order' = [order EXCEPT !.nonce = n], step' = "decimals",
                   UNCHANGED <<page, hud, button>>
            PROVE  Goal'
        <4>1. order' \in Orders
          BY <3>1, <3>4 DEF FreeNonces
        <4> QED
          BY <3>1, <3>4, <4>1
      <3> QED
        BY <2>1, <3>2, <3>3, <3>4 DEF NonceAnswered
    <2>2. CASE PreparationFailed
      BY <2>2, ZenonT(60) DEF PreparationFailed, Refuse
    <2>3. CASE DecimalsAnswered
      BY <2>3 DEF DecimalsAnswered, Confirm
    <2>4. CASE WrongPassword
      BY <2>4, ZenonT(60) DEF WrongPassword
    <2>5. CASE Unlocked
      <3>1. step = "unlock" /\ page = "confirm" /\ order \in Orders /\ button' = "done"
        BY <2>5 DEF Unlocked
      <3>2. CASE step' = "sync" /\ UNCHANGED <<page, order, hud>>
        BY <2>5, <3>1, <3>2 DEF Unlocked
      <3>3. CASE Refuse
        BY <2>5, <3>1, <3>3, ZenonT(60) DEF Unlocked, Refuse
      <3> QED
        BY <2>5, <3>2, <3>3 DEF Unlocked
    <2>6. CASE Synced
      BY <2>6 DEF Synced
    <2>7. CASE SyncFailed
      <3>1. step = "sync" /\ page = "confirm" /\ button = "done" /\ order \in Orders
        BY <2>7 DEF SyncFailed
      <3>2. registered' \subseteq Orders
        BY <2>7, <3>1 DEF SyncFailed
      <3> QED
        BY <2>7, <3>1, <3>2, ZenonT(60) DEF SyncFailed, Refuse
    <2>8. CASE SyncRefused
      BY <2>8 DEF SyncRefused
    <2>9. CASE SendFailed
      <3>1. step = "send" /\ page = "confirm" /\ button = "done" /\ order \in Orders
        BY <2>9 DEF SendFailed
      <3>2. broadcast' \subseteq Orders
        BY <2>9, <3>1 DEF SendFailed
      <3> QED
        BY <2>9, <3>1, <3>2, ZenonT(60) DEF SendFailed, Refuse
    <2>10. CASE SendDone
      BY <2>10 DEF SendDone
    <2>11. CASE CheckMarkHidden
      BY <2>11, ZenonT(60) DEF CheckMarkHidden
    <2> QED
      BY <1>11, <2>1, <2>2, <2>3, <2>4, <2>5, <2>6, <2>7, <2>8, <2>9, <2>10, <2>11 DEF Callback
  <1>12. CASE DoneTapped
    BY <1>12, PopTypes DEF DoneTapped
  <1>13. CASE Kill
    <2>1. registered' \subseteq Orders /\ broadcast' \subseteq Orders
      BY <1>13 DEF Kill
    <2> QED
      BY <1>13, <2>1, PopTypes DEF Kill
  <1>14. CASE UNCHANGED vars
    BY <1>14 DEF vars, backend
  <1> QED
    BY <1>1, <1>2, <1>3, <1>4, <1>5, <1>6, <1>7, <1>8, <1>9, <1>10, <1>11, <1>12, <1>13, <1>14 DEF Next

\* The nonces and the sets of orders: one step per action.
LEMMA NonceStep == IInv /\ [Next]_vars => (RegisteredDistinct /\ NonceKept /\ RegisteredFirst /\ SentOnChain /\ CoveredAsChecked)'
  <1> DEFINE Goal == RegisteredDistinct /\ NonceKept /\ RegisteredFirst /\ SentOnChain /\ CoveredAsChecked
  <1> SUFFICES ASSUME IInv, [Next]_vars PROVE Goal'
    OBVIOUS
  <1> USE DEF IInv, Screens, RegisteredDistinct, NonceKept, Fresh, RegisteredFirst,
          SentOnChain, CoveredAsChecked, Idle, backend, formVars
  <1>1. CASE OpenTransfer
    BY <1>1 DEF OpenTransfer
  <1>2. CASE PricesAnswered
    BY <1>2 DEF PricesAnswered
  <1>3. CASE ChooseToken
    BY <1>3 DEF ChooseToken
  <1>4. CASE EditForm
    BY <1>4 DEF EditForm
  <1>5. CASE LeaveForm
    BY <1>5 DEF LeaveForm, PopToRoot
  <1>6. CASE NextTapped
    BY <1>6 DEF NextTapped
  <1>7. CASE BackToForm
    BY <1>7 DEF BackToForm
  <1>8. CASE AskPassword
    BY <1>8 DEF AskPassword
  <1>9. CASE CancelPassword
    BY <1>9 DEF CancelPassword
  <1>10. CASE PasswordEntered
    BY <1>10 DEF PasswordEntered
  <1>11. CASE Callback
    <2>1. ASSUME NEW eth \in Amounts, NEW balance \in Amounts,
                 NonceAnswered(eth, balance)
          PROVE Goal'
      <3>1. step = "nonce" /\ page = "form" /\ order \in Orders /\ UNCHANGED backend
        BY <2>1 DEF NonceAnswered
      <3>2. CASE Refuse /\ UNCHANGED button
        BY <3>1, <3>2 DEF Refuse
      <3>3. ASSUME NEW n \in FreeNonces, Confirm(n, form.amount),
                   IsContract(form.token)
                     \/ Covers(eth, form.amount),
                   answered' = [eth |-> eth, price |-> form.price]
            PROVE  Goal'
        <4>1. /\ order'.nonce = n /\ order'.token = form.token
              /\ order'.value = form.amount /\ order'.price = order.price
          BY <3>1, <3>3 DEF Confirm, Orders
        <4>2. Fresh(order)'
          BY <3>1, <3>3, <4>1 DEF FreeNonces
        <4>3. CoveredAsChecked'
          BY <3>3, <4>1 DEF Covers, IsContract
        <4> QED
          BY <3>1, <3>3, <4>2, <4>3 DEF Confirm
      <3>4. ASSUME NEW n \in FreeNonces, order' = [order EXCEPT !.nonce = n],
                   step' = "decimals", UNCHANGED <<page, hud, button>>
            PROVE  Goal'
        <4>1. order'.nonce = n
          BY <3>1, <3>4 DEF Orders
        <4>2. Fresh(order)'
          BY <3>1, <3>4, <4>1 DEF FreeNonces
        <4> QED
          BY <3>1, <3>4, <4>2
      <3> QED
        BY <2>1, <3>2, <3>3, <3>4 DEF NonceAnswered
    <2>2. CASE PreparationFailed
      BY <2>2 DEF PreparationFailed, Refuse
    <2>3. CASE DecimalsAnswered
      BY <2>3 DEF DecimalsAnswered, Confirm
    <2>4. CASE WrongPassword
      BY <2>4 DEF WrongPassword
    <2>5. CASE Unlocked
      BY <2>5 DEF Unlocked, Refuse
    <2>6. CASE Synced
      BY <2>6 DEF Synced
    <2>7. CASE SyncFailed
      BY <2>7 DEF SyncFailed, Refuse
    <2>8. CASE SyncRefused
      BY <2>8 DEF SyncRefused
    <2>9. CASE SendFailed
      BY <2>9 DEF SendFailed, Refuse
    <2>10. CASE SendDone
      BY <2>10 DEF SendDone
    <2>11. CASE CheckMarkHidden
      BY <2>11 DEF CheckMarkHidden
    <2> QED
      BY <1>11, <2>1, <2>2, <2>3, <2>4, <2>5, <2>6, <2>7, <2>8, <2>9, <2>10, <2>11 DEF Callback
  <1>12. CASE DoneTapped
    BY <1>12 DEF DoneTapped, PopToRoot
  <1>13. CASE Kill
    BY <1>13 DEF Kill, PopToRoot
  <1>14. CASE UNCHANGED vars
    BY <1>14 DEF vars, backend
  <1> QED
    BY <1>1, <1>2, <1>3, <1>4, <1>5, <1>6, <1>7, <1>8, <1>9, <1>10, <1>11, <1>12, <1>13, <1>14 DEF Next

LEMMA Inductive == Spec => []IInv
  <1>1. IInv /\ [Next]_vars => IInv'
    BY TypeStep, NonceStep DEF IInv
  <1> QED
    BY InitIInv, <1>1, PTL DEF Spec

\* The screens, the order and the backend keep their types, for all tokens,
\* prices and amounts.
THEOREM TypeCorrect == Spec => []TypeOK
  BY Inductive, PTL DEF IInv

\* Nothing is broadcast before the backend lists it.
THEOREM BroadcastRegistered == Spec => []RegisteredFirst
  BY Inductive, PTL DEF IInv

\* No two transactions of the account reach the chain with one nonce.
THEOREM NoNonceTwice == Spec => []NoncesDistinct
  <1>1. IInv => NoncesDistinct
    BY DEF IInv, RegisteredFirst, RegisteredDistinct, NoncesDistinct
  <1> QED
    BY Inductive, <1>1, PTL

\* The user is told "Sent" only of what the chain has.
THEOREM SentIsOnChain == Spec => []SentOnChain
  BY Inductive, PTL DEF IInv

\* Short of a price change while getNonce is awaited, an ETH transfer on the
\* Confirmation is covered by the balance the backend answered.
THEOREM OfferedIsCovered == Spec => []CoveredAsChecked
  BY Inductive, PTL DEF IInv
=============================================================================
