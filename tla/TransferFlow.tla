----------------------------- MODULE TransferFlow -----------------------------
(***************************************************************************)
(* GSE_WalletTransfer.m and GSE_WalletConfirmation.m: one transfer at a    *)
(* time is prepared, confirmed, signed, registered with the backend and    *)
(* broadcast.  Every wait is a callback on the main queue; a covered       *)
(* screen (HUD) takes no touches, but an answer of getPrices still lands   *)
(* on the form.  The backend and the chain are external: a request whose   *)
(* answer is lost may have been served.  The payee is read once, at the    *)
(* tap, and left out, as are the gas menu, QR scanning and rebates.        *)
(***************************************************************************)
EXTENDS Integers, FiniteSets

CONSTANTS
    Tokens,         \* token dictionaries other than ETH's
    WithDecimals,   \* those that name their decimals
    ETH, NoToken,   \* NoToken: no token list was stored for the account
    Prices,         \* gas prices, the ones the slider can set included
    MaxAmount,      \* bound: amounts and balances
    GasLimit,
    MaxNonce        \* bound: nonces the backend may hand out

ASSUME TransferAssumption ==
    /\ ETH \notin Tokens /\ NoToken \notin Tokens /\ ETH # NoToken
    /\ WithDecimals \subseteq Tokens
    /\ Prices \subseteq Nat /\ GasLimit \in Nat /\ MaxAmount \in Nat
    /\ MaxNonce \in Nat

VARIABLES
    page,       \* the screen on top: "home", "form" or "confirm"
    form,       \* what GSE_WalletTransfer holds
    prices,     \* the gas price cached by GSE_Wallet, NoPrice when none
    pricesAsked,\* an answer of getPrices is outstanding for this form
    order,      \* the transaction being prepared or shown
    step,       \* what the screen waits for
    hud,        \* the screen is covered
    button,     \* the Confirmation's button: "send" or "done"
    answered,   \* the balance and the gas price the last check used
    registered, \* orders the backend lists as pending (syncPending)
    broadcast,  \* orders the chain has been sent
    sent        \* orders the user was told are "Sent"

vars == <<page, form, prices, pricesAsked, order, step, hud, button,
          answered, registered, broadcast, sent>>
backend == <<registered, broadcast, sent>>
formVars == <<prices, pricesAsked>>

NoPrice == -1
Amounts == 0 .. MaxAmount
AllTokens == Tokens \cup {ETH, NoToken}
Forms == [token : AllTokens, decimals : BOOLEAN, amount : Amounts,
          price : Prices \cup {NoPrice}]
Orders == [token : AllTokens, value : Amounts,
           price : Prices, nonce : 0 .. MaxNonce]
NoForm == [token |-> NoToken]
NoOrder == [nonce |-> -1]
NoAnswer == [eth |-> 0, price |-> NoPrice]
Steps == {"idle", "nonce", "decimals", "password", "unlock", "retry",
          "sync", "refused", "send", "told"}
IsContract(t) == t \in Tokens
Fee(p) == GasLimit * p

Init ==
    /\ page = "home" /\ step = "idle" /\ hud = FALSE /\ button = "send"
    /\ form = NoForm /\ order = NoOrder /\ answered = NoAnswer
    /\ prices = NoPrice /\ pricesAsked = FALSE
    /\ registered = {} /\ broadcast = {} /\ sent = {}

Idle(p) == page = p /\ step = "idle" /\ ~hud

\* The screens are popped and forget what they held; an outstanding answer
\* of getPrices still renews the cache of GSE_Wallet.
PopToRoot ==
    /\ page' = "home" /\ step' = "idle" /\ hud' = FALSE /\ button' = "send"
    /\ form' = NoForm /\ order' = NoOrder /\ answered' = NoAnswer
    /\ pricesAsked' = FALSE
    /\ prices' \in (IF pricesAsked THEN Prices ELSE {}) \cup {prices}

-----------------------------------------------------------------------------
(* The form                                                                *)

\* viewDidLoad: the first stored token, if any, and a getPrices on its way.
OpenTransfer ==
    /\ Idle("home")
    /\ page' = "form"
    /\ \E t \in AllTokens :
          form' = [token |-> t, decimals |-> t \in WithDecimals,
                   amount |-> 0, price |-> NoPrice]
    /\ pricesAsked' = TRUE
    /\ UNCHANGED <<prices, order, step, hud, button, answered, backend>>

\* getPrices' callback: the cache is renewed when the answer holds prices,
\* and the form reloads from the cache either way.
PricesAnswered ==
    /\ pricesAsked
    /\ pricesAsked' = FALSE
    /\ prices' \in Prices \cup {prices}
    /\ form' = [form EXCEPT !.price = IF prices' = NoPrice THEN @ ELSE prices']
    /\ UNCHANGED <<page, order, step, hud, button, answered, backend>>

ChooseToken ==
    /\ Idle("form")
    /\ \E t \in Tokens \cup {ETH} :
          form' = [form EXCEPT !.token = t, !.decimals = t \in WithDecimals]
    /\ UNCHANGED <<page, formVars, order, step, hud, button, answered, backend>>

\* The amount field, and the slider once there is a price to start from.
EditForm ==
    /\ Idle("form")
    /\ \/ \E n \in Amounts : form' = [form EXCEPT !.amount = n]
       \/ /\ form.price # NoPrice
          /\ \E p \in Prices : form' = [form EXCEPT !.price = p]
    /\ UNCHANGED <<page, formVars, order, step, hud, button, answered, backend>>

\* back
LeaveForm ==
    /\ Idle("form")
    /\ PopToRoot
    /\ UNCHANGED backend

\* nextAction: of the form; the gas price goes into the transaction now.
NextTapped ==
    /\ Idle("form")
    /\ form.amount > 0 /\ form.price # NoPrice
    /\ order' = [token |-> form.token, value |-> 0,
                 price |-> form.price, nonce |-> 0]
    /\ step' = "nonce" /\ hud' = TRUE
    /\ UNCHANGED <<page, form, formVars, button, answered, backend>>

\* Mutant: the alert leaves the screen covered.
RefuseCovered ==
    /\ step' = "idle"
    /\ UNCHANGED <<page, order, hud>>

\* An alert over an uncovered screen.
Refuse ==
    /\ step' = "idle" /\ hud' = FALSE
    /\ UNCHANGED <<page, order>>

\* confirmAction: the Confirmation shows what the form holds now.
Confirm(n, v) ==
    /\ order' = [order EXCEPT !.nonce = n, !.value = v, !.token = form.token]
    /\ page' = "confirm" /\ step' = "idle" /\ hud' = FALSE
    /\ button' = "send"

\* What the backend says: a nonce no registered order has, the balance.
FreeNonces == {n \in 0 .. MaxNonce : \A o \in registered : o.nonce # n}

\* Mutant: only the fee is compared with the balance, as for tokens.
CoversFeeOnly(eth, v) == Fee(form.price) <= eth

\* The last checks of an ETH transfer.
Covers(eth, v) == v + Fee(form.price) <= eth

\* getNonce's callback; the checks use the gas price the form has now.
NonceAnswered(eth, balance) ==
    /\ step = "nonce"
    /\ answered' = [eth |-> eth, price |-> form.price]
    /\ \E n \in FreeNonces :
          \/ Fee(form.price) > eth /\ Refuse /\ UNCHANGED button
          \/ /\ Fee(form.price) <= eth
             /\ IsContract(form.token) /\ form.decimals
             /\ IF form.amount > balance THEN Refuse /\ UNCHANGED button
                ELSE Confirm(n, form.amount)
          \/ /\ Fee(form.price) <= eth
             /\ IsContract(form.token) /\ ~form.decimals
             /\ order' = [order EXCEPT !.nonce = n]
             /\ step' = "decimals"
             /\ UNCHANGED <<page, hud, button>>
          \/ /\ Fee(form.price) <= eth
             /\ ~IsContract(form.token)
             /\ IF Covers(eth, form.amount) THEN Confirm(n, form.amount)
                ELSE Refuse /\ UNCHANGED button
    /\ UNCHANGED <<form, formVars, backend>>

\* Network errors and refused contract addresses.
PreparationFailed ==
    /\ step \in {"nonce", "decimals"}
    /\ Refuse
    /\ UNCHANGED <<form, formVars, button, answered, backend>>

\* call:'s callback: the form's token learns its decimals; no balance is
\* compared.
DecimalsAnswered ==
    /\ step = "decimals"
    /\ form' = [form EXCEPT !.decimals = TRUE]
    /\ Confirm(order.nonce, form.amount)
    /\ UNCHANGED <<formVars, answered, backend>>
-----------------------------------------------------------------------------
(* The Confirmation                                                        *)

\* back, shown until the transaction is signed.
BackToForm ==
    /\ Idle("confirm") /\ button = "send"
    /\ page' = "form" /\ order' = NoOrder /\ answered' = NoAnswer
    /\ UNCHANGED <<form, formVars, step, hud, button, backend>>

\* sendAction: a transfer without a token is refused, the others ask for
\* the password; Retry after a wrong one asks again.
AskPassword ==
    /\ \/ Idle("confirm") /\ button = "send" /\ order.token # NoToken
       \/ step = "retry"
    /\ step' = "password"
    /\ UNCHANGED <<page, form, formVars, order, hud, button, answered, backend>>

CancelPassword ==
    /\ step \in {"password", "retry"}
    /\ step' = "idle"
    /\ UNCHANGED <<page, form, formVars, order, hud, button, answered, backend>>

\* Confirm of the password alert: the keystore is decrypted on a queue.
PasswordEntered ==
    /\ step = "password"
    /\ step' = "unlock" /\ hud' = TRUE
    /\ UNCHANGED <<page, form, formVars, order, button, answered, backend>>

WrongPassword ==
    /\ step = "unlock"
    /\ step' = "retry" /\ hud' = FALSE
    /\ UNCHANGED <<page, form, formVars, order, button, answered, backend>>

\* Mutant: sendTransaction does not wait for syncPending.
UnlockedUnlisted ==
    /\ step = "unlock"
    /\ button' = "done"
    /\ step' = "send"
    /\ UNCHANGED <<page, form, formVars, order, hud, answered, backend>>

\* The transaction is signed: the button becomes Done for good, and the
\* order goes to the backend unless its details are unusable.
Unlocked ==
    /\ step = "unlock"
    /\ button' = "done"
    /\ \/ step' = "sync" /\ UNCHANGED <<page, order, hud>>
       \/ Refuse
    /\ UNCHANGED <<form, formVars, answered, backend>>

\* Mutant: broadcast without waiting for the backend.
SyncedUnseen ==
    /\ step = "sync"
    /\ step' = "send"
    /\ registered' \in {registered, registered \cup {order}}
    /\ UNCHANGED <<page, form, formVars, order, hud, button, answered,
                   broadcast, sent>>

\* syncPending's callback, accepted.
Synced ==
    /\ step = "sync"
    /\ step' = "send"
    /\ registered' = registered \cup {order}
    /\ UNCHANGED <<page, form, formVars, order, hud, button, answered,
                   broadcast, sent>>

\* A network error: the backend may have listed the order all the same.
SyncFailed ==
    /\ step = "sync"
    /\ Refuse
    /\ registered' \in {registered, registered \cup {order}}
    /\ UNCHANGED <<form, formVars, button, answered, broadcast, sent>>

\* ok is not true: an alert is shown and the HUD stays.
SyncRefused ==
    /\ step = "sync"
    /\ step' = "refused"
    /\ UNCHANGED <<page, form, formVars, order, hud, button, answered, backend>>

\* Mutant: Sent is shown whatever the answer is.
SendFailedUnseen ==
    /\ step = "send"
    /\ broadcast' \in {broadcast, broadcast \cup {order}}
    /\ sent' = sent \cup {order}
    /\ step' = "told"
    /\ UNCHANGED <<page, form, formVars, order, hud, button, answered, registered>>

\* sendTransaction's callback with an error, after which the chain may
\* still have it.
SendFailed ==
    /\ step = "send"
    /\ broadcast' \in {broadcast, broadcast \cup {order}}
    /\ Refuse
    /\ UNCHANGED <<form, formVars, button, answered, registered, sent>>

\* sendTransaction's callback with the hash.
SendDone ==
    /\ step = "send"
    /\ broadcast' = broadcast \cup {order}
    /\ sent' = sent \cup {order}
    /\ step' = "told"
    /\ UNCHANGED <<page, form, formVars, order, hud, button, answered, registered>>

\* One second later the check mark is hidden.
CheckMarkHidden ==
    /\ step = "told"
    /\ step' = "idle" /\ hud' = FALSE
    /\ UNCHANGED <<page, form, formVars, order, button, answered, backend>>

\* doneAction: to the root, which then shows the account's transactions.
DoneTapped ==
    /\ Idle("confirm") /\ button = "done"
    /\ PopToRoot
    /\ UNCHANGED backend

\* The app is killed: a request that is under way may still be served.
Kill ==
    /\ page # "home"
    /\ PopToRoot
    /\ registered' \in {registered} \cup
          (IF step = "sync" THEN {registered \cup {order}} ELSE {})
    /\ broadcast' \in {broadcast} \cup
          (IF step = "send" THEN {broadcast \cup {order}} ELSE {})
    /\ UNCHANGED sent

\* What the main queue runs when an answer or a timer is due.
Callback ==
    \/ \E eth \in Amounts, balance \in Amounts : NonceAnswered(eth, balance)
    \/ PreparationFailed \/ DecimalsAnswered
    \/ WrongPassword \/ Unlocked
    \/ Synced \/ SyncFailed \/ SyncRefused
    \/ SendFailed \/ SendDone \/ CheckMarkHidden

Next ==
    \/ OpenTransfer \/ PricesAnswered \/ ChooseToken \/ EditForm \/ LeaveForm \/ NextTapped
    \/ BackToForm \/ AskPassword \/ CancelPassword \/ PasswordEntered
    \/ Callback
    \/ DoneTapped \/ Kill

\* Sessions time out and scrypt ends, so the awaited callback comes.
Spec == Init /\ [][Next]_vars /\ WF_vars(Callback)

-----------------------------------------------------------------------------
\* The screens, the order and the backend hold what the two view
\* controllers and their requests put into them.
TypeOK ==
    /\ page \in {"home", "form", "confirm"} /\ step \in Steps
    /\ hud \in BOOLEAN /\ pricesAsked \in BOOLEAN
    /\ button \in {"send", "done"}
    /\ form \in Forms \cup {NoForm}
    /\ prices \in Prices \cup {NoPrice}
    /\ order \in Orders \cup {NoOrder}
    /\ answered \in [eth : Amounts, price : Prices \cup {NoPrice}]
    /\ registered \subseteq Orders
    /\ broadcast \subseteq Orders
    /\ sent \subseteq Orders

\* Nothing reaches the chain that the backend does not list as pending, so
\* that its next nonce counts it, whatever is lost or killed on the way.
RegisteredFirst == broadcast \subseteq registered

\* Two different transactions of the account are never broadcast with the
\* same nonce: none of them replaces another one on the chain.
NoncesDistinct ==
    \A o, q \in broadcast : o.nonce = q.nonce => o = q

\* "Sent" is told only of a transaction the chain has.
SentOnChain == sent \subseteq broadcast

\* An ETH transfer is offered for confirmation only if the balance the
\* backend answered covers its amount and its own fee, except when getPrices
\* answered in between: then the check used another price than the order.
CoveredAsChecked ==
    page = "confirm" /\ ~IsContract(order.token) =>
        \/ order.value + Fee(order.price) <= answered.eth
        \/ order.price # answered.price

\* A covered screen is uncovered in the end: no error path of the seven
\* waits keeps the HUD, except the backend's refusal in SyncRefused.
HudGoes ==
    (hud /\ step # "refused") ~> (~hud \/ step = "refused")
=============================================================================
