------------------------------ MODULE TxnLists ------------------------------
(***************************************************************************)
(* The transaction lists of an account: the screen GSE_WalletTxns, the     *)
(* lists GSE_Wallet keeps in the database, the backend, and the push       *)
(* notices AppDelegate turns into reloads.                                 *)
(*                                                                         *)
(* Everything but the requests runs on the main thread.  A request holds   *)
(* its screen weakly: its answer may come when the screen is gone.  A      *)
(* list is abstracted to whose it is and how many transactions it had.     *)
(* A kill does no more than closing the screen and failing its requests,   *)
(* as a list is stored in one write, and is left out.                      *)
(***************************************************************************)
EXTENDS Naturals, FiniteSets

CONSTANTS Accounts,
          Tokens,      \* contracts
          Ether,       \* the list of an account that has no contract
          NoAccount,
          NoNotice,
          Requests,    \* bound: the requests under way at once
          Notices,     \* bound: the push notices that come
          MaxTxns,     \* bound: the transactions of a list
          Growing      \* bound: the lists that get them, <<account, list>>

Lists == Tokens \union {Ether}

ASSUME EtherAssumption == Ether \notin Tokens
ASSUME NoAccountAssumption == NoAccount \notin Accounts
ASSUME NoNoticeAssumption == NoNotice \notin Notices
ASSUME MaxTxnsAssumption == MaxTxns \in Nat

VARIABLES
    backend,    \* the transactions the backend knows of each list
    cache,      \* what is stored under tokens/txns/<contract>
    current,    \* the selected account
    screen,     \* GSE_WalletTxns, if it is open
    requests,   \* gse_getTxns requests
    delivered,  \* the notices the app was woken for
    finished    \* how often each notice's completion handler was called

vars == <<backend, cache, current, screen, requests, delivered, finished>>

-----------------------------------------------------------------------------

\* An array of transactions; Nothing is no array or an empty one.
Contents == [account : Accounts \union {NoAccount}, list : Lists, count : 0 .. MaxTxns]
Nothing == [account |-> NoAccount, list |-> Ether, count |-> 0]

Screens == [open : BOOLEAN, account : Accounts \union {NoAccount}, list : Lists,
            shown : Contents,
            answered : BOOLEAN,  \* shown has come from the backend
            spinning : BOOLEAN,  \* the refresh control
            covered : BOOLEAN]   \* another screen is on top
Closed == [open |-> FALSE, account |-> NoAccount, list |-> Ether, shown |-> Nothing,
           answered |-> FALSE, spinning |-> FALSE, covered |-> FALSE]

RequestStates == {"idle", "sent", "served"}
AllRequests == [state : RequestStates, account : Accounts \union {NoAccount}, list : Lists,
                alive : BOOLEAN,    \* its screen is not gone
                notice : Notices \union {NoNotice},
                count : 0 .. MaxTxns,
                since : Contents]   \* what its screen showed when it was sent
NoRequest == [state |-> "idle", account |-> NoAccount, list |-> Ether, alive |-> FALSE,
              notice |-> NoNotice, count |-> 0, since |-> Nothing]

Init == /\ backend \in [Accounts -> [Lists -> {0}]]
        /\ cache = [a \in Accounts |-> [l \in Lists |-> Nothing]]
        /\ current \in Accounts
        /\ screen = Closed
        /\ requests = [r \in Requests |-> NoRequest]
        /\ delivered = {}
        /\ finished = [n \in Notices |-> 0]

-----------------------------------------------------------------------------

\* reloadData: asks for the list of the screen s.
Send(r, s, notice) ==
    /\ requests[r].state = "idle"
    /\ requests' = [requests EXCEPT ![r] =
                       [state |-> "sent", account |-> s.account, list |-> s.list, alive |-> TRUE,
                        notice |-> notice, count |-> 0, since |-> s.shown]]

\* viewDidLoad shows what is stored, spins and reloads.
Open(list) ==
    /\ ~screen.open
    /\ LET kept == cache[current][list]
           s == [Closed EXCEPT !.open = TRUE, !.account = current, !.list = list,
                               !.shown = IF kept.count > 0 THEN kept ELSE Nothing,
                               !.spinning = TRUE]
       IN  /\ screen' = s
           /\ \E r \in Requests : Send(r, s, NoNotice)
    /\ UNCHANGED <<backend, cache, current, delivered, finished>>

\* The screen is popped; the navigation controller was all that held it.
Close ==
    /\ screen.open
    /\ screen' = Closed
    /\ requests' = [r \in Requests |-> [requests[r] EXCEPT !.alive = FALSE, !.since = Nothing]]
    /\ UNCHANGED <<backend, cache, current, delivered, finished>>

\* A transaction's details or a transfer on top, and back.
CoverOrUncover ==
    /\ screen.open
    /\ screen' = [screen EXCEPT !.covered = ~@]
    /\ UNCHANGED <<backend, cache, current, requests, delivered, finished>>

Pull ==
    /\ screen.open /\ ~screen.covered /\ ~screen.spinning
    /\ screen' = [screen EXCEPT !.spinning = TRUE]
    /\ \E r \in Requests : Send(r, screen, NoNotice)
    /\ UNCHANGED <<backend, cache, current, delivered, finished>>

SelectWallet(account) ==
    /\ ~screen.open
    /\ account # current /\ current' = account
    /\ UNCHANGED <<backend, cache, screen, requests, delivered, finished>>

-----------------------------------------------------------------------------

\* A notice that is for what is on screen reloads it, and any other is finished
\* at once.
Concerns(account, list) == /\ account = current
                           /\ screen.open /\ ~screen.covered
                           /\ list = screen.list

\* Mutation: a return is missing after the completion handler's call.
NoticeWithoutReturn(n, account, list) ==
    /\ n \notin delivered
    /\ delivered' = delivered \union {n}
    /\ finished' = IF list = screen.list THEN finished ELSE [finished EXCEPT ![n] = @ + 1]
    /\ IF account = current /\ screen.open /\ ~screen.covered
         THEN \E r \in Requests : Send(r, screen, n)
         ELSE UNCHANGED requests
    /\ UNCHANGED <<backend, cache, current, screen>>

Notice(n, account, list) ==
    /\ n \notin delivered
    /\ delivered' = delivered \union {n}
    /\ IF Concerns(account, list)
         THEN (\E r \in Requests : Send(r, screen, n)) /\ UNCHANGED finished
         ELSE finished' = [finished EXCEPT ![n] = @ + 1] /\ UNCHANGED requests
    /\ UNCHANGED <<backend, cache, current, screen>>

\* The backend learns of a transaction, and serves a request.
Grow(account, list) ==
    /\ <<account, list>> \in Growing /\ backend[account][list] < MaxTxns
    /\ backend' = [backend EXCEPT ![account][list] = @ + 1]
    /\ UNCHANGED <<cache, current, screen, requests, delivered, finished>>

Serve(r) ==
    /\ requests[r].state = "sent"
    /\ requests' = [requests EXCEPT ![r].state = "served",
                                    ![r].count = backend[requests[r].account][requests[r].list]]
    /\ UNCHANGED <<backend, cache, current, screen, delivered, finished>>

-----------------------------------------------------------------------------

Finished(r) == IF requests[r].notice = NoNotice THEN finished
               ELSE [finished EXCEPT ![requests[r].notice] = @ + 1]

\* Mutation: an answer is filed under the contract of the screen that is open.
FiledUnderScreen(r) == IF screen.open THEN screen.list ELSE Ether

\* weakSelf.contract: nil, which names the table of ether, once the screen is gone.
FiledUnder(r) == IF requests[r].alive THEN requests[r].list ELSE Ether

\* Mutation: an answer goes to whichever screen is open.
ShowsOnAny(r) == screen.open

\* An answer is shown by the screen that asked, if it is still there.
Shows(r) == requests[r].alive

Answered(r) ==
    LET content == [account |-> requests[r].account, list |-> requests[r].list,
                    count |-> requests[r].count]
    IN  /\ requests[r].state = "served"
        /\ cache' = [cache EXCEPT ![requests[r].account][FiledUnder(r)] = content]
        /\ screen' = IF Shows(r) THEN [screen EXCEPT !.shown = content, !.answered = TRUE,
                                                     !.spinning = FALSE]
                     ELSE screen
        /\ requests' = [requests EXCEPT ![r] = NoRequest]
        /\ finished' = Finished(r)
        /\ UNCHANGED <<backend, current, delivered>>

\* Mutation: a failure leaves the spinner to the next answer.
FailedSpinning(r) ==
    /\ requests[r].state \in {"sent", "served"}
    /\ requests' = [requests EXCEPT ![r] = NoRequest]
    /\ finished' = Finished(r)
    /\ UNCHANGED <<backend, cache, current, screen, delivered>>

\* Mutation: a failure forgets the notice.
FailedUnfinished(r) ==
    /\ requests[r].state \in {"sent", "served"}
    /\ screen' = IF Shows(r) THEN [screen EXCEPT !.spinning = FALSE] ELSE screen
    /\ requests' = [requests EXCEPT ![r] = NoRequest]
    /\ UNCHANGED <<backend, cache, current, delivered, finished>>

\* Mutation: a failure falls back to the list that is stored.
FailedToCache(r) ==
    /\ requests[r].state \in {"sent", "served"}
    /\ screen' = IF Shows(r) THEN [screen EXCEPT !.spinning = FALSE,
                                       !.shown = cache[screen.account][screen.list]]
                 ELSE screen
    /\ requests' = [requests EXCEPT ![r] = NoRequest]
    /\ finished' = Finished(r)
    /\ UNCHANGED <<backend, cache, current, delivered>>

\* An error, a timeout, or no array; the request may have been served.
Failed(r) ==
    /\ requests[r].state \in {"sent", "served"}
    /\ screen' = IF Shows(r) THEN [screen EXCEPT !.spinning = FALSE] ELSE screen
    /\ requests' = [requests EXCEPT ![r] = NoRequest]
    /\ finished' = Finished(r)
    /\ UNCHANGED <<backend, cache, current, delivered>>

Next == \/ \E list \in Lists : Open(list)
        \/ Close \/ CoverOrUncover \/ Pull
        \/ \E account \in Accounts :
              \/ SelectWallet(account)
              \/ \E list \in Lists : \/ Grow(account, list)
                                     \/ \E n \in Notices : Notice(n, account, list)
        \/ \E r \in Requests : Serve(r) \/ Answered(r) \/ Failed(r)

\* A session reports a timeout as an error, and the main queue runs on.
Fairness == \A r \in Requests : WF_vars(Answered(r) \/ Failed(r))

Spec == Init /\ [][Next]_vars /\ Fairness

-----------------------------------------------------------------------------

\* The types of the screen, the stored lists and the requests.
TypeOK == /\ backend \in [Accounts -> [Lists -> 0 .. MaxTxns]]
          /\ cache \in [Accounts -> [Lists -> Contents]]
          /\ current \in Accounts
          /\ screen \in Screens
          /\ screen.open => screen.account \in Accounts
          /\ requests \in [Requests -> AllRequests]
          /\ \A r \in Requests : requests[r].state # "idle" => requests[r].account \in Accounts
          /\ delivered \subseteq Notices
          /\ finished \in [Notices -> Nat]

IsListOf(content, account, list) ==
    content # Nothing => content.account = account /\ content.list = list

\* A stored list of a token is that token's, whatever screens were open and
\* which wallet was selected when its answer came (GSE_WalletTxns.m:272).
TokenCacheRight == \A a \in Accounts : \A t \in Tokens : IsListOf(cache[a][t], a, t)

\* Once the backend has answered a screen, it shows its own account's list of
\* its own contract, even if the list stored for it was another's and answers
\* asked for by screens before it are still to come (GSE_WalletTxns.m:251, 273).
ShownRight == screen.answered => IsListOf(screen.shown, screen.account, screen.list)

\* An answer takes back what the screen shows only if another answer has come
\* since it was asked for: one request after another never goes back.
GoesBack == /\ screen.open /\ screen'.open
            /\ screen'.shown.account = screen.shown.account
            /\ screen'.shown.list = screen.shown.list
            /\ screen'.shown.count < screen.shown.count
NeverBack == [][GoesBack => \E r \in Requests : /\ requests'[r] # requests[r]
                                                /\ requests[r].since # screen.shown]_vars

\* The spinner stops: each way a request can end ends it (GSE_WalletTxns.m:223).
SpinnerStops == screen.spinning ~> ~screen.spinning

\* The completion handler of a push notice is called, and only once: whether it
\* reloads a list or concerns none, and whatever becomes of the screen it
\* reloads (AppDelegate.m:142-180).
NoticeFinished == \A n \in Notices : n \in delivered ~> [](finished[n] = 1)

\* A list is stored under the contract it was asked for: "storeTxns:(id)txns
\* forAddress:(Address *)address atContract:(Address *)contract" (GSE_Wallet.h:59).
CacheRight == \A a \in Accounts : \A l \in Lists : IsListOf(cache[a][l], a, l)
=============================================================================
