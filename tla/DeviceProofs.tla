---------------------------- MODULE DeviceProofs ----------------------------
(***************************************************************************)
(* Proofs about what a device keeps beside its wallets: the client id of   *)
(* ClientId and the transaction lists of TxnLists.                         *)
(***************************************************************************)
EXTENDS ClientId, TxnLists, TLAPS

-----------------------------------------------------------------------------
(* ClientId, for any set of ids.  Whether a call does right depends on     *)
(* what it read two steps before it writes: IdInv says what a call may     *)
(* still rely on at each of its steps.                                     *)

\* A call that read the keychain found it empty if it means to save.
Unseen == call.step \in {"look", "write"} /\ "read" \notin call.met => keychain = NoId

\* What a call that met no lock has brought about so far.
Reconciling == call.met = {} =>
                  /\ call.step = "write" => call.found = NoId
                  /\ call.step \in {"look", "write"} /\ ~call.store => database = call.id
                  /\ call.step = "store" => keychain = call.id
                  /\ call.step = "return" => keychain = call.id /\ database = call.id

\* Without locks the stores agree, and hold whatever was told.
Agreed == ~blinded => /\ call.step # "idle" => call.met = {}
                      /\ keychain # NoId /\ database # NoId => keychain = database
                      /\ call.step \in {"look", "write"} /\ call.store => database = NoId
                      /\ \A x \in told : /\ {keychain, database} \subseteq {x, NoId}
                                         /\ keychain = x \/ database = x

IdInv == IdTypeOK /\ Unseen /\ Reconciling /\ Agreed

\* A device that was never used satisfies all of it.
LEMMA InitIdInv == IdInit => IdInv
  <1> SUFFICES ASSUME IdInit PROVE IdInv
    OBVIOUS
  <1>1. IdTypeOK
    BY DEF IdInit, IdTypeOK, Idle, Calls, Steps
  <1>2. Unseen /\ Reconciling /\ Agreed
    BY NoIdAssumption DEF IdInit, Unseen, Reconciling, Agreed, Idle
  <1> QED BY <1>1, <1>2 DEF IdInv

\* The plan of a call, case by case.
LEMMA PlanOf ==
  ASSUME IdTypeOK, NEW fresh \in Fresh, NEW plan, plan = Plan(ReadPassword, fresh)
  PROVE  /\ plan.step \in {"look", "store", "return"}
         /\ plan.id \in Ids
         /\ plan.store \in BOOLEAN
         /\ plan.step = "look" => ReadPassword = NoId
         /\ plan.step = "look" /\ ~plan.store => database = plan.id
         /\ plan.step = "look" /\ plan.store => database = NoId
         /\ plan.step = "store" => ReadPassword = plan.id
         /\ plan.step = "return" => ReadPassword = plan.id /\ database = plan.id
  <1>1. ReadPassword \in Ids \union {NoId}
    BY DEF ReadPassword, IdTypeOK
  <1>2. CASE database = NoId
    BY <1>1, <1>2, NoIdAssumption DEF Plan, Fresh, Answer, Store, Save, SaveAndStore
  <1>3. CASE database # NoId
    BY <1>1, <1>3, NoIdAssumption DEF Plan, Fresh, Answer, Store, Save, SaveAndStore, IdTypeOK
  <1> QED BY <1>2, <1>3

\* Every step of the code and of the device keeps it.
LEMMA StepIdInv == IdInv /\ [IdNext]_idVars => IdInv'
  <1> SUFFICES ASSUME IdInv, [IdNext]_idVars PROVE IdInv'
    OBVIOUS
  <1> USE NoIdAssumption DEF IdInv, IdTypeOK, Unseen, Reconciling, Agreed, Calls, Steps
  <1>1. CASE GetClientid
    <2>1. PICK fresh \in Fresh :
             call' = [step |-> Plan(ReadPassword, fresh).step, id |-> Plan(ReadPassword, fresh).id,
                      store |-> Plan(ReadPassword, fresh).store,
                      found |-> NoId, met |-> IF locked THEN {"read"} ELSE {}]
      BY <1>1 DEF GetClientid
    <2> DEFINE plan == Plan(ReadPassword, fresh)
    <2>2. /\ plan.step \in {"look", "store", "return"}
          /\ plan.id \in Ids
          /\ plan.store \in BOOLEAN
          /\ plan.step = "look" => ReadPassword = NoId
          /\ plan.step = "look" /\ ~plan.store => database = plan.id
          /\ plan.step = "look" /\ plan.store => database = NoId
          /\ plan.step = "store" => ReadPassword = plan.id
          /\ plan.step = "return" => ReadPassword = plan.id /\ database = plan.id
      BY PlanOf
    <2> HIDE DEF plan
    <2>3. call' = [step |-> plan.step, id |-> plan.id, store |-> plan.store,
                   found |-> NoId, met |-> IF locked THEN {"read"} ELSE {}]
      BY <2>1 DEF plan
    <2>4. IdTypeOK'
      BY <1>1, <2>2, <2>3 DEF GetClientid
    <2>5. Unseen'
      BY <1>1, <2>2, <2>3 DEF GetClientid, ReadPassword
    <2>6. Reconciling'
      BY <1>1, <2>2, <2>3 DEF GetClientid, ReadPassword
    <2>7. Agreed'
      BY <1>1, <2>2, <2>3 DEF GetClientid, ReadPassword
    <2> QED BY <2>4, <2>5, <2>6, <2>7
  <1>2. CASE SaveLooks
    <2>1. IdTypeOK'
      BY <1>2 DEF SaveLooks, MetBySave, ReadPassword
    <2>2. Unseen' /\ Reconciling' /\ Agreed'
      BY <1>2 DEF SaveLooks, MetBySave, ReadPassword
    <2> QED BY <2>1, <2>2
  <1>3. CASE SaveWrites
    <2>1. IdTypeOK'
      BY <1>3 DEF SaveWrites, MetBySave
    <2>2. Unseen' /\ Reconciling'
      BY <1>3 DEF SaveWrites, MetBySave
    <2>3. Agreed'
      BY <1>3 DEF SaveWrites, MetBySave
    <2> QED BY <2>1, <2>2, <2>3
  <1>4. CASE StoreValue
    BY <1>4 DEF StoreValue
  <1>5. CASE Return
    BY <1>5 DEF Return, Idle
  <1>6. CASE LockOrUnlock
    BY <1>6 DEF LockOrUnlock
  <1>7. CASE Kill
    BY <1>7 DEF Kill, Idle
  <1>8. CASE Reinstall
    BY <1>8 DEF Reinstall
  <1>9. CASE RestoreBackup
    BY <1>9 DEF RestoreBackup
  <1>10. CASE UNCHANGED idVars
    BY <1>10 DEF idVars
  <1> QED
    BY <1>1, <1>2, <1>3, <1>4, <1>5, <1>6, <1>7, <1>8, <1>9, <1>10 DEF IdNext

\* Every state of a device satisfies IdInv.
LEMMA IdInvariance == IdSpec => []IdInv
  BY InitIdInv, StepIdInv, PTL DEF IdSpec

\* The two stores and a call under way have their types (GSE_Wallet.m:362).
THEOREM IdTypes == IdSpec => []IdTypeOK
  <1>1. IdInv => IdTypeOK
    BY DEF IdInv
  <1> QED BY <1>1, IdInvariance, PTL

\* getClientid never answers two ids while one store held the first and no call
\* met a locked keychain.
THEOREM OneIdForever == IdSpec => []OneId
  <1>1. IdInv => OneId
    BY NoIdAssumption DEF IdInv, IdTypeOK, Agreed, OneId
  <1> QED BY <1>1, IdInvariance, PTL

\* A call that met no locked keychain leaves both stores with its answer.
THEOREM CallsReconcile == IdSpec => Settled
  <1>1. IdInv => (Return /\ call.met = {} => keychain = call.id /\ database = call.id)
    BY DEF IdInv, Reconciling, Return
  <1>2. IdInv /\ [IdNext]_idVars => [Return /\ call.met = {} => keychain = call.id /\ database = call.id]_idVars
    BY <1>1
  <1> QED BY <1>2, IdInvariance, PTL DEF IdSpec, Settled

\* The keychain's id is replaced only by a call that could not see it.
THEOREM KeychainOutlives == IdSpec => KeychainKept
  <1>1. IdInv /\ [IdNext]_idVars => [keychain # NoId /\ keychain' \notin {keychain, NoId}
                                   => "read" \in call.met]_idVars
    BY DEF IdInv, Unseen, IdNext, idVars, GetClientid, SaveLooks, SaveWrites, StoreValue, Return,
           LockOrUnlock, Kill, Reinstall, RestoreBackup
  <1> QED BY <1>1, IdInvariance, PTL DEF IdSpec, KeychainKept

-----------------------------------------------------------------------------
(* TxnLists, for any accounts, tokens, requests and notices.  What an      *)
(* answer does depends on what was true when its request was sent: ListInv *)
(* says that a request whose screen is still there is for that screen's    *)
(* list, and that nothing that is shown, stored or remembered is ahead of  *)
(* the backend.                                                            *)

\* A request whose screen is there asks for its list.
ForScreen == \A r \in Requests :
                /\ requests[r].state = "idle" => ~requests[r].alive
                /\ requests[r].alive => /\ screen.open
                                        /\ requests[r].account = screen.account
                                        /\ requests[r].list = screen.list

\* A list has no transaction the backend does not know.
Known(content) == content.account \in Accounts =>
                     content.count <= backend[content.account][content.list]

NothingAhead == /\ \A a \in Accounts : \A l \in Lists : Known(cache[a][l])
                /\ Known(screen.shown)
                /\ \A r \in Requests : Known(requests[r].since)

\* An answer is no older than what its request found on the screen.
AnswersNewer == \A r \in Requests :
                   requests[r].state = "served" =>
                      /\ requests[r].count <= backend[requests[r].account][requests[r].list]
                      /\ /\ requests[r].since.account = requests[r].account
                         /\ requests[r].since.list = requests[r].list
                         => requests[r].since.count <= requests[r].count

ListInv == TypeOK /\ ForScreen /\ NothingAhead /\ AnswersNewer /\ TokenCacheRight /\ ShownRight

-----------------------------------------------------------------------------

\* The empty list and the absent request have their types.
LEMMA Absent == /\ Nothing \in Contents /\ NoRequest \in AllRequests /\ Closed \in Screens
                /\ Nothing.account \notin Accounts
                /\ NoRequest.since = Nothing /\ Closed.shown = Nothing
  BY NoAccountAssumption, MaxTxnsAssumption
     DEF Nothing, Contents, NoRequest, AllRequests, RequestStates, Closed, Screens, Lists

LEMMA InitListInv == Init => ListInv
  <1> SUFFICES ASSUME Init PROVE ListInv
    OBVIOUS
  <1>1. TypeOK
    BY Absent, MaxTxnsAssumption DEF Init, TypeOK, Closed, NoRequest
  <1>2. ForScreen
    BY DEF Init, ForScreen, NoRequest
  <1>3. NothingAhead
    BY Absent DEF Init, NothingAhead, Known
  <1>4. AnswersNewer
    BY DEF Init, AnswersNewer, NoRequest
  <1>5. TokenCacheRight /\ ShownRight
    BY DEF Init, TokenCacheRight, ShownRight, IsListOf, Closed, Lists
  <1> QED BY <1>1, <1>2, <1>3, <1>4, <1>5 DEF ListInv

\* Sending a request for the list of the screen s, open from now on.
LEMMA SendKeeps ==
  ASSUME ListInv, NEW r \in Requests, NEW s \in Screens, NEW notice \in Notices \union {NoNotice},
         Send(r, s, notice), s.open, s.account \in Accounts, Known(s.shown),
         screen' = s, UNCHANGED <<backend, cache, current>>,
         screen.open => s.account = screen.account /\ s.list = screen.list
  PROVE  /\ requests' \in [Requests -> AllRequests]
         /\ \A q \in Requests : requests'[q].state # "idle" => requests'[q].account \in Accounts
         /\ ForScreen' /\ NothingAhead' /\ AnswersNewer'
  <1> DEFINE new == [state |-> "sent", account |-> s.account, list |-> s.list, alive |-> TRUE,
                     notice |-> notice, count |-> 0, since |-> s.shown]
  <1>1. requests' = [requests EXCEPT ![r] = new]
    BY DEF Send
  <1>2. new \in AllRequests
    BY MaxTxnsAssumption DEF AllRequests, RequestStates, Screens
  <1>3. requests' \in [Requests -> AllRequests]
    BY <1>1, <1>2 DEF ListInv, TypeOK
  <1>4. \A q \in Requests : requests'[q] = IF q = r THEN new ELSE requests[q]
    BY <1>1 DEF ListInv, TypeOK
  <1>5. \A q \in Requests : requests'[q].state # "idle" => requests'[q].account \in Accounts
    BY <1>4 DEF ListInv, TypeOK
  <1>6. ForScreen'
    BY <1>4 DEF ListInv, ForScreen
  <1>7. NothingAhead'
    BY <1>4 DEF ListInv, NothingAhead, Known
  <1>8. AnswersNewer'
    BY <1>4 DEF ListInv, AnswersNewer
  <1> QED BY <1>3, <1>5, <1>6, <1>7, <1>8

\* A request that ends without an answer being stored.
LEMMA EndKeeps ==
  ASSUME ListInv, NEW r \in Requests, requests' = [requests EXCEPT ![r] = NoRequest],
         UNCHANGED backend,
         screen'.open = screen.open, screen'.account = screen.account, screen'.list = screen.list
  PROVE  /\ requests' \in [Requests -> AllRequests]
         /\ \A q \in Requests : requests'[q].state # "idle" => requests'[q].account \in Accounts
         /\ ForScreen' /\ AnswersNewer'
         /\ \A q \in Requests : Known(requests[q].since)'
  <1>1. requests' \in [Requests -> AllRequests]
    BY Absent DEF ListInv, TypeOK
  <1>2. \A q \in Requests : requests'[q] = IF q = r THEN NoRequest ELSE requests[q]
    BY DEF ListInv, TypeOK
  <1>3. NoRequest.state = "idle" /\ ~NoRequest.alive
    BY DEF NoRequest
  <1>4. \A q \in Requests : requests'[q].state # "idle" => requests'[q].account \in Accounts
    BY <1>2, <1>3 DEF ListInv, TypeOK
  <1>5. ForScreen'
    BY <1>2, <1>3 DEF ListInv, ForScreen
  <1>6. AnswersNewer'
    BY <1>2, <1>3 DEF ListInv, AnswersNewer
  <1>7. \A q \in Requests : Known(requests[q].since)'
    BY <1>2, Absent DEF ListInv, NothingAhead, Known
  <1> QED BY <1>1, <1>4, <1>5, <1>6, <1>7

\* A completion handler is called, or none.
LEMMA FinishedType ==
  ASSUME TypeOK, NEW r \in Requests
  PROVE  Finished(r) \in [Notices -> Nat]
  <1>1. requests[r].notice \in Notices \union {NoNotice}
    BY DEF TypeOK, AllRequests
  <1> QED BY <1>1 DEF TypeOK, Finished

-----------------------------------------------------------------------------

LEMMA OpenKeeps == ASSUME ListInv, NEW list \in Lists, Open(list) PROVE ListInv'
  <1> DEFINE kept == cache[current][list]
             s == [Closed EXCEPT !.open = TRUE, !.account = current, !.list = list,
                                 !.shown = IF kept.count > 0 THEN kept ELSE Nothing,
                                 !.spinning = TRUE]
  <1>1. PICK r \in Requests : Send(r, s, NoNotice)
    BY DEF Open
  <1>2. screen' = s /\ UNCHANGED <<backend, cache, current, delivered, finished>> /\ ~screen.open
    BY DEF Open
  <1>3. kept \in Contents /\ current \in Accounts
    BY DEF ListInv, TypeOK
  <1>4. /\ s \in Screens
        /\ s.open /\ s.account = current /\ ~s.answered
        /\ s.shown = IF kept.count > 0 THEN kept ELSE Nothing
    BY <1>3, Absent DEF Closed, Screens
  <1>5. Known(s.shown)
    BY <1>3, <1>4, Absent DEF ListInv, NothingAhead, Known
  <1> HIDE DEF s, kept
  <1>6. /\ requests' \in [Requests -> AllRequests]
        /\ \A q \in Requests : requests'[q].state # "idle" => requests'[q].account \in Accounts
        /\ ForScreen' /\ NothingAhead' /\ AnswersNewer'
    BY <1>1, <1>2, <1>3, <1>4, <1>5, SendKeeps
  <1>7. TypeOK'
    BY <1>2, <1>3, <1>4, <1>6 DEF ListInv, TypeOK
  <1>8. TokenCacheRight' /\ ShownRight'
    BY <1>2, <1>4 DEF ListInv, TokenCacheRight, ShownRight
  <1> QED BY <1>6, <1>7, <1>8 DEF ListInv

LEMMA CloseKeeps == ASSUME ListInv, Close PROVE ListInv'
  <1>1. /\ screen' = Closed
        /\ requests' = [r \in Requests |-> [requests[r] EXCEPT !.alive = FALSE, !.since = Nothing]]
        /\ UNCHANGED <<backend, cache, current, delivered, finished>>
    BY DEF Close
  <1>2. \A r \in Requests : /\ requests'[r] \in AllRequests
                            /\ requests'[r].state = requests[r].state
                            /\ requests'[r].account = requests[r].account
                            /\ requests'[r].list = requests[r].list
                            /\ requests'[r].count = requests[r].count
                            /\ ~requests'[r].alive
                            /\ requests'[r].since = Nothing
    BY <1>1, Absent DEF ListInv, TypeOK, AllRequests
  <1>3. requests' \in [Requests -> AllRequests]
    BY <1>1, <1>2
  <1>4. ~Closed.open /\ ~Closed.answered
    BY DEF Closed
  <1>5. TypeOK'
    BY <1>1, <1>2, <1>3, <1>4, Absent DEF ListInv, TypeOK
  <1>6. ForScreen'
    BY <1>2 DEF ForScreen
  <1>7. NothingAhead'
    BY <1>1, <1>2, Absent DEF ListInv, NothingAhead, Known
  <1>8. AnswersNewer'
    <2>1. \A r \in Requests : requests[r].state = "served" => requests[r].account \in Accounts
      BY DEF ListInv, TypeOK
    <2> SUFFICES ASSUME NEW r \in Requests, requests'[r].state = "served"
                 PROVE  /\ requests'[r].count <= backend[requests'[r].account][requests'[r].list]
                        /\ requests'[r].since.account # requests'[r].account
      BY <1>1 DEF AnswersNewer
    <2>2. requests[r].state = "served" /\ requests[r].account \in Accounts
      BY <1>2, <2>1
    <2>3. requests'[r].count <= backend[requests'[r].account][requests'[r].list]
      BY <1>2, <2>2 DEF ListInv, AnswersNewer
    <2>4. requests'[r].since.account # requests'[r].account
      BY <1>2, <2>2, Absent
    <2> QED BY <2>3, <2>4
  <1>9. TokenCacheRight' /\ ShownRight'
    BY <1>1, <1>4 DEF ListInv, TokenCacheRight, ShownRight
  <1> QED BY <1>5, <1>6, <1>7, <1>8, <1>9 DEF ListInv

\* Reloading the screen that is open, from the screen or for a notice.
LEMMA ReloadKeeps ==
  ASSUME ListInv, NEW r \in Requests, NEW notice \in Notices \union {NoNotice},
         NEW s \in Screens, Send(r, s, notice), screen.open,
         screen' = s, s.open, s.account = screen.account, s.list = screen.list,
         s.shown = screen.shown, s.answered = screen.answered,
         UNCHANGED <<backend, cache, current>>,
         delivered' \subseteq Notices, finished' \in [Notices -> Nat]
  PROVE  ListInv'
  <1>1. s.account \in Accounts /\ Known(s.shown)
    BY DEF ListInv, TypeOK, NothingAhead
  <1>2. /\ requests' \in [Requests -> AllRequests]
        /\ \A q \in Requests : requests'[q].state # "idle" => requests'[q].account \in Accounts
        /\ ForScreen' /\ NothingAhead' /\ AnswersNewer'
    BY <1>1, SendKeeps
  <1>3. TypeOK'
    BY <1>1, <1>2 DEF ListInv, TypeOK
  <1>4. TokenCacheRight' /\ ShownRight'
    BY DEF ListInv, TokenCacheRight, ShownRight
  <1> QED BY <1>2, <1>3, <1>4 DEF ListInv

LEMMA PullKeeps == ASSUME ListInv, Pull PROVE ListInv'
  <1> DEFINE s == [screen EXCEPT !.spinning = TRUE]
  <1>1. PICK r \in Requests : Send(r, screen, NoNotice)
    BY DEF Pull
  <1>2. /\ screen' = s /\ screen.open
        /\ UNCHANGED <<backend, cache, current, delivered, finished>>
    BY DEF Pull
  <1>3. /\ s \in Screens
        /\ s.open = screen.open /\ s.account = screen.account /\ s.list = screen.list
        /\ s.shown = screen.shown /\ s.answered = screen.answered
    BY DEF ListInv, TypeOK, Screens
  <1>4. Send(r, s, NoNotice)
    BY <1>1, <1>3 DEF Send
  <1> HIDE DEF s
  <1>5. delivered' \subseteq Notices /\ finished' \in [Notices -> Nat]
    BY <1>2 DEF ListInv, TypeOK
  <1> QED BY <1>2, <1>3, <1>4, <1>5, ReloadKeeps

LEMMA NoticeKeeps ==
  ASSUME ListInv, NEW n \in Notices, NEW account \in Accounts, NEW list \in Lists,
         Notice(n, account, list)
  PROVE  ListInv'
  <1>1. /\ delivered' \subseteq Notices
        /\ UNCHANGED <<backend, cache, current, screen>>
    BY DEF Notice, ListInv, TypeOK
  <1>2. CASE Concerns(account, list)
    <2>1. PICK r \in Requests : Send(r, screen, n)
      BY <1>2 DEF Notice
    <2>2. screen.open /\ screen \in Screens /\ finished' \in [Notices -> Nat]
      BY <1>2 DEF Notice, Concerns, ListInv, TypeOK
    <2> QED BY <1>1, <2>1, <2>2, ReloadKeeps
  <1>3. CASE ~Concerns(account, list)
    <2>1. UNCHANGED requests /\ finished' \in [Notices -> Nat]
      BY <1>3 DEF Notice, ListInv, TypeOK
    <2> QED BY <1>1, <2>1 DEF ListInv, TypeOK, ForScreen, NothingAhead, Known, AnswersNewer,
                              TokenCacheRight, ShownRight
  <1> QED BY <1>2, <1>3

LEMMA CoverKeeps == ASSUME ListInv, CoverOrUncover PROVE ListInv'
  <1>1. /\ screen' = [screen EXCEPT !.covered = ~@]
        /\ UNCHANGED <<backend, cache, current, requests, delivered, finished>>
    BY DEF CoverOrUncover
  <1>2. /\ screen' \in Screens
        /\ screen'.open = screen.open /\ screen'.account = screen.account
        /\ screen'.list = screen.list /\ screen'.shown = screen.shown
        /\ screen'.answered = screen.answered
    BY <1>1 DEF ListInv, TypeOK, Screens
  <1> QED BY <1>1, <1>2 DEF ListInv, TypeOK, ForScreen, NothingAhead, Known, AnswersNewer,
                            TokenCacheRight, ShownRight

LEMMA SelectKeeps ==
  ASSUME ListInv, NEW account \in Accounts, SelectWallet(account) PROVE ListInv'
  BY DEF SelectWallet, ListInv, TypeOK, ForScreen, NothingAhead, Known, AnswersNewer,
         TokenCacheRight, ShownRight

\* The backend only learns: what was known stays known.
LEMMA GrowKeeps ==
  ASSUME ListInv, NEW account \in Accounts, NEW list \in Lists, Grow(account, list) PROVE ListInv'
  <1>1. /\ backend' = [backend EXCEPT ![account][list] = @ + 1]
        /\ backend[account][list] < MaxTxns
        /\ UNCHANGED <<cache, current, screen, requests, delivered, finished>>
    BY DEF Grow
  <1>2. backend \in [Accounts -> [Lists -> 0 .. MaxTxns]]
    BY DEF ListInv, TypeOK
  <1>3. backend[account][list] + 1 \in 0 .. MaxTxns
    BY <1>1, <1>2, MaxTxnsAssumption
  <1>4. backend' \in [Accounts -> [Lists -> 0 .. MaxTxns]]
    BY <1>1, <1>2, <1>3
  <1>5. \A a \in Accounts : \A l \in Lists : backend[a][l] \in Nat /\ backend[a][l] <= backend'[a][l]
    BY <1>1, <1>2
  <1>6. TypeOK'
    BY <1>1, <1>4 DEF ListInv, TypeOK
  <1>7. \A content \in Contents : Known(content) => Known(content)'
    <2>1. \A content \in Contents : content.list \in Lists /\ content.count \in Nat
      BY DEF Contents
    <2> QED BY <1>4, <1>5, <2>1 DEF Known
  <1>8. NothingAhead'
    <2>1. /\ \A a \in Accounts : \A l \in Lists : cache[a][l] \in Contents
          /\ screen.shown \in Contents
          /\ \A r \in Requests : requests[r].since \in Contents
      BY DEF ListInv, TypeOK, Screens, AllRequests
    <2> QED BY <1>1, <1>7, <2>1 DEF ListInv, NothingAhead, Known
  <1>9. AnswersNewer'
    <2>1. \A r \in Requests : /\ requests[r].count \in Nat /\ requests[r].list \in Lists
                              /\ requests[r].state = "served" => requests[r].account \in Accounts
      BY DEF ListInv, TypeOK, AllRequests
    <2> QED BY <1>1, <1>2, <1>4, <1>5, <2>1 DEF ListInv, AnswersNewer
  <1>10. ForScreen' /\ TokenCacheRight' /\ ShownRight'
    BY <1>1 DEF ListInv, ForScreen, TokenCacheRight, ShownRight
  <1> QED BY <1>6, <1>8, <1>9, <1>10 DEF ListInv

LEMMA ServeKeeps == ASSUME ListInv, NEW r \in Requests, Serve(r) PROVE ListInv'
  <1> DEFINE known == backend[requests[r].account][requests[r].list]
  <1>1. /\ requests[r].state = "sent"
        /\ requests' = [requests EXCEPT ![r].state = "served", ![r].count = known]
        /\ UNCHANGED <<backend, cache, current, screen, delivered, finished>>
    BY DEF Serve
  <1>2. requests[r] \in AllRequests /\ requests[r].account \in Accounts
    BY <1>1 DEF ListInv, TypeOK
  <1>3. known \in 0 .. MaxTxns
    BY <1>2 DEF ListInv, TypeOK, AllRequests
  <1>4. /\ requests'[r] \in AllRequests
        /\ requests'[r].state = "served" /\ requests'[r].count = known
        /\ requests'[r].account = requests[r].account /\ requests'[r].list = requests[r].list
        /\ requests'[r].alive = requests[r].alive /\ requests'[r].since = requests[r].since
        /\ \A q \in Requests : q # r => requests'[q] = requests[q]
    BY <1>1, <1>2, <1>3 DEF ListInv, TypeOK, AllRequests, RequestStates
  <1>5. requests' \in [Requests -> AllRequests]
    BY <1>1, <1>4 DEF ListInv, TypeOK
  <1>6. TypeOK'
    BY <1>1, <1>2, <1>4, <1>5 DEF ListInv, TypeOK
  <1>7. \A q \in Requests : /\ requests'[q].state = "idle" => requests[q].state = "idle"
                            /\ requests'[q].account = requests[q].account
                            /\ requests'[q].list = requests[q].list
                            /\ requests'[q].alive = requests[q].alive
                            /\ requests'[q].since = requests[q].since
    BY <1>4
  <1>8. ForScreen'
    BY <1>1, <1>7 DEF ListInv, ForScreen
  <1>9. NothingAhead'
    BY <1>1, <1>7 DEF ListInv, NothingAhead, Known
  <1>10. AnswersNewer'
    <2> SUFFICES ASSUME NEW q \in Requests, requests'[q].state = "served"
                 PROVE  /\ requests'[q].count <= backend[requests'[q].account][requests'[q].list]
                        /\ /\ requests'[q].since.account = requests'[q].account
                           /\ requests'[q].since.list = requests'[q].list
                           => requests'[q].since.count <= requests'[q].count
      BY <1>1 DEF AnswersNewer
    <2>1. CASE q = r
      BY <1>2, <1>3, <1>4, <2>1 DEF ListInv, NothingAhead, Known
    <2>2. CASE q # r
      BY <1>4, <2>2 DEF ListInv, AnswersNewer
    <2> QED BY <2>1, <2>2
  <1>11. TokenCacheRight' /\ ShownRight'
    BY <1>1 DEF ListInv, TokenCacheRight, ShownRight
  <1> QED BY <1>6, <1>8, <1>9, <1>10, <1>11 DEF ListInv

LEMMA AnsweredKeeps == ASSUME ListInv, NEW r \in Requests, Answered(r) PROVE ListInv'
  <1> DEFINE content == [account |-> requests[r].account, list |-> requests[r].list,
                         count |-> requests[r].count]
             account == requests[r].account
  <1>1. /\ requests[r].state = "served"
        /\ cache' = [cache EXCEPT ![account][FiledUnder(r)] = content]
        /\ screen' = IF Shows(r) THEN [screen EXCEPT !.shown = content, !.answered = TRUE,
                                                     !.spinning = FALSE]
                     ELSE screen
        /\ requests' = [requests EXCEPT ![r] = NoRequest]
        /\ finished' = Finished(r)
        /\ UNCHANGED <<backend, current, delivered>>
    BY DEF Answered
  <1>2. /\ requests[r] \in AllRequests /\ account \in Accounts
        /\ content \in Contents
        /\ content.account = account /\ content.list = requests[r].list
        /\ Known(content)
    BY <1>1 DEF ListInv, TypeOK, AllRequests, Contents, Known, AnswersNewer
  <1> HIDE DEF content
  <1>3. FiledUnder(r) \in Lists /\ (FiledUnder(r) \in Tokens => FiledUnder(r) = requests[r].list)
    BY <1>2, EtherAssumption DEF FiledUnder, AllRequests, Lists
  <1>4. cache' \in [Accounts -> [Lists -> Contents]]
    BY <1>1, <1>2, <1>3 DEF ListInv, TypeOK
  <1>5. \A a \in Accounts : \A l \in Lists :
           cache'[a][l] = IF a = account /\ l = FiledUnder(r) THEN content ELSE cache[a][l]
    BY <1>1, <1>2, <1>3 DEF ListInv, TypeOK
  <1>6. /\ screen' \in Screens
        /\ screen'.open = screen.open /\ screen'.account = screen.account
        /\ screen'.list = screen.list
        /\ screen'.shown = IF Shows(r) THEN content ELSE screen.shown
        /\ ~Shows(r) => screen'.answered = screen.answered
    BY <1>1, <1>2 DEF ListInv, TypeOK, Screens
  <1>7. /\ requests' \in [Requests -> AllRequests]
        /\ \A q \in Requests : requests'[q].state # "idle" => requests'[q].account \in Accounts
        /\ ForScreen' /\ AnswersNewer'
        /\ \A q \in Requests : Known(requests[q].since)'
    BY <1>1, <1>6, EndKeeps
  <1>8. TypeOK'
    BY <1>1, <1>4, <1>6, <1>7, FinishedType DEF ListInv, TypeOK
  <1>9. NothingAhead'
    <2>1. \A a \in Accounts : \A l \in Lists : Known(cache[a][l])'
      <3> SUFFICES ASSUME NEW a \in Accounts, NEW l \in Lists, cache'[a][l].account \in Accounts
                   PROVE  cache'[a][l].count <= backend[cache'[a][l].account][cache'[a][l].list]
        BY <1>1 DEF Known
      <3>1. CASE a = account /\ l = FiledUnder(r)
        BY <1>2, <1>5, <3>1 DEF Known
      <3>2. CASE ~(a = account /\ l = FiledUnder(r))
        BY <1>5, <3>2 DEF ListInv, NothingAhead, Known
      <3> QED BY <3>1, <3>2
    <2>2. Known(screen.shown)'
      BY <1>1, <1>2, <1>6 DEF ListInv, NothingAhead, Known
    <2> QED BY <1>7, <2>1, <2>2 DEF NothingAhead
  <1>10. TokenCacheRight'
    <2>1. \A t \in Tokens : t \in Lists
      BY DEF Lists
    <2> QED BY <1>2, <1>3, <1>5, <2>1 DEF ListInv, TokenCacheRight, IsListOf
  <1>11. ShownRight'
    BY <1>2, <1>6 DEF ListInv, ShownRight, IsListOf, Shows, ForScreen
  <1> QED BY <1>7, <1>8, <1>9, <1>10, <1>11 DEF ListInv

LEMMA FailedKeeps == ASSUME ListInv, NEW r \in Requests, Failed(r) PROVE ListInv'
  <1>1. /\ screen' = IF Shows(r) THEN [screen EXCEPT !.spinning = FALSE] ELSE screen
        /\ requests' = [requests EXCEPT ![r] = NoRequest]
        /\ finished' = Finished(r)
        /\ UNCHANGED <<backend, cache, current, delivered>>
    BY DEF Failed
  <1>2. /\ screen' \in Screens
        /\ screen'.open = screen.open /\ screen'.account = screen.account
        /\ screen'.list = screen.list /\ screen'.shown = screen.shown
        /\ screen'.answered = screen.answered
    BY <1>1 DEF ListInv, TypeOK, Screens
  <1>3. /\ requests' \in [Requests -> AllRequests]
        /\ \A q \in Requests : requests'[q].state # "idle" => requests'[q].account \in Accounts
        /\ ForScreen' /\ AnswersNewer'
        /\ \A q \in Requests : Known(requests[q].since)'
    BY <1>1, <1>2, EndKeeps
  <1>4. TypeOK'
    BY <1>1, <1>2, <1>3, FinishedType DEF ListInv, TypeOK
  <1>5. NothingAhead' /\ TokenCacheRight' /\ ShownRight'
    BY <1>1, <1>2, <1>3 DEF ListInv, NothingAhead, Known, TokenCacheRight, ShownRight
  <1> QED BY <1>3, <1>4, <1>5 DEF ListInv

-----------------------------------------------------------------------------

\* Every step of the screen, the requests, the notices and the backend keeps it.
LEMMA StepListInv == ListInv /\ [Next]_vars => ListInv'
  <1> SUFFICES ASSUME ListInv, [Next]_vars PROVE ListInv'
    OBVIOUS
  <1>1. CASE \E list \in Lists : Open(list)
    BY <1>1, OpenKeeps
  <1>2. CASE Close
    BY <1>2, CloseKeeps
  <1>3. CASE CoverOrUncover
    BY <1>3, CoverKeeps
  <1>4. CASE Pull
    BY <1>4, PullKeeps
  <1>5. CASE \E account \in Accounts : SelectWallet(account)
    BY <1>5, SelectKeeps
  <1>6. CASE \E account \in Accounts, list \in Lists : Grow(account, list)
    BY <1>6, GrowKeeps
  <1>7. CASE \E account \in Accounts, list \in Lists, n \in Notices : Notice(n, account, list)
    BY <1>7, NoticeKeeps
  <1>8. CASE \E r \in Requests : Serve(r)
    BY <1>8, ServeKeeps
  <1>9. CASE \E r \in Requests : Answered(r)
    BY <1>9, AnsweredKeeps
  <1>10. CASE \E r \in Requests : Failed(r)
    BY <1>10, FailedKeeps
  <1>11. CASE UNCHANGED vars
    BY <1>11 DEF vars, ListInv, TypeOK, ForScreen, NothingAhead, Known, AnswersNewer,
                 TokenCacheRight, ShownRight
  <1> QED
    BY <1>1, <1>2, <1>3, <1>4, <1>5, <1>6, <1>7, <1>8, <1>9, <1>10, <1>11 DEF Next

LEMMA ListInvariance == Spec => []ListInv
  BY InitListInv, StepListInv, PTL DEF Spec

\* The screen, the stored lists and the requests have their types.
THEOREM ListTypes == Spec => []TypeOK
  <1>1. ListInv => TypeOK
    BY DEF ListInv
  <1> QED BY <1>1, ListInvariance, PTL

\* A token's stored list is that token's, whenever answers come.
THEOREM TokenListsKept == Spec => []TokenCacheRight
  <1>1. ListInv => TokenCacheRight
    BY DEF ListInv
  <1> QED BY <1>1, ListInvariance, PTL

\* A screen that was answered shows its own list.
THEOREM ScreenShowsItsList == Spec => []ShownRight
  <1>1. ListInv => ShownRight
    BY DEF ListInv
  <1> QED BY <1>1, ListInvariance, PTL

\* An answer takes back what is shown only if another came since it was asked for.
THEOREM ShownOnlyGrows == Spec => NeverBack
  <1> DEFINE Overtaken == \E r \in Requests : /\ requests'[r] # requests[r]
                                              /\ requests[r].since # screen.shown
  <1>1. ListInv /\ [Next]_vars => [GoesBack => Overtaken]_vars
    <2> SUFFICES ASSUME ListInv, Next, GoesBack PROVE Overtaken
      OBVIOUS
    <2> HIDE DEF Overtaken
    <2>1. screen'.shown # screen.shown /\ screen.open /\ screen'.open
      <3>1. screen.shown.count \in Nat
        BY DEF ListInv, TypeOK, Screens, Contents
      <3> QED BY <3>1 DEF GoesBack
    <2>2. PICK r \in Requests : Answered(r) /\ Shows(r)
      <3>1. ASSUME NEW r \in Requests, Failed(r) PROVE screen'.shown = screen.shown
        BY <3>1 DEF Failed, ListInv, TypeOK, Screens
      <3>2. ASSUME NEW r \in Requests, Answered(r), ~Shows(r) PROVE screen'.shown = screen.shown
        BY <3>2 DEF Answered
      <3>3. CoverOrUncover => screen'.shown = screen.shown
        BY DEF CoverOrUncover, ListInv, TypeOK, Screens
      <3>4. Pull => screen'.shown = screen.shown
        BY DEF Pull, ListInv, TypeOK, Screens
      <3>5. ~Close
        <4>1. ~Closed.open
          BY DEF Closed
        <4> QED BY <2>1, <4>1 DEF Close
      <3> QED BY <2>1, <3>1, <3>2, <3>3, <3>4, <3>5
              DEF Next, Open, SelectWallet, Grow, Notice, Serve
    <2>3. requests[r].state = "served" /\ requests'[r] = NoRequest
      BY <2>2 DEF Answered, ListInv, TypeOK
    <2>4. requests'[r] # requests[r]
      BY <2>3 DEF NoRequest
    <2>5. /\ screen'.shown.account = requests[r].account
          /\ screen'.shown.list = requests[r].list
          /\ screen'.shown.count = requests[r].count
      BY <2>2 DEF Answered, ListInv, TypeOK, Screens
    <2>6. requests[r].since # screen.shown
      <3>1. /\ requests[r].count \in Nat /\ screen.shown.count \in Nat
        BY DEF ListInv, TypeOK, Screens, Contents, AllRequests
      <3>2. /\ requests[r].account = screen.shown.account
            /\ requests[r].list = screen.shown.list
            /\ requests[r].count < screen.shown.count
        BY <2>5 DEF GoesBack
      <3>3. requests[r].since = screen.shown => screen.shown.count <= requests[r].count
        BY <2>3, <3>2 DEF ListInv, AnswersNewer
      <3> QED BY <3>1, <3>2, <3>3
    <2> QED BY <2>4, <2>6 DEF Overtaken
  <1> QED BY <1>1, ListInvariance, PTL DEF Spec, NeverBack
=============================================================================
