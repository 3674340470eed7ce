---------------------------- MODULE WalletStore ----------------------------
(***************************************************************************)
(* The wallets an installation keeps, and the screens that change them.    *)
(*                                                                         *)
(* GSE_Wallet keeps four SSDB tables.  wallet/<uid> maps a wallet's name   *)
(* to its keystore, addresses/<uid> maps an address to the name it is      *)
(* stored under, wallet/<uid>/deleted keeps the keystores of removed       *)
(* wallets by address, and wallet/<uid>/current is the selected name.  A   *)
(* keystore is abstracted to the address it opens.  Every write is an SSDB *)
(* transaction of its own, so a rename or a removal is several steps and   *)
(* the process may be killed between two of them.  All handlers run on the *)
(* main thread: no handler starts while the writes of another are under    *)
(* way, and a progress HUD covers the screen while scrypt or the network   *)
(* is working, so there is one flow at a time.                             *)
(***************************************************************************)
EXTENDS Naturals

CONSTANTS Names,        \* the names a wallet can be given
          Addresses,    \* the accounts that can be created or imported
          NoName,       \* an absent name: a missing or an empty SSDB value
          NoAddress,    \* no keystore under a name
          FirstOf,      \* the first name of a set, in the order of hscan
          MaxCrashes    \* bound: how often the process is killed

ASSUME NamesAssumption == NoName \notin Names
ASSUME AddressesAssumption == NoAddress \notin Addresses
ASSUME FirstOfAssumption ==
    FirstOf \in [SUBSET Names -> Names \union {NoName}]
      /\ \A S \in SUBSET Names : S # {} => FirstOf[S] \in S
ASSUME MaxCrashesAssumption == MaxCrashes \in Nat

VARIABLES
    wallet,      \* hash wallet/<uid>: the address a name's keystore opens
    addresses,   \* hash addresses/<uid>: the name an address is stored under
    deleted,     \* hash wallet/<uid>/deleted: the name a keystore was removed under
    current,     \* key wallet/<uid>/current
    op,          \* the writes of the main thread's handler that are still to come
    flow,        \* the screen's flow across callbacks, timers and the HUD
    screen,      \* "guide": no wallet yet; "home": the wallet's tokens
    shown,       \* the wallet GSE_Main displays
    selecting,   \* the name a menu's 0.3 s block is about to select
    crashes      \* how often the process was killed

persisted == <<wallet, addresses, deleted, current>>
volatile  == <<op, flow, screen, shown, selecting>>
vars == <<persisted, volatile, crashes>>

-----------------------------------------------------------------------------

NameOrNone == Names \union {NoName}
AddressOrNone == Addresses \union {NoAddress}

\* Each write of storeKeystore, renameWallet and removeWallet, in its order.
Writes == {"hset_address", "hset_keystore", "set_current", "hdel_old",
           "hset_deleted", "hdel_keystore", "hdel_address", "del_current"}

Stages == {"idle", "unlocking_import", "creator", "redeeming", "encrypting",
           "created", "successor", "stuck", "renamed", "unlocking_removal", "removed"}

NoOp == [next |-> "none", name |-> NoName, old |-> NoName, addr |-> NoAddress]
StoreOp(n, a) == [next |-> "hset_address", name |-> n, old |-> NoName, addr |-> a]
RenameOp(n, m, a) == [next |-> "hset_address", name |-> n, old |-> m, addr |-> a]
\* Mutant: removeWallet does not file the keystore under deleted.
RemoveOpUnfiled(n, a) == [next |-> "hdel_keystore", name |-> n, old |-> NoName, addr |-> a]
RemoveOp(n, a) == [next |-> "hset_deleted", name |-> n, old |-> NoName, addr |-> a]

AtStage(s) == flow.stage = s /\ op = NoOp
IdleFlow == [stage |-> "idle", name |-> NoName, addr |-> NoAddress, import |-> NoAddress]
\* The creator's screen, with its import property: an account, or none.
CreatorFlow(a) == [IdleFlow EXCEPT !.stage = "creator", !.import = a]

\* The user can start something: no HUD, no write and no selection is pending.
Settled == AtStage("idle") /\ selecting = NoName

\* getWallets: the names that have a keystore.
WalletsIn(w) == {n \in Names : w[n] # NoAddress}

\* getCurrentWallet: the stored name, else the first wallet.  (The branch that
\* means to persist the default writes the empty string back: no change.)
CurrentIn(c, w) ==
    IF c # NoName THEN c
    ELSE IF WalletsIn(w) = {} THEN NoName ELSE FirstOf[WalletsIn(w)]
CurrentWallet == CurrentIn(current, wallet)

\* getKeystore:name has no entry; getWalletNameForAddress:address is empty.
NameFree(n) == wallet[n] = NoAddress
\* Mutant: the index is looked up under a key it is not written under.
AnyAddress(a) == a \in Addresses
AddressFree(a) == addresses[a] = NoName

\* showLogin: nothing without a current wallet, else the home screen gets its name.
ShowLogin == shown' = IF CurrentWallet = NoName THEN shown ELSE CurrentWallet

\* Somewhere a keystore of this address can still be read.
Held(a) == deleted[a] # NoName \/ \E n \in Names : wallet[n] = a

-----------------------------------------------------------------------------
(* Creating and importing: GSE_WalletImporter, GSE_WalletCreator.          *)

\* The guide or the menu opens the creator for a random account.
OpenCreator ==
    /\ Settled
    /\ flow' = CreatorFlow(NoAddress)
    /\ UNCHANGED <<persisted, op, screen, shown, selecting, crashes>>

\* viaMnemonicAction, viaPrivateKeyAction: the account is refused when its
\* address already has a name, else the creator opens with it.
ImportAccount(a) ==
    /\ Settled
    /\ AddressFree(a)
    /\ flow' = CreatorFlow(a)
    /\ UNCHANGED <<persisted, op, screen, shown, selecting, crashes>>

\* viaKeystoreAction: the keystore is decrypted first, under a HUD.
ImportKeystore(a) ==
    /\ Settled
    /\ flow' = [IdleFlow EXCEPT !.stage = "unlocking_import", !.import = a]
    /\ UNCHANGED <<persisted, op, screen, shown, selecting, crashes>>

\* Its callback: a wrong password, or an address that has a name, ends it.
ImportUnlocked(ok) ==
    /\ AtStage("unlocking_import")
    /\ flow' = IF ok /\ AddressFree(flow.import) THEN CreatorFlow(flow.import) ELSE IdleFlow
    /\ UNCHANGED <<persisted, op, screen, shown, selecting, crashes>>

LeaveCreator ==
    /\ AtStage("creator")
    /\ flow' = IdleFlow
    /\ UNCHANGED <<persisted, op, screen, shown, selecting, crashes>>

\* GSE_WalletCreator nextAction: the name must be free, and so must the address
\* of the imported account, or of a fresh random one no key of which is held.
\* A referral code is redeemed first.
CreateTapped(n, a, referral) ==
    /\ AtStage("creator")
    /\ NameFree(n)
    /\ IF flow.import = NoAddress THEN ~Held(a) ELSE a = flow.import
    /\ AddressFree(a)
    /\ flow' = [flow EXCEPT !.stage = IF referral THEN "redeeming" ELSE "encrypting",
                            !.name = n, !.addr = a]
    /\ UNCHANGED <<persisted, op, screen, shown, selecting, crashes>>

\* redeemRebateCode's answer.  On an invalid code the alert is shown and the HUD
\* is not hidden: it goes on covering the navigation controller.
Redeemed(answer) ==
    /\ AtStage("redeeming")
    /\ flow' = CASE answer = "ok"      -> [flow EXCEPT !.stage = "encrypting"]
                 [] answer = "network" -> CreatorFlow(flow.import)
                 [] answer = "invalid" -> [flow EXCEPT !.stage = "stuck"]
    /\ UNCHANGED <<persisted, op, screen, shown, selecting, crashes>>

\* Mutant: no return after the alert that there is no JSON.
EncryptedNoReturn(json) ==
    /\ AtStage("encrypting")
    /\ op' = IF json THEN StoreOp(flow.name, flow.addr) ELSE op
    /\ flow' = [flow EXCEPT !.stage = "created"]
    /\ UNCHANGED <<persisted, screen, shown, selecting, crashes>>

\* createOrImport: the callback of encryptSecretStorageJSON stores the keystore
\* under the name the tap captured, without looking at either table again.
Encrypted(json) ==
    /\ AtStage("encrypting")
    /\ IF json
       THEN /\ op' = StoreOp(flow.name, flow.addr)
            /\ flow' = [flow EXCEPT !.stage = "created"]
       ELSE /\ op' = op
            /\ flow' = CreatorFlow(flow.import)
    /\ UNCHANGED <<persisted, screen, shown, selecting, crashes>>

\* The 0.5 s block: the HUD goes and the successor screen, which has no way
\* back, is pushed.
ShowSuccess ==
    /\ AtStage("created")
    /\ flow' = [flow EXCEPT !.stage = "successor"]
    /\ UNCHANGED <<persisted, op, screen, shown, selecting, crashes>>

\* finish(name): the guide shows the current wallet (showLogin), the menu hands
\* the name to createdOrImported, which selects it 0.3 s later.
FinishCreation ==
    /\ AtStage("successor")
    /\ flow' = IdleFlow
    /\ IF screen = "guide"
       THEN screen' = "home" /\ ShowLogin /\ selecting' = NoName
       ELSE selecting' = flow.name /\ UNCHANGED <<screen, shown>>
    /\ UNCHANGED <<persisted, op, crashes>>

-----------------------------------------------------------------------------
(* Selecting, renaming and removing, from the home screen.                 *)

\* The menu lists getWallets; runSelectWallet calls createdOrImported.
SelectTapped(n) ==
    /\ Settled /\ screen = "home"
    /\ n \in WalletsIn(wallet)
    /\ selecting' = n
    /\ UNCHANGED <<persisted, op, flow, screen, shown, crashes>>

\* Mutant: the block does not update the home screen.
SelectedUnshown ==
    /\ selecting # NoName
    /\ current' = selecting
    /\ selecting' = NoName
    /\ UNCHANGED <<wallet, addresses, deleted, op, flow, screen, shown, crashes>>

\* The 0.3 s block: setCurrentWallet and main setWallet.
Selected ==
    /\ selecting # NoName
    /\ current' = selecting
    /\ shown' = selecting
    /\ selecting' = NoName
    /\ UNCHANGED <<wallet, addresses, deleted, op, flow, screen, crashes>>

\* GSE_WalletReName nextAction and renameWallet: refused when the new name has a
\* keystore or the current one has none.
RenameTapped(n) ==
    LET old == CurrentWallet IN
    /\ Settled /\ screen = "home"
    /\ old # NoName /\ n # old
    /\ NameFree(n)
    /\ ~NameFree(old)
    /\ op' = RenameOp(n, old, wallet[old])
    /\ flow' = [IdleFlow EXCEPT !.stage = "renamed"]
    /\ UNCHANGED <<persisted, screen, shown, selecting, crashes>>

\* The 1 s block hides the HUD and pops the rename screen.
RenameDone ==
    /\ AtStage("renamed")
    /\ flow' = IdleFlow
    /\ UNCHANGED <<persisted, op, screen, shown, selecting, crashes>>

\* GSE_WalletRemover nextAction: the keystore of the wallet that was current
\* when the screen opened is decrypted with the password, under a HUD.
RemoveTapped ==
    /\ Settled /\ screen = "home"
    /\ CurrentWallet # NoName
    /\ flow' = [IdleFlow EXCEPT !.stage = "unlocking_removal", !.name = CurrentWallet]
    /\ UNCHANGED <<persisted, op, screen, shown, selecting, crashes>>

\* The callback.  A name without a keystore cannot be decrypted, so removeWallet
\* finds the keystore it looks up again.
RemovalUnlocked(ok) ==
    /\ AtStage("unlocking_removal")
    /\ IF ok /\ ~NameFree(flow.name)
       THEN /\ op' = RemoveOp(flow.name, wallet[flow.name])
            /\ flow' = [flow EXCEPT !.stage = "removed"]
       ELSE flow' = IdleFlow /\ op' = op
    /\ UNCHANGED <<persisted, screen, shown, selecting, crashes>>

\* Mutant: the block returns before it hides the HUD when no wallet is left.
RemoveDoneUnlessLast ==
    /\ AtStage("removed")
    /\ WalletsIn(wallet) # {}
    /\ flow' = IdleFlow
    /\ ShowLogin
    /\ UNCHANGED <<persisted, op, screen, selecting, crashes>>

\* The 1 s block and the remover's finish: the guide when no wallet is left,
\* else the home screen shows the current wallet again.
RemoveDone ==
    /\ AtStage("removed")
    /\ flow' = IdleFlow
    /\ IF WalletsIn(wallet) = {}
       THEN screen' = "guide" /\ shown' = shown
       ELSE screen' = screen /\ ShowLogin
    /\ UNCHANGED <<persisted, op, selecting, crashes>>

-----------------------------------------------------------------------------
(* The writes, one SSDB transaction each.                                  *)

\* storeKeystore: the index first, then the keystore.  A rename goes on with
\* setCurrentWallet.
HSetAddress ==
    /\ op.next = "hset_address"
    /\ addresses' = [addresses EXCEPT ![op.addr] = op.name]
    /\ op' = [op EXCEPT !.next = "hset_keystore"]
    /\ UNCHANGED <<wallet, deleted, current, flow, screen, shown, selecting, crashes>>

HSetKeystore ==
    /\ op.next = "hset_keystore"
    /\ wallet' = [wallet EXCEPT ![op.name] = op.addr]
    /\ op' = IF op.old = NoName THEN NoOp ELSE [op EXCEPT !.next = "set_current"]
    /\ UNCHANGED <<addresses, deleted, current, flow, screen, shown, selecting, crashes>>

SetCurrent ==
    /\ op.next = "set_current"
    /\ current' = op.name
    /\ op' = [op EXCEPT !.next = "hdel_old"]
    /\ UNCHANGED <<wallet, addresses, deleted, flow, screen, shown, selecting, crashes>>

\* The last write of renameWallet; the rename screen's finish then shows the
\* current wallet.
HDelOld ==
    /\ op.next = "hdel_old"
    /\ wallet' = [wallet EXCEPT ![op.old] = NoAddress]
    /\ op' = NoOp
    /\ shown' = CurrentIn(current, wallet')
    /\ UNCHANGED <<addresses, deleted, current, flow, screen, selecting, crashes>>

HSetDeleted ==
    /\ op.next = "hset_deleted"
    /\ deleted' = [deleted EXCEPT ![op.addr] = op.name]
    /\ op' = [op EXCEPT !.next = "hdel_keystore"]
    /\ UNCHANGED <<wallet, addresses, current, flow, screen, shown, selecting, crashes>>

HDelKeystore ==
    /\ op.next = "hdel_keystore"
    /\ wallet' = [wallet EXCEPT ![op.name] = NoAddress]
    /\ op' = [op EXCEPT !.next = "hdel_address"]
    /\ UNCHANGED <<addresses, deleted, current, flow, screen, shown, selecting, crashes>>

HDelAddress ==
    /\ op.next = "hdel_address"
    /\ addresses' = [addresses EXCEPT ![op.addr] = NoName]
    /\ op' = [op EXCEPT !.next = "del_current"]
    /\ UNCHANGED <<wallet, deleted, current, flow, screen, shown, selecting, crashes>>

DelCurrent ==
    /\ op.next = "del_current"
    /\ current' = NoName
    /\ op' = NoOp
    /\ UNCHANGED <<wallet, addresses, deleted, flow, screen, shown, selecting, crashes>>

-----------------------------------------------------------------------------

\* The process is killed at any point and started again: viewDidLoad shows the
\* guide when there is no wallet, else showLogin shows the current one.
Crash ==
    /\ crashes < MaxCrashes
    /\ crashes' = crashes + 1
    /\ op' = NoOp
    /\ flow' = IdleFlow
    /\ selecting' = NoName
    /\ IF WalletsIn(wallet) = {}
       THEN screen' = "guide" /\ shown' = NoName
       ELSE screen' = "home" /\ ShowLogin
    /\ UNCHANGED persisted

Init ==
    /\ wallet = [n \in Names |-> NoAddress]
    /\ addresses = [a \in Addresses |-> NoName]
    /\ deleted = [a \in Addresses |-> NoName]
    /\ current = NoName
    /\ op = NoOp
    /\ flow = IdleFlow
    /\ screen = "guide"
    /\ shown = NoName
    /\ selecting = NoName
    /\ crashes = 0

\* What the user does.
UserNext ==
    \/ OpenCreator
    \/ \E a \in Addresses : ImportAccount(a)
    \/ \E a \in Addresses : ImportKeystore(a)
    \/ LeaveCreator
    \/ \E n \in Names, a \in Addresses, referral \in BOOLEAN : CreateTapped(n, a, referral)
    \/ FinishCreation
    \/ \E n \in Names : SelectTapped(n)
    \/ \E n \in Names : RenameTapped(n)
    \/ RemoveTapped

\* Callbacks and timers on the main queue.
QueueNext ==
    \/ \E ok \in BOOLEAN : ImportUnlocked(ok)
    \/ \E answer \in {"ok", "network", "invalid"} : Redeemed(answer)
    \/ \E json \in BOOLEAN : Encrypted(json)
    \/ ShowSuccess
    \/ Selected
    \/ RenameDone
    \/ \E ok \in BOOLEAN : RemovalUnlocked(ok)
    \/ RemoveDone

WriteNext ==
    \/ HSetAddress  \/ HSetKeystore \/ SetCurrent  \/ HDelOld
    \/ HSetDeleted  \/ HDelKeystore \/ HDelAddress \/ DelCurrent

Next == UserNext \/ QueueNext \/ WriteNext \/ Crash

\* A handler that runs finishes its writes, and every job handed to a queue
\* calls back; the user owes nothing.
Fairness == WF_vars(QueueNext) /\ WF_vars(WriteNext)

Spec == Init /\ [][Next]_vars /\ Fairness

-----------------------------------------------------------------------------
(* Properties.                                                             *)

TypeOK ==
    /\ wallet \in [Names -> AddressOrNone]
    /\ addresses \in [Addresses -> NameOrNone]
    /\ deleted \in [Addresses -> NameOrNone]
    /\ current \in NameOrNone
    /\ op \in [next : Writes \union {"none"}, name : NameOrNone, old : NameOrNone,
              addr : AddressOrNone]
    /\ flow \in [stage : Stages, name : NameOrNone, addr : AddressOrNone,
                import : AddressOrNone]
    /\ screen \in {"guide", "home"}
    /\ shown \in NameOrNone
    /\ selecting \in NameOrNone
    /\ crashes \in Nat

\* Between two handlers the tables agree.  As long as the process was never
\* killed the two are inverse to each other: getWalletNameForAddress answers
\* exactly for the addresses that a stored keystore opens, with the name it is
\* stored under; the check at the tap, the scrypt job after it and the writes
\* after that keep this up together.  And the selected name has a keystore, but
\* for a kill inside removeWallet after the keystore is gone and before the key
\* is deleted: then the name is one the deleted table knows.
TablesAgree ==
    op = NoOp =>
        /\ crashes = 0 => \A n \in Names, a \in Addresses : wallet[n] = a <=> addresses[a] = n
        /\ (current # NoName /\ wallet[current] = NoAddress) =>
              crashes > 0 /\ \E a \in Addresses : deleted[a] = current

\* The keystore of an address, once stored, stays readable, under a name or in
\* the deleted table, whatever is created, renamed or removed after it and
\* wherever the process is killed: storeKeystore never writes over another
\* keystore, renameWallet stores before it deletes, removeWallet files the
\* keystore under deleted before it takes it out of the table.
KeystoreNeverLost == [][\A a \in Addresses : Held(a) => Held(a)']_vars

\* What the home screen shows is what a tap on Send, Receive, Rename or Delete
\* acts on: those handlers call getCurrentWallet, not the name on display.
ShownIsCurrent == (Settled /\ screen = "home") => shown = CurrentWallet

\* When the success screen says a wallet was created, its name opens the account
\* the user confirmed, although both were captured before the scrypt job.
SuccessMeansStored ==
    flow.stage = "successor" => wallet[flow.name] = flow.addr

\* The stages a HUD or a modal answer covers, out of which the code leads by
\* itself.  (stuck is the one it does not lead out of.)
Covered == {"unlocking_import", "redeeming", "encrypting", "created", "renamed",
            "unlocking_removal", "removed"}

\* A screen that is waiting for scrypt, for the network or for a timer gets the
\* control back: each path through the callbacks hides the HUD and moves on,
\* except the answer that a referral code is invalid.
HudGoes == \A s \in Covered : flow.stage = s ~> (flow.stage # s)
=============================================================================
