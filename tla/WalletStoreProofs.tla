------------------------- MODULE WalletStoreProofs -------------------------
(***************************************************************************)
(* WalletStore for every set of names and accounts and any number of       *)
(* kills: its types, the inductive invariant that ties the pending writes  *)
(* of a handler to the tables, and from it that no keystore is ever lost.  *)
(* A second invariant says what the tables will hold when those writes are *)
(* done and what jobs and timers still hold when they call back; from it   *)
(* the tables agree, the screens say what is stored, and the store         *)
(* implements WalletBook until the process is first killed.                *)
(***************************************************************************)
EXTENDS WalletStoreRefinement, TLAPS

-----------------------------------------------------------------------------
(* The inductive invariant.                                                *)

\* A store or a rename is about to write under op.name, which has no keystore
\* yet; a rename still has the account under op.old.
Storing ==
    op.next \in {"hset_address", "hset_keystore"} =>
        /\ op.name \in Names /\ op.addr \in Addresses
        /\ wallet[op.name] = NoAddress
        /\ op.old # NoName => op.old # op.name /\ wallet[op.old] = op.addr

\* A rename has stored the account under op.name and not yet deleted op.old.
Moving ==
    op.next \in {"set_current", "hdel_old"} =>
        /\ op.name \in Names /\ op.old \in Names /\ op.addr \in Addresses
        /\ op.old # op.name
        /\ wallet[op.name] = op.addr /\ wallet[op.old] = op.addr

\* A removal has filed the account under deleted before it touches the table.
Discarding ==
    /\ op.next = "hset_deleted" =>
        op.name \in Names /\ op.addr \in Addresses /\ wallet[op.name] = op.addr
    /\ op.next \in {"hdel_keystore", "hdel_address", "del_current"} =>
        op.name \in Names /\ op.addr \in Addresses /\ deleted[op.addr] = op.name
    /\ op.next = "hdel_keystore" => wallet[op.name] = op.addr

\* Handlers do not overlap: while writes are pending the flow is in the stage
\* that started them, and while a job is running its name stays free.
FlowAgrees ==
    /\ op # NoOp => op.next # "none" /\ flow.stage \in {"created", "renamed", "removed"}
    /\ flow.stage \in {"redeeming", "encrypting"} =>
        flow.name \in Names /\ flow.addr \in Addresses /\ wallet[flow.name] = NoAddress
    /\ flow.stage = "unlocking_import" => flow.import \in Addresses
    /\ flow.stage = "unlocking_removal" => flow.name \in Names

IInv == TypeOK /\ Storing /\ Moving /\ Discarding /\ FlowAgrees

-----------------------------------------------------------------------------

LEMMA CurrentInType ==
    ASSUME NEW c \in NameOrNone, NEW w \in [Names -> AddressOrNone]
    PROVE  CurrentIn(c, w) \in NameOrNone
  BY FirstOfAssumption DEF CurrentIn, WalletsIn, NameOrNone

LEMMA InitIInv == Init => IInv
  BY NamesAssumption, AddressesAssumption
     DEF Init, IInv, TypeOK, Storing, Moving, Discarding, FlowAgrees, NoOp, IdleFlow,
         NameOrNone, AddressOrNone, Writes, Stages

\* Every step keeps the types: TypeOK alone is almost inductive, the flow's name
\* and the pending operation carry the rest.
LEMMA TypeStep == IInv /\ [Next]_vars => TypeOK'
  <1> SUFFICES ASSUME IInv, [Next]_vars PROVE TypeOK'
    OBVIOUS
  <1> USE NamesAssumption, AddressesAssumption, CurrentInType
      DEF IInv, TypeOK, NameOrNone, AddressOrNone, persisted
  <1>1. CASE UserNext
    <2>1. CASE OpenCreator
      BY <2>1 DEF OpenCreator, CreatorFlow, IdleFlow, Stages
    <2>2. ASSUME NEW a \in Addresses, ImportAccount(a) PROVE TypeOK'
      BY <2>2 DEF ImportAccount, CreatorFlow, IdleFlow, Stages
    <2>3. ASSUME NEW a \in Addresses, ImportKeystore(a) PROVE TypeOK'
      BY <2>3 DEF ImportKeystore, IdleFlow, Stages
    <2>4. CASE LeaveCreator
      BY <2>4 DEF LeaveCreator, IdleFlow, Stages
    <2>5. ASSUME NEW n \in Names, NEW a \in Addresses, NEW referral \in BOOLEAN,
                 CreateTapped(n, a, referral)
          PROVE TypeOK'
      BY <2>5, ZenonT(60) DEF CreateTapped, Stages
    <2>6. CASE FinishCreation
      BY <2>6 DEF FinishCreation, IdleFlow, Stages, ShowLogin, CurrentWallet
    <2>7. ASSUME NEW n \in Names, SelectTapped(n) PROVE TypeOK'
      BY <2>7 DEF SelectTapped
    <2>8. ASSUME NEW n \in Names, RenameTapped(n) PROVE TypeOK'
      BY <2>8 DEF RenameTapped, RenameOp, IdleFlow, Stages, Writes, CurrentWallet
    <2>9. CASE RemoveTapped
      BY <2>9 DEF RemoveTapped, IdleFlow, Stages, CurrentWallet
    <2> QED
      BY <1>1, <2>1, <2>2, <2>3, <2>4, <2>5, <2>6, <2>7, <2>8, <2>9 DEF UserNext
  <1>2. CASE QueueNext
    <2>1. ASSUME NEW ok \in BOOLEAN, ImportUnlocked(ok) PROVE TypeOK'
      BY <2>1, ZenonT(60) DEF ImportUnlocked, CreatorFlow, IdleFlow, Stages
    <2>2. ASSUME NEW answer \in {"ok", "network", "invalid"}, Redeemed(answer) PROVE TypeOK'
      <3>1. CASE answer = "ok"
        BY <2>2, <3>1 DEF Redeemed, Stages
      <3>2. CASE answer = "network"
        BY <2>2, <3>2, ZenonT(60) DEF Redeemed, CreatorFlow, IdleFlow, Stages
      <3>3. CASE answer = "invalid"
        BY <2>2, <3>3 DEF Redeemed, Stages
      <3>4. QED
        BY <3>1, <3>2, <3>3
    <2>3. ASSUME NEW json \in BOOLEAN, Encrypted(json) PROVE TypeOK'
      <3>1. flow.name \in Names /\ flow.addr \in Addresses
        BY <2>3 DEF Encrypted, AtStage, FlowAgrees
      <3>2. CASE json
        BY <2>3, <3>1, <3>2 DEF Encrypted, StoreOp, Stages, Writes
      <3>3. CASE ~json
        BY <2>3, <3>3, ZenonT(60) DEF Encrypted, CreatorFlow, IdleFlow, Stages
      <3>4. QED
        BY <3>2, <3>3
    <2>4. CASE ShowSuccess
      BY <2>4 DEF ShowSuccess, Stages
    <2>5. CASE Selected
      BY <2>5 DEF Selected
    <2>6. CASE RenameDone
      BY <2>6 DEF RenameDone, IdleFlow, Stages
    <2>7. ASSUME NEW ok \in BOOLEAN, RemovalUnlocked(ok) PROVE TypeOK'
      BY <2>7 DEF RemovalUnlocked, RemoveOp, IdleFlow, Stages, Writes, FlowAgrees, AtStage
    <2>8. CASE RemoveDone
      BY <2>8 DEF RemoveDone, IdleFlow, Stages, ShowLogin, CurrentWallet
    <2> QED
      BY <1>2, <2>1, <2>2, <2>3, <2>4, <2>5, <2>6, <2>7, <2>8 DEF QueueNext
  <1>3. CASE WriteNext
    <2> USE DEF Writes, NoOp
    <2>1. CASE HSetAddress
      BY <2>1 DEF HSetAddress
    <2>2. CASE HSetKeystore
      BY <2>2 DEF HSetKeystore
    <2>3. CASE SetCurrent
      BY <2>3 DEF SetCurrent
    <2>4. CASE HDelOld
      BY <2>4 DEF HDelOld
    <2>5. CASE HSetDeleted
      BY <2>5 DEF HSetDeleted
    <2>6. CASE HDelKeystore
      BY <2>6 DEF HDelKeystore
    <2>7. CASE HDelAddress
      BY <2>7 DEF HDelAddress
    <2>8. CASE DelCurrent
      BY <2>8 DEF DelCurrent
    <2> QED
      BY <1>3, <2>1, <2>2, <2>3, <2>4, <2>5, <2>6, <2>7, <2>8 DEF WriteNext
  <1>4. CASE Crash
    BY <1>4 DEF Crash, NoOp, IdleFlow, Stages, ShowLogin, CurrentWallet
  <1>5. CASE UNCHANGED vars
    BY <1>5 DEF vars, volatile
  <1> QED
    BY <1>1, <1>2, <1>3, <1>4, <1>5 DEF Next

\* A step that leaves the tables alone and starts no write keeps the parts about
\* the pending operation; only what it does to the flow is left to show.
LEMMA QuietStep ==
    ASSUME IInv, UNCHANGED persisted, op = NoOp, op' = op
    PROVE  Storing' /\ Moving' /\ Discarding'
  BY DEF IInv, Storing, Moving, Discarding, NoOp, persisted

LEMMA InvStep == IInv /\ [Next]_vars => (Storing /\ Moving /\ Discarding /\ FlowAgrees)'
  <1> DEFINE Goal == Storing /\ Moving /\ Discarding /\ FlowAgrees
  <1> SUFFICES ASSUME IInv, [Next]_vars PROVE Goal'
    OBVIOUS
  <1> USE NamesAssumption, AddressesAssumption DEF NameOrNone, AddressOrNone, persisted
  <1>1. CASE UserNext
    <2> USE QuietStep DEF FlowAgrees, AtStage, Settled, NameFree
    <2>1. CASE OpenCreator
      BY <2>1 DEF OpenCreator, CreatorFlow, IdleFlow
    <2>2. ASSUME NEW a \in Addresses, ImportAccount(a) PROVE Goal'
      BY <2>2 DEF ImportAccount, CreatorFlow, IdleFlow
    <2>3. ASSUME NEW a \in Addresses, ImportKeystore(a) PROVE Goal'
      BY <2>3 DEF ImportKeystore, IdleFlow
    <2>4. CASE LeaveCreator
      BY <2>4 DEF LeaveCreator, IdleFlow
    <2>5. ASSUME NEW n \in Names, NEW a \in Addresses, NEW referral \in BOOLEAN,
                 CreateTapped(n, a, referral)
          PROVE Goal'
      BY <2>5 DEF CreateTapped, IInv, TypeOK
    <2>6. CASE FinishCreation
      BY <2>6 DEF FinishCreation, IdleFlow
    <2>7. ASSUME NEW n \in Names, SelectTapped(n) PROVE Goal'
      BY <2>7 DEF SelectTapped, IInv
    <2>8. ASSUME NEW n \in Names, RenameTapped(n) PROVE Goal'
      <3>1. CurrentWallet \in Names /\ wallet[CurrentWallet] \in Addresses
        BY <2>8, CurrentInType DEF RenameTapped, CurrentWallet, IInv, TypeOK
      <3>2. QED
        BY <2>8, <3>1 DEF RenameTapped, RenameOp, IdleFlow, NoOp, Storing, Moving, Discarding
    <2>9. CASE RemoveTapped
      <3>1. CurrentWallet \in Names
        BY <2>9, CurrentInType DEF RemoveTapped, CurrentWallet, IInv, TypeOK
      <3>2. QED
        BY <2>9, <3>1 DEF RemoveTapped, IdleFlow
    <2> QED
      BY <1>1, <2>1, <2>2, <2>3, <2>4, <2>5, <2>6, <2>7, <2>8, <2>9 DEF UserNext
  <1>2. CASE QueueNext
    <2> USE QuietStep DEF FlowAgrees, AtStage, NameFree
    <2>1. ASSUME NEW ok \in BOOLEAN, ImportUnlocked(ok) PROVE Goal'
      BY <2>1 DEF ImportUnlocked, CreatorFlow, IdleFlow
    <2>2. ASSUME NEW answer \in {"ok", "network", "invalid"}, Redeemed(answer) PROVE Goal'
      <3>1. CASE answer = "ok"
        BY <2>2, <3>1 DEF Redeemed, IInv, TypeOK
      <3>2. CASE answer = "network"
        BY <2>2, <3>2 DEF Redeemed, CreatorFlow, IdleFlow
      <3>3. CASE answer = "invalid"
        BY <2>2, <3>3 DEF Redeemed, IInv, TypeOK
      <3>4. QED
        BY <3>1, <3>2, <3>3
    <2>3. ASSUME NEW json \in BOOLEAN, Encrypted(json) PROVE Goal'
      <3>1. CASE json
        BY <2>3, <3>1 DEF Encrypted, StoreOp, NoOp, Storing, Moving, Discarding, IInv, TypeOK
      <3>2. CASE ~json
        BY <2>3, <3>2 DEF Encrypted, CreatorFlow, IdleFlow
      <3>3. QED
        BY <3>1, <3>2
    <2>4. CASE ShowSuccess
      BY <2>4 DEF ShowSuccess, IInv, TypeOK
    <2>5. CASE Selected
      BY <2>5 DEF Selected, IInv, Storing, Moving, Discarding
    <2>6. CASE RenameDone
      BY <2>6 DEF RenameDone, IdleFlow
    <2>7. ASSUME NEW ok \in BOOLEAN, RemovalUnlocked(ok) PROVE Goal'
      <3>1. CASE ok /\ ~NameFree(flow.name)
        <4>1. flow.name \in Names /\ wallet[flow.name] \in Addresses
          BY <2>7, <3>1 DEF RemovalUnlocked, IInv, TypeOK
        <4>2. QED
          BY <2>7, <3>1, <4>1 DEF RemovalUnlocked, RemoveOp, NoOp, Storing, Moving,
                                  Discarding, IInv, TypeOK
      <3>2. CASE ~(ok /\ ~NameFree(flow.name))
        BY <2>7, <3>2 DEF RemovalUnlocked, IdleFlow
      <3>3. QED
        BY <3>1, <3>2
    <2>8. CASE RemoveDone
      BY <2>8 DEF RemoveDone, IdleFlow
    <2> QED
      BY <1>2, <2>1, <2>2, <2>3, <2>4, <2>5, <2>6, <2>7, <2>8 DEF QueueNext
  <1>3. CASE WriteNext
    <2> USE DEF NoOp, IInv, TypeOK, Storing, Moving, Discarding, FlowAgrees
    <2>1. CASE HSetAddress
      BY <2>1 DEF HSetAddress
    <2>2. CASE HSetKeystore
      BY <2>2 DEF HSetKeystore
    <2>3. CASE SetCurrent
      BY <2>3 DEF SetCurrent
    <2>4. CASE HDelOld
      BY <2>4 DEF HDelOld
    <2>5. CASE HSetDeleted
      BY <2>5 DEF HSetDeleted
    <2>6. CASE HDelKeystore
      BY <2>6 DEF HDelKeystore
    <2>7. CASE HDelAddress
      BY <2>7 DEF HDelAddress
    <2>8. CASE DelCurrent
      BY <2>8 DEF DelCurrent
    <2> QED
      BY <1>3, <2>1, <2>2, <2>3, <2>4, <2>5, <2>6, <2>7, <2>8 DEF WriteNext
  <1>4. CASE Crash
    BY <1>4 DEF Crash, NoOp, IdleFlow, Storing, Moving, Discarding, FlowAgrees
  <1>5. CASE UNCHANGED vars
    BY <1>5 DEF vars, volatile, IInv, Storing, Moving, Discarding, FlowAgrees
  <1> QED
    BY <1>1, <1>2, <1>3, <1>4, <1>5 DEF Next

LEMMA Inductive == Spec => []IInv
  <1>1. IInv /\ [Next]_vars => IInv'
    BY TypeStep, InvStep DEF IInv
  <1>2. QED
    BY InitIInv, <1>1, PTL DEF Spec

-----------------------------------------------------------------------------

\* The tables, the pending operation and the flow keep their types, whatever the
\* screens do and wherever the process is killed.
THEOREM TypeCorrect == Spec => []TypeOK
  BY Inductive, PTL DEF IInv

\* One step loses no keystore: only four writes touch the tables Held reads, and
\* for each the invariant says where the account also is.
LEMMA HeldStep ==
    ASSUME IInv, [Next]_vars, NEW a \in Addresses, Held(a)
    PROVE  Held(a)'
  <1> USE NamesAssumption, AddressesAssumption DEF Held, NameOrNone, AddressOrNone
  <1>1. CASE UNCHANGED <<wallet, deleted>>
    BY <1>1
  <1>2. CASE HSetKeystore
    <2>1. PICK n \in Names : deleted[a] # NoName \/ wallet[n] = a
      BY <1>2 DEF HSetKeystore, IInv, Storing
    <2>2. n # op.name \/ deleted[a] # NoName
      BY <1>2, <2>1 DEF HSetKeystore, IInv, Storing
    <2>3. QED
      BY <1>2, <2>1, <2>2 DEF HSetKeystore
  <1>3. CASE HDelOld
    <2>1. wallet[op.name] = op.addr /\ wallet[op.old] = op.addr /\ op.name # op.old
          /\ op.name \in Names
      BY <1>3 DEF HDelOld, IInv, Moving
    <2>2. wallet'[op.name] = op.addr
      BY <1>3, <2>1 DEF HDelOld, IInv, TypeOK
    <2>3. CASE a = op.addr
      BY <2>1, <2>2, <2>3
    <2>4. CASE a # op.addr
      <3>1. ASSUME NEW n \in Names, wallet[n] = a PROVE wallet'[n] = a
        BY <1>3, <2>1, <2>4, <3>1 DEF HDelOld, IInv, TypeOK
      <3>2. deleted' = deleted
        BY <1>3 DEF HDelOld
      <3>3. QED
        BY <3>1, <3>2
    <2>5. QED
      BY <2>3, <2>4
  <1>4. CASE HSetDeleted
    BY <1>4 DEF HSetDeleted, IInv, TypeOK, Discarding
  <1>5. CASE HDelKeystore
    <2>1. op.name \in Names /\ deleted[op.addr] = op.name /\ wallet[op.name] = op.addr
      BY <1>5 DEF HDelKeystore, IInv, Discarding
    <2>2. deleted' = deleted
      BY <1>5 DEF HDelKeystore
    <2>3. CASE a = op.addr
      BY <2>1, <2>2, <2>3
    <2>4. CASE a # op.addr
      <3>1. ASSUME NEW n \in Names, wallet[n] = a PROVE wallet'[n] = a
        BY <1>5, <2>1, <2>4, <3>1 DEF HDelKeystore, IInv, TypeOK
      <3>2. QED
        BY <2>2, <3>1
    <2>5. QED
      BY <2>3, <2>4
  <1>6. UNCHANGED <<wallet, deleted>>
        \/ HSetKeystore \/ HDelOld \/ HSetDeleted \/ HDelKeystore
    BY DEF Next, UserNext, QueueNext, WriteNext, vars, persisted, OpenCreator,
           ImportAccount, ImportKeystore, LeaveCreator, CreateTapped, FinishCreation,
           SelectTapped, RenameTapped, RemoveTapped, ImportUnlocked, Redeemed, Encrypted,
           ShowSuccess, Selected, RenameDone, RemovalUnlocked, RemoveDone, HSetAddress,
           SetCurrent, HDelAddress, DelCurrent, Crash
  <1>7. QED
    BY <1>1, <1>2, <1>3, <1>4, <1>5, <1>6

\* A keystore once stored can be read for ever after, under some name or in the
\* deleted table, across every rename, removal and kill of the process.
THEOREM NeverLost == Spec => KeystoreNeverLost
  <1>1. IInv /\ [Next]_vars => [\A a \in Addresses : Held(a) => Held(a)']_vars
    BY HeldStep
  <1>2. QED
    BY Inductive, <1>1, PTL DEF Spec, KeystoreNeverLost

-----------------------------------------------------------------------------
(* The agreement of the tables, of the screen and of the flow with them.   *)

\* Which handler the pending writes belong to, and what its flow says.
OfStage ==
    op # NoOp =>
        /\ op.next \in {"set_current", "hdel_old"} => op.old # NoName
        /\ Removing => op.old = NoName /\ flow.stage = "removed"
        /\ ~Removing /\ op.old # NoName => flow.stage = "renamed" /\ op.old \in Names
        /\ ~Removing /\ op.old = NoName =>
              flow.stage = "created" /\ op.name = flow.name /\ op.addr = flow.addr

\* The writes already done are still in the tables.
Done ==
    /\ op.next \in {"hset_keystore", "set_current", "hdel_old"} => addresses[op.addr] = op.name
    /\ op.next = "hdel_old" => current = op.name
    /\ op.next \in {"hdel_address", "del_current"} => wallet[op.name] = NoAddress
    /\ op.next = "del_current" => addresses[op.addr] = NoName

\* What a job or a timer captured still holds when it calls back: the account to
\* be created has no name, the account that was created is there, the wallet to
\* be removed is the selected one and the wallet to be selected has a keystore.
Captured ==
    /\ flow.stage \in {"redeeming", "encrypting"} => addresses[flow.addr] = NoName
    /\ flow.stage \in {"created", "successor"} =>
          /\ flow.name \in Names /\ flow.addr \in Addresses
          /\ op = NoOp => wallet[flow.name] = flow.addr
    /\ flow.stage = "unlocking_removal" => current \in {flow.name, NoName}
    /\ Removing => current \in {op.name, NoName}
    /\ selecting # NoName =>
          flow.stage = "idle" /\ op = NoOp /\ wallet[selecting] # NoAddress

\* A selected name without a keystore is one that was removed, by a handler that
\* has not finished or was killed.
Dangling ==
    (current # NoName /\ wallet[current] = NoAddress) =>
        /\ \E a \in Addresses : deleted[a] = current
        /\ crashes > 0 \/ op.next \in {"hdel_address", "del_current"}

\* The home screen shows the current wallet but for the time between a change
\* of the tables and the block that shows it.
ShowsCurrent ==
    (screen = "home" /\ op = NoOp /\ selecting = NoName
       /\ flow.stage \notin {"created", "successor", "removed"}) => shown = CurrentWallet

\* The index once the remaining writes of op are done, and the two tables.
FinalAddresses ==
    CASE op = NoOp -> addresses
      [] Removing  -> [addresses EXCEPT ![op.addr] = NoName]
      [] OTHER     -> [addresses EXCEPT ![op.addr] = op.name]
Inverse(w, x) == \A n \in Names, a \in Addresses : w[n] = a <=> x[a] = n
FinallyInverse == crashes = 0 => Inverse(FinalWallet, FinalAddresses)

AInv == OfStage /\ Done /\ Captured /\ Dangling /\ ShowsCurrent /\ FinallyInverse

LEMMA InverseEnter ==
    ASSUME NEW w \in [Names -> AddressOrNone], NEW x \in [Addresses -> NameOrNone],
           NEW n \in Names, NEW a \in Addresses,
           Inverse(w, x), w[n] = NoAddress, x[a] = NoName
    PROVE  Inverse([w EXCEPT ![n] = a], [x EXCEPT ![a] = n])
  BY NamesAssumption, AddressesAssumption DEF Inverse

LEMMA InverseMove ==
    ASSUME NEW w \in [Names -> AddressOrNone], NEW x \in [Addresses -> NameOrNone],
           NEW n \in Names, NEW m \in Names, n # m,
           Inverse(w, x), w[n] = NoAddress, w[m] \in Addresses
    PROVE  Inverse([w EXCEPT ![n] = w[m], ![m] = NoAddress], [x EXCEPT ![w[m]] = n])
  BY NamesAssumption, AddressesAssumption DEF Inverse

LEMMA InverseDiscard ==
    ASSUME NEW w \in [Names -> AddressOrNone], NEW x \in [Addresses -> NameOrNone],
           NEW n \in Names, Inverse(w, x), w[n] \in Addresses
    PROVE  Inverse([w EXCEPT ![n] = NoAddress], [x EXCEPT ![w[n]] = NoName])
  BY NamesAssumption, AddressesAssumption DEF Inverse

\* When no write is pending the outcome is what the tables hold.
LEMMA FinalQuiet ==
    ASSUME op = NoOp
    PROVE  /\ FinalWallet = wallet /\ FinalAddresses = addresses
           /\ FinalDeleted = deleted /\ FinalCurrent = current
  <1>1. ~Removing /\ ~Renaming
    BY DEF NoOp, Removing, Renaming
  <1>2. QED
    BY <1>1 DEF FinalWallet, FinalAddresses, FinalDeleted, FinalCurrent

\* A write that is done is taken off what remains: the outcome is the same.
LEMMA FinalStill ==
    ASSUME IInv, AInv, WriteNext
    PROVE  UNCHANGED <<FinalWallet, FinalAddresses, FinalDeleted, FinalCurrent>>
  <1> DEFINE Same == op'.name = op.name /\ op'.old = op.old /\ op'.addr = op.addr
  <1> USE NamesAssumption, AddressesAssumption DEF Removing, Renaming
  <1> IInv /\ TypeOK /\ OfStage /\ Done /\ Storing /\ Moving /\ Discarding
    BY DEF IInv, AInv
  <1>1. CASE HSetAddress
    <2>1. op # NoOp /\ op' # NoOp /\ op'.next = "hset_keystore" /\ Same
      BY <1>1 DEF HSetAddress, TypeOK, NoOp
    <2>2. FinalWallet' = FinalWallet
      BY <1>1, <2>1
         DEF FinalWallet, HSetAddress, TypeOK, Storing, Done, OfStage, NameOrNone,
             AddressOrNone
    <2>3. FinalAddresses' = FinalAddresses
      BY <1>1, <2>1
         DEF FinalAddresses, HSetAddress, TypeOK, Storing, Done, OfStage, NameOrNone,
             AddressOrNone
    <2>4. FinalDeleted' = FinalDeleted /\ FinalCurrent' = FinalCurrent
      BY <1>1, <2>1
         DEF FinalDeleted, FinalCurrent, HSetAddress, TypeOK, Storing, Done, OfStage,
             NameOrNone, AddressOrNone
    <2>5. QED
      BY <2>2, <2>3, <2>4
  <1>2. CASE HSetKeystore
    <2>1. CASE op.old = NoName
      <3>1. op # NoOp /\ op' = NoOp /\ op'.next = "none" /\ op'.old = NoName
        BY <1>2, <2>1 DEF HSetKeystore, NoOp
      <3>2. QED
        BY <1>2, <2>1, <3>1, ZenonT(60)
           DEF HSetKeystore, FinalWallet, FinalAddresses, FinalDeleted, FinalCurrent, Done,
               TypeOK,
                                Storing, OfStage, NameOrNone, AddressOrNone
    <2>2. CASE op.old # NoName
      <3>1. op # NoOp /\ op' # NoOp /\ op'.next = "set_current" /\ Same
        BY <1>2, <2>2 DEF HSetKeystore, TypeOK, NoOp
      <3>2. QED
        BY <1>2, <2>2, <3>1
           DEF HSetKeystore, FinalWallet, FinalAddresses, FinalDeleted, FinalCurrent, Done,
               TypeOK,
                                Storing, OfStage, NameOrNone, AddressOrNone
    <2>3. QED
      BY <2>1, <2>2
  <1>3. CASE SetCurrent
    <2>1. op # NoOp /\ op' # NoOp /\ op'.next = "hdel_old" /\ Same
      BY <1>3 DEF SetCurrent, TypeOK, NoOp
    <2>2. FinalWallet' = FinalWallet
      BY <1>3, <2>1
         DEF FinalWallet, SetCurrent, TypeOK, Moving, Done, OfStage, NameOrNone, AddressOrNone
    <2>3. FinalAddresses' = FinalAddresses
      BY <1>3, <2>1
         DEF FinalAddresses, SetCurrent, TypeOK, Moving, Done, OfStage, NameOrNone,
             AddressOrNone
    <2>4. FinalDeleted' = FinalDeleted /\ FinalCurrent' = FinalCurrent
      BY <1>3, <2>1
         DEF FinalDeleted, FinalCurrent, SetCurrent, TypeOK, Moving, Done, OfStage,
             NameOrNone, AddressOrNone
    <2>5. QED
      BY <2>2, <2>3, <2>4
  <1>4. CASE HDelOld
    <2>1. op # NoOp /\ op' = NoOp /\ op'.next = "none" /\ op'.old = NoName
      BY <1>4 DEF HDelOld, TypeOK, NoOp
    <2>2. FinalWallet' = FinalWallet
      <3>1. op.name \in Names /\ op.old \in Names /\ wallet[op.name] = op.addr /\ op.old # NoName /\ ~Removing
        BY <1>4, NamesAssumption DEF HDelOld, Moving
      <3>2. [wallet EXCEPT ![op.name] = op.addr] = wallet
        BY <3>1 DEF TypeOK
      <3>3. FinalWallet = [wallet EXCEPT ![op.old] = NoAddress]
        BY <2>1, <3>1, <3>2 DEF FinalWallet
      <3>4. QED
        BY <1>4, <2>1, <3>3 DEF FinalWallet, HDelOld
    <2>3. FinalAddresses' = FinalAddresses
      BY <1>4, <2>1
         DEF FinalAddresses, HDelOld, TypeOK, Moving, Done, OfStage, NameOrNone, AddressOrNone
    <2>4. FinalDeleted' = FinalDeleted /\ FinalCurrent' = FinalCurrent
      BY <1>4, <2>1
         DEF FinalDeleted, FinalCurrent, HDelOld, TypeOK, Moving, Done, OfStage, NameOrNone,
             AddressOrNone
    <2>5. QED
      BY <2>2, <2>3, <2>4
  <1>5. CASE HSetDeleted
    <2>1. op # NoOp /\ op' # NoOp /\ op'.next = "hdel_keystore" /\ Same
      BY <1>5 DEF HSetDeleted, TypeOK, NoOp
    <2>2. FinalWallet' = FinalWallet
      BY <1>5, <2>1
         DEF FinalWallet, HSetDeleted, TypeOK, Discarding, Done, OfStage, NameOrNone,
             AddressOrNone
    <2>3. FinalAddresses' = FinalAddresses
      BY <1>5, <2>1
         DEF FinalAddresses, HSetDeleted, TypeOK, Discarding, Done, OfStage, NameOrNone,
             AddressOrNone
    <2>4. FinalDeleted' = FinalDeleted /\ FinalCurrent' = FinalCurrent
      BY <1>5, <2>1
         DEF FinalDeleted, FinalCurrent, HSetDeleted, TypeOK, Discarding, Done, OfStage,
             NameOrNone, AddressOrNone
    <2>5. QED
      BY <2>2, <2>3, <2>4
  <1>6. CASE HDelKeystore
    <2>1. op # NoOp /\ op' # NoOp /\ op'.next = "hdel_address" /\ Same
      BY <1>6 DEF HDelKeystore, TypeOK, NoOp
    <2>2. FinalWallet' = FinalWallet
      BY <1>6, <2>1
         DEF FinalWallet, HDelKeystore, TypeOK, Discarding, Done, OfStage, NameOrNone,
             AddressOrNone
    <2>3. FinalAddresses' = FinalAddresses
      BY <1>6, <2>1
         DEF FinalAddresses, HDelKeystore, TypeOK, Discarding, Done, OfStage, NameOrNone,
             AddressOrNone
    <2>4. FinalDeleted' = FinalDeleted /\ FinalCurrent' = FinalCurrent
      BY <1>6, <2>1
         DEF FinalDeleted, FinalCurrent, HDelKeystore, TypeOK, Discarding, Done, OfStage,
             NameOrNone, AddressOrNone
    <2>5. QED
      BY <2>2, <2>3, <2>4
  <1>7. CASE HDelAddress
    <2>1. op # NoOp /\ op' # NoOp /\ op'.next = "del_current" /\ Same
      BY <1>7 DEF HDelAddress, TypeOK, NoOp
    <2>2. FinalWallet' = FinalWallet
      BY <1>7, <2>1
         DEF FinalWallet, HDelAddress, TypeOK, Discarding, Done, OfStage, NameOrNone,
             AddressOrNone
    <2>3. FinalAddresses' = FinalAddresses
      BY <1>7, <2>1
         DEF FinalAddresses, HDelAddress, TypeOK, Discarding, Done, OfStage, NameOrNone,
             AddressOrNone
    <2>4. FinalDeleted' = FinalDeleted /\ FinalCurrent' = FinalCurrent
      BY <1>7, <2>1
         DEF FinalDeleted, FinalCurrent, HDelAddress, TypeOK, Discarding, Done, OfStage,
             NameOrNone, AddressOrNone
    <2>5. QED
      BY <2>2, <2>3, <2>4
  <1>8. CASE DelCurrent
    <2>1. op # NoOp /\ op' = NoOp /\ op'.next = "none" /\ op'.old = NoName
      BY <1>8 DEF DelCurrent, TypeOK, NoOp
    <2>2. FinalWallet' = FinalWallet
      BY <1>8, <2>1
         DEF FinalWallet, DelCurrent, TypeOK, Discarding, Done, OfStage, NameOrNone,
             AddressOrNone
    <2>3. FinalAddresses' = FinalAddresses
      BY <1>8, <2>1
         DEF FinalAddresses, DelCurrent, TypeOK, Discarding, Done, OfStage, NameOrNone,
             AddressOrNone
    <2>4. FinalDeleted' = FinalDeleted /\ FinalCurrent' = FinalCurrent
      BY <1>8, <2>1
         DEF FinalDeleted, FinalCurrent, DelCurrent, TypeOK, Discarding, Done, OfStage,
             NameOrNone, AddressOrNone
    <2>5. QED
      BY <2>2, <2>3, <2>4
  <1> QED
    BY <1>1, <1>2, <1>3, <1>4, <1>5, <1>6, <1>7, <1>8 DEF WriteNext

\* As long as nothing was killed, the two tables will be inverse to each other
\* whatever a handler starts.
LEMMA FinallyInverseStep ==
    ASSUME IInv, AInv, [Next]_vars
    PROVE  FinallyInverse'
  <1> USE NamesAssumption, AddressesAssumption
  <1> IInv /\ TypeOK /\ FlowAgrees /\ OfStage /\ Captured /\ FinallyInverse
    BY DEF IInv, AInv
  <1> SUFFICES ASSUME crashes' = 0 PROVE Inverse(FinalWallet, FinalAddresses)'
    BY DEF FinallyInverse
  <1>1. CASE WriteNext
    <2>1. crashes' = crashes
      BY <1>1 DEF WriteNext, HSetAddress, HSetKeystore, SetCurrent, HDelOld, HSetDeleted,
                  HDelKeystore, HDelAddress, DelCurrent
    <2>2. QED
      BY <1>1, <2>1, FinalStill DEF FinallyInverse, Inverse
  <1>2. ASSUME NEW n \in Names, RenameTapped(n) PROVE Inverse(FinalWallet, FinalAddresses)'
    <2> DEFINE old == CurrentWallet
    <2>1. old \in Names /\ wallet[old] \in Addresses /\ n # old /\ wallet[n] = NoAddress /\ op = NoOp
      BY <1>2, CurrentInType
         DEF RenameTapped, CurrentWallet, TypeOK, NameFree, NameOrNone, AddressOrNone,
             Settled, AtStage
    <2>2. Inverse(wallet, addresses)
      BY <1>2, <2>1, FinalQuiet DEF FinallyInverse, RenameTapped
    <2>3. /\ op' # NoOp /\ ~Removing' /\ Renaming'
          /\ op'.name = n /\ op'.old = old /\ op'.addr = wallet[old]
          /\ wallet' = wallet /\ addresses' = addresses
      BY <1>2, <2>1 DEF RenameTapped, RenameOp, NoOp, Removing, Renaming, persisted
    <2>4. Inverse([wallet EXCEPT ![n] = wallet[old], ![old] = NoAddress], [addresses EXCEPT ![wallet[old]] = n])
      BY <2>1, <2>2, InverseMove DEF TypeOK
    <2>5. QED
      BY <2>3, <2>4 DEF FinalWallet, FinalAddresses
  <1>3. ASSUME NEW json \in BOOLEAN, Encrypted(json), json PROVE Inverse(FinalWallet, FinalAddresses)'
    <2> DEFINE n == flow.name  a == flow.addr
    <2>1. n \in Names /\ a \in Addresses /\ wallet[n] = NoAddress /\ addresses[a] = NoName /\ op = NoOp
      BY <1>3 DEF Encrypted, AtStage, FlowAgrees, Captured
    <2>2. Inverse(wallet, addresses)
      BY <1>3, <2>1, FinalQuiet DEF FinallyInverse, Encrypted
    <2>3. /\ op' # NoOp /\ ~Removing' /\ ~Renaming' /\ op'.name = n /\ op'.addr = a
          /\ wallet' = wallet /\ addresses' = addresses
      BY <1>3, <2>1 DEF Encrypted, StoreOp, NoOp, Removing, Renaming, persisted
    <2>4. Inverse([wallet EXCEPT ![n] = a], [addresses EXCEPT ![a] = n])
      BY <2>1, <2>2, InverseEnter DEF TypeOK
    <2>5. QED
      BY <2>3, <2>4 DEF FinalWallet, FinalAddresses
  <1>4. ASSUME NEW ok \in BOOLEAN, RemovalUnlocked(ok), ok, ~NameFree(flow.name)
        PROVE  Inverse(FinalWallet, FinalAddresses)'
    <2> DEFINE n == flow.name
    <2>1. n \in Names /\ wallet[n] \in Addresses /\ op = NoOp
      BY <1>4 DEF RemovalUnlocked, AtStage, FlowAgrees, TypeOK, NameFree, AddressOrNone
    <2>2. Inverse(wallet, addresses)
      BY <1>4, <2>1, FinalQuiet DEF FinallyInverse, RemovalUnlocked
    <2>3. /\ op' # NoOp /\ Removing' /\ ~Renaming' /\ op'.name = n /\ op'.addr = wallet[n]
          /\ wallet' = wallet /\ addresses' = addresses
      BY <1>4, <2>1 DEF RemovalUnlocked, RemoveOp, NoOp, Removing, Renaming, persisted
    <2>4. Inverse([wallet EXCEPT ![n] = NoAddress], [addresses EXCEPT ![wallet[n]] = NoName])
      BY <2>1, <2>2, InverseDiscard DEF TypeOK
    <2>5. QED
      BY <2>3, <2>4 DEF FinalWallet, FinalAddresses
  <1>5. CASE UNCHANGED <<wallet, addresses, op, crashes>>
    <2>1. FinalWallet' = FinalWallet /\ FinalAddresses' = FinalAddresses
      BY <1>5 DEF FinalWallet, FinalAddresses, Removing, Renaming
    <2>2. QED
      BY <1>5, <2>1 DEF FinallyInverse, Inverse
  <1>6. \/ WriteNext \/ UNCHANGED <<wallet, addresses, op, crashes>>
        \/ \E n \in Names : RenameTapped(n)
        \/ \E json \in BOOLEAN : Encrypted(json) /\ json
        \/ \E ok \in BOOLEAN : RemovalUnlocked(ok) /\ ok /\ ~NameFree(flow.name)
    <2>1. CASE Crash
      BY <2>1 DEF Crash, TypeOK
    <2>2. CASE QueueNext
      BY <2>2 DEF QueueNext, persisted, ImportUnlocked, Redeemed, Encrypted,
             ShowSuccess, Selected, RenameDone, RemovalUnlocked, RemoveDone
    <2>3. CASE UserNext
      BY <2>3 DEF UserNext, persisted, OpenCreator,
             ImportAccount, ImportKeystore, LeaveCreator, CreateTapped, FinishCreation,
             SelectTapped, RemoveTapped
    <2>4. QED
      BY <2>1, <2>2, <2>3 DEF Next, vars, persisted, volatile
  <1>7. QED
    BY <1>1, <1>2, <1>3, <1>4, <1>5, <1>6

\* A wallet is current whenever there is one.
LEMMA CurrentThere ==
    ASSUME NEW c \in NameOrNone, NEW w \in [Names -> AddressOrNone],
           WalletsIn(w) # {} \/ \E n \in Names : w[n] \in Addresses
    PROVE  CurrentIn(c, w) # NoName
  BY FirstOfAssumption, NamesAssumption, AddressesAssumption DEF CurrentIn, WalletsIn

\* The writes, the flow and what a job captured agree after every step.
LEMMA CapturedStep ==
    ASSUME IInv, AInv, [Next]_vars
    PROVE  (OfStage /\ Done /\ Captured)'
  <1> DEFINE Goal == OfStage /\ Done /\ Captured
  <1> USE NamesAssumption, AddressesAssumption
          DEF IInv, TypeOK, Storing, Moving, Discarding, FlowAgrees, AInv, persisted, Settled,
              AtStage, NoOp, NameOrNone, AddressOrNone, Removing, OfStage, Done, Captured
  <1> SUFFICES Goal'
    OBVIOUS
  <1>1. CASE UserNext
    <2>1. CASE OpenCreator
      BY <2>1 DEF OpenCreator, CreatorFlow, IdleFlow
    <2>2. ASSUME NEW a \in Addresses, ImportAccount(a) PROVE Goal'
      BY <2>2 DEF ImportAccount, CreatorFlow, IdleFlow
    <2>3. ASSUME NEW a \in Addresses, ImportKeystore(a) PROVE Goal'
      BY <2>3 DEF ImportKeystore, IdleFlow
    <2>4. CASE LeaveCreator
      BY <2>4 DEF LeaveCreator, IdleFlow
    <2>5. ASSUME NEW n \in Names, NEW a \in Addresses, NEW referral \in BOOLEAN, CreateTapped(n, a, referral) PROVE Goal'
      BY <2>5 DEF CreateTapped, AddressFree
    <2>6. CASE FinishCreation
      BY <2>6 DEF FinishCreation, IdleFlow
    <2>7. ASSUME NEW n \in Names, SelectTapped(n) PROVE Goal'
      BY <2>7 DEF SelectTapped, WalletsIn
    <2>8. ASSUME NEW n \in Names, RenameTapped(n) PROVE Goal'
      <3> DEFINE old == CurrentWallet
      <3>1. old \in Names /\ wallet[old] \in Addresses
        BY <2>8, CurrentInType DEF RenameTapped, CurrentWallet, NameFree
      <3>2. /\ op' = [next |-> "hset_address", name |-> n, old |-> old, addr |-> wallet[old]]
            /\ flow'.stage = "renamed" /\ selecting' = NoName
        BY <2>8 DEF RenameTapped, RenameOp, IdleFlow
      <3>3. QED
        BY <2>8, <3>1, <3>2 DEF RenameTapped
    <2>9. CASE RemoveTapped
      BY <2>9 DEF RemoveTapped, IdleFlow, CurrentWallet, CurrentIn
    <2> QED
      BY <1>1, <2>1, <2>2, <2>3, <2>4, <2>5, <2>6, <2>7, <2>8, <2>9 DEF UserNext
  <1>2. CASE QueueNext
    <2>1. ASSUME NEW ok \in BOOLEAN, ImportUnlocked(ok) PROVE Goal'
      BY <2>1 DEF ImportUnlocked, CreatorFlow, IdleFlow
    <2>2. ASSUME NEW answer \in {"ok", "network", "invalid"}, Redeemed(answer) PROVE Goal'
      BY <2>2 DEF Redeemed, CreatorFlow, IdleFlow
    <2>3. ASSUME NEW json \in BOOLEAN, Encrypted(json) PROVE Goal'
      <3>1. CASE json
        <4>1. /\ op' = [next |-> "hset_address", name |-> flow.name, old |-> NoName, addr |-> flow.addr]
              /\ flow'.stage = "created" /\ flow'.name = flow.name /\ flow'.addr = flow.addr
          BY <2>3, <3>1 DEF Encrypted, StoreOp
        <4>2. QED
          BY <2>3, <3>1, <4>1 DEF Encrypted
      <3>2. CASE ~json
        BY <2>3, <3>2, ZenonT(60) DEF Encrypted, CreatorFlow, IdleFlow
      <3>3. QED
        BY <3>1, <3>2
    <2>4. CASE ShowSuccess
      BY <2>4 DEF ShowSuccess
    <2>5. CASE Selected
      BY <2>5 DEF Selected
    <2>6. CASE RenameDone
      BY <2>6 DEF RenameDone, IdleFlow
    <2>7. ASSUME NEW ok \in BOOLEAN, RemovalUnlocked(ok) PROVE Goal'
      BY <2>7 DEF RemovalUnlocked, RemoveOp, IdleFlow, NameFree
    <2>8. CASE RemoveDone
      BY <2>8 DEF RemoveDone, IdleFlow
    <2> QED
      BY <1>2, <2>1, <2>2, <2>3, <2>4, <2>5, <2>6, <2>7, <2>8 DEF QueueNext
  <1>3. CASE WriteNext
    <2>1. CASE HSetAddress
      BY <2>1 DEF HSetAddress
    <2>2. CASE HSetKeystore
      BY <2>2 DEF HSetKeystore
    <2>3. CASE SetCurrent
      BY <2>3 DEF SetCurrent
    <2>4. CASE HDelOld
      BY <2>4 DEF HDelOld
    <2>5. CASE HSetDeleted
      BY <2>5 DEF HSetDeleted
    <2>6. CASE HDelKeystore
      BY <2>6 DEF HDelKeystore
    <2>7. CASE HDelAddress
      BY <2>7 DEF HDelAddress
    <2>8. CASE DelCurrent
      BY <2>8 DEF DelCurrent
    <2> QED
      BY <1>3, <2>1, <2>2, <2>3, <2>4, <2>5, <2>6, <2>7, <2>8 DEF WriteNext
  <1>4. CASE Crash
    BY <1>4 DEF Crash, IdleFlow
  <1>5. CASE UNCHANGED vars
    BY <1>5 DEF vars, volatile
  <1> QED
    BY <1>1, <1>2, <1>3, <1>4, <1>5 DEF Next

\* A selected name loses its keystore only after that was filed as deleted.
LEMMA DanglingStep ==
    ASSUME IInv, AInv, [Next]_vars
    PROVE  (Dangling)'
  <1> DEFINE Goal == Dangling
  <1> USE NamesAssumption, AddressesAssumption
          DEF IInv, TypeOK, Storing, Moving, Discarding, FlowAgrees, AInv, persisted, Settled,
              AtStage, NoOp, NameOrNone, AddressOrNone, Removing, OfStage, Captured, Dangling
  <1> SUFFICES Goal'
    OBVIOUS
  <1>1. CASE UserNext
    <2>1. CASE OpenCreator
      BY <2>1 DEF OpenCreator, CreatorFlow, IdleFlow
    <2>2. ASSUME NEW a \in Addresses, ImportAccount(a) PROVE Goal'
      BY <2>2 DEF ImportAccount, CreatorFlow, IdleFlow
    <2>3. ASSUME NEW a \in Addresses, ImportKeystore(a) PROVE Goal'
      BY <2>3 DEF ImportKeystore, IdleFlow
    <2>4. CASE LeaveCreator
      BY <2>4 DEF LeaveCreator, IdleFlow
    <2>5. ASSUME NEW n \in Names, NEW a \in Addresses, NEW referral \in BOOLEAN, CreateTapped(n, a, referral) PROVE Goal'
      BY <2>5 DEF CreateTapped, AddressFree
    <2>6. CASE FinishCreation
      BY <2>6 DEF FinishCreation, IdleFlow
    <2>7. ASSUME NEW n \in Names, SelectTapped(n) PROVE Goal'
      BY <2>7 DEF SelectTapped, WalletsIn
    <2>8. ASSUME NEW n \in Names, RenameTapped(n) PROVE Goal'
      BY <2>8 DEF RenameTapped, RenameOp, IdleFlow, NameFree
    <2>9. CASE RemoveTapped
      BY <2>9 DEF RemoveTapped, IdleFlow, CurrentWallet, CurrentIn
    <2> QED
      BY <1>1, <2>1, <2>2, <2>3, <2>4, <2>5, <2>6, <2>7, <2>8, <2>9 DEF UserNext
  <1>2. CASE QueueNext
    <2>1. ASSUME NEW ok \in BOOLEAN, ImportUnlocked(ok) PROVE Goal'
      BY <2>1 DEF ImportUnlocked, CreatorFlow, IdleFlow
    <2>2. ASSUME NEW answer \in {"ok", "network", "invalid"}, Redeemed(answer) PROVE Goal'
      BY <2>2 DEF Redeemed, CreatorFlow, IdleFlow
    <2>3. ASSUME NEW json \in BOOLEAN, Encrypted(json) PROVE Goal'
      BY <2>3 DEF Encrypted, StoreOp, CreatorFlow, IdleFlow
    <2>4. CASE ShowSuccess
      BY <2>4 DEF ShowSuccess
    <2>5. CASE Selected
      BY <2>5 DEF Selected
    <2>6. CASE RenameDone
      BY <2>6 DEF RenameDone, IdleFlow
    <2>7. ASSUME NEW ok \in BOOLEAN, RemovalUnlocked(ok) PROVE Goal'
      BY <2>7 DEF RemovalUnlocked, RemoveOp, IdleFlow, NameFree
    <2>8. CASE RemoveDone
      BY <2>8 DEF RemoveDone, IdleFlow
    <2> QED
      BY <1>2, <2>1, <2>2, <2>3, <2>4, <2>5, <2>6, <2>7, <2>8 DEF QueueNext
  <1>3. CASE WriteNext
    <2>1. CASE HSetAddress
      BY <2>1 DEF HSetAddress
    <2>2. CASE HSetKeystore
      BY <2>2 DEF HSetKeystore
    <2>3. CASE SetCurrent
      BY <2>3 DEF SetCurrent
    <2>4. CASE HDelOld
      BY <2>4 DEF HDelOld, Done
    <2>5. CASE HSetDeleted
      BY <2>5 DEF HSetDeleted
    <2>6. CASE HDelKeystore
      BY <2>6 DEF HDelKeystore
    <2>7. CASE HDelAddress
      BY <2>7 DEF HDelAddress
    <2>8. CASE DelCurrent
      BY <2>8 DEF DelCurrent
    <2> QED
      BY <1>3, <2>1, <2>2, <2>3, <2>4, <2>5, <2>6, <2>7, <2>8 DEF WriteNext
  <1>4. CASE Crash
    BY <1>4 DEF Crash, IdleFlow
  <1>5. CASE UNCHANGED vars
    BY <1>5 DEF vars, volatile
  <1> QED
    BY <1>1, <1>2, <1>3, <1>4, <1>5 DEF Next

\* What is shown follows what is selected.
LEMMA ShowsCurrentStep ==
    ASSUME IInv, AInv, [Next]_vars
    PROVE  (ShowsCurrent)'
  <1> DEFINE Goal == ShowsCurrent
  <1> USE NamesAssumption, AddressesAssumption
          DEF IInv, TypeOK, Storing, Moving, Discarding, FlowAgrees, AInv, persisted, Settled,
              AtStage, NoOp, NameOrNone, AddressOrNone, Removing, OfStage, Captured,
              ShowsCurrent, ShowLogin, CurrentWallet, CurrentIn, WalletsIn
  <1> SUFFICES Goal'
    OBVIOUS
  <1>1. CASE UserNext
    <2>1. CASE OpenCreator
      BY <2>1 DEF OpenCreator, CreatorFlow, IdleFlow
    <2>2. ASSUME NEW a \in Addresses, ImportAccount(a) PROVE Goal'
      BY <2>2 DEF ImportAccount, CreatorFlow, IdleFlow
    <2>3. ASSUME NEW a \in Addresses, ImportKeystore(a) PROVE Goal'
      BY <2>3 DEF ImportKeystore, IdleFlow
    <2>4. CASE LeaveCreator
      BY <2>4 DEF LeaveCreator, IdleFlow
    <2>5. ASSUME NEW n \in Names, NEW a \in Addresses, NEW referral \in BOOLEAN, CreateTapped(n, a, referral) PROVE Goal'
      BY <2>5 DEF CreateTapped, AddressFree
    <2>6. CASE FinishCreation
      <3>1. CASE screen = "guide"
        <4>1. CurrentWallet # NoName
          BY <2>6, CurrentThere, SMTT(60) DEF FinishCreation
        <4>2. QED
          BY <2>6, <3>1, <4>1 DEF FinishCreation, IdleFlow
      <3>2. CASE screen # "guide"
        BY <2>6, <3>2 DEF FinishCreation, IdleFlow
      <3>3. QED
        BY <3>1, <3>2
    <2>7. ASSUME NEW n \in Names, SelectTapped(n) PROVE Goal'
      BY <2>7 DEF SelectTapped, WalletsIn
    <2>8. ASSUME NEW n \in Names, RenameTapped(n) PROVE Goal'
      BY <2>8 DEF RenameTapped, RenameOp, IdleFlow, NameFree
    <2>9. CASE RemoveTapped
      BY <2>9 DEF RemoveTapped, IdleFlow, CurrentWallet, CurrentIn
    <2> QED
      BY ONLY <1>1, <2>1, <2>2, <2>3, <2>4, <2>5, <2>6, <2>7, <2>8, <2>9 DEF UserNext
  <1>2. CASE QueueNext
    <2>1. ASSUME NEW ok \in BOOLEAN, ImportUnlocked(ok) PROVE Goal'
      BY <2>1 DEF ImportUnlocked, CreatorFlow, IdleFlow
    <2>2. ASSUME NEW answer \in {"ok", "network", "invalid"}, Redeemed(answer) PROVE Goal'
      BY <2>2 DEF Redeemed, CreatorFlow, IdleFlow
    <2>3. ASSUME NEW json \in BOOLEAN, Encrypted(json) PROVE Goal'
      BY <2>3 DEF Encrypted, StoreOp, CreatorFlow, IdleFlow
    <2>4. CASE ShowSuccess
      BY <2>4 DEF ShowSuccess
    <2>5. CASE Selected
      BY <2>5 DEF Selected
    <2>6. CASE RenameDone
      BY <2>6 DEF RenameDone, IdleFlow
    <2>7. ASSUME NEW ok \in BOOLEAN, RemovalUnlocked(ok) PROVE Goal'
      BY <2>7 DEF RemovalUnlocked, RemoveOp, IdleFlow, NameFree
    <2>8. CASE RemoveDone
      <3>1. CASE WalletsIn(wallet) = {}
        BY <2>8, <3>1 DEF RemoveDone
      <3>2. CASE WalletsIn(wallet) # {}
        <4>1. CurrentWallet # NoName
          BY <3>2, CurrentThere
        <4>2. QED
          BY <2>8, <3>2, <4>1 DEF RemoveDone, IdleFlow
      <3>3. QED
        BY <3>1, <3>2
    <2> QED
      BY ONLY <1>2, <2>1, <2>2, <2>3, <2>4, <2>5, <2>6, <2>7, <2>8 DEF QueueNext
  <1>3. CASE WriteNext
    <2>1. CASE HSetAddress
      BY <2>1 DEF HSetAddress
    <2>2. CASE HSetKeystore
      BY <2>2 DEF HSetKeystore
    <2>3. CASE SetCurrent
      BY <2>3 DEF SetCurrent
    <2>4. CASE HDelOld
      BY <2>4 DEF HDelOld
    <2>5. CASE HSetDeleted
      BY <2>5 DEF HSetDeleted
    <2>6. CASE HDelKeystore
      BY <2>6 DEF HDelKeystore
    <2>7. CASE HDelAddress
      BY <2>7 DEF HDelAddress
    <2>8. CASE DelCurrent
      BY <2>8 DEF DelCurrent
    <2> QED
      BY ONLY <1>3, <2>1, <2>2, <2>3, <2>4, <2>5, <2>6, <2>7, <2>8 DEF WriteNext
  <1>4. CASE Crash
    <2>1. CASE WalletsIn(wallet) = {}
      BY <1>4, <2>1 DEF Crash
    <2>2. CASE WalletsIn(wallet) # {}
      <3>1. CurrentWallet # NoName
        BY <2>2, CurrentThere
      <3>2. QED
        BY <1>4, <2>2, <3>1 DEF Crash, IdleFlow
    <2>3. QED
      BY <2>1, <2>2
  <1>5. CASE UNCHANGED vars
    BY <1>5 DEF vars, volatile
  <1> QED
    BY <1>1, <1>2, <1>3, <1>4, <1>5 DEF Next

LEMMA InitAInv == Init => AInv
  <1> SUFFICES ASSUME Init PROVE AInv
    OBVIOUS
  <1>1. op = NoOp /\ op.next = "none" /\ flow.stage = "idle"
    BY DEF Init, NoOp, IdleFlow
  <1>2. OfStage /\ Done /\ Captured
    BY <1>1 DEF Init, OfStage, Done, Captured, Removing
  <1>3. Dangling /\ ShowsCurrent
    BY DEF Init, Dangling, ShowsCurrent
  <1>4. Inverse(wallet, addresses)
    BY NamesAssumption, AddressesAssumption DEF Init, Inverse
  <1>5. QED
    BY <1>1, <1>2, <1>3, <1>4, FinalQuiet DEF AInv, FinallyInverse

LEMMA AInductive == Spec => [](IInv /\ AInv)
  <1>1. Init => IInv /\ AInv
    BY InitIInv, InitAInv
  <1>2. IInv /\ AInv /\ [Next]_vars => (IInv /\ AInv)'
    BY TypeStep, InvStep, CapturedStep, DanglingStep, ShowsCurrentStep,
       FinallyInverseStep DEF IInv, AInv
  <1>3. QED
    BY <1>1, <1>2, PTL DEF Spec

-----------------------------------------------------------------------------

\* Between two handlers the two tables are inverse to each other as long as the
\* process was never killed, and a selected name without a keystore is one that a
\* killed removal has filed: for every set of names and accounts.
THEOREM TablesInverse == Spec => []TablesAgree
  <1>1. IInv /\ AInv => TablesAgree
    <2> SUFFICES ASSUME IInv, AInv, op = NoOp
                 PROVE  /\ crashes = 0 => Inverse(wallet, addresses)
                        /\ (current # NoName /\ wallet[current] = NoAddress) =>
                              crashes > 0 /\ \E a \in Addresses : deleted[a] = current
      BY DEF TablesAgree, Inverse
    <2>1. crashes = 0 => Inverse(wallet, addresses)
      BY FinalQuiet DEF AInv, FinallyInverse
    <2>2. op.next \notin {"hdel_address", "del_current"}
      BY DEF NoOp
    <2>3. QED
      BY <2>1, <2>2 DEF AInv, Dangling
  <1>2. QED
    BY AInductive, <1>1, PTL

\* The home screen shows the wallet its buttons act on.
THEOREM ShownCurrent == Spec => []ShownIsCurrent
  <1>1. AInv => ShownIsCurrent
    BY DEF AInv, ShowsCurrent, ShownIsCurrent, Settled, AtStage
  <1>2. QED
    BY AInductive, <1>1, PTL

\* The success screen names a wallet that opens the confirmed account.
THEOREM SuccessStored == Spec => []SuccessMeansStored
  <1>1. IInv /\ AInv => SuccessMeansStored
    BY DEF IInv, FlowAgrees, AInv, Captured, SuccessMeansStored
  <1>2. QED
    BY AInductive, <1>1, PTL

-----------------------------------------------------------------------------
(* The refinement.                                                         *)

\* A job that starts its writes enters, moves or discards an account in the book.
LEMMA BookStep ==
    ASSUME IInv, AInv, [Next]_vars, crashes' = 0
    PROVE  [Book!Next]_(Book!vars)
  <1> USE NamesAssumption, AddressesAssumption
  <1> IInv /\ TypeOK /\ FlowAgrees /\ OfStage /\ Captured /\ FinallyInverse
    BY DEF IInv, AInv
  <1> DEFINE Stays == UNCHANGED <<FinalWallet, FinalDeleted, FinalCurrent>>
  <1>1. CASE WriteNext
    BY <1>1, FinalStill DEF Book!vars
  <1>2. ASSUME NEW n \in Names, RenameTapped(n) PROVE [Book!Next]_(Book!vars)
    <2> DEFINE old == CurrentWallet
    <2>1. old \in Names /\ wallet[old] # NoAddress /\ n # old /\ wallet[n] = NoAddress /\ op = NoOp
      BY <1>2, CurrentInType
         DEF RenameTapped, CurrentWallet, TypeOK, NameFree, NameOrNone, AddressOrNone,
             Settled, AtStage
    <2>2. /\ op' # NoOp /\ ~Removing' /\ Renaming'
          /\ op'.name = n /\ op'.old = old /\ op'.addr = wallet[old]
          /\ wallet' = wallet /\ deleted' = deleted /\ current' = current
      BY <1>2, <2>1 DEF RenameTapped, RenameOp, NoOp, Removing, Renaming, persisted
    <2>3. FinalWallet = wallet /\ FinalDeleted = deleted
      BY <2>1, FinalQuiet
    <2>4. /\ FinalWallet' = [wallet EXCEPT ![n] = wallet[old], ![old] = NoAddress]
          /\ FinalDeleted' = deleted /\ FinalCurrent' = n
      BY <2>2 DEF FinalWallet, FinalDeleted, FinalCurrent
    <2>5. Book!Move(old, n)
      BY <2>1, <2>3, <2>4 DEF Book!Move, Book!Free
    <2>6. QED
      BY <2>1, <2>5 DEF Book!Next
  <1>3. ASSUME NEW json \in BOOLEAN, Encrypted(json), json PROVE [Book!Next]_(Book!vars)
    <2> DEFINE n == flow.name  a == flow.addr
    <2>1. n \in Names /\ a \in Addresses /\ wallet[n] = NoAddress /\ addresses[a] = NoName /\ op = NoOp
      BY <1>3 DEF Encrypted, AtStage, FlowAgrees, Captured
    <2>2. /\ op' # NoOp /\ ~Removing' /\ ~Renaming' /\ op'.name = n /\ op'.addr = a
          /\ wallet' = wallet /\ deleted' = deleted /\ current' = current /\ crashes = 0
      BY <1>3, <2>1 DEF Encrypted, StoreOp, NoOp, Removing, Renaming, persisted
    <2>3. FinalWallet = wallet /\ FinalDeleted = deleted /\ FinalCurrent = current /\ Inverse(wallet, addresses)
      BY <2>1, <2>2, FinalQuiet DEF FinallyInverse
    <2>4. /\ FinalWallet' = [wallet EXCEPT ![n] = a]
          /\ FinalDeleted' = deleted /\ FinalCurrent' = current
      BY <2>2 DEF FinalWallet, FinalDeleted, FinalCurrent
    <2>5. \A m \in Names : wallet[m] # a
      BY <2>1, <2>3 DEF Inverse
    <2>6. Book!Enter(n, a)
      BY <2>1, <2>3, <2>4, <2>5 DEF Book!Enter, Book!Free
    <2>7. QED
      BY <2>1, <2>6 DEF Book!Next
  <1>4. ASSUME NEW ok \in BOOLEAN, RemovalUnlocked(ok), ok, ~NameFree(flow.name)
        PROVE  [Book!Next]_(Book!vars)
    <2> DEFINE n == flow.name
    <2>1. n \in Names /\ wallet[n] # NoAddress /\ op = NoOp
      BY <1>4 DEF RemovalUnlocked, AtStage, FlowAgrees, NameFree
    <2>2. /\ op' # NoOp /\ Removing' /\ ~Renaming' /\ op'.name = n /\ op'.addr = wallet[n]
          /\ wallet' = wallet /\ deleted' = deleted
      BY <1>4, <2>1 DEF RemovalUnlocked, RemoveOp, NoOp, Removing, Renaming, persisted
    <2>3. FinalWallet = wallet /\ FinalDeleted = deleted
      BY <2>1, FinalQuiet
    <2>4. /\ FinalWallet' = [wallet EXCEPT ![n] = NoAddress]
          /\ FinalDeleted' = [deleted EXCEPT ![wallet[n]] = n] /\ FinalCurrent' = NoName
      BY <2>2 DEF FinalWallet, FinalDeleted, FinalCurrent
    <2>5. Book!Discard(n)
      BY <2>1, <2>3, <2>4 DEF Book!Discard, Book!Free
    <2>6. QED
      BY <2>1, <2>5 DEF Book!Next
  <1>5. CASE Selected
    <2>1. selecting \in Names /\ wallet[selecting] # NoAddress /\ op = NoOp
      BY <1>5 DEF Selected, Captured, TypeOK, NameOrNone
    <2>2. op' = NoOp /\ wallet' = wallet /\ deleted' = deleted /\ current' = selecting
      BY <1>5, <2>1 DEF Selected
    <2>3. FinalWallet = wallet /\ FinalDeleted = deleted
      BY <2>1, FinalQuiet
    <2>4. FinalWallet' = wallet /\ FinalDeleted' = deleted /\ FinalCurrent' = selecting
      BY <2>2 DEF FinalWallet, FinalDeleted, FinalCurrent, Removing, Renaming, NoOp
    <2>5. Book!Select(selecting)
      BY <2>1, <2>3, <2>4 DEF Book!Select, Book!Free
    <2>6. QED
      BY <2>1, <2>5 DEF Book!Next
  <1>6. CASE UNCHANGED <<wallet, deleted, current, op>>
    <2>1. Stays
      BY <1>6 DEF FinalWallet, FinalDeleted, FinalCurrent, Removing, Renaming
    <2>2. QED
      BY <2>1 DEF Book!vars
  <1>7. \/ WriteNext \/ Selected \/ UNCHANGED <<wallet, deleted, current, op>>
        \/ \E n \in Names : RenameTapped(n)
        \/ \E json \in BOOLEAN : Encrypted(json) /\ json
        \/ \E ok \in BOOLEAN : RemovalUnlocked(ok) /\ ok /\ ~NameFree(flow.name)
    <2>1. CASE Crash
      BY <2>1 DEF Crash, TypeOK
    <2>2. CASE QueueNext
      BY <2>2 DEF QueueNext, persisted, ImportUnlocked, Redeemed, Encrypted,
             ShowSuccess, Selected, RenameDone, RemovalUnlocked, RemoveDone
    <2>3. CASE UserNext
      BY <2>3 DEF UserNext, persisted, OpenCreator,
             ImportAccount, ImportKeystore, LeaveCreator, CreateTapped, FinishCreation,
             SelectTapped, RemoveTapped
    <2>4. QED
      BY <2>1, <2>2, <2>3 DEF Next, vars, persisted, volatile
  <1>8. QED
    BY <1>1, <1>2, <1>3, <1>4, <1>5, <1>6, <1>7

\* Until the first kill the four tables behave as a book in which an account is
\* entered, moved, discarded or selected at once.
THEOREM Refines == Spec => ActsAtOnce
  <1>1. Init => Book!Init
    <2>1. Init => op = NoOp
      BY DEF Init
    <2>2. QED
      BY <2>1, FinalQuiet DEF Init, Book!Init
  <1>2. IInv /\ AInv /\ [Next]_vars => [crashes' = 0 => [Book!Next]_(Book!vars)]_vars
    BY BookStep
  <1>3. QED
    BY AInductive, <1>1, <1>2, PTL DEF Spec, ActsAtOnce
=============================================================================
