------------------------------ MODULE ClientId ------------------------------
(***************************************************************************)
(* The id by which the backend knows a device: getClientid of GSE_Wallet   *)
(* and the keychain item of GSE_KeyChain.                                  *)
(*                                                                         *)
(* The id is kept in the keychain and in the database and reconciled each  *)
(* time it is asked for.  getClientid runs on the main thread; the device  *)
(* may lock between any two of its steps, as push notices run the app in   *)
(* the background, and a locked keychain can neither be read nor written.  *)
(* The app may be killed.  Deleting it takes the database, restoring a     *)
(* backup to another device takes the keychain item.                       *)
(***************************************************************************)
CONSTANTS Ids,   \* bound: the UUIDs there are
          NoId   \* no id, or one that could not be read

ASSUME NoIdAssumption == NoId \notin Ids

VARIABLES
    keychain,  \* the keychain item
    database,  \* the value under wallet/<user>/clientid
    locked,    \* the device is locked
    call,      \* getClientid
    told,      \* what it has answered since a store last held anything
    blinded    \* a call has met a locked keychain

idVars == <<keychain, database, locked, call, told, blinded>>

-----------------------------------------------------------------------------

\* savePassword has two steps, a look and a write; then, if store, the id goes
\* to the database.
Steps == {"idle", "look", "write", "store", "return"}
Calls == [step : Steps, id : Ids \union {NoId}, store : BOOLEAN,
          found : Ids \union {NoId}, met : SUBSET {"read", "save"}]

Idle == [step |-> "idle", id |-> NoId, store |-> FALSE, found |-> NoId, met |-> {}]

IdInit == /\ keychain = NoId /\ database = NoId
          /\ locked \in BOOLEAN
          /\ call = Idle
          /\ told = {} /\ blinded = FALSE

\* readPassword answers nil for an item that is not there and for any error:
\* released builds have no assertions.
ReadPassword == IF locked THEN NoId ELSE keychain

-----------------------------------------------------------------------------

Answer(id)       == [step |-> "return", id |-> id, store |-> FALSE]
Store(id)        == [step |-> "store", id |-> id, store |-> TRUE]
Save(id)         == [step |-> "look", id |-> id, store |-> FALSE]
SaveAndStore(id) == [step |-> "look", id |-> id, store |-> TRUE]

\* Mutation: with no id in the database a new one is made at once.
PlanWithoutImport(seen, fresh) ==
    IF database = NoId THEN SaveAndStore(fresh)
    ELSE IF seen = NoId THEN Save(database)
    ELSE IF seen # database THEN Store(seen) ELSE Answer(database)

\* Mutation: where they differ, the database's id is saved to the keychain.
PlanForDatabase(seen, fresh) ==
    IF database = NoId THEN IF seen = NoId THEN SaveAndStore(fresh) ELSE Store(seen)
    ELSE IF seen # database THEN Save(database) ELSE Answer(database)

\* Mutation: the keychain's id is answered and not stored.
PlanWithoutStore(seen, fresh) ==
    IF database = NoId THEN IF seen = NoId THEN SaveAndStore(fresh) ELSE Store(seen)
    ELSE IF seen = NoId THEN Save(database) ELSE Answer(seen)

\* The id to answer and what to do about it, from the two values read.
Plan(seen, fresh) ==
    IF database = NoId THEN IF seen = NoId THEN SaveAndStore(fresh) ELSE Store(seen)
    ELSE IF seen = NoId THEN Save(database)
    ELSE IF seen # database THEN Store(seen) ELSE Answer(database)

\* A new UUID is none that anything remembers.
Fresh == Ids \ (told \union {keychain, database})

GetClientid ==
    /\ call.step = "idle"
    /\ \E fresh \in Fresh :
          LET plan == Plan(ReadPassword, fresh)
          IN  call' = [step |-> plan.step, id |-> plan.id, store |-> plan.store,
                       found |-> NoId, met |-> IF locked THEN {"read"} ELSE {}]
    /\ blinded' = (blinded \/ locked)
    /\ UNCHANGED <<keychain, database, locked, told>>

MetBySave == IF locked THEN call.met \union {"save"} ELSE call.met

\* savePassword looks whether there is an item to update ...
SaveLooks ==
    /\ call.step = "look"
    /\ call' = [call EXCEPT !.step = "write", !.found = ReadPassword, !.met = MetBySave]
    /\ blinded' = (blinded \/ locked)
    /\ UNCHANGED <<keychain, database, locked, told>>

\* ... and adds one otherwise, which fails if there is one after all.
SaveWrites ==
    /\ call.step = "write"
    /\ keychain' = IF ~locked /\ (call.found = NoId <=> keychain = NoId)
                     THEN call.id ELSE keychain
    /\ call' = [call EXCEPT !.step = IF call.store THEN "store" ELSE "return",
                            !.met = MetBySave]
    /\ blinded' = (blinded \/ locked)
    /\ UNCHANGED <<database, locked, told>>

StoreValue ==
    /\ call.step = "store"
    /\ database' = call.id
    /\ call' = [call EXCEPT !.step = "return"]
    /\ UNCHANGED <<keychain, locked, told, blinded>>

Return ==
    /\ call.step = "return"
    /\ told' = told \union {call.id}
    /\ call' = Idle
    /\ UNCHANGED <<keychain, database, locked, blinded>>

-----------------------------------------------------------------------------

LockOrUnlock == locked' = ~locked /\ UNCHANGED <<keychain, database, call, told, blinded>>

Kill == call.step # "idle" /\ call' = Idle /\ UNCHANGED <<keychain, database, locked, told, blinded>>

\* The id lives on if either store still has one; no store, no promise.
Reinstall ==
    /\ call.step = "idle" /\ database # NoId
    /\ database' = NoId
    /\ told' = IF keychain = NoId THEN {} ELSE told
    /\ UNCHANGED <<keychain, locked, call, blinded>>

RestoreBackup ==
    /\ call.step = "idle" /\ keychain # NoId
    /\ keychain' = NoId
    /\ told' = IF database = NoId THEN {} ELSE told
    /\ UNCHANGED <<database, locked, call, blinded>>

IdNext == \/ GetClientid \/ SaveLooks \/ SaveWrites \/ StoreValue \/ Return
          \/ LockOrUnlock \/ Kill \/ Reinstall \/ RestoreBackup

IdSpec == IdInit /\ [][IdNext]_idVars

-----------------------------------------------------------------------------

\* The types of the two stores and of a call under way.
IdTypeOK == /\ keychain \in Ids \union {NoId}
            /\ database \in Ids \union {NoId}
            /\ locked \in BOOLEAN
            /\ call \in Calls
            /\ call.step # "idle" => call.id # NoId
            /\ told \subseteq Ids
            /\ blinded \in BOOLEAN

\* A device has one id: whichever store is lost and wherever the app is killed,
\* getClientid answers the id it answered before, as long as one store held it
\* all the time and none of its calls met a locked keychain (GSE_Wallet.m:362-395).
OneId == ~blinded => \A a, b \in told : a = b

\* A call that met no locked keychain leaves the two stores with the id it
\* answers, whatever earlier calls that did meet one left behind.
Settled == [][Return /\ call.met = {} => keychain = call.id /\ database = call.id]_idVars

\* The id in the keychain outlives every other: a call replaces it only when it
\* could not see it at first and found it when it came to save another
\* (GSE_Wallet.m:368, GSE_KeyChain.m:26).
KeychainKept == [][keychain # NoId /\ keychain' \notin {keychain, NoId}
                      => "read" \in call.met]_idVars
=============================================================================
