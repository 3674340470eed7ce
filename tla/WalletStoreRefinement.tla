----------------------- MODULE WalletStoreRefinement -----------------------
(***************************************************************************)
(* WalletStore implements WalletBook until the process is first killed:    *)
(* a handler takes effect as a whole when its first write is due, and the  *)
(* book is what the tables will hold when its last write is done.          *)
(***************************************************************************)
EXTENDS WalletStore

Renaming == op.old # NoName
Removing == op.next \in {"hset_deleted", "hdel_keystore", "hdel_address", "del_current"}

\* The tables once the remaining writes of op are done.
FinalWallet ==
    CASE op = NoOp -> wallet
      [] Removing  -> [wallet EXCEPT ![op.name] = NoAddress]
      [] Renaming  -> [wallet EXCEPT ![op.name] = op.addr, ![op.old] = NoAddress]
      [] OTHER     -> [wallet EXCEPT ![op.name] = op.addr]

FinalDeleted == IF op # NoOp /\ Removing
                THEN [deleted EXCEPT ![op.addr] = op.name] ELSE deleted

FinalCurrent == CASE op = NoOp -> current
                  [] Removing  -> NoName
                  [] Renaming  -> op.name
                  [] OTHER     -> current

Book == INSTANCE WalletBook
        WITH opens <- FinalWallet, trash <- FinalDeleted, selected <- FinalCurrent

\* Until the first kill, storeKeystore, renameWallet, removeWallet and
\* setCurrentWallet are atomic to everything that runs between two handlers:
\* the scrypt jobs and timers around them never let a name or an account be
\* entered twice, and no reader between two handlers sees a half-done rename
\* or removal.
ActsAtOnce == Book!Init /\ [][crashes' = 0 => [Book!Next]_(Book!vars)]_vars
=============================================================================
