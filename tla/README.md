# GSEWallet in TLA+

TLA+ models of GSEWallet-iOS, TLC runs that check them on small instances, and
TLAPS proofs for every value of the constants. Paths below are relative to `src/`.

    tlc -config WalletStore.cfg MCWalletStore      # model-check a run
    tlapm WalletStoreProofs.tla                    # check a module's proofs

`PROJECT.json` lists the components, the runs with their properties, the hazards
with the lines where they bite, the mutation that breaks each property, and for
each definition the source lines it stands for.

## 1. Inventory

GSEWallet is an iOS wallet for Ethereum accounts and ERC-20 tokens. It consists of
the app (`wallet/wallet`, Objective-C with some Swift), the `ethers.objc` library
(accounts, transactions, providers, promises) and an embedded SSDB (`ssdb`, C++ on
LevelDB) that keeps everything the app stores.

### Threads, callbacks and failure

All view controllers run on the main thread. Work that takes time leaves it in four
ways and always comes back as a block on the main queue:

- **network requests**: a `Promise` is completed by an `NSURLSession` thread and its
  handlers are dispatched to the main queue. A session reports a timeout as an error,
  so a request is always answered, but an error does not tell whether the server has
  served it;
- **scrypt**: `Account` decrypts and encrypts keystores on a background queue;
- **timers**: `dispatch_after` blocks of 0.3, 0.5 and 1 second, after which a HUD is
  hidden or a wallet selected;
- **delegates**: a screen tells the one that presented it (`finish...`) what was done.

A progress HUD over `navigationController.view` takes the touches while one of the
first three is under way, so the user drives one flow at a time; answers that belong
to other flows still arrive. The process can be killed at any point, and only what
SSDB, the keychain, the backend and the chain hold survives.

### Components

| component | state | operations | talks to | hard part |
|---|---|---|---|---|
| wallet storage `Model/GSE_Wallet.m` | four SSDB tables: keystores by name, names by address, removed keystores, the selected name | store, rename, remove, select, look up | SSDB; every screen | several writes per operation, kills in between |
| creator, importer, rename, remover, menu, guide, home `ViewController*` | the flow: what was typed, the account, the HUD | the taps, scrypt callbacks and timers around the above | wallet storage, `Account`, backend | checks at the tap, writes after seconds of scrypt |
| transfer and confirmation `GSE_WalletTransfer.m`, `GSE_WalletConfirmation.m` | the form, the transaction, the button | getPrices, getNonce, decimals, password, syncPending, sendTransaction | backend, chain, wallet storage | lost answers, kills, a price change between two reads |
| `Promise.m` | answer, waiting handlers | resolve:, reject:, onCompletion:, all:, timer: | main queue | completion and new handlers race |
| `FallbackProvider.m` | list of providers | add, remove, a call | promises, child providers | late answers, a list that changes meanwhile |
| `Provider.m` | block number, gas price, polling | notices, polling, ENS chains | promises | unlocked compare and store |
| API providers (Json-RPC, Etherscan, GSE) | none | one request each | promises, network | null answers, coercion |
| `Account.m` | keys | en-/decryption jobs, signing | background queue, main queue | cancellation against completion |
| `Transaction.m`, RLP, `BigNumber.m`, `Payment.m`, ... | none | conversions | | boundaries |
| transaction lists `GSE_WalletTxns.m`, `GSE_Wallet.m` | lists in SSDB and on screen | show, reload, pull | backend, push notices | answers in any order, screen closed meanwhile |
| token list, home screen `GSE_Wallet.m`, `ViewController.m` | cached lists in SSDB and on screen | reload, show | backend | answers in any order, wallet changed meanwhile |
| rebates `Rebate.m`, `GSE_WalletRebateHistory.m`, ... | paged list | refresh, next page | backend | both under way at once |
| client id `GSE_KeyChain.m`, `GSE_Wallet.m` | keychain item, database key | get or create | keychain, SSDB | two stores, kills, reinstallation |
| card payment `Swift/pay` | sheet, charge | open, charge, cancel | Stripe | cancel against completion |
| push notices `AppDelegate.m` | none | reload what a topic names | lists | arrives at any time |
| SSDB types `t_kv`, `t_hash`, `t_zset`, `t_queue` | ordered keys, size counters | the commands | transactions | counters kept with entries, failed reads, ends of the number range |
| SSDB transactions `binlog.cpp` | lock, batch, log numbers | begin, commit, rollback, cleaning thread | LevelDB | one batch per command; cleaning without the lock |
| LevelDB `db_impl.cc`, `version_set.cc` | writers' queue, logs, memtables, tables, manifests | write, read, flush, compact, open | files | one background thread, kills between any two file operations |
| `libtommath`, `trezor-crypto`, `scrypt` | numbers, points, keys, digests | pure functions | `Account`, `BigNumber` | digits, carries, residues, the block boundaries |
| SSDB expiry `ttl.cpp` | expiry list, fast keys | set, lift, expire | transactions | stale keys |
| backup, receive, scanner, settings, about, web, discover, nodes, views | none worth modelling | display | | |
| Snappy, Pods, Cordova | | vendored | | |

### What makes each of them correct

- **Wallet storage.** A keystore that was stored can always be read again, under a
  name or as a removed one. The index of addresses agrees with the table of
  keystores, so that an account is not entered twice and not refused without
  reason. The selected name has a keystore. What the home screen shows is what its
  buttons act on.
- **Transfer.** No transaction reaches the chain before the backend counts it; no
  nonce is used twice; "Sent" is true; what is offered for signing is covered by the
  balance; a covered screen is uncovered.
- **Promise, FallbackProvider.** Handlers are called once, in order, in the end. A
  provider is asked only when the one before it failed. The answer is that of the
  first provider of the list, as it was when the call was made, that did not fail.
- **Lists.** What is shown belongs to the selected wallet and is never replaced by an
  older answer; no entry of a paged list is missing or shown twice.
- **SSDB.** A command takes effect as a whole or not at all; a size counter is the
  number of entries; a key whose expiry was lifted is not deleted.
- **LevelDB.** A read sees the newest write its view covers; a write acknowledged
  after a sync survives every kill (but behind a torn record, see section 2); a file that is needed is not deleted; whoever
  waits has somebody at work for it.
- **Numbers, curve, digests, cipher, scrypt.** Each answers what the arithmetic or the
  standard says, by every way it has of computing it.
- **Client id.** One id per device whatever store lost it.
- **Account.** A job calls back once; whoever cancelled is not handed the account; an
  account is the one its keystore names, with all the keystore holds.

## 2. The models

| module | models |
|---|---|
| `WalletStore` | the tables of `GSE_Wallet.m` and the screens that change them |
| `WalletBook` | abstract: creating, renaming, removing, selecting each happen at once |
| `WalletStoreRefinement` | `WalletStore` implements `WalletBook` |
| `WalletStoreProofs` | proofs about `WalletStore` |
| `Promises` | `Promise.m`: the operators other modules compose |
| `FallbackCalls` | `FallbackProvider.m` over `Promises`, the main queue and the sessions; that it implements `FirstAnswer` |
| `FirstAnswer` | abstract: a call returns the first answer that is not a failure |
| `FallbackCallsProofs` | proofs about `FallbackCalls` |
| `TransferFlow` | the transfer form, the Confirmation, the backend and the chain |
| `TransferFlowProofs` | proofs about `TransferFlow` |
| `AccountJobs` | the decryption and encryption jobs of `Account.m` |
| `AccountJobsProofs` | proofs about `AccountJobs` |
| `ClientId` | `getClientid` of `GSE_Wallet.m` over `GSE_KeyChain.m` and the database |
| `TxnLists` | the screen, the stored lists and the requests of `GSE_WalletTxns.m`, the notices of `AppDelegate.m` |
| `DeviceProofs` | proofs about `ClientId` and `TxnLists`, what a device keeps beside its wallets |
| `LevelDb` | LevelDB: the writers, the log, the memtables, the tables, the manifest, Open |
| `LevelDbProofs` | proofs about `LevelDb` |
| `Ssdb` | SSDB's data types, binlog and cleaning thread over an ordered store |
| `SsdbProofs` | proofs about the store, the keys and the log of `Ssdb` |
| `SsdbAnswerProofs` | proofs about what `Ssdb` answers and reads |
| `MpInt`, `MpModular`, `MpChecks` | libtommath: arithmetic; reductions, powers, roots, primes; the reference definitions |
| `Bignum`, `Ecdsa`, `Bip32`, `Base58`, `KeyChecks` | trezor-crypto: limbs, the curve and its signatures, derived keys, texts; references |
| `Words` | words of so many bits, as the digests and the cipher compute with them |
| `Sha2`, `Sha3`, `Ripemd160`, `Hmac`, `DigestChecks` | the digests, HMAC and PBKDF2; references, and scrypt's |
| `Scrypt`, `ScryptRef`, `ScryptSse` | the three builds of scrypt |
| `Aes`, `AesChecks` | AES with tables and its modes; references |
| `MC...` | constants of the runs; `MCParts` puts the questions to the pure parts |

### WalletStore

State: `wallet`, `addresses`, `deleted`, `current` are the four SSDB tables, with a
keystore abstracted to the address it opens; `op` holds the writes a handler of the
main thread still has to make; `flow` the screen's flow across scrypt, network and
timers; `selecting` the name a 0.3 s block is about to select; `shown` and `screen`
what is on display.

Every write is one SSDB transaction and one step, in the order of the code:
`storeKeystore` writes the index and then the keystore; `renameWallet` stores under
the new name, selects it and deletes the old one; `removeWallet` files the keystore
under deleted and deletes three keys. No other handler starts while writes are
pending (`AtStage`, `Settled`), because the main thread is in the middle of one; a
kill (`Crash`) can come between any two. A kill and the restart that follows are one
step: nothing else can run in between.

Details a reader may look for:

- `getCurrentWallet` means to persist the default it returns but writes the empty
  string back, which reads as no selection: `CurrentIn` changes nothing.
- The 0.3 s block of `createdOrImported:` runs before the user gets through another
  screen, so `Settled` waits for it.
- A kill in `storeKeystore` after the index is written leaves the index ahead of the
  table: the name stays free, but an import of that address is answered "already
  exists" from then on. `TablesAgree` therefore has the tables inverse only without kills;
  `KeystoreNeverLost` and its second half say what holds with them.
- A refused referral code shows an alert and keeps the HUD (`stuck`): only a kill leads
  out of it, so the run switches deadlock checking off.

### Promises, FallbackCalls

`Promises` has the `@synchronized` methods of `Promise.m` as operators, each one step:
`SettleAfter` for `resolve:` and `reject:`, `OnCompletion`, `Dispatched` for the
dispatch of the waiting handlers. `FallbackCalls` composes them: the caller's promise
of call `c` is `<<c, 0>>`, the promise of its i-th provider `<<c, i>>`. Calls start on
the main thread, as the view controllers start them, so between asking a child and
adding the handler to it (`running`) the queue does not advance while an answer
(`Answer`) may arrive on its session thread. The list of providers may be changed at
any moment. A child may reject at once, as providers do for methods they do not
implement.

The app adds one child to its only provider (and, as `providers` of `GSE_Wallet.m` is
never created, makes a new provider for each call); the library supports any number and
the proofs have any, the run up to two. `_keepAlive` and the unlocked accessors are left out: no
handler reads a promise before it is complete.

### TransferFlow

`page`, `form`, `order`, `step`, `hud`, `button` are the two view controllers; `prices`
is the cached gas price, which survives; `registered` and `broadcast` are what the
backend and the chain have. Each callback is an action with all its early returns:
`NonceAnswered` makes the checks of `getNonce`'s callback, `Unlocked` and `Synced` are the
chain decrypt, sign, syncPending, sendTransaction. A lost answer is a failure after which
the request may have been served; the same holds for a kill. The backend is external:
`getNonce` answers with a nonce that no order it lists carries (`FreeNonces`); everything
about nonces rests on this.

Left out: the payee, which is read and checked once at the tap, the QR code, the gas
menus other than the price they set, the rebate tip, the token menu's layout. A request
of a killed app is served at the moment of the kill or not at all. A transfer without a
token (no list was stored for the account) is prepared as ETH and refused on the
Confirmation, as in the code.

### AccountJobs

A job is `refused` on the spot or goes through `scrypt` and perhaps `phrase` on the global
queue, where jobs run at once, to `answering`, when its block is on the main queue
(`main`). `stop` is the flag of its Cancellable: scrypt polls it, and the block that hands
out an account reads it again on the main thread and, if it is set, queues another block
with the error (`RunMain`). `calls` records each callback and whether `stop` was set by then.

A private key stands for its account and its address, and a phrase for the key it
derives. Turning mnemonic data into a phrase goes through the static buffers of
`bip39.c`, which jobs share without a lock. What a job reads there while another is
inside is undefined; `mixed` collects the phrases of the jobs it met, and `Derivable` lets
it come out with its own, with one of theirs, or with none that is valid.

A decryption opens a file from elsewhere (`ForeignFiles`) or one that an encryption of
another job has just written (`OwnFiles`). Left out: signing, `randomMnemonicAccount`,
and AES errors, which keys and ivs of the lengths already checked do not give.

### ClientId

`keychain` and `database` are the two stores and `call` the step `getClientid` is at. It
reads both at once (`Plan` is its decision); `savePassword:` then reads again before it
updates or adds, and only then does the database follow, so a kill can leave either
ahead. The item has the keychain's default protection: while the device is `locked` it
reads as missing and a save fails without a trace, as released builds have no
assertions. Push notices run the app while the device is locked.

### TxnLists

A list is abstracted to whose it is and how many transactions it had. `screen` is the
`GSE_WalletTxns` on the navigation stack, if there is one: two of them are never there, since
"Done" of a transfer goes back to the home screen before it opens one, and a wallet is
selected on screens below it. `requests` are the `gse_getTxns` requests under
way. A request captures the address and holds its screen weakly: `alive` says whether
`weakSelf` is not nil yet, and what the callback does with the screen (`Shows`) and where it
files the list (`FiledUnder`) depends on it. `weakSelf.contract` of a screen that is gone is
nil, and `tokens/txns/(null)` is the table of the ether lists. `cache` is that family of
tables. `since` remembers what the screen showed when it asked; no action reads it, and
`NeverBack` is stated with it.

A push notice either reloads the screen, handing its completion handler to the request,
or is finished at once (`Notice`). The backend is external: it learns of transactions (`Grow`)
and serves a request some time between sending and answer (`Serve`). Left out: a kill, which
does no more than closing the screen and failing its requests, as a list is stored in one
write; the topic `gse_getTokens`, which reloads the home screen.

### LevelDb

An entry is its sequence number; `history` gives the key it writes or deletes. A memtable
or a table is a set of entries, a version (`db.ver`) gives each table its level, and `disk`
holds the logs, tables and manifests with CURRENT. `queue` and `call` are `writers_` and
what each writer waits for; `bg` is the background thread, which is between two of its
file operations (`build`, `work`, `log`, `install`) or that of an Open (`open`, `current`,
`opened`). `kept` and `durable` remember what readers and power cuts must find, `behind` which
of the durable writes have their record behind a torn one, and `disordered` that something
has let tables of a level overlap; no step reads these four.

A step is what happens between two points where the mutex is released or a file is
written. The head of the queue writes for its group (`Joins` is `BuildBatchGroup`), in
`AppendRecord`, `InsertInto` and `Publish`; a full memtable is switched only once there is
room (`MustWait`). A flush is `BeginFlush`, `TableBuilt` or `TableFailed`, `LogResults`,
`ManifestWritten` or `ManifestFailed`, `Install`; a compaction reads the oldest snapshot
once, drops by it (`Dropped`) and writes its tables while the others go on. `Kill` ends the
process; `PowerCut` also takes what no sync had reached, so that a log may end inside a
record. `Recover` is all of `DBImpl::Recover`, then `NewManifest` and `SetCurrentFile` may be
interrupted.

Left out: bytes, blocks, filters and caches; the group's size limit and the slowdown
sleep; `ShouldStopBefore`. `compact_pointer_` is any table of the level. An error of Open is
a kill. Directory operations keep their order; a file whose deletion was interrupted is
garbage the next Open removes. A manifest record that failed may be there, not be there, or be
there in part (`half`): what is appended behind half a record no Open reads.

What reading the code against the properties showed:

- A failed append sets no background error, and the next group writes behind the torn
  record. It is synced and acknowledged as any other, and no Open reads it: a write with
  `sync` set is lost, by a plain kill, although `options.h:201-208` promises it the
  semantics of a `write()` followed by `fsync()`. The model does this too; `SyncedKept` is
  about `Lasting`, the synced writes without those `behind` a torn record, and so is its
  theorem.
- The sequence number moves on for a write that failed, and a NULL batch (CompactRange's)
  may be absorbed in another's group.
- `BackgroundCompaction` reads `manual_compaction_` again when it ends. If a flush failed
  meanwhile, the thread in CompactRange has gone and the pointer is NULL (`NullManual`).
- Tables of a level can overlap, and a Get then answers with an older write, in three
  ways. An output is cut between two entries of a key (`CutInKey`) and the tables are
  compacted apart later, as there are no boundary inputs (`AddBoundaryInputs` of later
  versions). A manual compaction takes tables with a gap between them, and a flush meanwhile
  is put in the gap, on the level the compaction writes across (`InGap`). The record of a
  flush inside a compaction is in the manifest although its sync failed: the flush is done
  again, and the next Open finds both tables (`Redone`). `LevelsOrdered` and `ReadsRight` hold
  up to the first of these, and only then: the run reaches the first and the third, and
  either property without its `~disordered` is violated in it.
- After a flush that failed inside a compaction the compaction's edit carries an older
  log number than the manifest had.

### Ssdb

`db` is the ordered store, its keys the tuples SSDB encodes; `min`, `last` the binlog's
numbers, `cleaning` the range the cleaning thread deletes in chunks, `clearing` an `hclear`
under way. Every command under the `Transaction` lock is one step: its batch is a sequence of
puts and deletes in the code's order (`Transact` applies it, with its log records, or drops
it whole); the reads it makes may fail (`Faults`) and then say "not found" or an error as
the code has it. `hclear`, the cleaning thread and a restart take several steps. A scan, list,
rank or range is one iterator, which reads one snapshot of LevelDB, and so one state. `zscan`
and `zrscan` given a key find its score with a `zget` before that: the score is an argument of
`ZScan` and `ZRScan`, and `RangesRight` asks them with every score.

Left out: `setbit`, `zfix`, `flushdb`, `clean_obsolete`, `merge` and the raw calls; the overflow
of sums and of `incr`. Left out too are the reads of a queue: `qget` (`t_queue.cpp:97-107`),
`qfront`, `qback` and `qslice` (432-507) look up an end and then each entry, in a state of its
own each time, as they hold no lock, and what they return beside a writer need not be what any
one state has. The cleaning thread reads `min_seq_` and `last_seq` in one step, that of its
last reading: the first is written by no other thread, and the second only grows, so what
the thread tested before still holds. The app
reads no configuration file and so runs with the binlog disabled (`options.cpp:31`); the model
starts with it either way.

What reading the code against the properties showed:

- `hset`, `hdel` and `zset` read before they write and take a failed read for "not there":
  the counter or the score index is wrong from then on. `CountersAgree` excepts what was
  written so (`misread`), and the queues `qset_by_seq` wrote behind the last entry of (`orphaned`).
- `qfix` may leave a queue with a gap; `getset` answers -1 and yet stores; `zrrange`, `zrrank` and
  `zrscan` started without a score miss entries of the largest score (`RangesRight` says nothing
  of the first two where an entry has it, and the last is asked with a score only); `hclear` answers 0 for
  failure and for an empty hash; the wrapper's `set:`, `del:` and `hclear:` take a nonzero count
  for failure.
- A restart after a flush uses binlog numbers again; a cleaning that failed leaves
  records below `min_seq_`.

### The pure parts

`MCParts` asks a part a question and has a reference definition judge the answer. Digits,
limbs, words and the curve are small, so that carries, borrows, normalisations and every
branch happen in numbers TLC can enumerate:

| part | constants of the run |
|---|---|
| libtommath | digits of 4 bits (8 for reductions), a word of 10 (18), Karatsuba from 2 (3) digits, Toom-Cook from 3 (9) |
| trezor-crypto | three limbs of 8 bits, bytes of 5 bits; the curves over 1048423 with a = 0 and a = -3, and stand-in digests; a key cache of 2 |
| digests, cipher | full width, messages around the ends of their blocks, cut into two or three calls, and a few known answers |
| scrypt | the three builds, N of 2 to 8; nosse, the one `ethers.xcodeproj` compiles, also stopped at its polls |

Preconditions are those of the callers: the inverse is of a number that is no multiple of the
modulus, and not negative where the modulus is odd, `jacobi` has a prime,
`next_prime` starts from 3, a root has a positive degree, N is greater than one.
Outside of them: `mp_invmod` of a multiple of the modulus loops or answers wrongly, and its
fast form, taken for an odd modulus, answers -1/a for a negative a where the comment of
`mpi.c:72-75` has c = 1/a mod b; `mp_mod` of a negative multiple gives the
modulus; `mp_prime_next_prime(0)` is wrong, and from 1 or 2 with the Blum condition too;
`mp_toradix_n` keeps the low digits; `mp_and`, `mp_or` and `mp_xor` take the sign of the longer;
every single-digit modulus counts as 2k-large, so `mp_exptmod` never takes its
diminished-radix branch; scrypt with N = 1 passes the check though two steps are taken
at a time. `crypto_scrypt.h:41` has -2 for a job that was stopped: nosse answers so, and
`CryptoRight` says it of nosse alone; ref answers -1, as for an error, and sse does not look.

## 3. The runs

| run | module, config | what it asks |
|---|---|---|
| `wallet_store` | `MCWalletStore`, `WalletStore.cfg` | safety and release of the HUD with two kills; until the first kill, that the handlers implement `WalletBook` |
| `fallback_calls` | `FallbackCalls`, `FallbackCalls.cfg` | two calls sharing the queue, one whose promise accepts null, a list that changes: who is asked when, the handlers, and refinement of `FirstAnswer` |
| `fallback_null` | `FallbackCalls`, `FallbackNull.cfg` | a finding, see below |
| `transfer` | `TransferFlow`, `TransferFlow.cfg` | nonces, registration, coverage and the HUD |
| `account_jobs` | `MCAccountJobs`, `AccountJobs.cfg` | two jobs, cancelled at any point, sharing the phrase buffers |
| `account_phrase` | `MCAccountJobs`, `AccountPhrase.cfg` | a finding, see below |
| `client_id` | `ClientId`, `ClientId.cfg` | two stores, kills, locks, the loss of either store |
| `txn_lists` | `MCTxnLists`, `TxnLists.cfg` | answers in any order to screens that are there or gone, notices at any time |
| `txn_cache` | `MCTxnLists`, `TxnCache.cfg` | a finding, see below |
| `leveldb` | `MCLevelDb`, `LevelDb.cfg` | what readers see, what survives, what is deleted, who waits, with kills, power cuts and failing files |
| `ssdb` | `MCSsdb`, `Ssdb.cfg` | counters, indexes, answers, scans and the log, with failing reads and writes |
| `parts` | `MCParts`, `Parts.cfg` | the answers of the pure parts against their references |

**Bounds.** `WalletStore`: three names, so that a rename has a free name to go to while
another wallet exists; two addresses with two kills, three without, so that the same
account can be met by two flows; two kills leave one inconsistency and meet it again.
`FallbackCalls`: a list of two has a first
and a last provider, and changes under a call; two calls are enough to interleave on the
queue; two handlers have an order. `TransferFlow`:
amounts up to two with a fee of one or two make every comparison fall either way; two
nonces are enough for two transfers to collide; a token with and one without decimals.
`AccountJobs`: two jobs are two decryptions at once, or an encryption and the decryption of
what it wrote; a phrase of 12 and one of 24 words; foreign files that are damaged, have no
phrase, name another address or carry another account's phrase. `ClientId`: four ids, since
the stores may differ and both differ from what was told. `TxnLists`: two accounts with ether
and one token, so that a list can be another account's and another contract's; two requests
can be answered in either order, or one can outlive its screen and meet the next screen's; a
list that grows by one (`Growing`) has an old answer and a new one; one notice can come before,
between and after the answers.
`LevelDb`: two keys, two writers of which one syncs and one deletes, three sequence
numbers and two events (kills, failing files, snapshots, iterators, CompactRanges); limits
of one or two entries, so that every write can fill a memtable and level 0 stops writers;
four levels, with tables of one entry (`FileSize`), so that every output is cut, also between
two entries of a key; with two keys no manual compaction leaves a gap (`InGap`); the writers
are symmetric. `Ssdb`: two hashes, two sorted sets with scores below the largest, and one queue with places 6 to 8, so that both ends of the range are met;
two entries without the binlog, one with it; one failed read or write; chunks of one, so
that every loop is interrupted; the scans compared (`Bounds`) run from the start or behind a
key, to the end, to a later key or to an earlier one. No symmetry is used where liveness is checked.

**Fairness.** `WalletStore`: a handler finishes its writes and every job handed to a queue
calls back (`QueueNext`, `WriteNext`); scrypt ends, sessions time out, `dispatch_after`
fires. `FallbackCalls`: the main queue advances and each child is answered (the session's
timeout is an answer). `TransferFlow`: the callback that is waited for comes.
`AccountJobs`: the main queue advances and the global queue runs each job to its end. The
user is never assumed to do anything. `ClientId` states no liveness. `TxnLists`: each request
is answered or fails (the session's timeout is a failure); neither is assumed of the two alone.
`LevelDb` and `Ssdb` state no liveness: `WaitersHaveWork` is the safety half of it.

**What they show.** Everything listed holds except three things.

`FallbackProvider.h:29` says that the children are asked "until a successful response is returned". A child that
succeeds with a JSON `null`, as for the receipt of a pending transaction, resolves with
NSNull; `resolve:` of the caller's typed promise refuses NSNull in every class but
`BlockInfoPromise`, so the caller gets an error and no other provider is asked
(`FallbackProvider.m:171`). `SuccessReturned` states the comment, and `fallback_null` is the
counterexample. `FirstAnswer` describes what the code does.

The backup menu offers the phrase of every keystore that holds one
(`ViewController.m:397`, `GSE_WalletExporter.m:62`). Encryption writes the mnemonic data of
12, 18 and 24 words, and decryption reads it only when it has the 16 bytes of 12 words
(`Account.m:389`): an account imported by a longer phrase opens without it. `PhraseKept`
states what the menu offers, and `account_phrase` is the counterexample.

The answer of a token's transaction list is filed under `weakSelf.contract`
(`GSE_WalletTxns.m:272`), while the address was captured when the request was sent. If the
screen is closed before the answer comes, the contract is nil and the token's transactions
overwrite the account's stored ether list, which `storeTxns:forAddress:atContract:`
(`GSE_Wallet.h:59`) means to keep by contract. `CacheRight` states that, and `txn_cache` is the
counterexample. The ether screen shows the token's transactions until it is answered itself;
`ShownRight` says that from then on it shows its own list, and `TokenCacheRight` that a token's
stored list is never another's.

Two decryptions at once may read each other's phrase. What saves them is the comparison of
the derived account with the key (`Account.m:413`): `RightAccount` holds, and the price is a
"Mnemonic Mismatch" for a sound keystore, which `ErrorsTrue` excepts by name.

Two screens stay covered for ever, and the properties except them by name: a refused
referral code (`GSE_WalletCreator.m:452`) and an order the backend refuses
(`GSE_WalletConfirmation.m:381`).

## 4. The proofs

Assumptions are those the modules name: the absent values are not names or addresses,
`FirstOf` picks a member of a set that has one, bounds are natural numbers.

**WalletStoreProofs.** `TypeCorrect`, `NeverLost`, `TablesInverse`, `ShownCurrent`, `SuccessStored` and
`Refines`, for any names, accounts and number of kills. That no keystore is lost is not
inductive: that `hdel_old` loses nothing depends on what the handler wrote two steps
before. `IInv` therefore says for each pending write what the earlier ones left: `Storing`
(the name about to be written has no keystore yet, and a rename still has the account
under the old name), `Moving` (the account stands under both names before the old one is
deleted), `Discarding` (the keystore is filed under deleted before the table is touched),
and `FlowAgrees` (the name a flow captured at the tap stays free until its job calls back,
and writes are pending only in the stage that started them; this is where one flow at a
time matters). `AInv` adds what the index and the screen owe to the table: what the tables
will be once the pending writes are made (`Final...`) is inverse until the first kill
(`FinallyInverse`), a flow's captured account is the one its name opens once it is done
(`OfStage`, `Done`, `Captured`), a selected name without a keystore was filed by a killed
removal (`Dangling`), and the home screen shows what is selected or is about to
(`ShowsCurrent`). `Refines` takes the same outcome as the refinement mapping to `WalletBook`:
the first write of a handler is its step, the others cannot be seen.

**FallbackCallsProofs.** `TypeCorrect`, `InTurn`, `InOrder` and `ActsAsPromised`, for any chain of
providers, calls and handlers. That providers are asked in turn needs that one child of
a call at a time holds the turn (`OneTurn`): its promise is unanswered, or its handler is
queued, or it is being asked, and nothing else of the call is (`Asked`, `Waiting`, `Queued`).
That handlers are called in order needs the line of a call's handlers (`Line`): those
called, then those in the main queue, then those still waiting in the promise, each once.
`ActsAsPromised` is the step lemma of the refinement: every step of a call is one of
`FirstAnswer` or cannot be seen.

**TransferFlowProofs.** `TypeCorrect`, `BroadcastRegistered`, `NoNonceTwice`, `SentIsOnChain`,
`OfferedIsCovered`. `NoncesDistinct` is not inductive either: `IInv` adds that registered
orders have distinct nonces (`RegisteredDistinct`), that the order being prepared carries a
nonce no other registered order has until it is registered itself (`NonceKept`), and what
each screen waits for (`Screens`).

**AccountJobsProofs.** `JobTypes`, `CallbackOnce`, `NoAccountAfterCancel`, `AccountOfItsKeystore`,
`ErrorsHaveCause`, for any number of jobs. Each property is about callbacks that were made,
and a callback was a block of the main queue before: `IInv` carries what they say over to
the queue. `OneBlock` (a job has at most one block or one callback, and none before it is
`answering` or `refused`) gives that it calls back once; `BlocksRight` says of each queued
answer what the property says of one delivered; `Waiting`, `Deriving` and `Unmixed` say what a
job in `scrypt` or `phrase` has already checked and that an unmixed job can derive only its
own phrase. That cancelling is honoured rests on `recheck`: an account travels only in a
block that reads `stop`.

**DeviceProofs.** Of `ClientId`: `IdTypes`, `OneIdForever`, `CallsReconcile`,
`KeychainOutlives`, for any set of ids. What a call does depends on what it read two steps
before: `Unseen` (a call that could read the keychain and means to save found it empty),
`Reconciling` (what a call that met no lock has brought about at each of its steps) and `Agreed`
(without locks the stores never differ, and one of them holds whatever was told).

Of `TxnLists`: `ListTypes`, `TokenListsKept`, `ScreenShowsItsList`, `ShownOnlyGrows`, for any
accounts, tokens, notices and number of requests. An answer may come to a screen that did
not ask: `ForScreen` (a request whose screen is there is for that screen's account and list)
gives `ShownRight`. That nothing goes back without another answer (`NeverBack`) needs
`NothingAhead` (nothing stored, shown or remembered has more than the backend) when a request
is served, and `AnswersNewer` (an answer under way has at least what its screen showed when it
asked) until it is answered.

**LevelDbProofs.** `StoreStays`, `FilesStay`, `WorkStarts` and `SyncedStay`, for any keys, writers,
levels, limits, kills and failures. Four invariants, one on top of the other:

- `QueueInv`: only the first of the queue writes, its group is a prefix of the queue, its
  sequence numbers are the next, and it syncs if one of its group asked for it.
- `FilesInv` says what the files owe to each other. `Named` and `Live`: what CURRENT's
  manifest, the version, an iterator and a compaction name is on disk; what a compaction
  has written is pending, and a number that is not handed out names nothing. `Numbered` and
  `InStep`: the manifest says what the version says, unless an edit is half installed or an
  error stopped the background thread. `Editing` and `Opening` carry this across the steps of
  an installation and of an Open. `FilesKept` follows, because `DeleteObsoleteFiles` goes by
  the version, the pending outputs and the log number, and these never run ahead of the
  manifest.
- `WorkScheduled`: whatever `MaybeScheduleCompaction` would start is started, or the thread
  is at work; that a level 0 at its stop limit is reason enough needs that a version has
  finitely many tables (`TablesFinite`) and that the limit is no lower than the trigger.
- `SyncInv`: until a table of the manifest holds it (`Covers`), a durable entry's record
  is whole and synced with all before it (`DurableSafe`), in a log that is no older than
  the one the manifest names (`LogNumbers`); a writer's record is the last of the log
  (`InFlight`), and no record reaches past the last sequence number (`RecordsPast`). What
  `Recover` reads back is a recursion over records; that it finds every record up to a
  torn one is proved by taking the least record it would miss. All of it is about `Lasting`,
  the durable entries that are not `behind` a torn record; of a manifest that ends in half a
  record it needs that nobody deletes a file then, which `bg_error_` prevents.

**SsdbProofs.** `StoreRight`, `CountersFollow`, `RecordsRight`, `ChangesTold` and `KeysLegal`,
for any names, keys, values, scores, limits and number of failures. The first part says what a
batch comes to: what a transaction leaves under a key is what the last entry with that key says
(`Writes`), and what was there if it has none (`Untouched`, `ChangesBy`); the log records it
adds touch no other key (`TransactChanges`). A batch that touches the keys of one object leaves
every other as it was (`Elsewhere`), which needs that a key is what its type says (`Shaped`).
What remains is one lemma per operation about its own object:

- `HashRight` and `ZsetRight`: finitely many entries, a counter that says how many (and is
  absent for none), an index that is exactly the entries under their scores. `hset` keeps
  this because the entry is read in the same transaction that counts it; after a failed
  read the object is in `misread`, and nothing is claimed of it.
- `QueueEnds` holds of every queue: the size and both ends are there together, the ends are
  in range, and the size is at most what fits between them. It is what makes `qfix` and `qpop`
  safe on a queue `qset_by_seq` wrote behind the end of. `QueueRight` holds of the others: the
  entries are exactly those between the ends.
- `qfix` rebuilds from a scan, so its proof is about the order of keys: what lies between its
  two bounds are the queue's entries and no key of a neighbour (`FixInside`), and the first
  and last of them sorted are the least and greatest number (`SortedItems`).

`LogTellsChanges`, about the binlog, needs of an operation only what it hands to its
transaction: that each entry its batch writes is named by one of its log entries (`Told`, one
lemma per operation), and that no key of the batch is a record's (`Safe`). A pop names no
number, so its entry of the log is matched through the end it pops at. From there
`TransactTells` follows: the batch with its records is applied whole, and the records have the
next numbers (`RecordsAdded`). What the step of one actor cannot see is in `LogRight`, the
invariant of `RecordsRight`: no number is missing from `min_seq_` on but those the cleaning
thread has begun to give up, and that range ends before the last `capacity` numbers, however
far the writers have moved on since the thread read `last_seq`. Its hard case is a restart
while the thread is between two chunks: `find_last` and `find_next` look into a store that may
lack any records up to the range's end, and must come out with the last number, and with a
`min_seq_` none is missing from (`LastFound`, `FirstFound`, `RestartFinds`). This is a matter of
the order of keys: a record's key is below every key of data, so the key before the
largest number is the last record or none.

`StoreLegal`, the invariant of `KeysLegal`, says what an iterator may meet: finitely many keys,
each of a name, key and score there are. It holds because every operation that writes
refuses the empty key and the ones beyond `SSDB_KEY_LEN_MAX`, and because what `qfix` and
the cleaning thread write or delete they have read.

**SsdbAnswerProofs.** `HclearCounts`, `AnswersPromised` and `RangesHold`, from `StoreRight`,
`RecordsRight` and `KeysLegal`.

`AnswersRight` compares each step with an abstract store of values, hashes, scores and
sequences. A command's proof goes from what its batch leaves under each key to what becomes of
the contents: if no entry but `y` is written and no end of a queue, only the object of `y`
changes, and only at `y`'s key (`KvContents`, `HashContents`, `ZsetContents`); a batch of
`multi_set` or `multi_del` may name a key twice, and the last write of it counts (`LastPlace`). A
queue is a sequence only through its ends, so `Holds` says that its numbers from front to back
hold its items, and `PushedQueue`, `PoppedQueue` and `SetQueue` say what a new end or a new entry
makes of that. That an `hclear` nobody disturbed leaves nothing, and answers how many entries
there were, is an invariant of many steps, `ClearingRight`: of what there was when it began,
each entry is counted, or counted in this round, or still there, and what the round has still
to delete are entries there, once each (`Clears`). It needs that a round which finds
nothing found nothing because there is nothing (`ClearScanRight`), which is a fact about the
order of keys again: from the prefix of a hash on, the keys that have the prefix come before
all others (`StartsBetween`), so the scan that stops at the first other key has missed none
(`WhileKeeps`, `LimitKeeps`). Sorting needs keys that are finitely many sequences of numbers,
which `KeysLegal` gives.

`RangesRight` compares every read of several entries with the contents. An iterator lists
the keys behind its start in the store's order and stops at its end, its limit or the first
key of another prefix. So three things are shown of each read. The keys of its prefix are a
run of that order: none of a neighbour lies between the bounds the code builds for it, and
none of its own outside them (`KvGroup`, `HashGroup`, `SizeGroup`). What the scan returns is
that run, cut by the limit, forward or backward (`ScanIs`, `ForwardScan`, `BackwardScan`). And
the order of the keys is the order that is promised: by name, or in the index by score and
then key (`IndexedRight`, `RankedIs`), where the bounds of a range of scores enclose the entries
with those scores and no others (`UpBounds`, `DownBounds`, `BehindBounds`). A rank is then a
place in that list; from the end it is one while no entry has the largest score, below which
the iterator begins.

These two modules assume that `QITEM_MIN_SEQ` is above the places of the two ends, and the
starting number between the limits, as the constants of `t_queue.h` are; and that the capacity,
a chunk of the cleaning thread and a batch of `hclear` are positive and the slack is not
negative: `options.cpp:40` replaces a capacity of 0, and the others are literals
(`binlog.cpp:358,383`, `t_hash.cpp`). The model's bound on the numbers, `MaxLogs`, may be any.
Scores are integers, as `str_to_int64` leaves them, and a name or key sorts below the byte 255
the list operations append to their bounds (`TextAssumption`): the wrapper hands over
`NSString`s in UTF-8 (`SSDB+Extension.mm`), which has no such byte.

Only model-checked:

- liveness (`HudGoes`, `HandlersCalled`, `Answered`, `SpinnerStops`, `NoticeFinished`, and the fair half of
  `AnswersAsPromised`): the prover has no rule for ENABLED;
- `LevelsOrdered` and `ReadsRight` of `LevelDb`, up to the first of the three events that let
  tables of a level overlap (`disordered`, see the module's section);
- the pure parts: their definitions are recursive, and their answers are those of
  references over the enumerated questions.

## 5. The plan

Done: storage, which everything else reads; the library's promises and providers, which
every request goes through; the transfer, where money leaves; the keystore jobs; the
client id; the transaction lists; SSDB and LevelDB below the storage; numbers, curve,
digests, cipher and scrypt below the accounts. Not modelled so far, in the order they
would be taken up:

1. **`HomeLists`** (`ViewController.m`, `GSE_Main.m`, `reloadTokens` of `GSE_Wallet.m`, the topic
   `gse_getTokens` of `AppDelegate.m`), after the pattern of `TxnLists`: a stored list belongs to
   its account; the totals on screen belong to the selected wallet once no request is under
   way; each notice is finished once.
2. **The byte formats of LevelDB**: the log's fragments and blocks, the blocks, filters and
   footer of a table, the iterators over them, each against what was written.
3. **`RebateHistory`** (`GSE_WalletRebateHistory.m`): an abstract paged list (what is shown is a
   prefix of the backend's, without gap or repetition) and the screen with a refresh and a
   next page under way at once.
4. **`PromiseGroups`**, `all:` and `timer:` of `Promise.m` over `Promises`, and **`NameLookup`**, the
   ENS chains of `Provider.m` over the same operators. Polling and block notices.
5. **`StoreExpiry`** (`ttl.cpp`): the fast keys against a lifted expiry.
6. **`CardPayment`** (`GSE_Pay.swift`, `StripePay.swift`, `Popup.swift`, `GseWallet.m`): a charge
   against a cancelling tap; the page is answered once.
7. **`Numbers`**: payment formatting and parsing, RLP, the chain id in a signature, the
   shuffle of `RoundRobinProvider`.

Screens that only display, the view classes, and vendored code the app does not reach
(pods, Cordova, the other coins and curves of trezor-crypto, Snappy) stay out.
