---------------------------- MODULE AccountJobs ----------------------------
(***************************************************************************)
(* Opening and writing keystores: decryptSecretStorageJSON and             *)
(* encryptSecretStorageJSON of Account.                                    *)
(*                                                                         *)
(* A job is checked on the main thread, derives its key with scrypt on a   *)
(* global queue, where several jobs run at once, and answers with a block  *)
(* on the main queue.  The Cancellable it returned sets a flag that scrypt *)
(* polls and that the last block of a decryption reads again.  Turning     *)
(* mnemonic data into a phrase goes through the static buffers of bip39.c, *)
(* which all jobs share: what one reads while another is at it is          *)
(* undefined.  A private key stands for the account, its address and the   *)
(* phrase it was derived from.                                             *)
(***************************************************************************)
EXTENDS Naturals, Sequences

CONSTANTS Jobs,          \* bound: the calls that are made
          Keys,          \* private keys
          NoKey,         \* no mnemonic phrase
          Passwords,
          PhraseBytes,   \* the length of a key's mnemonic data: 12, 18 or 24 words
          ForeignFiles   \* keystores that were written elsewhere

Phrases == Keys \union {NoKey}

\* A keystore: whether its JSON, version, address, KDF and cipher are
\* accepted, the address it names, and what its password deciphers.
Files == [sound : BOOLEAN, address : Keys, password : Passwords,
          key : Keys, phrase : Phrases]

ASSUME NoKeyAssumption == NoKey \notin Keys
ASSUME PhraseBytesAssumption == PhraseBytes \in [Keys -> {16, 24, 32}]
ASSUME ForeignFilesAssumption == ForeignFiles \subseteq Files

VARIABLES
    task,      \* what a job was called with
    stage,     \* idle, refused, scrypt, phrase (inside bip39.c), answering
    stop,      \* the flag the job's Cancellable sets
    mixed,     \* the phrases other jobs were deriving while this one was
    main,      \* the main queue's blocks, in order
    calls      \* each job's calls of its callback, and whether stop was set by then

vars == <<task, stage, stop, mixed, main, calls>>

-----------------------------------------------------------------------------

NoTask == [kind |-> "none"]
Tasks == {NoTask}
           \union [kind : {"decrypt", "encrypt"}, file : Files, password : Passwords]

Errors == {"JSONInvalid", "ScryptFailed", "WrongPassword", "AddressMismatch",
           "MnemonicMismatch", "Cancelled"}
Whats == Errors \union {"account", "json", "nil"}

\* A callback's arguments: an account with the phrase it carries, or an error;
\* a keystore or nil.
Answers == [what : Whats, key : Phrases, phrase : Phrases]
Told(what) == [what |-> what, key |-> NoKey, phrase |-> NoKey]
Opened(key, phrase) == [what |-> "account", key |-> key, phrase |-> phrase]
Written(file) == [what |-> "json", key |-> file.key, phrase |-> file.phrase]

\* A block either calls back or, for an account, reads stop first.
Blocks == [job : Jobs, recheck : BOOLEAN, answer : Answers]
Send(j, a) == main' = Append(main, [job |-> j, recheck |-> FALSE, answer |-> a])

\* Mutation: the account is handed out without reading stop on the main thread.
SendAnyway(j, a) == Send(j, a)

SendUnlessStopped(j, a) == main' = Append(main, [job |-> j, recheck |-> TRUE, answer |-> a])

Init == /\ task = [j \in Jobs |-> NoTask]
        /\ stage = [j \in Jobs |-> "idle"]
        /\ stop = [j \in Jobs |-> FALSE]
        /\ mixed = [j \in Jobs |-> {}]
        /\ main = <<>>
        /\ calls = [j \in Jobs |-> <<>>]

-----------------------------------------------------------------------------

\* The keystore an encryption writes opens with its password.
FileOf(key, phrase, password) ==
    [sound |-> TRUE, address |-> key, password |-> password, key |-> key, phrase |-> phrase]

OwnFiles == {task[j].file : j \in {i \in Jobs : \E n \in DOMAIN calls[i] :
                                                    calls[i][n].answer.what = "json"}}

\* What a keystore's reader looks at before it starts a job.
Accepted(file) == file.sound

StartDecrypt(j, file, password) ==
    /\ stage[j] = "idle"
    /\ file \in ForeignFiles \union OwnFiles
    /\ task' = [task EXCEPT ![j] = [kind |-> "decrypt", file |-> file, password |-> password]]
    /\ IF Accepted(file)
         THEN stage' = [stage EXCEPT ![j] = "scrypt"] /\ UNCHANGED main
         ELSE stage' = [stage EXCEPT ![j] = "refused"] /\ Send(j, Told("JSONInvalid"))
    /\ UNCHANGED <<stop, mixed, calls>>

\* SecRandomCopyBytes may fail, and then there is no job to cancel.
StartEncrypt(j, key, phrase, password) ==
    /\ stage[j] = "idle"
    /\ phrase \in {key, NoKey}
    /\ task' = [task EXCEPT ![j] = [kind |-> "encrypt", password |-> password,
                                    file |-> FileOf(key, phrase, password)]]
    /\ \/ stage' = [stage EXCEPT ![j] = "scrypt"] /\ UNCHANGED main
       \/ stage' = [stage EXCEPT ![j] = "refused"] /\ Send(j, Told("nil"))
    /\ UNCHANGED <<stop, mixed, calls>>

\* A call that is refused at once returns no Cancellable.  Cancelling again
\* does nothing, nor does cancelling what has called back.
Cancel(j) ==
    /\ stage[j] \in {"scrypt", "phrase", "answering"} /\ calls[j] = <<>>
    /\ ~stop[j]
    /\ stop' = [stop EXCEPT ![j] = TRUE]
    /\ UNCHANGED <<task, stage, mixed, main, calls>>

\* Mutation: the return after a failure of scrypt is forgotten.
ScryptFailsAndGoesOn(j) ==
    /\ stage[j] = "scrypt"
    /\ Send(j, Told(IF task[j].kind = "encrypt" THEN "nil" ELSE "ScryptFailed"))
    /\ UNCHANGED <<task, stage, stop, mixed, calls>>

\* scrypt needs 256 MB, which may not be there, and an encryption random bytes
\* for the phrase; scrypt notices a cancellation
\* only after it has its memory.
ScryptFails(j) ==
    /\ stage[j] = "scrypt"
    /\ stage' = [stage EXCEPT ![j] = "answering"]
    /\ Send(j, Told(IF task[j].kind = "encrypt" THEN "nil" ELSE "ScryptFailed"))
    /\ UNCHANGED <<task, stop, mixed, calls>>

\* Mutation: a cancelled decryption just ends.
ScryptStoppedSilently(j) ==
    /\ stage[j] = "scrypt" /\ stop[j]
    /\ stage' = [stage EXCEPT ![j] = "answering"]
    /\ IF task[j].kind = "encrypt" THEN Send(j, Told("nil")) ELSE UNCHANGED main
    /\ UNCHANGED <<task, stop, mixed, calls>>

ScryptStopped(j) ==
    /\ stage[j] = "scrypt" /\ stop[j]
    /\ stage' = [stage EXCEPT ![j] = "answering"]
    /\ Send(j, Told(IF task[j].kind = "encrypt" THEN "nil" ELSE "Cancelled"))
    /\ UNCHANGED <<task, stop, mixed, calls>>

\* Nothing looks at stop between scrypt and the main queue, and nothing does
\* there for an encryption.
EncryptDerived(j) ==
    /\ stage[j] = "scrypt" /\ ~stop[j] /\ task[j].kind = "encrypt"
    /\ stage' = [stage EXCEPT ![j] = "answering"]
    /\ Send(j, Written(task[j].file))
    /\ UNCHANGED <<task, stop, mixed, calls>>

\* The mnemonic data is looked at only when it is 16 bytes long.
HasPhrase(file) == file.phrase # NoKey /\ PhraseBytes[file.phrase] = 16

\* Mutation: the address is compared before the MAC.
DecryptRefusedLate(j) ==
    LET file == task[j].file
    IN  /\ stage[j] = "scrypt" /\ ~stop[j] /\ task[j].kind = "decrypt"
        /\ stage' = [stage EXCEPT ![j] = "answering"]
        /\ task[j].password # file.password /\ Send(j, Told("AddressMismatch"))
        /\ UNCHANGED <<task, stop, mixed, calls>>

DecryptRefused(j) ==
    LET file == task[j].file
    IN  /\ stage[j] = "scrypt" /\ ~stop[j] /\ task[j].kind = "decrypt"
        /\ stage' = [stage EXCEPT ![j] = "answering"]
        /\ \/ task[j].password # file.password /\ Send(j, Told("WrongPassword"))
           \/ /\ task[j].password = file.password /\ file.key # file.address
              /\ Send(j, Told("AddressMismatch"))
        /\ UNCHANGED <<task, stop, mixed, calls>>

DecryptDerived(j) ==
    LET file == task[j].file
    IN  /\ stage[j] = "scrypt" /\ ~stop[j] /\ task[j].kind = "decrypt"
        /\ task[j].password = file.password /\ file.key = file.address
        /\ ~HasPhrase(file)
        /\ stage' = [stage EXCEPT ![j] = "answering"]
        /\ SendUnlessStopped(j, Opened(file.key, NoKey))
        /\ UNCHANGED <<task, stop, mixed, calls>>

\* accountWithMnemonicData is entered: from here to its return the job uses
\* the buffers, and meets the jobs that are using them.
EnterPhrase(j) ==
    LET file == task[j].file
        inside == {i \in Jobs : stage[i] = "phrase"}
    IN  /\ stage[j] = "scrypt" /\ ~stop[j] /\ task[j].kind = "decrypt"
        /\ task[j].password = file.password /\ file.key = file.address
        /\ HasPhrase(file)
        /\ stage' = [stage EXCEPT ![j] = "phrase"]
        /\ mixed' = [i \in Jobs |-> IF i = j THEN {task[k].file.phrase : k \in inside}
                                    ELSE IF i \in inside THEN mixed[i] \union {file.phrase}
                                    ELSE mixed[i]]
        /\ UNCHANGED <<task, stop, main, calls>>

\* What it returned: its own phrase's account, that of another job, or none.
Derivable(j) == {task[j].file.phrase} \union mixed[j]
                  \union (IF mixed[j] = {} THEN {} ELSE {NoKey})

\* Mutation: the phrase's account is not compared with the key's.
LeavePhraseUnmatched(j) ==
    /\ stage[j] = "phrase"
    /\ stage' = [stage EXCEPT ![j] = "answering"]
    /\ \E derived \in Derivable(j) : SendUnlessStopped(j, Opened(derived, derived))
    /\ UNCHANGED <<task, stop, mixed, calls>>

LeavePhrase(j) ==
    /\ stage[j] = "phrase"
    /\ stage' = [stage EXCEPT ![j] = "answering"]
    /\ \E derived \in Derivable(j) :
          IF derived = task[j].file.key
            THEN SendUnlessStopped(j, Opened(derived, derived))
            ELSE Send(j, Told("MnemonicMismatch"))
    /\ UNCHANGED <<task, stop, mixed, calls>>

\* The main queue runs its first block.
RunMain ==
    /\ main # <<>>
    /\ LET b == Head(main)
       IN  IF b.recheck /\ stop[b.job]
             THEN /\ main' = Append(Tail(main), [job |-> b.job, recheck |-> FALSE,
                                                 answer |-> Told("Cancelled")])
                  /\ UNCHANGED calls
             ELSE /\ main' = Tail(main)
                  /\ calls' = [calls EXCEPT ![b.job] =
                                  Append(@, [answer |-> b.answer, stopped |-> stop[b.job]])]
    /\ UNCHANGED <<task, stage, stop, mixed>>

-----------------------------------------------------------------------------

Background(j) == \/ ScryptFails(j) \/ ScryptStopped(j) \/ EncryptDerived(j)
                 \/ DecryptRefused(j) \/ DecryptDerived(j)
                 \/ EnterPhrase(j) \/ LeavePhrase(j)

Start(j) == \E password \in Passwords :
               \/ \E file \in Files : StartDecrypt(j, file, password)
               \/ \E key \in Keys, phrase \in Phrases : StartEncrypt(j, key, phrase, password)

Next == RunMain \/ \E j \in Jobs : Start(j) \/ Cancel(j) \/ Background(j)

\* The global queue runs every job to its end and the main queue advances.
Fairness == WF_vars(RunMain) /\ \A j \in Jobs : WF_vars(Background(j))

Spec == Init /\ [][Next]_vars /\ Fairness

-----------------------------------------------------------------------------

\* The types of Account's variables and of the blocks it queues.
TypeOK == /\ task \in [Jobs -> Tasks]
          /\ stage \in [Jobs -> {"idle", "refused", "scrypt", "phrase", "answering"}]
          /\ stop \in [Jobs -> BOOLEAN]
          /\ mixed \in [Jobs -> SUBSET Keys]
          /\ main \in Seq(Blocks)
          /\ calls \in [Jobs -> Seq([answer : Answers, stopped : BOOLEAN])]

\* A callback is called at most once, whatever cancels when and whichever of
\* the two threads finds out (Account.m:314-428).
CalledOnce == \A j \in Jobs : Len(calls[j]) <= 1

\* Whoever cancelled a decryption is never handed the account (Account.m:421-428).
CancelHonoured == \A j \in Jobs : \A n \in DOMAIN calls[j] :
                     calls[j][n].answer.what = "account" => ~calls[j][n].stopped

AccountRight(j, a) ==
    a.what = "account" => /\ task[j].kind = "decrypt"
                          /\ a.key = task[j].file.address
                          /\ task[j].password = task[j].file.password
                          /\ a.phrase \in {a.key, NoKey}

\* An account that is handed out is the one its keystore names, opened with the
\* keystore's password, and a phrase it carries is its own, even when two jobs
\* derive phrases in the buffers they share (Account.m:347, 379, 413).
RightAccount == \A j \in Jobs : \A n \in DOMAIN calls[j] : AccountRight(j, calls[j][n].answer)

ErrorTrue(j, a) ==
    LET file == task[j].file
    IN  /\ a.what = "Cancelled" => stop[j]
        /\ a.what = "JSONInvalid" => ~file.sound
        /\ a.what = "WrongPassword" => task[j].password # file.password
        /\ a.what = "AddressMismatch" => file.key # file.address
        /\ a.what = "MnemonicMismatch" => file.phrase # file.key \/ mixed[j] # {}

\* An error has its cause: a keystore that was written here and is opened with
\* its password is refused only when scrypt fails, after a cancellation, or
\* when another job was deriving a phrase at the same time.
ErrorsTrue == \A j \in Jobs : \A n \in DOMAIN calls[j] : ErrorTrue(j, calls[j][n].answer)

\* Every job that was called calls back, cancelled or not.
Answered == \A j \in Jobs : task[j] # NoTask ~> calls[j] # <<>>

\* The backup screens offer to "back up wallet with mnemonics" when the keystore
\* has a mnemonic (ViewController.m:397, GSE_WalletExporter.m:62) and show the
\* phrase of the account it opens: an account whose keystore has one carries it.
PhraseKept ==
    \A j \in Jobs : \A n \in DOMAIN calls[j] :
       LET a == calls[j][n].answer
       IN  a.what = "account" => a.phrase = task[j].file.phrase
=============================================================================
