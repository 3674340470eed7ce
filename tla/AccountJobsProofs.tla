------------------------- MODULE AccountJobsProofs -------------------------
(***************************************************************************)
(* Proofs about AccountJobs, for any number of jobs, any keys, passwords,  *)
(* phrase lengths and foreign keystores.                                   *)
(*                                                                         *)
(* The properties speak of callbacks; what makes them true is decided      *)
(* earlier, when the background queue hands a block to the main queue.     *)
(* IInv carries them over the queue: a job has one block at most, the      *)
(* block's answer is right for the job, and an account is rechecked.       *)
(***************************************************************************)
EXTENDS AccountJobs, TLAPS

\* A job has at most one block on the main queue, and it has not called back.
OneBlock == /\ \A m, n \in DOMAIN main : main[m].job = main[n].job => m = n
            /\ \A n \in DOMAIN main : /\ stage[main[n].job] \in {"refused", "answering"}
                                      /\ calls[main[n].job] = <<>>

\* A job that is under way has not called back, and knows its task.
Waiting == \A j \in Jobs : /\ stage[j] \in {"idle", "scrypt", "phrase"} => calls[j] = <<>>
                           /\ stage[j] # "idle" => task[j] # NoTask

\* A job derives a phrase only for a keystore it has opened.
Deriving == \A j \in Jobs : stage[j] = "phrase" =>
               /\ task[j].kind = "decrypt" /\ task[j].file.phrase \in Keys
               /\ task[j].password = task[j].file.password
               /\ task[j].file.key = task[j].file.address

\* A job that has not entered bip39.c has met no other there.
Unmixed == \A j \in Jobs : stage[j] \in {"idle", "scrypt"} => mixed[j] = {}

\* A block's answer is right, and an account is handed out only after a recheck.
BlocksRight == \A n \in DOMAIN main :
                  /\ AccountRight(main[n].job, main[n].answer)
                  /\ ErrorTrue(main[n].job, main[n].answer)
                  /\ main[n].answer.what = "account" => main[n].recheck

IInv == TypeOK /\ OneBlock /\ Waiting /\ Deriving /\ Unmixed /\ BlocksRight
          /\ CalledOnce /\ CancelHonoured /\ RightAccount /\ ErrorsTrue

-----------------------------------------------------------------------------

LEMMA ElementOf ==
  ASSUME NEW S, NEW s \in Seq(S), NEW n \in DOMAIN s
  PROVE  s[n] \in S /\ s # <<>>
  OBVIOUS

LEMMA AppendAt ==
  ASSUME NEW S, NEW s \in Seq(S), NEW e \in S
  PROVE  /\ Append(s, e) \in Seq(S)
         /\ DOMAIN s = 1 .. Len(s) /\ Len(s) \in Nat
         /\ DOMAIN Append(s, e) = 1 .. (Len(s) + 1)
         /\ \A n \in 1 .. Len(s) : Append(s, e)[n] = s[n]
         /\ Append(s, e)[Len(s) + 1] = e
  OBVIOUS

LEMMA TailAt ==
  ASSUME NEW S, NEW s \in Seq(S), s # <<>>
  PROVE  /\ Tail(s) \in Seq(S)
         /\ Len(s) \in Nat \ {0}
         /\ DOMAIN s = 1 .. Len(s)
         /\ Len(Tail(s)) = Len(s) - 1
         /\ DOMAIN Tail(s) = 1 .. (Len(s) - 1)
         /\ \A n \in 1 .. (Len(s) - 1) : Tail(s)[n] = s[n + 1]
         /\ Head(s) = s[1] /\ s[1] \in S
  OBVIOUS

LEMMA BlockTypes ==
  ASSUME IInv
  PROVE  \A n \in DOMAIN main :
            main[n] \in Blocks /\ main[n].job \in Jobs /\ main[n].answer \in Answers
<1>1. main \in Seq(Blocks)
  BY DEF IInv, TypeOK
<1>2. \A n \in DOMAIN main : main[n] \in Blocks
  BY <1>1, ElementOf
<1> QED BY <1>2 DEF Blocks

LEMMA AppendTail ==
  ASSUME NEW S, NEW s \in Seq(S), s # <<>>, NEW e \in S
  PROVE  /\ Append(Tail(s), e) \in Seq(S)
         /\ DOMAIN Append(Tail(s), e) = 1 .. Len(s)
         /\ \A n \in 1 .. (Len(s) - 1) : Append(Tail(s), e)[n] = Tail(s)[n]
         /\ Append(Tail(s), e)[Len(s)] = e
<1>1. Tail(s) \in Seq(S) /\ Len(s) \in Nat \ {0} /\ Len(Tail(s)) = Len(s) - 1
  BY TailAt
<1>2. Len(Tail(s)) + 1 = Len(s)
  BY <1>1
<1> QED BY <1>1, <1>2, AppendAt

\* A job that has started keeps its task, and its flags only rise.
Steady(j) == /\ task'[j] = task[j]
             /\ stop[j] => stop'[j]
             /\ mixed[j] # {} => mixed'[j] # {}

LEMMA SteadyKeeps ==
  ASSUME NEW j \in Jobs, NEW a \in Answers, Steady(j)
  PROVE  /\ AccountRight(j, a) => AccountRight(j, a)'
         /\ ErrorTrue(j, a) => ErrorTrue(j, a)'
  BY DEF Steady, AccountRight, ErrorTrue

\* What was called stays right while the jobs that called are steady.
LEMMA CallsKept ==
  ASSUME IInv, TypeOK', calls' = calls,
         \A j \in Jobs : stage[j] # "idle" => Steady(j)
  PROVE  CalledOnce' /\ CancelHonoured' /\ RightAccount' /\ ErrorsTrue'
<1>1. \A j \in Jobs : \A n \in DOMAIN calls[j] :
          Steady(j) /\ calls[j][n].answer \in Answers
  <2> TAKE j \in Jobs
  <2> TAKE n \in DOMAIN calls[j]
  <2>1. calls[j] \in Seq([answer : Answers, stopped : BOOLEAN])
    BY DEF IInv, TypeOK
  <2>2. calls[j] # <<>> /\ calls[j][n] \in [answer : Answers, stopped : BOOLEAN]
    BY <2>1, ElementOf
  <2>3. stage[j] # "idle"
    BY <2>2 DEF IInv, Waiting
  <2> QED BY <2>2, <2>3
<1>2. CalledOnce' /\ CancelHonoured'
  BY DEF IInv, CalledOnce, CancelHonoured
<1>3. RightAccount' /\ ErrorsTrue'
  BY <1>1, SteadyKeeps DEF IInv, RightAccount, ErrorsTrue
<1> QED BY <1>2, <1>3

\* A step that neither queues nor calls: a job that was waiting goes on waiting.
LEMMA QuietStep ==
  ASSUME IInv, TypeOK', main' = main, calls' = calls,
         \A j \in Jobs : stage[j] # "idle" => Steady(j),
         \A j \in Jobs : stage'[j] = stage[j]
                          \/ (stage[j] \in {"idle", "scrypt"} /\ task'[j] # NoTask
                                /\ stage'[j] \in {"scrypt", "phrase"}),
         Deriving', Unmixed'
  PROVE  IInv'
<1>1. \A n \in DOMAIN main : main[n] \in Blocks /\ main[n].job \in Jobs /\ main[n].answer \in Answers
  BY BlockTypes
<1>2. OneBlock'
  BY <1>1 DEF IInv, OneBlock
<1>3. Waiting'
  BY DEF IInv, Waiting, Steady
<1>4. BlocksRight'
  <2>1. \A n \in DOMAIN main : Steady(main[n].job)
    BY <1>1 DEF IInv, OneBlock
  <2> QED BY <1>1, <2>1, SteadyKeeps DEF IInv, BlocksRight
<1> QED BY <1>2, <1>3, <1>4, CallsKept DEF IInv

\* A step that queues the one answer of a job that was waiting.
LEMMA AnswerStep ==
  ASSUME IInv, TypeOK', calls' = calls, stop' = stop, mixed' = mixed,
         NEW j \in Jobs, stage[j] \in {"idle", "scrypt", "phrase"},
         \A i \in Jobs : stage[i] # "idle" => task'[i] = task[i],
         \A i \in Jobs \ {j} : stage'[i] = stage[i] /\ task'[i] = task[i],
         stage'[j] \in {"refused", "answering"}, task'[j] # NoTask,
         NEW b \in Blocks, b.job = j, main' = Append(main, b),
         AccountRight(j, b.answer)', ErrorTrue(j, b.answer)',
         b.answer.what = "account" => b.recheck
  PROVE  IInv'
<1>1. \A n \in DOMAIN main : main[n] \in Blocks /\ main[n].job \in Jobs /\ main[n].answer \in Answers
  BY BlockTypes
<1>2. \A n \in DOMAIN main : main[n].job # j
  BY DEF IInv, OneBlock
<1>3. /\ DOMAIN main = 1 .. Len(main) /\ Len(main) \in Nat
      /\ DOMAIN main' = 1 .. (Len(main) + 1)
      /\ \A n \in 1 .. Len(main) : main'[n] = main[n]
      /\ main'[Len(main) + 1] = b
  BY AppendAt DEF IInv, TypeOK
<1>4. \A i \in Jobs : stage[i] # "idle" => Steady(i)
  BY DEF Steady
<1>5. OneBlock'
  <2>1. ASSUME NEW m \in DOMAIN main', NEW n \in DOMAIN main', main'[m].job = main'[n].job
        PROVE  m = n
    BY <2>1, <1>2, <1>3 DEF IInv, OneBlock
  <2>2. ASSUME NEW n \in DOMAIN main'
        PROVE  stage'[main'[n].job] \in {"refused", "answering"} /\ calls'[main'[n].job] = <<>>
    <3>1. CASE n \in 1 .. Len(main)
      BY <3>1, <1>1, <1>2, <1>3 DEF IInv, OneBlock
    <3>2. CASE n = Len(main) + 1
      BY <3>2, <1>3 DEF IInv, Waiting
    <3> QED BY <3>1, <3>2, <1>3
  <2> QED BY <2>1, <2>2 DEF OneBlock
<1>6. Waiting'
  BY DEF IInv, Waiting
<1>7. Deriving' /\ Unmixed'
  BY DEF IInv, Deriving, Unmixed
<1>8. BlocksRight'
  <2> SUFFICES ASSUME NEW n \in DOMAIN main'
               PROVE  /\ AccountRight(main[n].job, main[n].answer)'
                      /\ ErrorTrue(main[n].job, main[n].answer)'
                      /\ main'[n].answer.what = "account" => main'[n].recheck
    BY DEF BlocksRight
  <2>1. CASE n \in 1 .. Len(main)
    <3>1. Steady(main[n].job) /\ main'[n] = main[n] /\ main[n].job \in Jobs /\ main[n].answer \in Answers
      BY <2>1, <1>1, <1>3, <1>4 DEF IInv, OneBlock
    <3>2. AccountRight(main[n].job, main[n].answer) /\ ErrorTrue(main[n].job, main[n].answer)
          /\ (main[n].answer.what = "account" => main[n].recheck)
      BY <2>1, <1>3 DEF IInv, BlocksRight
    <3> QED BY <3>1, <3>2 DEF Steady, AccountRight, ErrorTrue
  <2>2. CASE n = Len(main) + 1
    BY <2>2, <1>3 DEF AccountRight, ErrorTrue
  <2> QED BY <2>1, <2>2, <1>3
<1> QED BY <1>4, <1>5, <1>6, <1>7, <1>8, CallsKept DEF IInv

LEMMA LastOfRange ==
  ASSUME NEW L \in Nat \ {0}
  PROVE  \A n \in 1 .. L : n \in 1 .. (L - 1) \/ n = L
  OBVIOUS

LEMMA LenMain ==
  ASSUME IInv, main # <<>>
  PROVE  Len(main) \in Nat \ {0}
<1>1. main \in Seq(Blocks)
  BY DEF IInv, TypeOK
<1> QED BY <1>1, TailAt

LEMMA ToldType ==
  ASSUME NEW j \in Jobs, NEW what \in Whats \ {"account", "json"}
  PROVE  [job |-> j, recheck |-> FALSE, answer |-> Told(what)] \in Blocks
  BY DEF Blocks, Answers, Told, Phrases

LEMMA FileType ==
  ASSUME NEW j \in Jobs, TypeOK, task[j] # NoTask
  PROVE  /\ task[j] \in [kind : {"decrypt", "encrypt"}, file : Files, password : Passwords]
         /\ task[j].file \in Files
  BY DEF TypeOK, Tasks

LEMMA StartDecryptStep ==
  ASSUME IInv, NEW j \in Jobs, NEW file \in Files, NEW password \in Passwords,
         StartDecrypt(j, file, password)
  PROVE  IInv'
<1> DEFINE t == [kind |-> "decrypt", file |-> file, password |-> password]
<1>1. t \in Tasks /\ t # NoTask
  BY DEF Tasks, NoTask
<1>2. /\ task' = [task EXCEPT ![j] = t] /\ stage[j] = "idle"
      /\ UNCHANGED <<stop, mixed, calls>>
  BY DEF StartDecrypt
<1>3. CASE Accepted(file)
  <2>1. stage' = [stage EXCEPT ![j] = "scrypt"] /\ main' = main
    BY <1>3 DEF StartDecrypt
  <2>2. TypeOK'
    BY <1>1, <1>2, <2>1 DEF IInv, TypeOK
  <2>3. Deriving' /\ Unmixed'
    BY <1>1, <1>2, <2>1 DEF IInv, TypeOK, Deriving, Unmixed
  <2>4. \A i \in Jobs : stage[i] # "idle" => Steady(i)
    BY <1>2 DEF IInv, TypeOK, Steady
  <2> QED BY <1>1, <1>2, <2>1, <2>2, <2>3, <2>4, QuietStep DEF IInv, TypeOK
<1>4. CASE ~Accepted(file)
  <2> DEFINE b == [job |-> j, recheck |-> FALSE, answer |-> Told("JSONInvalid")]
  <2>1. stage' = [stage EXCEPT ![j] = "refused"] /\ main' = Append(main, b)
    BY <1>4 DEF StartDecrypt, Send
  <2>2. b \in Blocks
    BY ToldType DEF Whats, Errors
  <2>3. TypeOK'
    BY <1>1, <1>2, <2>1, <2>2, AppendAt DEF IInv, TypeOK
  <2>4. AccountRight(j, b.answer)' /\ ErrorTrue(j, b.answer)'
    BY <1>2, <1>4 DEF IInv, TypeOK, AccountRight, ErrorTrue, Told, Accepted
  <2> HIDE DEF b, t
  <2>5. b.job = j /\ b.answer.what # "account"
    BY DEF b, Told
  <2> QED BY <1>1, <1>2, <2>1, <2>2, <2>3, <2>4, <2>5, AnswerStep DEF IInv, TypeOK
<1> QED BY <1>3, <1>4

LEMMA StartEncryptStep ==
  ASSUME IInv, NEW j \in Jobs, NEW key \in Keys, NEW phrase \in Phrases,
         NEW password \in Passwords, StartEncrypt(j, key, phrase, password)
  PROVE  IInv'
<1> DEFINE t == [kind |-> "encrypt", file |-> FileOf(key, phrase, password), password |-> password]
<1>1. t \in Tasks /\ t # NoTask
  BY DEF Tasks, NoTask, FileOf, Files
<1>2. /\ task' = [task EXCEPT ![j] = t] /\ stage[j] = "idle"
      /\ UNCHANGED <<stop, mixed, calls>>
  BY DEF StartEncrypt
<1>3. CASE stage' = [stage EXCEPT ![j] = "scrypt"] /\ main' = main
  <2>1. TypeOK'
    BY <1>1, <1>2, <1>3 DEF IInv, TypeOK
  <2>2. Deriving' /\ Unmixed'
    BY <1>1, <1>2, <1>3 DEF IInv, TypeOK, Deriving, Unmixed
  <2>3. \A i \in Jobs : stage[i] # "idle" => Steady(i)
    BY <1>2 DEF IInv, TypeOK, Steady
  <2> QED BY <1>1, <1>2, <1>3, <2>1, <2>2, <2>3, QuietStep DEF IInv, TypeOK
<1>4. CASE stage' = [stage EXCEPT ![j] = "refused"] /\ Send(j, Told("nil"))
  <2> DEFINE b == [job |-> j, recheck |-> FALSE, answer |-> Told("nil")]
  <2>1. main' = Append(main, b)
    BY <1>4 DEF Send
  <2>2. b \in Blocks
    BY ToldType DEF Whats, Errors
  <2>3. TypeOK'
    BY <1>1, <1>2, <1>4, <2>1, <2>2, AppendAt DEF IInv, TypeOK
  <2>4. AccountRight(j, b.answer)' /\ ErrorTrue(j, b.answer)'
    BY DEF AccountRight, ErrorTrue, Told
  <2> HIDE DEF b, t
  <2>5. b.job = j /\ b.answer.what # "account"
    BY DEF b, Told
  <2> QED BY <1>1, <1>2, <1>4, <2>1, <2>2, <2>3, <2>4, <2>5, AnswerStep DEF IInv, TypeOK
<1> QED BY <1>3, <1>4 DEF StartEncrypt

\* Every answer of the background queue, once it is known to be right.
LEMMA BackgroundAnswer ==
  ASSUME IInv, NEW j \in Jobs, stage[j] \in {"scrypt", "phrase"},
         stage' = [stage EXCEPT ![j] = "answering"], UNCHANGED <<task, stop, mixed, calls>>,
         NEW b \in Blocks, b.job = j, main' = Append(main, b),
         AccountRight(j, b.answer), ErrorTrue(j, b.answer),
         b.answer.what = "account" => b.recheck
  PROVE  IInv'
<1>1. TypeOK'
  BY AppendAt DEF IInv, TypeOK
<1>2. task'[j] # NoTask
  BY DEF IInv, Waiting
<1>3. AccountRight(j, b.answer)' /\ ErrorTrue(j, b.answer)'
  BY DEF AccountRight, ErrorTrue
<1> QED BY <1>1, <1>2, <1>3, AnswerStep DEF IInv, TypeOK

LEMMA BackgroundTold ==
  ASSUME IInv, NEW j \in Jobs, stage[j] \in {"scrypt", "phrase"},
         stage' = [stage EXCEPT ![j] = "answering"], UNCHANGED <<task, stop, mixed, calls>>,
         NEW what \in Whats \ {"account", "json"}, Send(j, Told(what)),
         ErrorTrue(j, Told(what))
  PROVE  IInv'
<1> DEFINE b == [job |-> j, recheck |-> FALSE, answer |-> Told(what)]
<1>1. main' = Append(main, b) /\ b \in Blocks
  BY ToldType DEF Send
<1>2. b.job = j /\ b.answer = Told(what) /\ b.answer.what # "account"
  BY DEF Told
<1>3. AccountRight(j, b.answer) /\ ErrorTrue(j, b.answer)
  BY <1>2 DEF AccountRight
<1> HIDE DEF b
<1> QED BY <1>1, <1>2, <1>3, BackgroundAnswer

LEMMA BackgroundOpened ==
  ASSUME IInv, NEW j \in Jobs, stage[j] \in {"scrypt", "phrase"},
         stage' = [stage EXCEPT ![j] = "answering"], UNCHANGED <<task, stop, mixed, calls>>,
         NEW key \in Keys, NEW phrase \in {key, NoKey}, SendUnlessStopped(j, Opened(key, phrase)),
         task[j].kind = "decrypt", task[j].file.address = key,
         task[j].password = task[j].file.password
  PROVE  IInv'
<1> DEFINE b == [job |-> j, recheck |-> TRUE, answer |-> Opened(key, phrase)]
<1>1. main' = Append(main, b) /\ b.job = j /\ b.answer = Opened(key, phrase) /\ b.recheck
  BY DEF SendUnlessStopped
<1>2. b \in Blocks
  BY DEF Blocks, Answers, Opened, Phrases, Whats
<1>3. AccountRight(j, b.answer) /\ ErrorTrue(j, b.answer)
  BY DEF AccountRight, ErrorTrue, Opened
<1> HIDE DEF b
<1> QED BY <1>1, <1>2, <1>3, BackgroundAnswer

LEMMA BackgroundStep ==
  ASSUME IInv, NEW j \in Jobs, Background(j)
  PROVE  IInv'
<1>0. stage[j] \in {"scrypt", "phrase"} => task[j].file \in Files /\ task[j].kind \in {"decrypt", "encrypt"}
  BY FileType DEF IInv, Waiting
<1>1. CASE ScryptFails(j)
  <2>1. PICK what \in {"nil", "ScryptFailed"} : Send(j, Told(what))
    BY <1>1 DEF ScryptFails
  <2>2. ErrorTrue(j, Told(what)) /\ what \in Whats \ {"account", "json"}
    BY DEF ErrorTrue, Told, Whats, Errors
  <2> QED BY <1>1, <2>1, <2>2, BackgroundTold DEF ScryptFails
<1>2. CASE ScryptStopped(j)
  <2>1. PICK what \in {"nil", "Cancelled"} : Send(j, Told(what))
    BY <1>2 DEF ScryptStopped
  <2>2. ErrorTrue(j, Told(what)) /\ what \in Whats \ {"account", "json"}
    BY <1>2 DEF ErrorTrue, Told, Whats, Errors, ScryptStopped
  <2> QED BY <1>2, <2>1, <2>2, BackgroundTold DEF ScryptStopped
<1>3. CASE EncryptDerived(j)
  <2> DEFINE b == [job |-> j, recheck |-> FALSE, answer |-> Written(task[j].file)]
  <2>1. b \in Blocks
    BY <1>0, <1>3 DEF EncryptDerived, Blocks, Answers, Written, Files, Whats, Phrases
  <2>2. main' = Append(main, b) /\ b.job = j /\ b.answer.what = "json"
    BY <1>3 DEF EncryptDerived, Send, Written
  <2>3. AccountRight(j, b.answer) /\ ErrorTrue(j, b.answer)
    BY <2>2 DEF AccountRight, ErrorTrue
  <2> HIDE DEF b
  <2> QED BY <1>3, <2>1, <2>2, <2>3, BackgroundAnswer DEF EncryptDerived
<1>4. CASE DecryptRefused(j)
  <2>1. CASE task[j].password # task[j].file.password /\ Send(j, Told("WrongPassword"))
    <3>1. ErrorTrue(j, Told("WrongPassword")) /\ "WrongPassword" \in Whats \ {"account", "json"}
      BY <2>1 DEF ErrorTrue, Told, Whats, Errors
    <3> QED BY <1>4, <2>1, <3>1, BackgroundTold DEF DecryptRefused
  <2>2. CASE task[j].file.key # task[j].file.address /\ Send(j, Told("AddressMismatch"))
    <3>1. ErrorTrue(j, Told("AddressMismatch")) /\ "AddressMismatch" \in Whats \ {"account", "json"}
      BY <2>2 DEF ErrorTrue, Told, Whats, Errors
    <3> QED BY <1>4, <2>2, <3>1, BackgroundTold DEF DecryptRefused
  <2> QED BY <1>4, <2>1, <2>2 DEF DecryptRefused
<1>5. CASE DecryptDerived(j)
  <2>1. task[j].file.key \in Keys /\ SendUnlessStopped(j, Opened(task[j].file.key, NoKey))
    BY <1>0, <1>5 DEF DecryptDerived, Files
  <2> QED BY <1>5, <2>1, BackgroundOpened DEF DecryptDerived
<1>6. CASE EnterPhrase(j)
  <2> DEFINE inside == {i \in Jobs : stage[i] = "phrase"}
             file == task[j].file
  <2>1. /\ stage[j] = "scrypt" /\ stage' = [stage EXCEPT ![j] = "phrase"]
        /\ UNCHANGED <<task, stop, main, calls>>
        /\ task[j].kind = "decrypt" /\ task[j].password = file.password /\ file.key = file.address
        /\ file.phrase # NoKey
    BY <1>6 DEF EnterPhrase, HasPhrase
  <2>2. mixed' = [i \in Jobs |-> IF i = j THEN {task[k].file.phrase : k \in inside}
                                  ELSE IF i \in inside THEN mixed[i] \union {file.phrase}
                                  ELSE mixed[i]]
    BY <1>6 DEF EnterPhrase
  <2>3. file.phrase \in Keys
    BY <1>0, <2>1 DEF Files, Phrases
  <2>4. {task[k].file.phrase : k \in inside} \in SUBSET Keys
    BY DEF IInv, Deriving
  <2> HIDE DEF inside
  <2>5. mixed' \in [Jobs -> SUBSET Keys]
    BY <2>2, <2>3, <2>4 DEF IInv, TypeOK
  <2>6. TypeOK'
    BY <2>1, <2>5 DEF IInv, TypeOK
  <2>7. Deriving'
    BY <2>1, <2>3 DEF IInv, TypeOK, Deriving
  <2>8. Unmixed'
    BY <2>1, <2>2 DEF IInv, TypeOK, Unmixed, inside
  <2>9. \A i \in Jobs : stage[i] # "idle" => Steady(i)
    <3> TAKE i \in Jobs
    <3>1. mixed[j] = {}
      BY <2>1 DEF IInv, Unmixed
    <3>2. i # j => mixed[i] \subseteq mixed'[i]
      BY <2>2
    <3> QED BY <2>1, <3>1, <3>2 DEF Steady
  <2>10. task'[j] # NoTask
    BY <2>1 DEF IInv, Waiting
  <2> QED BY <2>1, <2>6, <2>7, <2>8, <2>9, <2>10, QuietStep DEF IInv, TypeOK
<1>7. CASE LeavePhrase(j)
  <2>1. PICK derived \in Derivable(j) :
          IF derived = task[j].file.key
            THEN SendUnlessStopped(j, Opened(derived, derived))
            ELSE Send(j, Told("MnemonicMismatch"))
    BY <1>7 DEF LeavePhrase
  <2>2. task[j].kind = "decrypt" /\ task[j].password = task[j].file.password
        /\ task[j].file.key = task[j].file.address /\ task[j].file.key \in Keys
    BY <1>0, <1>7 DEF LeavePhrase, IInv, Deriving, Files
  <2>3. CASE derived = task[j].file.key
    BY <1>7, <2>1, <2>2, <2>3, BackgroundOpened DEF LeavePhrase
  <2>4. CASE derived # task[j].file.key
    <3>1. task[j].file.phrase # task[j].file.key \/ mixed[j] # {}
      BY <2>4 DEF Derivable
    <3>2. ErrorTrue(j, Told("MnemonicMismatch")) /\ "MnemonicMismatch" \in Whats \ {"account", "json"}
      BY <3>1 DEF ErrorTrue, Told, Whats, Errors
    <3> QED BY <1>7, <2>1, <2>4, <3>2, BackgroundTold DEF LeavePhrase
  <2> QED BY <2>3, <2>4
<1> QED BY <1>1, <1>2, <1>3, <1>4, <1>5, <1>6, <1>7 DEF Background

LEMMA CancelStep ==
  ASSUME IInv, NEW j \in Jobs, Cancel(j)
  PROVE  IInv'
<1>1. stop' = [stop EXCEPT ![j] = TRUE] /\ UNCHANGED <<task, stage, mixed, main, calls>>
  BY DEF Cancel
<1>2. TypeOK' /\ Deriving' /\ Unmixed'
  BY <1>1 DEF IInv, TypeOK, Deriving, Unmixed
<1>3. \A i \in Jobs : Steady(i)
  BY <1>1 DEF IInv, TypeOK, Steady
<1> QED BY <1>1, <1>2, <1>3, QuietStep

\* The main queue either puts a cancelled account's error behind the others
\* or calls back; in both cases the job has had no call before.
LEMMA RunMainStep ==
  ASSUME IInv, RunMain
  PROVE  IInv'
<1> DEFINE b == Head(main)
           j == b.job
           e == [job |-> j, recheck |-> FALSE, answer |-> Told("Cancelled")]
           c == [answer |-> b.answer, stopped |-> stop[j]]
<1>1. UNCHANGED <<task, stage, stop, mixed>> /\ main \in Seq(Blocks) /\ main # <<>>
  BY DEF RunMain, IInv, TypeOK
<1>2. /\ Tail(main) \in Seq(Blocks) /\ DOMAIN main = 1 .. Len(main) /\ Len(main) \in Nat \ {0}
      /\ Len(Tail(main)) = Len(main) - 1 /\ DOMAIN Tail(main) = 1 .. (Len(main) - 1)
      /\ \A n \in 1 .. (Len(main) - 1) : Tail(main)[n] = main[n + 1]
      /\ b = main[1] /\ b \in Blocks
  BY <1>1, TailAt
<1>3. j \in Jobs /\ b.answer \in Answers /\ calls[j] = <<>> /\ stage[j] \in {"refused", "answering"}
  BY <1>2 DEF Blocks, IInv, OneBlock
<1>4. \A n \in 1 .. (Len(main) - 1) : Tail(main)[n].job # j
  BY <1>2 DEF IInv, OneBlock
<1>5. e \in Blocks /\ e.job = j /\ e.answer = Told("Cancelled") /\ c \in [answer : Answers, stopped : BOOLEAN]
  BY <1>3, ToldType DEF Whats, Errors, IInv, TypeOK
<1>6. Deriving' /\ Unmixed'
  BY <1>1 DEF IInv, Deriving, Unmixed
<1>7. AccountRight(j, b.answer) /\ ErrorTrue(j, b.answer)
      /\ (b.answer.what = "account" => b.recheck)
  BY <1>2 DEF IInv, BlocksRight
<1>8. \A i \in Jobs : Steady(i)
  BY <1>1 DEF Steady
<1>9. /\ b.recheck /\ stop[j] => main' = Append(Tail(main), e) /\ calls' = calls
      /\ ~(b.recheck /\ stop[j]) => main' = Tail(main) /\ calls' = [calls EXCEPT ![j] = Append(@, c)]
      /\ c.answer = b.answer /\ c.stopped = stop[j]
  BY DEF RunMain
<1> HIDE DEF b, j, e, c
\* What is said of the blocks that stay.
<1>10. \A n \in 1 .. (Len(main) - 1) :
          /\ Tail(main)[n].job \in Jobs \ {j} /\ Tail(main)[n].answer \in Answers
          /\ stage'[Tail(main)[n].job] \in {"refused", "answering"}
          /\ calls[Tail(main)[n].job] = <<>>
          /\ AccountRight(Tail(main)[n].job, Tail(main)[n].answer)
          /\ ErrorTrue(Tail(main)[n].job, Tail(main)[n].answer)
          /\ Tail(main)[n].answer.what = "account" => Tail(main)[n].recheck
          /\ \A m \in 1 .. (Len(main) - 1) : Tail(main)[m].job = Tail(main)[n].job => m = n
  <2> TAKE n \in 1 .. (Len(main) - 1)
  <2>1. n + 1 \in DOMAIN main /\ Tail(main)[n] = main[n + 1]
    BY <1>2
  <2>2. main[n + 1].job \in Jobs /\ main[n + 1].answer \in Answers
    BY <2>1, BlockTypes
  <2>3. \A m \in 1 .. (Len(main) - 1) : Tail(main)[m].job = Tail(main)[n].job => m = n
    BY <1>2 DEF IInv, OneBlock
  <2> QED BY <1>1, <1>4, <2>1, <2>2, <2>3 DEF IInv, OneBlock, BlocksRight
<1>11. CASE b.recheck /\ stop[j]
  <2>1. /\ main' \in Seq(Blocks) /\ DOMAIN main' = 1 .. Len(main)
        /\ \A n \in 1 .. (Len(main) - 1) : main'[n] = Tail(main)[n]
        /\ main'[Len(main)] = e
        /\ calls' = calls
    <3>1. main' = Append(Tail(main), e) /\ calls' = calls
      BY <1>9, <1>11
    <3>2. main \in Seq(Blocks) /\ main # <<>> /\ e \in Blocks
      BY <1>1, <1>5
    <3> QED BY ONLY <3>1, <3>2, AppendTail
  <2> DEFINE L == Len(main)
  <2>2. \A n \in 1 .. L : n \in 1 .. (L - 1) \/ n = L
    BY <1>1, LenMain, LastOfRange
  <2>3. \A n \in 1 .. (L - 1) :
          /\ main'[n].job \in Jobs \ {j}
          /\ stage'[main'[n].job] \in {"refused", "answering"} /\ calls'[main'[n].job] = <<>>
          /\ AccountRight(main'[n].job, main'[n].answer)
          /\ ErrorTrue(main'[n].job, main'[n].answer)
          /\ main'[n].answer.what = "account" => main'[n].recheck
          /\ \A m \in 1 .. (L - 1) : main'[m].job = main'[n].job => m = n
    BY <1>10, <2>1
  <2>4. main'[L] = e /\ DOMAIN main' = 1 .. L
    BY <2>1
  <2> HIDE DEF L
  <2>5. TypeOK'
    BY <1>1, <2>1 DEF IInv, TypeOK
  <2>6. OneBlock'
    <3>1. ASSUME NEW m \in 1 .. L, NEW n \in 1 .. L, main'[m].job = main'[n].job
          PROVE  m = n
      BY <3>1, <1>5, <2>2, <2>3, <2>4
    <3>2. ASSUME NEW n \in 1 .. L
          PROVE  stage'[main'[n].job] \in {"refused", "answering"} /\ calls'[main'[n].job] = <<>>
      <4>1. CASE n \in 1 .. (L - 1)
        BY <4>1, <2>3
      <4>2. CASE n = L
        BY <4>2, <1>1, <1>3, <1>5, <2>1, <2>4
      <4> QED BY <4>1, <4>2, <2>2
    <3> QED BY <3>1, <3>2, <2>4 DEF OneBlock
  <2>7. Waiting'
    BY <1>1, <2>1 DEF IInv, Waiting
  <2>8. BlocksRight'
    <3> SUFFICES ASSUME NEW n \in 1 .. L
                 PROVE  /\ AccountRight(main[n].job, main[n].answer)'
                        /\ ErrorTrue(main[n].job, main[n].answer)'
                        /\ main'[n].answer.what = "account" => main'[n].recheck
      BY <2>4 DEF BlocksRight
    <3>1. CASE n \in 1 .. (L - 1)
      BY <3>1, <1>1, <2>3 DEF AccountRight, ErrorTrue
    <3>2. CASE n = L
      BY <3>2, <1>1, <1>5, <1>11, <2>4 DEF AccountRight, ErrorTrue, Told
    <3> QED BY <3>1, <3>2, <2>2
  <2> QED BY <1>6, <1>8, <2>1, <2>5, <2>6, <2>7, <2>8, CallsKept DEF IInv
<1>12. CASE ~(b.recheck /\ stop[j])
  <2>1. main' = Tail(main) /\ calls' = [calls EXCEPT ![j] = <<c>>]
    BY <1>3, <1>5, <1>9, <1>12
  <2>2. calls'[j] = <<c>> /\ \A i \in Jobs \ {j} : calls'[i] = calls[i]
    BY <1>3, <2>1 DEF IInv, TypeOK
  <2>3. TypeOK'
    <3>1. <<c>> \in Seq([answer : Answers, stopped : BOOLEAN])
      BY <1>5
    <3> QED BY <1>1, <1>2, <2>1, <3>1 DEF IInv, TypeOK
  <2>4. OneBlock'
    BY <1>2, <1>10, <2>1, <2>2 DEF OneBlock
  <2>5. Waiting'
    BY <1>1, <1>3, <2>2 DEF IInv, Waiting
  <2>6. BlocksRight'
    <3> SUFFICES ASSUME NEW n \in 1 .. (Len(main) - 1)
                 PROVE  /\ AccountRight(main[n].job, main[n].answer)'
                        /\ ErrorTrue(main[n].job, main[n].answer)'
                        /\ main'[n].answer.what = "account" => main'[n].recheck
      BY <1>2, <2>1 DEF BlocksRight
    <3>1. /\ AccountRight(main'[n].job, main'[n].answer)
          /\ ErrorTrue(main'[n].job, main'[n].answer)
          /\ main'[n].answer.what = "account" => main'[n].recheck
      BY <1>10, <2>1
    <3> QED BY <1>1, <3>1 DEF AccountRight, ErrorTrue
  <2>7. ASSUME NEW i \in Jobs
        PROVE  /\ Len(calls'[i]) <= 1
               /\ \A n \in DOMAIN calls'[i] :
                     /\ calls'[i][n].answer.what = "account" => ~calls'[i][n].stopped
                     /\ AccountRight(i, calls[i][n].answer)'
                     /\ ErrorTrue(i, calls[i][n].answer)'
    <3>1. CASE i = j
      <4>1. Len(<<c>>) = 1 /\ DOMAIN <<c>> = {1} /\ <<c>>[1] = c
        OBVIOUS
      <4>2. c.answer.what = "account" => ~c.stopped
        BY <1>7, <1>9, <1>12
      <4>3. AccountRight(j, c.answer) /\ ErrorTrue(j, c.answer)
        BY <1>7, <1>9
      <4> QED BY <3>1, <4>1, <4>2, <4>3, <1>1, <2>2 DEF AccountRight, ErrorTrue
    <3>2. CASE i # j
      BY <3>2, <1>1, <2>2 DEF IInv, CalledOnce, CancelHonoured, RightAccount, ErrorsTrue,
                              AccountRight, ErrorTrue
    <3> QED BY <3>1, <3>2
  <2>8. CalledOnce' /\ CancelHonoured' /\ RightAccount' /\ ErrorsTrue'
    BY <2>7 DEF CalledOnce, CancelHonoured, RightAccount, ErrorsTrue
  <2> QED BY <1>6, <2>3, <2>4, <2>5, <2>6, <2>8 DEF IInv
<1> QED BY <1>11, <1>12

-----------------------------------------------------------------------------

LEMMA Invariant == Spec => []IInv
<1>1. Init => IInv
  BY DEF Init, IInv, TypeOK, OneBlock, Waiting, Deriving, Unmixed, BlocksRight, Tasks, NoTask,
         CalledOnce, CancelHonoured, RightAccount, ErrorsTrue
<1>2. IInv /\ [Next]_vars => IInv'
  <2> SUFFICES ASSUME IInv, [Next]_vars PROVE IInv'
    OBVIOUS
  <2>1. CASE RunMain
    BY <2>1, RunMainStep
  <2>2. ASSUME NEW j \in Jobs, Start(j) PROVE IInv'
    BY <2>2, StartDecryptStep, StartEncryptStep DEF Start
  <2>3. ASSUME NEW j \in Jobs, Cancel(j) PROVE IInv'
    BY <2>3, CancelStep
  <2>4. ASSUME NEW j \in Jobs, Background(j) PROVE IInv'
    BY <2>4, BackgroundStep
  <2>5. CASE UNCHANGED vars
    <3>1. TypeOK' /\ Deriving' /\ Unmixed'
      BY <2>5 DEF vars, IInv, TypeOK, Deriving, Unmixed
    <3>2. \A j \in Jobs : Steady(j)
      BY <2>5 DEF vars, Steady
    <3> QED BY <2>5, <3>1, <3>2, QuietStep DEF vars
  <2> QED BY <2>1, <2>2, <2>3, <2>4, <2>5 DEF Next
<1> QED BY <1>1, <1>2, PTL DEF Spec

\* Every reachable state has its type.
THEOREM JobTypes == Spec => []TypeOK
  BY Invariant, PTL DEF IInv

\* A callback is called once at most, whichever thread settles the job.
THEOREM CallbackOnce == Spec => []CalledOnce
  BY Invariant, PTL DEF IInv

\* A cancelled decryption never hands out its account.
THEOREM NoAccountAfterCancel == Spec => []CancelHonoured
  BY Invariant, PTL DEF IInv

\* Jobs that share bip39.c's buffers never hand out another keystore's account.
THEOREM AccountOfItsKeystore == Spec => []RightAccount
  BY Invariant, PTL DEF IInv

\* Every error names its cause.
THEOREM ErrorsHaveCause == Spec => []ErrorsTrue
  BY Invariant, PTL DEF IInv
=============================================================================
