SPECIFICATION Spec
CONSTANTS
    A1 = A1
    A2 = A2
    T1 = T1
    Accounts = {A1, A2}
    Tokens = {T1}
    Ether = Ether
    NoAccount = NoAccount
    NoNotice = NoNotice
    Requests = {R1, R2}
    Notices = {N1}
    MaxTxns = 1
    Growing <- MCGrowing
INVARIANTS TokenCacheRight ShownRight
PROPERTIES NeverBack SpinnerStops NoticeFinished
