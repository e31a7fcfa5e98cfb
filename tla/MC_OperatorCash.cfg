\* Two requests that compete for two operators, under fair scheduling.
CONSTANTS
    Operators = {1, 2}
    r1 = r1
    r2 = r2
    Requests = {r1, r2}
    NoRequest = none
    Keys = {1, 2}
    KeyOf <- OwnKey
    Amounts = {0, 1, 2}
    MaxDeposited = 2
SPECIFICATION FairSpec
INVARIANTS BooksSound
PROPERTIES HandoverAsConfirmed ImplementsCashFloat RequestsEnd
