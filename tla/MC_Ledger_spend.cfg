\* Two requests spend one driver's stamps, the cash of two drawers, goods and adjustments.
CONSTANTS
    r1 = r1
    r2 = r2
    d1 = d1
    d2 = d2
    o1 = o1
    o2 = o2
    p1 = p1
    Drivers = {d1}
    Operators = {o1, o2}
    Products = {p1}
    Stamps = {1, 2}
    Owner <- FirstDriver
    Worth <- OneEach
    Price <- UnitPrice
    InitialStock <- TwoLeft
    Requests = {r1, r2}
    NoRequest = none
    Operations = {"redeem", "redeemAll", "advance", "goods", "adjust", "setStatus", "setActive"}
    Amounts = {1}
    Deletable = {}
    MaxDeposited = 2
    MaxAdjusted = 1
SPECIFICATION Spec
SYMMETRY Symmetric
CONSTRAINT OneTrade
INVARIANTS RedeemedOnce OldestFirst BooksAgree NoWaitCycle
PROPERTIES ImplementsCashFloat
