\* A reset of every driver that meets another reset or a redemption, under fair scheduling.
CONSTANTS
    r1 = r1
    r2 = r2
    d1 = d1
    d2 = d2
    o1 = o1
    o2 = o2
    p1 = p1
    Drivers = {d1, d2}
    Operators = {o1}
    Products = {p1}
    Stamps = {1, 2}
    Owner <- OddsAndEvens
    Worth <- OneEach
    Price <- UnitPrice
    InitialStock <- TwoLeft
    Requests = {r1, r2}
    NoRequest = none
    Operations = {"reset", "redeem"}
    Amounts = {1}
    Deletable = {d2}
    MaxDeposited = 0
    MaxAdjusted = 0
SPECIFICATION FairSpec
INVARIANTS ResetCovers
PROPERTIES RequestsEnd
