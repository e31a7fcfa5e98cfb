\* Two tabs, two calls, each repeated once; two expiries, one lost message.
SPECIFICATION FairSpec
CONSTANTS
    Tabs = {t1, t2}
    Calls = {c1, c2}
    MaxClicks = 2
    MaxExpired = 2
    MaxLost = 1
\* The calls, expiries and lost messages are bounded and run out.
CHECK_DEADLOCK FALSE
INVARIANTS OneLive PasswordEnds LoggedOut
PROPERTIES CallsEnd
