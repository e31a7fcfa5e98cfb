\* Two rows, two calls open at a time, two clicks.
SPECIFICATION FairSpec
CONSTANTS
    Rows = {r1, r2}
    Keys = {k1, k2}
    Calls = 2
    MaxClicks = 2
    MaxForeign = 1
    MaxLost = 1
\* A page can be left, and a page without a poll rests once the clicks are used up.
CHECK_DEADLOCK FALSE
INVARIANTS Once QuietIsFresh ChosenShown ButtonsReturn
PROPERTIES PollRecovers
