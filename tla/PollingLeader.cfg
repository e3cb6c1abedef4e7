SPECIFICATION MCSpec
CONSTANTS
    Tabs = {t1, t2}
    NoTab = NoTab
    MaxSetbacks = 1
INVARIANT RivalsHear
CHECK_DEADLOCK FALSE
PROPERTIES
    PageCatchesUp
    OneTabPolls
