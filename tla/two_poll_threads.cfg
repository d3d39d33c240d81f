SPECIFICATION Spec
CONSTANTS
    a = a
    b = b
    x = x
    y = y
    Runners = {a, b}
    Paper = {a}
    Symbols = {x, y}
    Watches <- Apart
    Threads = {1, 2}
    HasWs = FALSE
    SyncsOnControl = TRUE
    MaxMinute = 2
    MaxCrashes = 1
INVARIANTS OnePollThread
