SPECIFICATION Spec
CONSTANTS
    a = a
    b = b
    x = x
    y = y
    Runners = {a}
    Paper = {a}
    Symbols = {x}
    Watches <- Shared
    Threads = {1, 2}
    HasWs = TRUE
    SyncsOnControl = TRUE
    MaxMinute = 2
    MaxCrashes = 1
PROPERTIES ClosedBarsOnly
