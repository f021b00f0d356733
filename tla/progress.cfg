SPECIFICATION LiveSpec
CONSTANTS
    e1 = e1
    e2 = e2
    e3 = e3
    None = None
    NoActor = NoActor
PROPERTIES
    WhatBeginsEnds
    CalmIsShown
CHECK_DEADLOCK FALSE
