SPECIFICATION Spec
CONSTANTS
    a = a
    b = b
    c = c
    d = d
    old = old
    k = k
    l = l
    Configs = {a, b, c, d, old}
    Owner <- MCOwner
    Key <- MCKey
    Lists = {l}
    Home = home
    Manual = manual
    All = all
    Automatic = automatic
    Large = large
    Text = text
    Paths = {p1, p2}
    Broken = broken
    None = none
    Old <- MCOld
    Legacy <- MCLegacy
    MaxActs = 4
INVARIANTS WhatIsNamedExists RestartChangesNothing FiltersStayHome
PROPERTIES NothingGoesUnasked
CHECK_DEADLOCK FALSE
