--------------------------- MODULE MCNodeMeasure ---------------------------
EXTENDS NodeMeasure

CONSTANTS l1, l2, all

MCLists == {l1, l2, all}
MCHidden == {<<l1, 2>>}
MCNoAddress == {<<l2, 2>>}
MCBodies == {{1}, {1, 2}}
Everywhere(lists, tests) == [tests |-> tests, lists |-> lists, everywhere |-> TRUE]
Only(l, tests) == [tests |-> tests, lists |-> {l}, everywhere |-> FALSE]

\* With the catalogues alone there is no row All; with a list of the user's own there is.
MCRequests ==
    {Everywhere({l1, l2}, {"reach", "speed"}), Everywhere(MCLists, {"delay"}),
     Only(l1, {"delay", "speed"}), Only(l2, {"reach", "delay"})}
=============================================================================
