--------------------------- MODULE MCSubscriptions --------------------------
EXTENDS Subscriptions

CONSTANTS n1, n2

MCNodes == {n1, n2}
MCBodies == {{n1, n2}}
=============================================================================
