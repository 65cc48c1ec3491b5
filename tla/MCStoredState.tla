---------------------------- MODULE MCStoredState ----------------------------
EXTENDS StoredState

CONSTANTS a, b, c, d, old, k, l

MCOwner == (a :> Manual) @@ (b :> l) @@ (c :> Manual) @@ (d :> l) @@ (old :> Home)
\* a and b are the same server, c is not complete
MCKey == (a :> k) @@ (b :> k) @@ (c :> None) @@ (d :> d) @@ (old :> old)

MCOld == [Default EXCEPT !.configs = <<old, a, b>>, !.chosen = old, !.rows = {l, All},
                         !.selected = All, !.choice = All, !.resolver = Large]
MCLegacy == [configs |-> <<a, old>>, rows |-> {l}]
=============================================================================
