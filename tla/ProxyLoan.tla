----------------------------- MODULE ProxyLoan -----------------------------
(***************************************************************************)
(* What the proxy setting of a machine promises its user, whatever calls    *)
(* fail and whenever the app dies: it is borrowed only once what was there   *)
(* is on record, and the record is given up only when the machine is back    *)
(* where the record says.  The promise is kept until a slip, something that  *)
(* went wrong and that the borrower did not notice; then nothing is          *)
(* promised until the user sets the machine up again.                        *)
(***************************************************************************)
CONSTANTS Routes, UserRoutes, Nothing

VARIABLES route, \* where the machine sends its traffic
          owed,  \* what is to be given back
          kept   \* nothing has gone wrong unnoticed

loan == <<route, owed, kept>>

Init == route \in UserRoutes /\ owed = Nothing /\ kept = TRUE

Borrow == kept /\ owed = Nothing /\ owed' = route /\ UNCHANGED <<route, kept>>
Redirect == owed # Nothing /\ route' \in Routes /\ UNCHANGED <<owed, kept>>
Settle == kept /\ owed = route /\ owed' = Nothing /\ UNCHANGED <<route, kept>>
UserChooses ==
    owed = Nothing /\ route' \in UserRoutes /\ kept' = TRUE /\ UNCHANGED owed
Slip == kept' = FALSE /\ route' \in Routes /\ owed' \in Routes \cup {Nothing}

Next == Borrow \/ Redirect \/ Settle \/ UserChooses \/ Slip

Spec == Init /\ [][Next]_loan

\* A machine that owes nothing is its user's.
UsersOwn == kept /\ owed = Nothing => route \in UserRoutes

\* What is owed was the user's when it was borrowed.
Owed == kept /\ owed # Nothing => owed \in UserRoutes
=============================================================================
