--------------------------- MODULE MCTaskScheduler ---------------------------
(***************************************************************************)
(* Small instances of TaskScheduler.  The scheduler boots with at most one *)
(* task, and as names are interchangeable it is that of one fixed name;    *)
(* the edits add, change, rename and delete others.                        *)
(***************************************************************************)
EXTENDS TaskScheduler

First == CHOOSE n \in Names : TRUE

MCInit == Init /\ \A n \in Names \ {First} : file[n] = None

MCSpec == MCInit /\ [][Next]_vars /\ Fairness
=============================================================================
