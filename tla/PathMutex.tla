------------------------------ MODULE PathMutex ------------------------------
(***************************************************************************)
(* What the lock table of the file storage promises: every path has one    *)
(* mutex, held by at most one operation, and only its holder gives it up.  *)
(***************************************************************************)
CONSTANTS
  Ops,    \* operations on the storage
  Paths,
  None

VARIABLE holder   \* the operation that holds a path

Init == holder = [path \in Paths |-> None]

Lock(p, path) ==
  /\ holder[path] = None
  /\ holder' = [holder EXCEPT ![path] = p]

Unlock(p, path) ==
  /\ holder[path] = p
  /\ holder' = [holder EXCEPT ![path] = None]

Next == \E p \in Ops, path \in Paths : Lock(p, path) \/ Unlock(p, path)

Spec == Init /\ [][Next]_holder
=============================================================================
