------------------------------ MODULE PathLocks ------------------------------
(***************************************************************************)
(* The lock table of the file storage. An operation locks the paths it is  *)
(* given, one after the other: it looks the entry of a path up, or adds    *)
(* one, and counts itself under the mutex of the table, then waits for     *)
(* the entry's own mutex outside of it. The entry is dropped when nobody   *)
(* counts on it any more, and the next operation makes a new one: two      *)
(* operations on one path must never hold two different entries.           *)
(*                                                                         *)
(* fileStorage.Create is left out, for nothing in the program calls it. It *)
(* unlocks as it returns and hands the same unlock to the Close of the     *)
(* file, so that with a caller nothing stated here would hold: the path    *)
(* would be free while its file is open, and its entry released twice.     *)
(***************************************************************************)
EXTENDS Naturals, Sequences, FiniteSets, SequencesExt

CONSTANTS
  Ops,      \* operations, each started again and again
  Paths,    \* paths, as numbers: their order is that of the strings
  Entries,  \* lock entries, free again when nothing refers to them
  None

ASSUME LocksAssumption ==
  /\ Paths \subseteq Nat
  /\ IsFiniteSet(Ops)
  /\ None \notin Ops /\ None \notin Entries

VARIABLES
  locks,  \* lockTable.locks
  refs,   \* entry.refs
  owner,  \* entry.mu
  pc,     \* where an operation stands
  want,   \* the paths it locks, in its order
  ents    \* the entries it has counted itself on, in the same order

vars == <<locks, refs, owner, pc, want, ents>>

TypeOK ==
  /\ locks \in [Paths -> Entries \cup {None}]
  /\ refs \in [Entries -> Nat]
  /\ owner \in [Entries -> Ops \cup {None}]
  /\ pc \in [Ops -> {"idle", "acquire", "wait", "busy", "unlock", "release"}]
  /\ want \in [Ops -> Seq(Paths)]
  /\ ents \in [Ops -> Seq(Entries)]
  /\ \A p \in Ops : Len(want[p]) <= 2 /\ Len(ents[p]) <= Len(want[p])

Init ==
  /\ locks = [path \in Paths |-> None]
  /\ refs = [e \in Entries |-> 0]
  /\ owner = [e \in Entries |-> None]
  /\ pc = [p \in Ops |-> "idle"]
  /\ want = [p \in Ops |-> <<>>]
  /\ ents = [p \in Ops |-> <<>>]

At(p, from, to) == pc[p] = from /\ pc' = [pc EXCEPT ![p] = to]

-----------------------------------------------------------------------------
(***************************************************************************)
(* The operations of the file storage                                      *)
(***************************************************************************)

\* An operation begins, and will lock these paths.
Begin(p, paths) ==
  /\ At(p, "idle", "acquire")
  /\ want' = [want EXCEPT ![p] = paths]
  /\ UNCHANGED <<locks, refs, owner, ents>>

\* Chmod, Lstat, MkdirAll, ReadFile, WriteFile, Remove, Stat and the like, which
\* unlock as they return, Open and OpenFile, whose file unlocks as it is closed
OneLock(p) == \E path \in Paths : Begin(p, <<path>>)

\* Rename, Link and Symlink lock the old path and then the new one, which a
\* caller may have given the same name.
TwoLocks(p) == \E old, new \in Paths : Begin(p, <<old, new>>)

\* An operation that returns its error without unlocking.
FinishForgets(p) ==
  /\ pc[p] = "busy"
  /\ \/ pc' = [pc EXCEPT ![p] = "unlock"] /\ UNCHANGED <<want, ents>>
     \/ /\ pc' = [pc EXCEPT ![p] = "idle"]
        /\ want' = [want EXCEPT ![p] = <<>>]
        /\ ents' = [ents EXCEPT ![p] = <<>>]
  /\ UNCHANGED <<locks, refs, owner>>

\* The operation is done, or has failed; a file that was opened is closed.
Finish(p) ==
  /\ At(p, "busy", "unlock")
  /\ UNCHANGED <<locks, refs, owner, want, ents>>

-----------------------------------------------------------------------------
(***************************************************************************)
(* lockTable.Lock and the function it returns                              *)
(***************************************************************************)

\* The path that is locked next.
NextPath(p) == want[p][Len(ents[p]) + 1]

\* acquire: the entry of the path, or a new one.
Acquire(p) ==
  /\ At(p, "acquire", "wait")
  /\ \E e \in Entries :
       /\ IF locks[NextPath(p)] # None THEN e = locks[NextPath(p)] ELSE refs[e] = 0
       /\ locks' = [locks EXCEPT ![NextPath(p)] = e]
       /\ owner' = [owner EXCEPT ![e] = IF locks[NextPath(p)] = None THEN None ELSE @]
       /\ refs' = [refs EXCEPT ![e] = @ + 1]
       /\ ents' = [ents EXCEPT ![p] = Append(@, e)]
  /\ UNCHANGED want

\* e.mu.Lock()
LockEntry(p) ==
  /\ At(p, "wait", IF Len(ents[p]) < Len(want[p]) THEN "acquire" ELSE "busy")
  /\ owner[Last(ents[p])] = None
  /\ owner' = [owner EXCEPT ![Last(ents[p])] = p]
  /\ UNCHANGED <<locks, refs, want, ents>>

\* e.mu.Unlock(): the deferred calls run in reverse order.
UnlockEntry(p) ==
  /\ At(p, "unlock", "release")
  /\ owner' = [owner EXCEPT ![Last(ents[p])] = None]
  /\ UNCHANGED <<locks, refs, want, ents>>

\* A release that drops the entry although others count on it.
ReleaseAlways(p) ==
  /\ At(p, "release", IF Len(ents[p]) = 1 THEN "idle" ELSE "unlock")
  /\ refs' = [refs EXCEPT ![Last(ents[p])] = @ - 1]
  /\ locks' = [locks EXCEPT ![want[p][Len(ents[p])]] = None]
  /\ ents' = [ents EXCEPT ![p] = Front(@)]
  /\ want' = [want EXCEPT ![p] = IF Len(ents[p]) = 1 THEN <<>> ELSE @]
  /\ UNCHANGED owner

\* A release that counts the operation out only when it is the last.
ReleaseLast(p) ==
  LET e == Last(ents[p]) IN
  /\ At(p, "release", IF Len(ents[p]) = 1 THEN "idle" ELSE "unlock")
  /\ refs' = [refs EXCEPT ![e] = IF @ = 1 THEN 0 ELSE @]
  /\ locks' = [locks EXCEPT ![want[p][Len(ents[p])]] = IF refs[e] = 1 THEN None ELSE @]
  /\ ents' = [ents EXCEPT ![p] = Front(@)]
  /\ want' = [want EXCEPT ![p] = IF Len(ents[p]) = 1 THEN <<>> ELSE @]
  /\ UNCHANGED owner

\* release
Release(p) ==
  LET e == Last(ents[p]) IN
  /\ At(p, "release", IF Len(ents[p]) = 1 THEN "idle" ELSE "unlock")
  /\ refs' = [refs EXCEPT ![e] = @ - 1]
  /\ locks' = [locks EXCEPT ![want[p][Len(ents[p])]] = IF refs[e] = 1 THEN None ELSE @]
  /\ ents' = [ents EXCEPT ![p] = Front(@)]
  /\ want' = [want EXCEPT ![p] = IF Len(ents[p]) = 1 THEN <<>> ELSE @]
  /\ UNCHANGED owner

Next ==
  \E p \in Ops :
    \/ OneLock(p) \/ TwoLocks(p) \/ Finish(p)
    \/ Acquire(p) \/ LockEntry(p) \/ UnlockEntry(p) \/ Release(p)

(***************************************************************************)
(* Operations on files end, files that were opened are closed (every       *)
(* caller defers it), and sync.RWMutex starves no writer.                  *)
(***************************************************************************)
Fairness ==
  \A p \in Ops :
    /\ WF_vars(Finish(p)) /\ WF_vars(Acquire(p))
    /\ WF_vars(UnlockEntry(p)) /\ WF_vars(Release(p))
    /\ SF_vars(LockEntry(p))

Spec == Init /\ [][Next]_vars /\ Fairness

-----------------------------------------------------------------------------
(***************************************************************************)
(* Properties                                                              *)
(***************************************************************************)

\* The references to an entry: the operation and the place of the path in it.
Uses(e) == {u \in Ops \X {1, 2} : u[2] \in DOMAIN ents[u[1]] /\ ents[u[1]][u[2]] = e}

\* All the operations on a path refer to the entry in the table, its count is
\* theirs, two paths have two entries, and an entry nobody refers to is not in the
\* table: acquire and release never leave one behind nor take one away in use.
TableIsExact ==
  /\ \A p \in Ops : \A i \in DOMAIN ents[p] : locks[want[p][i]] = ents[p][i]
  /\ \A e \in Entries : refs[e] = Cardinality(Uses(e))
  /\ \A path \in Paths : locks[path] # None => refs[locks[path]] > 0
  /\ \A a, b \in Paths : locks[a] # None /\ locks[a] = locks[b] => a = b

\* The paths an operation holds.
Held(p) == {i \in DOMAIN ents[p] :
              i < Len(ents[p]) \/ pc[p] \in {"acquire", "busy", "unlock"}}

\* While the storage works on a path, no other operation is working on it.
MutualExclusion ==
  \A p, q \in Ops : p # q =>
    \A i \in Held(p), j \in Held(q) : want[p][i] # want[q][j]

Holds(p, path) == \E i \in Held(p) : want[p][i] = path

\* The lock table implements one mutex per path, whose holder is the operation
\* that got past the lock of the path and has not unlocked it.
Mutexes == INSTANCE PathMutex WITH
  holder <- [path \in Paths |-> IF \E p \in Ops : Holds(p, path)
                                THEN CHOOSE p \in Ops : Holds(p, path) ELSE None]

ImplementsPathMutex == Mutexes!Spec

Ordered(p) == Len(want[p]) = 2 => want[p][1] < want[p][2]

\* Every operation ends, as long as the operations that lock two paths happen to
\* lock them in one order: nothing in Rename, Link and Symlink sees to that.
OpsEndIfOrdered ==
  [](\A p \in Ops : Ordered(p)) => \A p \in Ops : (pc[p] # "idle") ~> (pc[p] = "idle")
=============================================================================
