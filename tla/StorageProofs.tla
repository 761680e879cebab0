---------------------------- MODULE StorageProofs ----------------------------
(***************************************************************************)
(* Theorems about PathLocks, for any operations, paths and entries: the    *)
(* table is exact, and it implements one mutex per path. And about         *)
(* SessionStore, which uses those mutexes: no session is deleted that was  *)
(* neither expired nor harmed. Spec, Next, Init and vars are those of      *)
(* PathLocks; those of the store are StoreSpec and so on.                  *)
(***************************************************************************)
EXTENDS PathLocks, SessionStore, FiniteSetTheorems, SequenceTheorems, TLAPS

(***************************************************************************)
(* The inductive invariant                                                 *)
(***************************************************************************)

\* Where an operation is tells how many of its paths it has counted itself on.
Progress ==
  \A p \in Ops :
    /\ pc[p] = "idle" <=> want[p] = <<>>
    /\ pc[p] = "idle" => ents[p] = <<>>
    /\ pc[p] = "acquire" => Len(ents[p]) < Len(want[p])
    /\ pc[p] = "busy" => Len(ents[p]) = Len(want[p])
    /\ pc[p] \in {"wait", "busy", "unlock", "release"} => Len(ents[p]) > 0

\* Whoever got past the lock of an entry owns it: the entry is not replaced, nor
\* unlocked by another. Only while it waits can an operation have been given
\* the entry it owns a second time.
HoldersOwn ==
  \A p \in Ops :
    /\ \A i \in Held(p) : owner[ents[p][i]] = p
    /\ Len(ents[p]) = 2 /\ pc[p] # "wait" => ents[p][1] # ents[p][2]

LocksInv == TypeOK /\ Progress /\ TableIsExact /\ HoldersOwn

-----------------------------------------------------------------------------
(***************************************************************************)
(* Lemmas                                                                  *)
(***************************************************************************)

\* The sequences of an operation, one longer or one shorter.
LEMMA Longer ==
  ASSUME NEW S, NEW s \in Seq(S), NEW x \in S
  PROVE  /\ Append(s, x) \in Seq(S)
         /\ Len(Append(s, x)) = Len(s) + 1
         /\ \A i \in 1..Len(s) : Append(s, x)[i] = s[i]
         /\ Append(s, x)[Len(s) + 1] = x
OBVIOUS

LEMMA Shorter ==
  ASSUME NEW S, NEW s \in Seq(S), Len(s) > 0
  PROVE  /\ Front(s) \in Seq(S)
         /\ Len(Front(s)) = Len(s) - 1
         /\ \A i \in 1..Len(s) - 1 : Front(s)[i] = s[i]
         /\ Last(s) = s[Len(s)] /\ Last(s) \in S
<1> DEFINE m == Len(s) - 1
<1>1. /\ m \in Int /\ 1 \in Int /\ m >= 0
      /\ \A i \in 1..m : s[i] \in S
      /\ s[Len(s)] \in S
  OBVIOUS
<1>2. /\ Front(s) = SubSeq(s, 1, m)
      /\ Last(s) = s[Len(s)]
  BY DEF Front, Last
<1> HIDE DEF m
<1>3. /\ Front(s) \in Seq(S)
      /\ Len(Front(s)) = IF 1 <= m THEN m - 1 + 1 ELSE 0
      /\ \A i \in 1..m - 1 + 1 : Front(s)[i] = s[1 + i - 1]
  BY <1>1, <1>2, SubSeqProperties
<1>4. /\ Len(Front(s)) = m
      /\ \A i \in 1..m : Front(s)[i] = s[i]
  BY <1>1, <1>3
<1> QED
  BY <1>1, <1>2, <1>3, <1>4 DEF m

\* What an operation wants and what it has counted itself on are short sequences.
LEMMA Shape ==
  ASSUME TypeOK, NEW q \in Ops
  PROVE  /\ ents[q] \in Seq(Entries) /\ want[q] \in Seq(Paths)
         /\ Len(ents[q]) \in Nat /\ Len(want[q]) \in Nat
         /\ Len(ents[q]) <= Len(want[q]) /\ Len(want[q]) <= 2
         /\ DOMAIN ents[q] = 1..Len(ents[q])
         /\ \A i \in DOMAIN ents[q] :
              i \in {1, 2} /\ i \in Nat /\ ents[q][i] \in Entries /\ want[q][i] \in Paths
<1>1. /\ ents[q] \in Seq(Entries) /\ want[q] \in Seq(Paths)
      /\ Len(ents[q]) <= Len(want[q]) /\ Len(want[q]) <= 2
  BY DEF TypeOK
<1>2. /\ Len(ents[q]) \in Nat /\ Len(want[q]) \in Nat
      /\ DOMAIN ents[q] = 1..Len(ents[q])
      /\ \A i \in 1..Len(ents[q]) : ents[q][i] \in Entries
      /\ \A i \in 1..Len(want[q]) : want[q][i] \in Paths
  BY <1>1
<1>3. \A i \in 1..Len(ents[q]) : i \in {1, 2} /\ i \in Nat /\ i \in 1..Len(want[q])
  BY <1>1, <1>2
<1> QED
  BY <1>1, <1>2, <1>3

\* Sets of references are told apart by their members.
LEMMA SameReferences ==
  ASSUME NEW U \in SUBSET (Ops \X {1, 2}), NEW V \in SUBSET (Ops \X {1, 2}),
         \A q \in Ops : \A i \in {1, 2} : <<q, i>> \in U <=> <<q, i>> \in V
  PROVE  U = V
<1>1. ASSUME NEW u \in Ops \X {1, 2} PROVE u \in U <=> u \in V
  <2>1. PICK q \in Ops, i \in {1, 2} : u = <<q, i>>
    OBVIOUS
  <2> QED BY <2>1
<1> QED BY <1>1

\* The references to an entry are finitely many.
LEMMA UsesFinite == \A e \in Entries : IsFiniteSet(Uses(e))
<1>1. IsFiniteSet({1}) /\ {1, 2} = {1} \cup {2}
  BY FS_Singleton
<1>2. IsFiniteSet({1, 2})
  BY <1>1, FS_AddElement
<1>3. IsFiniteSet(Ops \X {1, 2})
  BY <1>2, FS_Product, LocksAssumption
<1> QED
  BY <1>3, FS_Subset DEF Uses

\* No entry is counted to zero while an operation refers to it.
LEMMA CountIsPositive ==
  ASSUME LocksInv, NEW e \in Entries, NEW p \in Ops, NEW i \in DOMAIN ents[p], ents[p][i] = e
  PROVE  refs[e] > 0
<1>1. i \in {1, 2} /\ i \in DOMAIN ents[p]
  BY DEF LocksInv, TypeOK
<1>2. <<p, i>> \in Uses(e)
  BY <1>1 DEF Uses
<1>3. IsFiniteSet(Uses(e))
  BY UsesFinite
<1>4. Cardinality(Uses(e)) # 0
  BY <1>2, <1>3, FS_EmptySet
<1>5. Cardinality(Uses(e)) \in Nat
  BY <1>3, FS_CardinalityType
<1> QED
  BY <1>4, <1>5 DEF LocksInv, TableIsExact

\* Who refers to an entry alone is the only one to do so.
LEMMA LastReference ==
  ASSUME LocksInv, NEW e \in Entries, refs[e] = 1,
         NEW p \in Ops, NEW i \in DOMAIN ents[p], ents[p][i] = e,
         NEW q \in Ops, NEW j \in DOMAIN ents[q], ents[q][j] = e
  PROVE  q = p /\ j = i
<1>1. <<p, i>> \in Uses(e) /\ <<q, j>> \in Uses(e)
  BY DEF Uses, LocksInv, TypeOK
<1>2. PICK x : Uses(e) = {x}
  BY UsesFinite, FS_Singleton DEF LocksInv, TableIsExact
<1> QED
  BY <1>1, <1>2

-----------------------------------------------------------------------------
(***************************************************************************)
(* The invariant is preserved: one lemma for each kind of step             *)
(***************************************************************************)

\* An operation begins, with one path or two: it refers to no entry yet.
LEMMA InvBegin ==
  ASSUME LocksInv, NEW p \in Ops, NEW paths \in Seq(Paths), Len(paths) > 0, Len(paths) <= 2,
         Begin(p, paths)
  PROVE  LocksInv'
<1>1. /\ pc[p] = "idle" /\ pc' = [pc EXCEPT ![p] = "acquire"]
      /\ want' = [want EXCEPT ![p] = paths]
      /\ UNCHANGED <<locks, refs, owner, ents>>
  BY DEF Begin, At
<1>2. /\ ents[p] = <<>> /\ Len(ents[p]) = 0
      /\ paths # <<>> /\ Len(paths) <= 2 /\ 0 <= Len(paths)
  <2>1. paths # <<>> /\ Len(paths) <= 2 /\ 0 <= Len(paths)
    OBVIOUS
  <2>2. ents[p] = <<>> /\ Len(ents[p]) = 0
    BY <1>1, EmptySeq DEF LocksInv, Progress
  <2> QED BY <2>1, <2>2
<1>3. \A q \in Ops : q # p => pc'[q] = pc[q] /\ want'[q] = want[q]
  BY <1>1 DEF LocksInv, TypeOK
<1>4. pc'[p] = "acquire" /\ want'[p] = paths
  BY <1>1 DEF LocksInv, TypeOK
<1>5. TypeOK'
  <2>1. /\ want' \in [Ops -> Seq(Paths)]
        /\ pc' \in [Ops -> {"idle", "acquire", "wait", "busy", "unlock", "release"}]
    BY <1>1 DEF LocksInv, TypeOK
  <2>2. ASSUME NEW q \in Ops
        PROVE  Len(want'[q]) <= 2 /\ Len(ents[q]) <= Len(want'[q])
    <3>1. CASE q = p
      <4>1. want'[q] = paths /\ Len(ents[q]) = 0
        BY <1>2, <1>4, <3>1
      <4> QED BY <1>2, <4>1
    <3>2. CASE q # p
      BY <1>3, <3>2 DEF LocksInv, TypeOK
    <3> QED BY <3>1, <3>2
  <2> QED BY <1>1, <2>1, <2>2 DEF LocksInv, TypeOK
<1>6. Progress'
  BY <1>1, <1>2, <1>3, <1>4 DEF LocksInv, Progress
<1>7. TableIsExact'
  <2>1. ASSUME NEW q \in Ops, NEW i \in DOMAIN ents[q]
        PROVE  locks[want'[q][i]] = ents[q][i]
    <3>1. q # p
      BY <1>2, <2>1
    <3> QED BY <1>3, <3>1 DEF LocksInv, TableIsExact
  <2> QED BY <1>1, <2>1 DEF LocksInv, TableIsExact, Uses
<1>8. HoldersOwn'
  <2>1. ASSUME NEW q \in Ops, NEW i \in Held(q)' PROVE owner[ents[q][i]] = q
    <3>1. q # p
      BY <1>1, <1>2, <2>1 DEF Held
    <3> QED BY <1>1, <1>3, <2>1, <3>1 DEF LocksInv, HoldersOwn, Held
  <2> QED BY <1>1, <1>2, <1>3, <2>1 DEF LocksInv, HoldersOwn
<1> QED BY <1>5, <1>6, <1>7, <1>8 DEF LocksInv

\* An operation has done its work, and holds what it held.
LEMMA InvFinish ==
  ASSUME LocksInv, NEW p \in Ops, Finish(p)
  PROVE  LocksInv'
<1>1. /\ pc[p] = "busy" /\ pc' = [pc EXCEPT ![p] = "unlock"]
      /\ UNCHANGED <<locks, refs, owner, want, ents>>
  BY DEF Finish, At
<1>2. TypeOK'
  BY <1>1 DEF LocksInv, TypeOK
<1>3. Progress'
  BY <1>1 DEF LocksInv, Progress, TypeOK
<1>4. TableIsExact'
  BY <1>1 DEF LocksInv, TableIsExact, Uses
<1>5. HoldersOwn'
  BY <1>1 DEF LocksInv, HoldersOwn, Held, TypeOK
<1> QED BY <1>2, <1>3, <1>4, <1>5 DEF LocksInv

\* acquire counts the operation on the entry of the path, or on a new one to which
\* nobody refers.
LEMMA InvAcquire ==
  ASSUME LocksInv, NEW p \in Ops, Acquire(p)
  PROVE  LocksInv'
<1> DEFINE n == Len(ents[p]) + 1
           path == NextPath(p)
<1>1. PICK e \in Entries :
        /\ IF locks[path] # None THEN e = locks[path] ELSE refs[e] = 0
        /\ locks' = [locks EXCEPT ![path] = e]
        /\ owner' = [owner EXCEPT ![e] = IF locks[path] = None THEN None ELSE @]
        /\ refs' = [refs EXCEPT ![e] = @ + 1]
        /\ ents' = [ents EXCEPT ![p] = Append(@, e)]
  BY DEF Acquire
<1>2. /\ pc[p] = "acquire" /\ pc' = [pc EXCEPT ![p] = "wait"] /\ want' = want
      /\ n \in {1, 2} /\ n <= Len(want[p])
      /\ path = want[p][n] /\ path \in Paths
      /\ Len(ents[p]) \in Nat /\ Len(ents[p]) = n - 1
  BY DEF Acquire, At, NextPath, LocksInv, Progress, TypeOK
<1>3. /\ ents'[p] \in Seq(Entries) /\ Len(ents'[p]) = n
      /\ \A i \in 1..n - 1 : ents'[p][i] = ents[p][i]
      /\ ents'[p][n] = e
      /\ \A q \in Ops \ {p} : ents'[q] = ents[q]
  BY <1>1, <1>2, Longer DEF LocksInv, TypeOK
<1>4. /\ locks'[path] = e
      /\ \A a \in Paths : a # path => locks'[a] = locks[a] /\ locks[a] # e
  <2>1. /\ locks'[path] = e
        /\ \A a \in Paths : a # path => locks'[a] = locks[a]
    BY <1>1, <1>2 DEF LocksInv, TypeOK
  <2>2. ASSUME NEW a \in Paths, a # path, locks[a] = e PROVE FALSE
    <3>1. locks[a] # None
      BY <2>2, LocksAssumption
    <3>2. refs[e] > 0 /\ refs[e] \in Nat
      BY <2>2, <3>1 DEF LocksInv, TypeOK, TableIsExact
    <3>3. locks[path] = e
      BY <1>1, <3>2
    <3> QED BY <1>2, <2>2, <3>1, <3>3 DEF LocksInv, TableIsExact
  <2> QED BY <2>1, <2>2
<1> HIDE DEF n, path
<1>5. TypeOK'
  <2>1. /\ locks' \in [Paths -> Entries \cup {None}] /\ owner' \in [Entries -> Ops \cup {None}]
        /\ pc' \in [Ops -> {"idle", "acquire", "wait", "busy", "unlock", "release"}]
    BY <1>1, <1>2 DEF LocksInv, TypeOK
  <2>2. refs' \in [Entries -> Nat]
    BY <1>1, <1>2 DEF LocksInv, TypeOK
  <2>3. ents' \in [Ops -> Seq(Entries)]
    BY <1>1, <1>3 DEF LocksInv, TypeOK
  <2>4. \A q \in Ops : Len(ents'[q]) <= Len(want[q])
    BY <1>2, <1>3 DEF LocksInv, TypeOK
  <2> QED BY <1>2, <2>1, <2>2, <2>3, <2>4 DEF LocksInv, TypeOK
<1>6. Progress'
  <2>1. pc'[p] = "wait" /\ \A q \in Ops \ {p} : pc'[q] = pc[q]
    BY <1>2 DEF LocksInv, TypeOK
  <2> QED BY <1>2, <1>3, <2>1 DEF LocksInv, Progress
\* The operation has one reference more, at the end.
<1>7. ASSUME NEW q \in Ops, NEW i
      PROVE  /\ i \in DOMAIN ents'[q] <=> i \in DOMAIN ents[q] \/ (q = p /\ i = n)
             /\ i \in DOMAIN ents[q] => ents'[q][i] = ents[q][i] /\ ~(q = p /\ i = n)
  <2>1. CASE q # p
    BY <1>3, <2>1
  <2>2. CASE q = p
    <3>1. DOMAIN ents[p] = 1..n - 1 /\ DOMAIN ents'[p] = 1..n /\ n \in Nat /\ n > 0
      BY <1>2, <1>3, Shape DEF LocksInv
    <3> QED BY <1>3, <2>2, <3>1
  <2> QED BY <2>1, <2>2
<1>8. ASSUME NEW q \in Ops, NEW i \in DOMAIN ents[q], ents[q][i] = e
      PROVE  locks[path] = e
  BY <1>1, <1>8, CountIsPositive, Shape DEF LocksInv
<1>9. TableIsExact'
  <2>1. ASSUME NEW q \in Ops, NEW i \in DOMAIN ents'[q]
        PROVE  locks'[want'[q][i]] = ents'[q][i]
    <3>1. CASE q = p /\ i = n
      BY <1>2, <1>3, <1>4, <3>1
    <3>2. CASE ~(q = p /\ i = n)
      <4>1. i \in DOMAIN ents[q] /\ ents'[q][i] = ents[q][i]
        BY <1>7, <2>1, <3>2
      <4>2. /\ locks[want[q][i]] = ents[q][i]
            /\ want[q][i] \in Paths /\ ents[q][i] \in Entries
        BY <4>1, Shape DEF LocksInv, TableIsExact
      <4>3. want[q][i] = path => ents[q][i] = e
        BY <1>1, <4>2, LocksAssumption
      <4> QED BY <1>2, <1>4, <4>1, <4>2, <4>3
    <3> QED BY <3>1, <3>2
  <2>2. ASSUME NEW f \in Entries
        PROVE  refs'[f] = Cardinality(Uses(f)')
    <3>1. refs[f] = Cardinality(Uses(f)) /\ IsFiniteSet(Uses(f)) /\ refs[f] \in Nat
      BY UsesFinite DEF LocksInv, TableIsExact, TypeOK
    <3>2. ASSUME NEW q \in Ops, NEW i \in {1, 2}
          PROVE  <<q, i>> \in Uses(f)' <=> <<q, i>> \in Uses(f) \/ (q = p /\ i = n /\ f = e)
      <4>1. <<q, i>> \in Uses(f)' <=> i \in DOMAIN ents'[q] /\ ents'[q][i] = f
        BY DEF Uses
      <4>2. <<q, i>> \in Uses(f) <=> i \in DOMAIN ents[q] /\ ents[q][i] = f
        BY DEF Uses
      <4>3. CASE q = p /\ i = n
        BY <1>3, <1>7, <4>1, <4>2, <4>3
      <4>4. CASE ~(q = p /\ i = n)
        <5>1. /\ i \in DOMAIN ents'[q] <=> i \in DOMAIN ents[q]
              /\ i \in DOMAIN ents[q] => ents'[q][i] = ents[q][i]
          BY <1>7, <4>4
        <5> QED BY <4>1, <4>2, <4>4, <5>1
      <4> QED BY <4>3, <4>4
    <3>0. Uses(f) \in SUBSET (Ops \X {1, 2}) /\ Uses(f)' \in SUBSET (Ops \X {1, 2})
      BY DEF Uses
    <3>3. CASE f = e
      <4>1. Uses(f)' = Uses(f) \cup {<<p, n>>}
        <5>1. Uses(f) \cup {<<p, n>>} \in SUBSET (Ops \X {1, 2})
          BY <1>2, <3>0
        <5>2. \A q \in Ops : \A i \in {1, 2} :
                <<q, i>> \in Uses(f)' <=> <<q, i>> \in Uses(f) \cup {<<p, n>>}
          BY <3>2, <3>3
        <5> QED BY <3>0, <5>1, <5>2, SameReferences
      <4>2. <<p, n>> \notin Uses(f)
        BY <1>2, <1>7 DEF Uses
      <4>3. refs'[f] = refs[f] + 1
        BY <1>1, <3>1, <3>3 DEF LocksInv, TypeOK
      <4>4. Cardinality(Uses(f)') = Cardinality(Uses(f)) + 1
        BY <3>1, <4>1, <4>2, FS_AddElement
      <4> QED BY <3>1, <4>1, <4>3, <4>4, FS_AddElement
    <3>4. CASE f # e
      <4>1. Uses(f)' = Uses(f)
        <5>1. \A q \in Ops : \A i \in {1, 2} : <<q, i>> \in Uses(f)' <=> <<q, i>> \in Uses(f)
          BY <3>2, <3>4
        <5> QED BY <3>0, <5>1, SameReferences
      <4> QED BY <1>1, <3>1, <3>4, <4>1 DEF LocksInv, TypeOK
    <3> QED BY <3>3, <3>4
  <2>3. ASSUME NEW a \in Paths, locks'[a] # None
        PROVE  refs'[locks'[a]] > 0
    BY <1>1, <1>2, <1>4, <2>3 DEF LocksInv, TypeOK, TableIsExact
  <2>4. ASSUME NEW a \in Paths, NEW b \in Paths, locks'[a] # None, locks'[a] = locks'[b]
        PROVE  a = b
    <3>1. CASE a = path \/ b = path
      BY <1>4, <2>4, <3>1
    <3>2. CASE a # path /\ b # path
      BY <1>4, <2>4, <3>2 DEF LocksInv, TableIsExact
    <3> QED BY <3>1, <3>2
  <2> QED BY <2>1, <2>2, <2>3, <2>4 DEF TableIsExact
<1>10. HoldersOwn'
  <2>1. ASSUME NEW q \in Ops, NEW i \in Held(q)'
        PROVE  owner'[ents'[q][i]] = q
    <3>1. i \in Held(q) /\ i \in DOMAIN ents[q] /\ ents'[q][i] = ents[q][i]
      <4>1. CASE q = p
        <5>1. i \in DOMAIN ents'[p] /\ i < n
          BY <1>2, <1>3, <2>1, <4>1 DEF Held, LocksInv, TypeOK
        <5> QED BY <1>2, <1>7, <4>1, <5>1 DEF Held
      <4>2. CASE q # p
        BY <1>2, <1>3, <2>1, <4>2 DEF Held, LocksInv, TypeOK
      <4> QED BY <4>1, <4>2
    <3>2. owner[ents[q][i]] = q /\ ents[q][i] \in Entries
      BY <3>1, Shape DEF LocksInv, HoldersOwn
    <3>3. ents[q][i] = e => locks[path] # None
      BY <1>8, <3>1, LocksAssumption
    <3> QED BY <1>1, <3>1, <3>2, <3>3 DEF LocksInv, TypeOK
  <2>2. ASSUME NEW q \in Ops, Len(ents'[q]) = 2, pc'[q] # "wait"
        PROVE  ents'[q][1] # ents'[q][2]
    <3>1. q # p /\ pc'[q] = pc[q] /\ ents'[q] = ents[q]
      BY <1>2, <1>3, <2>2 DEF LocksInv, TypeOK
    <3> QED BY <2>2, <3>1 DEF LocksInv, HoldersOwn
  <2> QED BY <2>1, <2>2 DEF HoldersOwn
<1> QED BY <1>5, <1>6, <1>9, <1>10 DEF LocksInv

\* Two operations that got past the lock of a path are one: they refer to the
\* same entry of the table, which has one owner.
LEMMA HoldersExclude ==
  ASSUME LocksInv, NEW p \in Ops, NEW q \in Ops,
         NEW i \in Held(p), NEW j \in Held(q), want[p][i] = want[q][j]
  PROVE  p = q
<1>1. /\ i \in DOMAIN ents[p] /\ owner[ents[p][i]] = p
      /\ j \in DOMAIN ents[q] /\ owner[ents[q][j]] = q
  BY DEF LocksInv, HoldersOwn, Held
<1>2. locks[want[p][i]] = ents[p][i] /\ locks[want[q][j]] = ents[q][j]
  BY <1>1 DEF LocksInv, TableIsExact
<1> QED BY <1>1, <1>2

\* Whoever locks an entry finds it without an owner.
LEMMA InvLockEntry ==
  ASSUME LocksInv, NEW p \in Ops, LockEntry(p)
  PROVE  LocksInv'
<1> DEFINE n == Len(ents[p])
           e == Last(ents[p])
<1>1. /\ pc[p] = "wait" /\ n > 0 /\ n \in Nat /\ n <= 2
      /\ pc' = [pc EXCEPT ![p] = IF n < Len(want[p]) THEN "acquire" ELSE "busy"]
      /\ owner[e] = None /\ owner' = [owner EXCEPT ![e] = p]
      /\ UNCHANGED <<locks, refs, want, ents>>
      /\ e = ents[p][n] /\ e \in Entries
  <2>1. /\ pc[p] = "wait" /\ owner[e] = None /\ owner' = [owner EXCEPT ![e] = p]
        /\ pc' = [pc EXCEPT ![p] = IF n < Len(want[p]) THEN "acquire" ELSE "busy"]
        /\ UNCHANGED <<locks, refs, want, ents>>
    BY DEF LockEntry, At
  <2>2. n > 0 /\ n \in Nat /\ n <= 2 /\ ents[p] \in Seq(Entries)
    BY <2>1, Shape DEF LocksInv, Progress
  <2>3. e = ents[p][n] /\ e \in Entries
    BY <2>2, Shorter
  <2> QED BY <2>1, <2>2, <2>3
<1> HIDE DEF e
<1>2. TypeOK'
  BY <1>1 DEF LocksInv, TypeOK
<1>3. Progress'
  BY <1>1 DEF LocksInv, Progress, TypeOK
<1>4. TableIsExact'
  BY <1>1 DEF LocksInv, TableIsExact, Uses
<1>5. HoldersOwn'
  <2>1. ASSUME NEW q \in Ops, NEW i \in Held(q)'
        PROVE  owner'[ents'[q][i]] = q
    <3>1. CASE q = p /\ i = n
      BY <1>1, <3>1 DEF LocksInv, TypeOK
    <3>2. CASE ~(q = p /\ i = n)
      <4>1. i \in Held(q) /\ ents[q][i] \in Entries
        BY <1>1, <3>2 DEF Held, LocksInv, TypeOK
      <4>2. owner[ents[q][i]] = q
        BY <4>1 DEF LocksInv, HoldersOwn
      <4> QED BY <1>1, <4>1, <4>2, LocksAssumption DEF LocksInv, TypeOK
    <3> QED BY <3>1, <3>2
  <2>2. ASSUME Len(ents[p]) = 2
        PROVE  ents[p][1] # ents[p][2]
    <3>1. 1 \in Held(p)
      BY <2>2 DEF Held, LocksInv, TypeOK
    <3> QED BY <1>1, <2>2, <3>1, LocksAssumption DEF LocksInv, HoldersOwn
  <2> QED BY <1>1, <2>1, <2>2 DEF HoldersOwn, LocksInv, TypeOK
<1> QED BY <1>2, <1>3, <1>4, <1>5 DEF LocksInv

\* Whoever unlocks an entry owns it, and holds it for no other path.
LEMMA InvUnlockEntry ==
  ASSUME LocksInv, NEW p \in Ops, UnlockEntry(p)
  PROVE  LocksInv'
<1> DEFINE n == Len(ents[p])
           e == Last(ents[p])
<1>1. /\ pc[p] = "unlock" /\ pc' = [pc EXCEPT ![p] = "release"]
      /\ owner' = [owner EXCEPT ![e] = None]
      /\ UNCHANGED <<locks, refs, want, ents>>
  BY DEF UnlockEntry, At
<1>2. n > 0 /\ n \in Nat /\ n <= 2 /\ ents[p] \in Seq(Entries) /\ n \in DOMAIN ents[p]
  <2>1. n > 0 /\ n \in Nat /\ n <= 2 /\ ents[p] \in Seq(Entries) /\ DOMAIN ents[p] = 1..n
    BY <1>1, Shape DEF LocksInv, Progress
  <2> QED BY <2>1
<1>3. e = ents[p][n] /\ e \in Entries
  BY <1>2, Shorter
<1> HIDE DEF e
<1>4. owner[e] = p
  BY <1>1, <1>2, <1>3 DEF LocksInv, HoldersOwn, Held
<1>5. TypeOK'
  BY <1>1, <1>3 DEF LocksInv, TypeOK
<1>6. Progress'
  BY <1>1, <1>2 DEF LocksInv, Progress, TypeOK
<1>7. TableIsExact'
  BY <1>1 DEF LocksInv, TableIsExact, Uses
<1>8. HoldersOwn'
  <2>1. ASSUME NEW q \in Ops, NEW i \in Held(q)'
        PROVE  owner'[ents'[q][i]] = q
    <3>1. /\ i \in DOMAIN ents[q] /\ i \in Held(q) /\ (q = p => i < n)
          /\ ents[q][i] \in Entries
      <4>1. i \in DOMAIN ents[q] /\ (i < Len(ents[q]) \/ pc'[q] \in {"acquire", "busy", "unlock"})
        BY <1>1, <2>1 DEF Held
      <4>2. CASE q = p
        <5>1. pc'[q] = "release"
          BY <1>1, <4>2 DEF LocksInv, TypeOK
        <5> QED BY <4>1, <4>2, <5>1, Shape DEF Held, LocksInv
      <4>3. CASE q # p
        <5>1. pc'[q] = pc[q]
          BY <1>1, <4>3 DEF LocksInv, TypeOK
        <5> QED BY <4>1, <4>3, <5>1, Shape DEF Held, LocksInv
      <4> QED BY <4>2, <4>3
    <3>2. owner[ents[q][i]] = q
      BY <3>1 DEF LocksInv, HoldersOwn
    <3>3. ASSUME ents[q][i] = e PROVE FALSE
      <4>1. q = p
        BY <1>4, <3>2, <3>3
      <4>2. i = 1 /\ n = 2
        <5>1. i \in 1..n /\ i < n
          BY <3>1, <4>1, Shape DEF LocksInv
        <5> HIDE DEF n
        <5> QED BY <1>2, <5>1
      <4>3. ents[p][1] # ents[p][2]
        BY <1>1, <4>2 DEF LocksInv, HoldersOwn
      <4> QED BY <1>3, <3>3, <4>1, <4>2, <4>3
    <3> QED BY <1>1, <3>1, <3>2, <3>3 DEF LocksInv, TypeOK
  <2>2. ASSUME NEW q \in Ops, Len(ents'[q]) = 2, pc'[q] # "wait"
        PROVE  ents'[q][1] # ents'[q][2]
    BY <1>1, <2>2 DEF LocksInv, HoldersOwn, TypeOK
  <2> QED BY <2>1, <2>2 DEF HoldersOwn
<1> QED BY <1>5, <1>6, <1>7, <1>8 DEF LocksInv

\* release counts the operation out, and drops an entry from the table only with
\* its last reference.
LEMMA InvRelease ==
  ASSUME LocksInv, NEW p \in Ops, Release(p)
  PROVE  LocksInv'
<1> DEFINE n == Len(ents[p])
           e == Last(ents[p])
           path == want[p][n]
<1>1. /\ pc[p] = "release"
      /\ pc' = [pc EXCEPT ![p] = IF n = 1 THEN "idle" ELSE "unlock"]
      /\ refs' = [refs EXCEPT ![e] = @ - 1]
      /\ locks' = [locks EXCEPT ![path] = IF refs[e] = 1 THEN None ELSE @]
      /\ ents' = [ents EXCEPT ![p] = Front(@)]
      /\ want' = [want EXCEPT ![p] = IF n = 1 THEN <<>> ELSE @]
      /\ owner' = owner
  BY DEF Release, At
<1>2. /\ n > 0 /\ n \in Nat /\ n <= 2 /\ n <= Len(want[p]) /\ ents[p] \in Seq(Entries)
      /\ DOMAIN ents[p] = 1..n
  BY <1>1, Shape DEF LocksInv, Progress
<1>3. n \in DOMAIN ents[p]
  BY <1>2
<1>4. /\ e = ents[p][n] /\ e \in Entries
      /\ Front(ents[p]) \in Seq(Entries) /\ Len(Front(ents[p])) = n - 1
      /\ \A i \in 1..n - 1 : Front(ents[p])[i] = ents[p][i]
  BY <1>2, Shorter
<1>5. path \in Paths /\ locks[path] = e
  BY <1>3, <1>4, Shape DEF LocksInv, TableIsExact
<1>6. refs[e] \in Nat /\ refs[e] > 0
  BY <1>2, <1>3, <1>4, CountIsPositive DEF LocksInv, TypeOK
<1> HIDE DEF n, e, path
<1>7. /\ ents'[p] = Front(ents[p])
      /\ \A q \in Ops : q # p => ents'[q] = ents[q] /\ want'[q] = want[q] /\ pc'[q] = pc[q]
      /\ pc'[p] = IF n = 1 THEN "idle" ELSE "unlock"
      /\ want'[p] = IF n = 1 THEN <<>> ELSE want[p]
  BY <1>1 DEF LocksInv, TypeOK
<1>8. \A q \in Ops : Len(want'[q]) <= 2 /\ Len(ents'[q]) <= Len(want'[q])
  <2>1. ASSUME NEW q \in Ops, q # p PROVE Len(want'[q]) <= 2 /\ Len(ents'[q]) <= Len(want'[q])
    BY <1>7, <2>1, Shape DEF LocksInv
  <2>2. CASE n = 1
    BY <1>4, <1>7, <2>1, <2>2, EmptySeq
  <2>3. CASE n # 1
    BY <1>2, <1>4, <1>7, <2>1, <2>3, Shape DEF LocksInv
  <2> QED BY <2>2, <2>3
<1>9. TypeOK'
  <2>1. want' \in [Ops -> Seq(Paths)]
    <3>1. want'[p] \in Seq(Paths)
      BY <1>7, Shape DEF LocksInv
    <3> QED BY <1>1, <1>7, <3>1 DEF LocksInv, TypeOK
  <2>2. ents' \in [Ops -> Seq(Entries)]
    BY <1>1, <1>4, <1>7 DEF LocksInv, TypeOK
  <2>3. /\ locks' \in [Paths -> Entries \cup {None}] /\ owner' \in [Entries -> Ops \cup {None}]
        /\ pc' \in [Ops -> {"idle", "acquire", "wait", "busy", "unlock", "release"}]
    BY <1>1, <1>5 DEF LocksInv, TypeOK
  <2>4. refs' \in [Entries -> Nat]
    <3>1. refs[e] - 1 \in Nat
      BY <1>6
    <3>2. refs \in [Entries -> Nat]
      BY DEF LocksInv, TypeOK
    <3> QED BY <1>1, <3>1, <3>2
  <2> QED BY <1>8, <2>1, <2>2, <2>3, <2>4 DEF TypeOK
<1>10. Progress'
  <2>1. ASSUME NEW q \in Ops, q # p
        PROVE  /\ pc'[q] = "idle" <=> want'[q] = <<>>
               /\ pc'[q] = "idle" => ents'[q] = <<>>
               /\ pc'[q] = "acquire" => Len(ents'[q]) < Len(want'[q])
               /\ pc'[q] = "busy" => Len(ents'[q]) = Len(want'[q])
               /\ pc'[q] \in {"wait", "busy", "unlock", "release"} => Len(ents'[q]) > 0
    BY <1>7, <2>1 DEF LocksInv, Progress
  <2>2. /\ pc'[p] = "idle" <=> want'[p] = <<>>
        /\ pc'[p] = "idle" => ents'[p] = <<>>
        /\ pc'[p] = "acquire" => Len(ents'[p]) < Len(want'[p])
        /\ pc'[p] = "busy" => Len(ents'[p]) = Len(want'[p])
        /\ pc'[p] \in {"wait", "busy", "unlock", "release"} => Len(ents'[p]) > 0
    <3>1. CASE n = 1
      <4>1. pc'[p] = "idle" /\ want'[p] = <<>> /\ ents'[p] \in Seq(Entries) /\ Len(ents'[p]) = 0
        BY <1>4, <1>7, <3>1
      <4>2. ents'[p] = <<>>
        BY <4>1, EmptySeq
      <4> QED BY <4>1, <4>2
    <3>2. CASE n # 1
      <4>1. pc'[p] = "unlock" /\ want'[p] = want[p] /\ Len(ents'[p]) > 0
        BY <1>2, <1>4, <1>7, <3>2
      <4>2. want[p] # <<>>
        BY <1>1 DEF LocksInv, Progress
      <4> QED BY <4>1, <4>2
    <3> QED BY <3>1, <3>2
  <2> QED BY <2>1, <2>2 DEF Progress
\* The operation has its last reference no more.
<1>11. ASSUME NEW q \in Ops, NEW i
       PROVE  /\ i \in DOMAIN ents'[q] <=> i \in DOMAIN ents[q] /\ ~(q = p /\ i = n)
              /\ i \in DOMAIN ents'[q] => ents'[q][i] = ents[q][i] /\ want'[q][i] = want[q][i]
  <2>1. CASE q # p
    BY <1>7, <2>1
  <2>2. CASE q = p
    <3>1. DOMAIN ents'[p] = 1..n - 1 /\ (n = 1 \/ n = 2)
      BY <1>2, <1>4, <1>7
    <3>2. i \in DOMAIN ents'[p] => n # 1
      BY <3>1
    <3> QED BY <1>2, <1>4, <1>7, <2>2, <3>1, <3>2
  <2> QED BY <2>1, <2>2
\* An entry that somebody else refers to is not dropped.
<1>12. ASSUME NEW q \in Ops, NEW i \in DOMAIN ents'[q], ents[q][i] = e
       PROVE  refs[e] # 1
  <2>1. i \in DOMAIN ents[q] /\ ~(q = p /\ i = n)
    BY <1>11, <1>12
  <2> QED BY <1>3, <1>4, <1>12, <2>1, LastReference
<1>13. TableIsExact'
  <2>1. ASSUME NEW q \in Ops, NEW i \in DOMAIN ents'[q]
        PROVE  locks'[want'[q][i]] = ents'[q][i]
    <3>1. /\ i \in DOMAIN ents[q] /\ ents'[q][i] = ents[q][i] /\ want'[q][i] = want[q][i]
          /\ locks[want[q][i]] = ents[q][i] /\ want[q][i] \in Paths
      BY <1>11, <2>1, Shape DEF LocksInv, TableIsExact
    <3>2. want[q][i] = path => refs[e] # 1
      BY <1>5, <1>12, <3>1
    <3> QED BY <1>1, <3>1, <3>2 DEF LocksInv, TypeOK
  <2>2. ASSUME NEW f \in Entries
        PROVE  refs'[f] = Cardinality(Uses(f)')
    <3>1. refs[f] = Cardinality(Uses(f)) /\ IsFiniteSet(Uses(f)) /\ refs[f] \in Nat
      BY UsesFinite DEF LocksInv, TableIsExact, TypeOK
    <3>2. ASSUME NEW q \in Ops, NEW i \in {1, 2}
          PROVE  <<q, i>> \in Uses(f)' <=> <<q, i>> \in Uses(f) /\ ~(q = p /\ i = n)
      <4>1. <<q, i>> \in Uses(f)' <=> i \in DOMAIN ents'[q] /\ ents'[q][i] = f
        BY DEF Uses
      <4>2. <<q, i>> \in Uses(f) <=> i \in DOMAIN ents[q] /\ ents[q][i] = f
        BY DEF Uses
      <4>3. /\ i \in DOMAIN ents'[q] <=> i \in DOMAIN ents[q] /\ ~(q = p /\ i = n)
            /\ i \in DOMAIN ents'[q] => ents'[q][i] = ents[q][i]
        BY <1>11
      <4> QED BY <4>1, <4>2, <4>3
    <3>3. Uses(f) \in SUBSET (Ops \X {1, 2}) /\ Uses(f)' \in SUBSET (Ops \X {1, 2})
      BY DEF Uses
    <3>4. CASE f = e
      <4>1. Uses(f)' = Uses(f) \ {<<p, n>>}
        <5>1. Uses(f) \ {<<p, n>>} \in SUBSET (Ops \X {1, 2})
          BY <3>3
        <5>2. \A q \in Ops : \A i \in {1, 2} :
                <<q, i>> \in Uses(f)' <=> <<q, i>> \in Uses(f) \ {<<p, n>>}
          BY <3>2
        <5> QED BY <3>3, <5>1, <5>2, SameReferences
      <4>2. <<p, n>> \in Uses(f)
        <5>1. n \in {1, 2}
          BY <1>2
        <5> QED BY <1>3, <1>4, <3>4, <5>1 DEF Uses
      <4>3. Cardinality(Uses(f)') = Cardinality(Uses(f)) - 1
        BY <3>1, <4>1, <4>2, FS_RemoveElement
      <4> QED BY <1>1, <3>1, <3>4, <4>3 DEF LocksInv, TypeOK
    <3>5. CASE f # e
      <4>1. Uses(f)' = Uses(f)
        <5>1. \A q \in Ops : \A i \in {1, 2} : <<q, i>> \in Uses(f)' <=> <<q, i>> \in Uses(f)
          <6> TAKE q \in Ops, i \in {1, 2}
          <6>1. q = p /\ i = n => <<q, i>> \notin Uses(f)
            BY <1>4, <3>5 DEF Uses
          <6> QED BY <3>2, <6>1
        <5> QED BY <3>3, <5>1, SameReferences
      <4> QED BY <1>1, <3>1, <3>5, <4>1 DEF LocksInv, TypeOK
    <3> QED BY <3>4, <3>5
  <2>3. ASSUME NEW a \in Paths, locks'[a] # None
        PROVE  refs'[locks'[a]] > 0
    <3>1. locks'[a] = locks[a] /\ (a = path => refs[e] # 1) /\ locks[a] \in Entries
      BY <1>1, <1>5, <2>3 DEF LocksInv, TypeOK
    <3>2. locks[a] = e => a = path
      BY <1>5, <2>3, <3>1 DEF LocksInv, TableIsExact
    <3>3. refs[locks[a]] > 0
      BY <2>3, <3>1 DEF LocksInv, TableIsExact
    <3> QED BY <1>1, <1>6, <3>1, <3>2, <3>3 DEF LocksInv, TypeOK
  <2>4. ASSUME NEW a \in Paths, NEW b \in Paths, locks'[a] # None, locks'[a] = locks'[b]
        PROVE  a = b
    <3>1. locks'[a] = locks[a] /\ locks'[b] = locks[b]
      BY <1>1, <1>5, <2>4 DEF LocksInv, TypeOK
    <3> QED BY <2>4, <3>1 DEF LocksInv, TableIsExact
  <2> QED BY <2>1, <2>2, <2>3, <2>4 DEF TableIsExact
<1>14. HoldersOwn'
  <2>1. ASSUME NEW q \in Ops, NEW i \in Held(q)'
        PROVE  owner'[ents'[q][i]] = q
    <3>1. /\ i \in DOMAIN ents'[q]
          /\ i < Len(ents'[q]) \/ pc'[q] \in {"acquire", "busy", "unlock"}
      BY <2>1 DEF Held
    <3>2. i \in Held(q)
      <4>1. CASE q = p
        <5>1. i \in DOMAIN ents[p] /\ i \in 1..n - 1 /\ i < Len(ents[p])
          BY <1>2, <1>4, <1>7, <1>11, <3>1, <4>1 DEF n
        <5> QED BY <4>1, <5>1 DEF Held
      <4>2. CASE q # p
        BY <1>7, <3>1, <4>2 DEF Held
      <4> QED BY <4>1, <4>2
    <3> QED BY <1>1, <1>11, <3>1, <3>2 DEF LocksInv, HoldersOwn
  <2>2. ASSUME NEW q \in Ops, Len(ents'[q]) = 2, pc'[q] # "wait"
        PROVE  ents'[q][1] # ents'[q][2]
    <3>1. q # p
      BY <1>2, <1>4, <1>7, <2>2
    <3> QED BY <1>7, <2>2, <3>1 DEF LocksInv, HoldersOwn
  <2> QED BY <2>1, <2>2 DEF HoldersOwn
<1> QED BY <1>9, <1>10, <1>13, <1>14 DEF LocksInv

\* Every step of lockTable.Lock and of the function it returns preserves the
\* invariant.
LEMMA InvPreserved == LocksInv /\ [Next]_vars => LocksInv'
<1> SUFFICES ASSUME LocksInv, [Next]_vars PROVE LocksInv'
  OBVIOUS
<1>1. CASE UNCHANGED vars
  BY <1>1 DEF vars, LocksInv, TypeOK, Progress, TableIsExact, Uses, HoldersOwn, Held
<1>2. CASE Next
  <2> SUFFICES ASSUME NEW p \in Ops,
                      \/ OneLock(p) \/ TwoLocks(p) \/ Finish(p)
                      \/ Acquire(p) \/ LockEntry(p) \/ UnlockEntry(p) \/ Release(p)
               PROVE  LocksInv'
    BY <1>2 DEF Next
  <2>1. CASE OneLock(p)
    <3>1. PICK path \in Paths : Begin(p, <<path>>)
      BY <2>1 DEF OneLock
    <3> DEFINE paths == <<path>>
    <3>2. paths \in Seq(Paths) /\ Len(paths) > 0 /\ Len(paths) <= 2 /\ Begin(p, paths)
      BY <3>1
    <3> HIDE DEF paths
    <3> QED BY <3>2, InvBegin
  <2>2. CASE TwoLocks(p)
    <3>1. PICK old, new \in Paths : Begin(p, <<old, new>>)
      BY <2>2 DEF TwoLocks
    <3> DEFINE paths == <<old, new>>
    <3>2. paths \in Seq(Paths) /\ Len(paths) > 0 /\ Len(paths) <= 2 /\ Begin(p, paths)
      BY <3>1
    <3> HIDE DEF paths
    <3> QED BY <3>2, InvBegin
  <2> QED
    BY <2>1, <2>2, InvFinish, InvAcquire, InvLockEntry, InvUnlockEntry, InvRelease
<1> QED BY <1>1, <1>2

\* The invariant holds in every reachable state.
LEMMA InvHolds == Spec => []LocksInv
<1>1. Init => LocksInv
  <2> SUFFICES ASSUME Init PROVE LocksInv
    OBVIOUS
  <2>1. TypeOK /\ Progress /\ HoldersOwn
    BY DEF Init, TypeOK, Progress, HoldersOwn, Held
  <2>2. \A e \in Entries : Uses(e) = {}
    BY DEF Init, Uses
  <2>3. /\ \A p \in Ops : DOMAIN ents[p] = {}
        /\ \A path \in Paths : locks[path] = None
        /\ \A e \in Entries : refs[e] = 0
    BY DEF Init
  <2>4. TableIsExact
    BY <2>2, <2>3, FS_EmptySet DEF TableIsExact
  <2> QED BY <2>1, <2>4 DEF LocksInv
<1> QED BY <1>1, InvPreserved, PTL DEF Spec

-----------------------------------------------------------------------------
(***************************************************************************)
(* The properties of the table                                             *)
(***************************************************************************)

\* The variables of the lock table have their types: no count is ever taken below
\* zero by release.
THEOREM TypeCorrect == Spec => []TypeOK
BY InvHolds, PTL DEF LocksInv

\* acquire and release keep the table exact: an entry is in it as long as somebody
\* counts on it, and everybody on a path counts on the same.
THEOREM TableStaysExact == Spec => []TableIsExact
BY InvHolds, PTL DEF LocksInv

\* While an operation of the storage works on a path, no other one does.
THEOREM PathsAreExclusive == Spec => []MutualExclusion
<1>1. LocksInv => MutualExclusion
  BY HoldersExclude DEF MutualExclusion
<1> QED BY <1>1, InvHolds, PTL

-----------------------------------------------------------------------------
(***************************************************************************)
(* The lock table implements one mutex per path                            *)
(***************************************************************************)

\* The holder of a path, as PathLocks gives it to PathMutex.
HolderOf ==
  [path \in Paths |-> IF \E p \in Ops : Holds(p, path)
                      THEN CHOOSE p \in Ops : Holds(p, path) ELSE None]

HolderIsOne ==
  \A path \in Paths :
    /\ \A p \in Ops : Holds(p, path) => HolderOf[path] = p
    /\ (\A p \in Ops : ~Holds(p, path)) => HolderOf[path] = None

\* The choice of the holder is no choice: there is at most one.
LEMMA HolderDetermined == LocksInv => HolderIsOne
<1> SUFFICES ASSUME LocksInv, NEW path \in Paths
             PROVE  /\ \A p \in Ops : Holds(p, path) => HolderOf[path] = p
                    /\ (\A p \in Ops : ~Holds(p, path)) => HolderOf[path] = None
  BY DEF HolderIsOne
<1>1. ASSUME NEW p \in Ops, NEW q \in Ops, Holds(p, path), Holds(q, path) PROVE p = q
  BY <1>1, HoldersExclude DEF Holds
<1>2. ASSUME NEW p \in Ops, Holds(p, path) PROVE HolderOf[path] = p
  <2>1. (CHOOSE q \in Ops : Holds(q, path)) \in Ops /\ Holds(CHOOSE q \in Ops : Holds(q, path), path)
    BY <1>2
  <2>2. (CHOOSE q \in Ops : Holds(q, path)) = p
    BY <1>1, <1>2, <2>1
  <2> QED BY <1>2, <2>2 DEF HolderOf
<1> QED BY <1>2 DEF HolderOf

\* A step after which every operation holds the paths it held leaves the mutexes
\* alone.
LEMMA SameHolders ==
  ASSUME HolderIsOne, HolderIsOne',
         \A p \in Ops, path \in Paths : Holds(p, path)' <=> Holds(p, path)
  PROVE  HolderOf' = HolderOf
<1>1. ASSUME NEW path \in Paths PROVE HolderOf'[path] = HolderOf[path]
  <2>1. CASE \E p \in Ops : Holds(p, path)
    BY <2>1 DEF HolderIsOne
  <2>2. CASE ~\E p \in Ops : Holds(p, path)
    BY <2>2 DEF HolderIsOne
  <2> QED BY <2>1, <2>2
<1>2. /\ HolderOf = [path \in Paths |-> HolderOf[path]]
      /\ HolderOf' = [path \in Paths |-> HolderOf'[path]]
  BY DEF HolderOf
<1> QED BY <1>1, <1>2

\* A step that changes what a path is held by, and nothing else, is one of the mutex.
LEMMA OtherHolder ==
  ASSUME NEW path \in Paths, NEW h, HolderOf'[path] = h,
         \A a \in Paths : a # path => HolderOf'[a] = HolderOf[a]
  PROVE  HolderOf' = [HolderOf EXCEPT ![path] = h]
<1>1. /\ HolderOf = [a \in Paths |-> HolderOf[a]]
      /\ HolderOf' = [a \in Paths |-> HolderOf'[a]]
  BY DEF HolderOf
<1> QED BY <1>1

\* Nobody else's hold changes when one operation's place does.
LEMMA HoldsElsewhere ==
  ASSUME NEW q \in Ops, pc'[q] = pc[q], want'[q] = want[q], ents'[q] = ents[q], NEW path
  PROVE  Holds(q, path)' <=> Holds(q, path)
BY DEF Holds, Held

\* To begin, to be done, to count on an entry and to count out change no hold.
LEMMA QuietSteps ==
  ASSUME LocksInv, NEW p \in Ops,
         OneLock(p) \/ TwoLocks(p) \/ Finish(p) \/ Acquire(p) \/ Release(p),
         NEW q \in Ops, NEW path \in Paths
  PROVE  Holds(q, path)' <=> Holds(q, path)
<1>1. CASE q # p
  <2>1. pc'[q] = pc[q] /\ want'[q] = want[q] /\ ents'[q] = ents[q]
    BY <1>1 DEF OneLock, TwoLocks, Begin, Finish, Acquire, Release, At, LocksInv, TypeOK
  <2> QED BY <2>1, HoldsElsewhere
<1>2. CASE q = p /\ (OneLock(p) \/ TwoLocks(p))
  <2>1. ents[p] = <<>> /\ ents' = ents
    BY <1>2 DEF OneLock, TwoLocks, Begin, At, LocksInv, Progress
  <2>2. Held(p) = {} /\ Held(p)' = {}
    BY <2>1 DEF Held
  <2> QED BY <1>2, <2>2 DEF Holds
<1>3. CASE q = p /\ Finish(p)
  <2>1. /\ pc[p] = "busy" /\ pc'[p] = "unlock"
        /\ want' = want /\ ents' = ents
    BY <1>3 DEF Finish, At, LocksInv, TypeOK
  <2> QED BY <1>3, <2>1 DEF Holds, Held
<1>4. CASE q = p /\ Acquire(p)
  <2>1. PICK e \in Entries : ents' = [ents EXCEPT ![p] = Append(@, e)]
    BY <1>4 DEF Acquire
  <2>2. /\ pc[p] = "acquire" /\ pc'[p] = "wait" /\ want' = want
        /\ ents'[p] = Append(ents[p], e) /\ ents[p] \in Seq(Entries)
    BY <1>4, <2>1 DEF Acquire, At, LocksInv, TypeOK
  <2>3. /\ Len(ents[p]) \in Nat /\ Len(ents'[p]) = Len(ents[p]) + 1
        /\ DOMAIN ents[p] = 1..Len(ents[p]) /\ DOMAIN ents'[p] = 1..Len(ents[p]) + 1
    BY <2>2, Longer
  <2>4. Held(p) = 1..Len(ents[p])
    BY <2>2, <2>3 DEF Held
  <2>5. Held(p)' = {i \in 1..Len(ents[p]) + 1 : i < Len(ents[p]) + 1}
    BY <2>2, <2>3 DEF Held
  <2>6. Held(p)' = Held(p)
    BY <2>3, <2>4, <2>5
  <2> QED BY <1>4, <2>2, <2>6 DEF Holds
<1>5. CASE q = p /\ Release(p)
  <2> DEFINE n == Len(ents[p])
  <2>1. /\ pc[p] = "release" /\ pc'[p] = IF n = 1 THEN "idle" ELSE "unlock"
        /\ want'[p] = IF n = 1 THEN <<>> ELSE want[p]
        /\ ents'[p] = Front(ents[p])
        /\ ents[p] \in Seq(Entries) /\ n \in Nat /\ n > 0 /\ DOMAIN ents[p] = 1..n
    <3>1. pc[p] = "release"
      BY <1>5 DEF Release, At
    <3> QED BY <1>5, <3>1, Shape DEF Release, At, LocksInv, TypeOK, Progress
  <2>2. Len(ents'[p]) = n - 1 /\ DOMAIN ents'[p] = 1..n - 1
    BY <2>1, Shorter
  <2>3. Held(p) = {i \in 1..n : i < n}
    BY <2>1 DEF Held
  <2> HIDE DEF n
  <2>4. Held(p) = 1..n - 1
    BY <2>1, <2>3
  <2>5. CASE n = 1
    <3>1. Held(p)' = {} /\ Held(p) = {}
      BY <2>2, <2>4, <2>5 DEF Held
    <3> QED BY <1>5, <3>1 DEF Holds
  <2>6. CASE n # 1
    <3>1. Held(p)' = 1..n - 1 /\ want'[p] = want[p]
      BY <2>1, <2>2, <2>6 DEF Held
    <3> QED BY <1>5, <2>4, <3>1 DEF Holds
  <2> QED BY <2>5, <2>6
<1> QED BY <1>1, <1>2, <1>3, <1>4, <1>5

\* Whoever locks the entry of a path takes the mutex of the path, which was free.
LEMMA LockEntryLocks ==
  ASSUME LocksInv, LocksInv', NEW p \in Ops, LockEntry(p)
  PROVE  \E path \in Paths : Mutexes!Lock(p, path)
<1> DEFINE n == Len(ents[p])
<1>1. /\ pc[p] = "wait" /\ owner[Last(ents[p])] = None
      /\ pc' = [pc EXCEPT ![p] = IF Len(ents[p]) < Len(want[p]) THEN "acquire" ELSE "busy"]
      /\ UNCHANGED <<want, ents>>
  BY DEF LockEntry, At
<1>2. ents[p] \in Seq(Entries) /\ n \in Nat /\ n > 0 /\ DOMAIN ents[p] = 1..n
  BY <1>1, Shape DEF LocksInv, Progress
<1>3. PICK path \in Paths :
        n \in DOMAIN ents[p] /\ path = want[p][n] /\ locks[path] = ents[p][n]
  BY <1>2, Shape DEF LocksInv, TableIsExact
<1>4. owner[locks[path]] = None
  BY <1>1, <1>2, <1>3, Shorter
<1>5. \A q \in Ops : ~Holds(q, path)
  <2>1. ASSUME NEW q \in Ops, NEW i \in Held(q), want[q][i] = path PROVE FALSE
    <3>1. owner[ents[q][i]] = q /\ i \in DOMAIN ents[q]
      BY <2>1 DEF LocksInv, HoldersOwn, Held
    <3>2. locks[path] = ents[q][i]
      BY <2>1, <3>1 DEF LocksInv, TableIsExact
    <3> QED BY <1>4, <3>1, <3>2, LocksAssumption
  <2> QED BY <2>1 DEF Holds
<1>6. pc'[p] \in {"acquire", "busy"}
  BY <1>1 DEF LocksInv, TypeOK
<1>7. Holds(p, path)'
  BY <1>1, <1>3, <1>6 DEF Holds, Held
<1>8. ASSUME NEW q \in Ops, NEW a \in Paths, a # path
      PROVE  Holds(q, a)' <=> Holds(q, a)
  <2>1. CASE q # p
    <3>1. pc'[q] = pc[q]
      BY <1>1, <2>1 DEF LocksInv, TypeOK
    <3> QED BY <1>1, <3>1, HoldsElsewhere
  <2>2. CASE q = p
    <3>1. Held(p) = {i \in 1..n : i < n} /\ Held(p)' = 1..n
      BY <1>1, <1>2, <1>6 DEF Held
    <3> HIDE DEF n
    <3>2. Held(p)' = Held(p) \cup {n}
      BY <1>2, <3>1
    <3> QED BY <1>1, <1>3, <1>8, <2>2, <3>2 DEF Holds
  <2> QED BY <2>1, <2>2
<1>9. HolderIsOne /\ HolderIsOne'
  BY HolderDetermined, PTL
<1> HIDE DEF n
<1>10. HolderOf[path] = None /\ HolderOf'[path] = p
  BY <1>3, <1>5, <1>7, <1>9 DEF HolderIsOne
<1>11. ASSUME NEW a \in Paths, a # path PROVE HolderOf'[a] = HolderOf[a]
  <2>1. CASE \E q \in Ops : Holds(q, a)
    BY <1>8, <1>9, <1>11, <2>1 DEF HolderIsOne
  <2>2. CASE ~\E q \in Ops : Holds(q, a)
    BY <1>8, <1>9, <1>11, <2>2 DEF HolderIsOne
  <2> QED BY <2>1, <2>2
<1>12. HolderOf' = [HolderOf EXCEPT ![path] = p]
  BY <1>3, <1>10, <1>11, OtherHolder
<1> QED BY <1>3, <1>10, <1>12 DEF Mutexes!Lock, HolderOf

\* Whoever unlocks an entry gives up the mutex of its path, which it held.
LEMMA UnlockEntryUnlocks ==
  ASSUME LocksInv, LocksInv', NEW p \in Ops, UnlockEntry(p)
  PROVE  \E path \in Paths : Mutexes!Unlock(p, path)
<1> DEFINE n == Len(ents[p])
<1>1. /\ pc[p] = "unlock" /\ pc' = [pc EXCEPT ![p] = "release"]
      /\ UNCHANGED <<want, ents>>
  BY DEF UnlockEntry, At
<1>2. ents[p] \in Seq(Entries) /\ n \in Nat /\ n > 0 /\ n <= 2 /\ DOMAIN ents[p] = 1..n
  BY <1>1, Shape DEF LocksInv, Progress
<1>3. PICK path \in Paths : n \in DOMAIN ents[p] /\ path = want[p][n]
  BY <1>2, Shape DEF LocksInv
<1>4. Held(p) = 1..n /\ Held(p)' = {i \in 1..n : i < n}
  <2>1. pc'[p] = "release"
    BY <1>1 DEF LocksInv, TypeOK
  <2> QED BY <1>1, <1>2, <2>1 DEF Held
<1>5. Holds(p, path)
  BY <1>2, <1>3, <1>4 DEF Holds
<1>6. ASSUME NEW i \in 1..n, i < n PROVE want[p][i] # path
  <2>1. n = 2 /\ i = 1
    <3> HIDE DEF n
    <3> QED BY <1>2, <1>6
  <2>2. ents[p][1] # ents[p][2]
    BY <1>1, <2>1 DEF LocksInv, HoldersOwn
  <2>3. 1 \in DOMAIN ents[p] /\ 2 \in DOMAIN ents[p]
    BY <1>2, <2>1
  <2>4. locks[want[p][1]] = ents[p][1] /\ locks[want[p][2]] = ents[p][2]
    BY <2>3 DEF LocksInv, TableIsExact
  <2> QED BY <1>3, <2>1, <2>2, <2>4
<1>7. ~Holds(p, path)'
  BY <1>1, <1>4, <1>6 DEF Holds
<1>8. ASSUME NEW q \in Ops, q # p, NEW a PROVE Holds(q, a)' <=> Holds(q, a)
  <2>1. pc'[q] = pc[q]
    BY <1>1, <1>8 DEF LocksInv, TypeOK
  <2> QED BY <1>1, <2>1, HoldsElsewhere
<1>9. ASSUME NEW a \in Paths, a # path PROVE Holds(p, a)' <=> Holds(p, a)
  <2> HIDE DEF n
  <2>1. Held(p) = Held(p)' \cup {n}
    BY <1>2, <1>4
  <2> QED BY <1>1, <1>3, <1>9, <2>1 DEF Holds
<1>10. HolderIsOne /\ HolderIsOne'
  BY HolderDetermined, PTL
<1>11. \A q \in Ops : ~Holds(q, path)'
  <2>1. ASSUME NEW q \in Ops, q # p PROVE ~Holds(q, path)
    BY <1>3, <1>5, <1>10, <2>1 DEF HolderIsOne
  <2> QED BY <1>7, <1>8, <2>1
<1> HIDE DEF n
<1>12. HolderOf[path] = p /\ HolderOf'[path] = None
  BY <1>3, <1>5, <1>10, <1>11 DEF HolderIsOne
<1>13. ASSUME NEW a \in Paths, a # path PROVE HolderOf'[a] = HolderOf[a]
  <2>1. \A q \in Ops : Holds(q, a)' <=> Holds(q, a)
    BY <1>8, <1>9, <1>13
  <2>2. CASE \E q \in Ops : Holds(q, a)
    BY <1>10, <2>1, <2>2 DEF HolderIsOne
  <2>3. CASE ~\E q \in Ops : Holds(q, a)
    BY <1>10, <2>1, <2>3 DEF HolderIsOne
  <2> QED BY <2>2, <2>3
<1>14. HolderOf' = [HolderOf EXCEPT ![path] = None]
  BY <1>3, <1>12, <1>13, OtherHolder
<1> QED BY <1>3, <1>12, <1>14 DEF Mutexes!Unlock, HolderOf

\* The lock table of the file storage is one mutex per path: every lock and unlock of
\* an entry locks and unlocks the mutex of its path, and no other step is seen.
THEOREM TableIsMutexes == Spec => ImplementsPathMutex
<1>1. Init => Mutexes!Init
  <2> SUFFICES ASSUME Init PROVE Mutexes!Init
    OBVIOUS
  <2>1. \A p \in Ops : Held(p) = {}
    BY DEF Init, Held
  <2>2. \A p \in Ops, path \in Paths : ~Holds(p, path)
    BY <2>1 DEF Holds
  <2> QED BY <2>2 DEF Mutexes!Init
<1>2. LocksInv /\ LocksInv' /\ [Next]_vars => [Mutexes!Next]_HolderOf
  <2> SUFFICES ASSUME LocksInv, LocksInv', [Next]_vars PROVE [Mutexes!Next]_HolderOf
    OBVIOUS
  <2>1. HolderIsOne /\ HolderIsOne'
    BY HolderDetermined, PTL
  <2>2. CASE UNCHANGED vars
    <3>1. \A p \in Ops, path \in Paths : Holds(p, path)' <=> Holds(p, path)
      BY <2>2, HoldsElsewhere DEF vars
    <3> QED BY <2>1, <3>1, SameHolders
  <2>3. ASSUME NEW p \in Ops,
               OneLock(p) \/ TwoLocks(p) \/ Finish(p) \/ Acquire(p) \/ Release(p)
        PROVE  HolderOf' = HolderOf
    <3>1. \A q \in Ops, path \in Paths : Holds(q, path)' <=> Holds(q, path)
      BY <2>3, QuietSteps
    <3> QED BY <2>1, <3>1, SameHolders
  <2>4. ASSUME NEW p \in Ops, LockEntry(p) PROVE Mutexes!Next
    BY <2>4, LockEntryLocks DEF Mutexes!Next
  <2>5. ASSUME NEW p \in Ops, UnlockEntry(p) PROVE Mutexes!Next
    BY <2>5, UnlockEntryUnlocks DEF Mutexes!Next
  <2> QED BY <2>2, <2>3, <2>4, <2>5 DEF Next
<1> QED BY <1>1, <1>2, InvHolds, PTL DEF Spec, ImplementsPathMutex, Mutexes!Spec, HolderOf

(***************************************************************************)
(* The session store, which saves under those locks: whatever the runs and *)
(* the cleaner do, no session is lost that nobody damaged, removed or let  *)
(* expire.                                                                 *)
(***************************************************************************)

\* A run has a session and its header from the moment it has made or read it.
RunsHoldHeaders ==
  \A r \in Runs : runPc[r] # "idle" => target[r] \in Sessions /\ mem[r] \in Header

\* The mutex of a path is held by the run that is saving to it.
HoldersSave ==
  \A r \in Runs, s \in Sessions : holder[s] = r <=> runPc[r] = "saving" /\ target[r] = s

\* A file without a header is being written or was damaged.
TornIsHeldOrHurt ==
  \A s \in Sessions : file[s] = Torn => holder[s] # Nil \/ s \in hurt

\* The headers there are of a session, in its file and in the memory of runs.
Has(s, h) ==
  \/ file[s] = h /\ Whole(s)
  \/ \E r \in Runs : runPc[r] # "idle" /\ target[r] = s /\ mem[r] = h

\* A session's header never changes, so that there is one.
OneHeader == \A s \in Sessions : \A h, g : Has(s, h) /\ Has(s, g) => h = g

\* An id is given out once.
IdsAreKnown ==
  /\ \A s \in Sessions : file[s] # Absent => s \in known
  /\ \A r \in Runs : runPc[r] # "idle" => target[r] \in known
  /\ listed \cup broken \subseteq known
  /\ \A s \in Sessions : headers[s] # Nil => s \in known

\* What the cleaner has seen of a session is still so, or its file was damaged or deleted.
ListedWereThere == \A s \in listed : file[s] # Absent \/ s \in removed

BrokenIsBroken ==
  \A s \in broken : s \in hurt \cup removed \/ \A h : Has(s, h) => h.long

HeadersAreRead ==
  \A s \in Sessions : headers[s] # Nil =>
    /\ \A h : Has(s, h) => h.updatedAt = headers[s]
    /\ cpc = "old" => headers[s] + Retention <= now

\* The cleaner deletes nothing while it reads.
PhasesAreApart == cpc # "reading" => listed = {}

StoreInv ==
  /\ StoreTypeOK /\ RunsHoldHeaders /\ HoldersSave /\ TornIsHeldOrHurt /\ OneHeader /\ IdsAreKnown
  /\ ListedWereThere /\ BrokenIsBroken /\ HeadersAreRead /\ PhasesAreApart

\* Every step keeps the types.
LEMMA StoreTypeStep == StoreTypeOK /\ RunsHoldHeaders /\ StoreNext => StoreTypeOK'
<1> SUFFICES ASSUME StoreTypeOK, RunsHoldHeaders, StoreNext PROVE StoreTypeOK'
  OBVIOUS
<1> USE StoreAssumption
<1>1. ASSUME NEW r \in Runs, NEW s \in Sessions, Create(r, s) PROVE StoreTypeOK'
  <2>1. PICK h \in Header : mem' = [mem EXCEPT ![r] = h]
    BY <1>1 DEF StoreTypeOK, Create, Header
  <2> QED BY <1>1, <2>1 DEF StoreTypeOK, Create, cleanVars
<1>2. ASSUME NEW r \in Runs, NEW s \in Sessions, Load(r, s) PROVE StoreTypeOK'
  BY <1>2 DEF StoreTypeOK, Whole, Load, cleanVars, history
<1>3. ASSUME NEW r \in Runs, GiveUp(r) PROVE StoreTypeOK'
  BY <1>3 DEF StoreTypeOK, GiveUp, Rest, cleanVars, history
<1>4. ASSUME NEW r \in Runs, Truncate(r) PROVE StoreTypeOK'
  BY <1>4 DEF StoreTypeOK, Files, Truncate, Mutex!Lock, cleanVars
<1>5. ASSUME NEW r \in Runs, Fill(r) PROVE StoreTypeOK'
  BY <1>5
     DEF StoreTypeOK, RunsHoldHeaders, Files, Fill, Rest, Mutex!Unlock, cleanVars, history
<1>6. ASSUME NEW r \in Runs, FillFails(r) PROVE StoreTypeOK'
  BY <1>6
     DEF StoreTypeOK, RunsHoldHeaders, FillFails, Rest, Mutex!Unlock, cleanVars
<1>7. ASSUME NEW s \in Sessions, Delete(s) PROVE StoreTypeOK'
  BY <1>7 DEF StoreTypeOK, Files, Delete, runVars, cleanVars
<1>8. ASSUME NEW s \in Sessions, ReadHeader(s) PROVE StoreTypeOK'
  <2>1. headers' \in [Sessions -> Times \cup {Nil}] /\ broken' \subseteq Sessions
    BY <1>8 DEF StoreTypeOK, ReadHeader, Whole, Header
  <2> QED BY <1>8, <2>1 DEF StoreTypeOK, ReadHeader, runVars, history
<1>9. ASSUME NEW s \in Sessions, DeleteBroken(s) PROVE StoreTypeOK'
  BY <1>9 DEF StoreTypeOK, Files, DeleteBroken, runVars, history
<1>10. ASSUME NEW s \in Sessions, DeleteOld(s) PROVE StoreTypeOK'
  BY <1>10 DEF StoreTypeOK, Files, DeleteOld, runVars, history
<1>11. ASSUME NEW s \in Sessions, Damage(s) PROVE StoreTypeOK'
  BY <1>11 DEF StoreTypeOK, Files, Damage, runVars, cleanVars
<1>12. CASE List
  BY <1>12 DEF StoreTypeOK, List, runVars, history
<1>13. CASE ReadAll
  BY <1>13 DEF StoreTypeOK, ReadAll, runVars, history
<1>14. CASE CutDate
  BY <1>14 DEF StoreTypeOK, CutDate, runVars, history
<1>15. CASE Cleaned
  BY <1>15 DEF StoreTypeOK, Cleaned, runVars, history
<1>16. CASE Tick
  BY <1>16
     DEF StoreTypeOK, Times, Tick, runVars, cleanVars, history
<1>17. CASE Crash
  BY <1>17 DEF StoreTypeOK, Crash
<1> QED BY <1>1, <1>2, <1>3, <1>4, <1>5, <1>6, <1>7, <1>8, <1>9, <1>10, <1>11, <1>12, <1>13,
           <1>14, <1>15, <1>16, <1>17
           DEF StoreNext, RunStep, CleanStep, CleanPhase

\* A run loads what is whole.
LEMMA HoldStep == StoreTypeOK /\ RunsHoldHeaders /\ StoreNext => RunsHoldHeaders'
<1> SUFFICES ASSUME StoreTypeOK, RunsHoldHeaders, StoreNext PROVE RunsHoldHeaders'
  OBVIOUS
<1> USE StoreAssumption
<1>1. ASSUME NEW r \in Runs, NEW s \in Sessions, Create(r, s) PROVE RunsHoldHeaders'
  <2>1. PICK h \in Header : mem' = [mem EXCEPT ![r] = h]
    BY <1>1 DEF StoreTypeOK, Create, Header
  <2> QED BY <1>1, <2>1 DEF StoreTypeOK, RunsHoldHeaders, Create
<1>2. ASSUME NEW r \in Runs, NEW s \in Sessions, Load(r, s) PROVE RunsHoldHeaders'
  BY <1>2 DEF StoreTypeOK, RunsHoldHeaders, Whole, Load
<1>3. ASSUME NEW r \in Runs, GiveUp(r) PROVE RunsHoldHeaders'
  BY <1>3 DEF StoreTypeOK, RunsHoldHeaders, GiveUp, Rest
<1>4. ASSUME NEW r \in Runs, Truncate(r) PROVE RunsHoldHeaders'
  BY <1>4 DEF RunsHoldHeaders, Truncate
<1>5. ASSUME NEW r \in Runs, Fill(r) PROVE RunsHoldHeaders'
  BY <1>5 DEF StoreTypeOK, RunsHoldHeaders, Fill, Rest
<1>6. ASSUME NEW r \in Runs, FillFails(r) PROVE RunsHoldHeaders'
  BY <1>6 DEF StoreTypeOK, RunsHoldHeaders, FillFails, Rest
<1>7. CASE Crash
  BY <1>7 DEF RunsHoldHeaders, Crash
<1>8. CASE UNCHANGED runVars
  BY <1>8 DEF RunsHoldHeaders, runVars
<1> QED BY <1>1, <1>2, <1>3, <1>4, <1>5, <1>6, <1>7, <1>8
           DEF StoreNext, RunStep, CleanStep, CleanPhase, Delete, ReadHeader, DeleteBroken,
               DeleteOld, Damage, List, ReadAll, CutDate, Cleaned, Tick, runVars, cleanVars,
               history

\* The mutex is taken with the first and given back with the last step of a save.
LEMMA HoldersStep ==
  StoreTypeOK /\ RunsHoldHeaders /\ HoldersSave /\ StoreNext => HoldersSave'
<1> SUFFICES ASSUME StoreTypeOK, RunsHoldHeaders, HoldersSave, StoreNext PROVE HoldersSave'
  OBVIOUS
<1> USE StoreAssumption
<1>1. ASSUME NEW r \in Runs, NEW s \in Sessions, Create(r, s) PROVE HoldersSave'
  BY <1>1 DEF HoldersSave, Create
<1>2. ASSUME NEW r \in Runs, NEW s \in Sessions, Load(r, s) PROVE HoldersSave'
  BY <1>2 DEF HoldersSave, Load
<1>3. ASSUME NEW r \in Runs, GiveUp(r) PROVE HoldersSave'
  BY <1>3 DEF HoldersSave, GiveUp, Rest
<1>4. ASSUME NEW r \in Runs, Truncate(r) PROVE HoldersSave'
  BY <1>4 DEF StoreTypeOK, HoldersSave, Truncate, Mutex!Lock
<1>5. ASSUME NEW r \in Runs, Fill(r) PROVE HoldersSave'
  BY <1>5 DEF StoreTypeOK, HoldersSave, Fill, Rest, Mutex!Unlock
<1>6. ASSUME NEW r \in Runs, FillFails(r) PROVE HoldersSave'
  BY <1>6 DEF StoreTypeOK, HoldersSave, FillFails, Rest, Mutex!Unlock
<1>7. CASE Crash
  BY <1>7 DEF HoldersSave, Crash
<1>8. CASE UNCHANGED <<holder, runVars>>
  BY <1>8 DEF HoldersSave, runVars
<1> QED BY <1>1, <1>2, <1>3, <1>4, <1>5, <1>6, <1>7, <1>8
           DEF StoreNext, RunStep, CleanStep, CleanPhase, Delete, ReadHeader, DeleteBroken,
               DeleteOld, Damage, List, ReadAll, CutDate, Cleaned, Tick, runVars, cleanVars,
               history

\* Only a save that goes on, a failed one, a crash and a hand leave a file without a header.
LEMMA TornStep ==
  StoreTypeOK /\ RunsHoldHeaders /\ HoldersSave /\ TornIsHeldOrHurt /\ StoreNext
  => TornIsHeldOrHurt'
<1> SUFFICES ASSUME StoreTypeOK, RunsHoldHeaders, HoldersSave, TornIsHeldOrHurt, StoreNext
             PROVE  TornIsHeldOrHurt'
  OBVIOUS
<1> USE StoreAssumption
<1>1. ASSUME NEW r \in Runs, Truncate(r) PROVE TornIsHeldOrHurt'
  BY <1>1 DEF StoreTypeOK, TornIsHeldOrHurt, Truncate, Mutex!Lock
<1>2. ASSUME NEW r \in Runs, Fill(r) PROVE TornIsHeldOrHurt'
  BY <1>2
     DEF StoreTypeOK, TornIsHeldOrHurt, RunsHoldHeaders, Fill, Mutex!Unlock, history
<1>3. ASSUME NEW r \in Runs, FillFails(r) PROVE TornIsHeldOrHurt'
  BY <1>3 DEF TornIsHeldOrHurt, FillFails, Mutex!Unlock
<1>4. ASSUME NEW s \in Sessions, Delete(s) PROVE TornIsHeldOrHurt'
  BY <1>4 DEF TornIsHeldOrHurt, Delete
<1>5. ASSUME NEW s \in Sessions, DeleteBroken(s) PROVE TornIsHeldOrHurt'
  BY <1>5 DEF TornIsHeldOrHurt, DeleteBroken, history
<1>6. ASSUME NEW s \in Sessions, DeleteOld(s) PROVE TornIsHeldOrHurt'
  BY <1>6 DEF TornIsHeldOrHurt, DeleteOld, history
<1>7. ASSUME NEW s \in Sessions, Damage(s) PROVE TornIsHeldOrHurt'
  BY <1>7 DEF TornIsHeldOrHurt, Damage
<1>8. CASE Crash
  BY <1>8 DEF TornIsHeldOrHurt, Crash
<1>9. CASE UNCHANGED <<file, holder, hurt>>
  BY <1>9 DEF TornIsHeldOrHurt
<1> QED BY <1>1, <1>2, <1>3, <1>4, <1>5, <1>6, <1>7, <1>8, <1>9
           DEF StoreNext, RunStep, CleanStep, CleanPhase, Create, Load, GiveUp, Rest,
               ReadHeader, List, ReadAll, CutDate, Cleaned, Tick, runVars, cleanVars,
               history

\* What is saved, listed or read is of a session with an id.
LEMMA KnownStep ==
  StoreTypeOK /\ RunsHoldHeaders /\ IdsAreKnown /\ StoreNext => IdsAreKnown'
<1> SUFFICES ASSUME StoreTypeOK, RunsHoldHeaders, IdsAreKnown, StoreNext PROVE IdsAreKnown'
  OBVIOUS
<1> USE StoreAssumption
<1>1. ASSUME NEW r \in Runs, NEW s \in Sessions, Create(r, s) PROVE IdsAreKnown'
  BY <1>1 DEF StoreTypeOK, IdsAreKnown, Create, cleanVars
<1>2. ASSUME NEW r \in Runs, NEW s \in Sessions, Load(r, s) PROVE IdsAreKnown'
  BY <1>2 DEF StoreTypeOK, IdsAreKnown, Whole, Load, cleanVars, history
<1>3. ASSUME NEW r \in Runs, GiveUp(r) PROVE IdsAreKnown'
  BY <1>3
     DEF StoreTypeOK, IdsAreKnown, GiveUp, Rest, cleanVars, history
<1>4. ASSUME NEW r \in Runs, Truncate(r) PROVE IdsAreKnown'
  BY <1>4 DEF IdsAreKnown, Truncate, cleanVars
<1>5. ASSUME NEW r \in Runs, Fill(r) PROVE IdsAreKnown'
  BY <1>5 DEF StoreTypeOK, IdsAreKnown, Fill, Rest, cleanVars, history
<1>6. ASSUME NEW r \in Runs, FillFails(r) PROVE IdsAreKnown'
  BY <1>6 DEF StoreTypeOK, IdsAreKnown, FillFails, Rest, cleanVars
<1>7. ASSUME NEW s \in Sessions, Delete(s) PROVE IdsAreKnown'
  BY <1>7 DEF IdsAreKnown, Delete, runVars, cleanVars
<1>8. ASSUME NEW s \in Sessions, ReadHeader(s) PROVE IdsAreKnown'
  BY <1>8 DEF StoreTypeOK, IdsAreKnown, ReadHeader, runVars, history
<1>9. ASSUME NEW s \in Sessions, DeleteBroken(s) PROVE IdsAreKnown'
  BY <1>9 DEF IdsAreKnown, DeleteBroken, runVars, history
<1>10. ASSUME NEW s \in Sessions, DeleteOld(s) PROVE IdsAreKnown'
  BY <1>10 DEF IdsAreKnown, DeleteOld, runVars, history
<1>11. ASSUME NEW s \in Sessions, Damage(s) PROVE IdsAreKnown'
  BY <1>11 DEF IdsAreKnown, Damage, runVars, cleanVars
<1>12. CASE List
  BY <1>12 DEF IdsAreKnown, List, runVars, history
<1>13. CASE ReadAll
  BY <1>13 DEF IdsAreKnown, ReadAll, runVars, history
<1>14. CASE CutDate
  BY <1>14 DEF IdsAreKnown, CutDate, runVars, history
<1>15. CASE Cleaned
  BY <1>15 DEF IdsAreKnown, Cleaned, runVars, history
<1>16. CASE Crash
  BY <1>16 DEF IdsAreKnown, Crash
<1>17. CASE UNCHANGED <<file, runVars, listed, broken, headers, known>>
  BY <1>17 DEF IdsAreKnown, runVars
<1> QED BY <1>1, <1>2, <1>3, <1>4, <1>5, <1>6, <1>7, <1>8, <1>9, <1>10, <1>11, <1>12, <1>13,
           <1>14, <1>15, <1>16, <1>17
           DEF StoreNext, RunStep, CleanStep, CleanPhase, Tick, runVars, cleanVars, history

\* The cleaner deletes nothing between its listing and its last read.
LEMMA ListedStep ==
  StoreTypeOK /\ RunsHoldHeaders /\ ListedWereThere /\ PhasesAreApart /\ StoreNext
  => (ListedWereThere /\ PhasesAreApart)'
<1> SUFFICES ASSUME StoreTypeOK, RunsHoldHeaders, ListedWereThere, PhasesAreApart, StoreNext
             PROVE  ListedWereThere' /\ PhasesAreApart'
  OBVIOUS
<1> USE StoreAssumption
<1>1. ASSUME NEW r \in Runs, Truncate(r) PROVE ListedWereThere' /\ PhasesAreApart'
  BY <1>1 DEF ListedWereThere, PhasesAreApart, Truncate, cleanVars
<1>2. ASSUME NEW r \in Runs, Fill(r) PROVE ListedWereThere' /\ PhasesAreApart'
  BY <1>2
     DEF RunsHoldHeaders, ListedWereThere, PhasesAreApart, Fill, cleanVars, history
<1>3. ASSUME NEW s \in Sessions, Delete(s) PROVE ListedWereThere' /\ PhasesAreApart'
  BY <1>3 DEF ListedWereThere, PhasesAreApart, Delete, cleanVars
<1>4. ASSUME NEW s \in Sessions, ReadHeader(s) PROVE ListedWereThere' /\ PhasesAreApart'
  BY <1>4 DEF ListedWereThere, PhasesAreApart, ReadHeader, history
<1>5. ASSUME NEW s \in Sessions, DeleteBroken(s) PROVE ListedWereThere' /\ PhasesAreApart'
  BY <1>5 DEF ListedWereThere, PhasesAreApart, DeleteBroken
<1>6. ASSUME NEW s \in Sessions, DeleteOld(s) PROVE ListedWereThere' /\ PhasesAreApart'
  BY <1>6 DEF ListedWereThere, PhasesAreApart, DeleteOld
<1>7. ASSUME NEW s \in Sessions, Damage(s) PROVE ListedWereThere' /\ PhasesAreApart'
  BY <1>7 DEF ListedWereThere, PhasesAreApart, Damage, cleanVars
<1>8. CASE List
  BY <1>8 DEF ListedWereThere, PhasesAreApart, List
<1>9. CASE ReadAll
  BY <1>9 DEF ListedWereThere, PhasesAreApart, ReadAll
<1>10. CASE CutDate
  BY <1>10 DEF ListedWereThere, PhasesAreApart, CutDate
<1>11. CASE Cleaned
  BY <1>11 DEF ListedWereThere, PhasesAreApart, Cleaned
<1>12. CASE Crash
  BY <1>12 DEF ListedWereThere, PhasesAreApart, Crash
<1>13. CASE UNCHANGED <<file, cpc, listed, removed>>
  BY <1>13 DEF ListedWereThere, PhasesAreApart
<1> QED BY <1>1, <1>2, <1>3, <1>4, <1>5, <1>6, <1>7, <1>8, <1>9, <1>10, <1>11, <1>12, <1>13
           DEF StoreNext, RunStep, CleanStep, CleanPhase, Create, Load, GiveUp, Rest,
               FillFails, Mutex!Unlock, Tick, runVars, cleanVars, history

\* A session that gets its first header: nothing of it was known.
IsNew(s, h) ==
  /\ s \notin known \cup listed' \cup broken' /\ headers'[s] = Nil
  /\ \A g : Has(s, g)' => g = h

\* No step changes the header of a session.
LEMMA HeadersStay ==
  ASSUME StoreTypeOK, RunsHoldHeaders, IdsAreKnown, StoreNext,
         NEW s \in Sessions, NEW h, Has(s, h)'
  PROVE  Has(s, h) \/ IsNew(s, h)
<1> USE StoreAssumption DEF Has, Whole
<1>1. ASSUME NEW r \in Runs, NEW x \in Sessions, Create(r, x) PROVE Has(s, h) \/ IsNew(s, h)
  BY <1>1 DEF StoreTypeOK, IdsAreKnown, IsNew, Create, cleanVars
<1>2. ASSUME NEW r \in Runs, NEW x \in Sessions, Load(r, x) PROVE Has(s, h) \/ IsNew(s, h)
  BY <1>2 DEF StoreTypeOK, Load
<1>3. ASSUME NEW r \in Runs, GiveUp(r) PROVE Has(s, h) \/ IsNew(s, h)
  BY <1>3 DEF StoreTypeOK, GiveUp, Rest
<1>4. ASSUME NEW r \in Runs, Truncate(r) PROVE Has(s, h) \/ IsNew(s, h)
  BY <1>4 DEF Truncate
<1>5. ASSUME NEW r \in Runs, Fill(r) PROVE Has(s, h) \/ IsNew(s, h)
  BY <1>5 DEF StoreTypeOK, Fill, Rest
<1>6. ASSUME NEW r \in Runs, FillFails(r) PROVE Has(s, h) \/ IsNew(s, h)
  BY <1>6 DEF StoreTypeOK, FillFails, Rest
<1>7. CASE Crash
  BY <1>7 DEF Crash
<1>8. CASE UNCHANGED runVars /\ \A x \in Sessions : file'[x] \in {file[x], Absent, Torn}
  BY <1>8 DEF runVars
<1> QED BY <1>1, <1>2, <1>3, <1>4, <1>5, <1>6, <1>7, <1>8
           DEF StoreTypeOK, StoreNext, RunStep, CleanStep, CleanPhase, Delete, ReadHeader,
               DeleteBroken, DeleteOld, Damage, List, ReadAll, CutDate, Cleaned, Tick,
               runVars, cleanVars, history

\* A session has one header.
LEMMA OneHeaderStep ==
  StoreTypeOK /\ RunsHoldHeaders /\ IdsAreKnown /\ OneHeader /\ StoreNext => OneHeader'
BY HeadersStay DEF OneHeader, IsNew

\* What was damaged or deleted by a user stays on record.
LEMMA HistoryGrows == StoreNext => hurt \subseteq hurt' /\ removed \subseteq removed'
BY DEF StoreNext, RunStep, CleanStep, CleanPhase, Create, Load, GiveUp, Truncate, Fill,
       FillFails, Delete, ReadHeader, DeleteBroken, DeleteOld, Damage, List, ReadAll,
       CutDate, Cleaned, Tick, Crash, history

\* What a reader finds: a header that is short, or something that is broken and
\* will stay so.
LEMMA WhatIsRead ==
  ASSUME StoreTypeOK, TornIsHeldOrHurt, OneHeader, ListedWereThere,
         NEW s \in Sessions, ReadHeader(s)
  PROVE  IF Whole(s) /\ ~file[s].long THEN \A h : Has(s, h) => h.updatedAt = file[s].updatedAt
         ELSE s \in hurt \cup removed \/ \A h : Has(s, h) => h.long
<1>1. CASE file[s] = Absent
  BY StoreAssumption, <1>1 DEF ListedWereThere, ReadHeader, Whole
<1>2. CASE file[s] = Torn
  BY StoreAssumption, <1>2 DEF TornIsHeldOrHurt, ReadHeader, Whole
<1>3. CASE Whole(s)
  <2>1. Has(s, file[s])
    BY <1>3 DEF Has
  <2>2. \A h : Has(s, h) => h = file[s]
    BY <2>1 DEF OneHeader
  <2> QED BY <1>3, <2>2
<1> QED BY <1>1, <1>2, <1>3 DEF StoreTypeOK, Files, Whole

\* What the cleaner holds broken, nobody can mend.
LEMMA BrokenStep ==
  ASSUME StoreTypeOK, RunsHoldHeaders, TornIsHeldOrHurt, OneHeader, IdsAreKnown,
         ListedWereThere, BrokenIsBroken, StoreNext
  PROVE  BrokenIsBroken'
<1> USE HistoryGrows, HeadersStay
<1>1. CASE broken' \subseteq broken
  BY <1>1 DEF BrokenIsBroken, IsNew, StoreTypeOK
<1>2. ASSUME NEW s \in Sessions, ReadHeader(s) PROVE BrokenIsBroken'
  <2> SUFFICES ASSUME NEW x \in broken'
               PROVE  x \in hurt' \cup removed' \/ \A h : Has(x, h)' => h.long
    BY DEF BrokenIsBroken
  <2>1. x \in Sessions
    BY <1>2 DEF ReadHeader, StoreTypeOK
  <2>2. x \in hurt \cup removed \/ \A h : Has(x, h) => h.long
    <3>1. CASE x \in broken
      BY <3>1 DEF BrokenIsBroken
    <3>2. CASE x \notin broken
      BY <1>2, <3>2, WhatIsRead DEF ReadHeader
    <3> QED BY <3>1, <3>2
  <2> QED BY <2>1, <2>2 DEF IsNew
<1> QED BY <1>1, <1>2
           DEF StoreNext, RunStep, CleanStep, CleanPhase, Create, Load, GiveUp, Truncate,
               Fill, FillFails, Delete, DeleteBroken, DeleteOld, Damage, List, ReadAll,
               CutDate, Cleaned, Tick, Crash, cleanVars

\* What the cleaner has read stays true, and the cut date only moves on.
LEMMA ReadStep ==
  ASSUME StoreTypeOK, RunsHoldHeaders, TornIsHeldOrHurt, OneHeader, IdsAreKnown,
         ListedWereThere, HeadersAreRead, StoreNext
  PROVE  HeadersAreRead'
<1>0. StoreTypeOK'
  BY StoreTypeStep
<1>1. ASSUME \A s \in Sessions : headers'[s] \in {headers[s], Nil},
             cpc' = "old" => cpc = "old", now <= now'
      PROVE  HeadersAreRead'
  <2> SUFFICES ASSUME NEW s \in Sessions, headers'[s] # Nil
               PROVE  /\ \A h : Has(s, h)' => h.updatedAt = headers'[s]
                      /\ cpc' = "old" => headers'[s] + Retention <= now'
    BY DEF HeadersAreRead
  <2>1. headers'[s] = headers[s] /\ headers[s] # Nil
    BY <1>1
  <2>2. \A h : Has(s, h)' => h.updatedAt = headers'[s]
    BY <2>1, HeadersStay DEF HeadersAreRead, IsNew
  <2>3. headers[s] \in Nat /\ now \in Nat /\ now' \in Nat
    BY <1>0, <2>1 DEF StoreTypeOK, Times
  <2>4. ASSUME cpc' = "old" PROVE headers'[s] + Retention <= now'
    BY StoreAssumption, <1>1, <2>3, <2>4 DEF HeadersAreRead
  <2> QED BY <2>2, <2>4
<1>2. ASSUME NEW x \in Sessions, ReadHeader(x) PROVE HeadersAreRead'
  <2> SUFFICES ASSUME NEW s \in Sessions, headers'[s] # Nil
               PROVE  \A h : Has(s, h)' => h.updatedAt = headers'[s]
    BY <1>2 DEF HeadersAreRead, ReadHeader
  <2>1. \A h : Has(s, h) => h.updatedAt = headers'[s]
    <3>1. CASE headers'[s] = headers[s]
      BY <3>1 DEF HeadersAreRead
    <3>2. CASE headers'[s] # headers[s]
      BY <1>2, <3>2, WhatIsRead DEF ReadHeader, StoreTypeOK
    <3> QED BY <3>1, <3>2
  <2> QED BY <2>1, HeadersStay DEF IsNew
<1>3. CASE CutDate
  <2> SUFFICES ASSUME NEW s \in Sessions, headers'[s] # Nil
               PROVE  /\ \A h : Has(s, h)' => h.updatedAt = headers'[s]
                      /\ headers'[s] + Retention <= now'
    BY DEF HeadersAreRead
  <2>1. headers'[s] = headers[s] /\ headers[s] # Nil /\ headers[s] + Retention <= now /\ now' = now
    BY <1>3 DEF CutDate
  <2>2. \A h : Has(s, h)' => h.updatedAt = headers'[s]
    BY <2>1, HeadersStay DEF HeadersAreRead, IsNew
  <2> QED BY <2>1, <2>2
<1>4. now \in Nat
  BY DEF StoreTypeOK, Times
<1> QED BY <1>1, <1>2, <1>3, <1>4
           DEF StoreTypeOK, StoreNext, RunStep, CleanStep, CleanPhase, Create, Load, GiveUp,
               Truncate, Fill, FillFails, Delete, DeleteBroken, DeleteOld, Damage, List,
               ReadAll, Cleaned, Tick, Crash, cleanVars

\* The invariant holds at the start,
LEMMA StoreInvInit == StoreInit => StoreInv
<1> SUFFICES ASSUME StoreInit PROVE StoreInv
  OBVIOUS
<1> USE StoreAssumption DEF StoreInit
<1>1. StoreTypeOK /\ RunsHoldHeaders /\ HoldersSave /\ TornIsHeldOrHurt
  BY DEF StoreTypeOK, Times, Files, RunsHoldHeaders, HoldersSave, TornIsHeldOrHurt
<1>2. \A s \in Sessions : \A h : ~Has(s, h)
  BY DEF Has, Whole
<1> QED BY <1>1, <1>2
           DEF StoreInv, OneHeader, IdsAreKnown, ListedWereThere, BrokenIsBroken,
               HeadersAreRead, PhasesAreApart

\* every step keeps it,
LEMMA StoreStep == StoreInv /\ [StoreNext]_storeVars => StoreInv'
<1> SUFFICES ASSUME StoreInv, [StoreNext]_storeVars PROVE StoreInv'
  OBVIOUS
<1>1. CASE StoreNext
  BY <1>1, StoreTypeStep, HoldStep, HoldersStep, TornStep, OneHeaderStep, KnownStep, ListedStep,
     BrokenStep, ReadStep DEF StoreInv
<1>2. CASE UNCHANGED storeVars
  <2> USE <1>2 DEF storeVars, runVars, cleanVars, history, Whole, Has
  <2>1. StoreTypeOK' /\ RunsHoldHeaders' /\ HoldersSave' /\ TornIsHeldOrHurt' /\ IdsAreKnown'
    BY DEF StoreInv, StoreTypeOK, RunsHoldHeaders, HoldersSave, TornIsHeldOrHurt, IdsAreKnown
  <2>2. OneHeader' /\ ListedWereThere' /\ PhasesAreApart'
    BY DEF StoreInv, OneHeader, ListedWereThere, PhasesAreApart
  <2>3. BrokenIsBroken' /\ HeadersAreRead'
    BY DEF StoreInv, BrokenIsBroken, HeadersAreRead
  <2> QED BY <2>1, <2>2, <2>3 DEF StoreInv
<1> QED BY <1>1, <1>2

\* and so it holds always.
THEOREM StoreSafe == StoreSpec => []StoreInv
BY StoreInvInit, StoreStep, PTL DEF StoreSpec

\* The session files, their mutexes, the runs and the cleaner keep their types.
THEOREM StoreTypes == StoreSpec => []StoreTypeOK
<1>1. StoreInv => StoreTypeOK
  BY DEF StoreInv
<1> QED BY <1>1, StoreSafe, PTL

\* The cleaner acts on a listing and on headers that it read some steps ago, and
\* still deletes only what is expired, damaged, deleted or too long.
THEOREM TheRestIsSpared == StoreSpec => SparesTheRest
<1>1. ASSUME StoreInv, [StoreNext]_storeVars, NEW s \in Sessions, Whole(s),
             DeleteBroken(s) \/ DeleteOld(s)
      PROVE  Expired(s) \/ s \in hurt \cup removed \/ file[s].long
  <2>1. Has(s, file[s])
    BY <1>1 DEF Has
  <2>2. CASE DeleteBroken(s)
    BY <2>1, <2>2, <1>1 DEF DeleteBroken, StoreInv, BrokenIsBroken
  <2>3. CASE DeleteOld(s)
    BY <2>1, <2>3, <1>1 DEF DeleteOld, StoreInv, HeadersAreRead, Expired
  <2> QED BY <1>1, <2>2, <2>3
<1>2. StoreInv /\ [StoreNext]_storeVars
      => [\A s \in Sessions : Whole(s) /\ (DeleteBroken(s) \/ DeleteOld(s))
            => Expired(s) \/ s \in hurt \cup removed \/ file[s].long]_storeVars
  BY <1>1
<1> QED BY <1>2, StoreSafe, PTL DEF StoreSpec, SparesTheRest

==============================================================================
