------------------------- MODULE TaskSchedulerProofs -------------------------
(***************************************************************************)
(* Theorems about TaskScheduler, for any names and bounds: a task has one  *)
(* loop at most and it is the registered one, a one-shot task is executed  *)
(* once, and what runs is what the file says.                              *)
(***************************************************************************)
EXTENDS TaskScheduler, TLAPS

(***************************************************************************)
(* The inductive invariant                                                 *)
(***************************************************************************)

\* A goroutine has the configuration it was started with until it ends.
ConfiguredGoroutines == \A g \in Slots : gor[g].st # "free" => gor[g].cfg # None

\* Before the boot and after a crash nothing is left of the process, and a crash has
\* granted every one-shot task another execution.
Asleep ==
  ~up => /\ mu = None /\ reload = "idle" /\ rename = None
         /\ \A n \in Names : runtimes[n] = None
         /\ \A g \in Slots : gor[g] = Idle
         /\ \A x \in DOMAIN ran : ran[x] <= crashes

\* The sentinel drops events from the one that arms Reload until it is over.
DropsWhileReloading == drop <=> reload # "idle"

\* The only registered runtime with a cancelled context is the one Reload waits for,
\* and that is outdated.
Cancelled(n) == runtimes[n] # None /\ gor[runtimes[n]].cancelled

CancelledIsAwaited ==
  /\ \A n \in Names :
       Cancelled(n) => reload = "await" /\ snapshot[n] # gor[runtimes[n]].cfg
  /\ \A n, m \in Names : Cancelled(n) /\ Cancelled(m) => n = m

\* All settings stem from an edit that was made, and no others were executed.
Known(c) == c # None => c.ver <= edits

VersionsKnown ==
  /\ \A n \in Names : Known(file[n]) /\ Known(snapshot[n])
  /\ \A g \in Slots : Known(gor[g].cfg)
  /\ rename # None => rename[2].ver <= edits
  /\ \A n \in Names, v \in 0..MaxEdits : v > edits => ran[<<n, v>>] = 0

\* What Patch has still to save under the new name, nobody has seen under that name.
Other(c, d) == c # None => c.ver # d.ver

RenameIsNew ==
  rename # None =>
    LET n == rename[1]
        c == rename[2]
    IN  /\ Other(file[n], c) /\ Other(snapshot[n], c)
        /\ \A g \in Slots : Task(g) = n => Other(gor[g].cfg, c)
        /\ ran[<<n, c.ver>>] = 0

\* Reload has read the file and not yet let go of the mutex.
Applying == reload \in {"lock", "stop", "await", "start"}

\* A Reload that has read an older file than the one before it is out of the question:
\* settings that run and that the file has are those it has read.
NewestWins ==
  \A n \in Names :
    Applying /\ Active(file[n]) /\ runtimes[n] # None /\ gor[runtimes[n]].cfg = file[n]
      => snapshot[n] = file[n]

\* A one-shot task was executed with these settings, and no crash gives it a second time.
Spent(n, c) == c # None /\ c.oneshot /\ ran[<<n, c.ver>>] > crashes

\* Whoever still has such settings as active ones finds them registered: this is why the
\* runtime of a one-shot task stays registered when its loop is over.
StaysRegistered(n, c) ==
  Active(c) /\ Spent(n, c) => runtimes[n] # None /\ gor[runtimes[n]].cfg = c

SpentStaysRegistered ==
  \A n \in Names : StaysRegistered(n, file[n]) /\ StaysRegistered(n, snapshot[n])

\* No loop waits for its schedule with such settings.
SpentWaitsNoMore ==
  \A g \in Slots : gor[g].st = "waiting" => ~Spent(Task(g), gor[g].cfg)

\* When nothing was missed and no event is on its way, Reload works on what the file says,
\* and what runs when it is over is what the file says.
FollowsFile ==
  /\ reload = "start" => Outdated = {}
  /\ up /\ missed = "nothing" /\ events = 0 =>
       /\ reload \in {"idle", "done"} => Applied
       /\ Applying => snapshot = file

TaskInv ==
  /\ TypeOK /\ ConfiguredGoroutines /\ EveryLoopRegistered /\ Asleep
  /\ DropsWhileReloading /\ CancelledIsAwaited /\ VersionsKnown /\ RenameIsNew
  /\ NewestWins /\ SpentStaysRegistered /\ SpentWaitsNoMore /\ OneshotRunsOnce
  /\ FollowsFile

-----------------------------------------------------------------------------
(***************************************************************************)
(* The invariant is preserved: one lemma for each action                   *)
(***************************************************************************)

\* A slot is a task and a number, and None is neither a slot nor a name.
LEMMA Shapes ==
  /\ None \notin Slots /\ None \notin Names
  /\ \A n \in Names, i \in 0..MaxEdits : <<n, i>> \in Slots /\ Task(<<n, i>>) = n
  /\ \A g \in Slots : Task(g) \in Names /\ g[2] \in 0..MaxEdits /\ g = <<Task(g), g[2]>>
BY SchedulerAssumption DEF Slots, Task

\* Numbers are numbers.
LEMMA Numbers ==
  ASSUME TypeOK
  PROVE  /\ edits \in Nat /\ crashes \in Nat /\ MaxEdits \in Nat
         /\ DOMAIN ran = Names \X (0..MaxEdits)
         /\ \A x \in DOMAIN ran : ran[x] \in Nat
         /\ \A c \in Config : c.ver \in Nat /\ c.ver \in 0..MaxEdits
BY SchedulerAssumption DEF TypeOK, Config

\* Whatever has settings has some that a user gave.
LEMMA Settings ==
  ASSUME TypeOK
  PROVE  /\ \A n \in Names : /\ file[n] # None => file[n] \in Config
                             /\ snapshot[n] # None => snapshot[n] \in Config
         /\ \A g \in Slots : gor[g].cfg # None => gor[g].cfg \in Config
         /\ rename # None => rename[1] \in Names /\ rename[2] \in Config
<1>1. \A g \in Slots : gor[g].cfg \in Entry
  BY DEF TypeOK
<1> QED BY <1>1 DEF TypeOK, Entry

\* The active settings of a one-shot task are known by the edit they stem from.
LEMMA SameSettings ==
  ASSUME NEW c \in Config, NEW d \in Config, c.ver = d.ver,
         c.active, d.active, c.oneshot, d.oneshot
  PROVE  c = d
BY DEF Config

\* When no settings were executed more than k times, these were not.
LEMMA NotSpent ==
  ASSUME TypeOK, NEW k \in Nat, \A x \in DOMAIN ran : ran[x] <= k,
         NEW n \in Names, NEW c \in Config
  PROVE  ~(ran[<<n, c.ver>>] > k)
<1>1. <<n, c.ver>> \in DOMAIN ran /\ ran[<<n, c.ver>>] \in Nat
  BY DEF TypeOK, Config
<1> QED BY <1>1

\* A task to be saved is not None.
LEMMA RenameIsNoNone ==
  ASSUME NEW n \in Names, NEW c \in Config
  PROVE  <<n, c>> # None
BY SchedulerAssumption

\* What a goroutine is known by.
Goroutines == [cfg : Entry, st : States, cancelled : BOOLEAN]

\* A registered goroutine is one of the task's own.
LEMMA RegisteredIsOwn ==
  ASSUME TypeOK, NEW n \in Names, runtimes[n] # None
  PROVE  runtimes[n] \in Slots /\ Task(runtimes[n]) = n
         /\ gor[runtimes[n]].cfg # None /\ gor[runtimes[n]].cfg.active
BY DEF TypeOK, Task, Active

\* A goroutine that goes on keeps its configuration and its context.
LEMMA GoroutineGoesOn ==
  ASSUME TypeOK, NEW g \in Slots, NEW st \in States, gor' = [gor EXCEPT ![g].st = st]
  PROVE  /\ gor' \in [Slots -> Goroutines]
         /\ \A h \in Slots : /\ gor'[h].cfg = gor[h].cfg
                             /\ gor'[h].cancelled = gor[h].cancelled
                             /\ gor'[h].st = IF h = g THEN st ELSE gor[h].st
<1>1. gor \in [Slots -> Goroutines]
  BY DEF TypeOK, Goroutines
<1> QED BY <1>1 DEF Goroutines

\* Every active task of the file is started.
LEMMA InvBoot ==
  ASSUME TaskInv,
         Boot
  PROVE  TaskInv'
<1>0. /\ TypeOK /\ ConfiguredGoroutines /\ EveryLoopRegistered /\ Asleep
      /\ DropsWhileReloading /\ CancelledIsAwaited /\ VersionsKnown /\ RenameIsNew
      /\ NewestWins /\ SpentStaysRegistered /\ SpentWaitsNoMore /\ OneshotRunsOnce
      /\ FollowsFile
  BY DEF TaskInv
<1>e. /\ \A n \in Names : /\ file[n] # None => file[n] \in Config
                          /\ snapshot[n] # None => snapshot[n] \in Config
      /\ \A h \in Slots : gor[h].cfg # None => gor[h].cfg \in Config
      /\ rename # None => rename[1] \in Names /\ rename[2] \in Config
      /\ \A c \in Config : c.ver \in Nat
  BY <1>0, Settings, Numbers
<1>n. /\ edits \in Nat /\ crashes \in Nat /\ MaxEdits \in Nat
      /\ DOMAIN ran = Names \X (0..MaxEdits) /\ \A x \in DOMAIN ran : ran[x] \in Nat
  BY <1>0, Numbers
<1>a. /\ ~up /\ up' /\ missed' = "nothing"
      /\ gor' = [h \in Slots |-> IF Active(file[Task(h)]) /\ h[2] = 0
                                 THEN Started(file[Task(h)]) ELSE Idle]
      /\ runtimes' = [n \in Names |-> IF Active(file[n]) THEN <<n, 0>> ELSE None]
      /\ UNCHANGED <<file, mu, reload, snapshot, rename, drop, events, edits, crashes, ran>>
  BY DEF Boot
<1>b. /\ mu = None /\ reload = "idle" /\ rename = None /\ \A x \in DOMAIN ran : ran[x] <= crashes
  BY <1>0, <1>a DEF Asleep
<1>s. \A c \in Config : /\ Started(c) \in Goroutines /\ Started(c).cfg = c
                        /\ Started(c).st = "waiting" /\ ~Started(c).cancelled
  BY DEF Started, Goroutines, Entry, States
<1>g. \A h \in Slots : \/ gor'[h] = Idle
                       \/ /\ gor'[h] \in Goroutines /\ gor'[h].cfg = file[Task(h)]
                          /\ gor'[h].st = "waiting" /\ ~gor'[h].cancelled
                          /\ file[Task(h)] # None /\ runtimes'[Task(h)] = h
  <2> TAKE h \in Slots
  <2>1. Task(h) \in Names /\ h = <<Task(h), h[2]>>
    BY Shapes
  <2>2. gor'[h] = IF Active(file[Task(h)]) /\ h[2] = 0 THEN Started(file[Task(h)]) ELSE Idle
    BY <1>a
  <2>3. CASE Active(file[Task(h)]) /\ h[2] = 0
    <3>1. file[Task(h)] \in Config /\ file[Task(h)] # None /\ runtimes'[Task(h)] = h
      BY <1>a, <1>e, <2>1, <2>3 DEF Active
    <3> QED BY <1>s, <2>2, <2>3, <3>1
  <2> QED BY <2>2, <2>3
<1>r. \A n \in Names :
        \/ runtimes'[n] = None /\ ~Active(file[n])
        \/ /\ runtimes'[n] \in Slots /\ Task(runtimes'[n]) = n /\ runtimes'[n] # None
           /\ Active(file[n]) /\ gor'[runtimes'[n]].cfg = file[n]
           /\ ~gor'[runtimes'[n]].cancelled
  <2> TAKE n \in Names
  <2>1. <<n, 0>> \in Slots /\ Task(<<n, 0>>) = n /\ <<n, 0>> # None /\ <<n, 0>>[2] = 0
    BY <1>n, Shapes
  <2>2. CASE Active(file[n])
    <3>1. file[n] \in Config /\ runtimes'[n] = <<n, 0>> /\ gor'[<<n, 0>>] = Started(file[n])
      BY <1>a, <1>e, <2>1, <2>2 DEF Active
    <3> QED BY <1>s, <2>1, <2>2, <3>1
  <2> QED BY <1>a, <2>2
<1>1. TypeOK'
  <2>1. gor' \in [Slots -> Goroutines]
    <3>1. Idle \in Goroutines
      BY DEF Idle, Goroutines, Entry, States
    <3> QED BY <1>a, <1>g, <3>1
  <2>2. runtimes' \in [Names -> Slots \cup {None}]
    BY <1>a, <1>n, Shapes
  <2>3. \A n \in Names : runtimes'[n] # None => runtimes'[n][1] = n /\ Active(gor'[runtimes'[n]].cfg)
    BY <1>r DEF Task, Active
  <2> QED BY <1>0, <1>a, <2>1, <2>2, <2>3 DEF TypeOK, Goroutines
<1>2. ConfiguredGoroutines'
  BY <1>g DEF ConfiguredGoroutines, Idle
<1>3. EveryLoopRegistered'
  BY <1>g DEF EveryLoopRegistered, Live, Idle
<1>4. Asleep'
  BY <1>a DEF Asleep
<1>5. CancelledIsAwaited'
  BY <1>r DEF CancelledIsAwaited, Cancelled
<1>6. VersionsKnown'
  <2>1. \A n \in Names : Known(file[n])
    BY <1>0 DEF VersionsKnown
  <2>2. \A h \in Slots : gor'[h].cfg = None \/ Known(gor'[h].cfg)
    BY <1>g, <2>1, Shapes DEF Idle
  <2> QED BY <1>0, <1>a, <2>2 DEF VersionsKnown, Known
<1>7. RenameIsNew'
  BY <1>a, <1>b DEF RenameIsNew
<1>8. NewestWins'
  BY <1>a, <1>b DEF NewestWins, Applying
<1>9. SpentStaysRegistered'
  <2>1. ASSUME NEW n \in Names
        PROVE  StaysRegistered(n, file[n])' /\ StaysRegistered(n, snapshot[n])'
    <3>1. \A c \in Config : ~(ran[<<n, c.ver>>] > crashes)
      BY <1>0, <1>b, <1>n, NotSpent
    <3> QED BY <1>a, <1>e, <3>1 DEF StaysRegistered, Spent
  <2> QED BY <2>1 DEF SpentStaysRegistered
<1>10. SpentWaitsNoMore'
  <2>1. \A n \in Names, c \in Config : ~(ran[<<n, c.ver>>] > crashes)
    BY <1>0, <1>b, <1>n, NotSpent
  <2>2. \A h \in Slots : gor'[h].st = "waiting" => Task(h) \in Names /\ gor'[h].cfg \in Config
    BY <1>e, <1>g, Shapes DEF Idle
  <2> QED BY <1>a, <2>1, <2>2 DEF SpentWaitsNoMore, Spent
<1>11. FollowsFile'
  <2>1. Applied'
    BY <1>a, <1>r DEF Applied
  <2> QED BY <1>a, <1>b, <2>1 DEF FollowsFile, Applying
<1>12. DropsWhileReloading' /\ OneshotRunsOnce'
  BY <1>0 DEF Boot, DropsWhileReloading, OneshotRunsOnce
<1> QED BY <1>1, <1>2, <1>3, <1>4, <1>5, <1>6, <1>7, <1>8, <1>9, <1>10, <1>11, <1>12 DEF TaskInv

\* A crash leaves the file, and grants every one-shot task another execution.
LEMMA InvCrash ==
  ASSUME TaskInv,
         Crash
  PROVE  TaskInv'
<1>0. /\ TypeOK /\ ConfiguredGoroutines /\ EveryLoopRegistered /\ Asleep
      /\ DropsWhileReloading /\ CancelledIsAwaited /\ VersionsKnown /\ RenameIsNew
      /\ NewestWins /\ SpentStaysRegistered /\ SpentWaitsNoMore /\ OneshotRunsOnce
      /\ FollowsFile
  BY DEF TaskInv
<1>e. /\ \A n \in Names : /\ file[n] # None => file[n] \in Config
                          /\ snapshot[n] # None => snapshot[n] \in Config
      /\ \A h \in Slots : gor[h].cfg # None => gor[h].cfg \in Config
      /\ rename # None => rename[1] \in Names /\ rename[2] \in Config
      /\ \A c \in Config : c.ver \in Nat
  BY <1>0, Settings, Numbers
<1>n. /\ edits \in Nat /\ crashes \in Nat /\ MaxEdits \in Nat
      /\ DOMAIN ran = Names \X (0..MaxEdits) /\ \A x \in DOMAIN ran : ran[x] \in Nat
  BY <1>0, Numbers
<1>b. \A x \in DOMAIN ran : ran[x] <= crashes + 1
  BY <1>0, <1>n DEF OneshotRunsOnce
<1>1. TypeOK'
  <2>1. gor' \in [Slots -> Goroutines]
    BY DEF Crash, Idle, Goroutines, Entry, States
  <2>2. crashes' \in 0..MaxCrashes
    BY <1>0, SchedulerAssumption DEF Crash, TypeOK
  <2>3. /\ mu' = None /\ reload' = "idle" /\ rename' = None /\ events' = 0 /\ drop' = FALSE
        /\ up' = FALSE
        /\ runtimes' = [n \in Names |-> None] /\ snapshot' = [n \in Names |-> None]
        /\ UNCHANGED <<file, edits, missed, ran>>
    BY <1>0 DEF Crash, TypeOK
  <2>4. /\ file' \in [Names -> Entry] /\ snapshot' \in [Names -> Entry]
        /\ runtimes' \in [Names -> Slots \cup {None}] /\ \A n \in Names : runtimes'[n] = None
        /\ edits' \in 0..MaxEdits /\ missed' \in {"nothing", "event", "file"}
        /\ ran' \in [Names \X (0..MaxEdits) -> Nat]
    BY <1>0, <2>3 DEF TypeOK, Entry
  <2>5. mu' # "reload" /\ mu' # "rename" /\ reload' \in ReloadPCs
    BY <2>3, SchedulerAssumption DEF ReloadPCs
  <2> QED BY <2>1, <2>2, <2>3, <2>4, <2>5 DEF TypeOK, Goroutines
<1>2. ConfiguredGoroutines'
  BY DEF Crash, Idle, ConfiguredGoroutines
<1>3. EveryLoopRegistered'
  BY DEF Crash, Idle, EveryLoopRegistered, Live
<1>4. Asleep'
  BY <1>b DEF Crash, Asleep
<1>5. DropsWhileReloading'
  BY DEF Crash, DropsWhileReloading
<1>6. CancelledIsAwaited'
  BY DEF Crash, CancelledIsAwaited, Cancelled
<1>7. VersionsKnown'
  BY <1>0 DEF Crash, Idle, VersionsKnown, Known
<1>8. RenameIsNew'
  BY DEF Crash, RenameIsNew
<1>9. NewestWins'
  BY DEF Crash, NewestWins
<1>10. SpentStaysRegistered'
  <2>1. ASSUME NEW n \in Names
        PROVE  StaysRegistered(n, file[n])' /\ StaysRegistered(n, snapshot[n])'
    <3>1. \A c \in Config : ~(ran[<<n, c.ver>>] > crashes + 1)
      BY <1>0, <1>b, <1>n, NotSpent
    <3>2. crashes' = crashes + 1 /\ file' = file /\ ran' = ran /\ snapshot'[n] = None
      BY DEF Crash
    <3> QED BY <1>e, <3>1, <3>2 DEF StaysRegistered, Spent
  <2> QED BY <2>1 DEF SpentStaysRegistered
<1>11. SpentWaitsNoMore'
  BY DEF Crash, Idle, SpentWaitsNoMore
<1>12. OneshotRunsOnce'
  BY <1>0 DEF Crash, OneshotRunsOnce, TypeOK
<1>13. FollowsFile'
  BY DEF Crash, FollowsFile
<1> QED BY <1>1, <1>2, <1>3, <1>4, <1>5, <1>6, <1>7, <1>8, <1>9, <1>10, <1>11, <1>12, <1>13
           DEF TaskInv

\* Add, Patch, Delete and an edit of the file by hand write settings that nobody has seen yet.
LEMMA InvEdit ==
  ASSUME TaskInv, NEW n \in Names, NEW e \in NewConfig \cup {None},
         Edit, Write(n, e), UNCHANGED <<up, memVars, crashes, missed, ran>>
  PROVE  TaskInv'
<1>0. /\ TypeOK /\ ConfiguredGoroutines /\ EveryLoopRegistered /\ Asleep
      /\ DropsWhileReloading /\ CancelledIsAwaited /\ VersionsKnown /\ RenameIsNew
      /\ NewestWins /\ SpentStaysRegistered /\ SpentWaitsNoMore /\ OneshotRunsOnce
      /\ FollowsFile
  BY DEF TaskInv
<1>e. /\ \A m \in Names : /\ file[m] # None => file[m] \in Config
                          /\ snapshot[m] # None => snapshot[m] \in Config
      /\ \A h \in Slots : gor[h].cfg # None => gor[h].cfg \in Config
      /\ rename # None => rename[1] \in Names /\ rename[2] \in Config
      /\ \A c \in Config : c.ver \in Nat
  BY <1>0, Settings, Numbers
<1>n. /\ edits \in Nat /\ crashes \in Nat /\ MaxEdits \in Nat
      /\ DOMAIN ran = Names \X (0..MaxEdits) /\ \A x \in DOMAIN ran : ran[x] \in Nat
  BY <1>0, Numbers
<1>r. \A m \in Names : runtimes[m] # None => runtimes[m] \in Slots /\ Task(runtimes[m]) = m
  BY <1>0, RegisteredIsOwn
<1>c. e = None \/ (e \in Config /\ e.ver = edits + 1 /\ edits + 1 \in 0..MaxEdits)
  BY <1>n DEF Edit, NewConfig, Config
<1>f. /\ file' \in [Names -> Entry] /\ events' = events + 1 /\ events' \in Nat
      /\ \A m \in Names : file'[m] = IF m = n THEN e ELSE file[m]
      /\ edits' = edits + 1 /\ edits' \in 0..MaxEdits /\ edits < MaxEdits
  <2>1. file \in [Names -> Entry] /\ events \in Nat /\ edits \in 0..MaxEdits
    BY <1>0 DEF TypeOK
  <2>2. e \in Entry
    BY <1>c DEF Entry
  <2> QED BY <1>n, <2>1, <2>2 DEF Edit, Write, Edit
<1>k. UNCHANGED <<up, mu, runtimes, gor, reload, snapshot, rename, drop, crashes, missed, ran>>
  BY DEF memVars
<1>z. \A m \in Names, v \in 0..MaxEdits : v > edits => ran[<<m, v>>] = 0
  BY <1>0 DEF VersionsKnown
<1>1. TypeOK'
  BY <1>0, <1>f, <1>k DEF TypeOK
<1>2. VersionsKnown'
  <2>1. \A m \in Names : Known(file[m]) /\ Known(snapshot[m])
    BY <1>0 DEF VersionsKnown
  <2>2. \A m \in Names : file'[m] # None => file'[m].ver <= edits + 1
    BY <1>c, <1>e, <1>f, <1>n, <2>1 DEF Known
  <2>3. \A m \in Names : snapshot[m] # None => snapshot[m].ver <= edits + 1
    BY <1>e, <1>n, <2>1 DEF Known
  <2>4. \A g \in Slots : gor[g].cfg # None => gor[g].cfg.ver <= edits + 1
    BY <1>0, <1>e, <1>n DEF VersionsKnown, Known
  <2>5. rename # None => rename[2].ver <= edits + 1
    BY <1>0, <1>e, <1>n DEF VersionsKnown
  <2>6. \A m \in Names, v \in 0..MaxEdits : v > edits + 1 => ran[<<m, v>>] = 0
    BY <1>n, <1>z
  <2> QED BY <1>f, <1>k, <2>2, <2>3, <2>4, <2>5, <2>6 DEF VersionsKnown, Known
<1>3. RenameIsNew'
  <2> SUFFICES ASSUME rename # None
               PROVE  /\ Other(file'[rename[1]], rename[2]) /\ Other(snapshot[rename[1]], rename[2])
                      /\ \A h \in Slots : Task(h) = rename[1] => Other(gor[h].cfg, rename[2])
                      /\ ran[<<rename[1], rename[2].ver>>] = 0
    BY <1>k DEF RenameIsNew, Other
  <2>1. rename[1] \in Names /\ rename[2].ver \in Nat /\ rename[2].ver <= edits
    BY <1>0, <1>e DEF VersionsKnown
  <2>2. Other(file'[rename[1]], rename[2])
    BY <1>0, <1>c, <1>f, <1>n, <2>1 DEF RenameIsNew, Other
  <2> QED BY <1>0, <2>2 DEF RenameIsNew, Other
<1>4. NewestWins'
  <2>1. ASSUME NEW m \in Names, runtimes[m] # None, Active(file'[m]), gor[runtimes[m]].cfg = file'[m]
        PROVE  file'[m] = file[m]
    <3>1. /\ gor[runtimes[m]].cfg # None /\ gor[runtimes[m]].cfg.ver \in Nat
          /\ gor[runtimes[m]].cfg.ver <= edits
      BY <1>0, <1>e, <1>r, <2>1 DEF VersionsKnown, Known, Active
    <3> QED BY <1>c, <1>f, <1>n, <2>1, <3>1
  <2> QED BY <1>0, <1>k, <2>1 DEF NewestWins, Applying
<1>5. SpentStaysRegistered'
  <2>1. ASSUME NEW m \in Names
        PROVE  StaysRegistered(m, file[m])' /\ StaysRegistered(m, snapshot[m])'
    <3>1. StaysRegistered(m, file[m]) /\ StaysRegistered(m, snapshot[m])
      BY <1>0 DEF SpentStaysRegistered
    <3>2. e # None => ran[<<m, e.ver>>] = 0
      BY <1>c, <1>n, <1>z
    <3> QED BY <1>f, <1>k, <1>n, <3>1, <3>2 DEF StaysRegistered, Spent
  <2> QED BY <2>1 DEF SpentStaysRegistered
<1>6. FollowsFile'
  <2>1. events' # 0
    BY <1>0, <1>f DEF TypeOK
  <2> QED BY <1>0, <1>k, <2>1 DEF FollowsFile, Outdated
<1>7. /\ ConfiguredGoroutines' /\ EveryLoopRegistered' /\ Asleep' /\ DropsWhileReloading'
      /\ CancelledIsAwaited' /\ SpentWaitsNoMore' /\ OneshotRunsOnce'
  BY <1>0
     DEF memVars, ConfiguredGoroutines, EveryLoopRegistered, Live, Asleep, DropsWhileReloading,
         CancelledIsAwaited, Cancelled, SpentWaitsNoMore, Spent, OneshotRunsOnce
<1> QED BY <1>1, <1>2, <1>3, <1>4, <1>5, <1>6, <1>7 DEF TaskInv

\* The settings that Patch has still to save under the new name are new.
LEMMA InvPatchName ==
  ASSUME TaskInv, NEW n \in Names, NEW new \in Names,
         PatchName(n, new)
  PROVE  TaskInv'
<1>0. /\ TypeOK /\ ConfiguredGoroutines /\ EveryLoopRegistered /\ Asleep
      /\ DropsWhileReloading /\ CancelledIsAwaited /\ VersionsKnown /\ RenameIsNew
      /\ NewestWins /\ SpentStaysRegistered /\ SpentWaitsNoMore /\ OneshotRunsOnce
      /\ FollowsFile
  BY DEF TaskInv
<1>e. /\ \A m \in Names : /\ file[m] # None => file[m] \in Config
                          /\ snapshot[m] # None => snapshot[m] \in Config
      /\ \A h \in Slots : gor[h].cfg # None => gor[h].cfg \in Config
      /\ rename # None => rename[1] \in Names /\ rename[2] \in Config
      /\ \A c \in Config : c.ver \in Nat
  BY <1>0, Settings, Numbers
<1>n. /\ edits \in Nat /\ crashes \in Nat /\ MaxEdits \in Nat
      /\ DOMAIN ran = Names \X (0..MaxEdits) /\ \A x \in DOMAIN ran : ran[x] \in Nat
  BY <1>0, Numbers
<1>b. PICK c \in NewConfig :
        /\ mu = None /\ n # new /\ mu' = "rename" /\ rename' = <<new, c>> /\ edits < MaxEdits
        /\ edits' = edits + 1 /\ file' = [file EXCEPT ![n] = None] /\ events' = events + 1 /\ up
  BY DEF PatchName, Edit, Write
<1>c. c \in Config /\ c.ver = edits + 1 /\ edits + 1 \in 0..MaxEdits
  BY <1>b, <1>n DEF NewConfig, Config
<1>f. /\ file' \in [Names -> Entry] /\ events' \in Nat
      /\ \A m \in Names : file'[m] = IF m = n THEN None ELSE file[m]
  <2>1. file \in [Names -> Entry] /\ events \in Nat
    BY <1>0 DEF TypeOK
  <2>2. None \in Entry
    BY DEF Entry
  <2> QED BY <1>b, <2>1, <2>2
<1>k. UNCHANGED <<up, runtimes, gor, reload, snapshot, drop, crashes, missed, ran>>
  BY DEF PatchName
<1>z. \A m \in Names, v \in 0..MaxEdits : v > edits => ran[<<m, v>>] = 0
  BY <1>0 DEF VersionsKnown
<1>o. /\ \A m \in Names : Known(file'[m]) /\ Known(snapshot[m])
      /\ \A g \in Slots : Known(gor[g].cfg)
  BY <1>0, <1>f DEF VersionsKnown, Known
<1>1. TypeOK'
  <2>1. rename' \in (Names \X Config) \cup {None} /\ rename' # None
    BY <1>b, <1>c, SchedulerAssumption
  <2>2. /\ mu' \in {"reload", "rename", None} /\ mu' # "reload" /\ mu' = "rename"
        /\ reload \notin {"stop", "await", "start"}
    BY <1>0, <1>b, SchedulerAssumption DEF TypeOK
  <2> QED BY <1>0, <1>b, <1>c, <1>f, <1>k, <2>1, <2>2 DEF TypeOK
<1>2. Asleep'
  BY <1>b, <1>k DEF Asleep
<1>3. VersionsKnown'
  <2>1. ASSUME NEW d, d = None \/ d \in Config, Known(d) PROVE d # None => d.ver <= edits + 1
    BY <1>e, <1>n, <2>1 DEF Known
  <2>2. \A m \in Names : /\ file'[m] # None => file'[m].ver <= edits + 1
                         /\ snapshot[m] # None => snapshot[m].ver <= edits + 1
    BY <1>e, <1>f, <1>o, <2>1
  <2>3. \A g \in Slots : gor[g].cfg # None => gor[g].cfg.ver <= edits + 1
    BY <1>e, <1>o, <2>1
  <2>4. rename'[2].ver <= edits + 1
    BY <1>b, <1>c, <1>n
  <2>5. \A m \in Names, v \in 0..MaxEdits : v > edits + 1 => ran[<<m, v>>] = 0
    BY <1>n, <1>z
  <2> QED BY <1>b, <1>k, <2>2, <2>3, <2>4, <2>5 DEF VersionsKnown, Known
<1>4. RenameIsNew'
  <2>1. ASSUME NEW d, d = None \/ d \in Config, Known(d) PROVE Other(d, c)
    BY <1>c, <1>n, <2>1 DEF Known, Other
  <2>2. Other(file'[new], c) /\ Other(snapshot[new], c)
    BY <1>e, <1>f, <1>o, <2>1
  <2>3. \A g \in Slots : Other(gor[g].cfg, c)
    BY <1>e, <1>o, <2>1
  <2>4. ran[<<new, c.ver>>] = 0
    BY <1>c, <1>n, <1>z
  <2> QED BY <1>b, <1>k, <2>2, <2>3, <2>4 DEF RenameIsNew
<1>5. NewestWins'
  BY <1>0, <1>f, <1>k DEF NewestWins, Applying, Active
<1>6. SpentStaysRegistered'
  <2>1. ASSUME NEW m \in Names
        PROVE  StaysRegistered(m, file[m])' /\ StaysRegistered(m, snapshot[m])'
    <3>1. StaysRegistered(m, file[m]) /\ StaysRegistered(m, snapshot[m])
      BY <1>0 DEF SpentStaysRegistered
    <3> QED BY <1>f, <1>k, <3>1 DEF StaysRegistered, Spent
  <2> QED BY <2>1 DEF SpentStaysRegistered
<1>7. FollowsFile'
  <2>1. events' # 0
    BY <1>0, <1>b DEF TypeOK
  <2> QED BY <1>0, <1>k, <2>1 DEF FollowsFile, Outdated
<1>8. /\ ConfiguredGoroutines' /\ EveryLoopRegistered' /\ DropsWhileReloading'
      /\ CancelledIsAwaited' /\ SpentWaitsNoMore' /\ OneshotRunsOnce'
  BY <1>0
     DEF PatchName, ConfiguredGoroutines, EveryLoopRegistered, Live, DropsWhileReloading,
         CancelledIsAwaited, Cancelled, SpentWaitsNoMore, Spent, OneshotRunsOnce
<1> QED BY <1>1, <1>2, <1>3, <1>4, <1>5, <1>6, <1>7, <1>8 DEF TaskInv

\* They are saved, or lost.
LEMMA InvPatchNameSave ==
  ASSUME TaskInv,
         PatchNameSave
  PROVE  TaskInv'
<1>0. /\ TypeOK /\ ConfiguredGoroutines /\ EveryLoopRegistered /\ Asleep
      /\ DropsWhileReloading /\ CancelledIsAwaited /\ VersionsKnown /\ RenameIsNew
      /\ NewestWins /\ SpentStaysRegistered /\ SpentWaitsNoMore /\ OneshotRunsOnce
      /\ FollowsFile
  BY DEF TaskInv
<1>e. /\ \A n \in Names : /\ file[n] # None => file[n] \in Config
                          /\ snapshot[n] # None => snapshot[n] \in Config
      /\ \A h \in Slots : gor[h].cfg # None => gor[h].cfg \in Config
      /\ rename # None => rename[1] \in Names /\ rename[2] \in Config
      /\ \A c \in Config : c.ver \in Nat
  BY <1>0, Settings, Numbers
<1>r. \A n \in Names : runtimes[n] # None => runtimes[n] \in Slots /\ Task(runtimes[n]) = n
  BY <1>0, RegisteredIsOwn
<1>b. /\ mu = "rename" /\ mu' = None /\ rename # None /\ rename' = None
      /\ \/ file' = [file EXCEPT ![rename[1]] = rename[2]] /\ events' = events + 1
         \/ file' = file /\ events' = events
  BY <1>0 DEF PatchNameSave, Write, TypeOK
<1>f. /\ file' \in [Names -> Entry] /\ events' \in Nat
      /\ \A m \in Names : file'[m] = file[m] \/ (m = rename[1] /\ file'[m] = rename[2])
      /\ events' = 0 => file' = file /\ events = 0
  <2>1. file \in [Names -> Entry] /\ events \in Nat
    BY <1>0 DEF TypeOK
  <2>2. rename[2] \in Entry
    BY <1>b, <1>e DEF Entry
  <2>3. CASE file' = [file EXCEPT ![rename[1]] = rename[2]] /\ events' = events + 1
    <3>1. file' \in [Names -> Entry] /\ \A m \in Names : m # rename[1] => file'[m] = file[m]
      BY <2>1, <2>2, <2>3
    <3>2. rename[1] \in Names /\ file'[rename[1]] = rename[2]
      BY <1>b, <1>e, <2>1, <2>3
    <3>3. events' \in Nat /\ events' # 0
      BY <2>1, <2>3
    <3> QED BY <3>1, <3>2, <3>3
  <2>4. CASE file' = file /\ events' = events
    BY <2>1, <2>4
  <2> QED BY <1>b, <2>3, <2>4
<1>k. UNCHANGED <<up, runtimes, gor, reload, snapshot, drop, edits, crashes, missed, ran>>
  BY DEF PatchNameSave
<1>1. TypeOK'
  <2>1. mu' \in {"reload", "rename", None} /\ mu' # "reload" /\ mu' # "rename"
    BY <1>b, SchedulerAssumption
  <2> QED BY <1>0, <1>b, <1>f, <1>k, <2>1 DEF TypeOK
<1>2. Asleep'
  BY <1>0, <1>b, <1>k DEF Asleep
<1>3. VersionsKnown'
  BY <1>0, <1>b, <1>f, <1>k DEF VersionsKnown, Known
<1>4. RenameIsNew'
  BY <1>b DEF RenameIsNew
<1>5. NewestWins'
  <2>1. ASSUME NEW m \in Names, runtimes[m] # None, Active(file'[m]), gor[runtimes[m]].cfg = file'[m]
        PROVE  file'[m] = file[m]
    BY <1>0, <1>b, <1>f, <1>r, <2>1 DEF RenameIsNew, Other, Active
  <2> QED BY <1>0, <1>k, <2>1 DEF NewestWins, Applying
<1>6. SpentStaysRegistered'
  <2>1. crashes \in Nat /\ ran[<<rename[1], rename[2].ver>>] = 0
    BY <1>0, <1>b, Numbers DEF RenameIsNew
  <2>2. ASSUME NEW m \in Names
        PROVE  StaysRegistered(m, file[m])' /\ StaysRegistered(m, snapshot[m])'
    <3>1. StaysRegistered(m, file[m]) /\ StaysRegistered(m, snapshot[m])
      BY <1>0 DEF SpentStaysRegistered
    <3> QED BY <1>f, <1>k, <2>1, <3>1 DEF StaysRegistered, Spent
  <2> QED BY <2>2 DEF SpentStaysRegistered
<1>7. FollowsFile'
  BY <1>0, <1>f, <1>k DEF FollowsFile, Outdated, Applied, Applying
<1>8. /\ ConfiguredGoroutines' /\ EveryLoopRegistered' /\ DropsWhileReloading'
      /\ CancelledIsAwaited' /\ SpentWaitsNoMore' /\ OneshotRunsOnce'
  BY <1>0
     DEF PatchNameSave, ConfiguredGoroutines, EveryLoopRegistered, Live, DropsWhileReloading,
         CancelledIsAwaited, Cancelled, SpentWaitsNoMore, Spent, OneshotRunsOnce
<1> QED BY <1>1, <1>2, <1>3, <1>4, <1>5, <1>6, <1>7, <1>8 DEF TaskInv

\* An event that comes while Reload is at work is missed.
LEMMA InvNotice ==
  ASSUME TaskInv,
         Notice
  PROVE  TaskInv'
<1>0. /\ TypeOK /\ ConfiguredGoroutines /\ EveryLoopRegistered /\ Asleep
      /\ DropsWhileReloading /\ CancelledIsAwaited /\ VersionsKnown /\ RenameIsNew
      /\ NewestWins /\ SpentStaysRegistered /\ SpentWaitsNoMore /\ OneshotRunsOnce
      /\ FollowsFile
  BY DEF TaskInv
<1>1. TypeOK'
  <2>1. /\ reload' \in ReloadPCs /\ mu' \in {"reload", "rename", None}
        /\ mu' = "reload" <=> reload' \in {"stop", "await", "start"}
        /\ mu' = "rename" <=> rename' # None
    BY <1>0 DEF Notice, TypeOK, ReloadPCs, DropsWhileReloading
  <2> QED BY <1>0, <2>1 DEF Notice, TypeOK
<1>2. Asleep'
  BY DEF Notice, Asleep
<1>3. DropsWhileReloading'
  BY <1>0 DEF Notice, DropsWhileReloading
<1>4. CancelledIsAwaited'
  BY <1>0 DEF Notice, CancelledIsAwaited, Cancelled, DropsWhileReloading
<1>5. NewestWins'
  BY <1>0 DEF Notice, NewestWins, Applying
<1>6. FollowsFile'
  BY <1>0 DEF Notice, FollowsFile, Outdated, Applying
<1>7. /\ ConfiguredGoroutines' /\ EveryLoopRegistered' /\ VersionsKnown' /\ RenameIsNew'
      /\ SpentStaysRegistered' /\ SpentWaitsNoMore' /\ OneshotRunsOnce'
  BY <1>0
     DEF Notice, ConfiguredGoroutines, EveryLoopRegistered, Live, VersionsKnown, Known,
         RenameIsNew, SpentStaysRegistered, StaysRegistered, Spent, SpentWaitsNoMore,
         OneshotRunsOnce
<1> QED BY <1>1, <1>2, <1>3, <1>4, <1>5, <1>6, <1>7 DEF TaskInv

\* The sentinel is ready for the next event.
LEMMA InvActionDone ==
  ASSUME TaskInv,
         ActionDone
  PROVE  TaskInv'
<1>0. /\ TypeOK /\ ConfiguredGoroutines /\ EveryLoopRegistered /\ Asleep
      /\ DropsWhileReloading /\ CancelledIsAwaited /\ VersionsKnown /\ RenameIsNew
      /\ NewestWins /\ SpentStaysRegistered /\ SpentWaitsNoMore /\ OneshotRunsOnce
      /\ FollowsFile
  BY DEF TaskInv
<1>1. TypeOK'
  <2>1. /\ reload' \in ReloadPCs /\ mu' \in {"reload", "rename", None}
        /\ mu' = "reload" <=> reload' \in {"stop", "await", "start"}
        /\ mu' = "rename" <=> rename' # None
    BY <1>0 DEF ActionDone, TypeOK, ReloadPCs
  <2> QED BY <1>0, <2>1 DEF ActionDone, TypeOK
<1>2. Asleep'
  BY <1>0 DEF ActionDone, Asleep
<1>3. DropsWhileReloading'
  BY DEF ActionDone, DropsWhileReloading
<1>4. CancelledIsAwaited'
  BY <1>0 DEF ActionDone, CancelledIsAwaited, Cancelled
<1>5. NewestWins'
  BY DEF ActionDone, NewestWins, Applying
<1>6. FollowsFile'
  BY <1>0 DEF ActionDone, FollowsFile, Applied, Applying
<1>7. /\ ConfiguredGoroutines' /\ EveryLoopRegistered' /\ VersionsKnown' /\ RenameIsNew'
      /\ SpentStaysRegistered' /\ SpentWaitsNoMore' /\ OneshotRunsOnce'
  BY <1>0
     DEF ActionDone, ConfiguredGoroutines, EveryLoopRegistered, Live, VersionsKnown, Known,
         RenameIsNew, SpentStaysRegistered, StaysRegistered, Spent, SpentWaitsNoMore,
         OneshotRunsOnce
<1> QED BY <1>1, <1>2, <1>3, <1>4, <1>5, <1>6, <1>7 DEF TaskInv

\* Reload has read what the file says.
LEMMA InvReadTasks ==
  ASSUME TaskInv,
         ReadTasks
  PROVE  TaskInv'
<1>0. /\ TypeOK /\ ConfiguredGoroutines /\ EveryLoopRegistered /\ Asleep
      /\ DropsWhileReloading /\ CancelledIsAwaited /\ VersionsKnown /\ RenameIsNew
      /\ NewestWins /\ SpentStaysRegistered /\ SpentWaitsNoMore /\ OneshotRunsOnce
      /\ FollowsFile
  BY DEF TaskInv
<1>1. TypeOK'
  <2>1. /\ reload' \in ReloadPCs /\ mu' \in {"reload", "rename", None}
        /\ mu' = "reload" <=> reload' \in {"stop", "await", "start"}
        /\ mu' = "rename" <=> rename' # None
    BY <1>0 DEF ReadTasks, TypeOK, ReloadPCs
  <2> QED BY <1>0, <2>1 DEF ReadTasks, TypeOK
<1>2. Asleep'
  BY <1>0 DEF ReadTasks, Asleep
<1>3. DropsWhileReloading'
  BY <1>0 DEF ReadTasks, DropsWhileReloading
<1>4. CancelledIsAwaited'
  BY <1>0 DEF ReadTasks, CancelledIsAwaited, Cancelled
<1>5. VersionsKnown'
  BY <1>0 DEF ReadTasks, VersionsKnown, Known
<1>6. RenameIsNew'
  BY <1>0 DEF ReadTasks, RenameIsNew
<1>7. NewestWins'
  BY DEF ReadTasks, NewestWins
<1>8. SpentStaysRegistered'
  BY <1>0 DEF ReadTasks, SpentStaysRegistered, StaysRegistered, Spent
<1>9. FollowsFile'
  BY DEF ReadTasks, FollowsFile
<1>10. ConfiguredGoroutines' /\ EveryLoopRegistered' /\ SpentWaitsNoMore' /\ OneshotRunsOnce'
  BY <1>0
     DEF ReadTasks, ConfiguredGoroutines, EveryLoopRegistered, Live, SpentWaitsNoMore, Spent,
         OneshotRunsOnce
<1> QED BY <1>1, <1>2, <1>3, <1>4, <1>5, <1>6, <1>7, <1>8, <1>9, <1>10 DEF TaskInv

\* A Reload that cannot read the file changes nothing.
LEMMA InvReadFails ==
  ASSUME TaskInv,
         ReadFails
  PROVE  TaskInv'
<1>0. /\ TypeOK /\ ConfiguredGoroutines /\ EveryLoopRegistered /\ Asleep
      /\ DropsWhileReloading /\ CancelledIsAwaited /\ VersionsKnown /\ RenameIsNew
      /\ NewestWins /\ SpentStaysRegistered /\ SpentWaitsNoMore /\ OneshotRunsOnce
      /\ FollowsFile
  BY DEF TaskInv
<1>1. TypeOK'
  <2>1. /\ reload' \in ReloadPCs /\ mu' \in {"reload", "rename", None}
        /\ mu' = "reload" <=> reload' \in {"stop", "await", "start"}
        /\ mu' = "rename" <=> rename' # None
    BY <1>0 DEF ReadFails, TypeOK, ReloadPCs
  <2> QED BY <1>0, <2>1 DEF ReadFails, TypeOK
<1>2. Asleep'
  BY <1>0 DEF ReadFails, Asleep
<1>3. DropsWhileReloading'
  BY <1>0 DEF ReadFails, DropsWhileReloading
<1>4. CancelledIsAwaited'
  BY <1>0 DEF ReadFails, CancelledIsAwaited, Cancelled
<1>5. NewestWins'
  BY DEF ReadFails, NewestWins, Applying
<1>6. FollowsFile'
  BY DEF ReadFails, FollowsFile
<1>7. /\ ConfiguredGoroutines' /\ EveryLoopRegistered' /\ VersionsKnown' /\ RenameIsNew'
      /\ SpentStaysRegistered' /\ SpentWaitsNoMore' /\ OneshotRunsOnce'
  BY <1>0
     DEF ReadFails, ConfiguredGoroutines, EveryLoopRegistered, Live, VersionsKnown, Known,
         RenameIsNew, SpentStaysRegistered, StaysRegistered, Spent, SpentWaitsNoMore,
         OneshotRunsOnce
<1> QED BY <1>1, <1>2, <1>3, <1>4, <1>5, <1>6, <1>7 DEF TaskInv

\* Reload takes the mutex.
LEMMA InvLock ==
  ASSUME TaskInv,
         Lock
  PROVE  TaskInv'
<1>0. /\ TypeOK /\ ConfiguredGoroutines /\ EveryLoopRegistered /\ Asleep
      /\ DropsWhileReloading /\ CancelledIsAwaited /\ VersionsKnown /\ RenameIsNew
      /\ NewestWins /\ SpentStaysRegistered /\ SpentWaitsNoMore /\ OneshotRunsOnce
      /\ FollowsFile
  BY DEF TaskInv
<1>1. TypeOK'
  <2>1. /\ reload' \in ReloadPCs /\ mu' \in {"reload", "rename", None}
        /\ mu' = "reload" <=> reload' \in {"stop", "await", "start"}
        /\ mu' = "rename" <=> rename' # None
    BY <1>0, SchedulerAssumption DEF Lock, TypeOK, ReloadPCs
  <2> QED BY <1>0, <2>1 DEF Lock, TypeOK
<1>2. Asleep'
  BY <1>0 DEF Lock, Asleep
<1>3. DropsWhileReloading'
  BY <1>0 DEF Lock, DropsWhileReloading
<1>4. CancelledIsAwaited'
  BY <1>0 DEF Lock, CancelledIsAwaited, Cancelled
<1>5. NewestWins'
  BY <1>0 DEF Lock, NewestWins, Applying
<1>6. FollowsFile'
  BY <1>0 DEF Lock, FollowsFile, Applying
<1>7. /\ ConfiguredGoroutines' /\ EveryLoopRegistered' /\ VersionsKnown' /\ RenameIsNew'
      /\ SpentStaysRegistered' /\ SpentWaitsNoMore' /\ OneshotRunsOnce'
  BY <1>0
     DEF Lock, ConfiguredGoroutines, EveryLoopRegistered, Live, VersionsKnown, Known,
         RenameIsNew, SpentStaysRegistered, StaysRegistered, Spent, SpentWaitsNoMore,
         OneshotRunsOnce
<1> QED BY <1>1, <1>2, <1>3, <1>4, <1>5, <1>6, <1>7 DEF TaskInv

\* All outdated loops are stopped.
LEMMA InvAllStopped ==
  ASSUME TaskInv,
         AllStopped
  PROVE  TaskInv'
<1>0. /\ TypeOK /\ ConfiguredGoroutines /\ EveryLoopRegistered /\ Asleep
      /\ DropsWhileReloading /\ CancelledIsAwaited /\ VersionsKnown /\ RenameIsNew
      /\ NewestWins /\ SpentStaysRegistered /\ SpentWaitsNoMore /\ OneshotRunsOnce
      /\ FollowsFile
  BY DEF TaskInv
<1>1. TypeOK'
  <2>1. /\ reload' \in ReloadPCs /\ mu' \in {"reload", "rename", None}
        /\ mu' = "reload" <=> reload' \in {"stop", "await", "start"}
        /\ mu' = "rename" <=> rename' # None
    BY <1>0 DEF AllStopped, TypeOK, ReloadPCs
  <2> QED BY <1>0, <2>1 DEF AllStopped, TypeOK
<1>2. Asleep'
  BY <1>0 DEF AllStopped, Asleep
<1>3. DropsWhileReloading'
  BY <1>0 DEF AllStopped, DropsWhileReloading
<1>4. CancelledIsAwaited'
  BY <1>0 DEF AllStopped, CancelledIsAwaited, Cancelled
<1>5. NewestWins'
  BY <1>0 DEF AllStopped, NewestWins, Applying
<1>6. FollowsFile'
  BY <1>0 DEF AllStopped, FollowsFile, Outdated, Applying
<1>7. /\ ConfiguredGoroutines' /\ EveryLoopRegistered' /\ VersionsKnown' /\ RenameIsNew'
      /\ SpentStaysRegistered' /\ SpentWaitsNoMore' /\ OneshotRunsOnce'
  BY <1>0
     DEF AllStopped, ConfiguredGoroutines, EveryLoopRegistered, Live, VersionsKnown, Known,
         RenameIsNew, SpentStaysRegistered, StaysRegistered, Spent, SpentWaitsNoMore,
         OneshotRunsOnce
<1> QED BY <1>1, <1>2, <1>3, <1>4, <1>5, <1>6, <1>7 DEF TaskInv

\* What runs is what Reload has read.
LEMMA InvUnlock ==
  ASSUME TaskInv,
         Unlock
  PROVE  TaskInv'
<1>0. /\ TypeOK /\ ConfiguredGoroutines /\ EveryLoopRegistered /\ Asleep
      /\ DropsWhileReloading /\ CancelledIsAwaited /\ VersionsKnown /\ RenameIsNew
      /\ NewestWins /\ SpentStaysRegistered /\ SpentWaitsNoMore /\ OneshotRunsOnce
      /\ FollowsFile
  BY DEF TaskInv
<1>1. TypeOK'
  <2>1. /\ reload' \in ReloadPCs /\ mu' \in {"reload", "rename", None}
        /\ mu' = "reload" <=> reload' \in {"stop", "await", "start"}
        /\ mu' = "rename" <=> rename' # None
    BY <1>0, SchedulerAssumption DEF Unlock, TypeOK, ReloadPCs
  <2>2. /\ events' \in Nat /\ drop' \in BOOLEAN /\ missed' \in {"nothing", "event", "file"}
        /\ snapshot' \in [Names -> Entry]
    BY <1>0 DEF Unlock, TypeOK, Entry
  <2> QED BY <1>0, <2>1, <2>2 DEF Unlock, TypeOK
<1>2. Asleep'
  BY <1>0 DEF Unlock, Asleep
<1>3. DropsWhileReloading'
  BY <1>0 DEF Unlock, DropsWhileReloading
<1>4. CancelledIsAwaited'
  BY <1>0 DEF Unlock, CancelledIsAwaited, Cancelled
<1>5. VersionsKnown'
  BY <1>0 DEF Unlock, VersionsKnown, Known
<1>6. RenameIsNew'
  BY <1>0 DEF Unlock, RenameIsNew, TypeOK
<1>7. NewestWins'
  BY DEF Unlock, NewestWins, Applying
<1>8. SpentStaysRegistered'
  BY <1>0 DEF Unlock, SpentStaysRegistered, StaysRegistered, Spent
<1>9. FollowsFile'
  <2>1. Outdated = {} /\ Startable = {} /\ reload' = "done"
    BY <1>0 DEF Unlock, FollowsFile
  <2>2. ASSUME snapshot = file
        PROVE  Applied
    <3>1. ASSUME NEW n \in Names, Active(file[n])
          PROVE  runtimes[n] # None /\ gor[runtimes[n]].cfg = file[n]
      BY <2>1, <2>2, <3>1 DEF Outdated, Startable
    <3>2. ASSUME NEW n \in Names, ~Active(file[n])
          PROVE  runtimes[n] = None
      <4> SUFFICES ASSUME runtimes[n] # None PROVE FALSE
        OBVIOUS
      <4>1. /\ gor[runtimes[n]].cfg = file[n] /\ gor[runtimes[n]].cfg.active
            /\ gor[runtimes[n]].cfg # None
        BY <1>0, <2>1, <2>2, RegisteredIsOwn DEF Outdated
      <4> QED BY <3>2, <4>1 DEF Active
    <3> QED BY <3>1, <3>2 DEF Applied
  <2>3. up /\ missed = "nothing" /\ events = 0 => Applied'
    BY <1>0, <2>2 DEF Unlock, FollowsFile, Applying, Applied
  <2> QED BY <2>3 DEF Unlock, FollowsFile, Applying
<1>10. ConfiguredGoroutines' /\ EveryLoopRegistered' /\ SpentWaitsNoMore' /\ OneshotRunsOnce'
  BY <1>0
     DEF Unlock, ConfiguredGoroutines, EveryLoopRegistered, Live, SpentWaitsNoMore, Spent,
         OneshotRunsOnce
<1> QED BY <1>1, <1>2, <1>3, <1>4, <1>5, <1>6, <1>7, <1>8, <1>9, <1>10 DEF TaskInv

\* Only an outdated runtime is cancelled.
LEMMA InvCancelRuntime ==
  ASSUME TaskInv, NEW n \in Names,
         CancelRuntime(n)
  PROVE  TaskInv'
<1>0. /\ TypeOK /\ ConfiguredGoroutines /\ EveryLoopRegistered /\ Asleep
      /\ DropsWhileReloading /\ CancelledIsAwaited /\ VersionsKnown /\ RenameIsNew
      /\ NewestWins /\ SpentStaysRegistered /\ SpentWaitsNoMore /\ OneshotRunsOnce
      /\ FollowsFile
  BY DEF TaskInv
<1>r. \A m \in Names : runtimes[m] # None => runtimes[m] \in Slots /\ Task(runtimes[m]) = m
  BY <1>0, RegisteredIsOwn
<1>b. /\ runtimes[n] \in Slots /\ runtimes[n] # None /\ snapshot[n] # gor[runtimes[n]].cfg
      /\ reload = "stop" /\ reload' = "await"
      /\ gor' = [gor EXCEPT ![runtimes[n]].cancelled = TRUE]
  BY <1>r DEF CancelRuntime, Outdated
<1>g. /\ gor' \in [Slots -> Goroutines]
      /\ \A h \in Slots : /\ gor'[h].cfg = gor[h].cfg /\ gor'[h].st = gor[h].st
                          /\ gor'[h].cancelled = (h = runtimes[n] \/ gor[h].cancelled)
  <2>1. gor \in [Slots -> Goroutines]
    BY <1>0 DEF TypeOK, Goroutines
  <2> QED BY <1>b, <2>1 DEF Goroutines
<1>k. UNCHANGED <<file, up, mu, runtimes, snapshot, rename, drop, events, edits, crashes,
                  missed, ran>>
  BY DEF CancelRuntime
<1>1. TypeOK'
  <2>2. mu = "reload" /\ reload' \in ReloadPCs
    BY <1>0, <1>b DEF TypeOK, ReloadPCs
  <2> QED BY <1>0, <1>b, <1>g, <1>k, <2>2 DEF TypeOK, Goroutines
<1>2. ConfiguredGoroutines'
  BY <1>0, <1>g DEF ConfiguredGoroutines
<1>3. EveryLoopRegistered'
  BY <1>0, <1>g, <1>k DEF EveryLoopRegistered, Live
<1>4. Asleep'
  BY <1>0, <1>b, <1>k DEF Asleep
<1>5. DropsWhileReloading'
  BY <1>0, <1>b, <1>k DEF DropsWhileReloading
<1>6. CancelledIsAwaited'
  <2>1. ASSUME NEW m \in Names, runtimes[m] # None, gor'[runtimes[m]].cancelled
        PROVE  m = n
    <3>2. ~gor[runtimes[m]].cancelled
      BY <1>0, <1>b, <2>1 DEF CancelledIsAwaited, Cancelled
    <3> QED BY <1>b, <1>r, <2>1, <3>2
  <2> QED BY <1>b, <1>k, <2>1 DEF CancelledIsAwaited, Cancelled
<1>7. VersionsKnown'
  BY <1>0, <1>g, <1>k DEF VersionsKnown, Known
<1>8. RenameIsNew'
  BY <1>0, <1>g, <1>k DEF RenameIsNew
<1>9. NewestWins'
  BY <1>0, <1>b, <1>k DEF NewestWins, Applying
<1>10. SpentStaysRegistered'
  <2>1. ASSUME NEW m \in Names
        PROVE  StaysRegistered(m, file[m])' /\ StaysRegistered(m, snapshot[m])'
    <3>1. StaysRegistered(m, file[m]) /\ StaysRegistered(m, snapshot[m])
      BY <1>0 DEF SpentStaysRegistered
    <3> QED BY <1>g, <1>k, <1>r, <3>1 DEF StaysRegistered, Spent
  <2> QED BY <2>1 DEF SpentStaysRegistered
<1>11. SpentWaitsNoMore'
  BY <1>0, <1>g, <1>k DEF SpentWaitsNoMore, Spent
<1>12. FollowsFile'
  BY <1>0, <1>b, <1>k DEF FollowsFile, Applying
<1>13. OneshotRunsOnce'
  BY <1>0 DEF CancelRuntime, Outdated, OneshotRunsOnce
<1> QED BY <1>1, <1>2, <1>3, <1>4, <1>5, <1>6, <1>7, <1>8, <1>9, <1>10, <1>11, <1>12, <1>13
           DEF TaskInv

\* A runtime is forgotten when its loop has ended.
LEMMA InvRemoveRuntime ==
  ASSUME TaskInv, NEW n \in Names,
         RemoveRuntime(n)
  PROVE  TaskInv'
<1>0. /\ TypeOK /\ ConfiguredGoroutines /\ EveryLoopRegistered /\ Asleep
      /\ DropsWhileReloading /\ CancelledIsAwaited /\ VersionsKnown /\ RenameIsNew
      /\ NewestWins /\ SpentStaysRegistered /\ SpentWaitsNoMore /\ OneshotRunsOnce
      /\ FollowsFile
  BY DEF TaskInv
<1>r. \A m \in Names : runtimes[m] # None => runtimes[m] \in Slots /\ Task(runtimes[m]) = m
  BY <1>0, RegisteredIsOwn
<1>b. /\ reload = "await" /\ reload' = "stop"
      /\ runtimes[n] \in Slots /\ runtimes[n] # None
      /\ gor[runtimes[n]].cancelled /\ ~Live(runtimes[n])
      /\ runtimes' = [runtimes EXCEPT ![n] = None]
      /\ gor' = IF gor[runtimes[n]].st = "over" THEN [gor EXCEPT ![runtimes[n]] = Idle] ELSE gor
  BY <1>r DEF RemoveRuntime
<1>c. snapshot[n] # gor[runtimes[n]].cfg
  BY <1>0, <1>b DEF CancelledIsAwaited, Cancelled
<1>g. /\ gor' \in [Slots -> Goroutines]
      /\ \A h \in Slots : h = runtimes[n] \/ gor'[h] = gor[h]
      /\ gor'[runtimes[n]] = Idle \/ gor'[runtimes[n]] = gor[runtimes[n]]
  <2>1. gor \in [Slots -> Goroutines] /\ Idle \in Goroutines
    BY <1>0 DEF TypeOK, Goroutines, Idle, Entry, States
  <2> QED BY <1>b, <2>1
<1>f. /\ runtimes' \in [Names -> Slots \cup {None}]
      /\ \A m \in Names : runtimes'[m] = IF m = n THEN None ELSE runtimes[m]
      /\ \A m \in Names : runtimes'[m] # None =>
           m # n /\ runtimes'[m] = runtimes[m] /\ gor'[runtimes[m]] = gor[runtimes[m]]
  <2>1. runtimes \in [Names -> Slots \cup {None}]
    BY <1>0 DEF TypeOK
  <2> QED BY <1>b, <1>g, <1>r, <2>1
<1>k. UNCHANGED <<file, up, mu, snapshot, rename, drop, events, edits, crashes, missed, ran>>
  BY DEF RemoveRuntime
<1>1. TypeOK'
  <2>2. mu = "reload" /\ reload' \in ReloadPCs
    BY <1>0, <1>b DEF TypeOK, ReloadPCs
  <2>3. gor' \in [Slots -> [cfg : Entry, st : States, cancelled : BOOLEAN]]
    BY <1>g DEF Goroutines
  <2> QED BY <1>0, <1>b, <1>k, <2>2, <2>3 DEF TypeOK
<1>2. ConfiguredGoroutines'
  BY <1>0, <1>g DEF ConfiguredGoroutines, Idle
<1>3. EveryLoopRegistered'
  <2> SUFFICES ASSUME NEW g \in Slots, Live(g)'
               PROVE  runtimes'[Task(g)] = g
    BY DEF EveryLoopRegistered
  <2>1. g # runtimes[n]
    BY <1>b, <1>g DEF Live, Idle
  <2>2. runtimes[Task(g)] = g
    BY <1>0, <1>g, <2>1 DEF EveryLoopRegistered, Live
  <2> QED BY <1>f, <2>1, <2>2, Shapes
<1>4. Asleep'
  <2>1. up
    BY <1>0, <1>b DEF Asleep
  <2> QED BY <1>k, <2>1 DEF Asleep
<1>5. DropsWhileReloading'
  BY <1>0, <1>b, <1>k DEF DropsWhileReloading
<1>6. CancelledIsAwaited'
  <2>1. ASSUME NEW m \in Names, runtimes'[m] # None, gor'[runtimes'[m]].cancelled
        PROVE  FALSE
    <3>0. m # n /\ runtimes'[m] = runtimes[m] /\ gor'[runtimes[m]] = gor[runtimes[m]]
      BY <1>f, <2>1
    <3>1. m # n /\ runtimes[m] # None /\ gor[runtimes[m]].cancelled
      BY <2>1, <3>0
    <3> QED BY <1>0, <1>b, <3>1 DEF CancelledIsAwaited, Cancelled
  <2> QED BY <2>1 DEF CancelledIsAwaited, Cancelled
<1>7. VersionsKnown'
  <2>1. \A h \in Slots : Known(gor'[h].cfg) \/ gor'[h].cfg = None
    BY <1>0, <1>g DEF VersionsKnown, Idle
  <2> QED BY <1>0, <1>k, <2>1 DEF VersionsKnown, Known
<1>8. RenameIsNew'
  BY <1>0, <1>g, <1>k DEF RenameIsNew, Other, Idle
<1>9. NewestWins'
  BY <1>0, <1>b, <1>f, <1>k DEF NewestWins, Applying
<1>10. SpentStaysRegistered'
  <2>1. ASSUME Active(file[n])
        PROVE  gor[runtimes[n]].cfg # file[n]
    BY <1>0, <1>b, <1>c, <2>1 DEF NewestWins, Applying
  <2>2. ASSUME NEW m \in Names
        PROVE  StaysRegistered(m, file[m])' /\ StaysRegistered(m, snapshot[m])'
    <3>1. StaysRegistered(m, file[m]) /\ StaysRegistered(m, snapshot[m])
      BY <1>0 DEF SpentStaysRegistered
    <3> QED BY <1>c, <1>f, <1>k, <2>1, <3>1 DEF StaysRegistered, Spent
  <2> QED BY <2>2 DEF SpentStaysRegistered
<1>11. SpentWaitsNoMore'
  BY <1>0, <1>g, <1>k DEF SpentWaitsNoMore, Spent, Idle
<1>12. FollowsFile'
  BY <1>0, <1>b, <1>k DEF FollowsFile, Applying
<1>13. OneshotRunsOnce'
  BY <1>0 DEF RemoveRuntime, OneshotRunsOnce
<1> QED BY <1>1, <1>2, <1>3, <1>4, <1>5, <1>6, <1>7, <1>8, <1>9, <1>10, <1>11, <1>12, <1>13
           DEF TaskInv

\* A task is started when no loop of it is registered.
LEMMA InvStartTask ==
  ASSUME TaskInv, NEW n \in Names,
         StartTask(n)
  PROVE  TaskInv'
<1>0. /\ TypeOK /\ ConfiguredGoroutines /\ EveryLoopRegistered /\ Asleep
      /\ DropsWhileReloading /\ CancelledIsAwaited /\ VersionsKnown /\ RenameIsNew
      /\ NewestWins /\ SpentStaysRegistered /\ SpentWaitsNoMore /\ OneshotRunsOnce
      /\ FollowsFile
  BY DEF TaskInv
<1>r. \A m \in Names : runtimes[m] # None => runtimes[m] \in Slots /\ Task(runtimes[m]) = m
  BY <1>0, RegisteredIsOwn
<1>e. snapshot[n] \in Config /\ snapshot[n] # None /\ Active(snapshot[n]) /\ runtimes[n] = None
  BY <1>0, Settings DEF StartTask, Startable, Active
<1>b. PICK h \in Slots :
        /\ Task(h) = n /\ h # None /\ reload = "start"
        /\ gor' = [gor EXCEPT ![h] = Started(snapshot[n])]
        /\ runtimes' = [runtimes EXCEPT ![n] = h]
  <2>1. PICK i \in 0..MaxEdits :
          /\ reload = "start"
          /\ gor' = [gor EXCEPT ![<<n, i>>] = Started(snapshot[n])]
          /\ runtimes' = [runtimes EXCEPT ![n] = <<n, i>>]
    BY DEF StartTask
  <2>2. <<n, i>> \in Slots /\ Task(<<n, i>>) = n /\ <<n, i>> # None
    BY Shapes
  <2> QED BY <2>1, <2>2
<1>g. /\ gor' \in [Slots -> Goroutines]
      /\ gor'[h].cfg = snapshot[n] /\ gor'[h].st = "waiting" /\ ~gor'[h].cancelled
      /\ \A k \in Slots : k = h \/ gor'[k] = gor[k]
  <2>1. gor \in [Slots -> Goroutines]
    BY <1>0 DEF TypeOK, Goroutines
  <2>2. /\ Started(snapshot[n]) \in Goroutines /\ Started(snapshot[n]).cfg = snapshot[n]
        /\ Started(snapshot[n]).st = "waiting" /\ ~Started(snapshot[n]).cancelled
    BY <1>e DEF Started, Goroutines, Entry, States
  <2> QED BY <1>b, <2>1, <2>2
<1>f. /\ runtimes' \in [Names -> Slots \cup {None}]
      /\ runtimes'[n] = h
      /\ \A m \in Names : m # n => runtimes'[m] = runtimes[m]
      /\ \A m \in Names : m # n /\ runtimes[m] # None => gor'[runtimes[m]] = gor[runtimes[m]]
  <2>1. runtimes \in [Names -> Slots \cup {None}]
    BY <1>0 DEF TypeOK
  <2> QED BY <1>b, <1>g, <1>r, <2>1
<1>k. UNCHANGED <<file, up, mu, reload, snapshot, rename, drop,
                  events, edits, crashes, missed, ran>>
  BY DEF StartTask
<1>1. TypeOK'
  <2>1. ASSUME NEW m \in Names, runtimes'[m] # None
        PROVE  runtimes'[m][1] = m /\ Active(gor'[runtimes'[m]].cfg)
    <3>1. CASE m = n
      BY <1>b, <1>e, <1>f, <1>g, <3>1 DEF Task
    <3>2. CASE m # n
      BY <1>0, <1>f, <2>1, <3>2 DEF TypeOK
    <3> QED BY <3>1, <3>2
  <2>2. gor' \in [Slots -> [cfg : Entry, st : States, cancelled : BOOLEAN]]
    BY <1>g DEF Goroutines
  <2> QED BY <1>0, <1>f, <1>k, <2>1, <2>2 DEF TypeOK
<1>2. ConfiguredGoroutines'
  BY <1>0, <1>e, <1>g DEF ConfiguredGoroutines
<1>3. EveryLoopRegistered'
  <2> SUFFICES ASSUME NEW g \in Slots, Live(g)'
               PROVE  runtimes'[Task(g)] = g
    BY DEF EveryLoopRegistered
  <2>1. CASE g = h
    BY <1>b, <1>f, <2>1
  <2>2. CASE g # h
    <3>1. runtimes[Task(g)] = g
      BY <1>0, <1>g, <2>2 DEF EveryLoopRegistered, Live
    <3> QED BY <1>e, <1>f, <3>1, Shapes
  <2> QED BY <2>1, <2>2
<1>4. Asleep'
  <2>1. up
    BY <1>0, <1>b DEF Asleep
  <2> QED BY <1>k, <2>1 DEF Asleep
<1>5. CancelledIsAwaited'
  <2>1. ASSUME NEW m \in Names, runtimes'[m] # None, gor'[runtimes'[m]].cancelled
        PROVE  FALSE
    <3>1. m # n
      BY <1>f, <1>g, <2>1
    <3>2. runtimes[m] # None /\ gor[runtimes[m]].cancelled
      BY <1>f, <2>1, <3>1
    <3> QED BY <1>0, <1>b, <3>2 DEF CancelledIsAwaited, Cancelled
  <2> QED BY <2>1 DEF CancelledIsAwaited, Cancelled
<1>6. VersionsKnown'
  <2>1. \A k \in Slots : Known(gor'[k].cfg)
    BY <1>0, <1>g DEF VersionsKnown
  <2> QED BY <1>0, <1>k, <2>1 DEF VersionsKnown, Known
<1>7. RenameIsNew'
  <2>1. rename = None
    BY <1>0, <1>b, SchedulerAssumption DEF TypeOK
  <2> QED BY <1>k, <2>1 DEF RenameIsNew
<1>8. NewestWins'
  <2> SUFFICES ASSUME NEW m \in Names, Applying, Active(file[m]), runtimes'[m] # None,
                      gor'[runtimes'[m]].cfg = file[m]
               PROVE  snapshot[m] = file[m]
    BY <1>k DEF NewestWins, Applying, Active
  <2>1. CASE m = n
    BY <1>f, <1>g, <2>1
  <2>2. CASE m # n
    BY <1>0, <1>f, <2>2 DEF NewestWins
  <2> QED BY <2>1, <2>2
<1>9. SpentStaysRegistered'
  <2>1. ASSUME NEW m \in Names
        PROVE  StaysRegistered(m, file[m])' /\ StaysRegistered(m, snapshot[m])'
    <3>1. StaysRegistered(m, file[m]) /\ StaysRegistered(m, snapshot[m])
      BY <1>0 DEF SpentStaysRegistered
    <3>2. CASE m = n
      BY <1>e, <1>k, <3>1, <3>2 DEF StaysRegistered, Spent
    <3>3. CASE m # n
      BY <1>f, <1>k, <3>1, <3>3 DEF StaysRegistered, Spent
    <3> QED BY <3>2, <3>3
  <2> QED BY <2>1 DEF SpentStaysRegistered
<1>10. SpentWaitsNoMore'
  <2>1. ~Spent(n, snapshot[n])
    BY <1>0, <1>e DEF SpentStaysRegistered, StaysRegistered
  <2>2. ASSUME NEW g \in Slots, gor'[g].st = "waiting"
        PROVE  ~Spent(Task(g), gor'[g].cfg)
    BY <1>0, <1>b, <1>g, <2>1, <2>2 DEF SpentWaitsNoMore
  <2> QED BY <1>k, <2>2 DEF SpentWaitsNoMore, Spent
<1>11. FollowsFile'
  <2>1. ASSUME NEW m \in Names, runtimes'[m] # None
        PROVE  snapshot[m] = gor'[runtimes'[m]].cfg
    <3>1. CASE m = n
      BY <1>f, <1>g, <3>1
    <3>2. CASE m # n
      BY <1>0, <1>b, <1>f, <2>1, <3>2 DEF FollowsFile, Outdated
    <3> QED BY <3>1, <3>2
  <2>2. Outdated' = {}
    BY <1>k, <2>1 DEF Outdated
  <2> QED BY <1>0, <1>b, <1>k, <2>2 DEF FollowsFile, Applying
<1>12. DropsWhileReloading' /\ OneshotRunsOnce'
  BY <1>0 DEF StartTask, DropsWhileReloading, OneshotRunsOnce
<1> QED BY <1>1, <1>2, <1>3, <1>4, <1>5, <1>6, <1>7, <1>8, <1>9, <1>10, <1>11, <1>12 DEF TaskInv

\* A one-shot task is executed when its settings were not executed before.
LEMMA InvFire ==
  ASSUME TaskInv, NEW g \in Slots,
         Fire(g)
  PROVE  TaskInv'
<1>0. /\ TypeOK /\ ConfiguredGoroutines /\ EveryLoopRegistered /\ Asleep
      /\ DropsWhileReloading /\ CancelledIsAwaited /\ VersionsKnown /\ RenameIsNew
      /\ NewestWins /\ SpentStaysRegistered /\ SpentWaitsNoMore /\ OneshotRunsOnce
      /\ FollowsFile
  BY DEF TaskInv
<1>u. up /\ gor[g].st # "free"
  BY <1>0 DEF Fire, Asleep, Idle
<1>g. /\ gor' \in [Slots -> Goroutines]
      /\ \A h \in Slots : /\ gor'[h].cfg = gor[h].cfg
                          /\ gor'[h].cancelled = gor[h].cancelled
                          /\ gor'[h].st = IF h = g THEN "executing" ELSE gor[h].st
  <2>1. "executing" \in States
    BY DEF States
  <2> QED BY <1>0, <2>1, GoroutineGoesOn DEF Fire
<1>r. \A n \in Names : runtimes[n] # None => runtimes[n] \in Slots /\ Task(runtimes[n]) = n
  BY <1>0, RegisteredIsOwn
<1>c. gor[g].st = "waiting" /\ gor[g].cfg \in Config /\ gor[g].cfg # None
  BY <1>0 DEF Fire, TypeOK, Entry, ConfiguredGoroutines
<1>x. /\ ran' \in [Names \X (0..MaxEdits) -> Nat]
      /\ \A n \in Names, v \in 0..MaxEdits :
           ran'[<<n, v>>] = IF gor[g].cfg.oneshot /\ n = Task(g) /\ v = gor[g].cfg.ver
                        THEN ran[<<n, v>>] + 1 ELSE ran[<<n, v>>]
  <2>1. /\ ran \in [Names \X (0..MaxEdits) -> Nat] /\ gor[g].cfg.ver \in 0..MaxEdits
        /\ Task(g) \in Names
    BY <1>0, <1>c, Shapes DEF TypeOK, Config
  <2>2. ran' = IF gor[g].cfg.oneshot
               THEN [ran EXCEPT ![<<Task(g), gor[g].cfg.ver>>] = @ + 1] ELSE ran
    BY DEF Fire
  <2> QED BY <2>1, <2>2
<1>k. UNCHANGED <<file, up, mu, runtimes, reload, snapshot, rename, drop, events, edits,
                  crashes, missed>>
  BY DEF Fire
<1>n. /\ edits \in Nat /\ crashes \in Nat /\ MaxEdits \in Nat
      /\ gor[g].cfg.ver \in Nat /\ gor[g].cfg.ver \in 0..MaxEdits
      /\ DOMAIN ran = Names \X (0..MaxEdits) /\ \A x \in DOMAIN ran : ran[x] \in Nat
  BY <1>0, <1>c, Numbers
<1>e. /\ \A n \in Names : /\ file[n] # None => file[n] \in Config
                          /\ snapshot[n] # None => snapshot[n] \in Config
      /\ \A h \in Slots : gor[h].cfg # None => gor[h].cfg \in Config
      /\ rename # None => rename[1] \in Names /\ rename[2] \in Config
      /\ \A c \in Config : c.ver \in Nat
  BY <1>0, Settings, Numbers
<1>v. \A c \in Config : c.ver \in 0..MaxEdits
  BY <1>0, Numbers
<1>1. TypeOK'
  <2> QED BY <1>0, <1>g, <1>x, <1>k DEF TypeOK, Goroutines
<1>2. ConfiguredGoroutines'
  BY <1>0, <1>g, <1>u DEF ConfiguredGoroutines
<1>3. EveryLoopRegistered'
  BY <1>0, <1>c, <1>g, <1>k DEF EveryLoopRegistered, Live
<1>4. Asleep'
  BY <1>u, <1>k DEF Asleep
<1>5. CancelledIsAwaited'
  BY <1>0, <1>g, <1>r, <1>k DEF CancelledIsAwaited, Cancelled
<1>6. VersionsKnown'
  BY <1>0, <1>c, <1>g, <1>k, <1>n, <1>x DEF VersionsKnown, Known
<1>7. RenameIsNew'
  <2> SUFFICES ASSUME rename # None
               PROVE  /\ Other(file[rename[1]], rename[2]) /\ Other(snapshot[rename[1]], rename[2])
                      /\ \A h \in Slots : Task(h) = rename[1] => Other(gor'[h].cfg, rename[2])
                      /\ ran'[<<rename[1], rename[2].ver>>] = 0
    BY <1>k DEF RenameIsNew, Other
  <2>1. rename[1] \in Names /\ rename[2].ver \in 0..MaxEdits
    BY <1>e, <1>v
  <2>2. ~(rename[1] = Task(g) /\ rename[2].ver = gor[g].cfg.ver)
    BY <1>0, <1>c DEF RenameIsNew, Other
  <2> QED BY <1>0, <1>g, <1>x, <2>1, <2>2 DEF RenameIsNew
<1>8. NewestWins'
  BY <1>0, <1>g, <1>r, <1>k DEF NewestWins, Applying
<1>9. SpentStaysRegistered'
  <2>1. ASSUME NEW n \in Names, NEW c \in Config, StaysRegistered(n, c), Active(c), c.oneshot,
               ran'[<<n, c.ver>>] > crashes
        PROVE  runtimes[n] # None /\ gor'[runtimes[n]].cfg = c
    <3>1. CASE ran'[<<n, c.ver>>] = ran[<<n, c.ver>>]
      BY <1>g, <1>r, <2>1, <3>1 DEF StaysRegistered, Spent, Active
    <3>2. CASE gor[g].cfg.oneshot /\ n = Task(g) /\ c.ver = gor[g].cfg.ver
      <4>1. runtimes[n] = g /\ gor[g].cfg.active
        BY <1>0, <1>c, <3>2, RegisteredIsOwn, Shapes DEF EveryLoopRegistered, Live
      <4>2. gor[g].cfg = c
        BY <1>c, <2>1, <3>2, <4>1, SameSettings DEF Active
      <4> QED BY <1>g, <4>1, <4>2, Shapes
    <3> QED BY <1>v, <1>x, <3>1, <3>2
  <2>2. ASSUME NEW n \in Names
        PROVE  StaysRegistered(n, file[n])' /\ StaysRegistered(n, snapshot[n])'
    <3>1. StaysRegistered(n, file[n]) /\ StaysRegistered(n, snapshot[n])
      BY <1>0 DEF SpentStaysRegistered
    <3> QED BY <1>e, <1>k, <2>1, <3>1 DEF StaysRegistered, Spent
  <2> QED BY <2>2 DEF SpentStaysRegistered
<1>10. SpentWaitsNoMore'
  <2>1. ASSUME NEW h \in Slots, h # g, gor[h].st = "waiting"
        PROVE  Task(h) # Task(g)
    BY <1>0, <1>c, <2>1 DEF EveryLoopRegistered, Live
  <2>2. \A h \in Slots : gor[h].cfg # None => gor[h].cfg.ver \in 0..MaxEdits
    BY <1>e, <1>v
  <2> QED BY <1>0, <1>g, <1>k, <1>x, <2>1, <2>2, Shapes DEF SpentWaitsNoMore, Spent
<1>11. OneshotRunsOnce'
  <2>1. \A x \in DOMAIN ran : ran[x] \in Nat /\ ran[x] <= 1 + crashes
    BY <1>0 DEF TypeOK, OneshotRunsOnce
  <2>2. gor[g].cfg.oneshot => ran[<<Task(g), gor[g].cfg.ver>>] <= crashes
    BY <1>0, <1>c, <1>n, Shapes DEF SpentWaitsNoMore, Spent
  <2> QED BY <1>n, <1>x, <2>1, <2>2, <1>k DEF OneshotRunsOnce
<1>12. FollowsFile'
  BY <1>0, <1>g, <1>r, <1>k DEF FollowsFile, Outdated, Applied, Applying
<1>13. DropsWhileReloading'
  BY <1>0 DEF Fire, Task, DropsWhileReloading
<1> QED BY <1>1, <1>2, <1>3, <1>4, <1>5, <1>6, <1>7, <1>8, <1>9, <1>10, <1>11, <1>12, <1>13
           DEF TaskInv

\* A one-shot task does not wait again.
LEMMA InvExecuted ==
  ASSUME TaskInv, NEW g \in Slots,
         Executed(g)
  PROVE  TaskInv'
<1>0. /\ TypeOK /\ ConfiguredGoroutines /\ EveryLoopRegistered /\ Asleep
      /\ DropsWhileReloading /\ CancelledIsAwaited /\ VersionsKnown /\ RenameIsNew
      /\ NewestWins /\ SpentStaysRegistered /\ SpentWaitsNoMore /\ OneshotRunsOnce
      /\ FollowsFile
  BY DEF TaskInv
<1>u. up /\ gor[g].st # "free"
  BY <1>0 DEF Executed, Asleep, Idle
<1>g. /\ gor' \in [Slots -> Goroutines]
      /\ \A h \in Slots : /\ gor'[h].cfg = gor[h].cfg
                          /\ gor'[h].cancelled = gor[h].cancelled
                          /\ gor'[h].st = IF h = g
                                          THEN (IF gor[g].cfg.oneshot THEN "returned" ELSE "waiting")
                                          ELSE gor[h].st
  <2> DEFINE st == IF gor[g].cfg.oneshot THEN "returned" ELSE "waiting"
  <2>1. st \in States
    BY DEF States
  <2>2. gor' = [gor EXCEPT ![g].st = st]
    BY DEF Executed
  <2> HIDE DEF st
  <2>3. /\ gor' \in [Slots -> Goroutines]
        /\ \A h \in Slots : /\ gor'[h].cfg = gor[h].cfg
                            /\ gor'[h].cancelled = gor[h].cancelled
                            /\ gor'[h].st = IF h = g THEN st ELSE gor[h].st
    BY <1>0, <2>1, <2>2, GoroutineGoesOn
  <2> QED BY <2>3 DEF st
<1>r. \A n \in Names : runtimes[n] # None => runtimes[n] \in Slots /\ Task(runtimes[n]) = n
  BY <1>0, RegisteredIsOwn
<1>k. UNCHANGED <<file, up, mu, runtimes, reload, snapshot, rename, drop, events, edits,
                  crashes, missed, ran>>
  BY DEF Executed
<1>q. gor[g].st = "executing"
  BY DEF Executed
<1>1. TypeOK'
  <2> QED BY <1>0, <1>g, <1>k DEF TypeOK, Goroutines
<1>2. ConfiguredGoroutines'
  BY <1>0, <1>g, <1>u DEF ConfiguredGoroutines
<1>3. EveryLoopRegistered'
  BY <1>0, <1>g, <1>k, <1>q DEF EveryLoopRegistered, Live
<1>4. Asleep'
  BY <1>u, <1>k DEF Asleep
<1>5. CancelledIsAwaited'
  BY <1>0, <1>g, <1>r, <1>k DEF CancelledIsAwaited, Cancelled
<1>6. VersionsKnown'
  BY <1>0, <1>g, <1>k DEF VersionsKnown, Known
<1>7. RenameIsNew'
  BY <1>0, <1>g, <1>k DEF RenameIsNew
<1>8. NewestWins'
  BY <1>0, <1>g, <1>r, <1>k DEF NewestWins, Applying
<1>9. SpentStaysRegistered'
  BY <1>0, <1>g, <1>r, <1>k DEF SpentStaysRegistered, StaysRegistered, Spent
<1>10. SpentWaitsNoMore'
  BY <1>0, <1>g, <1>k DEF SpentWaitsNoMore, Spent
<1>11. FollowsFile'
  BY <1>0, <1>g, <1>r, <1>k DEF FollowsFile, Outdated, Applied, Applying
<1>12. DropsWhileReloading' /\ OneshotRunsOnce'
  BY <1>0 DEF Executed, DropsWhileReloading, OneshotRunsOnce
<1> QED BY <1>1, <1>2, <1>3, <1>4, <1>5, <1>6, <1>7, <1>8, <1>9, <1>10, <1>11, <1>12 DEF TaskInv

\* A loop that is cancelled ends.
LEMMA InvStopped ==
  ASSUME TaskInv, NEW g \in Slots,
         Stopped(g)
  PROVE  TaskInv'
<1>0. /\ TypeOK /\ ConfiguredGoroutines /\ EveryLoopRegistered /\ Asleep
      /\ DropsWhileReloading /\ CancelledIsAwaited /\ VersionsKnown /\ RenameIsNew
      /\ NewestWins /\ SpentStaysRegistered /\ SpentWaitsNoMore /\ OneshotRunsOnce
      /\ FollowsFile
  BY DEF TaskInv
<1>u. up /\ gor[g].st # "free"
  BY <1>0 DEF Stopped, Asleep, Idle
<1>g. /\ gor' \in [Slots -> Goroutines]
      /\ \A h \in Slots : /\ gor'[h].cfg = gor[h].cfg
                          /\ gor'[h].cancelled = gor[h].cancelled
                          /\ gor'[h].st = IF h = g THEN "returned" ELSE gor[h].st
  <2>1. "returned" \in States
    BY DEF States
  <2>2. gor' = [gor EXCEPT ![g].st = "returned"]
    BY DEF Stopped
  <2> QED BY <1>0, <2>1, <2>2, GoroutineGoesOn
<1>r. \A n \in Names : runtimes[n] # None => runtimes[n] \in Slots /\ Task(runtimes[n]) = n
  BY <1>0, RegisteredIsOwn
<1>k. UNCHANGED <<file, up, mu, runtimes, reload, snapshot, rename, drop, events, edits,
                  crashes, missed, ran>>
  BY DEF Stopped
<1>1. TypeOK'
  <2> QED BY <1>0, <1>g, <1>k DEF TypeOK, Goroutines
<1>2. ConfiguredGoroutines'
  BY <1>0, <1>g, <1>u DEF ConfiguredGoroutines
<1>3. EveryLoopRegistered'
  BY <1>0, <1>g, <1>k DEF EveryLoopRegistered, Live
<1>4. Asleep'
  BY <1>u, <1>k DEF Asleep
<1>5. CancelledIsAwaited'
  BY <1>0, <1>g, <1>r, <1>k DEF CancelledIsAwaited, Cancelled
<1>6. VersionsKnown'
  BY <1>0, <1>g, <1>k DEF VersionsKnown, Known
<1>7. RenameIsNew'
  BY <1>0, <1>g, <1>k DEF RenameIsNew
<1>8. NewestWins'
  BY <1>0, <1>g, <1>r, <1>k DEF NewestWins, Applying
<1>9. SpentStaysRegistered'
  BY <1>0, <1>g, <1>r, <1>k DEF SpentStaysRegistered, StaysRegistered, Spent
<1>10. SpentWaitsNoMore'
  BY <1>0, <1>g, <1>k DEF SpentWaitsNoMore, Spent
<1>11. FollowsFile'
  BY <1>0, <1>g, <1>r, <1>k DEF FollowsFile, Outdated, Applied, Applying
<1>12. DropsWhileReloading' /\ OneshotRunsOnce'
  BY <1>0 DEF Stopped, DropsWhileReloading, OneshotRunsOnce
<1> QED BY <1>1, <1>2, <1>3, <1>4, <1>5, <1>6, <1>7, <1>8, <1>9, <1>10, <1>11, <1>12 DEF TaskInv

\* The goroutine of a loop that Reload has stopped ends.
LEMMA InvEndStopped ==
  ASSUME TaskInv, NEW g \in Slots,
         EndStopped(g)
  PROVE  TaskInv'
<1>0. /\ TypeOK /\ ConfiguredGoroutines /\ EveryLoopRegistered /\ Asleep
      /\ DropsWhileReloading /\ CancelledIsAwaited /\ VersionsKnown /\ RenameIsNew
      /\ NewestWins /\ SpentStaysRegistered /\ SpentWaitsNoMore /\ OneshotRunsOnce
      /\ FollowsFile
  BY DEF TaskInv
<1>r. \A n \in Names : runtimes[n] # None => runtimes[n] \in Slots /\ Task(runtimes[n]) = n
  BY <1>0, RegisteredIsOwn
<1>b. gor[g].st = "returned" /\ runtimes[Task(g)] # g /\ gor' = [gor EXCEPT ![g] = Idle]
  BY DEF EndStopped
<1>c. \A n \in Names : runtimes[n] # None => runtimes[n] # g
  BY <1>b, <1>r
<1>g. /\ gor' \in [Slots -> Goroutines] /\ gor'[g] = Idle
      /\ \A h \in Slots : h = g \/ gor'[h] = gor[h]
  <2>1. gor \in [Slots -> Goroutines] /\ Idle \in Goroutines
    BY <1>0 DEF TypeOK, Goroutines, Idle, Entry, States
  <2> QED BY <1>b, <2>1
<1>f. \A n \in Names : runtimes[n] # None => gor'[runtimes[n]] = gor[runtimes[n]]
  BY <1>c, <1>g, <1>r
<1>k. UNCHANGED <<file, up, mu, runtimes, reload, snapshot, rename, drop,
                  events, edits, crashes, missed, ran>>
  BY DEF EndStopped
<1>1. TypeOK'
  <2>1. gor' \in [Slots -> [cfg : Entry, st : States, cancelled : BOOLEAN]]
    BY <1>g DEF Goroutines
  <2> QED BY <1>0, <1>f, <1>k, <2>1 DEF TypeOK
<1>2. ConfiguredGoroutines'
  BY <1>0, <1>g DEF ConfiguredGoroutines, Idle
<1>3. EveryLoopRegistered'
  BY <1>0, <1>g, <1>k DEF EveryLoopRegistered, Live, Idle
<1>4. Asleep'
  <2>1. up
    BY <1>0, <1>b DEF Asleep, Idle
  <2> QED BY <1>k, <2>1 DEF Asleep
<1>5. CancelledIsAwaited'
  BY <1>0, <1>f, <1>k DEF CancelledIsAwaited, Cancelled
<1>6. VersionsKnown'
  <2>1. \A h \in Slots : Known(gor'[h].cfg) \/ gor'[h].cfg = None
    BY <1>0, <1>g DEF VersionsKnown, Idle
  <2> QED BY <1>0, <1>k, <2>1 DEF VersionsKnown, Known
<1>7. RenameIsNew'
  BY <1>0, <1>g, <1>k DEF RenameIsNew, Other, Idle
<1>8. NewestWins'
  BY <1>0, <1>f, <1>k DEF NewestWins, Applying
<1>9. SpentStaysRegistered'
  <2>1. ASSUME NEW m \in Names
        PROVE  StaysRegistered(m, file[m])' /\ StaysRegistered(m, snapshot[m])'
    <3>1. StaysRegistered(m, file[m]) /\ StaysRegistered(m, snapshot[m])
      BY <1>0 DEF SpentStaysRegistered
    <3> QED BY <1>f, <1>k, <3>1 DEF StaysRegistered, Spent
  <2> QED BY <2>1 DEF SpentStaysRegistered
<1>10. SpentWaitsNoMore'
  BY <1>0, <1>g, <1>k DEF SpentWaitsNoMore, Spent, Idle
<1>11. FollowsFile'
  BY <1>0, <1>f, <1>k DEF FollowsFile, Outdated, Applied, Applying
<1>12. DropsWhileReloading' /\ OneshotRunsOnce'
  BY <1>0 DEF EndStopped, DropsWhileReloading, OneshotRunsOnce
<1> QED BY <1>1, <1>2, <1>3, <1>4, <1>5, <1>6, <1>7, <1>8, <1>9, <1>10, <1>11, <1>12 DEF TaskInv

\* A one-shot task that was executed is switched off and stays registered.
LEMMA InvDisableOneshot ==
  ASSUME TaskInv, NEW g \in Slots,
         DisableOneshot(g)
  PROVE  TaskInv'
<1>0. /\ TypeOK /\ ConfiguredGoroutines /\ EveryLoopRegistered /\ Asleep
      /\ DropsWhileReloading /\ CancelledIsAwaited /\ VersionsKnown /\ RenameIsNew
      /\ NewestWins /\ SpentStaysRegistered /\ SpentWaitsNoMore /\ OneshotRunsOnce
      /\ FollowsFile
  BY DEF TaskInv
<1>u. up /\ gor[g].st # "free"
  BY <1>0 DEF DisableOneshot, Asleep, Idle
<1>g. /\ gor' \in [Slots -> Goroutines]
      /\ \A h \in Slots : /\ gor'[h].cfg = gor[h].cfg
                          /\ gor'[h].cancelled = gor[h].cancelled
                          /\ gor'[h].st = IF h = g THEN "over" ELSE gor[h].st
  <2>1. "over" \in States
    BY DEF States
  <2> QED BY <1>0, <2>1, GoroutineGoesOn DEF DisableOneshot
<1>r. \A n \in Names : runtimes[n] # None => runtimes[n] \in Slots /\ Task(runtimes[n]) = n
  BY <1>0, RegisteredIsOwn
<1>c. gor[g].cfg \in Config /\ gor[g].cfg # None /\ Task(g) \in Names
  BY <1>0, <1>u, Shapes DEF TypeOK, Entry, ConfiguredGoroutines
<1>w. \/ file' = file /\ events' = events
      \/ /\ events' = events + 1
         /\ file' = [file EXCEPT ![Task(g)] = [gor[g].cfg EXCEPT !.active = FALSE]]
  BY DEF DisableOneshot, Write
<1>d. [gor[g].cfg EXCEPT !.active = FALSE] \in Config
  BY <1>c DEF Config
<1>f. /\ file' \in [Names -> Entry] /\ events' \in Nat
      /\ \A n \in Names : \/ file'[n] = file[n]
                          \/ n = Task(g) /\ ~file'[n].active /\ file'[n].ver = gor[g].cfg.ver
      /\ events' = 0 => file' = file /\ events = 0
  <2>1. file \in [Names -> Entry] /\ events \in Nat
    BY <1>0 DEF TypeOK
  <2>3. [gor[g].cfg EXCEPT !.active = FALSE] \in Entry
    BY <1>d DEF Entry
  <2>4. CASE file' = file /\ events' = events
    BY <2>1, <2>4
  <2>5. CASE /\ events' = events + 1
             /\ file' = [file EXCEPT ![Task(g)] = [gor[g].cfg EXCEPT !.active = FALSE]]
    BY <1>c, <2>1, <2>3, <2>5
  <2> QED BY <1>w, <2>4, <2>5
<1>k. UNCHANGED <<up, mu, runtimes, reload, snapshot, rename, drop, edits, crashes, missed, ran>>
  BY DEF DisableOneshot
<1>e. /\ \A n \in Names : /\ file[n] # None => file[n] \in Config
                          /\ snapshot[n] # None => snapshot[n] \in Config
      /\ \A h \in Slots : gor[h].cfg # None => gor[h].cfg \in Config
      /\ rename # None => rename[1] \in Names /\ rename[2] \in Config
      /\ \A c \in Config : c.ver \in Nat
  BY <1>0, Settings, Numbers
<1>1. TypeOK'
  <2> QED BY <1>0, <1>f, <1>g, <1>k DEF TypeOK, Goroutines
<1>2. ConfiguredGoroutines'
  BY <1>0, <1>g, <1>u DEF ConfiguredGoroutines
<1>3. EveryLoopRegistered'
  BY <1>0, <1>g, <1>k DEF EveryLoopRegistered, Live
<1>4. Asleep'
  BY <1>u, <1>k DEF Asleep
<1>5. CancelledIsAwaited'
  BY <1>0, <1>g, <1>r, <1>k DEF CancelledIsAwaited, Cancelled
<1>6. VersionsKnown'
  BY <1>0, <1>c, <1>g, <1>k, <1>f DEF VersionsKnown, Known
<1>7. RenameIsNew'
  <2> SUFFICES ASSUME rename # None
               PROVE  /\ Other(file'[rename[1]], rename[2]) /\ Other(snapshot[rename[1]], rename[2])
                      /\ \A h \in Slots : Task(h) = rename[1] => Other(gor'[h].cfg, rename[2])
                      /\ ran[<<rename[1], rename[2].ver>>] = 0
    BY <1>k DEF RenameIsNew, Other
  <2>1. rename[1] \in Names
    BY <1>e
  <2> QED BY <1>0, <1>c, <1>f, <1>g, <2>1 DEF RenameIsNew, Other
<1>8. NewestWins'
  BY <1>0, <1>f, <1>g, <1>r, <1>k DEF NewestWins, Applying, Active
<1>9. SpentStaysRegistered'
  <2>1. ASSUME NEW m \in Names
        PROVE  StaysRegistered(m, file[m])' /\ StaysRegistered(m, snapshot[m])'
    <3>1. StaysRegistered(m, file[m]) /\ StaysRegistered(m, snapshot[m])
      BY <1>0 DEF SpentStaysRegistered
    <3> QED BY <1>f, <1>g, <1>k, <1>r, <3>1 DEF StaysRegistered, Spent, Active
  <2> QED BY <2>1 DEF SpentStaysRegistered
<1>10. SpentWaitsNoMore'
  BY <1>0, <1>g, <1>k DEF SpentWaitsNoMore, Spent
<1>11. FollowsFile'
  BY <1>0, <1>f, <1>g, <1>r, <1>k DEF FollowsFile, Outdated, Applied, Applying
<1>12. DropsWhileReloading' /\ OneshotRunsOnce'
  BY <1>0 DEF DisableOneshot, DropsWhileReloading, OneshotRunsOnce
<1> QED BY <1>1, <1>2, <1>3, <1>4, <1>5, <1>6, <1>7, <1>8, <1>9, <1>10, <1>11, <1>12 DEF TaskInv

\* A process that was not started yet has no goroutines, and no task was executed.
LEMMA InvInitially == Init => TaskInv
<1> SUFFICES ASSUME Init PROVE TaskInv
  OBVIOUS
<1>1. /\ \A n \in Names :
             file[n] # None => file[n] \in [ver : {0}, active : BOOLEAN, oneshot : BOOLEAN]
      /\ ~up /\ mu = None /\ reload = "idle" /\ rename = None /\ drop = FALSE
      /\ edits = 0 /\ crashes = 0 /\ events = 0
      /\ \A n \in Names : runtimes[n] = None /\ snapshot[n] = None
      /\ \A g \in Slots : gor[g] = Idle
      /\ DOMAIN ran = Names \X (0..MaxEdits) /\ \A x \in DOMAIN ran : ran[x] = 0
  BY DEF Init
<1>2. TypeOK
  <2>1. [ver : {0}, active : BOOLEAN, oneshot : BOOLEAN] \cup {None} \subseteq Entry
    BY SchedulerAssumption DEF Entry, Config
  <2>2. file \in [Names -> Entry] /\ snapshot \in [Names -> Entry]
    BY <2>1 DEF Init, Entry
  <2>3. gor \in [Slots -> Goroutines]
    BY DEF Init, Idle, Goroutines, Entry, States
  <2>4. /\ runtimes \in [Names -> Slots \cup {None}] /\ ran \in [Names \X (0..MaxEdits) -> Nat]
        /\ up \in BOOLEAN /\ drop \in BOOLEAN /\ missed \in {"nothing", "event", "file"}
        /\ events \in Nat
    BY SchedulerAssumption DEF Init
  <2>6. edits \in 0..MaxEdits /\ crashes \in 0..MaxCrashes
    BY SchedulerAssumption DEF Init
  <2>5. reload \in ReloadPCs /\ mu # "reload" /\ mu # "rename" /\ mu = None
    BY <1>1, SchedulerAssumption DEF ReloadPCs
  <2> QED BY <1>1, <2>2, <2>3, <2>4, <2>5, <2>6 DEF TypeOK, Goroutines
<1>3. ConfiguredGoroutines /\ EveryLoopRegistered /\ SpentWaitsNoMore
  BY <1>1 DEF ConfiguredGoroutines, EveryLoopRegistered, SpentWaitsNoMore, Live, Idle
<1>4. Asleep /\ DropsWhileReloading /\ CancelledIsAwaited /\ RenameIsNew /\ NewestWins
  BY <1>1
     DEF Asleep, DropsWhileReloading, CancelledIsAwaited, Cancelled, RenameIsNew, NewestWins
<1>5. VersionsKnown
  BY <1>1 DEF VersionsKnown, Known, Idle
<1>6. SpentStaysRegistered
  <2>1. \A n \in Names, c \in Config : ~(ran[<<n, c.ver>>] > crashes)
    BY <1>1 DEF Config
  <2>2. \A n \in Names : file[n] # None => file[n] \in Config
    BY <1>2, Settings
  <2> QED BY <1>1, <2>1, <2>2 DEF SpentStaysRegistered, StaysRegistered, Spent
<1>7. OneshotRunsOnce /\ FollowsFile
  BY <1>1 DEF OneshotRunsOnce, FollowsFile
<1> QED BY <1>2, <1>3, <1>4, <1>5, <1>6, <1>7 DEF TaskInv

\* Every step of the scheduler preserves the invariant.
LEMMA InvPreserved == TaskInv /\ [Next]_vars => TaskInv'
<1> SUFFICES ASSUME TaskInv, [Next]_vars PROVE TaskInv'
  OBVIOUS
<1>1. CASE Boot \/ Crash
  BY <1>1, InvBoot, InvCrash
<1>2. CASE \E n \in Names : Add(n) \/ Patch(n) \/ Delete(n) \/ EditFile(n)
  <2>1. PICK n \in Names : Add(n) \/ Patch(n) \/ Delete(n) \/ EditFile(n)
    BY <1>2
  <2>2. Edit /\ UNCHANGED <<up, memVars, crashes, missed, ran>>
    BY <2>1 DEF Add, Patch, Delete, EditFile
  <2>3. \E e \in NewConfig \cup {None} : Write(n, e)
    BY <2>1 DEF Add, Patch, Delete, EditFile
  <2> QED BY <2>2, <2>3, InvEdit
<1>3. CASE (\E n, new \in Names : PatchName(n, new)) \/ PatchNameSave
  BY <1>3, InvPatchName, InvPatchNameSave
<1>4. CASE Sentinel
  BY <1>4, InvNotice, InvActionDone DEF Sentinel
<1>5. CASE Reload
  BY <1>5, InvReadTasks, InvReadFails, InvLock, InvAllStopped, InvUnlock,
     InvCancelRuntime, InvRemoveRuntime, InvStartTask DEF Reload
<1>6. CASE \E g \in Slots : Goroutine(g)
  BY <1>6, InvFire, InvExecuted, InvStopped, InvEndStopped, InvDisableOneshot DEF Goroutine
<1>7. CASE UNCHANGED vars
  BY <1>7 DEF vars, memVars, TaskInv, TypeOK, ConfiguredGoroutines, EveryLoopRegistered, Live,
     Asleep, DropsWhileReloading, CancelledIsAwaited, Cancelled, VersionsKnown, Known,
     RenameIsNew, Other, NewestWins, Applying, SpentStaysRegistered, StaysRegistered, Spent,
     SpentWaitsNoMore, OneshotRunsOnce, FollowsFile, Outdated, Applied, Active
<1> QED BY <1>1, <1>2, <1>3, <1>4, <1>5, <1>6, <1>7 DEF Next

\* The invariant holds in every reachable state.
LEMMA InvHolds == Spec => []TaskInv
<1>1. Init => TaskInv
  BY InvInitially
<1>2. TaskInv /\ [Next]_vars => TaskInv'
  BY InvPreserved
<1> QED BY <1>1, <1>2, PTL DEF Spec

-----------------------------------------------------------------------------
(***************************************************************************)
(* Theorems                                                                *)
(***************************************************************************)

\* The variables of the service, of its goroutines and of the sentinel have their types.
THEOREM TypeCorrect == Spec => []TypeOK
<1>1. TaskInv => TypeOK
  BY DEF TaskInv
<1> QED BY <1>1, InvHolds, PTL

\* Service.stopRuntime and Service.start together: a task has one loop at most, and it is
\* the one that is registered.
THEOREM EveryLoopStaysRegistered == Spec => []EveryLoopRegistered
<1>1. TaskInv => EveryLoopRegistered
  BY DEF TaskInv
<1> QED BY <1>1, InvHolds, PTL

\* The same settings of a one-shot task are executed once, and once more for each crash,
\* however Reload, Patch and the user's editor interleave with the end of its loop.
THEOREM OneshotsRunOnce == Spec => []OneshotRunsOnce
<1>1. TaskInv => OneshotRunsOnce
  BY DEF TaskInv
<1> QED BY <1>1, InvHolds, PTL

\* Service.Reload: when all is quiet and no change was missed, what runs is what the
\* file says.
THEOREM FileApplied == Spec => []AppliedUnlessMissed
<1>1. TaskInv => AppliedUnlessMissed
  BY DEF TaskInv, FollowsFile, AppliedUnlessMissed, Quiet
<1> QED BY <1>1, InvHolds, PTL

=============================================================================
