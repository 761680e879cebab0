---------------------------- MODULE TaskScheduler ----------------------------
(***************************************************************************)
(* task.Service, the goroutines of its tasks, the file tasks.toml and the  *)
(* sentinel whose debounced action is Service.Reload.                      *)
(*                                                                         *)
(* Reload reads the file before it takes the mutex and keeps the mutex     *)
(* while it waits for the goroutines it stops.  The goroutine of a one-    *)
(* shot task takes the mutex when it is over and writes the configuration  *)
(* it was started with back to the file, switched off.                     *)
(***************************************************************************)
EXTENDS Naturals, FiniteSets

CONSTANTS
  Names,        \* names of tasks
  None,         \* no task, no goroutine, mutex free
  MaxEdits,     \* bound: changes of the file by users and by the API
  MaxCrashes    \* bound: crashes of the process

\* TaskConfig: the settings a user gave are told apart by the edit they stem
\* from, except for the two that the scheduler looks at.  A schedule that cron
\* does not accept keeps a task from being started, as active = false does.
Config == [ver : 0..MaxEdits, active : BOOLEAN, oneshot : BOOLEAN]
Entry  == Config \cup {None}

\* The goroutines of a task: one is started by the boot and one for each change.
Slots == Names \X (0..MaxEdits)

ASSUME SchedulerAssumption ==
  /\ MaxEdits \in Nat /\ MaxCrashes \in Nat
  /\ None \notin Names \cup {"reload", "rename"}
  /\ None \notin Slots \cup (Names \X Config)

VARIABLES
  file,      \* tasks.toml: the configuration under each name
  up,        \* the process runs
  mu,        \* who holds Service.mu across steps: "reload", "rename" or None
  runtimes,  \* Service.runtimes: the goroutine registered for a name
  gor,       \* every goroutine: its configuration, its state, its context
  reload,    \* where Reload stands
  snapshot,  \* the tasks Reload has read and not yet applied
  rename,    \* what Patch still has to save after it deleted the old name
  events,    \* file events not yet seen by the sentinel
  drop,      \* debouncedAction.dropUpdates
  edits,     \* edits so far
  crashes,   \* crashes so far
  missed,    \* history: what kept the last change of the file from being read
  ran        \* history: how often each one-shot configuration was executed

memVars == <<mu, runtimes, gor, reload, snapshot, rename, drop>>
vars == <<file, up, memVars, events, edits, crashes, missed, ran>>

States == {"free", "waiting", "executing", "returned", "over"}
ReloadPCs == {"idle", "armed", "lock", "stop", "await", "start", "done"}
Idle == [cfg |-> None, st |-> "free", cancelled |-> FALSE]

\* start: a new context, a new goroutine.
Started(c) == [cfg |-> c, st |-> "waiting", cancelled |-> FALSE]

Active(entry) == entry # None /\ entry.active

\* The variables have their types; the mutex is held where Reload or a rename
\* expects it, and only active tasks are registered (Service.runTasks).
TypeOK ==
  /\ file \in [Names -> Entry]
  /\ up \in BOOLEAN
  /\ mu \in {"reload", "rename", None}
  /\ runtimes \in [Names -> Slots \cup {None}]
  /\ gor \in [Slots -> [cfg : Entry, st : States, cancelled : BOOLEAN]]
  /\ reload \in ReloadPCs
  /\ snapshot \in [Names -> Entry]
  /\ rename \in (Names \X Config) \cup {None}
  /\ events \in Nat
  /\ drop \in BOOLEAN
  /\ edits \in 0..MaxEdits
  /\ crashes \in 0..MaxCrashes
  /\ missed \in {"nothing", "event", "file"}
  /\ ran \in [Names \X (0..MaxEdits) -> Nat]
  /\ mu = "reload" <=> reload \in {"stop", "await", "start"}
  /\ mu = "rename" <=> rename # None
  /\ \A n \in Names : runtimes[n] # None =>
       runtimes[n][1] = n /\ Active(gor[runtimes[n]].cfg)

Init ==
  /\ file \in [Names -> [ver : {0}, active : BOOLEAN, oneshot : BOOLEAN]
                          \cup {None}]
  /\ up = FALSE
  /\ mu = None
  /\ runtimes = [n \in Names |-> None]
  /\ gor = [g \in Slots |-> Idle]
  /\ reload = "idle"
  /\ snapshot = [n \in Names |-> None]
  /\ rename = None
  /\ events = 0
  /\ drop = FALSE
  /\ edits = 0
  /\ crashes = 0
  /\ missed = "nothing"
  /\ ran = [x \in Names \X (0..MaxEdits) |-> 0]

\* The goroutine g runs the loop of a task.
Live(g) == gor[g].st \in {"waiting", "executing"}

Task(g) == g[1]

-----------------------------------------------------------------------------
(***************************************************************************)
(* The process                                                             *)
(***************************************************************************)

\* NewService: every active task of the file is started.
Boot ==
  /\ ~up
  /\ up' = TRUE
  /\ gor' = [g \in Slots |->
               IF Active(file[Task(g)]) /\ g[2] = 0 THEN Started(file[Task(g)]) ELSE Idle]
  /\ runtimes' = [n \in Names |-> IF Active(file[n]) THEN <<n, 0>> ELSE None]
  /\ missed' = "nothing"
  /\ UNCHANGED <<file, mu, reload, snapshot, rename, drop, events, edits, crashes, ran>>

\* The process dies between any two steps: only the file stays.
Crash ==
  /\ up
  /\ crashes < MaxCrashes
  /\ crashes' = crashes + 1
  /\ up' = FALSE
  /\ mu' = None
  /\ runtimes' = [n \in Names |-> None]
  /\ gor' = [g \in Slots |-> Idle]
  /\ reload' = "idle"
  /\ snapshot' = [n \in Names |-> None]
  /\ rename' = None
  /\ events' = 0
  /\ drop' = FALSE
  /\ UNCHANGED <<file, edits, missed, ran>>

-----------------------------------------------------------------------------
(***************************************************************************)
(* Changes of the file                                                     *)
(***************************************************************************)
Write(n, entry) ==
  /\ file' = [file EXCEPT ![n] = entry]
  /\ events' = events + 1

Edit ==
  /\ up
  /\ edits < MaxEdits
  /\ edits' = edits + 1

\* New settings, known by the edit they come with.
NewConfig == [ver : {edits + 1}, active : BOOLEAN, oneshot : BOOLEAN]

\* Service.Add, under mu: the name must be new.
Add(n) ==
  /\ Edit
  /\ mu = None
  /\ file[n] = None
  /\ \E c \in NewConfig : Write(n, c)
  /\ UNCHANGED <<up, memVars, crashes, missed, ran>>

\* Service.Patch without a new name, under mu.
Patch(n) ==
  /\ Edit
  /\ mu = None
  /\ file[n] # None
  /\ \E c \in NewConfig : Write(n, c)
  /\ UNCHANGED <<up, memVars, crashes, missed, ran>>

\* Service.Patch with a new name keeps mu over two writes of the file: the old
\* name is deleted, then the task is saved under the new one.
PatchName(n, new) ==
  /\ Edit
  /\ mu = None
  /\ n # new /\ file[n] # None /\ file[new] = None
  /\ mu' = "rename"
  /\ \E c \in NewConfig : rename' = <<new, c>>
  /\ Write(n, None)
  /\ UNCHANGED <<up, runtimes, gor, reload, snapshot, drop, crashes, missed, ran>>

PatchNameSave ==
  /\ mu = "rename"
  /\ \/ Write(rename[1], rename[2])
     \/ UNCHANGED <<file, events>>    \* the save fails
  /\ mu' = None
  /\ rename' = None
  /\ UNCHANGED <<up, runtimes, gor, reload, snapshot, drop, edits, crashes, missed, ran>>

\* Service.Delete, under mu.
Delete(n) ==
  /\ Edit
  /\ mu = None
  /\ file[n] # None
  /\ Write(n, None)
  /\ UNCHANGED <<up, memVars, crashes, missed, ran>>

\* A user edits tasks.toml, which takes no lock.
EditFile(n) ==
  /\ Edit
  /\ \E entry \in NewConfig \cup {None} : entry # file[n] /\ Write(n, entry)
  /\ UNCHANGED <<up, memVars, crashes, missed, ran>>

-----------------------------------------------------------------------------
(***************************************************************************)
(* sentinel: one action at a time.  The event that starts the timer is     *)
(* noted; those that come until the action is over are dropped.            *)
(***************************************************************************)

\* debouncedAction.Do
Notice ==
  /\ up
  /\ events > 0
  /\ events' = events - 1
  /\ drop' = TRUE
  /\ reload' = IF drop THEN reload ELSE "armed"
  /\ missed' = IF drop /\ reload # "armed" /\ missed = "nothing"
               THEN "event" ELSE missed
  /\ UNCHANGED <<file, up, mu, runtimes, gor, snapshot, rename, edits, crashes, ran>>

\* The action returned, with or without an error.
ActionDone ==
  /\ reload = "done"
  /\ reload' = "idle"
  /\ drop' = FALSE
  /\ UNCHANGED <<file, up, mu, runtimes, gor, snapshot, rename,
                 events, edits, crashes, missed, ran>>

-----------------------------------------------------------------------------
(***************************************************************************)
(* Service.Reload                                                          *)
(***************************************************************************)
\* The debounce time is over; repo.All(), before the mutex is taken.
ReadTasks ==
  /\ reload = "armed"
  /\ snapshot' = file
  /\ reload' = "lock"
  /\ missed' = "nothing"
  /\ UNCHANGED <<file, up, mu, runtimes, gor, rename, drop, events, edits, crashes, ran>>

\* The file cannot be read or parsed.
ReadFails ==
  /\ reload = "armed"
  /\ reload' = "done"
  /\ missed' = "file"
  /\ UNCHANGED <<file, up, mu, runtimes, gor, snapshot, rename, drop,
                 events, edits, crashes, ran>>

Lock ==
  /\ reload = "lock"
  /\ mu = None
  /\ mu' = "reload"
  /\ reload' = "stop"
  /\ UNCHANGED <<file, up, runtimes, gor, snapshot, rename, drop,
                 events, edits, crashes, missed, ran>>

\* A Reload that stops deleted tasks only.
DeletedOnly == {n \in Names : runtimes[n] # None /\ snapshot[n] = None}

\* The runtimes of deleted and of changed tasks.
Outdated == {n \in Names : runtimes[n] # None /\ snapshot[n] # gor[runtimes[n]].cfg}

\* rt.cancel(): the runtime to wait for is the one whose context is cancelled.
CancelRuntime(n) ==
  /\ reload = "stop"
  /\ n \in Outdated
  /\ gor' = [gor EXCEPT ![runtimes[n]].cancelled = TRUE]
  /\ reload' = "await"
  /\ UNCHANGED <<file, up, mu, runtimes, snapshot, rename, drop,
                 events, edits, crashes, missed, ran>>

\* A Reload that does not wait for the goroutine it cancelled.
ForgetRuntime(n) ==
  /\ reload = "await"
  /\ runtimes[n] # None
  /\ gor[runtimes[n]].cancelled
  /\ runtimes' = [runtimes EXCEPT ![n] = None]
  /\ reload' = "stop"
  /\ UNCHANGED <<file, up, mu, gor, snapshot, rename, drop, events, edits, crashes, missed, ran>>

\* <-rt.stopped, and the runtime is removed.
RemoveRuntime(n) ==
  /\ reload = "await"
  /\ runtimes[n] # None
  /\ gor[runtimes[n]].cancelled
  /\ ~Live(runtimes[n])
  /\ runtimes' = [runtimes EXCEPT ![n] = None]
  /\ gor' = IF gor[runtimes[n]].st = "over"
            THEN [gor EXCEPT ![runtimes[n]] = Idle] ELSE gor
  /\ reload' = "stop"
  /\ UNCHANGED <<file, up, mu, snapshot, rename, drop, events, edits, crashes, missed, ran>>

AllStopped ==
  /\ reload = "stop"
  /\ Outdated = {}
  /\ reload' = "start"
  /\ UNCHANGED <<file, up, mu, runtimes, gor, snapshot, rename, drop,
                 events, edits, crashes, missed, ran>>

\* The tasks of the snapshot that are to be started.
Startable == {n \in Names : runtimes[n] = None /\ Active(snapshot[n])}

StartTask(n) ==
  /\ reload = "start"
  /\ n \in Startable
  /\ \E i \in 0..MaxEdits :
       /\ gor[<<n, i>>].st = "free" /\ \A j \in 0..i - 1 : gor[<<n, j>>].st # "free"
       /\ gor' = [gor EXCEPT ![<<n, i>>] = Started(snapshot[n])]
       /\ runtimes' = [runtimes EXCEPT ![n] = <<n, i>>]
  /\ UNCHANGED <<file, up, mu, reload, snapshot, rename, drop,
                 events, edits, crashes, missed, ran>>

Unlock ==
  /\ reload = "start"
  /\ Startable = {}
  /\ mu' = None
  /\ snapshot' = [n \in Names |-> None]
  /\ reload' = "done"
  /\ UNCHANGED <<file, up, runtimes, gor, rename, drop,
                 events, edits, crashes, missed, ran>>

-----------------------------------------------------------------------------
(***************************************************************************)
(* The goroutine of a task                                                 *)
(***************************************************************************)

\* The schedule fires.  Where the context is done too, select takes either.
Fire(g) ==
  /\ gor[g].st = "waiting"
  /\ gor' = [gor EXCEPT ![g].st = "executing"]
  /\ ran' = IF gor[g].cfg.oneshot
            THEN [ran EXCEPT ![<<Task(g), gor[g].cfg.ver>>] = @ + 1] ELSE ran
  /\ UNCHANGED <<file, up, mu, runtimes, reload, snapshot, rename, drop,
                 events, edits, crashes, missed>>

\* Execute returns: the loop goes on, or a one-shot task is over.
Executed(g) ==
  /\ gor[g].st = "executing"
  /\ gor' = [gor EXCEPT ![g].st = IF gor[g].cfg.oneshot THEN "returned" ELSE "waiting"]
  /\ UNCHANGED <<file, up, mu, runtimes, reload, snapshot, rename, drop,
                 events, edits, crashes, missed, ran>>

\* A loop that closes stopped only when it has the mutex.
StoppedUnderMu(g) ==
  /\ gor[g].st = "waiting"
  /\ gor[g].cancelled
  /\ mu = None
  /\ gor' = [gor EXCEPT ![g].st = "returned"]
  /\ UNCHANGED <<file, up, mu, runtimes, reload, snapshot, rename, drop,
                 events, edits, crashes, missed, ran>>

\* The context is done; close(stopped).
Stopped(g) ==
  /\ gor[g].st = "waiting"
  /\ gor[g].cancelled
  /\ gor' = [gor EXCEPT ![g].st = "returned"]
  /\ UNCHANGED <<file, up, mu, runtimes, reload, snapshot, rename, drop,
                 events, edits, crashes, missed, ran>>

\* Under mu, after stopped is closed: a goroutine that is not registered any more
\* was stopped by Reload and just ends.
EndStopped(g) ==
  /\ gor[g].st = "returned"
  /\ mu = None
  /\ runtimes[Task(g)] # g
  /\ gor' = [gor EXCEPT ![g] = Idle]
  /\ UNCHANGED <<file, up, mu, runtimes, reload, snapshot, rename, drop,
                 events, edits, crashes, missed, ran>>

\* A goroutine that switches its task off and takes itself out of the runtimes.
DisableAndForget(g) ==
  /\ gor[g].st = "returned"
  /\ mu = None
  /\ runtimes[Task(g)] = g
  /\ Write(Task(g), [gor[g].cfg EXCEPT !.active = FALSE])
  /\ runtimes' = [runtimes EXCEPT ![Task(g)] = None]
  /\ gor' = [gor EXCEPT ![g] = Idle]
  /\ UNCHANGED <<up, mu, reload, snapshot, rename, drop, edits, crashes, missed, ran>>

\* A one-shot task is over: the configuration it was started with is saved with
\* active = false, whatever the file says by now, or the save fails.  The runtime
\* stays registered until a Reload removes it.
DisableOneshot(g) ==
  /\ gor[g].st = "returned"
  /\ mu = None
  /\ runtimes[Task(g)] = g
  /\ \/ Write(Task(g), [gor[g].cfg EXCEPT !.active = FALSE])
     \/ UNCHANGED <<file, events>>
  /\ gor' = [gor EXCEPT ![g].st = "over"]
  /\ UNCHANGED <<up, mu, runtimes, reload, snapshot, rename, drop, edits, crashes, missed, ran>>

-----------------------------------------------------------------------------
Sentinel == Notice \/ ActionDone

Reload ==
  \/ ReadTasks \/ ReadFails \/ Lock \/ AllStopped \/ Unlock
  \/ \E n \in Names : CancelRuntime(n) \/ RemoveRuntime(n) \/ StartTask(n)

Goroutine(g) ==
  Fire(g) \/ Executed(g) \/ Stopped(g) \/ EndStopped(g) \/ DisableOneshot(g)

Next ==
  \/ Boot \/ Crash
  \/ \E n \in Names : Add(n) \/ Patch(n) \/ Delete(n) \/ EditFile(n)
  \/ \E n, new \in Names : PatchName(n, new)
  \/ PatchNameSave
  \/ Sentinel \/ Reload
  \/ \E g \in Slots : Goroutine(g)

Spec == Init /\ [][Next]_vars

(***************************************************************************)
(* The timer of the sentinel fires, goroutines run, Patch goes on and a    *)
(* context that is done makes Execute return; select is fair.  No schedule *)
(* has to fire, nobody has to edit, and Execute may take for ever as long  *)
(* as nobody cancels it.                                                   *)
(***************************************************************************)
Fairness ==
  /\ WF_vars(\/ Reload \/ ActionDone \/ PatchNameSave
             \/ \E g \in Slots : gor[g].cancelled /\ Executed(g))
  /\ SF_vars(\E g \in Slots : Stopped(g))

FairSpec == Spec /\ Fairness

-----------------------------------------------------------------------------
(***************************************************************************)
(* Properties                                                              *)
(***************************************************************************)

\* Every loop that runs is the registered one of its task: a task has at most one
\* loop, and one that was changed or deleted can still be stopped
\* (Service.stopRuntime waits for the loop before it forgets it).
EveryLoopRegistered == \A g \in Slots : Live(g) => runtimes[Task(g)] = g

\* "Switched off after their first execution": the same settings of a one-shot task
\* are executed once, and once more only when a crash came before they were
\* switched off, whatever Reload read in the meantime (service.go:152-168).
OneshotRunsOnce == \A x \in DOMAIN ran : ran[x] <= 1 + crashes

Quiet == up /\ events = 0 /\ reload = "idle" /\ mu = None

\* What runs is what tasks.toml says.
Applied ==
  \A n \in Names :
    IF Active(file[n])
    THEN runtimes[n] # None /\ gor[runtimes[n]].cfg = file[n]
    ELSE runtimes[n] = None

\* When all is quiet the active tasks of the file, and no others, are registered
\* with the settings of the file, unless the last change was dropped by the
\* sentinel or could not be read (Service.Reload, debouncedAction.Do).
AppliedUnlessMissed == Quiet /\ missed = "nothing" => Applied

\* A reload ends, although it waits for loops with the mutex held that each loop
\* takes when it ends (service.go:145-150), or the process dies.
ReloadEnds == (reload # "idle") ~> (reload = "idle")
=============================================================================
