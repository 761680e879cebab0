# Verification of arch-agent

TLA+ specifications of arch-agent, a server that runs LLM agents: their chats,
their tools, their scheduled tasks and their memory. The specifications are
translated from the Go source under `src/`; TLC checks them on small instances
and TLAPS proves theorems about them for every value of the constants.
`PROJECT.json` lists the components, the runs, the mutants (a plausible bug for
every property, which the property must catch), the lines each definition
models, the hazards and the theorems.

## The system

arch-agent is one process (`cmd/agent/main.go`, wired in `internal/wire.go`). An
HTTP API starts chats; a cron scheduler starts tasks; agents call tools, among
them other agents. All durable state is files under one data directory, and
directory watchers reload the services when those files change.

| Component | State | Operations | Interacts with |
|---|---|---|---|
| Chat dispatcher (`chat/dispatcher.go`) | map session → running request, one mutex; per request a cancel function and a `done` channel | `Chat`, `Interrupt` | called by the HTTP API; calls the chat service |
| Chat service (`chat/service.go`) | none of its own; per run a session in memory and an event channel of 16 | `Chat`: load the session, build the context, start the loop, consume its events, save | called by the dispatcher, and directly by tasks and sub-agents |
| Agent loop (`runtime/*`) | context, turns left, mistakes | a turn: completion, hooks, compaction, tool calls | sends events to the chat service, calls models, tools, hooks |
| Sessions (`session/*`, `files/sessions.go`) | a JSONL file per session; its messages in memory during a run | create, load, save, delete, list; `AddMessages`, `ApplyCompletion`, `OverwriteMessages` | chat service, API, cleanup |
| Task scheduler (`task/*`, `cron`, `files/tasks.go`) | map of running task runtimes and the task files, one mutex | `Reload`, `Add`, `Patch`, `Delete`, `List`; a goroutine per task | cron, chat service, watcher |
| Watcher (`sentinel`) | a timer and a flag per watched directory | debounce file events into one reload | every service that reloads |
| MCP and tool registry (`mcp/*`, `tools/service.go`) | connected gateways and their configurations; map name → tool server | `Reload`, `SetServer`, `Connect`, `Disconnect` | watcher, API, chat service |
| Provided tools (`api/provided_tools.go`) | map call → waiting tool, a channel of one per tool | register, `Call`, `ResolveCall`, unregister | a chat's HTTP stream and the result endpoint |
| Memory (`memory/*`, `files/memory_config.go`, `files/activity.go`) | a buffer and a timer per session, the configurations of the journal and of the consolidation, `memory.toml` | `Commit`, flush, `SaveConfig`, `Reload`, consolidate | chat service, API, watcher, models |
| File storage (`files/filesystem.go`, `locktable.go`, `temporary.go`) | a lock per path in use | read, write, create, remove, rename, link | everything that is stored |
| Session cleanup (`cleanup/*`) | what it has listed and read in a round | delete expired and unreadable sessions on a timer | sessions |
| Models and providers (`model/*`, `openai/*`, `files/models.go`) | the registry of models, `models.toml` | reload, add, update and delete providers and models, `Get`, complete | agent loop, memory, secrets, watcher |
| Context assembler (`chat/context_assembler.go`) | a cached system message and a timer per session | `BuildSystemMessage` | chat service, agents, skills |
| To-do store and hooks (`tools/todo`, `hooks/*`) | a list and a timer per session; attempts per session | list, update; accept or refuse a completion | agent loop |
| Sub-agents (`subagent`, `tools/call_agent.go`) | the depth in the context | run another agent to its end | tools, chat service, sessions |
| Secrets, agents, HTTP handlers, logging | files and maps of them | reload, read, write | as above |

### What is hard in it

* **Concurrency.** A request supersedes the running one of its session, several
  may queue up behind it, an interrupt may arrive at any point, and the runs of
  tasks and sub-agents take no part in the protocol. The loop and the consumer
  of its events are two goroutines that share their messages, and after a compaction
  a slice.
* **Stale state.** A session is read when a run starts and rewritten when it
  ends; a task's configuration is kept by its runtime and written back when a
  one-shot task ends; registries are swapped while chats hold what they got.
* **Partial failure.** A tool, a hook, a completion, a compaction or a save can
  fail at any point of a run, and the session must be a conversation all the same.
* **Timeouts.** Tool calls have deadlines, completions have none; a provided
  tool's result may come after its call was given up. Buffers, cached messages
  and todos go away on timers, also while they are being used.
* **Cycles of references.** `memory.toml` names models of `models.toml`, whose
  models need keys of `secrets.toml`; three watchers reload the three files in
  any order, and each of them drops events.

What makes each component correct is said by the properties of its module.

## Modules

| Module | Models | |
|---|---|---|
| `ChatDispatcher` | the dispatcher, and of a run its load, its turns and its save | core |
| `SerialSessions` | what the dispatcher promises: one run at a time on a session, no update lost | abstract specification |
| `ChatProofs` | theorems about `ChatDispatcher`, and about `Delegation` | proofs |
| `MCChatDispatcher` | instances of `ChatDispatcher` | TLC |
| `AgentLoop` | the loop, its event channel, the consumer and the session it rebuilds, run after run | core |
| `AgentLoopProofs` | theorems about `AgentLoop` | proofs |
| `MCAgentLoop` | instances of `AgentLoop` | TLC |
| `TaskScheduler` | `task.Service`, the loops of its tasks, `tasks.toml` and the sentinel in front of `Reload` | core |
| `MCTaskScheduler` | instances of `TaskScheduler` | TLC |
| `TaskSchedulerProofs` | theorems about `TaskScheduler` | proofs |
| `ProvidedTools` | the chat handler of the API, its response stream, the tools a client provides and the results it posts | core |
| `MCProvidedTools` | instances of `ProvidedTools` | TLC |
| `ProvidedToolsProofs` | theorems about `ProvidedTools` | proofs |
| `McpService` | `mcp.Service`, the connections and their goroutines, the tool registry, `mcp.toml` and the sentinel in front of `Reload` | core |
| `MCMcpService` | instances of `McpService` | TLC |
| `McpServiceProofs` | theorems about `McpService` | proofs |
| `PathMutex` | what the lock table promises: one mutex per path | abstract specification |
| `PathLocks` | the lock table and the order in which operations take locks | core |
| `StorageProofs` | theorems about `PathLocks`, that it implements `PathMutex`, and about `SessionStore` | proofs |
| `SessionStore` | session files, with the locks of `PathMutex`, and their cleanup | composes `PathMutex` |
| `ActivityReporter` | commits, buffers, timers and the journal | core |
| `ModelRegistry` | `models.toml`, `secrets.toml`, their registries, their watchers and the operations on providers | core |
| `MemoryConfig` | `memory.toml`, its saves, its watcher and the two services it configures | composes `ModelRegistry` |
| `MemoryConfigProofs` | theorems about `MemoryConfig` and the `ModelRegistry` in it | proofs |
| `Consolidation` | the daily consolidation and the one a client asks for, during reloads | core |
| `MemoryProofs` | theorems about `ActivityReporter` and `Consolidation` | proofs |
| `ChatMemory` | what is kept in memory of a session between requests: system message and todos, with their timers | core |
| `Delegation` | a chat and the sub-agents it calls, and the hook that counts undone todos | composes `ChatMemory` |
| `MCPathLocks`, `MCSessionStore`, `MCActivityReporter`, `MCMemoryConfig`, `MCConsolidation`, `MCDelegation` | instances of these | TLC |

### ChatDispatcher

Three kinds of calls are processes with a program counter `pc`: `Requests`
(`Dispatcher.Chat`), `Interrupts` (`Dispatcher.Interrupt`) and `Directs`
(`Service.Chat` called by `task.executor` and `subagent.Service` on a session
they have just created). `Init` gives every call any session.

| Code | Model |
|---|---|
| `Dispatcher.processes`, `Dispatcher.mu` | `processes`, `mu` (an `Interrupt` holds `mu` over several steps; `swap` and `remove` are one step each and wait for `mu` to be free) |
| `requestProcessing.cancel`, `.done` | membership in `cancelled`, `done` |
| `swap`, `prev.cancel()`, `<-prev.done` | `Swap`, `CancelPrev`, `AwaitPrev` |
| the deferred `cancel`, `close(done)`, `remove` | `CloseDone`, then `RemoveEntry` |
| `Interrupt` | `InterruptIdle`, or `InterruptRunning` and `InterruptReturn` |
| `Service.Chat` up to the loop | `LoadSession`, `ServeFails` for each early return |
| the loop | `CheckContext`, `RunTurn`: the context is looked at once a turn, and a turn may never end |
| the save at `LoopExitEvent` | `SaveSession`, `SaveFails` (the error is only logged) |
| `sink <- outEv` of the exit | `Forwarded`: a client that does not read it keeps the run |
| session files | `status` and `stored`: the set of runs whose exchange the file holds; `mem` is the copy of a run |

A run that waits for good, for a tool that does not look at its context or for a client
that does not read, is at `"hung"`. `ticket`, `clock` and `saved` are history variables.
The messages of a session are abstracted to the set of runs that contributed;
`AgentLoop` has the messages.

### AgentLoop

One session and one run after the other. `lpc` is the loop's place in
`RunAgentLoop`, `messages` its context, `events` the channel, `sess` the session
in memory that the consumer rebuilds and `stored` the session file. A message is
its role, the calls it makes or answers and the set of things its text says, so
that merging two messages and joining a summary to one are unions. A user's message
has an image; `Seeing` are the runs whose model takes one. What a model,
a hook or a tool does is an outcome: `Completes` (with any number of calls, done or
not, over the threshold or not), `Mistake` and `Caution`, `CompletionFails`, `Overflows`;
`CallSucceeds`, `CallFails`, `CallHangs`; `Compact`, `CompactionFails`.

The loop and the session hold pointers to the same messages (`chat/service.go:155`, and
the events carry them too), and the code changes a message in place in two places: a
model that takes no images is shown a note instead of each (`TopOfTurn`, `Shown`,
`Unseen`; `openai/reasoner.go:154`), and a compaction joins its summary to the first
message that stays, if it is a user's (`Joined`; `runtime/compaction.go:79`). Each of the
two makes the same change in the loop's context, in the session and in the events that
are still in the channel (`InPlace`, `Sent`), and so in the file at the next save. The
model has messages by value: two that can change are never equal, since each says what
no other says.

`doCompact` cuts at 70 % of the messages and hands the same slice to the loop
and, in its event, to the session. Go's `append` gives such a slice spare capacity
from 17 messages on, and while it lasts both goroutines write to one array.
`loopArr` and `sessArr` say which array and capacity each slice has, and
`LoopAppends` and `SessionAppends` write through to the other slice where the
positions overlap. The unsynchronised writes are atomic in the model: in each order.
Two history variables name what the properties except: `broken`, that a compaction
failed before the calls of its completion were made, and `clobbered`, the runs in
which the session wrote something else than the loop had where the loop was first.

### TaskScheduler

`file` is `tasks.toml`, `mu` the mutex of `task.Service` where it is held over
several steps (`Reload`, and a `Patch` with a new name, which writes twice), `runtimes`
the map of registered loops and `gor` the goroutines themselves. A configuration
is the edit it stems from and its flags `active` and `oneshot`; recipients, request
and schedule are that edit.

| Code | Model |
|---|---|
| `NewService` | `Boot` |
| `debouncedAction.Do`, its timer, its flag `dropUpdates` | `Notice`, `ReadTasks` (the timer fires and `Reload` reads), `ActionDone`, `drop` |
| `Reload`: `repo.All()`, `mu.Lock()` | `ReadTasks` or `ReadFails`, `Lock` |
| `stopRuntime` | `CancelRuntime`, then `RemoveRuntime` when `stopped` is closed |
| `runTasks`, `start` | `StartTask` |
| `runLoop` | `Fire`, `Executed`, `Stopped` |
| what the goroutine does after its loop | `EndStopped` or `DisableOneshot` |
| `Add`, `Patch`, `Delete` | actions of these names; `PatchName` and `PatchNameSave` for a new name |
| an editor, a crash | `EditFile`, `Crash` |

`Reload` visits the tasks in any order, as a `range` over a map does. It does not
look at deleted tasks first, which only makes the model's order freer. `ran` and
`missed` are history variables: how often each one-shot configuration was
executed, and what kept the last change from being read.

### ProvidedTools

Several chats with provided tools share one table of waiters. `call[c]` is the
call the loop of chat `c` is in, `post` the requests of the result endpoint, each
with the call it is meant for. Events carry what they are about and nothing else.

| Code | Model |
|---|---|
| `chatHandler.Chat` | `Register`, `Open` or `BadRequest`, then `Forward`, `Unregister`, `Close` |
| `Service.Chat` in its goroutine | `RunEnds`, `RunFails`; of the loop only its calls of provided tools |
| `providedToolsRouter.waiters`, `ProvidedTool.resultCh` | `waiters`, `resultCh` (a sequence of at most one) |
| `ProvidedTool.Call` | `CallRefused` (its arguments are no JSON), or `Call`, then `Receive` or `TimeOut` |
| `processToolCalls` | `Report`: the result, or the error, is sent to the stream |
| `ResolveCall` | `Lookup` under the lock, `Put` after it |

A `Put` into a full channel waits, and nothing ends that wait: the model has it so.

### McpService

A connection is an element of `Servers` with its name, its configuration and the
state its goroutine is in; it is free again when the code holds no reference to
it. `servers` is the map of `mcp.Service` and `registry` that of
`tools.Service`. Whoever runs `connectServer` is a connector: a boot or `Reload`
for each name, `SetServer` for each call. As in `TaskScheduler` a configuration is
the edit it stems from.

| Code | Model |
|---|---|
| `load`, `connectServers` | `Init`, `Connecting`, `AllConnected` |
| `Reload` | `ReadConfig` or `ReadFails`, `Apply` (what is under the mutex), the connectors, `AllConnected` |
| `connectServer` | `Factory` or `FactoryFails`, `Connect` or `ConnectRefused`, `Launch` |
| `SetServer` | `SetServer` (the lookup under the mutex), the connector, `SaveConfig` (shutdown and save) |
| the goroutine of a connection | `RunStarts`, `RunFails` or `ListFails`, `SessionEnds`, `Disconnect` |
| `Shutdown` | the flag `shutdown` of a connection |
| `DeleteServer`, an editor | `Edit` |

`missed` and `lost` are history variables: whether a `Reload` has read the last
change, and how it failed to connect a name. A change made during the boot is
missed too, since the watcher starts after it. When the server is connected and its
tools cannot be listed, `Run` returns without closing the session and before `Shutdown`
could (`ListFails`): the connection is unregistered and `"leaked"`, and holds its session
until the process ends. `MaxLeaks` bounds such connections. A broken connection stays in
`servers`, where `Reload` takes it for connected; the code reconnects it only when
its configuration changes, and the properties promise no more.

### PathLocks and PathMutex

An operation of `Filesystem` is a process that wants one path or two and goes
through `lockTable.Lock` for each. An entry is an element of `Entries`, free
again when nothing refers to it; paths are numbers, so that their order can be
spoken of.

| Code | Model |
|---|---|
| `lockTable.locks`, `lockEntry.refs`, `lockEntry.mu` | `locks`, `refs`, `owner` |
| `ReadFile`, `WriteFile`, `Open`, `Remove`, ... | `OneLock` |
| `Rename`, `Link`, `Symlink` | `TwoLocks`: the old path, then the new one |
| `acquire`, `e.mu.Lock()` | `Acquire`, `LockEntry` |
| the function `Lock` returns | `UnlockEntry`, `Release` |

The read lock of an entry has no caller, so an entry is a plain mutex. Nor has
`fileStorage.Create` (`files/filesystem.go:145`), which is left out: it unlocks the path
by `defer` and hands the same unlock to `File.Close`, so that the path is free while its
file is open and the entry is given up twice. Who calls it first has to mend it; nothing
here holds of it. Two
operations that cross each other's paths, and one whose two paths are the same,
wait for ever: the code has it so and so has the model. `PathMutex` is what the
rest of the system sees: one mutex per path.

### SessionStore

A session file is `Absent`, `Torn` (truncated, or without a header that can be read)
or its header: the time in `updated_at` and whether it is longer than the
line scanner accepts. A save truncates the file and then fills it, under the
mutex of the path, which is an instance of `PathMutex`.

| Code | Model |
|---|---|
| `session.Service.Create`, `Session`, `Save`, `Delete` | `Create`, `Load`, `Truncate` and `Fill` or `FillFails`, `Delete` |
| `SessionFiles.Headers` | `List` (the folder is read without a lock), `ReadHeader` for each file, `ReadAll` |
| `handleBrokenSessions`, `eliminateDepricatedSessions` | `DeleteBroken`; `CutDate`, `DeleteOld` |
| a crash, an edit by hand | `Crash`, `Damage` |

Time is a clock of few ticks. Nothing in the code renews `updated_at`, and so
nothing does in the model: a session in use expires as well.

### ActivityReporter

A commit is a number; a buffer is called after the commit that makes it. `pc` is
where a commit stands in `Commit`, `timer` where the callback of a buffer's timer
stands.

| Code | Model |
|---|---|
| `Commit` | `Begin`, `CheckEnabled`, `GetBuffer`, `AppendMsgs` |
| `getBuffer`, its timer | `GetBuffer`, `Fire` |
| `releaseBuffer`, `extractActivity` | `ReleaseBuffer`, `Transcript`, then `Log` or `LogFails` |
| `Reload` | `Switch` |

`lost` is a history variable that says why a commit will not be in the journal: it
was appended to a buffer that had been read (`late`), the model or the file
failed, or the timer found the journal switched off. In that last case the
buffer stays in the map without a timer, and so do all later commits to it.

### ModelRegistry and MemoryConfig

`ModelRegistry` has `models.toml` (a URL and a set of models for each provider),
`secrets.toml` (the providers whose key is there) and what the process holds of
them; `MemoryConfig` adds `memory.toml` and the two services that look their
models up in the registry. Each file has a watcher: events, and a debounced action
during which further events are dropped.

| Code | Model |
|---|---|
| `ProviderService.Reload` | `ReadProviders`, `LoadProvider` for each, `ReloadEnds`; `LoadPanics` (the service has no logger when a model cannot be loaded) |
| `AddProvider`, `UpdateProvider`, `DeleteProvider`, `SetModel`, `DeleteModel` | actions of these names, which leave in `api` what is still to do; `SaveProvider`, `DeleteOldName`, `DeleteFromFile`, `SaveWithout`, `Unlist`, `SaveFails` (before the write, or in it: `Torn`) |
| `secrets.Service` | `ReloadSecrets`, `SetSecret` |
| `SaveConfig` of a service, `MemoryFile.Save` | `Validate`, `ReadForSave`, `WriteSection` or `SaveSectionFails` (before the write, or in it) |
| `NewMemoReloader` | `ReadActivity`, `ApplyActivity`, `ReadConsolidation`, `ApplyConsolidation` |
| the constructors, at the start of the process | `Start`, `Started` |
| editors | `EditModels`, `EditSecrets`, `EditMemory` |

`fileStorage.WriteFile` truncates a file before it writes it, so a write that fails
leaves any part of what it was to write: of `models.toml` some providers (`Torn`), of
`memory.toml` some sections. A service has at most one save under way. What else a
section holds (switch, interval, instruction) goes where its model goes and is left out.
`excuse`, `missed`, `written`, `clash` and `torn` are history variables: why the
registry differs from the file (a model is excused only if the step leaves it in the
registry without the file), which last change no action has read, what was last written
of a section, an edit by hand in the middle of a save, and the sections that a failed
write took out of the file. A model whose provider was overwritten by one that took its
name is excused as `"replaced"`, and so named in `RegistryFollowsFile`: `UpdateProvider`
unlists what the old name had and nobody what the new one had.

### Consolidation

Runs are the daily one and the calls of the API. `reload` is what a `Reload`
under way has still to set: `load` sets one field after the other under the
write lock, a run reads the model and the instruction under the read lock
(`runPc = "instruct"`), and the daily run goes through the listing it took at its
start. `served` is a history variable.

### ChatMemory and Delegation

`Delegation` has the stack of runs from a chat down to the sub-agent that is
called last. Only the innermost run takes steps, since the callers wait for it.

| Code | Model |
|---|---|
| `SystemMessageCache.Get`, `Put`, its timers | `Get`, `Put`, `MessageTimerFires`, `MessageExpires` |
| `InMemoryStore.Add`, `Update`, `List`, `touchTimer` | `Add`, `Update`, `List`, `Touch`, `TodosExpire` |
| `ContextAssembler.BuildSystemMessage` | `Cached`, or `NotCached`, `Assemble`, `PutMessage`; `ChatFails` |
| `UndoneTodoHook.Apply` | `ListForHook`, then `Accept`, `GiveUp` or `Caution` |
| the todo tools | `CreateTodos`, `UpdateTodo`, `ListTodos` |
| `CallAgentTool.Call`, `subagent.Service.Call` | `CallAgent`, `Return`; `OtherCalls` for a call that is refused or is of another tool, `ToolHangs` for one that never returns |
| `contextWithToolAwareTimeout`, `CallAgentTool.TimeOut` | `CallTimesOut` |

A timer callback waits for a mutex, so a timer that is stopped or reset may have
fired already: `callbacks` are those that wait, `strays` timers that are armed but
are no longer in the map. Each use of a todo list starts a new timer, because the
map of timers is never made (`tools/todo/storage.go:40`). Abstractions: one call
per completion; the parts of a system message are read in one step; the system
message of a sub-agent's session is not kept and its todos are forgotten when it
returns, for nobody asks for them again; the timers of one unit of time fire within it.

## Runs

| Run | Instance | Shows |
|---|---|---|
| `chat_dispatcher` | 3 requests, 1 interrupt, 1 session | `MutualExclusion`, `EntriesMatchRuns`, `NoCallIsStuck`, and that the dispatcher implements `SerialSessions` |
| `chat_sessions` | 2 requests, 1 interrupt, 1 direct run, 2 sessions, one of which is deleted | `ServedInArrivalOrder`, `NoLostHistory`, `InterruptQuiesces` |
| `agent_loop` | 2 runs of 2 turns, the first with a model that takes images, 1 call per completion, 1 mistake, channel of 2, spare capacity up to 2 | `SessionMirrorsContext`, `StoredCallsAnswered`, `LoopLeavesSessionAlone`, `HistoryIsKeptOrSummarised`, `RunsEnd` |
| `tasks` | 2 names, at most one task at the first boot, 2 edits, 1 crash | `EveryLoopRegistered`, `OneshotRunsOnce`, `AppliedUnlessMissed`, `ReloadEnds` |
| `provided_tools` | 2 chats, 2 tools, 2 posts, 2 calls, queue of 1 | `WaitingIsAnswerable`, `EachResultOnce`, `PromptClientsServed`, `StreamIsComplete`, `ChatsEnd` |
| `mcp` | 1 name, 1 call of `SetServer`, 3 changes, 6 connections, 1 of which may leak | `RegisteredWhileAlive`, `NoneForgotten`, `AppliedUnlessMissed`, `ReloadAndShutdownEnd` |
| `path_locks` | 3 operations, 2 paths, 3 entries | `TableIsExact`, `OpsEndIfOrdered`, and that the lock table implements `PathMutex` |
| `session_store` | 1 run, 2 sessions, the cleaner, 1 crash, failed write or edit | `SparesTheRest`, `ExpiredAndBrokenGo` |
| `activity` | 2 sessions, 3 commits, 2 switches | `JournalIsFaithful`, `CommittedIsLogged` |
| `models` | 2 providers, 1 model name, 1 URL, 3 changes | `RegistryFollowsFile`, `SectionsSurvive`, `ConsolidatorFollowsFile` |
| `consolidation` | 2 agents, 2 sections, 1 call, 2 days, 2 reloads, 1 change | `OneConfigPerLoop`, `NobodyIsLeftOut` |
| `delegation` | 3 runs on 3 sessions, 2 levels of sub-agents, 1 todo each, 1 attempt, 1 edit, 2 units of time | `CautionsAreCounted`, `StaleOnlyWhileUsed`, `DelegationsEnd` |

**Bounds.** Three requests are the smallest number in which one waits for a request that
itself waits; a fourth only lengthens the queue, and the proofs hold for any number. Two
sessions are enough for a call to meet another session's state. One turn distinguishes a
run that is cancelled before, in or after its turn. In `agent_loop` two runs let a
second one load what a first left behind, also images its own model does not take, and
two turns let a compaction in the second cut the exchange of the first; a channel of two
makes both an empty and a full channel common, where the code has 16. Two turns are too
few for a context that is written over; larger instances (a run of five turns, one of
four with two calls and two mistakes) were also checked, too long to be among the runs.
In `tasks` the edits, the save of a one-shot task and a rename make up to four writes of
the file, so that there are writes before, during and after a reload and an event that
is dropped; a loop is started at boot and after each edit, so three goroutines of a name
are all there can be. In `provided_tools` two calls let a result of the first come
during the second, of the same tool or of another chat; the code's queue of 16 is one
event, so that the loop is often ahead and often blocked. In `mcp` three changes are one
that connects, one that replaces and one that meets the replacing; six connections are
never all in use. `McpService` was also checked with two names and two changes, and with
two calls of `SetServer`, each too long to be among the runs. In `path_locks` three
operations are one that holds a lock, one that waits and one that comes while the entry
is given up; two paths allow every order of two locks. In `session_store` a session is
saved while the cleaner has listed it, or has read it, and one tick makes it expire. In
`activity` three commits are one that makes a buffer, one that meets it and one that
makes the next. In `models` three changes are an operation, a second file's change and a
reload of a third in one another's way, among two providers one of which is renamed to
the other. In `delegation` the code's three attempts and four mistakes are one and two,
the order between them being what matters, and a message lives half as long as the
todos.

Each module's `TypeOK` also holds on its instance; it is not in the runs of the
modules for which it is proved, nor, to save their time, in the others.

Calls, runs and edits end, so deadlock is not checked: a state in which every
call has returned has no successor.

**Fairness.** Goroutines are scheduled fairly and `sync.Mutex` starves no waiter
(Go guarantees it from its starvation mode on). Nothing is assumed of the caller
who may cancel, of users who create and delete sessions, or of the start of a
task. A completion has no deadline (`openai/reasoner.go:82` passes the context of
the run and no timeout), so a model is not assumed to answer: the step that
waits for one is fair only once the run's context is cancelled, which ends the
HTTP request. `NoCallIsStuck` and the first half of `RunsEnd` therefore say that
interrupting and superseding work even with a model that hangs; the second half
of `RunsEnd` assumes that the model is not waited for for ever.

Nor is a tool assumed to return. `resolveCallSafely` calls it in the goroutine of the loop
and gives it a context with a deadline (`runtime/loop.go:238`), and there are tools that
do not look at it: `move` (`tools/fs/move.go:46`) of a path to itself, or of two paths that
another `move` takes the other way round, waits in `fileStorage.Rename`
(`files/filesystem.go:259`) for good. And a run waits for whoever reads its events
(`sink <- outEv`, `chat/service.go:290`), which is a client that may not read. Both are
steps to `"hung"`, which is never left, cancelled or not. `NoCallIsStuck`, `RunsEnd` and
`DelegationsEnd` except what waits for such a run and nothing else: the
requests and interrupts of its session, and once an `Interrupt` waits for it with `d.mu`
held, every other one. `NoCallIsStuck` is checked with one session; with two the
liveness check is too long to be among the runs.

In `TaskScheduler` the timer of the sentinel fires, `Reload` and `Patch` go on and
`select` is fair (a loop whose context is done leaves it at last, although each time
both cases are ready it may take the other). `Execute` is assumed to return only when
its context is cancelled; a task whose agent is in a tool that ignores it keeps `Reload`
waiting with the mutex held, which `ReloadEnds` does not speak of. No schedule has to
fire.

In `ProvidedTools` timers fire and the goroutines of the handler and of the loop's calls
go on, and the client reads its stream; nobody has to post a result, and a run need not
end. In `McpService` the attempt to connect ends within its ten minutes, a session that
was closed ends, and a goroutine whose session ended unregisters; `Run` opens its
session without a deadline, so that nothing is assumed of `RunStarts`. That closing a
session and refusing its connection end is assumed: neither has a deadline.

In `PathLocks` operations on the disk end and every opened file is closed; an
entry's mutex is strongly fair, and `OpsEndIfOrdered` says on which behaviours
that is enough. In `SessionStore` the ticker of the cleanup goes on and the
mutex of a path lets the cleaner in some time; runs need not go on. In
`ActivityReporter` and `Consolidation` goroutines go on and timers fire;
completions may hang, and the properties say where an answer is needed. In
`Delegation` a run goes on except for a model that is asked while its context is
not done, and the time of a call runs out. `MemoryConfig` has safety properties
only: its watchers drop events, so nothing has to happen.

## Proofs

Three modules have the theorems of two components each. So that one module can extend
both, the second one has names of its own: `DelegationSpec`, `StoreSpec`,
`ConsolidationSpec` and so on where the first has `Spec`, and `Nil` where it has `None`.
No constant and no variable is in both, so that nothing is said of the two at once.

`ChatProofs` proves of `ChatDispatcher`, for all sets of calls and sessions and any
number of turns:

* `TypeCorrect`: `Spec => []TypeOK`, for the module's type invariant. A request that
  waits has found a request and a turn that has started was left, which is what makes it
  inductive.
* `ArrivalOrder`, `MutualExclusionHolds`, `EntriesMatch`, `InterruptQuiescesHolds`
  follow from one inductive invariant, `OrderInv`. Every call of `swap` takes the
  next ticket; the map's entry is the last request swapped in on its session and
  stays until that request has closed its `done` channel; a waiting request waits for its
  immediate predecessor. So one closed channel stands for all the earlier
  requests of the session: that is `ServedInArrivalOrder`, and two requests in
  service would each have to be done before the other. Mutual exclusion is not
  inductive by itself: nothing in it says for whom the third request waits.
* `HistoryIsKept`: a run's copy of the session is the file plus its own exchange for as
  long as it is being served, since no other run writes; so each save extends the file.
* `Refinement`: `Spec => ImplementsSerialSessions`. Entering `Service.Chat` is
  `Begin`, the save is `Commit`, closing `done` is `End`, and every other step
  stutters.

Of `Delegation` it proves `DelegationTypes`, `HookGivesUpFirst` (`CautionsAreCounted`)
and `StaleIsRecent` (`StaleOnlyWhileUsed`), for any depth and any limits, from
`DelegationInv`. The hook counts by session and the loop by run. The counts
agree because no session is on the stack twice (`Nested`: a called run's session was
made after its caller's), so that nobody but a run itself resets its count, and because
whether the completion in hand is done tells when a mistake still counts
(`RunsAreSound`). That a cached message was used a short time ago needs that each has a
timer that fires within its lifetime from the last use, or a callback that
waits for the mutex (`MessagesAreTimed`).

`AgentLoopProofs` proves `TypeCorrect`, `StoredCallsAreAnswered`, `LoopLeavesSession`
and `HistoryKept` from `AgentInv`, and `ContextIsMirrored` (`SessionMirrorsContext`) with
it, for any number of runs, turns and calls and any
capacities of channel and arrays. The session, the events in the channel and the loop's
next steps are one conversation, which starts at the session or at the latest compaction
in the channel (`Base`). Its parts:

* `SessionAnswered` follows each call along it: its result is in the session, in the
  channel, or to come from the loop, in one place only. At the exit nothing is to come
  (`ExitComesLast`), so that the session that is saved answers its calls.
  `ContextAnswered` is the same of the loop's context, which is what a compaction puts
  in the session's place. Neither survives a new turn unless the turn is new:
  `NothingFromTheFuture`.
* `SharedArrayAgrees` is needed because after a compaction both write to one array. It
  gives each event behind the compaction the place of the array where the session will
  put it (`InStep`), which has that message already or is the next the loop writes
  (`Place`); the session stays behind at a refused answer, which it never gets (`Gap`).
  `ArraysAreOrdered` says that compactions make arrays one after the other and the loop
  has the latest one, if any.
* `SummariesAreNew` is what a file gets in exchange for the texts it loses.
* `Counters` bounds turns and calls, and says that every sequence has its first messages.

The type invariant is proved along with these. What is changed in place is changed alike
in the session, the events and the context, so that each of these parts is kept by a
change that leaves role and calls of a message as they are (`InPlace`). `LoopLeavesSession`
says what a step of the loop may do to the session: it appends nothing, removes nothing,
and rewrites a message only where the code does, an image that the model does not take or
a summary at the moment of the compaction. The proof showed that the loop can write
over the session's messages after all, where the session wrote over the loop's before (see
below): `LoopLeavesSessionAlone` excepts such runs. `HistoryKept` then follows text by
text: a text leaves the file with a compaction, or an image for its note.

`ContextIsMirrored` has an invariant of its own on top, `SessionFollows`: the session with
the events in the channel applied to it (`Rebuilds`) says what the loop's context says
with the answer or the results appended that the loop has announced (`ToSay`); an event
applied and a message changed in place may change places (`AppliedInPlace`,
`RebuildsInPlace`). That it is
an invariant rests on `AgentInv`, which knows that the loop does not write to the session.
`Spoken` is a recursive function, and its two lemmas (`SpokenAppend`, `AsideInFront`) are
for sequences of any length. Induction is by the least counterexample (`Smallest`): the
library's fact that the order of the numbers is well-founded has no operator as a
parameter.

`StorageProofs` proves of `PathLocks` `TypeCorrect`, `TableStaysExact`,
`PathsAreExclusive` and `TableIsMutexes` (`Spec => ImplementsPathMutex`) for any
operations, paths and entries. `TableIsExact`, the count of an entry is the number of
places that refer to it, is almost inductive; `Progress` adds how many entries an
operation has collected at each place of its code, and `HoldersOwn` that whoever got
past the lock of an entry owns it. Exclusion follows: two operations on one path refer
to one entry, which has one owner. In the refinement the mutex of a path is held by the
owner of its entry; giving up an entry and making a new one stutter. All this is of the
operations that have a caller, which give up each lock once.

Of `SessionStore` it proves `StoreTypes` and `TheRestIsSpared` (`SparesTheRest`) from
`StoreInv`. The cleaner acts on old readings, so the invariant says which of them cannot
go out of date: a session has one header, in its file and in the memory of every
run, since saves write back the header they read and an id is given out once (`OneHeader`,
`IdsAreKnown`); what was expired by it stays so (`HeadersAreRead`). A file
without a header is being written, by whoever holds its mutex, or was damaged
(`TornIsHeldOrHurt`). As the cleaner reads under the mutex, what it calls broken was
damaged, deleted or has a header too long for it, and no later save mends that
(`BrokenIsBroken`).

`McpServiceProofs` proves `TypeCorrect`, `RegistryFollowsConnections`,
`NoConnectionForgotten` and `FileApplied` from one invariant, `McpInv`. The registry
is exact (`RegistryExact`); a connection that is being made is known to one
connector only (`ConnectorsOwn`) and what the map has was launched (`MapLaunched`),
so that no goroutine unregisters its successor. `NoConnectionForgotten` is of open
sessions: each is in the map or shut down, but for those whose tools could not be listed,
which the code leaves open. For `FileApplied`: while
Reload works, each name is either as the file says or still to be connected
(`Applying`), and the sentinel drops what it would miss (`ReloadJoins`).

`TaskSchedulerProofs` proves `TypeCorrect`, `EveryLoopStaysRegistered`,
`OneshotsRunOnce` and `FileApplied` from `TaskInv`. That a one-shot
task is executed once is far from inductive. It needs that no loop waits with
settings that were executed (`SpentWaitsNoMore`), which needs that whoever still has
such settings as active ones, the file or what Reload has read of it, finds
them registered (`SpentStaysRegistered`): this is why the runtime of
a one-shot task has to stay in the map when its loop is over. `NewestWins` and
`RenameIsNew` keep that through a Reload that read the file before the loop's
own save, and through the two saves of `Patch`. `CancelledIsAwaited`, that only
the runtime Reload waits for is cancelled, failed as it was first stated, for any number
of cancelled runtimes: it has to say that there is at most one.

`MemoryProofs` proves of `ActivityReporter` `ReporterTypes` and `JournalStaysFaithful`
(`JournalIsFaithful`) from `ReporterInv`. A session's commits come one after the other
(`InOrder`) and get buffers that come one after the other too (`BuffersFollow`): the
map has the newest of the session's buffers or none, until the callback of
its timer takes it away (`MapIsNewest`). So a buffer holds commits that are neighbours in
their session, in order (`BuffersHold`). A commit that had looked its buffer up may still
append behind the callback, which has then taken the beginning of the buffer
(`SegmentsAreTaken`): that is why a segment has no gaps and the late message is in no
segment at all. Each segment in the journal belongs to one callback that is over
(`JournalIsTaken`), and a message that can still be logged is not lost (`NotYetLost`).

Of `Consolidation` it proves `ConsolidationTypes` and `LoopsAreOfOneSection`
(`OneConfigPerLoop`): the two fields differ only while `load` is halfway (`FieldsAgree`),
and a reader keeps `load` out (`ReadersExclude`).

`ProvidedToolsProofs` proves `TypeCorrect`, `WaitingCallsAreAnswerable`,
`ResultsUsedOnce`, `PromptClientsAreServed` and `StreamsAreComplete` from `ProvidedInv`.
Its parts follow a call: ids are those of a counter (`IdsAreUnique`) and lead to their
tool while the chat is open (`IdsLead`), the client of a chat is told of each call of
its tools once (`CallsAreTold`), posts are for calls that were told
(`PostsAreForCalls`), and an accepted result is in one channel or was returned by one
call (`ResultsOnce`). For the stream, `AnswersFollow` says where the answer of a call
that was announced is: in the stream behind it, in the loop's event channel, or to come;
`ExitComesLast` that nothing follows the exit of the loop.

`MemoryConfigProofs` proves `TypeCorrect`, `RegistryIsTheFile`, `SectionsAreKept` and
`ConsolidatorIsConfigured`, from an invariant in two halves. `RegistryInv` is
about the registry of models: a model of the file is registered, and no other is, unless
the operation under way, a reload or an unseen change will see to it
(`ListedAreRegistered`, `OthersAreNot`); what Reload has read and not loaded yet is
what the file says or will be read again (`SnapshotIsFile`). `ConfigInv` says that
who holds the mutex of `memory.toml` has what the file says (`SavesHoldFile`), and
that what is about to be applied is the file's section (`ReadsFollow`). The proof
showed that the history variable `excuse` was more generous than the property
needed; the model now excuses exactly the models that a step leaves behind, and names
what it was that left them. A failed write takes sections or providers out of a file;
`torn` and the reason `"failed"` have exactly these.

**Assumptions.** Each module names what it assumes of its constants: `CallsAssumption`,
`KeysAssumption` and `TurnsAssumption` of `ChatDispatcher`, `BoundsAssumption` of
`AgentLoop` (numbers; at least one run, one turn and one event in the channel),
`LocksAssumption` (paths are ordered as numbers, there are finitely many operations),
`StoreAssumption` (a file is absent, torn or a header, never two of these; the cleaner
is no run; sessions are kept for a time that is not zero), `McpAssumption`,
`SchedulerAssumption`, `ReporterAssumption`, `ConsolidationAssumption`,
`ProvidedAssumption` (finitely many tools, a queue of at least one event),
`RegistryAssumption`, the `MemoryAssumption` of `MemoryConfig` and that of `ChatMemory`
(messages and todos live for a time that is not zero), and `DelegationAssumption`
(numbers). Besides that the bounds are natural numbers they say that `None` (or `Nil`),
the absence of a value, is none of the values, and that the names of different kinds of
processes differ. TLC evaluates them on every run.

**Only model-checked.** Liveness (`NoCallIsStuck`, `RunsEnd`, `ReloadEnds`, `ChatsEnd`,
`ReloadAndShutdownEnd`, `OpsEndIfOrdered`, `ExpiredAndBrokenGo`,
`CommittedIsLogged`, `NobodyIsLeftOut`, `DelegationsEnd`) is out of the prover's reach.

## Known differences

Where the models follow the code and a comment or a document says something else,
or where a reader would expect something else:

* A task's run or a sub-agent's goes past the dispatcher, and may share its session
  with a request's run (`task/executor.go:63`); `NoLostHistory` excepts the
  sessions such a run writes. A session that is deleted during a run is saved
  again at its end (`chat/service.go:231`).
* After a compaction an answer that is refused is appended by the loop and not by the
  session; with spare capacity left, the session's next message then overwrites it, and
  what follows, in the array they share (`runtime/compaction.go:60`,
  `session/session.go:241`). The next compaction saves such a context, with a message
  lost and a call answered twice; `docs/models.md:52` promises that the most recent
  messages stay. It takes one run of five turns, one mistake and a spare capacity of
  four; `clobbered` excepts it. With three calls in the answer that follows, the session
  has its results one place ahead of the loop's, and the loop's own append then writes
  over the session's: one result is lost and one doubled.
* A compaction may keep a tool result and summarise its call away
  (`runtime/compaction.go:41`).
* The sentinel drops what changes while a reload runs (`sentinel/sentinel.go:32`),
  the end of a one-shot task writes back the configuration the task was started with
  (`task/service.go:165`), and a changed tool server is refused while
  its predecessor closes (`mcp/service.go:140`). `AppliedUnlessMissed` excepts the
  first and the last.
* A model that cannot be loaded ends the process, by a logger that is nil
  (`model/provider.go:45`); `docs/models.md` has it skipped.
* `updated_at` is set at creation only (`session/session.go:166`); `docs/sessions.md:35`
  speaks of the last update.
* The journal looks its model up by the name of its previous configuration
  (`memory/activity_reporter.go:244`); a buffer whose timer fires while the
  journal is off is never flushed (`memory/activity_reporter.go:158`).
* A provider renamed to an existing one replaces it in `models.toml`, and the models of
  the replaced one stay in the registry (`model/provider.go:111`).
* A write that fails, or a process that ends in it, leaves `models.toml` or `memory.toml`
  truncated, with the providers or the section the save was not about lost as well
  (`files/memory_config.go:106`, `files/filesystem.go:282`).
* A model without images has them taken out of the stored messages, not only out of what
  it is sent, and the next save writes the session without them
  (`openai/reasoner.go:154`): they are gone for every later run, also of a model that
  takes images. Nothing in `docs/models.md` or `docs/chat.md` says so.
* A tool that ignores its context is waited for past its deadline and past an interrupt
  (`runtime/loop.go:238`, `tools/fs/move.go:46`).
* A client that provides a tool gets, behind its `provided_toolcall`, a `tool_result` as
  for any other tool; `docs/chat.md:98` has the one "instead of" the other. The
  `instruction` of its server is read and then dropped (`api/provided_tools.go:126`).
* A tool server that connects and then fails to list its tools is unregistered with its
  session open, and nothing can close it (`mcp/mcp.go:214`).
* A session whose header is longer than the scanner's line is deleted as broken
  (`files/sessions.go:96`); `docs/sessions.md:38` speaks of unreadable files only.
* A section that is removed from `memory.toml` leaves its service as it was.
* The hook's attempts are kept by session and outlive an interrupted run, so that the
  next run on the session may end without a caution; `docs/tools.md:77` promises one.
* A call of a sub-agent is refused from the fourth on (`subagent/subagent.go:119`), so
  that four agents may be at work one inside the other; `docs/subagents.md:23`
  allows three.
* An agent file that is saved by the API loses its `tool_servers`
  (`files/agents.go:201`).
* Todos expire an hour after a use of theirs, whether they were used since or not
  (`tools/todo/storage.go:90`).
* Operations on two paths take their locks in the order of the arguments
  (`files/filesystem.go:259`), so that two of them can wait for each other.

## Plan

Every component with concurrency or state of its own is modelled, and every safety
property that a run checks is proved.

To be modelled, if the system grows there: the list of a connection's tools, which is
set without a lock after the connection was registered (`mcp/mcp.go:218`).

## Not modelled

The text of prompts, messages and logs; the conversion of arguments and schemas; the
HTTP client and the JSON of the API; `fileStorage.Create`, which nothing calls; the images
of tool results, and what the activity logger reads of the request it shares with the
session; a client's request or a task on the session of a sub-agent that is at work, which
could reset the hook's count of it; the shell, fetch and file tools and the hooks that
match paths and sizes, of which `AgentLoop` has the outcomes; the replacement of secrets
in text; temporary files; the file formats; logging and the wiring of the process. A
panic of the whole process is a behaviour of `ModelRegistry` only, where the code has
one, and a crash one of `TaskScheduler` and `SessionStore`: elsewhere the code keeps no
state it would recover from one besides the files themselves. `SessionStore` has the
truncation of a file and the write apart, and `ModelRegistry` and `MemoryConfig` have
writes that fail halfway, which a crash in the middle of one comes to as well; in the
other modules a file is written in one step.
