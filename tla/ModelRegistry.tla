---------------------------- MODULE ModelRegistry ----------------------------
(***************************************************************************)
(* Providers and their models: models.toml, the registry of the models     *)
(* that agents can use, and the secrets that loading a model looks up.     *)
(*                                                                         *)
(* The operations of the API change the file and the registry under one    *)
(* mutex.  Reload, which the directory watcher calls when the file changes,*)
(* takes no mutex: it adds what it has read, whatever was deleted          *)
(* meanwhile, and removes nothing.  A model it cannot load ends the        *)
(* process: its logger was never set.                                      *)
(***************************************************************************)
EXTENDS Naturals, FiniteSets

CONSTANTS
  Providers,   \* names of providers
  Names,       \* names of models
  Urls,        \* what else there is to a provider; a model keeps it
  MaxChanges,  \* bound: edits by hand and operations of the API
  None

Config == [url : Urls, models : SUBSET Names]
IDs == Providers \X Names  \* resolveModelID

\* Why the registry may be out of step with the file.
Excuses == {"edited", "raced", "replaced", "failed"}

ASSUME RegistryAssumption ==
  /\ MaxChanges \in Nat
  /\ None \notin Names \cup Urls \cup Config \cup IDs \cup Excuses

Watched == {"models", "secrets", "memory"}

VARIABLES
  up,         \* the process runs
  models,     \* models.toml
  registry,   \* ModelService.models
  secretFile, \* secrets.toml: the providers whose key it holds
  secrets,    \* Service.secrets
  api,        \* what the operation that holds ProviderService.mu has still to do
  snapshot,   \* what Reload has read and not loaded yet
  events,     \* events of a file that the watcher has not seen
  phase,      \* where the watcher's action on a file stands
  missed,     \* history: files whose change no action on them has read
  excuse,     \* history: why the registry may be out of step with the file
  changes     \* edits and operations so far

fileVars == <<models, secretFile>>
serviceVars == <<registry, secrets, api, snapshot>>
watchVars == <<events, phase, missed>>
registryVars == <<up, fileVars, serviceVars, watchVars, excuse, changes>>

Idle == [op |-> "none"]

Pending ==
  [op : {"add", "save", "set", "move"}, p : Providers, cfg : Config]
  \cup [op : {"rename"}, p : Providers, to : Providers, cfg : Config]
  \cup [op : {"delete"}, p : Providers]
  \cup [op : {"cut"}, p : Providers, n : Names, cfg : Config]
  \cup [op : {"unlist"}, p : Providers, n : Names]

RegistryTypeOK ==
  /\ up \in BOOLEAN
  /\ models \in [Providers -> Config \cup {None}]
  /\ registry \in [IDs -> Urls \cup {None}]
  /\ secretFile \subseteq Providers /\ secrets \subseteq Providers
  /\ api \in Pending \cup {Idle}
  /\ snapshot \in [Providers -> Config \cup {None}]
  /\ events \in [Watched -> Nat]
  /\ phase \in [Watched -> {"idle", "armed", "running"}]
  /\ missed \subseteq Watched
  /\ excuse \in [IDs -> Excuses \cup {None}]
  /\ changes \in 0..MaxChanges

ListedIn(file) == {id \in IDs : file[id[1]] # None /\ id[2] \in file[id[1]].models}
IdsOf(p) == {p} \X Names

\* The registry with some models set to a provider's URL, or removed.
Put(ids, url) == [id \in IDs |-> IF id \in ids THEN url ELSE registry[id]]

Loaded == [id \in IDs |-> IF id \in ListedIn(models) THEN models[id[1]].url ELSE None]

NothingRead == [p \in Providers |-> None]

Loadable(keys) == \A id \in ListedIn(models) : id[1] \in keys

RegistryInit ==
  /\ up = TRUE
  /\ models \in [Providers -> Config \cup {None}]
  /\ secretFile = Providers /\ secrets = Providers
  /\ registry = Loaded
  /\ api = Idle /\ snapshot = NothingRead
  /\ events = [f \in Watched |-> 0]
  /\ phase = [f \in Watched |-> "idle"]
  /\ missed = {} /\ changes = 0
  /\ excuse = [id \in IDs |-> None]

Change == changes < MaxChanges /\ changes' = changes + 1

Notify(f) ==
  /\ events' = IF up THEN [events EXCEPT ![f] = @ + 1] ELSE events
  /\ UNCHANGED <<phase, missed>>

Excuse(ids, why) == excuse' = [id \in IDs |-> IF id \in ids THEN why ELSE excuse[id]]

\* Models that are registered though the file does not list them any more.
Left == {id \in ListedIn(models) \ ListedIn(models') : registry[id] # None}

-----------------------------------------------------------------------------
(***************************************************************************)
(* The files, and the watcher                                              *)
(***************************************************************************)

\* models.toml is edited by hand. What it does not list any more stays in the
\* registry.
EditModels ==
  /\ Change
  /\ \E p \in Providers, cfg \in Config \cup {None} :
       cfg # models[p] /\ models' = [models EXCEPT ![p] = cfg]
  /\ Notify("models")
  /\ Excuse(Left, "edited")
  /\ UNCHANGED <<up, secretFile, serviceVars>>

\* secrets.toml is edited by hand.
EditSecrets ==
  /\ Change
  /\ \E p \in Providers :
       secretFile' = IF p \in secretFile THEN secretFile \ {p} ELSE secretFile \cup {p}
  /\ Notify("secrets")
  /\ UNCHANGED <<up, models, serviceVars, excuse>>

\* debouncedAction.Do: the first event starts the timer; those that come until
\* the action is over are dropped.
Notice(f) ==
  /\ up /\ events[f] > 0
  /\ events' = [events EXCEPT ![f] = @ - 1]
  /\ phase' = [phase EXCEPT ![f] = IF @ = "idle" THEN "armed" ELSE @]
  /\ missed' = IF phase[f] = "running" THEN missed \cup {f} ELSE missed
  /\ UNCHANGED <<up, fileVars, serviceVars, excuse, changes>>

\* The action on a file begins: what changed before is not missed any more.
Begin(f) ==
  /\ up /\ phase[f] = "armed"
  /\ phase' = [phase EXCEPT ![f] = "running"]
  /\ missed' = missed \ {f}
  /\ UNCHANGED events

\* The action on a file cannot read or use it.
Fail(f) ==
  /\ up /\ phase[f] = "armed"
  /\ phase' = [phase EXCEPT ![f] = "idle"]
  /\ missed' = missed \cup {f}
  /\ UNCHANGED events

Finish(f) == phase' = [phase EXCEPT ![f] = "idle"] /\ UNCHANGED <<events, missed>>

-----------------------------------------------------------------------------
(***************************************************************************)
(* Secrets                                                                 *)
(***************************************************************************)

\* Service.Reload, under the mutex of the secrets: what it reads is what it has.
ReloadSecrets ==
  /\ up /\ phase["secrets"] = "armed"
  /\ secrets' = secretFile
  /\ phase' = [phase EXCEPT !["secrets"] = "idle"]
  /\ missed' = missed \ {"secrets"}
  /\ UNCHANGED <<up, fileVars, registry, api, snapshot, events, excuse, changes>>

\* Service.Put and Delete: memory is changed first, and stays so when the save
\* fails.
SetSecret(p) ==
  /\ up /\ Change
  /\ secrets' \in {secrets \cup {p}, secrets \ {p}}
  /\ \/ secretFile' = secrets' /\ Notify("secrets")
     \/ UNCHANGED <<secretFile, watchVars>>
  /\ UNCHANGED <<up, models, registry, api, snapshot, excuse>>

-----------------------------------------------------------------------------
(***************************************************************************)
(* ProviderService.Reload                                                  *)
(***************************************************************************)

\* repo.All()
ReadProviders ==
  /\ Begin("models")
  /\ snapshot' = models
  /\ UNCHANGED <<up, fileVars, registry, secrets, api, excuse, changes>>

ReadFails(f) ==
  /\ f # "memory"
  /\ Fail(f)
  /\ UNCHANGED <<up, fileVars, serviceVars, excuse, changes>>

\* loadModels: the models of one provider are added, whoever holds the mutex.
LoadProvider(p) ==
  LET ids == {p} \X snapshot[p].models IN
  /\ up /\ snapshot[p] # None
  /\ ids = {} \/ p \in secrets
  /\ registry' = Put(ids, snapshot[p].url)
  /\ snapshot' = [snapshot EXCEPT ![p] = None]
  /\ excuse' = [id \in IDs |-> IF id \notin ids THEN excuse[id]
                               ELSE IF id \in ListedIn(models) THEN None ELSE "raced"]
  /\ UNCHANGED <<up, fileVars, secrets, api, watchVars, changes>>

\* A model whose key is not known: the logger that should say so is nil.
LoadPanics(p) ==
  /\ up /\ snapshot[p] # None /\ snapshot[p].models # {} /\ p \notin secrets
  /\ up' = FALSE
  /\ registry' = [id \in IDs |-> None]
  /\ secrets' = {}
  /\ api' = Idle /\ snapshot' = NothingRead
  /\ events' = [f \in Watched |-> 0]
  /\ phase' = [f \in Watched |-> "idle"]
  /\ missed' = {}
  /\ excuse' = [id \in IDs |-> None]
  /\ UNCHANGED <<fileVars, changes>>

ReloadEnds ==
  /\ phase["models"] = "running" /\ snapshot = NothingRead
  /\ Finish("models")
  /\ UNCHANGED <<up, fileVars, serviceVars, excuse, changes>>

\* The process is started again: it comes up when every model can be loaded. The
\* constructors of other services may fail to use their files.
Start(failed) ==
  /\ ~up /\ Loadable(secretFile)
  /\ up' = TRUE
  /\ secrets' = secretFile
  /\ registry' = Loaded
  /\ events' = [f \in Watched |-> 0]
  /\ excuse' = [id \in IDs |-> None]
  /\ missed' = failed
  /\ UNCHANGED <<fileVars, api, snapshot, phase, changes>>

-----------------------------------------------------------------------------
(***************************************************************************)
(* The operations of the API, under ProviderService.mu.  Each begins by    *)
(* reading the provider; the writes of the file are steps of their own.    *)
(***************************************************************************)

Operation(p) == up /\ api = Idle /\ Change

\* AddProvider
AddProvider(p) ==
  /\ Operation(p) /\ models[p] = None
  /\ \E cfg \in Config : api' = [op |-> "add", p |-> p, cfg |-> cfg]
  /\ UNCHANGED <<up, fileVars, registry, secrets, snapshot, watchVars, excuse>>

\* UpdateProvider, whose models go out of the registry first: the watcher is to
\* bring them back.
UpdateProvider(p) ==
  /\ Operation(p) /\ models[p] # None
  /\ \E to \in Providers, url \in Urls :
       LET cfg == [models[p] EXCEPT !.url = url] IN
       api' = IF to = p THEN [op |-> "save", p |-> p, cfg |-> cfg]
              ELSE [op |-> "rename", p |-> p, to |-> to, cfg |-> cfg]
  /\ registry' = Put({p} \X models[p].models, None)
  /\ Excuse({p} \X models[p].models, None)
  /\ UNCHANGED <<up, fileVars, secrets, snapshot, watchVars>>

\* DeleteProvider
DeleteProvider(p) ==
  /\ Operation(p) /\ models[p] # None
  /\ registry' = Put({p} \X models[p].models, None)
  /\ Excuse({p} \X models[p].models, None)
  /\ api' = [op |-> "delete", p |-> p]
  /\ UNCHANGED <<up, fileVars, secrets, snapshot, watchVars>>

\* DeleteModel
DeleteModel(p, n) ==
  /\ Operation(p) /\ models[p] # None
  /\ api' = [op |-> "cut", p |-> p, n |-> n, cfg |-> [models[p] EXCEPT !.models = @ \ {n}]]
  /\ UNCHANGED <<up, fileVars, registry, secrets, snapshot, watchVars, excuse>>

\* SetModel adds the model before it saves it, if its key is known.
SetModel(p, n) ==
  /\ Operation(p) /\ models[p] # None /\ p \in secrets
  /\ registry' = Put({<<p, n>>}, models[p].url)
  /\ Excuse({<<p, n>>}, None)
  /\ api' = [op |-> "set", p |-> p, cfg |-> [models[p] EXCEPT !.models = @ \cup {n}]]
  /\ UNCHANGED <<up, fileVars, secrets, snapshot, watchVars>>

\* What a save leaves registered that it takes out of the file: models that an edit
\* by hand has added in between, that a Reload has brought back, or those of the
\* provider whose name another one is given.
Cause == CASE api.op \in {"add", "save", "set", "cut"} -> "edited"
           [] api.op \in {"rename", "delete"}          -> "raced"
           [] api.op = "move"                          -> "replaced"

\* ProviderFiles.Save writes back what the operation has read.
Save(p, cfg) ==
  /\ models' = [models EXCEPT ![p] = cfg]
  /\ Notify("models")
  /\ Excuse(Left \ (IF api.op = "cut" THEN {<<p, api.n>>} ELSE {}), Cause)
  /\ UNCHANGED <<up, secretFile, registry, secrets, snapshot, changes>>

SaveProvider ==
  /\ api.op \in {"add", "save", "set", "move"}
  /\ Save(api.p, api.cfg)
  /\ api' = Idle

\* The old name is deleted, the new one is saved next, whoever had it: the models
\* of that provider stay registered.
DeleteOldName ==
  /\ api.op = "rename"
  /\ Save(api.p, None)
  /\ api' = [op |-> "move", p |-> api.to, cfg |-> api.cfg]

DeleteFromFile ==
  /\ api.op = "delete"
  /\ Save(api.p, None)
  /\ api' = Idle

\* The file is saved, the registry is next.
SaveWithout ==
  /\ api.op = "cut"
  /\ Save(api.p, api.cfg)
  /\ api' = [op |-> "unlist", p |-> api.p, n |-> api.n]

\* A DeleteModel that goes by the file alone.
UnlistNothing ==
  /\ api.op = "unlist"
  /\ api' = Idle
  /\ UNCHANGED <<up, fileVars, registry, secrets, snapshot, watchVars, excuse, changes>>

Unlist ==
  /\ api.op = "unlist"
  /\ registry' = Put({<<api.p, api.n>>}, None)
  /\ Excuse({<<api.p, api.n>>}, IF <<api.p, api.n>> \in ListedIn(models) THEN "raced" ELSE None)
  /\ api' = Idle
  /\ UNCHANGED <<up, fileVars, secrets, snapshot, watchVars, changes>>

\* What an operation is about to write of its provider.
ToWrite == IF api.op \in {"rename", "delete"} THEN None ELSE api.cfg

\* What a write leaves that fails after it has truncated the file.
Torn(file, kept) == [k \in DOMAIN file |-> IF k \in kept THEN file[k] ELSE None]

\* A save fails: before it writes, and the file is as it was, or in the middle of
\* the write. The operation returns, and what it did to the registry stays.
SaveFails ==
  /\ api.op \notin {"none", "unlist"}
  /\ \/ UNCHANGED <<models, watchVars>>
     \/ /\ \E kept \in SUBSET Providers :
             models' = Torn([models EXCEPT ![api.p] = ToWrite], kept)
        /\ Notify("models")
  /\ Excuse(Left \cup (IF api.op \in {"add", "cut", "move"} THEN {} ELSE IdsOf(api.p)), "failed")
  /\ api' = Idle
  /\ UNCHANGED <<up, secretFile, registry, secrets, snapshot, changes>>

ApiStep ==
  \/ \E p \in Providers : AddProvider(p) \/ UpdateProvider(p) \/ DeleteProvider(p)
  \/ \E p \in Providers, n \in Names : DeleteModel(p, n) \/ SetModel(p, n)
  \/ SaveProvider \/ DeleteOldName \/ DeleteFromFile \/ SaveWithout \/ Unlist \/ SaveFails

RegistryStep ==
  \/ EditModels \/ EditSecrets
  \/ \E f \in Watched : Notice(f) \/ ReadFails(f)
  \/ ReloadSecrets \/ \E p \in Providers : SetSecret(p)
  \/ ReadProviders \/ (\E p \in Providers : LoadProvider(p)) \/ ReloadEnds
  \/ ApiStep

RegistryNext == RegistryStep \/ (\E p \in Providers : LoadPanics(p)) \/ Start({})

RegistrySpec == RegistryInit /\ [][RegistryNext]_registryVars

-----------------------------------------------------------------------------
(***************************************************************************)
(* Properties                                                              *)
(***************************************************************************)

Quiet(f) == phase[f] = "idle" /\ events[f] = 0

\* Once nothing is under way, the registry holds the models of the file with
\* the URLs of their providers: unless the watcher dropped the last change, an
\* edit by hand took the model out of the file or added it in the middle of an
\* operation that then wrote what it had read, a Reload or an edit overlapped the
\* operation that deleted or renamed the model, another provider was given the
\* name of its provider, or the save of an operation failed.
RegistryFollowsFile ==
  up /\ api = Idle /\ Quiet("models") /\ "models" \notin missed =>
    \A id \in IDs : registry[id] = Loaded[id] \/ excuse[id] # None
=============================================================================
