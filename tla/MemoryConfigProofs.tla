-------------------------- MODULE MemoryConfigProofs --------------------------
(***************************************************************************)
(* What is proved about ModelRegistry and MemoryConfig, for any number of  *)
(* providers, models, keys and changes: the registry follows models.toml,  *)
(* a save of one section keeps the other, and the consolidation follows    *)
(* its section.                                                            *)
(*                                                                         *)
(* The invariant has a part for the registry and a part for the services.  *)
(* Each part is left alone by the steps of the other, but for the watcher. *)
(***************************************************************************)
EXTENDS MemoryConfig, TLAPS

-----------------------------------------------------------------------------
(***************************************************************************)
(* The inductive invariant                                                 *)
(***************************************************************************)

\* A change of a file that the watcher has not seen, or that no action will read.
Unseen(f) == events[f] > 0 \/ f \in missed

\* A process that is down has nothing under way.
DownIsIdle ==
  ~up => /\ api = Idle /\ snapshot = NothingRead
         /\ \A f \in Watched : phase[f] = "idle"

\* What Reload has read is what the file says, unless it will be read again.
SnapshotIsFile ==
  \A p \in Providers : snapshot[p] # None =>
    /\ up /\ phase["models"] = "running"
    /\ snapshot[p] = models[p] \/ Unseen("models")

\* A model of the file is registered, unless a reload or an operation is on its way.
Touched(p) == api.op \in {"save", "rename", "delete", "set"} /\ api.p = p

Registered(id) ==
  \/ registry[id] = models[id[1]].url \/ excuse[id] # None
  \/ Unseen("models") \/ phase["models"] = "armed"
  \/ snapshot[id[1]] # None \/ Touched(id[1])

ListedAreRegistered == \A id \in ListedIn(models) : up => Registered(id)

\* No other model is, unless an operation is about to list it or to remove it.
Unregistered(id) ==
  \/ registry[id] = None \/ excuse[id] # None
  \/ api.op = "unlist" /\ id = <<api.p, api.n>>
  \/ api.op = "set" /\ api.p = id[1] /\ id[2] \in api.cfg.models

OthersAreNot == \A id \in IDs \ ListedIn(models) : up => Unregistered(id)

RegistryInv ==
  /\ RegistryTypeOK /\ DownIsIdle /\ SnapshotIsFile /\ ListedAreRegistered /\ OthersAreNot

\* A save that has read the file holds its mutex, and the file is what it has read.
SavesHoldFile ==
  /\ \A s \in Services : (saving[s] # None /\ saving[s].dto # None) <=> fileMu = s
  /\ ~clash => \A s \in Services : fileMu = s => saving[s].dto = memory

\* The section the consolidation is about to apply is that of the file, unless the
\* file will be read again.
ReadsFollow ==
  /\ up => (phase["memory"] = "running" <=> reading.of # None)
  /\ ~up => reading = NotReading
  /\ reading.of = "consolidation" =>
       reading.section = memory["consolidation"] \/ Unseen("memory")

ConfigInv ==
  /\ ConfigTypeOK /\ SavesHoldFile /\ ReadsFollow
  /\ SectionsSurvive /\ ConsolidatorFollowsFile

-----------------------------------------------------------------------------
(***************************************************************************)
(* Constants, pairs and the operation under way                            *)
(***************************************************************************)

\* The assumptions, for the values the proofs compare.
LEMMA Constants ==
  /\ MaxChanges \in Nat
  /\ None \notin Names /\ None \notin Urls /\ None \notin Config /\ None \notin IDs
  /\ {"edited", "raced", "replaced", "failed"} \subseteq Excuses /\ None \notin Excuses
  /\ None # "edited" /\ None # "raced" /\ None # "replaced" /\ None # "failed"
  /\ None # "activity" /\ None # "consolidation" /\ None # "between"
  /\ None \notin Model /\ None \notin Saving /\ None \notin Section
  /\ None \notin [Services -> Section \cup {None}]
BY RegistryAssumption, MemoryAssumption DEF Excuses, Services, Section, Refs

\* A model is a provider and a name.
LEMMA Pairs ==
  /\ \A id \in IDs : id[1] \in Providers /\ id[2] \in Names
  /\ \A id \in IDs : \A p, S : id \in {p} \X S <=> id[1] = p /\ id[2] \in S
  /\ \A id \in IDs : \A p, n : id = <<p, n>> <=> id[1] = p /\ id[2] = n
  /\ \A p \in Providers, n \in Names : <<p, n>> \in IDs
BY DEF IDs

\* What the operation under way has kept, by its kind.
LEMMA ApiShape ==
  ASSUME RegistryTypeOK
  PROVE  /\ api = Idle <=> api.op = "none"
         /\ api.op \in {"none", "add", "save", "set", "move", "rename", "delete", "cut", "unlist"}
         /\ api.op # "none" => api.p \in Providers
         /\ api.op \in {"add", "save", "set", "move", "rename", "cut"} => api.cfg \in Config
         /\ api.op = "rename" => api.to \in Providers
         /\ api.op \in {"cut", "unlist"} => api.n \in Names
<1>1. CASE api = Idle
  BY <1>1 DEF Idle
<1>2. CASE api \in [op : {"add", "save", "set", "move"}, p : Providers, cfg : Config]
  BY <1>2 DEF Idle
<1>3. CASE api \in [op : {"rename"}, p : Providers, to : Providers, cfg : Config]
  BY <1>3 DEF Idle
<1>4. CASE api \in [op : {"delete"}, p : Providers]
  BY <1>4 DEF Idle
<1>5. CASE api \in [op : {"cut"}, p : Providers, n : Names, cfg : Config]
  BY <1>5 DEF Idle
<1>6. CASE api \in [op : {"unlist"}, p : Providers, n : Names]
  BY <1>6 DEF Idle
<1> QED BY <1>1, <1>2, <1>3, <1>4, <1>5, <1>6 DEF RegistryTypeOK, Pending

\* The process is up while an operation is under way or a provider is to be loaded.
LEMMA Busy ==
  ASSUME RegistryInv
  PROVE  /\ api.op # "none" => up
         /\ \A p \in Providers : snapshot[p] # None => up
BY ApiShape DEF RegistryInv, DownIsIdle, NothingRead

-----------------------------------------------------------------------------
(***************************************************************************)
(* The pieces the steps of the registry are made of                        *)
(***************************************************************************)

\* Nothing about a file has changed for its watcher.
Stays(f) ==
  events'[f] = events[f] /\ phase'[f] = phase[f] /\ (f \in missed' <=> f \in missed)

\* Changes are counted up to their bound.
LEMMA Counted ==
  ASSUME RegistryTypeOK, Change
  PROVE  changes' \in 0..MaxChanges
BY Constants DEF RegistryTypeOK, Change

\* A change of a file is an event for its watcher, if there is one.
LEMMA Notified ==
  ASSUME RegistryTypeOK, NEW f \in Watched, Notify(f)
  PROVE  /\ events' \in [Watched -> Nat] /\ UNCHANGED <<phase, missed>>
         /\ up => events'[f] > 0
         /\ \A g \in Watched : g # f => Stays(g)
<1>1. CASE up
  <2>1. events' = [events EXCEPT ![f] = @ + 1] /\ events \in [Watched -> Nat]
    BY <1>1 DEF RegistryTypeOK, Notify
  <2>2. events[f] \in Nat
    BY <2>1
  <2>3. events[f] + 1 \in Nat /\ events[f] + 1 > 0
    BY <2>2
  <2>4. events' \in [Watched -> Nat] /\ events'[f] = events[f] + 1
    BY <2>1, <2>3
  <2> QED BY <2>3, <2>4 DEF Notify, Stays
<1>2. CASE ~up
  BY DEF RegistryTypeOK, Notify, Stays
<1> QED BY <1>1, <1>2

\* What a watcher does about one file is nothing to another.
LEMMA Watches ==
  ASSUME RegistryTypeOK, NEW f \in Watched, Begin(f) \/ Fail(f) \/ Finish(f)
  PROVE  /\ phase' \in [Watched -> {"idle", "armed", "running"}] /\ missed' \subseteq Watched
         /\ UNCHANGED events /\ Begin(f) => phase'[f] = "running"
         /\ Fail(f) => phase'[f] = "idle" /\ f \in missed'
         /\ Finish(f) => phase'[f] = "idle" /\ UNCHANGED missed
         /\ \A g \in Watched : g # f => Stays(g)
BY DEF RegistryTypeOK, Begin, Fail, Finish, Stays

\* An excuse is set for some models.
LEMMA Excused ==
  ASSUME RegistryTypeOK, NEW ids, NEW why \in Excuses \cup {None}, Excuse(ids, why)
  PROVE  /\ excuse' \in [IDs -> Excuses \cup {None}]
         /\ \A id \in IDs : excuse'[id] = IF id \in ids THEN why ELSE excuse[id]
BY Constants DEF RegistryTypeOK, Excuse

\* A provider is written to the file: the watcher will see it, and what it does not
\* list any more is excused or not registered.
LEMMA Saved ==
  ASSUME RegistryInv, up, api.op \notin {"none", "unlist"},
         NEW p \in Providers, NEW cfg \in Config \cup {None}, Save(p, cfg)
  PROVE  /\ models' \in [Providers -> Config \cup {None}] /\ models'[p] = cfg
         /\ events' \in [Watched -> Nat] /\ Stays("memory")
         /\ excuse' \in [IDs -> Excuses \cup {None}]
         /\ UNCHANGED <<up, secretFile, registry, secrets, snapshot, changes, phase, missed>>
         /\ SnapshotIsFile' /\ ListedAreRegistered'
         /\ \A id \in IDs \ ListedIn(models') :
              \/ registry[id] = None \/ excuse'[id] # None
              \/ api.op = "cut" /\ id = <<p, api.n>>
              \/ id \notin ListedIn(models) /\ Unregistered(id) /\ excuse'[id] = excuse[id]
<1>0. RegistryTypeOK /\ SnapshotIsFile /\ OthersAreNot
  BY DEF RegistryInv
<1>1. models' \in [Providers -> Config \cup {None}] /\ models'[p] = cfg
  BY <1>0 DEF RegistryTypeOK, Save
<1>2. /\ events' \in [Watched -> Nat] /\ Stays("memory") /\ UNCHANGED <<phase, missed>>
      /\ events'["models"] > 0
  BY <1>0, Notified DEF Save, Watched
<1>3. UNCHANGED <<up, secretFile, registry, secrets, snapshot, changes>>
  BY DEF Save
<1>4. /\ excuse' \in [IDs -> Excuses \cup {None}]
      /\ \A id \in IDs : id \notin Left => excuse'[id] = excuse[id]
      /\ \A id \in Left : id \in IDs /\ (excuse'[id] # None \/ (api.op = "cut" /\ id = <<p, api.n>>))
  <2>1. Excuse(Left \ (IF api.op = "cut" THEN {<<p, api.n>>} ELSE {}), Cause)
    BY DEF Save
  <2>2. \A id \in Left : id \in IDs
    BY DEF Left, ListedIn
  <2>4. Cause \in Excuses
    BY <1>0, ApiShape, Constants DEF Cause
  <2>3. /\ excuse' \in [IDs -> Excuses \cup {None}]
        /\ \A id \in IDs : excuse'[id] =
             IF id \in Left \ (IF api.op = "cut" THEN {<<p, api.n>>} ELSE {})
             THEN Cause ELSE excuse[id]
    BY <1>0, <2>1, <2>4, Excused
  <2> QED BY <2>2, <2>3, <2>4, Constants
<1>5. SnapshotIsFile' /\ ListedAreRegistered'
  <2>1. Unseen("models")'
    BY <1>2 DEF Unseen
  <2>2. SnapshotIsFile'
    BY <1>0, <1>2, <1>3, <2>1 DEF SnapshotIsFile
  <2> QED BY <2>1, <2>2 DEF ListedAreRegistered, Registered
<1>6. ASSUME NEW id \in IDs \ ListedIn(models')
      PROVE  \/ registry[id] = None \/ excuse'[id] # None
             \/ api.op = "cut" /\ id = <<p, api.n>>
             \/ id \notin ListedIn(models) /\ Unregistered(id) /\ excuse'[id] = excuse[id]
  <2>1. CASE id \in ListedIn(models)
    BY <1>4, <2>1, Constants DEF Left
  <2>2. CASE id \notin ListedIn(models)
    BY <1>0, <1>4, <2>2 DEF OthersAreNot, Left
  <2> QED BY <2>1, <2>2
<1> QED BY <1>1, <1>2, <1>3, <1>4, <1>5, <1>6

-----------------------------------------------------------------------------
(***************************************************************************)
(* The steps of the registry                                               *)
(***************************************************************************)

\* An edit by hand is an event, and excuses what it leaves registered.
LEMMA RegEditModels ==
  ASSUME RegistryInv, EditModels
  PROVE  RegistryInv' /\ UNCHANGED up /\ Stays("memory")
<1>0. /\ RegistryInv /\ RegistryTypeOK /\ DownIsIdle /\ SnapshotIsFile
      /\ ListedAreRegistered /\ OthersAreNot
  BY DEF RegistryInv
<1>k. UNCHANGED <<up, secretFile, registry, secrets, api, snapshot, phase, missed>>
  BY DEF EditModels, Notify, serviceVars
<1>c. changes' \in 0..MaxChanges
  BY <1>0, Counted DEF EditModels
<1>a. PICK p \in Providers, cfg \in Config \cup {None} : models' = [models EXCEPT ![p] = cfg]
  BY DEF EditModels
<1>b. models' \in [Providers -> Config \cup {None}]
  BY <1>0, <1>a DEF RegistryTypeOK
<1>n. /\ events' \in [Watched -> Nat] /\ UNCHANGED <<phase, missed>> /\ Stays("memory")
      /\ up => events'["models"] > 0
  BY <1>0, Notified DEF EditModels, Watched
<1>x. /\ excuse' \in [IDs -> Excuses \cup {None}]
      /\ \A id \in IDs : excuse'[id] = IF id \in Left THEN "edited" ELSE excuse[id]
  BY <1>0, Excused, Constants DEF EditModels
<1>1. RegistryTypeOK'
  BY <1>0, <1>b, <1>c, <1>k, <1>n, <1>x DEF RegistryTypeOK
<1>2. DownIsIdle'
  BY <1>0, <1>k DEF DownIsIdle
<1>3. SnapshotIsFile'
  BY <1>0, <1>k, <1>n DEF SnapshotIsFile, Unseen
<1>4. ListedAreRegistered'
  BY <1>k, <1>n DEF ListedAreRegistered, Registered, Unseen
<1>5. OthersAreNot'
  <2> SUFFICES ASSUME NEW id \in IDs \ ListedIn(models'), up PROVE Unregistered(id)'
    BY <1>k DEF OthersAreNot, ListedIn
  <2>1. CASE id \in ListedIn(models)
    BY <1>k, <1>x, <2>1, Constants DEF Left, Unregistered
  <2>2. CASE id \notin ListedIn(models)
    BY <1>0, <1>k, <1>x, <2>2 DEF OthersAreNot, Left, Unregistered
  <2> QED BY <2>1, <2>2
<1> QED BY <1>k, <1>n, <1>1, <1>2, <1>3, <1>4, <1>5 DEF RegistryInv

\* An edit of the secrets by hand.
LEMMA RegEditSecrets ==
  ASSUME RegistryInv, EditSecrets
  PROVE  RegistryInv' /\ UNCHANGED up /\ Stays("memory")
<1>0. /\ RegistryInv /\ RegistryTypeOK /\ DownIsIdle /\ SnapshotIsFile
      /\ ListedAreRegistered /\ OthersAreNot
  BY DEF RegistryInv
<1>k. UNCHANGED <<up, models, registry, secrets, api, snapshot, phase, missed, excuse>>
  BY DEF EditSecrets, Notify, serviceVars
<1>c. changes' \in 0..MaxChanges
  BY <1>0, Counted DEF EditSecrets
<1>b. secretFile' \subseteq Providers
  BY <1>0 DEF EditSecrets, RegistryTypeOK
<1>n. /\ events' \in [Watched -> Nat] /\ UNCHANGED <<phase, missed>>
      /\ Stays("memory") /\ Stays("models")
  BY <1>0, Notified DEF EditSecrets, Watched
<1>1. RegistryTypeOK'
  BY <1>0, <1>b, <1>c, <1>k, <1>n DEF RegistryTypeOK
<1>2. DownIsIdle'
  BY <1>0, <1>k DEF DownIsIdle
<1>3. SnapshotIsFile'
  BY <1>0, <1>k, <1>n DEF SnapshotIsFile, Unseen, Stays
<1>4. ListedAreRegistered'
  BY <1>0, <1>k, <1>n DEF ListedAreRegistered, Registered, Touched, Unseen, Stays
<1>5. OthersAreNot'
  BY <1>0, <1>k DEF OthersAreNot, Unregistered
<1> QED BY <1>k, <1>n, <1>1, <1>2, <1>3, <1>4, <1>5 DEF RegistryInv

\* The secrets are read again.
LEMMA RegReloadSecrets ==
  ASSUME RegistryInv, ReloadSecrets
  PROVE  RegistryInv' /\ UNCHANGED up /\ Stays("memory")
<1>0. /\ RegistryInv /\ RegistryTypeOK /\ DownIsIdle /\ SnapshotIsFile
      /\ ListedAreRegistered /\ OthersAreNot
  BY DEF RegistryInv
<1>k. UNCHANGED <<up, models, secretFile, registry, api, snapshot, events, excuse, changes>>
  BY DEF ReloadSecrets, fileVars
<1>b. secrets' \subseteq Providers
  BY <1>0 DEF ReloadSecrets, RegistryTypeOK
<1>n. /\ up /\ phase' \in [Watched -> {"idle", "armed", "running"}] /\ missed' \subseteq Watched
      /\ Stays("memory") /\ Stays("models")
  BY <1>0 DEF ReloadSecrets, RegistryTypeOK, Watched, Stays
<1>1. RegistryTypeOK'
  BY <1>0, <1>b, <1>k, <1>n DEF RegistryTypeOK
<1>2. DownIsIdle'
  BY <1>k, <1>n DEF DownIsIdle
<1>3. SnapshotIsFile'
  BY <1>0, <1>k, <1>n DEF SnapshotIsFile, Unseen, Stays
<1>4. ListedAreRegistered'
  BY <1>0, <1>k, <1>n DEF ListedAreRegistered, Registered, Touched, Unseen, Stays
<1>5. OthersAreNot'
  BY <1>0, <1>k DEF OthersAreNot, Unregistered
<1> QED BY <1>k, <1>n, <1>1, <1>2, <1>3, <1>4, <1>5 DEF RegistryInv

\* A key is put or deleted.
LEMMA RegSetSecret ==
  ASSUME RegistryInv, NEW p \in Providers, SetSecret(p)
  PROVE  RegistryInv' /\ UNCHANGED up /\ Stays("memory")
<1>0. /\ RegistryInv /\ RegistryTypeOK /\ DownIsIdle /\ SnapshotIsFile
      /\ ListedAreRegistered /\ OthersAreNot
  BY DEF RegistryInv
<1>k. UNCHANGED <<up, models, registry, api, snapshot, excuse>>
  BY DEF SetSecret
<1>c. up /\ changes' \in 0..MaxChanges
  BY <1>0, Counted DEF SetSecret
<1>b. secretFile' \subseteq Providers /\ secrets' \subseteq Providers
  BY <1>0 DEF SetSecret, RegistryTypeOK
<1>n. /\ events' \in [Watched -> Nat] /\ UNCHANGED <<phase, missed>>
      /\ Stays("memory") /\ Stays("models")
  <2>1. CASE Notify("secrets")
    BY <1>0, <2>1, Notified DEF Watched
  <2>2. CASE UNCHANGED watchVars
    BY <1>0, <2>2 DEF watchVars, RegistryTypeOK, Stays
  <2> QED BY <2>1, <2>2 DEF SetSecret
<1>1. RegistryTypeOK'
  BY <1>0, <1>b, <1>c, <1>k, <1>n DEF RegistryTypeOK
<1>2. DownIsIdle'
  BY <1>0, <1>k, <1>n DEF DownIsIdle
<1>3. SnapshotIsFile'
  BY <1>0, <1>k, <1>n DEF SnapshotIsFile, Unseen, Stays
<1>4. ListedAreRegistered'
  BY <1>0, <1>k, <1>n DEF ListedAreRegistered, Registered, Touched, Unseen, Stays
<1>5. OthersAreNot'
  BY <1>0, <1>k DEF OthersAreNot, Unregistered
<1> QED BY <1>k, <1>n, <1>1, <1>2, <1>3, <1>4, <1>5 DEF RegistryInv

\* Reload has read the file: whatever is to be loaded is in its snapshot.
LEMMA RegReadProviders ==
  ASSUME RegistryInv, ReadProviders
  PROVE  RegistryInv' /\ UNCHANGED up /\ Stays("memory")
<1>0. /\ RegistryInv /\ RegistryTypeOK /\ DownIsIdle /\ SnapshotIsFile
      /\ ListedAreRegistered /\ OthersAreNot
  BY DEF RegistryInv
<1>k. UNCHANGED <<up, models, secretFile, registry, secrets, api, events, excuse, changes>>
  BY DEF ReadProviders, Begin, fileVars
<1>n. /\ up /\ phase' \in [Watched -> {"idle", "armed", "running"}] /\ missed' \subseteq Watched
      /\ phase'["models"] = "running" /\ Stays("memory") /\ snapshot' = models
  BY <1>0, Watches DEF ReadProviders, Begin, Watched
<1>1. RegistryTypeOK'
  BY <1>0, <1>k, <1>n DEF RegistryTypeOK
<1>2. DownIsIdle'
  BY <1>k, <1>n DEF DownIsIdle
<1>3. SnapshotIsFile'
  BY <1>k, <1>n DEF SnapshotIsFile
<1>4. ListedAreRegistered'
  <2> SUFFICES ASSUME NEW id \in ListedIn(models) PROVE Registered(id)'
    BY <1>k DEF ListedAreRegistered, ListedIn
  <2>1. snapshot'[id[1]] # None
    BY <1>n DEF ListedIn
  <2> QED BY <2>1 DEF Registered
<1>5. OthersAreNot'
  BY <1>0, <1>k DEF OthersAreNot, Unregistered
<1> QED BY <1>k, <1>n, <1>1, <1>2, <1>3, <1>4, <1>5 DEF RegistryInv

\* The models of a provider are registered as the file had them.
LEMMA RegLoadProvider ==
  ASSUME RegistryInv, NEW p \in Providers, LoadProvider(p)
  PROVE  RegistryInv' /\ UNCHANGED up /\ Stays("memory")
<1>0. /\ RegistryInv /\ RegistryTypeOK /\ DownIsIdle /\ SnapshotIsFile
      /\ ListedAreRegistered /\ OthersAreNot
  BY DEF RegistryInv
<1>k. UNCHANGED <<up, models, secretFile, secrets, api, events, phase, missed, changes>>
  BY DEF LoadProvider, fileVars, watchVars
<1>a. /\ up /\ snapshot[p] # None /\ snapshot[p] \in Config
      /\ phase["models"] = "running" /\ (snapshot[p] = models[p] \/ Unseen("models"))
      /\ snapshot' = [snapshot EXCEPT ![p] = None]
  BY <1>0 DEF LoadProvider, RegistryTypeOK, SnapshotIsFile
<1>s. /\ snapshot' \in [Providers -> Config \cup {None}] /\ snapshot'[p] = None
      /\ \A q \in Providers : q # p => snapshot'[q] = snapshot[q]
  BY <1>0, <1>a DEF RegistryTypeOK
<1>r. /\ registry' \in [IDs -> Urls \cup {None}]
      /\ \A id \in IDs : registry'[id] = IF id[1] = p /\ id[2] \in snapshot[p].models
                                         THEN snapshot[p].url ELSE registry[id]
  <2>1. registry' = Put({p} \X snapshot[p].models, snapshot[p].url) /\ snapshot[p].url \in Urls
    BY <1>a DEF LoadProvider, Config
  <2>2. /\ registry' \in [IDs -> Urls \cup {None}]
        /\ \A id \in IDs : registry'[id] = IF id \in {p} \X snapshot[p].models
                                           THEN snapshot[p].url ELSE registry[id]
    BY <1>0, <2>1 DEF Put, RegistryTypeOK
  <2> QED BY <2>2, Pairs
<1>x. /\ excuse' \in [IDs -> Excuses \cup {None}]
      /\ \A id \in IDs : excuse'[id] = IF ~(id[1] = p /\ id[2] \in snapshot[p].models) THEN excuse[id]
                                       ELSE IF id \in ListedIn(models) THEN None ELSE "raced"
  <2>1. excuse' = [id \in IDs |-> IF id \notin {p} \X snapshot[p].models THEN excuse[id]
                                  ELSE IF id \in ListedIn(models) THEN None ELSE "raced"]
    BY DEF LoadProvider
  <2>2. excuse' \in [IDs -> Excuses \cup {None}]
    BY <1>0, <2>1, Constants DEF RegistryTypeOK
  <2> QED BY <2>1, <2>2, Pairs
<1>n. Stays("memory")
  BY <1>k DEF Stays
<1>1. RegistryTypeOK'
  BY <1>0, <1>k, <1>r, <1>s, <1>x DEF RegistryTypeOK
<1>2. DownIsIdle'
  BY <1>a, <1>k DEF DownIsIdle
<1>3. SnapshotIsFile'
  BY <1>0, <1>k, <1>s DEF SnapshotIsFile, Unseen
<1>4. ListedAreRegistered'
  <2> SUFFICES ASSUME NEW id \in ListedIn(models) PROVE Registered(id)'
    BY <1>k DEF ListedAreRegistered, ListedIn
  <2>1. id \in IDs /\ id[1] \in Providers /\ id[2] \in models[id[1]].models /\ Registered(id)
    BY <1>0, <1>a, Pairs DEF ListedIn, ListedAreRegistered
  <2>2. CASE id[1] # p
    BY <1>k, <1>r, <1>s, <1>x, <2>1, <2>2 DEF Registered, Touched, Unseen
  <2>3. CASE id[1] = p /\ Unseen("models")
    BY <1>k, <2>3 DEF Registered, Unseen
  <2>4. CASE id[1] = p /\ snapshot[p] = models[p]
    BY <1>k, <1>r, <2>1, <2>4 DEF Registered
  <2> QED BY <1>a, <2>2, <2>3, <2>4
<1>5. OthersAreNot'
  <2> SUFFICES ASSUME NEW id \in IDs \ ListedIn(models) PROVE Unregistered(id)'
    BY <1>k DEF OthersAreNot, ListedIn
  <2>1. Unregistered(id)
    BY <1>0, <1>a DEF OthersAreNot
  <2>2. CASE id[1] = p /\ id[2] \in snapshot[p].models
    BY <1>x, <2>2, Constants DEF Unregistered
  <2>3. CASE ~(id[1] = p /\ id[2] \in snapshot[p].models)
    BY <1>k, <1>r, <1>x, <2>1, <2>3 DEF Unregistered
  <2> QED BY <2>2, <2>3
<1> QED BY <1>k, <1>n, <1>1, <1>2, <1>3, <1>4, <1>5 DEF RegistryInv

\* Reload is over when nothing is left in its snapshot.
LEMMA RegReloadEnds ==
  ASSUME RegistryInv, ReloadEnds
  PROVE  RegistryInv' /\ UNCHANGED up /\ Stays("memory")
<1>0. /\ RegistryInv /\ RegistryTypeOK /\ DownIsIdle /\ SnapshotIsFile
      /\ ListedAreRegistered /\ OthersAreNot
  BY DEF RegistryInv
<1>k. UNCHANGED <<up, models, secretFile, registry, secrets, api, snapshot, events, missed,
                  excuse, changes>>
  BY DEF ReloadEnds, Finish, fileVars, serviceVars
<1>n. /\ phase' \in [Watched -> {"idle", "armed", "running"}] /\ phase["models"] = "running"
      /\ UNCHANGED missed /\ Stays("memory") /\ \A p \in Providers : snapshot[p] = None
  BY <1>0, Watches DEF ReloadEnds, Watched, NothingRead
<1>u. up
  BY <1>0, <1>n DEF DownIsIdle, Watched
<1>1. RegistryTypeOK'
  BY <1>0, <1>k, <1>n DEF RegistryTypeOK
<1>2. DownIsIdle'
  BY <1>k, <1>u DEF DownIsIdle
<1>3. SnapshotIsFile'
  BY <1>k, <1>n DEF SnapshotIsFile
<1>4. ListedAreRegistered'
  <2> SUFFICES ASSUME NEW id \in ListedIn(models) PROVE Registered(id)'
    BY <1>k DEF ListedAreRegistered, ListedIn
  <2>1. Registered(id) /\ id[1] \in Providers
    BY <1>0, <1>u, Pairs DEF ListedAreRegistered, ListedIn
  <2> QED BY <1>k, <1>n, <2>1 DEF Registered, Touched, Unseen
<1>5. OthersAreNot'
  BY <1>0, <1>k DEF OthersAreNot, Unregistered
<1> QED BY <1>k, <1>n, <1>1, <1>2, <1>3, <1>4, <1>5 DEF RegistryInv

\* An operation that has read the file and written nothing.
LEMMA RegAddProvider ==
  ASSUME RegistryInv, NEW p \in Providers, AddProvider(p)
  PROVE  RegistryInv' /\ UNCHANGED up /\ Stays("memory")
<1>0. /\ RegistryInv /\ RegistryTypeOK /\ DownIsIdle /\ SnapshotIsFile
      /\ ListedAreRegistered /\ OthersAreNot
  BY DEF RegistryInv
<1>k. UNCHANGED <<up, models, secretFile, registry, secrets, snapshot, events, phase,
                  missed, excuse>>
  BY DEF AddProvider, fileVars, watchVars
<1>c. up /\ api = Idle /\ api.op = "none" /\ changes' \in 0..MaxChanges
  BY <1>0, ApiShape, Counted DEF AddProvider, Operation
<1>a. api' \in Pending /\ api'.op = "add"
  BY DEF AddProvider, Pending
<1>n. Stays("memory")
  BY <1>k DEF Stays
<1>1. RegistryTypeOK'
  BY <1>0, <1>a, <1>c, <1>k DEF RegistryTypeOK
<1>2. DownIsIdle'
  BY <1>c, <1>k DEF DownIsIdle
<1>3. SnapshotIsFile'
  BY <1>0, <1>k DEF SnapshotIsFile, Unseen
<1>4. ListedAreRegistered'
  BY <1>0, <1>c, <1>k DEF ListedAreRegistered, Registered, Touched, Unseen
<1>5. OthersAreNot'
  BY <1>0, <1>c, <1>k DEF OthersAreNot, Unregistered
<1> QED BY <1>k, <1>n, <1>1, <1>2, <1>3, <1>4, <1>5 DEF RegistryInv

\* So is the deletion of a model.
LEMMA RegDeleteModel ==
  ASSUME RegistryInv, NEW p \in Providers, NEW n \in Names, DeleteModel(p, n)
  PROVE  RegistryInv' /\ UNCHANGED up /\ Stays("memory")
<1>0. /\ RegistryInv /\ RegistryTypeOK /\ DownIsIdle /\ SnapshotIsFile
      /\ ListedAreRegistered /\ OthersAreNot
  BY DEF RegistryInv
<1>k. UNCHANGED <<up, models, secretFile, registry, secrets, snapshot, events, phase,
                  missed, excuse>>
  BY DEF DeleteModel, fileVars, watchVars
<1>c. up /\ api = Idle /\ api.op = "none" /\ changes' \in 0..MaxChanges
  BY <1>0, ApiShape, Counted DEF DeleteModel, Operation
<1>a. api' \in Pending /\ api'.op = "cut"
  <2>1. models[p] \in Config
    BY <1>0 DEF DeleteModel, RegistryTypeOK
  <2>2. [models[p] EXCEPT !.models = @ \ {n}] \in Config
    BY <2>1 DEF Config
  <2> QED BY <2>2 DEF DeleteModel, Pending
<1>n. Stays("memory")
  BY <1>k DEF Stays
<1>1. RegistryTypeOK'
  BY <1>0, <1>a, <1>c, <1>k DEF RegistryTypeOK
<1>2. DownIsIdle'
  BY <1>c, <1>k DEF DownIsIdle
<1>3. SnapshotIsFile'
  BY <1>0, <1>k DEF SnapshotIsFile, Unseen
<1>4. ListedAreRegistered'
  BY <1>0, <1>c, <1>k DEF ListedAreRegistered, Registered, Touched, Unseen
<1>5. OthersAreNot'
  BY <1>0, <1>c, <1>k DEF OthersAreNot, Unregistered
<1> QED BY <1>k, <1>n, <1>1, <1>2, <1>3, <1>4, <1>5 DEF RegistryInv

\* The models of a provider that is changed go out of the registry first.
LEMMA RegUpdateProvider ==
  ASSUME RegistryInv, NEW p \in Providers, UpdateProvider(p)
  PROVE  RegistryInv' /\ UNCHANGED up /\ Stays("memory")
<1>0. /\ RegistryInv /\ RegistryTypeOK /\ DownIsIdle /\ SnapshotIsFile
      /\ ListedAreRegistered /\ OthersAreNot
  BY DEF RegistryInv
<1>k. UNCHANGED <<up, models, secretFile, secrets, snapshot, events, phase, missed>>
  BY DEF UpdateProvider, fileVars, watchVars
<1>c. up /\ api = Idle /\ api.op = "none" /\ changes' \in 0..MaxChanges
  BY <1>0, ApiShape, Counted DEF UpdateProvider, Operation
<1>m. models[p] # None /\ models[p] \in Config
  BY <1>0 DEF UpdateProvider, RegistryTypeOK
<1>a. api' \in Pending /\ api'.op \in {"save", "rename"} /\ api'.p = p
  <2>1. PICK to \in Providers, url \in Urls :
          api' = IF to = p THEN [op |-> "save", p |-> p, cfg |-> [models[p] EXCEPT !.url = url]]
                 ELSE [op |-> "rename", p |-> p, to |-> to, cfg |-> [models[p] EXCEPT !.url = url]]
    BY DEF UpdateProvider
  <2>2. [models[p] EXCEPT !.url = url] \in Config
    BY <1>m DEF Config
  <2> QED BY <2>1, <2>2 DEF Pending
<1>r. /\ registry' \in [IDs -> Urls \cup {None}]
      /\ excuse' \in [IDs -> Excuses \cup {None}]
      /\ \A id \in IDs : IF id[1] = p /\ id[2] \in models[p].models
                         THEN registry'[id] = None /\ excuse'[id] = None
                         ELSE registry'[id] = registry[id] /\ excuse'[id] = excuse[id]
  <2>1. registry' = Put({p} \X models[p].models, None) /\ Excuse({p} \X models[p].models, None)
    BY DEF UpdateProvider
  <2>2. /\ registry' \in [IDs -> Urls \cup {None}]
        /\ \A id \in IDs : registry'[id] = IF id \in {p} \X models[p].models THEN None ELSE registry[id]
    BY <1>0, <2>1 DEF Put, RegistryTypeOK
  <2>3. /\ excuse' \in [IDs -> Excuses \cup {None}]
        /\ \A id \in IDs : excuse'[id] = IF id \in {p} \X models[p].models THEN None ELSE excuse[id]
    BY <1>0, <2>1, Excused
  <2>4. \A id \in IDs : id \in {p} \X models[p].models <=> id[1] = p /\ id[2] \in models[p].models
    BY Pairs
  <2> QED BY <2>2, <2>3, <2>4
<1>n. Stays("memory")
  BY <1>k DEF Stays
<1>1. RegistryTypeOK'
  BY <1>0, <1>a, <1>c, <1>k, <1>r DEF RegistryTypeOK
<1>2. DownIsIdle'
  BY <1>c, <1>k DEF DownIsIdle
<1>3. SnapshotIsFile'
  BY <1>0, <1>k DEF SnapshotIsFile, Unseen
<1>4. ListedAreRegistered'
  <2> SUFFICES ASSUME NEW id \in ListedIn(models) PROVE Registered(id)'
    BY <1>k DEF ListedAreRegistered, ListedIn
  <2>1. id \in IDs /\ Registered(id)
    BY <1>0, <1>c DEF ListedAreRegistered, ListedIn
  <2>2. CASE id[1] = p
    BY <1>a, <2>2 DEF Registered, Touched
  <2>3. CASE id[1] # p
    BY <1>c, <1>k, <1>r, <2>1, <2>3 DEF Registered, Touched, Unseen
  <2> QED BY <2>2, <2>3
<1>5. OthersAreNot'
  <2> SUFFICES ASSUME NEW id \in IDs \ ListedIn(models) PROVE Unregistered(id)'
    BY <1>k DEF OthersAreNot, ListedIn
  <2>1. Unregistered(id)
    BY <1>0, <1>c DEF OthersAreNot
  <2> QED BY <1>c, <1>r, <2>1 DEF Unregistered
<1> QED BY <1>k, <1>n, <1>1, <1>2, <1>3, <1>4, <1>5 DEF RegistryInv

\* The models of a provider that is deleted go out of the registry first.
LEMMA RegDeleteProvider ==
  ASSUME RegistryInv, NEW p \in Providers, DeleteProvider(p)
  PROVE  RegistryInv' /\ UNCHANGED up /\ Stays("memory")
<1>0. /\ RegistryInv /\ RegistryTypeOK /\ DownIsIdle /\ SnapshotIsFile
      /\ ListedAreRegistered /\ OthersAreNot
  BY DEF RegistryInv
<1>k. UNCHANGED <<up, models, secretFile, secrets, snapshot, events, phase, missed>>
  BY DEF DeleteProvider, fileVars, watchVars
<1>c. up /\ api = Idle /\ api.op = "none" /\ changes' \in 0..MaxChanges
  BY <1>0, ApiShape, Counted DEF DeleteProvider, Operation
<1>a. api' \in Pending /\ api'.op = "delete" /\ api'.p = p
  BY DEF DeleteProvider, Pending
<1>r. /\ registry' \in [IDs -> Urls \cup {None}]
      /\ excuse' \in [IDs -> Excuses \cup {None}]
      /\ \A id \in IDs : IF id[1] = p /\ id[2] \in models[p].models
                         THEN registry'[id] = None /\ excuse'[id] = None
                         ELSE registry'[id] = registry[id] /\ excuse'[id] = excuse[id]
  <2>1. registry' = Put({p} \X models[p].models, None) /\ Excuse({p} \X models[p].models, None)
    BY DEF DeleteProvider
  <2>2. /\ registry' \in [IDs -> Urls \cup {None}]
        /\ \A id \in IDs : registry'[id] = IF id \in {p} \X models[p].models THEN None ELSE registry[id]
    BY <1>0, <2>1 DEF Put, RegistryTypeOK
  <2>3. /\ excuse' \in [IDs -> Excuses \cup {None}]
        /\ \A id \in IDs : excuse'[id] = IF id \in {p} \X models[p].models THEN None ELSE excuse[id]
    BY <1>0, <2>1, Excused
  <2>4. \A id \in IDs : id \in {p} \X models[p].models <=> id[1] = p /\ id[2] \in models[p].models
    BY Pairs
  <2> QED BY <2>2, <2>3, <2>4
<1>n. Stays("memory")
  BY <1>k DEF Stays
<1>1. RegistryTypeOK'
  BY <1>0, <1>a, <1>c, <1>k, <1>r DEF RegistryTypeOK
<1>2. DownIsIdle'
  BY <1>c, <1>k DEF DownIsIdle
<1>3. SnapshotIsFile'
  BY <1>0, <1>k DEF SnapshotIsFile, Unseen
<1>4. ListedAreRegistered'
  <2> SUFFICES ASSUME NEW id \in ListedIn(models) PROVE Registered(id)'
    BY <1>k DEF ListedAreRegistered, ListedIn
  <2>1. id \in IDs /\ Registered(id)
    BY <1>0, <1>c DEF ListedAreRegistered, ListedIn
  <2>2. CASE id[1] = p
    BY <1>a, <2>2 DEF Registered, Touched
  <2>3. CASE id[1] # p
    BY <1>c, <1>k, <1>r, <2>1, <2>3 DEF Registered, Touched, Unseen
  <2> QED BY <2>2, <2>3
<1>5. OthersAreNot'
  <2> SUFFICES ASSUME NEW id \in IDs \ ListedIn(models) PROVE Unregistered(id)'
    BY <1>k DEF OthersAreNot, ListedIn
  <2>1. Unregistered(id)
    BY <1>0, <1>c DEF OthersAreNot
  <2> QED BY <1>c, <1>r, <2>1 DEF Unregistered
<1> QED BY <1>k, <1>n, <1>1, <1>2, <1>3, <1>4, <1>5 DEF RegistryInv

\* A model is registered before it is listed.
LEMMA RegSetModel ==
  ASSUME RegistryInv, NEW p \in Providers, NEW n \in Names, SetModel(p, n)
  PROVE  RegistryInv' /\ UNCHANGED up /\ Stays("memory")
<1>0. /\ RegistryInv /\ RegistryTypeOK /\ DownIsIdle /\ SnapshotIsFile
      /\ ListedAreRegistered /\ OthersAreNot
  BY DEF RegistryInv
<1>k. UNCHANGED <<up, models, secretFile, secrets, snapshot, events, phase, missed>>
  BY DEF SetModel, fileVars, watchVars
<1>c. up /\ api = Idle /\ api.op = "none" /\ changes' \in 0..MaxChanges
  BY <1>0, ApiShape, Counted DEF SetModel, Operation
<1>m. models[p] # None /\ models[p] \in Config
  BY <1>0 DEF SetModel, RegistryTypeOK
<1>a. api' \in Pending /\ api'.op = "set" /\ api'.p = p /\ n \in api'.cfg.models
  <2>1. [models[p] EXCEPT !.models = @ \cup {n}] \in Config
    BY <1>m DEF Config
  <2>2. api' = [op |-> "set", p |-> p, cfg |-> [models[p] EXCEPT !.models = @ \cup {n}]]
    BY DEF SetModel
  <2>3. n \in [models[p] EXCEPT !.models = @ \cup {n}].models
    BY <1>m DEF Config
  <2> QED BY <2>1, <2>2, <2>3 DEF Pending
<1>r. /\ registry' \in [IDs -> Urls \cup {None}]
      /\ excuse' \in [IDs -> Excuses \cup {None}]
      /\ \A id \in IDs : IF id[1] = p /\ id[2] = n
                         THEN registry'[id] = models[p].url /\ excuse'[id] = None
                         ELSE registry'[id] = registry[id] /\ excuse'[id] = excuse[id]
  <2>1. /\ registry' = Put({<<p, n>>}, models[p].url) /\ Excuse({<<p, n>>}, None)
        /\ models[p].url \in Urls
    BY <1>m DEF SetModel, Config
  <2>2. /\ registry' \in [IDs -> Urls \cup {None}]
        /\ \A id \in IDs : registry'[id] = IF id \in {<<p, n>>} THEN models[p].url ELSE registry[id]
    BY <1>0, <2>1 DEF Put, RegistryTypeOK
  <2>3. /\ excuse' \in [IDs -> Excuses \cup {None}]
        /\ \A id \in IDs : excuse'[id] = IF id \in {<<p, n>>} THEN None ELSE excuse[id]
    BY <1>0, <2>1, Excused
  <2> QED BY <2>2, <2>3, Pairs
<1>n. Stays("memory")
  BY <1>k DEF Stays
<1>1. RegistryTypeOK'
  BY <1>0, <1>a, <1>c, <1>k, <1>r DEF RegistryTypeOK
<1>2. DownIsIdle'
  BY <1>c, <1>k DEF DownIsIdle
<1>3. SnapshotIsFile'
  BY <1>0, <1>k DEF SnapshotIsFile, Unseen
<1>4. ListedAreRegistered'
  <2> SUFFICES ASSUME NEW id \in ListedIn(models) PROVE Registered(id)'
    BY <1>k DEF ListedAreRegistered, ListedIn
  <2>1. id \in IDs /\ Registered(id)
    BY <1>0, <1>c DEF ListedAreRegistered, ListedIn
  <2>2. CASE id[1] = p /\ id[2] = n
    BY <1>k, <1>r, <2>1, <2>2 DEF Registered
  <2>3. CASE ~(id[1] = p /\ id[2] = n)
    BY <1>c, <1>k, <1>r, <2>1 DEF Registered, Touched, Unseen
  <2> QED BY <2>2, <2>3
<1>5. OthersAreNot'
  <2> SUFFICES ASSUME NEW id \in IDs \ ListedIn(models) PROVE Unregistered(id)'
    BY <1>k DEF OthersAreNot, ListedIn
  <2>1. Unregistered(id)
    BY <1>0, <1>c DEF OthersAreNot
  <2> QED BY <1>a, <1>c, <1>r, <2>1 DEF Unregistered
<1> QED BY <1>k, <1>n, <1>1, <1>2, <1>3, <1>4, <1>5 DEF RegistryInv

\* An operation ends with the save of its provider.
LEMMA RegSaveProvider ==
  ASSUME RegistryInv, SaveProvider
  PROVE  RegistryInv' /\ UNCHANGED up /\ Stays("memory")
<1>0. /\ RegistryInv /\ RegistryTypeOK /\ DownIsIdle /\ SnapshotIsFile
      /\ ListedAreRegistered /\ OthersAreNot
  BY DEF RegistryInv
<1>k. UNCHANGED <<up, secretFile, registry, secrets, snapshot, phase, missed, changes>>
  BY DEF SaveProvider, Save, Notify
<1>b. up /\ api.op \in {"add", "save", "set", "move"} /\ api \in Pending
  BY <1>0, ApiShape, Busy DEF SaveProvider, RegistryTypeOK
<1>p. api.p \in Providers /\ api.cfg \in Config \cup {None} /\ Save(api.p, api.cfg)
  BY <1>0, ApiShape DEF SaveProvider
<1>s. /\ models' \in [Providers -> Config \cup {None}] /\ models'[api.p] = api.cfg
      /\ events' \in [Watched -> Nat] /\ Stays("memory")
      /\ excuse' \in [IDs -> Excuses \cup {None}]
      /\ UNCHANGED <<up, secretFile, registry, secrets, snapshot, changes, phase, missed>>
      /\ SnapshotIsFile' /\ ListedAreRegistered'
      /\ \A id \in IDs \ ListedIn(models') :
           \/ registry[id] = None \/ excuse'[id] # None
           \/ api.op = "cut" /\ id = <<api.p, api.n>>
           \/ id \notin ListedIn(models) /\ Unregistered(id) /\ excuse'[id] = excuse[id]
  BY <1>b, <1>p, Saved
<1>a. api' \in Pending \cup {Idle}
  BY DEF SaveProvider
<1>1. RegistryTypeOK'
  BY <1>0, <1>a, <1>s DEF RegistryTypeOK
<1>2. DownIsIdle'
  BY <1>b, <1>s DEF DownIsIdle
<1>3. SnapshotIsFile'
  BY <1>s
<1>4. ListedAreRegistered'
  BY <1>s
<1>5. OthersAreNot'
  <2> SUFFICES ASSUME NEW id \in IDs \ ListedIn(models') PROVE Unregistered(id)'
    BY DEF OthersAreNot, ListedIn
  <2>1. ~(api.p = id[1] /\ id[2] \in api.cfg.models)
    BY <1>0, <1>b, <1>s, ApiShape, Constants DEF ListedIn
  <2> QED BY <1>b, <1>s, <2>1 DEF Unregistered
<1> QED BY <1>k, <1>s, <1>1, <1>2, <1>3, <1>4, <1>5 DEF RegistryInv

\* The old name of a provider is deleted.
LEMMA RegDeleteOldName ==
  ASSUME RegistryInv, DeleteOldName
  PROVE  RegistryInv' /\ UNCHANGED up /\ Stays("memory")
<1>0. /\ RegistryInv /\ RegistryTypeOK /\ DownIsIdle /\ SnapshotIsFile
      /\ ListedAreRegistered /\ OthersAreNot
  BY DEF RegistryInv
<1>k. UNCHANGED <<up, secretFile, registry, secrets, snapshot, phase, missed, changes>>
  BY DEF DeleteOldName, Save, Notify
<1>b. up /\ api.op = "rename" /\ api \in Pending
  BY <1>0, ApiShape, Busy DEF DeleteOldName, RegistryTypeOK
<1>p. api.p \in Providers /\ None \in Config \cup {None} /\ Save(api.p, None)
  BY <1>0, ApiShape DEF DeleteOldName
<1>s. /\ models' \in [Providers -> Config \cup {None}] /\ models'[api.p] = None
      /\ events' \in [Watched -> Nat] /\ Stays("memory")
      /\ excuse' \in [IDs -> Excuses \cup {None}]
      /\ UNCHANGED <<up, secretFile, registry, secrets, snapshot, changes, phase, missed>>
      /\ SnapshotIsFile' /\ ListedAreRegistered'
      /\ \A id \in IDs \ ListedIn(models') :
           \/ registry[id] = None \/ excuse'[id] # None
           \/ api.op = "cut" /\ id = <<api.p, api.n>>
           \/ id \notin ListedIn(models) /\ Unregistered(id) /\ excuse'[id] = excuse[id]
  BY <1>b, <1>p, Saved
<1>a. api' \in Pending \cup {Idle}
  BY <1>b DEF DeleteOldName, Pending
<1>1. RegistryTypeOK'
  BY <1>0, <1>a, <1>s DEF RegistryTypeOK
<1>2. DownIsIdle'
  BY <1>b, <1>s DEF DownIsIdle
<1>3. SnapshotIsFile'
  BY <1>s
<1>4. ListedAreRegistered'
  BY <1>s
<1>5. OthersAreNot'
  <2> SUFFICES ASSUME NEW id \in IDs \ ListedIn(models') PROVE Unregistered(id)'
    BY DEF OthersAreNot, ListedIn
  <2> QED BY <1>b, <1>s DEF Unregistered
<1> QED BY <1>k, <1>s, <1>1, <1>2, <1>3, <1>4, <1>5 DEF RegistryInv

\* A provider is deleted.
LEMMA RegDeleteFromFile ==
  ASSUME RegistryInv, DeleteFromFile
  PROVE  RegistryInv' /\ UNCHANGED up /\ Stays("memory")
<1>0. /\ RegistryInv /\ RegistryTypeOK /\ DownIsIdle /\ SnapshotIsFile
      /\ ListedAreRegistered /\ OthersAreNot
  BY DEF RegistryInv
<1>k. UNCHANGED <<up, secretFile, registry, secrets, snapshot, phase, missed, changes>>
  BY DEF DeleteFromFile, Save, Notify
<1>b. up /\ api.op = "delete" /\ api \in Pending
  BY <1>0, ApiShape, Busy DEF DeleteFromFile, RegistryTypeOK
<1>p. api.p \in Providers /\ None \in Config \cup {None} /\ Save(api.p, None)
  BY <1>0, ApiShape DEF DeleteFromFile
<1>s. /\ models' \in [Providers -> Config \cup {None}] /\ models'[api.p] = None
      /\ events' \in [Watched -> Nat] /\ Stays("memory")
      /\ excuse' \in [IDs -> Excuses \cup {None}]
      /\ UNCHANGED <<up, secretFile, registry, secrets, snapshot, changes, phase, missed>>
      /\ SnapshotIsFile' /\ ListedAreRegistered'
      /\ \A id \in IDs \ ListedIn(models') :
           \/ registry[id] = None \/ excuse'[id] # None
           \/ api.op = "cut" /\ id = <<api.p, api.n>>
           \/ id \notin ListedIn(models) /\ Unregistered(id) /\ excuse'[id] = excuse[id]
  BY <1>b, <1>p, Saved
<1>a. api' \in Pending \cup {Idle}
  BY DEF DeleteFromFile
<1>1. RegistryTypeOK'
  BY <1>0, <1>a, <1>s DEF RegistryTypeOK
<1>2. DownIsIdle'
  BY <1>b, <1>s DEF DownIsIdle
<1>3. SnapshotIsFile'
  BY <1>s
<1>4. ListedAreRegistered'
  BY <1>s
<1>5. OthersAreNot'
  <2> SUFFICES ASSUME NEW id \in IDs \ ListedIn(models') PROVE Unregistered(id)'
    BY DEF OthersAreNot, ListedIn
  <2> QED BY <1>b, <1>s DEF Unregistered
<1> QED BY <1>k, <1>s, <1>1, <1>2, <1>3, <1>4, <1>5 DEF RegistryInv

\* A model is not listed any more, and will go out of the registry.
LEMMA RegSaveWithout ==
  ASSUME RegistryInv, SaveWithout
  PROVE  RegistryInv' /\ UNCHANGED up /\ Stays("memory")
<1>0. /\ RegistryInv /\ RegistryTypeOK /\ DownIsIdle /\ SnapshotIsFile
      /\ ListedAreRegistered /\ OthersAreNot
  BY DEF RegistryInv
<1>k. UNCHANGED <<up, secretFile, registry, secrets, snapshot, phase, missed, changes>>
  BY DEF SaveWithout, Save, Notify
<1>b. up /\ api.op = "cut" /\ api \in Pending
  BY <1>0, ApiShape, Busy DEF SaveWithout, RegistryTypeOK
<1>p. api.p \in Providers /\ api.cfg \in Config \cup {None} /\ Save(api.p, api.cfg)
  BY <1>0, ApiShape DEF SaveWithout
<1>s. /\ models' \in [Providers -> Config \cup {None}] /\ models'[api.p] = api.cfg
      /\ events' \in [Watched -> Nat] /\ Stays("memory")
      /\ excuse' \in [IDs -> Excuses \cup {None}]
      /\ UNCHANGED <<up, secretFile, registry, secrets, snapshot, changes, phase, missed>>
      /\ SnapshotIsFile' /\ ListedAreRegistered'
      /\ \A id \in IDs \ ListedIn(models') :
           \/ registry[id] = None \/ excuse'[id] # None
           \/ api.op = "cut" /\ id = <<api.p, api.n>>
           \/ id \notin ListedIn(models) /\ Unregistered(id) /\ excuse'[id] = excuse[id]
  BY <1>b, <1>p, Saved
<1>a. api' \in Pending /\ api'.op = "unlist" /\ api'.p = api.p /\ api'.n = api.n
  BY <1>b DEF SaveWithout, Pending
<1>1. RegistryTypeOK'
  BY <1>0, <1>a, <1>s DEF RegistryTypeOK
<1>2. DownIsIdle'
  BY <1>b, <1>s DEF DownIsIdle
<1>3. SnapshotIsFile'
  BY <1>s
<1>4. ListedAreRegistered'
  BY <1>s
<1>5. OthersAreNot'
  <2> SUFFICES ASSUME NEW id \in IDs \ ListedIn(models') PROVE Unregistered(id)'
    BY DEF OthersAreNot, ListedIn
  <2> QED BY <1>a, <1>b, <1>s DEF Unregistered
<1> QED BY <1>k, <1>s, <1>1, <1>2, <1>3, <1>4, <1>5 DEF RegistryInv

\* The model that was deleted goes out of the registry.
LEMMA RegUnlist ==
  ASSUME RegistryInv, Unlist
  PROVE  RegistryInv' /\ UNCHANGED up /\ Stays("memory")
<1>0. /\ RegistryInv /\ RegistryTypeOK /\ DownIsIdle /\ SnapshotIsFile
      /\ ListedAreRegistered /\ OthersAreNot
  BY DEF RegistryInv
<1>k. UNCHANGED <<up, models, secretFile, secrets, snapshot, events, phase, missed, changes>>
  BY DEF Unlist, fileVars, watchVars
<1>b. up /\ api.op = "unlist" /\ api.p \in Providers /\ api.n \in Names
  BY <1>0, ApiShape, Busy DEF Unlist
<1>a. api' = Idle /\ api'.op = "none"
  BY DEF Unlist, Idle
<1>r. /\ registry' \in [IDs -> Urls \cup {None}]
      /\ \A id \in IDs : registry'[id] = IF id = <<api.p, api.n>> THEN None ELSE registry[id]
  BY <1>0 DEF Unlist, Put, RegistryTypeOK
<1>x. /\ excuse' \in [IDs -> Excuses \cup {None}]
      /\ \A id \in IDs : id # <<api.p, api.n>> => excuse'[id] = excuse[id]
      /\ <<api.p, api.n>> \in ListedIn(models) => excuse'[<<api.p, api.n>>] = "raced"
  <2>1. Excuse({<<api.p, api.n>>}, IF <<api.p, api.n>> \in ListedIn(models) THEN "raced" ELSE None)
    BY DEF Unlist
  <2>2. /\ excuse' \in [IDs -> Excuses \cup {None}]
        /\ \A id \in IDs : excuse'[id] = IF id \in {<<api.p, api.n>>}
             THEN IF <<api.p, api.n>> \in ListedIn(models) THEN "raced" ELSE None ELSE excuse[id]
    BY <1>0, <2>1, Excused, Constants
  <2> QED BY <1>b, <2>2, Pairs
<1>n. Stays("memory")
  BY <1>k DEF Stays
<1>1. RegistryTypeOK'
  BY <1>0, <1>a, <1>k, <1>r, <1>x DEF RegistryTypeOK
<1>2. DownIsIdle'
  BY <1>b, <1>k DEF DownIsIdle
<1>3. SnapshotIsFile'
  BY <1>0, <1>k DEF SnapshotIsFile, Unseen
<1>4. ListedAreRegistered'
  <2> SUFFICES ASSUME NEW id \in ListedIn(models) PROVE Registered(id)'
    BY <1>k DEF ListedAreRegistered, ListedIn
  <2>1. id \in IDs /\ Registered(id)
    BY <1>0, <1>b DEF ListedAreRegistered, ListedIn
  <2>2. CASE id = <<api.p, api.n>>
    BY <1>x, <2>2, Constants DEF Registered
  <2>3. CASE id # <<api.p, api.n>>
    BY <1>b, <1>k, <1>r, <1>x, <2>1, <2>3 DEF Registered, Touched, Unseen
  <2> QED BY <2>2, <2>3
<1>5. OthersAreNot'
  <2> SUFFICES ASSUME NEW id \in IDs \ ListedIn(models) PROVE Unregistered(id)'
    BY <1>k DEF OthersAreNot, ListedIn
  <2>1. Unregistered(id)
    BY <1>0, <1>b DEF OthersAreNot
  <2> QED BY <1>b, <1>r, <1>x, <2>1 DEF Unregistered
<1> QED BY <1>k, <1>n, <1>1, <1>2, <1>3, <1>4, <1>5 DEF RegistryInv

\* A save that fails leaves the file as it was, or as much of it as it has written.
LEMMA RegSaveFails ==
  ASSUME RegistryInv, SaveFails
  PROVE  RegistryInv' /\ UNCHANGED up /\ Stays("memory")
<1>0. /\ RegistryInv /\ RegistryTypeOK /\ DownIsIdle /\ SnapshotIsFile
      /\ ListedAreRegistered /\ OthersAreNot
  BY DEF RegistryInv
<1>k. UNCHANGED <<up, secretFile, registry, secrets, snapshot, changes>>
  BY DEF SaveFails
<1>b. /\ up /\ api.op # "none" /\ api.op # "unlist" /\ api.p \in Providers
      /\ api.op \in {"none", "add", "save", "set", "move", "rename", "delete", "cut", "unlist"}
      /\ ToWrite \in Config \cup {None}
  BY <1>0, ApiShape, Busy DEF SaveFails, ToWrite
<1>a. api' = Idle /\ api'.op = "none"
  BY DEF SaveFails, Idle
<1>m. /\ models' \in [Providers -> Config \cup {None}] /\ events' \in [Watched -> Nat]
      /\ UNCHANGED <<phase, missed>> /\ Stays("memory")
      /\ UNCHANGED <<models, events>> \/ events'["models"] > 0
  <2>1. CASE UNCHANGED <<models, watchVars>>
    BY <1>0, <2>1 DEF RegistryTypeOK, watchVars, Stays
  <2>2. CASE /\ \E kept \in SUBSET Providers :
                  models' = Torn([models EXCEPT ![api.p] = ToWrite], kept)
             /\ Notify("models")
    <3>1. models' \in [Providers -> Config \cup {None}]
      BY <1>0, <1>b, <2>2 DEF RegistryTypeOK, Torn
    <3> QED BY <1>0, <1>b, <2>2, <3>1, Notified DEF Watched
  <2> QED BY <2>1, <2>2 DEF SaveFails
<1>x. /\ excuse' \in [IDs -> Excuses \cup {None}]
      /\ \A id \in IDs : excuse'[id] = "failed" \/ excuse'[id] = excuse[id]
      /\ \A id \in IDs : id \in Left => excuse'[id] = "failed"
      /\ \A id \in IDs : api.op \notin {"add", "cut", "move"} /\ id[1] = api.p => excuse'[id] = "failed"
  <2> DEFINE Own == IF api.op \in {"add", "cut", "move"} THEN {} ELSE {api.p} \X Names
  <2>1. Excuse(Left \cup Own, "failed")
    BY DEF SaveFails, IdsOf
  <2>2. /\ excuse' \in [IDs -> Excuses \cup {None}]
        /\ \A id \in IDs : excuse'[id] = IF id \in Left \cup Own THEN "failed" ELSE excuse[id]
    BY <1>0, <2>1, Excused, Constants
  <2>3. \A id \in IDs : id \in {api.p} \X Names <=> id[1] = api.p
    BY Pairs
  <2> QED BY <2>2, <2>3
<1>1. RegistryTypeOK'
  BY <1>0, <1>a, <1>k, <1>m, <1>x DEF RegistryTypeOK
<1>2. DownIsIdle'
  BY <1>b, <1>k DEF DownIsIdle
<1>3. SnapshotIsFile'
  BY <1>0, <1>k, <1>m DEF SnapshotIsFile, Unseen
<1>4. ListedAreRegistered'
  <2>1. CASE UNCHANGED <<models, events>>
    <3> SUFFICES ASSUME NEW id \in ListedIn(models) PROVE Registered(id)'
      BY <2>1 DEF ListedAreRegistered, ListedIn
    <3>1. id \in IDs /\ Registered(id)
      BY <1>0, <1>b DEF ListedAreRegistered, ListedIn
    <3>2. excuse'[id] # None \/ (excuse'[id] = excuse[id] /\ ~Touched(id[1]))
      BY <1>x, <3>1, Constants DEF Touched
    <3> QED BY <1>k, <1>m, <2>1, <3>1, <3>2 DEF Registered, Unseen
  <2>2. CASE events'["models"] > 0
    BY <2>2 DEF ListedAreRegistered, Registered, Unseen
  <2> QED BY <1>m, <2>1, <2>2
<1>5. OthersAreNot'
  <2> SUFFICES ASSUME NEW id \in IDs \ ListedIn(models') PROVE Unregistered(id)'
    BY DEF OthersAreNot, ListedIn
  <2>1. CASE id \in ListedIn(models)
    BY <1>k, <1>x, <2>1, Constants DEF Left, Unregistered
  <2>2. CASE id \notin ListedIn(models)
    <3>1. Unregistered(id)
      BY <1>0, <1>b, <2>2 DEF OthersAreNot
    <3> QED BY <1>b, <1>k, <1>x, <3>1, Constants DEF Unregistered
  <2> QED BY <2>1, <2>2
<1> QED BY <1>k, <1>m, <1>1, <1>2, <1>3, <1>4, <1>5 DEF RegistryInv

\* The watcher of a file is told of a change.
LEMMA RegNotice ==
  ASSUME RegistryInv, NEW f \in Watched, Notice(f)
  PROVE  RegistryInv' /\ UNCHANGED up /\ (f # "memory" => Stays("memory"))
<1>0. /\ RegistryInv /\ RegistryTypeOK /\ DownIsIdle /\ SnapshotIsFile
      /\ ListedAreRegistered /\ OthersAreNot
  BY DEF RegistryInv
<1>k. UNCHANGED <<up, models, secretFile, registry, secrets, api, snapshot, excuse, changes>>
  BY DEF Notice, fileVars, serviceVars
<1>e. events' \in [Watched -> Nat] /\ \A g \in Watched : g # f => events'[g] = events[g]
  <2>1. events[f] \in Nat /\ events[f] > 0 /\ events' = [events EXCEPT ![f] = events[f] - 1]
    BY <1>0 DEF Notice, RegistryTypeOK
  <2> QED BY <1>0, <2>1 DEF RegistryTypeOK
<1>f. /\ up /\ phase' \in [Watched -> {"idle", "armed", "running"}] /\ missed' \subseteq Watched
      /\ phase'[f] = "armed" \/ (phase'[f] = "running" /\ f \in missed')
      /\ phase'[f] = "running" <=> phase[f] = "running"
      /\ \A g \in Watched : g # f => phase'[g] = phase[g] /\ (g \in missed' <=> g \in missed)
  BY <1>0 DEF Notice, RegistryTypeOK
<1>1. RegistryTypeOK'
  BY <1>0, <1>e, <1>f, <1>k DEF RegistryTypeOK
<1>2. DownIsIdle'
  BY <1>f, <1>k DEF DownIsIdle
<1>3. SnapshotIsFile' /\ ListedAreRegistered'
  <2>1. CASE f = "models"
    BY <1>0, <1>f, <1>k, <2>1
       DEF SnapshotIsFile, ListedAreRegistered, Registered, Unseen, ListedIn
  <2>2. CASE f # "models"
    BY <1>0, <1>e, <1>f, <1>k, <2>2
       DEF SnapshotIsFile, ListedAreRegistered, Registered, Touched, Unseen, ListedIn, Watched
  <2> QED BY <2>1, <2>2
<1>4. OthersAreNot'
  BY <1>0, <1>k DEF OthersAreNot, Unregistered
<1>5. f # "memory" => Stays("memory")
  BY <1>e, <1>f DEF Stays, Watched
<1> QED BY <1>k, <1>1, <1>2, <1>3, <1>4, <1>5 DEF RegistryInv

\* The action on a file fails: its change is missed.
LEMMA RegReadFails ==
  ASSUME RegistryInv, NEW f \in Watched, ReadFails(f)
  PROVE  RegistryInv' /\ UNCHANGED up /\ Stays("memory")
<1>0. /\ RegistryInv /\ RegistryTypeOK /\ DownIsIdle /\ SnapshotIsFile
      /\ ListedAreRegistered /\ OthersAreNot
  BY DEF RegistryInv
<1>k. UNCHANGED <<up, models, secretFile, registry, secrets, api, snapshot, events, excuse,
                  changes>>
  BY DEF ReadFails, Fail, fileVars, serviceVars
<1>f. /\ up /\ phase[f] = "armed" /\ phase' \in [Watched -> {"idle", "armed", "running"}]
      /\ missed' \subseteq Watched /\ phase'[f] = "idle" /\ f \in missed' /\ Stays("memory")
      /\ f # "models" => Stays("models")
  BY <1>0, Watches DEF ReadFails, Fail, Watched
<1>1. RegistryTypeOK'
  BY <1>0, <1>f, <1>k DEF RegistryTypeOK
<1>2. DownIsIdle'
  BY <1>f, <1>k DEF DownIsIdle
<1>3. SnapshotIsFile' /\ ListedAreRegistered'
  <2>1. CASE f = "models"
    BY <1>0, <1>f, <1>k, <2>1 DEF SnapshotIsFile, ListedAreRegistered, Registered, Unseen
  <2>2. CASE f # "models"
    BY <1>0, <1>f, <1>k, <2>2
       DEF SnapshotIsFile, ListedAreRegistered, Registered, Touched, Unseen, ListedIn, Stays
  <2> QED BY <2>1, <2>2
<1>4. OthersAreNot'
  BY <1>0, <1>k DEF OthersAreNot, Unregistered
<1> QED BY <1>f, <1>k, <1>1, <1>2, <1>3, <1>4 DEF RegistryInv

-----------------------------------------------------------------------------
(***************************************************************************)
(* The steps of the services and of their file                             *)
(***************************************************************************)

\* A step that leaves the registry and the watcher of models.toml alone.
LEMMA RegistryIsLeftAlone ==
  ASSUME RegistryInv, RegistryTypeOK', up \/ UNCHANGED phase, Stays("models"),
         UNCHANGED <<up, models, registry, api, snapshot, excuse>>
  PROVE  RegistryInv'
<1>1. DownIsIdle'
  BY DEF RegistryInv, DownIsIdle
<1>2. SnapshotIsFile'
  BY DEF RegistryInv, SnapshotIsFile, Unseen, Stays
<1>3. ListedAreRegistered'
  BY DEF RegistryInv, ListedAreRegistered, Registered, Touched, Unseen, Stays
<1>4. OthersAreNot'
  BY DEF RegistryInv, OthersAreNot, Unregistered
<1> QED BY <1>1, <1>2, <1>3, <1>4 DEF RegistryInv

\* A step that leaves the services and the watcher of memory.toml alone.
LEMMA ServicesAreLeftAlone ==
  ASSUME ConfigInv, UNCHANGED up, UNCHANGED configVars, Stays("memory")
  PROVE  ConfigInv'
<1>0. UNCHANGED <<memory, fileMu, saving, reading, services, written, clash, torn>>
  BY DEF configVars
<1>1. ConfigTypeOK'
  BY <1>0 DEF ConfigInv, ConfigTypeOK
<1>2. SavesHoldFile'
  BY <1>0 DEF ConfigInv, SavesHoldFile
<1>3. ReadsFollow'
  BY <1>0 DEF ConfigInv, ReadsFollow, Unseen, Stays
<1>4. SectionsSurvive'
  BY <1>0 DEF ConfigInv, SectionsSurvive
<1>5. ConsolidatorFollowsFile'
  BY <1>0 DEF ConfigInv, ConsolidatorFollowsFile, Quiet, Stays
<1> QED BY <1>1, <1>2, <1>3, <1>4, <1>5 DEF ConfigInv

\* A change of memory.toml is not quiet: nothing is said of the consolidation.
LEMMA ChangeIsSeen ==
  ASSUME RegistryTypeOK, ConfigInv, Notify("memory"), UNCHANGED <<up, reading>>
  PROVE  ReadsFollow' /\ ConsolidatorFollowsFile'
<1>1. UNCHANGED <<phase, missed>> /\ (up => events'["memory"] > 0) /\ events' \in [Watched -> Nat]
  BY Notified DEF Watched
<1>2. ReadsFollow'
  <2>1. CASE up
    BY <1>1, <2>1 DEF ConfigInv, ReadsFollow, Unseen
  <2>2. CASE ~up
    BY <2>2, Constants DEF ConfigInv, ReadsFollow, NotReading
  <2> QED BY <2>1, <2>2
<1>3. ConsolidatorFollowsFile'
  <2>1. up' => events'["memory"] # 0
    BY <1>1
  <2> QED BY <2>1 DEF ConsolidatorFollowsFile, Quiet
<1> QED BY <1>2, <1>3

\* An edit by hand clashes with the save that holds the file.
LEMMA CfgEditMemory ==
  ASSUME RegistryInv, ConfigInv, EditMemory
  PROVE  RegistryInv' /\ ConfigInv'
<1>0. RegistryTypeOK /\ ConfigTypeOK /\ SavesHoldFile /\ SectionsSurvive
  BY DEF RegistryInv, ConfigInv
<1>k. /\ UNCHANGED <<up, models, secretFile, registry, secrets, api, snapshot, excuse>>
      /\ UNCHANGED <<fileMu, saving, reading, services>>
  BY DEF EditMemory, othersUnchanged, fileVars, serviceVars
<1>n. /\ events' \in [Watched -> Nat] /\ UNCHANGED <<phase, missed>> /\ Stays("models")
      /\ changes' \in 0..MaxChanges
  BY <1>0, Notified, Counted DEF EditMemory, Watched
<1>1. RegistryInv'
  <2>1. RegistryTypeOK'
    BY <1>0, <1>k, <1>n DEF RegistryTypeOK
  <2> QED BY <1>k, <1>n, <2>1, RegistryIsLeftAlone
<1>2. PICK s \in Services, section \in Section \cup {None} :
        /\ memory' = [memory EXCEPT ![s] = section]
        /\ written' = [written EXCEPT ![s] = section]
        /\ torn' = torn \ {s}
  BY DEF EditMemory
<1>3. /\ clash' \in BOOLEAN
      /\ ~clash' => ~clash /\ fileMu = None
  BY <1>0 DEF EditMemory, ConfigTypeOK
<1>4. ConfigTypeOK'
  BY <1>0, <1>2, <1>3, <1>k DEF ConfigTypeOK
<1>5. SavesHoldFile'
  BY <1>0, <1>3, <1>k, Constants DEF SavesHoldFile, Services
<1>6. SectionsSurvive'
  <2>1. \A t \in Services : t # s =>
          memory'[t] = memory[t] /\ written'[t] = written[t] /\ (t \in torn' <=> t \in torn)
    BY <1>0, <1>2 DEF ConfigTypeOK
  <2>2. memory'[s] = section /\ written'[s] = section
    BY <1>0, <1>2 DEF ConfigTypeOK
  <2> QED BY <1>0, <1>3, <2>1, <2>2 DEF SectionsSurvive
<1>7. ReadsFollow' /\ ConsolidatorFollowsFile'
  BY <1>0, <1>k, ChangeIsSeen DEF EditMemory
<1> QED BY <1>1, <1>4, <1>5, <1>6, <1>7 DEF ConfigInv

\* A save begins without the file.
LEMMA CfgValidate ==
  ASSUME RegistryInv, ConfigInv, NEW s \in Services, Validate(s)
  PROVE  RegistryInv' /\ ConfigInv'
<1>0. /\ RegistryTypeOK /\ ConfigTypeOK /\ SavesHoldFile /\ ReadsFollow
      /\ SectionsSurvive /\ ConsolidatorFollowsFile
  BY DEF RegistryInv, ConfigInv
<1>k. /\ UNCHANGED <<up, models, secretFile, registry, secrets, api, snapshot, excuse>>
      /\ UNCHANGED <<events, phase, missed, memory, fileMu, reading, services, written, clash, torn>>
  BY DEF Validate, othersUnchanged, fileVars, serviceVars, watchVars
<1>n. changes' \in 0..MaxChanges /\ Stays("models") /\ saving[s] = None
  BY <1>0, <1>k, Counted DEF Validate, Stays
<1>1. RegistryInv'
  <2>1. RegistryTypeOK'
    BY <1>0, <1>k, <1>n DEF RegistryTypeOK
  <2> QED BY <1>k, <1>n, <2>1, RegistryIsLeftAlone
<1>2. /\ saving' \in [Services -> Saving \cup {None}] /\ saving'[s].dto = None
      /\ \A t \in Services : t # s => saving'[t] = saving[t]
  <2>1. PICK section \in Section : saving' = [saving EXCEPT ![s] = [section |-> section, dto |-> None]]
    BY DEF Validate
  <2>2. [section |-> section, dto |-> None] \in Saving
    BY DEF Saving
  <2> QED BY <1>0, <2>1, <2>2 DEF ConfigTypeOK
<1>3. ConfigTypeOK'
  BY <1>0, <1>2, <1>k DEF ConfigTypeOK
<1>4. SavesHoldFile'
  BY <1>0, <1>2, <1>k, <1>n DEF SavesHoldFile
<1>5. ReadsFollow' /\ SectionsSurvive'
  BY <1>0, <1>k DEF ReadsFollow, Unseen, SectionsSurvive
<1>6. ConsolidatorFollowsFile'
  BY <1>0, <1>k DEF ConsolidatorFollowsFile, Quiet
<1> QED BY <1>1, <1>3, <1>4, <1>5, <1>6 DEF ConfigInv

\* A save has the file, and nobody else has.
LEMMA CfgReadForSave ==
  ASSUME RegistryInv, ConfigInv, NEW s \in Services, ReadForSave(s)
  PROVE  RegistryInv' /\ ConfigInv'
<1>0. /\ RegistryTypeOK /\ ConfigTypeOK /\ SavesHoldFile /\ ReadsFollow
      /\ SectionsSurvive /\ ConsolidatorFollowsFile
  BY DEF RegistryInv, ConfigInv
<1>k. /\ UNCHANGED <<up, models, secretFile, registry, secrets, api, snapshot, excuse, changes>>
      /\ UNCHANGED <<events, phase, missed, memory, reading, services, written, clash, torn>>
  BY DEF ReadForSave, registryVars, fileVars, serviceVars, watchVars
<1>1. RegistryInv'
  <2>1. RegistryTypeOK' /\ Stays("models")
    BY <1>0, <1>k DEF RegistryTypeOK, Stays
  <2> QED BY <1>k, <2>1, RegistryIsLeftAlone
<1>m. memory \in [Services -> Section \cup {None}] /\ memory # None
  BY <1>0, Constants DEF ConfigTypeOK
<1>2. /\ saving' \in [Services -> Saving \cup {None}]
      /\ saving'[s] \in Saving /\ saving'[s].dto = memory
      /\ \A t \in Services : t # s => saving'[t] = saving[t]
  <2>1. saving[s] \in Saving /\ saving' = [saving EXCEPT ![s] = [saving[s] EXCEPT !.dto = memory]]
    BY <1>0 DEF ReadForSave, ConfigTypeOK
  <2>2. /\ [saving[s] EXCEPT !.dto = memory] \in Saving
        /\ [saving[s] EXCEPT !.dto = memory].dto = memory
    BY <1>m, <2>1 DEF Saving
  <2> QED BY <1>0, <2>1, <2>2 DEF ConfigTypeOK
<1>3. fileMu' = s /\ fileMu = None
  BY DEF ReadForSave
<1>4. ConfigTypeOK'
  BY <1>0, <1>2, <1>3, <1>k DEF ConfigTypeOK
<1>5. SavesHoldFile'
  BY <1>0, <1>2, <1>3, <1>k, <1>m, Constants DEF SavesHoldFile, Services
<1>6. ReadsFollow' /\ SectionsSurvive'
  BY <1>0, <1>k DEF ReadsFollow, Unseen, SectionsSurvive
<1>7. ConsolidatorFollowsFile'
  BY <1>0, <1>k DEF ConsolidatorFollowsFile, Quiet
<1> QED BY <1>1, <1>4, <1>5, <1>6, <1>7 DEF ConfigInv

\* A save gives the file back.
LEMMA Releases ==
  ASSUME ConfigTypeOK, SavesHoldFile, NEW s \in Services, saving[s] # None, saving[s].dto # None,
         saving' = [saving EXCEPT ![s] = None], fileMu' = IF fileMu = s THEN None ELSE fileMu
  PROVE  /\ saving[s] \in Saving /\ saving[s].dto \in [Services -> Section \cup {None}]
         /\ ~clash => saving[s].dto = memory
         /\ saving' \in [Services -> Saving \cup {None}] /\ fileMu' = None
         /\ \A t \in Services : ~(saving'[t] # None /\ saving'[t].dto # None)
<1>1. saving[s] \in Saving /\ saving[s].dto \in [Services -> Section \cup {None}]
  BY DEF ConfigTypeOK, Saving
<1>2. fileMu = s /\ fileMu' = None /\ (~clash => saving[s].dto = memory)
  BY DEF SavesHoldFile
<1>3. /\ saving' \in [Services -> Saving \cup {None}] /\ saving'[s] = None
      /\ \A t \in Services : t # s => saving'[t] = saving[t]
  BY DEF ConfigTypeOK
<1>4. \A t \in Services : ~(saving'[t] # None /\ saving'[t].dto # None)
  BY <1>2, <1>3 DEF SavesHoldFile
<1> QED BY <1>1, <1>2, <1>3, <1>4

\* A section is written over what the file was when it was read: what it is.
LEMMA CfgWriteSection ==
  ASSUME RegistryInv, ConfigInv, NEW s \in Services, WriteSection(s)
  PROVE  RegistryInv' /\ ConfigInv'
<1>0. RegistryTypeOK /\ ConfigTypeOK /\ SavesHoldFile /\ SectionsSurvive
  BY DEF RegistryInv, ConfigInv
<1>k. /\ UNCHANGED <<up, models, secretFile, registry, secrets, api, snapshot, excuse, changes>>
      /\ UNCHANGED <<reading, services, clash>>
  BY DEF WriteSection, othersUnchanged, fileVars, serviceVars
<1>n. events' \in [Watched -> Nat] /\ UNCHANGED <<phase, missed>> /\ Stays("models")
  BY <1>0, Notified DEF WriteSection, Watched
<1>1. RegistryInv'
  <2>1. RegistryTypeOK'
    BY <1>0, <1>k, <1>n DEF RegistryTypeOK
  <2> QED BY <1>k, <1>n, <2>1, RegistryIsLeftAlone
<1>2. /\ saving[s] \in Saving /\ saving[s].dto \in [Services -> Section \cup {None}]
      /\ ~clash => saving[s].dto = memory
      /\ saving' \in [Services -> Saving \cup {None}] /\ fileMu' = None
      /\ \A t \in Services : ~(saving'[t] # None /\ saving'[t].dto # None)
  BY <1>0, Releases DEF WriteSection
<1>3. /\ memory' = [saving[s].dto EXCEPT ![s] = saving[s].section]
      /\ written' = [written EXCEPT ![s] = saving[s].section]
      /\ torn' = torn \ {s} /\ saving[s].section \in Section
  BY <1>2 DEF WriteSection, Saving
<1>4. ConfigTypeOK'
  BY <1>0, <1>2, <1>3, <1>k DEF ConfigTypeOK
<1>5. SavesHoldFile'
  BY <1>2, Constants DEF SavesHoldFile, Services
<1>6. SectionsSurvive'
  <2>1. \A t \in Services : t # s =>
          memory'[t] = saving[s].dto[t] /\ written'[t] = written[t] /\ (t \in torn' <=> t \in torn)
    BY <1>0, <1>2, <1>3 DEF ConfigTypeOK
  <2>2. memory'[s] = written'[s]
    BY <1>0, <1>2, <1>3 DEF ConfigTypeOK
  <2> QED BY <1>0, <1>2, <1>k, <2>1, <2>2 DEF SectionsSurvive
<1>7. ReadsFollow' /\ ConsolidatorFollowsFile'
  BY <1>0, <1>k, ChangeIsSeen DEF WriteSection
<1> QED BY <1>1, <1>4, <1>5, <1>6, <1>7 DEF ConfigInv

\* A save that fails leaves the file as it was, or without the sections that are torn.
LEMMA CfgSaveSectionFails ==
  ASSUME RegistryInv, ConfigInv, NEW s \in Services, SaveSectionFails(s)
  PROVE  RegistryInv' /\ ConfigInv'
<1>0. /\ RegistryTypeOK /\ ConfigTypeOK /\ SavesHoldFile /\ ReadsFollow
      /\ SectionsSurvive /\ ConsolidatorFollowsFile
  BY DEF RegistryInv, ConfigInv
<1>k. /\ UNCHANGED <<up, models, secretFile, registry, secrets, api, snapshot, excuse, changes>>
      /\ UNCHANGED <<reading, services, clash>>
  BY DEF SaveSectionFails, othersUnchanged, fileVars, serviceVars
<1>n. events' \in [Watched -> Nat] /\ UNCHANGED <<phase, missed>> /\ Stays("models")
  <2>1. CASE UNCHANGED watchVars
    BY <1>0, <2>1 DEF watchVars, RegistryTypeOK, Stays
  <2>2. CASE Notify("memory")
    BY <1>0, <2>2, Notified DEF Watched
  <2> QED BY <2>1, <2>2 DEF SaveSectionFails
<1>1. RegistryInv'
  <2>1. RegistryTypeOK'
    BY <1>0, <1>k, <1>n DEF RegistryTypeOK
  <2> QED BY <1>k, <1>n, <2>1, RegistryIsLeftAlone
<1>2. /\ saving[s] \in Saving /\ saving[s].dto \in [Services -> Section \cup {None}]
      /\ ~clash => saving[s].dto = memory
      /\ saving' \in [Services -> Saving \cup {None}] /\ fileMu' = None
      /\ \A t \in Services : ~(saving'[t] # None /\ saving'[t].dto # None)
  BY <1>0, Releases DEF SaveSectionFails
<1>5. SavesHoldFile'
  BY <1>2, Constants DEF SavesHoldFile, Services
<1>6. CASE UNCHANGED <<memory, written, torn, watchVars>>
  <2>1. UNCHANGED <<events, phase, missed, memory, written, torn>>
    BY <1>6 DEF watchVars
  <2>2. ConfigTypeOK'
    BY <1>0, <1>2, <1>k, <2>1 DEF ConfigTypeOK
  <2>3. ReadsFollow' /\ SectionsSurvive'
    BY <1>0, <1>k, <2>1 DEF ReadsFollow, Unseen, SectionsSurvive
  <2>4. ConsolidatorFollowsFile'
    BY <1>0, <1>k, <2>1 DEF ConsolidatorFollowsFile, Quiet
  <2> QED BY <1>1, <1>5, <2>2, <2>3, <2>4 DEF ConfigInv
<1>7. CASE \E kept \in SUBSET Services :
             /\ memory' = Torn([saving[s].dto EXCEPT ![s] = saving[s].section], kept)
             /\ written' = [written EXCEPT ![s] = IF s \in kept THEN saving[s].section ELSE @]
             /\ torn' = (torn \ (kept \cap {s})) \cup (Services \ kept)
             /\ Notify("memory")
  <2>1. PICK kept \in SUBSET Services :
             /\ memory' = Torn([saving[s].dto EXCEPT ![s] = saving[s].section], kept)
             /\ written' = [written EXCEPT ![s] = IF s \in kept THEN saving[s].section ELSE @]
             /\ torn' = (torn \ (kept \cap {s})) \cup (Services \ kept)
             /\ Notify("memory")
    BY <1>7
  <2>2. saving[s].section \in Section
    BY <1>2 DEF Saving
  <2>3. /\ memory' \in [Services -> Section \cup {None}]
        /\ written' \in [Services -> Section \cup {None}]
        /\ torn' \subseteq Services
        /\ \A t \in Services : t \notin kept => memory'[t] = None /\ t \in torn'
        /\ s \in kept => memory'[s] = saving[s].section /\ written'[s] = saving[s].section
        /\ \A t \in Services : t \in kept /\ t # s =>
             /\ memory'[t] = saving[s].dto[t] /\ written'[t] = written[t]
             /\ t \in torn' <=> t \in torn
    BY <1>0, <1>2, <2>1, <2>2 DEF Torn, ConfigTypeOK
  <2>4. ConfigTypeOK'
    BY <1>0, <1>2, <1>k, <2>3 DEF ConfigTypeOK
  <2>5. SectionsSurvive'
    BY <1>0, <1>2, <1>k, <2>3 DEF SectionsSurvive
  <2>6. ReadsFollow' /\ ConsolidatorFollowsFile'
    BY <1>0, <1>k, <2>1, ChangeIsSeen
  <2> QED BY <1>1, <1>5, <2>4, <2>5, <2>6 DEF ConfigInv
<1> QED BY <1>6, <1>7 DEF SaveSectionFails

\* What the steps of the watcher's action on memory.toml have in common.
LEMMA ActionSteps ==
  ASSUME RegistryInv, phase' \in [Watched -> {"idle", "armed", "running"}], missed' \subseteq Watched,
         Stays("models"), up,
         UNCHANGED <<up, models, secretFile, registry, secrets, api, snapshot, events, excuse, changes>>
  PROVE  RegistryInv'
<1>1. RegistryTypeOK'
  BY DEF RegistryInv, RegistryTypeOK
<1> QED BY <1>1, RegistryIsLeftAlone

\* The reload of the services begins with the journal.
LEMMA CfgReadActivity ==
  ASSUME RegistryInv, ConfigInv, ReadActivity
  PROVE  RegistryInv' /\ ConfigInv'
<1>0. RegistryTypeOK /\ ConfigTypeOK /\ SavesHoldFile /\ SectionsSurvive
  BY DEF RegistryInv, ConfigInv
<1>k. /\ UNCHANGED <<up, models, secretFile, registry, secrets, api, snapshot, events, excuse, changes>>
      /\ UNCHANGED <<memory, fileMu, saving, services, written, clash, torn>>
  BY DEF ReadActivity, Begin, othersUnchanged, fileVars, serviceVars
<1>n. /\ up /\ phase' \in [Watched -> {"idle", "armed", "running"}] /\ missed' \subseteq Watched
      /\ phase'["memory"] = "running" /\ Stays("models")
  BY <1>0, Watches DEF ReadActivity, Begin, Watched
<1>1. RegistryInv'
  BY <1>k, <1>n, ActionSteps
<1>2. reading' = [of |-> "activity", section |-> memory["activity"]]
  BY DEF ReadActivity
<1>3. ConfigTypeOK'
  BY <1>0, <1>2, <1>k DEF ConfigTypeOK, Services
<1>4. SavesHoldFile' /\ SectionsSurvive'
  BY <1>0, <1>k DEF SavesHoldFile, SectionsSurvive
<1>5. ReadsFollow'
  BY <1>2, <1>k, <1>n, Constants DEF ReadsFollow
<1>6. ConsolidatorFollowsFile'
  BY <1>n DEF ConsolidatorFollowsFile, Quiet
<1> QED BY <1>1, <1>3, <1>4, <1>5, <1>6 DEF ConfigInv

\* The file cannot be read: its change is missed.
LEMMA CfgReadActivityFails ==
  ASSUME RegistryInv, ConfigInv, ReadActivityFails
  PROVE  RegistryInv' /\ ConfigInv'
<1>0. RegistryTypeOK /\ ConfigTypeOK /\ SavesHoldFile /\ ReadsFollow /\ SectionsSurvive
  BY DEF RegistryInv, ConfigInv
<1>k. /\ UNCHANGED <<up, models, secretFile, registry, secrets, api, snapshot, events, excuse, changes>>
      /\ UNCHANGED <<memory, fileMu, saving, reading, services, written, clash, torn>>
  BY DEF ReadActivityFails, Fail, othersUnchanged, fileVars, serviceVars, configVars
<1>n. /\ up /\ phase' \in [Watched -> {"idle", "armed", "running"}] /\ missed' \subseteq Watched
      /\ phase["memory"] = "armed" /\ phase'["memory"] = "idle" /\ "memory" \in missed'
      /\ Stays("models")
  BY <1>0, Watches DEF ReadActivityFails, Fail, Watched
<1>1. RegistryInv'
  BY <1>k, <1>n, ActionSteps
<1>2. ConfigTypeOK' /\ SavesHoldFile' /\ SectionsSurvive'
  BY <1>0, <1>k DEF ConfigTypeOK, SavesHoldFile, SectionsSurvive
<1>3. ReadsFollow'
  BY <1>0, <1>k, <1>n DEF ReadsFollow, Unseen
<1>4. ConsolidatorFollowsFile'
  BY <1>n DEF ConsolidatorFollowsFile
<1> QED BY <1>1, <1>2, <1>3, <1>4 DEF ConfigInv

\* A model that is got is one of the registry that the reference fits.
LEMMA Gets ==
  ASSUME RegistryTypeOK, NEW ref, NEW model \in Get(ref)
  PROVE  /\ model \in Model /\ model # None
         /\ ref # None => ref \in {model.id, model.id[2]}
<1>1. PICK id \in Fits(ref) : model = [id |-> id, url |-> registry[id]]
  BY DEF Get
<1>2. id \in IDs /\ registry[id] \in Urls /\ (ref = None \/ id = ref \/ id[2] = ref)
  BY DEF Fits, RegistryTypeOK
<1>3. model \in Model /\ model.id = id
  BY <1>1, <1>2 DEF Model
<1> QED BY <1>2, <1>3, Constants

\* A service is configured.
LEMMA Configures ==
  ASSUME RegistryTypeOK, ConfigTypeOK, NEW s \in Services, reading.section # None,
         NEW ref, NEW model \in Get(ref), Configure(s, model)
  PROVE  /\ services' \in [Services -> [ref : Refs \cup {None}, model : Model \cup {None}]]
         /\ services'[s] = [ref |-> reading.section, model |-> model]
         /\ \A t \in Services : t # s => services'[t] = services[t]
<1>1. reading.section \in Refs /\ model \in Model
  BY Gets DEF ConfigTypeOK, Section
<1>2. [ref |-> reading.section, model |-> model] \in [ref : Refs \cup {None}, model : Model \cup {None}]
  BY <1>1
<1> QED BY <1>2 DEF ConfigTypeOK, Configure

\* The journal is reloaded: the consolidation is as it was, and the reload goes on
\* or has failed.
LEMMA CfgApplyActivity ==
  ASSUME RegistryInv, ConfigInv, ApplyActivity
  PROVE  RegistryInv' /\ ConfigInv'
<1>0. RegistryTypeOK /\ ConfigTypeOK /\ SavesHoldFile /\ ReadsFollow /\ SectionsSurvive
  BY DEF RegistryInv, ConfigInv
<1>k. /\ UNCHANGED <<up, models, secretFile, registry, secrets, api, snapshot, events, excuse, changes>>
      /\ UNCHANGED <<memory, fileMu, saving, written, clash, torn>>
  BY DEF ApplyActivity, ActionFails, othersUnchanged, fileVars, serviceVars, watchVars
<1>u. up /\ phase["memory"] = "running"
  BY <1>0, Constants DEF ApplyActivity, ReadsFollow, NotReading
<1>s. services' \in [Services -> [ref : Refs \cup {None}, model : Model \cup {None}]]
  <2>1. CASE UNCHANGED services
    BY <1>0, <2>1 DEF ConfigTypeOK
  <2>2. CASE reading.section # None /\
               \E model \in Get(services["activity"].ref) : Configure("activity", model)
    BY <1>0, <2>2, Configures DEF Services
  <2> QED BY <2>1, <2>2 DEF ApplyActivity, ActionFails
<1>n. /\ phase' \in [Watched -> {"idle", "armed", "running"}] /\ missed' \subseteq Watched
      /\ Stays("models")
      /\ \/ phase'["memory"] = "running" /\ reading' = [of |-> "between", section |-> None]
         \/ phase'["memory"] = "idle" /\ reading' = NotReading /\ "memory" \in missed'
  <2>1. CASE reading' = [of |-> "between", section |-> None] /\ UNCHANGED watchVars
    BY <1>0, <1>u, <2>1 DEF watchVars, Stays, RegistryTypeOK
  <2>2. CASE ActionFails
    BY <1>0, <2>2 DEF ActionFails, Stays, RegistryTypeOK, Watched
  <2> QED BY <2>1, <2>2 DEF ApplyActivity
<1>1. RegistryInv'
  BY <1>k, <1>n, <1>u, ActionSteps
<1>2. ConfigTypeOK'
  <2>1. reading' \in [of : Services \cup {"between", None}, section : Section \cup {None}]
    BY <1>n DEF NotReading
  <2> QED BY <1>0, <1>k, <1>s, <2>1 DEF ConfigTypeOK
<1>3. SavesHoldFile' /\ SectionsSurvive'
  BY <1>0, <1>k DEF SavesHoldFile, SectionsSurvive
<1>4. ReadsFollow'
  BY <1>k, <1>n, <1>u, Constants DEF ReadsFollow, NotReading
<1>5. ConsolidatorFollowsFile'
  BY <1>n DEF ConsolidatorFollowsFile, Quiet
<1> QED BY <1>1, <1>2, <1>3, <1>4, <1>5 DEF ConfigInv

\* The consolidation reads its section.
LEMMA CfgReadConsolidation ==
  ASSUME RegistryInv, ConfigInv, ReadConsolidation
  PROVE  RegistryInv' /\ ConfigInv'
<1>0. RegistryTypeOK /\ ConfigTypeOK /\ SavesHoldFile /\ ReadsFollow /\ SectionsSurvive
  BY DEF RegistryInv, ConfigInv
<1>k. /\ UNCHANGED <<up, models, secretFile, registry, secrets, api, snapshot, excuse, changes>>
      /\ UNCHANGED <<events, phase, missed, memory, fileMu, saving, services, written, clash, torn>>
  BY DEF ReadConsolidation, registryVars, fileVars, serviceVars, watchVars
<1>u. up /\ phase["memory"] = "running"
  BY <1>0, Constants DEF ReadConsolidation, ReadsFollow, NotReading
<1>1. RegistryInv'
  <2>1. RegistryTypeOK' /\ Stays("models")
    BY <1>0, <1>k DEF RegistryTypeOK, Stays
  <2> QED BY <1>k, <2>1, RegistryIsLeftAlone
<1>2. reading' = [of |-> "consolidation", section |-> memory["consolidation"]]
  BY DEF ReadConsolidation
<1>3. ConfigTypeOK'
  BY <1>0, <1>2, <1>k DEF ConfigTypeOK, Services
<1>4. SavesHoldFile' /\ SectionsSurvive'
  BY <1>0, <1>k DEF SavesHoldFile, SectionsSurvive
<1>5. ReadsFollow'
  BY <1>2, <1>k, <1>u, Constants DEF ReadsFollow
<1>6. ConsolidatorFollowsFile'
  BY <1>k, <1>u DEF ConsolidatorFollowsFile, Quiet
<1> QED BY <1>1, <1>3, <1>4, <1>5, <1>6 DEF ConfigInv

\* The consolidation is configured by its section, or there is none, or its change
\* is missed.
LEMMA CfgApplyConsolidation ==
  ASSUME RegistryInv, ConfigInv, ApplyConsolidation
  PROVE  RegistryInv' /\ ConfigInv'
<1>0. RegistryTypeOK /\ ConfigTypeOK /\ SavesHoldFile /\ ReadsFollow /\ SectionsSurvive
  BY DEF RegistryInv, ConfigInv
<1>k. /\ UNCHANGED <<up, models, secretFile, registry, secrets, api, snapshot, events, excuse, changes>>
      /\ UNCHANGED <<memory, fileMu, saving, written, clash, torn>>
  BY DEF ApplyConsolidation, ActionFails, Finish, othersUnchanged, fileVars, serviceVars
<1>u. /\ up /\ phase["memory"] = "running" /\ reading.of = "consolidation"
      /\ reading.section = memory["consolidation"] \/ Unseen("memory")
  BY <1>0, Constants DEF ApplyConsolidation, ReadsFollow, NotReading
<1>n. /\ phase' \in [Watched -> {"idle", "armed", "running"}] /\ missed' \subseteq Watched
      /\ phase'["memory"] = "idle" /\ Stays("models") /\ reading' = NotReading
  <2>1. CASE Finish("memory") /\ reading' = NotReading
    BY <1>0, <2>1, Watches DEF Watched
  <2>2. CASE ActionFails
    BY <1>0, <2>2 DEF ActionFails, Stays, RegistryTypeOK, Watched
  <2> QED BY <2>1, <2>2 DEF ApplyConsolidation
<1>s. /\ services' \in [Services -> [ref : Refs \cup {None}, model : Model \cup {None}]]
      /\ \/ "memory" \in missed'
         \/ reading.section = None /\ UNCHANGED missed
         \/ /\ UNCHANGED missed /\ services'["consolidation"].ref = reading.section
            /\ services'["consolidation"].model # None
            /\ reading.section \in {services'["consolidation"].model.id,
                                    services'["consolidation"].model.id[2]}
  <2>1. CASE reading.section = None /\ Finish("memory") /\ UNCHANGED services
    BY <1>0, <2>1 DEF ConfigTypeOK, Finish
  <2>2. CASE /\ reading.section # None /\ Finish("memory")
             /\ \E model \in Get(reading.section) : Configure("consolidation", model)
    <3>1. PICK model \in Get(reading.section) : Configure("consolidation", model)
      BY <2>2
    <3>2. model # None /\ reading.section \in {model.id, model.id[2]}
      BY <1>0, <2>2, Gets
    <3>3. /\ services' \in [Services -> [ref : Refs \cup {None}, model : Model \cup {None}]]
          /\ services'["consolidation"] = [ref |-> reading.section, model |-> model]
      BY <1>0, <2>2, <3>1, Configures DEF Services
    <3> QED BY <2>2, <3>2, <3>3 DEF Finish
  <2>3. CASE ActionFails
    BY <1>0, <2>3 DEF ActionFails, ConfigTypeOK
  <2> QED BY <2>1, <2>2, <2>3 DEF ApplyConsolidation
<1>1. RegistryInv'
  BY <1>k, <1>n, <1>u, ActionSteps
<1>2. ConfigTypeOK'
  <2>1. reading' \in [of : Services \cup {"between", None}, section : Section \cup {None}]
    BY <1>n DEF NotReading
  <2> QED BY <1>0, <1>k, <1>s, <2>1 DEF ConfigTypeOK
<1>3. SavesHoldFile' /\ SectionsSurvive'
  BY <1>0, <1>k DEF SavesHoldFile, SectionsSurvive
<1>4. ReadsFollow'
  BY <1>n, Constants DEF ReadsFollow, NotReading
<1>5. ConsolidatorFollowsFile'
  <2> SUFFICES ASSUME events["memory"] = 0, "memory" \notin missed', memory["consolidation"] # None
               PROVE  /\ services'["consolidation"].ref = memory["consolidation"]
                      /\ services'["consolidation"].model # None
                      /\ memory["consolidation"] \in {services'["consolidation"].model.id,
                                                      services'["consolidation"].model.id[2]}
    BY <1>k DEF ConsolidatorFollowsFile, Quiet
  <2>1. UNCHANGED missed
    BY <1>s
  <2>2. reading.section = memory["consolidation"]
    BY <1>u, <2>1 DEF Unseen
  <2> QED BY <1>s, <2>2
<1> QED BY <1>1, <1>2, <1>3, <1>4, <1>5 DEF ConfigInv

-----------------------------------------------------------------------------
(***************************************************************************)
(* The process                                                             *)
(***************************************************************************)

\* When the process ends, nothing is under way any more.
LEMMA InvStopped ==
  ASSUME RegistryInv, ConfigInv, Stopped
  PROVE  RegistryInv' /\ ConfigInv'
<1>0. RegistryTypeOK /\ ConfigTypeOK /\ SectionsSurvive
  BY DEF RegistryInv, ConfigInv
<1>1. /\ up' = FALSE /\ api' = Idle /\ snapshot' = NothingRead
      /\ registry' = [id \in IDs |-> None] /\ secrets' = {}
      /\ events' = [f \in Watched |-> 0] /\ phase' = [f \in Watched |-> "idle"] /\ missed' = {}
      /\ excuse' = [id \in IDs |-> None]
      /\ UNCHANGED <<models, secretFile, changes>>
  BY DEF Stopped, LoadPanics, fileVars
<1>2. RegistryTypeOK'
  BY <1>0, <1>1 DEF RegistryTypeOK, NothingRead
<1>3. DownIsIdle' /\ SnapshotIsFile' /\ ListedAreRegistered' /\ OthersAreNot'
  BY <1>1 DEF DownIsIdle, SnapshotIsFile, NothingRead, ListedAreRegistered, OthersAreNot
<1>4. /\ fileMu' = None /\ saving' = [s \in Services |-> None] /\ reading' = NotReading
      /\ services' = Off /\ UNCHANGED <<memory, written, clash, torn>>
  BY DEF Stopped
<1>5. ConfigTypeOK'
  BY <1>0, <1>4 DEF ConfigTypeOK, NotReading, Off
<1>6. SavesHoldFile'
  BY <1>4, Constants DEF SavesHoldFile, Services
<1>7. ReadsFollow' /\ SectionsSurvive' /\ ConsolidatorFollowsFile'
  BY <1>0, <1>1, <1>4, Constants
     DEF ReadsFollow, NotReading, SectionsSurvive, ConsolidatorFollowsFile
<1> QED BY <1>2, <1>3, <1>5, <1>6, <1>7 DEF RegistryInv, ConfigInv

\* What a constructor has made of a section: nothing, or what the section says.
LEMMA Constructed ==
  ASSUME RegistryTypeOK, ConfigTypeOK, NEW s \in Services, NEW ref, NEW a \in Configured(s, ref)
  PROVE  /\ a \in [ref : Refs \cup {None}, model : Model \cup {None}]
         /\ a = Off[s] \/ /\ a.ref = memory[s] /\ a.model # None
                          /\ ref # None => ref \in {a.model.id, a.model.id[2]}
<1>1. CASE a = Off[s]
  BY <1>1 DEF Off
<1>2. CASE a # Off[s]
  <2>1. PICK id \in IDs : /\ memory[s] # None /\ Loaded[id] # None
                          /\ ref = None \/ id = ref \/ id[2] = ref
                          /\ a = [ref |-> memory[s], model |-> [id |-> id, url |-> Loaded[id]]]
    BY <1>2 DEF Configured
  <2>2. Loaded[id] \in Urls
    BY <2>1, Pairs DEF Loaded, ListedIn, RegistryTypeOK, Config
  <2>3. [id |-> id, url |-> Loaded[id]] \in Model /\ memory[s] \in Refs
    BY <2>1, <2>2 DEF Model, ConfigTypeOK, Section
  <2> QED BY <2>1, <2>3, Constants
<1> QED BY <1>1, <1>2

\* When the process starts, it has what the files say, or misses it.
LEMMA InvStarted ==
  ASSUME RegistryInv, ConfigInv, Started
  PROVE  RegistryInv' /\ ConfigInv'
<1>0. /\ RegistryTypeOK /\ DownIsIdle /\ ConfigTypeOK /\ SavesHoldFile /\ ReadsFollow
      /\ SectionsSurvive
  BY DEF RegistryInv, ConfigInv
<1>1. PICK a \in Configured("activity", None), c \in Configured("consolidation", memory["consolidation"]) :
        /\ services' = [Off EXCEPT !["activity"] = a, !["consolidation"] = c]
        /\ Start(IF \E s \in Services : memory[s] # None /\ services'[s] = Off[s]
                 THEN {"memory"} ELSE {})
  BY DEF Started
<1>2. /\ ~up /\ up' /\ secrets' = secretFile /\ registry' = Loaded
      /\ events' = [f \in Watched |-> 0] /\ excuse' = [id \in IDs |-> None]
      /\ missed' = IF \E s \in Services : memory[s] # None /\ services'[s] = Off[s]
                   THEN {"memory"} ELSE {}
      /\ UNCHANGED <<models, secretFile, api, snapshot, phase, changes>>
  BY <1>1 DEF Start, fileVars
<1>3. UNCHANGED <<memory, fileMu, saving, reading, written, clash, torn>>
  BY DEF Started
<1>4. /\ Loaded \in [IDs -> Urls \cup {None}]
      /\ \A id \in ListedIn(models) : Loaded[id] = models[id[1]].url
      /\ \A id \in IDs \ ListedIn(models) : Loaded[id] = None
  <2>1. \A id \in ListedIn(models) : id \in IDs /\ models[id[1]].url \in Urls
    BY <1>0, Pairs DEF ListedIn, RegistryTypeOK, Config
  <2> QED BY <2>1 DEF Loaded
<1>5. RegistryTypeOK'
  BY <1>0, <1>2, <1>4 DEF RegistryTypeOK, Watched
<1>6. DownIsIdle' /\ SnapshotIsFile'
  BY <1>0, <1>2 DEF DownIsIdle, SnapshotIsFile, NothingRead
<1>7. ListedAreRegistered' /\ OthersAreNot'
  BY <1>2, <1>4 DEF ListedAreRegistered, Registered, OthersAreNot, Unregistered
<1>8. /\ services' \in [Services -> [ref : Refs \cup {None}, model : Model \cup {None}]]
      /\ services'["consolidation"] = c
      /\ c = Off["consolidation"] \/ /\ c.ref = memory["consolidation"] /\ c.model # None
                                     /\ memory["consolidation"] # None =>
                                          memory["consolidation"] \in {c.model.id, c.model.id[2]}
  <2>1. "activity" \in Services /\ "consolidation" \in Services
    BY DEF Services
  <2>2. /\ a \in [ref : Refs \cup {None}, model : Model \cup {None}]
        /\ c \in [ref : Refs \cup {None}, model : Model \cup {None}]
        /\ c = Off["consolidation"] \/ /\ c.ref = memory["consolidation"] /\ c.model # None
                                       /\ memory["consolidation"] # None =>
                                            memory["consolidation"] \in {c.model.id, c.model.id[2]}
    BY <1>0, <2>1, Constructed
  <2>3. Off \in [Services -> [ref : Refs \cup {None}, model : Model \cup {None}]]
    BY DEF Off
  <2> QED BY <1>1, <2>1, <2>2, <2>3
<1>9. ConfigTypeOK'
  BY <1>0, <1>3, <1>8 DEF ConfigTypeOK
<1>10. SavesHoldFile' /\ SectionsSurvive'
  BY <1>0, <1>3 DEF SavesHoldFile, SectionsSurvive
<1>11. ReadsFollow'
  BY <1>0, <1>2, <1>3, Constants DEF ReadsFollow, DownIsIdle, NotReading, Watched
<1>12. ConsolidatorFollowsFile'
  <2>1. "memory" \notin missed' /\ memory["consolidation"] # None => c # Off["consolidation"]
    BY <1>2, <1>8 DEF Services
  <2> QED BY <1>3, <1>8, <2>1 DEF ConsolidatorFollowsFile
<1> QED BY <1>5, <1>6, <1>7, <1>9, <1>10, <1>11, <1>12 DEF RegistryInv, ConfigInv

-----------------------------------------------------------------------------
(***************************************************************************)
(* The theorems                                                            *)
(***************************************************************************)

\* The process begins with what models.toml says and with no memory services.
LEMMA InvInitially == Init => RegistryInv /\ ConfigInv
<1> SUFFICES ASSUME Init PROVE RegistryInv /\ ConfigInv
  OBVIOUS
<1>1. RegistryInit
  BY DEF Init
<1>2. /\ Loaded \in [IDs -> Urls \cup {None}]
      /\ \A id \in ListedIn(models) : Loaded[id] = models[id[1]].url
      /\ \A id \in IDs \ ListedIn(models) : Loaded[id] = None
  <2>1. \A id \in ListedIn(models) : id \in IDs /\ models[id[1]].url \in Urls
    BY <1>1, Pairs DEF ListedIn, RegistryInit, Config
  <2> QED BY <2>1 DEF Loaded
<1>3. RegistryTypeOK
  BY <1>1, <1>2, Constants DEF RegistryInit, RegistryTypeOK, NothingRead
<1>4. DownIsIdle /\ SnapshotIsFile
  BY <1>1 DEF RegistryInit, DownIsIdle, SnapshotIsFile, NothingRead
<1>5. ListedAreRegistered /\ OthersAreNot
  BY <1>1, <1>2 DEF RegistryInit, ListedAreRegistered, Registered, OthersAreNot, Unregistered
<1>6. ConfigTypeOK
  BY DEF Init, ConfigTypeOK, NotReading, Off
<1>7. SavesHoldFile
  BY Constants DEF Init, SavesHoldFile, Services
<1>8. ReadsFollow
  BY Constants DEF Init, RegistryInit, ReadsFollow, NotReading, Watched
<1>9. SectionsSurvive /\ ConsolidatorFollowsFile
  BY DEF Init, SectionsSurvive, ConsolidatorFollowsFile, Services
<1> QED BY <1>3, <1>4, <1>5, <1>6, <1>7, <1>8, <1>9 DEF RegistryInv, ConfigInv

\* The operations of the API.
LEMMA RegApiStep ==
  ASSUME RegistryInv, ApiStep
  PROVE  RegistryInv' /\ UNCHANGED up /\ Stays("memory")
BY RegAddProvider, RegUpdateProvider, RegDeleteProvider, RegDeleteModel, RegSetModel,
   RegSaveProvider, RegDeleteOldName, RegDeleteFromFile, RegSaveWithout, RegUnlist, RegSaveFails
   DEF ApiStep

\* A step of the registry, beside which the services do nothing.
LEMMA InvRegistryStep ==
  ASSUME RegistryInv, ConfigInv, RegistryStep, UNCHANGED configVars
  PROVE  RegistryInv' /\ ConfigInv'
<1>1. CASE Notice("memory")
  <2>1. RegistryTypeOK /\ ConfigTypeOK /\ SavesHoldFile /\ ReadsFollow /\ SectionsSurvive
    BY DEF RegistryInv, ConfigInv
  <2>2. RegistryInv' /\ UNCHANGED up
    BY <1>1, RegNotice DEF Watched
  <2>3. UNCHANGED <<memory, fileMu, saving, reading, services, written, clash, torn>>
    BY DEF configVars
  <2>4. /\ up /\ phase'["memory"] # "idle" /\ (phase["memory"] = "running" => "memory" \in missed')
        /\ phase'["memory"] = "running" <=> phase["memory"] = "running"
    BY <1>1, <2>1 DEF Notice, RegistryTypeOK, Watched
  <2>5. ConfigTypeOK' /\ SavesHoldFile' /\ SectionsSurvive'
    BY <2>1, <2>3 DEF ConfigTypeOK, SavesHoldFile, SectionsSurvive
  <2>6. ReadsFollow'
    BY <2>1, <2>2, <2>3, <2>4, Constants DEF ReadsFollow, Unseen
  <2>7. ConsolidatorFollowsFile'
    BY <2>4 DEF ConsolidatorFollowsFile, Quiet
  <2> QED BY <2>2, <2>5, <2>6, <2>7 DEF ConfigInv
<1>2. CASE ~Notice("memory")
  <2>1. RegistryInv' /\ UNCHANGED up /\ Stays("memory")
    BY <1>2, RegEditModels, RegEditSecrets, RegNotice, RegReadFails, RegReloadSecrets,
       RegSetSecret,
       RegReadProviders, RegLoadProvider, RegReloadEnds, RegApiStep DEF RegistryStep
  <2> QED BY <2>1, ServicesAreLeftAlone
<1> QED BY <1>1, <1>2

\* Every step of the system preserves the invariant.
LEMMA InvPreserved == RegistryInv /\ ConfigInv /\ [Next]_vars => (RegistryInv /\ ConfigInv)'
<1> SUFFICES ASSUME RegistryInv, ConfigInv, [Next]_vars PROVE RegistryInv' /\ ConfigInv'
  OBVIOUS
<1>1. CASE RegistryStep /\ UNCHANGED configVars
  BY <1>1, InvRegistryStep
<1>2. CASE ConfigNext
  BY <1>2, CfgEditMemory, CfgValidate, CfgReadForSave, CfgWriteSection, CfgSaveSectionFails,
     CfgReadActivity, CfgReadActivityFails, CfgApplyActivity, CfgReadConsolidation,
     CfgApplyConsolidation DEF ConfigNext
<1>3. CASE Stopped \/ Started
  BY <1>3, InvStopped, InvStarted
<1>4. CASE UNCHANGED vars
  <2>1. /\ UNCHANGED <<up, models, secretFile, registry, secrets, api, snapshot>>
        /\ UNCHANGED <<events, phase, missed, excuse, changes>> /\ UNCHANGED configVars
    BY <1>4 DEF vars, registryVars, fileVars, serviceVars, watchVars
  <2>2. RegistryTypeOK' /\ Stays("models") /\ Stays("memory")
    BY <2>1 DEF RegistryInv, RegistryTypeOK, Stays
  <2> QED BY <2>1, <2>2, RegistryIsLeftAlone, ServicesAreLeftAlone
<1> QED BY <1>1, <1>2, <1>3, <1>4 DEF Next

\* The invariant holds in every reachable state.
THEOREM Inductive == Spec => [](RegistryInv /\ ConfigInv)
BY InvInitially, InvPreserved, PTL DEF Spec

\* The variables of both modules have their types.
THEOREM TypeCorrect == Spec => []TypeOK
<1>1. RegistryInv /\ ConfigInv => TypeOK
  BY DEF RegistryInv, ConfigInv, TypeOK
<1> QED BY <1>1, Inductive, PTL

\* Once nothing is under way, the registry holds the models of models.toml, but for
\* those that have an excuse (ProviderService, model/provider.go).
THEOREM RegistryIsTheFile == Spec => []RegistryFollowsFile
<1>1. RegistryInv => RegistryFollowsFile
  <2> SUFFICES ASSUME RegistryInv, up, api = Idle, phase["models"] = "idle", events["models"] = 0,
                      "models" \notin missed, NEW id \in IDs
               PROVE  registry[id] = Loaded[id] \/ excuse[id] # None
    BY DEF RegistryFollowsFile, Quiet
  <2>1. api.op = "none"
    BY DEF Idle
  <2>2. CASE id \in ListedIn(models)
    <3>1. id[1] \in Providers /\ snapshot[id[1]] = None
      BY Pairs DEF RegistryInv, SnapshotIsFile
    <3>2. Registered(id)
      BY <2>2 DEF RegistryInv, ListedAreRegistered
    <3> QED BY <2>1, <2>2, <3>1, <3>2 DEF Registered, Touched, Unseen, Loaded
  <2>3. CASE id \notin ListedIn(models)
    <3>1. Unregistered(id)
      BY <2>3 DEF RegistryInv, OthersAreNot
    <3> QED BY <2>1, <2>3, <3>1 DEF Unregistered, Loaded
  <2> QED BY <2>2, <2>3
<1> QED BY <1>1, Inductive, PTL

\* A save of one section of memory.toml takes nothing away from the other, unless its
\* write fails or the file was edited by hand in the middle of it
\* (MemoryFile.Save, files/memory_config.go).
THEOREM SectionsAreKept == Spec => []SectionsSurvive
<1>1. ConfigInv => SectionsSurvive
  BY DEF ConfigInv
<1> QED BY <1>1, Inductive, PTL

\* Once nothing is under way, the consolidation is configured by its section
\* (ConsolidationService.Reload, memory/consolidation.go).
THEOREM ConsolidatorIsConfigured == Spec => []ConsolidatorFollowsFile
<1>1. ConfigInv => ConsolidatorFollowsFile
  BY DEF ConfigInv
<1> QED BY <1>1, Inductive, PTL
=============================================================================
