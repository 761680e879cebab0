-------------------------- MODULE McpServiceProofs --------------------------
(***************************************************************************)
(* Theorems about McpService, for any names, calls and bounds: the         *)
(* registry knows exactly the connections that are alive, none of them is  *)
(* forgotten by the service, and what is connected is what the file says.  *)
(***************************************************************************)
EXTENDS McpService, TLAPS

(***************************************************************************)
(* The inductive invariant                                                 *)
(***************************************************************************)

\* What the registry has under a name is a connection of that name, and every
\* registered connection is what the registry has under its name.
RegistryExact ==
  /\ \A s \in Servers : srv[s].st \in Registered =>
       srv[s].name \in Names /\ registry[srv[s].name] = s
  /\ \A n \in Names : registry[n] # None =>
       srv[registry[n]].st \in Registered /\ srv[registry[n]].name = n

\* The connection that connectServer has built or registered is its own.
ConnectorsOwn ==
  /\ \A k \in Connectors : conn[k].pc \in {"factory", "built", "registered", "after"} =>
       conn[k].name \in Names /\ conn[k].cfg \in Config
  /\ \A k \in Connectors : conn[k].pc \in {"built", "registered"} =>
       /\ conn[k].srv \in Servers
       /\ srv[conn[k].srv].st = conn[k].pc
       /\ srv[conn[k].srv].name = conn[k].name /\ srv[conn[k].srv].cfg = conn[k].cfg
  /\ \A k, l \in Connectors :
       conn[k].pc \in {"built", "registered"} /\ conn[l].pc \in {"built", "registered"}
         /\ conn[k].srv = conn[l].srv => k = l
  /\ \A n \in Names : conn[n].pc \in {"factory", "built", "registered"} => conn[n].name = n

\* What the map has, or SetServer holds on to, was launched; SetServer holds on to the
\* connection of the name it sets.
Launched == {"starting", "running", "stopped", "unlisted", "gone", "leaked"}

MapLaunched ==
  /\ \A n \in Names : servers[n] # None => srv[servers[n]].st \in Launched
  /\ \A a \in Calls : old[a] # None =>
       /\ srv[old[a]].st \in Launched
       /\ conn[a].pc \in {"factory", "built", "registered", "after"} =>
            srv[old[a]].name = conn[a].name

\* No connector of Reload is at work while Reload is not, and the sentinel drops what
\* it notices while it is.
ReloadJoins ==
  /\ reload \in {"idle", "armed", "read"} => \A n \in Names : conn[n].pc = "idle"
  /\ reload \in {"armed", "read", "connecting"} => drop

\* As long as nothing was missed, a Reload works on what the file says and what it
\* has not connected yet it is connecting; afterwards it has.
Applied(n) ==
  IF servers[n] # None THEN srv[servers[n]].cfg = file[n]
  ELSE file[n] # None => lost[n] # "no"

Applying(n) ==
  /\ Applied(n) \/ (servers[n] = None /\ conn[n].pc \in {"factory", "built", "registered"})
  /\ conn[n].pc \in {"factory", "built", "registered"} => conn[n].cfg = file[n]

NoneAfter == \A a \in Calls : conn[a].pc # "after"

FollowsFile ==
  ~missed =>
    /\ reload = "read" => snapshot = file
    /\ reload \in {"idle", "armed"} /\ NoneAfter => \A n \in Names : Applied(n)
    /\ reload \in {"boot", "connecting"} => 
         \A n \in Names : conn[n].pc \in {"factory", "built", "registered"} => conn[n].cfg = file[n]
    /\ reload \in {"boot", "connecting"} /\ NoneAfter => \A n \in Names : Applying(n)

McpInv ==
  /\ TypeOK /\ RegistryExact /\ ConnectorsOwn /\ MapLaunched /\ NoneForgotten
  /\ ReloadJoins /\ FollowsFile
-----------------------------------------------------------------------------
(***************************************************************************)
(* The invariant is preserved: one lemma for each action                   *)
(***************************************************************************)

\* What a connection is known by.
Connections ==
  [name : Names \cup {None}, cfg : Config \cup {None},
   st : Registered \cup {"free", "built", "gone", "leaked"}, shutdown : BOOLEAN]

\* Where a connector stands.
ConnectorStates ==
  [pc : {"idle", "factory", "built", "registered", "after", "done"},
   name : Names \cup {None}, cfg : Config \cup {None}, srv : Servers \cup {None}]

\* None is no connection and no name, and a call is no name.
LEMMA NoneOutside ==
  /\ None \notin Servers /\ None \notin Names
  /\ Names \subseteq Connectors /\ Calls \subseteq Connectors /\ Names \cap Calls = {}
BY McpAssumption DEF Servers, Connectors

\* A change of the file is missed until a Reload has read it.
LEMMA InvEdit ==
  ASSUME McpInv, NEW m \in Names, Edit(m)
  PROVE  McpInv'
<1>0. /\ TypeOK /\ RegistryExact /\ ConnectorsOwn /\ MapLaunched /\ NoneForgotten
      /\ ReloadJoins /\ FollowsFile
  BY DEF McpInv
<1>1. TypeOK'
  BY <1>0, McpAssumption DEF Edit, Write, TypeOK, connVars, Config
<1>2. RegistryExact'
  BY <1>0 DEF Edit, RegistryExact
<1>3. ConnectorsOwn'
  BY <1>0 DEF Edit, ConnectorsOwn, connVars
<1>4. MapLaunched'
  BY <1>0 DEF Edit, MapLaunched, connVars
<1>5. NoneForgotten'
  BY <1>0 DEF Edit, NoneForgotten, HasSession
<1>6. ReloadJoins'
  BY <1>0 DEF Edit, ReloadJoins, connVars
<1>7. FollowsFile'
  BY DEF Edit, Write, FollowsFile
<1> QED BY <1>1, <1>2, <1>3, <1>4, <1>5, <1>6, <1>7 DEF McpInv

\* The sentinel notices an event; it arms Reload only when none is on its way.
LEMMA InvNotice ==
  ASSUME McpInv, Notice
  PROVE  McpInv'
<1>0. /\ TypeOK /\ RegistryExact /\ ConnectorsOwn /\ MapLaunched /\ NoneForgotten
      /\ ReloadJoins /\ FollowsFile
  BY DEF McpInv
<1>1. TypeOK'
  BY <1>0 DEF Notice, TypeOK, connVars
<1>2. RegistryExact'
  BY <1>0 DEF Notice, RegistryExact
<1>3. ConnectorsOwn'
  BY <1>0 DEF Notice, ConnectorsOwn, connVars
<1>4. MapLaunched'
  BY <1>0 DEF Notice, MapLaunched, connVars
<1>5. NoneForgotten'
  BY <1>0 DEF Notice, NoneForgotten, HasSession
<1>6. ReloadJoins'
  BY <1>0 DEF Notice, ReloadJoins, TypeOK, connVars
<1>7. FollowsFile'
  BY <1>0 DEF Notice, FollowsFile, TypeOK, Applied, Applying, NoneAfter, ReloadJoins, connVars
<1> QED BY <1>1, <1>2, <1>3, <1>4, <1>5, <1>6, <1>7 DEF McpInv

\* What Reload has read is what the file says.
LEMMA InvReadConfig ==
  ASSUME McpInv, ReadConfig
  PROVE  McpInv'
<1>0. /\ TypeOK /\ RegistryExact /\ ConnectorsOwn /\ MapLaunched /\ NoneForgotten
      /\ ReloadJoins /\ FollowsFile
  BY DEF McpInv
<1>1. TypeOK'
  BY <1>0 DEF ReadConfig, TypeOK, fileVars, connVars
<1>2. RegistryExact'
  BY <1>0 DEF ReadConfig, RegistryExact
<1>3. ConnectorsOwn'
  BY <1>0 DEF ReadConfig, ConnectorsOwn, connVars
<1>4. MapLaunched'
  BY <1>0 DEF ReadConfig, MapLaunched, connVars
<1>5. NoneForgotten'
  BY <1>0 DEF ReadConfig, NoneForgotten, HasSession
<1>6. ReloadJoins'
  BY <1>0 DEF ReadConfig, ReloadJoins, connVars
<1>7. FollowsFile'
  BY DEF ReadConfig, FollowsFile, fileVars
<1> QED BY <1>1, <1>2, <1>3, <1>4, <1>5, <1>6, <1>7 DEF McpInv

\* A Reload that cannot read the file changes nothing.
LEMMA InvReadFails ==
  ASSUME McpInv, ReadFails
  PROVE  McpInv'
<1>0. /\ TypeOK /\ RegistryExact /\ ConnectorsOwn /\ MapLaunched /\ NoneForgotten
      /\ ReloadJoins /\ FollowsFile
  BY DEF McpInv
<1>1. TypeOK'
  BY <1>0 DEF ReadFails, TypeOK, fileVars, connVars
<1>2. RegistryExact'
  BY <1>0 DEF ReadFails, RegistryExact
<1>3. ConnectorsOwn'
  BY <1>0 DEF ReadFails, ConnectorsOwn, connVars
<1>4. MapLaunched'
  BY <1>0 DEF ReadFails, MapLaunched, connVars
<1>5. NoneForgotten'
  BY <1>0 DEF ReadFails, NoneForgotten, HasSession
<1>6. ReloadJoins'
  BY <1>0 DEF ReadFails, ReloadJoins, connVars
<1>7. FollowsFile'
  BY <1>0 DEF ReadFails, FollowsFile, Applied, NoneAfter, fileVars, connVars
<1> QED BY <1>1, <1>2, <1>3, <1>4, <1>5, <1>6, <1>7 DEF McpInv

\* Reload forgets a connection only when it has shut it down, or it is over.
LEMMA InvApply ==
  ASSUME McpInv, Apply
  PROVE  McpInv'
<1>0. /\ TypeOK /\ RegistryExact /\ ConnectorsOwn /\ MapLaunched /\ NoneForgotten
      /\ ReloadJoins /\ FollowsFile
  BY DEF McpInv
<1>a. /\ reload = "read" /\ reload' = "connecting" /\ ShutDownOutdated
      /\ conn' = Connecting([n \in Names |-> IF servers[n] = None \/ n \in Outdated
                                             THEN snapshot[n] ELSE None])
      /\ lost' = [n \in Names |-> "no"] /\ snapshot' = [n \in Names |-> None]
      /\ UNCHANGED <<file, events, edits, registry, old, drop, missed>>
  BY DEF Apply, fileVars
<1>b. /\ servers' = [n \in Names |-> IF n \in Outdated THEN None ELSE servers[n]]
      /\ \A s \in Servers : (\A n \in Outdated : servers[n] # s) => srv'[s] = srv[s]
      /\ \A s \in Servers :
           \/ srv'[s] = srv[s]
           \/ srv[s].st = "gone" /\ srv'[s] = Over(s)
           \/ srv'[s] = [srv[s] EXCEPT !.shutdown = TRUE]
  BY <1>a DEF ShutDownOutdated
<1>c. \A s \in Servers :
        \/ /\ srv'[s].st = srv[s].st /\ srv'[s].name = srv[s].name
           /\ srv'[s].cfg = srv[s].cfg
        \/ srv[s].st = "gone" /\ srv'[s].st \in {"gone", "free"}
  <2>1. srv \in [Servers -> Connections]
    BY <1>0 DEF TypeOK, Connections
  <2> TAKE s \in Servers
  <2>2. CASE srv'[s] = srv[s]
    BY <2>2
  <2>3. CASE srv[s].st = "gone" /\ srv'[s] = Over(s)
    BY <2>3 DEF Over, Free
  <2>4. CASE srv'[s] = [srv[s] EXCEPT !.shutdown = TRUE]
    BY <2>1, <2>4 DEF Connections
  <2> QED BY <1>b, <2>2, <2>3, <2>4
<1>d. \A k \in Connectors :
        \/ conn'[k] = conn[k]
        \/ /\ k \in Names /\ snapshot[k] \in Config /\ conn'[k] \in ConnectorStates
           /\ conn'[k].pc = "factory" /\ conn'[k].name = k /\ conn'[k].cfg = snapshot[k]
  <2> TAKE k \in Connectors
  <2>1. \/ conn'[k] = conn[k]
        \/ /\ k \in Names /\ snapshot[k] # None
           /\ conn'[k] = [pc |-> "factory", name |-> k, cfg |-> snapshot[k], srv |-> None]
    BY <1>a DEF Connecting
  <2>2. snapshot \in [Names -> Config \cup {None}]
    BY <1>0 DEF TypeOK
  <2> QED BY <2>1, <2>2 DEF ConnectorStates
<1>e. \A n \in Names : servers'[n] # None =>
        /\ n \notin Outdated /\ servers[n] \in Servers
        /\ servers'[n] = servers[n] /\ srv'[servers[n]] = srv[servers[n]]
  <2> SUFFICES ASSUME NEW n \in Names, servers'[n] # None
               PROVE  /\ n \notin Outdated /\ servers[n] \in Servers
                      /\ servers'[n] = servers[n] /\ srv'[servers[n]] = srv[servers[n]]
    OBVIOUS
  <2>1. n \notin Outdated /\ servers'[n] = servers[n] /\ servers[n] \in Servers
    BY <1>0, <1>b DEF TypeOK
  <2>2. ASSUME NEW m \in Outdated PROVE servers[m] # servers[n]
    BY <1>0, <2>1 DEF TypeOK, Outdated
  <2> QED BY <1>b, <2>1, <2>2
<1>1. TypeOK'
  <2>1. srv' \in [Servers -> Connections]
    <3>1. srv \in [Servers -> Connections]
      BY <1>0 DEF TypeOK, Connections
    <3>2. \A s \in Servers : Over(s) \in Connections /\ [srv[s] EXCEPT !.shutdown = TRUE] \in Connections
      BY <3>1 DEF Over, Free, Connections
    <3> QED BY <1>a, <3>1, <3>2 DEF ShutDownOutdated
  <2>2. conn' \in [Connectors -> ConnectorStates]
    <3>1. conn \in [Connectors -> ConnectorStates]
      BY <1>0 DEF TypeOK, ConnectorStates
    <3>2. \A k \in Connectors : conn'[k] \in ConnectorStates
      BY <1>d, <3>1
    <3> QED BY <1>a, <3>2 DEF Connecting
  <2>3. \A n \in Names : servers'[n] # None => srv'[servers'[n]].name = n
    BY <1>0, <1>e DEF TypeOK
  <2>4. servers' \in [Names -> Servers \cup {None}]
    BY <1>0, <1>b DEF TypeOK
  <2> QED BY <1>0, <1>a, <2>1, <2>2, <2>3, <2>4 DEF TypeOK, Connections, ConnectorStates
<1>2. RegistryExact'
  BY <1>0 DEF Apply, ShutDownOutdated, Over, Free, RegistryExact, TypeOK, Registered
<1>3. ConnectorsOwn'
  <2>1. ASSUME NEW k \in Connectors, conn'[k].pc \in {"built", "registered"}
        PROVE  /\ conn'[k] = conn[k] /\ conn[k].srv \in Servers
               /\ srv'[conn[k].srv].st = srv[conn[k].srv].st
               /\ srv'[conn[k].srv].name = srv[conn[k].srv].name
               /\ srv'[conn[k].srv].cfg = srv[conn[k].srv].cfg
    <3>1. conn'[k] = conn[k]
      BY <1>d, <2>1
    <3>2. conn[k].srv \in Servers /\ srv[conn[k].srv].st = conn[k].pc
      BY <1>0, <2>1, <3>1 DEF ConnectorsOwn
    <3> QED BY <1>c, <2>1, <3>1, <3>2
  <2>2. ASSUME NEW k \in Connectors, conn'[k].pc \in {"factory", "built", "registered", "after"}
        PROVE  /\ conn'[k].name \in Names /\ conn'[k].cfg \in Config
               /\ k \in Names => conn'[k] = conn[k] \/ conn'[k].name = k
    BY <1>0, <1>d, <2>2 DEF ConnectorsOwn
  <2> QED BY <1>0, <2>1, <2>2, NoneOutside DEF ConnectorsOwn
<1>4. MapLaunched'
  <2>1. ASSUME NEW n \in Names, servers'[n] # None
        PROVE  srv'[servers'[n]].st \in Launched
    BY <1>0, <1>e, <2>1 DEF MapLaunched
  <2>2. ASSUME NEW a \in Calls, old[a] # None
        PROVE  srv'[old[a]].st \in Launched /\ srv'[old[a]].name = srv[old[a]].name
    <3>1. old[a] \in Servers /\ srv[old[a]] \in Connections /\ srv[old[a]].st \in Launched
      BY <1>0, <2>2 DEF TypeOK, Connections, MapLaunched
    <3>2. srv[old[a]].st = "gone" => Over(old[a]) = [srv[old[a]] EXCEPT !.st = "gone"]
      BY DEF Over, Pinned
    <3> QED BY <1>b, <3>1, <3>2 DEF Connections, Launched
  <2>3. \A a \in Calls : conn'[a] = conn[a] /\ old'[a] = old[a]
    BY <1>a, NoneOutside DEF Connecting
  <2> QED BY <1>0, <2>1, <2>2, <2>3 DEF MapLaunched
<1>5. NoneForgotten'
  <2>1. ASSUME NEW s \in Servers, srv'[s].st \in {"starting", "running", "unlisted"}, ~srv'[s].shutdown
        PROVE  servers'[srv'[s].name] = s
    <3>1. srv[s].st \in {"starting", "running", "unlisted"} /\ srv[s] \in Connections
      BY <1>0, <1>c, <2>1 DEF TypeOK, Connections
    <3>2. srv'[s] = srv[s]
      BY <1>b, <2>1, <3>1 DEF Connections
    <3>3. servers[srv[s].name] = s /\ srv[s].name \in Names
      BY <1>0, <2>1, <3>2 DEF NoneForgotten, HasSession, RegistryExact, Registered
    <3>4. \A n \in Outdated : servers[n] # s
      BY <1>a, <2>1, <3>1 DEF ShutDownOutdated
    <3> QED BY <1>b, <3>2, <3>3, <3>4
  <2> QED BY <2>1 DEF NoneForgotten, HasSession
<1>6. ReloadJoins'
  BY <1>0 DEF Apply, ReloadJoins
<1>7. FollowsFile'
  <2> SUFFICES ASSUME ~missed, NEW n \in Names
               PROVE  /\ Applied(n)' \/ (servers'[n] = None /\ conn'[n].pc = "factory")
                      /\ conn'[n].pc \in {"factory", "built", "registered"} => conn'[n].cfg = file[n]
    BY <1>a DEF FollowsFile, Applying
  <2>1. snapshot = file /\ conn[n].pc = "idle"
    BY <1>0, <1>a DEF FollowsFile, ReloadJoins
  <2>2. CASE servers'[n] # None
    BY <1>0, <1>a, <1>d, <1>e, <2>1, <2>2, NoneOutside DEF Applied, Outdated, TypeOK
  <2>3. CASE servers'[n] = None
    <3>1. servers[n] = None \/ n \in Outdated
      BY <1>b, <2>3
    <3>2. CASE file[n] = None
      BY <1>a, <2>1, <2>3, <3>2, NoneOutside DEF Applied, Connecting
    <3>3. CASE file[n] # None
      BY <1>a, <2>1, <2>3, <3>1, <3>3, NoneOutside DEF Connecting
    <3> QED BY <3>2, <3>3
  <2> QED BY <2>2, <2>3
<1> QED BY <1>1, <1>2, <1>3, <1>4, <1>5, <1>6, <1>7 DEF McpInv

\* Reload is over when all its connectors are.
LEMMA InvAllConnected ==
  ASSUME McpInv, AllConnected
  PROVE  McpInv'
<1>0. /\ TypeOK /\ RegistryExact /\ ConnectorsOwn /\ MapLaunched /\ NoneForgotten
      /\ ReloadJoins /\ FollowsFile
  BY DEF McpInv
<1>1. TypeOK'
  BY <1>0 DEF AllConnected, NoConn, TypeOK, fileVars
<1>2. RegistryExact'
  BY <1>0 DEF AllConnected, RegistryExact
<1>3. ConnectorsOwn'
  BY <1>0, NoneOutside DEF AllConnected, NoConn, ConnectorsOwn
<1>4. MapLaunched'
  BY <1>0, NoneOutside DEF AllConnected, MapLaunched
<1>5. NoneForgotten'
  BY <1>0 DEF AllConnected, NoneForgotten, HasSession
<1>6. ReloadJoins'
  BY NoneOutside DEF AllConnected, NoConn, ReloadJoins
<1>7. FollowsFile'
  BY <1>0, NoneOutside DEF AllConnected, FollowsFile, Applied, Applying, NoneAfter, fileVars
<1> QED BY <1>1, <1>2, <1>3, <1>4, <1>5, <1>6, <1>7 DEF McpInv

\* The factory makes a connection that nobody knows of yet.
LEMMA InvFactory ==
  ASSUME McpInv, NEW c \in Connectors, Factory(c)
  PROVE  McpInv'
<1>0. /\ TypeOK /\ RegistryExact /\ ConnectorsOwn /\ MapLaunched /\ NoneForgotten
      /\ ReloadJoins /\ FollowsFile
  BY DEF McpInv
<1>a. PICK s \in Servers :
        /\ conn[c].pc = "factory" /\ srv[s].st = "free"
        /\ srv' = [srv EXCEPT ![s] = [name |-> conn[c].name, cfg |-> conn[c].cfg,
                                      st |-> "built", shutdown |-> FALSE]]
        /\ conn' = [conn EXCEPT ![c].pc = "built", ![c].srv = s]
        /\ UNCHANGED <<file, events, edits, servers, registry, old, reload, snapshot, drop,
                       missed, lost>>
  BY DEF Factory, fileVars
<1>c. \A n \in Names : servers[n] # None => servers[n] \in Servers /\ servers[n] # s
  BY <1>0, <1>a DEF TypeOK, MapLaunched, Launched
<1>1. TypeOK'
  <2>2. conn' \in [Connectors -> ConnectorStates]
    <3>1. conn' = [conn EXCEPT ![c] = [conn[c] EXCEPT !.pc = "built", !.srv = s]]
      BY <1>0, <1>a DEF TypeOK
    <3>2. conn \in [Connectors -> ConnectorStates]
      BY <1>0 DEF TypeOK, ConnectorStates
    <3>3. [conn[c] EXCEPT !.pc = "built", !.srv = s] \in ConnectorStates
      BY <3>2 DEF ConnectorStates
    <3> QED BY <3>1, <3>2, <3>3
  <2>3. \A n \in Names : servers[n] # None => srv'[servers[n]].name = n
    BY <1>0, <1>a, <1>c DEF TypeOK
  <2> QED BY <1>0, <1>a, <2>2, <2>3 DEF TypeOK, ConnectorStates
<1>2. RegistryExact'
  BY <1>0 DEF Factory, RegistryExact, Registered
<1>3. ConnectorsOwn'
  BY <1>0, NoneOutside DEF Factory, ConnectorsOwn, TypeOK
<1>4. MapLaunched'
  BY <1>0, NoneOutside DEF Factory, MapLaunched, TypeOK, Launched
<1>5. NoneForgotten'
  BY <1>0 DEF Factory, NoneForgotten, HasSession
<1>6. ReloadJoins'
  BY <1>0, NoneOutside DEF Factory, ReloadJoins, TypeOK
<1>7. FollowsFile'
  <2>0. UNCHANGED <<file, servers, reload, snapshot, missed>>
    BY <1>a
  <2>1. \A n \in Names : Applied(n)' <=> Applied(n)
    BY <1>a, <1>c DEF Applied
  <2>2. /\ conn'[c].pc = "built" /\ conn'[c].cfg = conn[c].cfg
        /\ \A k \in Connectors : k # c => conn'[k] = conn[k]
    BY <1>0, <1>a DEF TypeOK
  <2>3. NoneAfter' <=> NoneAfter
    BY <1>a, <2>2, NoneOutside DEF NoneAfter
  <2>4. \A n \in Names :
          /\ conn'[n].cfg = conn[n].cfg
          /\ conn'[n].pc \in {"factory", "built", "registered"} <=>
             conn[n].pc \in {"factory", "built", "registered"}
    BY <1>a, <2>2, NoneOutside
  <2>5. \A n \in Names : Applying(n)' <=> Applying(n)
    BY <2>0, <2>1, <2>4 DEF Applying
  <2> QED BY <1>0, <2>0, <2>1, <2>3, <2>4, <2>5 DEF FollowsFile
<1> QED BY <1>1, <1>2, <1>3, <1>4, <1>5, <1>6, <1>7 DEF McpInv

\* A name that could not be connected is lost.
LEMMA InvFactoryFails ==
  ASSUME McpInv, NEW c \in Connectors, FactoryFails(c)
  PROVE  McpInv'
<1>0. /\ TypeOK /\ RegistryExact /\ ConnectorsOwn /\ MapLaunched /\ NoneForgotten
      /\ ReloadJoins /\ FollowsFile
  BY DEF McpInv
<1>1. TypeOK'
  BY <1>0 DEF FactoryFails, Fail, NoConn, Lost, TypeOK, fileVars
<1>2. RegistryExact'
  BY <1>0 DEF FactoryFails, RegistryExact
<1>3. ConnectorsOwn'
  BY <1>0 DEF FactoryFails, Fail, ConnectorsOwn
<1>4. MapLaunched'
  BY <1>0 DEF FactoryFails, Fail, MapLaunched
<1>5. NoneForgotten'
  BY <1>0 DEF FactoryFails, NoneForgotten, HasSession
<1>6. ReloadJoins'
  BY <1>0 DEF FactoryFails, Fail, ReloadJoins
<1>7. FollowsFile'
  BY <1>0
     DEF FactoryFails, Fail, Lost, FollowsFile, TypeOK, Applied, Applying, NoneAfter, fileVars
<1> QED BY <1>1, <1>2, <1>3, <1>4, <1>5, <1>6, <1>7 DEF McpInv

\* A connection is registered under a name that was free.
LEMMA InvConnect ==
  ASSUME McpInv, NEW c \in Connectors, Connect(c)
  PROVE  McpInv'
<1>0. /\ TypeOK /\ RegistryExact /\ ConnectorsOwn /\ MapLaunched /\ NoneForgotten
      /\ ReloadJoins /\ FollowsFile
  BY DEF McpInv
<1>a. PICK n \in Names, s \in Servers :
        /\ conn[c].pc = "built" /\ conn[c].name = n /\ conn[c].srv = s
        /\ srv[s].st = "built" /\ srv[s].name = n /\ registry[n] = None
        /\ registry' = [registry EXCEPT ![n] = s]
        /\ srv' = [srv EXCEPT ![s].st = "registered"]
        /\ conn' = [conn EXCEPT ![c].pc = "registered"]
        /\ UNCHANGED <<file, events, edits, servers, old, reload, snapshot, drop, missed, lost>>
  BY <1>0 DEF Connect, ConnectorsOwn, fileVars
<1>b. /\ srv'[s].st = "registered" /\ srv'[s].name = n
      /\ srv'[s].cfg = srv[s].cfg
      /\ \A r \in Servers : r # s => srv'[r] = srv[r]
  BY <1>0, <1>a DEF TypeOK
<1>1. TypeOK'
  <2>1. srv' \in [Servers -> Connections]
    <3>1. srv \in [Servers -> Connections]
      BY <1>0 DEF TypeOK, Connections
    <3>2. [srv[s] EXCEPT !.st = "registered"] \in Connections
      BY <3>1 DEF Connections, Registered
    <3> QED BY <1>a, <3>1, <3>2
  <2>2. conn' \in [Connectors -> ConnectorStates]
    <3>1. conn \in [Connectors -> ConnectorStates]
      BY <1>0 DEF TypeOK, ConnectorStates
    <3>2. [conn[c] EXCEPT !.pc = "registered"] \in ConnectorStates
      BY <3>1 DEF ConnectorStates
    <3> QED BY <1>a, <3>1, <3>2
  <2>4. registry' \in [Names -> Servers \cup {None}]
    BY <1>0, <1>a DEF TypeOK
  <2> QED BY <1>0, <1>a, <2>1, <2>2, <2>4 DEF TypeOK, Connections
<1>2. RegistryExact'
  <2>1. ASSUME NEW r \in Servers, srv'[r].st \in Registered
        PROVE  srv'[r].name \in Names /\ registry'[srv'[r].name] = r
    <3>1. CASE r = s
      BY <1>0, <1>a, <3>1 DEF TypeOK
    <3>2. CASE r # s
      <4>1. srv[r].name \in Names /\ registry[srv[r].name] = r /\ srv'[r] = srv[r]
        BY <1>0, <1>b, <2>1, <3>2 DEF RegistryExact
      <4> QED BY <1>a, <4>1, NoneOutside
    <3> QED BY <3>1, <3>2
  <2>2. ASSUME NEW m \in Names, registry'[m] # None
        PROVE  srv'[registry'[m]].st \in Registered /\ srv'[registry'[m]].name = m
    <3>1. CASE m = n
      BY <1>0, <1>a, <3>1 DEF TypeOK, Registered
    <3>2. CASE m # n
      <4>1. registry'[m] = registry[m] /\ registry[m] \in Servers
        BY <1>0, <1>a, <2>2, <3>2 DEF TypeOK
      <4>2. srv[registry[m]].st \in Registered /\ srv[registry[m]].name = m
        BY <1>0, <2>2, <4>1 DEF RegistryExact
      <4> QED BY <1>a, <1>b, <4>2 DEF Registered
    <3> QED BY <3>1, <3>2
  <2> QED BY <2>1, <2>2 DEF RegistryExact
<1>3. ConnectorsOwn'
  BY <1>0 DEF Connect, ConnectorsOwn, TypeOK
<1>4. MapLaunched'
  BY <1>0, <1>a DEF MapLaunched, Launched
<1>5. NoneForgotten'
  BY <1>0 DEF Connect, NoneForgotten, HasSession
<1>6. ReloadJoins'
  BY <1>0 DEF Connect, ReloadJoins
<1>7. FollowsFile'
  BY <1>0 DEF Connect, FollowsFile, Applied, Applying, NoneAfter, fileVars
<1> QED BY <1>1, <1>2, <1>3, <1>4, <1>5, <1>6, <1>7 DEF McpInv

\* A connection that is refused is known to nobody.
LEMMA InvConnectRefused ==
  ASSUME McpInv, NEW c \in Connectors, ConnectRefused(c)
  PROVE  McpInv'
<1>0. /\ TypeOK /\ RegistryExact /\ ConnectorsOwn /\ MapLaunched /\ NoneForgotten
      /\ ReloadJoins /\ FollowsFile
  BY DEF McpInv
<1>a. PICK s \in Servers :
        /\ conn[c].pc = "built" /\ conn[c].srv = s /\ srv[s].st = "built"
        /\ srv' = [srv EXCEPT ![s] = Free]
        /\ conn' = Fail(c) /\ lost' = Lost(c, "refused")
        /\ UNCHANGED <<file, events, edits, servers, registry, old, reload, snapshot, drop, missed>>
  BY <1>0 DEF ConnectRefused, ConnectorsOwn, fileVars
<1>b. /\ srv'[s] = Free /\ Free.st = "free"
      /\ \A r \in Servers : r # s => srv'[r] = srv[r]
  BY <1>0, <1>a DEF TypeOK, Free
<1>c. /\ \A n \in Names : servers[n] # None => servers[n] \in Servers /\ servers[n] # s
      /\ \A n \in Names : registry[n] # None => registry[n] \in Servers /\ registry[n] # s
      /\ \A a \in Calls : old[a] # None => old[a] \in Servers /\ old[a] # s
  <2>1. srv[s].st \notin Launched /\ srv[s].st \notin Registered
    BY <1>a DEF Launched, Registered
  <2>2. \A n \in Names : servers[n] # None => servers[n] \in Servers /\ servers[n] # s
    BY <1>0, <2>1 DEF TypeOK, MapLaunched
  <2>3. \A n \in Names : registry[n] # None => registry[n] \in Servers /\ registry[n] # s
    BY <1>0, <2>1 DEF TypeOK, RegistryExact
  <2>4. \A a \in Calls : old[a] # None => old[a] \in Servers /\ old[a] # s
    BY <1>0, <2>1 DEF TypeOK, MapLaunched
  <2> QED BY <2>2, <2>3, <2>4
<1>d. /\ conn'[c] = [NoConn EXCEPT !.pc = "done"]
      /\ \A k \in Connectors : k # c => conn'[k] = conn[k]
  BY <1>0, <1>a DEF TypeOK, Fail
<1>1. TypeOK'
  <2>1. srv' \in [Servers -> Connections]
    BY <1>0, <1>a DEF TypeOK, Connections, Free
  <2>2. conn' \in [Connectors -> ConnectorStates]
    BY <1>0, <1>a DEF TypeOK, ConnectorStates, Fail, NoConn
  <2>3. \A m \in Names : servers[m] # None => srv'[servers[m]].name = m
    BY <1>0, <1>a, <1>c DEF TypeOK
  <2>4. lost' \in [Names -> {"no", "failed", "refused"}]
    BY <1>0, <1>a DEF TypeOK, Lost
  <2> QED BY <1>0, <1>a, <2>1, <2>2, <2>3, <2>4 DEF TypeOK, Connections, ConnectorStates
<1>2. RegistryExact'
  BY <1>0, <1>a, <1>b DEF RegistryExact, Registered
<1>3. ConnectorsOwn'
  BY <1>0 DEF ConnectRefused, Fail, ConnectorsOwn, TypeOK
<1>4. MapLaunched'
  <2>1. \A a \in Calls : conn'[a].pc \in {"factory", "built", "registered", "after"} => conn'[a] = conn[a]
    BY <1>d, NoneOutside DEF NoConn
  <2> QED BY <1>0, <1>a, <1>c, <2>1 DEF MapLaunched
<1>5. NoneForgotten'
  BY <1>0 DEF ConnectRefused, Free, NoneForgotten, HasSession
<1>6. ReloadJoins'
  BY <1>0 DEF ConnectRefused, Fail, ReloadJoins
<1>7. FollowsFile'
  <2>1. /\ c \in Names => lost'[c] = "refused"
        /\ \A n \in Names : n # c => lost'[n] = lost[n]
    BY <1>0, <1>a DEF TypeOK, Lost
  <2>2. \A n \in Names : n # c => (Applied(n)' <=> Applied(n))
    BY <1>a, <1>c, <2>1 DEF Applied
  <2>3. c \in Names => IF servers[c] = None THEN Applied(c)' ELSE Applied(c)' <=> Applied(c)
    BY <1>a, <1>c, <2>1 DEF Applied
  <2>4. conn'[c].pc = "done"
    BY <1>d DEF NoConn
  <2>5. NoneAfter' <=> NoneAfter
    BY <1>a, <1>d, <2>4, NoneOutside DEF NoneAfter
  <2>6. c \in Names => reload \in {"boot", "connecting"}
    BY <1>0, <1>a DEF ReloadJoins, TypeOK
  <2>7. \A n \in Names : n # c => (Applying(n)' <=> Applying(n))
    BY <1>a, <1>d, <2>2, NoneOutside DEF Applying
  <2>8. c \in Names => (Applying(c) => Applying(c)')
    BY <1>a, <2>3, <2>4 DEF Applying
  <2>9. \A n \in Names : n # c => conn'[n] = conn[n]
    BY <1>d, NoneOutside
  <2> QED BY <1>0, <1>a, <2>2, <2>4, <2>5, <2>6, <2>7, <2>8, <2>9 DEF FollowsFile
<1> QED BY <1>1, <1>2, <1>3, <1>4, <1>5, <1>6, <1>7 DEF McpInv

\* The connection a launched one takes the place of in the map is over.
LEMMA InvLaunch ==
  ASSUME McpInv, NEW c \in Connectors, Launch(c)
  PROVE  McpInv'
<1>0. /\ TypeOK /\ RegistryExact /\ ConnectorsOwn /\ MapLaunched /\ NoneForgotten
      /\ ReloadJoins /\ FollowsFile
  BY DEF McpInv
<1>a. PICK n \in Names, s \in Servers :
        /\ conn[c].pc = "registered" /\ conn[c].name = n /\ conn[c].srv = s
        /\ srv[s].st = "registered" /\ srv[s].name = n /\ srv[s].cfg = conn[c].cfg
        /\ servers' = [servers EXCEPT ![n] = s]
        /\ srv' = [r \in Servers |-> IF r = s THEN [srv[r] EXCEPT !.st = "starting"]
                                     ELSE IF r = servers[n] THEN Over(r) ELSE srv[r]]
        /\ conn' = Finish(c)
        /\ UNCHANGED <<file, events, edits, registry, old, reload, snapshot, drop, missed, lost>>
  <2>1. /\ conn[c].pc = "registered" /\ conn[c].name \in Names /\ conn[c].srv \in Servers
        /\ srv[conn[c].srv].st = "registered" /\ srv[conn[c].srv].name = conn[c].name
        /\ srv[conn[c].srv].cfg = conn[c].cfg
    BY <1>0 DEF Launch, ConnectorsOwn
  <2> QED BY <2>1 DEF Launch, fileVars
\* The registry has the new connection, so that the one it replaces is over.
<1>b. servers[n] # None =>
        servers[n] \in Servers /\ servers[n] # s /\ srv[servers[n]].st \in {"gone", "leaked"}
  <2>1. ASSUME servers[n] # None, srv[servers[n]].st \notin {"gone", "leaked"} PROVE FALSE
    <3>1. servers[n] \in Servers /\ srv[servers[n]].name = n /\ srv[servers[n]].st \in Launched
      BY <1>0, <2>1 DEF TypeOK, MapLaunched
    <3>4. srv[servers[n]].st \in Registered
      BY <2>1, <3>1 DEF Registered, Launched
    <3>2. registry[n] = servers[n]
      BY <1>0, <2>1, <3>1, <3>4 DEF RegistryExact
    <3>3. registry[n] = s
      BY <1>0, <1>a DEF RegistryExact, Registered
    <3> QED BY <1>a, <3>1, <3>2, <3>3 DEF Launched
  <2> QED BY <1>0, <1>a, <2>1 DEF TypeOK
<1>c. /\ srv'[s].st = "starting" /\ srv'[s].name = n /\ srv'[s].cfg = srv[s].cfg
      /\ \A r \in Servers : r # s =>
           \/ srv'[r] = srv[r]
           \/ /\ r = servers[n] /\ srv[r].st = "gone"
              /\ srv'[r].st \in {"free", "gone"}
              /\ Pinned(r) => srv'[r].st = "gone" /\ srv'[r].name = srv[r].name
  <2>1. srv'[s] = [srv[s] EXCEPT !.st = "starting"] /\ srv[s] \in Connections
    BY <1>0, <1>a DEF TypeOK, Connections
  <2>2. srv'[s].st = "starting" /\ srv'[s].name = n /\ srv'[s].cfg = srv[s].cfg
    BY <1>a, <2>1 DEF Connections
  <2>3. ASSUME NEW r \in Servers, r # s, r # servers[n] PROVE srv'[r] = srv[r]
    BY <1>a, <2>3
  <2>4. ASSUME NEW r \in Servers, r # s, r = servers[n]
        PROVE  \/ srv'[r] = srv[r]
               \/ /\ srv[r].st = "gone" /\ srv'[r].st \in {"free", "gone"}
                  /\ Pinned(r) => srv'[r].st = "gone" /\ srv'[r].name = srv[r].name
    <3>1. srv'[r] = Over(r) /\ srv[r] \in Connections
      BY <1>0, <1>a, <2>4 DEF TypeOK, Connections
    <3>2. CASE srv[r].st = "leaked"
      BY <3>1, <3>2 DEF Over
    <3>3. CASE srv[r].st = "gone"
      BY <3>1, <3>3 DEF Over, Free, Connections
    <3> QED BY <1>b, <2>4, <3>2, <3>3, NoneOutside
  <2> QED BY <1>b, <2>2, <2>3, <2>4, NoneOutside
<1>d. /\ conn'[c].pc = IF c \in Names THEN "done" ELSE "after"
      /\ conn'[c].name = n /\ conn'[c].cfg = conn[c].cfg
      /\ \A k \in Connectors : k # c => conn'[k] = conn[k]
  BY <1>0, <1>a DEF TypeOK, Finish
<1>e. /\ servers'[n] = s
      /\ \A m \in Names : m # n => servers'[m] = servers[m]
      /\ \A m \in Names : m # n /\ servers[m] # None =>
           servers[m] \in Servers /\ servers[m] # s /\ srv'[servers[m]] = srv[servers[m]]
  <2>1. /\ servers'[n] = s
        /\ \A m \in Names : m # n => servers'[m] = servers[m]
    BY <1>0, <1>a DEF TypeOK
  <2>2. ASSUME NEW m \in Names, m # n, servers[m] # None
        PROVE  servers[m] \in Servers /\ servers[m] # s /\ servers[m] # servers[n]
    BY <1>0, <1>a, <2>2 DEF TypeOK
  <2> QED BY <1>a, <2>1, <2>2
<1>1. TypeOK'
  <2>1. srv' \in [Servers -> Connections]
    <3>1. srv \in [Servers -> Connections]
      BY <1>0 DEF TypeOK, Connections
    <3>2. \A r \in Servers : Over(r) \in Connections /\ [srv[r] EXCEPT !.st = "starting"] \in Connections
      BY <3>1 DEF Over, Free, Connections, Registered
    <3> QED BY <1>a, <3>1, <3>2
  <2>2. conn' \in [Connectors -> ConnectorStates]
    <3>1. conn \in [Connectors -> ConnectorStates]
      BY <1>0 DEF TypeOK, ConnectorStates
    <3>2. [conn[c] EXCEPT !.pc = IF c \in Names THEN "done" ELSE "after"] \in ConnectorStates
      BY <3>1 DEF ConnectorStates
    <3> QED BY <1>a, <3>1, <3>2 DEF Finish
  <2>3. \A m \in Names : servers'[m] # None => srv'[servers'[m]].name = m
    BY <1>0, <1>a DEF TypeOK
  <2> QED BY <1>0, <1>a, <2>1, <2>2, <2>3 DEF TypeOK, Connections, ConnectorStates
<1>2. RegistryExact'
  <2>1. ASSUME NEW r \in Servers
        PROVE  /\ srv'[r].st \in Registered <=> srv[r].st \in Registered
               /\ srv[r].st \in Registered => srv'[r].name = srv[r].name
    BY <1>a, <1>c DEF Registered
  <2> QED BY <1>0, <1>a, <2>1 DEF RegistryExact, TypeOK
<1>3. ConnectorsOwn'
  <2>1. ASSUME NEW k \in Connectors, conn'[k].pc \in {"built", "registered"}
        PROVE  /\ k # c /\ conn'[k] = conn[k] /\ conn[k].srv \in Servers
               /\ srv'[conn[k].srv] = srv[conn[k].srv]
    <3>1. k # c /\ conn'[k] = conn[k]
      BY <1>d, <2>1
    <3>2. conn[k].srv \in Servers /\ conn[k].srv # s /\ srv[conn[k].srv].st = conn[k].pc
      BY <1>0, <1>a, <2>1, <3>1 DEF ConnectorsOwn
    <3> QED BY <1>c, <2>1, <3>1, <3>2
  <2>2. \A k \in Connectors : conn'[k].name = conn[k].name /\ conn'[k].cfg = conn[k].cfg
    BY <1>a, <1>d
  <2>3. \A k \in Connectors : conn'[k].pc \in {"factory", "built", "registered", "after"} =>
                               conn[k].pc \in {"factory", "built", "registered", "after"}
    BY <1>a, <1>d
  <2>4. \A k \in Names : conn'[k].pc \in {"factory", "built", "registered"} =>
                          conn[k].pc \in {"factory", "built", "registered"}
    BY <1>a, <1>d, NoneOutside
  <2> QED BY <1>0, <2>1, <2>2, <2>3, <2>4, NoneOutside DEF ConnectorsOwn
<1>4. MapLaunched'
  <2>1. ASSUME NEW m \in Names, servers'[m] # None PROVE srv'[servers'[m]].st \in Launched
    BY <1>0, <1>c, <1>e, <2>1 DEF MapLaunched, Launched
  <2>2. ASSUME NEW a \in Calls, old[a] # None
        PROVE  /\ srv'[old[a]].st \in Launched
               /\ conn'[a].pc \in {"factory", "built", "registered", "after"} =>
                    srv'[old[a]].name = conn'[a].name
    <3>1. old[a] \in Servers /\ Pinned(old[a]) /\ srv[old[a]].st \in Launched
      BY <1>0, <2>2 DEF TypeOK, Pinned, MapLaunched
    <3>2. srv'[old[a]].st \in Launched /\ srv'[old[a]].name = srv[old[a]].name
      BY <1>a, <1>c, <3>1 DEF Launched
    <3>3. conn'[a].name = conn[a].name
      BY <1>a, <1>d, NoneOutside
    <3>4. conn'[a].pc \in {"factory", "built", "registered", "after"} =>
          conn[a].pc \in {"factory", "built", "registered", "after"}
      BY <1>a, <1>d, NoneOutside
    <3> QED BY <1>0, <2>2, <3>2, <3>3, <3>4 DEF MapLaunched
  <2> QED BY <1>a, <2>1, <2>2 DEF MapLaunched
<1>5. NoneForgotten'
  <2>1. ASSUME NEW r \in Servers, srv'[r].st \in {"starting", "running", "unlisted"}, ~srv'[r].shutdown
        PROVE  servers'[srv'[r].name] = r
    <3>1. CASE r = s
      BY <1>c, <1>e, <3>1
    <3>2. CASE r # s
      <4>1. srv'[r] = srv[r]
        BY <1>c, <2>1, <3>2
      <4>2. servers[srv[r].name] = r /\ srv[r].name \in Names
        BY <1>0, <2>1, <4>1 DEF NoneForgotten, HasSession, RegistryExact, Registered
      <4>3. srv[r].name # n
        BY <1>b, <2>1, <4>1, <4>2, NoneOutside
      <4> QED BY <1>e, <4>1, <4>2, <4>3
    <3> QED BY <3>1, <3>2
  <2> QED BY <2>1 DEF NoneForgotten, HasSession
<1>6. ReloadJoins'
  BY <1>0 DEF Launch, Finish, ReloadJoins
<1>7. FollowsFile'
  <2>1. \A m \in Names : m # n => (Applied(m)' <=> Applied(m))
    <3> TAKE m \in Names
    <3> HAVE m # n
    <3>1. UNCHANGED <<file, lost>> /\ servers'[m] = servers[m]
      BY <1>a, <1>e
    <3>2. servers[m] # None => srv'[servers[m]] = srv[servers[m]]
      BY <1>e
    <3> QED BY <3>1, <3>2 DEF Applied
  <2>2. c \in Names => c = n /\ reload \in {"boot", "connecting"}
    BY <1>0, <1>a DEF ConnectorsOwn, ReloadJoins, TypeOK
  <2>3. CASE c \in Names
    <3>1. NoneAfter' <=> NoneAfter
      BY <1>d, <2>3, NoneOutside DEF NoneAfter
    <3>2. conn[n].cfg = file[n] => Applied(n)'
      BY <1>a, <1>e, <2>2, <2>3, NoneOutside DEF Applied
    <3>3. conn'[n].pc = "done" /\ conn[n].pc = "registered"
      BY <1>a, <1>d, <2>2, <2>3
    <3>4. \A m \in Names : m # n => conn'[m] = conn[m] /\ servers'[m] = servers[m]
      BY <1>d, <1>e, <2>2, NoneOutside
    <3> QED BY <1>0, <1>a, <2>1, <2>2, <2>3, <3>1, <3>2, <3>3, <3>4 DEF FollowsFile, Applying
  <2>4. CASE c \notin Names
    <3>1. c \in Calls /\ ~NoneAfter'
      BY <1>d, <2>4 DEF NoneAfter, Connectors
    <3>2. \A m \in Names : conn'[m] = conn[m]
      BY <1>d, <2>4, NoneOutside
    <3> QED BY <1>0, <1>a, <3>1, <3>2 DEF FollowsFile
  <2> QED BY <2>3, <2>4
<1> QED BY <1>1, <1>2, <1>3, <1>4, <1>5, <1>6, <1>7 DEF McpInv

\* SetServer remembers the connection its name has.
LEMMA InvSetServer ==
  ASSUME McpInv, NEW b \in Calls, NEW m \in Names, SetServer(b, m)
  PROVE  McpInv'
<1>0. /\ TypeOK /\ RegistryExact /\ ConnectorsOwn /\ MapLaunched /\ NoneForgotten
      /\ ReloadJoins /\ FollowsFile
  BY DEF McpInv
<1>1. TypeOK'
  BY <1>0, NoneOutside, McpAssumption DEF SetServer, TypeOK, Config
<1>2. RegistryExact'
  BY <1>0 DEF SetServer, RegistryExact
<1>3. ConnectorsOwn'
  <2>1. /\ conn' = [conn EXCEPT ![b] = [pc |-> "factory", name |-> m, cfg |-> edits + 1, srv |-> None]]
        /\ srv' = srv /\ edits + 1 \in Config
    BY <1>0, McpAssumption DEF SetServer, TypeOK, Config
  <2> QED BY <1>0, <2>1, NoneOutside DEF ConnectorsOwn
<1>4. MapLaunched'
  BY <1>0 DEF SetServer, MapLaunched, TypeOK
<1>5. NoneForgotten'
  BY <1>0 DEF SetServer, NoneForgotten, HasSession
<1>6. ReloadJoins'
  BY <1>0, NoneOutside DEF SetServer, ReloadJoins
<1>7. FollowsFile'
  BY <1>0, NoneOutside DEF SetServer, FollowsFile, Applied, Applying, NoneAfter
<1> QED BY <1>1, <1>2, <1>3, <1>4, <1>5, <1>6, <1>7 DEF McpInv

\* What SetServer lets go of is over.
LEMMA InvSaveConfig ==
  ASSUME McpInv, NEW b \in Calls, SaveConfig(b)
  PROVE  McpInv'
<1>0. /\ TypeOK /\ RegistryExact /\ ConnectorsOwn /\ MapLaunched /\ NoneForgotten
      /\ ReloadJoins /\ FollowsFile
  BY DEF McpInv
<1>a. /\ conn[b].pc = "after"
      /\ \/ Write(conn[b].name, conn[b].cfg)
         \/ UNCHANGED <<file, events>> /\ missed' = TRUE
      /\ srv' = [s \in Servers |-> IF s = old[b] /\ srv[s].st = "gone"
                                      /\ servers[conn[b].name] # s
                                      /\ \A a \in Calls \ {b} : old[a] # s THEN Free
                                   ELSE IF s = old[b] THEN [srv[s] EXCEPT !.shutdown = TRUE]
                                   ELSE srv[s]]
      /\ old' = [old EXCEPT ![b] = None]
      /\ conn' = [conn EXCEPT ![b] = [NoConn EXCEPT !.pc = "done"]]
      /\ UNCHANGED <<edits, servers, registry, reload, snapshot, drop, lost>>
  BY DEF SaveConfig
<1>b. conn[b].name \in Names /\ conn[b].cfg \in Config
  BY <1>0, <1>a, NoneOutside DEF ConnectorsOwn
<1>c. \A s \in Servers :
        \/ /\ srv'[s].st = srv[s].st /\ srv'[s].name = srv[s].name
           /\ srv'[s].cfg = srv[s].cfg
        \/ /\ srv[s].st = "gone" /\ srv'[s] = Free /\ s = old[b]
           /\ servers[conn[b].name] # s /\ \A a \in Calls \ {b} : old[a] # s
  <2>1. srv \in [Servers -> Connections]
    BY <1>0 DEF TypeOK, Connections
  <2> QED BY <1>a, <2>1 DEF Connections
<1>1. TypeOK'
  <2>1. srv' \in [Servers -> Connections]
    <3>1. srv \in [Servers -> Connections]
      BY <1>0 DEF TypeOK, Connections
    <3>2. Free \in Connections /\ \A s \in Servers : [srv[s] EXCEPT !.shutdown = TRUE] \in Connections
      BY <3>1 DEF Free, Connections
    <3> QED BY <1>a, <3>1, <3>2
  <2>2. conn' \in [Connectors -> ConnectorStates]
    BY <1>0, <1>a DEF TypeOK, ConnectorStates, NoConn
  <2>3. \A n \in Names : servers[n] # None => srv'[servers[n]].name = n
    <3>1. ASSUME NEW n \in Names, servers[n] # None
          PROVE  /\ servers[n] \in Servers /\ srv[servers[n]].name = n
                 /\ servers[n] = old[b] => n = conn[b].name
      BY <1>0, <1>a, <3>1 DEF TypeOK, MapLaunched
    <3> QED BY <1>c, <3>1
  <2>4. file' \in [Names -> Config \cup {None}] /\ events' \in Nat /\ missed' \in BOOLEAN
    <3>1. CASE Write(conn[b].name, conn[b].cfg)
      BY <1>0, <1>b, <3>1 DEF TypeOK, Write
    <3>2. CASE UNCHANGED <<file, events>> /\ missed' = TRUE
      BY <1>0, <3>2 DEF TypeOK
    <3> QED BY <1>a, <3>1, <3>2
  <2> QED BY <1>0, <1>a, <2>1, <2>2, <2>3, <2>4 DEF TypeOK, Connections, ConnectorStates
<1>2. RegistryExact'
  BY <1>0 DEF SaveConfig, Free, RegistryExact, TypeOK, Registered
<1>3. ConnectorsOwn'
  BY <1>0 DEF SaveConfig, NoConn, Free, ConnectorsOwn, TypeOK
<1>4. MapLaunched'
  <2>1. ASSUME NEW n \in Names, servers[n] # None PROVE srv'[servers[n]].st \in Launched
    <3>1. servers[n] \in Servers /\ srv[servers[n]].st \in Launched /\ srv[servers[n]].name = n
      BY <1>0, <2>1 DEF TypeOK, MapLaunched
    <3>2. servers[n] = old[b] => n = conn[b].name
      BY <1>0, <1>a, <3>1, NoneOutside DEF MapLaunched
    <3> QED BY <1>c, <3>1, <3>2
  <2>2. ASSUME NEW a \in Calls, old'[a] # None 
        PROVE  /\ srv'[old'[a]].st \in Launched
               /\ conn'[a].pc \in {"factory", "built", "registered", "after"} =>
                    srv'[old'[a]].name = conn'[a].name
    <3>1. a # b /\ old'[a] = old[a] /\ old[a] \in Servers /\ srv[old[a]].st \in Launched
      BY <1>0, <1>a, <2>2 DEF TypeOK, MapLaunched
    <3>3. srv'[old[a]].st = srv[old[a]].st /\ srv'[old[a]].name = srv[old[a]].name
      BY <1>c, <3>1
    <3>2. conn'[a] = conn[a]
      BY <1>a, <3>1
    <3> QED BY <1>0, <2>2, <3>1, <3>2, <3>3 DEF MapLaunched
  <2> QED BY <1>a, <2>1, <2>2 DEF MapLaunched
<1>5. NoneForgotten'
  BY <1>0 DEF SaveConfig, Free, NoneForgotten, HasSession
<1>6. ReloadJoins'
  BY <1>0 DEF SaveConfig, ReloadJoins
<1>7. FollowsFile'
  BY DEF SaveConfig, Write, FollowsFile
<1> QED BY <1>1, <1>2, <1>3, <1>4, <1>5, <1>6, <1>7 DEF McpInv

\* A connection that runs stays registered.
LEMMA InvRunStarts ==
  ASSUME McpInv, NEW r \in Servers, RunStarts(r)
  PROVE  McpInv'
<1>0. /\ TypeOK /\ RegistryExact /\ ConnectorsOwn /\ MapLaunched /\ NoneForgotten
      /\ ReloadJoins /\ FollowsFile
  BY DEF McpInv
<1>1. TypeOK'
  <2>1. srv' = [srv EXCEPT ![r].st = "running"]
    BY DEF RunStarts
  <2>3. srv \in [Servers -> Connections]
    BY <1>0 DEF TypeOK, Connections
  <2>2. srv' \in [Servers -> Connections]
    BY <2>1, <2>3 DEF Connections, Registered
  <2> QED BY <1>0, <2>2 DEF TypeOK, Connections, RunStarts, fileVars, connVars
<1>2. RegistryExact'
  BY <1>0 DEF RunStarts, RegistryExact, Registered
<1>3. ConnectorsOwn'
  BY <1>0 DEF RunStarts, ConnectorsOwn, connVars
<1>4. MapLaunched'
  BY <1>0 DEF RunStarts, MapLaunched, Launched, connVars
<1>5. NoneForgotten'
  BY <1>0 DEF RunStarts, NoneForgotten, HasSession
<1>6. ReloadJoins'
  BY <1>0 DEF RunStarts, ReloadJoins, connVars
<1>7. FollowsFile'
  BY <1>0 DEF RunStarts, FollowsFile, Applied, Applying, NoneAfter, fileVars, connVars
<1> QED BY <1>1, <1>2, <1>3, <1>4, <1>5, <1>6, <1>7 DEF McpInv

\* A connection that cannot run is stopped, and still registered.
LEMMA InvRunFails ==
  ASSUME McpInv, NEW r \in Servers, RunFails(r)
  PROVE  McpInv'
<1>0. /\ TypeOK /\ RegistryExact /\ ConnectorsOwn /\ MapLaunched /\ NoneForgotten
      /\ ReloadJoins /\ FollowsFile
  BY DEF McpInv
<1>1. TypeOK'
  <2>1. srv' = [srv EXCEPT ![r].st = "stopped"]
    BY DEF RunFails
  <2>3. srv \in [Servers -> Connections]
    BY <1>0 DEF TypeOK, Connections
  <2>2. srv' \in [Servers -> Connections]
    BY <2>1, <2>3 DEF Connections, Registered
  <2> QED BY <1>0, <2>2 DEF TypeOK, Connections, RunFails, fileVars, connVars
<1>2. RegistryExact'
  BY <1>0 DEF RunFails, RegistryExact, Registered
<1>3. ConnectorsOwn'
  BY <1>0 DEF RunFails, ConnectorsOwn, connVars
<1>4. MapLaunched'
  BY <1>0 DEF RunFails, MapLaunched, Launched, connVars
<1>5. NoneForgotten'
  BY <1>0 DEF RunFails, NoneForgotten, HasSession
<1>6. ReloadJoins'
  BY <1>0 DEF RunFails, ReloadJoins, connVars
<1>7. FollowsFile'
  BY <1>0 DEF RunFails, FollowsFile, Applied, Applying, NoneAfter, fileVars, connVars
<1> QED BY <1>1, <1>2, <1>3, <1>4, <1>5, <1>6, <1>7 DEF McpInv

\* A connection whose tools cannot be listed is still registered, and in the map.
LEMMA InvListFails ==
  ASSUME McpInv, NEW r \in Servers, ListFails(r)
  PROVE  McpInv'
<1>0. /\ TypeOK /\ RegistryExact /\ ConnectorsOwn /\ MapLaunched /\ NoneForgotten
      /\ ReloadJoins /\ FollowsFile
  BY DEF McpInv
<1>1. TypeOK'
  <2>1. srv' = [srv EXCEPT ![r].st = "unlisted"]
    BY DEF ListFails
  <2>3. srv \in [Servers -> Connections]
    BY <1>0 DEF TypeOK, Connections
  <2>2. srv' \in [Servers -> Connections]
    BY <2>1, <2>3 DEF Connections, Registered
  <2> QED BY <1>0, <2>2 DEF TypeOK, Connections, ListFails, fileVars, connVars
<1>2. RegistryExact'
  BY <1>0 DEF ListFails, RegistryExact, Registered
<1>3. ConnectorsOwn'
  BY <1>0 DEF ListFails, ConnectorsOwn, connVars
<1>4. MapLaunched'
  BY <1>0 DEF ListFails, MapLaunched, Launched, connVars
<1>5. NoneForgotten'
  BY <1>0 DEF ListFails, NoneForgotten, HasSession
<1>6. ReloadJoins'
  BY <1>0 DEF ListFails, ReloadJoins, connVars
<1>7. FollowsFile'
  BY <1>0 DEF ListFails, FollowsFile, Applied, Applying, NoneAfter, fileVars, connVars
<1> QED BY <1>1, <1>2, <1>3, <1>4, <1>5, <1>6, <1>7 DEF McpInv

\* A session that ended is still registered.
LEMMA InvSessionEnds ==
  ASSUME McpInv, NEW r \in Servers, SessionEnds(r)
  PROVE  McpInv'
<1>0. /\ TypeOK /\ RegistryExact /\ ConnectorsOwn /\ MapLaunched /\ NoneForgotten
      /\ ReloadJoins /\ FollowsFile
  BY DEF McpInv
<1>1. TypeOK'
  <2>1. srv' = [srv EXCEPT ![r].st = "stopped"]
    BY DEF SessionEnds
  <2>3. srv \in [Servers -> Connections]
    BY <1>0 DEF TypeOK, Connections
  <2>2. srv' \in [Servers -> Connections]
    BY <2>1, <2>3 DEF Connections, Registered
  <2> QED BY <1>0, <2>2 DEF TypeOK, Connections, SessionEnds, fileVars, connVars
<1>2. RegistryExact'
  BY <1>0 DEF SessionEnds, RegistryExact, Registered
<1>3. ConnectorsOwn'
  BY <1>0 DEF SessionEnds, ConnectorsOwn, connVars
<1>4. MapLaunched'
  BY <1>0 DEF SessionEnds, MapLaunched, Launched, connVars
<1>5. NoneForgotten'
  BY <1>0 DEF SessionEnds, NoneForgotten, HasSession
<1>6. ReloadJoins'
  BY <1>0 DEF SessionEnds, ReloadJoins, connVars
<1>7. FollowsFile'
  BY <1>0 DEF SessionEnds, FollowsFile, Applied, Applying, NoneAfter, fileVars, connVars
<1> QED BY <1>1, <1>2, <1>3, <1>4, <1>5, <1>6, <1>7 DEF McpInv

\* A goroutine that ends unregisters itself, and nobody else.
LEMMA InvDisconnect ==
  ASSUME McpInv, NEW r \in Servers, Disconnect(r)
  PROVE  McpInv'
<1>0. /\ TypeOK /\ RegistryExact /\ ConnectorsOwn /\ MapLaunched /\ NoneForgotten
      /\ ReloadJoins /\ FollowsFile
  BY DEF McpInv
<1>a. /\ srv[r].st \in {"stopped", "unlisted"}
      /\ registry' = [registry EXCEPT ![srv[r].name] = None]
      /\ srv' = [srv EXCEPT ![r] = IF srv[r].st = "unlisted" THEN [srv[r] EXCEPT !.st = "leaked"]
                                   ELSE IF servers[srv[r].name] = r
                                   THEN [srv[r] EXCEPT !.st = "gone"] ELSE Over(r)]
      /\ UNCHANGED <<file, events, edits, servers, conn, old, reload, snapshot, drop, missed, lost>>
  BY DEF Disconnect, fileVars, connVars
<1>1. TypeOK'
  <2>1. srv' \in [Servers -> Connections]
    <3>1. srv \in [Servers -> Connections]
      BY <1>0 DEF TypeOK, Connections
    <3>2. /\ Over(r) \in Connections /\ [srv[r] EXCEPT !.st = "gone"] \in Connections
          /\ [srv[r] EXCEPT !.st = "leaked"] \in Connections
      BY <3>1 DEF Over, Free, Connections
    <3> QED BY <1>a, <3>1, <3>2
  <2>2. \A n \in Names : servers[n] # None => srv'[servers[n]].name = n
    <3>1. ASSUME NEW n \in Names, servers[n] # None, servers[n] # r PROVE srv'[servers[n]].name = n
      BY <1>0, <1>a, <3>1 DEF TypeOK
    <3>2. ASSUME NEW n \in Names, servers[n] = r PROVE srv'[r].name = n
      <4>1. srv[r].name = n /\ srv \in [Servers -> Connections]
        BY <1>0, <3>2, NoneOutside DEF TypeOK, Connections
      <4> QED BY <1>a, <3>2, <4>1 DEF Connections
    <3> QED BY <3>1, <3>2
  <2> QED BY <1>0, <1>a, <2>1, <2>2 DEF TypeOK, Connections
<1>2. RegistryExact'
  BY <1>0 DEF Disconnect, Over, Free, RegistryExact, TypeOK, Registered
<1>3. ConnectorsOwn'
  BY <1>0 DEF Disconnect, ConnectorsOwn, connVars
<1>4. MapLaunched'
  BY <1>0 DEF Disconnect, Over, Pinned, MapLaunched, TypeOK, Launched, connVars
<1>5. NoneForgotten'
  BY <1>0 DEF Disconnect, Over, Free, NoneForgotten, HasSession
<1>6. ReloadJoins'
  BY <1>0 DEF Disconnect, ReloadJoins, connVars
<1>7. FollowsFile'
  BY <1>0 DEF Disconnect, FollowsFile, TypeOK, Applied, Applying, NoneAfter, fileVars, connVars
<1> QED BY <1>1, <1>2, <1>3, <1>4, <1>5, <1>6, <1>7 DEF McpInv

\* Every step of the service, the registry, the sentinel and the goroutines of the
\* connections preserves the invariant.
LEMMA InvPreserved == McpInv /\ [Next]_vars => McpInv'
<1> SUFFICES ASSUME McpInv, [Next]_vars PROVE McpInv'
  OBVIOUS
<1>1. CASE UNCHANGED vars
  BY <1>1
     DEF vars, fileVars, connVars, McpInv, TypeOK, RegistryExact, ConnectorsOwn, MapLaunched,
              NoneForgotten, HasSession, ReloadJoins, FollowsFile, Applied, Applying, NoneAfter
<1>2. ASSUME NEW m \in Names, Edit(m) PROVE McpInv'
  BY <1>2, InvEdit
<1>3. CASE Notice
  BY <1>3, InvNotice
<1>4. CASE Reload
  BY <1>4, InvReadConfig, InvReadFails, InvApply, InvAllConnected DEF Reload
<1>5. ASSUME NEW c \in Connectors, ConnectServer(c) PROVE McpInv'
  BY <1>5, InvFactory, InvFactoryFails, InvConnect, InvConnectRefused, InvLaunch
     DEF ConnectServer
<1>6. ASSUME NEW b \in Calls, SaveConfig(b) \/ \E m \in Names : SetServer(b, m) PROVE McpInv'
  BY <1>6, InvSaveConfig, InvSetServer
<1>7. ASSUME NEW r \in Servers, Connection(r) PROVE McpInv'
  BY <1>7, InvRunStarts, InvRunFails, InvListFails, InvSessionEnds, InvDisconnect DEF Connection
<1> QED BY <1>1, <1>2, <1>3, <1>4, <1>5, <1>6, <1>7 DEF Next

\* NewService loads the file, and has nothing connected.
LEMMA InvInitially == Init => McpInv
<1> SUFFICES ASSUME Init PROVE McpInv
  OBVIOUS
<1>0. 0 \in Config
  BY McpAssumption DEF Config
<1>a. \A k \in Connectors :
          \/ k \in Names /\ file[k] = 0
             /\ conn[k] = [pc |-> "factory", name |-> k, cfg |-> file[k], srv |-> None]
          \/ conn[k] = NoConn
  BY DEF Init
<1>b. \A k \in Connectors :
          \/ conn[k].pc = "idle"
          \/ conn[k].pc = "factory" /\ k \in Names /\ conn[k].name = k /\ conn[k].cfg = 0
  <2> SUFFICES ASSUME NEW k \in Connectors
               PROVE  \/ conn[k].pc = "idle"
                      \/ conn[k].pc = "factory" /\ k \in Names /\ conn[k].name = k
                         /\ conn[k].cfg = 0
    OBVIOUS
  <2>1. CASE k \in Names /\ file[k] = 0
             /\ conn[k] = [pc |-> "factory", name |-> k, cfg |-> file[k], srv |-> None]
    BY <2>1
  <2>2. CASE conn[k] = NoConn
    BY <2>2 DEF NoConn
  <2> QED BY <1>a, <2>1, <2>2
<1>1. TypeOK
  <2>1. conn \in [Connectors -> [pc : {"idle", "factory", "built", "registered", "after", "done"},
                                 name : Names \cup {None}, cfg : Config \cup {None},
                                 srv : Servers \cup {None}]]
    <3>1. \A k \in Connectors :
             conn[k] \in [pc : {"idle", "factory", "built", "registered", "after", "done"},
                          name : Names \cup {None}, cfg : Config \cup {None},
                          srv : Servers \cup {None}]
      <4> SUFFICES ASSUME NEW k \in Connectors
                   PROVE  conn[k] \in [pc : {"idle", "factory", "built", "registered",
                                            "after", "done"},
                                      name : Names \cup {None}, cfg : Config \cup {None},
                                      srv : Servers \cup {None}]
        OBVIOUS
      <4>1. CASE k \in Names /\ file[k] = 0
                 /\ conn[k] = [pc |-> "factory", name |-> k, cfg |-> file[k], srv |-> None]
        BY <1>0, <4>1
      <4>2. CASE conn[k] = NoConn
        BY <4>2 DEF NoConn
      <4> QED BY <1>a, <4>1, <4>2
    <3> QED BY <3>1 DEF Init
  <2>2. srv \in [Servers -> [name : Names \cup {None}, cfg : Config \cup {None},
                            st : Registered \cup {"free", "built", "gone"},
                            shutdown : BOOLEAN]]
    BY DEF Init, Free
  <2> QED BY <1>0, <2>1, <2>2 DEF Init, TypeOK
<1>2. RegistryExact /\ NoneForgotten
  BY DEF Init, RegistryExact, NoneForgotten, HasSession, Free, Registered
<1>3. ConnectorsOwn
  BY <1>0, <1>b DEF ConnectorsOwn, Connectors
<1>4. MapLaunched /\ ReloadJoins
  BY DEF Init, MapLaunched, ReloadJoins
<1>5. FollowsFile
  BY NoneOutside DEF Init, FollowsFile, Applied, Applying, NoConn
<1> QED BY <1>1, <1>2, <1>3, <1>4, <1>5 DEF McpInv

\* The invariant holds in every reachable state.
LEMMA InvHolds == Spec => []McpInv
BY InvInitially, InvPreserved, PTL DEF Spec

-----------------------------------------------------------------------------
(***************************************************************************)
(* The properties of the service                                           *)
(***************************************************************************)

\* The variables of the service and of the registry have their types.
THEOREM TypeCorrect == Spec => []TypeOK
BY InvHolds, PTL DEF McpInv

\* tools.Service knows exactly the connections whose goroutines have not ended: none
\* of them unregisters the connection that came after it.
THEOREM RegistryFollowsConnections == Spec => []RegisteredWhileAlive
<1>1. McpInv => RegisteredWhileAlive
  <2> SUFFICES ASSUME McpInv, NEW s \in Servers
               PROVE  srv[s].st \in Registered <=> \E n \in Names : registry[n] = s
    BY DEF RegisteredWhileAlive
  <2> QED BY NoneOutside DEF McpInv, RegistryExact
<1> QED BY <1>1, InvHolds, PTL

\* Neither Reload nor SetServer drops a connection from the map before it was shut
\* down or is over.
THEOREM NoConnectionForgotten == Spec => []NoneForgotten
BY InvHolds, PTL DEF McpInv

\* After a Reload, and while nothing was missed since, what is connected is what the
\* file says; the rest could not be connected.
THEOREM FileApplied == Spec => []AppliedUnlessMissed
<1>1. McpInv => AppliedUnlessMissed
  <2> SUFFICES ASSUME McpInv, Quiet, ~missed, NEW n \in Names
               PROVE  IF servers[n] # None THEN srv[servers[n]].cfg = file[n]
                      ELSE file[n] # None => lost[n] # "no"
    BY DEF AppliedUnlessMissed
  <2>1. NoneAfter /\ reload = "idle"
    BY DEF Quiet, NoneAfter
  <2>2. Applied(n)
    BY <2>1 DEF McpInv, FollowsFile
  <2> QED BY <2>2 DEF Applied
<1> QED BY <1>1, InvHolds, PTL

=============================================================================
