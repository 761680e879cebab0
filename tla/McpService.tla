----------------------------- MODULE McpService -----------------------------
(***************************************************************************)
(* mcp.Service: the connections to MCP servers, the registry of tools they *)
(* are known in (tools.Service), the file mcp.toml, and the sentinel whose *)
(* debounced action is Service.Reload.                                     *)
(*                                                                         *)
(* A connection is a goroutine that registers nothing and unregisters by   *)
(* name; what keeps it from unregistering its successor is that the name   *)
(* is refused while it is taken.  Reload and SetServer connect outside of  *)
(* the mutex and may meet.                                                 *)
(***************************************************************************)
EXTENDS Naturals, FiniteSets

CONSTANTS
  Names,      \* MCPServerIDs
  Calls,      \* calls of SetServer
  None,       \* no server, no configuration, no name
  MaxEdits,   \* bound: changes of the file, and configurations given to SetServer
  MaxServers, \* bound: connections there may be at once
  MaxLeaks    \* bound: connections whose tools cannot be listed

ASSUME McpAssumption ==
  /\ MaxEdits \in Nat /\ MaxServers \in Nat /\ MaxLeaks \in Nat
  /\ None \notin Names /\ None \notin Nat
  /\ Names \cap Calls = {}

\* A ServerGatewayConfig is known by the edit it stems from.
Config  == 0..MaxEdits
Servers == 1..MaxServers

\* Whoever runs connectServer: Reload once for each name, or a call of SetServer.
Connectors == Names \cup Calls

VARIABLES
  file,      \* mcp.toml
  servers,   \* Service.servers: a name's connection, alive or not
  registry,  \* tools.Service.servers
  srv,       \* every connection: its name, configuration and state, whether shut down
  conn,      \* connectServer: where it stands and what it connects
  old,       \* SetServer: the connection to shut down
  reload,    \* where Reload stands
  snapshot,  \* the file as Reload has read it
  events,    \* file events not yet seen by the sentinel
  drop,      \* debouncedAction.dropUpdates
  edits,     \* edits so far
  missed,    \* history: no Reload has read what was last written or could not be saved
  lost       \* history: how Reload failed to connect a name

fileVars == <<file, events, edits>>
connVars == <<conn, old>>
vars == <<fileVars, servers, registry, srv, connVars, reload, snapshot, drop, missed, lost>>

Free == [name |-> None, cfg |-> None, st |-> "free", shutdown |-> FALSE]
NoConn == [pc |-> "idle", name |-> None, cfg |-> None, srv |-> None]

\* What the registry has: before its goroutine is started, in Run, and after Run
\* has returned, with its session closed or without ("unlisted").
Registered == {"registered", "starting", "running", "stopped", "unlisted"}

\* The variables have their types, and a connection is known under its own name.
TypeOK ==
  /\ file \in [Names -> Config \cup {None}]
  /\ servers \in [Names -> Servers \cup {None}]
  /\ registry \in [Names -> Servers \cup {None}]
  /\ srv \in [Servers -> [name : Names \cup {None}, cfg : Config \cup {None},
                          st : Registered \cup {"free", "built", "gone", "leaked"},
                          shutdown : BOOLEAN]]
  /\ conn \in [Connectors -> [pc : {"idle", "factory", "built", "registered", "after", "done"},
                              name : Names \cup {None}, cfg : Config \cup {None},
                              srv : Servers \cup {None}]]
  /\ old \in [Calls -> Servers \cup {None}]
  /\ reload \in {"boot", "idle", "armed", "read", "connecting"}
  /\ snapshot \in [Names -> Config \cup {None}]
  /\ events \in Nat
  /\ drop \in BOOLEAN
  /\ edits \in Config
  /\ missed \in BOOLEAN
  /\ lost \in [Names -> {"no", "failed", "refused"}]
  /\ \A n \in Names : servers[n] # None => srv[servers[n]].name = n

\* connectServers: a connector for each name with a configuration.
Connecting(cfgs) ==
  [k \in Connectors |->
     IF k \in Names /\ cfgs[k] # None
     THEN [pc |-> "factory", name |-> k, cfg |-> cfgs[k], srv |-> None] ELSE conn[k]]

\* NewService has loaded the file.
Init ==
  /\ file \in [Names -> {0, None}]
  /\ servers = [n \in Names |-> None]
  /\ registry = [n \in Names |-> None]
  /\ srv = [s \in Servers |-> Free]
  /\ conn = [k \in Connectors |->
               IF k \in Names /\ file[k] # None
               THEN [pc |-> "factory", name |-> k, cfg |-> file[k], srv |-> None] ELSE NoConn]
  /\ old = [a \in Calls |-> None]
  /\ reload = "boot"
  /\ snapshot = [n \in Names |-> None]
  /\ events = 0
  /\ drop = FALSE
  /\ edits = 0
  /\ missed = FALSE
  /\ lost = [n \in Names |-> "no"]

-----------------------------------------------------------------------------
(***************************************************************************)
(* The file, and the sentinel                                              *)
(***************************************************************************)
\* The watcher starts when NewService has returned.
Write(n, entry) ==
  /\ file' = [file EXCEPT ![n] = entry]
  /\ events' = IF reload = "boot" THEN events ELSE events + 1
  /\ missed' = TRUE

\* An editor, or Service.DeleteServer.
Edit(n) ==
  /\ edits < MaxEdits
  /\ edits' = edits + 1
  /\ \E entry \in {edits + 1, None} : entry # file[n] /\ Write(n, entry)
  /\ UNCHANGED <<servers, registry, srv, connVars, reload, snapshot, drop, lost>>

\* debouncedAction.Do: an event is noted, or dropped until the action is over.
Notice ==
  /\ reload # "boot"
  /\ events > 0
  /\ events' = events - 1
  /\ drop' = TRUE
  /\ reload' = IF drop THEN reload ELSE "armed"
  /\ UNCHANGED <<file, edits, servers, registry, srv, connVars, snapshot, missed, lost>>

-----------------------------------------------------------------------------
(***************************************************************************)
(* Service.Reload                                                          *)
(***************************************************************************)
\* configRepo.Load, before the mutex is taken.
ReadConfig ==
  /\ reload = "armed"
  /\ snapshot' = file
  /\ reload' = "read"
  /\ missed' = FALSE
  /\ UNCHANGED <<fileVars, servers, registry, srv, connVars, drop, lost>>

ReadFails ==
  /\ reload = "armed"
  /\ reload' = "idle"
  /\ drop' = FALSE
  /\ UNCHANGED <<fileVars, servers, registry, srv, connVars, snapshot, missed, lost>>

\* A Reload that looks at the names only.
DeletedOnly == {n \in Names : servers[n] # None /\ snapshot[n] = None}

\* The names whose connections are deleted or have another configuration.
Outdated == {n \in Names : servers[n] # None /\ srv[servers[n]].cfg # snapshot[n]}

\* A place is free when its connection is over and nobody knows of it any more; one
\* whose session was left open is never over.
Pinned(s) == \E a \in Calls : old[a] = s
Over(s)   == IF srv[s].st = "leaked" THEN srv[s]
             ELSE IF Pinned(s) THEN [srv[s] EXCEPT !.st = "gone"] ELSE Free

\* A Reload that forgets the connections without shutting them down.
ForgetOutdated ==
  /\ servers' = [n \in Names |-> IF n \in Outdated THEN None ELSE servers[n]]
  /\ srv' = srv

\* They are shut down and forgotten.
ShutDownOutdated ==
  /\ servers' = [n \in Names |-> IF n \in Outdated THEN None ELSE servers[n]]
  /\ srv' = [s \in Servers |->
               IF \A n \in Outdated : servers[n] # s THEN srv[s]
               ELSE IF srv[s].st = "gone" THEN Over(s)
               ELSE [srv[s] EXCEPT !.shutdown = TRUE]]

\* All this under the mutex, where the names without a connection are gathered too.
Apply ==
  /\ reload = "read"
  /\ ShutDownOutdated
  /\ conn' = Connecting([n \in Names |-> IF servers[n] = None \/ n \in Outdated
                                         THEN snapshot[n] ELSE None])
  /\ lost' = [n \in Names |-> "no"]
  /\ reload' = "connecting"
  /\ snapshot' = [n \in Names |-> None]
  /\ UNCHANGED <<fileVars, registry, old, drop, missed>>

\* wg.Wait, and the sentinel's action is over; the watcher starts after the boot.
AllConnected ==
  /\ reload \in {"boot", "connecting"}
  /\ \A n \in Names : conn[n].pc \in {"idle", "done"}
  /\ conn' = [k \in Connectors |-> IF k \in Names THEN NoConn ELSE conn[k]]
  /\ reload' = "idle"
  /\ drop' = FALSE
  /\ UNCHANGED <<fileVars, servers, registry, srv, old, snapshot, missed, lost>>

-----------------------------------------------------------------------------
(***************************************************************************)
(* Service.connectServer                                                   *)
(***************************************************************************)
Finish(k) == [conn EXCEPT ![k].pc = IF k \in Names THEN "done" ELSE "after"]
Fail(k)   == [conn EXCEPT ![k] = [NoConn EXCEPT !.pc = "done"]]

Lost(k, how) == IF k \in Names THEN [lost EXCEPT ![k] = how] ELSE lost

\* NewMCPServer: a session is opened, asked who it is and closed again.
Factory(k) ==
  /\ conn[k].pc = "factory"
  /\ \E s \in Servers :
       /\ srv[s].st = "free" /\ \A r \in 1..s - 1 : srv[r].st # "free"
       /\ srv' = [srv EXCEPT ![s] = [name |-> conn[k].name, cfg |-> conn[k].cfg,
                                     st |-> "built", shutdown |-> FALSE]]
       /\ conn' = [conn EXCEPT ![k].pc = "built", ![k].srv = s]
  /\ UNCHANGED <<fileVars, servers, registry, old, reload, snapshot, drop, missed, lost>>

\* It cannot be reached, its configuration is wrong, or ten minutes are over.
FactoryFails(k) ==
  /\ conn[k].pc = "factory"
  /\ conn' = Fail(k)
  /\ lost' = Lost(k, "failed")
  /\ UNCHANGED <<fileVars, servers, registry, srv, old, reload, snapshot, drop, missed>>

\* A registry that lets a connection take the place of another.
ConnectOver(k) ==
  /\ conn[k].pc = "built"
  /\ registry' = [registry EXCEPT ![conn[k].name] = conn[k].srv]
  /\ srv' = [srv EXCEPT ![conn[k].srv].st = "registered"]
  /\ conn' = [conn EXCEPT ![k].pc = "registered"]
  /\ UNCHANGED <<fileVars, servers, old, reload, snapshot, drop, missed, lost>>

\* tools.Service.Connect
Connect(k) ==
  /\ conn[k].pc = "built"
  /\ registry[conn[k].name] = None
  /\ registry' = [registry EXCEPT ![conn[k].name] = conn[k].srv]
  /\ srv' = [srv EXCEPT ![conn[k].srv].st = "registered"]
  /\ conn' = [conn EXCEPT ![k].pc = "registered"]
  /\ UNCHANGED <<fileVars, servers, old, reload, snapshot, drop, missed, lost>>

\* "already connected": also while a connection that was shut down still closes.
ConnectRefused(k) ==
  /\ conn[k].pc = "built"
  /\ registry[conn[k].name] # None
  /\ srv' = [srv EXCEPT ![conn[k].srv] = Free]
  /\ conn' = Fail(k)
  /\ lost' = Lost(k, "refused")
  /\ UNCHANGED <<fileVars, servers, registry, old, reload, snapshot, drop, missed>>

\* Under the mutex the connection is put into the map and its goroutine started.
Launch(k) ==
  /\ conn[k].pc = "registered"
  /\ servers' = [servers EXCEPT ![conn[k].name] = conn[k].srv]
  /\ LET before == servers[conn[k].name]
     IN  srv' = [s \in Servers |-> IF s = conn[k].srv THEN [srv[s] EXCEPT !.st = "starting"]
                                   ELSE IF s = before THEN Over(s) ELSE srv[s]]
  /\ conn' = Finish(k)
  /\ UNCHANGED <<fileVars, registry, old, reload, snapshot, drop, missed, lost>>

-----------------------------------------------------------------------------
(***************************************************************************)
(* Service.SetServer                                                       *)
(***************************************************************************)

\* The connection the name has is looked up under the mutex.
SetServer(a, n) ==
  /\ reload # "boot"
  /\ conn[a].pc = "idle"
  /\ edits < MaxEdits
  /\ edits' = edits + 1
  /\ old' = [old EXCEPT ![a] = servers[n]]
  /\ conn' = [conn EXCEPT ![a] = [pc |-> "factory", name |-> n, cfg |-> edits + 1,
                                  srv |-> None]]
  /\ UNCHANGED <<file, events, servers, registry, srv, reload, snapshot, drop, missed, lost>>

\* The name was free, so the connection it had is over: shutting it down only lets
\* it be collected.  The configuration is saved, or that fails.
SaveConfig(a) ==
  /\ conn[a].pc = "after"
  /\ \/ Write(conn[a].name, conn[a].cfg)
     \/ UNCHANGED <<file, events>> /\ missed' = TRUE
  /\ srv' = [s \in Servers |-> IF s = old[a] /\ srv[s].st = "gone"
                                  /\ servers[conn[a].name] # s
                                  /\ \A b \in Calls \ {a} : old[b] # s THEN Free
                               ELSE IF s = old[a] THEN [srv[s] EXCEPT !.shutdown = TRUE]
                               ELSE srv[s]]
  /\ old' = [old EXCEPT ![a] = None]
  /\ conn' = [conn EXCEPT ![a] = [NoConn EXCEPT !.pc = "done"]]
  /\ UNCHANGED <<edits, servers, registry, reload, snapshot, drop, lost>>

-----------------------------------------------------------------------------
(***************************************************************************)
(* The goroutine of a connection                                           *)
(***************************************************************************)

\* Run: the session is open and its tools are listed.
RunStarts(s) ==
  /\ srv[s].st = "starting"
  /\ srv' = [srv EXCEPT ![s].st = "running"]
  /\ UNCHANGED <<fileVars, servers, registry, connVars, reload, snapshot, drop, missed, lost>>

\* The session cannot be opened.
RunFails(s) ==
  /\ srv[s].st = "starting"
  /\ srv' = [srv EXCEPT ![s].st = "stopped"]
  /\ UNCHANGED <<fileVars, servers, registry, connVars, reload, snapshot, drop, missed, lost>>

\* The session is open and its tools cannot be listed: Run returns its error and
\* leaves the session, before there is anyone who would close it on a shutdown.
ListFails(s) ==
  /\ srv[s].st = "starting"
  /\ Cardinality({t \in Servers : srv[t].st \in {"unlisted", "leaked"}}) < MaxLeaks
  /\ srv' = [srv EXCEPT ![s].st = "unlisted"]
  /\ UNCHANGED <<fileVars, servers, registry, connVars, reload, snapshot, drop, missed, lost>>

\* A connection that nothing but the other side can end.
SessionBreaks(s) ==
  /\ srv[s].st = "running" /\ ~srv[s].shutdown
  /\ srv' = [srv EXCEPT ![s].st = "stopped"]
  /\ UNCHANGED <<fileVars, servers, registry, connVars, reload, snapshot, drop, missed, lost>>

\* sess.Wait returns: the other side or a failed ping ended the session, or a
\* shutdown closed it.
SessionEnds(s) ==
  /\ srv[s].st = "running"
  /\ srv' = [srv EXCEPT ![s].st = "stopped"]
  /\ UNCHANGED <<fileVars, servers, registry, connVars, reload, snapshot, drop, missed, lost>>

\* tools.Service.Disconnect, by name.
Disconnect(s) ==
  /\ srv[s].st \in {"stopped", "unlisted"}
  /\ registry' = [registry EXCEPT ![srv[s].name] = None]
  /\ srv' = [srv EXCEPT ![s] = IF srv[s].st = "unlisted" THEN [@ EXCEPT !.st = "leaked"]
                               ELSE IF servers[srv[s].name] = s
                               THEN [@ EXCEPT !.st = "gone"] ELSE Over(s)]
  /\ UNCHANGED <<fileVars, servers, connVars, reload, snapshot, drop, missed, lost>>

-----------------------------------------------------------------------------
ConnectServer(k) ==
  \/ Factory(k) \/ FactoryFails(k) \/ Connect(k) \/ ConnectRefused(k) \/ Launch(k)

Reload == ReadConfig \/ ReadFails \/ Apply \/ AllConnected

Connection(s) ==
  RunStarts(s) \/ RunFails(s) \/ ListFails(s) \/ SessionEnds(s) \/ Disconnect(s)

Next ==
  \/ \E n \in Names : Edit(n)
  \/ Notice \/ Reload
  \/ \E k \in Connectors : ConnectServer(k)
  \/ \E a \in Calls : SaveConfig(a) \/ \E n \in Names : SetServer(a, n)
  \/ \E s \in Servers : Connection(s)

Spec == Init /\ [][Next]_vars

(***************************************************************************)
(* The factory has ten minutes; a session that is closed ends.  Run opens  *)
(* its session without a deadline, so that nothing is assumed of it.       *)
(***************************************************************************)
FairSpec ==
  /\ Spec
  /\ WF_vars(Reload)
  /\ WF_vars(\E n \in Names : ConnectServer(n))
  /\ WF_vars(\E s \in Servers : \/ Disconnect(s)
                                \/ srv[s].shutdown /\ SessionEnds(s))

-----------------------------------------------------------------------------
(***************************************************************************)
(* Properties                                                              *)
(***************************************************************************)

\* A name leads to a connection exactly as long as its goroutine has not said
\* otherwise: a goroutine that ends never unregisters the one that came after it
\* (connectServer, tools.Service.Connect and Disconnect).
RegisteredWhileAlive ==
  \A s \in Servers : srv[s].st \in Registered <=> \E n \in Names : registry[n] = s

\* A session that is open, or is being opened, belongs to a connection that is in the
\* map, where Reload finds it, or was shut down: none runs on behind the service's
\* back, and a name has at most one.  The exception is the code's: a session whose
\* tools could not be listed is left open (mcp.go:214), and nothing ever closes it.
HasSession == {"starting", "running", "unlisted", "leaked"}

NoneForgotten ==
  \A s \in Servers : srv[s].st \in HasSession /\ ~srv[s].shutdown =>
                     servers[srv[s].name] = s \/ srv[s].st = "leaked"

Quiet == events = 0 /\ reload = "idle" /\ \A a \in Calls : conn[a].pc \in {"idle", "done"}

\* When all is quiet what is connected is what mcp.toml says, and what it says and
\* is not connected could not be, unless the last change was dropped by the sentinel
\* unread, could not be read or not be saved (Service.Reload, SetServer).
AppliedUnlessMissed ==
  Quiet /\ ~missed =>
    \A n \in Names : IF servers[n] # None THEN srv[servers[n]].cfg = file[n]
                     ELSE file[n] # None => lost[n] # "no"

\* Reload ends whatever the servers do, and the tools of a server that was shut
\* down while it ran are unregistered (connectServers, mcpServer.Shutdown).
ReloadAndShutdownEnd ==
  /\ (reload \in {"armed", "read", "connecting"}) ~> (reload = "idle")
  /\ \A s \in Servers : (srv[s].st = "running" /\ srv[s].shutdown) ~>
                        (\A n \in Names : registry[n] # s)
=============================================================================
