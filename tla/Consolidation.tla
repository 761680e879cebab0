---------------------------- MODULE Consolidation ----------------------------
(***************************************************************************)
(* The consolidation of the agents' memory: once a day for every agent     *)
(* that has one, and at any time for one agent through the API, while the  *)
(* configuration is reloaded and agents come and go.                       *)
(*                                                                         *)
(* A consolidation is an agent loop of its own. It takes the model and the *)
(* instruction under the read lock that a reload takes for writing; the    *)
(* daily one goes through a listing of the agents taken at its start.      *)
(***************************************************************************)
EXTENDS Naturals, FiniteSets

CONSTANTS
  Agents,      \* names of agents
  Configs,     \* the [consolidation] sections that memory.toml may hold
  Calls,       \* requests of the API to consolidate an agent's memory
  MaxDays,     \* bound: days
  MaxReloads,  \* bound: reloads
  MaxChanges,  \* bound: agents created, changed or deleted
  Nil

ASSUME ConsolidationAssumption ==
  /\ MaxDays \in Nat /\ MaxReloads \in Nat /\ MaxChanges \in Nat
  /\ Nil \notin Configs \cup Agents /\ "daily" \notin Calls
  /\ Nil \notin {"model", "instruction", "enabled"} \X Configs

Runs == Calls \cup {"daily"}

VARIABLES
  agents,      \* agent files: an agent's memory flag, Nil without a file
  model,       \* ConsolidationService.model: the configuration it is from
  instruction, \* and the one its instruction is from
  dailyOn,     \* ConsolidationService.enabled
  reload,      \* what a Reload has still to set, and from which configuration
  runPc,       \* where a run stands
  agent,       \* the agent a run is at
  readings,    \* the model and the instruction a run has read
  left,        \* agents of the daily listing that are still to come
  days,        \* ticks so far
  reloads, changes,
  served       \* history: the agents the daily run has had a loop for, today

agentVars == <<agents, changes>>
configVars == <<model, instruction, dailyOn, reload, reloads>>
runVars == <<runPc, agent, readings, left, days, served>>
consolidationVars == <<agentVars, configVars, runVars>>

Flags == {"memory", "plain"}

ConsolidationTypeOK ==
  /\ agents \in [Agents -> Flags \cup {Nil}]
  /\ model \in Configs \cup {Nil} /\ instruction \in Configs \cup {Nil}
  /\ dailyOn \in BOOLEAN
  /\ reload \in ({"model", "instruction", "enabled"} \X Configs) \cup {Nil}
  /\ runPc \in [Runs -> {"idle", "next", "read", "instruct", "start", "loop", "done"}]
  /\ agent \in [Runs -> Agents \cup {Nil}]
  /\ readings \in [Runs -> [model : Configs \cup {Nil}, instruction : Configs \cup {Nil}]]
  /\ left \subseteq Agents
  /\ days \in 0..MaxDays /\ reloads \in 0..MaxReloads /\ changes \in 0..MaxChanges
  /\ served \subseteq Agents

Nothing == [model |-> Nil, instruction |-> Nil]

\* A constructor that finds no section leaves the service without a model.
ConsolidationInit ==
  /\ agents \in [Agents -> Flags \cup {Nil}]
  /\ model \in Configs \cup {Nil} /\ instruction = model
  /\ dailyOn \in BOOLEAN /\ (dailyOn => model # Nil)
  /\ reload = Nil
  /\ runPc = [r \in Runs |-> "idle"]
  /\ agent = [r \in Runs |-> Nil]
  /\ readings = [r \in Runs |-> Nothing]
  /\ left = {} /\ days = 0 /\ reloads = 0 /\ changes = 0
  /\ served = {}

-----------------------------------------------------------------------------
(***************************************************************************)
(* Agents                                                                  *)
(***************************************************************************)

Change == changes < MaxChanges /\ changes' = changes + 1

\* Service.Save, or an edit by hand, of an agent file that is not there or is.
SaveAgent(a) ==
  /\ Change
  /\ \E flag \in Flags : agents' = [agents EXCEPT ![a] = flag]
  /\ UNCHANGED <<configVars, runVars>>

\* Service.Delete removes the agent's folder, whoever is at work in it.
DeleteAgent(a) ==
  /\ Change /\ agents[a] # Nil
  /\ agents' = [agents EXCEPT ![a] = Nil]
  /\ UNCHANGED <<configVars, runVars>>

-----------------------------------------------------------------------------
(***************************************************************************)
(* ConsolidationService.mu                                                 *)
(***************************************************************************)

Reading == \E r \in Runs : runPc[r] = "instruct"

\* Reload takes the mutex, and load sets one field after the other. A section
\* that cannot be read, is absent, or names an unknown model changes nothing.
BeginReload(c) ==
  /\ reloads < MaxReloads /\ reload = Nil /\ ~Reading
  /\ reloads' = reloads + 1
  /\ reload' = <<"model", c>>
  /\ UNCHANGED <<agentVars, model, instruction, dailyOn, runVars>>

SetModel ==
  /\ reload # Nil /\ reload[1] = "model"
  /\ model' = reload[2]
  /\ reload' = <<"instruction", reload[2]>>
  /\ UNCHANGED <<agentVars, instruction, dailyOn, reloads, runVars>>

SetInstruction ==
  /\ reload # Nil /\ reload[1] = "instruction"
  /\ instruction' = reload[2]
  /\ reload' = <<"enabled", reload[2]>>
  /\ UNCHANGED <<agentVars, model, dailyOn, reloads, runVars>>

SetEnabled ==
  /\ reload # Nil /\ reload[1] = "enabled"
  /\ dailyOn' \in BOOLEAN
  /\ reload' = Nil
  /\ UNCHANGED <<agentVars, model, instruction, reloads, runVars>>

-----------------------------------------------------------------------------
(***************************************************************************)
(* Consolidations                                                          *)
(***************************************************************************)

RunMoves(r, from, to) == runPc[r] = from /\ runPc' = [runPc EXCEPT ![r] = to]

\* It is 23 o'clock. The day is skipped when the consolidation is off or has no
\* model, or when the agents cannot be listed.
Tick ==
  /\ reload = Nil /\ runPc["daily"] = "idle" /\ days < MaxDays
  /\ dailyOn /\ model # Nil
  /\ days' = days + 1
  /\ left' = {a \in Agents : agents[a] = "memory"}
  /\ served' = {}
  /\ RunMoves("daily", "idle", "next")
  /\ UNCHANGED <<agentVars, configVars, agent, readings>>

\* The next agent of the listing, in no particular order.
NextAgent ==
  /\ RunMoves("daily", "next", "read")
  /\ \E a \in left : agent' = [agent EXCEPT !["daily"] = a] /\ left' = left \ {a}
  /\ UNCHANGED <<agentVars, configVars, readings, days, served>>

AllDone ==
  /\ left = {} /\ RunMoves("daily", "next", "idle")
  /\ UNCHANGED <<agentVars, configVars, agent, readings, left, days, served>>

\* ConsolidateImmidate: an agent that has no memory, or no file, is refused.
Call(r, a) ==
  /\ r # "daily" /\ agents[a] # Nil
  /\ RunMoves(r, "idle", IF agents[a] = "memory" THEN "read" ELSE "done")
  /\ agent' = [agent EXCEPT ![r] = a]
  /\ UNCHANGED <<agentVars, configVars, readings, left, days, served>>

\* A reading of the model that does not wait for a Reload.
ReadModelUnlocked(r) ==
  /\ RunMoves(r, "read", "instruct")
  /\ readings' = [readings EXCEPT ![r].model = model]
  /\ UNCHANGED <<agentVars, configVars, agent, left, days, served>>

\* consolidateMemoryFor, with the read lock.
ReadModel(r) ==
  /\ reload = Nil
  /\ RunMoves(r, "read", "instruct")
  /\ readings' = [readings EXCEPT ![r].model = model]
  /\ UNCHANGED <<agentVars, configVars, agent, left, days, served>>

ReadInstruction(r) ==
  /\ RunMoves(r, "instruct", "start")
  /\ readings' = [readings EXCEPT ![r].instruction = instruction]
  /\ UNCHANGED <<agentVars, configVars, agent, left, days, served>>

\* Without a model there is no loop: a request gets an error.
StartLoop(r) ==
  LET with == readings[r] IN
  /\ RunMoves(r, "start", IF with.model # Nil THEN "loop"
                      ELSE IF r = "daily" THEN "next" ELSE "done")
  /\ served' = IF r = "daily" /\ with.model # Nil THEN served \cup {agent[r]} ELSE served
  /\ UNCHANGED <<agentVars, configVars, agent, readings, left, days>>

\* A daily run that is over when one loop is.
LoopEndsAll(r) ==
  /\ RunMoves(r, "loop", IF r = "daily" THEN "idle" ELSE "done")
  /\ UNCHANGED <<agentVars, configVars, agent, readings, left, days, served>>

\* RunAgentLoop returns, whatever became of the loop.
LoopEnds(r) ==
  /\ RunMoves(r, "loop", IF r = "daily" THEN "next" ELSE "done")
  /\ readings' = [readings EXCEPT ![r] = Nothing]
  /\ UNCHANGED <<agentVars, configVars, agent, left, days, served>>

ReloadStep == SetModel \/ SetInstruction \/ SetEnabled
RunStep(r) == ReadModel(r) \/ ReadInstruction(r) \/ StartLoop(r)

ConsolidationNext ==
  \/ \E a \in Agents : SaveAgent(a) \/ DeleteAgent(a)
  \/ \E c \in Configs : BeginReload(c)
  \/ ReloadStep
  \/ Tick \/ NextAgent \/ AllDone
  \/ \E r \in Calls, a \in Agents : Call(r, a)
  \/ \E r \in Runs : RunStep(r) \/ LoopEnds(r)

(***************************************************************************)
(* Goroutines go on; models are not assumed to answer, so a loop may go on *)
(* for good.                                                               *)
(***************************************************************************)
ConsolidationFairness ==
  /\ WF_consolidationVars(ReloadStep)
  /\ WF_consolidationVars(NextAgent \/ AllDone)
  /\ \A r \in Runs : WF_consolidationVars(RunStep(r))

ConsolidationSpec ==
  ConsolidationInit /\ [][ConsolidationNext]_consolidationVars /\ ConsolidationFairness

-----------------------------------------------------------------------------
(***************************************************************************)
(* Properties                                                              *)
(***************************************************************************)

\* A loop has its model and its instruction from one and the same section of
\* memory.toml, however reloads and consolidations overlap.
OneConfigPerLoop ==
  \A r \in Runs : runPc[r] = "loop" => readings[r].model = readings[r].instruction

\* Each agent of a day's listing is consolidated on that day, also when others
\* of the listing were deleted or the consolidation was switched off meanwhile:
\* provided loops end.
NobodyIsLeftOut ==
  []<>(runPc["daily"] # "loop") =>
    \A a \in Agents, day \in 1..MaxDays :
      (days = day /\ a \in left) ~> (days = day /\ a \in served)
=============================================================================
