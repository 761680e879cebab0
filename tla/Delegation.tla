------------------------------ MODULE Delegation ------------------------------
(***************************************************************************)
(* A chat request and the sub-agents it calls, one inside the other: the   *)
(* caller waits in its tool call until the run of the other is over. Each  *)
(* run has a session, the root's is used again by the next request, each   *)
(* sub-agent gets a new one. Of a run there is what ChatMemory keeps: its  *)
(* system message, the todos its tools make, and the hook that lets no run *)
(* end with todos undone (UndoneTodoHook). The messages are in AgentLoop,  *)
(* requests that wait for each other are in ChatDispatcher.                *)
(***************************************************************************)
EXTENDS ChatMemory, SequencesExt

CONSTANTS
  MaxDepth,     \* maxSubAgentDepth
  MaxAttempts,  \* maxIncomplitedTodoAttempts
  MaxMistakes,  \* maxCompletionMistakes
  RunTurns,     \* turns of a run (resolveMaxTurns)
  MaxRuns       \* bound: requests and calls of sub-agents

ASSUME DelegationAssumption ==
  {MaxDepth, MaxAttempts, MaxMistakes, RunTurns, MaxRuns} \subseteq Nat

Root == 0  \* the session of the requests; the others are made for sub-agents

VARIABLES
  stack,    \* the runs, the caller before the called
  runs,     \* requests so far
  made,     \* sessions of sub-agents so far
  attempts  \* UndoneTodoHook.attemptCounter

runVars == <<stack, runs, made, attempts>>
delegationVars == <<memoryVars, runVars>>

RunPCs == {"begin", "assemble", "put", "turn", "hook", "refuse", "accept",
        "call", "list", "calling", "hung", "end"}
Run == [session   : Sessions,
        pc        : RunPCs,
        text      : 0..MaxEdits,   \* the system message it is making
        left      : 0..RunTurns,
        mistakes  : Nat,           \* completionMistakes
        done      : BOOLEAN,       \* the completion at hand is done
        cancelled : BOOLEAN]       \* the context is done

DelegationTypeOK ==
  /\ MemoryTypeOK
  /\ stack \in Seq(Run)
  /\ runs \in 0..MaxRuns /\ made \in 0..MaxSessions
  /\ attempts \in [Sessions -> Nat]

DelegationInit ==
  /\ MemoryInit
  /\ stack = <<>>
  /\ runs = 0 /\ made = 0
  /\ attempts = [s \in Sessions |-> 0]

NewRun(s, cancelled) ==
  [session |-> s, pc |-> "begin", text |-> 0, left |-> RunTurns, mistakes |-> 0,
   done |-> FALSE, cancelled |-> cancelled]

\* Only the innermost run takes steps: the others wait for it.
Depth == Len(stack)
Top == stack[Depth]
At(pc) == Depth > 0 /\ Top.pc = pc
RunGoesTo(pc) == stack' = [stack EXCEPT ![Depth].pc = pc]

\* A call is over: the next completion, unless this was the last one.
CallEnds == RunGoesTo(IF Top.done THEN "end" ELSE "turn")

-----------------------------------------------------------------------------
(***************************************************************************)
(* The start of a run: its system message                                  *)
(***************************************************************************)
Request ==
  /\ Depth = 0 /\ runs + made < MaxRuns
  /\ runs' = runs + 1
  /\ stack' = <<NewRun(Root, FALSE)>>
  /\ UNCHANGED <<memoryVars, made, attempts>>

Cached ==
  /\ At("begin")
  /\ Get(Top.session)
  /\ RunGoesTo("turn")
  /\ UNCHANGED <<now, files, todoVars, runs, made, attempts>>

NotCached ==
  /\ At("begin") /\ ~Hit(Top.session)
  /\ RunGoesTo("assemble")
  /\ UNCHANGED <<memoryVars, runs, made, attempts>>

\* The parts are read from the agent, its memories and the skills.
Assemble ==
  /\ At("assemble")
  /\ stack' = [stack EXCEPT ![Depth].pc = "put", ![Depth].text = files]
  /\ UNCHANGED <<memoryVars, runs, made, attempts>>

\* Agent, model, tool server or session are not to be had; or then, the memories
\* cannot be reached, or the session's instruction is no text.
ChatFails ==
  /\ At("begin") \/ At("assemble")
  /\ RunGoesTo("end")
  /\ UNCHANGED <<memoryVars, runs, made, attempts>>

\* That of a sub-agent is never asked for again, and not kept here.
PutMessage ==
  /\ At("put")
  /\ IF Top.session = Root THEN Put(Root, Top.text) ELSE UNCHANGED messageVars
  /\ stack' = [stack EXCEPT ![Depth].pc = "turn", ![Depth].text = 0]
  /\ UNCHANGED <<now, files, todoVars, runs, made, attempts>>

-----------------------------------------------------------------------------
(***************************************************************************)
(* Turns, and the hook on completions                                      *)
(***************************************************************************)
Complete ==
  /\ At("turn") /\ ~Top.cancelled /\ Top.left > 0
  /\ \E done \in BOOLEAN :
       stack' = [stack EXCEPT ![Depth].pc = IF done THEN "hook" ELSE "call",
                              ![Depth].done = done,
                              ![Depth].left = @ - 1]
  /\ UNCHANGED <<memoryVars, runs, made, attempts>>

\* The context is done, the turns are used up, or the model fails.
Quit ==
  /\ At("turn")
  /\ RunGoesTo("end")
  /\ UNCHANGED <<memoryVars, runs, made, attempts>>

ListForHook ==
  /\ At("hook")
  /\ List(Top.session)
  /\ RunGoesTo(IF Undone(Top.session) THEN "refuse" ELSE "accept")
  /\ UNCHANGED <<now, files, messageVars, runs, made, attempts>>

Accept ==
  /\ At("accept")
  /\ attempts' = [attempts EXCEPT ![Top.session] = 0]
  /\ RunGoesTo("call")
  /\ UNCHANGED <<memoryVars, runs, made>>

\* The attempts are used up, and the run is: the hook's error is no mistake.
GiveUp ==
  /\ At("refuse") /\ attempts[Top.session] >= MaxAttempts
  /\ attempts' = [attempts EXCEPT ![Top.session] = 0]
  /\ RunGoesTo("end")
  /\ UNCHANGED <<memoryVars, runs, made>>

\* A counter that starts again for each attempt.
CautionAgain ==
  /\ At("refuse") /\ attempts[Top.session] < MaxAttempts
  /\ attempts' = [attempts EXCEPT ![Top.session] = 0]
  /\ stack' = [stack EXCEPT ![Depth].mistakes = @ + 1, ![Depth].done = FALSE,
                            ![Depth].pc = IF Top.mistakes >= MaxMistakes THEN "end" ELSE "turn"]
  /\ UNCHANGED <<memoryVars, runs, made>>

Caution ==
  /\ At("refuse") /\ attempts[Top.session] < MaxAttempts
  /\ attempts' = [attempts EXCEPT ![Top.session] = @ + 1]
  /\ stack' = [stack EXCEPT ![Depth].mistakes = @ + 1, ![Depth].done = FALSE,
                            ![Depth].pc = IF Top.mistakes >= MaxMistakes THEN "end" ELSE "turn"]
  /\ UNCHANGED <<memoryVars, runs, made>>

-----------------------------------------------------------------------------
(***************************************************************************)
(* Tool calls                                                              *)
(***************************************************************************)

\* No call, or one of a tool that is not here; a bad call.
OtherCalls ==
  /\ At("call")
  /\ CallEnds
  /\ UNCHANGED <<memoryVars, runs, made, attempts>>

\* A tool that does not look at its context, as a move of a path to itself: the call
\* never returns, and the loop waits for it.
ToolHangs ==
  /\ At("call")
  /\ RunGoesTo("hung")
  /\ UNCHANGED <<memoryVars, runs, made, attempts>>

\* Two locked operations: first the change, then the list.
CreateTodos ==
  /\ At("call")
  /\ \E n \in 1..MaxItems - Len(todos[Top.session]) : Add(Top.session, n)
  /\ RunGoesTo("list")
  /\ UNCHANGED <<now, files, messageVars, runs, made, attempts>>

UpdateTodo ==
  /\ At("call")
  /\ \E id \in 1..MaxItems, status \in Status :
       /\ Update(Top.session, id, status)
       /\ IF id \in DOMAIN todos[Top.session] THEN RunGoesTo("list") ELSE CallEnds
  /\ UNCHANGED <<now, files, messageVars, runs, made, attempts>>

ListTodos ==
  /\ At("call") \/ At("list")
  /\ List(Top.session)
  /\ CallEnds
  /\ UNCHANGED <<now, files, messageVars, runs, made, attempts>>

\* The new session is stored; the context of the call goes with it.
CallAgent ==
  /\ At("call") /\ Depth <= MaxDepth /\ runs + made < MaxRuns /\ made < MaxSessions
  /\ made' = made + 1
  /\ stack' = Append([stack EXCEPT ![Depth].pc = "calling"],
                     NewRun(made + 1, Top.cancelled))
  /\ UNCHANGED <<memoryVars, runs, attempts>>

\* Chat returns, and with it the caller's tool call; its result or error is text.
\* The todos of a sub-agent's session expire some time, which nobody sees: they are
\* forgotten at once.
Return ==
  /\ At("end")
  /\ IF Depth = 1
     THEN stack' = <<>> /\ UNCHANGED todoVars
     ELSE /\ stack' = LET caller == stack[Depth - 1]
                      IN  [Front(stack) EXCEPT ![Depth - 1].pc =
                             IF caller.done THEN "end" ELSE "turn"]
          /\ Forget(Top.session)
  /\ UNCHANGED <<now, files, messageVars, runs, made, attempts>>

-----------------------------------------------------------------------------
\* The context of a run is that of the runs it calls.
CancelFrom(i) ==
  stack' = [j \in DOMAIN stack |->
              IF j >= i THEN [stack[j] EXCEPT !.cancelled = TRUE] ELSE stack[j]]

\* A deadline that the run of the sub-agent is not told of.
DeadlineIsLost(i) ==
  /\ i < Depth /\ ~stack[i].cancelled
  /\ stack' = [stack EXCEPT ![i].cancelled = TRUE]
  /\ UNCHANGED <<memoryVars, runs, made, attempts>>

\* CallAgentTool.TimeOut is up.
CallTimesOut(i) ==
  /\ i < Depth /\ ~stack[i + 1].cancelled
  /\ CancelFrom(i + 1)
  /\ UNCHANGED <<memoryVars, runs, made, attempts>>

InterruptRuns ==
  /\ Depth > 0 /\ ~stack[1].cancelled
  /\ CancelFrom(1)
  /\ UNCHANGED <<memoryVars, runs, made, attempts>>

-----------------------------------------------------------------------------
RunStep ==
  \/ Cached \/ NotCached \/ Assemble \/ ChatFails \/ PutMessage
  \/ Complete \/ Quit \/ ListForHook \/ Accept \/ GiveUp \/ Caution
  \/ OtherCalls \/ ToolHangs \/ CreateTodos \/ UpdateTodo \/ ListTodos \/ CallAgent \/ Return

DelegationNext ==
  \/ Request \/ RunStep
  \/ \E i \in DOMAIN stack : CallTimesOut(i)
  \/ InterruptRuns
  \/ (Timers \/ EditFiles \/ Tick) /\ UNCHANGED runVars

\* A model is only sure to return once the context is done, and other tools than
\* those that hang in the time they have; the time of a call runs out.
DelegationFairness ==
  /\ WF_delegationVars((At("turn") => Top.cancelled) /\ RunStep)
  /\ WF_delegationVars(\E i \in DOMAIN stack : CallTimesOut(i))

DelegationSpec == DelegationInit /\ [][DelegationNext]_delegationVars /\ DelegationFairness

-----------------------------------------------------------------------------
(***************************************************************************)
(* Properties                                                              *)
(***************************************************************************)

\* The hook is the only one that refuses completions of a chat, and it gives up
\* before the loop does: each mistake of a run is an attempt the hook has counted,
\* though it counts by session, over interrupted runs, and starts again when todos
\* have expired (UndoneTodoHook.Apply, maxCompletionMistakes).
CautionsAreCounted ==
  \A i \in DOMAIN stack :
    /\ ~stack[i].done \/ stack[i].pc \in {"hook", "refuse"}
         => stack[i].mistakes <= attempts[stack[i].session]
    /\ attempts[stack[i].session] <= MaxAttempts

\* A run gets a system message that is older than its files only if the session was
\* used a short time ago (SystemMessageCache; docs/skills.md).
StaleOnlyWhileUsed ==
  [][Cached => \/ messages[Top.session] = files
               \/ now <= used[Top.session] + MessageTTL]_delegationVars

\* A caller gets its answer, even if models never answer and however deep the
\* sub-agent it calls has called others, unless one of them waits for a tool that
\* does not look at its context (CallAgentTool.TimeOut, subagent.Service.Call).
DelegationsEnd == (Depth > 1) ~> (Depth <= 1 \/ At("hung"))
=============================================================================
