--------------------------- MODULE ChatDispatcher ---------------------------
(***************************************************************************)
(* chat.Dispatcher and the part of chat.Service.Chat that touches shared   *)
(* state: the map of running requests and its mutex, the cancel function   *)
(* and done channel of every request, and the session files that a run     *)
(* reads when it starts and rewrites when it ends.                         *)
(*                                                                         *)
(* Three kinds of calls run concurrently: Dispatcher.Chat (Requests),      *)
(* Dispatcher.Interrupt (Interrupts), and the calls that task.executor and *)
(* subagent.Service make to chat.Service.Chat itself, without the          *)
(* dispatcher (Directs), each on a session it has just created.            *)
(***************************************************************************)
EXTENDS Naturals

CONSTANTS
  Requests,       \* calls of Dispatcher.Chat
  Interrupts,     \* calls of Dispatcher.Interrupt
  Directs,        \* calls of Service.Chat by tasks and sub-agents
  Keys,           \* sessionKey: (agent, session) pairs
  FreshKeys,      \* the keys of sessions that Directs create for themselves
  DeletableKeys,  \* the keys of sessions a user or the cleanup may delete
  MaxTurns,       \* turns of the agent loop (resolveMaxTurns)
  None            \* the nil *requestProcessing; also: d.mu is free

Runs  == Requests \cup Directs
Calls == Runs \cup Interrupts

ASSUME CallsAssumption ==
  /\ Requests \cap Interrupts = {}
  /\ Requests \cap Directs = {}
  /\ Directs \cap Interrupts = {}
  /\ None \notin Calls

ASSUME KeysAssumption == FreshKeys \subseteq Keys /\ DeletableKeys \subseteq Keys

ASSUME TurnsAssumption == MaxTurns \in Nat \ {0}

VARIABLES
  pc,         \* where each call stands
  key,        \* the session key each call names
  mu,         \* the Interrupt that holds Dispatcher.mu across steps, or None
  processes,  \* Dispatcher.processes
  prev,       \* the *requestProcessing a call found under its key
  cancelled,  \* runs whose context is cancelled
  done,       \* requests whose done channel is closed
  status,     \* of each session file: absent, present or deleted
  stored,     \* runs whose exchange the session file holds
  mem,        \* runs whose exchange a run's in-memory session holds
  turns,      \* turns of the agent loop a run has started
  ticket,     \* history: position of a request among all calls of swap
  clock,      \* history: calls of swap so far
  saved       \* history: runs whose Save succeeded since the session was made

dispatchVars == <<mu, processes, prev, cancelled, done, ticket, clock>>
sessionVars  == <<status, stored, mem, turns, saved>>
vars == <<pc, key, dispatchVars, sessionVars>>

WaitPCs    == {"cancelPrev", "awaitPrev"}
ServePCs   == {"serve", "check", "turn", "save", "hung", "finish"}
LoadedPCs  == {"check", "turn", "save"}
PCs == {"called", "interrupting", "remove", "ended"} \cup WaitPCs \cup ServePCs

Statuses == {"absent", "present", "deleted"}

TypeOK ==
  /\ pc \in [Calls -> PCs]
  /\ key \in [Calls -> Keys]
  /\ mu \in Interrupts \cup {None}
  /\ processes \in [Keys -> Requests \cup {None}]
  /\ prev \in [Requests \cup Interrupts -> Requests \cup {None}]
  /\ cancelled \subseteq Runs
  /\ done \subseteq Requests
  /\ status \in [Keys -> Statuses]
  /\ stored \in [Keys -> SUBSET Runs]
  /\ mem \in [Runs -> SUBSET Runs]
  /\ turns \in [Runs -> 0..MaxTurns]
  /\ ticket \in [Requests -> Nat]
  /\ clock \in Nat
  /\ saved \subseteq Runs

Init ==
  /\ pc = [c \in Calls |-> "called"]
  /\ key \in [Calls -> Keys]
  /\ \A d \in Directs : key[d] \in FreshKeys
  /\ mu = None
  /\ processes = [k \in Keys |-> None]
  /\ prev = [c \in Requests \cup Interrupts |-> None]
  /\ cancelled = {}
  /\ done = {}
  /\ status = [k \in Keys |-> "absent"]
  /\ stored = [k \in Keys |-> {}]
  /\ mem = [r \in Runs |-> {}]
  /\ turns = [r \in Runs |-> 0]
  /\ ticket = [r \in Requests |-> 0]
  /\ clock = 0
  /\ saved = {}

Goto(c, to) == pc' = [pc EXCEPT ![c] = to]

-----------------------------------------------------------------------------
(***************************************************************************)
(* Dispatcher.Chat                                                         *)
(***************************************************************************)

\* A swap that overwrites the map entry and forgets what it replaced.
SwapForgetsPrev(r) ==
  /\ pc[r] = "called"
  /\ mu = None
  /\ processes' = [processes EXCEPT ![key[r]] = r]
  /\ ticket' = [ticket EXCEPT ![r] = clock + 1]
  /\ clock' = clock + 1
  /\ Goto(r, "serve")
  /\ UNCHANGED <<key, mu, prev, cancelled, done, sessionVars>>

\* swap: under d.mu, replace the entry of the key and return the old one.
Swap(r) ==
  /\ pc[r] = "called"
  /\ mu = None
  /\ prev' = [prev EXCEPT ![r] = processes[key[r]]]
  /\ processes' = [processes EXCEPT ![key[r]] = r]
  /\ ticket' = [ticket EXCEPT ![r] = clock + 1]
  /\ clock' = clock + 1
  /\ Goto(r, IF processes[key[r]] # None THEN "cancelPrev" ELSE "serve")
  /\ UNCHANGED <<key, mu, cancelled, done, sessionVars>>

\* prev.cancel()
CancelPrev(r) ==
  /\ pc[r] = "cancelPrev"
  /\ cancelled' = cancelled \cup {prev[r]}
  /\ Goto(r, "awaitPrev")
  /\ UNCHANGED <<key, mu, processes, prev, done, ticket, clock, sessionVars>>

\* A Chat that cancels the previous run and does not wait for it.
AwaitNothing(r) ==
  /\ pc[r] = "awaitPrev"
  /\ Goto(r, "serve")
  /\ UNCHANGED <<key, dispatchVars, sessionVars>>

\* <-prev.done
AwaitPrev(r) ==
  /\ pc[r] = "awaitPrev"
  /\ prev[r] \in done
  /\ Goto(r, "serve")
  /\ UNCHANGED <<key, dispatchVars, sessionVars>>

\* Deferred calls in the order remove, close: remove waits for d.mu.
RemoveThenClose(r) ==
  /\ pc[r] = "finish"
  /\ r \in Requests
  /\ mu = None
  /\ processes' = [processes EXCEPT ![key[r]] = IF @ = r THEN None ELSE @]
  /\ cancelled' = cancelled \cup {r}
  /\ done' = done \cup {r}
  /\ Goto(r, "remove")
  /\ UNCHANGED <<key, mu, prev, ticket, clock, sessionVars>>

\* Deferred by Chat: cancel() and close(p.done), without d.mu.
CloseDone(r) ==
  /\ pc[r] = "finish"
  /\ r \in Requests
  /\ cancelled' = cancelled \cup {r}
  /\ done' = done \cup {r}
  /\ Goto(r, "remove")
  /\ UNCHANGED <<key, mu, processes, prev, ticket, clock, sessionVars>>

\* A remove that deletes the entry of the key whoever owns it.
RemoveAny(r) ==
  /\ pc[r] = "remove"
  /\ mu = None
  /\ processes' = [processes EXCEPT ![key[r]] = None]
  /\ Goto(r, "ended")
  /\ UNCHANGED <<key, mu, prev, cancelled, done, ticket, clock, sessionVars>>

\* remove: under d.mu, delete the entry of the key if it is still this one.
RemoveEntry(r) ==
  /\ pc[r] = "remove"
  /\ mu = None
  /\ processes' = [processes EXCEPT ![key[r]] = IF @ = r THEN None ELSE @]
  /\ Goto(r, "ended")
  /\ UNCHANGED <<key, mu, prev, cancelled, done, ticket, clock, sessionVars>>

-----------------------------------------------------------------------------
(***************************************************************************)
(* Dispatcher.Interrupt.  It keeps d.mu until the run it found is over, so *)
(* every Chat and every remove waits for it.                               *)
(***************************************************************************)

\* An Interrupt that releases d.mu before it waits for the run.
InterruptUnlocked(i) ==
  /\ pc[i] = "called"
  /\ mu = None
  /\ prev' = [prev EXCEPT ![i] = processes[key[i]]]
  /\ cancelled' = IF prev'[i] # None THEN cancelled \cup {prev'[i]} ELSE cancelled
  /\ Goto(i, IF prev'[i] # None THEN "interrupting" ELSE "ended")
  /\ UNCHANGED <<key, mu, processes, done, ticket, clock, sessionVars>>

InterruptIdle(i) ==
  /\ pc[i] = "called"
  /\ mu = None
  /\ processes[key[i]] = None
  /\ Goto(i, "ended")
  /\ UNCHANGED <<key, dispatchVars, sessionVars>>

InterruptRunning(i) ==
  /\ pc[i] = "called"
  /\ mu = None
  /\ processes[key[i]] # None
  /\ mu' = i
  /\ prev' = [prev EXCEPT ![i] = processes[key[i]]]
  /\ cancelled' = cancelled \cup {processes[key[i]]}
  /\ Goto(i, "interrupting")
  /\ UNCHANGED <<key, processes, done, ticket, clock, sessionVars>>

Interrupt(i) == InterruptIdle(i) \/ InterruptRunning(i)

\* <-prev.done, then the deferred unlock.
InterruptReturn(i) ==
  /\ pc[i] = "interrupting"
  /\ prev[i] \in done
  /\ mu' = None
  /\ Goto(i, "ended")
  /\ UNCHANGED <<key, processes, prev, cancelled, done, ticket, clock, sessionVars>>

-----------------------------------------------------------------------------
(***************************************************************************)
(* Service.Chat, for dispatched and direct runs alike.                     *)
(***************************************************************************)

\* Where a run goes when Service.Chat returns.
Returned(r) == IF r \in Requests THEN "finish" ELSE "ended"

\* The request is invalid, the agent, the model or the session is missing, or
\* the system message cannot be built: Chat returns before the loop starts.
ServeFails(r) ==
  /\ pc[r] = "serve"
  /\ Goto(r, Returned(r))
  /\ UNCHANGED <<key, dispatchVars, sessionVars>>

\* Read the session file and add the user message to the copy in memory.
LoadSession(r) ==
  /\ pc[r] = "serve"
  /\ status[key[r]] = "present"
  /\ mem' = [mem EXCEPT ![r] = stored[key[r]] \cup {r}]
  /\ Goto(r, "check")
  /\ UNCHANGED <<key, dispatchVars, status, stored, turns, saved>>

\* Top of the agent loop: the context is looked at once per turn, and the
\* loop ends on its own after MaxTurns.
CheckContext(r) ==
  /\ pc[r] = "check"
  /\ Goto(r, IF r \in cancelled \/ turns[r] = MaxTurns THEN "save" ELSE "turn")
  /\ UNCHANGED <<key, dispatchVars, sessionVars>>

\* One completion with its tool calls; the loop goes on, or it is over (the
\* completion was final, or failed). Or the turn never ends, cancelled or not: the
\* loop waits for a tool that does not look at its context, as a move of a path to
\* itself, or for a client that does not read its events.
RunTurn(r) ==
  /\ pc[r] = "turn"
  /\ turns' = [turns EXCEPT ![r] = @ + 1]
  /\ \E to \in {"check", "save", "hung"} : Goto(r, to)
  /\ UNCHANGED <<key, dispatchVars, status, stored, mem, saved>>

\* The exit event is forwarded last: a task or a sub-agent's caller reads it.
Forwarded(r) == IF r \in Requests THEN {"finish", "hung"} ELSE {"ended"}

\* A Save that stores this run's own exchange only.
SaveOwnOnly(r) ==
  /\ pc[r] = "save"
  /\ stored' = [stored EXCEPT ![key[r]] = {r}]
  /\ status' = [status EXCEPT ![key[r]] = "present"]
  /\ saved' = saved \cup {r}
  /\ \E to \in Forwarded(r) : Goto(r, to)
  /\ UNCHANGED <<key, dispatchVars, mem, turns>>

\* LoopExitEvent: the session file is rewritten from memory, whatever it
\* holds by now and whether or not it still exists.
SaveSession(r) ==
  /\ pc[r] = "save"
  /\ stored' = [stored EXCEPT ![key[r]] = mem[r]]
  /\ status' = [status EXCEPT ![key[r]] = "present"]
  /\ saved' = saved \cup {r}
  /\ \E to \in Forwarded(r) : Goto(r, to)
  /\ UNCHANGED <<key, dispatchVars, mem, turns>>

\* The write fails: the error is logged and the run ends as if it had not.
SaveFails(r) ==
  /\ pc[r] = "save"
  /\ \E to \in Forwarded(r) : Goto(r, to)
  /\ UNCHANGED <<key, dispatchVars, sessionVars>>

\* The caller's context is cancelled: the HTTP client went away, the task was
\* stopped, or the run that called the sub-agent was cancelled.
CallerCancels(r) ==
  /\ pc[r] \notin {"called", "ended"}
  /\ r \notin cancelled
  /\ cancelled' = cancelled \cup {r}
  /\ UNCHANGED <<pc, key, mu, processes, prev, done, ticket, clock, sessionVars>>

\* A task or a sub-agent call creates its session, then calls Service.Chat.
DirectChat(d) ==
  /\ pc[d] = "called"
  /\ status[key[d]] = "absent"
  /\ status' = [status EXCEPT ![key[d]] = "present"]
  /\ Goto(d, "serve")
  /\ UNCHANGED <<key, dispatchVars, stored, mem, turns, saved>>

-----------------------------------------------------------------------------
(***************************************************************************)
(* session.Service: session ids are fresh UUIDs, so a key is created once. *)
(***************************************************************************)
CreateSession(k) ==
  /\ status[k] = "absent"
  /\ k \notin FreshKeys
  /\ status' = [status EXCEPT ![k] = "present"]
  /\ UNCHANGED <<pc, key, dispatchVars, stored, mem, turns, saved>>

DeleteSession(k) ==
  /\ k \in DeletableKeys
  /\ status[k] = "present"
  /\ status' = [status EXCEPT ![k] = "deleted"]
  /\ stored' = [stored EXCEPT ![k] = {}]
  /\ saved' = {r \in saved : key[r] # k}
  /\ UNCHANGED <<pc, key, dispatchVars, mem, turns>>

-----------------------------------------------------------------------------
Dispatch(r) ==
  Swap(r) \/ CancelPrev(r) \/ AwaitPrev(r) \/ CloseDone(r) \/ RemoveEntry(r)

Serve(r) ==
  ServeFails(r) \/ LoadSession(r) \/ CheckContext(r) \/ RunTurn(r)
    \/ SaveSession(r) \/ SaveFails(r)

Next ==
  \/ \E r \in Requests : Dispatch(r)
  \/ \E i \in Interrupts : Interrupt(i) \/ InterruptReturn(i)
  \/ \E d \in Directs : DirectChat(d)
  \/ \E r \in Runs : Serve(r) \/ CallerCancels(r)
  \/ \E k \in Keys : CreateSession(k) \/ DeleteSession(k)

\* Goroutines are scheduled fairly and sync.Mutex starves no waiter.  A model is
\* not trusted to answer, since a completion has no deadline of its own: a turn
\* is only sure to go on once the context of the run is cancelled, and then only
\* if it does not hang.
Fairness ==
  /\ \A r \in Requests : WF_vars(Dispatch(r))
  /\ \A i \in Interrupts : WF_vars(Interrupt(i) \/ InterruptReturn(i))
  /\ \A r \in Runs : WF_vars((pc[r] = "turn" => r \in cancelled) /\ Serve(r))

Spec == Init /\ [][Next]_vars

FairSpec == Spec /\ Fairness

-----------------------------------------------------------------------------
(***************************************************************************)
(* Properties                                                              *)
(***************************************************************************)

\* A request between swap and close(p.done).
Live(r) == pc[r] \in WaitPCs \cup ServePCs

Serving(r) == pc[r] \in ServePCs

\* Two dispatched requests never run on the same session at once: a Chat
\* enters Service.Chat only when every request that was swapped out before it
\* has closed its done channel.
MutualExclusion ==
  \A r, s \in Requests :
    r # s /\ key[r] = key[s] => ~(Serving(r) /\ Serving(s))

\* Requests of a session are served in the order in which they went through
\* swap: one that is past its wait has only finished requests in front of it.
ServedInArrivalOrder ==
  \A r, s \in Requests :
    /\ key[r] = key[s]
    /\ 0 < ticket[s] /\ ticket[s] < ticket[r]
    /\ pc[r] \notin WaitPCs
    => s \in done

\* A session that no task or sub-agent writes keeps what was saved in it: the
\* file still holds the exchange of every run that Save reported stored, however
\* many later runs read it, were cancelled, and rewrote it.
NoLostHistory ==
  \A r \in saved : key[r] \notin FreshKeys => r \in stored[key[r]]

\* When Interrupt returns, nothing is running or waiting to run on its session:
\* not only the request it found, but also the ones that request was waiting
\* for, and no request slipped in while it waited, since it holds d.mu.
InterruptQuiesces ==
  [][\A i \in Interrupts :
       pc[i] # "ended" /\ pc'[i] = "ended" =>
         \A r \in Requests : key[r] = key[i] => ~Live(r)]_vars

\* A run of a session hangs, and who waits for it does: the calls on its session,
\* and every call once an Interrupt of that session holds d.mu.
Hung(k) == \E r \in Runs : key[r] = k /\ pc[r] = "hung"

HeldUp(c) == Hung(key[c]) \/ (mu # None /\ Hung(key[mu]))

\* No call is stuck, even if models never answer, but by a run that hangs: every
\* Interrupt returns, every request gets to be served (or is over), and every
\* cancelled run ends.  No request waits on a done channel that is never closed, and
\* Interrupt holding d.mu does not block the run it waits for.
NoCallIsStuck ==
  /\ \A i \in Interrupts : <>(pc[i] = "ended" \/ HeldUp(i))
  /\ \A r \in Requests : <>(pc[r] \notin WaitPCs \cup {"called"} \/ HeldUp(r))
  /\ \A r \in Runs : r \in cancelled ~> (pc[r] = "ended" \/ HeldUp(r))

\* The dispatcher's map does not leak: once every request has returned it has
\* no entry, and while one runs its session has an entry to interrupt it by.
EntriesMatchRuns ==
  /\ (\A r \in Requests : pc[r] \in {"called", "ended"})
       => \A k \in Keys : processes[k] = None
  /\ \A r \in Requests : Live(r) => processes[key[r]] # None

(***************************************************************************)
(* The inductive invariant behind these properties.  Tickets number the    *)
(* calls of swap; the entry of a key is the last request swapped in, and a *)
(* waiting request waits for its immediate predecessor, so one done        *)
(* channel stands for all earlier requests of the session.                 *)
(***************************************************************************)
TicketsAreUnique ==
  \A r \in Requests :
    /\ ticket[r] <= clock
    /\ ticket[r] = 0 <=> pc[r] = "called"
    /\ \A s \in Requests : r # s /\ ticket[r] # 0 => ticket[r] # ticket[s]

DoneAtTheEnd == \A r \in Requests : r \in done <=> pc[r] \in {"remove", "ended"}

\* r is the last request swapped in on k.
LastOf(r, k) ==
  /\ r \in Requests /\ key[r] = k /\ 0 < ticket[r]
  /\ \A s \in Requests : key[s] = k => ticket[s] <= ticket[r]

WaitsForPredecessor ==
  \A r \in Requests : pc[r] \in WaitPCs =>
    /\ prev[r] \in Requests /\ key[prev[r]] = key[r]
    /\ 0 < ticket[prev[r]]
    /\ \A s \in Requests :
         key[s] = key[r] /\ ticket[s] < ticket[r] => ticket[s] <= ticket[prev[r]]

EntryIsLast ==
  \A k \in Keys :
    IF processes[k] = None
    THEN \A r \in Requests : key[r] = k /\ ticket[r] # 0 => r \in done
    ELSE LastOf(processes[k], k) /\ pc[processes[k]] # "ended"

InterruptHoldsMutex ==
  \A i \in Interrupts : pc[i] = "interrupting" =>
    mu = i /\ LastOf(prev[i], key[i])

OrderInv ==
  /\ TicketsAreUnique
  /\ DoneAtTheEnd
  /\ WaitsForPredecessor
  /\ ServedInArrivalOrder
  /\ EntryIsLast
  /\ InterruptHoldsMutex

(***************************************************************************)
(* Dispatched requests implement SerialSessions: the owner of a session is *)
(* the request inside Service.Chat, its history is the session file.       *)
(***************************************************************************)
Owner(k) ==
  IF \E r \in Requests : key[r] = k /\ Serving(r)
  THEN CHOOSE r \in Requests : key[r] = k /\ Serving(r)
  ELSE None

\* Sessions that are neither deleted nor written by a task or a sub-agent.
QuietKeys == Keys \ (FreshKeys \cup DeletableKeys)

Serial == INSTANCE SerialSessions WITH
  Sessions <- QuietKeys,
  owner    <- [k \in QuietKeys |-> Owner(k)],
  history  <- [k \in QuietKeys |-> stored[k]]

\* On a quiet session the load at the start of a run and the save at its end act
\* as one atomic update, although cancelled and waiting requests overlap in
\* between.
ImplementsSerialSessions == Serial!Spec
=============================================================================
