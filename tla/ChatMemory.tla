------------------------------ MODULE ChatMemory ------------------------------
(***************************************************************************)
(* What the process keeps in memory of a session between two requests: the *)
(* system message (SystemMessageCache) and the list of todos               *)
(* (InMemoryStore). Timers throw both away. They fire while a request is   *)
(* at work on the session, and their callbacks wait for a mutex: a timer   *)
(* that is stopped or reset may have fired already.                        *)
(*                                                                         *)
(* A message has one timer, which each use resets. The store's map of      *)
(* timers is never made: each use of a list starts one more timer, none of *)
(* which is stopped or reset.                                              *)
(***************************************************************************)
EXTENDS Naturals, Sequences

CONSTANTS
  MaxSessions, \* bound: sessions besides the first
  MessageTTL,  \* cacheLifeTime
  TodoTTL,     \* todoTTL
  MaxItems,    \* bound: todos of a session
  MaxEdits,    \* bound: changes of what a system message is made of
  MaxTime,     \* bound: the clock
  Nil

ASSUME MemoryAssumption ==
  /\ {MessageTTL, TodoTTL} \subseteq Nat \ {0}
  /\ {MaxSessions, MaxItems, MaxEdits, MaxTime} \subseteq Nat
  /\ Nil \notin Nat \cup [due : Nat, armed : BOOLEAN]

Sessions == 0..MaxSessions

VARIABLES
  now,          \* the clock
  files,        \* version of the agent, the skills and the memories
  messages,     \* SystemMessageCache.messages: the version a message was made of
  deleteTimers, \* SystemMessageCache.deleteTimers
  strays,       \* armed timers of messages that are no longer in deleteTimers
  callbacks,    \* callbacks of such timers that wait for SystemMessageCache.mu
  used,         \* history: when the message was put, or last handed out
  todos,        \* InMemoryStore.todos
  cleanTimers   \* when the timers of a list fire

messageVars == <<messages, deleteTimers, strays, callbacks, used>>
todoVars    == <<todos, cleanTimers>>
memoryVars  == <<now, files, messageVars, todoVars>>

Times == 0..MaxTime
Status == {"open", "closed"}  \* pending and in_progress; done and declined

MemoryTypeOK ==
  /\ now \in Times /\ files \in 0..MaxEdits
  /\ messages \in [Sessions -> 0..MaxEdits \cup {Nil}]
  /\ deleteTimers \in [Sessions -> [due : Nat, armed : BOOLEAN] \cup {Nil}]
  /\ strays \in [Sessions -> Seq(Nat)] /\ callbacks \in [Sessions -> Nat]
  /\ used \in [Sessions -> Times]
  /\ todos \in [Sessions -> Seq(Status)]
  /\ cleanTimers \in [Sessions -> SUBSET Times]

MemoryInit ==
  /\ now = 0 /\ files = 0
  /\ messages = [s \in Sessions |-> Nil]
  /\ deleteTimers = [s \in Sessions |-> Nil]
  /\ strays = [s \in Sessions |-> <<>>]
  /\ callbacks = [s \in Sessions |-> 0]
  /\ used = [s \in Sessions |-> 0]
  /\ todos = [s \in Sessions |-> <<>>]
  /\ cleanTimers = [s \in Sessions |-> {}]

-----------------------------------------------------------------------------
(***************************************************************************)
(* The system message                                                      *)
(***************************************************************************)
NewTimer == [due |-> now + MessageTTL, armed |-> TRUE]

Hit(s) == messages[s] # Nil

\* Reset arms a timer that has fired again.
Get(s) ==
  /\ Hit(s)
  /\ deleteTimers' = [deleteTimers EXCEPT ![s] = NewTimer]
  /\ used' = [used EXCEPT ![s] = now]
  /\ UNCHANGED <<messages, strays, callbacks>>

\* A message with a timer that was never armed.
PutForGood(s, text) ==
  /\ messages' = [messages EXCEPT ![s] = text]
  /\ deleteTimers' = [deleteTimers EXCEPT ![s] = [NewTimer EXCEPT !.armed = FALSE]]
  /\ used' = [used EXCEPT ![s] = now]
  /\ UNCHANGED <<strays, callbacks>>

\* Stop comes too late for a timer whose callback waits.
Put(s, text) ==
  /\ messages' = [messages EXCEPT ![s] = text]
  /\ deleteTimers' = [deleteTimers EXCEPT ![s] = NewTimer]
  /\ used' = [used EXCEPT ![s] = now]
  /\ UNCHANGED <<strays, callbacks>>

Due(s) == deleteTimers[s] # Nil /\ deleteTimers[s].armed /\ deleteTimers[s].due <= now
StrayDue(s) == strays[s] # <<>> /\ Head(strays[s]) <= now

MessageTimerFires(s) ==
  /\ \/ Due(s) /\ deleteTimers' = [deleteTimers EXCEPT ![s].armed = FALSE]
        /\ UNCHANGED strays
     \/ StrayDue(s) /\ strays' = [strays EXCEPT ![s] = Tail(@)]
        /\ UNCHANGED deleteTimers
  /\ callbacks' = [callbacks EXCEPT ![s] = @ + 1]
  /\ UNCHANGED <<now, files, messages, used, todoVars>>

\* The callback deletes whatever message and timer there are by now.
MessageExpires(s) ==
  /\ callbacks[s] > 0
  /\ callbacks' = [callbacks EXCEPT ![s] = @ - 1]
  /\ messages' = [messages EXCEPT ![s] = Nil]
  /\ deleteTimers' = [deleteTimers EXCEPT ![s] = Nil]
  /\ used' = [used EXCEPT ![s] = 0]
  /\ strays' = [strays EXCEPT ![s] =
                  IF deleteTimers[s] # Nil /\ deleteTimers[s].armed
                  THEN Append(@, deleteTimers[s].due) ELSE @]
  /\ UNCHANGED <<now, files, todoVars>>

-----------------------------------------------------------------------------
(***************************************************************************)
(* The todos                                                               *)
(***************************************************************************)

\* touchTimer. Of the timers of one unit of time, one is kept, and none that would
\* fire after the end of time.
Touch(s) == cleanTimers' = [cleanTimers EXCEPT ![s] = (@ \cup {now + TodoTTL}) \cap Times]

Add(s, n) ==
  /\ Touch(s)
  /\ todos' = [todos EXCEPT ![s] = @ \o [i \in 1..n |-> "open"]]

\* An id that is not in the list changes nothing.
Update(s, id, status) ==
  /\ Touch(s)
  /\ todos' = IF id \in DOMAIN todos[s] THEN [todos EXCEPT ![s][id] = status] ELSE todos

List(s) == Touch(s) /\ UNCHANGED todos

Undone(s) == \E i \in DOMAIN todos[s] : todos[s][i] = "open"

Forget(s) ==
  /\ todos' = [todos EXCEPT ![s] = <<>>]
  /\ cleanTimers' = [cleanTimers EXCEPT ![s] = {}]

TodosDue(s) == \E t \in cleanTimers[s] : t <= now

TodosExpire(s) ==
  /\ TodosDue(s)
  /\ todos' = [todos EXCEPT ![s] = <<>>]
  /\ cleanTimers' = [cleanTimers EXCEPT ![s] = {t \in @ : t > now}]
  /\ UNCHANGED <<now, files, messageVars>>

-----------------------------------------------------------------------------
EditFiles ==
  /\ files < MaxEdits
  /\ files' = files + 1
  /\ UNCHANGED <<now, messageVars, todoVars>>

\* A unit of time is long enough for what is due to fire and to run.
Tick ==
  /\ now < MaxTime
  /\ \A s \in Sessions : ~Due(s) /\ ~StrayDue(s) /\ callbacks[s] = 0 /\ ~TodosDue(s)
  /\ now' = now + 1
  /\ UNCHANGED <<files, messageVars, todoVars>>

Timers ==
  \E s \in Sessions : MessageTimerFires(s) \/ MessageExpires(s) \/ TodosExpire(s)
=============================================================================
