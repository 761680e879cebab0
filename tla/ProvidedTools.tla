---------------------------- MODULE ProvidedTools ----------------------------
(***************************************************************************)
(* The chat handler of the HTTP API and the tools a client provides for    *)
(* one chat: a call of such a tool is an event on the response stream, and *)
(* its result a request of the client that names the tool's id.            *)
(*                                                                         *)
(* The id belongs to the tool, not to the call, and a result is put into   *)
(* the tool's channel after the lock of the table of waiters was released: *)
(* it may come when the call is over, or when the whole chat is.           *)
(***************************************************************************)
EXTENDS Naturals, Sequences, FiniteSets

CONSTANTS
  Chats,      \* chat requests
  Tools,      \* provided tools
  Posts,      \* requests that post a result
  None,       \* no value
  MaxCalls,   \* bound: calls of provided tools
  QueueSize   \* events between the loop and the stream

ASSUME ProvidedAssumption ==
  /\ MaxCalls \in Nat /\ QueueSize \in Nat \ {0}
  /\ IsFiniteSet(Tools)
  /\ None \notin Tools /\ None \notin Posts /\ None \notin Nat
  /\ None \notin {"timeout", "refused"} /\ Posts \cap {"timeout", "refused"} = {}
  /\ None \notin [tool : Tools, n : Nat]

Calls == 1..MaxCalls
Ids   == 1..Cardinality(Tools)

VARIABLES
  owner,    \* the chat a tool is provided for
  handler,  \* chatHandler.Chat: where the handler of a chat stands
  run,      \* the goroutine of the handler and the agent loop it runs
  calls,    \* calls made so far
  call,     \* the call a chat's loop is in
  result,   \* what each call returned
  nextId,   \* the id generator
  id,       \* ProvidedTool.id
  waiters,  \* providedToolsRouter.waiters: the tool whose channel an id leads to
  resultCh, \* ProvidedTool.resultCh
  evCh,     \* events on their way from the loop to the stream
  stream,   \* what was written to the response
  post      \* ResolveCall: where a request stands, and for which call it is meant

chatVars == <<owner, handler, run, evCh, stream>>
callVars == <<calls, call, result>>
toolVars == <<nextId, id, waiters>>
vars == <<chatVars, callVars, toolVars, resultCh, post>>

\* An event on the stream; that of a provided tool's call names the tool's id.
Event == [type : {"provided_toolcall", "tool_result", "loop_exit", "error", "[DONE]"},
          n : Calls \cup {None}, id : Ids \cup {None}]

Plain(type) == [type |-> type, n |-> None, id |-> None]

\* The variables have their types: a channel never holds two results, and a tool
\* is known under its own id (ProvidedTool.SetID).
TypeOK ==
  /\ owner \in [Tools -> Chats]
  /\ handler \in [Chats -> {"new", "open", "unregistered", "closed"}]
  /\ run \in [Chats -> {"idle", "running", "ended"}]
  /\ calls \in 0..MaxCalls
  /\ call \in [Chats -> [tool : Tools, n : Calls] \cup {None}]
  /\ result \in [Calls -> Posts \cup {"timeout", "refused", None}]
  /\ nextId \in 1..Cardinality(Tools) + 1
  /\ id \in [Tools -> Ids \cup {None}]
  /\ waiters \in [Ids -> Tools \cup {None}]
  /\ \A i \in Ids : waiters[i] # None => id[waiters[i]] = i
  /\ resultCh \in [Tools -> {<<>>} \cup {<<p>> : p \in Posts}]
  /\ \A c \in Chats : /\ Len(evCh[c]) <= QueueSize
                      /\ \A i \in DOMAIN evCh[c] : evCh[c][i] \in Event
                      /\ \A i \in DOMAIN stream[c] : stream[c][i] \in Event
  /\ post \in [Posts -> [pc : {"new", "found", "sent", "refused"},
                         tool : Tools \cup {None}, n : Calls \cup {None}]]

Init ==
  /\ owner \in [Tools -> Chats]
  /\ handler = [c \in Chats |-> "new"]
  /\ run = [c \in Chats |-> "idle"]
  /\ calls = 0
  /\ call = [c \in Chats |-> None]
  /\ result = [n \in Calls |-> None]
  /\ nextId = 1
  /\ id = [t \in Tools |-> None]
  /\ waiters = [i \in Ids |-> None]
  /\ resultCh = [t \in Tools |-> <<>>]
  /\ evCh = [c \in Chats |-> <<>>]
  /\ stream = [c \in Chats |-> <<>>]
  /\ post = [p \in Posts |-> [pc |-> "new", tool |-> None, n |-> None]]

Own(c) == {t \in Tools : owner[t] = c}

Send(c, event) == stream' = [stream EXCEPT ![c] = Append(@, event)]

-----------------------------------------------------------------------------
(***************************************************************************)
(* chatHandler.Chat                                                        *)
(***************************************************************************)

\* A registration under the tools' names, which are the same in every chat.
RegisterByName(c) ==
  /\ id' = [t \in Tools |-> IF t \in Own(c) THEN 1 ELSE id[t]]
  /\ waiters' = [waiters EXCEPT ![1] = IF Own(c) = {} THEN @ ELSE CHOOSE t \in Own(c) : TRUE]
  /\ nextId' = nextId

\* registerProvidedToolServers: each tool gets an id of its own, in any order.
Register(c) ==
  \E f \in [Own(c) -> nextId..nextId + Cardinality(Own(c)) - 1] :
    /\ \A s, t \in Own(c) : f[s] = f[t] => s = t
    /\ id' = [t \in Tools |-> IF t \in Own(c) THEN f[t] ELSE id[t]]
    /\ waiters' = [i \in Ids |-> IF \E t \in Own(c) : f[t] = i
                                 THEN CHOOSE t \in Own(c) : f[t] = i ELSE waiters[i]]
    /\ nextId' = nextId + Cardinality(Own(c))

\* The request is decoded, its tools are registered and the run is started.
Open(c) ==
  /\ handler[c] = "new"
  /\ handler' = [handler EXCEPT ![c] = "open"]
  /\ run' = [run EXCEPT ![c] = "running"]
  /\ Register(c)
  /\ UNCHANGED <<owner, evCh, stream, callVars, resultCh, post>>

\* The request is broken.
BadRequest(c) ==
  /\ handler[c] = "new"
  /\ handler' = [handler EXCEPT ![c] = "closed"]
  /\ stream' = [stream EXCEPT ![c] = <<Plain("error"), Plain("[DONE]")>>]
  /\ UNCHANGED <<owner, run, evCh, callVars, toolVars, resultCh, post>>

\* A handler that forwards events only as long as the run goes on.
ForwardWhileRunning(c) ==
  /\ handler[c] = "open" /\ run[c] = "running"
  /\ evCh[c] # <<>>
  /\ Send(c, Head(evCh[c]))
  /\ evCh' = [evCh EXCEPT ![c] = Tail(@)]
  /\ UNCHANGED <<owner, handler, run, callVars, toolVars, resultCh, post>>

\* forwardEventsToStream
Forward(c) ==
  /\ handler[c] = "open"
  /\ evCh[c] # <<>>
  /\ Send(c, Head(evCh[c]))
  /\ evCh' = [evCh EXCEPT ![c] = Tail(@)]
  /\ UNCHANGED <<owner, handler, run, callVars, toolVars, resultCh, post>>

\* A handler that returns when the client is gone, whatever the run does.
UnregisterAtOnce(c) ==
  /\ handler[c] = "open"
  /\ handler' = [handler EXCEPT ![c] = "unregistered"]
  /\ waiters' = [i \in Ids |-> IF waiters[i] \in Own(c) THEN None ELSE waiters[i]]
  /\ UNCHANGED <<owner, run, evCh, stream, callVars, nextId, id, resultCh, post>>

\* A handler that returns at the end of the run, with events still in the channel.
UnregisterOnEnd(c) ==
  /\ handler[c] = "open"
  /\ run[c] = "ended"
  /\ handler' = [handler EXCEPT ![c] = "unregistered"]
  /\ waiters' = [i \in Ids |-> IF waiters[i] \in Own(c) THEN None ELSE waiters[i]]
  /\ UNCHANGED <<owner, run, evCh, stream, callVars, nextId, id, resultCh, post>>

\* The events are through and the channel is closed: the tools are unregistered.
Unregister(c) ==
  /\ handler[c] = "open"
  /\ run[c] = "ended" /\ evCh[c] = <<>>
  /\ handler' = [handler EXCEPT ![c] = "unregistered"]
  /\ waiters' = [i \in Ids |-> IF waiters[i] \in Own(c) THEN None ELSE waiters[i]]
  /\ UNCHANGED <<owner, run, evCh, stream, callVars, nextId, id, resultCh, post>>

\* Stream.close
Close(c) ==
  /\ handler[c] = "unregistered"
  /\ handler' = [handler EXCEPT ![c] = "closed"]
  /\ Send(c, Plain("[DONE]"))
  /\ UNCHANGED <<owner, run, evCh, callVars, toolVars, resultCh, post>>

-----------------------------------------------------------------------------
(***************************************************************************)
(* The run, and ProvidedTool.Call in it                                    *)
(***************************************************************************)

\* The arguments are broken JSON: the call fails before the client hears of it.
CallRefused(c, t) ==
  /\ run[c] = "running" /\ call[c] = None
  /\ owner[t] = c
  /\ calls < MaxCalls
  /\ calls' = calls + 1
  /\ call' = [call EXCEPT ![c] = [tool |-> t, n |-> calls + 1]]
  /\ result' = [result EXCEPT ![calls + 1] = "refused"]
  /\ UNCHANGED <<chatVars, toolVars, resultCh, post>>

\* The call goes to the stream itself, past the events that are on their way.
Call(c, t) ==
  /\ run[c] = "running" /\ call[c] = None
  /\ owner[t] = c
  /\ calls < MaxCalls
  /\ calls' = calls + 1
  /\ call' = [call EXCEPT ![c] = [tool |-> t, n |-> calls + 1]]
  /\ Send(c, [type |-> "provided_toolcall", n |-> calls + 1, id |-> id[t]])
  /\ UNCHANGED <<owner, handler, run, evCh, result, toolVars, resultCh, post>>

Waiting(c) == call[c] # None /\ result[call[c].n] = None

\* A result is in the channel, for whichever call it was meant.
Receive(c) ==
  /\ Waiting(c)
  /\ LET t == call[c].tool
     IN  /\ resultCh[t] # <<>>
         /\ result' = [result EXCEPT ![call[c].n] = Head(resultCh[t])]
         /\ resultCh' = [resultCh EXCEPT ![t] = Tail(@)]
  /\ UNCHANGED <<chatVars, calls, call, toolVars, post>>

\* 30 seconds are over, or the run was cancelled; a result may be there as well.
TimeOut(c) ==
  /\ Waiting(c)
  /\ result' = [result EXCEPT ![call[c].n] = "timeout"]
  /\ UNCHANGED <<chatVars, calls, call, toolVars, resultCh, post>>

\* The loop goes on with a result or an error event.
Report(c) ==
  /\ call[c] # None /\ ~Waiting(c)
  /\ Len(evCh[c]) < QueueSize
  /\ evCh' = [evCh EXCEPT ![c] = Append(@, [Plain("tool_result") EXCEPT !.n = call[c].n])]
  /\ call' = [call EXCEPT ![c] = None]
  /\ UNCHANGED <<owner, handler, run, stream, calls, result, toolVars, resultCh, post>>

\* The loop exits and Dispatcher.Chat returns.
RunEnds(c) ==
  /\ run[c] = "running" /\ call[c] = None
  /\ Len(evCh[c]) < QueueSize
  /\ evCh' = [evCh EXCEPT ![c] = Append(@, Plain("loop_exit"))]
  /\ run' = [run EXCEPT ![c] = "ended"]
  /\ UNCHANGED <<owner, handler, stream, callVars, toolVars, resultCh, post>>

\* Dispatcher.Chat returns an error before the loop starts.
RunFails(c) ==
  /\ run[c] = "running" /\ call[c] = None
  /\ stream[c] = <<>> /\ evCh[c] = <<>>
  /\ run' = [run EXCEPT ![c] = "ended"]
  /\ Send(c, Plain("error"))
  /\ UNCHANGED <<owner, handler, evCh, callVars, toolVars, resultCh, post>>

-----------------------------------------------------------------------------
(***************************************************************************)
(* ResolveCall, for a call the client has seen on a stream                 *)
(***************************************************************************)

\* The id is looked up and the lock released.
Lookup(p, n, i) ==
  /\ post[p].pc = "new"
  /\ \E c \in Chats : \E e \in {stream[c][k] : k \in DOMAIN stream[c]} :
       e.type = "provided_toolcall" /\ e.n = n /\ e.id = i
  /\ post' = [post EXCEPT ![p] = [pc |-> IF waiters[i] # None THEN "found" ELSE "refused",
                                  tool |-> waiters[i], n |-> n]]
  /\ UNCHANGED <<chatVars, callVars, toolVars, resultCh>>

\* A result that is dropped when the channel is full.
PutOrDrop(p) ==
  /\ post[p].pc = "found"
  /\ resultCh' = IF resultCh[post[p].tool] = <<>>
                 THEN [resultCh EXCEPT ![post[p].tool] = <<p>>] ELSE resultCh
  /\ post' = [post EXCEPT ![p].pc = "sent"]
  /\ UNCHANGED <<chatVars, callVars, toolVars>>

\* resCh <- res: blocks while an earlier result is in the channel.
Put(p) ==
  /\ post[p].pc = "found"
  /\ resultCh[post[p].tool] = <<>>
  /\ resultCh' = [resultCh EXCEPT ![post[p].tool] = <<p>>]
  /\ post' = [post EXCEPT ![p].pc = "sent"]
  /\ UNCHANGED <<chatVars, callVars, toolVars>>

-----------------------------------------------------------------------------
Handler(c) == Open(c) \/ BadRequest(c) \/ Forward(c) \/ Unregister(c) \/ Close(c)

Run(c) ==
  \/ \E t \in Tools : Call(c, t) \/ CallRefused(c, t)
  \/ Receive(c) \/ TimeOut(c) \/ Report(c) \/ RunEnds(c) \/ RunFails(c)

ResolveCall(p) == Put(p) \/ \E n \in Calls, i \in Ids : Lookup(p, n, i)

Next ==
  \/ \E c \in Chats : Handler(c) \/ Run(c)
  \/ \E p \in Posts : ResolveCall(p)

Spec == Init /\ [][Next]_vars

(***************************************************************************)
(* Timers fire and goroutines run.  Nobody has to post a result, and the   *)
(* loop need not end.                                                      *)
(***************************************************************************)
FairSpec ==
  /\ Spec
  /\ \A c \in Chats : /\ WF_vars(Forward(c) \/ Unregister(c) \/ Close(c))
                      /\ WF_vars(TimeOut(c) \/ Receive(c)) /\ WF_vars(Report(c))

-----------------------------------------------------------------------------
(***************************************************************************)
(* Properties                                                              *)
(***************************************************************************)

\* While a loop waits for a result the id the client was told leads to the channel
\* the loop reads: no tool is unregistered under a call, whatever becomes of the
\* client's connection (the handler waits for the run, provided_tools.go:81-88).
WaitingIsAnswerable ==
  \A c \in Chats : Waiting(c) => waiters[id[call[c].tool]] = call[c].tool

\* A result that was accepted with 200 is in its tool's channel or was returned by
\* exactly one call (ResolveCall, ProvidedTool.Call).
EachResultOnce ==
  \A p \in Posts : post[p].pc = "sent" =>
    LET inChannel == \E t \in Tools : resultCh[t] = <<p>>
        returned  == {n \in Calls : result[n] = p}
    IN  IF inChannel THEN returned = {} ELSE Cardinality(returned) = 1

\* As long as no call was given up and no call was answered twice, every call
\* returns the result that was posted for it, also where several chats call at
\* once.  The channel outlives the call, so that without the premise it is false.
PromptClientsServed ==
  (/\ \A n \in Calls : result[n] # "timeout"
   /\ \A p, q \in Posts : post[p].n = post[q].n => p = q \/ post[p].n = None)
  => \A n \in Calls : result[n] \in Posts => post[result[n]].n = n

\* The stream ends with [DONE].  By then the loop's report of every call that was sent
\* to the client has come behind the call, and the exit came last: the handler forwards
\* the result of a provided tool as that of any other (forwardEventsToStream).
\* docs/chat.md:98 has the call on the stream instead of a result; it has both.
StreamIsComplete ==
  \A c \in Chats : handler[c] = "closed" =>
    LET last == Len(stream[c])
        At(i, type) == i >= 1 /\ stream[c][i].type = type
    IN  /\ At(last, "[DONE]") /\ (At(last - 1, "loop_exit") \/ At(last - 1, "error"))
        /\ \A i \in 1..last : At(i, "provided_toolcall") =>
             \E j \in i + 1..last : At(j, "tool_result") /\ stream[c][j].n = stream[c][i].n

\* A call returns and is reported though no result comes, and when the run is over
\* the response is closed (ProvidedTool.Call, chatHandler.Chat).
ChatsEnd ==
  \A c \in Chats : /\ (call[c] # None) ~> (call[c] = None)
                   /\ (run[c] = "ended") ~> (handler[c] = "closed")
=============================================================================
