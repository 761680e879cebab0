------------------------- MODULE ProvidedToolsProofs -------------------------
(***************************************************************************)
(* Theorems about ProvidedTools, for any chats, tools, requests and        *)
(* bounds: a waiting call can be answered, a result is used once and by    *)
(* the call it is for, and a stream that ends is complete.                 *)
(***************************************************************************)
EXTENDS ProvidedTools, FiniteSetTheorems, SequenceTheorems, TLAPS

(***************************************************************************)
(* The inductive invariant                                                 *)
(***************************************************************************)

\* What is on its way to the stream are the results of calls and the exit of the loop.
Channels ==
  /\ evCh \in [Chats -> Seq(Event)] /\ stream \in [Chats -> Seq(Event)]
  /\ \A c \in Chats : \A k \in 1..Len(evCh[c]) : evCh[c][k].type \in {"tool_result", "loop_exit"}

\* The handler of a chat waits for the run, and the run for the call it is in.
HandlerWaits ==
  \A c \in Chats :
    /\ handler[c] = "new" => run[c] = "idle" /\ stream[c] = <<>> /\ evCh[c] = <<>>
    /\ handler[c] = "open" => run[c] \in {"running", "ended"}
    /\ handler[c] = "unregistered" => run[c] = "ended" /\ evCh[c] = <<>>
    /\ handler[c] = "closed" => run[c] # "running" /\ evCh[c] = <<>>
    /\ call[c] # None => run[c] = "running" /\ owner[call[c].tool] = c

\* As long as its chat is open, the id of a tool leads to it.
IdsLead ==
  \A t \in Tools : handler[owner[t]] = "open" => id[t] # None /\ waiters[id[t]] = t

\* No two tools have the same id, and all ids come from the generator.
Numbered == {t \in Tools : id[t] # None}

IdsAreUnique ==
  /\ \A t \in Numbered : id[t] < nextId /\ handler[owner[t]] # "new"
  /\ \A s, t \in Numbered : id[s] = id[t] => s = t
  /\ nextId = Cardinality(Numbered) + 1

\* A call is a chat's current one, or it has returned.
CallsReturn ==
  /\ \A c \in Chats : call[c] # None => call[c].n <= calls
  /\ \A c, d \in Chats : call[c] # None /\ call[d] # None /\ call[c].n = call[d].n => c = d
  /\ \A n \in Calls : n > calls => result[n] = None
  /\ \A n \in Calls : n <= calls /\ result[n] = None =>
       \E c \in Chats : call[c] # None /\ call[c].n = n

\* The client of the chat c was told of the call n and the id i.
Told(c, n, i) ==
  \E k \in 1..Len(stream[c]) :
    /\ stream[c][k].type = "provided_toolcall"
    /\ stream[c][k].n = n /\ stream[c][k].id = i

\* A client is told of calls of its own tools, of each once, and of none that was refused.
CallsAreTold ==
  /\ \A c \in Chats, n \in Calls \cup {None}, i \in Ids \cup {None} :
       Told(c, n, i) => /\ n \in Calls /\ n <= calls /\ result[n] # "refused"
                        /\ \E t \in Tools : owner[t] = c /\ id[t] = i /\ id[t] # None
  /\ \A c, d \in Chats, n \in Calls, i, j \in Ids :
       Told(c, n, i) /\ Told(d, n, j) => c = d /\ i = j
  /\ \A c \in Chats : Waiting(c) => Told(c, call[c].n, id[call[c].tool])

\* A request that found a tool names a call its client was told of with the id of that tool.
PostsAreForCalls ==
  \A p \in Posts :
    /\ post[p].pc = "new" => post[p].n = None
    /\ post[p].pc \in {"found", "sent"} =>
         /\ post[p].tool \in Tools /\ post[p].n \in Calls /\ id[post[p].tool] # None
         /\ \E c \in Chats : Told(c, post[p].n, id[post[p].tool])

\* A result is in one channel or was returned by one call, and only when it was accepted.
ResultsOnce ==
  /\ \A t \in Tools, p \in Posts : resultCh[t] = <<p>> =>
       /\ post[p].pc = "sent" /\ post[p].tool = t
       /\ \A n \in Calls : result[n] # p
  /\ \A n \in Calls : result[n] \in Posts => post[result[n]].pc = "sent"
  /\ \A m, n \in Calls : result[m] \in Posts /\ result[m] = result[n] => m = n
  /\ \A p \in Posts : post[p].pc = "sent" =>
       (\E t \in Tools : resultCh[t] = <<p>>) \/ (\E n \in Calls : result[n] = p)

\* The result of a call follows it on the stream, unless it is on its way or still to come.
Reports(e, n) == e.type = "tool_result" /\ e.n = n

AnswersCome(c) ==
  \A k \in 1..Len(stream[c]) : stream[c][k].type = "provided_toolcall" =>
    \/ call[c] # None /\ call[c].n = stream[c][k].n
    \/ \E j \in 1..Len(evCh[c]) : Reports(evCh[c][j], stream[c][k].n)
    \/ \E j \in k + 1..Len(stream[c]) : Reports(stream[c][j], stream[c][k].n)

AnswersFollow == \A c \in Chats : AnswersCome(c)

\* When the run is over its exit is the last event, but for [DONE].
Exits(e) == e.type \in {"loop_exit", "error"}

EndsWithExit(c) ==
  /\ run[c] = "ended" /\ handler[c] # "closed" =>
       IF evCh[c] = <<>> THEN Len(stream[c]) >= 1 /\ Exits(stream[c][Len(stream[c])])
       ELSE Exits(evCh[c][Len(evCh[c])])
  /\ handler[c] = "closed" =>
       /\ Len(stream[c]) >= 2 /\ Exits(stream[c][Len(stream[c]) - 1])
       /\ stream[c][Len(stream[c])].type = "[DONE]"

ExitComesLast == \A c \in Chats : EndsWithExit(c)

\* The premise of PromptClientsServed.
Prompt ==
  /\ \A n \in Calls : result[n] # "timeout"
  /\ \A p, q \in Posts : post[p].n = post[q].n => p = q \/ post[p].n = None

ProvidedInv ==
  /\ TypeOK /\ Channels /\ HandlerWaits /\ IdsLead /\ IdsAreUnique /\ CallsReturn
  /\ CallsAreTold /\ PostsAreForCalls /\ ResultsOnce /\ PromptClientsServed
  /\ AnswersFollow /\ ExitComesLast

-----------------------------------------------------------------------------
(***************************************************************************)
(* What the steps do to sequences and to records                           *)
(***************************************************************************)

\* An event that is appended comes last.
LEMMA Longer ==
  ASSUME NEW S, NEW s \in Seq(S), NEW e \in S
  PROVE  /\ Append(s, e) \in Seq(S) /\ Len(Append(s, e)) = Len(s) + 1
         /\ Append(s, e)[Len(s) + 1] = e
         /\ \A k \in 1..Len(s) : Append(s, e)[k] = s[k]
         /\ Len(s) \in Nat
OBVIOUS

\* The event that is taken was the first, and the others move up.
LEMMA Shorter ==
  ASSUME NEW S, NEW s \in Seq(S), s # <<>>
  PROVE  /\ Head(s) = s[1] /\ Head(s) \in S
         /\ Tail(s) \in Seq(S) /\ Len(Tail(s)) = Len(s) - 1
         /\ \A k \in 1..Len(s) - 1 : Tail(s)[k] = s[k + 1]
         /\ Len(s) \in Nat /\ Len(s) >= 1
OBVIOUS

\* A sequence is empty when it has no elements.
LEMMA Emptiness ==
  ASSUME NEW S, NEW s \in Seq(S)
  PROVE  s = <<>> <=> Len(s) = 0
OBVIOUS

\* A channel that holds one result.
LEMMA OneResult ==
  ASSUME NEW p
  PROVE  /\ <<p>> # <<>> /\ Head(<<p>>) = p /\ Tail(<<p>>) = <<>>
         /\ \A q : <<p>> = <<q>> => p = q
OBVIOUS

\* The events that are sent.
LEMMA Events ==
  /\ \A type \in {"provided_toolcall", "tool_result", "loop_exit", "error", "[DONE]"} :
       Plain(type) \in Event /\ Plain(type).type = type /\ Plain(type).n = None
  /\ \A n \in Calls, i \in Ids : 
       [type |-> "provided_toolcall", n |-> n, id |-> i] \in Event
  /\ \A n \in Calls :
       LET e == [Plain("tool_result") EXCEPT !.n = n]
       IN  e \in Event /\ e.type = "tool_result" /\ e.n = n
BY DEF Plain, Event

\* Numbers are numbers, and None is none.
LEMMA Shapes ==
  /\ MaxCalls \in Nat /\ QueueSize \in Nat /\ QueueSize >= 1
  /\ IsFiniteSet(Tools) /\ Cardinality(Tools) \in Nat
  /\ None \notin Calls /\ None \notin Ids /\ None \notin Tools /\ None \notin Posts
  /\ "timeout" \notin Posts /\ None # "timeout"
  /\ "refused" \notin Posts /\ None # "refused"
  /\ \A t \in Tools, n \in Nat : [tool |-> t, n |-> n] # None
<1>1. Cardinality(Tools) \in Nat
  BY ProvidedAssumption, FS_CardinalityType
<1>2. Calls \subseteq Nat /\ Ids \subseteq Nat
  BY DEF Calls, Ids
<1> QED BY <1>1, <1>2, ProvidedAssumption

\* The variables that hold a value for each chat, tool, call or request.
LEMMA Functions ==
  ASSUME TypeOK, Channels
  PROVE  /\ \A c \in Chats : stream[c] \in Seq(Event) /\ evCh[c] \in Seq(Event)
         /\ \A c \in Chats : call[c] # None => call[c].tool \in Tools /\ call[c].n \in Calls
         /\ \A t \in Tools : owner[t] \in Chats /\ (id[t] # None => id[t] \in Ids)
         /\ \A t \in Tools : resultCh[t] # <<>> => \E p \in Posts : resultCh[t] = <<p>>
         /\ \A i \in Ids : waiters[i] # None => waiters[i] \in Tools /\ id[waiters[i]] = i
         /\ calls \in Nat /\ nextId \in Nat /\ \A n \in Calls : n \in Nat
<1>1. Calls \subseteq Nat
  BY Shapes DEF Calls
<1>2. calls \in Nat /\ nextId \in Nat
  BY Shapes DEF TypeOK
<1> QED BY <1>1, <1>2 DEF TypeOK, Channels

\* What the step Send does to the streams.
LEMMA Sends ==
  ASSUME TypeOK, Channels, NEW c \in Chats, NEW e \in Event, Send(c, e)
  PROVE  /\ stream' \in [Chats -> Seq(Event)]
         /\ \A d \in Chats : d # c => stream'[d] = stream[d]
         /\ Len(stream[c]) \in Nat /\ Len(stream'[c]) = Len(stream[c]) + 1
         /\ stream'[c][Len(stream[c]) + 1] = e
         /\ \A k \in 1..Len(stream[c]) : stream'[c][k] = stream[c][k]
<1>1. stream \in [Chats -> Seq(Event)] /\ stream' = [stream EXCEPT ![c] = Append(@, e)]
  BY DEF Channels, Send
<1>2. stream'[c] = Append(stream[c], e) /\ stream[c] \in Seq(Event)
  BY <1>1
<1>3. stream' \in [Chats -> Seq(Event)]
  BY <1>1, Longer
<1> QED BY <1>1, <1>2, <1>3, Longer

\* A client is told what is sent, and stays told what it was.
LEMMA Tells ==
  ASSUME TypeOK, Channels, NEW c \in Chats, NEW e \in Event, Send(c, e)
  PROVE  \A d \in Chats : \A n, i : Told(d, n, i)' <=>
           \/ Told(d, n, i)
           \/ d = c /\ e.type = "provided_toolcall" /\ e.n = n /\ e.id = i
<1> SUFFICES ASSUME NEW d \in Chats, NEW n, NEW i
             PROVE  Told(d, n, i)' <=>
                      \/ Told(d, n, i)
                      \/ d = c /\ e.type = "provided_toolcall" /\ e.n = n /\ e.id = i
  OBVIOUS
<1>1. CASE d # c
  BY <1>1, Sends DEF Told
<1>2. CASE d = c
  <2>1. /\ Len(stream[c]) \in Nat /\ Len(stream'[c]) = Len(stream[c]) + 1
        /\ stream'[c][Len(stream[c]) + 1] = e
        /\ \A k \in 1..Len(stream[c]) : stream'[c][k] = stream[c][k]
    BY Sends
  <2>2. 1..Len(stream'[c]) = 1..Len(stream[c]) \cup {Len(stream[c]) + 1}
    BY <2>1
  <2> QED BY <1>2, <2>1, <2>2 DEF Told
<1> QED BY <1>1, <1>2

\* Only a post and the return of a call change where a result is.
LEMMA ResultsStay ==
  ASSUME ResultsOnce, UNCHANGED <<post, resultCh, result>>
  PROVE  ResultsOnce'
BY DEF ResultsOnce

\* The waiting calls are those of an open chat.
LEMMA WaitingInOpenChat ==
  ASSUME ProvidedInv, NEW c \in Chats, Waiting(c)
  PROVE  /\ call[c].tool \in Tools /\ handler[owner[call[c].tool]] = "open"
<1>1. call[c] # None
  BY DEF Waiting
<1>2. call[c].tool \in Tools /\ owner[call[c].tool] = c /\ run[c] = "running"
  BY <1>1, Functions DEF ProvidedInv, HandlerWaits
<1>3. handler[c] \in {"new", "open", "unregistered", "closed"}
  BY DEF ProvidedInv, TypeOK
<1> QED BY <1>2, <1>3 DEF ProvidedInv, HandlerWaits

\* The tools of a chat get ids that no tool has yet.
LEMMA InvOpen ==
  ASSUME ProvidedInv, NEW c \in Chats, Open(c)
  PROVE  ProvidedInv'
<1>0. /\ TypeOK /\ Channels /\ HandlerWaits /\ IdsLead /\ IdsAreUnique /\ CallsReturn
      /\ CallsAreTold /\ PostsAreForCalls /\ ResultsOnce /\ PromptClientsServed
      /\ AnswersFollow /\ ExitComesLast
  BY DEF ProvidedInv
<1>k. UNCHANGED <<owner, calls, call, result, resultCh, evCh, stream, post>>
  BY DEF Open, callVars
<1>a. PICK f \in [Own(c) -> nextId..nextId + Cardinality(Own(c)) - 1] :
        /\ \A s, t \in Own(c) : f[s] = f[t] => s = t
        /\ id' = [t \in Tools |-> IF t \in Own(c) THEN f[t] ELSE id[t]]
        /\ waiters' = [i \in Ids |-> IF \E t \in Own(c) : f[t] = i
                                     THEN CHOOSE t \in Own(c) : f[t] = i ELSE waiters[i]]
        /\ nextId' = nextId + Cardinality(Own(c))
  BY DEF Open, Register
<1>h. /\ handler[c] = "new" /\ handler' \in [Chats -> {"new", "open", "unregistered", "closed"}]
      /\ handler'[c] = "open" /\ \A d \in Chats : d # c => handler'[d] = handler[d]
      /\ run' \in [Chats -> {"idle", "running", "ended"}]
      /\ run'[c] = "running" /\ \A d \in Chats : d # c => run'[d] = run[d]
  BY <1>0 DEF Open, TypeOK
<1>o. Numbered \cap Own(c) = {} /\ Numbered \subseteq Tools /\ Own(c) \subseteq Tools
  BY <1>0, <1>h DEF IdsAreUnique, Numbered, Own
<1>n. /\ nextId \in Nat /\ nextId' \in Nat /\ nextId' <= Cardinality(Tools) + 1 /\ nextId <= nextId'
      /\ nextId' = Cardinality(Numbered \cup Own(c)) + 1
  <2>1. IsFiniteSet(Numbered) /\ IsFiniteSet(Own(c)) /\ IsFiniteSet(Numbered \cup Own(c))
    BY <1>o, Shapes, FS_Subset
  <2>2. Cardinality(Numbered \cup Own(c)) = Cardinality(Numbered) + Cardinality(Own(c))
    <3>1. Cardinality(Numbered \cup Own(c)) =
            Cardinality(Numbered) + Cardinality(Own(c)) - Cardinality({})
      BY <1>o, <2>1, FS_Union
    <3> QED BY <2>1, <3>1, FS_EmptySet, FS_CardinalityType
  <2>3. Cardinality(Numbered \cup Own(c)) <= Cardinality(Tools)
    BY <1>o, Shapes, FS_Subset
  <2>4. Cardinality(Numbered) \in Nat /\ Cardinality(Own(c)) \in Nat
    BY <2>1, FS_CardinalityType
  <2>5. nextId = Cardinality(Numbered) + 1
    BY <1>0 DEF IdsAreUnique
  <2> QED BY <1>a, <2>2, <2>3, <2>4, <2>5, Shapes
<1>f. \A t \in Own(c) : f[t] \in Nat /\ nextId <= f[t] /\ f[t] < nextId' /\ f[t] \in Ids /\ f[t] # None
  <2>1. Cardinality(Own(c)) \in Nat /\ Cardinality(Tools) \in Nat /\ nextId >= 1
    BY <1>0, <1>o, Shapes, FS_Subset, FS_CardinalityType DEF TypeOK
  <2>3. \A t \in Own(c) : f[t] \in Nat /\ nextId <= f[t] /\ f[t] < nextId' /\ f[t] \in Ids
    BY <1>a, <1>n, <2>1 DEF Ids
  <2> QED BY <2>3, Shapes
<1>i. /\ id' \in [Tools -> Ids \cup {None}]
      /\ \A t \in Own(c) : id'[t] = f[t]
      /\ \A t \in Tools : t \notin Own(c) => id'[t] = id[t]
  BY <1>0, <1>a, <1>f, <1>o DEF TypeOK
<1>w. /\ waiters' \in [Ids -> Tools \cup {None}]
      /\ \A t \in Own(c) : waiters'[f[t]] = t
      /\ \A i \in Ids : (\A t \in Own(c) : f[t] # i) => waiters'[i] = waiters[i]
  <2>1. \A i \in Ids : (\E t \in Own(c) : f[t] = i) => waiters'[i] \in Own(c) /\ f[waiters'[i]] = i
    BY <1>a
  <2>2. \A i \in Ids : (\A t \in Own(c) : f[t] # i) => waiters'[i] = waiters[i]
    BY <1>a
  <2>3. \A t \in Own(c) : waiters'[f[t]] = t
    BY <1>a, <1>f, <2>1
  <2>4. waiters' \in [Ids -> Tools \cup {None}]
    BY <1>0, <1>a, <1>o DEF TypeOK
  <2> QED BY <2>2, <2>3, <2>4
<1>j. Numbered' = Numbered \cup Own(c)
  BY <1>f, <1>i, <1>o DEF Numbered
<1>s. \A t \in Tools : id[t] # None => id'[t] = id[t] /\ t \in Numbered /\ t \notin Own(c)
  BY <1>i, <1>o DEF Numbered
<1>1. TypeOK'
  <2>1. ASSUME NEW i \in Ids, waiters'[i] # None
        PROVE  id'[waiters'[i]] = i
    <3>1. CASE \E t \in Own(c) : f[t] = i
      BY <1>i, <1>w, <3>1
    <3>2. CASE \A t \in Own(c) : f[t] # i
      <4>1. waiters'[i] = waiters[i] /\ waiters[i] \in Tools /\ id[waiters[i]] = i
        BY <1>0, <1>w, <2>1, <3>2 DEF TypeOK
      <4> QED BY <1>s, <4>1, Shapes
    <3> QED BY <3>1, <3>2
  <2>2. nextId' \in 1..Cardinality(Tools) + 1
    <3>1. nextId >= 1
      BY <1>0 DEF TypeOK
    <3> QED BY <1>n, <3>1, Shapes
  <2> QED BY <1>0, <1>h, <1>i, <1>k, <1>w, <2>1, <2>2 DEF TypeOK
<1>2. HandlerWaits'
  BY <1>0, <1>h, <1>k DEF HandlerWaits
<1>3. IdsLead'
  <2> SUFFICES ASSUME NEW t \in Tools, handler'[owner[t]] = "open"
               PROVE  id'[t] # None /\ waiters'[id'[t]] = t
    BY <1>k DEF IdsLead
  <2>1. CASE t \in Own(c)
    BY <1>f, <1>i, <1>w, <2>1
  <2>2. CASE t \notin Own(c)
    <3>1. handler[owner[t]] = "open"
      BY <1>0, <1>h, <2>2, Functions DEF Own
    <3>2. id[t] \in Ids /\ id[t] # None /\ waiters[id[t]] = t /\ t \in Numbered
      BY <1>0, <3>1, Functions DEF IdsLead, Numbered
    <3>3. \A s \in Own(c) : f[s] # id[t]
      <4>1. id[t] < nextId /\ id[t] \in Nat
        BY <1>0, <3>2 DEF IdsAreUnique, Ids
      <4> QED BY <1>f, <1>n, <4>1
    <3> QED BY <1>i, <1>w, <2>2, <3>2, <3>3
  <2> QED BY <2>1, <2>2
<1>4. IdsAreUnique'
  <2>1. \A t \in Numbered : /\ id'[t] = id[t] /\ id[t] \in Nat /\ id[t] < nextId
                            /\ handler'[owner[t]] # "new"
    <3>1. \A t \in Numbered : id[t] \in Nat
      BY <1>0, Functions DEF Numbered, Ids
    <3>2. \A t \in Numbered : id[t] < nextId /\ handler[owner[t]] # "new" /\ owner[t] \in Chats
      BY <1>0, Functions DEF IdsAreUnique, Numbered
    <3> QED BY <1>h, <1>s, <3>1, <3>2 DEF Numbered
  <2>2. \A t \in Own(c) : id'[t] = f[t] /\ handler'[owner[t]] # "new"
    BY <1>h, <1>i DEF Own
  <2>3. ASSUME NEW t \in Numbered'
        PROVE  id'[t] < nextId' /\ handler'[owner[t]] # "new"
    <3>1. CASE t \in Numbered
      BY <1>n, <2>1, <3>1
    <3>2. CASE t \in Own(c)
      BY <1>f, <2>2, <3>2
    <3> QED BY <1>j, <3>1, <3>2
  <2>4. ASSUME NEW s \in Numbered', NEW t \in Numbered', id'[s] = id'[t]
        PROVE  s = t
    <3>1. CASE s \in Numbered /\ t \in Numbered
      BY <1>0, <2>1, <2>4, <3>1 DEF IdsAreUnique
    <3>2. CASE s \in Own(c) /\ t \in Own(c)
      BY <1>a, <2>2, <2>4, <3>2
    <3>3. \A x \in Numbered, y \in Own(c) : id'[x] # id'[y]
      BY <1>n, <2>1, <2>2
    <3> QED BY <1>j, <2>4, <3>1, <3>2, <3>3
  <2> QED BY <1>j, <1>k, <1>n, <2>3, <2>4 DEF IdsAreUnique
<1>5. CallsAreTold'
  <2>1. \A d \in Chats : call[d] # None => id'[call[d].tool] = id[call[d].tool]
    <3> SUFFICES ASSUME NEW d \in Chats, call[d] # None
                 PROVE  id'[call[d].tool] = id[call[d].tool]
      OBVIOUS
    <3>1. call[d].tool \in Tools /\ call[d].tool \notin Own(c)
      BY <1>0, <1>h, Functions DEF HandlerWaits, Own
    <3> QED BY <1>i, <3>1
  <2>2. \A d \in Chats : \A n, i : Told(d, n, i)' <=> Told(d, n, i)
    BY <1>k DEF Told
  <2> QED BY <1>0, <1>k, <1>s, <2>1, <2>2 DEF CallsAreTold, Waiting
<1>6. PostsAreForCalls'
  <2>1. \A d \in Chats : \A n, i : Told(d, n, i)' <=> Told(d, n, i)
    BY <1>k DEF Told
  <2> QED BY <1>0, <1>k, <1>s, <2>1 DEF PostsAreForCalls
<1>7. ExitComesLast'
  <2> SUFFICES ASSUME NEW d \in Chats PROVE EndsWithExit(d)'
    BY DEF ExitComesLast
  <2>1. CASE d # c
    <3>1. EndsWithExit(d)
      BY <1>0 DEF ExitComesLast
    <3> QED BY <1>h, <1>k, <3>1 DEF EndsWithExit
  <2>2. CASE d = c
    BY <1>h, <2>2 DEF EndsWithExit
  <2> QED BY <2>1, <2>2
<1>8. Channels' /\ CallsReturn'
  BY <1>0, <1>k DEF Channels, CallsReturn
<1>9. ResultsOnce'
  BY <1>0, <1>k, ResultsStay
<1>10. PromptClientsServed'
  BY <1>0, <1>k DEF PromptClientsServed
<1>11. AnswersFollow'
  BY <1>0, <1>k DEF AnswersFollow, AnswersCome
<1> QED BY <1>1, <1>2, <1>3, <1>4, <1>5, <1>6, <1>7, <1>8, <1>9, <1>10, <1>11 DEF ProvidedInv

\* A broken request is answered at once.
LEMMA InvBadRequest ==
  ASSUME ProvidedInv, NEW c \in Chats, BadRequest(c)
  PROVE  ProvidedInv'
<1>0. /\ TypeOK /\ Channels /\ HandlerWaits /\ IdsLead /\ IdsAreUnique /\ CallsReturn
      /\ CallsAreTold /\ PostsAreForCalls /\ ResultsOnce /\ PromptClientsServed
      /\ AnswersFollow /\ ExitComesLast
  BY DEF ProvidedInv
<1>k. UNCHANGED <<owner, run, calls, call, result, nextId, id, waiters, resultCh, evCh, post>>
  BY DEF BadRequest, callVars, toolVars
<1>h. /\ handler[c] = "new" /\ handler' \in [Chats -> {"new", "open", "unregistered", "closed"}]
      /\ handler'[c] = "closed" /\ \A d \in Chats : d # c => handler'[d] = handler[d]
      /\ run[c] = "idle" /\ stream[c] = <<>> /\ evCh[c] = <<>>
  BY <1>0 DEF BadRequest, TypeOK, HandlerWaits
<1>s. /\ stream' \in [Chats -> Seq(Event)] /\ \A d \in Chats : d # c => stream'[d] = stream[d]
      /\ Len(stream'[c]) = 2 /\ stream'[c][1].type = "error" /\ stream'[c][2].type = "[DONE]"
  <2>1. Plain("error") \in Event /\ Plain("[DONE]") \in Event
    BY Events
  <2>2. stream' = [stream EXCEPT ![c] = <<Plain("error"), Plain("[DONE]")>>]
    BY DEF BadRequest
  <2>3. stream'[c] = <<Plain("error"), Plain("[DONE]")>> /\ stream'[c] \in Seq(Event)
    BY <1>0, <2>1, <2>2 DEF Channels
  <2>4. stream' \in [Chats -> Seq(Event)] /\ \A d \in Chats : d # c => stream'[d] = stream[d]
    BY <1>0, <2>2, <2>3 DEF Channels
  <2> QED BY <2>3, <2>4, Events
<1>t. \A d \in Chats : \A n, i : Told(d, n, i)' <=> Told(d, n, i)
  <2>1. \A n, i : ~Told(c, n, i)' /\ ~Told(c, n, i)
    BY <1>h, <1>s DEF Told
  <2>2. ASSUME NEW d \in Chats, d # c, NEW n, NEW i
        PROVE  Told(d, n, i)' <=> Told(d, n, i)
    BY <1>s, <2>2 DEF Told
  <2> QED BY <2>1, <2>2
<1>1. TypeOK'
  <2> QED BY <1>0, <1>h, <1>s, <1>k DEF TypeOK
<1>2. Channels'
  BY <1>0, <1>k, <1>s DEF Channels
<1>3. HandlerWaits'
  BY <1>0, <1>h, <1>k, <1>s DEF HandlerWaits
<1>4. IdsLead'
  BY <1>0, <1>h, <1>k, Functions DEF IdsLead
<1>5. IdsAreUnique'
  BY <1>0, <1>h, <1>k, Functions DEF IdsAreUnique, Numbered
<1>6. CallsAreTold'
  BY <1>0, <1>k, <1>t DEF CallsAreTold, Waiting
<1>7. PostsAreForCalls'
  BY <1>0, <1>k, <1>t DEF PostsAreForCalls
<1>8. AnswersFollow'
  <2> SUFFICES ASSUME NEW d \in Chats PROVE AnswersCome(d)'
    BY DEF AnswersFollow
  <2>1. CASE d # c
    <3>1. AnswersCome(d)
      BY <1>0 DEF AnswersFollow
    <3> QED BY <1>k, <1>s, <2>1, <3>1 DEF AnswersCome
  <2>2. CASE d = c
    <3>1. \A k \in 1..Len(stream'[c]) : stream'[c][k].type # "provided_toolcall"
      <4>1. 1..Len(stream'[c]) = {1, 2}
        BY <1>s
      <4> QED BY <1>s, <4>1
    <3> QED BY <2>2, <3>1 DEF AnswersCome
  <2> QED BY <2>1, <2>2
<1>9. ExitComesLast'
  <2> SUFFICES ASSUME NEW d \in Chats PROVE EndsWithExit(d)'
    BY DEF ExitComesLast
  <2>1. CASE d # c
    <3>1. EndsWithExit(d)
      BY <1>0 DEF ExitComesLast
    <3> QED BY <1>h, <1>k, <1>s, <2>1, <3>1 DEF EndsWithExit
  <2>2. CASE d = c
    <3>1. Len(stream'[c]) >= 2 /\ Len(stream'[c]) - 1 = 1
      BY <1>s
    <3> QED BY <1>h, <1>s, <2>2, <3>1 DEF EndsWithExit, Exits
  <2> QED BY <2>1, <2>2
<1>10. CallsReturn'
  BY <1>0, <1>k DEF CallsReturn
<1>11. ResultsOnce'
  BY <1>0, <1>k, ResultsStay
<1>12. PromptClientsServed'
  BY <1>0, <1>k DEF PromptClientsServed
<1> QED BY <1>1, <1>2, <1>3, <1>4, <1>5, <1>6, <1>7, <1>8, <1>9, <1>10, <1>11, <1>12
           DEF ProvidedInv

\* An event that is forwarded goes from the channel to the stream.
LEMMA InvForward ==
  ASSUME ProvidedInv, NEW c \in Chats, Forward(c)
  PROVE  ProvidedInv'
<1>0. /\ TypeOK /\ Channels /\ HandlerWaits /\ IdsLead /\ IdsAreUnique /\ CallsReturn
      /\ CallsAreTold /\ PostsAreForCalls /\ ResultsOnce /\ PromptClientsServed
      /\ AnswersFollow /\ ExitComesLast
  BY DEF ProvidedInv
<1>k. UNCHANGED <<owner, handler, run, calls, call, result, nextId, id, waiters, resultCh, post>>
  BY DEF Forward, callVars, toolVars
<1>x. /\ handler[c] = "open" /\ evCh[c] # <<>> /\ evCh[c] \in Seq(Event)
      /\ evCh' = [evCh EXCEPT ![c] = Tail(@)]
  BY <1>0, Functions DEF Forward
<1>y. /\ Head(evCh[c]) = evCh[c][1] /\ Len(evCh[c]) \in Nat /\ Len(evCh[c]) >= 1
      /\ Head(evCh[c]) \in Event /\ Tail(evCh[c]) \in Seq(Event)
      /\ Len(Tail(evCh[c])) = Len(evCh[c]) - 1
      /\ \A k \in 1..Len(evCh[c]) - 1 : Tail(evCh[c])[k] = evCh[c][k + 1]
  BY <1>x, Shorter
<1>v. /\ evCh' \in [Chats -> Seq(Event)] /\ \A d \in Chats : d # c => evCh'[d] = evCh[d]
      /\ Len(evCh'[c]) = Len(evCh[c]) - 1
      /\ \A k \in 1..Len(evCh[c]) - 1 : evCh'[c][k] = evCh[c][k + 1]
  <2>1. evCh \in [Chats -> Seq(Event)]
    BY <1>0 DEF Channels
  <2> QED BY <1>x, <1>y, <2>1
<1>z. Head(evCh[c]).type \in {"tool_result", "loop_exit"}
  <2> QED BY <1>0, <1>y DEF Channels
<1>e. Head(evCh[c]) \in Event
  BY <1>y
<1>d. Send(c, Head(evCh[c]))
  BY DEF Forward
<1>s. /\ stream' \in [Chats -> Seq(Event)]
      /\ \A d \in Chats : d # c => stream'[d] = stream[d]
      /\ Len(stream[c]) \in Nat /\ Len(stream'[c]) = Len(stream[c]) + 1
      /\ stream'[c][Len(stream[c]) + 1] = Head(evCh[c])
      /\ \A k \in 1..Len(stream[c]) : stream'[c][k] = stream[c][k]
  BY <1>0, <1>d, <1>e, Sends
<1>t. \A d \in Chats : \A n, i : Told(d, n, i)' <=> Told(d, n, i)
  BY <1>0, <1>d, <1>e, <1>z, Tells
<1>1. TypeOK'
  <2>1. /\ \A d \in Chats : \A k \in DOMAIN stream'[d] : stream'[d][k] \in Event
        /\ \A d \in Chats : \A k \in DOMAIN evCh'[d] : evCh'[d][k] \in Event
    BY <1>s, <1>v
  <2>2. \A d \in Chats : Len(evCh'[d]) <= QueueSize
    <3>1. \A d \in Chats : Len(evCh[d]) <= QueueSize
      BY <1>0 DEF TypeOK
    <3>2. Len(evCh'[c]) <= QueueSize
      BY <1>v, <3>1, Shapes
    <3> QED BY <1>v, <3>1, <3>2
  <2> QED BY <1>0, <1>k, <2>1, <2>2 DEF TypeOK
<1>2. Channels'
  <2>1. \A k \in 1..Len(evCh'[c]) : evCh'[c][k].type \in {"tool_result", "loop_exit"}
    <3>1. \A k \in 1..Len(evCh[c]) - 1 : k + 1 \in 1..Len(evCh[c])
      BY <1>y
    <3> QED BY <1>0, <1>v, <3>1 DEF Channels
  <2> QED BY <1>0, <1>s, <1>v, <2>1 DEF Channels
<1>3. HandlerWaits'
  BY <1>0, <1>k, <1>s, <1>v, <1>x DEF HandlerWaits
<1>4. CallsAreTold'
  BY <1>0, <1>k, <1>t DEF CallsAreTold, Waiting
<1>5. PostsAreForCalls'
  BY <1>0, <1>k, <1>t DEF PostsAreForCalls
<1>6. AnswersFollow'
  <2> SUFFICES ASSUME NEW d \in Chats PROVE AnswersCome(d)'
    BY DEF AnswersFollow
  <2>1. CASE d # c
    <3>1. AnswersCome(d)
      BY <1>0 DEF AnswersFollow
    <3> QED BY <1>k, <1>s, <1>v, <2>1, <3>1 DEF AnswersCome
  <2>2. CASE d = c
    <3> SUFFICES ASSUME NEW k \in 1..Len(stream'[c]), stream'[c][k].type = "provided_toolcall"
                 PROVE  \/ call[c] # None /\ call[c].n = stream'[c][k].n
                        \/ \E j \in 1..Len(evCh'[c]) : Reports(evCh'[c][j], stream'[c][k].n)
                        \/ \E j \in k + 1..Len(stream'[c]) : Reports(stream'[c][j], stream'[c][k].n)
      BY <1>k, <2>2 DEF AnswersCome
    <3>1. k \in 1..Len(stream[c]) /\ stream'[c][k] = stream[c][k]
      BY <1>s, <1>z
    <3>2. \/ call[c] # None /\ call[c].n = stream[c][k].n
          \/ \E j \in 1..Len(evCh[c]) : Reports(evCh[c][j], stream[c][k].n)
          \/ \E j \in k + 1..Len(stream[c]) : Reports(stream[c][j], stream[c][k].n)
      BY <1>0, <3>1 DEF AnswersFollow, AnswersCome
    <3>3. ASSUME NEW j \in 1..Len(evCh[c]), Reports(evCh[c][j], stream[c][k].n)
          PROVE  \/ \E l \in 1..Len(evCh'[c]) : Reports(evCh'[c][l], stream'[c][k].n)
                 \/ \E l \in k + 1..Len(stream'[c]) : Reports(stream'[c][l], stream'[c][k].n)
      <4>1. CASE j = 1
        <5>1. Len(stream[c]) + 1 \in k + 1..Len(stream'[c])
          BY <1>s, <3>1
        <5> QED BY <1>s, <3>1, <3>3, <4>1, <5>1
      <4>2. CASE j # 1
        <5>1. j - 1 \in 1..Len(evCh[c]) - 1 /\ j - 1 \in 1..Len(evCh'[c]) /\ (j - 1) + 1 = j
          BY <1>v, <1>y, <4>2
        <5> QED BY <1>v, <3>1, <3>3, <5>1
      <4> QED BY <4>1, <4>2
    <3>4. \A j \in k + 1..Len(stream[c]) : j \in 1..Len(stream[c]) /\ j \in k + 1..Len(stream'[c])
      BY <1>s, <3>1
    <3> QED BY <1>s, <3>1, <3>2, <3>3, <3>4
  <2> QED BY <2>1, <2>2
<1>7. ExitComesLast'
  <2> SUFFICES ASSUME NEW d \in Chats PROVE EndsWithExit(d)'
    BY DEF ExitComesLast
  <2>1. CASE d # c
    <3>1. EndsWithExit(d)
      BY <1>0 DEF ExitComesLast
    <3> QED BY <1>k, <1>s, <1>v, <2>1, <3>1 DEF EndsWithExit
  <2>2. CASE d = c
    <3> SUFFICES ASSUME run[c] = "ended"
                 PROVE  IF evCh'[c] = <<>>
                        THEN Len(stream'[c]) >= 1 /\ Exits(stream'[c][Len(stream'[c])])
                        ELSE Exits(evCh'[c][Len(evCh'[c])])
      BY <1>k, <1>x, <2>2 DEF EndsWithExit
    <3>1. Exits(evCh[c][Len(evCh[c])])
      BY <1>0, <1>x DEF ExitComesLast, EndsWithExit
    <3>2. CASE Len(evCh[c]) = 1
      <4>1. evCh'[c] = <<>> /\ Exits(Head(evCh[c]))
        BY <1>v, <3>1, <3>2
      <4> QED BY <1>s, <4>1
    <3>3. CASE Len(evCh[c]) # 1
      <4>0. ASSUME NEW m \in Nat, m >= 1, m # 1, NEW l, l = m - 1
            PROVE  l \in 1..m - 1 /\ l + 1 = m /\ l # 0
        BY <4>0
      <4>1. /\ Len(evCh'[c]) \in 1..Len(evCh[c]) - 1
            /\ Len(evCh'[c]) + 1 = Len(evCh[c]) /\ Len(evCh'[c]) # 0
        <5>1. Len(evCh[c]) \in Nat /\ Len(evCh[c]) >= 1 /\ Len(evCh'[c]) = Len(evCh[c]) - 1
          BY <1>v, <1>y
        <5> QED BY <3>3, <4>0, <5>1
      <4> QED BY <1>v, <3>1, <4>1
    <3> QED BY <3>2, <3>3
  <2> QED BY <2>1, <2>2
<1>8. IdsLead' /\ IdsAreUnique' /\ CallsReturn'
  BY <1>0, <1>k DEF IdsLead, IdsAreUnique, Numbered, CallsReturn
<1>9. ResultsOnce'
  BY <1>0, <1>k, ResultsStay
<1>10. PromptClientsServed'
  BY <1>0, <1>k DEF PromptClientsServed
<1> QED BY <1>1, <1>2, <1>3, <1>4, <1>5, <1>6, <1>7, <1>8, <1>9, <1>10 DEF ProvidedInv

\* Tools are unregistered when the run is over, and no others.
LEMMA InvUnregister ==
  ASSUME ProvidedInv, NEW c \in Chats, Unregister(c)
  PROVE  ProvidedInv'
<1>0. /\ TypeOK /\ Channels /\ HandlerWaits /\ IdsLead /\ IdsAreUnique /\ CallsReturn
      /\ CallsAreTold /\ PostsAreForCalls /\ ResultsOnce /\ PromptClientsServed
      /\ AnswersFollow /\ ExitComesLast
  BY DEF ProvidedInv
<1>k. UNCHANGED <<owner, run, calls, call, result, nextId, id, resultCh, evCh, stream, post>>
  BY DEF Unregister, callVars
<1>h. /\ handler[c] = "open" /\ handler' \in [Chats -> {"new", "open", "unregistered", "closed"}]
      /\ handler'[c] = "unregistered" /\ \A d \in Chats : d # c => handler'[d] = handler[d]
      /\ run[c] = "ended" /\ evCh[c] = <<>>
  BY <1>0 DEF Unregister, TypeOK
<1>w. /\ waiters' \in [Ids -> Tools \cup {None}]
      /\ \A i \in Ids : \/ waiters[i] \in Own(c) /\ waiters'[i] = None
                        \/ waiters[i] \notin Own(c) /\ waiters'[i] = waiters[i]
  BY <1>0 DEF Unregister, TypeOK
<1>1. TypeOK'
  BY <1>0, <1>h, <1>k, <1>w DEF TypeOK
<1>2. HandlerWaits'
  BY <1>0, <1>h, <1>k DEF HandlerWaits
<1>3. IdsLead'
  <2> SUFFICES ASSUME NEW t \in Tools, handler'[owner[t]] = "open"
               PROVE  id[t] # None /\ waiters'[id[t]] = t
    BY <1>k DEF IdsLead
  <2>1. owner[t] # c /\ handler[owner[t]] = "open"
    BY <1>0, <1>h, Functions
  <2>2. id[t] \in Ids /\ id[t] # None /\ waiters[id[t]] = t
    BY <1>0, <2>1, Functions DEF IdsLead
  <2> QED BY <1>w, <2>1, <2>2 DEF Own
<1>4. IdsAreUnique'
  BY <1>0, <1>h, <1>k, Functions DEF IdsAreUnique, Numbered
<1>5. ExitComesLast'
  <2> SUFFICES ASSUME NEW d \in Chats PROVE EndsWithExit(d)'
    BY DEF ExitComesLast
  <2>1. CASE d # c
    <3>1. EndsWithExit(d)
      BY <1>0 DEF ExitComesLast
    <3> QED BY <1>h, <1>k, <3>1 DEF EndsWithExit
  <2>2. CASE d = c
    <3>1. EndsWithExit(c)
      BY <1>0 DEF ExitComesLast
    <3> QED BY <1>h, <1>k, <2>2, <3>1 DEF EndsWithExit
  <2> QED BY <2>1, <2>2
<1>6. Channels' /\ CallsReturn' /\ CallsAreTold'
  BY <1>0, <1>k DEF Channels, CallsReturn, CallsAreTold, Waiting, Told
<1>7. PostsAreForCalls'
  BY <1>0, <1>k DEF PostsAreForCalls, Told
<1>8. ResultsOnce'
  BY <1>0, <1>k, ResultsStay
<1>9. PromptClientsServed'
  BY <1>0, <1>k DEF PromptClientsServed
<1>10. AnswersFollow'
  BY <1>0, <1>k DEF AnswersFollow, AnswersCome
<1> QED BY <1>1, <1>2, <1>3, <1>4, <1>5, <1>6, <1>7, <1>8, <1>9, <1>10 DEF ProvidedInv

\* The exit of the loop is on the stream when it is closed.
LEMMA InvClose ==
  ASSUME ProvidedInv, NEW c \in Chats, Close(c)
  PROVE  ProvidedInv'
<1>0. /\ TypeOK /\ Channels /\ HandlerWaits /\ IdsLead /\ IdsAreUnique /\ CallsReturn
      /\ CallsAreTold /\ PostsAreForCalls /\ ResultsOnce /\ PromptClientsServed
      /\ AnswersFollow /\ ExitComesLast
  BY DEF ProvidedInv
<1>k. UNCHANGED <<owner, run, calls, call, result, nextId, id, waiters, resultCh, evCh, post>>
  BY DEF Close, callVars, toolVars
<1>h. /\ handler[c] = "unregistered" /\ run[c] = "ended" /\ evCh[c] = <<>>
      /\ handler' \in [Chats -> {"new", "open", "unregistered", "closed"}]
      /\ handler'[c] = "closed" /\ \A d \in Chats : d # c => handler'[d] = handler[d]
  BY <1>0 DEF Close, TypeOK, HandlerWaits
<1>e. Plain("[DONE]") \in Event
  BY Events
<1>d. Send(c, Plain("[DONE]"))
  BY DEF Close
<1>s. /\ stream' \in [Chats -> Seq(Event)]
      /\ \A d \in Chats : d # c => stream'[d] = stream[d]
      /\ Len(stream[c]) \in Nat /\ Len(stream'[c]) = Len(stream[c]) + 1
      /\ stream'[c][Len(stream[c]) + 1] = Plain("[DONE]")
      /\ \A k \in 1..Len(stream[c]) : stream'[c][k] = stream[c][k]
  BY <1>0, <1>d, <1>e, Sends
<1>t. \A d \in Chats : \A n, i : Told(d, n, i)' <=> Told(d, n, i)
  BY <1>0, <1>d, Events, Tells
<1>1. TypeOK'
  <2> QED BY <1>0, <1>h, <1>s, <1>k DEF TypeOK
<1>2. Channels'
  BY <1>0, <1>k, <1>s DEF Channels
<1>3. HandlerWaits'
  BY <1>0, <1>h, <1>k, <1>s DEF HandlerWaits
<1>4. IdsLead'
  BY <1>0, <1>h, <1>k, Functions DEF IdsLead
<1>5. IdsAreUnique'
  BY <1>0, <1>h, <1>k, Functions DEF IdsAreUnique, Numbered
<1>6. CallsAreTold'
  BY <1>0, <1>k, <1>t DEF CallsAreTold, Waiting
<1>7. PostsAreForCalls'
  BY <1>0, <1>k, <1>t DEF PostsAreForCalls
<1>8. AnswersFollow'
  <2> SUFFICES ASSUME NEW d \in Chats, NEW k \in 1..Len(stream'[d]),
                      stream'[d][k].type = "provided_toolcall"
               PROVE  \/ call'[d] # None /\ call'[d].n = stream'[d][k].n
                      \/ \E j \in 1..Len(evCh'[d]) : Reports(evCh'[d][j], stream'[d][k].n)
                      \/ \E j \in k + 1..Len(stream'[d]) : Reports(stream'[d][j], stream'[d][k].n)
    BY DEF AnswersFollow, AnswersCome, Reports
  <2>1. CASE d # c
    BY <1>0, <1>k, <1>s, <2>1 DEF AnswersFollow, AnswersCome
  <2>2. CASE d = c
    <3>1. k \in 1..Len(stream[c]) /\ stream'[c][k] = stream[c][k]
      BY <1>s, <2>2, Events
    <3>2. \/ call[c] # None /\ call[c].n = stream[c][k].n
          \/ \E j \in 1..Len(evCh[c]) : Reports(evCh[c][j], stream[c][k].n)
          \/ \E j \in k + 1..Len(stream[c]) : Reports(stream[c][j], stream[c][k].n)
      BY <1>0, <2>2, <3>1 DEF AnswersFollow, AnswersCome
    <3> QED BY <1>k, <1>s, <2>2, <3>1, <3>2
  <2> QED BY <2>1, <2>2
<1>9. ExitComesLast'
  <2> SUFFICES ASSUME NEW d \in Chats PROVE EndsWithExit(d)'
    BY DEF ExitComesLast
  <2>1. CASE d # c
    <3>1. EndsWithExit(d)
      BY <1>0 DEF ExitComesLast
    <3> QED BY <1>h, <1>k, <1>s, <2>1, <3>1 DEF EndsWithExit
  <2>2. CASE d = c
    <3>1. Len(stream[c]) >= 1 /\ Exits(stream[c][Len(stream[c])])
      BY <1>0, <1>h DEF ExitComesLast, EndsWithExit
    <3>2. Len(stream'[c]) - 1 = Len(stream[c]) /\ Len(stream[c]) \in 1..Len(stream[c])
      BY <1>s, <3>1
    <3>3. /\ Len(stream'[c]) >= 2 /\ Exits(stream'[c][Len(stream'[c]) - 1])
          /\ stream'[c][Len(stream'[c])].type = "[DONE]"
      BY <1>s, <3>1, <3>2, Events
    <3> QED BY <1>h, <2>2, <3>3 DEF EndsWithExit
  <2> QED BY <2>1, <2>2
<1>10. CallsReturn'
  BY <1>0, <1>k DEF CallsReturn
<1>11. ResultsOnce'
  BY <1>0, <1>k, ResultsStay
<1>12. PromptClientsServed'
  BY <1>0, <1>k DEF PromptClientsServed
<1> QED BY <1>1, <1>2, <1>3, <1>4, <1>5, <1>6, <1>7, <1>8, <1>9, <1>10, <1>11, <1>12
           DEF ProvidedInv

\* A call is told to the client with the id of its tool.
LEMMA InvCall ==
  ASSUME ProvidedInv, NEW c \in Chats, NEW t \in Tools, Call(c, t)
  PROVE  ProvidedInv'
<1>0. /\ TypeOK /\ Channels /\ HandlerWaits /\ IdsLead /\ IdsAreUnique /\ CallsReturn
      /\ CallsAreTold /\ PostsAreForCalls /\ ResultsOnce /\ PromptClientsServed
      /\ AnswersFollow /\ ExitComesLast
  BY DEF ProvidedInv
<1>k. UNCHANGED <<owner, handler, run, result, nextId, id, waiters, resultCh, evCh, post>>
  BY DEF Call, toolVars
<1>h. /\ run[c] = "running" /\ handler[c] = "open" /\ call[c] = None /\ owner[t] = c
      /\ id[t] \in Ids /\ id[t] # None
      /\ calls \in Nat /\ calls < MaxCalls /\ calls' = calls + 1
  <2>1. run[c] = "running" /\ handler[c] = "open" /\ owner[t] = c
    BY <1>0 DEF Call, HandlerWaits, TypeOK
  <2> QED BY <1>0, <2>1, Functions DEF Call, IdsLead
<1>m. calls + 1 \in Calls /\ calls' \in 0..MaxCalls /\ calls + 1 \in Nat
  BY <1>h, Shapes DEF Calls
<1>f. /\ call' \in [Chats -> [tool : Tools, n : Calls] \cup {None}]
      /\ call'[c] # None /\ call'[c].tool = t /\ call'[c].n = calls + 1
      /\ \A d \in Chats : d # c => call'[d] = call[d]
  <2>1. call \in [Chats -> [tool : Tools, n : Calls] \cup {None}]
    BY <1>0 DEF TypeOK
  <2>2. call' = [call EXCEPT ![c] = [tool |-> t, n |-> calls + 1]]
    BY DEF Call
  <2>3. [tool |-> t, n |-> calls + 1] # None
    BY <1>m, Shapes
  <2> QED BY <1>m, <2>1, <2>2, <2>3
<1>e. [type |-> "provided_toolcall", n |-> calls + 1, id |-> id[t]] \in Event
  BY <1>h, <1>m, Events
<1>d. Send(c, [type |-> "provided_toolcall", n |-> calls + 1, id |-> id[t]])
  BY DEF Call
<1>s. /\ stream' \in [Chats -> Seq(Event)]
      /\ \A d \in Chats : d # c => stream'[d] = stream[d]
      /\ Len(stream[c]) \in Nat /\ Len(stream'[c]) = Len(stream[c]) + 1
      /\ stream'[c][Len(stream[c]) + 1] = [type |-> "provided_toolcall", n |-> calls + 1, id |-> id[t]]
      /\ \A k \in 1..Len(stream[c]) : stream'[c][k] = stream[c][k]
  BY <1>0, <1>d, <1>e, Sends
<1>t. \A d \in Chats : \A n, i :
        Told(d, n, i)' <=> Told(d, n, i) \/ (d = c /\ n = calls + 1 /\ i = id[t])
  BY <1>0, <1>d, <1>e, Tells
<1>u. \A d \in Chats : \A n, i : n \in Calls \cup {None} /\ i \in Ids \cup {None} /\ Told(d, n, i) =>
        n \in Calls /\ n \in Nat /\ n <= calls /\ n # calls + 1
  <2>1. \A d \in Chats, n \in Calls \cup {None}, i \in Ids \cup {None} :
          Told(d, n, i) => n \in Calls /\ n <= calls
    BY <1>0 DEF CallsAreTold
  <2>2. \A n \in Calls : n \in Nat
    BY <1>0, Functions
  <2> QED BY <1>h, <2>1, <2>2
<1>1. TypeOK'
  <2>1. \A d \in Chats : \A k \in DOMAIN stream'[d] : stream'[d][k] \in Event
    BY <1>s
  <2> QED BY <1>0, <1>f, <1>k, <1>m, <2>1 DEF TypeOK
<1>2. Channels'
  BY <1>0, <1>k, <1>s DEF Channels
<1>3. HandlerWaits'
  <2>1. handler[c] = "open" /\ run[c] = "running" /\ call'[c].tool = t /\ owner[t] = c
    BY <1>f, <1>h
  <2>2. \A d \in Chats : d # c => call'[d] = call[d] /\ stream'[d] = stream[d]
    BY <1>f, <1>s
  <2> QED BY <1>0, <1>k, <2>1, <2>2 DEF HandlerWaits
<1>4. CallsReturn'
  <2>1. \A d \in Chats : call[d] # None => call[d].n \in Nat /\ call[d].n <= calls
    BY <1>0, Functions DEF CallsReturn
  <2>2. \A d \in Chats : call'[d] # None => call'[d].n <= calls'
    BY <1>f, <1>h, <2>1
  <2>3. ASSUME NEW d \in Chats, NEW e \in Chats, call'[d] # None, call'[e] # None, call'[d].n = call'[e].n
        PROVE  d = e
    <3>1. \A x \in Chats : x # c /\ call'[x] # None => call'[x].n # calls + 1
      BY <1>f, <1>h, <2>1
    <3> QED BY <1>0, <1>f, <2>3, <3>1 DEF CallsReturn
  <2>4. ASSUME NEW n \in Calls, n > calls'
        PROVE  result[n] = None
    <3>1. n > calls
      BY <1>0, <1>h, <2>4, Functions
    <3> QED BY <1>0, <3>1 DEF CallsReturn
  <2>5. ASSUME NEW n \in Calls, n <= calls', result[n] = None
        PROVE  \E d \in Chats : call'[d] # None /\ call'[d].n = n
    <3>1. n <= calls \/ n = calls + 1
      BY <1>0, <1>h, <2>5, Functions
    <3>2. CASE n <= calls
      <4>1. PICK d \in Chats : call[d] # None /\ call[d].n = n
        BY <1>0, <2>5, <3>2 DEF CallsReturn
      <4> QED BY <1>f, <1>h, <4>1
    <3> QED BY <1>f, <3>1, <3>2
  <2> QED BY <1>k, <2>2, <2>3, <2>4, <2>5 DEF CallsReturn
<1>5. CallsAreTold'
  <2>1. ASSUME NEW d \in Chats, NEW n \in Calls \cup {None}, NEW i \in Ids \cup {None}, Told(d, n, i)'
        PROVE  /\ n \in Calls /\ n <= calls' /\ result[n] # "refused"
               /\ \E s \in Tools : owner[s] = d /\ id[s] = i /\ id[s] # None
    <3>1. CASE Told(d, n, i)
      <4>1. n \in Calls /\ n \in Nat /\ n <= calls
        BY <1>u, <3>1
      <4>2. result[n] # "refused" /\ \E s \in Tools : owner[s] = d /\ id[s] = i /\ id[s] # None
        BY <1>0, <3>1 DEF CallsAreTold
      <4>3. n <= calls'
        BY <1>h, <4>1
      <4> QED BY <4>1, <4>2, <4>3
    <3>2. CASE d = c /\ n = calls + 1 /\ i = id[t]
      <4>1. result[calls + 1] = None
        BY <1>0, <1>h, <1>m DEF CallsReturn
      <4> QED BY <1>h, <1>m, <3>2, <4>1, Shapes
    <3> QED BY <1>t, <2>1, <3>1, <3>2
  <2>2. ASSUME NEW d \in Chats, NEW e \in Chats, NEW n \in Calls, NEW i \in Ids, NEW j \in Ids,
               Told(d, n, i)', Told(e, n, j)'
        PROVE  d = e /\ i = j
    <3>1. CASE n = calls + 1
      <4>1. ~Told(d, n, i) /\ ~Told(e, n, j)
        BY <1>u, <3>1
      <4> QED BY <1>t, <2>2, <4>1
    <3>2. CASE n # calls + 1
      <4>1. Told(d, n, i) /\ Told(e, n, j)
        BY <1>t, <2>2, <3>2
      <4> QED BY <1>0, <4>1 DEF CallsAreTold
    <3> QED BY <3>1, <3>2
  <2>3. ASSUME NEW d \in Chats, Waiting(d)'
        PROVE  Told(d, call[d].n, id[call[d].tool])'
    <3>1. CASE d = c
      <4>2. call'[c].n = calls + 1 /\ id'[call'[c].tool] = id[t]
        BY <1>f, <1>k
      <4> QED BY <1>s, <3>1, <4>2 DEF Told
    <3>2. CASE d # c
      <4>1. Told(d, call'[d].n, id[call'[d].tool])
        BY <1>0, <1>f, <1>k, <2>3, <3>2 DEF CallsAreTold, Waiting
      <4> QED BY <1>k, <1>s, <3>2, <4>1 DEF Told
    <3> QED BY <3>1, <3>2
  <2> QED BY <1>k, <2>1, <2>2, <2>3 DEF CallsAreTold
<1>6. PostsAreForCalls'
  BY <1>0, <1>k, <1>t DEF PostsAreForCalls
<1>7. AnswersFollow'
  <2> SUFFICES ASSUME NEW d \in Chats PROVE AnswersCome(d)'
    BY DEF AnswersFollow
  <2>1. CASE d # c
    <3>1. AnswersCome(d)
      BY <1>0 DEF AnswersFollow
    <3> QED BY <1>f, <1>k, <1>s, <2>1, <3>1 DEF AnswersCome
  <2>2. CASE d = c
    <3> SUFFICES ASSUME NEW k \in 1..Len(stream'[c]), stream'[c][k].type = "provided_toolcall"
                 PROVE  \/ call'[c].n = stream'[c][k].n
                        \/ \E j \in 1..Len(evCh[c]) : Reports(evCh[c][j], stream'[c][k].n)
                        \/ \E j \in k + 1..Len(stream'[c]) : Reports(stream'[c][j], stream'[c][k].n)
      BY <1>f, <1>k, <2>2 DEF AnswersCome
    <3>0. CASE k = Len(stream[c]) + 1
      BY <1>f, <1>s, <3>0
    <3> SUFFICES ASSUME k # Len(stream[c]) + 1
                 PROVE  \/ \E j \in 1..Len(evCh[c]) : Reports(evCh[c][j], stream'[c][k].n)
                        \/ \E l \in k + 1..Len(stream'[c]) : Reports(stream'[c][l], stream'[c][k].n)
      BY <3>0
    <3>1. k \in 1..Len(stream[c]) /\ stream'[c][k] = stream[c][k]
      BY <1>s
    <3>2. \/ call[c] # None /\ call[c].n = stream[c][k].n
          \/ \E j \in 1..Len(evCh[c]) : Reports(evCh[c][j], stream[c][k].n)
          \/ \E j \in k + 1..Len(stream[c]) : Reports(stream[c][j], stream[c][k].n)
      BY <1>0, <3>1 DEF AnswersFollow, AnswersCome
    <3>4. call[c] = None
      BY <1>h
    <3> QED BY <1>s, <3>1, <3>2, <3>4
  <2> QED BY <2>1, <2>2
<1>8. ExitComesLast'
  <2> SUFFICES ASSUME NEW d \in Chats PROVE EndsWithExit(d)'
    BY DEF ExitComesLast
  <2>1. CASE d # c
    <3>1. EndsWithExit(d)
      BY <1>0 DEF ExitComesLast
    <3> QED BY <1>k, <1>s, <2>1, <3>1 DEF EndsWithExit
  <2>2. CASE d = c
    BY <1>h, <1>k, <2>2 DEF EndsWithExit
  <2> QED BY <2>1, <2>2
<1>9. IdsLead' /\ IdsAreUnique'
  <2>1. Numbered' = Numbered
    BY <1>k DEF Numbered
  <2> QED BY <1>0, <1>k, <2>1 DEF IdsLead, IdsAreUnique
<1>10. ResultsOnce'
  BY <1>0, <1>k, ResultsStay
<1>11. PromptClientsServed'
  BY <1>0, <1>k DEF PromptClientsServed
<1> QED BY <1>1, <1>2, <1>3, <1>4, <1>5, <1>6, <1>7, <1>8, <1>9, <1>10, <1>11 DEF ProvidedInv

\* A call that fails before its client is told has returned, and waits to be reported.
LEMMA InvCallRefused ==
  ASSUME ProvidedInv, NEW c \in Chats, NEW t \in Tools, CallRefused(c, t)
  PROVE  ProvidedInv'
<1>0. /\ TypeOK /\ Channels /\ HandlerWaits /\ IdsLead /\ IdsAreUnique /\ CallsReturn
      /\ CallsAreTold /\ PostsAreForCalls /\ ResultsOnce /\ PromptClientsServed
      /\ AnswersFollow /\ ExitComesLast
  BY DEF ProvidedInv
<1>k. UNCHANGED <<owner, handler, run, stream, nextId, id, waiters, resultCh, evCh, post>>
  BY DEF CallRefused, chatVars, toolVars
<1>h. /\ run[c] = "running" /\ call[c] = None /\ owner[t] = c
      /\ calls \in Nat /\ calls < MaxCalls /\ calls' = calls + 1
  BY <1>0, Functions DEF CallRefused
<1>m. calls + 1 \in Calls /\ calls' \in 0..MaxCalls /\ calls + 1 \in Nat
  BY <1>h, Shapes DEF Calls
<1>f. /\ call' \in [Chats -> [tool : Tools, n : Calls] \cup {None}]
      /\ call'[c] # None /\ call'[c].tool = t /\ call'[c].n = calls + 1
      /\ \A d \in Chats : d # c => call'[d] = call[d]
  <2>1. call \in [Chats -> [tool : Tools, n : Calls] \cup {None}]
    BY <1>0 DEF TypeOK
  <2>2. call' = [call EXCEPT ![c] = [tool |-> t, n |-> calls + 1]]
    BY DEF CallRefused
  <2>3. [tool |-> t, n |-> calls + 1] # None
    BY <1>m, Shapes
  <2> QED BY <1>m, <2>1, <2>2, <2>3
<1>r. /\ result' \in [Calls -> Posts \cup {"timeout", "refused", None}]
      /\ result'[calls + 1] = "refused" /\ \A n \in Calls : n # calls + 1 => result'[n] = result[n]
      /\ result[calls + 1] = None
  <2>1. /\ result \in [Calls -> Posts \cup {"timeout", "refused", None}]
        /\ result' = [result EXCEPT ![calls + 1] = "refused"]
    BY <1>0 DEF TypeOK, CallRefused
  <2>2. result[calls + 1] = None
    BY <1>0, <1>h, <1>m DEF CallsReturn
  <2> QED BY <1>m, <2>1, <2>2
<1>w. \A d \in Chats : Waiting(d)' => Waiting(d) /\ call'[d] = call[d]
  <2>1. ~Waiting(c)'
    BY <1>f, <1>r, Shapes DEF Waiting
  <2>2. \A d \in Chats : d # c /\ call[d] # None => call[d].n \in Calls /\ call[d].n # calls + 1
    BY <1>0, <1>h, Functions DEF CallsReturn
  <2> QED BY <1>f, <1>r, <2>1, <2>2 DEF Waiting
<1>1. TypeOK'
  BY <1>0, <1>f, <1>k, <1>m, <1>r DEF TypeOK
<1>2. Channels' /\ HandlerWaits'
  <2>1. Channels'
    BY <1>0, <1>k DEF Channels
  <2> QED BY <1>0, <1>f, <1>h, <1>k, <2>1 DEF HandlerWaits
<1>3. CallsReturn'
  <2>1. \A d \in Chats : call[d] # None => call[d].n \in Nat /\ call[d].n <= calls
    BY <1>0, Functions DEF CallsReturn
  <2>2. \A d \in Chats : call'[d] # None => call'[d].n <= calls'
    BY <1>f, <1>h, <2>1
  <2>3. ASSUME NEW d \in Chats, NEW e \in Chats, call'[d] # None, call'[e] # None, call'[d].n = call'[e].n
        PROVE  d = e
    <3>1. \A x \in Chats : x # c /\ call'[x] # None => call'[x].n # calls + 1
      BY <1>f, <1>h, <2>1
    <3> QED BY <1>0, <1>f, <2>3, <3>1 DEF CallsReturn
  <2>4. ASSUME NEW n \in Calls, n > calls'
        PROVE  result'[n] = None
    <3>1. n > calls /\ n # calls + 1
      BY <1>0, <1>h, <2>4, Functions
    <3> QED BY <1>0, <1>r, <3>1 DEF CallsReturn
  <2>5. ASSUME NEW n \in Calls, n <= calls', result'[n] = None
        PROVE  \E d \in Chats : call'[d] # None /\ call'[d].n = n
    <3>1. n <= calls /\ n # calls + 1
      BY <1>0, <1>h, <1>r, <2>5, Functions, Shapes
    <3>2. PICK d \in Chats : call[d] # None /\ call[d].n = n
      BY <1>0, <1>r, <2>5, <3>1 DEF CallsReturn
    <3> QED BY <1>f, <1>h, <3>2
  <2> QED BY <2>2, <2>3, <2>4, <2>5 DEF CallsReturn
<1>4. CallsAreTold'
  <2>1. \A d \in Chats : \A n, i : Told(d, n, i)' <=> Told(d, n, i)
    BY <1>k DEF Told
  <2>2. \A n \in Calls : n <= calls => n <= calls'
    BY <1>0, <1>h, Functions
  <2>3. \A d \in Chats, n \in Calls \cup {None}, i \in Ids \cup {None} :
          Told(d, n, i) => /\ n \in Calls /\ n <= calls /\ result[n] # "refused"
                           /\ \E s \in Tools : owner[s] = d /\ id[s] = i /\ id[s] # None
    BY <1>0 DEF CallsAreTold
  <2>7. \A n \in Calls : n <= calls => result'[n] = result[n]
    BY <1>0, <1>h, <1>r, Functions
  <2>4. \A d, e \in Chats, n \in Calls, i, j \in Ids : Told(d, n, i) /\ Told(e, n, j) => d = e /\ i = j
    BY <1>0 DEF CallsAreTold
  <2>5. \A d \in Chats : Waiting(d) => Told(d, call[d].n, id[call[d].tool])
    BY <1>0 DEF CallsAreTold
  <2>6. \A d \in Chats : Waiting(d)' => Told(d, call[d].n, id[call[d].tool])'
    BY <1>k, <1>w, <2>1, <2>5
  <2> QED BY <1>k, <2>1, <2>2, <2>3, <2>4, <2>6, <2>7 DEF CallsAreTold
<1>5. PostsAreForCalls'
  BY <1>0, <1>k DEF PostsAreForCalls, Told
<1>6. AnswersFollow'
  <2> SUFFICES ASSUME NEW d \in Chats PROVE AnswersCome(d)'
    BY DEF AnswersFollow
  <2>1. AnswersCome(d)
    BY <1>0 DEF AnswersFollow
  <2> QED BY <1>f, <1>h, <1>k, <2>1 DEF AnswersCome
<1>7. ExitComesLast'
  BY <1>0, <1>k DEF ExitComesLast, EndsWithExit
<1>8. IdsLead' /\ IdsAreUnique'
  BY <1>0, <1>k DEF IdsLead, IdsAreUnique, Numbered
<1>9. ResultsOnce'
  <2>1. \A n \in Calls : result'[n] \in Posts => result'[n] = result[n]
    BY <1>r, Shapes
  <2>2. ASSUME NEW q \in Posts, NEW n \in Calls, result[n] = q
        PROVE  result'[n] = q
    BY <1>r, <2>2, Shapes
  <2>3. \A m, n \in Calls : result'[m] \in Posts /\ result'[m] = result'[n] => m = n
    BY <1>0, <2>1 DEF ResultsOnce
  <2>4. \A t2 \in Tools, p \in Posts : resultCh[t2] = <<p>> =>
          /\ post[p].pc = "sent" /\ post[p].tool = t2
          /\ \A n \in Calls : result'[n] # p
    BY <1>0, <2>1 DEF ResultsOnce
  <2>5. \A p \in Posts : post[p].pc = "sent" =>
          (\E t2 \in Tools : resultCh[t2] = <<p>>) \/ (\E n \in Calls : result'[n] = p)
    BY <1>0, <2>2 DEF ResultsOnce
  <2>6. \A n \in Calls : result'[n] \in Posts => post[result'[n]].pc = "sent"
    BY <1>0, <2>1 DEF ResultsOnce
  <2> QED BY <1>k, <2>3, <2>4, <2>5, <2>6 DEF ResultsOnce
<1>10. PromptClientsServed'
  <2>1. \A n \in Calls : n # calls + 1 /\ result'[n] # "timeout" => result[n] # "timeout"
    BY <1>r
  <2>2. \A n \in Calls : result'[n] \in Posts => result'[n] = result[n]
    BY <1>r, Shapes
  <2>3. result[calls + 1] # "timeout"
    BY <1>r, Shapes
  <2> QED BY <1>0, <1>k, <1>r, <2>1, <2>2, <2>3, Shapes DEF PromptClientsServed
<1> QED BY <1>1, <1>2, <1>3, <1>4, <1>5, <1>6, <1>7, <1>8, <1>9, <1>10 DEF ProvidedInv

\* A result goes from the channel to the call; in prompt hands it is the one for that call.
LEMMA InvReceive ==
  ASSUME ProvidedInv, NEW c \in Chats, Receive(c)
  PROVE  ProvidedInv'
<1>0. /\ TypeOK /\ Channels /\ HandlerWaits /\ IdsLead /\ IdsAreUnique /\ CallsReturn
      /\ CallsAreTold /\ PostsAreForCalls /\ ResultsOnce /\ PromptClientsServed
      /\ AnswersFollow /\ ExitComesLast
  BY DEF ProvidedInv
<1>k. UNCHANGED <<owner, handler, run, calls, call, nextId, id, waiters, evCh, stream, post>>
  BY DEF Receive, chatVars, toolVars
<1>a. PICK p \in Posts :
        /\ call[c] # None /\ call[c].n \in Calls /\ call[c].tool \in Tools
        /\ result[call[c].n] = None /\ resultCh[call[c].tool] = <<p>>
        /\ result' = [result EXCEPT ![call[c].n] = p]
        /\ resultCh' = [resultCh EXCEPT ![call[c].tool] = <<>>]
  <2>1. /\ call[c] # None /\ call[c].n \in Calls /\ call[c].tool \in Tools
        /\ result[call[c].n] = None /\ resultCh[call[c].tool] # <<>>
    BY <1>0, Functions DEF Receive, Waiting
  <2>2. PICK p \in Posts : resultCh[call[c].tool] = <<p>>
    BY <1>0, <2>1, Functions
  <2>3. Head(resultCh[call[c].tool]) = p /\ Tail(resultCh[call[c].tool]) = <<>>
    BY <2>2, OneResult
  <2> QED BY <2>1, <2>2, <2>3 DEF Receive
<1>r. /\ result' \in [Calls -> Posts \cup {"timeout", "refused", None}]
      /\ result'[call[c].n] = p /\ \A n \in Calls : n # call[c].n => result'[n] = result[n]
  BY <1>0, <1>a DEF TypeOK
<1>q. /\ resultCh' \in [Tools -> {<<>>} \cup {<<q>> : q \in Posts}]
      /\ resultCh'[call[c].tool] = <<>>
      /\ \A t \in Tools : t # call[c].tool => resultCh'[t] = resultCh[t]
  BY <1>0, <1>a DEF TypeOK
<1>s. /\ post[p].pc = "sent" /\ post[p].tool = call[c].tool /\ p # None
      /\ \A n \in Calls : result[n] # p
      /\ \A t \in Tools : resultCh[t] = <<p>> => t = call[c].tool
  BY <1>0, <1>a DEF ResultsOnce
<1>1. TypeOK'
  BY <1>0, <1>k, <1>q, <1>r DEF TypeOK
<1>2. CallsReturn'
  <2>1. call[c].n <= calls /\ calls \in Nat /\ call[c].n \in Nat
    BY <1>0, <1>a, Functions DEF CallsReturn
  <2>2. \A n \in Calls : n > calls => n # call[c].n
    BY <2>1, Functions, <1>0
  <2> QED BY <1>0, <1>k, <1>r, <1>s, <2>2 DEF CallsReturn
<1>3. ResultsOnce'
  <2>1. ASSUME NEW t \in Tools, NEW q \in Posts, resultCh'[t] = <<q>>
        PROVE  post[q].pc = "sent" /\ post[q].tool = t /\ \A n \in Calls : result'[n] # q
    <3>1. t # call[c].tool /\ resultCh[t] = <<q>>
      BY <1>q, <2>1, OneResult
    <3>2. q # p
      BY <1>s, <3>1
    <3> QED BY <1>0, <1>r, <3>1, <3>2 DEF ResultsOnce
  <2>2. \A n \in Calls : result'[n] \in Posts => post[result'[n]].pc = "sent"
    BY <1>0, <1>r, <1>s DEF ResultsOnce
  <2>3. \A m, n \in Calls : result'[m] \in Posts /\ result'[m] = result'[n] => m = n
    BY <1>0, <1>r, <1>s DEF ResultsOnce
  <2>4. ASSUME NEW q \in Posts, post[q].pc = "sent"
        PROVE  (\E t \in Tools : resultCh'[t] = <<q>>) \/ (\E n \in Calls : result'[n] = q)
    <3>1. CASE q = p
      BY <1>a, <1>r, <3>1
    <3>2. CASE q # p
      <4>1. resultCh[call[c].tool] # <<q>>
        BY <1>a, <3>2, OneResult
      <4>2. result[call[c].n] # q
        BY <1>a, Shapes
      <4>3. (\E t \in Tools : resultCh[t] = <<q>>) \/ (\E n \in Calls : result[n] = q)
        BY <1>0, <2>4 DEF ResultsOnce
      <4> QED BY <1>q, <1>r, <4>1, <4>2, <4>3
    <3> QED BY <3>1, <3>2
  <2> QED BY <1>k, <2>1, <2>2, <2>3, <2>4 DEF ResultsOnce
<1>4. PromptClientsServed'
  <2> SUFFICES ASSUME Prompt'
               PROVE  \A n \in Calls : result'[n] \in Posts => post[result'[n]].n = n
    BY <1>k DEF PromptClientsServed, Prompt
  <2>1. Prompt
    BY <1>a, <1>k, Shapes DEF Prompt
  <2>2. \A n \in Calls : result[n] \in Posts => post[result[n]].n = n
    BY <1>0, <2>1 DEF PromptClientsServed, Prompt
  <2>3. post[p].n = call[c].n
    <3> SUFFICES ASSUME post[p].n # call[c].n PROVE FALSE
      OBVIOUS
    <3>1. PICK d \in Chats : Told(d, post[p].n, id[call[c].tool])
      BY <1>0, <1>s DEF PostsAreForCalls
    <3>2. post[p].n \in Calls /\ id[call[c].tool] # None /\ id[call[c].tool] \in Ids
      BY <1>0, <1>s, Functions DEF PostsAreForCalls
    <3>3. post[p].n <= calls /\ d = c /\ result[post[p].n] # "refused"
      <4>1. PICK t \in Tools : /\ owner[t] = d /\ id[t] = id[call[c].tool]
                               /\ post[p].n <= calls /\ result[post[p].n] # "refused"
        BY <1>0, <3>1, <3>2 DEF CallsAreTold
      <4>2. t = call[c].tool
        BY <1>0, <1>a, <3>2, <4>1 DEF IdsAreUnique, Numbered
      <4> QED BY <1>0, <1>a, <4>1, <4>2 DEF HandlerWaits
    <3>4. result[post[p].n] # None
      <4> SUFFICES ASSUME result[post[p].n] = None PROVE FALSE
        OBVIOUS
      <4>1. PICK e \in Chats : call[e] # None /\ call[e].n = post[p].n /\ Waiting(e)
        BY <1>0, <3>2, <3>3 DEF CallsReturn, Waiting
      <4>2. Told(e, post[p].n, id[call[e].tool]) /\ id[call[e].tool] \in Ids
        <5>1. Told(e, post[p].n, id[call[e].tool])
          BY <1>0, <4>1 DEF CallsAreTold
        <5>2. call[e].tool \in Tools
          BY <1>0, <4>1, Functions
        <5>3. id[call[e].tool] # None
          BY <1>0, <4>1 DEF HandlerWaits, IdsLead, TypeOK
        <5> QED BY <1>0, <5>1, <5>2, <5>3, Functions
      <4>3. e = c
        BY <1>0, <3>1, <3>2, <3>3, <4>2 DEF CallsAreTold
      <4> QED BY <4>1, <4>3
    <3>5. result[post[p].n] \in Posts /\ post[result[post[p].n]].n = post[p].n
      BY <1>0, <2>1, <2>2, <3>2, <3>3, <3>4 DEF TypeOK, Prompt
    <3>6. result[post[p].n] = p
      BY <2>1, <3>2, <3>5, Shapes DEF Prompt
    <3> QED BY <1>s, <3>2, <3>6
  <2> QED BY <1>r, <2>2, <2>3
<1>t. \A d \in Chats : \A n, i : Told(d, n, i)' <=> Told(d, n, i)
  BY <1>k DEF Told
<1>5. Channels' /\ HandlerWaits' /\ IdsLead' /\ IdsAreUnique' /\ CallsAreTold'
  <2>1. Channels' /\ HandlerWaits' /\ IdsLead' /\ IdsAreUnique'
    BY <1>0, <1>k DEF Channels, HandlerWaits, IdsLead, IdsAreUnique, Numbered
  <2>2. CallsAreTold'
    <3>1. \A d \in Chats : Waiting(d)' => Waiting(d)
      BY <1>a, <1>k, <1>r, <1>s DEF Waiting
    <3>2. \A n \in Calls : result'[n] = "refused" => result[n] = "refused"
      BY <1>a, <1>r, Shapes
    <3> QED BY <1>0, <1>k, <1>t, <3>1, <3>2 DEF CallsAreTold
  <2> QED BY <2>1, <2>2
<1>6. PostsAreForCalls'
  BY <1>0, <1>k DEF PostsAreForCalls, Told
<1>7. AnswersFollow'
  BY <1>0, <1>k DEF AnswersFollow, AnswersCome
<1>8. ExitComesLast'
  BY <1>0, <1>k DEF ExitComesLast, EndsWithExit
<1> QED BY <1>1, <1>2, <1>3, <1>4, <1>5, <1>6, <1>7, <1>8 DEF ProvidedInv

\* A call is given up.
LEMMA InvTimeOut ==
  ASSUME ProvidedInv, NEW c \in Chats, TimeOut(c)
  PROVE  ProvidedInv'
<1>0. /\ TypeOK /\ Channels /\ HandlerWaits /\ IdsLead /\ IdsAreUnique /\ CallsReturn
      /\ CallsAreTold /\ PostsAreForCalls /\ ResultsOnce /\ PromptClientsServed
      /\ AnswersFollow /\ ExitComesLast
  BY DEF ProvidedInv
<1>k. UNCHANGED <<owner, handler, run, calls, call, nextId, id, waiters, resultCh, evCh,
                  stream, post>>
  BY DEF TimeOut, chatVars, toolVars
<1>a. /\ call[c] # None /\ call[c].n \in Calls /\ result[call[c].n] = None
      /\ result' = [result EXCEPT ![call[c].n] = "timeout"]
  BY <1>0, Functions DEF TimeOut, Waiting
<1>r. /\ result' \in [Calls -> Posts \cup {"timeout", "refused", None}]
      /\ result'[call[c].n] = "timeout" /\ \A n \in Calls : n # call[c].n => result'[n] = result[n]
  BY <1>0, <1>a DEF TypeOK
<1>1. TypeOK'
  BY <1>0, <1>k, <1>r DEF TypeOK
<1>2. CallsReturn'
  <2>1. call[c].n <= calls /\ calls \in Nat /\ call[c].n \in Nat
    BY <1>0, <1>a, Functions DEF CallsReturn
  <2>2. \A n \in Calls : n > calls => n # call[c].n
    BY <2>1, Functions, <1>0
  <2> QED BY <1>0, <1>k, <1>r, <2>2, Shapes DEF CallsReturn
<1>3. ResultsOnce'
  <2>1. \A n \in Calls : result'[n] \in Posts => result'[n] = result[n]
    BY <1>r, Shapes
  <2>2. ASSUME NEW q \in Posts, NEW n \in Calls, result[n] = q
        PROVE  result'[n] = q
    BY <1>a, <2>2, Shapes
  <2> QED BY <1>0, <1>k, <2>1, <2>2 DEF ResultsOnce
<1>4. PromptClientsServed'
  BY <1>a, <1>r DEF PromptClientsServed
<1>5. Channels' /\ HandlerWaits' /\ IdsLead' /\ IdsAreUnique'
  BY <1>0, <1>k DEF Channels, HandlerWaits, IdsLead, IdsAreUnique, Numbered
<1>9. CallsAreTold'
  <2>1. \A d \in Chats : Waiting(d)' => Waiting(d)
    BY <1>a, <1>k, <1>r, Shapes DEF Waiting
  <2>2. \A n \in Calls : result'[n] = "refused" => result[n] = "refused"
    BY <1>r
  <2>3. \A d \in Chats : \A n, i : Told(d, n, i)' <=> Told(d, n, i)
    BY <1>k DEF Told
  <2> QED BY <1>0, <1>k, <2>1, <2>2, <2>3 DEF CallsAreTold
<1>6. PostsAreForCalls'
  BY <1>0, <1>k DEF PostsAreForCalls, Told
<1>7. AnswersFollow'
  BY <1>0, <1>k DEF AnswersFollow, AnswersCome
<1>8. ExitComesLast'
  BY <1>0, <1>k DEF ExitComesLast, EndsWithExit
<1> QED BY <1>1, <1>2, <1>3, <1>4, <1>5, <1>6, <1>7, <1>8, <1>9 DEF ProvidedInv

\* A call that has returned is reported.
LEMMA InvReport ==
  ASSUME ProvidedInv, NEW c \in Chats, Report(c)
  PROVE  ProvidedInv'
<1>0. /\ TypeOK /\ Channels /\ HandlerWaits /\ IdsLead /\ IdsAreUnique /\ CallsReturn
      /\ CallsAreTold /\ PostsAreForCalls /\ ResultsOnce /\ PromptClientsServed
      /\ AnswersFollow /\ ExitComesLast
  BY DEF ProvidedInv
<1>k. UNCHANGED <<owner, handler, run, calls, result, nextId, id, waiters, resultCh, stream, post>>
  BY DEF Report, toolVars
<1>h. /\ call[c] # None /\ call[c].n \in Calls /\ result[call[c].n] # None
      /\ call' = [call EXCEPT ![c] = None]
      /\ call' \in [Chats -> [tool : Tools, n : Calls] \cup {None}]
      /\ call'[c] = None /\ \A d \in Chats : d # c => call'[d] = call[d]
      /\ run[c] = "running"
  <2>1. call[c] # None /\ call[c].n \in Calls /\ result[call[c].n] # None /\ run[c] = "running"
    BY <1>0, Functions DEF Report, Waiting, HandlerWaits
  <2>2. /\ call \in [Chats -> [tool : Tools, n : Calls] \cup {None}]
        /\ call' = [call EXCEPT ![c] = None]
    BY <1>0 DEF TypeOK, Report
  <2> QED BY <2>1, <2>2
<1>e. /\ [Plain("tool_result") EXCEPT !.n = call[c].n] \in Event /\ evCh[c] \in Seq(Event)
      /\ [Plain("tool_result") EXCEPT !.n = call[c].n].type = "tool_result"
      /\ Reports([Plain("tool_result") EXCEPT !.n = call[c].n], call[c].n)
  BY <1>0, <1>h, Events, Functions DEF Reports
<1>v. /\ evCh' \in [Chats -> Seq(Event)] /\ \A d \in Chats : d # c => evCh'[d] = evCh[d]
      /\ Len(evCh[c]) \in Nat /\ Len(evCh'[c]) = Len(evCh[c]) + 1 /\ Len(evCh'[c]) <= QueueSize
      /\ evCh'[c][Len(evCh[c]) + 1] = [Plain("tool_result") EXCEPT !.n = call[c].n]
      /\ \A k \in 1..Len(evCh[c]) : evCh'[c][k] = evCh[c][k]
  <2>1. evCh \in [Chats -> Seq(Event)]
    BY <1>0 DEF Channels
  <2>2.
        /\ evCh' = [evCh EXCEPT ![c] = Append(@, [Plain("tool_result") EXCEPT !.n = call[c].n])]
        /\ Len(evCh[c]) < QueueSize
    BY DEF Report
  <2>3. evCh'[c] = Append(evCh[c], [Plain("tool_result") EXCEPT !.n = call[c].n])
    BY <2>1, <2>2
  <2>4. evCh' \in [Chats -> Seq(Event)] /\ \A d \in Chats : d # c => evCh'[d] = evCh[d]
    BY <1>e, <2>1, <2>2
  <2>5. Len(evCh[c]) \in Nat /\ Len(evCh'[c]) = Len(evCh[c]) + 1
    BY <1>e, <2>3, Longer
  <2>6. Len(evCh'[c]) <= QueueSize
    BY <2>2, <2>5, Shapes
  <2> QED BY <2>3, <2>4, <2>6
<1>1. TypeOK'
  <2>1. \A d \in Chats : \A k \in DOMAIN evCh'[d] : evCh'[d][k] \in Event
    BY <1>v
  <2>2. \A d \in Chats : Len(evCh'[d]) <= QueueSize
    BY <1>0, <1>v DEF TypeOK
  <2> QED BY <1>0, <1>h, <1>k, <2>1, <2>2 DEF TypeOK
<1>2. Channels'
  <2>1. \A k \in 1..Len(evCh'[c]) : k \in 1..Len(evCh[c]) \/ k = Len(evCh[c]) + 1
    BY <1>v
  <2>2. \A k \in 1..Len(evCh'[c]) : evCh'[c][k].type \in {"tool_result", "loop_exit"}
    BY <1>0, <1>e, <1>v, <2>1 DEF Channels
  <2> QED BY <1>0, <1>k, <1>v, <2>2 DEF Channels
<1>3. HandlerWaits'
  BY <1>0, <1>h, <1>k, <1>v DEF HandlerWaits
<1>4. CallsReturn'
  <2> QED BY <1>0, <1>h, <1>k DEF CallsReturn
<1>5. CallsAreTold'
  <2>1. \A d \in Chats : \A n, i : Told(d, n, i)' <=> Told(d, n, i)
    BY <1>k DEF Told
  <2>2. \A d \in Chats : Waiting(d)' => Waiting(d) /\ call'[d] = call[d]
    BY <1>h, <1>k DEF Waiting
  <2> QED BY <1>0, <1>h, <1>k, <2>1, <2>2 DEF CallsAreTold
<1>6. AnswersFollow'
  <2> SUFFICES ASSUME NEW d \in Chats PROVE AnswersCome(d)'
    BY DEF AnswersFollow
  <2>1. CASE d # c
    <3>1. AnswersCome(d)
      BY <1>0 DEF AnswersFollow
    <3> QED BY <1>h, <1>k, <1>v, <2>1, <3>1 DEF AnswersCome
  <2>2. CASE d = c
    <3> SUFFICES ASSUME NEW k \in 1..Len(stream[c]), stream[c][k].type = "provided_toolcall"
                 PROVE  \/ call'[c] # None /\ call'[c].n = stream[c][k].n
                        \/ \E j \in 1..Len(evCh'[c]) : Reports(evCh'[c][j], stream[c][k].n)
                        \/ \E j \in k + 1..Len(stream[c]) : Reports(stream[c][j], stream[c][k].n)
      BY <1>k, <2>2 DEF AnswersCome
    <3>1. \/ call[c] # None /\ call[c].n = stream[c][k].n
          \/ \E j \in 1..Len(evCh[c]) : Reports(evCh[c][j], stream[c][k].n)
          \/ \E j \in k + 1..Len(stream[c]) : Reports(stream[c][j], stream[c][k].n)
      BY <1>0 DEF AnswersFollow, AnswersCome
    <3>2. /\ \A j \in 1..Len(evCh[c]) : j \in 1..Len(evCh'[c])
          /\ Len(evCh[c]) + 1 \in 1..Len(evCh'[c])
      BY <1>v
    <3> QED BY <1>e, <1>v, <3>1, <3>2
  <2> QED BY <2>1, <2>2
<1>7. ExitComesLast'
  <2> SUFFICES ASSUME NEW d \in Chats PROVE EndsWithExit(d)'
    BY DEF ExitComesLast
  <2>1. CASE d # c
    <3>1. EndsWithExit(d)
      BY <1>0 DEF ExitComesLast
    <3> QED BY <1>h, <1>k, <1>v, <3>1 DEF EndsWithExit
  <2>2. CASE d = c
    <3>1. handler[c] # "closed"
      BY <1>0, <1>h DEF HandlerWaits
    <3> QED BY <1>h, <1>k, <2>2, <3>1 DEF EndsWithExit
  <2> QED BY <2>1, <2>2
<1>8. IdsLead' /\ IdsAreUnique'
  BY <1>0, <1>k DEF IdsLead, IdsAreUnique, Numbered
<1>9. PostsAreForCalls'
  BY <1>0, <1>k DEF PostsAreForCalls, Told
<1>10. ResultsOnce'
  BY <1>0, <1>k, ResultsStay
<1>11. PromptClientsServed'
  BY <1>0, <1>k DEF PromptClientsServed
<1> QED BY <1>1, <1>2, <1>3, <1>4, <1>5, <1>6, <1>7, <1>8, <1>9, <1>10, <1>11 DEF ProvidedInv

\* The exit of the loop is its last event.
LEMMA InvRunEnds ==
  ASSUME ProvidedInv, NEW c \in Chats, RunEnds(c)
  PROVE  ProvidedInv'
<1>0. /\ TypeOK /\ Channels /\ HandlerWaits /\ IdsLead /\ IdsAreUnique /\ CallsReturn
      /\ CallsAreTold /\ PostsAreForCalls /\ ResultsOnce /\ PromptClientsServed
      /\ AnswersFollow /\ ExitComesLast
  BY DEF ProvidedInv
<1>k. UNCHANGED <<owner, handler, calls, call, result, nextId, id, waiters, resultCh, stream, post>>
  BY DEF RunEnds, callVars, toolVars
<1>h. /\ run[c] = "running" /\ call[c] = None /\ run' \in [Chats -> {"idle", "running", "ended"}]
      /\ run'[c] = "ended" /\ \A d \in Chats : d # c => run'[d] = run[d]
      /\ handler[c] = "open"
  BY <1>0 DEF RunEnds, TypeOK, HandlerWaits
<1>e. /\ Plain("loop_exit") \in Event /\ evCh[c] \in Seq(Event)
      /\ Plain("loop_exit").type = "loop_exit"
  BY <1>0, Events, Functions
<1>v. /\ evCh' \in [Chats -> Seq(Event)] /\ \A d \in Chats : d # c => evCh'[d] = evCh[d]
      /\ Len(evCh[c]) \in Nat /\ Len(evCh'[c]) = Len(evCh[c]) + 1 /\ Len(evCh'[c]) <= QueueSize
      /\ evCh'[c][Len(evCh[c]) + 1] = Plain("loop_exit")
      /\ \A k \in 1..Len(evCh[c]) : evCh'[c][k] = evCh[c][k]
  <2>1. evCh \in [Chats -> Seq(Event)]
    BY <1>0 DEF Channels
  <2>2. evCh' = [evCh EXCEPT ![c] = Append(@, Plain("loop_exit"))] /\ Len(evCh[c]) < QueueSize
    BY DEF RunEnds
  <2>3. evCh'[c] = Append(evCh[c], Plain("loop_exit"))
    BY <2>1, <2>2
  <2>4. evCh' \in [Chats -> Seq(Event)] /\ \A d \in Chats : d # c => evCh'[d] = evCh[d]
    BY <1>e, <2>1, <2>2
  <2>5. Len(evCh[c]) \in Nat /\ Len(evCh'[c]) = Len(evCh[c]) + 1
    BY <1>e, <2>3, Longer
  <2>6. Len(evCh'[c]) <= QueueSize
    BY <2>2, <2>5, Shapes
  <2> QED BY <2>3, <2>4, <2>6
<1>1. TypeOK'
  <2>1. \A d \in Chats : \A k \in DOMAIN evCh'[d] : evCh'[d][k] \in Event
    BY <1>v
  <2>2. \A d \in Chats : Len(evCh'[d]) <= QueueSize
    BY <1>0, <1>v DEF TypeOK
  <2> QED BY <1>0, <1>h, <1>k, <2>1, <2>2 DEF TypeOK
<1>2. Channels'
  <2>1. \A k \in 1..Len(evCh'[c]) : k \in 1..Len(evCh[c]) \/ k = Len(evCh[c]) + 1
    BY <1>v
  <2>2. \A k \in 1..Len(evCh'[c]) : evCh'[c][k].type \in {"tool_result", "loop_exit"}
    BY <1>0, <1>e, <1>v, <2>1 DEF Channels
  <2> QED BY <1>0, <1>k, <1>v, <2>2 DEF Channels
<1>3. HandlerWaits'
  BY <1>0, <1>h, <1>k, <1>v DEF HandlerWaits
<1>4. AnswersFollow'
  <2> SUFFICES ASSUME NEW d \in Chats PROVE AnswersCome(d)'
    BY DEF AnswersFollow
  <2>1. CASE d # c
    <3>1. AnswersCome(d)
      BY <1>0 DEF AnswersFollow
    <3> QED BY <1>k, <1>v, <2>1, <3>1 DEF AnswersCome
  <2>2. CASE d = c
    <3> SUFFICES ASSUME NEW k \in 1..Len(stream[c]), stream[c][k].type = "provided_toolcall"
                 PROVE  \/ call'[c] # None /\ call'[c].n = stream[c][k].n
                        \/ \E j \in 1..Len(evCh'[c]) : Reports(evCh'[c][j], stream[c][k].n)
                        \/ \E j \in k + 1..Len(stream[c]) : Reports(stream[c][j], stream[c][k].n)
      BY <1>k, <2>2 DEF AnswersCome
    <3>1. \/ call[c] # None /\ call[c].n = stream[c][k].n
          \/ \E j \in 1..Len(evCh[c]) : Reports(evCh[c][j], stream[c][k].n)
          \/ \E j \in k + 1..Len(stream[c]) : Reports(stream[c][j], stream[c][k].n)
      BY <1>0 DEF AnswersFollow, AnswersCome
    <3>2. /\ \A j \in 1..Len(evCh[c]) : j \in 1..Len(evCh'[c])
          /\ Len(evCh[c]) + 1 \in 1..Len(evCh'[c])
      BY <1>v
    <3> QED BY <1>h, <1>v, <3>1, <3>2
  <2> QED BY <2>1, <2>2
<1>5. ExitComesLast'
  <2> SUFFICES ASSUME NEW d \in Chats PROVE EndsWithExit(d)'
    BY DEF ExitComesLast
  <2>1. CASE d # c
    <3>1. EndsWithExit(d)
      BY <1>0 DEF ExitComesLast
    <3> QED BY <1>h, <1>k, <1>v, <2>1, <3>1 DEF EndsWithExit
  <2>2. CASE d = c
    <3>1. evCh'[c] # <<>> /\ Exits(evCh'[c][Len(evCh'[c])])
      BY <1>e, <1>v DEF Exits
    <3> QED BY <1>h, <1>k, <2>2, <3>1 DEF EndsWithExit
  <2> QED BY <2>1, <2>2
<1>6. IdsLead' /\ IdsAreUnique' /\ CallsReturn' /\ CallsAreTold'
  BY <1>0, <1>k DEF IdsLead, IdsAreUnique, Numbered, CallsReturn, CallsAreTold, Waiting, Told
<1>7. PostsAreForCalls'
  BY <1>0, <1>k DEF PostsAreForCalls, Told
<1>8. ResultsOnce'
  BY <1>0, <1>k, ResultsStay
<1>9. PromptClientsServed'
  BY <1>0, <1>k DEF PromptClientsServed
<1> QED BY <1>1, <1>2, <1>3, <1>4, <1>5, <1>6, <1>7, <1>8, <1>9 DEF ProvidedInv

\* A run that fails before its loop has sent nothing but the error.
LEMMA InvRunFails ==
  ASSUME ProvidedInv, NEW c \in Chats, RunFails(c)
  PROVE  ProvidedInv'
<1>0. /\ TypeOK /\ Channels /\ HandlerWaits /\ IdsLead /\ IdsAreUnique /\ CallsReturn
      /\ CallsAreTold /\ PostsAreForCalls /\ ResultsOnce /\ PromptClientsServed
      /\ AnswersFollow /\ ExitComesLast
  BY DEF ProvidedInv
<1>k. UNCHANGED <<owner, handler, calls, call, result, nextId, id, waiters, resultCh, evCh, post>>
  BY DEF RunFails, callVars, toolVars
<1>h. /\ run[c] = "running" /\ call[c] = None /\ run' \in [Chats -> {"idle", "running", "ended"}]
      /\ run'[c] = "ended" /\ \A d \in Chats : d # c => run'[d] = run[d]
      /\ handler[c] = "open"
  BY <1>0 DEF RunFails, TypeOK, HandlerWaits
<1>f. evCh[c] = <<>> /\ stream[c] = <<>>
  BY DEF RunFails
<1>e. Plain("error") \in Event
  BY Events
<1>d. Send(c, Plain("error"))
  BY DEF RunFails
<1>s. /\ stream' \in [Chats -> Seq(Event)]
      /\ \A d \in Chats : d # c => stream'[d] = stream[d]
      /\ Len(stream[c]) \in Nat /\ Len(stream'[c]) = Len(stream[c]) + 1
      /\ stream'[c][Len(stream[c]) + 1] = Plain("error")
      /\ \A k \in 1..Len(stream[c]) : stream'[c][k] = stream[c][k]
  BY <1>0, <1>d, <1>e, Sends
<1>t. \A d \in Chats : \A n, i : Told(d, n, i)' <=> Told(d, n, i)
  BY <1>0, <1>d, Events, Tells
<1>1. TypeOK'
  <2> QED BY <1>0, <1>h, <1>s, <1>k DEF TypeOK
<1>2. Channels'
  BY <1>0, <1>k, <1>s DEF Channels
<1>3. HandlerWaits'
  BY <1>0, <1>h, <1>k, <1>s DEF HandlerWaits
<1>4. CallsAreTold'
  BY <1>0, <1>k, <1>t DEF CallsAreTold, Waiting
<1>5. PostsAreForCalls'
  BY <1>0, <1>k, <1>t DEF PostsAreForCalls
<1>6. AnswersFollow'
  <2> SUFFICES ASSUME NEW d \in Chats, NEW k \in 1..Len(stream'[d]),
                      stream'[d][k].type = "provided_toolcall"
               PROVE  \/ call'[d] # None /\ call'[d].n = stream'[d][k].n
                      \/ \E j \in 1..Len(evCh'[d]) : Reports(evCh'[d][j], stream'[d][k].n)
                      \/ \E j \in k + 1..Len(stream'[d]) : Reports(stream'[d][j], stream'[d][k].n)
    BY DEF AnswersFollow, AnswersCome, Reports
  <2>1. CASE d # c
    BY <1>0, <1>k, <1>s, <2>1 DEF AnswersFollow, AnswersCome
  <2>2. CASE d = c
    <3>1. k \in 1..Len(stream[c]) /\ stream'[c][k] = stream[c][k]
      BY <1>s, <2>2, Events
    <3>2. \/ call[c] # None /\ call[c].n = stream[c][k].n
          \/ \E j \in 1..Len(evCh[c]) : Reports(evCh[c][j], stream[c][k].n)
          \/ \E j \in k + 1..Len(stream[c]) : Reports(stream[c][j], stream[c][k].n)
      BY <1>0, <2>2, <3>1 DEF AnswersFollow, AnswersCome
    <3> QED BY <1>k, <1>s, <2>2, <3>1, <3>2
  <2> QED BY <2>1, <2>2
<1>7. ExitComesLast'
  <2> SUFFICES ASSUME NEW d \in Chats PROVE EndsWithExit(d)'
    BY DEF ExitComesLast
  <2>1. CASE d # c
    <3>1. EndsWithExit(d)
      BY <1>0 DEF ExitComesLast
    <3> QED BY <1>h, <1>k, <1>s, <2>1, <3>1 DEF EndsWithExit
  <2>2. CASE d = c
    <3>1. Len(stream'[c]) = 1 /\ Exits(stream'[c][Len(stream'[c])])
      BY <1>f, <1>s, Events DEF Exits
    <3> QED BY <1>f, <1>h, <1>k, <2>2, <3>1 DEF EndsWithExit
  <2> QED BY <2>1, <2>2
<1>8. IdsLead' /\ IdsAreUnique' /\ CallsReturn'
  BY <1>0, <1>k DEF IdsLead, IdsAreUnique, Numbered, CallsReturn
<1>9. ResultsOnce'
  BY <1>0, <1>k, ResultsStay
<1>10. PromptClientsServed'
  BY <1>0, <1>k DEF PromptClientsServed
<1> QED BY <1>1, <1>2, <1>3, <1>4, <1>5, <1>6, <1>7, <1>8, <1>9, <1>10 DEF ProvidedInv

\* A request finds the tool whose id its client was told.
LEMMA InvLookup ==
  ASSUME ProvidedInv, NEW p \in Posts, NEW n \in Calls, NEW i \in Ids, Lookup(p, n, i)
  PROVE  ProvidedInv'
<1>0. /\ TypeOK /\ Channels /\ HandlerWaits /\ IdsLead /\ IdsAreUnique /\ CallsReturn
      /\ CallsAreTold /\ PostsAreForCalls /\ ResultsOnce /\ PromptClientsServed
      /\ AnswersFollow /\ ExitComesLast
  BY DEF ProvidedInv
<1>k. UNCHANGED <<owner, handler, run, calls, call, result, nextId, id, waiters, resultCh,
                  evCh, stream>>
  BY DEF Lookup, chatVars, callVars, toolVars
<1>a. /\ post[p].pc = "new"
      /\ post' = [post EXCEPT ![p] = [pc |-> IF waiters[i] # None THEN "found" ELSE "refused",
                                      tool |-> waiters[i], n |-> n]]
      /\ \E d \in Chats : Told(d, n, i)
  <2>1. post[p].pc = "new" /\ \E d \in Chats : \E e \in {stream[d][k] : k \in DOMAIN stream[d]} :
          e.type = "provided_toolcall" /\ e.n = n /\ e.id = i
    BY DEF Lookup
  <2> QED BY <2>1 DEF Told, Lookup
<1>b. waiters[i] \in Tools \cup {None} /\ (waiters[i] # None => id[waiters[i]] = i)
  BY <1>0 DEF TypeOK
<1>q. /\ post' \in [Posts -> [pc : {"new", "found", "sent", "refused"},
                              tool : Tools \cup {None}, n : Calls \cup {None}]]
      /\ post'[p].n = n /\ post'[p].tool = waiters[i]
      /\ post'[p].pc = (IF waiters[i] # None THEN "found" ELSE "refused")
      /\ \A q \in Posts : q # p => post'[q] = post[q]
  BY <1>0, <1>a DEF TypeOK
<1>1. TypeOK'
  BY <1>0, <1>k, <1>q DEF TypeOK
<1>2. PostsAreForCalls'
  <2>1. \A d \in Chats : \A m, j : Told(d, m, j)' <=> Told(d, m, j)
    BY <1>k DEF Told
  <2>2. ASSUME post'[p].pc = "found"
        PROVE  /\ post'[p].tool \in Tools /\ id[post'[p].tool] # None
               /\ \E d \in Chats : Told(d, post'[p].n, id[post'[p].tool])
    BY <1>a, <1>b, <2>2, Shapes
  <2> QED BY <1>0, <1>k, <1>q, <2>1, <2>2 DEF PostsAreForCalls
<1>3. ResultsOnce'
  BY <1>0, <1>a, <1>k, <1>q DEF ResultsOnce
<1>4. PromptClientsServed'
  <2> SUFFICES ASSUME Prompt'
               PROVE  \A m \in Calls : result[m] \in Posts => post'[result[m]].n = m
    BY <1>k DEF PromptClientsServed, Prompt
  <2>1. Prompt
    <3>1. post[p].n = None
      BY <1>0, <1>a DEF PostsAreForCalls
    <3> QED BY <1>k, <1>q, <3>1 DEF Prompt
  <2>2. \A m \in Calls : result[m] \in Posts => post[result[m]].n = m /\ post[result[m]].pc = "sent"
    BY <1>0, <2>1 DEF PromptClientsServed, Prompt, ResultsOnce
  <2> QED BY <1>a, <1>q, <2>2
<1>5. Channels' /\ HandlerWaits' /\ IdsLead' /\ IdsAreUnique' /\ CallsReturn' /\ CallsAreTold'
  <2>1. Channels' /\ HandlerWaits' /\ IdsLead' /\ IdsAreUnique' /\ CallsReturn'
    BY <1>0, <1>k DEF Channels, HandlerWaits, IdsLead, IdsAreUnique, Numbered, CallsReturn
  <2>2. CallsAreTold'
    BY <1>0, <1>k DEF CallsAreTold, Waiting, Told
  <2> QED BY <2>1, <2>2
<1>6. AnswersFollow'
  BY <1>0, <1>k DEF AnswersFollow, AnswersCome
<1>7. ExitComesLast'
  BY <1>0, <1>k DEF ExitComesLast, EndsWithExit
<1> QED BY <1>1, <1>2, <1>3, <1>4, <1>5, <1>6, <1>7 DEF ProvidedInv

\* A result that is accepted is put into an empty channel.
LEMMA InvPut ==
  ASSUME ProvidedInv, NEW p \in Posts, Put(p)
  PROVE  ProvidedInv'
<1>0. /\ TypeOK /\ Channels /\ HandlerWaits /\ IdsLead /\ IdsAreUnique /\ CallsReturn
      /\ CallsAreTold /\ PostsAreForCalls /\ ResultsOnce /\ PromptClientsServed
      /\ AnswersFollow /\ ExitComesLast
  BY DEF ProvidedInv
<1>k. UNCHANGED <<owner, handler, run, calls, call, result, nextId, id, waiters, evCh, stream>>
  BY DEF Put, chatVars, callVars, toolVars
<1>a. /\ post[p].pc = "found" /\ post[p].tool \in Tools /\ resultCh[post[p].tool] = <<>>
      /\ resultCh' = [resultCh EXCEPT ![post[p].tool] = <<p>>]
      /\ post' = [post EXCEPT ![p].pc = "sent"]
  BY <1>0 DEF Put, PostsAreForCalls
<1>q. /\ post' \in [Posts -> [pc : {"new", "found", "sent", "refused"},
                              tool : Tools \cup {None}, n : Calls \cup {None}]]
      /\ post'[p].n = post[p].n /\ post'[p].tool = post[p].tool /\ post'[p].pc = "sent"
      /\ \A q \in Posts : q # p => post'[q] = post[q]
  BY <1>0, <1>a DEF TypeOK
<1>r. /\ resultCh' \in [Tools -> {<<>>} \cup {<<q>> : q \in Posts}]
      /\ resultCh'[post[p].tool] = <<p>>
      /\ \A t \in Tools : t # post[p].tool => resultCh'[t] = resultCh[t]
  BY <1>0, <1>a DEF TypeOK
<1>1. TypeOK'
  BY <1>0, <1>k, <1>q, <1>r DEF TypeOK
<1>2. PostsAreForCalls'
  <2>1. \A d \in Chats : \A m, j : Told(d, m, j)' <=> Told(d, m, j)
    BY <1>k DEF Told
  <2> QED BY <1>0, <1>a, <1>k, <2>1 DEF PostsAreForCalls
<1>3. ResultsOnce'
  <2>1. \A n \in Calls : result[n] # p
    BY <1>0, <1>a DEF ResultsOnce
  <2>2. ASSUME NEW t \in Tools, NEW q \in Posts, resultCh'[t] = <<q>>
        PROVE  post'[q].pc = "sent" /\ post'[q].tool = t /\ \A n \in Calls : result[n] # q
    <3>1. CASE t = post[p].tool
      BY <1>q, <1>r, <2>1, <2>2, <3>1
    <3>2. CASE t # post[p].tool
      BY <1>0, <1>a, <1>q, <2>2 DEF ResultsOnce
    <3> QED BY <3>1, <3>2
  <2>3. \A n \in Calls : result[n] \in Posts => post'[result[n]].pc = "sent"
    BY <1>0, <1>q DEF ResultsOnce
  <2>4. ASSUME NEW q \in Posts, post'[q].pc = "sent"
        PROVE  (\E t \in Tools : resultCh'[t] = <<q>>) \/ (\E n \in Calls : result[n] = q)
    <3>1. CASE q = p
      BY <1>a, <1>r, <3>1
    <3>2. CASE q # p
      <4>1. (\E t \in Tools : resultCh[t] = <<q>>) \/ (\E n \in Calls : result[n] = q)
        BY <1>0, <1>q, <2>4, <3>2 DEF ResultsOnce
      <4> QED BY <1>a, <4>1
    <3> QED BY <3>1, <3>2
  <2>5. \A m, n \in Calls : result[m] \in Posts /\ result[m] = result[n] => m = n
    BY <1>0 DEF ResultsOnce
  <2> QED BY <1>k, <2>2, <2>3, <2>4, <2>5 DEF ResultsOnce
<1>4. PromptClientsServed'
  <2> SUFFICES ASSUME Prompt'
               PROVE  \A m \in Calls : result[m] \in Posts => post'[result[m]].n = m
    BY <1>k DEF PromptClientsServed, Prompt
  <2>1. Prompt
    BY <1>a, <1>k DEF Prompt
  <2>2. \A m \in Calls : result[m] \in Posts => post[result[m]].n = m /\ post[result[m]].pc = "sent"
    BY <1>0, <2>1 DEF PromptClientsServed, Prompt, ResultsOnce
  <2> QED BY <1>a, <1>q, <2>2
<1>5. Channels' /\ HandlerWaits' /\ IdsLead' /\ IdsAreUnique' /\ CallsReturn' /\ CallsAreTold'
  <2>1. Channels' /\ HandlerWaits' /\ IdsLead' /\ IdsAreUnique' /\ CallsReturn'
    BY <1>0, <1>k DEF Channels, HandlerWaits, IdsLead, IdsAreUnique, Numbered, CallsReturn
  <2>2. CallsAreTold'
    BY <1>0, <1>k DEF CallsAreTold, Waiting, Told
  <2> QED BY <2>1, <2>2
<1>6. AnswersFollow'
  BY <1>0, <1>k DEF AnswersFollow, AnswersCome
<1>7. ExitComesLast'
  BY <1>0, <1>k DEF ExitComesLast, EndsWithExit
<1> QED BY <1>1, <1>2, <1>3, <1>4, <1>5, <1>6, <1>7 DEF ProvidedInv

\* Nothing is registered, called or sent before the first request.
LEMMA InvInitially == Init => ProvidedInv
<1> SUFFICES ASSUME Init PROVE ProvidedInv
  OBVIOUS
<1>1. /\ \A c \in Chats : /\ handler[c] = "new" /\ run[c] = "idle" /\ call[c] = None
                          /\ stream[c] = <<>> /\ evCh[c] = <<>>
      /\ \A t \in Tools : id[t] = None /\ resultCh[t] = <<>>
      /\ \A n \in Calls : result[n] = None
      /\ \A p \in Posts : post[p].pc = "new" /\ post[p].n = None
      /\ calls = 0 /\ nextId = 1 /\ \A n \in Calls : n > calls
      /\ \A i \in Ids : waiters[i] = None
  BY Shapes DEF Init, Calls
<1>2. \A c \in Chats : Len(stream[c]) = 0 /\ Len(evCh[c]) = 0 /\ 1..Len(stream[c]) = {} /\ 1..Len(evCh[c]) = {}
  BY <1>1
<1>3. Channels
  BY <1>2 DEF Init, Channels
<1>4. TypeOK
  <2>1. calls \in 0..MaxCalls /\ nextId \in 1..Cardinality(Tools) + 1
    BY <1>1, Shapes
  <2>3. \A c \in Chats : /\ Len(evCh[c]) <= QueueSize
                         /\ \A i \in DOMAIN evCh[c] : evCh[c][i] \in Event
                         /\ \A i \in DOMAIN stream[c] : stream[c][i] \in Event
    BY <1>1, <1>2, Shapes
  <2> QED BY <2>1, <2>3 DEF Init, TypeOK
<1>5. HandlerWaits /\ IdsLead /\ CallsReturn
  <2>1. \A t \in Tools : owner[t] \in Chats /\ handler[owner[t]] = "new"
    BY <1>1 DEF Init
  <2>2. HandlerWaits
    BY <1>1 DEF HandlerWaits
  <2>3. IdsLead
    BY <2>1 DEF IdsLead
  <2>4. CallsReturn
    <3>1. \A n \in Calls : ~(n <= calls)
      BY <1>1, Shapes DEF Calls
    <3> QED BY <1>1, <3>1 DEF CallsReturn
  <2> QED BY <2>2, <2>3, <2>4
<1>6. IdsAreUnique
  <2>1. Numbered = {}
    BY <1>1 DEF Numbered
  <2> QED BY <1>1, <2>1, FS_EmptySet DEF IdsAreUnique
<1>7. \A c \in Chats : \A n, i : ~Told(c, n, i)
  BY <1>2 DEF Told
<1>8. CallsAreTold /\ PostsAreForCalls
  BY <1>1, <1>7 DEF CallsAreTold, Waiting, PostsAreForCalls
<1>9. ResultsOnce /\ PromptClientsServed
  BY <1>1, Shapes DEF ResultsOnce, PromptClientsServed
<1>10. AnswersFollow /\ ExitComesLast
  BY <1>1 DEF AnswersFollow, AnswersCome, ExitComesLast, EndsWithExit
<1> QED BY <1>3, <1>4, <1>5, <1>6, <1>8, <1>9, <1>10 DEF ProvidedInv

\* Every step of the handlers, of the runs and of the requests preserves the invariant.
LEMMA InvPreserved == ProvidedInv /\ [Next]_vars => ProvidedInv'
<1> SUFFICES ASSUME ProvidedInv, [Next]_vars PROVE ProvidedInv'
  OBVIOUS
<1>1. CASE \E c \in Chats : Handler(c) \/ Run(c)
  BY <1>1, InvOpen, InvBadRequest, InvForward, InvUnregister, InvClose, InvCall, InvCallRefused, InvReceive,
     InvTimeOut, InvReport, InvRunEnds, InvRunFails DEF Handler, Run
<1>2. CASE \E p \in Posts : ResolveCall(p)
  BY <1>2, InvLookup, InvPut DEF ResolveCall
<1>3. CASE UNCHANGED vars
  <2>1. UNCHANGED <<owner, handler, run, calls, call, result, nextId, id, waiters>>
    BY <1>3 DEF vars, chatVars, callVars, toolVars
  <2>2. UNCHANGED <<resultCh, evCh, stream, post>>
    BY <1>3 DEF vars, chatVars
  <2>3. TypeOK' /\ Channels' /\ HandlerWaits' /\ IdsLead' /\ IdsAreUnique' /\ CallsReturn'
    BY <2>1, <2>2
       DEF ProvidedInv, TypeOK, Channels, HandlerWaits, IdsLead, IdsAreUnique, Numbered,
       CallsReturn
  <2>4. CallsAreTold'
    BY <2>1, <2>2 DEF ProvidedInv, CallsAreTold, Waiting, Told
  <2>8. PostsAreForCalls'
    BY <2>1, <2>2 DEF ProvidedInv, PostsAreForCalls, Told
  <2>9. ResultsOnce'
    BY <2>1, <2>2 DEF ProvidedInv, ResultsOnce
  <2>5. PromptClientsServed'
    BY <2>1, <2>2 DEF ProvidedInv, PromptClientsServed
  <2>6. AnswersFollow'
    BY <2>1, <2>2 DEF ProvidedInv, AnswersFollow, AnswersCome
  <2>7. ExitComesLast'
    BY <2>1, <2>2 DEF ProvidedInv, ExitComesLast, EndsWithExit
  <2> QED BY <2>3, <2>4, <2>5, <2>6, <2>7, <2>8, <2>9 DEF ProvidedInv
<1> QED BY <1>1, <1>2, <1>3 DEF Next

\* The invariant holds in every reachable state.
LEMMA InvHolds == Spec => []ProvidedInv
<1> QED BY InvInitially, InvPreserved, PTL DEF Spec

-----------------------------------------------------------------------------
(***************************************************************************)
(* Theorems                                                                *)
(***************************************************************************)

\* The variables of the handlers, the runs and the requests have their types; no channel
\* holds two results.
THEOREM TypeCorrect == Spec => []TypeOK
<1>1. ProvidedInv => TypeOK
  BY DEF ProvidedInv
<1> QED BY <1>1, InvHolds, PTL

\* While a loop waits for a result, the id that the client was told leads to its channel:
\* chatHandler.Chat unregisters the tools of a chat when its run is over.
THEOREM WaitingCallsAreAnswerable == Spec => []WaitingIsAnswerable
<1>1. ASSUME ProvidedInv
      PROVE  WaitingIsAnswerable
  <2> SUFFICES ASSUME NEW c \in Chats, Waiting(c)
               PROVE  waiters[id[call[c].tool]] = call[c].tool
    BY DEF WaitingIsAnswerable
  <2> QED BY <1>1, WaitingInOpenChat DEF ProvidedInv, IdsLead
<1> QED BY <1>1, InvHolds, PTL

\* ResolveCall and ProvidedTool.Call: a result that was accepted is in its tool's channel or
\* was returned by exactly one call; none is lost and none is used twice.
THEOREM ResultsUsedOnce == Spec => []EachResultOnce
<1>1. ASSUME ProvidedInv
      PROVE  EachResultOnce
  <2> SUFFICES ASSUME NEW p \in Posts, post[p].pc = "sent"
               PROVE  IF \E t \in Tools : resultCh[t] = <<p>>
                      THEN {n \in Calls : result[n] = p} = {}
                      ELSE Cardinality({n \in Calls : result[n] = p}) = 1
    BY DEF EachResultOnce
  <2>1. CASE \E t \in Tools : resultCh[t] = <<p>>
    BY <1>1, <2>1 DEF ProvidedInv, ResultsOnce
  <2>2. CASE ~\E t \in Tools : resultCh[t] = <<p>>
    <3>1. PICK n \in Calls : result[n] = p
      BY <1>1, <2>2 DEF ProvidedInv, ResultsOnce
    <3>2. {m \in Calls : result[m] = p} = {n}
      BY <1>1, <3>1 DEF ProvidedInv, ResultsOnce
    <3> QED BY <2>2, <3>2, FS_Singleton
  <2> QED BY <2>1, <2>2
<1> QED BY <1>1, InvHolds, PTL

\* As long as no call was given up and none was answered twice, every call returns the
\* result that was posted for it, however the chats overlap (registerProvidedToolServers
\* gives every tool an id of its own).
THEOREM PromptClientsAreServed == Spec => []PromptClientsServed
<1>1. ProvidedInv => PromptClientsServed
  BY DEF ProvidedInv
<1> QED BY <1>1, InvHolds, PTL

\* forwardEventsToStream: a stream that was closed has a result after every call, the
\* exit of the loop, and [DONE] at its end.
THEOREM StreamsAreComplete == Spec => []StreamIsComplete
<1>1. ASSUME ProvidedInv
      PROVE  StreamIsComplete
  <2> SUFFICES ASSUME NEW c \in Chats, handler[c] = "closed"
               PROVE  LET last == Len(stream[c])
                          At(i, type) == i >= 1 /\ stream[c][i].type = type
                      IN  /\ At(last, "[DONE]")
                          /\ At(last - 1, "loop_exit") \/ At(last - 1, "error")
                          /\ \A i \in 1..last : At(i, "provided_toolcall") =>
                               \E j \in i + 1..last : At(j, "tool_result") /\ stream[c][j].n = stream[c][i].n
    BY DEF StreamIsComplete
  <2>1. Len(stream[c]) \in Nat
    BY <1>1, Functions DEF ProvidedInv
  <2>2. /\ Len(stream[c]) >= 2 /\ stream[c][Len(stream[c])].type = "[DONE]"
        /\ stream[c][Len(stream[c]) - 1].type \in {"loop_exit", "error"}
    BY <1>1 DEF ProvidedInv, ExitComesLast, EndsWithExit, Exits
  <2>3. call[c] = None /\ Len(evCh[c]) = 0
    BY <1>1 DEF ProvidedInv, HandlerWaits
  <2>4. ASSUME NEW i \in 1..Len(stream[c]), stream[c][i].type = "provided_toolcall"
        PROVE  \E j \in i + 1..Len(stream[c]) :
                 j >= 1 /\ stream[c][j].type = "tool_result" /\ stream[c][j].n = stream[c][i].n
    <3>1. \E j \in i + 1..Len(stream[c]) : Reports(stream[c][j], stream[c][i].n)
      BY <1>1, <2>3, <2>4 DEF ProvidedInv, AnswersFollow, AnswersCome
    <3>2. \A j \in i + 1..Len(stream[c]) : j >= 1
      BY <2>1
    <3> QED BY <3>1, <3>2 DEF Reports
  <2> QED BY <2>1, <2>2, <2>4
<1> QED BY <1>1, InvHolds, PTL

=============================================================================
