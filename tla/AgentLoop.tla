------------------------------ MODULE AgentLoop ------------------------------
(***************************************************************************)
(* runtime.RunAgentLoop and the goroutine that consumes its events         *)
(* (chat.Service.runAgentLoopWithCallbacks), run after run on one session. *)
(*                                                                         *)
(* The loop keeps the context it sends to the model, the consumer rebuilds *)
(* the session from the events, and the two meet in a bounded channel.     *)
(* The slice a compaction makes is shared: the loop goes on with it and    *)
(* hands it to the session in its event, so that both append to one array  *)
(* as long as its capacity lasts.  So are the messages themselves: both    *)
(* hold pointers to them, and what the loop changes in a message in place  *)
(* the session sees.                                                       *)
(***************************************************************************)
EXTENDS Naturals, Sequences

CONSTANTS
  MaxRuns,      \* chat requests on the session
  MaxTurns,     \* turns of a run (defaultTurnsLimit)
  MaxMistakes,  \* completion mistakes of a run (maxCompletionMistakes)
  MaxCalls,     \* tool calls of a completion
  ChanCap,      \* capacity of the event channel
  MaxSlack,     \* spare capacity append gives the slice of a compaction
  Seeing        \* the runs whose model takes images

ASSUME BoundsAssumption ==
  /\ {MaxRuns, MaxTurns, ChanCap} \subseteq Nat \ {0}
  /\ {MaxMistakes, MaxCalls, MaxSlack} \subseteq Nat

VARIABLES
  lpc,       \* where the loop stands
  run,       \* runs begun so far
  left,      \* turns left to the run
  mistakes,  \* completionMistakes
  cancelled, \* the context of the run is cancelled
  turn,      \* number of the completion at hand; counts on over the runs
  reply,     \* the completion at hand: its tool calls, done, over the threshold
  call,      \* the next of its tool calls
  messages,  \* the loop's context
  events,    \* the event channel
  closed,    \* the event channel is closed
  sess,      \* the messages of the session in memory
  stored,    \* the messages of the session file
  loopArr,   \* the array of a compaction that messages still is a part of
  sessArr,   \* the array of a compaction that sess still is a part of
  broken,    \* history: a compaction failed, and a run with it
  clobbered, \* history: runs in which the session wrote over the loop's context
  exits      \* history: LoopExitEvents the consumer has handled

loopVars == <<lpc, run, left, mistakes, cancelled, turn, reply, call, broken>>
chanVars == <<events, closed>>
sliceVars == <<messages, sess, loopArr, sessArr, clobbered>>
vars == <<loopVars, chanVars, sliceVars, stored, exits>>

-----------------------------------------------------------------------------
(***************************************************************************)
(* Messages: a role, the tool calls made (agent) or answered (tool), and   *)
(* what the text says.                                                     *)
(***************************************************************************)
MaxTurn == MaxRuns * MaxTurns
CallIds == (1..MaxTurn) \X (1..MaxCalls)
Texts == {<<"system", 0>>}
           \cup {"request", "image", "unseen"} \X (1..MaxRuns)
           \cup {"answer", "mistake", "caution", "summary"} \X (1..MaxTurn)
Message == [role : {"system", "user", "agent", "tool"},
            calls : SUBSET CallIds,
            text : SUBSET Texts]

Text(role, text) == [role |-> role, calls |-> {}, text |-> {text}]
SystemMsg  == Text("system", <<"system", 0>>)

\* A user's request: words and an image.
Request(r) ==
  [role |-> "user", calls |-> {}, text |-> {<<"request", r>>, <<"image", r>>}]

Answer(t, n) ==
  [role |-> "agent", calls |-> {t} \X (1..n), text |-> {<<"answer", t>>}]
ToolResult(t, n) == [role |-> "tool", calls |-> {<<t, n>>}, text |-> {}]

\* A note takes the place of each image.
Unseen(m) ==
  [m EXCEPT !.text = {IF x[1] = "image" THEN <<"unseen", x[2]>> ELSE x : x \in @}]

Private == [id |-> 0, cap |-> 0]
NoReply == [calls |-> 0, done |-> FALSE, over |-> FALSE]

LoopPCs == {"idle", "top", "complete", "caution", "append", "compact", "overflow",
            "calls", "answer", "hung", "exit"}

Event == [type : {"exit", "mistake", "toolErr"}]
           \cup [type : {"complete"}, turn : 1..MaxTurn, calls : 0..MaxCalls]
           \cup [type : {"toolResult"}, turn : 1..MaxTurn, call : 1..MaxCalls]
           \cup [type : {"compaction"}, context : Seq(Message),
                 arr : [id : 1..MaxTurn, cap : Nat]]

TypeOK ==
  /\ lpc \in LoopPCs
  /\ run \in 0..MaxRuns
  /\ left \in 0..MaxTurns
  /\ mistakes \in 0..MaxMistakes + 1
  /\ cancelled \in BOOLEAN
  /\ turn \in 0..MaxTurn
  /\ reply \in [calls : 0..MaxCalls, done : BOOLEAN, over : BOOLEAN]
  /\ call \in 1..MaxCalls + 1
  /\ messages \in Seq(Message)
  /\ events \in Seq(Event) /\ Len(events) <= ChanCap
  /\ closed \in BOOLEAN
  /\ sess \in Seq(Message)
  /\ stored \in Seq(Message)
  /\ loopArr \in [id : 0..MaxTurn, cap : Nat]
  /\ sessArr \in [id : 0..MaxTurn, cap : Nat]
  /\ broken \in BOOLEAN
  /\ clobbered \subseteq 1..MaxRuns
  /\ exits \in 0..MaxRuns

Init ==
  /\ lpc = "idle" /\ run = 0 /\ left = 0 /\ mistakes = 0
  /\ cancelled = FALSE /\ turn = 0 /\ reply = NoReply /\ call = 1
  /\ messages = <<>> /\ events = <<>> /\ closed = TRUE
  /\ sess = <<>> /\ stored = <<>>
  /\ loopArr = Private /\ sessArr = Private
  /\ broken = FALSE /\ clobbered = {} /\ exits = 0

-----------------------------------------------------------------------------
(***************************************************************************)
(* Slices                                                                  *)
(***************************************************************************)

\* s after ms was written to its array behind position from.
Overlay(s, from, ms) ==
  [i \in DOMAIN s |->
     IF from < i /\ i <= from + Len(ms) THEN ms[i - from] ELSE s[i]]

\* append(messages, ms...): into the array of the last compaction while it has
\* room, where it shows in the session too if that is as long; or into a copy.
LoopAppends(ms) ==
  /\ messages' = messages \o ms
  /\ IF loopArr.id # 0 /\ Len(messages) + Len(ms) <= loopArr.cap
     THEN /\ sess' = IF sessArr.id = loopArr.id
                     THEN Overlay(sess, Len(messages), ms) ELSE sess
          /\ UNCHANGED loopArr
     ELSE /\ loopArr' = Private
          /\ UNCHANGED sess
  /\ UNCHANGED <<sessArr, clobbered>>

\* append(s.messages, m) by the consumer. Where the loop was first to append to the
\* array, and appended something else, its context is not what it was.
SessionAppends(m) ==
  /\ sess' = Append(sess, m)
  /\ IF sessArr.id # 0 /\ Len(sess) < sessArr.cap
     THEN /\ messages' = IF loopArr.id = sessArr.id
                         THEN Overlay(messages, Len(sess), <<m>>) ELSE messages
          /\ UNCHANGED sessArr
     ELSE /\ sessArr' = Private
          /\ UNCHANGED messages
  /\ clobbered' = IF messages' = messages THEN clobbered ELSE clobbered \cup {run}
  /\ UNCHANGED loopArr

\* A request that takes the place of an unanswered one.
ReplaceRequest(s, m) ==
  IF s # <<>> /\ s[Len(s)].role = m.role
  THEN [s EXCEPT ![Len(s)] = m]
  ELSE Append(s, m)

\* Session.AddMessages of a user message: merged with a user message at the end.
AddRequest(s, m) ==
  IF s # <<>> /\ s[Len(s)].role = m.role
  THEN [s EXCEPT ![Len(s)].text = @ \cup m.text]
  ELSE Append(s, m)

\* s when its messages are changed in place: f has what becomes of each.  (By value:
\* two messages that can change are never equal, as each says what no other says.)
InPlace(s, f) == [i \in DOMAIN s |-> f[s[i]]]

\* The events when the messages of the contexts in them are changed in place.
Sent(f) ==
  [k \in DOMAIN events |->
     IF events[k].type = "compaction"
     THEN [events[k] EXCEPT !.context = InPlace(@, f)]
     ELSE events[k]]

-----------------------------------------------------------------------------
(***************************************************************************)
(* The loop                                                                *)
(***************************************************************************)
Send(ev) ==
  /\ Len(events) < ChanCap
  /\ events' = Append(events, ev)
  /\ UNCHANGED closed

LGoto(pc) == lpc' = pc

\* Service.Chat: load the session, add the request, start loop and consumer.
Begin ==
  /\ lpc = "idle" /\ closed /\ events = <<>>
  /\ run < MaxRuns
  /\ run' = run + 1
  /\ sess' = AddRequest(stored, Request(run + 1))
  /\ messages' = <<SystemMsg>> \o sess'
  /\ loopArr' = Private /\ sessArr' = Private
  /\ left' = MaxTurns /\ mistakes' = 0 /\ cancelled' = FALSE
  /\ reply' = NoReply /\ call' = 1
  /\ closed' = FALSE
  /\ LGoto("top")
  /\ UNCHANGED <<turn, events, stored, broken, clobbered, exits>>

\* Another request, Interrupt, or a client that went away.
Cancel ==
  /\ lpc # "idle" /\ ~cancelled
  /\ cancelled' = TRUE
  /\ UNCHANGED <<lpc, run, left, mistakes, turn, reply, call, broken,
                 chanVars, sliceVars, stored, exits>>

\* excludeUnsupportedModalities: what the model may see of a message.
Shown == [m \in Message |-> IF run \in Seeing THEN m ELSE Unseen(m)]

\* Top of a turn: the turns are used up, the context is done, or the model is asked,
\* which removes the images it does not take from the messages, in place.
TopOfTurn ==
  /\ lpc = "top"
  /\ IF left = 0 \/ cancelled
     THEN LGoto("exit") /\ UNCHANGED <<left, turn, messages, sess, events>>
     ELSE /\ LGoto("complete") /\ left' = left - 1 /\ turn' = turn + 1
          /\ messages' = InPlace(messages, Shown)
          /\ sess' = InPlace(sess, Shown)
          /\ events' = Sent(Shown)
  /\ UNCHANGED <<run, mistakes, cancelled, reply, call, broken, closed,
                 loopArr, sessArr, clobbered, stored, exits>>

\* The model answers: the tool calls it wants, whether it is done, and whether
\* the conversation is over the threshold by now.
Completes ==
  /\ lpc = "complete"
  /\ \E n \in 0..MaxCalls, done, over \in BOOLEAN :
       /\ reply' = [calls |-> n, done |-> done, over |-> over]
       /\ Send([type |-> "complete", turn |-> turn, calls |-> n])
  /\ call' = 1
  /\ LGoto("append")
  /\ UNCHANGED <<run, left, mistakes, cancelled, turn, broken, sliceVars, stored, exits>>

\* A hook refuses the completion.  The answer and a caution go to the context
\* and not to the session; one mistake too many ends the run.
Mistake ==
  /\ lpc = "complete"
  /\ Send([type |-> "mistake"])
  /\ mistakes' = mistakes + 1
  /\ IF mistakes' > MaxMistakes
     THEN LGoto("exit") /\ UNCHANGED sliceVars
     ELSE LGoto("caution") /\ LoopAppends(<<Text("agent", <<"mistake", turn>>)>>)
  /\ UNCHANGED <<run, left, cancelled, turn, reply, call, broken, stored, exits>>

Caution ==
  /\ lpc = "caution"
  /\ LoopAppends(<<Text("user", <<"caution", turn>>)>>)
  /\ LGoto("top")
  /\ UNCHANGED <<run, left, mistakes, cancelled, turn, reply, call, broken,
                 chanVars, stored, exits>>

\* The model, or a hook, fails; a cancelled request fails too.
CompletionFails ==
  /\ lpc = "complete"
  /\ LGoto("exit")
  /\ UNCHANGED <<run, left, mistakes, cancelled, turn, reply, call, broken,
                 chanVars, sliceVars, stored, exits>>

\* The model stopped at its length limit: compact and try again.
Overflows ==
  /\ lpc = "complete"
  /\ LGoto("overflow")
  /\ UNCHANGED <<run, left, mistakes, cancelled, turn, reply, call, broken,
                 chanVars, sliceVars, stored, exits>>

\* The answer goes to the context without its tool calls.
AppendCallless ==
  /\ lpc = "append"
  /\ LoopAppends(<<Answer(turn, 0)>>)
  /\ LGoto(IF reply.over THEN "compact" ELSE "calls")
  /\ UNCHANGED <<run, left, mistakes, cancelled, turn, reply, call, broken,
                 chanVars, stored, exits>>

AppendAnswer ==
  /\ lpc = "append"
  /\ LoopAppends(<<Answer(turn, reply.calls)>>)
  /\ LGoto(IF reply.over THEN "compact" ELSE "calls")
  /\ UNCHANGED <<run, left, mistakes, cancelled, turn, reply, call, broken,
                 chanVars, stored, exits>>

-----------------------------------------------------------------------------
(***************************************************************************)
(* Compaction                                                              *)
(***************************************************************************)

\* doCompact keeps the system message and the last 30 % of the others.
Rest(context) ==
  LET body == Tail(context)
  IN  SubSeq(body, (7 * Len(body)) \div 10 + 1, Len(body))

Summary(t) == Text("user", <<"summary", t>>)

\* What was cut is replaced by its summary, which is joined to the first message of
\* the rest if that is a user's (roleSafePushback) and put in front of it otherwise.
Compacted(context, t) ==
  LET rest == Rest(context)
  IN  <<context[1]>> \o
        IF rest[1].role = "user"
        THEN [rest EXCEPT ![1].text = @ \cup Summary(t).text]
        ELSE <<Summary(t)>> \o rest

\* It is joined in place.
Joined(context, t) ==
  [m \in Message |->
     IF m = Rest(context)[1] /\ m.role = "user"
     THEN [m EXCEPT !.text = @ \cup Summary(t).text]
     ELSE m]

AfterCompaction == IF lpc = "compact" THEN "calls" ELSE "top"

Compact ==
  /\ lpc \in {"compact", "overflow"}
  /\ messages' = Compacted(messages, turn)
  /\ sess' = InPlace(sess, Joined(messages, turn))
  /\ \E slack \in 0..MaxSlack :
       loopArr' = [id |-> turn, cap |-> Len(messages') + slack]
  /\ Len(events) < ChanCap
  /\ events' = Append(Sent(Joined(messages, turn)),
                      [type |-> "compaction", context |-> messages', arr |-> loopArr'])
  /\ LGoto(AfterCompaction)
  /\ UNCHANGED <<run, left, mistakes, cancelled, turn, reply, call, broken, closed,
                 sessArr, clobbered, stored, exits>>

\* An overflow that is retried at once when it could not be compacted.
CompactionRetries ==
  /\ lpc \in {"compact", "overflow"}
  /\ broken' = TRUE
  /\ LGoto(IF lpc = "overflow" THEN "complete" ELSE "exit")
  /\ UNCHANGED <<run, left, mistakes, cancelled, turn, reply, call,
                 chanVars, sliceVars, stored, exits>>

\* The model does not deliver the summary: the run ends, and the tool calls of
\* the completion at hand are never made.  (The code drops its context here, which
\* nothing reads any more.)
CompactionFails ==
  /\ lpc \in {"compact", "overflow"}
  /\ broken' = TRUE
  /\ LGoto("exit")
  /\ UNCHANGED <<run, left, mistakes, cancelled, turn, reply, call,
                 chanVars, sliceVars, stored, exits>>

-----------------------------------------------------------------------------
(***************************************************************************)
(* Tool calls                                                              *)
(***************************************************************************)

\* The result of the call at hand is an event.
Answered ==
  /\ Send([type |-> "toolResult", turn |-> turn, call |-> call])
  /\ call' = call + 1
  /\ LGoto("calls")
  /\ UNCHANGED <<run, left, mistakes, cancelled, turn, reply, broken,
                 sliceVars, stored, exits>>

\* A failed call that is reported and gets no result.
FailsUnanswered ==
  /\ lpc = "calls" /\ call <= reply.calls
  /\ Send([type |-> "toolErr"])
  /\ call' = call + 1
  /\ UNCHANGED <<lpc, run, left, mistakes, cancelled, turn, reply, broken,
                 sliceVars, stored, exits>>

CallSucceeds == lpc = "calls" /\ call <= reply.calls /\ Answered

\* The tool is unknown, a hook refuses, the tool fails, panics, runs out of time
\* or finds the context cancelled: the error is reported, then the call answered.
CallFails ==
  /\ lpc = "calls" /\ call <= reply.calls
  /\ Send([type |-> "toolErr"])
  /\ LGoto("answer")
  /\ UNCHANGED <<run, left, mistakes, cancelled, turn, reply, call, broken,
                 sliceVars, stored, exits>>

AnswerFailed == lpc = "answer" /\ Answered

\* The tool does not heed its context and never returns: a move of a path onto itself,
\* or across another one.
CallHangs ==
  /\ lpc = "calls" /\ call <= reply.calls
  /\ LGoto("hung")
  /\ UNCHANGED <<run, left, mistakes, cancelled, turn, reply, call, broken,
                 chanVars, sliceVars, stored, exits>>

\* All calls are made: their results go to the context.
CallsDone ==
  /\ lpc = "calls" /\ call > reply.calls
  /\ IF reply.calls = 0
     THEN UNCHANGED sliceVars
     ELSE LoopAppends([n \in 1..reply.calls |-> ToolResult(turn, n)])
  /\ LGoto(IF reply.done THEN "exit" ELSE "top")
  /\ UNCHANGED <<run, left, mistakes, cancelled, turn, reply, call, broken,
                 chanVars, stored, exits>>

\* LoopExitEvent, and close(evCh).
Exit ==
  /\ lpc = "exit"
  /\ Len(events) < ChanCap
  /\ events' = Append(events, [type |-> "exit"])
  /\ closed' = TRUE
  /\ LGoto("idle")
  /\ UNCHANGED <<run, left, mistakes, cancelled, turn, reply, call, broken,
                 sliceVars, stored, exits>>

-----------------------------------------------------------------------------
(***************************************************************************)
(* The consumer.  Its receivers always drain the sink it forwards to.      *)
(***************************************************************************)
Receive(type) ==
  /\ events # <<>>
  /\ Head(events).type = type
  /\ events' = Tail(events)
  /\ UNCHANGED <<loopVars, closed>>

\* sess.ApplyCompletion
OnComplete ==
  /\ Receive("complete")
  /\ SessionAppends(Answer(Head(events).turn, Head(events).calls))
  /\ UNCHANGED <<stored, exits>>

\* sess.AddMessages: results are never merged.
OnToolResult ==
  /\ Receive("toolResult")
  /\ SessionAppends(ToolResult(Head(events).turn, Head(events).call))
  /\ UNCHANGED <<stored, exits>>

\* A consumer that forwards a compaction and does not apply it.
IgnoreCompaction ==
  /\ Receive("compaction")
  /\ UNCHANGED <<sliceVars, stored, exits>>

\* sess.OverwriteMessages
OnCompaction ==
  /\ Receive("compaction")
  /\ sess' = Head(events).context
  /\ sessArr' = Head(events).arr
  /\ UNCHANGED <<messages, loopArr, clobbered, stored, exits>>

\* Mistakes and tool errors are logged.
OnLogged ==
  /\ Receive("mistake") \/ Receive("toolErr")
  /\ UNCHANGED <<sliceVars, stored, exits>>

\* sessionRepo.Save, or its failure, which is logged.
OnExit ==
  /\ Receive("exit")
  /\ stored' = sess
  /\ exits' = exits + 1
  /\ UNCHANGED sliceVars

OnExitSaveFails ==
  /\ Receive("exit")
  /\ exits' = exits + 1
  /\ UNCHANGED <<sliceVars, stored>>

-----------------------------------------------------------------------------
\* The model is asked and has not answered yet.
AsksModel == lpc \in {"complete", "compact", "overflow"}

LoopStep ==
  \/ TopOfTurn \/ Completes \/ Mistake \/ Caution \/ CompletionFails \/ Overflows
  \/ AppendAnswer \/ Compact \/ CompactionFails
  \/ CallSucceeds \/ CallFails \/ AnswerFailed \/ CallHangs \/ CallsDone \/ Exit

Consume ==
  \/ OnComplete \/ OnToolResult \/ OnCompaction \/ OnLogged
  \/ OnExit \/ OnExitSaveFails

Next == Begin \/ Cancel \/ LoopStep \/ Consume

\* Both goroutines are scheduled fairly, and a tool call that heeds its context has a
\* deadline; a model is only sure to return once the context is cancelled.
Fairness ==
  /\ WF_vars((AsksModel => cancelled) /\ LoopStep)
  /\ WF_vars(Consume)

Spec == Init /\ [][Next]_vars

FairSpec == Spec /\ Fairness

-----------------------------------------------------------------------------
(***************************************************************************)
(* Properties                                                              *)
(***************************************************************************)
Elements(s) == {s[i] : i \in DOMAIN s}

TextsOf(s) == UNION {m.text : m \in Elements(s)}

Drained == lpc = "idle" /\ events = <<>>

\* What a conversation consists of besides instructions and refused answers.
IsSpoken(m) == m.text = {} \/ \E x \in m.text : x[1] \notin {"system", "mistake", "caution"}

Spoken(s) ==
  LET said[i \in 0..Len(s)] ==
        IF i = 0 THEN <<>>
        ELSE IF IsSpoken(s[i]) THEN Append(said[i - 1], s[i]) ELSE said[i - 1]
  IN  said[Len(s)]

HasSummary(s) == \E x \in TextsOf(s) : x[1] = "summary"

\* The session rebuilt from the events is the conversation the model was led
\* through, message by message, after any mix of tool errors, cancellations, refused
\* answers and compactions.  (An answer that is refused after a compaction moves the
\* loop's positions in the shared array ahead of the session's; if the session then
\* writes over them, all bets are off.)
SessionMirrorsContext ==
  Drained /\ run > 0 /\ run \notin clobbered => Spoken(sess) = Spoken(messages)

\* The loop and the session share their messages, and after a compaction they append
\* to one array.  Still, no step of the loop takes anything from the session: it removes
\* an image its model does not take, it joins a summary to a user's message when it
\* sends the compacted context, and where it writes to the shared array the session is
\* either not that long or has what is written.  (The session is elsewhere in the array
\* once it wrote over the loop's context; then the loop writes over its results.)
LoopLeavesSessionAlone ==
  [][LoopStep /\ run \notin clobbered =>
       /\ Len(sess') = Len(sess)
       /\ \A i \in DOMAIN sess :
            \/ sess'[i] = sess[i]
            \/ run \notin Seeing /\ sess'[i] = Unseen(sess[i])
            \/ /\ sess[i].role = "user" /\ Compact
               /\ sess'[i] = [sess[i] EXCEPT !.text = @ \cup Summary(turn).text]]_vars

\* A saved session answers each of its tool calls once, behind the call, whatever
\* became of the call: failed, timed out or cut short by an interrupt.  Only a
\* failed compaction leaves calls unanswered, and only a context that was written
\* over answers them twice.
StoredCallsAnswered ==
  ~broken /\ clobbered = {} =>
    \A i \in DOMAIN stored : stored[i].role = "agent" =>
      \A c \in stored[i].calls :
        \E j \in DOMAIN stored :
          /\ i < j /\ stored[j].role = "tool" /\ c \in stored[j].calls
          /\ \A k \in DOMAIN stored :
               stored[k].role = "tool" /\ c \in stored[k].calls => k = j

\* What a session file says is only ever dropped from it in exchange for a new summary,
\* also when a run is interrupted before the model said anything.  The exception is an
\* image: a run with a model that takes none leaves a note in the place of every image
\* of the session, those of earlier runs included, and saves that.
HistoryIsKeptOrSummarised ==
  [][\/ \A x \in TextsOf(stored) \ TextsOf(stored') :
          x[1] = "image" /\ run \notin Seeing /\ <<"unseen", x[2]>> \in TextsOf(stored')
     \/ \E x \in TextsOf(stored') \ TextsOf(stored) : x[1] = "summary"]_vars

\* A cancelled run ends and its session is saved even if the model never answers;
\* with a model that answers, every run ends within its turns.  Only a tool that does
\* not heed its context keeps a run for good.
RunsEnd ==
  LET Over == exits = run \/ lpc = "hung"
  IN  /\ cancelled ~> Over
      /\ []<>(~AsksModel) => []<>Over
=============================================================================
