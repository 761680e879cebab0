---------------------------- MODULE AgentLoopProofs ----------------------------
(***************************************************************************)
(* What is proved about AgentLoop, for any number of runs, turns, mistakes *)
(* and calls and any capacities: the session mirrors the loop's context, a *)
(* saved session answers its calls, it loses nothing without a summary,    *)
(* and it is not written to by the loop.                                   *)
(*                                                                         *)
(* The session, the events in the channel and the loop's next steps are    *)
(* one conversation.  Where it starts is the session or, if there is one   *)
(* in the channel, the latest compaction: Base(j), with the events behind  *)
(* j to be applied to it.                                                  *)
(***************************************************************************)
EXTENDS AgentLoop, SequenceTheorems, WellFoundedInduction, TLAPS

-----------------------------------------------------------------------------
(***************************************************************************)
(* The inductive invariant                                                 *)
(***************************************************************************)
InTurn == {"complete", "caution", "append", "compact", "overflow", "calls", "answer", "hung"}
Calling == {"append", "compact", "calls", "answer", "hung"}

\* Counters, and what every sequence starts with.
Counters ==
  /\ turn + left <= run * MaxTurns
  /\ lpc \in InTurn => turn >= 1
  /\ lpc \notin {"idle", "exit"} => mistakes <= MaxMistakes
  /\ lpc \in {"append", "compact"} => call = 1
  /\ lpc \in Calling => call <= reply.calls + 1
  /\ lpc = "answer" => call <= reply.calls
  /\ lpc # "idle" => run >= 1
  /\ run >= 1 => Len(sess) >= 1 /\ Len(messages) >= 2
  /\ clobbered \subseteq 1..run

\* The exit is the last event of a run.
ExitComesLast ==
  /\ exits + (IF Drained THEN 0 ELSE 1) = run
  /\ closed <=> lpc = "idle"
  /\ lpc = "idle" /\ events # <<>> => events[Len(events)].type = "exit"
  /\ \A k \in DOMAIN events : events[k].type = "exit" => k = Len(events) /\ lpc = "idle"

\* The latest compaction in the channel, or 0.
Compaction(k) == k \in DOMAIN events /\ events[k].type = "compaction"
Latest(j) == /\ j = 0 \/ Compaction(j)
             /\ \A k \in DOMAIN events : j < k => events[k].type # "compaction"
Base(j) == IF j = 0 THEN sess ELSE events[j].context

\* A compaction keeps the system message in front, and says that it was one: the summary
\* follows, and the session file does not have it yet.
Summarised(s) ==
  /\ Len(s) >= 2
  /\ \E x \in s[2].text : x[1] = "summary" /\ x \notin TextsOf(stored)

\* A slice says what another one says, but for images that the model does not take.
KeptIn(s, r) ==
  \A x \in TextsOf(s) :
    x \in TextsOf(r) \/ (x[1] = "image" /\ run \notin Seeing /\ <<"unseen", x[2]>> \in TextsOf(r))

SummariesAreNew ==
  /\ \A x \in TextsOf(stored) : x[1] = "summary" =>
       x[2] <= turn /\ (lpc \in InTurn => x[2] < turn)
  /\ \A k \in DOMAIN events : Compaction(k) => Summarised(events[k].context)
  /\ sessArr.id # 0 /\ ~Drained => Summarised(sess)
  /\ KeptIn(stored, sess) \/ Summarised(sess)

\* Each compaction makes an array of its own, and the loop is in the latest if in any.
\* Its context has only grown since.
ArraysAreOrdered ==
  /\ sessArr.id <= turn /\ loopArr.id <= turn
  /\ lpc \in {"complete", "append", "compact", "overflow"} =>
       sessArr.id < turn /\ loopArr.id < turn
  /\ \A k \in DOMAIN events : Compaction(k) =>
       /\ sessArr.id < events[k].arr.id /\ events[k].arr.id <= turn
       /\ lpc \in {"complete", "append", "compact", "overflow"} => events[k].arr.id < turn
       /\ \A i \in DOMAIN events : i < k /\ Compaction(i) => events[i].arr.id < events[k].arr.id
       /\ loopArr.id # 0 => events[k].arr.id <= loopArr.id
       /\ Latest(k) => Len(events[k].context) <= Len(messages)

\* Calls and summaries are of turns begun so far, and only what is not older than the
\* completion at hand mentions its turn.
Known(m, t) ==
  /\ \A c \in m.calls : c[1] <= t
  /\ \A x \in m.text : x[1] = "summary" => x[2] <= t

Mentions(s, t) == \A i \in DOMAIN s : Known(s[i], t)

Asked    == IF lpc = "complete" THEN turn - 1 ELSE turn
Appended == IF lpc \in {"complete", "append"} THEN turn - 1 ELSE turn

NothingFromTheFuture ==
  /\ Mentions(sess, Asked) /\ Mentions(stored, Asked) /\ Mentions(messages, Asked)
  /\ clobbered = {} => Mentions(messages, Appended)
  /\ \A k \in DOMAIN events :
       /\ Compaction(k) => Mentions(events[k].context, Asked)
       /\ events[k].type \in {"complete", "toolResult"} => events[k].turn <= Asked

\* The session may be ahead of the loop by what the loop is about to append.
Upcoming(d, m) ==
  \/ lpc = "append" /\ d = 1 /\ m = Answer(turn, reply.calls)
  \/ lpc \in {"calls", "answer", "hung"} /\ d \in 1..call - 1 /\ m = ToolResult(turn, d)

Said(e) == IF e.type = "complete" THEN Answer(e.turn, e.calls) ELSE ToolResult(e.turn, e.call)
Appends(e) == e.type \in {"complete", "toolResult"}

\* The place p of the array: what it says, or what the loop is about to write to it.
Place(p, m) ==
  IF p <= Len(messages) THEN p >= 1 /\ messages[p] = m ELSE Upcoming(p - Len(messages), m)

\* Behind place p the loop has a refused answer, which the session never gets.
Aside(m) == \E x \in m.text : x[1] \in {"mistake", "caution"}
Gap(p) == p + 1 <= Len(messages) /\ Aside(messages[p + 1])

Ahead == Len(messages) + CASE lpc = "append" -> 1
                           [] lpc \in {"calls", "answer", "hung"} -> call - 1
                           [] OTHER -> 0

\* From place p the session gets to place q with event e: to the next one if it appends
\* it, or behind a refused answer.
Reaches(p, q, e) ==
  IF Appends(e)
  THEN /\ q = p + 1 \/ (q > p /\ Gap(p))
       /\ Place(q, Said(e))
  ELSE q = p

InStep(j) ==
  \E at \in [j..Len(events) -> Nat] :
    /\ at[j] = Len(Base(j))
    /\ \A i \in j + 1..Len(events) : Reaches(at[i - 1], at[i], events[i])
    /\ at[Len(events)] = Ahead \/ Gap(at[Len(events)])

\* While loop and session are in one array, neither writes what the other did not.
SharedArrayAgrees ==
  run \notin clobbered /\ loopArr.id # 0 =>
    /\ \A j \in 0..Len(events) :
         Latest(j) /\ (j = 0 => sessArr.id = loopArr.id) => InStep(j)
    /\ sessArr.id = loopArr.id =>
         \A i \in DOMAIN sess : i > Len(messages) => Upcoming(i - Len(messages), sess[i])

\* The loop's context answers its calls, but for those in hand.
ResultAt(s, c, k) == k \in DOMAIN s /\ s[k].role = "tool" /\ c \in s[k].calls
AnsweredOnce(s, i, c) ==
  \E k \in DOMAIN s : /\ i < k /\ ResultAt(s, c, k)
                      /\ \A l \in DOMAIN s : ResultAt(s, c, l) => k = l
Unanswered(s, c) == \A k \in DOMAIN s : ~ResultAt(s, c, k)

AnsweredBut(s, open) ==
  \A i \in DOMAIN s : s[i].role = "agent" =>
    \A c \in s[i].calls : IF c \in open THEN Unanswered(s, c) ELSE AnsweredOnce(s, i, c)

InHand == IF lpc \in Calling THEN {turn} \X (1..reply.calls) ELSE {}
Pending == IF lpc \in Calling THEN {turn} \X (call..reply.calls) ELSE {}

ContextAnswered ==
  run >= 1 /\ ~broken /\ clobbered = {} =>
    messages[1].role = "system" /\ AnsweredBut(messages, InHand)

\* So does the session with the events to come, but for the calls that are pending.
ResultEvent(c, k) ==
  k \in DOMAIN events /\ events[k].type = "toolResult" /\ <<events[k].turn, events[k].call>> = c
ToCome(c, i) ==
  \E k \in DOMAIN events : /\ i < k /\ ResultEvent(c, k)
                           /\ \A l \in DOMAIN events : i < l /\ ResultEvent(c, l) => k = l
NotToCome(c, j) == \A k \in DOMAIN events : j < k => ~ResultEvent(c, k)

\* A call of the message i of the session, or of an event.
CallAnswered(s, j, i, c) ==
  \/ AnsweredOnce(s, i, c) /\ NotToCome(c, j) /\ c \notin Pending
  \/ Unanswered(s, c) /\ ToCome(c, j) /\ c \notin Pending
  \/ Unanswered(s, c) /\ NotToCome(c, j) /\ c \in Pending

AnnouncedAnswered(s, j, i, c) ==
  /\ Unanswered(s, c)
  /\ \A k \in DOMAIN events : j < k /\ k < i => ~ResultEvent(c, k)
  /\ \/ ToCome(c, i) /\ c \notin Pending
     \/ NotToCome(c, i) /\ c \in Pending

AnsweredWith(s, j) ==
  /\ \A i \in DOMAIN s : s[i].role = "agent" => \A c \in s[i].calls : CallAnswered(s, j, i, c)
  /\ \A i \in j + 1..Len(events) : events[i].type = "complete" =>
       \A n \in 1..events[i].calls : AnnouncedAnswered(s, j, i, <<events[i].turn, n>>)

SessionAnswered ==
  ~broken /\ clobbered = {} =>
    \A j \in 0..Len(events) : Latest(j) => AnsweredWith(Base(j), j)

AgentInv ==
  /\ TypeOK /\ Counters /\ ExitComesLast /\ NothingFromTheFuture /\ SummariesAreNew
  /\ ArraysAreOrdered /\ SharedArrayAgrees
  /\ ContextAnswered /\ SessionAnswered /\ StoredCallsAnswered

-----------------------------------------------------------------------------
(***************************************************************************)
(* Messages and slices                                                     *)
(***************************************************************************)

\* The bounds are numbers.
LEMMA Bounds ==
  /\ MaxRuns \in Nat /\ MaxTurns \in Nat /\ MaxMistakes \in Nat /\ MaxCalls \in Nat
  /\ ChanCap \in Nat /\ MaxSlack \in Nat /\ MaxTurn \in Nat
BY BoundsAssumption DEF MaxTurn

\* A run adds at most MaxTurns turns to those of the runs before it.
LEMMA TurnsOfRuns ==
  ASSUME NEW r \in 0..MaxRuns
  PROVE  /\ r * MaxTurns \in Nat /\ r * MaxTurns <= MaxTurn
         /\ (r + 1) * MaxTurns = r * MaxTurns + MaxTurns
<1>1. r \in Nat /\ MaxRuns - r \in Nat
  BY Bounds
<1>2. MaxTurn = r * MaxTurns + (MaxRuns - r) * MaxTurns
  BY <1>1, Bounds DEF MaxTurn
<1>3. r * MaxTurns \in Nat /\ (MaxRuns - r) * MaxTurns \in Nat
  BY <1>1, Bounds
<1> QED BY <1>1, <1>2, <1>3, Bounds

\* What the loop and the session say are messages.
LEMMA MessagesAreTyped ==
  /\ SystemMsg \in Message
  /\ \A r \in 1..MaxRuns : Request(r) \in Message
  /\ \A t \in 1..MaxTurn : /\ \A n \in 0..MaxCalls : Answer(t, n) \in Message
                           /\ \A n \in 1..MaxCalls : ToolResult(t, n) \in Message
                           /\ Text("agent", <<"mistake", t>>) \in Message
                           /\ Text("user", <<"caution", t>>) \in Message
                           /\ Text("user", <<"summary", t>>) \in Message
<1>1. SystemMsg \in Message
  BY DEF SystemMsg, Text, Message, Texts
<1>2. ASSUME NEW r \in 1..MaxRuns PROVE Request(r) \in Message
  BY DEF Request, Text, Message, Texts
<1>3. ASSUME NEW t \in 1..MaxTurn, NEW n \in 0..MaxCalls PROVE Answer(t, n) \in Message
  <2>1. {t} \X (1..n) \subseteq CallIds
    BY Bounds DEF CallIds
  <2> QED BY <2>1 DEF Answer, Message, Texts
<1>4. ASSUME NEW t \in 1..MaxTurn, NEW n \in 1..MaxCalls PROVE ToolResult(t, n) \in Message
  BY DEF ToolResult, Message, CallIds
<1>5. ASSUME NEW t \in 1..MaxTurn
      PROVE  /\ Text("agent", <<"mistake", t>>) \in Message
             /\ Text("user", <<"caution", t>>) \in Message
             /\ Text("user", <<"summary", t>>) \in Message
  BY DEF Text, Message, Texts
<1> QED BY <1>1, <1>2, <1>3, <1>4, <1>5

\* Writing to the array behind a slice, or into it, leaves its length.
LEMMA OverlayFacts ==
  ASSUME NEW s \in Seq(Message), NEW from \in Nat, NEW ms \in Seq(Message)
  PROVE  /\ Overlay(s, from, ms) \in Seq(Message)
         /\ Len(Overlay(s, from, ms)) = Len(s)
         /\ \A i \in 1..Len(s) : Overlay(s, from, ms)[i] =
              IF from < i /\ i <= from + Len(ms) THEN ms[i - from] ELSE s[i]
<1> DEFINE o == Overlay(s, from, ms)
<1>1. DOMAIN s = 1..Len(s) /\ Len(s) \in Nat
  OBVIOUS
<1>2. \A i \in 1..Len(s) : o[i] = IF from < i /\ i <= from + Len(ms) THEN ms[i - from] ELSE s[i]
  BY <1>1 DEF Overlay
<1>3. \A i \in 1..Len(s) : o[i] \in Message
  BY <1>2
<1>4. o \in [1..Len(s) -> Message]
  BY <1>1, <1>3 DEF Overlay
<1>5. o \in Seq(Message) /\ Len(o) = Len(s)
  BY <1>1, <1>4
<1> QED BY <1>2, <1>5

\* The context after a compaction: the first message, the summary, and the end of the
\* context before, d messages of which are gone.
Shifted(s, r, d) ==
  /\ \A i \in 2..Len(r) :
       \/ r[i].role = "user" /\ r[i].calls = {}
       \/ i + d \in 2..Len(s) /\ r[i].role = s[i + d].role /\ r[i].calls = s[i + d].calls
  /\ \A i \in 2..Len(r), k \in 1..Len(s) : r[i].role = "agent" /\ k > i + d =>
       /\ k - d \in i + 1..Len(r)
       /\ r[k - d].role = s[k].role /\ r[k - d].calls = s[k].calls

Keeps(s, r, t) ==
  /\ r \in Seq(Message) /\ Len(r) >= 2 /\ r[1] = s[1]
  /\ <<"summary", t>> \in r[2].text
  /\ \A i \in 1..Len(r) : \A x \in r[i].text :
       x = <<"summary", t>> \/ \E k \in 1..Len(s) : x \in s[k].text
  /\ \E d \in Int : Shifted(s, r, d)

CutOff(s, cut, rest) == \A i \in 1..Len(rest) : rest[i] = s[cut + 1 + i]

\* The cut is at a message of the user: the summary joins that message.
LEMMA SummaryJoined ==
  ASSUME NEW s \in Seq(Message), NEW t \in 1..MaxTurn, NEW cut \in Nat,
         NEW rest \in Seq(Message), Len(rest) >= 1, Len(s) = 1 + cut + Len(rest),
         CutOff(s, cut, rest)
  PROVE  Keeps(s, <<s[1]>> \o [rest EXCEPT ![1].text = @ \cup {<<"summary", t>>}], t)
<1> DEFINE first == [rest[1] EXCEPT !.text = @ \cup {<<"summary", t>>}]
           joined == [rest EXCEPT ![1].text = @ \cup {<<"summary", t>>}]
           r == <<s[1]>> \o joined
<1>1. rest[1] \in Message /\ Len(rest) \in Nat /\ Len(s) \in Nat /\ s[1] \in Message
  OBVIOUS
<1>2. <<"summary", t>> \in Texts
  BY DEF Texts
<1>3. /\ first \in Message /\ first.role = rest[1].role /\ first.calls = rest[1].calls
      /\ first.text = rest[1].text \cup {<<"summary", t>>}
  BY <1>1, <1>2 DEF Message
<1>4. joined = [rest EXCEPT ![1] = first]
  BY <1>1
<1> HIDE DEF first, joined
<1>5. /\ joined \in Seq(Message) /\ Len(joined) = Len(rest)
      /\ \A i \in 1..Len(rest) : joined[i] = IF i = 1 THEN first ELSE rest[i]
  BY <1>1, <1>3, <1>4
<1>6. /\ r \in Seq(Message) /\ Len(r) = 1 + Len(rest) /\ r[1] = s[1]
      /\ \A i \in 2..Len(r) : r[i] = joined[i - 1]
  BY <1>1, <1>5
<1> HIDE DEF r
<1>7. \A i \in 2..Len(r) :
        /\ r[i].role = s[i + cut].role /\ r[i].calls = s[i + cut].calls
        /\ r[i].text \subseteq s[i + cut].text \cup {<<"summary", t>>}
        /\ i + cut \in 2..Len(s)
  <2>1. ASSUME NEW i \in 2..Len(r)
        PROVE  /\ rest[i - 1] = s[i + cut] /\ i + cut \in 2..Len(s)
               /\ r[i] = IF i - 1 = 1 THEN first ELSE rest[i - 1]
    <3>0. i \in 2..1 + Len(rest) /\ Len(rest) \in Nat /\ Len(s) = 1 + cut + Len(rest)
      BY <1>1, <1>6
    <3>1. i - 1 \in 1..Len(rest) /\ cut + 1 + (i - 1) = i + cut /\ i + cut \in 2..Len(s)
      BY <3>0
    <3>2. rest[i - 1] = s[cut + 1 + (i - 1)]
      BY <3>1 DEF CutOff
    <3>3. r[i] = joined[i - 1]
      BY <1>6
    <3> QED BY <1>5, <3>1, <3>2, <3>3
  <2> QED BY <1>3, <2>1
<1>8. \A i \in 1..Len(r) : \A x \in r[i].text :
        x = <<"summary", t>> \/ \E k \in 1..Len(s) : x \in s[k].text
  BY <1>1, <1>6, <1>7
<1>9. <<"summary", t>> \in r[2].text /\ Len(r) >= 2
  BY <1>1, <1>3, <1>5, <1>6
<1>10. \A i \in 2..Len(r), k \in 1..Len(s) : k > i + cut => k - cut \in i + 1..Len(r)
  BY <1>1, <1>6
<1>11. \A i \in 2..Len(r), k \in 1..Len(s) : k > i + cut =>
         r[k - cut].role = s[k].role /\ r[k - cut].calls = s[k].calls
  <2>1. ASSUME NEW i \in 2..Len(r), NEW k \in 1..Len(s), k > i + cut
        PROVE  k - cut \in 2..Len(r) /\ (k - cut) + cut = k
    BY <1>10, <2>1
  <2> QED BY <1>7, <2>1
<1>12. Shifted(s, r, cut)
  BY <1>7, <1>10, <1>11 DEF Shifted
<1>13. \E d \in Int : Shifted(s, r, d)
  BY <1>12
<1>14. Keeps(s, r, t)
  BY <1>6, <1>8, <1>9, <1>13 DEF Keeps
<1> QED BY <1>14 DEF r, joined

\* The cut is at any other message: the summary becomes a message of its own in front.
LEMMA SummaryPushed ==
  ASSUME NEW s \in Seq(Message), NEW t \in 1..MaxTurn, NEW cut \in Nat,
         NEW rest \in Seq(Message), Len(rest) >= 1, Len(s) = 1 + cut + Len(rest),
         CutOff(s, cut, rest)
  PROVE  Keeps(s, <<s[1]>> \o (<<Text("user", <<"summary", t>>)>> \o rest), t)
<1> DEFINE summary == Text("user", <<"summary", t>>)
           r == <<s[1]>> \o (<<summary>> \o rest)
<1>1. rest[1] \in Message /\ Len(rest) \in Nat /\ Len(s) \in Nat /\ s[1] \in Message
  OBVIOUS
<1>2. /\ summary \in Message /\ summary.role = "user" /\ summary.calls = {}
      /\ summary.text = {<<"summary", t>>}
  BY MessagesAreTyped DEF Text
<1> HIDE DEF summary
<1>3. /\ r \in Seq(Message) /\ Len(r) = 2 + Len(rest) /\ r[1] = s[1] /\ r[2] = summary
      /\ \A i \in 3..Len(r) : r[i] = rest[i - 2]
  BY <1>1, <1>2
<1> HIDE DEF r
<1>0. PICK d \in Int : d = cut - 1
  OBVIOUS
<1>a. \A i \in 3..Len(r) :
        i - 2 \in 1..Len(rest) /\ cut + 1 + (i - 2) = i + d /\ i + d \in 2..Len(s)
  <2>1. Len(r) = 2 + Len(rest) /\ Len(s) = 1 + cut + Len(rest) /\ d = cut - 1
    BY <1>0, <1>3
  <2>2. ASSUME NEW i \in 3..Len(r)
        PROVE  i - 2 \in 1..Len(rest) /\ cut + 1 + (i - 2) = i + d /\ i + d \in 2..Len(s)
    BY <1>1, <2>1
  <2> QED BY <2>2
<1>4. \A i \in 3..Len(r) : r[i] = s[i + d] /\ i + d \in 2..Len(s)
  <2>1. ASSUME NEW i \in 3..Len(r) PROVE r[i] = s[cut + 1 + (i - 2)]
    BY <1>3, <1>a DEF CutOff
  <2> QED BY <1>a, <2>1
<1>b. \A i \in 1..Len(r) : i = 1 \/ i = 2 \/ i \in 3..Len(r)
  BY <1>1, <1>3
<1>c. 1 \in 1..Len(s)
  BY <1>1
<1>5. \A i \in 1..Len(r) : \A x \in r[i].text :
        x = <<"summary", t>> \/ \E k \in 1..Len(s) : x \in s[k].text
  <2>1. ASSUME NEW i \in 1..Len(r)
        PROVE  r[i] = summary \/ \E k \in 1..Len(s) : r[i] = s[k]
    <3>1. CASE i = 1
      BY <1>3, <1>c, <3>1
    <3>2. CASE i \in 3..Len(r)
      <4>1. i + d \in 1..Len(s) /\ r[i] = s[i + d]
        BY <1>4, <3>2
      <4> QED BY <4>1
    <3> QED BY <1>3, <1>b, <3>1, <3>2
  <2> QED BY <1>2, <2>1
<1>6. \A i \in 2..Len(r) : (r[i].role = "user" /\ r[i].calls = {}) \/ i \in 3..Len(r)
  BY <1>2, <1>3
<1>7. \A i \in 3..Len(r), k \in 1..Len(s) : k > i + d =>
        k - d \in i + 1..Len(r) /\ k - d \in 3..Len(r) /\ (k - d) + d = k
  BY <1>0, <1>1, <1>3
<1>8. \A i \in 2..Len(r), k \in 1..Len(s) : r[i].role = "agent" /\ k > i + d =>
        k - d \in i + 1..Len(r) /\ r[k - d] = s[k]
  <2>1. SUFFICES ASSUME NEW i \in 2..Len(r), NEW k \in 1..Len(s), r[i].role = "agent", k > i + d
                 PROVE  k - d \in i + 1..Len(r) /\ r[k - d] = s[k]
    OBVIOUS
  <2>2. i \in 3..Len(r)
    BY <1>6, <2>1
  <2>3. k - d \in i + 1..Len(r) /\ k - d \in 3..Len(r) /\ (k - d) + d = k
    BY <1>7, <2>1, <2>2
  <2>4. r[k - d] = s[(k - d) + d]
    BY <1>4, <2>3
  <2> QED BY <2>3, <2>4
<1>9. Shifted(s, r, d)
  <2>1. \A i \in 2..Len(r) :
          \/ r[i].role = "user" /\ r[i].calls = {}
          \/ i + d \in 2..Len(s) /\ r[i].role = s[i + d].role /\ r[i].calls = s[i + d].calls
    BY <1>4, <1>6
  <2>2. \A i \in 2..Len(r), k \in 1..Len(s) : r[i].role = "agent" /\ k > i + d =>
          /\ k - d \in i + 1..Len(r)
          /\ r[k - d].role = s[k].role /\ r[k - d].calls = s[k].calls
    BY <1>8
  <2> QED BY <2>1, <2>2 DEF Shifted
<1>d. \E e \in Int : Shifted(s, r, e)
  BY <1>9
<1>e. <<"summary", t>> \in r[2].text /\ Len(r) >= 2
  BY <1>1, <1>2, <1>3
<1>10. Keeps(s, r, t)
  BY <1>3, <1>5, <1>d, <1>e DEF Keeps
<1> QED BY <1>10 DEF r, summary

\* What summarize makes of a context, wherever its cut is.
LEMMA CompactedFacts ==
  ASSUME NEW s \in Seq(Message), Len(s) >= 2, NEW t \in 1..MaxTurn
  PROVE  Keeps(s, Compacted(s, t), t)
<1> DEFINE body == Tail(s)
           cut == (7 * Len(body)) \div 10
           rest == SubSeq(body, cut + 1, Len(body))
           summary == Text("user", <<"summary", t>>)
           joined == [rest EXCEPT ![1].text = @ \cup summary.text]
           pushed == <<summary>> \o rest
<1>1. body \in Seq(Message) /\ Len(body) = Len(s) - 1 /\ Len(body) >= 1
      /\ \A i \in 1..Len(body) : body[i] = s[i + 1]
  OBVIOUS
<1>2. cut \in Nat /\ cut < Len(body)
  <2> HIDE DEF body
  <2> QED BY <1>1
<1>3. Compacted(s, t) = <<s[1]>> \o (IF rest[1].role = "user" THEN joined ELSE pushed)
  BY DEF Compacted, Rest, Summary
<1>4. summary.text = {<<"summary", t>>}
  BY DEF Text
<1>5. joined = [rest EXCEPT ![1].text = @ \cup {<<"summary", t>>}]
  BY <1>4
<1> HIDE DEF body, cut, joined
<1>5a. \A i \in cut + 1..Len(body) : body[i] \in Message
  BY <1>1, <1>2
<1>5b. Len(body) \in Nat /\ Len(s) \in Nat /\ cut + 1 \in Int
  BY <1>1, <1>2
<1>6. /\ rest \in Seq(Message)
      /\ Len(rest) = IF cut + 1 <= Len(body) THEN Len(body) - (cut + 1) + 1 ELSE 0
      /\ \A i \in 1..Len(body) - (cut + 1) + 1 : rest[i] = body[cut + 1 + i - 1]
  BY <1>5a, <1>5b, SubSeqProperties
<1>6a. rest \in Seq(Message) /\ Len(rest) = Len(body) - cut
  <2>1. Len(rest) = IF cut + 1 <= Len(body) THEN Len(body) - (cut + 1) + 1 ELSE 0
    BY <1>6
  <2> HIDE DEF rest
  <2> QED BY <1>2, <1>5b, <1>6, <2>1
<1>6b. CutOff(s, cut, rest)
  <2> HIDE DEF rest
  <2> SUFFICES ASSUME NEW i \in 1..Len(rest) PROVE rest[i] = s[cut + 1 + i]
    BY DEF CutOff
  <2>1. /\ i \in 1..Len(body) - (cut + 1) + 1 /\ cut + i \in 1..Len(body)
        /\ cut + 1 + i - 1 = cut + i /\ (cut + i) + 1 = cut + 1 + i
    BY <1>2, <1>5b, <1>6a
  <2>2. rest[i] = body[cut + i] /\ body[cut + i] = s[(cut + i) + 1]
    BY <1>1, <1>6, <2>1
  <2> QED BY <2>1, <2>2
<1> HIDE DEF rest
<1>7. rest \in Seq(Message) /\ Len(s) = 1 + cut + Len(rest) /\ Len(rest) >= 1
  <2>1. Len(body) = Len(s) - 1
    BY <1>1
  <2> QED BY <1>2, <1>5b, <1>6a, <2>1
<1>8. Keeps(s, <<s[1]>> \o joined, t)
  BY <1>2, <1>5, <1>6b, <1>7, SummaryJoined
<1>9. Keeps(s, <<s[1]>> \o pushed, t)
  BY <1>2, <1>6b, <1>7, SummaryPushed
<1> QED BY <1>3, <1>8, <1>9

\* What the events say.
LEMMA EventsAreTyped ==
  /\ \A e \in Event : e.type \in {"exit", "mistake", "toolErr", "complete", "toolResult", "compaction"}
  /\ \A e \in Event : e.type = "complete" =>
       e.turn \in 1..MaxTurn /\ e.calls \in 0..MaxCalls /\ Said(e) \in Message
  /\ \A e \in Event : e.type = "toolResult" =>
       e.turn \in 1..MaxTurn /\ e.call \in 1..MaxCalls /\ Said(e) \in Message
  /\ \A e \in Event : e.type = "compaction" =>
       e.context \in Seq(Message) /\ e.arr \in [id : 1..MaxTurn, cap : Nat]
<1>1. \A e \in Event : e.type \in {"exit", "mistake", "toolErr", "complete", "toolResult", "compaction"}
  BY DEF Event
<1>2. \A e \in Event : e.type = "complete" => e.turn \in 1..MaxTurn /\ e.calls \in 0..MaxCalls
  BY DEF Event
<1>3. \A e \in Event : e.type = "toolResult" => e.turn \in 1..MaxTurn /\ e.call \in 1..MaxCalls
  BY DEF Event
<1>4. \A e \in Event : e.type = "compaction" =>
        e.context \in Seq(Message) /\ e.arr \in [id : 1..MaxTurn, cap : Nat]
  BY DEF Event
<1> QED BY <1>1, <1>2, <1>3, <1>4, MessagesAreTyped DEF Said

\* What an append of the loop does to both slices.
LEMMA LoopAppendsFacts ==
  ASSUME TypeOK, NEW ms \in Seq(Message), LoopAppends(ms)
  PROVE  /\ messages' \in Seq(Message) /\ Len(messages') = Len(messages) + Len(ms)
         /\ \A i \in 1..Len(messages) : messages'[i] = messages[i]
         /\ \A i \in 1..Len(ms) : messages'[Len(messages) + i] = ms[i]
         /\ sess' \in Seq(Message) /\ Len(sess') = Len(sess)
         /\ \A i \in 1..Len(sess) :
              \/ sess'[i] = sess[i]
              \/ i > Len(messages) /\ i - Len(messages) \in 1..Len(ms)
                 /\ sess'[i] = ms[i - Len(messages)]
         /\ loopArr' \in [id : 0..MaxTurn, cap : Nat] /\ loopArr' \in {loopArr, Private}
         /\ sessArr' = sessArr /\ clobbered' = clobbered
         /\ sess' = sess \/ (sess' = Overlay(sess, Len(messages), ms)
                             /\ loopArr.id # 0 /\ loopArr.id = sessArr.id)
<1>1. messages \in Seq(Message) /\ sess \in Seq(Message) /\ Len(messages) \in Nat /\ Len(ms) \in Nat
      /\ Len(sess) \in Nat
  <2>1. messages \in Seq(Message) /\ sess \in Seq(Message)
    BY DEF TypeOK
  <2> QED BY <2>1
<1>2. /\ messages' \in Seq(Message) /\ Len(messages') = Len(messages) + Len(ms)
      /\ \A i \in 1..Len(messages) : messages'[i] = messages[i]
      /\ \A i \in 1..Len(ms) : messages'[Len(messages) + i] = ms[i]
  <2>1. messages' = messages \o ms
    BY DEF LoopAppends
  <2> QED BY <1>1, <2>1
<1>3. sess' = sess \/ (sess' = Overlay(sess, Len(messages), ms)
                       /\ loopArr.id # 0 /\ loopArr.id = sessArr.id)
  BY DEF LoopAppends
<1>4. /\ sess' \in Seq(Message) /\ Len(sess') = Len(sess)
      /\ \A i \in 1..Len(sess) :
           \/ sess'[i] = sess[i]
           \/ i > Len(messages) /\ i - Len(messages) \in 1..Len(ms)
              /\ sess'[i] = ms[i - Len(messages)]
  <2>1. CASE sess' = Overlay(sess, Len(messages), ms)
    BY <1>1, <2>1, OverlayFacts
  <2> QED BY <1>1, <1>3, <2>1
<1>5. loopArr' \in [id : 0..MaxTurn, cap : Nat] /\ loopArr' \in {loopArr, Private}
  <2>1. loopArr' \in {loopArr, Private}
    BY DEF LoopAppends
  <2>2. loopArr \in [id : 0..MaxTurn, cap : Nat] /\ Private \in [id : 0..MaxTurn, cap : Nat]
    BY Bounds DEF TypeOK, Private
  <2> QED BY <2>1, <2>2
<1>6. sessArr' = sessArr /\ clobbered' = clobbered
  BY DEF LoopAppends
<1> QED BY <1>2, <1>3, <1>4, <1>5, <1>6

\* What AddMessage does to both slices.
LEMMA SessionAppendsFacts ==
  ASSUME TypeOK, NEW m \in Message, SessionAppends(m)
  PROVE  /\ sess' \in Seq(Message) /\ Len(sess') = Len(sess) + 1
         /\ \A i \in 1..Len(sess) : sess'[i] = sess[i]
         /\ sess'[Len(sess) + 1] = m
         /\ messages' \in Seq(Message) /\ Len(messages') = Len(messages)
         /\ \A i \in 1..Len(messages) :
              messages'[i] = messages[i] \/ (messages'[i] = m /\ i = Len(sess) + 1)
         /\ loopArr' = loopArr
         /\ sessArr' \in [id : 0..MaxTurn, cap : Nat] /\ sessArr' \in {sessArr, Private}
         /\ clobbered \subseteq clobbered' /\ clobbered' \subseteq clobbered \cup {run}
         /\ (run \notin clobbered' \/ clobbered' = {}) => messages' = messages /\ clobbered' = clobbered
         /\ sessArr'.id # 0 /\ loopArr.id = sessArr'.id /\ Len(sess) + 1 <= Len(messages) =>
              messages'[Len(sess) + 1] = m
<1>1. messages \in Seq(Message) /\ sess \in Seq(Message) /\ Len(messages) \in Nat /\ Len(sess) \in Nat
  BY DEF TypeOK
<1>2. /\ sess' \in Seq(Message) /\ Len(sess') = Len(sess) + 1
      /\ \A i \in 1..Len(sess) : sess'[i] = sess[i]
      /\ sess'[Len(sess) + 1] = m
  <2>1. sess' = Append(sess, m)
    BY DEF SessionAppends
  <2> QED BY <1>1, <2>1
<1>3. PICK one \in Seq(Message) : one = <<m>> /\ Len(one) = 1 /\ one[1] = m
  <2>1. <<m>> \in Seq(Message) /\ Len(<<m>>) = 1 /\ <<m>>[1] = m
    OBVIOUS
  <2> QED BY <2>1
<1>4. messages' = messages \/ messages' = Overlay(messages, Len(sess), one)
  BY <1>3 DEF SessionAppends
<1>5. LET o == Overlay(messages, Len(sess), one)
      IN  /\ o \in Seq(Message) /\ Len(o) = Len(messages)
          /\ \A i \in 1..Len(messages) : o[i] = IF i = Len(sess) + 1 THEN m ELSE messages[i]
  <2> DEFINE o == Overlay(messages, Len(sess), one)
  <2>1. /\ o \in Seq(Message) /\ Len(o) = Len(messages)
        /\ \A i \in 1..Len(messages) : o[i] =
             IF Len(sess) < i /\ i <= Len(sess) + Len(one) THEN one[i - Len(sess)] ELSE messages[i]
    <3> HIDE <1>3
    <3> QED BY <1>1, OverlayFacts
  <2>2. \A i \in 1..Len(messages) : o[i] = IF i = Len(sess) + 1 THEN m ELSE messages[i]
    <3>1. ASSUME NEW i \in 1..Len(messages)
          PROVE  /\ (Len(sess) < i /\ i <= Len(sess) + Len(one)) <=> i = Len(sess) + 1
                 /\ i = Len(sess) + 1 => i - Len(sess) = 1
      BY <1>1, <1>3
    <3> QED BY <1>3, <2>1, <3>1
  <2> QED BY <2>1, <2>2 DEF o
<1>6. /\ messages' \in Seq(Message) /\ Len(messages') = Len(messages)
      /\ \A i \in 1..Len(messages) :
           messages'[i] = messages[i] \/ (messages'[i] = m /\ i = Len(sess) + 1)
  BY <1>1, <1>4, <1>5
<1>7. /\ loopArr' = loopArr
      /\ sessArr' \in [id : 0..MaxTurn, cap : Nat] /\ sessArr' \in {sessArr, Private}
  <2>1. loopArr' = loopArr /\ sessArr' \in {sessArr, Private}
    BY DEF SessionAppends
  <2>2. sessArr \in [id : 0..MaxTurn, cap : Nat] /\ Private \in [id : 0..MaxTurn, cap : Nat]
    BY Bounds DEF TypeOK, Private
  <2> QED BY <2>1, <2>2
<1>8. /\ clobbered \subseteq clobbered' /\ clobbered' \subseteq clobbered \cup {run}
      /\ (run \notin clobbered' \/ clobbered' = {}) => messages' = messages /\ clobbered' = clobbered
  BY DEF SessionAppends
<1>9. ASSUME sessArr'.id # 0, loopArr.id = sessArr'.id, Len(sess) + 1 <= Len(messages)
      PROVE  messages'[Len(sess) + 1] = m
  <2>1. messages' = Overlay(messages, Len(sess), one)
    BY <1>3, <1>9 DEF SessionAppends, Private
  <2> QED BY <1>1, <1>5, <1>9, <2>1
<1> QED BY <1>2, <1>6, <1>7, <1>8, <1>9

\* A send on the channel, which waits while the channel is full.
LEMMA SendFacts ==
  ASSUME TypeOK, NEW e \in Event, Send(e)
  PROVE  /\ events' \in Seq(Event) /\ Len(events') = Len(events) + 1 /\ Len(events') <= ChanCap
         /\ \A i \in 1..Len(events) : events'[i] = events[i]
         /\ events'[Len(events) + 1] = e
         /\ closed' = closed
<1>1. events \in Seq(Event) /\ Len(events) \in Nat
  BY DEF TypeOK
<1>2. events' = Append(events, e) /\ Len(events) < ChanCap /\ closed' = closed
  BY DEF Send
<1> QED BY <1>1, <1>2, Bounds

\* A receive takes the first event.
LEMMA ReceiveFacts ==
  ASSUME TypeOK, NEW type, Receive(type)
  PROVE  /\ Len(events) \in Nat /\ Len(events) >= 1 /\ events[1] = Head(events)
         /\ events[1] \in Event /\ events[1].type = type
         /\ events' \in Seq(Event) /\ Len(events') = Len(events) - 1
         /\ \A i \in 1..Len(events) - 1 : events'[i] = events[i + 1]
         /\ UNCHANGED <<loopVars, closed>>
<1>1. events \in Seq(Event) /\ Len(events) \in Nat /\ events # <<>>
  BY DEF TypeOK, Receive
<1>2. events' = Tail(events) /\ Head(events).type = type
  BY DEF Receive
<1>3. Len(events) >= 1 /\ events[1] = Head(events) /\ events[1] \in Event
  BY <1>1
<1>4. events' \in Seq(Event) /\ Len(events') = Len(events) - 1
      /\ \A i \in 1..Len(events) - 1 : events'[i] = events[i + 1]
  BY <1>1, <1>2, HeadTailProperties
<1> QED BY <1>1, <1>2, <1>3, <1>4 DEF Receive

-----------------------------------------------------------------------------
(***************************************************************************)
(* Messages changed in place                                               *)
(***************************************************************************)

\* n is what m has become: it says no less, but for images the model does not take, and
\* no more than the summary at hand.
Told(m, n) ==
  /\ n.role = m.role /\ n.calls = m.calls
  /\ \A x \in m.text : \/ x \in n.text
                       \/ x[1] = "image" /\ run \notin Seeing /\ <<"unseen", x[2]>> \in n.text
  /\ \A x \in n.text : x \in m.text \/ x[1] = "unseen" \/ x = <<"summary", turn>>

Rewording(f) == f \in [Message -> Message] /\ \A m \in Message : Told(m, f[m])

Reworded(s, r) ==
  r \in Seq(Message) /\ Len(r) = Len(s) /\ \A i \in 1..Len(s) : Told(s[i], r[i])

\* What becomes of an event meanwhile.
Passed(e, d) ==
  /\ d \in Event /\ d.type = e.type
  /\ e.type # "compaction" => d = e
  /\ e.type = "compaction" => d.arr = e.arr /\ Reworded(e.context, d.context)

\* A message that is left alone is told, too.
LEMMA LeftAlone ==
  /\ \A m : Told(m, m)
  /\ \A s \in Seq(Message) : Reworded(s, s)
  /\ \A e \in Event : Passed(e, e)
<1>1. \A m : Told(m, m)
  BY DEF Told
<1>2. \A s \in Seq(Message) : Reworded(s, s)
  BY <1>1 DEF Reworded
<1>3. \A e \in Event : Passed(e, e)
  BY <1>2, EventsAreTyped DEF Passed
<1> QED BY <1>1, <1>2, <1>3

\* A note that takes the place of an image.
LEMMA UnseenFacts ==
  ASSUME NEW m \in Message
  PROVE  /\ Unseen(m) \in Message
         /\ Unseen(m).role = m.role /\ Unseen(m).calls = m.calls
         /\ \A x \in m.text : IF x[1] = "image" THEN <<"unseen", x[2]>> \in Unseen(m).text
                                             ELSE x \in Unseen(m).text
         /\ \A y \in Unseen(m).text : y \in m.text \/ y[1] = "unseen"
<1> DEFINE text == {IF x[1] = "image" THEN <<"unseen", x[2]>> ELSE x : x \in m.text}
<1>1. \A x \in m.text : x \in Texts
  BY DEF Message
<1>2. \A x \in Texts : x[1] = "image" => <<"unseen", x[2]>> \in Texts
  BY DEF Texts
<1>3. text \in SUBSET Texts
  BY <1>1, <1>2
<1>4. Unseen(m) = [role |-> m.role, calls |-> m.calls, text |-> text]
  BY DEF Unseen, Message
<1>5. /\ \A x \in m.text : IF x[1] = "image" THEN <<"unseen", x[2]>> \in text ELSE x \in text
      /\ \A y \in text : y \in m.text \/ y[1] = "unseen"
  OBVIOUS
<1> HIDE DEF text
<1> QED BY <1>3, <1>4, <1>5 DEF Message

\* What the model is shown.
LEMMA ShownTells == Rewording(Shown)
<1>1. \A m \in Message : Shown[m] = IF run \in Seeing THEN m ELSE Unseen(m)
  BY DEF Shown
<1>2. ASSUME NEW m \in Message PROVE Shown[m] \in Message /\ Told(m, Shown[m])
  <2>1. CASE run \in Seeing
    BY <1>1, <2>1, LeftAlone
  <2>2. CASE run \notin Seeing
    <3>1. Shown[m] = Unseen(m)
      BY <1>1, <2>2
    <3> QED BY <2>2, <3>1, UnseenFacts DEF Told
  <2> QED BY <2>1, <2>2
<1>3. Shown = [m \in Message |-> Shown[m]]
  BY DEF Shown
<1> QED BY <1>2, <1>3 DEF Rewording

\* A summary that joins a message.
LEMMA JoinedTells ==
  ASSUME NEW s, turn \in 1..MaxTurn
  PROVE  /\ Rewording(Joined(s, turn))
         /\ \A m \in Message :
              \/ Joined(s, turn)[m] = m
              \/ /\ m.role = "user"
                 /\ Joined(s, turn)[m] = [m EXCEPT !.text = @ \cup Summary(turn).text]
<1> DEFINE f == Joined(s, turn)
<1>1. /\ f = [m \in Message |-> f[m]]
      /\ \A m \in Message :
           f[m] = m \/ (m.role = "user" /\ f[m] = [m EXCEPT !.text = @ \cup Summary(turn).text])
  BY DEF Joined
<1>2. Summary(turn).text = {<<"summary", turn>>} /\ <<"summary", turn>> \in Texts
  BY DEF Summary, Text, Texts
<1> HIDE DEF f
<1>3. ASSUME NEW m \in Message PROVE f[m] \in Message /\ Told(m, f[m])
  <2>1. CASE f[m] = m
    BY <2>1, LeftAlone
  <2>2. CASE f[m] = [m EXCEPT !.text = @ \cup Summary(turn).text]
    <3>1. /\ f[m].role = m.role /\ f[m].calls = m.calls
          /\ f[m].text = m.text \cup {<<"summary", turn>>} /\ f[m] \in Message
      BY <1>2, <2>2 DEF Message
    <3> QED BY <3>1 DEF Told
  <2> QED BY <1>1, <2>1, <2>2
<1>4. Rewording(f)
  BY <1>1, <1>3 DEF Rewording
<1> QED BY <1>1, <1>4 DEF f

\* A slice whose messages are changed.
LEMMA InPlaceFacts ==
  ASSUME NEW s \in Seq(Message), NEW f, Rewording(f)
  PROVE  /\ Reworded(s, InPlace(s, f)) /\ Len(InPlace(s, f)) = Len(s)
         /\ \A i \in 1..Len(s) : InPlace(s, f)[i] = f[s[i]]
<1>1. DOMAIN s = 1..Len(s) /\ Len(s) \in Nat /\ \A i \in 1..Len(s) : s[i] \in Message
  OBVIOUS
<1>2. \A i \in 1..Len(s) : InPlace(s, f)[i] = f[s[i]] /\ f[s[i]] \in Message /\ Told(s[i], f[s[i]])
  BY <1>1 DEF InPlace, Rewording
<1>3. InPlace(s, f) \in [1..Len(s) -> Message]
  BY <1>1, <1>2 DEF InPlace
<1>4. InPlace(s, f) \in Seq(Message) /\ Len(InPlace(s, f)) = Len(s)
  BY <1>1, <1>3
<1> QED BY <1>2, <1>4 DEF Reworded

\* The events whose contexts are changed.
LEMMA SentFacts ==
  ASSUME TypeOK, NEW f, Rewording(f)
  PROVE  /\ Sent(f) \in Seq(Event) /\ Len(Sent(f)) = Len(events)
         /\ \A i \in 1..Len(events) :
              /\ Passed(events[i], Sent(f)[i])
              /\ events[i].type = "compaction" => Sent(f)[i].context = InPlace(events[i].context, f)
<1>1. /\ events \in Seq(Event) /\ DOMAIN events = 1..Len(events) /\ Len(events) \in Nat
      /\ \A i \in 1..Len(events) : events[i] \in Event
  <2>1. events \in Seq(Event)
    BY DEF TypeOK
  <2> QED BY <2>1
<1>2. \A i \in 1..Len(events) : Sent(f)[i] =
        IF events[i].type = "compaction"
        THEN [events[i] EXCEPT !.context = InPlace(@, f)] ELSE events[i]
  BY <1>1 DEF Sent
<1>3. ASSUME NEW i \in 1..Len(events)
      PROVE  /\ Passed(events[i], Sent(f)[i])
             /\ events[i].type = "compaction" => Sent(f)[i].context = InPlace(events[i].context, f)
  <2>1. CASE events[i].type # "compaction"
    BY <1>1, <1>2, <2>1, LeftAlone
  <2>2. CASE events[i].type = "compaction"
    <3>1. PICK c \in Seq(Message), a \in [id : 1..MaxTurn, cap : Nat] :
            events[i] = [type |-> "compaction", context |-> c, arr |-> a]
      BY <1>1, <2>2 DEF Event
    <3>2. Sent(f)[i] = [type |-> "compaction", context |-> InPlace(c, f), arr |-> a]
      BY <1>2, <2>2, <3>1
    <3>3. Reworded(c, InPlace(c, f))
      BY InPlaceFacts
    <3>4. Sent(f)[i] \in Event
      BY <3>2, <3>3 DEF Reworded, Event
    <3> QED BY <3>1, <3>2, <3>3, <3>4 DEF Passed
  <2> QED BY <2>1, <2>2
<1>4. Sent(f) \in [1..Len(events) -> Event]
  <2>1. \A i \in 1..Len(events) : Sent(f)[i] \in Event
    BY <1>3 DEF Passed
  <2> QED BY <1>1, <2>1 DEF Sent
<1>5. Sent(f) \in Seq(Event) /\ Len(Sent(f)) = Len(events)
  BY <1>1, <1>4
<1> QED BY <1>3, <1>5

-----------------------------------------------------------------------------
(***************************************************************************)
(* Types and counters                                                      *)
(***************************************************************************)
LoopTypes ==
  /\ lpc \in LoopPCs /\ run \in 0..MaxRuns /\ left \in 0..MaxTurns
  /\ mistakes \in 0..MaxMistakes + 1 /\ cancelled \in BOOLEAN /\ turn \in 0..MaxTurn
  /\ reply \in [calls : 0..MaxCalls, done : BOOLEAN, over : BOOLEAN]
  /\ call \in 1..MaxCalls + 1 /\ broken \in BOOLEAN

ChannelTypes ==
  events \in Seq(Event) /\ Len(events) <= ChanCap /\ closed \in BOOLEAN /\ exits \in 0..MaxRuns

SliceTypes ==
  /\ messages \in Seq(Message) /\ sess \in Seq(Message) /\ stored \in Seq(Message)
  /\ loopArr \in [id : 0..MaxTurn, cap : Nat] /\ sessArr \in [id : 0..MaxTurn, cap : Nat]
  /\ clobbered \subseteq 1..MaxRuns

\* The loop's variables, the channel's and those of the slices.
LEMMA TypesInParts == TypeOK <=> LoopTypes /\ ChannelTypes /\ SliceTypes
BY DEF TypeOK, LoopTypes, ChannelTypes, SliceTypes

\* Nothing has run yet.
LEMMA InitInv == Init => AgentInv
<1> SUFFICES ASSUME Init PROVE AgentInv
  OBVIOUS
<1>1. messages = <<>> /\ events = <<>> /\ sess = <<>> /\ stored = <<>>
      /\ DOMAIN messages = {} /\ DOMAIN events = {} /\ DOMAIN sess = {} /\ DOMAIN stored = {}
      /\ Len(messages) = 0 /\ Len(events) = 0 /\ Len(sess) = 0
  BY DEF Init
<1>2. TypeOK
  <2>1. messages \in Seq(Message) /\ events \in Seq(Event) /\ sess \in Seq(Message)
        /\ stored \in Seq(Message)
    BY <1>1, EmptySeq
  <2>2. reply \in [calls : 0..MaxCalls, done : BOOLEAN, over : BOOLEAN]
        /\ loopArr \in [id : 0..MaxTurn, cap : Nat] /\ sessArr \in [id : 0..MaxTurn, cap : Nat]
    BY Bounds DEF Init, NoReply, Private
  <2>3. LoopTypes
    <3>1. run \in 0..MaxRuns /\ left \in 0..MaxTurns /\ mistakes \in 0..MaxMistakes + 1
          /\ turn \in 0..MaxTurn /\ call \in 1..MaxCalls + 1
      BY Bounds DEF Init
    <3>2. lpc \in LoopPCs /\ cancelled \in BOOLEAN /\ broken \in BOOLEAN
      BY DEF Init, LoopPCs
    <3> QED BY <2>2, <3>1, <3>2 DEF LoopTypes
  <2>4. ChannelTypes
    BY <1>1, <2>1, Bounds DEF Init, ChannelTypes
  <2>5. SliceTypes
    BY <2>1, <2>2 DEF Init, SliceTypes
  <2> QED BY <2>3, <2>4, <2>5, TypesInParts
<1>3. Counters
  BY Bounds DEF Init, Counters, InTurn, Calling
<1>4. ExitComesLast
  BY <1>1 DEF Init, ExitComesLast, Drained
<1>5. NothingFromTheFuture
  BY <1>1 DEF Init, NothingFromTheFuture, Mentions, Compaction
<1>6. SummariesAreNew
  <2>1. TextsOf(stored) = {}
    BY <1>1 DEF TextsOf, Elements
  <2> QED BY <2>1 DEF Init, SummariesAreNew, KeptIn, Private
<1>7. ArraysAreOrdered
  BY <1>1 DEF Init, ArraysAreOrdered, Compaction, Private
<1>8. SharedArrayAgrees
  BY DEF Init, SharedArrayAgrees, Private
<1>9. ContextAnswered
  BY DEF Init, ContextAnswered
<1>10. SessionAnswered
  BY <1>1 DEF Init, SessionAnswered, AnsweredWith, Base
<1>11. StoredCallsAnswered
  BY <1>1 DEF StoredCallsAnswered
<1> QED BY <1>2, <1>3, <1>4, <1>5, <1>6, <1>7, <1>8, <1>9, <1>10, <1>11 DEF AgentInv

\* Where the loop stands: the run and the turn are within their bounds.
LEMMA LoopFacts ==
  ASSUME TypeOK, Counters
  PROVE  /\ lpc # "idle" => run \in 1..MaxRuns
         /\ lpc \in InTurn => turn \in 1..MaxTurn
         /\ left >= 1 => turn + 1 \in 1..MaxTurn /\ turn + 1 + (left - 1) <= run * MaxTurns
         /\ run >= 1 => Len(messages) >= 2 /\ Len(sess) >= 1
         /\ messages \in Seq(Message) /\ Len(messages) \in Nat
         /\ sess \in Seq(Message) /\ Len(sess) \in Nat
         /\ events \in Seq(Event) /\ Len(events) \in Nat
         /\ DOMAIN messages = 1..Len(messages) /\ DOMAIN sess = 1..Len(sess)
         /\ DOMAIN events = 1..Len(events)
<1>1. run \in 0..MaxRuns /\ turn \in 0..MaxTurn /\ left \in 0..MaxTurns
  BY DEF TypeOK
<1>2. run * MaxTurns \in Nat /\ run * MaxTurns <= MaxTurn /\ turn + left <= run * MaxTurns
  BY <1>1, TurnsOfRuns DEF Counters
<1>3. left >= 1 => turn + 1 \in 1..MaxTurn /\ turn + 1 + (left - 1) <= run * MaxTurns
  <2> DEFINE b == run * MaxTurns
  <2> HIDE DEF b
  <2>1. b \in Nat /\ b <= MaxTurn /\ turn + left <= b
    BY <1>2 DEF b
  <2>2. left >= 1 => turn + 1 \in 1..MaxTurn /\ turn + 1 + (left - 1) <= b
    BY <1>1, <2>1, Bounds
  <2> QED BY <2>2 DEF b
<1>4. messages \in Seq(Message) /\ sess \in Seq(Message) /\ events \in Seq(Event)
  BY DEF TypeOK
<1>5. /\ Len(messages) \in Nat /\ Len(sess) \in Nat /\ Len(events) \in Nat
      /\ DOMAIN messages = 1..Len(messages) /\ DOMAIN sess = 1..Len(sess)
      /\ DOMAIN events = 1..Len(events)
  BY <1>4
<1> QED BY <1>1, <1>3, <1>4, <1>5, Bounds DEF Counters

\* An appended run of messages, and the results of a completion.
LEMMA ResultsAreMessages ==
  ASSUME TypeOK, Counters, lpc = "calls"
  PROVE  LET ms == [n \in 1..reply.calls |-> ToolResult(turn, n)]
         IN  /\ ms \in Seq(Message) /\ Len(ms) = reply.calls
             /\ \A n \in 1..reply.calls : ms[n] = ToolResult(turn, n)
<1> DEFINE ms == [n \in 1..reply.calls |-> ToolResult(turn, n)]
<1>1. turn \in 1..MaxTurn /\ reply.calls \in 0..MaxCalls
  BY LoopFacts DEF InTurn, TypeOK
<1>2. \A n \in 1..reply.calls : ToolResult(turn, n) \in Message
  <2>1. \A n \in 1..reply.calls : n \in 1..MaxCalls
    BY <1>1, Bounds
  <2> QED BY <1>1, <2>1, MessagesAreTyped
<1>3. ms \in [1..reply.calls -> Message] /\ reply.calls \in Nat
  BY <1>1, <1>2, Bounds
<1> QED BY <1>3

\* What the consumer appends.
LEMMA SaidFacts ==
  ASSUME TypeOK, events # <<>>, Appends(events[1])
  PROVE  Said(events[1]) \in Message
<1>1. events[1] \in Event
  BY DEF TypeOK
<1> QED BY <1>1, EventsAreTyped DEF Appends

\* The consumer adds to the session the message that the event tells of.
LEMMA ConsumesWhatWasSaid ==
  ASSUME TypeOK, OnComplete \/ OnToolResult
  PROVE  \E type \in {"complete", "toolResult"} :
           Receive(type) /\ SessionAppends(Said(events[1])) /\ UNCHANGED <<stored, exits>>
<1>1. CASE OnComplete
  <2>1. Receive("complete")
    BY <1>1 DEF OnComplete
  <2>2. events[1] = Head(events) /\ events[1].type = "complete"
    BY <2>1, ReceiveFacts
  <2> QED BY <1>1, <2>1, <2>2 DEF OnComplete, Said
<1>2. CASE OnToolResult
  <2>1. Receive("toolResult")
    BY <1>2 DEF OnToolResult
  <2>2. events[1] = Head(events) /\ events[1].type = "toolResult"
    BY <2>1, ReceiveFacts
  <2> QED BY <1>2, <2>1, <2>2 DEF OnToolResult, Said
<1> QED BY <1>1, <1>2

\* A step puts event e in the channel.
Added(e) ==
  /\ events' \in Seq(Event) /\ Len(events') = Len(events) + 1
  /\ \A i \in 1..Len(events) : Passed(events[i], events'[i])
  /\ e.type # "compaction" => \A i \in 1..Len(events) : events'[i] = events[i]
  /\ events'[Len(events) + 1] = e

\* What the channel has then.
LEMMA AddedFacts ==
  ASSUME TypeOK, NEW e \in Event, Added(e)
  PROVE  /\ events' \in Seq(Event) /\ Len(events') = Len(events) + 1
         /\ Len(events) \in Nat /\ DOMAIN events = 1..Len(events)
         /\ DOMAIN events' = 1..Len(events) + 1
         /\ \A i \in 1..Len(events) : events[i] \in Event /\ Passed(events[i], events'[i])
         /\ \A i \in 1..Len(events) : events'[i].type = events[i].type
         /\ e.type # "compaction" => \A i \in 1..Len(events) : events'[i] = events[i]
         /\ events'[Len(events) + 1] = e
<1>1. events \in Seq(Event) /\ Len(events) \in Nat /\ DOMAIN events = 1..Len(events)
      /\ \A i \in 1..Len(events) : events[i] \in Event
  <2>1. events \in Seq(Event)
    BY DEF TypeOK
  <2> QED BY <2>1
<1>2. /\ events' \in Seq(Event) /\ Len(events') = Len(events) + 1
      /\ events'[Len(events) + 1] = e
  BY DEF Added
<1>3. DOMAIN events' = 1..Len(events) + 1
  BY <1>1, <1>2
<1>4. /\ \A i \in 1..Len(events) : Passed(events[i], events'[i])
      /\ e.type # "compaction" => \A i \in 1..Len(events) : events'[i] = events[i]
  BY DEF Added
<1>5. \A i \in 1..Len(events) : events'[i].type = events[i].type
  BY <1>4 DEF Passed
<1> QED BY <1>1, <1>2, <1>3, <1>4, <1>5

\* A turn in which the model is asked.
Asks == TopOfTurn /\ lpc' = "complete"

\* What the model may not see is changed wherever it is.
LEMMA AskFacts ==
  ASSUME TypeOK, Asks
  PROVE  /\ Reworded(messages, messages') /\ Reworded(sess, sess')
         /\ messages' = InPlace(messages, Shown) /\ sess' = InPlace(sess, Shown)
         /\ events' = Sent(Shown)
         /\ events' \in Seq(Event) /\ Len(events') = Len(events)
         /\ \A i \in 1..Len(events) : Passed(events[i], events'[i])
         /\ lpc = "top" /\ turn' = turn + 1
         /\ UNCHANGED <<loopArr, sessArr, clobbered, stored, exits, closed, run, mistakes, reply,
                        call, broken>>
<1>1. messages \in Seq(Message) /\ sess \in Seq(Message)
  BY DEF TypeOK
<1>2. /\ messages' = InPlace(messages, Shown) /\ sess' = InPlace(sess, Shown)
      /\ events' = Sent(Shown) /\ lpc = "top" /\ turn' = turn + 1
      /\ UNCHANGED <<loopArr, sessArr, clobbered, stored, exits, closed, run, mistakes, reply,
                     call, broken>>
  BY DEF Asks, TopOfTurn, LGoto
<1>3. Reworded(messages, messages') /\ Reworded(sess, sess')
  BY <1>1, <1>2, ShownTells, InPlaceFacts
<1>4. /\ events' \in Seq(Event) /\ Len(events') = Len(events)
      /\ \A i \in 1..Len(events) : Passed(events[i], events'[i])
  BY <1>2, ShownTells, SentFacts
<1> QED BY <1>2, <1>3, <1>4

\* A compaction takes the loop to a new array, and tells the session.
LEMMA CompactFacts ==
  ASSUME TypeOK, Counters, Compact
  PROVE  /\ turn \in 1..MaxTurn /\ Keeps(messages, messages', turn)
         /\ messages' \in Seq(Message) /\ Len(messages') \in Nat /\ Len(messages') >= 2
         /\ Reworded(sess, sess')
         /\ loopArr' \in [id : 1..MaxTurn, cap : Nat] /\ loopArr'.id = turn
         /\ loopArr'.cap >= Len(messages')
         /\ [type |-> "compaction", context |-> messages', arr |-> loopArr'] \in Event
         /\ Added([type |-> "compaction", context |-> messages', arr |-> loopArr'])
         /\ Len(events') <= ChanCap
         /\ lpc' = AfterCompaction
         /\ UNCHANGED <<sessArr, clobbered, stored, exits, turn, run, reply, call, broken, closed>>
<1>1. lpc \in InTurn
  BY DEF Compact, InTurn
<1>2. turn \in 1..MaxTurn /\ Len(messages) >= 2 /\ messages \in Seq(Message)
  BY <1>1, LoopFacts, Bounds DEF InTurn
<1>3. Keeps(messages, messages', turn)
  BY <1>2, CompactedFacts DEF Compact
<1>4. messages' \in Seq(Message) /\ Len(messages') >= 2 /\ Len(messages') \in Nat
  BY <1>3 DEF Keeps
<1>5. PICK slack \in 0..MaxSlack : loopArr' = [id |-> turn, cap |-> Len(messages') + slack]
  BY DEF Compact
<1>6. loopArr' \in [id : 1..MaxTurn, cap : Nat] /\ loopArr'.id = turn
      /\ loopArr'.cap >= Len(messages')
  BY <1>2, <1>4, <1>5, Bounds
<1> DEFINE e == [type |-> "compaction", context |-> messages', arr |-> loopArr']
<1>7. e \in Event
  BY <1>4, <1>6 DEF Event
<1>8. PICK f : f = Joined(messages, turn) /\ Rewording(f)
  BY <1>2, JoinedTells
<1>9. Reworded(sess, sess')
  BY <1>8, InPlaceFacts, LoopFacts DEF Compact
<1>10. Added(e) /\ Len(events') <= ChanCap
  <2>1. /\ Sent(f) \in Seq(Event) /\ Len(Sent(f)) = Len(events) /\ Len(events) \in Nat
        /\ \A i \in 1..Len(events) : Passed(events[i], Sent(f)[i])
    BY <1>8, SentFacts, LoopFacts
  <2>2. events' = Append(Sent(f), e) /\ Len(events) < ChanCap /\ e.type = "compaction"
    BY <1>8 DEF Compact
  <2> HIDE DEF e
  <2>3. /\ events' \in Seq(Event) /\ Len(events') = Len(events) + 1
        /\ \A i \in 1..Len(events) : events'[i] = Sent(f)[i]
        /\ events'[Len(events) + 1] = e
    BY <1>7, <2>1, <2>2
  <2> QED BY <2>1, <2>2, <2>3, Bounds DEF Added
<1>11. /\ lpc' = AfterCompaction
       /\ UNCHANGED <<sessArr, clobbered, stored, exits, turn, run, reply, call, broken, closed>>
  BY DEF Compact, LGoto
<1> QED BY <1>2, <1>3, <1>4, <1>6, <1>7, <1>9, <1>10, <1>11

\* Types are kept.
LEMMA TypeStep == TypeOK /\ Counters /\ ExitComesLast /\ Next => TypeOK'
<1> SUFFICES ASSUME TypeOK, Counters, ExitComesLast, Next PROVE TypeOK'
  OBVIOUS
<1>0. LoopTypes /\ ChannelTypes /\ SliceTypes
  BY TypesInParts
<1>a. exits + 1 <= run \/ Drained
  BY <1>0 DEF ExitComesLast, LoopTypes, ChannelTypes
<1>b. UNCHANGED loopVars => LoopTypes'
  BY <1>0 DEF loopVars, LoopTypes
<1>c. UNCHANGED <<chanVars, exits>> => ChannelTypes'
  BY <1>0 DEF chanVars, ChannelTypes
<1>d. UNCHANGED <<sliceVars, stored>> => SliceTypes'
  BY <1>0 DEF sliceVars, SliceTypes
<1>h. LoopTypes' /\ ChannelTypes' /\ SliceTypes' => TypeOK'
  BY DEF LoopTypes, ChannelTypes, SliceTypes, TypeOK
<1>e. ASSUME NEW ms \in Seq(Message), LoopAppends(ms), stored' = stored PROVE SliceTypes'
  <2>1. /\ messages' \in Seq(Message) /\ sess' \in Seq(Message)
        /\ loopArr' \in [id : 0..MaxTurn, cap : Nat] /\ sessArr' = sessArr /\ clobbered' = clobbered
    BY <1>e, LoopAppendsFacts
  <2> QED BY <1>0, <1>e, <2>1 DEF SliceTypes
<1>f. ASSUME NEW e \in Event, Send(e), exits' = exits PROVE ChannelTypes'
  BY <1>0, <1>f, SendFacts DEF ChannelTypes
<1>g. ASSUME NEW type, Receive(type)
      PROVE  /\ LoopTypes' /\ (exits' = exits => ChannelTypes')
             /\ events' \in Seq(Event) /\ Len(events') <= ChanCap /\ closed' \in BOOLEAN
  <2>1. /\ events' \in Seq(Event) /\ Len(events') = Len(events) - 1 /\ Len(events) \in Nat
        /\ UNCHANGED <<loopVars, closed>>
    BY <1>g, ReceiveFacts
  <2>2. Len(events') <= ChanCap
    BY <1>0, <2>1, Bounds DEF ChannelTypes
  <2> QED BY <1>0, <1>b, <2>1, <2>2 DEF ChannelTypes
<1>1. CASE Begin
  <2>1. run + 1 \in 1..MaxRuns
    BY <1>0, <1>1, Bounds DEF Begin, LoopTypes
  <2>2. Request(run + 1) \in Message /\ SystemMsg \in Message
    BY <2>1, MessagesAreTyped
  <2>3. sess' \in Seq(Message)
    <3>1. stored \in Seq(Message) /\ sess' = AddRequest(stored, Request(run + 1))
      BY <1>0, <1>1 DEF Begin, SliceTypes
    <3>2. CASE stored # <<>> /\ stored[Len(stored)].role = Request(run + 1).role
      <4> DEFINE m == [stored[Len(stored)] EXCEPT !.text = @ \cup Request(run + 1).text]
      <4>1. stored[Len(stored)] \in Message /\ Len(stored) \in 1..Len(stored)
        BY <3>1, <3>2
      <4>2. m \in Message
        BY <2>2, <4>1 DEF Message
      <4>3. sess' = [stored EXCEPT ![Len(stored)] = m]
        BY <3>1, <3>2 DEF AddRequest
      <4> HIDE DEF m
      <4> QED BY <3>1, <4>1, <4>2, <4>3, ExceptSeq
    <3>3. CASE ~(stored # <<>> /\ stored[Len(stored)].role = Request(run + 1).role)
      BY <2>2, <3>1, <3>3 DEF AddRequest
    <3> QED BY <3>2, <3>3
  <2>4. messages' \in Seq(Message)
    BY <1>1, <2>2, <2>3 DEF Begin
  <2>5. NoReply \in [calls : 0..MaxCalls, done : BOOLEAN, over : BOOLEAN]
        /\ Private \in [id : 0..MaxTurn, cap : Nat]
    BY Bounds DEF NoReply, Private
  <2>6. LoopTypes'
    <3>1. run' \in 0..MaxRuns /\ left' \in 0..MaxTurns /\ mistakes' \in 0..MaxMistakes + 1
          /\ turn' \in 0..MaxTurn /\ call' \in 1..MaxCalls + 1
      BY <1>0, <1>1, Bounds DEF Begin, LoopTypes
    <3>2. lpc' \in LoopPCs /\ cancelled' \in BOOLEAN /\ broken' \in BOOLEAN
      BY <1>0, <1>1 DEF Begin, LoopTypes, LoopPCs, LGoto
    <3> QED BY <1>1, <2>5, <3>1, <3>2 DEF Begin, LoopTypes
  <2>7. ChannelTypes'
    BY <1>0, <1>1 DEF Begin, ChannelTypes
  <2>8. SliceTypes'
    BY <1>0, <1>1, <2>4, <2>5 DEF Begin, SliceTypes
  <2> QED BY <2>6, <2>7, <2>8, <1>h
<1>2. CASE Cancel
  <2>1. LoopTypes'
    BY <1>0, <1>2 DEF Cancel, LoopTypes
  <2> QED BY <1>2, <1>c, <1>d, <2>1, <1>h DEF Cancel
<1>3. CASE TopOfTurn
  <2>1. left' \in 0..MaxTurns /\ turn' \in 0..MaxTurn /\ lpc' \in LoopPCs
    <3>1. CASE left >= 1
      <4>1. turn + 1 \in 1..MaxTurn /\ left - 1 \in 0..MaxTurns
        BY <1>0, <3>1, LoopFacts, Bounds DEF LoopTypes
      <4>2. lpc' \in {"exit", "complete"} /\ (turn' = turn \/ turn' = turn + 1)
            /\ (left' = left \/ left' = left - 1)
        BY <1>3 DEF TopOfTurn, LGoto
      <4> QED BY <1>0, <4>1, <4>2, Bounds DEF LoopTypes, LoopPCs
    <3>2. CASE left = 0
      BY <1>0, <1>3, <3>2 DEF TopOfTurn, LoopTypes, LoopPCs, LGoto
    <3> QED BY <1>0, <3>1, <3>2, Bounds DEF LoopTypes
  <2>2. LoopTypes'
    BY <1>0, <1>3, <2>1 DEF TopOfTurn, LoopTypes
  <2>3. CASE lpc' = "exit"
    <3>1. UNCHANGED <<chanVars, exits, sliceVars, stored>>
      BY <1>3, <2>3 DEF TopOfTurn, LGoto, chanVars, sliceVars
    <3> QED BY <1>c, <1>d, <1>h, <2>2, <3>1
  <2>4. CASE Asks
    <3>1. ChannelTypes'
      BY <1>0, <2>4, AskFacts DEF ChannelTypes
    <3>2. SliceTypes'
      BY <1>0, <2>4, AskFacts DEF SliceTypes, Reworded
    <3> QED BY <1>h, <2>2, <3>1, <3>2
  <2> QED BY <1>3, <2>3, <2>4 DEF TopOfTurn, LGoto, Asks
<1>4. CASE Completes
  <2>1. PICK n \in 0..MaxCalls, done \in BOOLEAN, over \in BOOLEAN :
          /\ reply' = [calls |-> n, done |-> done, over |-> over]
          /\ Send([type |-> "complete", turn |-> turn, calls |-> n])
    BY <1>4 DEF Completes
  <2>2. [type |-> "complete", turn |-> turn, calls |-> n] \in Event
    BY <1>4, LoopFacts DEF Completes, InTurn, Event
  <2>3. ChannelTypes'
    BY <1>4, <1>f, <2>1, <2>2 DEF Completes
  <2>5. LoopTypes'
    BY <1>0, <1>4, Bounds DEF Completes, LoopTypes, LoopPCs, LGoto
  <2> QED BY <1>4, <1>d, <2>3, <2>5, <1>h DEF Completes
<1>5. CASE Mistake
  <2>1. [type |-> "mistake"] \in Event
    BY DEF Event
  <2>2. ChannelTypes'
    BY <1>5, <1>f, <2>1 DEF Mistake
  <2>3. mistakes' \in 0..MaxMistakes + 1
    BY <1>0, <1>5, Bounds DEF Mistake, Counters, LoopTypes
  <2>4. LoopTypes'
    BY <1>0, <1>5, <2>3 DEF Mistake, LoopTypes, LoopPCs, LGoto
  <2>5. Text("agent", <<"mistake", turn>>) \in Message
    BY <1>5, LoopFacts, MessagesAreTyped DEF Mistake, InTurn
  <2>6. <<Text("agent", <<"mistake", turn>>)>> \in Seq(Message)
    BY <2>5
  <2>7. SliceTypes'
    BY <1>5, <1>d, <1>e, <2>6 DEF Mistake
  <2> QED BY <2>2, <2>4, <2>7, <1>h
<1>6. CASE Caution
  <2>1. Text("user", <<"caution", turn>>) \in Message
    BY <1>6, LoopFacts, MessagesAreTyped DEF Caution, InTurn
  <2>2. <<Text("user", <<"caution", turn>>)>> \in Seq(Message)
    BY <2>1
  <2>3. SliceTypes'
    BY <1>6, <1>e, <2>2 DEF Caution
  <2>4. LoopTypes'
    BY <1>0, <1>6 DEF Caution, LoopTypes, LoopPCs, LGoto
  <2> QED BY <1>6, <1>c, <2>3, <2>4, <1>h DEF Caution
<1>7. CASE CompletionFails \/ Overflows \/ CompactionFails \/ CallHangs
  <2>1. LoopTypes'
    BY <1>0, <1>7
       DEF CompletionFails, Overflows, CompactionFails, CallHangs, LoopTypes, LoopPCs, LGoto
  <2> QED BY <1>7, <1>c, <1>d, <2>1, <1>h
          DEF CompletionFails, Overflows, CompactionFails, CallHangs
<1>8. CASE AppendAnswer
  <2>1. <<Answer(turn, reply.calls)>> \in Seq(Message)
    <3>1. reply.calls \in 0..MaxCalls
      BY <1>0 DEF LoopTypes
    <3>2. Answer(turn, reply.calls) \in Message
      BY <1>8, <3>1, LoopFacts, MessagesAreTyped DEF AppendAnswer, InTurn
    <3> QED BY <3>2
  <2>2. SliceTypes'
    BY <1>8, <1>e, <2>1 DEF AppendAnswer
  <2>3. LoopTypes'
    BY <1>0, <1>8 DEF AppendAnswer, LoopTypes, LoopPCs, LGoto
  <2> QED BY <1>8, <1>c, <2>2, <2>3, <1>h DEF AppendAnswer
<1>9. CASE Compact
  <2>7. ChannelTypes'
    BY <1>0, <1>9, CompactFacts DEF ChannelTypes, Added
  <2>9. SliceTypes'
    <3>1. sess' \in Seq(Message) /\ messages' \in Seq(Message)
          /\ loopArr' \in [id : 1..MaxTurn, cap : Nat] /\ UNCHANGED <<sessArr, clobbered, stored>>
      BY <1>9, CompactFacts DEF Reworded
    <3>2. loopArr' \in [id : 0..MaxTurn, cap : Nat]
      BY <3>1, Bounds
    <3> QED BY <1>0, <3>1, <3>2 DEF SliceTypes
  <2>10. LoopTypes'
    BY <1>0, <1>9 DEF Compact, LoopTypes, LoopPCs, LGoto, AfterCompaction
  <2> QED BY <2>7, <2>9, <2>10, <1>h
<1>10. CASE (CallSucceeds \/ AnswerFailed) /\ Answered
  <2>1. call <= reply.calls /\ turn \in 1..MaxTurn
    BY <1>10, LoopFacts DEF CallSucceeds, AnswerFailed, Counters, InTurn
  <2>2. call \in 1..MaxCalls /\ call + 1 \in 1..MaxCalls + 1
    BY <1>0, <2>1, Bounds DEF LoopTypes
  <2>3. [type |-> "toolResult", turn |-> turn, call |-> call] \in Event
    BY <2>1, <2>2 DEF Event
  <2>4. ChannelTypes'
    BY <1>10, <1>f, <2>3 DEF Answered
  <2>5. LoopTypes'
    BY <1>0, <1>10, <2>2 DEF Answered, LoopTypes, LoopPCs, LGoto
  <2> QED BY <1>10, <1>d, <2>4, <2>5, <1>h DEF Answered
<1>11. CASE CallFails
  <2>1. [type |-> "toolErr"] \in Event
    BY DEF Event
  <2>2. ChannelTypes'
    BY <1>11, <1>f, <2>1 DEF CallFails
  <2>3. LoopTypes'
    BY <1>0, <1>11 DEF CallFails, LoopTypes, LoopPCs, LGoto
  <2> QED BY <1>11, <1>d, <2>2, <2>3, <1>h DEF CallFails
<1>12. CASE CallsDone
  <2>1. [n \in 1..reply.calls |-> ToolResult(turn, n)] \in Seq(Message)
    BY <1>12, ResultsAreMessages DEF CallsDone
  <2>2. SliceTypes'
    BY <1>12, <1>d, <1>e, <2>1 DEF CallsDone
  <2>3. LoopTypes'
    BY <1>0, <1>12 DEF CallsDone, LoopTypes, LoopPCs, LGoto
  <2> QED BY <1>12, <1>c, <2>2, <2>3, <1>h DEF CallsDone
<1>13. CASE Exit
  <2>1. [type |-> "exit"] \in Event
    BY DEF Event
  <2>2. events' \in Seq(Event) /\ Len(events') <= ChanCap
    BY <1>0, <1>13, <2>1, Bounds DEF Exit, ChannelTypes
  <2>3. ChannelTypes'
    BY <1>0, <1>13, <2>2 DEF Exit, ChannelTypes
  <2>4. LoopTypes'
    BY <1>0, <1>13 DEF Exit, LoopTypes, LoopPCs, LGoto
  <2> QED BY <1>13, <1>d, <2>3, <2>4, <1>h DEF Exit
<1>14. CASE OnComplete \/ OnToolResult
  <2>1. PICK type \in {"complete", "toolResult"} :
          Receive(type) /\ SessionAppends(Said(events[1])) /\ UNCHANGED <<stored, exits>>
    BY <1>14, ConsumesWhatWasSaid
  <2>2. events[1].type = type /\ events # <<>>
    BY <2>1, ReceiveFacts DEF Receive
  <2>3. Said(events[1]) \in Message
    BY <2>2, SaidFacts DEF Appends
  <2>4. /\ messages' \in Seq(Message) /\ sess' \in Seq(Message) /\ loopArr' = loopArr
        /\ sessArr' \in [id : 0..MaxTurn, cap : Nat] /\ clobbered' \subseteq clobbered \cup {run}
    BY <2>1, <2>3, SessionAppendsFacts
  <2>5. run \in 1..MaxRuns
    BY <1>0, <1>a, <2>2 DEF Drained, LoopTypes, ChannelTypes
  <2>6. SliceTypes'
    BY <1>0, <2>1, <2>4, <2>5 DEF SliceTypes
  <2> QED BY <1>g, <2>1, <2>6, <1>h
<1>15. CASE OnCompaction
  <2>1. Receive("compaction")
    BY <1>15 DEF OnCompaction
  <2>2. events[1] = Head(events) /\ events[1] \in Event /\ events[1].type = "compaction"
    BY <2>1, ReceiveFacts
  <2>3. sess' \in Seq(Message) /\ sessArr' \in [id : 1..MaxTurn, cap : Nat]
    BY <1>15, <2>2, EventsAreTyped DEF OnCompaction
  <2>5. SliceTypes'
    BY <1>0, <1>15, <2>3 DEF OnCompaction, SliceTypes
  <2> QED BY <1>15, <1>g, <2>5, <1>h DEF OnCompaction
<1>16. CASE OnLogged
  BY <1>16, <1>d, <1>g, <1>h DEF OnLogged
<1>17. CASE OnExit \/ OnExitSaveFails
  <2>1. /\ events' \in Seq(Event) /\ Len(events') <= ChanCap /\ closed' \in BOOLEAN
        /\ LoopTypes' /\ events # <<>>
    BY <1>17, <1>g DEF OnExit, OnExitSaveFails, Receive
  <2>2. exits + 1 \in 0..MaxRuns
    BY <1>0, <1>a, <2>1, Bounds DEF Drained, ChannelTypes, LoopTypes
  <2>3. ChannelTypes'
    BY <1>17, <2>1, <2>2 DEF OnExit, OnExitSaveFails, ChannelTypes
  <2>4. SliceTypes'
    BY <1>0, <1>17 DEF OnExit, OnExitSaveFails, SliceTypes, sliceVars
  <2> QED BY <2>1, <2>3, <2>4, <1>h
<1> QED BY <1>1, <1>2, <1>3, <1>4, <1>5, <1>6, <1>7, <1>8, <1>9, <1>10, <1>11, <1>12, <1>13,
           <1>14, <1>15, <1>16, <1>17
        DEF Next, LoopStep, Consume, CallSucceeds, AnswerFailed

\* Counters of the loop's own, and the lengths of what is shared.
LoopCounts ==
  /\ turn + left <= run * MaxTurns
  /\ lpc \in InTurn => turn >= 1
  /\ lpc \notin {"idle", "exit"} => mistakes <= MaxMistakes
  /\ lpc \in {"append", "compact"} => call = 1
  /\ lpc \in Calling => call <= reply.calls + 1
  /\ lpc = "answer" => call <= reply.calls
  /\ lpc # "idle" => run >= 1

Lengths ==
  /\ run >= 1 => Len(sess) >= 1 /\ Len(messages) >= 2
  /\ clobbered \subseteq 1..run

\* An event in the channel is of a run that is not over.
LEMMA RunIsOn ==
  ASSUME TypeOK, ExitComesLast, events # <<>>
  PROVE  run \in 1..MaxRuns /\ exits + 1 = run /\ ~Drained
<1>1. run \in 0..MaxRuns /\ exits \in 0..MaxRuns
  BY DEF TypeOK
<1> QED BY <1>1, Bounds DEF ExitComesLast, Drained

\* The loop's counters are kept.
LEMMA LoopCountsStep == TypeOK /\ Counters /\ ExitComesLast /\ Next => LoopCounts'
<1> SUFFICES ASSUME TypeOK, Counters, ExitComesLast, Next PROVE LoopCounts'
  OBVIOUS
<1>0. LoopTypes /\ LoopCounts
  BY TypesInParts DEF Counters, LoopCounts
<1>1. CASE Begin
  <2>1. run \in 0..MaxRuns /\ turn \in 0..MaxTurn /\ left \in 0..MaxTurns
    BY <1>0 DEF LoopTypes
  <2>2. (run + 1) * MaxTurns = run * MaxTurns + MaxTurns /\ run * MaxTurns \in Nat
    BY <2>1, TurnsOfRuns
  <2>3. turn' + left' <= run' * MaxTurns
    <3>1. turn <= run * MaxTurns
      BY <1>0, <2>1, <2>2, Bounds DEF LoopCounts
    <3> QED BY <1>1, <2>1, <3>1, Bounds DEF Begin
  <2>4. lpc' = "top" /\ run' >= 1 /\ mistakes' <= MaxMistakes
    BY <1>1, <2>1, Bounds DEF Begin, LGoto
  <2> QED BY <2>3, <2>4 DEF LoopCounts, InTurn, Calling
<1>2. CASE Cancel
  BY <1>0, <1>2 DEF Cancel, LoopCounts
<1>3. CASE TopOfTurn
  <2>1. turn' + left' <= run' * MaxTurns
    <3>1. CASE left >= 1
      <4>1. turn + 1 + (left - 1) <= run * MaxTurns
        BY <3>1, LoopFacts
      <4> QED BY <1>0, <1>3, <4>1 DEF TopOfTurn, LoopCounts
    <3>2. CASE left = 0
      BY <1>0, <1>3, <3>2 DEF TopOfTurn, LoopCounts
    <3> QED BY <1>0, <3>1, <3>2, Bounds DEF LoopTypes
  <2>2. (lpc' = "complete" /\ turn' >= 1) \/ lpc' = "exit"
    BY <1>0, <1>3 DEF TopOfTurn, LGoto, LoopTypes
  <2> QED BY <1>0, <1>3, <2>1, <2>2 DEF TopOfTurn, LoopCounts, InTurn, Calling
<1>4. CASE Completes
  <2>1. PICK n \in 0..MaxCalls : reply'.calls = n
    BY <1>4 DEF Completes
  <2>2. lpc' = "append" /\ call' = 1 /\ call' <= reply'.calls + 1
    BY <1>4, <2>1, Bounds DEF Completes, LGoto
  <2> QED BY <1>0, <1>4, <2>2 DEF Completes, LoopCounts, InTurn
<1>5. CASE Mistake
  <2>1. lpc' = "exit" \/ (lpc' = "caution" /\ mistakes' <= MaxMistakes)
    <3>1. mistakes' \in Nat
      BY <1>0, <1>5, Bounds DEF Mistake, LoopTypes
    <3> QED BY <1>5, <3>1, Bounds DEF Mistake, LGoto
  <2> QED BY <1>0, <1>5, <2>1 DEF Mistake, LoopCounts, InTurn, Calling
<1>6. CASE Caution
  BY <1>0, <1>6 DEF Caution, LGoto, LoopCounts, InTurn, Calling
<1>7. CASE CompletionFails \/ Overflows \/ CompactionFails \/ CallHangs
  BY <1>0, <1>7
     DEF CompletionFails, Overflows, CompactionFails, CallHangs, LGoto, LoopCounts, InTurn, Calling
<1>8. CASE AppendAnswer
  BY <1>0, <1>8 DEF AppendAnswer, LGoto, LoopCounts, InTurn, Calling
<1>9. CASE Compact
  BY <1>0, <1>9 DEF Compact, LGoto, AfterCompaction, LoopCounts, InTurn, Calling
<1>10. CASE (CallSucceeds \/ AnswerFailed) /\ Answered
  <2>1. call <= reply.calls /\ call + 1 <= reply.calls + 1
    <3>1. call \in Nat /\ reply.calls \in Nat
      BY <1>0, Bounds DEF LoopTypes
    <3>2. call <= reply.calls
      BY <1>0, <1>10 DEF CallSucceeds, AnswerFailed, LoopCounts
    <3> QED BY <3>1, <3>2
  <2> QED BY <1>0, <1>10, <2>1
          DEF CallSucceeds, AnswerFailed, Answered, LGoto, LoopCounts, InTurn, Calling
<1>11. CASE CallFails
  BY <1>0, <1>11 DEF CallFails, LGoto, LoopCounts, InTurn, Calling
<1>12. CASE CallsDone
  BY <1>0, <1>12 DEF CallsDone, LGoto, LoopCounts, InTurn, Calling
<1>13. CASE Exit
  BY <1>0, <1>13 DEF Exit, LGoto, LoopCounts, InTurn, Calling
<1>14. CASE Consume
  BY <1>0, <1>14
     DEF Consume, OnComplete, OnToolResult, OnCompaction, OnLogged, OnExit, OnExitSaveFails,
         Receive, loopVars, LoopCounts
<1> QED BY <1>1, <1>2, <1>3, <1>4, <1>5, <1>6, <1>7, <1>8, <1>9, <1>10, <1>11, <1>12, <1>13,
           <1>14
        DEF Next, LoopStep, CallSucceeds, AnswerFailed

-----------------------------------------------------------------------------
(***************************************************************************)
(* What the steps do                                                       *)
(***************************************************************************)

\* A run begins with what the session file has, and the request.
FollowsFile(s, i) ==
  \/ /\ i <= Len(stored) /\ s[i].role = stored[i].role /\ s[i].calls = stored[i].calls
     /\ stored[i].text \subseteq s[i].text
     /\ s[i].text \subseteq stored[i].text \cup Request(run + 1).text
  \/ i = Len(stored) + 1 /\ s[i] = Request(run + 1)

\* A run begins with the file, its request, and the system message in front for the loop.
LEMMA BeginFacts ==
  ASSUME TypeOK, Begin
  PROVE  /\ sess' \in Seq(Message) /\ Len(sess') >= 1 /\ Len(sess') >= Len(stored)
         /\ Len(sess') \in Nat /\ Len(stored) \in Nat
         /\ \A i \in 1..Len(sess') : FollowsFile(sess', i)
         /\ messages' \in Seq(Message) /\ Len(messages') = Len(sess') + 1
         /\ messages'[1] = SystemMsg
         /\ \A i \in 1..Len(sess') : messages'[i + 1] = sess'[i]
         /\ \A i \in 2..Len(messages') : i - 1 \in 1..Len(sess') /\ messages'[i] = sess'[i - 1]
<1> DEFINE q == Request(run + 1)
<1>1. run \in 0..MaxRuns /\ run < MaxRuns /\ stored \in Seq(Message)
  BY DEF TypeOK, Begin
<1>2. run + 1 \in 1..MaxRuns
  BY <1>1, Bounds
<1>3. SystemMsg \in Message /\ q \in Message
  BY <1>2, MessagesAreTyped
<1>5. sess' = AddRequest(stored, q) /\ messages' = <<SystemMsg>> \o sess'
  BY DEF Begin
<1>6. Len(stored) \in Nat
  BY <1>1
<1> DEFINE Merged == stored # <<>> /\ stored[Len(stored)].role = q.role
<1> HIDE DEF q
<1>7. /\ sess' \in Seq(Message) /\ Len(sess') >= 1 /\ Len(sess') >= Len(stored)
      /\ \A i \in 1..Len(sess') : FollowsFile(sess', i)
  <2>1. CASE Merged
    <3> DEFINE m == [stored[Len(stored)] EXCEPT !.text = @ \cup q.text]
    <3>1. stored[Len(stored)] \in Message /\ Len(stored) \in 1..Len(stored)
      BY <1>1, <2>1
    <3>2. /\ m \in Message /\ m.role = stored[Len(stored)].role
          /\ m.calls = stored[Len(stored)].calls
          /\ m.text = stored[Len(stored)].text \cup q.text
      BY <1>3, <3>1 DEF Message
    <3>3. sess' = [stored EXCEPT ![Len(stored)] = m]
      BY <1>5, <2>1 DEF AddRequest
    <3> HIDE DEF m
    <3>4. /\ sess' \in Seq(Message) /\ Len(sess') = Len(stored)
          /\ \A i \in 1..Len(stored) : sess'[i] = IF i = Len(stored) THEN m ELSE stored[i]
      BY <1>1, <3>1, <3>2, <3>3, ExceptSeq
    <3>5. \A i \in 1..Len(sess') : FollowsFile(sess', i)
      BY <1>6, <3>2, <3>4 DEF FollowsFile, q
    <3> QED BY <1>6, <3>1, <3>4, <3>5
  <2>2. CASE ~Merged
    <3>1. sess' = Append(stored, q)
      BY <1>5, <2>2 DEF AddRequest
    <3>2. /\ sess' \in Seq(Message) /\ Len(sess') = Len(stored) + 1
          /\ \A i \in 1..Len(stored) : sess'[i] = stored[i]
          /\ sess'[Len(stored) + 1] = q
      BY <1>1, <1>3, <3>1
    <3>3. \A i \in 1..Len(sess') : i \in 1..Len(stored) \/ i = Len(stored) + 1
      BY <1>6, <3>2
    <3>4. \A i \in 1..Len(sess') : FollowsFile(sess', i)
      BY <3>2, <3>3 DEF FollowsFile, q
    <3> QED BY <1>6, <3>2, <3>4
  <2> QED BY <2>1, <2>2
<1>8. Len(sess') \in Nat
  BY <1>7
<1>9. /\ messages' \in Seq(Message) /\ Len(messages') = Len(sess') + 1
      /\ messages'[1] = SystemMsg
      /\ \A i \in 1..Len(sess') : messages'[i + 1] = sess'[i]
      /\ \A i \in 2..Len(messages') : i - 1 \in 1..Len(sess') /\ messages'[i] = sess'[i - 1]
  BY <1>3, <1>5, <1>7, <1>8
<1> QED BY <1>6, <1>7, <1>8, <1>9

\* What the loop appends to its context next.
Words == CASE lpc = "complete" -> <<Text("agent", <<"mistake", turn>>)>>
           [] lpc = "caution"  -> <<Text("user", <<"caution", turn>>)>>
           [] lpc = "append"   -> <<Answer(turn, reply.calls)>>
           [] OTHER            -> [n \in 1..reply.calls |-> ToolResult(turn, n)]

\* What the loop appends where it stands.
LEMMA WordsAreMessages ==
  ASSUME TypeOK, Counters, lpc \in {"complete", "caution", "append", "calls"}
  PROVE  /\ Words \in Seq(Message)
         /\ Len(Words) = IF lpc = "calls" THEN reply.calls ELSE 1
         /\ \A i \in 1..Len(Words) : Words[i] =
              CASE lpc = "complete" -> Text("agent", <<"mistake", turn>>)
                [] lpc = "caution"  -> Text("user", <<"caution", turn>>)
                [] lpc = "append"   -> Answer(turn, reply.calls)
                [] OTHER            -> ToolResult(turn, i)
<1>1. turn \in 1..MaxTurn /\ reply.calls \in 0..MaxCalls
  BY LoopFacts DEF InTurn, TypeOK
<1>2. /\ Text("agent", <<"mistake", turn>>) \in Message
      /\ Text("user", <<"caution", turn>>) \in Message
      /\ Answer(turn, reply.calls) \in Message
  BY <1>1, MessagesAreTyped
<1>3. CASE lpc = "calls"
  BY <1>3, ResultsAreMessages DEF Words
<1>4. CASE lpc # "calls"
  <2>1. ASSUME NEW m \in Message
        PROVE  <<m>> \in Seq(Message) /\ Len(<<m>>) = 1 /\ \A i \in 1..Len(<<m>>) : <<m>>[i] = m
    OBVIOUS
  <2>2. CASE lpc = "complete"
    BY <1>2, <2>1, <2>2 DEF Words
  <2>3. CASE lpc = "caution"
    BY <1>2, <2>1, <2>3 DEF Words
  <2>4. CASE lpc = "append"
    BY <1>2, <2>1, <2>4 DEF Words
  <2> QED BY <1>4, <2>2, <2>3, <2>4
<1> QED BY <1>3, <1>4

\* A step of the loop leaves the slices, asks the model, appends to its own, or compacts.
LEMMA LoopStepOnSlices ==
  ASSUME LoopStep
  PROVE  /\ UNCHANGED <<stored, exits, sessArr, clobbered, run>>
         /\ closed' = closed \/ Exit
         /\ \/ UNCHANGED sliceVars
            \/ Asks
            \/ (Mistake \/ Caution \/ AppendAnswer \/ CallsDone) /\ LoopAppends(Words)
               /\ lpc \in {"complete", "caution", "append", "calls"}
            \/ Compact
<1>1. ASSUME Mistake PROVE UNCHANGED sliceVars \/ LoopAppends(Words)
  BY <1>1 DEF Mistake, Words
<1>2. ASSUME Caution PROVE LoopAppends(Words)
  BY <1>2 DEF Caution, Words
<1>3. ASSUME AppendAnswer PROVE LoopAppends(Words)
  BY <1>3 DEF AppendAnswer, Words
<1>4. ASSUME CallsDone PROVE UNCHANGED sliceVars \/ LoopAppends(Words)
  BY <1>4 DEF CallsDone, Words
<1>5. ASSUME TopOfTurn PROVE UNCHANGED sliceVars \/ Asks
  BY <1>5 DEF TopOfTurn, Asks, LGoto, sliceVars
<1>6. UNCHANGED <<stored, exits, sessArr, clobbered, run>> /\ (closed' = closed \/ Exit)
  <2>1. CASE TopOfTurn \/ Compact
    BY <2>1 DEF TopOfTurn, Compact
  <2>2. CASE ~(TopOfTurn \/ Compact)
    BY <2>2
       DEF LoopStep, Completes, Mistake, Caution, CompletionFails, Overflows, AppendAnswer,
           CompactionFails, CallSucceeds, CallFails, AnswerFailed, Answered, CallHangs, CallsDone,
           Exit, LoopAppends, Send, sliceVars, chanVars
  <2> QED BY <2>1, <2>2
<1> QED BY <1>1, <1>2, <1>3, <1>4, <1>5, <1>6
        DEF LoopStep, Completes, Mistake, Caution, CompletionFails, Overflows,
            AppendAnswer, CompactionFails, CallSucceeds, CallFails, AnswerFailed, Answered,
            CallHangs, CallsDone, Exit

\* ... and leaves the channel, or puts an event in it.
Announces(e) ==
  \/ e.type = "complete" /\ Completes /\ e.turn = turn /\ e.calls = reply'.calls
  \/ e.type = "toolResult" /\ Answered /\ (CallSucceeds \/ AnswerFailed) /\ e.turn = turn /\ e.call = call
  \/ e.type = "compaction" /\ Compact /\ e.context = messages' /\ e.arr = loopArr'
  \/ e.type = "exit" /\ Exit
  \/ e.type = "mistake" /\ Mistake
  \/ e.type = "toolErr" /\ CallFails

\* A step of the loop sends one event, that of what it does, or none.
LEMMA LoopStepOnChannel ==
  ASSUME TypeOK, Counters, LoopStep
  PROVE  \/ Asks
         \/ /\ events' = events
            /\ TopOfTurn \/ Caution \/ CompletionFails \/ Overflows \/ AppendAnswer
               \/ CompactionFails \/ CallHangs \/ CallsDone
         \/ \E e \in Event : Added(e) /\ Announces(e)
<1>a. ASSUME NEW e \in Event, Send(e) PROVE Added(e)
  BY <1>a, SendFacts, LoopFacts, LeftAlone DEF Added
<1>0. turn \in 0..MaxTurn /\ (lpc \in InTurn => turn \in 1..MaxTurn)
  BY LoopFacts DEF TypeOK
<1>1. CASE Completes
  <2>1. PICK n \in 0..MaxCalls, done \in BOOLEAN, over \in BOOLEAN :
          /\ reply' = [calls |-> n, done |-> done, over |-> over]
          /\ Send([type |-> "complete", turn |-> turn, calls |-> n])
    BY <1>1 DEF Completes
  <2> DEFINE e == [type |-> "complete", turn |-> turn, calls |-> n]
  <2>2. e \in Event
    BY <1>0, <1>1 DEF Completes, InTurn, Event
  <2>3. Announces(e)
    BY <1>1, <2>1 DEF Announces
  <2> QED BY <1>a, <2>1, <2>2, <2>3
<1>2. CASE (CallSucceeds \/ AnswerFailed) /\ Answered
  <2> DEFINE e == [type |-> "toolResult", turn |-> turn, call |-> call]
  <2>1. call \in 1..MaxCalls
    <3>1. call \in Nat /\ call >= 1 /\ reply.calls \in 0..MaxCalls
      BY Bounds DEF TypeOK
    <3>2. call <= reply.calls
      BY <1>2 DEF CallSucceeds, AnswerFailed, Counters
    <3> QED BY <3>1, <3>2, Bounds
  <2>2. e \in Event
    BY <1>0, <1>2, <2>1 DEF CallSucceeds, AnswerFailed, InTurn, Event
  <2>3. Announces(e) /\ Send(e)
    BY <1>2 DEF Announces, Answered
  <2> QED BY <1>a, <2>2, <2>3
<1>3. CASE Compact
  <2> DEFINE e == [type |-> "compaction", context |-> messages', arr |-> loopArr']
  <2>1. e \in Event /\ Added(e)
    BY <1>3, CompactFacts
  <2>2. Announces(e)
    BY <1>3 DEF Announces
  <2> QED BY <2>1, <2>2
<1>4. CASE Exit
  <2> DEFINE e == [type |-> "exit"]
  <2>1. e \in Event /\ Announces(e)
    BY <1>4 DEF Event, Announces
  <2>2. events \in Seq(Event) /\ events' = Append(events, e)
    BY <1>4 DEF TypeOK, Exit
  <2>3. Added(e)
    BY <2>1, <2>2, LoopFacts, LeftAlone DEF Added
  <2> QED BY <2>1, <2>3
<1>5. CASE Mistake
  <2> DEFINE e == [type |-> "mistake"]
  <2>1. e \in Event /\ Announces(e) /\ Send(e)
    BY <1>5 DEF Event, Announces, Mistake
  <2> QED BY <1>a, <2>1
<1>6. CASE CallFails
  <2> DEFINE e == [type |-> "toolErr"]
  <2>1. e \in Event /\ Announces(e) /\ Send(e)
    BY <1>6 DEF Event, Announces, CallFails
  <2> QED BY <1>a, <2>1
<1>7. ASSUME Caution \/ CompletionFails \/ Overflows \/ AppendAnswer
             \/ CompactionFails \/ CallHangs \/ CallsDone
      PROVE  events' = events
  BY <1>7 DEF Caution, CompletionFails, Overflows, AppendAnswer, CompactionFails, CallHangs,
              CallsDone, chanVars
<1>8. ASSUME TopOfTurn PROVE Asks \/ events' = events
  BY <1>8 DEF TopOfTurn, Asks, LGoto
<1> QED BY <1>8, <1>1, <1>2, <1>3, <1>4, <1>5, <1>6, <1>7 DEF LoopStep, CallSucceeds, AnswerFailed

\* The consumer takes the first event, and appends what it says, or not.
Taken ==
  /\ Len(events) \in Nat /\ Len(events) >= 1
  /\ events' \in Seq(Event) /\ Len(events') = Len(events) - 1
  /\ \A i \in 1..Len(events) - 1 : events'[i] = events[i + 1]
  /\ UNCHANGED <<loopVars, closed>>

\* A step of the consumer takes one event and does to the session what it says.
LEMMA ConsumeFacts ==
  ASSUME TypeOK, ExitComesLast, Consume
  PROVE  /\ Taken /\ events # <<>> /\ events[1] \in Event /\ run \in 1..MaxRuns
         /\ \/ Appends(events[1]) /\ Said(events[1]) \in Message
               /\ SessionAppends(Said(events[1])) /\ UNCHANGED <<stored, exits>>
            \/ OnCompaction /\ events[1].type = "compaction"
               /\ sess' = events[1].context /\ sessArr' = events[1].arr
               /\ UNCHANGED <<messages, loopArr, clobbered, stored, exits>>
            \/ OnLogged /\ events[1].type \in {"mistake", "toolErr"}
               /\ UNCHANGED <<sliceVars, stored, exits>>
            \/ events[1].type = "exit" /\ exits' = exits + 1 /\ UNCHANGED sliceVars
               /\ stored' \in {stored, sess}
<1>a. ASSUME NEW type, Receive(type)
      PROVE  Taken /\ events # <<>> /\ events[1] \in Event /\ events[1] = Head(events)
             /\ events[1].type = type
  BY <1>a, ReceiveFacts DEF Taken, Receive
<1>1. CASE OnComplete \/ OnToolResult
  <2>1. PICK type \in {"complete", "toolResult"} :
          Receive(type) /\ SessionAppends(Said(events[1])) /\ UNCHANGED <<stored, exits>>
    BY <1>1, ConsumesWhatWasSaid
  <2>2. Appends(events[1]) /\ events # <<>>
    BY <1>a, <2>1 DEF Appends
  <2> QED BY <1>a, <2>1, <2>2, SaidFacts, RunIsOn
<1>2. CASE OnCompaction
  <2>1. Receive("compaction")
    BY <1>2 DEF OnCompaction
  <2> QED BY <1>a, <1>2, <2>1, RunIsOn DEF OnCompaction
<1>3. CASE OnLogged
  <2>1. PICK type \in {"mistake", "toolErr"} : Receive(type)
    BY <1>3 DEF OnLogged
  <2> QED BY <1>a, <1>3, <2>1, RunIsOn DEF OnLogged
<1>4. CASE OnExit \/ OnExitSaveFails
  <2> QED BY <1>a, <1>4, RunIsOn DEF OnExit, OnExitSaveFails
<1> QED BY <1>1, <1>2, <1>3, <1>4 DEF Consume

\* The session has a message, and the context two, from the first run on.
LEMMA CountersStep == TypeOK /\ Counters /\ ExitComesLast /\ SummariesAreNew /\ Next => Counters'
<1> SUFFICES ASSUME TypeOK, Counters, ExitComesLast, SummariesAreNew, Next PROVE Counters'
  OBVIOUS
<1>1. LoopCounts'
  BY LoopCountsStep
<1>2. LoopCounts' /\ Lengths' => Counters'
  BY DEF LoopCounts, Lengths, Counters
<1>3. run \in Nat /\ Len(sess) \in Nat /\ Len(messages) \in Nat /\ Lengths
  BY Bounds, LoopFacts DEF TypeOK, Counters, Lengths
<1>4. CASE Begin
  <2>1. Len(sess') \in Nat /\ Len(sess') >= 1 /\ Len(messages') = Len(sess') + 1
    BY <1>4, BeginFacts
  <2>2. run' = run + 1 /\ clobbered' = clobbered
    BY <1>4 DEF Begin
  <2>3. Lengths'
    BY <1>3, <2>1, <2>2 DEF Lengths
  <2> QED BY <1>1, <1>2, <2>3
<1>5. CASE Cancel
  BY <1>1, <1>2, <1>3, <1>5 DEF Cancel, Lengths, sliceVars
<1>6. CASE LoopStep
  <2>1. run' = run /\ clobbered' = clobbered
    BY <1>6, LoopStepOnSlices
  <2>2. CASE UNCHANGED sliceVars
    BY <1>1, <1>2, <1>3, <2>1, <2>2 DEF Lengths, sliceVars
  <2>3. CASE LoopAppends(Words) /\ lpc \in {"complete", "caution", "append", "calls"}
    <3>1. Words \in Seq(Message) /\ Len(Words) \in Nat
      BY <2>3, WordsAreMessages
    <3>2. Len(messages') = Len(messages) + Len(Words) /\ Len(sess') = Len(sess)
      BY <2>3, <3>1, LoopAppendsFacts
    <3>3. Lengths'
      BY <1>3, <2>1, <3>1, <3>2 DEF Lengths
    <3> QED BY <1>1, <1>2, <3>3
  <2>4. CASE Compact
    BY <1>1, <1>2, <1>3, <2>4, CompactFacts DEF Lengths, Reworded
  <2>5. CASE Asks
    BY <1>1, <1>2, <1>3, <2>5, AskFacts DEF Lengths, Reworded
  <2> QED BY <1>6, <2>2, <2>3, <2>4, <2>5, LoopStepOnSlices
<1>7. CASE Consume
  <2>1. run' = run /\ run \in 1..MaxRuns
    BY <1>7, ConsumeFacts DEF Taken, loopVars
  <2>2. CASE Said(events[1]) \in Message /\ SessionAppends(Said(events[1]))
    <3>1. Len(sess') = Len(sess) + 1 /\ Len(messages') = Len(messages)
          /\ clobbered' \subseteq clobbered \cup {run}
      BY <2>2, SessionAppendsFacts
    <3>2. Lengths'
      BY <1>3, <2>1, <3>1 DEF Lengths
    <3> QED BY <1>1, <1>2, <3>2
  <2>3. CASE UNCHANGED sliceVars
    BY <1>1, <1>2, <1>3, <2>1, <2>3 DEF Lengths, sliceVars
  <2>4. CASE events[1].type = "compaction" /\ sess' = events[1].context /\ events[1] \in Event
             /\ UNCHANGED <<messages, clobbered>>
    <3>1. Compaction(1) /\ sess' \in Seq(Message)
      BY <1>7, <2>4, ConsumeFacts, LoopFacts, EventsAreTyped DEF Compaction
    <3>2. Len(sess') \in Nat /\ Len(sess') >= 2
      BY <2>4, <3>1 DEF SummariesAreNew, Summarised, Compaction
    <3> QED BY <1>1, <1>2, <1>3, <2>1, <2>4, <3>2 DEF Lengths
  <2> QED BY <1>7, <2>2, <2>3, <2>4, ConsumeFacts
<1> QED BY <1>4, <1>5, <1>6, <1>7 DEF Next

\* The exit is the last event, and the session is handled before the next run.
LEMMA ExitStep == TypeOK /\ Counters /\ ExitComesLast /\ Next => ExitComesLast'
<1> SUFFICES ASSUME TypeOK, Counters, ExitComesLast, Next PROVE ExitComesLast'
  OBVIOUS
<1>0. run \in Nat /\ exits \in Nat /\ events \in Seq(Event) /\ Len(events) \in Nat
      /\ DOMAIN events = 1..Len(events) /\ (events = <<>> <=> Len(events) = 0)
  BY Bounds DEF TypeOK
<1>1. CASE Begin
  <2>1. exits' = exits /\ run' = run + 1 /\ lpc' # "idle" /\ closed' = FALSE /\ events' = <<>>
        /\ Drained
    BY <1>1 DEF Begin, LGoto, Drained
  <2>2. DOMAIN events' = {}
    BY <2>1
  <2> QED BY <1>0, <2>1, <2>2 DEF ExitComesLast, Drained
<1>2. CASE Cancel
  BY <1>2 DEF Cancel, chanVars, ExitComesLast, Drained
<1>3. CASE LoopStep
  <2>1. exits' = exits /\ run' = run
    BY <1>3, LoopStepOnSlices
  <2>2. lpc # "idle"
    BY <1>3 DEF LoopStep, TopOfTurn, Completes, Mistake, Caution, CompletionFails, Overflows,
                AppendAnswer, Compact, CompactionFails, CallSucceeds, CallFails, AnswerFailed,
                CallHangs, CallsDone, Exit
  <2>3. \A k \in DOMAIN events : events[k].type # "exit"
    BY <2>2 DEF ExitComesLast
  <2>4. exits + 1 = run /\ closed = FALSE
    BY <2>2 DEF ExitComesLast, Drained, TypeOK
  <2>5. CASE Exit
    <3>1. PICK e \in Event : Added(e) /\ Announces(e)
      BY <1>3, <2>5, LoopStepOnChannel
         DEF Exit, Asks, TopOfTurn, Caution, CompletionFails, Overflows, AppendAnswer,
             CompactionFails, CallHangs, CallsDone
    <3>2. e.type = "exit"
      BY <2>5, <3>1
         DEF Announces, Exit, Completes, CallSucceeds, AnswerFailed, Compact, Mistake,
                        CallFails
    <3>3. closed' /\ lpc' = "idle"
      BY <2>5 DEF Exit, LGoto
    <3>4. Len(events') = Len(events) + 1 /\ DOMAIN events' = 1..Len(events')
          /\ \A k \in 1..Len(events) : events'[k] = events[k]
      <4>1. events' \in Seq(Event) /\ Len(events') = Len(events) + 1
        BY <3>1 DEF Added
      <4>2. \A k \in 1..Len(events) : events'[k] = events[k]
        BY <3>1, <3>2, AddedFacts
      <4> QED BY <4>1, <4>2
    <3>5. events'[Len(events')].type = "exit"
      BY <3>1, <3>2 DEF Added
    <3>6. \A k \in DOMAIN events' : k = Len(events') \/ k \in DOMAIN events
      BY <1>0, <3>4
    <3>7. \A k \in DOMAIN events' : events'[k].type = "exit" => k = Len(events')
      BY <1>0, <2>3, <3>4, <3>6
    <3>8. events' # <<>>
      BY <1>0, <3>4
    <3> QED BY <2>1, <2>4, <3>3, <3>5, <3>7, <3>8 DEF ExitComesLast, Drained
  <2>6. CASE ~Exit
    <3>1. lpc' # "idle" /\ closed' = FALSE
      <4>1. lpc' # "idle"
        BY <1>3, <2>6
           DEF LoopStep, TopOfTurn, Completes, Mistake, Caution, CompletionFails, Overflows,
               AppendAnswer, Compact, CompactionFails, CallSucceeds, CallFails, AnswerFailed,
               Answered, CallHangs, CallsDone, AfterCompaction, LGoto
      <4> QED BY <1>3, <2>4, <2>6, <4>1, LoopStepOnSlices
    <3>2. \A k \in DOMAIN events' : events'[k].type # "exit"
      <4>1. CASE events' = events
        BY <2>3, <4>1
      <4>2. CASE \E e \in Event : Added(e) /\ Announces(e)
        <5>1. PICK e \in Event : Added(e) /\ Announces(e)
          BY <4>2
        <5>2. e.type # "exit"
          BY <2>6, <5>1 DEF Announces
        <5>3. /\ DOMAIN events' = 1..Len(events) + 1 /\ events'[Len(events) + 1] = e
              /\ \A k \in 1..Len(events) : events'[k].type = events[k].type
          BY <5>1, AddedFacts
        <5>4. \A k \in DOMAIN events' : k \in DOMAIN events \/ k = Len(events) + 1
          BY <1>0, <5>3
        <5> QED BY <1>0, <2>3, <5>2, <5>3, <5>4
      <4>3. CASE Asks
        BY <1>0, <2>3, <4>3, AskFacts DEF Passed
      <4> QED BY <1>3, <4>1, <4>2, <4>3, LoopStepOnChannel
    <3> QED BY <2>1, <2>4, <3>1, <3>2 DEF ExitComesLast, Drained
  <2> QED BY <2>5, <2>6
<1>4. CASE Consume
  <2>1. Taken /\ events # <<>> /\ (events[1].type = "exit" => exits' = exits + 1)
        /\ (events[1].type # "exit" => exits' = exits)
    BY <1>4, ConsumeFacts DEF Appends
  <2>2. lpc' = lpc /\ run' = run /\ closed' = closed /\ exits + 1 = run
    BY <1>4, <2>1, RunIsOn DEF Taken, loopVars
  <2>3. Len(events') = Len(events) - 1 /\ DOMAIN events' = 1..Len(events')
        /\ (events' = <<>> <=> Len(events') = 0)
    BY <2>1 DEF Taken
  <2>4. \A k \in DOMAIN events' : k + 1 \in DOMAIN events /\ events'[k] = events[k + 1]
    BY <1>0, <2>1, <2>3 DEF Taken
  <2>5. CASE events[1].type = "exit"
    <3>1. Len(events) = 1 /\ lpc = "idle"
      BY <1>0, <2>1, <2>5 DEF ExitComesLast
    <3>2. events' = <<>> /\ DOMAIN events' = {}
      BY <2>3, <3>1
    <3>3. exits' + (IF Drained' THEN 0 ELSE 1) = run'
      BY <1>0, <2>1, <2>2, <2>5, <3>1, <3>2 DEF Drained
    <3>4. closed' <=> lpc' = "idle"
      BY <2>2 DEF ExitComesLast
    <3> QED BY <3>2, <3>3, <3>4 DEF ExitComesLast
  <2>6. CASE events[1].type # "exit"
    <3>1. \A k \in DOMAIN events' : events'[k].type = "exit" => k = Len(events') /\ lpc' = "idle"
      <4>1. \A k \in DOMAIN events' : events'[k].type = "exit" => k + 1 = Len(events) /\ lpc = "idle"
        BY <2>4 DEF ExitComesLast
      <4> QED BY <1>0, <2>2, <2>3, <4>1
    <3>2. lpc = "idle" => Len(events) >= 2 /\ events[Len(events)].type = "exit"
      BY <1>0, <2>1, <2>6 DEF ExitComesLast
    <3>3. lpc = "idle" => Len(events') \in DOMAIN events' /\ Len(events') + 1 = Len(events)
      BY <1>0, <2>3, <3>2
    <3>4. lpc = "idle" => events'[Len(events')].type = "exit" /\ events' # <<>>
      BY <2>3, <2>4, <3>2, <3>3
    <3> QED BY <2>1, <2>2, <2>6, <3>1, <3>4 DEF ExitComesLast, Drained
  <2> QED BY <2>5, <2>6
<1> QED BY <1>1, <1>2, <1>3, <1>4 DEF Next

-----------------------------------------------------------------------------
(***************************************************************************)
(* Turns                                                                   *)
(***************************************************************************)

\* Which turns the messages the loop makes can mention.
LEMMA KnownFacts ==
  /\ \A m \in Message, t, u \in Nat : t <= u /\ Known(m, t) => Known(m, u)
  /\ \A t \in Nat : Known(SystemMsg, t)
  /\ \A t, r \in Nat : Known(Request(r), t)
  /\ \A t, u \in Nat : Known(Text("agent", <<"mistake", u>>), t) /\ Known(Text("user", <<"caution", u>>), t)
  /\ \A t \in Nat, n \in Nat : Known(Answer(t, n), t)
  /\ \A t \in Nat, n \in Nat : Known(ToolResult(t, n), t)
<1>1. ASSUME NEW m \in Message, NEW t \in Nat, NEW u \in Nat, t <= u, Known(m, t) PROVE Known(m, u)
  <2>1. \A c \in m.calls : c[1] \in Nat
    BY Bounds DEF Message, CallIds
  <2>2. \A x \in m.text : x[2] \in Nat
    BY Bounds DEF Message, Texts
  <2> QED BY <1>1, <2>1, <2>2 DEF Known
<1>2. /\ \A t \in Nat : Known(SystemMsg, t)
      /\ \A t, r \in Nat : Known(Request(r), t)
      /\ \A t, u \in Nat : Known(Text("agent", <<"mistake", u>>), t) /\ Known(Text("user", <<"caution", u>>), t)
  BY DEF SystemMsg, Request, Text, Known
<1>3. ASSUME NEW t \in Nat, NEW n \in Nat PROVE Known(Answer(t, n), t) /\ Known(ToolResult(t, n), t)
  BY DEF Answer, ToolResult, Known
<1> QED BY <1>1, <1>2, <1>3

\* A message that is changed in place mentions this turn at the latest.
LEMMA ToldIsKnown ==
  ASSUME turn \in Nat, NEW m, NEW n, Told(m, n), Known(m, turn)
  PROVE  Known(n, turn)
BY DEF Told, Known

LEMMA RewordedIsKnown ==
  ASSUME turn \in Nat, NEW s \in Seq(Message), NEW r, Reworded(s, r), Mentions(s, turn)
  PROVE  r \in Seq(Message) /\ Mentions(r, turn)
<1>1. DOMAIN s = 1..Len(s) /\ DOMAIN r = 1..Len(s) /\ r \in Seq(Message)
  BY DEF Reworded
<1> QED BY <1>1, ToldIsKnown DEF Reworded, Mentions

\* The positions of a sequence of messages.
LEMMA MessageDomains == \A s \in Seq(Message) : DOMAIN s = 1..Len(s) /\ Len(s) \in Nat
OBVIOUS

\* A compaction of turn t mentions no later turn.
LEMMA KeepsMentions ==
  ASSUME NEW s \in Seq(Message), Len(s) >= 1, NEW r, NEW t \in Nat, Keeps(s, r, t), Mentions(s, t)
  PROVE  Mentions(r, t)
<1>1. PICK d \in Int : Shifted(s, r, d)
  BY DEF Keeps
<1>2. DOMAIN s = 1..Len(s) /\ DOMAIN r = 1..Len(r) /\ Len(s) \in Nat /\ Len(r) \in Nat
  BY DEF Keeps
<1>3. ASSUME NEW i \in 1..Len(r), NEW c \in r[i].calls PROVE c[1] <= t
  <2>1. CASE i = 1
    BY <2>1 DEF Keeps, Mentions, Known
  <2>2. CASE i \in 2..Len(r)
    <3>1. r[i].calls = {} \/ (i + d \in 2..Len(s) /\ r[i].calls = s[i + d].calls)
      BY <1>1, <2>2 DEF Shifted
    <3>2. i + d \in 2..Len(s) => i + d \in DOMAIN s
      BY <1>2
    <3> QED BY <1>3, <3>1, <3>2 DEF Mentions, Known
  <2> QED BY <1>2, <2>1, <2>2
<1>4. ASSUME NEW i \in 1..Len(r), NEW x \in r[i].text, x[1] = "summary" PROVE x[2] <= t
  <2>1. x = <<"summary", t>> \/ \E k \in 1..Len(s) : x \in s[k].text
    BY DEF Keeps
  <2> QED BY <1>2, <1>4, <2>1 DEF Mentions, Known
<1> QED BY <1>2, <1>3, <1>4 DEF Mentions, Known

\* What mentions no turn after t mentions none after a later one.
LEMMA LaterMentions ==
  ASSUME NEW s \in Seq(Message), NEW t \in Nat, NEW u \in Nat, t <= u, Mentions(s, t)
  PROVE  Mentions(s, u)
<1>1. \A i \in DOMAIN s : s[i] \in Message
  OBVIOUS
<1> QED BY <1>1, KnownFacts DEF Mentions

\* What is known does not get less.
LEMMA AskedGrows ==
  ASSUME TypeOK, Counters, Next
  PROVE  /\ Asked \in Nat /\ Asked' \in Nat /\ Appended \in Nat /\ Appended' \in Nat
         /\ Asked <= Asked' /\ Appended <= Appended' /\ Asked <= turn /\ Asked' <= turn'
         /\ Consume => Asked' = Asked /\ Appended' = Appended
<1>1. turn \in Nat /\ (lpc \in InTurn => turn >= 1) /\ left \in Nat
  BY Bounds DEF TypeOK, Counters
<1>2. /\ turn' = turn \/ (turn' = turn + 1 /\ lpc = "top" /\ lpc' = "complete")
      /\ lpc' = "complete" => lpc = "complete" \/ (lpc = "top" /\ turn' = turn + 1)
      /\ lpc' = "append" => lpc \in {"complete", "append"}
      /\ lpc' \in {"complete", "append"} => turn' >= 1
  BY <1>1
     DEF Next, Begin, Cancel, LoopStep, TopOfTurn, Completes, Mistake, Caution, CompletionFails,

              Overflows, AppendAnswer, Compact, CompactionFails, CallSucceeds, CallFails,
              AnswerFailed, Answered, CallHangs, CallsDone, Exit, AfterCompaction, LGoto, Consume,
              OnComplete,
              OnToolResult, OnCompaction, OnLogged, OnExit, OnExitSaveFails, Receive, loopVars, InTurn
<1>3. Consume => lpc' = lpc /\ turn' = turn
  BY DEF Consume, OnComplete, OnToolResult, OnCompaction, OnLogged, OnExit, OnExitSaveFails,
         Receive,
         loopVars
<1>4. Asked \in Nat /\ Appended \in Nat /\ Asked' \in Nat /\ Appended' \in Nat
  BY <1>1, <1>2 DEF Asked, Appended, InTurn
<1> QED BY <1>1, <1>2, <1>3, <1>4 DEF Asked, Appended, InTurn

\* The loop appends messages of its own turn.
LEMMA WordsAreKnown ==
  ASSUME TypeOK, Counters, lpc \in {"complete", "caution", "append", "calls"},
         Mistake \/ Caution \/ AppendAnswer \/ CallsDone
  PROVE  \A i \in 1..Len(Words) : Known(Words[i], Asked') /\ Known(Words[i], Appended')
<1>1. turn \in Nat /\ turn >= 1 /\ reply.calls \in Nat
  BY LoopFacts, Bounds DEF InTurn, TypeOK
<1>4. lpc \in {"append", "calls"} => Asked' = turn /\ Appended' = turn
  BY DEF Mistake, Caution, AppendAnswer, CallsDone, LGoto, Asked, Appended
<1>5. SUFFICES ASSUME NEW i \in 1..Len(Words)
               PROVE  Known(Words[i], Asked') /\ Known(Words[i], Appended')
  OBVIOUS
<1>7. CASE lpc = "complete"
  <2>1. Words[i] = Text("agent", <<"mistake", turn>>)
    BY <1>7, WordsAreMessages
  <2> QED BY <2>1 DEF Text, Known
<1>8. CASE lpc = "caution"
  <2>1. Words[i] = Text("user", <<"caution", turn>>)
    BY <1>8, WordsAreMessages
  <2> QED BY <2>1 DEF Text, Known
<1>9. CASE lpc = "append"
  BY <1>1, <1>4, <1>9, WordsAreMessages, KnownFacts
<1>10. CASE lpc = "calls"
  <2>1. Words[i] = ToolResult(turn, i) /\ i \in Nat
    BY <1>10, WordsAreMessages
  <2> QED BY <1>1, <1>4, <1>10, <2>1, KnownFacts
<1> QED BY <1>7, <1>8, <1>9, <1>10

\* Nothing mentions a turn that was not begun.
LEMMA MentionStep ==
  TypeOK /\ Counters /\ ExitComesLast /\ NothingFromTheFuture /\ Next => NothingFromTheFuture'
<1> SUFFICES ASSUME TypeOK, Counters, ExitComesLast, NothingFromTheFuture, Next
             PROVE  NothingFromTheFuture'
  OBVIOUS
<1> DEFINE EventKnown(e, t) == /\ e.type = "compaction" => Mentions(e.context, t)
                               /\ e.type \in {"complete", "toolResult"} => e.turn <= t
<1>1. /\ Asked \in Nat /\ Asked' \in Nat /\ Appended \in Nat /\ Appended' \in Nat
      /\ Asked <= Asked' /\ Appended <= Appended'
      /\ Consume => Asked' = Asked /\ Appended' = Appended
  BY AskedGrows
<1>2. /\ messages \in Seq(Message) /\ sess \in Seq(Message) /\ stored \in Seq(Message)
      /\ events \in Seq(Event) /\ DOMAIN events = 1..Len(events) /\ Len(events) \in Nat
  BY DEF TypeOK
<1>3. /\ Mentions(sess, Asked') /\ Mentions(stored, Asked') /\ Mentions(messages, Asked')
      /\ clobbered = {} => Mentions(messages, Appended')
  BY <1>1, <1>2, LaterMentions DEF NothingFromTheFuture
<1>4. ASSUME NEW e \in Event, EventKnown(e, Asked) PROVE EventKnown(e, Asked')
  BY <1>1, <1>4, EventsAreTyped, LaterMentions, Bounds
<1>5. \A k \in 1..Len(events) : events[k] \in Event /\ EventKnown(events[k], Asked)
                               /\ EventKnown(events[k], Asked')
  <2>1. \A k \in 1..Len(events) : events[k] \in Event
    BY <1>2
  <2>2. \A k \in 1..Len(events) : EventKnown(events[k], Asked)
    BY <1>2 DEF NothingFromTheFuture, Compaction
  <2> QED BY <1>4, <2>1, <2>2
<1>6. ASSUME /\ Mentions(sess', Asked') /\ Mentions(stored', Asked') /\ Mentions(messages', Asked')
             /\ clobbered' = {} => Mentions(messages', Appended')
             /\ \A k \in DOMAIN events' : EventKnown(events'[k], Asked')
      PROVE  NothingFromTheFuture'
  BY <1>6 DEF NothingFromTheFuture, Compaction
<1>7. events' = events => \A k \in DOMAIN events' : EventKnown(events'[k], Asked')
  BY <1>2, <1>5
<1>7a. turn \in Nat /\ Asked <= turn
  BY AskedGrows, Bounds DEF TypeOK
<1>7b. ASSUME NEW s \in Seq(Message), NEW r, Reworded(s, r), Mentions(s, Asked), turn <= Asked'
       PROVE  r \in Seq(Message) /\ Mentions(r, Asked')
  <2>1. r \in Seq(Message) /\ Mentions(r, turn)
    BY <1>1, <1>7a, <1>7b, LaterMentions, RewordedIsKnown
  <2> QED BY <1>1, <1>7a, <1>7b, <2>1, LaterMentions
<1>7c. ASSUME NEW e \in Event, NEW d, Passed(e, d), EventKnown(e, Asked), EventKnown(e, Asked'),
              turn <= Asked' \/ e = d
       PROVE  EventKnown(d, Asked')
  <2>1. CASE e.type = "compaction" /\ e # d
    <3>1. e.context \in Seq(Message)
      BY <2>1, EventsAreTyped
    <3> QED BY <1>7b, <1>7c, <2>1, <3>1 DEF Passed
  <2> QED BY <1>7c, <2>1 DEF Passed
<1> HIDE DEF EventKnown
<1>8. CASE Begin
  <2>1. /\ sess' \in Seq(Message) /\ messages' \in Seq(Message)
        /\ \A i \in 1..Len(sess') : FollowsFile(sess', i)
        /\ Len(sess') \in Nat /\ Len(messages') = Len(sess') + 1
        /\ messages'[1] = SystemMsg
        /\ \A i \in 2..Len(messages') : i - 1 \in 1..Len(sess') /\ messages'[i] = sess'[i - 1]
    BY <1>8, BeginFacts
  <2>2. events' = events /\ stored' = stored /\ Appended' = Asked'
    BY <1>8 DEF Begin, LGoto, Asked, Appended
  <2>3. ASSUME NEW i \in 1..Len(sess') PROVE Known(sess'[i], Asked')
    <3>1. CASE sess'[i] = Request(run + 1)
      BY <1>1, <3>1, KnownFacts, Bounds DEF TypeOK
    <3>2. CASE i <= Len(stored) /\ sess'[i].calls = stored[i].calls
               /\ sess'[i].text \subseteq stored[i].text \cup Request(run + 1).text
      <4>1. i \in DOMAIN stored
        BY <1>2, <3>2
      <4>2. Known(Request(run + 1), Asked')
        BY <1>1, KnownFacts, Bounds DEF TypeOK
      <4> QED BY <1>3, <3>2, <4>1, <4>2 DEF Mentions, Known
    <3> QED BY <2>1, <3>1, <3>2 DEF FollowsFile
  <2>4. Mentions(sess', Asked')
    BY <2>1, <2>3 DEF Mentions
  <2>5. Mentions(messages', Asked')
    <3>1. \A i \in 1..Len(messages') : i = 1 \/ i \in 2..Len(messages')
      BY <2>1
    <3>2. \A i \in 1..Len(messages') : Known(messages'[i], Asked')
      BY <1>1, <2>1, <2>3, <3>1, KnownFacts
    <3> QED BY <2>1, <3>2 DEF Mentions
  <2> QED BY <1>3, <1>6, <1>7, <2>2, <2>4, <2>5
<1>9. CASE Cancel
  BY <1>3, <1>6, <1>7, <1>9 DEF Cancel, sliceVars, chanVars
<1>10. CASE LoopStep
  <2>1. stored' = stored /\ clobbered' = clobbered
    BY <1>10, LoopStepOnSlices
  <2>2. /\ Mentions(sess', Asked') /\ Mentions(messages', Asked')
        /\ clobbered' = {} => Mentions(messages', Appended')
    <3>1. CASE UNCHANGED sliceVars
      BY <1>3, <3>1 DEF sliceVars
    <3>2. CASE (Mistake \/ Caution \/ AppendAnswer \/ CallsDone) /\ LoopAppends(Words)
               /\ lpc \in {"complete", "caution", "append", "calls"}
      <4>1. Words \in Seq(Message) /\ Len(Words) \in Nat
            /\ \A i \in 1..Len(Words) : Known(Words[i], Asked') /\ Known(Words[i], Appended')
        BY <3>2, WordsAreMessages, WordsAreKnown
      <4>2. /\ messages' \in Seq(Message) /\ Len(messages') = Len(messages) + Len(Words)
            /\ \A i \in 1..Len(messages) : messages'[i] = messages[i]
            /\ \A i \in 1..Len(Words) : messages'[Len(messages) + i] = Words[i]
            /\ sess' \in Seq(Message) /\ Len(sess') = Len(sess)
            /\ \A i \in 1..Len(sess) :
                 \/ sess'[i] = sess[i]
                 \/ i > Len(messages) /\ i - Len(messages) \in 1..Len(Words)
                    /\ sess'[i] = Words[i - Len(messages)]
        BY <3>2, <4>1, LoopAppendsFacts
      <4>3. Mentions(sess', Asked')
        BY <1>3, <4>1, <4>2, MessageDomains DEF Mentions
      <4>4. ASSUME NEW i \in 1..Len(messages')
            PROVE  \/ i \in 1..Len(messages) /\ messages'[i] = messages[i]
                   \/ i - Len(messages) \in 1..Len(Words) /\ messages'[i] = Words[i - Len(messages)]
        <5>1. Len(messages) \in Nat
          BY <1>2
        <5>2. CASE i <= Len(messages)
          BY <4>2, <5>1, <5>2
        <5>3. CASE i > Len(messages)
          <6>1. i - Len(messages) \in 1..Len(Words) /\ Len(messages) + (i - Len(messages)) = i
            BY <4>1, <4>2, <5>1, <5>3
          <6>2. messages'[Len(messages) + (i - Len(messages))] = Words[i - Len(messages)]
            BY <4>2, <6>1
          <6> QED BY <6>1, <6>2
        <5> QED BY <5>1, <5>2, <5>3
      <4>5. DOMAIN messages' = 1..Len(messages') /\ DOMAIN messages = 1..Len(messages)
        BY <1>2, <4>2
      <4>6. Mentions(messages', Asked')
        BY <1>3, <4>1, <4>4, <4>5 DEF Mentions
      <4>7. clobbered = {} => Mentions(messages', Appended')
        BY <1>3, <4>1, <4>4, <4>5 DEF Mentions
      <4> QED BY <2>1, <4>3, <4>6, <4>7
    <3>3. CASE Compact
      <4>a. turn \in 1..MaxTurn /\ Reworded(sess, sess') /\ Keeps(messages, messages', turn)
            /\ turn' = turn
        BY <3>3, CompactFacts
      <4>b. Len(messages) >= 2 /\ Len(messages) \in Nat
        BY <3>3, LoopFacts DEF Compact, Counters
      <4>1. turn \in Nat /\ turn' = turn /\ Len(messages) >= 1
        BY <4>a, <4>b, Bounds
      <4>2. Asked' = turn /\ Appended' = turn
        BY <3>3 DEF Compact, LGoto, AfterCompaction, Asked, Appended
      <4>3. Mentions(messages', turn)
        BY <1>2, <1>3, <4>1, <4>2, <4>a, KeepsMentions
      <4>4. Mentions(sess', Asked')
        BY <1>2, <1>7b, <4>1, <4>2, <4>a DEF NothingFromTheFuture
      <4> QED BY <4>2, <4>3, <4>4
    <3>4. CASE Asks
      <4>1. Asked' = turn /\ Appended' = turn /\ Appended <= turn /\ Asked = turn
        BY <1>7a, <3>4, AskFacts DEF Asks, Asked, Appended
      <4>2. Reworded(sess, sess') /\ Reworded(messages, messages')
        BY <3>4, AskFacts
      <4>3. Mentions(sess', Asked') /\ Mentions(messages', Asked')
        BY <1>2, <1>7a, <1>7b, <4>1, <4>2 DEF NothingFromTheFuture
      <4> QED BY <4>1, <4>3
    <3> QED BY <1>10, <3>1, <3>2, <3>3, <3>4, LoopStepOnSlices
  <2>3. \A k \in DOMAIN events' : EventKnown(events'[k], Asked')
    <3>1. CASE \E e \in Event : Added(e) /\ Announces(e)
      <4>1. PICK e \in Event : Added(e) /\ Announces(e)
        BY <3>1
      <4>2. EventKnown(e, Asked')
        <5>1. CASE e.type \in {"complete", "toolResult"}
          <6>1. turn' = turn /\ Asked' = turn /\ e.turn = turn
            BY <4>1, <5>1 DEF Announces, Completes, Answered, LGoto, Asked
          <6> QED BY <1>1, <5>1, <6>1 DEF EventKnown
        <5>2. CASE e.type = "compaction"
          BY <2>2, <4>1, <5>2 DEF Announces, EventKnown
        <5> QED BY <5>1, <5>2 DEF EventKnown
      <4>3. \A k \in DOMAIN events' : k \in 1..Len(events) \/ k = Len(events) + 1
        BY <1>2, <4>1 DEF Added
      <4>4. e.type = "compaction" => turn <= Asked'
        BY <1>7a, <4>1 DEF Announces, Compact, LGoto, AfterCompaction, Asked
      <4>5. \A k \in 1..Len(events) : EventKnown(events'[k], Asked')
        <5>1. ASSUME NEW k \in 1..Len(events) PROVE EventKnown(events'[k], Asked')
          <6>1. /\ Passed(events[k], events'[k]) /\ (turn <= Asked' \/ events[k] = events'[k])
            BY <4>1, <4>4, AddedFacts
          <6>2. events[k] \in Event /\ EventKnown(events[k], Asked) /\ EventKnown(events[k], Asked')
            BY <1>5
          <6> QED BY <1>7c, <6>1, <6>2
        <5> QED BY <5>1
      <4> QED BY <4>1, <4>2, <4>3, <4>5 DEF Added
    <3>2. CASE Asks
      <4>1. Asked' = turn /\ DOMAIN events' = 1..Len(events)
        BY <1>7a, <3>2, AskFacts DEF Asks, Asked
      <4> QED BY <1>5, <1>7a, <1>7c, <3>2, <4>1, AskFacts
    <3> QED BY <1>7, <1>10, <3>1, <3>2, LoopStepOnChannel
  <2> QED BY <1>3, <1>6, <2>1, <2>2, <2>3
<1>11. CASE Consume
  <2>1. Taken /\ events[1] \in Event /\ Asked' = Asked /\ Appended' = Appended
    BY <1>1, <1>11, ConsumeFacts
  <2>2. \A k \in DOMAIN events' : EventKnown(events'[k], Asked')
    <3>1. \A k \in DOMAIN events' : k + 1 \in 1..Len(events) /\ events'[k] = events[k + 1]
      BY <1>2, <2>1 DEF Taken
    <3> QED BY <1>5, <3>1
  <2>3. EventKnown(events[1], Asked')
    BY <1>2, <1>5, <2>1 DEF Taken
  <2>4. CASE Appends(events[1]) /\ Said(events[1]) \in Message
             /\ SessionAppends(Said(events[1])) /\ UNCHANGED <<stored, exits>>
    <3> DEFINE m == Said(events[1])
    <3>1. Known(m, Asked')
      <4>1. events[1].turn <= Asked'
        BY <2>3, <2>4 DEF EventKnown, Appends
      <4>2. events[1].turn \in Nat
        BY <2>1, <2>4, EventsAreTyped, Bounds DEF Appends
      <4>3. Known(m, events[1].turn)
        <5>1. events[1].type = "complete" => events[1].calls \in Nat
          BY <2>1, EventsAreTyped, Bounds
        <5>2. events[1].type = "toolResult" => events[1].call \in Nat
          BY <2>1, EventsAreTyped, Bounds
        <5> QED BY <2>4, <4>2, <5>1, <5>2, KnownFacts DEF Appends, Said
      <4> QED BY <1>1, <2>4, <4>1, <4>2, <4>3, KnownFacts
    <3> HIDE DEF m
    <3>2. m \in Message /\ SessionAppends(m)
      BY <2>4 DEF m
    <3>3. /\ sess' \in Seq(Message) /\ Len(sess') = Len(sess) + 1
          /\ \A i \in 1..Len(sess) : sess'[i] = sess[i]
          /\ sess'[Len(sess) + 1] = m
          /\ messages' \in Seq(Message) /\ Len(messages') = Len(messages)
          /\ \A i \in 1..Len(messages) : messages'[i] = messages[i] \/ messages'[i] = m
          /\ clobbered' = {} => messages' = messages /\ clobbered' = clobbered
      BY <3>2, SessionAppendsFacts
    <3>4. \A i \in DOMAIN sess' : i \in 1..Len(sess) \/ i = Len(sess) + 1
      BY <1>2, <3>3
    <3>5. Mentions(sess', Asked')
      BY <1>3, <3>1, <3>3, <3>4, MessageDomains DEF Mentions
    <3>6. Mentions(messages', Asked')
      BY <1>3, <3>1, <3>3, MessageDomains DEF Mentions
    <3>7. clobbered' = {} => Mentions(messages', Appended')
      BY <1>3, <3>3
    <3> QED BY <1>3, <1>6, <2>2, <2>4, <3>5, <3>6, <3>7
  <2>5. CASE events[1].type = "compaction" /\ sess' = events[1].context
             /\ UNCHANGED <<messages, clobbered, stored>>
    <3>1. Mentions(sess', Asked')
      BY <2>3, <2>5 DEF EventKnown
    <3> QED BY <1>3, <1>6, <2>2, <2>5, <3>1
  <2>6. CASE UNCHANGED sliceVars /\ stored' \in {stored, sess}
    <3>1. sess' = sess /\ messages' = messages /\ clobbered' = clobbered
      BY <2>6 DEF sliceVars
    <3>2. Mentions(stored', Asked')
      BY <1>3, <2>6
    <3> QED BY <1>3, <1>6, <2>2, <3>1, <3>2
  <2> QED BY <1>11, <2>4, <2>5, <2>6, ConsumeFacts
<1> QED BY <1>8, <1>9, <1>10, <1>11 DEF Next

-----------------------------------------------------------------------------
(***************************************************************************)
(* Summaries                                                               *)
(***************************************************************************)

\* A turn is begun before anything happens in it.
LEMMA TurnStep ==
  ASSUME TypeOK, Counters, Next
  PROVE  /\ turn \in Nat /\ turn' \in Nat /\ turn <= turn'
         /\ lpc' \in InTurn => lpc \in InTurn \/ turn < turn'
<1>1. turn \in Nat
  BY Bounds DEF TypeOK
<1>2. turn' = turn \/ turn' = turn + 1
  BY DEF Next, Begin, Cancel, LoopStep, TopOfTurn, Completes, Mistake, Caution, CompletionFails,
         Overflows, AppendAnswer, Compact, CompactionFails, CallSucceeds, CallFails, AnswerFailed,
         Answered, CallHangs, CallsDone, Exit, Consume, OnComplete, OnToolResult, OnCompaction,
         OnLogged, OnExit, OnExitSaveFails, Receive, loopVars
<1>3. lpc' \in InTurn => lpc \in InTurn \/ turn' = turn + 1
  BY DEF Next, Begin, Cancel, LoopStep, TopOfTurn, Completes, Mistake, Caution, CompletionFails,
         Overflows, AppendAnswer, Compact, CompactionFails, CallSucceeds, CallFails, AnswerFailed,
         Answered, CallHangs, CallsDone, Exit, AfterCompaction, LGoto, Consume, OnComplete,
         OnToolResult, OnCompaction, OnLogged, OnExit, OnExitSaveFails, Receive, loopVars, InTurn
<1> QED BY <1>1, <1>2, <1>3

\* What is kept is kept when messages are changed in place.
LEMMA RewordedIsKept ==
  ASSUME NEW q, NEW s \in Seq(Message), NEW r, Reworded(s, r), KeptIn(q, s)
  PROVE  KeptIn(q, r)
<1>1. DOMAIN s = 1..Len(s) /\ DOMAIN r = 1..Len(s)
  BY DEF Reworded
<1>2. ASSUME NEW x \in TextsOf(s)
      PROVE  \/ x \in TextsOf(r)
             \/ x[1] = "image" /\ run \notin Seeing /\ <<"unseen", x[2]>> \in TextsOf(r)
  <2>1. PICK i \in 1..Len(s) : x \in s[i].text
    BY <1>1 DEF TextsOf, Elements
  <2>2. r[i].text \subseteq TextsOf(r)
    BY <1>1 DEF TextsOf, Elements
  <2>3. Told(s[i], r[i])
    BY DEF Reworded
  <2> QED BY <2>1, <2>2, <2>3 DEF Told
<1>3. \A y : <<"unseen", y>>[1] # "image"
  OBVIOUS
<1> QED BY <1>2, <1>3 DEF KeptIn

\* What the session says is still there, or there is a new summary instead.
LEMMA SummaryStep ==
  /\ TypeOK /\ Counters /\ ExitComesLast /\ NothingFromTheFuture /\ SummariesAreNew /\ Next
  => SummariesAreNew'
<1> SUFFICES ASSUME TypeOK, Counters, ExitComesLast, NothingFromTheFuture, SummariesAreNew, Next
             PROVE  SummariesAreNew'
  OBVIOUS
<1> DEFINE New(s) == Len(s) >= 2 /\ \E x \in s[2].text : x[1] = "summary" /\ x \notin TextsOf(stored)
<1>1. /\ messages \in Seq(Message) /\ sess \in Seq(Message) /\ stored \in Seq(Message)
      /\ events \in Seq(Event) /\ DOMAIN events = 1..Len(events) /\ Len(events) \in Nat
      /\ Len(sess) \in Nat /\ DOMAIN sess = 1..Len(sess) /\ DOMAIN stored = 1..Len(stored)
  <2>1. /\ messages \in Seq(Message) /\ sess \in Seq(Message) /\ stored \in Seq(Message)
        /\ events \in Seq(Event)
    BY DEF TypeOK
  <2> QED BY <2>1
<1>2. ASSUME NEW i \in 1..Len(events), events[i].type = "compaction" PROVE New(events[i].context)
  BY <1>1, <1>2 DEF SummariesAreNew, Compaction, Summarised
<1>3. /\ KeptIn(stored, sess) \/ New(sess)
      /\ sessArr.id # 0 /\ ~Drained => New(sess)
  BY DEF SummariesAreNew, Summarised
<1>4. ASSUME /\ stored' = stored
             /\ \A k \in DOMAIN events' : events'[k].type = "compaction" => New(events'[k].context)
             /\ sessArr'.id # 0 /\ ~Drained' => New(sess')
             /\ KeptIn(stored, sess)' \/ New(sess')
      PROVE  SummariesAreNew'
  <2>2. ASSUME NEW x \in TextsOf(stored), x[1] = "summary"
        PROVE  x[2] <= turn' /\ (lpc' \in InTurn => x[2] < turn')
    <3>1. x[2] <= turn /\ (lpc \in InTurn => x[2] < turn)
      BY <2>2 DEF SummariesAreNew
    <3>2. x[2] \in Nat
      <4>1. PICK i \in DOMAIN stored : x \in stored[i].text
        BY DEF TextsOf, Elements
      <4>2. stored[i] \in Message
        BY <1>1
      <4>3. x \in Texts
        BY <4>1, <4>2 DEF Message
      <4> QED BY <4>3, Bounds DEF Texts
    <3> QED BY <3>1, <3>2, TurnStep
  <2> QED BY <1>4, <2>2 DEF SummariesAreNew, Summarised, Compaction
<1>5. ASSUME NEW s \in Seq(Message), NEW r, Len(r) \in Nat, Len(s) <= Len(r), r[2] = s[2], New(s)
      PROVE  New(r)
  <2>1. Len(s) \in Nat
    OBVIOUS
  <2> QED BY <1>5, <2>1
<1>6. events' = events =>
        \A k \in DOMAIN events' : events'[k].type = "compaction" => New(events'[k].context)
  BY <1>1, <1>2
<1>6a. ASSUME NEW s \in Seq(Message), NEW r, Reworded(s, r), New(s) PROVE New(r)
  <2>1. Len(s) >= 2 /\ Len(s) \in Nat /\ 2 \in 1..Len(s) /\ Len(r) = Len(s) /\ Told(s[2], r[2])
    BY <1>6a DEF Reworded
  <2> QED BY <1>6a, <2>1 DEF Told
<1> HIDE DEF New
<1>6b. ASSUME NEW e \in Event, NEW d, Passed(e, d), e.type = "compaction" => New(e.context)
       PROVE  d.type = "compaction" => New(d.context)
  BY <1>6a, <1>6b, EventsAreTyped DEF Passed
<1>7. CASE Begin
  <2>1. stored' = stored /\ events' = events /\ sessArr'.id = 0
    BY <1>7 DEF Begin, Private
  <2>2. /\ sess' \in Seq(Message) /\ Len(sess') >= Len(stored) /\ Len(sess') \in Nat
        /\ Len(stored) \in Nat
        /\ \A i \in 1..Len(sess') : FollowsFile(sess', i)
    BY <1>7, BeginFacts
  <2>3. TextsOf(stored) \subseteq TextsOf(sess')
    <3>1. \A i \in 1..Len(stored) : i \in DOMAIN sess' /\ stored[i].text \subseteq sess'[i].text
      BY <2>2 DEF FollowsFile
    <3> QED BY <1>1, <3>1 DEF TextsOf, Elements
  <2>4. KeptIn(stored, sess)'
    BY <2>1, <2>3 DEF KeptIn
  <2> QED BY <1>4, <1>6, <2>1, <2>4
<1>8. CASE Cancel
  <2>1. UNCHANGED <<stored, events, sess, sessArr, lpc, run>>
    BY <1>8 DEF Cancel, sliceVars, chanVars
  <2>2. Drained' = Drained
    BY <2>1 DEF Drained
  <2>3. KeptIn(stored, sess)' = KeptIn(stored, sess)
    BY <2>1 DEF KeptIn, TextsOf, Elements
  <2> QED BY <1>3, <1>4, <1>6, <2>1, <2>2, <2>3
<1>9. CASE LoopStep
  <2>1. stored' = stored /\ sessArr' = sessArr /\ run' = run
    BY <1>9, LoopStepOnSlices
  <2>2. ~Drained
    BY <1>9 DEF LoopStep, TopOfTurn, Completes, Mistake, Caution, CompletionFails, Overflows,
                AppendAnswer, Compact, CompactionFails, CallSucceeds, CallFails, AnswerFailed,
                CallHangs, CallsDone, Exit, Drained
  <2>3. /\ New(sess) => New(sess')
        /\ KeptIn(stored, sess)' \/ New(sess')
    <3>1. CASE Reworded(sess, sess')
      <4>1. KeptIn(stored, sess) => KeptIn(stored, sess')
        BY <1>1, <3>1, RewordedIsKept
      <4>2. KeptIn(stored, sess') => KeptIn(stored, sess)'
        BY <2>1 DEF KeptIn
      <4>3. New(sess) => New(sess')
        BY <1>1, <1>6a, <3>1
      <4> QED BY <1>3, <4>1, <4>2, <4>3
    <3>2. CASE LoopAppends(Words) /\ lpc \in {"complete", "caution", "append", "calls"} /\ sess' # sess
      <4>1. Words \in Seq(Message)
        BY <3>2, WordsAreMessages
      <4>2. /\ sess' \in Seq(Message) /\ Len(sess') = Len(sess) /\ sessArr.id # 0
            /\ \A i \in 1..Len(sess) : sess'[i] = sess[i] \/ i > Len(messages)
        BY <3>2, <4>1, LoopAppendsFacts
      <4>3. Len(messages) >= 2 /\ Len(messages) \in Nat
        BY <3>2, LoopFacts DEF Counters
      <4>4. New(sess) /\ Len(sess) >= 2
        BY <1>3, <2>2, <4>2 DEF New
      <4>5. sess'[2] = sess[2]
        <5>1. 2 \in 1..Len(sess) /\ ~(2 > Len(messages))
          BY <1>1, <4>3, <4>4
        <5> QED BY <4>2, <5>1
      <4>6. New(sess')
        BY <1>1, <1>5, <4>2, <4>4, <4>5
      <4> QED BY <4>6
    <3>3. Compact => Reworded(sess, sess')
      BY CompactFacts
    <3>4. Asks => Reworded(sess, sess')
      BY AskFacts
    <3>5. sess' = sess => Reworded(sess, sess')
      BY <1>1, LeftAlone
    <3> QED BY <1>9, <3>1, <3>2, <3>3, <3>4, <3>5, LoopStepOnSlices DEF sliceVars
  <2>4. sessArr'.id # 0 => New(sess')
    BY <1>3, <2>1, <2>2, <2>3
  <2>5. \A k \in DOMAIN events' : events'[k].type = "compaction" => New(events'[k].context)
    <3>1. CASE \E e \in Event : Added(e) /\ Announces(e)
      <4>1. PICK e \in Event : Added(e) /\ Announces(e)
        BY <3>1
      <4>2. e.type = "compaction" => New(e.context)
        <5> SUFFICES ASSUME e.type = "compaction" PROVE New(e.context)
          OBVIOUS
        <5>1. Compact /\ e.context = messages'
          BY <4>1 DEF Announces
        <5>2. Len(messages') >= 2 /\ <<"summary", turn>> \in messages'[2].text
          BY <5>1, CompactFacts DEF Keeps
        <5>3. <<"summary", turn>> \notin TextsOf(stored)
          <6>1. lpc \in InTurn
            BY <5>1 DEF Compact, InTurn
          <6>2. turn \in Nat
            BY Bounds DEF TypeOK
          <6>3. \A x \in TextsOf(stored) : x[1] = "summary" => x[2] < turn
            BY <6>1 DEF SummariesAreNew
          <6> QED BY <6>2, <6>3
        <5> QED BY <5>1, <5>2, <5>3 DEF New
      <4>3. \A k \in DOMAIN events' : k \in 1..Len(events) \/ k = Len(events) + 1
        BY <1>1, <4>1 DEF Added
      <4>4. \A k \in 1..Len(events) : events[k] \in Event /\ Passed(events[k], events'[k])
        BY <4>1, AddedFacts
      <4>5. \A k \in 1..Len(events) : events'[k].type = "compaction" => New(events'[k].context)
        BY <1>2, <1>6b, <4>4
      <4> QED BY <4>1, <4>2, <4>3, <4>5 DEF Added
    <3>2. CASE Asks
      <4>1. /\ DOMAIN events' = 1..Len(events)
            /\ \A k \in 1..Len(events) : events[k] \in Event /\ Passed(events[k], events'[k])
        BY <1>1, <3>2, AskFacts
      <4> QED BY <1>2, <1>6b, <4>1
    <3> QED BY <1>6, <1>9, <3>1, <3>2, LoopStepOnChannel
  <2> QED BY <1>4, <2>1, <2>3, <2>4, <2>5
<1>10. CASE Consume
  <2>1. Taken /\ events # <<>> /\ events[1] \in Event /\ run' = run
    BY <1>10, ConsumeFacts DEF Taken, loopVars
  <2>2. ~Drained /\ Len(events) >= 1
    BY <2>1 DEF Drained, Taken
  <2>3. \A k \in DOMAIN events' : k + 1 \in 1..Len(events) /\ events'[k] = events[k + 1]
    BY <1>1, <2>1 DEF Taken
  <2>4. \A k \in DOMAIN events' : events'[k].type = "compaction" => New(events'[k].context)
    BY <1>2, <2>3
  <2>5. CASE Said(events[1]) \in Message /\ SessionAppends(Said(events[1])) /\ stored' = stored
    <3>1. /\ sess' \in Seq(Message) /\ Len(sess') = Len(sess) + 1
          /\ \A i \in 1..Len(sess) : sess'[i] = sess[i]
          /\ sessArr' \in {sessArr, Private}
      BY <2>5, SessionAppendsFacts
    <3>2. New(sess) => New(sess')
      <4> SUFFICES ASSUME New(sess) PROVE New(sess')
        OBVIOUS
      <4>1. Len(sess) >= 2
        BY DEF New
      <4>2. sess'[2] = sess[2] /\ Len(sess') \in Nat /\ Len(sess) <= Len(sess')
        BY <1>1, <3>1, <4>1
      <4> QED BY <1>1, <1>5, <4>2
    <3>3. TextsOf(sess) \subseteq TextsOf(sess')
      <4>1. \A i \in DOMAIN sess : i \in DOMAIN sess' /\ sess'[i] = sess[i]
        BY <1>1, <3>1
      <4> QED BY <4>1 DEF TextsOf, Elements
    <3>4. sessArr'.id # 0 => sessArr.id # 0
      BY <3>1 DEF Private
    <3>5. KeptIn(stored, sess) => KeptIn(stored, sess)'
      BY <2>1, <2>5, <3>3 DEF KeptIn
    <3> QED BY <1>3, <1>4, <2>2, <2>4, <2>5, <3>2, <3>4, <3>5
  <2>6. CASE events[1].type = "compaction" /\ sess' = events[1].context /\ stored' = stored
    BY <1>2, <1>4, <2>2, <2>4, <2>6
  <2>7. CASE stored' = stored /\ UNCHANGED sliceVars
    <3>1. sess' = sess /\ sessArr' = sessArr /\ TextsOf(sess') = TextsOf(sess)
      BY <2>7 DEF sliceVars
    <3>2. KeptIn(stored, sess)' = KeptIn(stored, sess)
      BY <2>1, <2>7, <3>1 DEF KeptIn
    <3> QED BY <1>3, <1>4, <2>2, <2>4, <2>7, <3>1, <3>2
  <2>8. CASE events[1].type = "exit" /\ stored' = sess /\ UNCHANGED sliceVars
    <3>1. Len(events) = 1 /\ lpc = "idle" /\ lpc' = lpc /\ turn' = turn
      BY <2>1, <2>2, <2>8 DEF ExitComesLast, Taken, loopVars
    <3>2. events' = <<>> /\ DOMAIN events' = {}
      BY <2>1, <3>1 DEF Taken
    <3>3. Drained' /\ lpc' \notin InTurn
      BY <3>1, <3>2 DEF Drained, InTurn
    <3>4. TextsOf(stored)' = TextsOf(sess) /\ TextsOf(sess)' = TextsOf(sess)
      BY <2>8 DEF TextsOf, Elements, sliceVars
    <3>5. \A x \in TextsOf(sess) : x[1] = "summary" => x[2] <= turn
      <4>1. Asked = turn
        BY <3>1 DEF Asked
      <4>2. Mentions(sess, turn)
        BY <4>1 DEF NothingFromTheFuture
      <4> QED BY <4>2 DEF Mentions, Known, TextsOf, Elements
    <3> QED BY <3>1, <3>2, <3>3, <3>4, <3>5 DEF SummariesAreNew, KeptIn
  <2> QED BY <1>10, <2>5, <2>6, <2>7, <2>8, ConsumeFacts
<1> QED BY <1>7, <1>8, <1>9, <1>10 DEF Next

\* What a session file says goes only with a summary in exchange, but for images.
LEMMA HistoryStep ==
  ASSUME TypeOK, ExitComesLast, SummariesAreNew, [Next]_vars
  PROVE  \/ \A x \in TextsOf(stored) \ TextsOf(stored') :
              x[1] = "image" /\ run \notin Seeing /\ <<"unseen", x[2]>> \in TextsOf(stored')
         \/ \E x \in TextsOf(stored') \ TextsOf(stored) : x[1] = "summary"
<1>1. stored' \in {stored, sess}
  <2>1. CASE Consume
    BY <2>1, ConsumeFacts
  <2>2. CASE LoopStep
    BY <2>2, LoopStepOnSlices
  <2> QED BY <2>1, <2>2 DEF Next, Begin, Cancel, vars
<1>2. CASE stored' = stored
  BY <1>2
<1>3. CASE stored' = sess
  <2>1. CASE KeptIn(stored, sess)
    BY <1>3, <2>1 DEF KeptIn
  <2>2. CASE Summarised(sess)
    <3>1. 2 \in DOMAIN sess
      <4>1. sess \in Seq(Message) /\ Len(sess) >= 2
        BY <2>2 DEF TypeOK, Summarised
      <4> QED BY <4>1
    <3>2. sess[2].text \subseteq TextsOf(sess)
      BY <3>1 DEF TextsOf, Elements
    <3> QED BY <1>3, <2>2, <3>2 DEF Summarised
  <2> QED BY <2>1, <2>2 DEF SummariesAreNew
<1> QED BY <1>1, <1>2, <1>3

-----------------------------------------------------------------------------
(***************************************************************************)
(* Arrays                                                                  *)
(***************************************************************************)

\* An event that is sent becomes the latest compaction if it is one.
LEMMA LatestWhenAdded ==
  ASSUME TypeOK, NEW e \in Event, Added(e), NEW j \in Nat
  PROVE  /\ e.type # "compaction" => (Latest(j)' <=> Latest(j)) /\ (Latest(j) => j <= Len(events))
         /\ e.type = "compaction" => (Latest(j)' <=> j = Len(events) + 1)
<1>1. Len(events) \in Nat /\ DOMAIN events = 1..Len(events)
  BY DEF TypeOK
<1>2. /\ Len(events') = Len(events) + 1 /\ DOMAIN events' = 1..Len(events) + 1
      /\ \A i \in 1..Len(events) : events'[i].type = events[i].type
      /\ events'[Len(events) + 1] = e
  BY AddedFacts
<1>3. \A i \in DOMAIN events' : i \in DOMAIN events \/ i = Len(events) + 1
  BY <1>1, <1>2
<1>4. DOMAIN events \subseteq DOMAIN events' /\ Len(events) + 1 \in DOMAIN events'
      /\ Len(events) + 1 \notin DOMAIN events
      /\ \A i \in DOMAIN events : events'[i].type = events[i].type /\ i < Len(events) + 1
  BY <1>1, <1>2
<1>5. CASE e.type # "compaction"
  <2>1. Compaction(j)' <=> Compaction(j)
    BY <1>2, <1>3, <1>4, <1>5 DEF Compaction
  <2>2. (\A k \in DOMAIN events : j < k => events[k].type # "compaction")
        <=> (\A k \in DOMAIN events' : j < k => events'[k].type # "compaction")
    BY <1>2, <1>3, <1>4, <1>5
  <2>3. Latest(j) => j <= Len(events)
    BY <1>1 DEF Latest, Compaction
  <2> QED BY <1>5, <2>1, <2>2, <2>3 DEF Latest
<1>6. CASE e.type = "compaction"
  <2>1. ASSUME Latest(j)' PROVE j = Len(events) + 1
    <3>1. ~(j < Len(events) + 1)
      BY <1>2, <1>4, <1>6, <2>1 DEF Latest
    <3>2. j = 0 \/ j \in DOMAIN events'
      BY <2>1 DEF Latest, Compaction
    <3> QED BY <1>1, <1>2, <3>1, <3>2
  <2>2. ASSUME j = Len(events) + 1 PROVE Latest(j)'
    BY <1>2, <1>6, <2>2 DEF Latest, Compaction
  <2> QED BY <1>6, <2>1, <2>2
<1> QED BY <1>5, <1>6

\* It stays what it is when its messages are changed.
LEMMA LatestWhenPassed ==
  ASSUME TypeOK, events' \in Seq(Event), Len(events') = Len(events),
         \A i \in 1..Len(events) : Passed(events[i], events'[i]),
         NEW j
  PROVE  Latest(j)' <=> Latest(j)
<1>1. DOMAIN events' = 1..Len(events) /\ DOMAIN events = 1..Len(events)
  BY DEF TypeOK
<1>2. \A i \in 1..Len(events) : events'[i].type = events[i].type
  BY DEF Passed
<1> QED BY <1>1, <1>2 DEF Latest, Compaction

\* When the first event is taken, the others move up.
LEMMA LatestWhenTaken ==
  ASSUME TypeOK, Taken, NEW j \in Nat
  PROVE  /\ j >= 1 => (Latest(j)' <=> Latest(j + 1))
         /\ Latest(0)' <=> IF events[1].type = "compaction" THEN Latest(1) ELSE Latest(0)
         /\ Latest(j) => j <= Len(events)
<1>1. Len(events) \in Nat /\ DOMAIN events = 1..Len(events)
  BY DEF TypeOK
<1>2. /\ DOMAIN events' = 1..Len(events) - 1 /\ Len(events) >= 1
      /\ \A i \in 1..Len(events) - 1 : events'[i] = events[i + 1]
  BY DEF Taken
<1>3. \A i \in DOMAIN events' : i + 1 \in DOMAIN events /\ events'[i] = events[i + 1] /\ i \in Nat
  BY <1>1, <1>2
<1>4. \A i \in DOMAIN events : i # 1 => i - 1 \in DOMAIN events' /\ events[i] = events'[i - 1]
  BY <1>1, <1>2
<1>5. ASSUME NEW l \in Nat
      PROVE  (\A k \in DOMAIN events' : l < k => events'[k].type # "compaction")
             <=> (\A k \in DOMAIN events : l + 1 < k => events[k].type # "compaction")
  <2>1. ASSUME \A k \in DOMAIN events' : l < k => events'[k].type # "compaction",
               NEW k \in DOMAIN events, l + 1 < k
        PROVE  events[k].type # "compaction"
    <3>1. k - 1 \in DOMAIN events' /\ events[k] = events'[k - 1] /\ l < k - 1
      BY <1>1, <1>4, <2>1
    <3> QED BY <2>1, <3>1
  <2>2. ASSUME \A k \in DOMAIN events : l + 1 < k => events[k].type # "compaction",
               NEW k \in DOMAIN events', l < k
        PROVE  events'[k].type # "compaction"
    <3>1. k + 1 \in DOMAIN events /\ events'[k] = events[k + 1] /\ l + 1 < k + 1
      BY <1>3, <2>2
    <3> QED BY <2>2, <3>1
  <2> QED BY <2>1, <2>2
<1>6. ASSUME j >= 1 PROVE Latest(j)' <=> Latest(j + 1)
  <2>1. Compaction(j)' <=> Compaction(j + 1)
    <3>1. j \in DOMAIN events' <=> j + 1 \in DOMAIN events
      BY <1>1, <1>2, <1>6
    <3> QED BY <1>3, <3>1 DEF Compaction
  <2> QED BY <1>5, <1>6, <2>1 DEF Latest
<1>7. Latest(0)' <=> \A k \in DOMAIN events : 1 < k => events[k].type # "compaction"
  <2>1. Latest(0)' <=> \A k \in DOMAIN events' : 0 < k => events'[k].type # "compaction"
    BY DEF Latest
  <2>2. 0 \in Nat /\ 0 + 1 = 1
    OBVIOUS
  <2> QED BY <1>5, <2>1, <2>2
<1>8. 1 \in DOMAIN events /\ \A k \in DOMAIN events : k = 1 \/ 1 < k
  BY <1>1, <1>2
<1>9. Latest(0)' <=> IF events[1].type = "compaction" THEN Latest(1) ELSE Latest(0)
  <2>1. CASE events[1].type = "compaction"
    BY <1>7, <1>8, <2>1 DEF Latest, Compaction
  <2>2. CASE events[1].type # "compaction"
    <3>1. Latest(0) <=> \A k \in DOMAIN events : events[k].type # "compaction"
      BY <1>1 DEF Latest
    <3> QED BY <1>7, <1>8, <2>2, <3>1
  <2> QED BY <2>1, <2>2
<1>10. Latest(j) => j <= Len(events)
  BY <1>1 DEF Latest, Compaction
<1> QED BY <1>6, <1>9, <1>10

\* Each compaction makes an array of its own.
LEMMA ArraysStep == TypeOK /\ Counters /\ ExitComesLast /\ ArraysAreOrdered /\ Next => ArraysAreOrdered'
<1> SUFFICES ASSUME TypeOK, Counters, ExitComesLast, ArraysAreOrdered, Next PROVE ArraysAreOrdered'
  OBVIOUS
<1> DEFINE Before(id, t, pc) ==
             id <= t /\ (pc \in {"complete", "append", "compact", "overflow"} => id < t)
<1>1. /\ events \in Seq(Event) /\ DOMAIN events = 1..Len(events) /\ Len(events) \in Nat
      /\ loopArr.id \in Nat /\ sessArr.id \in Nat /\ turn \in Nat
  BY Bounds DEF TypeOK
<1>2. /\ turn' \in Nat /\ turn <= turn'
      /\ lpc' \in {"complete", "append", "compact", "overflow"} =>
           lpc \in {"complete", "append", "compact", "overflow"} \/ turn < turn'
  <2>1. lpc' \in {"complete", "append", "compact", "overflow"} =>
           lpc \in {"complete", "append", "compact", "overflow"} \/ turn' = turn + 1
    BY DEF Next, Begin, Cancel, LoopStep, TopOfTurn, Completes, Mistake, Caution,
           CompletionFails,
           Overflows, AppendAnswer, Compact, CompactionFails, CallSucceeds, CallFails, AnswerFailed,
           Answered, CallHangs, CallsDone, Exit, AfterCompaction, LGoto, Consume, OnComplete,
           OnToolResult, OnCompaction, OnLogged, OnExit, OnExitSaveFails, Receive, loopVars
  <2> QED BY <1>1, <2>1, TurnStep
<1>3. ASSUME NEW id \in Nat, Before(id, turn, lpc) PROVE Before(id, turn', lpc')
  BY <1>1, <1>2, <1>3
<1> DEFINE Arr(i) == events[i].arr.id
<1>4. /\ Before(sessArr.id, turn, lpc) /\ Before(loopArr.id, turn, lpc)
      /\ \A k \in DOMAIN events : Compaction(k) =>
           /\ Arr(k) \in Nat /\ sessArr.id < Arr(k) /\ Before(Arr(k), turn, lpc)
           /\ \A i \in DOMAIN events : i < k /\ Compaction(i) => Arr(i) < Arr(k)
           /\ loopArr.id # 0 => Arr(k) <= loopArr.id
           /\ Latest(k) => Len(events[k].context) <= Len(messages)
  <2>1. \A k \in DOMAIN events : Compaction(k) => Arr(k) \in Nat
    BY <1>1, EventsAreTyped, Bounds DEF Compaction
  <2> QED BY <2>1 DEF ArraysAreOrdered
<1>5. ASSUME /\ Before(sessArr'.id, turn', lpc') /\ Before(loopArr'.id, turn', lpc')
             /\ \A k \in DOMAIN events' : Compaction(k)' =>
                  /\ sessArr'.id < events'[k].arr.id /\ Before(events'[k].arr.id, turn', lpc')
                  /\ \A i \in DOMAIN events' : i < k /\ Compaction(i)' =>
                       events'[i].arr.id < events'[k].arr.id
                  /\ loopArr'.id # 0 => events'[k].arr.id <= loopArr'.id
                  /\ Latest(k)' => Len(events'[k].context) <= Len(messages')
      PROVE  ArraysAreOrdered'
  BY <1>5 DEF ArraysAreOrdered
<1>6. Before(sessArr.id, turn', lpc') /\ Before(loopArr.id, turn', lpc') /\ Before(0, turn', lpc')
  <2>1. Before(0, turn, lpc)
    BY <1>1, <1>4
  <2> QED BY <1>1, <1>3, <1>4, <2>1
<1>7. \A k \in DOMAIN events : Compaction(k) => Before(Arr(k), turn', lpc')
  BY <1>3, <1>4
<1> HIDE DEF Before
<1>8. Private.id = 0
  BY DEF Private
<1>a. Len(messages) \in Nat /\ (UNCHANGED sliceVars => Len(messages') = Len(messages))
  BY DEF TypeOK, sliceVars
<1>b. ASSUME LoopStep \/ Consume, ~Compact PROVE Len(messages') \in Nat /\ Len(messages) <= Len(messages')
  <2>1. CASE LoopAppends(Words) /\ lpc \in {"complete", "caution", "append", "calls"}
    <3>1. Words \in Seq(Message) /\ Len(Words) \in Nat
      BY <2>1, WordsAreMessages
    <3>2. Len(messages') = Len(messages) + Len(Words)
      BY <2>1, <3>1, LoopAppendsFacts
    <3> QED BY <1>a, <3>1, <3>2
  <2>2. CASE Said(events[1]) \in Message /\ SessionAppends(Said(events[1]))
    BY <1>a, <2>2, SessionAppendsFacts
  <2>3. CASE LoopStep
    <3>1. CASE Asks
      BY <1>a, <3>1, AskFacts DEF Reworded
    <3> QED BY <1>a, <1>b, <2>1, <2>3, <3>1, LoopStepOnSlices
  <2>4. CASE Consume
    BY <1>a, <2>2, <2>4, ConsumeFacts
  <2> QED BY <1>b, <2>3, <2>4
<1>c. ASSUME Len(messages') \in Nat, Len(messages) <= Len(messages'),
             NEW k \in DOMAIN events, Compaction(k), Latest(k)
      PROVE  Len(events[k].context) <= Len(messages')
  <2>1. Len(events[k].context) \in Nat
    <3>1. events[k].context \in Seq(Message)
      BY <1>1, <1>c, EventsAreTyped DEF Compaction
    <3> QED BY <3>1
  <2> QED BY <1>4, <1>a, <1>c, <2>1
<1>d. ASSUME NEW k \in DOMAIN events, Passed(events[k], events'[k])
      PROVE  /\ events'[k].type = events[k].type
             /\ Compaction(k) => /\ events'[k].arr = events[k].arr
                                /\ Len(events'[k].context) = Len(events[k].context)
  BY <1>d DEF Passed, Reworded, Compaction
<1>9. CASE Begin
  <2>1. events' = <<>> /\ sessArr'.id = 0 /\ loopArr'.id = 0 /\ DOMAIN events' = {}
    BY <1>8, <1>9 DEF Begin
  <2> QED BY <1>5, <1>6, <2>1
<1>10. CASE /\ events' = events /\ sessArr' = sessArr /\ loopArr' \in {loopArr, Private}
            /\ Len(messages') \in Nat /\ Len(messages) <= Len(messages')
  <2>1. \A k : (Compaction(k)' <=> Compaction(k)) /\ (Latest(k)' <=> Latest(k))
    BY <1>10 DEF Compaction, Latest
  <2> QED BY <1>4, <1>5, <1>6, <1>7, <1>8, <1>10, <2>1
<1>11. CASE LoopStep
  <2>1. sessArr' = sessArr
    BY <1>11, LoopStepOnSlices
  <2>2. loopArr' \in {loopArr, Private} \/ Compact
    <3>1. CASE LoopAppends(Words) /\ lpc \in {"complete", "caution", "append", "calls"}
      BY <3>1, WordsAreMessages, LoopAppendsFacts
    <3> QED BY <1>11, <3>1, LoopStepOnSlices, AskFacts DEF sliceVars
  <2>3. CASE events' = events /\ ~Compact
    BY <1>10, <1>11, <1>b, <2>1, <2>2, <2>3
  <2>4. CASE \E e \in Event : Added(e) /\ Announces(e)
    <3>1. PICK e \in Event : Added(e) /\ Announces(e)
      BY <2>4
    <3>a. PICK n \in Nat : n = Len(events) + 1
      BY <1>1
    <3>2. /\ \A k \in DOMAIN events' : k \in DOMAIN events \/ k = n
          /\ \A k \in DOMAIN events : k < n /\ k \in Nat /\ k \in DOMAIN events'
                                      /\ Passed(events[k], events'[k])
          /\ events'[n] = e
      BY <1>1, <3>a, <3>1, AddedFacts
    <3>3. \A k \in DOMAIN events :
            /\ Compaction(k)' <=> Compaction(k)
            /\ Compaction(k) => /\ events'[k].arr = events[k].arr
                               /\ Len(events'[k].context) = Len(events[k].context)
      BY <1>d, <3>2 DEF Compaction
    <3>4. CASE e.type # "compaction"
      <4>1. ~Compact
        BY <3>1, <3>4
           DEF Announces, Compact, Completes, CallSucceeds, AnswerFailed, Exit, Mistake,
                          CallFails
      <4>2. ~Compaction(n)'
        BY <3>2, <3>4 DEF Compaction
      <4>3. \A k \in DOMAIN events : Latest(k)' <=> Latest(k)
        BY <3>1, <3>2, <3>4, LatestWhenAdded
      <4>4. loopArr' \in {loopArr, Private}
        BY <2>2, <4>1
      <4>5. \A k \in DOMAIN events : Compaction(k) /\ Latest(k) =>
              Len(events[k].context) <= Len(messages')
        BY <1>11, <1>b, <1>c, <4>1
      <4>6. loopArr'.id # 0 => loopArr'.id = loopArr.id
        BY <1>8, <4>4
      <4> QED BY <1>4, <1>5, <1>6, <1>7, <2>1, <3>2, <3>3, <4>2, <4>3, <4>5, <4>6
    <3>5. CASE e.type = "compaction"
      <4>1. Compact /\ e.arr = loopArr'
        BY <3>1, <3>5 DEF Announces
      <4>2. loopArr'.id = turn /\ turn' = turn
        BY <4>1, CompactFacts
      <4>3. lpc' \notin {"complete", "append", "compact", "overflow"}
        BY <4>1 DEF Compact, LGoto, AfterCompaction
      <4>4. Before(loopArr'.id, turn', lpc')
        BY <1>1, <4>2, <4>3 DEF Before
      <4>5. lpc \in {"complete", "append", "compact", "overflow"}
        BY <4>1 DEF Compact
      <4>6. sessArr.id < turn /\ \A k \in DOMAIN events : Compaction(k) => Arr(k) < turn
        BY <1>4, <4>5 DEF Before
      <4>7. \A k \in DOMAIN events : ~Latest(k)'
        BY <3>a, <3>1, <3>2, <3>5, LatestWhenAdded
      <4>8. ~(n < n) /\ \A k \in DOMAIN events : ~(n < k)
        BY <1>1, <3>a
      <4>9. Len(messages') <= Len(messages') /\ e.context = messages' /\ turn <= turn
        <5>1. Len(messages') \in Nat
          BY <4>1, CompactFacts
        <5> QED BY <1>1, <3>1, <3>5, <5>1 DEF Announces
      <4>10. \A k \in DOMAIN events : Compaction(k) => Arr(k) <= turn
        BY <1>1, <1>4, <4>6
      <4> QED BY <1>4, <1>5, <1>6, <1>7, <2>1, <3>2, <3>3, <4>1, <4>2, <4>4, <4>6, <4>7, <4>8,
                 <4>9, <4>10
    <3> QED BY <3>4, <3>5
  <2>5. Compact => \E e \in Event : Added(e) /\ Announces(e)
    BY CompactFacts DEF Announces
  <2>6. CASE Asks
    <3>1. /\ DOMAIN events' = DOMAIN events /\ UNCHANGED <<loopArr, sessArr>>
          /\ Len(messages') = Len(messages)
          /\ \A k \in DOMAIN events : Passed(events[k], events'[k])
      BY <1>1, <2>6, AskFacts DEF Reworded
    <3>2. \A k \in DOMAIN events :
            /\ events'[k].type = events[k].type
            /\ Compaction(k)' <=> Compaction(k)
            /\ Compaction(k) => /\ events'[k].arr = events[k].arr
                               /\ Len(events'[k].context) = Len(events[k].context)
      BY <1>d, <3>1 DEF Compaction
    <3>3. \A k \in DOMAIN events : Compaction(k) => (Latest(k)' <=> Latest(k))
      BY <3>1, <3>2 DEF Latest
    <3> QED BY <1>4, <1>5, <1>6, <1>7, <3>1, <3>2, <3>3
  <2> QED BY <1>11, <2>3, <2>4, <2>5, <2>6, LoopStepOnChannel
<1>12. CASE Consume
  <2>1. Taken
    BY <1>12, ConsumeFacts
  <2>2. \A k \in DOMAIN events' : k + 1 \in DOMAIN events /\ events'[k] = events[k + 1] /\ k \in Nat
                                  /\ k >= 1 /\ 1 < k + 1
    BY <1>1, <2>1 DEF Taken
  <2>3. \A k \in DOMAIN events' : (Compaction(k)' <=> Compaction(k + 1))
                                  /\ (Latest(k)' <=> Latest(k + 1))
    BY <2>1, <2>2, LatestWhenTaken DEF Compaction
  <2>5. loopArr' = loopArr /\ (\/ sessArr' \in {sessArr, Private}
                               \/ sessArr' = events[1].arr /\ events[1].type = "compaction")
    <3>1. CASE Said(events[1]) \in Message /\ SessionAppends(Said(events[1]))
      BY <3>1, SessionAppendsFacts
    <3> QED BY <1>12, <3>1, ConsumeFacts DEF sliceVars
  <2>6. 1 \in DOMAIN events
    BY <1>1, <2>1 DEF Taken
  <2>7. Before(sessArr'.id, turn', lpc')
    BY <1>6, <1>7, <1>8, <2>5, <2>6 DEF Compaction
  <2>8. \A k \in DOMAIN events' : Compaction(k)' => sessArr'.id < events'[k].arr.id
    <3>1. CASE sessArr' \in {sessArr, Private}
      <4>1. \A k \in DOMAIN events : Compaction(k) => 0 < Arr(k) /\ sessArr.id < Arr(k)
        BY <1>1, <1>4
      <4> QED BY <1>8, <2>2, <2>3, <3>1, <4>1
    <3>2. CASE sessArr' = events[1].arr /\ events[1].type = "compaction"
      BY <1>4, <2>2, <2>6, <3>2 DEF Compaction
    <3> QED BY <2>5, <3>1, <3>2
  <2>9. ~Compact
    <3>1. ASSUME Compact PROVE FALSE
      <4>1. Len(events') = Len(events) + 1
        BY <3>1, CompactFacts DEF Added
      <4> QED BY <2>1, <4>1 DEF Taken
    <3> QED BY <3>1
  <2>10. \A k \in DOMAIN events : Compaction(k) /\ Latest(k) =>
          Len(events[k].context) <= Len(messages')
    BY <1>12, <1>b, <1>c, <2>9
  <2> QED BY <1>4, <1>5, <1>6, <1>7, <2>2, <2>3, <2>5, <2>7, <2>8, <2>10
<1> QED BY <1>9, <1>10, <1>11, <1>12 DEF Next, Cancel, chanVars, sliceVars

-----------------------------------------------------------------------------
(***************************************************************************)
(* The shared array                                                        *)
(***************************************************************************)

\* What the loop knows of the array, it still knows, whatever becomes of the images.
Plain(m) == \A x \in m.text : x[1] # "image"

ArrayKept ==
  /\ \A p \in Nat : Gap(p) => Gap(p)'
  /\ \A p \in Nat : \A m : Plain(m) /\ Place(p, m) => Place(p, m)'

\* The model may see what is no image.
LEMMA PlainIsShown ==
  ASSUME NEW m \in Message, Plain(m)
  PROVE  Unseen(m) = m /\ Shown[m] = m
<1>1. {IF x[1] = "image" THEN <<"unseen", x[2]>> ELSE x : x \in m.text} = m.text
  BY DEF Plain
<1>2. Unseen(m) = m
  BY <1>1 DEF Unseen, Message
<1> QED BY <1>2 DEF Shown

\* The session gets no images from the loop.
LEMMA SaidIsPlain == \A e : Plain(Said(e))
BY DEF Plain, Said, Answer, ToolResult

\* As long as the array keeps what it has, the session gets where it would have got.
LEMMA ReachesKept ==
  ASSUME ArrayKept, NEW p \in Nat, NEW q \in Nat, NEW e, Reaches(p, q, e)
  PROVE  Reaches(p, q, e)'
<1>1. CASE Appends(e)
  <2>1. q = p + 1 \/ (q > p /\ Gap(p)')
    BY <1>1 DEF Reaches, ArrayKept
  <2>2. PICK m : m = Said(e) /\ m = Said(e)' /\ Plain(m)
    BY SaidIsPlain DEF Said
  <2>3. Place(q, m)'
    BY <1>1, <2>2 DEF Reaches, ArrayKept
  <2>4. Appends(e)' /\ Place(q, Said(e))'
    BY <1>1, <2>2, <2>3 DEF Appends
  <2> QED BY <2>1, <2>4 DEF Reaches
<1>2. CASE ~Appends(e)
  BY <1>2 DEF Reaches, Appends
<1> QED BY <1>1, <1>2

\* An event whose messages are changed appends what it did.
LEMMA StillReaches ==
  ASSUME NEW e, NEW d, Passed(e, d), NEW p, NEW q, Reaches(p, q, e)'
  PROVE  Reaches(p, q, d)'
<1>1. d = e \/ (e.type = "compaction" /\ d.type = "compaction")
  BY DEF Passed
<1> QED BY <1>1 DEF Reaches, Appends

\* A step of the loop that puts no event into the channel, and one that does.
LEMMA InStepKept ==
  ASSUME TypeOK, ArrayKept, Len(events') = Len(events),
         \A i \in 1..Len(events) : Passed(events[i], events'[i]),
         NEW j \in 0..Len(events),
         Len(Base(j)') = Len(Base(j)),
         NEW a \in Nat, a = Ahead, Ahead' = a \/ Gap(a)',
         InStep(j)
  PROVE  InStep(j)'
<1>1. PICK at \in [j..Len(events) -> Nat] :
        /\ at[j] = Len(Base(j))
        /\ \A i \in j + 1..Len(events) : Reaches(at[i - 1], at[i], events[i])
        /\ at[Len(events)] = Ahead \/ Gap(at[Len(events)])
  BY DEF InStep
<1>2. Len(events) \in Nat /\ Len(events) \in j..Len(events)
  BY DEF TypeOK
<1>3. \A i \in j + 1..Len(events) : i \in j..Len(events) /\ i - 1 \in j..Len(events)
  BY <1>2
<1>4. ASSUME NEW i \in j + 1..Len(events') PROVE Reaches(at[i - 1], at[i], events[i])'
  <2>0. i \in j + 1..Len(events)
    BY <1>2
  <2>1. PICK p \in Nat, q \in Nat : p = at[i - 1] /\ q = at[i]
    BY <1>1, <1>3, <2>0
  <2>2. PICK e, d : e = events[i] /\ d = events'[i] /\ Passed(e, d)
    BY <1>2, <2>0
  <2>3. Reaches(p, q, e)'
    BY <1>1, <2>0, <2>1, <2>2, ReachesKept
  <2>4. Reaches(p, q, d)'
    BY <2>2, <2>3, StillReaches
  <2> QED BY <2>1, <2>2, <2>4
<1>5. PICK p \in Nat : p = at[Len(events)]
  BY <1>1, <1>2
<1>6. p = Ahead' \/ Gap(p)'
  BY <1>1, <1>5 DEF ArrayKept
<1>7. at[Len(events')] = Ahead' \/ Gap(at[Len(events)])'
  BY <1>5, <1>6
<1> QED BY <1>1, <1>4, <1>7 DEF InStep

\* The event the loop sends has its place behind all others.
LEMMA InStepAdded ==
  ASSUME TypeOK, ArrayKept, NEW e \in Event, Added(e), NEW j \in 0..Len(events),
         Len(Base(j)') = Len(Base(j)),
         NEW a \in Nat, a = Ahead, NEW b \in Nat, b = Ahead',
         IF Appends(e)
         THEN /\ b = a + 1 /\ Place(b, Said(e))'
              /\ \A p \in Nat : Gap(p) => p < a
         ELSE b = a \/ Gap(a)',
         InStep(j)
  PROVE  InStep(j)'
<1>1. PICK at \in [j..Len(events) -> Nat] :
        /\ at[j] = Len(Base(j))
        /\ \A i \in j + 1..Len(events) : Reaches(at[i - 1], at[i], events[i])
        /\ at[Len(events)] = Ahead \/ Gap(at[Len(events)])
  BY DEF InStep
<1>2. Len(events) \in Nat
  BY DEF TypeOK
<1>3. PICK n \in Nat : n = Len(events)
  BY <1>2
<1>4. /\ Len(events') = n + 1 /\ events'[n + 1] = e
      /\ \A i \in 1..n : Passed(events[i], events'[i])
  BY <1>3, AddedFacts
<1>5. PICK p \in Nat : p = at[n]
  BY <1>1, <1>3
<1>6. PICK q \in Nat : q = IF Appends(e) THEN b ELSE p
  OBVIOUS
<1> DEFINE to == [i \in j..n + 1 |-> IF i <= n THEN at[i] ELSE q]
<1>7. to \in [j..Len(events') -> Nat]
  BY <1>1, <1>3, <1>4, <1>6
<1>8. to[j] = at[j] /\ to[n] = p /\ to[n + 1] = q
      /\ \A i \in j + 1..n : to[i] = at[i] /\ to[i - 1] = at[i - 1]
  BY <1>3, <1>5
<1> HIDE DEF to
<1>9. to[j] = Len(Base(j)')
  BY <1>1, <1>8
<1>10. ASSUME NEW i \in j + 1..n PROVE Reaches(to[i - 1], to[i], events[i])'
  <2>0. i \in j..Len(events) /\ i - 1 \in j..Len(events)
    BY <1>3
  <2>1. PICK r \in Nat, s \in Nat : r = at[i - 1] /\ s = at[i]
    BY <1>1, <2>0
  <2>2. PICK f, d : f = events[i] /\ d = events'[i] /\ Passed(f, d)
    BY <1>3, <1>4
  <2>3. Reaches(r, s, f)'
    BY <1>1, <1>3, <2>1, <2>2, ReachesKept
  <2>4. Reaches(r, s, d)'
    BY <2>2, <2>3, StillReaches
  <2> QED BY <1>8, <2>1, <2>2, <2>4
<1>11. Reaches(p, q, e)'
  <2>1. CASE Appends(e)
    <3>1. q = b /\ Place(b, Said(e))' /\ (p = a \/ Gap(p))
      BY <1>1, <1>3, <1>5, <1>6, <2>1
    <3>2. q = p + 1 \/ (q > p /\ Gap(p)')
      BY <2>1, <3>1 DEF ArrayKept
    <3>3. (Appends(e))' /\ Said(e)' = Said(e)
      BY <2>1 DEF Appends, Said
    <3> QED BY <3>1, <3>2, <3>3 DEF Reaches
  <2>2. CASE ~Appends(e)
    <3>1. q = p /\ ~(Appends(e))'
      BY <1>6, <2>2 DEF Appends
    <3> QED BY <3>1 DEF Reaches
  <2> QED BY <2>1, <2>2
<1>12. Reaches(to[(n + 1) - 1], to[n + 1], events[n + 1])'
  BY <1>4, <1>8, <1>11
<1>13. \A i \in j + 1..Len(events') : Reaches(to[i - 1], to[i], events[i])'
  <2>1. \A i \in j + 1..Len(events') : i \in j + 1..n \/ i = n + 1
    BY <1>4
  <2> QED BY <1>10, <1>12, <2>1
<1>14. q = Ahead' \/ Gap(q)'
  <2>1. CASE Appends(e)
    BY <1>6, <2>1
  <2>2. CASE ~Appends(e)
    BY <1>1, <1>3, <1>5, <1>6 DEF ArrayKept
  <2> QED BY <2>1, <2>2
<1>15. to[Len(events')] = Ahead' \/ Gap(to[Len(events)])'
  BY <1>4, <1>8, <1>14
<1> QED BY <1>7, <1>9, <1>13, <1>15 DEF InStep

\* The consumer takes an event.
LEMMA InStepTaken ==
  ASSUME TypeOK, Taken, messages' = messages, NEW j \in Nat, j < Len(events),
         NEW at, \A i \in j + 1..Len(events) : at[i] \in Nat,
         at[j + 1] = Len(Base(j)'),
         \A i \in j + 2..Len(events) : Reaches(at[i - 1], at[i], events[i]),
         at[Len(events)] = Ahead \/ Gap(at[Len(events)])
  PROVE  InStep(j)'
<1>1. PICK n \in Nat : n = Len(events) /\ n >= 1 /\ Len(events') = n - 1
                       /\ \A i \in 1..n - 1 : events'[i] = events[i + 1]
  BY DEF Taken
<1> DEFINE to == [i \in j..n - 1 |-> at[i + 1]]
<1>2. \A i \in j..n - 1 : i + 1 \in j + 1..n
  BY <1>1
<1>3. to \in [j..n - 1 -> Nat]
  BY <1>1, <1>2
<1>4. n - 1 \in j..n - 1 /\ j \in j..n - 1 /\ (n - 1) + 1 = n
  BY <1>1
<1>5. to[j] = at[j + 1] /\ to[n - 1] = at[n]
  BY <1>4
<1>6. \A i \in j + 1..n - 1 : /\ i \in j..n - 1 /\ i - 1 \in j..n - 1 /\ i + 1 \in j + 2..n
                              /\ i \in 1..n - 1 /\ (i - 1) + 1 = (i + 1) - 1
  BY <1>1
<1>7. \A i \in j + 1..n - 1 : to[i] = at[i + 1] /\ to[i - 1] = at[(i + 1) - 1]
  BY <1>6
<1> HIDE DEF to
<1>8. \A p, m : /\ Gap(p)' <=> Gap(p)
                /\ Place(p, m)' <=> Place(p, m)
  BY DEF Taken, loopVars, Gap, Place, Upcoming
<1>9. Ahead' = Ahead
  BY DEF Taken, loopVars, Ahead
<1>10. ASSUME NEW i \in j + 1..n - 1 PROVE Reaches(to[i - 1], to[i], events[i])'
  <2>1. PICK p, q, e : p = at[(i + 1) - 1] /\ q = at[i + 1] /\ e = events[i + 1]
    OBVIOUS
  <2>2. Reaches(p, q, e)
    BY <1>1, <1>6, <2>1
  <2>3. Reaches(p, q, e)'
    BY <1>8, <2>2 DEF Reaches, Appends, Said
  <2>4. to[i - 1] = p /\ to[i] = q /\ events'[i] = e
    BY <1>1, <1>6, <1>7, <2>1
  <2> QED BY <2>3, <2>4
<1>11. to[n - 1] = Ahead' \/ Gap(to[n - 1])'
  <2>1. PICK p : p = at[n]
    OBVIOUS
  <2>2. p = Ahead \/ Gap(p)
    BY <1>1, <2>1
  <2>3. p = Ahead' \/ Gap(p)'
    BY <1>8, <1>9, <2>2
  <2> QED BY <1>5, <2>1, <2>3
<1>12. \A i \in j + 1..Len(events') : Reaches(to[i - 1], to[i], events[i])'
  BY <1>1, <1>10
<1>13. to \in [j..Len(events') -> Nat] /\ to[j] = Len(Base(j)')
  BY <1>1, <1>3, <1>5
<1>14. to[Len(events')] = Ahead' \/ Gap(to[Len(events)])'
  BY <1>1, <1>11
<1> QED BY <1>12, <1>13, <1>14 DEF InStep

\* What the loop is about to append, and what it appended.
LEMMA ArrayFacts ==
  ASSUME TypeOK, Counters
  PROVE  /\ Ahead \in Nat /\ Len(messages) \in Nat
         /\ Len(messages) <= Ahead
         /\ \A p \in Nat : Gap(p) => p < Len(messages)
         /\ \A d, m : Upcoming(d, m) => d \in Nat /\ d >= 1 /\ d <= Ahead - Len(messages)
<1>1. Len(messages) \in Nat /\ call \in Nat /\ call >= 1
  BY Bounds DEF TypeOK
<1>2. Ahead = Len(messages) + 1 \/ Ahead = Len(messages) + (call - 1) \/ Ahead = Len(messages) + 0
  BY DEF Ahead
<1>3. Ahead \in Nat /\ Len(messages) <= Ahead
  BY <1>1, <1>2
<1>4. ASSUME NEW d, NEW m, Upcoming(d, m) PROVE d \in Nat /\ d >= 1 /\ d <= Ahead - Len(messages)
  <2>1. CASE lpc = "append" /\ d = 1
    BY <1>1, <2>1 DEF Ahead
  <2>2. CASE lpc \in {"calls", "answer", "hung"} /\ d \in 1..call - 1
    BY <1>1, <2>2 DEF Ahead
  <2> QED BY <1>4, <2>1, <2>2 DEF Upcoming
<1> QED BY <1>1, <1>3, <1>4 DEF Gap

\* A completion, and the result of a call, are announced before they are appended.
Tells == Completes \/ ((CallSucceeds \/ AnswerFailed) /\ Answered)

\* Which steps of the loop tell the session of a message.
LEMMA AnnouncedFacts ==
  ASSUME NEW e, Announces(e)
  PROVE  /\ Appends(e) <=> Tells
         /\ Completes => e.type = "complete" /\ Said(e) = Answer(turn, reply'.calls)
         /\ Answered /\ (CallSucceeds \/ AnswerFailed) =>
              e.type = "toolResult" /\ Said(e) = ToolResult(turn, call)
         /\ Compact <=> e.type = "compaction"
         /\ Exit <=> e.type = "exit"
<1> USE DEF LGoto
<1>1. CASE e.type = "complete" /\ Completes /\ e.turn = turn /\ e.calls = reply'.calls
  <2>1. Said(e) = Answer(turn, reply'.calls) /\ Appends(e) /\ Tells
    BY <1>1 DEF Said, Appends, Tells
  <2> QED BY <1>1, <2>1 DEF Completes, CallSucceeds, AnswerFailed, Compact, Exit
<1>2. CASE e.type = "toolResult" /\ Answered /\ (CallSucceeds \/ AnswerFailed)
           /\ e.turn = turn /\ e.call = call
  <2>1. Said(e) = ToolResult(turn, call) /\ Appends(e) /\ Tells
    BY <1>2 DEF Said, Appends, Tells
  <2> QED BY <1>2, <2>1 DEF Completes, CallSucceeds, AnswerFailed, Compact, Exit
<1>3. CASE e.type = "compaction" /\ Compact
  BY <1>3 DEF Appends, Tells, Completes, CallSucceeds, AnswerFailed, Compact, Exit
<1>4. CASE e.type = "exit" /\ Exit
  BY <1>4 DEF Appends, Tells, Completes, CallSucceeds, AnswerFailed, Compact, Exit
<1>5. CASE e.type = "mistake" /\ Mistake
  BY <1>5 DEF Appends, Tells, Completes, CallSucceeds, AnswerFailed, Compact, Exit, Mistake
<1>6. CASE e.type = "toolErr" /\ CallFails
  BY <1>6 DEF Appends, Tells, Completes, CallSucceeds, AnswerFailed, Answered, Compact, Exit,
              CallFails
<1> QED BY <1>1, <1>2, <1>3, <1>4, <1>5, <1>6 DEF Announces

\* A step that leaves the slices only adds to what is upcoming.
LEMMA QuietArray ==
  ASSUME TypeOK, Counters, LoopStep, UNCHANGED sliceVars, ~Compact
  PROVE  /\ \A d, m : Upcoming(d, m) => Upcoming(d, m)'
         /\ ~Tells => Ahead' = Ahead
         /\ Tells => Ahead' = Ahead + 1
         /\ \A e, d : Tells /\ Announces(e) /\ d = Ahead' - Len(messages) => Upcoming(d, Said(e))'
<1> USE DEF LGoto
<1>0. /\ Len(messages) \in Nat /\ call \in Nat /\ call >= 1 /\ reply.calls \in Nat
      /\ messages' = messages /\ Len(messages') = Len(messages)
  BY Bounds DEF TypeOK, sliceVars
<1>1. CASE Completes
  <2>1. lpc = "complete" /\ lpc' = "append" /\ turn' = turn
    BY <1>1 DEF Completes
  <2>2. \A d, m : ~Upcoming(d, m)
    BY <2>1 DEF Upcoming
  <2>3. Ahead = Len(messages) + 0 /\ Ahead' = Len(messages) + 1
    BY <1>0, <2>1 DEF Ahead
  <2>4. Ahead' = Ahead + 1 /\ Ahead' - Len(messages) = 1
    BY <1>0, <2>3
  <2>5. Upcoming(1, Answer(turn, reply.calls))'
    BY <2>1 DEF Upcoming
  <2>6. \A e : Announces(e) => Said(e) = Answer(turn', reply'.calls)
    BY <1>1, <2>1, AnnouncedFacts
  <2> QED BY <1>1, <2>2, <2>4, <2>5, <2>6 DEF Tells
<1>2. CASE (CallSucceeds \/ AnswerFailed) /\ Answered
  <2>1. lpc \in {"calls", "answer", "hung"} /\ lpc' = "calls" /\ turn' = turn /\ call' = call + 1
    BY <1>2 DEF CallSucceeds, AnswerFailed, Answered
  <2>2. Ahead = Len(messages) + (call - 1) /\ Ahead' = Len(messages) + (call' - 1)
    BY <1>0, <2>1 DEF Ahead
  <2>3. Ahead' = Ahead + 1 /\ Ahead' - Len(messages) = call /\ call \in 1..call' - 1
        /\ \A d \in 1..call - 1 : d \in 1..call' - 1
    BY <1>0, <2>1, <2>2
  <2>4. \A d, m : Upcoming(d, m) => Upcoming(d, m)'
    BY <2>1, <2>3 DEF Upcoming
  <2>5. \A d : d = call => Upcoming(d, ToolResult(turn, d))'
    BY <2>1, <2>3 DEF Upcoming
  <2>6. \A e : Announces(e) => Said(e) = ToolResult(turn', call)
    BY <1>2, <2>1, AnnouncedFacts
  <2>7. ASSUME NEW e, NEW d, Announces(e), d = Ahead' - Len(messages) PROVE Upcoming(d, Said(e))'
    BY <2>1, <2>3, <2>5, <2>6, <2>7
  <2> QED BY <1>2, <2>3, <2>4, <2>7 DEF Tells
<1>3. CASE ~Tells
  <2>1. /\ \/ lpc = "calls" /\ lpc' \in {"answer", "hung"}
           \/ lpc \notin {"append", "calls", "answer", "hung"} /\ lpc' \notin {"append", "calls", "answer", "hung"}
           \/ lpc = "calls" /\ reply.calls = 0 /\ lpc' \in {"top", "exit"}
           \/ lpc \in {"append", "calls"} /\ LoopAppends(Words) /\ (lpc = "calls" => reply.calls # 0)
        /\ call' = call /\ (turn' = turn \/ lpc = "top")
    BY <1>3 DEF Tells, LoopStep, TopOfTurn, Mistake, Caution, CompletionFails, Overflows,
                AppendAnswer, CompactionFails, CallSucceeds, CallFails, AnswerFailed,
                Answered, CallHangs, CallsDone, Exit, Words
  <2>2. CASE lpc = "calls" /\ lpc' \in {"answer", "hung"}
    <3>1. \A d, m : Upcoming(d, m) => Upcoming(d, m)'
      BY <2>1, <2>2 DEF Upcoming
    <3>2. Ahead' = Ahead
      BY <1>0, <2>1, <2>2 DEF Ahead
    <3> QED BY <1>3, <3>1, <3>2
  <2>3. CASE lpc \notin {"append", "calls", "answer", "hung"} /\ lpc' \notin {"append", "calls", "answer", "hung"}
    <3>1. \A d, m : ~Upcoming(d, m)
      BY <2>3 DEF Upcoming
    <3>2. Ahead' = Ahead
      BY <1>0, <2>3 DEF Ahead
    <3> QED BY <1>3, <3>1, <3>2
  <2>4. CASE lpc = "calls" /\ reply.calls = 0 /\ lpc' \in {"top", "exit"}
    <3>1. call = 1
      BY <1>0, <2>4 DEF Counters, Calling
    <3>2. \A d, m : ~Upcoming(d, m)
      BY <2>4, <3>1 DEF Upcoming
    <3>3. Ahead' = Ahead
      BY <1>0, <2>4, <3>1 DEF Ahead
    <3> QED BY <1>3, <3>2, <3>3
  <2>5. CASE lpc \in {"append", "calls"} /\ LoopAppends(Words) /\ (lpc = "calls" => reply.calls # 0)
    <3>1. Words \in Seq(Message) /\ Len(Words) >= 1 /\ Len(Words) \in Nat
      BY <1>0, <2>5, WordsAreMessages
    <3>2. Len(messages') = Len(messages) + Len(Words)
      BY <2>5, <3>1, LoopAppendsFacts
    <3> QED BY <1>0, <3>1, <3>2
  <2> QED BY <2>1, <2>2, <2>3, <2>4, <2>5
<1> QED BY <1>1, <1>2, <1>3 DEF Tells

\* After a step of the loop too, the session can only be ahead of it.
LEMMA AheadIsANumber ==
  ASSUME TypeOK, Counters, ExitComesLast, LoopStep
  PROVE  Ahead' \in Nat
<1>1. TypeOK'
  BY TypeStep DEF Next
<1>2. Len(messages)' \in Nat /\ call' \in Nat /\ call' >= 1
  <2>1. messages' \in Seq(Message) /\ call' \in 1..MaxCalls + 1
    BY <1>1 DEF TypeOK
  <2> QED BY <2>1, Bounds
<1>3. Ahead' = Len(messages)' + 1 \/ Ahead' = Len(messages)' + (call' - 1) \/ Ahead' = Len(messages)' + 0
  BY DEF Ahead
<1> QED BY <1>2, <1>3

\* What the loop appends is what was upcoming, or a refused answer and the caution.
LEMMA AppendingArray ==
  ASSUME TypeOK, Counters, LoopAppends(Words), lpc \in {"complete", "caution", "append", "calls"},
         Mistake \/ Caution \/ AppendAnswer \/ CallsDone,
         NEW a \in Nat, a = Ahead
  PROVE  /\ \A d, m : Upcoming(d, m) => d \in 1..Len(Words) /\ Words[d] = m
         /\ \A d, m : ~Upcoming(d, m)'
         /\ Ahead' = a \/ Gap(a)'
         /\ ~Tells /\ ~Compact
<1> USE DEF LGoto
<1>0. /\ Len(messages) \in Nat /\ call \in Nat /\ call >= 1 /\ reply.calls \in Nat
      /\ Words \in Seq(Message) /\ Len(Words) = IF lpc = "calls" THEN reply.calls ELSE 1
      /\ Len(messages') = Len(messages) + Len(Words)
      /\ \A i \in 1..Len(Words) : messages'[Len(messages) + i] = Words[i]
  <2>1. Words \in Seq(Message) /\ Len(Words) = IF lpc = "calls" THEN reply.calls ELSE 1
    BY WordsAreMessages
  <2>2. /\ Len(messages') = Len(messages) + Len(Words)
        /\ \A i \in 1..Len(Words) : messages'[Len(messages) + i] = Words[i]
    BY <2>1, LoopAppendsFacts
  <2>3. Len(messages) \in Nat /\ call \in Nat /\ call >= 1 /\ reply.calls \in Nat
    BY Bounds DEF TypeOK
  <2> QED BY <2>1, <2>2, <2>3
<1>1. call' = call /\ reply' = reply
  BY DEF Mistake, Caution, AppendAnswer, CallsDone
<1>2. ASSUME lpc \in {"complete", "caution"}, ~Tells, ~Compact,
             lpc' \notin {"append", "calls", "answer", "hung"}, Aside(Words[1])
      PROVE  /\ \A d, m : ~Upcoming(d, m) /\ ~Upcoming(d, m)'
             /\ Gap(a)'
  <2>1. \A d, m : ~Upcoming(d, m) /\ ~Upcoming(d, m)'
    BY <1>2 DEF Upcoming
  <2>2. a = Len(messages) + 0
    BY <1>2 DEF Ahead
  <2>3. a = Len(messages) /\ Len(messages') = a + 1 /\ messages'[a + 1] = Words[1]
    BY <1>0, <1>2, <2>2
  <2>4. Gap(a)'
    BY <1>2, <2>3 DEF Gap, Aside
  <2> QED BY <2>1, <2>4
<1>3. CASE Mistake
  <2>1. lpc = "complete"
    BY <1>3 DEF Mistake
  <2>2. lpc' = "caution"
    <3>1. UNCHANGED sliceVars => Len(messages') = Len(messages)
      BY DEF sliceVars
    <3> QED BY <1>0, <1>3, <2>1, <3>1 DEF Mistake
  <2>3. ~Tells /\ ~Compact
    BY <2>1, <2>2 DEF Tells, Completes, CallSucceeds, AnswerFailed, Compact
  <2>4. Words[1] = Text("agent", <<"mistake", turn>>)
    BY <2>1 DEF Words
  <2>5. Aside(Words[1])
    <3>1. Words[1].text = {<<"mistake", turn>>} /\ <<"mistake", turn>>[1] = "mistake"
      BY <2>4 DEF Text
    <3> QED BY <3>1 DEF Aside
  <2> QED BY <1>2, <2>1, <2>2, <2>3, <2>5
<1>4. CASE Caution
  <2>1. lpc = "caution" /\ lpc' = "top"
    BY <1>4 DEF Caution
  <2>2. ~Tells /\ ~Compact
    BY <2>1 DEF Tells, Completes, CallSucceeds, AnswerFailed, Compact
  <2>3. Words[1] = Text("user", <<"caution", turn>>)
    BY <2>1 DEF Words
  <2>4. Aside(Words[1])
    <3>1. Words[1].text = {<<"caution", turn>>} /\ <<"caution", turn>>[1] = "caution"
      BY <2>3 DEF Text
    <3> QED BY <3>1 DEF Aside
  <2> QED BY <1>2, <2>1, <2>2, <2>4
<1>5. CASE AppendAnswer
  <2>1. lpc = "append" /\ lpc' \in {"compact", "calls"} /\ call = 1 /\ call' = 1
    <3>1. lpc = "append" /\ lpc' \in {"compact", "calls"} /\ call' = call
      BY <1>5 DEF AppendAnswer, LGoto
    <3> QED BY <1>1, <3>1 DEF Counters
  <2>2. ~Tells /\ ~Compact
    BY <2>1 DEF Tells, Completes, CallSucceeds, AnswerFailed, Compact
  <2>3. Len(Words) = 1 /\ Words[1] = Answer(turn, reply.calls)
    BY <2>1, WordsAreMessages
  <2>4. \A d, m : Upcoming(d, m) => d \in 1..Len(Words) /\ Words[d] = m
    BY <2>1, <2>3 DEF Upcoming
  <2>5. \A d, m : ~Upcoming(d, m)'
    BY <2>1 DEF Upcoming
  <2>6. a = Len(messages) + 1 /\ (Ahead' = Len(messages') + 0 \/ Ahead' = Len(messages') + (1 - 1))
    BY <2>1 DEF Ahead
  <2>7. Ahead' = a
    <3>1. Len(messages) \in Nat /\ Len(messages') = Len(messages) + 1
      BY <1>0, <2>3
    <3>2. CASE Ahead' = Len(messages') + 0
      BY ONLY <3>1, <3>2, <2>6
    <3>3. CASE Ahead' = Len(messages') + (1 - 1)
      BY ONLY <3>1, <3>3, <2>6
    <3> QED BY <2>6, <3>2, <3>3
  <2> QED BY <2>2, <2>4, <2>5, <2>7
<1>6. CASE CallsDone
  <2>1. lpc = "calls" /\ lpc' \in {"top", "exit"} /\ call > reply.calls
    BY <1>6 DEF CallsDone
  <2>2. call - 1 = reply.calls /\ Len(Words) = reply.calls
    <3>1. call <= reply.calls + 1
      BY <2>1 DEF Counters, Calling
    <3> QED BY <1>0, <2>1, <3>1
  <2>3. ~Tells /\ ~Compact
    BY <1>0, <2>1 DEF Tells, Completes, CallSucceeds, AnswerFailed, Compact
  <2>4. \A i \in 1..Len(Words) : Words[i] = ToolResult(turn, i)
    BY <2>1, WordsAreMessages
  <2>5. \A d, m : Upcoming(d, m) => d \in 1..Len(Words) /\ Words[d] = m
    BY <2>1, <2>2, <2>4 DEF Upcoming
  <2>6. \A d, m : ~Upcoming(d, m)'
    BY <2>1 DEF Upcoming
  <2>7. a = Len(messages) + (call - 1) /\ Ahead' = Len(messages') + 0
    BY <2>1 DEF Ahead
  <2>8. Ahead' = a
    <3>1. Len(Words) \in Nat /\ Len(messages') = Len(messages) + Len(Words)
          /\ Len(messages) \in Nat /\ call \in Nat
      BY <1>0
    <3>2. a = Len(messages) + Len(Words) /\ Ahead' = Len(messages')
      BY <2>2, <2>7, <3>1
    <3> QED BY <3>1, <3>2
  <2> QED BY <2>3, <2>5, <2>6, <2>8
<1> QED BY <1>3, <1>4, <1>5, <1>6

\* What the loop writes to a shared array is there already.
LEMMA LoopKeepsSession ==
  ASSUME TypeOK, Counters, SharedArrayAgrees, LoopStep, run \notin clobbered
  PROVE  sess' = sess \/ Asks \/ Compact
<1>1. CASE LoopAppends(Words) /\ (Mistake \/ Caution \/ AppendAnswer \/ CallsDone)
           /\ lpc \in {"complete", "caution", "append", "calls"}
           /\ sess' # sess
  <2>1. Words \in Seq(Message) /\ messages \in Seq(Message) /\ sess \in Seq(Message)
        /\ Len(messages) \in Nat /\ Len(sess) \in Nat /\ Len(Words) \in Nat
    <3>1. Words \in Seq(Message)
      BY <1>1, WordsAreMessages
    <3>2. messages \in Seq(Message) /\ sess \in Seq(Message)
      BY DEF TypeOK
    <3> QED BY <3>1, <3>2
  <2>2. sess' = Overlay(sess, Len(messages), Words) /\ loopArr.id # 0 /\ sessArr.id = loopArr.id
    BY <1>1, <2>1, LoopAppendsFacts
  <2>3. \A i \in 1..Len(sess) : i > Len(messages) => Upcoming(i - Len(messages), sess[i])
    BY <2>1, <2>2 DEF SharedArrayAgrees
  <2>4. \A d, m : Upcoming(d, m) => d \in 1..Len(Words) /\ Words[d] = m
    <3>1. Ahead \in Nat
      BY ArrayFacts
    <3> QED BY <1>1, <3>1, AppendingArray
  <2>5. \A i \in 1..Len(sess) : i > Len(messages) => Words[i - Len(messages)] = sess[i]
    BY <2>3, <2>4
  <2>6. /\ sess' \in Seq(Message) /\ Len(sess') = Len(sess)
        /\ \A i \in 1..Len(sess) : sess'[i] =
             IF Len(messages) < i /\ i <= Len(messages) + Len(Words)
             THEN Words[i - Len(messages)] ELSE sess[i]
    BY <2>1, <2>2, OverlayFacts
  <2>7. \A i \in 1..Len(sess) : sess'[i] = sess[i]
    BY <2>1, <2>5, <2>6
  <2>8. sess' = sess
    BY <2>1, <2>6, <2>7, SeqEqual
  <2> QED BY <2>8
<1> QED BY <1>1, LoopStepOnSlices DEF sliceVars

\* While loop and session share an array, neither writes what the other did not.
LEMMA SharedLoopStep ==
  ASSUME TypeOK, Counters, ExitComesLast, ArraysAreOrdered, SharedArrayAgrees, LoopStep
  PROVE  SharedArrayAgrees'
<1> SUFFICES ASSUME run' \notin clobbered', loopArr'.id # 0 PROVE SharedArrayAgrees'
  BY DEF SharedArrayAgrees
<1>1. run' = run /\ clobbered' = clobbered /\ sessArr' = sessArr /\ run \notin clobbered
  BY LoopStepOnSlices
<1>2. ~Asks /\ ~Compact => sess' = sess
  BY <1>1, LoopKeepsSession
<1>3. Len(events) \in Nat /\ DOMAIN events = 1..Len(events) /\ DOMAIN sess = 1..Len(sess)
      /\ Len(sess) \in Nat /\ Len(messages) \in Nat
  BY DEF TypeOK
<1>4. ASSUME \A j \in 0..Len(events') : Latest(j)' /\ (j = 0 => sessArr.id = loopArr'.id) => InStep(j)',
             sessArr.id = loopArr'.id =>
               \A i \in DOMAIN sess' : \A d : i > Len(messages') /\ d = i - Len(messages') =>
                 Upcoming(d, sess[i])'
      PROVE  SharedArrayAgrees'
  <2>1. sessArr'.id = loopArr'.id =>
          \A i \in DOMAIN sess' : i > Len(messages') => Upcoming(i - Len(messages), sess[i])'
    BY <1>1, <1>4
  <2> QED BY <1>1, <1>4, <2>1 DEF SharedArrayAgrees
<1>5. PICK a \in Nat : a = Ahead
  BY ArrayFacts
<1>6. CASE Compact
  <2>1. /\ messages' \in Seq(Message) /\ Len(messages') \in Nat /\ loopArr'.id = turn
        /\ lpc' = AfterCompaction /\ lpc \in {"compact", "overflow"} /\ call' = call
    BY <1>6, CompactFacts DEF Compact
  <2>2. PICK e \in Event : Added(e) /\ Announces(e)
    BY <1>6, CompactFacts DEF Announces
  <2>3. e.type = "compaction" /\ e.context = messages'
    BY <1>6, <2>2, AnnouncedFacts DEF Announces
  <2>4. PICK n \in Nat : n = Len(events) + 1 /\ Len(events') = n /\ events'[n] = e
    BY <1>3, <2>2, AddedFacts
  <2>5. \A j \in 0..Len(events') : Latest(j)' => j = n
    BY <2>2, <2>3, <2>4, LatestWhenAdded
  <2>6. PICK p \in Nat : p = Len(messages')
    BY <2>1
  <2>7. Ahead' = p
    <3>1. lpc' = "calls" => call' = 1
      BY <2>1 DEF AfterCompaction, Counters
    <3>2. Ahead' = Len(messages') + 0 \/ Ahead' = Len(messages') + (1 - 1)
      BY <2>1, <3>1 DEF AfterCompaction, Ahead
    <3> QED BY <2>6, <3>2
  <2>8. InStep(n)'
    <3> DEFINE at == [i \in n..n |-> p]
    <3>1. at \in [n..Len(events') -> Nat] /\ at[n] = p
      BY <2>4
    <3>2. n # 0 /\ Base(n)' = messages'
      BY <1>3, <2>3, <2>4 DEF Base
    <3>3. n + 1..Len(events') = {}
      BY <2>4
    <3> HIDE DEF at
    <3>4. at[n] = Len(Base(n)') /\ (at[Len(events')] = Ahead' \/ Gap(at[Len(events)])')
      BY <2>4, <2>6, <2>7, <3>1, <3>2
    <3> QED BY <3>1, <3>3, <3>4 DEF InStep
  <2>9. sessArr.id # loopArr'.id
    <3>1. sessArr.id < turn
      BY <2>1 DEF ArraysAreOrdered
    <3>2. sessArr.id \in Nat /\ turn \in Nat
      BY Bounds DEF TypeOK
    <3> QED BY <2>1, <3>1, <3>2
  <2> QED BY <1>4, <2>5, <2>8, <2>9
<1>7. CASE ~Compact /\ ~Asks
  <2>0. sess' = sess
    BY <1>2, <1>7
  <2>1. loopArr' = loopArr
    <3>1. CASE LoopAppends(Words) /\ lpc \in {"complete", "caution", "append", "calls"}
      <4>1. loopArr' \in {loopArr, Private}
        BY <3>1, WordsAreMessages, LoopAppendsFacts
      <4> QED BY <4>1 DEF Private
    <3> QED BY <1>7, <3>1, LoopStepOnSlices DEF sliceVars
  <2>2. /\ \A j \in 0..Len(events) : Latest(j) /\ (j = 0 => sessArr.id = loopArr'.id) => InStep(j)
        /\ sessArr.id = loopArr'.id =>
             \A i \in DOMAIN sess : i > Len(messages) => Upcoming(i - Len(messages), sess[i])
    BY <1>1, <2>1 DEF SharedArrayAgrees
  <2>3. ASSUME ArrayKept, NEW c \in Nat, c = Ahead', ~Tells => c = a \/ Gap(a)',
               Tells => /\ c = a + 1
                        /\ \A p \in Nat : Gap(p) => p < a
                        /\ \A e \in Event : Announces(e) => Place(c, Said(e))',
               NEW j \in 0..Len(events'), Latest(j)', j = 0 => sessArr.id = loopArr'.id
        PROVE  InStep(j)'
    <3>1. CASE events' = events /\ ~Tells
      <4>1. Latest(j) /\ j \in 0..Len(events)
        BY <2>3, <3>1 DEF Latest, Compaction
      <4>2. InStep(j)
        BY <2>2, <2>3, <4>1
      <4>3. Base(j)' = Base(j)
        BY <2>0, <3>1 DEF Base
      <4>4. Len(events') = Len(events) /\ \A i \in 1..Len(events) : Passed(events[i], events'[i])
        BY <3>1, LeftAlone, LoopFacts
      <4> QED BY <1>5, <2>3, <3>1, <4>1, <4>2, <4>3, <4>4, InStepKept
    <3>2. CASE \E e \in Event : Added(e) /\ Announces(e)
      <4>1. PICK e \in Event : Added(e) /\ Announces(e)
        BY <3>2
      <4>2. e.type # "compaction" /\ (Appends(e) <=> Tells)
        BY <1>7, <4>1, AnnouncedFacts
      <4>3. Latest(j) /\ j \in 0..Len(events)
        BY <1>3, <2>3, <4>1, <4>2, LatestWhenAdded
      <4>4. InStep(j)
        BY <2>2, <2>3, <4>3
      <4>5. j # 0 => events'[j] = events[j]
        BY <1>3, <4>1, <4>2, <4>3, AddedFacts DEF Latest, Compaction
      <4>6. Base(j)' = Base(j)
        BY <2>0, <4>5 DEF Base
      <4>7. CASE Tells
        BY <1>5, <2>3, <4>1, <4>2, <4>3, <4>4, <4>6, InStepAdded
      <4>8. CASE ~Tells
        BY <1>5, <2>3, <4>1, <4>2, <4>3, <4>4, <4>6, InStepAdded
      <4> QED BY <4>7, <4>8
    <3>3. events' = events => ~Tells
      <4>1. Tells => \E e \in Event : Added(e)
        BY <1>7, LoopStepOnChannel
           DEF Tells, TopOfTurn, Caution, CompletionFails, Overflows, AppendAnswer,
               CompactionFails, CallHangs, CallsDone, Completes, CallSucceeds, AnswerFailed,
               Answered, LGoto
      <4> SUFFICES ASSUME Tells PROVE events' # events
        OBVIOUS
      <4>2. PICK e \in Event : Added(e)
        BY <4>1
      <4>3. Len(events') = Len(events) + 1
        BY <4>2 DEF Added
      <4> QED BY <1>3, <4>3
    <3> QED BY <1>7, <3>1, <3>2, <3>3, LoopStepOnChannel
  <2>4. CASE UNCHANGED sliceVars
    <3>1. messages' = messages
      BY <2>4 DEF sliceVars
    <3>2. /\ \A d, m : Upcoming(d, m) => Upcoming(d, m)'
          /\ ~Tells => Ahead' = a
          /\ Tells => Ahead' = a + 1
          /\ \A e, d : Tells /\ Announces(e) /\ d = Ahead' - Len(messages) => Upcoming(d, Said(e))'
      BY <1>5, <1>7, <2>4, QuietArray
    <3>3. ArrayKept
      <4>1. \A p : Gap(p) => Gap(p)'
        BY <3>1 DEF Gap, Aside
      <4>2. \A p, m : Place(p, m) => Place(p, m)'
        BY <3>1, <3>2 DEF Place
      <4> QED BY <4>1, <4>2 DEF ArrayKept
    <3>4. /\ Len(messages) <= a
          /\ \A p \in Nat : Gap(p) => p < a
      BY <1>3, <1>5, ArrayFacts
    <3>5. PICK c \in Nat : c = Ahead'
      BY <1>5, <3>2
    <3>6. ASSUME NEW e \in Event, Tells, Announces(e) PROVE Place(c, Said(e))'
      <4>1. c = a + 1
        BY <3>2, <3>5, <3>6
      <4>2. PICK d \in Nat : d = c - Len(messages)
        BY <1>3, <3>4, <4>1
      <4>3. Upcoming(d, Said(e))'
        BY <3>2, <3>5, <3>6, <4>2
      <4>4. c > Len(messages) /\ ~(c <= Len(messages))
        BY <1>3, <3>4, <4>1
      <4>5. Place(c, Said(e))'
        BY <3>1, <4>2, <4>3, <4>4 DEF Place
      <4> QED BY <4>5
    <3>7. \A j \in 0..Len(events') : Latest(j)' /\ (j = 0 => sessArr.id = loopArr'.id) => InStep(j)'
      BY <2>3, <3>2, <3>3, <3>4, <3>5, <3>6
    <3>8. ASSUME sessArr.id = loopArr'.id, NEW i \in DOMAIN sess', NEW d, i > Len(messages'),
                 d = i - Len(messages')
          PROVE  Upcoming(d, sess[i])'
      <4>1. PICK m : m = sess[i]
        OBVIOUS
      <4>2. Upcoming(d, m)
        BY <2>0, <2>2, <3>1, <3>8, <4>1
      <4>3. Upcoming(d, m)'
        BY <3>2, <4>2
      <4> QED BY <2>0, <4>1, <4>3
    <3> QED BY <1>4, <3>7, <3>8
  <2>5. CASE LoopAppends(Words) /\ (Mistake \/ Caution \/ AppendAnswer \/ CallsDone)
             /\ lpc \in {"complete", "caution", "append", "calls"}
    <3>1. /\ \A d, m : Upcoming(d, m) => d \in 1..Len(Words) /\ Words[d] = m
          /\ \A d, m : ~Upcoming(d, m)'
          /\ Ahead' = a \/ Gap(a)'
          /\ ~Tells
      BY <1>5, <2>5, AppendingArray
    <3>2. /\ Words \in Seq(Message) /\ Len(Words) \in Nat
          /\ Len(messages') = Len(messages) + Len(Words)
          /\ \A p \in 1..Len(messages) : messages'[p] = messages[p]
          /\ \A d \in 1..Len(Words) : messages'[Len(messages) + d] = Words[d]
      <4>1. Words \in Seq(Message) /\ Len(Words) \in Nat
        BY <2>5, WordsAreMessages
      <4> QED BY <2>5, <4>1, LoopAppendsFacts
    <3>3. ASSUME NEW p \in Nat, Gap(p) PROVE Gap(p)'
      <4>1. p + 1 \in 1..Len(messages) /\ p + 1 <= Len(messages') /\ Aside(messages[p + 1])
        BY <1>3, <3>2, <3>3 DEF Gap
      <4>2. messages'[p + 1] = messages[p + 1]
        BY <3>2, <4>1
      <4> QED BY <4>1, <4>2 DEF Gap, Aside
    <3>4. ASSUME NEW p \in Nat, NEW m, Place(p, m) PROVE Place(p, m)'
      <4>1. CASE p <= Len(messages)
        <5>1. p \in 1..Len(messages) /\ messages[p] = m
          BY <1>3, <3>4, <4>1 DEF Place
        <5>2. p <= Len(messages') /\ p >= 1
          BY <1>3, <3>2, <5>1
        <5> QED BY <3>2, <5>1, <5>2 DEF Place
      <4>2. CASE ~(p <= Len(messages))
        <5>1. Upcoming(p - Len(messages), m)
          BY <3>4, <4>2 DEF Place
        <5>2. PICK d \in 1..Len(Words) : d = p - Len(messages)
          BY <3>1, <5>1
        <5>3. Words[d] = m /\ p = Len(messages) + d /\ p <= Len(messages') /\ p >= 1
          BY <1>3, <3>1, <3>2, <5>1, <5>2
        <5> QED BY <3>2, <5>3 DEF Place
      <4> QED BY <4>1, <4>2
    <3>5. ArrayKept
      BY <3>3, <3>4 DEF ArrayKept
    <3>6. PICK c \in Nat : c = Ahead'
      <4>1. Ahead' \in Nat
        BY AheadIsANumber
      <4> QED BY <4>1
    <3>7. \A j \in 0..Len(events') : Latest(j)' /\ (j = 0 => sessArr.id = loopArr'.id) => InStep(j)'
      BY <2>3, <3>1, <3>5, <3>6
    <3>8. ASSUME sessArr.id = loopArr'.id, NEW i \in DOMAIN sess, i > Len(messages') PROVE FALSE
      <4>1. i \in Nat /\ i > Len(messages)
        BY <1>3, <3>2, <3>8
      <4>2. Upcoming(i - Len(messages), sess[i])
        BY <2>2, <3>8, <4>1
      <4>3. i - Len(messages) \in 1..Len(Words)
        BY <3>1, <4>2
      <4> QED BY <1>3, <3>2, <3>8, <4>1, <4>3
    <3> QED BY <1>4, <2>0, <3>7, <3>8
  <2> QED BY <1>7, <2>4, <2>5, LoopStepOnSlices
<1>8. CASE Asks
  <2>1. /\ loopArr' = loopArr /\ lpc = "top" /\ lpc' = "complete"
        /\ Len(messages') = Len(messages) /\ Reworded(messages, messages')
        /\ messages' = InPlace(messages, Shown)
        /\ Len(sess') = Len(sess) /\ sess' \in Seq(Message)
        /\ events' \in Seq(Event) /\ Len(events') = Len(events)
        /\ \A i \in 1..Len(events) : Passed(events[i], events'[i])
    BY <1>8, AskFacts DEF Asks, Reworded
  <2>2. \A d, m : ~Upcoming(d, m) /\ ~Upcoming(d, m)'
    BY <2>1 DEF Upcoming
  <2>3. Ahead = Len(messages) + 0 /\ Ahead' = Len(messages') + 0
    BY <2>1 DEF Ahead
  <2>4. Ahead' = a
    BY <1>3, <1>5, <2>1, <2>3
  <2>5. ArrayKept
    <3>1. ASSUME NEW p \in Nat, Gap(p) PROVE Gap(p)'
      <4>1. p + 1 \in 1..Len(messages) /\ p + 1 <= Len(messages') /\ Aside(messages[p + 1])
        BY <1>3, <2>1, <3>1 DEF Gap
      <4>2. Told(messages[p + 1], messages'[p + 1])
        BY <2>1, <4>1 DEF Reworded
      <4>3. Aside(messages'[p + 1])
        BY <4>1, <4>2 DEF Told, Aside
      <4> QED BY <4>1, <4>3 DEF Gap, Aside
    <3>2. ASSUME NEW p \in Nat, NEW m, Plain(m), Place(p, m) PROVE Place(p, m)'
      <4>1. p \in 1..Len(messages) /\ messages[p] = m /\ p <= Len(messages') /\ p >= 1
        BY <1>3, <2>1, <2>2, <3>2 DEF Place
      <4>2. m \in Message /\ messages'[p] = Shown[m]
        <5>1. messages \in Seq(Message)
          BY DEF TypeOK
        <5> QED BY <2>1, <4>1, <5>1, ShownTells, InPlaceFacts
      <4>3. Shown[m] = m
        BY <3>2, <4>2, PlainIsShown
      <4> QED BY <4>1, <4>2, <4>3 DEF Place
    <3> QED BY <3>1, <3>2 DEF ArrayKept
  <2>6. ASSUME NEW j \in 0..Len(events'), Latest(j)', j = 0 => sessArr.id = loopArr'.id
        PROVE  InStep(j)'
    <3>1. Latest(j) /\ j \in 0..Len(events)
      BY <1>3, <2>1, <2>6, LatestWhenPassed
    <3>2. InStep(j)
      BY <1>1, <2>1, <2>6, <3>1 DEF SharedArrayAgrees
    <3>3. Len(Base(j)') = Len(Base(j))
      <4>1. CASE j = 0
        BY <2>1, <4>1 DEF Base
      <4>2. CASE j # 0
        <5>1. j \in 1..Len(events) /\ events[j].type = "compaction"
          BY <1>3, <3>1, <4>2 DEF Latest, Compaction
        <5>2. Reworded(events[j].context, events'[j].context)
          BY <2>1, <5>1 DEF Passed
        <5> QED BY <4>2, <5>2 DEF Base, Reworded
      <4> QED BY <4>1, <4>2
    <3> QED BY <1>5, <2>1, <2>4, <2>5, <3>1, <3>2, <3>3, InStepKept
  <2>7. ASSUME sessArr.id = loopArr'.id, NEW i \in DOMAIN sess', i > Len(messages') PROVE FALSE
    <3>1. i \in DOMAIN sess /\ i > Len(messages)
      BY <1>3, <2>1, <2>7
    <3>2. Upcoming(i - Len(messages), sess[i])
      BY <1>1, <2>1, <2>7, <3>1 DEF SharedArrayAgrees
    <3> QED BY <2>2, <3>2
  <2> QED BY <1>4, <2>6, <2>7
<1> QED BY <1>6, <1>7, <1>8

\* The consumer gets to the place behind the one it is at.
LEMMA SharedConsumeStep ==
  ASSUME TypeOK, ExitComesLast, ArraysAreOrdered, SharedArrayAgrees, Consume
  PROVE  SharedArrayAgrees'
<1> SUFFICES ASSUME run' \notin clobbered', loopArr'.id # 0 PROVE SharedArrayAgrees'
  BY DEF SharedArrayAgrees
<1>1. Taken /\ events # <<>> /\ events[1] \in Event
  BY ConsumeFacts
<1>2. /\ Len(events) \in Nat /\ Len(events) >= 1 /\ Len(events') = Len(events) - 1
      /\ DOMAIN events = 1..Len(events) /\ DOMAIN sess = 1..Len(sess)
      /\ Len(sess) \in Nat /\ Len(messages) \in Nat
      /\ \A i \in 1..Len(events) - 1 : events'[i] = events[i + 1]
  <2>1. events \in Seq(Event) /\ sess \in Seq(Message) /\ messages \in Seq(Message)
    BY DEF TypeOK
  <2>2. Len(events) >= 1
    BY <1>1, <2>1
  <2>3. Len(events') = Len(events) - 1 /\ \A i \in 1..Len(events) - 1 : events'[i] = events[i + 1]
    BY <1>1 DEF Taken
  <2> QED BY <2>1, <2>2, <2>3
<1>a. /\ sessArr.id \in Nat /\ loopArr.id \in Nat
      /\ \A k \in DOMAIN events : events[k].type = "compaction" => events[k].arr.id \in Nat
  <2>1. sessArr.id \in Nat /\ loopArr.id \in Nat /\ \A k \in DOMAIN events : events[k] \in Event
    BY Bounds DEF TypeOK
  <2>2. \A e \in Event : e.type = "compaction" => e.arr.id \in Nat
    BY EventsAreTyped, Bounds
  <2> QED BY <2>1, <2>2
<1>3. /\ messages' = messages /\ loopArr' = loopArr /\ clobbered' = clobbered /\ run' = run
      /\ lpc' = lpc /\ turn' = turn /\ reply' = reply /\ call' = call
      /\ run \notin clobbered /\ loopArr.id # 0
  <2>1. run' = run /\ lpc' = lpc /\ turn' = turn /\ reply' = reply /\ call' = call
    BY <1>1 DEF Taken, loopVars
  <2>2. messages' = messages /\ loopArr' = loopArr /\ clobbered' = clobbered
    BY <2>1, ConsumeFacts, SessionAppendsFacts DEF sliceVars
  <2> QED BY <2>1, <2>2
<1>4. \A d, m : Upcoming(d, m) => Upcoming(d, m)'
  BY <1>3 DEF Upcoming
<1>5. /\ \A j \in 0..Len(events) : Latest(j) /\ (j = 0 => sessArr.id = loopArr.id) => InStep(j)
      /\ sessArr.id = loopArr.id =>
           \A i \in DOMAIN sess : i > Len(messages) => Upcoming(i - Len(messages), sess[i])
  BY <1>3 DEF SharedArrayAgrees
<1>6. ASSUME NEW j \in 0..Len(events'), Latest(j)', j # 0 PROVE InStep(j)'
  <2>1. j \in Nat /\ j >= 1 /\ j < Len(events) /\ j + 1 \in 0..Len(events) /\ j + 1 # 0
        /\ j \in 1..Len(events) - 1
    BY <1>2, <1>6
  <2>2. InStep(j + 1)
    BY <1>1, <1>5, <1>6, <2>1, LatestWhenTaken
  <2>3. PICK at \in [j + 1..Len(events) -> Nat] :
          /\ at[j + 1] = Len(Base(j + 1))
          /\ \A i \in j + 1 + 1..Len(events) : Reaches(at[i - 1], at[i], events[i])
          /\ at[Len(events)] = Ahead \/ Gap(at[Len(events)])
    BY <2>2 DEF InStep
  <2>4. Base(j)' = Base(j + 1)
    BY <1>2, <1>6, <2>1 DEF Base
  <2> QED BY <1>1, <1>3, <2>1, <2>3, <2>4, InStepTaken
<1>7. ASSUME NEW k \in Nat, k \in {0, 1}, InStep(k), events[1].type = "compaction" <=> k = 1
      PROVE  \E at : /\ \A i \in 1..Len(events) : at[i] \in Nat
                     /\ IF k = 1 THEN at[1] = Len(Base(1)) ELSE Reaches(Len(sess), at[1], events[1])
                     /\ at[1] = Len(Base(0)') => InStep(0)'
  <2>1. PICK at \in [k..Len(events) -> Nat] :
          /\ at[k] = Len(Base(k))
          /\ \A i \in k + 1..Len(events) : Reaches(at[i - 1], at[i], events[i])
          /\ at[Len(events)] = Ahead \/ Gap(at[Len(events)])
    BY <1>7 DEF InStep
  <2>2. /\ \A i \in 1..Len(events) : i \in k..Len(events)
        /\ \A i \in 2..Len(events) : i \in k + 1..Len(events)
        /\ k = 0 => 1 \in k + 1..Len(events) /\ 1 - 1 = 0
    BY <1>2, <1>7
  <2>3. \A i \in 1..Len(events) : at[i] \in Nat
    BY <2>1, <2>2
  <2>4. IF k = 1 THEN at[1] = Len(Base(1)) ELSE Reaches(Len(sess), at[1], events[1])
    BY <1>7, <2>1, <2>2 DEF Base
  <2>5. at[1] = Len(Base(0)') => InStep(0)'
    <3>1. 0 < Len(events) /\ 0 + 1 = 1 /\ 0 + 2 = 2 /\ 0 \in Nat
      BY <1>2
    <3> QED BY <1>1, <1>3, <2>1, <2>2, <3>1, InStepTaken
  <2> QED BY <2>3, <2>4, <2>5
<1>8. CASE /\ Appends(events[1]) /\ Said(events[1]) \in Message
           /\ SessionAppends(Said(events[1]))
  <2>1. /\ Len(sess') = Len(sess) + 1 /\ DOMAIN sess' = 1..Len(sess) + 1
        /\ \A i \in 1..Len(sess) : sess'[i] = sess[i]
        /\ sess'[Len(sess) + 1] = Said(events[1])
        /\ sessArr' \in {sessArr, Private}
        /\ sessArr'.id # 0 /\ loopArr.id = sessArr'.id /\ Len(sess) + 1 <= Len(messages) =>
              messages[Len(sess) + 1] = Said(events[1])
    BY <1>3, <1>8, SessionAppendsFacts
  <2>2. CASE sessArr'.id # loopArr.id
    <3>1. ASSUME NEW j \in 0..Len(events'), Latest(j)', j = 0 => sessArr'.id = loopArr.id
          PROVE  InStep(j)'
      BY <1>6, <2>2, <3>1
    <3> QED BY <1>3, <2>2, <3>1 DEF SharedArrayAgrees
  <2>3. CASE sessArr'.id = loopArr.id
    <3>1. sessArr' = sessArr /\ sessArr.id = loopArr.id
      BY <1>3, <2>1, <2>3 DEF Private
    <3>2. Latest(0)
      <4>1. ASSUME NEW k \in DOMAIN events, events[k].type = "compaction" PROVE FALSE
        <5>1. sessArr.id < events[k].arr.id /\ events[k].arr.id <= loopArr.id
          BY <1>3, <4>1 DEF ArraysAreOrdered, Compaction
        <5> QED BY <1>a, <3>1, <4>1, <5>1
      <4> QED BY <4>1 DEF Latest
    <3>3. InStep(0) /\ events[1].type # "compaction"
      BY <1>5, <1>8, <3>1, <3>2 DEF Appends
    <3>4. PICK at : /\ \A i \in 1..Len(events) : at[i] \in Nat
                    /\ Reaches(Len(sess), at[1], events[1])
                    /\ at[1] = Len(Base(0)') => InStep(0)'
      BY <1>7, <3>3
    <3>5. ~Gap(Len(sess))
      <4>1. ~Aside(Said(events[1]))
        BY DEF Said, Answer, ToolResult, Aside
      <4> QED BY <1>3, <2>1, <2>3, <4>1 DEF Gap
    <3>6. at[1] = Len(sess) + 1 /\ Place(Len(sess) + 1, Said(events[1]))
      BY <1>8, <3>4, <3>5 DEF Reaches
    <3>7. Base(0)' = sess'
      BY DEF Base
    <3>8. InStep(0)'
      BY <2>1, <3>4, <3>6, <3>7
    <3>9. ASSUME NEW i \in DOMAIN sess', i > Len(messages) PROVE Upcoming(i - Len(messages), sess'[i])
      <4>1. CASE i \in 1..Len(sess)
        BY <1>5, <2>1, <3>1, <3>9, <4>1
      <4>2. CASE i = Len(sess) + 1
        <5>1. ~(i <= Len(messages))
          BY <1>2, <3>9, <4>2
        <5> QED BY <2>1, <3>6, <4>2, <5>1 DEF Place
      <4> QED BY <1>2, <2>1, <4>1, <4>2
    <3>10. \A i \in DOMAIN sess' : i > Len(messages') => Upcoming(i - Len(messages), sess[i])'
      <4>1. ASSUME NEW i \in DOMAIN sess', i > Len(messages') PROVE Upcoming(i - Len(messages), sess[i])'
        BY <1>3, <3>9, <4>1 DEF Upcoming
      <4> QED BY <4>1
    <3> QED BY <1>6, <3>8, <3>10 DEF SharedArrayAgrees
  <2> QED BY <2>2, <2>3
<1>9. CASE /\ events[1].type = "compaction" /\ sess' = events[1].context /\ sessArr' = events[1].arr
  <2>1. Compaction(1) /\ 1 \in DOMAIN events
    BY <1>2, <1>9 DEF Compaction
  <2>2. Latest(0)' => InStep(0)'
    <3> SUFFICES ASSUME Latest(0)' PROVE InStep(0)'
      OBVIOUS
    <3>1. InStep(1) /\ 1 \in Nat
      BY <1>1, <1>2, <1>5, <1>9, LatestWhenTaken
    <3>2. PICK at : at[1] = Len(Base(1)) /\ (at[1] = Len(Base(0)') => InStep(0)')
      BY <1>7, <1>9, <3>1
    <3>3. Base(0)' = Base(1)
      BY <1>9 DEF Base
    <3> QED BY <3>2, <3>3
  <2>3. ASSUME sessArr'.id = loopArr.id PROVE Len(sess') <= Len(messages)
    <3>1. Latest(1)
      <4>1. ASSUME NEW k \in DOMAIN events, 1 < k, events[k].type = "compaction" PROVE FALSE
        <5>1. events[1].arr.id < events[k].arr.id /\ events[k].arr.id <= loopArr.id
          BY <1>3, <2>1, <4>1 DEF ArraysAreOrdered, Compaction
        <5> QED BY <1>9, <1>a, <2>3, <4>1, <5>1
      <4> QED BY <2>1, <4>1 DEF Latest
    <3> QED BY <1>9, <2>1, <3>1 DEF ArraysAreOrdered
  <2>4. sess' \in Seq(Message) /\ DOMAIN sess' = 1..Len(sess') /\ Len(sess') \in Nat
    BY <1>1, <1>9, EventsAreTyped
  <2>5. sessArr'.id = loopArr'.id =>
          \A i \in DOMAIN sess' : i > Len(messages') => Upcoming(i - Len(messages), sess[i])'
    <3>1. ASSUME sessArr'.id = loopArr.id, NEW i \in DOMAIN sess', i > Len(messages) PROVE FALSE
      BY <1>2, <2>3, <2>4, <3>1
    <3> QED BY <1>3, <3>1
  <2> QED BY <1>6, <2>2, <2>5 DEF SharedArrayAgrees
<1>10. CASE ~Appends(events[1]) /\ events[1].type # "compaction" /\ UNCHANGED sliceVars
  <2>1. sess' = sess /\ sessArr' = sessArr
    BY <1>10 DEF sliceVars
  <2>2. ASSUME Latest(0)', sessArr.id = loopArr.id PROVE InStep(0)'
    <3>1. Latest(0)
      BY <1>1, <1>10, <2>2, LatestWhenTaken
    <3>2. InStep(0)
      BY <1>2, <1>5, <2>2, <3>1
    <3>3. PICK at : /\ \A i \in 1..Len(events) : at[i] \in Nat
                    /\ Reaches(Len(sess), at[1], events[1])
                    /\ at[1] = Len(Base(0)') => InStep(0)'
      BY <1>7, <1>10, <3>2
    <3>4. at[1] = Len(sess)
      BY <1>10, <3>3 DEF Reaches
    <3>5. Base(0)' = sess
      BY <2>1 DEF Base
    <3> QED BY <3>3, <3>4, <3>5
  <2>3. sessArr'.id = loopArr'.id =>
          \A i \in DOMAIN sess' : i > Len(messages') => Upcoming(i - Len(messages), sess[i])'
    <3>1. ASSUME sessArr'.id = loopArr'.id, NEW i \in DOMAIN sess, i > Len(messages)
          PROVE  Upcoming(i - Len(messages), sess[i])'
      <4>1. PICK m, d : m = sess[i] /\ d = i - Len(messages)
        OBVIOUS
      <4>2. Upcoming(d, m)'
        BY <1>3, <1>4, <1>5, <2>1, <3>1, <4>1
      <4> QED BY <1>3, <2>1, <4>1, <4>2
    <3> QED BY <1>3, <2>1, <3>1
  <2> QED BY <1>3, <1>6, <2>1, <2>2, <2>3 DEF SharedArrayAgrees
<1> QED BY <1>8, <1>9, <1>10, ConsumeFacts DEF Appends

\* Neither writes to the array what the other did not, but for the runs of clobbered.
LEMMA SharedStep ==
  /\ TypeOK /\ Counters /\ ExitComesLast /\ ArraysAreOrdered /\ SharedArrayAgrees /\ Next
  => SharedArrayAgrees'
<1> SUFFICES ASSUME TypeOK, Counters, ExitComesLast, ArraysAreOrdered, SharedArrayAgrees, Next
             PROVE  SharedArrayAgrees'
  OBVIOUS
<1>1. CASE Begin
  <2>1. loopArr'.id = 0
    BY <1>1 DEF Begin, Private
  <2> QED BY <2>1 DEF SharedArrayAgrees
<1>2. CASE Cancel
  <2>1. UNCHANGED <<lpc, run, turn, reply, call, events, messages, sess, sessArr, loopArr, clobbered>>
    BY <1>2 DEF Cancel, chanVars, sliceVars
  <2> QED BY <2>1
             DEF SharedArrayAgrees, Latest, Compaction, InStep, Base, Reaches, Place, Upcoming,
                      Gap, Ahead
<1>3. CASE LoopStep
  BY <1>3, SharedLoopStep
<1>4. CASE Consume
  BY <1>4, SharedConsumeStep
<1> QED BY <1>1, <1>2, <1>3, <1>4 DEF Next
-----------------------------------------------------------------------------
(***************************************************************************)
(* Calls and their answers                                                 *)
(***************************************************************************)

\* From each agent message on, r says what s does d messages further on.
Same(m, n) == m.role = n.role /\ m.calls = n.calls

Aligned(s, r, d) ==
  /\ \A i \in 1..Len(r) : r[i].role \in {"agent", "tool"} =>
       i + d \in 1..Len(s) /\ Same(r[i], s[i + d])
  /\ \A i \in 1..Len(r), k \in 1..Len(s) : r[i].role = "agent" /\ k > i + d =>
       k - d \in 1..Len(r) /\ Same(r[k - d], s[k])

\* A compaction that keeps a call keeps what is behind it, its results among them.
LEMMA AlignedAnswers ==
  ASSUME NEW s \in Seq(Message), NEW r \in Seq(Message), NEW d \in Int, Aligned(s, r, d),
         NEW i \in DOMAIN r, r[i].role = "agent", NEW c
  PROVE  /\ i + d \in DOMAIN s /\ s[i + d].role = "agent" /\ r[i].calls = s[i + d].calls
         /\ Unanswered(s, c) => Unanswered(r, c)
         /\ AnsweredOnce(s, i + d, c) => AnsweredOnce(r, i, c)
<1>1. DOMAIN s = 1..Len(s) /\ DOMAIN r = 1..Len(r) /\ Len(s) \in Nat /\ Len(r) \in Nat
  OBVIOUS
<1>2. ASSUME NEW k, ResultAt(r, c, k) PROVE k \in Int /\ ResultAt(s, c, k + d)
  BY <1>1, <1>2 DEF ResultAt, Aligned, Same
<1>3. i + d \in DOMAIN s /\ s[i + d].role = "agent" /\ r[i].calls = s[i + d].calls
  BY <1>1 DEF Aligned, Same
<1>4. Unanswered(s, c) => Unanswered(r, c)
  BY <1>1, <1>2 DEF Unanswered, ResultAt
<1>5. ASSUME AnsweredOnce(s, i + d, c) PROVE AnsweredOnce(r, i, c)
  <2>1. PICK k \in DOMAIN s : /\ i + d < k /\ ResultAt(s, c, k)
                              /\ \A l \in DOMAIN s : ResultAt(s, c, l) => k = l
    BY <1>5 DEF AnsweredOnce
  <2>2. k - d \in 1..Len(r) /\ Same(r[k - d], s[k]) /\ i < k - d
    BY <1>1, <2>1 DEF Aligned
  <2>3. ResultAt(r, c, k - d)
    BY <1>1, <2>1, <2>2 DEF ResultAt, Same
  <2>4. ASSUME NEW l \in DOMAIN r, ResultAt(r, c, l) PROVE k - d = l
    <3>1. l \in Int /\ ResultAt(s, c, l + d)
      BY <1>2, <2>4
    <3>2. k = l + d
      BY <2>1, <3>1 DEF ResultAt
    <3> QED BY <1>1, <3>1, <3>2
  <2> QED BY <1>1, <2>2, <2>3, <2>4 DEF AnsweredOnce
<1> QED BY <1>3, <1>4, <1>5

\* The messages that are appended are not results of a call, or one of them is.
LEMMA AppendedAnswers ==
  ASSUME NEW s \in Seq(Message), NEW r \in Seq(Message), Len(s) <= Len(r),
         \A i \in 1..Len(s) : r[i] = s[i],
         NEW c
  PROVE  /\ (\A k \in Len(s) + 1..Len(r) : ~ResultAt(r, c, k)) =>
              /\ Unanswered(s, c) => Unanswered(r, c)
              /\ \A i \in 1..Len(s) : AnsweredOnce(s, i, c) => AnsweredOnce(r, i, c)
         /\ \A k \in Len(s) + 1..Len(r) :
              /\ ResultAt(r, c, k) /\ Unanswered(s, c)
              /\ \A l \in Len(s) + 1..Len(r) : ResultAt(r, c, l) => l = k
              => \A i \in 1..Len(s) : AnsweredOnce(r, i, c)
<1>1. DOMAIN s = 1..Len(s) /\ DOMAIN r = 1..Len(r) /\ Len(s) \in Nat /\ Len(r) \in Nat
  OBVIOUS
<1>2. \A k \in 1..Len(s) : ResultAt(r, c, k) <=> ResultAt(s, c, k)
  BY <1>1 DEF ResultAt
<1>3. \A k \in DOMAIN r : k \in 1..Len(s) \/ k \in Len(s) + 1..Len(r)
  BY <1>1
<1>6. ASSUME \A k \in Len(s) + 1..Len(r) : ~ResultAt(r, c, k)
      PROVE  /\ Unanswered(s, c) => Unanswered(r, c)
             /\ \A i \in 1..Len(s) : AnsweredOnce(s, i, c) => AnsweredOnce(r, i, c)
  <2>1. Unanswered(s, c) => Unanswered(r, c)
    BY <1>1, <1>2, <1>3, <1>6 DEF Unanswered
  <2>2. ASSUME NEW i \in 1..Len(s), AnsweredOnce(s, i, c) PROVE AnsweredOnce(r, i, c)
    BY <1>2, <1>6, <2>2 DEF AnsweredOnce
  <2> QED BY <2>1, <2>2
<1>7. ASSUME NEW k \in Len(s) + 1..Len(r), ResultAt(r, c, k), Unanswered(s, c),
             \A l \in Len(s) + 1..Len(r) : ResultAt(r, c, l) => l = k,
             NEW i \in 1..Len(s)
      PROVE  AnsweredOnce(r, i, c)
  BY <1>2, <1>7 DEF AnsweredOnce, Unanswered
<1> QED BY <1>6, <1>7

\* The three alignments: a run begins with the session file, and a compaction keeps the
\* end of the context.
LEMMA BeginAligns ==
  ASSUME TypeOK, Begin
  PROVE  Aligned(stored, sess', 0) /\ Aligned(stored, messages', -1)
<1>1. Len(sess') \in Nat /\ Len(stored) \in Nat /\ Len(sess') >= Len(stored) /\ Len(messages') = Len(sess') + 1
      /\ messages'[1].role = "system"
      /\ \A i \in 2..Len(messages') : i - 1 \in 1..Len(sess') /\ messages'[i] = sess'[i - 1]
  BY BeginFacts DEF SystemMsg, Text
<1>2. \A i \in 1..Len(sess') :
        \/ i <= Len(stored) /\ Same(sess'[i], stored[i])
        \/ i = Len(stored) + 1 /\ sess'[i].role = "user"
  BY BeginFacts DEF FollowsFile, Same, Request, Text
<1>3. \A i \in 1..Len(sess') : sess'[i].role \in {"agent", "tool"} =>
        i \in 1..Len(stored) /\ Same(sess'[i], stored[i])
  BY <1>1, <1>2
<1>4. \A k \in 1..Len(stored) : k \in 1..Len(sess') /\ Same(sess'[k], stored[k])
  BY <1>1, <1>2
<1>5. Aligned(stored, sess', 0)
  <2>1. \A i \in Nat : i + 0 = i /\ i - 0 = i
    OBVIOUS
  <2> QED BY <1>3, <1>4, <2>1 DEF Aligned
<1>6. ASSUME NEW i \in 1..Len(messages'), messages'[i].role \in {"agent", "tool"}
      PROVE  i + (-1) \in 1..Len(stored) /\ Same(messages'[i], stored[i + (-1)])
  <2>1. i # 1
    BY <1>1, <1>6
  <2>2. i \in 2..Len(messages') /\ i + (-1) = i - 1
    BY <1>1, <2>1
  <2> QED BY <1>1, <1>3, <1>6, <2>2
<1>7. ASSUME NEW k \in 1..Len(stored)
      PROVE  k - (-1) \in 1..Len(messages') /\ Same(messages'[k - (-1)], stored[k])
  <2>1. k - (-1) = k + 1 /\ k + 1 \in 2..Len(messages') /\ (k + 1) - 1 = k /\ k + 1 \in 1..Len(messages')
    BY <1>1
  <2>2. messages'[k + 1] = sess'[(k + 1) - 1]
    BY <1>1, <2>1
  <2>3. Same(messages'[k + 1], stored[k])
    BY <1>4, <2>1, <2>2
  <2> QED BY <2>1, <2>3
<1>8. Aligned(stored, messages', -1)
  BY <1>6, <1>7 DEF Aligned
<1> QED BY <1>5, <1>8

\* A compaction moves what it keeps to the front.
LEMMA CompactAligns ==
  ASSUME NEW s \in Seq(Message), Len(s) >= 1, NEW r, NEW t, Keeps(s, r, t), s[1].role = "system"
  PROVE  \E d \in Int : Aligned(s, r, d)
<1>1. r \in Seq(Message) /\ Len(r) \in Nat /\ r[1].role = "system"
  BY DEF Keeps
<1>2. PICK d \in Int : Shifted(s, r, d)
  BY DEF Keeps
<1>3. ASSUME NEW i \in 1..Len(r), r[i].role \in {"agent", "tool"}
      PROVE  i \in 2..Len(r) /\ i + d \in 1..Len(s) /\ Same(r[i], s[i + d])
  <2>1. i \in 2..Len(r)
    BY <1>1, <1>3
  <2>2. i + d \in 2..Len(s) /\ Same(r[i], s[i + d])
    BY <1>2, <1>3, <2>1 DEF Shifted, Same
  <2> QED BY <2>1, <2>2
<1>4. ASSUME NEW i \in 1..Len(r), NEW k \in 1..Len(s), r[i].role = "agent", k > i + d
      PROVE  k - d \in 1..Len(r) /\ Same(r[k - d], s[k])
  <2>1. i \in 2..Len(r)
    BY <1>3, <1>4
  <2>2. k - d \in i + 1..Len(r) /\ Same(r[k - d], s[k])
    BY <1>2, <1>4, <2>1 DEF Shifted, Same
  <2> QED BY <2>1, <2>2
<1> QED BY <1>3, <1>4 DEF Aligned

\* Messages that are changed in place stay where they are.
LEMMA RewordedAligns ==
  ASSUME NEW s \in Seq(Message), Len(s) >= 1, NEW r, Reworded(s, r)
  PROVE  Aligned(s, r, 0) /\ r[1].role = s[1].role
<1>1. Len(s) \in Nat /\ r \in Seq(Message) /\ Len(r) = Len(s)
      /\ \A i \in 1..Len(s) : Same(r[i], s[i])
  BY DEF Reworded, Told, Same
<1>2. \A i \in 1..Len(s) : i + 0 = i /\ i - 0 = i
  BY <1>1
<1>3. 1 \in 1..Len(s)
  BY <1>1
<1>4. Aligned(s, r, 0)
  BY <1>1, <1>2 DEF Aligned, Same
<1> QED BY <1>1, <1>3, <1>4 DEF Same

\* The invariant over the session file is the property.
LEMMA StoredInWords ==
  /\ StoredCallsAnswered <=> (~broken /\ clobbered = {} => AnsweredBut(stored, {}))
  /\ StoredCallsAnswered' <=> (~broken' /\ clobbered' = {} => AnsweredBut(stored', {}))
<1>1. ASSUME NEW s
      PROVE  AnsweredBut(s, {}) <=>
               \A i \in DOMAIN s : s[i].role = "agent" =>
                 \A c \in s[i].calls :
                   \E j \in DOMAIN s :
                     /\ i < j /\ s[j].role = "tool" /\ c \in s[j].calls
                     /\ \A k \in DOMAIN s : s[k].role = "tool" /\ c \in s[k].calls => k = j
  <2>1. \A c, k : ResultAt(s, c, k) <=> k \in DOMAIN s /\ s[k].role = "tool" /\ c \in s[k].calls
    BY DEF ResultAt
  <2>2. \A i, c : AnsweredOnce(s, i, c) <=>
          \E j \in DOMAIN s :
            /\ i < j /\ s[j].role = "tool" /\ c \in s[j].calls
            /\ \A k \in DOMAIN s : s[k].role = "tool" /\ c \in s[k].calls => k = j
    BY <2>1 DEF AnsweredOnce
  <2> QED BY <2>2 DEF AnsweredBut
<1> QED BY <1>1 DEF StoredCallsAnswered

\* A compacted context answers its calls if the context did.
LEMMA AlignedBut ==
  ASSUME NEW s \in Seq(Message), NEW r \in Seq(Message), NEW d \in Int, Aligned(s, r, d),
         NEW open, AnsweredBut(s, open)
  PROVE  AnsweredBut(r, open)
<1>1. ASSUME NEW i \in DOMAIN r, r[i].role = "agent", NEW c \in r[i].calls
      PROVE  IF c \in open THEN Unanswered(r, c) ELSE AnsweredOnce(r, i, c)
  <2>1. /\ i + d \in DOMAIN s /\ s[i + d].role = "agent" /\ r[i].calls = s[i + d].calls
        /\ Unanswered(s, c) => Unanswered(r, c)
        /\ AnsweredOnce(s, i + d, c) => AnsweredOnce(r, i, c)
    BY <1>1, AlignedAnswers
  <2>2. IF c \in open THEN Unanswered(s, c) ELSE AnsweredOnce(s, i + d, c)
    BY <1>1, <2>1 DEF AnsweredBut
  <2> QED BY <2>1, <2>2
<1> QED BY <1>1 DEF AnsweredBut

\* What a failed compaction and an overwritten context leave is left for good.
LEMMA HistoryIsKept ==
  ASSUME TypeOK, ExitComesLast, Next, ~broken', clobbered' = {}
  PROVE  ~broken /\ clobbered = {} /\ (Begin \/ run' = run)
<1>1. CASE Consume
  <2>1. Taken
    BY <1>1, ConsumeFacts
  <2>2. broken' = broken /\ run' = run
    BY <2>1 DEF Taken, loopVars
  <2> QED BY <1>1, <2>2, ConsumeFacts, SessionAppendsFacts DEF sliceVars
<1>2. CASE LoopStep
  <2>1. broken' = broken \/ broken'
    BY <1>2 DEF LoopStep, TopOfTurn, Completes, Mistake, Caution, CompletionFails, Overflows,
                AppendAnswer, Compact, CompactionFails, CallSucceeds, CallFails, AnswerFailed,
                Answered, CallHangs, CallsDone, Exit
  <2> QED BY <1>2, <2>1, LoopStepOnSlices
<1>3. CASE Begin
  BY <1>3 DEF Begin
<1>4. CASE Cancel
  BY <1>4 DEF Cancel, sliceVars
<1> QED BY <1>1, <1>2, <1>3, <1>4 DEF Next

\* The loop's context answers the calls it has.
LEMMA ContextStep ==
  /\ TypeOK /\ Counters /\ ExitComesLast /\ NothingFromTheFuture /\ ContextAnswered
  /\ StoredCallsAnswered /\ Next
  => ContextAnswered'
<1> USE DEF LGoto
<1> SUFFICES ASSUME TypeOK, Counters, ExitComesLast, NothingFromTheFuture, ContextAnswered,
                    StoredCallsAnswered, Next, ~broken', clobbered' = {}, run' >= 1
             PROVE  (messages[1].role = "system" /\ AnsweredBut(messages, InHand))'
  BY DEF ContextAnswered
<1>1. ~broken /\ clobbered = {} /\ (Begin \/ run' = run)
  BY HistoryIsKept
<1>2. /\ messages \in Seq(Message) /\ stored \in Seq(Message) /\ DOMAIN messages = 1..Len(messages)
      /\ Len(messages) \in Nat /\ reply.calls \in Nat /\ turn \in Nat
  BY Bounds DEF TypeOK
<1>3. CASE Begin
  <2>1. Aligned(stored, messages', -1) /\ messages' \in Seq(Message) /\ messages'[1].role = "system"
    BY <1>3, BeginAligns, BeginFacts DEF SystemMsg, Text
  <2>2. AnsweredBut(stored, {})
    BY <1>1, StoredInWords
  <2>3. InHand' = {}
    BY <1>3 DEF Begin, InHand, Calling
  <2>4. AnsweredBut(messages', {})
    BY <1>2, <2>1, <2>2, AlignedBut
  <2> QED BY <2>1, <2>3, <2>4
<1> SUFFICES ASSUME ~Begin
             PROVE  messages'[1].role = "system" /\ AnsweredBut(messages', InHand')
  BY <1>3 DEF AnsweredBut, Unanswered, AnsweredOnce, ResultAt
<1>4. run >= 1 /\ run' = run /\ messages[1].role = "system" /\ AnsweredBut(messages, InHand)
      /\ Len(messages) >= 2
  BY <1>1 DEF ContextAnswered, Counters
<1>5. (lpc' = lpc \/ (lpc \in Calling /\ lpc' \in Calling) \/ (lpc \notin Calling /\ lpc' \notin Calling))
      /\ (lpc \in Calling => turn' = turn /\ reply' = reply) => InHand' = InHand
  BY DEF InHand
<1>6. CASE Consume
  <2>1. Taken
    BY <1>6, ConsumeFacts
  <2>2. messages' = messages
    BY <1>6, ConsumeFacts, SessionAppendsFacts DEF sliceVars
  <2> QED BY <1>4, <1>5, <2>1, <2>2 DEF Taken, loopVars
<1>7. CASE Cancel
  BY <1>4, <1>5, <1>7 DEF Cancel, sliceVars
<1>8. CASE Completes
  <2>1. lpc = "complete" /\ lpc' = "append" /\ turn' = turn /\ messages' = messages
    BY <1>8 DEF Completes, sliceVars
  <2>2. Mentions(messages, turn - 1)
    BY <1>1, <2>1 DEF NothingFromTheFuture, Appended
  <2>3. InHand = {} /\ \A c \in InHand' : c[1] = turn
    BY <2>1 DEF InHand, Calling
  <2>4. ASSUME NEW i \in DOMAIN messages, NEW c \in messages[i].calls PROVE c \notin InHand'
    <3>1. c[1] <= turn - 1
      BY <2>2, <2>4 DEF Mentions, Known
    <3> QED BY <1>2, <2>3, <3>1
  <2> QED BY <1>4, <2>1, <2>3, <2>4 DEF AnsweredBut
<1>9. CASE CallsDone /\ reply.calls = 0
  <2>1. messages' = messages /\ InHand' = {} /\ InHand = {}
    BY <1>9 DEF CallsDone, InHand, sliceVars
  <2> QED BY <1>4, <2>1
<1>10. CASE Compact
  <2>1. Keeps(messages, messages', turn) /\ messages' \in Seq(Message) /\ turn' = turn /\ reply' = reply
        /\ lpc' = AfterCompaction
    BY <1>10, CompactFacts
  <2>2. InHand' = InHand
    BY <1>5, <1>10 DEF Compact, AfterCompaction, Calling
  <2>3. PICK d \in Int : Aligned(messages, messages', d)
    BY <1>2, <1>4, <2>1, CompactAligns
  <2>4. AnsweredBut(messages', InHand)
    BY <1>2, <1>4, <2>1, <2>3, AlignedBut
  <2> QED BY <1>4, <2>1, <2>2, <2>4 DEF Keeps
<1>11. CASE /\ LoopAppends(Words) /\ lpc \in {"complete", "caution", "append", "calls"}
            /\ Mistake \/ Caution \/ AppendAnswer \/ CallsDone
  <2>1. /\ Words \in Seq(Message) /\ Len(Words) \in Nat
        /\ Len(Words) = IF lpc = "calls" THEN reply.calls ELSE 1
        /\ \A i \in 1..Len(Words) : Words[i] =
              CASE lpc = "complete" -> Text("agent", <<"mistake", turn>>)
                [] lpc = "caution"  -> Text("user", <<"caution", turn>>)
                [] lpc = "append"   -> Answer(turn, reply.calls)
                [] OTHER            -> ToolResult(turn, i)
    BY <1>11, WordsAreMessages
  <2>2. /\ messages' \in Seq(Message) /\ Len(messages') = Len(messages) + Len(Words)
        /\ \A i \in 1..Len(messages) : messages'[i] = messages[i]
        /\ \A i \in 1..Len(Words) : messages'[Len(messages) + i] = Words[i]
    BY <1>11, <2>1, LoopAppendsFacts
  <2>3. /\ DOMAIN messages' = 1..Len(messages) + Len(Words)
        /\ \A k \in Len(messages) + 1..Len(messages') :
             k - Len(messages) \in 1..Len(Words) /\ messages'[k] = Words[k - Len(messages)]
    <3>1. \A k \in Len(messages) + 1..Len(messages') :
            k - Len(messages) \in 1..Len(Words) /\ Len(messages) + (k - Len(messages)) = k
      <4>1. Len(messages) \in Nat /\ Len(Words) \in Nat /\ Len(messages') = Len(messages) + Len(Words)
        BY <1>2, <2>1, <2>2
      <4> QED BY <4>1
    <3> QED BY <2>2, <3>1
  <2>4. messages'[1].role = "system"
    BY <1>2, <1>4, <2>2
  <2>5. \A i \in DOMAIN messages' : i \in 1..Len(messages) \/ i \in Len(messages) + 1..Len(messages')
    BY <1>2, <2>1, <2>2, <2>3
  <2>6. Len(messages) <= Len(messages')
    BY <1>2, <2>1, <2>2
  <2>7. CASE lpc # "calls"
    <3>1. InHand' = InHand
      BY <1>5, <1>11, <2>7 DEF Mistake, Caution, AppendAnswer, CallsDone, Calling
    <3>2. Len(Words) = 1 /\ Words[1].role \in {"agent", "user"}
          /\ (Words[1].calls = {} \/ (lpc = "append" /\ Words[1].calls = InHand))
      <4>1. Len(Words) = 1 /\ 1 \in 1..Len(Words)
        BY <2>1, <2>7
      <4>2. \/ Words[1] = Text("agent", <<"mistake", turn>>)
            \/ Words[1] = Text("user", <<"caution", turn>>)
            \/ lpc = "append" /\ Words[1] = Answer(turn, reply.calls)
        BY <1>11, <2>1, <2>7, <4>1
      <4>3. \A r, x : Text(r, x).role = r /\ Text(r, x).calls = {}
        BY DEF Text
      <4>4. lpc = "append" => InHand = {turn} \X (1..reply.calls)
        BY DEF InHand, Calling
      <4>5. CASE Words[1] = Text("agent", <<"mistake", turn>>)
        <5>1. Words[1].role = "agent" /\ Words[1].calls = {}
          BY <4>3, <4>5
        <5> QED BY <4>1, <5>1
      <4>6. CASE Words[1] = Text("user", <<"caution", turn>>)
        <5>1. Words[1].role = "user" /\ Words[1].calls = {}
          BY <4>3, <4>6
        <5> QED BY <4>1, <5>1
      <4>7. CASE lpc = "append" /\ Words[1] = Answer(turn, reply.calls)
        <5>1. Words[1].role = "agent" /\ Words[1].calls = InHand
          BY <4>4, <4>7 DEF Answer
        <5> QED BY <4>1, <4>7, <5>1
      <4> QED BY <4>2, <4>5, <4>6, <4>7
    <3>3. \A k \in Len(messages) + 1..Len(messages') : messages'[k] = Words[1]
      BY <1>2, <2>2, <2>3, <3>2
    <3>4. \A c, k : k \in Len(messages) + 1..Len(messages') => ~ResultAt(messages', c, k)
      BY <3>2, <3>3 DEF ResultAt
    <3>5. \A c : /\ Unanswered(messages, c) => Unanswered(messages', c)
                 /\ \A i \in 1..Len(messages) : AnsweredOnce(messages, i, c) => AnsweredOnce(messages', i, c)
      BY <1>2, <2>2, <2>6, <3>4, AppendedAnswers
    <3>6. ASSUME lpc = "append", NEW c \in InHand PROVE Unanswered(messages, c)
      <4>1. Mentions(messages, turn - 1)
        BY <1>1, <3>6 DEF NothingFromTheFuture, Appended
      <4>2. c[1] = turn
        BY <3>6 DEF InHand
      <4>3. \A k \in DOMAIN messages : c \notin messages[k].calls
        <5>1. \A k \in DOMAIN messages : c \in messages[k].calls => c[1] <= turn - 1
          BY <4>1 DEF Mentions, Known
        <5> QED BY <1>2, <4>2, <5>1
      <4> QED BY <4>3 DEF Unanswered, ResultAt
    <3>7. ASSUME NEW i \in DOMAIN messages', messages'[i].role = "agent", NEW c \in messages'[i].calls
          PROVE  IF c \in InHand THEN Unanswered(messages', c) ELSE AnsweredOnce(messages', i, c)
      <4>1. CASE i \in 1..Len(messages)
        <5>1. messages'[i] = messages[i] /\ i \in DOMAIN messages
          BY <1>2, <2>2, <4>1
        <5>2. IF c \in InHand THEN Unanswered(messages, c) ELSE AnsweredOnce(messages, i, c)
          BY <1>4, <3>7, <5>1 DEF AnsweredBut
        <5> QED BY <3>5, <4>1, <5>2
      <4>2. CASE i \in Len(messages) + 1..Len(messages')
        BY <3>2, <3>3, <3>5, <3>6, <4>2
      <4> QED BY <2>5, <4>1, <4>2
    <3> QED BY <2>4, <3>1, <3>7 DEF AnsweredBut
  <2>8. CASE lpc = "calls"
    <3>1. InHand' = {} /\ InHand = {turn} \X (1..reply.calls)
      BY <1>11, <2>8 DEF Mistake, Caution, AppendAnswer, CallsDone, InHand, Calling
    <3>2. \A k \in Len(messages) + 1..Len(messages') :
            messages'[k].role = "tool" /\ messages'[k].calls = {<<turn, k - Len(messages)>>}
      <4>1. \A i \in 1..Len(Words) : Words[i] = ToolResult(turn, i)
        BY <2>1, <2>8
      <4>2. \A k \in Len(messages) + 1..Len(messages') : messages'[k] = ToolResult(turn, k - Len(messages))
        BY <2>3, <4>1
      <4>3. \A t, n : ToolResult(t, n).role = "tool" /\ ToolResult(t, n).calls = {<<t, n>>}
        BY DEF ToolResult
      <4> QED BY <4>2, <4>3
    <3>3. ASSUME NEW c, c \notin InHand, NEW k \in Len(messages) + 1..Len(messages')
          PROVE  ~ResultAt(messages', c, k)
      <4>1. k - Len(messages) \in 1..reply.calls
        BY <2>1, <2>3, <2>8
      <4> QED BY <3>1, <3>2, <3>3, <4>1 DEF ResultAt
    <3>4. ASSUME NEW c \in InHand
          PROVE  \E k \in Len(messages) + 1..Len(messages') :
                   /\ ResultAt(messages', c, k)
                   /\ \A l \in Len(messages) + 1..Len(messages') : ResultAt(messages', c, l) => l = k
      <4>1. PICK n \in 1..reply.calls : c = <<turn, n>>
        BY <3>1
      <4>2. PICK k \in Len(messages) + 1..Len(messages') : k = Len(messages) + n /\ k - Len(messages) = n
        BY <1>2, <2>1, <2>2, <2>8
      <4>3. k \in DOMAIN messages'
        BY <1>2, <2>2, <2>3
      <4>4. ResultAt(messages', c, k)
        BY <3>2, <4>1, <4>2, <4>3 DEF ResultAt
      <4>5. ASSUME NEW l \in Len(messages) + 1..Len(messages'), ResultAt(messages', c, l) PROVE l = k
        <5>1. c \in {<<turn, l - Len(messages)>>}
          BY <3>2, <4>5 DEF ResultAt
        <5>2. l - Len(messages) = n
          BY <4>1, <5>1
        <5> QED BY <1>2, <4>2, <5>2
      <4> QED BY <4>4, <4>5
    <3>5. ASSUME NEW i \in DOMAIN messages', messages'[i].role = "agent", NEW c \in messages'[i].calls
          PROVE  AnsweredOnce(messages', i, c)
      <4>1. i \in 1..Len(messages)
        BY <2>5, <3>2, <3>5
      <4>2. messages'[i] = messages[i] /\ i \in DOMAIN messages
        BY <1>2, <2>2, <4>1
      <4>3. IF c \in InHand THEN Unanswered(messages, c) ELSE AnsweredOnce(messages, i, c)
        BY <1>4, <3>5, <4>2 DEF AnsweredBut
      <4>4. CASE c \in InHand
        BY <1>2, <2>2, <2>6, <3>4, <4>1, <4>3, <4>4, AppendedAnswers
      <4>5. CASE c \notin InHand
        BY <1>2, <2>2, <2>6, <3>3, <4>1, <4>3, <4>5, AppendedAnswers
      <4> QED BY <4>4, <4>5
    <3> QED BY <2>4, <3>1, <3>5 DEF AnsweredBut
  <2> QED BY <2>7, <2>8
<1>12. CASE /\ UNCHANGED sliceVars /\ LoopStep /\ ~Completes /\ ~Compact
            /\ ~(CallsDone /\ reply.calls = 0)
  <2>1. messages' = messages
    BY <1>12 DEF sliceVars
  <2>2. ~CallsDone /\ ~AppendAnswer
    <3>1. ASSUME LoopAppends(Words), lpc \in {"append", "calls"}, lpc = "calls" => reply.calls # 0
          PROVE  FALSE
      <4>1. Words \in Seq(Message) /\ Len(Words) # 0 /\ Len(Words) \in Nat
        <5>1. Words \in Seq(Message) /\ Len(Words) = IF lpc = "calls" THEN reply.calls ELSE 1
          BY <3>1, WordsAreMessages
        <5> QED BY <3>1, <5>1
      <4>2. Len(messages') = Len(messages) + Len(Words)
        BY <3>1, <4>1, LoopAppendsFacts
      <4> QED BY <1>2, <2>1, <4>1, <4>2
    <3> QED BY <1>12, <3>1 DEF CallsDone, AppendAnswer, Words
  <2>3. InHand' = InHand
    BY <1>5, <1>12, <2>2
       DEF LoopStep, TopOfTurn, Mistake, Caution, CompletionFails, Overflows, CompactionFails,
           CallSucceeds, CallFails, AnswerFailed, Answered, CallHangs, Exit, Calling
  <2> QED BY <1>4, <2>1, <2>3
<1>13. CASE Asks
  <2>1. Reworded(messages, messages') /\ messages' \in Seq(Message) /\ Len(messages') = Len(messages)
    BY <1>13, AskFacts DEF Reworded
  <2>2. InHand' = {} /\ InHand = {}
    BY <1>13, AskFacts DEF Asks, InHand, Calling
  <2>3. Aligned(messages, messages', 0) /\ messages'[1].role = "system"
    BY <1>2, <1>4, <2>1, RewordedAligns
  <2>4. AnsweredBut(messages', {})
    BY <1>2, <1>4, <2>1, <2>2, <2>3, AlignedBut
  <2> QED BY <2>2, <2>3, <2>4
<1> QED BY <1>3, <1>6, <1>7, <1>8, <1>9, <1>10, <1>11, <1>12, <1>13, LoopStepOnSlices DEF Next
\* The results in the channel when an event is put into it, and when one is taken.
LEMMA ResultsAdded ==
  ASSUME TypeOK, NEW e \in Event, Added(e), NEW c
  PROVE  /\ \A k \in 1..Len(events) : ResultEvent(c, k)' <=> ResultEvent(c, k)
         /\ e.type # "toolResult" \/ <<e.turn, e.call>> # c =>
              /\ \A k : ResultEvent(c, k)' <=> ResultEvent(c, k)
              /\ \A i : ToCome(c, i) => ToCome(c, i)'
              /\ \A i : NotToCome(c, i) => NotToCome(c, i)'
         /\ e.type = "toolResult" /\ <<e.turn, e.call>> = c =>
              \A i \in 0..Len(events) : NotToCome(c, i) => ToCome(c, i)'
<1>0. PICK n \in Nat : n = Len(events) + 1 /\ Len(events') = n
  BY DEF TypeOK, Added
<1>1. /\ Len(events) \in Nat /\ DOMAIN events = 1..Len(events)
      /\ DOMAIN events' = 1..n /\ n \in DOMAIN events'
      /\ \A k \in 1..Len(events) : Passed(events[k], events'[k]) /\ k \in DOMAIN events'
      /\ events'[n] = e
      /\ \A k \in DOMAIN events' : k \in 1..Len(events) \/ k = n
      /\ n \notin DOMAIN events
      /\ \A i \in 0..Len(events) : i < n
  <2>1. Len(events) \in Nat /\ DOMAIN events = 1..Len(events)
    BY DEF TypeOK
  <2>2. DOMAIN events' = 1..n
    BY <1>0 DEF Added
  <2>3. \A k \in 1..Len(events) : Passed(events[k], events'[k])
    BY AddedFacts
  <2>4. events'[n] = e
    BY <1>0 DEF Added
  <2> QED BY <1>0, <2>1, <2>2, <2>3, <2>4
<1>2. \A k \in 1..Len(events) : ResultEvent(c, k)' <=> ResultEvent(c, k)
  BY <1>1 DEF ResultEvent, Passed
<1>3. ResultEvent(c, n)' <=> e.type = "toolResult" /\ <<e.turn, e.call>> = c
  BY <1>1 DEF ResultEvent
<1>4. \A k : ResultEvent(c, k) => k \in 1..Len(events)
  BY <1>1 DEF ResultEvent
<1>5. \A k : ResultEvent(c, k)' => k \in 1..Len(events) \/ k = n
  BY <1>1 DEF ResultEvent
<1>6. ASSUME e.type # "toolResult" \/ <<e.turn, e.call>> # c
      PROVE  /\ \A k : ResultEvent(c, k)' <=> ResultEvent(c, k)
             /\ \A i : ToCome(c, i) => ToCome(c, i)'
             /\ \A i : NotToCome(c, i) => NotToCome(c, i)'
  <2>1. \A k : ResultEvent(c, k)' <=> ResultEvent(c, k)
    <3> QED BY <1>2, <1>3, <1>4, <1>5, <1>6
  <2>2. ASSUME NEW i, ToCome(c, i) PROVE ToCome(c, i)'
    <3>1. PICK k \in DOMAIN events : /\ i < k /\ ResultEvent(c, k)
                                     /\ \A l \in DOMAIN events : i < l /\ ResultEvent(c, l) => k = l
      BY <2>2 DEF ToCome
    <3>2. k \in DOMAIN events' /\ ResultEvent(c, k)'
      BY <1>1, <2>1, <3>1
    <3>3. ASSUME NEW l \in DOMAIN events', i < l, ResultEvent(c, l)' PROVE k = l
      BY <1>1, <1>4, <2>1, <3>1, <3>3
    <3> QED BY <3>1, <3>2, <3>3 DEF ToCome
  <2>3. ASSUME NEW i, NotToCome(c, i) PROVE NotToCome(c, i)'
    <3>1. ASSUME NEW k, i < k, ResultEvent(c, k)' PROVE FALSE
      <4>1. ResultEvent(c, k) /\ k \in DOMAIN events
        BY <2>1, <3>1 DEF ResultEvent
      <4> QED BY <2>3, <3>1, <4>1 DEF NotToCome
    <3> QED BY <3>1 DEF NotToCome
  <2> QED BY <2>1, <2>2, <2>3
<1>7. ASSUME e.type = "toolResult", <<e.turn, e.call>> = c, NEW i \in 0..Len(events), NotToCome(c, i)
      PROVE  ToCome(c, i)'
  <2>1. n \in DOMAIN events' /\ i < n /\ ResultEvent(c, n)'
    BY <1>1, <1>3, <1>7
  <2>2. ASSUME NEW l \in DOMAIN events', i < l, ResultEvent(c, l)' PROVE n = l
    <3>1. l \notin 1..Len(events)
      <4>1. l \in 1..Len(events) => ResultEvent(c, l) /\ l \in DOMAIN events
        BY <1>1, <1>2, <2>2
      <4> QED BY <1>7, <2>2, <4>1 DEF NotToCome
    <3> QED BY <1>1, <3>1
  <2> QED BY <2>1, <2>2 DEF ToCome
<1> QED BY <1>2, <1>6, <1>7

\* When the first event is taken, the result it may have is no longer to come.
LEMMA ResultsTaken ==
  ASSUME TypeOK, Taken, NEW c
  PROVE  /\ \A k \in Nat : ResultEvent(c, k)' => ResultEvent(c, k + 1)
         /\ \A i \in Nat : ToCome(c, i + 1) => ToCome(c, i)'
         /\ \A i \in Nat : NotToCome(c, i + 1) => NotToCome(c, i)'
         /\ NotToCome(c, 0) => NotToCome(c, 1) /\ ~ResultEvent(c, 1)
         /\ ~ResultEvent(c, 1) /\ ToCome(c, 0) => ToCome(c, 1)
         /\ ResultEvent(c, 1) /\ ToCome(c, 0) => NotToCome(c, 1)
<1>1. /\ Len(events) \in Nat /\ DOMAIN events = 1..Len(events) /\ 1 \in DOMAIN events
      /\ DOMAIN events' = 1..Len(events) - 1
      /\ \A k \in DOMAIN events' : events'[k] = events[k + 1] /\ k + 1 \in DOMAIN events /\ k \in Nat
      /\ \A k \in DOMAIN events : k \in Nat /\ (k # 1 => k - 1 \in DOMAIN events' /\ (k - 1) + 1 = k)
  <2>1. /\ Len(events) \in Nat /\ DOMAIN events = 1..Len(events) /\ Len(events) >= 1
        /\ DOMAIN events' = 1..Len(events) - 1
    BY DEF TypeOK, Taken
  <2>2. \A k \in 1..Len(events) - 1 : events'[k] = events[k + 1]
    BY DEF Taken
  <2> QED BY <2>1, <2>2
<1>2. \A k \in DOMAIN events' : ResultEvent(c, k)' <=> ResultEvent(c, k + 1)
  BY <1>1 DEF ResultEvent
<1>3. \A k \in Nat : ResultEvent(c, k)' => ResultEvent(c, k + 1)
  BY <1>2 DEF ResultEvent
<1>4. ASSUME NEW i \in Nat, ToCome(c, i + 1) PROVE ToCome(c, i)'
  <2>1. PICK k \in DOMAIN events : /\ i + 1 < k /\ ResultEvent(c, k)
                                   /\ \A l \in DOMAIN events : i + 1 < l /\ ResultEvent(c, l) => k = l
    BY <1>4 DEF ToCome
  <2>2. PICK m \in DOMAIN events' : m + 1 = k /\ i < m
    <3>1. k # 1 /\ i < k - 1
      BY <1>1, <2>1
    <3> QED BY <1>1, <3>1
  <2>3. ResultEvent(c, m)'
    BY <1>2, <2>1, <2>2
  <2>4. ASSUME NEW l \in DOMAIN events', i < l, ResultEvent(c, l)' PROVE m = l
    <3>1. l + 1 \in DOMAIN events /\ i + 1 < l + 1 /\ l \in Nat /\ m \in Nat
      BY <1>1, <2>4
    <3>2. k = l + 1
      BY <1>2, <2>1, <2>4, <3>1
    <3> QED BY <2>2, <3>1, <3>2
  <2> QED BY <2>2, <2>3, <2>4 DEF ToCome
<1>5. ASSUME NEW i \in Nat, NotToCome(c, i + 1) PROVE NotToCome(c, i)'
  <2>1. ASSUME NEW k \in DOMAIN events', i < k, ResultEvent(c, k)' PROVE FALSE
    <3>1. k + 1 \in DOMAIN events /\ i + 1 < k + 1 /\ ResultEvent(c, k + 1)
      BY <1>1, <1>2, <2>1
    <3> QED BY <1>5, <3>1 DEF NotToCome
  <2> QED BY <2>1 DEF NotToCome
<1>6. \A k \in DOMAIN events : 1 < k => 0 < k
  BY <1>1
<1>7. \A k \in DOMAIN events : 0 < k => k = 1 \/ 1 < k
  BY <1>1
<1>8. NotToCome(c, 0) => NotToCome(c, 1) /\ ~ResultEvent(c, 1)
  <2>1. 0 < 1
    OBVIOUS
  <2> QED BY <1>1, <1>6, <2>1 DEF NotToCome
<1>9. ~ResultEvent(c, 1) /\ ToCome(c, 0) => ToCome(c, 1)
  BY <1>6, <1>7 DEF ToCome
<1>10. ResultEvent(c, 1) /\ ToCome(c, 0) => NotToCome(c, 1)
  <2>1. 0 < 1 /\ \A k \in DOMAIN events : 1 < k => k # 1
    BY <1>1
  <2> QED BY <1>1, <1>6, <2>1 DEF ToCome, NotToCome
<1> QED BY <1>3, <1>4, <1>5, <1>8, <1>9, <1>10
\* What becomes of a call is the same after a step.
Stays(c) ==
  /\ \A k : ResultEvent(c, k)' => ResultEvent(c, k)
  /\ \A i : ToCome(c, i) => ToCome(c, i)'
  /\ \A i : NotToCome(c, i) => NotToCome(c, i)'
  /\ c \in Pending' <=> c \in Pending

\* A call is answered as before if nothing is said of it.
LEMMA CallStays ==
  ASSUME NEW c, Stays(c), NEW s, NEW j, NEW i
  PROVE  /\ CallAnswered(s, j, i, c) => CallAnswered(s, j, i, c)'
         /\ AnnouncedAnswered(s, j, i, c) => AnnouncedAnswered(s, j, i, c)'
<1>1. CallAnswered(s, j, i, c) => CallAnswered(s, j, i, c)'
  BY DEF Stays, CallAnswered, AnsweredOnce, Unanswered, ResultAt
<1>2. AnnouncedAnswered(s, j, i, c) => AnnouncedAnswered(s, j, i, c)'
  <2>1. \A k : ResultEvent(c, k) => k \in DOMAIN events
    BY DEF ResultEvent
  <2> QED BY <2>1 DEF Stays, AnnouncedAnswered, Unanswered, ResultAt
<1> QED BY <1>1, <1>2

\* The calls that wait for their result.
LEMMA PendingFacts ==
  ASSUME TypeOK, Counters, LoopStep
  PROVE  /\ Tells \/ Pending' = Pending \/ broken'
         /\ Completes => Pending = {} /\ \A c : c \in Pending' <=> c \in {turn} \X (1..reply'.calls)
         /\ (CallSucceeds \/ AnswerFailed) /\ Answered =>
              /\ <<turn, call>> \in Pending /\ <<turn, call>> \notin Pending'
              /\ \A c : c # <<turn, call>> => (c \in Pending' <=> c \in Pending)
<1> USE DEF LGoto
<1>0. call \in Nat /\ call >= 1 /\ reply.calls \in Nat
  BY Bounds DEF TypeOK
<1>1. CASE Completes
  <2>1. lpc = "complete" /\ lpc' = "append" /\ turn' = turn /\ call' = 1
    BY <1>1 DEF Completes
  <2>2. Pending = {} /\ Pending' = {turn} \X (1..reply'.calls)
    BY <2>1 DEF Pending, Calling
  <2>3. ~((CallSucceeds \/ AnswerFailed) /\ Answered)
    BY <2>1 DEF CallSucceeds, AnswerFailed
  <2> QED BY <1>1, <2>2, <2>3 DEF Tells
<1>2. CASE (CallSucceeds \/ AnswerFailed) /\ Answered
  <2>1. lpc \in {"calls", "answer", "hung"} /\ lpc' = "calls" /\ turn' = turn /\ reply' = reply /\ call' = call + 1
    BY <1>2 DEF CallSucceeds, AnswerFailed, Answered
  <2>2. call <= reply.calls
    BY <1>2 DEF CallSucceeds, AnswerFailed, Counters
  <2>3. Pending = {turn} \X (call..reply.calls) /\ Pending' = {turn} \X (call + 1..reply.calls)
    BY <2>1 DEF Pending, Calling
  <2>4. call \in call..reply.calls /\ call \notin call + 1..reply.calls
        /\ \A n : n # call => (n \in call..reply.calls <=> n \in call + 1..reply.calls)
    BY <1>0, <2>2
  <2>5. <<turn, call>> \in Pending /\ <<turn, call>> \notin Pending'
    BY <2>3, <2>4
  <2>6. ASSUME NEW c, c # <<turn, call>> PROVE c \in Pending' <=> c \in Pending
    <3>1. ASSUME c \in Pending PROVE c \in Pending'
      <4>1. PICK n \in call..reply.calls : c = <<turn, n>>
        BY <2>3, <3>1
      <4> QED BY <2>3, <2>4, <2>6, <4>1
    <3>2. ASSUME c \in Pending' PROVE c \in Pending
      <4>1. PICK n \in call + 1..reply.calls : c = <<turn, n>>
        BY <2>3, <3>2
      <4> QED BY <2>3, <2>4, <2>6, <4>1
    <3> QED BY <3>1, <3>2
  <2>7. ~Completes
    BY <2>1 DEF Completes
  <2> QED BY <1>2, <2>5, <2>6, <2>7 DEF Tells
<1>3. CASE ~Tells
  <2>1. CASE CallsDone
    <3>1. Pending = {}
      BY <1>0, <2>1 DEF CallsDone, Pending
    <3>2. Pending' = {}
      BY <2>1 DEF CallsDone, Pending, Calling
    <3> QED BY <1>3, <3>1, <3>2 DEF Tells
  <2>2. CASE ~CallsDone
    <3>1. /\ \/ (lpc \in Calling /\ lpc' \in Calling) \/ (lpc \notin Calling /\ lpc' \notin Calling)
             \/ broken'
          /\ lpc \in Calling => turn' = turn /\ reply' = reply /\ call' = call
      BY <1>3, <2>2
         DEF Tells, LoopStep, TopOfTurn, Mistake, Caution, CompletionFails, Overflows,
                AppendAnswer, Compact, AfterCompaction, CompactionFails, CallSucceeds, CallFails,
                AnswerFailed, Answered, CallHangs, Exit, Calling
    <3>2. Pending' = Pending \/ broken'
      BY <3>1 DEF Pending
    <3> QED BY <1>3, <3>2 DEF Tells
  <2> QED BY <2>1, <2>2
<1> QED BY <1>1, <1>2, <1>3 DEF Tells

\* Where the conversation starts is what it was, but for the messages that are changed.
LEMMA BaseWhenAsked ==
  ASSUME TypeOK, Asks, NEW j \in 0..Len(events'), Latest(j)'
  PROVE  /\ j \in 0..Len(events) /\ Latest(j)
         /\ Base(j) \in Seq(Message) /\ Reworded(Base(j), Base(j)')
         /\ Base(j)' = InPlace(Base(j), Shown)
<1>1. /\ events' \in Seq(Event) /\ Len(events') = Len(events) /\ events' = Sent(Shown)
      /\ \A i \in 1..Len(events) : Passed(events[i], events'[i])
      /\ sess' = InPlace(sess, Shown) /\ sess \in Seq(Message) /\ Reworded(sess, sess')
  BY AskFacts DEF TypeOK
<1>2. j \in 0..Len(events) /\ Latest(j)
  BY <1>1, LatestWhenPassed
<1>3. CASE j = 0
  BY <1>1, <1>2, <1>3 DEF Base
<1>4. CASE j # 0
  <2>1. j \in 1..Len(events) /\ events[j] \in Event /\ events[j].type = "compaction"
    BY <1>2, <1>4 DEF TypeOK, Latest, Compaction
  <2>2. events'[j].context = InPlace(events[j].context, Shown)
    BY <1>1, <2>1, ShownTells, SentFacts
  <2>3. events[j].context \in Seq(Message)
    BY <2>1, EventsAreTyped
  <2>4. Reworded(events[j].context, events'[j].context)
    BY <1>1, <2>1 DEF Passed
  <2> QED BY <1>2, <1>4, <2>2, <2>3, <2>4 DEF Base
<1> QED BY <1>3, <1>4

\* The calls are not touched by it.
LEMMA AnswersWhenAsked ==
  ASSUME TypeOK, Asks, NEW j \in 0..Len(events'), Latest(j)', AnsweredWith(Base(j), j)
  PROVE  AnsweredWith(Base(j), j)'
<1>1. PICK s, r : s = Base(j) /\ r = Base(j)'
  OBVIOUS
<1>2. /\ s \in Seq(Message) /\ Reworded(s, r) /\ AnsweredWith(s, j)
      /\ r \in Seq(Message) /\ Len(r) = Len(s)
  BY <1>1, BaseWhenAsked DEF Reworded
<1>3. /\ DOMAIN r = DOMAIN s /\ DOMAIN s = 1..Len(s)
      /\ \A k \in DOMAIN s : r[k].role = s[k].role /\ r[k].calls = s[k].calls
  BY <1>2 DEF Reworded, Told
<1>4. \A c, k : ResultAt(r, c, k) <=> ResultAt(s, c, k)
  BY <1>3 DEF ResultAt
<1>5. \A c, i : (AnsweredOnce(r, i, c) <=> AnsweredOnce(s, i, c)) /\ (Unanswered(r, c) <=> Unanswered(s, c))
  BY <1>3, <1>4 DEF AnsweredOnce, Unanswered
<1>6. /\ DOMAIN events' = DOMAIN events /\ DOMAIN events = 1..Len(events) /\ Len(events') = Len(events)
      /\ \A i \in DOMAIN events : Passed(events[i], events'[i])
  <2>1. events \in Seq(Event) /\ DOMAIN events = 1..Len(events)
    BY DEF TypeOK
  <2>2. /\ events' \in Seq(Event) /\ Len(events') = Len(events)
        /\ \A i \in 1..Len(events) : Passed(events[i], events'[i])
    BY AskFacts
  <2>3. DOMAIN events' = 1..Len(events')
    BY <2>2
  <2> QED BY <2>1, <2>2, <2>3
<1>7. \A c, k : ResultEvent(c, k)' <=> ResultEvent(c, k)
  BY <1>6 DEF ResultEvent, Passed
<1>8. /\ \A c, i : ToCome(c, i)' <=> ToCome(c, i)
      /\ \A c, i : NotToCome(c, i)' <=> NotToCome(c, i)
  BY <1>6, <1>7 DEF ToCome, NotToCome
<1>9. Pending = {} /\ Pending' = {}
  BY AskFacts DEF Asks, Pending, Calling
<1>10. ASSUME NEW i \in DOMAIN r, r[i].role = "agent", NEW c \in r[i].calls
       PROVE  CallAnswered(r, j, i, c)'
  <2>1. CallAnswered(s, j, i, c)
    BY <1>2, <1>3, <1>10 DEF AnsweredWith
  <2>2. AnsweredOnce(r, i, c)' <=> AnsweredOnce(s, i, c)
    BY <1>5 DEF AnsweredOnce, ResultAt
  <2>3. Unanswered(r, c)' <=> Unanswered(s, c)
    BY <1>5 DEF Unanswered, ResultAt
  <2> QED BY <1>8, <1>9, <2>1, <2>2, <2>3 DEF CallAnswered
<1>11. ASSUME NEW i \in j + 1..Len(events'), events'[i].type = "complete",
              NEW n \in 1..events'[i].calls
       PROVE  AnnouncedAnswered(r, j, i, <<events[i].turn, n>>)'
  <2>1. i \in DOMAIN events /\ i \in j + 1..Len(events)
    BY <1>6, <1>11
  <2>2. events[i] = events'[i]
    BY <1>6, <1>11, <2>1 DEF Passed
  <2>3. PICK c : c = <<events[i].turn, n>>
    OBVIOUS
  <2>4. AnnouncedAnswered(s, j, i, c)
    BY <1>2, <1>11, <2>1, <2>2, <2>3 DEF AnsweredWith
  <2>5. Unanswered(r, c)' <=> Unanswered(s, c)
    BY <1>5 DEF Unanswered, ResultAt
  <2>6. AnnouncedAnswered(r, j, i, c)'
    BY <1>6, <1>7, <1>8, <1>9, <2>4, <2>5 DEF AnnouncedAnswered
  <2> QED BY <2>2, <2>3, <2>6
<1>12. AnsweredWith(r, j)'
  BY <1>10, <1>11 DEF AnsweredWith
<1> QED BY <1>1, <1>12

\* With the session and what is in the channel, each call is answered, or pending.
LEMMA SessionLoopStep ==
  ASSUME TypeOK, Counters, ExitComesLast, NothingFromTheFuture, SharedArrayAgrees,
         SessionAnswered, ContextAnswered', Next, LoopStep, ~broken', clobbered' = {},
         NEW j \in 0..Len(events'), Latest(j)', NEW s, s = Base(j)'
  PROVE  AnsweredWith(s, j)'
<1>1. /\ ~broken /\ clobbered = {} /\ run \notin clobbered
      /\ \A l \in 0..Len(events) : Latest(l) => AnsweredWith(Base(l), l)
  BY HistoryIsKept DEF SessionAnswered
<1>2. ~Asks /\ ~Compact => sess' = sess
  BY <1>1, LoopKeepsSession
<1>3. Len(events) \in Nat /\ DOMAIN events = 1..Len(events) /\ turn \in Nat /\ j \in Nat
      /\ \A i \in j + 1..Len(events) : i \in DOMAIN events
  BY Bounds DEF TypeOK
<1>a. ASSUME NEW e \in Event, Added(e) PROVE events' # events /\ ~Asks
  <2>1. Len(events') = Len(events) + 1
    BY <1>a, AddedFacts
  <2>2. Asks => Len(events') = Len(events)
    BY AskFacts
  <2>3. Len(events) + 1 # Len(events)
    <3>1. \A n \in Nat : n + 1 # n
      OBVIOUS
    <3>2. Len(events) \in Nat
      BY <1>3
    <3> QED BY <3>1, <3>2
  <2> QED BY <2>1, <2>2, <2>3
<1>4. CASE events' = events /\ ~Asks
  <2>0. ~Compact
    BY <1>4, <1>a, CompactFacts
  <2>1. ~Tells /\ Pending' = Pending
    <3>1. ~Tells
      <4>1. Tells => \E e \in Event : Added(e)
        BY <1>4, LoopStepOnChannel
           DEF Tells, TopOfTurn, Caution, CompletionFails, Overflows, AppendAnswer,
               CompactionFails, CallHangs, CallsDone, Completes, CallSucceeds, AnswerFailed,
               Answered, LGoto
      <4> QED BY <1>4, <1>a, <4>1
    <3> QED BY <3>1, PendingFacts
  <2>2. Latest(j) /\ s = Base(j)
    BY <1>2, <1>4, <2>0 DEF Latest, Compaction, Base
  <2>3. AnsweredWith(s, j)
    BY <1>1, <1>4, <2>2
  <2> QED BY <1>4, <2>1, <2>3
          DEF AnsweredWith, CallAnswered, AnnouncedAnswered, AnsweredOnce, Unanswered, ResultAt,
              ToCome, NotToCome, ResultEvent
<1>5. ASSUME NEW e \in Event, Added(e), Announces(e), e.type = "compaction" PROVE AnsweredWith(s, j)'
  <2>1. Compact /\ e.context = messages'
    BY <1>5, AnnouncedFacts DEF Announces
  <2>2. PICK n \in Nat : n = Len(events) + 1 /\ Len(events') = n /\ events'[n] = e
    BY <1>3, <1>5, AddedFacts
  <2>3. j = n /\ j # 0
    BY <1>3, <1>5, <2>2, LatestWhenAdded
  <2>4. s = messages'
    BY <2>1, <2>2, <2>3 DEF Base
  <2>5. run' >= 1
    <3>1. lpc \in {"compact", "overflow"} /\ run' = run
      BY <2>1 DEF Compact
    <3> QED BY <3>1 DEF Counters
  <2>6. AnsweredBut(messages', InHand')
    <3>1. AnsweredBut(messages, InHand)'
      BY <1>1, <2>5 DEF ContextAnswered
    <3> QED BY <3>1 DEF AnsweredBut, Unanswered, AnsweredOnce, ResultAt
  <2>7. Pending' = InHand'
    <3>1. lpc' = "calls" => call' = 1
      BY <2>1 DEF Compact, AfterCompaction, Counters, LGoto
    <3>2. lpc' \in {"calls", "top"}
      BY <2>1 DEF Compact, AfterCompaction, LGoto
    <3> QED BY <3>1, <3>2 DEF Pending, InHand, Calling
  <2>8. DOMAIN events' = 1..n
    BY <1>5, <2>2, AddedFacts
  <2>9. \A c : NotToCome(c, j)'
    <3>1. \A k \in 1..n : ~(n < k)
      BY <2>2
    <3> QED BY <2>3, <2>8, <3>1 DEF NotToCome
  <2>10. ASSUME NEW i \in DOMAIN s, s[i].role = "agent", NEW c \in s[i].calls PROVE CallAnswered(s, j, i, c)'
    <3>1. IF c \in InHand' THEN Unanswered(s, c) ELSE AnsweredOnce(s, i, c)
      BY <2>4, <2>6, <2>10 DEF AnsweredBut
    <3>2. c \in InHand' <=> c \in Pending'
      BY <2>7
    <3> QED BY <2>9, <3>1, <3>2 DEF CallAnswered
  <2>11. j + 1..Len(events') = {}
    BY <2>2, <2>3
  <2> QED BY <2>10, <2>11 DEF AnsweredWith
<1>6. ASSUME NEW e \in Event, Added(e), Announces(e), e.type # "compaction" PROVE AnsweredWith(s, j)'
  <2>1. Latest(j) /\ j \in 0..Len(events)
    BY <1>3, <1>6, LatestWhenAdded
  <2>2. /\ \A i \in 1..Len(events) : events'[i] = events[i]
        /\ \A i \in j + 1..Len(events') : i \in j + 1..Len(events) \/ i = Len(events) + 1
        /\ events'[Len(events) + 1] = e
    BY <1>3, <1>6, AddedFacts
  <2>3. s = Base(j)
    <3>1. j # 0 => j \in 1..Len(events)
      BY <1>3, <2>1
    <3>2. ~Asks /\ ~Compact
      BY <1>6, <1>a, AnnouncedFacts
    <3> QED BY <1>2, <2>2, <3>1, <3>2 DEF Base
  <2>4. AnsweredWith(s, j)
    BY <1>1, <2>1, <2>3
  <2>5. ASSUME \A i, c : CallAnswered(s, j, i, c) /\ i \in DOMAIN s /\ c \in s[i].calls =>
                 CallAnswered(s, j, i, c)',
               \A i, n, c : AnnouncedAnswered(s, j, i, c) /\ i \in j + 1..Len(events)
                              /\ events[i].type = "complete" /\ c = <<events[i].turn, n>> =>
                 AnnouncedAnswered(s, j, i, c)',
               e.type = "complete" =>
                 \A i, n, c : i = Len(events) + 1 /\ n \in 1..e.calls /\ c = <<e.turn, n>> =>
                   AnnouncedAnswered(s, j, i, c)'
        PROVE  AnsweredWith(s, j)'
    <3>1. ASSUME NEW i \in DOMAIN s, s[i].role = "agent", NEW c \in s[i].calls PROVE CallAnswered(s, j, i, c)'
      BY <2>4, <2>5, <3>1 DEF AnsweredWith
    <3>2. ASSUME NEW i \in j + 1..Len(events'), events'[i].type = "complete", NEW n \in 1..events'[i].calls,
                 NEW c, c = <<events'[i].turn, n>>
          PROVE  AnnouncedAnswered(s, j, i, c)'
      <4>1. CASE i \in j + 1..Len(events)
        <5>1. events'[i] = events[i]
          BY <1>3, <2>2, <4>1
        <5>2. AnnouncedAnswered(s, j, i, c)
          BY <2>4, <3>2, <4>1, <5>1 DEF AnsweredWith
        <5> QED BY <2>5, <3>2, <4>1, <5>1, <5>2
      <4>2. CASE i = Len(events) + 1
        BY <2>2, <2>5, <3>2, <4>2
      <4> QED BY <2>2, <4>1, <4>2
    <3> QED BY <3>1, <3>2 DEF AnsweredWith
  <2>6. CASE ~Tells
    <3>1. e.type \notin {"complete", "toolResult"} /\ Pending' = Pending
      BY <1>6, <2>6, AnnouncedFacts, PendingFacts DEF Appends
    <3>2. \A c : Stays(c)
      BY <1>6, <3>1, ResultsAdded DEF Stays
    <3> QED BY <2>5, <3>1, <3>2, CallStays
  <2>7. CASE Completes
    <3>1. e.type = "complete" /\ e.turn = turn /\ e.calls = reply'.calls /\ lpc = "complete"
      <4>1. e.type = "complete"
        BY <1>6, <2>7, AnnouncedFacts
      <4> QED BY <1>6, <2>7, <4>1 DEF Announces, Completes
    <3>2. /\ Mentions(s, turn - 1)
          /\ \A k \in DOMAIN events : events[k].type \in {"complete", "toolResult"} =>
               events[k].turn <= turn - 1
      BY <2>1, <2>3, <3>1 DEF NothingFromTheFuture, Asked, Base, Latest
    <3>3. Pending = {} /\ \A c : c \in Pending' <=> c \in {turn} \X (1..e.calls)
      BY <2>7, <3>1, PendingFacts
    <3>4. ASSUME NEW c, c[1] <= turn - 1 PROVE Stays(c)
      <4>1. c \notin Pending'
        BY <1>3, <3>3, <3>4
      <4> QED BY <1>6, <3>1, <3>3, <4>1, ResultsAdded DEF Stays
    <3>5. ASSUME NEW i \in DOMAIN s, NEW c \in s[i].calls PROVE c[1] <= turn - 1
      BY <3>2 DEF Mentions, Known
    <3>6. ASSUME NEW i \in j + 1..Len(events), events[i].type = "complete", NEW n, NEW c, c = <<events[i].turn, n>>
          PROVE  c[1] <= turn - 1
      BY <1>3, <3>2, <3>6
    <3>7. ASSUME NEW i, NEW n, NEW c, i = Len(events) + 1, n \in 1..e.calls, c = <<turn, n>>
          PROVE  AnnouncedAnswered(s, j, i, c)'
      <4>1. Unanswered(s, c)
        <5>1. ASSUME NEW k \in DOMAIN s, c \in s[k].calls PROVE FALSE
          BY <1>3, <3>5, <3>7, <5>1
        <5> QED BY <5>1 DEF Unanswered, ResultAt
      <4>2. \A k : ~ResultEvent(c, k)
        <5>1. ASSUME NEW k \in DOMAIN events, events[k].type = "toolResult", <<events[k].turn, events[k].call>> = c
              PROVE  FALSE
          <6>1. events[k].turn <= turn - 1 /\ events[k].turn = turn
            BY <3>2, <3>7, <5>1
          <6> QED BY <1>3, <6>1
        <5> QED BY <5>1 DEF ResultEvent
      <4>3. \A k : ~ResultEvent(c, k)'
        BY <1>6, <3>1, <4>2, ResultsAdded
      <4>4. NotToCome(c, i)'
        BY <4>3 DEF NotToCome
      <4>5. c \in Pending'
        BY <3>3, <3>7
      <4> QED BY <4>1, <4>3, <4>4, <4>5 DEF AnnouncedAnswered
    <3>8. \A i, n, c : i = Len(events) + 1 /\ n \in 1..e.calls /\ c = <<e.turn, n>> =>
            AnnouncedAnswered(s, j, i, c)'
      BY <3>1, <3>7
    <3>9. \A i, c : CallAnswered(s, j, i, c) /\ i \in DOMAIN s /\ c \in s[i].calls =>
            CallAnswered(s, j, i, c)'
      BY <3>4, <3>5, CallStays
    <3>10. \A i, n, c : AnnouncedAnswered(s, j, i, c) /\ i \in j + 1..Len(events)
                          /\ events[i].type = "complete" /\ c = <<events[i].turn, n>> =>
             AnnouncedAnswered(s, j, i, c)'
      BY <3>4, <3>6, CallStays
    <3> QED BY <2>5, <3>8, <3>9, <3>10
  <2>8. CASE (CallSucceeds \/ AnswerFailed) /\ Answered
    <3>1. e.type = "toolResult" /\ e.turn = turn /\ e.call = call
      <4>1. e.type = "toolResult"
        BY <1>6, <2>8, AnnouncedFacts
      <4> QED BY <1>6, <4>1 DEF Announces
    <3>2. /\ <<turn, call>> \in Pending /\ <<turn, call>> \notin Pending'
          /\ \A c : c # <<turn, call>> => (c \in Pending' <=> c \in Pending)
      BY <2>8, PendingFacts
    <3>3. ASSUME NEW c, c # <<turn, call>> PROVE Stays(c)
      BY <1>6, <3>1, <3>2, <3>3, ResultsAdded DEF Stays
    <3>4. PICK c0 : c0 = <<turn, call>>
      OBVIOUS
    <3>5. /\ \A k \in 1..Len(events) : ResultEvent(c0, k)' <=> ResultEvent(c0, k)
          /\ \A i \in 0..Len(events) : NotToCome(c0, i) => ToCome(c0, i)'
      BY <1>6, <3>1, <3>4, ResultsAdded
    <3>6. ASSUME NEW i, CallAnswered(s, j, i, c0) PROVE CallAnswered(s, j, i, c0)'
      <4>1. Unanswered(s, c0) /\ NotToCome(c0, j)
        BY <3>2, <3>4, <3>6 DEF CallAnswered
      <4>2. ToCome(c0, j)' /\ c0 \notin Pending'
        BY <2>1, <3>2, <3>4, <3>5, <4>1
      <4> QED BY <4>1, <4>2 DEF CallAnswered, Unanswered, ResultAt
    <3>7. ASSUME NEW i \in j + 1..Len(events), AnnouncedAnswered(s, j, i, c0) PROVE AnnouncedAnswered(s, j, i, c0)'
      <4>1. Unanswered(s, c0) /\ NotToCome(c0, i) /\ \A k \in DOMAIN events : j < k /\ k < i => ~ResultEvent(c0, k)
        BY <3>2, <3>4, <3>7 DEF AnnouncedAnswered
      <4>2. i \in 0..Len(events) /\ DOMAIN events' = 1..Len(events) + 1
            /\ \A k \in 1..Len(events) + 1 : k < i => k \in 1..Len(events)
        BY <1>3, <1>6, AddedFacts
      <4>3. ToCome(c0, i)' /\ c0 \notin Pending'
        BY <3>2, <3>4, <3>5, <4>1, <4>2
      <4>4. \A k \in DOMAIN events' : j < k /\ k < i => ~ResultEvent(c0, k)'
        BY <1>3, <3>5, <4>1, <4>2
      <4> QED BY <4>1, <4>3, <4>4 DEF AnnouncedAnswered
    <3>8. \A i, c : CallAnswered(s, j, i, c) => CallAnswered(s, j, i, c)'
      BY <3>3, <3>4, <3>6, CallStays
    <3>9. \A i, c : AnnouncedAnswered(s, j, i, c) /\ i \in j + 1..Len(events) => AnnouncedAnswered(s, j, i, c)'
      BY <3>3, <3>4, <3>7, CallStays
    <3> QED BY <2>5, <3>1, <3>8, <3>9
  <2> QED BY <2>6, <2>7, <2>8 DEF Tells
<1>7. CASE Asks
  BY <1>1, <1>7, BaseWhenAsked, AnswersWhenAsked
<1> QED BY <1>4, <1>5, <1>6, <1>7, LoopStepOnChannel

\* A result the consumer takes goes from the channel to the session.
LEMMA SessionConsumeStep ==
  ASSUME TypeOK, ExitComesLast, SessionAnswered, Next, Consume, ~broken', clobbered' = {},
         NEW j \in 0..Len(events'), Latest(j)', NEW s, s = Base(j)'
  PROVE  AnsweredWith(s, j)'
<1>1. \A l \in 0..Len(events) : Latest(l) => AnsweredWith(Base(l), l)
  BY HistoryIsKept DEF SessionAnswered
<1>2. Taken /\ events[1] \in Event /\ clobbered = {}
  BY ConsumeFacts, HistoryIsKept
<1>3. /\ Len(events) \in Nat /\ Len(events) >= 1 /\ DOMAIN events = 1..Len(events)
      /\ Len(events') = Len(events) - 1 /\ DOMAIN events' = 1..Len(events) - 1 /\ j \in Nat
      /\ \A i \in 1..Len(events) - 1 : events'[i] = events[i + 1]
  <2>1. /\ Len(events) \in Nat /\ Len(events) >= 1 /\ DOMAIN events = 1..Len(events)
        /\ Len(events') = Len(events) - 1 /\ DOMAIN events' = 1..Len(events) - 1
    BY <1>2 DEF TypeOK, Taken
  <2>2. \A i \in 1..Len(events) - 1 : events'[i] = events[i + 1]
    BY <1>2 DEF Taken
  <2> QED BY <2>1, <2>2
<1>4. \A c : c \in Pending' <=> c \in Pending
  BY <1>2 DEF Taken, loopVars, Pending
<1>5. ASSUME NEW c, NEW i \in Nat
      PROVE  (ToCome(c, i + 1) => ToCome(c, i)') /\ (NotToCome(c, i + 1) => NotToCome(c, i)')
  BY <1>2, ResultsTaken
\* The events behind the first, with a session t that has some of what s and the first say.
<1>6. ASSUME NEW i \in j + 1..Len(events'), events'[i].type = "complete", NEW n \in 1..events'[i].calls,
             NEW c, c = <<events'[i].turn, n>>, NEW t, NEW l, l \in {j, j + 1},
             AnsweredWith(t, l),
             Unanswered(t, c) /\ (\A k \in DOMAIN events : l < k /\ k < i + 1 => ~ResultEvent(c, k)) => Unanswered(s, c)
      PROVE  AnnouncedAnswered(s, j, i, c)'
  <2>1. /\ i \in 1..Len(events) - 1 /\ i \in Nat /\ i + 1 \in l + 1..Len(events) /\ events'[i] = events[i + 1]
    BY <1>3, <1>6
  <2>2. AnnouncedAnswered(t, l, i + 1, c)
    BY <1>6, <2>1 DEF AnsweredWith
  <2>3. Unanswered(s, c)
    BY <1>6, <2>2 DEF AnnouncedAnswered
  <2>4. \/ ToCome(c, i)' /\ c \notin Pending'
        \/ NotToCome(c, i)' /\ c \in Pending'
    <3>1. (ToCome(c, i + 1) => ToCome(c, i)') /\ (NotToCome(c, i + 1) => NotToCome(c, i)')
      BY <1>5, <2>1
    <3>2. \/ ToCome(c, i + 1) /\ c \notin Pending
          \/ NotToCome(c, i + 1) /\ c \in Pending
      BY <2>2 DEF AnnouncedAnswered
    <3> QED BY <1>4, <3>1, <3>2
  <2>5. ASSUME NEW k \in DOMAIN events', j < k, k < i, ResultEvent(c, k)' PROVE FALSE
    <3>1. k \in Nat /\ k + 1 \in DOMAIN events /\ l < k + 1 /\ k + 1 < i + 1
      BY <1>3, <1>6, <2>1, <2>5
    <3>2. ResultEvent(c, k + 1)
      BY <1>2, <2>5, <3>1, ResultsTaken
    <3> QED BY <2>2, <3>1, <3>2 DEF AnnouncedAnswered
  <2> QED BY <2>3, <2>4, <2>5 DEF AnnouncedAnswered
\* The event that is taken is before what the messages came with, or says nothing.
<1>7. ASSUME NEW l \in {j, j + 1}, l \in 0..Len(events), AnsweredWith(s, l), l = j => ~Appends(events[1])
      PROVE  AnsweredWith(s, j)'
  <2>1. ASSUME NEW c PROVE (ToCome(c, l) => ToCome(c, j + 1)) /\ (NotToCome(c, l) => NotToCome(c, j + 1))
    <3>1. CASE l = j + 1
      BY <3>1
    <3>2. CASE l = j /\ j = 0
      <4>1. ~ResultEvent(c, 1) /\ j + 1 = 1
        BY <1>7, <3>2 DEF Appends, ResultEvent
      <4> QED BY <1>2, <3>2, <4>1, ResultsTaken
    <3>3. CASE l = j /\ j # 0
      <4>1. \A k \in DOMAIN events : j + 1 < k => j < k
        BY <1>3
      <4>2. ~ResultEvent(c, j + 1)
        <5>1. Latest(j + 1)
          BY <1>2, <1>3, <3>3, LatestWhenTaken
        <5>2. events[j + 1].type = "compaction"
          BY <1>3, <5>1, <3>3 DEF Latest, Compaction
        <5> QED BY <5>2 DEF ResultEvent
      <4> QED BY <3>3, <4>1, <4>2 DEF ToCome, NotToCome
    <3> QED BY <1>7, <3>1, <3>2, <3>3
  <2>2. ASSUME NEW i \in DOMAIN s, s[i].role = "agent", NEW c \in s[i].calls PROVE CallAnswered(s, j, i, c)'
    <3>1. CallAnswered(s, l, i, c)
      BY <1>7, <2>2 DEF AnsweredWith
    <3>2. (ToCome(c, l) => ToCome(c, j)') /\ (NotToCome(c, l) => NotToCome(c, j)')
      <4>1. (ToCome(c, l) => ToCome(c, j + 1)) /\ (NotToCome(c, l) => NotToCome(c, j + 1))
        BY <2>1
      <4>2. (ToCome(c, j + 1) => ToCome(c, j)') /\ (NotToCome(c, j + 1) => NotToCome(c, j)')
        BY <1>3, <1>5
      <4> QED BY <4>1, <4>2
    <3> QED BY <1>4, <3>1, <3>2 DEF CallAnswered
  <2>3. ASSUME NEW i \in j + 1..Len(events'), events'[i].type = "complete", NEW n \in 1..events'[i].calls,
               NEW c, c = <<events'[i].turn, n>>
        PROVE  AnnouncedAnswered(s, j, i, c)'
    BY <1>6, <1>7, <2>3
  <2> QED BY <2>2, <2>3 DEF AnsweredWith
<1>8. CASE j # 0
  <2>1. Latest(j + 1) /\ j + 1 \in 0..Len(events) /\ j \in 1..Len(events) - 1
    BY <1>2, <1>3, <1>8, LatestWhenTaken
  <2>2. s = Base(j + 1)
    BY <1>3, <1>8, <2>1 DEF Base
  <2> QED BY <1>1, <1>7, <2>1, <2>2
<1>9. CASE j = 0 /\ events[1].type = "compaction" /\ sess' = events[1].context
  <2>1. Latest(1) /\ 1 \in 0..Len(events)
    BY <1>2, <1>3, <1>9, LatestWhenTaken
  <2>2. s = Base(1) /\ 1 = j + 1
    BY <1>9 DEF Base
  <2> QED BY <1>1, <1>7, <1>9, <2>1, <2>2
<1>10. CASE j = 0 /\ events[1].type # "compaction" /\ ~Appends(events[1]) /\ sess' = sess
  <2>1. Latest(0) /\ 0 \in 0..Len(events)
    BY <1>2, <1>3, <1>10, LatestWhenTaken
  <2>2. s = Base(0)
    BY <1>10 DEF Base
  <2> QED BY <1>1, <1>7, <1>10, <2>1, <2>2
<1>11. CASE /\ j = 0 /\ Appends(events[1]) /\ Said(events[1]) \in Message
            /\ SessionAppends(Said(events[1]))
  <2>1. Latest(0) /\ 0 \in 0..Len(events)
    <3>1. events[1].type # "compaction"
      BY <1>11 DEF Appends
    <3>2. Latest(0)' <=> Latest(0)
      BY <1>2, <3>1, LatestWhenTaken
    <3>3. Latest(0)
      BY <1>11, <3>2
    <3> QED BY <1>3, <3>3
  <2>2. s = sess' /\ Base(0) = sess
    BY <1>11 DEF Base
  <2>3. AnsweredWith(sess, 0)
    BY <1>1, <2>1, <2>2
  <2>4. PICK z \in Nat : z = Len(sess)
    BY DEF TypeOK
  <2>5. PICK m \in Message : m = Said(events[1])
    BY <1>11
  <2>6. /\ sess \in Seq(Message) /\ s \in Seq(Message) /\ Len(s) = z + 1 /\ DOMAIN sess = 1..z
        /\ DOMAIN s = 1..z + 1
        /\ \A i \in 1..z : s[i] = sess[i]
        /\ s[z + 1] = m
    <3>1. sess \in Seq(Message)
      BY DEF TypeOK
    <3>2. /\ s \in Seq(Message) /\ Len(s) = z + 1
          /\ \A i \in 1..z : s[i] = sess[i]
          /\ s[z + 1] = m
      BY <1>11, <2>2, <2>4, <2>5, SessionAppendsFacts
    <3> QED BY <2>4, <3>1, <3>2
  <2>7. Len(sess) <= Len(s) /\ (\A k : k \in Len(sess) + 1..Len(s) <=> k = z + 1)
        /\ (\A i \in 1..Len(sess) : s[i] = sess[i]) /\ \A i \in DOMAIN s : i \in 1..z \/ i = z + 1
    BY <2>4, <2>6
  <2>8. ASSUME NEW c, ~(m.role = "tool" /\ c \in m.calls)
        PROVE  /\ Unanswered(sess, c) => Unanswered(s, c)
               /\ \A i \in 1..z : AnsweredOnce(sess, i, c) => AnsweredOnce(s, i, c)
    <3>1. \A k \in Len(sess) + 1..Len(s) : ~ResultAt(s, c, k)
      BY <2>6, <2>7, <2>8 DEF ResultAt
    <3> QED BY <2>4, <2>6, <2>7, <3>1, AppendedAnswers
  <2>9. ASSUME NEW c, m.role = "tool", c \in m.calls, Unanswered(sess, c), NEW i \in 1..z
        PROVE  AnsweredOnce(s, i, c)
    <3>1. z + 1 \in Len(sess) + 1..Len(s) /\ ResultAt(s, c, z + 1)
          /\ \A l \in Len(sess) + 1..Len(s) : ResultAt(s, c, l) => l = z + 1
      BY <2>6, <2>7, <2>9 DEF ResultAt
    <3> QED BY <2>6, <2>7, <2>9, <3>1, AppendedAnswers
  <2>10. \A c : ResultEvent(c, 1) <=> m.role = "tool" /\ c \in m.calls
    <3>1. CASE events[1].type = "complete"
      BY <2>5, <3>1 DEF ResultEvent, Said, Answer
    <3>2. CASE events[1].type = "toolResult"
      BY <1>3, <2>5, <3>2 DEF ResultEvent, Said, ToolResult
    <3> QED BY <1>11, <3>1, <3>2 DEF Appends
  <2>11. \A c : /\ ToCome(c, 1) => ToCome(c, 0)'
                /\ NotToCome(c, 1) => NotToCome(c, 0)'
    <3>1. 0 + 1 = 1 /\ 0 \in Nat
      OBVIOUS
    <3> QED BY <1>5, <3>1
  <2>12. ASSUME NEW i \in 1..z, s[i].role = "agent", NEW c \in s[i].calls PROVE CallAnswered(s, 0, i, c)'
    <3>1. CallAnswered(sess, 0, i, c)
      BY <2>3, <2>6, <2>12 DEF AnsweredWith
    <3>2. CASE ~ResultEvent(c, 1)
      <4>1. /\ Unanswered(sess, c) => Unanswered(s, c)
            /\ AnsweredOnce(sess, i, c) => AnsweredOnce(s, i, c)
        BY <2>8, <2>10, <3>2
      <4>2. (ToCome(c, 0) => ToCome(c, 0)') /\ (NotToCome(c, 0) => NotToCome(c, 0)')
        BY <1>2, <2>11, <3>2, ResultsTaken
      <4> QED BY <1>4, <3>1, <4>1, <4>2 DEF CallAnswered
    <3>3. CASE ResultEvent(c, 1)
      <4>1. Unanswered(sess, c) /\ ToCome(c, 0) /\ c \notin Pending
        BY <1>2, <3>1, <3>3, ResultsTaken DEF CallAnswered
      <4>2. AnsweredOnce(s, i, c) /\ NotToCome(c, 0)' /\ c \notin Pending'
        BY <1>2, <1>4, <2>9, <2>10, <3>3, <4>1, ResultsTaken
      <4> QED BY <4>2 DEF CallAnswered, AnsweredOnce, ResultAt
    <3> QED BY <3>2, <3>3
  <2>13. ASSUME NEW i, i = z + 1, s[i].role = "agent", NEW c \in s[i].calls PROVE CallAnswered(s, 0, i, c)'
    <3>1. events[1].type = "complete" /\ m.role = "agent"
          /\ \E n \in 1..events[1].calls : c = <<events[1].turn, n>>
      <4>1. m.role = "agent" /\ c \in m.calls
        BY <2>6, <2>13
      <4>2. events[1].type # "toolResult"
        BY <2>5, <4>1 DEF Said, ToolResult
      <4> QED BY <1>11, <2>5, <4>1, <4>2 DEF Appends, Said, Answer
    <3>2. AnnouncedAnswered(sess, 0, 1, c)
      <4>1. 1 \in 0 + 1..Len(events)
        BY <1>3
      <4> QED BY <2>3, <3>1, <4>1 DEF AnsweredWith
    <3>3. Unanswered(s, c)
      BY <2>8, <3>1, <3>2 DEF AnnouncedAnswered
    <3> QED BY <1>4, <2>11, <3>2, <3>3 DEF AnnouncedAnswered, CallAnswered
  <2>14. ASSUME NEW i \in j + 1..Len(events'), events'[i].type = "complete", NEW n \in 1..events'[i].calls,
                NEW c, c = <<events'[i].turn, n>>
         PROVE  AnnouncedAnswered(s, j, i, c)'
    <3>1. ASSUME Unanswered(sess, c), \A k \in DOMAIN events : 0 < k /\ k < i + 1 => ~ResultEvent(c, k)
          PROVE  Unanswered(s, c)
      <4>1. 1 \in DOMAIN events /\ 0 < 1 /\ 1 < i + 1
        BY <1>3, <2>14
      <4> QED BY <2>8, <2>10, <3>1, <4>1
    <3> QED BY <1>6, <1>11, <2>3, <2>14, <3>1
  <2>15. \A i \in DOMAIN s : s[i].role = "agent" => \A c \in s[i].calls : CallAnswered(s, j, i, c)'
    BY <1>11, <2>7, <2>12, <2>13
  <2> QED BY <2>14, <2>15 DEF AnsweredWith
<1> QED BY <1>8, <1>9, <1>10, <1>11, ConsumeFacts DEF Appends, sliceVars

\* At every step each call of the conversation keeps one result, or one to come.
LEMMA SessionStep ==
  ASSUME TypeOK, Counters, ExitComesLast, NothingFromTheFuture, SharedArrayAgrees,
         ContextAnswered', StoredCallsAnswered, SessionAnswered, Next
  PROVE  SessionAnswered'
<1> SUFFICES ASSUME ~broken', clobbered' = {}, NEW j \in 0..Len(events'), Latest(j)', NEW s, s = Base(j)'
             PROVE  AnsweredWith(s, j)'
  BY DEF SessionAnswered
<1>1. CASE Begin
  <2>1. events' = <<>> /\ j = 0 /\ s = sess' /\ lpc' = "top"
    BY <1>1 DEF Begin, LGoto, Base
  <2>2. AnsweredBut(stored, {})
    BY HistoryIsKept, StoredInWords
  <2>3. AnsweredBut(s, {})
    <3>1. stored \in Seq(Message) /\ s \in Seq(Message) /\ Aligned(stored, s, 0)
      BY <1>1, <2>1, BeginFacts, BeginAligns DEF TypeOK
    <3> QED BY <2>2, <3>1, AlignedBut
  <2>4. ASSUME NEW i \in DOMAIN s, s[i].role = "agent", NEW c \in s[i].calls PROVE CallAnswered(s, j, i, c)'
    <3>1. AnsweredOnce(s, i, c)
      BY <2>3, <2>4 DEF AnsweredBut
    <3>2. c \notin Pending' /\ NotToCome(c, j)'
      BY <2>1 DEF Pending, Calling, NotToCome, ResultEvent
    <3> QED BY <3>1, <3>2 DEF CallAnswered, AnsweredOnce, ResultAt
  <2>5. j + 1..Len(events') = {}
    BY <2>1
  <2> QED BY <2>4, <2>5 DEF AnsweredWith
<1>2. CASE Cancel
  <2>1. UNCHANGED <<lpc, turn, reply, call, events, sess, broken, clobbered>>
    BY <1>2 DEF Cancel, chanVars, sliceVars
  <2>2. Latest(j) /\ s = Base(j) /\ j \in 0..Len(events)
    BY <2>1 DEF Latest, Compaction, Base
  <2>3. AnsweredWith(s, j)
    BY <2>1, <2>2 DEF SessionAnswered
  <2> QED BY <2>1, <2>3
          DEF AnsweredWith, CallAnswered, AnnouncedAnswered, AnsweredOnce, Unanswered, ResultAt,
              ToCome, NotToCome, ResultEvent, Pending
<1>3. CASE LoopStep
  BY <1>3, SessionLoopStep
<1>4. CASE Consume
  BY <1>4, SessionConsumeStep
<1> QED BY <1>1, <1>2, <1>3, <1>4 DEF Next

\* What is saved is the session, when nothing is to come and nothing is pending.
LEMMA StoredStep ==
  ASSUME TypeOK, ExitComesLast, SessionAnswered, StoredCallsAnswered, Next
  PROVE  StoredCallsAnswered'
<1> SUFFICES ASSUME ~broken', clobbered' = {} PROVE AnsweredBut(stored', {})
  BY StoredInWords
<1>1. ~broken /\ clobbered = {} /\ AnsweredBut(stored, {})
  BY HistoryIsKept, StoredInWords
<1>2. CASE stored' = stored
  BY <1>1, <1>2
<1>3. CASE Consume /\ events[1].type = "exit" /\ stored' = sess
  <2>1. Len(events) \in Nat /\ Len(events) >= 1 /\ DOMAIN events = 1..Len(events)
    BY <1>3, ConsumeFacts DEF TypeOK, Taken
  <2>2. Len(events) = 1 /\ lpc = "idle"
    BY <1>3, <2>1 DEF ExitComesLast
  <2>3. Latest(0)
    BY <1>3, <2>1, <2>2 DEF Latest
  <2>4. AnsweredWith(sess, 0)
    BY <1>1, <2>2, <2>3 DEF SessionAnswered, Base
  <2>5. \A c, k : ~ResultEvent(c, k)
    BY <1>3, <2>1, <2>2 DEF ResultEvent
  <2>6. Pending = {}
    BY <2>2 DEF Pending, Calling
  <2>7. ASSUME NEW i \in DOMAIN sess, sess[i].role = "agent", NEW c \in sess[i].calls
        PROVE  AnsweredOnce(sess, i, c)
    <3>1. CallAnswered(sess, 0, i, c)
      BY <2>4, <2>7 DEF AnsweredWith
    <3> QED BY <2>5, <2>6, <3>1 DEF CallAnswered, ToCome
  <2> QED BY <1>3, <2>7 DEF AnsweredBut
<1>4. CASE Begin \/ Cancel
  BY <1>2, <1>4 DEF Begin, Cancel
<1>5. CASE LoopStep
  BY <1>2, <1>5, LoopStepOnSlices
<1> QED BY <1>2, <1>3, <1>4, <1>5, ConsumeFacts DEF Next

-----------------------------------------------------------------------------
(***************************************************************************)
(* What is spoken of a sequence that is one message longer.  The proofs by *)
(* induction are by the least counterexample: the order of the numbers is  *)
(* well-founded, so that a set of them has a least one.                    *)
(***************************************************************************)

\* The order of the library's theorems on induction.
LEMMA LessThan == OpToRel(<, Nat) = {ss \in Nat \X Nat : ss[1] < ss[2]}
BY Zenon DEF OpToRel

\* A set of numbers has a least one.
LEMMA Smallest ==
  ASSUME NEW T, T \subseteq Nat, T # {}
  PROVE  \E x \in T : \A y \in T : x <= y
<1> DEFINE R == {ss \in Nat \X Nat : ss[1] < ss[2]}
<1>1. IsWellFoundedOn(R, Nat)
  BY NatLessThanWellFounded, LessThan
<1> HIDE DEF R
<1>2. PICK x \in T : \A y \in T : ~(<<y, x>> \in R)
  BY <1>1, WFMin
<1>3. ASSUME NEW y \in T PROVE x <= y
  <2>1. x \in Nat /\ y \in Nat
    OBVIOUS
  <2>2. y < x => <<y, x>> \in R
    BY <2>1 DEF R
  <2> QED BY <1>2, <2>1, <2>2
<1> QED BY <1>3

\* f[i] is what is spoken of the first i messages of s: what is spoken of those before the
\* last one, and the last one if that is.
SaidBy(s, i, said) == IF IsSpoken(s[i]) THEN Append(said, s[i]) ELSE said
Saying(s, n, f) ==
  f = [i \in 0..n |-> IF i = 0 THEN <<>>
                      ELSE IF IsSpoken(s[i]) THEN Append(f[i - 1], s[i]) ELSE f[i - 1]]

\* There is such a function: the first length without one could have that of the length
\* before, with one more message.
LEMMA SayingExists ==
  ASSUME NEW s, NEW n \in Nat
  PROVE  \E f : Saying(s, n, f)
<1> SUFFICES ASSUME {k \in Nat : ~\E f : Saying(s, k, f)} # {} PROVE FALSE
  OBVIOUS
<1>1. PICK k \in Nat : /\ ~\E f : Saying(s, k, f)
                       /\ \A j \in Nat : j < k => \E f : Saying(s, j, f)
  <2> DEFINE T == {k \in Nat : ~\E f : Saying(s, k, f)}
  <2>1. PICK k \in T : \A j \in T : k <= j
    BY Smallest, T \subseteq Nat, Zenon
  <2>2. \A j \in Nat : j < k => j \notin T
    BY <2>1
  <2> QED BY <2>1, <2>2, Zenon
<1>2. CASE k = 0
  <2>1. Saying(s, 0, [i \in 0..0 |-> <<>>])
    <3>1. \A i \in 0..0 : i = 0
      OBVIOUS
    <3> QED BY <3>1 DEF Saying
  <2> QED BY <1>1, <1>2, <2>1
<1>3. CASE k # 0
  <2>1. k - 1 \in Nat /\ k - 1 < k
    BY <1>3
  <2>2. PICK f : Saying(s, k - 1, f)
    BY <1>1, <2>1
  <2> DEFINE g == [i \in 0..k |-> IF i < k THEN f[i] ELSE SaidBy(s, k, f[k - 1])]
  <2>3. Saying(s, k, g)
    <3>1. \A i \in 0..k : i # 0 => i - 1 \in 0..k /\ i - 1 < k
      BY <1>3
    <3>2. \A i \in 0..k : i # 0 => g[i - 1] = f[i - 1]
      BY <3>1
    <3>3. \A i \in 0..(k - 1) : f[i] = IF i = 0 THEN <<>> ELSE SaidBy(s, i, f[i - 1])
      BY <2>2 DEF Saying, SaidBy
    <3>4. \A i \in 0..k : g[i] = IF i = 0 THEN <<>> ELSE SaidBy(s, i, g[i - 1])
      <4> SUFFICES ASSUME NEW i \in 0..k
                   PROVE  g[i] = IF i = 0 THEN <<>> ELSE SaidBy(s, i, g[i - 1])
        OBVIOUS
      <4>1. CASE i < k
        BY <3>2, <3>3, <4>1
      <4>2. CASE i = k
        BY <3>2, <4>2, <1>3
      <4> QED BY <4>1, <4>2
    <3> HIDE DEF g
    <3>5. g = [i \in 0..k |-> g[i]]
      BY DEF g
    <3> QED BY <3>4, <3>5 DEF Saying, SaidBy
  <2> QED BY <1>1, <2>3
<1> QED BY <1>2, <1>3

\* The recursion of Spoken is such a function.
LEMMA SpokenIs ==
  ASSUME NEW s, Len(s) \in Nat
  PROVE  \E f : Saying(s, Len(s), f) /\ Spoken(s) = f[Len(s)]
<1> DEFINE said == CHOOSE f : Saying(s, Len(s), f)
<1>1. Saying(s, Len(s), said)
  <2>1. \E f : Saying(s, Len(s), f)
    BY SayingExists
  <2> QED BY <2>1, Zenon
<1>2. Spoken(s) = said[Len(s)]
  BY Zenon DEF Spoken, Saying
<1> QED BY <1>1, <1>2, Zenon

\* The same, position by position.
LEMMA SayingIs ==
  ASSUME NEW s, NEW n \in Nat, NEW f
  PROVE  Saying(s, n, f)
           <=> f = [i \in 0..n |-> f[i]]
               /\ \A i \in 0..n : f[i] = IF i = 0 THEN <<>> ELSE SaidBy(s, i, f[i - 1])
<1>1. ASSUME Saying(s, n, f)
      PROVE  \A i \in 0..n : f[i] = IF i = 0 THEN <<>> ELSE SaidBy(s, i, f[i - 1])
  BY <1>1 DEF Saying, SaidBy
<1>2. ASSUME Saying(s, n, f)
      PROVE  f = [i \in 0..n |-> f[i]]
  BY <1>2 DEF Saying
<1>3. ASSUME f = [i \in 0..n |-> f[i]],
             \A i \in 0..n : f[i] = IF i = 0 THEN <<>> ELSE SaidBy(s, i, f[i - 1])
      PROVE  Saying(s, n, f)
  BY <1>3 DEF Saying, SaidBy
<1> QED BY <1>1, <1>2, <1>3

\* There is only one: two of them have no first position where they differ.
LEMMA OneSaying ==
  ASSUME NEW s, NEW n \in Nat, NEW f, NEW g, Saying(s, n, f), Saying(s, n, g)
  PROVE  \A i \in 0..n : f[i] = g[i]
<1> DEFINE T == {i \in 0..n : f[i] # g[i]}
<1> SUFFICES ASSUME T # {} PROVE FALSE
  OBVIOUS
<1>1. PICK i \in T : \A j \in T : i <= j
  <2>1. T \subseteq Nat
    OBVIOUS
  <2> QED BY <2>1, Smallest, Zenon
<1>2. i \in 0..n /\ f[i] # g[i]
  OBVIOUS
<1>3. /\ \A j \in 0..n : f[j] = IF j = 0 THEN <<>> ELSE SaidBy(s, j, f[j - 1])
      /\ \A j \in 0..n : g[j] = IF j = 0 THEN <<>> ELSE SaidBy(s, j, g[j - 1])
  BY DEF Saying, SaidBy
<1>4. i # 0
  BY <1>2, <1>3, Zenon
<1>5. f[i - 1] = g[i - 1]
  BY <1>1, <1>2, <1>4
<1> QED BY <1>2, <1>3, <1>4, <1>5, Zenon

\* So any of them says what is spoken.
LEMMA SpokenByAny ==
  ASSUME NEW s, Len(s) \in Nat, NEW f, Saying(s, Len(s), f)
  PROVE  Spoken(s) = f[Len(s)]
<1> DEFINE n == Len(s)
<1>1. PICK g : Saying(s, n, g) /\ Spoken(s) = g[n]
  BY SpokenIs
<1>2. n \in Nat /\ Saying(s, n, f)
  OBVIOUS
<1> HIDE DEF n
<1>3. \A i \in 0..n : f[i] = g[i]
  BY <1>1, <1>2, OneSaying
<1> QED BY <1>1, <1>2, <1>3 DEF n

\* A message at the end is spoken or not, and changes nothing of the others.
LEMMA SpokenAppend ==
  ASSUME NEW S, NEW s \in Seq(S), NEW m \in S
  PROVE  Spoken(Append(s, m)) = IF IsSpoken(m) THEN Append(Spoken(s), m) ELSE Spoken(s)
<1> DEFINE n == Len(s)
           t == Append(s, m)
<1>1. n \in Nat /\ Len(t) = n + 1 /\ t[n + 1] = m /\ \A i \in 1..n : t[i] = s[i]
  OBVIOUS
<1>2. PICK f : Saying(s, n, f) /\ Spoken(s) = f[n]
  BY <1>1, SpokenIs
<1> HIDE DEF n, t
<1> DEFINE g == [i \in 0..(n + 1) |-> IF i <= n THEN f[i] ELSE SaidBy(t, i, f[n])]
<1>3. \A i \in 0..(n + 1) : g[i] = IF i = 0 THEN <<>> ELSE SaidBy(t, i, g[i - 1])
  <2>1. \A i \in 0..n : f[i] = IF i = 0 THEN <<>> ELSE SaidBy(s, i, f[i - 1])
    BY <1>1, <1>2, SayingIs
  <2>2. \A i \in 0..(n + 1) : i # 0 => g[i - 1] = f[i - 1] /\ i - 1 \in 0..n
    BY <1>1
  <2> SUFFICES ASSUME NEW i \in 0..(n + 1)
               PROVE  g[i] = IF i = 0 THEN <<>> ELSE SaidBy(t, i, g[i - 1])
    OBVIOUS
  <2>3. CASE i = 0
    BY <1>1, <2>1, <2>3
  <2>4. CASE i \in 1..n
    <3>1. t[i] = s[i] /\ g[i] = f[i] /\ i # 0 /\ i \in 0..n
      BY <1>1, <2>4
    <3> QED BY <2>1, <2>2, <3>1 DEF SaidBy
  <2>5. CASE i = n + 1
    BY <1>1, <2>2, <2>5
  <2> QED BY <1>1, <2>3, <2>4, <2>5
<1>4. Saying(t, n + 1, g)
  <2>1. g = [i \in 0..(n + 1) |-> g[i]] /\ n + 1 \in Nat
    BY <1>1
  <2> HIDE DEF g
  <2> QED BY <1>3, <2>1, SayingIs
<1>5. Spoken(t) = g[n + 1]
  BY <1>1, <1>4, SpokenByAny
<1>6. g[n + 1] = SaidBy(t, n + 1, f[n])
  BY <1>1
<1> QED BY <1>1, <1>2, <1>5, <1>6 DEF SaidBy, n, t

\* An instruction in front leaves what is spoken.
LEMMA AsideInFront ==
  ASSUME NEW S, NEW s \in Seq(S), NEW m \in S, ~IsSpoken(m)
  PROVE  Spoken(<<m>> \o s) = Spoken(s)
<1> DEFINE n == Len(s)
           t == <<m>> \o s
<1>1. n \in Nat /\ Len(t) = n + 1 /\ t[1] = m /\ \A i \in 1..n : t[i + 1] = s[i]
  OBVIOUS
<1>2. PICK f : Saying(s, n, f) /\ Spoken(s) = f[n]
  BY <1>1, SpokenIs
<1> HIDE DEF n, t
<1> DEFINE g == [i \in 0..(n + 1) |-> IF i = 0 THEN <<>> ELSE f[i - 1]]
<1>3. \A i \in 0..(n + 1) : g[i] = IF i = 0 THEN <<>> ELSE SaidBy(t, i, g[i - 1])
  <2>1. \A i \in 0..n : f[i] = IF i = 0 THEN <<>> ELSE SaidBy(s, i, f[i - 1])
    BY <1>1, <1>2, SayingIs
  <2> SUFFICES ASSUME NEW i \in 0..(n + 1)
               PROVE  g[i] = IF i = 0 THEN <<>> ELSE SaidBy(t, i, g[i - 1])
    OBVIOUS
  <2>2. CASE i = 0
    BY <2>2
  <2>3. CASE i = 1
    <3>1. g[0] = <<>> /\ g[1] = f[0] /\ f[0] = <<>>
      BY <1>1, <2>1
    <3> QED BY <1>1, <2>3, <3>1 DEF SaidBy
  <2>4. CASE i \in 2..(n + 1)
    <3>1. /\ i - 1 \in 1..n /\ i - 1 \in 0..n /\ i - 1 # 0 /\ i # 0
          /\ g[i] = f[i - 1] /\ g[i - 1] = f[(i - 1) - 1] /\ t[(i - 1) + 1] = s[i - 1]
          /\ (i - 1) + 1 = i
      BY <1>1, <2>4
    <3>2. f[i - 1] = SaidBy(s, i - 1, f[(i - 1) - 1])
      BY <2>1, <3>1
    <3> QED BY <3>1, <3>2 DEF SaidBy
  <2> QED BY <1>1, <2>2, <2>3, <2>4
<1>4. Saying(t, n + 1, g)
  <2>1. g = [i \in 0..(n + 1) |-> g[i]] /\ n + 1 \in Nat
    BY <1>1
  <2> HIDE DEF g
  <2> QED BY <1>3, <2>1, SayingIs
<1>5. Spoken(t) = g[n + 1]
  BY <1>1, <1>4, SpokenByAny
<1>6. g[n + 1] = f[n]
  BY <1>1
<1> QED BY <1>1, <1>2, <1>5, <1>6 DEF n, t

\* What an append to a sequence is, position by position.
LEMMA AppendIs ==
  ASSUME NEW S, NEW t \in Seq(S), NEW v \in S
  PROVE  Append(t, v) = [i \in 1..Len(t) + 1 |-> IF i = Len(t) + 1 THEN v ELSE t[i]]
<1>1. Append(t, v) \in Seq(S) /\ Len(Append(t, v)) = Len(t) + 1 /\ Len(t) \in Nat
  OBVIOUS
<1>2. Append(t, v) = [i \in 1..Len(t) + 1 |-> Append(t, v)[i]]
  <2> DEFINE w == Append(t, v)
  <2>1. w \in Seq(S) /\ Len(w) = Len(t) + 1
    BY <1>1
  <2> HIDE DEF w
  <2>2. w = [i \in 1..Len(w) |-> w[i]]
    BY <2>1
  <2> QED BY <2>1, <2>2 DEF w
<1>3. \A i \in 1..Len(t) + 1 : Append(t, v)[i] = IF i = Len(t) + 1 THEN v ELSE t[i]
  <2> SUFFICES ASSUME NEW i \in 1..Len(t) + 1
               PROVE  Append(t, v)[i] = IF i = Len(t) + 1 THEN v ELSE t[i]
    OBVIOUS
  <2> QED BY <1>1
<1> QED BY <1>2, <1>3, Zenon

\* A message that is appended to a slice is changed with it.
LEMMA AppendInPlace ==
  ASSUME NEW s \in Seq(Message), NEW m \in Message, NEW f
  PROVE  InPlace(Append(s, m), f) = Append(InPlace(s, f), f[m])
<1>1. DOMAIN s = 1..Len(s) /\ Len(s) \in Nat
  OBVIOUS
<1>2. /\ DOMAIN Append(s, m) = 1..Len(s) + 1
      /\ \A i \in 1..Len(s) + 1 : Append(s, m)[i] = IF i = Len(s) + 1 THEN m ELSE s[i]
  BY <1>1
<1>3. InPlace(Append(s, m), f) = [i \in 1..Len(s) + 1 |-> IF i = Len(s) + 1 THEN f[m] ELSE f[s[i]]]
  BY <1>1, <1>2 DEF InPlace
<1>4. InPlace(s, f) = [i \in 1..Len(s) |-> f[s[i]]]
  BY <1>1 DEF InPlace
<1>5. Len(InPlace(s, f)) = Len(s) /\ InPlace(s, f) \in Seq({f[x] : x \in Message})
  <2>1. InPlace(s, f) \in [1..Len(s) -> {f[x] : x \in Message}]
    BY <1>1, <1>4
  <2> QED BY <1>1, <2>1
<1>6. Append(InPlace(s, f), f[m])
        = [i \in 1..Len(s) + 1 |-> IF i = Len(s) + 1 THEN f[m] ELSE InPlace(s, f)[i]]
  <2> DEFINE S == {f[x] : x \in Message}
  <2>1. InPlace(s, f) \in Seq(S) /\ f[m] \in S
    BY <1>5
  <2> HIDE DEF S
  <2> QED BY <1>5, <2>1, AppendIs
<1>7. \A i \in 1..Len(s) + 1 : i # Len(s) + 1 => i \in 1..Len(s)
  BY <1>1
<1> QED BY <1>3, <1>4, <1>6, <1>7

\* What is spoken of a slice whose messages are changed, but stay what they are.
LEMMA SpokenInPlace ==
  ASSUME NEW s \in Seq(Message), NEW f \in [Message -> Message],
         \A m \in Message : IsSpoken(f[m]) <=> IsSpoken(m)
  PROVE  Spoken(InPlace(s, f)) = InPlace(Spoken(s), f)
<1> DEFINE n == Len(s)
           t == InPlace(s, f)
<1>1. n \in Nat /\ (\A i \in 1..n : s[i] \in Message) /\ DOMAIN s = 1..n
  OBVIOUS
<1>2. /\ Len(t) = n
      /\ \A i \in 1..n : t[i] = f[s[i]]
  <2>1. t \in [1..n -> Message] /\ \A i \in 1..n : t[i] = f[s[i]]
    BY <1>1 DEF InPlace
  <2> QED BY <1>1, <2>1
<1>3. PICK h : Saying(s, n, h) /\ Spoken(s) = h[n]
  BY <1>1, SpokenIs
<1> HIDE DEF n, t
<1>4. \A i \in 0..n : h[i] = IF i = 0 THEN <<>> ELSE SaidBy(s, i, h[i - 1])
  BY <1>1, <1>3, SayingIs
<1>5. \A i \in 0..n : h[i] \in Seq(Message)
  <2> DEFINE T == {i \in 0..n : h[i] \notin Seq(Message)}
  <2> SUFFICES ASSUME T # {} PROVE FALSE
    OBVIOUS
  <2>1. PICK i \in T : \A j \in T : i <= j
    <3>1. T \subseteq Nat
      OBVIOUS
    <3> QED BY <3>1, Smallest, Zenon
  <2>2. i \in 0..n /\ h[i] \notin Seq(Message)
    OBVIOUS
  <2>3. ASSUME i = 0 PROVE FALSE
    <3>1. h[i] = <<>>
      BY <1>4, <2>2, <2>3
    <3>2. <<>> \in Seq(Message)
      OBVIOUS
    <3> QED BY <2>2, <3>1, <3>2
  <2>4. i \in 1..n /\ i - 1 \in 0..n /\ h[i - 1] \in Seq(Message) /\ s[i] \in Message
    BY <1>1, <2>1, <2>2, <2>3
  <2>5. h[i] \in {h[i - 1], Append(h[i - 1], s[i])}
    BY <1>4, <2>2, <2>3 DEF SaidBy
  <2>6. Append(h[i - 1], s[i]) \in Seq(Message)
    BY <2>4
  <2> HIDE DEF T
  <2> QED BY <2>2, <2>4, <2>5, <2>6
<1> DEFINE g == [i \in 0..n |-> InPlace(h[i], f)]
<1>6. \A i \in 0..n : g[i] = IF i = 0 THEN <<>> ELSE SaidBy(t, i, g[i - 1])
  <2> SUFFICES ASSUME NEW i \in 0..n PROVE g[i] = IF i = 0 THEN <<>> ELSE SaidBy(t, i, g[i - 1])
    OBVIOUS
  <2>1. CASE i = 0
    <3>1. h[0] = <<>> /\ g[0] = InPlace(<<>>, f)
      BY <1>4, <2>1
    <3> QED BY <2>1, <3>1 DEF InPlace
  <2>2. CASE i # 0
    <3>1. /\ i \in 1..n /\ i - 1 \in 0..n /\ s[i] \in Message /\ h[i - 1] \in Seq(Message)
          /\ t[i] = f[s[i]] /\ g[i - 1] = InPlace(h[i - 1], f) /\ g[i] = InPlace(h[i], f)
          /\ h[i] = SaidBy(s, i, h[i - 1])
      BY <1>1, <1>2, <1>4, <1>5, <2>2
    <3> HIDE DEF g
    <3>2. IsSpoken(t[i]) <=> IsSpoken(s[i])
      BY <3>1
    <3>3. CASE IsSpoken(s[i])
      <4>1. h[i] = Append(h[i - 1], s[i]) /\ SaidBy(t, i, g[i - 1]) = Append(g[i - 1], t[i])
        BY <3>1, <3>2, <3>3 DEF SaidBy
      <4> QED BY <2>2, <3>1, <4>1, AppendInPlace
    <3>4. CASE ~IsSpoken(s[i])
      BY <2>2, <3>1, <3>2, <3>4 DEF SaidBy
    <3> QED BY <3>3, <3>4
  <2> QED BY <2>1, <2>2
<1>7. Saying(t, n, g)
  <2>1. g = [i \in 0..n |-> g[i]]
    OBVIOUS
  <2> HIDE DEF g
  <2> QED BY <1>1, <1>6, <2>1, SayingIs
<1>8. Spoken(t) = g[n]
  BY <1>1, <1>2, <1>7, SpokenByAny
<1>9. g[n] = InPlace(h[n], f)
  BY <1>1
<1> QED BY <1>3, <1>8, <1>9 DEF t

-----------------------------------------------------------------------------
(***************************************************************************)
(* The session mirrors the context                                         *)
(*                                                                         *)
(* With the events in the channel applied to it, one by one, the session   *)
(* says what the loop's context says once the loop appended what it has    *)
(* announced.                                                              *)
(***************************************************************************)
Applied(s, e) ==
  IF e.type = "compaction" THEN e.context ELSE IF Appends(e) THEN Append(s, Said(e)) ELSE s

\* conv[i] is the session after i events.
Rebuilds(conv) ==
  /\ conv \in [0..Len(events) -> Seq(Message)]
  /\ conv[0] = sess
  /\ \A i \in 1..Len(events) : conv[i] = Applied(conv[i - 1], events[i])

\* Announced, and not in the context yet.
ToSay == CASE lpc = "append" -> <<Answer(turn, reply.calls)>>
           [] lpc \in {"calls", "answer", "hung"} -> [n \in 1..call - 1 |-> ToolResult(turn, n)]
           [] OTHER -> <<>>

SessionFollows ==
  run >= 1 /\ run \notin clobbered =>
    \E conv : /\ Rebuilds(conv)
              /\ Spoken(conv[Len(events)]) = Spoken(messages \o ToSay)

\* Which messages are spoken.
LEMMA WhatIsSpoken ==
  /\ ~IsSpoken(SystemMsg)
  /\ \A t : /\ ~IsSpoken(Text("agent", <<"mistake", t>>))
            /\ ~IsSpoken(Text("user", <<"caution", t>>))
  /\ \A t, n : IsSpoken(Answer(t, n)) /\ IsSpoken(ToolResult(t, n))
<1>1. ASSUME NEW role, NEW x, x[1] \in {"system", "mistake", "caution"}
      PROVE  ~IsSpoken(Text(role, x))
  BY <1>1 DEF IsSpoken, Text
<1>2. ~IsSpoken(SystemMsg)
  BY <1>1 DEF SystemMsg
<1>3. ASSUME NEW t
      PROVE  /\ ~IsSpoken(Text("agent", <<"mistake", t>>))
             /\ ~IsSpoken(Text("user", <<"caution", t>>))
  BY <1>1
<1>4. ASSUME NEW t, NEW n PROVE IsSpoken(Answer(t, n)) /\ IsSpoken(ToolResult(t, n))
  BY DEF IsSpoken, Answer, ToolResult
<1> QED BY <1>2, <1>3, <1>4

\* An event applied to a sequence of messages makes another.
LEMMA AppliedIsTyped ==
  ASSUME NEW s \in Seq(Message), NEW e \in Event
  PROVE  Applied(s, e) \in Seq(Message)
<1>1. CASE e.type = "compaction"
  BY <1>1, EventsAreTyped DEF Applied
<1>2. CASE e.type # "compaction" /\ Appends(e)
  <2>1. Said(e) \in Message
    BY <1>2, EventsAreTyped DEF Appends
  <2> QED BY <1>2, <2>1 DEF Applied
<1>3. CASE e.type # "compaction" /\ ~Appends(e)
  BY <1>3 DEF Applied
<1> QED BY <1>1, <1>2, <1>3

\* Messages that are changed in place, in the slice and in the event alike.
LEMMA AppliedInPlace ==
  ASSUME NEW s \in Seq(Message), NEW f, Rewording(f), NEW e \in Event, NEW d, Passed(e, d),
         e.type = "compaction" => d.context = InPlace(e.context, f),
         Appends(e) => f[Said(e)] = Said(e)
  PROVE  Applied(InPlace(s, f), d) = InPlace(Applied(s, e), f)
<1>1. CASE e.type = "compaction"
  <2>1. d.type = "compaction"
    BY <1>1 DEF Passed
  <2> QED BY <1>1, <2>1 DEF Applied
<1>2. CASE e.type # "compaction" /\ Appends(e)
  <2>1. d = e
    BY <1>2 DEF Passed
  <2>2. Said(e) \in Message
    BY <1>2, EventsAreTyped DEF Appends
  <2>3. InPlace(Append(s, Said(e)), f) = Append(InPlace(s, f), Said(e))
    <3>1. PICK m \in Message : m = Said(e)
      BY <2>2
    <3>2. InPlace(Append(s, m), f) = Append(InPlace(s, f), f[m])
      BY AppendInPlace
    <3> QED BY <1>2, <3>1, <3>2
  <2> QED BY <1>2, <2>1, <2>3 DEF Applied
<1>3. CASE e.type # "compaction" /\ ~Appends(e)
  <2>1. d = e
    BY <1>3 DEF Passed
  <2> QED BY <1>3, <2>1 DEF Applied
<1> QED BY <1>1, <1>2, <1>3

\* The events rebuild what is changed from what is changed.
LEMMA RebuildsInPlace ==
  ASSUME TypeOK, NEW conv, Rebuilds(conv), NEW f, Rewording(f),
         \A e \in Event : Appends(e) => f[Said(e)] = Said(e)
  PROVE  \E new : /\ new \in [0..Len(events) -> Seq(Message)]
                  /\ new[0] = InPlace(sess, f)
                  /\ \A i \in 1..Len(events) : new[i] = Applied(new[i - 1], Sent(f)[i])
                  /\ new[Len(events)] = InPlace(conv[Len(events)], f)
<1> DEFINE n == Len(events)
<1>1. n \in Nat /\ \A i \in 1..n : events[i] \in Event
  <2>1. events \in Seq(Event)
    BY DEF TypeOK
  <2> QED BY <2>1
<1>2. /\ conv \in [0..n -> Seq(Message)] /\ conv[0] = sess
      /\ \A i \in 1..n : conv[i] = Applied(conv[i - 1], events[i])
  BY DEF Rebuilds
<1>3. \A i \in 1..n :
        /\ Passed(events[i], Sent(f)[i])
        /\ events[i].type = "compaction" => Sent(f)[i].context = InPlace(events[i].context, f)
  BY SentFacts
<1> HIDE DEF n
<1>4. PICK new : new = [i \in 0..n |-> InPlace(conv[i], f)]
  OBVIOUS
<1>5. new[0] = InPlace(sess, f) /\ new[n] = InPlace(conv[n], f)
  BY <1>1, <1>2, <1>4
<1>6. new \in [0..n -> Seq(Message)]
  <2>1. \A i \in 0..n : InPlace(conv[i], f) \in Seq(Message)
    BY <1>2, InPlaceFacts DEF Reworded
  <2> QED BY <1>4, <2>1
<1>7. ASSUME NEW i \in 1..n PROVE new[i] = Applied(new[i - 1], Sent(f)[i])
  <2>1. i \in 0..n /\ i - 1 \in 0..n
    BY <1>1
  <2>2. /\ new[i] = InPlace(conv[i], f) /\ new[i - 1] = InPlace(conv[i - 1], f)
        /\ conv[i] = Applied(conv[i - 1], events[i]) /\ conv[i - 1] \in Seq(Message)
    BY <1>2, <1>4, <2>1
  <2>3. PICK e \in Event : e = events[i]
    BY <1>1
  <2>4. PICK d : d = Sent(f)[i]
    OBVIOUS
  <2>5. Applied(InPlace(conv[i - 1], f), d) = InPlace(Applied(conv[i - 1], e), f)
    BY <1>3, <2>2, <2>3, <2>4, AppliedInPlace
  <2> QED BY <2>2, <2>3, <2>4, <2>5
<1> QED BY <1>5, <1>6, <1>7 DEF n

\* An event that is sent is applied last.
LEMMA RebuildsAdded ==
  ASSUME TypeOK, NEW conv \in [0..Len(events) -> Seq(Message)], conv[0] = sess',
         NEW e \in Event, Added(e),
         \A i \in 1..Len(events) : conv[i] = Applied(conv[i - 1], events'[i])
  PROVE  \E new : Rebuilds(new)' /\ new[Len(events')] = Applied(conv[Len(events)], e)
<1> DEFINE n == Len(events)
<1>1. n \in Nat /\ Len(events') = n + 1
  BY DEF Added, TypeOK
<1>2. /\ conv \in [0..n -> Seq(Message)] /\ conv[0] = sess'
      /\ \A i \in 1..n : conv[i] = Applied(conv[i - 1], events'[i])
  OBVIOUS
<1>3. events'[n + 1] = e
  BY DEF Added
<1> HIDE DEF n
<1>4. Applied(conv[n], e) \in Seq(Message)
  <2>1. conv[n] \in Seq(Message)
    BY <1>1, <1>2
  <2> QED BY <2>1, AppliedIsTyped
<1>a. PICK new : new = [i \in 0..n + 1 |-> IF i <= n THEN conv[i] ELSE Applied(conv[n], e)]
  OBVIOUS
<1>5. new \in [0..n + 1 -> Seq(Message)] /\ new[0] = sess' /\ new[n + 1] = Applied(conv[n], e)
  <2>1. \A i \in 0..n + 1 : i <= n => conv[i] \in Seq(Message)
    BY <1>1, <1>2
  <2> QED BY <1>a, <1>1, <1>2, <1>4, <2>1
<1>6. ASSUME NEW i \in 1..n + 1 PROVE new[i] = Applied(new[i - 1], events'[i])
  <2>1. i - 1 \in 0..n /\ new[i - 1] = conv[i - 1] /\ (i <= n => new[i] = conv[i])
    BY <1>a, <1>1
  <2>2. CASE i \in 1..n
    BY <1>1, <1>2, <2>1, <2>2
  <2>3. CASE i = n + 1
    BY <1>1, <1>3, <1>5, <2>1, <2>3
  <2> QED BY <1>1, <2>2, <2>3
<1>7. Rebuilds(new)'
  BY <1>1, <1>5, <1>6 DEF Rebuilds
<1>8. new[Len(events')] = Applied(conv[Len(events)], e)
  BY <1>1, <1>5 DEF n
<1> QED BY <1>7, <1>8

\* An event that is taken was applied first.
LEMMA RebuildsTaken ==
  ASSUME TypeOK, NEW conv, Rebuilds(conv), Taken, sess' = Applied(sess, events[1])
  PROVE  \E new : Rebuilds(new)' /\ new[Len(events')] = conv[Len(events)]
<1> DEFINE n == Len(events)
<1>1. n \in Nat /\ n >= 1 /\ Len(events') = n - 1
  BY DEF Taken
<1>2. /\ conv \in [0..n -> Seq(Message)] /\ conv[0] = sess
      /\ \A i \in 1..n : conv[i] = Applied(conv[i - 1], events[i])
  BY DEF Rebuilds
<1>3. \A i \in 1..n - 1 : events'[i] = events[i + 1]
  BY DEF Taken
<1> HIDE DEF n
<1>4. conv[1] = Applied(sess, events[1])
  <2>1. 1 \in 1..n /\ 1 - 1 = 0
    BY <1>1
  <2> QED BY <1>2, <2>1
<1>a. PICK new : new = [i \in 0..n - 1 |-> conv[i + 1]]
  OBVIOUS
<1>5. new \in [0..n - 1 -> Seq(Message)] /\ new[0] = sess' /\ new[n - 1] = conv[n]
  <2>1. \A i \in 0..n - 1 : conv[i + 1] \in Seq(Message)
    BY <1>1, <1>2
  <2>2. 0 \in 0..n - 1 /\ 0 + 1 = 1 /\ n - 1 \in 0..n - 1 /\ (n - 1) + 1 = n
    BY <1>1
  <2> QED BY <1>a, <1>4, <2>1, <2>2
<1>6. ASSUME NEW i \in 1..n - 1 PROVE new[i] = Applied(new[i - 1], events'[i])
  <2>1. /\ i \in 0..n - 1 /\ i - 1 \in 0..n - 1 /\ i + 1 \in 1..n
        /\ (i - 1) + 1 = i /\ (i + 1) - 1 = i
    BY <1>1
  <2>2. new[i] = conv[i + 1] /\ new[i - 1] = conv[i]
    BY <1>a, <2>1
  <2>3. conv[i + 1] = Applied(conv[i], events[i + 1])
    BY <1>2, <2>1
  <2> QED BY <1>3, <2>2, <2>3
<1>7. Rebuilds(new)'
  BY <1>1, <1>5, <1>6 DEF Rebuilds
<1>8. new[Len(events')] = conv[Len(events)]
  BY <1>1, <1>5 DEF n
<1> QED BY <1>7, <1>8

\* A request starts both from the session file.
LEMMA FollowsFromFile == ASSUME TypeOK, Begin PROVE SessionFollows'
<1>1. sess' \in Seq(Message) /\ messages' = <<SystemMsg>> \o sess' /\ events' = <<>>
      /\ lpc' = "top"
  BY BeginFacts DEF Begin, LGoto
<1>a. PICK conv : conv = [i \in 0..0 |-> sess']
  OBVIOUS
<1>2. Len(events') = 0 /\ conv \in [0..0 -> Seq(Message)] /\ conv[0] = sess' /\ 1..0 = {}
  BY <1>a, <1>1
<1>3. Rebuilds(conv)'
  BY <1>2 DEF Rebuilds
<1>4. ToSay' = <<>>
  BY <1>1 DEF ToSay
<1>5. messages' \o ToSay' = <<SystemMsg>> \o sess'
  BY <1>1, <1>4, BeginFacts
<1>6. Spoken(<<SystemMsg>> \o sess') = Spoken(sess')
  BY <1>1, AsideInFront, MessagesAreTyped, WhatIsSpoken
<1> QED BY <1>2, <1>3, <1>5, <1>6 DEF SessionFollows

\* What is to be said are messages.
LEMMA ToSayIsTyped ==
  ASSUME TypeOK, Counters
  PROVE  /\ messages \o ToSay \in Seq(Message)
         /\ lpc \notin {"append", "calls", "answer", "hung"} => messages \o ToSay = messages
<1>1. messages \in Seq(Message) /\ turn \in 0..MaxTurn /\ reply.calls \in 0..MaxCalls
      /\ call \in 1..MaxCalls + 1
  BY DEF TypeOK
<1>2. ToSay \in Seq(Message)
  <2>1. CASE lpc = "append"
    <3>1. Answer(turn, reply.calls) \in Message
      BY <1>1, <2>1, LoopFacts, MessagesAreTyped DEF InTurn
    <3> QED BY <2>1, <3>1 DEF ToSay
  <2>2. CASE lpc \in {"calls", "answer", "hung"}
    <3>1. turn \in 1..MaxTurn
      BY <2>2, LoopFacts DEF InTurn
    <3>2. \A n \in 1..call - 1 : ToolResult(turn, n) \in Message
      <4>1. \A n \in 1..call - 1 : n \in 1..MaxCalls
        BY <1>1, Bounds
      <4> QED BY <3>1, <4>1, MessagesAreTyped
    <3>3. [n \in 1..call - 1 |-> ToolResult(turn, n)] \in [1..call - 1 -> Message]
          /\ call - 1 \in Nat
      BY <1>1, <3>2, Bounds
    <3>4. [n \in 1..call - 1 |-> ToolResult(turn, n)] \in Seq(Message)
      BY <3>3
    <3> QED BY <2>2, <3>4 DEF ToSay
  <2>3. CASE lpc \notin {"append", "calls", "answer", "hung"}
    BY <2>3 DEF ToSay
  <2> QED BY <2>1, <2>2, <2>3
<1>3. lpc \notin {"append", "calls", "answer", "hung"} => ToSay = <<>>
  BY DEF ToSay
<1> QED BY <1>1, <1>2, <1>3

\* The result of one more call is to be said after those before it.
LEMMA OneMoreToSay ==
  ASSUME TypeOK, Counters, (CallSucceeds \/ AnswerFailed) /\ Answered
  PROVE  /\ ToolResult(turn, call) \in Message
         /\ messages' \o ToSay' = Append(messages \o ToSay, ToolResult(turn, call))
<1>1. /\ lpc \in {"calls", "answer", "hung"} /\ call <= reply.calls
      /\ lpc' = "calls" /\ call' = call + 1 /\ turn' = turn /\ messages' = messages
  BY DEF CallSucceeds, AnswerFailed, Answered, LGoto, Counters, sliceVars
<1>2. /\ messages \in Seq(Message) /\ turn \in 1..MaxTurn /\ call \in 1..MaxCalls /\ call \in Nat
      /\ call + 1 - 1 = call
  <2>1. turn \in 1..MaxTurn /\ messages \in Seq(Message)
    BY <1>1, LoopFacts DEF InTurn
  <2>2. call \in 1..MaxCalls + 1 /\ reply.calls \in 0..MaxCalls
    BY DEF TypeOK
  <2> QED BY <1>1, <2>1, <2>2, Bounds
<1> DEFINE said == [n \in 1..call - 1 |-> ToolResult(turn, n)]
           more == [n \in 1..call |-> ToolResult(turn, n)]
<1>3. ToSay = said /\ ToSay' = more
  BY <1>1, <1>2 DEF ToSay
<1>4. \A n \in 1..call : ToolResult(turn, n) \in Message
  <2>1. \A n \in 1..call : n \in 1..MaxCalls
    BY <1>2, Bounds
  <2> QED BY <1>2, <2>1, MessagesAreTyped
<1>5. said \in Seq(Message) /\ Len(said) = call - 1
  <2>1. said \in [1..call - 1 -> Message] /\ call - 1 \in Nat
    BY <1>2, <1>4
  <2> QED BY <2>1
<1>6. more = Append(said, ToolResult(turn, call))
  <2>1. more \in Seq(Message) /\ Len(more) = call
    <3>1. more \in [1..call -> Message]
      BY <1>4
    <3> QED BY <1>2, <3>1
  <2>2. /\ Append(said, ToolResult(turn, call)) \in Seq(Message)
        /\ Len(Append(said, ToolResult(turn, call))) = call
    BY <1>2, <1>4, <1>5
  <2>3. ASSUME NEW n \in 1..call PROVE more[n] = Append(said, ToolResult(turn, call))[n]
    BY <1>2, <1>5, <2>3
  <2> HIDE DEF more, said
  <2> QED BY <2>1, <2>2, <2>3, SeqEqual
<1>7. messages \o Append(said, ToolResult(turn, call)) 
         = Append(messages \o said, ToolResult(turn, call))
  <2> HIDE DEF said
  <2> QED BY <1>2, <1>4, <1>5
<1> QED BY <1>1, <1>2, <1>3, <1>4, <1>6, <1>7

\* A step that sends nothing leaves what is spoken: it appends what was to be said, or
\* a refused answer's caution.
LEMMA QuietStepSpeaks ==
  ASSUME TypeOK, Counters, TypeOK', Counters',
         (TopOfTurn /\ ~Asks) \/ Caution \/ CompletionFails \/ Overflows \/ AppendAnswer
         \/ CompactionFails \/ CallHangs \/ CallsDone
  PROVE  Spoken(messages' \o ToSay') = Spoken(messages \o ToSay)
<1>0. messages \in Seq(Message)
  BY DEF TypeOK
<1>1. CASE (TopOfTurn /\ ~Asks) \/ CompletionFails \/ Overflows
  <2>1. messages' = messages /\ {lpc, lpc'} \cap {"append", "calls", "answer", "hung"} = {}
    <3>1. CASE TopOfTurn /\ ~Asks
      BY <3>1 DEF TopOfTurn, Asks, LGoto
    <3>2. CASE CompletionFails \/ Overflows
      BY <3>2 DEF CompletionFails, Overflows, LGoto, sliceVars
    <3> QED BY <1>1, <3>1, <3>2
  <2> QED BY <2>1 DEF ToSay
<1>2. CASE CompactionFails
  <2>1. messages' = messages /\ {lpc, lpc'} \cap {"append", "calls", "answer", "hung"} = {}
    BY <1>2 DEF CompactionFails, LGoto, sliceVars
  <2> QED BY <2>1 DEF ToSay
<1>3. CASE Caution
  <2>1. /\ messages' = messages \o <<Text("user", <<"caution", turn>>)>>
        /\ lpc = "caution" /\ lpc' = "top"
    BY <1>3 DEF Caution, LoopAppends, LGoto
  <2>2. Text("user", <<"caution", turn>>) \in Message
        /\ ~IsSpoken(Text("user", <<"caution", turn>>))
    <3>1. turn \in 1..MaxTurn
      BY <2>1, LoopFacts DEF InTurn
    <3> QED BY <3>1, MessagesAreTyped, WhatIsSpoken
  <2>3. messages' = Append(messages, Text("user", <<"caution", turn>>))
    BY <1>0, <2>1, <2>2
  <2>4. messages \o ToSay = messages
    BY <2>1, ToSayIsTyped
  <2>5. messages' \o ToSay' = messages'
    <3>1. ToSay' = <<>> /\ messages' \in Seq(Message)
      BY <2>1 DEF ToSay, TypeOK
    <3> QED BY <3>1
  <2>6. Spoken(Append(messages, Text("user", <<"caution", turn>>))) = Spoken(messages)
    BY <1>0, <2>2, SpokenAppend
  <2> QED BY <2>3, <2>4, <2>5, <2>6
<1>4. CASE AppendAnswer
  <2>1. /\ messages' = messages \o <<Answer(turn, reply.calls)>>
        /\ lpc = "append" /\ lpc' \in {"compact", "calls"} /\ call' = call /\ call = 1
        /\ turn' = turn
    BY <1>4 DEF AppendAnswer, LoopAppends, LGoto, Counters
  <2>2. ToSay = <<Answer(turn, reply.calls)>> /\ ToSay' = <<>>
    <3>1. call' - 1 = 0 /\ 1..0 = {}
      BY <2>1
    <3>2. [n \in 1..call' - 1 |-> ToolResult(turn', n)] = <<>>
      BY <3>1
    <3> QED BY <2>1, <3>2 DEF ToSay
  <2>3. messages' \in Seq(Message) /\ messages' \o ToSay' = messages'
    BY <2>2 DEF TypeOK
  <2> QED BY <2>1, <2>2, <2>3
<1>5. CASE CallsDone
  <2>1. /\ lpc = "calls" /\ lpc' \in {"exit", "top"} /\ call > reply.calls
        /\ IF reply.calls = 0 THEN messages' = messages
           ELSE messages' = messages \o [n \in 1..reply.calls |-> ToolResult(turn, n)]
    BY <1>5 DEF CallsDone, LoopAppends, LGoto, sliceVars
  <2>2. reply.calls \in Nat /\ call \in Nat /\ call - 1 = reply.calls
    <3>1. call <= reply.calls + 1 /\ call > reply.calls
      BY <2>1 DEF Counters, Calling
    <3>2. call \in 1..MaxCalls + 1 /\ reply.calls \in 0..MaxCalls
      BY DEF TypeOK
    <3> QED BY <3>1, <3>2, Bounds
  <2>3. ToSay = [n \in 1..reply.calls |-> ToolResult(turn, n)]
    BY <2>1, <2>2 DEF ToSay
  <2>4. messages' = messages \o ToSay
    <3>1. CASE reply.calls = 0
      <4>1. ToSay = <<>>
        BY <2>3, <3>1
      <4> QED BY <1>0, <2>1, <3>1, <4>1
    <3> QED BY <2>1, <2>3, <3>1
  <2>5. messages' \o ToSay' = messages'
    <3>1. ToSay' = <<>> /\ messages' \in Seq(Message)
      BY <2>1 DEF ToSay, TypeOK
    <3> QED BY <3>1
  <2> QED BY <2>4, <2>5
<1>6. CASE CallHangs
  <2>1. messages' = messages /\ lpc = "calls" /\ lpc' = "hung" /\ call' = call /\ turn' = turn
    BY <1>6 DEF CallHangs, LGoto, sliceVars
  <2>2. ToSay' = ToSay
    BY <2>1 DEF ToSay
  <2> QED BY <2>1, <2>2
<1> QED BY <1>1, <1>2, <1>3, <1>4, <1>5, <1>6

\* A step that sends an event says with it what the event will say to the session.
LEMMA SendingStepSpeaks ==
  ASSUME TypeOK, Counters, TypeOK', Counters', LoopStep, NEW e \in Event, Announces(e),
         NEW s \in Seq(Message), Spoken(s) = Spoken(messages \o ToSay)
  PROVE  Spoken(Applied(s, e)) = Spoken(messages' \o ToSay')
<1>0. messages \in Seq(Message) /\ messages \o ToSay \in Seq(Message)
  BY ToSayIsTyped DEF TypeOK
<1>1. CASE Completes
  <2>1. /\ e.type = "complete" /\ Said(e) = Answer(turn, reply'.calls)
        /\ lpc = "complete" /\ lpc' = "append" /\ messages' = messages /\ turn' = turn
    BY <1>1, AnnouncedFacts DEF Completes, LGoto, sliceVars
  <2> DEFINE m == Answer(turn, reply'.calls)
  <2>2. m \in Message /\ IsSpoken(m)
    BY <2>1, EventsAreTyped, WhatIsSpoken
  <2>3. ToSay' = <<m>> /\ messages \o ToSay = messages
    BY <2>1, ToSayIsTyped DEF ToSay
  <2> HIDE DEF m
  <2>4. messages' \o ToSay' = Append(messages, m)
    BY <1>0, <2>1, <2>2, <2>3
  <2>5. Applied(s, e) = Append(s, m)
    BY <2>1 DEF Applied, Appends, m
  <2>6. Spoken(Append(s, m)) = Append(Spoken(s), m)
    BY <2>2, SpokenAppend
  <2>7. Spoken(Append(messages, m)) = Append(Spoken(messages), m)
    BY <1>0, <2>2, SpokenAppend
  <2> QED BY <2>3, <2>4, <2>5, <2>6, <2>7
<1>2. CASE (CallSucceeds \/ AnswerFailed) /\ Answered
  <2> DEFINE m == ToolResult(turn, call)
  <2>1. e.type = "toolResult" /\ Said(e) = m
    BY <1>2, AnnouncedFacts
  <2>2. m \in Message /\ messages' \o ToSay' = Append(messages \o ToSay, m)
    BY <1>2, OneMoreToSay
  <2>3. IsSpoken(m)
    BY WhatIsSpoken
  <2> HIDE DEF m
  <2>4. Applied(s, e) = Append(s, m)
    BY <2>1 DEF Applied, Appends
  <2>5. Spoken(Append(s, m)) = Append(Spoken(s), m)
    BY <2>2, <2>3, SpokenAppend
  <2>6. Spoken(Append(messages \o ToSay, m)) = Append(Spoken(messages \o ToSay), m)
    BY <1>0, <2>2, <2>3, SpokenAppend
  <2> QED BY <2>2, <2>4, <2>5, <2>6
<1>3. CASE Compact
  <2>1. e.type = "compaction" /\ e.context = messages'
    BY <1>3, AnnouncedFacts DEF Announces
  <2>2. lpc \in {"compact", "overflow"} /\ lpc' \in {"calls", "top"}
        /\ (lpc' = "calls" => call' = 1) /\ messages' \in Seq(Message)
    <3>1. lpc \in {"compact", "overflow"} /\ lpc' = AfterCompaction /\ call' = call
      BY <1>3, CompactFacts DEF Compact
    <3> QED BY <3>1 DEF AfterCompaction, Counters, TypeOK
  <2>3. ToSay' = <<>>
    <3>1. CASE lpc' = "calls"
      <4>1. 1..call' - 1 = {}
        BY <2>2, <3>1
      <4>2. [n \in 1..call' - 1 |-> ToolResult(turn', n)] = <<>>
        BY <4>1
      <4> QED BY <3>1, <4>2 DEF ToSay
    <3> QED BY <2>2, <3>1 DEF ToSay
  <2>4. messages' \o ToSay' = messages'
    BY <2>2, <2>3
  <2> QED BY <2>1, <2>4 DEF Applied
<1>4. CASE e.type = "mistake" /\ Mistake
  <2>1. Applied(s, e) = s
    BY <1>4 DEF Applied, Appends
  <2>2. lpc = "complete" /\ lpc' \in {"exit", "caution"}
        /\ messages' \in {messages, messages \o <<Text("agent", <<"mistake", turn>>)>>}
    BY <1>4 DEF Mistake, LoopAppends, LGoto, sliceVars
  <2> DEFINE m == Text("agent", <<"mistake", turn>>)
  <2>3. m \in Message /\ ~IsSpoken(m)
    <3>1. turn \in 1..MaxTurn
      BY <2>2, LoopFacts DEF InTurn
    <3> QED BY <3>1, MessagesAreTyped, WhatIsSpoken
  <2>4. messages \o ToSay = messages
    BY <2>2, ToSayIsTyped
  <2>5. messages' \o ToSay' = messages'
    <3>1. ToSay' = <<>> /\ messages' \in Seq(Message)
      BY <2>2 DEF ToSay, TypeOK
    <3> QED BY <3>1
  <2>6. messages' \in {messages, Append(messages, m)}
    <3>1. messages \o <<m>> = Append(messages, m)
      <4> HIDE DEF m
      <4> QED BY <1>0, <2>3
    <3> QED BY <2>2, <3>1
  <2> HIDE DEF m
  <2>7. Spoken(Append(messages, m)) = Spoken(messages)
    BY <1>0, <2>3, SpokenAppend
  <2> QED BY <2>1, <2>4, <2>5, <2>6, <2>7
<1>5. CASE e.type \in {"toolErr", "exit"} /\ (CallFails \/ Exit)
  <2>1. Applied(s, e) = s
    BY <1>5 DEF Applied, Appends
  <2>2. /\ messages' = messages /\ turn' = turn /\ call' = call
        /\ \/ lpc = "calls" /\ lpc' \in {"answer", "hung"}
           \/ lpc = "exit" /\ lpc' = "idle"
    BY <1>5 DEF CallFails, Exit, LGoto, sliceVars
  <2>3. ToSay' = ToSay
    BY <2>2 DEF ToSay
  <2> QED BY <2>1, <2>2, <2>3
<1> QED BY <1>1, <1>2, <1>3, <1>4, <1>5 DEF Announces

\* When the model is asked, the same images go from what is rebuilt.
LEMMA FollowsAsked ==
  ASSUME TypeOK, NEW conv, Rebuilds(conv), Asks,
         Spoken(conv[Len(events)]) = Spoken(messages \o ToSay)
  PROVE  \E new : Rebuilds(new)' /\ Spoken(new[Len(events')]) = Spoken(messages' \o ToSay')
<1>1. /\ messages' = InPlace(messages, Shown) /\ sess' = InPlace(sess, Shown)
      /\ events' = Sent(Shown) /\ Len(events') = Len(events) /\ lpc = "top" /\ lpc' = "complete"
  BY AskFacts DEF Asks
<1>2. messages \in Seq(Message) /\ InPlace(messages, Shown) \in Seq(Message)
  <2>1. messages \in Seq(Message)
    BY DEF TypeOK
  <2> QED BY <2>1, ShownTells, InPlaceFacts DEF Reworded
<1>3. ToSay = <<>> /\ ToSay' = <<>>
  BY <1>1 DEF ToSay
<1>4. messages \o ToSay = messages /\ messages' \o ToSay' = InPlace(messages, Shown)
  BY <1>1, <1>2, <1>3
<1>5. conv[Len(events)] \in Seq(Message)
  <2>1. Len(events) \in 0..Len(events)
    BY DEF TypeOK
  <2> QED BY <2>1 DEF Rebuilds
<1>6. \A m \in Message : IsSpoken(Shown[m]) <=> IsSpoken(m)
  <2> SUFFICES ASSUME NEW m \in Message PROVE IsSpoken(Shown[m]) <=> IsSpoken(m)
    OBVIOUS
  <2>1. CASE run \in Seeing
    BY <2>1 DEF Shown
  <2>2. CASE run \notin Seeing
    <3>1. Shown[m] = Unseen(m)
      BY <2>2 DEF Shown
    <3>2. Unseen(m).text = {IF x[1] = "image" THEN <<"unseen", x[2]>> ELSE x : x \in m.text}
      BY DEF Unseen, Message
    <3> DEFINE aside == {"system", "mistake", "caution"}
               note(x) == IF x[1] = "image" THEN <<"unseen", x[2]>> ELSE x
    <3>3. \A x : note(x)[1] \in aside <=> x[1] \in aside
      OBVIOUS
    <3>4. Unseen(m).text = {note(x) : x \in m.text}
      BY <3>2
    <3> HIDE DEF note, aside
    <3>5. Unseen(m).text = {} <=> m.text = {}
      BY <3>4
    <3>6. (\E y \in Unseen(m).text : y[1] \notin aside) <=> \E x \in m.text : x[1] \notin aside
      BY <3>3, <3>4
    <3>7. IsSpoken(Unseen(m)) <=> IsSpoken(m)
      BY <3>5, <3>6 DEF IsSpoken, aside
    <3> QED BY <3>1, <3>7
  <2> QED BY <2>1, <2>2
<1>7. Spoken(InPlace(conv[Len(events)], Shown)) = Spoken(InPlace(messages, Shown))
  <2>1. Shown \in [Message -> Message]
    BY ShownTells DEF Rewording, Shown
  <2>2. PICK f \in [Message -> Message] : f = Shown
    BY <2>1
  <2>3. PICK s \in Seq(Message) : s = conv[Len(events)]
    BY <1>5
  <2>4. Spoken(InPlace(s, f)) = InPlace(Spoken(s), f)
    BY <1>6, <2>2, SpokenInPlace
  <2>5. Spoken(InPlace(messages, f)) = InPlace(Spoken(messages), f)
    BY <1>2, <1>6, <2>2, SpokenInPlace
  <2> QED BY <1>4, <2>2, <2>3, <2>4, <2>5
<1>8. PICK new : /\ new \in [0..Len(events) -> Seq(Message)]
                 /\ new[0] = InPlace(sess, Shown)
                 /\ \A i \in 1..Len(events) : new[i] = Applied(new[i - 1], Sent(Shown)[i])
                 /\ new[Len(events)] = InPlace(conv[Len(events)], Shown)
  <2>1. \A e \in Event : Appends(e) => Shown[Said(e)] = Said(e)
    BY EventsAreTyped, SaidIsPlain, PlainIsShown DEF Appends
  <2> QED BY <2>1, ShownTells, RebuildsInPlace
<1>9. Rebuilds(new)'
  BY <1>1, <1>8 DEF Rebuilds
<1> QED BY <1>1, <1>4, <1>7, <1>8, <1>9

\* Every step of the loop keeps the session with it.
LEMMA FollowsLoop ==
  ASSUME TypeOK, Counters, TypeOK', Counters', SharedArrayAgrees, SessionFollows, LoopStep
  PROVE  SessionFollows'
<1> SUFFICES ASSUME run' >= 1, run' \notin clobbered'
             PROVE  \E conv : /\ Rebuilds(conv)'
                              /\ Spoken(conv[Len(events')]) = Spoken(messages' \o ToSay')
  BY DEF SessionFollows
<1>1. run' = run /\ clobbered' = clobbered
  BY LoopStepOnSlices
<1>2. sess' = sess \/ Asks \/ Compact
  BY <1>1, LoopKeepsSession
<1>3. PICK conv : Rebuilds(conv) /\ Spoken(conv[Len(events)]) = Spoken(messages \o ToSay)
  BY <1>1 DEF SessionFollows
<1>4. /\ conv \in [0..Len(events) -> Seq(Message)] /\ conv[0] = sess
      /\ \A i \in 1..Len(events) : conv[i] = Applied(conv[i - 1], events[i])
      /\ Len(events) \in 0..Len(events)
  BY <1>3, LoopFacts DEF Rebuilds
<1>5. CASE Asks
  BY <1>3, <1>5, FollowsAsked
<1>6. CASE /\ events' = events /\ ~Asks
           /\ TopOfTurn \/ Caution \/ CompletionFails \/ Overflows \/ AppendAnswer
              \/ CompactionFails \/ CallHangs \/ CallsDone
  <2>1. sess' = sess
    <3>1. ~Compact
      <4> SUFFICES ASSUME Compact PROVE FALSE
        OBVIOUS
      <4>1. Len(events') = Len(events) + 1 /\ Len(events) \in Nat
        BY CompactFacts, LoopFacts DEF Added
      <4> QED BY <1>6, <4>1
    <3> QED BY <1>2, <1>6, <3>1
  <2>2. Rebuilds(conv)'
    BY <1>3, <1>6, <2>1 DEF Rebuilds
  <2>3. Spoken(messages' \o ToSay') = Spoken(messages \o ToSay)
    BY <1>6, QuietStepSpeaks
  <2> QED BY <1>3, <1>6, <2>2, <2>3
<1>7. CASE ~Asks /\ \E e \in Event : Added(e) /\ Announces(e)
  <2>1. PICK e \in Event : Added(e) /\ Announces(e)
    BY <1>7
  <2>2. CASE ~Compact
    <3>1. sess' = sess /\ e.type # "compaction"
      BY <1>2, <1>7, <2>1, <2>2, AnnouncedFacts
    <3>2. \A i \in 1..Len(events) : events'[i] = events[i]
      BY <2>1, <3>1, AddedFacts
    <3>3. PICK new : Rebuilds(new)' /\ new[Len(events')] = Applied(conv[Len(events)], e)
      BY <1>4, <2>1, <3>1, <3>2, RebuildsAdded
    <3>4. Spoken(Applied(conv[Len(events)], e)) = Spoken(messages' \o ToSay')
      BY <1>3, <1>4, <2>1, SendingStepSpeaks
    <3> QED BY <3>3, <3>4
  <2>3. CASE Compact
    <3>1. turn \in 1..MaxTurn
      BY <2>3, CompactFacts
    <3>2. PICK f : f = Joined(messages, turn)
      OBVIOUS
    <3>3. /\ Rewording(f)
          /\ \A m \in Message : f[m] = m \/ m.role = "user"
      BY <3>1, <3>2, JoinedTells
    <3>4. \A x \in Event : Appends(x) => f[Said(x)] = Said(x)
      <4>1. \A x \in Event : Appends(x) => Said(x) \in Message /\ Said(x).role # "user"
        <5>1. \A x \in Event : Appends(x) => Said(x) \in Message
          BY EventsAreTyped DEF Appends
        <5>2. \A x : Said(x).role # "user"
          BY DEF Said, Answer, ToolResult
        <5> QED BY <5>1, <5>2
      <4> QED BY <3>3, <4>1
    <3>5. PICK mid : /\ mid \in [0..Len(events) -> Seq(Message)]
                     /\ mid[0] = InPlace(sess, f)
                     /\ \A i \in 1..Len(events) : mid[i] = Applied(mid[i - 1], Sent(f)[i])
      BY <1>3, <3>3, <3>4, RebuildsInPlace
    <3>6. sess' = InPlace(sess, f)
      BY <2>3, <3>2 DEF Compact
    <3>7. \A i \in 1..Len(events) : events'[i] = Sent(f)[i]
      <4>1. PICK y : events' = Append(Sent(f), y)
        BY <2>3, <3>2 DEF Compact
      <4>2. Sent(f) \in Seq(Event) /\ Len(Sent(f)) = Len(events)
        BY <3>3, SentFacts
      <4> QED BY <4>1, <4>2
    <3>8. PICK new : Rebuilds(new)' /\ new[Len(events')] = Applied(mid[Len(events)], e)
      BY <2>1, <3>5, <3>6, <3>7, RebuildsAdded
    <3>9. Applied(mid[Len(events)], e) = Applied(conv[Len(events)], e)
      <4>1. e.type = "compaction"
        BY <2>1, <2>3, AnnouncedFacts
      <4> QED BY <4>1 DEF Applied
    <3>10. Spoken(Applied(conv[Len(events)], e)) = Spoken(messages' \o ToSay')
      BY <1>3, <1>4, <2>1, SendingStepSpeaks
    <3> QED BY <3>8, <3>9, <3>10
  <2> QED BY <2>2, <2>3
<1> QED BY <1>5, <1>6, <1>7, LoopStepOnChannel

\* The consumer applies the first event, and leaves the loop's context unless it writes
\* over it.
LEMMA FollowsConsumer ==
  ASSUME TypeOK, ExitComesLast, SessionFollows, Consume
  PROVE  SessionFollows'
<1> SUFFICES ASSUME run' >= 1, run' \notin clobbered'
             PROVE  \E conv : /\ Rebuilds(conv)'
                              /\ Spoken(conv[Len(events')]) = Spoken(messages' \o ToSay')
  BY DEF SessionFollows
<1>1. Taken /\ UNCHANGED <<lpc, run, turn, reply, call>>
  BY ConsumeFacts DEF Taken, loopVars
<1>2. messages' = messages /\ run \notin clobbered /\ sess' = Applied(sess, events[1])
  <2>1. CASE /\ Appends(events[1]) /\ Said(events[1]) \in Message
             /\ SessionAppends(Said(events[1]))
    <3>1. messages' = messages /\ clobbered \subseteq clobbered'
      BY <1>1, <2>1, SessionAppendsFacts
    <3>2. sess' = Append(sess, Said(events[1]))
      BY <2>1 DEF SessionAppends
    <3>3. events[1].type # "compaction"
      BY <2>1 DEF Appends
    <3> QED BY <1>1, <2>1, <3>1, <3>2, <3>3 DEF Applied
  <2>2. CASE /\ events[1].type = "compaction" /\ sess' = events[1].context
             /\ UNCHANGED <<messages, loopArr, clobbered, stored, exits>>
    BY <1>1, <2>2 DEF Applied
  <2>3. CASE events[1].type \in {"mistake", "toolErr", "exit"} /\ UNCHANGED sliceVars
    BY <1>1, <2>3 DEF Applied, Appends, sliceVars
  <2> QED BY <2>1, <2>2, <2>3, ConsumeFacts
<1>3. PICK conv : Rebuilds(conv) /\ Spoken(conv[Len(events)]) = Spoken(messages \o ToSay)
  BY <1>1, <1>2 DEF SessionFollows
<1>4. PICK new : Rebuilds(new)' /\ new[Len(events')] = conv[Len(events)]
  BY <1>1, <1>2, <1>3, RebuildsTaken
<1>5. ToSay' = ToSay
  BY <1>1 DEF ToSay
<1> QED BY <1>2, <1>3, <1>4, <1>5

\* So does every step.
LEMMA FollowsStep ==
  ASSUME TypeOK, Counters, TypeOK', Counters', ExitComesLast, SharedArrayAgrees,
         SessionFollows, [Next]_vars
  PROVE  SessionFollows'
<1>1. CASE Cancel \/ UNCHANGED vars
  <2>1. UNCHANGED <<lpc, run, turn, reply, call, events, messages, sess, clobbered>>
    BY <1>1 DEF Cancel, vars, loopVars, chanVars, sliceVars
  <2> QED BY <2>1 DEF SessionFollows, Rebuilds, ToSay
<1>2. CASE Begin
  BY <1>2, FollowsFromFile
<1>3. CASE LoopStep
  BY <1>3, FollowsLoop
<1>4. CASE Consume
  BY <1>4, FollowsConsumer
<1> QED BY <1>1, <1>2, <1>3, <1>4 DEF Next

\* With no event left and the loop gone, the session is what was rebuilt.
LEMMA FollowsToTheEnd ==
  ASSUME TypeOK, SessionFollows
  PROVE  SessionMirrorsContext
<1> SUFFICES ASSUME Drained, run > 0, run \notin clobbered
             PROVE  Spoken(sess) = Spoken(messages)
  BY DEF SessionMirrorsContext
<1>1. lpc = "idle" /\ events = <<>> /\ run >= 1 /\ messages \in Seq(Message)
  BY DEF Drained, TypeOK
<1>2. PICK conv : Rebuilds(conv) /\ Spoken(conv[Len(events)]) = Spoken(messages \o ToSay)
  BY <1>1 DEF SessionFollows
<1>3. Len(events) = 0 /\ conv[0] = sess
  BY <1>1, <1>2 DEF Rebuilds
<1>4. messages \o ToSay = messages
  <2>1. ToSay = <<>>
    BY <1>1 DEF ToSay
  <2> QED BY <1>1, <2>1
<1> QED BY <1>2, <1>3, <1>4

-----------------------------------------------------------------------------
(***************************************************************************)
(* The theorems                                                            *)
(***************************************************************************)

\* Every step keeps the invariant.
LEMMA InvStep == AgentInv /\ [Next]_vars => AgentInv'
<1> SUFFICES ASSUME AgentInv, [Next]_vars PROVE AgentInv'
  OBVIOUS
<1>0. /\ TypeOK /\ Counters /\ ExitComesLast /\ NothingFromTheFuture /\ SummariesAreNew
      /\ ArraysAreOrdered /\ SharedArrayAgrees
      /\ ContextAnswered /\ SessionAnswered /\ StoredCallsAnswered
  BY DEF AgentInv
<1>1. CASE Next
  <2>1. TypeOK' /\ Counters' /\ ExitComesLast'
    BY <1>0, <1>1, TypeStep, CountersStep, ExitStep
  <2>2. NothingFromTheFuture' /\ SummariesAreNew' /\ ArraysAreOrdered'
    BY <1>0, <1>1, MentionStep, SummaryStep, ArraysStep
  <2>3. SharedArrayAgrees' /\ ContextAnswered'
    BY <1>0, <1>1, SharedStep, ContextStep
  <2>4. SessionAnswered' /\ StoredCallsAnswered'
    BY <1>0, <1>1, <2>3, SessionStep, StoredStep
  <2> QED BY <2>1, <2>2, <2>3, <2>4 DEF AgentInv
<1>2. CASE UNCHANGED vars
  <2>1. UNCHANGED <<lpc, run, left, mistakes, cancelled, turn, reply, call, broken>>
        /\ UNCHANGED <<events, closed, messages, sess, loopArr, sessArr, clobbered, stored, exits>>
    BY <1>2 DEF vars, loopVars, chanVars, sliceVars
  <2>2. TypeOK' /\ Counters' /\ ExitComesLast'
    <3>1. TypeOK'
      BY <1>0, <2>1 DEF TypeOK
    <3>2. Counters'
      BY <1>0, <2>1 DEF Counters
    <3>3. ExitComesLast'
      BY <1>0, <2>1 DEF ExitComesLast, Drained
    <3> QED BY <3>1, <3>2, <3>3
  <2>3. NothingFromTheFuture' /\ SummariesAreNew' /\ ArraysAreOrdered'
    <3>1. NothingFromTheFuture'
      BY <1>0, <2>1 DEF NothingFromTheFuture, Asked, Appended, Compaction
    <3>2. SummariesAreNew'
      BY <1>0, <2>1 DEF SummariesAreNew, KeptIn, Summarised, Compaction, Drained
    <3>3. ArraysAreOrdered'
      BY <1>0, <2>1 DEF ArraysAreOrdered, Latest, Compaction
    <3> QED BY <3>1, <3>2, <3>3
  <2>4. SharedArrayAgrees'
    BY <1>0, <2>1
       DEF SharedArrayAgrees, Latest, Compaction, InStep, Base, Reaches, Place, Upcoming,
                      Gap, Ahead
  <2>5. ContextAnswered' /\ StoredCallsAnswered'
    BY <1>0, <2>1 DEF ContextAnswered, InHand, StoredCallsAnswered
  <2>6. SessionAnswered'
    BY <1>0, <2>1 DEF SessionAnswered, Latest, Compaction, Base, AnsweredWith, CallAnswered,
                      AnnouncedAnswered, ToCome, NotToCome, ResultEvent, Pending
  <2> QED BY <2>2, <2>3, <2>4, <2>5, <2>6 DEF AgentInv
<1> QED BY <1>1, <1>2

\* So it holds in every reachable state.
LEMMA InvHolds == Spec => []AgentInv
BY InitInv, InvStep, PTL DEF Spec

\* Whatever happens, every variable has its type: the turns of all runs stay within
\* their number, the mistakes within one more than a run may make, the channel within
\* its capacity.
THEOREM TypeCorrect == Spec => []TypeOK
<1>1. AgentInv => TypeOK
  BY DEF AgentInv
<1> QED BY <1>1, InvHolds, PTL

\* What Save leaves in the session file answers each tool call once, behind the call.
THEOREM StoredCallsAreAnswered == Spec => []StoredCallsAnswered
<1>1. AgentInv => StoredCallsAnswered
  BY DEF AgentInv
<1> QED BY <1>1, InvHolds, PTL

\* The loop takes nothing from the session it shares messages and an array with: a step
\* leaves a message of it, puts notes in the place of its images where the model takes
\* none, or, in a compaction, joins the summary to a user's message; unless the session
\* wrote over the loop's context before.
THEOREM LoopLeavesSession == Spec => LoopLeavesSessionAlone
<1>1. AgentInv /\ [Next]_vars =>
        [LoopStep /\ run \notin clobbered =>
           /\ Len(sess') = Len(sess)
           /\ \A i \in DOMAIN sess :
                \/ sess'[i] = sess[i]
                \/ run \notin Seeing /\ sess'[i] = Unseen(sess[i])
                \/ /\ sess[i].role = "user" /\ Compact
                   /\ sess'[i] = [sess[i] EXCEPT !.text = @ \cup Summary(turn).text]]_vars
  <2> SUFFICES ASSUME AgentInv, LoopStep, run \notin clobbered
               PROVE  /\ Len(sess') = Len(sess)
                      /\ \A i \in DOMAIN sess :
                           \/ sess'[i] = sess[i]
                           \/ run \notin Seeing /\ sess'[i] = Unseen(sess[i])
                           \/ /\ sess[i].role = "user" /\ Compact
                              /\ sess'[i] = [sess[i] EXCEPT !.text = @ \cup Summary(turn).text]
    OBVIOUS
  <2>1. TypeOK /\ Counters /\ SharedArrayAgrees
    BY DEF AgentInv
  <2>2. sess \in Seq(Message) /\ DOMAIN sess = 1..Len(sess) /\ \A i \in 1..Len(sess) : sess[i] \in Message
    <3>1. sess \in Seq(Message)
      BY <2>1 DEF TypeOK
    <3> QED BY <3>1
  <2>3. CASE sess' = sess
    BY <2>3
  <2>4. CASE Asks
    <3>1. sess' = InPlace(sess, Shown)
      BY <2>1, <2>4, AskFacts
    <3>2. Len(sess') = Len(sess) /\ \A i \in 1..Len(sess) : sess'[i] = Shown[sess[i]]
      BY <2>2, <3>1, ShownTells, InPlaceFacts
    <3>3. \A m \in Message : Shown[m] = IF run \in Seeing THEN m ELSE Unseen(m)
      BY DEF Shown
    <3> QED BY <2>2, <3>2, <3>3
  <2>5. CASE Compact
    <3>1. turn \in 1..MaxTurn /\ sess' = InPlace(sess, Joined(messages, turn))
      BY <2>1, <2>5, CompactFacts DEF Compact
    <3>2. PICK f : f = Joined(messages, turn)
      OBVIOUS
    <3>3. /\ Rewording(f)
          /\ \A m \in Message :
               f[m] = m \/ (m.role = "user" /\ f[m] = [m EXCEPT !.text = @ \cup Summary(turn).text])
      BY <3>1, <3>2, JoinedTells
    <3>4. Len(sess') = Len(sess) /\ \A i \in 1..Len(sess) : sess'[i] = f[sess[i]]
      BY <2>2, <3>1, <3>2, <3>3, InPlaceFacts
    <3> QED BY <2>2, <2>5, <3>3, <3>4
  <2> QED BY <2>1, <2>3, <2>4, <2>5, LoopKeepsSession
<1> QED BY <1>1, InvHolds, PTL DEF Spec, LoopLeavesSessionAlone

\* A session file loses a text only for a summary it did not have before, or an image
\* for a note, when a model that takes no images was asked.
THEOREM HistoryKept == Spec => HistoryIsKeptOrSummarised
<1>1. AgentInv /\ [Next]_vars =>
        [\/ \A x \in TextsOf(stored) \ TextsOf(stored') :
              x[1] = "image" /\ run \notin Seeing /\ <<"unseen", x[2]>> \in TextsOf(stored')
         \/ \E x \in TextsOf(stored') \ TextsOf(stored) : x[1] = "summary"]_vars
  BY HistoryStep DEF AgentInv
<1> QED BY <1>1, InvHolds, PTL DEF Spec, HistoryIsKeptOrSummarised

\* When a run is over and its events are handled, the session says what the loop's
\* context says, message by message, unless the session wrote over the loop's array.
THEOREM ContextIsMirrored == Spec => []SessionMirrorsContext
<1>1. Init => SessionFollows
  BY DEF Init, SessionFollows
<1>2. AgentInv /\ AgentInv' /\ SessionFollows /\ [Next]_vars => SessionFollows'
  BY FollowsStep DEF AgentInv
<1>3. AgentInv /\ SessionFollows => SessionMirrorsContext
  BY FollowsToTheEnd DEF AgentInv
<1> QED BY <1>1, <1>2, <1>3, InvHolds, PTL DEF Spec

=============================================================================
