---------------------------- MODULE MemoryProofs ----------------------------
(***************************************************************************)
(* Theorems about the agents' memory, for any sessions, agents, sections   *)
(* and bounds: what is in the journal is in it once, in order, and all of  *)
(* it that was said in between; and no consolidation mixes two sections of *)
(* memory.toml. Spec, Next, Init and vars are those of ActivityReporter;   *)
(* those of the other are ConsolidationSpec and so on.                     *)
(***************************************************************************)
EXTENDS ActivityReporter, Consolidation, TLAPS

(***************************************************************************)
(* The inductive invariant                                                 *)
(***************************************************************************)

\* A commit has looked a buffer up.
Found(c) == pc[c] \in {"found", "appended"}

\* Commits are numbered as they begin, and one of a session ends before the next.
InOrder ==
  /\ \A c \in Commits : c > commits <=> pc[c] = "none"
  /\ \A c \in Commits : pc[c] # "none" => session[c] # None
  /\ \A c, d \in Commits :
       c < d /\ session[c] = session[d] /\ pc[d] # "none" => pc[c] \in {"appended", "dropped"}

\* A buffer is called after the commit that made it, which is of the same session and
\* none of the later ones, and it has a timer.
BuffersAreMade ==
  /\ \A c \in Commits : Found(c) =>
       /\ got[c] # None /\ got[c] <= c
       /\ Found(got[c]) /\ got[got[c]] = got[c] /\ session[got[c]] = session[c]
  /\ \A b \in Buffers : timer[b] # "none" <=> Found(b) /\ got[b] = b

\* In a session no commit is given a buffer older than an earlier commit was given.
BuffersFollow ==
  \A c, d \in Commits :
    Found(c) /\ Found(d) /\ session[c] = session[d] /\ c < d => got[c] <= got[d]

\* The map has the buffer of a session that is still to be taken away, the newest.
MapIsNewest ==
  /\ \A b \in Buffers : timer[b] \in {"armed", "skipped", "firing"} => buffers[session[b]] = b
  /\ \A s \in Sessions : buffers[s] # None =>
       /\ session[buffers[s]] = s /\ timer[buffers[s]] \in {"armed", "skipped", "firing"}
       /\ \A c \in Commits : Found(c) /\ session[c] = s => got[c] <= buffers[s]

Increasing(seq) == \A k, l \in DOMAIN seq : k < l => seq[k] < seq[l]

\* A buffer holds what was appended to it, in order.
BuffersHold ==
  \A b \in Buffers :
    /\ Increasing(msgs[b])
    /\ \A c \in Commits : c \in Range(msgs[b]) <=> pc[c] = "appended" /\ got[c] = b

\* What a callback has taken is the beginning of its buffer.
SegmentsAreTaken ==
  \A b \in Buffers : timer[b] \in {"asked", "done"} =>
    /\ Increasing(segment[b])
    /\ Range(segment[b]) \subseteq Range(msgs[b])
    /\ \A c \in Range(msgs[b]), d \in Range(segment[b]) : c < d => c \in Range(segment[b])

\* The journal has segments of callbacks that are over, and none of them twice.
JournalIsTaken ==
  /\ \A i \in DOMAIN journal : \E b \in Buffers : timer[b] = "done" /\ journal[i] = segment[b]
  /\ \A i, j \in DOMAIN journal : i # j => Range(journal[i]) \cap Range(journal[j]) = {}

\* What can still be logged, or is, is not lost.
NotYetLost ==
  /\ \A c \in Commits : pc[c] # "appended" => lost[c] = None
  /\ \A c \in Commits :
       pc[c] = "appended" /\ timer[got[c]] \in {"armed", "firing", "released"} => lost[c] = None
  /\ \A b \in Buffers : timer[b] = "asked" => \A c \in Range(segment[b]) : lost[c] = None
  /\ \A i \in DOMAIN journal : \A c \in Range(journal[i]) : lost[c] = None

ReporterInv ==
  /\ TypeOK /\ InOrder /\ BuffersAreMade /\ BuffersFollow /\ MapIsNewest /\ BuffersHold
  /\ SegmentsAreTaken /\ JournalIsTaken /\ NotYetLost

PCs == {"none", "new", "checked", "found", "appended", "dropped"}
Stages == {"none", "armed", "skipped", "firing", "released", "asked", "done"}
Reasons == {"late", "failed", "switched off", None}

-----------------------------------------------------------------------------
(***************************************************************************)
(* Lemmas                                                                  *)
(***************************************************************************)

\* Commits and buffers are numbers, and None is none of them.
LEMMA Numbers ==
  /\ Buffers = Commits
  /\ \A c \in Commits : c \in Nat /\ c # None
BY ReporterAssumption DEF Commits, Buffers

\* A commit goes on, and the others stay where they are.
LEMMA Moves ==
  ASSUME TypeOK, NEW c \in Commits, NEW from \in PCs, NEW to \in PCs, Move(c, from, to)
  PROVE  /\ pc' \in [Commits -> PCs] /\ pc[c] = from /\ pc'[c] = to
         /\ \A d \in Commits : d # c => pc'[d] = pc[d]
<1>1. pc \in [Commits -> PCs] /\ pc[c] = from /\ pc' = [pc EXCEPT ![c] = to]
  BY DEF TypeOK, PCs, Move
<1> QED BY <1>1

\* So does the callback of a timer.
LEMMA TimersMove ==
  ASSUME TypeOK, NEW b \in Buffers, NEW from \in Stages, NEW to \in Stages, TimerMoves(b, from, to)
  PROVE  /\ timer' \in [Buffers -> Stages] /\ timer[b] = from /\ timer'[b] = to
         /\ \A a \in Buffers : a # b => timer'[a] = timer[a]
<1>1. timer \in [Buffers -> Stages] /\ timer[b] = from /\ timer' = [timer EXCEPT ![b] = to]
  BY DEF TypeOK, Stages, TimerMoves
<1> QED BY <1>1

\* Those that are lost now are lost, and the others were before or are not.
LEMMA Lost ==
  ASSUME TypeOK, NEW cs, NEW why \in Reasons, Lose(cs, why)
  PROVE  /\ lost' \in [Commits -> Reasons]
         /\ \A c \in Commits : c \notin cs => lost'[c] = lost[c]
<1>1. lost \in [Commits -> Reasons]
  BY DEF TypeOK, Reasons
<1>2. lost' = [c \in Commits |-> IF c \in cs /\ lost[c] = None THEN why ELSE lost[c]]
  BY DEF Lose
<1> QED BY <1>1, <1>2

\* What the appending of a message does to a buffer's messages.
LEMMA Longer ==
  ASSUME NEW S, NEW seq \in Seq(S), NEW x \in S
  PROVE  /\ Append(seq, x) \in Seq(S)
         /\ Range(Append(seq, x)) = Range(seq) \cup {x}
<1>1. /\ Append(seq, x) \in Seq(S) /\ DOMAIN Append(seq, x) = 1..(Len(seq) + 1)
      /\ DOMAIN seq = 1..Len(seq) /\ Len(seq) \in Nat
      /\ Append(seq, x)[Len(seq) + 1] = x
      /\ \A i \in 1..Len(seq) : Append(seq, x)[i] = seq[i]
  OBVIOUS
<1>2. \A i \in 1..(Len(seq) + 1) : i \in 1..Len(seq) \/ i = Len(seq) + 1
  BY <1>1
<1>3. 1..Len(seq) \subseteq 1..(Len(seq) + 1) /\ Len(seq) + 1 \in 1..(Len(seq) + 1)
  BY <1>1
<1> QED BY <1>1, <1>2, <1>3, Zenon DEF Range

LEMMA LongerStillIncreases ==
  ASSUME NEW seq \in Seq(Nat), NEW x \in Nat, Increasing(seq), \A y \in Range(seq) : y < x
  PROVE  Increasing(Append(seq, x))
<1>1. /\ DOMAIN Append(seq, x) = 1..(Len(seq) + 1)
      /\ DOMAIN seq = 1..Len(seq) /\ Len(seq) \in Nat
      /\ Append(seq, x)[Len(seq) + 1] = x
      /\ \A i \in 1..Len(seq) : Append(seq, x)[i] = seq[i] /\ seq[i] \in Nat
  OBVIOUS
<1>2. \A i \in 1..Len(seq) : seq[i] < x
  BY <1>1 DEF Range
<1> SUFFICES ASSUME NEW k \in 1..(Len(seq) + 1), NEW l \in 1..(Len(seq) + 1), k < l
             PROVE  Append(seq, x)[k] < Append(seq, x)[l]
  BY <1>1 DEF Increasing
<1>3. k \in 1..Len(seq)
  BY <1>1
<1>4. CASE l \in 1..Len(seq)
  BY <1>1, <1>3, <1>4 DEF Increasing
<1>5. CASE l = Len(seq) + 1
  BY <1>1, <1>2, <1>3, <1>5
<1> QED BY <1>1, <1>4, <1>5

-----------------------------------------------------------------------------
(***************************************************************************)
(* The steps                                                               *)
(***************************************************************************)

\* A commit begins: a new number, of a session whose earlier commits are over.
LEMMA Beginning ==
  ASSUME TypeOK, InOrder, NEW s \in Sessions, Begin(s)
  PROVE  \E c \in Commits :
           /\ c = commits + 1 /\ commits' = c /\ pc[c] = "none"
           /\ \A d \in Commits : d > c => pc[d] = "none"
           /\ \A d \in Commits : session[d] = s => pc[d] \in {"appended", "dropped"}
           /\ session' \in [Commits -> Sessions \cup {None}] /\ session'[c] = s
           /\ pc' \in [Commits -> PCs] /\ pc'[c] = "new"
           /\ \A d \in Commits : d # c => session'[d] = session[d] /\ pc'[d] = pc[d]
           /\ UNCHANGED <<enabled, switches, got, buffers, timer, msgs, segment, journal, lost>>
<1> DEFINE c == commits + 1
<1>1. c \in Commits /\ c > commits /\ c \in Nat /\ commits \in Nat
  <2>1. commits \in 0..MaxCommits /\ commits < MaxCommits
    BY DEF Begin, TypeOK
  <2> QED BY <2>1, ReporterAssumption DEF Commits
<1>2. pc[c] = "none" /\ \A d \in Commits : d > c => pc[d] = "none"
  BY <1>1, Numbers DEF InOrder
<1>3. pc \in [Commits -> PCs] /\ session \in [Commits -> Sessions \cup {None}]
  BY DEF TypeOK, PCs
<1>4. /\ pc' = [pc EXCEPT ![c] = "new"] /\ session' = [session EXCEPT ![c] = s] /\ commits' = c
      /\ \A d \in Commits : session[d] = s => pc[d] \in {"appended", "dropped"}
      /\ UNCHANGED <<enabled, switches, got, buffers, timer, msgs, segment, journal, lost>>
  BY DEF Begin
<1> HIDE DEF c
<1>5. /\ pc' \in [Commits -> PCs] /\ pc'[c] = "new"
      /\ session' \in [Commits -> Sessions \cup {None}] /\ session'[c] = s
      /\ \A d \in Commits : d # c => session'[d] = session[d] /\ pc'[d] = pc[d]
  BY <1>1, <1>3, <1>4 DEF PCs
<1>6. c = commits + 1
  BY DEF c
<1> QED BY <1>1, <1>2, <1>4, <1>5, <1>6

\* A commit is given the buffer of its session, or makes it.
LEMMA Getting ==
  ASSUME TypeOK, InOrder, NEW c \in Commits, GetBuffer(c)
  PROVE  /\ session[c] \in Sessions /\ pc[c] = "checked"
         /\ pc' \in [Commits -> PCs] /\ pc'[c] = "found"
         /\ got' \in [Commits -> Buffers \cup {None}]
         /\ \A d \in Commits : d # c => pc'[d] = pc[d] /\ got'[d] = got[d]
         /\ \/ /\ buffers[session[c]] = None /\ got'[c] = c
               /\ buffers' \in [Sessions -> Buffers \cup {None}] /\ buffers'[session[c]] = c
               /\ \A s \in Sessions : s # session[c] => buffers'[s] = buffers[s]
               /\ timer' \in [Buffers -> Stages] /\ timer'[c] = "armed"
               /\ \A b \in Buffers : b # c => timer'[b] = timer[b]
            \/ /\ buffers[session[c]] # None /\ got'[c] = buffers[session[c]]
               /\ UNCHANGED <<buffers, timer>>
         /\ UNCHANGED <<enabled, switches, commits, session, msgs, segment, journal, lost>>
<1>1. Move(c, "checked", "found")
  BY DEF GetBuffer
<1>2. /\ pc' \in [Commits -> PCs] /\ pc[c] = "checked" /\ pc'[c] = "found"
      /\ \A d \in Commits : d # c => pc'[d] = pc[d]
  BY <1>1, Moves DEF PCs
<1>3. session[c] \in Sessions
  <2>1. session[c] # None
    BY <1>2 DEF InOrder
  <2>2. session \in [Commits -> Sessions \cup {None}]
    BY DEF TypeOK
  <2> QED BY <2>1, <2>2
<1>4. /\ got \in [Commits -> Buffers \cup {None}] /\ timer \in [Buffers -> Stages]
      /\ buffers \in [Sessions -> Buffers \cup {None}]
  BY DEF TypeOK, Stages
<1>5. UNCHANGED <<enabled, switches, commits, session, msgs, segment, journal, lost>>
  BY DEF GetBuffer
<1>6. CASE buffers[session[c]] = None
  <2>1. /\ got' = [got EXCEPT ![c] = c] /\ timer' = [timer EXCEPT ![c] = "armed"]
        /\ buffers' = [buffers EXCEPT ![session[c]] = c]
    BY <1>6 DEF GetBuffer
  <2> QED BY <1>2, <1>3, <1>4, <1>5, <1>6, <2>1, Numbers DEF Stages
<1>7. CASE buffers[session[c]] # None
  <2>1. got' = [got EXCEPT ![c] = buffers[session[c]]] /\ UNCHANGED <<buffers, timer>>
    BY <1>7 DEF GetBuffer
  <2> QED BY <1>2, <1>3, <1>4, <1>5, <1>7, <2>1
<1> QED BY <1>6, <1>7

\* A message is appended to the buffer its commit has looked up.
LEMMA Appending ==
  ASSUME TypeOK, BuffersAreMade, NEW c \in Commits, AppendMsgs(c)
  PROVE  /\ pc[c] = "found" /\ got[c] \in Buffers
         /\ pc' \in [Commits -> PCs] /\ pc'[c] = "appended"
         /\ \A d \in Commits : d # c => pc'[d] = pc[d]
         /\ msgs' \in [Buffers -> Seq(Commits)] /\ msgs'[got[c]] = Append(msgs[got[c]], c)
         /\ \A b \in Buffers : b # got[c] => msgs'[b] = msgs[b]
         /\ lost' \in [Commits -> Reasons]
         /\ \A d \in Commits : d # c => lost'[d] = lost[d]
         /\ timer[got[c]] \in {"armed", "firing", "released"} => lost'[c] = lost[c]
         /\ UNCHANGED <<enabled, switches, commits, session, got, buffers, timer, segment, journal>>
<1> DEFINE b == got[c]
<1>1. Move(c, "found", "appended")
  BY DEF AppendMsgs
<1>2. /\ pc' \in [Commits -> PCs] /\ pc[c] = "found" /\ pc'[c] = "appended"
      /\ \A d \in Commits : d # c => pc'[d] = pc[d]
  BY <1>1, Moves DEF PCs
<1>3. b \in Buffers
  <2>1. got[c] # None
    BY <1>2 DEF BuffersAreMade, Found
  <2>2. got \in [Commits -> Buffers \cup {None}]
    BY DEF TypeOK
  <2> QED BY <2>1, <2>2
<1>4. /\ msgs' = [msgs EXCEPT ![b] = Append(msgs[b], c)]
      /\ UNCHANGED <<enabled, switches, commits, session, got, buffers, timer, segment, journal>>
  BY DEF AppendMsgs
<1>5. msgs \in [Buffers -> Seq(Commits)]
  BY DEF TypeOK
<1>6. Append(msgs[b], c) \in Seq(Commits)
  BY <1>3, <1>5
<1>7. /\ Lose({c}, "late") \/ Lose({c}, "switched off") \/ UNCHANGED lost
      /\ timer[b] \in {"armed", "firing", "released"} => UNCHANGED lost
  BY DEF AppendMsgs
<1> HIDE DEF b
<1>8. /\ msgs' \in [Buffers -> Seq(Commits)] /\ msgs'[b] = Append(msgs[b], c)
      /\ \A a \in Buffers : a # b => msgs'[a] = msgs[a]
  BY <1>3, <1>4, <1>5, <1>6
<1>9. lost' \in [Commits -> Reasons] /\ \A d \in Commits : d # c => lost'[d] = lost[d]
  <2>1. CASE UNCHANGED lost
    BY <2>1 DEF TypeOK, Reasons
  <2>2. ASSUME NEW why \in Reasons, Lose({c}, why)
        PROVE  lost' \in [Commits -> Reasons] /\ \A d \in Commits : d # c => lost'[d] = lost[d]
    BY <2>2, Lost
  <2> QED BY <1>7, <2>1, <2>2 DEF Reasons
<1>10. b = got[c]
  BY DEF b
<1> QED BY <1>2, <1>3, <1>4, <1>7, <1>8, <1>9, <1>10

\* The other steps leave commits alone, and what they have looked up.
LEMMA CommitsStay ==
  ASSUME TypeOK, Next, \A s \in Sessions : ~Begin(s), \A c \in Commits : ~CommitStep(c)
  PROVE  UNCHANGED <<commits, session, pc, got, msgs>>
BY DEF Next, CallbackStep, Fire, ReleaseBuffer, Transcript, Log, LogFails, Switch, commitVars

\* What a step does to a timer that was there, or was not.
LEMMA TimersStay ==
  ASSUME TypeOK, Next, \A c \in Commits : ~GetBuffer(c)
  PROVE  \A b \in Buffers : timer'[b] = "none" <=> timer[b] = "none"
<1>1. ASSUME NEW b \in Buffers, NEW from \in Stages \ {"none"}, NEW to \in Stages \ {"none"},
             TimerMoves(b, from, to)
      PROVE  \A a \in Buffers : timer'[a] = "none" <=> timer[a] = "none"
  BY <1>1, TimersMove
<1>2. ASSUME NEW b \in Buffers, Fire(b)
      PROVE  \A a \in Buffers : timer'[a] = "none" <=> timer[a] = "none"
  BY <1>1, <1>2 DEF Fire, TimerMoves, Stages
<1>3. CASE UNCHANGED timer
  BY <1>3
<1> QED BY <1>1, <1>2, <1>3 DEF Next, CommitStep, CallbackStep, Begin, CheckEnabled, AppendMsgs,
             ReleaseBuffer, Transcript, Log, LogFails, Switch, Stages

\* A commit has looked a buffer up from its GetBuffer on.
LEMMA FoundStay ==
  ASSUME TypeOK, InOrder, BuffersAreMade, Next, \A c \in Commits : ~GetBuffer(c)
  PROVE  /\ got' = got
         /\ \A c \in Commits : Found(c)' <=> Found(c)
         /\ \A c \in Commits : pc[c] # "none" => pc'[c] # "none" /\ session'[c] = session[c]
<1>1. ASSUME NEW s \in Sessions, Begin(s)
      PROVE  /\ got' = got
             /\ \A c \in Commits : Found(c)' <=> Found(c)
             /\ \A c \in Commits : pc[c] # "none" => pc'[c] # "none" /\ session'[c] = session[c]
  BY <1>1, Beginning DEF Found
<1>2. ASSUME NEW c \in Commits, CheckEnabled(c)
      PROVE  /\ got' = got /\ session' = session
             /\ \A d \in Commits : Found(d)' <=> Found(d)
             /\ \A d \in Commits : pc[d] # "none" => pc'[d] # "none"
  <2>1. PICK to \in {"checked", "dropped"} : Move(c, "new", to)
    BY <1>2 DEF CheckEnabled
  <2>2. /\ pc[c] = "new" /\ pc'[c] = to
        /\ \A d \in Commits : d # c => pc'[d] = pc[d]
    BY <2>1, Moves DEF PCs
  <2> QED BY <1>2, <2>2 DEF CheckEnabled, Found
<1>3. ASSUME NEW c \in Commits, AppendMsgs(c)
      PROVE  /\ got' = got /\ session' = session
             /\ \A d \in Commits : Found(d)' <=> Found(d)
             /\ \A d \in Commits : pc[d] # "none" => pc'[d] # "none"
  BY <1>3, Appending DEF Found
<1>4. CASE UNCHANGED <<session, pc, got>>
  BY <1>4 DEF Found
<1> QED BY <1>1, <1>2, <1>3, <1>4, CommitsStay DEF CommitStep

\* In a session one commit ends before the next begins.
LEMMA OrderStep == TypeOK /\ InOrder /\ Next => InOrder'
<1> SUFFICES ASSUME TypeOK, InOrder, Next PROVE InOrder'
  OBVIOUS
<1>1. ASSUME NEW s \in Sessions, Begin(s) PROVE InOrder'
  <2>1. PICK c \in Commits :
           /\ c = commits + 1 /\ commits' = c /\ pc[c] = "none"
           /\ \A d \in Commits : d > c => pc[d] = "none"
           /\ \A d \in Commits : session[d] = s => pc[d] \in {"appended", "dropped"}
           /\ session'[c] = s /\ pc'[c] = "new"
           /\ \A d \in Commits : d # c => session'[d] = session[d] /\ pc'[d] = pc[d]
    BY <1>1, Beginning
  <2>2. s # None /\ commits \in Nat
    <3>1. commits \in 0..MaxCommits
      BY DEF TypeOK
    <3> QED BY <3>1, ReporterAssumption
  <2>3. \A d \in Commits : d > commits' <=> pc'[d] = "none"
    <3> SUFFICES ASSUME NEW d \in Commits PROVE d > c <=> pc'[d] = "none"
      BY <2>1
    <3>1. d > c => d > commits
      BY <2>1, <2>2, Numbers
    <3>2. d < c => ~(d > commits)
      BY <2>1, <2>2, Numbers
    <3>3. d > c \/ d = c \/ d < c
      BY Numbers
    <3>4. CASE d = c
      BY <2>1, <3>4, Numbers
    <3>5. CASE d < c
      <4>1. pc'[d] = pc[d] /\ ~(d > c)
        BY <2>1, <3>5, Numbers
      <4> QED BY <3>2, <3>5, <4>1 DEF InOrder
    <3>6. CASE d > c
      <4>1. d # c
        BY <3>6, Numbers
      <4> QED BY <2>1, <3>6, <4>1
    <3> QED BY <3>3, <3>4, <3>5, <3>6
  <2>4. \A d \in Commits : pc'[d] # "none" => session'[d] # None
    BY <2>1, <2>2 DEF InOrder
  <2>5. ASSUME NEW d \in Commits, NEW e \in Commits, d < e,
               session'[d] = session'[e], pc'[e] # "none"
        PROVE  pc'[d] \in {"appended", "dropped"}
    <3>1. d # e
      BY <2>5, Numbers
    <3>2. CASE e = c
      BY <2>1, <2>5, <3>1, <3>2
    <3>3. CASE e # c
      <4>1. pc[e] # "none" /\ session'[e] = session[e]
        BY <2>1, <2>5, <3>3
      <4>2. d # c
        BY <2>1, <2>5, <4>1
      <4> QED BY <2>1, <2>5, <4>1, <4>2 DEF InOrder
    <3> QED BY <3>2, <3>3
  <2> QED BY <2>3, <2>4, <2>5 DEF InOrder
<1>2. ASSUME NEW c \in Commits, NEW from \in PCs \ {"none", "appended", "dropped"},
             NEW to \in PCs \ {"none"}, Move(c, from, to), UNCHANGED <<commits, session>>
      PROVE  InOrder'
  <2>1. /\ pc[c] = from /\ pc'[c] = to
        /\ \A d \in Commits : d # c => pc'[d] = pc[d]
    BY <1>2, Moves
  <2> QED BY <1>2, <2>1 DEF InOrder
<1>3. ASSUME NEW c \in Commits, CommitStep(c) PROVE InOrder'
  BY <1>2, <1>3 DEF CommitStep, CheckEnabled, GetBuffer, AppendMsgs, PCs
<1>4. CASE UNCHANGED <<commits, session, pc, got, msgs>>
  BY <1>4 DEF InOrder
<1> QED BY <1>1, <1>3, <1>4, CommitsStay

\* A commit finds the buffer of its own session, or makes one that none had found.
LEMMA MadeStep ==
  TypeOK /\ InOrder /\ BuffersAreMade /\ MapIsNewest /\ Next => BuffersAreMade'
<1> SUFFICES ASSUME TypeOK, InOrder, BuffersAreMade, MapIsNewest, Next PROVE BuffersAreMade'
  OBVIOUS
<1>1. ASSUME NEW c \in Commits, GetBuffer(c) PROVE BuffersAreMade'
  <2> DEFINE s == session[c]
  <2>1. /\ s \in Sessions /\ pc[c] = "checked" /\ session' = session
        /\ pc'[c] = "found"
        /\ \A d \in Commits : d # c => pc'[d] = pc[d] /\ got'[d] = got[d]
    BY <1>1, Getting
  <2>2. Found(c)' /\ ~Found(c) /\ \A d \in Commits : d # c => (Found(d)' <=> Found(d))
    BY <2>1 DEF Found
  <2>3. \A d \in Commits : Found(d) => got[d] \in Commits /\ got[d] # c
    <3>1. \A d \in Commits : got[d] \in Commits \cup {None}
      BY Numbers DEF TypeOK
    <3> QED BY <2>2, <3>1 DEF BuffersAreMade
  <2>4. timer[c] = "none"
    BY <2>2, Numbers DEF BuffersAreMade, TypeOK
  <2>5. CASE buffers[s] = None
    <3>1. /\ got'[c] = c /\ timer'[c] # "none"
          /\ \A b \in Buffers : b # c => timer'[b] = timer[b]
      BY <1>1, <2>5, Getting
    <3>2. ASSUME NEW d \in Commits, Found(d)'
          PROVE  /\ got'[d] # None /\ got'[d] <= d
                 /\ Found(got[d])' \/ d = c
                 /\ got'[got'[d]] = got'[d] /\ session'[got'[d]] = session'[d]
      <4>1. CASE d = c
        BY <2>1, <3>1, <4>1, Numbers
      <4>2. CASE d # c
        BY <2>1, <2>2, <2>3, <3>2, <4>2 DEF BuffersAreMade
      <4> QED BY <4>1, <4>2
    <3>3. ASSUME NEW d \in Commits, Found(d)'
          PROVE  pc'[got'[d]] \in {"found", "appended"}
      <4>1. CASE d = c
        BY <2>1, <3>1, <4>1
      <4>2. CASE d # c
        BY <2>1, <2>2, <2>3, <3>3, <4>2 DEF BuffersAreMade, Found
      <4> QED BY <4>1, <4>2
    <3>4. ASSUME NEW b \in Buffers
          PROVE  timer'[b] # "none" <=> pc'[b] \in {"found", "appended"} /\ got'[b] = b
      <4>1. CASE b = c
        BY <2>1, <3>1, <4>1
      <4>2. CASE b # c
        BY <2>1, <3>1, <4>2, Numbers DEF BuffersAreMade, Found
      <4> QED BY <4>1, <4>2
    <3> QED BY <3>2, <3>3, <3>4 DEF BuffersAreMade, Found
  <2>6. CASE buffers[s] # None
    <3> DEFINE n == buffers[s]
    <3>1. got'[c] = n /\ timer' = timer
      BY <1>1, <2>6, Getting
    <3>2. n \in Commits /\ session[n] = s /\ Found(n) /\ got[n] = n
      <4>1. n \in Buffers
        BY <2>1, <2>6 DEF TypeOK
      <4>2. timer[n] # "none" /\ session[n] = s
        BY <2>1, <2>6 DEF MapIsNewest
      <4> QED BY <4>1, <4>2, Numbers DEF BuffersAreMade
    <3>3. n # c /\ n <= c
      <4>1. n # c
        BY <2>2, <3>2
      <4>2. ~(c < n)
        BY <2>1, <3>2 DEF InOrder, Found
      <4> QED BY <4>1, <4>2, <3>2, Numbers
    <3> HIDE DEF n
    <3>4. ASSUME NEW d \in Commits, Found(d)'
          PROVE  /\ got'[d] # None /\ got'[d] <= d /\ pc'[got'[d]] \in {"found", "appended"}
                 /\ got'[got'[d]] = got'[d] /\ session'[got'[d]] = session'[d]
      <4>1. CASE d = c
        BY <2>1, <3>1, <3>2, <3>3, <4>1, Numbers DEF Found
      <4>2. CASE d # c
        BY <2>1, <2>2, <2>3, <3>4, <4>2 DEF BuffersAreMade, Found
      <4> QED BY <4>1, <4>2
    <3>5. ASSUME NEW b \in Buffers
          PROVE  timer'[b] # "none" <=> pc'[b] \in {"found", "appended"} /\ got'[b] = b
      <4>1. CASE b = c
        BY <2>4, <3>1, <3>3, <4>1
      <4>2. CASE b # c
        BY <2>1, <3>1, <4>2, Numbers DEF BuffersAreMade, Found
      <4> QED BY <4>1, <4>2
    <3> QED BY <3>4, <3>5 DEF BuffersAreMade, Found
  <2> QED BY <2>5, <2>6
<1>2. CASE \A c \in Commits : ~GetBuffer(c)
  <2>1. /\ got' = got /\ \A c \in Commits : Found(c)' <=> Found(c)
        /\ \A c \in Commits : Found(c) => session'[c] = session[c]
    BY <1>2, FoundStay DEF Found
  <2>2. \A b \in Buffers : timer'[b] = "none" <=> timer[b] = "none"
    BY <1>2, TimersStay
  <2>3. \A c \in Commits : Found(c) => got[c] \in Commits
    <3>1. \A d \in Commits : got[d] \in Commits \cup {None}
      BY Numbers DEF TypeOK
    <3> QED BY <3>1 DEF BuffersAreMade
  <2>4. \A c \in Commits : pc'[c] \in {"found", "appended"} <=> Found(c)
    BY <2>1 DEF Found
  <2> QED BY <2>1, <2>2, <2>3, <2>4, Numbers DEF BuffersAreMade, Found
<1> QED BY <1>1, <1>2

\* The buffer in the map is the newest, and a new one is newer.
LEMMA FollowStep ==
  ASSUME TypeOK, InOrder, BuffersAreMade, BuffersFollow, MapIsNewest, Next
  PROVE  BuffersFollow'
<1>1. ASSUME NEW c \in Commits, GetBuffer(c) PROVE BuffersFollow'
  <2>1. /\ session[c] \in Sessions /\ pc[c] = "checked" /\ session' = session /\ pc'[c] = "found"
        /\ \A d \in Commits : d # c => pc'[d] = pc[d] /\ got'[d] = got[d]
        /\ got'[c] = IF buffers[session[c]] = None THEN c ELSE buffers[session[c]]
    BY <1>1, Getting
  <2> SUFFICES ASSUME NEW d \in Commits, NEW e \in Commits, pc'[d] \in {"found", "appended"},
                      pc'[e] \in {"found", "appended"}, session[d] = session[e], d < e
               PROVE  got'[d] <= got'[e]
    BY <2>1 DEF BuffersFollow, Found
  <2>2. d # e
    BY Numbers
  <2>3. CASE e = c
    <3>1. Found(d) /\ got'[d] = got[d]
      BY <2>1, <2>2, <2>3 DEF Found
    <3>2. CASE buffers[session[c]] = None
      <4>1. got[d] <= d /\ got[d] \in Nat
        <5>1. got[d] \in Commits \cup {None}
          BY Numbers DEF TypeOK
        <5> QED BY <3>1, <5>1, Numbers DEF BuffersAreMade
      <4> QED BY <2>1, <2>3, <3>1, <3>2, <4>1, Numbers
    <3>3. CASE buffers[session[c]] # None
      BY <2>1, <2>3, <3>1, <3>3 DEF MapIsNewest
    <3> QED BY <3>2, <3>3
  <2>4. CASE d = c
    <3>1. pc[e] # "none"
      BY <2>1, <2>2, <2>4
    <3> QED BY <2>1, <2>4, <3>1 DEF InOrder
  <2>5. CASE d # c /\ e # c
    BY <2>1, <2>5 DEF BuffersFollow, Found
  <2> QED BY <2>3, <2>4, <2>5
<1>2. CASE \A c \in Commits : ~GetBuffer(c)
  <2>1. /\ got' = got /\ \A c \in Commits : Found(c)' <=> Found(c)
        /\ \A c \in Commits : Found(c) => session'[c] = session[c]
    BY <1>2, FoundStay DEF Found
  <2> QED BY <2>1 DEF BuffersFollow
<1> QED BY <1>1, <1>2

\* A buffer with a timer is of a session.
LEMMA TimedOfSession ==
  ASSUME TypeOK, InOrder, BuffersAreMade, NEW b \in Buffers, timer[b] # "none"
  PROVE  session[b] \in Sessions
<1>1. pc[b] # "none" /\ b \in Commits
  BY Numbers DEF BuffersAreMade, Found
<1>2. session[b] \in Sessions \cup {None}
  BY <1>1 DEF TypeOK
<1> QED BY <1>1, <1>2 DEF InOrder

\* The map has a buffer until releaseBuffer takes it away.
LEMMA MapStep ==
  ASSUME TypeOK, InOrder, BuffersAreMade, MapIsNewest, Next
  PROVE  MapIsNewest'
<1> DEFINE Kept == {"armed", "skipped", "firing"}
<1>1. ASSUME NEW c \in Commits, GetBuffer(c) PROVE MapIsNewest'
  <2>1. /\ session[c] \in Sessions /\ pc[c] = "checked" /\ session' = session /\ pc'[c] = "found"
        /\ \A d \in Commits : d # c => pc'[d] = pc[d] /\ got'[d] = got[d]
    BY <1>1, Getting
  <2>2. CASE buffers[session[c]] = None
    <3>1. /\ got'[c] = c /\ buffers'[session[c]] = c /\ timer'[c] = "armed"
          /\ \A s \in Sessions : s # session[c] => buffers'[s] = buffers[s]
          /\ \A b \in Buffers : b # c => timer'[b] = timer[b]
      BY <1>1, <2>2, Getting
    <3>2. timer[c] = "none"
      BY <2>1, Numbers DEF BuffersAreMade, TypeOK, Found
    <3>3. ASSUME NEW b \in Buffers, timer'[b] \in Kept PROVE buffers'[session[b]] = b
      <4>1. CASE b = c
        BY <3>1, <4>1
      <4>2. CASE b # c
        <5>1. buffers[session[b]] = b /\ timer[b] # "none"
          BY <3>1, <3>3, <4>2 DEF MapIsNewest
        <5>2. session[b] # session[c]
          BY <2>2, <5>1, Numbers
        <5>3. session[b] \in Sessions
          BY <5>1, TimedOfSession
        <5> QED BY <3>1, <5>1, <5>2, <5>3
      <4> QED BY <4>1, <4>2
    <3>4. ASSUME NEW s \in Sessions, buffers'[s] # None
          PROVE  /\ session[buffers'[s]] = s /\ timer'[buffers'[s]] \in Kept
                 /\ \A d \in Commits : pc'[d] \in {"found", "appended"} /\ session[d] = s
                      => got'[d] <= buffers'[s]
      <4>1. CASE s = session[c]
        <5>1. ASSUME NEW d \in Commits, pc'[d] \in {"found", "appended"}, session[d] = s, d # c
              PROVE  got'[d] <= c
          <6>1. Found(d) /\ got'[d] = got[d]
            BY <2>1, <5>1 DEF Found
          <6>2. got[d] <= d /\ got[d] \in Nat
            <7>1. got[d] \in Commits \cup {None}
              BY Numbers DEF TypeOK
            <7> QED BY <6>1, <7>1, Numbers DEF BuffersAreMade
          <6>3. ~(c < d)
            BY <2>1, <4>1, <5>1, <6>1 DEF InOrder, Found
          <6> QED BY <6>1, <6>2, <6>3, Numbers
        <5> QED BY <3>1, <4>1, <5>1, Numbers
      <4>2. CASE s # session[c]
        <5>1. buffers'[s] = buffers[s] /\ buffers[s] \in Buffers /\ buffers[s] # c
          <6>1. buffers'[s] = buffers[s] /\ buffers[s] \in Buffers
            BY <3>1, <3>4, <4>2 DEF TypeOK
          <6>2. timer[buffers[s]] \in Kept
            BY <3>4, <6>1 DEF MapIsNewest
          <6> QED BY <3>2, <6>1, <6>2
        <5>2. ASSUME NEW d \in Commits, pc'[d] \in {"found", "appended"}, session[d] = s
              PROVE  got'[d] <= buffers'[s]
          BY <2>1, <3>4, <4>2, <5>1, <5>2 DEF MapIsNewest, Found
        <5> QED BY <3>1, <3>4, <5>1, <5>2 DEF MapIsNewest
      <4> QED BY <4>1, <4>2
    <3> QED BY <2>1, <3>3, <3>4 DEF MapIsNewest, Found
  <2>3. CASE buffers[session[c]] # None
    <3>1. got'[c] = buffers[session[c]] /\ UNCHANGED <<buffers, timer>>
      BY <1>1, <2>3, Getting
    <3>2. buffers[session[c]] <= buffers[session[c]]
      <4>1. buffers[session[c]] \in Buffers
        BY <2>1, <2>3 DEF TypeOK
      <4> QED BY <4>1, Numbers
    <3>3. ASSUME NEW s \in Sessions, buffers[s] # None, NEW d \in Commits,
                 pc'[d] \in {"found", "appended"}, session[d] = s
          PROVE  got'[d] <= buffers[s]
      <4>1. CASE d = c
        BY <3>1, <3>2, <3>3, <4>1
      <4>2. CASE d # c
        BY <2>1, <3>3, <4>2 DEF MapIsNewest, Found
      <4> QED BY <4>1, <4>2
    <3> QED BY <2>1, <3>1, <3>3 DEF MapIsNewest, Found
  <2> QED BY <2>2, <2>3
<1>2. ASSUME NEW b \in Buffers, ReleaseBuffer(b) PROVE MapIsNewest'
  <2>1. /\ timer[b] = "firing" /\ timer'[b] = "released"
        /\ \A a \in Buffers : a # b => timer'[a] = timer[a]
    BY <1>2, TimersMove DEF ReleaseBuffer, Stages
  <2>2. /\ \A s \in Sessions : buffers'[s] = IF buffers[s] = b THEN None ELSE buffers[s]
        /\ UNCHANGED <<session, pc, got>>
    BY <1>2 DEF ReleaseBuffer, commitVars
  <2>3. ASSUME NEW a \in Buffers, timer'[a] \in Kept PROVE buffers'[session[a]] = a
    <3>1. a # b
      BY <2>1, <2>3
    <3>2. timer[a] \in Kept
      BY <2>1, <2>3, <3>1
    <3>3. session[a] \in Sessions
      BY <3>2, TimedOfSession
    <3>4. buffers[session[a]] = a
      BY <3>2 DEF MapIsNewest
    <3> QED BY <2>2, <3>1, <3>3, <3>4
  <2>4. ASSUME NEW s \in Sessions, buffers'[s] # None
        PROVE  buffers'[s] = buffers[s] /\ timer'[buffers'[s]] = timer[buffers'[s]]
    BY <2>1, <2>2, <2>4 DEF TypeOK
  <2> QED BY <2>2, <2>3, <2>4 DEF MapIsNewest, Found
<1>3. ASSUME UNCHANGED <<buffers, got>>, \A c \in Commits : Found(c)' <=> Found(c),
             \A c \in Commits : Found(c) => session'[c] = session[c],
             \A b \in Buffers : timer'[b] \in Kept <=> timer[b] \in Kept
      PROVE  MapIsNewest'
  <2>1. ASSUME NEW b \in Buffers, timer'[b] \in Kept PROVE buffers'[session'[b]] = b
    <3>1. timer[b] \in Kept
      BY <1>3, <2>1
    <3>2. Found(b) /\ b \in Commits
      BY <3>1, Numbers DEF BuffersAreMade
    <3> QED BY <1>3, <3>1, <3>2 DEF MapIsNewest
  <2>2. ASSUME NEW s \in Sessions, buffers[s] # None
        PROVE  /\ session'[buffers[s]] = s /\ timer'[buffers[s]] \in Kept
               /\ \A c \in Commits : Found(c)' /\ session'[c] = s => got[c] <= buffers[s]
    <3>1. buffers[s] \in Buffers
      BY <2>2 DEF TypeOK
    <3>2. session[buffers[s]] = s /\ timer[buffers[s]] \in Kept
      BY <2>2 DEF MapIsNewest
    <3>3. Found(buffers[s])
      BY <3>1, <3>2 DEF BuffersAreMade
    <3> QED BY <1>3, <2>2, <3>1, <3>2, <3>3, Numbers DEF MapIsNewest
  <2> QED BY <1>3, <2>1, <2>2 DEF MapIsNewest
<1>4. CASE ~(\E c \in Commits : GetBuffer(c)) /\ ~\E b \in Buffers : ReleaseBuffer(b)
  <2>1. /\ got' = got /\ \A c \in Commits : Found(c)' <=> Found(c)
        /\ \A c \in Commits : Found(c) => session'[c] = session[c]
    BY <1>4, FoundStay DEF Found
  <2>2. buffers' = buffers
    BY <1>4
       DEF Next, CommitStep, CallbackStep, Begin, CheckEnabled, AppendMsgs, Fire, Transcript,
           Log, LogFails, Switch
  <2>3. \A b \in Buffers : timer'[b] \in Kept <=> timer[b] \in Kept
    <3>1. ASSUME NEW b \in Buffers, Fire(b)
          PROVE  \A a \in Buffers : timer'[a] \in Kept <=> timer[a] \in Kept
      <4>1. PICK to \in {"firing", "skipped"} : TimerMoves(b, "armed", to)
        BY <3>1 DEF Fire, TimerMoves
      <4> QED BY <4>1, TimersMove DEF Stages
    <3>2. ASSUME NEW b \in Buffers, Transcript(b) \/ Log(b) \/ LogFails(b)
          PROVE  \A a \in Buffers : timer'[a] \in Kept <=> timer[a] \in Kept
      <4>1. PICK from \in {"released", "asked"}, to \in {"asked", "done"} : TimerMoves(b, from, to)
        BY <3>2 DEF Transcript, Log, LogFails
      <4> QED BY <4>1, TimersMove DEF Stages
    <3> QED BY <1>4, <3>1, <3>2
               DEF Next, CommitStep, CallbackStep, Begin, CheckEnabled, AppendMsgs, Switch
  <2> QED BY <1>3, <2>1, <2>2, <2>3
<1> QED BY <1>1, <1>2, <1>4

\* The messages of a buffer that was asked for stay in order, and the newest comes last.
LEMMA HoldStep ==
  ASSUME TypeOK, InOrder, BuffersAreMade, BuffersHold, Next
  PROVE  BuffersHold'
<1>1. ASSUME NEW c \in Commits, AppendMsgs(c) PROVE BuffersHold'
  <2> DEFINE b == got[c]
  <2>1. /\ pc[c] = "found" /\ b \in Buffers /\ pc'[c] = "appended" /\ got' = got
        /\ \A d \in Commits : d # c => pc'[d] = pc[d]
        /\ msgs'[b] = Append(msgs[b], c)
        /\ \A a \in Buffers : a # b => msgs'[a] = msgs[a]
    BY <1>1, Appending
  <2>2. msgs[b] \in Seq(Commits)
    BY <2>1 DEF TypeOK
  <2>3. Range(msgs'[b]) = Range(msgs[b]) \cup {c}
    BY <2>1, <2>2, Longer
  <2>4. Increasing(msgs'[b])
    <3>1. msgs[b] \in Seq(Nat) /\ c \in Nat
      BY <2>2, Numbers
    <3>2. ASSUME NEW d \in Range(msgs[b]) PROVE d < c
      <4>1. d \in Commits
        BY <2>2 DEF Range
      <4>2. pc[d] = "appended" /\ got[d] = b
        BY <2>1, <4>1 DEF BuffersHold
      <4>3. session[d] = session[c]
        BY <2>1, <4>1, <4>2 DEF BuffersAreMade, Found
      <4>4. ~(c < d) /\ c # d
        BY <2>1, <4>1, <4>2, <4>3 DEF InOrder
      <4> QED BY <4>1, <4>4, Numbers
    <3>3. Increasing(msgs[b])
      BY <2>1 DEF BuffersHold
    <3> QED BY <2>1, <3>1, <3>2, <3>3, LongerStillIncreases
  <2> HIDE DEF b
  <2>5. ASSUME NEW a \in Buffers
        PROVE  /\ Increasing(msgs'[a])
               /\ \A d \in Commits : d \in Range(msgs'[a]) <=> pc'[d] = "appended" /\ got[d] = a
    <3>1. CASE a = b
      <4>1. got[c] = b
        BY DEF b
      <4>2. ASSUME NEW d \in Commits
            PROVE  d \in Range(msgs'[a]) <=> pc'[d] = "appended" /\ got[d] = a
        <5>1. d \in Range(msgs'[a]) <=> d = c \/ d \in Range(msgs[b])
          BY <2>3, <3>1
        <5>2. d \in Range(msgs[b]) <=> pc[d] = "appended" /\ got[d] = b
          BY <2>1 DEF BuffersHold
        <5> QED BY <2>1, <3>1, <4>1, <5>1, <5>2
      <4> QED BY <2>4, <3>1, <4>2
    <3>2. CASE a # b
      <4>1. got[c] # a
        BY <3>2 DEF b
      <4> QED BY <2>1, <3>2, <4>1 DEF BuffersHold
    <3> QED BY <3>1, <3>2
  <2> QED BY <2>1, <2>5 DEF BuffersHold
<1>2. ASSUME UNCHANGED msgs, \A c \in Commits : pc[c] = "appended" <=> pc'[c] = "appended",
             \A c \in Commits : pc[c] = "appended" => got'[c] = got[c]
      PROVE  BuffersHold'
  BY <1>2 DEF BuffersHold
<1>3. ASSUME NEW s \in Sessions, Begin(s) PROVE BuffersHold'
  <2>1. UNCHANGED <<msgs, got>> /\ \A c \in Commits : pc[c] = "appended" <=> pc'[c] = "appended"
    BY <1>3, Beginning
  <2> QED BY <1>2, <2>1
<1>4. ASSUME NEW c \in Commits, CheckEnabled(c) PROVE BuffersHold'
  <2>1. PICK to \in {"checked", "dropped"} : Move(c, "new", to)
    BY <1>4 DEF CheckEnabled
  <2>2. \A d \in Commits : pc[d] = "appended" <=> pc'[d] = "appended"
    BY <2>1, Moves DEF PCs
  <2> QED BY <1>2, <1>4, <2>2 DEF CheckEnabled
<1>5. ASSUME NEW c \in Commits, GetBuffer(c) PROVE BuffersHold'
  <2>1. /\ UNCHANGED msgs /\ pc[c] = "checked" /\ pc'[c] = "found"
        /\ \A d \in Commits : d # c => pc'[d] = pc[d] /\ got'[d] = got[d]
    BY <1>5, Getting
  <2>2. \A d \in Commits :
          (pc[d] = "appended" <=> pc'[d] = "appended") /\ (pc[d] = "appended" => got'[d] = got[d])
    BY <2>1
  <2> QED BY <1>2, <2>1, <2>2
<1>6. CASE UNCHANGED <<commits, session, pc, got, msgs>>
  BY <1>2, <1>6
<1> QED BY <1>1, <1>3, <1>4, <1>5, <1>6, CommitsStay DEF CommitStep

\* No message is in two buffers.
LEMMA Apart ==
  ASSUME TypeOK, BuffersHold, NEW a \in Buffers, NEW b \in Buffers, a # b
  PROVE  /\ Range(msgs[a]) \subseteq Commits
         /\ Range(msgs[a]) \cap Range(msgs[b]) = {}
<1>1. msgs[a] \in Seq(Commits)
  BY DEF TypeOK
<1>2. Range(msgs[a]) \subseteq Commits
  BY <1>1 DEF Range
<1> QED BY <1>2 DEF BuffersHold

\* What is appended to a buffer comes after what was taken of it.
LEMMA SegmentStep ==
  ASSUME TypeOK, InOrder, BuffersAreMade, BuffersHold, SegmentsAreTaken, Next
  PROVE  SegmentsAreTaken'
<1> DEFINE Taken(b) == timer[b] \in {"asked", "done"}
<1>1. ASSUME NEW c \in Commits, AppendMsgs(c) PROVE SegmentsAreTaken'
  <2> DEFINE b == got[c]
  <2>1. /\ pc[c] = "found" /\ b \in Buffers /\ msgs'[b] = Append(msgs[b], c)
        /\ \A a \in Buffers : a # b => msgs'[a] = msgs[a]
        /\ UNCHANGED <<timer, segment>>
    BY <1>1, Appending
  <2>2. msgs[b] \in Seq(Commits)
    BY <2>1 DEF TypeOK
  <2>3. Range(msgs'[b]) = Range(msgs[b]) \cup {c}
    BY <2>1, <2>2, Longer
  <2>4. ASSUME NEW d \in Range(msgs[b]) PROVE d < c /\ ~(c < d)
    <3>1. d \in Commits
      BY <2>2 DEF Range
    <3>2. pc[d] = "appended" /\ got[d] = b
      BY <2>1, <3>1 DEF BuffersHold
    <3>3. session[d] = session[c]
      BY <2>1, <3>1, <3>2 DEF BuffersAreMade, Found
    <3>4. ~(c < d) /\ c # d
      BY <2>1, <3>1, <3>2, <3>3 DEF InOrder
    <3> QED BY <3>1, <3>4, Numbers
  <2> HIDE DEF b
  <2>5. ASSUME NEW a \in Buffers, Taken(a)
        PROVE  /\ Range(segment[a]) \subseteq Range(msgs'[a])
               /\ \A d \in Range(msgs'[a]), e \in Range(segment[a]) : d < e
                    => d \in Range(segment[a])
    <3>1. CASE a = b
      BY <2>3, <2>4, <2>5, <3>1 DEF SegmentsAreTaken
    <3>2. CASE a # b
      BY <2>1, <2>5, <3>2 DEF SegmentsAreTaken
    <3> QED BY <3>1, <3>2
  <2> QED BY <2>1, <2>5 DEF SegmentsAreTaken
<1>2. ASSUME UNCHANGED <<msgs, segment>>, \A b \in Buffers : Taken(b)' => Taken(b)
      PROVE  SegmentsAreTaken'
  BY <1>2 DEF SegmentsAreTaken
<1>3. ASSUME NEW b \in Buffers, Transcript(b) PROVE SegmentsAreTaken'
  <2>1. /\ \A a \in Buffers : a # b => timer'[a] = timer[a]
        /\ UNCHANGED msgs /\ segment' = [segment EXCEPT ![b] = msgs[b]]
    BY <1>3, TimersMove DEF Transcript, Stages
  <2>2. segment'[b] = msgs[b] /\ \A a \in Buffers : a # b => segment'[a] = segment[a]
    BY <2>1 DEF TypeOK
  <2>3. ASSUME NEW a \in Buffers, timer'[a] \in {"asked", "done"}
        PROVE  /\ Increasing(segment'[a])
               /\ Range(segment'[a]) \subseteq Range(msgs[a])
               /\ \A d \in Range(msgs[a]), e \in Range(segment'[a]) : d < e
                    => d \in Range(segment'[a])
    <3>1. CASE a = b
      BY <2>2, <3>1 DEF BuffersHold
    <3>2. CASE a # b
      BY <2>1, <2>2, <2>3, <3>2 DEF SegmentsAreTaken
    <3> QED BY <3>1, <3>2
  <2> QED BY <2>1, <2>3 DEF SegmentsAreTaken
<1>4. ASSUME NEW c \in Commits, GetBuffer(c) PROVE SegmentsAreTaken'
  <2>1. UNCHANGED <<msgs, segment>> /\ \A b \in Buffers : timer'[b] \in {timer[b], "armed"}
    BY <1>4, Getting
  <2> QED BY <1>2, <2>1
<1>5. ASSUME NEW b \in Buffers, Fire(b) \/ ReleaseBuffer(b) \/ Log(b) \/ LogFails(b)
      PROVE  SegmentsAreTaken'
  <2>1. UNCHANGED <<msgs, segment>>
    BY <1>5 DEF Fire, ReleaseBuffer, Log, LogFails
  <2>2. PICK from \in Stages, to \in Stages :
          TimerMoves(b, from, to) /\ (to \in {"asked", "done"} => from = "asked")
    BY <1>5 DEF Fire, ReleaseBuffer, Log, LogFails, TimerMoves, Stages
  <2>3. \A a \in Buffers : Taken(a)' => Taken(a)
    BY <2>2, TimersMove
  <2> QED BY <1>2, <2>1, <2>3
<1>6. CASE UNCHANGED <<msgs, segment, timer>>
  BY <1>2, <1>6
<1> QED BY <1>1, <1>3, <1>4, <1>5, <1>6
    DEF Next, CommitStep, CallbackStep, Begin, CheckEnabled, Switch

\* A callback is over when it has logged its segment, so that it logs it once.
LEMMA JournalStep ==
  ASSUME TypeOK, InOrder, BuffersAreMade, BuffersHold, SegmentsAreTaken, JournalIsTaken, Next
  PROVE  JournalIsTaken'
<1>1. ASSUME NEW b \in Buffers, Log(b) PROVE JournalIsTaken'
  <2> DEFINE n == Len(journal)
  <2>1. /\ timer[b] = "asked" /\ timer'[b] = "done"
        /\ \A a \in Buffers : a # b => timer'[a] = timer[a]
        /\ UNCHANGED segment /\ journal' = Append(journal, segment[b])
    BY <1>1, TimersMove DEF Log, Stages
  <2>2. /\ DOMAIN journal = 1..n /\ n \in Nat /\ DOMAIN journal' = 1..(n + 1)
        /\ journal'[n + 1] = segment[b] /\ \A i \in 1..n : journal'[i] = journal[i]
    <3>1. journal \in Seq(Seq(Commits)) /\ segment[b] \in Seq(Commits)
      BY DEF TypeOK
    <3> QED BY <2>1, <3>1
  <2> HIDE DEF n
  <2>3. \A i \in 1..(n + 1) : i \in 1..n \/ i = n + 1
    BY <2>2
  <2>4. ASSUME NEW i \in 1..n
        PROVE  /\ \E a \in Buffers : timer'[a] = "done" /\ journal'[i] = segment[a]
               /\ Range(journal'[i]) \cap Range(segment[b]) = {}
    <3>1. PICK a \in Buffers : timer[a] = "done" /\ journal[i] = segment[a]
      BY <2>2 DEF JournalIsTaken
    <3>2. a # b /\ timer'[a] = "done" /\ journal'[i] = segment[a]
      BY <2>1, <2>2, <3>1
    <3>3. Range(segment[a]) \subseteq Range(msgs[a]) /\ Range(segment[b]) \subseteq Range(msgs[b])
      BY <2>1, <3>1 DEF SegmentsAreTaken
    <3>4. Range(msgs[a]) \cap Range(msgs[b]) = {}
      BY <3>2, Apart
    <3> QED BY <3>2, <3>3, <3>4
  <2>5. \A i \in 1..(n + 1) : \E a \in Buffers : timer'[a] = "done" /\ journal'[i] = segment'[a]
    BY <2>1, <2>2, <2>3, <2>4
  <2>6. \A i, j \in 1..(n + 1) : i # j => Range(journal'[i]) \cap Range(journal'[j]) = {}
    BY <2>2, <2>3, <2>4 DEF JournalIsTaken
  <2> QED BY <2>2, <2>5, <2>6 DEF JournalIsTaken
<1>2. ASSUME UNCHANGED journal,
             \A b \in Buffers : timer[b] = "done" => timer'[b] = "done" /\ segment'[b] = segment[b]
      PROVE  JournalIsTaken'
  BY <1>2 DEF JournalIsTaken
<1>3. ASSUME NEW b \in Buffers, CallbackStep(b) \/ LogFails(b) PROVE JournalIsTaken'
  <2>1. PICK from \in Stages, to \in Stages : TimerMoves(b, from, to) /\ from # "done"
    BY <1>3 DEF CallbackStep, Fire, ReleaseBuffer, Transcript, LogFails, TimerMoves, Stages
  <2>2. timer[b] # "done" /\ \A a \in Buffers : a # b => timer'[a] = timer[a]
    BY <2>1, TimersMove
  <2>3. UNCHANGED journal
    BY <1>3 DEF CallbackStep, Fire, ReleaseBuffer, Transcript, LogFails
  <2>4. \A a \in Buffers : a # b => segment'[a] = segment[a]
    BY <1>3 DEF CallbackStep, Fire, ReleaseBuffer, Transcript, LogFails, TypeOK
  <2> QED BY <1>2, <2>2, <2>3, <2>4
<1>4. ASSUME NEW c \in Commits, GetBuffer(c) PROVE JournalIsTaken'
  <2>1. UNCHANGED <<journal, segment>> /\ pc[c] = "checked"
    BY <1>4, Getting
  <2>2. timer[c] = "none"
    BY <2>1, <1>4, Numbers DEF BuffersAreMade, TypeOK, Found
  <2>3. \A b \in Buffers : b # c => timer'[b] = timer[b]
    BY <1>4, Getting
  <2> QED BY <1>2, <2>1, <2>2, <2>3
<1>5. CASE UNCHANGED <<journal, segment, timer>>
  BY <1>2, <1>5
<1> QED BY <1>1, <1>3, <1>4, <1>5
    DEF Next, CommitStep, Begin, CheckEnabled, AppendMsgs, Switch

\* What the journal has was appended to a buffer whose callback is over.
LEMMA LoggedWereHeld ==
  ASSUME TypeOK, BuffersHold, SegmentsAreTaken, JournalIsTaken,
         NEW i \in DOMAIN journal, NEW c \in Range(journal[i])
  PROVE  \E b \in Buffers : timer[b] = "done" /\ c \in Range(msgs[b])
<1>1. PICK b \in Buffers : timer[b] = "done" /\ journal[i] = segment[b]
  BY DEF JournalIsTaken
<1> QED BY <1>1 DEF SegmentsAreTaken

\* What a buffer holds was appended to it.
LEMMA HeldWereAppended ==
  ASSUME TypeOK, BuffersHold, NEW b \in Buffers, NEW c \in Range(msgs[b])
  PROVE  c \in Commits /\ pc[c] = "appended" /\ got[c] = b
<1>1. msgs[b] \in Seq(Commits)
  BY DEF TypeOK
<1>2. c \in Commits
  BY <1>1 DEF Range
<1> QED BY <1>2 DEF BuffersHold

\* A message is lost at its append, after the transcript was taken or a timer that
\* did nothing, with the skipped timer, or with the answer that does not come.
LEMMA LostStep ==
  ASSUME TypeOK, InOrder, BuffersAreMade, BuffersHold, SegmentsAreTaken, JournalIsTaken,
         NotYetLost, Next
  PROVE  NotYetLost'
<1> DEFINE Alive == {"armed", "firing", "released"}
<1>1. ASSUME UNCHANGED <<lost, segment, journal>>,
             \A c \in Commits : pc'[c] = "appended" <=> pc[c] = "appended",
             \A c \in Commits : pc[c] = "appended" =>
               got'[c] = got[c] /\ (timer'[got[c]] \in Alive => timer[got[c]] \in Alive),
             \A b \in Buffers : timer'[b] = "asked" => timer[b] = "asked"
      PROVE  NotYetLost'
  BY <1>1 DEF NotYetLost
<1>2. \A c \in Commits : pc[c] = "appended" => got[c] \in Buffers
  <2>1. \A c \in Commits : got[c] \in Buffers \cup {None}
    BY DEF TypeOK
  <2> QED BY <2>1 DEF BuffersAreMade, Found
<1>3. ASSUME NEW s \in Sessions, Begin(s) PROVE NotYetLost'
  <2>1. /\ \A c \in Commits : pc'[c] = "appended" <=> pc[c] = "appended"
        /\ UNCHANGED <<lost, segment, journal, got, timer>>
    BY <1>3, Beginning
  <2> QED BY <1>1, <2>1
<1>4. ASSUME NEW c \in Commits, CheckEnabled(c) PROVE NotYetLost'
  <2>1. PICK to \in {"checked", "dropped"} : Move(c, "new", to)
    BY <1>4 DEF CheckEnabled
  <2>2. \A d \in Commits : pc'[d] = "appended" <=> pc[d] = "appended"
    BY <2>1, Moves DEF PCs
  <2> QED BY <1>1, <1>4, <2>2 DEF CheckEnabled
<1>5. ASSUME NEW c \in Commits, GetBuffer(c) PROVE NotYetLost'
  <2>1. /\ UNCHANGED <<lost, segment, journal>> /\ pc[c] = "checked" /\ pc'[c] = "found"
        /\ \A d \in Commits : d # c => pc'[d] = pc[d] /\ got'[d] = got[d]
        /\ \A b \in Buffers : b # c => timer'[b] = timer[b]
        /\ timer'[c] \in {timer[c], "armed"}
    BY <1>5, Getting
  <2>2. \A d \in Commits : pc[d] = "appended" => got[d] # c
    BY <2>1 DEF BuffersAreMade, Found
  <2>3. \A d \in Commits : pc'[d] = "appended" <=> pc[d] = "appended"
    BY <2>1
  <2>4. \A d \in Commits : pc[d] = "appended" => got'[d] = got[d] /\ timer'[got[d]] = timer[got[d]]
    BY <1>2, <2>1, <2>2
  <2>5. \A b \in Buffers : timer'[b] = "asked" => timer[b] = "asked"
    BY <2>1
  <2> QED BY <1>1, <2>1, <2>3, <2>4, <2>5
<1>6. ASSUME NEW c \in Commits, AppendMsgs(c) PROVE NotYetLost'
  <2>1. /\ pc[c] = "found" /\ pc'[c] = "appended" /\ got[c] \in Buffers
        /\ \A d \in Commits : d # c => pc'[d] = pc[d] /\ lost'[d] = lost[d]
        /\ timer[got[c]] \in Alive => lost'[c] = lost[c]
        /\ UNCHANGED <<got, timer, segment, journal>>
    BY <1>6, Appending
  <2>2. \A d \in Commits : pc'[d] # "appended" => lost'[d] = None
    BY <2>1 DEF NotYetLost
  <2>3. \A d \in Commits : pc'[d] = "appended" /\ timer[got[d]] \in Alive => lost'[d] = None
    BY <2>1 DEF NotYetLost
  <2>4. ASSUME NEW b \in Buffers, timer[b] = "asked", NEW d \in Range(segment[b])
        PROVE  lost'[d] = None
    <3>1. d \in Range(msgs[b])
      BY <2>4 DEF SegmentsAreTaken
    <3>2. d \in Commits /\ d # c
      BY <2>1, <3>1, HeldWereAppended
    <3> QED BY <2>1, <2>4, <3>2 DEF NotYetLost
  <2>5. ASSUME NEW i \in DOMAIN journal, NEW d \in Range(journal[i]) PROVE lost'[d] = None
    <3>1. d \in Commits /\ d # c
      BY <2>1, LoggedWereHeld, HeldWereAppended
    <3> QED BY <2>1, <3>1 DEF NotYetLost
  <2> QED BY <2>1, <2>2, <2>3, <2>4, <2>5 DEF NotYetLost
<1>7. ASSUME NEW b \in Buffers, NEW from \in {"armed", "asked"}, NEW to \in {"skipped", "done"},
             NEW why \in Reasons, NEW cs, cs \subseteq Range(msgs[b]),
             TimerMoves(b, from, to), Lose(cs, why), UNCHANGED <<pc, got, segment, journal>>
      PROVE  NotYetLost'
  <2>1. /\ timer[b] = from /\ timer'[b] = to
        /\ \A a \in Buffers : a # b => timer'[a] = timer[a]
    BY <1>7, TimersMove DEF Stages
  <2>2. \A c \in Commits : c \notin cs => lost'[c] = lost[c]
    BY <1>7, Lost
  <2>3. \A c \in cs : pc[c] = "appended" /\ got[c] = b
    BY <1>7, HeldWereAppended
  <2>4. ASSUME NEW c \in Commits, pc[c] # "appended" PROVE lost'[c] = None
    BY <2>2, <2>3, <2>4 DEF NotYetLost
  <2>5. ASSUME NEW c \in Commits, pc[c] = "appended", timer'[got[c]] \in Alive PROVE lost'[c] = None
    <3>1. got[c] # b /\ timer'[got[c]] = timer[got[c]]
      BY <1>2, <2>1, <2>5
    <3> QED BY <2>2, <2>3, <2>5, <3>1 DEF NotYetLost
  <2>6. ASSUME NEW a \in Buffers, timer'[a] = "asked", NEW c \in Range(segment[a])
        PROVE  lost'[c] = None
    <3>1. a # b /\ timer[a] = "asked"
      BY <2>1, <2>6
    <3>2. c \in Range(msgs[a])
      BY <3>1 DEF SegmentsAreTaken
    <3>3. c \in Commits /\ c \notin cs
      BY <2>3, <3>1, <3>2, HeldWereAppended
    <3> QED BY <2>2, <3>1, <3>3 DEF NotYetLost
  <2>7. ASSUME NEW i \in DOMAIN journal, NEW c \in Range(journal[i]) PROVE lost'[c] = None
    <3>1. PICK a \in Buffers : timer[a] = "done" /\ c \in Range(msgs[a])
      BY LoggedWereHeld
    <3>2. c \in Commits /\ got[c] = a
      BY <3>1, HeldWereAppended
    <3>3. a # b
      BY <2>1, <3>1
    <3> QED BY <2>2, <2>3, <3>2, <3>3 DEF NotYetLost
  <2> QED BY <1>7, <2>4, <2>5, <2>6, <2>7 DEF NotYetLost
<1>8. ASSUME NEW b \in Buffers, NEW to \in {"firing", "released"}, NEW from \in {"armed", "firing"},
             TimerMoves(b, from, to), UNCHANGED <<pc, got, lost, segment, journal>>
      PROVE  NotYetLost'
  <2>1. /\ timer[b] = from /\ timer'[b] = to
        /\ \A a \in Buffers : a # b => timer'[a] = timer[a]
    BY <1>8, TimersMove DEF Stages
  <2>2. \A a \in Buffers :
          (timer'[a] \in Alive => timer[a] \in Alive) /\ (timer'[a] = "asked" => timer[a] = "asked")
    BY <2>1
  <2> QED BY <1>1, <1>2, <1>8, <2>2
<1>9. ASSUME NEW b \in Buffers, Fire(b) PROVE NotYetLost'
  <2>1. UNCHANGED <<pc, got, segment, journal>>
    BY <1>9 DEF Fire, commitVars
  <2>2. \/ TimerMoves(b, "armed", "firing") /\ UNCHANGED lost
        \/ TimerMoves(b, "armed", "skipped") /\ Lose(Range(msgs[b]), "switched off")
    BY <1>9 DEF Fire, TimerMoves
  <2> QED BY <1>7, <1>8, <2>1, <2>2 DEF Reasons
<1>10. ASSUME NEW b \in Buffers, ReleaseBuffer(b) PROVE NotYetLost'
  BY <1>8, <1>10 DEF ReleaseBuffer, commitVars
<1>11. ASSUME NEW b \in Buffers, LogFails(b) PROVE NotYetLost'
  <2>1. Range(segment[b]) \subseteq Range(msgs[b])
    BY <1>11 DEF LogFails, TimerMoves, SegmentsAreTaken
  <2> QED BY <1>7, <1>11, <2>1 DEF LogFails, commitVars, Reasons
<1>12. ASSUME NEW b \in Buffers, Transcript(b) PROVE NotYetLost'
  <2>1. /\ timer[b] = "released" /\ timer'[b] = "asked"
        /\ \A a \in Buffers : a # b => timer'[a] = timer[a]
        /\ UNCHANGED <<pc, got, lost, journal>> /\ segment' = [segment EXCEPT ![b] = msgs[b]]
    BY <1>12, TimersMove DEF Transcript, Stages, commitVars
  <2>2. segment'[b] = msgs[b] /\ \A a \in Buffers : a # b => segment'[a] = segment[a]
    BY <2>1 DEF TypeOK
  <2>3. ASSUME NEW c \in Commits, pc[c] = "appended", timer'[got[c]] \in Alive PROVE lost[c] = None
    <3>1. timer[got[c]] \in Alive
      BY <1>2, <2>1, <2>3
    <3> QED BY <2>3, <3>1 DEF NotYetLost
  <2>4. ASSUME NEW a \in Buffers, timer'[a] = "asked", NEW c \in Range(segment'[a])
        PROVE  lost[c] = None
    <3>1. CASE a = b
      <4>1. c \in Commits /\ pc[c] = "appended" /\ got[c] = b
        BY <2>2, <3>1, HeldWereAppended
      <4> QED BY <2>1, <4>1 DEF NotYetLost
    <3>2. CASE a # b
      BY <2>1, <2>2, <2>4, <3>2 DEF NotYetLost
    <3> QED BY <3>1, <3>2
  <2> QED BY <2>1, <2>3, <2>4 DEF NotYetLost
<1>13. ASSUME NEW b \in Buffers, Log(b) PROVE NotYetLost'
  <2> DEFINE n == Len(journal)
  <2>1. /\ timer[b] = "asked" /\ timer'[b] = "done"
        /\ \A a \in Buffers : a # b => timer'[a] = timer[a]
        /\ UNCHANGED <<pc, got, lost, segment>> /\ journal' = Append(journal, segment[b])
    BY <1>13, TimersMove DEF Log, Stages, commitVars
  <2>2. /\ DOMAIN journal = 1..n /\ n \in Nat /\ DOMAIN journal' = 1..(n + 1)
        /\ journal'[n + 1] = segment[b] /\ \A i \in 1..n : journal'[i] = journal[i]
    <3>1. journal \in Seq(Seq(Commits)) /\ segment[b] \in Seq(Commits)
      BY DEF TypeOK
    <3> QED BY <2>1, <3>1
  <2> HIDE DEF n
  <2>3. \A i \in 1..(n + 1) : i \in 1..n \/ i = n + 1
    BY <2>2
  <2>4. \A i \in 1..(n + 1) : \A c \in Range(journal'[i]) : lost[c] = None
    BY <2>1, <2>2, <2>3 DEF NotYetLost
  <2>5. \A c \in Commits : pc[c] = "appended" /\ timer'[got[c]] \in Alive => timer[got[c]] \in Alive
    BY <1>2, <2>1
  <2>6. \A a \in Buffers : timer'[a] = "asked" => timer[a] = "asked"
    BY <2>1
  <2> QED BY <2>1, <2>2, <2>4, <2>5, <2>6 DEF NotYetLost
<1>14. CASE Switch
  BY <1>1, <1>14 DEF Switch, commitVars
<1> QED BY <1>3, <1>4, <1>5, <1>6, <1>9, <1>10, <1>11, <1>12, <1>13, <1>14
    DEF Next, CommitStep, CallbackStep

\* Every step keeps the types.
LEMMA TypeStep ==
  ASSUME TypeOK, InOrder, BuffersAreMade, Next
  PROVE  TypeOK'
<1>1. ASSUME NEW s \in Sessions, Begin(s) PROVE TypeOK'
  <2>1. PICK c \in Commits :
          /\ commits' = c
          /\ session' \in [Commits -> Sessions \cup {None}] /\ pc' \in [Commits -> PCs]
          /\ UNCHANGED <<enabled, switches, got, buffers, timer, msgs, segment, journal, lost>>
    BY <1>1, Beginning
  <2>2. c \in 0..MaxCommits
    BY DEF Commits
  <2> QED BY <2>1, <2>2 DEF TypeOK, PCs
<1>2. ASSUME NEW c \in Commits, CheckEnabled(c) PROVE TypeOK'
  <2>1. PICK to \in {"checked", "dropped"} : Move(c, "new", to)
    BY <1>2 DEF CheckEnabled
  <2>2. pc' \in [Commits -> PCs]
    BY <2>1, Moves DEF PCs
  <2> QED BY <1>2, <2>2 DEF CheckEnabled, TypeOK, PCs
<1>3. ASSUME NEW c \in Commits, GetBuffer(c) PROVE TypeOK'
  <2>1. /\ pc' \in [Commits -> PCs] /\ got' \in [Commits -> Buffers \cup {None}]
        /\ \/ UNCHANGED <<buffers, timer>>
           \/ buffers' \in [Sessions -> Buffers \cup {None}] /\ timer' \in [Buffers -> Stages]
        /\ UNCHANGED <<enabled, switches, commits, session, msgs, segment, journal, lost>>
    BY <1>3, Getting
  <2> QED BY <2>1 DEF TypeOK, PCs, Stages
<1>4. ASSUME NEW c \in Commits, AppendMsgs(c) PROVE TypeOK'
  <2>1. /\ pc' \in [Commits -> PCs] /\ msgs' \in [Buffers -> Seq(Commits)]
        /\ lost' \in [Commits -> Reasons]
        /\ UNCHANGED <<enabled, switches, commits, session, got, buffers, timer, segment, journal>>
    BY <1>4, Appending
  <2> QED BY <2>1 DEF TypeOK, PCs, Reasons
<1>5. ASSUME NEW b \in Buffers, CallbackStep(b) \/ Log(b) \/ LogFails(b) PROVE TypeOK'
  <2>1. PICK from \in Stages, to \in Stages : TimerMoves(b, from, to)
    BY <1>5 DEF CallbackStep, Fire, ReleaseBuffer, Transcript, Log, LogFails, TimerMoves, Stages
  <2>2. timer' \in [Buffers -> Stages]
    BY <2>1, TimersMove
  <2>3. UNCHANGED <<enabled, switches, commits, session, pc, got, msgs>>
    BY <1>5 DEF CallbackStep, Fire, ReleaseBuffer, Transcript, Log, LogFails, commitVars
  <2>4. buffers' \in [Sessions -> Buffers \cup {None}]
    BY <1>5 DEF CallbackStep, Fire, ReleaseBuffer, Transcript, Log, LogFails, TypeOK
  <2>5. segment' \in [Buffers -> Seq(Commits)]
    BY <1>5 DEF CallbackStep, Fire, ReleaseBuffer, Transcript, Log, LogFails, TypeOK
  <2>6. journal' \in Seq(Seq(Commits))
    <3>1. journal \in Seq(Seq(Commits)) /\ segment[b] \in Seq(Commits)
      BY DEF TypeOK
    <3>2. journal' = journal \/ journal' = Append(journal, segment[b])
      BY <1>5 DEF CallbackStep, Fire, ReleaseBuffer, Transcript, Log, LogFails
    <3> QED BY <3>1, <3>2
  <2>7. lost' \in [Commits -> Reasons]
    <3>1. \/ UNCHANGED lost \/ Lose(Range(msgs[b]), "switched off")
          \/ Lose(Range(segment[b]), "failed")
      BY <1>5 DEF CallbackStep, Fire, ReleaseBuffer, Transcript, Log, LogFails
    <3>2. CASE UNCHANGED lost
      BY <3>2 DEF TypeOK, Reasons
    <3>3. ASSUME NEW cs, NEW why \in Reasons, Lose(cs, why) PROVE lost' \in [Commits -> Reasons]
      BY <3>3, Lost
    <3> QED BY <3>1, <3>2, <3>3 DEF Reasons
  <2> QED BY <2>2, <2>3, <2>4, <2>5, <2>6, <2>7 DEF TypeOK, Stages, Reasons
<1>6. CASE Switch
  <2>1. switches' \in 0..MaxSwitches
    <3>1. switches \in 0..MaxSwitches /\ switches < MaxSwitches /\ switches' = switches + 1
      BY <1>6 DEF Switch, TypeOK
    <3> QED BY <3>1, ReporterAssumption
  <2>2. enabled' \in BOOLEAN
    BY <1>6, Zenon DEF Switch
  <2> QED BY <1>6, <2>1, <2>2 DEF Switch, commitVars, TypeOK
<1> QED BY <1>1, <1>2, <1>3, <1>4, <1>5, <1>6 DEF Next, CommitStep

-----------------------------------------------------------------------------
(***************************************************************************)
(* Theorems                                                                *)
(***************************************************************************)

\* The invariant holds at the start,
LEMMA InitReporter == Init => ReporterInv
<1> SUFFICES ASSUME Init PROVE ReporterInv
  OBVIOUS
<1>1. /\ commits \in Nat /\ commits = 0 /\ switches = 0 /\ commits \in 0..MaxCommits
      /\ switches \in 0..MaxSwitches
  BY ReporterAssumption DEF Init
<1>2. \A c \in Commits : c > 0
  BY DEF Commits
<1>3. TypeOK
  <2>1. /\ <<>> \in Seq(Commits) /\ <<>> \in Seq(Seq(Commits)) /\ enabled \in BOOLEAN
    BY DEF Init
  <2> QED BY <1>1, <2>1 DEF Init, TypeOK
<1>4. DOMAIN <<>> = {} /\ Range(<<>>) = {}
  BY DEF Range
<1>5. InOrder
  BY <1>1, <1>2 DEF Init, InOrder
<1>6. \A c \in Commits : ~Found(c)
  BY DEF Init, Found
<1>7. BuffersAreMade /\ BuffersFollow /\ MapIsNewest
  BY <1>6, Numbers DEF Init, BuffersAreMade, BuffersFollow, MapIsNewest, Buffers, Found
<1>8. BuffersHold /\ SegmentsAreTaken /\ JournalIsTaken /\ NotYetLost
  BY <1>4, Numbers
     DEF Init, BuffersHold, SegmentsAreTaken, JournalIsTaken, NotYetLost, Increasing
<1> QED BY <1>3, <1>5, <1>7, <1>8 DEF ReporterInv

\* every step keeps it,
LEMMA StepReporter == ReporterInv /\ [Next]_vars => ReporterInv'
<1> SUFFICES ASSUME ReporterInv, [Next]_vars PROVE ReporterInv'
  OBVIOUS
<1>1. CASE Next
  BY <1>1, TypeStep, OrderStep, MadeStep, FollowStep, MapStep, HoldStep, SegmentStep,
     JournalStep,
     LostStep DEF ReporterInv
<1>2. CASE UNCHANGED vars
  <2> USE <1>2 DEF vars, commitVars
  <2>1. TypeOK'
    BY DEF ReporterInv, TypeOK
  <2>2. InOrder' /\ BuffersAreMade' /\ BuffersFollow' /\ MapIsNewest'
    BY DEF ReporterInv, InOrder, BuffersAreMade, BuffersFollow, MapIsNewest, Found
  <2>3. BuffersHold' /\ SegmentsAreTaken' /\ JournalIsTaken' /\ NotYetLost'
    BY DEF ReporterInv, BuffersHold, SegmentsAreTaken, JournalIsTaken, NotYetLost
  <2> QED BY <2>1, <2>2, <2>3 DEF ReporterInv
<1> QED BY <1>1, <1>2

\* and so it holds always.
LEMMA ReporterHolds == Spec => []ReporterInv
BY InitReporter, StepReporter, PTL DEF Spec

\* Commits, buffers, their timers and the journal keep their types.
THEOREM ReporterTypes == Spec => []TypeOK
<1>1. ReporterInv => TypeOK
  BY DEF ReporterInv
<1> QED BY <1>1, ReporterHolds, PTL

\* A segment is all a session said between its first and its last message, in order; no
\* message is logged twice and none that was given up is logged.
LEMMA SegmentsAreWhole == ReporterInv => JournalIsFaithful
<1> SUFFICES ASSUME ReporterInv PROVE JournalIsFaithful
  OBVIOUS
<1> USE DEF ReporterInv
<1>1. ASSUME NEW i \in DOMAIN journal
      PROVE  /\ \A k, l \in DOMAIN journal[i] : k < l => journal[i][k] < journal[i][l]
             /\ \A k, l \in DOMAIN journal[i] : session[journal[i][k]] = session[journal[i][l]]
             /\ \A k, l \in DOMAIN journal[i], c \in Commits :
                  /\ journal[i][k] < c /\ c < journal[i][l] /\ pc[c] = "appended"
                  /\ session[c] = session[journal[i][k]]
                  => c \in Range(journal[i])
  <2> DEFINE seg == journal[i]
  <2>1. PICK b \in Buffers : timer[b] = "done" /\ seg = segment[b]
    BY DEF JournalIsTaken
  <2>2. /\ Increasing(seg) /\ Range(seg) \subseteq Range(msgs[b])
        /\ \A c \in Range(msgs[b]), d \in Range(seg) : c < d => c \in Range(seg)
    BY <2>1 DEF SegmentsAreTaken
  <2>3. ASSUME NEW k \in DOMAIN seg
        PROVE  /\ seg[k] \in Range(seg) /\ seg[k] \in Commits /\ pc[seg[k]] = "appended"
               /\ got[seg[k]] = b
    <3>1. seg[k] \in Range(seg)
      BY DEF Range
    <3> QED BY <2>2, <3>1, HeldWereAppended
  <2> HIDE DEF seg
  <2>4. \A k, l \in DOMAIN seg : session[seg[k]] = session[seg[l]]
    BY <2>3 DEF BuffersAreMade, Found
  <2>5. ASSUME NEW k \in DOMAIN seg, NEW l \in DOMAIN seg, NEW c \in Commits,
               seg[k] < c, c < seg[l], pc[c] = "appended", session[c] = session[seg[k]]
        PROVE  c \in Range(seg)
    <3>1. b <= got[c] /\ got[c] <= b
      BY <2>3, <2>4, <2>5 DEF BuffersFollow, Found
    <3>2. got[c] = b
      <4>1. got[c] \in Commits \cup {None} /\ got[c] # None
        BY <2>5, Numbers DEF TypeOK, BuffersAreMade, Found
      <4> QED BY <3>1, <4>1, Numbers
    <3>3. c \in Range(msgs[b])
      BY <2>5, <3>2 DEF BuffersHold
    <3> QED BY <2>2, <2>3, <2>5, <3>3
  <2>6. \A k, l \in DOMAIN seg : k < l => seg[k] < seg[l]
    BY <2>2 DEF Increasing
  <2> QED BY <2>4, <2>5, <2>6 DEF seg
<1>2. \A i, j \in DOMAIN journal : i # j => Range(journal[i]) \cap Range(journal[j]) = {}
  BY DEF JournalIsTaken
<1>3. \A c \in Commits : Logged(c) => lost[c] = None
  BY DEF Logged, NotYetLost
<1> QED BY <1>1, <1>2, <1>3 DEF JournalIsFaithful

\* What the journal says of a session is what was said in it.
THEOREM JournalStaysFaithful == Spec => []JournalIsFaithful
BY ReporterHolds, SegmentsAreWhole, PTL

-----------------------------------------------------------------------------
(***************************************************************************)
(* The consolidation, which works on that journal                          *)
(***************************************************************************)

\* The two fields differ in one place only: where load has set the model and not yet
\* the instruction.
Halfway == reload # Nil /\ reload[1] = "instruction"

FieldsAgree ==
  /\ Halfway => model = reload[2]
  /\ ~Halfway => model = instruction

\* The read lock of a run keeps a Reload out: what a run has read of the model stays
\* what the service has until the run has its instruction too.
ReadersExclude ==
  \A r \in Runs : runPc[r] = "instruct" => reload = Nil /\ readings[r].model = model

\* A run that has read both has them from the same section.
BothRead ==
  \A r \in Runs :
    runPc[r] \in {"start", "loop"} => readings[r].model = readings[r].instruction

\* A run that is at work is at work for an agent.
AtAnAgent ==
  \A r \in Runs : runPc[r] \in {"read", "instruct", "start", "loop"} => agent[r] # Nil

ConsolidationInv == ConsolidationTypeOK /\ FieldsAgree /\ ReadersExclude /\ BothRead /\ AtAnAgent

RunPCs == {"idle", "next", "read", "instruct", "start", "loop", "done"}
Readings == [model : Configs \cup {Nil}, instruction : Configs \cup {Nil}]
ReloadStages == {"model", "instruction", "enabled"}

-----------------------------------------------------------------------------
(***************************************************************************)
(* The invariant is preserved                                              *)
(***************************************************************************)

\* The daily run is none of the requests, and Nil is no agent, no section and no stage
\* of a Reload.
LEMMA Shapes ==
  /\ "daily" \in Runs /\ Nil \notin Configs /\ Nil \notin Agents
  /\ \A stage \in ReloadStages, c \in Configs :
       <<stage, c>> \in ReloadStages \X Configs /\ <<stage, c>> # Nil
BY ConsolidationAssumption DEF Runs, ReloadStages

\* Numbers of days, reloads and changes stay within their bounds.
LEMMA OneMore ==
  ASSUME NEW bound \in Nat, NEW n \in 0..bound, n < bound
  PROVE  n + 1 \in 0..bound
OBVIOUS

\* A run moves from one place to another, and the other runs stay where they are.
LEMMA RunMovesOn ==
  ASSUME ConsolidationTypeOK, NEW r \in Runs, NEW from, NEW to \in RunPCs, RunMoves(r, from, to)
  PROVE  /\ runPc[r] = from /\ runPc' \in [Runs -> RunPCs]
         /\ runPc'[r] = to /\ \A s \in Runs : s # r => runPc'[s] = runPc[s]
<1>1. runPc \in [Runs -> RunPCs] /\ runPc[r] = from /\ runPc' = [runPc EXCEPT ![r] = to]
  BY DEF ConsolidationTypeOK, RunPCs, RunMoves
<1> QED BY <1>1

\* Agents come and go, whoever is at work for them.
LEMMA InvAgents ==
  ASSUME ConsolidationInv, NEW a \in Agents, SaveAgent(a) \/ DeleteAgent(a)
  PROVE  ConsolidationInv'
<1>1. /\ \E flag \in Flags \cup {Nil} : agents' = [agents EXCEPT ![a] = flag]
      /\ changes < MaxChanges /\ changes' = changes + 1
      /\ UNCHANGED <<model, instruction, dailyOn, reload, reloads>>
      /\ UNCHANGED <<runPc, agent, readings, left, days, served>>
  BY DEF SaveAgent, DeleteAgent, Change, configVars, runVars
<1>2. ConsolidationTypeOK'
  <2>1. agents' \in [Agents -> Flags \cup {Nil}]
    BY <1>1 DEF ConsolidationInv, ConsolidationTypeOK
  <2>2. changes' \in 0..MaxChanges
    BY ConsolidationAssumption, <1>1, OneMore DEF ConsolidationInv, ConsolidationTypeOK
  <2> QED BY <1>1, <2>1, <2>2 DEF ConsolidationInv, ConsolidationTypeOK
<1> QED BY <1>1, <1>2
           DEF ConsolidationInv, FieldsAgree, Halfway, ReadersExclude, BothRead, AtAnAgent

\* A Reload begins when no run is between its two readings.
LEMMA InvBeginReload ==
  ASSUME ConsolidationInv, NEW c \in Configs, BeginReload(c)
  PROVE  ConsolidationInv'
<1>1. /\ reloads < MaxReloads /\ reload = Nil /\ \A r \in Runs : runPc[r] # "instruct"
      /\ reloads' = reloads + 1 /\ reload' = <<"model", c>>
      /\ UNCHANGED <<agents, changes, model, instruction, dailyOn>>
      /\ UNCHANGED <<runPc, agent, readings, left, days, served>>
  BY DEF BeginReload, Reading, agentVars, runVars
<1>2. ConsolidationTypeOK'
  <2>1. reload' \in (ReloadStages \X Configs) \cup {Nil}
    BY <1>1, Shapes DEF ReloadStages
  <2>2. reloads' \in 0..MaxReloads
    BY ConsolidationAssumption, <1>1, OneMore DEF ConsolidationInv, ConsolidationTypeOK
  <2> QED BY <1>1, <2>1, <2>2 DEF ConsolidationInv, ConsolidationTypeOK, ReloadStages
<1> QED BY <1>1, <1>2
           DEF ConsolidationInv, FieldsAgree, Halfway, ReadersExclude, BothRead, AtAnAgent

\* No run reads while a Reload sets the fields, which agree again when it has set both.
LEMMA InvReloadStep ==
  ASSUME ConsolidationInv, ReloadStep
  PROVE  ConsolidationInv'
<1>1. /\ reload # Nil
      /\ UNCHANGED <<agents, changes, reloads>>
      /\ UNCHANGED <<runPc, agent, readings, left, days, served>>
  BY DEF ReloadStep, SetModel, SetInstruction, SetEnabled, agentVars, runVars
<1>2. PICK stage \in ReloadStages, c \in Configs : reload = <<stage, c>>
  BY <1>1 DEF ConsolidationInv, ConsolidationTypeOK, ReloadStages
<1>3. \/ /\ stage = "model" /\ model' = c /\ reload' = <<"instruction", c>>
         /\ UNCHANGED <<instruction, dailyOn>>
      \/ /\ stage = "instruction" /\ instruction' = c /\ reload' = <<"enabled", c>>
         /\ UNCHANGED <<model, dailyOn>>
      \/ /\ stage = "enabled" /\ dailyOn' \in BOOLEAN /\ reload' = Nil
         /\ UNCHANGED <<model, instruction>>
  BY <1>2 DEF ReloadStep, SetModel, SetInstruction, SetEnabled
<1>4. ConsolidationTypeOK'
  <2>1. reload' \in (ReloadStages \X Configs) \cup {Nil}
    BY <1>3, Shapes DEF ReloadStages
  <2>2. /\ model' \in Configs \cup {Nil} /\ instruction' \in Configs \cup {Nil}
        /\ dailyOn' \in BOOLEAN
    BY <1>3 DEF ConsolidationInv, ConsolidationTypeOK
  <2> QED BY <1>1, <2>1, <2>2 DEF ConsolidationInv, ConsolidationTypeOK, ReloadStages
<1>5. FieldsAgree'
  <2>1. CASE stage = "model"
    BY <1>3, <2>1, Shapes DEF FieldsAgree, Halfway, ReloadStages
  <2>2. CASE stage = "instruction"
    BY <1>1, <1>2, <1>3, <2>2 DEF ConsolidationInv, FieldsAgree, Halfway
  <2>3. CASE stage = "enabled"
    BY <1>2, <1>3, <2>3 DEF ConsolidationInv, FieldsAgree, Halfway
  <2> QED BY <1>3, <2>1, <2>2, <2>3
<1>6. ReadersExclude' /\ BothRead' /\ AtAnAgent'
  BY <1>1 DEF ConsolidationInv, ReadersExclude, BothRead, AtAnAgent
<1> QED BY <1>4, <1>5, <1>6 DEF ConsolidationInv

\* The daily run goes through its listing; none of its steps reads the configuration.
LEMMA InvDaily ==
  ASSUME ConsolidationInv, Tick \/ NextAgent \/ AllDone
  PROVE  ConsolidationInv'
<1>1. PICK to \in {"next", "read", "idle"} :
        /\ runPc' \in [Runs -> RunPCs] /\ runPc'["daily"] = to
        /\ \A s \in Runs : s # "daily" => runPc'[s] = runPc[s]
        /\ to = "read" => agent'["daily"] \in Agents
  <2>1. CASE Tick
    BY <2>1, RunMovesOn, Shapes DEF ConsolidationInv, Tick, RunPCs
  <2>2. CASE NextAgent
    <3>1. PICK a \in Agents : agent' = [agent EXCEPT !["daily"] = a]
      BY <2>2 DEF NextAgent, ConsolidationInv, ConsolidationTypeOK
    <3>2. agent'["daily"] = a
      BY <3>1, Shapes DEF ConsolidationInv, ConsolidationTypeOK
    <3> QED BY <2>2, <3>2, RunMovesOn, Shapes DEF ConsolidationInv, NextAgent, RunPCs
  <2>3. CASE AllDone
    BY <2>3, RunMovesOn, Shapes DEF ConsolidationInv, AllDone, RunPCs
  <2> QED BY <2>1, <2>2, <2>3
<1>2. UNCHANGED <<agents, changes, model, instruction, dailyOn, reload, reloads, readings>>
  BY DEF Tick, NextAgent, AllDone, agentVars, configVars
<1>3. /\ agent' \in [Runs -> Agents \cup {Nil}]
      /\ \A s \in Runs : s # "daily" => agent'[s] = agent[s]
      /\ left' \subseteq Agents /\ served' \subseteq Agents
  BY DEF Tick, NextAgent, AllDone, ConsolidationInv, ConsolidationTypeOK
<1>4. days' \in 0..MaxDays
  BY ConsolidationAssumption, OneMore
     DEF Tick, NextAgent, AllDone, ConsolidationInv, ConsolidationTypeOK
<1>5. ConsolidationTypeOK'
  BY <1>1, <1>2, <1>3, <1>4 DEF ConsolidationInv, ConsolidationTypeOK, RunPCs
<1>6. FieldsAgree' /\ ReadersExclude' /\ BothRead'
  BY <1>1, <1>2 DEF ConsolidationInv, FieldsAgree, Halfway, ReadersExclude, BothRead
<1>7. AtAnAgent'
  BY <1>1, <1>3, Shapes DEF ConsolidationInv, AtAnAgent
<1> QED BY <1>5, <1>6, <1>7 DEF ConsolidationInv

\* A request is for an agent that there is.
LEMMA InvCall ==
  ASSUME ConsolidationInv, NEW r \in Calls, NEW a \in Agents, Call(r, a)
  PROVE  ConsolidationInv'
<1>1. r \in Runs
  BY DEF Runs
<1>2. /\ runPc' \in [Runs -> RunPCs] /\ runPc'[r] \in {"read", "done"}
      /\ \A s \in Runs : s # r => runPc'[s] = runPc[s]
  BY <1>1, RunMovesOn DEF ConsolidationInv, Call, RunPCs
<1>3. /\ agent' \in [Runs -> Agents \cup {Nil}] /\ agent'[r] = a
      /\ \A s \in Runs : s # r => agent'[s] = agent[s]
  BY <1>1 DEF Call, ConsolidationInv, ConsolidationTypeOK
<1>4. /\ UNCHANGED <<agents, changes, model, instruction, dailyOn, reload, reloads>>
      /\ UNCHANGED <<readings, left, days, served>>
  BY DEF Call, agentVars, configVars
<1>5. ConsolidationTypeOK'
  BY <1>2, <1>3, <1>4 DEF ConsolidationInv, ConsolidationTypeOK, RunPCs
<1>6. FieldsAgree' /\ ReadersExclude' /\ BothRead'
  BY <1>2, <1>4 DEF ConsolidationInv, FieldsAgree, Halfway, ReadersExclude, BothRead
<1>7. AtAnAgent'
  BY <1>2, <1>3, Shapes DEF ConsolidationInv, AtAnAgent
<1> QED BY <1>5, <1>6, <1>7 DEF ConsolidationInv

\* A run reads the model when no Reload is at work, and the instruction that goes with it.
LEMMA InvReads ==
  ASSUME ConsolidationInv, NEW r \in Runs, ReadModel(r) \/ ReadInstruction(r)
  PROVE  ConsolidationInv'
<1>1. \/ /\ ReadModel(r) /\ reload = Nil /\ RunMoves(r, "read", "instruct")
         /\ readings' = [readings EXCEPT ![r].model = model]
      \/ /\ ReadInstruction(r) /\ RunMoves(r, "instruct", "start")
         /\ readings' = [readings EXCEPT ![r].instruction = instruction]
  BY DEF ReadModel, ReadInstruction
<1>2. /\ UNCHANGED <<agents, changes, model, instruction, dailyOn, reload, reloads>>
      /\ UNCHANGED <<agent, left, days, served>>
  BY DEF ReadModel, ReadInstruction, agentVars, configVars
<1>3. /\ runPc' \in [Runs -> RunPCs] /\ \A s \in Runs : s # r => runPc'[s] = runPc[s]
      /\ \/ runPc[r] = "read" /\ runPc'[r] = "instruct"
         \/ runPc[r] = "instruct" /\ runPc'[r] = "start"
  BY <1>1, RunMovesOn DEF ConsolidationInv, RunPCs
<1>4. /\ readings' \in [Runs -> Readings]
      /\ \A s \in Runs : s # r => readings'[s] = readings[s]
      /\ runPc'[r] = "instruct" => reload = Nil /\ readings'[r].model = model
      /\ runPc'[r] = "start"
           => readings'[r].model = readings[r].model /\ readings'[r].instruction = instruction
  <2>1. /\ readings \in [Runs -> Readings] /\ model \in Configs \cup {Nil}
        /\ instruction \in Configs \cup {Nil}
    BY DEF ConsolidationInv, ConsolidationTypeOK, Readings
  <2>2. CASE /\ RunMoves(r, "read", "instruct") /\ reload = Nil
             /\ readings' = [readings EXCEPT ![r].model = model]
    BY <2>1, <2>2, RunMovesOn DEF ConsolidationInv, Readings, RunPCs
  <2>3. CASE /\ RunMoves(r, "instruct", "start")
             /\ readings' = [readings EXCEPT ![r].instruction = instruction]
    BY <2>1, <2>3, RunMovesOn DEF ConsolidationInv, Readings, RunPCs
  <2> QED BY <1>1, <2>2, <2>3
<1>5. ConsolidationTypeOK'
  BY <1>2, <1>3, <1>4 DEF ConsolidationInv, ConsolidationTypeOK, RunPCs, Readings
<1>6. FieldsAgree' /\ AtAnAgent'
  BY <1>2, <1>3 DEF ConsolidationInv, FieldsAgree, Halfway, AtAnAgent
<1>7. ReadersExclude'
  BY <1>2, <1>3, <1>4 DEF ConsolidationInv, ReadersExclude
<1>8. BothRead'
  <2>1. runPc'[r] = "start" => readings'[r].model = readings'[r].instruction
    <3>1. CASE runPc'[r] = "start"
      <4>1. reload = Nil /\ readings[r].model = model
        BY <1>3, <3>1 DEF ConsolidationInv, ReadersExclude
      <4>2. model = instruction
        BY <4>1 DEF ConsolidationInv, FieldsAgree, Halfway
      <4> QED BY <1>4, <3>1, <4>1, <4>2
    <3> QED BY <3>1
  <2> QED BY <1>3, <1>4, <2>1 DEF ConsolidationInv, BothRead
<1> QED BY <1>5, <1>6, <1>7, <1>8 DEF ConsolidationInv

\* A loop starts with what its run has read, and ends.
LEMMA InvLoop ==
  ASSUME ConsolidationInv, NEW r \in Runs, StartLoop(r) \/ LoopEnds(r)
  PROVE  ConsolidationInv'
<1>1. /\ UNCHANGED <<agents, changes, model, instruction, dailyOn, reload, reloads>>
      /\ UNCHANGED <<agent, left, days>>
  BY DEF StartLoop, LoopEnds, agentVars, configVars
<1>2. /\ runPc' \in [Runs -> RunPCs] /\ \A s \in Runs : s # r => runPc'[s] = runPc[s]
      /\ runPc[r] \in {"start", "loop"} /\ runPc'[r] \in {"loop", "next", "done"}
  BY RunMovesOn DEF ConsolidationInv, StartLoop, LoopEnds, RunPCs
<1>3. /\ readings' \in [Runs -> Readings]
      /\ \A s \in Runs : s # r => readings'[s] = readings[s]
      /\ readings'[r] = readings[r] \/ readings'[r] = Nothing
  <2>1. readings \in [Runs -> Readings] /\ Nothing \in Readings
    BY DEF ConsolidationInv, ConsolidationTypeOK, Readings, Nothing
  <2> QED BY <2>1 DEF StartLoop, LoopEnds
<1>4. served' \subseteq Agents
  <2>1. agent[r] \in Agents
    BY <1>2 DEF ConsolidationInv, ConsolidationTypeOK, AtAnAgent
  <2> QED BY <2>1 DEF StartLoop, LoopEnds, ConsolidationInv, ConsolidationTypeOK
<1>5. ConsolidationTypeOK'
  BY <1>1, <1>2, <1>3, <1>4 DEF ConsolidationInv, ConsolidationTypeOK, RunPCs, Readings
<1>6. FieldsAgree' /\ ReadersExclude' /\ AtAnAgent'
  BY <1>1, <1>2, <1>3 DEF ConsolidationInv, FieldsAgree, Halfway, ReadersExclude, AtAnAgent
<1>7. BothRead'
  BY <1>2, <1>3 DEF ConsolidationInv, BothRead, Nothing
<1> QED BY <1>5, <1>6, <1>7 DEF ConsolidationInv

\* The service starts with both fields from one section, or without any, and no run.
LEMMA InvInitially == ConsolidationInit => ConsolidationInv
<1> SUFFICES ASSUME ConsolidationInit PROVE ConsolidationInv
  OBVIOUS
<1>1. ConsolidationTypeOK
  <2>1. readings \in [Runs -> Readings]
    BY DEF ConsolidationInit, Nothing, Readings
  <2>2. days \in 0..MaxDays /\ reloads \in 0..MaxReloads /\ changes \in 0..MaxChanges
    BY ConsolidationAssumption DEF ConsolidationInit
  <2> QED BY <2>1, <2>2 DEF ConsolidationInit, ConsolidationTypeOK, Readings
<1> QED BY <1>1
           DEF ConsolidationInit, ConsolidationInv, FieldsAgree, Halfway, ReadersExclude,
               BothRead, AtAnAgent

\* Every step of the service and of its runs preserves the invariant.
LEMMA InvPreserved ==
  ConsolidationInv /\ [ConsolidationNext]_consolidationVars => ConsolidationInv'
<1> SUFFICES ASSUME ConsolidationInv, [ConsolidationNext]_consolidationVars PROVE ConsolidationInv'
  OBVIOUS
<1>1. CASE ConsolidationNext
  BY <1>1, InvAgents, InvBeginReload, InvReloadStep, InvDaily, InvCall, InvReads, InvLoop
     DEF ConsolidationNext, RunStep
<1>2. CASE UNCHANGED consolidationVars
  BY <1>2
     DEF consolidationVars, agentVars, configVars, runVars, ConsolidationTypeOK,
         ConsolidationInv, FieldsAgree, Halfway, ReadersExclude, BothRead, AtAnAgent
<1> QED BY <1>1, <1>2

\* The invariant holds in every reachable state.
LEMMA InvHolds == ConsolidationSpec => []ConsolidationInv
<1> QED BY InvInitially, InvPreserved, PTL DEF ConsolidationSpec

-----------------------------------------------------------------------------
(***************************************************************************)
(* Theorems                                                                *)
(***************************************************************************)

\* The variables of the service and of its runs have their types.
THEOREM ConsolidationTypes == ConsolidationSpec => []ConsolidationTypeOK
<1>1. ConsolidationInv => ConsolidationTypeOK
  BY DEF ConsolidationInv
<1> QED BY <1>1, InvHolds, PTL

\* ConsolidationService.mu: every loop has its model and its instruction from one and the
\* same section of memory.toml, however many reloads and runs overlap.
THEOREM LoopsAreOfOneSection == ConsolidationSpec => []OneConfigPerLoop
<1>1. ConsolidationInv => OneConfigPerLoop
  BY DEF ConsolidationInv, BothRead, OneConfigPerLoop
<1> QED BY <1>1, InvHolds, PTL

=============================================================================
