--------------------------- MODULE ActivityReporter ---------------------------
(***************************************************************************)
(* The activity journal. What is said in a session is committed to a       *)
(* buffer; the first commit makes the buffer and starts its timer, whose   *)
(* callback takes the buffer away, has a model summarise it and appends    *)
(* the summary to the journal.                                             *)
(*                                                                         *)
(* A commit looks the buffer up under one mutex and appends under another: *)
(* in between the buffer may have been taken away and read. A timer that   *)
(* finds the journal switched off leaves its buffer where it is.           *)
(***************************************************************************)
EXTENDS Naturals, Sequences, FiniteSets, SequencesExt

CONSTANTS
  Sessions,    \* keys of the buffers: an agent and a session
  MaxCommits,  \* bound: commits
  MaxSwitches, \* bound: reloads that switch the journal on or off
  None

ASSUME ReporterAssumption ==
  /\ MaxCommits \in Nat /\ MaxSwitches \in Nat
  /\ None \notin Sessions /\ None \notin Nat

Commits == 1..MaxCommits
Buffers == 1..MaxCommits  \* a buffer is made for a commit, and is called after it

VARIABLES
  enabled,   \* ActivityService.enabled
  switches,  \* times it was switched
  commits,   \* commits begun
  session,   \* the session of a commit
  pc,        \* where a commit stands
  got,       \* the buffer it has looked up
  buffers,   \* messageBuffers
  timer,     \* flushTimer, and where the callback of a buffer's timer stands
  msgs,      \* messageBuffer.msgs
  segment,   \* the transcript a callback has taken
  journal,   \* the activity file
  lost       \* history: why a commit will not be in the journal

commitVars == <<commits, session, pc, got>>
vars == <<enabled, switches, commitVars, buffers, timer, msgs, segment, journal, lost>>

TypeOK ==
  /\ enabled \in BOOLEAN /\ switches \in 0..MaxSwitches /\ commits \in 0..MaxCommits
  /\ session \in [Commits -> Sessions \cup {None}]
  /\ pc \in [Commits -> {"none", "new", "checked", "found", "appended", "dropped"}]
  /\ got \in [Commits -> Buffers \cup {None}]
  /\ buffers \in [Sessions -> Buffers \cup {None}]
  /\ timer \in [Buffers -> {"none", "armed", "skipped", "firing", "released", "asked", "done"}]
  /\ msgs \in [Buffers -> Seq(Commits)] /\ segment \in [Buffers -> Seq(Commits)]
  /\ journal \in Seq(Seq(Commits))
  /\ lost \in [Commits -> {"late", "failed", "switched off", None}]

Init ==
  /\ enabled \in BOOLEAN
  /\ switches = 0 /\ commits = 0
  /\ session = [c \in Commits |-> None]
  /\ pc = [c \in Commits |-> "none"]
  /\ got = [c \in Commits |-> None]
  /\ buffers = [s \in Sessions |-> None]
  /\ timer = [b \in Buffers |-> "none"]
  /\ msgs = [b \in Buffers |-> <<>>]
  /\ segment = [b \in Buffers |-> <<>>]
  /\ journal = <<>>
  /\ lost = [c \in Commits |-> None]

Move(c, from, to) == pc[c] = from /\ pc' = [pc EXCEPT ![c] = to]

TimerMoves(b, from, to) == timer[b] = from /\ timer' = [timer EXCEPT ![b] = to]

\* Commits of which nothing more will come, and why.
Lose(cs, why) == lost' = [c \in Commits |-> IF c \in cs /\ lost[c] = None THEN why ELSE lost[c]]

-----------------------------------------------------------------------------
(***************************************************************************)
(* Commit                                                                  *)
(***************************************************************************)

\* The chat service commits a request, a completion or tool results: one after
\* the other in each session.
Begin(s) ==
  /\ commits < MaxCommits
  /\ \A c \in Commits : session[c] = s => pc[c] \in {"appended", "dropped"}
  /\ commits' = commits + 1
  /\ session' = [session EXCEPT ![commits + 1] = s]
  /\ pc' = [pc EXCEPT ![commits + 1] = "new"]
  /\ UNCHANGED <<enabled, switches, got, buffers, timer, msgs, segment, journal, lost>>

\* A commit is dropped while the journal is switched off.
CheckEnabled(c) ==
  /\ Move(c, "new", IF enabled THEN "checked" ELSE "dropped")
  /\ UNCHANGED <<enabled, switches, commits, session, got, buffers, timer, msgs, segment,
                 journal, lost>>

\* getBuffer: the buffer of the session, or a new one with its timer.
GetBuffer(c) ==
  /\ Move(c, "checked", "found")
  /\ IF buffers[session[c]] = None
     THEN /\ got' = [got EXCEPT ![c] = c]
          /\ buffers' = [buffers EXCEPT ![session[c]] = c]
          /\ timer' = [timer EXCEPT ![c] = "armed"]
     ELSE /\ got' = [got EXCEPT ![c] = buffers[session[c]]]
          /\ UNCHANGED <<buffers, timer>>
  /\ UNCHANGED <<enabled, switches, commits, session, msgs, segment, journal, lost>>

\* messageBuffer.append, also into a buffer that was taken away meanwhile.
AppendMsgs(c) ==
  LET b == got[c] IN
  /\ Move(c, "found", "appended")
  /\ msgs' = [msgs EXCEPT ![b] = Append(@, c)]
  /\ CASE timer[b] \in {"asked", "done"} /\ buffers[session[c]] # b -> Lose({c}, "late")
       [] timer[b] = "skipped" -> Lose({c}, "switched off")
       [] OTHER                -> UNCHANGED lost
  /\ UNCHANGED <<enabled, switches, commits, session, got, buffers, timer, segment, journal>>

-----------------------------------------------------------------------------
(***************************************************************************)
(* The callback of a buffer's timer                                        *)
(***************************************************************************)

\* The timer fires, after any time: the interval may be zero. When the journal
\* is switched off, the callback is over and the buffer has no timer any more.
Fire(b) ==
  /\ timer[b] = "armed"
  /\ IF enabled
     THEN timer' = [timer EXCEPT ![b] = "firing"] /\ UNCHANGED lost
     ELSE timer' = [timer EXCEPT ![b] = "skipped"] /\ Lose(Range(msgs[b]), "switched off")
  /\ UNCHANGED <<enabled, switches, commitVars, buffers, msgs, segment, journal>>

\* A release that leaves the buffer in the map.
ReleaseKeeping(b) ==
  /\ TimerMoves(b, "firing", "released")
  /\ UNCHANGED <<enabled, switches, commitVars, buffers, msgs, segment, journal, lost>>

\* releaseBuffer
ReleaseBuffer(b) ==
  /\ TimerMoves(b, "firing", "released")
  /\ buffers' = [s \in Sessions |-> IF buffers[s] = b THEN None ELSE buffers[s]]
  /\ UNCHANGED <<enabled, switches, commitVars, msgs, segment, journal, lost>>

\* extractActivity: the transcript is taken and sent to the model, without a
\* deadline.
Transcript(b) ==
  /\ TimerMoves(b, "released", "asked")
  /\ segment' = [segment EXCEPT ![b] = msgs[b]]
  /\ UNCHANGED <<enabled, switches, commitVars, buffers, msgs, journal, lost>>

\* A callback that tries again although the summary was written.
LogAgain(b) ==
  /\ TimerMoves(b, "asked", "released")
  /\ journal' = Append(journal, segment[b])
  /\ UNCHANGED <<enabled, switches, commitVars, buffers, msgs, segment, lost>>

\* ActivityFiles.Log appends the summary to the file of the day.
Log(b) ==
  /\ TimerMoves(b, "asked", "done")
  /\ journal' = Append(journal, segment[b])
  /\ UNCHANGED <<enabled, switches, commitVars, buffers, msgs, segment, lost>>

\* The model or the file fails: what was taken is gone.
LogFails(b) ==
  /\ TimerMoves(b, "asked", "done")
  /\ Lose(Range(segment[b]), "failed")
  /\ UNCHANGED <<enabled, switches, commitVars, buffers, msgs, segment, journal>>

\* A Reload switches the journal on or off; buffers and timers are left alone.
Switch ==
  /\ switches < MaxSwitches
  /\ switches' = switches + 1
  /\ enabled' = ~enabled
  /\ UNCHANGED <<commitVars, buffers, timer, msgs, segment, journal, lost>>

CommitStep(c) == CheckEnabled(c) \/ GetBuffer(c) \/ AppendMsgs(c)

CallbackStep(b) == Fire(b) \/ ReleaseBuffer(b) \/ Transcript(b)

Next ==
  \/ \E s \in Sessions : Begin(s)
  \/ \E c \in Commits : CommitStep(c)
  \/ \E b \in Buffers : CallbackStep(b) \/ Log(b) \/ LogFails(b)
  \/ Switch

(***************************************************************************)
(* Goroutines go on and timers fire. A completion has no deadline, so the  *)
(* model is not assumed to answer.                                         *)
(***************************************************************************)
Fairness ==
  /\ \A c \in Commits : WF_vars(CommitStep(c))
  /\ \A b \in Buffers : WF_vars(CallbackStep(b))

Spec == Init /\ [][Next]_vars /\ Fairness

-----------------------------------------------------------------------------
(***************************************************************************)
(* Properties                                                              *)
(***************************************************************************)

Logged(c) == \E i \in DOMAIN journal : c \in Range(journal[i])

\* A message is in the journal once at most, with the messages of its session
\* that were committed before and after it, in their order; and a message that
\* was lost is in no later segment.
JournalIsFaithful ==
  /\ \A i, j \in DOMAIN journal : i # j => Range(journal[i]) \cap Range(journal[j]) = {}
  /\ \A i \in DOMAIN journal :
       LET seg == journal[i] IN
       /\ \A k, l \in DOMAIN seg : k < l => seg[k] < seg[l]
       /\ \A k, l \in DOMAIN seg : session[seg[k]] = session[seg[l]]
       /\ \A k, l \in DOMAIN seg, c \in Commits :
            /\ seg[k] < c /\ c < seg[l] /\ pc[c] = "appended"
            /\ session[c] = session[seg[k]]
            => c \in Range(seg)
  /\ \A c \in Commits : Logged(c) => lost[c] = None

\* A committed message gets into the journal, unless its buffer had been read
\* already, the journal was switched off when the timer fired, or the model or
\* the file failed, provided models answer.
CommittedIsLogged ==
  (\A b \in Buffers : []<>(timer[b] # "asked"))
    => \A c \in Commits : (pc[c] = "appended") ~> (Logged(c) \/ lost[c] # None)
=============================================================================
