----------------------------- MODULE SessionStore -----------------------------
(***************************************************************************)
(* Session files and their cleanup. A file is one line of header and then  *)
(* the messages. Saving truncates the file and writes it again, under the  *)
(* mutex of its path, and a crash or an error between the two leaves a     *)
(* file without a header. The cleaner lists the folder without a lock,     *)
(* reads the headers one by one, and then deletes what it could not read   *)
(* and what is too old by its header.                                      *)
(***************************************************************************)
EXTENDS Naturals, FiniteSets

CONSTANTS
  Runs,       \* API requests and chat runs that create, load and save sessions
  Sessions,   \* session ids
  Cleaner,    \* the cleanup service, as a user of the storage
  Nil,
  Absent,     \* there is no file
  Torn,       \* a file without a header
  Retention,  \* SessRetention
  MaxTime,    \* bound: time that passes
  MaxHarm     \* bound: crashes, failed writes and edits by hand

Times  == 0..MaxTime
\* A header: its updated_at, and whether it is too long for the line scanner.
Header == [updatedAt : Times, long : BOOLEAN]
Files  == Header \cup {Absent, Torn}

ASSUME StoreAssumption ==
  /\ Retention \in Nat \ {0} /\ MaxTime \in Nat /\ MaxHarm \in Nat
  /\ Absent # Torn /\ {Absent, Torn, Nil} \cap Header = {}
  /\ Nil \notin Runs /\ Cleaner \notin Runs \cup {Nil}

VARIABLES
  file,     \* the session files
  holder,   \* who holds the mutex of a path
  runPc,    \* where a run stands
  target,   \* the session of a run
  mem,      \* the session it has in memory
  cpc,      \* where SessionsCleaner.Clean stands
  listed,   \* sessions whose header it has still to read
  broken,   \* ErrBrokenHeaders
  headers,  \* updated_at of the headers it has read and may have to delete
  now,      \* the clock
  harm,     \* crashes, failed writes and edits so far
  known,    \* ids that were given out
  hurt,     \* history: sessions whose file was damaged
  removed   \* history: sessions a user has deleted

runVars   == <<runPc, target, mem>>
cleanVars == <<cpc, listed, broken, headers>>
history   == <<known, hurt, removed>>
storeVars == <<file, holder, runVars, cleanVars, now, harm, history>>

\* The lock table gives each path a mutex (PathLocks implements PathMutex).
Mutex == INSTANCE PathMutex WITH Ops <- Runs \cup {Cleaner}, Paths <- Sessions, None <- Nil

StoreTypeOK ==
  /\ file \in [Sessions -> Files]
  /\ holder \in [Sessions -> Runs \cup {Nil}]
  /\ runPc \in [Runs -> {"idle", "created", "loaded", "saving"}]
  /\ target \in [Runs -> Sessions \cup {Nil}]
  /\ mem \in [Runs -> Header \cup {Nil}]
  /\ cpc \in {"idle", "reading", "broken", "old"}
  /\ listed \subseteq Sessions /\ broken \subseteq Sessions
  /\ headers \in [Sessions -> Times \cup {Nil}]
  /\ now \in Times /\ harm \in 0..MaxHarm
  /\ \A S \in {known, hurt, removed} : S \subseteq Sessions

StoreInit ==
  /\ file = [s \in Sessions |-> Absent]
  /\ holder = [s \in Sessions |-> Nil]
  /\ runPc = [r \in Runs |-> "idle"]
  /\ target = [r \in Runs |-> Nil]
  /\ mem = [r \in Runs |-> Nil]
  /\ cpc = "idle"
  /\ listed = {} /\ broken = {}
  /\ headers = [s \in Sessions |-> Nil]
  /\ now = 0 /\ harm = 0
  /\ known = {} /\ hurt = {} /\ removed = {}

Whole(s) == file[s] \in Header

\* The end of a request or a run.
Rest(r) ==
  /\ runPc' = [runPc EXCEPT ![r] = "idle"]
  /\ target' = [target EXCEPT ![r] = Nil]
  /\ mem' = [mem EXCEPT ![r] = Nil]

-----------------------------------------------------------------------------
(***************************************************************************)
(* session.Service over SessionFiles                                       *)
(***************************************************************************)

\* Create: a new id, both times are now; an instruction of any length is part
\* of the header.
Create(r, s) ==
  /\ runPc[r] = "idle"
  /\ s \notin known
  /\ known' = known \cup {s}
  /\ runPc' = [runPc EXCEPT ![r] = "created"]
  /\ target' = [target EXCEPT ![r] = s]
  /\ \E long \in BOOLEAN : mem' = [mem EXCEPT ![r] = [updatedAt |-> now, long |-> long]]
  /\ UNCHANGED <<file, holder, cleanVars, now, harm, hurt, removed>>

\* Session: ReadFile waits for the mutex of the path.
Load(r, s) ==
  /\ runPc[r] = "idle"
  /\ holder[s] = Nil
  /\ Whole(s)
  /\ runPc' = [runPc EXCEPT ![r] = "loaded"]
  /\ target' = [target EXCEPT ![r] = s]
  /\ mem' = [mem EXCEPT ![r] = file[s]]
  /\ UNCHANGED <<file, holder, cleanVars, now, harm, history>>

\* A run may end without a save.
GiveUp(r) ==
  /\ runPc[r] \in {"created", "loaded"}
  /\ Rest(r)
  /\ UNCHANGED <<file, holder, cleanVars, now, harm, history>>

\* Save: WriteFile has the mutex and has truncated the file.
Truncate(r) ==
  /\ runPc[r] \in {"created", "loaded"}
  /\ Mutex!Lock(r, target[r])
  /\ runPc' = [runPc EXCEPT ![r] = "saving"]
  /\ file' = [file EXCEPT ![target[r]] = Torn]
  /\ UNCHANGED <<target, mem, cleanVars, now, harm, known, hurt, removed>>

\* The header is written as it was read: nothing sets updated_at.
Fill(r) ==
  /\ runPc[r] = "saving"
  /\ Mutex!Unlock(r, target[r])
  /\ file' = [file EXCEPT ![target[r]] = mem[r]]
  /\ Rest(r)
  /\ UNCHANGED <<cleanVars, now, harm, history>>

\* The write fails; what was truncated stays so.
FillFails(r) ==
  /\ runPc[r] = "saving"
  /\ harm < MaxHarm
  /\ Mutex!Unlock(r, target[r])
  /\ harm' = harm + 1
  /\ hurt' = hurt \cup {target[r]}
  /\ Rest(r)
  /\ UNCHANGED <<file, cleanVars, now, known, removed>>

\* Delete, by a user.
Delete(s) ==
  /\ holder[s] = Nil
  /\ file[s] # Absent
  /\ file' = [file EXCEPT ![s] = Absent]
  /\ removed' = removed \cup {s}
  /\ UNCHANGED <<holder, runVars, cleanVars, now, harm, known, hurt>>

-----------------------------------------------------------------------------
(***************************************************************************)
(* SessionsCleaner.Clean                                                   *)
(***************************************************************************)

\* Headers: the folder is read without a lock.
List ==
  /\ cpc = "idle"
  /\ cpc' = "reading"
  /\ listed' = {s \in Sessions : file[s] # Absent}
  /\ UNCHANGED <<file, holder, runVars, broken, headers, now, harm, history>>

\* A reader that does not wait for the writer.
ReadUnlocked(s) ==
  /\ cpc = "reading" /\ s \in listed
  /\ listed' = listed \ {s}
  /\ IF Whole(s) /\ ~file[s].long
     THEN headers' = [headers EXCEPT ![s] = file[s].updatedAt] /\ broken' = broken
     ELSE broken' = broken \cup {s} /\ headers' = headers
  /\ UNCHANGED <<file, holder, runVars, cpc, now, harm, history>>

\* A reader that passes over what it cannot read.
SkipBroken(s) ==
  /\ cpc = "reading" /\ s \in listed
  /\ holder[s] = Nil
  /\ listed' = listed \ {s}
  /\ headers' = IF Whole(s) THEN [headers EXCEPT ![s] = file[s].updatedAt] ELSE headers
  /\ UNCHANGED <<file, holder, runVars, cpc, broken, now, harm, history>>

\* The first line of a file is read, under the mutex of its path. A file that
\* is gone, has no header or one that is too long counts as broken.
ReadHeader(s) ==
  /\ cpc = "reading" /\ s \in listed
  /\ holder[s] = Nil
  /\ listed' = listed \ {s}
  /\ IF Whole(s) /\ ~file[s].long
     THEN headers' = [headers EXCEPT ![s] = file[s].updatedAt] /\ broken' = broken
     ELSE broken' = broken \cup {s} /\ headers' = headers
  /\ UNCHANGED <<file, holder, runVars, cpc, now, harm, history>>

ReadAll ==
  /\ cpc = "reading" /\ listed = {}
  /\ cpc' = "broken"
  /\ UNCHANGED <<file, holder, runVars, listed, broken, headers, now, harm, history>>

\* handleBrokenSessions: an error of the deletion is only logged.
DeleteBroken(s) ==
  /\ cpc = "broken" /\ s \in broken
  /\ holder[s] = Nil
  /\ file' = [file EXCEPT ![s] = Absent]
  /\ broken' = broken \ {s}
  /\ UNCHANGED <<holder, runVars, cpc, listed, headers, now, harm, history>>

\* eliminateDepricatedSessions: what was updated after the cut date is spared.
CutDate ==
  /\ cpc = "broken" /\ broken = {}
  /\ cpc' = "old"
  /\ headers' = [s \in Sessions |->
                   IF headers[s] # Nil /\ headers[s] + Retention <= now THEN headers[s] ELSE Nil]
  /\ UNCHANGED <<file, holder, runVars, listed, broken, now, harm, history>>

DeleteOld(s) ==
  /\ cpc = "old" /\ headers[s] # Nil
  /\ holder[s] = Nil
  /\ file' = [file EXCEPT ![s] = Absent]
  /\ headers' = [headers EXCEPT ![s] = Nil]
  /\ UNCHANGED <<holder, runVars, cpc, listed, broken, now, harm, history>>

Cleaned ==
  /\ cpc = "old" /\ \A s \in Sessions : headers[s] = Nil
  /\ cpc' = "idle"
  /\ UNCHANGED <<file, holder, runVars, listed, broken, headers, now, harm, history>>

-----------------------------------------------------------------------------
(***************************************************************************)
(* The world around                                                        *)
(***************************************************************************)

Tick ==
  /\ now < MaxTime
  /\ now' = now + 1
  /\ UNCHANGED <<file, holder, runVars, cleanVars, harm, history>>

\* A file is damaged by hand.
Damage(s) ==
  /\ harm < MaxHarm
  /\ file[s] # Absent
  /\ file' = [file EXCEPT ![s] = Torn]
  /\ harm' = harm + 1
  /\ hurt' = hurt \cup {s}
  /\ UNCHANGED <<holder, runVars, cleanVars, now, known, removed>>

\* The process ends between any two steps and starts again.
Crash ==
  /\ harm < MaxHarm
  /\ harm' = harm + 1
  /\ hurt' = hurt \cup {s \in Sessions : holder[s] # Nil}
  /\ holder' = [s \in Sessions |-> Nil]
  /\ runPc' = [r \in Runs |-> "idle"]
  /\ target' = [r \in Runs |-> Nil]
  /\ mem' = [r \in Runs |-> Nil]
  /\ cpc' = "idle"
  /\ listed' = {} /\ broken' = {}
  /\ headers' = [s \in Sessions |-> Nil]
  /\ UNCHANGED <<file, now, known, removed>>

RunStep(r) ==
  \/ \E s \in Sessions : Create(r, s) \/ Load(r, s)
  \/ GiveUp(r) \/ Truncate(r) \/ Fill(r) \/ FillFails(r)

CleanStep(s) == ReadHeader(s) \/ DeleteBroken(s) \/ DeleteOld(s)

CleanPhase == List \/ ReadAll \/ CutDate \/ Cleaned

StoreNext ==
  \/ \E r \in Runs : RunStep(r)
  \/ \E s \in Sessions : Delete(s) \/ CleanStep(s) \/ Damage(s)
  \/ CleanPhase \/ Tick \/ Crash

(***************************************************************************)
(* The ticker of the cleanup goes on, a write that was begun ends, and the *)
(* mutex of a path starves nobody. Sessions need not be used.              *)
(***************************************************************************)
StoreFairness ==
  /\ WF_storeVars(CleanPhase)
  /\ \A s \in Sessions : SF_storeVars(CleanStep(s))
  /\ \A r \in Runs : WF_storeVars(Fill(r))

StoreSpec == StoreInit /\ [][StoreNext]_storeVars /\ StoreFairness

-----------------------------------------------------------------------------
(***************************************************************************)
(* Properties                                                              *)
(***************************************************************************)

Expired(s) == Whole(s) /\ file[s].updatedAt + Retention <= now

\* What the cleaner deletes is expired by its header, was damaged or deleted
\* before, or has a header that is too long, although it acts on a listing and on
\* headers that it read some steps ago.
SparesTheRest ==
  [][\A s \in Sessions :
       Whole(s) /\ (DeleteBroken(s) \/ DeleteOld(s))
         => Expired(s) \/ s \in hurt \cup removed \/ file[s].long]_storeVars

\* A session that is expired or cannot be read is deleted in the end.
ExpiredAndBrokenGo ==
  \A s \in Sessions : (file[s] = Torn \/ Expired(s)) ~> ~(file[s] = Torn \/ Expired(s))
=============================================================================
