--------------------------- MODULE SerialSessions ---------------------------
(***************************************************************************)
(* What the chat layer promises: completions of one session are run one at *)
(* a time, and the read-modify-write a run makes of the stored session is  *)
(* not interleaved with another run's.  The run that owns a session may    *)
(* add its own exchange to the stored history, and nothing is ever taken   *)
(* out of it.                                                              *)
(***************************************************************************)
CONSTANTS Requests,   \* the chat requests
          Sessions,   \* the sessions
          None        \* no request

VARIABLES owner,      \* the request each session is served by, or None
          history     \* the requests whose exchange each session holds

Init ==
  /\ owner = [s \in Sessions |-> None]
  /\ history = [s \in Sessions |-> {}]

\* A request takes an idle session.
Begin(r, s) ==
  /\ owner[s] = None
  /\ owner' = [owner EXCEPT ![s] = r]
  /\ UNCHANGED history

\* The owner stores its exchange on top of everything stored before.
Commit(r, s) ==
  /\ owner[s] = r
  /\ history' = [history EXCEPT ![s] = @ \cup {r}]
  /\ UNCHANGED owner

\* The owner gives the session up, with or without having stored anything.
End(r, s) ==
  /\ owner[s] = r
  /\ owner' = [owner EXCEPT ![s] = None]
  /\ UNCHANGED history

Next ==
  \E r \in Requests, s \in Sessions : Begin(r, s) \/ Commit(r, s) \/ End(r, s)

Spec == Init /\ [][Next]_<<owner, history>>
=============================================================================
