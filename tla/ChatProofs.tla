----------------------------- MODULE ChatProofs -----------------------------
(***************************************************************************)
(* Theorems about ChatDispatcher, for any sets of calls, keys and sessions *)
(* and any number of turns, and about Delegation, for any depth and any    *)
(* limits. Spec, Next, Init and vars are those of ChatDispatcher; those of *)
(* the sub-agents are DelegationSpec and so on.                            *)
(***************************************************************************)
EXTENDS ChatDispatcher, Delegation, Sequences, TLAPS

(***************************************************************************)
(* Type correctness                                                        *)
(***************************************************************************)

\* What TypeOK needs to be inductive: a request only waits for a request it
\* found, and only starts a turn of the loop that is left to it.
TypeInv ==
  /\ TypeOK
  /\ \A r \in Requests : pc[r] \in WaitPCs => prev[r] # None
  /\ \A r \in Runs : pc[r] = "turn" => turns[r] < MaxTurns

\* The variables keep their types in every step of the dispatcher, of
\* Service.Chat and of session.Service.
LEMMA TypePreserved == TypeInv /\ [Next]_vars => TypeInv'
<1> SUFFICES ASSUME TypeInv, [Next]_vars
             PROVE  TypeInv'
  OBVIOUS
<1> USE CallsAssumption, KeysAssumption, TurnsAssumption
      DEF TypeInv, TypeOK, Runs, Calls, PCs, WaitPCs, ServePCs, Statuses,
          dispatchVars, sessionVars, Goto
<1>1. ASSUME NEW r \in Requests, Dispatch(r)
      PROVE  TypeInv'
  <2>1. CASE Swap(r)
    BY <2>1 DEF Swap
  <2>2. CASE CancelPrev(r)
    BY <2>2 DEF CancelPrev
  <2>3. CASE AwaitPrev(r)
    BY <2>3 DEF AwaitPrev
  <2>4. CASE CloseDone(r)
    BY <2>4 DEF CloseDone
  <2>5. CASE RemoveEntry(r)
    BY <2>5 DEF RemoveEntry
  <2> QED BY <1>1, <2>1, <2>2, <2>3, <2>4, <2>5 DEF Dispatch
<1>2. ASSUME NEW i \in Interrupts, Interrupt(i) \/ InterruptReturn(i)
      PROVE  TypeInv'
  BY <1>2 DEF Interrupt, InterruptIdle, InterruptRunning, InterruptReturn
<1>3. ASSUME NEW d \in Directs, DirectChat(d)
      PROVE  TypeInv'
  BY <1>3 DEF DirectChat
<1>4. ASSUME NEW r \in Runs, Serve(r) \/ CallerCancels(r)
      PROVE  TypeInv'
  <2>1. CASE ServeFails(r)
    BY <2>1 DEF ServeFails, Returned
  <2>7. CASE SaveFails(r)
    <3>1. PICK to \in Forwarded(r) : pc' = [pc EXCEPT ![r] = to]
      BY <2>7 DEF SaveFails
    <3>2. to \in PCs /\ to \notin WaitPCs \cup {"turn"}
      BY <3>1 DEF Forwarded
    <3> QED BY <2>7, <3>1, <3>2 DEF SaveFails
  <2>2. CASE LoadSession(r)
    BY <2>2 DEF LoadSession
  <2>3. CASE CheckContext(r)
    <3>1. PICK to \in {"save", "turn"} : /\ pc' = [pc EXCEPT ![r] = to]
                                         /\ to = "turn" => turns[r] # MaxTurns
      BY <2>3 DEF CheckContext
    <3>2. turns[r] \in 0..MaxTurns
      OBVIOUS
    <3>3. turns[r] # MaxTurns => turns[r] < MaxTurns
      BY <3>2
    <3> QED BY <2>3, <3>1, <3>3 DEF CheckContext
  <2>4. CASE RunTurn(r)
    BY <2>4 DEF RunTurn
  <2>5. CASE SaveSession(r)
    <3>1. PICK to \in Forwarded(r) : pc' = [pc EXCEPT ![r] = to]
      BY <2>5 DEF SaveSession
    <3>2. to \in PCs /\ to \notin WaitPCs \cup {"turn"}
      BY <3>1 DEF Forwarded
    <3> QED BY <2>5, <3>1, <3>2 DEF SaveSession
  <2>6. CASE CallerCancels(r)
    BY <2>6 DEF CallerCancels
  <2> QED BY <1>4, <2>1, <2>2, <2>3, <2>4, <2>5, <2>6, <2>7 DEF Serve
<1>5. ASSUME NEW k \in Keys, CreateSession(k) \/ DeleteSession(k)
      PROVE  TypeInv'
  BY <1>5 DEF CreateSession, DeleteSession
<1>6. CASE UNCHANGED vars
  BY <1>6 DEF vars
<1> QED BY <1>1, <1>2, <1>3, <1>4, <1>5, <1>6 DEF Next

\* Every variable has its type in every reachable state.
THEOREM TypeCorrect == Spec => []TypeOK
<1>1. Init => TypeInv
  BY CallsAssumption, TurnsAssumption
     DEF Init, TypeInv, TypeOK, Runs, Calls, PCs, Statuses, WaitPCs
<1>2. TypeInv => TypeOK
  BY DEF TypeInv
<1> QED BY <1>1, <1>2, TypePreserved, PTL DEF Spec

-----------------------------------------------------------------------------
(***************************************************************************)
(* Order of service and mutual exclusion                                   *)
(***************************************************************************)

\* Steps that leave the order of requests alone: the calls of session.Service,
\* the steps inside Service.Chat, direct calls and cancellations.
LEMMA OrderStable ==
  ASSUME OrderInv,
         UNCHANGED <<key, mu, processes, prev, done, ticket, clock>>,
         \A r \in Requests : \/ pc'[r] = pc[r]
                             \/ pc[r] \in ServePCs /\ pc'[r] \in ServePCs,
         \A i \in Interrupts : pc'[i] = pc[i],
         TypeOK
  PROVE  OrderInv'
<1> USE DEF WaitPCs, ServePCs
<1>1. TicketsAreUnique'
  BY DEF OrderInv, TicketsAreUnique
<1>2. DoneAtTheEnd'
  BY DEF OrderInv, DoneAtTheEnd
<1>3. WaitsForPredecessor'
  BY DEF OrderInv, WaitsForPredecessor
<1>4. ServedInArrivalOrder'
  BY DEF OrderInv, ServedInArrivalOrder
<1>5. EntryIsLast'
  BY DEF OrderInv, EntryIsLast, LastOf, TypeOK
<1>6. InterruptHoldsMutex'
  BY DEF OrderInv, InterruptHoldsMutex, LastOf
<1> QED BY <1>1, <1>2, <1>3, <1>4, <1>5, <1>6 DEF OrderInv

\* swap puts a request behind every earlier one of its session.
LEMMA OrderSwap ==
  ASSUME OrderInv, TypeOK, NEW r \in Requests, Swap(r)
  PROVE  OrderInv'
<1> USE CallsAssumption DEF WaitPCs, Runs, Calls, Goto
<1>0. /\ key[r] \in Keys /\ key' = key /\ mu' = mu /\ done' = done
      /\ pc' = [pc EXCEPT ![r] = IF processes[key[r]] # None THEN "cancelPrev" ELSE "serve"]
      /\ ticket' = [ticket EXCEPT ![r] = clock + 1] /\ clock' = clock + 1
      /\ prev' = [prev EXCEPT ![r] = processes[key[r]]]
      /\ processes' = [processes EXCEPT ![key[r]] = r]
      /\ pc[r] = "called" /\ mu = None
  BY DEF Swap, TypeOK
<1>1. TicketsAreUnique'
  BY <1>0 DEF OrderInv, TicketsAreUnique, TypeOK
<1>2. DoneAtTheEnd'
  BY <1>0 DEF OrderInv, DoneAtTheEnd, TypeOK
<1>3. WaitsForPredecessor'
  <2> SUFFICES ASSUME NEW q \in Requests, pc'[q] \in WaitPCs
               PROVE  /\ prev'[q] \in Requests /\ key[prev'[q]] = key[q]
                      /\ 0 < ticket'[prev'[q]]
                      /\ \A s \in Requests :
                           key[s] = key[q] /\ ticket'[s] < ticket'[q]
                             => ticket'[s] <= ticket'[prev'[q]]
    BY <1>0 DEF WaitsForPredecessor
  <2>1. CASE q = r
    <3>1. LastOf(prev'[r], key[r]) /\ prev'[r] # r
      BY <1>0, <2>1 DEF OrderInv, EntryIsLast, LastOf, TicketsAreUnique, TypeOK
    <3> QED BY <1>0, <2>1, <3>1 DEF LastOf, TypeOK
  <2>2. CASE q # r
    <3>1. /\ pc[q] \in WaitPCs /\ prev'[q] = prev[q]
          /\ prev[q] # r
      BY <1>0, <2>2 DEF OrderInv, WaitsForPredecessor, TicketsAreUnique, TypeOK
    <3> QED BY <1>0, <2>2, <3>1
            DEF OrderInv, WaitsForPredecessor, TicketsAreUnique, TypeOK
  <2> QED BY <2>1, <2>2
<1>4. ServedInArrivalOrder'
  BY <1>0 DEF OrderInv, ServedInArrivalOrder, TicketsAreUnique, EntryIsLast, TypeOK
<1>5. EntryIsLast'
  <2>1. LastOf(r, key[r])' /\ pc'[r] # "ended"
    BY <1>0 DEF LastOf, OrderInv, TicketsAreUnique, TypeOK
  <2>2. ASSUME NEW k \in Keys, k # key[r]
        PROVE  IF processes'[k] = None
               THEN \A s \in Requests : key[s] = k /\ ticket'[s] # 0 => s \in done
               ELSE LastOf(processes[k], k)' /\ pc'[processes[k]] # "ended"
    BY <1>0, <2>2 DEF OrderInv, EntryIsLast, LastOf, TypeOK
  <2> QED BY <1>0, <2>1, <2>2 DEF EntryIsLast, LastOf, TypeOK
<1>6. InterruptHoldsMutex'
  BY <1>0 DEF OrderInv, InterruptHoldsMutex, TypeOK
<1> QED BY <1>1, <1>2, <1>3, <1>4, <1>5, <1>6 DEF OrderInv

\* The other steps of Dispatcher.Chat: cancelling and awaiting the predecessor,
\* closing the done channel, removing the entry.
LEMMA OrderDispatch ==
  ASSUME OrderInv, TypeOK, NEW r \in Requests,
         CancelPrev(r) \/ AwaitPrev(r) \/ CloseDone(r) \/ RemoveEntry(r)
  PROVE  OrderInv'
<1> USE CallsAssumption DEF WaitPCs, Runs, Calls, Goto
<1>1. CASE CancelPrev(r)
  <2>1. /\ pc' = [pc EXCEPT ![r] = "awaitPrev"] /\ pc[r] = "cancelPrev"
        /\ UNCHANGED <<key, mu, processes, prev, done, ticket, clock>>
    BY <1>1 DEF CancelPrev
  <2> QED
    BY <2>1 DEF OrderInv, TypeOK, TicketsAreUnique, DoneAtTheEnd, LastOf, EntryIsLast,
                WaitsForPredecessor, ServedInArrivalOrder, InterruptHoldsMutex
<1>2. CASE AwaitPrev(r)
  <2>1. /\ pc' = [pc EXCEPT ![r] = "serve"] /\ pc[r] = "awaitPrev" /\ prev[r] \in done
        /\ UNCHANGED <<key, mu, processes, prev, done, ticket, clock>>
    BY <1>2 DEF AwaitPrev, dispatchVars
  <2>2. TicketsAreUnique' /\ DoneAtTheEnd'
    BY <2>1 DEF OrderInv, TypeOK, TicketsAreUnique, DoneAtTheEnd
  <2>3. WaitsForPredecessor'
    BY <2>1 DEF OrderInv, TypeOK, WaitsForPredecessor
  <2>4. ASSUME NEW s \in Requests, key[r] = key[s],
               0 < ticket[s], ticket[s] < ticket[r]
        PROVE  s \in done
    <3>1. /\ prev[r] \in Requests /\ key[prev[r]] = key[r]
          /\ ticket[s] <= ticket[prev[r]]
          /\ pc[prev[r]] \notin WaitPCs
      BY <2>1, <2>4 DEF OrderInv, WaitsForPredecessor, DoneAtTheEnd
    <3>2. CASE ticket[s] = ticket[prev[r]]
      BY <2>1, <2>4, <3>1, <3>2 DEF OrderInv, TicketsAreUnique, TypeOK
    <3>3. CASE ticket[s] < ticket[prev[r]]
      BY <2>4, <3>1, <3>3 DEF OrderInv, ServedInArrivalOrder, TypeOK
    <3>4. ticket[s] \in Nat /\ ticket[prev[r]] \in Nat
      BY <3>1 DEF TypeOK
    <3> QED BY <3>1, <3>2, <3>3, <3>4
  <2>5. ServedInArrivalOrder'
    BY <2>1, <2>4 DEF OrderInv, ServedInArrivalOrder, TypeOK
  <2>6. EntryIsLast' /\ InterruptHoldsMutex'
    BY <2>1 DEF OrderInv, TypeOK, EntryIsLast, LastOf, InterruptHoldsMutex
  <2> QED BY <2>2, <2>3, <2>5, <2>6 DEF OrderInv
<1>3. CASE CloseDone(r)
  <2>1. /\ pc' = [pc EXCEPT ![r] = "remove"] /\ pc[r] = "finish"
        /\ done' = done \cup {r}
        /\ UNCHANGED <<key, mu, processes, prev, ticket, clock>>
    BY <1>3 DEF CloseDone
  <2> QED
    BY <2>1 DEF OrderInv, TypeOK, TicketsAreUnique, DoneAtTheEnd, LastOf, EntryIsLast,
                WaitsForPredecessor, ServedInArrivalOrder, InterruptHoldsMutex
<1>4. CASE RemoveEntry(r)
  <2>1. /\ pc' = [pc EXCEPT ![r] = "ended"] /\ pc[r] = "remove" /\ mu = None
        /\ processes' = [processes EXCEPT ![key[r]] =
                           IF processes[key[r]] = r THEN None ELSE processes[key[r]]]
        /\ UNCHANGED <<key, mu, prev, done, ticket, clock>>
    BY <1>4 DEF RemoveEntry
  <2>2. TicketsAreUnique' /\ DoneAtTheEnd' /\ WaitsForPredecessor'
    BY <2>1 DEF OrderInv, TypeOK, TicketsAreUnique, DoneAtTheEnd, WaitsForPredecessor
  <2>3. ServedInArrivalOrder' /\ InterruptHoldsMutex'
    BY <2>1 DEF OrderInv, TypeOK, ServedInArrivalOrder, InterruptHoldsMutex, LastOf
  <2>4. ASSUME NEW k \in Keys
        PROVE  IF processes'[k] = None
               THEN \A s \in Requests : key[s] = k /\ ticket[s] # 0 => s \in done
               ELSE LastOf(processes'[k], k) /\ pc'[processes'[k]] # "ended"
    <3>1. CASE processes[k] = r
      <4>1. LastOf(r, k) /\ r \in done /\ processes'[k] = None
        BY <2>1, <3>1 DEF OrderInv, EntryIsLast, DoneAtTheEnd, LastOf, TypeOK
      <4>2. ASSUME NEW s \in Requests, key[s] = k, ticket[s] # 0
            PROVE  s \in done
        <5>1. ticket[s] <= ticket[r] /\ key[r] = key[s] /\ 0 < ticket[s]
          BY <4>1, <4>2 DEF LastOf, TypeOK
        <5>2. CASE ticket[s] = ticket[r]
          BY <4>1, <4>2, <5>2 DEF OrderInv, TicketsAreUnique
        <5>3. CASE ticket[s] < ticket[r]
          BY <2>1, <4>2, <5>1, <5>3 DEF OrderInv, ServedInArrivalOrder
        <5> QED BY <5>1, <5>2, <5>3 DEF TypeOK
      <4> QED BY <4>1, <4>2
    <3>2. CASE processes[k] # r
      <4>1. processes'[k] = processes[k]
        BY <2>1, <3>2 DEF TypeOK
      <4> QED BY <2>1, <3>2, <4>1 DEF OrderInv, EntryIsLast, LastOf, TypeOK
    <3> QED BY <3>1, <3>2
  <2>5. EntryIsLast'
    BY <2>1, <2>4 DEF EntryIsLast, LastOf
  <2> QED BY <2>2, <2>3, <2>5 DEF OrderInv
<1> QED BY <1>1, <1>2, <1>3, <1>4

\* Interrupt waits, under d.mu, for the last request of its session.
LEMMA OrderInterrupt ==
  ASSUME OrderInv, TypeOK, NEW i \in Interrupts, Interrupt(i) \/ InterruptReturn(i)
  PROVE  OrderInv'
<1> USE CallsAssumption DEF WaitPCs, Runs, Calls, Goto
<1>1. /\ \A r \in Requests : pc'[r] = pc[r] /\ prev'[r] = prev[r]
      /\ UNCHANGED <<key, processes, done, ticket, clock>>
  BY DEF Interrupt, InterruptIdle, InterruptRunning, InterruptReturn, dispatchVars, TypeOK
<1>2. TicketsAreUnique' /\ DoneAtTheEnd' /\ WaitsForPredecessor' /\ ServedInArrivalOrder'
  BY <1>1 DEF OrderInv, TicketsAreUnique, DoneAtTheEnd, WaitsForPredecessor,
              ServedInArrivalOrder
<1>3. EntryIsLast'
  BY <1>1 DEF OrderInv, EntryIsLast, LastOf, TypeOK
<1>4. InterruptHoldsMutex'
  <2>1. CASE InterruptIdle(i)
    BY <2>1 DEF InterruptIdle, OrderInv, InterruptHoldsMutex, LastOf, dispatchVars, TypeOK
  <2>2. CASE InterruptRunning(i)
    <3>1. /\ mu' = i /\ mu = None /\ key[i] \in Keys
          /\ prev' = [prev EXCEPT ![i] = processes[key[i]]]
          /\ pc' = [pc EXCEPT ![i] = "interrupting"]
      BY <2>2 DEF InterruptRunning, TypeOK
    <3>2. LastOf(processes[key[i]], key[i])
      BY <2>2, <3>1 DEF InterruptRunning, OrderInv, EntryIsLast
    <3>3. \A j \in Interrupts : pc'[j] = "interrupting" => j = i
      BY <3>1 DEF OrderInv, InterruptHoldsMutex, TypeOK
    <3> QED BY <1>1, <3>1, <3>2, <3>3 DEF InterruptHoldsMutex, LastOf, TypeOK
  <2>3. CASE InterruptReturn(i)
    <3>1. /\ prev' = prev /\ pc' = [pc EXCEPT ![i] = "ended"] /\ pc[i] = "interrupting"
      BY <2>3 DEF InterruptReturn
    <3>2. \A j \in Interrupts : pc[j] = "interrupting" => j = i
      BY <3>1 DEF OrderInv, InterruptHoldsMutex
    <3> QED BY <3>1, <3>2 DEF InterruptHoldsMutex, TypeOK
  <2> QED BY <2>1, <2>2, <2>3 DEF Interrupt
<1> QED BY <1>2, <1>3, <1>4 DEF OrderInv

\* A request that is in Service.Chat is still in it after a step of its own.
LEMMA ServingGoesOn ==
  ASSUME NEW r \in Runs, Serve(r)
  PROVE  \E to : /\ pc' = [pc EXCEPT ![r] = to] /\ pc[r] \in ServePCs
                 /\ r \in Requests => to \in ServePCs
<1> USE DEF Goto, ServePCs
<1>1. CASE ServeFails(r)
  BY <1>1 DEF ServeFails, Returned
<1>2. CASE LoadSession(r)
  BY <1>2 DEF LoadSession
<1>3. CASE CheckContext(r)
  BY <1>3 DEF CheckContext
<1>4. CASE RunTurn(r)
  BY <1>4 DEF RunTurn
<1>5. CASE SaveSession(r)
  BY <1>5 DEF SaveSession, Forwarded
<1>6. CASE SaveFails(r)
  BY <1>6 DEF SaveFails, Forwarded
<1> QED BY <1>1, <1>2, <1>3, <1>4, <1>5, <1>6 DEF Serve

\* The order of requests survives every step.
LEMMA OrderPreserved == TypeOK /\ OrderInv /\ [Next]_vars => OrderInv'
<1> SUFFICES ASSUME TypeOK, OrderInv, [Next]_vars
             PROVE  OrderInv'
  OBVIOUS
<1>1. ASSUME NEW r \in Requests, Dispatch(r)
      PROVE  OrderInv'
  BY <1>1, OrderSwap, OrderDispatch DEF Dispatch
<1>2. ASSUME NEW i \in Interrupts, Interrupt(i) \/ InterruptReturn(i)
      PROVE  OrderInv'
  BY <1>2, OrderInterrupt
<1>3. ASSUME NEW d \in Directs, DirectChat(d)
      PROVE  OrderInv'
  <2>1. \A r \in Requests \cup Interrupts : pc'[r] = pc[r]
    BY <1>3, CallsAssumption DEF DirectChat, Goto, TypeOK, Calls, Runs
  <2> QED BY <1>3, <2>1, OrderStable DEF DirectChat, dispatchVars
<1>4. ASSUME NEW r \in Runs, Serve(r) \/ CallerCancels(r)
      PROVE  OrderInv'
  <2>1. UNCHANGED <<key, mu, processes, prev, done, ticket, clock>>
    BY <1>4 DEF Serve, ServeFails, LoadSession, CheckContext, RunTurn, SaveSession,
                SaveFails, CallerCancels, dispatchVars
  <2>2. /\ \A i \in Interrupts : pc'[i] = pc[i]
        /\ \A s \in Requests : \/ pc'[s] = pc[s]
                               \/ pc[s] \in ServePCs /\ pc'[s] \in ServePCs
    <3>1. CASE CallerCancels(r)
      BY <3>1 DEF CallerCancels
    <3>2. CASE Serve(r)
      <4>1. PICK to : /\ pc' = [pc EXCEPT ![r] = to] /\ pc[r] \in ServePCs
                      /\ r \in Requests => to \in ServePCs
        BY <1>4, <3>2, ServingGoesOn
      <4> QED BY <4>1, CallsAssumption DEF TypeOK, Calls, Runs
    <3> QED BY <1>4, <3>1, <3>2
  <2> QED BY <2>1, <2>2, OrderStable
<1>5. ASSUME NEW k \in Keys, CreateSession(k) \/ DeleteSession(k)
      PROVE  OrderInv'
  BY <1>5, OrderStable DEF CreateSession, DeleteSession, dispatchVars
<1>6. CASE UNCHANGED vars
  BY <1>6, OrderStable DEF vars, dispatchVars
<1> QED BY <1>1, <1>2, <1>3, <1>4, <1>5, <1>6 DEF Next

\* The inductive invariant holds in every reachable state.
LEMMA OrderCorrect == Spec => [](TypeOK /\ OrderInv)
<1>1. Init => OrderInv
  BY CallsAssumption
     DEF Init, OrderInv, TicketsAreUnique, DoneAtTheEnd, WaitsForPredecessor,
         ServedInArrivalOrder, EntryIsLast, InterruptHoldsMutex, WaitPCs, Calls, Runs
<1> QED BY <1>1, OrderPreserved, TypeCorrect, PTL DEF Spec

\* A request that is past its wait finds every earlier request of its session
\* finished.
THEOREM ArrivalOrder == Spec => []ServedInArrivalOrder
BY OrderCorrect, PTL DEF OrderInv

\* Two requests of one session are never inside Service.Chat at once.
THEOREM MutualExclusionHolds == Spec => []MutualExclusion
<1>1. TypeOK /\ OrderInv => MutualExclusion
  <2> SUFFICES ASSUME TypeOK, OrderInv,
                      NEW r \in Requests, NEW s \in Requests,
                      r # s, key[r] = key[s], Serving(r), Serving(s)
               PROVE  FALSE
    BY DEF MutualExclusion
  <2> USE DEF Serving, ServePCs, WaitPCs
  <2>1. /\ ticket[r] \in Nat \ {0} /\ ticket[s] \in Nat \ {0}
        /\ ticket[r] # ticket[s]
    BY DEF OrderInv, TicketsAreUnique, TypeOK
  <2>2. r \notin done /\ s \notin done
    BY DEF OrderInv, DoneAtTheEnd
  <2>3. ticket[r] < ticket[s] \/ ticket[s] < ticket[r]
    BY <2>1
  <2> QED BY <2>1, <2>2, <2>3 DEF OrderInv, ServedInArrivalOrder
<1> QED BY <1>1, OrderCorrect, PTL

\* The map of running requests has an entry for every session with a request
\* under way and none when all requests have returned.
THEOREM EntriesMatch == Spec => []EntriesMatchRuns
<1>1. TypeOK /\ OrderInv => EntriesMatchRuns
  <2> SUFFICES ASSUME TypeOK, OrderInv
               PROVE  EntriesMatchRuns
    OBVIOUS
  <2>1. ASSUME \A r \in Requests : pc[r] \in {"called", "ended"}, NEW k \in Keys
        PROVE  processes[k] = None
    BY <2>1 DEF OrderInv, EntryIsLast, LastOf, TicketsAreUnique
  <2>2. ASSUME NEW r \in Requests, Live(r)
        PROVE  processes[key[r]] # None
    <3>1. key[r] \in Keys /\ ticket[r] # 0 /\ r \notin done
      BY <2>2 DEF Live, WaitPCs, ServePCs, OrderInv, TicketsAreUnique, DoneAtTheEnd,
                  TypeOK, Calls, Runs
    <3> QED BY <3>1 DEF OrderInv, EntryIsLast
  <2> QED BY <2>1, <2>2 DEF EntriesMatchRuns
<1> QED BY <1>1, OrderCorrect, PTL

\* An Interrupt that returns leaves its session with no request under way.
THEOREM InterruptQuiescesHolds == Spec => InterruptQuiesces
<1> DEFINE Quiet(i) == pc[i] # "ended" /\ pc'[i] = "ended" =>
                         \A r \in Requests : key[r] = key[i] => ~Live(r)
<1>1. TypeOK /\ OrderInv /\ [Next]_vars => \A i \in Interrupts : Quiet(i)
  <2> SUFFICES ASSUME TypeOK, OrderInv, [Next]_vars, NEW i \in Interrupts,
                      pc[i] # "ended", pc'[i] = "ended",
                      NEW r \in Requests, key[r] = key[i], Live(r)
               PROVE  FALSE
    OBVIOUS
  <2> USE CallsAssumption DEF Calls, Runs, Goto
  <2>1. ticket[r] \in Nat \ {0} /\ r \notin done /\ key[r] \in Keys
    BY DEF Live, WaitPCs, ServePCs, OrderInv, TicketsAreUnique, DoneAtTheEnd, TypeOK
  <2>2. \/ \E j \in Interrupts : Interrupt(j) \/ InterruptReturn(j)
        \/ \E c \in Calls \ {i} : \E to : pc' = [pc EXCEPT ![c] = to]
        \/ pc' = pc
    BY DEF Next, vars, Dispatch, Swap, CancelPrev, AwaitPrev, CloseDone, RemoveEntry,
           DirectChat, Serve, ServeFails, LoadSession, CheckContext, RunTurn,
           SaveSession, SaveFails, CallerCancels, CreateSession, DeleteSession
  <2>3. InterruptIdle(i) \/ InterruptReturn(i)
    BY <2>2 DEF Interrupt, InterruptIdle, InterruptRunning, InterruptReturn, TypeOK
  <2>4. CASE InterruptIdle(i)
    BY <2>1, <2>4 DEF InterruptIdle, OrderInv, EntryIsLast
  <2>5. CASE InterruptReturn(i)
    <3>1. LastOf(prev[i], key[i]) /\ prev[i] \in done
      BY <2>5 DEF InterruptReturn, OrderInv, InterruptHoldsMutex
    <3>2. /\ pc[prev[i]] \notin WaitPCs
          /\ ticket[r] < ticket[prev[i]] \/ ticket[r] = ticket[prev[i]]
      BY <2>1, <3>1 DEF LastOf, OrderInv, DoneAtTheEnd, WaitPCs, TypeOK
    <3> QED BY <2>1, <3>1, <3>2
            DEF LastOf, OrderInv, ServedInArrivalOrder, TicketsAreUnique
  <2> QED BY <2>3, <2>4, <2>5
<1>2. (\A i \in Interrupts : Quiet(i)) => [\A i \in Interrupts : Quiet(i)]_vars
  OBVIOUS
<1> QED BY <1>1, OrderCorrect, PTL DEF Spec, InterruptQuiesces

-----------------------------------------------------------------------------
(***************************************************************************)
(* The stored history                                                      *)
(***************************************************************************)

\* Only requests use a key that no direct run creates, and a request that has
\* loaded its session holds everything the file holds.
HistoryInv ==
  /\ \A d \in Directs : key[d] \in FreshKeys
  /\ NoLostHistory
  /\ \A r \in Requests : pc[r] \in LoadedPCs /\ key[r] \notin FreshKeys =>
       /\ r \in mem[r]
       /\ \A s \in saved : key[s] = key[r] => s \in mem[r]
       /\ key[r] \in QuietKeys => mem[r] = stored[key[r]] \cup {r}

\* No run loses what another stored: between a request's load and its save no
\* other request writes the session, by mutual exclusion.
LEMMA HistoryPreserved ==
  TypeOK /\ MutualExclusion /\ HistoryInv /\ [Next]_vars => HistoryInv'
<1> SUFFICES ASSUME TypeOK, MutualExclusion, HistoryInv, [Next]_vars
             PROVE  HistoryInv'
  OBVIOUS
<1> USE CallsAssumption DEF TypeOK, Runs, Calls, Goto, LoadedPCs
<1>0. key' = key
  BY DEF Next, vars, Dispatch, Swap, CancelPrev, AwaitPrev, CloseDone, RemoveEntry, Interrupt,
         InterruptIdle, InterruptRunning, InterruptReturn, DirectChat, Serve, ServeFails,
         LoadSession, CheckContext, RunTurn, SaveSession, SaveFails, CallerCancels,
         CreateSession, DeleteSession
<1>1. ASSUME UNCHANGED <<stored, mem, saved>>,
             \A r \in Requests : pc'[r] \in LoadedPCs => pc[r] \in LoadedPCs
      PROVE  HistoryInv'
  BY <1>0, <1>1 DEF HistoryInv, NoLostHistory, QuietKeys
<1>2. ASSUME NEW r \in Requests, Dispatch(r)
      PROVE  HistoryInv'
  <2>1. UNCHANGED <<stored, mem, saved>>
    BY <1>2 DEF Dispatch, Swap, CancelPrev, AwaitPrev, CloseDone, RemoveEntry, sessionVars
  <2>2. \E to \in PCs \ LoadedPCs : pc' = [pc EXCEPT ![r] = to]
    BY <1>2 DEF Dispatch, Swap, CancelPrev, AwaitPrev, CloseDone, RemoveEntry, PCs, WaitPCs,
                ServePCs
  <2> QED BY <1>1, <2>1, <2>2
<1>3. ASSUME NEW i \in Interrupts, Interrupt(i) \/ InterruptReturn(i)
      PROVE  HistoryInv'
  BY <1>1, <1>3 DEF Interrupt, InterruptIdle, InterruptRunning, InterruptReturn, sessionVars
<1>4. ASSUME NEW d \in Directs, DirectChat(d)
      PROVE  HistoryInv'
  BY <1>1, <1>4 DEF DirectChat
<1>5. ASSUME NEW r \in Runs, Serve(r) \/ CallerCancels(r)
      PROVE  HistoryInv'
  <2>1. CASE ServeFails(r) \/ CheckContext(r) \/ RunTurn(r) \/ SaveFails(r) \/ CallerCancels(r)
    BY <1>1, <2>1 DEF ServeFails, CheckContext, RunTurn, SaveFails, CallerCancels,
                      Returned, Forwarded, sessionVars
  <2>2. CASE LoadSession(r)
    BY <1>0, <2>2 DEF LoadSession, HistoryInv, NoLostHistory, QuietKeys
  <2>3. CASE SaveSession(r)
    <3>1. /\ pc[r] = "save" /\ pc'[r] \notin LoadedPCs
          /\ \A q \in Requests : q # r => pc'[q] = pc[q]
          /\ stored' = [stored EXCEPT ![key[r]] = mem[r]]
          /\ saved' = saved \cup {r} /\ mem' = mem
      <4>1. PICK to \in Forwarded(r) : pc' = [pc EXCEPT ![r] = to]
        BY <2>3 DEF SaveSession
      <4>2. to \notin LoadedPCs
        BY <4>1 DEF Forwarded
      <4> QED BY <2>3, <4>1, <4>2 DEF SaveSession
    <3>2. ASSUME NEW q \in Requests, pc'[q] \in LoadedPCs, key[q] \notin FreshKeys
          PROVE  key[q] # key[r] /\ q # r /\ pc[q] \in LoadedPCs
      BY <3>1, <3>2 DEF HistoryInv, MutualExclusion, Serving, ServePCs
    <3>3. NoLostHistory'
      BY <1>0, <3>1 DEF HistoryInv, NoLostHistory
    <3> QED BY <1>0, <3>1, <3>2, <3>3 DEF HistoryInv, QuietKeys
  <2> QED BY <1>5, <2>1, <2>2, <2>3 DEF Serve
<1>6. ASSUME NEW k \in Keys, CreateSession(k)
      PROVE  HistoryInv'
  BY <1>1, <1>6 DEF CreateSession
<1>7. ASSUME NEW k \in Keys, DeleteSession(k)
      PROVE  HistoryInv'
  BY <1>0, <1>7 DEF DeleteSession, HistoryInv, NoLostHistory, QuietKeys
<1>8. CASE UNCHANGED vars
  BY <1>1, <1>8 DEF vars, sessionVars
<1> QED BY <1>2, <1>3, <1>4, <1>5, <1>6, <1>7, <1>8 DEF Next

LEMMA HistoryCorrect == Spec => [](TypeOK /\ MutualExclusion /\ HistoryInv)
<1>1. Init => HistoryInv
  BY CallsAssumption
     DEF Init, HistoryInv, NoLostHistory, LoadedPCs, Runs, Calls
<1> QED BY <1>1, HistoryPreserved, TypeCorrect, MutualExclusionHolds, PTL DEF Spec

\* A session that no task or sub-agent writes never loses a stored exchange.
THEOREM HistoryIsKept == Spec => []NoLostHistory
BY HistoryCorrect, PTL DEF HistoryInv

-----------------------------------------------------------------------------
(***************************************************************************)
(* Refinement of SerialSessions                                            *)
(***************************************************************************)

\* The owner of a session is the request being served on it.
LEMMA OwnerIsServing ==
  ASSUME MutualExclusion, NEW k \in Keys
  PROVE  /\ \A r \in Requests : key[r] = k /\ Serving(r) => Owner(k) = r
         /\ (\A r \in Requests : key[r] = k => ~Serving(r)) => Owner(k) = None
BY DEF Owner, MutualExclusion

\* The same, after a step.
LEMMA OwnerIsServingNext ==
  ASSUME MutualExclusion', key' = key, NEW k \in Keys
  PROVE  /\ \A r \in Requests : key[r] = k /\ Serving(r)' => Owner(k)' = r
         /\ (\A r \in Requests : key[r] = k => ~Serving(r)') => Owner(k)' = None
BY DEF Owner, MutualExclusion

\* A step after which the same requests are being served leaves all owners.
LEMMA OwnersUnchanged ==
  ASSUME MutualExclusion, MutualExclusion', key' = key,
         \A r \in Requests : Serving(r)' <=> Serving(r)
  PROVE  [k \in QuietKeys |-> Owner(k)]' = [k \in QuietKeys |-> Owner(k)]
<1>1. ASSUME NEW k \in Keys PROVE Owner(k)' = Owner(k)
  BY OwnerIsServing, OwnerIsServingNext
<1> QED BY <1>1 DEF QuietKeys

\* Every step of the dispatcher is a step of SerialSessions or changes nothing
\* of it: entering Service.Chat is Begin, saving is Commit, closing done is End.
LEMMA StepRefines ==
  ASSUME TypeOK, MutualExclusion, HistoryInv, MutualExclusion', [Next]_vars
  PROVE  [Serial!Next]_<<[k \in QuietKeys |-> Owner(k)], [k \in QuietKeys |-> stored[k]]>>
<1> DEFINE owner   == [k \in QuietKeys |-> Owner(k)]
           history == [k \in QuietKeys |-> stored[k]]
<1> USE CallsAssumption DEF TypeOK, Runs, Calls, Goto
<1>0. key' = key
  BY DEF Next, vars, Dispatch, Swap, CancelPrev, AwaitPrev, CloseDone, RemoveEntry, Interrupt,
         InterruptIdle, InterruptRunning, InterruptReturn, DirectChat, Serve, ServeFails,
         LoadSession, CheckContext, RunTurn, SaveSession, SaveFails, CallerCancels,
         CreateSession, DeleteSession
<1> HIDE DEF owner, history
<1>1. ASSUME \A r \in Requests : Serving(r)' <=> Serving(r), stored' = stored
      PROVE  UNCHANGED <<owner, history>>
  BY <1>0, <1>1, OwnersUnchanged DEF owner, history, QuietKeys
<1>2. ASSUME NEW r \in Requests, stored' = stored,
             \A s \in Requests \ {r} : Serving(s)' <=> Serving(s),
             ~(Serving(r)' <=> Serving(r))
      PROVE  [Serial!Next]_<<owner, history>>
  <2>1. key[r] \in Keys
    OBVIOUS
  <2>2. history' = history
    BY <1>2 DEF history, QuietKeys
  <2>3. ASSUME NEW k \in Keys, k # key[r]
        PROVE  Owner(k)' = Owner(k)
    BY <1>0, <1>2, <2>3, OwnerIsServing, OwnerIsServingNext
  <2>4. CASE key[r] \notin QuietKeys
    <3>1. \A k \in QuietKeys : Owner(k)' = Owner(k)
      BY <2>3, <2>4 DEF QuietKeys
    <3> QED BY <2>2, <3>1 DEF owner, QuietKeys
  <2>5. CASE key[r] \in QuietKeys /\ Serving(r)'
    <3>1. Owner(key[r])' = r
      BY <1>0, <2>1, <2>5, OwnerIsServingNext
    <3>2. \A s \in Requests : key[s] = key[r] => ~Serving(s)
      BY <1>0, <1>2, <2>5 DEF MutualExclusion
    <3>3. Owner(key[r]) = None
      BY <2>1, <3>2, OwnerIsServing
    <3>4. owner' = [owner EXCEPT ![key[r]] = r] /\ owner[key[r]] = None
      <4>1. \A k \in QuietKeys : Owner(k)' = IF k = key[r] THEN r ELSE Owner(k)
        BY <1>0, <2>3, <3>1 DEF QuietKeys
      <4> QED BY <2>5, <3>3, <4>1 DEF owner
    <3>5. Serial!Begin(r, key[r])
      BY <2>2, <3>4 DEF Serial!Begin, owner, history
    <3> QED BY <2>5, <3>5 DEF Serial!Next
  <2>6. CASE key[r] \in QuietKeys /\ Serving(r)
    <3>1. Owner(key[r]) = r
      BY <2>1, <2>6, OwnerIsServing
    <3>2. \A s \in Requests : key[s] = key[r] => ~Serving(s)'
      BY <1>2, <2>6 DEF MutualExclusion
    <3>3. Owner(key[r])' = None
      BY <1>0, <2>1, <3>2, OwnerIsServingNext
    <3>4. owner' = [owner EXCEPT ![key[r]] = None] /\ owner[key[r]] = r
      <4>1. \A k \in QuietKeys : Owner(k)' = IF k = key[r] THEN None ELSE Owner(k)
        BY <1>0, <2>3, <3>3 DEF QuietKeys
      <4> QED BY <2>6, <3>1, <4>1 DEF owner
    <3>5. Serial!End(r, key[r])
      BY <2>2, <3>4 DEF Serial!End, owner, history
    <3> QED BY <2>6, <3>5 DEF Serial!Next
  <2> QED BY <1>2, <2>4, <2>5, <2>6
<1>3. ASSUME NEW r \in Requests, Dispatch(r)
      PROVE  [Serial!Next]_<<owner, history>>
  <2>1. stored' = stored /\ \A s \in Requests \ {r} : pc'[s] = pc[s]
    BY <1>3 DEF Dispatch, Swap, CancelPrev, AwaitPrev, CloseDone, RemoveEntry, sessionVars
  <2>2. \A s \in Requests \ {r} : Serving(s)' <=> Serving(s)
    BY <2>1 DEF Serving
  <2>3. CASE Serving(r)' <=> Serving(r)
    BY <1>1, <2>1, <2>2, <2>3
  <2>4. CASE ~(Serving(r)' <=> Serving(r))
    BY <1>2, <2>1, <2>2, <2>4
  <2> QED BY <2>3, <2>4
<1>4. ASSUME stored' = stored, \A s \in Requests : pc'[s] = pc[s]
      PROVE  [Serial!Next]_<<owner, history>>
  BY <1>1, <1>4 DEF Serving
<1>5. ASSUME NEW r \in Runs, Serve(r) \/ CallerCancels(r)
      PROVE  [Serial!Next]_<<owner, history>>
  <2>1. \A s \in Requests : Serving(s)' <=> Serving(s)
    <3>1. CASE CallerCancels(r)
      BY <3>1 DEF CallerCancels, Serving
    <3>2. CASE Serve(r)
      <4>1. PICK to : /\ pc' = [pc EXCEPT ![r] = to] /\ pc[r] \in ServePCs
                      /\ r \in Requests => to \in ServePCs
        BY <3>2, ServingGoesOn
      <4> QED BY <1>0, <4>1, CallsAssumption DEF Serving, TypeOK, Calls, Runs
    <3> QED BY <1>5, <3>1, <3>2
  <2>2. CASE stored' = stored
    BY <1>1, <2>1, <2>2
  <2>3. CASE SaveSession(r) /\ key[r] \notin QuietKeys
    <3>1. history' = history
      BY <2>3 DEF SaveSession, history, QuietKeys
    <3> QED BY <1>0, <2>1, <3>1, OwnersUnchanged DEF owner
  <2>4. CASE SaveSession(r) /\ key[r] \in QuietKeys
    <3>1. r \in Requests /\ key[r] \in Keys
      BY <2>4 DEF HistoryInv, QuietKeys
    <3>2. PICK k \in QuietKeys : k = key[r]
      BY <2>4
    <3>3. /\ pc[r] = "save" /\ mem[r] = stored[k] \cup {r}
          /\ stored' = [stored EXCEPT ![k] = mem[r]]
      BY <2>4, <3>1, <3>2 DEF SaveSession, HistoryInv, LoadedPCs, QuietKeys
    <3>4. owner[k] = r
      BY <3>1, <3>2, <3>3, OwnerIsServing DEF owner, Serving, ServePCs
    <3>5. history' = [history EXCEPT ![k] = history[k] \cup {r}]
      BY <3>2, <3>3 DEF history, QuietKeys
    <3>6. owner' = owner
      BY <1>0, <2>1, OwnersUnchanged DEF owner
    <3>7. Serial!Commit(r, k)
      BY <3>4, <3>5, <3>6 DEF Serial!Commit, owner, history
    <3> QED BY <3>1, <3>2, <3>7 DEF Serial!Next
  <2>5. stored' = stored \/ SaveSession(r)
    BY <1>5 DEF Serve, ServeFails, LoadSession, CheckContext, RunTurn, SaveFails,
                CallerCancels, sessionVars
  <2> QED BY <2>2, <2>3, <2>4, <2>5
<1>6. ASSUME NEW k \in Keys, CreateSession(k) \/ DeleteSession(k)
      PROVE  [Serial!Next]_<<owner, history>>
  <2>1. pc' = pc /\ \A q \in QuietKeys : stored'[q] = stored[q]
    BY <1>6 DEF CreateSession, DeleteSession, QuietKeys
  <2>2. history' = history
    BY <2>1 DEF history
  <2>3. owner' = owner
    BY <1>0, <2>1, OwnersUnchanged DEF owner, Serving
  <2> QED BY <2>2, <2>3
<1>7. ASSUME NEW i \in Interrupts, Interrupt(i) \/ InterruptReturn(i)
      PROVE  [Serial!Next]_<<owner, history>>
  <2>1. stored' = stored /\ \A s \in Requests : pc'[s] = pc[s]
    BY <1>7 DEF Interrupt, InterruptIdle, InterruptRunning, InterruptReturn, sessionVars
  <2> QED BY <1>4, <2>1
<1>8. ASSUME NEW d \in Directs, DirectChat(d)
      PROVE  [Serial!Next]_<<owner, history>>
  <2>1. stored' = stored /\ \A s \in Requests : pc'[s] = pc[s]
    BY <1>8 DEF DirectChat
  <2> QED BY <1>4, <2>1
<1>9. ASSUME UNCHANGED vars
      PROVE  [Serial!Next]_<<owner, history>>
  <2>1. stored' = stored /\ \A s \in Requests : pc'[s] = pc[s]
    BY <1>9 DEF vars, sessionVars
  <2> QED BY <1>4, <2>1
<1>10. [Serial!Next]_<<owner, history>>
  BY <1>3, <1>5, <1>6, <1>7, <1>8, <1>9 DEF Next
<1> QED BY <1>10 DEF owner, history

\* The dispatcher implements the serial sessions it promises.
THEOREM Refinement == Spec => ImplementsSerialSessions
<1>1. Init => Serial!Init
  <2> SUFFICES ASSUME Init PROVE Serial!Init
    OBVIOUS
  <2>1. ASSUME NEW k \in Keys PROVE Owner(k) = None
    BY CallsAssumption DEF Init, Owner, Serving, ServePCs, Runs, Calls
  <2> QED BY <2>1 DEF Init, Serial!Init, QuietKeys
<1> QED BY <1>1, StepRefines, HistoryCorrect, PTL
        DEF Spec, ImplementsSerialSessions, Serial!Spec

-----------------------------------------------------------------------------
(***************************************************************************)
(* The sub-agents that the run of a request calls, for any depth and any   *)
(* limits: the hook gives up before the loop does, and a system message    *)
(* that is out of date was used a short time ago.                          *)
(***************************************************************************)

\* A called run has a session newer than its caller's: no session is on the stack twice.
Nested ==
  /\ \A i \in DOMAIN stack : stack[i].session <= made
  /\ \A i, j \in DOMAIN stack : i < j => stack[i].session < stack[j].session

\* Where a run is tells whether its completion is done, and its mistakes are counted
\* by the hook, unless that completion was accepted or given up on.
Sound(run, count) ==
  /\ run.pc \in {"begin", "assemble", "put", "turn"} => ~run.done
  /\ run.pc \in {"hook", "refuse", "accept"} => run.done
  /\ ~run.done \/ run.pc \in {"hook", "refuse"} => run.mistakes <= count

RunsAreSound == \A i \in DOMAIN stack : Sound(stack[i], attempts[stack[i].session])

AttemptsAreFew == \A s \in Sessions : attempts[s] <= MaxAttempts

\* A message has a timer that will fire in time, or has fired and waits.
MessagesAreTimed ==
  \A s \in Sessions : messages[s] # Nil =>
    /\ deleteTimers[s] # Nil /\ now <= used[s] + MessageTTL
    /\ deleteTimers[s].armed => deleteTimers[s].due = used[s] + MessageTTL
    /\ ~deleteTimers[s].armed => callbacks[s] > 0

DelegationInv ==
  DelegationTypeOK /\ Nested /\ RunsAreSound /\ AttemptsAreFew /\ MessagesAreTimed

MessageTypes ==
  /\ messages \in [Sessions -> 0..MaxEdits \cup {Nil}]
  /\ deleteTimers \in [Sessions -> [due : Nat, armed : BOOLEAN] \cup {Nil}]
  /\ strays \in [Sessions -> Seq(Nat)] /\ callbacks \in [Sessions -> Nat]
  /\ used \in [Sessions -> Times]

TodoTypes ==
  /\ todos \in [Sessions -> Seq(Status)]
  /\ cleanTimers \in [Sessions -> SUBSET Times]

-----------------------------------------------------------------------------
(***************************************************************************)
(* What is kept in memory                                                  *)
(***************************************************************************)

\* The clock is a number, sessions are, and Nil is none.
LEMMA Bounds ==
  ASSUME MemoryTypeOK
  PROVE  /\ now \in Nat /\ now \in Times /\ Times \subseteq Nat
         /\ Sessions \subseteq Nat /\ Root \in Sessions /\ MaxSessions \in Nat
         /\ NewTimer \in [due : Nat, armed : BOOLEAN] /\ NewTimer # Nil
<1>1. /\ Times \subseteq Nat /\ Sessions \subseteq Nat /\ Root \in Sessions
      /\ MaxSessions \in Nat
  BY MemoryAssumption DEF Times, Sessions, Root
<1>2. now \in Times
  BY DEF MemoryTypeOK
<1>3. now + MessageTTL \in Nat
  BY MemoryAssumption, <1>1, <1>2
<1>4. NewTimer \in [due : Nat, armed : BOOLEAN]
  BY <1>3 DEF NewTimer
<1>5. NewTimer # Nil
  BY MemoryAssumption, <1>4
<1> QED BY <1>1, <1>2, <1>4, <1>5

\* A message that is handed out or put has its timer set anew.
LEMMA MessageIsUsed ==
  ASSUME MemoryTypeOK, MessagesAreTimed, NEW s \in Sessions,
         \/ Get(s) \/ \E text \in 0..MaxEdits : Put(s, text),
         UNCHANGED now
  PROVE  MessageTypes' /\ MessagesAreTimed'
<1>1. /\ messages' \in [Sessions -> 0..MaxEdits \cup {Nil}]
      /\ \A x \in Sessions : x # s => messages'[x] = messages[x]
  <2>1. messages \in [Sessions -> 0..MaxEdits \cup {Nil}]
    BY DEF MemoryTypeOK
  <2>2. CASE Get(s)
    BY <2>1, <2>2 DEF Get
  <2>3. ASSUME NEW text \in 0..MaxEdits, Put(s, text)
        PROVE  /\ messages' \in [Sessions -> 0..MaxEdits \cup {Nil}]
               /\ \A x \in Sessions : x # s => messages'[x] = messages[x]
    BY <2>1, <2>3 DEF Put
  <2> QED BY <2>2, <2>3
<1>2. /\ deleteTimers' = [deleteTimers EXCEPT ![s] = NewTimer]
      /\ used' = [used EXCEPT ![s] = now]
      /\ UNCHANGED <<strays, callbacks>>
  BY DEF Get, Put
<1>3. /\ deleteTimers \in [Sessions -> [due : Nat, armed : BOOLEAN] \cup {Nil}]
      /\ used \in [Sessions -> Times]
  BY DEF MemoryTypeOK
<1>4. /\ deleteTimers' \in [Sessions -> [due : Nat, armed : BOOLEAN] \cup {Nil}]
      /\ used' \in [Sessions -> Times]
  BY <1>2, <1>3, Bounds
<1>5. /\ deleteTimers'[s] = NewTimer /\ used'[s] = now
      /\ \A x \in Sessions : x # s => deleteTimers'[x] = deleteTimers[x] /\ used'[x] = used[x]
  BY <1>2, <1>3
<1>6. /\ NewTimer # Nil /\ NewTimer.armed /\ NewTimer.due = now + MessageTTL
      /\ now <= now + MessageTTL
  BY MemoryAssumption, Bounds DEF NewTimer
<1>7. MessageTypes'
  BY <1>1, <1>2, <1>4 DEF MessageTypes, MemoryTypeOK
<1>8. ASSUME NEW x \in Sessions, messages'[x] # Nil
      PROVE  /\ deleteTimers'[x] # Nil /\ now <= used'[x] + MessageTTL
             /\ deleteTimers'[x].armed => deleteTimers'[x].due = used'[x] + MessageTTL
             /\ ~deleteTimers'[x].armed => callbacks'[x] > 0
  <2>1. CASE x = s
    BY <1>5, <1>6, <2>1
  <2>2. CASE x # s
    <3>1. messages[x] # Nil
      BY <1>1, <1>8, <2>2
    <3> QED BY <1>2, <1>5, <2>2, <3>1 DEF MessagesAreTimed
  <2> QED BY <2>1, <2>2
<1> QED BY <1>7, <1>8 DEF MessagesAreTimed

\* A timer that fires leaves a callback behind.
LEMMA TimerFires ==
  ASSUME MemoryTypeOK, MessagesAreTimed, NEW s \in Sessions, MessageTimerFires(s)
  PROVE  MessageTypes' /\ MessagesAreTimed'
<1>1. /\ callbacks' = [callbacks EXCEPT ![s] = callbacks[s] + 1]
      /\ UNCHANGED <<now, messages, used>>
  BY DEF MessageTimerFires
<1>2. callbacks \in [Sessions -> Nat]
  BY DEF MemoryTypeOK
<1>3. /\ callbacks' \in [Sessions -> Nat] /\ callbacks'[s] > 0
      /\ \A x \in Sessions : x # s => callbacks'[x] = callbacks[x]
  BY <1>1, <1>2
<1>4. CASE /\ Due(s) /\ deleteTimers' = [deleteTimers EXCEPT ![s].armed = FALSE]
           /\ UNCHANGED strays
  <2> DEFINE timer == deleteTimers[s]
  <2>1. timer \in [due : Nat, armed : BOOLEAN]
    BY <1>4 DEF Due, MemoryTypeOK
  <2> DEFINE fired == [timer EXCEPT !.armed = FALSE]
  <2>2. deleteTimers' = [deleteTimers EXCEPT ![s] = fired]
    BY <1>4
  <2>3. fired \in [due : Nat, armed : BOOLEAN] /\ ~fired.armed
    BY <2>1
  <2>4. fired # Nil
    BY MemoryAssumption, <2>3
  <2> HIDE DEF fired, timer
  <2>5. deleteTimers \in [Sessions -> [due : Nat, armed : BOOLEAN] \cup {Nil}]
    BY DEF MemoryTypeOK
  <2>6. /\ deleteTimers' \in [Sessions -> [due : Nat, armed : BOOLEAN] \cup {Nil}]
        /\ deleteTimers'[s] = fired
        /\ \A x \in Sessions : x # s => deleteTimers'[x] = deleteTimers[x]
    BY <2>2, <2>3, <2>5
  <2>7. MessageTypes'
    BY <1>1, <1>3, <1>4, <2>6 DEF MessageTypes, MemoryTypeOK
  <2>8. MessagesAreTimed'
    BY <1>1, <1>3, <2>3, <2>4, <2>6 DEF MessagesAreTimed
  <2> QED BY <2>7, <2>8
<1>5. CASE /\ StrayDue(s) /\ strays' = [strays EXCEPT ![s] = Tail(strays[s])]
           /\ UNCHANGED deleteTimers
  <2>1. strays \in [Sessions -> Seq(Nat)]
    BY DEF MemoryTypeOK
  <2>2. Tail(strays[s]) \in Seq(Nat)
    BY <1>5, <2>1 DEF StrayDue
  <2>3. strays' \in [Sessions -> Seq(Nat)]
    BY <1>5, <2>1, <2>2
  <2>4. MessageTypes'
    BY <1>1, <1>3, <1>5, <2>3 DEF MessageTypes, MemoryTypeOK
  <2>5. MessagesAreTimed'
    BY <1>1, <1>3, <1>5 DEF MessagesAreTimed
  <2> QED BY <2>4, <2>5
<1> QED BY <1>4, <1>5 DEF MessageTimerFires

\* Its callback takes the message, whichever it is by now.
LEMMA MessageGoes ==
  ASSUME MemoryTypeOK, MessagesAreTimed, NEW s \in Sessions, MessageExpires(s)
  PROVE  MessageTypes' /\ MessagesAreTimed'
<1>1. /\ callbacks[s] > 0 /\ callbacks' = [callbacks EXCEPT ![s] = callbacks[s] - 1]
      /\ messages' = [messages EXCEPT ![s] = Nil]
      /\ deleteTimers' = [deleteTimers EXCEPT ![s] = Nil]
      /\ used' = [used EXCEPT ![s] = 0]
      /\ UNCHANGED now
  BY DEF MessageExpires
<1>2. /\ messages \in [Sessions -> 0..MaxEdits \cup {Nil}]
      /\ deleteTimers \in [Sessions -> [due : Nat, armed : BOOLEAN] \cup {Nil}]
      /\ strays \in [Sessions -> Seq(Nat)] /\ callbacks \in [Sessions -> Nat]
      /\ used \in [Sessions -> Times]
  BY DEF MemoryTypeOK
<1>3. 0 \in Times
  BY MemoryAssumption DEF Times
<1>4. strays' \in [Sessions -> Seq(Nat)]
  <2> DEFINE rest == IF deleteTimers[s] # Nil /\ deleteTimers[s].armed
                     THEN Append(strays[s], deleteTimers[s].due) ELSE strays[s]
  <2>1. strays' = [strays EXCEPT ![s] = rest]
    BY DEF MessageExpires
  <2>2. rest \in Seq(Nat)
    <3>1. strays[s] \in Seq(Nat)
      BY <1>2
    <3>2. ASSUME deleteTimers[s] # Nil PROVE deleteTimers[s].due \in Nat
      BY <1>2, <3>2
    <3> QED BY <3>1, <3>2
  <2> HIDE DEF rest
  <2> QED BY <1>2, <2>1, <2>2
<1>5. callbacks' \in [Sessions -> Nat]
  BY <1>1, <1>2
<1>6. /\ messages' \in [Sessions -> 0..MaxEdits \cup {Nil}]
      /\ deleteTimers' \in [Sessions -> [due : Nat, armed : BOOLEAN] \cup {Nil}]
      /\ used' \in [Sessions -> Times]
  BY <1>1, <1>2, <1>3
<1>7. /\ messages'[s] = Nil
      /\ \A x \in Sessions : x # s =>
           /\ messages'[x] = messages[x] /\ deleteTimers'[x] = deleteTimers[x]
           /\ used'[x] = used[x] /\ callbacks'[x] = callbacks[x]
  BY <1>1, <1>2
<1>8. MessageTypes'
  BY <1>4, <1>5, <1>6 DEF MessageTypes
<1>9. MessagesAreTimed'
  BY <1>1, <1>7 DEF MessagesAreTimed
<1> QED BY <1>8, <1>9

\* The clock does not pass a timer that is due.
LEMMA ClockTicks ==
  ASSUME MemoryTypeOK, MessagesAreTimed, Tick
  PROVE  MemoryTypeOK' /\ MessagesAreTimed'
<1>1. /\ now < MaxTime /\ now' = now + 1
      /\ \A s \in Sessions : ~Due(s) /\ callbacks[s] = 0
      /\ UNCHANGED <<files, messageVars, todoVars>>
  BY DEF Tick
<1>2. now' \in Times /\ now \in Nat
  BY MemoryAssumption, <1>1, Bounds DEF Times
<1>3. MemoryTypeOK'
  BY <1>1, <1>2 DEF MemoryTypeOK, messageVars, todoVars
<1>4. ASSUME NEW s \in Sessions, messages[s] # Nil
      PROVE  now + 1 <= used[s] + MessageTTL /\ deleteTimers[s].armed
  <2>1. deleteTimers[s] # Nil /\ deleteTimers[s].armed
    BY <1>1, <1>4 DEF MessagesAreTimed
  <2>2. deleteTimers[s].due = used[s] + MessageTTL /\ ~(deleteTimers[s].due <= now)
    BY <1>1, <1>4, <2>1 DEF MessagesAreTimed, Due
  <2>3. used[s] \in Nat
    BY Bounds DEF MemoryTypeOK
  <2> QED BY MemoryAssumption, <1>2, <2>1, <2>2, <2>3
<1>5. MessagesAreTimed'
  BY <1>1, <1>4 DEF MessagesAreTimed, messageVars
<1> QED BY <1>3, <1>5

\* The timers of a list fire in the time there is.
LEMMA TouchTypes ==
  ASSUME MemoryTypeOK, NEW s \in Sessions, Touch(s)
  PROVE  cleanTimers' \in [Sessions -> SUBSET Times]
BY DEF MemoryTypeOK, Touch

\* Lists of todos have todos in them.
LEMMA TodosStay ==
  ASSUME MemoryTypeOK, NEW s \in Sessions,
         \/ List(s) \/ Forget(s)
         \/ \E n \in Nat : Add(s, n)
         \/ \E id \in Nat, st \in Status : Update(s, id, st)
  PROVE  TodoTypes'
<1>1. /\ todos \in [Sessions -> Seq(Status)]
      /\ cleanTimers \in [Sessions -> SUBSET Times]
  BY DEF MemoryTypeOK
<1>2. CASE List(s)
  BY <1>1, <1>2, TouchTypes DEF List, TodoTypes
<1>3. CASE Forget(s)
  BY <1>1, <1>3 DEF Forget, TodoTypes
<1>4. ASSUME NEW n \in Nat, Add(s, n) PROVE TodoTypes'
  <2> DEFINE more == todos[s] \o [i \in 1..n |-> "open"]
  <2>1. [i \in 1..n |-> "open"] \in Seq(Status)
    BY DEF Status
  <2>2. more \in Seq(Status)
    BY <1>1, <2>1
  <2>3. todos' = [todos EXCEPT ![s] = more]
    BY <1>4 DEF Add
  <2> HIDE DEF more
  <2> QED BY <1>1, <1>4, <2>2, <2>3, TouchTypes DEF Add, TodoTypes
<1>5. ASSUME NEW id, NEW st \in Status, Update(s, id, st) PROVE TodoTypes'
  <2>1. todos' \in [Sessions -> Seq(Status)]
    <3>1. CASE id \in DOMAIN todos[s]
      <4> DEFINE new == [todos[s] EXCEPT ![id] = st]
      <4>1. new \in Seq(Status)
        BY <1>1, <3>1
      <4>2. todos' = [todos EXCEPT ![s] = new]
        BY <1>5, <3>1 DEF Update
      <4> HIDE DEF new
      <4> QED BY <1>1, <4>1, <4>2
    <3>2. CASE id \notin DOMAIN todos[s]
      BY <1>1, <1>5, <3>2 DEF Update
    <3> QED BY <3>1, <3>2
  <2> QED BY <1>5, <2>1, TouchTypes DEF Update, TodoTypes
<1> QED BY <1>2, <1>3, <1>4, <1>5

\* The timers, the edits and the clock.
LEMMA MemoryStep ==
  ASSUME MemoryTypeOK, MessagesAreTimed, Timers \/ EditFiles \/ Tick
  PROVE  MemoryTypeOK' /\ MessagesAreTimed'
<1>1. ASSUME NEW s \in Sessions, MessageTimerFires(s) \/ MessageExpires(s)
      PROVE  MemoryTypeOK' /\ MessagesAreTimed'
  <2>1. MessageTypes' /\ MessagesAreTimed'
    BY <1>1, TimerFires, MessageGoes
  <2>2. UNCHANGED <<now, files, todos, cleanTimers>>
    BY <1>1 DEF MessageTimerFires, MessageExpires, todoVars
  <2> QED BY <2>1, <2>2 DEF MemoryTypeOK, MessageTypes
<1>2. ASSUME NEW s \in Sessions, TodosExpire(s)
      PROVE  MemoryTypeOK' /\ MessagesAreTimed'
  <2>1. /\ todos' = [todos EXCEPT ![s] = <<>>]
        /\ cleanTimers' = [cleanTimers EXCEPT ![s] = {t \in cleanTimers[s] : t > now}]
        /\ UNCHANGED <<now, files, messages, deleteTimers, strays, callbacks, used>>
    BY <1>2 DEF TodosExpire, messageVars
  <2>2. TodoTypes'
    BY <2>1 DEF MemoryTypeOK, TodoTypes
  <2>3. MemoryTypeOK'
    BY <2>1, <2>2 DEF MemoryTypeOK, TodoTypes
  <2>4. MessagesAreTimed'
    BY <2>1 DEF MessagesAreTimed
  <2> QED BY <2>3, <2>4
<1>3. CASE EditFiles
  <2>1. files' \in 0..MaxEdits
    <3>1. files \in 0..MaxEdits /\ files < MaxEdits /\ files' = files + 1
      BY <1>3 DEF EditFiles, MemoryTypeOK
    <3> QED BY MemoryAssumption, <3>1
  <2>2. UNCHANGED <<now, messages, deleteTimers, strays, callbacks, used, todos, cleanTimers>>
    BY <1>3 DEF EditFiles, messageVars, todoVars
  <2> QED BY <2>1, <2>2 DEF MemoryTypeOK, MessagesAreTimed
<1> QED BY <1>1, <1>2, <1>3, ClockTicks DEF Timers

-----------------------------------------------------------------------------
(***************************************************************************)
(* The runs                                                                *)
(***************************************************************************)

\* The innermost run.
LEMMA TopIsRun ==
  ASSUME DelegationTypeOK, Depth > 0
  PROVE  /\ Depth \in DOMAIN stack /\ Depth \in Nat /\ DOMAIN stack = 1..Depth
         /\ Top \in Run /\ Top.session \in Sessions
<1>1. stack \in Seq(Run)
  BY DEF DelegationTypeOK
<1>2. Depth \in Nat /\ DOMAIN stack = 1..Depth /\ Depth \in 1..Depth
  BY <1>1 DEF Depth
<1>3. Top \in Run
  BY <1>1, <1>2 DEF Top
<1> QED BY <1>2, <1>3 DEF Run

\* Only the innermost run has changed, and it is sound: so are all.
LEMMA TopSteps ==
  ASSUME DelegationTypeOK, Nested, RunsAreSound, AttemptsAreFew, Depth > 0,
         NEW run \in Run, stack' = [stack EXCEPT ![Depth] = run],
         run.session = Top.session,
         NEW count \in Nat, count <= MaxAttempts, Sound(run, count),
         attempts' = [attempts EXCEPT ![Top.session] = count],
         UNCHANGED made
  PROVE  /\ stack' \in Seq(Run) /\ attempts' \in [Sessions -> Nat]
         /\ Nested' /\ RunsAreSound' /\ AttemptsAreFew'
<1>1. stack \in Seq(Run) /\ attempts \in [Sessions -> Nat]
  BY DEF DelegationTypeOK
<1>2. /\ Depth \in DOMAIN stack /\ Depth \in Nat /\ DOMAIN stack = 1..Depth
      /\ Top \in Run /\ Top.session \in Sessions
  BY TopIsRun
<1>3. /\ stack' \in Seq(Run) /\ DOMAIN stack' = DOMAIN stack /\ stack'[Depth] = run
      /\ \A i \in DOMAIN stack : i # Depth => stack'[i] = stack[i]
  BY <1>1, <1>2
<1>4. /\ attempts' \in [Sessions -> Nat] /\ attempts'[Top.session] = count
      /\ \A s \in Sessions : s # Top.session => attempts'[s] = attempts[s]
  BY <1>1, <1>2
<1>5. \A i \in DOMAIN stack : stack[i].session \in Sessions /\ stack[i].session \in Nat
  <2>1. \A i \in DOMAIN stack : stack[i] \in Run
    BY <1>1
  <2>2. Sessions \subseteq Nat
    BY Bounds DEF DelegationTypeOK
  <2> QED BY <2>1, <2>2 DEF Run
<1>6. \A i \in DOMAIN stack : stack'[i].session = stack[i].session
  BY <1>3 DEF Top
<1>7. Nested'
  BY <1>3, <1>6 DEF Nested
<1>8. ASSUME NEW i \in DOMAIN stack PROVE Sound(stack'[i], attempts'[stack'[i].session])
  <2>1. CASE i = Depth
    BY <1>3, <1>4, <2>1
  <2>2. CASE i # Depth
    <3>1. i < Depth
      BY <1>2, <2>2
    <3>2. stack[i].session < Top.session
      BY <1>2, <3>1 DEF Nested, Top
    <3>3. stack[i].session # Top.session
      BY <1>2, <1>5, <3>2 DEF Top
    <3> QED BY <1>3, <1>4, <1>5, <2>2, <3>3 DEF RunsAreSound
  <2> QED BY <2>1, <2>2
<1>9. RunsAreSound'
  BY <1>3, <1>8 DEF RunsAreSound
<1>10. AttemptsAreFew'
  BY <1>4 DEF AttemptsAreFew
<1> QED BY <1>3, <1>4, <1>7, <1>9, <1>10

\* A step of the innermost run that counts no attempt.
LEMMA TopGoesOn ==
  ASSUME DelegationTypeOK, Nested, RunsAreSound, AttemptsAreFew, Depth > 0,
         NEW run \in Run, stack' = [stack EXCEPT ![Depth] = run],
         run.session = Top.session,
         Sound(run, attempts[Top.session]), UNCHANGED <<attempts, made>>
  PROVE  /\ stack' \in Seq(Run) /\ attempts' \in [Sessions -> Nat]
         /\ Nested' /\ RunsAreSound' /\ AttemptsAreFew'
<1> DEFINE count == attempts[Top.session]
<1>1. attempts \in [Sessions -> Nat] /\ Top.session \in Sessions
  BY TopIsRun DEF DelegationTypeOK
<1>2. /\ count \in Nat /\ count <= MaxAttempts
      /\ attempts' = [attempts EXCEPT ![Top.session] = count]
  BY <1>1 DEF AttemptsAreFew
<1> HIDE DEF count
<1>3. Sound(run, count)
  BY DEF count
<1> QED BY <1>2, <1>3, TopSteps

\* A step that sends it somewhere.
LEMMA TopGoesTo ==
  ASSUME DelegationTypeOK, Nested, RunsAreSound, AttemptsAreFew, Depth > 0,
         NEW place \in RunPCs, RunGoesTo(place), UNCHANGED <<attempts, made>>,
         place \in {"begin", "assemble", "put", "turn"} => ~Top.done,
         place \in {"hook", "refuse", "accept"} => Top.done,
         place \in {"hook", "refuse"} => Top.mistakes <= attempts[Top.session]
  PROVE  /\ stack' \in Seq(Run) /\ attempts' \in [Sessions -> Nat]
         /\ Nested' /\ RunsAreSound' /\ AttemptsAreFew'
<1> DEFINE run == [Top EXCEPT !.pc = place]
<1>1. Top \in Run /\ Depth \in DOMAIN stack
  BY TopIsRun
<1>2. /\ run \in Run /\ run.pc = place /\ run.done = Top.done
      /\ run.mistakes = Top.mistakes
      /\ run.session = Top.session
  BY <1>1 DEF Run
<1>3. stack' = [stack EXCEPT ![Depth] = run]
  BY DEF RunGoesTo, Top
<1>4. Sound(Top, attempts[Top.session])
  BY <1>1 DEF RunsAreSound, Top
<1> HIDE DEF run
<1>5. Sound(run, attempts[Top.session])
  BY <1>2, <1>4 DEF Sound
<1> QED BY <1>2, <1>3, <1>5, TopGoesOn

RunStepOK ==
  /\ stack' \in Seq(Run) /\ attempts' \in [Sessions -> Nat]
  /\ runs' \in 0..MaxRuns /\ made' \in 0..MaxSessions
  /\ Nested' /\ RunsAreSound' /\ AttemptsAreFew'

\* A request starts a run; there is no other.
LEMMA RequestOK ==
  ASSUME DelegationTypeOK, AttemptsAreFew, Request
  PROVE  RunStepOK
<1> DEFINE run == NewRun(Root, FALSE)
<1>1. /\ stack' = <<run>> /\ runs' = runs + 1 /\ UNCHANGED <<made, attempts>>
      /\ runs + made < MaxRuns
  BY DEF Request
<1>2. /\ runs \in 0..MaxRuns /\ made \in 0..MaxSessions /\ attempts \in [Sessions -> Nat]
      /\ Root \in Sessions
  BY Bounds DEF DelegationTypeOK
<1>3. run \in Run /\ run.session = Root /\ Sound(run, attempts[Root])
  BY MemoryAssumption, DelegationAssumption, <1>2 DEF NewRun, Run, RunPCs, Sound
<1>4. runs' \in 0..MaxRuns /\ made \in Nat
  BY MemoryAssumption, DelegationAssumption, <1>1, <1>2
<1> HIDE DEF run
<1>5. stack' \in Seq(Run) /\ DOMAIN stack' = {1} /\ stack'[1] = run
  BY <1>1, <1>3
<1>6. Nested'
  BY <1>1, <1>3, <1>4, <1>5 DEF Nested, Root
<1>7. RunsAreSound'
  BY <1>1, <1>3, <1>5 DEF RunsAreSound
<1> QED BY <1>1, <1>2, <1>4, <1>5, <1>6, <1>7 DEF RunStepOK, AttemptsAreFew

\* The hook's count: a caution adds one to the mistakes and one to the attempts, and
\* whoever starts the count again has a completion that is done.
LEMMA HookCounts ==
  ASSUME DelegationTypeOK, Nested, RunsAreSound, AttemptsAreFew,
         Accept \/ GiveUp \/ Caution
  PROVE  RunStepOK
<1>1. Depth > 0 /\ UNCHANGED <<runs, made>>
  BY DEF Accept, GiveUp, Caution, At
<1>2. Top \in Run /\ Depth \in DOMAIN stack /\ Top.session \in Sessions
  BY <1>1, TopIsRun
<1>3. Sound(Top, attempts[Top.session])
  BY <1>2 DEF RunsAreSound, Top
<1>4. /\ attempts \in [Sessions -> Nat] /\ attempts[Top.session] \in Nat
      /\ Top.mistakes \in Nat
  BY <1>2 DEF DelegationTypeOK, Run
<1>5. ASSUME NEW place \in {"call", "end"}, Top.pc \in {"accept", "refuse"}, RunGoesTo(place),
             attempts' = [attempts EXCEPT ![Top.session] = 0]
      PROVE  RunStepOK
  <2> DEFINE run == [Top EXCEPT !.pc = place]
  <2>1. Top.done
    BY <1>3, <1>5 DEF Sound
  <2>2. /\ run \in Run /\ run.pc = place /\ run.done = Top.done
        /\ run.session = Top.session
    BY <1>2, <1>5 DEF Run, RunPCs
  <2>3. stack' = [stack EXCEPT ![Depth] = run]
    BY <1>5 DEF RunGoesTo, Top
  <2> HIDE DEF run
  <2>4. Sound(run, 0) /\ 0 <= MaxAttempts
    BY DelegationAssumption, <2>1, <2>2 DEF Sound
  <2> QED BY <1>1, <1>5, <2>2, <2>3, <2>4, TopSteps DEF RunStepOK, DelegationTypeOK
<1>6. CASE Caution
  <2> DEFINE place == IF Top.mistakes >= MaxMistakes THEN "end" ELSE "turn"
             more == Top.mistakes + 1
             run == [Top EXCEPT !.mistakes = more, !.done = FALSE, !.pc = place]
             count == attempts[Top.session] + 1
  <2>1. /\ Top.pc = "refuse" /\ attempts[Top.session] < MaxAttempts
        /\ attempts' = [attempts EXCEPT ![Top.session] = count]
        /\ stack' = [stack EXCEPT ![Depth] = run]
    BY <1>6 DEF Caution, At, Top
  <2>2. count \in Nat /\ count <= MaxAttempts
    BY DelegationAssumption, <1>4, <2>1
  <2>3. /\ run \in Run /\ ~run.done /\ run.mistakes = more /\ run.session = Top.session
        /\ run.pc \in {"end", "turn"}
    <3>1. place \in {"end", "turn"} /\ more \in Nat
      BY <1>4
    <3> HIDE DEF place, more
    <3> QED BY <1>2, <3>1 DEF Run, RunPCs
  <2>4. Top.mistakes <= attempts[Top.session]
    BY <1>3, <2>1 DEF Sound
  <2>5. more <= count
    BY <1>4, <2>4
  <2> HIDE DEF run, count, more
  <2>6. Sound(run, count)
    BY <2>3, <2>5 DEF Sound
  <2> QED BY <1>1, <2>1, <2>2, <2>3, <2>6, TopSteps DEF RunStepOK, DelegationTypeOK
<1> QED BY <1>5, <1>6 DEF Accept, GiveUp, At

\* The other steps of a run alone.
LEMMA RunGoesOn ==
  ASSUME DelegationTypeOK, Nested, RunsAreSound, AttemptsAreFew,
         \/ Cached \/ NotCached \/ Assemble \/ ChatFails \/ PutMessage
         \/ Complete \/ Quit \/ ListForHook
         \/ OtherCalls \/ ToolHangs \/ CreateTodos \/ UpdateTodo \/ ListTodos
  PROVE  RunStepOK
<1>1. Depth > 0 /\ UNCHANGED <<runs, made, attempts>>
  BY DEF Cached, NotCached, Assemble, ChatFails, PutMessage, Complete, Quit, ListForHook,
         OtherCalls, ToolHangs, CreateTodos, UpdateTodo, ListTodos, At
<1>2. Top \in Run /\ Depth \in DOMAIN stack /\ Top.session \in Sessions
  BY <1>1, TopIsRun
<1>3. Sound(Top, attempts[Top.session])
  BY <1>2 DEF RunsAreSound, Top
<1>4. runs' \in 0..MaxRuns /\ made' \in 0..MaxSessions
  BY <1>1 DEF DelegationTypeOK
<1>5. CASE Cached \/ NotCached \/ ChatFails \/ Quit
  <2>1. PICK place \in {"turn", "assemble", "end"} : RunGoesTo(place)
    BY <1>5 DEF Cached, NotCached, ChatFails, Quit
  <2>2. Top.pc \in {"begin", "assemble", "turn"}
    BY <1>5 DEF Cached, NotCached, ChatFails, Quit, At
  <2>3. ~Top.done
    BY <1>3, <2>2 DEF Sound
  <2> QED BY <1>1, <1>4, <2>1, <2>3, TopGoesTo DEF RunStepOK, RunPCs
<1>6. CASE Assemble \/ PutMessage
  <2>1. PICK place \in {"put", "turn"}, text \in 0..MaxEdits :
          stack' = [stack EXCEPT ![Depth].pc = place, ![Depth].text = text]
    <3>1. 0 \in 0..MaxEdits /\ files \in 0..MaxEdits
      BY MemoryAssumption DEF DelegationTypeOK, MemoryTypeOK
    <3> QED BY <1>6, <3>1 DEF Assemble, PutMessage
  <2> DEFINE run == [Top EXCEPT !.pc = place, !.text = text]
  <2>2. /\ run \in Run /\ run.pc = place /\ run.done = Top.done
        /\ run.mistakes = Top.mistakes
        /\ run.session = Top.session
    BY <1>2 DEF Run, RunPCs
  <2>3. stack' = [stack EXCEPT ![Depth] = run]
    BY <2>1 DEF Top
  <2>4. Top.pc \in {"assemble", "put"}
    BY <1>6 DEF Assemble, PutMessage, At
  <2> HIDE DEF run
  <2>5. Sound(run, attempts[Top.session])
    BY <1>3, <2>2, <2>4 DEF Sound
  <2> QED BY <1>1, <1>4, <2>2, <2>3, <2>5, TopGoesOn DEF RunStepOK
<1>7. CASE Complete
  <2>1. PICK ends \in BOOLEAN :
          stack' = [stack EXCEPT ![Depth].pc = IF ends THEN "hook" ELSE "call",
                                 ![Depth].done = ends,
                                 ![Depth].left = Top.left - 1]
    BY <1>7 DEF Complete, Top
  <2> DEFINE place == IF ends THEN "hook" ELSE "call"
             run == [Top EXCEPT !.pc = place, !.done = ends, !.left = Top.left - 1]
  <2>2. Top.pc = "turn" /\ Top.left > 0
    BY <1>7 DEF Complete, At
  <2>3. Top.left - 1 \in 0..RunTurns
    <3>1. Top.left \in 0..RunTurns
      BY <1>2 DEF Run
    <3> QED BY DelegationAssumption, <2>2, <3>1
  <2>4. /\ run \in Run /\ run.pc = place /\ run.done = ends /\ run.mistakes = Top.mistakes
        /\ run.session = Top.session
    BY <1>2, <2>3 DEF Run, RunPCs
  <2>5. stack' = [stack EXCEPT ![Depth] = run]
    BY <2>1 DEF Top
  <2>6. ~Top.done /\ Top.mistakes <= attempts[Top.session]
    BY <1>3, <2>2 DEF Sound
  <2> HIDE DEF run
  <2>7. Sound(run, attempts[Top.session])
    BY <2>4, <2>6 DEF Sound
  <2> QED BY <1>1, <1>4, <2>4, <2>5, <2>7, TopGoesOn DEF RunStepOK
<1>8. CASE ListForHook
  <2>1. PICK place \in {"refuse", "accept"} : RunGoesTo(place)
    BY <1>8 DEF ListForHook
  <2>2. Top.done /\ Top.mistakes <= attempts[Top.session]
    BY <1>3, <1>8 DEF Sound, ListForHook, At
  <2> QED BY <1>1, <1>4, <2>1, <2>2, TopGoesTo DEF RunStepOK, RunPCs
<1>9. CASE OtherCalls \/ ToolHangs \/ CreateTodos \/ UpdateTodo \/ ListTodos
  <2>1. PICK place \in {"turn", "end", "list", "hung"} :
          RunGoesTo(place) /\ (place = "turn" => ~Top.done)
    BY <1>9
       DEF OtherCalls, ToolHangs, CreateTodos, UpdateTodo, ListTodos, CallEnds
  <2> QED BY <1>1, <1>4, <2>1, TopGoesTo DEF RunStepOK, RunPCs
<1> QED BY <1>5, <1>6, <1>7, <1>8, <1>9

\* A number below its bound may be counted up.
LEMMA OneMore ==
  ASSUME NEW bound \in Nat, NEW n \in 0..bound, n < bound
  PROVE  n \in Nat /\ n + 1 \in 0..bound
OBVIOUS

\* What an element more at the end of a sequence changes.
LEMMA OnTop ==
  ASSUME NEW S, NEW seq \in Seq(S), NEW x \in S
  PROVE  /\ Append(seq, x) \in Seq(S) /\ DOMAIN Append(seq, x) = 1..(Len(seq) + 1)
         /\ Append(seq, x)[Len(seq) + 1] = x
         /\ \A i \in 1..Len(seq) : Append(seq, x)[i] = seq[i]
OBVIOUS

\* Whatever is below another element is below the last place.
LEMMA Below ==
  ASSUME NEW n \in Nat, NEW i \in 1..(n + 1), NEW j \in 1..(n + 1), i < j
  PROVE  i \in 1..n
OBVIOUS

\* The session of a called run is newer than those of all that wait for it.
LEMMA CallOK ==
  ASSUME DelegationTypeOK, Nested, RunsAreSound, AttemptsAreFew, CallAgent
  PROVE  RunStepOK
<1> DEFINE caller == [Top EXCEPT !.pc = "calling"]
           called == NewRun(made + 1, Top.cancelled)
           callers == [stack EXCEPT ![Depth] = caller]
<1>1. /\ Depth > 0 /\ Top.pc = "call" /\ made < MaxSessions /\ made' = made + 1
      /\ UNCHANGED <<runs, attempts>>
      /\ stack' = Append(callers, called)
  BY DEF CallAgent, At, Top
<1>2. /\ Depth \in DOMAIN stack /\ Depth \in Nat /\ DOMAIN stack = 1..Depth
      /\ Top \in Run /\ Top.session \in Sessions
  BY <1>1, TopIsRun
<1>3. /\ runs \in 0..MaxRuns /\ made \in 0..MaxSessions /\ attempts \in [Sessions -> Nat]
      /\ stack \in Seq(Run)
  BY DEF DelegationTypeOK
<1>4. made \in Nat /\ made' \in 0..MaxSessions /\ made + 1 \in Sessions
  <2>1. MaxSessions \in Nat
    BY MemoryAssumption
  <2>2. made \in Nat /\ made + 1 \in 0..MaxSessions
    <3>1. made < MaxSessions /\ made \in 0..MaxSessions
      BY <1>1, <1>3
    <3> QED BY <2>1, <3>1, OneMore
  <2> QED BY <1>1, <2>2 DEF Sessions
<1>5. /\ called \in Run /\ called.session = made + 1 /\ Sound(called, attempts[made + 1])
  <2>1. attempts[made + 1] \in Nat /\ Top.cancelled \in BOOLEAN
    BY <1>2, <1>3, <1>4 DEF Run
  <2>2. called \in Run
    BY MemoryAssumption, DelegationAssumption, <1>4, <2>1 DEF NewRun, Run, RunPCs
  <2> QED BY <2>1, <2>2 DEF NewRun, Sound
<1>6. /\ caller \in Run /\ caller.session = Top.session
      /\ Sound(caller, attempts[Top.session])
  <2>1. /\ caller \in Run /\ caller.session = Top.session /\ caller.pc = "calling"
        /\ caller.done = Top.done /\ caller.mistakes = Top.mistakes
    BY <1>2 DEF Run, RunPCs
  <2>2. Sound(Top, attempts[Top.session])
    BY <1>2 DEF RunsAreSound, Top
  <2> HIDE DEF caller
  <2> QED BY <2>1, <2>2 DEF Sound
<1> HIDE DEF caller, called
<1>7. /\ callers \in Seq(Run) /\ Len(callers) = Depth /\ callers[Depth] = caller
      /\ \A i \in 1..Depth : i # Depth => callers[i] = stack[i]
  <2>1. Len(stack) = Depth
    BY DEF Depth
  <2> HIDE DEF caller
  <2>2. callers \in Seq(Run) /\ Len(callers) = Len(stack)
    <3>1. ASSUME NEW S, NEW seq \in Seq(S), NEW i \in DOMAIN seq, NEW x \in S
          PROVE  [seq EXCEPT ![i] = x] \in Seq(S) /\ Len([seq EXCEPT ![i] = x]) = Len(seq)
      OBVIOUS
    <3> HIDE DEF caller
    <3>2. stack \in Seq(Run) /\ Depth \in DOMAIN stack /\ caller \in Run
      BY <1>2, <1>3, <1>6
    <3> QED BY <3>1, <3>2
  <2> QED BY <1>2, <1>3, <2>1, <2>2
<1> HIDE DEF callers
<1>8. /\ stack' \in Seq(Run) /\ DOMAIN stack' = 1..(Depth + 1)
      /\ stack'[Depth + 1] = called
      /\ \A i \in 1..Depth : stack'[i] = callers[i]
  <2>1. /\ stack' = Append(callers, called) /\ called \in Run
        /\ callers \in Seq(Run) /\ Len(callers) = Depth
    BY <1>1, <1>5, <1>7
  <2>2. called \in Run /\ callers \in Seq(Run)
    BY <2>1
  <2>3. Append(callers, called) \in Seq(Run)
    BY <2>2, OnTop
  <2>4. DOMAIN Append(callers, called) = 1..(Len(callers) + 1)
    BY <2>2, OnTop
  <2>5. Append(callers, called)[Len(callers) + 1] = called
    BY <2>2, OnTop
  <2>6. \A i \in 1..Len(callers) : Append(callers, called)[i] = callers[i]
    BY <2>2, OnTop
  <2> QED BY <2>1, <2>3, <2>4, <2>5, <2>6, Zenon
<1>9. \A i \in 1..(Depth + 1) : i \in 1..Depth \/ i = Depth + 1
  BY <1>2
<1>10. \A i \in 1..Depth :
         /\ stack'[i].session = stack[i].session
         /\ Sound(stack'[i], attempts[stack'[i].session])
         /\ stack[i].session \in Nat /\ stack[i].session <= made
  <2>1. \A i \in 1..Depth : stack[i].session \in Nat
    <3>1. \A i \in 1..Depth : stack[i] \in Run
      <4>1. ASSUME NEW S, NEW seq \in Seq(S) PROVE \A i \in DOMAIN seq : seq[i] \in S
        OBVIOUS
      <4> QED BY <1>2, <1>3, <4>1, Zenon
    <3> QED BY <3>1, Bounds DEF DelegationTypeOK, Run
  <2>2. \A i \in 1..Depth :
          stack[i].session <= made /\ Sound(stack[i], attempts[stack[i].session])
    BY <1>2 DEF Nested, RunsAreSound
  <2>3. ASSUME NEW i \in 1..Depth
        PROVE  stack'[i].session = stack[i].session /\ Sound(stack'[i], attempts[stack[i].session])
    <3>1. CASE i = Depth
      BY <1>6, <1>7, <1>8, <3>1 DEF Top
    <3>2. CASE i # Depth
      <4>1. stack'[i] = stack[i]
        BY <1>7, <1>8, <3>2
      <4> QED BY <2>2, <4>1
    <3> QED BY <3>1, <3>2
  <2> QED BY <2>1, <2>2, <2>3
<1>11. ASSUME NEW i \in 1..(Depth + 1)
       PROVE  stack'[i].session <= made' /\ Sound(stack'[i], attempts[stack'[i].session])
  <2>1. CASE i \in 1..Depth
    <3>1. /\ stack'[i].session = stack[i].session /\ Sound(stack'[i], attempts[stack'[i].session])
          /\ stack[i].session \in Nat /\ stack[i].session <= made
      BY <1>10, <2>1
    <3>2. ASSUME NEW n \in Nat, n <= made PROVE n <= made + 1
      BY <1>4, <3>2
    <3> QED BY <1>1, <3>1, <3>2
  <2>2. CASE i = Depth + 1
    <3>1. stack'[i].session = made + 1 /\ Sound(stack'[i], attempts[made + 1])
      BY <1>5, <1>8, <2>2
    <3>2. made + 1 <= made'
      BY <1>1, <1>4
    <3> QED BY <3>1, <3>2
  <2> QED BY <1>9, <2>1, <2>2
<1>12. ASSUME NEW i \in 1..(Depth + 1), NEW j \in 1..(Depth + 1), i < j
       PROVE  stack'[i].session < stack'[j].session
  <2>1. i \in 1..Depth
    BY <1>2, <1>12, Below
  <2>2. CASE j = Depth + 1
    <3>1. ASSUME NEW n \in Nat, n <= made PROVE n < made + 1
      BY <1>4, <3>1
    <3>2. stack'[j].session = made + 1
      BY <1>5, <1>8, <2>2
    <3> QED BY <1>10, <2>1, <3>1, <3>2
  <2>3. CASE j \in 1..Depth
    BY <1>2, <1>10, <1>12, <2>1, <2>3 DEF Nested
  <2> QED BY <1>9, <2>2, <2>3
<1>13. Nested'
  BY <1>8, <1>11, <1>12 DEF Nested
<1>14. RunsAreSound'
  BY <1>1, <1>8, <1>11 DEF RunsAreSound
<1> QED BY <1>1, <1>3, <1>4, <1>8, <1>13, <1>14 DEF RunStepOK, AttemptsAreFew

\* The caller goes on where it waited.
LEMMA ReturnOK ==
  ASSUME DelegationTypeOK, Nested, RunsAreSound, AttemptsAreFew, Return
  PROVE  RunStepOK
<1>1. Depth > 0 /\ UNCHANGED <<runs, made, attempts>>
  BY DEF Return, At
<1>2. Depth \in Nat /\ DOMAIN stack = 1..Depth
  BY <1>1, TopIsRun
<1>3. /\ runs \in 0..MaxRuns /\ made \in 0..MaxSessions /\ attempts \in [Sessions -> Nat]
      /\ stack \in Seq(Run)
  BY DEF DelegationTypeOK
<1>4. CASE Depth = 1
  <2>1. stack' = <<>>
    BY <1>4 DEF Return
  <2>2. stack' \in Seq(Run) /\ DOMAIN stack' = {}
    BY <2>1
  <2> QED BY <1>1, <1>3, <2>2 DEF RunStepOK, Nested, RunsAreSound, AttemptsAreFew
<1>5. CASE Depth # 1
  <2> DEFINE n == Depth - 1
             caller == stack[n]
             place == IF caller.done THEN "end" ELSE "turn"
             run == [caller EXCEPT !.pc = place]
             rest == Front(stack)
  <2>1. n \in Nat /\ n \in 1..Depth /\ n < Depth
    BY <1>1, <1>2, <1>5
  <2>2. stack' = [rest EXCEPT ![n].pc = place]
    BY <1>5 DEF Return
  <2>3. rest = SubSeq(stack, 1, n)
    BY DEF Front, Depth
  <2>4. /\ rest \in Seq(Run) /\ Len(rest) = n
        /\ \A i \in 1..n : rest[i] = stack[i]
    <3>1. \A i \in 1..n : stack[i] \in Run
      BY <1>2, <1>3, <2>1
    <3> HIDE DEF n, rest
    <3> QED BY <2>1, <2>3, <3>1
  <2>5. caller \in Run /\ Sound(caller, attempts[caller.session])
    BY <1>2, <1>3, <2>1 DEF RunsAreSound
  <2>6. /\ run \in Run /\ run.pc = place /\ run.done = caller.done
        /\ run.mistakes = caller.mistakes
        /\ run.session = caller.session
    BY <2>5 DEF Run, RunPCs
  <2>7. Sound(run, attempts[run.session])
    <3> HIDE DEF run, caller
    <3> QED BY <2>5, <2>6 DEF Sound
  <2>8. stack' = [rest EXCEPT ![n] = run]
    <3>1. stack' = [rest EXCEPT ![n] = [rest[n] EXCEPT !.pc = place]]
      BY <2>2
    <3>2. rest[n] = caller
      BY <2>1, <2>4
    <3> HIDE DEF rest, n, caller, place
    <3> QED BY <3>1, <3>2
  <2> HIDE DEF run, caller, rest, n
  <2>9. /\ stack' \in Seq(Run) /\ DOMAIN stack' = 1..n /\ stack'[n] = run
        /\ \A i \in 1..n : i # n => stack'[i] = stack[i]
    BY <2>1, <2>4, <2>6, <2>8
  <2>10. 1..n \subseteq DOMAIN stack
    BY <1>2, <2>1
  <2>11. \A i \in 1..n : stack'[i].session = stack[i].session
    BY <2>6, <2>9 DEF caller
  <2>12. Nested'
    BY <1>1, <2>9, <2>10, <2>11 DEF Nested
  <2>13. RunsAreSound'
    BY <1>1, <2>7, <2>9, <2>10 DEF RunsAreSound
  <2> QED BY <1>1, <1>3, <2>9, <2>12, <2>13 DEF RunStepOK, AttemptsAreFew
<1> QED BY <1>4, <1>5

\* A context that is done changes nothing but that.
LEMMA CancelOK ==
  ASSUME DelegationTypeOK, Nested, RunsAreSound, AttemptsAreFew, NEW n \in Nat, CancelFrom(n),
         UNCHANGED runVars \/ UNCHANGED <<runs, made, attempts>>
  PROVE  RunStepOK
<1> DEFINE cancel(i) == IF i >= n THEN [stack[i] EXCEPT !.cancelled = TRUE] ELSE stack[i]
<1>1. stack' = [i \in DOMAIN stack |-> cancel(i)] /\ UNCHANGED <<runs, made, attempts>>
  BY DEF CancelFrom, runVars
<1>2. /\ runs \in 0..MaxRuns /\ made \in 0..MaxSessions /\ attempts \in [Sessions -> Nat]
      /\ stack \in Seq(Run)
  BY DEF DelegationTypeOK
<1>3. ASSUME NEW i \in DOMAIN stack
      PROVE  /\ cancel(i) \in Run /\ cancel(i).session = stack[i].session
             /\ cancel(i).pc = stack[i].pc
             /\ cancel(i).done = stack[i].done /\ cancel(i).mistakes = stack[i].mistakes
  <2>1. stack[i] \in Run
    BY <1>2
  <2> QED BY <2>1 DEF Run
<1> HIDE DEF cancel
<1>4. DOMAIN stack = 1..Len(stack) /\ Len(stack) \in Nat
  BY <1>2
<1>5. /\ stack' \in Seq(Run) /\ DOMAIN stack' = DOMAIN stack
      /\ \A i \in DOMAIN stack : stack'[i] = cancel(i)
  BY <1>1, <1>3, <1>4
<1>6. Nested'
  BY <1>1, <1>3, <1>5 DEF Nested
<1>7. RunsAreSound'
  BY <1>1, <1>3, <1>5 DEF RunsAreSound, Sound
<1> QED BY <1>1, <1>2, <1>5, <1>6, <1>7 DEF RunStepOK, AttemptsAreFew

\* Every step of a run, or of the world around it.
LEMMA RunsStep ==
  ASSUME DelegationTypeOK, Nested, RunsAreSound, AttemptsAreFew, DelegationNext
  PROVE  RunStepOK
<1>1. CASE UNCHANGED runVars
  BY <1>1 DEF runVars, RunStepOK, DelegationTypeOK, Nested, RunsAreSound, AttemptsAreFew
<1>2. CASE RunStep
  BY <1>2, HookCounts, RunGoesOn, CallOK, ReturnOK DEF RunStep
<1>3. ASSUME NEW i \in DOMAIN stack, CallTimesOut(i) PROVE RunStepOK
  <2>1. i + 1 \in Nat
    <3>1. stack \in Seq(Run)
      BY DEF DelegationTypeOK
    <3>2. Len(stack) \in Nat /\ DOMAIN stack = 1..Len(stack)
      BY <3>1
    <3>3. i \in Nat
      BY <3>2
    <3> QED BY <3>3
  <2> QED BY <1>3, <2>1, CancelOK DEF CallTimesOut
<1>4. CASE InterruptRuns
  BY <1>4, CancelOK DEF InterruptRuns
<1> QED BY <1>1, <1>2, <1>3, <1>4, RequestOK DEF DelegationNext

\* What the steps of runs do to what is kept in memory.
LEMMA RunsUseMemory ==
  ASSUME DelegationTypeOK, MessagesAreTimed, DelegationNext
  PROVE  MemoryTypeOK' /\ MessagesAreTimed'
<1>1. MemoryTypeOK
  BY DEF DelegationTypeOK
<1>2. ASSUME UNCHANGED <<now, files>>,
             UNCHANGED messageVars \/ (MessageTypes' /\ MessagesAreTimed'),
             UNCHANGED todoVars \/ TodoTypes'
      PROVE  MemoryTypeOK' /\ MessagesAreTimed'
  <2>1. MessageTypes' /\ MessagesAreTimed'
    <3>1. CASE UNCHANGED messageVars
      BY <1>1, <1>2, <3>1
         DEF MemoryTypeOK, MessageTypes, MessagesAreTimed, messageVars
    <3> QED BY <1>2, <3>1
  <2>2. TodoTypes'
    <3>1. CASE UNCHANGED todoVars
      BY <1>1, <3>1 DEF MemoryTypeOK, TodoTypes, todoVars
    <3> QED BY <1>2, <3>1
  <2> QED BY <1>1, <1>2, <2>1, <2>2 DEF MemoryTypeOK, MessageTypes, TodoTypes
<1>3. ASSUME Depth > 0 PROVE Top \in Run /\ Top.session \in Sessions
  BY <1>3, TopIsRun
<1>4. CASE Cached
  <2>1. Depth > 0 /\ Get(Top.session) /\ UNCHANGED <<now, files, todoVars>>
    BY <1>4 DEF Cached, At
  <2>2. MessageTypes' /\ MessagesAreTimed'
    BY <1>1, <1>3, <2>1, MessageIsUsed
  <2> QED BY <1>2, <2>1, <2>2
<1>5. CASE PutMessage
  <2>1. /\ Depth > 0 /\ UNCHANGED <<now, files, todoVars>>
        /\ Put(Root, Top.text) \/ UNCHANGED messageVars
    BY <1>5 DEF PutMessage, At
  <2>2. Top.text \in 0..MaxEdits
    BY <1>3, <2>1 DEF Run
  <2>3. UNCHANGED messageVars \/ (MessageTypes' /\ MessagesAreTimed')
    BY <1>1, <2>1, <2>2, MessageIsUsed, Bounds
  <2> QED BY <1>2, <2>1, <2>3
<1>6. ASSUME Depth > 0, NEW s \in Sessions, UNCHANGED <<now, files, messageVars>>,
             \/ List(s) \/ Forget(s) \/ \E n \in Nat : Add(s, n)
             \/ \E id \in Nat, st \in Status : Update(s, id, st)
      PROVE  MemoryTypeOK' /\ MessagesAreTimed'
  BY <1>1, <1>2, <1>6, TodosStay
<1>7. CASE ListForHook \/ ListTodos
  BY <1>3, <1>6, <1>7 DEF ListForHook, ListTodos, At
<1>8. CASE CreateTodos
  <2>1. /\ Depth > 0 /\ UNCHANGED <<now, files, messageVars>>
        /\ \E n \in 1..MaxItems - Len(todos[Top.session]) : Add(Top.session, n)
    BY <1>8 DEF CreateTodos, At
  <2>2. \E n \in Nat : Add(Top.session, n)
    BY <2>1
  <2> QED BY <1>3, <1>6, <2>1, <2>2
<1>9. CASE UpdateTodo
  <2>1. /\ Depth > 0 /\ UNCHANGED <<now, files, messageVars>>
        /\ \E id \in Nat, st \in Status : Update(Top.session, id, st)
    BY <1>9 DEF UpdateTodo, At
  <2> QED BY <1>3, <1>6, <2>1
<1>10. CASE Return
  <2>1. /\ Depth > 0 /\ UNCHANGED <<now, files, messageVars>>
        /\ UNCHANGED todoVars \/ Forget(Top.session)
    BY <1>10 DEF Return, At
  <2> QED BY <1>2, <1>3, <1>6, <2>1
<1>11. CASE UNCHANGED memoryVars
  BY <1>2, <1>11 DEF memoryVars
<1>12. CASE Timers \/ EditFiles \/ Tick
  BY <1>1, <1>12, MemoryStep
<1> QED BY <1>4, <1>5, <1>7, <1>8, <1>9, <1>10, <1>11, <1>12
    DEF DelegationNext, RunStep, Request, NotCached, Assemble, ChatFails, Complete, Quit,
        Accept, GiveUp, Caution, OtherCalls, ToolHangs, CallAgent, CallTimesOut, InterruptRuns

-----------------------------------------------------------------------------
(***************************************************************************)
(* Theorems                                                                *)
(***************************************************************************)

\* The invariant holds at the start,
LEMMA InitDelegation == DelegationInit => DelegationInv
<1> SUFFICES ASSUME DelegationInit PROVE DelegationInv
  OBVIOUS
<1> USE MemoryAssumption, DelegationAssumption
<1>1. 0 \in Times /\ Times \subseteq Nat /\ {} \subseteq Times
  BY DEF Times
<1>2. MemoryTypeOK
  <2>1. <<>> \in Seq(Nat) /\ <<>> \in Seq(Status)
    OBVIOUS
  <2> QED BY <1>1, <2>1 DEF DelegationInit, MemoryInit, MemoryTypeOK
<1>3. /\ stack = <<>> /\ stack \in Seq(Run) /\ DOMAIN stack = {}
      /\ runs \in 0..MaxRuns /\ made \in 0..MaxSessions
  BY DEF DelegationInit
<1>4. /\ attempts \in [Sessions -> Nat] /\ \A s \in Sessions : attempts[s] = 0
      /\ \A s \in Sessions : messages[s] = Nil
  BY DEF DelegationInit, MemoryInit
<1>5. DelegationTypeOK
  BY <1>2, <1>3, <1>4 DEF DelegationTypeOK
<1>6. AttemptsAreFew
  BY <1>4 DEF AttemptsAreFew
<1> QED BY <1>3, <1>4, <1>5, <1>6 DEF DelegationInv, Nested, RunsAreSound, MessagesAreTimed

\* every step keeps it,
LEMMA StepDelegation == DelegationInv /\ [DelegationNext]_delegationVars => DelegationInv'
<1> SUFFICES ASSUME DelegationInv, [DelegationNext]_delegationVars PROVE DelegationInv'
  OBVIOUS
<1>1. CASE DelegationNext
  <2>1. RunStepOK
    BY <1>1, RunsStep DEF DelegationInv
  <2>2. MemoryTypeOK' /\ MessagesAreTimed'
    BY <1>1, RunsUseMemory DEF DelegationInv
  <2> QED BY <2>1, <2>2 DEF DelegationInv, DelegationTypeOK, RunStepOK
<1>2. CASE UNCHANGED delegationVars
  <2> USE <1>2 DEF delegationVars, memoryVars, messageVars, todoVars, runVars
  <2>1. DelegationTypeOK'
    BY DEF DelegationInv, DelegationTypeOK, MemoryTypeOK
  <2>2. Nested' /\ RunsAreSound' /\ AttemptsAreFew' /\ MessagesAreTimed'
    BY DEF DelegationInv, Nested, RunsAreSound, AttemptsAreFew, MessagesAreTimed
  <2> QED BY <2>1, <2>2 DEF DelegationInv
<1> QED BY <1>1, <1>2

\* and so it holds always.
LEMMA DelegationHolds == DelegationSpec => []DelegationInv
BY InitDelegation, StepDelegation, PTL DEF DelegationSpec

\* The runs and what is kept of their sessions keep their types.
THEOREM DelegationTypes == DelegationSpec => []DelegationTypeOK
<1>1. DelegationInv => DelegationTypeOK
  BY DEF DelegationInv
<1> QED BY <1>1, DelegationHolds, PTL

\* The hook gives up before the loop does.
THEOREM HookGivesUpFirst == DelegationSpec => []CautionsAreCounted
<1>1. ASSUME DelegationInv PROVE CautionsAreCounted
  <2>1. ASSUME NEW i \in DOMAIN stack PROVE attempts[stack[i].session] <= MaxAttempts
    <3>1. stack[i] \in Run
      BY <1>1 DEF DelegationInv, DelegationTypeOK
    <3>2. stack[i].session \in Sessions
      BY <3>1 DEF Run
    <3> QED BY <1>1, <3>2 DEF DelegationInv, AttemptsAreFew
  <2> QED BY <1>1, <2>1 DEF DelegationInv, RunsAreSound, Sound, CautionsAreCounted
<1> QED BY <1>1, DelegationHolds, PTL

\* A message that is handed out is of the files as they are, or was used a short time ago.
THEOREM StaleIsRecent == DelegationSpec => StaleOnlyWhileUsed
<1>1. ASSUME DelegationInv, Cached
      PROVE  messages[Top.session] = files \/ now <= used[Top.session] + MessageTTL
  <2>1. messages[Top.session] # Nil /\ Depth > 0
    BY <1>1 DEF Cached, At, Get, Hit
  <2>2. Top.session \in Sessions
    BY <1>1, <2>1, TopIsRun DEF DelegationInv
  <2> QED BY <1>1, <2>1, <2>2 DEF DelegationInv, MessagesAreTimed
<1>2. DelegationInv /\ [DelegationNext]_delegationVars
      => [Cached => \/ messages[Top.session] = files
                         \/ now <= used[Top.session] + MessageTTL]_delegationVars
  BY <1>1
<1> QED BY <1>2, DelegationHolds, PTL DEF DelegationSpec, StaleOnlyWhileUsed

=============================================================================
