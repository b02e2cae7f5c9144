---------------------------- MODULE ServiceProofs ----------------------------
(***************************************************************************)
(* Theorems about the parts a service of the runtime is made of: the       *)
(* lifecycle of the application, its scheduled jobs, its in-memory broker, *)
(* its commands, the ring of its spans and the stream of them, and its     *)
(* workers on a Redis stream; for any number of services, jobs, workers,   *)
(* sinks, recorders, clients and consumers.                                *)
(***************************************************************************)
EXTENDS Lifecycle, Schedule, MemBroker, CommandEvents, TraceCollector, RedisStream,
        FiniteSetTheorems, TLAPS

-----------------------------------------------------------------------------
(* Lifecycle.                                                              *)

\* Serve returns ErrServerClosed only after Shutdown was called, serverDone is
\* filled by the end of the server, and the server starts after the services.
ServerOutcome ==
  /\ lifePc \in {"mount", "starting", "parked", "shutdown"} => lifeServerDone # "nil"
  /\ lifeServerDone # "empty" => lifeServer = "ended"
  /\ lifePc = "mount" => lifeServer = "idle"

Left == {"shutdown", "stopping", "waitServer", "waitServices", "returned"}

\* With no error so far it was the signal that ended the select, and what was
\* waited for has come to its end.
NoErrorSoFar ==
  lifeResult = {} =>
    /\ lifePc \in Left => lifeSignal /\ ~lifeConsumed
    /\ lifePc \in {"waitServices", "returned"} => lifeServer = "ended"
    /\ lifePc = "returned" => lifeClosed

\* servicesDone is closed after the last service.
ClosedLast ==
  lifeClosed => lifePc # "mount" /\ \A s \in Services : lifeService[s] # "running"

LifeInv == LifeTypeOK /\ ServerOutcome /\ NoErrorSoFar /\ ClosedLast

\* Every step keeps the invariant.
LEMMA LifeInvStep == LifeInv /\ [LifeNext]_lifeVars => LifeInv'
<1> SUFFICES ASSUME LifeInv, [LifeNext]_lifeVars PROVE LifeInv'
  OBVIOUS
<1>t. LifeTypeOK /\ ServerOutcome /\ NoErrorSoFar /\ ClosedLast
  BY DEF LifeInv
<1>n. /\ LifeServices \in Nat /\ lifeMounted \in Nat /\ lifeMounted <= LifeServices
      /\ lifeSignal \in BOOLEAN /\ lifeCanceled \in BOOLEAN /\ lifeError \in BOOLEAN
      /\ lifeConsumed \in BOOLEAN /\ lifeClosed \in BOOLEAN
  BY <1>t, LifeAssumption DEF LifeTypeOK
<1>1. CASE UNCHANGED lifeVars
  BY <1>1, <1>t DEF lifeVars, LifeInv, LifeTypeOK, ServerOutcome, NoErrorSoFar, ClosedLast
<1>2. CASE Mount
  <2>1. lifeMounted' \in 0 .. LifeServices
    BY <1>2, <1>n DEF Mount
  <2>2. LifeTypeOK'
    BY <1>2, <2>1, <1>t DEF Mount, LifeTypeOK
  <2> QED BY <1>2, <2>2, <1>t DEF Mount, LifeInv, ServerOutcome, NoErrorSoFar, ClosedLast, Left
<1>3. CASE StartAll
  <2>1. LifeTypeOK'
    BY <1>3, <1>t DEF StartAll, LifeTypeOK
  <2> QED BY <1>3, <2>1, <1>t DEF StartAll, LifeInv, ServerOutcome, NoErrorSoFar, ClosedLast, Left
<1>4. CASE ReachSelect
  <2>f. UNCHANGED <<lifeMounted, lifeSignal, lifeService, lifeServer, lifeClosed>>
        /\ lifePc = "starting"
    BY <1>4 DEF ReachSelect
  <2>1. CASE lifeSignal /\ Leaves({}, FALSE) /\ UNCHANGED <<lifeError, lifeServerDone>>
    <3>1. LifeTypeOK'
      BY <2>1, <2>f, <1>t DEF Leaves, LifeTypeOK
    <3> QED BY <2>1, <3>1, <2>f, <1>t
            DEF Leaves, LifeInv, ServerOutcome, NoErrorSoFar, ClosedLast, Left
  <2>2. CASE /\ lifeServerDone # "empty"
             /\ Leaves(ServerErrors(lifeServerDone), TRUE)
             /\ lifeServerDone' = "empty"
             /\ UNCHANGED lifeError
    <3>1. ServerErrors(lifeServerDone) = {"server"}
      BY <2>2, <2>f, <1>t DEF ServerErrors, ServerOutcome, LifeTypeOK
    <3>2. LifeTypeOK'
      BY <2>2, <2>f, <3>1, <1>t DEF Leaves, LifeTypeOK
    <3> QED BY <2>2, <3>1, <3>2, <2>f, <1>t
            DEF Leaves, LifeInv, ServerOutcome, NoErrorSoFar, ClosedLast, Left
  <2>3. CASE lifeError /\ Leaves({"service"}, FALSE) /\ lifeError' = FALSE /\ UNCHANGED lifeServerDone
    <3>1. LifeTypeOK'
      BY <2>3, <2>f, <1>t DEF Leaves, LifeTypeOK
    <3> QED BY <2>3, <3>1, <2>f, <1>t
            DEF Leaves, LifeInv, ServerOutcome, NoErrorSoFar, ClosedLast, Left
  <2>4. CASE /\ lifePc' = "parked"
             /\ UNCHANGED <<lifeCanceled, lifeConsumed, lifeResult, lifeError, lifeServerDone>>
    <3>1. LifeTypeOK'
      BY <2>4, <2>f, <1>t DEF LifeTypeOK
    <3> QED BY <2>4, <3>1, <2>f, <1>t
            DEF LifeInv, ServerOutcome, NoErrorSoFar, ClosedLast, Left
  <2> QED BY <1>4, <2>1, <2>2, <2>3, <2>4 DEF ReachSelect
<1>5. CASE ShutdownBegins
  <2>1. LifeTypeOK'
    BY <1>5, <1>t DEF ShutdownBegins, LifeTypeOK
  <2> QED BY <1>5, <2>1, <1>t
          DEF ShutdownBegins, LifeInv, ServerOutcome, NoErrorSoFar, ClosedLast, Left
<1>6. CASE ShutdownReturns
  <2>1. LifeTypeOK'
    BY <1>6, <1>t DEF ShutdownReturns, LifeTypeOK
  <2> QED BY <1>6, <2>1, <1>t
          DEF ShutdownReturns, LifeInv, ServerOutcome, NoErrorSoFar, ClosedLast, Left
<1>7. CASE WaitForServer
  <2>1. LifeTypeOK'
    BY <1>7, <1>t DEF WaitForServer, LifeTypeOK, ServerErrors
  <2> QED BY <1>7, <2>1, <1>t
          DEF WaitForServer, ServerErrors, LifeInv, ServerOutcome, NoErrorSoFar, ClosedLast, Left
<1>8. CASE WaitForServices
  <2>1. LifeTypeOK'
    BY <1>8, <1>t DEF WaitForServices, LifeTypeOK
  <2> QED BY <1>8, <2>1, <1>t
          DEF WaitForServices, LifeInv, ServerOutcome, NoErrorSoFar, ClosedLast, Left
<1>9. CASE Signal
  <2>1. LifeTypeOK'
    BY <1>9, <1>t DEF Signal, Leaves, LifeTypeOK
  <2> QED BY <1>9, <2>1, <1>t
          DEF Signal, Leaves, LifeInv, ServerOutcome, NoErrorSoFar, ClosedLast, Left
<1>10. CASE ServicesDone
  <2>1. LifeTypeOK'
    BY <1>10, <1>t DEF ServicesDone, LifeTypeOK
  <2> QED BY <1>10, <2>1, <1>t
          DEF ServicesDone, LifeInv, ServerOutcome, NoErrorSoFar, ClosedLast, Left
<1>11. CASE ServerEnds
  <2>1. CASE lifePc = "parked"
    <3>1. Leaves({"server"}, TRUE) /\ UNCHANGED lifeServerDone
      BY <1>11, <2>1 DEF ServerEnds, ServerErrors
    <3>2. LifeTypeOK'
      BY <1>11, <3>1, <1>t DEF ServerEnds, Leaves, LifeTypeOK
    <3> QED BY <1>11, <2>1, <3>1, <3>2, <1>t
            DEF ServerEnds, Leaves, LifeInv, ServerOutcome, NoErrorSoFar, ClosedLast, Left
  <2>2. CASE lifePc # "parked"
    <3>1. LifeTypeOK'
      BY <1>11, <2>2, <1>t DEF ServerEnds, LifeTypeOK
    <3> QED BY <1>11, <2>2, <3>1, <1>t
            DEF ServerEnds, LifeInv, ServerOutcome, NoErrorSoFar, ClosedLast, Left
  <2> QED BY <2>1, <2>2
<1>12. ASSUME NEW s \in Services, ServiceEnds(s) PROVE LifeInv'
  <2>1. PICK outcome \in {"ok", "failed", "stopped"} :
          /\ lifeService' = [lifeService EXCEPT ![s] = outcome]
          /\ IF outcome = "failed" THEN SendError
             ELSE UNCHANGED <<lifePc, lifeCanceled, lifeConsumed, lifeResult, lifeError>>
    BY <1>12 DEF ServiceEnds
  <2>f. UNCHANGED <<lifeMounted, lifeSignal, lifeServer, lifeServerDone, lifeClosed>>
    BY <1>12 DEF ServiceEnds
  <2>2. /\ lifeService' \in [Services -> {"idle", "running", "ok", "stopped", "failed"}]
        /\ \A r \in Services : lifeService'[r] = "running" => lifeService[r] = "running"
    BY <2>1, <1>t DEF LifeTypeOK
  <2>3. LifeTypeOK'
    BY <2>1, <2>2, <2>f, <1>t DEF LifeTypeOK, SendError, Leaves
  <2> QED BY <2>1, <2>2, <2>3, <2>f, <1>t
          DEF SendError, Leaves, LifeInv, ServerOutcome, NoErrorSoFar, ClosedLast, Left
<1> QED BY <1>1, <1>2, <1>3, <1>4, <1>5, <1>6, <1>7, <1>8, <1>9, <1>10, <1>11, <1>12
        DEF LifeNext, LifeRun

\* The invariant holds in every reachable state.
THEOREM LifeInvariant == LifeSpec => []LifeInv
<1>1. LifeInit => LifeInv
  <2> SUFFICES ASSUME LifeInit PROVE LifeInv
    OBVIOUS
  <2>1. 0 \in 0 .. LifeServices
    BY LifeAssumption
  <2>2. LifeTypeOK
    BY <2>1 DEF LifeInit, LifeTypeOK
  <2> QED BY <2>2 DEF LifeInit, LifeInv, ServerOutcome, NoErrorSoFar, ClosedLast, Left
<1> QED BY <1>1, LifeInvStep, PTL DEF LifeSpec

\* Run returns nil only after a signal, with the server and every service at
\* their end, for any number of services and whatever raced with the signal.
THEOREM ReturnsAreClean == LifeSpec => []CleanReturn
<1>1. LifeInv => CleanReturn
  BY DEF LifeInv, NoErrorSoFar, ClosedLast, CleanReturn, Left
<1> QED BY <1>1, LifeInvariant, PTL

-----------------------------------------------------------------------------
(* The in-memory broker.                                                   *)

\* What a worker is about to acknowledge was handled.
MemHandledBeforeAck == \A w \in MemWorkers : memPc[w] = "ack" => memTaken[w] \subseteq memHandled

MemInv == MemTypeOK /\ MemHandledBeforeAck /\ MemNothingLost

\* Every step keeps the invariant.
LEMMA MemInvStep == MemInv /\ [MemNext]_memVars => MemInv'
<1> SUFFICES ASSUME MemInv, [MemNext]_memVars PROVE MemInv'
  OBVIOUS
<1>t. MemTypeOK /\ MemHandledBeforeAck /\ MemNothingLost
  BY DEF MemInv
<1>n. memNextID \in Nat /\ MaxMemRecords \in Nat /\ memFaults \in Nat /\ MaxMemFaults \in Nat
  BY <1>t, MemAssumption DEF MemTypeOK
<1>1. CASE UNCHANGED memVars
  BY <1>1, <1>t DEF memVars, MemInv, MemTypeOK, MemHandledBeforeAck, MemNothingLost
<1>2. CASE MemPublish
  <2>1. PICK n \in 1 .. MaxMemRecords - memNextID :
          /\ memRecords' = memRecords \cup (memNextID + 1 .. memNextID + n)
          /\ memNextID' = memNextID + n
    BY <1>2 DEF MemPublish
  <2>2. /\ memNextID' \in 0 .. MaxMemRecords
        /\ 1 .. memNextID' = (1 .. memNextID) \cup (memNextID + 1 .. memNextID + n)
    BY <2>1, <1>n
  <2>3. UNCHANGED <<memPc, memTaken, memHandled, memFaults>>
    BY <1>2 DEF MemPublish
  <2>4. MemTypeOK'
    BY <2>1, <2>2, <2>3, <1>t DEF MemTypeOK
  <2> QED BY <2>1, <2>2, <2>3, <2>4, <1>t DEF MemInv, MemHandledBeforeAck, MemNothingLost
<1>3. ASSUME NEW w \in MemWorkers, MemReceive(w) PROVE MemInv'
  <2>1. HeadOf(MemBatch) \subseteq memRecords
    BY DEF HeadOf
  <2>2. MemTypeOK'
    BY <1>3, <2>1, <1>t DEF MemReceive, MemTypeOK
  <2> QED BY <1>3, <2>2, <1>t DEF MemReceive, MemTypeOK, MemInv, MemHandledBeforeAck, MemNothingLost
<1>4. ASSUME NEW w \in MemWorkers, MemDispatch(w) PROVE MemInv'
  <2>1. MemTypeOK'
    BY <1>4, <1>t DEF MemDispatch, MemTypeOK
  <2> QED BY <1>4, <2>1, <1>t DEF MemDispatch, MemTypeOK, MemInv, MemHandledBeforeAck, MemNothingLost
<1>5. ASSUME NEW w \in MemWorkers, MemDispatchFails(w) PROVE MemInv'
  <2>1. PICK failing \in memTaken[w] :
          memHandled' = memHandled \cup {e \in memTaken[w] : e < failing}
    BY <1>5 DEF MemDispatchFails
  <2>2. memFaults' \in 0 .. MaxMemFaults
    BY <1>5, <1>n DEF MemDispatchFails
  <2>3. MemTypeOK'
    BY <1>5, <2>1, <2>2, <1>t DEF MemDispatchFails, MemTypeOK
  <2>4. memHandled \subseteq memHandled' /\ memHandled' \subseteq 1 .. memNextID
    BY <2>1, <1>t DEF MemTypeOK
  <2> QED BY <1>5, <2>3, <2>4, <1>t
          DEF MemDispatchFails, MemTypeOK, MemInv, MemHandledBeforeAck, MemNothingLost
<1>6. ASSUME NEW w \in MemWorkers, MemAck(w) PROVE MemInv'
  <2>1. MemTypeOK'
    BY <1>6, <1>t DEF MemAck, Kept, MemTypeOK
  <2> QED BY <1>6, <2>1, <1>t DEF MemAck, Kept, MemTypeOK, MemInv, MemHandledBeforeAck, MemNothingLost
<1>7. ASSUME NEW w \in MemWorkers, MemRunAgain(w) PROVE MemInv'
  <2>1. MemTypeOK'
    BY <1>7, <1>t DEF MemRunAgain, MemTypeOK
  <2> QED BY <1>7, <2>1, <1>t DEF MemRunAgain, MemTypeOK, MemInv, MemHandledBeforeAck, MemNothingLost
<1> QED BY <1>1, <1>2, <1>3, <1>4, <1>5, <1>6, <1>7 DEF MemNext

\* The invariant holds in every reachable state.
THEOREM MemInvariant == MemSpec => []MemInv
<1>1. MemInit => MemInv
  <2> SUFFICES ASSUME MemInit PROVE MemInv
    OBVIOUS
  <2>1. 0 \in 0 .. MaxMemRecords /\ 0 \in 0 .. MaxMemFaults /\ 1 .. 0 = {}
    BY MemAssumption
  <2> QED BY <2>1 DEF MemInit, MemInv, MemTypeOK, MemHandledBeforeAck, MemNothingLost
<1> QED BY <1>1, MemInvStep, PTL DEF MemSpec

\* Every event that was published is queued or was handled by every subscriber,
\* for any number of workers that hold the same records.
THEOREM MemLosesNothing == MemSpec => []MemNothingLost
<1>1. MemInv => MemNothingLost
  BY DEF MemInv
<1> QED BY <1>1, MemInvariant, PTL

\* A dispatch, complete or cut short by a failing subscriber, is the promise's
\* Handle.
LEMMA MemDispatchHandles ==
  ASSUME MemTypeOK, NEW H \in SUBSET (1 .. memNextID), memHandled' = memHandled \cup H,
         UNCHANGED <<memNextID, memRecords>>
  PROVE  MemPromise!Next
<1>n. /\ memNextID \in Nat /\ MaxMemRecords \in Nat /\ memNextID <= MaxMemRecords
  BY MemAssumption DEF MemTypeOK
<1>1. H \subseteq MemIds /\ \A e \in H : ~(e > memNextID)
  BY <1>n DEF MemIds
<1>2. MemPromise!Handle(H, "all")
  <2>1. \A e \in H : \E r \in MemIds : [x \in MemIds |-> IF x > memNextID THEN 0 ELSE x][r] = e
    BY <1>1
  <2>2. \A r \in MemIds : MemStatus(r)' = MemStatus(r)
    BY DEF MemStatus
  <2>3. [r \in MemIds |-> MemStatus(r)]' = [r \in MemIds |-> MemStatus(r)]
    BY <2>2 DEF MemIds
  <2> QED BY <1>1, <2>1, <2>3 DEF MemPromise!Handle, MemIds
<1> QED BY <1>1, <1>2 DEF MemPromise!Next

\* PublishEvents stores new records.
LEMMA MemPublishStores == MemTypeOK /\ MemPublish => MemPromise!Next
<1> SUFFICES ASSUME MemTypeOK, MemPublish PROVE MemPromise!Next
  OBVIOUS
<1>n. memNextID \in Nat /\ MaxMemRecords \in Nat
  BY MemAssumption DEF MemTypeOK
<1>1. PICK n \in 1 .. MaxMemRecords - memNextID :
         /\ memRecords' = memRecords \cup (memNextID + 1 .. memNextID + n)
         /\ memNextID' = memNextID + n
  BY DEF MemPublish
<1>2. memNextID' \in Nat /\ memNextID < memNextID' /\ memNextID' <= MaxMemRecords
  BY <1>n, <1>1
<1>s. PICK S \in SUBSET MemIds : S = memNextID + 1 .. memNextID'
  BY <1>n, <1>2 DEF MemIds
<1>3. memRecords' = memRecords \cup S /\ UNCHANGED memHandled
  BY <1>1, <1>s DEF MemPublish
<1>4. \A r \in MemIds : (r \in S <=> r > memNextID /\ ~(r > memNextID')) /\ (r > memNextID' => r > memNextID)
  BY <1>n, <1>2, <1>s DEF MemIds
<1>5. \A r \in MemIds : MemStatus(r)' = IF r \in S THEN "pending" ELSE MemStatus(r)
  BY <1>3, <1>4 DEF MemStatus
<1>6. MemPromise!Store(S)
  <2>1. \A r \in S : MemStatus(r) = "absent"
    BY <1>3, <1>4 DEF MemStatus
  <2>2. \A r \in MemIds :
          IF r \in S THEN (IF r > memNextID' THEN 0 ELSE r) \in MemIds
            ELSE (IF r > memNextID' THEN 0 ELSE r) = IF r > memNextID THEN 0 ELSE r
    BY <1>4
  <2> QED BY <1>3, <1>5, <2>1, <2>2 DEF MemPromise!Store
<1> QED BY <1>6 DEF MemPromise!Next

\* An acknowledgment ends records of the queue that were handled.
LEMMA MemAckEnds ==
  ASSUME MemInv, NEW w \in MemWorkers, MemAck(w)
  PROVE  MemPromise!Next
<1> DEFINE S == memRecords \cap memTaken[w]
<1>n. /\ memNextID \in Nat /\ MaxMemRecords \in Nat /\ memNextID <= MaxMemRecords
  BY MemAssumption DEF MemInv, MemTypeOK
<1>1. /\ memRecords' = memRecords \ S /\ UNCHANGED <<memNextID, memHandled>>
      /\ memTaken[w] \subseteq memHandled
  BY DEF MemAck, Kept, MemInv, MemHandledBeforeAck
<1>2. S \subseteq memRecords /\ S \subseteq memHandled /\ S \subseteq 1 .. memNextID
  BY <1>1 DEF MemInv, MemTypeOK
<1> HIDE DEF S
<1>3. S \subseteq MemIds /\ \A r \in S : ~(r > memNextID)
  BY <1>2, <1>n DEF MemIds
<1>4. \A r \in S : MemStatus(r) = "pending" /\ MemStatus(r)' = "done" /\ r \in memHandled
  BY <1>1, <1>2, <1>3 DEF MemStatus
<1>5. \A r \in MemIds \ S : MemStatus(r)' = MemStatus(r)
  BY <1>1 DEF MemStatus
<1>6. MemPromise!End(S)
  BY <1>1, <1>3, <1>4, <1>5 DEF MemPromise!End
<1> QED BY <1>3, <1>6 DEF MemPromise!Next

\* The queue under the workers' loops implements at-least-once delivery, also
\* when two workers hold the same head of it.
THEOREM BrokerDeliversAtLeastOnce == MemSpec => MemDeliversAtLeastOnce
<1>1. MemInit => MemPromise!Init
  <2> SUFFICES ASSUME MemInit PROVE MemPromise!Init
    OBVIOUS
  <2>1. \A r \in MemIds : r > memNextID
    BY MemAssumption DEF MemInit, MemIds
  <2>2. memHandled = {}
    BY DEF MemInit
  <2>3. \A r \in MemIds : MemStatus(r) = "absent"
    BY <2>1 DEF MemStatus
  <2> QED BY <2>1, <2>2, <2>3 DEF MemPromise!Init
<1>2. MemInv /\ [MemNext]_memVars => [MemPromise!Next]_(MemPromise!promiseVars)
  <2> SUFFICES ASSUME MemInv, [MemNext]_memVars
               PROVE  MemPromise!Next \/ UNCHANGED MemPromise!promiseVars
    OBVIOUS
  <2>t. MemTypeOK
    BY DEF MemInv
  <2>s. UNCHANGED <<memNextID, memRecords, memHandled>> => UNCHANGED MemPromise!promiseVars
    <3> SUFFICES ASSUME UNCHANGED <<memNextID, memRecords, memHandled>>
                 PROVE  UNCHANGED MemPromise!promiseVars
      OBVIOUS
    <3>1. \A r \in MemIds : MemStatus(r)' = MemStatus(r)
      BY DEF MemStatus
    <3>2. [r \in MemIds |-> MemStatus(r)]' = [r \in MemIds |-> MemStatus(r)]
      BY <3>1 DEF MemIds
    <3> QED BY <3>2 DEF MemPromise!promiseVars
  <2>1. CASE UNCHANGED memVars
    BY <2>1, <2>s DEF memVars
  <2>2. CASE MemPublish
    BY <2>2, <2>t, MemPublishStores
  <2>3. ASSUME NEW w \in MemWorkers, MemDispatch(w) PROVE MemPromise!Next
    BY <2>3, <2>t, MemDispatchHandles DEF MemDispatch, MemTypeOK
  <2>4. ASSUME NEW w \in MemWorkers, MemDispatchFails(w) PROVE MemPromise!Next
    <3>1. PICK H \in SUBSET memTaken[w] : memHandled' = memHandled \cup H
      BY <2>4 DEF MemDispatchFails
    <3>2. H \in SUBSET (1 .. memNextID)
      BY <3>1, <2>t DEF MemTypeOK
    <3>3. UNCHANGED <<memNextID, memRecords>>
      BY <2>4 DEF MemDispatchFails
    <3> QED BY <3>1, <3>2, <3>3, <2>t, MemDispatchHandles
  <2>5. ASSUME NEW w \in MemWorkers, MemReceive(w) \/ MemRunAgain(w)
        PROVE  UNCHANGED MemPromise!promiseVars
    BY <2>5, <2>s DEF MemReceive, MemRunAgain
  <2> QED BY <2>1, <2>2, <2>3, <2>4, <2>5, MemAckEnds DEF MemNext
<1> QED BY <1>1, <1>2, MemInvariant, PTL DEF MemSpec, MemDeliversAtLeastOnce, MemPromise!Spec

-----------------------------------------------------------------------------
(* Commands and their sinks.                                               *)

\* Where a call stands: the sinks before the one that is next have all its
\* events, those after it none, and a sink is called once.
CallOrder(c) ==
  /\ cmdPc[c] \in {"none", "handler"} => cmdSink[c] = 0
  /\ cmdPc[c] = "sinks" => cmdSink[c] \in Sinks /\ HasNone(cmdSink[c], c)
  /\ cmdPc[c] = "ok" => cmdSink[c] # 0 /\ \A s \in Sinks : HasAll(s, c)
  /\ \A s \in Sinks : s < cmdSink[c] => HasAll(s, c)
  /\ \A s \in Sinks : s > cmdSink[c] /\ cmdPc[c] # "ok" => HasNone(s, c)

SinkOrder == \A c \in Calls : CallOrder(c)

CmdInv == CmdTypeOK /\ SinkOrder

\* The sink that is next accepts events of a call: nothing else changes, and
\* it then has these events once.
LEMMA AcceptsOnly ==
  ASSUME CmdInv, NEW c \in Calls, cmdPc[c] = "sinks", NEW numbers, Accepts(c, numbers)
  PROVE  /\ cmdGot' \in [Sinks -> [Calls -> [Numbers -> Nat]]]
         /\ \A s \in Sinks, d \in Calls : s # cmdSink[c] \/ d # c => cmdGot'[s][d] = cmdGot[s][d]
         /\ cmdGot'[cmdSink[c]][c] = Once(numbers)
<1> DEFINE k == cmdSink[c]
           new == [n \in Numbers |-> cmdGot[k][c][n] + Once(numbers)[n]]
<1>1. k \in Sinks /\ cmdGot[k][c] = Once({})
  BY DEF CmdInv, SinkOrder, CallOrder, HasNone
<1>2. cmdGot \in [Sinks -> [Calls -> [Numbers -> Nat]]]
  BY DEF CmdInv, CmdTypeOK
<1>3. \A n \in Numbers : cmdGot[k][c][n] = 0
  BY <1>1 DEF Once
<1>4. new = Once(numbers) /\ Once(numbers) \in [Numbers -> Nat]
  BY <1>3 DEF Once
<1>5. cmdGot' = [cmdGot EXCEPT ![k][c] = new]
  BY DEF Accepts
<1> HIDE DEF k, new
<1>6. /\ cmdGot' \in [Sinks -> [Calls -> [Numbers -> Nat]]]
      /\ \A s \in Sinks, d \in Calls : s # k \/ d # c => cmdGot'[s][d] = cmdGot[s][d]
      /\ cmdGot'[k][c] = new
  BY <1>1, <1>2, <1>4, <1>5
<1> QED BY <1>4, <1>6 DEF k

\* Every step keeps the invariant.
LEMMA CmdInvStep == CmdInv /\ [CmdNext]_cmdVars => CmdInv'
<1> SUFFICES ASSUME CmdInv, [CmdNext]_cmdVars PROVE CmdInv'
  OBVIOUS
<1>t. CmdTypeOK /\ SinkOrder
  BY DEF CmdInv
<1>n. Len(CmdSinks) \in Nat /\ MaxCmdEvents \in Nat /\ Sinks = 1 .. Len(CmdSinks)
  BY CmdAssumption DEF Sinks
<1>a. \A c \in Calls : cmdSink[c] \in Nat
  BY <1>t, <1>n DEF CmdTypeOK
<1>1. ASSUME UNCHANGED <<cmdEvents, cmdSink, cmdGot>>,
             cmdPc' \in [Calls -> {"none", "handler", "sinks", "ok", "failed", "dead"}],
             \A c \in Calls : \/ cmdPc'[c] = cmdPc[c]
                              \/ cmdPc[c] # "ok" /\ cmdPc'[c] \in {"failed", "dead"}
                              \/ cmdPc[c] = "none" /\ cmdPc'[c] = "handler"
      PROVE  CmdInv'
  <2>1. CmdTypeOK'
    BY <1>1, <1>t DEF CmdTypeOK
  <2>2. SinkOrder'
    BY <1>1, <1>t DEF SinkOrder, CallOrder, HasAll, HasNone
  <2> QED BY <2>1, <2>2 DEF CmdInv
<1>2. CASE UNCHANGED cmdVars
  BY <1>2, <1>1, <1>t DEF cmdVars, CmdTypeOK
<1>3. CASE CmdCrash
  <2>1. \A c \in Calls : cmdPc'[c] = IF cmdPc[c] \in {"handler", "sinks"} THEN "dead" ELSE cmdPc[c]
    BY <1>3 DEF CmdCrash
  <2>2. cmdPc' \in [Calls -> {"none", "handler", "sinks", "ok", "failed", "dead"}]
    BY <1>3, <1>t DEF CmdCrash, CmdTypeOK
  <2>3. UNCHANGED <<cmdEvents, cmdSink, cmdGot>>
    BY <1>3 DEF CmdCrash
  <2> QED BY <1>1, <2>1, <2>2, <2>3
<1>4. ASSUME NEW c \in Calls, RunCommand(c) \/ HandlerFails(c) PROVE CmdInv'
  <2>1. PICK how \in {"handler", "failed"} :
          /\ cmdPc' = [cmdPc EXCEPT ![c] = how]
          /\ how = "handler" => cmdPc[c] = "none"
          /\ cmdPc[c] # "ok"
    BY <1>4 DEF RunCommand, HandlerFails, Ends
  <2>2. cmdPc' \in [Calls -> {"none", "handler", "sinks", "ok", "failed", "dead"}]
    BY <2>1, <1>t DEF CmdTypeOK
  <2>3. UNCHANGED <<cmdEvents, cmdSink, cmdGot>>
    BY <1>4 DEF RunCommand, HandlerFails
  <2>4. \A d \in Calls : \/ cmdPc'[d] = cmdPc[d]
                         \/ cmdPc[d] # "ok" /\ cmdPc'[d] \in {"failed", "dead"}
                         \/ cmdPc[d] = "none" /\ cmdPc'[d] = "handler"
    BY <2>1, <1>t DEF CmdTypeOK
  <2> QED BY <1>1, <2>2, <2>3, <2>4
<1>5. ASSUME NEW c \in Calls, Emit(c) PROVE CmdInv'
  <2>1. PICK category \in Categories : cmdEvents' = [cmdEvents EXCEPT ![c] = Append(@, category)]
    BY <1>5 DEF Emit
  <2>2. UNCHANGED <<cmdPc, cmdSink, cmdGot>> /\ cmdPc[c] = "handler"
        /\ Len(cmdEvents[c]) < MaxCmdEvents
    BY <1>5 DEF Emit
  <2>3. /\ cmdEvents[c] \in Seq(Categories) /\ Len(cmdEvents[c]) \in Nat
        /\ Append(cmdEvents[c], category) \in Seq(Categories)
        /\ Len(Append(cmdEvents[c], category)) = Len(cmdEvents[c]) + 1
    BY <1>t DEF CmdTypeOK
  <2>4. \A d \in Calls : /\ d # c => cmdEvents'[d] = cmdEvents[d]
                         /\ d = c => cmdEvents'[d] = Append(cmdEvents[c], category)
    BY <2>1, <1>t DEF CmdTypeOK
  <2>5. CmdTypeOK'
    BY <2>1, <2>2, <2>3, <2>4, <1>n, <1>t DEF CmdTypeOK
  <2>6. cmdSink[c] = 0 /\ \A s \in Sinks : HasNone(s, c)
    BY <2>2, <1>t, <1>n DEF SinkOrder, CallOrder
  <2>7. SinkOrder'
    BY <2>2, <2>4, <2>6, <1>n, <1>t DEF SinkOrder, CallOrder, HasAll, HasNone
  <2> QED BY <2>5, <2>7 DEF CmdInv
<1>6. ASSUME NEW c \in Calls, HandlerReturns(c) PROVE CmdInv'
  <2>1. /\ cmdPc[c] = "handler" /\ cmdSink' = [cmdSink EXCEPT ![c] = 1]
        /\ UNCHANGED <<cmdEvents, cmdGot>>
        /\ cmdPc' = [cmdPc EXCEPT ![c] = IF cmdEvents[c] = <<>> \/ CmdSinks = <<>> THEN "ok" ELSE "sinks"]
    BY <1>6 DEF HandlerReturns, Ends
  <2>2. CmdTypeOK'
    BY <2>1, <1>n, <1>t DEF CmdTypeOK
  <2>3. \A s \in Sinks : HasNone(s, c)
    BY <2>1, <1>t, <1>n DEF SinkOrder, CallOrder
  <2>4. cmdEvents[c] = <<>> \/ CmdSinks = <<>> => \A s \in Sinks : HasAll(s, c)
    <3>1. CASE cmdEvents[c] = <<>>
      <4> SUFFICES ASSUME NEW s \in Sinks PROVE HasAll(s, c)
        OBVIOUS
      <4>1. Once(EventsFor(s, cmdEvents[c])) = Once({})
        BY <3>1 DEF EventsFor, Once
      <4> QED BY <4>1, <2>3 DEF HasAll, HasNone
    <3>2. CASE CmdSinks = <<>>
      BY <3>2, <1>n
    <3> QED BY <3>1, <3>2
  <2>5. CmdSinks # <<>> => 1 \in Sinks
    BY <1>n, CmdAssumption
  <2>6. SinkOrder'
    <3> SUFFICES ASSUME NEW d \in Calls PROVE CallOrder(d)'
      BY DEF SinkOrder
    <3>1. CASE d = c
      <4>1. cmdSink'[c] = 1 /\ cmdPc'[c] = IF cmdEvents[c] = <<>> \/ CmdSinks = <<>> THEN "ok" ELSE "sinks"
        BY <2>1, <1>t DEF CmdTypeOK
      <4> QED BY <3>1, <4>1, <2>1, <2>3, <2>4, <2>5, <1>n DEF CallOrder, HasAll, HasNone
    <3>2. CASE d # c
      <4>1. cmdSink'[d] = cmdSink[d] /\ cmdPc'[d] = cmdPc[d]
        BY <3>2, <2>1, <1>t DEF CmdTypeOK
      <4> QED BY <4>1, <2>1, <1>t DEF SinkOrder, CallOrder, HasAll, HasNone
    <3> QED BY <3>1, <3>2
  <2> QED BY <2>2, <2>6 DEF CmdInv
<1>7. ASSUME NEW c \in Calls, SinkAccepts(c) PROVE CmdInv'
  <2>1. /\ cmdPc[c] = "sinks" /\ cmdSink' = [cmdSink EXCEPT ![c] = @ + 1]
        /\ Accepts(c, EventsFor(cmdSink[c], cmdEvents[c]))
        /\ UNCHANGED cmdEvents
        /\ cmdPc' = IF cmdSink[c] = Len(CmdSinks) THEN [cmdPc EXCEPT ![c] = "ok"] ELSE cmdPc
    BY <1>7 DEF SinkAccepts, Ends
  <2>2. /\ cmdGot' \in [Sinks -> [Calls -> [Numbers -> Nat]]]
        /\ \A s \in Sinks, d \in Calls : s # cmdSink[c] \/ d # c => cmdGot'[s][d] = cmdGot[s][d]
        /\ cmdGot'[cmdSink[c]][c] = Once(EventsFor(cmdSink[c], cmdEvents[c]))
    BY <2>1, AcceptsOnly
  <2>3. /\ cmdSink[c] \in Sinks
        /\ \A s \in Sinks : s < cmdSink[c] => HasAll(s, c)
        /\ \A s \in Sinks : s > cmdSink[c] => HasNone(s, c)
    BY <2>1, <1>t DEF SinkOrder, CallOrder
  <2>4. /\ cmdSink'[c] = cmdSink[c] + 1 /\ cmdSink'[c] \in 0 .. Len(CmdSinks) + 1
        /\ \A d \in Calls : d # c => cmdSink'[d] = cmdSink[d] /\ cmdPc'[d] = cmdPc[d]
        /\ cmdPc'[c] = IF cmdSink[c] = Len(CmdSinks) THEN "ok" ELSE "sinks"
    BY <2>1, <2>3, <1>t, <1>n DEF CmdTypeOK
  <2>5. CmdTypeOK'
    BY <2>1, <2>2, <2>4, <1>t DEF CmdTypeOK
  <2>6. SinkOrder'
    <3> SUFFICES ASSUME NEW d \in Calls PROVE CallOrder(d)'
      BY DEF SinkOrder
    <3>1. CASE d = c
      <4>1. ASSUME NEW s \in Sinks, s <= cmdSink[c]
            PROVE cmdGot'[s][c] = Once(EventsFor(s, cmdEvents'[c]))
        <5>1. CASE s = cmdSink[c]
          BY <5>1, <2>1, <2>2
        <5>2. CASE s # cmdSink[c]
          <6>1. s < cmdSink[c]
            BY <4>1, <5>2, <2>3, <1>n
          <6> QED BY <6>1, <5>2, <2>1, <2>2, <2>3 DEF HasAll
        <5> QED BY <5>1, <5>2
      <4>2. ASSUME NEW s \in Sinks, s > cmdSink[c] PROVE cmdGot'[s][c] = Once({})
        <5>1. s # cmdSink[c]
          BY <4>2, <2>3, <1>n
        <5> QED BY <5>1, <4>2, <2>2, <2>3 DEF HasNone
      <4>3. /\ \A s \in Sinks : s < cmdSink'[c] => s <= cmdSink[c]
            /\ \A s \in Sinks : s > cmdSink'[c] => s > cmdSink[c]
            /\ cmdSink[c] = Len(CmdSinks) => \A s \in Sinks : s <= cmdSink[c]
            /\ cmdSink[c] # Len(CmdSinks) => cmdSink'[c] \in Sinks /\ cmdSink'[c] > cmdSink[c]
            /\ cmdSink'[c] # 0
        BY <2>3, <2>4, <1>n
      <4> QED BY <3>1, <4>1, <4>2, <4>3, <2>4 DEF CallOrder, HasAll, HasNone
    <3>2. CASE d # c
      <4>1. /\ \A s \in Sinks : cmdGot'[s][d] = cmdGot[s][d]
            /\ cmdSink'[d] = cmdSink[d] /\ cmdPc'[d] = cmdPc[d] /\ cmdEvents' = cmdEvents
        BY <3>2, <2>1, <2>2, <2>4
      <4> QED BY <4>1, <1>t DEF SinkOrder, CallOrder, HasAll, HasNone
    <3> QED BY <3>1, <3>2
  <2> QED BY <2>5, <2>6 DEF CmdInv
<1>8. ASSUME NEW c \in Calls, SinkFails(c) PROVE CmdInv'
  <2>1. /\ cmdPc[c] = "sinks" /\ UNCHANGED <<cmdEvents, cmdSink>>
        /\ cmdPc' = [cmdPc EXCEPT ![c] = "failed"]
    BY <1>8 DEF SinkFails, Ends
  <2>2. PICK failed : Accepts(c, {n \in EventsFor(cmdSink[c], cmdEvents[c]) : n < failed})
    BY <1>8 DEF SinkFails, Keeps
  <2>3. /\ cmdGot' \in [Sinks -> [Calls -> [Numbers -> Nat]]]
        /\ \A s \in Sinks, d \in Calls : s # cmdSink[c] \/ d # c => cmdGot'[s][d] = cmdGot[s][d]
    BY <2>1, <2>2, AcceptsOnly
  <2>4. /\ cmdPc'[c] = "failed" /\ \A d \in Calls : d # c => cmdPc'[d] = cmdPc[d]
        /\ cmdPc' \in [Calls -> {"none", "handler", "sinks", "ok", "failed", "dead"}]
    BY <2>1, <1>t DEF CmdTypeOK
  <2>5. CmdTypeOK'
    BY <2>1, <2>3, <2>4, <1>t DEF CmdTypeOK
  <2>6. SinkOrder'
    <3> SUFFICES ASSUME NEW d \in Calls PROVE CallOrder(d)'
      BY DEF SinkOrder
    <3>1. CASE d = c
      <4>1. \A s \in Sinks : s < cmdSink[c] \/ s > cmdSink[c] => cmdGot'[s][c] = cmdGot[s][c]
        BY <2>3, <1>a, <1>n
      <4> QED BY <3>1, <4>1, <2>1, <2>4, <1>t DEF SinkOrder, CallOrder, HasAll, HasNone
    <3>2. CASE d # c
      <4>1. /\ \A s \in Sinks : cmdGot'[s][d] = cmdGot[s][d]
            /\ cmdSink' = cmdSink /\ cmdPc'[d] = cmdPc[d] /\ cmdEvents' = cmdEvents
        BY <3>2, <2>1, <2>3, <2>4
      <4> QED BY <4>1, <1>t DEF SinkOrder, CallOrder, HasAll, HasNone
    <3> QED BY <3>1, <3>2
  <2> QED BY <2>5, <2>6 DEF CmdInv
<1> QED BY <1>2, <1>3, <1>4, <1>5, <1>6, <1>7, <1>8 DEF CmdNext

\* The invariant holds in every reachable state.
THEOREM CmdInvariant == CmdSpec => []CmdInv
<1>1. CmdInit => CmdInv
  <2> SUFFICES ASSUME CmdInit PROVE CmdInv
    OBVIOUS
  <2>1. Len(CmdSinks) \in Nat /\ MaxCmdEvents \in Nat /\ Sinks = 1 .. Len(CmdSinks)
    BY CmdAssumption DEF Sinks
  <2>2. CmdTypeOK
    BY <2>1 DEF CmdInit, CmdTypeOK
  <2>3. \A c \in Calls, s \in Sinks : HasNone(s, c)
    BY DEF CmdInit, HasNone, Once
  <2>4. SinkOrder
    BY <2>1, <2>3 DEF CmdInit, SinkOrder, CallOrder
  <2> QED BY <2>2, <2>4 DEF CmdInv
<1> QED BY <1>1, CmdInvStep, PTL DEF CmdSpec

\* What the sinks have agrees with what the caller is told, for any sinks in
\* any order, any number of concurrent commands and events, and a crash at any
\* moment.
THEOREM EffectsAgree == CmdSpec => []CommandEffects
<1>1. CmdInv => CommandEffects
  <2> SUFFICES ASSUME CmdInv, NEW c \in Calls
               PROVE /\ cmdSink[c] = 0 => \A s \in Sinks : HasNone(s, c)
                     /\ cmdPc[c] = "ok" => \A s \in Sinks : HasAll(s, c)
                     /\ \A s, t \in Sinks : s < t /\ ~HasNone(t, c) => HasAll(s, c)
    BY DEF CommandEffects
  <2>1. SinkOrder /\ CmdTypeOK
    BY DEF CmdInv
  <2>2. cmdSink[c] \in Nat /\ \A s \in Sinks : s \in Nat /\ s > 0
    BY <2>1, CmdAssumption DEF CmdTypeOK, Sinks
  <2>3. \A s, t \in Sinks : s < t /\ t <= cmdSink[c] => s < cmdSink[c]
    BY <2>2
  <2>4. \A s, t \in Sinks : s < t /\ ~HasNone(t, c) => HasAll(s, c)
    <3> SUFFICES ASSUME NEW s \in Sinks, NEW t \in Sinks, s < t, ~HasNone(t, c)
                 PROVE HasAll(s, c)
      OBVIOUS
    <3>1. CASE cmdPc[c] = "ok"
      BY <3>1, <2>1 DEF SinkOrder, CallOrder
    <3>2. CASE cmdPc[c] # "ok"
      <4>1. t <= cmdSink[c]
        BY <3>2, <2>1, <2>2 DEF SinkOrder, CallOrder
      <4> QED BY <4>1, <2>1, <2>3 DEF SinkOrder, CallOrder
    <3> QED BY <3>1, <3>2
  <2> QED BY <2>1, <2>2, <2>4 DEF SinkOrder, CallOrder
<1> QED BY <1>1, CmdInvariant, PTL

-----------------------------------------------------------------------------
(* The collector of spans.                                                 *)

Elements(s) == {s[k] : k \in 1 .. Len(s)}

\* The spans client c has been sent, is going to be sent, or is known to miss.
Accounted(c) ==
  colReplay[c] \cup colSent[c] \cup colMissed[c] \cup colGone[c] \cup Elements(colChan[c])
    \cup {colSending[r] : r \in ColRecorders}

StreamTypes ==
  /\ colBytes \in Seq(Nat)
  /\ colSending \in [ColRecorders -> Nat]
  /\ colPc \in [ColClients -> {"away", "joined", "replaying", "streaming"}]
  /\ colChan \in [ColClients -> Seq(Nat)]
  /\ colReplay = [c \in ColClients |-> colReplay[c]] /\ colSent = [c \in ColClients |-> colSent[c]]
  /\ colMissed = [c \in ColClients |-> colMissed[c]] /\ colGone = [c \in ColClients |-> colGone[c]]

\* From the copy of the ring on, every recorded span is accounted for, and
\* what is to be replayed has been written when the stream begins.
StreamAccounts ==
  \A c \in ColClients :
    /\ colPc[c] \in {"replaying", "streaming"} => Recorded \subseteq Accounted(c)
    /\ colPc[c] = "streaming" => colReplay[c] = {}

ColInv == StreamTypes /\ StreamAccounts

\* What a channel holds after a send and after a receive.
LEMMA ChannelElements ==
  ASSUME NEW s \in Seq(Nat)
  PROVE  /\ \A x \in Nat : Elements(Append(s, x)) = Elements(s) \cup {x}
         /\ s # <<>> => Elements(s) = {Head(s)} \cup Elements(Tail(s))
<1>1. ASSUME NEW x \in Nat PROVE Elements(Append(s, x)) = Elements(s) \cup {x}
  <2>1. Len(Append(s, x)) = Len(s) + 1 /\ Len(s) \in Nat
    OBVIOUS
  <2>2. \A k \in 1 .. Len(s) + 1 : Append(s, x)[k] = IF k = Len(s) + 1 THEN x ELSE s[k]
    OBVIOUS
  <2> QED BY <2>1, <2>2 DEF Elements
<1>2. ASSUME s # <<>> PROVE Elements(s) = {Head(s)} \cup Elements(Tail(s))
  <2>1. Len(Tail(s)) = Len(s) - 1 /\ Len(s) \in Nat /\ Len(s) # 0 /\ Head(s) = s[1]
    BY <1>2
  <2>2. \A k \in 1 .. Len(s) - 1 : Tail(s)[k] = s[k + 1]
    BY <1>2
  <2>3. \A k \in 1 .. Len(s) : k = 1 \/ (k - 1 \in 1 .. Len(s) - 1 /\ s[k] = Tail(s)[k - 1])
    BY <2>1, <2>2
  <2>4. \A k \in 1 .. Len(s) - 1 : k + 1 \in 1 .. Len(s)
    BY <2>1
  <2>5. Elements(s) \subseteq {Head(s)} \cup Elements(Tail(s))
    BY <2>1, <2>3 DEF Elements
  <2>6. Elements(Tail(s)) \subseteq Elements(s)
    BY <2>1, <2>2, <2>4 DEF Elements
  <2>7. Head(s) \in Elements(s)
    <3>1. 1 \in 1 .. Len(s)
      BY <2>1
    <3> QED BY <3>1, <2>1 DEF Elements
  <2> QED BY <2>5, <2>6, <2>7
<1> QED BY <1>1, <1>2

\* Every step keeps the invariant.
LEMMA ColInvStep == ColInv /\ [ColNext]_colVars => ColInv'
<1> SUFFICES ASSUME ColInv, [ColNext]_colVars PROVE ColInv'
  OBVIOUS
<1>t. StreamTypes /\ StreamAccounts
  BY DEF ColInv
<1>n. Len(colBytes) \in Nat
  BY <1>t DEF StreamTypes
<1>1. CASE UNCHANGED colVars
  BY <1>1, <1>t DEF colVars, colClient, ColInv, StreamTypes, StreamAccounts, Accounted, Recorded
<1>2. ASSUME NEW r \in ColRecorders, RecordInRing(r) PROVE ColInv'
  <2>1. PICK bytes \in Nat : colBytes' = Append(colBytes, bytes)
    <3>1. AllBytes \in Nat
      BY <1>n, <1>t DEF StreamTypes, AllBytes, Before
    <3> QED BY <1>2, <3>1, ColAssumption DEF RecordInRing
  <2>2. /\ colSending[r] = 0 /\ colSending' = [colSending EXCEPT ![r] = Len(colBytes) + 1]
        /\ UNCHANGED colClient
    BY <1>2 DEF RecordInRing
  <2>3. StreamTypes'
    BY <2>1, <2>2, <1>n, <1>t DEF StreamTypes, colClient
  <2>4. Recorded' = Recorded \cup {Len(colBytes) + 1} /\ 0 \notin Recorded
    BY <2>1, <1>n, <1>t DEF Recorded, StreamTypes
  <2>5. ({colSending[q] : q \in ColRecorders} \ {0}) \cup {Len(colBytes) + 1}
          \subseteq {colSending'[q] : q \in ColRecorders}
    BY <2>2, <1>t DEF StreamTypes
  <2>6. \A c \in ColClients : (Accounted(c) \ {0}) \cup {Len(colBytes) + 1} \subseteq Accounted(c)'
    <3> SUFFICES ASSUME NEW c \in ColClients
                 PROVE (Accounted(c) \ {0}) \cup {Len(colBytes) + 1} \subseteq Accounted(c)'
      OBVIOUS
    <3>1. /\ colReplay' = colReplay /\ colSent' = colSent /\ colMissed' = colMissed
          /\ colGone' = colGone /\ colChan' = colChan
      BY <2>2 DEF colClient
    <3>2. Elements(colChan'[c]) = Elements(colChan[c])
      BY <3>1
    <3> DEFINE rest == colReplay[c] \cup colSent[c] \cup colMissed[c] \cup colGone[c]
                         \cup Elements(colChan[c])
               before == {colSending[q] : q \in ColRecorders}
               after == {colSending'[q] : q \in ColRecorders}
    <3>3. Accounted(c) = rest \cup before
      BY DEF Accounted
    <3>4. Accounted(c)' = rest \cup after
      BY <3>1, <3>2 DEF Accounted
    <3>5. (before \ {0}) \cup {Len(colBytes) + 1} \subseteq after
      BY <2>5
    <3> HIDE DEF rest, before, after
    <3> QED BY <3>3, <3>4, <3>5
  <2>7. StreamAccounts'
    BY <2>2, <2>4, <2>6, <1>t DEF StreamAccounts, colClient
  <2> QED BY <2>3, <2>7 DEF ColInv
<1>3. ASSUME NEW r \in ColRecorders, SendToSubscribers(r) PROVE ColInv'
  <2> DEFINE x == colSending[r]
  <2>1. /\ colChan' = [c \in ColClients |-> IF c \in Subscribed /\ HasRoom(c)
                                              THEN Append(colChan[c], x) ELSE colChan[c]]
        /\ colMissed' = [c \in ColClients |-> IF c \in Subscribed /\ ~HasRoom(c)
                                                THEN colMissed[c] \cup {x} ELSE colMissed[c]]
        /\ colSending' = [colSending EXCEPT ![r] = 0]
        /\ UNCHANGED <<colBytes, colPc, colReplay, colSent, colGone>>
    BY <1>3 DEF SendToSubscribers
  <2>x. x \in Nat
    BY <1>t DEF StreamTypes
  <2> HIDE DEF x
  <2>2. StreamTypes'
    BY <2>1, <2>x, <1>t DEF StreamTypes
  <2>3. ASSUME NEW c \in ColClients, colPc[c] \in {"replaying", "streaming"}
        PROVE Recorded \subseteq Accounted(c)'
    <3>1. c \in Subscribed
      BY <2>3 DEF Subscribed
    <3>2. \/ Elements(colChan'[c]) = Elements(colChan[c]) \cup {x} /\ colMissed'[c] = colMissed[c]
          \/ colChan'[c] = colChan[c] /\ colMissed'[c] = colMissed[c] \cup {x}
      <4>1. colChan[c] \in Seq(Nat)
        BY <1>t DEF StreamTypes
      <4> QED BY <3>1, <4>1, <2>1, <2>x, ChannelElements
    <3>3. {colSending[q] : q \in ColRecorders} \subseteq {colSending'[q] : q \in ColRecorders} \cup {x}
      BY <2>1, <1>t DEF StreamTypes, x
    <3>4. Accounted(c) \subseteq Accounted(c)'
      BY <2>1, <3>2, <3>3 DEF Accounted
    <3> QED BY <2>3, <3>4, <1>t DEF StreamAccounts
  <2>4. StreamAccounts'
    BY <2>1, <2>3 , <1>t DEF StreamAccounts, Recorded
  <2> QED BY <2>2, <2>4 DEF ColInv
<1>4. ASSUME NEW c \in ColClients, Subscribe(c) PROVE ColInv'
  <2>1. StreamTypes'
    BY <1>4, <1>t DEF Subscribe, StreamTypes
  <2>2. \A d \in ColClients : /\ colPc'[d] \in {"replaying", "streaming"} => colPc'[d] = colPc[d]
                              /\ Accounted(d)' = Accounted(d)
    BY <1>4, <1>t DEF Subscribe, StreamTypes, Accounted
  <2>3. StreamAccounts'
    BY <1>4, <2>2, <1>t DEF Subscribe, StreamAccounts, Recorded
  <2> QED BY <2>1, <2>3 DEF ColInv
<1>5. ASSUME NEW c \in ColClients, ReadSpans(c) PROVE ColInv'
  <2>1. /\ colPc' = [colPc EXCEPT ![c] = "replaying"]
        /\ colReplay' = [colReplay EXCEPT ![c] = RingSet]
        /\ colGone' = [colGone EXCEPT ![c] = Recorded \ RingSet]
        /\ UNCHANGED <<colBytes, colSending, colChan, colSent, colMissed>>
    BY <1>5 DEF ReadSpans, ReadRing
  <2>2. StreamTypes'
    BY <2>1, <1>t DEF StreamTypes
  <2>3. /\ colPc'[c] = "replaying" /\ colReplay'[c] = RingSet /\ colGone'[c] = Recorded \ RingSet
        /\ \A d \in ColClients : d # c => /\ colPc'[d] = colPc[d] /\ colReplay'[d] = colReplay[d]
                                          /\ colGone'[d] = colGone[d]
    BY <2>1, <1>t DEF StreamTypes
  <2>4. Recorded \subseteq Accounted(c)'
    BY <2>3 DEF Accounted
  <2>5. \A d \in ColClients : d # c => Accounted(d)' = Accounted(d)
    BY <2>1, <2>3 DEF Accounted
  <2>6. StreamAccounts'
    BY <2>1, <2>3, <2>4, <2>5, <1>t DEF StreamAccounts, Recorded
  <2> QED BY <2>2, <2>6 DEF ColInv
<1>6. ASSUME NEW c \in ColClients, SendReplay(c) PROVE ColInv'
  <2>1. StreamTypes'
    BY <1>6, <1>t DEF SendReplay, StreamTypes
  <2>2. \A d \in ColClients : /\ Accounted(d) \subseteq Accounted(d)'
                              /\ colPc'[d] \in {"replaying", "streaming"} =>
                                   colPc[d] \in {"replaying", "streaming"}
                              /\ d # c => colPc'[d] = colPc[d] /\ colReplay'[d] = colReplay[d]
                              /\ d = c => colReplay'[d] = {}
    <3>1. /\ colPc[c] = "replaying" /\ colReplay'[c] = {}
          /\ colSent'[c] = colSent[c] \cup colReplay[c]
          /\ \A d \in ColClients : d # c => /\ colPc'[d] = colPc[d] /\ colReplay'[d] = colReplay[d]
                                            /\ colSent'[d] = colSent[d]
          /\ UNCHANGED <<colSending, colChan, colMissed, colGone>>
      BY <1>6, <1>t DEF SendReplay, StreamTypes
    <3>2. \A d \in ColClients : colReplay[d] \cup colSent[d] \subseteq colReplay'[d] \cup colSent'[d]
      BY <3>1
    <3>3. \A d \in ColClients : Accounted(d) \subseteq Accounted(d)'
      BY <3>1, <3>2 DEF Accounted
    <3> QED BY <3>1, <3>3
  <2>3. StreamAccounts'
    BY <1>6, <2>2, <1>t DEF SendReplay, StreamAccounts, Recorded
  <2> QED BY <2>1, <2>3 DEF ColInv
<1>7. ASSUME NEW c \in ColClients, SendNext(c) PROVE ColInv'
  <2>1. /\ colPc[c] = "streaming" /\ colChan[c] # <<>>
        /\ colSent' = [colSent EXCEPT ![c] = @ \cup {Head(colChan[c])}]
        /\ colChan' = [colChan EXCEPT ![c] = Tail(@)]
        /\ UNCHANGED <<colBytes, colSending, colPc, colReplay, colMissed, colGone>>
    BY <1>7 DEF SendNext
  <2>2. /\ colChan[c] \in Seq(Nat) /\ Head(colChan[c]) \in Nat /\ Tail(colChan[c]) \in Seq(Nat)
        /\ Elements(colChan[c]) = {Head(colChan[c])} \cup Elements(Tail(colChan[c]))
    BY <2>1, <1>t, ChannelElements DEF StreamTypes
  <2>3. StreamTypes'
    BY <2>1, <2>2, <1>t DEF StreamTypes
  <2>4. \A d \in ColClients : /\ d # c => colSent'[d] = colSent[d] /\ colChan'[d] = colChan[d]
                              /\ d = c => /\ colSent'[d] = colSent[c] \cup {Head(colChan[c])}
                                          /\ colChan'[d] = Tail(colChan[c])
    BY <2>1, <1>t DEF StreamTypes
  <2>5. \A d \in ColClients : Accounted(d) \subseteq Accounted(d)'
    BY <2>1, <2>2, <2>4 DEF Accounted
  <2>6. StreamAccounts'
    BY <2>1, <2>5, <1>t DEF StreamAccounts, Recorded
  <2> QED BY <2>3, <2>6 DEF ColInv
<1>8. ASSUME NEW c \in ColClients, Unsubscribe(c) PROVE ColInv'
  <2>1. StreamTypes'
    <3>1. /\ colPc' \in [ColClients -> {"away", "joined", "replaying", "streaming"}]
          /\ colChan' \in [ColClients -> Seq(Nat)]
      BY <1>8, <1>t DEF Unsubscribe, StreamTypes
    <3>2. /\ colReplay' = [d \in ColClients |-> colReplay'[d]]
          /\ colSent' = [d \in ColClients |-> colSent'[d]]
      BY <1>8, <1>t DEF Unsubscribe, StreamTypes
    <3>3. /\ colMissed' = [d \in ColClients |-> colMissed'[d]]
          /\ colGone' = [d \in ColClients |-> colGone'[d]]
      BY <1>8, <1>t DEF Unsubscribe, StreamTypes
    <3> QED BY <1>8, <3>1, <3>2, <3>3, <1>t DEF Unsubscribe, StreamTypes
  <2>2. \A d \in ColClients :
          /\ d = c => colPc'[d] = "away"
          /\ d # c => /\ colPc'[d] = colPc[d] /\ colReplay'[d] = colReplay[d]
                      /\ Accounted(d)' = Accounted(d)
    <3>1. /\ colPc'[c] = "away" /\ colSending' = colSending
          /\ \A d \in ColClients : d # c => /\ colPc'[d] = colPc[d] /\ colReplay'[d] = colReplay[d]
                                            /\ colChan'[d] = colChan[d]
      BY <1>8, <1>t DEF Unsubscribe, StreamTypes
    <3>2. \A d \in ColClients : d # c => /\ colSent'[d] = colSent[d] /\ colMissed'[d] = colMissed[d]
                                         /\ colGone'[d] = colGone[d]
      BY <1>8, <1>t DEF Unsubscribe, StreamTypes
    <3> QED BY <3>1, <3>2 DEF Accounted
  <2>3. StreamAccounts'
    BY <1>8, <2>2, <1>t DEF Unsubscribe, StreamAccounts, Recorded
  <2> QED BY <2>1, <2>3 DEF ColInv
<1>9. CASE DropOldest \/ StoreSpan
  <2>1. UNCHANGED <<colBytes, colSending, colClient>>
    BY <1>9 DEF DropOldest, StoreSpan
  <2> QED BY <2>1, <1>t DEF colClient, ColInv, StreamTypes, StreamAccounts, Accounted, Recorded
<1> QED BY <1>1, <1>2, <1>3, <1>4, <1>5, <1>6, <1>7, <1>8, <1>9 DEF ColNext

\* The invariant holds in every reachable state.
THEOREM ColInvariant == ColSpec => []ColInv
<1>1. ColInit => ColInv
  BY DEF ColInit, Nothing, ColInv, StreamTypes, StreamAccounts
<1> QED BY <1>1, ColInvStep, PTL DEF ColSpec

\* A stream has no gap between the replay and what follows it, for any number
\* of recorders and clients and any ring, whatever the ring evicts meanwhile.
THEOREM StreamsHaveAll == ColSpec => []StreamHasAll
<1>1. ColInv => StreamHasAll
  BY DEF ColInv, StreamAccounts, Accounted, Elements, StreamHasAll
<1> QED BY <1>1, ColInvariant, PTL

-----------------------------------------------------------------------------
(* The ring of spans.  The ring has seen the spans up to Newest, all but   *)
(* the one being stored; those it does not hold any more are older than    *)
(* all it holds, and with what came after them exceed one of its limits.   *)

RingSlots == 0 .. ringCount - 1
RingPlace(k) == (ringStart + k) % RingLimit
RingSpan(k) == ringSpans[RingPlace(k)]
RingSize(k) == ringSizes[RingPlace(k)]
Newest == IF ringStoring > 0 THEN Len(colBytes) - 1 ELSE Len(colBytes)

RingShape ==
  /\ colBytes \in Seq(Nat) /\ \A n \in Recorded : Before(n) <= colBytes[n]
  /\ ringStart \in Places /\ ringCount \in 0 .. RingLimit
  /\ ringTotal \in Nat /\ ringTotal <= RingBytes /\ ringDropped \in Nat
  /\ ringSpans \in [Places -> Nat] /\ ringSizes \in [Places -> Nat]
  /\ ringStoring \in Nat /\ ringStoring <= SpanBytes
  /\ ringStoring > 0 =>
       Len(colBytes) > 0 /\ colBytes[Len(colBytes)] = Before(Len(colBytes)) + ringStoring

\* Each slot holds an accepted span and its size.
SlotsHold ==
  \A k \in RingSlots : /\ RingSpan(k) \in 1 .. Newest
                   /\ Before(RingSpan(k)) < colBytes[RingSpan(k)]
                   /\ RingSize(k) = colBytes[RingSpan(k)] - Before(RingSpan(k))

\* The slots are in order, and no bytes come between one and the next, nor
\* after the last.
SlotsOrdered ==
  /\ \A j, k \in RingSlots : j < k => /\ RingSpan(j) < RingSpan(k)
                                  /\ colBytes[RingSpan(j)] <= Before(RingSpan(k))
  /\ \A j, k \in RingSlots : k = j + 1 => colBytes[RingSpan(j)] = Before(RingSpan(k))
  /\ \A k \in RingSlots : k + 1 = ringCount => colBytes[RingSpan(k)] = Before(Newest + 1)

\* totalBytes is the bytes of what the ring holds.
TotalExact ==
  /\ ringCount = 0 => ringTotal = 0
  /\ ringCount > 0 => ringTotal = Before(Newest + 1) - Before(RingSpan(0))

EvictedOrHeld ==
  \A n \in Accepted : n <= Newest =>
    \/ \E k \in RingSlots : RingSpan(k) = n
    \/ ~WithinLimits(n) /\ \A k \in RingSlots : n < RingSpan(k)

RingInv ==
  /\ RingShape /\ SlotsHold /\ SlotsOrdered /\ TotalExact /\ EvictedOrHeld
  /\ ringDropped = Newest - ringCount

\* A step of the index around the ring.
LEMMA Wraps ==
  ASSUME NEW limit \in Nat \ {0}, NEW x \in Nat, x < 2 * limit
  PROVE  x % limit = IF x < limit THEN x ELSE x - limit
  BY Z3T(30)

\* The slots of the ring are at different places.
LEMMA PlacesDiffer ==
  ASSUME RingShape
  PROVE  /\ RingLimit \in Nat /\ 1 <= RingLimit
         /\ \A k \in 0 .. RingLimit : RingPlace(k) \in Places
         /\ \A j, k \in 0 .. RingLimit - 1 : RingPlace(j) = RingPlace(k) => j = k
<1>1. RingLimit \in Nat \ {0} /\ ringStart \in Nat /\ ringStart < RingLimit
  BY ColAssumption DEF RingShape, Places
<1>2. ASSUME NEW k \in 0 .. RingLimit
      PROVE RingPlace(k) = IF ringStart + k < RingLimit THEN ringStart + k
                                                         ELSE ringStart + k - RingLimit
  <2> DEFINE x == ringStart + k
  <2>1. x \in Nat /\ x < 2 * RingLimit
    BY <1>1
  <2>2. RingPlace(k) = x % RingLimit
    BY DEF RingPlace
  <2>x. x = ringStart + k
    OBVIOUS
  <2> HIDE DEF x
  <2>3. x % RingLimit = IF x < RingLimit THEN x ELSE x - RingLimit
    BY <1>1, <2>1, Wraps
  <2>4. RingPlace(k) = IF x < RingLimit THEN x ELSE x - RingLimit
    BY <2>2, <2>3
  <2> QED BY <1>1, <2>1, <2>x, <2>4
<1> QED BY <1>1, <1>2 DEF Places

\* What the history of the bytes says.
LEMMA HistoryFacts ==
  ASSUME RingShape
  PROVE  /\ Len(colBytes) \in Nat /\ Newest \in Nat /\ Newest <= Len(colBytes)
         /\ \A n \in 1 .. Len(colBytes) : colBytes[n] \in Nat
         /\ \A n \in 1 .. Len(colBytes) + 1 : Before(n) \in Nat
         /\ AllBytes \in Nat /\ AllBytes = Before(Len(colBytes) + 1)
         /\ Before(Newest + 1) + ringStoring = AllBytes
         /\ ringStoring = 0 => Newest = Len(colBytes)
         /\ ringStoring > 0 => Newest = Len(colBytes) - 1
<1>1. Len(colBytes) \in Nat /\ \A n \in 1 .. Len(colBytes) : colBytes[n] \in Nat
  BY DEF RingShape
<1>2. \A n \in 1 .. Len(colBytes) + 1 : Before(n) \in Nat
  BY <1>1 DEF Before
<1>3. ringStoring \in Nat
  BY DEF RingShape
<1>4. AllBytes \in Nat /\ AllBytes = Before(Len(colBytes) + 1)
  BY <1>1, <1>2 DEF AllBytes
<1>5. CASE ringStoring = 0
  BY <1>1, <1>2, <1>4, <1>5 DEF Newest
<1>6. CASE ringStoring > 0
  <2>1. Len(colBytes) > 0 /\ colBytes[Len(colBytes)] = Before(Len(colBytes)) + ringStoring
    BY <1>6 DEF RingShape
  <2>2. Newest = Len(colBytes) - 1
    BY <1>6 DEF Newest
  <2>3. AllBytes = colBytes[Len(colBytes)]
    BY <1>1, <2>1 DEF AllBytes, Before
  <2>4. Newest + 1 = Len(colBytes)
    BY <1>1, <2>2
  <2> QED BY <1>1, <1>2, <1>3, <1>4, <1>6, <2>1, <2>2, <2>3, <2>4
<1> QED BY <1>3, <1>5, <1>6

\* A span more: what exceeded the limits goes on to do so.
LEMMA HistoryGrows ==
  ASSUME RingShape, NEW b \in Nat, AllBytes <= b, colBytes' = Append(colBytes, b)
  PROVE  /\ Len(colBytes') = Len(colBytes) + 1 /\ colBytes' \in Seq(Nat)
         /\ colBytes'[Len(colBytes) + 1] = b /\ AllBytes' = b
         /\ \A n \in 1 .. Len(colBytes) : colBytes'[n] = colBytes[n]
         /\ \A n \in 1 .. Len(colBytes) + 1 : Before(n)' = Before(n)
         /\ \A n \in 1 .. Len(colBytes) : n \in Accepted' <=> n \in Accepted
         /\ \A n \in 1 .. Len(colBytes) : ~WithinLimits(n) => ~WithinLimits(n)'
<1>0. /\ Len(colBytes) \in Nat /\ AllBytes \in Nat
      /\ \A n \in 1 .. Len(colBytes) + 1 : Before(n) \in Nat
  BY HistoryFacts
<1>1. /\ Len(colBytes') = Len(colBytes) + 1 /\ colBytes' \in Seq(Nat)
      /\ colBytes'[Len(colBytes) + 1] = b
      /\ \A n \in 1 .. Len(colBytes) : colBytes'[n] = colBytes[n]
  BY DEF RingShape
<1>2. \A n \in 1 .. Len(colBytes) + 1 : Before(n)' = Before(n)
  BY <1>0, <1>1 DEF Before
<1>3. AllBytes' = b
  BY <1>0, <1>1 DEF AllBytes, Before
<1>4. \A n \in 1 .. Len(colBytes) : n \in Accepted' <=> n \in Accepted
  BY <1>0, <1>1, <1>2 DEF Accepted, Recorded
<1>5. ASSUME NEW n \in 1 .. Len(colBytes), ~WithinLimits(n) PROVE ~WithinLimits(n)'
  <2>1. CASE ~(AllBytes - Before(n) <= RingBytes)
    BY <2>1, <1>0, <1>2, <1>3, ColAssumption DEF WithinLimits
  <2>2. CASE ~(Cardinality(From(n)) <= RingLimit)
    <3>1. From(n) \subseteq From(n)'
      BY <1>0, <1>1, <1>4 DEF From, Accepted, Recorded
    <3>2. IsFiniteSet(From(n)')
      <4>1. From(n)' \in SUBSET (1 .. Len(colBytes'))
        BY DEF From, Accepted, Recorded
      <4>2. IsFiniteSet(1 .. Len(colBytes'))
        BY <1>0, <1>1, FS_Interval
      <4> QED BY <4>1, <4>2, FS_Subset
    <3>3. Cardinality(From(n)) <= Cardinality(From(n)')
      BY <3>1, <3>2, FS_Subset
    <3>4. Cardinality(From(n)) \in Nat /\ Cardinality(From(n)') \in Nat
      BY <3>1, <3>2, FS_Subset, FS_CardinalityType
    <3> QED BY <2>2, <3>3, <3>4, ColAssumption DEF WithinLimits
  <2> QED BY <1>5, <2>1, <2>2 DEF WithinLimits
<1> QED BY <1>1, <1>2, <1>3, <1>4, <1>5

\* A span is recorded: the ring is as it was.
LEMMA RecordKeepsRing ==
  ASSUME RingInv, NEW r \in ColRecorders, RecordInRing(r)
  PROVE  RingInv'
<1>i. RingShape /\ SlotsHold /\ SlotsOrdered /\ TotalExact /\ EvictedOrHeld
      /\ ringDropped = Newest - ringCount
  BY DEF RingInv
<1>f. /\ Len(colBytes) \in Nat /\ AllBytes \in Nat /\ Newest = Len(colBytes)
      /\ AllBytes = Before(Len(colBytes) + 1) /\ ringStoring = 0
      /\ ringCount \in Nat /\ ringCount <= RingLimit /\ RingLimit \in Nat
  BY <1>i, HistoryFacts, ColAssumption DEF RecordInRing, RingShape
<1>0. PICK size \in ColSizes :
        \/ /\ size > SpanBytes /\ colBytes' = Append(colBytes, AllBytes)
           /\ ringDropped' = ringDropped + 1 /\ ringStoring' = ringStoring
        \/ /\ ~(size > SpanBytes) /\ colBytes' = Append(colBytes, AllBytes + size)
           /\ ringStoring' = size /\ ringDropped' = ringDropped
  BY DEF RecordInRing
<1>s. size \in Nat /\ size > 0 /\ SpanBytes \in Nat
  BY ColAssumption
<1>u. UNCHANGED <<ringStart, ringCount, ringTotal, ringSpans, ringSizes>>
  BY DEF RecordInRing
<1> DEFINE b == IF size > SpanBytes THEN AllBytes ELSE AllBytes + size
<1>b. b \in Nat /\ AllBytes <= b /\ colBytes' = Append(colBytes, b)
  BY <1>0, <1>f, <1>s
<1>h. /\ Len(colBytes') = Len(colBytes) + 1 /\ colBytes' \in Seq(Nat)
      /\ colBytes'[Len(colBytes) + 1] = b /\ AllBytes' = b
      /\ \A n \in 1 .. Len(colBytes) : colBytes'[n] = colBytes[n]
      /\ \A n \in 1 .. Len(colBytes) + 1 : Before(n)' = Before(n)
      /\ \A n \in 1 .. Len(colBytes) : n \in Accepted' <=> n \in Accepted
      /\ \A n \in 1 .. Len(colBytes) : ~WithinLimits(n) => ~WithinLimits(n)'
  BY <1>b, <1>i, HistoryGrows
<1> HIDE DEF b
<1>1. RingShape'
  <2>1. \A n \in 1 .. Len(colBytes') : Before(n)' <= colBytes'[n]
    BY <1>h, <1>b, <1>f, <1>i DEF RingShape, Recorded
  <2>2. /\ ringStoring' \in Nat /\ ringStoring' <= SpanBytes /\ ringDropped' \in Nat
        /\ ringStoring' > 0 =>
             /\ Len(colBytes') > 0
             /\ colBytes'[Len(colBytes')] = Before(Len(colBytes))' + ringStoring'
    <3>1. ringDropped \in Nat
      BY <1>i DEF RingShape
    <3>2. Before(Len(colBytes))' = AllBytes
      <4>1. Len(colBytes') = Len(colBytes) + 1
        BY <1>h
      <4>2. \A n : n = Len(colBytes) + 1 => Before(n)' = AllBytes
        BY <1>h, <1>f
      <4> QED BY <4>1, <4>2, <1>f DEF Before
    <3>3. ringStoring' > 0 => ringStoring' = size /\ b = AllBytes + size
      BY <1>0, <1>f DEF b
    <3>4. ringStoring' \in Nat /\ ringStoring' <= SpanBytes /\ ringDropped' \in Nat
      BY <1>0, <1>f, <1>s, <3>1
    <3> QED BY <3>2, <3>3, <3>4, <1>h, <1>f
  <2> QED BY <2>1, <2>2, <1>h, <1>u, <1>i DEF RingShape, Recorded
<1>2. /\ Newest' >= Newest /\ Newest' <= Newest + 1 /\ Newest' \in Nat
      /\ Before(Newest + 1)' = Before(Newest + 1)
      /\ ringDropped' = Newest' - ringCount'
      /\ \A n \in Accepted' : n <= Newest' => n \in 1 .. Len(colBytes)
  <2>1. CASE size > SpanBytes
    <3>1. Newest' = Len(colBytes) + 1 /\ b = AllBytes
      BY <2>1, <1>0, <1>f, <1>h DEF Newest, b
    <3>2. Before(Newest + 1)' = b
      BY <3>1, <1>h, <1>f DEF Before
    <3>3. Len(colBytes) + 1 \notin Accepted'
      BY <1>h, <1>f, <3>1 DEF Accepted
    <3>4. \A n \in Accepted' : n \in 1 .. Len(colBytes) + 1
      BY <1>h DEF Accepted, Recorded
    <3> QED BY <2>1, <3>1, <3>2, <3>3, <3>4, <1>0, <1>f, <1>h, <1>u, <1>i
  <2>2. CASE ~(size > SpanBytes)
    <3>1. Newest' = Len(colBytes)
      BY <2>2, <1>0, <1>f, <1>s, <1>h DEF Newest
    <3>2. \A n \in Accepted' : n \in 1 .. Len(colBytes) + 1
      BY <1>h DEF Accepted, Recorded
    <3>3. Before(Newest + 1)' = Before(Newest + 1)
      BY <3>1, <1>h, <1>f DEF Before
    <3> QED BY <2>2, <3>1, <3>2, <3>3, <1>0, <1>f, <1>h, <1>u, <1>i
  <2> QED BY <2>1, <2>2
<1>3. \A k \in RingSlots : RingSpan(k)' = RingSpan(k) /\ RingSize(k)' = RingSize(k)
  BY <1>u DEF RingSpan, RingSize, RingPlace
<1>4. RingSlots' = RingSlots
  BY <1>u DEF RingSlots
<1>5. \A k \in RingSlots : /\ RingSpan(k) \in 1 .. Len(colBytes)
                       /\ colBytes'[RingSpan(k)] = colBytes[RingSpan(k)]
                       /\ Before(RingSpan(k))' = Before(RingSpan(k))
  <2> SUFFICES ASSUME NEW k \in RingSlots
               PROVE /\ RingSpan(k) \in 1 .. Len(colBytes)
                     /\ colBytes'[RingSpan(k)] = colBytes[RingSpan(k)]
                     /\ Before(RingSpan(k))' = Before(RingSpan(k))
    OBVIOUS
  <2>1. RingSpan(k) \in 1 .. Len(colBytes) /\ RingSpan(k)' = RingSpan(k)
    BY <1>i, <1>f, <1>3 DEF SlotsHold
  <2> QED BY <2>1, <1>h, <1>f DEF Before
<1>6. SlotsHold'
  <2>1. \A k \in RingSlots : RingSpan(k) \in 1 .. Newest'
    BY <1>2, <1>f, <1>i DEF SlotsHold
  <2> QED BY <1>3, <1>4, <1>5, <2>1, <1>i DEF SlotsHold
<1>7. SlotsOrdered'
  BY <1>2, <1>3, <1>4, <1>5, <1>u, <1>i DEF SlotsOrdered
<1>8. TotalExact'
  <2>1. ringCount > 0 => 0 \in RingSlots
    BY <1>f DEF RingSlots
  <2>2. ringCount > 0 => Before(RingSpan(0))' = Before(RingSpan(0))
    BY <1>3, <1>5, <2>1
  <2> QED BY <1>2, <1>u, <2>2, <1>i DEF TotalExact
<1>9. EvictedOrHeld'
  <2> SUFFICES ASSUME NEW n \in Accepted', n <= Newest'
               PROVE \/ \E k \in RingSlots : RingSpan(k)' = n
                     \/ ~WithinLimits(n)' /\ \A k \in RingSlots : n < RingSpan(k)'
    BY <1>4 DEF EvictedOrHeld
  <2>1. n \in 1 .. Len(colBytes) /\ n \in Accepted /\ n <= Newest
    BY <1>2, <1>h, <1>f
  <2> QED BY <2>1, <1>h, <1>3, <1>i DEF EvictedOrHeld
<1> QED BY <1>1, <1>2, <1>6, <1>7, <1>8, <1>9 DEF RingInv


\* The oldest span is dropped: the slots move up by one, and it exceeds a limit
\* together with what came after it.
LEMMA DropKeepsRing ==
  ASSUME RingInv, DropOldest
  PROVE  RingInv'
<1>i. RingShape /\ SlotsHold /\ SlotsOrdered /\ TotalExact /\ EvictedOrHeld
      /\ ringDropped = Newest - ringCount
  BY DEF RingInv
<1>f. /\ Len(colBytes) \in Nat /\ Newest \in Nat /\ Newest = Len(colBytes) - 1
      /\ ringCount \in Nat /\ 1 <= ringCount /\ ringCount <= RingLimit /\ RingLimit \in Nat
      /\ ringStoring \in Nat /\ ringStoring > 0 /\ ringStart \in Places
      /\ ringTotal \in Nat /\ ringTotal <= RingBytes /\ RingBytes \in Nat
      /\ ringSpans \in [Places -> Nat] /\ ringSizes \in [Places -> Nat]
  <2>1. ringStoring > 0 /\ ringCount > 0
    BY DEF DropOldest, RingOverflows
  <2>2. Newest = Len(colBytes) - 1 /\ Len(colBytes) \in Nat /\ Newest \in Nat
    BY <1>i, <2>1, HistoryFacts
  <2>3. RingLimit \in Nat /\ RingBytes \in Nat
    BY ColAssumption
  <2> QED BY <1>i, <2>1, <2>2, <2>3 DEF RingShape
<1>h. /\ \A n \in 1 .. Len(colBytes) : colBytes[n] \in Nat
      /\ \A n \in 1 .. Len(colBytes) + 1 : Before(n) \in Nat
      /\ AllBytes \in Nat /\ Before(Newest + 1) + ringStoring = AllBytes
  BY <1>i, HistoryFacts
<1>p. /\ \A k \in 0 .. RingLimit : RingPlace(k) \in Places
      /\ \A j, k \in 0 .. RingLimit - 1 : RingPlace(j) = RingPlace(k) => j = k
  BY <1>i, PlacesDiffer
<1>u. /\ ringTotal' = ringTotal - ringSizes[ringStart]
      /\ ringSpans' = [ringSpans EXCEPT ![ringStart] = 0]
      /\ ringSizes' = [ringSizes EXCEPT ![ringStart] = 0]
      /\ ringStart' = RingPlace(1)
      /\ ringCount' = ringCount - 1 /\ ringDropped' = ringDropped + 1
      /\ colBytes' = colBytes /\ ringStoring' = ringStoring
      /\ ringCount = RingLimit \/ ringTotal + ringStoring > RingBytes
  BY DEF DropOldest, BytesAfterDrop, RingOverflows, RingPlace
<1>b. /\ Newest' = Newest /\ AllBytes' = AllBytes /\ Accepted' = Accepted
      /\ Before(Newest + 1)' = Before(Newest + 1)
      /\ \A n : (Before(n)' = Before(n)) /\ (WithinLimits(n)' <=> WithinLimits(n))
  BY <1>u DEF Newest, AllBytes, Before, Accepted, Recorded, WithinLimits, From
<1>0. RingPlace(0) = ringStart
  <2>1. ringStart \in Nat /\ ringStart < RingLimit
    BY <1>f DEF Places
  <2>2. RingLimit \in Nat \ {0} /\ ringStart < 2 * RingLimit
    BY <1>f, <2>1
  <2>3. ringStart % RingLimit = ringStart
    BY <2>1, <2>2, Wraps
  <2>4. ringStart + 0 = ringStart
    BY <2>1
  <2> QED BY <2>3, <2>4 DEF RingPlace
<1>1. ASSUME NEW k \in 0 .. ringCount - 2
      PROVE /\ k \in RingSlots /\ k + 1 \in RingSlots /\ RingPlace(k)' = RingPlace(k + 1)
            /\ RingSpan(k)' = RingSpan(k + 1) /\ RingSize(k)' = RingSize(k + 1)
  <2>1. k \in RingSlots /\ k + 1 \in RingSlots /\ k + 1 \in 0 .. RingLimit - 1
    BY <1>f DEF RingSlots
  <2>2. RingPlace(k)' = RingPlace(k + 1)
    <3>1. /\ RingLimit \in Nat \ {0} /\ ringStart \in Nat /\ ringStart < RingLimit
      BY <1>f DEF Places
    <3> DEFINE x == ringStart + 1
               y == ringStart + (k + 1)
               z == ringStart' + k
    <3>2. /\ RingPlace(1) = x % RingLimit /\ RingPlace(k + 1) = y % RingLimit
          /\ RingPlace(k)' = z % RingLimit
      BY DEF RingPlace
    <3>3. /\ x = ringStart + 1 /\ y = ringStart + (k + 1) /\ z = ringStart' + k
      OBVIOUS
    <3>4. x \in Nat /\ x < 2 * RingLimit /\ y \in Nat /\ y < 2 * RingLimit
      BY <3>1, <2>1
    <3> HIDE DEF x, y, z
    <3>5. /\ x % RingLimit = IF x < RingLimit THEN x ELSE x - RingLimit
          /\ y % RingLimit = IF y < RingLimit THEN y ELSE y - RingLimit
      BY <3>1, <3>4, Wraps
    <3>6. ringStart' = IF x < RingLimit THEN x ELSE x - RingLimit
      BY <3>2, <3>5, <1>u
    <3>7. z \in Nat /\ z < 2 * RingLimit
      BY <3>1, <3>3, <3>4, <3>6, <2>1
    <3>8. z % RingLimit = IF z < RingLimit THEN z ELSE z - RingLimit
      BY <3>1, <3>7, Wraps
    <3>9. (IF y < RingLimit THEN y ELSE y - RingLimit)
            = (IF z < RingLimit THEN z ELSE z - RingLimit)
      BY <3>1, <3>3, <3>4, <3>6, <3>7, <2>1
    <3> QED BY <3>2, <3>5, <3>8, <3>9
  <2>3. RingPlace(k + 1) # ringStart /\ RingPlace(k + 1) \in Places
    BY <2>1, <1>p, <1>0, <1>f
  <2> QED BY <2>1, <2>2, <2>3, <1>u, <1>f DEF RingSpan, RingSize
<1>2. /\ RingSlots' = 0 .. ringCount - 2 /\ 0 \in RingSlots
      /\ \A k \in RingSlots : k = 0 \/ (k - 1 \in RingSlots' /\ RingSpan(k - 1)' = RingSpan(k))
  <2>1. RingSlots' = 0 .. ringCount - 2 /\ 0 \in RingSlots
    BY <1>u, <1>f DEF RingSlots
  <2>2. ASSUME NEW k \in RingSlots, k # 0 PROVE k - 1 \in RingSlots' /\ RingSpan(k - 1)' = RingSpan(k)
    <3>1. k - 1 \in 0 .. ringCount - 2 /\ (k - 1) + 1 = k
      BY <2>2, <1>f DEF RingSlots
    <3> DEFINE j == k - 1
    <3>2. j \in 0 .. ringCount - 2 /\ j + 1 = k
      BY <3>1
    <3>3. RingSpan(j)' = RingSpan(j + 1)
      BY <3>2, <1>1
    <3> QED BY <2>1, <3>2, <3>3
  <2> QED BY <2>1, <2>2
<1>3. /\ RingSpan(0) \in 1 .. Newest /\ ringSizes[ringStart] = RingSize(0)
      /\ RingSize(0) = colBytes[RingSpan(0)] - Before(RingSpan(0))
      /\ ringTotal = Before(Newest + 1) - Before(RingSpan(0))
      /\ colBytes[RingSpan(0)] \in Nat /\ Before(RingSpan(0)) \in Nat /\ Before(Newest + 1) \in Nat
      /\ colBytes[RingSpan(0)] <= Before(Newest + 1)
  <2>1. /\ RingSpan(0) \in 1 .. Newest
        /\ RingSize(0) = colBytes[RingSpan(0)] - Before(RingSpan(0))
    BY <1>i, <1>2 DEF SlotsHold
  <2>2. ringTotal = Before(Newest + 1) - Before(RingSpan(0))
    BY <1>i, <1>f DEF TotalExact
  <2>3. colBytes[RingSpan(0)] \in Nat /\ Before(RingSpan(0)) \in Nat /\ Before(Newest + 1) \in Nat
    BY <2>1, <1>f, <1>h
  <2>4. colBytes[RingSpan(0)] <= Before(Newest + 1)
    <3>1. CASE ringCount = 1
      BY <3>1, <2>3, <1>2, <1>i DEF SlotsOrdered
    <3>2. CASE ringCount > 1
      <4> DEFINE last == ringCount - 1
      <4>1. last \in RingSlots /\ 0 < last
        BY <3>2, <1>f DEF RingSlots
      <4>2. colBytes[RingSpan(0)] <= Before(RingSpan(last))
        BY <4>1, <1>2, <1>i DEF SlotsOrdered
      <4>3. colBytes[RingSpan(last)] = Before(Newest + 1)
        BY <4>1, <1>f, <1>i DEF SlotsOrdered
      <4>4. RingSpan(last) \in 1 .. Newest /\ Before(RingSpan(last)) < colBytes[RingSpan(last)]
        BY <4>1, <1>i DEF SlotsHold
      <4>5. Before(RingSpan(last)) \in Nat /\ colBytes[RingSpan(last)] \in Nat
        BY <4>4, <1>f, <1>h
      <4> HIDE DEF last
      <4> QED BY <4>2, <4>3, <4>4, <4>5, <2>3
    <3> QED BY <3>1, <3>2, <1>f
  <2> QED BY <2>1, <2>2, <2>3, <2>4, <1>0 DEF RingSize
<1>4. RingShape'
  <2>1. ringTotal' \in Nat /\ ringTotal' <= RingBytes
    <3>1. ringTotal' = Before(Newest + 1) - colBytes[RingSpan(0)]
      BY <1>u, <1>3
    <3>2. ringTotal' \in Nat /\ ringTotal' <= ringTotal
      <4>1. Before(RingSpan(0)) < colBytes[RingSpan(0)]
        BY <1>i, <1>2 DEF SlotsHold
      <4> QED BY <4>1, <3>1, <1>3
    <3> QED BY <3>2, <1>f
  <2>2. ringStart' \in Places /\ ringCount' \in 0 .. RingLimit /\ ringDropped' \in Nat
    <3>1. 1 \in 0 .. RingLimit /\ ringDropped \in Nat
      BY <1>f, <1>i DEF RingShape
    <3> QED BY <3>1, <1>u, <1>p, <1>f
  <2>3. ringSpans' \in [Places -> Nat] /\ ringSizes' \in [Places -> Nat]
    BY <1>u, <1>f
  <2> QED BY <2>1, <2>2, <2>3, <1>u, <1>b, <1>i DEF RingShape, Recorded, Before
<1>5. \A k \in RingSlots' : /\ k + 1 \in RingSlots /\ k \in Nat
                        /\ RingSpan(k)' = RingSpan(k + 1) /\ RingSize(k)' = RingSize(k + 1)
                        /\ Before(RingSpan(k))' = Before(RingSpan(k + 1))
  BY <1>1, <1>2, <1>u DEF Before
<1>6. SlotsHold'
  BY <1>5, <1>b, <1>u, <1>i DEF SlotsHold
<1>7. SlotsOrdered'
  <2>1. \A j, k \in RingSlots' : j < k => j + 1 < k + 1
    BY <1>5
  <2>2. \A j, k \in RingSlots' : k = j + 1 => k + 1 = (j + 1) + 1
    OBVIOUS
  <2>3. \A j, k \in RingSlots' : j < k => /\ RingSpan(j)' < RingSpan(k)'
                                      /\ colBytes'[RingSpan(j)'] <= Before(RingSpan(k))'
    BY <2>1, <1>5, <1>u, <1>i DEF SlotsOrdered
  <2>4. \A j, k \in RingSlots' : k = j + 1 => colBytes'[RingSpan(j)'] = Before(RingSpan(k))'
    BY <2>2, <1>5, <1>u, <1>i DEF SlotsOrdered
  <2>5. ASSUME NEW k \in RingSlots', k + 1 = ringCount'
        PROVE colBytes'[RingSpan(k)'] = Before(Newest + 1)'
    <3>1. k + 1 \in RingSlots /\ (k + 1) + 1 = ringCount /\ RingSpan(k)' = RingSpan(k + 1)
      BY <2>5, <1>5, <1>u, <1>f
    <3> QED BY <3>1, <1>b, <1>u, <1>i DEF SlotsOrdered
  <2> QED BY <2>3, <2>4, <2>5 DEF SlotsOrdered
<1>8. TotalExact'
  <2>1. ringTotal' = Before(Newest + 1) - colBytes[RingSpan(0)]
    BY <1>u, <1>3
  <2>2. CASE ringCount = 1
    <3>1. colBytes[RingSpan(0)] = Before(Newest + 1)
      BY <2>2, <1>2, <1>i DEF SlotsOrdered
    <3> QED BY <2>1, <2>2, <3>1, <1>3, <1>u DEF TotalExact
  <2>3. CASE ringCount > 1
    <3>1. 0 \in RingSlots /\ 1 \in RingSlots /\ 0 \in RingSlots' /\ 1 = 0 + 1
      BY <2>3, <1>2, <1>f DEF RingSlots
    <3>2. colBytes[RingSpan(0)] = Before(RingSpan(1))
      BY <3>1, <1>i DEF SlotsOrdered
    <3>3. Before(RingSpan(0))' = Before(RingSpan(1))
      BY <3>1, <1>5
    <3> QED BY <2>1, <2>3, <3>2, <3>3, <1>u, <1>b, <1>f DEF TotalExact
  <2> QED BY <2>2, <2>3, <1>f
<1>9. ~WithinLimits(RingSpan(0)) /\ \A k \in RingSlots' : RingSpan(0) < RingSpan(k)'
  <2>1. ASSUME NEW k \in RingSlots' PROVE RingSpan(0) < RingSpan(k)'
    <3>1. 0 < k + 1 /\ k + 1 \in RingSlots
      BY <1>5
    <3> QED BY <3>1, <1>2, <1>5, <1>i DEF SlotsOrdered
  <2>2. CASE ringTotal + ringStoring > RingBytes
    <3>1. AllBytes - Before(RingSpan(0)) > RingBytes
      BY <2>2, <1>3, <1>h, <1>f
    <3>2. ~(AllBytes - Before(RingSpan(0)) <= RingBytes)
      BY <3>1, <1>3, <1>h, <1>f
    <3> QED BY <3>2, <2>1 DEF WithinLimits
  <2>3. CASE ringCount = RingLimit
    <3> DEFINE first == RingSpan(0)
               f == [k \in 0 .. ringCount |-> IF k = ringCount THEN Len(colBytes)
                                                               ELSE RingSpan(k)]
    <3>1. Len(colBytes) \in From(first)
      <4>1. colBytes[Len(colBytes)] > Before(Len(colBytes)) /\ Len(colBytes) > 0
        <5>1. /\ Len(colBytes) > 0
              /\ colBytes[Len(colBytes)] = Before(Len(colBytes)) + ringStoring
          BY <1>i, <1>f DEF RingShape
        <5>2. Before(Len(colBytes)) \in Nat
          BY <5>1, <1>h, <1>f
        <5> QED BY <5>1, <5>2, <1>f
      <4> QED BY <4>1, <1>3, <1>f DEF From, Accepted, Recorded
    <3>2. \A k \in RingSlots : RingSpan(k) \in From(first)
      <4>1. ASSUME NEW k \in RingSlots PROVE RingSpan(k) >= first /\ RingSpan(k) \in Accepted
        <5>1. RingSpan(k) \in Accepted
          BY <1>i, <1>f, <1>h DEF SlotsHold, Accepted, Recorded
        <5>2. k = 0 \/ RingSpan(0) < RingSpan(k)
          BY <1>2, <1>f, <1>i DEF SlotsOrdered, RingSlots
        <5> QED BY <5>1, <5>2, <1>3, <1>i DEF SlotsHold
      <4> QED BY <4>1 DEF From
    <3>3. \A j, k \in RingSlots : RingSpan(j) = RingSpan(k) => j = k
      <4>1. \A j, k \in RingSlots : j < k \/ k < j \/ j = k
        BY <1>f DEF RingSlots
      <4>2. \A k \in RingSlots : RingSpan(k) \in Nat
        BY <1>i DEF SlotsHold
      <4> QED BY <4>1, <4>2, <1>i DEF SlotsOrdered
    <3>4. \A k \in RingSlots : RingSpan(k) # Len(colBytes)
      BY <1>i, <1>f DEF SlotsHold
    <3>5. \A k \in 0 .. ringCount : k = ringCount \/ k \in RingSlots
      BY <1>f DEF RingSlots
    <3> HIDE DEF first
    <3>6. f \in [0 .. ringCount -> From(first)]
      BY <3>1, <3>2, <3>5
    <3>7. \A j, k \in 0 .. ringCount : f[j] = f[k] => j = k
      BY <3>3, <3>4, <3>5
    <3> HIDE DEF f
    <3>8. f \in Injection(0 .. ringCount, From(first))
      BY <3>6, <3>7 DEF Injection, IsInjective
    <3>9. IsFiniteSet(From(first))
      <4>1. From(first) \in SUBSET (1 .. Len(colBytes))
        BY DEF From, Accepted, Recorded
      <4>2. IsFiniteSet(1 .. Len(colBytes))
        BY <1>f, FS_Interval
      <4> QED BY <4>1, <4>2, FS_Subset
    <3>10. /\ Cardinality(0 .. ringCount) <= Cardinality(From(first))
           /\ Cardinality(From(first)) \in Nat
      BY <3>8, <3>9, FS_Injection, FS_CardinalityType
    <3>11. Cardinality(0 .. ringCount) = ringCount + 1
      BY <1>f, FS_Interval
    <3> QED BY <3>10, <3>11, <2>1, <2>3, <1>f DEF WithinLimits, first
  <2> QED BY <2>2, <2>3, <1>u
<1>10. EvictedOrHeld'
  <2> SUFFICES ASSUME NEW n \in Accepted, n <= Newest
               PROVE \/ \E k \in RingSlots' : RingSpan(k)' = n
                     \/ ~WithinLimits(n)' /\ \A k \in RingSlots' : n < RingSpan(k)'
    BY <1>b DEF EvictedOrHeld
  <2>1. CASE \E k \in RingSlots : RingSpan(k) = n
    <3>1. PICK k \in RingSlots : RingSpan(k) = n
      BY <2>1
    <3>2. CASE k = 0
      BY <3>1, <3>2, <1>9, <1>b
    <3>3. CASE k # 0
      <4> DEFINE j == k - 1
      <4>1. j \in RingSlots' /\ RingSpan(j)' = RingSpan(k)
        BY <3>3, <1>2
      <4> HIDE DEF j
      <4> QED BY <4>1, <3>1
    <3> QED BY <3>2, <3>3
  <2>2. CASE ~WithinLimits(n) /\ \A k \in RingSlots : n < RingSpan(k)
    BY <2>2, <1>5, <1>b
  <2> QED BY <2>1, <2>2, <1>i DEF EvictedOrHeld
<1>11. ringDropped' = Newest' - ringCount'
  BY <1>u, <1>b, <1>i, <1>f
<1> QED BY <1>4, <1>6, <1>7, <1>8, <1>10, <1>11 DEF RingInv

\* The span is stored behind the newest.
LEMMA StoreKeepsRing ==
  ASSUME RingInv, StoreSpan
  PROVE  RingInv'
<1>i. RingShape /\ SlotsHold /\ SlotsOrdered /\ TotalExact /\ EvictedOrHeld
      /\ ringDropped = Newest - ringCount
  BY DEF RingInv
<1>f. /\ Len(colBytes) \in Nat /\ Newest \in Nat /\ Newest = Len(colBytes) - 1
      /\ ringCount \in Nat /\ ringCount < RingLimit /\ RingLimit \in Nat
      /\ ringStoring \in Nat /\ ringStoring > 0 /\ ringStart \in Places
      /\ ringTotal \in Nat /\ ringTotal + ringStoring <= RingBytes /\ RingBytes \in Nat
      /\ ringSpans \in [Places -> Nat] /\ ringSizes \in [Places -> Nat]
  <2>1. ringStoring > 0 /\ ~RingOverflows
    BY DEF StoreSpan
  <2>2. Newest = Len(colBytes) - 1 /\ Len(colBytes) \in Nat /\ Newest \in Nat
    BY <1>i, <2>1, HistoryFacts
  <2>3. /\ RingLimit \in Nat \ {0} /\ RingBytes \in Nat /\ SpanBytes \in Nat
        /\ SpanBytes <= RingBytes
    BY ColAssumption
  <2>4. /\ ringCount \in 0 .. RingLimit /\ ringTotal \in Nat /\ ringStoring \in Nat
        /\ ringStoring <= SpanBytes
        /\ ringCount = 0 => ringTotal = 0
    BY <1>i DEF RingShape, TotalExact
  <2>5. ringCount < RingLimit /\ ringTotal + ringStoring <= RingBytes
    BY <2>1, <2>3, <2>4 DEF RingOverflows
  <2> QED BY <1>i, <2>1, <2>2, <2>3, <2>4, <2>5 DEF RingShape
<1>h. /\ \A n \in 1 .. Len(colBytes) : colBytes[n] \in Nat
      /\ \A n \in 1 .. Len(colBytes) + 1 : Before(n) \in Nat
      /\ AllBytes \in Nat /\ Before(Newest + 1) + ringStoring = AllBytes
      /\ AllBytes = Before(Len(colBytes) + 1)
  BY <1>i, HistoryFacts
<1>l. /\ Len(colBytes) > 0 /\ Newest + 1 = Len(colBytes)
      /\ colBytes[Len(colBytes)] = Before(Len(colBytes)) + ringStoring
      /\ Before(Len(colBytes)) \in Nat /\ colBytes[Len(colBytes)] = AllBytes
  <2>1. /\ Len(colBytes) > 0 /\ Newest + 1 = Len(colBytes)
        /\ colBytes[Len(colBytes)] = Before(Len(colBytes)) + ringStoring
    BY <1>i, <1>f DEF RingShape
  <2> QED BY <2>1, <1>h, <1>f
<1>p. /\ RingPlace(ringCount) \in Places
      /\ \A k \in RingSlots : RingPlace(k) \in Places /\ RingPlace(k) # RingPlace(ringCount)
  <2>1. ringCount \in 0 .. RingLimit - 1 /\ ringCount \in 0 .. RingLimit
        /\ \A k \in RingSlots : k \in 0 .. RingLimit - 1 /\ k \in 0 .. RingLimit /\ k # ringCount
    BY <1>f DEF RingSlots
  <2> QED BY <2>1, <1>i, PlacesDiffer
<1>u. /\ ringSpans' = [ringSpans EXCEPT ![RingPlace(ringCount)] = Len(colBytes)]
      /\ ringSizes' = [ringSizes EXCEPT ![RingPlace(ringCount)] = ringStoring]
      /\ ringTotal' = ringTotal + ringStoring /\ ringCount' = ringCount + 1
      /\ ringStoring' = 0 /\ ringStart' = ringStart /\ ringDropped' = ringDropped
      /\ colBytes' = colBytes
  BY DEF StoreSpan, RingPlace
<1>b. /\ Newest' = Len(colBytes) /\ AllBytes' = AllBytes /\ Accepted' = Accepted
      /\ \A n : (Before(n)' = Before(n)) /\ (WithinLimits(n)' <=> WithinLimits(n))
  BY <1>u DEF Newest, AllBytes, Before, Accepted, Recorded, WithinLimits, From
<1>1. \A k : RingPlace(k)' = RingPlace(k)
  BY <1>u DEF RingPlace
<1>2. /\ RingSlots' = RingSlots \cup {ringCount} /\ ringCount \notin RingSlots
      /\ \A k \in RingSlots : k \in Nat /\ k < ringCount
  BY <1>u, <1>f DEF RingSlots
<1>3. ASSUME NEW k \in RingSlots
      PROVE /\ RingSpan(k)' = RingSpan(k) /\ RingSize(k)' = RingSize(k)
            /\ Before(RingSpan(k))' = Before(RingSpan(k))
  <2>1. RingSpan(k)' = RingSpan(k) /\ RingSize(k)' = RingSize(k)
    BY <1>1, <1>p, <1>u, <1>f DEF RingSpan, RingSize
  <2> QED BY <2>1, <1>u DEF Before
<1>4. ASSUME NEW k \in RingSlots', k \notin RingSlots
      PROVE /\ k = ringCount /\ RingSpan(k)' = Len(colBytes) /\ RingSize(k)' = ringStoring
            /\ Before(RingSpan(k))' = Before(Len(colBytes))
  <2>1. k = ringCount
    BY <1>4, <1>2
  <2>2. RingSpan(k)' = Len(colBytes) /\ RingSize(k)' = ringStoring
    BY <2>1, <1>1, <1>p, <1>u, <1>f DEF RingSpan, RingSize
  <2> QED BY <2>1, <2>2, <1>u DEF Before
<1>5. RingShape'
  <2>1. /\ ringTotal' \in Nat /\ ringTotal' <= RingBytes /\ ringCount' \in 0 .. RingLimit
        /\ ringStoring' \in Nat /\ ringStoring' <= SpanBytes
    BY <1>u, <1>f, ColAssumption
  <2>2. ringSpans' \in [Places -> Nat] /\ ringSizes' \in [Places -> Nat]
    BY <1>u, <1>f, <1>p
  <2> QED BY <2>1, <2>2, <1>u, <1>b, <1>i DEF RingShape, Recorded, Before
<1>6. SlotsHold'
  <2> SUFFICES ASSUME NEW k \in RingSlots'
               PROVE /\ RingSpan(k)' \in 1 .. Newest'
                     /\ Before(RingSpan(k))' < colBytes'[RingSpan(k)']
                     /\ RingSize(k)' = colBytes'[RingSpan(k)'] - Before(RingSpan(k))'
    BY DEF SlotsHold
  <2>1. CASE k \in RingSlots
    BY <2>1, <1>3, <1>b, <1>u, <1>f, <1>i DEF SlotsHold
  <2>2. CASE k \notin RingSlots
    BY <2>2, <1>4, <1>b, <1>u, <1>f, <1>l
  <2> QED BY <2>1, <2>2
<1>7. \A k \in RingSlots : /\ RingSpan(k) \in Nat /\ RingSpan(k) < Len(colBytes)
                       /\ colBytes[RingSpan(k)] <= Before(Len(colBytes))
  <2> SUFFICES ASSUME NEW k \in RingSlots
               PROVE /\ RingSpan(k) \in Nat /\ RingSpan(k) < Len(colBytes)
                     /\ colBytes[RingSpan(k)] <= Before(Len(colBytes))
    OBVIOUS
  <2>1. RingSpan(k) \in Nat /\ RingSpan(k) < Len(colBytes) /\ colBytes[RingSpan(k)] \in Nat
    BY <1>i, <1>f, <1>h DEF SlotsHold
  <2>2. CASE k + 1 = ringCount
    BY <2>1, <2>2, <1>l, <1>i DEF SlotsOrdered
  <2>3. CASE k + 1 < ringCount
    <3> DEFINE last == ringCount - 1
    <3>1. last \in RingSlots /\ k < last /\ last + 1 = ringCount
      BY <2>3, <1>2, <1>f DEF RingSlots
    <3> HIDE DEF last
    <3>2. /\ colBytes[RingSpan(k)] <= Before(RingSpan(last))
          /\ colBytes[RingSpan(last)] = Before(Len(colBytes))
      BY <3>1, <1>l, <1>i DEF SlotsOrdered
    <3>3. /\ Before(RingSpan(last)) < colBytes[RingSpan(last)]
          /\ Before(RingSpan(last)) \in Nat /\ colBytes[RingSpan(last)] \in Nat
      BY <3>1, <1>f, <1>h, <1>i DEF SlotsHold
    <3> QED BY <2>1, <3>2, <3>3
  <2> QED BY <2>1, <2>2, <2>3, <1>2, <1>f
<1>8. SlotsOrdered'
  <2>1. ASSUME NEW j \in RingSlots', NEW k \in RingSlots', j < k
        PROVE RingSpan(j)' < RingSpan(k)' /\ colBytes'[RingSpan(j)'] <= Before(RingSpan(k))'
    <3>1. CASE k \in RingSlots
      <4>1. j \in RingSlots
        BY <2>1, <3>1, <1>2, <1>f
      <4> QED BY <2>1, <3>1, <4>1, <1>3, <1>u, <1>i DEF SlotsOrdered
    <3>2. CASE k \notin RingSlots
      <4>1. j \in RingSlots
        BY <2>1, <3>2, <1>4, <1>2, <1>f
      <4> QED BY <3>2, <4>1, <1>3, <1>4, <1>7, <1>u
    <3> QED BY <3>1, <3>2
  <2>2. ASSUME NEW j \in RingSlots', NEW k \in RingSlots', k = j + 1
        PROVE colBytes'[RingSpan(j)'] = Before(RingSpan(k))'
    <3>1. CASE k \in RingSlots
      <4>1. j \in RingSlots
        BY <2>2, <3>1, <1>2, <1>f
      <4> QED BY <2>2, <3>1, <4>1, <1>3, <1>u, <1>i DEF SlotsOrdered
    <3>2. CASE k \notin RingSlots
      <4>1. j \in RingSlots /\ j + 1 = ringCount
        BY <2>2, <3>2, <1>4, <1>2, <1>f
      <4> QED BY <3>2, <4>1, <1>3, <1>4, <1>l, <1>u, <1>i DEF SlotsOrdered
    <3> QED BY <3>1, <3>2
  <2>3. ASSUME NEW k \in RingSlots', k + 1 = ringCount'
        PROVE colBytes'[RingSpan(k)'] = Before(Newest + 1)'
    <3>1. k = ringCount /\ k \notin RingSlots
      BY <2>3, <1>2, <1>u, <1>f
    <3>2. Before(Newest + 1)' = AllBytes
      BY <1>b, <1>u, <1>h DEF Before
    <3> QED BY <3>1, <3>2, <1>4, <1>l, <1>u
  <2> QED BY <2>1, <2>2, <2>3 DEF SlotsOrdered
<1>9. TotalExact'
  <2>1. Before(Newest + 1)' = AllBytes
    BY <1>b, <1>u, <1>h DEF Before
  <2>2. 0 \in RingSlots' /\ ringCount' > 0 /\ ringCount' # 0
    BY <1>u, <1>f DEF RingSlots
  <2>3. CASE ringCount = 0
    <3>1. Before(RingSpan(0))' = Before(Len(colBytes)) /\ ringTotal = 0
      BY <2>2, <2>3, <1>2, <1>4, <1>i DEF RingSlots, TotalExact
    <3> QED BY <2>1, <2>2, <3>1, <1>l, <1>u, <1>f DEF TotalExact
  <2>4. CASE ringCount > 0
    <3>1. 0 \in RingSlots /\ ringTotal = Before(Newest + 1) - Before(RingSpan(0))
      BY <2>4, <1>f, <1>i DEF RingSlots, TotalExact
    <3>2. Before(RingSpan(0))' = Before(RingSpan(0)) /\ Before(RingSpan(0)) \in Nat
      BY <3>1, <1>3, <1>h, <1>f, <1>i DEF SlotsHold
    <3> QED BY <2>1, <2>2, <3>1, <3>2, <1>l, <1>h, <1>u, <1>f DEF TotalExact
  <2> QED BY <2>3, <2>4, <1>f
<1>10. EvictedOrHeld'
  <2> SUFFICES ASSUME NEW n \in Accepted, n <= Len(colBytes)
               PROVE \/ \E k \in RingSlots' : RingSpan(k)' = n
                     \/ ~WithinLimits(n)' /\ \A k \in RingSlots' : n < RingSpan(k)'
    BY <1>b DEF EvictedOrHeld
  <2>n. n \in Nat
    BY DEF Accepted, Recorded
  <2>1. CASE n = Len(colBytes)
    <3>1. ringCount \in RingSlots' /\ ringCount \notin RingSlots
      BY <1>2
    <3>2. \A k \in RingSlots' : k \notin RingSlots => RingSpan(k)' = n
      BY <1>4, <2>1
    <3> QED BY <3>1, <3>2
  <2>2. CASE n # Len(colBytes)
    <3>1. n <= Newest
      BY <2>2, <2>n, <1>f
    <3>2. CASE \E k \in RingSlots : RingSpan(k) = n
      BY <3>2, <1>2, <1>3
    <3>3. CASE ~WithinLimits(n) /\ \A k \in RingSlots : n < RingSpan(k)
      <4>1. \A k \in RingSlots' : n < RingSpan(k)'
        BY <3>3, <1>3, <1>4, <3>1, <2>n, <1>f
      <4> QED BY <4>1, <3>3, <1>b
    <3> QED BY <3>1, <3>2, <3>3, <1>i DEF EvictedOrHeld
  <2> QED BY <2>1, <2>2
<1>11. ringDropped' = Newest' - ringCount'
  BY <1>u, <1>b, <1>i, <1>f
<1> QED BY <1>5, <1>6, <1>8, <1>9, <1>10, <1>11 DEF RingInv

\* The invariant holds in every reachable state.
THEOREM RingInvariant == ColSpec => []RingInv
<1>1. ColInit => RingInv
  <2> SUFFICES ASSUME ColInit PROVE RingInv
    OBVIOUS
  <2>1. RingSlots = {} /\ Newest = 0 /\ Recorded = {} /\ Accepted = {}
    BY DEF ColInit, RingSlots, Newest, Recorded, Accepted
  <2>2. RingShape
    BY <2>1, ColAssumption DEF ColInit, RingShape, Places
  <2> QED BY <2>1, <2>2 DEF ColInit, RingInv, SlotsHold, SlotsOrdered, TotalExact, EvictedOrHeld
<1>2. RingInv /\ [ColNext]_colVars => RingInv'
  <2> SUFFICES ASSUME RingInv, [ColNext]_colVars PROVE RingInv'
    OBVIOUS
  <2>1. CASE UNCHANGED <<colBytes, ringVars>>
    <3>1. /\ \A n : Before(n)' = Before(n) /\ (WithinLimits(n)' <=> WithinLimits(n))
          /\ Newest' = Newest /\ Recorded' = Recorded /\ Accepted' = Accepted /\ RingSlots' = RingSlots
          /\ Before(Newest + 1)' = Before(Newest + 1)
      BY <2>1 DEF ringVars, Newest, AllBytes, Before, Accepted, Recorded, WithinLimits, From, RingSlots
    <3>2. \A k : /\ RingSpan(k)' = RingSpan(k) /\ RingSize(k)' = RingSize(k)
                 /\ Before(RingSpan(k))' = Before(RingSpan(k))
      BY <2>1 DEF ringVars, RingSpan, RingSize, RingPlace, Before
    <3>3. RingShape'
      BY <2>1, <3>1 DEF ringVars, RingInv, RingShape, Before
    <3>4. SlotsHold' /\ SlotsOrdered' /\ TotalExact' /\ EvictedOrHeld'
      BY <2>1, <3>1, <3>2
         DEF ringVars, RingInv, SlotsHold, SlotsOrdered, TotalExact, EvictedOrHeld
    <3> QED BY <2>1, <3>1, <3>3, <3>4 DEF ringVars, RingInv
  <2>2. ASSUME NEW r \in ColRecorders, RecordInRing(r) PROVE RingInv'
    BY <2>2, RecordKeepsRing
  <2>3. CASE DropOldest
    BY <2>3, DropKeepsRing
  <2>4. CASE StoreSpan
    BY <2>4, StoreKeepsRing
  <2>5. ASSUME NEW r \in ColRecorders, SendToSubscribers(r) PROVE RingInv'
    BY <2>5, <2>1 DEF SendToSubscribers
  <2>6. ASSUME NEW c \in ColClients,
               Subscribe(c) \/ ReadSpans(c) \/ SendReplay(c) \/ SendNext(c) \/ Unsubscribe(c)
        PROVE RingInv'
    BY <2>6, <2>1 DEF Subscribe, ReadSpans, SendReplay, SendNext, Unsubscribe
  <2>7. CASE UNCHANGED colVars
    BY <2>7, <2>1 DEF colVars
  <2> QED BY <2>2, <2>3, <2>4, <2>5, <2>6, <2>7 DEF ColNext
<1> QED BY <1>1, <1>2, PTL DEF ColSpec

\* RingSink, for any limits and any sizes: whenever its lock is free the ring
\* holds, in order, as many of the newest spans as its two limits allow, and
\* Dropped counts all the others.
THEOREM RingHoldsNewest == ColSpec => []RingNewest
<1>1. RingInv => RingNewest
  <2> SUFFICES ASSUME RingInv, ringStoring = 0
               PROVE /\ \A k \in 1 .. ringCount - 1 : RingContents[k] < RingContents[k + 1]
                     /\ \A n \in Accepted : n \in RingSet <=> WithinLimits(n)
                     /\ ringCount = Cardinality(RingSet) /\ RingSet \subseteq Accepted
                     /\ ringDropped = Len(colBytes) - ringCount
    BY DEF RingNewest
  <2>i. RingShape /\ SlotsHold /\ SlotsOrdered /\ TotalExact /\ EvictedOrHeld
        /\ ringDropped = Newest - ringCount
    BY DEF RingInv
  <2>f. /\ Len(colBytes) \in Nat /\ Newest = Len(colBytes) /\ ringStart \in Nat
        /\ ringCount \in Nat /\ ringCount <= RingLimit /\ RingLimit \in Nat
        /\ ringTotal \in Nat /\ ringTotal <= RingBytes /\ RingBytes \in Nat
    BY <2>i, HistoryFacts, ColAssumption DEF RingShape, Places
  <2>h. /\ \A n \in 1 .. Len(colBytes) : colBytes[n] \in Nat
        /\ \A n \in 1 .. Len(colBytes) + 1 : Before(n) \in Nat
        /\ AllBytes \in Nat /\ Before(Newest + 1) = AllBytes
    BY <2>i, HistoryFacts
  <2>1. \A k \in 1 .. ringCount : k - 1 \in RingSlots /\ RingContents[k] = RingSpan(k - 1)
    <3> SUFFICES ASSUME NEW k \in 1 .. ringCount
                 PROVE k - 1 \in RingSlots /\ RingContents[k] = RingSpan(k - 1)
      OBVIOUS
    <3>1. k - 1 \in RingSlots /\ ringStart + k - 1 = ringStart + (k - 1)
      BY <2>f DEF RingSlots
    <3> QED BY <3>1 DEF RingContents, RingSpan, RingPlace
  <2>2. RingSet = {RingSpan(k) : k \in RingSlots}
    <3>1. \A k \in RingSlots : k + 1 \in 1 .. ringCount /\ (k + 1) - 1 = k
      BY <2>f DEF RingSlots
    <3>2. \A k \in RingSlots : RingContents[k + 1] = RingSpan(k)
      BY <3>1, <2>1
    <3> QED BY <2>1, <3>1, <3>2 DEF RingSet
  <2>3. \A k \in 1 .. ringCount - 1 : RingContents[k] < RingContents[k + 1]
    <3> SUFFICES ASSUME NEW k \in 1 .. ringCount - 1
                 PROVE RingContents[k] < RingContents[k + 1]
      OBVIOUS
    <3> DEFINE j == k - 1
    <3>1. /\ k \in 1 .. ringCount /\ k + 1 \in 1 .. ringCount /\ (k + 1) - 1 = k
          /\ j \in RingSlots /\ k \in RingSlots /\ j < k
      BY <2>f DEF RingSlots
    <3>2. RingContents[k] = RingSpan(j) /\ RingContents[k + 1] = RingSpan(k)
      BY <3>1, <2>1
    <3> HIDE DEF j
    <3> QED BY <3>1, <3>2, <2>i DEF SlotsOrdered
  <2>4. \A k \in RingSlots : RingSpan(k) \in Accepted /\ RingSpan(k) \in Nat
    BY <2>i, <2>f, <2>h DEF SlotsHold, Accepted, Recorded
  <2>5. \A j, k \in RingSlots : RingSpan(j) = RingSpan(k) => j = k
    <3>1. \A j, k \in RingSlots : j < k \/ k < j \/ j = k
      BY <2>f DEF RingSlots
    <3> QED BY <3>1, <2>4, <2>i DEF SlotsOrdered
  <2>s. IsFiniteSet(RingSlots) /\ Cardinality(RingSlots) = ringCount
    <3>1. 0 \in Int /\ ringCount - 1 \in Int
      BY <2>f
    <3>2. IsFiniteSet(0 .. ringCount - 1)
          /\ Cardinality(0 .. ringCount - 1) = IF 0 > ringCount - 1 THEN 0 ELSE ringCount - 1 - 0 + 1
      BY <3>1, FS_Interval
    <3> QED BY <3>2, <2>f DEF RingSlots
  <2>6. ringCount = Cardinality(RingSet)
    <3> DEFINE f == [k \in RingSlots |-> RingSpan(k)]
    <3>1. f \in [RingSlots -> RingSet]
      BY <2>2
    <3>2. (\A j, k \in RingSlots : f[j] = f[k] => j = k) /\ \A x \in RingSet : \E k \in RingSlots : f[k] = x
      BY <2>2, <2>5
    <3> HIDE DEF f
    <3>3. f \in Bijection(RingSlots, RingSet)
      BY <3>1, <3>2 DEF Bijection, Injection, Surjection, IsInjective
    <3>4. ExistsBijection(RingSlots, RingSet)
      BY <3>3 DEF ExistsBijection
    <3> QED BY <3>4, <2>s, FS_Bijection
  <2>7. ASSUME NEW k \in RingSlots PROVE WithinLimits(RingSpan(k))
    <3> DEFINE n == RingSpan(k)
               S == {j \in RingSlots : j >= k}
               f == [j \in S |-> RingSpan(j)]
    <3>1. From(n) = {RingSpan(j) : j \in S}
      <4>1. ASSUME NEW m \in From(n) PROVE \E j \in S : RingSpan(j) = m
        <5>1. m \in Accepted /\ m >= n /\ m <= Newest /\ m \in Nat
          BY <2>f DEF From, Accepted, Recorded
        <5>2. PICK j \in RingSlots : RingSpan(j) = m
          BY <5>1, <2>4, <2>i DEF EvictedOrHeld
        <5>3. j >= k
          BY <5>1, <5>2, <2>4, <2>f, <2>i DEF SlotsOrdered, RingSlots
        <5> QED BY <5>2, <5>3
      <4>2. ASSUME NEW j \in S PROVE RingSpan(j) \in From(n)
        <5>1. j = k \/ k < j
          BY <2>f DEF RingSlots
        <5>2. RingSpan(j) >= n
          BY <5>1, <2>4, <2>i DEF SlotsOrdered
        <5> QED BY <5>2, <2>4 DEF From
      <4> QED BY <4>1, <4>2
    <3>2. IsFiniteSet(S) /\ Cardinality(S) <= ringCount /\ Cardinality(S) \in Nat
      <4>1. S \in SUBSET RingSlots
        OBVIOUS
      <4> HIDE DEF S
      <4> QED BY <4>1, <2>s, FS_Subset, FS_CardinalityType
    <3>3. f \in Surjection(S, From(n))
      <4>1. f \in [S -> From(n)] /\ \A x \in From(n) : \E j \in S : f[j] = x
        BY <3>1
      <4> HIDE DEF f, S, n
      <4> QED BY <4>1 DEF Surjection
    <3>4. Cardinality(From(n)) <= RingLimit
      <4> HIDE DEF f, S, n
      <4>1. IsFiniteSet(From(n)) /\ Cardinality(From(n)) <= Cardinality(S)
        BY <3>2, <3>3, FS_Surjection
      <4>2. Cardinality(From(n)) \in Nat
        BY <4>1, FS_CardinalityType
      <4> QED BY <4>1, <4>2, <3>2, <2>f
    <3>5. AllBytes - Before(n) <= RingBytes
      <4>1. 0 \in RingSlots /\ ringCount > 0
        BY <2>f DEF RingSlots
      <4>2. ringTotal = AllBytes - Before(RingSpan(0))
        BY <4>1, <2>h, <2>i DEF TotalExact
      <4>3. /\ Before(RingSpan(0)) \in Nat /\ colBytes[RingSpan(0)] \in Nat /\ Before(n) \in Nat
            /\ Before(RingSpan(0)) < colBytes[RingSpan(0)]
        BY <4>1, <2>f, <2>h, <2>i DEF SlotsHold
      <4>4. k = 0 \/ colBytes[RingSpan(0)] <= Before(n)
        <5>1. k = 0 \/ 0 < k
          BY <2>f DEF RingSlots
        <5> QED BY <5>1, <4>1, <2>i DEF SlotsOrdered
      <4>5. Before(RingSpan(0)) <= Before(n)
        BY <4>3, <4>4
      <4> QED BY <4>2, <4>3, <4>5, <2>h, <2>f
    <3> QED BY <3>4, <3>5 DEF WithinLimits
  <2>8. ASSUME NEW n \in Accepted PROVE n \in RingSet <=> WithinLimits(n)
    <3>1. n <= Newest
      BY <2>f DEF Accepted, Recorded
    <3>2. (\E k \in RingSlots : RingSpan(k) = n) \/ ~WithinLimits(n)
      BY <3>1, <2>i DEF EvictedOrHeld
    <3> QED BY <3>2, <2>2, <2>7
  <2>9. RingSet \subseteq Accepted
    BY <2>2, <2>4
  <2> QED BY <2>3, <2>6, <2>8, <2>9, <2>f, <2>i
<1> QED BY <1>1, RingInvariant, PTL

\* The ring's places and the recorders name spans that were recorded, and the
\* sizes are those of spans.
RingBounds ==
  /\ Len(colBytes) <= MaxColSpans
  /\ \A i \in Places : ringSpans[i] <= Len(colBytes) /\ ringSizes[i] \in {0} \cup ColSizes
  /\ ringStoring \in {0} \cup ColSizes
  /\ \A r \in ColRecorders : colSending[r] <= Len(colBytes)

\* A channel is within its capacity, and a client is told of recorded spans only.
ClientBounds(c) ==
  /\ Len(colChan[c]) <= ColQueue
  /\ Elements(colChan[c]) \subseteq Recorded
  /\ colReplay[c] \cup colSent[c] \cup colMissed[c] \cup colGone[c] \subseteq Recorded

\* The ring's bounds are kept by every step.
LEMMA RingBoundsStep ==
  ASSUME StreamTypes, RingInv, RingBounds, [ColNext]_colVars
  PROVE  RingBounds' /\ Len(colBytes) \in Nat /\ Len(colBytes') \in Nat /\ Len(colBytes) <= Len(colBytes')
<1>t. /\ colBytes \in Seq(Nat) /\ Len(colBytes) \in Nat /\ MaxColSpans \in Nat
      /\ colSending \in [ColRecorders -> Nat]
      /\ ringSpans \in [Places -> Nat] /\ ringSizes \in [Places -> Nat]
      /\ ringStart \in Places
  BY ColAssumption DEF StreamTypes, RingInv, RingShape
<1>b. /\ Len(colBytes) <= MaxColSpans /\ ringStoring \in {0} \cup ColSizes
      /\ \A i \in Places : ringSpans[i] <= Len(colBytes) /\ ringSizes[i] \in {0} \cup ColSizes
      /\ \A r \in ColRecorders : colSending[r] <= Len(colBytes)
  BY DEF RingBounds
<1>1. ASSUME NEW r \in ColRecorders, RecordInRing(r)
      PROVE  RingBounds' /\ Len(colBytes') = Len(colBytes) + 1
  <2>1. /\ \E bytes : colBytes' = Append(colBytes, bytes)
        /\ Len(colBytes) < MaxColSpans
        /\ ringStoring' \in {ringStoring} \cup ColSizes
        /\ colSending' = [colSending EXCEPT ![r] = Len(colBytes) + 1]
        /\ ringSpans' = ringSpans /\ ringSizes' = ringSizes
    BY <1>1 DEF RecordInRing
  <2>2. Len(colBytes') = Len(colBytes) + 1
    BY <2>1, <1>t
  <2>3. \A q \in ColRecorders : colSending'[q] \in {colSending[q], Len(colBytes) + 1}
    BY <2>1, <1>t
  <2>4. /\ \A q \in ColRecorders : colSending'[q] <= Len(colBytes')
        /\ \A i \in Places : ringSpans[i] <= Len(colBytes')
        /\ Len(colBytes') <= MaxColSpans
    BY <2>1, <2>2, <2>3, <1>t, <1>b
  <2> QED BY <2>1, <2>2, <2>4, <1>b DEF RingBounds
<1>2. CASE DropOldest
  <2>1. /\ ringSpans' = [ringSpans EXCEPT ![ringStart] = 0]
        /\ ringSizes' = [ringSizes EXCEPT ![ringStart] = 0]
        /\ UNCHANGED <<colBytes, ringStoring, colSending>>
    BY <1>2 DEF DropOldest
  <2>2. \A i \in Places : ringSpans'[i] \in {0, ringSpans[i]} /\ ringSizes'[i] \in {0, ringSizes[i]}
    BY <2>1, <1>t
  <2> QED BY <2>1, <2>2, <1>t, <1>b DEF RingBounds
<1>3. CASE StoreSpan
  <2> DEFINE index == (ringStart + ringCount) % RingLimit
  <2>1. /\ ringSpans' = [ringSpans EXCEPT ![index] = Len(colBytes)]
        /\ ringSizes' = [ringSizes EXCEPT ![index] = ringStoring]
        /\ ringStoring' = 0 /\ UNCHANGED <<colBytes, colSending>>
    BY <1>3 DEF StoreSpan
  <2> HIDE DEF index
  <2>2. \A i \in Places : /\ ringSpans'[i] \in {Len(colBytes), ringSpans[i]}
                          /\ ringSizes'[i] \in {ringStoring, ringSizes[i]}
    BY <2>1, <1>t
  <2> QED BY <2>1, <2>2, <1>t, <1>b DEF RingBounds
<1>4. ASSUME NEW r \in ColRecorders, SendToSubscribers(r) PROVE RingBounds' /\ colBytes' = colBytes
  <2>1. /\ colSending' = [colSending EXCEPT ![r] = 0]
        /\ colBytes' = colBytes /\ ringSpans' = ringSpans /\ ringSizes' = ringSizes
        /\ ringStoring' = ringStoring
    BY <1>4 DEF SendToSubscribers, ringVars
  <2>2. \A q \in ColRecorders : colSending'[q] \in {0, colSending[q]}
    BY <2>1, <1>t
  <2> QED BY <2>1, <2>2, <1>t, <1>b DEF RingBounds
<1>5. ASSUME NEW c \in ColClients,
             Subscribe(c) \/ ReadSpans(c) \/ SendReplay(c) \/ SendNext(c) \/ Unsubscribe(c)
      PROVE  RingBounds' /\ colBytes' = colBytes
  <2>1. UNCHANGED <<colBytes, ringVars, colSending>>
    BY <1>5 DEF Subscribe, ReadSpans, SendReplay, SendNext, Unsubscribe
  <2> QED BY <2>1, <1>b DEF RingBounds, ringVars
<1>6. CASE UNCHANGED colVars
  BY <1>6, <1>b DEF RingBounds, ringVars, colVars
<1>7. RingBounds' /\ (colBytes' = colBytes \/ Len(colBytes') = Len(colBytes) + 1)
  <2>1. DropOldest \/ StoreSpan \/ UNCHANGED colVars => colBytes' = colBytes
    BY DEF DropOldest, StoreSpan, colVars
  <2> QED BY <2>1, <1>1, <1>2, <1>3, <1>4, <1>5, <1>6 DEF ColNext
<1> QED BY <1>7, <1>t

\* What the ring holds when its lock is free was recorded.
LEMMA RingSetRecorded ==
  ASSUME RingInv, ringStoring = 0
  PROVE  RingSet \subseteq Recorded
<1>1. /\ Len(colBytes) \in Nat /\ Newest = Len(colBytes) /\ ringCount \in Nat /\ ringStart \in Nat
  BY HistoryFacts, ColAssumption DEF RingInv, RingShape, Places
<1>2. ASSUME NEW k \in 1 .. ringCount PROVE RingContents[k] \in Recorded
  <2>1. k - 1 \in RingSlots /\ ringStart + k - 1 = ringStart + (k - 1)
    BY <1>1 DEF RingSlots
  <2>2. RingContents[k] = RingSpan(k - 1)
    BY <2>1 DEF RingContents, RingSpan, RingPlace
  <2>3. RingSpan(k - 1) \in 1 .. Newest
    BY <2>1 DEF RingInv, SlotsHold
  <2> QED BY <2>2, <2>3, <1>1 DEF Recorded
<1> QED BY <1>2 DEF RingSet

\* A client's bounds are kept by every step.
LEMMA ClientBoundsStep ==
  ASSUME StreamTypes, RingInv, RingBounds, [ColNext]_colVars,
         NEW c \in ColClients, ClientBounds(c)
  PROVE  ClientBounds(c)'
<1>t. /\ Len(colBytes) \in Nat /\ colSending \in [ColRecorders -> Nat] /\ ColQueue \in Nat
      /\ colChan \in [ColClients -> Seq(Nat)] /\ colChan[c] \in Seq(Nat)
      /\ colReplay = [d \in ColClients |-> colReplay[d]] /\ colSent = [d \in ColClients |-> colSent[d]]
      /\ colMissed = [d \in ColClients |-> colMissed[d]] /\ colGone = [d \in ColClients |-> colGone[d]]
  BY ColAssumption DEF StreamTypes
<1>b. /\ Len(colChan[c]) <= ColQueue
      /\ Elements(colChan[c]) \subseteq Recorded
      /\ colReplay[c] \subseteq Recorded /\ colSent[c] \subseteq Recorded
      /\ colMissed[c] \subseteq Recorded /\ colGone[c] \subseteq Recorded
  BY DEF ClientBounds
<1>g. Recorded \subseteq Recorded'
  <2>1. Len(colBytes') \in Nat /\ Len(colBytes) <= Len(colBytes')
    BY RingBoundsStep
  <2> QED BY <2>1, <1>t DEF Recorded
<1>1. CASE /\ colChan'[c] = colChan[c] /\ colReplay'[c] = colReplay[c] /\ colSent'[c] = colSent[c]
           /\ colMissed'[c] = colMissed[c] /\ colGone'[c] = colGone[c]
  BY <1>1, <1>b, <1>g DEF ClientBounds
<1>2. ASSUME NEW r \in ColRecorders, SendToSubscribers(r) PROVE ClientBounds(c)'
  <2> DEFINE x == colSending[r]
  <2>x. x \in Nat /\ x # 0 /\ x \in Recorded
    BY <1>2, <1>t DEF SendToSubscribers, RingBounds, Recorded
  <2>1. /\ colChan'[c] = IF c \in Subscribed /\ HasRoom(c) THEN Append(colChan[c], x) ELSE colChan[c]
        /\ colMissed'[c] \subseteq colMissed[c] \cup {x}
        /\ UNCHANGED <<colBytes, colReplay, colSent, colGone>>
    BY <1>2 DEF SendToSubscribers
  <2> HIDE DEF x
  <2>2. Len(colChan'[c]) <= ColQueue /\ Elements(colChan'[c]) \subseteq Recorded
    <3>1. CASE c \in Subscribed /\ HasRoom(c)
      <4>1. colChan'[c] = Append(colChan[c], x)
        BY <2>1, <3>1
      <4>2. Len(colChan'[c]) = Len(colChan[c]) + 1 /\ Len(colChan[c]) \in Nat
        BY <4>1, <2>x, <1>t
      <4>3. Elements(colChan'[c]) = Elements(colChan[c]) \cup {x}
        BY <4>1, <2>x, <1>t, ChannelElements
      <4>4. Len(colChan[c]) < ColQueue
        BY <3>1 DEF HasRoom
      <4> QED BY <4>2, <4>3, <4>4, <2>x, <1>b, <1>t
    <3>2. CASE ~(c \in Subscribed /\ HasRoom(c))
      BY <2>1, <3>2, <1>b
    <3> QED BY <3>1, <3>2
  <2>3. Recorded' = Recorded
    BY <2>1 DEF Recorded
  <2> QED BY <2>1, <2>2, <2>3, <2>x, <1>b DEF ClientBounds
<1>3. ASSUME ReadSpans(c) PROVE ClientBounds(c)'
  <2>1. /\ colReplay'[c] = RingSet /\ colGone'[c] = Recorded \ RingSet
        /\ UNCHANGED <<colBytes, colChan, colSent, colMissed>> /\ ringStoring = 0
    BY <1>3, <1>t DEF ReadSpans, ReadRing
  <2>2. RingSet \subseteq Recorded
    BY <2>1, RingSetRecorded
  <2>3. Recorded' = Recorded
    BY <2>1 DEF Recorded
  <2> QED BY <2>1, <2>2, <2>3, <1>b DEF ClientBounds
<1>4. ASSUME SendReplay(c) PROVE ClientBounds(c)'
  <2>1. /\ colSent'[c] = colSent[c] \cup colReplay[c] /\ colReplay'[c] = {}
        /\ UNCHANGED <<colBytes, colChan, colMissed, colGone>>
    BY <1>4, <1>t DEF SendReplay
  <2>3. Recorded' = Recorded
    BY <2>1 DEF Recorded
  <2> QED BY <2>1, <2>3, <1>b DEF ClientBounds
<1>5. ASSUME SendNext(c) PROVE ClientBounds(c)'
  <2>1. /\ colChan[c] # <<>> /\ colSent'[c] = colSent[c] \cup {Head(colChan[c])}
        /\ colChan'[c] = Tail(colChan[c])
        /\ UNCHANGED <<colBytes, colReplay, colMissed, colGone>>
    BY <1>5, <1>t DEF SendNext
  <2>2. Elements(colChan[c]) = {Head(colChan[c])} \cup Elements(Tail(colChan[c]))
    BY <2>1, <1>t, ChannelElements
  <2>3. Len(colChan'[c]) <= ColQueue
    BY <2>1, <1>b, <1>t
  <2>4. Recorded' = Recorded
    BY <2>1 DEF Recorded
  <2>5. Elements(colChan'[c]) \subseteq Recorded /\ Head(colChan[c]) \in Recorded
    BY <2>1, <2>2, <1>b
  <2> QED BY <2>1, <2>3, <2>4, <2>5, <1>b DEF ClientBounds
<1>6. ASSUME Unsubscribe(c) PROVE ClientBounds(c)'
  <2>1. colChan'[c] = <<>> /\ colReplay'[c] = {} /\ colSent'[c] = {}
    BY <1>6, <1>t DEF Unsubscribe
  <2>2. colMissed'[c] = {} /\ colGone'[c] = {}
    BY <1>6, <1>t DEF Unsubscribe
  <2>3. Len(<<>>) = 0 /\ Elements(<<>>) = {}
    BY DEF Elements
  <2> QED BY <2>1, <2>2, <2>3, <1>t DEF ClientBounds
<1>7. ASSUME NEW d \in ColClients, d # c,
             Subscribe(d) \/ ReadSpans(d) \/ SendReplay(d) \/ SendNext(d) \/ Unsubscribe(d)
      PROVE  /\ colChan'[c] = colChan[c] /\ colReplay'[c] = colReplay[c] /\ colSent'[c] = colSent[c]
             /\ colMissed'[c] = colMissed[c] /\ colGone'[c] = colGone[c]
  <2>1. CASE Subscribe(d)
    BY <2>1 DEF Subscribe
  <2>2. CASE ReadSpans(d)
    BY <2>2, <1>7, <1>t DEF ReadSpans, ReadRing
  <2>3. CASE SendReplay(d)
    BY <2>3, <1>7, <1>t DEF SendReplay
  <2>4. CASE SendNext(d)
    BY <2>4, <1>7, <1>t DEF SendNext
  <2>5. CASE Unsubscribe(d)
    <3>1. colChan'[c] = colChan[c] /\ colReplay'[c] = colReplay[c] /\ colSent'[c] = colSent[c]
      BY <2>5, <1>7, <1>t DEF Unsubscribe
    <3>2. colMissed'[c] = colMissed[c] /\ colGone'[c] = colGone[c]
      BY <2>5, <1>7, <1>t DEF Unsubscribe
    <3> QED BY <3>1, <3>2
  <2> QED BY <1>7, <2>1, <2>2, <2>3, <2>4, <2>5
<1>8. CASE Subscribe(c)
  BY <1>8, <1>1 DEF Subscribe
<1>9. CASE DropOldest \/ StoreSpan \/ (\E r \in ColRecorders : RecordInRing(r)) \/ UNCHANGED colVars
  <2>1. UNCHANGED colClient
    BY <1>9 DEF DropOldest, StoreSpan, RecordInRing, colVars
  <2> QED BY <2>1, <1>1 DEF colClient
<1>10. ASSUME NEW d \in ColClients,
              Subscribe(d) \/ ReadSpans(d) \/ SendReplay(d) \/ SendNext(d) \/ Unsubscribe(d)
       PROVE  ClientBounds(c)'
  <2>1. CASE d = c
    BY <1>10, <2>1, <1>3, <1>4, <1>5, <1>6, <1>8
  <2>2. CASE d # c
    BY <1>10, <2>2, <1>7, <1>1
  <2> QED BY <2>1, <2>2
<1> QED BY <1>2, <1>9, <1>10 DEF ColNext

\* The ring and the channels of the subscribers keep to their capacities, and
\* the count of dropped spans never passes that of the recorded ones, for any
\* limits, recorders and clients.
THEOREM CollectorIsBounded == ColSpec => []ColTypeOK
<1> DEFINE Bounds == RingBounds /\ \A c \in ColClients : ClientBounds(c)
<1>1. ASSUME ColInit PROVE Bounds
  <2>1. /\ colBytes = <<>> /\ ringSpans = [i \in Places |-> 0] /\ ringSizes = [i \in Places |-> 0]
        /\ ringStoring = 0 /\ colSending = [r \in ColRecorders |-> 0]
        /\ colChan = [c \in ColClients |-> <<>>]
    BY <1>1 DEF ColInit
  <2>2. RingBounds
    BY <2>1, ColAssumption DEF RingBounds
  <2>3. ASSUME NEW c \in ColClients PROVE ClientBounds(c)
    <3>1. colChan[c] = <<>> /\ Len(<<>>) = 0 /\ Elements(<<>>) = {}
      BY <2>1 DEF Elements
    <3>2. colReplay[c] = {} /\ colSent[c] = {} /\ colMissed[c] = {} /\ colGone[c] = {}
      BY <1>1 DEF ColInit, Nothing
    <3> QED BY <3>1, <3>2, ColAssumption DEF ClientBounds
  <2> QED BY <2>2, <2>3
<1>2. ColInv /\ RingInv /\ Bounds /\ [ColNext]_colVars => Bounds'
  <2> SUFFICES ASSUME ColInv, RingInv, Bounds, [ColNext]_colVars PROVE Bounds'
    OBVIOUS
  <2>1. StreamTypes
    BY DEF ColInv
  <2>2. RingBounds'
    BY <2>1, RingBoundsStep
  <2>3. ASSUME NEW c \in ColClients PROVE ClientBounds(c)'
    BY <2>1, ClientBoundsStep
  <2> QED BY <2>2, <2>3
<1>3. ColInv /\ RingInv /\ Bounds => ColTypeOK
  <2> SUFFICES ASSUME ColInv, RingInv, Bounds PROVE ColTypeOK
    OBVIOUS
  <2>1. /\ Len(colBytes) \in Nat /\ \A n \in Recorded : colBytes[n] \in Nat
        /\ colSending \in [ColRecorders -> Nat]
        /\ colPc \in [ColClients -> {"away", "joined", "replaying", "streaming"}]
    BY DEF ColInv, StreamTypes, Recorded
  <2>2. /\ ringStart \in Places /\ ringCount \in 0 .. RingLimit /\ ringTotal \in Nat
        /\ ringSpans \in [Places -> Nat] /\ ringSizes \in [Places -> Nat]
    BY DEF RingInv, RingShape
  <2>3. ringDropped \in 0 .. Len(colBytes)
    <3>1. Newest \in Nat /\ Newest <= Len(colBytes) /\ ringDropped \in Nat /\ ringDropped = Newest - ringCount
      BY HistoryFacts DEF RingInv, RingShape
    <3>2. ringCount \in Nat /\ 0 <= ringCount
      BY <2>2, ColAssumption
    <3> QED BY <3>1, <3>2, <2>1
  <2>4. ringSpans \in [Places -> {0} \cup Recorded] /\ ringSizes \in [Places -> {0} \cup ColSizes]
    <3>1. \A i \in Places : ringSpans[i] \in {0} \cup Recorded
      BY <2>1, <2>2 DEF RingBounds, Recorded
    <3> QED BY <3>1, <2>2 DEF RingBounds
  <2>5. colSending \in [ColRecorders -> {0} \cup Recorded]
    BY <2>1 DEF RingBounds, Recorded
  <2> QED BY <2>1, <2>2, <2>3, <2>4, <2>5 DEF ColTypeOK, RingBounds, ClientBounds
<1> HIDE DEF Bounds
<1> QED BY <1>1, <1>2, <1>3, ColInvariant, RingInvariant, PTL DEF ColSpec

-----------------------------------------------------------------------------
(* Scheduled jobs.                                                         *)

\* Why an error is there: runCtx is canceled by the caller's context, or after
\* the caller has left its select; a failure is that of a run.
Causes ==
  /\ schCtx => schStop
  /\ schRunner \in {"sequence", "starting", "parked"} /\ schStop => schCtx
  /\ schErr = "canceled" => schStop
  /\ schErr = "failed" => schFailed # {}
  /\ \A j \in Jobs : /\ schDone[j] = "canceled" => schStop
                     /\ schDone[j] = "failed" => j \in schFailed

\* What the caller has decided.
Verdict ==
  /\ schRunner = "stopping" => schResult \in {"failed", "canceled"}
  /\ schRunner \in {"stopping", "returned"} /\ schResult = "canceled" => schCtx
  /\ schRunner \in {"stopping", "returned"} /\ schResult = "failed" => schFailed # {}
  /\ schRunner = "returned" /\ schResult = "nil" =>
       (schOnce = Jobs /\ schFailed = {}) \/ (schClosed /\ schEarly)

\* A sequence has no loops, and has had no failure so far; otherwise there is
\* an @every loop, which leaves its select only with an error for the caller.
Modes ==
  /\ schRunner = "sequence" => schOnce = Jobs /\ schFailed = {} /\ schNext \in Jobs
  /\ schOnce = Jobs => \A j \in Jobs : schLoop[j] = "idle"
  /\ schRunner \in {"starting", "parked", "stopping"} => schOnce # Jobs
  /\ schRunner = "parked" \/ (schRunner = "starting" /\ schErr = "none") =>
       \A j \in Jobs \ schOnce : schLoop[j] = "select"
  /\ schRunner = "starting" /\ schClosed => schEarly

\* The runs of a job: an @every job has one at most, from its tick to the
\* receipt of its outcome; an @once job runs in its loop.
RunsOf(j) == schSpawned[j] + schActive[j] + (IF schDone[j] = "empty" THEN 0 ELSE 1)

OneRun ==
  \A j \in Jobs :
    /\ j \notin schOnce => /\ schLoop[j] \in {"select", "ended"}
                           /\ RunsOf(j) <= IF schRunning[j] THEN 1 ELSE 0
    /\ j \in schOnce => /\ schLoop[j] # "select"
                        /\ schSpawned[j] = 0 /\ schDone[j] = "empty"
                        /\ schActive[j] = IF schLoop[j] = "inrun" THEN 1 ELSE 0

SchInv == SchTypeOK /\ Causes /\ Verdict /\ Modes /\ OneRun

\* The parts of the type that a step of a loop changes.
LEMMA SchTypes ==
  ASSUME SchTypeOK
  PROVE  /\ schCtx \in BOOLEAN /\ schStop \in BOOLEAN /\ schClosed \in BOOLEAN /\ schEarly \in BOOLEAN
         /\ SchJobs \in Nat /\ 1 \in Jobs /\ MaxSchTicks \in Nat
         /\ schNext \in Nat
         /\ \A j \in Jobs : /\ schSpawned[j] \in Nat /\ schActive[j] \in Nat /\ schTicks[j] \in Nat
                            /\ schRunning[j] \in BOOLEAN
  BY SchAssumption DEF SchTypeOK, Jobs

\* A loop ends: an error it sends has its cause, and an @every loop sends one.
LEMMA EndLoopKeeps ==
  ASSUME SchInv, NEW j \in Jobs, NEW outcome \in Outcomes, EndLoop(j, outcome),
         UNCHANGED <<schOnce, schCtx, schClosed, schEarly, schNext>>,
         schFailed' \subseteq Jobs, schFailed \subseteq schFailed',
         outcome = "canceled" => schStop,
         outcome = "failed" => schFailed' # {},
         outcome = "ok" => j \in schOnce,
         schLoop[j] # "idle",
         \A i \in Jobs : schDone'[i] \in {schDone[i], "empty"}
  PROVE  Causes' /\ Verdict' /\ Modes'
         /\ schLoop' = [schLoop EXCEPT ![j] = "ended"]
         /\ schLoop' \in [Jobs -> {"idle", "select", "once", "inrun", "ended"}]
         /\ schRunner' \in {"sequence", "starting", "parked", "stopping", "returned"}
         /\ schResult' \in {"none", "nil", "failed", "canceled"}
         /\ schErr' \in {"none", "failed", "canceled"}
         /\ schStop' \in BOOLEAN
<1>t. SchTypeOK /\ Causes /\ Verdict /\ Modes
  BY DEF SchInv
<1>n. schCtx \in BOOLEAN /\ schStop \in BOOLEAN
  BY <1>t, SchTypes
<1>o. schOnce # Jobs
  BY <1>t DEF Modes
<1>s. schRunner # "sequence"
  BY <1>t, <1>o DEF Modes
<1>l. /\ schLoop' = [schLoop EXCEPT ![j] = "ended"]
      /\ schLoop' \in [Jobs -> {"idle", "select", "once", "inrun", "ended"}]
      /\ \A i \in Jobs : i # j => schLoop'[i] = schLoop[i]
  BY <1>t DEF EndLoop, SchTypeOK
<1>1. CASE outcome # "ok" /\ schRunner = "parked"
  <2>1. /\ schRunner' = "stopping" /\ schResult' = outcome /\ schStop' = TRUE /\ schErr' = schErr
    BY <1>1, <1>n DEF EndLoop, Takes, Outcomes
  <2>2. Causes'
    BY <2>1, <1>t DEF Causes
  <2>3. Verdict'
    BY <2>1, <1>1, <1>t DEF Verdict, Causes, Outcomes
  <2>4. Modes'
    BY <2>1, <1>o DEF Modes
  <2> QED BY <2>1, <2>2, <2>3, <2>4, <1>1, <1>l, <1>t DEF Outcomes, SchTypeOK
<1>2. CASE ~(outcome # "ok" /\ schRunner = "parked")
  <2>1. /\ schRunner' = schRunner /\ schResult' = schResult /\ schStop' = schStop
        /\ schErr' = IF outcome # "ok" /\ schErr = "none" THEN outcome ELSE schErr
    BY <1>2 DEF EndLoop
  <2>2. Causes'
    BY <2>1, <1>t DEF Causes, Outcomes
  <2>3. Verdict'
    BY <2>1, <1>o, <1>t DEF Verdict
  <2>4. Modes'
    <3>1. schRunner' = "parked" \/ (schRunner' = "starting" /\ schErr' = "none") => outcome = "ok"
      BY <1>2, <2>1 DEF Outcomes
    <3>2. schRunner' = "parked" \/ (schRunner' = "starting" /\ schErr' = "none") =>
            \A i \in Jobs \ schOnce : schLoop'[i] = "select"
      BY <3>1, <2>1, <1>l, <1>t DEF Modes
    <3> QED BY <3>2, <2>1, <1>o, <1>s, <1>t DEF Modes
  <2> QED BY <2>1, <2>2, <2>3, <2>4, <1>l, <1>n, <1>t DEF Outcomes, SchTypeOK
<1> QED BY <1>1, <1>2

\* Steps that leave the caller and the loops where they are.
LEMMA RunsKeep ==
  ASSUME SchInv,
         UNCHANGED <<schOnce, schCaller, schCtx, schStop, schErr, schClosed, schLoop, schEarly>>,
         schFailed' \subseteq Jobs, schFailed \subseteq schFailed',
         schOnce = Jobs => schFailed' = schFailed,
         \A j \in Jobs : /\ schDone'[j] = "canceled" => schStop
                         /\ schDone'[j] = "failed" => j \in schFailed'
  PROVE  Causes' /\ Verdict' /\ Modes'
<1>t. SchTypeOK /\ Causes /\ Verdict /\ Modes
  BY DEF SchInv
<1>u. /\ schRunner' = schRunner /\ schNext' = schNext /\ schResult' = schResult
  BY DEF schCaller
<1>1. Causes'
  BY <1>t, <1>u DEF Causes
<1>2. Verdict'
  BY <1>t, <1>u DEF Verdict
<1>3. Modes'
  BY <1>t, <1>u DEF Modes
<1> QED BY <1>1, <1>2, <1>3

\* Every step keeps the invariant.
LEMMA SchInvStep == SchInv /\ [SchNextStep]_schVars => SchInv'
<1> SUFFICES ASSUME SchInv, [SchNextStep]_schVars PROVE SchInv'
  OBVIOUS
<1>t. SchTypeOK /\ Causes /\ Verdict /\ Modes /\ OneRun
  BY DEF SchInv
<1>n. /\ schCtx \in BOOLEAN /\ schStop \in BOOLEAN /\ schClosed \in BOOLEAN /\ schEarly \in BOOLEAN
      /\ SchJobs \in Nat /\ 1 \in Jobs /\ MaxSchTicks \in Nat /\ schNext \in Nat
      /\ \A j \in Jobs : /\ schSpawned[j] \in Nat /\ schActive[j] \in Nat /\ schTicks[j] \in Nat
                         /\ schRunning[j] \in BOOLEAN
  BY <1>t, SchTypes
<1>f. schFailed \subseteq Jobs
  BY <1>t DEF SchTypeOK
<1>1. CASE UNCHANGED schVars
  BY <1>1, <1>t DEF schVars, schCaller, schRuns, SchInv, SchTypeOK, Causes, Verdict, Modes, OneRun,
                    RunsOf
<1>2. CASE SequenceStep
  <2>1. /\ schRunner = "sequence"
        /\ UNCHANGED <<schOnce, schCtx, schStop, schErr, schClosed, schLoop, schRuns, schEarly>>
    BY <1>2 DEF SequenceStep
  <2>2. schOnce = Jobs /\ schFailed = {} /\ schNext \in Jobs /\ (schStop => schCtx)
    BY <2>1, <1>t DEF Modes, Causes
  <2>3. \/ /\ schRunner' = "returned" /\ schNext' = schNext /\ schFailed' = schFailed
           /\ \/ schResult' = "canceled" /\ schCtx
              \/ schResult' = "nil"
        \/ /\ schRunner' = "returned" /\ schNext' = schNext /\ schFailed' = {schNext}
           /\ schResult' = "failed"
        \/ /\ schRunner' = "sequence" /\ schResult' = schResult /\ schFailed' = schFailed
           /\ schNext' = schNext + 1 /\ schNext # SchJobs
    BY <1>2, <2>1, <2>2 DEF SequenceStep, SequenceReturns, Fails, RunOutcomes
  <2>4. schNext' \in 1 .. SchJobs + 1 /\ (schRunner' = "sequence" => schNext' \in Jobs)
    BY <2>2, <2>3, <1>n DEF Jobs
  <2>5. SchTypeOK'
    BY <2>1, <2>2, <2>3, <2>4, <1>t DEF SchTypeOK, schRuns
  <2>6. Causes' /\ Verdict'
    BY <2>1, <2>2, <2>3, <1>t DEF Causes, Verdict, schRuns
  <2>7. Modes'
    BY <2>1, <2>2, <2>3, <2>4, <1>t DEF Modes, schRuns
  <2>8. OneRun'
    BY <2>1, <1>t DEF OneRun, RunsOf, schRuns
  <2> QED BY <2>5, <2>6, <2>7, <2>8 DEF SchInv
<1>3. CASE RunnerWaits
  <2>1. /\ schRunner = "starting"
        /\ UNCHANGED <<schOnce, schNext, schCtx, schErr, schClosed, schLoop, schRuns, schFailed,
                       schEarly>>
    BY <1>3 DEF RunnerWaits
  <2>2. \/ /\ schErr # "none" /\ schRunner' = "stopping" /\ schResult' = schErr /\ schStop' = TRUE
        \/ /\ schCtx /\ schRunner' = "stopping" /\ schResult' = "canceled" /\ schStop' = TRUE
        \/ /\ schClosed /\ schRunner' = "returned" /\ schResult' = "nil" /\ schStop' = schStop
        \/ /\ schErr = "none" /\ ~schCtx /\ ~schClosed /\ schRunner' = "parked"
           /\ schResult' = schResult /\ schStop' = schStop
    BY <1>3, <1>n, <1>t DEF RunnerWaits, Takes, SchTypeOK
  <2>3. SchTypeOK'
    BY <2>1, <2>2, <1>t DEF SchTypeOK, schRuns
  <2>4. Causes'
    BY <2>1, <2>2, <1>t DEF Causes, schRuns
  <2>5. Verdict'
    BY <2>1, <2>2, <1>t DEF Verdict, Causes, Modes, SchTypeOK
  <2>6. Modes'
    BY <2>1, <2>2, <1>t DEF Modes
  <2>7. OneRun'
    BY <2>1, <1>t DEF OneRun, RunsOf, schRuns
  <2> QED BY <2>3, <2>4, <2>5, <2>6, <2>7 DEF SchInv
<1>4. CASE SchCancel
  <2>1. /\ schCtx' = TRUE /\ schStop' = TRUE
        /\ IF schRunner = "parked" THEN schRunner' = "stopping" /\ schResult' = "canceled"
           ELSE schRunner' = schRunner /\ schResult' = schResult
        /\ UNCHANGED <<schOnce, schNext, schErr, schClosed, schLoop, schRuns, schFailed, schEarly>>
    BY <1>4 DEF SchCancel
  <2>2. SchTypeOK'
    BY <2>1, <1>t DEF SchTypeOK, schRuns
  <2>3. Causes' /\ Verdict' /\ Modes'
    BY <2>1, <1>t DEF Causes, Verdict, Modes, schRuns
  <2>4. OneRun'
    BY <2>1, <1>t DEF OneRun, RunsOf, schRuns
  <2> QED BY <2>2, <2>3, <2>4 DEF SchInv
<1>5. CASE CloseDone
  <2>1. /\ \A j \in Jobs : schLoop[j] = "ended"
        /\ ~schClosed /\ schClosed' = TRUE /\ schEarly' = (schRunner = "starting")
        /\ UNCHANGED <<schOnce, schNext, schCtx, schErr, schLoop, schRuns, schFailed>>
    BY <1>5 DEF CloseDone
  <2>2. schOnce # Jobs
    BY <2>1, <1>n, <1>t DEF Modes
  <2>3. schRunner # "parked"
    <3>1. PICK j \in Jobs : j \notin schOnce
      BY <2>2, <1>t DEF SchTypeOK
    <3> QED BY <3>1, <2>1, <1>t DEF Modes
  <2>4. UNCHANGED <<schRunner, schResult, schStop>>
    BY <1>5, <2>3 DEF CloseDone
  <2>5. SchTypeOK'
    BY <2>1, <2>4, <1>t DEF SchTypeOK, schRuns
  <2>6. Causes' /\ Verdict'
    BY <2>1, <2>2, <2>4, <1>t DEF Causes, Verdict, schRuns
  <2>7. Modes'
    BY <2>1, <2>2, <2>4, <1>t DEF Modes
  <2>8. OneRun'
    BY <2>1, <1>t DEF OneRun, RunsOf, schRuns
  <2> QED BY <2>5, <2>6, <2>7, <2>8 DEF SchInv
<1>6. CASE RunnerReturns
  <2>1. /\ schRunner = "stopping" /\ schClosed /\ schRunner' = "returned"
        /\ UNCHANGED <<schOnce, schNext, schResult, schCtx, schStop, schErr, schClosed, schLoop,
                       schRuns, schFailed, schEarly>>
    BY <1>6 DEF RunnerReturns
  <2>2. SchTypeOK'
    BY <2>1, <1>t DEF SchTypeOK, schRuns
  <2>3. Causes' /\ Verdict' /\ Modes'
    BY <2>1, <1>t DEF Causes, Verdict, Modes, schRuns
  <2>4. OneRun'
    BY <2>1, <1>t DEF OneRun, RunsOf, schRuns
  <2> QED BY <2>2, <2>3, <2>4 DEF SchInv
<1>7. ASSUME NEW j \in Jobs, OnceStarts(j) PROVE SchInv'
  <2>1. /\ schLoop[j] = "once"
        /\ UNCHANGED <<schOnce, schNext, schCtx, schClosed, schRunning, schSpawned, schDone,
                       schTicks, schFailed, schEarly>>
    BY <1>7 DEF OnceStarts
  <2>2. j \in schOnce /\ schActive[j] = 0
    BY <2>1, <1>t DEF OneRun
  <2>3. CASE schStop
    <3>1. EndLoop(j, "canceled") /\ UNCHANGED schActive
      BY <1>7, <2>3 DEF OnceStarts
    <3>2. /\ Causes' /\ Verdict' /\ Modes'
          /\ schLoop' = [schLoop EXCEPT ![j] = "ended"]
          /\ schLoop' \in [Jobs -> {"idle", "select", "once", "inrun", "ended"}]
          /\ schRunner' \in {"sequence", "starting", "parked", "stopping", "returned"}
          /\ schResult' \in {"none", "nil", "failed", "canceled"}
          /\ schErr' \in {"none", "failed", "canceled"}
          /\ schStop' \in BOOLEAN
      BY <2>1, <2>3, <3>1, <1>f, EndLoopKeeps DEF Outcomes
    <3>3. SchTypeOK'
      BY <2>1, <3>1, <3>2, <1>t DEF SchTypeOK
    <3>4. OneRun'
      BY <2>1, <2>2, <3>1, <3>2, <1>t DEF OneRun, RunsOf, SchTypeOK
    <3> QED BY <3>2, <3>3, <3>4 DEF SchInv
  <2>4. CASE ~schStop
    <3>1. /\ schLoop' = [schLoop EXCEPT ![j] = "inrun"]
          /\ schActive' = [schActive EXCEPT ![j] = 1]
          /\ UNCHANGED <<schRunner, schResult, schStop, schErr>>
      BY <1>7, <2>2, <2>4 DEF OnceStarts
    <3>2. SchTypeOK'
      BY <2>1, <3>1, <1>t DEF SchTypeOK
    <3>3. \A i \in Jobs : i # j => schLoop'[i] = schLoop[i] /\ schActive'[i] = schActive[i]
      BY <3>1, <1>t DEF SchTypeOK
    <3>4. schLoop'[j] = "inrun" /\ schActive'[j] = 1
      BY <3>1, <1>t DEF SchTypeOK
    <3>5. Causes' /\ Verdict' /\ Modes'
      BY <2>1, <2>2, <3>1, <3>3, <1>t DEF Causes, Verdict, Modes
    <3>6. OneRun'
      BY <2>1, <2>2, <3>3, <3>4, <1>t DEF OneRun, RunsOf
    <3> QED BY <3>2, <3>5, <3>6 DEF SchInv
  <2> QED BY <2>3, <2>4
<1>8. ASSUME NEW j \in Jobs, OnceEnds(j) PROVE SchInv'
  <2>1. /\ schLoop[j] = "inrun" /\ schActive' = [schActive EXCEPT ![j] = @ - 1]
        /\ UNCHANGED <<schOnce, schNext, schCtx, schClosed, schRunning, schSpawned, schDone,
                       schTicks, schEarly>>
    BY <1>8 DEF OnceEnds
  <2>2. PICK outcome \in RunOutcomes : EndLoop(j, outcome) /\ Fails(j, outcome)
    BY <1>8 DEF OnceEnds
  <2>3. /\ outcome \in Outcomes /\ (outcome = "canceled" => schStop)
        /\ schFailed' \subseteq Jobs /\ schFailed \subseteq schFailed'
        /\ outcome = "failed" => schFailed' # {}
    BY <2>2, <1>f DEF RunOutcomes, Outcomes, Fails
  <2>4. j \in schOnce /\ schActive[j] = 1
    BY <2>1, <1>t DEF OneRun
  <2>5. /\ Causes' /\ Verdict' /\ Modes'
        /\ schLoop' = [schLoop EXCEPT ![j] = "ended"]
        /\ schLoop' \in [Jobs -> {"idle", "select", "once", "inrun", "ended"}]
        /\ schRunner' \in {"sequence", "starting", "parked", "stopping", "returned"}
        /\ schResult' \in {"none", "nil", "failed", "canceled"}
        /\ schErr' \in {"none", "failed", "canceled"}
        /\ schStop' \in BOOLEAN
    BY <2>1, <2>2, <2>3, <2>4, EndLoopKeeps
  <2>6. schActive' = [schActive EXCEPT ![j] = 0]
    BY <2>1, <2>4
  <2>7. SchTypeOK'
    BY <2>1, <2>3, <2>5, <2>6, <1>t DEF SchTypeOK
  <2>8. OneRun'
    BY <2>1, <2>4, <2>5, <2>6, <1>t DEF OneRun, RunsOf, SchTypeOK
  <2> QED BY <2>5, <2>7, <2>8 DEF SchInv
<1>9. ASSUME NEW j \in Jobs, LoopCanceled(j) PROVE SchInv'
  <2>1. /\ schLoop[j] = "select" /\ schStop /\ EndLoop(j, "canceled")
        /\ UNCHANGED <<schOnce, schNext, schCtx, schClosed, schRuns, schFailed, schEarly>>
    BY <1>9 DEF LoopCanceled
  <2>2. UNCHANGED <<schRunning, schSpawned, schActive, schDone, schTicks>>
    BY <2>1 DEF schRuns
  <2>3. /\ Causes' /\ Verdict' /\ Modes'
        /\ schLoop' = [schLoop EXCEPT ![j] = "ended"]
        /\ schLoop' \in [Jobs -> {"idle", "select", "once", "inrun", "ended"}]
        /\ schRunner' \in {"sequence", "starting", "parked", "stopping", "returned"}
        /\ schResult' \in {"none", "nil", "failed", "canceled"}
        /\ schErr' \in {"none", "failed", "canceled"}
        /\ schStop' \in BOOLEAN
    BY <2>1, <2>2, <1>f, EndLoopKeeps DEF Outcomes
  <2>4. SchTypeOK'
    BY <2>1, <2>2, <2>3, <1>t DEF SchTypeOK
  <2>5. OneRun'
    BY <2>1, <2>2, <2>3, <1>t DEF OneRun, RunsOf, SchTypeOK
  <2> QED BY <2>3, <2>4, <2>5 DEF SchInv
<1>10. ASSUME NEW j \in Jobs, LoopDone(j) PROVE SchInv'
  <2>1. /\ schLoop[j] = "select" /\ schDone[j] # "empty"
        /\ schRunning' = [schRunning EXCEPT ![j] = FALSE]
        /\ schDone' = [schDone EXCEPT ![j] = "empty"]
        /\ UNCHANGED <<schOnce, schNext, schCtx, schClosed, schSpawned, schActive, schTicks,
                       schFailed, schEarly>>
    BY <1>10 DEF LoopDone
  <2>2. j \notin schOnce /\ schSpawned[j] = 0 /\ schActive[j] = 0
    BY <2>1, <1>n, <1>t DEF OneRun, RunsOf
  <2>3. /\ \A i \in Jobs : schDone'[i] \in {schDone[i], "empty"}
        /\ \A i \in Jobs : i # j => schDone'[i] = schDone[i] /\ schRunning'[i] = schRunning[i]
        /\ schDone'[j] = "empty" /\ schRunning'[j] = FALSE
    BY <2>1, <1>t DEF SchTypeOK
  <2>4. CASE schDone[j] = "ok"
    <3>1. UNCHANGED <<schLoop, schErr, schRunner, schResult, schStop>>
      BY <1>10, <2>4 DEF LoopDone
    <3>2. SchTypeOK'
      BY <2>1, <3>1, <1>t DEF SchTypeOK
    <3>3. Causes' /\ Verdict' /\ Modes'
      BY <2>1, <2>3, <3>1, <1>t DEF Causes, Verdict, Modes
    <3>4. OneRun'
      BY <2>1, <2>2, <2>3, <3>1, <1>t DEF OneRun, RunsOf
    <3> QED BY <3>2, <3>3, <3>4 DEF SchInv
  <2>5. CASE schDone[j] # "ok"
    <3>1. EndLoop(j, schDone[j])
      BY <1>10, <2>5 DEF LoopDone
    <3>2. /\ schDone[j] \in Outcomes /\ (schDone[j] = "canceled" => schStop)
          /\ schDone[j] = "failed" => schFailed # {}
      BY <2>1, <1>t DEF SchTypeOK, Causes
    <3>3. /\ Causes' /\ Verdict' /\ Modes'
          /\ schLoop' = [schLoop EXCEPT ![j] = "ended"]
          /\ schLoop' \in [Jobs -> {"idle", "select", "once", "inrun", "ended"}]
          /\ schRunner' \in {"sequence", "starting", "parked", "stopping", "returned"}
          /\ schResult' \in {"none", "nil", "failed", "canceled"}
          /\ schErr' \in {"none", "failed", "canceled"}
          /\ schStop' \in BOOLEAN
      BY <2>1, <2>3, <2>5, <3>1, <3>2, <1>f, EndLoopKeeps
    <3>4. SchTypeOK'
      BY <2>1, <3>3, <1>t DEF SchTypeOK
    <3>5. \A i \in Jobs : schLoop'[i] = IF i = j THEN "ended" ELSE schLoop[i]
      BY <3>3, <1>t DEF SchTypeOK
    <3>6. OneRun'
      BY <2>1, <2>2, <2>3, <3>5, <1>t DEF OneRun, RunsOf
    <3> QED BY <3>3, <3>4, <3>6 DEF SchInv
  <2> QED BY <2>4, <2>5
<1>11. ASSUME NEW j \in Jobs, LoopTick(j) PROVE SchInv'
  <2>1. /\ schLoop[j] = "select" /\ schTicks[j] < MaxSchTicks
        /\ schTicks' = [schTicks EXCEPT ![j] = @ + 1]
        /\ schRunning' = [schRunning EXCEPT ![j] = TRUE]
        /\ schSpawned' = [schSpawned EXCEPT ![j] = IF schRunning[j] THEN @ ELSE @ + 1]
        /\ UNCHANGED <<schOnce, schCaller, schCtx, schStop, schErr, schClosed, schLoop, schActive,
                       schDone, schFailed, schEarly>>
    BY <1>11 DEF LoopTick
  <2>2. Causes' /\ Verdict' /\ Modes'
    BY <2>1, <1>f, <1>t, RunsKeep DEF Causes
  <2>3. schTicks[j] + 1 \in 0 .. MaxSchTicks /\ schSpawned[j] + 1 \in Nat
    BY <2>1, <1>n
  <2>4. SchTypeOK'
    BY <2>1, <2>3, <1>t DEF SchTypeOK, schCaller
  <2>5. j \notin schOnce
    BY <2>1, <1>t DEF OneRun
  <2>6. /\ \A i \in Jobs : i # j => schRunning'[i] = schRunning[i] /\ schSpawned'[i] = schSpawned[i]
        /\ schRunning'[j] = TRUE
        /\ schSpawned'[j] = IF schRunning[j] THEN schSpawned[j] ELSE schSpawned[j] + 1
    BY <2>1, <1>t DEF SchTypeOK
  <2>7. OneRun'
    BY <2>1, <2>5, <2>6, <1>n, <1>t DEF OneRun, RunsOf
  <2> QED BY <2>2, <2>4, <2>7 DEF SchInv
<1>12. ASSUME NEW j \in Jobs, RunStarts(j) PROVE SchInv'
  <2>1. /\ schSpawned[j] > 0 /\ schSpawned' = [schSpawned EXCEPT ![j] = @ - 1]
        /\ IF schStop
             THEN /\ schDone[j] = "empty" /\ schDone' = [schDone EXCEPT ![j] = "canceled"]
                  /\ UNCHANGED schActive
             ELSE /\ schActive' = [schActive EXCEPT ![j] = @ + 1] /\ UNCHANGED schDone
        /\ UNCHANGED <<schOnce, schCaller, schCtx, schStop, schErr, schClosed, schLoop, schRunning,
                       schTicks, schFailed, schEarly>>
    BY <1>12 DEF RunStarts
  <2>2. j \notin schOnce /\ schSpawned[j] = 1 /\ schActive[j] = 0 /\ schDone[j] = "empty"
        /\ schRunning[j]
    BY <2>1, <1>n, <1>t DEF OneRun, RunsOf
  <2>3. /\ schSpawned' = [schSpawned EXCEPT ![j] = 0]
        /\ \/ /\ schStop /\ schDone' = [schDone EXCEPT ![j] = "canceled"] /\ schActive' = schActive
           \/ /\ schActive' = [schActive EXCEPT ![j] = 1] /\ schDone' = schDone
    BY <2>1, <2>2
  <2>4. SchTypeOK'
    BY <2>1, <2>3, <1>t DEF SchTypeOK, schCaller, Outcomes
  <2>5. \A i \in Jobs : /\ schDone'[i] = "canceled" => schStop
                        /\ schDone'[i] = "failed" => i \in schFailed
    BY <2>3, <1>t DEF SchTypeOK, Causes
  <2>6. Causes' /\ Verdict' /\ Modes'
    BY <2>1, <2>5, <1>f, RunsKeep
  <2>7. \A i \in Jobs : i # j => /\ schSpawned'[i] = schSpawned[i] /\ schDone'[i] = schDone[i]
                                 /\ schActive'[i] = schActive[i]
    BY <2>3, <1>t DEF SchTypeOK
  <2>8. RunsOf(j)' = 1
    BY <2>2, <2>3, <1>t DEF SchTypeOK, RunsOf
  <2>9. OneRun'
    BY <2>1, <2>2, <2>7, <2>8, <1>t DEF OneRun, RunsOf
  <2> QED BY <2>4, <2>6, <2>9 DEF SchInv
<1>13. ASSUME NEW j \in Jobs, RunEnds(j) PROVE SchInv'
  <2>1. /\ j \notin schOnce /\ schActive[j] > 0 /\ schDone[j] = "empty"
        /\ schActive' = [schActive EXCEPT ![j] = @ - 1]
        /\ UNCHANGED <<schOnce, schCaller, schCtx, schStop, schErr, schClosed, schLoop, schRunning,
                       schSpawned, schTicks, schEarly>>
    BY <1>13 DEF RunEnds
  <2>2. PICK outcome \in RunOutcomes :
          schDone' = [schDone EXCEPT ![j] = outcome] /\ Fails(j, outcome)
    BY <1>13 DEF RunEnds
  <2>3. /\ outcome \in Outcomes /\ outcome # "empty" /\ (outcome = "canceled" => schStop)
        /\ schFailed' \subseteq Jobs /\ schFailed \subseteq schFailed'
        /\ outcome = "failed" => j \in schFailed'
    BY <2>2, <1>f DEF RunOutcomes, Outcomes, Fails
  <2>4. schActive[j] = 1 /\ schSpawned[j] = 0 /\ schRunning[j]
    BY <2>1, <1>n, <1>t DEF OneRun, RunsOf
  <2>5. schActive' = [schActive EXCEPT ![j] = 0]
    BY <2>1, <2>4
  <2>6. SchTypeOK'
    BY <2>1, <2>2, <2>3, <2>5, <1>t DEF SchTypeOK, schCaller
  <2>7. \A i \in Jobs : i # j => schDone'[i] = schDone[i] /\ schActive'[i] = schActive[i]
    BY <2>2, <2>5, <1>t DEF SchTypeOK
  <2>8. schDone'[j] = outcome /\ schActive'[j] = 0
    BY <2>2, <2>5, <1>t DEF SchTypeOK
  <2>9. \A i \in Jobs : /\ schDone'[i] = "canceled" => schStop
                        /\ schDone'[i] = "failed" => i \in schFailed'
    BY <2>3, <2>7, <2>8, <1>t DEF Causes
  <2>10. schOnce # Jobs
    BY <2>1
  <2>11. Causes' /\ Verdict' /\ Modes'
    BY <2>1, <2>3, <2>9, <2>10, RunsKeep
  <2>12. OneRun'
    BY <2>1, <2>3, <2>4, <2>7, <2>8, <1>t DEF OneRun, RunsOf
  <2> QED BY <2>6, <2>11, <2>12 DEF SchInv
<1> QED BY <1>1, <1>2, <1>3, <1>4, <1>5, <1>6, <1>7, <1>8, <1>9, <1>10, <1>11, <1>12, <1>13
        DEF SchNextStep, SchCallerStep, SchLoopStep

\* The invariant holds in every reachable state.
THEOREM SchInvariant == SchSpec => []SchInv
<1>1. SchInit => SchInv
  <2> SUFFICES ASSUME SchInit PROVE SchInv
    OBVIOUS
  <2>0. 1 \in 1 .. SchJobs + 1 /\ 0 \in 0 .. MaxSchTicks /\ 0 \in 0 .. 1 /\ 1 \in Jobs
    BY SchAssumption DEF Jobs
  <2>1. SchTypeOK
    BY <2>0 DEF SchInit, SchTypeOK
  <2>2. Causes /\ Verdict
    BY DEF SchInit, Causes, Verdict
  <2>3. Modes
    BY <2>0 DEF SchInit, Modes
  <2>4. OneRun
    BY <2>0 DEF SchInit, OneRun, RunsOf
  <2> QED BY <2>1, <2>2, <2>3, <2>4 DEF SchInv
<1> QED BY <1>1, SchInvStep, PTL DEF SchSpec

\* Every variable has its type; in particular no job ever has two runs at
\* once, whatever the ticks and the lengths of the runs.
THEOREM JobsDoNotOverlap == SchSpec => []SchTypeOK
<1>1. SchInv => SchTypeOK
  BY DEF SchInv
<1> QED BY <1>1, SchInvariant, PTL

\* What RunScheduledJobs returns has its cause, for any jobs and any number of
\* ticks.
THEOREM ReturnsHaveCauses == SchSpec => []ScheduleBlames
<1>1. SchInv => ScheduleBlames
  BY DEF SchInv, Verdict, ScheduleBlames
<1> QED BY <1>1, SchInvariant, PTL

-----------------------------------------------------------------------------
(* The Redis stream source.  Entries leave a pending list by an XACK only, *)
(* and the batch a worker acknowledges was handled by every subscriber.    *)

HandledBeforeAck ==
  \A w \in Consumers : redPc[w] \in {"ack", "delete"} => redTaken[w] \subseteq redHandled

RedInv == RedTypeOK /\ HandledBeforeAck /\ RedNothingLost

\* XREADGROUP from > returns the entries that follow the last delivered one,
\* without a gap, at most a batch of them.
LEMMA NextEntries ==
  ASSUME NEW d \in Nat, NEW l \in Nat
  PROVE  LET n == Cardinality(FirstOf(d + 1 .. l))
         IN  /\ n \in Nat
             /\ FirstOf(d + 1 .. l) = d + 1 .. d + n
             /\ d <= l => d + n <= l
             /\ n <= RedBatch
<1> DEFINE E == d + 1 .. l
           m == IF l <= d THEN d ELSE IF l <= d + RedBatch THEN l ELSE d + RedBatch
<1>b. RedBatch \in Nat \ {0}
  BY RedAssumption
<1>m. m \in Nat /\ d <= m /\ (d <= l => m <= l) /\ m <= d + RedBatch
  BY <1>b
<1>1. \A e \in E : Cardinality({x \in E : x < e}) = e - 1 - d
  <2> SUFFICES ASSUME NEW e \in E PROVE Cardinality({x \in E : x < e}) = e - 1 - d
    OBVIOUS
  <2>1. {x \in E : x < e} = d + 1 .. e - 1
    OBVIOUS
  <2>2. e - 1 \in Int /\ d + 1 \in Int
    OBVIOUS
  <2>3. Cardinality(d + 1 .. e - 1) = IF d + 1 > e - 1 THEN 0 ELSE (e - 1) - (d + 1) + 1
    BY <2>2, FS_Interval
  <2>4. (IF d + 1 > e - 1 THEN 0 ELSE (e - 1) - (d + 1) + 1) = e - 1 - d
    OBVIOUS
  <2> HIDE DEF E
  <2> QED BY <2>1, <2>3, <2>4
<1>2. FirstOf(E) = d + 1 .. m
  <2>1. FirstOf(E) = {e \in E : Cardinality({x \in E : x < e}) < RedBatch}
    BY DEF FirstOf
  <2>2. \A e \in E : e - 1 - d < RedBatch <=> e <= m
    BY <1>b
  <2>3. d + 1 .. m = {e \in E : e <= m}
    BY <1>b
  <2> HIDE DEF E, m
  <2> QED BY <1>1, <2>1, <2>2, <2>3
<1>3. Cardinality(d + 1 .. m) = IF d + 1 > m THEN 0 ELSE m - (d + 1) + 1
  <2>1. d + 1 \in Int /\ m \in Int
    BY <1>m
  <2> HIDE DEF m
  <2> QED BY <2>1, FS_Interval
<1>4. Cardinality(d + 1 .. m) = m - d
  <2> HIDE DEF m
  <2> QED BY <1>3, <1>m
<1> HIDE DEF m
<1> QED BY <1>b, <1>2, <1>4, <1>m

\* The invariant holds at the start.
LEMMA RedInvInit == RedInit => RedInv
<1> SUFFICES ASSUME RedInit PROVE RedInv
  OBVIOUS
<1>1. 0 \in 0 .. MaxRedEntries /\ 0 \in 0 .. MaxRedFaults /\ 1 .. 0 = {}
  BY RedAssumption
<1>2. redBad \subseteq 1 .. MaxRedEntries
  BY RedAssumption DEF RedInit
<1>3. RedTypeOK
  BY <1>1, <1>2 DEF RedInit, RedTypeOK
<1> QED BY <1>1, <1>3 DEF RedInit, RedInv, HandledBeforeAck, RedNothingLost

\* What a read returns becomes the worker's batch, or the worker returns.
LEMMA ReturnedKeeps ==
  ASSUME RedInv, NEW w \in Consumers, NEW entries, Returned(w, entries),
         UNCHANGED redHandled
  PROVE  /\ redPc' \in [Consumers -> {"receive", "dispatch", "nack", "ack", "delete", "stopped"}]
         /\ \A d \in Nat : d >= redDelivered /\ entries \subseteq 1 .. d =>
              redTaken' \in [Consumers -> SUBSET (1 .. d)]
         /\ HandledBeforeAck'
<1>1. /\ redPc' = [redPc EXCEPT ![w] = redPc'[w]] /\ redPc'[w] \in {"dispatch", "stopped"}
      /\ \E b \in {{}, entries} : redTaken' = [redTaken EXCEPT ![w] = b]
  BY DEF Returned, WorkerReturns, RedInv, RedTypeOK
<1>2. redDelivered \in Nat
  BY RedAssumption DEF RedInv, RedTypeOK
<1>3. \A d \in Nat : d >= redDelivered => 1 .. redDelivered \subseteq 1 .. d
  BY <1>2
<1> QED BY <1>1, <1>2, <1>3 DEF RedInv, RedTypeOK, HandledBeforeAck

\* Every step keeps the invariant.
LEMMA RedInvStep == RedInv /\ [RedNext]_redVars => RedInv'
<1> SUFFICES ASSUME RedInv, [RedNext]_redVars PROVE RedInv'
  OBVIOUS
<1>t. RedTypeOK /\ HandledBeforeAck /\ RedNothingLost
  BY DEF RedInv
<1>n. /\ MaxRedEntries \in Nat /\ MaxRedFaults \in Nat /\ redLast \in Nat /\ redDelivered \in Nat
      /\ redLast <= MaxRedEntries /\ redDelivered <= redLast /\ redFaults \in Nat
  BY <1>t, RedAssumption DEF RedTypeOK
<1>f. Fault => redFaults' \in 0 .. MaxRedFaults
  BY <1>n DEF Fault
<1>1. CASE UNCHANGED redVars
  BY <1>1, <1>t DEF redVars, RedInv, RedTypeOK, HandledBeforeAck, RedNothingLost
<1>2. CASE RedPublish
  <2>1. redLast' \in 0 .. MaxRedEntries /\ redDelivered \in 0 .. redLast'
    BY <1>2, <1>n DEF RedPublish
  <2> QED BY <1>2, <1>t, <2>1 DEF RedPublish, RedInv, RedTypeOK, HandledBeforeAck, RedNothingLost
<1>3. ASSUME NEW w \in Consumers, ReadPending(w) PROVE RedInv'
  <2>1. CASE redPending[w] # {}
    <3>1. Returned(w, FirstOf(redPending[w])) /\ UNCHANGED redFirst
      BY <1>3, <2>1 DEF ReadPending
    <3>2. UNCHANGED <<redBad, redLast, redDelivered, redPending, redDeleted, redHandled, redFaults>>
      BY <1>3 DEF ReadPending
    <3>3. FirstOf(redPending[w]) \subseteq 1 .. redDelivered
      BY <1>t DEF FirstOf, RedTypeOK
    <3>4. RedTypeOK' /\ HandledBeforeAck'
      BY <1>t, <1>n, <3>1, <3>2, <3>3, ReturnedKeeps DEF RedTypeOK
    <3> QED BY <1>t, <3>2, <3>4 DEF RedInv, RedNothingLost
  <2>2. CASE redPending[w] = {}
    BY <1>3, <1>t, <2>2 DEF ReadPending, RedInv, RedTypeOK, HandledBeforeAck, RedNothingLost
  <2> QED BY <2>1, <2>2
<1>4. ASSUME NEW w \in Consumers, ReadNew(w) PROVE RedInv'
  <2> DEFINE new == FirstOf(redDelivered + 1 .. redLast)
  <2>1. /\ redDelivered' = redDelivered + Cardinality(new)
        /\ redPending' = [redPending EXCEPT ![w] = @ \cup new]
        /\ Returned(w, new)
        /\ UNCHANGED <<redBad, redLast, redDeleted, redFirst, redHandled, redFaults>>
    BY <1>4 DEF ReadNew
  <2>2. /\ redDelivered' \in Nat /\ redDelivered <= redDelivered' /\ redDelivered' <= redLast
        /\ new = redDelivered + 1 .. redDelivered'
    <3>1. /\ Cardinality(new) \in Nat /\ new = redDelivered + 1 .. redDelivered + Cardinality(new)
          /\ redDelivered + Cardinality(new) <= redLast
      BY <1>n, NextEntries
    <3> HIDE DEF new
    <3> QED BY <1>n, <2>1, <3>1
  <2> HIDE DEF new
  <2>3. /\ new \subseteq 1 .. redDelivered' /\ 1 .. redDelivered \subseteq 1 .. redDelivered'
        /\ new \cap (1 .. redDelivered) = {} /\ redDelivered' \in 0 .. redLast
        /\ 1 .. redDelivered' = (1 .. redDelivered) \cup new
    BY <1>n, <2>2
  <2>4. redTaken' \in [Consumers -> SUBSET (1 .. redDelivered')] /\ HandledBeforeAck'
    BY <1>n, <2>1, <2>2, <2>3, ReturnedKeeps
  <2>5. /\ \A v \in Consumers : redPending[v] \subseteq 1 .. redDelivered
        /\ \A v \in Consumers :
             redPending'[v] = IF v = w THEN redPending[v] \cup new ELSE redPending[v]
        /\ redPending' \in [Consumers -> SUBSET (1 .. redDelivered')]
    BY <1>t, <2>1, <2>3 DEF RedTypeOK
  <2>6. RedTypeOK'
    BY <1>t, <2>1, <2>3, <2>4, <2>5, ReturnedKeeps DEF RedTypeOK
  <2>7. RedNothingLost'
    <3>1. \A e \in 1 .. redDelivered' : e \in redHandled' \/ \E v \in Consumers : e \in redPending'[v]
      BY <1>t, <2>1, <2>3, <2>5 DEF RedNothingLost
    <3>2. \A u, v \in Consumers : u # v => redPending'[u] \cap redPending'[v] = {}
      BY <1>t, <2>3, <2>5 DEF RedNothingLost
    <3> QED BY <3>1, <3>2 DEF RedNothingLost
  <2> QED BY <2>4, <2>6, <2>7 DEF RedInv
<1>5. ASSUME NEW w \in Consumers, DispatchBatch(w) PROVE RedInv'
  BY <1>5, <1>t DEF DispatchBatch, RedInv, RedTypeOK, HandledBeforeAck, RedNothingLost
<1>6. ASSUME NEW w \in Consumers, DispatchFails(w) PROVE RedInv'
  <2>1. PICK h \in SUBSET redTaken[w] : redHandled' = redHandled \cup h
    BY <1>6 DEF DispatchFails
  <2> QED BY <1>6, <1>t, <1>f, <2>1
          DEF DispatchFails, RedInv, RedTypeOK, HandledBeforeAck, RedNothingLost
<1>7. ASSUME NEW w \in Consumers, Nack(w) PROVE RedInv'
  BY <1>7, <1>t DEF Nack, RedInv, RedTypeOK, HandledBeforeAck, RedNothingLost
<1>8. ASSUME NEW w \in Consumers, XAck(w) PROVE RedInv'
  <2>1. redTaken[w] \subseteq redHandled
    BY <1>8, <1>t DEF XAck, HandledBeforeAck
  <2>2. /\ redPending' = [redPending EXCEPT ![w] = @ \ redTaken[w]]
        /\ redPc' = [redPc EXCEPT ![w] = "delete"]
        /\ UNCHANGED <<redBad, redLast, redDelivered, redDeleted, redFirst, redTaken, redHandled,
                       redFaults>>
    BY <1>8 DEF XAck
  <2>3. \A v \in Consumers :
          redPending'[v] = IF v = w THEN redPending[v] \ redTaken[w] ELSE redPending[v]
    BY <1>t, <2>2 DEF RedTypeOK
  <2>4. RedTypeOK' /\ HandledBeforeAck'
    BY <1>t, <2>1, <2>2 DEF RedTypeOK, HandledBeforeAck
  <2>5. RedNothingLost'
    BY <1>t, <2>1, <2>2, <2>3 DEF RedNothingLost
  <2> QED BY <2>4, <2>5 DEF RedInv
<1>9. ASSUME NEW w \in Consumers, XDel(w) PROVE RedInv'
  BY <1>9, <1>t DEF XDel, RedInv, RedTypeOK, HandledBeforeAck, RedNothingLost
<1>10. ASSUME NEW w \in Consumers, RedWorkerDies(w) PROVE RedInv'
  BY <1>10, <1>t, <1>f
  DEF RedWorkerDies, WorkerReturns, RedInv, RedTypeOK, HandledBeforeAck, RedNothingLost
<1>11. ASSUME NEW w \in Consumers, RedRestart(w) PROVE RedInv'
  BY <1>11, <1>t DEF RedRestart, RedInv, RedTypeOK, HandledBeforeAck, RedNothingLost
<1> QED
  BY <1>1, <1>2, <1>3, <1>4, <1>5, <1>6, <1>7, <1>8, <1>9, <1>10, <1>11 DEF RedNext, RedWorkerRuns

\* The inductive invariant holds throughout.
THEOREM RedInvariant == RedSpec => []RedInv
<1> QED BY RedInvInit, RedInvStep, PTL DEF RedSpec

\* What Redis keeps and what the workers hold has its type.
THEOREM RedTypes == RedSpec => []RedTypeOK
<1>1. RedInv => RedTypeOK
  BY DEF RedInv
<1> QED BY <1>1, RedInvariant, PTL

\* Every entry Redis has delivered is handled or pending with one consumer,
\* whatever fails: an undecodable neighbour, a subscriber, Redis, the process.
THEOREM RedisLosesNothing == RedSpec => []RedNothingLost
<1>1. RedInv => RedNothingLost
  BY DEF RedInv
<1> QED BY <1>1, RedInvariant, PTL

-----------------------------------------------------------------------------
(* What a consumer has to recover.                                         *)

\* Inductive with RedTypeOK: a worker that is about to read, or is gone, holds
\* no batch, nothing of an acknowledged batch is pending, and a worker that
\* reads from > has nothing pending but its batch.
ReadsEmptyHanded ==
  \A w \in Consumers :
    /\ redPc[w] \in {"receive", "stopped"} => redTaken[w] = {}
    /\ redPc[w] = "delete" => redPending[w] \cap redTaken[w] = {}

NoneLeftBehind ==
  \A w \in Consumers :
    redPc[w] # "stopped" /\ ~redFirst[w] => redPending[w] \subseteq redTaken[w]

OneBatch == \A w \in Consumers : Cardinality(redPending[w]) <= RedBatch

StrandInv == ReadsEmptyHanded /\ NoneLeftBehind

\* What a read returns is all that is pending, or the worker returns.
LEMMA ReturnedStrandsNothing ==
  ASSUME RedTypeOK, StrandInv, NEW w \in Consumers, NEW entries, Returned(w, entries),
         UNCHANGED redFirst,
         \A v \in Consumers \ {w} : redPending'[v] = redPending[v],
         ~redFirst[w] => redPending'[w] \subseteq entries
  PROVE  StrandInv'
<1>1. /\ redPc' = [redPc EXCEPT ![w] = redPc'[w]] /\ redPc'[w] \in {"dispatch", "stopped"}
      /\ redPc'[w] = "dispatch" => redTaken' = [redTaken EXCEPT ![w] = entries]
      /\ redPc'[w] = "stopped" => redTaken' = [redTaken EXCEPT ![w] = {}]
  BY DEF Returned, WorkerReturns, RedTypeOK
<1>2. \A v \in Consumers \ {w} : redPc'[v] = redPc[v] /\ redTaken'[v] = redTaken[v]
  BY <1>1 DEF RedTypeOK
<1>3. /\ redPc'[w] = "dispatch" => redTaken'[w] = entries
      /\ redPc'[w] = "stopped" => redTaken'[w] = {}
  BY <1>1 DEF RedTypeOK
<1> QED BY <1>1, <1>2, <1>3 DEF StrandInv, ReadsEmptyHanded, NoneLeftBehind

\* Every step keeps it.
LEMMA StrandInvStep == RedTypeOK /\ StrandInv /\ [RedNext]_redVars => StrandInv'
<1> SUFFICES ASSUME RedTypeOK, StrandInv, [RedNext]_redVars PROVE StrandInv'
  OBVIOUS
<1> USE DEF StrandInv, ReadsEmptyHanded, NoneLeftBehind
<1>1. CASE UNCHANGED redVars
  BY <1>1 DEF redVars
<1>2. CASE RedPublish
  BY <1>2 DEF RedPublish
<1>3. ASSUME NEW w \in Consumers, ReadPending(w) PROVE StrandInv'
  <2>1. CASE redPending[w] # {}
    <3>1. /\ Returned(w, FirstOf(redPending[w])) /\ UNCHANGED <<redFirst, redPending>>
          /\ redFirst[w]
      BY <1>3, <2>1 DEF ReadPending
    <3> HIDE DEF StrandInv
    <3> QED BY <3>1, ReturnedStrandsNothing
  <2>2. CASE redPending[w] = {}
    BY <1>3, <2>2 DEF ReadPending, RedTypeOK
  <2> QED BY <2>1, <2>2
<1>4. ASSUME NEW w \in Consumers, ReadNew(w) PROVE StrandInv'
  <2> DEFINE new == FirstOf(redDelivered + 1 .. redLast)
  <2>1. /\ redPending' = [redPending EXCEPT ![w] = @ \cup new]
        /\ Returned(w, new) /\ UNCHANGED redFirst
        /\ redPc[w] = "receive" /\ ~redFirst[w]
    BY <1>4 DEF ReadNew
  <2> HIDE DEF new
  <2>2. redPending[w] = {}
    BY <2>1
  <2>3. redPending'[w] = new /\ \A v \in Consumers \ {w} : redPending'[v] = redPending[v]
    BY <2>1, <2>2 DEF RedTypeOK
  <2> HIDE DEF StrandInv
  <2> QED BY <2>1, <2>3, ReturnedStrandsNothing
<1>5. ASSUME NEW w \in Consumers, DispatchBatch(w) PROVE StrandInv'
  BY <1>5 DEF DispatchBatch, RedTypeOK
<1>6. ASSUME NEW w \in Consumers, DispatchFails(w) PROVE StrandInv'
  BY <1>6 DEF DispatchFails, RedTypeOK
<1>7. ASSUME NEW w \in Consumers, Nack(w) PROVE StrandInv'
  BY <1>7 DEF Nack, RedTypeOK
<1>8. ASSUME NEW w \in Consumers, XAck(w) PROVE StrandInv'
  BY <1>8 DEF XAck, RedTypeOK
<1>9. ASSUME NEW w \in Consumers, XDel(w) PROVE StrandInv'
  BY <1>9 DEF XDel, RedTypeOK
<1>10. ASSUME NEW w \in Consumers, RedWorkerDies(w) PROVE StrandInv'
  BY <1>10 DEF RedWorkerDies, WorkerReturns, RedTypeOK
<1>11. ASSUME NEW w \in Consumers, RedRestart(w) PROVE StrandInv'
  BY <1>11 DEF RedRestart, RedTypeOK
<1> QED
  BY <1>1, <1>2, <1>3, <1>4, <1>5, <1>6, <1>7, <1>8, <1>9, <1>10, <1>11 DEF RedNext, RedWorkerRuns

\* A consumer's pending list grows only by a read from >, when it is empty.
LEMMA OneBatchStep ==
  RedTypeOK /\ StrandInv /\ OneBatch /\ [RedNext]_redVars => OneBatch'
<1> SUFFICES ASSUME RedTypeOK, StrandInv, OneBatch, [RedNext]_redVars PROVE OneBatch'
  OBVIOUS
<1>n. /\ redLast \in Nat /\ redDelivered \in Nat /\ redDelivered <= redLast
      /\ RedBatch \in Nat
  BY RedAssumption DEF RedTypeOK
<1>1. CASE UNCHANGED redPending
  BY <1>1 DEF OneBatch
<1>2. ASSUME NEW w \in Consumers, ReadNew(w) PROVE OneBatch'
  <2> DEFINE new == FirstOf(redDelivered + 1 .. redLast)
  <2>1. /\ redPending' = [redPending EXCEPT ![w] = @ \cup new]
        /\ redPc[w] = "receive" /\ ~redFirst[w]
    BY <1>2 DEF ReadNew
  <2>2. Cardinality(new) <= RedBatch
    BY <1>n, NextEntries
  <2> HIDE DEF new
  <2>3. redPending[w] = {}
    BY <2>1 DEF StrandInv, ReadsEmptyHanded, NoneLeftBehind
  <2>4. redPending'[w] = new /\ \A v \in Consumers \ {w} : redPending'[v] = redPending[v]
    BY <2>1, <2>3 DEF RedTypeOK
  <2> QED BY <2>2, <2>4 DEF OneBatch
<1>3. ASSUME NEW w \in Consumers, XAck(w) PROVE OneBatch'
  <2>1. /\ redPending'[w] = redPending[w] \ redTaken[w]
        /\ \A v \in Consumers \ {w} : redPending'[v] = redPending[v]
    BY <1>3 DEF XAck, RedTypeOK
  <2>2. IsFiniteSet(redPending[w])
    <3>1. IsFiniteSet(1 .. redDelivered)
      BY <1>n, FS_Interval
    <3>2. redPending[w] \subseteq 1 .. redDelivered
      BY DEF RedTypeOK
    <3> QED BY <3>1, <3>2, FS_Subset
  <2>3. Cardinality(redPending[w]) <= RedBatch
    BY DEF OneBatch
  <2>4. /\ Cardinality(redPending[w]) \in Nat /\ Cardinality(redPending'[w]) \in Nat
        /\ Cardinality(redPending'[w]) <= Cardinality(redPending[w])
    <3>1. redPending'[w] \subseteq redPending[w]
      BY <2>1
    <3> QED BY <2>2, <3>1, FS_Subset, FS_CardinalityType
  <2>5. Cardinality(redPending'[w]) <= RedBatch
    BY <1>n, <2>3, <2>4
  <2> QED BY <2>1, <2>5 DEF OneBatch
<1>4. UNCHANGED redPending \/ \E w \in Consumers : ReadNew(w) \/ XAck(w)
  BY DEF RedNext, RedWorkerRuns, redVars, RedPublish, ReadPending, DispatchBatch, DispatchFails,
         Nack, XDel, RedWorkerDies, RedRestart
<1> QED BY <1>1, <1>2, <1>3, <1>4

\* A consumer goes on to new entries only when nothing of its own is left
\* behind: a failed batch and what a restart finds are read before them, and
\* are never more than one batch.  The safety half of RedDrains, whatever the
\* workers' fairness.
THEOREM RedisStrandsNothing == RedSpec => []RedNothingStranded
<1>1. RedInit => StrandInv /\ OneBatch
  BY RedAssumption, FS_EmptySet
  DEF RedInit, StrandInv, ReadsEmptyHanded, NoneLeftBehind, OneBatch
<1>2. RedInv /\ StrandInv /\ OneBatch => RedNothingStranded
  BY DEF RedInv, RedNothingLost, StrandInv, NoneLeftBehind, OneBatch, RedNothingStranded
<1> QED BY <1>1, <1>2, StrandInvStep, OneBatchStep, RedTypes, RedInvariant, PTL DEF RedSpec

-----------------------------------------------------------------------------
(* The refinement.                                                         *)

\* A step that keeps the stream, its delivered entries and its history keeps
\* the promise's state, if it leaves every entry pending or settled as it was.
LEMMA RedStutters ==
  ASSUME redLast' = redLast, redHandled' = redHandled,
         \A e \in RedIds : RedStatus(e)' = RedStatus(e)
  PROVE  UNCHANGED RedPromise!promiseVars
<1>1. [e \in RedIds |-> RedStatus(e)]' = [e \in RedIds |-> RedStatus(e)]
  BY DEF RedIds
<1> QED BY <1>1 DEF RedPromise!promiseVars

\* A dispatch is the promise's Handle.
LEMMA DispatchHandles ==
  ASSUME RedTypeOK, NEW H \in SUBSET (1 .. redDelivered), redHandled' = redHandled \cup H,
         UNCHANGED <<redLast, redDelivered, redPending>>
  PROVE  RedPromise!Next
<1>n. redLast \in Nat /\ redDelivered \in Nat /\ redDelivered <= redLast /\ redLast <= MaxRedEntries
      /\ MaxRedEntries \in Nat
  BY RedAssumption DEF RedTypeOK
<1>1. H \subseteq RedIds /\ \A e \in H : ~(e > redLast)
  BY <1>n DEF RedIds
<1>2. RedPromise!Handle(H, "all")
  <2>1. \A e \in H : \E r \in RedIds : [x \in RedIds |-> IF x > redLast THEN 0 ELSE x][r] = e
    BY <1>1
  <2>2. \A e \in RedIds : RedStatus(e)' = RedStatus(e)
    BY DEF RedStatus
  <2>3. [e \in RedIds |-> RedStatus(e)]' = [e \in RedIds |-> RedStatus(e)]
    BY <2>2 DEF RedIds
  <2> QED BY <1>1, <2>1, <2>3 DEF RedPromise!Handle, RedIds
<1> QED BY <1>1, <1>2 DEF RedPromise!Next

\* XACK ends entries that are pending with its own consumer and with no other,
\* all of them handled.
LEMMA XAckEnds ==
  ASSUME RedInv, NEW w \in Consumers, XAck(w)
  PROVE  RedPromise!Next
<1> DEFINE S == redPending[w] \cap redTaken[w]
<1>n. redLast \in Nat /\ redDelivered \in Nat /\ redDelivered <= redLast /\ redLast <= MaxRedEntries
      /\ MaxRedEntries \in Nat
  BY RedAssumption DEF RedInv, RedTypeOK
<1>1. /\ redPending' = [redPending EXCEPT ![w] = @ \ redTaken[w]]
      /\ UNCHANGED <<redLast, redDelivered, redHandled>> /\ redTaken[w] \subseteq redHandled
  BY DEF XAck, RedInv, HandledBeforeAck
<1>2. \A v \in Consumers :
        redPending'[v] = IF v = w THEN redPending[v] \ redTaken[w] ELSE redPending[v]
  BY <1>1 DEF RedInv, RedTypeOK
<1>3. S \subseteq 1 .. redDelivered
  BY DEF RedInv, RedTypeOK
<1>4. S \subseteq RedIds /\ \A e \in S : ~(e > redLast) /\ ~(e > redDelivered)
  BY <1>3, <1>n DEF RedIds
<1>5. \A e \in S : \A v \in Consumers : e \notin redPending'[v]
  BY <1>2 DEF RedInv, RedNothingLost
<1>6. \A e \in S : RedStatus(e) = "pending" /\ RedStatus(e)' = "done" /\ e \in redHandled
  BY <1>1, <1>4, <1>5 DEF RedStatus
<1>7. \A e \in RedIds \ S : RedStatus(e)' = RedStatus(e)
  <2> SUFFICES ASSUME NEW e \in RedIds \ S PROVE RedStatus(e)' = RedStatus(e)
    OBVIOUS
  <2>1. (\E v \in Consumers : e \in redPending'[v]) <=> (\E v \in Consumers : e \in redPending[v])
    BY <1>2
  <2> QED BY <1>1, <2>1 DEF RedStatus
<1> HIDE DEF S
<1>8. RedPromise!End(S)
  BY <1>1, <1>4, <1>6, <1>7 DEF RedPromise!End
<1> QED BY <1>4, <1>8 DEF RedPromise!Next

\* Reading leaves every entry what it was: a new one is pending before it is
\* delivered and after.
LEMMA ReadNewStutters ==
  ASSUME RedInv, NEW w \in Consumers, ReadNew(w)
  PROVE  UNCHANGED RedPromise!promiseVars
<1> DEFINE new == FirstOf(redDelivered + 1 .. redLast)
<1>n. redLast \in Nat /\ redDelivered \in Nat /\ redDelivered <= redLast
  BY RedAssumption DEF RedInv, RedTypeOK
<1>1. /\ redDelivered' = redDelivered + Cardinality(new)
      /\ redPending' = [redPending EXCEPT ![w] = @ \cup new]
      /\ UNCHANGED <<redLast, redHandled>>
  BY DEF ReadNew
<1>2. /\ Cardinality(new) \in Nat /\ new = redDelivered + 1 .. redDelivered + Cardinality(new)
      /\ redDelivered + Cardinality(new) <= redLast
  BY <1>n, NextEntries
<1> HIDE DEF new
<1>3. \A e \in Nat : (e > redDelivered \/ \E v \in Consumers : e \in redPending[v])
        <=> (e > redDelivered' \/ \E v \in Consumers : e \in redPending'[v])
  <2> SUFFICES ASSUME NEW e \in Nat
               PROVE  (e > redDelivered \/ \E v \in Consumers : e \in redPending[v])
                        <=> (e > redDelivered' \/ \E v \in Consumers : e \in redPending'[v])
    OBVIOUS
  <2>1. \A v \in Consumers :
          redPending'[v] = IF v = w THEN redPending[v] \cup new ELSE redPending[v]
    BY <1>1 DEF RedInv, RedTypeOK
  <2>2. e \in new <=> e > redDelivered /\ ~(e > redDelivered')
    BY <1>n, <1>1, <1>2
  <2>3. e > redDelivered' => e > redDelivered
    BY <1>n, <1>1, <1>2
  <2> QED BY <2>1, <2>2, <2>3
<1>4. \A e \in RedIds : RedStatus(e)' = RedStatus(e)
  BY <1>1, <1>3 DEF RedStatus, RedIds
<1> QED BY <1>1, <1>4, RedStutters

\* The workers, the consumer group and the store implement at-least-once
\* delivery: an entry is settled only handled and never comes back, whatever
\* fails between XREADGROUP, the dispatch, XACK and XDEL.
THEOREM RedisDeliversAtLeastOnce == RedSpec => RedDeliversAtLeastOnce
<1>1. RedInit => RedPromise!Init
  <2> SUFFICES ASSUME RedInit PROVE RedPromise!Init
    OBVIOUS
  <2>1. \A e \in RedIds : e > redLast
    BY RedAssumption DEF RedInit, RedIds
  <2>2. redHandled = {}
    BY DEF RedInit
  <2>3. \A e \in RedIds : RedStatus(e) = "absent"
    BY <2>1 DEF RedStatus
  <2> QED BY <2>1, <2>2, <2>3 DEF RedPromise!Init
<1>2. RedInv /\ [RedNext]_redVars => [RedPromise!Next]_(RedPromise!promiseVars)
  <2> SUFFICES ASSUME RedInv, [RedNext]_redVars
               PROVE  RedPromise!Next \/ UNCHANGED RedPromise!promiseVars
    OBVIOUS
  <2>n. /\ RedTypeOK /\ redLast \in Nat /\ redDelivered \in Nat /\ redDelivered <= redLast
        /\ MaxRedEntries \in Nat
    BY RedAssumption DEF RedInv, RedTypeOK
  <2>s. UNCHANGED <<redLast, redDelivered, redPending, redHandled>>
          => UNCHANGED RedPromise!promiseVars
    <3> SUFFICES ASSUME UNCHANGED <<redLast, redDelivered, redPending, redHandled>>
                 PROVE  UNCHANGED RedPromise!promiseVars
      OBVIOUS
    <3>1. \A e \in RedIds : RedStatus(e)' = RedStatus(e)
      BY DEF RedStatus
    <3> QED BY <3>1, RedStutters
  <2>1. CASE UNCHANGED redVars
    BY <2>1, <2>s DEF redVars
  <2>2. CASE RedPublish
    <3> DEFINE e1 == redLast + 1
    <3>1. /\ redLast' = e1 /\ e1 \in RedIds /\ UNCHANGED <<redDelivered, redPending, redHandled>>
      BY <2>2, <2>n DEF RedPublish, RedIds
    <3>2. \A e \in RedIds : (e > redLast' <=> e > redLast /\ e # e1) /\ e \in Nat
      BY <2>n, <3>1 DEF RedIds
    <3>3. e1 > redLast /\ e1 > redDelivered
      BY <2>n
    <3> HIDE DEF e1
    <3>4. \A e \in RedIds :
            RedStatus(e)' = IF e \in {e1} THEN "pending" ELSE RedStatus(e)
      BY <3>1, <3>2, <3>3 DEF RedStatus
    <3>s. PICK S \in SUBSET RedIds : S = {e1}
      BY <3>1
    <3>5. RedPromise!Store(S)
      <4>1. RedStatus(e1) = "absent"
        BY <3>3 DEF RedStatus
      <4>2. \A e \in RedIds :
              IF e \in {e1} THEN (IF e > redLast' THEN 0 ELSE e) \in RedIds
                ELSE (IF e > redLast' THEN 0 ELSE e) = IF e > redLast THEN 0 ELSE e
        BY <3>1, <3>2
      <4> QED BY <3>1, <3>4, <3>s, <4>1, <4>2 DEF RedPromise!Store, RedIds
    <3> QED BY <3>5 DEF RedPromise!Next
  <2>3. ASSUME NEW w \in Consumers, ReadPending(w) PROVE UNCHANGED RedPromise!promiseVars
    BY <2>3, <2>s DEF ReadPending
  <2>4. ASSUME NEW w \in Consumers, DispatchBatch(w) PROVE RedPromise!Next
    BY <2>4, <2>n, DispatchHandles DEF DispatchBatch, RedTypeOK
  <2>5. ASSUME NEW w \in Consumers, DispatchFails(w) PROVE RedPromise!Next
    <3>1. PICK H \in SUBSET redTaken[w] : redHandled' = redHandled \cup H
      BY <2>5 DEF DispatchFails
    <3>2. H \in SUBSET (1 .. redDelivered)
      BY <3>1, <2>n DEF RedTypeOK
    <3>3. UNCHANGED <<redLast, redDelivered, redPending>>
      BY <2>5 DEF DispatchFails
    <3> QED BY <3>1, <3>2, <3>3, <2>n, DispatchHandles
  <2>6. ASSUME NEW w \in Consumers, Nack(w) \/ XDel(w) \/ RedWorkerDies(w) \/ RedRestart(w)
        PROVE  UNCHANGED RedPromise!promiseVars
    BY <2>6, <2>s DEF Nack, XDel, RedWorkerDies, RedRestart
  <2> QED BY <2>1, <2>2, <2>3, <2>4, <2>5, <2>6, XAckEnds, ReadNewStutters
          DEF RedNext, RedWorkerRuns
<1> QED BY <1>1, <1>2, RedInvariant, PTL DEF RedSpec, RedDeliversAtLeastOnce, RedPromise!Spec
=============================================================================
