---------------------------- MODULE MCFairParts ------------------------------
(***************************************************************************)
(* The parts with liveness properties that share no state, in one run: a   *)
(* behaviour picks a part and takes the steps of that part alone, so that  *)
(* the states are the sum, not the product, of the parts'.  The other      *)
(* parts stay in one of their initial states.                              *)
(***************************************************************************)
EXTENDS DevLoop, Schedule, Lifecycle, RedisStream

VARIABLE fairPart

FairParts == {"dev", "schedule", "lifecycle", "redis"}

fairVars == <<fairPart, devVars, schVars, lifeVars, redVars>>

FairInit ==
  /\ fairPart \in FairParts
  /\ DevInit /\ SchInit /\ LifeInit /\ RedInit
  /\ fairPart # "dev" => ~devRuntime /\ devInput = 1
  /\ fairPart # "schedule" => schOnce = {}
  /\ fairPart # "redis" => redBad = {}

\* It is p's turn, and every other part stays as it is.
FairAlone(p) ==
  /\ fairPart = p /\ UNCHANGED fairPart
  /\ IF p = "dev" THEN TRUE ELSE UNCHANGED devVars
  /\ IF p = "schedule" THEN TRUE ELSE UNCHANGED schVars
  /\ IF p = "lifecycle" THEN TRUE ELSE UNCHANGED lifeVars
  /\ IF p = "redis" THEN TRUE ELSE UNCHANGED redVars

FairNext ==
  \/ FairAlone("dev") /\ DevNext
  \/ FairAlone("schedule") /\ SchNextStep
  \/ FairAlone("lifecycle") /\ LifeNext
  \/ FairAlone("redis") /\ RedNext

\* The fairness of each part, as its own specification states it.  A
\* behaviour has one part, so that processes of several may share a conjunct.
PartsFairness ==
  /\ WF_fairVars(\/ FairAlone("dev") /\ DevRun
                 \/ FairAlone("schedule") /\ SchCallerStep
                 \/ FairAlone("lifecycle") /\ LifeRun)
  /\ \A j \in Jobs : WF_fairVars(FairAlone("schedule") /\ SchLoopStep(j))
  /\ \A w \in Consumers : WF_fairVars(FairAlone("redis") /\ RedWorkerRuns(w))

FairPartsSpec == FairInit /\ [][FairNext]_fairVars /\ PartsFairness

-----------------------------------------------------------------------------
(* Properties.                                                             *)

\* Every variable of every part has its type; that of schActive is the overlap
\* policy: no job has two runs in progress, however late the outcome of the
\* first is taken.
FairPartsTypeOK == DevTypeOK /\ SchTypeOK /\ LifeTypeOK /\ RedTypeOK

\* DevComesToRest of the dev loop: once the editing is over, it settles.
DevLoopSettles == fairPart = "dev" => DevComesToRest

\* ScheduleReturns of the scheduled jobs: RunScheduledJobs returns once it is
\* canceled or a job has failed.
JobsReturn == fairPart = "schedule" => ScheduleReturns

\* RunReturns of the application: Run returns once it is signalled.
AppReturns == fairPart = "lifecycle" => RunReturns

\* RedDrains of the Redis stream: every published entry is handled in the end.
StreamDrains == fairPart = "redis" => RedDrains
=============================================================================
