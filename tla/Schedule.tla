------------------------------ MODULE Schedule ------------------------------
(***************************************************************************)
(* runtime/contracts/schedule.go: RunScheduledJobs.  Jobs that are all     *)
(* @once run one after the other; otherwise each job has a loop of its     *)
(* own, an @every loop starts a run per tick unless one is running, and    *)
(* the caller waits for the first of: an error, its context, the end of    *)
(* all loops.                                                              *)
(*                                                                         *)
(* A select that is parked takes the first case that becomes ready; one    *)
(* that finds several ready takes any.                                     *)
(***************************************************************************)
EXTENDS Naturals

CONSTANTS
  SchJobs,      \* the number of jobs
  MaxSchTicks   \* bound: ticks of a job's ticker

ASSUME SchAssumption == SchJobs \in Nat \ {0} /\ MaxSchTicks \in Nat

VARIABLES
  schOnce,     \* the @once jobs
  schRunner,   \* the caller of RunScheduledJobs
  schNext,     \* the next job of the sequence, when all are @once
  schResult,   \* what it returns: nil, a job's failure, or ctx.Err()
  schCtx,      \* ctx is canceled
  schStop,     \* runCtx is canceled
  schErr,      \* the first error in errs, the one that is received
  schClosed,   \* done is closed
  schLoop,     \* job -> its loop
  schRunning,  \* job -> running, of its @every loop
  schSpawned,  \* job -> run goroutines that are still to look at the context
  schActive,   \* job -> runs in progress, one at most: the overlap policy "skip"
  schDone,     \* job -> what its loop's done channel holds
  schTicks,    \* job -> ticks so far
  schFailed,   \* history: the jobs a run of which failed
  schEarly     \* history: all loops ended before the caller waited for them

schCaller == <<schRunner, schNext, schResult>>
schRuns == <<schRunning, schSpawned, schActive, schDone, schTicks>>
schVars == <<schOnce, schCaller, schCtx, schStop, schErr, schClosed, schLoop, schRuns,
             schFailed, schEarly>>

Jobs == 1 .. SchJobs
Outcomes == {"ok", "failed", "canceled"}

SchTypeOK ==
  /\ schOnce \subseteq Jobs /\ schFailed \subseteq Jobs
  /\ schRunner \in {"sequence", "starting", "parked", "stopping", "returned"}
  /\ schNext \in 1 .. SchJobs + 1
  /\ schResult \in {"none", "nil", "failed", "canceled"}
  /\ {schCtx, schStop, schClosed, schEarly} \subseteq BOOLEAN
  /\ schErr \in {"none", "failed", "canceled"}
  /\ schLoop \in [Jobs -> {"idle", "select", "once", "inrun", "ended"}]
  /\ schRunning \in [Jobs -> BOOLEAN]
  /\ schSpawned \in [Jobs -> Nat] /\ schActive \in [Jobs -> 0 .. 1]
  /\ schDone \in [Jobs -> {"empty"} \cup Outcomes]
  /\ schTicks \in [Jobs -> 0 .. MaxSchTicks]

SchInit ==
  /\ schOnce \in SUBSET Jobs
  /\ schRunner = IF schOnce = Jobs THEN "sequence" ELSE "starting"
  /\ schNext = 1
  /\ schResult = "none"
  /\ schCtx = FALSE /\ schStop = FALSE
  /\ schErr = "none" /\ schClosed = FALSE
  /\ schLoop = [j \in Jobs |-> IF schOnce = Jobs THEN "idle"
                               ELSE IF j \in schOnce THEN "once" ELSE "select"]
  /\ schRunning = [j \in Jobs |-> FALSE]
  /\ schSpawned = [j \in Jobs |-> 0] /\ schActive = [j \in Jobs |-> 0]
  /\ schDone = [j \in Jobs |-> "empty"]
  /\ schTicks = [j \in Jobs |-> 0]
  /\ schFailed = {}
  /\ schEarly = FALSE

-----------------------------------------------------------------------------
(* runScheduledJob.                                                        *)

\* An error that says Canceled counts as one of the context.
RunOutcomesByName == Outcomes

\* What a run may come to; context.Canceled is the context's only when the
\* context is done.
RunOutcomes == {"ok", "failed"} \cup (IF schStop THEN {"canceled"} ELSE {})

Fails(j, outcome) ==
  schFailed' = IF outcome = "failed" THEN schFailed \cup {j} ELSE schFailed

-----------------------------------------------------------------------------
(* All jobs are @once: the caller runs them.                               *)

SequenceReturns(result) ==
  /\ schRunner' = "returned"
  /\ schResult' = result
  /\ UNCHANGED schNext

SequenceStep ==
  /\ schRunner = "sequence"
  /\ IF schCtx THEN SequenceReturns("canceled") /\ UNCHANGED schFailed
     ELSE \E outcome \in RunOutcomes :
       /\ Fails(schNext, outcome)
       /\ IF outcome # "ok" THEN SequenceReturns(outcome)
          ELSE IF schNext = SchJobs THEN SequenceReturns("nil")
          ELSE schNext' = schNext + 1 /\ UNCHANGED <<schRunner, schResult>>
  /\ UNCHANGED <<schOnce, schCtx, schStop, schErr, schClosed, schLoop, schRuns, schEarly>>

-----------------------------------------------------------------------------
(* The caller's select.                                                    *)

\* A case of the caller's select is taken.
Takes(result) ==
  /\ schRunner' = IF result = "nil" THEN "returned" ELSE "stopping"
  /\ schResult' = result
  /\ schStop' = (schStop \/ result # "nil")

\* The caller reaches its select.
RunnerWaits ==
  /\ schRunner = "starting"
  /\ \/ schErr # "none" /\ Takes(schErr)
     \/ schCtx /\ Takes("canceled")
     \/ schClosed /\ Takes("nil")
     \/ /\ schErr = "none" /\ ~schCtx /\ ~schClosed
        /\ schRunner' = "parked"
        /\ UNCHANGED <<schResult, schStop>>
  /\ UNCHANGED <<schOnce, schNext, schCtx, schErr, schClosed, schLoop, schRuns, schFailed,
                 schEarly>>

\* The caller's context is canceled, and runCtx with it.
SchCancel ==
  /\ ~schCtx /\ schRunner # "returned"
  /\ schCtx' = TRUE
  /\ schStop' = TRUE
  /\ IF schRunner = "parked"
       THEN schRunner' = "stopping" /\ schResult' = "canceled"
       ELSE UNCHANGED <<schRunner, schResult>>
  /\ UNCHANGED <<schOnce, schNext, schErr, schClosed, schLoop, schRuns, schFailed, schEarly>>

\* wait.Wait returns: all loops have ended.
CloseDone ==
  /\ \A j \in Jobs : schLoop[j] = "ended"
  /\ ~schClosed
  /\ schClosed' = TRUE
  /\ schEarly' = (schRunner = "starting")
  /\ IF schRunner = "parked" THEN Takes("nil")
                             ELSE UNCHANGED <<schRunner, schResult, schStop>>
  /\ UNCHANGED <<schOnce, schNext, schCtx, schErr, schLoop, schRuns, schFailed>>

\* <-done
RunnerReturns ==
  /\ schRunner = "stopping" /\ schClosed
  /\ schRunner' = "returned"
  /\ UNCHANGED <<schOnce, schNext, schResult, schCtx, schStop, schErr, schClosed, schLoop,
                 schRuns, schFailed, schEarly>>

-----------------------------------------------------------------------------
(* runScheduledJobLoop.                                                    *)

\* The loop ends, and its error is sent.
EndLoop(j, outcome) ==
  /\ schLoop' = [schLoop EXCEPT ![j] = "ended"]
  /\ IF outcome # "ok" /\ schRunner = "parked"
       THEN Takes(outcome) /\ UNCHANGED schErr
       ELSE /\ schErr' = IF outcome # "ok" /\ schErr = "none" THEN outcome ELSE schErr
            /\ UNCHANGED <<schRunner, schResult, schStop>>

\* An @once loop: the context is looked at, the job runs and ends.
OnceStarts(j) ==
  /\ schLoop[j] = "once"
  /\ IF schStop
       THEN EndLoop(j, "canceled") /\ UNCHANGED schActive
       ELSE /\ schLoop' = [schLoop EXCEPT ![j] = "inrun"]
            /\ schActive' = [schActive EXCEPT ![j] = @ + 1]
            /\ UNCHANGED <<schRunner, schResult, schStop, schErr>>
  /\ UNCHANGED <<schOnce, schNext, schCtx, schClosed, schRunning, schSpawned, schDone, schTicks,
                 schFailed, schEarly>>

OnceEnds(j) ==
  /\ schLoop[j] = "inrun"
  /\ schActive' = [schActive EXCEPT ![j] = @ - 1]
  /\ \E outcome \in RunOutcomes : EndLoop(j, outcome) /\ Fails(j, outcome)
  /\ UNCHANGED <<schOnce, schNext, schCtx, schClosed, schRunning, schSpawned, schDone, schTicks,
                 schEarly>>

\* A loop that waits for its run before it ends.
LoopCanceledWaits(j) ==
  /\ schLoop[j] = "select" /\ schStop /\ ~schRunning[j]
  /\ EndLoop(j, "canceled")
  /\ UNCHANGED <<schOnce, schNext, schCtx, schClosed, schRuns, schFailed, schEarly>>

\* An @every loop that ends with its context ...
LoopCanceled(j) ==
  /\ schLoop[j] = "select" /\ schStop
  /\ EndLoop(j, "canceled")
  /\ UNCHANGED <<schOnce, schNext, schCtx, schClosed, schRuns, schFailed, schEarly>>

\* ... takes the outcome of its run ...
LoopDone(j) ==
  /\ schLoop[j] = "select" /\ schDone[j] # "empty"
  /\ schRunning' = [schRunning EXCEPT ![j] = FALSE]
  /\ schDone' = [schDone EXCEPT ![j] = "empty"]
  /\ IF schDone[j] = "ok"
       THEN UNCHANGED <<schLoop, schErr, schRunner, schResult, schStop>>
       ELSE EndLoop(j, schDone[j])
  /\ UNCHANGED <<schOnce, schNext, schCtx, schClosed, schSpawned, schActive, schTicks, schFailed,
                 schEarly>>

\* A ticker that starts a run at every tick.
LoopTickStarts(j) ==
  /\ schLoop[j] = "select" /\ schTicks[j] < MaxSchTicks
  /\ schTicks' = [schTicks EXCEPT ![j] = @ + 1]
  /\ schRunning' = [schRunning EXCEPT ![j] = TRUE]
  /\ schSpawned' = [schSpawned EXCEPT ![j] = @ + 1]
  /\ UNCHANGED <<schOnce, schCaller, schCtx, schStop, schErr, schClosed, schLoop, schActive,
                 schDone, schFailed, schEarly>>

\* ... or starts one at a tick, unless one is running.
LoopTick(j) ==
  /\ schLoop[j] = "select" /\ schTicks[j] < MaxSchTicks
  /\ schTicks' = [schTicks EXCEPT ![j] = @ + 1]
  /\ schRunning' = [schRunning EXCEPT ![j] = TRUE]
  /\ schSpawned' = [schSpawned EXCEPT ![j] = IF schRunning[j] THEN @ ELSE @ + 1]
  /\ UNCHANGED <<schOnce, schCaller, schCtx, schStop, schErr, schClosed, schLoop, schActive,
                 schDone, schFailed, schEarly>>

\* The goroutine of a run looks at the context and calls Run, ...
RunStarts(j) ==
  /\ schSpawned[j] > 0
  /\ schSpawned' = [schSpawned EXCEPT ![j] = @ - 1]
  /\ IF schStop
       THEN /\ schDone[j] = "empty"
            /\ schDone' = [schDone EXCEPT ![j] = "canceled"]
            /\ UNCHANGED schActive
       ELSE /\ schActive' = [schActive EXCEPT ![j] = @ + 1]
            /\ UNCHANGED schDone
  /\ UNCHANGED <<schOnce, schCaller, schCtx, schStop, schErr, schClosed, schLoop, schRunning,
                 schTicks, schFailed, schEarly>>

\* ... whose outcome goes to the loop's channel.
RunEnds(j) ==
  /\ j \notin schOnce /\ schActive[j] > 0 /\ schDone[j] = "empty"
  /\ schActive' = [schActive EXCEPT ![j] = @ - 1]
  /\ \E outcome \in RunOutcomes :
       schDone' = [schDone EXCEPT ![j] = outcome] /\ Fails(j, outcome)
  /\ UNCHANGED <<schOnce, schCaller, schCtx, schStop, schErr, schClosed, schLoop, schRunning,
                 schSpawned, schTicks, schEarly>>

-----------------------------------------------------------------------------
SchLoopStep(j) == OnceStarts(j) \/ OnceEnds(j) \/ LoopCanceled(j) \/ LoopDone(j)
SchCallerStep == SequenceStep \/ RunnerWaits \/ RunnerReturns \/ CloseDone

SchNextStep ==
  \/ SchCallerStep \/ SchCancel
  \/ \E j \in Jobs : SchLoopStep(j) \/ LoopTick(j) \/ RunStarts(j) \/ RunEnds(j)

SchSpec == SchInit /\ [][SchNextStep]_schVars

\* The caller and the loops run, a select does not pass over a ready case for
\* ever, and @once jobs return.  The runs of @every jobs need not return.
SchFairSpec == SchSpec /\ WF_schVars(SchCallerStep) /\ \A j \in Jobs : WF_schVars(SchLoopStep(j))

-----------------------------------------------------------------------------
(* Properties.                                                             *)

\* What RunScheduledJobs returns has its cause: the context's error only if
\* the caller's context was canceled, not because a job said Canceled or
\* because other loops were stopped after a failure; nil only if no job
\* failed, but for loops that had all ended before the caller waited for them.
ScheduleBlames ==
  schRunner = "returned" =>
    /\ schResult = "canceled" => schCtx
    /\ schResult = "failed" => schFailed # {}
    /\ schResult = "nil" => schFailed = {} \/ schEarly

\* RunScheduledJobs returns when its context is canceled or a job has failed
\* in a loop that is still there, also while a run of an @every job hangs.
ScheduleReturns ==
  schCtx \/ (\E j \in schFailed : schLoop[j] = "ended" \/ schDone[j] = "failed")
    ~> schRunner = "returned"
=============================================================================
