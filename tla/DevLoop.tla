------------------------------ MODULE DevLoop -------------------------------
(***************************************************************************)
(* internal/gowdkcmd/dev.go and dev_loop.go: gowdk dev polls the inputs,   *)
(* rebuilds when their snapshot differs from the previous one, serves the  *)
(* output or restarts the generated app, and keeps a snapshot of the       *)
(* inputs in the output directory, by which the next start may skip its    *)
(* build.  A build publishes the output directory by a transaction of      *)
(* Publish (slot 1).                                                       *)
(*                                                                         *)
(* An input set is a number; the ones that compile are the generations, a  *)
(* generation being the output of its input set (an incremental build      *)
(* plans and publishes the whole output as a full build does).  An input   *)
(* snapshot is the number of what it saw.  Config changes that cannot be   *)
(* loaded leave the loop's state alone.                                    *)
(***************************************************************************)
EXTENDS Integers

CONSTANTS
  DevGenerations, \* the input sets that compile
  DevTexts,       \* the input sets
  MaxDevEdits,    \* bound: edits of the inputs
  MaxDevStarts    \* bound: how often gowdk dev is started

ASSUME DevAssumption ==
  /\ DevGenerations \subseteq DevTexts /\ DevTexts \subseteq Nat \ {0}
  /\ MaxDevEdits \in Nat /\ MaxDevStarts \in Nat

VARIABLES       \* of the transaction on the output directory: see Publish
  outTarget, outBackup, outStage, outPc, outAt, outMoved, outHadOld, outNew,
  outBefore, outErrs, outOwed, outStuck

\* The output directory and the transactions that publish it.
Out == INSTANCE Publish WITH
         PubTargets <- 1, PubGenerations <- DevGenerations,
         pubTarget <- outTarget, pubBackup <- outBackup, pubStage <- outStage,
         pubPc <- outPc, pubAt <- outAt, pubMoved <- outMoved, pubHadOld <- outHadOld,
         pubNew <- outNew, pubBefore <- outBefore, pubErrs <- outErrs, pubOwed <- outOwed,
         pubStuck <- outStuck

VARIABLES
  devRuntime,   \* state.runtime.Enabled
  devInput,     \* the inputs on disk
  devEdits,     \* how often they were edited
  devStarts,    \* how often gowdk dev was started
  devPc,        \* where the loop is; "off": not running
  devBoot,      \* the build before the loop
  devPrevious,  \* previous; 0: nil
  devRead,      \* the inputs the build has read
  devCache,     \* inputs.json of the output directory; 0: none
  devSaved,     \* inputs.json of its backup
  devFailed,    \* history: the inputs of the last build, if it failed
  devRaced      \* history: the last build did not read what previous saw

devLoopVars == <<devPc, devBoot, devPrevious, devRead, devCache, devSaved>>
devHistory == <<devFailed, devRaced>>
devWorld == <<devRuntime, devInput, devEdits, devStarts>>
outVars == <<outTarget, outBackup, outStage, outPc, outAt, outMoved, outHadOld, outNew,
             outBefore, outErrs, outOwed, outStuck>>
devVars == <<outVars, devWorld, devLoopVars, devHistory>>

DevTypeOK ==
  /\ devRuntime \in BOOLEAN /\ devBoot \in BOOLEAN
  /\ devInput \in DevTexts
  /\ devEdits \in 0 .. MaxDevEdits /\ devStarts \in 0 .. MaxDevStarts
  /\ devPc \in {"off", "read", "publish", "serve", "refresh", "cache", "sleep"}
  /\ {devPrevious, devRead, devCache, devSaved, devFailed} \subseteq DevTexts \cup {0}
  /\ devRaced \in BOOLEAN
  /\ Out!PubTypeOK

DevInit ==
  /\ Out!PubInit
  /\ devRuntime \in BOOLEAN
  /\ devInput \in DevTexts
  /\ devEdits = 0 /\ devStarts = 0
  /\ devPc = "off" /\ devBoot = FALSE
  /\ devPrevious = 0 /\ devRead = 0
  /\ devCache = 0 /\ devSaved = 0
  /\ devFailed = 0
  /\ devRaced = FALSE

-----------------------------------------------------------------------------
(* The world.                                                              *)

\* The developer edits an input.
DevEdit ==
  /\ devEdits < MaxDevEdits
  /\ devEdits' = devEdits + 1
  /\ devInput' \in DevTexts \ {devInput}
  /\ UNCHANGED <<outVars, devRuntime, devStarts, devLoopVars, devHistory>>

\* gowdk dev ends, at any point.
DevKilled ==
  /\ devPc # "off"
  /\ devPc' = "off"
  /\ IF outPc \in Out!Over THEN UNCHANGED outVars ELSE Out!PubDies
  /\ UNCHANGED <<devWorld, devBoot, devPrevious, devRead, devCache, devSaved, devHistory>>

-----------------------------------------------------------------------------
(* dev(): the start.                                                       *)

\* A cache that is fresh whatever it says.
MustBuildUncached(seen) == devRuntime \/ seen = 0 \/ devCache = 0

\* devInputCacheFresh and the conditions around it, for the snapshot seen.
MustBuild(seen) == devRuntime \/ seen = 0 \/ devCache # seen

\* os.MkdirAll of the output directory, the first snapshot (0: it failed),
\* and the decision to build.
DevStart ==
  /\ devPc = "off"
  /\ devStarts < MaxDevStarts
  /\ devStarts' = devStarts + 1
  /\ devBoot' = TRUE
  /\ outTarget' = [outTarget EXCEPT ![1] = IF @ = Out!Absent THEN Out!Partial ELSE @]
  /\ devPrevious' \in {devInput, 0}
  /\ devPc' = IF MustBuild(devPrevious') THEN "read" ELSE "serve"
  /\ devFailed' = 0
  /\ Out!At("idle", 1) /\ Out!Forget
  /\ UNCHANGED <<outBackup, outStage, outOwed, outStuck, devRuntime, devInput, devEdits, devRead,
                 devCache, devSaved, devRaced>>

-----------------------------------------------------------------------------
(* One round of the loop; the start shares its steps.                      *)

\* The snapshot differs from the previous one.
DevTick ==
  /\ devPc = "sleep"
  /\ devInput # devPrevious
  /\ devPrevious' = devInput
  /\ devPc' = "read"
  /\ UNCHANGED <<outVars, devWorld, devBoot, devRead, devCache, devSaved, devHistory>>

\* The build failed: the start returns, the loop goes on.
DevBuildFailed(text) ==
  /\ devPc' = IF devBoot THEN "off" ELSE "sleep"
  /\ devFailed' = text
  /\ devRaced' = (devRaced \/ devPrevious # text)

\* The build reads the inputs: they compile, and the output is published ...
DevBuild ==
  /\ devPc = "read"
  /\ devInput \in DevGenerations
  /\ devRead' = devInput
  /\ Out!Begin(devInput)
  /\ devPc' = "publish"
  /\ UNCHANGED <<devWorld, devBoot, devPrevious, devCache, devSaved, devHistory>>

\* A loop that tries a failed build again at every tick.
DevRetriesBuild ==
  /\ devPc = "read"
  /\ devInput \notin DevGenerations
  /\ devRead' = devInput
  /\ DevBuildFailed(devInput)
  /\ devPrevious' = 0
  /\ UNCHANGED <<outVars, devWorld, devBoot, devCache, devSaved>>

\* ... or they do not.
DevBuildRejects ==
  /\ devPc = "read"
  /\ devInput \notin DevGenerations
  /\ devRead' = devInput
  /\ DevBuildFailed(devInput)
  /\ UNCHANGED <<outVars, devWorld, devBoot, devPrevious, devCache, devSaved>>

\* inputs.json moves with the output directory: it comes back with a backup,
\* and a directory that is moved away or is new has none.
CacheMoves ==
  /\ devCache' = IF outTarget'[1] = outTarget[1] THEN devCache
                 ELSE IF outBackup[1] # Out!Absent /\ outBackup'[1] = Out!Absent THEN devSaved
                 ELSE 0
  /\ devSaved' = IF outPc = "backup" /\ outPc' = "swap" /\ outAt = 1 THEN devCache ELSE devSaved

DevPublish ==
  /\ devPc = "publish"
  /\ Out!PubStep
  /\ CacheMoves
  /\ UNCHANGED <<devWorld, devPc, devBoot, devPrevious, devRead, devFailed, devRaced>>

\* BuildFromPlan returns.
DevPublished ==
  /\ devPc = "publish"
  /\ \/ /\ outPc = "committed"
        /\ devPc' = IF devBoot THEN "refresh" ELSE "serve"
        /\ devFailed' = 0
        /\ UNCHANGED devRaced
     \/ /\ outPc = "failed"
        /\ DevBuildFailed(devRead)
  /\ UNCHANGED <<outVars, devWorld, devBoot, devPrevious, devRead, devCache, devSaved>>

\* serve.apply: the static server goes on serving the directory, or the
\* generated app is compiled and restarted.
DevServe ==
  /\ devPc = "serve"
  /\ devPc' = IF devBoot THEN "sleep" ELSE "refresh"
  /\ devBoot' = FALSE
  /\ UNCHANGED <<outVars, devWorld, devPrevious, devRead, devCache, devSaved, devHistory>>

\* The compiler, the listener or the start of the process fails.
DevServeFails ==
  /\ devPc = "serve"
  /\ devPc' = IF devBoot THEN "off" ELSE "sleep"
  /\ devRaced' = IF devBoot THEN devRaced ELSE devPrevious # devRead
  /\ UNCHANGED <<outVars, devWorld, devBoot, devPrevious, devRead, devCache, devSaved,
                 devFailed>>

\* A snapshot is taken again after the build; where it cannot be, the start is
\* left with none and the loop with the one it had.
DevRefresh ==
  /\ devPc = "refresh"
  /\ devPrevious' \in {devInput, devPrevious} \cup (IF devBoot THEN {0} ELSE {})
  /\ devPc' = "cache"
  /\ devRaced' = (devPrevious' # devRead)
  /\ UNCHANGED <<outVars, devWorld, devBoot, devRead, devCache, devSaved, devFailed>>

\* writeDevInputCache, which may fail.
DevWriteCache ==
  /\ devPc = "cache"
  /\ devCache' \in {devCache} \cup ({devPrevious} \ {0})
  /\ devPc' = IF devBoot THEN "serve" ELSE "sleep"
  /\ UNCHANGED <<outVars, devWorld, devBoot, devPrevious, devRead, devSaved, devHistory>>

-----------------------------------------------------------------------------
DevRun ==
  \/ DevTick \/ DevBuild \/ DevBuildRejects \/ DevPublish \/ DevPublished
  \/ DevServe \/ DevServeFails \/ DevRefresh \/ DevWriteCache

DevNext == DevEdit \/ DevKilled \/ DevStart \/ DevRun

DevSpec == DevInit /\ [][DevNext]_devVars

\* The loop runs: its sleep ends, its builds return.
DevFairSpec == DevSpec /\ WF_devVars(DevRun)

-----------------------------------------------------------------------------
(* Properties.                                                             *)

\* The loop is at rest: it waits for an input to differ from previous.
AtRest == devPc = "sleep" /\ devPrevious = devInput

UpToDate == outTarget[1] = devInput \/ devFailed = devInput

\* A loop at rest serves the output of the inputs as they are, or has reported
\* that these inputs do not build, over failed builds, failed publications,
\* kills, and starts that trust the cached snapshot; as long as no edit fell
\* between the reading of the inputs by a build and the snapshot that then
\* stands for it.
DevSettled == AtRest /\ ~devRaced => UpToDate

\* Once the edits end the loop comes to rest: each change leads to a build,
\* and a build that fails is not tried again before the inputs change.
DevComesToRest == <>[](devPc = "off" \/ AtRest)

\* gowdk dev "rebuilds after content changes": a loop at rest is up to date.
DevRebuildsChanges == AtRest => UpToDate

\* "If a target vanished after its old generation was backed up, the newest
\* backup is restored": a published output is not lost when gowdk dev dies in
\* the middle of a Commit and is started again.
DevKeepsGeneration == outOwed # {} => Out!Whole(outTarget[1]) \/ Out!Whole(outBackup[1])
=============================================================================
