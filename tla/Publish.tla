------------------------------- MODULE Publish -------------------------------
(***************************************************************************)
(* internal/publish/publish.go: a build stages a generation of several     *)
(* targets (the output directory, the security manifest; or the generated  *)
(* app) next to them and then replaces them by renames, with the old       *)
(* generation as a backup that a failed Commit puts back and that the next *)
(* Stage of the target recovers.                                           *)
(*                                                                         *)
(* A step is one file operation, which may fail, and the process may die   *)
(* between any two, or within a RemoveAll, which is not atomic.  One       *)
(* process builds at a time, so a target has at most one backup and one    *)
(* stage.                                                                  *)
(***************************************************************************)
EXTENDS Integers

CONSTANTS
  PubTargets,      \* how many targets a transaction has
  PubGenerations   \* the generations that are built

ASSUME PubAssumption == PubTargets \in Nat \ {0} /\ PubGenerations \subseteq Nat \ {0}

VARIABLES
  pubTarget,   \* slot -> what is at the target's path
  pubBackup,   \* slot -> what is at its backup's path
  pubStage,    \* slot -> what is at its stage's path
  pubPc,       \* where the transaction is
  pubAt,       \* the slot it is at
  pubMoved,    \* the slots with moved
  pubHadOld,   \* the slots with hadOld
  pubNew,      \* the generation it publishes
  pubBefore,   \* history: the targets, recovered, before Commit
  pubErrs,     \* history: what its rollback could not do
  pubOwed,     \* history: slots whose last committed generation must survive
  pubStuck     \* history: slots whose new generation a rollback could not
               \* remove as a whole, and no Recover has cleaned since

pubVars == <<pubTarget, pubBackup, pubStage, pubPc, pubAt, pubMoved, pubHadOld, pubNew,
             pubBefore, pubErrs, pubOwed, pubStuck>>

Slots == 1 .. PubTargets

\* What a path can hold: nothing; something that is no generation, such as an
\* empty directory or what a RemoveAll left that stopped halfway; or a
\* generation.
Absent == 0
Partial == -1
Contents == {Absent, Partial} \cup PubGenerations
Whole(content) == content \in PubGenerations

Over == {"idle", "committed", "failed"}

PubTypeOK ==
  /\ pubTarget \in [Slots -> Contents]
  /\ pubBackup \in [Slots -> Contents]
  /\ pubStage \in [Slots -> Contents]
  /\ pubPc \in Over \cup {"recover", "clean", "stage", "fill", "backup", "swap", "remove",
                          "restore", "abort", "cleanup"}
  /\ pubAt \in Slots
  /\ pubMoved \subseteq Slots /\ pubHadOld \subseteq Slots /\ pubOwed \subseteq Slots
  /\ pubStuck \subseteq Slots
  /\ pubNew \in Contents
  /\ pubBefore \in [Slots -> Contents]
  /\ pubErrs \subseteq {"remove", "restore"}

PubInit ==
  /\ pubTarget = [i \in Slots |-> Absent]
  /\ pubBackup = [i \in Slots |-> Absent]
  /\ pubStage = [i \in Slots |-> Absent]
  /\ pubPc = "idle" /\ pubAt = 1
  /\ pubMoved = {} /\ pubHadOld = {}
  /\ pubNew = Absent
  /\ pubBefore = [i \in Slots |-> Absent]
  /\ pubErrs = {}
  /\ pubOwed = {} /\ pubStuck = {}

-----------------------------------------------------------------------------
(* Steps that several operations share.                                    *)

At(pc, i) == pubPc' = pc /\ pubAt' = i

\* The error path of everything before Commit: the deferred Abort.
GiveUp == At("abort", 1)

\* A failure that leaves the targets already replaced as they are.
RollbackNothing(last) == GiveUp

\* rollback(last), down to the first entry, and then Abort.
Rollback(last) == IF last = 0 THEN GiveUp ELSE At("remove", last)

\* What a RemoveAll may leave of a path when it fails or is interrupted.
LeftOf(content) == IF content = Absent THEN {Absent} ELSE {content, Partial}

-----------------------------------------------------------------------------
(* StageDirectory, StageFile and Recover.                                  *)

Begin(g) ==
  /\ pubPc \in Over
  /\ At("recover", 1)
  /\ pubNew' = g
  /\ pubMoved' = {} /\ pubHadOld' = {} /\ pubErrs' = {}
  /\ pubBefore' = pubTarget
  /\ UNCHANGED <<pubTarget, pubBackup, pubStage, pubOwed, pubStuck>>

\* A Recover that only cleans up.
RecoverKeepsAway ==
  /\ pubPc = "recover"
  /\ At("clean", pubAt)
  /\ UNCHANGED <<pubTarget, pubBackup, pubStage, pubMoved, pubHadOld, pubNew, pubBefore,
                 pubErrs, pubOwed, pubStuck>>

\* Recover restores the backup of a target that vanished.
RecoverRestore ==
  /\ pubPc = "recover"
  /\ IF pubTarget[pubAt] = Absent /\ pubBackup[pubAt] # Absent
       THEN /\ pubTarget' = [pubTarget EXCEPT ![pubAt] = pubBackup[pubAt]]
            /\ pubBackup' = [pubBackup EXCEPT ![pubAt] = Absent]
       ELSE UNCHANGED <<pubTarget, pubBackup>>
  /\ pubBefore' = pubTarget'
  /\ At("clean", pubAt)
  /\ UNCHANGED <<pubStage, pubMoved, pubHadOld, pubNew, pubErrs, pubOwed, pubStuck>>

\* Recover takes what a stopped removal has left for a target; with the
\* backup goes the generation.
LoseStuck ==
  pubOwed' = pubOwed \ {i \in pubStuck : ~Whole(pubTarget[i]) /\ ~Whole(pubBackup'[i])}

\* Recover removes the backups and stages that are left.
RecoverClean ==
  /\ pubPc = "clean"
  /\ pubBackup' = [pubBackup EXCEPT ![pubAt] = Absent]
  /\ pubStage' = [pubStage EXCEPT ![pubAt] = Absent]
  /\ LoseStuck /\ pubStuck' = pubStuck \ {pubAt}
  /\ At("stage", pubAt)
  /\ UNCHANGED <<pubTarget, pubMoved, pubHadOld, pubNew, pubBefore, pubErrs>>

\* The removal of the backup fails, or that of a stage after it.
RecoverCleanFails ==
  /\ pubPc = "clean"
  /\ \E left \in LeftOf(pubBackup[pubAt]) \cup {Absent} :
       pubBackup' = [pubBackup EXCEPT ![pubAt] = left]
  /\ LoseStuck
  /\ GiveUp
  /\ UNCHANGED <<pubTarget, pubStage, pubMoved, pubHadOld, pubNew, pubBefore, pubErrs,
                 pubStuck>>

\* MkdirTemp or CreateTemp.
CreateStage ==
  /\ pubPc = "stage"
  /\ pubStage' = [pubStage EXCEPT ![pubAt] = Partial]
  /\ IF pubAt < PubTargets THEN At("recover", pubAt + 1) ELSE At("fill", 1)
  /\ UNCHANGED <<pubTarget, pubBackup, pubMoved, pubHadOld, pubNew, pubBefore, pubErrs,
                 pubOwed, pubStuck>>

\* The generator writes the staged files and the prePublish validation passes;
\* then Commit is called.
FillStages ==
  /\ pubPc = "fill"
  /\ pubStage' = [i \in Slots |-> pubNew]
  /\ At("backup", 1)
  /\ UNCHANGED <<pubTarget, pubBackup, pubMoved, pubHadOld, pubNew, pubBefore, pubErrs,
                 pubOwed, pubStuck>>

\* A rename of Recover, MkdirTemp, a write or the validation fails.
StageFails ==
  /\ pubPc \in {"recover", "stage", "fill"}
  /\ GiveUp
  /\ UNCHANGED <<pubTarget, pubBackup, pubStage, pubMoved, pubHadOld, pubNew, pubBefore,
                 pubErrs, pubOwed, pubStuck>>

-----------------------------------------------------------------------------
(* Commit, rollback and Abort.                                             *)

\* The entry's target becomes its backup.
BackUp ==
  /\ pubPc = "backup"
  /\ IF pubTarget[pubAt] # Absent
       THEN /\ pubBackup' = [pubBackup EXCEPT ![pubAt] = pubTarget[pubAt]]
            /\ pubTarget' = [pubTarget EXCEPT ![pubAt] = Absent]
            /\ pubHadOld' = pubHadOld \cup {pubAt}
       ELSE UNCHANGED <<pubTarget, pubBackup, pubHadOld>>
  /\ At("swap", pubAt)
  /\ UNCHANGED <<pubStage, pubMoved, pubNew, pubBefore, pubErrs, pubOwed, pubStuck>>

\* validateStage, unusedBackupPath, Lstat or the rename fails.
BackUpFails ==
  /\ pubPc = "backup"
  /\ Rollback(pubAt - 1)
  /\ UNCHANGED <<pubTarget, pubBackup, pubStage, pubMoved, pubHadOld, pubNew, pubBefore,
                 pubErrs, pubOwed, pubStuck>>

\* The entry's stage becomes its target.
Swap ==
  /\ pubPc = "swap"
  /\ pubTarget' = [pubTarget EXCEPT ![pubAt] = pubStage[pubAt]]
  /\ pubStage' = [pubStage EXCEPT ![pubAt] = Absent]
  /\ pubMoved' = pubMoved \cup {pubAt}
  /\ IF pubAt < PubTargets
       THEN At("backup", pubAt + 1) /\ UNCHANGED pubOwed
       ELSE At("cleanup", 1) /\ pubOwed' = Slots
  /\ UNCHANGED <<pubBackup, pubHadOld, pubNew, pubBefore, pubErrs, pubStuck>>

\* The rename fails; the backup is put back, if that rename succeeds.
SwapFails ==
  /\ pubPc = "swap"
  /\ \/ /\ pubAt \in pubHadOld
        /\ pubTarget' = [pubTarget EXCEPT ![pubAt] = pubBackup[pubAt]]
        /\ pubBackup' = [pubBackup EXCEPT ![pubAt] = Absent]
        /\ UNCHANGED pubErrs
     \/ /\ UNCHANGED <<pubTarget, pubBackup>>
        /\ pubErrs' = IF pubAt \in pubHadOld THEN pubErrs \cup {"restore"} ELSE pubErrs
  /\ Rollback(pubAt - 1)
  /\ UNCHANGED <<pubStage, pubMoved, pubHadOld, pubNew, pubBefore, pubOwed, pubStuck>>

\* rollback: the new generation is removed ...
RollbackRemove ==
  /\ pubPc = "remove"
  /\ pubTarget' = [pubTarget EXCEPT ![pubAt] = Absent]
  /\ At("restore", pubAt)
  /\ UNCHANGED <<pubBackup, pubStage, pubMoved, pubHadOld, pubNew, pubBefore, pubErrs,
                 pubOwed, pubStuck>>

\* (a removal that fails leaves the entry moved, and may leave a part of it)
RollbackRemoveFails ==
  /\ pubPc = "remove"
  /\ \E left \in LeftOf(pubTarget[pubAt]) : pubTarget' = [pubTarget EXCEPT ![pubAt] = left]
  /\ pubErrs' = pubErrs \cup {"remove"}
  /\ pubStuck' = pubStuck \cup {pubAt}
  /\ Rollback(pubAt - 1)
  /\ UNCHANGED <<pubBackup, pubStage, pubMoved, pubHadOld, pubNew, pubBefore, pubOwed>>

\* ... and the backup put back.
RollbackRestore ==
  /\ pubPc = "restore"
  /\ IF pubAt \in pubHadOld
       THEN /\ pubTarget' = [pubTarget EXCEPT ![pubAt] = pubBackup[pubAt]]
            /\ pubBackup' = [pubBackup EXCEPT ![pubAt] = Absent]
       ELSE UNCHANGED <<pubTarget, pubBackup>>
  /\ pubMoved' = pubMoved \ {pubAt}
  /\ Rollback(pubAt - 1)
  /\ UNCHANGED <<pubStage, pubHadOld, pubNew, pubBefore, pubErrs, pubOwed, pubStuck>>

RollbackRestoreFails ==
  /\ pubPc = "restore"
  /\ pubAt \in pubHadOld
  /\ pubErrs' = pubErrs \cup {"restore"}
  /\ pubMoved' = pubMoved \ {pubAt}
  /\ Rollback(pubAt - 1)
  /\ UNCHANGED <<pubTarget, pubBackup, pubStage, pubHadOld, pubNew, pubBefore, pubOwed,
                 pubStuck>>

\* Abort; what it cannot remove the next Recover removes.
Abort ==
  /\ pubPc = "abort"
  /\ \/ pubStage' = [i \in Slots |-> IF i \in pubMoved THEN pubStage[i] ELSE Absent]
     \/ UNCHANGED pubStage
  /\ At("failed", 1)
  /\ UNCHANGED <<pubTarget, pubBackup, pubMoved, pubHadOld, pubNew, pubBefore, pubErrs,
                 pubOwed, pubStuck>>

\* Every target is replaced: the backups go, as far as they can be removed.
RemoveBackup ==
  /\ pubPc = "cleanup"
  /\ \E left \in LeftOf(pubBackup[pubAt]) \cup {Absent} :
       pubBackup' = [pubBackup EXCEPT ![pubAt] = left]
  /\ IF pubAt < PubTargets THEN At("cleanup", pubAt + 1) ELSE At("committed", 1)
  /\ UNCHANGED <<pubTarget, pubStage, pubMoved, pubHadOld, pubNew, pubBefore, pubErrs,
                 pubOwed, pubStuck>>

-----------------------------------------------------------------------------
(* The process dies, between two steps or within a RemoveAll.              *)

\* The transaction is forgotten with the process.
Forget ==
  /\ pubMoved' = {} /\ pubHadOld' = {} /\ pubErrs' = {}
  /\ pubNew' = Absent
  /\ pubBefore' = [i \in Slots |-> Absent]

PubCrash ==
  /\ pubPc \notin Over
  /\ At("idle", 1) /\ Forget
  /\ UNCHANGED <<pubTarget, pubBackup, pubStage, pubOwed, pubStuck>>

CrashInRemove ==
  /\ pubPc = "remove"
  /\ pubTarget' = [pubTarget EXCEPT ![pubAt] = Partial]
  /\ pubStuck' = pubStuck \cup {pubAt}
  /\ At("idle", 1) /\ Forget
  /\ UNCHANGED <<pubBackup, pubStage, pubOwed>>

CrashInCleanup ==
  /\ pubPc \in {"clean", "cleanup"}
  /\ pubBackup[pubAt] # Absent
  /\ pubBackup' = [pubBackup EXCEPT ![pubAt] = Partial]
  /\ LoseStuck
  /\ At("idle", 1) /\ Forget
  /\ UNCHANGED <<pubTarget, pubStage, pubStuck>>

PubDies == PubCrash \/ CrashInRemove \/ CrashInCleanup

-----------------------------------------------------------------------------
PubStep ==
  \/ RecoverRestore \/ RecoverClean \/ RecoverCleanFails \/ CreateStage \/ FillStages
  \/ StageFails \/ BackUp \/ BackUpFails \/ Swap \/ SwapFails \/ RollbackRemove
  \/ RollbackRemoveFails \/ RollbackRestore \/ RollbackRestoreFails \/ Abort \/ RemoveBackup

PubNext == (\E g \in PubGenerations : Begin(g)) \/ PubStep \/ PubDies

PubSpec == PubInit /\ [][PubNext]_pubVars

-----------------------------------------------------------------------------
(* Properties.                                                             *)

\* Once a target was published, a whole generation of it is on disk at every
\* moment, through errors and crashes: at the target, or in the backup.  In the
\* backup it is only while the target is absent, so that Recover restores it,
\* or after a rollback whose RemoveAll failed or was interrupted.  That is the
\* one way to lose it: the next Recover takes what is left for a target and
\* removes the backup (LoseStuck); until then it is there.
PubGenerationKept ==
  \A i \in pubOwed :
    \/ Whole(pubTarget[i])
    \/ Whole(pubBackup[i]) /\ (pubTarget[i] = Absent \/ i \in pubStuck)

\* A Commit that returns nil has replaced every target; a build that returns
\* an error leaves every target as it was before Commit, unless its rollback
\* met an error too.
PubAllOrNothing ==
  /\ pubPc = "committed" => \A i \in Slots : pubTarget[i] = pubNew
  /\ pubPc = "failed" /\ pubErrs = {} => pubTarget = pubBefore
=============================================================================
