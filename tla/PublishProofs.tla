---------------------------- MODULE PublishProofs ----------------------------
(***************************************************************************)
(* Theorems about Publish, for any number of targets and any set of        *)
(* generations; and about DevLoop, whose builds publish one target, for    *)
(* any inputs and any number of edits, kills and starts.                   *)
(***************************************************************************)
EXTENDS Publish, DevLoop, TLAPS

(***************************************************************************)
(* The inductive invariant says, for each place in the transaction, what   *)
(* is true of the slots before and behind the one it is at.                *)
(***************************************************************************)

\* Recover has looked at the slot: what is owed of it is at the target.
Ready(j) == j \in pubOwed => Whole(pubTarget[j])

\* Commit has not reached the slot.
Waiting(j) ==
  /\ Ready(j)
  /\ pubTarget[j] = pubBefore[j] /\ pubStage[j] = pubNew /\ j \notin pubHadOld

\* What was at the target before Commit, and is owed, is in the backup.
OldKept(j) ==
  /\ pubBefore[j] = IF j \in pubHadOld THEN pubBackup[j] ELSE Absent
  /\ j \in pubOwed => j \in pubHadOld /\ Whole(pubBackup[j])

Replaced(j) == pubTarget[j] = pubNew /\ OldKept(j)

\* Commit, or its rollback, is between the two renames of the slot.
Between(j) == pubTarget[j] = Absent /\ OldKept(j)

RolledBack(j) == pubErrs = {} => pubTarget[j] = pubBefore[j]

StagingInv ==
  /\ pubPc \in {"recover", "clean", "stage", "fill"} => pubBefore = pubTarget /\ pubHadOld = {}
  /\ pubPc = "recover" => \A j \in Slots : j < pubAt => Ready(j)
  /\ pubPc = "clean" => Ready(pubAt) \/ pubAt \in pubStuck
  /\ pubPc = "clean" => \A j \in Slots : j < pubAt => Ready(j)
  /\ pubPc = "stage" => \A j \in Slots : j <= pubAt => Ready(j)
  /\ pubPc = "fill" => \A j \in Slots : Ready(j)

CommitInv ==
  /\ pubPc \notin Over => Whole(pubNew)
  /\ pubPc \in {"backup", "swap", "restore"} => \A j \in Slots : j < pubAt => Replaced(j)
  /\ pubPc = "backup" => \A j \in Slots : j >= pubAt => Waiting(j)
  /\ pubPc = "swap" => \A j \in Slots : j > pubAt => Waiting(j)
  /\ pubPc \in {"swap", "restore"} => Between(pubAt)
  /\ pubPc = "swap" => pubStage[pubAt] = pubNew
  /\ pubPc = "remove" => \A j \in Slots : j <= pubAt => Replaced(j)
  /\ pubPc \in {"remove", "restore"} => \A j \in Slots : j > pubAt => RolledBack(j)
  /\ pubPc \in {"abort", "failed"} => \A j \in Slots : RolledBack(j)
  /\ pubPc \in {"cleanup", "committed"} => \A j \in Slots : pubTarget[j] = pubNew

PubInv == PubTypeOK /\ StagingInv /\ CommitInv /\ PubGenerationKept

\* A generation is neither the absence of one nor a part of one.
LEMMA WholeIsSomething ==
  /\ PubGenerations \subseteq Contents /\ Absent \in Contents /\ Partial \in Contents
  /\ ~Whole(Absent) /\ ~Whole(Partial) /\ Absent # Partial
  BY PubAssumption DEF Whole, Absent, Partial, Contents

\* The invariant holds at the start.
LEMMA PubInvInit == PubInit => PubInv
<1>1. 1 \in Slots
  BY PubAssumption DEF Slots
<1> QED
  BY <1>1, WholeIsSomething
  DEF PubInit, PubInv, PubTypeOK, StagingInv, CommitInv, PubGenerationKept, Over

\* Every step keeps the invariant.
LEMMA PubInvStep == PubInv /\ [PubNext]_pubVars => PubInv'
<1> SUFFICES ASSUME PubInv, [PubNext]_pubVars PROVE PubInv'
  OBVIOUS
<1> USE WholeIsSomething DEF At
<1>a. /\ 1 \in Slots /\ PubTargets \in Slots /\ pubAt \in Slots /\ Slots \subseteq Int
      /\ \A i, j \in Slots : i < j \/ i = j \/ i > j
      /\ pubAt <= pubAt /\ pubAt >= pubAt
      /\ \A j \in Slots : j < pubAt \/ j > pubAt => j # pubAt
      /\ \A j \in Slots : j >= pubAt <=> j = pubAt \/ j > pubAt
      /\ \A j \in Slots : j <= pubAt <=> j = pubAt \/ j < pubAt
      /\ pubAt < PubTargets => pubAt + 1 \in Slots
      /\ pubAt - 1 # 0 => pubAt - 1 \in Slots
      /\ \A j \in Slots : 1 <= j /\ j <= PubTargets
  BY PubAssumption DEF Slots, PubInv, PubTypeOK
<1>b. /\ \A j \in Slots : j < pubAt + 1 <=> j <= pubAt
      /\ \A j \in Slots : j >= pubAt + 1 <=> j > pubAt
      /\ \A j \in Slots : j <= pubAt - 1 <=> j < pubAt
      /\ \A j \in Slots : j > pubAt - 1 <=> j >= pubAt
  BY <1>a
<1>t. PubTypeOK /\ StagingInv /\ CommitInv /\ PubGenerationKept
  BY DEF PubInv
<1>1. CASE UNCHANGED pubVars
  BY <1>1, <1>t
  DEF pubVars, PubInv, PubTypeOK, StagingInv, CommitInv, PubGenerationKept, Ready, Waiting,
      OldKept, Replaced, Between, RolledBack
<1>2. ASSUME NEW g \in PubGenerations, Begin(g) PROVE PubInv'
  BY <1>2, <1>t, <1>a
  DEF Begin, PubInv, PubTypeOK, StagingInv, CommitInv, PubGenerationKept, Ready, Over, Whole
<1>3. CASE RecoverRestore
  <2>1. PubTypeOK'
    BY <1>3, <1>t DEF RecoverRestore, PubTypeOK
  <2>2. pubPc = "recover" /\ pubPc' = "clean" /\ pubAt' = pubAt /\ pubBefore' = pubTarget'
        /\ UNCHANGED <<pubStage, pubMoved, pubHadOld, pubNew, pubErrs, pubOwed, pubStuck>>
    BY <1>3 DEF RecoverRestore
  <2>3. /\ \A j \in Slots : j # pubAt => pubTarget'[j] = pubTarget[j] /\ pubBackup'[j] = pubBackup[j]
        /\ pubAt \in pubOwed =>
             \/ Whole(pubTarget'[pubAt])
             \/ pubAt \in pubStuck /\ Whole(pubBackup'[pubAt])
    BY <1>3, <1>t, <1>a DEF RecoverRestore, PubTypeOK, PubGenerationKept
  <2>4. PubGenerationKept'
    BY <1>t, <2>2, <2>3 DEF PubTypeOK, PubGenerationKept
  <2>5. StagingInv'
    BY <1>t, <1>a, <2>2, <2>3 DEF StagingInv, Ready
  <2>6. CommitInv'
    BY <1>t, <2>2 DEF CommitInv, Over
  <2> QED BY <2>1, <2>4, <2>5, <2>6 DEF PubInv
<1>4. CASE RecoverClean
  <2>1. PubTypeOK'
    BY <1>4, <1>t DEF RecoverClean, LoseStuck, PubTypeOK
  <2>2. /\ pubPc = "clean" /\ pubPc' = "stage" /\ pubAt' = pubAt
        /\ UNCHANGED <<pubTarget, pubMoved, pubHadOld, pubNew, pubBefore, pubErrs>>
        /\ \A j \in Slots : j # pubAt => pubBackup'[j] = pubBackup[j]
        /\ LoseStuck /\ pubStuck' = pubStuck \ {pubAt} /\ pubBackup'[pubAt] = Absent
    BY <1>4, <1>t DEF RecoverClean, PubTypeOK
  <2>3. Ready(pubAt)' /\ \A j \in Slots : Ready(j) => Ready(j)'
    BY <1>t, <1>a, <2>2 DEF StagingInv, LoseStuck, Ready
  <2>4. PubGenerationKept'
    BY <1>t, <2>2, <2>3 DEF PubTypeOK, PubGenerationKept, LoseStuck, Ready
  <2>5. StagingInv' /\ CommitInv'
    BY <1>t, <1>a, <2>2, <2>3 DEF StagingInv, CommitInv, Over
  <2> QED BY <2>1, <2>4, <2>5 DEF PubInv
<1>5. CASE RecoverCleanFails
  <2>1. PICK left \in LeftOf(pubBackup[pubAt]) \cup {Absent} :
          pubBackup' = [pubBackup EXCEPT ![pubAt] = left]
    BY <1>5 DEF RecoverCleanFails
  <2>2. /\ pubPc = "clean" /\ pubPc' = "abort" /\ pubAt' = 1
        /\ UNCHANGED <<pubTarget, pubStage, pubMoved, pubHadOld, pubNew, pubBefore, pubErrs, pubStuck>>
        /\ LoseStuck
    BY <1>5 DEF RecoverCleanFails, GiveUp
  <2>3. left \in Contents
    BY <1>t, <1>a DEF LeftOf, PubTypeOK
  <2>4. PubTypeOK'
    BY <1>t, <1>a, <2>1, <2>2, <2>3 DEF PubTypeOK, LoseStuck
  <2>5. Ready(pubAt) \/ pubAt \in pubStuck
    BY <1>t, <2>2 DEF StagingInv
  <2>6. PubGenerationKept'
    BY <1>t, <2>1, <2>2, <2>5 DEF PubTypeOK, PubGenerationKept, LoseStuck, Ready
  <2>7. StagingInv' /\ CommitInv'
    BY <1>t, <2>2 DEF StagingInv, CommitInv, RolledBack, Over
  <2> QED BY <2>4, <2>6, <2>7 DEF PubInv
<1>6. CASE CreateStage
  <2>1. /\ pubPc = "stage" /\ pubStage' = [pubStage EXCEPT ![pubAt] = Partial]
        /\ UNCHANGED <<pubTarget, pubBackup, pubMoved, pubHadOld, pubNew, pubBefore, pubErrs,
                       pubOwed, pubStuck>>
    BY <1>6 DEF CreateStage
  <2>2. CASE pubAt < PubTargets
    <3>1. pubPc' = "recover" /\ pubAt' = pubAt + 1 /\ pubAt + 1 \in Slots
      BY <1>6, <1>a, <2>2 DEF CreateStage
    <3> QED BY <1>t, <1>b, <2>1, <3>1
            DEF PubInv, PubTypeOK, StagingInv, CommitInv, PubGenerationKept, Ready, Over
  <2>3. CASE ~(pubAt < PubTargets)
    <3>1. pubPc' = "fill" /\ pubAt' = 1 /\ \A j \in Slots : j <= pubAt
      BY <1>6, <1>a, <2>3 DEF CreateStage
    <3> QED BY <1>t, <1>a, <2>1, <3>1
            DEF PubInv, PubTypeOK, StagingInv, CommitInv, PubGenerationKept, Ready, Over
  <2> QED BY <2>2, <2>3
<1>7. CASE FillStages
  BY <1>7, <1>t, <1>a
  DEF FillStages, PubInv, PubTypeOK, StagingInv, CommitInv, PubGenerationKept, Ready, Waiting,
      Over, Whole
<1>8. CASE StageFails
  BY <1>8, <1>t, <1>a
  DEF StageFails, GiveUp, PubInv, PubTypeOK, StagingInv, CommitInv, PubGenerationKept, RolledBack,
      Over
<1>9. CASE BackUp
  <2>1. /\ pubPc = "backup" /\ pubPc' = "swap" /\ pubAt' = pubAt
        /\ UNCHANGED <<pubStage, pubMoved, pubNew, pubBefore, pubErrs, pubOwed, pubStuck>>
    BY <1>9 DEF BackUp
  <2>2. PubTypeOK'
    <3>1. pubAt \in Slots
      BY <1>a
    <3> QED BY <1>9, <1>t, <3>1 DEF BackUp, PubTypeOK
  <2>3. Waiting(pubAt)
    BY <1>t, <1>a, <2>1 DEF CommitInv
  <2>4. \A j \in Slots : j # pubAt =>
          /\ pubTarget'[j] = pubTarget[j] /\ pubBackup'[j] = pubBackup[j]
          /\ j \in pubHadOld' <=> j \in pubHadOld
    BY <1>9, <1>t DEF BackUp, PubTypeOK
  <2>5. Between(pubAt)'
    <3>1. CASE pubTarget[pubAt] # Absent
      BY <1>9, <1>t, <1>a, <2>1, <2>3, <3>1 DEF BackUp, PubTypeOK, Waiting, Ready, Between, OldKept
    <3>2. CASE pubTarget[pubAt] = Absent
      BY <1>9, <1>t, <1>a, <2>1, <2>3, <3>2 DEF BackUp, PubTypeOK, Waiting, Ready, Between, OldKept
    <3> QED BY <3>1, <3>2
  <2>6. CommitInv'
    <3>1. \A j \in Slots : j < pubAt => Replaced(j)'
      BY <1>t, <1>a, <2>1, <2>4 DEF CommitInv, Replaced, OldKept
    <3>2. \A j \in Slots : j > pubAt => Waiting(j)'
      BY <1>t, <1>a, <2>1, <2>4 DEF CommitInv, Waiting, Ready
    <3>3. pubStage[pubAt] = pubNew /\ Whole(pubNew)
      BY <1>t, <2>1, <2>3 DEF CommitInv, Waiting, Over
    <3> QED BY <2>1, <2>5, <3>1, <3>2, <3>3 DEF CommitInv, Over
  <2>7. PubGenerationKept'
    BY <1>t, <2>1, <2>4, <2>5 DEF PubTypeOK, PubGenerationKept, Between, OldKept
  <2> QED BY <2>1, <2>2, <2>6, <2>7 DEF PubInv, StagingInv
<1>r. ASSUME Rollback(pubAt - 1), PubTypeOK', PubGenerationKept', pubPc # "idle",
             UNCHANGED <<pubNew, pubBefore, pubHadOld>>, Whole(pubNew),
             \A j \in Slots : j < pubAt =>
               pubTarget'[j] = pubTarget[j] /\ pubBackup'[j] = pubBackup[j] /\ Replaced(j),
             \A j \in pubOwed' : j \in pubOwed,
             \A j \in Slots : j >= pubAt => RolledBack(j)'
      PROVE  PubInv'
  <2>1. CASE pubAt - 1 = 0
    <3>1. pubPc' = "abort"
      BY <1>r, <2>1 DEF Rollback, GiveUp
    <3>2. pubAt = 1 /\ \A j \in Slots : j >= pubAt
      BY <1>a, <2>1
    <3> QED BY <1>r, <3>1, <3>2 DEF PubInv, StagingInv, CommitInv, Over
  <2>2. CASE pubAt - 1 # 0
    <3>1. pubPc' = "remove" /\ pubAt' = pubAt - 1
      BY <1>r, <2>2 DEF Rollback
    <3>2. \A j \in Slots : j <= pubAt' => Replaced(j)'
      BY <1>r, <1>b, <3>1 DEF Replaced, OldKept
    <3>3. \A j \in Slots : j > pubAt' => RolledBack(j)'
      BY <1>r, <1>b, <3>1
    <3> QED BY <1>r, <3>1, <3>2, <3>3 DEF PubInv, StagingInv, CommitInv, Over
  <2> QED BY <2>1, <2>2
<1>10. CASE BackUpFails
  <2>1. /\ pubPc = "backup" /\ Rollback(pubAt - 1)
        /\ UNCHANGED <<pubTarget, pubBackup, pubStage, pubMoved, pubHadOld, pubNew, pubBefore,
                       pubErrs, pubOwed, pubStuck>>
    BY <1>10 DEF BackUpFails
  <2>2. PubTypeOK'
    BY <1>t, <1>a, <2>1 DEF PubTypeOK, Rollback, GiveUp
  <2>3. PubGenerationKept'
    BY <1>t, <2>1 DEF PubGenerationKept
  <2>4. \A j \in Slots : j >= pubAt => RolledBack(j)'
    BY <1>t, <2>1 DEF CommitInv, Waiting, RolledBack
  <2>5. Whole(pubNew) /\ \A j \in Slots : j < pubAt => Replaced(j)
    BY <1>t, <2>1 DEF CommitInv, Over
  <2> QED BY <1>r, <2>1, <2>2, <2>3, <2>4, <2>5
<1>11. CASE Swap
  <2>1. /\ pubPc = "swap" /\ UNCHANGED <<pubBackup, pubHadOld, pubNew, pubBefore, pubErrs, pubStuck>>
        /\ pubTarget' = [pubTarget EXCEPT ![pubAt] = pubStage[pubAt]]
        /\ pubStage' = [pubStage EXCEPT ![pubAt] = Absent]
        /\ pubMoved' = pubMoved \cup {pubAt}
    BY <1>11 DEF Swap
  <2>2. /\ Whole(pubNew) /\ pubStage[pubAt] = pubNew /\ Between(pubAt)
        /\ \A j \in Slots : j < pubAt => Replaced(j)
        /\ \A j \in Slots : j > pubAt => Waiting(j)
    BY <1>t, <2>1 DEF CommitInv, Over
  <2>3. /\ pubTarget'[pubAt] = pubNew
        /\ \A j \in Slots : j # pubAt => pubTarget'[j] = pubTarget[j] /\ pubStage'[j] = pubStage[j]
    BY <1>t, <1>a, <2>1, <2>2 DEF PubTypeOK
  <2>4. CASE pubAt < PubTargets
    <3>1. pubPc' = "backup" /\ pubAt' = pubAt + 1 /\ pubAt + 1 \in Slots /\ UNCHANGED pubOwed
      BY <1>11, <1>a, <2>4 DEF Swap
    <3>2. PubTypeOK'
      BY <1>t, <1>a, <2>1, <3>1 DEF PubTypeOK
    <3>3. PubGenerationKept'
      BY <1>t, <2>1, <2>2, <2>3, <3>1 DEF PubTypeOK, PubGenerationKept
    <3>4. \A j \in Slots : j <= pubAt => Replaced(j)'
      BY <1>a, <2>1, <2>2, <2>3, <3>1 DEF Replaced, Between, OldKept
    <3>5. \A j \in Slots : j > pubAt => Waiting(j)'
      BY <1>a, <2>1, <2>2, <2>3, <3>1 DEF Waiting, Ready
    <3> QED BY <1>b, <2>1, <2>2, <3>1, <3>2, <3>3, <3>4, <3>5
            DEF PubInv, StagingInv, CommitInv, Over
  <2>5. CASE ~(pubAt < PubTargets)
    <3>1. pubPc' = "cleanup" /\ pubAt' = 1 /\ pubOwed' = Slots /\ \A j \in Slots : j <= pubAt
      BY <1>11, <1>a, <2>5 DEF Swap
    <3>2. PubTypeOK'
      BY <1>t, <1>a, <2>1, <3>1 DEF PubTypeOK
    <3>3. \A j \in Slots : pubTarget'[j] = pubNew
      BY <1>a, <2>2, <2>3, <3>1 DEF Replaced
    <3> QED BY <2>1, <2>2, <3>1, <3>2, <3>3
            DEF PubInv, StagingInv, CommitInv, PubGenerationKept, Over
  <2> QED BY <2>4, <2>5
<1>12. CASE SwapFails
  <2>1. /\ pubPc = "swap" /\ Rollback(pubAt - 1)
        /\ UNCHANGED <<pubStage, pubMoved, pubHadOld, pubNew, pubBefore, pubOwed, pubStuck>>
    BY <1>12 DEF SwapFails
  <2>2. /\ Whole(pubNew) /\ Between(pubAt)
        /\ \A j \in Slots : j < pubAt => Replaced(j)
        /\ \A j \in Slots : j > pubAt => Waiting(j)
    BY <1>t, <2>1 DEF CommitInv, Over
  <2>3. CASE /\ pubAt \in pubHadOld
             /\ pubTarget' = [pubTarget EXCEPT ![pubAt] = pubBackup[pubAt]]
             /\ pubBackup' = [pubBackup EXCEPT ![pubAt] = Absent]
             /\ UNCHANGED pubErrs
    <3>1. PubTypeOK'
      BY <1>t, <1>a, <2>1, <2>3 DEF PubTypeOK, Rollback, GiveUp
    <3>2. /\ pubTarget'[pubAt] = pubBackup[pubAt]
          /\ \A j \in Slots : j # pubAt => pubTarget'[j] = pubTarget[j] /\ pubBackup'[j] = pubBackup[j]
      BY <1>t, <1>a, <2>3 DEF PubTypeOK
    <3>3. PubGenerationKept'
      BY <1>t, <2>1, <2>2, <3>2 DEF PubTypeOK, PubGenerationKept, Between, OldKept
    <3>4. \A j \in Slots : j >= pubAt => RolledBack(j)'
      <4>1. \A j \in Slots : j > pubAt => RolledBack(j)'
        BY <1>a, <2>1, <2>2, <3>2 DEF Waiting, RolledBack
      <4>2. pubTarget'[pubAt] = pubBefore'[pubAt]
        BY <2>1, <2>2, <2>3, <3>2 DEF Between, OldKept
      <4> QED BY <1>a, <4>1, <4>2 DEF RolledBack
    <3>5. \A j \in Slots : j < pubAt => j # pubAt
      BY <1>a
    <3> QED BY <1>r, <2>1, <2>2, <3>1, <3>2, <3>3, <3>4, <3>5
  <2>4. CASE /\ UNCHANGED <<pubTarget, pubBackup>>
             /\ pubErrs' = IF pubAt \in pubHadOld THEN pubErrs \cup {"restore"} ELSE pubErrs
    <3>1. PubTypeOK'
      BY <1>t, <1>a, <2>1, <2>4 DEF PubTypeOK, Rollback, GiveUp
    <3>2. PubGenerationKept'
      BY <1>t, <2>1, <2>4 DEF PubGenerationKept
    <3>3. \A j \in Slots : j >= pubAt => RolledBack(j)'
      BY <1>a, <2>1, <2>2, <2>4 DEF Between, OldKept, Waiting, RolledBack
    <3> QED BY <1>r, <2>1, <2>2, <2>4, <3>1, <3>2, <3>3
  <2> QED BY <1>12, <2>3, <2>4 DEF SwapFails
<1>13. CASE RollbackRemove
  <2>1. /\ pubPc = "remove" /\ pubPc' = "restore" /\ pubAt' = pubAt
        /\ pubTarget' = [pubTarget EXCEPT ![pubAt] = Absent]
        /\ UNCHANGED <<pubBackup, pubStage, pubMoved, pubHadOld, pubNew, pubBefore, pubErrs, pubOwed, pubStuck>>
    BY <1>13 DEF RollbackRemove
  <2>2. /\ Whole(pubNew) /\ \A j \in Slots : j <= pubAt => Replaced(j)
        /\ \A j \in Slots : j > pubAt => RolledBack(j)
    BY <1>t, <2>1 DEF CommitInv, Over
  <2>3. /\ pubTarget'[pubAt] = Absent
        /\ \A j \in Slots : j # pubAt => pubTarget'[j] = pubTarget[j]
    BY <1>t, <1>a, <2>1 DEF PubTypeOK
  <2>4. PubTypeOK'
    BY <1>t, <2>1 DEF PubTypeOK
  <2>5. PubGenerationKept'
    BY <1>t, <1>a, <2>1, <2>2, <2>3 DEF PubTypeOK, PubGenerationKept, Replaced, OldKept
  <2>6. CommitInv'
    <3>1. \A j \in Slots : j < pubAt => Replaced(j)'
      BY <1>a, <2>1, <2>2, <2>3 DEF Replaced, OldKept
    <3>2. \A j \in Slots : j > pubAt => RolledBack(j)'
      BY <1>a, <2>1, <2>2, <2>3 DEF RolledBack
    <3>3. Between(pubAt)'
      BY <1>a, <2>1, <2>2, <2>3 DEF Replaced, Between, OldKept
    <3> QED BY <2>1, <2>2, <3>1, <3>2, <3>3 DEF CommitInv, Over
  <2> QED BY <2>1, <2>4, <2>5, <2>6 DEF PubInv, StagingInv
<1>14. CASE RollbackRemoveFails
  <2>1. /\ pubPc = "remove" /\ Rollback(pubAt - 1)
        /\ pubErrs' = pubErrs \cup {"remove"} /\ pubStuck' = pubStuck \cup {pubAt}
        /\ UNCHANGED <<pubBackup, pubStage, pubMoved, pubHadOld, pubNew, pubBefore, pubOwed>>
    BY <1>14 DEF RollbackRemoveFails
  <2>2. PICK left \in LeftOf(pubTarget[pubAt]) : pubTarget' = [pubTarget EXCEPT ![pubAt] = left]
    BY <1>14 DEF RollbackRemoveFails
  <2>3. left \in Contents
    BY <1>t, <1>a DEF LeftOf, PubTypeOK
  <2>4. PubTypeOK'
    BY <1>t, <1>a, <2>1, <2>2, <2>3 DEF PubTypeOK, Rollback, GiveUp
  <2>5. \A j \in Slots : j # pubAt => pubTarget'[j] = pubTarget[j]
    BY <1>t, <2>2 DEF PubTypeOK
  <2>6. PubGenerationKept'
    <3>1. pubAt \in pubOwed => Whole(pubBackup[pubAt])
      BY <1>t, <1>a, <2>1 DEF CommitInv, Replaced, OldKept
    <3> QED BY <1>t, <2>1, <2>5, <3>1 DEF PubTypeOK, PubGenerationKept
  <2>7. \A j \in Slots : j >= pubAt => RolledBack(j)'
    BY <2>1 DEF RolledBack
  <2>8. Whole(pubNew) /\ \A j \in Slots : j < pubAt => j # pubAt /\ Replaced(j)
    BY <1>t, <1>a, <2>1 DEF CommitInv, Over
  <2> QED BY <1>r, <2>1, <2>4, <2>5, <2>6, <2>7, <2>8
<1>s. ASSUME pubPc = "restore"
      PROVE  /\ Whole(pubNew) /\ Between(pubAt)
             /\ \A j \in Slots : j < pubAt => j # pubAt /\ Replaced(j)
             /\ \A j \in Slots : j > pubAt => RolledBack(j)
  BY <1>s, <1>t, <1>a DEF CommitInv, Over
<1>15. CASE RollbackRestore
  <2>1. /\ pubPc = "restore" /\ Rollback(pubAt - 1) /\ pubMoved' = pubMoved \ {pubAt}
        /\ UNCHANGED <<pubStage, pubHadOld, pubNew, pubBefore, pubErrs, pubOwed, pubStuck>>
    BY <1>15 DEF RollbackRestore
  <2>2. PubTypeOK'
    BY <1>15, <1>t, <1>a, <2>1 DEF RollbackRestore, PubTypeOK, Rollback, GiveUp
  <2>3. /\ \A j \in Slots : j # pubAt => pubTarget'[j] = pubTarget[j] /\ pubBackup'[j] = pubBackup[j]
        /\ pubTarget'[pubAt] = pubBefore[pubAt]
        /\ pubAt \in pubOwed => Whole(pubTarget'[pubAt])
    BY <1>15, <1>t, <1>a, <1>s, <2>1 DEF RollbackRestore, PubTypeOK, Between, OldKept
  <2>4. PubGenerationKept'
    BY <1>t, <2>1, <2>3 DEF PubTypeOK, PubGenerationKept
  <2>5. \A j \in Slots : j >= pubAt => RolledBack(j)'
    BY <1>a, <1>s, <2>1, <2>3 DEF RolledBack
  <2> QED BY <1>r, <1>s, <2>1, <2>2, <2>3, <2>4, <2>5
<1>16. CASE RollbackRestoreFails
  <2>1. /\ pubPc = "restore" /\ Rollback(pubAt - 1) /\ pubMoved' = pubMoved \ {pubAt}
        /\ pubErrs' = pubErrs \cup {"restore"}
        /\ UNCHANGED <<pubTarget, pubBackup, pubStage, pubHadOld, pubNew, pubBefore, pubOwed, pubStuck>>
    BY <1>16 DEF RollbackRestoreFails
  <2>2. PubTypeOK'
    BY <1>t, <1>a, <2>1 DEF PubTypeOK, Rollback, GiveUp
  <2>3. PubGenerationKept'
    BY <1>t, <2>1 DEF PubGenerationKept
  <2>4. \A j \in Slots : j >= pubAt => RolledBack(j)'
    BY <2>1 DEF RolledBack
  <2> QED BY <1>r, <1>s, <2>1, <2>2, <2>3, <2>4
<1>17. CASE Abort
  <2>1. PubTypeOK'
    BY <1>17, <1>t, <1>a DEF Abort, PubTypeOK, Over
  <2> QED BY <1>17, <1>t, <2>1
          DEF Abort, PubInv, StagingInv, CommitInv, PubGenerationKept, RolledBack, Over
<1>18. CASE RemoveBackup
  <2>1. /\ pubPc = "cleanup" /\ pubPc' \in {"cleanup", "committed"} /\ pubAt' \in Slots
        /\ UNCHANGED <<pubTarget, pubStage, pubMoved, pubHadOld, pubNew, pubBefore, pubErrs, pubOwed, pubStuck>>
    BY <1>18, <1>a DEF RemoveBackup
  <2>2. PubTypeOK'
    BY <1>18, <1>t, <1>a, <2>1 DEF RemoveBackup, PubTypeOK, LeftOf, Over
  <2>3. PubGenerationKept'
    BY <1>t, <2>1 DEF PubTypeOK, PubGenerationKept, CommitInv, Over
  <2>4. CommitInv' /\ StagingInv'
    BY <1>t, <2>1 DEF CommitInv, StagingInv, Over
  <2> QED BY <2>2, <2>3, <2>4 DEF PubInv
<1>19. CASE PubCrash
  BY <1>19, <1>t, <1>a
  DEF PubCrash, Forget, PubInv, PubTypeOK, StagingInv, CommitInv, PubGenerationKept, Over
<1>20. CASE CrashInRemove
  <2>1. pubAt \in pubOwed => Whole(pubBackup[pubAt])
    BY <1>20, <1>t, <1>a DEF CrashInRemove, CommitInv, Replaced, OldKept
  <2> QED BY <1>20, <1>t, <1>a, <2>1
  DEF CrashInRemove, Forget, PubInv, PubTypeOK, StagingInv, CommitInv, PubGenerationKept, Over
<1>21. CASE CrashInCleanup
  <2>1. pubAt \in pubOwed => Whole(pubTarget[pubAt]) \/ pubAt \in pubStuck
    BY <1>21, <1>t, <1>a DEF CrashInCleanup, StagingInv, CommitInv, Ready, Over
  <2> QED BY <1>21, <1>t, <1>a, <2>1
          DEF CrashInCleanup, LoseStuck, Forget, PubInv, PubTypeOK, StagingInv, CommitInv, PubGenerationKept,
              Over
<1> QED
  BY <1>1, <1>2, <1>3, <1>4, <1>5, <1>6, <1>7, <1>8, <1>9, <1>10, <1>11, <1>12, <1>13, <1>14,
     <1>15, <1>16, <1>17, <1>18, <1>19, <1>20, <1>21
  DEF PubNext, PubStep, PubDies

\* The inductive invariant holds throughout.
THEOREM PubInvariant == PubSpec => []PubInv
<1> QED BY PubInvInit, PubInvStep, PTL DEF PubSpec

\* A target once published has a whole generation on disk, at the target or in
\* the backup, through every failed file operation and every crash, until a
\* Recover that follows a rollback whose RemoveAll stopped halfway (LoseStuck).
THEOREM GenerationsAreKept == PubSpec => []PubGenerationKept
<1>1. PubInv => PubGenerationKept
  BY DEF PubInv
<1> QED BY <1>1, PubInvariant, PTL

\* A Commit replaces all its targets or, if its rollback succeeds, none.
THEOREM CommitIsAllOrNothing == PubSpec => []PubAllOrNothing
<1>1. PubInv => PubAllOrNothing
  BY DEF PubInv, PubTypeOK, CommitInv, RolledBack, PubAllOrNothing
<1> QED BY <1>1, PubInvariant, PTL

-----------------------------------------------------------------------------
(***************************************************************************)
(* DevLoop: the loop over the transactions of one target.                  *)
(***************************************************************************)

\* With one target nothing is rolled back but the target itself; what is
\* staged is the new generation, and Recover leaves no backup of a target
\* that is absent.
OneTarget ==
  /\ outPc \notin {"remove", "restore"}
  /\ outPc \notin Out!Over => outNew \in DevGenerations
  /\ outPc \in {"backup", "swap"} => outStage[1] = outNew
  /\ outPc = "swap" => outTarget[1] = Out!Absent
  /\ outPc = "clean" => outTarget[1] # Out!Absent \/ outBackup[1] = Out!Absent
  /\ outPc \in {"cleanup", "committed"} => outTarget[1] = outNew

\* What a build has put in place: the output of the inputs it has read, which
\* the cached snapshot does not describe yet.
Built == outTarget[1] = devRead /\ devRead # 0 /\ devCache = 0

BuiltWhere ==
  /\ devPc = "publish" => devRead = outNew
  /\ devPc = "publish" /\ outPc \in {"cleanup", "committed"} => Built
  /\ devPc \in {"refresh", "cache"} => Built
  /\ devPc = "serve" /\ ~devBoot => Built

\* The snapshot in the output directory, or in the backup of one that is
\* absent, is of the inputs of that output.
CacheTells ==
  ~devRaced =>
    /\ devCache # 0 => outTarget[1] = devCache
    /\ outTarget[1] = Out!Absent /\ outBackup[1] # Out!Absent /\ devSaved # 0
         => outBackup[1] = devSaved

\* The snapshot the loop goes by is of the output it serves, or of inputs that
\* do not build.
PreviousTells ==
  ~devRaced =>
    /\ devPc = "cache" => devPrevious = devRead
    /\ devPc = "serve" /\ devBoot => outTarget[1] = devPrevious
    /\ devPc = "sleep" => outTarget[1] = devPrevious \/ devFailed = devPrevious

DevInv == DevTypeOK /\ OneTarget /\ BuiltWhere /\ CacheTells /\ PreviousTells

\* The slots, the contents of a path and the counters.
LEMMA DevFacts ==
  ASSUME DevTypeOK
  PROVE  /\ Out!Slots = {1} /\ outAt = 1
         /\ Out!Absent = 0 /\ Out!Partial = -1
         /\ outTarget[1] \in Out!Contents /\ outBackup[1] \in Out!Contents
         /\ outTarget \in [{1} -> Out!Contents] /\ outBackup \in [{1} -> Out!Contents]
         /\ outStage \in [{1} -> Out!Contents] /\ outNew \in Out!Contents
         /\ Out!Absent \in Out!Contents /\ Out!Partial \in Out!Contents
         /\ DevGenerations \subseteq Out!Contents
         /\ \A g \in DevTexts : g # 0 /\ g # -1
         /\ DevGenerations \subseteq DevTexts
<1>1. Out!Slots = {1}
  BY DEF Out!Slots
<1>2. Out!PubTypeOK
  BY DEF DevTypeOK
<1> QED BY <1>1, <1>2, DevAssumption DEF Out!PubTypeOK, Out!Absent, Out!Partial, Out!Contents

\* What one step of the transaction does to the target and its backup: it
\* leaves the target, and a backup that may be needed; moves it away; puts it
\* back; or replaces it.
StaysPut ==
  /\ outTarget'[1] = outTarget[1]
  /\ \/ outBackup'[1] = outBackup[1] \/ outBackup'[1] = Out!Absent \/ outTarget[1] # Out!Absent
MovesAway ==
  /\ outPc = "backup" /\ outPc' = "swap"
  /\ outTarget[1] # Out!Absent /\ outTarget'[1] = Out!Absent /\ outBackup'[1] = outTarget[1]
PutsBack ==
  /\ outPc # "backup"
  /\ outTarget[1] = Out!Absent /\ outBackup[1] # Out!Absent
  /\ outTarget'[1] = outBackup[1] /\ outBackup'[1] = Out!Absent
Replaces ==
  /\ outPc = "swap" /\ outPc' = "cleanup"
  /\ outTarget[1] = Out!Absent /\ outTarget'[1] = outNew
  /\ outBackup'[1] = outBackup[1]

\* Every step of the transaction does one of these.
LEMMA TransactionMoves ==
  ASSUME DevTypeOK, OneTarget, Out!PubStep
  PROVE  /\ Out!PubTypeOK' /\ OneTarget'
         /\ outNew' = outNew
         /\ StaysPut \/ MovesAway \/ PutsBack \/ Replaces
         /\ outPc = "backup" /\ outPc' = "swap" /\ ~MovesAway => outTarget[1] = Out!Absent /\ StaysPut
         /\ outPc' \in {"cleanup", "committed"} => Replaces \/ (StaysPut /\ outPc = "cleanup")
<1>a. /\ Out!Slots = {1} /\ outAt = 1
      /\ Out!Absent = 0 /\ Out!Partial = -1
      /\ outTarget[1] \in Out!Contents /\ outBackup[1] \in Out!Contents
      /\ outTarget \in [{1} -> Out!Contents] /\ outBackup \in [{1} -> Out!Contents]
      /\ outStage \in [{1} -> Out!Contents] /\ outNew \in Out!Contents
      /\ Out!Absent \in Out!Contents /\ Out!Partial \in Out!Contents
      /\ DevGenerations \subseteq Out!Contents
      /\ \A g \in DevGenerations : g # 0
  BY DevFacts
<1>t. Out!PubTypeOK
  BY DEF DevTypeOK
<1> USE DEF Out!At, Out!GiveUp, StaysPut, MovesAway, PutsBack, Replaces
<1>1. CASE Out!RecoverRestore
  <2>1. /\ outPc = "recover" /\ outPc' = "clean" /\ outAt' = outAt
        /\ UNCHANGED <<outStage, outMoved, outHadOld, outNew, outErrs, outOwed, outStuck>>
        /\ outBefore' = outTarget'
    BY <1>1 DEF Out!RecoverRestore
  <2>2. CASE outTarget[1] = Out!Absent /\ outBackup[1] # Out!Absent
    <3>1. /\ outTarget' = [outTarget EXCEPT ![1] = outBackup[1]]
          /\ outBackup' = [outBackup EXCEPT ![1] = Out!Absent]
      BY <1>1, <1>a, <2>2 DEF Out!RecoverRestore
    <3>2. /\ outTarget'[1] = outBackup[1] /\ outBackup'[1] = Out!Absent
          /\ outTarget' \in [{1} -> Out!Contents] /\ outBackup' \in [{1} -> Out!Contents]
      BY <3>1, <1>a
    <3>3. Out!PubTypeOK'
      BY <3>2, <2>1, <1>t, <1>a DEF Out!PubTypeOK
    <3> QED BY <3>2, <3>3, <2>1, <2>2 DEF OneTarget, Out!Over
  <2>3. CASE ~(outTarget[1] = Out!Absent /\ outBackup[1] # Out!Absent)
    <3>1. outTarget' = outTarget /\ outBackup' = outBackup
      BY <1>1, <1>a, <2>3 DEF Out!RecoverRestore
    <3>2. Out!PubTypeOK'
      BY <3>1, <2>1, <1>t DEF Out!PubTypeOK
    <3> QED BY <3>1, <3>2, <2>1, <2>3 DEF OneTarget, Out!Over
  <2> QED BY <2>2, <2>3
<1>2. CASE Out!RecoverClean
  <2>1. /\ outPc = "clean" /\ outPc' = "stage" /\ outAt' = outAt
        /\ outBackup' = [outBackup EXCEPT ![1] = Out!Absent]
        /\ outStage' = [outStage EXCEPT ![1] = Out!Absent]
        /\ UNCHANGED <<outTarget, outMoved, outHadOld, outNew, outBefore, outErrs>>
        /\ outOwed' \subseteq outOwed /\ outStuck' \subseteq outStuck
    BY <1>2, <1>a DEF Out!RecoverClean, Out!LoseStuck
  <2>2. /\ outBackup'[1] = Out!Absent
        /\ outBackup' \in [{1} -> Out!Contents] /\ outStage' \in [{1} -> Out!Contents]
    BY <2>1, <1>a
  <2>3. Out!PubTypeOK'
    BY <2>1, <2>2, <1>t, <1>a DEF Out!PubTypeOK
  <2> QED BY <2>1, <2>2, <2>3 DEF OneTarget, Out!Over
<1>3. CASE Out!RecoverCleanFails
  <2>1. PICK left \in Out!LeftOf(outBackup[1]) \cup {Out!Absent} :
          outBackup' = [outBackup EXCEPT ![1] = left]
    BY <1>3, <1>a DEF Out!RecoverCleanFails
  <2>2. /\ outPc = "clean" /\ outPc' = "abort" /\ outAt' = 1
        /\ UNCHANGED <<outTarget, outStage, outMoved, outHadOld, outNew, outBefore, outErrs, outStuck>>
        /\ outOwed' \subseteq outOwed
    BY <1>3 DEF Out!RecoverCleanFails, Out!LoseStuck
  <2>3. left \in Out!Contents /\ (outBackup[1] = Out!Absent => left = Out!Absent)
    BY <1>a DEF Out!LeftOf
  <2>4. outBackup'[1] = left /\ outBackup' \in [{1} -> Out!Contents]
    BY <2>1, <2>3, <1>a
  <2>5. Out!PubTypeOK'
    BY <2>2, <2>4, <1>t, <1>a DEF Out!PubTypeOK
  <2> QED BY <2>2, <2>3, <2>4, <2>5 DEF OneTarget, Out!Over
<1>4. CASE Out!CreateStage
  <2>1. /\ outPc = "stage" /\ outPc' = "fill" /\ outAt' = 1
        /\ outStage' = [outStage EXCEPT ![1] = Out!Partial]
        /\ UNCHANGED <<outTarget, outBackup, outMoved, outHadOld, outNew, outBefore, outErrs, outOwed, outStuck>>
    BY <1>4, <1>a DEF Out!CreateStage
  <2>2. outStage' \in [{1} -> Out!Contents]
    BY <2>1, <1>a
  <2>3. Out!PubTypeOK'
    BY <2>1, <2>2, <1>t, <1>a DEF Out!PubTypeOK
  <2> QED BY <2>1, <2>3 DEF OneTarget, Out!Over
<1>5. CASE Out!FillStages
  <2>1. /\ outPc = "fill" /\ outPc' = "backup" /\ outAt' = 1
        /\ outStage' = [i \in {1} |-> outNew]
        /\ UNCHANGED <<outTarget, outBackup, outMoved, outHadOld, outNew, outBefore, outErrs, outOwed, outStuck>>
    BY <1>5, <1>a DEF Out!FillStages
  <2>2. outStage' \in [{1} -> Out!Contents] /\ outStage'[1] = outNew
    BY <2>1, <1>a
  <2>3. Out!PubTypeOK'
    BY <2>1, <2>2, <1>t, <1>a DEF Out!PubTypeOK
  <2> QED BY <2>1, <2>2, <2>3 DEF OneTarget, Out!Over
<1>6. CASE Out!StageFails \/ Out!BackUpFails
  <2>1. /\ outPc \in {"recover", "stage", "fill", "backup"} /\ outPc' = "abort" /\ outAt' = 1
        /\ UNCHANGED <<outTarget, outBackup, outStage, outMoved, outHadOld, outNew, outBefore,
                       outErrs, outOwed, outStuck>>
    BY <1>6, <1>a DEF Out!StageFails, Out!BackUpFails, Out!Rollback
  <2>2. Out!PubTypeOK'
    BY <2>1, <1>t, <1>a DEF Out!PubTypeOK
  <2> QED BY <2>1, <2>2 DEF OneTarget, Out!Over
<1>7. CASE Out!BackUp
  <2>1. /\ outPc = "backup" /\ outPc' = "swap" /\ outAt' = outAt
        /\ UNCHANGED <<outStage, outMoved, outNew, outBefore, outErrs, outOwed, outStuck>>
    BY <1>7 DEF Out!BackUp
  <2>2. CASE outTarget[1] # Out!Absent
    <3>1. /\ outBackup' = [outBackup EXCEPT ![1] = outTarget[1]]
          /\ outTarget' = [outTarget EXCEPT ![1] = Out!Absent]
          /\ outHadOld' = outHadOld \cup {1}
      BY <1>7, <1>a, <2>2 DEF Out!BackUp
    <3>2. /\ outBackup'[1] = outTarget[1] /\ outTarget'[1] = Out!Absent
          /\ outTarget' \in [{1} -> Out!Contents] /\ outBackup' \in [{1} -> Out!Contents]
      BY <3>1, <1>a
    <3>3. Out!PubTypeOK'
      BY <3>1, <3>2, <2>1, <1>t, <1>a DEF Out!PubTypeOK
    <3> QED BY <3>2, <3>3, <2>1, <2>2 DEF OneTarget, Out!Over
  <2>3. CASE outTarget[1] = Out!Absent
    <3>1. outTarget' = outTarget /\ outBackup' = outBackup /\ outHadOld' = outHadOld
      BY <1>7, <1>a, <2>3 DEF Out!BackUp
    <3>2. Out!PubTypeOK'
      BY <3>1, <2>1, <1>t DEF Out!PubTypeOK
    <3> QED BY <3>1, <3>2, <2>1, <2>3 DEF OneTarget, Out!Over
  <2> QED BY <2>2, <2>3
<1>8. CASE Out!Swap
  <2>1. /\ outPc = "swap" /\ outPc' = "cleanup" /\ outAt' = 1 /\ outOwed' = {1}
        /\ outTarget' = [outTarget EXCEPT ![1] = outStage[1]]
        /\ outStage' = [outStage EXCEPT ![1] = Out!Absent]
        /\ outMoved' = outMoved \cup {1}
        /\ UNCHANGED <<outBackup, outHadOld, outNew, outBefore, outErrs, outStuck>>
    BY <1>8, <1>a DEF Out!Swap
  <2>2. outStage[1] = outNew /\ outTarget[1] = Out!Absent /\ outNew \in DevGenerations
    BY <2>1 DEF OneTarget, Out!Over
  <2>3. /\ outTarget'[1] = outNew
        /\ outTarget' \in [{1} -> Out!Contents] /\ outStage' \in [{1} -> Out!Contents]
    BY <2>1, <2>2, <1>a
  <2>4. Out!PubTypeOK'
    BY <2>1, <2>3, <1>t, <1>a DEF Out!PubTypeOK
  <2> QED BY <2>1, <2>2, <2>3, <2>4 DEF OneTarget, Out!Over
<1>9. CASE Out!SwapFails
  <2>1. /\ outPc = "swap" /\ outPc' = "abort" /\ outAt' = 1
        /\ UNCHANGED <<outStage, outMoved, outHadOld, outNew, outBefore, outOwed, outStuck>>
        /\ outErrs' \in {outErrs, outErrs \cup {"restore"}}
    BY <1>9, <1>a DEF Out!SwapFails, Out!Rollback
  <2>2. outTarget[1] = Out!Absent
    BY <2>1 DEF OneTarget
  <2>3. CASE /\ outTarget' = [outTarget EXCEPT ![1] = outBackup[1]]
             /\ outBackup' = [outBackup EXCEPT ![1] = Out!Absent]
    <3>1. /\ outTarget'[1] = outBackup[1] /\ outBackup'[1] = Out!Absent
          /\ outTarget' \in [{1} -> Out!Contents] /\ outBackup' \in [{1} -> Out!Contents]
      BY <2>3, <1>a
    <3>2. Out!PubTypeOK'
      BY <3>1, <2>1, <1>t, <1>a DEF Out!PubTypeOK
    <3> QED BY <3>1, <3>2, <2>1, <2>2 DEF OneTarget, Out!Over
  <2>4. CASE outTarget' = outTarget /\ outBackup' = outBackup
    <3>1. Out!PubTypeOK'
      BY <2>4, <2>1, <1>t, <1>a DEF Out!PubTypeOK
    <3> QED BY <3>1, <2>4, <2>1 DEF OneTarget, Out!Over
  <2> QED BY <1>9, <1>a, <2>3, <2>4 DEF Out!SwapFails
<1>10. CASE \/ Out!RollbackRemove \/ Out!RollbackRemoveFails
            \/ Out!RollbackRestore \/ Out!RollbackRestoreFails
  BY <1>10 DEF OneTarget, Out!RollbackRemove, Out!RollbackRemoveFails, Out!RollbackRestore,
               Out!RollbackRestoreFails
<1>11. CASE Out!Abort
  <2>1. /\ outPc = "abort" /\ outPc' = "failed" /\ outAt' = 1
        /\ UNCHANGED <<outTarget, outBackup, outMoved, outHadOld, outNew, outBefore, outErrs, outOwed, outStuck>>
    BY <1>11 DEF Out!Abort
  <2>2. outStage' \in [{1} -> Out!Contents]
    BY <1>11, <1>a DEF Out!Abort
  <2>3. Out!PubTypeOK'
    BY <2>1, <2>2, <1>t, <1>a DEF Out!PubTypeOK, Out!Over
  <2> QED BY <2>1, <2>3 DEF OneTarget, Out!Over
<1>12. CASE Out!RemoveBackup
  <2>1. PICK left \in Out!LeftOf(outBackup[1]) \cup {Out!Absent} :
          outBackup' = [outBackup EXCEPT ![1] = left]
    BY <1>12, <1>a DEF Out!RemoveBackup
  <2>2. /\ outPc = "cleanup" /\ outPc' = "committed" /\ outAt' = 1
        /\ UNCHANGED <<outTarget, outStage, outMoved, outHadOld, outNew, outBefore, outErrs, outOwed, outStuck>>
    BY <1>12, <1>a DEF Out!RemoveBackup
  <2>3. left \in Out!Contents
    BY <1>a DEF Out!LeftOf
  <2>4. outBackup' \in [{1} -> Out!Contents]
    BY <2>1, <2>3, <1>a
  <2>5. Out!PubTypeOK'
    BY <2>2, <2>4, <1>t, <1>a DEF Out!PubTypeOK, Out!Over
  <2>6. outTarget[1] = outNew /\ outTarget[1] # Out!Absent
    BY <2>2, <1>a DEF OneTarget, Out!Over
  <2> QED BY <2>2, <2>5, <2>6 DEF OneTarget, Out!Over
<1> QED BY <1>1, <1>2, <1>3, <1>4, <1>5, <1>6, <1>7, <1>8, <1>9, <1>10, <1>11, <1>12
        DEF Out!PubStep

\* inputs.json goes where the output goes.
LEMMA PublishKeeps == ASSUME DevInv, DevPublish PROVE DevInv'
<1>t. DevTypeOK /\ OneTarget /\ BuiltWhere /\ CacheTells
  BY DEF DevInv
<1>a. /\ Out!Absent = 0 /\ outAt = 1 /\ outNew \in Out!Contents
      /\ \A g \in DevTexts : g # 0
      /\ DevGenerations \subseteq DevTexts
      /\ {devCache, devSaved} \subseteq DevTexts \cup {0}
  BY <1>t, DevFacts DEF DevTypeOK
<1>f. /\ devPc = "publish" /\ devPc' = "publish" /\ Out!PubStep
      /\ UNCHANGED <<devWorld, devBoot, devPrevious, devRead, devFailed, devRaced>>
  BY DEF DevPublish
<1>c. /\ outTarget'[1] = outTarget[1] => devCache' = devCache
      /\ /\ outTarget'[1] # outTarget[1] /\ outBackup[1] # Out!Absent /\ outBackup'[1] = Out!Absent
         => devCache' = devSaved
      /\ /\ outTarget'[1] # outTarget[1]
         /\ ~(outBackup[1] # Out!Absent /\ outBackup'[1] = Out!Absent)
         => devCache' = 0
      /\ devSaved' = IF outPc = "backup" /\ outPc' = "swap" THEN devCache ELSE devSaved
  BY <1>a DEF DevPublish, CacheMoves
<1>m. /\ Out!PubTypeOK' /\ OneTarget'
      /\ outNew' = outNew
      /\ StaysPut \/ MovesAway \/ PutsBack \/ Replaces
      /\ outPc = "backup" /\ outPc' = "swap" /\ ~MovesAway => outTarget[1] = Out!Absent /\ StaysPut
      /\ outPc' \in {"cleanup", "committed"} => Replaces \/ (StaysPut /\ outPc = "cleanup")
  BY <1>t, <1>f, TransactionMoves
<1>1. DevTypeOK'
  <2>1. {devCache', devSaved'} \subseteq DevTexts \cup {0}
    BY <1>a, <1>c
  <2> QED BY <2>1, <1>f, <1>m, <1>t DEF DevTypeOK, devWorld
<1>2. BuiltWhere'
  <2>1. ASSUME outPc' \in {"cleanup", "committed"} PROVE Built'
    <3>1. CASE Replaces
      <4>1. outNew \in DevGenerations /\ devRead = outNew
        BY <3>1, <1>f, <1>t DEF Replaces, OneTarget, BuiltWhere, Out!Over
      <4>2. devCache' = 0
        BY <3>1, <4>1, <1>a, <1>c DEF Replaces
      <4> QED BY <3>1, <4>1, <4>2, <1>a, <1>f DEF Replaces, Built
    <3>2. CASE StaysPut /\ outPc = "cleanup"
      BY <3>2, <1>f, <1>a, <1>c, <1>t DEF StaysPut, BuiltWhere, Built
    <3> QED BY <2>1, <3>1, <3>2, <1>m
  <2>2. devRead' = outNew'
    BY <1>f, <1>m, <1>t DEF BuiltWhere
  <2> QED BY <2>1, <2>2, <1>f DEF BuiltWhere
<1>3. CacheTells'
  <2> SUFFICES ASSUME ~devRaced
               PROVE  /\ devCache' # 0 => outTarget'[1] = devCache'
                      /\ outTarget'[1] = Out!Absent /\ outBackup'[1] # Out!Absent /\ devSaved' # 0
                           => outBackup'[1] = devSaved'
    BY <1>f DEF CacheTells, Out!Absent
  <2>1. /\ devCache # 0 => outTarget[1] = devCache
        /\ outTarget[1] = Out!Absent /\ outBackup[1] # Out!Absent /\ devSaved # 0
             => outBackup[1] = devSaved
    BY <1>t DEF CacheTells
  <2>2. CASE MovesAway
    BY <2>1, <2>2, <1>a, <1>c DEF MovesAway
  <2>3. CASE PutsBack
    BY <2>1, <2>3, <1>a, <1>c DEF PutsBack
  <2>4. CASE Replaces
    <3>1. outNew \in DevGenerations
      BY <2>4, <1>t DEF Replaces, OneTarget, Out!Over
    <3> QED BY <3>1, <2>1, <2>4, <1>a, <1>c DEF Replaces
  <2>5. CASE StaysPut /\ ~MovesAway
    <3>1. CASE outPc = "backup" /\ outPc' = "swap"
      BY <3>1, <2>1, <2>5, <1>a, <1>c, <1>m DEF StaysPut
    <3>2. CASE ~(outPc = "backup" /\ outPc' = "swap")
      BY <3>2, <2>1, <2>5, <1>a, <1>c DEF StaysPut
    <3> QED BY <3>1, <3>2
  <2> QED BY <2>2, <2>3, <2>4, <2>5, <1>m
<1>4. PreviousTells'
  BY <1>f DEF PreviousTells
<1> QED BY <1>1, <1>2, <1>3, <1>4, <1>m DEF DevInv

\* A step of the loop that leaves the output directory alone.
LEMMA LoopKeeps ==
  ASSUME DevInv,
         DevEdit \/ DevTick \/ DevBuildRejects \/ DevPublished \/ DevServe \/ DevServeFails
           \/ DevRefresh \/ DevWriteCache
  PROVE  DevInv'
<1>t. DevTypeOK /\ OneTarget /\ BuiltWhere /\ CacheTells /\ PreviousTells
  BY DEF DevInv
<1>a. /\ Out!Absent = 0 /\ \A g \in DevTexts : g # 0
      /\ devInput \in DevTexts /\ devBoot \in BOOLEAN /\ devRaced \in BOOLEAN
      /\ {devPrevious, devRead, devCache, devSaved, devFailed} \subseteq DevTexts \cup {0}
  BY <1>t, DevFacts DEF DevTypeOK
<1>o. outVars' = outVars
  BY DEF DevEdit, DevTick, DevBuildRejects, DevPublished, DevServe, DevServeFails, DevRefresh,
         DevWriteCache
<1>p. /\ outTarget' = outTarget /\ outBackup' = outBackup /\ outPc' = outPc /\ outNew' = outNew
      /\ Out!PubTypeOK' /\ OneTarget'
  BY <1>o, <1>t DEF outVars, DevTypeOK, OneTarget, Out!PubTypeOK, Out!Over, Out!Absent
<1>1. CASE DevEdit
  <2>1. DevTypeOK'
    BY <1>1, <1>p, <1>t, DevAssumption DEF DevEdit, DevTypeOK, devLoopVars, devHistory
  <2> QED BY <1>1, <2>1, <1>p, <1>t
          DEF DevEdit, devLoopVars, devHistory, DevInv, BuiltWhere, Built, CacheTells, PreviousTells,
              Out!Absent
<1>2. CASE DevTick
  <2>1. DevTypeOK'
    BY <1>2, <1>p, <1>t DEF DevTick, DevTypeOK, devWorld, devHistory
  <2> QED BY <1>2, <2>1, <1>p, <1>t
          DEF DevTick, devWorld, devHistory, DevInv, BuiltWhere, Built, CacheTells, PreviousTells,
              Out!Absent
<1>3. CASE DevBuildRejects
  <2>1. DevTypeOK'
    BY <1>3, <1>p, <1>t, <1>a DEF DevBuildRejects, DevBuildFailed, DevTypeOK, devWorld
  <2> QED BY <1>3, <2>1, <1>p, <1>t
          DEF DevBuildRejects, DevBuildFailed, devWorld, DevInv, BuiltWhere, Built, CacheTells,
              PreviousTells, Out!Absent
<1>4. CASE DevPublished
  <2>1. DevTypeOK'
    BY <1>4, <1>p, <1>t, <1>a DEF DevPublished, DevBuildFailed, DevTypeOK, devWorld
  <2> QED BY <1>4, <2>1, <1>p, <1>t
          DEF DevPublished, DevBuildFailed, devWorld, DevInv, BuiltWhere, Built, CacheTells,
              PreviousTells, Out!Absent
<1>5. CASE DevServe
  <2>1. DevTypeOK'
    BY <1>5, <1>p, <1>t DEF DevServe, DevTypeOK, devWorld, devHistory
  <2> QED BY <1>5, <2>1, <1>p, <1>t
          DEF DevServe, devWorld, devHistory, DevInv, BuiltWhere, Built, CacheTells, PreviousTells,
              Out!Absent
<1>6. CASE DevServeFails
  <2>1. DevTypeOK'
    BY <1>6, <1>p, <1>t, <1>a DEF DevServeFails, DevTypeOK, devWorld
  <2> QED BY <1>6, <2>1, <1>p, <1>t, <1>a
          DEF DevServeFails, devWorld, DevInv, BuiltWhere, Built, CacheTells, PreviousTells,
              Out!Absent
<1>7. CASE DevRefresh
  <2>1. DevTypeOK'
    BY <1>7, <1>p, <1>t, <1>a DEF DevRefresh, DevTypeOK, devWorld
  <2> QED BY <1>7, <2>1, <1>p, <1>t, <1>a
          DEF DevRefresh, devWorld, DevInv, BuiltWhere, Built, CacheTells, PreviousTells,
              Out!Absent
<1>8. CASE DevWriteCache
  <2>1. DevTypeOK'
    BY <1>8, <1>p, <1>t, <1>a DEF DevWriteCache, DevTypeOK, devWorld, devHistory
  <2> QED BY <1>8, <2>1, <1>p, <1>t, <1>a
          DEF DevWriteCache, devWorld, devHistory, DevInv, BuiltWhere, Built, CacheTells,
              PreviousTells, Out!Absent
<1> QED BY <1>1, <1>2, <1>3, <1>4, <1>5, <1>6, <1>7, <1>8

\* A build begins to publish.
LEMMA BuildKeeps == ASSUME DevInv, DevBuild PROVE DevInv'
<1>t. DevTypeOK /\ OneTarget /\ BuiltWhere /\ CacheTells /\ PreviousTells
  BY DEF DevInv
<1>a. /\ Out!Slots = {1} /\ DevGenerations \subseteq Out!Contents
      /\ devInput \in DevGenerations /\ devInput \in DevTexts
  BY <1>t, DevFacts DEF DevTypeOK, DevBuild
<1>f. /\ outPc' = "recover" /\ outAt' = 1 /\ outNew' = devInput
      /\ outMoved' = {} /\ outHadOld' = {} /\ outErrs' = {} /\ outBefore' = outTarget
      /\ UNCHANGED <<outTarget, outBackup, outStage, outOwed, outStuck>>
      /\ devRead' = devInput /\ devPc' = "publish"
      /\ UNCHANGED <<devWorld, devBoot, devPrevious, devCache, devSaved, devHistory>>
  BY DEF DevBuild, Out!Begin, Out!At
<1>1. Out!PubTypeOK'
  BY <1>t, <1>a, <1>f DEF DevTypeOK, Out!PubTypeOK
<1>2. DevTypeOK'
  BY <1>t, <1>a, <1>f, <1>1 DEF DevTypeOK, devWorld, devHistory
<1>3. OneTarget'
  BY <1>a, <1>f DEF OneTarget
<1> QED BY <1>t, <1>f, <1>2, <1>3
        DEF DevInv, BuiltWhere, CacheTells, PreviousTells, devHistory, Out!Absent

\* gowdk dev ends, possibly within a RemoveAll of a backup.
LEMMA KillKeeps == ASSUME DevInv, DevKilled PROVE DevInv'
<1>t. DevTypeOK /\ OneTarget /\ BuiltWhere /\ CacheTells /\ PreviousTells
  BY DEF DevInv
<1>a. /\ Out!Slots = {1} /\ outAt = 1 /\ Out!Absent \in Out!Contents /\ Out!Partial \in Out!Contents
      /\ Out!Absent = 0 /\ \A g \in DevTexts : g # 0
      /\ DevGenerations \subseteq DevTexts
      /\ outBackup \in [{1} -> Out!Contents]
  BY <1>t, DevFacts
<1>f. /\ devPc' = "off"
      /\ UNCHANGED <<devWorld, devBoot, devPrevious, devRead, devCache, devSaved, devHistory>>
  BY DEF DevKilled
<1>1. /\ Out!PubTypeOK' /\ OneTarget'
      /\ outTarget' = outTarget
      /\ outBackup' = outBackup \/ outTarget[1] # Out!Absent
  <2>1. CASE outVars' = outVars
    BY <2>1, <1>t DEF outVars, DevTypeOK, OneTarget, Out!PubTypeOK, Out!Over, Out!Absent
  <2>2. CASE Out!PubCrash
    <3>1. /\ outPc' = "idle" /\ outAt' = 1 /\ outMoved' = {} /\ outHadOld' = {} /\ outErrs' = {}
          /\ outNew' = Out!Absent /\ outBefore' = [i \in {1} |-> Out!Absent]
          /\ UNCHANGED <<outTarget, outBackup, outStage, outOwed, outStuck>>
      BY <2>2, <1>a DEF Out!PubCrash, Out!At, Out!Forget
    <3>2. Out!PubTypeOK'
      BY <3>1, <1>t, <1>a DEF DevTypeOK, Out!PubTypeOK, Out!Over
    <3> QED BY <3>1, <3>2 DEF OneTarget, Out!Over
  <2>3. CASE Out!CrashInRemove
    BY <2>3, <1>t DEF Out!CrashInRemove, OneTarget
  <2>4. CASE Out!CrashInCleanup
    <3>1. /\ outPc' = "idle" /\ outAt' = 1 /\ outMoved' = {} /\ outHadOld' = {} /\ outErrs' = {}
          /\ outNew' = Out!Absent /\ outBefore' = [i \in {1} |-> Out!Absent]
          /\ outBackup' = [outBackup EXCEPT ![1] = Out!Partial]
          /\ UNCHANGED <<outTarget, outStage, outStuck>> /\ outOwed' \subseteq outOwed
      BY <2>4, <1>a DEF Out!CrashInCleanup, Out!LoseStuck, Out!At, Out!Forget
    <3>2. outBackup' \in [{1} -> Out!Contents]
      BY <3>1, <1>a
    <3>3. Out!PubTypeOK'
      BY <3>1, <3>2, <1>t, <1>a DEF DevTypeOK, Out!PubTypeOK, Out!Over
    <3>4. outTarget[1] # Out!Absent
      BY <2>4, <1>t, <1>a DEF Out!CrashInCleanup, OneTarget, Out!Over
    <3> QED BY <3>1, <3>3, <3>4 DEF OneTarget, Out!Over
  <2> QED BY <2>1, <2>2, <2>3, <2>4 DEF DevKilled, Out!PubDies
<1>2. DevTypeOK'
  BY <1>t, <1>f, <1>1 DEF DevTypeOK, devWorld, devHistory
<1> QED BY <1>t, <1>f, <1>1, <1>2
        DEF DevInv, BuiltWhere, CacheTells, PreviousTells, devHistory, Out!Absent

\* gowdk dev starts: it may skip its build only if the cached snapshot tells
\* what the output is.
LEMMA StartKeeps == ASSUME DevInv, DevStart PROVE DevInv'
<1>t. DevTypeOK /\ OneTarget /\ BuiltWhere /\ CacheTells /\ PreviousTells
  BY DEF DevInv
<1>a. /\ Out!Slots = {1} /\ Out!Absent \in Out!Contents /\ Out!Partial \in Out!Contents
      /\ Out!Absent = 0 /\ Out!Partial = -1 /\ \A g \in DevTexts : g # 0
      /\ outTarget \in [{1} -> Out!Contents] /\ devInput \in DevTexts
      /\ devCache \in DevTexts \cup {0}
  BY <1>t, DevFacts DEF DevTypeOK
<1>f. /\ devStarts < MaxDevStarts /\ devStarts' = devStarts + 1 /\ devBoot' = TRUE /\ devFailed' = 0
      /\ outTarget' = [outTarget EXCEPT ![1] = IF @ = Out!Absent THEN Out!Partial ELSE @]
      /\ devPrevious' \in {devInput, 0}
      /\ devPc' = IF MustBuild(devPrevious') THEN "read" ELSE "serve"
      /\ outPc' = "idle" /\ outAt' = 1 /\ outMoved' = {} /\ outHadOld' = {} /\ outErrs' = {}
      /\ outNew' = Out!Absent /\ outBefore' = [i \in {1} |-> Out!Absent]
      /\ UNCHANGED <<outBackup, outStage, outOwed, outStuck, devRuntime, devInput, devEdits, devRead,
                     devCache, devSaved, devRaced>>
  BY <1>a DEF DevStart, Out!At, Out!Forget
<1>1. /\ outTarget' \in [{1} -> Out!Contents] /\ outTarget'[1] # Out!Absent
      /\ outTarget[1] # Out!Absent => outTarget'[1] = outTarget[1]
  BY <1>f, <1>a
<1>2. Out!PubTypeOK'
  BY <1>f, <1>1, <1>t, <1>a DEF DevTypeOK, Out!PubTypeOK, Out!Over
<1>3. DevTypeOK'
  <2>1. devStarts' \in 0 .. MaxDevStarts
    BY <1>f, <1>t, DevAssumption DEF DevTypeOK
  <2> QED BY <2>1, <1>f, <1>2, <1>t, <1>a DEF DevTypeOK
<1>4. OneTarget' /\ BuiltWhere'
  BY <1>f DEF OneTarget, BuiltWhere, Out!Over
<1>5. ~devRaced /\ devCache # 0 => outTarget'[1] = devCache
  BY <1>t, <1>a, <1>1 DEF CacheTells
<1>6. CacheTells'
  BY <1>5, <1>f, <1>1 DEF CacheTells, Out!Absent
<1>7. PreviousTells'
  <2>1. devPc' = "serve" => devPrevious' # 0 /\ devCache = devPrevious'
    BY <1>f DEF MustBuild
  <2> QED BY <2>1, <1>5, <1>f DEF PreviousTells
<1> QED BY <1>3, <1>4, <1>6, <1>7 DEF DevInv

\* The loop, its cache and the output agree at every moment.
THEOREM DevInvariant == DevSpec => []DevInv
<1>1. ASSUME DevInit PROVE DevInv
  <2>1. Out!Slots = {1} /\ Out!Absent \in Out!Contents
    BY DEF Out!Slots, Out!Contents
  <2>2. Out!PubTypeOK
    BY <1>1, <2>1 DEF DevInit, Out!PubInit, Out!PubTypeOK, Out!Over
  <2>3. DevTypeOK
    <3>1. 0 \in 0 .. MaxDevEdits /\ 0 \in 0 .. MaxDevStarts
      BY DevAssumption
    <3> QED BY <1>1, <2>2, <3>1 DEF DevInit, DevTypeOK
  <2>4. OneTarget
    BY <1>1 DEF DevInit, Out!PubInit, OneTarget, Out!Over
  <2> QED BY <1>1, <2>3, <2>4 DEF DevInit, DevInv, BuiltWhere, CacheTells, PreviousTells
<1>2. DevInv /\ [DevNext]_devVars => DevInv'
  <2> SUFFICES ASSUME DevInv, [DevNext]_devVars PROVE DevInv'
    OBVIOUS
  <2>1. CASE UNCHANGED devVars
    BY <2>1 DEF devVars, outVars, devWorld, devLoopVars, devHistory, DevInv, DevTypeOK, OneTarget,
                BuiltWhere, Built, CacheTells, PreviousTells, Out!PubTypeOK, Out!Over, Out!Absent
  <2> QED BY <2>1, PublishKeeps, LoopKeeps, BuildKeeps, KillKeeps, StartKeeps DEF DevNext, DevRun
<1> QED BY <1>1, <1>2, PTL DEF DevSpec

\* A loop at rest serves the output of the inputs as they are, or has reported
\* that they do not build, whatever failed, died and was restarted, and
\* whichever starts trusted the cached snapshot; unless a build raced with an
\* edit.
THEOREM DevLoopServesInputs == DevSpec => []DevSettled
<1>1. DevInv => DevSettled
  BY DEF DevInv, PreviousTells, DevSettled, AtRest, UpToDate
<1> QED BY <1>1, DevInvariant, PTL
=============================================================================
