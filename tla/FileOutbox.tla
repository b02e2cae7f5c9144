----------------------------- MODULE FileOutbox -----------------------------
(***************************************************************************)
(* runtime/contracts/fileoutbox: the JSON Lines outbox.                    *)
(*                                                                         *)
(* The durable state is two files: the pending records and the dead-letter *)
(* records.  A record is identified by its ID.  StoreEvents appends records *)
(* with fresh IDs at the end of the pending file and every other operation *)
(* keeps the order of the records it leaves, so the file order is the order *)
(* of creation: records are numbered 1, 2, ... and the pending file is the *)
(* set of the numbers it holds, read in increasing order.  Every operation *)
(* runs under Store.mu and replaces a file by temp-file-and-rename, so an  *)
(* operation is one step per file it replaces: the dead-letter file first, *)
(* the pending file second (markRecordsFailedLocked).                      *)
(***************************************************************************)
EXTENDS Naturals, Sequences, FiniteSets, Envelopes

CONSTANTS
  MaxRecords,   \* bound: how many records are ever stored
  MaxStore,     \* bound: how many events one StoreEvents call brings
  BatchSize,    \* WithBatchSize
  MaxAttempts,  \* WithDeadLetter's maxAttempts; 0: no dead-lettering
  AttemptCap    \* bound: where the attempt counter saturates

ASSUME OutboxAssumption ==
  /\ MaxRecords \in Nat
  /\ MaxStore \in Nat
  /\ BatchSize \in Nat \ {0}
  /\ MaxAttempts \in Nat
  /\ AttemptCap \in Nat
  /\ MaxAttempts <= AttemptCap

VARIABLES
  stored,    \* how many records were ever stored
  evt,       \* record -> the event ID it carries (Record.EventID)
  pending,   \* the records in the pending file
  attempts,  \* record -> Record.Attempts, as the pending file says
  deadRows   \* record -> how many rows of the dead-letter file carry its ID

outboxVars == <<stored, evt, pending, attempts, deadRows>>

Records == 1 .. MaxRecords

OutboxTypeOK ==
  /\ stored \in 0 .. MaxRecords
  /\ evt \in [Records -> Events \cup {NoEvent}]
  /\ pending \subseteq Records
  /\ attempts \in [Records -> 0 .. AttemptCap]
  /\ deadRows \in [Records -> Nat]

OutboxInit ==
  /\ stored = 0
  /\ evt = [r \in Records |-> NoEvent]
  /\ pending = {}
  /\ attempts = [r \in Records |-> 0]
  /\ deadRows = [r \in Records |-> 0]

-----------------------------------------------------------------------------
(* What the operations compute.                                            *)

\* r comes first of the records S, in file order.
IsFirst(r, S) == r \in S /\ \A q \in S : r <= q

\* The first BatchSize pending records, in file order.
Selected == {r \in pending : Cardinality({q \in pending : q < r}) < BatchSize}

\* decodeRecordsLocked: the records of a batch that no decoder accepts.
Failed(S) == {r \in S : evt[r] \in Undecodable}

\* A dead-letter test that is one attempt late.
NewlyDeadLate(S) ==
  {r \in pending \cap S : MaxAttempts > 0 /\ attempts[r] >= MaxAttempts}

\* The records of S that one more failed attempt sends to the dead letters.
NewlyDead(S) ==
  {r \in pending \cap S : MaxAttempts > 0 /\ attempts[r] + 1 >= MaxAttempts}

\* A dead-letter append that forgets the merge by record ID.
AppendDeadRowsTwice(S) ==
  [r \in Records |-> IF r \in S THEN deadRows[r] + 1 ELSE deadRows[r]]

\* A dead letter that is dropped instead of being written.
ForgetDeadRows(S) == deadRows

\* appendRecordsToPathLocked merges by record ID: a row that is there stays
\* and is not written again.
AppendDeadRows(S) ==
  [r \in Records |-> IF r \in S /\ deadRows[r] = 0 THEN 1 ELSE deadRows[r]]

\* An attempt counted in a copy of the record that is not written back.
AttemptsNotSaved(S) == attempts

BumpAttempts(S) ==
  [r \in Records |-> IF r \in pending \cap S /\ attempts[r] < AttemptCap
                       THEN attempts[r] + 1 ELSE attempts[r]]

-----------------------------------------------------------------------------
(* The operations on the files, each with the ways it can end.             *)

\* StoreEvents: read the pending file, append one record per event, replace
\* the file.
StoreEvents(es) ==
  /\ Len(es) > 0
  /\ stored + Len(es) <= MaxRecords
  /\ LET fresh == stored + 1 .. stored + Len(es) IN
       /\ stored' = stored + Len(es)
       /\ pending' = pending \cup fresh
       /\ evt' = [r \in Records |-> IF r \in fresh THEN es[r - stored] ELSE evt[r]]
  /\ UNCHANGED <<attempts, deadRows>>

\* removeRecordsLocked.
RemoveRecords(S) ==
  /\ pending' = pending \ S
  /\ UNCHANGED <<stored, evt, attempts, deadRows>>

\* markRecordsFailedLocked, both files replaced.
MarkRecordsFailed(S) ==
  /\ deadRows' = AppendDeadRows(NewlyDead(S))
  /\ pending' = pending \ NewlyDead(S)
  /\ attempts' = BumpAttempts(S)
  /\ UNCHANGED <<stored, evt>>

\* markRecordsFailedLocked, the dead-letter file replaced and then the
\* pending file not (a failed rename, a full disk, the process gone).
MarkRecordsHalfFailed(S) ==
  /\ NewlyDead(S) # {}
  /\ deadRows' = AppendDeadRows(NewlyDead(S))
  /\ UNCHANGED <<stored, evt, pending, attempts>>
=============================================================================
