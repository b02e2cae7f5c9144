------------------------------ MODULE SeenStore ------------------------------
(***************************************************************************)
(* The deduplication window a worker consults: contracts.MemorySeenStore   *)
(* (an LRU list, process local) or fileoutbox.SeenStore (a JSON Lines file). *)
(* Both hold at most SeenLimit event IDs and evict the oldest.  The window *)
(* is kept as positions: 1 is the newest entry, 0 means not in the window. *)
(***************************************************************************)
EXTENDS Naturals, Envelopes

CONSTANTS
  SeenKind,   \* "none" (a nil SeenStore), "memory" or "file"
  SeenLimit

ASSUME SeenAssumption ==
  /\ SeenKind \in {"none", "memory", "file"}
  /\ SeenLimit \in Nat \ {0}

VARIABLE pos  \* event ID -> its position in the window

SeenTypeOK == pos \in [Events -> 0 .. SeenLimit]

SeenInit == pos = [e \in Events |-> 0]

InWindow(e) == pos[e] > 0

\* Where x stands once e has become the newest entry: what was newer than e
\* moves one place back, and what falls behind the limit is evicted.
Shift(e, x) ==
  IF pos[x] = 0 THEN 0
  ELSE IF pos[e] = 0 \/ pos[x] < pos[e]
       THEN (IF pos[x] < SeenLimit THEN pos[x] + 1 ELSE 0)
       ELSE pos[x]

MakeNewest(e) == [x \in Events |-> IF x = e THEN 1 ELSE Shift(e, x)]

\* Seen on a hit: the memory store moves the entry to the back of its LRU
\* list, the file store only reads.
TouchSeen(e) ==
  pos' = IF SeenKind = "memory" /\ InWindow(e) THEN MakeNewest(e) ELSE pos

\* MarkSeen.
MarkSeen(e) == pos' = MakeNewest(e)

\* What a restart of the process leaves of the window.
SeenAfterRestart ==
  pos' = IF SeenKind = "file" THEN pos ELSE [e \in Events |-> 0]
=============================================================================
