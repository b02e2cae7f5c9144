----------------------------- MODULE AtLeastOnce -----------------------------
(***************************************************************************)
(* What durable event delivery promises: a record that was stored stays    *)
(* until every subscriber has handled its event, or it is put aside where  *)
(* an operator finds it.  Nothing is said about how often a subscriber is  *)
(* given an event, nor in which order records end.                         *)
(***************************************************************************)
EXTENDS Naturals

CONSTANTS Events, NoEvent, Records, Subs

VARIABLES
  evt,     \* record -> its event
  status,  \* record -> "absent", "pending", "done" or "dead"
  handled  \* event -> the subscribers that handled it

promiseVars == <<evt, status, handled>>

Init ==
  /\ evt = [r \in Records |-> NoEvent]
  /\ status = [r \in Records |-> "absent"]
  /\ handled = [e \in Events |-> {}]

Store(S) ==
  /\ \A r \in S : status[r] = "absent"
  /\ status' = [r \in Records |-> IF r \in S THEN "pending" ELSE status[r]]
  /\ \A r \in Records : IF r \in S THEN evt'[r] \in Events ELSE evt'[r] = evt[r]
  /\ UNCHANGED handled

\* Subscriber s handles events that were stored.
Handle(E, s) ==
  /\ \A e \in E : \E r \in Records : evt[r] = e
  /\ handled' = [e \in Events |-> IF e \in E THEN handled[e] \cup {s} ELSE handled[e]]
  /\ UNCHANGED <<evt, status>>

\* Pending records end: done only when every subscriber handled the event.
End(S) ==
  /\ \A r \in S : /\ status[r] = "pending"
                  /\ status'[r] \in {"done", "dead"}
                  /\ status'[r] = "done" => handled[evt[r]] = Subs
  /\ \A r \in Records \ S : status'[r] = status[r]
  /\ UNCHANGED <<evt, handled>>

Next ==
  \/ \E S \in SUBSET Records : Store(S) \/ End(S)
  \/ \E E \in SUBSET Events, s \in Subs : Handle(E, s)

Spec == Init /\ [][Next]_promiseVars
=============================================================================
