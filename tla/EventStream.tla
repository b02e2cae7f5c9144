----------------------------- MODULE EventStream -----------------------------
(***************************************************************************)
(* What a browser may rely on when it follows presentation events: the     *)
(* messages for its audience, in the order in which they were sent, each   *)
(* once, and without a gap for as long as its stream has not been cut off. *)
(* A browser that joins again resumes after the last message it received,  *)
(* or starts with the messages that are still to be sent.                  *)
(***************************************************************************)
EXTENDS Naturals

CONSTANTS Browsers, Labels, Messages

VARIABLES
  sent,   \* how many messages were sent
  aud,    \* message -> its audience labels
  who,    \* browser -> the labels it has
  from,   \* browser -> the message its stream starts after
  whole,  \* browser -> it has a stream that was not cut off
  last,   \* browser -> the last message it received
  got     \* browser -> all messages it received

streamVars == <<sent, aud, who, from, whole, last, got>>

Init ==
  /\ sent = 0 /\ aud = [n \in Messages |-> {}]
  /\ who = [b \in Browsers |-> {}] /\ from = [b \in Browsers |-> 0]
  /\ whole = [b \in Browsers |-> FALSE]
  /\ last = [b \in Browsers |-> 0] /\ got = [b \in Browsers |-> {}]

For(b, n) == aud[n] \subseteq who[b]

\* Streams are cut off; only joining makes one whole again.
CutOff == \A b \in Browsers : whole'[b] => whole[b]

\* Messages are sent; a browser that cannot take them is cut off.
Publish ==
  /\ sent' > sent /\ \A n \in 1 .. sent : aud'[n] = aud[n]
  /\ CutOff
  /\ UNCHANGED <<who, from, last, got>>

Leave == CutOff /\ UNCHANGED <<sent, aud, who, from, last, got>>

Join(b) ==
  /\ ~whole[b] /\ whole' = [whole EXCEPT ![b] = TRUE]
  /\ \E labels \in SUBSET Labels : who' = [who EXCEPT ![b] = labels]
  /\ \E n \in {last[b], sent} : from' = [from EXCEPT ![b] = n]
  /\ UNCHANGED <<sent, aud, last, got>>

Receive(b, n) ==
  /\ n \in 1 .. sent /\ n > last[b] /\ n > from[b] /\ For(b, n)
  /\ whole[b] => \A m \in 1 .. n - 1 : m > from[b] /\ For(b, m) => m \in got[b]
  /\ last' = [last EXCEPT ![b] = n]
  /\ got' = [got EXCEPT ![b] = @ \cup {n}]
  /\ UNCHANGED <<sent, aud, who, from, whole>>

Next ==
  \/ Publish \/ Leave
  \/ \E b \in Browsers : Join(b) \/ \E n \in Messages : Receive(b, n)

Spec == Init /\ [][Next]_streamVars
=============================================================================
