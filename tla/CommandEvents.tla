---------------------------- MODULE CommandEvents ---------------------------
(***************************************************************************)
(* runtime/contracts: concurrent commands (command.go), the events their   *)
(* handlers record (recorder.go) and the composite sink that receives them *)
(* (events.go): an outbox or a broker or the local subscribers, and the    *)
(* presentation fanout, in the order the application gives them.           *)
(*                                                                         *)
(* An event is its call and its number in the call, which stand for the id *)
(* the recorder gives it.  Of its contents only the category is kept.  A   *)
(* sink takes the events of a call in their order.                         *)
(***************************************************************************)
EXTENDS Naturals, Sequences

CONSTANTS
  CmdSinks,       \* the sinks in their order: "all" or "fanout", which takes only presentation
  CmdCalls,       \* bound: how many commands are called
  MaxCmdEvents    \* bound: how many events one handler emits

ASSUME CmdAssumption ==
  /\ CmdCalls \in Nat /\ MaxCmdEvents \in Nat
  /\ CmdSinks \in Seq({"all", "fanout"})

VARIABLES
  cmdPc,       \* call -> "none", "handler", "sinks", "ok", "failed" or "dead"
  cmdEvents,   \* call -> the categories of the recorded events
  cmdSink,     \* call -> the sink that is next; 0: the handler has not succeeded
  cmdGot       \* sink -> call -> event -> how often the sink has accepted it

cmdVars == <<cmdPc, cmdEvents, cmdSink, cmdGot>>

Calls == 1 .. CmdCalls
Sinks == 1 .. Len(CmdSinks)
Numbers == 1 .. MaxCmdEvents
Categories == {"domain", "presentation"}

CmdTypeOK ==
  /\ cmdPc \in [Calls -> {"none", "handler", "sinks", "ok", "failed", "dead"}]
  /\ cmdEvents \in [Calls -> Seq(Categories)]
  /\ \A c \in Calls : Len(cmdEvents[c]) <= MaxCmdEvents
  /\ cmdSink \in [Calls -> 0 .. Len(CmdSinks) + 1]
  /\ cmdGot \in [Sinks -> [Calls -> [Numbers -> Nat]]]

CmdInit ==
  /\ cmdPc = [c \in Calls |-> "none"]
  /\ cmdEvents = [c \in Calls |-> <<>>]
  /\ cmdSink = [c \in Calls |-> 0]
  /\ cmdGot = [s \in Sinks |-> [c \in Calls |-> [n \in Numbers |-> 0]]]

-----------------------------------------------------------------------------
\* The call ends, with the command's result or an error.
Ends(c, how) == cmdPc' = [cmdPc EXCEPT ![c] = how]

\* runCommand finds the handler of the command, or refuses the call: no
\* handler, a role that may not execute it, a handler of another type.
RunCommand(c) ==
  /\ cmdPc[c] = "none"
  /\ Ends(c, "handler") \/ Ends(c, "failed")
  /\ UNCHANGED <<cmdEvents, cmdSink, cmdGot>>

\* emit: the event goes into the recorder of the call's context.
Emit(c) ==
  /\ cmdPc[c] = "handler" /\ Len(cmdEvents[c]) < MaxCmdEvents
  /\ \E category \in Categories :
       cmdEvents' = [cmdEvents EXCEPT ![c] = Append(@, category)]
  /\ UNCHANGED <<cmdPc, cmdSink, cmdGot>>

HandlerFails(c) ==
  /\ cmdPc[c] = "handler"
  /\ Ends(c, "failed")
  /\ UNCHANGED <<cmdEvents, cmdSink, cmdGot>>

\* The handler succeeds; with no event or no sink there is nothing to dispatch.
HandlerReturns(c) ==
  /\ cmdPc[c] = "handler"
  /\ Ends(c, IF cmdEvents[c] = <<>> \/ CmdSinks = <<>> THEN "ok" ELSE "sinks")
  /\ cmdSink' = [cmdSink EXCEPT ![c] = 1]
  /\ UNCHANGED <<cmdEvents, cmdGot>>

\* Those of the events of a call that sink s is for.
EventsFor(s, events) ==
  {n \in 1 .. Len(events) : CmdSinks[s] = "all" \/ events[n] = "presentation"}

\* How often each event is accepted when these are, once each.
Once(numbers) == [n \in Numbers |-> IF n \in numbers THEN 1 ELSE 0]

\* The sink that is next accepts these events of the call.
Accepts(c, numbers) ==
  cmdGot' = [cmdGot EXCEPT ![cmdSink[c]][c] = [n \in Numbers |-> @[n] + Once(numbers)[n]]]

\* HandleCommandEvents of the next sink succeeds; after the last the result
\* is returned.
SinkAccepts(c) ==
  /\ cmdPc[c] = "sinks"
  /\ Accepts(c, EventsFor(cmdSink[c], cmdEvents[c]))
  /\ cmdSink' = [cmdSink EXCEPT ![c] = @ + 1]
  /\ IF cmdSink[c] = Len(CmdSinks) THEN Ends(c, "ok") ELSE UNCHANGED cmdPc
  /\ UNCHANGED cmdEvents

\* A sink that fails has kept the events before the one it failed at.
Keeps(c) ==
  \E failed \in 1 .. Len(cmdEvents[c]) + 1 :
    Accepts(c, {n \in EventsFor(cmdSink[c], cmdEvents[c]) : n < failed})

\* A composite that goes on to the next sink and drops the error.
SinkFailsGoesOn(c) ==
  /\ cmdPc[c] = "sinks"
  /\ Keeps(c)
  /\ cmdSink' = [cmdSink EXCEPT ![c] = @ + 1]
  /\ IF cmdSink[c] = Len(CmdSinks) THEN Ends(c, "ok") ELSE UNCHANGED cmdPc
  /\ UNCHANGED cmdEvents

\* A sink fails: the composite returns its error, the sinks before it keep
\* what they have.
SinkFails(c) ==
  /\ cmdPc[c] = "sinks"
  /\ Keeps(c)
  /\ Ends(c, "failed")
  /\ UNCHANGED <<cmdEvents, cmdSink>>

\* The process dies: every call under way is cut off.
CmdCrash ==
  /\ \E c \in Calls : cmdPc[c] \in {"handler", "sinks"}
  /\ cmdPc' = [c \in Calls |-> IF cmdPc[c] \in {"handler", "sinks"} THEN "dead" ELSE cmdPc[c]]
  /\ UNCHANGED <<cmdEvents, cmdSink, cmdGot>>

CmdNext ==
  \/ CmdCrash
  \/ \E c \in Calls :
       \/ RunCommand(c) \/ Emit(c) \/ HandlerFails(c) \/ HandlerReturns(c)
       \/ SinkAccepts(c) \/ SinkFails(c)

CmdSpec == CmdInit /\ [][CmdNext]_cmdVars

-----------------------------------------------------------------------------
(* Properties.                                                             *)

\* Sink s has the events of the call that it is for, each once, or none.
HasAll(s, c) == cmdGot[s][c] = Once(EventsFor(s, cmdEvents[c]))
HasNone(s, c) == cmdGot[s][c] = Once({})

\* What the sinks have agrees with what the caller is told: nothing of a call
\* that was refused or whose handler failed; all of it, and once, in every
\* sink when the call succeeds; and at every moment, a crash included, an
\* event that has reached a sink has reached all the sinks before it.
CommandEffects ==
  \A c \in Calls :
    /\ cmdSink[c] = 0 => \A s \in Sinks : HasNone(s, c)
    /\ cmdPc[c] = "ok" => \A s \in Sinks : HasAll(s, c)
    /\ \A s, t \in Sinks : s < t /\ ~HasNone(t, c) => HasAll(s, c)
=============================================================================
