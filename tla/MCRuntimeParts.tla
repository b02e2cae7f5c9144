-------------------------- MODULE MCRuntimeParts ----------------------------
(***************************************************************************)
(* The parts of the runtime and of the tool chain that share no state and  *)
(* promise safety, in one run: a behaviour picks a part and takes the      *)
(* steps of that part alone, so that the states are the sum, not the       *)
(* product, of the parts'.  The other parts stay in one of their initial   *)
(* states.                                                                 *)
(***************************************************************************)
EXTENDS Publish, Sessions, RateLimit, TraceCollector, MemBroker, CommandEvents,
        BrowserNavigation, QueryRegions

VARIABLE part

Parts == {"publish", "sessions", "rate", "collector", "broker", "command", "navigation",
          "regions"}

partVars == <<part, pubVars, sesVars, rateVars, colVars, memVars, cmdVars, navVars, regVars>>

\* An outbox, a fanout and local subscribers.
MCSinks == <<"all", "fanout", "all">>

PartsInit ==
  /\ part \in Parts
  /\ PubInit /\ SesInit /\ RateInit /\ ColInit /\ MemInit /\ CmdInit /\ NavInit /\ RegInit
  /\ part # "rate" => ~rateRedis
  /\ part # "regions" => regStream = "none"

\* It is p's turn, and every other part stays as it is.
Alone(p) ==
  /\ part = p /\ UNCHANGED part
  /\ IF p = "publish" THEN TRUE ELSE UNCHANGED pubVars
  /\ IF p = "sessions" THEN TRUE ELSE UNCHANGED sesVars
  /\ IF p = "rate" THEN TRUE ELSE UNCHANGED rateVars
  /\ IF p = "collector" THEN TRUE ELSE UNCHANGED colVars
  /\ IF p = "broker" THEN TRUE ELSE UNCHANGED memVars
  /\ IF p = "command" THEN TRUE ELSE UNCHANGED cmdVars
  /\ IF p = "navigation" THEN TRUE ELSE UNCHANGED navVars
  /\ IF p = "regions" THEN TRUE ELSE UNCHANGED regVars

PartsNext ==
  \/ Alone("publish") /\ PubNext
  \/ Alone("sessions") /\ SesNext
  \/ Alone("rate") /\ RateNextStep
  \/ Alone("collector") /\ ColNext
  \/ Alone("broker") /\ MemNext
  \/ Alone("command") /\ CmdNext
  \/ Alone("navigation") /\ NavNext
  \/ Alone("regions") /\ RegNext

PartsSpec == PartsInit /\ [][PartsNext]_partVars

-----------------------------------------------------------------------------
(* Properties.                                                             *)

\* Every variable of every part has its type.
PartsTypeOK ==
  /\ PubTypeOK /\ SesTypeOK /\ RateTypeOK /\ ColTypeOK /\ MemTypeOK /\ CmdTypeOK /\ NavTypeOK
  /\ RegTypeOK
=============================================================================
