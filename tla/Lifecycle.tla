------------------------------ MODULE Lifecycle -----------------------------
(***************************************************************************)
(* runtime/app/lifecycle.go: Run mounts the services, runs them and the    *)
(* HTTP server, waits for a signal, the end of the server or the error of  *)
(* a service, and shuts everything down within its timeouts.               *)
(*                                                                         *)
(* A parked select takes the first case that becomes ready.  A timeout may *)
(* fire at any moment of the wait it bounds.                               *)
(***************************************************************************)
EXTENDS Naturals

CONSTANT LifeServices   \* the number of services

ASSUME LifeAssumption == LifeServices \in Nat

VARIABLES
  lifePc,         \* where Run is
  lifeMounted,    \* how many services are mounted
  lifeSignal,     \* signalContext is done
  lifeCanceled,   \* runContext is done
  lifeService,    \* service -> its Run
  lifeError,      \* errorsChannel holds an error
  lifeServer,     \* the server's goroutine
  lifeServerDone, \* what serverDone holds
  lifeConsumed,   \* serverDoneConsumed
  lifeClosed,     \* servicesDone is closed
  lifeResult      \* the errors joined in what Run returns; {}: nil

lifeVars == <<lifePc, lifeMounted, lifeSignal, lifeCanceled, lifeService, lifeError, lifeServer,
              lifeServerDone, lifeConsumed, lifeClosed, lifeResult>>

Services == 1 .. LifeServices

LifeTypeOK ==
  /\ lifePc \in {"mount", "starting", "parked", "shutdown", "stopping", "waitServer",
                 "waitServices", "returned"}
  /\ lifeMounted \in 0 .. LifeServices
  /\ {lifeSignal, lifeCanceled, lifeError, lifeConsumed, lifeClosed} \subseteq BOOLEAN
  /\ lifeService \in [Services -> {"idle", "running", "ok", "stopped", "failed"}]
  /\ lifeServer \in {"idle", "serving", "ended"}
  /\ lifeServerDone \in {"empty", "nil", "error"}
  /\ lifeResult \subseteq {"mount", "service", "server", "shutdown", "serverTimeout",
                           "servicesTimeout"}

LifeInit ==
  /\ lifePc = "mount" /\ lifeMounted = 0
  /\ lifeSignal = FALSE /\ lifeCanceled = FALSE
  /\ lifeService = [s \in Services |-> "idle"]
  /\ lifeError = FALSE
  /\ lifeServer = "idle" /\ lifeServerDone = "empty"
  /\ lifeConsumed = FALSE /\ lifeClosed = FALSE
  /\ lifeResult = {}

-----------------------------------------------------------------------------
(* Run.                                                                    *)

Mount ==
  /\ lifePc = "mount" /\ lifeMounted < LifeServices
  /\ \/ /\ lifeMounted' = lifeMounted + 1
        /\ UNCHANGED <<lifePc, lifeCanceled, lifeResult>>
     \/ /\ lifePc' = "returned"
        /\ lifeCanceled' = TRUE
        /\ lifeResult' = {"mount"}
        /\ UNCHANGED lifeMounted
  /\ UNCHANGED <<lifeSignal, lifeService, lifeError, lifeServer, lifeServerDone, lifeConsumed,
                 lifeClosed>>

\* startServices and startServer.
StartAll ==
  /\ lifePc = "mount" /\ lifeMounted = LifeServices
  /\ lifePc' = "starting"
  /\ lifeService' = [s \in Services |-> "running"]
  /\ lifeServer' = "serving"
  /\ UNCHANGED <<lifeMounted, lifeSignal, lifeCanceled, lifeError, lifeServerDone, lifeConsumed,
                 lifeClosed, lifeResult>>

\* A case of the select is taken: what it adds to the result, and whether it
\* was serverDone.
Leaves(errors, consumed) ==
  /\ lifePc' = "shutdown"
  /\ lifeCanceled' = TRUE
  /\ lifeConsumed' = consumed
  /\ lifeResult' = errors

ServerErrors(outcome) == IF outcome = "error" THEN {"server"} ELSE {}

\* Run reaches its select.
ReachSelect ==
  /\ lifePc = "starting"
  /\ \/ lifeSignal /\ Leaves({}, FALSE) /\ UNCHANGED <<lifeError, lifeServerDone>>
     \/ /\ lifeServerDone # "empty"
        /\ Leaves(ServerErrors(lifeServerDone), TRUE)
        /\ lifeServerDone' = "empty"
        /\ UNCHANGED lifeError
     \/ /\ lifeError
        /\ Leaves({"service"}, FALSE)
        /\ lifeError' = FALSE
        /\ UNCHANGED lifeServerDone
     \/ /\ ~lifeSignal /\ lifeServerDone = "empty" /\ ~lifeError
        /\ lifePc' = "parked"
        /\ UNCHANGED <<lifeCanceled, lifeConsumed, lifeResult, lifeError, lifeServerDone>>
  /\ UNCHANGED <<lifeMounted, lifeSignal, lifeService, lifeServer, lifeClosed>>

\* server.Shutdown closes the listeners ...
ShutdownBegins ==
  /\ lifePc = "shutdown"
  /\ lifePc' = "stopping"
  /\ UNCHANGED <<lifeMounted, lifeSignal, lifeCanceled, lifeService, lifeError, lifeServer,
                 lifeServerDone, lifeConsumed, lifeClosed, lifeResult>>

\* ... and returns when the connections are idle, or at its timeout.
ShutdownReturns ==
  /\ lifePc = "stopping"
  /\ lifePc' = IF lifeConsumed THEN "waitServices" ELSE "waitServer"
  /\ lifeResult' \in {lifeResult, lifeResult \cup {"shutdown"}}
  /\ UNCHANGED <<lifeMounted, lifeSignal, lifeCanceled, lifeService, lifeError, lifeServer,
                 lifeServerDone, lifeConsumed, lifeClosed>>

WaitForServer ==
  /\ lifePc = "waitServer"
  /\ \/ /\ lifeServerDone # "empty"
        /\ lifeServerDone' = "empty"
        /\ lifeResult' = lifeResult \cup ServerErrors(lifeServerDone)
     \/ /\ lifeResult' = lifeResult \cup {"serverTimeout"}
        /\ UNCHANGED lifeServerDone
  /\ lifePc' = "waitServices"
  /\ UNCHANGED <<lifeMounted, lifeSignal, lifeCanceled, lifeService, lifeError, lifeServer,
                 lifeConsumed, lifeClosed>>

\* A wait that takes the cancellation for the end of the services.
WaitForServicesNot ==
  /\ lifePc = "waitServices"
  /\ lifePc' = "returned"
  /\ UNCHANGED <<lifeMounted, lifeSignal, lifeCanceled, lifeService, lifeError, lifeServer,
                 lifeServerDone, lifeConsumed, lifeClosed, lifeResult>>

WaitForServices ==
  /\ lifePc = "waitServices"
  /\ \/ lifeClosed /\ UNCHANGED lifeResult
     \/ lifeResult' = lifeResult \cup {"servicesTimeout"}
  /\ lifePc' = "returned"
  /\ UNCHANGED <<lifeMounted, lifeSignal, lifeCanceled, lifeService, lifeError, lifeServer,
                 lifeServerDone, lifeConsumed, lifeClosed>>

-----------------------------------------------------------------------------
(* The goroutines and the outside.                                         *)

\* An error that finds nobody waiting is dropped.
SendErrorUnbuffered ==
  /\ IF lifePc = "parked" THEN Leaves({"service"}, FALSE)
                          ELSE UNCHANGED <<lifePc, lifeCanceled, lifeConsumed, lifeResult>>
  /\ UNCHANGED lifeError

\* The error goes to the parked select, or to the channel's one place, or is
\* dropped.
SendError ==
  IF lifePc = "parked"
    THEN Leaves({"service"}, FALSE) /\ UNCHANGED lifeError
    ELSE lifeError' = TRUE /\ UNCHANGED <<lifePc, lifeCanceled, lifeConsumed, lifeResult>>

\* A service returns: nil, the error of the context once that is done, or an
\* error of its own.
ServiceEnds(s) ==
  /\ lifeService[s] = "running"
  /\ \E outcome \in {"ok", "failed"} \cup (IF lifeCanceled THEN {"stopped"} ELSE {}) :
       /\ lifeService' = [lifeService EXCEPT ![s] = outcome]
       /\ IF outcome = "failed" THEN SendError
          ELSE UNCHANGED <<lifePc, lifeCanceled, lifeConsumed, lifeResult, lifeError>>
  /\ UNCHANGED <<lifeMounted, lifeSignal, lifeServer, lifeServerDone, lifeClosed>>

ServicesDone ==
  /\ lifePc # "mount" /\ lifeServer # "idle" /\ ~lifeClosed
  /\ \A s \in Services : lifeService[s] # "running"
  /\ lifeClosed' = TRUE
  /\ UNCHANGED <<lifePc, lifeMounted, lifeSignal, lifeCanceled, lifeService, lifeError, lifeServer,
                 lifeServerDone, lifeConsumed, lifeResult>>

\* Serve returns: ErrServerClosed once Shutdown was called, else an error.
ServerEnds ==
  /\ lifeServer = "serving"
  /\ lifeServer' = "ended"
  /\ \E outcome \in {"error"} \cup (IF lifePc \in {"mount", "starting", "parked", "shutdown"}
                                       THEN {} ELSE {"nil"}) :
       IF lifePc = "parked"
         THEN Leaves(ServerErrors(outcome), TRUE) /\ UNCHANGED lifeServerDone
         ELSE /\ lifeServerDone' = outcome
              /\ UNCHANGED <<lifePc, lifeCanceled, lifeConsumed, lifeResult>>
  /\ UNCHANGED <<lifeMounted, lifeSignal, lifeService, lifeError, lifeClosed>>

\* An interrupt, or the end of the caller's context.
Signal ==
  /\ ~lifeSignal /\ lifePc # "returned"
  /\ lifeSignal' = TRUE
  /\ IF lifePc = "parked" THEN Leaves({}, FALSE)
     ELSE lifeCanceled' = TRUE /\ UNCHANGED <<lifePc, lifeConsumed, lifeResult>>
  /\ UNCHANGED <<lifeMounted, lifeService, lifeError, lifeServer, lifeServerDone, lifeClosed>>

-----------------------------------------------------------------------------
LifeRun ==
  \/ Mount \/ StartAll \/ ReachSelect \/ ShutdownBegins \/ ShutdownReturns
  \/ WaitForServer \/ WaitForServices

LifeNext == LifeRun \/ Signal \/ ServicesDone \/ ServerEnds \/ \E s \in Services : ServiceEnds(s)

LifeSpec == LifeInit /\ [][LifeNext]_lifeVars

\* Run's goroutine runs and its timeouts fire; nothing is assumed of the
\* services and of the server.
LifeFairSpec == LifeSpec /\ WF_lifeVars(LifeRun)

-----------------------------------------------------------------------------
(* Properties.                                                             *)

\* Run returns nil only when it was asked to stop and every service and the
\* server have ended, whatever raced with the signal.
CleanReturn ==
  lifePc = "returned" /\ lifeResult = {} =>
    /\ lifeSignal
    /\ lifeServer = "ended"
    /\ \A s \in Services : lifeService[s] # "running"

\* A signal, the failure of a service, also of one that fails before Run waits
\* for it, and the end of the server each make Run return, even if the
\* services ignore their context and the server does not end.
RunReturns ==
  lifeSignal \/ lifeServer = "ended" \/ (\E s \in Services : lifeService[s] = "failed")
    ~> lifePc = "returned"
=============================================================================
