-------------------------- MODULE TelemetryService --------------------------
(***************************************************************************)
(* The elevated half of PCPanel: app/service/windows.py drives             *)
(* app/service/runtime.py, which runs the telemetry manager and the named  *)
(* pipe listener of app/ipc/server.py for the Agent's app/ipc/client.py.   *)
(*                                                                         *)
(* The listener serves one client at a time with blocking pipe calls; to   *)
(* stop it, another thread sets an event and cancels the call in which the *)
(* listener is blocked.  The manager is the SnapshotSource that            *)
(* TelemetryManager implements.                                            *)
(*                                                                         *)
(* One process life of the service is modelled, with any number of         *)
(* requests of the Agent.  Frames carry one of the two commands; encoding, *)
(* sizes and access rights of the pipe are left out.                       *)
(***************************************************************************)
EXTENDS Naturals

CONSTANTS Clients,      \* threads of the Agent that ask the service
          NoClient,
          MaxKills      \* bound: Agent threads that die in an exchange

ASSUME NoClientAssumption == NoClient \notin Clients
ASSUME MaxKillsAssumption == MaxKills \in Nat

VARIABLES scm,          \* the state last reported to the service control manager
          main,         \* where _service_main and the runtime are
          failures,     \* exceptions _service_main has caught
          status,       \* of the manager
          latest,       \* of the manager
          fault,        \* of the manager
          listener,     \* where serve_forever is
          stopEvent,    \* TelemetryPipeServer._stop_event
          named,        \* _thread_id is not None (and _ready is set)
          attached,     \* the client at the other end of the pipe
          exchange,     \* what has passed through the pipe
          client,       \* where each client is
          kills,        \* clients that died so far
          hurried       \* history: a wait of stop() ran out after its second, or
                        \* the listener began by forgetting the stop in progress

mainVars == <<scm, main, failures>>
managerVars == <<status, latest, fault>>
serverVars == <<listener, stopEvent, named>>
pipeVars == <<attached, exchange>>
clientVars == <<client, kills>>
vars == <<mainVars, managerVars, serverVars, pipeVars, clientVars, hurried>>

Manager == INSTANCE SnapshotSource

MainSteps == {"starting_manager", "starting_listener", "reporting", "waiting", "stopping",
              "signalling", "expecting", "looking", "cancelling", "joining", "stopping_manager",
              "finishing", "ended", "broken"}
ListenerSteps == {"unborn", "clearing", "naming", "looping", "connecting", "reading", "answering",
                  "replying", "closing", "raised", "leaving", "done"}
ClientSteps == {"idle", "sending", "receiving"}

TypeOK ==
    /\ scm \in {"start_pending", "running", "stop_pending", "stopped"}
    /\ main \in MainSteps
    /\ failures \in 0..1
    /\ status \in {"stopped", "starting", "running", "failed"}
    /\ latest \in Nat
    /\ fault \in BOOLEAN
    /\ listener \in ListenerSteps
    /\ stopEvent \in BOOLEAN
    /\ named \in BOOLEAN
    /\ attached \in Clients \cup {NoClient}
    /\ exchange \in {"none", "open", "request", "reply", "taken", "gone"}
    /\ client \in [Clients -> ClientSteps]
    /\ kills \in 0..MaxKills
    /\ hurried \in BOOLEAN

Init ==
    /\ scm = "start_pending" /\ main = "starting_manager" /\ failures = 0
    /\ Manager!Init
    /\ listener = "unborn" /\ stopEvent = FALSE /\ named = FALSE
    /\ attached = NoClient /\ exchange = "none"
    /\ client = [c \in Clients |-> "idle"] /\ kills = 0
    /\ hurried = FALSE

-----------------------------------------------------------------------------
(* The pipe: one instance, in one of these conditions.                       *)
(*   none    no instance          open    created, or a silent client on it  *)
(*   request a command was sent   reply   the answer waits to be read        *)
(*   taken   the answer was read  gone    the client died first              *)

(* The calls a cancellation finds: they wait for somebody else. *)
Blocked ==
    \/ listener = "connecting" /\ attached = NoClient
    \/ listener = "reading" /\ exchange = "open"
    \/ listener = "replying" /\ exchange = "reply"

Listen(pc) == listener' = pc /\ UNCHANGED <<stopEvent, named>>

-----------------------------------------------------------------------------
(* serve_forever: it forgets stops from before it ran, says which thread it  *)
(* is, and serves until the event is set or an exception gets out.           *)

ForgetStops ==
    /\ listener = "clearing"
    /\ stopEvent' = FALSE
    /\ listener' = "naming"
    /\ hurried' = (hurried \/ stopEvent)
    /\ UNCHANGED <<named, mainVars, managerVars, pipeVars, clientVars>>

NameThread ==
    /\ listener = "naming"
    /\ named' = TRUE
    /\ listener' = "looping"
    /\ UNCHANGED <<stopEvent, mainVars, managerVars, pipeVars, clientVars, hurried>>

CreatePipe ==
    /\ listener = "looping"
    /\ ~stopEvent
    /\ Listen("connecting")
    /\ exchange' = "open"
    /\ UNCHANGED <<attached, mainVars, managerVars, clientVars, hurried>>

SeeStop ==
    /\ listener = "looping"
    /\ stopEvent
    /\ Listen("leaving")
    /\ UNCHANGED <<mainVars, managerVars, pipeVars, clientVars, hurried>>

(* connect_server, read_frame and the write and flush of the answer: each    *)
(* goes on when the client has done its part and raises if it has died.      *)
Connect ==
    /\ listener = "connecting"
    /\ attached # NoClient
    /\ Listen(IF exchange = "gone" THEN "raised" ELSE "reading")
    /\ UNCHANGED <<mainVars, managerVars, pipeVars, clientVars, hurried>>

ReadRequest ==
    /\ listener = "reading"
    /\ exchange \in {"request", "gone"}
    /\ Listen(IF exchange = "gone" THEN "raised" ELSE "answering")
    /\ UNCHANGED <<mainVars, managerVars, pipeVars, clientVars, hurried>>

(* Mutant: a write to a dead client is taken for a success. *)
WriteAnyway ==
    /\ listener = "answering"
    /\ Listen("replying")
    /\ exchange' = "reply"
    /\ UNCHANGED <<attached, mainVars, managerVars, clientVars, hurried>>

WriteReply ==
    /\ listener = "answering"
    /\ IF exchange = "gone" THEN Listen("raised") /\ UNCHANGED exchange
                            ELSE Listen("replying") /\ exchange' = "reply"
    /\ UNCHANGED <<attached, mainVars, managerVars, clientVars, hurried>>

FlushReply ==
    /\ listener = "replying"
    /\ exchange \in {"taken", "gone"}
    /\ Listen(IF exchange = "gone" THEN "raised" ELSE "closing")
    /\ UNCHANGED <<mainVars, managerVars, pipeVars, clientVars, hurried>>

(* Mutant: serve_once is called only once. *)
CloseAndLeave ==
    /\ listener \in {"closing", "raised"}
    /\ attached' = NoClient
    /\ exchange' = "none"
    /\ Listen("leaving")
    /\ UNCHANGED <<mainVars, managerVars, clientVars, hurried>>

(* Mutant: after an exception the client is not disconnected. *)
CloseNothing ==
    /\ listener \in {"closing", "raised"}
    /\ IF listener = "closing"
          THEN attached' = NoClient /\ exchange' = "none" /\ Listen("looping")
          ELSE UNCHANGED pipeVars /\ Listen("leaving")
    /\ UNCHANGED <<mainVars, managerVars, clientVars, hurried>>

(* Both finally blocks disconnect the client and close the pipe.  After an   *)
(* exception the listener ends, quietly or not as the event is set or not.   *)
ClosePipe ==
    /\ listener \in {"closing", "raised"}
    /\ attached' = NoClient
    /\ exchange' = "none"
    /\ Listen(IF listener = "closing" THEN "looping" ELSE "leaving")
    /\ UNCHANGED <<mainVars, managerVars, clientVars, hurried>>

LeaveListener ==
    /\ listener = "leaving"
    /\ named' = FALSE
    /\ listener' = "done"
    /\ UNCHANGED <<stopEvent, mainVars, managerVars, pipeVars, clientVars, hurried>>

Listener ==
    \/ ForgetStops \/ NameThread \/ CreatePipe \/ SeeStop \/ Connect \/ ReadRequest \/ WriteReply
    \/ FlushReply \/ ClosePipe \/ LeaveListener

-----------------------------------------------------------------------------
(* TelemetryPipeClient, one request on one thread of the Agent.  A client    *)
(* that finds no free pipe in time gives up and changes nothing.             *)

OpenPipe(c) ==
    /\ client[c] = "idle"
    /\ attached = NoClient
    /\ exchange = "open"
    /\ attached' = c
    /\ client' = [client EXCEPT ![c] = "sending"]
    /\ UNCHANGED <<exchange, kills, mainVars, managerVars, serverVars, hurried>>

SendRequest(c) ==
    /\ client[c] = "sending"
    /\ attached = c
    /\ exchange' = "request"
    /\ client' = [client EXCEPT ![c] = "receiving"]
    /\ UNCHANGED <<attached, kills, mainVars, managerVars, serverVars, hurried>>

ReadReply(c) ==
    /\ client[c] = "receiving"
    /\ attached = c
    /\ exchange = "reply"
    /\ exchange' = "taken"
    /\ client' = [client EXCEPT ![c] = "idle"]
    /\ UNCHANGED <<attached, kills, mainVars, managerVars, serverVars, hurried>>

(* The service closed the pipe under it: an IPC error, "unavailable". *)
LoseService(c) ==
    /\ client[c] \in {"sending", "receiving"}
    /\ attached # c
    /\ client' = [client EXCEPT ![c] = "idle"]
    /\ UNCHANGED <<kills, mainVars, managerVars, serverVars, pipeVars, hurried>>

(* The Agent is killed or crashes with a request in flight. *)
ClientDies(c) ==
    /\ kills < MaxKills
    /\ attached = c
    /\ client[c] # "idle"
    /\ client' = [client EXCEPT ![c] = "idle"]
    /\ exchange' = "gone"
    /\ kills' = kills + 1
    /\ UNCHANGED <<attached, mainVars, managerVars, serverVars, hurried>>

Client(c) == SendRequest(c) \/ ReadReply(c) \/ LoseService(c)

-----------------------------------------------------------------------------
(* The manager's own progress.  Unless its provider fails to open, it ends   *)
(* once its stop() has been called; then closing may be what fails.          *)
ManagerRuns ==
    /\ \/ Manager!Run
       \/ latest = 0 /\ Manager!Publish
       \/ (status = "starting" \/ main = "stopping_manager") /\ Manager!Break
       \/ (fault \/ main = "stopping_manager") /\ Manager!End
    /\ UNCHANGED <<mainVars, serverVars, pipeVars, clientVars, hurried>>

-----------------------------------------------------------------------------
(* _service_main and TelemetryServiceRuntime, on one thread.                 *)

Go(pc) == main' = pc /\ UNCHANGED <<scm, failures>>

(* An exception: the first is caught and runtime.stop() is called (again),   *)
(* which skips the listener if it never began or was joined; one more leaves *)
(* nobody to report STOPPED.                                                 *)
Raise(retry) ==
    /\ failures' = failures + 1
    /\ main' = IF failures = 0 THEN retry ELSE "broken"
    /\ UNCHANGED scm

StartManager ==
    /\ main = "starting_manager"
    /\ \/ Manager!Begin /\ Go("starting_listener")
       \/ Manager!Refuse /\ Raise("stopping_manager")
    /\ UNCHANGED <<serverVars, pipeVars, clientVars, hurried>>

StartListener ==
    /\ main = "starting_listener"
    /\ \/ Listen("clearing") /\ Go("reporting")
       \/ Raise("stopping_manager") /\ UNCHANGED serverVars
    /\ UNCHANGED <<managerVars, pipeVars, clientVars, hurried>>

ReportRunning ==
    /\ main = "reporting"
    /\ scm' = "running" /\ main' = "waiting"
    /\ UNCHANGED <<failures, managerVars, serverVars, pipeVars, clientVars, hurried>>

(* The service control manager asks for a stop or announces a shutdown. *)
StopControl ==
    /\ main = "waiting"
    /\ Go("stopping")
    /\ UNCHANGED <<managerVars, serverVars, pipeVars, clientVars, hurried>>

ReportStopPending ==
    /\ main = "stopping"
    /\ scm' = "stop_pending" /\ main' = "signalling"
    /\ UNCHANGED <<failures, managerVars, serverVars, pipeVars, clientVars, hurried>>

(* TelemetryPipeServer.stop *)

SignalListener ==
    /\ main = "signalling"
    /\ stopEvent' = TRUE
    /\ Go("expecting")
    /\ UNCHANGED <<listener, named, managerVars, pipeVars, clientVars, hurried>>

(* _ready.wait: until the listener has named itself or a second has passed. *)
ExpectListener ==
    /\ main = "expecting"
    /\ hurried' = (hurried \/ ~(named \/ listener = "done"))
    /\ Go("looking")
    /\ UNCHANGED <<managerVars, serverVars, pipeVars, clientVars>>

(* Mutant: the blocked call is not cancelled. *)
LookOnly ==
    /\ main = "looking"
    /\ Go("joining")
    /\ UNCHANGED <<managerVars, serverVars, pipeVars, clientVars, hurried>>

(* The head of the loop: the thread id, read for the first time. *)
LookAtListener ==
    /\ main = "looking"
    /\ \/ named /\ Go("cancelling") /\ UNCHANGED hurried
       \/ Go("joining") /\ hurried' = (hurried \/ named)
    /\ UNCHANGED <<managerVars, serverVars, pipeVars, clientVars>>

(* Its body reads the id again: by now the listener may have left.           *)
CancelListener ==
    /\ main = "cancelling"
    /\ \/ ~named /\ Raise("signalling") /\ UNCHANGED serverVars
       \/ named /\ Blocked /\ Listen("raised") /\ Go("looking")
       \/ named /\ ~Blocked /\ Go("looking") /\ UNCHANGED serverVars
    /\ UNCHANGED <<managerVars, pipeVars, clientVars, hurried>>

JoinListener ==
    /\ main = "joining"
    /\ listener = "done"
    /\ Go("stopping_manager")
    /\ UNCHANGED <<managerVars, serverVars, pipeVars, clientVars, hurried>>

(* TelemetryManager.stop returns when its worker has ended. *)
JoinManager ==
    /\ main = "stopping_manager"
    /\ status \in {"stopped", "failed"}
    /\ Go("finishing")
    /\ UNCHANGED <<managerVars, serverVars, pipeVars, clientVars, hurried>>

ReportStopped ==
    /\ main = "finishing"
    /\ scm' = "stopped" /\ main' = "ended"
    /\ UNCHANGED <<failures, managerVars, serverVars, pipeVars, clientVars, hurried>>

Main ==
    \/ StartManager \/ StartListener \/ ReportRunning \/ ReportStopPending \/ SignalListener
    \/ ExpectListener \/ LookAtListener \/ CancelListener \/ JoinListener \/ JoinManager
    \/ ReportStopped

Next ==
    \/ Main \/ StopControl \/ Listener \/ ManagerRuns
    \/ \E c \in Clients : Client(c) \/ OpenPipe(c) \/ ClientDies(c)

Spec == Init /\ [][Next]_vars

(* The threads of the service run, the provider's calls return, and a client *)
(* in an exchange goes on with it.  Nobody has to ask or to stop anything.   *)
Fairness ==
    /\ WF_vars(Main) /\ WF_vars(Listener) /\ WF_vars(ManagerRuns)
    /\ \A c \in Clients : WF_vars(Client(c))

FairSpec == Spec /\ Fairness

-----------------------------------------------------------------------------
(* When STOPPED is reported nothing is left behind: the listener has ended,  *)
(* no pipe is open and the manager's worker is gone, also when stopping the  *)
(* listener raised and runtime.stop() ran a second time (windows.py 125).    *)
StoppedIsClean ==
    scm = "stopped" => /\ listener \in {"unborn", "done"}
                       /\ attached = NoClient /\ exchange = "none"
                       /\ status \in {"stopped", "failed"}

(* However the listener's end races with the cancelling of its calls, at     *)
(* most one exception comes out of it, and that one is caught: STOPPED never *)
(* goes unreported (windows.py 125-129).                                     *)
AlwaysReports == main # "broken"

(* An answer in the pipe is awaited by the client that asked: sequential     *)
(* clients, deaths and cancellations never hand one client another's reply.  *)
RepliesAreAwaited == exchange = "reply" => attached # NoClient /\ client[attached] = "receiving"

Leaving == listener \in {"raised", "leaving", "done"}
BeingStopped ==
    main \in {"signalling", "expecting", "looking", "cancelling", "joining", "stopping_manager",
              "finishing", "ended", "broken"}

(* While no client has died the listener leaves its loop only because it is  *)
(* being stopped, and then the event is set unless it forgot it               *)
(* (server.py 45-57).                                                        *)
ServesUntilStopped == kills = 0 /\ Leaving => BeingStopped /\ (stopEvent \/ hurried)

(* What ServiceStops rests on: by the time stop() joins the listener, it has *)
(* cancelled every call that could hold it, unless a wait was too short      *)
(* (server.py 64-70).                                                        *)
JoinIsShort == main = "joining" => listener = "done" \/ hurried

(* server.py 47: it accepts requests until stop cancels it, whichever client *)
(* dies in the middle of one.                                                *)
ServesPastDeaths == Leaving => BeingStopped

(* Once it is asked to stop, the service reports STOPPED, whatever the       *)
(* listener is blocked in and whichever client is in the middle of a request,*)
(* unless one of the one-second waits of server.py 66-68 was too short.      *)
ServiceStops == main = "stopping" ~> scm = "stopped" \/ hurried

(* What RequestsEnd rests on: a client that waits for its answer finds its   *)
(* pipe closed or the answer in it, or the listener is at a step for its     *)
(* request that nothing blocks.  The two ends never wait for each other      *)
(* (server.py 72-94, client.py 34-40).                                       *)
EndsTakeTurns ==
    \A c \in Clients : client[c] = "receiving" =>
        \/ attached # c \/ exchange = "reply"
        \/ ~Blocked /\ listener \in {"connecting", "reading", "answering", "replying", "closing", "raised"}

(* A request of the Agent ends with an answer or an error: the listener's    *)
(* end, like its cancellation, reaches every client that waits.              *)
RequestsEnd == \A c \in Clients : client[c] # "idle" ~> client[c] = "idle"
=============================================================================
