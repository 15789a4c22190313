----------------------- MODULE TelemetryServiceProofs -----------------------
(***************************************************************************)
(* Proofs about TelemetryService for any set of clients, any number of     *)
(* client deaths, and waits of stop() that may be too short.               *)
(***************************************************************************)
EXTENDS TelemetryService, TLAPS

(* What the pipe holds follows from who is at its ends.                      *)
PipeInv ==
    /\ exchange \in {"request", "reply"} => attached # NoClient /\ client[attached] = "receiving"
    /\ attached # NoClient /\ client[attached] = "sending" => exchange = "open"
    /\ listener = "answering" => exchange \in {"request", "gone"}
    /\ listener \in {"unborn", "clearing", "naming", "looping", "leaving", "done"}
          => attached = NoClient /\ exchange = "none"

(* How far the listener can be when the main thread is where it is.          *)
ListenerInv ==
    /\ named <=> listener \notin {"unborn", "clearing", "naming", "done"}
    /\ main \in {"starting_manager", "starting_listener"} => listener = "unborn"
    /\ main = "cancelling" => named \/ listener = "done"
    /\ main \in {"stopping_manager", "finishing", "ended"} => listener \in {"unborn", "done"}

(* An exception is behind it only on the two ways it can be survived.        *)
FailureInv ==
    /\ failures = 1 => \/ main \in {"stopping_manager", "finishing", "ended"}
                       \/ main \in {"signalling", "expecting", "looking", "joining"} /\ listener = "done"
    /\ main # "broken"

ReportInv ==
    /\ main \in {"finishing", "ended"} => status \in {"stopped", "failed"}
    /\ scm = "stopped" => main = "ended"

IInv == TypeOK /\ PipeInv /\ ListenerInv /\ FailureInv /\ ReportInv

LEMMA InitIInv == Init => IInv
<1> SUFFICES ASSUME Init PROVE IInv
  OBVIOUS
<1> USE DEF Init, Manager!Init
<1>1. TypeOK
  <2>1. client \in [Clients -> ClientSteps]
    BY DEF ClientSteps
  <2>2. failures \in 0..1 /\ kills \in 0..MaxKills /\ latest \in Nat
    BY MaxKillsAssumption
  <2>3. QED
    BY <2>1, <2>2 DEF TypeOK, MainSteps, ListenerSteps
<1>2. PipeInv /\ ListenerInv
  BY NoClientAssumption DEF PipeInv, ListenerInv
<1>3. FailureInv /\ ReportInv
  BY DEF FailureInv, ReportInv
<1>4. QED
  BY <1>1, <1>2, <1>3 DEF IInv

LEMMA TypeStep == IInv /\ [Next]_vars => TypeOK'
<1> SUFFICES ASSUME IInv, [Next]_vars PROVE TypeOK'
  OBVIOUS
<1> USE NoClientAssumption, MaxKillsAssumption
    DEF TypeOK, MainSteps, ListenerSteps, ClientSteps, mainVars, managerVars, serverVars, pipeVars,
        clientVars
<1>1. CASE UNCHANGED vars
  BY <1>1 DEF IInv, vars
<1>2. CASE Listener
  <2>1. UNCHANGED <<scm, main, failures, status, latest, fault, client, kills>>
    BY <1>2 DEF Listener, ForgetStops, NameThread, CreatePipe, SeeStop, Connect, ReadRequest,
                WriteReply, FlushReply, ClosePipe, LeaveListener
  <2>2. /\ listener' \in ListenerSteps /\ stopEvent' \in BOOLEAN /\ named' \in BOOLEAN
        /\ attached' \in {attached, NoClient} /\ exchange' \in {exchange, "open", "reply", "none"}
        /\ hurried' \in BOOLEAN
    BY <1>2 DEF IInv, Listener, ForgetStops, NameThread, CreatePipe, SeeStop, Connect, ReadRequest,
                WriteReply, FlushReply, ClosePipe, LeaveListener, Listen
  <2>3. QED
    BY <2>1, <2>2 DEF IInv
<1>3. CASE \E c \in Clients : Client(c) \/ OpenPipe(c) \/ ClientDies(c)
  BY <1>3 DEF IInv, Client, SendRequest, ReadReply, LoseService, OpenPipe, ClientDies
<1>4. CASE ManagerRuns
  <2>1. UNCHANGED <<mainVars, serverVars, pipeVars, clientVars, hurried>>
    BY <1>4 DEF ManagerRuns
  <2>2. /\ status' \in {"stopped", "starting", "running", "failed"}
        /\ latest' \in Nat /\ fault' \in BOOLEAN
    <3>1. Manager!Run \/ Manager!Publish \/ Manager!Break \/ Manager!End
      BY <1>4 DEF ManagerRuns
    <3>2. status \in {"stopped", "starting", "running", "failed"} /\ latest \in Nat /\ fault \in BOOLEAN
      BY DEF IInv
    <3>3. status' \in {"stopped", "starting", "running", "failed"}
      BY <3>1, <3>2 DEF Manager!Run, Manager!Publish, Manager!Break, Manager!End
    <3>4. latest' \in Nat
      BY <3>1, <3>2 DEF Manager!Run, Manager!Publish, Manager!Break, Manager!End
    <3>5. fault' \in BOOLEAN
      BY <3>1, <3>2 DEF Manager!Run, Manager!Publish, Manager!Break, Manager!End
    <3>6. QED
      BY <3>3, <3>4, <3>5
  <2>3. QED
    BY <2>1, <2>2 DEF IInv
<1>5. CASE StopControl \/ ReportRunning \/ ReportStopPending \/ SignalListener \/ ExpectListener
           \/ LookAtListener \/ JoinListener \/ JoinManager \/ ReportStopped
  <2>1. UNCHANGED <<failures, status, latest, fault, listener, named, attached, exchange, client, kills>>
    BY <1>5 DEF StopControl, ReportRunning, ReportStopPending, SignalListener, ExpectListener,
                LookAtListener, JoinListener, JoinManager, ReportStopped, Go
  <2>2. /\ main' \in MainSteps /\ scm' \in {scm, "running", "stop_pending", "stopped"}
        /\ stopEvent' \in BOOLEAN /\ hurried' \in BOOLEAN
    BY <1>5 DEF IInv, StopControl, ReportRunning, ReportStopPending, SignalListener, ExpectListener,
                LookAtListener, JoinListener, JoinManager, ReportStopped, Go
  <2>3. QED
    BY <2>1, <2>2 DEF IInv
<1>6. CASE StartManager \/ StartListener
  <2>1. failures = 0
    BY <1>6 DEF IInv, FailureInv, StartManager, StartListener
  <2>2. QED
    BY <1>6, <2>1 DEF IInv, StartManager, StartListener, Manager!Begin, Manager!Refuse, Manager!Off, Go, Raise, Listen
<1>7. CASE CancelListener
  <2>1. failures = 0
    BY <1>7 DEF IInv, FailureInv, CancelListener
  <2>2. QED
    BY <1>7, <2>1 DEF IInv, CancelListener, Go, Raise, Listen
<1>8. QED
  BY <1>1, <1>2, <1>3, <1>4, <1>5, <1>6, <1>7 DEF Next, Main

LEMMA PipeStep == IInv /\ [Next]_vars => PipeInv'
<1> SUFFICES ASSUME IInv, [Next]_vars PROVE PipeInv'
  OBVIOUS
<1> USE NoClientAssumption
    DEF IInv, TypeOK, PipeInv, ListenerSteps, ClientSteps, mainVars, managerVars, serverVars, pipeVars,
        clientVars
<1>1. CASE UNCHANGED vars
  BY <1>1 DEF vars
<1>2. CASE Listener
  BY <1>2 DEF Listener, ForgetStops, NameThread, CreatePipe, SeeStop, Connect, ReadRequest,
              WriteReply, FlushReply, ClosePipe, LeaveListener, Listen
<1>3. ASSUME NEW c \in Clients, Client(c) \/ OpenPipe(c) \/ ClientDies(c) PROVE PipeInv'
  BY <1>3 DEF Client, SendRequest, ReadReply, LoseService, OpenPipe, ClientDies
<1>4. CASE ManagerRuns \/ StartManager
  BY <1>4 DEF ManagerRuns, StartManager
<1>5. CASE StopControl \/ ReportRunning \/ ReportStopPending \/ SignalListener \/ ExpectListener
           \/ LookAtListener \/ JoinListener \/ JoinManager \/ ReportStopped
  BY <1>5 DEF StopControl, ReportRunning, ReportStopPending, SignalListener, ExpectListener,
              LookAtListener, JoinListener, JoinManager, ReportStopped
<1>6. CASE StartListener
  BY <1>6 DEF ListenerInv, StartListener, Listen
<1>7. CASE CancelListener
  BY <1>7 DEF CancelListener, Listen
<1>8. QED
  BY <1>1, <1>2, <1>3, <1>4, <1>5, <1>6, <1>7 DEF Next, Main

LEMMA StopStep == IInv /\ [Next]_vars => ListenerInv' /\ FailureInv' /\ ReportInv'
<1> SUFFICES ASSUME IInv, [Next]_vars PROVE ListenerInv' /\ FailureInv' /\ ReportInv'
  OBVIOUS
<1> USE DEF IInv, TypeOK, ListenerInv, FailureInv, ReportInv, MainSteps, ListenerSteps, mainVars,
            managerVars, serverVars, pipeVars, clientVars
<1>1. CASE UNCHANGED vars
  BY <1>1 DEF vars
<1>2. CASE Listener
  BY <1>2 DEF Listener, ForgetStops, NameThread, CreatePipe, SeeStop, Connect, ReadRequest,
              WriteReply, FlushReply, ClosePipe, LeaveListener, Listen
<1>3. CASE \E c \in Clients : Client(c) \/ OpenPipe(c) \/ ClientDies(c)
  BY <1>3 DEF Client, SendRequest, ReadReply, LoseService, OpenPipe, ClientDies
<1>4. CASE ManagerRuns
  BY <1>4 DEF ManagerRuns, Manager!Run, Manager!Publish, Manager!Break, Manager!End, Manager!Off
<1>5. CASE StopControl \/ ReportRunning \/ ReportStopPending \/ SignalListener \/ ExpectListener
  BY <1>5 DEF StopControl, ReportRunning, ReportStopPending, SignalListener, ExpectListener, Go
<1>6. CASE LookAtListener \/ JoinListener \/ JoinManager \/ ReportStopped
  BY <1>6 DEF LookAtListener, JoinListener, JoinManager, ReportStopped, Go
<1>7. CASE StartManager \/ StartListener
  BY <1>7 DEF StartManager, StartListener, Go, Raise, Listen
<1>8. CASE CancelListener
  BY <1>8 DEF CancelListener, Go, Raise, Listen, Blocked
<1>9. QED
  BY <1>1, <1>2, <1>3, <1>4, <1>5, <1>6, <1>7, <1>8 DEF Next, Main

LEMMA Invariance == Spec => []IInv
<1>1. IInv /\ [Next]_vars => IInv'
  BY TypeStep, PipeStep, StopStep DEF IInv
<1>2. QED
  BY InitIInv, <1>1, PTL DEF Spec

(* Every variable keeps its type; at most one exception is ever caught.      *)
THEOREM ServiceTypeCorrect == Spec => []TypeOK
<1>1. IInv => TypeOK
  BY DEF IInv
<1>2. QED
  BY Invariance, <1>1, PTL

(* A service that says STOPPED has nothing running and no pipe open.         *)
THEOREM StoppedLeavesNothing == Spec => []StoppedIsClean
<1>1. IInv => StoppedIsClean
  BY DEF IInv, PipeInv, ListenerInv, ReportInv, StoppedIsClean
<1>2. QED
  BY Invariance, <1>1, PTL

(* The race between the listener's end and its cancellation costs at most    *)
(* one exception, which _service_main catches.                               *)
THEOREM StopIsReported == Spec => []AlwaysReports
<1>1. IInv => AlwaysReports
  BY DEF IInv, FailureInv, AlwaysReports
<1>2. QED
  BY Invariance, <1>1, PTL

(* An answer in the pipe always has the client that asked waiting for it.    *)
THEOREM RepliesReachTheirClient == Spec => []RepliesAreAwaited
<1>1. IInv => RepliesAreAwaited
  BY DEF IInv, PipeInv, RepliesAreAwaited
<1>2. QED
  BY Invariance, <1>1, PTL

(* How the listener comes to leave: a call of it fails only for a client that *)
(* has died or because the main thread cancels it, the event is set by nobody *)
(* but the main thread, and taken back by nobody but a listener that begins.  *)
StopInv ==
    /\ kills = 0 => exchange # "gone"
    /\ stopEvent => BeingStopped
    /\ main \in {"expecting", "looking", "cancelling", "joining"} => stopEvent \/ hurried
    /\ ServesUntilStopped

LEMMA StopInvStep == IInv /\ StopInv /\ [Next]_vars => StopInv'
<1> SUFFICES ASSUME IInv, StopInv, [Next]_vars PROVE StopInv'
  OBVIOUS
<1> USE DEF IInv, TypeOK, StopInv, ServesUntilStopped, Leaving, BeingStopped, mainVars, managerVars,
            serverVars, pipeVars, clientVars
<1>1. CASE UNCHANGED vars
  BY <1>1 DEF vars
<1>2. CASE Listener
  BY <1>2 DEF Listener, ForgetStops, NameThread, CreatePipe, SeeStop, Connect, ReadRequest,
              WriteReply, FlushReply, ClosePipe, LeaveListener, Listen
<1>3. CASE \E c \in Clients : Client(c) \/ OpenPipe(c) \/ ClientDies(c)
  BY <1>3 DEF Client, SendRequest, ReadReply, LoseService, OpenPipe, ClientDies
<1>4. CASE ManagerRuns
  BY <1>4 DEF ManagerRuns
<1>5. CASE StopControl \/ ReportRunning \/ ReportStopPending \/ SignalListener \/ ExpectListener
  BY <1>5 DEF StopControl, ReportRunning, ReportStopPending, SignalListener, ExpectListener, Go
<1>6. CASE LookAtListener \/ JoinListener \/ JoinManager \/ ReportStopped
  BY <1>6 DEF LookAtListener, JoinListener, JoinManager, ReportStopped, Go
<1>7. CASE StartManager \/ StartListener
  BY <1>7 DEF ListenerInv, StartManager, StartListener, Go, Raise, Listen
<1>8. CASE CancelListener
  BY <1>8 DEF CancelListener, Go, Raise, Listen
<1>9. QED
  BY <1>1, <1>2, <1>3, <1>4, <1>5, <1>6, <1>7, <1>8 DEF Next, Main

(* As long as no client has died the listener serves until it is stopped, and *)
(* when it leaves, the event is set or it has forgotten that it was.          *)
THEOREM ListenerServes == Spec => []ServesUntilStopped
<1>1. Init => StopInv
  BY DEF Init, StopInv, ServesUntilStopped, Leaving
<1>2. StopInv => ServesUntilStopped
  BY DEF StopInv
<1>3. QED
  BY Invariance, StopInvStep, <1>1, <1>2, PTL DEF Spec

-----------------------------------------------------------------------------
(* The main thread goes past the wait for the ready event only with a        *)
(* listener that has named itself or ended, and leaves the loop of           *)
(* cancellations only when it has ended.                                     *)
JoinInv ==
    /\ main \in {"looking", "cancelling"} => named \/ listener = "done" \/ hurried
    /\ JoinIsShort

(* stop() never waits for a listener that is blocked in a call, whatever     *)
(* clients do and die of, unless one of its waits was too short.             *)
THEOREM JoinsAreShort == Spec => []JoinIsShort
<1>1. Init => JoinInv
  BY DEF Init, JoinInv, JoinIsShort
<1>2. JoinInv => JoinIsShort
  BY DEF JoinInv
<1>3. IInv /\ JoinInv /\ [Next]_vars => JoinInv'
  <2> SUFFICES ASSUME IInv, JoinInv, [Next]_vars PROVE JoinInv'
    OBVIOUS
  <2> USE DEF IInv, TypeOK, ListenerInv, FailureInv, JoinInv, JoinIsShort, mainVars, managerVars,
              serverVars, pipeVars, clientVars
  <2>1. CASE Listener
    BY <2>1 DEF Listener, ForgetStops, NameThread, CreatePipe, SeeStop, Connect, ReadRequest,
                WriteReply, FlushReply, ClosePipe, LeaveListener, Listen
  <2>2. CASE \E c \in Clients : Client(c) \/ OpenPipe(c) \/ ClientDies(c)
    BY <2>2 DEF Client, SendRequest, ReadReply, LoseService, OpenPipe, ClientDies
  <2>3. CASE ManagerRuns \/ UNCHANGED vars
    BY <2>3 DEF ManagerRuns, vars
  <2>4. CASE StopControl \/ ReportRunning \/ ReportStopPending \/ SignalListener \/ ExpectListener
    BY <2>4 DEF StopControl, ReportRunning, ReportStopPending, SignalListener, ExpectListener, Go
  <2>5. CASE LookAtListener \/ JoinListener \/ JoinManager \/ ReportStopped
    BY <2>5 DEF LookAtListener, JoinListener, JoinManager, ReportStopped, Go
  <2>6. CASE StartManager \/ StartListener
    BY <2>6 DEF StartManager, StartListener, Go, Raise, Listen
  <2>7. CASE CancelListener
    BY <2>7 DEF CancelListener, Go, Raise, Listen, Blocked
  <2>8. QED
    BY <2>1, <2>2, <2>3, <2>4, <2>5, <2>6, <2>7 DEF Next, Main
<1>4. QED
  BY <1>1, <1>2, <1>3, Invariance, PTL DEF Spec

-----------------------------------------------------------------------------
(* What is in the pipe while its client waits for the answer, and after the  *)
(* listener has written one.                                                 *)
TurnInv ==
    /\ attached # NoClient /\ client[attached] = "receiving" => exchange \in {"request", "reply"}
    /\ listener \in {"replying", "closing"} => exchange \in {"reply", "taken", "gone"}

(* The listener and a client at the other end of its pipe never wait for     *)
(* each other, whoever dies or is cancelled: the safety that RequestsEnd     *)
(* rests on.                                                                 *)
THEOREM NoEndWaitsInVain == Spec => []EndsTakeTurns
<1>1. Init => TurnInv
  BY DEF Init, TurnInv
<1>2. IInv /\ TurnInv => EndsTakeTurns
  BY NoClientAssumption DEF IInv, TypeOK, PipeInv, TurnInv, EndsTakeTurns, Blocked, ListenerSteps
<1>3. IInv /\ TurnInv /\ [Next]_vars => TurnInv'
  <2> SUFFICES ASSUME IInv, TurnInv, [Next]_vars PROVE TurnInv'
    OBVIOUS
  <2> USE NoClientAssumption
      DEF IInv, TypeOK, PipeInv, TurnInv, mainVars, managerVars, serverVars, pipeVars, clientVars
  <2>1. CASE Listener
    BY <2>1 DEF Listener, ForgetStops, NameThread, CreatePipe, SeeStop, Connect, ReadRequest,
                WriteReply, FlushReply, ClosePipe, LeaveListener, Listen
  <2>2. ASSUME NEW c \in Clients, Client(c) \/ OpenPipe(c) \/ ClientDies(c) PROVE TurnInv'
    BY <2>2 DEF Client, SendRequest, ReadReply, LoseService, OpenPipe, ClientDies
  <2>3. CASE ManagerRuns \/ StartManager \/ UNCHANGED vars
    BY <2>3 DEF ManagerRuns, StartManager, vars
  <2>4. CASE StopControl \/ ReportRunning \/ ReportStopPending \/ SignalListener \/ ExpectListener
    BY <2>4 DEF StopControl, ReportRunning, ReportStopPending, SignalListener, ExpectListener
  <2>5. CASE LookAtListener \/ JoinListener \/ JoinManager \/ ReportStopped
    BY <2>5 DEF LookAtListener, JoinListener, JoinManager, ReportStopped
  <2>6. CASE StartListener \/ CancelListener
    BY <2>6 DEF StartListener, CancelListener, Listen
  <2>7. QED
    BY <2>1, <2>2, <2>3, <2>4, <2>5, <2>6 DEF Next, Main
<1>4. QED
  BY <1>1, <1>2, <1>3, Invariance, PTL DEF Spec
=============================================================================
