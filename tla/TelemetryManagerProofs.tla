----------------------- MODULE TelemetryManagerProofs -----------------------
(***************************************************************************)
(* Proofs about TelemetryManager for any sets of callers and workers.      *)
(***************************************************************************)
EXTENDS TelemetryManager, TLAPS

(* _thread names the one active worker, and names nobody once it is done.    *)
ThreadIsTheWorker ==
    /\ \A w \in Workers : worker[w] \notin {"unborn", "done"} => thread = w
    /\ thread # NoWorker => worker[thread] \notin {"unborn", "done"}

IInv == TypeOK /\ ThreadIsTheWorker /\ StatusIsTrue /\ NoLostWakeup /\ latest = sequence

LEMMA InitIInv == Init => IInv
<1> SUFFICES ASSUME Init PROVE IInv
  OBVIOUS
<1> USE NoWorkerAssumption DEF Init
<1>1. TypeOK
  BY DEF TypeOK, Statuses, WorkerSteps, Activities, Idle, Doing
<1>2. ThreadIsTheWorker
  BY DEF ThreadIsTheWorker
<1>3. StatusIsTrue
  BY DEF StatusIsTrue
<1>4. NoLostWakeup
  BY DEF NoLostWakeup, Idle, Doing
<1>5. QED
  BY <1>1, <1>2, <1>3, <1>4 DEF IInv

LEMMA StepIInv == IInv /\ [Next]_vars => IInv'
<1> SUFFICES ASSUME IInv, [Next]_vars PROVE IInv'
  OBVIOUS
<1> USE NoWorkerAssumption
    DEF IInv, TypeOK, ThreadIsTheWorker, StatusIsTrue, NoLostWakeup, Statuses, WorkerSteps, Activities,
        Idle, Doing, Proceed, Notified, Settled
<1>1. CASE UNCHANGED vars
  BY <1>1 DEF vars
<1>2. ASSUME NEW c \in Callers, NEW w \in Workers, StartWorker(c, w) PROVE IInv'
  <2>1. TypeOK' /\ latest' = sequence'
    BY <1>2 DEF StartWorker, StartCanBegin, Alive
  <2>2. ThreadIsTheWorker'
    BY <1>2 DEF StartWorker, StartCanBegin, Alive
  <2>3. StatusIsTrue'
    BY <1>2 DEF StartWorker, StartCanBegin, Alive
  <2>4. NoLostWakeup'
    BY <1>2 DEF StartWorker, StartCanBegin, Alive
  <2>5. QED
    BY <2>1, <2>2, <2>3, <2>4
<1>3. ASSUME NEW c \in Callers, StartFails(c) PROVE IInv'
  <2>1. TypeOK' /\ latest' = sequence'
    BY <1>3 DEF StartFails, StartCanBegin, Alive
  <2>2. ThreadIsTheWorker'
    BY <1>3 DEF StartFails, StartCanBegin, Alive
  <2>3. StatusIsTrue'
    BY <1>3 DEF StartFails, StartCanBegin, Alive
  <2>4. NoLostWakeup'
    BY <1>3 DEF StartFails, StartCanBegin, Alive
  <2>5. QED
    BY <2>1, <2>2, <2>3, <2>4
<1>4. ASSUME NEW c \in Callers, StopReadsWorker(c) PROVE IInv'
  <2>1. TypeOK' /\ latest' = sequence'
    BY <1>4 DEF StopReadsWorker
  <2>2. ThreadIsTheWorker'
    BY <1>4 DEF StopReadsWorker
  <2>3. StatusIsTrue'
    BY <1>4 DEF StopReadsWorker
  <2>4. NoLostWakeup'
    BY <1>4 DEF StopReadsWorker
  <2>5. QED
    BY <2>1, <2>2, <2>3, <2>4
<1>5. ASSUME NEW c \in Callers, InStop(c) PROVE IInv'
  <2>0. caller' \in [Callers -> Activities]
    BY <1>5 DEF InStop, StopSignals, StopReturns
  <2>s. stopEvent' \in BOOLEAN
    BY <1>5 DEF InStop, StopSignals, StopReturns
  <2>1. TypeOK' /\ latest' = sequence'
    BY <1>5, <2>0, <2>s DEF InStop, StopSignals, StopReturns
  <2>2. ThreadIsTheWorker'
    BY <1>5 DEF InStop, StopSignals, StopReturns
  <2>3. StatusIsTrue'
    BY <1>5 DEF InStop, StopSignals, StopReturns
  <2>4. NoLostWakeup'
    BY <1>5 DEF InStop, StopSignals, StopReturns
  <2>5. QED
    BY <2>1, <2>2, <2>3, <2>4
<1>6. ASSUME NEW c \in Callers, WaitBegins(c) \/ WaitLooksAgain(c) PROVE IInv'
  <2>1. TypeOK' /\ latest' = sequence'
    BY <1>6 DEF WaitBegins, WaitLooksAgain
  <2>2. ThreadIsTheWorker'
    BY <1>6 DEF WaitBegins, WaitLooksAgain
  <2>3. StatusIsTrue'
    BY <1>6 DEF WaitBegins, WaitLooksAgain
  <2>4. NoLostWakeup'
    BY <1>6 DEF WaitBegins, WaitLooksAgain
  <2>5. QED
    BY <2>1, <2>2, <2>3, <2>4
<1>7. ASSUME NEW w \in Workers, OpenProvider(w) PROVE IInv'
  <2>1. TypeOK' /\ latest' = sequence'
    BY <1>7 DEF OpenProvider
  <2>2. ThreadIsTheWorker'
    BY <1>7 DEF OpenProvider
  <2>3. StatusIsTrue'
    BY <1>7 DEF OpenProvider
  <2>4. NoLostWakeup'
    BY <1>7 DEF OpenProvider
  <2>5. QED
    BY <2>1, <2>2, <2>3, <2>4
<1>8. ASSUME NEW w \in Workers, EnterRunning(w) PROVE IInv'
  <2>1. TypeOK' /\ latest' = sequence'
    BY <1>8 DEF EnterRunning
  <2>2. ThreadIsTheWorker'
    BY <1>8 DEF EnterRunning
  <2>3. StatusIsTrue'
    BY <1>8 DEF EnterRunning
  <2>4. NoLostWakeup'
    BY <1>8 DEF EnterRunning
  <2>5. QED
    BY <2>1, <2>2, <2>3, <2>4
<1>9. ASSUME NEW w \in Workers, Collect(w) PROVE IInv'
  <2>1. TypeOK' /\ latest' = sequence'
    BY <1>9 DEF Collect
  <2>2. ThreadIsTheWorker'
    BY <1>9 DEF Collect
  <2>3. StatusIsTrue'
    BY <1>9 DEF Collect
  <2>4. NoLostWakeup'
    BY <1>9 DEF Collect
  <2>5. QED
    BY <2>1, <2>2, <2>3, <2>4
<1>10. ASSUME NEW w \in Workers, Publish(w) PROVE IInv'
  <2>0. caller' \in [Callers -> Activities]
    BY <1>10 DEF Publish
  <2>1. TypeOK' /\ latest' = sequence'
    <3>1. worker' \in [Workers -> WorkerSteps] /\ latest' \in Nat /\ sequence' \in Nat
      BY <1>10 DEF Publish
    <3>2. lastError' \in BOOLEAN /\ latest' = sequence'
      BY <1>10 DEF Publish
    <3>3. QED
      BY <1>10, <2>0, <3>1, <3>2 DEF Publish
  <2>2. ThreadIsTheWorker'
    BY <1>10 DEF Publish
  <2>3. StatusIsTrue'
    BY <1>10 DEF Publish
  <2>4. NoLostWakeup'
    BY <1>10 DEF Publish
  <2>5. QED
    BY <2>1, <2>2, <2>3, <2>4
<1>11. ASSUME NEW w \in Workers, Pause(w) PROVE IInv'
  <2>1. TypeOK' /\ latest' = sequence'
    BY <1>11 DEF Pause
  <2>2. ThreadIsTheWorker'
    BY <1>11 DEF Pause
  <2>3. StatusIsTrue'
    BY <1>11 DEF Pause
  <2>4. NoLostWakeup'
    BY <1>11 DEF Pause
  <2>5. QED
    BY <2>1, <2>2, <2>3, <2>4
<1>12. ASSUME NEW w \in Workers, CloseProvider(w) PROVE IInv'
  <2>1. TypeOK' /\ latest' = sequence'
    BY <1>12 DEF CloseProvider
  <2>2. ThreadIsTheWorker'
    BY <1>12 DEF CloseProvider
  <2>3. StatusIsTrue'
    BY <1>12 DEF CloseProvider
  <2>4. NoLostWakeup'
    BY <1>12 DEF CloseProvider
  <2>5. QED
    BY <2>1, <2>2, <2>3, <2>4
<1>13. ASSUME NEW w \in Workers, Finish(w) PROVE IInv'
  <2>1. TypeOK' /\ latest' = sequence'
    BY <1>13 DEF Finish
  <2>2. ThreadIsTheWorker'
    BY <1>13 DEF Finish
  <2>3. StatusIsTrue'
    BY <1>13 DEF Finish
  <2>4. NoLostWakeup'
    BY <1>13 DEF Finish
  <2>5. QED
    BY <2>1, <2>2, <2>3, <2>4
<1>14. QED
  BY <1>1, <1>2, <1>3, <1>4, <1>5, <1>6, <1>7, <1>8, <1>9, <1>10, <1>11, <1>12, <1>13
  DEF Next, Run, Start

LEMMA Invariance == Spec => []IInv
  BY InitIInv, StepIInv, PTL DEF Spec

(* Every variable keeps its type. *)
THEOREM ManagerTypeCorrect == Spec => []TypeOK
<1>1. IInv => TypeOK
  BY DEF IInv
<1>2. QED
  BY Invariance, <1>1, PTL

(* However many threads start and stop the manager, and wherever the worker  *)
(* fails, the hardware provider has at most one user.                        *)
THEOREM ProviderHasOneUser == Spec => []OneWorker
<1>1. IInv => OneWorker
  BY DEF IInv, ThreadIsTheWorker, OneWorker, Active, UsesProvider
<1>2. QED
  BY Invariance, <1>1, PTL

(* The status never claims a worker that is not there, nor hides one.        *)
THEOREM StatusIsTruthful == Spec => []StatusIsTrue
<1>1. IInv => StatusIsTrue
  BY DEF IInv
<1>2. QED
  BY Invariance, <1>1, PTL

(* No reader sleeps through the event it waits for.                          *)
THEOREM NoWakeupIsLost == Spec => []NoLostWakeup
<1>1. IInv => NoLostWakeup
  BY DEF IInv
<1>2. QED
  BY Invariance, <1>1, PTL

(* A stop that a worker has still to see is never cleared by a start.        *)
THEOREM StopsAreNotForgotten == Spec => StopIsNotForgotten
<1>1. IInv /\ [Next]_vars => [stopEvent /\ ~stopEvent' => Active = {}]_vars
  <2> SUFFICES ASSUME IInv, Next, stopEvent, ~stopEvent' PROVE Active = {}
    OBVIOUS
  <2>1. PICK c \in Callers : StartCanBegin(c)
    BY DEF Next, Run, Start, InStop, OpenProvider, EnterRunning, Collect, Publish, Pause, CloseProvider,
           Finish, StartWorker, StartFails, StopReadsWorker, StopSignals, StopReturns, WaitBegins,
           WaitLooksAgain
  <2>2. \A w \in Workers : ~(thread = w /\ worker[w] # "done")
    BY <2>1 DEF StartCanBegin, Alive
  <2>3. QED
    BY <2>2 DEF IInv, ThreadIsTheWorker, Active
<1>2. QED
  BY Invariance, <1>1, PTL DEF Spec, StopIsNotForgotten

(* Whom stop() has read was started. *)
StopInv ==
    /\ \A c \in Callers : caller[c].pc \in {"signalling", "joining"} => worker[caller[c].worker] # "unborn"
    /\ StopIsSeen

(* A call of stop() never waits for a worker from which its signal was       *)
(* taken away.                                                               *)
THEOREM StopsAreSeen == Spec => []StopIsSeen
<1>1. Init => StopInv
  BY DEF Init, StopInv, StopIsSeen, Idle, Doing
<1>2. IInv /\ StopInv /\ [Next]_vars => StopInv'
  <2> SUFFICES ASSUME IInv, StopInv, [Next]_vars PROVE StopInv'
    OBVIOUS
  <2> USE DEF StopInv, StopIsSeen
  <2>t. /\ worker \in [Workers -> WorkerSteps] /\ caller \in [Callers -> Activities]
        /\ \A c \in Callers : caller[c].pc \in {"signalling", "joining"} => caller[c].worker \in Workers
    BY DEF IInv, TypeOK, Activities
  <2>n. \A c \in Callers : /\ Notified[c].pc \in {"signalling", "joining"} => Notified[c] = caller[c]
                            /\ Doing("awake", NoWorker).pc = "awake"
    BY DEF Notified, Doing
  <2>1. ASSUME NEW c \in Callers, Start(c) PROVE StopInv'
    <3>1. \A w \in Workers : worker[w] \in {"unborn", "done"}
      BY <2>1 DEF IInv, ThreadIsTheWorker, Start, StartWorker, StartFails, StartCanBegin, Alive
    <3>2. \A b \in Callers : caller[b].pc \in {"signalling", "joining"} => worker[caller[b].worker] = "done"
      BY <2>t, <3>1
    <3>3. \A w \in Workers : worker[w] = "done" => worker'[w] = "done"
      BY <2>t, <2>1 DEF Start, StartWorker, StartFails, Proceed
    <3>4. \A b \in Callers : caller'[b].pc \in {"signalling", "joining"} => caller'[b] = caller[b]
      BY <2>n, <2>1 DEF Start, StartWorker, StartFails
    <3>5. QED
      BY <2>t, <3>2, <3>3, <3>4
  <2>2. ASSUME NEW w \in Workers, Run(w) PROVE StopInv'
    <3>1. worker[w] \notin {"unborn", "done"} /\ \E pc \in WorkerSteps \ {"unborn"} : worker' = [worker EXCEPT ![w] = pc]
      BY <2>2 DEF Run, OpenProvider, EnterRunning, Collect, Publish, Pause, CloseProvider, Finish, Proceed,
                  WorkerSteps
    <3>2. stopEvent' = stopEvent
      BY <2>2 DEF Run, OpenProvider, EnterRunning, Collect, Publish, Pause, CloseProvider, Finish
    <3>3. \A b \in Callers : caller'[b].pc \in {"signalling", "joining"} => caller'[b] = caller[b]
      BY <2>n, <2>2 DEF Run, OpenProvider, EnterRunning, Collect, Publish, Pause, CloseProvider, Finish
    <3>4. QED
      BY <2>t, <3>1, <3>2, <3>3
  <2>3. ASSUME NEW c \in Callers, StopReadsWorker(c) PROVE StopInv'
    <3>1. worker[thread] # "unborn" /\ caller' = [caller EXCEPT ![c] = Doing("signalling", thread)]
      BY <2>3 DEF StopReadsWorker, IInv, ThreadIsTheWorker
    <3>2. UNCHANGED <<worker, stopEvent>>
      BY <2>3 DEF StopReadsWorker
    <3>3. QED
      BY <2>t, <3>1, <3>2 DEF Doing
  <2>4. ASSUME NEW c \in Callers, StopSignals(c) PROVE StopInv'
    BY <2>t, <2>4 DEF StopSignals, Doing
  <2>5. ASSUME NEW c \in Callers, StopReturns(c) \/ WaitBegins(c) \/ WaitLooksAgain(c) PROVE StopInv'
    <3>1. \E pc \in {"idle", "asleep"} : caller' = [caller EXCEPT ![c] = Doing(pc, NoWorker)]
      BY <2>5 DEF StopReturns, WaitBegins, WaitLooksAgain, Idle
    <3>2. UNCHANGED <<worker, stopEvent>>
      BY <2>5 DEF StopReturns, WaitBegins, WaitLooksAgain
    <3>3. QED
      BY <2>t, <3>1, <3>2 DEF Doing
  <2>6. CASE UNCHANGED vars
    BY <2>6 DEF vars
  <2>7. QED
    BY <2>1, <2>2, <2>3, <2>4, <2>5, <2>6 DEF Next, InStop
<1>3. StopInv => StopIsSeen
  BY DEF StopInv
<1>4. QED
  BY <1>1, <1>2, <1>3, Invariance, PTL DEF Spec

(* The status each point of _run has behind it: what start() wrote until     *)
(* open() returns, what EnterRunning wrote from then on.                     *)
StatusFollowsWorker ==
    \A w \in Workers :
        /\ worker[w] \in {"opening", "opened"} => status = "starting"
        /\ worker[w] \in {"checking", "publishing", "pausing", "closing"} => status = "running"
        /\ worker[w] = "finishing" => status = "running" \/ (status = "starting" /\ w \in fatal)

LEMMA StepStatusFollows ==
    IInv /\ StatusFollowsWorker /\ [Next]_vars => StatusFollowsWorker'
<1> SUFFICES ASSUME IInv, StatusFollowsWorker, [Next]_vars,
                    NEW v \in Workers
             PROVE  /\ worker'[v] \in {"opening", "opened"} => status' = "starting"
                    /\ worker'[v] \in {"checking", "publishing", "pausing", "closing"} => status' = "running"
                    /\ worker'[v] = "finishing" => status' = "running" \/ (status' = "starting" /\ v \in fatal')
  BY DEF StatusFollowsWorker
<1> USE NoWorkerAssumption DEF IInv, TypeOK, WorkerSteps, ThreadIsTheWorker, StatusFollowsWorker, Proceed
<1>1. CASE UNCHANGED vars
  BY <1>1 DEF vars
<1>2. ASSUME NEW c \in Callers, Start(c) PROVE worker[v] \in {"unborn", "done"}
  BY <1>2 DEF Start, StartWorker, StartFails, StartCanBegin, Alive
<1>3. ASSUME NEW c \in Callers, NEW w \in Workers, StartWorker(c, w)
      PROVE  worker'[v] \in {"unborn", "done", "opening"} /\ status' = "starting"
  BY <1>2, <1>3 DEF StartWorker, Start
<1>4. ASSUME NEW c \in Callers, StartFails(c) PROVE worker'[v] \in {"unborn", "done"}
  BY <1>2, <1>4 DEF StartFails, Start
<1>5. ASSUME NEW c \in Callers, InStop(c) \/ StopReadsWorker(c) \/ WaitBegins(c) \/ WaitLooksAgain(c)
      PROVE  UNCHANGED <<worker, status, fatal>>
  BY <1>5 DEF InStop, StopSignals, StopReturns, StopReadsWorker, WaitBegins, WaitLooksAgain
<1>6. ASSUME NEW w \in Workers, OpenProvider(w) \/ Collect(w) \/ Publish(w) \/ Pause(w) \/ CloseProvider(w)
      PROVE  /\ UNCHANGED status /\ fatal \subseteq fatal'
             /\ v # w => worker'[v] = worker[v]
             /\ worker[w] = "opening" => worker'[w] = "opened" \/ (worker'[w] = "finishing" /\ w \in fatal')
             /\ worker[w] # "opening" => status = "running" /\ worker'[w] \in {"publishing", "pausing", "checking", "closing", "finishing"}
  BY <1>6 DEF OpenProvider, Collect, Publish, Pause, CloseProvider
<1>7. ASSUME NEW w \in Workers, EnterRunning(w) \/ Finish(w)
      PROVE  v # w => worker'[v] \in {"unborn", "done"}
  BY <1>7 DEF EnterRunning, Finish
<1>8. ASSUME NEW w \in Workers, EnterRunning(w)
      PROVE  worker'[w] = "checking" /\ status' = "running"
  BY <1>8 DEF EnterRunning
<1>9. ASSUME NEW w \in Workers, Finish(w) PROVE worker'[w] = "done"
  BY <1>9 DEF Finish
<1>10. QED
  BY <1>1, <1>3, <1>4, <1>5, <1>6, <1>7, <1>8, <1>9 DEF Next, Run, Start

(* A worker that has a fatal error has failed to open or to close.           *)
OnlyStartedFail == \A w \in fatal : worker[w] \in {"finishing", "done"}

LEMMA StepOnlyStartedFail == IInv /\ OnlyStartedFail /\ [Next]_vars => OnlyStartedFail'
<1> SUFFICES ASSUME IInv, OnlyStartedFail, [Next]_vars PROVE OnlyStartedFail'
  OBVIOUS
<1> USE DEF IInv, TypeOK, OnlyStartedFail, Proceed
<1>1. CASE UNCHANGED vars
  BY <1>1 DEF vars
<1>2. ASSUME NEW w \in Workers, Run(w) PROVE OnlyStartedFail'
  BY <1>2 DEF Run, OpenProvider, EnterRunning, Collect, Publish, Pause, CloseProvider, Finish
<1>3. ASSUME NEW c \in Callers, Start(c) PROVE OnlyStartedFail'
  BY <1>3 DEF Start, StartWorker, StartFails
<1>4. ASSUME NEW c \in Callers, InStop(c) \/ StopReadsWorker(c) \/ WaitBegins(c) \/ WaitLooksAgain(c)
      PROVE  OnlyStartedFail'
  BY <1>4 DEF InStop, StopSignals, StopReturns, StopReadsWorker, WaitBegins, WaitLooksAgain
<1>5. QED
  BY <1>1, <1>2, <1>3, <1>4 DEF Next

(* What readers may know of the provider: the source's "fault".              *)
Fault == Active \cap fatal # {}

LEMMA StepImplementsSource ==
    IInv /\ StatusFollowsWorker /\ OnlyStartedFail /\ [Next]_vars => [Source!Next]_Source!vars
<1> SUFFICES ASSUME IInv, StatusFollowsWorker, OnlyStartedFail, [Next]_vars
             PROVE  Source!Next \/ UNCHANGED <<status, latest, Fault>>
  BY DEF Source!vars, Fault
<1> USE NoWorkerAssumption DEF IInv, TypeOK, WorkerSteps, Proceed
<1>1. CASE UNCHANGED vars
  BY <1>1 DEF vars, Fault, Active
<1>2. ASSUME NEW c \in Callers, Start(c) PROVE Source!Begin \/ Source!Refuse
  <2>1. status \in {"stopped", "failed"} /\ Active = {}
    BY <1>2 DEF Start, StartWorker, StartFails, StartCanBegin, Alive, StatusIsTrue, ThreadIsTheWorker,
                Active
  <2>2. ASSUME NEW w \in Workers, StartWorker(c, w) PROVE Active' = {w} /\ w \notin fatal /\ fatal' = fatal
    BY <2>1, <2>2 DEF StartWorker, Active, OnlyStartedFail
  <2>3. ASSUME StartFails(c) PROVE Active' = Active /\ fatal' = fatal
    BY <2>3 DEF StartFails, Active
  <2>4. ~Fault /\ ~Fault'
    BY <1>2, <2>1, <2>2, <2>3 DEF Start, Fault
  <2>5. QED
    BY <1>2, <2>1, <2>4 DEF Start, StartWorker, StartFails, Source!Begin, Source!Refuse, Source!Off, Fault
<1>3. ASSUME NEW c \in Callers, InStop(c) \/ StopReadsWorker(c) \/ WaitBegins(c) \/ WaitLooksAgain(c)
      PROVE  UNCHANGED <<status, latest, Fault>>
  <2>1. UNCHANGED <<status, latest, worker, fatal>>
    BY <1>3 DEF InStop, StopSignals, StopReturns, StopReadsWorker, WaitBegins, WaitLooksAgain
  <2>2. QED
    BY <2>1 DEF Fault, Active
(* The one active worker is the one that takes a step.                       *)
<1>4. ASSUME NEW w \in Workers, Run(w)
      PROVE  /\ Active = {w} /\ Active' = {v \in {w} : worker'[v] # "done"}
             /\ status \in {"starting", "running"}
             /\ Fault <=> w \in fatal
             /\ Fault' <=> worker'[w] # "done" /\ w \in fatal'
  <2>1. w \in Active
    BY <1>4 DEF Run, OpenProvider, EnterRunning, Collect, Publish, Pause, CloseProvider, Finish, Active
  <2>2. Active = {w} /\ status \in {"starting", "running"}
    BY <2>1 DEF Active, ThreadIsTheWorker, StatusIsTrue, Statuses
  <2>3. \A v \in Workers \ {w} : worker'[v] = worker[v]
    BY <1>4 DEF Run, OpenProvider, EnterRunning, Collect, Publish, Pause, CloseProvider, Finish
  <2>4. worker'[w] # "unborn"
    BY <1>4 DEF Run, OpenProvider, EnterRunning, Collect, Publish, Pause, CloseProvider, Finish
  <2>5. Active' = {v \in {w} : worker'[v] # "done"}
    BY <2>2, <2>3, <2>4 DEF Active
  <2>6. QED
    BY <2>2, <2>5 DEF Fault
<1>5. ASSUME NEW w \in Workers, OpenProvider(w) \/ Collect(w) \/ Pause(w) \/ CloseProvider(w)
      PROVE  Source!Break \/ UNCHANGED <<status, latest, Fault>>
  <2>1. /\ UNCHANGED <<status, latest>> /\ worker'[w] # "done"
        /\ fatal' \in {fatal, fatal \cup {w}}
    BY <1>5 DEF OpenProvider, Collect, Pause, CloseProvider
  <2>2. Run(w)
    BY <1>5 DEF Run
  <2>3. QED
    BY <1>4, <2>1, <2>2 DEF Source!Break, Source!Off, Fault
<1>6. ASSUME NEW w \in Workers, EnterRunning(w) PROVE Source!Run
  <2>1. Run(w) /\ w \notin fatal /\ fatal' = fatal /\ status = "starting"
    BY <1>6 DEF Run, EnterRunning, OnlyStartedFail, StatusFollowsWorker
  <2>2. QED
    BY <1>4, <1>6, <2>1 DEF EnterRunning, Source!Run, Fault
<1>7. ASSUME NEW w \in Workers, Publish(w) PROVE Source!Publish
  <2>1. Run(w) /\ w \notin fatal /\ fatal' = fatal /\ status = "running"
    BY <1>7 DEF Run, Publish, OnlyStartedFail, StatusFollowsWorker
  <2>2. QED
    BY <1>4, <1>7, <2>1 DEF Publish, Source!Publish, Fault
<1>8. ASSUME NEW w \in Workers, Finish(w) PROVE Source!End
  <2>1. /\ Run(w) /\ worker'[w] = "done" /\ latest' = latest
        /\ status' = IF w \in fatal THEN "failed" ELSE "stopped"
        /\ status = "starting" => w \in fatal
    BY <1>8 DEF Run, Finish, StatusFollowsWorker
  <2>2. QED
    BY <1>4, <2>1 DEF Source!End, Source!Off, Fault
<1>9. QED
  BY <1>1, <1>2, <1>3, <1>5, <1>6, <1>7, <1>8 DEF Next, Run, Source!Next

(* Threads, lock and stop event show to readers only as a SnapshotSource:    *)
(* every step of the manager is a step of that lifecycle or invisible in it. *)
THEOREM ManagerImplementsSource == Spec => ImplementsSource
<1>1. Init => Source!Init /\ StatusFollowsWorker /\ OnlyStartedFail
  BY DEF Init, Source!Init, StatusFollowsWorker, OnlyStartedFail
<1>2. QED
  BY <1>1, Invariance, StepStatusFollows, StepOnlyStartedFail, StepImplementsSource, PTL
     DEF Spec, ImplementsSource, Source!Spec
=============================================================================
