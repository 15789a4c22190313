-------------------------- MODULE TelemetryManager --------------------------
(***************************************************************************)
(* app/telemetry/manager.py: one worker thread that owns the hardware      *)
(* provider and publishes snapshots, and the threads that start it, stop   *)
(* it and wait for its first snapshot.                                     *)
(*                                                                         *)
(* Every block under the state lock only assigns, so each is one step.     *)
(* stop() is not one block: it reads the worker under the lock, releases   *)
(* it, sets the stop event and joins the worker it read.  The provider's   *)
(* calls run outside the lock and may fail.                                *)
(*                                                                         *)
(* A snapshot is its sequence number, 0 while there is none.               *)
(***************************************************************************)
EXTENDS Naturals, FiniteSets

CONSTANTS Callers,      \* threads that call the manager
          Workers,      \* worker threads start() may create; bounds the starts
          NoWorker,
          MaxSequence   \* bound of the model: snapshots collected

ASSUME NoWorkerAssumption == NoWorker \notin Workers
ASSUME MaxSequenceAssumption == MaxSequence \in Nat

VARIABLES thread,       \* _thread
          status,       \* _status
          stopEvent,    \* _stop_event
          latest,       \* the sequence of _latest_snapshot
          sequence,     \* _sequence
          lastError,    \* _last_error is set
          worker,       \* the point each worker has reached in _run
          fatal,        \* the workers with a fatal_error
          caller        \* what each calling thread is doing, to which worker

vars == <<thread, status, stopEvent, latest, sequence, lastError, worker, fatal, caller>>

Statuses == {"stopped", "starting", "running", "failed"}
WorkerSteps == {"unborn", "opening", "opened", "checking", "publishing", "pausing", "closing",
                "finishing", "done"}
Activities == [pc : {"signalling", "joining"}, worker : Workers]
                  \cup [pc : {"idle", "asleep", "awake"}, worker : {NoWorker}]

(* Between open() and close() the worker uses the provider. *)
Active == {w \in Workers : worker[w] \notin {"unborn", "done"}}
UsesProvider(w) == worker[w] \in {"opening", "opened", "checking", "publishing", "pausing", "closing"}

Doing(pc, w) == [pc |-> pc, worker |-> w]
Idle == Doing("idle", NoWorker)

TypeOK ==
    /\ thread \in Workers \cup {NoWorker}
    /\ status \in Statuses
    /\ stopEvent \in BOOLEAN
    /\ latest \in Nat /\ sequence \in Nat
    /\ lastError \in BOOLEAN
    /\ worker \in [Workers -> WorkerSteps]
    /\ fatal \subseteq Workers
    /\ caller \in [Callers -> Activities]

Init ==
    /\ thread = NoWorker
    /\ status = "stopped"
    /\ stopEvent = FALSE
    /\ latest = 0 /\ sequence = 0
    /\ lastError = FALSE
    /\ worker = [w \in Workers |-> "unborn"]
    /\ fatal = {}
    /\ caller = [c \in Callers |-> Idle]

(* _state_changed.notify_all() *)
Notified == [c \in Callers |-> IF caller[c].pc = "asleep" THEN Doing("awake", NoWorker) ELSE caller[c]]

(* What wait_for_snapshot waits for. *)
Settled == latest # 0 \/ status \in {"failed", "stopped"}

Proceed(w, pc) == worker' = [worker EXCEPT ![w] = pc]

-----------------------------------------------------------------------------
(* start(): nothing if a worker is alive, else a new worker, which the       *)
(* system may be unable to create.  A call that returns at once, here and    *)
(* below, changes nothing and is no step.                                    *)

Alive == \E w \in Workers : thread = w /\ worker[w] # "done"

(* Mutant: a live worker is not looked for. *)
StartAnyway(c) ==
    /\ caller[c] = Idle
    /\ stopEvent' = FALSE

StartCanBegin(c) ==
    /\ caller[c] = Idle
    /\ ~Alive
    /\ stopEvent' = FALSE

StartWorker(c, w) ==
    /\ StartCanBegin(c)
    /\ worker[w] = "unborn"
    /\ Proceed(w, "opening")
    /\ thread' = w
    /\ status' = "starting"
    /\ lastError' = FALSE
    /\ UNCHANGED <<latest, sequence, fatal, caller>>

StartFails(c) ==
    /\ StartCanBegin(c)
    /\ thread' = NoWorker
    /\ status' = "failed"
    /\ lastError' = TRUE
    /\ caller' = Notified
    /\ UNCHANGED <<latest, sequence, worker, fatal>>

-----------------------------------------------------------------------------
(* stop() *)

StopReadsWorker(c) ==
    /\ caller[c] = Idle
    /\ thread # NoWorker
    /\ caller' = [caller EXCEPT ![c] = Doing("signalling", thread)]
    /\ UNCHANGED <<thread, status, stopEvent, latest, sequence, lastError, worker, fatal>>

StopSignals(c) ==
    /\ caller[c].pc = "signalling"
    /\ stopEvent' = TRUE
    /\ caller' = [caller EXCEPT ![c] = Doing("joining", caller[c].worker)]
    /\ UNCHANGED <<thread, status, latest, sequence, lastError, worker, fatal>>

StopReturns(c) ==
    /\ caller[c].pc = "joining"
    /\ worker[caller[c].worker] = "done"
    /\ caller' = [caller EXCEPT ![c] = Idle]
    /\ UNCHANGED <<thread, status, stopEvent, latest, sequence, lastError, worker, fatal>>

-----------------------------------------------------------------------------
(* wait_for_snapshot() without a timeout: it returns at once if it can, else *)
(* sleeps on the condition, and looks again each time it is woken.           *)

WaitBegins(c) ==
    /\ caller[c] = Idle
    /\ ~Settled
    /\ caller' = [caller EXCEPT ![c] = Doing("asleep", NoWorker)]
    /\ UNCHANGED <<thread, status, stopEvent, latest, sequence, lastError, worker, fatal>>

WaitLooksAgain(c) ==
    /\ caller[c].pc = "awake"
    /\ caller' = [caller EXCEPT ![c] = IF Settled THEN Idle ELSE Doing("asleep", NoWorker)]
    /\ UNCHANGED <<thread, status, stopEvent, latest, sequence, lastError, worker, fatal>>

-----------------------------------------------------------------------------
(* _run, one step for each call of the provider and each block of the lock. *)

OpenProvider(w) ==
    /\ worker[w] = "opening"
    /\ \/ Proceed(w, "opened") /\ UNCHANGED fatal
       \/ Proceed(w, "finishing") /\ fatal' = fatal \cup {w}
    /\ UNCHANGED <<thread, status, stopEvent, latest, sequence, lastError, caller>>

(* Mutant: the worker, not start(), forgets earlier stops. *)
EnterForgetting(w) ==
    /\ worker[w] = "opened"
    /\ status' = "running"
    /\ stopEvent' = FALSE
    /\ Proceed(w, "checking")
    /\ UNCHANGED <<thread, latest, sequence, lastError, fatal, caller>>

EnterRunning(w) ==
    /\ worker[w] = "opened"
    /\ status' = "running"
    /\ Proceed(w, "checking")
    /\ UNCHANGED <<thread, stopEvent, latest, sequence, lastError, fatal, caller>>

(* The head of the loop, and update() and get_sensors() if it goes on; a     *)
(* failed collection is recorded and retried after the pause.                *)
Collect(w) ==
    /\ worker[w] = "checking"
    /\ \/ stopEvent /\ Proceed(w, "closing") /\ UNCHANGED lastError
       \/ ~stopEvent /\ sequence < MaxSequence /\ Proceed(w, "publishing") /\ UNCHANGED lastError
       \/ ~stopEvent /\ Proceed(w, "pausing") /\ lastError' = TRUE
    /\ UNCHANGED <<thread, status, stopEvent, latest, sequence, fatal, caller>>

Publish(w) ==
    /\ worker[w] = "publishing"
    /\ sequence' = sequence + 1
    /\ latest' = sequence + 1
    /\ lastError' = FALSE
    /\ caller' = Notified
    /\ Proceed(w, "pausing")
    /\ UNCHANGED <<thread, status, stopEvent, fatal>>

(* _stop_event.wait(interval): the event, or the interval has passed. *)
Pause(w) ==
    /\ worker[w] = "pausing"
    /\ Proceed(w, IF stopEvent THEN "closing" ELSE "checking")
    /\ UNCHANGED <<thread, status, stopEvent, latest, sequence, lastError, fatal, caller>>

CloseProvider(w) ==
    /\ worker[w] = "closing"
    /\ Proceed(w, "finishing")
    /\ fatal' \in {fatal, fatal \cup {w}}
    /\ UNCHANGED <<thread, status, stopEvent, latest, sequence, lastError, caller>>

(* Mutant: nobody is notified. *)
FinishSilently(w) ==
    /\ worker[w] = "finishing"
    /\ thread' = NoWorker
    /\ status' = IF w \in fatal THEN "failed" ELSE "stopped"
    /\ lastError' = (lastError \/ w \in fatal)
    /\ Proceed(w, "done")
    /\ UNCHANGED <<stopEvent, latest, sequence, fatal, caller>>

(* Mutant: the error of close() is dropped. *)
FinishStopped(w) ==
    /\ worker[w] = "finishing"
    /\ thread' = NoWorker
    /\ status' = IF w \in fatal /\ status = "starting" THEN "failed" ELSE "stopped"
    /\ lastError' = (lastError \/ w \in fatal)
    /\ caller' = Notified
    /\ Proceed(w, "done")
    /\ UNCHANGED <<stopEvent, latest, sequence, fatal>>

Finish(w) ==
    /\ worker[w] = "finishing"
    /\ thread' = NoWorker
    /\ status' = IF w \in fatal THEN "failed" ELSE "stopped"
    /\ lastError' = (lastError \/ w \in fatal)
    /\ caller' = Notified
    /\ Proceed(w, "done")
    /\ UNCHANGED <<stopEvent, latest, sequence, fatal>>

Run(w) ==
    \/ OpenProvider(w) \/ EnterRunning(w) \/ Collect(w) \/ Publish(w) \/ Pause(w)
    \/ CloseProvider(w) \/ Finish(w)

Start(c) == (\E w \in Workers : StartWorker(c, w)) \/ StartFails(c)
InStop(c) == StopSignals(c) \/ StopReturns(c)

Next ==
    \/ \E w \in Workers : Run(w)
    \/ \E c \in Callers : \/ Start(c)
                          \/ StopReadsWorker(c) \/ InStop(c)
                          \/ WaitBegins(c) \/ WaitLooksAgain(c)

Spec == Init /\ [][Next]_vars

(* A worker and a thread inside stop() or a wait keep going: the provider's  *)
(* calls return, and the interval is finite.  Nobody has to call anything.   *)
Fairness ==
    /\ \A w \in Workers : WF_vars(Run(w))
    /\ \A c \in Callers : WF_vars(InStop(c)) /\ WF_vars(WaitLooksAgain(c))

FairSpec == Spec /\ Fairness

-----------------------------------------------------------------------------
(* At most one worker is between its start and its last block, it is the one *)
(* start() would find, and so the provider never has two users, however      *)
(* starts, stops and failures race (start 60, _run 164).                     *)
OneWorker ==
    /\ \A w \in Active : thread = w
    /\ \A v, w \in Workers : UsesProvider(v) /\ UsesProvider(w) => v = w

(* The published status is "starting" or "running" exactly while a worker is *)
(* active, and a failed manager says why.                                    *)
StatusIsTrue ==
    /\ status \in {"stopped", "failed"} <=> thread = NoWorker
    /\ status = "failed" => lastError

(* Nobody sleeps in wait_for_snapshot when there is a snapshot to return or  *)
(* no worker left that could publish one: no notification is missing.        *)
NoLostWakeup == \A c \in Callers : caller[c].pc = "asleep" => ~Settled

(* start() forgets the stop of an earlier worker, never one that a worker    *)
(* has still to see: a requested stop cannot be undone by a concurrent start.*)
StopIsNotForgotten ==
    [][stopEvent /\ ~stopEvent' => Active = {}]_vars

(* To its readers the manager is a SnapshotSource: worker, lock and event    *)
(* show only as its lifecycle, in which a provider that failed to open or to *)
(* close is never taken for one that was stopped, nor the other way round,   *)
(* and nothing is published outside "running".                               *)
Source == INSTANCE SnapshotSource WITH fault <- Active \cap fatal # {}
ImplementsSource == Source!Spec

(* What StopEnds rests on: as long as a call of stop() waits for a worker    *)
(* that has not ended, the event it has set stays set for that worker to     *)
(* see, whatever other calls of start() and stop() do (manager.py 91-92).    *)
StopIsSeen ==
    \A c \in Callers : caller[c].pc = "joining" => stopEvent \/ worker[caller[c].worker] = "done"

(* stop() comes back: the worker it waits for leaves its loop and ends.      *)
StopEnds == \A c \in Callers : caller[c].pc = "signalling" ~> caller[c].pc = "idle"
=============================================================================
