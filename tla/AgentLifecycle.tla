--------------------------- MODULE AgentLifecycle ---------------------------
(***************************************************************************)
(* The life of Agent processes in one Windows session: agent/main.py with  *)
(* single_instance.py, shutdown.py and the exit of tray.py, and the        *)
(* installer's requests (--shutdown-existing) to leave.                    *)
(*                                                                         *)
(* The mutex and the event are named kernel objects.  Such an object       *)
(* exists while some process has a handle to it, whoever created it; an    *)
(* auto-reset event keeps one signal until one waiting thread takes it.    *)
(* When a process ends, its handles are closed.                            *)
(***************************************************************************)
EXTENDS FiniteSets, Naturals

CONSTANTS Agents,       \* launches of the Agent
          Requests,     \* processes started with --shutdown-existing
          MaxPolls      \* looks at the mutex before a request gives up (timeout_ms / 100)

ASSUME ProcessesAssumption == Agents \cap Requests = {}
ASSUME MaxPollsAssumption == MaxPolls \in Nat \ {0}

VARIABLES agent,        \* where each Agent is
          request, polls,       \* where each request is, and how often it has looked
          mutex, event,         \* the processes with a handle
          signaled,             \* the event is set
          waiting,              \* Agents whose monitor thread waits for the event
          shouldExit,           \* Agents whose server.should_exit is set
          streaming,            \* Agents with an open WebSocket stream
          snapshots,            \* the telemetry service yields new snapshots
          asked,                \* history: Agents asked to exit since they listen
          met                   \* history: Agents that met a request when they began to listen

objects == <<mutex, event, signaled>>
requestVars == <<request, polls>>
serverVars == <<shouldExit, streaming, snapshots>>
histories == <<asked, met>>
vars == <<agent, requestVars, objects, waiting, serverVars, histories>>

Owning == {"composing", "listening", "serving", "stopping", "joining", "releasing"}

TypeOK ==
    /\ agent \in [Agents -> Owning \cup {"out", "duplicate"}]
    /\ request \in [Requests -> {"idle", "found", "polling", "peeking", "gone", "gave up"}]
    /\ polls \in [Requests -> 0..MaxPolls]
    /\ mutex \subseteq Agents \cup Requests
    /\ event \subseteq Agents \cup Requests
    /\ signaled \in BOOLEAN /\ snapshots \in BOOLEAN
    /\ waiting \subseteq Agents /\ shouldExit \subseteq Agents
    /\ streaming \subseteq Agents /\ asked \subseteq Agents /\ met \subseteq Agents

Init ==
    /\ agent = [a \in Agents |-> "out"]
    /\ request = [r \in Requests |-> "idle"]
    /\ polls = [r \in Requests |-> 0]
    /\ mutex = {} /\ event = {} /\ signaled = FALSE
    /\ waiting = {} /\ shouldExit = {} /\ streaming = {}
    /\ snapshots = TRUE
    /\ asked = {} /\ met = {}

Becomes(a, pc) == agent' = [agent EXCEPT ![a] = pc]
Moves(r, pc) == request' = [request EXCEPT ![r] = pc]

(* Handles of p to the event are closed; without handles it is forgotten.    *)
CloseEvent(p) ==
    /\ event' = event \ {p}
    /\ signaled' = (signaled /\ event' # {})

-----------------------------------------------------------------------------
(* An Agent. *)

(* Mutant: ERROR_ALREADY_EXISTS is not looked at. *)
LaunchAnyway(a) ==
    /\ agent[a] = "out"
    /\ mutex' = mutex \cup {a}
    /\ Becomes(a, "composing")
    /\ UNCHANGED <<requestVars, event, signaled, waiting, serverVars, histories>>

(* CreateMutexW: a handle in any case, and the word that it existed before.  *)
Launch(a) ==
    /\ agent[a] = "out"
    /\ mutex' = mutex \cup {a}
    /\ Becomes(a, IF mutex = {} THEN "composing" ELSE "duplicate")
    /\ UNCHANGED <<requestVars, event, signaled, waiting, serverVars, histories>>

DuplicateLeaves(a) ==
    /\ agent[a] = "duplicate"
    /\ mutex' = mutex \ {a}
    /\ Becomes(a, "out")
    /\ UNCHANGED <<requestVars, event, signaled, waiting, serverVars, histories>>

(* Settings, database and application are made; that may fail.               *)
ComposeFails(a) ==
    /\ agent[a] = "composing"
    /\ Becomes(a, "releasing")
    /\ UNCHANGED <<requestVars, objects, waiting, serverVars, histories>>

Meet(a) == met' = IF event \cap Requests # {} THEN met \cup {a} ELSE met

(* Mutant: the event is created signaled. *)
ListenSignaled(a) ==
    /\ agent[a] = "composing"
    /\ event' = event \cup {a}
    /\ signaled' = (signaled \/ event = {})
    /\ waiting' = waiting \cup {a}
    /\ Meet(a)
    /\ Becomes(a, "listening")
    /\ UNCHANGED <<requestVars, mutex, serverVars, asked>>

(* AgentShutdownMonitor.start: the event is created, or opened as it is.     *)
Listen(a) ==
    /\ agent[a] = "composing"
    /\ event' = event \cup {a}
    /\ waiting' = waiting \cup {a}
    /\ Meet(a)
    /\ Becomes(a, "listening")
    /\ UNCHANGED <<requestVars, mutex, signaled, serverVars, asked>>

(* Mutant: the server forgets what was asked of it before it ran. *)
ServeAfresh(a) ==
    /\ agent[a] = "listening"
    /\ shouldExit' = shouldExit \ {a}
    /\ Becomes(a, "serving")
    /\ UNCHANGED <<requestVars, objects, waiting, streaming, snapshots, histories>>

Serve(a) ==
    /\ agent[a] = "listening"
    /\ Becomes(a, "serving")
    /\ UNCHANGED <<requestVars, objects, waiting, serverVars, histories>>

Wakes(a) ==
    /\ a \in waiting /\ signaled
    /\ signaled' = FALSE
    /\ waiting' = waiting \ {a}
    /\ shouldExit' = shouldExit \cup {a}
    /\ UNCHANGED <<agent, requestVars, mutex, event, streaming, snapshots, histories>>

TrayExit(a) ==
    /\ agent[a] \in {"listening", "serving"}
    /\ shouldExit' = shouldExit \cup {a}
    /\ asked' = asked \cup {a}
    /\ UNCHANGED <<agent, requestVars, objects, waiting, streaming, snapshots, met>>

(* A browser's stream; it looks at its socket only to send a new snapshot.   *)
StreamOpens(a) ==
    /\ agent[a] = "serving" /\ a \notin shouldExit
    /\ streaming' = streaming \cup {a}
    /\ UNCHANGED <<agent, requestVars, objects, waiting, shouldExit, snapshots, histories>>

StreamEnds(a) ==
    /\ a \in streaming
    /\ snapshots
    /\ streaming' = streaming \ {a}
    /\ UNCHANGED <<agent, requestVars, objects, waiting, shouldExit, snapshots, histories>>

SnapshotsChange ==
    /\ snapshots' = ~snapshots
    /\ UNCHANGED <<agent, requestVars, objects, waiting, shouldExit, streaming, histories>>

(* server.run returns when it is asked to and no request of a client is left *)
(* (uvicorn without timeout_graceful_shutdown), or at once if it cannot run. *)
ServerEnds(a) ==
    /\ agent[a] = "serving"
    /\ a \notin streaming
    /\ Becomes(a, "stopping")
    /\ UNCHANGED <<requestVars, objects, waiting, serverVars, histories>>

(* AgentShutdownMonitor.stop wakes its thread and waits for it.              *)
StopMonitor(a) ==
    /\ agent[a] = "stopping"
    /\ signaled' = TRUE
    /\ Becomes(a, "joining")
    /\ UNCHANGED <<requestVars, mutex, event, waiting, serverVars, histories>>

JoinMonitor(a) ==
    /\ agent[a] = "joining"
    /\ a \notin waiting
    /\ CloseEvent(a)
    /\ Becomes(a, "releasing")
    /\ UNCHANGED <<requestVars, mutex, waiting, serverVars, histories>>

Forget(a) ==
    /\ Becomes(a, "out")
    /\ mutex' = mutex \ {a}
    /\ waiting' = waiting \ {a}
    /\ shouldExit' = shouldExit \ {a}
    /\ streaming' = streaming \ {a}
    /\ asked' = asked \ {a} /\ met' = met \ {a}
    /\ UNCHANGED <<requestVars, snapshots>>

Release(a) ==
    /\ agent[a] = "releasing"
    /\ Forget(a)
    /\ UNCHANGED <<event, signaled>>

Dies(a) ==
    /\ agent[a] # "out"
    /\ Forget(a)
    /\ CloseEvent(a)

-----------------------------------------------------------------------------
(* request_existing_agent_shutdown. *)

(* Without an event the request returns False at once.                       *)
FindEvent(r) ==
    /\ request[r] = "idle"
    /\ event # {}
    /\ event' = event \cup {r}
    /\ Moves(r, "found")
    /\ UNCHANGED <<agent, polls, mutex, signaled, waiting, serverVars, histories>>

FindNothing(r) ==
    /\ request[r] = "idle"
    /\ event = {}
    /\ Moves(r, "gave up")
    /\ UNCHANGED <<agent, polls, objects, waiting, serverVars, histories>>

SetEvent(r) ==
    /\ request[r] = "found"
    /\ signaled' = TRUE
    /\ asked' = asked \cup (event \cap Agents)
    /\ polls' = [polls EXCEPT ![r] = 0]
    /\ Moves(r, "polling")
    /\ UNCHANGED <<agent, mutex, event, waiting, serverVars, met>>

(* OpenMutexW gives the request a handle of its own for a moment.            *)
Peek(r) ==
    /\ request[r] = "polling"
    /\ polls[r] < MaxPolls
    /\ mutex # {}
    /\ mutex' = mutex \cup {r}
    /\ Moves(r, "peeking")
    /\ UNCHANGED <<agent, polls, event, signaled, waiting, serverVars, histories>>

Peeked(r) ==
    /\ request[r] = "peeking"
    /\ mutex' = mutex \ {r}
    /\ polls' = [polls EXCEPT ![r] = @ + 1]
    /\ Moves(r, "polling")
    /\ UNCHANGED <<agent, event, signaled, waiting, serverVars, histories>>

(* Mutant: the Agent is taken for gone once it listens no more. *)
SeeNoListener(r) ==
    /\ request[r] = "polling"
    /\ polls[r] < MaxPolls
    /\ event \cap Agents = {}
    /\ Moves(r, "gone")
    /\ UNCHANGED <<agent, polls, objects, waiting, serverVars, histories>>

SeeItGone(r) ==
    /\ request[r] = "polling"
    /\ polls[r] < MaxPolls
    /\ mutex = {}
    /\ Moves(r, "gone")
    /\ UNCHANGED <<agent, polls, objects, waiting, serverVars, histories>>

GiveUp(r) ==
    /\ request[r] = "polling"
    /\ polls[r] = MaxPolls
    /\ Moves(r, "gave up")
    /\ UNCHANGED <<agent, polls, objects, waiting, serverVars, histories>>

Return(r) ==
    /\ request[r] \in {"gone", "gave up"}
    /\ CloseEvent(r)
    /\ polls' = [polls EXCEPT ![r] = 0]
    /\ Moves(r, "idle")
    /\ UNCHANGED <<agent, mutex, waiting, serverVars, histories>>

-----------------------------------------------------------------------------
Leaves(a) ==
    \/ DuplicateLeaves(a) \/ Serve(a)
    \/ a \in shouldExit /\ ServerEnds(a)
    \/ StopMonitor(a) \/ JoinMonitor(a) \/ Release(a)

Next ==
    \/ SnapshotsChange
    \/ \E a \in Agents :
         \/ Launch(a) \/ ComposeFails(a) \/ Listen(a) \/ Leaves(a) \/ ServerEnds(a)
         \/ Wakes(a) \/ TrayExit(a) \/ StreamOpens(a) \/ StreamEnds(a) \/ Dies(a)
    \/ \E r \in Requests :
         \/ FindEvent(r) \/ FindNothing(r) \/ SetEvent(r)
         \/ Peek(r) \/ Peeked(r) \/ SeeItGone(r) \/ GiveUp(r) \/ Return(r)

Spec == Init /\ [][Next]_vars

(* Threads go on.  A stream notices that its server closes when it sends the *)
(* next new snapshot; its poll finds that one sooner or later.               *)
FairSpec ==
    /\ Spec
    /\ \A a \in Agents : /\ WF_vars(Leaves(a)) /\ WF_vars(Wakes(a))
                         /\ SF_vars(a \in shouldExit /\ StreamEnds(a))

-----------------------------------------------------------------------------
(* At most one Agent at a time is past the check, and its handle keeps the   *)
(* mutex in existence for as long, whichever handles duplicates and requests *)
(* hold for a moment and whoever dies (single_instance.py 14).               *)
OneAgent ==
    \A a, b \in Agents : agent[a] \in Owning =>
        /\ a \in mutex
        /\ agent[b] \in Owning => a = b

(* A request answers True only when no Agent is left, not even one that is   *)
(* composing or releasing (shutdown.py 76-83).                               *)
TrueMeansGone ==
    [][\A r \in Requests : request'[r] = "gone" /\ request[r] # "gone" =>
         \A a \in Agents : agent[a] \notin Owning]_vars

(* An Agent ends only if somebody asked this Agent, or at least a request    *)
(* was in progress when it began to listen: the signal by which a            *)
(* predecessor stopped its own monitor, or a request made of it earlier, is  *)
(* not left for it (shutdown.py 42-59).                                      *)
NoStaleShutdown ==
    \A a \in shouldExit : agent[a] \in {"listening", "serving"} => a \in asked \cup met

(* What asks an Agent to leave is never lost on its way: until its server    *)
(* knows, the event is set and its monitor is there to take it, although the *)
(* event is shared, keeps one signal only, and goes with its last handle.    *)
(* The monitor's own end is not lost either (shutdown.py 42-59).             *)
SignalsArrive ==
    \A a \in Agents :
        /\ a \in asked /\ agent[a] \in {"listening", "serving"}
              => a \in shouldExit \/ (a \in waiting /\ signaled)
        /\ agent[a] = "joining" => a \notin waiting \/ signaled

(* An Agent that was asked to leave, by its user or a request, leaves        *)
(* (README.md 137), at least if the service does not fall silent for good.   *)
AgentsLeave == []<>snapshots => \A a \in Agents : a \in asked ~> agent[a] = "out"
=============================================================================
