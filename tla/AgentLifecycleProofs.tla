------------------------ MODULE AgentLifecycleProofs ------------------------
(***************************************************************************)
(* What holds of the Agent's lifecycle for any number of launches,         *)
(* requests and looks at the mutex.                                        *)
(***************************************************************************)
EXTENDS AgentLifecycle, TLAPS

(* A request that looks at the mutex has this look left. *)
LooksLeft == \A r \in Requests : request[r] = "peeking" => polls[r] < MaxPolls

IInv == TypeOK /\ LooksLeft /\ OneAgent

AgentActions(a) ==
    \/ Launch(a) \/ DuplicateLeaves(a) \/ ComposeFails(a) \/ Listen(a) \/ Serve(a)
    \/ Wakes(a) \/ TrayExit(a) \/ StreamOpens(a) \/ StreamEnds(a) \/ ServerEnds(a)
    \/ StopMonitor(a) \/ JoinMonitor(a) \/ Release(a) \/ Dies(a)

RequestActions(r) ==
    \/ FindEvent(r) \/ FindNothing(r) \/ SetEvent(r)
    \/ Peek(r) \/ Peeked(r) \/ SeeItGone(r) \/ GiveUp(r) \/ Return(r)

(* Every step is a change of the service or an action of one process. *)
LEMMA Steps ==
    ASSUME Next
    PROVE  \/ SnapshotsChange
           \/ \E a \in Agents : AgentActions(a)
           \/ \E r \in Requests : RequestActions(r)
BY DEF Next, Leaves, AgentActions, RequestActions

(* Only these steps can disturb the mutex or make an Agent its owner: what   *)
(* an owner's handle and its being the only one rest on.                     *)
LEMMA OwnersStay ==
    ASSUME TypeOK, OneAgent,
           \A a \in Agents : agent'[a] \in Owning => agent[a] \in Owning,
           \A a \in Agents : agent'[a] \in Owning /\ a \in mutex => a \in mutex'
    PROVE  OneAgent'
BY DEF OneAgent

(* Counting the looks from zero to the limit. *)
LEMMA Counting ==
    /\ 0 \in 0..MaxPolls
    /\ \A n \in 0..MaxPolls : n < MaxPolls => n + 1 \in 0..MaxPolls
BY MaxPollsAssumption

-----------------------------------------------------------------------------
LEMMA InvariantStart == Init => IInv
<1> SUFFICES ASSUME Init PROVE IInv
    OBVIOUS
<1>1. TypeOK
    <2>1. polls \in [Requests -> 0..MaxPolls]
        BY Counting DEF Init
    <2>2. QED BY <2>1 DEF Init, TypeOK
<1>2. LooksLeft /\ OneAgent
    BY DEF Init, LooksLeft, OneAgent, Owning
<1>3. QED BY <1>1, <1>2 DEF IInv

(* An action of an Agent. *)
LEMMA AgentStep ==
    ASSUME IInv, NEW a \in Agents, AgentActions(a)
    PROVE  IInv'
<1>1. TypeOK'
    <2>1. CASE Launch(a) \/ DuplicateLeaves(a) \/ ComposeFails(a) \/ Listen(a) \/ Serve(a)
        BY <2>1 DEF IInv, TypeOK, Launch, DuplicateLeaves, ComposeFails, Listen, Serve, Becomes,
                    Meet, Owning, requestVars, objects, serverVars, histories
    <2>2. CASE Wakes(a) \/ TrayExit(a) \/ StreamOpens(a) \/ StreamEnds(a)
        BY <2>2 DEF IInv, TypeOK, Wakes, TrayExit, StreamOpens, StreamEnds, requestVars, objects,
                    histories
    <2>3. CASE ServerEnds(a) \/ StopMonitor(a) \/ JoinMonitor(a)
        BY <2>3 DEF IInv, TypeOK, ServerEnds, StopMonitor, JoinMonitor, CloseEvent, Becomes,
                    Owning, requestVars, objects, serverVars, histories
    <2>4. CASE Release(a) \/ Dies(a)
        BY <2>4 DEF IInv, TypeOK, Release, Dies, Forget, CloseEvent, Becomes, requestVars
    <2>5. QED BY <2>1, <2>2, <2>3, <2>4 DEF AgentActions
<1>2. LooksLeft'
    BY DEF IInv, LooksLeft, AgentActions, Launch, DuplicateLeaves, ComposeFails, Listen, Serve,
           Wakes, TrayExit, StreamOpens, StreamEnds, ServerEnds, StopMonitor, JoinMonitor,
           Release, Dies, Forget, requestVars
<1>3. OneAgent'
    <2>1. CASE Launch(a)
        <3>1. CASE mutex = {}
            <4>1. \A b \in Agents : agent[b] \notin Owning
                BY <3>1 DEF IInv, OneAgent
            <4>2. QED BY <2>1, <4>1 DEF IInv, TypeOK, OneAgent, Launch, Becomes
        <3>2. CASE mutex # {}
            BY <2>1, <3>2, OwnersStay DEF IInv, TypeOK, Launch, Becomes, Owning
        <3>3. QED BY <3>1, <3>2
    <2>2. CASE DuplicateLeaves(a)
        BY <2>2, OwnersStay DEF IInv, TypeOK, DuplicateLeaves, Becomes, Owning
    <2>3. CASE Release(a) \/ Dies(a)
        BY <2>3, OwnersStay DEF IInv, TypeOK, Release, Dies, Forget, Becomes, Owning
    <2>4. CASE ComposeFails(a) \/ Listen(a) \/ Serve(a) \/ ServerEnds(a) \/ StopMonitor(a) \/ JoinMonitor(a)
        BY <2>4, OwnersStay DEF IInv, TypeOK, ComposeFails, Listen, Serve, ServerEnds, StopMonitor,
                                JoinMonitor, Becomes, Owning, objects
    <2>5. CASE Wakes(a) \/ TrayExit(a) \/ StreamOpens(a) \/ StreamEnds(a)
        BY <2>5, OwnersStay DEF IInv, Wakes, TrayExit, StreamOpens, StreamEnds, objects
    <2>6. QED BY <2>1, <2>2, <2>3, <2>4, <2>5 DEF AgentActions
<1>4. QED BY <1>1, <1>2, <1>3 DEF IInv

(* An action of a request. *)
LEMMA RequestStep ==
    ASSUME IInv, NEW r \in Requests, RequestActions(r)
    PROVE  IInv'
<1>1. TypeOK'
    <2>1. CASE FindEvent(r) \/ FindNothing(r) \/ SetEvent(r)
        BY <2>1, Counting DEF IInv, TypeOK, FindEvent, FindNothing, SetEvent, Moves, objects,
                              serverVars, histories
    <2>2. CASE Peeked(r)
        <3>1. polls[r] + 1 \in 0..MaxPolls
            BY <2>2, Counting DEF IInv, TypeOK, LooksLeft, Peeked
        <3>2. QED BY <2>2, <3>1 DEF IInv, TypeOK, Peeked, Moves, serverVars, histories
    <2>3. CASE Peek(r) \/ SeeItGone(r) \/ GiveUp(r)
        BY <2>3 DEF IInv, TypeOK, Peek, SeeItGone, GiveUp, Moves, objects, serverVars,
                    histories
    <2>4. CASE Return(r)
        BY <2>4, Counting DEF IInv, TypeOK, Return, CloseEvent, Moves, serverVars, histories
    <2>5. QED BY <2>1, <2>2, <2>3, <2>4 DEF RequestActions
<1>2. LooksLeft'
    BY DEF IInv, TypeOK, LooksLeft, RequestActions, FindEvent, FindNothing, SetEvent, Peek,
           Peeked, SeeItGone, GiveUp, Return, Moves
<1>3. OneAgent'
    <2>1. agent' = agent
        BY DEF RequestActions, FindEvent, FindNothing, SetEvent, Peek, Peeked, SeeItGone,
               GiveUp, Return
    <2>2. \A a \in Agents : a \in mutex => a \in mutex'
        BY ProcessesAssumption DEF RequestActions, FindEvent, FindNothing, SetEvent, Peek,
               Peeked, SeeItGone, GiveUp, Return, objects
    <2>3. QED BY <2>1, <2>2, OwnersStay DEF IInv
<1>4. QED BY <1>1, <1>2, <1>3 DEF IInv

LEMMA InvariantStep == IInv /\ [Next]_vars => IInv'
<1> SUFFICES ASSUME IInv, [Next]_vars PROVE IInv'
    OBVIOUS
<1>1. CASE SnapshotsChange
    BY <1>1 DEF IInv, TypeOK, LooksLeft, OneAgent, SnapshotsChange, requestVars, objects,
                histories
<1>2. CASE UNCHANGED vars
    BY <1>2 DEF IInv, TypeOK, LooksLeft, OneAgent, vars, requestVars, objects, serverVars,
                histories
<1>3. QED BY <1>1, <1>2, Steps, AgentStep, RequestStep

-----------------------------------------------------------------------------
(* The types of all variables; a request's looks never pass the limit.       *)
THEOREM LifecycleTypeCorrect == Spec => []TypeOK
<1>1. IInv => TypeOK
    BY DEF IInv
<1>2. QED BY <1>1, InvariantStart, InvariantStep, PTL DEF Spec

(* At most one Agent is past the check of the mutex, whatever other          *)
(* processes have a handle to it (single_instance.py 14).                    *)
THEOREM SingleInstance == Spec => []OneAgent
<1>1. IInv => OneAgent
    BY DEF IInv
<1>2. QED BY <1>1, InvariantStart, InvariantStep, PTL DEF Spec

(* A request that answers True leaves no Agent behind (shutdown.py 76-83).   *)
THEOREM TrueIsTrue == Spec => TrueMeansGone
<1> DEFINE Gone == \A r \in Requests : request'[r] = "gone" /\ request[r] # "gone" =>
                      \A a \in Agents : agent[a] \notin Owning
<1>1. IInv /\ [Next]_vars => [Gone]_vars
    <2> SUFFICES ASSUME IInv, Next,
                        NEW r \in Requests, request'[r] = "gone", request[r] # "gone"
                 PROVE  mutex = {}
        BY DEF IInv, OneAgent
    <2>1. CASE SnapshotsChange
        BY <2>1 DEF SnapshotsChange, requestVars
    <2>2. ASSUME NEW a \in Agents, AgentActions(a) PROVE mutex = {}
        BY <2>2 DEF AgentActions, Launch, DuplicateLeaves, ComposeFails, Listen, Serve, Wakes,
                    TrayExit, StreamOpens, StreamEnds, ServerEnds, StopMonitor, JoinMonitor,
                    Release, Dies, Forget, requestVars
    <2>3. ASSUME NEW q \in Requests, RequestActions(q) PROVE mutex = {}
        BY <2>3 DEF IInv, TypeOK, RequestActions, FindEvent, FindNothing, SetEvent, Peek,
                    Peeked, SeeItGone, GiveUp, Return, Moves
    <2>4. QED BY <2>1, <2>2, <2>3, Steps
<1>2. QED BY <1>1, InvariantStart, InvariantStep, PTL DEF Spec, TrueMeansGone

-----------------------------------------------------------------------------
Listening == {"listening", "serving", "stopping", "joining"}

(* Who has a handle to the event, waits for it or was told to exit. *)
EventUsers ==
    \A a \in Agents : /\ a \in event <=> agent[a] \in Listening
                      /\ a \in waiting => agent[a] \in Listening
                      /\ a \in shouldExit => agent[a] \in Listening \cup {"releasing"}

(* A signal nobody has taken yet is kept by some handle, and is meant for    *)
(* the Agent that will take it.                                              *)
SignalIsMeant ==
    signaled => /\ event # {}
                /\ \A a \in Agents : agent[a] \in {"listening", "serving"} => a \in asked \cup met

(* A request that is about to signal has a handle. *)
FoundHolds == \A r \in Requests : request[r] = "found" => r \in event

SInv == EventUsers /\ SignalIsMeant /\ NoStaleShutdown

(* A step that raises no signal, gives up no handle and ends no Agent's      *)
(* history keeps the signal's meaning if the Agents that listen stay.        *)
LEMMA SignalStays ==
    ASSUME TypeOK, SignalIsMeant, signaled' = signaled, event \subseteq event',
           asked \subseteq asked', met \subseteq met',
           \A a \in Agents : agent'[a] \in {"listening", "serving"} =>
                                agent[a] \in {"listening", "serving"}
    PROVE  SignalIsMeant'
BY DEF TypeOK, SignalIsMeant

LEMMA HandlesStay == IInv /\ FoundHolds /\ [Next]_vars => FoundHolds'
<1> SUFFICES ASSUME IInv, FoundHolds, [Next]_vars PROVE FoundHolds'
    OBVIOUS
<1>1. CASE SnapshotsChange
    BY <1>1 DEF FoundHolds, SnapshotsChange, requestVars, objects
<1>2. ASSUME NEW a \in Agents, AgentActions(a) PROVE FoundHolds'
    <2>1. request' = request
        BY <1>2 DEF AgentActions, Launch, DuplicateLeaves, ComposeFails, Listen, Serve, Wakes,
                    TrayExit, StreamOpens, StreamEnds, ServerEnds, StopMonitor, JoinMonitor,
                    Release, Dies, Forget, requestVars
    <2>2. event' \in {event, event \cup {a}, event \ {a}}
        BY <1>2 DEF AgentActions, Launch, DuplicateLeaves, ComposeFails, Listen, Serve, Wakes,
                    TrayExit, StreamOpens, StreamEnds, ServerEnds, StopMonitor, JoinMonitor,
                    Release, Dies, CloseEvent, objects
    <2>3. QED BY <2>1, <2>2, ProcessesAssumption DEF FoundHolds
<1>3. ASSUME NEW r \in Requests, RequestActions(r) PROVE FoundHolds'
    BY <1>3 DEF IInv, TypeOK, FoundHolds, RequestActions, FindEvent, FindNothing, SetEvent, Peek,
                Peeked, SeeItGone, GiveUp, Return, CloseEvent, Moves, objects
<1>4. CASE UNCHANGED vars
    BY <1>4 DEF FoundHolds, vars, requestVars, objects
<1>5. QED BY <1>1, <1>2, <1>3, <1>4, Steps

LEMMA SignalStart == Init => SInv
BY DEF Init, SInv, EventUsers, SignalIsMeant, NoStaleShutdown, Listening

LEMMA SignalAgentStep ==
    ASSUME IInv, SInv, NEW a \in Agents, AgentActions(a)
    PROVE  SInv'
<1> USE DEF IInv, TypeOK, SInv, EventUsers, SignalIsMeant, NoStaleShutdown, Listening, Becomes
<1>1. CASE Launch(a) \/ DuplicateLeaves(a) \/ ComposeFails(a)
    <2>1. /\ UNCHANGED <<event, waiting, shouldExit, asked, met>>
          /\ signaled' = signaled
        BY <1>1 DEF Launch, DuplicateLeaves, ComposeFails, serverVars, histories, objects
    <2>2. /\ agent[a] \in {"out", "duplicate", "composing"}
          /\ \E pc \in {"out", "duplicate", "composing", "releasing"} :
                agent' = [agent EXCEPT ![a] = pc]
        BY <1>1 DEF Launch, DuplicateLeaves, ComposeFails
    <2>3. EventUsers'
        BY <2>1, <2>2
    <2>4. SignalIsMeant'
        BY <2>1, <2>2, SignalStays
    <2>5. NoStaleShutdown'
        BY <2>1, <2>2
    <2>6. QED BY <2>3, <2>4, <2>5
<1>2. CASE Listen(a)
    <2>1. \A b \in Agents : agent[b] \in Listening => b = a
        BY <1>2 DEF Listen, OneAgent, Owning
    <2>2. signaled => event \cap Requests # {}
        BY <1>2, <2>1 DEF Listen
    <2>3. signaled => a \in met'
        BY <1>2, <2>2 DEF Listen, Meet
    <2>4. a \notin shouldExit
        BY <1>2 DEF Listen
    <2>5. EventUsers'
        BY <1>2 DEF Listen, serverVars
    <2>6. SignalIsMeant'
        BY <1>2, <2>1, <2>3 DEF Listen
    <2>7. NoStaleShutdown'
        BY <1>2, <2>4 DEF Listen, Meet, serverVars
    <2>8. QED BY <2>5, <2>6, <2>7
<1>3. CASE Serve(a)
    <2>1. /\ UNCHANGED <<event, waiting, shouldExit, asked, met>>
          /\ signaled' = signaled
        BY <1>3 DEF Serve, serverVars, histories, objects
    <2>2. agent[a] = "listening" /\ agent' = [agent EXCEPT ![a] = "serving"]
        BY <1>3 DEF Serve
    <2>3. SignalIsMeant'
        BY <2>1, <2>2, SignalStays
    <2>4. QED BY <2>1, <2>2, <2>3
<1>4. CASE Wakes(a)
    <2>1. SignalIsMeant'
        BY <1>4 DEF Wakes
    <2>2. QED BY <1>4, <2>1 DEF Wakes, histories
<1>5. CASE TrayExit(a)
    <2>1. SignalIsMeant'
        BY <1>5, SignalStays DEF TrayExit, objects
    <2>2. QED BY <1>5, <2>1 DEF TrayExit, objects
<1>6. CASE StreamOpens(a) \/ StreamEnds(a)
    <2>1. /\ UNCHANGED <<agent, event, waiting, shouldExit, asked, met>>
          /\ signaled' = signaled
        BY <1>6 DEF StreamOpens, StreamEnds, histories, objects
    <2>2. SignalIsMeant'
        BY <2>1, SignalStays
    <2>3. QED BY <2>1, <2>2
<1>7. CASE ServerEnds(a)
    BY <1>7 DEF ServerEnds, serverVars, histories, objects
<1>8. CASE StopMonitor(a)
    <2>1. \A b \in Agents : agent[b] \in Listening => b = a
        BY <1>8 DEF StopMonitor, OneAgent, Owning
    <2>2. QED BY <1>8, <2>1 DEF StopMonitor, serverVars, histories
<1>9. CASE JoinMonitor(a)
    BY <1>9 DEF JoinMonitor, CloseEvent, serverVars, histories
<1>10. CASE Release(a)
    BY <1>10 DEF Release, Forget
<1>11. CASE Dies(a)
    BY <1>11 DEF Dies, Forget, CloseEvent
<1>12. QED BY <1>1, <1>2, <1>3, <1>4, <1>5, <1>6, <1>7, <1>8, <1>9, <1>10, <1>11 DEF
            AgentActions

LEMMA SignalRequestStep ==
    ASSUME IInv, SInv, FoundHolds, NEW r \in Requests, RequestActions(r)
    PROVE  SInv'
<1> USE DEF IInv, TypeOK, SInv, EventUsers, SignalIsMeant, NoStaleShutdown, Listening
<1>1. CASE FindEvent(r) \/ FindNothing(r)
    <2>1. /\ UNCHANGED <<agent, waiting, shouldExit, asked, met>>
          /\ signaled' = signaled
          /\ event' \in {event, event \cup {r}}
        BY <1>1 DEF FindEvent, FindNothing, serverVars, histories, objects
    <2>2. SignalIsMeant'
        BY <2>1, SignalStays
    <2>3. QED BY <2>1, <2>2, ProcessesAssumption
<1>2. CASE SetEvent(r)
    <2>1. event' = event /\ asked' = asked \cup (event \cap Agents)
        BY <1>2 DEF SetEvent
    <2>2. UNCHANGED <<agent, met, waiting, shouldExit>>
        BY <1>2 DEF SetEvent, serverVars
    <2>3. SignalIsMeant'
        <3>1. event # {}
            BY <1>2 DEF SetEvent, FoundHolds
        <3>2. QED BY <2>1, <2>2, <3>1
    <2>4. QED BY <2>1, <2>2, <2>3
<1>3. CASE Peek(r) \/ Peeked(r) \/ SeeItGone(r) \/ GiveUp(r)
    <2>1. /\ UNCHANGED <<agent, event, waiting, shouldExit, asked, met>>
          /\ signaled' = signaled
        BY <1>3 DEF Peek, Peeked, SeeItGone, GiveUp, serverVars, histories, objects
    <2>2. SignalIsMeant'
        BY <2>1, SignalStays
    <2>3. QED BY <2>1, <2>2
<1>4. CASE Return(r)
    BY <1>4, ProcessesAssumption DEF Return, CloseEvent, serverVars, histories
<1>5. QED BY <1>1, <1>2, <1>3, <1>4 DEF RequestActions

LEMMA SignalStep == IInv /\ FoundHolds /\ SInv /\ [Next]_vars => SInv'
<1> SUFFICES ASSUME IInv, FoundHolds, SInv, [Next]_vars PROVE SInv'
    OBVIOUS
<1>1. CASE SnapshotsChange \/ UNCHANGED vars
    <2>1. UNCHANGED <<agent, event, signaled, waiting, shouldExit, asked, met>>
        BY <1>1 DEF SnapshotsChange, vars, objects, serverVars, histories
    <2>2. SignalIsMeant'
        BY <2>1, SignalStays DEF SInv, IInv
    <2>3. QED BY <2>1, <2>2 DEF SInv, EventUsers, NoStaleShutdown
<1>2. QED BY <1>1, Steps, SignalAgentStep, SignalRequestStep

(* No Agent is ended by a signal that was not meant for it (shutdown.py      *)
(* 42-59).                                                                   *)
THEOREM NoSignalIsStale == Spec => []NoStaleShutdown
<1>1. Init => FoundHolds
    BY DEF Init, FoundHolds
<1>2. SInv => NoStaleShutdown
    BY DEF SInv
<1>3. QED BY <1>1, <1>2, InvariantStart, InvariantStep, HandlesStay, SignalStart, SignalStep, PTL DEF Spec

-----------------------------------------------------------------------------
(* An Agent that listens has a monitor that waits, or one that has told its  *)
(* server; only an Agent that began to listen is asked anything.             *)
Monitored ==
    \A a \in Agents :
        /\ agent[a] \in {"listening", "serving"} => a \in waiting \cup shouldExit
        /\ a \in asked => agent[a] \in Listening \cup {"releasing"}

AInv == Monitored /\ SignalsArrive

(* While one Agent listens no other does, and its handle keeps the event.    *)
LEMMA OneListens ==
    ASSUME IInv, SInv, NEW a \in Agents, agent[a] \in Listening
    PROVE  /\ a \in event
           /\ \A b \in Agents : agent[b] \in Listening \/ b \in waiting => b = a
BY DEF IInv, OneAgent, SInv, EventUsers, Listening, Owning

(* A step that takes no signal, waiter or order to exit away, and moves no   *)
(* Agent among those that listen, keeps what they are to be told.            *)
LEMMA ArrivalStays ==
    ASSUME AInv, waiting' = waiting, shouldExit \subseteq shouldExit',
           signaled /\ waiting # {} => signaled',
           \A a \in Agents :
              /\ agent'[a] \in Listening \/ agent[a] \in Listening => agent'[a] = agent[a]
              /\ agent[a] = "releasing" => agent'[a] = "releasing",
           asked' = asked
    PROVE  AInv'
BY DEF AInv, Monitored, SignalsArrive, Listening

LEMMA ArrivalAgentStep ==
    ASSUME IInv, SInv, AInv, NEW a \in Agents, AgentActions(a)
    PROVE  AInv'
<1> USE DEF AInv, Monitored, SignalsArrive, Listening
<1>t. TypeOK
    BY DEF IInv
<1>1. CASE Launch(a) \/ DuplicateLeaves(a) \/ ComposeFails(a)
    <2>1. UNCHANGED <<waiting, shouldExit, asked, signaled>>
        BY <1>1 DEF Launch, DuplicateLeaves, ComposeFails, serverVars, histories, objects
    <2>2. /\ agent[a] \in {"out", "duplicate", "composing"}
          /\ \E pc \in {"out", "duplicate", "composing", "releasing"} :
                agent' = [agent EXCEPT ![a] = pc]
        BY <1>1 DEF Launch, DuplicateLeaves, ComposeFails, Becomes
    <2>3. QED BY <1>t, <2>1, <2>2 DEF TypeOK
<1>2. CASE Listen(a)
    <2>1. /\ waiting' = waiting \cup {a} /\ asked' = asked /\ signaled' = signaled
          /\ shouldExit' = shouldExit
        BY <1>2 DEF Listen, serverVars
    <2>2. agent[a] = "composing" /\ agent' = [agent EXCEPT ![a] = "listening"]
        BY <1>2 DEF Listen, Becomes
    <2>3. a \notin asked
        BY <2>2
    <2>4. QED BY <1>t, <2>1, <2>2, <2>3 DEF TypeOK
<1>3. CASE Serve(a)
    <2>1. UNCHANGED <<waiting, shouldExit, asked, signaled>>
        BY <1>3 DEF Serve, serverVars, histories, objects
    <2>2. agent[a] = "listening" /\ agent' = [agent EXCEPT ![a] = "serving"]
        BY <1>3 DEF Serve, Becomes
    <2>3. QED BY <1>t, <2>1, <2>2 DEF TypeOK
<1>4. CASE Wakes(a)
    <2>1. agent[a] \in Listening
        BY <1>4 DEF Wakes, SInv, EventUsers
    <2>2. \A b \in Agents : agent[b] \in Listening => b = a
        BY <2>1, OneListens
    <2>3. /\ agent' = agent /\ asked' = asked
          /\ a \in shouldExit' /\ shouldExit \subseteq shouldExit'
          /\ waiting' = waiting \ {a}
        BY <1>4 DEF Wakes, histories
    <2>4. QED BY <2>1, <2>2, <2>3
<1>5. CASE TrayExit(a)
    BY <1>5 DEF TrayExit, objects
<1>6. CASE StreamOpens(a) \/ StreamEnds(a)
    BY <1>6 DEF StreamOpens, StreamEnds, histories, objects
<1>7. CASE ServerEnds(a)
    <2>1. UNCHANGED <<waiting, shouldExit, asked, signaled>>
        BY <1>7 DEF ServerEnds, serverVars, histories, objects
    <2>2. agent[a] = "serving" /\ agent' = [agent EXCEPT ![a] = "stopping"]
        BY <1>7 DEF ServerEnds, Becomes
    <2>3. QED BY <1>t, <2>1, <2>2 DEF TypeOK
<1>8. CASE StopMonitor(a)
    <2>1. UNCHANGED <<waiting, shouldExit, asked>> /\ signaled'
        BY <1>8 DEF StopMonitor, serverVars, histories
    <2>2. agent[a] = "stopping" /\ agent' = [agent EXCEPT ![a] = "joining"]
        BY <1>8 DEF StopMonitor, Becomes
    <2>3. QED BY <1>t, <2>1, <2>2 DEF TypeOK
<1>9. CASE JoinMonitor(a)
    <2>1. UNCHANGED <<waiting, shouldExit, asked>>
        BY <1>9 DEF JoinMonitor, serverVars, histories
    <2>2. agent[a] = "joining" /\ agent' = [agent EXCEPT ![a] = "releasing"]
        BY <1>9 DEF JoinMonitor, Becomes
    <2>3. \A b \in Agents : agent[b] \in Listening => b = a
        BY <2>2, OneListens
    <2>4. QED BY <1>t, <2>1, <2>2, <2>3 DEF TypeOK
<1>10. CASE Release(a)
    <2>1. signaled' = signaled
        BY <1>10 DEF Release
    <2>2. /\ waiting' = waiting \ {a} /\ shouldExit' = shouldExit \ {a}
          /\ asked' = asked \ {a} /\ agent' = [agent EXCEPT ![a] = "out"]
        BY <1>10 DEF Release, Forget, Becomes
    <2>3. QED BY <1>t, <2>1, <2>2 DEF TypeOK
<1>11. CASE Dies(a)
    <2>1. \A b \in Agents \ {a} : agent[b] \in Listening /\ signaled => signaled'
        <3>1. SUFFICES ASSUME NEW b \in Agents \ {a}, agent[b] \in Listening
                       PROVE  b \in event'
            BY <1>11 DEF Dies, CloseEvent
        <3>2. b \in event
            BY <3>1 DEF SInv, EventUsers
        <3>3. QED BY <1>11, <3>2 DEF Dies, CloseEvent
    <2>2. /\ waiting' = waiting \ {a} /\ shouldExit' = shouldExit \ {a}
          /\ asked' = asked \ {a} /\ agent' = [agent EXCEPT ![a] = "out"]
        BY <1>11 DEF Dies, Forget, Becomes
    <2>3. QED BY <1>t, <2>1, <2>2 DEF TypeOK
<1>12. QED BY <1>1, <1>2, <1>3, <1>4, <1>5, <1>6, <1>7, <1>8, <1>9, <1>10, <1>11 DEF
            AgentActions

LEMMA ArrivalRequestStep ==
    ASSUME IInv, SInv, AInv, NEW r \in Requests, RequestActions(r)
    PROVE  AInv'
<1>1. UNCHANGED <<agent, waiting, shouldExit>>
    BY DEF RequestActions, FindEvent, FindNothing, SetEvent, Peek, Peeked, SeeItGone, GiveUp,
           Return, serverVars
<1>2. CASE SetEvent(r)
    <2>1. signaled' /\ asked' = asked \cup (event \cap Agents)
        BY <1>2 DEF SetEvent
    <2>2. \A a \in Agents : a \in event => agent[a] \in Listening
        BY DEF SInv, EventUsers
    <2>3. QED BY <1>1, <2>1, <2>2 DEF AInv, Monitored, SignalsArrive, Listening
<1>3. CASE ~SetEvent(r)
    <2>1. asked' = asked
        BY <1>3 DEF RequestActions, FindEvent, FindNothing, Peek, Peeked, SeeItGone, GiveUp,
                    Return, histories
    <2>2. signaled /\ waiting # {} => signaled'
        <3>1. CASE Return(r)
            <4>1. \A a \in Agents : a \in waiting => a \in event'
                BY <3>1, ProcessesAssumption DEF Return, CloseEvent, SInv, EventUsers
            <4>2. waiting \subseteq Agents
                BY DEF IInv, TypeOK
            <4>3. QED BY <3>1, <4>1, <4>2 DEF Return, CloseEvent
        <3>2. CASE ~Return(r)
            BY <1>3, <3>2 DEF RequestActions, FindEvent, FindNothing, Peek, Peeked, SeeItGone,
                              GiveUp, objects
        <3>3. QED BY <3>1, <3>2
    <2>3. QED BY <1>1, <2>1, <2>2, ArrivalStays
<1>4. QED BY <1>2, <1>3

(* Whatever asks an Agent to leave reaches its server: the safety that       *)
(* AgentsLeave rests on (shutdown.py 42-59).                                 *)
THEOREM EverySignalArrives == Spec => []SignalsArrive
<1>1. Init => FoundHolds /\ AInv
    BY DEF Init, FoundHolds, AInv, Monitored, SignalsArrive
<1>2. IInv /\ FoundHolds /\ SInv /\ [Next]_vars => SInv'
    BY SignalStep
<1>3. IInv /\ SInv /\ AInv /\ [Next]_vars => AInv'
    <2> SUFFICES ASSUME IInv, SInv, AInv, [Next]_vars PROVE AInv'
        OBVIOUS
    <2>1. CASE SnapshotsChange \/ UNCHANGED vars
        <3>1. UNCHANGED <<agent, signaled, waiting, shouldExit, asked>>
            BY <2>1 DEF SnapshotsChange, vars, objects, serverVars, histories
        <3>2. QED BY <3>1, ArrivalStays
    <2>2. QED BY <2>1, Steps, ArrivalAgentStep, ArrivalRequestStep
<1>4. AInv => SignalsArrive
    BY DEF AInv
<1>5. QED BY <1>1, <1>2, <1>3, <1>4, InvariantStart, InvariantStep, HandlesStay, SignalStart, PTL DEF Spec
=============================================================================
