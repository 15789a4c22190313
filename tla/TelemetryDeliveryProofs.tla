----------------------- MODULE TelemetryDeliveryProofs -----------------------
(***************************************************************************)
(* Proofs about the way of the telemetry to the page: TelemetryStream, the *)
(* Agent's end, for any set of streams, any number of service lives and    *)
(* any number of snapshots in each; TelemetrySocket, the page's end, for   *)
(* any set of WebSocket objects, however late timers run and close events  *)
(* come; and MetricResolution, what is shown, for any machine.             *)
(***************************************************************************)
EXTENDS TelemetryStream, TelemetrySocket, MetricResolution, TLAPS,
        WellFoundedInduction

NotOlder(a, b) == a = b \/ Newer(a, b)

(* The service has not taken a snapshot that is newer than its latest.       *)
TakenBy(a) == a.life < life \/ (a.life = life /\ a.sequence <= latest)

(* A stream that has an answer in hand has one that is at least as new as    *)
(* what it sent, because it was taken later; the cursor is the number of     *)
(* what was sent.                                                            *)
StreamInv(s) ==
    /\ cursor[s] = sent[s].sequence
    /\ TakenBy(sent[s])
    /\ got[s] \in Snapshots => TakenBy(got[s]) /\ NotOlder(got[s], sent[s])
    /\ stream[s] = "sending" => got[s] \in Snapshots /\ got[s].sequence # cursor[s]

IInv == TypeOK /\ \A s \in Streams : StreamInv(s)

LEMMA NothingIsNoSnapshot == Nothing \notin Snapshots /\ Failure \notin Snapshots
  BY MaxLivesAssumption, MaxSequenceAssumption DEF Nothing, Failure, Snapshot, Snapshots

LEMMA InitIInv == Init => IInv
<1> SUFFICES ASSUME Init PROVE IInv
  OBVIOUS
<1>1. TypeOK
  <2>1. life \in 1..MaxLives /\ latest \in 0..MaxSequence
    BY MaxLivesAssumption, MaxSequenceAssumption DEF Init
  <2>2. cursor \in [Streams -> 0..MaxSequence]
    BY MaxSequenceAssumption DEF Init
  <2>3. /\ stream \in [Streams -> StreamSteps]
        /\ got \in [Streams -> Snapshots \cup {Nothing, Failure}]
        /\ sent \in [Streams -> Snapshots \cup {Nothing}]
    BY DEF Init, StreamSteps
  <2>4. QED
    BY <2>1, <2>2, <2>3 DEF Init, TypeOK
<1>2. ASSUME NEW s \in Streams PROVE StreamInv(s)
  <2>1. sent[s] = Nothing /\ got[s] = Nothing /\ cursor[s] = 0 /\ stream[s] = "closed"
    BY DEF Init
  <2>2. Nothing.life = 0 /\ Nothing.sequence = 0 /\ life = 1
    BY DEF Nothing, Snapshot, Init
  <2>3. QED
    BY <2>1, <2>2, NothingIsNoSnapshot DEF StreamInv, TakenBy
<1>3. QED
  BY <1>1, <1>2 DEF IInv

LEMMA TypeStep == IInv /\ [Next]_vars => TypeOK'
<1> SUFFICES ASSUME IInv, [Next]_vars PROVE TypeOK'
  OBVIOUS
<1> USE MaxLivesAssumption, MaxSequenceAssumption
    DEF IInv, TypeOK, StreamSteps, Proceed, vars, serviceVars, streamVars
<1>1. CASE UNCHANGED vars
  BY <1>1
<1>2. CASE Publish \/ ServiceGoes \/ ServiceComes
  <2>1. serving' \in BOOLEAN /\ life' \in 1..MaxLives /\ latest' \in 0..MaxSequence
    <3>1. serving \in BOOLEAN /\ life \in 1..MaxLives /\ latest \in 0..MaxSequence
      OBVIOUS
    <3>2. CASE Publish
      BY <3>1, <3>2, MaxSequenceAssumption DEF Publish
    <3>3. CASE ServiceGoes
      BY <3>1, <3>3 DEF ServiceGoes
    <3>4. CASE ServiceComes
      BY <3>1, <3>4, MaxLivesAssumption DEF ServiceComes
    <3>5. QED
      BY <1>2, <3>2, <3>3, <3>4
  <2>2. UNCHANGED <<offline, probe, stream, browser, cursor, got, sent>>
    BY <1>2 DEF Publish, ServiceGoes, ServiceComes
  <2>3. QED
    BY <2>1, <2>2
<1>3. CASE AskStatus \/ MarkStatus
  BY <1>3 DEF AskStatus, MarkStatus
<1>4. ASSUME NEW s \in Streams, Accept(s) \/ Disconnect(s) PROVE TypeOK'
  BY <1>4 DEF Accept, Disconnect
<1>5. ASSUME NEW s \in Streams, Ask(s) PROVE TypeOK'
  <2>1. serving /\ latest # 0 => Snapshot(life, latest) \in Snapshots
    BY DEF Snapshot, Snapshots
  <2>2. got' \in [Streams -> Snapshots \cup {Nothing, Failure}]
    BY <1>5, <2>1 DEF Ask
  <2>3. QED
    BY <1>5, <2>2 DEF Ask
<1>6. ASSUME NEW s \in Streams, Mark(s) \/ Decide(s) PROVE TypeOK'
  BY <1>6 DEF Mark, Decide
<1>7. ASSUME NEW s \in Streams, Send(s) PROVE TypeOK'
  <2>1. got[s] \in Snapshots
    BY <1>7 DEF Send, StreamInv
  <2>2. got[s].sequence \in 0..MaxSequence
    BY <2>1 DEF Snapshots
  <2>3. QED
    BY <1>7, <2>1, <2>2 DEF Send
<1>8. ASSUME NEW s \in Streams, Pause(s) PROVE TypeOK'
  BY <1>8 DEF Pause
<1>9. QED
  BY <1>1, <1>2, <1>3, <1>4, <1>5, <1>6, <1>7, <1>8 DEF Next, Stream

(* The actions of a stream leave the other streams alone.                    *)
LEMMA StreamStep ==
    ASSUME IInv, [Next]_vars, NEW s \in Streams
    PROVE  StreamInv(s)'
<1> USE NothingIsNoSnapshot
    DEF StreamInv, TakenBy, NotOlder, Newer, Proceed, vars, serviceVars, streamVars
<1>0. /\ StreamInv(s)
      /\ TypeOK
      /\ life \in Nat /\ latest \in Nat
      /\ stream[s] \in StreamSteps
  BY MaxLivesAssumption, MaxSequenceAssumption DEF IInv, TypeOK
<1>1. CASE UNCHANGED vars
  BY <1>0, <1>1
<1>2. CASE Publish \/ ServiceGoes \/ ServiceComes
  <2>1. UNCHANGED streamVars
    BY <1>2 DEF Publish, ServiceGoes, ServiceComes
  <2>2. TakenBy(sent[s]) => TakenBy(sent[s])'
    <3>1. sent[s].life \in Nat /\ sent[s].sequence \in Nat
      BY <1>0 DEF TypeOK, Snapshots, Nothing, Snapshot
    <3>2. QED
      BY <1>0, <1>2, <2>1, <3>1 DEF Publish, ServiceGoes, ServiceComes
  <2>3. got[s] \in Snapshots /\ TakenBy(got[s]) => TakenBy(got[s])'
    <3>1. got[s] \in Snapshots => got[s].life \in Nat /\ got[s].sequence \in Nat
      BY DEF Snapshots
    <3>2. QED
      BY <1>0, <1>2, <2>1, <3>1 DEF Publish, ServiceGoes, ServiceComes
  <2>4. QED
    BY <1>0, <2>1, <2>2, <2>3
<1>3. CASE AskStatus \/ MarkStatus
  BY <1>0, <1>3 DEF AskStatus, MarkStatus
<1>4. ASSUME NEW r \in Streams, Accept(r) PROVE StreamInv(s)'
  <2>1. CASE r = s
    <3>1. got[s] \in Snapshots => Newer(got[s], Nothing)
      BY DEF Snapshots, Nothing, Snapshot
    <3>2. sent'[s] = Nothing /\ cursor'[s] = 0 /\ got'[s] = got[s] /\ stream'[s] = "asking"
      BY <1>0, <1>4, <2>1 DEF Accept, TypeOK
    <3>3. Nothing.life = 0 /\ Nothing.sequence = 0 /\ life > 0 /\ life' = life /\ latest' = latest
      BY <1>0, <1>4 DEF Nothing, Snapshot, TypeOK, Accept
    <3>4. QED
      BY <1>0, <3>1, <3>2, <3>3
  <2>2. CASE r # s
    BY <1>0, <1>4, <2>2 DEF Accept, TypeOK
  <2>3. QED
    BY <2>1, <2>2
<1>5. ASSUME NEW r \in Streams, Disconnect(r) PROVE StreamInv(s)'
  BY <1>0, <1>5 DEF Disconnect
<1>6. ASSUME NEW r \in Streams, Ask(r) PROVE StreamInv(s)'
  <2>1. CASE r = s
    <3>1. stream'[s] = "marking" /\ sent'[s] = sent[s] /\ cursor'[s] = cursor[s]
      BY <1>0, <1>6, <2>1 DEF Ask, TypeOK
    <3>2. got'[s] \in Snapshots => got'[s] = Snapshot(life, latest)
      BY <1>0, <1>6, <2>1 DEF Ask, TypeOK
    <3>3. NotOlder(Snapshot(life, latest), sent[s]) /\ TakenBy(Snapshot(life, latest))
      <4>1. /\ sent[s] = [life |-> sent[s].life, sequence |-> sent[s].sequence]
            /\ sent[s].life \in Nat /\ sent[s].sequence \in Nat
        BY <1>0 DEF TypeOK, Snapshots, Nothing, Snapshot
      <4>2. QED
        BY <1>0, <4>1 DEF Snapshot
    <3>4. QED
      BY <1>0, <1>6, <3>1, <3>2, <3>3 DEF Ask
  <2>2. CASE r # s
    BY <1>0, <1>6, <2>2 DEF Ask, TypeOK
  <2>3. QED
    BY <2>1, <2>2
<1>7. ASSUME NEW r \in Streams, Mark(r) PROVE StreamInv(s)'
  BY <1>0, <1>7 DEF Mark, TypeOK
<1>8. ASSUME NEW r \in Streams, Decide(r) PROVE StreamInv(s)'
  BY <1>0, <1>8 DEF Decide, TypeOK
<1>9. ASSUME NEW r \in Streams, Send(r) PROVE StreamInv(s)'
  BY <1>0, <1>9 DEF Send, TypeOK
<1>10. ASSUME NEW r \in Streams, Pause(r) PROVE StreamInv(s)'
  BY <1>0, <1>10 DEF Pause, TypeOK
<1>11. QED
  BY <1>1, <1>2, <1>3, <1>4, <1>5, <1>6, <1>7, <1>8, <1>9, <1>10 DEF Next, Stream

LEMMA Inductive == Spec => []IInv
<1>1. IInv /\ [Next]_vars => IInv'
  BY TypeStep, StreamStep DEF IInv
<1>2. QED
  BY InitIInv, <1>1, PTL DEF Spec

(* Every variable of the streams keeps its type.                             *)
THEOREM StreamTypeCorrect == Spec => []TypeOK
<1>1. IInv => TypeOK
  BY DEF IInv
<1>2. QED
  BY Inductive, <1>1, PTL

(* What a browser receives is newer than all it received before, for any     *)
(* number of streams, lives of the service and snapshots (websocket.py).     *)
THEOREM BrowsersGetNewer == Spec => SentInOrder
<1>1. ASSUME IInv, [Next]_vars
      PROVE  [\A s \in Streams :
                stream[s] = "sending" /\ stream'[s] = "pausing" => Newer(sent'[s], sent[s])]_vars
  <2> SUFFICES ASSUME Next, NEW s \in Streams, stream[s] = "sending", stream'[s] = "pausing"
               PROVE  Newer(sent'[s], sent[s])
    BY <1>1
  <2> USE DEF IInv, TypeOK, Proceed, streamVars
  <2>1. Send(s)
    BY <1>1 DEF Next, Publish, ServiceGoes, ServiceComes, AskStatus, MarkStatus, Stream, Accept,
                Disconnect, Ask, Mark, Decide, Send, Pause
  <2>2. sent'[s] = got[s]
    BY <1>1, <2>1 DEF Send
  <2>3. got[s].sequence # sent[s].sequence /\ NotOlder(got[s], sent[s])
    BY <1>1 DEF StreamInv
  <2>4. QED
    BY <2>2, <2>3 DEF NotOlder
<1>2. QED
  BY Inductive, <1>1, PTL DEF Spec, SentInOrder

(* A stream passes over a snapshot only if its number is the one its browser *)
(* was sent last: the safety that BrowsersCatchUp rests on.                  *)
THEOREM NothingNewIsPassedOver == Spec => []PassesOverOnlyShown
<1>1. Init => PassesOverOnlyShown
  BY DEF Init, PassesOverOnlyShown
<1>2. IInv /\ PassesOverOnlyShown /\ [Next]_vars => PassesOverOnlyShown'
  <2> SUFFICES ASSUME IInv, PassesOverOnlyShown, [Next]_vars, NEW s \in Streams,
                      stream'[s] = "pausing", got'[s] \in Snapshots
               PROVE  got'[s].sequence = sent'[s].sequence
    BY DEF PassesOverOnlyShown, Snapshots
  <2> USE DEF IInv, TypeOK, Proceed, serviceVars, streamVars
  <2>1. CASE UNCHANGED <<stream, got, sent>>
    BY <2>1 DEF PassesOverOnlyShown
  <2>2. ASSUME NEW r \in Streams, Decide(r) PROVE got'[s].sequence = sent'[s].sequence
    <3>1. CASE r = s
      BY <2>2, <3>1 DEF Decide, StreamInv
    <3>2. CASE r # s
      BY <2>2, <3>2 DEF Decide, PassesOverOnlyShown
    <3>3. QED
      BY <3>1, <3>2
  <2>3. ASSUME NEW r \in Streams, Ask(r) \/ Mark(r) \/ Send(r) \/ Pause(r) \/ Accept(r)
        PROVE  got'[s].sequence = sent'[s].sequence
    <3>1. CASE r = s
      BY <2>3, <3>1, NothingIsNoSnapshot DEF Ask, Mark, Send, Pause, Accept
    <3>2. CASE r # s
      BY <2>3, <3>2 DEF Ask, Mark, Send, Pause, Accept, PassesOverOnlyShown
    <3>3. QED
      BY <3>1, <3>2
  <2>4. QED
    BY <2>1, <2>2, <2>3 DEF Next, Stream, Publish, ServiceGoes, ServiceComes, AskStatus, MarkStatus,
                            Disconnect, vars
<1>3. QED
  BY <1>1, <1>2, Inductive, PTL DEF Spec

-----------------------------------------------------------------------------
(* The page's end. *)

(* A socket that is connecting or open is the current one, which stop() has  *)
(* closed and forgotten.                                                     *)
CurrentIsActive ==
    \A s \in Sockets : state[s] \in {"connecting", "open"} => s = socket /\ ~stopped

SocketInv == SocketTypeOK /\ CurrentIsActive

LEMMA DelaysFacts ==
    /\ Len(Delays) = 4
    /\ \A n \in 1..4 : Delays[n] \in 0..8
  BY DEF Delays

LEMMA InitSocketInv == SocketInit => SocketInv
<1> SUFFICES ASSUME SocketInit PROVE SocketInv
  OBVIOUS
<1>1. state \in [Sockets -> {"free", "connecting", "open", "closing"}]
  BY DEF SocketInit
<1>2. reconnectAttempt \in 0..Len(Delays)
  BY DelaysFacts DEF SocketInit
<1>3. SocketTypeOK
  BY <1>1, <1>2 DEF SocketInit, SocketTypeOK
<1>4. CurrentIsActive
  BY NoSocketAssumption DEF SocketInit, CurrentIsActive
<1>5. QED
  BY <1>3, <1>4 DEF SocketInv

LEMMA SocketTypeStep == SocketInv /\ [SocketNext]_socketVars => SocketTypeOK'
<1> SUFFICES ASSUME SocketInv, [SocketNext]_socketVars PROVE SocketTypeOK'
  OBVIOUS
<1> USE DelaysFacts, NoSocketAssumption
    DEF SocketInv, SocketTypeOK, Off, OfflineAfter, socketVars, timers, histories
<1>1. CASE UNCHANGED socketVars
  BY <1>1
<1>2. ASSUME Connect PROVE SocketTypeOK'
  <2>1. CASE Active(socket)
    BY <1>2, <2>1 DEF Connect
  <2>2. CASE ~Active(socket)
    <3>1. PICK s \in Sockets : /\ state' = [state EXCEPT ![s] = "connecting"]
                               /\ socket' = s
                               /\ status' = AttemptAnnounced
      BY <1>2, <2>2 DEF Connect
    <3>2. status' \in {"connecting", "connected", "reconnecting", "offline"}
      BY <3>1 DEF AttemptAnnounced
    <3>3. state' \in [Sockets -> {"free", "connecting", "open", "closing"}]
      BY <3>1
    <3>4. QED
      BY <1>2, <3>1, <3>2, <3>3 DEF Connect
  <2>3. QED
    BY <2>1, <2>2
<1>3. CASE ReconnectTimer \/ BecomesVisible
  BY <1>2, <1>3 DEF ReconnectTimer, BecomesVisible
<1>4. CASE OfflineTimer
  BY <1>4 DEF OfflineTimer
<1>5. CASE Stop
  BY <1>5 DEF Stop
<1>6. CASE Tick
  BY <1>6 DEF Tick
<1>7. ASSUME NEW s \in Sockets, Opened(s) \/ Closing(s) PROVE SocketTypeOK'
  <2>1. CASE Closing(s)
    BY <2>1 DEF Closing
  <2>2. CASE Opened(s) /\ socket = s /\ ~stopped
    <3>1. /\ state' = [state EXCEPT ![s] = "open"]
          /\ reconnectAttempt' = 0 /\ offlineAnnounced' = FALSE /\ offlineTimer' = Off
          /\ status' = "connected" /\ down' = Off /\ late' = FALSE
          /\ UNCHANGED <<socket, reconnectTimer, stopped>>
      BY <2>2 DEF Opened
    <3>2. 0 \in 0..Len(Delays)
      BY DelaysFacts
    <3>3. QED
      BY <3>1, <3>2
  <2>3. CASE Opened(s) /\ ~(socket = s /\ ~stopped)
    <3>1. /\ state' = [state EXCEPT ![s] = "open"]
          /\ UNCHANGED <<reconnectAttempt, offlineAnnounced, offlineTimer, status, down, late>>
          /\ UNCHANGED <<socket, reconnectTimer, stopped>>
      BY <2>3 DEF Opened
    <3>2. QED
      BY <3>1
  <2>4. QED
    BY <1>7, <2>1, <2>2, <2>3
<1>8. ASSUME NEW s \in Sockets, Closed(s) PROVE SocketTypeOK'
  <2>1. CASE stopped
    BY <1>8, <2>1 DEF Closed
  <2>2. CASE ~stopped
    <3>1. reconnectTimer' \in {Off} \cup 0..8 /\ reconnectAttempt' \in 0..Len(Delays)
      BY <1>8, <2>2 DEF Closed, ScheduleReconnect
    <3>2. offlineTimer' \in {Off} \cup 0..OfflineAfter
      BY <1>8, <2>2 DEF Closed, StartOfflineTimer
    <3>3. status' \in {"connecting", "connected", "reconnecting", "offline"}
      BY <1>8, <2>2 DEF Closed, CloseAnnounced
    <3>4. QED
      BY <1>8, <2>2, <3>1, <3>2, <3>3 DEF Closed
  <2>3. QED
    BY <2>1, <2>2
<1>9. QED
  BY <1>1, <1>3, <1>4, <1>5, <1>6, <1>7, <1>8 DEF SocketNext

LEMMA CurrentStep == SocketInv /\ [SocketNext]_socketVars => CurrentIsActive'
<1> SUFFICES ASSUME SocketInv, [SocketNext]_socketVars PROVE CurrentIsActive'
  OBVIOUS
<1> USE NoSocketAssumption DEF SocketInv, SocketTypeOK, CurrentIsActive, socketVars, timers, histories
<1>1. CASE UNCHANGED socketVars
  BY <1>1
<1>2. CASE ReconnectTimer \/ BecomesVisible
  BY <1>2 DEF ReconnectTimer, BecomesVisible, Connect, Active
<1>3. CASE OfflineTimer \/ Tick
  BY <1>3 DEF OfflineTimer, Tick
<1>4. CASE Stop
  BY <1>4 DEF Stop
<1>5. ASSUME NEW s \in Sockets, Opened(s) \/ Closing(s) PROVE CurrentIsActive'
  BY <1>5 DEF Opened, Closing
<1>6. ASSUME NEW s \in Sockets, Closed(s) PROVE CurrentIsActive'
  BY <1>6 DEF Closed
<1>7. QED
  BY <1>1, <1>2, <1>3, <1>4, <1>5, <1>6 DEF SocketNext

LEMMA SocketInvariance == SocketSpec => []SocketInv
<1>1. SocketInv /\ [SocketNext]_socketVars => SocketInv'
  BY SocketTypeStep, CurrentStep DEF SocketInv
<1>2. QED
  BY InitSocketInv, <1>1, PTL DEF SocketSpec

(* Every variable of the connection keeps its type: the timers stay within   *)
(* their delays and the page is told one of four states.                     *)
THEOREM SocketTypeCorrect == SocketSpec => []SocketTypeOK
<1>1. SocketInv => SocketTypeOK
  BY DEF SocketInv
<1>2. QED
  BY SocketInvariance, <1>1, PTL

(* The page never has two connections, and none once it has stopped, for any *)
(* number of sockets whose close events are still to come.                   *)
THEOREM SingleConnection == SocketSpec => []OneConnection
<1>1. SocketInv => OneConnection
  BY DEF SocketInv, CurrentIsActive, OneConnection
<1>2. QED
  BY SocketInvariance, <1>1, PTL

LEMMA AttemptsStep == SocketInv /\ AttemptsGoOn /\ [SocketNext]_socketVars => AttemptsGoOn'
<1> SUFFICES ASSUME SocketInv, AttemptsGoOn, [SocketNext]_socketVars PROVE AttemptsGoOn'
  OBVIOUS
<1> USE NoSocketAssumption
    DEF SocketInv, SocketTypeOK, AttemptsGoOn, Active, Off, socketVars, timers, histories
<1>1. CASE UNCHANGED socketVars
  BY <1>1
<1>2. CASE ReconnectTimer \/ BecomesVisible
  BY <1>2 DEF ReconnectTimer, BecomesVisible, Connect
<1>3. CASE OfflineTimer \/ Tick
  BY <1>3 DEF OfflineTimer, Tick
<1>4. CASE Stop
  BY <1>4 DEF Stop
<1>5. ASSUME NEW s \in Sockets, Opened(s) \/ Closing(s) PROVE AttemptsGoOn'
  BY <1>5 DEF Opened, Closing
<1>6. ASSUME NEW s \in Sockets, Closed(s) PROVE AttemptsGoOn'
  <2>1. CASE stopped
    BY <1>6, <2>1 DEF Closed
  <2>2. CASE ~stopped
    <3>1. reconnectTimer' # Off
      <4>1. Delays[IF reconnectAttempt < 4 THEN reconnectAttempt + 1 ELSE 4] \in 0..8
        BY DelaysFacts
      <4>2. QED
        BY <1>6, <2>2, <4>1 DEF Closed, ScheduleReconnect
    <3>2. QED
      BY <3>1
  <2>3. QED
    BY <2>1, <2>2
<1>7. QED
  BY <1>1, <1>2, <1>3, <1>4, <1>5, <1>6 DEF SocketNext

(* The attempts never run dry: without a connection, there is a reconnect    *)
(* timer or a close event still to come that sets one.                       *)
THEOREM AttemptsNeverRunDry == SocketSpec => []AttemptsGoOn
<1>1. SocketInit => AttemptsGoOn
  BY NoSocketAssumption DEF SocketInit, AttemptsGoOn, Active
<1>2. QED
  BY SocketInvariance, AttemptsStep, <1>1, PTL DEF SocketSpec

(* What the page was told, and the time since its connection was lost. Once  *)
(* a replaced socket has closed, the time is no longer that of its successor. *)
DisplayInv ==
    /\ ConnectedIsShown
    /\ status = "connected" => ~offlineAnnounced
    /\ offlineAnnounced => status \in {"offline", "connecting"}
    /\ ~stopped /\ down # Off => ~Open(socket)
    /\ ~late => /\ offlineTimer # Off => down # Off /\ down + offlineTimer >= OfflineAfter
                /\ offlineAnnounced \/ status = "offline" => down >= OfflineAfter
    /\ ~stopped /\ down # Off =>
          \/ offlineAnnounced
          \/ offlineTimer # Off /\ (offlineTimer = 0 \/ down + offlineTimer <= OfflineAfter)

LEMMA DisplayStep == SocketInv /\ DisplayInv /\ [SocketNext]_socketVars => DisplayInv'
<1> SUFFICES ASSUME SocketInv, DisplayInv, [SocketNext]_socketVars PROVE DisplayInv'
  OBVIOUS
<1> USE NoSocketAssumption
    DEF SocketInv, SocketTypeOK, CurrentIsActive, DisplayInv, ConnectedIsShown, Active, Open, Off,
        OfflineAfter, socketVars, timers, histories
<1>1. CASE UNCHANGED socketVars
  BY <1>1
<1>2. CASE ReconnectTimer \/ BecomesVisible
  BY <1>2 DEF ReconnectTimer, BecomesVisible, Connect, AttemptAnnounced
<1>3. CASE OfflineTimer
  BY <1>3 DEF OfflineTimer
<1>4. CASE Tick
  BY <1>4 DEF Tick
<1>5. CASE Stop
  BY <1>5 DEF Stop
<1>6. ASSUME NEW s \in Sockets, Opened(s) PROVE DisplayInv'
  BY <1>6 DEF Opened
<1>7. ASSUME NEW s \in Sockets, Closing(s) PROVE DisplayInv'
  BY <1>7 DEF Closing
<1>8. ASSUME NEW s \in Sockets, Closed(s) PROVE DisplayInv'
  <2>1. CASE stopped
    BY <1>8, <2>1 DEF Closed
  <2>2. CASE ~stopped
    <3>1. /\ status' = CloseAnnounced /\ late' = (late \/ socket # s)
          /\ offlineTimer' = IF offlineTimer = Off THEN OfflineAfter ELSE offlineTimer
          /\ down' = IF down = Off /\ (socket = s \/ ~Open(socket)) THEN 0 ELSE down
          /\ socket' = IF socket = s THEN NoSocket ELSE socket
          /\ \A r \in Sockets \ {s} : state'[r] = state[r]
          /\ UNCHANGED <<offlineAnnounced, stopped>>
      BY <1>8, <2>2 DEF Closed, StartOfflineTimer
    <3>2. Open(socket)' => Open(socket) /\ socket' = socket /\ socket # s
      BY <3>1
    <3>3. ConnectedIsShown'
      BY <3>1, <3>2 DEF CloseAnnounced
    <3>4. down' # Off => ~Open(socket)'
      BY <2>2, <3>1, <3>2
    <3>5. late = FALSE /\ socket = s => down' # Off /\ down' + offlineTimer' >= OfflineAfter
      BY <2>2, <3>1
    <3>6. down' # Off =>
             \/ offlineAnnounced
             \/ offlineTimer' # Off /\ (offlineTimer' = 0 \/ down' + offlineTimer' <= OfflineAfter)
      BY <2>2, <3>1
    <3>7. status' # "connected" \/ ~offlineAnnounced
      BY <3>1 DEF CloseAnnounced
    <3>8. offlineAnnounced => status' \in {"offline", "connecting"}
      BY <3>1 DEF CloseAnnounced
    <3>9. ~late' => late = FALSE /\ socket = s
      BY <3>1
    <3>10. ~late' /\ (offlineAnnounced \/ status' = "offline") => down' >= OfflineAfter
      BY <3>1, <3>9 DEF CloseAnnounced
    <3>11. QED
      BY <2>2, <3>1, <3>3, <3>4, <3>5, <3>6, <3>7, <3>8, <3>9, <3>10
  <2>3. QED
    BY <2>1, <2>2
<1>9. QED
  BY <1>1, <1>2, <1>3, <1>4, <1>5, <1>6, <1>7, <1>8 DEF SocketNext

(* Connected is shown exactly while the page is connected and offline        *)
(* neither before nor after fifteen seconds without a connection, for any    *)
(* order of timers, visibility changes and close events, except as the late  *)
(* close of a replaced socket has it.                                        *)
THEOREM DisplayIsTruthful == SocketSpec => []ShownTruthfully
<1>1. SocketInit => DisplayInv
  BY DEF SocketInit, DisplayInv, ConnectedIsShown, Open, Off
<1>2. SocketInv /\ DisplayInv => ShownTruthfully
  BY DEF SocketInv, SocketTypeOK, DisplayInv, ShownTruthfully, OfflineIsEarned, OfflineInTime, Off,
         OfflineAfter
<1>3. QED
  BY SocketInvariance, DisplayStep, <1>1, <1>2, PTL DEF SocketSpec
-----------------------------------------------------------------------------
(* MetricResolution.  Lemmas about its operators: a set of numbers has a     *)
(* least, every name has a rank, and the ranks order the sensors of a        *)
(* machine without a tie.                                                    *)
LEMMA MinOfNaturals ==
    ASSUME NEW S, S \subseteq Nat, S # {}
    PROVE  Min(S) \in S /\ \A y \in S : Min(S) <= y
<1> DEFINE R == OpToRel(<, Nat)
<1>1. \A x, y \in Nat : x < y => <<x, y>> \in R
  BY DEF OpToRel
<1>2. IsWellFoundedOn(R, Nat)
  BY NatLessThanWellFounded
<1> HIDE DEF R
<1>3. PICK x \in S : \A y \in S : ~(<<y, x>> \in R)
  BY <1>2, WFMin
<1>4. ASSUME NEW y \in S PROVE x <= y
  <2>1. x \in Nat /\ y \in Nat
    OBVIOUS
  <2>2. ~(y < x)
    BY <1>1, <1>3, <2>1
  <2>3. QED
    BY <2>1, <2>2
<1>5. QED
  BY <1>4 DEF Min

(* Every rule of the table, and the rule for the rest of the memory.         *)
AnyRule(rule) == rule = AvailableRule \/ \E key \in MetricKeys : rule = Rules[key]

Positions(preferred) == DOMAIN preferred \subseteq Nat /\ Len(preferred) \in Nat

LEMMA RulesHavePositions ==
    ASSUME NEW rule, AnyRule(rule)
    PROVE  Positions(rule.preferred)
<1>1. /\ \A a : Positions(<<a>>)
      /\ \A a, b : Positions(<<a, b>>)
      /\ \A a, b, c : Positions(<<a, b, c>>)
      /\ \A a, b, c, d : Positions(<<a, b, c, d>>)
      /\ \A a, b, c, d, e : Positions(<<a, b, c, d, e>>)
  BY DEF Positions
<1>2. Positions(AvailableRule.preferred)
  BY <1>1 DEF AvailableRule, Rule, Required
<1>3. \A key \in MetricKeys : Positions(Rules[key].preferred)
  BY <1>1, ZenonT(60) DEF Rules, MetricKeys, Rule, Required, Peak
<1>4. QED
  BY <1>2, <1>3 DEF AnyRule

LEMMA RankIsNatural ==
    ASSUME NEW rule, AnyRule(rule), NEW s
    PROVE  NameRank(s, rule) \in Nat
<1> DEFINE S == {i \in DOMAIN rule.preferred : Names(s, rule.preferred[i])}
                    \cup {Len(rule.preferred) + 1}
<1>1. S \subseteq Nat /\ S # {}
  BY RulesHavePositions DEF Positions
<1>2. QED
  BY <1>1, MinOfNaturals DEF NameRank

LEMMA RanksAreStrict ==
    ASSUME NEW rule, AnyRule(rule), NEW m \in Machines, NEW s \in m, NEW r \in m
    PROVE  ~(Outranks(s, r, rule) /\ Outranks(r, s, rule))
  BY RankIsNatural, MachinesAssumption DEF Outranks

LEMMA SomeSensorIsFirst ==
    ASSUME NEW rule, AnyRule(rule), NEW m \in Machines, NEW C, C \subseteq m, C # {}
    PROVE  \E s \in C : \A r \in C \ {s} : Outranks(s, r, rule)
<1> DEFINE Rank(s) == NameRank(s, rule)
           C1 == {s \in C : Rank(s) = Min({Rank(x) : x \in C})}
           C2 == {s \in C1 : s.device = Min({x.device : x \in C1})}
           C3 == {s \in C2 : s.id = Min({x.id : x \in C2})}
<1>1. \A s \in C : Rank(s) \in Nat /\ s.device \in Nat /\ s.id \in Nat
  BY RankIsNatural, MachinesAssumption
<1>2. C1 # {} /\ \A s \in C1, r \in C : Rank(s) <= Rank(r)
  <2> DEFINE S == {Rank(x) : x \in C}
  <2>1. S \subseteq Nat /\ S # {}
    BY <1>1
  <2> HIDE DEF Rank
  <2>2. Min(S) \in S /\ \A y \in S : Min(S) <= y
    BY <2>1, MinOfNaturals
  <2>3. QED
    BY <2>2
<1>3. C2 # {} /\ \A s \in C2, r \in C1 : s.device <= r.device
  <2> DEFINE S == {x.device : x \in C1}
  <2>1. S \subseteq Nat /\ S # {}
    BY <1>1, <1>2
  <2>2. Min(S) \in S /\ \A y \in S : Min(S) <= y
    BY <2>1, MinOfNaturals
  <2> HIDE DEF C1
  <2>3. QED
    BY <2>2
<1>4. C3 # {} /\ \A s \in C3, r \in C2 : s.id <= r.id
  <2> DEFINE S == {x.id : x \in C2}
  <2>1. S \subseteq Nat /\ S # {}
    BY <1>1, <1>3
  <2>2. Min(S) \in S /\ \A y \in S : Min(S) <= y
    BY <2>1, MinOfNaturals
  <2> HIDE DEF C2
  <2>3. QED
    BY <2>2
<1>5. PICK s \in C3 : TRUE
  BY <1>4
<1>6. ASSUME NEW r \in C \ {s} PROVE Outranks(s, r, rule)
  <2>1. s \in C /\ s \in C1 /\ s \in C2 /\ s \in C3
    OBVIOUS
  <2>2. s.device = r.device /\ s.id = r.id => s = r
    BY <2>1, MachinesAssumption
  <2>3. Rank(s) <= Rank(r)
    BY <1>2, <2>1
  <2>4. Rank(s) = Rank(r) => s.device <= r.device
    BY <1>3, <2>1
  <2>5. Rank(s) = Rank(r) /\ s.device = r.device => s.id <= r.id
    BY <1>4, <2>1
  <2> HIDE DEF C1, C2, C3
  <2>6. QED
    BY <1>1, <2>1, <2>2, <2>3, <2>4, <2>5 DEF Outranks
<1>7. QED
  BY <1>5, <1>6

-----------------------------------------------------------------------------
(* What a snapshot is made of: sensors of one machine, whole devices of it,  *)
(* and values only of sensors that are in the snapshot.                      *)
SnapshotInv ==
    /\ machine \in Machines
    /\ sensors \subseteq machine /\ valued \subseteq sensors /\ peaked \subseteq sensors
    /\ \A s \in sensors, r \in machine : r.device = s.device => r \in sensors

LEMMA SnapshotsAreWhole == MetricSpec => []SnapshotInv
<1>1. MetricInit => SnapshotInv
  BY DEF MetricInit, SnapshotInv
<1>2. SnapshotInv /\ [Collect]_metricVars => SnapshotInv'
  <2> SUFFICES ASSUME SnapshotInv, [Collect]_metricVars PROVE SnapshotInv'
    OBVIOUS
  <2>1. CASE Collect
    BY <2>1 DEF Collect, SnapshotInv
  <2>2. CASE UNCHANGED metricVars
    BY <2>2 DEF metricVars, SnapshotInv
  <2>3. QED
    BY <2>1, <2>2
<1>3. QED
  BY <1>1, <1>2, PTL DEF MetricSpec

LEMMA CandidatesAreSensors ==
    ASSUME SnapshotInv, NEW rule
    PROVE  Candidates(rule) \subseteq sensors /\ Candidates(rule) \subseteq machine
  BY DEF SnapshotInv, Candidates

(* At most one sensor is selected, and one wherever there is a candidate.    *)
LEMMA OneIsSelected ==
    ASSUME SnapshotInv, NEW rule, AnyRule(rule), Candidates(rule) # {}
    PROVE  \E s \in Candidates(rule) : Selected(rule) = {s}
<1> DEFINE C == Candidates(rule)
<1>1. machine \in Machines /\ C \subseteq machine /\ C # {}
  BY CandidatesAreSensors DEF SnapshotInv
<1>2. PICK s \in C : \A r \in C \ {s} : Outranks(s, r, rule)
  <2> HIDE DEF C
  <2>1. QED
    BY <1>1, SomeSensorIsFirst
<1>3. s \in Selected(rule)
  BY <1>2 DEF Selected
<1>4. ASSUME NEW r \in Selected(rule) PROVE r = s
  <2>1. r \in C /\ (r # s => Outranks(r, s, rule))
    BY DEF Selected
  <2>2. r # s => Outranks(s, r, rule)
    BY <1>2, <2>1
  <2>3. QED
    BY <1>1, <2>1, <2>2, RanksAreStrict
<1>5. QED
  BY <1>3, <1>4

(* The device selected is the first of those in the snapshot.                *)
LEMMA SelectedDeviceIsFirst ==
    ASSUME SnapshotInv, NEW r \in sensors
    PROVE  SelectDevice(r.kind) <= r.device
<1> DEFINE S == {s.device : s \in {x \in sensors : x.kind = r.kind}}
<1>1. S \subseteq Nat /\ S # {} /\ r.device \in S
  BY MachinesAssumption DEF SnapshotInv
<1>2. SelectDevice(r.kind) = Min(S)
  BY <1>1 DEF SelectDevice
<1>3. QED
  BY <1>1, <1>2, MinOfNaturals

(* Whatever machine, and whatever values and GPUs are missing, each metric   *)
(* has one source and all GPU metrics have it on the first GPU that is there *)
(* (metrics.py 253-258, 346-377, 416-439).                                   *)
THEOREM MetricsHaveOneSource == MetricSpec => []OneSource
<1>1. SnapshotInv => OneSource
  <2> SUFFICES ASSUME SnapshotInv PROVE OneSource
    OBVIOUS
  <2>1. Determined
    <3> SUFFICES ASSUME NEW rule \in {Rules[key] : key \in MetricKeys} \cup {AvailableRule},
                        Candidates(rule) # {}
                 PROVE  \E s \in sensors : Selected(rule) = {s}
      BY DEF Determined
    <3>1. AnyRule(rule)
      BY DEF AnyRule
    <3>2. QED
      BY <3>1, OneIsSelected, CandidatesAreSensors
  <2>2. OneGpu
    <3> SUFFICES ASSUME NEW key \in MetricKeys, NEW s \in Selected(Rules[key]), s.kind = "gpu",
                        NEW r \in sensors, r.kind = "gpu"
                 PROVE  s.device <= r.device
      BY DEF OneGpu
    <3>1. Matches(s, Rules[key])
      BY DEF Selected, Candidates
    <3>2. s.device = SelectDevice("gpu")
      BY <3>1 DEF Matches
    <3>3. QED
      BY <3>2, SelectedDeviceIsFirst
  <2>3. QED
    BY <2>1, <2>2 DEF OneSource
<1>2. QED
  BY <1>1, SnapshotsAreWhole, PTL

(* The GPU changes only when devices come or go, and of two sensors that     *)
(* both show a reading before and after, on a GPU that stays, one does not   *)
(* replace the other: the order of the ranks knows nothing of the values.    *)
THEOREM SourcesStay == MetricSpec => SwitchesForCause
<1> DEFINE Stays == SelectDevice("gpu")' = SelectDevice("gpu")
           Kept == LET stays == Stays IN
               /\ {s.device : s \in sensors} = {s.device : s \in sensors'} => stays
               /\ stays => \A key \in MetricKeys :
                     \A s \in Selected(Rules[key]), r \in Selected(Rules[key])' :
                         Shows(s, key)' /\ Shows(r, key) => s = r
<1>1. SnapshotInv /\ SnapshotInv' /\ [Collect]_metricVars => [Kept]_metricVars
  <2> SUFFICES ASSUME SnapshotInv, SnapshotInv', Collect PROVE Kept
    OBVIOUS
  <2>1. machine' = machine
    BY DEF Collect
  <2>2. ASSUME {s.device : s \in sensors} = {s.device : s \in sensors'} PROVE Stays
    <3>1. sensors' = sensors
      BY <2>1, <2>2 DEF SnapshotInv
    <3>2. QED
      BY <3>1 DEF SelectDevice
  <2>3. ASSUME Stays, NEW key \in MetricKeys,
               NEW s \in Selected(Rules[key]), NEW r \in Selected(Rules[key])',
               Shows(s, key)', Shows(r, key)
        PROVE  s = r
    <3> DEFINE rule == Rules[key]
    <3>1. AnyRule(rule) /\ machine \in Machines
      BY DEF AnyRule, SnapshotInv
    <3>2. s \in Candidates(rule) /\ \A x \in Candidates(rule) \ {s} : Outranks(s, x, rule)
      BY DEF Selected
    <3>3. r \in Candidates(rule)' /\ \A x \in Candidates(rule)' \ {r} : Outranks(r, x, rule)
      BY DEF Selected, Outranks, NameRank, Names
    <3>4. Matches(s, rule)' /\ Matches(r, rule)
      BY <2>3, <3>2, <3>3 DEF Candidates, Matches, Names
    <3>5. s \in Candidates(rule)' /\ r \in Candidates(rule)
      BY <2>3, <3>4 DEF Candidates, Shows
    <3>6. s \in machine /\ r \in machine
      BY <3>2, <3>5, CandidatesAreSensors
    <3>7. s # r => Outranks(s, r, rule) /\ Outranks(r, s, rule)
      BY <3>2, <3>3, <3>5
    <3> HIDE DEF rule
    <3>8. QED
      BY <3>1, <3>6, <3>7, RanksAreStrict
  <2>4. QED
    BY <2>2, <2>3
<1>2. QED
  BY <1>1, SnapshotsAreWhole, PTL DEF MetricSpec, SwitchesForCause
=============================================================================
