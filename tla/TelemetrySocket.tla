--------------------------- MODULE TelemetrySocket ---------------------------
(***************************************************************************)
(* The web client's telemetry connection,                                  *)
(* js/services/websocket-telemetry.js: it connects again with a backoff    *)
(* when its WebSocket closes, at once when the page becomes visible, and   *)
(* tells the page whether it is connected.                                 *)
(*                                                                         *)
(* A step is one callback of the page.  Time is in seconds; a timer that   *)
(* is due may run late, as the timers of a page in the background do.  A   *)
(* socket between its close handshake and its close event is "closing".    *)
(***************************************************************************)
EXTENDS Integers, Sequences

CONSTANTS Sockets,      \* bound of the model: WebSocket objects in use at once
          NoSocket      \* null

ASSUME NoSocketAssumption == NoSocket \notin Sockets

VARIABLES state,        \* readyState of each object, "free" before and after its use
          socket,
          reconnectTimer, offlineTimer,     \* seconds left, or Off
          reconnectAttempt,
          offlineAnnounced,
          stopped,
          status,       \* what onConnection said last
          down,         \* history: seconds since the connection was lost, or Off
          late          \* history: a replaced socket has closed since the last opening

timers == <<reconnectTimer, offlineTimer, reconnectAttempt, offlineAnnounced>>
histories == <<down, late>>
socketVars == <<state, socket, timers, stopped, status, histories>>

Off == -1
Delays == <<1, 2, 4, 8>>        \* RECONNECT_DELAYS_MS
OfflineAfter == 15              \* OFFLINE_AFTER_MS

SocketTypeOK ==
    /\ state \in [Sockets -> {"free", "connecting", "open", "closing"}]
    /\ socket \in Sockets \cup {NoSocket}
    /\ reconnectTimer \in {Off} \cup 0..8
    /\ offlineTimer \in {Off} \cup 0..OfflineAfter
    /\ reconnectAttempt \in 0..Len(Delays)
    /\ offlineAnnounced \in BOOLEAN /\ stopped \in BOOLEAN
    /\ status \in {"connecting", "connected", "reconnecting", "offline"}
    /\ down \in {Off} \cup 0..OfflineAfter + 1
    /\ late \in BOOLEAN

Active(s) == s # NoSocket /\ state[s] \in {"connecting", "open"}
Open(s) == s # NoSocket /\ state[s] = "open"

(* The call of startWebSocketTelemetry connects at once. *)
SocketInit ==
    /\ socket \in Sockets
    /\ state = [s \in Sockets |-> IF s = socket THEN "connecting" ELSE "free"]
    /\ reconnectTimer = Off /\ offlineTimer = Off
    /\ reconnectAttempt = 0
    /\ offlineAnnounced = FALSE /\ stopped = FALSE
    /\ status = "connecting"
    /\ down = Off /\ late = FALSE

-----------------------------------------------------------------------------
AttemptAnnounced ==
    IF reconnectAttempt = 0 THEN "connecting"
    ELSE IF offlineAnnounced THEN "offline" ELSE "reconnecting"

(* connect(), by a callback that leaves no reconnect timer behind. *)
Connect ==
    /\ reconnectTimer' = Off
    /\ IF Active(socket)
          THEN UNCHANGED <<state, socket, status>>
          ELSE \E s \in Sockets :
                 /\ state[s] = "free"
                 /\ state' = [state EXCEPT ![s] = "connecting"]
                 /\ socket' = s
                 /\ status' = AttemptAnnounced
    /\ UNCHANGED <<offlineTimer, reconnectAttempt, offlineAnnounced, stopped, histories>>

ReconnectTimer == ~stopped /\ reconnectTimer = 0 /\ Connect

(* handleVisibilityChange, when the page becomes visible. *)
BecomesVisible == ~stopped /\ ~Active(socket) /\ Connect

(* Mutant: the offline timer goes on. *)
OpenedUncleared(s) ==
    /\ state[s] = "connecting"
    /\ state' = [state EXCEPT ![s] = "open"]
    /\ IF socket = s /\ ~stopped
          THEN /\ reconnectAttempt' = 0
               /\ offlineAnnounced' = FALSE
               /\ status' = "connected"
               /\ down' = Off /\ late' = FALSE
          ELSE UNCHANGED <<reconnectAttempt, offlineAnnounced, status, histories>>
    /\ UNCHANGED <<socket, reconnectTimer, offlineTimer, stopped>>

Opened(s) ==
    /\ state[s] = "connecting"
    /\ state' = [state EXCEPT ![s] = "open"]
    /\ IF socket = s /\ ~stopped
          THEN /\ reconnectAttempt' = 0
               /\ offlineAnnounced' = FALSE
               /\ offlineTimer' = Off
               /\ status' = "connected"
               /\ down' = Off /\ late' = FALSE
          ELSE UNCHANGED <<reconnectAttempt, offlineAnnounced, offlineTimer, status, histories>>
    /\ UNCHANGED <<socket, reconnectTimer, stopped>>

(* The server begins to close; the page is not told, and other callbacks may *)
(* come first.                                                               *)
Closing(s) ==
    /\ state[s] = "open"
    /\ state' = [state EXCEPT ![s] = "closing"]
    /\ UNCHANGED <<socket, timers, stopped, status, histories>>

(* Mutant: an announcement of offline ends the attempts. *)
ScheduleReconnectOnline ==
    IF reconnectTimer # Off \/ offlineAnnounced
       THEN UNCHANGED <<reconnectTimer, reconnectAttempt>>
       ELSE /\ reconnectTimer' = Delays[IF reconnectAttempt < 4 THEN reconnectAttempt + 1 ELSE 4]
            /\ reconnectAttempt' = IF reconnectAttempt < 4 THEN reconnectAttempt + 1 ELSE 4

(* Attempts are counted as far as the delays tell them apart.                *)
ScheduleReconnect ==
    IF reconnectTimer # Off
       THEN UNCHANGED <<reconnectTimer, reconnectAttempt>>
       ELSE /\ reconnectTimer' = Delays[IF reconnectAttempt < 4 THEN reconnectAttempt + 1 ELSE 4]
            /\ reconnectAttempt' = IF reconnectAttempt < 4 THEN reconnectAttempt + 1 ELSE 4

StartOfflineTimer == offlineTimer' = IF offlineTimer = Off THEN OfflineAfter ELSE offlineTimer

CloseAnnounced == IF offlineAnnounced THEN status ELSE "reconnecting"

(* The close event, of the current socket or of one that was replaced, also  *)
(* after an error.                                                           *)
Closed(s) ==
    /\ state[s] # "free"
    /\ state' = [state EXCEPT ![s] = "free"]
    /\ socket' = IF socket = s THEN NoSocket ELSE socket
    /\ IF stopped
          THEN UNCHANGED <<timers, status, histories>>
          ELSE /\ status' = CloseAnnounced
               /\ StartOfflineTimer
               /\ ScheduleReconnect
               /\ down' = IF down = Off /\ (socket = s \/ ~Open(socket)) THEN 0 ELSE down
               /\ late' = (late \/ socket # s)
               /\ UNCHANGED offlineAnnounced
    /\ UNCHANGED stopped

OfflineTimer ==
    /\ offlineTimer = 0
    /\ offlineTimer' = Off
    /\ IF ~stopped /\ ~Open(socket)
          THEN offlineAnnounced' = TRUE /\ status' = "offline"
          ELSE UNCHANGED <<offlineAnnounced, status>>
    /\ UNCHANGED <<state, socket, reconnectTimer, reconnectAttempt, stopped, histories>>

(* Mutant: the socket is forgotten and not closed. *)
StopOpen ==
    /\ ~stopped /\ stopped' = TRUE
    /\ reconnectTimer' = Off /\ offlineTimer' = Off
    /\ socket' = NoSocket
    /\ UNCHANGED <<state, reconnectAttempt, offlineAnnounced, status, histories>>

Stop ==
    /\ ~stopped /\ stopped' = TRUE
    /\ reconnectTimer' = Off /\ offlineTimer' = Off
    /\ state' = [s \in Sockets |-> IF s = socket THEN "closing" ELSE state[s]]
    /\ socket' = NoSocket
    /\ UNCHANGED <<reconnectAttempt, offlineAnnounced, status, histories>>

(* A second passes.                                                          *)
Tick ==
    LET Less(t) == IF t > 0 THEN t - 1 ELSE t
    IN  /\ reconnectTimer' = Less(reconnectTimer)
        /\ offlineTimer' = Less(offlineTimer)
        /\ down' = IF down \in 0..OfflineAfter THEN down + 1 ELSE down
        /\ UNCHANGED <<state, socket, reconnectAttempt, offlineAnnounced, stopped, status, late>>

SocketNext ==
    \/ ReconnectTimer \/ OfflineTimer \/ BecomesVisible \/ Stop \/ Tick
    \/ \E s \in Sockets : Opened(s) \/ Closing(s) \/ Closed(s)

SocketSpec == SocketInit /\ [][SocketNext]_socketVars

(* Time passes, timers run, and a closing socket gets its event.             *)
FairSocketSpec ==
    /\ SocketSpec
    /\ WF_socketVars(Tick) /\ WF_socketVars(ReconnectTimer)
    /\ \A s \in Sockets : WF_socketVars(state[s] = "closing" /\ Closed(s))

-----------------------------------------------------------------------------
(* The page never has two connections, and none once it has stopped,         *)
(* whatever timers, visibility changes and late events come together         *)
(* (websocket-telemetry.js 17: connect returns while the socket is active).  *)
OneConnection ==
    \A s, r \in Sockets : state[s] \in {"connecting", "open"} =>
        /\ ~stopped
        /\ state[r] \in {"connecting", "open"} => r = s

(* An open connection is shown as connected, and only a connection is        *)
(* (websocket-telemetry.js 23-43), except that the close event of a replaced *)
(* socket shows its successor as reconnecting.                               *)
ConnectedIsShown ==
    ~stopped =>
        /\ Open(socket) /\ ~late => status = "connected"
        /\ status = "connected" => Open(socket) \/ (socket # NoSocket /\ state[socket] = "closing")

(* web/README.md 45: the page becomes Offline 15 seconds after the           *)
(* connection was lost, not sooner, except that the close event of a         *)
(* replaced socket starts the time for its successor.                        *)
OfflineIsEarned == status = "offline" /\ ~late => down >= OfflineAfter

(* ... and not later, unless the page's timer is.  A reconnect timer left by  *)
(* the close of a replaced socket keeps the next loss from being counted as   *)
(* an attempt, and connect then shows "connecting" though offline was         *)
(* announced (websocket-telemetry.js 18, 48).                                 *)
OfflineInTime ==
    ~stopped /\ down > OfflineAfter =>
        \/ status = "offline" \/ offlineTimer = 0
        \/ offlineAnnounced /\ status = "connecting"

(* The page shows the state of its connection, whatever timers, visibility   *)
(* changes and late close events come together.                              *)
ShownTruthfully == ConnectedIsShown /\ OfflineIsEarned /\ OfflineInTime

(* A page without a connection always has something left that will bring the *)
(* next attempt: a reconnect timer, or the close event of its socket, which  *)
(* sets one.  No order of events, late ones and visibility changes included, *)
(* takes both away (websocket-telemetry.js 16-52).                           *)
AttemptsGoOn ==
    ~stopped /\ ~Active(socket)
        => reconnectTimer # Off \/ (socket # NoSocket /\ state[socket] = "closing")

(* As long as it is not stopped the page comes to a connection, or at least  *)
(* an attempt, again and again (web/README.md 45: the backoff ends at eight  *)
(* seconds, the attempts do not).                                            *)
KeepsTrying == []<>(stopped \/ Active(socket))
=============================================================================
