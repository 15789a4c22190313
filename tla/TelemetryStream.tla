--------------------------- MODULE TelemetryStream ---------------------------
(***************************************************************************)
(* How a snapshot reaches a browser: the WebSocket streams of              *)
(* app/api/websocket.py poll app/agent/telemetry.py, which asks the        *)
(* telemetry service through the pipe.                                     *)
(*                                                                         *)
(* Each stream is a task of the event loop with a cursor of its own; its   *)
(* poll runs on a thread, and polls of different streams overlap.  The     *)
(* service may go away and come back at any time, and then counts its      *)
(* snapshots from one again.  A request may also fail while it serves: the *)
(* pipe has one instance, which WaitNamedPipeW sees free and reserves for  *)
(* nobody, so that of two polls one may find it taken, and every request   *)
(* has one second.                                                         *)
(*                                                                         *)
(* A snapshot is the life of the service it was taken in together with its *)
(* sequence number; only the number travels.                               *)
(***************************************************************************)
EXTENDS Naturals

CONSTANTS Streams,      \* WebSocket connections the Agent may serve
          MaxLives,     \* bound of the model: lives of the service
          MaxSequence   \* bound of the model: snapshots in one life

ASSUME MaxLivesAssumption == MaxLives \in Nat \ {0}
ASSUME MaxSequenceAssumption == MaxSequence \in Nat

VARIABLES serving,      \* the service answers requests
          life,         \* lives of the service so far
          latest,       \* sequence of its latest snapshot, 0 if there is none
          offline,      \* AgentTelemetrySource._offline
          stream,       \* where each stream is
          browser,      \* the streams whose browser is still there
          cursor,       \* last_sequence of each stream, 0 for None
          got,          \* what each stream's poll returned
          probe,        \* an HTTP request's get_status: none, or what it got
          sent          \* history: the last snapshot sent on each stream

serviceVars == <<serving, life, latest>>
streamVars == <<stream, browser, cursor, got, sent>>
vars == <<serviceVars, offline, probe, streamVars>>

StreamSteps == {"closed", "asking", "marking", "deciding", "sending", "pausing"}

Snapshot(l, n) == [life |-> l, sequence |-> n]
Snapshots == [life : 1..MaxLives, sequence : 1..MaxSequence]
Nothing == Snapshot(0, 0)       \* the service has no snapshot yet, or nothing was sent
Failure == Snapshot(0, 1)       \* an IPC error

TypeOK ==
    /\ serving \in BOOLEAN /\ life \in 1..MaxLives /\ latest \in 0..MaxSequence
    /\ offline \in BOOLEAN
    /\ stream \in [Streams -> StreamSteps]
    /\ browser \subseteq Streams
    /\ cursor \in [Streams -> 0..MaxSequence]
    /\ got \in [Streams -> Snapshots \cup {Nothing, Failure}]
    /\ probe \in {"none", "answered", "failed"}
    /\ sent \in [Streams -> Snapshots \cup {Nothing}]

Init ==
    /\ serving = TRUE /\ life = 1 /\ latest = 0
    /\ offline = FALSE /\ probe = "none"
    /\ stream = [s \in Streams |-> "closed"]
    /\ browser = {}
    /\ cursor = [s \in Streams |-> 0]
    /\ got = [s \in Streams |-> Nothing]
    /\ sent = [s \in Streams |-> Nothing]

Proceed(s, pc) == stream' = [stream EXCEPT ![s] = pc]

-----------------------------------------------------------------------------
(* The service, as far as a client can tell. *)

Publish ==
    /\ serving
    /\ latest < MaxSequence
    /\ latest' = latest + 1
    /\ UNCHANGED <<serving, life, offline, probe, streamVars>>

ServiceGoes ==
    /\ serving
    /\ serving' = FALSE
    /\ UNCHANGED <<life, latest, offline, probe, streamVars>>

ServiceComes ==
    /\ ~serving
    /\ life < MaxLives
    /\ serving' = TRUE /\ life' = life + 1 /\ latest' = 0
    /\ UNCHANGED <<offline, probe, streamVars>>

-----------------------------------------------------------------------------
(* The browser's end. *)

Accept(s) ==
    /\ stream[s] = "closed"
    /\ Proceed(s, "asking")
    /\ browser' = browser \cup {s}
    /\ cursor' = [cursor EXCEPT ![s] = 0]
    /\ sent' = [sent EXCEPT ![s] = Nothing]
    /\ UNCHANGED <<got, offline, probe, serviceVars>>

(* Nobody reads from the socket, so the stream does not notice.              *)
Disconnect(s) ==
    /\ s \in browser
    /\ browser' = browser \ {s}
    /\ UNCHANGED <<stream, cursor, got, sent, offline, probe, serviceVars>>

-----------------------------------------------------------------------------
(* One round of _stream_snapshots. *)

(* TelemetryPipeClient.get_snapshot: the latest snapshot of a service that   *)
(* serves, or an error, which every request may meet.                        *)
Ask(s) ==
    /\ stream[s] = "asking"
    /\ \/ serving /\ got' = [got EXCEPT ![s] = IF latest = 0 THEN Nothing ELSE Snapshot(life, latest)]
       \/ got' = [got EXCEPT ![s] = Failure]
    /\ Proceed(s, "marking")
    /\ UNCHANGED <<browser, cursor, sent, offline, probe, serviceVars>>

(* Mutant: nothing takes the mark away. *)
MarkForGood(s) ==
    /\ stream[s] = "marking"
    /\ offline' = (offline \/ got[s] = Failure)
    /\ Proceed(s, "deciding")
    /\ UNCHANGED <<browser, cursor, got, sent, probe, serviceVars>>

(* _mark_offline and _mark_online, after the call and under their own lock. *)
Mark(s) ==
    /\ stream[s] = "marking"
    /\ offline' = (got[s] = Failure)
    /\ Proceed(s, "deciding")
    /\ UNCHANGED <<browser, cursor, got, sent, probe, serviceVars>>

(* Mutant: the cursor is not asked. *)
DecideEveryPoll(s) ==
    /\ stream[s] = "deciding"
    /\ Proceed(s, IF got[s] \in Snapshots THEN "sending" ELSE "pausing")
    /\ UNCHANGED <<browser, cursor, got, sent, offline, probe, serviceVars>>

(* Mutant: only the next number is taken for new. *)
DecideSuccessor(s) ==
    /\ stream[s] = "deciding"
    /\ Proceed(s, IF got[s] \in Snapshots /\ got[s].sequence = cursor[s] + 1 THEN "sending" ELSE "pausing")
    /\ UNCHANGED <<browser, cursor, got, sent, offline, probe, serviceVars>>

(* A snapshot is sent if its sequence is not the one sent last. *)
Decide(s) ==
    /\ stream[s] = "deciding"
    /\ Proceed(s, IF got[s] \in Snapshots /\ got[s].sequence # cursor[s] THEN "sending" ELSE "pausing")
    /\ UNCHANGED <<browser, cursor, got, sent, offline, probe, serviceVars>>

(* The send fails if the browser has left, and that ends the stream. *)
Send(s) ==
    /\ stream[s] = "sending"
    /\ IF s \in browser
          THEN /\ sent' = [sent EXCEPT ![s] = got[s]]
               /\ cursor' = [cursor EXCEPT ![s] = got[s].sequence]
               /\ Proceed(s, "pausing")
          ELSE Proceed(s, "closed") /\ UNCHANGED <<sent, cursor>>
    /\ got' = [got EXCEPT ![s] = Nothing]
    /\ UNCHANGED <<browser, offline, probe, serviceVars>>

(* The next poll is not told what the last one returned.                     *)
Pause(s) ==
    /\ stream[s] = "pausing"
    /\ got' = [got EXCEPT ![s] = Nothing]
    /\ Proceed(s, "asking")
    /\ UNCHANGED <<browser, cursor, sent, offline, probe, serviceVars>>

(* get_status, for the system status of the HTTP interface: the same mark.    *)
AskStatus ==
    /\ probe = "none"
    /\ \/ serving /\ probe' = "answered"
       \/ probe' = "failed"
    /\ UNCHANGED <<offline, serviceVars, streamVars>>

MarkStatus ==
    /\ probe # "none"
    /\ offline' = (probe = "failed")
    /\ probe' = "none"
    /\ UNCHANGED <<serviceVars, streamVars>>

Stream(s) == Ask(s) \/ Mark(s) \/ Decide(s) \/ Send(s) \/ Pause(s)

Next ==
    \/ Publish \/ ServiceGoes \/ ServiceComes
    \/ AskStatus \/ MarkStatus
    \/ \E s \in Streams : Stream(s) \/ Accept(s) \/ Disconnect(s)

Spec == Init /\ [][Next]_vars

(* Tasks and the threads they wait for go on; nothing else has to happen. *)
FairSpec ==
    /\ Spec
    /\ \A s \in Streams : WF_vars(Stream(s))
    /\ WF_vars(MarkStatus)

-----------------------------------------------------------------------------
(* What a browser receives is newer than all it received before, whatever    *)
(* polls overlap and whenever the service restarts (websocket.py 39: each    *)
(* sequence once).                                                           *)
Newer(a, b) == \/ a.life > b.life
               \/ a.life = b.life /\ a.sequence > b.sequence

SentInOrder ==
    [][\A s \in Streams :
         stream[s] = "sending" /\ stream'[s] = "pausing" => Newer(sent'[s], sent[s])]_vars

(* What BrowsersCatchUp rests on: a snapshot that a stream passes over has   *)
(* the number of the one its browser was sent last, although the service may *)
(* count anew between two polls (websocket.py 39).                           *)
PassesOverOnlyShown ==
    \A s \in Streams :
        stream[s] = "pausing" /\ got[s] \in Snapshots => got[s].sequence = sent[s].sequence

(* What a poll of s, or any request, comes to. *)
Answered(s) == Ask(s) /\ got'[s] # Failure
SomeFailure == (\E s \in Streams : Ask(s) /\ got'[s] = Failure) \/ (AskStatus /\ probe' = "failed")
SomeAnswer == (\E s \in Streams : Answered(s)) \/ (AskStatus /\ probe' = "answered")

(* A browser that stays is shown the number of the latest snapshot of a      *)
(* service that stays, however polls overlap and fail, and although the      *)
(* service counts anew, as long as its polls do not fail for ever            *)
(* (websocket.py 48-62).                                                     *)
BrowsersCatchUp ==
    \A s \in Streams :
        []<><<Answered(s)>>_vars =>
            ((serving /\ latest # 0 /\ s \in browser /\ stream[s] # "closed")
                ~> (sent[s].sequence = latest \/ ~serving \/ s \notin browser))

(* The offline flag follows the requests, while somebody polls: it comes to  *)
(* rest at "online" unless requests fail again and again, and at "offline"   *)
(* unless they are answered again and again.  No mark stays that was late,   *)
(* made after the one of a request that was asked after it                   *)
(* (telemetry.py 22-56).                                                     *)
OfflineSettles ==
    \A s \in Streams :
        <>[](s \in browser) =>
            /\ <>[]~offline \/ []<><<SomeFailure>>_vars
            /\ <>[]offline \/ []<><<SomeAnswer>>_vars
=============================================================================
