------------------------------ MODULE Pairing -------------------------------
(***************************************************************************)
(* app/auth/pairing.py on top of DeviceRegistry, driven by the two pairing *)
(* endpoints of app/api/routes.py: how a device that shows the code on the *)
(* PC's screen becomes an authorized one.                                  *)
(*                                                                         *)
(* Each request runs on its own thread of the HTTP server.  It reads the   *)
(* clock before it takes the pairing lock, so the time it judges expiry by *)
(* may be old when it gets in.  A right code makes the thread register the *)
(* new device while it still holds the pairing lock; the registry's lock   *)
(* nests inside it.  Sessions live in memory and die with the process.     *)
(*                                                                         *)
(* Time is a counter; device names, codes and their hashes are abstracted  *)
(* to whether the submitted code matches.                                  *)
(***************************************************************************)
EXTENDS DeviceRegistry, Naturals, FiniteSets

CONSTANTS PairingIds,   \* UUIDs a pairing can get; at most as many as Devices
          MaxAttempts,  \* wrong codes a pairing survives (5 in the product)
          MaxPending,   \* pairings that may be pending at once (10)
          TTL,          \* lifetime of a pairing, in ticks (5 minutes)
          MaxTime,      \* bound of the model: the clock stops here
          MaxFaults     \* bound of the model: transactions that may fail

ASSUME MaxAttemptsAssumption == MaxAttempts \in Nat \ {0}
ASSUME MaxPendingAssumption == MaxPending \in Nat \ {0}
ASSUME TTLAssumption == TTL \in Nat \ {0}

VARIABLES clock,        \* PairingService._clock
          sessions,     \* PairingService._sessions
          pairingLock,  \* the holder of PairingService._lock
          req,          \* the pairing request each thread serves
          drawn,        \* history: pairing ids ever drawn
          wrong,        \* history: wrong codes counted against each pairing
          granted,      \* history: devices created by each pairing
          faults        \* transactions that failed so far

pairingVars == <<clock, sessions, pairingLock, req, drawn, wrong, granted, faults>>
vars == <<registryVars, pairingVars>>

Session == [expires : Nat, attempts : 0..MaxAttempts,
            status : {"none", "pending", "consumed", "locked"}]

Answers == {"created", "capacity", "not_found", "expired", "consumed", "locked", "invalid",
            "granted", "error"}

Open(expires, attempts, status) == [expires |-> expires, attempts |-> attempts, status |-> status]

NoSession == Open(0, 0, "none")

(* now is the time the request read, right whether its code is the right one *)
Requests == [op : {"start", "present", "complete", "registering"} \cup Answers,
             now : Nat, pairing : PairingIds, right : BOOLEAN]

Ask(op, now, p, right) == [op |-> op, now |-> now, pairing |-> p, right |-> right]

NoRequest == [op |-> "none"]

TypeOK ==
    /\ RegistryTypeOK
    /\ clock \in Nat
    /\ sessions \in [PairingIds -> Session]
    /\ pairingLock \in Threads \cup {NoThread}
    /\ req \in [Threads -> Requests \cup {NoRequest}]
    /\ drawn \subseteq PairingIds
    /\ wrong \in [PairingIds -> Nat]
    /\ granted \in [PairingIds -> SUBSET Devices]
    /\ faults \in Nat

Init ==
    /\ RegistryInit
    /\ clock = 0
    /\ sessions = [p \in PairingIds |-> NoSession]
    /\ pairingLock = NoThread
    /\ req = [t \in Threads |-> NoRequest]
    /\ drawn = {}
    /\ wrong = [p \in PairingIds |-> 0]
    /\ granted = [p \in PairingIds |-> {}]
    /\ faults = 0

Free(t) == up /\ req[t] = NoRequest /\ call[t] = Outside
Answer(t, answer) ==
    req' = [req EXCEPT ![t] = Ask(answer, req[t].now, req[t].pairing, req[t].right)]

Pending(s) == {p \in PairingIds : s[p].status = "pending"}
(* Mutant: a tick too early. *)
ExpiredEarly(p, now) == sessions[p].status # "none" /\ now + 1 >= sessions[p].expires

Expired(p, now) == sessions[p].status # "none" /\ now >= sessions[p].expires

(* Mutant: no sweep. *)
Unswept(now) == sessions

(* _remove_expired_sessions, by the time the request read *)
Unexpired(now) == [p \in PairingIds |-> IF Expired(p, now) THEN NoSession ELSE sessions[p]]

Minted == UNION {granted[p] : p \in PairingIds}

Tick ==
    /\ clock < MaxTime
    /\ clock' = clock + 1
    /\ UNCHANGED <<registryVars, sessions, pairingLock, req, drawn, wrong, granted, faults>>

-----------------------------------------------------------------------------
(* POST /pairing/start *)

(* The clock is read before the lock.  The fresh UUID is drawn here: until   *)
(* the session exists nobody can tell when it was.                           *)
StartPairing(t, p) ==
    /\ Free(t)
    /\ p \notin drawn
    /\ drawn' = drawn \cup {p}
    /\ req' = [req EXCEPT ![t] = Ask("start", clock, p, FALSE)]
    /\ UNCHANGED <<registryVars, clock, sessions, pairingLock, wrong, granted, faults>>

(* Mutant: one pairing too many. *)
OpenOneMore(t) ==
    LET live == Unexpired(req[t].now)
        fresh == Open(req[t].now + TTL, MaxAttempts, "pending")
    IN
    /\ req[t].op = "start"
    /\ pairingLock = NoThread
    /\ \/ /\ Cardinality(Pending(live)) > MaxPending
          /\ sessions' = live
          /\ Answer(t, "capacity")
       \/ /\ Cardinality(Pending(live)) <= MaxPending
          /\ sessions' = [live EXCEPT ![req[t].pairing] = fresh]
          /\ Answer(t, "present")
    /\ UNCHANGED <<registryVars, clock, pairingLock, drawn, wrong, granted, faults>>

(* One critical section: sweep, count, then refuse or create. *)
OpenSession(t) ==
    LET live == Unexpired(req[t].now)
        fresh == Open(req[t].now + TTL, MaxAttempts, "pending")
    IN
    /\ req[t].op = "start"
    /\ pairingLock = NoThread
    /\ \/ /\ Cardinality(Pending(live)) >= MaxPending
          /\ sessions' = live
          /\ Answer(t, "capacity")
       \/ /\ Cardinality(Pending(live)) < MaxPending
          /\ sessions' = [live EXCEPT ![req[t].pairing] = fresh]
          /\ Answer(t, "present")
    /\ UNCHANGED <<registryVars, clock, pairingLock, drawn, wrong, granted, faults>>

(* The code is shown on the PC's screen, outside the lock; if the message    *)
(* box cannot be opened the request fails and the session stays.             *)
PresentCode(t) ==
    /\ req[t].op = "present"
    /\ \E answer \in {"created", "error"} : Answer(t, answer)
    /\ UNCHANGED <<registryVars, clock, sessions, pairingLock, drawn, wrong, granted, faults>>

-----------------------------------------------------------------------------
(* POST /pairing/complete *)

CompletePairing(t, p, right) ==
    /\ Free(t)
    /\ req' = [req EXCEPT ![t] = Ask("complete", clock, p, right)]
    /\ UNCHANGED <<registryVars, clock, sessions, pairingLock, drawn, wrong, granted, faults>>

(* The thread has the pairing lock and its session is neither missing,       *)
(* expired, consumed nor locked.                                             *)
Checkable(t) ==
    LET s == sessions[req[t].pairing] IN
    /\ req[t].op = "complete"
    /\ pairingLock = NoThread
    /\ s.status = "pending"
    /\ ~Expired(req[t].pairing, req[t].now)
    /\ s.attempts # 0

RejectSession(t) ==
    LET p == req[t].pairing
        s == sessions[p] IN
    /\ req[t].op = "complete"
    /\ pairingLock = NoThread
    /\ \/ s.status = "none" /\ Answer(t, "not_found") /\ UNCHANGED sessions
       \/ /\ Expired(p, req[t].now)
          /\ sessions' = [sessions EXCEPT ![p] = NoSession]
          /\ Answer(t, "expired")
       \/ /\ s.status # "none" /\ ~Expired(p, req[t].now)
          /\ \/ s.status = "consumed" /\ Answer(t, "consumed")
             \/ /\ s.status # "consumed"
                /\ s.status = "locked" \/ s.attempts = 0
                /\ Answer(t, "locked")
          /\ UNCHANGED sessions
    /\ UNCHANGED <<registryVars, clock, pairingLock, drawn, wrong, granted, faults>>

(* Mutant: the decremented count is not stored. *)
RejectUncounted(t) ==
    LET p == req[t].pairing IN
    /\ Checkable(t)
    /\ ~req[t].right
    /\ wrong' = [wrong EXCEPT ![p] = @ + 1]
    /\ Answer(t, "invalid")
    /\ UNCHANGED <<registryVars, clock, sessions, pairingLock, drawn, granted, faults>>

RejectCode(t) ==
    LET p == req[t].pairing
        left == sessions[p].attempts - 1 IN
    /\ Checkable(t)
    /\ ~req[t].right
    /\ sessions' = [sessions EXCEPT
           ![p] = Open(sessions[p].expires, left, IF left = 0 THEN "locked" ELSE "pending")]
    /\ wrong' = [wrong EXCEPT ![p] = @ + 1]
    /\ Answer(t, IF left = 0 THEN "locked" ELSE "invalid")
    /\ UNCHANGED <<registryVars, clock, pairingLock, drawn, granted, faults>>

(* Mutant: the session is not consumed. *)
AcceptAgain(t, d) ==
    LET p == req[t].pairing IN
    /\ Checkable(t)
    /\ req[t].right
    /\ d \notin Minted
    /\ pairingLock' = t
    /\ granted' = [granted EXCEPT ![p] = @ \cup {d}]
    /\ Answer(t, "registering")
    /\ CallRegister(t, d)
    /\ UNCHANGED <<clock, sessions, drawn, wrong, faults>>

(* The session is consumed before the registration it pays for, and the lock *)
(* is kept through it.  The device's UUID and token are fresh.               *)
AcceptCode(t, d) ==
    LET p == req[t].pairing IN
    /\ Checkable(t)
    /\ req[t].right
    /\ d \notin Minted
    /\ pairingLock' = t
    /\ sessions' = [sessions EXCEPT ![p] = Open(sessions[p].expires, sessions[p].attempts, "consumed")]
    /\ granted' = [granted EXCEPT ![p] = @ \cup {d}]
    /\ Answer(t, "registering")
    /\ CallRegister(t, d)
    /\ UNCHANGED <<clock, drawn, wrong, faults>>

(* Mutant: an exception of register() leaves the lock taken. *)
FinishLocked(t) ==
    /\ req[t].op = "registering"
    /\ pairingLock' = IF call[t].pc = "registered" THEN NoThread ELSE pairingLock
    /\ Answer(t, IF call[t].pc = "registered" THEN "granted" ELSE "error")
    /\ Leave(t)
    /\ UNCHANGED <<clock, sessions, drawn, wrong, granted, faults>>

(* register() returned the token, or raised; either way the lock is released. *)
FinishPairing(t) ==
    /\ req[t].op = "registering"
    /\ pairingLock' = NoThread
    /\ Answer(t, IF call[t].pc = "registered" THEN "granted" ELSE "error")
    /\ Leave(t)
    /\ UNCHANGED <<clock, sessions, drawn, wrong, granted, faults>>

-----------------------------------------------------------------------------
(* The steps of DeviceRegistry, for a pairing or on their own. *)

Revocation(t, d) ==
    /\ Free(t)
    /\ CallRevoke(t, d)
    /\ UNCHANGED pairingVars

Authentication(t, d) ==
    /\ Free(t)
    /\ Authenticate(t, d)
    /\ UNCHANGED pairingVars

InRegistry(t) == (RegisterStep(t) \/ RevokeStep(t)) /\ UNCHANGED pairingVars

StoreFault(t) ==
    /\ faults < MaxFaults
    /\ faults' = faults + 1
    /\ StoreFails(t)
    /\ UNCHANGED <<clock, sessions, pairingLock, req, drawn, wrong, granted>>

(* The response leaves, and the thread is free for another request. *)
Respond(t) ==
    \/ /\ req[t].op \in Answers
       /\ req' = [req EXCEPT ![t] = NoRequest]
       /\ UNCHANGED <<registryVars, clock, sessions, pairingLock, drawn, wrong, granted, faults>>
    \/ /\ req[t] = NoRequest
       /\ Leave(t)
       /\ UNCHANGED pairingVars

Crash ==
    /\ LoseProcess
    /\ sessions' = [p \in PairingIds |-> NoSession]
    /\ pairingLock' = NoThread
    /\ req' = [t \in Threads |-> NoRequest]
    /\ UNCHANGED <<clock, drawn, wrong, granted, faults>>

Restart == LoadFromStore /\ UNCHANGED pairingVars

(* What a thread does once it serves a request. *)
Serve(t) ==
    \/ OpenSession(t) \/ PresentCode(t)
    \/ RejectSession(t) \/ RejectCode(t) \/ (\E d \in Devices : AcceptCode(t, d)) \/ FinishPairing(t)
    \/ InRegistry(t) \/ StoreFault(t)
    \/ Respond(t)

(* What clients ask of it. *)
Request(t) ==
    \/ \E p \in PairingIds : StartPairing(t, p)
    \/ \E p \in PairingIds, right \in BOOLEAN : CompletePairing(t, p, right)
    \/ \E d \in Devices : Revocation(t, d) \/ Authentication(t, d)

Next ==
    \/ \E t \in Threads : Serve(t) \/ Request(t)
    \/ Tick
    \/ Crash
    \/ Restart

Spec == Init /\ [][Next]_vars

-----------------------------------------------------------------------------
(* A code pairs at most one device, whatever threads, failed transactions    *)
(* and restarts do, and every row of the devices table is the device of some *)
(* pairing (pairing.py 147: single-use even if the registration fails).      *)
SingleUse ==
    /\ \A p \in PairingIds : \A d, e \in granted[p] : d = e
    /\ \A d \in Devices : store[d] # "absent" => d \in Minted

(* However the guesses of concurrent requests interleave, a pairing counts   *)
(* no more than MaxAttempts wrong codes, and grants nothing after the last.  *)
GuessBudget ==
    \A p \in PairingIds : /\ wrong[p] <= MaxAttempts
                          /\ granted[p] # {} => wrong[p] < MaxAttempts

(* Never more pending pairings than the limit, although each request counts  *)
(* them after a sweep that used its own, possibly old, time.                 *)
PendingBound == Cardinality(Pending(sessions)) <= MaxPending

(* Only the thread that registers a device holds the pairing lock, so the    *)
(* registry's lock is never waited for by two pairings at once.              *)
PairingLockDiscipline ==
    \A t \in Threads : req[t].op = "registering" <=> pairingLock = t

(* While the process lives a pairing is forgotten only once its time is over *)
(* by the real clock: no request with an old time sweeps it early.           *)
KeptUntilExpiry ==
    [][\A p \in PairingIds :
         (sessions[p].status # "none" /\ sessions'[p].status = "none")
            => ~up' \/ clock >= sessions[p].expires]_vars

(* A request is turned away for lack of room only if, by the time it read,   *)
(* that many unexpired pairings wait: dead ones never use up the limit.      *)
FairRefusal ==
    [][\A t \in Threads :
         (req[t].op = "start" /\ req'[t].op = "capacity")
            => Cardinality({p \in Pending(sessions) : req[t].now < sessions[p].expires}) >= MaxPending]_vars

(* The pairing service uses the registry only through its operations, so all *)
(* that holds of DeviceRegistry holds here, pairings and crashes included.   *)
UsesRegistry == RegistrySpec

(* An offer stands while its session is pending; it is unmade until the      *)
(* request that drew its id has opened the session.                          *)
Unmade(p) == p \notin drawn \/ \E t \in Threads : req[t].op = "start" /\ req[t].pairing = p

OfferOf(p) ==
    IF granted[p] # {} THEN "spent"
    ELSE IF sessions[p].status = "pending" THEN "open"
    ELSE IF Unmade(p) THEN "unmade"
    ELSE "closed"

Promise == INSTANCE PairingOffers
              WITH Offers <- PairingIds, MaxOpen <- MaxPending, earned <- granted, grants <- store,
                   offer <- [p \in PairingIds |-> OfferOf(p)]

(* Old clocks, sweeps, nested locks, failed transactions and crashes come to *)
(* nothing more than that offers are made, missed, redeemed and closed: an   *)
(* offer that has ended never stands again, no more stand than may, and what *)
(* is in the devices table was earned by an offer that stood (pairing.py     *)
(* 65-158).                                                                  *)
ImplementsOffers == Promise!Spec

(* What the thread does next needs no lock that another thread has.          *)
GoesOn(t) ==
    \/ req[t].op \in {"present"} \cup Answers
    \/ req[t].op \in {"start", "complete"} /\ pairingLock = NoThread
    \/ call[t].pc \in WaitingSteps /\ registryLock = NoThread
    \/ call[t].pc \in LockedSteps /\ (call[t].pc = "mark" => store[call[t].device] # "absent")
    \/ call[t].pc \in ReplySteps

SomebodyGoesOn ==
    \A t \in Threads :
        up /\ ~Free(t) => \E u \in {t, pairingLock, registryLock} \ {NoThread} : GoesOn(u)

(* Whichever of the two locks a request waits for and whatever has failed,   *)
(* a thread that has a lock can go on: the registry's lock nests inside the  *)
(* pairing lock (pairing.py:149) while revocations and authentications take  *)
(* it alone, and every exception releases what was taken.                    *)
NobodyStuck ==
    /\ SomebodyGoesOn
    /\ \A t \in Threads : up /\ GoesOn(t) => ENABLED Serve(t)
=============================================================================
