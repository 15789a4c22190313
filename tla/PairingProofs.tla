--------------------------- MODULE PairingProofs ----------------------------
(***************************************************************************)
(* Proofs about Pairing for any sets of threads, devices and pairing ids   *)
(* and any limits.  Spec => UsesRegistry carries every theorem of          *)
(* DeviceRegistryProofs over to the composed system.                       *)
(***************************************************************************)
EXTENDS Pairing, DeviceRegistryProofs, FiniteSetTheorems

Assumptions ==
    /\ NoThread \notin Threads
    /\ NoDevice \notin Devices
    /\ MaxAttempts \in Nat \ {0}
    /\ MaxPending \in Nat \ {0}
    /\ TTL \in Nat \ {0}

LEMMA ConstantsOK == Assumptions
  BY NoThreadAssumption, NoDeviceAssumption, MaxAttemptsAssumption, MaxPendingAssumption, TTLAssumption
  DEF Assumptions

-----------------------------------------------------------------------------
(* The pairing service only ever takes steps the registry allows.            *)

LEMMA InitUsesRegistry == Init => RegistryInit
  BY DEF Init

LEMMA StepUsesRegistry == [Next]_vars => [RegistryNext]_registryVars
<1> SUFFICES ASSUME Next PROVE [RegistryNext]_registryVars
  BY DEF vars
<1>1. ASSUME NEW t \in Threads, Serve(t) PROVE [RegistryNext]_registryVars
  <2>1. CASE OpenSession(t) \/ PresentCode(t) \/ RejectSession(t) \/ RejectCode(t)
    BY <2>1 DEF OpenSession, PresentCode, RejectSession, RejectCode
  <2>2. CASE \E d \in Devices : AcceptCode(t, d)
    BY <2>2 DEF AcceptCode, RegistryNext
  <2>3. CASE FinishPairing(t)
    BY <2>3 DEF FinishPairing, RegistryNext
  <2>4. CASE InRegistry(t)
    BY <2>4 DEF InRegistry, RegistryNext
  <2>5. CASE StoreFault(t)
    BY <2>5 DEF StoreFault, RegistryNext
  <2>6. CASE Respond(t)
    BY <2>6 DEF Respond, RegistryNext
  <2>7. QED
    BY <1>1, <2>1, <2>2, <2>3, <2>4, <2>5, <2>6 DEF Serve
<1>2. ASSUME NEW t \in Threads, Request(t) PROVE [RegistryNext]_registryVars
  BY <1>2 DEF Request, StartPairing, CompletePairing, Revocation, Authentication, RegistryNext
<1>3. CASE Tick
  BY <1>3 DEF Tick
<1>4. CASE Crash
  BY <1>4 DEF Crash, RegistryNext
<1>5. CASE Restart
  BY <1>5 DEF Restart, RegistryNext
<1>6. QED
  BY <1>1, <1>2, <1>3, <1>4, <1>5 DEF Next

(* Everything proved of DeviceRegistry holds of the pairing service too.     *)
THEOREM PairingUsesRegistry == Spec => UsesRegistry
  BY InitUsesRegistry, StepUsesRegistry, PTL DEF Spec, UsesRegistry, RegistrySpec

-----------------------------------------------------------------------------
(* Every variable keeps its type. *)

LEMMA InitType == Init => TypeOK
  BY ConstantsOK
  DEF Assumptions, Init, TypeOK, RegistryInit, RegistryTypeOK, DeviceStatus, NoSession, Session,
      NoRequest, Requests, Open

Ops == {"start", "present", "complete", "registering"} \cup Answers
Status == {"none", "pending", "consumed", "locked"}

LEMMA SessionType ==
    /\ \A e \in Nat, a \in 0..MaxAttempts, s \in Status : Open(e, a, s) \in Session
    /\ \A s \in Session : s.expires \in Nat /\ s.attempts \in 0..MaxAttempts /\ s.status \in Status
    /\ NoSession \in Session /\ NoSession.status = "none"
  BY ConstantsOK DEF Assumptions, Open, Session, Status, NoSession

LEMMA RequestType ==
    /\ \A op \in Ops, now \in Nat, p \in PairingIds, right \in BOOLEAN : Ask(op, now, p, right) \in Requests
    /\ \A r \in Requests : /\ r.op \in Ops /\ r.op # "none"
                           /\ r.now \in Nat /\ r.pairing \in PairingIds /\ r.right \in BOOLEAN
    /\ NoRequest.op = "none"
  BY DEF Ops, Answers, Ask, Requests, NoRequest

(* A thread that serves a request has a whole one. *)
LEMMA Serving ==
    ASSUME TypeOK, NEW t \in Threads, req[t].op \in Ops
    PROVE  /\ req[t] \in Requests
           /\ req[t].now \in Nat /\ req[t].pairing \in PairingIds /\ req[t].right \in BOOLEAN
<1>1. req[t] # NoRequest
  BY RequestType DEF Ops, Answers
<1>2. req[t] \in Requests
  BY <1>1 DEF TypeOK
<1>3. QED
  BY <1>2, RequestType

LEMMA AnswerType ==
    ASSUME TypeOK, NEW t \in Threads, req[t].op \in Ops, NEW answer \in Ops, Answer(t, answer)
    PROVE  req' \in [Threads -> Requests \cup {NoRequest}]
<1>1. Ask(answer, req[t].now, req[t].pairing, req[t].right) \in Requests
  BY Serving, RequestType
<1>2. QED
  BY <1>1 DEF Answer, TypeOK

LEMMA TypeOKStep == TypeOK /\ [Next]_vars => TypeOK'
<1> SUFFICES ASSUME TypeOK, [Next]_vars PROVE TypeOK'
  OBVIOUS
<1> USE ConstantsOK DEF Assumptions
<1>0. RegistryTypeOK'
  BY TypeStep, StepUsesRegistry DEF TypeOK
<1>1. CASE UNCHANGED vars
  BY <1>0, <1>1 DEF vars, pairingVars, TypeOK
<1>2. ASSUME NEW t \in Threads, OpenSession(t) PROVE TypeOK'
  <2>0. req[t].op \in Ops /\ req[t].now \in Nat
    BY <1>2, Serving DEF OpenSession, Ops
  <2>1. Unexpired(req[t].now) \in [PairingIds -> Session]
    BY SessionType DEF Unexpired, TypeOK
  <2>2. Open(req[t].now + TTL, MaxAttempts, "pending") \in Session
    BY <2>0, SessionType DEF Status
  <2>3. sessions' \in [PairingIds -> Session]
    BY <1>2, <2>1, <2>2 DEF OpenSession
  <2>4. req' \in [Threads -> Requests \cup {NoRequest}]
    BY <1>2, <2>0, AnswerType DEF OpenSession, Ops, Answers
  <2>5. QED
    BY <1>0, <1>2, <2>3, <2>4 DEF OpenSession, TypeOK
<1>3. ASSUME NEW t \in Threads, PresentCode(t) PROVE TypeOK'
  <2>1. req' \in [Threads -> Requests \cup {NoRequest}]
    BY <1>3, AnswerType DEF PresentCode, Ops, Answers
  <2>2. QED
    BY <1>0, <1>3, <2>1 DEF PresentCode, TypeOK
<1>4. ASSUME NEW t \in Threads, RejectSession(t) PROVE TypeOK'
  <2>1. req' \in [Threads -> Requests \cup {NoRequest}]
    BY <1>4, AnswerType DEF RejectSession, Ops, Answers
  <2>2. sessions' \in [PairingIds -> Session]
    BY <1>4, SessionType DEF RejectSession, TypeOK
  <2>3. QED
    BY <1>0, <1>4, <2>1, <2>2 DEF RejectSession, TypeOK
<1>5. ASSUME NEW t \in Threads, RejectCode(t) PROVE TypeOK'
  <2> DEFINE p == req[t].pairing
             left == sessions[p].attempts - 1
  <2>1. req[t].op \in Ops /\ p \in PairingIds
    BY <1>5, Serving DEF RejectCode, Checkable, Ops
  <2>2. left \in 0..MaxAttempts /\ sessions[p].expires \in Nat
    BY <1>5, <2>1, SessionType DEF RejectCode, Checkable, TypeOK
  <2>3. Open(sessions[p].expires, left, IF left = 0 THEN "locked" ELSE "pending") \in Session
    BY <2>2, SessionType DEF Status
  <2>4. sessions' \in [PairingIds -> Session]
    BY <1>5, <2>3 DEF RejectCode, TypeOK
  <2>5. wrong' \in [PairingIds -> Nat]
    BY <1>5, <2>1 DEF RejectCode, TypeOK
  <2>6. req' \in [Threads -> Requests \cup {NoRequest}]
    BY <1>5, <2>1, AnswerType DEF RejectCode, Ops, Answers
  <2>7. QED
    BY <1>0, <1>5, <2>4, <2>5, <2>6 DEF RejectCode, TypeOK
<1>6. ASSUME NEW t \in Threads, NEW d \in Devices, AcceptCode(t, d) PROVE TypeOK'
  <2> DEFINE p == req[t].pairing
  <2>1. req[t].op \in Ops /\ p \in PairingIds
    BY <1>6, Serving DEF AcceptCode, Checkable, Ops
  <2>2. Open(sessions[p].expires, sessions[p].attempts, "consumed") \in Session
    BY <2>1, SessionType DEF Status, TypeOK
  <2>3. sessions' \in [PairingIds -> Session]
    BY <1>6, <2>2 DEF AcceptCode, TypeOK
  <2>4. granted' \in [PairingIds -> SUBSET Devices]
    BY <1>6, <2>1 DEF AcceptCode, TypeOK
  <2>5. req' \in [Threads -> Requests \cup {NoRequest}]
    BY <1>6, <2>1, AnswerType DEF AcceptCode, Ops
  <2>6. QED
    BY <1>0, <1>6, <2>3, <2>4, <2>5 DEF AcceptCode, TypeOK
<1>7. ASSUME NEW t \in Threads, FinishPairing(t) PROVE TypeOK'
  <2>1. req' \in [Threads -> Requests \cup {NoRequest}]
    BY <1>7, AnswerType DEF FinishPairing, Ops, Answers
  <2>2. QED
    BY <1>0, <1>7, <2>1 DEF FinishPairing, TypeOK
<1>8. ASSUME NEW t \in Threads, InRegistry(t) \/ StoreFault(t) PROVE TypeOK'
  BY <1>0, <1>8 DEF InRegistry, StoreFault, pairingVars, TypeOK
<1>9. ASSUME NEW t \in Threads, Respond(t) PROVE TypeOK'
  BY <1>0, <1>9 DEF Respond, pairingVars, TypeOK
<1>10. ASSUME NEW t \in Threads, Request(t) PROVE TypeOK'
  <2>1. ASSUME NEW p \in PairingIds, StartPairing(t, p) PROVE TypeOK'
    <3>1. Ask("start", clock, p, FALSE) \in Requests
      BY RequestType DEF TypeOK, Ops
    <3>2. QED
      BY <1>0, <2>1, <3>1 DEF StartPairing, TypeOK
  <2>2. ASSUME NEW p \in PairingIds, NEW right \in BOOLEAN, CompletePairing(t, p, right) PROVE TypeOK'
    <3>1. Ask("complete", clock, p, right) \in Requests
      BY RequestType DEF TypeOK, Ops
    <3>2. QED
      BY <1>0, <2>2, <3>1 DEF CompletePairing, TypeOK
  <2>3. QED
    BY <1>0, <1>10, <2>1, <2>2 DEF Request, Revocation, Authentication, pairingVars, TypeOK
<1>11. CASE Tick
  BY <1>0, <1>11 DEF Tick, TypeOK
<1>12. CASE Crash
  BY <1>0, <1>12, SessionType DEF Crash, TypeOK
<1>13. CASE Restart
  BY <1>0, <1>13 DEF Restart, pairingVars, TypeOK
<1>14. QED
  BY <1>1, <1>2, <1>3, <1>4, <1>5, <1>6, <1>7, <1>8, <1>9, <1>10, <1>11, <1>12, <1>13
  DEF Next, Serve

(* Every variable keeps its type, for any limits and any numbers of threads. *)
THEOREM PairingTypeCorrect == Spec => []TypeOK
<1>1. Init => TypeOK
  BY InitType
<1>2. QED
  BY <1>1, TypeOKStep, PTL DEF Spec

-----------------------------------------------------------------------------
(* The pairing lock. *)

LEMMA LockStep == TypeOK /\ PairingLockDiscipline /\ [Next]_vars => PairingLockDiscipline'
<1> SUFFICES ASSUME TypeOK, PairingLockDiscipline, [Next]_vars
             PROVE  PairingLockDiscipline'
  OBVIOUS
<1> USE NoThreadAssumption DEF PairingLockDiscipline, TypeOK
<1>1. CASE UNCHANGED <<pairingLock, req>>
  BY <1>1
<1>2. ASSUME NEW t \in Threads,
             OpenSession(t) \/ PresentCode(t) \/ RejectSession(t) \/ RejectCode(t)
      PROVE  PairingLockDiscipline'
  <2>1. PICK answer \in Answers \cup {"present"} : Answer(t, answer)
    BY <1>2 DEF OpenSession, PresentCode, RejectSession, RejectCode, Answers
  <2>2. req[t].op # "registering" /\ UNCHANGED pairingLock
    BY <1>2 DEF OpenSession, PresentCode, RejectSession, RejectCode, Checkable
  <2>3. QED
    BY <2>1, <2>2 DEF Answer, Ask, Answers
<1>3. ASSUME NEW t \in Threads, NEW d \in Devices, AcceptCode(t, d) PROVE PairingLockDiscipline'
  BY <1>3 DEF AcceptCode, Checkable, Answer, Ask
<1>4. ASSUME NEW t \in Threads, FinishPairing(t) PROVE PairingLockDiscipline'
  BY <1>4 DEF FinishPairing, Answer, Ask
<1>5. ASSUME NEW t \in Threads, Respond(t) PROVE PairingLockDiscipline'
  <2>1. CASE UNCHANGED pairingVars
    BY <2>1 DEF pairingVars
  <2>2. CASE req[t].op \in Answers /\ req' = [req EXCEPT ![t] = NoRequest] /\ UNCHANGED pairingLock
    BY <2>2, RequestType DEF Answers
  <2>3. QED
    BY <1>5, <2>1, <2>2 DEF Respond
<1>6. ASSUME NEW t \in Threads, Request(t) PROVE PairingLockDiscipline'
  BY <1>6 DEF Request, StartPairing, CompletePairing, Revocation, Authentication, Free, Ask, NoRequest,
              pairingVars
<1>7. CASE Crash
  BY <1>7 DEF Crash, NoRequest
<1>8. ASSUME NEW t \in Threads, InRegistry(t) \/ StoreFault(t)
      PROVE  UNCHANGED <<pairingLock, req>>
  BY <1>8 DEF InRegistry, StoreFault, pairingVars
<1>9. (Tick \/ Restart \/ UNCHANGED vars) => UNCHANGED <<pairingLock, req>>
  BY DEF Tick, Restart, vars, pairingVars
<1>10. QED
  BY <1>1, <1>2, <1>3, <1>4, <1>5, <1>6, <1>7, <1>8, <1>9 DEF Next, Serve

(* No two pairings register at once, whatever fails in between.              *)
THEOREM PairingLockHeld == Spec => []PairingLockDiscipline
<1>1. Init => PairingLockDiscipline
  BY NoThreadAssumption, RequestType DEF Init, PairingLockDiscipline
<1>2. QED
  BY <1>1, InitType, TypeOKStep, LockStep, PTL DEF Spec

-----------------------------------------------------------------------------
(* What the sessions, the ids and the grants have to do with one another.    *)

Untouched(p) == sessions[p].status = "none" /\ granted[p] = {} /\ wrong[p] = 0

(* A pending session has exactly the attempts its wrong codes have left it;  *)
(* a pairing that granted is consumed or forgotten, never pending again.     *)
Ledger ==
    \A p \in PairingIds :
        /\ wrong[p] <= MaxAttempts
        /\ sessions[p].status = "pending" => /\ sessions[p].attempts + wrong[p] = MaxAttempts
                                             /\ sessions[p].attempts > 0
                                             /\ granted[p] = {}
        /\ granted[p] # {} => wrong[p] < MaxAttempts
        /\ \A d, e \in granted[p] : d = e
        /\ p \notin drawn => Untouched(p)

(* The id a request is about to open has no history and no second opener.    *)
Openers ==
    \A t \in Threads : req[t].op = "start" =>
        /\ req[t].pairing \in drawn
        /\ Untouched(req[t].pairing)
        /\ \A u \in Threads : u # t /\ req[u].op = "start" => req[u].pairing # req[t].pairing

LEMMA LedgerFrame ==
    ASSUME Ledger, Openers, UNCHANGED <<sessions, granted, wrong, drawn>>,
           \A t \in Threads : req'[t].op = "start" => req'[t] = req[t]
    PROVE  Ledger' /\ Openers'
  BY DEF Ledger, Openers, Untouched

LEMMA LedgerStep == TypeOK /\ Ledger /\ Openers /\ [Next]_vars => Ledger' /\ Openers'
<1> SUFFICES ASSUME TypeOK, Ledger, Openers, [Next]_vars
             PROVE  Ledger' /\ Openers'
  OBVIOUS
<1> USE ConstantsOK DEF Assumptions
<1>1. ASSUME NEW t \in Threads, OpenSession(t) PROVE Ledger' /\ Openers'
  <2> DEFINE q == req[t].pairing
             live == Unexpired(req[t].now)
             fresh == Open(req[t].now + TTL, MaxAttempts, "pending")
  <2>1. req[t].op = "start" /\ q \in PairingIds /\ q \in drawn /\ Untouched(q)
    BY <1>1, Serving DEF OpenSession, Ops, Openers
  <2>2. /\ \A p \in PairingIds : live[p] = sessions[p] \/ live[p].status = "none"
        /\ DOMAIN live = PairingIds
    BY SessionType DEF Unexpired
  <2>3. /\ sessions' = live \/ sessions' = [live EXCEPT ![q] = fresh]
        /\ \A p \in PairingIds \ {q} : sessions'[p] = sessions[p] \/ sessions'[p].status = "none"
        /\ sessions'[q] = fresh \/ sessions'[q] = sessions[q] \/ sessions'[q].status = "none"
    BY <1>1, <2>1, <2>2 DEF OpenSession
  <2>4. UNCHANGED <<drawn, wrong, granted>>
    BY <1>1 DEF OpenSession
  <2>5. /\ req'[t].op # "start"
        /\ \A u \in Threads \ {t} : req'[u] = req[u]
    BY <1>1 DEF OpenSession, Answer, Ask, TypeOK
  <2>6. Ledger'
    BY <2>1, <2>3, <2>4 DEF Ledger, Untouched, Open, TypeOK
  <2>7. Openers'
    BY <2>1, <2>3, <2>4, <2>5, Serving DEF Openers, Untouched, Ops, TypeOK
  <2>8. QED
    BY <2>6, <2>7
<1>2. ASSUME NEW t \in Threads, RejectSession(t) PROVE Ledger' /\ Openers'
  <2>1. \A p \in PairingIds : sessions'[p] = sessions[p] \/ sessions'[p].status = "none"
    BY <1>2, SessionType DEF RejectSession, TypeOK
  <2>2. \A u \in Threads : req'[u].op = "start" => req'[u] = req[u]
    BY <1>2 DEF RejectSession, Answer, Ask, TypeOK
  <2>3. UNCHANGED <<drawn, wrong, granted>>
    BY <1>2 DEF RejectSession
  <2>4. QED
    BY <2>1, <2>2, <2>3, Serving DEF Ledger, Openers, Untouched, TypeOK, Ops
<1>3. ASSUME NEW t \in Threads, RejectCode(t) PROVE Ledger' /\ Openers'
  <2> DEFINE q == req[t].pairing
             left == sessions[q].attempts - 1
             s == Open(sessions[q].expires, left, IF left = 0 THEN "locked" ELSE "pending")
  <2>1. q \in PairingIds /\ sessions[q].status = "pending" /\ sessions[q].attempts \in Nat
    BY <1>3, Serving, SessionType DEF RejectCode, Checkable, Ops, TypeOK
  <2>2. q \in drawn /\ \A u \in Threads : req[u].op = "start" => req[u].pairing # q
    BY <2>1 DEF Ledger, Openers, Untouched
  <2>3. sessions' = [sessions EXCEPT ![q] = s] /\ wrong' = [wrong EXCEPT ![q] = @ + 1]
    BY <1>3 DEF RejectCode
  <2>4. UNCHANGED <<drawn, granted>>
    BY <1>3 DEF RejectCode
  <2>5. \A u \in Threads : req'[u].op = "start" => req'[u] = req[u]
    BY <1>3 DEF RejectCode, Checkable, Answer, Ask, TypeOK
  <2>6. /\ sessions'[q].attempts = left /\ sessions'[q].status = (IF left = 0 THEN "locked" ELSE "pending")
        /\ wrong'[q] = wrong[q] + 1 /\ wrong[q] \in Nat
        /\ \A p \in PairingIds \ {q} : sessions'[p] = sessions[p] /\ wrong'[p] = wrong[p]
    BY <2>1, <2>3 DEF Open, TypeOK
  <2>7. Ledger'
    BY <2>1, <2>2, <2>4, <2>6 DEF Ledger, Untouched
  <2>8. Openers'
    BY <2>2, <2>4, <2>5, <2>6, Serving DEF Openers, Untouched, Ops
  <2>9. QED
    BY <2>7, <2>8
<1>4. ASSUME NEW t \in Threads, NEW d \in Devices, AcceptCode(t, d) PROVE Ledger' /\ Openers'
  <2> DEFINE q == req[t].pairing
  <2>1. q \in PairingIds /\ sessions[q].status = "pending" /\ sessions[q].attempts \in Nat
    BY <1>4, Serving, SessionType DEF AcceptCode, Checkable, Ops, TypeOK
  <2>2. q \in drawn /\ \A u \in Threads : req[u].op = "start" => req[u].pairing # q
    BY <2>1 DEF Ledger, Openers, Untouched
  <2>3. UNCHANGED <<drawn, wrong>>
    BY <1>4 DEF AcceptCode
  <2>4. \A u \in Threads : req'[u].op = "start" => req'[u] = req[u]
    BY <1>4 DEF AcceptCode, Checkable, Answer, Ask, TypeOK
  <2>5. /\ sessions'[q].status = "consumed"
        /\ granted[q] = {} /\ granted'[q] = {d} /\ wrong[q] < MaxAttempts
        /\ \A p \in PairingIds \ {q} : sessions'[p] = sessions[p] /\ granted'[p] = granted[p]
    BY <1>4, <2>1 DEF AcceptCode, Open, TypeOK, Ledger
  <2>6. Ledger'
    BY <2>1, <2>2, <2>3, <2>5 DEF Ledger, Untouched
  <2>7. Openers'
    BY <2>2, <2>3, <2>4, <2>5, Serving DEF Openers, Untouched, Ops
  <2>8. QED
    BY <2>6, <2>7
<1>5. ASSUME NEW t \in Threads, NEW p \in PairingIds, StartPairing(t, p) PROVE Ledger' /\ Openers'
  <2>1. p \notin drawn /\ drawn' = drawn \cup {p} /\ UNCHANGED <<sessions, granted, wrong>>
    BY <1>5 DEF StartPairing
  <2>2. req'[t].op = "start" /\ req'[t].pairing = p /\ \A u \in Threads \ {t} : req'[u] = req[u]
    BY <1>5 DEF StartPairing, Ask, TypeOK
  <2>3. QED
    BY <2>1, <2>2 DEF Ledger, Openers, Untouched
<1>6. CASE Crash
  BY <1>6, SessionType, RequestType DEF Crash, Ledger, Openers, Untouched
<1>7. ASSUME NEW t \in Threads,
             \/ PresentCode(t) \/ FinishPairing(t) \/ InRegistry(t) \/ StoreFault(t) \/ Respond(t)
             \/ \E p \in PairingIds, right \in BOOLEAN : CompletePairing(t, p, right)
             \/ \E d \in Devices : Revocation(t, d) \/ Authentication(t, d)
      PROVE  Ledger' /\ Openers'
  <2>1. UNCHANGED <<sessions, granted, wrong, drawn>>
    BY <1>7 DEF PresentCode, FinishPairing, InRegistry, StoreFault, Respond, CompletePairing, Revocation,
                Authentication, pairingVars
  <2>2. \A u \in Threads : req'[u].op = "start" => req'[u] = req[u]
    BY <1>7, RequestType
    DEF PresentCode, FinishPairing, InRegistry, StoreFault, Respond, CompletePairing, Revocation,
        Authentication, pairingVars, Answer, Ask, TypeOK
  <2>3. QED
    BY <2>1, <2>2, LedgerFrame
<1>8. CASE Tick \/ Restart \/ UNCHANGED vars
  BY <1>8, LedgerFrame DEF Tick, Restart, vars, pairingVars
<1>9. QED
  BY <1>1, <1>2, <1>3, <1>4, <1>5, <1>6, <1>7, <1>8 DEF Next, Serve, Request

-----------------------------------------------------------------------------
(* Every row descends from a pairing. *)

(* What is being written, or already is, was minted by some pairing.         *)
RowsMinted ==
    /\ \A d \in Devices : store[d] # "absent" => d \in Minted
    /\ \A t \in Threads : call[t].pc \in {"register", "save"} => call[t].device \in Minted

LEMMA RowsStep == TypeOK /\ RowsMinted /\ [Next]_vars => RowsMinted'
<1> SUFFICES ASSUME TypeOK, RowsMinted, [Next]_vars PROVE RowsMinted'
  OBVIOUS
<1> USE DEF RowsMinted
<1>1. ASSUME UNCHANGED <<store, call>>, Minted \subseteq Minted' PROVE RowsMinted'
  BY <1>1
<1>2. UNCHANGED granted => Minted' = Minted
  BY DEF Minted
<1>3. ASSUME NEW t \in Threads, NEW d \in Devices, AcceptCode(t, d) PROVE RowsMinted'
  <2>1. req[t].pairing \in PairingIds
    BY <1>3, Serving DEF AcceptCode, Checkable, Ops
  <2>2. d \in Minted' /\ Minted \subseteq Minted'
    BY <1>3, <2>1 DEF AcceptCode, TypeOK, Minted
  <2>3. QED
    BY <1>3, <2>2 DEF AcceptCode, CallRegister, At, TypeOK, RegistryTypeOK
<1>4. ASSUME NEW t \in Threads, UNCHANGED granted,
             InRegistry(t) \/ StoreFails(t) \/ Leave(t)
      PROVE  RowsMinted'
  <2>1. \A u \in Threads : call'[u].pc \in {"register", "save"} =>
            call[u].pc \in {"register", "save"} /\ call'[u].device = call[u].device
    BY <1>4 DEF InRegistry, RegisterStep, RevokeStep, RegisterChecks, SaveDevice, PublishDevice,
                RevokeChecks, MarkRevoked, WithdrawDevice, StoreFails, Leave, Goto, At, Outside,
                TypeOK, RegistryTypeOK
  <2>2. \A d \in Devices : store'[d] # "absent" =>
            \/ store[d] # "absent"
            \/ call[t].pc = "save" /\ d = call[t].device
    BY <1>4 DEF InRegistry, RegisterStep, RevokeStep, RegisterChecks, SaveDevice, PublishDevice,
                RevokeChecks, MarkRevoked, WithdrawDevice, StoreFails, Leave, TypeOK, RegistryTypeOK
  <2>3. QED
    BY <1>2, <1>4, <2>1, <2>2
<1>5. ASSUME NEW t \in Threads, NEW d \in Devices, Revocation(t, d) \/ Authentication(t, d)
      PROVE  RowsMinted'
  BY <1>2, <1>5 DEF Revocation, Authentication, CallRevoke, Authenticate, At, pairingVars, TypeOK,
                    RegistryTypeOK
<1>6. CASE Crash
  BY <1>2, <1>6 DEF Crash, LoseProcess, Outside
<1>7. ASSUME NEW t \in Threads,
             \/ OpenSession(t) \/ PresentCode(t) \/ RejectSession(t) \/ RejectCode(t)
             \/ (\E p \in PairingIds : StartPairing(t, p))
             \/ (\E p \in PairingIds, right \in BOOLEAN : CompletePairing(t, p, right))
      PROVE  RowsMinted'
  BY <1>1, <1>2, <1>7 DEF OpenSession, PresentCode, RejectSession, RejectCode, StartPairing,
                          CompletePairing, registryVars
<1>8. CASE Tick \/ Restart \/ UNCHANGED vars
  BY <1>1, <1>2, <1>8 DEF Tick, Restart, LoadFromStore, vars, registryVars, pairingVars
<1>9. ASSUME NEW t \in Threads, FinishPairing(t) \/ StoreFault(t) \/ InRegistry(t) \/ Respond(t)
      PROVE  RowsMinted'
  BY <1>1, <1>2, <1>4, <1>9 DEF FinishPairing, StoreFault, InRegistry, Respond, pairingVars, registryVars
<1>10. QED
  BY <1>3, <1>5, <1>6, <1>7, <1>8, <1>9 DEF Next, Serve, Request

(* A code authorizes at most one device, for any numbers of concurrent       *)
(* requests, failed transactions and crashes, and no row has another origin. *)
THEOREM CodesAreSingleUse == Spec => []SingleUse
<1>1. Init => Ledger /\ Openers /\ RowsMinted
  BY ConstantsOK
  DEF Assumptions, Init, RegistryInit, Ledger, Openers, RowsMinted, Untouched, Minted, NoSession, Open,
      NoRequest, Outside
<1>2. Ledger /\ RowsMinted => SingleUse
  BY DEF Ledger, RowsMinted, SingleUse
<1>3. QED
  BY <1>1, <1>2, InitType, TypeOKStep, LedgerStep, RowsStep, PTL DEF Spec

(* No interleaving of guesses gets more than MaxAttempts wrong codes out of  *)
(* a pairing, or a device out of it once they are used up.                   *)
THEOREM GuessesAreBounded == Spec => []GuessBudget
<1>1. Init => Ledger /\ Openers
  BY ConstantsOK DEF Assumptions, Init, Ledger, Openers, Untouched, NoSession, Open, NoRequest
<1>2. Ledger => GuessBudget
  BY DEF Ledger, GuessBudget
<1>3. QED
  BY <1>1, <1>2, InitType, TypeOKStep, LedgerStep, PTL DEF Spec

-----------------------------------------------------------------------------
(* The limit on pending pairings. *)

PendingCount == IsFiniteSet(Pending(sessions)) /\ PendingBound

LEMMA FewerPending ==
    ASSUME PendingCount, Pending(sessions') \subseteq Pending(sessions)
    PROVE  PendingCount'
<1>1. /\ IsFiniteSet(Pending(sessions'))
      /\ Cardinality(Pending(sessions')) <= Cardinality(Pending(sessions))
  BY FS_Subset DEF PendingCount
<1>2. Cardinality(Pending(sessions')) \in Nat /\ Cardinality(Pending(sessions)) \in Nat
  BY <1>1, FS_CardinalityType DEF PendingCount
<1>3. Cardinality(Pending(sessions')) <= MaxPending
  BY <1>1, <1>2, ConstantsOK DEF PendingCount, PendingBound, Assumptions
<1>4. QED
  BY <1>1, <1>3 DEF PendingCount, PendingBound, Pending

LEMMA PendingStep == TypeOK /\ PendingCount /\ [Next]_vars => PendingCount'
<1> SUFFICES ASSUME TypeOK, PendingCount, [Next]_vars PROVE PendingCount'
  OBVIOUS
<1>1. ASSUME NEW t \in Threads, OpenSession(t) PROVE PendingCount'
  <2> DEFINE q == req[t].pairing
             live == Unexpired(req[t].now)
             fresh == Open(req[t].now + TTL, MaxAttempts, "pending")
  <2>1. Pending(live) \subseteq Pending(sessions)
    BY SessionType DEF Pending, Unexpired
  <2>2. CASE sessions' = live
    BY <2>1, <2>2, FewerPending
  <2>3. CASE sessions' = [live EXCEPT ![q] = fresh] /\ Cardinality(Pending(live)) < MaxPending
    <3> HIDE DEF live
    <3>0. IsFiniteSet(Pending(live))
      BY <2>1, FS_Subset DEF PendingCount
    <3>1. IsFiniteSet(Pending(live)) /\ Cardinality(Pending(live)) \in Nat
      BY <3>0, FS_CardinalityType
    <3>2. q \in PairingIds
      BY <1>1, Serving DEF OpenSession, Ops
    <3>3. Pending(sessions') = Pending(live) \cup {q}
      BY <2>3, <3>2 DEF Pending, Open, Unexpired, live
    <3> DEFINE S == Pending(live)
    <3> HIDE DEF S
    <3>a. IsFiniteSet(S) /\ Cardinality(S) \in Nat
      BY <3>1 DEF S
    <3>b. /\ IsFiniteSet(S \cup {q})
          /\ Cardinality(S \cup {q}) = IF q \in S THEN Cardinality(S) ELSE Cardinality(S) + 1
      BY <3>a, FS_AddElement
    <3>c. Cardinality(S \cup {q}) \in Nat /\ Cardinality(S \cup {q}) <= Cardinality(S) + 1
      BY <3>a, <3>b
    <3>d. Pending(sessions') = S \cup {q}
      BY <3>3 DEF S
    <3>4. /\ IsFiniteSet(Pending(sessions'))
          /\ Cardinality(Pending(sessions')) \in Nat
          /\ Cardinality(Pending(sessions')) <= Cardinality(S) + 1
      BY <3>b, <3>c, <3>d
    <3>e. Cardinality(S) < MaxPending
      BY <2>3 DEF S
    <3>5. Cardinality(Pending(sessions')) <= MaxPending
      BY <3>a, <3>e, <3>4, ConstantsOK DEF Assumptions
    <3>6. QED
      BY <3>4, <3>5 DEF PendingCount, PendingBound, Pending
  <2>4. QED
    BY <1>1, <2>2, <2>3 DEF OpenSession
<1>2. ASSUME NEW t \in Threads, RejectSession(t) PROVE PendingCount'
  <2>1. Pending(sessions') \subseteq Pending(sessions)
    BY <1>2, SessionType DEF RejectSession, Pending, TypeOK
  <2>2. QED
    BY <2>1, FewerPending
<1>3. ASSUME NEW t \in Threads, RejectCode(t) PROVE PendingCount'
  <2>1. Pending(sessions') \subseteq Pending(sessions)
    BY <1>3 DEF RejectCode, Checkable, Pending, TypeOK
  <2>2. QED
    BY <2>1, FewerPending
<1>4. ASSUME NEW t \in Threads, NEW d \in Devices, AcceptCode(t, d) PROVE PendingCount'
  <2>1. Pending(sessions') \subseteq Pending(sessions)
    BY <1>4 DEF AcceptCode, Checkable, Pending, TypeOK
  <2>2. QED
    BY <2>1, FewerPending
<1>5. CASE Crash
  <2>1. Pending(sessions') = {}
    BY <1>5, SessionType DEF Crash, Pending
  <2>2. QED
    BY <2>1, FewerPending
<1>6. CASE UNCHANGED sessions
  BY <1>6, FewerPending DEF Pending
<1>7. ASSUME NEW t \in Threads,
             \/ PresentCode(t) \/ FinishPairing(t) \/ InRegistry(t) \/ StoreFault(t) \/ Respond(t)
             \/ Request(t)
      PROVE  UNCHANGED sessions
  BY <1>7 DEF PresentCode, FinishPairing, InRegistry, StoreFault, Respond, Request, StartPairing,
              CompletePairing, Revocation, Authentication, pairingVars
<1>8. Tick \/ Restart \/ UNCHANGED vars => UNCHANGED sessions
  BY DEF Tick, Restart, vars, pairingVars
<1>9. QED
  BY <1>1, <1>2, <1>3, <1>4, <1>5, <1>6, <1>7, <1>8 DEF Next, Serve

(* The limit on pending pairings holds for any set of ids, although each     *)
(* request sweeps by its own, possibly old, time.                            *)
THEOREM PendingIsBounded == Spec => []PendingBound
<1>1. Init => PendingCount
  <2>1. Init => Pending(sessions) = {}
    BY SessionType DEF Init, Pending
  <2>2. QED
    BY <2>1, FS_EmptySet, ConstantsOK DEF PendingCount, PendingBound, Assumptions
<1>2. PendingCount => PendingBound
  BY DEF PendingCount
<1>3. QED
  BY <1>1, <1>2, InitType, TypeOKStep, PendingStep, PTL DEF Spec

-----------------------------------------------------------------------------
(* The clock. *)

(* A request never knows a time that has not come. *)
NowInv == \A t \in Threads : req[t] # NoRequest => req[t].now <= clock

LEMMA NowStep == TypeOK /\ NowInv /\ [Next]_vars => NowInv'
<1> SUFFICES ASSUME TypeOK, NowInv, [Next]_vars, NEW t \in Threads, req'[t] # NoRequest
             PROVE  req'[t].now <= clock'
  BY DEF NowInv
<1>0. /\ clock \in Nat /\ req \in [Threads -> Requests \cup {NoRequest}]
      /\ req[t] # NoRequest => req[t].now \in Nat /\ req[t].now <= clock
  BY RequestType DEF TypeOK, NowInv
<1>1. CASE UNCHANGED <<clock, req>>
  BY <1>0, <1>1
<1>2. ASSUME NEW u \in Threads,
             \/ OpenSession(u) \/ PresentCode(u) \/ RejectSession(u) \/ RejectCode(u) \/ FinishPairing(u)
             \/ \E d \in Devices : AcceptCode(u, d)
      PROVE  req'[t].now <= clock'
  <2>1. UNCHANGED clock /\ req[u].op \in Ops /\ \E answer : Answer(u, answer)
    BY <1>2 DEF OpenSession, PresentCode, RejectSession, RejectCode, FinishPairing, AcceptCode,
                Checkable, Ops
  <2>2. req[u] # NoRequest
    BY <2>1, RequestType DEF Ops, Answers
  <2>3. req'[t].now = req[t].now /\ req[t] # NoRequest
    BY <1>0, <2>1, <2>2 DEF Answer, Ask
  <2>4. QED
    BY <1>0, <2>1, <2>3
<1>3. ASSUME NEW u \in Threads, Respond(u) PROVE req'[t].now <= clock'
  <2>1. UNCHANGED clock /\ (req' = [req EXCEPT ![u] = NoRequest] \/ UNCHANGED req)
    BY <1>3 DEF Respond, pairingVars
  <2>2. QED
    BY <1>0, <2>1
<1>4. ASSUME NEW u \in Threads, Request(u) PROVE req'[t].now <= clock'
  <2>1. CASE UNCHANGED pairingVars
    BY <1>1, <2>1 DEF pairingVars
  <2>2. CASE UNCHANGED clock /\ \E op, p, right : req' = [req EXCEPT ![u] = Ask(op, clock, p, right)]
    BY <1>0, <2>2 DEF Ask
  <2>3. QED
    BY <1>4, <2>1, <2>2 DEF Request, StartPairing, CompletePairing, Revocation, Authentication
<1>5. CASE Tick
  BY <1>0, <1>5 DEF Tick
<1>6. CASE Crash
  BY <1>6 DEF Crash
<1>7. ASSUME NEW u \in Threads, InRegistry(u) \/ StoreFault(u) PROVE req'[t].now <= clock'
  BY <1>1, <1>7 DEF InRegistry, StoreFault, pairingVars
<1>8. CASE Restart \/ UNCHANGED vars
  BY <1>1, <1>8 DEF Restart, vars, pairingVars
<1>9. QED
  BY <1>2, <1>3, <1>4, <1>5, <1>6, <1>7, <1>8 DEF Next, Serve

LEMMA NowInvariance == Spec => [](TypeOK /\ NowInv)
<1>1. Init => NowInv
  BY DEF Init, NowInv
<1>2. QED
  BY <1>1, InitType, TypeOKStep, NowStep, PTL DEF Spec

(* A pairing is forgotten by a living process only when its time is over by  *)
(* the real clock, however old the times are that requests judge it by.      *)
THEOREM PairingsLiveTheirTime == Spec => KeptUntilExpiry
<1>1. TypeOK /\ NowInv /\ [Next]_vars
        => [\A p \in PairingIds :
              (sessions[p].status # "none" /\ sessions'[p].status = "none")
                 => ~up' \/ clock >= sessions[p].expires]_vars
  <2> SUFFICES ASSUME TypeOK, NowInv, Next, NEW p \in PairingIds,
                      sessions[p].status # "none", sessions'[p].status = "none"
               PROVE  ~up' \/ clock >= sessions[p].expires
    OBVIOUS
  <2>0. clock \in Nat /\ sessions[p].expires \in Nat /\ sessions \in [PairingIds -> Session]
    BY SessionType DEF TypeOK
  <2>1. ASSUME NEW t \in Threads, req[t].op \in Ops, Expired(p, req[t].now)
        PROVE  clock >= sessions[p].expires
    <3>1. req[t].now \in Nat /\ req[t].now <= clock
      BY <2>1, Serving, RequestType DEF NowInv, Ops, Answers
    <3>2. QED
      BY <2>0, <2>1, <3>1 DEF Expired
  <2>2. ASSUME NEW t \in Threads, OpenSession(t) PROVE clock >= sessions[p].expires
    <3>1. Expired(p, req[t].now)
      BY <2>2 DEF OpenSession, Unexpired, Open
    <3>2. QED
      BY <2>1, <2>2, <3>1 DEF OpenSession, Ops
  <2>3. ASSUME NEW t \in Threads, RejectSession(t) PROVE clock >= sessions[p].expires
    <3>1. Expired(p, req[t].now)
      BY <2>0, <2>3 DEF RejectSession
    <3>2. QED
      BY <2>1, <2>3, <3>1 DEF RejectSession, Ops
  <2>4. ASSUME NEW t \in Threads, RejectCode(t) \/ \E d \in Devices : AcceptCode(t, d) PROVE FALSE
    BY <2>0, <2>4 DEF RejectCode, AcceptCode, Open
  <2>5. ASSUME NEW t \in Threads,
               \/ PresentCode(t) \/ FinishPairing(t) \/ InRegistry(t) \/ StoreFault(t) \/ Respond(t)
               \/ Request(t)
        PROVE  UNCHANGED sessions
    BY <2>5 DEF PresentCode, FinishPairing, InRegistry, StoreFault, Respond, Request, StartPairing,
                CompletePairing, Revocation, Authentication, pairingVars
  <2>6. CASE Crash
    BY <2>6 DEF Crash, LoseProcess
  <2>7. Tick \/ Restart => UNCHANGED sessions
    BY DEF Tick, Restart, pairingVars
  <2>8. QED
    BY <2>2, <2>3, <2>4, <2>5, <2>6, <2>7 DEF Next, Serve
<1>2. QED
  BY NowInvariance, <1>1, PTL DEF Spec, KeptUntilExpiry

(* A request is refused for lack of room only while that many pairings wait  *)
(* whose time, by what the request read, is not over.                        *)
THEOREM RefusalsAreFair == Spec => FairRefusal
<1> DEFINE Waiting(t) == {p \in Pending(sessions) : req[t].now < sessions[p].expires}
<1>1. TypeOK /\ [Next]_vars
        => [\A t \in Threads :
              (req[t].op = "start" /\ req'[t].op = "capacity")
                 => Cardinality(Waiting(t)) >= MaxPending]_vars
  <2> SUFFICES ASSUME TypeOK, Next, NEW t \in Threads, req[t].op = "start", req'[t].op = "capacity"
               PROVE  Cardinality(Waiting(t)) >= MaxPending
    OBVIOUS
  <2>0. req \in [Threads -> Requests \cup {NoRequest}] /\ req[t].now \in Nat
    BY Serving DEF TypeOK, Ops
  <2>1. OpenSession(t)
    <3>1. ASSUME NEW u \in Threads,
                 \/ OpenSession(u) /\ u # t
                 \/ PresentCode(u) \/ RejectSession(u) \/ RejectCode(u) \/ FinishPairing(u)
                 \/ \E d \in Devices : AcceptCode(u, d)
          PROVE  FALSE
      <4>1. u # t
        BY <3>1 DEF PresentCode, RejectSession, RejectCode, FinishPairing, AcceptCode, Checkable
      <4>2. \E answer : Answer(u, answer)
        BY <3>1 DEF OpenSession, PresentCode, RejectSession, RejectCode, FinishPairing, AcceptCode
      <4>3. req'[t] = req[t]
        BY <2>0, <4>1, <4>2 DEF Answer
      <4>4. QED
        BY <4>3
    <3>2. ASSUME NEW u \in Threads, Respond(u) \/ Request(u) PROVE req'[t].op # "capacity"
      <4>1. \/ UNCHANGED req
            \/ req' = [req EXCEPT ![u] = NoRequest]
            \/ \E now, p : req' = [req EXCEPT ![u] = Ask("start", now, p, FALSE)]
            \/ \E now, p, right : req' = [req EXCEPT ![u] = Ask("complete", now, p, right)]
        <5>1. CASE UNCHANGED pairingVars
          BY <5>1 DEF pairingVars
        <5>2. CASE Respond(u)
          BY <5>1, <5>2 DEF Respond
        <5>3. ASSUME NEW p \in PairingIds, StartPairing(u, p)
              PROVE  req' = [req EXCEPT ![u] = Ask("start", clock, p, FALSE)]
          BY <5>3 DEF StartPairing
        <5>4. ASSUME NEW p \in PairingIds, NEW right \in BOOLEAN, CompletePairing(u, p, right)
              PROVE  req' = [req EXCEPT ![u] = Ask("complete", clock, p, right)]
          BY <5>4 DEF CompletePairing
        <5>5. ASSUME NEW d \in Devices, Revocation(u, d) \/ Authentication(u, d)
              PROVE  UNCHANGED pairingVars
          BY <5>5 DEF Revocation, Authentication
        <5>6. CASE \E p \in PairingIds : StartPairing(u, p)
          BY <5>3, <5>6
        <5>7. CASE \E p \in PairingIds, right \in BOOLEAN : CompletePairing(u, p, right)
          <6>1. PICK p \in PairingIds, right \in BOOLEAN : CompletePairing(u, p, right)
            BY <5>7
          <6>2. req' = [req EXCEPT ![u] = Ask("complete", clock, p, right)]
            BY <5>4, <6>1
          <6>3. QED
            BY <6>2
        <5>8. QED
          BY <3>2, <5>1, <5>2, <5>5, <5>6, <5>7 DEF Request
      <4>2. QED
        BY <2>0, <4>1, RequestType DEF Ask
    <3>3. ASSUME NEW u \in Threads, InRegistry(u) \/ StoreFault(u) PROVE UNCHANGED req
      BY <3>3 DEF InRegistry, StoreFault, pairingVars
    <3>4. Tick \/ Restart => UNCHANGED req
      BY DEF Tick, Restart, pairingVars
    <3>5. Crash => req'[t].op # "capacity"
      BY RequestType DEF Crash
    <3>6. QED
      BY <3>1, <3>2, <3>3, <3>4, <3>5 DEF Next, Serve
  <2>2. Cardinality(Pending(Unexpired(req[t].now))) >= MaxPending
    <3>1. Answer(t, "capacity") \/ Answer(t, "present")
      BY <2>1 DEF OpenSession
    <3>2. ~Answer(t, "present")
      BY <2>0 DEF Answer, Ask
    <3>3. QED
      BY <2>1, <3>2 DEF OpenSession
  <2>3. Pending(Unexpired(req[t].now)) = Waiting(t)
    <3>1. \A p \in PairingIds : sessions[p].expires \in Nat
      BY SessionType DEF TypeOK
    <3>2. \A p \in PairingIds :
             Unexpired(req[t].now)[p].status = "pending"
               <=> sessions[p].status = "pending" /\ req[t].now < sessions[p].expires
      BY <2>0, <3>1, SessionType DEF Unexpired, Expired
    <3>3. QED
      BY <3>2 DEF Pending
  <2>4. QED
    BY <2>2, <2>3
<1>2. QED
  BY InitType, TypeOKStep, <1>1, PTL DEF Spec, FairRefusal

-----------------------------------------------------------------------------
(* The two locks. *)

(* A thread that registers a device is inside the registry until it answers. *)
InsideInv == \A t \in Threads : req[t].op = "registering" => call[t] # Outside

LEMMA InsideStep == TypeOK /\ InsideInv /\ [Next]_vars => InsideInv'
<1> SUFFICES ASSUME TypeOK, InsideInv, [Next]_vars, NEW t \in Threads, req'[t].op = "registering"
             PROVE  call'[t] # Outside
  BY DEF InsideInv
<1>0. /\ req \in [Threads -> Requests \cup {NoRequest}]
      /\ call \in [Threads -> [pc : WaitingSteps \cup LockedSteps \cup ReplySteps, device : Devices]
                                 \cup {Outside}]
      /\ req[t].op = "registering" => call[t] # Outside
  BY DEF TypeOK, RegistryTypeOK, InsideInv
<1>1. CASE UNCHANGED <<call, req>>
  BY <1>0, <1>1
<1>2. ASSUME NEW u \in Threads,
             OpenSession(u) \/ PresentCode(u) \/ RejectSession(u) \/ RejectCode(u)
      PROVE  call'[t] # Outside
  <2>1. UNCHANGED call /\ \E answer \in Answers \cup {"present"} : Answer(u, answer)
    BY <1>2 DEF OpenSession, PresentCode, RejectSession, RejectCode, registryVars, Answers
  <2>2. req'[t] = req[t]
    BY <1>0, <2>1 DEF Answer, Ask, Answers
  <2>3. QED
    BY <1>0, <2>1, <2>2
<1>3. ASSUME NEW u \in Threads, NEW d \in Devices, AcceptCode(u, d) PROVE call'[t] # Outside
  <2>1. call' = [call EXCEPT ![u] = At("register", d)] /\ At("register", d) # Outside
    BY <1>3 DEF AcceptCode, CallRegister, At, Outside
  <2>2. t # u => req'[t] = req[t]
    BY <1>0, <1>3 DEF AcceptCode, Answer
  <2>3. QED
    BY <1>0, <2>1, <2>2
<1>4. ASSUME NEW u \in Threads, FinishPairing(u) PROVE call'[t] # Outside
  <2>1. t # u /\ req'[t] = req[t]
    BY <1>0, <1>4 DEF FinishPairing, Answer, Ask
  <2>2. call'[t] = call[t]
    BY <1>0, <1>4, <2>1 DEF FinishPairing, Leave
  <2>3. QED
    BY <1>0, <2>1, <2>2
<1>5. ASSUME NEW u \in Threads, Respond(u) PROVE call'[t] # Outside
  <2>1. CASE req[u].op \in Answers /\ req' = [req EXCEPT ![u] = NoRequest] /\ UNCHANGED call
    BY <1>0, <2>1, RequestType
  <2>2. CASE req[u] = NoRequest /\ Leave(u) /\ UNCHANGED req
    <3>1. t # u
      BY <2>2, RequestType
    <3>2. QED
      BY <1>0, <2>2, <3>1 DEF Leave
  <2>3. QED
    BY <1>5, <2>1, <2>2 DEF Respond, registryVars, pairingVars
<1>6. ASSUME NEW u \in Threads, Request(u) PROVE call'[t] # Outside
  <2>1. CASE UNCHANGED call /\ \E op \in {"start", "complete"} : \E p, right :
                                  req' = [req EXCEPT ![u] = Ask(op, clock, p, right)]
    BY <1>0, <2>1 DEF Ask
  <2>2. CASE \E d \in Devices : Revocation(u, d) \/ Authentication(u, d)
    <3>1. UNCHANGED req /\ \E pc \in WaitingSteps \cup ReplySteps, d \in Devices :
                              call' = [call EXCEPT ![u] = At(pc, d)]
      BY <2>2 DEF Revocation, Authentication, CallRevoke, Authenticate, pairingVars, WaitingSteps,
                  ReplySteps
    <3>2. \A pc \in WaitingSteps \cup ReplySteps, d \in Devices : At(pc, d) # Outside
      BY DEF At, Outside, WaitingSteps, ReplySteps
    <3>3. QED
      BY <1>0, <3>1, <3>2
  <2>3. QED
    BY <1>6, <2>1, <2>2 DEF Request, StartPairing, CompletePairing, registryVars
<1>7. CASE Crash
  BY <1>7, RequestType DEF Crash
<1>8. ASSUME NEW u \in Threads, InRegistry(u) \/ StoreFault(u) PROVE call'[t] # Outside
  <2>1. UNCHANGED req /\ \E pc \in LockedSteps \cup ReplySteps : Goto(u, pc)
    BY <1>8 DEF InRegistry, StoreFault, StoreFails, RegisterStep, RevokeStep, RegisterChecks, SaveDevice,
                PublishDevice, RevokeChecks, MarkRevoked, WithdrawDevice, pairingVars, LockedSteps,
                ReplySteps
  <2>2. \A pc \in LockedSteps \cup ReplySteps : \A d : At(pc, d) # Outside
    BY DEF At, Outside, LockedSteps, ReplySteps
  <2>3. QED
    BY <1>0, <2>1, <2>2 DEF Goto
<1>9. CASE Tick \/ Restart \/ UNCHANGED vars
  BY <1>1, <1>9 DEF Tick, Restart, LoadFromStore, vars, registryVars, pairingVars
<1>10. QED
  BY <1>2, <1>3, <1>4, <1>5, <1>6, <1>7, <1>8, <1>9 DEF Next, Serve

(* Whatever has failed, the locks never stop everybody: the holder of the    *)
(* registry's lock waits for nothing, and the holder of the pairing lock for *)
(* that one at most.  (That a thread which so goes on has a step is the part *)
(* of NobodyStuck that speaks of ENABLED and is left to TLC.)                *)
THEOREM LocksDoNotTangle == Spec => []SomebodyGoesOn
<1>1. Init => InsideInv /\ PairingLockDiscipline
  BY NoThreadAssumption, RequestType DEF Init, InsideInv, PairingLockDiscipline
<1>2. TypeOK /\ PairingLockDiscipline /\ InsideInv /\ IInv => SomebodyGoesOn
  <2> SUFFICES ASSUME TypeOK, PairingLockDiscipline, InsideInv, IInv,
                      NEW t \in Threads, up, ~Free(t)
               PROVE  \E u \in {t, pairingLock, registryLock} \ {NoThread} : GoesOn(u)
    BY DEF SomebodyGoesOn
  <2>0. t # NoThread /\ pairingLock \in Threads \cup {NoThread} /\ registryLock \in Threads \cup {NoThread}
    BY NoThreadAssumption DEF TypeOK, RegistryTypeOK
  <2>1. registryLock # NoThread => GoesOn(registryLock)
    <3> SUFFICES ASSUME registryLock # NoThread PROVE GoesOn(registryLock)
      OBVIOUS
    <3> DEFINE h == registryLock
               d == call[h].device
    <3>1. h \in Threads /\ call[h].pc \in LockedSteps
      BY <2>0 DEF IInv, LockDiscipline
    <3>2. d \in Devices
      BY <3>1, CallShape, StepsAreDisjoint DEF IInv
    <3>3. ASSUME call[h].pc = "mark" PROVE store[d] # "absent"
      <4>1. memory[d] = "authorized"
        BY <3>1, <3>3 DEF IInv, HolderKnows
      <4>2. \A u \in Threads : call[u].pc \in {"publish", "withdraw"} => u = h
        BY <3>1 DEF IInv, LockDiscipline, LockedSteps
      <4>3. memory[d] = store[d]
        BY <3>2, <3>3, <4>2 DEF IInv, CacheAgrees
      <4>4. QED
        BY <4>1, <4>3
    <3>4. QED
      BY <3>1, <3>3 DEF GoesOn
  <2>2. ASSUME NEW u \in Threads, call[u] # Outside
        PROVE  GoesOn(u) \/ (registryLock # NoThread /\ GoesOn(registryLock))
    <3>1. call[u].pc \in WaitingSteps \cup LockedSteps \cup ReplySteps
      BY <2>2, CallShape DEF IInv
    <3>2. CASE call[u].pc \in WaitingSteps
      BY <2>1, <3>2 DEF GoesOn
    <3>3. CASE call[u].pc \in LockedSteps
      <4>1. registryLock = u
        BY <3>3 DEF IInv, LockDiscipline
      <4>2. QED
        BY <2>1, <4>1, NoThreadAssumption
    <3>4. CASE call[u].pc \in ReplySteps
      BY <3>4 DEF GoesOn
    <3>5. QED
      BY <3>1, <3>2, <3>3, <3>4
  <2>3. CASE call[t] # Outside
    BY <2>0, <2>2, <2>3
  <2>4. CASE call[t] = Outside
    <3>1. req[t] \in Requests /\ req[t].op # "registering"
      BY <2>4 DEF Free, InsideInv, TypeOK
    <3>2. req[t].op \in {"present"} \cup Answers \/ req[t].op \in {"start", "complete"}
      BY <3>1, RequestType DEF Ops
    <3>3. CASE req[t].op \in {"present"} \cup Answers \/ pairingLock = NoThread
      <4>1. GoesOn(t)
        BY <3>2, <3>3 DEF GoesOn
      <4>2. QED
        BY <2>0, <4>1
    <3>4. CASE pairingLock # NoThread
      <4>1. pairingLock \in Threads /\ call[pairingLock] # Outside
        BY <2>0, <3>4 DEF PairingLockDiscipline, InsideInv
      <4>2. QED
        BY <2>2, <3>4, <4>1
    <3>5. QED
      BY <3>2, <3>3, <3>4
  <2>5. QED
    BY <2>3, <2>4
<1>3. Spec => []IInv
  BY PairingUsesRegistry, Invariance DEF UsesRegistry
<1>4. QED
  BY <1>1, <1>2, <1>3, InitType, TypeOKStep, LockStep, InsideStep, PTL DEF Spec

(* The pairing service inherits the registry's promises: no device is        *)
(* accepted after its revocation was reported, and the whole implements the  *)
(* abstract table of grants, pairings, failures and crashes included.        *)
THEOREM PairingKeepsPromises == Spec => NoAccessAfterRevocation /\ ImplementsAuthority
  BY PairingUsesRegistry, RevocationIsFinal, RegistryImplementsAuthority DEF UsesRegistry

-----------------------------------------------------------------------------
(* The service implements the abstract offers. *)

OffersInv == TypeOK /\ Ledger /\ Openers /\ RowsMinted /\ IInv

SameStarts == \A u \in Threads : req[u].op = "start" \/ req'[u].op = "start" => req'[u] = req[u]

(* An id that has a session or has granted was drawn, and nobody opens it.   *)
LEMMA MadeOnce ==
    ASSUME Ledger, Openers, NEW p \in PairingIds, Unmade(p) PROVE Untouched(p)
  BY DEF Ledger, Openers, Unmade

LEMMA SameUnmade ==
    ASSUME UNCHANGED drawn, SameStarts PROVE \A p \in PairingIds : Unmade(p)' = Unmade(p)
  BY DEF SameStarts, Unmade

LEMMA SameOffers ==
    ASSUME UNCHANGED <<sessions, granted, drawn>>, SameStarts
    PROVE  UNCHANGED [p \in PairingIds |-> OfferOf(p)]
<1>1. \A p \in PairingIds : OfferOf(p)' = OfferOf(p)
  BY SameUnmade DEF OfferOf
<1>2. QED
  BY <1>1

(* Offers that all either stay as they were or close do what Close allows.   *)
LEMMA Closing ==
    ASSUME UNCHANGED <<wrong, granted, store>>,
           \A p \in PairingIds : \/ OfferOf(p)' = OfferOf(p)
                                 \/ OfferOf(p)' = "closed" /\ OfferOf(p) # "spent"
    PROVE  Promise!Close
<1> DEFINE P == {p \in PairingIds : OfferOf(p)' = "closed" /\ OfferOf(p) # "spent"}
<1>1. P \in SUBSET Promise!Unspent
  BY DEF Promise!Unspent
<1>2. [p \in PairingIds |-> OfferOf(p)]' = Promise!Without(P)
  BY DEF Promise!Without
<1>3. QED
  BY <1>1, <1>2 DEF Promise!Close

(* What becomes of the other offers when a request sweeps or forgets.        *)
LEMMA Sweeping ==
    ASSUME Ledger, Openers, UNCHANGED granted, NEW p \in PairingIds, Unmade(p)' = Unmade(p),
           sessions'[p] = sessions[p] \/ sessions'[p].status = "none"
    PROVE  OfferOf(p)' = OfferOf(p) \/ (OfferOf(p)' = "closed" /\ OfferOf(p) # "spent")
<1>1. CASE granted[p] # {}
  BY <1>1 DEF OfferOf
<1>2. CASE granted[p] = {} /\ sessions'[p] = sessions[p]
  BY <1>2 DEF OfferOf
<1>3. CASE granted[p] = {} /\ sessions'[p].status = "none"
  <2>1. CASE Unmade(p)
    BY <1>3, <2>1, MadeOnce DEF OfferOf, Untouched
  <2>2. CASE ~Unmade(p)
    BY <1>3, <2>2 DEF OfferOf
  <2>3. QED
    BY <2>1, <2>2
<1>4. QED
  BY <1>1, <1>2, <1>3

LEMMA SameCardinality == \A S : Promise!Cardinality(S) = Cardinality(S)
  BY DEF Promise!Cardinality, Cardinality

LEMMA OpeningRefines ==
    ASSUME OffersInv, OffersInv', NEW t \in Threads, OpenSession(t)
    PROVE  Promise!Close \/ \E p \in PairingIds : Promise!Make(p)
<1>0. PICK q \in PairingIds : q = req[t].pairing
  BY Serving DEF OpenSession, Ops, OffersInv
<1> DEFINE live == Unexpired(req[t].now)
           fresh == Open(req[t].now + TTL, MaxAttempts, "pending")
           offers == [p \in PairingIds |-> OfferOf(p)]
<1>1. /\ q \in drawn /\ Untouched(q)
      /\ \A u \in Threads : u # t /\ req[u].op = "start" => req[u].pairing # q
  BY <1>0 DEF OpenSession, Openers, OffersInv
<1>2. /\ \A p \in PairingIds : live[p] = sessions[p] \/ live[p].status = "none"
      /\ DOMAIN live = PairingIds
  BY SessionType DEF Unexpired
<1>3. UNCHANGED <<drawn, wrong, granted, store>>
  BY DEF OpenSession, registryVars
<1>4. req'[t].op # "start" /\ \A u \in Threads \ {t} : req'[u] = req[u]
  BY DEF OpenSession, Answer, Ask, OffersInv, TypeOK
<1>5. /\ \A p \in PairingIds \ {q} : Unmade(p)' = Unmade(p)
      /\ Unmade(q) /\ ~Unmade(q)'
  BY <1>0, <1>1, <1>3, <1>4 DEF Unmade, OpenSession
<1>6. OfferOf(q) = "unmade"
  BY <1>1, <1>5 DEF OfferOf, Untouched
<1>7. live[q].status = "none"
  BY <1>1, <1>2 DEF Untouched
<1>8. CASE sessions' = live
  <2>1. OfferOf(q)' = "closed"
    BY <1>1, <1>3, <1>5, <1>7, <1>8 DEF OfferOf, Untouched
  <2>2. \A p \in PairingIds \ {q} : \/ OfferOf(p)' = OfferOf(p)
                                    \/ OfferOf(p)' = "closed" /\ OfferOf(p) # "spent"
    BY <1>2, <1>3, <1>5, <1>8, Sweeping DEF OffersInv
  <2>3. QED
    BY <1>3, <1>6, <2>1, <2>2, Closing
<1>9. CASE sessions' = [live EXCEPT ![q] = fresh] /\ Cardinality(Pending(live)) < MaxPending
  <2> DEFINE P == {p \in PairingIds \ {q} : OfferOf(p)' = "closed" /\ OfferOf(p) # "spent"}
  <2>1. OfferOf(q)' = "open"
    <3>1. sessions'[q].status = "pending" /\ granted'[q] = {}
      BY <1>1, <1>2, <1>3, <1>9 DEF Untouched, Open
    <3>2. QED
      BY <3>1 DEF OfferOf
  <2>2. \A p \in PairingIds \ {q} : sessions'[p] = live[p]
    BY <1>9
  <2>3. \A p \in PairingIds \ {q} : \/ OfferOf(p)' = OfferOf(p)
                                    \/ OfferOf(p)' = "closed" /\ OfferOf(p) # "spent"
    BY <1>2, <1>3, <1>5, <2>2, Sweeping DEF OffersInv
  <2>4. P \in SUBSET (Promise!Unspent \ {q})
    BY DEF Promise!Unspent
  <2>5. offers' = [Promise!Without(P) EXCEPT ![q] = "open"]
    BY <2>1, <2>3 DEF Promise!Without
  <2>6. Promise!Standing(Promise!Without(P)) = Pending(live)
    <3>1. \A p \in PairingIds \ {q} : Promise!Without(P)[p] = OfferOf(p)'
      BY <2>3 DEF Promise!Without
    <3>2. \A p \in PairingIds \ {q} : OfferOf(p)' = "open" <=> live[p].status = "pending"
      <4> SUFFICES ASSUME NEW p \in PairingIds \ {q}
                   PROVE  OfferOf(p)' = "open" <=> live[p].status = "pending"
        OBVIOUS
      <4>1. sessions'[p].status = "pending" => granted'[p] = {}
        BY DEF OffersInv, Ledger
      <4>2. OfferOf(p)' = "open" <=> granted'[p] = {} /\ sessions'[p].status = "pending"
        BY DEF OfferOf
      <4>3. QED
        BY <2>2, <4>1, <4>2
    <3>3. Promise!Without(P)[q] = "unmade"
      BY <1>1, <1>6 DEF Promise!Without
    <3>4. QED
      BY <1>1, <1>7, <3>1, <3>2, <3>3 DEF Promise!Standing, Pending
  <2>7. Promise!Make(q)
    <3>1. Cardinality(Promise!Standing(Promise!Without(P))) < MaxPending
      BY <1>9, <2>6
    <3>2. \E S \in SUBSET (Promise!Unspent \ {q}) :
             /\ Cardinality(Promise!Standing(Promise!Without(S))) < MaxPending
             /\ offers' = [Promise!Without(S) EXCEPT ![q] = "open"]
      <4> HIDE DEF P, offers
      <4>1. QED
        BY <2>4, <2>5, <3>1
    <3>3. offers[q] = "unmade"
      BY <1>6
    <3>4. QED
      BY <1>3, <3>2, <3>3, SameCardinality DEF Promise!Make
  <2>8. QED
    BY <1>1, <2>7
<1>10. QED
  BY <1>0, <1>8, <1>9 DEF OpenSession

LEMMA MissRefines ==
    ASSUME OffersInv, OffersInv', NEW t \in Threads, RejectCode(t)
    PROVE  \E p \in PairingIds : Promise!Miss(p)
<1> USE DEF OffersInv
<1>0. PICK q \in PairingIds : q = req[t].pairing
  BY Serving DEF RejectCode, Checkable, Ops
<1> DEFINE left == sessions[q].attempts - 1
           offers == [p \in PairingIds |-> OfferOf(p)]
<1>1. /\ sessions[q].status = "pending" /\ sessions[q].attempts \in Nat
      /\ wrong \in [PairingIds -> Nat] /\ sessions \in [PairingIds -> Session]
  BY <1>0, SessionType DEF RejectCode, Checkable, Ops, TypeOK
<1>2. UNCHANGED <<drawn, granted, store>>
  BY DEF RejectCode, registryVars
<1>3. SameStarts
  BY DEF RejectCode, Checkable, Answer, Ask, TypeOK, SameStarts
<1>4. granted[q] = {} /\ sessions[q].attempts + wrong[q] = MaxAttempts /\ ~Unmade(q)
  BY <1>1, MadeOnce DEF Ledger, Untouched
<1>5. /\ wrong' = [wrong EXCEPT ![q] = @ + 1]
      /\ sessions'[q].status = (IF left = 0 THEN "locked" ELSE "pending")
      /\ \A p \in PairingIds \ {q} : sessions'[p] = sessions[p]
  BY <1>0, <1>1 DEF RejectCode, Open
<1>6. wrong'[q] = MaxAttempts <=> left = 0
  BY <1>1, <1>4, <1>5, ConstantsOK DEF Assumptions
<1>7. OfferOf(q) = "open"
  BY <1>1, <1>4 DEF OfferOf
<1>8. OfferOf(q)' = IF wrong'[q] = MaxAttempts THEN "closed" ELSE "open"
  <2>1. granted'[q] = {} /\ ~Unmade(q)'
    BY <1>2, <1>3, <1>4, SameUnmade
  <2>2. QED
    BY <1>5, <1>6, <2>1 DEF OfferOf
<1>9. \A p \in PairingIds \ {q} : OfferOf(p)' = OfferOf(p)
  BY <1>2, <1>3, <1>5, SameUnmade DEF OfferOf
<1>10. offers' = [offers EXCEPT ![q] = IF wrong'[q] = MaxAttempts THEN "closed" ELSE "open"]
  BY <1>8, <1>9
<1>11. Promise!Miss(q)
  BY <1>1, <1>2, <1>5, <1>7, <1>10 DEF Promise!Miss
<1>12. QED
  BY <1>1, <1>11

LEMMA RedeemRefines ==
    ASSUME OffersInv, OffersInv', NEW t \in Threads, NEW d \in Devices, AcceptCode(t, d)
    PROVE  \E p \in PairingIds : Promise!Redeem(p, d)
<1> USE DEF OffersInv
<1>0. PICK q \in PairingIds : q = req[t].pairing
  BY Serving DEF AcceptCode, Checkable, Ops
<1> DEFINE offers == [p \in PairingIds |-> OfferOf(p)]
<1>1. sessions[q].status = "pending"
  BY <1>0 DEF AcceptCode, Checkable
<1>2. granted[q] = {}
  BY <1>1 DEF Ledger
<1>3. granted' = [granted EXCEPT ![q] = {d}] /\ granted'[q] = {d}
  BY <1>0, <1>2 DEF AcceptCode, TypeOK
<1>4. UNCHANGED <<drawn, wrong, store>>
  BY DEF AcceptCode, CallRegister
<1>5. SameStarts
  BY DEF AcceptCode, Checkable, Answer, Ask, TypeOK, SameStarts
<1>6. OfferOf(q) = "open" /\ OfferOf(q)' = "spent"
  BY <1>1, <1>2, <1>3 DEF OfferOf
<1>7. \A p \in PairingIds \ {q} : sessions'[p] = sessions[p] /\ granted'[p] = granted[p]
  BY <1>0, <1>3 DEF AcceptCode, TypeOK
<1>8. \A p \in PairingIds \ {q} : OfferOf(p)' = OfferOf(p)
  BY <1>4, <1>5, <1>7, SameUnmade DEF OfferOf
<1>9. offers' = [offers EXCEPT ![q] = "spent"]
  BY <1>6, <1>8
<1>10. d \notin Promise!Earned
  BY DEF AcceptCode, Minted, Promise!Earned
<1>11. Promise!Redeem(q, d)
  BY <1>1, <1>3, <1>4, <1>6, <1>9, <1>10 DEF Promise!Redeem
<1>12. QED
  BY <1>1, <1>11

(* In the registry a row appears only for a device that was earned, and one  *)
(* that was authorized is all that is ever revoked.                          *)
LEMMA RowsRefine ==
    ASSUME OffersInv, NEW t \in Threads, InRegistry(t)
    PROVE  \/ \E d \in Devices : Promise!Grant(d) \/ Promise!Revoke(d)
           \/ UNCHANGED store
<1> DEFINE d == call[t].device
           offers == [p \in PairingIds |-> OfferOf(p)]
<1> USE DEF OffersInv
<1>1. UNCHANGED <<sessions, granted, drawn, wrong, req>>
  BY DEF InRegistry, pairingVars
<1>2. UNCHANGED offers
  BY <1>1, SameOffers DEF SameStarts
<1>3. CASE SaveDevice(t)
  <2>1. d \in Devices /\ up
    BY <1>3, InCall DEF SaveDevice, LockedSteps
  <2>2. store[d] = "absent"
    BY <1>3, <2>1 DEF SaveDevice, IInv, LockDiscipline, LockedSteps, HolderKnows, CacheAgrees
  <2>3. d \in Promise!Earned
    BY <1>3, <2>1 DEF SaveDevice, RowsMinted, Minted, Promise!Earned
  <2>4. Promise!Grant(d)
    BY <1>1, <1>2, <1>3, <2>1, <2>2, <2>3 DEF SaveDevice, Promise!Grant
  <2>5. QED
    BY <2>1, <2>4
<1>4. CASE MarkRevoked(t)
  <2>1. d \in Devices /\ up
    BY <1>4, InCall DEF MarkRevoked, LockedSteps
  <2>2. store[d] = "authorized"
    BY <1>4, <2>1 DEF MarkRevoked, IInv, LockDiscipline, LockedSteps, HolderKnows, CacheAgrees
  <2>3. Promise!Revoke(d)
    BY <1>1, <1>2, <1>4, <2>1, <2>2 DEF MarkRevoked, Promise!Revoke
  <2>4. QED
    BY <2>1, <2>3
<1>5. CASE ~SaveDevice(t) /\ ~MarkRevoked(t)
  BY <1>5 DEF InRegistry, RegisterStep, RevokeStep, RegisterChecks, PublishDevice, RevokeChecks,
              WithdrawDevice
<1>6. QED
  BY <1>3, <1>4, <1>5

LEMMA InitOffers == Init => Promise!Init
<1> SUFFICES ASSUME Init PROVE Promise!Init
  OBVIOUS
<1>1. \A p \in PairingIds : OfferOf(p) = "unmade"
  BY SessionType DEF Init, OfferOf, Unmade
<1>2. QED
  BY <1>1 DEF Init, RegistryInit, Promise!Init

LEMMA OffersStep == OffersInv /\ OffersInv' /\ [Next]_vars => [Promise!Next]_(Promise!vars)
<1> SUFFICES ASSUME OffersInv, OffersInv', [Next]_vars PROVE [Promise!Next]_(Promise!vars)
  OBVIOUS
<1> DEFINE offers == [p \in PairingIds |-> OfferOf(p)]
<1>t. req \in [Threads -> Requests \cup {NoRequest}] /\ NoRequest.op = "none"
  BY RequestType DEF OffersInv, TypeOK
<1>1. ASSUME UNCHANGED <<sessions, granted, drawn, wrong, store>>, SameStarts
      PROVE  UNCHANGED Promise!vars
  BY <1>1, SameOffers DEF Promise!vars
<1>2. ASSUME NEW t \in Threads, RejectSession(t) PROVE Promise!Close
  <2>1. \A p \in PairingIds : sessions'[p] = sessions[p] \/ sessions'[p].status = "none"
    BY <1>2, SessionType DEF RejectSession, OffersInv, TypeOK
  <2>2. SameStarts
    BY <1>2 DEF RejectSession, Answer, Ask, OffersInv, TypeOK, SameStarts
  <2>3. UNCHANGED <<drawn, wrong, granted, store>>
    BY <1>2 DEF RejectSession, registryVars
  <2>4. \A p \in PairingIds : \/ OfferOf(p)' = OfferOf(p)
                              \/ OfferOf(p)' = "closed" /\ OfferOf(p) # "spent"
    BY <2>1, <2>2, <2>3, SameUnmade, Sweeping DEF OffersInv
  <2>5. QED
    BY <2>3, <2>4, Closing
<1>3. ASSUME NEW t \in Threads, NEW p \in PairingIds, StartPairing(t, p) PROVE UNCHANGED Promise!vars
  <2>1. p \notin drawn /\ drawn' = drawn \cup {p} /\ UNCHANGED <<sessions, granted, wrong, store>>
    BY <1>3 DEF StartPairing, registryVars
  <2>2. /\ req[t].op # "start" /\ req'[t].op = "start" /\ req'[t].pairing = p
        /\ \A u \in Threads \ {t} : req'[u] = req[u]
    BY <1>t, <1>3 DEF StartPairing, Free, Ask
  <2>3. \A q \in PairingIds : Unmade(q)' = Unmade(q)
    BY <2>1, <2>2 DEF Unmade
  <2>4. \A q \in PairingIds : OfferOf(q)' = OfferOf(q)
    BY <2>1, <2>3 DEF OfferOf
  <2>5. QED
    BY <2>1, <2>4 DEF Promise!vars
<1>4. CASE Crash
  <2>1. \A u \in Threads : req'[u].op # "start"
    BY <1>4, RequestType DEF Crash
  <2>2. UNCHANGED <<drawn, wrong, granted, store>> /\ \A p \in PairingIds : sessions'[p].status = "none"
    BY <1>4, SessionType DEF Crash, LoseProcess
  <2>3. ASSUME NEW p \in PairingIds
        PROVE  OfferOf(p)' = OfferOf(p) \/ (OfferOf(p)' = "closed" /\ OfferOf(p) # "spent")
    <3>1. CASE granted[p] # {}
      BY <2>2, <3>1 DEF OfferOf
    <3>2. CASE granted[p] = {} /\ p \in drawn
      BY <2>1, <2>2, <3>2 DEF OfferOf, Unmade
    <3>3. CASE granted[p] = {} /\ p \notin drawn
      BY <2>2, <3>3 DEF OfferOf, Unmade, OffersInv, Ledger, Untouched
    <3>4. QED
      BY <3>1, <3>2, <3>3
  <2>4. Promise!Close
    BY <2>2, <2>3, Closing
  <2>5. QED
    BY <2>4 DEF Promise!Next
<1>5. ASSUME NEW t \in Threads,
             \/ PresentCode(t) \/ FinishPairing(t) \/ StoreFault(t) \/ Respond(t)
             \/ (InRegistry(t) /\ UNCHANGED store)
             \/ \E p \in PairingIds, right \in BOOLEAN : CompletePairing(t, p, right)
             \/ \E d \in Devices : Revocation(t, d) \/ Authentication(t, d)
      PROVE  UNCHANGED Promise!vars
  <2>1. UNCHANGED <<sessions, granted, drawn, wrong, store>>
    BY <1>5 DEF PresentCode, FinishPairing, StoreFault, StoreFails, Respond, InRegistry,
                CompletePairing, Revocation, Authentication, CallRevoke, Authenticate, Leave,
                registryVars, pairingVars
  <2>2. SameStarts
    <3>1. CASE UNCHANGED req
      BY <3>1 DEF SameStarts
    <3>2. CASE PresentCode(t) \/ FinishPairing(t)
      BY <1>t, <3>2 DEF PresentCode, FinishPairing, Answer, Ask, SameStarts
    <3>3. CASE req[t].op \in Answers /\ req' = [req EXCEPT ![t] = NoRequest]
      BY <1>t, <3>3 DEF Answers, SameStarts
    <3>4. ASSUME NEW p \in PairingIds, NEW right \in BOOLEAN, CompletePairing(t, p, right)
          PROVE  SameStarts
      BY <1>t, <3>4 DEF CompletePairing, Free, Ask, SameStarts
    <3>5. QED
      BY <1>5, <3>1, <3>2, <3>3, <3>4 DEF StoreFault, Respond, InRegistry, Revocation,
                                          Authentication, pairingVars
  <2>3. QED
    BY <1>1, <2>1, <2>2
<1>6. Tick \/ Restart \/ UNCHANGED vars => UNCHANGED Promise!vars
  BY <1>1 DEF Tick, Restart, LoadFromStore, vars, registryVars, pairingVars, SameStarts
<1>7. ASSUME NEW t \in Threads, Serve(t) PROVE [Promise!Next]_(Promise!vars)
  <2>1. CASE OpenSession(t)
    BY <2>1, OpeningRefines DEF Promise!Next
  <2>2. CASE RejectSession(t)
    BY <1>2, <2>2 DEF Promise!Next
  <2>3. CASE RejectCode(t)
    BY <2>3, MissRefines DEF Promise!Next
  <2>4. CASE \E d \in Devices : AcceptCode(t, d)
    BY <2>4, RedeemRefines DEF Promise!Next
  <2>5. CASE InRegistry(t)
    BY <1>5, <2>5, RowsRefine DEF Promise!Next
  <2>6. QED
    BY <1>5, <1>7, <2>1, <2>2, <2>3, <2>4, <2>5 DEF Serve
<1>8. ASSUME NEW t \in Threads, Request(t) PROVE UNCHANGED Promise!vars
  BY <1>3, <1>5, <1>8 DEF Request
<1>9. QED
  BY <1>4, <1>6, <1>7, <1>8 DEF Next

(* The pairing service, with its old clocks, its sweeps, its two locks, its  *)
(* failing store and its crashes, implements offers that have none of them:  *)
(* none stands twice, none earns twice, never more stand than may, and the   *)
(* devices table holds only what they have earned.                           *)
THEOREM PairingImplementsOffers == Spec => ImplementsOffers
<1>1. Init => Ledger /\ Openers /\ RowsMinted
  BY ConstantsOK
  DEF Assumptions, Init, RegistryInit, Ledger, Openers, RowsMinted, Untouched, Minted, NoSession, Open,
      NoRequest, Outside
<1>2. Spec => []IInv
  BY PairingUsesRegistry, Invariance DEF UsesRegistry
<1>3. Spec => [](TypeOK /\ Ledger /\ Openers /\ RowsMinted)
  BY <1>1, InitType, TypeOKStep, LedgerStep, RowsStep, PTL DEF Spec
<1>4. Spec => []OffersInv
  BY <1>2, <1>3, PTL DEF OffersInv
<1>5. QED
  BY <1>4, InitOffers, OffersStep, PTL DEF Spec, ImplementsOffers, Promise!Spec
=============================================================================
