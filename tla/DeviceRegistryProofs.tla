------------------------ MODULE DeviceRegistryProofs ------------------------
(***************************************************************************)
(* Proofs about DeviceRegistry for any sets of threads and devices: its    *)
(* safety invariants, its two action properties, and that it implements    *)
(* TokenAuthority.                                                         *)
(***************************************************************************)
EXTENDS DeviceRegistry, TLAPS

(* What the thread inside the lock has already established. *)
HolderKnows ==
    \A t \in Threads :
        /\ call[t].pc = "save"     => memory[call[t].device] = "absent"
        /\ call[t].pc = "publish"  => /\ memory[call[t].device] = "absent"
                                      /\ store[call[t].device] = "authorized"
        /\ call[t].pc = "mark"     => memory[call[t].device] = "authorized"
        /\ call[t].pc = "withdraw" => /\ memory[call[t].device] = "authorized"
                                      /\ store[call[t].device] = "revoked"

(* A row differs from memory only for the device of a holder past its commit. *)
CacheAgrees ==
    up => \A d \in Devices :
             \/ memory[d] = store[d]
             \/ \E t \in Threads : /\ call[t].pc \in {"publish", "withdraw"}
                                   /\ call[t].device = d

(* A dead process holds no lock and runs no call. *)
DownIsQuiet ==
    ~up => registryLock = NoThread /\ call = [t \in Threads |-> Outside]

IInv ==
    /\ RegistryTypeOK
    /\ LockDiscipline
    /\ HolderKnows
    /\ CacheAgrees
    /\ DownIsQuiet
    /\ AnswersAreDurable

(* No step name is in two of the three groups; "outside" is in none. *)
LEMMA StepsAreDisjoint ==
    /\ \A pc \in ReplySteps : pc \notin LockedSteps
    /\ \A pc \in WaitingSteps : pc \notin LockedSteps
    /\ Outside.pc \notin LockedSteps
    /\ Outside.pc \notin ReplySteps
  BY DEF ReplySteps, WaitingSteps, LockedSteps, Outside

(* Outside a registry call a thread is at Outside; elsewhere it has a device. *)
LEMMA CallShape ==
    ASSUME RegistryTypeOK, NEW t \in Threads
    PROVE  \/ call[t] = Outside
           \/ /\ call[t] = [pc |-> call[t].pc, device |-> call[t].device]
              /\ call[t].pc \in WaitingSteps \cup LockedSteps \cup ReplySteps
              /\ call[t].device \in Devices
  BY DEF RegistryTypeOK

LEMMA InitIInv == RegistryInit => IInv
  BY NoThreadAssumption
  DEF RegistryInit, IInv, RegistryTypeOK, LockDiscipline, HolderKnows, CacheAgrees,
      DownIsQuiet, AnswersAreDurable, Outside, DeviceStatus, LockedSteps

-----------------------------------------------------------------------------
(* Each operation preserves the invariant. *)

LEMMA TypeStep == RegistryTypeOK /\ [RegistryNext]_registryVars => RegistryTypeOK'
<1> SUFFICES ASSUME RegistryTypeOK, [RegistryNext]_registryVars
             PROVE  RegistryTypeOK'
  OBVIOUS
<1> USE DEF RegistryTypeOK, DeviceStatus, WaitingSteps, LockedSteps, ReplySteps, Outside, At, Goto
<1>1. CASE UNCHANGED registryVars
  BY <1>1 DEF registryVars
<1>2. ASSUME NEW t \in Threads, RegisterChecks(t) PROVE RegistryTypeOK'
  BY <1>2 DEF RegisterChecks
<1>3. ASSUME NEW t \in Threads, SaveDevice(t) PROVE RegistryTypeOK'
  BY <1>3 DEF SaveDevice
<1>4. ASSUME NEW t \in Threads, PublishDevice(t) PROVE RegistryTypeOK'
  BY <1>4 DEF PublishDevice
<1>5. ASSUME NEW t \in Threads, RevokeChecks(t) PROVE RegistryTypeOK'
  BY <1>5 DEF RevokeChecks
<1>6. ASSUME NEW t \in Threads, MarkRevoked(t) PROVE RegistryTypeOK'
  BY <1>6 DEF MarkRevoked
<1>7. ASSUME NEW t \in Threads, WithdrawDevice(t) PROVE RegistryTypeOK'
  BY <1>7 DEF WithdrawDevice
<1>8. ASSUME NEW t \in Threads, StoreFails(t) PROVE RegistryTypeOK'
  BY <1>8 DEF StoreFails
<1>9. ASSUME NEW t \in Threads, Leave(t) PROVE RegistryTypeOK'
  BY <1>9 DEF Leave
<1>10. ASSUME NEW t \in Threads, NEW d \in Devices,
              CallRegister(t, d) \/ CallRevoke(t, d) \/ Authenticate(t, d)
       PROVE  RegistryTypeOK'
  BY <1>10 DEF CallRegister, CallRevoke, Authenticate
<1>11. CASE LoseProcess
  BY <1>11 DEF LoseProcess
<1>12. CASE LoadFromStore
  BY <1>12 DEF LoadFromStore
<1>13. QED
  BY <1>1, <1>2, <1>3, <1>4, <1>5, <1>6, <1>7, <1>8, <1>9, <1>10, <1>11, <1>12
  DEF RegistryNext, RegisterStep, RevokeStep

LEMMA StepIInv == IInv /\ [RegistryNext]_registryVars => IInv'
<1> SUFFICES ASSUME IInv, [RegistryNext]_registryVars
             PROVE  IInv'
  OBVIOUS
<1> USE NoThreadAssumption
    DEF IInv, RegistryTypeOK, DeviceStatus, LockDiscipline, HolderKnows, CacheAgrees,
        DownIsQuiet, AnswersAreDurable, WaitingSteps, LockedSteps, ReplySteps, Outside, At, Goto
<1>0. RegistryTypeOK'
  BY TypeStep DEF IInv
<1>1. CASE UNCHANGED registryVars
  BY <1>1 DEF registryVars
<1>2. ASSUME NEW t \in Threads, RegisterChecks(t) PROVE IInv'
  <2>1. LockDiscipline'
    BY <1>2 DEF RegisterChecks
  <2>2. HolderKnows'
    BY <1>2 DEF RegisterChecks
  <2>3. CacheAgrees'
    BY <1>2 DEF RegisterChecks
  <2>4. DownIsQuiet' /\ AnswersAreDurable'
    BY <1>2 DEF RegisterChecks
  <2>5. QED
    BY <1>0, <2>1, <2>2, <2>3, <2>4
<1>3. ASSUME NEW t \in Threads, SaveDevice(t) PROVE IInv'
  <2>1. LockDiscipline'
    BY <1>3 DEF SaveDevice
  <2>2. HolderKnows'
    BY <1>3 DEF SaveDevice
  <2>3. CacheAgrees'
    BY <1>3 DEF SaveDevice
  <2>4. DownIsQuiet' /\ AnswersAreDurable'
    BY <1>3 DEF SaveDevice
  <2>5. QED
    BY <1>0, <2>1, <2>2, <2>3, <2>4
<1>4. ASSUME NEW t \in Threads, PublishDevice(t) PROVE IInv'
  <2>1. LockDiscipline'
    BY <1>4 DEF PublishDevice
  <2>2. HolderKnows'
    BY <1>4 DEF PublishDevice
  <2>3. CacheAgrees'
    BY <1>4 DEF PublishDevice
  <2>4. DownIsQuiet' /\ AnswersAreDurable'
    BY <1>4 DEF PublishDevice
  <2>5. QED
    BY <1>0, <2>1, <2>2, <2>3, <2>4
<1>5. ASSUME NEW t \in Threads, RevokeChecks(t) PROVE IInv'
  <2>1. LockDiscipline'
    BY <1>5 DEF RevokeChecks
  <2>2. HolderKnows'
    BY <1>5 DEF RevokeChecks
  <2>3. CacheAgrees'
    BY <1>5 DEF RevokeChecks
  <2>4. DownIsQuiet' /\ AnswersAreDurable'
    BY <1>5 DEF RevokeChecks
  <2>5. QED
    BY <1>0, <2>1, <2>2, <2>3, <2>4
<1>6. ASSUME NEW t \in Threads, MarkRevoked(t) PROVE IInv'
  <2>1. LockDiscipline'
    BY <1>6 DEF MarkRevoked
  <2>2. HolderKnows'
    BY <1>6 DEF MarkRevoked
  <2>3. CacheAgrees'
    BY <1>6 DEF MarkRevoked
  <2>4. DownIsQuiet' /\ AnswersAreDurable'
    BY <1>6 DEF MarkRevoked
  <2>5. QED
    BY <1>0, <2>1, <2>2, <2>3, <2>4
<1>7. ASSUME NEW t \in Threads, WithdrawDevice(t) PROVE IInv'
  <2>1. LockDiscipline'
    BY <1>7 DEF WithdrawDevice
  <2>2. HolderKnows'
    BY <1>7 DEF WithdrawDevice
  <2>3. CacheAgrees'
    BY <1>7 DEF WithdrawDevice
  <2>4. DownIsQuiet' /\ AnswersAreDurable'
    BY <1>7 DEF WithdrawDevice
  <2>5. QED
    BY <1>0, <2>1, <2>2, <2>3, <2>4
<1>8. ASSUME NEW t \in Threads, StoreFails(t) PROVE IInv'
  <2>1. LockDiscipline'
    BY <1>8 DEF StoreFails
  <2>2. HolderKnows'
    BY <1>8 DEF StoreFails
  <2>3. CacheAgrees'
    BY <1>8 DEF StoreFails
  <2>4. DownIsQuiet' /\ AnswersAreDurable'
    BY <1>8 DEF StoreFails
  <2>5. QED
    BY <1>0, <2>1, <2>2, <2>3, <2>4
<1>9. ASSUME NEW t \in Threads, Leave(t) PROVE IInv'
  <2>1. LockDiscipline'
    BY <1>9 DEF Leave
  <2>2. HolderKnows'
    BY <1>9 DEF Leave
  <2>3. CacheAgrees'
    BY <1>9 DEF Leave
  <2>4. DownIsQuiet' /\ AnswersAreDurable'
    BY <1>9 DEF Leave
  <2>5. QED
    BY <1>0, <2>1, <2>2, <2>3, <2>4
<1>10. ASSUME NEW t \in Threads, NEW d \in Devices,
              CallRegister(t, d) \/ CallRevoke(t, d) \/ Authenticate(t, d)
       PROVE  IInv'
  BY <1>0, <1>10 DEF CallRegister, CallRevoke, Authenticate
<1>11. CASE LoseProcess
  BY <1>0, <1>11 DEF LoseProcess
<1>12. CASE LoadFromStore
  BY <1>0, <1>12 DEF LoadFromStore
<1>13. QED
  BY <1>1, <1>2, <1>3, <1>4, <1>5, <1>6, <1>7, <1>8, <1>9, <1>10, <1>11, <1>12
  DEF RegistryNext, RegisterStep, RevokeStep

-----------------------------------------------------------------------------
(* The inductive invariant holds in every reachable state. *)
LEMMA Invariance == RegistrySpec => []IInv
  BY InitIInv, StepIInv, PTL DEF RegistrySpec

(* Every variable keeps its type, for any number of threads and devices. *)
THEOREM RegistryTypeCorrect == RegistrySpec => []RegistryTypeOK
<1>1. IInv => RegistryTypeOK
  BY DEF IInv
<1>2. QED
  BY Invariance, <1>1, PTL

(* The registry's lock excludes: at most one thread is past the checks of    *)
(* register or revoke, and it is the one that holds the lock.                *)
THEOREM RegistryLockDiscipline == RegistrySpec => []LockDiscipline
<1>1. IInv => LockDiscipline
  BY DEF IInv
<1>2. QED
  BY Invariance, <1>1, PTL

(* Between operations the dictionaries and the devices table agree.          *)
THEOREM MemoryIsStore == RegistrySpec => []MemoryMatchesStore
<1>1. IInv => MemoryMatchesStore
  <2> SUFFICES ASSUME IInv, up, registryLock = NoThread
               PROVE  memory = store
    BY DEF MemoryMatchesStore
  <2>1. \A t \in Threads : call[t].pc \notin {"publish", "withdraw"}
    BY NoThreadAssumption DEF IInv, LockDiscipline, LockedSteps
  <2>2. \A d \in Devices : memory[d] = store[d]
    BY <2>1 DEF IInv, CacheAgrees
  <2>3. QED
    BY <2>2 DEF IInv, RegistryTypeOK
<1>2. QED
  BY Invariance, <1>1, PTL

(* What register() and revoke() reported is on disk, whatever crashes follow. *)
THEOREM AnswersSurvive == RegistrySpec => []AnswersAreDurable
<1>1. IInv => AnswersAreDurable
  BY DEF IInv
<1>2. QED
  BY Invariance, <1>1, PTL

(* No sequence of calls, failures and restarts moves a row backwards.        *)
THEOREM RowsMoveForward == RegistrySpec => StoreMovesForward
<1>1. IInv /\ [RegistryNext]_registryVars
        => [\A d \in Devices : \/ store'[d] = store[d]
                               \/ store[d] = "absent" /\ store'[d] = "authorized"
                               \/ store[d] = "authorized" /\ store'[d] = "revoked"]_registryVars
  <2> SUFFICES ASSUME IInv, RegistryNext, NEW d \in Devices
               PROVE  \/ store'[d] = store[d]
                      \/ store[d] = "absent" /\ store'[d] = "authorized"
                      \/ store[d] = "authorized" /\ store'[d] = "revoked"
    OBVIOUS
  <2> DEFINE Holder(t) == call[t].pc \in {"publish", "withdraw"}
  <2>1. ASSUME NEW t \in Threads, SaveDevice(t)
        PROVE  store[call[t].device] = "absent"
    <3>1. up /\ call[t].device \in Devices /\ memory[call[t].device] = "absent" /\ registryLock = t
      BY <2>1, NoThreadAssumption
      DEF SaveDevice, IInv, RegistryTypeOK, DownIsQuiet, HolderKnows, LockDiscipline, LockedSteps, Outside
    <3>2. \A u \in Threads : ~Holder(u)
      BY <2>1, <3>1 DEF SaveDevice, IInv, LockDiscipline, LockedSteps
    <3>3. QED
      BY <3>1, <3>2 DEF IInv, CacheAgrees
  <2>2. ASSUME NEW t \in Threads, MarkRevoked(t)
        PROVE  store[call[t].device] = "authorized"
    <3>1. up /\ call[t].device \in Devices /\ memory[call[t].device] = "authorized" /\ registryLock = t
      BY <2>2, NoThreadAssumption
      DEF MarkRevoked, IInv, RegistryTypeOK, DownIsQuiet, HolderKnows, LockDiscipline, LockedSteps, Outside
    <3>2. \A u \in Threads : ~Holder(u)
      BY <2>2, <3>1 DEF MarkRevoked, IInv, LockDiscipline, LockedSteps
    <3>3. QED
      BY <3>1, <3>2 DEF IInv, CacheAgrees
  <2>3. CASE \E t \in Threads : SaveDevice(t)
    BY <2>1, <2>3 DEF SaveDevice, IInv, RegistryTypeOK
  <2>4. CASE \E t \in Threads : MarkRevoked(t)
    BY <2>2, <2>4 DEF MarkRevoked, IInv, RegistryTypeOK
  <2>5. CASE UNCHANGED store
    BY <2>5
  <2>6. (\E t \in Threads : SaveDevice(t) \/ MarkRevoked(t)) \/ UNCHANGED store
    BY DEF RegistryNext, RegisterStep, RevokeStep, RegisterChecks, PublishDevice, RevokeChecks,
           WithdrawDevice, StoreFails, Leave, CallRegister, CallRevoke, Authenticate, LoseProcess,
           LoadFromStore
  <2>7. QED
    BY <2>3, <2>4, <2>5, <2>6
<1>2. QED
  BY Invariance, <1>1, PTL DEF RegistrySpec, StoreMovesForward

-----------------------------------------------------------------------------
(* After revoke() returned, authenticate() never accepts the device again.   *)
THEOREM RevocationIsFinal == RegistrySpec => NoAccessAfterRevocation
<1> DEFINE Fresh(t) == call[t].pc # "accepted" /\ call'[t].pc = "accepted"
<1>1. IInv /\ [RegistryNext]_registryVars
        => [\A t \in Threads : Fresh(t) => call'[t].device \notin dismissed]_registryVars
  <2> SUFFICES ASSUME IInv, RegistryNext, NEW t \in Threads, Fresh(t)
               PROVE  call'[t].device \notin dismissed
    OBVIOUS
  <2>1. \E d \in Devices : Authenticate(t, d) /\ memory[d] = "authorized"
    BY DEF IInv, RegistryTypeOK, RegistryNext, RegisterStep, RevokeStep, RegisterChecks, SaveDevice,
           PublishDevice, RevokeChecks, MarkRevoked, WithdrawDevice, StoreFails, Leave, CallRegister,
           CallRevoke, Authenticate, LoseProcess, LoadFromStore, Goto, At, Outside
  <2>2. PICK d \in Devices : Authenticate(t, d) /\ memory[d] = "authorized"
    BY <2>1
  <2>3. \A u \in Threads : call[u].pc \notin {"publish", "withdraw"}
    BY <2>2, NoThreadAssumption DEF Authenticate, IInv, LockDiscipline, LockedSteps
  <2>4. store[d] = "authorized"
    BY <2>2, <2>3 DEF Authenticate, IInv, CacheAgrees
  <2>5. call'[t].device = d
    BY <2>2 DEF Authenticate, At, IInv, RegistryTypeOK
  <2>6. QED
    BY <2>4, <2>5 DEF IInv, AnswersAreDurable
<1>2. QED
  BY Invariance, <1>1, PTL DEF RegistrySpec, NoAccessAfterRevocation

-----------------------------------------------------------------------------
(* Refinement. *)

LEMMA InitRefines == RegistryInit => Authority!Init
  BY DEF RegistryInit, Authority!Init, Reply, Outside, ReplySteps

(* Replying to a caller that had no reply is the authority's Answer. *)
LEMMA AnsweringRefines ==
    ASSUME RegistryTypeOK, NEW t \in Threads, NEW pc \in ReplySteps, NEW d \in Devices,
           call[t].pc \notin ReplySteps, call' = [call EXCEPT ![t] = At(pc, d)],
           UNCHANGED store, Authority!Truthful([kind |-> pc, device |-> d])
    PROVE  Authority!Answer(t)
<1> DEFINE replies == [u \in Threads |-> Reply(u)]
           r == [kind |-> pc, device |-> d]
<1>1. replies[t] = NoDevice
  BY DEF Reply
<1>2. r \in Authority!Replies
  BY DEF ReplySteps, Authority!Replies, Authority!ReplyKinds
<1>3. Reply(t)' = r /\ \A u \in Threads \ {t} : Reply(u)' = Reply(u)
  BY DEF RegistryTypeOK, Reply, At
<1>4. replies' = [replies EXCEPT ![t] = r]
  BY <1>3
<1>5. QED
  BY <1>1, <1>2, <1>4 DEF Authority!Answer

(* A step of a thread that neither had nor gets a reply leaves the replies.  *)
LEMMA SilentStep ==
    ASSUME RegistryTypeOK, NEW t \in Threads, NEW pc, NEW d, pc \notin ReplySteps,
           call[t].pc \notin ReplySteps, call' = [call EXCEPT ![t] = At(pc, d)]
    PROVE  UNCHANGED [u \in Threads |-> Reply(u)]
<1>1. \A u \in Threads : Reply(u)' = Reply(u)
  BY DEF RegistryTypeOK, Reply, At
<1>2. QED
  BY <1>1

(* With the lock free and a call under way, memory and disk agree.           *)
LEMMA FreeLockAgrees ==
    ASSUME IInv, registryLock = NoThread, up
    PROVE  \A d \in Devices : memory[d] = store[d]
<1>1. \A t \in Threads : call[t].pc \notin {"publish", "withdraw"}
  BY NoThreadAssumption DEF IInv, LockDiscipline, LockedSteps
<1>2. QED
  BY <1>1 DEF IInv, CacheAgrees

LEMMA InCall ==
    ASSUME IInv, NEW t \in Threads, call[t].pc \in WaitingSteps \cup LockedSteps \cup ReplySteps
    PROVE  up /\ call[t].device \in Devices
  BY DEF IInv, RegistryTypeOK, DownIsQuiet, Outside, WaitingSteps, LockedSteps, ReplySteps

LEMMA StepRefines == IInv /\ [RegistryNext]_registryVars => [Authority!Next]_(Authority!vars)
<1> SUFFICES ASSUME IInv, [RegistryNext]_registryVars
             PROVE  [Authority!Next]_(Authority!vars)
  OBVIOUS
<1> DEFINE replies == [u \in Threads |-> Reply(u)]
           Stutter == UNCHANGED store /\ UNCHANGED replies
           Answers == \E t \in Threads : Authority!Answer(t)
<1> USE DEF WaitingSteps, LockedSteps, ReplySteps
<1>t. RegistryTypeOK
  BY DEF IInv
<1>1. CASE UNCHANGED registryVars
  BY <1>1 DEF registryVars, Authority!vars, Reply
<1>2. ASSUME NEW t \in Threads, RegisterChecks(t) PROVE Stutter \/ Answers
  <2>1. up /\ call[t].device \in Devices
    BY <1>2, InCall DEF RegisterChecks
  <2>2. CASE memory[call[t].device] # "absent"
    <3>1. store[call[t].device] # "absent"
      BY <1>2, <2>1, <2>2, FreeLockAgrees DEF RegisterChecks
    <3>2. Authority!Truthful([kind |-> "duplicate", device |-> call[t].device])
      BY <3>1 DEF Authority!Truthful
    <3>3. QED
      BY <1>t, <1>2, <2>1, <2>2, <3>2, AnsweringRefines DEF RegisterChecks, Goto
  <2>3. CASE memory[call[t].device] = "absent"
    BY <1>t, <1>2, <2>3, SilentStep DEF RegisterChecks, Goto
  <2>4. QED
    BY <2>2, <2>3
<1>3. ASSUME NEW t \in Threads, SaveDevice(t)
      PROVE  (\E d \in Devices : Authority!Grant(d)) \/ Stutter
  <2>1. UNCHANGED replies
    BY <1>t, <1>3, SilentStep DEF SaveDevice, Goto
  <2>2. call[t].device \in Devices /\ up
    BY <1>3, InCall DEF SaveDevice
  <2>3. \A u \in Threads : call[u].pc \notin {"publish", "withdraw"}
    BY <1>3 DEF SaveDevice, IInv, LockDiscipline
  <2>4. store[call[t].device] = "absent"
    BY <1>3, <2>2, <2>3 DEF SaveDevice, IInv, HolderKnows, CacheAgrees
  <2>5. QED
    BY <1>3, <2>1, <2>2, <2>4 DEF SaveDevice, Authority!Grant
<1>4. ASSUME NEW t \in Threads, MarkRevoked(t)
      PROVE  (\E d \in Devices : Authority!Revoke(d)) \/ Stutter
  <2>1. UNCHANGED replies
    BY <1>t, <1>4, SilentStep DEF MarkRevoked, Goto
  <2>2. call[t].device \in Devices /\ up
    BY <1>4, InCall DEF MarkRevoked
  <2>3. \A u \in Threads : call[u].pc \notin {"publish", "withdraw"}
    BY <1>4 DEF MarkRevoked, IInv, LockDiscipline
  <2>4. store[call[t].device] = "authorized"
    BY <1>4, <2>2, <2>3 DEF MarkRevoked, IInv, HolderKnows, CacheAgrees
  <2>5. QED
    BY <1>4, <2>1, <2>2, <2>4 DEF MarkRevoked, Authority!Revoke
<1>5. ASSUME NEW t \in Threads, PublishDevice(t) PROVE Answers
  <2>1. call[t].device \in Devices /\ store[call[t].device] = "authorized"
    BY <1>5, InCall DEF PublishDevice, IInv, HolderKnows
  <2>2. Authority!Truthful([kind |-> "registered", device |-> call[t].device])
    BY <2>1 DEF Authority!Truthful
  <2>3. QED
    BY <1>t, <1>5, <2>1, <2>2, AnsweringRefines DEF PublishDevice, Goto
<1>6. ASSUME NEW t \in Threads, RevokeChecks(t) PROVE Stutter \/ Answers
  <2> DEFINE d == call[t].device
  <2>1. up /\ d \in Devices
    BY <1>6, InCall DEF RevokeChecks
  <2>2. memory[d] = store[d]
    BY <1>6, <2>1, FreeLockAgrees DEF RevokeChecks
  <2>3. CASE Goto(t, "unknown") /\ memory[d] = "absent"
    <3>1. Authority!Truthful([kind |-> "unknown", device |-> d])
      BY <2>2, <2>3 DEF Authority!Truthful
    <3>2. QED
      BY <1>t, <1>6, <2>1, <2>3, <3>1, AnsweringRefines DEF RevokeChecks, Goto
  <2>4. CASE Goto(t, "revoked") /\ memory[d] = "revoked"
    <3>1. Authority!Truthful([kind |-> "revoked", device |-> d])
      BY <2>2, <2>4 DEF Authority!Truthful
    <3>2. QED
      BY <1>t, <1>6, <2>1, <2>4, <3>1, AnsweringRefines DEF RevokeChecks, Goto
  <2>5. CASE Goto(t, "mark")
    BY <1>t, <1>6, <2>5, SilentStep DEF RevokeChecks, Goto
  <2>6. QED
    BY <1>6, <2>3, <2>4, <2>5 DEF RevokeChecks
<1>7. ASSUME NEW t \in Threads, WithdrawDevice(t) PROVE Answers
  <2>1. call[t].device \in Devices /\ store[call[t].device] = "revoked"
    BY <1>7, InCall DEF WithdrawDevice, IInv, HolderKnows
  <2>2. Authority!Truthful([kind |-> "revoked", device |-> call[t].device])
    BY <2>1 DEF Authority!Truthful
  <2>3. QED
    BY <1>t, <1>7, <2>1, <2>2, AnsweringRefines DEF WithdrawDevice, Goto
<1>8. ASSUME NEW t \in Threads, StoreFails(t) PROVE Answers
  <2>1. call[t].device \in Devices
    BY <1>8, InCall DEF StoreFails
  <2>2. Authority!Truthful([kind |-> "failed", device |-> call[t].device])
    BY DEF Authority!Truthful
  <2>3. QED
    BY <1>t, <1>8, <2>1, <2>2, AnsweringRefines DEF StoreFails, Goto
<1>9. ASSUME NEW t \in Threads, NEW d \in Devices, Authenticate(t, d) PROVE Answers
  <2>1. memory[d] = store[d]
    BY <1>9, FreeLockAgrees DEF Authenticate
  <2> DEFINE kind == IF memory[d] = "authorized" THEN "accepted" ELSE "denied"
  <2>2. Authority!Truthful([kind |-> kind, device |-> d])
    BY <2>1 DEF Authority!Truthful
  <2>3. kind \in ReplySteps /\ call[t].pc \notin ReplySteps
    BY <1>9 DEF Authenticate, Outside
  <2>4. QED
    BY <1>t, <1>9, <2>2, <2>3, AnsweringRefines DEF Authenticate
<1>10. ASSUME NEW t \in Threads, NEW d \in Devices, CallRegister(t, d) \/ CallRevoke(t, d)
       PROVE  Stutter
  BY <1>t, <1>10, SilentStep DEF CallRegister, CallRevoke, Outside
<1>11. ASSUME NEW t \in Threads, Leave(t) PROVE Authority!TakeReply(t)
  <2>1. Reply(t)' = NoDevice /\ \A u \in Threads \ {t} : Reply(u)' = Reply(u)
    BY <1>t, <1>11 DEF Leave, Reply, Outside, RegistryTypeOK
  <2>2. QED
    BY <1>11, <2>1 DEF Leave, Authority!TakeReply
<1>12. ASSUME LoseProcess PROVE Authority!LoseReplies
  BY <1>12 DEF LoseProcess, Authority!LoseReplies, Reply, Outside
<1>13. ASSUME LoadFromStore PROVE Stutter
  BY <1>13 DEF LoadFromStore, Reply
<1>14. Stutter => UNCHANGED Authority!vars
  BY DEF Authority!vars
<1>15. QED
  BY <1>1, <1>2, <1>3, <1>4, <1>5, <1>6, <1>7, <1>8, <1>9, <1>10, <1>11, <1>12, <1>13, <1>14
  DEF RegistryNext, RegisterStep, RevokeStep, Authority!Next

(* The registry, with its cache, its lock, its failing store and its crashes, *)
(* implements the authority that has none of them.                           *)
THEOREM RegistryImplementsAuthority == RegistrySpec => ImplementsAuthority
  BY InitRefines, StepRefines, Invariance, PTL DEF RegistrySpec, ImplementsAuthority, Authority!Spec
=============================================================================
