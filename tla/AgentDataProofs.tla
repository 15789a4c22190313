--------------------------- MODULE AgentDataProofs ---------------------------
(***************************************************************************)
(* Proofs about AgentData for any sets of threads, devices and actions:    *)
(* whichever of the Agent, the seed script and the copy script takes the   *)
(* next step, the schema is whole, what was answered is on disk, and only  *)
(* an allowed action is started.  Every step but the copy script's replace *)
(* is a step of the registry or leaves it alone, so that the invariant of  *)
(* DeviceRegistryProofs carries over; a replace that went unnoticed breaks *)
(* it, which is what "overran" records.                                    *)
(***************************************************************************)
EXTENDS AgentData, DeviceRegistryProofs

(* A database that is not there is empty; one that is open is there, and is  *)
(* of this version once the opener has read it.                              *)
FileInv ==
    /\ database.tables <=> database.version >= CurrentVersion
    /\ ~database.tables => store = Empty /\ rows = Unset
    /\ ~database.exists => database.version = 0 /\ registered = {} /\ dismissed = {}
    /\ \A x \in Openers :
          /\ opening[x] # "off" => database.exists
          /\ opening[x] \in {"ready", "loaded", "missing"} => database.version = CurrentVersion
    /\ up => database.exists /\ database.version = CurrentVersion
    /\ catalogue # {} => database.exists
    /\ copying # "off" => database.version <= CurrentVersion /\ unseen

(* What the Agent and the seed script read from the table is still so. *)
KeptInv ==
    ~overran => /\ \A a \in catalogue : rows[a] = "enabled"
                /\ opening["seed"] = "missing" => rows[Notepad] = "absent"

(* What a thread that executes an action has already been told. *)
ExecInv ==
    \A t \in Threads : exec[t] # Idle =>
        /\ call[t].pc \in {"accepted", "denied"}
        /\ call[t].pc = "accepted" /\ ~overran => call[t].device \notin bygone[t]
        /\ exec[t].stage # "asked" => /\ call[t].pc = "accepted"
                                      /\ ~overran => rows[exec[t].action] = "enabled"

DataInv ==
    /\ TypeOK
    /\ DownIsQuiet
    /\ ~overran => IInv
    /\ FileInv
    /\ KeptInv
    /\ ExecInv

-----------------------------------------------------------------------------
(* Every step but a replace is one of the registry or invisible to it. *)
LEMMA RegistryMoves == [Next]_vars => [RegistryNext]_registryVars \/ ReplaceDestination
<1> SUFFICES ASSUME [Next]_vars, ~ReplaceDestination
             PROVE  [RegistryNext]_registryVars
  OBVIOUS
<1>1. CASE UNCHANGED vars
  BY <1>1 DEF vars
<1>2. ASSUME NEW x \in Openers, Connect(x) \/ Migrate(x) \/ OpeningFails(x)
      PROVE  UNCHANGED registryVars
  BY <1>2 DEF Connect, Migrate, ReadVersion, BeginMigration, CommitMigration, OpeningFails
<1>3. CASE LoadActions \/ SeedLooks \/ SeedSaves
  BY <1>3 DEF LoadActions, SeedLooks, SeedSaves
<1>4. CASE StartServing \/ Crash
  BY <1>4 DEF StartServing, Crash, RegistryNext
<1>5. CASE Copy
  BY <1>5 DEF Copy, CheckDestination, PrepareCopy
<1>6. ASSUME NEW t \in Threads, Handle(t)
      PROVE  [RegistryNext]_registryVars
  BY <1>6 DEF Handle, ResolveAction, ValidateAvailability, StartProcess, Advance, AnswerExecution,
              InRegistry, StoreFault, RegistryNext
<1>7. ASSUME NEW t \in Threads, NEW d \in Devices,
             Registration(t, d) \/ Revocation(t, d) \/ \E a \in Actions : ExecuteAction(t, d, a)
      PROVE  RegistryNext
  BY <1>7 DEF Registration, Revocation, ExecuteAction, RegistryNext
<1>8. QED
  BY <1>1, <1>2, <1>3, <1>4, <1>5, <1>6, <1>7 DEF Next

(* A replace leaves everything of the registry but its rows.                 *)
LEMMA ReplaceKeepsMemory ==
    ReplaceDestination => UNCHANGED <<up, memory, registryLock, call, registered, dismissed>>
  BY DEF ReplaceDestination

-----------------------------------------------------------------------------
(* Every variable keeps its type.                                            *)

DatabaseStates == [exists : BOOLEAN, version : Nat, tables : BOOLEAN]

LEMMA InitDatabase == Init => database \in DatabaseStates
<1> SUFFICES ASSUME Init PROVE database \in DatabaseStates
  OBVIOUS
<1>1. CASE database = [exists |-> FALSE, version |-> 0, tables |-> FALSE]
  BY <1>1 DEF DatabaseStates
<1>2. CASE database = [exists |-> TRUE, version |-> 1, tables |-> TRUE]
  BY <1>2 DEF DatabaseStates
<1>3. CASE database = [exists |-> TRUE, version |-> 2, tables |-> TRUE]
  BY <1>3 DEF DatabaseStates
<1>4. QED
  BY <1>1, <1>2, <1>3 DEF Init, CurrentVersion

LEMMA CommitShape ==
    ASSUME database \in DatabaseStates, NEW x, CommitMigration(x)
    PROVE  database' \in DatabaseStates
<1>1. CASE database' = [database EXCEPT !.version = CurrentVersion, !.tables = TRUE]
  BY <1>1 DEF DatabaseStates, CurrentVersion
<1>2. QED
  BY <1>1 DEF CommitMigration

LEMMA ReplaceShape ==
    ASSUME database \in DatabaseStates, ReplaceDestination
    PROVE  database' \in DatabaseStates
<1>1. CASE database' = [exists |-> TRUE, version |-> CurrentVersion, tables |-> TRUE]
  BY <1>1 DEF DatabaseStates, CurrentVersion
<1>2. QED
  BY <1>1 DEF ReplaceDestination

LEMMA InitDataInv == Init => DataInv
<1> SUFFICES ASSUME Init PROVE DataInv
  OBVIOUS
<1>1. TypeOK
  <2>1. RegistryTypeOK
    BY DEF Init, RegistryTypeOK, DeviceStatus, Empty
  <2>2. database \in DatabaseStates
    BY InitDatabase
  <2>3. rows \in [Actions -> RowStatus]
    BY DEF Init, Unset, RowStatus
  <2>4. exec \in [Threads -> [action : Actions, stage : {"asked", "found", "available"}] \cup {Idle}]
    BY DEF Init
  <2>5. opening \in [Openers -> Connected \cup {"off", "ready", "loaded", "missing"}]
    BY DEF Init
  <2>6. bygone \in [Threads -> SUBSET Devices]
    BY DEF Init
  <2>7. QED
    BY <2>1, <2>2, <2>3, <2>4, <2>5, <2>6 DEF Init, TypeOK, DatabaseStates
<1>2. DownIsQuiet /\ IInv
  BY <1>1, NoThreadAssumption
  DEF Init, DownIsQuiet, IInv, TypeOK, LockDiscipline, HolderKnows, CacheAgrees, AnswersAreDurable,
      Outside, LockedSteps
<1>3. FileInv
  BY DEF Init, FileInv, CurrentVersion
<1>4. KeptInv /\ ExecInv
  BY DEF Init, KeptInv, ExecInv, Openers
<1>5. QED
  BY <1>1, <1>2, <1>3, <1>4 DEF DataInv

LEMMA DataTypeStep == TypeOK /\ [Next]_vars => TypeOK'
<1> SUFFICES ASSUME TypeOK, [Next]_vars
             PROVE  TypeOK'
  OBVIOUS
<1>r. RegistryTypeOK'
  <2>1. CASE ReplaceDestination
    BY <2>1 DEF ReplaceDestination, TypeOK, RegistryTypeOK
  <2>2. CASE [RegistryNext]_registryVars
    BY <2>2, TypeStep DEF TypeOK
  <2>3. QED
    BY <2>1, <2>2, RegistryMoves
<1> USE <1>r DEF TypeOK, fileVars, agentVars, history
<1>1. CASE UNCHANGED vars
  BY <1>1 DEF vars, dataVars
<1>2. ASSUME NEW x \in Openers, Connect(x) \/ Migrate(x) \/ OpeningFails(x)
      PROVE  TypeOK'
  <2> USE DEF Reach, Connected, CurrentVersion
  <2>1. CASE Connect(x)
    BY <2>1 DEF Connect
  <2>2. CASE ReadVersion(x) \/ BeginMigration(x)
    BY <2>2 DEF ReadVersion, BeginMigration
  <2>3. CASE CommitMigration(x)
    <3>1. database' \in DatabaseStates
      BY <2>3, CommitShape DEF DatabaseStates
    <3>2. QED
      BY <2>3, <3>1 DEF CommitMigration, DatabaseStates
  <2>4. CASE OpeningFails(x)
    BY <2>4 DEF OpeningFails
  <2>5. QED
    BY <1>2, <2>1, <2>2, <2>3, <2>4 DEF Migrate
<1>3. CASE LoadActions \/ StartServing
  BY <1>3 DEF LoadActions, StartServing, Reach
<1>4. CASE SeedLooks \/ SeedSaves
  BY <1>4, NotepadAssumption DEF SeedLooks, SeedSaves, Reach, RowStatus
<1>5. CASE Crash
  BY <1>5 DEF Crash
<1>6. CASE Copy
  <2>1. CASE CheckDestination \/ PrepareCopy
    BY <2>1 DEF CheckDestination, PrepareCopy
  <2>2. CASE ReplaceDestination
    <3>1. \/ UNCHANGED <<database, rows, overran>>
          \/ /\ database' = [exists |-> TRUE, version |-> 1, tables |-> TRUE]
             /\ rows' = legacy.actions
             /\ overran' = (overran \/ (unseen /\ database.exists))
      BY <2>2 DEF ReplaceDestination, CurrentVersion
    <3>2. database' \in DatabaseStates
      BY <2>2, ReplaceShape DEF DatabaseStates
    <3>3. rows' \in [Actions -> RowStatus] /\ overran' \in BOOLEAN
      BY <3>1
    <3>4. QED
      BY <2>2, <3>2, <3>3 DEF ReplaceDestination, DatabaseStates
  <2>3. QED
    BY <1>6, <2>1, <2>2 DEF Copy
<1>7. ASSUME NEW t \in Threads, Handle(t)
      PROVE  TypeOK'
  <2>1. CASE InRegistry(t) \/ StoreFault(t)
    BY <2>1 DEF InRegistry, StoreFault, dataVars
  <2>2. CASE AnswerExecution(t)
    BY <2>2 DEF AnswerExecution, Idle
  <2>3. ASSUME NEW stage \in {"found", "available"}, Advance(t, stage), exec[t].stage # "idle"
        PROVE  TypeOK'
    BY <2>3 DEF Advance, Idle
  <2>4. QED
    BY <1>7, <2>1, <2>2, <2>3 DEF Handle, ResolveAction, ValidateAvailability, StartProcess
<1>8. ASSUME NEW t \in Threads, NEW d \in Devices, NEW a \in Actions, ExecuteAction(t, d, a)
      PROVE  TypeOK'
  BY <1>8 DEF ExecuteAction, RegistryTypeOK
<1>9. ASSUME NEW t \in Threads, NEW d \in Devices, Registration(t, d) \/ Revocation(t, d)
      PROVE  TypeOK'
  BY <1>9 DEF Registration, Revocation, dataVars
<1>10. QED
  BY <1>1, <1>2, <1>3, <1>4, <1>5, <1>6, <1>7, <1>8, <1>9 DEF Next

-----------------------------------------------------------------------------
(* What a step leaves alone. *)

(* A request touches no file but through the registry, and no process starts *)
(* or ends with it.                                                          *)
ThreadStep(t) ==
    \/ Handle(t)
    \/ \E d \in Devices : \/ Registration(t, d) \/ Revocation(t, d)
                         \/ \E a \in Actions : ExecuteAction(t, d, a)

LEMMA ThreadFrame ==
    ASSUME NEW t \in Threads, ThreadStep(t)
    PROVE  UNCHANGED <<up, database, rows, opening, catalogue, copying, legacy, unseen, overran>>
<1> USE DEF fileVars, agentVars, history, dataVars, registryVars
<1>1. ASSUME Handle(t)
      PROVE  UNCHANGED <<up, database, rows, opening, catalogue, copying, legacy, unseen, overran>>
  <2>1. CASE ResolveAction(t) \/ ValidateAvailability(t) \/ StartProcess(t)
    BY <2>1 DEF ResolveAction, ValidateAvailability, StartProcess, Advance, AnswerExecution, Leave
  <2>2. CASE InRegistry(t) \/ StoreFault(t)
    BY <2>2 DEF InRegistry, StoreFault, StoreFails, Leave, RegisterStep, RevokeStep, RegisterChecks,
                SaveDevice, PublishDevice, RevokeChecks, MarkRevoked, WithdrawDevice
  <2>3. QED
    BY <1>1, <2>1, <2>2 DEF Handle
<1>2. ASSUME NEW d \in Devices,
             Registration(t, d) \/ Revocation(t, d) \/ \E a \in Actions : ExecuteAction(t, d, a)
      PROVE  UNCHANGED <<up, database, rows, opening, catalogue, copying, legacy, unseen, overran>>
  BY <1>2 DEF Registration, Revocation, ExecuteAction, CallRegister, CallRevoke, Authenticate
<1>3. QED
  BY <1>1, <1>2 DEF ThreadStep

(* Only a running Agent writes rows or answers. *)
LEMMA DownWritesNothing ==
    ASSUME RegistryTypeOK, DownIsQuiet, ~up, [RegistryNext]_registryVars
    PROVE  UNCHANGED <<store, registered, dismissed, registryLock, call>>
<1>1. \A t \in Threads : call[t] = Outside
  BY DEF DownIsQuiet
<1>2. QED
  BY <1>1
  DEF registryVars, RegistryNext, RegisterStep, RevokeStep, RegisterChecks, SaveDevice, PublishDevice,
      RevokeChecks, MarkRevoked, WithdrawDevice, StoreFails, Leave, CallRegister, CallRevoke,
      Authenticate, LoseProcess, LoadFromStore, Outside, ReplySteps

(* Every step is a request's, an opener's, the copy script's, or one of the  *)
(* Agent's own.                                                              *)
LEMMA NextCases ==
    [Next]_vars =>
        \/ UNCHANGED vars
        \/ \E x \in Openers : Connect(x) \/ Migrate(x) \/ OpeningFails(x)
        \/ LoadActions \/ StartServing \/ Crash \/ SeedLooks \/ SeedSaves \/ Copy
        \/ \E t \in Threads : ThreadStep(t)
  BY DEF Next, ThreadStep

LEMMA QuietStep == TypeOK /\ DownIsQuiet /\ [Next]_vars => DownIsQuiet'
<1> SUFFICES ASSUME TypeOK, DownIsQuiet, [Next]_vars
             PROVE  DownIsQuiet'
  OBVIOUS
<1>1. CASE ReplaceDestination
  BY <1>1, ReplaceKeepsMemory DEF DownIsQuiet
<1>2. CASE [RegistryNext]_registryVars /\ ~up
  BY <1>2, DownWritesNothing DEF TypeOK, DownIsQuiet
<1>3. CASE [RegistryNext]_registryVars /\ up
  BY <1>3
  DEF registryVars, RegistryNext, RegisterStep, RevokeStep, RegisterChecks, SaveDevice, PublishDevice,
      RevokeChecks, MarkRevoked, WithdrawDevice, StoreFails, Leave, CallRegister, CallRevoke,
      Authenticate, LoseProcess, LoadFromStore, DownIsQuiet
<1>4. QED
  BY <1>1, <1>2, <1>3, RegistryMoves

-----------------------------------------------------------------------------
(* The file. *)

(* A replace that overran nothing finds no database, hence no Agent.         *)
LEMMA ReplaceFindsNothing ==
    ASSUME TypeOK, DownIsQuiet, FileInv, ReplaceDestination, ~overran'
    PROVE  \/ UNCHANGED <<database, store, rows, overran>>
           \/ /\ ~database.exists /\ ~up /\ catalogue = {} /\ rows = Unset
              /\ \A x \in Openers : opening[x] = "off"
              /\ registered = {} /\ dismissed = {}
              /\ call = [t \in Threads |-> Outside]
<1>1. copying # "off"
  BY DEF ReplaceDestination
<1>2. unseen
  BY <1>1 DEF FileInv
<1>3. CASE UNCHANGED <<database, store, rows, overran>>
  BY <1>3
<1>4. CASE ~database.exists
  <2>1. ~up /\ catalogue = {} /\ registered = {} /\ dismissed = {}
    BY <1>4 DEF FileInv
  <2>2. \A x \in Openers : opening[x] = "off"
    BY <1>4 DEF FileInv
  <2>3. database.version = 0
    BY <1>4 DEF FileInv
  <2>4. rows = Unset
    BY <2>3 DEF FileInv, CurrentVersion
  <2>5. QED
    BY <1>4, <2>1, <2>2, <2>4 DEF DownIsQuiet
<1>5. QED
  BY <1>2, <1>3, <1>4 DEF ReplaceDestination

(* A request's thread takes a step of the registry or one invisible to it.   *)
LEMMA ThreadsAskTheRegistry ==
    ASSUME [Next]_vars, NEW t \in Threads, ThreadStep(t)
    PROVE  [RegistryNext]_registryVars
<1>1. UNCHANGED copying
  BY ThreadFrame
<1>2. CASE ReplaceDestination
  BY <1>1, <1>2 DEF ReplaceDestination
<1>3. QED
  BY <1>2, RegistryMoves

LEMMA FileStep == TypeOK /\ DownIsQuiet /\ FileInv /\ [Next]_vars => FileInv'
<1> SUFFICES ASSUME TypeOK, DownIsQuiet, FileInv, [Next]_vars
             PROVE  FileInv'
  OBVIOUS
<1>v. database.version \in Nat
  BY DEF TypeOK
<1>o. opening \in [Openers -> Connected \cup {"off", "ready", "loaded", "missing"}]
  BY DEF TypeOK
<1> USE DEF CurrentVersion, fileVars, agentVars, history, registryVars
<1>1. CASE UNCHANGED vars
  BY <1>1 DEF vars, dataVars, FileInv
<1>2. ASSUME NEW t \in Threads, ThreadStep(t) PROVE FileInv'
  <2>1. UNCHANGED <<up, database, rows, opening, catalogue, copying, legacy, unseen, overran>>
    BY <1>2, ThreadFrame
  <2>2. [RegistryNext]_registryVars
    BY <1>2, ThreadsAskTheRegistry
  <2>3. CASE ~up
    BY <2>1, <2>2, <2>3, DownWritesNothing DEF TypeOK, FileInv
  <2>4. CASE up
    BY <2>1, <2>4 DEF FileInv
  <2>5. QED
    BY <2>3, <2>4
<1> USE DEF FileInv, Reach
<1>3. ASSUME NEW x \in Openers, Connect(x) PROVE FileInv'
  <2>1. /\ database'.exists /\ database'.version = database.version
        /\ database'.tables = database.tables
    BY <1>3 DEF Connect, TypeOK
  <2>2. QED
    BY <1>3, <2>1, <1>o DEF Connect
<1>4. ASSUME NEW x \in Openers, ReadVersion(x) \/ BeginMigration(x) PROVE FileInv'
  BY <1>4, <1>o DEF ReadVersion, BeginMigration
<1>5. ASSUME NEW x \in Openers, CommitMigration(x) PROVE FileInv'
  <2>1. CASE UNCHANGED database /\ Reach(x, "off")
    <3>1. UNCHANGED <<registryVars, rows, catalogue, copying, unseen>>
      BY <1>5 DEF CommitMigration
    <3>2. QED
      BY <2>1, <3>1, <1>o
  <2>2. CASE /\ database' = [database EXCEPT !.version = CurrentVersion, !.tables = TRUE]
             /\ Reach(x, "ready")
    <3>1. /\ database'.exists = database.exists /\ database'.version = 1
          /\ database'.tables
      BY <2>2 DEF TypeOK
    <3>2. database.exists
      BY <1>5 DEF CommitMigration
    <3>3. \A y \in Openers : opening'[y] # "off" => database'.exists
      BY <3>1, <3>2
    <3>4. QED
      BY <1>5, <2>2, <3>1, <3>2, <3>3, <1>o DEF CommitMigration
  <2>3. QED
    BY <1>5, <2>1, <2>2 DEF CommitMigration
<1>6. ASSUME NEW x \in Openers, OpeningFails(x) PROVE FileInv'
  BY <1>6, <1>o DEF OpeningFails
<1>7. CASE LoadActions
  BY <1>7, <1>o DEF LoadActions, Openers
<1>8. CASE StartServing
  BY <1>8, <1>o DEF StartServing, LoadFromStore, Openers
<1>9. CASE Crash
  BY <1>9 DEF Crash, LoseProcess
<1>10. CASE SeedLooks
  BY <1>10, <1>o DEF SeedLooks, Openers
<1>11. CASE SeedSaves
  BY <1>11, <1>o, <1>v DEF SeedSaves, Openers
<1>12. CASE CheckDestination \/ PrepareCopy
  BY <1>12, <1>v DEF CheckDestination, PrepareCopy
<1>13. CASE ReplaceDestination
  <2>1. CASE UNCHANGED <<database, store, rows, overran>>
    BY <1>13, <2>1 DEF ReplaceDestination
  <2>2. CASE database' = [exists |-> TRUE, version |-> CurrentVersion, tables |-> TRUE]
    BY <1>13, <2>2 DEF ReplaceDestination
  <2>3. QED
    BY <1>13, <2>1, <2>2 DEF ReplaceDestination
<1>14. QED
  BY <1>1, <1>2, <1>3, <1>4, <1>5, <1>6, <1>7, <1>8, <1>9, <1>10, <1>11, <1>12, <1>13, NextCases
  DEF Migrate, Copy

-----------------------------------------------------------------------------
(* The registry's invariant, unless a replace overran a database. *)

LEMMA RegistryStep == DataInv /\ [Next]_vars /\ ~overran' => ~overran /\ IInv'
<1> SUFFICES ASSUME DataInv, [Next]_vars, ~overran'
             PROVE  ~overran /\ IInv'
  OBVIOUS
<1>1. ~overran
  <2>1. CASE ReplaceDestination
    BY <2>1 DEF ReplaceDestination
  <2>2. CASE ~ReplaceDestination
    <3>1. ASSUME NEW x \in Openers, Connect(x) \/ Migrate(x) \/ OpeningFails(x)
          PROVE  UNCHANGED overran
      BY <3>1 DEF Connect, Migrate, ReadVersion, BeginMigration, CommitMigration, OpeningFails, history
    <3>2. CASE LoadActions \/ StartServing \/ Crash \/ SeedLooks \/ SeedSaves
      BY <3>2 DEF LoadActions, StartServing, Crash, SeedLooks, SeedSaves, history
    <3>3. CASE Copy
      BY <2>2, <3>3 DEF Copy, CheckDestination, PrepareCopy, history
    <3>4. QED
      BY <3>1, <3>2, <3>3, ThreadFrame, NextCases DEF vars, dataVars, history
  <2>3. QED
    BY <2>1, <2>2
<1>2. IInv /\ FileInv /\ TypeOK /\ DownIsQuiet
  BY <1>1 DEF DataInv
<1>3. CASE [RegistryNext]_registryVars
  BY <1>1, <1>2, <1>3, StepIInv
<1>4. CASE ReplaceDestination
  <2>1. UNCHANGED <<up, memory, registryLock, call, registered, dismissed>>
    BY <1>4, ReplaceKeepsMemory
  <2>2. CASE UNCHANGED store
    <3>1. UNCHANGED registryVars
      BY <2>1, <2>2 DEF registryVars
    <3>2. QED
      BY <1>1, <1>2, <3>1, StepIInv
  <2>3. CASE /\ ~up /\ registered = {} /\ dismissed = {}
             /\ call = [t \in Threads |-> Outside]
    <3>1. RegistryTypeOK'
      BY <1>2, DataTypeStep DEF TypeOK
    <3>2. registryLock' = NoThread /\ call' = [t \in Threads |-> Outside] /\ ~up'
      BY <1>2, <2>1, <2>3 DEF DownIsQuiet
    <3>3. \A t \in Threads : call'[t].pc = "outside"
      BY <3>2 DEF Outside
    <3>4. LockDiscipline' /\ HolderKnows'
      BY <3>2, <3>3, NoThreadAssumption DEF LockDiscipline, HolderKnows, LockedSteps
    <3>5. CacheAgrees' /\ DownIsQuiet'
      BY <3>2 DEF CacheAgrees, DownIsQuiet
    <3>6. AnswersAreDurable'
      BY <2>1, <2>3 DEF AnswersAreDurable
    <3>7. QED
      BY <1>1, <3>1, <3>4, <3>5, <3>6 DEF IInv
  <2>4. QED
    BY <1>2, <1>4, <2>2, <2>3, ReplaceFindsNothing
<1>5. QED
  BY <1>1, <1>3, <1>4, RegistryMoves

-----------------------------------------------------------------------------
(* What was read from the actions table. *)

LEMMA KeptStep == DataInv /\ [Next]_vars => KeptInv'
<1> SUFFICES ASSUME DataInv, [Next]_vars, ~overran'
             PROVE  KeptInv'
  BY DEF KeptInv
<1>0. ~overran /\ TypeOK /\ DownIsQuiet /\ FileInv /\ KeptInv
  BY RegistryStep DEF DataInv
<1>o. opening \in [Openers -> Connected \cup {"off", "ready", "loaded", "missing"}]
  BY <1>0 DEF TypeOK
<1>r. rows \in [Actions -> RowStatus] /\ catalogue \subseteq Actions
  BY <1>0 DEF TypeOK
<1> USE <1>0, <1>o, <1>r DEF KeptInv, fileVars, agentVars, history, Reach, Openers, Connected
<1>1. CASE UNCHANGED vars
  BY <1>1 DEF vars, dataVars
<1>2. ASSUME NEW t \in Threads, ThreadStep(t) PROVE KeptInv'
  BY <1>2, ThreadFrame
<1>3. ASSUME NEW x \in Openers, Connect(x) \/ Migrate(x) \/ OpeningFails(x) PROVE KeptInv'
  BY <1>3 DEF Connect, Migrate, ReadVersion, BeginMigration, CommitMigration, OpeningFails
<1>4. CASE LoadActions \/ StartServing \/ Crash
  BY <1>4 DEF LoadActions, StartServing, Crash
<1>5. CASE SeedLooks
  BY <1>5 DEF SeedLooks
<1>6. CASE SeedSaves
  BY <1>6 DEF SeedSaves
<1>7. CASE CheckDestination \/ PrepareCopy
  BY <1>7 DEF CheckDestination, PrepareCopy
<1>8. CASE ReplaceDestination
  <2>1. UNCHANGED <<catalogue, opening>>
    BY <1>8 DEF ReplaceDestination
  <2>2. CASE UNCHANGED rows
    BY <2>1, <2>2
  <2>3. CASE catalogue = {} /\ opening["seed"] = "off"
    BY <2>1, <2>3
  <2>4. QED
    BY <1>8, <2>2, <2>3, ReplaceFindsNothing
<1>9. QED
  BY <1>1, <1>2, <1>3, <1>4, <1>5, <1>6, <1>7, <1>8, NextCases DEF Copy

-----------------------------------------------------------------------------
(* What a thread that executes an action was told. *)

(* The registry answers a thread only with what the thread asked it. *)
LEMMA AcceptedIsNotDismissed ==
    ASSUME IInv, NEW t \in Threads, NEW d \in Devices, Authenticate(t, d), call'[t].pc = "accepted"
    PROVE  d \notin dismissed
<1>1. memory[d] = "authorized"
  BY DEF Authenticate, At, IInv, RegistryTypeOK
<1>2. store[d] = "authorized"
  BY <1>1, FreeLockAgrees DEF Authenticate
<1>3. QED
  BY <1>2 DEF IInv, AnswersAreDurable

LEMMA ExecStep == DataInv /\ [Next]_vars => ExecInv'
<1> DEFINE Told(t) == exec[t] # Idle =>
                        /\ call[t].pc \in {"accepted", "denied"}
                        /\ call[t].pc = "accepted" /\ ~overran => call[t].device \notin bygone[t]
                        /\ exec[t].stage # "asked" =>
                             /\ call[t].pc = "accepted"
                             /\ ~overran => rows[exec[t].action] = "enabled"
<1> SUFFICES ASSUME DataInv, [Next]_vars, NEW t \in Threads
             PROVE  Told(t)'
  BY DEF ExecInv
<1>0. TypeOK /\ KeptInv /\ Told(t) /\ (~overran' => ~overran /\ IInv)
  BY RegistryStep DEF DataInv, ExecInv
<1>c. /\ call \in [Threads -> [pc : WaitingSteps \cup LockedSteps \cup ReplySteps, device : Devices]
                               \cup {Outside}]
      /\ exec \in [Threads -> [action : Actions, stage : {"asked", "found", "available"}] \cup {Idle}]
      /\ bygone \in [Threads -> SUBSET Devices]
      /\ rows \in [Actions -> RowStatus]
  BY <1>0 DEF TypeOK, RegistryTypeOK
<1> USE DEF fileVars, agentVars, history, dataVars, registryVars
<1>1. CASE UNCHANGED <<call, exec, bygone, rows>>
  BY <1>0, <1>1
<1>2. CASE LoadActions \/ StartServing \/ SeedLooks
  BY <1>1, <1>2 DEF LoadActions, StartServing, LoadFromStore, SeedLooks
<1>3. ASSUME NEW x \in Openers, Connect(x) \/ Migrate(x) \/ OpeningFails(x) PROVE Told(t)'
  BY <1>1, <1>3 DEF Connect, Migrate, ReadVersion, BeginMigration, CommitMigration, OpeningFails
<1>4. CASE Crash
  BY <1>4 DEF Crash
<1>5. CASE SeedSaves
  <2>1. UNCHANGED <<call, exec, bygone, overran>>
    BY <1>5 DEF SeedSaves
  <2>2. \A a \in Actions : rows[a] = "enabled" => rows'[a] = "enabled"
    BY <1>5, <1>c DEF SeedSaves
  <2>3. exec[t] # Idle => exec[t].action \in Actions
    BY <1>c
  <2>4. QED
    BY <1>0, <2>1, <2>2, <2>3
<1>6. CASE CheckDestination \/ PrepareCopy
  BY <1>1, <1>6 DEF CheckDestination, PrepareCopy
<1>7. CASE ReplaceDestination
  <2>1. UNCHANGED <<call, exec, bygone>>
    BY <1>7 DEF ReplaceDestination
  <2>2. CASE overran'
    BY <1>0, <2>1, <2>2
  <2>3. CASE UNCHANGED rows
    BY <1>1, <2>1, <2>3
  <2>4. CASE call = [u \in Threads |-> Outside]
    <3>1. call[t].pc \notin {"accepted", "denied"}
      BY <2>4 DEF Outside
    <3>2. QED
      BY <1>0, <2>1, <3>1
  <2>5. QED
    BY <1>7, <2>2, <2>3, <2>4, ReplaceFindsNothing DEF DataInv
<1>8. ASSUME NEW u \in Threads, ThreadStep(u), u # t PROVE Told(t)'
  <2>1. UNCHANGED <<rows, overran>>
    BY <1>8, ThreadFrame
  <2>2. call'[t] = call[t] /\ exec'[t] = exec[t] /\ bygone'[t] = bygone[t]
    <3>1. CASE Handle(u)
      BY <1>8, <3>1, <1>c
      DEF Handle, ResolveAction, ValidateAvailability, StartProcess, Advance, AnswerExecution,
          InRegistry, StoreFault, StoreFails, Leave, RegisterStep, RevokeStep, RegisterChecks,
          SaveDevice, PublishDevice, RevokeChecks, MarkRevoked, WithdrawDevice, Goto
    <3>2. ASSUME NEW d \in Devices,
                 Registration(u, d) \/ Revocation(u, d) \/ \E a \in Actions : ExecuteAction(u, d, a)
          PROVE  call'[t] = call[t] /\ exec'[t] = exec[t] /\ bygone'[t] = bygone[t]
      BY <1>8, <3>2, <1>c
      DEF Registration, Revocation, ExecuteAction, CallRegister, CallRevoke, Authenticate
    <3>3. QED
      BY <1>8, <3>1, <3>2 DEF ThreadStep
  <2>3. QED
    BY <1>0, <2>1, <2>2
<1>9. CASE ThreadStep(t)
  <2>1. UNCHANGED <<rows, overran>>
    BY <1>9, ThreadFrame
  <2>2. CASE AnswerExecution(t)
    BY <2>2, <1>c DEF AnswerExecution
  <2>3. CASE ResolveAction(t) /\ Advance(t, "found")
    <3>1. call[t].pc = "accepted" /\ exec[t].action \in catalogue /\ exec[t] # Idle
      BY <2>3, <1>c DEF ResolveAction, Advance, AnswerExecution, Idle
    <3>2. ~overran => rows[exec[t].action] = "enabled"
      BY <1>0, <3>1 DEF KeptInv
    <3>3. UNCHANGED <<call, bygone>> /\ exec'[t] = [exec[t] EXCEPT !.stage = "found"]
      BY <2>3, <1>c DEF Advance
    <3>4. exec'[t].action = exec[t].action
      BY <3>1, <3>3, <1>c
    <3>5. QED
      BY <1>0, <2>1, <3>1, <3>2, <3>3, <3>4
  <2>4. CASE ValidateAvailability(t) /\ Advance(t, "available")
    <3>1. exec[t] # Idle /\ exec[t].stage # "asked"
      BY <2>4 DEF ValidateAvailability, Idle
    <3>2. UNCHANGED <<call, bygone>> /\ exec'[t] = [exec[t] EXCEPT !.stage = "available"]
      BY <2>4, <1>c DEF Advance
    <3>3. exec'[t].action = exec[t].action
      BY <3>1, <3>2, <1>c
    <3>4. QED
      BY <1>0, <2>1, <3>1, <3>2, <3>3
  <2>5. CASE InRegistry(t)
    <3>1. exec[t] = Idle
      BY <1>0, <2>5
      DEF InRegistry, RegisterStep, RevokeStep, RegisterChecks, SaveDevice, PublishDevice,
          RevokeChecks, MarkRevoked, WithdrawDevice
    <3>2. UNCHANGED exec
      BY <2>5 DEF InRegistry
    <3>3. QED
      BY <3>1, <3>2
  <2>6. CASE StoreFault(t)
    <3>1. exec[t] = Idle
      BY <1>0, <2>6 DEF StoreFault, StoreFails
    <3>2. UNCHANGED exec
      BY <2>6 DEF StoreFault
    <3>3. QED
      BY <3>1, <3>2
  <2>7. ASSUME NEW d \in Devices, Registration(t, d) \/ Revocation(t, d) PROVE Told(t)'
    BY <2>7 DEF Registration, Revocation
  <2>8. ASSUME NEW d \in Devices, NEW a \in Actions, ExecuteAction(t, d, a) PROVE Told(t)'
    <3>1. Authenticate(t, d) /\ exec'[t] = [action |-> a, stage |-> "asked"] /\ bygone'[t] = dismissed
      BY <2>8, <1>c DEF ExecuteAction
    <3>2. call'[t].pc \in {"accepted", "denied"} /\ call'[t].device = d
      BY <3>1, <1>c DEF Authenticate, At
    <3>3. call'[t].pc = "accepted" /\ ~overran' => d \notin dismissed
      BY <1>0, <3>1, AcceptedIsNotDismissed
    <3>4. QED
      BY <3>1, <3>2, <3>3
  <2>9. QED
    BY <1>9, <2>2, <2>3, <2>4, <2>5, <2>6, <2>7, <2>8
    DEF ThreadStep, Handle, ResolveAction, ValidateAvailability, StartProcess
<1>10. QED
  BY <1>1, <1>2, <1>3, <1>4, <1>5, <1>6, <1>7, <1>8, <1>9, NextCases DEF Copy, vars

-----------------------------------------------------------------------------
LEMMA DataInvariance == Spec => []DataInv
<1>1. DataInv /\ [Next]_vars => DataInv'
  <2>1. DataInv /\ [Next]_vars => TypeOK' /\ DownIsQuiet' /\ FileInv'
    BY DataTypeStep, QuietStep, FileStep DEF DataInv
  <2>2. QED
    BY <2>1, RegistryStep, KeptStep, ExecStep DEF DataInv
<1>2. QED
  BY InitDataInv, <1>1, PTL DEF Spec

(* Every variable keeps its type, whichever process takes the next step.     *)
THEOREM DataTypeCorrect == Spec => []TypeOK
<1>1. DataInv => TypeOK
  BY DEF DataInv
<1>2. QED
  BY DataInvariance, <1>1, PTL

(* The Agent, the seed script and the copy script, started and killed in any *)
(* order, leave a database whose tables match its version, and lose nothing  *)
(* of what the Agent has answered.                                           *)
THEOREM DataIsSafe == Spec => []DataSurvives
<1>1. DataInv => SchemaIsWhole
  BY DEF DataInv, FileInv, SchemaIsWhole
<1>2. IInv => AnswersAreDurable /\ MemoryMatchesStore
  <2>1. IInv /\ up /\ registryLock = NoThread => memory = store
    BY FreeLockAgrees DEF IInv, RegistryTypeOK
  <2>2. QED
    BY <2>1 DEF IInv, MemoryMatchesStore
<1>3. DataInv => DataSurvives
  BY <1>1, <1>2 DEF DataInv, DataSurvives
<1>4. QED
  BY DataInvariance, <1>3, PTL

(* Only an action that is enabled is started, and only for a device that had *)
(* not been revoked before its request, whatever runs at the same time.      *)
THEOREM OnlyAllowedStarts == Spec => []StartsOnlyAllowed
<1>1. DataInv => StartsOnlyAllowed
  <2> SUFFICES ASSUME DataInv, NEW t \in Threads, exec[t].stage = "available", ~overran
               PROVE  /\ call[t].device \notin bygone[t]
                      /\ rows[exec[t].action] = "enabled"
    BY DEF StartsOnlyAllowed
  <2>1. exec[t] # Idle
    BY DEF Idle
  <2>2. QED
    BY <2>1 DEF DataInv, ExecInv
<1>2. QED
  BY DataInvariance, <1>1, PTL

(* A configured action stays as it was configured: the seed script adds only *)
(* what is missing, and the copy script writes only where nothing was.       *)
THEOREM ConfigurationSurvives == Spec => ConfigurationKept
<1>1. DataInv /\ [Next]_vars
        => [\A a \in Actions : rows[a] # "absent" => rows'[a] = rows[a] \/ overran']_vars
  <2> SUFFICES ASSUME DataInv, Next, NEW a \in Actions, rows[a] # "absent", ~overran'
               PROVE  rows'[a] = rows[a]
    OBVIOUS
  <2>1. ~overran
    BY RegistryStep
  <2>2. CASE SeedSaves
    <3>1. rows[Notepad] = "absent"
      BY <2>1, <2>2 DEF SeedSaves, DataInv, KeptInv
    <3>2. QED
      BY <2>2, <3>1 DEF SeedSaves, DataInv, TypeOK
  <2>3. CASE ReplaceDestination
    <3>1. rows # Unset
      BY DEF Unset
    <3>2. UNCHANGED rows
      BY <2>3, <3>1, ReplaceFindsNothing DEF DataInv
    <3>3. QED
      BY <3>2
  <2>4. CASE ~SeedSaves /\ ~ReplaceDestination
    <3>1. ASSUME NEW x \in Openers, Connect(x) \/ Migrate(x) \/ OpeningFails(x)
          PROVE  UNCHANGED rows
      BY <3>1 DEF Connect, Migrate, ReadVersion, BeginMigration, CommitMigration, OpeningFails, fileVars
    <3>2. CASE LoadActions \/ StartServing \/ Crash \/ SeedLooks
      BY <3>2 DEF LoadActions, StartServing, Crash, SeedLooks, fileVars
    <3>3. CASE CheckDestination \/ PrepareCopy
      BY <3>3 DEF CheckDestination, PrepareCopy, fileVars
    <3>4. QED
      BY <2>4, <3>1, <3>2, <3>3, ThreadFrame, NextCases DEF Copy, vars, dataVars, fileVars
  <2>5. QED
    BY <2>2, <2>3, <2>4
<1>2. QED
  BY DataInvariance, <1>1, PTL DEF Spec, ConfigurationKept

(* Versions only rise, and what a later version of PCPanel has made is left  *)
(* alone by the Agent and both scripts of this one.                          *)
THEOREM LaterVersionsStay == Spec => SchemaOnlyAdvances
<1> DEFINE Later == /\ database'.version >= database.version
                    /\ database.version > CurrentVersion => UNCHANGED <<database, store, rows>>
<1>1. DataInv /\ [Next]_vars => [Later]_vars
  <2> SUFFICES ASSUME DataInv, Next PROVE Later
    OBVIOUS
  <2> USE DEF CurrentVersion, fileVars
  <2>t. TypeOK /\ DownIsQuiet /\ FileInv /\ database.version \in Nat /\ database \in DatabaseStates
    BY DEF DataInv, TypeOK, DatabaseStates
  <2>1. ASSUME NEW t \in Threads, ThreadStep(t) PROVE Later
    <3>1. UNCHANGED <<up, database, rows>>
      BY <2>1, ThreadFrame
    <3>2. [RegistryNext]_registryVars
      BY <2>1, ThreadsAskTheRegistry
    <3>3. QED
      BY <2>t, <3>1, <3>2, DownWritesNothing DEF TypeOK, FileInv
  <2>2. ASSUME NEW x \in Openers, Connect(x) PROVE Later
    <3>1. database.exists \/ database.version = 0
      BY <2>t DEF FileInv
    <3>2. database'.version = database.version /\ UNCHANGED <<store, rows>>
      BY <2>t, <2>2 DEF Connect, DatabaseStates, registryVars
    <3>3. database.exists => database' = database
      BY <2>t, <2>2 DEF Connect, DatabaseStates
    <3>4. QED
      BY <2>t, <3>1, <3>2, <3>3
  <2>3. ASSUME NEW x \in Openers, CommitMigration(x) PROVE Later
    <3>1. CASE UNCHANGED database
      BY <2>t, <2>3, <3>1 DEF CommitMigration, registryVars
    <3>2. CASE ~database.tables /\ database' = [database EXCEPT !.version = CurrentVersion, !.tables = TRUE]
      <4>1. database.version < 1 /\ database'.version = 1
        BY <2>t, <3>2 DEF FileInv, DatabaseStates
      <4>2. QED
        BY <2>t, <4>1
    <3>3. QED
      BY <2>3, <3>1, <3>2 DEF CommitMigration
  <2>4. CASE SeedSaves
    <3>1. database.version = 1
      BY <2>t, <2>4 DEF SeedSaves, FileInv, Openers
    <3>2. QED
      BY <2>t, <2>4, <3>1 DEF SeedSaves
  <2>5. CASE ReplaceDestination
    <3>1. database.version <= 1
      BY <2>t, <2>5 DEF ReplaceDestination, FileInv
    <3>2. UNCHANGED <<database, store, rows>> \/ database'.version = 1
      BY <2>5 DEF ReplaceDestination
    <3>3. QED
      BY <2>t, <3>1, <3>2
  <2>6. ASSUME NEW x \in Openers, ReadVersion(x) \/ BeginMigration(x) \/ OpeningFails(x) PROVE Later
    BY <2>t, <2>6 DEF ReadVersion, BeginMigration, OpeningFails, registryVars
  <2>7. CASE LoadActions \/ StartServing \/ Crash \/ SeedLooks \/ CheckDestination \/ PrepareCopy
    BY <2>t, <2>7 DEF LoadActions, StartServing, LoadFromStore, Crash, LoseProcess, SeedLooks,
                      CheckDestination, PrepareCopy, registryVars
  <2>8. CASE UNCHANGED vars
    BY <2>t, <2>8 DEF vars, dataVars, registryVars
  <2>9. QED
    BY <2>1, <2>2, <2>3, <2>4, <2>5, <2>6, <2>7, <2>8, NextCases DEF Migrate, Copy
<1>2. QED
  BY DataInvariance, <1>1, PTL DEF Spec, SchemaOnlyAdvances

(* To its callers the Agent is a TokenAuthority through all its starts, the  *)
(* scripts and the copies, unless one of these overruns a database.          *)
THEOREM DataRemainsAuthority == Spec => RemainsAuthority
<1> DEFINE Kept == \/ [Authority!Next]_(Authority!vars)
                   \/ store = Empty /\ UNCHANGED call
                   \/ overran'
<1>1. DataInv /\ [Next]_vars => Kept
  <2> SUFFICES ASSUME DataInv, [Next]_vars, ~overran'
               PROVE  Kept
    OBVIOUS
  <2>1. IInv
    BY RegistryStep DEF DataInv
  <2>2. CASE [RegistryNext]_registryVars
    BY <2>1, <2>2, StepRefines
  <2>3. CASE ReplaceDestination
    <3>1. UNCHANGED call
      BY <2>3, ReplaceKeepsMemory
    <3>2. CASE UNCHANGED store
      BY <3>1, <3>2 DEF Authority!vars, Reply
    <3>3. CASE ~database.exists
      <4>1. ~database.tables
        BY <3>3 DEF DataInv, FileInv, CurrentVersion
      <4>2. QED
        BY <3>1, <4>1 DEF DataInv, FileInv
    <3>4. QED
      BY <2>3, <3>2, <3>3, ReplaceFindsNothing DEF DataInv
  <2>4. QED
    BY <2>2, <2>3, RegistryMoves
<1>2. QED
  BY DataInvariance, <1>1, PTL DEF Spec, RemainsAuthority
=============================================================================
