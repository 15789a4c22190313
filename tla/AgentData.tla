------------------------------ MODULE AgentData ------------------------------
(***************************************************************************)
(* The Agent's data directory and what it allows: app/persistence          *)
(* (database.py, migrations.py, sqlite_action_store.py, data_migration.py) *)
(* with the start of the Agent (app/agent/composition.py), the two scripts *)
(* that touch the directory (scripts/seed_actions.py, migrate-data.py) and *)
(* the execution of actions (app/api/actions.py, app/actions), on top of   *)
(* DeviceRegistry.                                                         *)
(*                                                                         *)
(* The Agent, the seed script and the copy script are processes that       *)
(* nothing keeps apart.  Each opens the database for one short connection  *)
(* at a time, so that every step below may meet what another process did   *)
(* since the step before.  SQLite lets one of them write at once and takes *)
(* back what was not committed; Windows refuses to replace an open file.   *)
(***************************************************************************)
EXTENDS DeviceRegistry, Naturals

CONSTANTS Actions,      \* ids of actions
          Notepad,      \* the one that the seed script adds
          NoAction,     \* a thread that executes nothing
          MaxFaults     \* bound of the model: crashes and failed steps

ASSUME NotepadAssumption == Notepad \in Actions
ASSUME NoActionAssumption == NoAction \notin Actions

CurrentVersion == 1

VARIABLES database,     \* the file: is it there, PRAGMA user_version, has it the tables
          rows,         \* the actions table
          opening,      \* where a process that initializes the database is
          catalogue,    \* the actions the running Agent offers
          copying,      \* where migrate_database is
          legacy,       \* the database it copies, one that PCPanel wrote
          exec,         \* the action each thread executes, and how far it is
          faults,       \* crashes and failures so far
          unseen,       \* history: the destination was missing when the copy began
          overran,      \* history: a copy replaced a database it had not seen
          bygone        \* history: for each thread, devices revoked before its request

fileVars == <<database, rows, legacy>>
agentVars == <<catalogue, exec>>
history == <<unseen, overran, bygone>>
dataVars == <<fileVars, agentVars, opening, copying, faults, history>>
vars == <<registryVars, dataVars>>

Openers == {"agent", "seed"}
RowStatus == {"absent", "enabled", "disabled"}
Connected == {"connected", "outdated", "migrating"}
Idle == [action |-> NoAction, stage |-> "idle"]

TypeOK ==
    /\ RegistryTypeOK
    /\ database \in [exists : BOOLEAN, version : Nat, tables : BOOLEAN]
    /\ rows \in [Actions -> RowStatus]
    /\ opening \in [Openers -> Connected \cup {"off", "ready", "loaded", "missing"}]
    /\ catalogue \subseteq Actions
    /\ copying \in {"off", "checked", "copied", "valid"}
    /\ legacy \in [devices : [Devices -> DeviceStatus], actions : [Actions -> RowStatus]]
    /\ exec \in [Threads -> [action : Actions, stage : {"asked", "found", "available"}] \cup {Idle}]
    /\ faults \in Nat
    /\ unseen \in BOOLEAN /\ overran \in BOOLEAN
    /\ bygone \in [Threads -> SUBSET Devices]

Empty == [d \in Devices |-> "absent"]
Unset == [a \in Actions |-> "absent"]

(* No database, one of this version, or one of a later version. *)
Init ==
    /\ up = FALSE
    /\ memory = Empty
    /\ registryLock = NoThread
    /\ call = [t \in Threads |-> Outside]
    /\ registered = {} /\ dismissed = {}
    /\ \/ /\ database = [exists |-> FALSE, version |-> 0, tables |-> FALSE]
          /\ store = Empty /\ rows = Unset
       \/ /\ database = [exists |-> TRUE, version |-> CurrentVersion, tables |-> TRUE]
          /\ store = Empty /\ rows \in [Actions -> RowStatus]
       \/ /\ database = [exists |-> TRUE, version |-> CurrentVersion + 1, tables |-> TRUE]
          /\ store = Empty /\ rows = Unset
    /\ opening = [x \in Openers |-> "off"]
    /\ catalogue = {}
    /\ copying = "off"
    /\ legacy \in [devices : [Devices -> DeviceStatus], actions : [Actions -> RowStatus]]
    /\ exec = [t \in Threads |-> Idle]
    /\ faults = 0
    /\ unseen = FALSE /\ overran = FALSE
    /\ bygone = [t \in Threads |-> {}]

-----------------------------------------------------------------------------
(* Database.initialize and migrate, in the Agent and in the seed script. *)

Reach(x, stage) == opening' = [opening EXCEPT ![x] = stage]

(* sqlite3.connect creates the file. *)
Connect(x) ==
    /\ opening[x] = "off"
    /\ x = "agent" => ~up
    /\ database' = [database EXCEPT !.exists = TRUE]
    /\ Reach(x, "connected")
    /\ UNCHANGED <<registryVars, rows, agentVars, copying, legacy, faults, history>>

(* The version is read before any transaction; a later one raises. *)
ReadVersion(x) ==
    /\ opening[x] = "connected"
    /\ \/ database.version > CurrentVersion /\ Reach(x, "off")
       \/ database.version = CurrentVersion /\ Reach(x, "ready")
       \/ database.version < CurrentVersion /\ Reach(x, "outdated")
    /\ UNCHANGED <<registryVars, fileVars, agentVars, copying, faults, history>>

(* BEGIN IMMEDIATE: one writer; a second waits five seconds at most. *)
BeginMigration(x) ==
    /\ opening[x] = "outdated"
    /\ IF \E y \in Openers : opening[y] = "migrating"
          THEN Reach(x, "off")
          ELSE Reach(x, "migrating")
    /\ UNCHANGED <<registryVars, fileVars, agentVars, copying, faults, history>>

(* Mutant: the new version is not written. *)
CommitUnversioned(x) ==
    /\ opening[x] = "migrating"
    /\ \/ database.tables /\ Reach(x, "off") /\ UNCHANGED database
       \/ /\ ~database.tables
          /\ database' = [database EXCEPT !.tables = TRUE]
          /\ Reach(x, "ready")
    /\ UNCHANGED <<registryVars, rows, legacy, agentVars, copying, faults, history>>

(* CREATE TABLE fails if another process has migrated since the version was  *)
(* read; otherwise tables and version are committed as one.                  *)
CommitMigration(x) ==
    /\ opening[x] = "migrating"
    /\ \/ database.tables /\ Reach(x, "off") /\ UNCHANGED database
       \/ /\ ~database.tables
          /\ database' = [database EXCEPT !.version = CurrentVersion, !.tables = TRUE]
          /\ Reach(x, "ready")
    /\ UNCHANGED <<registryVars, rows, agentVars, copying, legacy, faults, history>>

(* Any of it raises, or the process dies: an open transaction rolls back.    *)
OpeningFails(x) ==
    /\ opening[x] # "off"
    /\ faults < MaxFaults
    /\ faults' = faults + 1
    /\ Reach(x, "off")
    /\ UNCHANGED <<registryVars, fileVars, agentVars, copying, history>>

-----------------------------------------------------------------------------
(* build_agent_app, after initialize. *)

LoadActions ==
    /\ opening["agent"] = "ready"
    /\ catalogue' = {a \in Actions : rows[a] = "enabled"}
    /\ Reach("agent", "loaded")
    /\ UNCHANGED <<registryVars, fileVars, copying, exec, faults, history>>

StartServing ==
    /\ opening["agent"] = "loaded"
    /\ LoadFromStore
    /\ Reach("agent", "off")
    /\ UNCHANGED <<fileVars, agentVars, copying, faults, history>>

Crash ==
    /\ faults < MaxFaults
    /\ faults' = faults + 1
    /\ LoseProcess
    /\ catalogue' = {}
    /\ exec' = [t \in Threads |-> Idle]
    /\ UNCHANGED <<fileVars, opening, copying, history>>

-----------------------------------------------------------------------------
(* seed_development_actions: it looks, and saves in another transaction. *)

(* Mutant: whatever is there is saved over. *)
SeedBlindly ==
    /\ opening["seed"] = "ready"
    /\ Reach("seed", "missing")
    /\ UNCHANGED <<registryVars, fileVars, agentVars, copying, faults, history>>

SeedLooks ==
    /\ opening["seed"] = "ready"
    /\ Reach("seed", IF rows[Notepad] = "absent" THEN "missing" ELSE "off")
    /\ UNCHANGED <<registryVars, fileVars, agentVars, copying, faults, history>>

(* save_action is an upsert. *)
SeedSaves ==
    /\ opening["seed"] = "missing"
    /\ rows' = [rows EXCEPT ![Notepad] = "enabled"]
    /\ Reach("seed", "off")
    /\ UNCHANGED <<registryVars, database, agentVars, copying, legacy, faults, history>>

-----------------------------------------------------------------------------
(* migrate_database: the legacy database, if nothing is at the destination. *)

(* Mutant: the destination is not looked at. *)
CopyRegardless ==
    /\ copying = "off"
    /\ copying' = "checked"
    /\ unseen' = ~database.exists
    /\ UNCHANGED <<registryVars, fileVars, opening, agentVars, faults, overran, bygone>>

CheckDestination ==
    /\ copying = "off"
    /\ ~database.exists
    /\ copying' = "checked"
    /\ unseen' = TRUE
    /\ UNCHANGED <<registryVars, fileVars, opening, agentVars, faults, overran, bygone>>

(* Copying to a name of its own and validating the copy, either of which may *)
(* fail and leave the destination as it is.                                  *)
PrepareCopy ==
    /\ \/ copying = "checked" /\ copying' \in {"copied", "off"}
       \/ copying = "copied" /\ copying' \in {"valid", "off"}
    /\ UNCHANGED <<registryVars, fileVars, opening, agentVars, faults, history>>

(* os.replace is atomic, and fails while a connection is open.  The source   *)
(* is a database that PCPanel wrote, hence of its version if it has tables:  *)
(* the validation would also accept tables of version 0, which no migration  *)
(* leaves behind (migrations.py 69-85).                                      *)
ReplaceDestination ==
    /\ copying = "valid"
    /\ copying' = "off"
    /\ \/ /\ \E x \in Openers : opening[x] \in Connected
          /\ UNCHANGED <<database, store, rows, overran>>
       \/ /\ \A x \in Openers : opening[x] \notin Connected
          /\ database' = [exists |-> TRUE, version |-> CurrentVersion, tables |-> TRUE]
          /\ store' = legacy.devices
          /\ rows' = legacy.actions
          /\ overran' = (overran \/ (unseen /\ database.exists))
    /\ UNCHANGED <<up, memory, registryLock, call, registered, dismissed, opening, agentVars, legacy, faults, unseen, bygone>>

-----------------------------------------------------------------------------
(* POST /actions/{id}/execute: require_authorized_device, then the service. *)

ExecuteAction(t, d, a) ==
    /\ exec[t] = Idle
    /\ Authenticate(t, d)
    /\ exec' = [exec EXCEPT ![t] = [action |-> a, stage |-> "asked"]]
    /\ bygone' = [bygone EXCEPT ![t] = dismissed]
    /\ UNCHANGED <<fileVars, opening, catalogue, copying, faults, unseen, overran>>

(* The thread answers 401, 404, 409 or 500, or that the action was started. *)
AnswerExecution(t) ==
    /\ exec' = [exec EXCEPT ![t] = Idle]
    /\ Leave(t)
    /\ UNCHANGED <<fileVars, opening, catalogue, copying, faults, history>>

Advance(t, stage) ==
    /\ exec' = [exec EXCEPT ![t].stage = stage]
    /\ UNCHANGED <<registryVars, fileVars, opening, catalogue, copying, faults, history>>

(* Mutant: the answer of the registry is not looked at. *)
ResolveForAnyone(t) ==
    /\ exec[t].stage = "asked"
    /\ IF exec[t].action \in catalogue THEN Advance(t, "found") ELSE AnswerExecution(t)

ResolveAction(t) ==
    /\ exec[t].stage = "asked"
    /\ IF call[t].pc = "accepted" /\ exec[t].action \in catalogue
          THEN Advance(t, "found")
          ELSE AnswerExecution(t)

(* The executable and the working directory are there, or not. *)
ValidateAvailability(t) ==
    /\ exec[t].stage = "found"
    /\ Advance(t, "available") \/ AnswerExecution(t)

(* Popen; it may still raise, which starts nothing. *)
StartProcess(t) ==
    /\ exec[t].stage = "available"
    /\ AnswerExecution(t)

-----------------------------------------------------------------------------
(* The pairing service's use of the registry (module Pairing has all of it). *)
Registration(t, d) == exec[t] = Idle /\ CallRegister(t, d) /\ UNCHANGED dataVars
Revocation(t, d) == exec[t] = Idle /\ CallRevoke(t, d) /\ UNCHANGED dataVars

InRegistry(t) ==
    \/ (RegisterStep(t) \/ RevokeStep(t)) /\ UNCHANGED dataVars
    \/ exec[t] = Idle /\ Leave(t) /\ UNCHANGED dataVars

(* A transaction may raise; the update of a row that is not there does. *)
StoreFault(t) ==
    /\ StoreFails(t)
    /\ \/ call[t].pc = "mark" /\ store[call[t].device] = "absent" /\ UNCHANGED faults
       \/ faults < MaxFaults /\ faults' = faults + 1
    /\ UNCHANGED <<fileVars, opening, agentVars, copying, history>>

Migrate(x) == ReadVersion(x) \/ BeginMigration(x) \/ CommitMigration(x)
Copy == CheckDestination \/ PrepareCopy \/ ReplaceDestination
Handle(t) == ResolveAction(t) \/ ValidateAvailability(t) \/ StartProcess(t) \/ InRegistry(t) \/ StoreFault(t)

Next ==
    \/ \E x \in Openers : Connect(x) \/ Migrate(x) \/ OpeningFails(x)
    \/ LoadActions \/ StartServing \/ Crash
    \/ SeedLooks \/ SeedSaves
    \/ Copy
    \/ \E t \in Threads : Handle(t)
    \/ \E t \in Threads, d \in Devices, a \in Actions : ExecuteAction(t, d, a)
    \/ \E t \in Threads, d \in Devices : Registration(t, d) \/ Revocation(t, d)

Spec == Init /\ [][Next]_vars

(* A process that is starting goes on; nobody has to start one. *)
FairSpec ==
    /\ Spec
    /\ WF_vars(Migrate("agent") \/ LoadActions \/ StartServing)
    /\ WF_vars(Migrate("seed") \/ SeedLooks \/ SeedSaves)

-----------------------------------------------------------------------------
(* Whatever the three processes do in whatever order, and wherever one dies, *)
(* the tables are there exactly if the version says so, no row is in a file  *)
(* without tables, and what the Agent has answered is in the file that it    *)
(* reads: a copy that found a database at its destination leaves it alone    *)
(* (data_migration.py:26). Excused is a copy that replaced a database made   *)
(* after it had looked.                                                      *)
SchemaIsWhole ==
    /\ database.tables <=> database.version >= CurrentVersion
    /\ ~database.tables => store = Empty /\ rows = Unset
    /\ up => database.version = CurrentVersion

DataSurvives == SchemaIsWhole /\ (~overran => AnswersAreDurable /\ MemoryMatchesStore)

(* A process is started only for a device that had not been revoked before   *)
(* its request began, and only for an action that the table says is enabled  *)
(* (composition.py:26, dependencies.py:21), however requests, revocations    *)
(* and restarts overlap.                                                     *)
StartsOnlyAllowed ==
    \A t \in Threads :
        exec[t].stage = "available" /\ ~overran =>
            /\ call[t].device \notin bygone[t]
            /\ rows[exec[t].action] = "enabled"

(* No script changes an action that is configured ("seed never overwrites    *)
(* existing user configuration", test_action_seed_policy.py:62).             *)
ConfigurationKept ==
    [][\A a \in Actions : rows[a] # "absent" => rows'[a] = rows[a] \/ overran']_vars

(* Starts, migrations, scripts and copies are invisible to whoever asks the  *)
(* registry: with its file beneath it, replaced while it was empty or not at *)
(* all, the registry still keeps the promises of TokenAuthority. A copy may  *)
(* fill an empty table (data_migration.py:35); what it does to a database    *)
(* that it has not seen is excused.                                          *)
RemainsAuthority ==
    [][\/ [Authority!Next]_(Authority!vars)
       \/ store = Empty /\ UNCHANGED call
       \/ overran']_vars

(* No database loses its version again, and one of a later version is left   *)
(* as it is: an Agent or a script of this version changes nothing in it,     *)
(* though each looks at the version only once, before it does its work       *)
(* (migrations.py:64-65).                                                     *)
SchemaOnlyAdvances ==
    [][/\ database'.version >= database.version
       /\ database.version > CurrentVersion => UNCHANGED <<database, store, rows>>]_vars

(* A start ends, and neither a crash in the middle of a migration nor two    *)
(* processes that migrate at once leave a database no Agent can open: one    *)
(* that is started again and again serves in the end (migrations.py:59-85),  *)
(* unless the database is a later version's.                                 *)
AgentComesUp ==
    \/ database.version > CurrentVersion
    \/ /\ opening["agent"] # "off" ~> opening["agent"] = "off"
       /\ []<>(opening["agent"] = "connected") => []<>up
=============================================================================
