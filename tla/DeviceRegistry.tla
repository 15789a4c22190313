--------------------------- MODULE DeviceRegistry ---------------------------
(***************************************************************************)
(* app/auth/registry.py over app/persistence/sqlite_device_store.py: the   *)
(* Agent's table of paired devices.                                        *)
(*                                                                         *)
(* The registry answers from two dictionaries in memory and writes through *)
(* to SQLite, one short transaction per operation, before it changes them. *)
(* Every operation runs under the registry's lock on a thread of the HTTP  *)
(* server's pool.  A transaction can fail, and the process can die between *)
(* the commit and the change in memory; the next process loads the rows.   *)
(*                                                                         *)
(* A device stands for its id together with the one token minted for it,   *)
(* so that "absent" is also "no such token hash"; names and timestamps are *)
(* left out.                                                               *)
(***************************************************************************)
CONSTANTS Threads,      \* request threads of the Agent
          Devices,      \* device ids, each with its token
          NoThread,     \* nobody holds a lock
          NoDevice      \* a thread outside the registry

ASSUME NoThreadAssumption == NoThread \notin Threads
ASSUME NoDeviceAssumption == NoDevice \notin Devices

VARIABLES up,           \* TRUE while the Agent process runs
          store,        \* the devices table of SQLite: the state of each row
          memory,       \* _devices_by_id and _credentials
          registryLock, \* the holder of DeviceRegistry._lock
          call,         \* where each thread is inside the registry
          registered,   \* history: devices whose register() returned
          dismissed     \* history: devices whose revoke() returned

registryVars == <<up, store, memory, registryLock, call, registered, dismissed>>

DeviceStatus == {"absent", "authorized", "revoked"}

(* Steps at which a thread waits for the lock, and those at which it has it. *)
WaitingSteps == {"register", "revoke"}
LockedSteps == {"save", "publish", "mark", "withdraw"}
ReplySteps == {"registered", "duplicate", "revoked", "unknown", "accepted", "denied", "failed"}

Outside == [pc |-> "outside", device |-> NoDevice]
At(pc, d) == [pc |-> pc, device |-> d]

RegistryTypeOK ==
    /\ up \in BOOLEAN
    /\ store \in [Devices -> DeviceStatus]
    /\ memory \in [Devices -> DeviceStatus]
    /\ registryLock \in Threads \cup {NoThread}
    /\ call \in [Threads -> [pc : WaitingSteps \cup LockedSteps \cup ReplySteps, device : Devices]
                               \cup {Outside}]
    /\ registered \subseteq Devices
    /\ dismissed \subseteq Devices

RegistryInit ==
    /\ up = TRUE
    /\ store = [d \in Devices |-> "absent"]
    /\ memory = [d \in Devices |-> "absent"]
    /\ registryLock = NoThread
    /\ call = [t \in Threads |-> Outside]
    /\ registered = {}
    /\ dismissed = {}

Goto(t, pc) == call' = [call EXCEPT ![t] = At(pc, call[t].device)]

-----------------------------------------------------------------------------
(* register(device, token) *)

CallRegister(t, d) ==
    /\ up
    /\ call[t] = Outside
    /\ call' = [call EXCEPT ![t] = At("register", d)]
    /\ UNCHANGED <<up, store, memory, registryLock, registered, dismissed>>

(* Lock taken; an id or a token hash already known is refused. *)
RegisterChecks(t) ==
    /\ call[t].pc = "register"
    /\ registryLock = NoThread
    /\ IF memory[call[t].device] # "absent"
          THEN Goto(t, "duplicate") /\ UNCHANGED registryLock
          ELSE Goto(t, "save") /\ registryLock' = t
    /\ UNCHANGED <<up, store, memory, registered, dismissed>>

(* save_device: an upsert, so it writes "authorized" over whatever is there. *)
SaveDevice(t) ==
    /\ call[t].pc = "save"
    /\ store' = [store EXCEPT ![call[t].device] = "authorized"]
    /\ Goto(t, "publish")
    /\ UNCHANGED <<up, memory, registryLock, registered, dismissed>>

PublishDevice(t) ==
    /\ call[t].pc = "publish"
    /\ memory' = [memory EXCEPT ![call[t].device] = "authorized"]
    /\ registryLock' = NoThread
    /\ registered' = registered \cup {call[t].device}
    /\ Goto(t, "registered")
    /\ UNCHANGED <<up, store, dismissed>>

-----------------------------------------------------------------------------
(* revoke(device_id) *)

CallRevoke(t, d) ==
    /\ up
    /\ call[t] = Outside
    /\ call' = [call EXCEPT ![t] = At("revoke", d)]
    /\ UNCHANGED <<up, store, memory, registryLock, registered, dismissed>>

(* Lock taken; an unknown device is an error, a revoked one is returned as it is. *)
RevokeChecks(t) ==
    LET d == call[t].device IN
    /\ call[t].pc = "revoke"
    /\ registryLock = NoThread
    /\ \/ /\ memory[d] = "absent"
          /\ Goto(t, "unknown")
          /\ UNCHANGED <<registryLock, dismissed>>
       \/ /\ memory[d] = "revoked"
          /\ Goto(t, "revoked")
          /\ dismissed' = dismissed \cup {d}
          /\ UNCHANGED registryLock
       \/ /\ memory[d] = "authorized"
          /\ Goto(t, "mark")
          /\ registryLock' = t
          /\ UNCHANGED dismissed
    /\ UNCHANGED <<up, store, memory, registered>>

(* revoke_device: an update that must find its row. *)
MarkRevoked(t) ==
    /\ call[t].pc = "mark"
    /\ store[call[t].device] # "absent"
    /\ store' = [store EXCEPT ![call[t].device] = "revoked"]
    /\ Goto(t, "withdraw")
    /\ UNCHANGED <<up, memory, registryLock, registered, dismissed>>

WithdrawDevice(t) ==
    /\ call[t].pc = "withdraw"
    /\ memory' = [memory EXCEPT ![call[t].device] = "revoked"]
    /\ registryLock' = NoThread
    /\ dismissed' = dismissed \cup {call[t].device}
    /\ Goto(t, "revoked")
    /\ UNCHANGED <<up, store, registered>>

(* Either transaction raises and rolls back; the exception releases the lock. *)
StoreFails(t) ==
    /\ call[t].pc \in {"save", "mark"}
    /\ registryLock' = NoThread
    /\ Goto(t, "failed")
    /\ UNCHANGED <<up, store, memory, registered, dismissed>>

-----------------------------------------------------------------------------
(* Mutant: the dictionaries are read without the lock. *)
AuthenticateUnlocked(t, d) ==
    /\ up
    /\ call[t] = Outside
    /\ call' = [call EXCEPT ![t] = At(IF memory[d] = "authorized" THEN "accepted" ELSE "denied", d)]
    /\ UNCHANGED <<up, store, memory, registryLock, registered, dismissed>>

(* authenticate(token): one critical section that writes nothing. *)
Authenticate(t, d) ==
    /\ up
    /\ call[t] = Outside
    /\ registryLock = NoThread
    /\ call' = [call EXCEPT ![t] = At(IF memory[d] = "authorized" THEN "accepted" ELSE "denied", d)]
    /\ UNCHANGED <<up, store, memory, registryLock, registered, dismissed>>

(* The caller goes on with what the registry returned or raised. *)
Leave(t) ==
    /\ call[t].pc \in ReplySteps
    /\ call' = [call EXCEPT ![t] = Outside]
    /\ UNCHANGED <<up, store, memory, registryLock, registered, dismissed>>

(* The process dies: an open transaction rolls back, only the rows survive. *)
LoseProcess ==
    /\ up
    /\ up' = FALSE
    /\ memory' = [d \in Devices |-> "absent"]
    /\ registryLock' = NoThread
    /\ call' = [t \in Threads |-> Outside]
    /\ UNCHANGED <<store, registered, dismissed>>

(* Mutant: revoked_at is not read back. *)
LoadAllAuthorized ==
    /\ ~up
    /\ up' = TRUE
    /\ memory' = [d \in Devices |-> IF store[d] = "absent" THEN "absent" ELSE "authorized"]
    /\ UNCHANGED <<store, registryLock, call, registered, dismissed>>

(* A new process builds the registry from load_devices before it serves. *)
LoadFromStore ==
    /\ ~up
    /\ up' = TRUE
    /\ memory' = store
    /\ UNCHANGED <<store, registryLock, call, registered, dismissed>>

RegisterStep(t) == RegisterChecks(t) \/ SaveDevice(t) \/ PublishDevice(t)
RevokeStep(t) == RevokeChecks(t) \/ MarkRevoked(t) \/ WithdrawDevice(t)

RegistryNext ==
    \/ \E t \in Threads : RegisterStep(t) \/ RevokeStep(t) \/ StoreFails(t) \/ Leave(t)
    \/ \E t \in Threads, d \in Devices : CallRegister(t, d) \/ CallRevoke(t, d) \/ Authenticate(t, d)
    \/ LoseProcess
    \/ LoadFromStore

RegistrySpec == RegistryInit /\ [][RegistryNext]_registryVars

-----------------------------------------------------------------------------
(* Two threads are never both inside the registry's lock, and the holder is  *)
(* the thread whose step says so (every "with self._lock" of registry.py).   *)
LockDiscipline ==
    \A t \in Threads : call[t].pc \in LockedSteps <=> registryLock = t

(* While the process runs and nobody holds the lock, the dictionaries every  *)
(* authentication reads and the rows a restart would read agree; only the    *)
(* holder, between its commit and its change in memory, may see them differ. *)
(* registry.py 61-68 and 109-111 write the row first for this.               *)
MemoryMatchesStore ==
    (up /\ registryLock = NoThread) => memory = store

(* A device whose registration was reported is on disk, and one whose        *)
(* revocation was reported is revoked on disk: no crash right after the      *)
(* answer can take either back.                                              *)
AnswersAreDurable ==
    /\ \A d \in registered : store[d] # "absent"
    /\ \A d \in dismissed : store[d] = "revoked"

(* Rows move only from absent to authorized to revoked: the upsert of        *)
(* save_device never brings a revoked device back to life.                   *)
StoreMovesForward ==
    [][\A d \in Devices : \/ store'[d] = store[d]
                          \/ store[d] = "absent" /\ store'[d] = "authorized"
                          \/ store[d] = "authorized" /\ store'[d] = "revoked"]_registryVars

(* Once revoke() has returned for a device, no authentication accepts its    *)
(* token again, in this process or in a later one.                           *)
NoAccessAfterRevocation ==
    [][\A t \in Threads :
         (call[t].pc # "accepted" /\ call'[t].pc = "accepted") => call'[t].device \notin dismissed]_registryVars

(* The registry implements the token authority: its rows are the grants.     *)
Reply(t) == IF call[t].pc \in ReplySteps THEN [kind |-> call[t].pc, device |-> call[t].device]
                                         ELSE NoDevice

Authority == INSTANCE TokenAuthority
                WITH NoReply <- NoDevice, grants <- store, replies <- [t \in Threads |-> Reply(t)]

(* Every step of the registry, its cache, its locks and its crashes is a     *)
(* step of the authority or invisible to it.                                 *)
ImplementsAuthority == Authority!Spec
=============================================================================
