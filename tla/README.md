# A verification project for PCPanel

PCPanel shows the hardware telemetry of a Windows PC on a phone or tablet in
the local network and lets paired devices start applications on it. This
directory models the parts of it where threads, processes, crashes and time
meet, checks the models with TLC on small instances, and proves what matters
most with TLAPS for instances of any size.

All paths below are relative to the repository (`src/`). The definitions of
every module are mapped to source lines in `PROJECT.json` (`map`).

## 1. The system

Two Windows processes and any number of browsers:

```
  browser ──HTTP, WebSocket──▶ Agent (user session) ──named pipe──▶ Telemetry Service (elevated)
  web/js                       app/agent, app/api,                  app/service, app/ipc/server,
                               app/auth, app/actions,               app/telemetry/manager
                               app/persistence (SQLite)             └─ LibreHardwareMonitor (.NET)
```

| Component | State it keeps | Operations | How it talks to others |
|---|---|---|---|
| Device registry, `app/auth/registry.py` with `app/persistence/sqlite_device_store.py`, `database.py` | two dictionaries, a lock, the `devices` table | register, revoke, authenticate, load | called by the pairing service and by every authorized request, on the threads of the HTTP server; one short SQLite transaction per write |
| Pairing service, `app/auth/pairing.py`, endpoints in `app/api/routes.py` | sessions in memory, a lock | start, complete, revoke | reads a clock, registers devices while it holds its lock, shows the code in a message box (`app/agent/pairing.py`) |
| Telemetry manager, `app/telemetry/manager.py` | worker thread, status, stop event, latest snapshot | start, stop, get and wait for a snapshot | owns the hardware provider; read by the pipe server |
| Telemetry service, `app/service/windows.py`, `runtime.py` | state reported to the service control manager | start, stop | owns the manager and the listener thread |
| Named pipe, `app/ipc` | stop event, ready event, thread id; one pipe instance | serve, stop, request | blocking Win32 calls, cancelled from another thread |
| Telemetry source and streams, `app/agent/telemetry.py`, `app/api/websocket.py` | an offline flag, a cursor for each socket | poll and send | asks the pipe, feeds browsers |
| Agent lifecycle, `app/agent/main.py`, `single_instance.py`, `shutdown.py`, `tray.py` | a named mutex and a named event | start, exit, request a shutdown | the installer and a second launch |
| Actions, `app/actions`, `app/api/actions.py`, `sqlite_action_store.py` | a catalogue fixed at start, the `actions` table | load, list, execute, seed | authorized requests; a script adds an action to the table |
| Migrations, `app/persistence/migrations.py`, `data_migration.py` | schema version, data directory | migrate at start, copy a database | SQLite and the file system, shared with two scripts |
| Metric resolution, `app/telemetry/metrics.py` | none | resolve | pure |
| Web client: telemetry socket, `web/js/services/websocket-telemetry.js` | the socket, two timers, an attempt count | connect, reconnect, announce, stop | WebSocket; tells the page its connection status |
| Web client: apps launcher, `web/js/components/apps-launcher.js` | the catalogue, views, execution states, timers | load, tap, display, reset | authorized requests; reset when the device signs in or out |
| Web client: authentication and pairing, `web/js/state`, `services`, `components/pairing-view.js` | the token, which all pages share; a status, the pairing view | bootstrap, pair, fetch, retry | browser storage, HTTP; what the launcher requests comes through it |

What is hard in it, and what each component must get right:

- **Threads over two representations.** The registry answers from memory and
  promises durability. Memory and rows must agree whenever anybody looks, an
  answer must survive the crash that follows it, and a revocation must be
  final.
- **Limits under concurrency.** One code, one device; five wrong codes; ten
  pending pairings; five minutes. Each request judges them by a clock it read
  before it got the lock.
- **Two nested locks and exceptions between them.**
- **A worker that is started, stopped and waited for by several threads**, and
  a provider that fails in any of its calls. It must never have two users.
- **Blocking calls that have to be cancelled from outside.** The listener must
  end when asked, must not end before, and must not hand an answer to the
  wrong client.
- **Processes that nothing keeps apart.** The Agent and two scripts open the
  same database, in several transactions each, and any of them may die.
- **Events that arrive late**: in the web client, in the streams after a
  service restart, in the Agent that is asked to exit while it starts.

The full list, each at its line and with the properties aimed at it, is under
`hazards` in `PROJECT.json`.

## 2. The modules

| Module | What it is |
|---|---|
| `TokenAuthority` | abstract: a table of grants that only moves forward, and truthful answers about it |
| `DeviceRegistry` | the registry over SQLite; implements `TokenAuthority` |
| `PairingOffers` | abstract: pairings that are offered once, stand, close, and earn at most one device each |
| `Pairing` | EXTENDS `DeviceRegistry` and composes it with the pairing service and its endpoints; implements `PairingOffers` |
| `AgentData` | EXTENDS `DeviceRegistry` with the data directory, the start of the Agent, the two scripts and the execution of actions |
| `SnapshotSource` | abstract: the lifecycle of the manager and its latest snapshot |
| `TelemetryManager` | the manager; implements `SnapshotSource` |
| `TelemetryService` | service, listener, pipe and clients, over an instance of `SnapshotSource` |
| `TelemetryStream` | the Agent's polls of the service and the WebSocket streams they feed |
| `AgentLifecycle` | launches of the Agent, its mutex and event, its exit, the installer's requests |
| `TelemetrySocket` | the browser's telemetry connection with its timers |
| `AppsLauncher` | the browser's launcher: catalogue, taps, feedback, sessions |
| `WebAuth` | the browser's token, authentication state and pairing view, over requests that end late |
| `MetricResolution` | the rules that turn sensors into metrics, over successive snapshots |
| `DeviceRegistryProofs`, `PairingProofs`, `AgentDataProofs`, `TelemetryManagerProofs`, `TelemetryServiceProofs`, `AgentLifecycleProofs` | the theorems of the module they are named after; the second and third use those of the first |
| `TelemetryDeliveryProofs` | the theorems of `TelemetryStream`, `TelemetrySocket` and `MetricResolution`: the telemetry on its way to the page |
| `WebClientProofs` | the theorems of `AppsLauncher` and `WebAuth` |
| `MC*` | the symmetry sets and instances for TLC |

An operator marked *Mutant* is not part of a model: it is a plausible bug of
the definition it precedes. Each property is shown to be violated when such a
bug replaces the definition (`mutants` in `PROJECT.json`), so that no property
holds just by the shape of the model. A variable marked *history* is not in
the code either: it records what a property speaks of, and no guard reads it
(except `drawn`, which makes the ids that `Pairing` draws fresh).

### DeviceRegistry

`store` is the `devices` table, `memory` the two dictionaries, `registryLock`
the holder of `DeviceRegistry._lock`, and `call` the point each request thread
has reached inside the registry. `register` is `CallRegister` (before the
lock), `RegisterChecks` (lock and duplicate check), `SaveDevice` (the commit),
`PublishDevice` (dictionaries, unlock); `revoke` is built alike. Between any
two of these steps another thread may run or the process may die
(`LoseProcess`, then `LoadFromStore`). `StoreFails` is an exception inside
`Database.connection`, which rolls back and releases the lock.
`authenticate` is one critical section that writes nothing, hence one action.

A device and its token are one identity here: tokens are fresh random values,
and the registry keeps one hash for each device. `registered` and `dismissed`
are history variables: the answers that were given.

### Pairing

`sessions` maps every pairing id to its session ("none" if there is none),
`req` is the pairing request each thread serves, and `pairingLock` the holder
of `PairingService._lock`. Critical sections that call nothing outside are
one action (`OpenSession`, `RejectSession`, `RejectCode`); `AcceptCode` takes
the lock, consumes the session and enters the registry, whose steps then
interleave with everything else until `FinishPairing`. A request reads the
clock when it begins (`StartPairing`, `CompletePairing`), so that its time may
be old when it gets the lock. `Crash` loses sessions, requests and locks, not
rows. `revoke_device` has no HTTP endpoint today; it is part of the service's
interface and modelled as such.

To those who use it the whole is `PairingOffers`, under the mapping `OfferOf`:
an offer stands while its session is pending, is spent once a device was minted
for it, is unmade until the request that drew its id opens it, and else is
closed. A sweep then closes offers, several at a time. Of what happens under
the two locks only the acceptance of a code and the commits of rows show.

### AgentData

The second composition with the registry: what its rows lie in. `database` is
the file with its schema version, `rows` the actions table, and `store`, the
devices table, is that of `DeviceRegistry`. `opening[x]` is where the Agent or
the seed script is after it has connected: `ReadVersion` (before any
transaction), `BeginMigration` (BEGIN IMMEDIATE), `CommitMigration`, and then
the Agent's `LoadActions` and `StartServing` or the script's `SeedLooks` and
`SeedSaves`, each in a transaction of its own. `CheckDestination`,
`PrepareCopy` and `ReplaceDestination` are `migrate_database`. A request that
executes an action is `ExecuteAction`, which is the registry's `Authenticate`,
and then `ResolveAction`, `ValidateAvailability` and `StartProcess`;
registrations and revocations go on meanwhile, as in `Pairing`, which has the
rest of them. `Crash`, `OpeningFails` and `StoreFault` may happen at any step
and are counted by `faults`.

The system is Windows: `os.replace` fails while a connection to the file is
open. The copied database is one that no Agent uses and that PCPanel wrote:
`_validate_database` would also accept a file with the tables and version 0,
which no migration leaves behind (tables and version are committed as one).
SQLite's promises
(a transaction is taken back if its process dies, one writer at a time) are
those of an external system. Histories: `overran`, a copy has replaced a
database that came after it had looked, and `bygone[t]`, the devices revoked
before the request of thread `t` began.

### TelemetryManager

`worker[w]` is the point of `_run` a worker has reached, one step for every
call of the provider and every block under the lock; `caller[c]` is what a
thread is doing in `stop` or `wait_for_snapshot`. `stop` is three steps, as in
the code: read the worker under the lock, set the event, join. `Alive` reads
`is_alive()` as true until the worker's last block; the moments a thread needs
to end after that block change nothing, since the block has already cleared
`_thread`.

To its readers the manager is a `SnapshotSource`, whose `fault` is: an active
worker has failed to open or to close its provider. A source with a fault ends
as failed, and no other does.

### TelemetryService

One life of the service process. `main` is the thread of `_service_main`,
`listener` that of `serve_forever`, `client[c]` a thread of the Agent. The
pipe is `attached` (who is at the other end) and `exchange` (what went
through). `CancelListener` is `CancelSynchronousIo`: it makes the call fail in
which the listener is `Blocked`, or finds nothing to cancel, or raises because
the listener has left and there is no thread id any more. `named` is
`_thread_id is not None`, which changes together with the ready event.
Exceptions of the main thread go through `Raise`, as in the `except` of
`_service_main`. The manager is an instance of `SnapshotSource`: what
`TelemetryManager` is proved to implement is what the service relies on.

### TelemetryStream

A snapshot is the life of the service it comes from and its sequence number.
A request may fail at any time, also while the service serves: the pipe has one
instance, `WaitNamedPipeW` sees it free but reserves it for nobody, and the
`CreateFileW` that comes second fails (`app/ipc/win32.py:133-145`); and a
request that waits longer than a second gives up. The source makes nothing of
the reason, so neither does `Ask`: any request is answered or fails.
`stream[s]` is where the task of a WebSocket is in its loop: `Ask` is the
pipe request on a thread, `Mark` the offline flag under its own lock
afterwards, `Decide` the comparison with the cursor, `Send` and `Pause` the
rest. Between any two of them other streams, a `get_status` of the HTTP
interface (`AskStatus`, `MarkStatus`) and the service itself go on. A browser
that leaves (`Disconnect`) is noticed by `Send` only, as in the code.

### AgentLifecycle

`mutex` and `event` are the sets of processes with a handle to the two kernel
objects; an object exists while its set is not empty, and `signaled` is the
auto-reset event's state. `Launch` is `CreateMutexW`, `Peek` and `Peeked` the
`OpenMutexW` and `CloseHandle` of a request that looks whether the Agent is
gone. `waiting` is the monitor's thread, `shouldExit` the server's flag.
`Dies` may happen to an Agent at any point and closes all its handles. The
tray is only the action it has on the lifecycle, `TrayExit`; its own thread,
icon and menu are left out. The two-second join of the monitor's thread is
taken to suffice. Creating the mutex in a launch can also fail because of a
duplicate that is leaving or a request that peeks: then no Agent starts, which
`Launch` shows and no property forbids.

### TelemetrySocket

One page. `state` is the `readyState` of the WebSocket objects in use,
`socket` the variable of that name, and the two timers are seconds left. A
step is a callback. `Closing` is the server closing a socket: its close event
comes some time later, and by then the page may have another socket, because
`handleVisibilityChange` connects as soon as the current one is not active.
`down` and `late` are histories: how long the connection has been lost, and
whether a socket that was replaced has closed since the last opening.
`Connect` clears the reconnect timer also when it returns at once; it is only
called then by callbacks for which there is none.

### AppsLauncher

A view is a button made by one rendering for one action; callbacks keep the
view they were made for. `executions` is the map of `createExecutionState`,
`face` what each button displays, `running`, `due` and `reload` the views
whose request, idle timer or reload timer is outstanding. `SignIn` and
`SignOut` stand for every change of the authentication state, whoever causes
it; a failed or unauthorized request causes one by itself
(`authenticatedFetch`), and the launcher is then reset before its own `catch`
runs, in the order of `RunOffline` and `LoadExpelled`.

### WebAuth

Pages of one browser, which share `stored`, the token in localStorage, and
have each a `page` record: the status of `state/auth.js` and the variables of
the pairing view. `calls` are the authenticated requests in flight, with the
token they were sent with; `Refused`, `Accepted`, `Broken`, `ReadBody` and
`Fail` are the ways `authenticatedFetch` and the bootstrap end. `pairCall` is
a page's pairing request, which carries no token. `Update` is `renderAuth`:
the pairing view is reset on the way into "unpaired". `CodeAccepted` stores
the token and begins its validation in one callback; the request it sends
`pays` for the busy form. `ticking` counts the intervals that run, so that one
that nobody can stop any more would show.

A token that the Agent refuses, it refuses for ever (`RevocationIsFinal`), so
a refusal may be judged when the answer comes instead of when the Agent saw
the request. `UseDashboard` stands for the requests of the launcher; what it
displays is `AppsLauncher`'s, where `SignIn` and `SignOut` stand for this
module's changes of status.

### MetricResolution

A snapshot is the set of sensors in it, those with a value and those with a
maximum; `Collect` takes one after anything has happened to the hardware. The
rules, the choice of the GPU, the match and the rank are
operators named after the functions of `metrics.py`. A name is the set of the
rules' phrases it contains, which is all the rules ask of a name; the order of
identities is the order of numbers. `MachinesAssumption` says that an identity
is one sensor's. A reading is the sensor it comes from, so that values do not
occur: of `memory.total` the module has the two rules whose readings are added
when no module of the memory tells its capacity, and not the sums. Nothing in
the code makes the two ways to compute the total agree (Windows does not count
the memory that firmware and graphics reserve), and the model does not say so.

## 3. The runs

| Run | Configuration | States | What it shows |
|---|---|---|---|
| `pairing` | 2 threads, 2 devices, 2 pairings, 2 attempts, 1 pending, 1 failing transaction | 638,786 | `SingleUse`, `GuessBudget`, `NobodyStuck`, `KeptUntilExpiry`, `FairRefusal`, `NoAccessAfterRevocation`, `ImplementsAuthority`, `ImplementsOffers` |
| `data` | 2 threads, 1 device, 1 action, 1 crash or failure; fair | 828,699 | `DataSurvives`, `StartsOnlyAllowed`, `ConfigurationKept`, `RemainsAuthority`, `AgentComesUp` |
| `manager` | 3 callers, 2 workers, 2 snapshots; fair | 62,499 | `OneWorker`, `NoLostWakeup`, `ImplementsSource`, `StopEnds` |
| `service` | 2 clients, 2 deaths, waits may be too short; fair | 3,334 | `RepliesAreAwaited`, `ServesUntilStopped`, `ServiceStops`, `RequestsEnd` |
| `service_killed` | 2 clients, 1 death | violation | `ServesPastDeaths` is false |
| `stream` | 2 streams, 2 lives of the service, 2 snapshots each; fair | 549,684 | `SentInOrder`, `BrowsersCatchUp`, `OfflineSettles` |
| `lifecycle` | 2 launches, 2 requests with 1 look each; fair | 33,984 | `OneAgent`, `NoStaleShutdown`, `TrueMeansGone`, `AgentsLeave` |
| `socket` | 2 sockets in use at once, the delays of the code; fair | 22,722 | `OneConnection`, `ShownTruthfully`, `KeepsTrying` |
| `launcher` | 2 actions, 2 renderings in use at once, 2 catalogue requests | 1,000,672 | `FeedbackIsTimed`, `LoadingEnds`, `OneRequest` |
| `launcher_refresh` | 1 action | violation | `FeedbackReturns` is false |
| `webauth` | 2 pages, 2 tokens, 2 authenticated requests in flight; fair | 70,425 | `PairingViewUsable`, `CredentialKept`, `WaitsEnd` |
| `metrics` | a processor, two GPUs, a memory with a module and a page file | 2,244 | `OneSource`, `SwitchesForCause` |

`pairing` and `launcher` were explored with symmetry; the others state
liveness, or have nothing to gain. `ShownTruthfully`, `DataSurvives`,
`OneSource` and `SwitchesForCause` put together what belongs to one question:
`DataSurvives` contains the registry's `MemoryMatchesStore` and
`AnswersAreDurable`. Some properties that section 5 proves outright are in no
run any more; TLC found them true on the same instances before they were
proved: the type invariants, the lock disciplines, `StoreMovesForward`,
`UsesRegistry`, `PendingBound`, `StatusIsTrue`, `StopIsNotForgotten`,
`StoppedIsClean`, `AlwaysReports`, and those on which a liveness property rests
(the table at the end of section 5).

**Bounds, and why they are enough.** In `pairing` two
threads suffice for every conflict (each of the two locks admits one at a
time, and a thread that holds one may meet another that holds the other),
two attempts separate "one wrong code" from "the last
one", a limit of one is reached at once, and one tick with a lifetime of one
lets a request keep a time that is one whole lifetime old. `MaxTime` and
`MaxFaults` bound the model and appear as guards of `Tick` and `StoreFault`
only. `Workers` bounds the starts of a manager: two let one worker end and a
second be started in the middle of a stop, while three callers start, stop and
wait. `MaxSequence` bounds the snapshots: nothing depends on the number beyond
the first. `MaxKills` bounds dying clients; two let both die, or one die
twice. Two streams are enough for polls to overlap and two lives for a number
to come again (`MaxLives`). Of the Agents one runs and one is launched
meanwhile; each may be launched again for ever, and so may the requests.
Sockets and rendering numbers are used again once nothing refers to them, so
two of them bound only what overlaps; three sockets were run as well and give
the same. `MaxLoads` bounds catalogue requests of different sessions in
flight. In `data` one thread executes an action while the other registers or
revokes its device, one action is the one that the script adds and the user
may have configured, and one fault may be at any step of any of the three
processes. Two pages and two tokens in `webauth` let one page replace the
token of the other, and two requests let one be late for what the other has
done; `Calls` bounds requests in flight only. The proofs below need none of these bounds.

Deadlock is checked except in the service's runs, where the process ends.

**Fairness.** `Pairing` has safety properties only; that no request gets
stuck is `NobodyStuck`, which speaks of what is enabled. `AgentData`: a
process that is starting goes on; nobody has to start one, and `AgentComesUp`
is about an Agent that is started again and again. `WebAuth`: the browser ends
every request and hands over its answer or error (a request that sent its
headers but never its body would be waited for without end; the code has a
timeout for the headers only, and none for pairing requests).
`TelemetryManager`: a worker and a thread inside `stop` or a wait go on,
because the provider's calls return and the interval is finite; nobody has to
start or stop anything. `TelemetryService`: the service's threads go on and a
client in an exchange goes on with it; clients may die, and nobody has to ask.
`TelemetryStream`: tasks and the threads they wait for go on; the service and
the browsers owe nothing, and no request owes an answer. `TelemetrySocket`: time passes, the reconnect timer
runs, and a closing socket gets its event; nothing has to open. Weak fairness
suffices in all of these.
`AgentLifecycle` needs strong fairness in one place, `StreamEnds`: a stream
polls for ever, so if new snapshots keep coming, with pauses, its poll meets
one. `AppsLauncher` has safety properties only: a request that got its headers
has no timeout any more (`authenticated-fetch.js` clears it before
`response.json()`), so that nothing there must ever end.

**Conditions.** Some properties hold except in a situation that a history
names, and say so:

- `ServiceStops` excuses `hurried`: a one-second wait of
  `TelemetryPipeServer.stop` ran out early, or the listener began by clearing
  a stop event that was already set (`app/ipc/server.py:49`). The listener may
  then serve on and the service never stop. The safety properties of the
  service need no such excuse.
- `ServesUntilStopped` is about a service none of whose clients has died.
- `BrowsersCatchUp` is about a stream whose polls are answered again and again:
  with the one pipe instance nothing keeps a stream's polls from failing for
  ever against a service that serves others. It asks for the number of the
  latest snapshot: one of a later life of the service that has the number sent
  last counts as the same.
- `OfflineSettles` lets the flag change for ever while requests are answered and
  fail for ever. What it excludes is a mark that stays although no request
  failed after it, or none was answered.
- `DataSurvives`, `StartsOnlyAllowed`, `ConfigurationKept` and
  `RemainsAuthority` excuse `overran`: a copy replaced a database that had been
  made after it had looked (`data_migration.py:26` and `35`). The last also lets
  a copy fill an empty devices table.
- `StartsOnlyAllowed` speaks of devices revoked before the request began: a
  revocation during it may come too late, as with any check before a use.
- `Pairing` has one clock, and it never goes back. The code reads the wall
  clock; one that is set back keeps pairings alive for longer, and one that is
  set forward closes them early.
- `AgentComesUp` leaves out a database of a later version of PCPanel, which
  the Agent refuses on purpose.
- `CredentialKept` excuses the refusal of a request that was sent with another
  token, and a failure of one whose token is gone.
- `NoStaleShutdown` excuses an Agent that begins to listen while a request
  has the event open, and `AgentsLeave` asks that the service does not fall
  silent for good.
- `ShownTruthfully` excuses what the late close event of a replaced socket does
  to its successor (`ConnectedIsShown`, `OfflineIsEarned`), and "connecting"
  shown after "offline" (`OfflineInTime`).
- `OneRequest` excuses actions whose request or timer outlived a reset.

## 4. What the violations show

- **`service_killed`.** An Agent that dies, or is killed, between opening the
  pipe and reading its answer makes the listener's next call fail.
  `serve_forever` lets the exception out, the thread ends, and nothing starts
  another: the service stays RUNNING and deaf until it is restarted
  (`app/ipc/server.py:56`, against the docstring in line 47).
- **`launcher_refresh`.** An action displays its result for 1.8 seconds. If
  the catalogue is rendered anew in that time, `clearActionViews` stops the
  timer that would make the action idle, while `executions` keeps "success" or
  "error": the new button looks idle and ignores every tap until the launcher
  is reset (`web/js/components/apps-launcher.js:141`, against
  `web/README.md:53`).

### Other observations

These came up while the conditions above were found. Each was a TLC
counterexample to the property without its condition.

- `manager.py:91`: `stop()` sets the shared event after it has released the
  lock. If the worker it read ends on its own and another thread starts a new
  one in between, the signal reaches the new worker and `stop()` returns
  without waiting for it, although line 83 says "wait for its cleanup to
  finish". The service starts and stops from one thread, where this cannot
  happen.
- `websocket.py:51` compares numbers only. A service that restarts between two
  polls and has come to the number sent last is taken for unchanged, although
  line 23 speaks of "each newly observed telemetry snapshot"; the next number
  repairs it.
- `shutdown.py:71`: an Agent that is still composing has no event yet, and one
  that is releasing has none any more. A request finds none, answers False at
  once and looks at no mutex; `main` ignores the answer and the installer the
  exit code, so that an upgrade goes on beside an Agent that starts up, while
  `README.md:137-138` says that upgrade and uninstall wait for the instance to
  be released. `FindNothing` does this in the model.
- `win32.py:133-145`: two polls that overlap may both see the one pipe instance
  free. The one that opens it second fails, and `agent/telemetry.py:25-27` marks
  a service offline that serves; the next answer takes the mark away.
- `data_migration.py:57-60` accepts a source of version 0 that has the tables.
  The next start would run the first migration on it and fail at CREATE TABLE.
  PCPanel writes no such file.
- `metrics.py:315-344`: the total of the memory is what the modules say as soon
  as one of them has a value, and what is used and available otherwise. The two
  need not agree, and a module without a value is missing from the first.
- `websocket.py:51-62`: a stream touches its socket only to send. With a
  service that yields nothing new, the server's exit waits for a task that
  polls for ever (`main.py:43` sets no limit for a graceful shutdown).
- When requests overlap, one of them can keep the event, and in it the signal
  by which an Agent stopped its own monitor, alive for the next Agent, which
  then ends at once.
- `websocket-telemetry.js:37-43` does not ask whether the socket that closed
  is still the current one: the page shows "reconnecting" over an open
  connection, and the fifteen seconds of `web/README.md:45` begin early. The
  reconnect timer it leaves makes the next loss uncounted, so that the attempt
  after it is announced as "connecting" even after "offline".
- `apps-launcher.js:39`: `reset` forgets executions in flight. When the device
  is authenticated again before an old request ends, a tap sends a second one,
  although `web/README.md:53` says that it is blocked.
- `data_migration.py:26` looks for the destination, `35` replaces it after the
  copy and its validation. An Agent or a seed script that creates the database
  in between, and has closed its connection, loses it, with the devices it has
  paired meanwhile, although `README.md:233` says "sem sobrescrever um destino
  existente". The running Agent goes on with its memory, and its next
  revocation finds no row.
- `migrations.py:61`: an Agent and a seed script that begin together on a new
  database both read version 0; the second then fails at CREATE TABLE, and its
  start with it, although the database is in order. Starting it again helps.
- `api/actions.py:94`: a device that is revoked after its request was
  authenticated still gets its action started. An action disabled in the table
  stays available until the Agent starts again.
- `authenticated-fetch.js:32` removes the token that is stored, not the one
  that was refused: a 401 that comes after the user has paired again, in this
  page or another, throws the new token away.
- `app.js:84` says "Sua credencial foi mantida" whenever the page is offline.
  Two requests of a revoked device are enough to make it say so without a
  token: one gets its 401, the other times out (`authenticated-fetch.js:35`).
- `auth-bootstrap.js:35-36` shows the dashboard when the body of a status
  check arrives, also if the token has been removed since its headers came.
- `pairing-view.js:47`: after the view was reset while a code was being
  validated, the name form looks usable and ignores its button until the
  validation is over.
- With two CPU sockets, the CPU's model is that of the first device while each
  reading comes from whichever device has the best name
  (`metrics.py:268`, `352`); only GPUs are kept apart.

## 5. The proofs

All theorems hold for any sets of threads, devices, pairings, callers,
workers, clients, streams, Agents, requests, sockets, actions, renderings,
pages, tokens and machines, and any positive limits. Assumed are only the named
`ASSUME`s of the modules: "nobody" is not a thread, a device, a worker or a
client and "no call" not a call, limits are natural numbers, an Agent is not a
request, and of machines that an identity is one sensor's. Every invariant,
every action property and every refinement that a run checks is proved, except
the second half of `NobodyStuck`.

- **Registry.** The inductive invariant adds to `LockDiscipline` what the
  holder of the lock has already done: a thread at "publish" has written its
  row and not yet memory, one at "withdraw" likewise, one at "save" has found
  its device absent, and everybody else sees memory and rows equal. Crash
  durability, `NoAccessAfterRevocation` and the refinement all need it: an
  answer is given only at steps where it says that the row is written. For the
  refinement every step is shown to be one step of `TokenAuthority` or a
  stutter, under the mapping grants = rows, replies = finished calls.
- **Pairing.** `UsesRegistry` comes first: every step of `Pairing` is a step of
  the registry or leaves it alone, so the registry's theorems carry over.
  `SingleUse` needs that a device of a call in progress was minted by the
  request that made it; `GuessBudget` that attempts left and wrong codes add
  up; `PendingBound` counts a session set before and after a sweep and an
  insertion, with the library's facts about finite sets. `KeptUntilExpiry`
  needs that no request has read a time that is still to come, and then a
  sweep by an old time removes too little but never too much; `FairRefusal`
  that the sweep which precedes the count leaves only unexpired pairings.
  Freedom from deadlock is `SomebodyGoesOn`: a thread that registers is inside
  the registry, the holder of the registry's lock is at a step that asks for
  nothing (a row it is to mark is there, because memory, which it has looked
  at, agrees with the rows for everybody but a holder past its commit), and so
  whoever waits, waits for somebody who goes on. The other half of
  `NobodyStuck`, that `GoesOn` describes when a thread has a step, speaks of
  ENABLED and is left to TLC.
- **Pairing implements `PairingOffers`.** The limits reappear as guards of the
  abstract steps, so most of the work is to show that no step makes a closed
  offer stand again. An id is drawn before the lock is asked for, and other
  requests may sweep and count meanwhile: `MadeOnce` says that until its own
  request opens it, it has no session, no wrong code and no device, so that
  opening it makes an offer for the first time, and refusing it closes one that
  was never made. `Sweeping` and `Closing` show that a sweep only closes offers
  that were not spent; `SameOffers` that a step which changes no session leaves
  all of them as they were. The sessions that are counted after the sweep are
  the offers that stand then. In `RowsRefine` a row appears only for a device
  that was minted for an accepted code.
- **Data directory.** `DataInv` has the registry's invariant inside it, under
  the condition that no copy has overrun a database: every step of `AgentData`
  that is not the copy's replacement is a step of the registry or leaves it
  alone, and its proof is used again as it stands. Around it, `FileInv` says
  that the tables are there exactly if the version says so, that a file
  without tables is empty and a missing one has answered nothing, that a file
  somebody has open exists, and has the current version once he is past the
  migration. `KeptInv` says that what the Agent and the seed script have read
  of the actions is still so, and `ExecInv` that a thread which executes an
  action was accepted for a device that had not been revoked before.
  `StartsOnlyAllowed` and `ConfigurationKept` follow: between the script's look
  and its save nothing else writes the row. For `RemainsAuthority`, a copy that
  overran nothing found no file, hence an empty table, no Agent and nobody
  with an answer; every other step is one the registry's own refinement
  covers.
- **Manager.** The invariant says that `_thread` names exactly the worker that
  has not finished. For the refinement it is strengthened by the status each
  point of `_run` has behind it, and by `OnlyStartedFail`: a worker
  whose provider has failed is at its last block or past it. That block is then
  the end of a source with a fault exactly if the provider failed.
- **Service.** One conjunct ties what is in the pipe to the client at its end,
  one the listener's position to that of the main thread, one says after which
  exception the main thread can be where it is. The waits may be too short in
  all of it. `ServesUntilStopped` adds that without a death no client leaves the
  listener alone in an exchange, that the stop event is set only in a service
  that is being stopped, and that it is still set while `stop` looks, cancels
  and joins, unless that was hurried; `JoinIsShort` that the
  loop of cancellations is entered with a listener that has named itself, and
  left when it has ended; `EndsTakeTurns` what the pipe holds while a client
  waits for its answer, and after the listener has written one.
- **Agent lifecycle.** `OneAgent` is inductive together with the handles it
  rests on: an Agent past the check has one to the mutex, and whoever has none
  is out. For `NoStaleShutdown` the invariant follows the signal: a set event
  was set for an Agent that is listening now and was asked, or by one that is
  stopping itself, or some request still has a handle and whoever begins to
  listen has met it. `SignalsArrive` is the other direction: the only Agent that
  listens keeps the event in existence with its handle, no other monitor waits
  for it, and so the signal stays until that monitor takes it.
- **Streams.** `SentInOrder` needs three facts about what a stream has in
  hand: it is something the service has taken, it is not older than what was
  sent (it was taken later), and when it is about to be sent its number is not
  the cursor, which is the number of what was sent. An older number of a later
  life is newer all the same.
- **Telemetry socket.** The one connecting or open object is the variable
  `socket`, and `stop` closes it: `OneConnection` follows. `ShownTruthfully`
  needs in addition how the timers, the time the connection has been lost and
  what is shown go together, as long as no replaced socket has closed late.
- **Metrics.** A snapshot holds whole devices of one machine, so that the same
  devices mean the same sensors and the same GPU. The ranks are a strict order
  of a machine's sensors, shown for every rule: any nonempty set
  of candidates has a first one (three minima, one inside the other, by the
  library's theorem on well-founded relations) and only one. That the order
  knows nothing of values is why a source never changes without a cause.
- **Launcher.** `FeedbackIsTimed` needs that a hidden page has no view whose
  request is in flight: hiding empties the views, and a rendering takes a
  number to which nothing refers. `OneRequest` follows from what executions,
  requests and timers of an action say of each other as long as none has
  outlived a reset: the reset itself marks all that it leaves behind.
- **Authentication and pairing view.** `AuthInv` says of a page what its view
  may be in each status, that a busy form has a request in flight that pays for
  it, a pairing request or a validation, that such a validation carries a
  token, that a closed page has no call, that a status check was sent with a
  token and that only status checks wait for a body. Late answers and resets can
  only take such a payment away together with the form.

Only model-checked: liveness and the ENABLED half of `NobodyStuck`, for which
TLAPS has no rules here. For every liveness property but `OfflineSettles` the
safety it rests on is proved, that what it waits for can still come; what TLC
adds is that it does come under the fairness assumed.

| Liveness, by TLC | Safety, proved | What the safety says |
|---|---|---|
| `StopEnds` | `StopIsSeen` | while `stop` waits for a worker that has not ended, its event stays set, because no `start` gets past a live worker |
| `ServiceStops` | `JoinIsShort` | the listener has ended when it is joined, unless a wait was too short |
| `RequestsEnd` | `EndsTakeTurns` | a client that waits has an answer, a closed pipe, or a listener that is not blocked |
| `BrowsersCatchUp` | `PassesOverOnlyShown` | a snapshot that is passed over has the number sent last |
| `AgentsLeave` | `SignalsArrive` | an Agent that was asked has been told, or the signal and the monitor that takes it are there |
| `AgentComesUp` | `DataSurvives`, `SchemaOnlyAdvances` | the schema is whole wherever a start broke off, its version only rises, and a later one is left alone |
| `KeepsTrying` | `AttemptsGoOn` | a page without a connection has a timer, or a close event to come that sets one |
| `WaitsEnd` | `ChecksAreServed`, `PairingViewUsable` | a page that is checking, or whose form is busy, has a request in flight for it |

## 6. What is not modelled, and what comes next

Left out on purpose: token and code generation and hashing (library calls; a
fresh value is a value not used before), names, timestamps beyond expiry,
logging, the wire format and access rights of the pipe, `SetServiceStatus`
failing, the tray's icon and menu, rendering in the web client, configuration,
packaging.

Next, in this order:

1. `PipeProtocol`: frames, versions and sizes under `TelemetryService`.
2. One page: `WebAuth` with `AppsLauncher`, in place of `SignIn` and `SignOut`.

Each run asks one question of one part of the system.
