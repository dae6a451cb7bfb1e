# WAREOps: TLA+ models, checks and proofs

WAREOps runs a fleet of robots that audit a warehouse. Robots poll for audit
missions, visit bins, and send what they saw; the backend compares it with the
inventory, raises alerts, and shows everything on a live digital twin. The code
exists twice: as microservices (`services/*-service`) and as one process
(`services/unified`) that carries the same logic and is what the deployment
files run. The models follow the unified service, and a microservice where
only it has the logic.

## Inventory

| Component | State | Operations | Interacts with |
|---|---|---|---|
| Mission dispatch (`routers/mission_router.py`, `models/mission.py`, `database.py`) | tables `missions`, `robots`; one session per request | create, start, pause, complete, cancel; register robot, heartbeat, next-task | agents (HTTP), PostgreSQL, Redis (telemetry) |
| Embedded agents (`simulator/runner.py`) | status, battery, mission of each agent | register, poll loop, audit, heartbeat loop | mission and observation routes |
| Mission service class (`mission-service/.../mission_service.py`) | Redis lock per mission, `missions`, `robots` | assign under a lock, heartbeat, watchdog | nobody calls it |
| Edge agent (`apps/robot-simulator`) | SQLite buffer, connectivity, mission | scan and send or buffer, sync the buffer | observation routes |
| Observation pipeline (`routers/observation_router.py`, `integrations/`) | table `observations`, events, alerts | ingest one or a batch, publish, compare, alert | Redis, alerts, twin |
| Outbox (`observation-service/.../observation_repo.py`) | outbox columns | written, never read | nobody |
| Event bus (`packages/event-bus`) | Kafka offsets | publish with retries, consume with retries and drop | Kafka |
| Reconciliation engine (`reconciliation-service/.../reconciliation_engine.py`) | results, alerts | decide match or mismatch, three commits | event bus |
| Inventory and rescan repository (`reconciliation_repo.py`) | inventory, results | request a rescan, lists and aggregates | alerts, missions |
| Alerts (`routers/alert_router.py`) | table `alerts` | create, acknowledge, escalate, resolve, dismiss, request a rescan | operators, missions |
| Digital twin (`twin/consumer.py`, `twin_state.py`, `socket_server.py`, `routers/twin_router.py`) | Redis hashes with a TTL, rooms, subscriptions | apply an event, publish a delta, fan out, join with a snapshot | Redis pub/sub, dashboards |
| Accounts (`auth_service.py`, `auth_repo.py`, `admin_router.py`, `core/`) | users, roles, sessions, resets, challenges, counters, settings, preferences, audit trail | login, second factor, refresh, logout, reset, suspend, give a role, change settings | all routes |
| Topology (`topology_repo.py`, `topology_cache.py`) | tree of bins, products, a cache in Redis | read through, create a zone, create and delete products | agents, reconciliation |
| Startup (`main.py`, `seeder/runner.py`, `seed.py`) | readiness flags, background tasks | create tables, retry Redis, seed, start twin and simulator | all |
| Rack scanner (`active_vision_scanner/rack_scanner_node.py`) | state machine, log files | turn, tilt, scan, judge, log, park | ROS topics, HTTP |
| Servo controller and bridge (`esp32_servo_controller.ino`, `esp32_serial_bridge.py`) | servo positions, stop flag, nested moves | move, stop | scanner, HTTP |
| Command line scanner (`scan.py`) | plan, results, an event between threads | plan, drive, photograph, post | ROS topics, backend |
| Remote terminal (`remote_shell.py`, `ssh_proxy.py`) | registry of SSH sessions | connect, type, evict, clean up | Socket.IO, dashboard |
| Dashboard (`apps/ops-dashboard`) | client copy of the twin, a session per tab and in `localStorage`, lists of rows, a floor plan, a terminal | join, snapshot, deltas, reconnect, sign in and out, fetch, change, type | twin, all routes, terminal |

What is hard in this code: handlers that await between a read and a commit
without a lock; an ORM that writes back only the columns that changed, and a
rollback that expires what was loaded; agents with two loops that share a
status; HTTP answers that come too late or never; restarts that forget every
agent's task; pub/sub that keeps nothing for an absent subscriber; expiry set on
a whole hash; buffers uploaded by overlapping tasks; firmware that takes a
command inside the loop of another; threads that hand over a session between
opening and registering it; a server that serves before it is seeded.
`PROJECT.json` lists each hazard at its line.

What makes each component correct:

* dispatch: a mission is audited by the robot its row names, a mission meant
  for one robot stays its own, a scheduled mission is taken, an audit ends;
* edge agent: a saved scan is never given up, the buffer drains where the service
  takes what the agent sends;
* pipeline and alerts: an answered observation was compared, a mismatch raises
  one alert, time stamps tell the truth about the status;
* event bus and engine: an offset is not passed by before its message was
  handled or tried the configured number of times; repetitions are bounded;
* twin: a dashboard that stays connected ends with the state of the twin;
* accounts: a one-time token is honoured once, a reset ends every session, rows
  hold what was last asked for, the trail tells of it, a suspension takes;
* dashboard: a session that ended stays ended, a list shows the tab's own
  change, the floor plan ends with the twin, figures of one answer agree;
* topology and startup: robots learn the seeded bins, the cache catches up, a
  product answered as placed is placed, the start ends;
* scanner: the robot stands still while it is scanned, what is logged was seen
  there, the robot is always answered;
* command line scanner: a rack is photographed with the robot in front of it,
  a bin stored once, its mismatch reported by the run and by the ingest at most
  once each, the run ends;
* remote terminal: no SSH session that was opened runs with nothing to close it.

## Modules

| Module | What it is |
|---|---|
| `MissionDispatch`, `MissionDispatchProofs` | dispatch handlers and agents; theorems |
| `StoreForward`, `StoreForwardProofs` | edge agent, buffer, sync tasks against the service; theorems |
| `AtLeastOnce` | abstract specification of a sender with a store, implemented by `StoreForward` |
| `TwinSync`, `TwinSyncProofs` | events, consumer, hashes, deltas, rooms, dashboards; theorems |
| `ServoController` | firmware and its bridge |
| `RackScanner`, `RackScannerProofs` | extends `ServoController` by the scanner node; theorems about it and about `ScanRun` |
| `Accounts` | tokens and sessions |
| `Administration` | people, settings, preferences, audit trail, access tokens |
| `AlertWorkflow` | alert routes and rescans |
| `ObservationPipeline`, `ObservationPipelineProofs` | extends `AlertWorkflow` by the ingest handler; theorems about both |
| `ScanRun` | one run of `scan.py` |
| `RemoteShell` | terminal, `ssh_proxy.py`, `remote_shell.py` |
| `Statistics` | the figures that routes put together from several statements |
| `Workbench` | the dashboard's sessions in tabs, and its lists |
| `TwinPage` | the dashboard's floor plan |
| `DashboardProofs` | theorems about `Accounts`, `Workbench`, `RemoteShell`, `Administration`, `Statistics` and `TwinPage` |
| `EventBus` | producer, partition, consumer loop |
| `ReconciliationEngine`, `EventBusProofs` | extends `EventBus` by the engine's handler; theorems about the bus under any handler |
| `Topology` | cached tree and products |
| `Startup`, `StartupProofs` | extends `Topology` by boot, seeding and the robots' first fetch; theorems |
| `MC_...` | instances for TLC: constants, one symmetry set |

Two instances compose modules that share no state. `MC_Dashboard` is
`RemoteShell` with `Administration`, `Statistics` and `TwinPage`, `MC_Accounts`
is `Accounts` with `Workbench`: an initial state says which part is followed
(`part`, `followed`), and the others stay as they began, where nothing that their
fairness asks for is enabled. `InstanceFollows` shows of `MC_Accounts` that it
implements the specifications of both its parts.

A definition under a comment `Variant` is an altered action that no specification
uses: a run checks that its property fails with it.


### MissionDispatch

State. `missionStatus`, `missionRobot`, `priority`, `robotStatus` and
`robotActive` are the columns of the two tables; a row that does not exist yet
has status `"ABSENT"`. `session[s]` is the handler that holds a connection of
the pool, with the parts of the request it needs and the column values it has
loaded. `phase`, `status`, `task` are an agent's place in its main loop,
`agent.status` and `agent.mission_id`; `call` and `beat` name the session whose
answer the main loop and the heartbeat loop await. `dedicated` and `raced` are
history variables: the robot a mission was created for, and the missions that
overlapping next-task handlers loaded. No action reads them.

Actions. A handler is two or three actions, split where it awaits the database:
what it loads (`...Begin`, `HeartbeatLoad`, `NextTaskPick`) and its commit
(`...Commit`). The commit writes a column only if the value set differs from
the value loaded (`Flush`), which is what SQLAlchemy's unit of work does and
what decides the outcome of two handlers that overlap. The answer is an action
of its own (`Reply`), because `get_db` commits before the response leaves and
the agent may have given up (`CallTimeout`, `BeatTimeout`) or died by then. A
handler that raises rolls back (`HandlerFails`). `Restart` empties the sessions
and boots the agents again while the tables stay; `RobotDies` silences one.

| Action | Code |
|---|---|
| `RegisterBegin`, `RegisterCommit` | `runner.py` `_register`, `mission_router.py` `register_robot` |
| `NextTaskBegin`, `NextTaskPick`, `NextTaskNone`, `NextTaskCommit` | `_request_and_execute_mission`, `get_next_task` |
| `CreateMission` | `create_mission` |
| `OperatorBegin`, `ReportBegin`, `TransitionCommit` | `start_`, `pause_`, `complete_`, `cancel_mission`, called from the web or by the agent that ends an audit |
| `HeartbeatSend`, `HeartbeatOffline`, `HeartbeatLoad`, `HeartbeatCommit` | `_heartbeat_loop`, `robot_heartbeat` |
| `Reply` with `Answer`, `NoAnswer`, `Ended` | what the agent does with an answer or without one |

Left out: coordinates, battery levels (a low battery is a choice of the
environment for robots in `Draining`), the list of bins, telemetry, the Redis
copy of a heartbeat, columns no property reads. There is one warehouse. A
mission's `created_at` order is the order of its number. A transaction that
updates two rows commits both at once (READ COMMITTED, no `SELECT FOR UPDATE`).

Properties.

* `RowNamesExecutor`: unless next-task handlers overlapped on a mission, the
  robot that audits it, or is shown with it, is the one its row names. This is
  what survives of exclusive assignment without a lock: pauses, cancellations,
  restarts, late answers and stale heartbeats break nothing.
* `DedicatedMission`: a mission created for one robot is that robot's in every
  state, overlapping handlers included.
* `OwnerIsFinal`: a commit never replaces the robot of a mission by another,
  under the same condition.
* `PolledUntilStuck`: a scheduled mission is taken (or cancelled) unless every
  agent that may take it is lost, dead, or docked with a low battery.
* `RowConverges`: registration, next-task and heartbeats race on
  `robots.status`, and still the row of an agent that keeps beating settles on
  the agent's status.
* `AuditCompletes`: an audit under way makes its row COMPLETED at some point,
  whatever an operator does meanwhile, unless a handler, process or robot fails.

### StoreForward

State. `connected` is the flag the heartbeat loop draws anew at every turn. `pc`
and `batch` are the place of the main loop and of each sync task in its coroutine
and the scans of its request; `buffer` the rows of `buffered_observations`;
`stored[o]` how many rows of `observations` hold the scan `o`; `late` the requests
whose sender has given up or died and that may still reach the server.
`ingestible` is chosen once: whether the ids of the agent are ones that
`ObservationIngest` takes (`schemas/observation.py:43`). A scan is a number, in
the order of the buffer's ids (one loop saves them one after another).

| Action | Code |
|---|---|
| `TurnUp`, `TurnDown` | a turn of `_heartbeat_loop`; with the network up it starts a sync task |
| `SyncRead`, `SyncEnd` | `_sync_offline_buffer` up to its post, and what it does with the answer |
| `Scan`, `ScanAnswered`, `Save`, `SaveFails` | an iteration of `_execute_mission_run`, `save_observation` |
| `Serve`, `ServeFails`, `ServeLate` | `create_observation`, `create_observation_batch` up to their commit |
| `Refuse` | the 422 of a body that does not validate |
| `Timeout`, `LoseLate`, `Crash` | an exception instead of an answer; a request that is lost; the container's restart |

A read of the buffer, a save and a deletion are one SQLite transaction each and
one action each. The service stores a batch in one transaction; it fails before
that commit or after it (`ServeFails`), and the work after the commit is left to
a module of its own. Left out: the contents of a scan, battery and coordinates,
the request for a mission (a run may start whenever the agent is idle) and its
report.

Abstract specification. `AtLeastOnce` is a sender that produces items, may keep
them, may drop what it has not kept, and delivers any number of times. The
refinement mapping takes as `fresh` the scans that are only in memory or in a
request, as `kept` the buffered scans that the service does not have.

Properties.

* `BufferKeeps`: `StoreForward` implements `AtLeastOnce`, so a saved scan is
  never given up.
* `DeletedOnlyIfStored`: no row leaves the buffer before its scan is stored,
  whichever task deletes it.
* `DuplicatesBounded`: each task under way and each fault adds one copy of a
  scan at most; there is no other source of duplicates. `Spent` in `Inv` is the
  account that makes it inductive.
* `BufferDrains`: a backlog longer than one batch drains, if the service takes what
  the agent sends (`ingestible`). The agent that `main.py:45` starts calls itself
  `robot-001`, which is no UUID: all it sends is refused, and what it has buffered
  stays for ever. The safety properties above hold for both.

### TwinSync

State. `reported` and `silent` are the world: what each robot or bin reports
now, and who reports no more. `events` and `deltas` are the two Redis
subscriptions, `twin` and `ttl` the hashes and the clock of the robots' hash,
`hand` the event the consumer has stored and not yet announced, `posts` the
heartbeat requests between their store and their event. `session`, `snap`,
`wire`, `view` are a dashboard's connection, the join under way, the messages on
the way and the page's copy. `unsure` and `missed` are history: the keys of
which a call failed since the consumer stored them, and those whose last delta a
client's snapshot has hidden.

| Action | Code |
|---|---|
| `Notify`, `PostHeartbeat`, `PostDelta`, `PostEvent`, `PostFails` | the mission service's heartbeat and observations; `twin_router.py` |
| `Store`, `PublishDelta`, `HandlerFails`, `SubscriptionLost`, `Resubscribe` | `consumer.py` |
| `Emit`, `ListenerEnds` | the listener of `socket_server.py` |
| `Join`, `ReadRobots`, `ReadBins`, `SendSnapshot`, `SnapshotFails`, `Disconnect` | its `join_warehouse`, `useWebSocket.ts` |
| `Receive` | `useTwinStore.ts` |
| `Expire` | `HSET` with `EXPIRE` on the hash of the warehouse, `twin_state.py` |

Left out: rack states, which nothing publishes; coordinates and inference, a
payload is a number; the REST routes that read the hashes; several processes of
the service (the listener is one per process).

Properties. `NothingMissed` relates five places: whatever order join, snapshot
and deltas take, a joined client shows or is about to be sent the stored payload
of every key that is `Settled`, that is stored, confirmed by the consumer and
outside of `unsure`, unless it is in `missed`. `Told` (the last announcement of a
settled key is of what is stored) and `SnapshotTells` (where none is under way, a
join that has read the key has read that) make it inductive. `ShowsTwin` is its
limit.
`FleetGone`: the positions of a fleet that is silent as a whole disappear. Its run
has one robot, and no property is about a robot that is silent alone: the next
heartbeat of another one extends the hash for both (see the disagreements).

### ServoController and RackScanner

`ServoController` keeps `sent` (one thread of the bridge per command), `pos`,
`active` and `frames`, the moves under way: the firmware polls its HTTP server
inside the loop of a move, so a command starts a move inside the move, and the
outer one goes on afterwards with directions computed long before (`Handle`,
`Loop`). `Drop` is a command that the bridge logs and forgets, `Reboots` the
firmware's `setup` once more, after a loss of power or when its WiFi stays away:
it forgets the moves, and a STOP as well.

`RackScanner` adds the node of `rack_scanner_node.py`: its state machine
(`state`, `location`), what it believes of the camera (`pitch`, `centre`), what
it has seen (`found`), the files (`csv`), the backend. `BotStatus` and
`CameraSystem` are the subscriptions, the disjuncts of `ProcessLoop` are the
branches of the timer callback, `Reach`, `Stop`, `Crash`, `Launch` the world. A
sleep takes any time, so nothing relates the servos to the node. Left out:
pictures (a code in front of a camera that faces the rack may be decoded or
not), confidence, the preview window, the LED. `load_database` gives the
products of the API, which carry no place, the first place of all; that is
`Databases`.

Properties. `StandsStill`, `Truthful` and `FilesFirst` (in `Inv`): the robot
stands at the rack until its scan is over, a logged code was seen there, the
backend knows nothing that the files do not have. `Answered`: a waiting robot is
sent on, unless its message is one the node drops (unreadable, while it parked, no
camera, lost with the process): those cases it only delimits. `StopDrains`: a STOP
ends every move on the stack, the ones that would turn for ever included.

### Accounts

A call of `auth_service.py` is two steps, what it reads and checks
(`LoginReads`, `RefreshReads`, `VerifyReads`, `ResetReads`) and what it writes
with its commit (`...Ends`), or one when nothing can come in between that
matters. `open` holds the calls between the two; `Fails` rolls the tables back
but not Redis. A token is a number; its hash, passwords, e-mail and time are left
out, an expiry is an action. Because the failed logins that are counted in the
user's row, the lock, and the revocation after a reused token are rolled back by
the exception that follows them, none of them is in the model's tables.

Properties. `SingleUse`: a refresh token, reset link or challenge is honoured
once, unless two calls had read it before either was committed (`raced`: the code
takes no row lock, and the two refreshes then both succeed).
`NoneSurvivesReset`: a session older than the last password reset is never live.
`RevokedForEver`: no call brings a revoked session back.

### Administration

What accounts are besides tokens: `row` holds the rows of users, the
organization and the preferences, `holds` the roles, `tokens` the access tokens
with the permissions they carry, `trail` the audit log. A handler is a read and,
after an await, a write (`UpdateUserReads` and `UpdateUserEnds`, `SettingsReads`
to `SettingsLogged`, `PrefReads` and `PrefUpdated` or `PrefInserted`), and others
commit in between: `update_user` writes back every column it may change, while
settings and preferences are ORM objects whose flush writes the columns that
differ from what was loaded (`Changed`). A change of settings commits before its
audit row (`SettingsCommits`, `SettingsRefreshed`, `SettingsLogged`), and the row
tells of what was read back in between. `Login`, `LoginChallenges`, `Verify` and
`LoginEnds` issue a token; nothing but `Expire` takes it back, a suspension and
a new role included. Left out: names, texts, other organizations, the listing of
rows, invitations.

Properties. `AnsweredStands`: a column holds what was last asked of it, unless
the last handler to write the row had read it before another's commit.
`LoggedIn`: no token without its login in the trail. `TrailShows`: once all is
answered the trail shows the settings as they are, however their changes
overlapped. `SuspensionTakes`: who stays suspended has in the end neither a token
nor a handler at work, a second factor that was pending included.

### AlertWorkflow and ObservationPipeline

`AlertWorkflow` is the table `alerts`, the missions that rescans add, and one
handler per caller between load and commit: `Load`, `Commit` with `Flush` as in
MissionDispatch, `RescanBin`, `RescanAlert`, `EndRescan`, `CallFails`.
`create_rescan_mission` adds one mission under one id twice (`Added`), so that
the flush fails and the alert updates of the same transaction roll back.

`ObservationPipeline` extends it by the ingest handler: `Store` commits a
request's rows at once, then each row is announced and compared (`Compare`), a
mismatch raises an alert in a commit of its own (`Raise`). If that fails
(`RaiseFails`) the rollback expires every row of the session, and the next row
that is read outside of an await raises (`ReadExpired`): the sender gets a 500
for rows that are stored. A failed lookup aborts the transaction and the rows
after it compare with nothing. Left out: images, confidence, pagination, telemetry.

Properties. `AnsweredIsDone`: after a success every row of the request was
compared, each mismatch has its alert, and without faults exactly the right two
events were published. `AlertsAreReal`: an observation has one alert at most,
and none if its bin could only be right. `StampsAgree`: overlapping handlers
leave no status without its time stamp. `EscalationStays`: a handler that loaded
a row before an escalation does not undo it. `RescanIsScheduled` is violated.

### Statistics

The dashboards' figures. `call` is a handler with the statements it has run
(`Execute`), between which others commit (`RaiseAlert`, `SetAlert`,
`SetMission`, `SetRobot`) and midnight passes; the day is read off the clock
before the first. `reconciliation_results` has no writer in any process that
runs, so every accuracy is the constant that the code gives for no rows. No route
makes a mission FAILED and nothing here raises a CORRECT_PLACEMENT alert, so a status
and a filter that the statements name are left out.

Properties, both in `Figures`. `PointsExact`: the points of a trend are the days
that were asked for, and each counts its day's alerts once. `FiguresAgree`:
figures of one answer differ by no more than what was committed while it was put
together.

### ScanRun

One run of `scan.py` from `CreateMission` to `CompleteMission`, with the thread
that hears ROS (`Hear`, `SetEvent`: two steps, between which the run may go on
to another target), the robot (`Arrive`, external) and the unified service, whose
handlers answer, refuse (`HandleCall`), or are too slow and handle the call later
(`HandleLate`). `FetchPlan` with `ParseTopology` chooses the racks of the scope,
in the order of the topology; without a topology one rack (`FirstRack`) takes
everything. `_status_callback` compares by substring, so that "R10" counts as
"R1" (`Within`). `DecodeFails` is a frame that OpenCV cannot resize or decode:
only a missing library is caught, so the run ends there and its mission stays
open. Left out: the picture, voice, exports, login.

A mismatch is judged twice. The run compares what it saw with the inventory it
fetched (`Expects`, `inventory.sku`) and posts an alert (`CreateAlert`, counted in
`alerts`). The ingest of the very observation compares it with `BinCode`, that is
`COALESCE(bins.qr_code, inventory.sku)`, and raises an alert of its own
(`Mismatched`, counted in `raised`), which the run never hears of. `QrCode` and
`Inventory` are constants that need not agree: the seeder fills the two columns
from different columns of the sheet (`seeder/runner.py:202`, `:233`). After a
timeout the ingest may have stored the observation and not its alert (`HandleLate`
chooses `whole`).

Properties. `SeenAtRack`: with ROS a rack is photographed with the robot in
front of it until the first drive that timed out, except for the late arrival of
an earlier run. `StoredOnce`: however late the backend is, a bin has at most one
observation of the run and at most two alerts, one that the run posts and one
that the ingest raises, the latter only where what was recorded is not what the
bins table has, and exactly then if nothing failed. `ExitTells`: after an exit code
of 0 (`Report`) no alert of the run was or will be stored, and one that the ingest
raised for a bin tells that the table and the inventory differ there; after one of
2 there is one of the run, if every bin had an expectation and nothing failed.
`Ends`: the run ends whatever becomes of robot, ROS and backend.

### RemoteShell

The terminal of `AdminOverview.tsx` (`Connect`, typed lines), `ssh_proxy.py` with
a thread per message, a relay thread per session and the cleanup thread
(`OpenSession`, `Add` with eviction, `FindIdle`, `RemoveIdle`, the relay's end),
and `remote_shell.py`, which runs every line it hears. A session is opened outside
of the registry's lock and registered inside it; the model keeps the two apart.
`SSHSession.connect` may also fail after its client is connected, at the shell or
at the start of the relay, and returns without closing it: then `link` is
`"left"`, nothing holds that client and nothing closes it. `joined` says whether
the proxy is in the room (`JoinRoom`, `Leave`): what is said while it is not is
said to nobody. Left out: the bytes, and who may connect.

Properties. `NoneLeft`: the registry keeps its limit, and a session that was opened
is always held by the registry or by the thread that just opened it. `QuietEnds`: a
session that was opened and stays quiet is closed in the end. Neither is about a
client that is `"left"`.

### Workbench and TwinPage

`Workbench` is a browser. `memory` is the session of each tab's store, `storage`
the copy in `localStorage` that the tabs share, `flight` the requests with the
token they were sent with. A request is served (`Serve...`), possibly not at all
(`ServeFails`), and its answer reaches the page (`SetUser`, `Refused`,
`ListArrives`, `Changed`, `AlertChanged`) in any order, also when another session
has begun since or the page is gone. `rows` stands for what a list shows of one
row, by the number of its changes.

Properties. `EndedStays`: no tab finds in `localStorage` a session that another
has ended. `ListFresh`: a list with nothing under way shows what the tab's own
last change made of the row, or something later, unless its last fetch failed or
an older answer came last. `SessionKept`: a tab loses a good session to its own
doing alone, or to the answer to an older one, which is how the interceptor of
`client.ts` ends sessions it was not told about.

`TwinPage` is `DigitalTwin.tsx`, which has two sources that know nothing of each
other: a fetch of two halves (`Reads`, `FetchArrives`, `RobotsElsewhere`) and the
store that follows the socket (`Receive`). `PlanShows`: with nothing under way the
plan shows what the twin has, but for what an older answer, the mission routes or
a rescan set back (`setBack`) since the last message of that kind.

### EventBus and ReconciliationEngine

`EventBus` is `packages/event-bus`: `Publish` with its attempts (an attempt
whose answer is missed may have arrived), `Fetch`, the attempts of the handler
with `Fails`, `Commit`, `CommitFails` (a failed commit counts as a failed
attempt and runs the handler again), `DropFails` (the commit after the last
attempt is outside the `try`: `run` ends), `Crash`, `Restart`.
`ReconciliationEngine` is the handler: `DoCompare` with the rules of
`_determine_result`, `CommitResult`, `CommitAlert`, `PublishOutcome`; each may
fail, and an attempt begins again with the comparison. One partition and one
consumer; the broker is external.

Properties. `NothingSkipped`, with `PositionBound` and `TriesLeft` that make it
inductive: the group's offset covers only messages handled or tried
`MaxRetries + 1` times. `HandledToTheEnd`: a handled message has its result, its
alert if it needs one, and its event. `MisplacedElsewhere`: goods are not said
to belong where they were seen, in a bin with one kind of goods.
`ExtraNeedFaults`: every second result or alert has a failure or a second copy
of its own; `Paid` in `Inv` is the account that makes it inductive.
`CatchesUp`: a message nobody can handle does not block the topic.

### Topology and Startup

`Topology` is the tree behind the read-through cache (`GetCached`, `ReadTree`,
`CacheTopology`, `Expire`), the two routes that extend it (`CreateZone`, and
`SeedDemo`, which stops after its first zone), the sheet's seeder (`SeedSheet`),
and the products with their places: a creation commits the product and then its
place, a deletion is two statements and waits for rows that another deletion has
locked. A zone stands for the tree below it, since only the seeder ever adds
anything below.

`Startup` is one process: `Boot`, `CreateTables` (serves after the last failing
try, too), the background task (`Ping`, `SeedAuth`, `SeedWarehouse`,
`StartTwin`, `StartSimulator`), the robots' first fetch (`FetchTopology`,
`Hear`, `HearNothing`), clients, and `Die`. The schema is that of `init.sql` or
what `create_all` makes of an empty database, which lacks the unique
constraints and server defaults the seeder relies on.

Properties. `PlaceKept`: a creation that was answered with a place has it until
the product is deleted, and no inventory row is left without its product.
`RobotsKnowSheet`: robots of a seeded process know the sheet's bins unless a
call failed or a client had an unseeded tree cached. `CacheConverges`: the cache
shows the committed tree again and again. Only an hour's expiry makes it so:
`PROJECT_MASTER_DOCUMENTATION.md:183` has layout updates invalidate the cache, and
the one caller of `invalidate_topology`, the demo seeder's route, fails before that.
`StartEnds`: the background task ends, ready or not. A twin or simulator that fails
to start is left out: the handler that it would run into is that of every other
failure of the task.

## Runs

| Run | Instance | Shows |
|---|---|---|
| `Dispatch_faults` | 2 robots, 1 mission, 3 sessions, 1 operator call, 1 fault, 1 restart | `Inv`, `RowNamesExecutor`, `DedicatedMission`, `OwnerIsFinal` under every interleaving of the handlers |
| `Dispatch_audit` | 1 robot that may drain and die, 1 mission, 2 sessions, 1 operator call, 1 fault | `AuditCompletes`, `PolledUntilStuck`, `RowConverges` under fairness |
| `Store_drain` | an agent whose payloads the service takes or refuses, 3 scans, batches of 2, 2 sync tasks, 1 fault | `Inv` with `Spent`, `DuplicatesBounded`, `DeletedOnlyIfStored`, the refinement `BufferKeeps`, `BufferDrains` |
| `Twin_join` | 1 scanner, 1 bin, 1 dashboard, 2 payload changes, queues of 2, 1 fault | `Inv` with `NothingMissed`, `Told`, `SnapshotTells`; `ShowsTwin`, `FleetGone` |
| `Scanner_racks` | 2 racks, 1 code, angles 0..2, 1 command in the bridge, moves 2 deep, 1 fault | `Inv`, `Answered`, `StopDrains` |
| `Accounts_calls` | 1 user, 3 sessions, 1 reset, 1 challenge, 2 open calls, 1 fault; or a browser with 2 tabs, 2 logins, 3 requests, 2 of them in flight, a row changed once | `Inv`, `RevokedForEver`; `WorkbenchInv`, `SessionKept` |
| `Pipeline_alerts` | 2 requests of up to 2 observations, 2 callers, 2 calls, 1 fault | `Inv`, `AnsweredIsDone`, `EscalationStays` |
| `Pipeline_rescan` | the same without faults | expected violation of `RescanIsScheduled` |
| `Scan_run` | 3 racks ("R10" begins like "R1"), 3 bins (one with a code that is not its inventory's, one without an inventory), 4 scopes, 2 faults | `ScanRunInv`, `StoredOnce`, `Ends` |
| `Dashboard_parts` | 2 SSH sessions with room for 1 and 1 line; or 2 people, 2 changes of 1 column asked for, 2 handlers, 1 failure; or 2 alert rows, a trend of 2 days, 2 commits of others, 2 midnights; or a plan of 1 robot and 1 bin with 2 payloads and 2 visits | `BoardInv` (the invariants of the four parts), `QuietEnds`, `TrailShows`, `SuspensionTakes`, `Figures` |
| `Bus_engine` | 4 messages, 2 attempts to send, 1 retry, 2 faults | `Inv`, `ExtraNeedFaults`, `CatchesUp` |
| `Startup_topology` | 1 robot, 1 client, 2 callers, 1 zone code (the demo seeder's), 1 product with 1 bin of the sheet, 2 tries each, 1 fault, 1 restart | `Inv`, `RobotsKnowSheet`, `CacheConverges`, `StartEnds` |

Every property has a mutant in `PROJECT.json`: an altered action of the model,
as a plausible bug would alter the code, under which its run fails.

Bounds. What overlaps overlaps in pairs here: two handlers on one row, two sync
tasks, two SSH connects, a join and an update, two deletions. So two actors and
one row (one mission, one key, one token) show each interleaving, one fault each
place a fault can strike, and queues of two a second message behind the first.
Where order matters there are more: three scans for batches of two (a second
batch), three racks (one between two that are alike), four messages (a repeated
one behind another's failure). A third session in `Dispatch_faults` leaves a
heartbeat between two next-task calls. What `Proofs` lists holds for every value
of the bounds. Two robots were tried in `Dispatch_audit`
and hold, but take longer than a run of this list should. `CHECK_DEADLOCK FALSE`
stands where the system may come to rest: bounded calls are used up, a robot is
dead, a run has ended. `SYMMETRY` is used for robots and sessions of
`Dispatch_faults` only, a run without liveness.

Fairness. Weak fairness for what a scheduler or an event loop owes: the steps of
a coroutine, a handler, a thread or a timer that can go on; strong fairness where
a step is enabled now and then only: a connection of the pool, a row lock, which
PostgreSQL hands out in order, a queue with the model's bound, the firmware's
poll, and the node's timer among its callbacks. No fairness for robots that
arrive, operators, faults, restarts of a process, or messages that are lost. In
`Dispatch` the polls of an agent and the answers are fair, its battery is not.
In `EventBus` only the consumer's own loop is; that it is restarted is not
assumed.

## Proofs

Eight modules hold theorems. Each theorem is about every value of the constants
that the assumptions named in the models allow, so about any number of robots,
users, requests, racks or dashboards and any bound on their steps and faults.

| Module | Theorem | States |
|---|---|---|
| `MissionDispatchProofs` | `Invariance` | `Spec => []Inv` |
| | `TypeCorrect` | `Spec => []TypeOK` |
| | `ExecutorCorrect` | `Spec => []RowNamesExecutor` |
| | `DedicationCorrect` | `Spec => []DedicatedMission` |
| | `OwnerCorrect` | `Spec => OwnerIsFinal` |
| `StoreForwardProofs` | `Invariance` | `Spec => []Inv` |
| | `DeletedCorrect` | `Spec => DeletedOnlyIfStored` |
| | `DuplicatesCorrect` | `Spec => []DuplicatesBounded` |
| | `Refinement` | `Spec => BufferKeeps`, that is `Delivery!Spec` |
| `EventBusProofs` | `InvCorrect` | `Spec => []Inv` of `ReconciliationEngine` |
| | `NothingSkippedCorrect` | `Spec => []NothingSkipped` |
| | `ExtraCorrect` | `Spec => []ExtraNeedFaults` |
| `TwinSyncProofs` | `InvCorrect` | `Spec => []Inv`, with `NothingMissed` |
| `DashboardProofs` | `InvCorrect` | `Spec => []Inv` of `Accounts`, with `SingleUse` and `NoneSurvivesReset` |
| | `RevokedCorrect` | `Spec => RevokedForEver` |
| | `WorkbenchCorrect` | `WorkbenchSpec => []WorkbenchInv`, with `EndedStays` and `ListFresh` |
| | `KeptCorrect` | `WorkbenchSpec => SessionKept` |
| | `InstanceFollows` | `MCSpec => Spec /\ WorkbenchSpec` |
| | `BoardCorrect` | `BoardSpec => []BoardInv`, with `NoneLeft`, `AnsweredStands`, `LoggedIn`, `PlanShows` |
| | `TrailCorrect` | `BoardSpec => []TrailShows` |
| | `FiguresCorrect` | `BoardSpec => []Figures` |
| `ObservationPipelineProofs` | `InvCorrect` | `Spec => []Inv`, with `StampsAgree` and `AlertsAreReal` |
| | `AnsweredCorrect` | `Spec => []AnsweredIsDone` |
| | `EscalationCorrect` | `Spec => EscalationStays` |
| `RackScannerProofs` | `InvCorrect` | `Spec => []Inv`, with `StandsStill`, `Truthful`, `FilesFirst` |
| | `ScanRunCorrect` | `ScanRunSpec => []ScanRunInv`, with `SeenAtRack` and `ExitTells` |
| | `StoredOnceCorrect` | `ScanRunSpec => []StoredOnce` |
| `StartupProofs` | `InvCorrect` | `Spec => []Inv`, with `PlaceKept` |
| | `RobotsCorrect` | `Spec => []RobotsKnowSheet` |

None of the properties above is inductive by itself; what follows is what each
needs besides. The `Inv` of a model is inductive, and a run checks it on the small
instance as well. For the command line scanner and the parts of the dashboard the
runs check the properties, and the proof modules strengthen them: `RunInv`,
`DeskInv`, `ShellInv`, `AdminInv`, `FiguresInv`, `PlanInv`.

**Dispatch.** An answer on its way (`"done"`) makes a robot audit a mission, and
a heartbeat on its way makes a row show one, so both must count as claims
already: `Claims(r, m)`. A commit is safe only if the handler that has loaded a
mission still sees the row as it is: `Ownership` and `Dedication` say so for the
handlers in stage `"picked"`. A new mission is safe only if nothing refers to its
number yet: `NoDanglingMission`. Most actions are *quiet*, they change neither
`missionRobot` nor the set of loaded missions and add no claim (`QuietSteps`),
and a quiet step keeps `Ownership` and `Dedication` (`QuietKeeps`). Three are not
and have a lemma each: `CreateKeeps`, `PickKeeps`, `CommitKeeps`. `OwnerCorrect`
follows from `Ownership` in the state before the step.

**Edge agent.** `DeletedOnlyIfStored` needs to know that an answer that says
"accepted" was given for stored scans (`BatchSafe`), and the refinement that a
task's batch is still buffered or stored when it is sent, that the main loop
holds nothing but the newest scan (`MainHolds`), and that no scan is anywhere
before it is taken (`Known`): together `Shape`. The lemmas `UnderWay...` say for
each action how the set of scans under way changes; `DropStep` and `StoreStep`
turn that into a step of `AtLeastOnce`. `DuplicatesBounded` is a count, and holds
because of what can still happen: for each scan, the copies stored, the late
requests that carry it and the sync tasks that may still store it without a
further fault are together at most `Cardinality(Syncs)` for no fault and as many
again for each (`Spent`). A fault is what makes a task able to store a scan twice;
a task that has stored its batch deletes it before it reads again.

**Event bus and engine.** The bus lemmas do not know the engine: `EngineIsHandler`
shows that each step of the engine is, for the bus, a step that goes on, returns
or fails (`HandlerStep`), and `TypeStep`, `PositionStep` hold for any such
handler. `NothingSkipped` is not inductive, since the offset is set to the
consumer's position: `PositionBound` says that everything behind the position is
dealt with, `TriesLeft` that a message is passed over for its tries alone.
`HandledToTheEnd` needs `HandlerAt`, what each step of the handler rests on;
`Grows` (results, alerts and events are only added) carries it over the steps
that concern another message. `ExtraNeedFaults` needs `Paid`: a copy of a message
that a consumer has come to, counted from where the next one would begin, pays
for one result, each fault for one more, and each result for one alert.

**Twin.** A delta may be announced late, overtaken by another store of its key, or
hidden by a snapshot that was read before it; `Settled(k)` names the keys of which
none of it is open. A key that is settled after a step was so before it, with the
same payload, unless the consumer has just stored it (`StillSettled`); then the
consumer is about to announce that very payload (`StoreTells`), so that `Told`
holds again. The listener's step moves one announcement from the channel to the
rooms (`EmitStep`); every other one leaves a client what it is about to show, or
lets it join with the snapshot it has read (`JoinedStep`), which by
`SnapshotTells` has the stored payload.

**Accounts.** A call reads, awaits and commits, and a reset or a refresh may come
in between. Rows are only added, and a revoked row stays so (`Later`, from which
`RevokedCorrect` follows). `Known` has every token that was read or honoured in
its table, and lets a reset reach no session that is yet to come. `Spent` is
`SingleUse` with its reason: an honoured token is good for nothing and no call
holds it any more. Steps are quiet, read a token, or honour one, and each kind has
its lemma for `Spent` (`SpentStep`).

**Pipeline and alerts.** For the columns of an alert, a handler between load and
commit has what the row once was: `LoadedAgrees` says it was a consistent row and
`Older` that the row has only gained marks since, so that a flush of the changed
columns leaves a consistent one (`FlushKeeps`). For the requests, `Apart` gives
each its own rows, `InOrder` and `Progress` say how far each handler is and which
alert is still to come, `Sourced` ties alerts and events to compared rows.

**Scanner.** `StandsStill` needs `Waiting`: only a robot that waits has a message
in the inbox, so that a "Reached" the node heeds names the rack the robot stands
at. `Truthful` needs `FoundHere`: whatever is found lies where the robot stands.
The types of the servos, nested moves and reboots included, are lemmas of their
own (`LoopType`, `HandleType`, `RebootType`).

**Command line scanner.** `RunInv`. `StoredOnce` counts rows of the backend, so it
needs to know of each bin which calls were made for it and what became of them
(`BinsCalls`: handled, late or lost, never two of these; an alert of the ingest
comes with the observation and only if what was recorded is `OffTable`), that a
late call carries what the run has recorded (`LateFits`, `Saw`), and that no bin is
both recorded and still planned (`BinsOnce`). That no bin is planned twice comes from the
topology: `ParseTopology` takes the racks of the scope in the order of their
indices, and `AscendingFacts` says that this order names each index once. It exists
for every finite set of indices (`OrderExists`), as there is no smallest set without
one (`Least`, from `NatLessThanWellFounded`): a set of counterexamples stands in for
the induction theorems, which take an operator. `SeenAtRack` needs `DriveTells`:
with ROS, and until something excuses what follows, the arrival that the run waits
for is asked for, or on the topic, or heard, or told by the event, and in exactly
one of these places (`Awaited`), and nothing of it is left when the next rack is
begun (`Quiet`). `ExitTells` follows from `ExitFits` (the exit code and the results)
and `BinsCalls` (the results and the two kinds of alerts).

**Sessions and lists.** `DeskInv`. `EndedStays` needs `LoginsFresh`: the session
that a login's answer brings was never in a tab or in `localStorage`, so that
storing it brings no ended session back. `ListFresh` needs `WillShow`: where a page
shows less than its tab's own change, a fetch is under way that `Covers` it, that
is one that is not served yet, or was served after the change; and an answer that
is older is either not shown (`newest`) or followed by one that covers.
`PageAsks` ties what is under way to the list the page shows. `SessionKept` needs
`RefusedStays`: a token that was refused is not good any more.

**Terminal.** `ShellInv`. `NoneLeft` needs `ConnectsApart`: no two handlers connect
for the same id, and none for an id of the registry, so that the session a handler
has opened and not registered yet is its own, and a connect that fails leaves no
registered session behind.

**People and settings.** `AdminInv`. `AnsweredStands` needs `CallFits`: a handler
that is not late has read the row as it is, so what it writes back next to the
columns it was asked for is what stands there. `TrailShows` needs `TrailComes`:
unless an audit row failed, the trail shows the settings or a handler is at work
that has committed and will log what it reads back (`SeesToIt`).

**Figures.** `FiguresInv`. `FiguresAgree` compares cardinalities of sets that
others change between two statements: `CountsAgree` follows the number of open
alerts through each commit, which moves it by one at most. `PointsExact` needs that
the day was read off the clock before the first statement and only counts up.

**Floor plan.** `PlanInv`. `PlanShows` needs `WireTells` (the last message of a key
that is on the way, or else the copy, has what the twin stores), `NothingAhead`
(no one shows what was never stored; payloads only grow) and `FloorFollows` (the
page shows no less than the copy, but where something set it back).

**Topology and start.** `PlaceKept` needs `CallsKnow`, what a creation or deletion
under way relies on, `RobotsKnowSheet` needs `Ordered` (which stages of the start
imply a seeded sheet) and `SheetShown` (who may have read a tree without it).

Assumptions. They are what the code's configuration gives: bounds are numbers,
sentinels (`NoRobot`, `NoCall`, `None`, `Main`) are no members of the sets they
stand beside, a batch has at least one scan, there is a sync task, an
observation names a known bin, keys of robots, scanners and bins differ, the
road is no rack, a topology lists a bin once (its id is a primary key). TLC
evaluates every one in a run.

Only model-checked are the liveness properties, since `ENABLED` and fairness are
beyond the prover here (`AuditCompletes`, `PolledUntilStuck`, `RowConverges`,
`BufferDrains`, `ShowsTwin`, `FleetGone`, `Answered`, `StopDrains`, `CatchesUp`,
`CacheConverges`, `StartEnds`, `Ends`, `QuietEnds`, `SuspensionTakes`), and the
violation of `RescanIsScheduled`. Every invariant and every action property that a
run checks is a theorem.

## Disagreements between the code and its documents

One is a run: `Pipeline_rescan` finds that a rescan whose handler does not fail
schedules nothing (`RescanIsScheduled`), because `create_rescan_mission` adds
one id twice.

The others were met while modelling, and are in the model as the code has them:

* A mission that is COMPLETED or CANCELLED can be started again
  (`mission_router.py:84`; `PROJECT_MASTER_DOCUMENTATION.md:194` has them final).
  `AuditCompletes` therefore says "at some point".
* The watchdog of `:195` there has no caller. A mission of a lost robot stays.
* A mission started from the web becomes IN_PROGRESS and is handed to nobody.
* An embedded agent with an empty battery docks and polls no more
  (`simulator/runner.py:157`; its docstring at `:70` has it cycle for ever).
* All the shipped edge agent sends gets a 422 (`apps/robot-simulator/main.py:45`,
  `schemas/observation.py:43`), so its scans are lost and its buffer never drains,
  although `PROJECT_MASTER_DOCUMENTATION.md:501` has it synced.
* A scan that is answered with an error and not with a lost connection is
  neither sent again nor buffered (`robot_agent.py:174`;
  `PROJECT_MASTER_DOCUMENTATION.md:501`), and duplicates are not discarded (`:491`).
* The time to live is one for the whole hash (`twin_state.py:123`; the docstring
  at `:92` lets stale robots disappear one by one).
* A servo move overtaken by another can end beyond its target and step on until
  a STOP comes (`esp32_servo_controller.ino:159`); with `SERVO_SPEED` 20 a step
  takes about 42 ms, so a sweep outlasts the node's sleep.
* `scan.py:402` takes "Reached R10" for "R1", and an event set late for the next
  rack (docstring at `:365`).
* A mismatched bin of a `scan.py` run gets two alerts: the ingest raises one
  (`observation_router.py:121`) and the run posts another (`scan.py:764`). They
  judge by different columns, so a run may exit with 0 and its bins have alerts.
* `SSHSession.connect` returns False for a client it has connected and not closed
  (`ssh_proxy.py:93` to `:128`).
* A layout that changes does not invalidate the topology cache
  (`PROJECT_MASTER_DOCUMENTATION.md:183`): a new zone is served up to an hour late.
* The consumer's comment promises a dead letter topic; a message is dropped.
* The comment at `ssh_proxy.py:216` has eviction close an idle session; it closes
  the oldest one.
* `seed-demo` fails after it has committed its first zone (it hands a UUID to a
  schema that wants a string), although `tests/integration/
  test_topology_service.py:143` expects 200.
* A client that asks for the topology before the seeder is done has an empty
  tree cached for up to an hour, and the embedded robots, which ask once, get no
  bins (`main.py:156`). On a database without `init.sql` the sheet is never
  seeded, and the service reports ready.
* A restart seeds the old place of a product that was moved or deleted
  (`seeder/runner.py:229`), which gives it two bins.
* A retry loop around the seeders never repeats (`main.py:120`), since both keep
  their errors; `_startup_error` is a local of `lifespan`, so the readiness route
  never sees it.

* An audit row that fails to flush leaves the session unusable, so that the
  caller's commit fails too, although `core/audit.py:110` says that audit failures
  never crash the request. `AuditLog(metadata=...)` (`:97`) sets an attribute that
  is no column (the column's attribute is `meta_data`): details are never stored.
* `update_user_role` has the comment "Revoke existing roles"
  (`admin_router.py:184`) and removes only the role it then gives: roles add up.
* A suspended user's tokens, and a second factor that is pending, work until they
  expire; Log Out never tells the server; `login` returns no refresh token.
* `compliance:read`, which the audit log asks for, is in the seeded permissions of
  `ENTERPRISE_ADMIN` alone (`auth_repo.py:224`).
* The dashboard calls routes that do not exist or refuse what it sends: PATCH where
  `admin_router.py` has PUT (`client.ts:390`), `/observations/pending`
  (`observations.ts:22`), alerts without the warehouse and the type that
  `alert_router.py:57` requires (`ReportIssuePage.tsx:56`).
* An outbound scan of an unknown code shows the first catalogue item
  (`InventoryManagement.tsx:213`).
* `reconciliation_results` has no writer, so all accuracies are constants.
* On the floor plan a bin that is missing from the REST answer never appears, a
  failed fetch leaves none, the fallback to the mission routes replaces live
  robots, and the UNSCANNED of a rescan is undone by any bin's delta.
* `scan.py` exits with 0 when racks were not reached, since these are no issues,
  and leaves the mission it created SCHEDULED when its scope has no rack.
* `remote_shell.py` also runs lines that were typed for an SSH session.
* A reboot of the firmware forgets a STOP.

## Not modelled, and why

* The microservices, as systems of their own. Much of their text is the unified
  service's: `auth_service.py`, `auth_repo.py`, `mission_router.py`,
  `topology_repo.py` and `twin_state.py` are the same byte for byte, the twin's
  consumer, the auth, admin and alert routes but for an import. A definition that
  models such text stands for every copy of it; in `PROJECT.json` it names the
  unified service's, and where two definitions would name the same lines one of
  them names the other copy. What differs is not modelled: the mission service's
  session flushes before each query; the twin service's listener logs each delta
  with `event=` (`socket_server.py:211`), which structlog refuses, so that it
  stops after the first; the reconciliation service's rescan posts a mission to
  another service. The mission service's class with a Redis lock and a watchdog is
  instantiated by nobody.
* The outbox: its columns are written and no relay reads them.
* The pages of the dashboard other than the terminal, the floor plan, the login
  and the lists of `Workbench`: they show what a route returns. The token refresh
  of `client.ts` never runs, because no login response carries a refresh token.
* The simulator's clients (`mission_client.py`, `observation_client.py`,
  `topology_client.py`): `models.py` lacks names that they import.
* Invitations (the call raises a `TypeError`), cryptography, configuration,
  deployment files.
* REST reads other than those of `Statistics`: they change no state.

## Plan

Done: dispatch, edge agent, twin, bus and engine, pipeline and alerts, accounts
and administration, topology and startup, scanner and servos, command line
scanner, terminal, figures and dashboard, with the theorems above.

Each invariant and action property of the runs is proved. What would say more:

* `RescanAlert` and the ingest handler share the table of alerts: that a rescan's
  rollback leaves no mark behind, as a theorem of `ObservationPipeline`;
* the bus under its handler as a refinement of a topic that is read to the end at
  least once, and the twin as one of a map with delayed copies. The safety of both
  is in `NothingSkipped` and `NothingMissed`; what the abstract specifications
  would add is liveness, which stays with TLC.
