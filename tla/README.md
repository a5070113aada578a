# Galahad: a verification development

Galahad runs users' applications in *virtues*: small Xen guests that are placed
on *valors*, EC2 instances with Xen, and that can move from one valor to
another.  Excalibur, a Flask server, answers the users' and the administrators'
requests.  It keeps users, roles and virtues in LDAP, and valors, virtue rows,
transducer commands and acknowledgements in RethinkDB.  On each valor a service
called Gaius follows RethinkDB's changefeeds and runs `xl`.  Inside a virtue,
Merlin follows a changefeed of its own and configures sensors and actuators,
one of which is the netblock kernel module, a small firewall.  Users open the
applications in their virtues from Canvas, a desktop in a web page, and
operators watch all of it in the Blue Force Tracker, which has a server and a
set of dashboards of its own.

No transaction spans these stores, and the only lock of the server is the one
around the allocation of guest addresses.  The specifications in this directory
are about what can go wrong in between.  Line numbers refer to `src/`.

## 1. Inventory

| Component | State | Operations | Correct when |
|---|---|---|---|
| Guest address allocation (`excalibur/website/valor.py` 621-797) | `galahad` table, `rethinkdb_lock` | `add_virtue`, `add_valor`, `get_free_guestnet`, `remove_virtue`, `remove_valor` | no two rows own an address; the lock is given back on every path |
| Virtue lifecycle (`excalibur/website/apiendpoint.py` 178-385, `apiendpoint_admin.py` 652-711, `valor/gaius/rethink_client.py` 35-66) | LDAP entry, row, domain | launch, stop, reload, destroy; Gaius' creation and destruction of the domain | entry, row and domain agree; no domain is forgotten; every request ends |
| Virtue migration (`valor.py` 64-105, 559-593; `rethink_client.py` 68-105; `virtue_client.py`) | migration command, row, feeds, domain | request, transfer, update of command and row, automatic migration | the domain is where the row says; a request is carried out once |
| Valor fleet (`valor.py` 236-557) | valor row, EC2 instance | create, launch, stop, destroy, standby threads, placement | row and instance agree; no valor is taken from under a virtue |
| netblock (`transducers/actuators/networkactuator/netblock_module.c`, `include/kmap.c`) | sixteen rule maps, device mutex, command buffer | open, write, reset, release; six look-ups for each packet | what a rule blocks is blocked; a command is the writer's own |
| Transducer control (`apiendpoint_security.py` 258-512, `transducers/merlin.py`, `transducer-controller.c`) | commands, acks, ruleset, LDAP's `transducerIds`, Merlin's lock | enable, disable, heartbeat, repopulate, restart of the filter | an acknowledged command is in force; a restarted filter gets its rules back |
| Blue Force Tracker (`blue_force_track/back_end/src/index.js`, `front_end/.../app`) | cached clients of three stores; charts, tables and selection of a page | sixteen routes, connection and crash, timers, selection of a row, change of page | what a page shows is what the stores hold; an error of one request is not every request's |
| Canvas (`canvas/output.js`, `canvas/assets/svg-with-js/js/fontawesome-all.js`) | windows, drawers of minimised windows, timers; elements and waiting replacements of icons; dock, ports and tunnels | open, close, minimise, restore, maximise; replacement of icons; login, chain of requests behind a click | no window is lost; every icon is drawn; a window shows its own application |
| Heartbeat listener (`transducers/listener.py`) | none of its own | scan of the acks | a silent virtue is reported |
| Virtue assembly and standby images (`controller.py`) | image files | role and virtue creation threads | an image belongs to one virtue; the standby images are replenished |
| Role and user administration (`apiendpoint_admin.py`, `ldaplookup.py`) | LDAP | create, destroy, authorize, withdraw | references resolve |
| Applications in a virtue (`apiendpoint.py` 387-550) | LDAP's `applicationIds`, containers | launch, stop | the list tells what runs |
| Introspection (`rethink_client.py` 107-160, `introspect_client.py`) | one thread for each virtue, `/etc/libvmi.conf` | add, remove, change | a thread for each enabled virtue and no other |
| Log handler (`elastic_log_handler/handlers.py`) | buffer, timer | emit, flush, close | a record is sent once |
| OAuth2 (`services/oauth2.py`, `models/oauth2.py`) | codes and tokens | issue, refresh, revoke | an expired token is refused |

The rest holds no state that several actors change, or is not Galahad's code:
routes, error codes, ssh and AWS helpers, command line client, assembler,
packager, deployment scripts, process killer, OS sensor, the libvmi monitor in C,
and the vendored map of the syslog-ng filter.

**How they interact.**  An API request reads an LDAP entry, works for minutes
and writes the entry back.  It inserts and deletes rows, of which the Gaius
service of the valor the row names is told by a changefeed.  A migration is a
record in the commands table, which the source valor's Gaius takes from another
changefeed, by another thread.  Flask serves requests concurrently, standby
valors are made by background threads, and two rows can be written by two
processes.  Packets meet the netblock maps while commands change them.  The
security API leaves a command in a table and waits on a changefeed for an ack
that Merlin's two threads write.  The dashboards ask their server again and
again, which reads the stores that all others write.  Canvas calls the API and
then opens ssh into the address it read before.

**What is hard here.**  Checks that are acted on later without a lock; copies
that are written back stale; changefeeds that deliver late, or not at all after
a restart; a row, a command and a domain that are updated one after the other;
calls to EC2, ssh and `xl` that fail half way; callbacks of a browser and of Node
that come back when the page, the connection or the window they belong to is
another one.  `PROJECT.json` lists each of
these at its line under "hazards".

## 2. Plan

In the order of what matters most to the users of the system:

| | Modules | State |
|---|---|---|
| 1 | `GuestnetPool`, `GuestnetAllocation` | modelled; uniqueness and the refinement proved |
| 2 | `VirtueLifecycle` | modelled; its safety properties proved |
| 3 | `ValorFleet` | modelled; its safety properties proved |
| 4 | `VirtueMigration` | modelled; its safety properties proved |
| 5 | `NetBlock` | modelled; its safety properties proved |
| 6 | `TransducerControl` | modelled; its safety properties proved |
| 7 | `BlueForceHttp`, `BlueForceServer`, `BlueForceDashboards`, `BlueForceTracker` | modelled; `FailureHasCause` proved |
| 8 | `CanvasWindows`, `IconEngine`, `CanvasDesktop`, `CanvasDock` | modelled; every safety invariant of its runs proved |
| 9 | `StandbyImages`: the threads that copy and move image files | left |
| 10 | `AutoMigration`: the loop and its flag, on top of `VirtueMigration` | left |
| 11 | `Introspection`, `LogHandler`, `VirtueApplications`, `RoleAdministration`, `OAuthTokens` | left |

What is left is small beside what is done: module 9 would have to model a file
system and the shell scripts behind the threads; 10 repeats a request that is
modelled; 11 are components that meet no other one.

`BlueForceTracker` composes the tracker's server with its pages, which share the
HTTP requests, and `CanvasDesktop` the windows with the engine that draws their
icons, which share the document.  The others share no variables and are composed
by what they assume of one another: the lifecycle takes an address atomically,
which is what `GuestnetAllocation` implements; `VirtueLifecycle` lets the fleet
only grow, `ValorFleet` models what takes valors away and reduces a virtue to its
place; `VirtueMigration` leaves out addresses and LDAP; `CanvasDock` reduces the
lifecycle to launches that give an address and stops that take it back.

## 3. Modules

### GuestnetPool, GuestnetAllocation

`GuestnetPool` is the promise: an owner gets an address that is not in use, in
one step.  `GuestnetAllocation` is the code: the assertion on existing rows, the
lock, one action for each query of the loop over the addresses, the insertion,
the release in `finally`, failing queries, and the two-step removals.
`lock` belongs to a process and threads to processes (`ProcessOf`), because
`rethinkdb_lock` is a lock of one interpreter.  The refinement maps the
addresses of live rows to the pool; the scan and the lock are stutters.

### VirtueLifecycle

| Variable | Code |
|---|---|
| `ldap` | `state` and `ipAddress` of the virtue's entry |
| `rows`, `nextId` | virtue rows of `galahad`; the id stands for the row's identity in a delete by value |
| `feed`, `gaius` | what a valor's changefeed has not delivered; whether its Gaius listens |
| `domU` | address each running domain was booted with |
| `stray` | history: domains whose `xl destroy` failed |
| `req` | the local variables of each request, `entry` being the stale copy |
| `calm` | history: virtues whose requests never overlapped and never died |

`virtue_launch` becomes `Launch`, `PickValor` or `CreateValor`, `CheckNoRow`,
`InsertRow`, `MarkLaunching`, the probes, and `WriteEntry` or the clean-up after
the last attempt; stop is `MatchRow`, `DeleteRow`, `WriteEntry`; reload and
destroy likewise.  `Abort` is an exception at any point of a request.
`FeedLost` and `GaiusRestart` are a broken changefeed and a restarted service.
`GaiusRemove` is `destroyDomU`, whose failing `xl destroy` is caught, logged and
forgotten (`virtue_client.py` 73-80): the domain runs on at an address that is free
for others, and no one tries again.  Everything the properties say of domains
excepts these, and them only.

Left out: the commands and acks of a destroyed virtue (see the end of section 5).

### ValorFleet

`row` is the valor's state in the table, `instance` EC2's, and `thr` a thread's
progress through create, launch, stop, destroy, standby creation or placement.
EC2's passing states are folded into those they lead to.  `Fail` is an exception
of EC2, ssh or the router; `Operates` says which threads are at work on a valor;
`calm` as above.  `remove_valor` is two steps: `MatchRow` reads the row (`seen`) and
`DeleteRow` deletes by its whole contents, state included, which finds nothing if a
`set_valor` came in between; `missed` remembers for which valors.  `Setup` is the
wait for cloud-init, a loop in the valor without a limit (`valor.py` 134-148), and
`Verify` has no step for a valor that is CREATING, where the code waits without a
limit because the exception of its time-out is made and not raised (456-459).

### VirtueMigration

The server's request (`Migrate`, `ReadSource`, `CountVirtues`, `OrderMove`), the
launches and stops that run beside it, and for each valor two Gaius threads:
`HandleRow` creates and destroys domains, and `TakeOrder`, `Transfer`,
`UpdateCommand`, `UpdateRow` move one.  The thread ends (`Die`) where the look-up
of a row raises.  `Attempt` is an `xl` command: it fails when it cannot be done,
for instance because the domain does not exist yet, and at most `MaxFailures`
times otherwise.  A failed command is logged and nothing else, as in the code.

### NetBlock

A rule is a direction, an end, a kind of map and a key; the sixteen maps are one
set of rules.  The number that a command is decoded to is the set of its one
bits, so that `RuleNumber` and `KindOf` are the code's or-ing and its switch, and
whatever two commands confuse they confuse here too.  `Copy` and `ApplyRule` are
the two halves of `device_write` around the shared buffer; `ClearMap` empties one
map under the spinlock; `Check` is one look-up of a packet.  The ports of a
packet that is neither TCP nor UDP were never written (line 402), so that its
last look-ups take any port.  `safe_map_clear` goes on from a node that it has
just freed, so that it may leave keys of the bucket behind.
`ApplyRule` may fail to add a key: `map_set_` needs memory (`kmap.c` 140-163), and
`device_write` ignores its result (`failed` remembers it).
`Matches` is what the six look-ups ask for, and `Blocks` what the networkactuator
README says that a rule blocks; they differ for pairs of address and port
(`ReadOtherwise`, section 5).
Commands have the form that Merlin's regular expression admits, or are refused;
other five-word texts are left out.

### TransducerControl

The control of one virtue's transducers.

| Variable | Code |
|---|---|
| `req` | a call of `transducer_enable` or `transducer_disable`: its step, and whether the virtue ran when its entry was read |
| `state`, `on` | the state in LDAP's entry; whether the virtue, and Merlin in it, runs |
| `commands`, `acks` | the two tables of RethinkDB, by transducer |
| `feed` | changes of `commands` that Merlin's listener has not been handed |
| `lock`, `listener`, `heartbeat` | Merlin's lock around the filter and the steps of its two threads |
| `conn` | the connection to the filter of the thread that has the lock: sent, answered, broken, or ended without an answer (`eof`) |
| `dead` | the threads of Merlin that an exception has ended |
| `up`, `filter` | whether the filter answers, and its rules |
| `bypassed` | history: a filter without rules was given a new command before the old ones |

`Start`, `Insert`, `OpenFeed`, `Deliver`, `TimeOut` and `WriteEntry` are
`__enable_disable` and `__change_ruleset`: the feed of acks is opened after the command is inserted, only the first ack that comes is looked
at (the loop's second turn finds the cursor closed), and the entry that is written
at the end is the one that was read at the start.  `TakeSensor`, `TakeActuator`,
`SendAck` and `ListenerGivesUp` are Merlin's listener; `Beat`, `ReadCommands`,
`Repopulate`, `ProcessUpdate` and `HeartbeatGivesUp` its heartbeat.  An exchange with
the filter is a request sent (`conn`), the filter's own step (`FilterAnswers`) and
the reading of the answer; the filter may die at any point of it (`FilterFails`),
and then the connection is broken or ends without an answer.  The listener
acknowledges an empty answer like any other; the heartbeat takes it for JSON, and
the exception ends its thread (`HeartbeatRaises`).  `ListenerRaises` is an exception
of `do_actuator`, of an actuator's device or of the OS sensor's file, which ends the
listener.  Merlin's process lives on, so that nothing starts the thread again.  A
filter that fails comes back without rules, and syslog-ng's unit starts it again; a
virtue that stops takes Merlin's threads with it.

Left out: signatures are good; RethinkDB is up, so that an ack gets into its
table (a broken connection ends the listener's thread as the exceptions above do);
what an actuator does.  The heartbeat
sends and acknowledges the actuators' commands with the others although it does
nothing about them; the module says so.

### BlueForceHttp, BlueForceServer, BlueForceDashboards, BlueForceTracker

`BlueForceHttp` has the routes and the requests between the two halves, each at a
stage: sent, connecting, querying, hung, answered, misread (an error's text taken
for data) or failed.  `BlueForceServer` is `index.js`: `AcceptRethinkDB`,
`AcceptElasticsearch` and `AcceptLDAP` take the cached client or make one, and
differ in when the cache is set; `Connected`, `ConnectFails`, `Answer`,
`QueryFails`, `QueryOnClosed` are the callbacks, and `Crash` is a callback that
throws, after which systemd starts the process again.  `Computed` says what a
route makes of the rows; `Throws` is the look-up of a valor that has no row.

`BlueForceDashboards` are the Angular pages.  `Ask` is a subscription of
`ngOnInit`, of a selection or of the ten-second timer, `Receive` its answer,
`Select` a selected row, `Visit` the router.  A page that is left keeps its timers
(`AskForLeft`), and its answers go nowhere.  `Parse` is what the tables make of a
Python list.

Left out: the layout of charts and tables, the time buckets of the line graphs,
and the index of the day, which the server computes once.

### CanvasWindows, IconEngine, CanvasDesktop

`CanvasWindows` has the handlers of `output.js`: `OpenWindow`, `CloseApp`,
`ToggleMaximize`, `MinimizeApp` and the 300 ms timer behind it (`TimerFires`),
`UnminimizeApp`, `ToggleMinimizedDrawer`.  Windows are looked up by an id that two
windows may share, and drawers by the name of a role, which may have none; a
handler that throws leaves what it did before.  `IconEngine` is Font Awesome's
`fontawesome-all.js`: `Bootstrap`, the mutation observer (`Deliver` with
`TreeChanged`, `ClassChanged`, `DataChanged`) and the animation frame that carries
replacements out (`Frame`).  `GetCanonicalIcon`, `FindIcon`, `ParseMeta` and `Svg`
are its pure functions, over classes instead of text.  `CanvasDesktop` runs both
in the one thread of a browser, where the observer is told before the next event,
but frames come in between events.

Left out: where a window is and what covers it, since no handler reads that;
layers, masks, transforms and pseudo-elements of the engine, which the page does
not use; the data of the icons.

### CanvasDock

`Login`, `Callback` and `RolesAnswered` fill the dock.  `OpenApp` starts a chain
of requests (`VirtuesAnswered`, `LaunchRequested`, `LaunchAnswered`,
`ApplicationAnswered`, `AppStarted`), each of which takes an error for an answer.
`AppStarted` opens ssh into the address that the first answer had, and a window on
the local port.  `LocalPort` is arithmetic on the digits the code concatenates.
`Load`, `SshConnects`, `SshNotices` and `Stop` come in any order.

## 4. Runs

| Run | Instance | Shows |
|---|---|---|
| `guestnet` | 1 process, 2 threads, 2 virtues, 1 valor, addresses up to 3, one of them the router's | `TypeOK`, `GuestnetUnique`, `LockReleased`, and `PoolSpec`: the queries implement the pool |
| `lifecycle` | 2 requests on 1 virtue, 1 valor, 2 rows, 2 probes, 1 abort, 1 lost feed | `TypeOK`; `StoresAgree` for undisturbed virtues; `RequestsAnswered`; `StoppedDomUDestroyed` |
| `lifecycle_placement` | 2 requests, 2 virtues, 2 valors of capacity 1, 2 addresses | `DomUAccounted`, `AddressesDistinct`, `OvershootBounded` |
| `migration` | 2 requests, 2 virtues, 2 valors, 2 launches, 1 migration, 1 failing `xl` | `HostMatchesRow`, `CommandFollowsVirtue`, `EnabledIsHeard`, `MoversSurvive`, `MigrationEnds` |
| `fleet` | 2 threads, 2 valors, 1 virtue, 1 failure, 1 standby thread | `RowMatchesInstance`, `CreatingIsAttended`, `DestroyedIsRemoved`, `VerifyNeverWaits`, `OperationsEnd` |
| `netblock` | 2 writers, 2 commands, 1 packet in the hook, 2 addresses, 2 ports | `AcceptedWasAllowed`, `DroppedWasBlocked`, `OwnMessage`, `AddressRulesHold` |
| `netblock_ipport` | 1 writer, 1 command, 1 packet | violation of `PairRulesBlock` |
| `transducers` | 2 requests, one for either sensor and one for a sensor or the actuator, 1 failure of the filter, exception of the listener or stop of the virtue | `AcksAgree`, `SuccessWasHeld`, `CommandTakesEffect` |
| `transducers_bypass` | 2 requests, 2 sensors, no failure | violation of `RulesetRepopulated` |
| `bft` | pages of virtues and valors, 2 requests at once, 1 virtue, 2 valors, 1 selection, and 1 fault, write or change of page | `FailureHasCause`, `GraphSettles`, `ViewsSettle` |
| `desktop` | 2 windows of 2 ids, 1 role, 2 timers at once, counts up to 2 | `CountsCoverMarkers`, `DrawerShowsMarkers`, `MinimizedReachable`, `IdleIsDrawn`, `ClassesKept`, `IconMatchesWindow`, `EngineSettles` |
| `canvas_dock` | 2 roles that share an application, 2 clicks, 2 visits of the redirect page, 1 stop, 2 addresses | `DockFilledOnce`, `WindowShowsItsApp` |

Every component has a type invariant except `CanvasDock`.  Two runs check theirs;
the others hold on the same instances, and those of `ValorFleet`, `NetBlock`,
`TransducerControl` and `CanvasWindows` are theorems.

Every property of a passing run has a mutant in its module, an operator that
stands before the definition it replaces and says what bug it is: a dropped
guard, a forgotten update, a wrong map.  With the mutant in place the run finds
the property violated, so each property depends on the code it is about.

**Bounds.**  Two requests are what a race needs, and the properties relate at
most two virtues.  Two launches or rows per behaviour give a virtue that is
stopped and launched again, and a row that is deleted while an older one's change
is still in the feed.  Capacity one makes every second placement an overshoot.
Two netblock commands set and then remove, or set and then reset, a rule around
each look-up of a packet, and two writers meet at the buffer; two addresses and
two ports tell the ends of a packet apart.  Two sensors are what it takes for one
command to hide that another is missing, and one actuator a listener that has no
need of the lock; the sensors are alike and so are the requests, so that `Asks`,
which says what each request may be for, leaves out only two requests for the
actuator.  In the tracker two requests can be
answered in either order, and one fault followed by nothing is what `ViewsSettle`
is about; every event after it only delays the same end.  Two windows with one id
or two ids of one role share a marker, a drawer or a timer.  No role of that run
lacks a drawer: without one a handler throws early and leaves less to interleave,
the properties of the icons do not depend on roles, and the
theorems hold for roles of either kind.  Two clicks on two
roles share an application's name and compete for an address.  Counters named
`Max...` that bound the model and not the code are marked so where they are
declared.

**Symmetry** is used in `lifecycle_placement` and `netblock`, over
requests, virtues, valors, writers, addresses, ports and slots; no constant or
initial state tells the members of these sets apart, and these runs check
invariants only.  `lifecycle_placement` has a `VIEW` without `calm`, which no action
reads and none of its properties mentions.

**Deadlock** is not checked, except in `bft`, whose page always has a timer: a
bounded number of launches, commands, clicks or failures ends in states where
nothing is left to do.

**Fairness.**

- `lifecycle`, `migration`, `fleet`: weak fairness of the steps of a
  handler that has begun, of a Gaius thread that has something in its feed, and of
  a thread of the fleet.  Python's scheduler gives that much, and these waits of the
  code are loops with a bound or with an event that another fair step brings about.
  The fleet's `Setup` has no fairness, since nothing obliges cloud-init to finish, and
  `Verify` has none on a valor that is CREATING, since it is not enabled there:
  `OperationsEnd` excepts the first wait, and `VerifyNeverWaits` shows that the
  second is not entered.
- `transducers`: strong fairness of the listener and of the heartbeat's first step,
  since the lock is free again and again (the heartbeat sleeps without it), weak
  fairness of what the heartbeat does with the lock held (`GoOn`), of a filter that
  is up answering and of systemd starting it.  A thread that has died takes no step.
- `bft`: weak fairness of the server's callbacks and of the restart, strong
  fairness of a page's timer, which ticks for ever and is held up in the model only
  by the bound on outstanding requests.
- `desktop`: weak fairness of the observer, strong fairness of the animation frame.
- `guestnet`: weak fairness of the threads' steps, for the lock.

Nothing makes a user send a request, a command fail or a service restart.
`MigrationEnds` promises the end of a migration only while the operations on its
virtue take turns and no migration thread has died; `StoppedDomUDestroyed` excepts
valors whose feed was lost and domains whose `xl destroy` failed,
`CommandTakesEffect` a bypassed filter and a Merlin of which a thread has died, and
the two settling properties of the tracker after the connections are sound, since
without that they would be false (section 5).

**History.**  `calm` is how a property speaks of operations that take turns:
`StoresAgree`, `HostMatchesRow`, `CommandFollowsVirtue`, `EnabledIsHeard` and
`RowMatchesInstance` hold for virtues or valors whose operations have neither
overlapped nor died, and interleave freely with those on every other one.  In
`NetBlock`, `standing` and `seen` collect the rules that match a packet and have
been in their map all the while, or at some time, since it entered the hook, and
`failed` tells that a writer's last command found no memory.  `stray` and `missed`
are what an operation forgets: the domain whose destruction failed, the valor whose
row was not found again.  `held` and `blind` of a transducer request (the filter had
the rule; the ack was sent for an empty answer), `hasty` of the desktop and `freed` of the dock are
of the same kind.

## 5. Where the code disagrees with its documentation

Two disagreements are runs of their own that end in a counterexample.

`netblock_ipport`: `networkactuator/README.md` 38 and 42 say that `src` and `dst` mean
nothing for a pair of address and port, and that `block outgoing [src/dst] ipport
8.8.8.8:53` blocks the outgoing DNS traffic to that server.  `process_transport`
looks an outgoing packet up as its source address with its destination port (429) and
as its destination address with its source port (423), and an incoming one, in the
`dst` map, as its source address with its destination port (414).  Of the four
rules only `block incoming src ipport` blocks what is documented.
`AcceptedWasAllowed` therefore leaves out the other three (`ReadOtherwise`).

`transducers_bypass`: the comment at `merlin.py` 317 says "If the filter restarted
and lost its ruleset, repopulate it", and 189 that commands can be queued up before
a virtue is started.  The heartbeat repopulates only a ruleset that is empty.  A new
command that reaches the filter before the heartbeat does makes it non-empty, and
the commands queued before are never sent.

The modules state more properties that documentation or tests expect and that do
not hold.  Each is seen by putting it in the configuration named here instead of
that configuration's own properties, and without a `SYMMETRY` line:

| Property | Configuration | What happens |
|---|---|---|
| `OneRowPerVirtue` | `MCGuestnetAllocation.cfg`, invariant | the assertion at `valor.py` 725 is evaluated before the lock is taken: two launches of a virtue insert two rows |
| `GuestnetUnique` | the same with `Process = {p1, p2}`, `ProcessOf <- ServerAndPoolScript` | the standby pool script is a process of its own and does not share the lock |
| `ValorCapacity` | `MCVirtueLifecycle_placement.cfg`, invariant | two launches count the same free place on a valor |
| `NoStrayDomU` | `MCVirtueLifecycle.cfg`, invariant | a row removed while its valor's changefeed is lost leaves its domain running, and so does a failed `xl destroy` |
| `ProbeReachesItsVirtue` | `MCVirtueLifecycle_placement.cfg`, property | the ssh probe of a launch is answered by the domain that had the address before |
| `MigratedVirtueRuns` | `MCVirtueMigration.cfg`, invariant | `migrateDomU` logs a failed `xl migrate`, and `Changes.migrate` moves the command and the row all the same; a migration that starts before the domain has booted leaves a row on a valor where the virtue does not run |
| `StopRemovesRow` | `MCVirtueMigration.cfg`, property | a stop deletes by the row it read, which a migration has rewritten |
| `MigrationServed` | `MCVirtueMigration.cfg`, property | a virtue stopped between a request and its look-up ends the migration thread |
| `NoVirtueLosesItsValor` | `MCValorFleet.cfg`, property | `stop_valor` and `destroy_valor` refuse a valor with virtues, but the test and the EC2 call are apart: a launch that picked the valor earlier inserts its row in between |
| `StandbyAtMost` | `MCValorFleet.cfg` with `MaxSpawned = 2`, invariant | two callers each create the missing standby valors |
| `DestroyedLeavesTable` | `MCValorFleet.cfg`, invariant | `remove_valor` deletes by the contents it read; a launch that sets the state in between keeps the row of the terminated valor |
| `CommandReachesItsMap` | `MCNetBlock.cfg`, invariant | the comment at lines 590-602 gives TCP the bits 010 and UDP 011; the code ors 0xC and 0x10, so that a TCP port becomes a destination address of IPv6, and a UDP port one of TCP |
| `ResetEmpties` | `MCNetBlock.cfg` with `Writer = {w1}`, `Slot = {}`, `MaxWrites = 3`, invariant | a reset leaves keys behind that shared a bucket with a freed node |
| `AckConfirmsChange` | `MCTransducerControl.cfg`, invariant | the comment at `merlin.py` 502 says that an ack confirms a change; the listener also acknowledges the empty answer of a filter that died before it changed anything |
| `CommandTakesEffect` with `dead = {}` taken out of `Pending` | `MCTransducerControl.cfg`, property | an empty answer ends the heartbeat's thread (or an exception the listener's), and a filter that restarts never gets its rules again |
| `StateIsKept` | `MCTransducerControl.cfg`, invariant | the entry written after the wait for an ack has the state from before it: a virtue stopped meanwhile is RUNNING again |

Reading the code for the models showed a few more things that no module states:

- Blue Force Tracker: once RethinkDB closes the server's connection, or LDAP's is
  lost, every later request of those stores fails until the process is restarted;
  one virtue row that names a missing valor crashes the server for every page; a
  Python list with an apostrophe in it is shown as `ERROR_PROCESSING_JSON`, and an
  identifier that ends in `u` loses that letter; `messages_per_type` ignores the
  time range of its request; the index of the day is computed when the server
  starts.
- Canvas: a window minimised under a role that has no drawer, or under an id that
  another window has, is out of reach; closing a window leaves its marker and its
  drawer's count; an eleventh application of a role gets a port above 65535; a
  denied login leaves neither button nor dock; a seventh role throws; a window
  loads its port before ssh is up; the address it tunnels to may be another
  virtue's by then; a window maximised while
  its icon waits for a frame may keep the wrong icon.
- `destroy_virtue` (`valor.py` 800-804) filters by a Python set where a document
  belongs, `{'virtue_id', virtue_id}`, which the driver does not take: a destroyed
  virtue's commands and acks stay, and the request is answered with an error although
  image and entry are gone.
- Excalibur keeps a virtue's `applicationIds` when it stops, so that the
  applications it ran before are refused as launched already (`apiendpoint.py`
  416).

## 6. Proofs

The theorems hold for every value of the constants that satisfies the modules'
assumptions (finite sets of requests, positive capacities, markers distinct from
what they mark).  The lemmas about single steps are separate and the theorems put
them together.

`GuestnetAllocationProofs`

- `TypeCorrectness`.
- `GuestnetUniqueness`, assuming a single server process.  Uniqueness alone is not
  inductive: that an insertion is harmless needs that the chosen address is still
  free, which needs that only the holder of the lock inserts.  `IInv` adds
  `LocalsSet` (a thread inside the lock has an owner and an address), `LockHolder`
  (whoever is past the acquisition holds the lock) and `ChosenStaysFree`.
- `ImplementsPool`, assuming a single process: every step under `IInv` is a step of
  the pool or a stutter under the mapping of live rows to addresses.

`VirtueLifecycleProofs`

- `TypeCorrectness`.  `Typed` adds to `TypeOK` which locals are set at which point
  of a handler; lemmas on `Append` and `Tail` give the types of the feeds.
- `DomainsAccounted`.  A domain has a row, a pending removal or a failed `xl destroy`
  of its own because a domain is created only from an addition in the feed, and a
  removal leaves the feed only with the domain or with its name in `stray`.  `FeedAccounted` says that an addition
  in the feed has its row still in the table or the row's removal behind it in the
  same feed; `Accounting` is this with `DomUAccounted`.
- `AddressesDistinctTheorem`, from `Accounting` and `RowsDistinct`: two rows have
  two addresses and two ids.  Two domains that share an address cannot both have
  their rows, so that one of them has a removal pending or was to be destroyed.
- `StoresAgreeTheorem`.  A calm virtue has one request at work on it at most, and
  `Stage` says for each statement of that request what table and directory hold
  there: which of the two it has written, and that the entry it read at the start is
  still true.  `CalmInv` is this for every calm virtue, with `Agree` for those that
  have no request; `Deleting` adds that a handler deletes rows of its own virtue
  only.
- `OvershootBoundedTheorem`, from `Placed`: rows and placing handlers name valors of
  the fleet.  Their number (`Load`) can only grow where a handler picks a valor that
  it saw below its maximum, and then every handler that is not in the sum yet is
  another one; the insertion moves a handler from one part of the sum to the other.

`ValorFleetProofs`

- `TypeCorrectness`, from `ThreadInv`: which of a thread's locals are set at which
  step.
- `DestroyedIsRemovedAlways`, from `RegisterInv`: a thread that is about to
  insert a valor's row is the only one to know the valor, which has no row and
  whose instance still runs.  So a row is never inserted for a terminated valor, and
  the one that is there has a thread at its removal, or that thread's delete matched
  nothing (`missed`).
- `VerifyNeverWaitsAlways`: a thread gets to `Verify` with a valor that is RUNNING, and
  no operation makes a row CREATING that is there already.
- `RowMatchesInstanceAlways`.  `CalmInv` says for a calm valor that at most one
  thread operates on it, and that row and instance are what that thread's step
  leaves between its two halves (`Stage`, `Works`, `Match`).
- `CreatingIsAttendedAlways`.  `CreatingInv` says that a row is CREATING only while
  some thread `Attends` it, and where that thread is for each state of the instance:
  when another operation stops or destroys the instance under the thread that set
  it up, it takes over the duty to write the row.

`NetBlockProofs`

- `TypeCorrectness`.
- `OwnMessageAlways` and `AddressRulesHoldAlways`, from
  `DeviceInv`: the mutex is held exactly while some writer has the device open, and
  by one writer only; a writer that clears maps was asked for a reset.
- `AcceptedWasAllowedAlways` and `DroppedWasBlockedAlways`.  `HookInv` says that
  the rules that stood all the while are in the maps, that rules that match now
  have been seen, and that no rule that stands has the key of a look-up the packet
  has passed.  The lemma `LookUpsMatch` says that the six look-ups are the rules
  that match the packet, no more and no fewer; that the documented meaning of a rule
  that is not `ReadOtherwise` is among them gives the first theorem its statement in
  terms of `Blocks`.

`TransducerProofs`

- `TypeCorrectness`.
- `AcksAgreeAlways`, from `LockInv`: with the lock taken, the thread that has it
  carries exactly what the acks lack.
- `SuccessWasHeldAlways`, from `HeldInv`: whatever is on its way to the acks (the
  listener's command once it is answered, the rules the heartbeat has read) was in the
  filter, so that a request that waits for it has been told (`held`), save the ack of
  an answer that ended empty (`blind`).

`BlueForceProofs`: `FailureHasCauseAlways`, from `FInv`.  As long as nothing has
failed, `Calm` says that no connection is lost, no row names a missing valor, and a
query of RethinkDB runs only on a connection that stands, although requests find
clients that are cached before they are connected.

`CanvasProofs`: `WindowsTypeCorrect`, `CountsCoverMarkersAlways`,
`DrawerShowsMarkersAlways` and `MinimizedReachableAlways`, as theorems of the
composed `CanvasDesktop`.  `WInv` adds `TimersOfRole` (a role's timers are of
windows of that role) and `HiddenHaveDrawer` (only a window whose role has a drawer
is hidden).

- `IdleIsDrawnTheorem`, `ClassesKeptTheorem`, `IconMatchesWindowTheorem` and
  `DesktopTypeCorrect`, from `EngineInv`.  The properties speak of an engine at rest;
  the invariant says what is on its way when it is not.  `Fits` is the shape of an
  element, as written or replaced: its icon classes are of one icon, its own classes
  are the page's, and its one width is that of what is drawn.  `WrittenIsKnown` says
  that an element still to be replaced has a replacement that waits or a record that
  will find it, `SvgIsCurrent` that an svg is out of date only while a record of it
  is on its way or a replacement waits, and `UnhurriedMatch` that the classes, and
  what waits, of a button not used in haste are those its window asks for.
  `OneRecord` says that one change at a time is on its way, since the page's handlers
  run when the observer has been told.

  These rest on what `Only` does to a list of any length, which takes induction.  The
  library's induction theorems have operators as parameters, but its theorem that the
  finite subsets of a set are well-founded under inclusion, and the one on minimal
  elements, speak of sets: they give `NatMinimum` (a set of naturals has a least one)
  and `SeqInduction` (a set of sequences that has the empty one and is closed under
  `Append` has them all).  `OnlyAppend`, `OnlyConcat`, `OnlyTwice`, `OnlySame` and
  `OnlySet` follow, and from them what the classes of an element are after each
  change (`SvgFacts`, `SwapFacts`, `ParseFacts`).

The same module has the theorems about `CanvasDock`, which shares no variable with the
desktop.

- `PortsAreDistinct`: the digits the code puts together are distinct for up to ten
  roles of up to a hundred applications each.
- `DockFilledOnceTheorem`, from `FillInv`: nothing is asked for before the redirect
  took effect, and the dock is empty until its one question is answered.
- `WindowsShowTheirApps`, for the same numbers of roles and applications.
  `WindowInv` says of each link of the chain what the property says of its end:
  `AddressesHeld` (two virtues never have one address), `ListTrue` (as long as none
  was given back, a callback's address is its virtue's or none), `SshOfItsApp` and
  `TunnelOfItsApp` (each ssh and tunnel is on the port of its own application).
  `BootHeld` says that a chain that waits for its launch is the only one with that
  virtue, without which its stale address could become another one's.

`VirtueMigrationProofs`: `TypeCorrect`, `HostMatchesRowTheorem`,
`CommandFollowsVirtueTheorem`, `EnabledIsHeardTheorem` and `MoversSurviveTheorem`,
all from one invariant.  The properties speak of a virtue between two operations;
what makes them inductive is where its row, command, domain and the changes still in
the feeds are within each.  `PhaseInv` says that a calm virtue is in one of six
phases: `Placed` (launched, with its domain up or its addition in the feed of the
valor in its row), `Gone` (stopped, with its domain destroyed or its removal in the
feed of the valor that has it), `Leaving` (a stop is about to delete the row),
`Asked` (a migration is requested), `Ordered` (the order is in the feed of the valor
that has the domain) and `Moved` (that valor's thread is at it, and domain, command
and row follow one another).  The lemmas say for each action that it takes its own
virtue from one phase to another and spares the others (`Spared`).  `DeadInv` says
that no thread has ended while every virtue is calm.

**What the proofs changed.**  The attempt at `EnabledIsHeard` failed for a reason: a
flag left by a thread that has ended survives when the virtue is stopped and launched
on another valor, whose thread lives and has not heard of it, since `add_virtue`
writes the old flag back.  That takes three launches and two migrations, more than
the run has.  The property now has this case; with three launches, two migrations
and no failing `xl` (5,120,541 distinct states) TLC finds it and `PhaseInv` true.
`CanvasDock` got the assumption that no address is the value that stands for none.
`IconEngine` selects and counts classes with `Only`, a function defined by recursion,
where it had a fold, which the prover cannot expand; and `CanvasDesktop` says in its
assumption how a window's button is written, with the sets its elements are from.

**Model-checked only.**  All liveness properties, since fairness is beyond the
prover: `LockReleased`, the settling of the engine and of the tracker, and the other
properties of section 4 that say what happens in the end.  Recursion and induction
over data stay with TLC but for what `Only` needed.

## 7. Not modelled

- Modules 9 to 11 of section 2.
- The hash map's buckets and hit counters, and the loading and unloading of the
  netblock module: a map is a set here, and each operation on it is atomic under
  the module's spinlock.
- `transducer_all_virtues`, which writes the roles' lists of starting transducers
  and then repeats the modelled request for every virtue until one fails,
  and what single actuators and sensors do.
- Of Font Awesome, the packs of icons (`fa-*.js`, and the data that fill most of
  `fontawesome-all.js`), `fontawesome.js`, which is the engine without the packs
  and which the page does not load, and shims.  Most of the JavaScript of the
  repository is this data, which is why the definitions stand for a modest share
  of its lines.
- The TypeScript sources under `canvas/src`, which do less than the `output.js`
  that the page loads; dragging, notifications and layout.
- Charts, templates, styles and module declarations of the dashboards.
- The text of requests, configurations and logs, JSON errors, authorization checks
  that precede a handler's first effect, and key and certificate handling.
- Crashes of RethinkDB and LDAP themselves; a call that fails is an exception in
  the caller.
- Stateless or external parts: see the end of section 1 and the notes in
  `PROJECT.json`.
