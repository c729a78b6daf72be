# A formal model of systemd2mqtt

systemd2mqtt shows systemd units and the display's power mode in Home Assistant over
MQTT and carries out the commands that come back. This directory holds TLA+ modules
translated from the Go code, TLC configurations that check them on small instances, and
proofs that TLAPS checks for all values of the constants. `src/` below is the root of the
repository. `PROJECT.json` lists, for every definition, the lines it was translated from.

    tlc -workers 4 -config Supervisor.cfg Supervisor      # any run of the table below
    tlapm SupervisorProofs.tla                                   # any *Proofs module

## The system

| part | code | state it keeps | operations |
| --- | --- | --- | --- |
| manager supervision | `internal/systemd/supervisor.go` | the current manager, its generation, failures in a row, redial token, state announcements, wake | `Run` (dial, back off, serve, tear down), `Query`, `Manager`, `forwardWake` |
| systemd connection | `internal/systemd/conn.go`, `manager.go` | signal channels, wake hint, result channel per job | pump, `Query` with `mapStatuses`, jobs, `Close` |
| event loop | `internal/app/app.go`, `reconcile.go` | bounded queue of events, wake/debounce flags, bus availability | bridge, `handle`, `pollTick`, reconcile, shutdown |
| unit state | `internal/app/state.go` | one snapshot per unit | `ApplyUnit`, `TemplateState`, job results |
| publishing | `internal/app/publish.go`, `app.go` | last payload per topic, request for a full republish | publish unless cached, republish everything |
| commands | `internal/app/commands.go` | one worker goroutine and cap-1 mailbox per unit and per select | dispatch, `offerReplace`, jobs, exclusive select |
| MQTT client | `internal/mqtt/client.go` | outbound queue, subscriptions, the connection's state | enqueue, pump, connect and loss callbacks, subscribe, close, will |
| display | `internal/display`, `app.go` | the shared controller pointer, the last mode | runner with backoff, refresh and command goroutines, `Set`, `push` |
| configuration | `internal/config/config.go` | - | expansion of templates, validation |
| topics, discovery | `internal/ha` | - | topic layout and its inverse, discovery JSON |
| command line, TLS, polkit, version | `cmd`, the rest | - | flags, files, text |

How they interact: a supervisor and a bridge goroutine per scope, the display runner, the
MQTT client and the workers all talk to the loop by `enqueue`, which drops an event when
the queue is full. Only the loop changes the picture of the units and publishes. It talks
to the others by method calls (`Query`, which may time out), by mailboxes (commands), by
the client's outbound queue, and by an atomic flag (`fullPublishWanted`) that the connect
callback raises.

What makes it hard:

* *Lossy channels everywhere.* Hints coalesce in cap-1 channels and flags, a full queue
  drops events, `notify` drops announcements, the pump skips messages while disconnected.
  The design relies on queries and on the poll ticker to repair what was lost.
* *Connections that die or hang*, of the manager and of the broker, at any step, noticed
  late or on one side only; answers from a manager that has since been replaced.
* *Caches*: the last payload of a topic is what was enqueued, not what the broker holds.
* *Commands that overtake each other*, jobs that outlive the worker that waits for them,
  and two workers at work on the same unit.
* *Shutdown* in the middle of anything.

What each part has to get right: a manager is torn down only on its own evidence and no
connection leaks (supervision); no change of a unit is forgotten, and the picture
converges whatever was dropped (loop); the broker's retained state converges to the
picture and the daemon is shown as offline once it has ended (publishing, client);
subscriptions survive reconnects (client); the last command wins and
a select never brings up two instances (commands); the display's state converges to
Mutter's and no controller outlives the runner (display); whatever configuration is accepted,
entities, topics, filters, lookups and the polkit rule fit together (configuration, topics);
a snapshot is that of its own unit, whatever name systemd answers with (systemd connection).

## The modules

| module | models | checked by | proofs |
| --- | --- | --- | --- |
| `BusSession` | abstract: sessions with a manager, lost only on evidence | refinement | |
| `Supervisor` | one supervisor, a step per critical section, channel operation or D-Bus call | 2 runs | `SupervisorProofs` |
| `EventLoop` | the way of a change: pump, hints, bridge, queue, debounce, query, poll; supervisor sessions | 2 runs | `EventLoopProofs` |
| `Republish` | publish cache, outbound queue, pump, connection, will, full republish | 2 runs | `RepublishProofs` |
| `LatestCommand` | abstract: a place that the next command overwrites | refinement | |
| `Mailbox` | `offerReplace` channel operation by channel operation, and the worker | 1 run | `MailboxProofs` |
| `Commands` | the switches and the select of one template, their workers, systemd's jobs, the loop's snapshots | 2 runs | `CommandsProofs` |
| `Display` | the display runner, the controller with its pump and `push`, `Set`, helper goroutines, the loop's picture | 1 run | `DisplayProofs` |
| `Client` | filters and SUBSCRIBEs over connections that come and go, the first connect, `Close` against pump, will and reconnects | 1 run | `ClientProofs` |
| `Config` | the file: defaults, expansion of templates, `Validate`, lookups, as operators | with `Setup` | |
| `HomeAssistant` (extends `Config`) | topics and their inverse, filters, discovery entities, what is published, routing, the polkit rule | with `Setup` | |
| `Statuses` (extends `HomeAssistant`) | alias resolution, `mapStatuses`, the snapshots, a select's label | with `Setup` | |
| `Setup` (extends `Statuses`) | load, dial, query, republish, end, `--clear-discovery` | `MCSetup`, 1 run | `SetupProofs` |

The modules end with the properties. Definitions commented *a faulty form of X* are X as a
plausible bug would have it; each property is violated when some X is replaced by a faulty
form, which shows that the property depends on the code. They take no part in the specifications.

### Supervisor

A manager is named by the generation that dialled it (`s.gen` is bumped in the critical
section that sets `s.cur`). `runPc` is the place in `Run`: `dial`, `backoff`, `dialed`
(manager in hand, not yet published), `up` (to be announced), `serve` (the inner select),
`drop`, `down`, `closing`, `done`. `query` is a `Query` call in three steps: reading
`cur`/`gen` under the lock, the call, the bookkeeping under the lock. The history
variables `struck` and `condemned` record what each manager answered, independently of
the code's `failures`. Managers may hang (answer with an error) or leave (answer that
the connection is closed) at any time.

### EventLoop

The states of all units of a scope are one version number, and `seen` is the version the
loop learned last: every property is about whether a later version is noticed. Handlers
are atomic because the loop is a single goroutine that owns its state; goroutines
outside it (pump, forwarder, supervisor, bridge, timers, workers) interleave at every
channel operation. `wakePending`, `pending`, `busOnline` are the fields of `App`.

### Republish

Four topics stand for all: a unit's state, state and availability of the display, the
daemon's availability. They are the kinds that `publish` and `republishAll` treat differently.
`link = "dead"` is a connection that has broken unnoticed: what is sent is lost, or, with
QoS 1, sent again by paho after the reconnect (`unacked`). `hooks` are connect callbacks
that have been started and not run. A refused message (full `out`) is recorded in `refused`.

### Display

One controller at a time: the runner closes one and waits for its pump before it dials the
next. A helper goroutine that still holds an earlier one is not `fresh`, and its calls fail.
`runner.pc` is the place in `runDisplay`, `why` the reason it gave the controller up; `conn` is
the session bus connection, `sig` the signals on their way, `changes` and `errs` the
controller's channels. `push` is two selects, hence two steps (`Sends`, `Drains`), taken by the pump
and by any `Set`. Mutter answers, has left (`gone`: calls fail) or hangs (calls wait for their
timeout, the pump's own read for ever). Modes are on, off and unknown (-1); `kept` is a history variable.

### Client

The filters and the end of the connection, apart from what is published: of messages only the
availability counts, any other is a `state` that takes room. `hook` holds the `handleConnect`
goroutine of each connection (several may run, since the next connection does not wait for it),
`caller` the app's `Subscribe` calls. Disconnecting over a working connection drops the will.
`missed` records the two cases `OfflineInTheEnd` excepts.

### Config, HomeAssistant, Statuses, Setup

Pure functions as operators over records, and a small machine that puts them to work, so that
each property is about what the daemon does with an accepted file and not about one function. A
unit name is a record of stem, `@`, instance and suffix; a topic is the sequence of its
levels. `Those` and `FirstOf` are the code's filtering and searching loops, as recursive functions over
positions that the proofs can look into. Settings only `Validate` looks at are the flag `sound`. systemd's side is a function from
names to primary names, which may differ between the dial (when aliases are resolved) and a query.
`MCSetup` holds the files.

### Mailbox and Commands

`Mailbox` is the mailbox alone at the finest grain; `Commands` then uses the
overwriting place that `Mailbox` is shown to implement. An option is its index in
the configuration, worker 0 is the select's. systemd has one job per unit with a goal (up for
start and restart, down for stop) and a set of waiters: a job for the same goal is joined
(the earlier waiter may or may not keep its result), one for the other goal cancels it or
is refused, as `job_mode` says. A worker that gives up leaves its job in the queue.
Commands dropped by a full event queue never arrive and are left out.

## The runs

| run | instance | shows |
| --- | --- | --- |
| `supervisor` | 4 failures, `stateCh` of 1 | `OneConnection`, `RedialDeserved`, `BusRecovers`, `CancelClosesAll`, and that it implements `BusSession` |
| `supervisor_finalstate` | 2 failures, `stateCh` of 4 | violation, see below |
| `eventloop` | one scope, queue of 2, 3 versions, 1 failing manager | `NoLostWake`, `OneWakePerScope`, `HintsSuffice`, `Converges`, `DebounceNeverWedges` |
| `eventloop_wakeflag` | queue of 1 | violation |
| `republish` | outbound queue of 4, a loss, a dropped event, 1 move or restart of Home Assistant | `CacheCoherent`, `RepublishOwed`, `UnitConverges` |
| `republish_display` | QoS 0, outbound queue of 6 | violation |
| `mailbox` | 12 commands | `NewestKept`, `LastClickWins`, `ImplementsLatest` |
| `commands_exclusive` | 3 options, 2 picks, 1 click, 1 failure, `replace`, the daemon may end | `AtMostOneInstance` |
| `commands_live` | 2 options, one not found at first and perhaps installed later, 2 commands, 1 failure, `fail`, the daemon may end | `LastPickWins`, `LastClickWins`, `WorkersComeBack` |
| `display` | all channels of capacity 1, one helper at a time, 2 troubles (commands, moves, faults, lost signals), the daemon may end | `ControllersAccounted`, `NewestGetsThrough`, `PictureConverges`, `RunEnds`, `QuietAfterRun` |
| `client` | 1 filter, outbound queue of 2, 2 connections, 1 refusal, 1 other message | `FiltersKept`, `OfflineInTheEnd`, `CloseReturns` |
| `setup` | every pair of 15 units, of 11 templates, or one of each, and 64 combinations of flags; any one name an alias | `EntitiesApart`, `EntitiesWired`, `CommandsReachTheirUnit`, `RuleSuffices`, `SnapshotsTrue`, `NothingLeftBehind` |

Why these bounds are enough to be of use:

* Supervisor: the hazards involve a manager, its successor and a query that straddles
  both. Two failures drop a manager; four reach a third generation with a late
  answer and a stale token at the same time. `stateCh` of 1 overflows all the time; the
  code's capacity of 4 is kept for `supervisor_finalstate`, and the proofs cover any.
* EventLoop: scopes share only the queue, and what other scopes and sources do to the
  queue is to fill it; `OthersEnqueue` fills it and a capacity of 2 is exceeded all
  the time. Three versions are a change that comes while its predecessor is under way. The proofs
  cover any set of scopes, any capacity, and any number of timers armed at once, which
  `pollTick` lowering `pending` can lead to.
* Republish: a queue of 4 is exceeded by a republish that finds anything queued, so that refusals happen; one of 6
  is for the run that is not about refusals. One loss gives two
  connections, and what can be wrong involves a connection and its successor.
* Commands: two stops before a start need three options; two commands are one in the worker
  and one that waits, and a third would overwrite the second (`Mailbox`).
* Display: capacities of 1 make every push find the channel full as soon as anything is unread, and
  the event queue drop events; with the pump, one helper is a second producer for `push`. Two
  troubles are a command and a fault, or a fault and the loss of the signal that would repair it.
* Client: two connections give every order of two `handleConnect` goroutines and a
  `Subscribe`; filters do not influence each other, so one is enough. A queue of 2 is full when `Close`
  finds a republish in it.
* Setup: what `Validate` must keep apart are pairs; the entries are the ways
  two of them can meet - the same slug, id, name, component, label or instance, within a list or
  between a unit and an expanded one - and the ways an entry can be wrong by itself. One alias at a time, of another watched name or of one outside.

### Properties

* `RedialDeserved` - an action property: a connection is given up only if that manager
  itself answered with a closed connection, or with two errors in a row.
* `NoLostWake` - a scope whose last version was not seen has a query under way somewhere
  (signal, hint, flag, event, timer), or a failed query, or an event of it was dropped.
* `Converges` - with polls, `seen` and `busOnline` end up right in spite of dropped events.
* `CacheCoherent` - once the republish of a connection is out and the queue empty, the broker holds what
  the cache believes. `RepublishOwed` - a connection without its republish has the
  callback to come or `fullPublishWanted` raised.
* `AtMostOneInstance` - of the units that were never switched on by their own switch, which
  README.md:123 excepts, one at most is on or has a start queued.
* `LastPickWins`, `LastClickWins` - when commands cease the units are as last told,
  unless a job failed, the two interfered, or the daemon ended.
* `PictureConverges` - with polls, the mode that is shown ends up being Mutter's, or unavailable, whatever
  was dropped, lost or told in the wrong order. `NewestGetsThrough` - outside a push, the mode
  pushed last is in the channel or was taken. `RunEnds`, `QuietAfterRun` - the daemon ends even if Mutter
  hangs, and after that nothing writes to the display, although nobody waits for the helpers.
* `FiltersKept` - on a working connection a recorded filter is subscribed, or its SUBSCRIBE failed,
  or somebody is still about to do it. `OfflineInTheEnd` - by message or by will, the daemon
  that has closed is not shown as available.
* `EntitiesApart`, `EntitiesWired` - no two entities of the discovery payload have an id in
  common, what each reads is published, what it commands reaches the app once and addresses somebody.
  `CommandsReachTheirUnit` - a switch or an option moves the unit it stands for.
  `SnapshotsTrue` - a snapshot is that of its unit under whichever name, three cases excepted by name.
  `NothingLeftBehind` - `--clear-discovery` blanks everything that was ever retained, over any history.

### Fairness

* Supervisor: weak fairness of `Run` and `Query`: goroutines run, a backoff ends, and the
  poll ticker makes the loop query again and again. Nothing is assumed of systemd other than that
  it recovers (the failures are bounded and healing is part of the next dial).
* EventLoop: the same for pump, forwarder, bridge, timers, supervisor and loop. The poll ticker
  (`time.NewTicker` of `poll_interval`) is no part of `FairSpec`: the properties that need it
  say so (`Polled => ...`), and `HintsSuffice` does without.
* Republish: the client retries its connection, keepalive makes it and the broker notice
  a dead one, the pump runs, timers fire, polls come.
* Mailbox: the loop's part never waits; each job ends by `job_timeout`.
* Commands: the workers run, and a timeout or the cancelled context ends their waiting.
  That systemd ends its jobs and that the loop queries is assumed only where it is said
  (`SystemdAnswers => ...`); `WorkersComeBack` does not assume that systemd ever answers.

* Display: pump, runner, helpers and loop run, a backoff and a timeout end. The poll is
  assumed only where it is said (`Polled => ...`); nothing is assumed of Mutter, not even that it comes back.
* Client: goroutines run and timeouts end, keepalive makes both ends notice, paho reconnects.
* Setup: safety only.

`CHECK_DEADLOCK FALSE` is set where the system may stop: after cancellation (Supervisor,
Mailbox, Commands, Display), after `Close` (Client), when a file is refused (Setup), and when the
bounds on failures and moves are used up (Republish). The event loop is checked for deadlock.

## What is proved

For all values of the constants, from the named assumptions (capacities are positive,
bounds are naturals; a file holds what YAML makes of it, and `Outside` names no unit of an
accepted file) and nothing else. One assumption is about strings, which to the provers are opaque:
`StringsAssumption` says of the ids in use that `"unit_" \o x` with its endings, `"template_" \o y` and the
fixed names differ from each other, and that different `y` make different `"template_" \o y`. It says nothing of
the components of two units (`foo_state` and the `_state` of `foo`), which is what `Validate` has to
see to. Only `EntitiesAlwaysApart` uses it, and TLC evaluates it on the files of `MCSetup`.

| module | theorem | says |
| --- | --- | --- |
| `SupervisorProofs` | `TypeCorrect` | types; `stateCh` within its capacity |
| | `ConnectionsAccounted` | `OneConnection` |
| | `NoUndeservedRedial` | `RedialDeserved` |
| | `SupervisorRefinesSession` | every behaviour is one of `BusSession` |
| `EventLoopProofs` | `TypeCorrect` | types; queue and channels within their capacities |
| | `AtMostOneWake` | `OneWakePerScope` |
| | `WakesAreKept` | `NoLostWake` |
| `RepublishProofs` | `TypeCorrect` | types; the outbound queue within its capacity |
| | `CacheTellsTheTruth` | `CacheCoherent` |
| | `NoRepublishForgotten` | `RepublishOwed` |
| `MailboxProofs` | `NewestNeverLost` | `NewestKept` |
| | `MailboxRefinesLatest` | every behaviour is one of `LatestCommand` |
| `ClientProofs` | `TypeCorrect` | types; the outbound queue within its capacity |
| | `FiltersAlwaysKept` | `FiltersKept` |
| | `OfflineAlwaysInTheEnd` | `OfflineInTheEnd` |
| `DisplayProofs` | `TypeCorrect` | types; queue and channels within their capacities |
| | `ControllersAlwaysAccounted` | `ControllersAccounted` |
| | `NewestAlwaysThrough` | `NewestGetsThrough` |
| | `NothingMovesAfterRun` | `QuietAfterRun` |
| `CommandsProofs` | `TypeCorrect` | types; a job's result goes to the worker that waits for it |
| | `NeverTwoInstances` | `AtMostOneInstance`, while no missing unit is installed |
| `SetupProofs` | `SnapshotsAlwaysTrue` | `SnapshotsTrue`, for any set of files, as in all of this module |
| | `RuleAlwaysSuffices` | `RuleSuffices` |
| | `EntitiesAlwaysWired` | `EntitiesWired` |
| | `EntitiesAlwaysApart` | `EntitiesApart` |
| | `CommandsAlwaysReach` | `CommandsReachTheirUnit` |
| | `ClearLeavesNothing` | `NothingLeftBehind` |

* Supervisor. `RedialDeserved` is not inductive: it says nothing of a query in flight or a
  token in the channel. `IInv` adds `Phases` (what is open and online at each place of `Run`),
  `Answered` (an answered query's error is on record for its generation), `Counted`
  (`failures` is backed by a strike of the present generation) and `Convicted` (a token that
  `Run` may act on belongs to the present manager, since `GoOnline` drains it). The refinement
  follows from `IInv`: only `GoOnline`, `GoOffline`, answers and cancellation map to visible steps.
* EventLoop. `NoLostWake` needs to know that a flag that suppresses a wake really stands for
  something on its way: `FlagsAccounted` says `wakePending` is raised exactly while a wake is queued and
  `pending` only while a timer or its event exists, unless something was dropped, and that
  in turn needs `OneWakePerScope`. The lemmas on `Append` and `Tail` say which events a step adds
  to or takes from the queue.
* Republish. `RepublishOwed` with `hooks \in Nat` is inductive: each new connection brings a
  callback, each callback raises the flag, and the flag is lowered only by a handler that republishes.
  `CacheCoherent` needs `CInv`: a connection that had its republish is up, an up connection has no
  will waiting for the broker (`Steady`), and nobody ever hears of a unit that was never queried (`Unheard`).
  `PublishDoes` says once what one `publish` does to cache and queue: it puts its own topic right and
  spoils no other; each handler is a chain of such publishes.
* Mailbox. `Resendable` states, for each place in `offerReplace`, where the previous command is; above
  all the box is free at the second attempt, since only the loop fills it. The refinement
  lets a new command take effect when it enters a free box, or when the box is drained for it.
* Client. `FiltersKept` is inductive given the types, because it names everyone who may still owe a
  filter its SUBSCRIBE: the app's caller between recording and sending, and a connect callback until it
  has looked the filters up and worked them off. The duty passes from one to the next: a connection
  forgets all filters and brings a callback (`ConnectedKeeps`), a caller gives its own up only when there is no
  connection or the broker has answered (`CallerKeeps`), a callback one at a time (`HookKeeps`).
  `OfflineInTheEnd` speaks of the end only; `OInv` says who owes the "offline" before: nobody has said it
  before `Close` does (`NotYetSaid`), a broken connection has a will to come and the pump runs until it is
  stopped (`Wills`), and while the connection `Close` began with lasts, "offline" is the last message
  of the queue or has arrived (`Farewell`).
* Display. The capacities are inductive with `Carried` (who pushes holds a mode). `ControllersAccounted`
  and `QuietAfterRun` need `Places`: what there is of a controller at each place of `runDisplay`.
  `NewestGetsThrough` needs `PushersFinish`: a mode is drained only by somebody who is about to send, be it
  the pump or a helper with the present controller; and a helper with an old one is not `fresh`.
* Commands. `NobodyForgotten` says that a worker's answer, its place and the waiters of its job agree.
  `AtMostOneInstance` is then carried through a command of the select by `OrderSound` (what it does not stop is
  what it starts, or is known to be missing), `Cleared` (between its stops, what is no longer to be stopped
  rests) and `OneAtMost`. It is proved while nothing that was missing has been installed: the
  select leaves out of its stops what the last query did not find (commands.go:232), which is true
  only as long as it stays missing. `SwitchesTold` keeps apart the units a switch turned on.
* Setup. Files are of any length, so lookups in them are recursive functions, and what they return is an
  induction; no induction rule is at hand, so each such lemma takes the least counterexample
  (`LeastExists`, from `WFMin`) to a contradiction: `Those` keeps exactly the members of its set, each as often
  as the sequence has it, `FlattenSeq` the members of its sequences, each at a place of its own. `Built` says where the units of a loaded file come
  from, `AcceptedBuilt` that `Load` yields it and `Validate` tells object ids apart. `SInv` adds what is resolved
  for which scope: a query is told of the names the dial found, under an aliasing that may have changed since;
  `ToldRightly` is the case analysis over both. Topics are compared level by
  level: a published topic ends in another level than a commanded one, so no command topic is
  published (`PublishedEnds`), each matches one filter (`RoutedOnce`) and addresses one unit or select
  (`AddressedOnce`); `EntitySources` names what each entity is made of. `EntitiesApart` goes through the
  lists that `BuildDiscovery` joins (`DistinctJoined`, `DistinctFlattened`); between units it rests on
  `IDsApart` and `ComponentsApart`, between selects on the template ids that `Validate` tells apart, since each
  select is of a template of its own. `Blankable` says that all that is
  retained is among what `--clear-discovery` blanks.

Only model-checked is all liveness (`BusRecovers`, `CancelClosesAll`, `HintsSuffice`, `Converges`,
`DebounceNeverWedges`, `UnitConverges`, `LastClickWins`, `LastPickWins`, `WorkersComeBack`,
`PictureConverges`, `RunEnds`, `CloseReturns`): fairness and `ENABLED` are out of the proof system's reach.
Every invariant and every action property of the passing runs is proved.

## Where code and words differ

1. `supervisor_finalstate`: `notify` (supervisor.go:157) drops the *newest* announcement
   when four are unread, while the comment at :57 says a slow reader "only loses
   intermediate flaps, never the final state". `pollTick` repairs it (`Converges`).
2. `eventloop_wakeflag`: the bridge raises `wakePending` and then calls `enqueue`, which may drop
   the `evWake`; nothing else lowers the flag, so the scope's hints are dead until the daemon
   restarts. app.go:220 and :317 say the poll repairs what a dropped event leaves wrong for good.
   Polls still find the changes, up to `poll_interval` late.
3. `republish_display`: a display state skipped while disconnected stays in the cache; a republish
   while the display is away leaves it out; when the display returns in that mode the cache
   suppresses it and availability goes online over an old state. Nothing repairs it
   before the mode changes or the next republish.

### Observations no run reports

Met while modelling; each is an exception a property names, or a case the instance leaves out.

* A reconnect in the middle of a queued republish lets `availability online` through after the
  states before it were skipped (`send`, client.go:286), against publish.go:35-36. The next republish
  repairs it (`CacheCoherent` waits for it by `synced`).
* `dispatchTemplate` (commands.go:232) decides what to stop when the command arrives, from the last query, and
  leaves out units not found then. With the unit files installed meanwhile and an earlier pick
  still to be run, two instances end up running. `commands_exclusive` has all units installed from the start.
* `Close` that finds the client unconnected sends no "offline"; if paho reconnects before `Disconnect`,
  a queued "online" can go out and the clean DISCONNECT drops the will (`missed` in `Client`).
* `Validate` does not look at labels: of two options with the same label the select chooses the
  first; one labelled `off` stops all; one with blanks around it is refused, because `handleInbound` trims
  the payload. `CommandsReachTheirUnit` says `distinct` for that.
* A name systemd does not take for one (`foo.bar` passes `Validate`) shortens the answer, and with
  it alias resolution is off for the whole scope. An alias that appears after the dial, and leads to a
  unit that is watched too, is shown as not found until the next dial. Both are named in `Rightly`.

## Not modelled, and why

Durations (a timer fires at some time, a backoff ends at some time); the wording of logs, JSON
and topics; YAML decoding; the inside of paho, go-systemd and godbus beyond what the code relies
on; polkit text, TLS files, versions, the printing modes of the command line, `fake.go` (a test double).
`RepublishAll` is called by tests only while the daemon runs; a full republish by the loop is `HandleFullPublish`. A message refused by a full outbound queue while connected is
excepted from `CacheCoherent` and `UnitConverges`: the code repairs it only with the next
republish. Instances started from outside (`systemctl start`) are not the select's doing and do not occur in `Commands`.

## Plan

What is left, in this order.

1. Proofs: that the sessions of `EventLoop` are those of a `Supervisor`, so that the two modules can be
   read as one. It takes history variables for the evidence a session is given up on.
2. `Shutdown` - one composition of loop, workers, supervisors, runner and client over `ctx.Done` and
   `wg.Wait`. So far each part is shown to end by itself (`CancelClosesAll`, `WorkersComeBack`, `RunEnds`,
   `CloseReturns`), and they wait for each other in one order only: the loop for the client, then for
   the rest.
