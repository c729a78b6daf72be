----------------------------- MODULE Republish -----------------------------
(***************************************************************************)
(* How the loop's picture reaches the retained topics of the broker: the   *)
(* last-payload cache of App.publish, the outbound queue and the pump of   *)
(* the MQTT client, connections that break with or without the client      *)
(* noticing, the will, and the coalesced full republish after a connect    *)
(* with the poll ticker that repeats a request that got lost.              *)
(* (internal/app/app.go, publish.go; internal/mqtt/client.go)              *)
(*                                                                         *)
(* Four topics stand for all: the state of one unit, state and             *)
(* availability of the display, and the availability of the daemon.  A     *)
(* handler of the loop is one step; it enqueues its messages in order.     *)
(* Payloads are the values they encode.                                    *)
(***************************************************************************)
EXTENDS Naturals, Sequences

CONSTANTS
    OutCap,         \* publishQueueSize (1024 in the code)
    Qos,            \* values of mqtt.qos; with both, each message may go either way
    EventCap,       \* bound: events of a kind in the event queue, more are dropped
    MaxLosses,      \* bound: connections that break
    MaxDrops,       \* bound: events dropped by a full event queue
    MaxMoves        \* bound: moves of the unit and of the display, and restarts of
                    \*   Home Assistant

ASSUME RepublishAssumption ==
    /\ OutCap \in Nat \ {0} /\ EventCap \in Nat \ {0}
    /\ Qos \subseteq {0, 1} /\ Qos # {}
    /\ {MaxLosses, MaxDrops, MaxMoves} \subseteq Nat

VARIABLES
    unit,           \* the unit's state in State; "unknown" before the first query
    dispOnline, dispMode,               \* fields of App
    last,           \* App.last: the payload published last on each topic
    out,            \* Client.out, oldest message first
    link,           \* "up", "dead" (broken, not yet noticed by the client), "down"
    willDue,        \* the broker is to publish the will of a broken connection
    broker,         \* the retained payloads
    hooks,          \* handleConnect goroutines that have not called onConnect yet
    wanted,         \* App.fullPublishWanted
    armed, armedAt, \* the coalescing timer runs; age of the request it was armed for
    connectedEvs, publishEvs,           \* evMQTTConnected and evFullPublish queued
    spent,          \* losses, drops and moves so far
    synced,         \* history: the present connection has had its full republish
    unacked,        \* payloads sent on a dead connection that paho will send again
    refused         \* history: topics whose newest message found Client.out full

picture == <<unit, dispOnline, dispMode>>
published == <<last, out, refused>>
request == <<wanted, armed, armedAt>>
queued  == <<connectedEvs, publishEvs>>
wire    == <<link, willDue, broker, hooks, unacked>>
vars == <<picture, published, wire, request, queued, spent, synced>>

Modes  == {"on", "off"}
Topics == {"unit", "displayState", "displayAvailability", "availability"}
Values == {"none", "online", "offline"} \cup Modes
Message == [topic : Topics, value : Values]
Budget == [losses : Nat, drops : Nat, moves : Nat]

TypeOK ==
    /\ unit \in Modes \cup {"unknown"} /\ dispOnline \in BOOLEAN /\ dispMode \in Modes
    /\ last \in [Topics -> Values] /\ broker \in [Topics -> Values]
    /\ out \in Seq(Message) /\ Len(out) <= OutCap
    /\ link \in {"up", "dead", "down"}
    /\ willDue \in BOOLEAN /\ wanted \in BOOLEAN /\ armed \in BOOLEAN /\ synced \in BOOLEAN
    /\ armedAt \in {"never", "recent", "old"}
    /\ hooks \in Nat /\ connectedEvs \in 0 .. EventCap /\ publishEvs \in 0 .. EventCap
    /\ unacked \in [Topics -> Values] /\ refused \subseteq Topics
    /\ spent \in Budget

Init ==
    /\ unit = "unknown" /\ dispOnline = FALSE /\ dispMode = "on"
    /\ last = [t \in Topics |-> "none"]
    /\ out = <<>> /\ unacked = [t \in Topics |-> "none"] /\ refused = {}
    /\ link = "down" /\ willDue = FALSE /\ hooks = 0
    /\ broker = [t \in Topics |-> IF t = "availability" THEN "offline" ELSE "none"]
    /\ wanted = FALSE /\ armed = FALSE /\ armedAt = "never"
    /\ connectedEvs = 0 /\ publishEvs = 0
    /\ spent = [losses |-> 0, drops |-> 0, moves |-> 0]
    /\ synced = FALSE

Spend(what, most) == spent[what] < most /\ spent' = [spent EXCEPT ![what] = @ + 1]

-----------------------------------------------------------------------------
(* Publishing *)

Msg(topic, value) == [topic |-> topic, value |-> value]

\* A faulty form of enqueue: the queue has no limit.
enqueueUnbounded(p, m) == [p EXCEPT !.out = Append(@, m)]

\* Client.enqueue: what Client.out has no room for is dropped.
enqueue(p, m) ==
    IF Len(p.out) < OutCap
    THEN [p EXCEPT !.out = Append(@, m), !.refused = @ \ {m.topic}]
    ELSE [p EXCEPT !.refused = @ \cup {m.topic}]

\* publish, where p is what has been published: a payload equal to the cached one is
\* skipped unless forced; the cache is updated before the client takes or drops the message.
publish(p, m, force) ==
    IF ~force /\ p.last[m.topic] = m.value THEN p
    ELSE enqueue([p EXCEPT !.last[m.topic] = m.value], m)

\* What goes out of the present picture.  Without a display only its availability does.
publishUnit(p, state, force) ==
    IF state = "unknown" THEN p ELSE publish(p, Msg("unit", state), force)

publishDisplay(p, online, mode, force) ==
    IF online
    THEN publish(publish(p, Msg("displayState", mode), force),
                 Msg("displayAvailability", "online"), force)
    ELSE publish(p, Msg("displayAvailability", "offline"), force)

\* republishAll, with the app's force flag.
republishAll(p, force) ==
    publish(publishDisplay(publishUnit(p, unit, force), dispOnline, dispMode, force),
            Msg("availability", "online"), force)

\* What has been published so far, and what has been by the end of a step.
Before == [last |-> last, out |-> out, refused |-> refused]
After(p) == last' = p.last /\ out' = p.out /\ refused' = p.refused

-----------------------------------------------------------------------------
(* The loop learns something *)

\* A query shows a new state of the unit.
UnitMoves ==
    /\ Spend("moves", MaxMoves)
    /\ \E state \in Modes \ {unit} :
         unit' = state /\ After(publishUnit(Before, state, FALSE))
    /\ UNCHANGED <<dispOnline, dispMode, wire, request, queued, synced>>

\* applyDisplay: a mode was read or signalled, a new one or the same again.
DisplayReports ==
    /\ Spend("moves", MaxMoves)
    /\ dispOnline' = TRUE
    /\ \E mode \in Modes :
         dispMode' = mode /\ After(publishDisplay(Before, TRUE, mode, FALSE))
    /\ UNCHANGED <<unit, wire, request, queued, synced>>

\* evDisplayError: the mode stays what it was.
DisplayFails ==
    /\ Spend("moves", MaxMoves)
    /\ dispOnline' = FALSE
    /\ After(publishDisplay(Before, FALSE, dispMode, FALSE))
    /\ UNCHANGED <<unit, dispMode, wire, request, queued, synced>>

-----------------------------------------------------------------------------
(* The connection *)

\* A dial succeeds.  The broker takes the session over, so the will of the one before
\* is out by then, and paho sends again what was not acknowledged.
Connect ==
    /\ link = "down" /\ link' = "up"
    /\ LET before == IF willDue THEN [broker EXCEPT !["availability"] = "offline"] ELSE broker
       IN  broker' = [t \in Topics |-> IF unacked[t] = "none" THEN before[t] ELSE unacked[t]]
    /\ unacked' = [t \in Topics |-> "none"] /\ willDue' = FALSE /\ synced' = FALSE
    /\ hooks' = hooks + 1
    /\ UNCHANGED <<picture, published, request, queued, spent>>

LinkBreaks ==
    /\ link = "up" /\ link' = "dead"
    /\ Spend("losses", MaxLosses)
    /\ willDue' = TRUE /\ synced' = FALSE
    /\ UNCHANGED <<picture, published, broker, hooks, unacked, request, queued>>

ClientNotices ==
    /\ link = "dead" /\ link' = "down"
    /\ UNCHANGED <<picture, published, willDue, broker, hooks, unacked, request, queued,
                   spent, synced>>

BrokerNotices ==
    /\ willDue /\ willDue' = FALSE
    /\ broker' = [broker EXCEPT !["availability"] = "offline"]
    /\ UNCHANGED <<picture, published, link, hooks, unacked, request, queued, spent, synced>>

\* send: the pump skips the oldest message while the client is not connected.  On a
\* connection that is dead without the client knowing it, the message is lost with QoS 0
\* and kept by paho with QoS 1.
Pump ==
    /\ out # <<>> /\ out' = Tail(out)
    /\ LET Put(payloads) == [payloads EXCEPT ![Head(out).topic] = Head(out).value]
       IN  /\ broker' = IF link = "up" THEN Put(broker) ELSE broker
           /\ \E qos \in Qos :
                unacked' = IF link = "dead" /\ qos = 1 THEN Put(unacked) ELSE unacked
    /\ UNCHANGED <<picture, last, refused, link, willDue, hooks, request, queued, spent,
                   synced>>

-----------------------------------------------------------------------------
(* The full republish *)

\* enqueue of an event: one more in the queue, or dropped.
Enqueued(count, count_) ==
    \/ count < EventCap /\ count_ = count + 1 /\ UNCHANGED spent
    \/ count_ = count /\ Spend("drops", MaxDrops)
    \/ count = EventCap /\ count_ = count /\ UNCHANGED spent

\* A faulty form of OnConnect: the event is all there is.
OnConnectEventOnly ==
    /\ hooks > 0 /\ hooks' = hooks - 1
    /\ Enqueued(connectedEvs, connectedEvs')
    /\ UNCHANGED <<picture, published, link, willDue, broker, unacked, request, publishEvs,
                   synced>>

\* handleConnect has put the subscriptions back, or given up on them, and calls the
\* connect callback, the connection being what it may by now.
OnConnect ==
    /\ hooks > 0 /\ hooks' = hooks - 1
    /\ wanted' = TRUE
    /\ Enqueued(connectedEvs, connectedEvs')
    /\ UNCHANGED <<picture, published, link, willDue, broker, unacked, armed, armedAt,
                   publishEvs, synced>>

\* requestFullPublish: the timer starts, or starts over.
RequestFullPublish == armed' = TRUE /\ armedAt' = "recent"

HandleConnected ==
    /\ connectedEvs > 0 /\ connectedEvs' = connectedEvs - 1
    /\ RequestFullPublish
    /\ UNCHANGED <<picture, published, wire, wanted, publishEvs, spent, synced>>

\* Home Assistant announces its start.
HandleBirth ==
    /\ Spend("moves", MaxMoves)
    /\ RequestFullPublish
    /\ UNCHANGED <<picture, published, wire, wanted, queued, synced>>

TimerFires ==
    /\ armed /\ armed' = FALSE
    /\ Enqueued(publishEvs, publishEvs')
    /\ UNCHANGED <<picture, published, wire, wanted, armedAt, connectedEvs, synced>>

\* More than two delays pass after the timer was armed; it has fired by then.
RequestAges ==
    /\ armedAt = "recent" /\ ~armed /\ armedAt' = "old"
    /\ UNCHANGED <<picture, published, wire, wanted, armed, queued, spent, synced>>

\* A faulty form of HandleFullPublish: the cache decides what goes out.
HandleFullPublishCached ==
    /\ publishEvs > 0 /\ publishEvs' = publishEvs - 1
    /\ armedAt' = "never" /\ wanted' = FALSE
    /\ After(republishAll(Before, FALSE))
    /\ synced' = (link = "up")
    /\ UNCHANGED <<picture, wire, armed, connectedEvs, spent>>

HandleFullPublish ==
    /\ publishEvs > 0 /\ publishEvs' = publishEvs - 1
    /\ armedAt' = "never" /\ wanted' = FALSE
    /\ After(republishAll(Before, TRUE))
    /\ synced' = (link = "up")
    /\ UNCHANGED <<picture, wire, armed, connectedEvs, spent>>

\* pollTick, as far as the republish goes.
PollTick ==
    /\ wanted /\ armedAt \in {"never", "old"}
    /\ RequestFullPublish
    /\ UNCHANGED <<picture, published, wire, wanted, queued, spent, synced>>

-----------------------------------------------------------------------------

Loop == HandleConnected \/ HandleFullPublish
Picture == UnitMoves \/ DisplayReports \/ DisplayFails

Next ==
    \/ Picture \/ Loop \/ HandleBirth \/ PollTick
    \/ Connect \/ LinkBreaks \/ ClientNotices \/ BrokerNotices \/ Pump
    \/ OnConnect \/ TimerFires \/ RequestAges

Spec == Init /\ [][Next]_vars

\* The client keeps dialling, both ends notice a broken connection, the pump and the
\* callbacks run, timers fire, the loop takes its events, and the poll ticker ticks.
FairSpec ==
    /\ Spec
    /\ WF_vars(Connect) /\ WF_vars(ClientNotices) /\ WF_vars(BrokerNotices)
    /\ WF_vars(Pump) /\ WF_vars(OnConnect) /\ WF_vars(TimerFires)
    /\ WF_vars(RequestAges) /\ WF_vars(HandleConnected) /\ WF_vars(HandleFullPublish)
    /\ WF_vars(PollTick)

-----------------------------------------------------------------------------
(* What the republish promises *)

\* A queue, once sent, leaves w on a topic that holds v: w is the last that is said of the
\* topic, or nothing is and w is what it holds.
Leaves(queue, topic, v, w) ==
    \/ v = w /\ \A i \in 1 .. Len(queue) : queue[i].topic # topic
    \/ \E i \in 1 .. Len(queue) :
         /\ queue[i] = Msg(topic, w)
         /\ \A j \in i + 1 .. Len(queue) : queue[j].topic # topic

\* The cache does not lie about a connection that has had its republish: what it holds
\* as published is retained or on its way (publish.go:12-14).  Two exceptions are known:
\* what a full Client.out refused, and the state of a display that is away, which the
\* republish leaves out (see DisplayConverges).
CacheCoherent ==
    synced => \A t \in Topics \ (refused \cup {"displayState"}) :
                 Leaves(out, t, broker[t], last[t])

\* A connection that waits for its republish is not forgotten: the callback is still
\* to come, or the flag is up that makes the poll ticker ask again (app.go:78-82).
RepublishOwed == link = "up" /\ ~synced => hooks > 0 \/ wanted

\* However connections break and events are dropped, in the end the daemon is shown as
\* available and the unit in its present state, but for what a full Client.out refused
\* (app.go:78-82, 316-319).
UnitConverges ==
    <>[](/\ broker["availability"] = "online" \/ "availability" \in refused
         /\ unit # "unknown" => broker["unit"] = unit \/ "unit" \in refused)

\* Messages dropped while disconnected do no harm, since the app "keeps a last-payload
\* cache and republishes on reconnect" (client.go:245-247): in the end the display, when
\* shown as available, is shown in its present mode.
DisplayConverges ==
    <>[](broker["displayAvailability"] = "online" /\ refused = {}
            => broker["displayState"] = dispMode)

=============================================================================
