------------------------------- MODULE Client -------------------------------
(***************************************************************************)
(* The MQTT client apart from its cache of payloads (see Republish): the   *)
(* filters it keeps and puts back on every connection, the loop of the     *)
(* first connect, and Close, which has to leave "offline" on the           *)
(* availability topic although a clean DISCONNECT makes the broker drop    *)
(* the will.  (internal/mqtt/client.go, internal/app/app.go)               *)
(*                                                                         *)
(* Of what is published only the availability matters here; every other    *)
(* message is a "state" that takes room in the queue.                      *)
(***************************************************************************)
EXTENDS Naturals, Sequences, FiniteSets

CONSTANTS
    Filters,        \* the filters the app subscribes to
    OutCap,         \* publishQueueSize (1024 in the code)
    MaxConns,       \* bound: connections
    MaxRefused,     \* bound: connects and SUBSCRIBEs that fail on a working network
    MaxStates       \* bound: other messages published

ASSUME ClientAssumption ==
    /\ OutCap \in Nat \ {0} /\ {MaxConns, MaxRefused, MaxStates} \subseteq Nat

VARIABLES
    link,           \* "down", "up", "dead" (broken unnoticed), "closed" by Disconnect
    willDue,        \* the broker is to publish the will of a broken connection
    avail,          \* what the broker retains on the availability topic
    unacked,        \* availabilities sent on a dead connection that paho sends again
    subscribed,     \* the broker's filters for the present connection
    subs,           \* Client.subs
    caller,         \* where the app's Subscribe of each filter is
    hook,           \* the handleConnect goroutine of each connection
    conns,          \* connections so far
    first,          \* connectLoop
    out, pump,      \* Client.out, and what its pump is at
    stop, done,     \* the channels stop and outMsg.done are closed
    close,          \* where Close is
    wanted,         \* the app has a republish to do
    refused, states,    \* failures and other messages so far
    gaveUp,         \* history: filters whose SUBSCRIBE failed on this connection
    missed          \* history: "offline" was not sent, or a reconnect fell into Close

net    == <<link, willDue, avail, unacked, subscribed>>
filing == <<subs, caller, hook, gaveUp>>
queue  == <<out, pump, done>>
ending == <<stop, close, missed>>
app    == <<wanted, states>>
vars   == <<net, filing, conns, first, queue, ending, app, refused>>

Conns    == 1 .. MaxConns
Messages == {"state", "online", "offline"}

TypeOK ==
    /\ link \in {"down", "up", "dead", "closed"} /\ avail \in {"none", "online", "offline"}
    /\ unacked \in {"none", "online", "offline"}
    /\ subscribed \subseteq Filters /\ subs \subseteq Filters /\ gaveUp \subseteq Filters
    /\ caller \in [Filters -> {"new", "recorded", "sending", "done"}]
    /\ hook \in [Conns -> [pc : {"none", "snapshot", "subscribe", "over"}, todo : SUBSET Filters]]
    /\ conns \in 0 .. MaxConns /\ first \in {"none", "try", "wait", "over"}
    /\ out \in Seq(Messages) /\ Len(out) <= OutCap
    /\ pump \in {"idle", "busy", "busyOffline", "over"}
    /\ close \in {"none", "offline", "await", "stop", "disconnect", "over"}
    /\ {willDue, stop, done, wanted, missed} \subseteq BOOLEAN
    /\ refused \in 0 .. MaxRefused /\ states \in 0 .. MaxStates

Init ==
    /\ link = "down" /\ willDue = FALSE /\ avail \in {"none", "offline"} /\ unacked = "none"
    /\ subscribed = {} /\ subs = {} /\ gaveUp = {}
    /\ caller = [f \in Filters |-> "new"]
    /\ hook = [k \in Conns |-> [pc |-> "none", todo |-> {}]]
    /\ conns = 0 /\ first = "none"
    /\ out = <<>> /\ pump = "idle" /\ done = FALSE
    /\ stop = FALSE /\ close = "none" /\ missed = FALSE
    /\ wanted = FALSE /\ refused = 0 /\ states = 0

Refused == refused < MaxRefused /\ refused' = refused + 1

\* IsConnectionOpen: a connection that broke unnoticed counts as open.
IsConnectionOpen == link \in {"up", "dead"}

-----------------------------------------------------------------------------
(* The network *)

\* A CONNECT succeeds.  The broker has forgotten every filter (CleanSession) and has
\* published the will of the connection before; paho sends again what was unacknowledged,
\* and what the pump hangs on goes out.
Connected ==
    /\ conns < MaxConns /\ conns' = conns + 1
    /\ link' = "up" /\ willDue' = FALSE /\ subscribed' = {} /\ gaveUp' = {}
    /\ avail' = IF unacked # "none" THEN unacked ELSE IF willDue THEN "offline" ELSE avail
    /\ unacked' = "none" /\ done' = (done \/ pump = "busyOffline")
    /\ pump' = IF pump \in {"busy", "busyOffline"} THEN "idle" ELSE pump
    /\ hook' = [hook EXCEPT ![conns + 1].pc = "snapshot"]
    /\ missed' = (missed \/ close # "none")

LinkBreaks ==
    /\ link = "up" /\ link' = "dead" /\ willDue' = TRUE
    /\ UNCHANGED <<avail, unacked, subscribed, filing, conns, first, queue, ending, app, refused>>

ClientNotices ==
    /\ link = "dead" /\ link' = "down"
    /\ UNCHANGED <<willDue, avail, unacked, subscribed, filing, conns, first, queue, ending, app,
                   refused>>

BrokerNotices ==
    /\ willDue /\ willDue' = FALSE /\ avail' = "offline"
    /\ UNCHANGED <<link, unacked, subscribed, filing, conns, first, queue, ending, app, refused>>

\* paho's AutoReconnect, once there has been a connection.
Reconnect ==
    /\ link = "down" /\ conns > 0 /\ Connected
    /\ UNCHANGED <<subs, caller, first, out, stop, close, app, refused>>

-----------------------------------------------------------------------------
(* Connect *)

\* The app connects when it has recorded its filters; the client also takes filters later.
Connect ==
    /\ first = "none" /\ close = "none" /\ first' = "try"
    /\ UNCHANGED <<net, filing, conns, queue, ending, app, refused>>

\* A faulty form of FirstConnect: it retries without looking at stop.
FirstConnectForever ==
    /\ first = "try"
    /\ \/ link = "down" /\ Connected /\ first' = "over" /\ UNCHANGED refused
       \/ /\ link = "closed" \/ Refused
          /\ first' = "wait" /\ UNCHANGED <<net, hook, gaveUp, conns, pump, done, missed>>
          /\ (link = "closed" => UNCHANGED refused)
    /\ UNCHANGED <<subs, caller, out, stop, close, app>>

\* connectLoop: an attempt succeeds, fails, or is not made any more.
FirstConnect ==
    /\ first = "try"
    /\ \/ link = "down" /\ Connected /\ first' = "over" /\ UNCHANGED refused
       \/ /\ Refused /\ first' = "wait"
          /\ UNCHANGED <<net, hook, gaveUp, conns, pump, done, missed>>
       \/ /\ stop /\ first' = "over"
          /\ UNCHANGED <<net, hook, gaveUp, conns, pump, done, missed, refused>>
    /\ UNCHANGED <<subs, caller, out, stop, close, app>>

FirstWaited ==
    /\ first = "wait" /\ first' \in {"try"} \cup (IF stop THEN {"over"} ELSE {})
    /\ UNCHANGED <<net, filing, conns, queue, ending, app, refused>>

-----------------------------------------------------------------------------
(* Subscriptions *)

\* subscribeNow: on a working connection the SUBSCRIBE is acknowledged, or refused, or
\* the SUBACK is late; otherwise it comes to nothing.
SubscribeNow(f) ==
    \/ /\ link = "up" /\ subscribed' = subscribed \cup {f} /\ gaveUp' = gaveUp \ {f}
       /\ UNCHANGED refused
    \/ /\ link = "up" /\ Refused /\ gaveUp' = gaveUp \cup {f}
       /\ subscribed' \in {subscribed, subscribed \cup {f}}
    \/ link # "up" /\ UNCHANGED <<subscribed, gaveUp, refused>>

Record(f) ==
    /\ caller[f] = "new" /\ caller' = [caller EXCEPT ![f] = "recorded"]
    /\ subs' = subs \cup {f}
    /\ UNCHANGED <<net, hook, gaveUp, conns, first, queue, ending, app, refused>>

\* A faulty form of Check: the next connect will do.
CheckNever(f) ==
    /\ caller[f] = "recorded" /\ caller' = [caller EXCEPT ![f] = "done"]
    /\ UNCHANGED <<net, subs, hook, gaveUp, conns, first, queue, ending, app, refused>>

\* Subscribe, after it has recorded the filter.
Check(f) ==
    /\ caller[f] = "recorded"
    /\ caller' = [caller EXCEPT ![f] = IF IsConnectionOpen THEN "sending" ELSE "done"]
    /\ UNCHANGED <<net, subs, hook, gaveUp, conns, first, queue, ending, app, refused>>

SubscribesLate(f) ==
    /\ caller[f] = "sending" /\ caller' = [caller EXCEPT ![f] = "done"]
    /\ SubscribeNow(f)
    /\ UNCHANGED <<link, willDue, avail, unacked, subs, hook, conns, first, queue, ending, app>>

\* handleConnect looks up the filters ...
Snapshot(k) ==
    /\ hook[k].pc = "snapshot" /\ hook' = [hook EXCEPT ![k] = [pc |-> "subscribe", todo |-> subs]]
    /\ UNCHANGED <<net, subs, caller, gaveUp, conns, first, queue, ending, app, refused>>

\* ... puts them back one by one, by way of whatever connection there is by then ...
Resubscribe(k) ==
    /\ hook[k].pc = "subscribe"
    /\ \E f \in hook[k].todo :
         hook' = [hook EXCEPT ![k].todo = @ \ {f}] /\ SubscribeNow(f)
    /\ UNCHANGED <<link, willDue, avail, unacked, subs, caller, conns, first, queue, ending, app>>

\* ... and tells the app.
OnConnect(k) ==
    /\ hook[k].pc = "subscribe" /\ hook[k].todo = {}
    /\ hook' = [hook EXCEPT ![k].pc = "over"] /\ wanted' = TRUE
    /\ UNCHANGED <<net, subs, caller, gaveUp, conns, first, queue, ending, states, refused>>

-----------------------------------------------------------------------------
(* Publishing *)

\* A faulty form of Enqueue: a queue without a bound.
EnqueueAlways(m) == out' = Append(out, m)

\* enqueue, while stop is open: a full queue drops the message.
Enqueue(m) == out' = IF Len(out) < OutCap THEN Append(out, m) ELSE out

\* The loop publishes a state, or republishes.
Publish ==
    /\ close = "none"
    /\ \/ states < MaxStates /\ states' = states + 1 /\ Enqueue("state") /\ UNCHANGED wanted
       \/ wanted /\ wanted' = FALSE /\ Enqueue("online") /\ UNCHANGED states
    /\ UNCHANGED <<net, filing, conns, first, pump, done, ending, refused>>

\* send, of the oldest message: skipped without a connection; lost, with QoS 1 to be
\* sent again, on one that is dead, where the pump may hang for a while.
Send ==
    /\ pump = "idle" /\ out # <<>> /\ out' = Tail(out)
    /\ LET m == Head(out)
           isAvail == m # "state"
       IN  /\ avail' = IF link = "up" /\ isAvail THEN m ELSE avail
           /\ IF link = "dead"
              THEN /\ unacked' \in (IF m = "offline" THEN {} ELSE {unacked})
                                   \cup (IF isAvail THEN {m} ELSE {})
                   /\ pump' \in (IF m = "offline" THEN {"busyOffline"} ELSE {"busy", "idle"})
                   /\ UNCHANGED done
              ELSE /\ UNCHANGED <<unacked, pump>> /\ done' = (done \/ m = "offline")
    /\ UNCHANGED <<link, willDue, subscribed, filing, conns, first, ending, app, refused>>

\* paho gives the write up, or publishTimeout passes.
Unblocked ==
    /\ pump \in {"busy", "busyOffline"} /\ pump' = "idle"
    /\ done' = (done \/ pump = "busyOffline")
    /\ UNCHANGED <<net, filing, conns, first, out, ending, app, refused>>

\* With stop closed the pump may still take a message before it returns.
PumpEnds ==
    /\ stop /\ pump = "idle" /\ pump' = "over"
    /\ UNCHANGED <<net, filing, conns, first, out, done, ending, app, refused>>

-----------------------------------------------------------------------------
(* Close *)

\* shutdown: the loop handles no event any more and closes the client.
CloseBegins ==
    /\ close = "none" /\ first # "none"
    /\ close' = IF IsConnectionOpen THEN "offline" ELSE "stop"
    /\ UNCHANGED <<net, filing, conns, first, queue, stop, missed, app, refused>>

\* A faulty form of CloseOffline: "offline" is left to the will.
CloseNoOffline ==
    /\ close = "offline" /\ close' = "stop"
    /\ UNCHANGED <<net, filing, conns, first, queue, stop, missed, app, refused>>

CloseOffline ==
    /\ close = "offline" /\ Enqueue("offline")
    /\ close' = IF Len(out) < OutCap THEN "await" ELSE "stop"
    /\ missed' = (missed \/ Len(out) = OutCap)
    /\ UNCHANGED <<net, filing, conns, first, pump, done, stop, app, refused>>

\* "offline" is out, or offlineTimeout passes: that is longer than a working pump takes.
CloseAwaits ==
    /\ close = "await" /\ close' = "stop"
    /\ done \/ link # "up" \/ pump # "idle"
    /\ UNCHANGED <<net, filing, conns, first, queue, stop, missed, app, refused>>

CloseStops ==
    /\ close = "stop" /\ stop' = TRUE /\ close' = "disconnect"
    /\ UNCHANGED <<net, filing, conns, first, queue, missed, app, refused>>

\* Disconnect: over a working connection the broker drops the will.
Disconnect ==
    /\ close = "disconnect" /\ close' = "over" /\ link' = "closed"
    /\ UNCHANGED <<willDue, avail, unacked, subscribed, filing, conns, first, queue, stop, missed,
                   app, refused>>

-----------------------------------------------------------------------------

Hook(k) == Snapshot(k) \/ Resubscribe(k) \/ OnConnect(k)
First == FirstConnect \/ FirstWaited
Pump  == Send \/ Unblocked \/ PumpEnds
Close == CloseOffline \/ CloseAwaits \/ CloseStops \/ Disconnect

Next ==
    \/ LinkBreaks \/ ClientNotices \/ BrokerNotices \/ Reconnect
    \/ Connect \/ First
    \/ \E f \in Filters : Record(f) \/ Check(f) \/ SubscribesLate(f)
    \/ \E k \in Conns : Hook(k)
    \/ Publish \/ Pump \/ CloseBegins \/ Close

Spec == Init /\ [][Next]_vars

\* Goroutines run and timeouts end; keepalive makes both ends notice a broken connection.
FairSpec ==
    /\ Spec /\ WF_vars(First) /\ WF_vars(Pump) /\ WF_vars(PumpEnds) /\ WF_vars(Close)
    /\ WF_vars(ClientNotices) /\ WF_vars(BrokerNotices) /\ WF_vars(Reconnect)
    /\ \A f \in Filters : WF_vars(Check(f) \/ SubscribesLate(f))
    /\ \A k \in Conns : WF_vars(Hook(k))

-----------------------------------------------------------------------------
(* What the client promises *)

\* "Subscribe records a filter so it survives reconnects and subscribes right away when
\* already connected" (client.go:308-309): with nobody left to see to it, a recorded
\* filter is in place, unless its SUBSCRIBE failed on this connection.
FiltersKept ==
    link = "up" =>
    \A f \in subs :
        \/ f \in subscribed \cup gaveUp \/ caller[f] \in {"recorded", "sending"}
        \/ \E k \in Conns : hook[k].pc = "snapshot" \/ f \in hook[k].todo

\* "if the link is dead the LWT says offline anyway" (client.go:331-332): when Close is
\* over and the broker has noticed what there was to notice, the daemon is not shown as
\* available, unless "offline" found the queue full or a reconnect fell into Close.
OfflineInTheEnd == close = "over" /\ pump = "over" /\ ~willDue => avail # "online" \/ missed

\* "the whole of Close is bounded no matter what state paho is in" (client.go:330-331), and
\* so are the goroutines it ends.
CloseReturns == close # "none" ~> close = "over" /\ pump = "over" /\ first = "over"

=============================================================================
