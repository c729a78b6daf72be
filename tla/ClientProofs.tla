---------------------------- MODULE ClientProofs ----------------------------
(***************************************************************************)
(* Recorded filters survive reconnects, and Close leaves the daemon shown  *)
(* as gone: proved for every set of filters, every capacity of the queue   *)
(* and every number of connections, refusals and messages.                 *)
(***************************************************************************)
EXTENDS Client, SequenceTheorems, TLAPS

-----------------------------------------------------------------------------
(* Types *)

\* Enqueue keeps the queue's type and its capacity.
LEMMA EnqueueFits ==
    ASSUME TypeOK, NEW m \in Messages, Enqueue(m)
    PROVE  out' \in Seq(Messages) /\ Len(out') <= OutCap
<1>1. CASE Len(out) < OutCap
  <2>1. out' = Append(out, m) /\ out \in Seq(Messages)
    BY <1>1 DEF Enqueue, TypeOK
  <2>2. Append(out, m) \in Seq(Messages) /\ Len(Append(out, m)) = Len(out) + 1
    BY <2>1, AppendProperties
  <2>3. Len(out) \in Nat /\ OutCap \in Nat
    BY <2>1, LenProperties, ClientAssumption
  <2> QED
    BY <1>1, <2>1, <2>2, <2>3
<1>2. CASE ~(Len(out) < OutCap)
  BY <1>2 DEF Enqueue, TypeOK
<1> QED
  BY <1>1, <1>2

\* A connection has a number, and a hook of its own.
LEMMA ConnectedTypes ==
    ASSUME TypeOK, Connected
    PROVE  /\ link' = "up" /\ avail' \in {"none", "online", "offline"} /\ unacked' = "none"
           /\ subscribed' = {} /\ gaveUp' = {} /\ conns' \in 0 .. MaxConns
           /\ hook' \in [Conns -> [pc : {"none", "snapshot", "subscribe", "over"},
                                   todo : SUBSET Filters]]
           /\ hook'[conns'].pc = "snapshot" /\ conns' \in Conns
           /\ pump' \in {"idle", "busy", "busyOffline", "over"}
           /\ {willDue', done', missed'} \subseteq BOOLEAN
<1>1. conns + 1 \in Conns /\ conns' = conns + 1 /\ conns' \in 0 .. MaxConns
  BY ClientAssumption DEF TypeOK, Connected, Conns
<1>2. /\ hook' = [hook EXCEPT ![conns + 1].pc = "snapshot"]
      /\ hook \in [Conns -> [pc : {"none", "snapshot", "subscribe", "over"},
                             todo : SUBSET Filters]]
  BY DEF TypeOK, Connected
<1>3. /\ hook' \in [Conns -> [pc : {"none", "snapshot", "subscribe", "over"},
                              todo : SUBSET Filters]]
      /\ hook'[conns + 1].pc = "snapshot"
  BY <1>1, <1>2
<1>4. {willDue', done', missed'} \subseteq BOOLEAN
  BY DEF TypeOK, Connected
<1>5. /\ link' = "up" /\ avail' \in {"none", "online", "offline"} /\ unacked' = "none"
      /\ subscribed' = {} /\ gaveUp' = {}
      /\ pump' \in {"idle", "busy", "busyOffline", "over"}
  BY DEF TypeOK, Connected
<1> QED
  BY <1>1, <1>3, <1>4, <1>5

\* SubscribeNow moves one filter.
LEMMA SubscribeTypes ==
    ASSUME TypeOK, NEW f \in Filters, SubscribeNow(f)
    PROVE  /\ subscribed' \subseteq Filters /\ gaveUp' \subseteq Filters
           /\ refused' \in 0 .. MaxRefused
<1>1. subscribed' \subseteq Filters /\ gaveUp' \subseteq Filters
  BY DEF TypeOK, SubscribeNow, Refused
<1>2. refused' \in 0 .. MaxRefused
  BY ClientAssumption DEF TypeOK, SubscribeNow, Refused
<1> QED
  BY <1>1, <1>2

LEMMA InitTypes == Init => TypeOK
<1> SUFFICES ASSUME Init PROVE TypeOK
  OBVIOUS
<1>1. <<>> \in Seq(Messages) /\ Len(<<>>) = 0
  BY EmptySeq
<1>2. OutCap \in Nat /\ MaxConns \in Nat /\ MaxRefused \in Nat /\ MaxStates \in Nat
  BY ClientAssumption
<1>3. out \in Seq(Messages) /\ Len(out) <= OutCap
  BY <1>1, <1>2 DEF Init
<1>4. conns \in 0 .. MaxConns /\ refused \in 0 .. MaxRefused /\ states \in 0 .. MaxStates
  BY <1>2 DEF Init
<1>5. {willDue, stop, done, wanted, missed} \subseteq BOOLEAN
  BY DEF Init
<1> QED
  BY <1>3, <1>4, <1>5 DEF Init, TypeOK

\* The network and the first connect.
LEMMA NetTypes ==
    ASSUME TypeOK,
           \/ LinkBreaks \/ ClientNotices \/ BrokerNotices \/ Reconnect \/ Connect \/ First
    PROVE  TypeOK'
<1>1. CASE LinkBreaks
  BY <1>1 DEF TypeOK, LinkBreaks, filing, queue, ending, app
<1>2. CASE ClientNotices
  BY <1>2 DEF TypeOK, ClientNotices, filing, queue, ending, app
<1>3. CASE BrokerNotices
  BY <1>3 DEF TypeOK, BrokerNotices, filing, queue, ending, app
<1>4. CASE Reconnect
  <2>1. Connected /\ UNCHANGED <<subs, caller, first, out, stop, close, app, refused>>
    BY <1>4 DEF Reconnect
  <2> QED
    BY <2>1, ConnectedTypes DEF TypeOK, app
<1>5. CASE Connect
  BY <1>5 DEF TypeOK, Connect, net, filing, queue, ending, app
<1>6. CASE FirstConnect
  <2>1. UNCHANGED <<subs, caller, out, stop, close, app>>
    BY <1>6 DEF FirstConnect
  <2>2. CASE link = "down" /\ Connected /\ first' = "over" /\ UNCHANGED refused
    BY <2>1, <2>2, ConnectedTypes DEF TypeOK, app
  <2>3. CASE /\ Refused /\ first' = "wait"
             /\ UNCHANGED <<net, hook, gaveUp, conns, pump, done, missed>>
    <3>1. refused' \in 0 .. MaxRefused
      BY <2>3, ClientAssumption DEF TypeOK, Refused
    <3> QED
      BY <2>1, <2>3, <3>1 DEF TypeOK, net, app
  <2>4. CASE /\ stop /\ first' = "over"
             /\ UNCHANGED <<net, hook, gaveUp, conns, pump, done, missed, refused>>
    BY <2>1, <2>4 DEF TypeOK, net, app
  <2> QED
    BY <1>6, <2>2, <2>3, <2>4 DEF FirstConnect
<1>7. CASE FirstWaited
  BY <1>7 DEF TypeOK, FirstWaited, net, filing, queue, ending, app
<1> QED
  BY <1>1, <1>2, <1>3, <1>4, <1>5, <1>6, <1>7 DEF First

\* Subscriptions, by the app and by the connect callbacks.
LEMMA FilingTypes ==
    ASSUME TypeOK,
           \/ \E f \in Filters : Record(f) \/ Check(f) \/ SubscribesLate(f)
           \/ \E k \in Conns : Hook(k)
    PROVE  TypeOK'
<1>1. ASSUME NEW f \in Filters, Record(f) PROVE TypeOK'
  BY <1>1 DEF TypeOK, Record, net, queue, ending, app
<1>2. ASSUME NEW f \in Filters, Check(f) PROVE TypeOK'
  BY <1>2 DEF TypeOK, Check, net, queue, ending, app
<1>3. ASSUME NEW f \in Filters, SubscribesLate(f) PROVE TypeOK'
  <2>1. SubscribeNow(f)
    BY <1>3 DEF SubscribesLate
  <2> QED
    BY <1>3, <2>1, SubscribeTypes DEF TypeOK, SubscribesLate, queue, ending, app
<1>4. ASSUME NEW k \in Conns, Snapshot(k) PROVE TypeOK'
  BY <1>4 DEF TypeOK, Snapshot, net, queue, ending, app
<1>5. ASSUME NEW k \in Conns, Resubscribe(k) PROVE TypeOK'
  <2>1. PICK f \in hook[k].todo :
          hook' = [hook EXCEPT ![k].todo = @ \ {f}] /\ SubscribeNow(f)
    BY <1>5 DEF Resubscribe
  <2>2. f \in Filters
    BY <1>5, <2>1 DEF TypeOK
  <2>3. hook' \in [Conns -> [pc : {"none", "snapshot", "subscribe", "over"},
                             todo : SUBSET Filters]]
    BY <1>5, <2>1 DEF TypeOK
  <2> QED
    BY <1>5, <2>1, <2>2, <2>3, SubscribeTypes DEF TypeOK, Resubscribe, queue, ending, app
<1>6. ASSUME NEW k \in Conns, OnConnect(k) PROVE TypeOK'
  BY <1>6 DEF TypeOK, OnConnect, net, queue, ending
<1> QED
  BY <1>1, <1>2, <1>3, <1>4, <1>5, <1>6 DEF Hook

\* The queue and its pump.
LEMMA QueueTypes == ASSUME TypeOK, Publish \/ Pump PROVE TypeOK'
<1>1. CASE Publish
  <2>1. out' \in Seq(Messages) /\ Len(out') <= OutCap
    BY <1>1, EnqueueFits DEF Publish, Messages
  <2>2. states' \in 0 .. MaxStates
    BY <1>1, ClientAssumption DEF TypeOK, Publish
  <2>3. wanted' \in BOOLEAN
    BY <1>1 DEF TypeOK, Publish
  <2> QED
    BY <1>1, <2>1, <2>2, <2>3 DEF TypeOK, Publish, net, filing, ending
<1>2. CASE Send
  <2> DEFINE m == Head(out)
             isAvail == m # "state"
  <2>1. out \in Seq(Messages) /\ out # <<>> /\ out' = Tail(out)
    BY <1>2 DEF TypeOK, Send
  <2>2. m \in Messages /\ out' \in Seq(Messages) /\ Len(out') = Len(out) - 1 /\ Len(out) \in Nat
    BY <2>1, HeadTailProperties, LenProperties
  <2>3. Len(out') <= OutCap
    BY <2>2, ClientAssumption DEF TypeOK
  <2>4. isAvail => m \in {"online", "offline"}
    BY <2>2 DEF Messages
  <2>5. avail' \in {"none", "online", "offline"}
    BY <1>2, <2>4 DEF TypeOK, Send
  <2>6. CASE link = "dead"
    <3>1. /\ unacked' \in (IF m = "offline" THEN {} ELSE {unacked})
                          \cup (IF isAvail THEN {m} ELSE {})
          /\ pump' \in (IF m = "offline" THEN {"busyOffline"} ELSE {"busy", "idle"})
          /\ UNCHANGED done
      BY <1>2, <2>6 DEF Send
    <3>2. unacked' \in {"none", "online", "offline"}
      BY <3>1, <2>4 DEF TypeOK
    <3>3. pump' \in {"idle", "busy", "busyOffline", "over"}
      BY <3>1
    <3> HIDE DEF m, isAvail
    <3> QED
      BY <1>2, <2>2, <2>3, <2>5, <3>1, <3>2, <3>3 DEF TypeOK, Send, filing, ending, app
  <2>7. CASE link # "dead"
    <3>1. UNCHANGED <<unacked, pump>> /\ done' = (done \/ m = "offline")
      BY <1>2, <2>7 DEF Send
    <3>2. done' \in BOOLEAN
      BY <3>1 DEF TypeOK
    <3> HIDE DEF m, isAvail
    <3> QED
      BY <1>2, <2>2, <2>3, <2>5, <3>1, <3>2 DEF TypeOK, Send, filing, ending, app
  <2> QED
    BY <2>6, <2>7
<1>3. CASE Unblocked
  <2>1. pump' = "idle" /\ done' \in BOOLEAN
    BY <1>3 DEF TypeOK, Unblocked
  <2> QED
    BY <1>3, <2>1 DEF TypeOK, Unblocked, net, filing, ending, app
<1>4. CASE PumpEnds
  BY <1>4 DEF TypeOK, PumpEnds, net, filing, ending, app
<1> QED
  BY <1>1, <1>2, <1>3, <1>4 DEF Pump

LEMMA CloseTypes == ASSUME TypeOK, CloseBegins \/ Close PROVE TypeOK'
<1>1. CASE CloseBegins
  BY <1>1 DEF TypeOK, CloseBegins, net, filing, queue, app
<1>2. CASE CloseOffline
  <2>1. out' \in Seq(Messages) /\ Len(out') <= OutCap
    BY <1>2, EnqueueFits DEF CloseOffline, Messages
  <2>2. missed' \in BOOLEAN
    BY <1>2 DEF TypeOK, CloseOffline
  <2>3. close' \in {"await", "stop"}
    BY <1>2 DEF CloseOffline
  <2> QED
    BY <1>2, <2>1, <2>2, <2>3 DEF TypeOK, CloseOffline, net, filing, app
<1>3. CASE CloseAwaits
  BY <1>3 DEF TypeOK, CloseAwaits, net, filing, queue, app
<1>4. CASE CloseStops
  BY <1>4 DEF TypeOK, CloseStops, net, filing, queue, app
<1>5. CASE Disconnect
  BY <1>5 DEF TypeOK, Disconnect, filing, queue, app
<1> QED
  BY <1>1, <1>2, <1>3, <1>4, <1>5 DEF Close

LEMMA StepTypes == TypeOK /\ [Next]_vars => TypeOK'
<1> SUFFICES ASSUME TypeOK, [Next]_vars PROVE TypeOK'
  OBVIOUS
<1>1. CASE UNCHANGED vars
  BY <1>1 DEF TypeOK, vars, net, filing, queue, ending, app
<1> QED
  BY <1>1, NetTypes, FilingTypes, QueueTypes, CloseTypes DEF Next

\* Every variable of the client keeps its type, and the outbound queue its capacity.
THEOREM TypeCorrect == Spec => []TypeOK
BY InitTypes, StepTypes, PTL DEF Spec

-----------------------------------------------------------------------------
(* Recorded filters are in place *)

\* A new connection has a hook that has yet to look up the filters.
LEMMA ConnectedKeeps == ASSUME TypeOK, Connected PROVE FiltersKept'
<1>1. conns' \in Conns /\ hook'[conns'].pc = "snapshot"
  BY ConnectedTypes
<1> QED
  BY <1>1 DEF FiltersKept

\* SubscribeNow settles its own filter on a working connection and no other's.
LEMMA SubscribeSettles ==
    ASSUME NEW f, SubscribeNow(f), link = "up"
    PROVE  /\ f \in subscribed' \cup gaveUp'
           /\ subscribed \cup gaveUp \subseteq subscribed' \cup gaveUp'
BY DEF SubscribeNow

\* Without a connection that works there is nothing to keep; with one, what a step
\* leaves alone stays in place.
LEMMA UntouchedKept ==
    ASSUME FiltersKept, UNCHANGED <<subs, subscribed, gaveUp, caller, hook>>,
           link' = "up" => link = "up"
    PROVE  FiltersKept'
BY DEF FiltersKept

\* The network, the first connect, the queue and Close.
LEMMA OthersKeep ==
    ASSUME TypeOK, FiltersKept,
           \/ LinkBreaks \/ ClientNotices \/ BrokerNotices \/ Reconnect
           \/ Connect \/ First \/ Publish \/ Pump \/ CloseBegins \/ Close
    PROVE  FiltersKept'
<1>1. CASE Reconnect
  BY <1>1, ConnectedKeeps DEF Reconnect
<1>2. CASE FirstConnect
  <2>1. CASE Connected
    BY <2>1, ConnectedKeeps
  <2>2. CASE UNCHANGED <<net, hook, gaveUp, subs, caller>>
    BY <2>2, UntouchedKept DEF net
  <2> QED
    BY <1>2, <2>1, <2>2 DEF FirstConnect
<1>3. CASE LinkBreaks \/ ClientNotices \/ BrokerNotices
  BY <1>3, UntouchedKept DEF LinkBreaks, ClientNotices, BrokerNotices, filing
<1>4. CASE Connect \/ FirstWaited
  BY <1>4, UntouchedKept DEF Connect, FirstWaited, net, filing
<1>5. CASE Publish \/ Send \/ Unblocked \/ PumpEnds
  BY <1>5, UntouchedKept DEF Publish, Send, Unblocked, PumpEnds, net, filing
<1>6. CASE CloseBegins \/ CloseOffline \/ CloseAwaits \/ CloseStops \/ Disconnect
  BY <1>6, UntouchedKept
  DEF CloseBegins, CloseOffline, CloseAwaits, CloseStops, Disconnect, net, filing
<1> QED
  BY <1>1, <1>2, <1>3, <1>4, <1>5, <1>6 DEF First, Pump, Close

\* The app's Subscribe: between recording and sending it answers for the filter itself.
LEMMA CallerKeeps ==
    ASSUME TypeOK, FiltersKept, NEW f \in Filters, Record(f) \/ Check(f) \/ SubscribesLate(f)
    PROVE  FiltersKept'
<1> SUFFICES ASSUME link' = "up", NEW g \in subs'
             PROVE  \/ g \in subscribed' \cup gaveUp' \/ caller'[g] \in {"recorded", "sending"}
                    \/ \E k \in Conns : hook'[k].pc = "snapshot" \/ g \in hook'[k].todo
  BY DEF FiltersKept
<1>1. CASE Record(f)
  <2>1. caller'[f] = "recorded" /\ \A h \in Filters \ {f} : caller'[h] = caller[h]
    BY <1>1 DEF Record, TypeOK
  <2>2. subs' = subs \cup {f} /\ UNCHANGED <<link, subscribed, gaveUp, hook>>
    BY <1>1 DEF Record, net
  <2>3. CASE g = f
    BY <2>1, <2>3
  <2>4. CASE g # f
    BY <2>1, <2>2, <2>4 DEF FiltersKept, TypeOK
  <2> QED
    BY <2>3, <2>4
<1>2. CASE Check(f)
  <2>1. UNCHANGED <<link, subscribed, subs, gaveUp, hook>>
    BY <1>2 DEF Check, net
  <2>2. caller'[f] = "sending"
    BY <1>2, <2>1 DEF Check, IsConnectionOpen, TypeOK
  <2>3. g # f => caller'[g] = caller[g]
    BY <1>2, <2>1 DEF Check, TypeOK
  <2> QED
    BY <2>1, <2>2, <2>3 DEF FiltersKept
<1>3. CASE SubscribesLate(f)
  <2>1. UNCHANGED <<link, subs, hook>> /\ SubscribeNow(f)
    BY <1>3 DEF SubscribesLate
  <2>2. g # f => caller'[g] = caller[g]
    BY <1>3, <2>1 DEF SubscribesLate, TypeOK
  <2> QED
    BY <2>1, <2>2, SubscribeSettles DEF FiltersKept
<1> QED
  BY <1>1, <1>2, <1>3

\* A connect callback answers for every filter until it has looked them up, and then for
\* those it has still to do.
LEMMA HookKeeps ==
    ASSUME TypeOK, FiltersKept, NEW k \in Conns, Hook(k)
    PROVE  FiltersKept'
<1> SUFFICES ASSUME link' = "up", NEW g \in subs'
             PROVE  \/ g \in subscribed' \cup gaveUp' \/ caller'[g] \in {"recorded", "sending"}
                    \/ \E j \in Conns : hook'[j].pc = "snapshot" \/ g \in hook'[j].todo
  BY DEF FiltersKept
<1>1. /\ hook \in [Conns -> [pc : {"none", "snapshot", "subscribe", "over"},
                             todo : SUBSET Filters]]
  BY DEF TypeOK
<1>2. CASE Snapshot(k)
  <2>1. hook'[k].todo = subs /\ UNCHANGED subs
    BY <1>1, <1>2 DEF Snapshot
  <2> QED
    BY <2>1
<1>3. CASE Resubscribe(k)
  <2>1. PICK f \in hook[k].todo :
          hook' = [hook EXCEPT ![k].todo = @ \ {f}] /\ SubscribeNow(f)
    BY <1>3 DEF Resubscribe
  <2>2. UNCHANGED <<link, subs, caller>>
    BY <1>3 DEF Resubscribe
  <2>3. /\ f \in subscribed' \cup gaveUp'
        /\ subscribed \cup gaveUp \subseteq subscribed' \cup gaveUp'
    BY <2>1, <2>2, SubscribeSettles
  <2>4. \A j \in Conns : hook'[j].pc = hook[j].pc /\ hook[j].todo \ {f} \subseteq hook'[j].todo
    BY <1>1, <2>1
  <2> QED
    BY <2>2, <2>3, <2>4 DEF FiltersKept
<1>4. CASE OnConnect(k)
  <2>1. hook[k].pc = "subscribe" /\ UNCHANGED <<link, subs, caller, subscribed, gaveUp>>
    BY <1>4 DEF OnConnect, net
  <2>2. \A j \in Conns : hook'[j].todo = hook[j].todo /\ (j # k => hook'[j].pc = hook[j].pc)
    BY <1>1, <1>4 DEF OnConnect
  <2> QED
    BY <2>1, <2>2 DEF FiltersKept
<1> QED
  BY <1>2, <1>3, <1>4 DEF Hook

LEMMA StepKeeps == TypeOK /\ FiltersKept /\ [Next]_vars => FiltersKept'
<1> SUFFICES ASSUME TypeOK, FiltersKept, [Next]_vars PROVE FiltersKept'
  OBVIOUS
<1>1. CASE UNCHANGED vars
  BY <1>1, UntouchedKept DEF vars, net, filing
<1> QED
  BY <1>1, OthersKeep, CallerKeeps, HookKeeps DEF Next

\* "Subscribe records a filter so it survives reconnects and subscribes right away when
\* already connected" (client.go:308-309): a recorded filter is in place, or somebody has
\* yet to see to it, or its SUBSCRIBE failed on this connection.
THEOREM FiltersAlwaysKept == Spec => []FiltersKept
<1>1. Init => FiltersKept
  BY DEF Init, FiltersKept
<1> QED
  BY <1>1, TypeCorrect, StepKeeps, PTL DEF Spec

-----------------------------------------------------------------------------
(* Offline in the end: the inductive invariant *)

\* Before Close has said "offline", nobody has.
NotYetSaid ==
    close \in {"none", "offline"} =>
    ~done /\ pump # "busyOffline" /\ \A i \in 1 .. Len(out) : out[i] # "offline"

\* The pump hangs on dead connections only and runs until stop; a broken connection has a
\* will to come, unless the broker has published it; Disconnect is the last act.
Wills ==
    /\ link = "up" => pump \notin {"busy", "busyOffline"}
    /\ pump = "over" => stop
    /\ stop => close \in {"disconnect", "over"}
    /\ link \in {"dead", "down"} => willDue \/ avail # "online"
    /\ close = "over" <=> link = "closed"

\* "offline" is the last message of the queue, and the only one of its kind.
OfflineLast ==
    /\ out # <<>> /\ out[Len(out)] = "offline" /\ ~done
    /\ \A i \in 1 .. Len(out) - 1 : out[i] # "offline"

Said == out = <<>> /\ avail = "offline"

\* As long as the connection at which Close began is up, "offline" is on its way or has
\* arrived, and has arrived when Close goes on; afterwards the will, or "offline", stands.
Farewell ==
    ~missed =>
    /\ link = "up" /\ close = "await" => OfflineLast \/ Said
    /\ link = "up" /\ close \in {"stop", "disconnect"} => Said
    /\ close = "over" => willDue \/ avail # "online"

OInv == NotYetSaid /\ Wills /\ Farewell

-----------------------------------------------------------------------------
(* Offline in the end: the steps *)

\* The app's side of the subscriptions and of the first connect has no part in it.
LEMMA UntouchedFarewell ==
    ASSUME OInv, UNCHANGED <<link, willDue, avail, out, pump, done, stop, close, missed>>
    PROVE  OInv'
BY DEF OInv, NotYetSaid, Wills, Farewell, OfflineLast, Said

\* A connection that comes up meanwhile is the exception that `missed' names.
LEMMA ConnectedFarewell ==
    ASSUME TypeOK, OInv, link = "down", Connected, UNCHANGED <<out, stop, close>>
    PROVE  OInv'
<1>1. /\ link' = "up" /\ (missed' <=> missed \/ close # "none")
      /\ done' = (done \/ pump = "busyOffline")
      /\ pump' = IF pump \in {"busy", "busyOffline"} THEN "idle" ELSE pump
  BY DEF Connected
<1>2. NotYetSaid'
  BY <1>1 DEF OInv, NotYetSaid
<1>3. Wills'
  BY <1>1 DEF OInv, Wills
<1>4. Farewell'
  BY <1>1 DEF Farewell
<1> QED
  BY <1>2, <1>3, <1>4 DEF OInv

\* The network breaks, and its two ends notice.
LEMMA NetFarewell ==
    ASSUME TypeOK, OInv, LinkBreaks \/ ClientNotices \/ BrokerNotices
    PROVE  OInv'
<1>1. CASE LinkBreaks
  BY <1>1 DEF LinkBreaks, OInv, NotYetSaid, Wills, Farewell, queue, ending
<1>2. CASE ClientNotices
  BY <1>2 DEF ClientNotices, OInv, NotYetSaid, Wills, Farewell, queue, ending
<1>3. CASE BrokerNotices
  BY <1>3 DEF BrokerNotices, OInv, NotYetSaid, Wills, Farewell, OfflineLast, Said, queue, ending
<1> QED
  BY <1>1, <1>2, <1>3

\* What Enqueue does to the messages.
LEMMA EnqueueAppends ==
    ASSUME TypeOK, NEW m \in Messages, Enqueue(m)
    PROVE  \/ UNCHANGED out /\ Len(out) = OutCap
           \/ /\ Len(out) < OutCap /\ out' # <<>> /\ Len(out) \in Nat /\ Len(out') = Len(out) + 1
              /\ out'[Len(out) + 1] = m /\ \A i \in 1 .. Len(out) : out'[i] = out[i]
<1>1. out \in Seq(Messages) /\ Len(out) \in Nat /\ Len(out) <= OutCap /\ OutCap \in Nat
  BY LenProperties, ClientAssumption DEF TypeOK
<1>2. CASE Len(out) < OutCap
  <2>1. out' = Append(out, m)
    BY <1>2 DEF Enqueue
  <2>2. /\ Append(out, m) # <<>> /\ Len(Append(out, m)) = Len(out) + 1
        /\ Append(out, m)[Len(out) + 1] = m
        /\ \A i \in 1 .. Len(out) : Append(out, m)[i] = out[i]
    BY <1>1, AppendProperties
  <2> QED
    BY <1>1, <1>2, <2>1, <2>2
<1>3. CASE ~(Len(out) < OutCap)
  BY <1>1, <1>3 DEF Enqueue
<1> QED
  BY <1>2, <1>3

\* The loop publishes before Close only, and never "offline".
LEMMA PublishFarewell == ASSUME TypeOK, OInv, Publish PROVE OInv'
<1>1. /\ close = "none" /\ UNCHANGED <<link, willDue, avail, pump, done, stop, close, missed>>
      /\ \E m \in {"state", "online"} : Enqueue(m)
  BY DEF Publish, net, ending
<1>2. NotYetSaid'
  <2>1. PICK m \in {"state", "online"} : Enqueue(m)
    BY <1>1
  <2>2. m \in Messages /\ m # "offline"
    BY DEF Messages
  <2>3. Len(out) \in Nat /\ \A i \in 1 .. Len(out) : out[i] # "offline"
    BY <1>1, LenProperties DEF OInv, NotYetSaid, TypeOK
  <2>4. \A i \in 1 .. Len(out') : out'[i] # "offline"
    BY <2>1, <2>2, <2>3, EnqueueAppends
  <2> QED
    BY <1>1, <2>4 DEF OInv, NotYetSaid
<1>3. Wills' /\ Farewell'
  BY <1>1 DEF OInv, Wills, Farewell
<1> QED
  BY <1>2, <1>3 DEF OInv

\* CloseOffline puts "offline" behind everything else, or misses it.
LEMMA CloseOfflineFarewell == ASSUME TypeOK, OInv, CloseOffline PROVE OInv'
<1>1. /\ close = "offline" /\ Enqueue("offline") /\ close' \in {"await", "stop"}
      /\ close' = IF Len(out) < OutCap THEN "await" ELSE "stop"
      /\ missed' = (missed \/ Len(out) = OutCap)
      /\ UNCHANGED <<link, willDue, avail, pump, done, stop>>
  BY DEF CloseOffline, net
<1>2. NotYetSaid' /\ Wills'
  BY <1>1 DEF OInv, NotYetSaid, Wills
<1>3. Farewell'
  <2>1. CASE UNCHANGED out /\ Len(out) = OutCap
    BY <1>1, <2>1 DEF Farewell
  <2>2. CASE /\ Len(out) < OutCap /\ out' # <<>> /\ Len(out) \in Nat /\ Len(out') = Len(out) + 1
             /\ out'[Len(out) + 1] = "offline" /\ \A i \in 1 .. Len(out) : out'[i] = out[i]
    <3>1. close' = "await" /\ ~done
      BY <1>1, <2>2 DEF OInv, NotYetSaid
    <3>2. \A i \in 1 .. Len(out) : out'[i] # "offline"
      BY <1>1, <2>2 DEF OInv, NotYetSaid
    <3>3. OfflineLast'
      BY <1>1, <2>2, <3>1, <3>2 DEF OfflineLast
    <3> QED
      BY <3>1, <3>3 DEF Farewell
  <2>3. "offline" \in Messages
    BY DEF Messages
  <2> QED
    BY <1>1, <2>1, <2>2, <2>3, EnqueueAppends
<1> QED
  BY <1>2, <1>3 DEF OInv

\* Close waits until "offline" is out, as long as the connection is up: then the pump is
\* neither hanging nor stopped.
LEMMA CloseFarewell ==
    ASSUME TypeOK, OInv, CloseBegins \/ CloseAwaits \/ CloseStops \/ Disconnect
    PROVE  OInv'
<1>1. CASE CloseBegins
  BY <1>1
  DEF CloseBegins, IsConnectionOpen, OInv, NotYetSaid, Wills, Farewell, OfflineLast, Said, net, queue
<1>2. CASE CloseAwaits
  <2>1. /\ close = "await" /\ close' = "stop" /\ (done \/ link # "up" \/ pump # "idle")
        /\ UNCHANGED <<link, willDue, avail, out, pump, done, stop, missed>>
    BY <1>2 DEF CloseAwaits, net, queue
  <2>2. link = "up" => done
    BY <2>1 DEF OInv, Wills, TypeOK
  <2>3. ~missed /\ link = "up" => Said
    BY <2>1, <2>2 DEF OInv, Farewell, OfflineLast
  <2> QED
    BY <2>1, <2>3 DEF OInv, NotYetSaid, Wills, Farewell, Said
<1>3. CASE CloseStops
  BY <1>3 DEF CloseStops, OInv, NotYetSaid, Wills, Farewell, Said, net, queue
<1>4. CASE Disconnect
  <2>1. /\ close = "disconnect" /\ close' = "over" /\ link' = "closed"
        /\ UNCHANGED <<willDue, avail, out, pump, done, stop, missed>>
    BY <1>4 DEF Disconnect, queue
  <2>2. ~missed => willDue \/ avail # "online"
    BY <2>1 DEF OInv, Farewell, Wills, Said, TypeOK
  <2> QED
    BY <2>1, <2>2 DEF OInv, NotYetSaid, Wills, Farewell
<1> QED
  BY <1>1, <1>2, <1>3, <1>4

\* The pump sends the oldest message: what is last stays last, until it is the oldest.
LEMMA SendFarewell == ASSUME TypeOK, OInv, Send PROVE OInv'
<1> DEFINE m == Head(out)
<1>1. /\ pump = "idle" /\ out # <<>> /\ out' = Tail(out)
      /\ UNCHANGED <<link, willDue, stop, close, missed>>
      /\ avail' = IF link = "up" /\ m # "state" THEN m ELSE avail
  BY DEF Send, ending
<1>2. /\ link = "dead" => /\ pump' \in (IF m = "offline" THEN {"busyOffline"} ELSE {"busy", "idle"})
                          /\ UNCHANGED done
      /\ link # "dead" => UNCHANGED pump /\ done' = (done \/ m = "offline")
  BY DEF Send
<1>3. /\ out \in Seq(Messages) /\ Len(out) \in Nat /\ Len(out) > 0 /\ Tail(out) \in Seq(Messages)
      /\ m = out[1] /\ Len(out') = Len(out) - 1
      /\ \A i \in 1 .. Len(out') : out'[i] = out[i + 1]
  BY <1>1, HeadTailProperties, LenProperties DEF TypeOK
<1> HIDE DEF m
<1>4. NotYetSaid'
  <2> SUFFICES ASSUME close \in {"none", "offline"}
               PROVE  /\ ~done' /\ pump' # "busyOffline"
                      /\ \A i \in 1 .. Len(out') : out'[i] # "offline"
    BY <1>1 DEF NotYetSaid
  <2>1. ~done /\ \A i \in 1 .. Len(out) : out[i] # "offline"
    BY DEF OInv, NotYetSaid
  <2>2. m # "offline"
    BY <1>3, <2>1
  <2>3. ~done' /\ pump' # "busyOffline"
    <3>1. CASE link = "dead"
      <4>1. pump' \in {"busy", "idle"} /\ UNCHANGED done
        BY <1>2, <2>2, <3>1
      <4> QED
        BY <2>1, <4>1
    <3>2. CASE link # "dead"
      <4>1. UNCHANGED pump /\ done' = (done \/ m = "offline")
        BY <1>2, <3>2
      <4>2. pump' # "busyOffline"
        BY <1>1, <4>1
      <4>3. ~done'
        BY <2>1, <2>2, <4>1, Zenon
      <4> QED
        BY <4>2, <4>3
    <3> QED
      BY <3>1, <3>2
  <2>4. \A i \in 1 .. Len(out') : out'[i] # "offline"
    BY <1>3, <2>1
  <2> QED
    BY <2>3, <2>4
<1>5. Wills'
  BY <1>1, <1>2 DEF OInv, Wills
<1>6. Farewell'
  <2> SUFFICES ASSUME ~missed PROVE Farewell'
    BY <1>1 DEF Farewell
  <2>1. ASSUME link = "up", close = "await" PROVE (OfflineLast \/ Said)'
    <3>1. CASE Said
      BY <1>1, <3>1 DEF Said
    <3>2. CASE OfflineLast /\ Len(out) = 1
      <4>1. m = "offline" /\ avail' = "offline"
        BY <1>1, <1>3, <2>1, <3>2 DEF OfflineLast
      <4>2. out' = <<>>
        BY <1>1, <1>3, <3>2, EmptySeq
      <4> QED
        BY <4>1, <4>2 DEF Said
    <3>3. CASE OfflineLast /\ Len(out) # 1
      <4>1. m # "offline"
        BY <1>3, <3>3 DEF OfflineLast
      <4>2. ~done'
        BY <1>2, <2>1, <3>3, <4>1 DEF OfflineLast
      <4>3. out' # <<>>
        BY <1>3, <3>3, EmptySeq
      <4>4. out'[Len(out')] = "offline"
        BY <1>3, <3>3 DEF OfflineLast
      <4>5. \A i \in 1 .. Len(out') - 1 : out'[i] # "offline"
        BY <1>3, <3>3 DEF OfflineLast
      <4> QED
        BY <4>2, <4>3, <4>4, <4>5 DEF OfflineLast
    <3> QED
      BY <2>1, <3>1, <3>2, <3>3 DEF OInv, Farewell
  <2>2. ~(link = "up" /\ close \in {"stop", "disconnect"})
    BY <1>1 DEF OInv, Farewell, Said
  <2>3. close = "over" => (willDue \/ avail # "online") /\ UNCHANGED avail
    BY <1>1 DEF OInv, Farewell, Wills
  <2> QED
    BY <1>1, <2>1, <2>2, <2>3 DEF Farewell
<1> QED
  BY <1>4, <1>5, <1>6 DEF OInv

LEMMA PumpFarewell == ASSUME TypeOK, OInv, Unblocked \/ PumpEnds PROVE OInv'
<1>1. CASE Unblocked
  <2>1. /\ pump \in {"busy", "busyOffline"} /\ pump' = "idle" /\ done' = (done \/ pump = "busyOffline")
        /\ UNCHANGED <<link, willDue, avail, out, stop, close, missed>>
    BY <1>1 DEF Unblocked, net, ending
  <2>2. link # "up"
    BY <2>1 DEF OInv, Wills
  <2> QED
    BY <2>1, <2>2 DEF OInv, NotYetSaid, Wills, Farewell
<1>2. CASE PumpEnds
  BY <1>2 DEF PumpEnds, OInv, NotYetSaid, Wills, Farewell, OfflineLast, Said, net, ending
<1> QED
  BY <1>1, <1>2

LEMMA StepFarewell == TypeOK /\ OInv /\ [Next]_vars => OInv'
<1> SUFFICES ASSUME TypeOK, OInv, [Next]_vars PROVE OInv'
  OBVIOUS
<1>1. CASE Reconnect
  BY <1>1, ConnectedFarewell DEF Reconnect
<1>2. CASE FirstConnect
  <2>1. CASE link = "down" /\ Connected
    BY <1>2, <2>1, ConnectedFarewell DEF FirstConnect
  <2>2. CASE UNCHANGED <<net, hook, gaveUp, conns, pump, done, missed>>
    BY <1>2, <2>2, UntouchedFarewell DEF FirstConnect, net
  <2> QED
    BY <1>2, <2>1, <2>2 DEF FirstConnect
<1>3. CASE Connect \/ FirstWaited \/ UNCHANGED vars
  BY <1>3, UntouchedFarewell DEF Connect, FirstWaited, vars, net, queue, ending
<1>4. CASE \/ \E f \in Filters : Record(f) \/ Check(f) \/ SubscribesLate(f)
           \/ \E k \in Conns : Hook(k)
  BY <1>4, UntouchedFarewell
  DEF Record, Check, SubscribesLate, Hook, Snapshot, Resubscribe, OnConnect, net, queue, ending
<1>5. CASE LinkBreaks \/ ClientNotices \/ BrokerNotices \/ Publish \/ CloseOffline
  BY <1>5, NetFarewell, PublishFarewell, CloseOfflineFarewell
<1>6. CASE Send \/ Unblocked \/ PumpEnds
  BY <1>6, SendFarewell, PumpFarewell
<1>7. CASE CloseBegins \/ CloseAwaits \/ CloseStops \/ Disconnect
  BY <1>7, CloseFarewell
<1> QED
  BY <1>1, <1>2, <1>3, <1>4, <1>5, <1>6, <1>7 DEF Next, First, Pump, Close

\* "if the link is dead the LWT says offline anyway" (client.go:331-332): when Close is
\* over and the broker has noticed what there was to notice, the daemon is not shown as
\* available, unless "offline" found the queue full or a reconnect fell into Close.
THEOREM OfflineAlwaysInTheEnd == Spec => []OfflineInTheEnd
<1>1. Init => OInv
  <2> SUFFICES ASSUME Init PROVE OInv
    OBVIOUS
  <2>1. Len(out) = 0
    BY EmptySeq DEF Init
  <2>2. NotYetSaid
    BY <2>1 DEF Init, NotYetSaid
  <2>3. Wills /\ Farewell
    BY DEF Init, Wills, Farewell
  <2> QED
    BY <2>2, <2>3 DEF OInv
<1>2. OInv => OfflineInTheEnd
  BY DEF OInv, Farewell, OfflineInTheEnd
<1> QED
  BY <1>1, <1>2, TypeCorrect, StepFarewell, PTL DEF Spec

=============================================================================
