----------------------------- MODULE EventLoop -----------------------------
(***************************************************************************)
(* How a change of a unit travels from systemd to the daemon's picture of  *)
(* it: the signal pump of a connection, the wake hints that are forwarded  *)
(* and coalesced on the way, the bridge that turns them into events, the   *)
(* bounded event queue that drops what does not fit, the debounce timer,   *)
(* the query, and the poll ticker that is to repair whatever was dropped.  *)
(* (internal/systemd/conn.go, supervisor.go; internal/app/app.go,          *)
(* reconcile.go)                                                           *)
(*                                                                         *)
(* The states of all units of a scope are one version number, truth[s];    *)
(* seen[s] is the version of the last query that succeeded, 0 before the   *)
(* first.  A step is one channel operation or one handler of the loop.  A  *)
(* handler is atomic: it is the only reader and writer of the loop's       *)
(* state, and its query reads the truth at one instant.  The supervisor    *)
(* appears as the sessions it establishes and ends (see Supervisor).       *)
(***************************************************************************)
EXTENDS Naturals, Sequences

CONSTANTS
    Scopes,         \* the scopes of the configuration
    QueueCap,       \* eventQueueSize (256 in the code)
    StateBuf,       \* capacity of a supervisor's stateCh (4 in the code)
    MaxVersion,     \* bound: versions of the unit states of a scope
    MaxFaults,      \* bound: managers that hang or leave the bus
    MaxTimers       \* bound: debounce timers of a scope armed at a time

ASSUME EventLoopAssumption ==
    /\ QueueCap \in Nat \ {0} /\ StateBuf \in Nat \ {0}
    /\ MaxVersion \in Nat /\ MaxFaults \in Nat /\ MaxTimers \in Nat \ {0}

VARIABLES
    truth,          \* systemd: version of the unit states of each scope
    manager,        \* systemd: whether the manager of the session answers
    signal,         \* a properties update, or the overflow notice, waits for pump
    connWake,       \* the cap-1 channel of Conn.Wake
    session,        \* where Supervisor.Run stands
    strikes,        \* failed queries in a row; at 2 the redial token is out
    stateCh,        \* the announcements of Supervisor.StateChanges
    supWake,        \* the cap-1 channel of Supervisor.Wake
    events,         \* App.events, oldest first
    wakePending, pending, busOnline,    \* fields of App of the same names
    timers,         \* debounce timers that have not fired yet
    seen,           \* version the loop learned and published last
    faults,         \* managers that hung or left so far
    lost            \* history: scopes of which an event or announcement was dropped

systemd    == <<truth, manager, signal, connWake>>
supervisor == <<session, strikes, stateCh, supWake>>
loop       == <<pending, busOnline, seen>>
vars == <<systemd, supervisor, events, wakePending, loop, timers, faults, lost>>

Kinds == {"wake", "reconcile", "online", "offline", "job", "other"}
Event == Kinds \X Scopes

NumbersOK ==
    /\ truth \in [Scopes -> Nat] /\ seen \in [Scopes -> Nat]
    /\ timers \in [Scopes -> Nat] /\ strikes \in [Scopes -> 0..2]
    /\ faults \in Nat
    /\ manager \in [Scopes -> {"fine", "hung", "gone"}]
    /\ session \in [Scopes -> {"down", "rising", "up", "falling"}]
    /\ lost \subseteq Scopes

FlagsOK ==
    /\ signal \in [Scopes -> BOOLEAN] /\ connWake \in [Scopes -> BOOLEAN]
    /\ supWake \in [Scopes -> BOOLEAN] /\ wakePending \in [Scopes -> BOOLEAN]
    /\ pending \in [Scopes -> BOOLEAN] /\ busOnline \in [Scopes -> BOOLEAN]

QueuesOK ==
    /\ stateCh \in [Scopes -> Seq(BOOLEAN)]
    /\ \A s \in Scopes : Len(stateCh[s]) <= StateBuf
    /\ events \in Seq(Event) /\ Len(events) <= QueueCap

TypeOK == NumbersOK /\ FlagsOK /\ QueuesOK

Everywhere(x) == [s \in Scopes |-> x]

Init ==
    /\ truth = Everywhere(1) /\ seen = Everywhere(0)
    /\ manager = Everywhere("fine") /\ session = Everywhere("down")
    /\ signal = Everywhere(FALSE) /\ connWake = Everywhere(FALSE)
    /\ supWake = Everywhere(FALSE) /\ wakePending = Everywhere(FALSE)
    /\ pending = Everywhere(FALSE) /\ busOnline = Everywhere(FALSE)
    /\ strikes = Everywhere(0) /\ timers = Everywhere(0)
    /\ stateCh = Everywhere(<<>>) /\ events = <<>>
    /\ faults = 0 /\ lost = {}

Online(s) == session[s] \in {"rising", "up"}

-----------------------------------------------------------------------------
(* systemd and the connection to it *)

\* A unit moves.  A connection that lives, one still being set up included, gets a
\* signal for it; a manager that hangs moves nothing.
UnitChanges(s) ==
    /\ truth[s] < MaxVersion /\ manager[s] # "hung"
    /\ truth' = [truth EXCEPT ![s] = @ + 1]
    /\ signal' = [signal EXCEPT ![s] = @ \/ (session[s] # "down" /\ manager[s] = "fine")]
    /\ UNCHANGED <<manager, connWake, supervisor, events, wakePending, loop, timers,
                   faults, lost>>

ManagerFails(s) ==
    /\ session[s] # "down" /\ manager[s] = "fine" /\ faults < MaxFaults
    /\ \E m \in {"hung", "gone"} : manager' = [manager EXCEPT ![s] = m]
    /\ faults' = faults + 1
    /\ UNCHANGED <<truth, signal, connWake, supervisor, events, wakePending, loop,
                   timers, lost>>

ManagerRecovers(s) ==
    /\ manager[s] = "hung"
    /\ manager' = [manager EXCEPT ![s] = "fine"]
    /\ UNCHANGED <<truth, signal, connWake, supervisor, events, wakePending, loop,
                   timers, faults, lost>>

\* pump: whatever the bus says about a watched unit becomes one hint.
Pump(s) ==
    /\ signal[s] /\ session[s] # "down"
    /\ signal' = [signal EXCEPT ![s] = FALSE]
    /\ connWake' = [connWake EXCEPT ![s] = TRUE]
    /\ UNCHANGED <<truth, manager, supervisor, events, wakePending, loop, timers,
                   faults, lost>>

-----------------------------------------------------------------------------
(* The supervisor: sessions, announcements, forwarded hints *)

SessionStarts(s) ==
    /\ session[s] = "down"
    /\ session' = [session EXCEPT ![s] = "rising"]
    /\ manager' = [manager EXCEPT ![s] = "fine"]
    /\ strikes' = [strikes EXCEPT ![s] = 0]
    /\ UNCHANGED <<truth, signal, connWake, stateCh, supWake, events, wakePending,
                   loop, timers, faults, lost>>

\* notify: the announcement is dropped when the reader left the buffer full.
Announce(s, online) ==
    IF Len(stateCh[s]) < StateBuf
    THEN stateCh' = [stateCh EXCEPT ![s] = Append(@, online)] /\ UNCHANGED lost
    ELSE lost' = lost \cup {s} /\ UNCHANGED stateCh

SessionUp(s) ==
    /\ session[s] = "rising"
    /\ session' = [session EXCEPT ![s] = "up"]
    /\ Announce(s, TRUE)
    /\ UNCHANGED <<systemd, strikes, supWake, events, wakePending, loop, timers, faults>>

\* The redial token is taken: the manager is no longer handed out.
SessionEnds(s) ==
    /\ session[s] = "up" /\ strikes[s] = 2
    /\ session' = [session EXCEPT ![s] = "falling"]
    /\ UNCHANGED <<systemd, strikes, stateCh, supWake, events, wakePending, loop,
                   timers, faults, lost>>

\* The announcement, and the end of the connection with all that waits in it.
SessionDown(s) ==
    /\ session[s] = "falling"
    /\ session' = [session EXCEPT ![s] = "down"]
    /\ Announce(s, FALSE)
    /\ signal' = [signal EXCEPT ![s] = FALSE]
    /\ connWake' = [connWake EXCEPT ![s] = FALSE]
    /\ UNCHANGED <<truth, manager, strikes, supWake, events, wakePending, loop,
                   timers, faults>>

\* forwardWake of the session, which may still win its select when the session ends.
Forward(s) ==
    /\ session[s] \in {"up", "falling"} /\ connWake[s]
    /\ connWake' = [connWake EXCEPT ![s] = FALSE]
    /\ supWake' = [supWake EXCEPT ![s] = TRUE]
    /\ UNCHANGED <<truth, manager, signal, session, strikes, stateCh, events,
                   wakePending, loop, timers, faults, lost>>

Supervise(s) == SessionStarts(s) \/ SessionUp(s) \/ SessionEnds(s) \/ SessionDown(s)

-----------------------------------------------------------------------------
(* The producers of events *)

\* A faulty form of Enqueue: the queue grows with its load.
EnqueueUnbounded(kind, s) == events' = Append(events, <<kind, s>>) /\ UNCHANGED lost

\* enqueue: a non-blocking send, dropped when the queue is full.
Enqueue(kind, s) ==
    IF Len(events) < QueueCap
    THEN events' = Append(events, <<kind, s>>) /\ UNCHANGED lost
    ELSE lost' = lost \cup {s} /\ UNCHANGED events

BridgeState(s) ==
    /\ stateCh[s] # <<>>
    /\ Enqueue(IF Head(stateCh[s]) THEN "online" ELSE "offline", s)
    /\ stateCh' = [stateCh EXCEPT ![s] = Tail(@)]
    /\ UNCHANGED <<systemd, session, strikes, supWake, wakePending, loop, timers,
                   faults>>

\* A faulty form of BridgeWake: every hint becomes an event.
BridgeWakeAlways(s) ==
    /\ supWake[s] /\ supWake' = [supWake EXCEPT ![s] = FALSE]
    /\ wakePending' = [wakePending EXCEPT ![s] = TRUE]
    /\ Enqueue("wake", s)
    /\ UNCHANGED <<systemd, session, strikes, stateCh, loop, timers, faults>>

\* The compare-and-swap and the enqueue are one step: while the flag is up and its
\* event not yet queued, nobody else touches the flag.
BridgeWake(s) ==
    /\ supWake[s] /\ supWake' = [supWake EXCEPT ![s] = FALSE]
    /\ IF wakePending[s]
       THEN UNCHANGED <<wakePending, events, lost>>
       ELSE /\ wakePending' = [wakePending EXCEPT ![s] = TRUE]
            /\ Enqueue("wake", s)
    /\ UNCHANGED <<systemd, session, strikes, stateCh, loop, timers, faults>>

Bridge(s) == BridgeState(s) \/ BridgeWake(s)

\* The debounce timer fires; it only enqueues.
TimerFires(s) ==
    /\ timers[s] > 0 /\ timers' = [timers EXCEPT ![s] = @ - 1]
    /\ Enqueue("reconcile", s)
    /\ UNCHANGED <<systemd, supervisor, wakePending, loop, faults>>

\* Workers that report a finished command, and the MQTT and display clients, share
\* the queue.  What becomes of the events of the latter is not the subject here.
OthersEnqueue(s) ==
    /\ \E kind \in {"job", "other"} :
         IF Len(events) < QueueCap THEN events' = Append(events, <<kind, s>>)
                                   ELSE UNCHANGED events
    /\ UNCHANGED <<systemd, supervisor, wakePending, loop, timers, faults, lost>>

-----------------------------------------------------------------------------
(* The loop *)

\* Handlers take the oldest event.
Take(kind, s) == events # <<>> /\ Head(events) = <<kind, s>> /\ events' = Tail(events)

\* scheduleReconcile: the first request arms the timer, later ones fold into it.
ScheduleReconcile(s) ==
    IF pending[s] THEN UNCHANGED <<pending, timers>>
    ELSE /\ timers[s] < MaxTimers
         /\ pending' = [pending EXCEPT ![s] = TRUE]
         /\ timers' = [timers EXCEPT ![s] = @ + 1]

\* Supervisor.Query of the scopes in S, and ApplyUnit of what it returns.  A query
\* answers with the truth, finds no manager, or fails.  A failure counts, one that
\* shows a closed connection counts twice, and a token that is out is not called back.
QueryAll(S, closed) ==
    LET answers(s) == s \in S /\ Online(s) /\ manager[s] = "fine"
        fails(s)   == s \in S /\ Online(s) /\ manager[s] # "fine"
    IN  /\ seen' = [s \in Scopes |-> IF answers(s) THEN truth[s] ELSE seen[s]]
        /\ strikes' = [s \in Scopes |->
             IF strikes[s] = 2 \/ ~(answers(s) \/ fails(s)) THEN strikes[s]
             ELSE IF answers(s) THEN 0
             ELSE IF s \in closed \/ strikes[s] = 1 THEN 2 ELSE 1]

\* reconcileScope of the scopes in S: the debounce flag comes down in any case.
ReconcileAll(S, closed) ==
    /\ pending' = [s \in Scopes |-> pending[s] /\ s \notin S]
    /\ QueryAll(S, closed)

\* A faulty form of HandleWake: the flag that admits the next wake stays up.
HandleWakeKeepingFlag(s) ==
    /\ Take("wake", s)
    /\ ScheduleReconcile(s)
    /\ UNCHANGED <<systemd, supervisor, wakePending, busOnline, seen, faults, lost>>

HandleWake(s) ==
    /\ Take("wake", s)
    /\ wakePending' = [wakePending EXCEPT ![s] = FALSE]
    /\ ScheduleReconcile(s)
    /\ UNCHANGED <<systemd, supervisor, busOnline, seen, faults, lost>>

HandleReconcile(s) ==
    /\ Take("reconcile", s)
    /\ \E closed \in SUBSET {s} : ReconcileAll({s}, closed)
    /\ UNCHANGED <<systemd, session, stateCh, supWake, wakePending, busOnline, timers,
                   faults, lost>>

\* A faulty form of HandleOnline: what happened before the session is not asked for.
HandleOnlineUnqueried(s) ==
    /\ Take("online", s)
    /\ busOnline' = [busOnline EXCEPT ![s] = TRUE]
    /\ UNCHANGED <<systemd, supervisor, wakePending, pending, seen, timers, faults,
                   lost>>

HandleOnline(s) ==
    /\ Take("online", s)
    /\ busOnline' = [busOnline EXCEPT ![s] = TRUE]
    /\ \E closed \in SUBSET {s} : ReconcileAll({s}, closed)
    /\ UNCHANGED <<systemd, session, stateCh, supWake, wakePending, timers, faults,
                   lost>>

HandleOffline(s) ==
    /\ Take("offline", s)
    /\ busOnline' = [busOnline EXCEPT ![s] = FALSE]
    /\ UNCHANGED <<systemd, supervisor, wakePending, pending, seen, timers, faults,
                   lost>>

\* evJobDone and evTemplateDone.
HandleJob(s) ==
    /\ Take("job", s)
    /\ ScheduleReconcile(s)
    /\ UNCHANGED <<systemd, supervisor, wakePending, busOnline, seen, faults, lost>>

HandleOther(s) ==
    /\ Take("other", s)
    /\ UNCHANGED <<systemd, supervisor, wakePending, loop, timers, faults, lost>>

Handle ==
    \E s \in Scopes :
        \/ HandleWake(s) \/ HandleReconcile(s) \/ HandleOnline(s)
        \/ HandleOffline(s) \/ HandleJob(s) \/ HandleOther(s)

\* Faulty forms of PollTick: availability is left to the announcements; the ticker
\* queries past the debounce flag.
PollTickQueriesOnly ==
    /\ \E closed \in SUBSET Scopes : ReconcileAll(Scopes, closed)
    /\ UNCHANGED <<systemd, session, stateCh, supWake, events, wakePending, busOnline,
                   timers, faults, lost>>

PollTickKeepingDebounce ==
    /\ busOnline' = [s \in Scopes |-> Online(s)]
    /\ \E closed \in SUBSET Scopes :
         QueryAll({s \in Scopes : Online(s) \/ ~busOnline[s]}, closed)
    /\ UNCHANGED <<systemd, session, stateCh, supWake, events, wakePending, pending,
                   timers, faults, lost>>

\* pollTick: a scope whose availability is out of date is set right, and queried
\* when it is online; the others are queried.
PollTick ==
    /\ busOnline' = [s \in Scopes |-> Online(s)]
    /\ \E closed \in SUBSET Scopes :
         ReconcileAll({s \in Scopes : Online(s) \/ ~busOnline[s]}, closed)
    /\ UNCHANGED <<systemd, session, stateCh, supWake, events, wakePending, timers,
                   faults, lost>>

-----------------------------------------------------------------------------

Systemd  == \E s \in Scopes : UnitChanges(s) \/ ManagerFails(s) \/ ManagerRecovers(s)
Hints(s) == Pump(s) \/ Forward(s)

Next ==
    \/ Systemd
    \/ \E s \in Scopes : \/ Hints(s) \/ Supervise(s) \/ Bridge(s)
                         \/ TimerFires(s) \/ OthersEnqueue(s)
    \/ Handle
    \/ PollTick

Spec == Init /\ [][Next]_vars

\* Every goroutine gets to run, a timer that is armed fires, and the select of the
\* loop, which picks at random among what is ready, takes the queue again and again.
Running ==
    /\ \A s \in Scopes :
         /\ WF_vars(Pump(s)) /\ WF_vars(Forward(s)) /\ WF_vars(Supervise(s))
         /\ WF_vars(BridgeState(s)) /\ WF_vars(BridgeWake(s)) /\ WF_vars(TimerFires(s))
    /\ WF_vars(Handle)

\* The next poll may be a long way off; what needs the poll ticker says so.
FairSpec == Spec /\ Running
Polled   == WF_vars(PollTick)

-----------------------------------------------------------------------------
(* What the loop promises *)

Queued(kind, s) == \E i \in 1..Len(events) : events[i] = <<kind, s>>
Announced(s)    == \E i \in 1..Len(stateCh[s]) : stateCh[s][i]

\* Something is under way that will make the loop query the scope.
QueryUnderWay(s) ==
    \/ signal[s] \/ connWake[s] \/ supWake[s]
    \/ Queued("wake", s) \/ timers[s] > 0 \/ Queued("reconcile", s)
    \/ session[s] = "rising" \/ Announced(s) \/ Queued("online", s)

\* No change is forgotten between the places that coalesce it, the two channels, the
\* wake flag and the debounce flag: as long as nothing of the scope was dropped, an
\* outdated picture of a scope whose connection lives has a query coming, or its last
\* query failed (app.go:74-77, 219-222; conn.go:127-130).
NoLostWake ==
    \A s \in Scopes :
        Online(s) /\ manager[s] # "gone" /\ seen[s] # truth[s] /\ s \notin lost
            => QueryUnderWay(s) \/ strikes[s] > 0

\* However often a unit flaps, its scope holds one slot of the queue with wakes, and
\* handling the wake is what lets the next one in (app.go:74-77).
OneWakePerScope ==
    \A s \in Scopes : \A i, j \in 1..Len(events) :
        events[i] = <<"wake", s>> /\ events[j] = <<"wake", s>> => i = j

\* With the poll ticker, dropped events and failing managers do no lasting harm:
\* once units and managers leave off changing, the loop knows the state of every
\* unit and the availability of every bus (app.go:219-222, 316-319).
Converges ==
    Polled => \A s \in Scopes : <>[](seen[s] = truth[s] /\ busOnline[s] = Online(s))

\* Without any poll the hints alone keep the picture fresh, unless an event was
\* dropped or a manager failed.
HintsSuffice ==
    \A s \in Scopes : <>[](s \in lost \/ faults > 0 \/ seen[s] = truth[s])

\* A dropped timer event "can never wedge the scope" (reconcile.go:27-28): the
\* debounce flag comes down again whatever happens to the timer and the bus.
DebounceNeverWedges == Polled => \A s \in Scopes : pending[s] ~> ~pending[s]

\* "Dropping an event is safe", and a dropped event leaves only two states for the
\* poll to repair, bus availability and the republish (app.go:219-222, 316-319): so
\* the wake flag, too, comes down again after each time it is raised.
WakeFlagComesDown == Polled => \A s \in Scopes : wakePending[s] ~> ~wakePending[s]

-----------------------------------------------------------------------------
(* The inductive invariant behind NoLostWake and OneWakePerScope *)

\* The flags tell the truth about the queue unless something was dropped.
FlagsAccounted ==
    \A s \in Scopes :
        /\ Queued("wake", s) => wakePending[s]
        /\ s \notin lost =>
             /\ wakePending[s] => Queued("wake", s)
             /\ pending[s] => timers[s] > 0 \/ Queued("reconcile", s)

IInv == TypeOK /\ OneWakePerScope /\ FlagsAccounted /\ NoLostWake

=============================================================================
