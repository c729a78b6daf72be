-------------------------- MODULE EventLoopProofs --------------------------
(***************************************************************************)
(* Theorems about module EventLoop, for every set of scopes, every capacity*)
(* of the queue and of the announcement buffers, and every bound.          *)
(***************************************************************************)
EXTENDS EventLoop, SequenceTheorems, TLAPS

-----------------------------------------------------------------------------
(* Sequences *)

LEMMA AppendHas ==
  ASSUME NEW S, NEW q \in Seq(S), NEW e \in S, NEW x
  PROVE  (\E i \in 1..Len(Append(q, e)) : Append(q, e)[i] = x)
           <=> (x = e \/ \E i \in 1..Len(q) : q[i] = x)
<1>1. /\ Len(Append(q, e)) = Len(q) + 1 /\ Append(q, e)[Len(q) + 1] = e
      /\ \A i \in 1..Len(q) : Append(q, e)[i] = q[i]
  BY AppendProperties
<1>2. Len(q) \in Nat BY LenProperties
<1> QED BY <1>1, <1>2

LEMMA TailHas ==
  ASSUME NEW S, NEW q \in Seq(S), q # <<>>, NEW x
  PROVE  (\E i \in 1..Len(q) : q[i] = x)
           <=> (x = Head(q) \/ \E i \in 1..Len(Tail(q)) : Tail(q)[i] = x)
<1>1. /\ Len(Tail(q)) = Len(q) - 1 /\ Head(q) = q[1]
      /\ \A i \in 1..Len(Tail(q)) : Tail(q)[i] = q[i + 1]
  BY HeadTailProperties
<1>2. Len(q) \in Nat \ {0} BY LenProperties, EmptySeq
<1>3. ASSUME NEW i \in 1..Len(q), q[i] = x
      PROVE  x = Head(q) \/ \E k \in 1..Len(Tail(q)) : Tail(q)[k] = x
  <2>1. CASE i = 1 BY <1>1, <1>3, <2>1
  <2>2. CASE i # 1
    <3>1. i - 1 \in 1..Len(Tail(q)) BY <1>1, <1>2, <2>2
    <3>2. Tail(q)[i - 1] = x BY <1>1, <1>3, <3>1
    <3> QED BY <3>1, <3>2
  <2> QED BY <2>1, <2>2
<1>4. ASSUME NEW k \in 1..Len(Tail(q)), Tail(q)[k] = x
      PROVE  \E i \in 1..Len(q) : q[i] = x
  <2>1. k + 1 \in 1..Len(q) BY <1>1, <1>2
  <2>2. q[k + 1] = x BY <1>1, <1>4
  <2> QED BY <2>1, <2>2
<1>5. x = Head(q) => \E i \in 1..Len(q) : q[i] = x
  <2>1. 1 \in 1..Len(q) BY <1>2
  <2> QED BY <1>1, <2>1
<1> QED BY <1>3, <1>4, <1>5

-----------------------------------------------------------------------------
(* Type correctness *)

LEMMA InitTypeOK == Init => TypeOK
<1> SUFFICES ASSUME Init PROVE TypeOK OBVIOUS
<1>1. NumbersOK BY DEF Init, NumbersOK, Everywhere
<1>2. FlagsOK BY DEF Init, FlagsOK, Everywhere
<1>3. QueuesOK
  <2>1. <<>> \in Seq(BOOLEAN) /\ <<>> \in Seq(Event) /\ Len(<<>>) = 0 BY EmptySeq
  <2>2. stateCh \in [Scopes -> Seq(BOOLEAN)] BY <2>1 DEF Init, Everywhere
  <2>3. \A s \in Scopes : Len(stateCh[s]) = 0 BY <2>1 DEF Init, Everywhere
  <2> QED BY <2>1, <2>2, <2>3, EventLoopAssumption DEF Init, QueuesOK
<1> QED BY <1>1, <1>2, <1>3 DEF TypeOK

LEMMA EnqueueTyped ==
  ASSUME NEW kind \in Kinds, NEW s \in Scopes, Enqueue(kind, s), QueuesOK
  PROVE  events' \in Seq(Event) /\ Len(events') <= QueueCap /\ lost' \subseteq lost \cup {s}
<1>1. <<kind, s>> \in Event BY DEF Event
<1>2. Len(events) \in Nat BY LenProperties DEF QueuesOK
<1>3. CASE Len(events) < QueueCap
  <2>1. events' = Append(events, <<kind, s>>) /\ lost' = lost BY <1>3 DEF Enqueue
  <2>2. events' \in Seq(Event) /\ Len(events') = Len(events) + 1
    BY <1>1, <2>1, AppendProperties DEF QueuesOK
  <2> QED BY <1>2, <1>3, <2>1, <2>2, EventLoopAssumption
<1>4. CASE ~(Len(events) < QueueCap)
  BY <1>4 DEF Enqueue, QueuesOK
<1> QED BY <1>3, <1>4

LEMMA TakeTyped ==
  ASSUME NEW kind, NEW s, Take(kind, s), QueuesOK
  PROVE  events' \in Seq(Event) /\ Len(events') <= QueueCap
<1>1. events # <<>> /\ events' = Tail(events) BY DEF Take
<1>2. events' \in Seq(Event) /\ Len(events') = Len(events) - 1
  BY <1>1, HeadTailProperties DEF QueuesOK
<1>3. Len(events) \in Nat /\ Len(events) <= QueueCap BY LenProperties DEF QueuesOK
<1> QED BY <1>2, <1>3, EventLoopAssumption

LEMMA AnnounceTyped ==
  ASSUME NEW b \in BOOLEAN, NEW s \in Scopes, Announce(s, b), QueuesOK
  PROVE  /\ stateCh' \in [Scopes -> Seq(BOOLEAN)]
         /\ \A x \in Scopes : Len(stateCh'[x]) <= StateBuf
         /\ lost' \subseteq lost \cup {s}
<1>1. stateCh[s] \in Seq(BOOLEAN) BY DEF QueuesOK
<1>2. Len(stateCh[s]) \in Nat BY <1>1, LenProperties
<1>3. CASE Len(stateCh[s]) < StateBuf
  <2>1. stateCh' = [stateCh EXCEPT ![s] = Append(@, b)] /\ lost' = lost
    BY <1>3 DEF Announce
  <2>2. Append(stateCh[s], b) \in Seq(BOOLEAN)
        /\ Len(Append(stateCh[s], b)) = Len(stateCh[s]) + 1
    BY <1>1, AppendProperties
  <2>3. stateCh' \in [Scopes -> Seq(BOOLEAN)] BY <2>1, <2>2 DEF QueuesOK
  <2>4. ASSUME NEW x \in Scopes PROVE Len(stateCh'[x]) <= StateBuf
    <3>1. CASE x = s BY <1>2, <1>3, <2>1, <2>2, <3>1, EventLoopAssumption DEF QueuesOK
    <3>2. CASE x # s BY <2>1, <3>2 DEF QueuesOK
    <3> QED BY <3>1, <3>2
  <2> QED BY <2>1, <2>3, <2>4
<1>4. CASE ~(Len(stateCh[s]) < StateBuf) BY <1>4 DEF Announce, QueuesOK
<1> QED BY <1>3, <1>4

LEMMA StepQueuesOK == ASSUME QueuesOK, [Next]_vars PROVE QueuesOK'
<1> DEFINE EventsOK == events \in Seq(Event) /\ Len(events) <= QueueCap
           StatesOK == /\ stateCh \in [Scopes -> Seq(BOOLEAN)]
                       /\ \A s \in Scopes : Len(stateCh[s]) <= StateBuf
<1>1. EventsOK'
  <2>1. ASSUME NEW s \in Scopes, Bridge(s) \/ TimerFires(s) PROVE EventsOK'
    <3>1. events' = events \/ \E kind \in Kinds : Enqueue(kind, s)
      BY <2>1 DEF Bridge, BridgeState, BridgeWake, TimerFires, Kinds
    <3> QED BY <3>1, EnqueueTyped DEF QueuesOK
  <2>2. ASSUME NEW s \in Scopes, OthersEnqueue(s) PROVE EventsOK'
    <3>1. PICK kind \in {"job", "other"} :
            IF Len(events) < QueueCap THEN events' = Append(events, <<kind, s>>)
                                      ELSE UNCHANGED events
      BY <2>2 DEF OthersEnqueue
    <3>2. <<kind, s>> \in Event BY DEF Event, Kinds
    <3>3. Len(events) \in Nat BY LenProperties DEF QueuesOK
    <3>4. CASE Len(events) < QueueCap
      <4>1. events' = Append(events, <<kind, s>>) BY <3>1, <3>4
      <4>2. events' \in Seq(Event) /\ Len(events') = Len(events) + 1
        BY <3>2, <4>1, AppendProperties DEF QueuesOK
      <4> QED BY <3>3, <3>4, <4>2, EventLoopAssumption
    <3>5. CASE ~(Len(events) < QueueCap) BY <3>1, <3>5 DEF QueuesOK
    <3> QED BY <3>4, <3>5
  <2>3. CASE Handle
    <3>1. \E s \in Scopes, kind \in Kinds : Take(kind, s)
      BY <2>3 DEF Handle, HandleWake, HandleReconcile, HandleOnline, HandleOffline,
         HandleJob, HandleOther, Kinds
    <3> QED BY <3>1, TakeTyped
  <2>4. CASE UNCHANGED events BY <2>4 DEF QueuesOK
  <2>5. \/ \E s \in Scopes : Bridge(s) \/ TimerFires(s) \/ OthersEnqueue(s)
        \/ Handle \/ UNCHANGED events
    BY DEF Next, vars, Systemd, Hints, Supervise, UnitChanges, ManagerFails,
       ManagerRecovers, Pump, Forward, SessionStarts, SessionUp, SessionEnds,
       SessionDown, PollTick
  <2> QED BY <2>1, <2>2, <2>3, <2>4, <2>5
<1>2. StatesOK'
  <2>1. ASSUME NEW s \in Scopes, SessionUp(s) \/ SessionDown(s) PROVE StatesOK'
    <3>1. \E b \in BOOLEAN : Announce(s, b) BY <2>1 DEF SessionUp, SessionDown
    <3> QED BY <3>1, AnnounceTyped
  <2>2. ASSUME NEW s \in Scopes, BridgeState(s) PROVE StatesOK'
    <3>1. stateCh[s] # <<>> /\ stateCh' = [stateCh EXCEPT ![s] = Tail(@)]
      BY <2>2 DEF BridgeState
    <3>2. stateCh[s] \in Seq(BOOLEAN) BY DEF QueuesOK
    <3>3. Tail(stateCh[s]) \in Seq(BOOLEAN) /\ Len(Tail(stateCh[s])) = Len(stateCh[s]) - 1
      BY <3>1, <3>2, HeadTailProperties
    <3>4. Len(stateCh[s]) \in Nat /\ Len(stateCh[s]) <= StateBuf
      BY <3>2, LenProperties DEF QueuesOK
    <3>5. stateCh' \in [Scopes -> Seq(BOOLEAN)] BY <3>1, <3>3 DEF QueuesOK
    <3>6. ASSUME NEW x \in Scopes PROVE Len(stateCh'[x]) <= StateBuf
      <4>1. CASE x = s BY <3>1, <3>3, <3>4, <4>1, EventLoopAssumption DEF QueuesOK
      <4>2. CASE x # s BY <3>1, <4>2 DEF QueuesOK
      <4> QED BY <4>1, <4>2
    <3> QED BY <3>5, <3>6
  <2>3. CASE UNCHANGED stateCh BY <2>3 DEF QueuesOK
  <2>4. \/ \E s \in Scopes : SessionUp(s) \/ SessionDown(s) \/ BridgeState(s)
        \/ UNCHANGED stateCh
    BY DEF Next, vars, supervisor, Systemd, Hints, Supervise, Bridge, Handle,
       UnitChanges, ManagerFails, ManagerRecovers, Pump, Forward, SessionStarts,
       SessionEnds, BridgeWake, TimerFires, OthersEnqueue, HandleWake,
       HandleReconcile, HandleOnline, HandleOffline, HandleJob, HandleOther, PollTick
  <2> QED BY <2>1, <2>2, <2>3, <2>4
<1> QED BY <1>1, <1>2 DEF QueuesOK

LEMMA StepFlagsOK == ASSUME FlagsOK, NumbersOK, QueuesOK, [Next]_vars PROVE FlagsOK'
<1> USE DEF FlagsOK
<1>1. signal' \in [Scopes -> BOOLEAN] /\ connWake' \in [Scopes -> BOOLEAN]
      /\ supWake' \in [Scopes -> BOOLEAN]
  <2>1. ASSUME NEW s \in Scopes, UnitChanges(s)
        PROVE  signal' \in [Scopes -> BOOLEAN] /\ UNCHANGED <<connWake, supWake>>
    BY <2>1 DEF UnitChanges, supervisor
  <2>2. ASSUME NEW s \in Scopes, Pump(s) \/ Forward(s) \/ SessionDown(s) \/ BridgeWake(s)
        PROVE  /\ signal' \in {signal, [signal EXCEPT ![s] = FALSE]}
               /\ connWake' \in {connWake, [connWake EXCEPT ![s] = FALSE],
                                           [connWake EXCEPT ![s] = TRUE]}
               /\ supWake' \in {supWake, [supWake EXCEPT ![s] = FALSE],
                                         [supWake EXCEPT ![s] = TRUE]}
    BY <2>2 DEF Pump, Forward, SessionDown, BridgeWake, systemd, supervisor
  <2>3. \/ \E s \in Scopes : \/ UnitChanges(s) \/ Pump(s) \/ Forward(s)
                             \/ SessionDown(s) \/ BridgeWake(s)
        \/ UNCHANGED <<signal, connWake, supWake>>
    BY DEF Next, vars, systemd, supervisor, Systemd, Hints, Supervise, Bridge, Handle,
       ManagerFails, ManagerRecovers, SessionStarts, SessionUp, SessionEnds,
       BridgeState, TimerFires, OthersEnqueue, HandleWake, HandleReconcile,
       HandleOnline, HandleOffline, HandleJob, HandleOther, PollTick
  <2> QED BY <2>1, <2>2, <2>3
<1>2. wakePending' \in [Scopes -> BOOLEAN]
  <2>1. \/ UNCHANGED wakePending
        \/ \E s \in Scopes : wakePending' \in {[wakePending EXCEPT ![s] = TRUE],
                                               [wakePending EXCEPT ![s] = FALSE]}
    BY DEF Next, vars, Systemd, Hints, Supervise, Bridge, Handle, UnitChanges,
       ManagerFails, ManagerRecovers, Pump, Forward, SessionStarts, SessionUp,
       SessionEnds, SessionDown, BridgeState, BridgeWake, TimerFires, OthersEnqueue,
       HandleWake, HandleReconcile, HandleOnline, HandleOffline, HandleJob,
       HandleOther, PollTick
  <2> QED BY <2>1
<1>3. pending' \in [Scopes -> BOOLEAN] /\ busOnline' \in [Scopes -> BOOLEAN]
  <2>1. CASE PollTick
    BY <2>1 DEF PollTick, ReconcileAll, Online
  <2>2. CASE Handle
    <3> PICK s \in Scopes :
          \/ HandleWake(s) \/ HandleReconcile(s) \/ HandleOnline(s)
          \/ HandleOffline(s) \/ HandleJob(s) \/ HandleOther(s)
      BY <2>2 DEF Handle
    <3>1. busOnline' \in {busOnline, [busOnline EXCEPT ![s] = TRUE],
                                     [busOnline EXCEPT ![s] = FALSE]}
      BY DEF HandleWake, HandleReconcile, HandleOnline, HandleOffline, HandleJob,
         HandleOther, loop
    <3>2. \/ UNCHANGED pending
          \/ pending' = [pending EXCEPT ![s] = TRUE]
          \/ pending' = [x \in Scopes |-> pending[x] /\ x \notin {s}]
      BY DEF HandleWake, HandleReconcile, HandleOnline, HandleOffline, HandleJob,
         HandleOther, loop, ScheduleReconcile, ReconcileAll
    <3> QED BY <3>1, <3>2
  <2>3. PollTick \/ Handle \/ UNCHANGED <<pending, busOnline>>
    BY DEF Next, vars, loop, Systemd, Hints, Supervise, Bridge, UnitChanges,
       ManagerFails, ManagerRecovers, Pump, Forward, SessionStarts, SessionUp,
       SessionEnds, SessionDown, BridgeState, BridgeWake, TimerFires, OthersEnqueue
  <2> QED BY <2>1, <2>2, <2>3
<1> QED BY <1>1, <1>2, <1>3

LEMMA QueryAllTyped ==
  ASSUME NEW S, NEW closed, QueryAll(S, closed), NumbersOK
  PROVE  seen' \in [Scopes -> Nat] /\ strikes' \in [Scopes -> 0..2]
  BY DEF QueryAll, NumbersOK

LEMMA StepNumbersOK == ASSUME NumbersOK, QueuesOK, [Next]_vars PROVE NumbersOK'
<1> USE DEF NumbersOK
<1>1. truth' \in [Scopes -> Nat] /\ faults' \in Nat
      /\ manager' \in [Scopes -> {"fine", "hung", "gone"}]
      /\ session' \in [Scopes -> {"down", "rising", "up", "falling"}]
  <2>1. \/ UNCHANGED truth
        \/ \E s \in Scopes : truth' = [truth EXCEPT ![s] = @ + 1]
    BY DEF Next, vars, systemd, Systemd, Hints, Supervise, Bridge, Handle, UnitChanges,
       ManagerFails, ManagerRecovers, Pump, Forward, SessionStarts, SessionUp,
       SessionEnds, SessionDown, BridgeState, BridgeWake, TimerFires, OthersEnqueue,
       HandleWake, HandleReconcile, HandleOnline, HandleOffline, HandleJob,
       HandleOther, PollTick
  <2>2. faults' \in {faults, faults + 1}
    BY DEF Next, vars, Systemd, Hints, Supervise, Bridge, Handle, UnitChanges,
       ManagerFails, ManagerRecovers, Pump, Forward, SessionStarts, SessionUp,
       SessionEnds, SessionDown, BridgeState, BridgeWake, TimerFires, OthersEnqueue,
       HandleWake, HandleReconcile, HandleOnline, HandleOffline, HandleJob,
       HandleOther, PollTick
  <2>3. \/ UNCHANGED manager
        \/ \E s \in Scopes, m \in {"fine", "hung", "gone"} :
             manager' = [manager EXCEPT ![s] = m]
    BY DEF Next, vars, systemd, Systemd, Hints, Supervise, Bridge, Handle, UnitChanges,
       ManagerFails, ManagerRecovers, Pump, Forward, SessionStarts, SessionUp,
       SessionEnds, SessionDown, BridgeState, BridgeWake, TimerFires, OthersEnqueue,
       HandleWake, HandleReconcile, HandleOnline, HandleOffline, HandleJob,
       HandleOther, PollTick
  <2>4. \/ UNCHANGED session
        \/ \E s \in Scopes, p \in {"down", "rising", "up", "falling"} :
             session' = [session EXCEPT ![s] = p]
    BY DEF Next, vars, supervisor, Systemd, Hints, Supervise, Bridge, Handle,
       UnitChanges, ManagerFails, ManagerRecovers, Pump, Forward, SessionStarts,
       SessionUp, SessionEnds, SessionDown, BridgeState, BridgeWake, TimerFires,
       OthersEnqueue, HandleWake, HandleReconcile, HandleOnline, HandleOffline,
       HandleJob, HandleOther, PollTick
  <2>5. truth' \in [Scopes -> Nat] BY <2>1
  <2>6. faults' \in Nat BY <2>2
  <2>7. manager' \in [Scopes -> {"fine", "hung", "gone"}] BY <2>3
  <2>8. session' \in [Scopes -> {"down", "rising", "up", "falling"}] BY <2>4
  <2> QED BY <2>5, <2>6, <2>7, <2>8
<1>2. timers' \in [Scopes -> Nat]
  <2>1. ASSUME NEW s \in Scopes, TimerFires(s) PROVE timers' \in [Scopes -> Nat]
    <3>1. timers' = [timers EXCEPT ![s] = @ - 1] /\ timers[s] > 0
      BY <2>1 DEF TimerFires
    <3>2. timers[s] - 1 \in Nat BY <3>1
    <3> QED BY <3>1, <3>2
  <2>2. \/ UNCHANGED timers
        \/ \E s \in Scopes : TimerFires(s) \/ timers' = [timers EXCEPT ![s] = @ + 1]
    BY DEF Next, vars, Systemd, Hints, Supervise, Bridge, Handle, UnitChanges,
       ManagerFails, ManagerRecovers, Pump, Forward, SessionStarts, SessionUp,
       SessionEnds, SessionDown, BridgeState, BridgeWake, OthersEnqueue, HandleWake,
       HandleReconcile, HandleOnline, HandleOffline, HandleJob, HandleOther, PollTick,
       ScheduleReconcile
  <2> QED BY <2>1, <2>2
<1>3. seen' \in [Scopes -> Nat] /\ strikes' \in [Scopes -> 0..2]
  <2>1. ASSUME NEW s \in Scopes, SessionStarts(s)
        PROVE  strikes' \in [Scopes -> 0..2] /\ UNCHANGED seen
    BY <2>1 DEF SessionStarts, loop
  <2>2. CASE PollTick
    BY <2>2, QueryAllTyped DEF PollTick, ReconcileAll
  <2>3. CASE \E s \in Scopes : HandleReconcile(s) \/ HandleOnline(s)
    BY <2>3, QueryAllTyped DEF HandleReconcile, HandleOnline, ReconcileAll
  <2>4. \/ PollTick \/ (\E s \in Scopes : HandleReconcile(s) \/ HandleOnline(s))
        \/ (\E s \in Scopes : SessionStarts(s)) \/ UNCHANGED <<seen, strikes>>
    BY DEF Next, vars, loop, supervisor, Systemd, Hints, Supervise, Bridge, Handle,
       UnitChanges, ManagerFails, ManagerRecovers, Pump, Forward, SessionUp,
       SessionEnds, SessionDown, BridgeState, BridgeWake, TimerFires, OthersEnqueue,
       HandleWake, HandleOffline, HandleJob, HandleOther
  <2> QED BY <2>1, <2>2, <2>3, <2>4
<1>4. lost' \subseteq Scopes
  <2>1. lost' = lost \/ \E s \in Scopes : lost' = lost \cup {s}
    BY DEF Next, vars, Systemd, Hints, Supervise, Bridge, Handle, UnitChanges,
       ManagerFails, ManagerRecovers, Pump, Forward, SessionStarts, SessionUp,
       SessionEnds, SessionDown, BridgeState, BridgeWake, TimerFires, OthersEnqueue,
       HandleWake, HandleReconcile, HandleOnline, HandleOffline, HandleJob,
       HandleOther, PollTick, Announce, Enqueue
  <2> QED BY <2>1
<1> QED BY <1>1, <1>2, <1>3, <1>4

LEMMA StepTypeOK == ASSUME TypeOK, [Next]_vars PROVE TypeOK'
  BY StepNumbersOK, StepFlagsOK, StepQueuesOK DEF TypeOK

\* Type correctness; in particular no load makes the queue or the announcements
\* outgrow their channels.
THEOREM TypeCorrect == Spec => []TypeOK
<1>1. TypeOK /\ [Next]_vars => TypeOK' BY StepTypeOK
<1> QED BY <1>1, InitTypeOK, PTL DEF Spec

-----------------------------------------------------------------------------
(* What a step does to the queue and to the announcements *)

LEMMA AppendEffect ==
  ASSUME QueuesOK, NEW kind \in Kinds, NEW s \in Scopes,
         events' = Append(events, <<kind, s>>), NEW k, NEW x
  PROVE  Queued(k, x)' <=> (<<k, x>> = <<kind, s>> \/ Queued(k, x))
<1>1. events \in Seq(Event) /\ <<kind, s>> \in Event BY DEF QueuesOK, Event
<1> QED BY <1>1, AppendHas DEF Queued

LEMMA EnqueueEffect ==
  ASSUME QueuesOK, NEW kind \in Kinds, NEW s \in Scopes, Enqueue(kind, s)
  PROVE  /\ lost' \subseteq lost \cup {s} /\ lost \subseteq lost'
         /\ \A k, x : Queued(k, x)' => <<k, x>> = <<kind, s>> \/ Queued(k, x)
         /\ \A k, x : Queued(k, x) => Queued(k, x)'
         /\ s \notin lost' => Queued(kind, s)'
<1>1. CASE events' = Append(events, <<kind, s>>) /\ lost' = lost
  <2>1. ASSUME NEW k, NEW x
        PROVE  Queued(k, x)' <=> (<<k, x>> = <<kind, s>> \/ Queued(k, x))
    BY <1>1, AppendEffect
  <2> QED BY <1>1, <2>1
<1>2. CASE events' = events /\ lost' = lost \cup {s}
  <2>1. \A k, x : Queued(k, x)' <=> Queued(k, x) BY <1>2 DEF Queued
  <2> QED BY <1>2, <2>1
<1> QED BY <1>1, <1>2 DEF Enqueue

LEMMA TakeEffect ==
  ASSUME QueuesOK, NEW kind, NEW s, Take(kind, s)
  PROVE  \A k, x : Queued(k, x) <=> (<<k, x>> = <<kind, s>> \/ Queued(k, x)')
<1>1. /\ events \in Seq(Event) /\ events # <<>>
      /\ Head(events) = <<kind, s>> /\ events' = Tail(events)
  BY DEF Take, QueuesOK
<1>2. ASSUME NEW k, NEW x
      PROVE  Queued(k, x) <=> (<<k, x>> = <<kind, s>> \/ Queued(k, x)')
  <2>1. Queued(k, x) <=> \E i \in 1..Len(events) : events[i] = <<k, x>> BY DEF Queued
  <2>2. Queued(k, x)' <=> \E i \in 1..Len(Tail(events)) : Tail(events)[i] = <<k, x>>
    BY <1>1 DEF Queued
  <2>3. \A e : (\E i \in 1..Len(events) : events[i] = e)
                 <=> (e = Head(events)
                      \/ \E i \in 1..Len(Tail(events)) : Tail(events)[i] = e)
    BY <1>1, TailHas
  <2> QED BY <1>1, <2>1, <2>2, <2>3
<1> QED BY <1>2

LEMMA AnnounceEffect ==
  ASSUME QueuesOK, NEW b \in BOOLEAN, NEW s \in Scopes, Announce(s, b)
  PROVE  /\ lost' \subseteq lost \cup {s} /\ lost \subseteq lost'
         /\ \A x \in Scopes : Announced(x) => Announced(x)'
         /\ b /\ s \notin lost' => Announced(s)'
<1>1. CASE stateCh' = [stateCh EXCEPT ![s] = Append(@, b)] /\ lost' = lost
  <2>1. stateCh[s] \in Seq(BOOLEAN) /\ stateCh'[s] = Append(stateCh[s], b)
    BY <1>1 DEF QueuesOK
  <2>2. /\ Len(stateCh'[s]) = Len(stateCh[s]) + 1
        /\ \A i \in 1..Len(stateCh[s]) : stateCh'[s][i] = stateCh[s][i]
        /\ stateCh'[s][Len(stateCh[s]) + 1] = b
    BY <2>1, AppendProperties
  <2>3. Len(stateCh[s]) \in Nat BY <2>1, LenProperties
  <2>4. /\ 1..Len(stateCh[s]) \subseteq 1..Len(stateCh'[s])
        /\ Len(stateCh[s]) + 1 \in 1..Len(stateCh'[s])
    BY <2>2, <2>3
  <2>5. Announced(s) => Announced(s)' BY <2>2, <2>4 DEF Announced
  <2>6. b => Announced(s)' BY <2>2, <2>4 DEF Announced
  <2>7. \A x \in Scopes : x # s => stateCh'[x] = stateCh[x] BY <1>1 DEF QueuesOK
  <2>8. \A x \in Scopes : x # s => (Announced(x) <=> Announced(x)')
    BY <2>7 DEF Announced
  <2> QED BY <1>1, <2>5, <2>6, <2>8
<1>2. CASE stateCh' = stateCh /\ lost' = lost \cup {s}
  BY <1>2 DEF Announced
<1> QED BY <1>1, <1>2 DEF Announce

\* The announcement that the bridge takes is the only one that goes.
LEMMA BridgeStateEffect ==
  ASSUME QueuesOK, NEW s \in Scopes, BridgeState(s)
  PROVE  \A x \in Scopes : Announced(x) => Announced(x)' \/ (x = s /\ Head(stateCh[s]))
<1>1. stateCh[s] # <<>> /\ stateCh' = [stateCh EXCEPT ![s] = Tail(@)] BY DEF BridgeState
<1>2. stateCh[s] \in Seq(BOOLEAN) /\ stateCh'[s] = Tail(stateCh[s])
  BY <1>1 DEF QueuesOK
<1>3. \A x \in Scopes : x # s => stateCh'[x] = stateCh[x] BY <1>1 DEF QueuesOK
<1>4. \A x \in Scopes : x # s => (Announced(x) <=> Announced(x)') BY <1>3 DEF Announced
<1>5. ASSUME Announced(s), ~Head(stateCh[s]) PROVE Announced(s)'
  <2>1. PICK i \in 1..Len(stateCh[s]) : stateCh[s][i] BY <1>5 DEF Announced
  <2>2. /\ Len(Tail(stateCh[s])) = Len(stateCh[s]) - 1
        /\ Head(stateCh[s]) = stateCh[s][1]
        /\ \A k \in 1..Len(Tail(stateCh[s])) : Tail(stateCh[s])[k] = stateCh[s][k + 1]
    BY <1>1, <1>2, HeadTailProperties
  <2>3. i # 1 BY <1>5, <2>1, <2>2
  <2>4. Len(stateCh[s]) \in Nat BY <1>2, LenProperties
  <2>5. i - 1 \in 1..Len(Tail(stateCh[s])) BY <2>2, <2>3, <2>4
  <2>6. Tail(stateCh[s])[i - 1] = stateCh[s][i] BY <2>2, <2>5
  <2> QED BY <1>2, <2>1, <2>5, <2>6 DEF Announced
<1> QED BY <1>4, <1>5

-----------------------------------------------------------------------------
(* One wake of a scope at most *)

LEMMA StepOneWake ==
  ASSUME TypeOK, OneWakePerScope, FlagsAccounted, [Next]_vars
  PROVE  OneWakePerScope'
<1> SUFFICES ASSUME NEW x \in Scopes, NEW i \in 1..Len(events'), NEW j \in 1..Len(events'),
                    events'[i] = <<"wake", x>>, events'[j] = <<"wake", x>>
             PROVE  i = j
  BY DEF OneWakePerScope
<1>0. events \in Seq(Event) /\ Len(events) \in Nat
  BY LenProperties DEF TypeOK, QueuesOK
<1>a. \A m, n \in 1..Len(events) :
        events[m] = <<"wake", x>> /\ events[n] = <<"wake", x>> => m = n
  BY DEF OneWakePerScope
<1>1. ASSUME NEW kind \in Kinds, NEW s \in Scopes, events' = Append(events, <<kind, s>>),
             kind = "wake" => ~wakePending[s]
      PROVE  i = j
  <2>1. /\ Len(events') = Len(events) + 1
        /\ \A n \in 1..Len(events) : events'[n] = events[n]
        /\ events'[Len(events) + 1] = <<kind, s>>
    BY <1>0, <1>1, AppendProperties DEF Event
  <2>2. CASE <<kind, s>> = <<"wake", x>>
    <3>1. ~Queued("wake", x) BY <1>1, <2>2 DEF FlagsAccounted
    <3>2. \A n \in 1..Len(events) : events'[n] # <<"wake", x>> BY <2>1, <3>1 DEF Queued
    <3> QED BY <1>0, <2>1, <3>2
  <2>3. CASE <<kind, s>> # <<"wake", x>>
    <3>1. i \in 1..Len(events) /\ j \in 1..Len(events) BY <1>0, <2>1, <2>3
    <3> QED BY <1>a, <2>1, <3>1
  <2> QED BY <2>2, <2>3
<1>2. CASE events # <<>> /\ events' = Tail(events)
  <2>1. /\ Len(events') = Len(events) - 1
        /\ \A n \in 1..Len(events') : events'[n] = events[n + 1]
    BY <1>0, <1>2, HeadTailProperties
  <2>2. i + 1 \in 1..Len(events) /\ j + 1 \in 1..Len(events) BY <1>0, <2>1
  <2>3. events[i + 1] = <<"wake", x>> /\ events[j + 1] = <<"wake", x>> BY <2>1
  <2>4. i + 1 = j + 1 BY <1>a, <2>2, <2>3
  <2> QED BY <2>4
<1>3. CASE UNCHANGED events BY <1>3, <1>a
<1>4. \/ \E kind \in Kinds, s \in Scopes :
           events' = Append(events, <<kind, s>>) /\ (kind = "wake" => ~wakePending[s])
      \/ events # <<>> /\ events' = Tail(events)
      \/ UNCHANGED events
  <2>1. ASSUME NEW s \in Scopes, BridgeWake(s) PROVE <1>4
    BY <2>1 DEF BridgeWake, Enqueue, Kinds
  <2>2. ASSUME NEW s \in Scopes, BridgeState(s) \/ TimerFires(s) PROVE <1>4
    BY <2>2 DEF BridgeState, TimerFires, Enqueue, Kinds
  <2>3. ASSUME NEW s \in Scopes, OthersEnqueue(s) PROVE <1>4
    BY <2>3 DEF OthersEnqueue, Kinds
  <2>4. CASE Handle
    BY <2>4 DEF Handle, HandleWake, HandleReconcile, HandleOnline, HandleOffline,
       HandleJob, HandleOther, Take
  <2>5. \/ \E s \in Scopes : \/ BridgeWake(s) \/ BridgeState(s) \/ TimerFires(s)
                             \/ OthersEnqueue(s)
        \/ Handle \/ UNCHANGED events
    BY DEF Next, vars, Systemd, Hints, Supervise, Bridge, UnitChanges, ManagerFails,
       ManagerRecovers, Pump, Forward, SessionStarts, SessionUp, SessionEnds,
       SessionDown, PollTick
  <2> QED BY <2>1, <2>2, <2>3, <2>4, <2>5
<1> QED BY <1>1, <1>2, <1>3, <1>4

-----------------------------------------------------------------------------
(* The flags and the queue *)

\* After a wake was taken none is left of its scope.
LEMMA WakeTaken ==
  ASSUME QueuesOK, OneWakePerScope, NEW s \in Scopes, Take("wake", s)
  PROVE  ~Queued("wake", s)'
<1>1. /\ events \in Seq(Event) /\ events # <<>>
      /\ Head(events) = <<"wake", s>> /\ events' = Tail(events)
  BY DEF Take, QueuesOK
<1>2. /\ Len(events') = Len(events) - 1 /\ events[1] = <<"wake", s>>
      /\ \A n \in 1..Len(events') : events'[n] = events[n + 1]
  BY <1>1, HeadTailProperties
<1>3. Len(events) \in Nat BY <1>1, LenProperties
<1>4. ASSUME NEW n \in 1..Len(events'), events'[n] = <<"wake", s>> PROVE FALSE
  <2>1. n + 1 \in 1..Len(events) /\ 1 \in 1..Len(events) BY <1>2, <1>3
  <2>2. events[n + 1] = <<"wake", s>> BY <1>2, <1>4
  <2>3. n + 1 = 1 BY <1>2, <2>1, <2>2 DEF OneWakePerScope
  <2> QED BY <1>3, <2>1, <2>3
<1> QED BY <1>4 DEF Queued

\* What FlagsAccounted says of one scope.
Accounted(x) ==
    /\ Queued("wake", x) => wakePending[x]
    /\ x \notin lost =>
         /\ wakePending[x] => Queued("wake", x)
         /\ pending[x] => timers[x] > 0 \/ Queued("reconcile", x)

LEMMA StepFlagsAccounted ==
  ASSUME TypeOK, OneWakePerScope, FlagsAccounted, [Next]_vars
  PROVE  FlagsAccounted'
<1> SUFFICES ASSUME NEW x \in Scopes PROVE Accounted(x)'
  BY DEF FlagsAccounted, Accounted
<1>0. /\ Accounted(x) /\ QueuesOK /\ timers \in [Scopes -> Nat]
      /\ wakePending \in [Scopes -> BOOLEAN] /\ pending \in [Scopes -> BOOLEAN]
  BY DEF FlagsAccounted, Accounted, TypeOK, NumbersOK, FlagsOK
<1>1. ASSUME NEW s \in Scopes, BridgeState(s) PROVE Accounted(x)'
  <2>1. \E kind \in {"online", "offline"} : Enqueue(kind, s) BY <1>1 DEF BridgeState
  <2>2. UNCHANGED <<wakePending, pending, timers>> BY <1>1 DEF BridgeState, loop
  <2>3. /\ \A k \in {"wake", "reconcile"} : Queued(k, x)' <=> Queued(k, x)
        /\ lost \subseteq lost'
    BY <1>0, <2>1, EnqueueEffect DEF Kinds
  <2> QED BY <1>0, <2>2, <2>3 DEF Accounted
<1>2. ASSUME NEW s \in Scopes, BridgeWake(s) PROVE Accounted(x)'
  <2>1. UNCHANGED <<pending, timers>> BY <1>2 DEF BridgeWake, loop
  <2>2. CASE wakePending[s]
    <3>1. UNCHANGED <<wakePending, events, lost>> BY <1>2, <2>2 DEF BridgeWake
    <3> QED BY <1>0, <2>1, <3>1 DEF Accounted, Queued
  <2>3. CASE ~wakePending[s]
    <3>1. Enqueue("wake", s) /\ wakePending' = [wakePending EXCEPT ![s] = TRUE]
      BY <1>2, <2>3 DEF BridgeWake
    <3>2. /\ lost \subseteq lost' /\ (s \notin lost' => Queued("wake", s)')
          /\ \A k, y : Queued(k, y)' => <<k, y>> = <<"wake", s>> \/ Queued(k, y)
          /\ \A k, y : Queued(k, y) => Queued(k, y)'
      BY <1>0, <3>1, EnqueueEffect DEF Kinds
    <3>3. CASE x = s
      BY <1>0, <2>1, <3>1, <3>2, <3>3 DEF Accounted
    <3>4. CASE x # s
      <4>1. wakePending'[x] = wakePending[x] BY <1>0, <3>1, <3>4
      <4> QED BY <1>0, <2>1, <3>2, <3>4, <4>1 DEF Accounted
    <3> QED BY <3>3, <3>4
  <2> QED BY <2>2, <2>3
<1>3. ASSUME NEW s \in Scopes, TimerFires(s) PROVE Accounted(x)'
  <2>1. /\ Enqueue("reconcile", s) /\ timers' = [timers EXCEPT ![s] = @ - 1]
        /\ UNCHANGED <<wakePending, pending>>
    BY <1>3 DEF TimerFires, loop
  <2>2. /\ lost \subseteq lost' /\ (s \notin lost' => Queued("reconcile", s)')
        /\ \A k, y : Queued(k, y)' => <<k, y>> = <<"reconcile", s>> \/ Queued(k, y)
        /\ \A k, y : Queued(k, y) => Queued(k, y)'
    BY <1>0, <2>1, EnqueueEffect DEF Kinds
  <2>3. x # s => timers'[x] = timers[x] BY <1>0, <2>1
  <2> QED BY <1>0, <2>1, <2>2, <2>3 DEF Accounted
<1>4. ASSUME NEW s \in Scopes, OthersEnqueue(s) PROVE Accounted(x)'
  <2>1. UNCHANGED <<wakePending, pending, timers, lost>> BY <1>4 DEF OthersEnqueue, loop
  <2>2. PICK kind \in {"job", "other"} :
          events' = Append(events, <<kind, s>>) \/ UNCHANGED events
    BY <1>4 DEF OthersEnqueue
  <2>3. \A k \in {"wake", "reconcile"} : Queued(k, x)' <=> Queued(k, x)
    <3>1. CASE UNCHANGED events BY <3>1 DEF Queued
    <3>2. CASE events' = Append(events, <<kind, s>>)
      <4>1. ASSUME NEW k \in {"wake", "reconcile"}
            PROVE  Queued(k, x)' <=> (<<k, x>> = <<kind, s>> \/ Queued(k, x))
        BY <1>0, <3>2, AppendEffect DEF Kinds
      <4> QED BY <4>1
    <3> QED BY <2>2, <3>1, <3>2
  <2> QED BY <1>0, <2>1, <2>3 DEF Accounted
<1>5. ASSUME NEW s \in Scopes, HandleWake(s) PROVE Accounted(x)'
  <2>1. /\ Take("wake", s) /\ wakePending' = [wakePending EXCEPT ![s] = FALSE]
        /\ ScheduleReconcile(s) /\ UNCHANGED lost
    BY <1>5 DEF HandleWake
  <2>2. /\ Queued("reconcile", x) <=> Queued("reconcile", x)'
        /\ Queued("wake", x) <=> x = s \/ Queued("wake", x)'
    BY <1>0, <2>1, TakeEffect
  <2>3. ~Queued("wake", s)' BY <1>0, <2>1, WakeTaken
  <2>4. /\ pending'[x] => pending[x] \/ timers'[x] > 0
        /\ timers[x] > 0 => timers'[x] > 0
    BY <1>0, <2>1 DEF ScheduleReconcile
  <2>5. CASE x = s
    <3>1. ~wakePending'[x] BY <1>0, <2>1, <2>5
    <3> QED BY <1>0, <2>1, <2>2, <2>3, <2>4, <2>5, <3>1 DEF Accounted
  <2>6. CASE x # s
    <3>1. wakePending'[x] = wakePending[x] BY <1>0, <2>1, <2>6
    <3> QED BY <1>0, <2>1, <2>2, <2>4, <2>6, <3>1 DEF Accounted
  <2> QED BY <2>5, <2>6
<1>6. ASSUME NEW s \in Scopes, HandleJob(s) PROVE Accounted(x)'
  <2>1. Take("job", s) /\ ScheduleReconcile(s) /\ UNCHANGED <<lost, wakePending>>
    BY <1>6 DEF HandleJob
  <2>2. \A k \in {"wake", "reconcile"} : Queued(k, x)' <=> Queued(k, x)
    BY <1>0, <2>1, TakeEffect
  <2>3. /\ pending'[x] => pending[x] \/ timers'[x] > 0
        /\ timers[x] > 0 => timers'[x] > 0
    BY <1>0, <2>1 DEF ScheduleReconcile
  <2> QED BY <1>0, <2>1, <2>2, <2>3 DEF Accounted
<1>7. ASSUME NEW s \in Scopes, HandleReconcile(s) \/ HandleOnline(s) PROVE Accounted(x)'
  <2>1. /\ \E k \in {"reconcile", "online"} : Take(k, s)
        /\ pending' = [y \in Scopes |-> pending[y] /\ y \notin {s}]
        /\ UNCHANGED <<lost, wakePending, timers>>
    BY <1>7 DEF HandleReconcile, HandleOnline, ReconcileAll
  <2>2. /\ Queued("wake", x)' <=> Queued("wake", x)
        /\ x # s /\ Queued("reconcile", x) => Queued("reconcile", x)'
    BY <1>0, <2>1, TakeEffect
  <2>3. pending'[x] => x # s /\ pending[x] BY <2>1
  <2> QED BY <1>0, <2>1, <2>2, <2>3 DEF Accounted
<1>8. ASSUME NEW s \in Scopes, HandleOffline(s) \/ HandleOther(s) PROVE Accounted(x)'
  <2>1. /\ \E k \in {"offline", "other"} : Take(k, s)
        /\ UNCHANGED <<lost, wakePending, pending, timers>>
    BY <1>8 DEF HandleOffline, HandleOther, loop
  <2>2. \A k \in {"wake", "reconcile"} : Queued(k, x)' <=> Queued(k, x)
    BY <1>0, <2>1, TakeEffect
  <2> QED BY <1>0, <2>1, <2>2 DEF Accounted
<1>9. CASE PollTick
  <2>1. UNCHANGED <<events, lost, wakePending, timers>> BY <1>9 DEF PollTick
  <2>2. pending'[x] => pending[x] BY <1>9 DEF PollTick, ReconcileAll
  <2> QED BY <1>0, <2>1, <2>2 DEF Accounted, Queued
<1>10. CASE /\ UNCHANGED <<events, wakePending, pending, timers>>
            /\ lost \subseteq lost'
  BY <1>0, <1>10 DEF Accounted, Queued
<1>11. \/ \E s \in Scopes : \/ BridgeState(s) \/ BridgeWake(s) \/ TimerFires(s)
                            \/ OthersEnqueue(s) \/ HandleWake(s) \/ HandleJob(s)
                            \/ HandleReconcile(s) \/ HandleOnline(s)
                            \/ HandleOffline(s) \/ HandleOther(s)
       \/ PollTick
       \/ UNCHANGED <<events, wakePending, pending, timers>> /\ lost \subseteq lost'
  BY DEF Next, vars, loop, Systemd, Hints, Supervise, Bridge, Handle, UnitChanges,
     ManagerFails, ManagerRecovers, Pump, Forward, SessionStarts, SessionUp,
     SessionEnds, SessionDown, Announce
<1> QED
  BY <1>1, <1>2, <1>3, <1>4, <1>5, <1>6, <1>7, <1>8, <1>9, <1>10, <1>11

-----------------------------------------------------------------------------
(* No wake is lost *)

\* What NoLostWake says of one scope.
Watched(x) == Online(x) /\ manager[x] # "gone" /\ seen[x] # truth[x] /\ x \notin lost
Kept(x)    == Watched(x) => QueryUnderWay(x) \/ strikes[x] > 0

\* A query of a scope that is online leaves it up to date, or counts a failure.
LEMMA QueryAllEffect ==
  ASSUME NumbersOK, NEW S, NEW closed, QueryAll(S, closed), UNCHANGED <<truth, session>>,
         NEW x \in S, x \in Scopes, Online(x)
  PROVE  seen'[x] = truth'[x] \/ strikes'[x] > 0
<1>1. CASE manager[x] = "fine" BY <1>1 DEF QueryAll
<1>2. CASE manager[x] # "fine"
  <2>1. strikes'[x] \in {1, 2} BY <1>2 DEF QueryAll
  <2> QED BY <2>1
<1> QED BY <1>1, <1>2

\* A query of other scopes changes nothing about this one.
LEMMA QueryAllElsewhere ==
  ASSUME NEW S, NEW closed, QueryAll(S, closed), NEW x \in Scopes, x \notin S
  PROVE  seen'[x] = seen[x] /\ strikes'[x] = strikes[x]
  BY DEF QueryAll

LEMMA StepKept ==
  ASSUME TypeOK, FlagsAccounted, NoLostWake, [Next]_vars PROVE NoLostWake'
<1> SUFFICES ASSUME NEW x \in Scopes PROVE Kept(x)'
  BY DEF NoLostWake, Kept, Watched
<1>0. Kept(x) /\ Accounted(x) /\ QueuesOK /\ NumbersOK
  BY DEF NoLostWake, Kept, Watched, FlagsAccounted, Accounted, TypeOK
<1> USE <1>0
<1>a. /\ signal \in [Scopes -> BOOLEAN] /\ connWake \in [Scopes -> BOOLEAN]
      /\ supWake \in [Scopes -> BOOLEAN] /\ wakePending \in [Scopes -> BOOLEAN]
      /\ pending \in [Scopes -> BOOLEAN] /\ timers \in [Scopes -> Nat]
      /\ manager \in [Scopes -> {"fine", "hung", "gone"}]
      /\ session \in [Scopes -> {"down", "rising", "up", "falling"}]
      /\ truth \in [Scopes -> Nat] /\ strikes \in [Scopes -> 0..2]
  BY DEF TypeOK, FlagsOK, NumbersOK
<1>1. ASSUME NEW s \in Scopes, UnitChanges(s) PROVE Kept(x)'
  <2>1. /\ truth' = [truth EXCEPT ![s] = @ + 1] /\ manager[s] # "hung"
        /\ signal' = [signal EXCEPT ![s] =
                        @ \/ (session[s] # "down" /\ manager[s] = "fine")]
        /\ UNCHANGED <<manager, connWake, supWake, session, strikes, stateCh, events,
                       seen, timers, lost>>
    BY <1>1 DEF UnitChanges, supervisor, loop
  <2>2. CASE x = s
    <3>1. ASSUME Watched(x)' PROVE signal'[x]
      BY <1>a, <2>1, <2>2, <3>1 DEF Watched, Online
    <3> QED BY <3>1 DEF Kept, QueryUnderWay
  <2>3. CASE x # s
    <3>1. truth'[x] = truth[x] /\ signal'[x] = signal[x] BY <1>a, <2>1, <2>3
    <3> QED BY <2>1, <3>1 DEF Kept, Watched, Online, QueryUnderWay, Queued, Announced
  <2> QED BY <2>2, <2>3
<1>2. ASSUME NEW s \in Scopes, ManagerFails(s) \/ ManagerRecovers(s) PROVE Kept(x)'
  <2>1. UNCHANGED <<truth, signal, connWake, supWake, session, strikes, stateCh, events,
                    seen, timers, lost>>
    BY <1>2 DEF ManagerFails, ManagerRecovers, supervisor, loop
  <2>2. manager'[x] # "gone" => manager[x] # "gone"
    BY <1>2, <1>a DEF ManagerFails, ManagerRecovers
  <2> QED BY <2>1, <2>2 DEF Kept, Watched, Online, QueryUnderWay, Queued, Announced
<1>3. ASSUME NEW s \in Scopes, Pump(s) \/ Forward(s) PROVE Kept(x)'
  <2>1. UNCHANGED <<truth, manager, session, strikes, stateCh, events, seen, timers, lost>>
    BY <1>3 DEF Pump, Forward, supervisor, loop
  <2>2. signal[x] \/ connWake[x] \/ supWake[x]
          => signal'[x] \/ connWake'[x] \/ supWake'[x]
    BY <1>3, <1>a DEF Pump, Forward, supervisor
  <2> QED BY <2>1, <2>2 DEF Kept, Watched, Online, QueryUnderWay, Queued, Announced
<1>4. ASSUME NEW s \in Scopes, SessionStarts(s) PROVE Kept(x)'
  <2>1. /\ session[s] = "down" /\ session' = [session EXCEPT ![s] = "rising"]
        /\ manager' = [manager EXCEPT ![s] = "fine"]
        /\ strikes' = [strikes EXCEPT ![s] = 0]
        /\ UNCHANGED <<truth, signal, connWake, supWake, stateCh, events, seen, timers,
                       lost>>
    BY <1>4 DEF SessionStarts, loop
  <2>2. CASE x = s
    <3>1. session'[x] = "rising" BY <1>a, <2>1, <2>2
    <3> QED BY <3>1 DEF Kept, QueryUnderWay
  <2>3. CASE x # s
    <3>1. session'[x] = session[x] /\ manager'[x] = manager[x] /\ strikes'[x] = strikes[x]
      BY <1>a, <2>1, <2>3
    <3> QED BY <2>1, <3>1 DEF Kept, Watched, Online, QueryUnderWay, Queued, Announced
  <2> QED BY <2>2, <2>3
<1>5. ASSUME NEW s \in Scopes, SessionUp(s) PROVE Kept(x)'
  <2>1. /\ session' = [session EXCEPT ![s] = "up"] /\ session[s] = "rising"
        /\ Announce(s, TRUE)
        /\ UNCHANGED <<truth, manager, signal, connWake, supWake, strikes, events, seen,
                       timers>>
    BY <1>5 DEF SessionUp, systemd, loop
  <2>2. /\ lost \subseteq lost' /\ (Announced(x) => Announced(x)')
        /\ s \notin lost' => Announced(s)'
    BY <2>1, AnnounceEffect
  <2>3. CASE x = s
    BY <2>2, <2>3 DEF Kept, Watched, QueryUnderWay
  <2>4. CASE x # s
    <3>1. session'[x] = session[x] BY <1>a, <2>1, <2>4
    <3> QED BY <2>1, <2>2, <3>1 DEF Kept, Watched, Online, QueryUnderWay, Queued
  <2> QED BY <2>3, <2>4
<1>6. ASSUME NEW s \in Scopes, SessionEnds(s) PROVE Kept(x)'
  <2>1. /\ session' = [session EXCEPT ![s] = "falling"] /\ session[s] = "up"
        /\ UNCHANGED <<truth, manager, signal, connWake, supWake, strikes, stateCh,
                       events, seen, timers, lost>>
    BY <1>6 DEF SessionEnds, systemd, loop
  <2>2. CASE x = s
    <3>1. session'[x] = "falling" BY <1>a, <2>1, <2>2
    <3> QED BY <3>1 DEF Kept, Watched, Online
  <2>3. CASE x # s
    <3>1. session'[x] = session[x] BY <1>a, <2>1, <2>3
    <3> QED BY <2>1, <3>1 DEF Kept, Watched, Online, QueryUnderWay, Queued, Announced
  <2> QED BY <2>2, <2>3
<1>7. ASSUME NEW s \in Scopes, SessionDown(s) PROVE Kept(x)'
  <2>1. /\ session' = [session EXCEPT ![s] = "down"] /\ Announce(s, FALSE)
        /\ signal' = [signal EXCEPT ![s] = FALSE]
        /\ connWake' = [connWake EXCEPT ![s] = FALSE]
        /\ UNCHANGED <<truth, manager, supWake, strikes, events, seen, timers>>
    BY <1>7 DEF SessionDown, loop
  <2>2. lost \subseteq lost' /\ (Announced(x) => Announced(x)')
    BY <2>1, AnnounceEffect
  <2>3. CASE x = s
    <3>1. session'[x] = "down" BY <1>a, <2>1, <2>3
    <3> QED BY <3>1 DEF Kept, Watched, Online
  <2>4. CASE x # s
    <3>1. session'[x] = session[x] /\ signal'[x] = signal[x] /\ connWake'[x] = connWake[x]
      BY <1>a, <2>1, <2>4
    <3> QED BY <2>1, <2>2, <3>1 DEF Kept, Watched, Online, QueryUnderWay, Queued
  <2> QED BY <2>3, <2>4
<1>8. ASSUME NEW s \in Scopes, BridgeState(s) PROVE Kept(x)'
  <2>1. UNCHANGED <<truth, manager, signal, connWake, session, supWake, strikes, seen,
                    timers>>
    BY <1>8 DEF BridgeState, systemd, loop
  <2>2. Enqueue(IF Head(stateCh[s]) THEN "online" ELSE "offline", s)
    BY <1>8 DEF BridgeState
  <2>3. Announced(x) => Announced(x)' \/ (x = s /\ Head(stateCh[s]))
    BY <1>8, BridgeStateEffect
  <2>4. /\ lost \subseteq lost' /\ (\A k, y : Queued(k, y) => Queued(k, y)')
        /\ Head(stateCh[s]) /\ s \notin lost' => Queued("online", s)'
    BY <2>2, EnqueueEffect DEF Kinds
  <2> QED BY <2>1, <2>3, <2>4 DEF Kept, Watched, Online, QueryUnderWay
<1>9. ASSUME NEW s \in Scopes, BridgeWake(s) PROVE Kept(x)'
  <2>1. /\ supWake' = [supWake EXCEPT ![s] = FALSE]
        /\ UNCHANGED <<truth, manager, signal, connWake, session, strikes, stateCh,
                       seen, timers>>
    BY <1>9 DEF BridgeWake, systemd, loop
  <2>2. CASE wakePending[s]
    <3>1. UNCHANGED <<events, lost>> BY <1>9, <2>2 DEF BridgeWake
    <3>2. x = s /\ x \notin lost => Queued("wake", x) BY <2>2 DEF Accounted
    <3>3. x # s => supWake'[x] = supWake[x] BY <1>a, <2>1
    <3>4. \A k, y : Queued(k, y)' <=> Queued(k, y) BY <3>1 DEF Queued
    <3> QED
      BY <2>1, <3>1, <3>2, <3>3, <3>4 DEF Kept, Watched, Online, QueryUnderWay, Announced
  <2>3. CASE ~wakePending[s]
    <3>1. Enqueue("wake", s) BY <1>9, <2>3 DEF BridgeWake
    <3>2. /\ lost \subseteq lost' /\ (s \notin lost' => Queued("wake", s)')
          /\ \A k, y : Queued(k, y) => Queued(k, y)'
      BY <3>1, EnqueueEffect DEF Kinds
    <3>3. x # s => supWake'[x] = supWake[x] BY <1>a, <2>1
    <3> QED BY <2>1, <3>2, <3>3 DEF Kept, Watched, Online, QueryUnderWay, Announced
  <2> QED BY <2>2, <2>3
<1>10. ASSUME NEW s \in Scopes, TimerFires(s) PROVE Kept(x)'
  <2>1. /\ Enqueue("reconcile", s) /\ timers' = [timers EXCEPT ![s] = @ - 1]
        /\ UNCHANGED <<truth, manager, signal, connWake, session, supWake, strikes,
                       stateCh, seen>>
    BY <1>10 DEF TimerFires, systemd, supervisor, loop
  <2>2. /\ lost \subseteq lost' /\ (s \notin lost' => Queued("reconcile", s)')
        /\ \A k, y : Queued(k, y) => Queued(k, y)'
    BY <2>1, EnqueueEffect DEF Kinds
  <2>3. x # s => timers'[x] = timers[x] BY <1>a, <2>1
  <2> QED BY <2>1, <2>2, <2>3 DEF Kept, Watched, Online, QueryUnderWay, Announced
<1>11. ASSUME NEW s \in Scopes, OthersEnqueue(s) PROVE Kept(x)'
  <2>1. UNCHANGED <<truth, manager, signal, connWake, session, supWake, strikes,
                    stateCh, seen, timers, lost>>
    BY <1>11 DEF OthersEnqueue, systemd, supervisor, loop
  <2>2. PICK kind \in {"job", "other"} :
          events' = Append(events, <<kind, s>>) \/ UNCHANGED events
    BY <1>11 DEF OthersEnqueue
  <2>3. \A k \in {"wake", "reconcile", "online"} : Queued(k, x) => Queued(k, x)'
    <3>1. CASE UNCHANGED events BY <3>1 DEF Queued
    <3>2. CASE events' = Append(events, <<kind, s>>)
      <4>1. ASSUME NEW k \in {"wake", "reconcile", "online"}
            PROVE  Queued(k, x)' <=> (<<k, x>> = <<kind, s>> \/ Queued(k, x))
        BY <3>2, AppendEffect DEF Kinds
      <4> QED BY <4>1
    <3> QED BY <2>2, <3>1, <3>2
  <2> QED BY <2>1, <2>3 DEF Kept, Watched, Online, QueryUnderWay, Announced
<1>12. ASSUME NEW s \in Scopes, HandleWake(s) PROVE Kept(x)'
  <2>1. /\ Take("wake", s) /\ ScheduleReconcile(s)
        /\ UNCHANGED <<truth, manager, signal, connWake, session, supWake, strikes,
                       stateCh, seen, lost>>
    BY <1>12 DEF HandleWake, systemd, supervisor
  <2>2. /\ Queued("wake", x) => x = s \/ Queued("wake", x)'
        /\ Queued("reconcile", x) => Queued("reconcile", x)'
        /\ Queued("online", x) => Queued("online", x)'
    BY <2>1, TakeEffect
  <2>3. timers[x] > 0 => timers'[x] > 0 BY <1>a, <2>1 DEF ScheduleReconcile
  <2>4. x = s => pending[x] \/ timers'[x] > 0 BY <1>a, <2>1 DEF ScheduleReconcile
  <2>5. x \notin lost /\ pending[x] => timers[x] > 0 \/ Queued("reconcile", x)
    BY DEF Accounted
  <2> QED
    BY <2>1, <2>2, <2>3, <2>4, <2>5 DEF Kept, Watched, Online, QueryUnderWay, Announced
<1>13. ASSUME NEW s \in Scopes, HandleJob(s) PROVE Kept(x)'
  <2>1. /\ Take("job", s) /\ ScheduleReconcile(s)
        /\ UNCHANGED <<truth, manager, signal, connWake, session, supWake, strikes,
                       stateCh, seen, lost>>
    BY <1>13 DEF HandleJob, systemd, supervisor
  <2>2. \A k \in {"wake", "reconcile", "online"} : Queued(k, x) => Queued(k, x)'
    BY <2>1, TakeEffect
  <2>3. timers[x] > 0 => timers'[x] > 0 BY <1>a, <2>1 DEF ScheduleReconcile
  <2> QED BY <2>1, <2>2, <2>3 DEF Kept, Watched, Online, QueryUnderWay, Announced
<1>14. ASSUME NEW s \in Scopes, HandleReconcile(s) \/ HandleOnline(s) PROVE Kept(x)'
  <2>1. PICK closed : QueryAll({s}, closed)
    BY <1>14 DEF HandleReconcile, HandleOnline, ReconcileAll
  <2>2. /\ \E k \in {"reconcile", "online"} : Take(k, s)
        /\ UNCHANGED <<truth, manager, signal, connWake, session, supWake, stateCh,
                       timers, lost>>
    BY <1>14 DEF HandleReconcile, HandleOnline, systemd
  <2>3. CASE x = s
    <3>1. Online(x) => seen'[x] = truth'[x] \/ strikes'[x] > 0
      BY <2>1, <2>2, <2>3, QueryAllEffect
    <3> QED BY <2>2, <3>1 DEF Kept, Watched, Online
  <2>4. CASE x # s
    <3>1. seen'[x] = seen[x] /\ strikes'[x] = strikes[x]
      BY <2>1, <2>4, QueryAllElsewhere
    <3>2. \A k \in {"wake", "reconcile", "online"} : Queued(k, x) => Queued(k, x)'
      BY <2>2, <2>4, TakeEffect
    <3> QED BY <2>2, <3>1, <3>2 DEF Kept, Watched, Online, QueryUnderWay, Announced
  <2> QED BY <2>3, <2>4
<1>15. ASSUME NEW s \in Scopes, HandleOffline(s) \/ HandleOther(s) PROVE Kept(x)'
  <2>1. /\ \E k \in {"offline", "other"} : Take(k, s)
        /\ UNCHANGED <<truth, manager, signal, connWake, session, supWake, strikes,
                       stateCh, seen, timers, lost>>
    BY <1>15 DEF HandleOffline, HandleOther, systemd, supervisor, loop
  <2>2. \A k \in {"wake", "reconcile", "online"} : Queued(k, x) => Queued(k, x)'
    BY <2>1, TakeEffect
  <2> QED BY <2>1, <2>2 DEF Kept, Watched, Online, QueryUnderWay, Announced
<1>16. CASE PollTick
  <2> DEFINE S == {s \in Scopes : Online(s) \/ ~busOnline[s]}
  <2>1. PICK closed : QueryAll(S, closed) BY <1>16 DEF PollTick, ReconcileAll
  <2>2. UNCHANGED <<truth, manager, session, lost>> BY <1>16 DEF PollTick, systemd
  <2>3. Online(x) => seen'[x] = truth'[x] \/ strikes'[x] > 0
    <3> SUFFICES ASSUME Online(x) PROVE seen'[x] = truth'[x] \/ strikes'[x] > 0 OBVIOUS
    <3>1. x \in S OBVIOUS
    <3> HIDE DEF S
    <3> QED BY <2>1, <2>2, <3>1, QueryAllEffect
  <2> QED BY <2>2, <2>3 DEF Kept, Watched, Online
<1>17. CASE UNCHANGED vars
  BY <1>17 DEF vars, systemd, supervisor, loop, Kept, Watched, Online, QueryUnderWay,
     Queued, Announced
<1> QED
  BY <1>1, <1>2, <1>3, <1>4, <1>5, <1>6, <1>7, <1>8, <1>9, <1>10, <1>11, <1>12, <1>13,
     <1>14, <1>15, <1>16, <1>17
  DEF Next, Systemd, Hints, Supervise, Bridge, Handle

-----------------------------------------------------------------------------

LEMMA InitIInv == Init => IInv
<1> SUFFICES ASSUME Init PROVE IInv OBVIOUS
<1>1. TypeOK BY InitTypeOK
<1>2. Len(events) = 0 BY EmptySeq DEF Init
<1>3. OneWakePerScope BY <1>2 DEF OneWakePerScope
<1>4. FlagsAccounted
  <2>1. \A k, s : ~Queued(k, s) BY <1>2 DEF Queued
  <2>2. \A s \in Scopes : ~wakePending[s] /\ ~pending[s] BY DEF Init, Everywhere
  <2> QED BY <2>1, <2>2 DEF FlagsAccounted
<1>5. NoLostWake BY DEF Init, Everywhere, NoLostWake, Online
<1> QED BY <1>1, <1>3, <1>4, <1>5 DEF IInv

LEMMA Inductive == Spec => []IInv
<1>1. IInv /\ [Next]_vars => IInv'
  BY StepTypeOK, StepOneWake, StepFlagsAccounted, StepKept DEF IInv
<1> QED BY InitIInv, <1>1, PTL DEF Spec

\* A burst of signals never holds more than one slot of the queue.
THEOREM AtMostOneWake == Spec => []OneWakePerScope
<1>1. IInv => OneWakePerScope BY DEF IInv
<1> QED BY <1>1, Inductive, PTL

\* Nothing between a signal and the query forgets a change, however the coalescing
\* channels, the flags, the timers and the sessions interleave.
THEOREM WakesAreKept == Spec => []NoLostWake
<1>1. IInv => NoLostWake BY DEF IInv
<1> QED BY <1>1, Inductive, PTL

=============================================================================
