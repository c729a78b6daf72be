-------------------------- MODULE RepublishProofs --------------------------
(***************************************************************************)
(* The cache of what was published tells the truth about a connection that *)
(* had its republish, and the republish a connection waits for is never    *)
(* forgotten: proved for every capacity of the queues and every number of  *)
(* losses, drops and moves.                                                *)
(***************************************************************************)
EXTENDS Republish, SequenceTheorems, TLAPS

(***************************************************************************)
(* Publishing one message after the other                                  *)
(***************************************************************************)

\* What has been published, as it may be.
Sane(p) ==
    /\ p \in [last : [Topics -> Values], out : Seq(Message), refused : SUBSET Topics]
    /\ Len(p.out) <= OutCap

\* Nothing in the queue is about the topic.
Quiet(queue, topic) == \A i \in 1 .. Len(queue) : queue[i].topic # topic

\* With b retained, the cache is right about the topic, or the queue was full.
Right(p, b, topic) == topic \in p.refused \/ Leaves(p.out, topic, b[topic], p.last[topic])

\* One more message leaves its value on its own topic, and on no other.
LEMMA AppendLeaves ==
    ASSUME NEW queue \in Seq(Message), NEW m \in Message
    PROVE  /\ Append(queue, m) \in Seq(Message) /\ Len(Append(queue, m)) = Len(queue) + 1
           /\ \A v : Leaves(Append(queue, m), m.topic, v, m.value)
           /\ \A topic \in Topics \ {m.topic} :
                /\ Quiet(queue, topic) => Quiet(Append(queue, m), topic)
                /\ \A v, w : Leaves(queue, topic, v, w) => Leaves(Append(queue, m), topic, v, w)
<1> DEFINE longer == Append(queue, m)
<1>1. /\ longer \in Seq(Message) /\ Len(queue) \in Nat /\ Len(longer) = Len(queue) + 1
      /\ longer[Len(longer)] = m /\ \A i \in 1 .. Len(queue) : longer[i] = queue[i]
  BY AppendProperties, LenProperties
<1> HIDE DEF longer
<1>2. m = Msg(m.topic, m.value)
  BY DEF Message, Msg
<1>3. ASSUME NEW v PROVE Leaves(longer, m.topic, v, m.value)
  <2>1. Len(longer) \in 1 .. Len(longer) /\ Len(longer) + 1 .. Len(longer) = {}
    BY <1>1
  <2> QED
    BY <1>1, <1>2, <2>1 DEF Leaves
<1>4. ASSUME NEW topic \in Topics \ {m.topic}, Quiet(queue, topic) PROVE Quiet(longer, topic)
  BY <1>1, <1>4 DEF Quiet
<1>5. ASSUME NEW topic \in Topics \ {m.topic}, NEW v, NEW w, Leaves(queue, topic, v, w)
      PROVE  Leaves(longer, topic, v, w)
  <2>1. CASE v = w /\ Quiet(queue, topic)
    BY <1>4, <2>1 DEF Leaves, Quiet
  <2>2. CASE \E i \in 1 .. Len(queue) :
                /\ queue[i] = Msg(topic, w)
                /\ \A j \in i + 1 .. Len(queue) : queue[j].topic # topic
    <3>1. PICK i \in 1 .. Len(queue) :
                /\ queue[i] = Msg(topic, w)
                /\ \A j \in i + 1 .. Len(queue) : queue[j].topic # topic
      BY <2>2
    <3>2. i \in 1 .. Len(longer) /\ longer[i] = Msg(topic, w)
      BY <1>1, <3>1
    <3>3. \A j \in i + 1 .. Len(longer) : longer[j].topic # topic
      BY <1>1, <3>1
    <3> QED
      BY <3>2, <3>3 DEF Leaves
  <2> QED
    BY <1>5, <2>1, <2>2 DEF Leaves, Quiet
<1> QED
  BY <1>1, <1>3, <1>4, <1>5 DEF longer

\* What publish does to the message's own topic, and that it does nothing to the others.
LEMMA PublishDoes ==
    ASSUME NEW p, Sane(p), NEW m \in Message, NEW force \in BOOLEAN,
           NEW b \in [Topics -> Values]
    PROVE  /\ Sane(publish(p, m, force))
           /\ force \/ Right(p, b, m.topic) => Right(publish(p, m, force), b, m.topic)
           /\ \A topic \in Topics \ {m.topic} :
                /\ publish(p, m, force).last[topic] = p.last[topic]
                /\ Quiet(p.out, topic) => Quiet(publish(p, m, force).out, topic)
                /\ Right(p, b, topic) => Right(publish(p, m, force), b, topic)
<1> DEFINE q == publish(p, m, force)
<1>1. /\ p.last \in [Topics -> Values] /\ p.out \in Seq(Message) /\ p.refused \subseteq Topics
      /\ Len(p.out) \in Nat /\ Len(p.out) <= OutCap /\ OutCap \in Nat
      /\ m.topic \in Topics /\ m.value \in Values
      /\ p \in [last : [Topics -> Values], out : Seq(Message), refused : SUBSET Topics]
  BY RepublishAssumption, LenProperties DEF Sane, Message
<1>2. CASE ~force /\ p.last[m.topic] = m.value
  <2>1. q = p
    BY <1>2 DEF publish
  <2> QED
    BY <1>2, <2>1
<1>3. CASE force \/ p.last[m.topic] # m.value
  <2> DEFINE now == [p.last EXCEPT ![m.topic] = m.value]
  <2>1. /\ now \in [Topics -> Values] /\ now[m.topic] = m.value
        /\ \A topic \in Topics \ {m.topic} : now[topic] = p.last[topic]
    BY <1>1
  <2>2. CASE Len(p.out) < OutCap
    <3>1. q = [last |-> now, out |-> Append(p.out, m), refused |-> p.refused \ {m.topic}]
      BY <1>1, <1>3, <2>2 DEF publish, enqueue
    <3>2. /\ q.last = now /\ q.out = Append(p.out, m) /\ q.refused = p.refused \ {m.topic}
      BY <3>1
    <3> HIDE DEF now, q
    <3>3. Sane(q)
      BY <1>1, <2>1, <2>2, <3>1, AppendLeaves DEF Sane
    <3>4. Right(q, b, m.topic)
      <4>1. \A v : Leaves(Append(p.out, m), m.topic, v, m.value)
        BY <1>1, AppendLeaves
      <4>2. q.last[m.topic] = m.value
        BY <2>1, <3>2
      <4> QED
        BY <3>2, <4>1, <4>2 DEF Right
    <3>5. ASSUME NEW topic \in Topics \ {m.topic}
          PROVE  /\ q.last[topic] = p.last[topic]
                 /\ Quiet(p.out, topic) => Quiet(q.out, topic)
                 /\ Right(p, b, topic) => Right(q, b, topic)
      <4>1. q.last[topic] = p.last[topic]
        BY <2>1, <3>2
      <4>2. Quiet(p.out, topic) => Quiet(q.out, topic)
        BY <1>1, <3>2, AppendLeaves
      <4>3. Right(p, b, topic) => Right(q, b, topic)
        BY <1>1, <3>2, <4>1, AppendLeaves DEF Right
      <4> QED
        BY <4>1, <4>2, <4>3
    <3> QED
      BY <3>3, <3>4, <3>5 DEF q
  <2>3. CASE ~(Len(p.out) < OutCap)
    <3>1. q = [last |-> now, out |-> p.out, refused |-> p.refused \cup {m.topic}]
      BY <1>1, <1>3, <2>3 DEF publish, enqueue
    <3>2. /\ q.last = now /\ q.out = p.out /\ q.refused = p.refused \cup {m.topic}
      BY <3>1
    <3> HIDE DEF now, q
    <3>3. Sane(q)
      BY <1>1, <2>1, <3>1 DEF Sane
    <3>4. Right(q, b, m.topic)
      BY <3>2 DEF Right
    <3>5. \A topic \in Topics \ {m.topic} :
             /\ q.last[topic] = p.last[topic]
             /\ Quiet(p.out, topic) => Quiet(q.out, topic)
             /\ Right(p, b, topic) => Right(q, b, topic)
      BY <2>1, <3>2 DEF Right
    <3> QED
      BY <3>3, <3>4, <3>5 DEF q
  <2> QED
    BY <2>2, <2>3
<1> QED
  BY <1>2, <1>3

\* A message about the unit, when there is something to say.
LEMMA PublishUnitDoes ==
    ASSUME NEW p, Sane(p), NEW state \in Modes \cup {"unknown"}, NEW force \in BOOLEAN,
           NEW b \in [Topics -> Values]
    PROVE  /\ Sane(publishUnit(p, state, force))
           /\ \A topic \in Topics :
                Right(p, b, topic) \/ (force /\ topic = "unit" /\ state # "unknown")
                => Right(publishUnit(p, state, force), b, topic)
<1>1. CASE state = "unknown"
  BY <1>1 DEF publishUnit
<1>2. CASE state # "unknown"
  <2>0. PICK m : m = Msg("unit", state)
    OBVIOUS
  <2>1. m = Msg("unit", state) /\ m \in Message /\ m.topic = "unit"
    BY <1>2, <2>0 DEF Msg, Message, Topics, Values
  <2>2. publishUnit(p, state, force) = publish(p, m, force)
    BY <1>2, <2>1 DEF publishUnit
  <2> QED
    BY <2>1, <2>2, PublishDoes
<1> QED
  BY <1>1, <1>2

\* The messages about the display say nothing of the unit.
LEMMA PublishDisplayDoes ==
    ASSUME NEW p, Sane(p), NEW online \in BOOLEAN, NEW mode \in Modes, NEW force \in BOOLEAN,
           NEW b \in [Topics -> Values]
    PROVE  LET q == publishDisplay(p, online, mode, force)
           IN  /\ Sane(q)
               /\ \A topic \in Topics :
                    Right(p, b, topic) \/ (force /\ topic = "displayAvailability")
                    => Right(q, b, topic)
               /\ q.last["unit"] = p.last["unit"]
               /\ Quiet(p.out, "unit") => Quiet(q.out, "unit")
<1>0. "unit" \in Topics
  BY DEF Topics
<1>1. CASE online
  <2>0. PICK m, n : m = Msg("displayState", mode) /\ n = Msg("displayAvailability", "online")
    OBVIOUS
  <2>1. m = Msg("displayState", mode) /\ m \in Message /\ m.topic = "displayState"
    BY <2>0 DEF Msg, Message, Topics, Values
  <2>2. /\ n = Msg("displayAvailability", "online") /\ n \in Message
        /\ n.topic = "displayAvailability"
    BY <2>0 DEF Msg, Message, Topics, Values
  <2>3. PICK r : r = publish(p, m, force)
    OBVIOUS
  <2>4. publishDisplay(p, online, mode, force) = publish(r, n, force)
    BY <1>1, <2>1, <2>2, <2>3 DEF publishDisplay
  <2>5. /\ Sane(r) /\ r.last["unit"] = p.last["unit"]
        /\ Quiet(p.out, "unit") => Quiet(r.out, "unit")
        /\ \A topic \in Topics : Right(p, b, topic) => Right(r, b, topic)
    BY <1>0, <2>1, <2>3, PublishDoes
  <2> QED
    BY <1>0, <2>2, <2>4, <2>5, PublishDoes
<1>2. CASE ~online
  <2>0. PICK n : n = Msg("displayAvailability", "offline")
    OBVIOUS
  <2>1. /\ n = Msg("displayAvailability", "offline") /\ n \in Message
        /\ n.topic = "displayAvailability"
    BY <2>0 DEF Msg, Message, Topics, Values
  <2>2. publishDisplay(p, online, mode, force) = publish(p, n, force)
    BY <1>2, <2>1 DEF publishDisplay
  <2> QED
    BY <1>0, <2>1, <2>2, PublishDoes
<1> QED
  BY <1>1, <1>2

\* A forced republish makes the cache right about all but the state of a display that is
\* away, and a unit that was never queried, which it says nothing about.
LEMMA RepublishAllDoes ==
    ASSUME NEW p, Sane(p), unit \in Modes \cup {"unknown"}, dispOnline \in BOOLEAN,
           dispMode \in Modes, NEW b \in [Topics -> Values]
    PROVE  LET q == republishAll(p, TRUE)
           IN  /\ Sane(q)
               /\ \A topic \in Topics \ {"displayState"} :
                    (topic = "unit" /\ unit = "unknown" => Right(p, b, topic))
                    => Right(q, b, topic)
               /\ unit = "unknown" => /\ q.last["unit"] = p.last["unit"]
                                      /\ Quiet(p.out, "unit") => Quiet(q.out, "unit")
<1>0. "unit" \in Topics
  BY DEF Topics
<1>1. PICK r : r = publishUnit(p, unit, TRUE)
  OBVIOUS
<1>2. PICK s : s = publishDisplay(r, dispOnline, dispMode, TRUE)
  OBVIOUS
<1>a. PICK m : m = Msg("availability", "online")
  OBVIOUS
<1>3. m = Msg("availability", "online") /\ m \in Message /\ m.topic = "availability"
  BY <1>a DEF Msg, Message, Topics, Values
<1>4. republishAll(p, TRUE) = publish(s, m, TRUE)
  BY <1>1, <1>2, <1>3 DEF republishAll
<1>5. /\ Sane(r) /\ (unit = "unknown" => r = p)
      /\ \A topic \in Topics :
           Right(p, b, topic) \/ (topic = "unit" /\ unit # "unknown") => Right(r, b, topic)
  <2>1. unit = "unknown" => r = p
    BY <1>1 DEF publishUnit
  <2> QED
    BY <1>1, <2>1, PublishUnitDoes
<1>6. /\ Sane(s) /\ s.last["unit"] = r.last["unit"]
      /\ Quiet(r.out, "unit") => Quiet(s.out, "unit")
      /\ \A topic \in Topics :
           Right(r, b, topic) \/ topic = "displayAvailability" => Right(s, b, topic)
  BY <1>2, <1>5, PublishDisplayDoes
<1>7. PICK q : q = publish(s, m, TRUE)
  OBVIOUS
<1>8. /\ Sane(q) /\ q.last["unit"] = s.last["unit"]
      /\ Quiet(s.out, "unit") => Quiet(q.out, "unit")
      /\ \A topic \in Topics : Right(s, b, topic) \/ topic = "availability" => Right(q, b, topic)
  <2>1. /\ Sane(q) /\ Right(q, b, m.topic)
        /\ \A topic \in Topics \ {m.topic} :
              /\ q.last[topic] = s.last[topic]
              /\ Quiet(s.out, topic) => Quiet(q.out, topic)
              /\ Right(s, b, topic) => Right(q, b, topic)
    BY <1>3, <1>6, <1>7, PublishDoes
  <2> QED
    BY <1>0, <1>3, <2>1
<1>9. \A topic \in Topics \ {"displayState"} :
          topic \in {"unit", "displayAvailability", "availability"}
  BY DEF Topics
<1> QED
  BY <1>4, <1>5, <1>6, <1>7, <1>8, <1>9

-----------------------------------------------------------------------------
(* The inductive invariant of the cache *)

\* A connection that had its republish is up, and has no will waiting for the broker.
Steady == (synced => link = "up") /\ (link = "up" => ~willDue)

\* Nobody hears of a unit that was never queried.
Unheard ==
    unit = "unknown" => /\ last["unit"] = "none" /\ Quiet(out, "unit")
                        /\ broker["unit"] = "none" /\ unacked["unit"] = "none"

CInv == TypeOK /\ Steady /\ Unheard /\ CacheCoherent

LEMMA InitCInv == Init => CInv
<1> SUFFICES ASSUME Init PROVE CInv
  OBVIOUS
<1>1. out = <<>> /\ out \in Seq(Message) /\ Len(out) = 0 /\ OutCap \in Nat /\ EventCap \in Nat
  BY RepublishAssumption, EmptySeq DEF Init
<1>2. 0 \in 0 .. EventCap /\ [losses |-> 0, drops |-> 0, moves |-> 0] \in Budget
  BY <1>1 DEF Budget
<1>3. /\ last \in [Topics -> Values] /\ broker \in [Topics -> Values]
      /\ unacked \in [Topics -> Values]
  BY DEF Init, Values
<1>4. /\ unit \in Modes \cup {"unknown"} /\ dispOnline \in BOOLEAN /\ dispMode \in Modes
      /\ link \in {"up", "dead", "down"} /\ armedAt \in {"never", "recent", "old"}
      /\ willDue \in BOOLEAN /\ wanted \in BOOLEAN /\ armed \in BOOLEAN /\ synced \in BOOLEAN
      /\ hooks \in Nat /\ refused \subseteq Topics
  BY DEF Init, Modes
<1>5. connectedEvs \in 0 .. EventCap /\ publishEvs \in 0 .. EventCap /\ spent \in Budget
  BY <1>2 DEF Init
<1>6. Len(out) <= OutCap
  BY <1>1
<1>7. TypeOK
  BY <1>1, <1>3, <1>4, <1>5, <1>6 DEF TypeOK
<1> QED
  BY <1>1, <1>7 DEF Init, CInv, Steady, Unheard, CacheCoherent, Quiet, Topics

LEMMA SpendFits ==
    ASSUME spent \in Budget, NEW what \in {"losses", "drops", "moves"}, NEW most, Spend(what, most)
    PROVE  spent' \in Budget
BY DEF Budget, Spend

\* What has been published is as it may be, and the cache is right if it is coherent.
LEMMA BeforeIsSane ==
    ASSUME CInv
    PROVE  /\ Sane(Before) /\ broker \in [Topics -> Values]
           /\ Before.last = last /\ Before.out = out
           /\ synced => \A t \in Topics \ {"displayState"} : Right(Before, broker, t)
BY DEF CInv, TypeOK, Sane, Before, CacheCoherent, Right

\* A step that publishes, and leaves the connection alone.
LEMMA StepPublishes ==
    ASSUME CInv, NEW p, Sane(p), After(p),
           UNCHANGED <<link, willDue, broker, unacked, hooks>>,
           synced' => link = "up",
           synced' => \A t \in Topics \ {"displayState"} : Right(p, broker, t)
    PROVE  /\ last' \in [Topics -> Values] /\ out' \in Seq(Message) /\ Len(out') <= OutCap
           /\ refused' \subseteq Topics /\ last' = p.last /\ out' = p.out
           /\ Steady' /\ CacheCoherent'
<1>1. last' = p.last /\ out' = p.out /\ refused' = p.refused
  BY DEF After
<1>2. Steady'
  BY DEF CInv, Steady
<1>3. CacheCoherent'
  BY <1>1 DEF CacheCoherent, Right
<1> QED
  BY <1>1, <1>2, <1>3 DEF Sane

LEMMA StepPicture ==
    ASSUME CInv, Picture
    PROVE  CInv'
<1>0. /\ Sane(Before) /\ broker \in [Topics -> Values] /\ Before.last = last /\ Before.out = out
      /\ synced => \A t \in Topics \ {"displayState"} : Right(Before, broker, t)
      /\ synced => link = "up"
  BY BeforeIsSane DEF CInv, Steady
<1>1. CASE UnitMoves
  <2>1. /\ Spend("moves", MaxMoves)
        /\ UNCHANGED <<link, willDue, broker, unacked, hooks, dispOnline, dispMode, wanted>>
        /\ UNCHANGED <<armed, armedAt, connectedEvs, publishEvs, synced>>
    BY <1>1 DEF UnitMoves, wire, request, queued
  <2>2. PICK state \in Modes : unit' = state /\ After(publishUnit(Before, state, FALSE))
    BY <1>1 DEF UnitMoves
  <2>3. PICK p : p = publishUnit(Before, state, FALSE)
    OBVIOUS
  <2>4. Sane(p) /\ \A t \in Topics : Right(Before, broker, t) => Right(p, broker, t)
    BY <1>0, <2>3, PublishUnitDoes
  <2>5. /\ last' \in [Topics -> Values] /\ out' \in Seq(Message) /\ Len(out') <= OutCap
        /\ refused' \subseteq Topics /\ Steady' /\ CacheCoherent'
    BY <1>0, <2>1, <2>2, <2>3, <2>4, StepPublishes
  <2>6. spent' \in Budget
    BY <2>1, SpendFits DEF CInv, TypeOK
  <2>7. TypeOK'
    BY <2>1, <2>2, <2>5, <2>6 DEF CInv, TypeOK
  <2> QED
    BY <2>2, <2>5, <2>7 DEF CInv, Unheard, Modes
<1>2. CASE DisplayReports \/ DisplayFails
  <2>1. /\ Spend("moves", MaxMoves)
        /\ UNCHANGED <<link, willDue, broker, unacked, hooks, unit, wanted>>
        /\ UNCHANGED <<armed, armedAt, connectedEvs, publishEvs, synced>>
    BY <1>2 DEF DisplayReports, DisplayFails, wire, request, queued
  <2>2. PICK online \in BOOLEAN, mode \in Modes :
             /\ dispOnline' = online /\ dispMode' = mode
             /\ After(publishDisplay(Before, online, mode, FALSE))
    BY <1>2 DEF DisplayReports, DisplayFails, CInv, TypeOK
  <2>3. PICK p : p = publishDisplay(Before, online, mode, FALSE)
    OBVIOUS
  <2>4. /\ Sane(p) /\ \A t \in Topics : Right(Before, broker, t) => Right(p, broker, t)
        /\ p.last["unit"] = last["unit"]
        /\ Quiet(out, "unit") => Quiet(p.out, "unit")
    BY <1>0, <2>3, PublishDisplayDoes
  <2>5. /\ last' \in [Topics -> Values] /\ out' \in Seq(Message) /\ Len(out') <= OutCap
        /\ refused' \subseteq Topics /\ last' = p.last /\ out' = p.out
        /\ Steady' /\ CacheCoherent'
    BY <1>0, <2>1, <2>2, <2>3, <2>4, StepPublishes
  <2>6. spent' \in Budget
    BY <2>1, SpendFits DEF CInv, TypeOK
  <2>7. TypeOK'
    BY <2>1, <2>2, <2>5, <2>6 DEF CInv, TypeOK
  <2>8. Unheard'
    BY <2>1, <2>4, <2>5 DEF CInv, Unheard
  <2> QED
    BY <2>5, <2>7, <2>8 DEF CInv
<1> QED
  BY <1>1, <1>2 DEF Picture

LEMMA StepFullPublish ==
    ASSUME CInv, HandleFullPublish
    PROVE  CInv'
<1>1. /\ publishEvs > 0 /\ publishEvs' = publishEvs - 1 /\ armedAt' = "never" /\ wanted' = FALSE
      /\ After(republishAll(Before, TRUE)) /\ synced' = (link = "up")
      /\ UNCHANGED <<link, willDue, broker, unacked, hooks, unit, dispOnline, dispMode>>
      /\ UNCHANGED <<armed, connectedEvs, spent>>
  BY DEF HandleFullPublish, wire, picture
<1>2. /\ Sane(Before) /\ broker \in [Topics -> Values] /\ Before.last = last /\ Before.out = out
      /\ unit \in Modes \cup {"unknown"} /\ dispOnline \in BOOLEAN /\ dispMode \in Modes
  BY BeforeIsSane DEF CInv, TypeOK
<1>3. PICK p : p = republishAll(Before, TRUE)
  OBVIOUS
<1>4. /\ Sane(p)
      /\ \A t \in Topics \ {"displayState"} :
           (t = "unit" /\ unit = "unknown" => Right(Before, broker, t)) => Right(p, broker, t)
      /\ unit = "unknown" => /\ p.last["unit"] = last["unit"]
                             /\ Quiet(out, "unit") => Quiet(p.out, "unit")
  BY <1>2, <1>3, RepublishAllDoes
<1>5. unit = "unknown" => Right(Before, broker, "unit")
  BY <1>2 DEF CInv, Unheard, Right, Leaves, Quiet
<1>6. /\ last' \in [Topics -> Values] /\ out' \in Seq(Message) /\ Len(out') <= OutCap
      /\ refused' \subseteq Topics /\ last' = p.last /\ out' = p.out /\ Steady' /\ CacheCoherent'
  BY <1>1, <1>3, <1>4, <1>5, StepPublishes
<1>7. publishEvs' \in 0 .. EventCap /\ synced' \in BOOLEAN
  BY <1>1, RepublishAssumption DEF CInv, TypeOK
<1>8. TypeOK'
  BY <1>1, <1>6, <1>7 DEF CInv, TypeOK
<1>9. Unheard'
  BY <1>1, <1>4, <1>6 DEF CInv, Unheard
<1> QED
  BY <1>6, <1>8, <1>9 DEF CInv

\* The oldest message leaves the queue and its value is retained.
LEMMA TailLeaves ==
    ASSUME NEW queue \in Seq(Message), queue # <<>>
    PROVE  /\ Head(queue) \in Message /\ Tail(queue) \in Seq(Message)
           /\ Len(Tail(queue)) = Len(queue) - 1 /\ Len(queue) \in Nat
           /\ \A topic \in Topics :
                /\ Quiet(queue, topic) => Quiet(Tail(queue), topic) /\ Head(queue).topic # topic
                /\ \A v, w : Leaves(queue, topic, v, w) =>
                       Leaves(Tail(queue), topic,
                              IF topic = Head(queue).topic THEN Head(queue).value ELSE v, w)
<1>0. PICK m, rest : m = Head(queue) /\ rest = Tail(queue)
  OBVIOUS
<1>1. /\ m \in Message /\ m = queue[1] /\ Len(queue) \in Nat /\ Len(queue) >= 1
      /\ rest \in Seq(Message) /\ Len(rest) = Len(queue) - 1
      /\ \A i \in 1 .. Len(rest) : rest[i] = queue[i + 1]
  BY <1>0, HeadTailProperties, EmptySeq, LenProperties
<1>2. ASSUME NEW topic \in Topics, Quiet(queue, topic)
      PROVE  Quiet(rest, topic) /\ m.topic # topic
  BY <1>1, <1>2 DEF Quiet
<1>3. ASSUME NEW topic \in Topics, NEW v, NEW w, Leaves(queue, topic, v, w)
      PROVE  Leaves(rest, topic, IF topic = m.topic THEN m.value ELSE v, w)
  <2>1. CASE v = w /\ Quiet(queue, topic)
    BY <1>2, <2>1 DEF Leaves, Quiet
  <2>2. CASE \E i \in 1 .. Len(queue) :
                /\ queue[i] = Msg(topic, w)
                /\ \A j \in i + 1 .. Len(queue) : queue[j].topic # topic
    <3>1. PICK i \in 1 .. Len(queue) :
                /\ queue[i] = Msg(topic, w)
                /\ \A j \in i + 1 .. Len(queue) : queue[j].topic # topic
      BY <2>2
    <3>2. \A j \in i .. Len(rest) : queue[j + 1].topic # topic
      BY <1>1, <3>1
    <3>3. CASE i = 1
      <4>1. m.topic = topic /\ m.value = w
        BY <1>1, <3>1, <3>3 DEF Msg
      <4>2. \A j \in 1 .. Len(rest) : rest[j].topic # topic
        BY <1>1, <3>2, <3>3
      <4> QED
        BY <4>1, <4>2 DEF Leaves
    <3>4. CASE i # 1
      <4>1. i - 1 \in 1 .. Len(rest) /\ rest[i - 1] = Msg(topic, w)
        BY <1>1, <3>1, <3>4
      <4>2. \A j \in (i - 1) + 1 .. Len(rest) : rest[j].topic # topic
        BY <1>1, <3>2, <3>4
      <4> QED
        BY <4>1, <4>2 DEF Leaves
    <3> QED
      BY <3>3, <3>4
  <2> QED
    BY <1>3, <2>1, <2>2 DEF Leaves, Quiet
<1> QED
  BY <1>0, <1>1, <1>2, <1>3

LEMMA StepPump ==
    ASSUME CInv, Pump
    PROVE  CInv'
<1> DEFINE Put(payloads) == [payloads EXCEPT ![Head(out).topic] = Head(out).value]
<1>1. /\ out # <<>> /\ out' = Tail(out)
      /\ broker' = IF link = "up" THEN Put(broker) ELSE broker
      /\ unacked' \in {Put(unacked), unacked}
      /\ UNCHANGED <<unit, dispOnline, dispMode, last, refused, link, willDue, hooks, wanted>>
      /\ UNCHANGED <<armed, armedAt, connectedEvs, publishEvs, spent, synced>>
  BY DEF Pump, picture, request, queued
<1>2. /\ Head(out) \in Message /\ Tail(out) \in Seq(Message)
      /\ Len(Tail(out)) = Len(out) - 1 /\ Len(out) \in Nat
      /\ \A t \in Topics :
           /\ Quiet(out, t) => Quiet(Tail(out), t) /\ Head(out).topic # t
           /\ \A v, w : Leaves(out, t, v, w) =>
                  Leaves(Tail(out), t, IF t = Head(out).topic THEN Head(out).value ELSE v, w)
  BY <1>1, TailLeaves DEF CInv, TypeOK
<1>3. Head(out).topic \in Topics /\ Head(out).value \in Values
  BY <1>2 DEF Message
<1>4. broker' \in [Topics -> Values] /\ unacked' \in [Topics -> Values]
  BY <1>1, <1>3 DEF CInv, TypeOK
<1>5. out' \in Seq(Message) /\ Len(out') <= OutCap
  BY <1>1, <1>2, RepublishAssumption DEF CInv, TypeOK
<1>6. TypeOK'
  BY <1>1, <1>4, <1>5 DEF CInv, TypeOK
<1>7. Steady'
  BY <1>1 DEF CInv, Steady
<1>8. Unheard'
  <2> SUFFICES ASSUME unit = "unknown"
               PROVE  /\ last'["unit"] = "none" /\ Quiet(out', "unit")
                      /\ broker'["unit"] = "none" /\ unacked'["unit"] = "none"
    BY <1>1 DEF Unheard
  <2>1. /\ last["unit"] = "none" /\ Quiet(out, "unit")
        /\ broker["unit"] = "none" /\ unacked["unit"] = "none" /\ "unit" \in Topics
    BY DEF CInv, Unheard, Topics
  <2>2. Quiet(Tail(out), "unit") /\ Head(out).topic # "unit"
    BY <1>2, <2>1
  <2> QED
    BY <1>1, <2>1, <2>2 DEF CInv, TypeOK
<1>9. CacheCoherent'
  <2> SUFFICES ASSUME synced, NEW t \in Topics \ (refused \cup {"displayState"})
               PROVE  Leaves(out', t, broker'[t], last'[t])
    BY <1>1 DEF CacheCoherent
  <2>1. Leaves(out, t, broker[t], last[t]) /\ link = "up"
    BY DEF CInv, CacheCoherent, Steady
  <2>2. broker'[t] = IF t = Head(out).topic THEN Head(out).value ELSE broker[t]
    BY <1>1, <1>3, <2>1 DEF CInv, TypeOK
  <2> QED
    BY <1>1, <1>2, <2>1, <2>2
<1> QED
  BY <1>6, <1>7, <1>8, <1>9 DEF CInv

\* Connections come and go: none of these steps leaves a connection that had its republish,
\* or touches what the broker holds of one.
LEMMA StepLink ==
    ASSUME CInv, Connect \/ LinkBreaks \/ ClientNotices \/ BrokerNotices
    PROVE  CInv'
<1>1. UNCHANGED <<unit, dispOnline, dispMode, last, out, refused, wanted, armed, armedAt,
                  connectedEvs, publishEvs>>
  BY DEF Connect, LinkBreaks, ClientNotices, BrokerNotices, picture, published, request, queued
<1>2. /\ link' \in {"up", "dead", "down"} /\ willDue' \in BOOLEAN /\ hooks' \in Nat
      /\ broker' \in [Topics -> Values] /\ unacked' \in [Topics -> Values]
      /\ synced' \in BOOLEAN /\ spent' \in Budget
  <2>1. CASE Connect
    <3>1. PICK before : before = IF willDue THEN [broker EXCEPT !["availability"] = "offline"]
                                 ELSE broker
      OBVIOUS
    <3>2. before \in [Topics -> Values]
      BY <3>1 DEF CInv, TypeOK, Values
    <3>3. broker' = [t \in Topics |-> IF unacked[t] = "none" THEN before[t] ELSE unacked[t]]
      BY <2>1, <3>1 DEF Connect
    <3>4. broker' \in [Topics -> Values]
      BY <3>2, <3>3 DEF CInv, TypeOK
    <3>5. unacked' \in [Topics -> Values]
      BY <2>1 DEF Connect, Values
    <3>6. link' = "up" /\ willDue' = FALSE /\ synced' = FALSE /\ hooks' \in Nat /\ spent' \in Budget
      BY <2>1 DEF Connect, CInv, TypeOK
    <3> QED
      BY <3>4, <3>5, <3>6
  <2>2. CASE LinkBreaks
    BY <2>2, SpendFits DEF LinkBreaks, CInv, TypeOK
  <2>3. CASE ClientNotices
    BY <2>3 DEF ClientNotices, CInv, TypeOK
  <2>4. CASE BrokerNotices
    BY <2>4 DEF BrokerNotices, CInv, TypeOK, Values
  <2> QED
    BY <2>1, <2>2, <2>3, <2>4
<1>3. TypeOK'
  BY <1>1, <1>2 DEF CInv, TypeOK
<1>4. Steady' /\ ~synced'
  BY DEF Connect, LinkBreaks, ClientNotices, BrokerNotices, CInv, TypeOK, Steady
<1>5. Unheard'
  <2> SUFFICES ASSUME unit = "unknown"
               PROVE  broker'["unit"] = "none" /\ unacked'["unit"] = "none"
    BY <1>1 DEF CInv, Unheard
  <2>1. broker["unit"] = "none" /\ unacked["unit"] = "none" /\ "unit" \in Topics
    BY DEF CInv, Unheard, Topics
  <2> QED
    BY <2>1 DEF Connect, LinkBreaks, ClientNotices, BrokerNotices, CInv, TypeOK
<1> QED
  BY <1>3, <1>4, <1>5 DEF CInv, CacheCoherent

\* Requests, events and callbacks neither publish nor touch the connection.
LEMMA StepRequests ==
    ASSUME CInv,
           \/ HandleConnected \/ HandleBirth \/ PollTick \/ OnConnect
           \/ TimerFires \/ RequestAges \/ UNCHANGED vars
    PROVE  CInv'
<1>1. UNCHANGED <<unit, dispOnline, dispMode, last, out, refused, link, willDue, broker, unacked,
                  synced>>
  BY DEF HandleConnected, HandleBirth, PollTick, OnConnect, TimerFires, RequestAges, vars,
         picture, published, wire
<1>2. /\ wanted' \in BOOLEAN /\ armed' \in BOOLEAN /\ armedAt' \in {"never", "recent", "old"}
      /\ hooks' \in Nat /\ connectedEvs' \in 0 .. EventCap /\ publishEvs' \in 0 .. EventCap
      /\ spent' \in Budget
  <2>0. EventCap \in Nat /\ connectedEvs \in 0 .. EventCap /\ publishEvs \in 0 .. EventCap
        /\ hooks \in Nat /\ spent \in Budget
    BY RepublishAssumption DEF CInv, TypeOK
  <2>1. CASE HandleConnected \/ HandleBirth \/ PollTick \/ RequestAges
    <3>1. /\ connectedEvs' \in {connectedEvs, connectedEvs - 1} /\ connectedEvs' >= 0
          /\ UNCHANGED <<hooks, publishEvs, wanted>>
      BY <2>0, <2>1 DEF HandleConnected, HandleBirth, PollTick, RequestAges, wire, queued
    <3>2. armed' \in BOOLEAN /\ armedAt' \in {"never", "recent", "old"}
      BY <2>1 DEF HandleConnected, HandleBirth, PollTick, RequestAges, RequestFullPublish, CInv,
                  TypeOK
    <3>3. spent' \in Budget
      BY <2>0, <2>1, SpendFits DEF HandleConnected, HandleBirth, PollTick, RequestAges
    <3> QED
      BY <2>0, <3>1, <3>2, <3>3 DEF CInv, TypeOK
  <2>2. CASE OnConnect
    <3>1. /\ hooks > 0 /\ hooks' = hooks - 1 /\ wanted' = TRUE
          /\ Enqueued(connectedEvs, connectedEvs') /\ UNCHANGED <<armed, armedAt, publishEvs>>
      BY <2>2 DEF OnConnect
    <3>2. connectedEvs' \in 0 .. EventCap /\ spent' \in Budget
      BY <2>0, <3>1, SpendFits DEF Enqueued
    <3> QED
      BY <2>0, <3>1, <3>2 DEF CInv, TypeOK
  <2>3. CASE TimerFires
    <3>1. /\ armed' = FALSE /\ Enqueued(publishEvs, publishEvs')
          /\ UNCHANGED <<hooks, wanted, armedAt, connectedEvs>>
      BY <2>3 DEF TimerFires, wire
    <3>2. publishEvs' \in 0 .. EventCap /\ spent' \in Budget
      BY <2>0, <3>1, SpendFits DEF Enqueued
    <3> QED
      BY <2>0, <3>1, <3>2 DEF CInv, TypeOK
  <2>4. CASE UNCHANGED vars
    BY <2>0, <2>4 DEF vars, wire, request, queued, CInv, TypeOK
  <2> QED
    BY <2>1, <2>2, <2>3, <2>4
<1>3. TypeOK'
  BY <1>1, <1>2 DEF CInv, TypeOK
<1> QED
  BY <1>1, <1>3 DEF CInv, Steady, Unheard, CacheCoherent, Leaves, Quiet

LEMMA StepCInv ==
    ASSUME CInv, [Next]_vars
    PROVE  CInv'
BY StepPicture, StepFullPublish, StepPump, StepLink, StepRequests DEF Next, Loop

\* Every variable keeps its type, and the outbound queue its capacity.
THEOREM TypeCorrect == Spec => []TypeOK
<1>1. CInv => TypeOK
  BY DEF CInv
<1> QED
  BY <1>1, InitCInv, StepCInv, PTL DEF Spec

\* What the cache holds as published is retained by the broker, or on its way there, once
\* the connection has had its republish, but for what a full queue refused
\* (publish.go:12-14).
THEOREM CacheTellsTheTruth == Spec => []CacheCoherent
<1>1. CInv => CacheCoherent
  BY DEF CInv
<1> QED
  BY <1>1, InitCInv, StepCInv, PTL DEF Spec

-----------------------------------------------------------------------------
(* The republish that is owed *)


\* The callbacks to come are counted in Nat: all that RepublishOwed needs to be
\* inductive.
IInv == hooks \in Nat /\ RepublishOwed

LEMMA InitIInv == Init => IInv
BY DEF Init, IInv, RepublishOwed

\* The flag goes down only together with a republish of the present connection.
LEMMA StepRepublish == ASSUME IInv, HandleFullPublish PROVE IInv'
BY DEF IInv, RepublishOwed, HandleFullPublish, wire

\* A callback leaves the flag behind.
LEMMA StepOnConnect == ASSUME IInv, OnConnect PROVE IInv'
BY DEF IInv, RepublishOwed, OnConnect

\* A new connection comes with its callback.
LEMMA StepConnection ==
    ASSUME IInv, Connect \/ LinkBreaks \/ ClientNotices \/ BrokerNotices \/ Pump
    PROVE  IInv'
<1>1. CASE Connect
  <2>1. hooks' = hooks + 1 /\ hooks \in Nat
    BY <1>1 DEF Connect, IInv
  <2>2. hooks' \in Nat /\ hooks' > 0
    BY <2>1
  <2> QED
    BY <2>2 DEF IInv, RepublishOwed
<1>2. CASE LinkBreaks
  BY <1>2 DEF IInv, RepublishOwed, LinkBreaks
<1>3. CASE ClientNotices
  BY <1>3 DEF IInv, RepublishOwed, ClientNotices
<1>4. CASE BrokerNotices
  BY <1>4 DEF IInv, RepublishOwed, BrokerNotices, request
<1>5. CASE Pump
  BY <1>5 DEF IInv, RepublishOwed, Pump, request
<1> QED
  BY <1>1, <1>2, <1>3, <1>4, <1>5

\* Nothing else touches the connection, the callbacks or the flag.
LEMMA StepOthers ==
    ASSUME IInv,
           \/ Picture \/ HandleConnected \/ HandleBirth \/ PollTick
           \/ TimerFires \/ RequestAges \/ UNCHANGED vars
    PROVE  IInv'
<1>1. UNCHANGED <<hooks, link, wanted, synced>>
  <2>1. CASE Picture
    BY <2>1 DEF Picture, UnitMoves, DisplayReports, DisplayFails, wire, request
  <2>2. CASE HandleConnected \/ HandleBirth \/ PollTick
    BY <2>2 DEF HandleConnected, HandleBirth, PollTick, wire
  <2>3. CASE TimerFires \/ RequestAges
    BY <2>3 DEF TimerFires, RequestAges, wire
  <2>4. CASE UNCHANGED vars
    BY <2>4 DEF vars, wire, request
  <2> QED
    BY <2>1, <2>2, <2>3, <2>4
<1> QED
  BY <1>1 DEF IInv, RepublishOwed

\* A connection that waits for its republish has the callback still to come or the flag
\* up that makes the poll ticker ask again (app.go:78-82).
THEOREM NoRepublishForgotten == Spec => []RepublishOwed
<1>1. Init => IInv
  BY InitIInv
<1>2. IInv /\ [Next]_vars => IInv'
  <2> SUFFICES ASSUME IInv, [Next]_vars PROVE IInv'
    OBVIOUS
  <2>1. CASE HandleFullPublish
    BY <2>1, StepRepublish
  <2>2. CASE OnConnect
    BY <2>2, StepOnConnect
  <2>3. CASE Connect \/ LinkBreaks \/ ClientNotices \/ BrokerNotices \/ Pump
    BY <2>3, StepConnection
  <2>4. CASE \/ Picture \/ HandleConnected \/ HandleBirth \/ PollTick
             \/ TimerFires \/ RequestAges \/ UNCHANGED vars
    BY <2>4, StepOthers
  <2> QED
    BY <2>1, <2>2, <2>3, <2>4 DEF Next, Loop
<1>3. IInv => RepublishOwed
  BY DEF IInv
<1> QED
  BY <1>1, <1>2, <1>3, PTL DEF Spec

=============================================================================
