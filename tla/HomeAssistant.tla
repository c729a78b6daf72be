---------------------------- MODULE HomeAssistant ----------------------------
(***************************************************************************)
(* What Home Assistant and the daemon have to agree on: the layout of the  *)
(* topics and its inverse, the filters, the entities of the discovery      *)
(* payload, what a full publish sends and what --clear-discovery blanks,   *)
(* and who is addressed by a message.                                      *)
(* (internal/ha/topics.go, discovery.go; internal/app/publish.go,          *)
(* commands.go; internal/mqtt/client.go)                                   *)
(*                                                                         *)
(* A topic is the sequence of its levels, base_topic counting as one.      *)
(***************************************************************************)
EXTENDS Config, FiniteSets

StatusTopic == <<"homeassistant", "status">>

-----------------------------------------------------------------------------
(* The layout *)

root(c) == <<c.base_topic, c.node_id>>

Availability(c)       == root(c) \o <<"availability">>
BusAvailability(c, s) == root(c) \o <<"bus", s, "availability">>
UnitState(c, id)      == root(c) \o <<"unit", id, "state">>
UnitSet(c, id)        == root(c) \o <<"unit", id, "set">>
UnitAttributes(c, id) == root(c) \o <<"unit", id, "attributes">>
TemplateState(c, id)  == root(c) \o <<"template", id, "state">>
TemplateSet(c, id)    == root(c) \o <<"template", id, "set">>
DisplayState(c)       == root(c) \o <<"display", "state">>
DisplaySet(c)         == root(c) \o <<"display", "set">>
DisplayModeState(c)   == root(c) \o <<"display", "mode", "state">>
DisplayModeSet(c)     == root(c) \o <<"display", "mode", "set">>
DisplayAttributes(c)  == root(c) \o <<"display", "attributes">>
DisplayAvailability(c) == root(c) \o <<"display", "availability">>
DaemonState(c)        == root(c) \o <<"daemon", "state">>
DaemonRestart(c)      == root(c) \o <<"daemon", "restart">>
DiscoveryConfig(c)    == <<"homeassistant", "device", c.node_id, "config">>

\* What a topic means: the kind, and the id of a unit or template.
Inbound(kind, id) == [kind |-> kind, id |-> id]

Parse(c, topic) ==
    CASE topic = StatusTopic       -> Inbound("status", "")
      [] topic = DisplaySet(c)     -> Inbound("display", "")
      [] topic = DisplayModeSet(c) -> Inbound("mode", "")
      [] topic = DaemonRestart(c)  -> Inbound("daemon", "")
      [] OTHER -> IF /\ Len(topic) = 5 /\ SubSeq(topic, 1, 2) = root(c)
                     /\ topic[3] \in {"unit", "template"} /\ topic[4] # "" /\ topic[5] = "set"
                  THEN Inbound(topic[3], topic[4]) ELSE Inbound("unknown", "")

Subscriptions(c) ==
    {UnitSet(c, "+"), TemplateSet(c, "+"), DaemonRestart(c)}
    \cup (IF c.display THEN {DisplaySet(c), DisplayModeSet(c)} ELSE {})
    \cup (IF c.homeassistant THEN {StatusTopic} ELSE {})

\* A faulty form of RetainedTopics: units by the slug of their name.
RetainedTopicsBySlug(c) ==
    {DiscoveryConfig(c), Availability(c), DaemonState(c), DisplayState(c), DisplayModeState(c),
     DisplayAttributes(c), DisplayAvailability(c)}
    \cup {BusAvailability(c, s) : s \in ToSet(ScopesOf(c))}
    \cup (UNION {{UnitState(c, Slugify(u.name)), UnitAttributes(c, Slugify(u.name))} :
                   u \in ToSet(c.all)})
    \cup {TemplateState(c, s.id) : s \in ToSet(c.selects)}

\* What --clear-discovery blanks.
RetainedTopics(c) ==
    {DiscoveryConfig(c), Availability(c), DaemonState(c), DisplayState(c), DisplayModeState(c),
     DisplayAttributes(c), DisplayAvailability(c)}
    \cup {BusAvailability(c, s) : s \in ToSet(ScopesOf(c))}
    \cup (UNION {{UnitState(c, ObjectID(u)), UnitAttributes(c, ObjectID(u))} : u \in ToSet(c.all)})
    \cup {TemplateState(c, s.id) : s \in ToSet(c.selects)}

-----------------------------------------------------------------------------
(* Discovery: an entity has an id, the topics it reads and the one it commands, or none *)

Entity(id, reads, cmd) == [id |-> id, reads |-> reads, cmd |-> cmd]
None == <<>>

UnitEntities(c, u) ==
    LET id    == ObjectID(u)
        avty  == {Availability(c), BusAvailability(c, u.scope)}
        attrs == {UnitAttributes(c, id)} \cup avty
        name  == "unit_" \o id
    IN  <<Entity(name, attrs \cup {UnitState(c, id)}, UnitSet(c, id)),
          Entity(name \o "_state", attrs, None)>>
        \o (IF Wanted(u.problem) THEN <<Entity(name \o "_problem", attrs, None)>> ELSE <<>>)
        \o (IF Wanted(u.restart) THEN <<Entity(name \o "_restart", avty, UnitSet(c, id))>>
                                 ELSE <<>>)

SelectEntity(c, s) ==
    Entity("template_" \o s.id,
           {TemplateState(c, s.id), Availability(c), BusAvailability(c, s.scope)},
           TemplateSet(c, s.id))

DisplayEntities(c) ==
    LET avty == {Availability(c), DisplayAvailability(c)}
    IN  IF ~c.display THEN <<>>
        ELSE <<Entity("display", avty \cup {DisplayState(c), DisplayAttributes(c)}, DisplaySet(c))>>
             \o (IF c.mode_select
                 THEN <<Entity("display_mode", avty \cup {DisplayModeState(c)}, DisplayModeSet(c))>>
                 ELSE <<>>)

\* Every component BuildDiscovery adds, in order; a second one with the same id would
\* take the place of the first.
BuildDiscovery(c) ==
    FlattenSeq([i \in DOMAIN c.all |-> UnitEntities(c, c.all[i])])
    \o [i \in DOMAIN c.selects |-> SelectEntity(c, c.selects[i])]
    \o DisplayEntities(c)
    \o [i \in DOMAIN ScopesOf(c) |->
          Entity("bus_" \o ScopesOf(c)[i], {Availability(c), BusAvailability(c, ScopesOf(c)[i])}, None)]
    \o <<Entity("version", {Availability(c), DaemonState(c)}, None),
         Entity("started", {Availability(c), DaemonState(c)}, None),
         Entity("daemon_restart", {Availability(c)}, DaemonRestart(c))>>

-----------------------------------------------------------------------------
(* Publishing, of the units whose state is known *)

UnitTopics(c, known) ==
    (UNION {{UnitState(c, id), UnitAttributes(c, id)} : id \in known})
    \cup {TemplateState(c, s.id) : s \in {x \in ToSet(c.selects) :
                                            \E o \in ToSet(x.options) : o.unit \in known}}

DisplayTopics(c, available) ==
    (IF c.display THEN {DisplayAvailability(c)} ELSE {})
    \cup (IF c.display /\ available
          THEN {DisplayState(c), DisplayModeState(c), DisplayAttributes(c)} ELSE {})

\* republishAll.
Published(c, known, available) ==
    (IF c.homeassistant THEN {DiscoveryConfig(c)} ELSE {})
    \cup {BusAvailability(c, s) : s \in ToSet(ScopesOf(c))}
    \cup UnitTopics(c, known) \cup DisplayTopics(c, available)
    \cup {DaemonState(c), Availability(c)}

-----------------------------------------------------------------------------
(* Messages *)

\* topicMatches goes through the levels of the filter, but for a last one that is empty: a
\* literal or "+" takes one level of the topic, "#" all that are left, which may be none.
TopicMatches(filter, topic) ==
    LET levels == IF Last(filter) = "" THEN Front(filter) ELSE filter
        hash   == {i \in DOMAIN levels : levels[i] = "#"}
        n      == IF hash = {} THEN Len(levels) ELSE Min(hash) - 1
    IN  \/ filter = topic
        \/ /\ n <= Len(topic) /\ \A i \in 1 .. n : levels[i] \in {"+", topic[i]}
           /\ hash # {} \/ n = Len(topic)

\* A faulty form of route: the filter is taken literally.
routeLiterally(c, topic) == {f \in Subscriptions(c) : f = topic}

\* The filters whose handler a message is given to; every one of them is the app's.
route(c, topic) == {f \in Subscriptions(c) : TopicMatches(f, topic)}

\* Who a message is for: the units of a switch, the options of a select, or the daemon itself.
Addressed(c, topic) ==
    LET in == Parse(c, topic)
    IN  CASE in.kind = "unit"     -> {<<"unit", u.name>> : u \in ToSet(UnitByID(c, in.id))}
          [] in.kind = "template" -> {<<"select", s.id>> :
                                        s \in {x \in ToSet(c.selects) : x.id = in.id}}
          [] in.kind = "unknown"  -> {}
          [] OTHER                -> {<<in.kind>>}

-----------------------------------------------------------------------------
(* The polkit rule *)

\* A faulty form of RuleAllows: the instances of an exclusive template only.
RuleAllowsExclusive(c, name) ==
    \/ \E u \in ToSet(UnitsForScope(c, "system")) : u.template = "" /\ u.name = name
    \/ \E t \in ToSet(c.templates) :
         /\ t.scope = "system" /\ t.exclusive
         /\ name.at /\ name.stem = t.name.stem /\ name.suffix = t.name.suffix

\* What the rendered rule lets the daemon's user start, stop and restart: the system units
\* by name, and whatever has the prefix and the suffix of a system template.
RuleAllows(c, name) ==
    \/ \E u \in ToSet(UnitsForScope(c, "system")) : u.template = "" /\ u.name = name
    \/ \E t \in ToSet(c.templates) :
         /\ t.scope = "system"
         /\ name.at /\ name.stem = t.name.stem /\ name.suffix = t.name.suffix

=============================================================================
