-------------------------------- MODULE Setup --------------------------------
(***************************************************************************)
(* From a configuration file to a daemon at work with it: whatever file    *)
(* the daemon accepts, its entities, topics, filters and lookups have to   *)
(* fit together.  Loading, dialling a manager, a query, a full publish,    *)
(* the end, and --clear-discovery.  Connections hold here; what happens    *)
(* when they do not is the subject of the other modules.                   *)
(* (cmd/systemd2mqtt/main.go, internal/app/app.go, publish.go,             *)
(* reconcile.go, internal/systemd/conn.go)                                 *)
(***************************************************************************)
EXTENDS Statuses

CONSTANTS
    Files,          \* the files that are tried
    Outside         \* a unit name that no file has

\* What YAML makes of a file; a unit is not of a template unless expanded from it.
UnitName == [stem : STRING, at : BOOLEAN, inst : STRING, suffix : STRING]

UnitEntry ==
    [name : UnitName, scope : STRING, id : STRING, title : STRING, problem : STRING,
     restart : STRING, template : {""}]

TemplateEntry ==
    [name : UnitName, scope : STRING, id : STRING, title : STRING, exclusive : BOOLEAN,
     problem : STRING, restart : STRING, instances : Seq([name : STRING, title : STRING])]

FileType ==
    [node_id : STRING, base_topic : STRING, sound : BOOLEAN, homeassistant : STRING,
     display : STRING, mode_select : STRING,
     units : [given : BOOLEAN, list : Seq(UnitEntry)],
     templates : [given : BOOLEAN, list : Seq(TemplateEntry)]]

ASSUME SetupAssumption ==
    /\ Files \subseteq FileType
    /\ \A f \in Files : Accepts(f) => \A u \in ToSet(Parsed(f).all) : u.name # Outside

\* The ids in use in accepted files, and the names of components that do not depend on them.
Used == UNION {IDs(Parsed(f)) \cup {t.id : t \in ToSet(Parsed(f).templates)} :
                 f \in {g \in Files : Accepts(g)}}
Fixed == {"display", "display_mode", "version", "started", "daemon_restart"}
Buses == {"bus_" \o s : s \in ToSet(Scopes)}

\* The ids a unit's components may have (those of Components), and that of a select's.
UnitIds(x) == <<"unit_" \o x, "unit_" \o x \o "_state",
                "unit_" \o x \o "_problem", "unit_" \o x \o "_restart">>
TemplateId(x) == "template_" \o x

\* What is concatenated tells what it was made of, as far as prefixes and endings differ: of
\* strings, whose characters no proof can see, and not of the code.
ASSUME StringsAssumption ==
    /\ "bus_" \o "user" # "bus_" \o "system" /\ Buses \cap Fixed = {}
    /\ \A x \in Used :
         /\ \A i, j \in 1 .. 4 : UnitIds(x)[i] = UnitIds(x)[j] => i = j
         /\ ({TemplateId(x)} \cup ToSet(UnitIds(x))) \cap (Fixed \cup Buses) = {}
         /\ \A y \in Used :
              /\ TemplateId(x) \notin ToSet(UnitIds(y))
              /\ TemplateId(x) = TemplateId(y) => x = y

VARIABLES
    phase,          \* "new", "refused", "running", "ended"
    config,         \* the file; the configuration, once accepted
    dialled,        \* what systemd's aliases were at each scope's dial; empty before
    aliases,        \* Conn.aliases of each scope
    actual,         \* systemd's aliases at the last query of each scope
    st,             \* State: which unit each snapshot is the state of
    retained        \* the topics with something retained at the broker

vars == <<phase, config, dialled, aliases, actual, st, retained>>

Init ==
    /\ phase = "new" /\ config \in Files
    /\ dialled = [s \in ToSet(Scopes) |-> <<>>] /\ aliases = dialled /\ actual = dialled
    /\ st = <<>> /\ retained = {}

\* systemd's aliases: one name at most is an alias, of another one or of one outside.
Aliasings(names) ==
    LET self == [n \in ToSet(names) |-> n]
        real == {n \in ToSet(names) : ~Invalid(n)}
    IN  {self} \cup {[self EXCEPT ![n] = p] : n \in real, p \in real \cup {Outside}}

\* config.Load, app.New.
Load ==
    /\ phase = "new"
    /\ IF Accepts(config)
       THEN /\ phase' = "running" /\ config' = Parsed(config) /\ st' = NewState(config')
       ELSE phase' = "refused" /\ UNCHANGED <<config, st>>
    /\ UNCHANGED <<dialled, aliases, actual, retained>>

\* Dial, of a scope's manager.
Dial(s) ==
    /\ phase = "running" /\ dialled[s] = <<>>
    /\ \E primary \in Aliasings(Names(config, s)) :
         /\ dialled' = [dialled EXCEPT ![s] = primary]
         /\ aliases' = [aliases EXCEPT ![s] =
                IF Fails(Names(config, s)) THEN <<>>
                ELSE resolveAliases(Names(config, s), ListUnitsByNames(Names(config, s), primary))]
    /\ UNCHANGED <<phase, config, actual, st, retained>>

Known(snapshots) == {id \in DOMAIN snapshots : snapshots[id] # Unknown}

\* reconcileScope, systemd's aliases being `primary' by now.
Query(s, primary) ==
    /\ phase = "running" /\ dialled[s] # <<>>
    /\ LET names == Names(config, s)
           raw   == ListUnitsByNames(names, primary)
       IN  IF Fails(names) THEN UNCHANGED <<st, retained>>
           ELSE /\ st' = ApplyUnits(config, st, s, mapStatuses(names, aliases[s], raw))
                /\ retained' = retained \cup UnitTopics(config, Known(st'))
    /\ actual' = [actual EXCEPT ![s] = primary]
    /\ UNCHANGED <<phase, config, dialled, aliases>>

\* republishAll.
Republish ==
    /\ phase = "running"
    /\ \E available \in BOOLEAN :
         retained' = retained \cup Published(config, Known(st), available)
    /\ UNCHANGED <<phase, config, dialled, aliases, actual, st>>

\* "offline", by the will or by Close.
End ==
    /\ phase = "running" /\ phase' = "ended"
    /\ retained' = retained \cup {Availability(config)}
    /\ UNCHANGED <<config, dialled, aliases, actual, st>>

\* --clear-discovery, with the daemon stopped and the file as it was.
Clear ==
    /\ phase = "ended" /\ retained' = retained \ RetainedTopics(config)
    /\ UNCHANGED <<phase, config, dialled, aliases, actual, st>>

Next ==
    \/ Load \/ Republish \/ End \/ Clear
    \/ /\ phase = "running"
       /\ \E s \in ToSet(ScopesOf(config)) :
            Dial(s) \/ \E primary \in Aliasings(Names(config, s)) : Query(s, primary)

Spec == Init /\ [][Next]_vars

-----------------------------------------------------------------------------
(* What an accepted configuration guarantees *)

Accepted == phase = "running"

\* "Two ids like foo and foo_state would otherwise overwrite each other's entity silently"
\* (config.go:370-372): of all components, those of units, selects, display, buses and
\* daemon, no two have the same id.
EntitiesApart ==
    Accepted => Others(BuildDiscovery(config), LAMBDA e, f : e.id # f.id)

\* Every entity can come alive and be used: what it reads is published once everything is
\* known, its own command topic is not, and a command gets to the app exactly once, and to
\* somebody.
EntitiesWired ==
    Accepted =>
    \A e \in ToSet(BuildDiscovery(config)) :
        /\ e.reads \subseteq Published(config, IDs(config), TRUE)
        /\ e.cmd # None => /\ e.cmd \notin Published(config, IDs(config), TRUE)
                           /\ Cardinality(route(config, e.cmd)) = 1
                           /\ Cardinality(Addressed(config, e.cmd)) = 1

\* A switch moves its own unit and no other, and so does an option of a select whose label
\* is told apart from the others, and from "off", after trimming (Validate does not look
\* at labels); with that instance alone running, the select shows the option.
CommandsReachTheirUnit ==
    Accepted =>
    /\ \A u \in ToSet(config.all) :
         Addressed(config, UnitSet(config, ObjectID(u))) = {<<"unit", u.name>>}
    /\ \A sel \in ToSet(config.selects) : \A i \in DOMAIN sel.options :
         LET o == sel.options[i]
             distinct == /\ o.label = Trimmed(o.label) /\ o.label # "off"
                         /\ \A j \in DOMAIN sel.options \ {i} : sel.options[j].label # o.label
         IN  distinct => /\ Chosen(sel, o.label) = <<o>>
                         /\ TemplateLabel(sel, {o.unit}) = o.label
                         /\ \E u \in ToSet(UnitByID(config, o.unit)) : u.template = sel.id

\* The polkit rule lets the daemon do its work on the system units, and lets nobody at a
\* unit that is only in the user scope.
RuleSuffices ==
    Accepted =>
    \A u \in ToSet(config.all) :
        IF u.scope = "system" THEN RuleAllows(config, u.name)
        ELSE RuleAllows(config, u.name) =>
             \/ \E v \in ToSet(config.all) : v.scope = "system" /\ v.name = u.name
             \/ \E t \in ToSet(config.templates) :
                  t.scope = "system" /\ [u.name EXCEPT !.inst = ""] = t.name

\* After a query every snapshot of the scope is that of its own unit, found "under either
\* name" (conn.go:101-105).  Three exceptions: a name systemd does not take for one is not
\* found; if there is one, aliases are not resolved; and an alias that has changed since
\* the dial may be taken wrongly if it was one then, or if its unit was asked for too.
Rightly(s, name, told) ==
    LET primary == actual[s][name]
        names   == Names(config, s)
    IN  IF Invalid(name) THEN told = NotFound
        ELSE \/ told = primary
             \/ /\ primary # name
                /\ \/ \E n \in ToSet(names) : Invalid(n)
                   \/ /\ dialled[s][name] # primary
                      /\ dialled[s][name] # name \/ primary \in ToSet(names)

SnapshotsTrue ==
    Accepted =>
    \A s \in ToSet(ScopesOf(config)) : actual[s] # <<>> =>
        \A u \in ToSet(UnitsForScope(config, s)) : Rightly(s, u.name, st[ObjectID(u)])

\* --clear-discovery "leaves nothing behind on the broker" (main.go:213-214).
NothingLeftBehind == [][Clear => retained' = {}]_vars

=============================================================================
