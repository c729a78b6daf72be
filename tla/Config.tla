------------------------------- MODULE Config -------------------------------
(***************************************************************************)
(* The configuration file: defaults, the expansion of templates, what      *)
(* Validate refuses, and the lookups the daemon uses afterwards.           *)
(* (internal/config/config.go)                                             *)
(*                                                                         *)
(* A unit name is a record: vlc@cam1.service has the stem "vlc", at, the   *)
(* instance "cam1" and the suffix "service".  Words are lower case, so     *)
(* that a slug is its words joined by "_"; "" is a key that is not set.    *)
(* Settings that only Validate looks at are one flag, `sound'.             *)
(***************************************************************************)
EXTENDS Naturals, SequencesExt

Scopes == <<"user", "system">>

Instance(stem, inst, suffix) == [stem |-> stem, at |-> TRUE, inst |-> inst, suffix |-> suffix]
Plain(stem, suffix) == [stem |-> stem, at |-> FALSE, inst |-> "", suffix |-> suffix]

\* An entry of units, or an expanded instance, which knows its template.
Unit(name, scope, id) ==
    [name |-> name, scope |-> scope, id |-> id, title |-> "", problem |-> "", restart |-> "",
     template |-> ""]

DefaultUnits == <<Unit(Plain("grafana_kiosk", "service"), "user", ""),
                  Unit(Plain("vlc", "service"), "user", "")>>

\* The elements of a sequence that are in T, in their order.  A recursive function, and not
\* SelectSeq, because no proof can look into the latter.
Those(s, T) ==
    LET those[i \in 0 .. Len(s)] ==
            IF i = 0 THEN <<>>
            ELSE IF s[i] \in T THEN Append(those[i - 1], s[i]) ELSE those[i - 1]
    IN  those[Len(s)]

\* The first element that is in T, or none.
FirstOf(s, T) ==
    LET at == SelectInSeq(s, LAMBDA x : x \in T)
    IN  IF at = 0 THEN <<>> ELSE <<s[at]>>

\* An optional flag is true unless the file says no.
Wanted(flag) == flag # "no"

-----------------------------------------------------------------------------
(* Names and ids *)

Slugify(n) ==
    LET Then(word) == IF word = "" THEN "" ELSE "_" \o word
    IN  n.stem \o Then(n.inst) \o Then(IF n.suffix = "service" THEN "" ELSE n.suffix)

splitTemplate(n) == n.at /\ n.inst = "" /\ n.suffix # ""

displayName(n) == IF n.suffix = "service" THEN n.stem ELSE n.stem \o "." \o n.suffix

ObjectID(u) == IF u.id = "" THEN Slugify(u.name) ELSE u.id

\* The ids of the components that discovery derives from a unit.
Components(u) ==
    {"unit_" \o ObjectID(u), "unit_" \o ObjectID(u) \o "_state"}
    \cup (IF Wanted(u.problem) THEN {"unit_" \o ObjectID(u) \o "_problem"} ELSE {})
    \cup (IF Wanted(u.restart) THEN {"unit_" \o ObjectID(u) \o "_restart"} ELSE {})

-----------------------------------------------------------------------------
(* Parse: defaults and expansion *)

\* The default units only when the file has neither list; an empty list means no units.
applyDefaults(f) ==
    [f EXCEPT !.units     = IF ~f.units.given /\ ~f.templates.given
                            THEN [given |-> TRUE, list |-> DefaultUnits] ELSE @,
              !.base_topic = IF @ = "" THEN "systemd2mqtt" ELSE @]

Titled(t) == [t EXCEPT !.id    = IF @ = "" THEN Slugify(t.name) ELSE @,
                       !.title = IF @ = "" THEN displayName([t.name EXCEPT !.at = FALSE]) ELSE @]

\* The units of a template, with an id of their own and a label for the select.
Expanded(t) ==
    [i \in DOMAIN t.instances |->
        LET inst == t.instances[i]
            name == [t.name EXCEPT !.inst = inst.name]
        IN  [name |-> name, scope |-> t.scope, id |-> Slugify(name),
             title |-> IF inst.title # "" THEN inst.title ELSE t.title \o " " \o inst.name,
             problem |-> t.problem, restart |-> t.restart, template |-> t.id]]

Select(t) ==
    [id |-> t.id, scope |-> t.scope,
     options |-> [i \in DOMAIN t.instances |->
                    [label |-> Expanded(t)[i].title, unit |-> Expanded(t)[i].id]]]

Expandable(f) == \A t \in ToSet(f.templates.list) : splitTemplate(t.name)

\* The configuration the daemon works with, all and selects included.
expand(f) ==
    LET templates == [i \in DOMAIN f.templates.list |-> Titled(f.templates.list[i])]
        exclusive == Those(templates, {t \in ToSet(templates) : t.exclusive})
    IN  [node_id |-> f.node_id, base_topic |-> f.base_topic, sound |-> f.sound,
         homeassistant |-> Wanted(f.homeassistant), display |-> Wanted(f.display),
         mode_select |-> Wanted(f.mode_select), templates |-> templates,
         all |-> f.units.list \o FlattenSeq([i \in DOMAIN templates |-> Expanded(templates[i])]),
         selects |-> [i \in DOMAIN exclusive |-> Select(exclusive[i])]]

-----------------------------------------------------------------------------
(* Validate: a configuration without complaints *)

\* Words with characters that instances and ids may not have; a filter's may be in an instance.
Unfit == {"a b", "a/b", "a@b"}
nodeIDRe(id) == id \notin Unfit \cup {"", "+", "#"}

NamesFit(c) ==
    \A u \in ToSet(c.all) :
        /\ u.name.suffix # "" /\ u.name.stem \notin {"a b", "a/b"}
        /\ u.template = "" => ~splitTemplate(u.name)
        /\ u.scope \in ToSet(Scopes)
        /\ nodeIDRe(ObjectID(u))

\* Two entries, each with the other somewhere behind or before it in the list.
Others(s, Apart(_, _)) == \A i, j \in DOMAIN s : i # j => Apart(s[i], s[j])

\* A faulty form of IDsApart: the id is left to the person who writes the file.
IDsUnchecked(c) == TRUE

IDsApart(c) == Others(c.all, LAMBDA u, v : ObjectID(u) # ObjectID(v))

\* "the state lookup is by name, so only one of them would ever update"
NamesApart(c) == Others(c.all, LAMBDA u, v : <<u.scope, u.name>> # <<v.scope, v.name>>)

\* A faulty form of ComponentsApart: ids that differ are taken to be enough.
ComponentsUnchecked(c) == TRUE

\* "foo" and "foo_state" differ, and would overwrite each other's entity.
ComponentsApart(c) ==
    Others(c.all, LAMBDA u, v : ObjectID(u) # ObjectID(v) => Components(u) \cap Components(v) = {})

\* A faulty form of TemplatesFit: a template may have no instances.
TemplatesFitEmpty(c) ==
    /\ Others(c.templates, LAMBDA t, u : t.id # u.id)
    /\ \A t \in ToSet(c.templates) :
         /\ nodeIDRe(t.id) /\ \A i \in ToSet(t.instances) : i.name \notin Unfit \cup {""}

TemplatesFit(c) ==
    /\ Others(c.templates, LAMBDA t, u : t.id # u.id)
    /\ \A t \in ToSet(c.templates) :
         /\ nodeIDRe(t.id) /\ t.instances # <<>>
         /\ \A i \in ToSet(t.instances) : i.name \notin Unfit \cup {""}

Validate(c) ==
    /\ c.sound /\ nodeIDRe(c.node_id) /\ c.base_topic \notin {"", "+", "#"}
    /\ NamesFit(c) /\ IDsApart(c) /\ NamesApart(c) /\ ComponentsApart(c) /\ TemplatesFit(c)

\* Parse, of a file that is well-formed YAML.
Accepts(f) == LET g == applyDefaults(f) IN Expandable(g) /\ Validate(expand(g))
Parsed(f)  == expand(applyDefaults(f))

-----------------------------------------------------------------------------
(* Lookups *)

UnitsForScope(c, s) == Those(c.all, {u \in ToSet(c.all) : u.scope = s})

Names(c, s) == [i \in DOMAIN UnitsForScope(c, s) |-> UnitsForScope(c, s)[i].name]

\* The first unit with the id, or none.
UnitByID(c, id) == FirstOf(c.all, {u \in ToSet(c.all) : ObjectID(u) = id})

ScopesOf(c) == Those(Scopes, {s \in ToSet(Scopes) : UnitsForScope(c, s) # <<>>})

=============================================================================
