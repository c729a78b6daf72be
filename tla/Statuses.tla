------------------------------ MODULE Statuses ------------------------------
(***************************************************************************)
(* From systemd's answer to the snapshots of the loop: which unit of the   *)
(* answer is taken for which name that was asked.                          *)
(* (internal/systemd/conn.go, internal/app/state.go)                       *)
(*                                                                         *)
(* What is known of a unit is which unit it is the state of: the name      *)
(* systemd reports it under, NotFound, or Unknown.  systemd's side is a    *)
(* function from names to primary names: n is an alias when primary[n]     *)
(* is not n.                                                               *)
(***************************************************************************)
EXTENDS HomeAssistant

Unknown  == Plain("unknown", "")
NotFound == Plain("not-found", "")

\* External: an answer per name, in order, under primary names; names that are no names
\* of units are left out, and the whole call fails on the name of a template.
Invalid(n) == n.suffix = "bar"
Fails(names) == \E n \in ToSet(names) : splitTemplate(n)
ListUnitsByNames(names, primary) ==
    LET valid == Those(names, {n \in ToSet(names) : ~Invalid(n)})
    IN  [i \in DOMAIN valid |-> primary[valid[i]]]

\* The aliases among the watched names, unless the answer cannot be told apart.
resolveAliases(watch, raw) ==
    IF Len(raw) # Len(watch) THEN <<>>
    ELSE LET others == {i \in DOMAIN raw : raw[i] # watch[i]}
         IN  [n \in {watch[i] : i \in others} |-> raw[Max({i \in others : watch[i] = n})]]

\* A faulty form of mapStatuses: every answer is taken by position.
mapByPosition(names, aliases, raw) ==
    [i \in DOMAIN names |-> IF i \in DOMAIN raw THEN raw[i] ELSE NotFound]

\* By name, else by the primary name recorded, else by position when the count is right
\* and what is there was not asked for.
mapStatuses(names, aliases, raw) ==
    [i \in DOMAIN names |->
        CASE names[i] \in ToSet(raw) -> names[i]
          [] names[i] \notin ToSet(raw) /\ names[i] \in DOMAIN aliases
                /\ aliases[names[i]] \in ToSet(raw) -> aliases[names[i]]
          [] OTHER -> IF Len(raw) = Len(names) /\ raw[i] \notin ToSet(names)
                      THEN raw[i] ELSE NotFound]

-----------------------------------------------------------------------------

IDs(c) == {ObjectID(u) : u \in ToSet(c.all)}

NewState(c) == [id \in IDs(c) |-> Unknown]

\* byName keeps the last of several ids.
IDForUnit(c, scope, name) ==
    ObjectID(c.all[SelectLastInSeq(c.all, LAMBDA u : u.scope = scope /\ u.name = name)])

\* ApplyUnit for every status of an answer.
ApplyUnits(c, st, scope, statuses) ==
    LET names == Names(c, scope)
        at(id) == {i \in DOMAIN names : IDForUnit(c, scope, names[i]) = id}
    IN  [id \in DOMAIN st |-> IF at(id) = {} THEN st[id] ELSE statuses[Max(at(id))]]

\* TemplateState: the label of the first instance that is on, with `on' the ids that are.
TemplateLabel(sel, on) ==
    LET active == FirstOf(sel.options, {o \in ToSet(sel.options) : o.unit \in on})
    IN  IF active = <<>> THEN "off" ELSE active[1].label

\* dispatchTemplate: the payload has been trimmed; "off" chooses none, a label the first
\* option that has it; the other options are to stop.
Trimmed(label) == IF label = "Door " THEN "Door" ELSE label

Chosen(sel, payload) ==
    LET label == Trimmed(payload)
    IN  FirstOf(sel.options, {o \in ToSet(sel.options) : label # "off" /\ o.label = label})

=============================================================================
