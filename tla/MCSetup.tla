------------------------------- MODULE MCSetup -------------------------------
(* Files for Setup: whatever two entries of each list can do to each other. *)
EXTENDS Setup

VLC  == Instance("vlc", "", "service")
Cam1 == Instance("vlc", "cam1", "service")

MCOutside == Plain("outside", "service")

Names1 == {Plain("vlc", "service"), Cam1}

UnitEntries ==
    {Unit(n, s, "") : n \in Names1, s \in {"user", "system"}}
    \cup {Unit(Plain("vlc_cam1", "service"), "user", ""),       \* the slug of Cam1
          Unit(Plain("vlc_state", "service"), "user", ""),      \* a component of vlc
          Unit(Plain("vlc", "timer"), "user", "vlc"),
          Unit(Plain("vlc", "service"), "user", "player"),
          Unit(Plain("vlc", "service"), "guest", ""),
          Unit(Plain("vlc", ""), "user", ""),
          Unit(Plain("vlc", "bar"), "user", ""),
          Unit(VLC, "user", ""),
          Unit(Plain("tv", "service"), "user", "a b"),
          [Unit(Plain("tv", "service"), "user", "vlc_problem") EXCEPT !.restart = "no"],
          [Unit(Plain("vlc", "service"), "user", "") EXCEPT !.problem = "no"]}

Named(n, t) == [name |-> n, title |-> t]

Instances ==
    {<<>>, <<Named("cam1", "")>>, <<Named("cam1", "Door"), Named("cam2", "")>>,
     <<Named("cam1", "Door"), Named("cam2", "Door")>>,
     <<Named("cam1", "off"), Named("cam2", "Door ")>>,
     <<Named("a b", "")>>, <<Named("", "")>>}

Template(n, s, id, exclusive, is) ==
    [name |-> n, scope |-> s, id |-> id, title |-> "", exclusive |-> exclusive, problem |-> "",
     restart |-> "no", instances |-> is]

Templates ==
    {Template(VLC, "user", "", TRUE, is) : is \in Instances}
    \cup {Template(VLC, "system", "cameras", e, <<Named("cam1", "")>>) : e \in BOOLEAN}
    \cup {Template(Plain("vlc", "service"), "user", "", TRUE, <<Named("cam1", "")>>),
          Template(Instance("vlc", "", "timer"), "user", "vlc", FALSE, <<Named("cam2", "")>>)}

Absent   == [given |-> FALSE, list |-> <<>>]
Short(S) == {Absent} \cup [given : {TRUE}, list : {<<>>} \cup {<<x>> : x \in S}]
Pairs(S) == [given : {TRUE}, list : S \X S]

File(units, templates, base, sound, ha, display, select) ==
    [node_id |-> "node", base_topic |-> base, units |-> units, templates |-> templates,
     sound |-> sound, homeassistant |-> ha, display |-> display, mode_select |-> select]

\* Two units and no template, or two templates and no unit, or one of each.
Lists ==
    (Pairs(UnitEntries) \X {Absent}) \cup ({Absent} \X Pairs(Templates))
    \cup (Short(UnitEntries) \X Short(Templates))

MCFiles ==
    {File(l[1], l[2], "", TRUE, "", "", "") : l \in Lists}
    \cup {File(Absent, Absent, b, x, h, d, m) :
            b \in {"", "home/office", "+", "#"}, x \in BOOLEAN, h \in {"yes", "no"},
            d \in {"yes", "no"}, m \in {"yes", "no"}}

=============================================================================
