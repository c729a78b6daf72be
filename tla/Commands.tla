------------------------------ MODULE Commands ------------------------------
(***************************************************************************)
(* The commands of the daemon: the switches of the instances of one        *)
(* template and the exclusive select over them, the worker goroutine of    *)
(* each with its mailbox, the jobs they run on the systemd manager, and    *)
(* the queries that tell the loop what became of it.                       *)
(* (internal/app/commands.go, state.go; internal/systemd/conn.go)          *)
(*                                                                         *)
(* An option is its index in the configuration; 0 is the select's "off".   *)
(* A worker is named by its option, the worker of the select by 0.  Jobs   *)
(* are told apart by their goal only: a start or restart is to bring the   *)
(* unit up, a stop to bring it down.  The mailboxes overwrite what waits   *)
(* (see Mailbox).                                                          *)
(***************************************************************************)
EXTENDS Naturals, FiniteSets, FiniteSetsExt

CONSTANTS
    N,              \* the number of options
    JobMode,        \* systemd.job_mode
    MissingAtStart, \* options whose unit systemd does not find at first
    MaxPicks,       \* bound: commands given to the select
    MaxClicks,      \* bound: commands given to the switches
    MaxCommands,    \* bound: commands given to either
    MaxFaults,      \* bound: calls that fail, jobs that fail or time out
    MaxInstalls,    \* bound: units that are installed meanwhile
    MayEnd          \* bound: whether the daemon may end

Options == 1 .. N

ASSUME CommandsAssumption ==
    /\ N \in Nat /\ JobMode \in {"replace", "fail"} /\ MissingAtStart \subseteq Options
    /\ {MaxPicks, MaxClicks, MaxCommands, MaxFaults, MaxInstalls} \subseteq Nat /\ MayEnd \in BOOLEAN

VARIABLES
    active, missing,        \* systemd: units that are on, units it does not find
    job,                    \* systemd: the job queued for each unit, and who waits for it
    on, notFound,           \* the loop's snapshots: units on, units not found
    box,                    \* the mailbox of each switch
    selectBox,              \* the mailbox of the select
    busy,                   \* the goal each switch worker runs a job for, "none" when it
                            \*   waits for a command, "ended" when it has returned
    select,                 \* the select's worker
    answer,                 \* what a worker's job came to
    picked, clicked,        \* history: last command to the select (in a set, {} before
                            \*   the first) and to each switch
    switchedOn,             \* history: the options whose switch was ever turned on
    misled,                 \* history: the last pick was decided on snapshots that were
                            \*   not up to date or soon outdated, or of a unit not found
    ctxDone,
    spent                   \* picks, clicks, faults and installs so far

systemd == <<active, missing, job>>
seen    == <<on, notFound>>
boxes   == <<box, selectBox>>
workers == <<busy, select, answer>>
given   == <<picked, clicked, switchedOn, misled>>
vars == <<systemd, seen, boxes, workers, given, ctxDone, spent>>

Goals   == {"up", "down"}
Workers == Options \cup {0}
NoJob   == [goal |-> "none", waiters |-> {}]
NoCommand == [start |-> 0, stops |-> {}, given |-> FALSE]
Orders == [start : Options \cup {0}, stops : SUBSET Options, given : BOOLEAN]

\* A result goes to the worker that asked for it and is still waiting.
WaitersOK ==
    \A i \in Options : \A w \in job[i].waiters :
        /\ answer[w] = "none"
        /\ IF w = 0 THEN select.unit = i
                          /\ select.pc = (IF job[i].goal = "up" THEN "start" ELSE "stop")
                    ELSE w = i /\ busy[i] = job[i].goal

TypeOK ==
    /\ WaitersOK
    /\ active \subseteq Options /\ missing \subseteq Options
    /\ on \subseteq Options /\ notFound \subseteq Options
    /\ job \in [Options -> [goal : Goals \cup {"none"}, waiters : SUBSET Workers]]
    /\ box \in [Options -> Goals \cup {"none"}] /\ selectBox \in Orders
    /\ busy \in [Options -> Goals \cup {"none", "ended"}]
    /\ select \in [pc : {"idle", "next", "stop", "start", "done"}, unit : Options \cup {0},
                   cmd : Orders, failed : BOOLEAN]
    /\ answer \in [Workers -> {"none", "done", "bad"}]
    /\ picked \in SUBSET Workers /\ clicked \in [Options -> Goals \cup {"none"}]
    /\ switchedOn \subseteq Options /\ ctxDone \in BOOLEAN /\ misled \in BOOLEAN
    /\ spent \in [picks : Nat, clicks : Nat, faults : Nat, installs : Nat]

Init ==
    /\ active \in {S \in SUBSET (Options \ MissingAtStart) : Cardinality(S) <= 1}
    /\ missing = MissingAtStart
    /\ job = [i \in Options |-> NoJob]
    /\ on = {} /\ notFound = {}
    /\ box = [i \in Options |-> "none"] /\ selectBox = NoCommand
    /\ busy = [i \in Options |-> "none"]
    /\ select = [pc |-> "idle", unit |-> 0, cmd |-> NoCommand, failed |-> FALSE]
    /\ answer = [w \in Workers |-> "none"]
    /\ picked = {} /\ misled = FALSE
    /\ clicked = [i \in Options |-> "none"] /\ switchedOn = {}
    /\ ctxDone = FALSE
    /\ spent = [picks |-> 0, clicks |-> 0, faults |-> 0, installs |-> 0]

Spend(what, most) == spent[what] < most /\ spent' = [spent EXCEPT ![what] = @ + 1]
GiveCommand(what, most) == spent.picks + spent.clicks < MaxCommands /\ Spend(what, most)

-----------------------------------------------------------------------------
(* The manager *)

\* A worker asks for a job.  The call fails when the unit is not found, the bus is
\* offline or the context is cancelled.  A job for the same goal is joined, and its result
\* may be lost on who waited for it first; one for the other goal is replaced, and its
\* waiters told, or in the way, as job_mode has it.
Ask(w, i, goal) ==
    \/ /\ i \in missing /\ answer' = [answer EXCEPT ![w] = "bad"]
       /\ UNCHANGED <<job, spent>>
    \/ /\ answer' = [answer EXCEPT ![w] = "bad"]
       /\ IF ctxDone THEN UNCHANGED spent ELSE Spend("faults", MaxFaults)
       /\ UNCHANGED job
    \/ /\ i \notin missing /\ job[i].goal \in {"none", goal}
       /\ \E others \in {job[i].waiters, {}} :
            job' = [job EXCEPT ![i] = [goal |-> goal, waiters |-> others \cup {w}]]
       /\ UNCHANGED <<answer, spent>>
    \/ /\ i \notin missing /\ job[i].goal \notin {"none", goal}
       /\ IF JobMode = "replace"
          THEN /\ answer' = [v \in Workers |-> IF v \in job[i].waiters THEN "bad" ELSE answer[v]]
               /\ job' = [job EXCEPT ![i] = [goal |-> goal, waiters |-> {w}]]
          ELSE answer' = [answer EXCEPT ![w] = "bad"] /\ UNCHANGED job
       /\ UNCHANGED spent

\* The job is removed from systemd's queue, done or not, and its waiters learn which.
JobRemoved(i) ==
    /\ job[i].goal # "none" /\ job' = [job EXCEPT ![i] = NoJob]
    /\ \E result \in {"done", "bad"} :
         /\ answer' = [v \in Workers |-> IF v \in job[i].waiters THEN result ELSE answer[v]]
         /\ IF result = "done"
            THEN active' = (IF job[i].goal = "up" THEN active \cup {i} ELSE active \ {i})
                 /\ UNCHANGED spent
            ELSE Spend("faults", MaxFaults) /\ UNCHANGED active
    /\ UNCHANGED <<missing, seen, boxes, busy, select, given, ctxDone>>

Waits(w) == answer[w] = "none"
            /\ IF w = 0 THEN select.pc \in {"stop", "start"} ELSE busy[w] \in Goals

\* Faulty forms of GivesUp: the end of the daemon does not reach a waiting worker; the
\* result is still awaited where nobody reads it.
GivesUpOnTimeout(w) ==
    /\ Waits(w)
    /\ job' = [i \in Options |-> [job[i] EXCEPT !.waiters = @ \ {w}]]
    /\ answer' = [answer EXCEPT ![w] = "bad"]
    /\ Spend("faults", MaxFaults)
    /\ UNCHANGED <<active, missing, seen, boxes, busy, select, given, ctxDone>>

GivesUpLeavingWaiter(w) ==
    /\ Waits(w)
    /\ answer' = [answer EXCEPT ![w] = "bad"]
    /\ IF ctxDone THEN UNCHANGED spent ELSE Spend("faults", MaxFaults)
    /\ UNCHANGED <<systemd, seen, boxes, busy, select, given, ctxDone>>

\* job_timeout expires, the connection dies, or the daemon ends: the worker leaves, the
\* job stays.
GivesUp(w) ==
    /\ Waits(w)
    /\ job' = [i \in Options |-> [job[i] EXCEPT !.waiters = @ \ {w}]]
    /\ answer' = [answer EXCEPT ![w] = "bad"]
    /\ IF ctxDone THEN UNCHANGED spent ELSE Spend("faults", MaxFaults)
    /\ UNCHANGED <<active, missing, seen, boxes, busy, select, given, ctxDone>>

\* A unit file is installed.
Install(i) ==
    /\ i \in missing /\ missing' = missing \ {i}
    /\ Spend("installs", MaxInstalls)
    /\ misled' = (misled \/ selectBox.given \/ select.pc \notin {"idle", "done"})
    /\ UNCHANGED <<active, job, seen, boxes, workers, picked, clicked, switchedOn, ctxDone>>

\* The loop queries the scope.
Query ==
    /\ on' = active /\ notFound' = missing
    /\ UNCHANGED <<systemd, boxes, workers, given, ctxDone, spent>>

-----------------------------------------------------------------------------
(* The switches *)

\* A faulty form of Click: a command that waits is not replaced.
ClickKeepingOld(i) ==
    /\ GiveCommand("clicks", MaxClicks)
    /\ \E goal \in Goals : box' = [box EXCEPT ![i] = IF @ = "none" THEN goal ELSE @]
                           /\ clicked' = [clicked EXCEPT ![i] = goal]
                           /\ switchedOn' = switchedOn \cup {j \in {i} : goal = "up"}
    /\ UNCHANGED <<systemd, seen, selectBox, workers, picked, misled, ctxDone>>

\* dispatchUnit.
Click(i) ==
    /\ GiveCommand("clicks", MaxClicks)
    /\ \E goal \in Goals : box' = [box EXCEPT ![i] = goal]
                           /\ clicked' = [clicked EXCEPT ![i] = goal]
                           /\ switchedOn' = switchedOn \cup {j \in {i} : goal = "up"}
    /\ UNCHANGED <<systemd, seen, selectBox, workers, picked, misled, ctxDone>>

\* unitWorker.run takes the verb and asks for the job; with the context cancelled its
\* select may still do so.
SwitchTakes(i) ==
    /\ busy[i] = "none" /\ box[i] # "none" /\ answer[i] = "none"
    /\ busy' = [busy EXCEPT ![i] = box[i]] /\ box' = [box EXCEPT ![i] = "none"]
    /\ Ask(i, i, box[i])
    /\ UNCHANGED <<active, missing, seen, selectBox, select, given, ctxDone>>

\* runJob returns and evJobDone is enqueued.
SwitchDone(i) ==
    /\ busy[i] \in Goals /\ answer[i] # "none"
    /\ busy' = [busy EXCEPT ![i] = "none"] /\ answer' = [answer EXCEPT ![i] = "none"]
    /\ UNCHANGED <<systemd, seen, boxes, select, given, ctxDone, spent>>

-----------------------------------------------------------------------------
(* The select *)

\* A faulty form of Pick: a command that waits is not replaced.
PickKeepingOld(choice) ==
    /\ GiveCommand("picks", MaxPicks)
    /\ selectBox' = IF selectBox.given THEN selectBox
                    ELSE [start |-> choice, stops |-> Options \ (notFound \cup {choice}),
                          given |-> TRUE]
    /\ picked' = {choice} /\ misled' = (notFound # missing \/ choice \in missing)
    /\ UNCHANGED <<systemd, seen, box, workers, clicked, switchedOn, ctxDone>>

\* dispatchTemplate: what there is to stop is decided now, from the snapshots.
Pick(choice) ==
    /\ GiveCommand("picks", MaxPicks)
    /\ selectBox' = [start |-> choice, stops |-> Options \ (notFound \cup {choice}),
                     given |-> TRUE]
    /\ picked' = {choice} /\ misled' = (notFound # missing \/ choice \in missing)
    /\ UNCHANGED <<systemd, seen, box, workers, clicked, switchedOn, ctxDone>>

\* templateWorker.run takes the command.
SelectTakes ==
    /\ select.pc = "idle" /\ selectBox.given
    /\ select' = [select EXCEPT !.pc = "next", !.cmd = selectBox, !.failed = FALSE]
    /\ selectBox' = NoCommand
    /\ UNCHANGED <<systemd, seen, box, busy, answer, given, ctxDone, spent>>

\* runTemplate: the next stop, in the order of the configuration ...
SelectStops ==
    /\ select.pc = "next" /\ select.cmd.stops # {} /\ ~ctxDone
    /\ LET i == Min(select.cmd.stops)
       IN  /\ select' = [select EXCEPT !.pc = "stop", !.unit = i, !.cmd.stops = @ \ {i}]
           /\ Ask(0, i, "down")
    /\ UNCHANGED <<active, missing, seen, boxes, busy, given, ctxDone>>

\* A faulty form of SelectStopped: a stop that failed is forgotten.
SelectStoppedAnyhow ==
    /\ select.pc = "stop" /\ answer[0] # "none"
    /\ select' = [select EXCEPT !.pc = "next", !.unit = 0]
    /\ answer' = [answer EXCEPT ![0] = "none"]
    /\ UNCHANGED <<systemd, seen, boxes, busy, given, ctxDone, spent>>

\* ... its result ...
SelectStopped ==
    /\ select.pc = "stop" /\ answer[0] # "none"
    /\ select' = [select EXCEPT !.pc = "next", !.unit = 0, !.failed = @ \/ answer[0] = "bad"]
    /\ answer' = [answer EXCEPT ![0] = "none"]
    /\ UNCHANGED <<systemd, seen, boxes, busy, given, ctxDone, spent>>

\* ... then the start, unless a stop failed.
SelectStarts ==
    /\ select.pc = "next" /\ select.cmd.stops = {}
    /\ select.cmd.start # 0 /\ ~select.failed
    /\ select' = [select EXCEPT !.pc = "start", !.unit = select.cmd.start]
    /\ Ask(0, select.cmd.start, "up")
    /\ UNCHANGED <<active, missing, seen, boxes, busy, given, ctxDone>>

\* runTemplate returns: nothing to start, nothing to start next to, started, or the
\* context was cancelled between two stops.  evTemplateDone is enqueued.
SelectDone ==
    /\ \/ select.pc = "next" /\ select.cmd.stops = {}
                             /\ (select.cmd.start = 0 \/ select.failed)
       \/ select.pc = "next" /\ select.cmd.stops # {} /\ ctxDone
       \/ select.pc = "start" /\ answer[0] # "none"
    /\ select' = [pc |-> "idle", unit |-> 0, cmd |-> NoCommand, failed |-> FALSE]
    /\ answer' = [answer EXCEPT ![0] = "none"]
    /\ UNCHANGED <<systemd, seen, boxes, busy, given, ctxDone, spent>>

-----------------------------------------------------------------------------
(* The end of the daemon *)

Cancel ==
    /\ MayEnd /\ ~ctxDone /\ ctxDone' = TRUE
    /\ UNCHANGED <<systemd, seen, boxes, workers, given, spent>>

SwitchEnds(i) ==
    /\ ctxDone /\ busy[i] = "none" /\ busy' = [busy EXCEPT ![i] = "ended"]
    /\ UNCHANGED <<systemd, seen, boxes, select, answer, given, ctxDone, spent>>

SelectEnds ==
    /\ ctxDone /\ select.pc = "idle" /\ select' = [select EXCEPT !.pc = "done"]
    /\ UNCHANGED <<systemd, seen, boxes, busy, answer, given, ctxDone, spent>>

-----------------------------------------------------------------------------

Switch(i) == SwitchTakes(i) \/ SwitchDone(i) \/ GivesUp(i) \/ SwitchEnds(i)
Select == SelectTakes \/ SelectStops \/ SelectStopped \/ SelectStarts \/ SelectDone
          \/ SelectEnds \/ GivesUp(0)

Next ==
    \/ \E i \in Options : JobRemoved(i) \/ Install(i) \/ Click(i) \/ Switch(i)
    \/ \E choice \in Options \cup {0} : Pick(choice)
    \/ Select \/ Query \/ Cancel

Spec == Init /\ [][Next]_vars

\* The workers get to run, and so does a worker whose context ends or times out.
FairSpec == Spec /\ (\A i \in Options : WF_vars(Switch(i))) /\ WF_vars(Select)

\* Jobs end, and the loop queries again and again; what needs this says so.
SystemdAnswers == (\A i \in Options : WF_vars(JobRemoved(i))) /\ WF_vars(Query)

-----------------------------------------------------------------------------
(* What the select and the switches promise *)

\* "at most one instance" (README.md:107): however picks follow one another, stops and
\* starts fail or time out with the job still queued, units are switched on and off
\* meanwhile and the daemon ends, the select never brings up two instances.  Those whose
\* switch was turned on are not its doing (README.md:123).
AtMostOneInstance ==
    Cardinality((active \cup {i \in Options : job[i].goal = "up"}) \ switchedOn) <= 1

\* TemplateState: what the select shows.
TemplateState == IF on = {} THEN 0 ELSE Min(on)

\* "picking twice fast only runs the last pick" (commands.go:192-193), and a unit that is
\* known to be missing is no obstacle (commands.go:231): in the end the select and its
\* instances are as last told, unless a job failed, a switch interfered, the daemon ends,
\* or the select was misled about what is there.
LastPickWins ==
    SystemdAnswers =>
    <>[](\/ picked = {} \/ misled \/ spent.clicks > 0 \/ spent.faults > 0 \/ ctxDone
         \/ active = picked \ {0} /\ {TemplateState} = picked)

\* "a burst of clicks ends with the last click winning" (commands.go:99-101): in the end a
\* unit is as last told, unless a job failed, the select interfered or the daemon ends.
LastClickWins ==
    SystemdAnswers =>
    \A i \in Options \ MissingAtStart :
        <>[](\/ clicked[i] = "none" \/ spent.picks > 0 \/ spent.faults > 0 \/ ctxDone
             \/ (i \in active) = (clicked[i] = "up"))

\* The daemon's end waits for the workers (app.go:382): each comes back whatever it was
\* at.
WorkersComeBack ==
    ctxDone ~> [](select.pc = "done" /\ \A i \in Options : busy[i] = "ended")

=============================================================================
