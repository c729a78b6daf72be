--------------------------- MODULE CommandsProofs ---------------------------
(***************************************************************************)
(* The select never brings up two instances: proved for any number of      *)
(* options and either job mode, however many commands, failures and        *)
(* timeouts there are and whichever units are missing.                     *)
(***************************************************************************)
EXTENDS Commands, FiniteSetTheorems, WellFoundedInduction, TLAPS

(***************************************************************************)
(* The inductive invariant                                                 *)
(***************************************************************************)

\* Nobody waits for a job that is not there, and the select's worker has no result but of
\* the job it asked for.
NobodyForgotten ==
    /\ \A i \in Options : job[i].goal = "none" => job[i].waiters = {}
    /\ select.pc \in {"idle", "next", "done"} => answer[0] = "none"

TInv == TypeOK /\ NobodyForgotten

\* A unit that is off, and that no job is about to bring up.
Rests(i) == i \notin active /\ job[i].goal # "up"

\* The options whose switch nobody ever turned on.
Others == Options \ switchedOn

MissingRest == \A i \in missing : Rests(i)

SwitchesTold == \A i \in Options : box[i] = "up" => i \in switchedOn

\* What a command to the select does not stop is what it starts, or not there.
OrderSound ==
    selectBox.given =>
        \A i \in Others : i \in selectBox.stops \/ i = selectBox.start \/ i \in missing

\* Between the stops of a command none of which failed: what is no longer to be stopped
\* rests, except the unit being stopped.
Cleared ==
    select.pc \in {"next", "stop"} /\ ~select.failed =>
        \A i \in Others :
            \/ i \in select.cmd.stops \/ i = select.cmd.start \/ Rests(i)
            \/ select.pc = "stop" /\ i = select.unit /\ answer[0] # "done"

OneAtMost == \A i, j \in Others : i = j \/ Rests(i) \/ Rests(j)

\* As long as no unit is installed, what is known to be missing stays missing.
Exclusive ==
    spent.installs = 0 => notFound \subseteq missing /\ OrderSound /\ Cleared /\ OneAtMost

EInv == TInv /\ MissingRest /\ SwitchesTold /\ Exclusive

-----------------------------------------------------------------------------
(* Lemmas about the operators *)

\* A set of natural numbers that is not empty has its least number in it.
LEMMA MinIsMember ==
    ASSUME NEW S \in SUBSET Nat, S # {}
    PROVE  Min(S) \in S
<1>1. PICK x \in S : \A y \in S : ~(<<y, x>> \in OpToRel(<, Nat))
  BY NatLessThanWellFounded, WFMin
<1>2. \A y \in S : ~(y < x)
  BY <1>1 DEF OpToRel
<1>3. \A y \in S : x =< y
  BY <1>2
<1> QED
  BY <1>3 DEF Min

\* A set has at most one element when any two of its elements are the same.
LEMMA AtMostOne ==
    ASSUME NEW S, \A x, y \in S : x = y
    PROVE  Cardinality(S) <= 1
<1>1. CASE S = {}
  BY <1>1, FS_EmptySet
<1>2. CASE S # {}
  <2>1. PICK x : x \in S
    BY <1>2
  <2>2. S = {x}
    BY <2>1
  <2> QED
    BY <2>2, FS_Singleton
<1> QED
  BY <1>1, <1>2

\* The converse, for a finite set.
LEMMA NoTwo ==
    ASSUME NEW S, IsFiniteSet(S), Cardinality(S) <= 1, NEW x \in S, NEW y \in S
    PROVE  x = y
<1>1. SUFFICES ASSUME x # y PROVE FALSE
  OBVIOUS
<1>2. IsFiniteSet({x}) /\ Cardinality({x}) = 1
  BY FS_Singleton
<1>3. Cardinality({x} \cup {y}) = 2
  <2>1. y \notin {x}
    BY <1>1
  <2>2. Cardinality({x} \cup {y}) = Cardinality({x}) + 1
    BY <1>2, <2>1, FS_AddElement, Zenon
  <2> QED
    BY <1>2, <2>2
<1>4. {x} \cup {y} \in SUBSET S
  OBVIOUS
<1>5. Cardinality({x} \cup {y}) <= Cardinality(S) /\ Cardinality(S) \in Nat
  BY <1>4, FS_Subset, FS_CardinalityType
<1> QED
  BY <1>3, <1>5

LEMMA OptionsFinite == Options \subseteq Nat /\ 0 \notin Options /\ IsFiniteSet(Options)
<1>1. N \in Nat /\ N \in Int /\ 1 \in Int
  BY CommandsAssumption
<1>2. IsFiniteSet(1 .. N)
  BY <1>1, FS_Interval, Zenon
<1> QED
  BY <1>1, <1>2 DEF Options

\* What is spent is counted, each kind by itself.
LEMMA SpendCounts ==
    ASSUME TypeOK, NEW what \in {"picks", "clicks", "faults", "installs"}, NEW most,
           Spend(what, most)
    PROVE  /\ spent' \in [picks : Nat, clicks : Nat, faults : Nat, installs : Nat]
           /\ spent'.installs = spent.installs + (IF what = "installs" THEN 1 ELSE 0)
BY DEF TypeOK, Spend

\* A worker that waits for nothing asks for a job: the unit's job has the goal asked for or
\* the one it had, a unit that is missing gets none, nobody is told that anything is done,
\* and who waits for a job afterwards has no result yet.
LEMMA AskDoes ==
    ASSUME TInv, NEW w \in Workers, NEW i \in Options, NEW goal \in Goals,
           answer[w] = "none", \A j \in Options : w \notin job[j].waiters,
           Ask(w, i, goal)
    PROVE  /\ job' \in [Options -> [goal : Goals \cup {"none"}, waiters : SUBSET Workers]]
           /\ answer' \in [Workers -> {"none", "done", "bad"}]
           /\ spent' \in [picks : Nat, clicks : Nat, faults : Nat, installs : Nat]
           /\ spent'.installs = spent.installs
           /\ \A v \in Workers :
                \/ answer'[v] = answer[v]
                \/ answer'[v] = "bad" /\ v \in job[i].waiters \cup {w}
           /\ \A j \in Options :
                /\ \/ job'[j].goal = job[j].goal
                   \/ j = i /\ job'[j].goal = goal /\ i \notin missing
                /\ job'[j].goal = "none" => job'[j].waiters = {}
                /\ \A v \in job'[j].waiters :
                     /\ answer'[v] = "none"
                     /\ \/ j = i /\ v = w /\ job'[j].goal = goal
                        \/ v # w /\ v \in job[j].waiters /\ job'[j].goal = job[j].goal
<1>1. /\ job \in [Options -> [goal : Goals \cup {"none"}, waiters : SUBSET Workers]]
      /\ answer \in [Workers -> {"none", "done", "bad"}]
      /\ spent \in [picks : Nat, clicks : Nat, faults : Nat, installs : Nat]
      /\ \A j \in Options : \A v \in job[j].waiters : answer[v] = "none"
      /\ \A j \in Options : job[j].goal = "none" => job[j].waiters = {}
  BY DEF TInv, TypeOK, WaitersOK, NobodyForgotten
<1>2. \A j \in Options : \A v \in job[j].waiters : v \in job[i].waiters => j = i
  BY OptionsFinite DEF TInv, TypeOK, WaitersOK
<1>3. CASE answer' = [answer EXCEPT ![w] = "bad"] /\ UNCHANGED <<job, spent>>
  BY <1>1, <1>3
<1>4. CASE /\ answer' = [answer EXCEPT ![w] = "bad"] /\ UNCHANGED job
           /\ IF ctxDone THEN UNCHANGED spent ELSE Spend("faults", MaxFaults)
  <2>1. /\ spent' \in [picks : Nat, clicks : Nat, faults : Nat, installs : Nat]
        /\ spent'.installs = spent.installs
    <3>1. CASE ctxDone
      BY <1>1, <1>4, <3>1
    <3>2. CASE ~ctxDone
      BY <1>1, <1>4, <3>2, SpendCounts DEF TInv
    <3> QED
      BY <3>1, <3>2
  <2> QED
    BY <1>1, <1>4, <2>1
<1>5. CASE /\ i \notin missing /\ job[i].goal \in {"none", goal}
           /\ \E others \in {job[i].waiters, {}} :
                job' = [job EXCEPT ![i] = [goal |-> goal, waiters |-> others \cup {w}]]
           /\ UNCHANGED <<answer, spent>>
  <2>1. PICK others \in {job[i].waiters, {}} :
             job' = [job EXCEPT ![i] = [goal |-> goal, waiters |-> others \cup {w}]]
    BY <1>5
  <2>2. others \subseteq job[i].waiters /\ others \subseteq Workers
    BY <1>1, <2>1
  <2>3. \A j \in Options \ {i} : job'[j] = job[j]
    BY <1>1, <2>1
  <2>4. job'[i] = [goal |-> goal, waiters |-> others \cup {w}]
    BY <1>1, <2>1
  <2>5. job' \in [Options -> [goal : Goals \cup {"none"}, waiters : SUBSET Workers]]
    BY <1>1, <2>1, <2>2
  <2>6. job[i].goal = "none" => others = {}
    BY <1>1, <2>2
  <2>7. goal # "none"
    BY DEF Goals
  <2> QED
    BY <1>1, <1>5, <2>2, <2>3, <2>4, <2>5, <2>6, <2>7
<1>6. CASE /\ i \notin missing /\ UNCHANGED spent
           /\ answer' = [v \in Workers |-> IF v \in job[i].waiters THEN "bad" ELSE answer[v]]
           /\ job' = [job EXCEPT ![i] = [goal |-> goal, waiters |-> {w}]]
  <2>1. \A j \in Options \ {i} : job'[j] = job[j]
    BY <1>1, <1>6
  <2>2. job'[i] = [goal |-> goal, waiters |-> {w}]
    BY <1>1, <1>6
  <2>3. job' \in [Options -> [goal : Goals \cup {"none"}, waiters : SUBSET Workers]]
    BY <1>1, <1>6
  <2>4. \A j \in Options : job'[j].goal = job[j].goal \/ (j = i /\ job'[j].goal = goal)
    BY <2>1, <2>2
  <2>5. \A j \in Options \ {i} : \A v \in job'[j].waiters :
            v \in Workers /\ v \notin job[i].waiters /\ answer'[v] = "none" /\ v # w
    BY <1>1, <1>2, <1>6, <2>1
  <2>6. answer'[w] = "none"
    BY <1>6
  <2>7. goal # "none"
    BY DEF Goals
  <2> QED
    BY <1>1, <1>6, <2>1, <2>2, <2>3, <2>4, <2>5, <2>6, <2>7
<1>7. CASE answer' = [answer EXCEPT ![w] = "bad"] /\ UNCHANGED job /\ UNCHANGED spent
  BY <1>1, <1>7
<1> QED
  BY <1>3, <1>4, <1>5, <1>6, <1>7 DEF Ask

-----------------------------------------------------------------------------
(* Type correctness *)

LEMMA InitTypes == Init => TInv
<1> SUFFICES ASSUME Init PROVE TInv
  OBVIOUS
<1>1. active \subseteq Options /\ missing \subseteq Options
  BY CommandsAssumption DEF Init
<1>2. NoCommand \in Orders
  BY DEF NoCommand, Orders
<1>3. TypeOK
  BY <1>1, <1>2 DEF Init, TypeOK, WaitersOK, NoJob, Workers
<1> QED
  BY <1>3 DEF Init, TInv, NobodyForgotten, NoJob, Workers

LEMMA TypesJobRemoved ==
    ASSUME TInv, NEW i \in Options, JobRemoved(i)
    PROVE  TInv'
<1>1. PICK result \in {"done", "bad"} :
           /\ answer' = [v \in Workers |-> IF v \in job[i].waiters THEN result ELSE answer[v]]
           /\ IF result = "done"
              THEN active' = (IF job[i].goal = "up" THEN active \cup {i} ELSE active \ {i})
                   /\ UNCHANGED spent
              ELSE Spend("faults", MaxFaults) /\ UNCHANGED active
  BY DEF JobRemoved
<1>2. /\ job' = [job EXCEPT ![i] = NoJob] /\ job[i].goal # "none"
      /\ UNCHANGED <<missing, on, notFound, box, selectBox, busy, select, picked, clicked>>
      /\ UNCHANGED <<switchedOn, misled, ctxDone>>
  BY DEF JobRemoved, seen, boxes, given
<1>3. /\ job \in [Options -> [goal : Goals \cup {"none"}, waiters : SUBSET Workers]]
      /\ answer \in [Workers -> {"none", "done", "bad"}]
      /\ job' \in [Options -> [goal : Goals \cup {"none"}, waiters : SUBSET Workers]]
  BY <1>2 DEF TInv, TypeOK, NoJob
<1>4. answer' \in [Workers -> {"none", "done", "bad"}] /\ active' \subseteq Options
  BY <1>1, <1>3 DEF TInv, TypeOK
<1>5. spent' \in [picks : Nat, clicks : Nat, faults : Nat, installs : Nat]
  BY <1>1, SpendCounts DEF TInv, TypeOK
<1>6. /\ job'[i] = NoJob /\ \A j \in Options \ {i} : job'[j] = job[j]
      /\ \A j \in Options \ {i} : \A v \in job[j].waiters :
             v \in Workers /\ v \notin job[i].waiters /\ answer[v] = "none"
  BY <1>2, <1>3, OptionsFinite DEF TInv, TypeOK, WaitersOK
<1>7. \A j \in Options : \A v \in job'[j].waiters :
          j # i /\ v \in job[j].waiters /\ answer'[v] = "none" /\ job'[j] = job[j]
  BY <1>1, <1>6 DEF NoJob
<1>8. WaitersOK'
  BY <1>2, <1>7 DEF TInv, TypeOK, WaitersOK
<1>9. TypeOK'
  BY <1>2, <1>3, <1>4, <1>5, <1>8 DEF TInv, TypeOK
<1>10. ASSUME select.pc \in {"idle", "next", "done"} PROVE answer'[0] = "none"
  <2>1. answer[0] = "none" /\ 0 \notin job[i].waiters
    BY <1>10, <1>2 DEF TInv, TypeOK, WaitersOK, NobodyForgotten, Goals
  <2> QED
    BY <1>1, <2>1 DEF Workers
<1> QED
  BY <1>2, <1>6, <1>9, <1>10 DEF TInv, NobodyForgotten, NoJob

LEMMA TypesGivesUp ==
    ASSUME TInv, NEW w \in Workers, GivesUp(w)
    PROVE  TInv'
<1>1. /\ Waits(w) /\ job' = [i \in Options |-> [job[i] EXCEPT !.waiters = @ \ {w}]]
      /\ answer' = [answer EXCEPT ![w] = "bad"]
      /\ IF ctxDone THEN UNCHANGED spent ELSE Spend("faults", MaxFaults)
      /\ UNCHANGED <<active, missing, on, notFound, box, selectBox, busy, select, picked>>
      /\ UNCHANGED <<clicked, switchedOn, misled, ctxDone>>
  BY DEF GivesUp, seen, boxes, given
<1>2. /\ job \in [Options -> [goal : Goals \cup {"none"}, waiters : SUBSET Workers]]
      /\ answer \in [Workers -> {"none", "done", "bad"}]
  BY DEF TInv, TypeOK
<1>3. \A j \in Options : job'[j] = [goal |-> job[j].goal, waiters |-> job[j].waiters \ {w}]
  BY <1>1, <1>2
<1>4. job' \in [Options -> [goal : Goals \cup {"none"}, waiters : SUBSET Workers]]
  <2>1. \A j \in Options :
            [job[j] EXCEPT !.waiters = @ \ {w}] \in [goal : Goals \cup {"none"}, waiters : SUBSET Workers]
    BY <1>2
  <2> QED
    BY <1>1, <2>1
<1>5. spent' \in [picks : Nat, clicks : Nat, faults : Nat, installs : Nat]
  BY <1>1, SpendCounts DEF TInv, TypeOK
<1>6. WaitersOK'
  BY <1>1, <1>2, <1>3 DEF TInv, TypeOK, WaitersOK
<1>7. TypeOK'
  BY <1>1, <1>2, <1>4, <1>5, <1>6 DEF TInv, TypeOK
<1>8. select.pc \in {"idle", "next", "done"} => answer'[0] = "none"
  BY <1>1, <1>2 DEF TInv, NobodyForgotten, Waits
<1> QED
  BY <1>1, <1>3, <1>7, <1>8 DEF TInv, NobodyForgotten

\* What happens outside: units installed, the loop's queries, commands, the end.
LEMMA TypesOutside ==
    ASSUME TInv,
           \/ Query \/ Cancel
           \/ \E i \in Options : Install(i) \/ Click(i)
           \/ \E choice \in Options \cup {0} : Pick(choice)
    PROVE  TInv'
<1>1. CASE Query
  BY <1>1 DEF Query, systemd, boxes, workers, given, TInv, TypeOK, WaitersOK, NobodyForgotten
<1>2. CASE Cancel
  BY <1>2 DEF Cancel, systemd, seen, boxes, workers, given, TInv, TypeOK, WaitersOK,
              NobodyForgotten
<1>3. ASSUME NEW i \in Options, Install(i) PROVE TInv'
  <2>1. spent' \in [picks : Nat, clicks : Nat, faults : Nat, installs : Nat]
    BY <1>3, SpendCounts DEF Install, TInv
  <2> QED
    BY <1>3, <2>1 DEF Install, seen, boxes, workers, TInv, TypeOK, WaitersOK, NobodyForgotten
<1>4. ASSUME NEW i \in Options, Click(i) PROVE TInv'
  <2>1. spent' \in [picks : Nat, clicks : Nat, faults : Nat, installs : Nat]
    BY <1>4, SpendCounts DEF Click, GiveCommand, TInv
  <2> QED
    BY <1>4, <2>1 DEF Click, systemd, seen, workers, TInv, TypeOK, WaitersOK, NobodyForgotten
<1>5. ASSUME NEW choice \in Options \cup {0}, Pick(choice) PROVE TInv'
  <2>1. spent' \in [picks : Nat, clicks : Nat, faults : Nat, installs : Nat]
    BY <1>5, SpendCounts DEF Pick, GiveCommand, TInv
  <2>2. selectBox' \in Orders
    BY <1>5 DEF Pick, Orders
  <2> QED
    BY <1>5, <2>1, <2>2 DEF Pick, systemd, seen, workers, TInv, TypeOK, WaitersOK,
                           NobodyForgotten, Workers
<1> QED
  BY <1>1, <1>2, <1>3, <1>4, <1>5

\* A switch's worker that waits for a command waits for no job.
LEMMA SwitchAsks ==
    ASSUME TInv, NEW i \in Options, SwitchTakes(i)
    PROVE  /\ i \in Workers /\ i # 0 /\ box[i] \in Goals /\ answer[i] = "none"
           /\ Ask(i, i, box[i]) /\ \A j \in Options : i \notin job[j].waiters
           /\ busy' = [busy EXCEPT ![i] = box[i]] /\ box' = [box EXCEPT ![i] = "none"]
           /\ UNCHANGED <<active, missing, on, notFound, selectBox, select, picked, clicked>>
           /\ UNCHANGED <<switchedOn, misled, ctxDone>>
<1>1. /\ busy[i] = "none" /\ box[i] # "none" /\ answer[i] = "none" /\ Ask(i, i, box[i])
      /\ busy' = [busy EXCEPT ![i] = box[i]] /\ box' = [box EXCEPT ![i] = "none"]
      /\ UNCHANGED <<active, missing, on, notFound, selectBox, select, picked, clicked>>
      /\ UNCHANGED <<switchedOn, misled, ctxDone>>
  BY DEF SwitchTakes, seen, given
<1>2. i # 0 /\ i \in Workers /\ box[i] \in Goals
  BY <1>1, OptionsFinite DEF Workers, TInv, TypeOK
<1>3. ASSUME NEW j \in Options, i \in job[j].waiters PROVE FALSE
  <2>1. busy[i] = job[j].goal
    BY <1>2, <1>3 DEF TInv, TypeOK, WaitersOK
  <2>2. job[j].goal # "none"
    BY <1>3 DEF TInv, NobodyForgotten
  <2> QED
    BY <1>1, <2>1, <2>2
<1> QED
  BY <1>1, <1>2, <1>3

LEMMA TypesSwitchTakes ==
    ASSUME TInv, NEW i \in Options, SwitchTakes(i)
    PROVE  TInv'
<1>1. /\ i \in Workers /\ i # 0 /\ box[i] \in Goals /\ answer[i] = "none"
      /\ Ask(i, i, box[i]) /\ \A j \in Options : i \notin job[j].waiters
      /\ busy' = [busy EXCEPT ![i] = box[i]] /\ box' = [box EXCEPT ![i] = "none"]
      /\ UNCHANGED <<active, missing, on, notFound, selectBox, select, picked, clicked>>
      /\ UNCHANGED <<switchedOn, misled, ctxDone>>
  BY SwitchAsks
<1> DEFINE goal == box[i]
<1> HIDE DEF goal
<1>2. goal \in Goals /\ Ask(i, i, goal) /\ goal = box[i]
  BY <1>1 DEF goal
<1>3. /\ job' \in [Options -> [goal : Goals \cup {"none"}, waiters : SUBSET Workers]]
      /\ answer' \in [Workers -> {"none", "done", "bad"}]
      /\ spent' \in [picks : Nat, clicks : Nat, faults : Nat, installs : Nat]
      /\ \A v \in Workers :
           answer'[v] = answer[v] \/ (answer'[v] = "bad" /\ v \in job[i].waiters \cup {i})
      /\ \A j \in Options :
           /\ job'[j].goal = "none" => job'[j].waiters = {}
           /\ \A v \in job'[j].waiters :
                /\ answer'[v] = "none"
                /\ \/ j = i /\ v = i /\ job'[j].goal = goal
                   \/ v # i /\ v \in job[j].waiters /\ job'[j].goal = job[j].goal
  BY <1>1, <1>2, AskDoes
<1>4. /\ busy' \in [Options -> Goals \cup {"none", "ended"}]
      /\ box' \in [Options -> Goals \cup {"none"}]
  BY <1>1 DEF TInv, TypeOK
<1>5. WaitersOK'
  <2> SUFFICES ASSUME NEW j \in Options, NEW v \in job'[j].waiters
               PROVE  /\ answer'[v] = "none"
                      /\ IF v = 0 THEN select'.unit = j
                            /\ select'.pc = (IF job'[j].goal = "up" THEN "start" ELSE "stop")
                         ELSE v = j /\ busy'[j] = job'[j].goal
    BY DEF WaitersOK
  <2>1. CASE j = i /\ v = i /\ job'[j].goal = goal
    BY <1>1, <1>2, <1>3, <2>1 DEF TInv, TypeOK
  <2>2. CASE v # i /\ v \in job[j].waiters /\ job'[j].goal = job[j].goal
    BY <1>1, <1>3, <2>2 DEF TInv, TypeOK, WaitersOK
  <2> QED
    BY <1>3, <2>1, <2>2
<1>6. TypeOK'
  BY <1>1, <1>3, <1>4, <1>5 DEF TInv, TypeOK
<1>7. select.pc \in {"idle", "next", "done"} => answer'[0] = "none"
  <2> SUFFICES ASSUME select.pc \in {"idle", "next", "done"} PROVE answer'[0] = "none"
    OBVIOUS
  <2>1. answer[0] = "none" /\ 0 \notin job[i].waiters
    BY DEF TInv, TypeOK, WaitersOK, NobodyForgotten
  <2> QED
    BY <1>1, <1>3, <2>1 DEF Workers
<1> QED
  BY <1>1, <1>3, <1>6, <1>7 DEF TInv, NobodyForgotten

\* The worker of the select asks for a job, to stop or to start a unit.
LEMMA TypesSelectAsks ==
    ASSUME TInv, NEW i \in Options, NEW goal \in Goals,
           select.pc = "next", Ask(0, i, goal),
           select' \in [pc : {"idle", "next", "stop", "start", "done"},
                        unit : Options \cup {0}, cmd : Orders, failed : BOOLEAN],
           select'.unit = i, select'.pc = (IF goal = "up" THEN "start" ELSE "stop"),
           UNCHANGED <<active, missing, seen, boxes, busy, given, ctxDone>>
    PROVE  /\ TInv' /\ answer[0] = "none" /\ answer'[0] # "done"
           /\ spent'.installs = spent.installs
           /\ \A j \in Options : \/ job'[j].goal = job[j].goal
                                 \/ j = i /\ job'[j].goal = goal /\ i \notin missing
<1>1. 0 \in Workers /\ answer[0] = "none" /\ \A j \in Options : 0 \notin job[j].waiters
  BY DEF Workers, TInv, TypeOK, WaitersOK, NobodyForgotten
<1>2. UNCHANGED <<active, missing, on, notFound, box, selectBox, busy, picked, clicked,
                  switchedOn, misled, ctxDone>>
  BY DEF seen, boxes, given
<1>3. /\ job' \in [Options -> [goal : Goals \cup {"none"}, waiters : SUBSET Workers]]
      /\ answer' \in [Workers -> {"none", "done", "bad"}]
      /\ spent' \in [picks : Nat, clicks : Nat, faults : Nat, installs : Nat]
      /\ spent'.installs = spent.installs
      /\ \A v \in Workers : answer'[v] = answer[v] \/ answer'[v] = "bad"
      /\ \A j \in Options :
           /\ \/ job'[j].goal = job[j].goal
              \/ j = i /\ job'[j].goal = goal /\ i \notin missing
           /\ job'[j].goal = "none" => job'[j].waiters = {}
           /\ \A v \in job'[j].waiters :
                /\ answer'[v] = "none"
                /\ \/ j = i /\ v = 0 /\ job'[j].goal = goal
                   \/ v # 0 /\ v \in job[j].waiters /\ job'[j].goal = job[j].goal
  BY <1>1, AskDoes
<1>4. WaitersOK'
  <2> SUFFICES ASSUME NEW j \in Options, NEW v \in job'[j].waiters
               PROVE  /\ answer'[v] = "none"
                      /\ IF v = 0 THEN select'.unit = j
                            /\ select'.pc = (IF job'[j].goal = "up" THEN "start" ELSE "stop")
                         ELSE v = j /\ busy'[j] = job'[j].goal
    BY DEF WaitersOK
  <2>1. CASE j = i /\ v = 0 /\ job'[j].goal = goal
    BY <1>3, <2>1
  <2>2. CASE v # 0 /\ v \in job[j].waiters /\ job'[j].goal = job[j].goal
    BY <1>2, <1>3, <2>2 DEF TInv, TypeOK, WaitersOK
  <2> QED
    BY <1>3, <2>1, <2>2
<1>5. TypeOK'
  BY <1>2, <1>3, <1>4 DEF TInv, TypeOK
<1>6. select'.pc \notin {"idle", "next", "done"} /\ answer'[0] # "done"
  BY <1>1, <1>3
<1> QED
  BY <1>1, <1>3, <1>5, <1>6 DEF TInv, NobodyForgotten

\* The stop the select's worker asks for is one of its command's.
LEMMA StopIsOrdered ==
    ASSUME TInv, SelectStops
    PROVE  \E i \in select.cmd.stops :
             /\ i \in Options /\ select.pc = "next" /\ ~ctxDone
             /\ select' = [select EXCEPT !.pc = "stop", !.unit = i, !.cmd.stops = @ \ {i}]
             /\ Ask(0, i, "down")
             /\ UNCHANGED <<active, missing, seen, boxes, busy, given, ctxDone>>
<1> DEFINE i == Min(select.cmd.stops)
<1>1. select.cmd.stops \subseteq Options /\ select.cmd.stops # {}
  BY DEF SelectStops, TInv, TypeOK, Orders
<1>2. i \in select.cmd.stops
  BY <1>1, OptionsFinite, MinIsMember
<1>3. /\ select.pc = "next" /\ ~ctxDone
      /\ select' = [select EXCEPT !.pc = "stop", !.unit = i, !.cmd.stops = @ \ {i}]
      /\ Ask(0, i, "down")
      /\ UNCHANGED <<active, missing, seen, boxes, busy, given, ctxDone>>
  BY DEF SelectStops
<1> HIDE DEF i
<1> QED
  BY <1>1, <1>2, <1>3

LEMMA TypesSelectStops ==
    ASSUME TInv, SelectStops
    PROVE  TInv'
<1>1. PICK i \in select.cmd.stops :
             /\ i \in Options /\ select.pc = "next"
             /\ select' = [select EXCEPT !.pc = "stop", !.unit = i, !.cmd.stops = @ \ {i}]
             /\ Ask(0, i, "down")
             /\ UNCHANGED <<active, missing, seen, boxes, busy, given, ctxDone>>
  BY StopIsOrdered
<1>2. select' \in [pc : {"idle", "next", "stop", "start", "done"},
                   unit : Options \cup {0}, cmd : Orders, failed : BOOLEAN]
  BY <1>1 DEF TInv, TypeOK, Orders
<1>3. select'.unit = i /\ select'.pc = "stop" /\ "down" \in Goals
  BY <1>1 DEF TInv, TypeOK, Goals
<1> QED
  BY <1>1, <1>2, <1>3, TypesSelectAsks

LEMMA TypesSelectStarts ==
    ASSUME TInv, SelectStarts
    PROVE  TInv'
<1>1. select.cmd.start \in Options /\ select.pc = "next" /\ "up" \in Goals
  BY DEF SelectStarts, TInv, TypeOK, Orders, Goals
<1>2. /\ select' = [select EXCEPT !.pc = "start", !.unit = select.cmd.start]
      /\ Ask(0, select.cmd.start, "up")
      /\ UNCHANGED <<active, missing, seen, boxes, busy, given, ctxDone>>
  BY DEF SelectStarts
<1>3. select' \in [pc : {"idle", "next", "stop", "start", "done"},
                   unit : Options \cup {0}, cmd : Orders, failed : BOOLEAN]
  BY <1>1, <1>2 DEF TInv, TypeOK
<1>4. select'.unit = select.cmd.start /\ select'.pc = "start"
  BY <1>2 DEF TInv, TypeOK
<1> QED
  BY <1>1, <1>2, <1>3, <1>4, TypesSelectAsks

\* The steps of the workers that ask for nothing.
LEMMA TypesWorkers ==
    ASSUME TInv,
           \/ SelectTakes \/ SelectStopped \/ SelectDone \/ SelectEnds
           \/ \E i \in Options : SwitchDone(i) \/ SwitchEnds(i)
    PROVE  TInv'
<1>0. NoCommand \in Orders /\ 0 \in Workers /\ Options \subseteq Workers
  BY DEF NoCommand, Orders, Workers
<1>1. CASE SelectTakes
  <2>1. \A i \in Options : 0 \notin job[i].waiters
    BY <1>1 DEF SelectTakes, TInv, TypeOK, WaitersOK
  <2>2. /\ select' \in [pc : {"idle", "next", "stop", "start", "done"},
                          unit : Options \cup {0}, cmd : Orders, failed : BOOLEAN]
        /\ select.pc = "idle" /\ select'.pc = "next"
    BY <1>1 DEF SelectTakes, TInv, TypeOK
  <2> QED
    BY <1>0, <1>1, <2>1, <2>2 DEF SelectTakes, systemd, seen, given, TInv, TypeOK, WaitersOK,
              NobodyForgotten
<1>2. CASE SelectStopped
  <2>1. \A i \in Options : 0 \notin job[i].waiters
    BY <1>2 DEF SelectStopped, TInv, TypeOK, WaitersOK
  <2>2. select' \in [pc : {"idle", "next", "stop", "start", "done"},
                       unit : Options \cup {0}, cmd : Orders, failed : BOOLEAN]
    BY <1>2 DEF SelectStopped, TInv, TypeOK
  <2> QED
    BY <1>0, <1>2, <2>1, <2>2 DEF SelectStopped, systemd, seen, boxes, given, TInv, TypeOK,
              WaitersOK, NobodyForgotten
<1>3. CASE SelectDone
  <2>1. \A i \in Options : 0 \notin job[i].waiters
    BY <1>3 DEF SelectDone, TInv, TypeOK, WaitersOK
  <2> QED
    BY <1>0, <1>3, <2>1 DEF SelectDone, systemd, seen, boxes, given, TInv, TypeOK, WaitersOK,
              NobodyForgotten
<1>4. CASE SelectEnds
  BY <1>0, <1>4 DEF SelectEnds, systemd, seen, boxes, given, TInv, TypeOK, WaitersOK,
              NobodyForgotten
<1>5. ASSUME NEW i \in Options, SwitchDone(i) PROVE TInv'
  <2>1. \A j \in Options : i \notin job[j].waiters
    BY <1>0, <1>5, OptionsFinite DEF SwitchDone, TInv, TypeOK, WaitersOK
  <2> QED
    BY <1>0, <1>5, <2>1, OptionsFinite DEF SwitchDone, systemd, seen, boxes, given, TInv, TypeOK,
              WaitersOK, NobodyForgotten
<1>6. ASSUME NEW i \in Options, SwitchEnds(i) PROVE TInv'
  BY <1>0, <1>6 DEF SwitchEnds, systemd, seen, boxes, given, TInv, TypeOK, WaitersOK,
              NobodyForgotten
<1> QED
  BY <1>1, <1>2, <1>3, <1>4, <1>5, <1>6

LEMMA StepTypes ==
    ASSUME TInv, [Next]_vars
    PROVE  TInv'
<1>1. CASE UNCHANGED vars
  BY <1>1 DEF vars, systemd, seen, boxes, workers, given, TInv, TypeOK, WaitersOK, NobodyForgotten
<1>2. ASSUME NEW i \in Options, JobRemoved(i) \/ Switch(i) PROVE TInv'
  BY <1>2, TypesJobRemoved, TypesSwitchTakes, TypesGivesUp, TypesWorkers DEF Switch, Workers
<1>3. CASE Select
  BY <1>3, TypesSelectStops, TypesSelectStarts, TypesGivesUp, TypesWorkers DEF Select, Workers
<1> QED
  BY <1>1, <1>2, <1>3, TypesOutside DEF Next

\* Every variable keeps its type, and the result of a job reaches whoever waits for it and
\* nobody else: a waiter has no result yet and is the worker that asked for just that
\* (Conn.job in conn.go).
THEOREM TypeCorrect == Spec => []TypeOK
<1>1. Init => TInv
  BY InitTypes
<1>2. TInv /\ [Next]_vars => TInv'
  BY StepTypes
<1>3. TInv => TypeOK
  BY DEF TInv
<1> QED
  BY <1>1, <1>2, <1>3, PTL DEF Spec

-----------------------------------------------------------------------------
(* One instance at most *)

LEMMA InitExclusive == Init => EInv
<1> SUFFICES ASSUME Init PROVE EInv
  OBVIOUS
<1>1. /\ TInv /\ active \in SUBSET (Options \ MissingAtStart) /\ Cardinality(active) <= 1
      /\ missing = MissingAtStart /\ notFound = {} /\ selectBox = NoCommand
      /\ job = [i \in Options |-> NoJob] /\ box = [i \in Options |-> "none"]
      /\ select.pc = "idle"
  BY InitTypes DEF Init
<1>2. \A i \in Options : job[i].goal # "up"
  BY <1>1 DEF NoJob
<1>3. MissingRest
  BY <1>1, <1>2, CommandsAssumption DEF MissingRest, Rests
<1>4. IsFiniteSet(active)
  BY <1>1, OptionsFinite, FS_Subset
<1>5. \A i, j \in active : i = j
  BY <1>1, <1>4, NoTwo
<1>6. OneAtMost
  BY <1>2, <1>5 DEF OneAtMost, Rests, Others
<1>7. OrderSound /\ Cleared /\ SwitchesTold
  BY <1>1 DEF OrderSound, Cleared, SwitchesTold, NoCommand
<1> QED
  BY <1>1, <1>3, <1>6, <1>7 DEF EInv, Exclusive

\* What rested rests on, and nobody is told that a stop is done that was not.
LEMMA Quietly ==
    ASSUME EInv, TInv', UNCHANGED <<missing, notFound, selectBox, switchedOn, select>>,
           \A i \in Options : box'[i] \in {box[i], "none"},
           \A i \in Options : i \in missing \/ i \in Others => (Rests(i) => Rests(i)'),
           spent'.installs = spent.installs,
           \/ answer'[0] \in {answer[0], "none", "bad"}
           \/ select.pc = "stop" => Rests(select.unit)'
    PROVE  EInv'
<1>1. missing \subseteq Options /\ Others \subseteq Options /\ Others' = Others
  BY DEF EInv, TInv, TypeOK, Others
<1>2. MissingRest'
  BY <1>1 DEF EInv, MissingRest
<1>3. SwitchesTold'
  BY DEF EInv, SwitchesTold
<1>4. ASSUME spent.installs = 0
      PROVE  notFound' \subseteq missing' /\ OrderSound' /\ Cleared' /\ OneAtMost'
  <2>1. notFound \subseteq missing /\ OrderSound /\ Cleared /\ OneAtMost
    BY <1>4 DEF EInv, Exclusive
  <2>2. OrderSound'
    BY <1>1, <2>1 DEF OrderSound
  <2>3. OneAtMost'
    BY <1>1, <2>1 DEF OneAtMost
  <2>4. Cleared'
    BY <1>1, <2>1 DEF Cleared
  <2> QED
    BY <2>1, <2>2, <2>3, <2>4
<1> QED
  BY <1>2, <1>3, <1>4 DEF EInv, Exclusive

LEMMA ExclusiveJobRemoved ==
    ASSUME EInv, TInv', NEW i \in Options, JobRemoved(i)
    PROVE  EInv'
<1>1. PICK result \in {"done", "bad"} :
           /\ answer' = [v \in Workers |-> IF v \in job[i].waiters THEN result ELSE answer[v]]
           /\ IF result = "done"
              THEN active' = (IF job[i].goal = "up" THEN active \cup {i} ELSE active \ {i})
                   /\ UNCHANGED spent
              ELSE Spend("faults", MaxFaults) /\ UNCHANGED active
  BY DEF JobRemoved
<1>2. /\ job' = [job EXCEPT ![i] = NoJob]
      /\ UNCHANGED <<missing, notFound, box, selectBox, select, switchedOn>>
  BY DEF JobRemoved, seen, boxes, given
<1>3. \A j \in Options : job'[j].goal = IF j = i THEN "none" ELSE job[j].goal
  BY <1>2 DEF EInv, TInv, TypeOK, NoJob
<1>4. spent'.installs = spent.installs
  <2>1. CASE result = "done"
    BY <1>1, <2>1
  <2>2. CASE result # "done"
    <3>1. Spend("faults", MaxFaults)
      BY <1>1, <2>2
    <3> QED
      BY <3>1, SpendCounts DEF EInv, TInv, TypeOK
  <2> QED
    BY <2>1, <2>2
<1>5. \A j \in Options : Rests(j) => Rests(j)'
  BY <1>1, <1>3 DEF Rests
<1>6. ASSUME answer'[0] \notin {answer[0], "none", "bad"}, select.pc = "stop"
      PROVE  Rests(select.unit)'
  <2>1. result = "done" /\ 0 \in job[i].waiters
    BY <1>1, <1>6 DEF Workers
  <2>2. select.unit = i /\ job[i].goal # "up"
    BY <1>6, <2>1 DEF EInv, TInv, TypeOK, WaitersOK
  <2>3. active' = active \ {i}
    BY <1>1, <2>1, <2>2
  <2>4. select'.unit = i /\ job'[i].goal = "none"
    BY <1>2, <1>3, <2>2
  <2> QED
    BY <2>3, <2>4 DEF Rests
<1> QED
  BY <1>2, <1>4, <1>5, <1>6, Quietly

LEMMA ExclusiveGivesUp ==
    ASSUME EInv, TInv', NEW w \in Workers, GivesUp(w)
    PROVE  EInv'
<1>1. /\ job' = [i \in Options |-> [job[i] EXCEPT !.waiters = @ \ {w}]]
      /\ answer' = [answer EXCEPT ![w] = "bad"]
      /\ IF ctxDone THEN UNCHANGED spent ELSE Spend("faults", MaxFaults)
      /\ UNCHANGED <<active, missing, notFound, box, selectBox, select, switchedOn>>
  BY DEF GivesUp, seen, boxes, given
<1>2. \A j \in Options : job'[j].goal = job[j].goal
  BY <1>1 DEF EInv, TInv, TypeOK
<1>3. \A j \in Options : Rests(j) => Rests(j)'
  BY <1>1, <1>2 DEF Rests
<1>4. spent'.installs = spent.installs
  <2>1. CASE ctxDone
    BY <1>1, <2>1
  <2>2. CASE ~ctxDone
    BY <1>1, <2>2, SpendCounts DEF EInv, TInv, TypeOK
  <2> QED
    BY <2>1, <2>2
<1>5. answer'[0] \in {answer[0], "none", "bad"}
  BY <1>1 DEF EInv, TInv, TypeOK, Workers
<1> QED
  BY <1>1, <1>3, <1>4, <1>5, Quietly

LEMMA ExclusiveSwitchTakes ==
    ASSUME EInv, TInv', NEW i \in Options, SwitchTakes(i)
    PROVE  EInv'
<1>1. /\ i \in Workers /\ i # 0 /\ box[i] \in Goals /\ answer[i] = "none"
      /\ Ask(i, i, box[i]) /\ \A j \in Options : i \notin job[j].waiters
      /\ box' = [box EXCEPT ![i] = "none"]
      /\ UNCHANGED <<active, missing, notFound, selectBox, select, switchedOn>>
  BY SwitchAsks DEF EInv
<1> DEFINE goal == box[i]
<1> HIDE DEF goal
<1>2. goal \in Goals /\ Ask(i, i, goal) /\ goal = box[i]
  BY <1>1 DEF goal
<1>3. /\ spent'.installs = spent.installs
      /\ \A v \in Workers : answer'[v] \in {answer[v], "bad"}
      /\ \A j \in Options : \/ job'[j].goal = job[j].goal
                            \/ j = i /\ job'[j].goal = goal /\ i \notin missing
  BY <1>1, <1>2, AskDoes DEF EInv
<1>4. goal = "up" => i \in switchedOn
  BY <1>2 DEF EInv, SwitchesTold
<1>5. \A j \in Options : j \in missing \/ j \in Others => (Rests(j) => Rests(j)')
  BY <1>1, <1>3, <1>4 DEF Rests, Others
<1>6. \A j \in Options : box'[j] \in {box[j], "none"}
  BY <1>1 DEF EInv, TInv, TypeOK
<1>7. answer'[0] \in {answer[0], "none", "bad"}
  BY <1>3 DEF Workers
<1> QED
  BY <1>1, <1>3, <1>5, <1>6, <1>7, Quietly

\* A command is decided on what the last query saw: what it leaves out is not there.
LEMMA ExclusiveOutside ==
    ASSUME EInv, TInv',
           \/ Query \/ Cancel
           \/ \E i \in Options : Install(i) \/ Click(i)
           \/ \E choice \in Options \cup {0} : Pick(choice)
    PROVE  EInv'
<1>1. CASE Query
  BY <1>1 DEF Query, systemd, boxes, workers, given, EInv, MissingRest, SwitchesTold, Exclusive,
              OrderSound, Cleared, OneAtMost, Rests, Others
<1>2. CASE Cancel
  BY <1>2 DEF Cancel, systemd, seen, boxes, workers, given, EInv, MissingRest, SwitchesTold,
              Exclusive, OrderSound, Cleared, OneAtMost, Rests, Others
<1>3. ASSUME NEW i \in Options, Install(i) PROVE EInv'
  <2>1. spent'.installs = spent.installs + 1
    BY <1>3, SpendCounts DEF Install, EInv, TInv
  <2>2. spent'.installs # 0
    BY <2>1 DEF EInv, TInv, TypeOK
  <2> QED
    BY <1>3, <2>2 DEF Install, boxes, EInv, MissingRest, SwitchesTold, Exclusive, Rests
<1>4. ASSUME NEW i \in Options, Click(i) PROVE EInv'
  <2>1. PICK goal \in Goals : /\ box' = [box EXCEPT ![i] = goal]
                             /\ switchedOn' = switchedOn \cup {j \in {i} : goal = "up"}
    BY <1>4 DEF Click
  <2>2. UNCHANGED <<active, missing, job, notFound, selectBox, select, answer>>
    BY <1>4 DEF Click, systemd, seen, workers
  <2>3. spent'.installs = spent.installs
    BY <1>4, SpendCounts DEF Click, GiveCommand, EInv, TInv, TypeOK
  <2>4. SwitchesTold'
    BY <2>1 DEF EInv, TInv, TypeOK, SwitchesTold
  <2>5. Others' \subseteq Others
    BY <2>1 DEF Others
  <2>6. MissingRest'
    BY <2>2 DEF EInv, MissingRest, Rests
  <2> QED
    BY <2>2, <2>3, <2>4, <2>5, <2>6 DEF EInv, Exclusive, OrderSound, Cleared, OneAtMost, Rests
<1>5. ASSUME NEW choice \in Options \cup {0}, Pick(choice) PROVE EInv'
  <2>1. /\ selectBox' = [start |-> choice, stops |-> Options \ (notFound \cup {choice}),
                         given |-> TRUE]
        /\ UNCHANGED <<active, missing, job, notFound, box, select, answer, switchedOn>>
    BY <1>5 DEF Pick, systemd, seen, workers
  <2>2. spent'.installs = spent.installs
    BY <1>5, SpendCounts DEF Pick, GiveCommand, EInv, TInv, TypeOK
  <2>3. spent.installs = 0 => OrderSound'
    BY <2>1 DEF EInv, Exclusive, OrderSound, Others
  <2> QED
    BY <2>1, <2>2, <2>3 DEF EInv, MissingRest, SwitchesTold, Exclusive, Cleared, OneAtMost,
                            Rests, Others
<1> QED
  BY <1>1, <1>2, <1>3, <1>4, <1>5

\* The worker of the select takes a command; the next stop; its result; the start.
LEMMA ExclusiveSelectTakes ==
    ASSUME EInv, TInv', SelectTakes
    PROVE  EInv'
<1>1. /\ selectBox.given /\ selectBox' = NoCommand
      /\ select' = [select EXCEPT !.pc = "next", !.cmd = selectBox, !.failed = FALSE]
      /\ UNCHANGED <<active, missing, job, notFound, box, answer, switchedOn, spent>>
  BY DEF SelectTakes, systemd, seen, given
<1>2. select'.pc = "next" /\ select'.cmd = selectBox
  BY <1>1 DEF EInv, TInv, TypeOK
<1>3. OrderSound'
  BY <1>1 DEF OrderSound, NoCommand
<1>4. OrderSound => Cleared'
  BY <1>1, <1>2 DEF EInv, MissingRest, OrderSound, Cleared, Rests, Others
<1> QED
  BY <1>1, <1>3, <1>4 DEF EInv, MissingRest, SwitchesTold, Exclusive, OneAtMost, Rests, Others

LEMMA ExclusiveSelectStops ==
    ASSUME EInv, SelectStops
    PROVE  EInv'
<1>1. PICK i \in select.cmd.stops :
             /\ i \in Options /\ select.pc = "next"
             /\ select' = [select EXCEPT !.pc = "stop", !.unit = i, !.cmd.stops = @ \ {i}]
             /\ Ask(0, i, "down")
             /\ UNCHANGED <<active, missing, seen, boxes, busy, given, ctxDone>>
  BY StopIsOrdered DEF EInv
<1>2. select' \in [pc : {"idle", "next", "stop", "start", "done"},
                   unit : Options \cup {0}, cmd : Orders, failed : BOOLEAN]
  BY <1>1 DEF EInv, TInv, TypeOK, Orders
<1>3. /\ select'.unit = i /\ select'.pc = "stop" /\ select'.failed = select.failed
      /\ select'.cmd.stops = select.cmd.stops \ {i} /\ select'.cmd.start = select.cmd.start
      /\ "down" \in Goals /\ "down" # "up"
  BY <1>1 DEF EInv, TInv, TypeOK, Goals, Orders
<1>4. /\ TInv' /\ answer'[0] # "done" /\ spent'.installs = spent.installs
      /\ \A j \in Options : job'[j].goal = job[j].goal \/ job'[j].goal = "down"
  BY <1>1, <1>2, <1>3, TypesSelectAsks DEF EInv
<1>5. UNCHANGED <<active, missing, notFound, box, selectBox, switchedOn>>
  BY <1>1 DEF seen, boxes, given
<1>6. \A j \in Options : Rests(j) => Rests(j)'
  BY <1>4, <1>5 DEF Rests
<1>7. missing \subseteq Options /\ Others \subseteq Options /\ Others' = Others
  BY <1>5 DEF EInv, TInv, TypeOK, Others
<1>8. MissingRest' /\ SwitchesTold'
  BY <1>5, <1>6, <1>7 DEF EInv, MissingRest, SwitchesTold
<1>9. Cleared => Cleared'
  BY <1>1, <1>3, <1>4, <1>6, <1>7 DEF Cleared
<1>10. OneAtMost => OneAtMost'
  BY <1>6, <1>7 DEF OneAtMost
<1>11. OrderSound => OrderSound'
  BY <1>5, <1>7 DEF OrderSound
<1> QED
  BY <1>4, <1>5, <1>8, <1>9, <1>10, <1>11 DEF EInv, Exclusive

LEMMA ExclusiveSelectStopped ==
    ASSUME EInv, TInv', SelectStopped
    PROVE  EInv'
<1>1. /\ select.pc = "stop" /\ answer[0] # "none"
      /\ select' = [select EXCEPT !.pc = "next", !.unit = 0, !.failed = @ \/ answer[0] = "bad"]
      /\ UNCHANGED <<active, missing, job, notFound, box, selectBox, switchedOn, spent>>
  BY DEF SelectStopped, systemd, seen, boxes, given
<1>2. select'.pc = "next" /\ select'.cmd = select.cmd
  BY <1>1 DEF EInv, TInv, TypeOK
<1>3. ASSUME ~select'.failed PROVE ~select.failed /\ answer[0] = "done"
  <2>1. select'.failed = (select.failed \/ answer[0] = "bad")
    BY <1>1 DEF EInv, TInv, TypeOK
  <2>2. answer[0] \in {"none", "done", "bad"}
    BY DEF EInv, TInv, TypeOK, Workers
  <2>3. ~select.failed /\ answer[0] # "bad"
    BY <1>3, <2>1, Zenon
  <2> QED
    BY <1>1, <2>2, <2>3
<1>4. Cleared => Cleared'
  BY <1>1, <1>2, <1>3 DEF Cleared, Rests, Others
<1> QED
  BY <1>1, <1>4 DEF EInv, MissingRest, SwitchesTold, Exclusive, OrderSound, OneAtMost, Rests,
                    Others

LEMMA ExclusiveSelectStarts ==
    ASSUME EInv, SelectStarts
    PROVE  EInv'
<1>0. PICK i : i = select.cmd.start
  OBVIOUS
<1>1. i \in Options /\ select.pc = "next" /\ select.cmd.stops = {} /\ ~select.failed
  BY <1>0 DEF SelectStarts, EInv, TInv, TypeOK, Orders
<1>2. /\ select' = [select EXCEPT !.pc = "start", !.unit = i] /\ Ask(0, i, "up")
      /\ UNCHANGED <<active, missing, seen, boxes, busy, given, ctxDone>>
  BY <1>0 DEF SelectStarts
<1>3. select' \in [pc : {"idle", "next", "stop", "start", "done"},
                   unit : Options \cup {0}, cmd : Orders, failed : BOOLEAN]
  BY <1>1, <1>2 DEF EInv, TInv, TypeOK
<1>4. select'.unit = i /\ select'.pc = "start" /\ "up" \in Goals
  BY <1>2 DEF EInv, TInv, TypeOK, Goals
<1>5. /\ TInv' /\ spent'.installs = spent.installs
      /\ \A j \in Options : \/ job'[j].goal = job[j].goal
                            \/ j = i /\ i \notin missing
  BY <1>1, <1>2, <1>3, <1>4, TypesSelectAsks DEF EInv
<1>6. UNCHANGED <<active, missing, notFound, box, selectBox, switchedOn>>
  BY <1>2 DEF seen, boxes, given
<1>7. /\ \A j \in Options \ {i} : Rests(j) => Rests(j)'
      /\ i \in missing => (Rests(i) => Rests(i)')
  BY <1>1, <1>5, <1>6 DEF Rests
<1>8. missing \subseteq Options /\ Others \subseteq Options /\ Others' = Others
  BY <1>6 DEF EInv, TInv, TypeOK, Others
<1>9. MissingRest' /\ SwitchesTold'
  BY <1>6, <1>7, <1>8 DEF EInv, MissingRest, SwitchesTold
<1>10. ASSUME Cleared PROVE OneAtMost'
  <2>1. \A j \in Others : j = i \/ Rests(j)
    BY <1>0, <1>1, <1>10 DEF Cleared
  <2> QED
    BY <1>7, <1>8, <2>1 DEF OneAtMost
<1>11. OrderSound => OrderSound'
  BY <1>6, <1>8 DEF OrderSound
<1>12. Cleared'
  BY <1>4 DEF Cleared
<1> QED
  BY <1>5, <1>6, <1>9, <1>10, <1>11, <1>12 DEF EInv, Exclusive

\* The steps that touch neither units nor commands, or end one.
LEMMA ExclusiveWorkers ==
    ASSUME EInv, TInv',
           \/ SelectDone \/ SelectEnds \/ UNCHANGED vars
           \/ \E i \in Options : SwitchDone(i) \/ SwitchEnds(i)
    PROVE  EInv'
<1>1. CASE SelectDone
  BY <1>1 DEF SelectDone, systemd, seen, boxes, given, EInv, MissingRest, SwitchesTold,
              Exclusive, OrderSound, Cleared, OneAtMost, Rests, Others
<1>2. CASE SelectEnds
  <2>1. select'.pc = "done"
    BY <1>2 DEF SelectEnds, EInv, TInv, TypeOK
  <2> QED
    BY <1>2, <2>1 DEF SelectEnds, systemd, seen, boxes, given, EInv, MissingRest, SwitchesTold,
              Exclusive, OrderSound, Cleared, OneAtMost, Rests, Others
<1>3. CASE UNCHANGED vars
  BY <1>3 DEF vars, systemd, seen, boxes, workers, given, EInv, MissingRest, SwitchesTold,
              Exclusive, OrderSound, Cleared, OneAtMost, Rests, Others
<1>4. ASSUME NEW i \in Options, SwitchDone(i) \/ SwitchEnds(i) PROVE EInv'
  <2>1. UNCHANGED <<active, missing, job, notFound, box, selectBox, select, switchedOn, spent>>
    BY <1>4 DEF SwitchDone, SwitchEnds, systemd, seen, boxes, given
  <2>2. answer'[0] \in {answer[0], "none", "bad"}
    BY <1>4 DEF SwitchDone, SwitchEnds, EInv, TInv, TypeOK, Workers
  <2>3. \A j \in Options : Rests(j) => Rests(j)'
    BY <2>1 DEF Rests
  <2> QED
    BY <2>1, <2>2, <2>3, Quietly
<1> QED
  BY <1>1, <1>2, <1>3, <1>4

LEMMA StepExclusive ==
    ASSUME EInv, [Next]_vars
    PROVE  EInv'
<1>1. TInv'
  BY StepTypes DEF EInv
<1>2. ASSUME NEW i \in Options, JobRemoved(i) \/ Switch(i) PROVE EInv'
  BY <1>1, <1>2, ExclusiveJobRemoved, ExclusiveSwitchTakes, ExclusiveGivesUp, ExclusiveWorkers
     DEF Switch, Workers
<1>3. CASE Select
  BY <1>1, <1>3, ExclusiveSelectTakes, ExclusiveSelectStops, ExclusiveSelectStopped,
     ExclusiveSelectStarts, ExclusiveWorkers, ExclusiveGivesUp DEF Select, Workers
<1> QED
  BY <1>1, <1>2, <1>3, ExclusiveOutside, ExclusiveWorkers DEF Next

\* However commands, failures, timeouts and the end of the daemon fall, the select never
\* brings up a second instance, as long as no unit that was missing appears meanwhile
\* (templateWorker.runTemplate and dispatchTemplate in commands.go, Conn.job in conn.go).
THEOREM NeverTwoInstances == Spec => [](spent.installs = 0 => AtMostOneInstance)
<1>1. Init => EInv
  BY InitExclusive
<1>2. EInv /\ [Next]_vars => EInv'
  BY StepExclusive
<1>3. EInv => (spent.installs = 0 => AtMostOneInstance)
  <2> SUFFICES ASSUME EInv, spent.installs = 0 PROVE AtMostOneInstance
    OBVIOUS
  <2> DEFINE up == (active \cup {i \in Options : job[i].goal = "up"}) \ switchedOn
  <2>1. \A i \in up : i \in Others /\ ~Rests(i)
    BY DEF EInv, TInv, TypeOK, Others, Rests
  <2>2. \A i, j \in up : i = j
    BY <2>1 DEF EInv, Exclusive, OneAtMost
  <2> HIDE DEF up
  <2>3. Cardinality(up) <= 1
    BY <2>2, AtMostOne
  <2> QED
    BY <2>3 DEF AtMostOneInstance, up
<1> QED
  BY <1>1, <1>2, <1>3, PTL DEF Spec

=============================================================================
