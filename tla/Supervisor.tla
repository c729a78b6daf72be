----------------------------- MODULE Supervisor -----------------------------
(***************************************************************************)
(* One systemd.Supervisor (internal/systemd/supervisor.go): the goroutine  *)
(* Run that dials a manager, waits until it is told to redial, closes the  *)
(* manager and dials again, and the method Query by which the event loop   *)
(* both reads the units and finds out that a manager died.                 *)
(*                                                                         *)
(* A manager is named by the generation in which it was dialled: the code  *)
(* bumps s.gen in the same critical section that stores the manager in     *)
(* s.cur, so manager and generation number determine each other.  cur = 0  *)
(* stands for the nil manager.  A step of the model is a critical section  *)
(* of s.mu, one channel operation, or one call into D-Bus.                 *)
(*                                                                         *)
(* Durations are left out: a backoff ends at some time, a poll comes at    *)
(* some time.  Wake forwarding is part of module EventLoop.                *)
(***************************************************************************)
EXTENDS Naturals, Sequences, FiniteSets

CONSTANTS
    MaxFaults,      \* bound: failures of dials, managers and queries in a behaviour
    StateBuf        \* capacity of stateCh (4 in the code)

ASSUME BoundsAssumption == MaxFaults \in Nat /\ StateBuf \in Nat \ {0}

VARIABLES
    cur, online, failures, gen,     \* the fields guarded by s.mu
    redial,                         \* a token waits in the cap-1 channel s.redial
    stateCh,                        \* s.stateCh, oldest announcement first
    runPc,                          \* where Run stands
    conn,                           \* Run's local m: the manager it dialled last
    query,                          \* the Query call of the event loop
    open,                           \* managers whose connection is open
    hung, gone,                     \* managers that stopped answering / left the bus
    ctxDone,                        \* the daemon's context is cancelled
    faults,                         \* failures injected so far
    heard,                          \* history: last announcement the reader took
    struck,                         \* history: managers whose latest answer was an error
    condemned                       \* history: managers that answered with a closed
                                    \*   connection, or with two errors in a row

locked  == <<cur, online, failures, gen>>
health  == <<open, hung, gone>>
history == <<struck, condemned>>
vars == <<locked, redial, stateCh, runPc, conn, query, health, ctxDone, faults,
          heard, history>>

Results == {"ok", "fail", "disconnect"}
RunPcs  == {"dial", "backoff", "dialed", "up", "serve", "drop", "down",
            "closing", "done"}

NumbersOK ==
    /\ cur \in Nat /\ gen \in Nat /\ conn \in Nat /\ faults \in Nat
    /\ failures \in {0, 1}
    /\ runPc \in RunPcs
    /\ open \subseteq Nat /\ hung \subseteq Nat /\ gone \subseteq Nat
    /\ struck \subseteq Nat /\ condemned \subseteq Nat

FlagsOK ==
    online \in BOOLEAN /\ redial \in BOOLEAN /\ ctxDone \in BOOLEAN /\ heard \in BOOLEAN

ChannelOK == stateCh \in Seq(BOOLEAN) /\ Len(stateCh) <= StateBuf

QueryOK == query \in [pc : {"idle", "asking", "answered"}, gen : Nat, err : Results]

TypeOK == NumbersOK /\ FlagsOK /\ ChannelOK /\ QueryOK

Init ==
    /\ cur = 0 /\ online = FALSE /\ failures = 0 /\ gen = 0
    /\ redial = FALSE
    /\ stateCh = <<>> /\ heard = FALSE
    /\ runPc = "dial" /\ conn = 0
    /\ query = [pc |-> "idle", gen |-> 0, err |-> "ok"]
    /\ open = {} /\ hung = {} /\ gone = {}
    /\ ctxDone = FALSE /\ faults = 0
    /\ struck = {} /\ condemned = {}

-----------------------------------------------------------------------------
(* Run *)

GotoRun(from, to) == runPc = from /\ runPc' = to

\* The dial succeeds.  It may do so even when the context was just cancelled.
DialSucceeds ==
    /\ GotoRun("dial", "dialed")
    /\ conn' = gen + 1
    /\ open' = open \cup {gen + 1}
    /\ UNCHANGED <<locked, redial, stateCh, query, hung, gone, ctxDone, faults,
                   heard, history>>

\* The dial fails while the daemon is to stay up: warn and back off.
DialFails ==
    /\ ~ctxDone /\ faults < MaxFaults
    /\ GotoRun("dial", "backoff")
    /\ faults' = faults + 1
    /\ UNCHANGED <<locked, redial, stateCh, conn, query, health, ctxDone, heard,
                   history>>

BackoffElapses ==
    /\ GotoRun("backoff", "dial")
    /\ UNCHANGED <<locked, redial, stateCh, conn, query, health, ctxDone, faults,
                   heard, history>>

\* The dial returns an error because of the cancelled context, or the wait is
\* interrupted by it: Run returns.
RunCancelled ==
    /\ ctxDone
    /\ runPc \in {"dial", "backoff"} /\ runPc' = "done"
    /\ UNCHANGED <<locked, redial, stateCh, conn, query, health, ctxDone, faults,
                   heard, history>>

\* A faulty form of GoOnline: a token queued for the previous manager survives.
GoOnlineKeepingToken ==
    /\ GotoRun("dialed", "up")
    /\ cur' = conn /\ online' = TRUE /\ failures' = 0 /\ gen' = gen + 1
    /\ UNCHANGED <<redial, stateCh, conn, query, health, ctxDone, faults, heard,
                   history>>

\* A form of GoOnline that lets a new manager inherit the failure count.
GoOnlineKeepingFailures ==
    /\ GotoRun("dialed", "up")
    /\ cur' = conn /\ online' = TRUE /\ gen' = gen + 1
    /\ redial' = FALSE
    /\ UNCHANGED <<failures, stateCh, conn, query, health, ctxDone, faults, heard,
                   history>>

\* The critical section after a successful dial; the receive that drains a
\* stale redial token is part of it.
GoOnline ==
    /\ GotoRun("dialed", "up")
    /\ cur' = conn /\ online' = TRUE /\ failures' = 0 /\ gen' = gen + 1
    /\ redial' = FALSE
    /\ UNCHANGED <<stateCh, conn, query, health, ctxDone, faults, heard, history>>

\* A faulty form of Notify: the buffer grows with its load.
NotifyUnbounded(state) == stateCh' = Append(stateCh, state)

\* notify: a non-blocking send, dropped when the buffer is full.
Notify(state) ==
    stateCh' = IF Len(stateCh) < StateBuf THEN Append(stateCh, state) ELSE stateCh

AnnounceUp ==
    /\ GotoRun("up", "serve")
    /\ Notify(TRUE)
    /\ UNCHANGED <<locked, redial, conn, query, health, ctxDone, faults, heard,
                   history>>

\* A faulty form of TakeDone: only a serving manager that is asked for stops.
TakeDoneWithToken ==
    /\ GotoRun("serve", "drop")
    /\ ctxDone /\ redial
    /\ UNCHANGED <<locked, redial, stateCh, conn, query, health, ctxDone, faults,
                   heard, history>>

\* The select at the heart of Run: the redial token ...
TakeRedial ==
    /\ GotoRun("serve", "drop")
    /\ redial /\ redial' = FALSE
    /\ UNCHANGED <<locked, stateCh, conn, query, health, ctxDone, faults, heard,
                   history>>

\* ... or the end of the daemon.
TakeDone ==
    /\ GotoRun("serve", "drop")
    /\ ctxDone
    /\ UNCHANGED <<locked, redial, stateCh, conn, query, health, ctxDone, faults,
                   heard, history>>

GoOffline ==
    /\ GotoRun("drop", "down")
    /\ cur' = 0 /\ online' = FALSE
    /\ UNCHANGED <<failures, gen, redial, stateCh, conn, query, health, ctxDone,
                   faults, heard, history>>

AnnounceDown ==
    /\ GotoRun("down", "closing")
    /\ Notify(FALSE)
    /\ UNCHANGED <<locked, redial, conn, query, health, ctxDone, faults, heard,
                   history>>

\* A faulty form of CloseManager: a cancelled context returns before m.Close.
CloseManagerUnlessCancelled ==
    /\ GotoRun("closing", IF ctxDone THEN "done" ELSE "dial")
    /\ open' = IF ctxDone THEN open ELSE open \ {conn}
    /\ UNCHANGED <<locked, redial, stateCh, conn, query, hung, gone, ctxDone,
                   faults, heard, history>>

\* m.Close, then the check of the context that decides between another round
\* and the return of Run.
CloseManager ==
    /\ GotoRun("closing", IF ctxDone THEN "done" ELSE "dial")
    /\ open' = open \ {conn}
    /\ UNCHANGED <<locked, redial, stateCh, conn, query, hung, gone, ctxDone,
                   faults, heard, history>>

Run ==
    \/ DialSucceeds \/ DialFails \/ BackoffElapses \/ RunCancelled
    \/ GoOnline \/ AnnounceUp \/ TakeRedial \/ TakeDone
    \/ GoOffline \/ AnnounceDown \/ CloseManager

-----------------------------------------------------------------------------
(* Query *)

\* The first critical section of Query.  With no manager the call returns
\* ErrOffline and changes nothing, which needs no action.
QueryBegin ==
    /\ query.pc = "idle" /\ cur # 0
    /\ query' = [query EXCEPT !.pc = "asking", !.gen = gen]
    /\ UNCHANGED <<locked, redial, stateCh, runPc, conn, health, ctxDone, faults,
                   heard, history>>

\* What m.Query may return.  A manager that left the bus, or whose connection
\* Run closed, answers with an error that IsDisconnectErr may or may not
\* recognise; one that hangs runs into the query timeout; a healthy one answers,
\* or fails once in a while, as it does once the context of the call is cancelled.
Answers(m) ==
    IF m \notin open \/ m \in gone THEN {"fail", "disconnect"}
    ELSE IF m \in hung THEN {"fail"}
    ELSE {"ok"} \cup (IF faults < MaxFaults \/ ctxDone THEN {"fail"} ELSE {})

Healthy(m) == m \in open /\ m \notin gone \cup hung

QueryAnswer(r) ==
    /\ query.pc = "asking" /\ r \in Answers(query.gen)
    /\ query' = [query EXCEPT !.pc = "answered", !.err = r]
    /\ faults' = IF r # "ok" /\ Healthy(query.gen) /\ ~ctxDone
                 THEN faults + 1 ELSE faults
    /\ struck' = IF r = "ok" THEN struck \ {query.gen} ELSE struck \cup {query.gen}
    /\ condemned' =
         IF r = "disconnect" \/ (r = "fail" /\ query.gen \in struck)
         THEN condemned \cup {query.gen} ELSE condemned
    /\ UNCHANGED <<locked, redial, stateCh, runPc, conn, health, ctxDone, heard>>

\* How Query judges an answer of the current generation.
Judge(err, enough) ==
    \/ /\ err = "ok"
       /\ failures' = 0 /\ UNCHANGED redial
    \/ /\ err # "ok" /\ (err = "disconnect" \/ failures + 1 >= enough)
       /\ failures' = 0 /\ redial' = TRUE
    \/ /\ err = "fail" /\ failures + 1 < enough
       /\ failures' = failures + 1 /\ UNCHANGED redial

\* Faulty forms of QueryEnd: the answer of a replaced manager counts too, and
\* only a closed connection counts.
QueryEndAnyGen ==
    /\ query.pc = "answered"
    /\ query' = [query EXCEPT !.pc = "idle"]
    /\ Judge(query.err, 2)
    /\ UNCHANGED <<cur, online, gen, stateCh, runPc, conn, health, ctxDone, faults,
                   heard, history>>

QueryEndDisconnectOnly ==
    /\ query.pc = "answered"
    /\ query' = [query EXCEPT !.pc = "idle"]
    /\ IF query.gen = gen /\ query.err # "fail"
       THEN Judge(query.err, 2) ELSE UNCHANGED <<failures, redial>>
    /\ UNCHANGED <<cur, online, gen, stateCh, runPc, conn, health, ctxDone, faults,
                   heard, history>>

\* The second critical section of Query: the answer of a replaced manager is
\* handed back without being counted.
QueryEnd ==
    /\ query.pc = "answered"
    /\ query' = [query EXCEPT !.pc = "idle"]
    /\ IF query.gen = gen THEN Judge(query.err, 2) ELSE UNCHANGED <<failures, redial>>
    /\ UNCHANGED <<cur, online, gen, stateCh, runPc, conn, health, ctxDone, faults,
                   heard, history>>

Query == QueryBegin \/ (\E r \in Results : QueryAnswer(r)) \/ QueryEnd

-----------------------------------------------------------------------------
(* The surroundings: the D-Bus peer, the daemon's end, the reader of stateCh *)

\* The manager stops answering, or leaves the bus.  Nothing tells the supervisor.
ManagerHangs(m) ==
    /\ Healthy(m) /\ faults < MaxFaults
    /\ hung' = hung \cup {m} /\ faults' = faults + 1
    /\ UNCHANGED <<locked, redial, stateCh, runPc, conn, query, open, gone, ctxDone,
                   heard, history>>

ManagerLeaves(m) ==
    /\ Healthy(m) /\ faults < MaxFaults
    /\ gone' = gone \cup {m} /\ faults' = faults + 1
    /\ UNCHANGED <<locked, redial, stateCh, runPc, conn, query, open, hung, ctxDone,
                   heard, history>>

Cancel ==
    /\ ~ctxDone /\ ctxDone' = TRUE
    /\ UNCHANGED <<locked, redial, stateCh, runPc, conn, query, health, faults,
                   heard, history>>

ReadState ==
    /\ stateCh # <<>>
    /\ heard' = Head(stateCh) /\ stateCh' = Tail(stateCh)
    /\ UNCHANGED <<locked, redial, runPc, conn, query, health, ctxDone, faults,
                   history>>

Environment ==
    \/ \E m \in open : ManagerHangs(m) \/ ManagerLeaves(m)
    \/ Cancel
    \/ ReadState

Next == Run \/ Query \/ Environment

Spec == Init /\ [][Next]_vars

\* Run is a goroutine of its own, and every wait of it ends; the poll ticker
\* calls Query again and again, and each call ends by its timeout.
FairSpec == Spec /\ WF_vars(Run) /\ WF_vars(Query)

-----------------------------------------------------------------------------
(* What a supervisor promises *)

\* A manager is torn down only on evidence against that very manager: one answer
\* that showed a closed connection or two failing answers in a row, all of them its
\* own.  Neither a token left over from its predecessor nor the failures of an
\* earlier generation, nor the late answer of a closed manager, may cost it its
\* connection (supervisor.go:17-19, 105 and 187).
RedialDeserved ==
    [][runPc = "serve" /\ runPc' = "drop" /\ ~ctxDone => gen \in condemned]_vars

\* At no time are two connections open, the one that is open is the one Run
\* holds, a manager that Manager() hands out is open, and when Run has returned
\* nothing is left open (supervisor.go:123-133; app.go:380 relies on it).
OneConnection ==
    /\ open = IF runPc \in {"dial", "backoff", "done"} THEN {} ELSE {conn}
    /\ cur # 0 => cur \in open
    /\ online <=> cur # 0

\* However managers hang, leave or refuse a dial, after the last such failure the
\* supervisor ends up with a healthy manager online and stays there, unless the
\* daemon ends first (supervisor.go:79-80).
BusRecovers == <>[](ctxDone \/ (online /\ Healthy(cur)))

\* When the daemon ends, Run comes back whatever it was doing, and closes what it
\* opened, a manager included whose dial succeeded after the cancellation.
CancelClosesAll == ctxDone ~> [](runPc = "done" /\ open = {} /\ ~online)

\* The comment on StateChanges: a reader that is slow "only loses intermediate
\* flaps, never the final state" (supervisor.go:56-58).  Whenever Run is between
\* two announcements, what the reader has or will read last is the state.
FinalStateKept ==
    runPc \in {"dial", "backoff", "serve", "done"} =>
        (IF stateCh = <<>> THEN heard ELSE stateCh[Len(stateCh)]) = online

-----------------------------------------------------------------------------
(* The inductive invariant behind the promises *)

Serving == {"up", "serve", "drop"}

\* Where Run stands determines the manager it published and the generation.
Phases ==
    /\ OneConnection
    /\ cur = IF runPc \in Serving THEN gen ELSE 0
    /\ conn = IF runPc = "dialed" THEN gen + 1 ELSE gen
    /\ runPc \in Serving \cup {"down", "closing"} => gen # 0

\* A call in flight belongs to the present generation or an earlier one, and what
\* it found out is on record.
Answered ==
    /\ query.pc # "idle" => query.gen \in 1..gen
    /\ query.pc = "answered" =>
         /\ query.err = "disconnect" => query.gen \in condemned
         /\ query.err = "fail" => query.gen \in struck
         /\ query.err = "fail" /\ failures = 1 /\ query.gen = gen
              => query.gen \in condemned

\* The failure counted belongs to the present generation, except while the answer
\* that is about to change the count is still under way.
Counted ==
    failures = 1 => gen \in struck \/ (query.pc = "answered" /\ query.gen = gen)

\* A token that Run may still take, and the decision it came to, rest on evidence
\* against the present generation.
Convicted ==
    /\ redial /\ runPc \in {"up", "serve"} => gen \in condemned
    /\ runPc = "drop" => gen \in condemned \/ ctxDone

IInv == TypeOK /\ Phases /\ Answered /\ Counted /\ Convicted

\* The supervisor implements the session it promises.
Session == INSTANCE BusSession
             WITH up <- online, serial <- gen, evidence <- condemned, ending <- ctxDone
ImplementsSession == Session!Spec

=============================================================================
