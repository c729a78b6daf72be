------------------------------- MODULE Display -------------------------------
(***************************************************************************)
(* The display: the runner that keeps a controller to Mutter, the          *)
(* controller's pump and its channel of changes, the goroutines that read  *)
(* and write the mode for the loop, and the loop's picture of it.          *)
(* (internal/app/app.go and commands.go, internal/display/mutter.go)       *)
(*                                                                         *)
(* There is one controller at a time, since the runner closes one and      *)
(* waits for its pump before it dials the next; a goroutine that still     *)
(* holds an earlier one is not `fresh' and all its calls fail.  Mutter     *)
(* answers, has left the bus, or hangs.                                    *)
(***************************************************************************)
EXTENDS Naturals, Sequences, FiniteSets

CONSTANTS
    QueueCap,       \* capacity of the loop's queue of events
    ChangesCap,     \* capacity of Controller.changes
    SigCap,         \* bound: signals on their way to the pump
    MaxHelpers,     \* bound: goroutines that read or write at once
    StartModes,     \* modes Mutter may be in at first
    MaxTrouble,     \* bound: commands, changes of mode that are not the daemon's, dials that
                    \*   fail, connections and shells that die, signals lost
    MayEnd          \* bound: whether the daemon may end

Known   == {"on", "off"}
Modes   == Known \cup {"unknown"}

ASSUME DisplayAssumption ==
    /\ {QueueCap, ChangesCap, SigCap, MaxHelpers} \subseteq Nat \ {0}
    /\ StartModes \subseteq Modes /\ MaxTrouble \in Nat /\ MayEnd \in BOOLEAN

VARIABLES
    mode, shell,            \* Mutter: the mode, and whether it answers
    conn, sig, changes, errs, \* the controller: connection, signals, Changes, Errors
    pump,                   \* its pump: where it is, and the mode it is about to push
    runner,                 \* where runDisplay is, and why it gave its controller up
    disp,                   \* whether App.disp is set
    helper,                 \* the goroutines of refreshDisplay and displayCommand
    events,                 \* the loop's queue, the display's events only
    dispOnline, dispMode,   \* the loop's picture
    loop, ctxDone,
    kept,                   \* history: the mode pushed last is in the channel or was taken
    trouble                 \* commands, moves, faults and losses so far

mutter  == <<mode, shell>>
channels == <<changes, kept>>
controller == <<conn, sig, errs, pump, channels>>
picture == <<dispOnline, dispMode>>
life    == <<loop, ctxDone>>
vars == <<mutter, controller, runner, disp, helper, events, picture, life, trouble>>

Failed  == "fail"
Helpers == 1 .. MaxHelpers
Idle    == [pc |-> "idle", goal |-> "none", got |-> "none", fresh |-> FALSE]

TypeOK ==
    /\ mode \in Modes /\ shell \in {"up", "gone", "hung"}
    /\ conn \in {"open", "dead", "closed"} /\ errs \in BOOLEAN
    /\ sig \in Seq(Modes \cup {"invalidated"}) /\ Len(sig) <= SigCap
    /\ changes \in Seq(Modes) /\ Len(changes) <= ChangesCap
    /\ pump \in [pc : {"range", "get", "send", "drain", "done"}, got : Modes \cup {"none"}]
    /\ runner \in [pc : {"dial", "get", "serve", "drop", "close", "join", "wait", "done"},
                   why : {"none", "read", "lost", "end"}]
    /\ helper \in [Helpers -> [pc : {"idle", "check", "write", "reread", "send", "drain",
                                     "read", "answer"},
                               goal : Known \cup {"none"},
                               got : Modes \cup {"none", Failed}, fresh : BOOLEAN]]
    /\ events \in Seq(Modes \cup {Failed}) /\ Len(events) <= QueueCap
    /\ dispOnline \in BOOLEAN /\ dispMode \in Modes
    /\ loop \in {"run", "join", "done"} /\ {disp, ctxDone, kept} \subseteq BOOLEAN

Init ==
    /\ mode \in StartModes /\ shell = "up"
    /\ conn = "closed" /\ sig = <<>> /\ errs = FALSE
    /\ changes = <<>> /\ kept = TRUE
    /\ pump = [pc |-> "done", got |-> "none"]
    /\ runner = [pc |-> "dial", why |-> "none"] /\ disp = FALSE
    /\ helper = [h \in Helpers |-> Idle]
    /\ events = <<>> /\ dispOnline = FALSE /\ dispMode = "unknown"
    /\ loop = "run" /\ ctxDone = FALSE
    /\ trouble = 0

Trouble == trouble < MaxTrouble /\ trouble' = trouble + 1

\* A faulty form of Enqueue: a queue without a bound.
EnqueueAlways(e) == events' = Append(events, e)

\* App.enqueue drops what does not fit.
Enqueue(e) == events' = IF Len(events) < QueueCap THEN Append(events, e) ELSE events

-----------------------------------------------------------------------------
(* Mutter and the session bus *)

\* What Get comes to for a caller of the present controller (fresh) or an earlier one:
\* an error also when the caller's context times out.
Read(fresh) == IF fresh /\ conn = "open" /\ shell = "up" THEN mode ELSE Failed

\* With the daemon's context done a call may fail whatever Mutter does.
Reads(fresh) == {Read(fresh)} \cup (IF ctxDone THEN {Failed} ELSE {})

\* PropertiesChanged, with the value or as an invalidation; or the signal is lost.
Signalled(m) ==
    IF conn # "open" \/ Len(sig) = SigCap THEN UNCHANGED <<sig, trouble>>
    ELSE \/ \E s \in {m, "invalidated"} : sig' = Append(sig, s) /\ UNCHANGED trouble
         \/ Trouble /\ UNCHANGED sig

\* Somebody else changes the mode, or an output comes or goes.
Move ==
    /\ shell = "up" /\ Trouble
    /\ \E m \in Modes \ {mode} :
         /\ mode' = m
         /\ sig' \in IF conn = "open" /\ Len(sig) < SigCap
                     THEN {Append(sig, m), Append(sig, "invalidated")} ELSE {sig}
    /\ UNCHANGED <<shell, conn, errs, pump, channels, runner, disp, helper, events, picture, life>>

\* The shell crashes or hangs; it comes back in some mode and says nothing.
ShellFails ==
    /\ shell = "up" /\ shell' \in {"gone", "hung"} /\ Trouble
    /\ UNCHANGED <<mode, controller, runner, disp, helper, events, picture, life>>

ShellReturns ==
    /\ shell # "up" /\ shell' = "up" /\ mode' \in Modes
    /\ UNCHANGED <<controller, runner, disp, helper, events, picture, life, trouble>>

\* The session bus drops the connection: godbus closes the channel of the signals.
ConnectionDies ==
    /\ conn = "open" /\ conn' = "dead" /\ Trouble
    /\ UNCHANGED <<mutter, sig, errs, pump, channels, runner, disp, helper, events, picture, life>>

-----------------------------------------------------------------------------
(* Controller.push, by the pump or by a Set *)

\* First select: send m, and return, if there is room.
Sends(m) == /\ Len(changes) < ChangesCap
            /\ changes' = Append(changes, m) /\ kept' = TRUE

\* Second select: drop the oldest, if there is one, and try again.
Drains == /\ changes' = IF changes = <<>> THEN <<>> ELSE Tail(changes)
          /\ kept' = (kept /\ Len(changes) # 1)

-----------------------------------------------------------------------------
(* Controller.pump *)

PumpReceives ==
    /\ pump.pc = "range" /\ sig # <<>> /\ sig' = Tail(sig)
    /\ pump' = IF Head(sig) = "invalidated" THEN [pump EXCEPT !.pc = "get"]
               ELSE [pc |-> "send", got |-> Head(sig)]
    /\ UNCHANGED <<mutter, conn, errs, channels, runner, disp, helper, events, picture, life, trouble>>

\* The pump's own Get has no timeout: with Mutter hanging it waits for Close.
PumpReads ==
    /\ pump.pc = "get" /\ ~(shell = "hung" /\ conn = "open")
    /\ pump' = IF Read(TRUE) = Failed THEN [pc |-> "range", got |-> "none"]
               ELSE [pc |-> "send", got |-> Read(TRUE)]
    /\ UNCHANGED <<mutter, conn, sig, errs, channels, runner, disp, helper, events, picture, life, trouble>>

\* A faulty form of PumpPushes: what does not fit is given up.
PumpPushesOrNot ==
    /\ pump.pc \in {"send", "drain"}
    /\ IF Len(changes) = ChangesCap THEN UNCHANGED changes /\ kept' = FALSE
                                    ELSE Sends(pump.got)
    /\ pump' = [pc |-> "range", got |-> "none"]
    /\ UNCHANGED <<mutter, conn, sig, errs, runner, disp, helper, events, picture, life, trouble>>

PumpPushes ==
    /\ \/ pump.pc = "send" /\ Sends(pump.got) /\ pump' = [pc |-> "range", got |-> "none"]
       \/ /\ pump.pc = "send" /\ Len(changes) = ChangesCap
          /\ pump' = [pump EXCEPT !.pc = "drain"] /\ UNCHANGED channels
       \/ pump.pc = "drain" /\ Drains /\ pump' = [pump EXCEPT !.pc = "send"]
    /\ UNCHANGED <<mutter, conn, sig, errs, runner, disp, helper, events, picture, life, trouble>>

\* The channel is closed and empty: an error unless Close did it (errs holds one).
PumpEnds ==
    /\ pump.pc = "range" /\ sig = <<>> /\ conn # "open"
    /\ pump' = [pc |-> "done", got |-> "none"] /\ errs' = (errs \/ conn = "dead")
    /\ UNCHANGED <<mutter, conn, sig, channels, runner, disp, helper, events, picture, life, trouble>>

Pump == PumpReceives \/ PumpReads \/ PumpPushes \/ PumpEnds

-----------------------------------------------------------------------------
(* App.runDisplay *)

\* The dial succeeds: a new controller, its pump started, and App.disp set.
Dial ==
    /\ runner.pc = "dial" /\ runner' = [pc |-> "get", why |-> "none"] /\ disp' = TRUE
    /\ conn' = "open" /\ sig' = <<>> /\ errs' = FALSE /\ pump' = [pc |-> "range", got |-> "none"]
    /\ changes' = <<>> /\ kept' = TRUE
    /\ helper' = [h \in Helpers |-> [helper[h] EXCEPT !.fresh = FALSE]]
    /\ UNCHANGED <<mutter, events, picture, life, trouble>>

DialFails ==
    /\ runner.pc = "dial"
    /\ \/ ctxDone /\ runner' = [pc |-> "done", why |-> "none"] /\ UNCHANGED <<events, trouble>>
       \/ ~ctxDone /\ runner' = [pc |-> "wait", why |-> "none"] /\ Enqueue(Failed)
          /\ Trouble
    /\ UNCHANGED <<mutter, controller, disp, helper, picture, life>>

\* The first read.
FirstRead ==
    /\ runner.pc = "get"
    /\ \E v \in Reads(TRUE) :
         IF v = Failed
         THEN runner' = [pc |-> "close", why |-> "read"] /\ disp' = FALSE /\ UNCHANGED events
         ELSE runner' = [pc |-> "serve", why |-> "none"] /\ Enqueue(v) /\ UNCHANGED disp
    /\ UNCHANGED <<mutter, controller, helper, picture, life, trouble>>

TakeChange ==
    /\ runner.pc = "serve" /\ changes # <<>>
    /\ changes' = Tail(changes) /\ Enqueue(Head(changes))
    /\ UNCHANGED <<mutter, conn, sig, errs, pump, kept, runner, disp, helper, picture, life, trouble>>

\* The loop may learn of the error while App.disp is still set.
TakeError ==
    /\ runner.pc = "serve" /\ errs /\ errs' = FALSE
    /\ runner' = [pc |-> "drop", why |-> "lost"] /\ Enqueue(Failed)
    /\ UNCHANGED <<mutter, conn, sig, pump, channels, disp, helper, picture, life, trouble>>

\* A faulty form of Drop: the pointer is left behind.
DropKeepingPointer ==
    /\ runner.pc = "drop" /\ runner' = [runner EXCEPT !.pc = "close"]
    /\ UNCHANGED <<mutter, controller, disp, helper, events, picture, life, trouble>>

Drop ==
    /\ runner.pc = "drop" /\ runner' = [runner EXCEPT !.pc = "close"] /\ disp' = FALSE
    /\ UNCHANGED <<mutter, controller, helper, events, picture, life, trouble>>

\* A faulty form of ServeEnds: it returns without closing the controller.
ServeEndsAtOnce ==
    /\ runner.pc = "serve" /\ ctxDone
    /\ runner' = [pc |-> "done", why |-> "end"] /\ disp' = FALSE
    /\ UNCHANGED <<mutter, controller, helper, events, picture, life, trouble>>

ServeEnds ==
    /\ runner.pc = "serve" /\ ctxDone
    /\ runner' = [pc |-> "close", why |-> "end"] /\ disp' = FALSE
    /\ UNCHANGED <<mutter, controller, helper, events, picture, life, trouble>>

\* A faulty form of Close: it waits for the pump before it closes the connection.
CloseWaitingFirst ==
    /\ runner.pc = "close" /\ pump.pc = "done" /\ conn' = "closed"
    /\ runner' = [runner EXCEPT !.pc = "join"]
    /\ UNCHANGED <<mutter, sig, errs, pump, channels, disp, helper, events, picture, life, trouble>>

\* Controller.Close closes the connection, and with it the channel of the signals ...
Close ==
    /\ runner.pc = "close" /\ conn' = "closed"
    /\ runner' = [runner EXCEPT !.pc = "join"]
    /\ UNCHANGED <<mutter, sig, errs, pump, channels, disp, helper, events, picture, life, trouble>>

\* ... and waits for the pump.  A failed first read is told to the loop afterwards.
Closed ==
    /\ runner.pc = "join" /\ pump.pc = "done"
    /\ IF runner.why = "end" \/ (runner.why = "read" /\ ctxDone)
       THEN runner' = [pc |-> "done", why |-> "none"] /\ UNCHANGED events
       ELSE /\ runner' = [pc |-> "wait", why |-> "none"]
            /\ IF runner.why = "read" THEN Enqueue(Failed) ELSE UNCHANGED events
    /\ UNCHANGED <<mutter, controller, disp, helper, picture, life, trouble>>

\* The backoff, or the end of the daemon.
Waited ==
    /\ runner.pc = "wait"
    /\ runner' \in {[pc |-> "dial", why |-> "none"]}
                   \cup (IF ctxDone THEN {[pc |-> "done", why |-> "none"]} ELSE {})
    /\ UNCHANGED <<mutter, controller, disp, helper, events, picture, life, trouble>>

Runner == Dial \/ DialFails \/ FirstRead \/ TakeChange \/ TakeError \/ Drop \/ ServeEnds
          \/ Close \/ Closed \/ Waited

-----------------------------------------------------------------------------
(* The goroutines of refreshDisplay and displayCommand *)

\* Set reads the mode first, refuses when it is unknown, and is done when it is right.
Checks(h) ==
    /\ helper[h].pc = "check"
    /\ \E v \in Reads(helper[h].fresh) :
         helper' = IF v \in {Failed, "unknown", helper[h].goal}
                   THEN [helper EXCEPT ![h].pc = "read", ![h].goal = "none"]
                   ELSE [helper EXCEPT ![h].pc = "write"]
    /\ UNCHANGED <<mutter, controller, runner, disp, events, picture, life, trouble>>

\* Mutter takes the mode and signals it, or the call fails.
Writes(h) ==
    /\ helper[h].pc = "write"
    /\ \E v \in Reads(helper[h].fresh) :
         IF v = Failed
         THEN /\ helper' = [helper EXCEPT ![h].pc = "read", ![h].goal = "none"]
              /\ UNCHANGED <<mode, sig, trouble>>
         ELSE /\ helper' = [helper EXCEPT ![h].pc = "reread", ![h].goal = "none"]
              /\ mode' = helper[h].goal
              /\ IF mode = mode' THEN UNCHANGED <<sig, trouble>> ELSE Signalled(mode')
    /\ UNCHANGED <<shell, conn, errs, pump, channels, runner, disp, events, picture, life>>

Rereads(h) ==
    /\ helper[h].pc = "reread"
    /\ \E v \in Reads(helper[h].fresh) :
         helper' = [helper EXCEPT ![h].pc = IF v = Failed THEN "read" ELSE "send",
                                  ![h].got = IF v = Failed THEN "none" ELSE v]
    /\ UNCHANGED <<mutter, controller, runner, disp, events, picture, life, trouble>>

\* Set's push; into the channel of an earlier controller it concerns nobody.
Pushes(h) ==
    /\ \/ /\ helper[h].pc \in {"send", "drain"} /\ ~helper[h].fresh
          /\ helper' = [helper EXCEPT ![h].pc = "read", ![h].got = "none"]
          /\ UNCHANGED channels
       \/ /\ helper[h].pc = "send" /\ helper[h].fresh /\ Sends(helper[h].got)
          /\ helper' = [helper EXCEPT ![h].pc = "read", ![h].got = "none"]
       \/ /\ helper[h].pc = "send" /\ helper[h].fresh /\ Len(changes) = ChangesCap
          /\ helper' = [helper EXCEPT ![h].pc = "drain"] /\ UNCHANGED channels
       \/ /\ helper[h].pc = "drain" /\ helper[h].fresh /\ Drains
          /\ helper' = [helper EXCEPT ![h].pc = "send"]
    /\ UNCHANGED <<mutter, conn, sig, errs, pump, runner, disp, events, picture, life, trouble>>

\* The read whose outcome the loop is told.
ReadsBack(h) ==
    /\ helper[h].pc = "read"
    /\ \E v \in Reads(helper[h].fresh) :
         helper' = [helper EXCEPT ![h].pc = "answer", ![h].got = v]
    /\ UNCHANGED <<mutter, controller, runner, disp, events, picture, life, trouble>>

Answers(h) ==
    /\ helper[h].pc = "answer" /\ Enqueue(helper[h].got)
    /\ helper' = [helper EXCEPT ![h] = Idle]
    /\ UNCHANGED <<mutter, controller, runner, disp, picture, life, trouble>>

Helper(h) == Checks(h) \/ Writes(h) \/ Rereads(h) \/ Pushes(h) \/ ReadsBack(h) \/ Answers(h)

-----------------------------------------------------------------------------
(* The loop *)

\* A faulty form of Handle: a mode that is known already is not applied.
HandleNewModesOnly ==
    /\ loop = "run" /\ events # <<>> /\ events' = Tail(events)
    /\ IF Head(events) = Failed THEN dispOnline' = FALSE /\ UNCHANGED dispMode
       ELSE IF Head(events) = dispMode THEN UNCHANGED picture
       ELSE dispOnline' = TRUE /\ dispMode' = Head(events)
    /\ UNCHANGED <<mutter, controller, runner, disp, helper, life, trouble>>

\* evDisplayMode and evDisplayError.
Handle ==
    /\ loop = "run" /\ events # <<>> /\ events' = Tail(events)
    /\ IF Head(events) = Failed THEN dispOnline' = FALSE /\ UNCHANGED dispMode
       ELSE dispOnline' = TRUE /\ dispMode' = Head(events)
    /\ UNCHANGED <<mutter, controller, runner, disp, helper, life, trouble>>

\* A goroutine is started with the controller that App.disp holds.
Start(pc, goal) ==
    /\ disp
    /\ \E h \in Helpers :
         /\ helper[h] = Idle /\ \A g \in 1 .. h - 1 : helper[g] # Idle
         /\ helper' = [helper EXCEPT ![h] = [pc |-> pc, goal |-> goal, got |-> "none",
                                            fresh |-> TRUE]]

\* refreshDisplay, at every tick of the poll ticker and every republish.
Refresh ==
    /\ loop = "run" /\ Start("read", "none")
    /\ UNCHANGED <<mutter, controller, runner, disp, events, picture, life, trouble>>

\* displayCommand; without a controller the command is ignored.
Command(goal) ==
    /\ loop = "run" /\ Trouble /\ Start("check", goal)
    /\ UNCHANGED <<mutter, controller, runner, disp, events, picture, life>>

Cancel ==
    /\ MayEnd /\ ~ctxDone /\ ctxDone' = TRUE
    /\ UNCHANGED <<mutter, controller, runner, disp, helper, events, picture, loop, trouble>>

\* The loop leaves for shutdown, which waits for the runner and for nobody else here.
LoopEnds ==
    /\ ctxDone
    /\ \/ loop = "run" /\ loop' = "join"
       \/ loop = "join" /\ runner.pc = "done" /\ loop' = "done"
    /\ UNCHANGED <<mutter, controller, runner, disp, helper, events, picture, ctxDone, trouble>>

-----------------------------------------------------------------------------

Next ==
    \/ Move \/ ShellFails \/ ShellReturns \/ ConnectionDies
    \/ Pump \/ Runner \/ \E h \in Helpers : Helper(h)
    \/ Handle \/ Refresh \/ \E goal \in Known : Command(goal)
    \/ Cancel \/ LoopEnds

Spec == Init /\ [][Next]_vars

\* Goroutines run; a backoff and a call's timeout end.
FairSpec ==
    /\ Spec /\ WF_vars(Pump) /\ WF_vars(Runner) /\ WF_vars(Handle) /\ WF_vars(LoopEnds)
    /\ \A h \in Helpers : WF_vars(Helper(h))

\* The poll ticker; what needs it says so.
Polled == WF_vars(Refresh)

-----------------------------------------------------------------------------
(* What the display promises *)

\* The runner waits, dials or has returned only with its last controller out of reach,
\* closed, and its pump ended (app.go:442-457, mutter.go:146-157); and the loop's picture
\* is read and written with one open connection at most.
ControllersAccounted ==
    /\ runner.pc \in {"dial", "wait", "done"} => ~disp /\ conn = "closed" /\ pump.pc = "done"
    /\ disp => conn # "closed" /\ runner.pc \in {"get", "serve", "drop"}

\* "the newest always gets through" (mutter.go:184): with nobody in the middle of a push,
\* the mode pushed last is in the channel or has been taken from it.
NewestGetsThrough ==
    \/ pump.pc = "drain" \/ \E h \in Helpers : helper[h].pc = "drain"
    \/ pump.pc = "send" \/ \E h \in Helpers : helper[h].pc = "send"
    \/ kept

\* What the daemon tells Home Assistant, and what it should.
displayAvailable == dispOnline /\ dispMode # "unknown"
Shown  == IF displayAvailable THEN dispMode ELSE "unavailable"
Actual == IF shell = "up" /\ mode # "unknown" THEN mode ELSE "unavailable"

\* The poll repairs whatever events were dropped, lost, late or out of order
\* (app.go:316): the mode that is shown ends up being Mutter's.
PictureConverges == Polled => <>[](ctxDone \/ Shown = Actual)

\* shutdown waits for the runner (app.go:381), the runner for the pump, and the pump may
\* be waiting for a Mutter that hangs: all the same the daemon ends.
RunEnds == ctxDone ~> loop = "done"

\* No goroutine is waited for except the runner; once Run has returned none of them can
\* reach the display any more.
QuietAfterRun == [][loop = "done" /\ (\E h \in Helpers : Writes(h)) => mode' = mode]_vars

=============================================================================
