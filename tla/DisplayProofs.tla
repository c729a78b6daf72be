---------------------------- MODULE DisplayProofs ----------------------------
(***************************************************************************)
(* The display's controllers are accounted for, the newest mode gets       *)
(* through, and nothing reaches the display once Run has returned: proved  *)
(* for every capacity of the channels and the queue, any number of helper  *)
(* goroutines and any amount of trouble.                                   *)
(***************************************************************************)
EXTENDS Display, SequenceTheorems, TLAPS

(***************************************************************************)
(* The inductive invariant                                                 *)
(***************************************************************************)

\* Who pushes holds a mode, who writes has one to write, who answers has an answer.
Carried ==
    /\ pump.pc \in {"send", "drain"} => pump.got \in Modes
    /\ \A h \in Helpers :
         /\ helper[h].pc \in {"send", "drain"} => helper[h].got \in Modes
         /\ helper[h].pc = "answer" => helper[h].got \in Modes \cup {Failed}
         /\ helper[h].pc \in {"check", "write"} => helper[h].goal \in Known

\* What there is of a controller at each place of runDisplay.
Places ==
    /\ runner.pc \in {"dial", "wait", "done"} => ~disp /\ conn = "closed" /\ pump.pc = "done"
    /\ runner.pc \in {"close", "join"} => ~disp
    /\ runner.pc = "join" => conn = "closed"
    /\ runner.pc \in {"get", "serve", "drop"} => conn # "closed"
    /\ loop = "done" => runner.pc = "done"

\* Somebody is in the middle of a push into the channel of the present controller.
Pushing(h) == helper[h].fresh /\ helper[h].pc \in {"send", "drain"}

\* When the mode pushed last was drained, whoever drained it is about to send.
PushersFinish == kept \/ pump.pc \in {"send", "drain"} \/ \E h \in Helpers : Pushing(h)

\* TypeOK and Carried together are inductive.
TInv == TypeOK /\ Carried

-----------------------------------------------------------------------------
(* The queues *)

LEMMA Capacities ==
    /\ QueueCap \in Nat \ {0} /\ ChangesCap \in Nat \ {0}
    /\ SigCap \in Nat \ {0} /\ MaxHelpers \in Nat \ {0}
BY DisplayAssumption

\* A mode or a failure enters the loop's queue, which keeps its capacity.
LEMMA EnqueueFits ==
    ASSUME TypeOK, NEW e \in Modes \cup {Failed}, Enqueue(e)
    PROVE  events' \in Seq(Modes \cup {Failed}) /\ Len(events') <= QueueCap
<1>1. events \in Seq(Modes \cup {Failed}) /\ Len(events) <= QueueCap /\ Len(events) \in Nat
  BY LenProperties DEF TypeOK
<1>2. CASE Len(events) < QueueCap
  <2>1. events' = Append(events, e)
    BY <1>2 DEF Enqueue
  <2>2. Append(events, e) \in Seq(Modes \cup {Failed}) /\ Len(Append(events, e)) = Len(events) + 1
    BY <1>1, AppendProperties
  <2> QED
    BY <1>1, <1>2, <2>1, <2>2, Capacities
<1>3. CASE ~(Len(events) < QueueCap)
  BY <1>1, <1>3 DEF Enqueue
<1> QED
  BY <1>2, <1>3

\* The first half of a push leaves the newest mode in the channel.
LEMMA SendsFits ==
    ASSUME TypeOK, NEW m \in Modes, Sends(m)
    PROVE  changes' \in Seq(Modes) /\ Len(changes') <= ChangesCap /\ kept' = TRUE
<1>1. changes \in Seq(Modes) /\ Len(changes) \in Nat
  BY LenProperties DEF TypeOK
<1>2. changes' = Append(changes, m) /\ Len(changes) < ChangesCap /\ kept' = TRUE
  BY DEF Sends
<1>3. Append(changes, m) \in Seq(Modes) /\ Len(Append(changes, m)) = Len(changes) + 1
  BY <1>1, AppendProperties
<1> QED
  BY <1>1, <1>2, <1>3, Capacities

\* What is left of a queue when its oldest element is gone.
LEMMA TailFits ==
    ASSUME NEW S, NEW q \in Seq(S), q # <<>>, NEW c \in Nat, Len(q) <= c
    PROVE  Tail(q) \in Seq(S) /\ Len(Tail(q)) <= c /\ Head(q) \in S
<1>1. Len(q) \in Nat /\ Tail(q) \in Seq(S) /\ Len(Tail(q)) = Len(q) - 1 /\ Head(q) \in S
  BY HeadTailProperties, LenProperties
<1> QED
  BY <1>1

LEMMA DrainsFits ==
    ASSUME TypeOK, Drains
    PROVE  changes' \in Seq(Modes) /\ Len(changes') <= ChangesCap /\ kept' \in BOOLEAN
<1>1. changes \in Seq(Modes) /\ Len(changes) <= ChangesCap /\ ChangesCap \in Nat
  BY Capacities DEF TypeOK
<1>2. kept' \in BOOLEAN
  BY DEF Drains, TypeOK
<1>3. CASE changes = <<>>
  BY <1>1, <1>2, <1>3 DEF Drains
<1>4. CASE changes # <<>>
  BY <1>1, <1>2, <1>4, TailFits DEF Drains
<1> QED
  BY <1>3, <1>4

\* A signal that is not lost finds room.
LEMMA SignalFits ==
    ASSUME TypeOK, NEW s \in Modes \cup {"invalidated"}, Len(sig) # SigCap
    PROVE  /\ Append(sig, s) \in Seq(Modes \cup {"invalidated"})
           /\ Len(Append(sig, s)) <= SigCap
<1>1. sig \in Seq(Modes \cup {"invalidated"}) /\ Len(sig) \in Nat /\ Len(sig) <= SigCap
  BY LenProperties DEF TypeOK
<1>2. Append(sig, s) \in Seq(Modes \cup {"invalidated"}) /\ Len(Append(sig, s)) = Len(sig) + 1
  BY <1>1, AppendProperties
<1> QED
  BY <1>1, <1>2, Capacities

\* A read comes to a mode or fails; it fails without a connection.
LEMMA ReadsTypes ==
    ASSUME TypeOK, NEW fresh \in BOOLEAN
    PROVE  /\ Reads(fresh) \subseteq Modes \cup {Failed} /\ Read(fresh) \in Modes \cup {Failed}
           /\ conn # "open" => Reads(fresh) = {Failed}
BY DEF TypeOK, Reads, Read

-----------------------------------------------------------------------------
(* Types *)

LEMMA InitTypes == Init => TInv
<1> SUFFICES ASSUME Init PROVE TInv
  OBVIOUS
<1>1. /\ <<>> \in Seq(Modes \cup {"invalidated"}) /\ <<>> \in Seq(Modes)
      /\ <<>> \in Seq(Modes \cup {Failed}) /\ Len(<<>>) = 0
  BY EmptySeq
<1>2. helper \in [Helpers -> {Idle}] /\ \A h \in Helpers : helper[h].pc = "idle"
  BY DEF Init, Idle
<1>3. mode \in Modes
  BY DisplayAssumption DEF Init
<1>4. Carried
  BY <1>2 DEF Init, Carried
<1>5. helper \in [Helpers -> [pc : {"idle", "check", "write", "reread", "send", "drain",
                                  "read", "answer"},
                            goal : Known \cup {"none"},
                            got : Modes \cup {"none", Failed}, fresh : BOOLEAN]]
  BY DEF Init, Idle
<1>6. /\ sig \in Seq(Modes \cup {"invalidated"}) /\ Len(sig) <= SigCap
      /\ changes \in Seq(Modes) /\ Len(changes) <= ChangesCap
      /\ events \in Seq(Modes \cup {Failed}) /\ Len(events) <= QueueCap
  BY <1>1, Capacities DEF Init
<1>7. TypeOK
  BY <1>3, <1>5, <1>6 DEF Init, TypeOK, Modes
<1> QED
  BY <1>4, <1>7 DEF TInv

\* Mutter, the bus, the end, and the loop's handlers.
LEMMA OutsideTypes ==
    ASSUME TInv, Move \/ ShellFails \/ ShellReturns \/ ConnectionDies \/ Cancel \/ LoopEnds
    PROVE  TInv'
<1> USE DEF TInv, Carried
<1>1. CASE Move
  <2>1. PICK m \in Modes \ {mode} :
          /\ mode' = m
          /\ sig' \in IF conn = "open" /\ Len(sig) < SigCap
                     THEN {Append(sig, m), Append(sig, "invalidated")} ELSE {sig}
    BY <1>1 DEF Move
  <2>2. sig' \in Seq(Modes \cup {"invalidated"}) /\ Len(sig') <= SigCap
    <3>1. CASE conn = "open" /\ Len(sig) < SigCap
      <4>1. sig' = Append(sig, m) \/ sig' = Append(sig, "invalidated")
        BY <2>1, <3>1
      <4>2. Len(sig) # SigCap
        BY <3>1, LenProperties, Capacities DEF TypeOK
      <4> QED
        BY <4>1, <4>2, SignalFits
    <3>2. CASE ~(conn = "open" /\ Len(sig) < SigCap)
      BY <2>1, <3>2 DEF TypeOK
    <3> QED
      BY <3>1, <3>2
  <2> QED
    BY <1>1, <2>1, <2>2 DEF Move, TypeOK, channels, picture, life
<1>2. CASE ShellFails
  BY <1>2 DEF ShellFails, TypeOK, controller, channels, picture, life
<1>3. CASE ShellReturns
  BY <1>3 DEF ShellReturns, TypeOK, controller, channels, picture, life
<1>4. CASE ConnectionDies
  BY <1>4 DEF ConnectionDies, TypeOK, mutter, channels, picture, life
<1>5. CASE Cancel
  BY <1>5 DEF Cancel, TypeOK, mutter, controller, channels, picture
<1>6. CASE LoopEnds
  BY <1>6 DEF LoopEnds, TypeOK, mutter, controller, channels, picture
<1> QED
  BY <1>1, <1>2, <1>3, <1>4, <1>5, <1>6

LEMMA PumpTypes == ASSUME TInv, Pump PROVE TInv'
<1> USE DEF TInv, Carried
<1>1. CASE PumpReceives
  <2>1. /\ sig \in Seq(Modes \cup {"invalidated"}) /\ sig # <<>> /\ sig' = Tail(sig)
        /\ Len(sig) <= SigCap /\ SigCap \in Nat
    BY <1>1, Capacities DEF PumpReceives, TypeOK
  <2>2. /\ sig' \in Seq(Modes \cup {"invalidated"}) /\ Len(sig') <= SigCap
        /\ Head(sig) \in Modes \cup {"invalidated"}
    BY <2>1, TailFits
  <2>3. /\ pump' \in [pc : {"range", "get", "send", "drain", "done"}, got : Modes \cup {"none"}]
        /\ pump'.pc \in {"send", "drain"} => pump'.got \in Modes
    BY <1>1, <2>2 DEF PumpReceives, TypeOK
  <2> QED
    BY <1>1, <2>2, <2>3 DEF PumpReceives, TypeOK, mutter, channels, picture, life
<1>2. CASE PumpReads
  <2>1. /\ pump' \in [pc : {"range", "get", "send", "drain", "done"}, got : Modes \cup {"none"}]
        /\ pump'.pc \in {"send", "drain"} => pump'.got \in Modes
    BY <1>2, ReadsTypes DEF PumpReads
  <2>2. UNCHANGED <<mutter, conn, sig, errs, channels, runner, disp, helper, events, picture, life>>
    BY <1>2 DEF PumpReads
  <2> QED
    BY <2>1, <2>2 DEF TypeOK, mutter, channels, picture, life
<1>3. CASE PumpPushes
  <2>1. pump.pc \in {"send", "drain"} /\ pump.got \in Modes
    BY <1>3 DEF PumpPushes
  <2>2. changes' \in Seq(Modes) /\ Len(changes') <= ChangesCap /\ kept' \in BOOLEAN
    BY <1>3, <2>1, SendsFits, DrainsFits DEF PumpPushes, TypeOK, channels
  <2>3. /\ pump' \in [pc : {"range", "get", "send", "drain", "done"}, got : Modes \cup {"none"}]
        /\ pump'.pc \in {"send", "drain"} => pump'.got \in Modes
    BY <1>3, <2>1 DEF PumpPushes, TypeOK
  <2> QED
    BY <1>3, <2>2, <2>3 DEF PumpPushes, TypeOK, mutter, picture, life
<1>4. CASE PumpEnds
  BY <1>4 DEF PumpEnds, TypeOK, mutter, channels, picture, life
<1> QED
  BY <1>1, <1>2, <1>3, <1>4 DEF Pump

LEMMA RunnerTypes == ASSUME TInv, Runner PROVE TInv'
<1> USE DEF TInv, Carried
<1>1. CASE Dial
  <2>1. changes' \in Seq(Modes) /\ Len(changes') <= ChangesCap
    BY <1>1, EmptySeq, Capacities DEF Dial
  <2>2. sig' \in Seq(Modes \cup {"invalidated"}) /\ Len(sig') <= SigCap
    BY <1>1, EmptySeq, Capacities DEF Dial
  <2>3. helper' = [h \in Helpers |-> [helper[h] EXCEPT !.fresh = FALSE]]
    BY <1>1 DEF Dial
  <2>4. helper' \in [Helpers -> [pc : {"idle", "check", "write", "reread", "send", "drain",
                                      "read", "answer"},
                                goal : Known \cup {"none"},
                                got : Modes \cup {"none", Failed}, fresh : BOOLEAN]]
    <3>1. ASSUME NEW h \in Helpers
          PROVE  [helper[h] EXCEPT !.fresh = FALSE]
                   \in [pc : {"idle", "check", "write", "reread", "send", "drain", "read", "answer"},
                       goal : Known \cup {"none"},
                       got : Modes \cup {"none", Failed}, fresh : BOOLEAN]
      BY DEF TypeOK
    <3> QED
      BY <2>3, <3>1
  <2>5. \A h \in Helpers : /\ helper'[h].pc = helper[h].pc /\ helper'[h].got = helper[h].got
                           /\ helper'[h].goal = helper[h].goal
    <3> SUFFICES ASSUME NEW h \in Helpers
                 PROVE  /\ helper'[h].pc = helper[h].pc /\ helper'[h].got = helper[h].got
                        /\ helper'[h].goal = helper[h].goal
      OBVIOUS
    <3>1. helper'[h] = [helper[h] EXCEPT !.fresh = FALSE]
      BY <2>3
    <3> QED
      BY <3>1 DEF TypeOK
  <2>6. /\ runner' = [pc |-> "get", why |-> "none"] /\ disp' = TRUE /\ conn' = "open" /\ errs' = FALSE
        /\ pump' = [pc |-> "range", got |-> "none"] /\ kept' = TRUE
        /\ UNCHANGED <<mutter, events, picture, life>>
    BY <1>1 DEF Dial
  <2>7. TypeOK'
    BY <2>1, <2>2, <2>4, <2>6 DEF TypeOK, mutter, picture, life
  <2>8. Carried'
    BY <2>5, <2>6
  <2> QED
    BY <2>7, <2>8
<1>2. CASE DialFails
  <2>1. events' \in Seq(Modes \cup {Failed}) /\ Len(events') <= QueueCap
    BY <1>2, EnqueueFits DEF DialFails, TypeOK
  <2>2. runner' \in [pc : {"dial", "get", "serve", "drop", "close", "join", "wait", "done"},
                    why : {"none", "read", "lost", "end"}]
    BY <1>2 DEF DialFails
  <2>3. UNCHANGED <<mutter, controller, disp, helper, picture, life>>
    BY <1>2 DEF DialFails
  <2> QED
    BY <2>1, <2>2, <2>3 DEF TypeOK, mutter, controller, channels, picture, life
<1>3. CASE FirstRead
  <2>1. PICK v \in Reads(TRUE) :
          IF v = Failed
          THEN runner' = [pc |-> "close", why |-> "read"] /\ disp' = FALSE /\ UNCHANGED events
          ELSE runner' = [pc |-> "serve", why |-> "none"] /\ Enqueue(v) /\ UNCHANGED disp
    BY <1>3 DEF FirstRead
  <2>2. v \in Modes \cup {Failed}
    BY ReadsTypes
  <2>3. events' \in Seq(Modes \cup {Failed}) /\ Len(events') <= QueueCap
    BY <2>1, <2>2, EnqueueFits DEF TypeOK
  <2>4. UNCHANGED <<mutter, controller, helper, picture, life>>
    BY <1>3 DEF FirstRead
  <2>5. /\ runner' \in [pc : {"dial", "get", "serve", "drop", "close", "join", "wait", "done"},
                       why : {"none", "read", "lost", "end"}]
        /\ disp' \in BOOLEAN
    <3>1. disp \in BOOLEAN
      BY DEF TypeOK
    <3>2. CASE v = Failed
      <4>1. runner' = [pc |-> "close", why |-> "read"] /\ disp' = FALSE
        BY <2>1, <3>2
      <4> QED
        BY <4>1
    <3>3. CASE v # Failed
      BY <2>1, <3>1, <3>3
    <3> QED
      BY <3>2, <3>3
  <2> QED
    BY <2>3, <2>4, <2>5 DEF TypeOK, mutter, controller, channels, picture, life
<1>4. CASE TakeChange
  <2>1. /\ changes \in Seq(Modes) /\ changes # <<>> /\ changes' = Tail(changes)
        /\ Len(changes) <= ChangesCap /\ ChangesCap \in Nat
    BY <1>4, Capacities DEF TakeChange, TypeOK
  <2>2. /\ changes' \in Seq(Modes) /\ Len(changes') <= ChangesCap
        /\ Head(changes) \in Modes
    BY <2>1, TailFits
  <2>3. events' \in Seq(Modes \cup {Failed}) /\ Len(events') <= QueueCap
    BY <1>4, <2>2, EnqueueFits DEF TakeChange
  <2> QED
    BY <1>4, <2>2, <2>3 DEF TakeChange, TypeOK, mutter, picture, life
<1>5. CASE TakeError
  <2>1. events' \in Seq(Modes \cup {Failed}) /\ Len(events') <= QueueCap
    BY <1>5, EnqueueFits DEF TakeError
  <2> QED
    BY <1>5, <2>1 DEF TakeError, TypeOK, mutter, channels, picture, life
<1>6. CASE Drop
  BY <1>6 DEF Drop, TypeOK, mutter, controller, channels, picture, life
<1>7. CASE ServeEnds
  BY <1>7 DEF ServeEnds, TypeOK, mutter, controller, channels, picture, life
<1>8. CASE Close
  BY <1>8 DEF Close, TypeOK, mutter, channels, picture, life
<1>9. CASE Closed
  <2>1. events' \in Seq(Modes \cup {Failed}) /\ Len(events') <= QueueCap
    BY <1>9, EnqueueFits DEF Closed, TypeOK
  <2>2. runner' \in [pc : {"dial", "get", "serve", "drop", "close", "join", "wait", "done"},
                    why : {"none", "read", "lost", "end"}]
    BY <1>9 DEF Closed
  <2>3. UNCHANGED <<mutter, controller, disp, helper, picture, life>>
    BY <1>9 DEF Closed
  <2> QED
    BY <2>1, <2>2, <2>3 DEF TypeOK, mutter, controller, channels, picture, life
<1>10. CASE Waited
  BY <1>10 DEF Waited, TypeOK, mutter, controller, channels, picture, life
<1> QED
  BY <1>1, <1>2, <1>3, <1>4, <1>5, <1>6, <1>7, <1>8, <1>9, <1>10 DEF Runner

\* What a helper goroutine does to its own record and to the mode.
LEMMA HelperTypes == ASSUME TInv, NEW h \in Helpers, Helper(h) PROVE TInv'
<1> DEFINE Records == [pc : {"idle", "check", "write", "reread", "send", "drain", "read", "answer"},
                       goal : Known \cup {"none"},
                       got : Modes \cup {"none", Failed}, fresh : BOOLEAN]
           Apt(r) == /\ r.pc \in {"send", "drain"} => r.got \in Modes
                     /\ r.pc = "answer" => r.got \in Modes \cup {Failed}
                     /\ r.pc \in {"check", "write"} => r.goal \in Known
<1>1. /\ helper \in [Helpers -> Records] /\ helper[h] \in Records /\ helper[h].fresh \in BOOLEAN
      /\ \A g \in Helpers : Apt(helper[g])
  BY DEF TInv, TypeOK, Carried
\* It is enough that the helper's own record fits.
<1>2. ASSUME NEW r \in Records, Apt(r), helper' = [helper EXCEPT ![h] = r],
             UNCHANGED <<conn, errs, pump, runner, disp, picture, life, shell>>,
             mode' \in Modes, sig' \in Seq(Modes \cup {"invalidated"}), Len(sig') <= SigCap,
             changes' \in Seq(Modes), Len(changes') <= ChangesCap, kept' \in BOOLEAN,
             events' \in Seq(Modes \cup {Failed}), Len(events') <= QueueCap
      PROVE  TInv'
  <2>1. helper' \in [Helpers -> Records]
    BY <1>1, <1>2
  <2>2. \A g \in Helpers : Apt(helper'[g])
    BY <1>1, <1>2
  <2>3. TypeOK'
    BY <1>2, <2>1 DEF TInv, TypeOK, picture, life
  <2>4. Carried'
    BY <1>2, <2>2 DEF TInv, Carried
  <2> QED
    BY <2>3, <2>4 DEF TInv
<1>3. /\ mode \in Modes /\ sig \in Seq(Modes \cup {"invalidated"}) /\ Len(sig) <= SigCap
      /\ changes \in Seq(Modes) /\ Len(changes) <= ChangesCap /\ kept \in BOOLEAN
      /\ events \in Seq(Modes \cup {Failed}) /\ Len(events) <= QueueCap
  BY DEF TInv, TypeOK
<1>4. CASE Checks(h)
  <2>1. PICK r : /\ helper' = [helper EXCEPT ![h] = r]
                 /\ \/ r = [helper[h] EXCEPT !.pc = "read", !.goal = "none"]
                    \/ r = [helper[h] EXCEPT !.pc = "write"] /\ helper[h].pc = "check"
    BY <1>1, <1>4 DEF Checks
  <2>2. r \in Records /\ Apt(r)
    BY <1>1, <2>1
  <2>3. UNCHANGED <<mutter, controller, runner, disp, events, picture, life>>
    BY <1>4 DEF Checks
  <2> QED
    BY <1>2, <1>3, <2>1, <2>2, <2>3 DEF mutter, controller, channels
<1>5. CASE Writes(h)
  <2>1. PICK v \in Reads(helper[h].fresh) :
          IF v = Failed
          THEN /\ helper' = [helper EXCEPT ![h].pc = "read", ![h].goal = "none"]
               /\ UNCHANGED <<mode, sig, trouble>>
          ELSE /\ helper' = [helper EXCEPT ![h].pc = "reread", ![h].goal = "none"]
               /\ mode' = helper[h].goal
               /\ IF mode = mode' THEN UNCHANGED <<sig, trouble>> ELSE Signalled(mode')
    BY <1>5 DEF Writes
  <2>2. PICK r : /\ helper' = [helper EXCEPT ![h] = r]
                 /\ \E pc \in {"read", "reread"} : r = [helper[h] EXCEPT !.pc = pc, !.goal = "none"]
    BY <1>1, <2>1
  <2>3. r \in Records /\ Apt(r)
    BY <1>1, <2>2
  <2>4. helper[h].goal \in Modes
    BY <1>1, <1>5 DEF Writes, Modes
  <2>5. mode' \in Modes
    BY <1>3, <2>1, <2>4
  <2>6. sig' = sig \/ (Len(sig) # SigCap /\ \E s \in {mode', "invalidated"} : sig' = Append(sig, s))
    BY <2>1 DEF Signalled
  <2>7. sig' \in Seq(Modes \cup {"invalidated"}) /\ Len(sig') <= SigCap
    BY <1>3, <2>5, <2>6, SignalFits DEF TInv
  <2>8. UNCHANGED <<shell, conn, errs, pump, channels, runner, disp, events, picture, life>>
    BY <1>5 DEF Writes
  <2> QED
    BY <1>2, <1>3, <2>2, <2>3, <2>5, <2>7, <2>8 DEF channels
<1>6. CASE Rereads(h)
  <2>1. PICK v \in Reads(helper[h].fresh) :
         helper' = [helper EXCEPT ![h].pc = IF v = Failed THEN "read" ELSE "send",
                                  ![h].got = IF v = Failed THEN "none" ELSE v]
    BY <1>6 DEF Rereads
  <2>2. v \in Modes \cup {Failed}
    BY <1>1, ReadsTypes DEF TInv
  <2>3. PICK r : /\ helper' = [helper EXCEPT ![h] = r]
                 /\ r = [helper[h] EXCEPT !.pc = IF v = Failed THEN "read" ELSE "send",
                                         !.got = IF v = Failed THEN "none" ELSE v]
    BY <1>1, <2>1
  <2>4. r \in Records /\ Apt(r)
    BY <1>1, <2>2, <2>3
  <2>5. UNCHANGED <<mutter, controller, runner, disp, events, picture, life>>
    BY <1>6 DEF Rereads
  <2> QED
    BY <1>2, <1>3, <2>3, <2>4, <2>5 DEF mutter, controller, channels
<1>7. CASE Pushes(h)
  <2>1. helper[h].pc \in {"send", "drain"} /\ helper[h].got \in Modes
    BY <1>1, <1>7 DEF Pushes
  <2>2. PICK r : /\ helper' = [helper EXCEPT ![h] = r]
                 /\ \/ r = [helper[h] EXCEPT !.pc = "read", !.got = "none"]
                    \/ \E pc \in {"send", "drain"} : r = [helper[h] EXCEPT !.pc = pc]
    BY <1>1, <1>7 DEF Pushes
  <2>3. r \in Records /\ Apt(r)
    BY <1>1, <2>1, <2>2
  <2>4. UNCHANGED channels \/ Sends(helper[h].got) \/ Drains
    BY <1>7 DEF Pushes
  <2>5. changes' \in Seq(Modes) /\ Len(changes') <= ChangesCap /\ kept' \in BOOLEAN
    BY <1>3, <2>1, <2>4, SendsFits, DrainsFits DEF channels, TInv
  <2>6. UNCHANGED <<mutter, conn, sig, errs, pump, runner, disp, events, picture, life>>
    BY <1>7 DEF Pushes
  <2> QED
    BY <1>2, <1>3, <2>2, <2>3, <2>5, <2>6 DEF mutter
<1>8. CASE ReadsBack(h)
  <2>1. PICK v \in Reads(helper[h].fresh) :
         helper' = [helper EXCEPT ![h].pc = "answer", ![h].got = v]
    BY <1>8 DEF ReadsBack
  <2>2. v \in Modes \cup {Failed}
    BY <1>1, ReadsTypes DEF TInv
  <2>3. PICK r : helper' = [helper EXCEPT ![h] = r] /\ r = [helper[h] EXCEPT !.pc = "answer", !.got = v]
    BY <1>1, <2>1
  <2>4. r \in Records /\ Apt(r)
    BY <1>1, <2>2, <2>3
  <2>5. UNCHANGED <<mutter, controller, runner, disp, events, picture, life>>
    BY <1>8 DEF ReadsBack
  <2> QED
    BY <1>2, <1>3, <2>3, <2>4, <2>5 DEF mutter, controller, channels
<1>9. CASE Answers(h)
  <2>1. helper[h].got \in Modes \cup {Failed} /\ Enqueue(helper[h].got)
    BY <1>1, <1>9 DEF Answers
  <2>2. events' \in Seq(Modes \cup {Failed}) /\ Len(events') <= QueueCap
    BY <2>1, EnqueueFits DEF TInv
  <2>3. Idle \in Records /\ Apt(Idle) /\ helper' = [helper EXCEPT ![h] = Idle]
    BY <1>9 DEF Answers, Idle
  <2>4. UNCHANGED <<mutter, controller, runner, disp, picture, life>>
    BY <1>9 DEF Answers
  <2> QED
    BY <1>2, <1>3, <2>2, <2>3, <2>4 DEF mutter, controller, channels
<1> QED
  BY <1>4, <1>5, <1>6, <1>7, <1>8, <1>9 DEF Helper

\* A goroutine starts with an apt record.
LEMMA StartTypes ==
    ASSUME TInv, NEW h \in Helpers, NEW r,
           \/ r = [pc |-> "read", goal |-> "none", got |-> "none", fresh |-> TRUE]
           \/ \E goal \in Known : r = [pc |-> "check", goal |-> goal, got |-> "none", fresh |-> TRUE],
           helper' = [helper EXCEPT ![h] = r],
           UNCHANGED <<mutter, controller, runner, disp, events, picture, life>>
    PROVE  TInv'
<1>1. /\ r \in [pc : {"idle", "check", "write", "reread", "send", "drain", "read", "answer"},
               goal : Known \cup {"none"},
               got : Modes \cup {"none", Failed}, fresh : BOOLEAN]
      /\ r.pc \in {"read", "check"} /\ (r.pc = "check" => r.goal \in Known)
  <2>1. CASE r = [pc |-> "read", goal |-> "none", got |-> "none", fresh |-> TRUE]
    BY <2>1
  <2>2. CASE \E goal \in Known : r = [pc |-> "check", goal |-> goal, got |-> "none", fresh |-> TRUE]
    BY <2>2
  <2> QED
    BY <2>1, <2>2
<1>2. TypeOK'
  BY <1>1 DEF TInv, TypeOK, mutter, controller, channels, picture, life
<1>3. Carried'
  BY <1>1 DEF TInv, TypeOK, Carried, controller
<1> QED
  BY <1>2, <1>3 DEF TInv

LEMMA LoopTypes ==
    ASSUME TInv, Handle \/ Refresh \/ \E goal \in Known : Command(goal)
    PROVE  TInv'
<1>1. CASE Handle
  <2>1. /\ events \in Seq(Modes \cup {Failed}) /\ events # <<>> /\ events' = Tail(events)
        /\ Len(events) <= QueueCap /\ QueueCap \in Nat
    BY <1>1, Capacities DEF Handle, TInv, TypeOK
  <2>2. /\ events' \in Seq(Modes \cup {Failed}) /\ Len(events') <= QueueCap
        /\ Head(events) \in Modes \cup {Failed}
    BY <2>1, TailFits
  <2>3. dispOnline' \in BOOLEAN /\ dispMode' \in Modes
    BY <1>1, <2>2 DEF Handle, TInv, TypeOK
  <2>4. UNCHANGED <<mutter, controller, runner, disp, helper, life>>
    BY <1>1 DEF Handle
  <2> QED
    BY <2>2, <2>3, <2>4 DEF TInv, TypeOK, Carried, mutter, controller, channels, life
<1>2. CASE Refresh
  <2>1. PICK h \in Helpers :
          helper' = [helper EXCEPT ![h] = [pc |-> "read", goal |-> "none", got |-> "none",
                                           fresh |-> TRUE]]
    BY <1>2 DEF Refresh, Start
  <2> QED
    BY <1>2, <2>1, StartTypes DEF Refresh
<1>3. ASSUME NEW goal \in Known, Command(goal) PROVE TInv'
  <2>1. PICK h \in Helpers :
          helper' = [helper EXCEPT ![h] = [pc |-> "check", goal |-> goal, got |-> "none",
                                           fresh |-> TRUE]]
    BY <1>3 DEF Command, Start
  <2> QED
    BY <1>3, <2>1, StartTypes DEF Command
<1> QED
  BY <1>1, <1>2, <1>3

LEMMA StepTypes == TInv /\ [Next]_vars => TInv'
<1> SUFFICES ASSUME TInv, [Next]_vars PROVE TInv'
  OBVIOUS
<1>1. CASE UNCHANGED vars
  BY <1>1 DEF TInv, TypeOK, Carried, vars, mutter, controller, channels, picture, life
<1> QED
  BY <1>1, OutsideTypes, PumpTypes, RunnerTypes, HelperTypes, LoopTypes DEF Next

\* Every variable keeps its type; the loop's queue, Controller.changes and the signals on
\* their way keep their capacities.
THEOREM TypeCorrect == Spec => []TypeOK
<1>1. TInv => TypeOK
  BY DEF TInv
<1> QED
  BY <1>1, InitTypes, StepTypes, PTL DEF Spec

-----------------------------------------------------------------------------
(* Where the runner is *)

\* Only the runner's own steps, a dying connection, the pump and the end of the loop
\* touch what Places is about.
LEMMA UntouchedPlaces ==
    ASSUME Places, UNCHANGED <<runner, disp, conn, pump, loop>>
    PROVE  Places'
BY DEF Places

LEMMA OutsidePlaces ==
    ASSUME TypeOK, Places,
           \/ Move \/ ShellFails \/ ShellReturns \/ ConnectionDies \/ Cancel \/ LoopEnds
           \/ Handle \/ Refresh \/ \E goal \in Known : Command(goal)
    PROVE  Places'
<1>1. CASE Move \/ ShellFails \/ ShellReturns \/ Cancel
  BY <1>1, UntouchedPlaces DEF Move, ShellFails, ShellReturns, Cancel, controller, life
<1>2. CASE Handle \/ Refresh \/ \E goal \in Known : Command(goal)
  BY <1>2, UntouchedPlaces DEF Handle, Refresh, Command, controller, life
<1>3. CASE ConnectionDies
  BY <1>3 DEF ConnectionDies, Places, life
<1>4. CASE LoopEnds
  BY <1>4 DEF LoopEnds, Places, controller
<1> QED
  BY <1>1, <1>2, <1>3, <1>4

\* A pump that is done does nothing more.
LEMMA PumpPlaces == ASSUME TypeOK, Places, Pump PROVE Places'
<1>1. UNCHANGED <<runner, disp, conn, loop>> /\ pump.pc # "done"
  BY DEF Pump, PumpReceives, PumpReads, PumpPushes, PumpEnds, life
<1> QED
  BY <1>1 DEF Places

LEMMA HelperPlaces == ASSUME Places, NEW h \in Helpers, Helper(h) PROVE Places'
BY UntouchedPlaces
DEF Helper, Checks, Writes, Rereads, Pushes, ReadsBack, Answers, controller, life

\* The runner lets go of App.disp before it closes, closes before it waits for the pump,
\* and waits for the pump before it does anything else.
LEMMA RunnerPlaces == ASSUME TypeOK, Places, Runner PROVE Places'
<1>1. CASE Dial
  BY <1>1 DEF Dial, Places, life
<1>2. CASE DialFails \/ Waited
  BY <1>2 DEF DialFails, Waited, Places, controller, life
<1>3. CASE FirstRead
  BY <1>3 DEF FirstRead, Places, controller, life
<1>4. CASE TakeChange
  BY <1>4, UntouchedPlaces DEF TakeChange, life
<1>5. CASE TakeError
  BY <1>5 DEF TakeError, Places, life
<1>6. CASE Drop \/ ServeEnds
  BY <1>6 DEF Drop, ServeEnds, TypeOK, Places, controller, life
<1>7. CASE Close
  BY <1>7 DEF Close, TypeOK, Places, life
<1>8. CASE Closed
  BY <1>8 DEF Closed, Places, controller, life
<1> QED
  BY <1>1, <1>2, <1>3, <1>4, <1>5, <1>6, <1>7, <1>8 DEF Runner

LEMMA StepPlaces == TypeOK /\ Places /\ [Next]_vars => Places'
<1> SUFFICES ASSUME TypeOK, Places, [Next]_vars PROVE Places'
  OBVIOUS
<1>1. CASE UNCHANGED vars
  BY <1>1, UntouchedPlaces DEF vars, controller, life
<1> QED
  BY <1>1, OutsidePlaces, PumpPlaces, RunnerPlaces, HelperPlaces DEF Next

LEMMA PlacesAlways == Spec => []Places
<1>1. Init => Places
  BY DEF Init, Places
<1> QED
  BY <1>1, StepPlaces, TypeCorrect, PTL DEF Spec

\* The runner waits, dials or has returned only with its last controller out of reach,
\* closed, and its pump ended (app.go:442-457, mutter.go:146-157), and App.disp never
\* leads to a controller that the daemon has closed.
THEOREM ControllersAlwaysAccounted == Spec => []ControllersAccounted
<1>1. TypeOK /\ Places => ControllersAccounted
  BY DEF TypeOK, Places, ControllersAccounted
<1> QED
  BY <1>1, PlacesAlways, TypeCorrect, PTL

\* Nobody waits for the helper goroutines, but once Run has returned their writes come to
\* nothing: the only connection there could be is closed.
THEOREM NothingMovesAfterRun == Spec => QuietAfterRun
<1>1. TypeOK /\ Places /\ [Next]_vars
        => [loop = "done" /\ (\E h \in Helpers : Writes(h)) => mode' = mode]_vars
  <2> SUFFICES ASSUME TypeOK, Places, loop = "done", NEW h \in Helpers, Writes(h)
               PROVE  mode' = mode
    OBVIOUS
  <2>1. conn # "open" /\ helper[h].fresh \in BOOLEAN
    BY DEF Places, TypeOK
  <2>2. Reads(helper[h].fresh) = {Failed}
    BY <2>1, ReadsTypes
  <2> QED
    BY <2>2 DEF Writes
<1> QED
  BY <1>1, PlacesAlways, TypeCorrect, PTL DEF Spec, QuietAfterRun

-----------------------------------------------------------------------------
(* The newest mode *)

\* A push takes turns between its two selects until it has sent; another's drain, of a
\* mode that somebody has yet to follow up, leaves that somebody at its place.
LEMMA PushStep ==
    ASSUME TypeOK, PushersFinish, NEW h \in Helpers, Pushes(h)
    PROVE  PushersFinish'
<1>1. CASE kept'
  BY <1>1 DEF PushersFinish
<1>2. CASE pump.pc \in {"send", "drain"}
  BY <1>2 DEF PushersFinish, Pushes
<1>3. CASE helper[h].fresh /\ ~kept'
  <2>1. \E pc \in {"send", "drain"} : helper' = [helper EXCEPT ![h].pc = pc]
    BY <1>3 DEF Pushes, Sends
  <2>2. Pushing(h)'
    BY <1>3, <2>1 DEF Pushing, TypeOK
  <2> QED
    BY <2>2 DEF PushersFinish
<1>4. CASE ~helper[h].fresh /\ ~kept' /\ pump.pc \notin {"send", "drain"}
  <2>1. UNCHANGED channels /\ \A g \in Helpers \ {h} : helper'[g] = helper[g]
    BY <1>4 DEF Pushes, TypeOK
  <2>2. PICK g \in Helpers : Pushing(g)
    BY <1>4, <2>1 DEF PushersFinish, channels
  <2>3. g # h
    BY <1>4, <2>2 DEF Pushing
  <2> QED
    BY <2>1, <2>2, <2>3 DEF PushersFinish, Pushing
<1> QED
  BY <1>1, <1>2, <1>3, <1>4 DEF TypeOK

\* A step that leaves the channel and the pump alone, and every helper that pushes.
LEMMA UntouchedPushers ==
    ASSUME PushersFinish, UNCHANGED <<kept, pump>>,
           \A h \in Helpers : Pushing(h) => Pushing(h)'
    PROVE  PushersFinish'
BY DEF PushersFinish

LEMMA HelperPushers ==
    ASSUME TypeOK, PushersFinish, NEW h \in Helpers, Helper(h)
    PROVE  PushersFinish'
<1>1. CASE Pushes(h)
  BY <1>1, PushStep
<1>2. CASE Checks(h) \/ Writes(h) \/ Rereads(h) \/ ReadsBack(h) \/ Answers(h)
  <2>1. helper[h].pc \notin {"send", "drain"} /\ UNCHANGED <<kept, pump>>
    BY <1>2 DEF Checks, Writes, Rereads, ReadsBack, Answers, controller, channels
  <2>2. \A g \in Helpers \ {h} : helper'[g] = helper[g]
    BY <1>2 DEF Checks, Writes, Rereads, ReadsBack, Answers, TypeOK
  <2> QED
    BY <2>1, <2>2, UntouchedPushers DEF Pushing
<1> QED
  BY <1>1, <1>2 DEF Helper

LEMMA PumpPushers == ASSUME TypeOK, PushersFinish, Pump PROVE PushersFinish'
<1>1. CASE PumpPushes
  BY <1>1 DEF PumpPushes, PushersFinish, Pushing, Sends, Drains, channels, TypeOK
<1>2. CASE PumpReceives \/ PumpReads \/ PumpEnds
  <2>1. pump.pc \notin {"send", "drain"} /\ UNCHANGED <<kept, helper>>
    BY <1>2 DEF PumpReceives, PumpReads, PumpEnds, channels
  <2> QED
    BY <2>1 DEF PushersFinish, Pushing
<1> QED
  BY <1>1, <1>2 DEF Pump

LEMMA OthersPushers ==
    ASSUME TypeOK, PushersFinish,
           \/ Move \/ ShellFails \/ ShellReturns \/ ConnectionDies \/ Cancel \/ LoopEnds
           \/ Handle \/ Runner \/ UNCHANGED vars
    PROVE  PushersFinish'
<1>1. CASE Dial
  BY <1>1 DEF Dial, PushersFinish
<1>2. CASE \/ Move \/ ShellFails \/ ShellReturns \/ ConnectionDies \/ Cancel \/ LoopEnds
           \/ Handle \/ UNCHANGED vars
  <2>1. UNCHANGED <<kept, pump, helper>>
    BY <1>2
    DEF Move, ShellFails, ShellReturns, ConnectionDies, Cancel, LoopEnds, Handle, vars,
        controller, channels
  <2> QED
    BY <2>1, UntouchedPushers DEF Pushing
<1>3. CASE Runner /\ ~Dial
  <2>1. UNCHANGED <<kept, pump, helper>>
    BY <1>3
    DEF Runner, DialFails, FirstRead, TakeChange, TakeError, Drop, ServeEnds, Close, Closed,
        Waited, controller, channels
  <2> QED
    BY <2>1, UntouchedPushers DEF Pushing
<1> QED
  BY <1>1, <1>2, <1>3

LEMMA StartPushers ==
    ASSUME TypeOK, PushersFinish, Refresh \/ \E goal \in Known : Command(goal)
    PROVE  PushersFinish'
<1>1. PICK h \in Helpers : helper[h] = Idle /\ \A g \in Helpers \ {h} : helper'[g] = helper[g]
  BY DEF Refresh, Command, Start, TypeOK
<1>2. UNCHANGED <<kept, pump>>
  BY DEF Refresh, Command, controller, channels
<1>3. ~Pushing(h)
  BY <1>1 DEF Pushing, Idle
<1> QED
  BY <1>1, <1>2, <1>3, UntouchedPushers DEF Pushing

LEMMA StepPushers == TypeOK /\ PushersFinish /\ [Next]_vars => PushersFinish'
BY HelperPushers, PumpPushers, OthersPushers, StartPushers DEF Next

\* "the newest always gets through" (mutter.go:184): with nobody in the middle of a push,
\* the mode pushed last is in the channel or has been taken from it.
THEOREM NewestAlwaysThrough == Spec => []NewestGetsThrough
<1>1. Init => PushersFinish
  BY DEF Init, PushersFinish
<1>2. PushersFinish => NewestGetsThrough
  BY DEF PushersFinish, Pushing, NewestGetsThrough
<1> QED
  BY <1>1, <1>2, StepPushers, TypeCorrect, PTL DEF Spec

=============================================================================
