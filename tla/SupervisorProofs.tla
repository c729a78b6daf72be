-------------------------- MODULE SupervisorProofs --------------------------
(***************************************************************************)
(* Theorems about module Supervisor, for every bound on the failures and   *)
(* every capacity of stateCh.                                              *)
(***************************************************************************)
EXTENDS Supervisor, SequenceTheorems, TLAPS

LEMMA InitIInv == Init => IInv
<1> SUFFICES ASSUME Init PROVE IInv OBVIOUS
<1>1. NumbersOK BY DEF Init, NumbersOK, RunPcs
<1>2. FlagsOK BY DEF Init, FlagsOK
<1>3. ChannelOK BY BoundsAssumption DEF Init, ChannelOK
<1>4. QueryOK BY DEF Init, QueryOK, Results
<1>5. Phases BY DEF Init, Phases, OneConnection, Serving
<1>6. Answered /\ Counted /\ Convicted BY DEF Init, Answered, Counted, Convicted
<1> QED BY <1>1, <1>2, <1>3, <1>4, <1>5, <1>6 DEF IInv, TypeOK

-----------------------------------------------------------------------------
(* Type correctness *)

LEMMA NotifyTyped ==
  ASSUME NEW s \in BOOLEAN, Notify(s), ChannelOK PROVE ChannelOK'
<1>1. CASE Len(stateCh) < StateBuf
  <2>1. stateCh' = Append(stateCh, s) BY <1>1 DEF Notify
  <2>2. stateCh' \in Seq(BOOLEAN) /\ Len(stateCh') = Len(stateCh) + 1
    BY <2>1, AppendProperties DEF ChannelOK
  <2>3. Len(stateCh) \in Nat BY LenProperties DEF ChannelOK
  <2> QED BY <1>1, <2>2, <2>3, BoundsAssumption DEF ChannelOK
<1>2. CASE ~(Len(stateCh) < StateBuf) BY <1>2 DEF Notify, ChannelOK
<1> QED BY <1>1, <1>2

LEMMA StepChannelOK == ASSUME ChannelOK, [Next]_vars PROVE ChannelOK'
<1>1. CASE AnnounceUp
  <2>1. Notify(TRUE) BY <1>1 DEF AnnounceUp
  <2> QED BY <2>1, NotifyTyped
<1>2. CASE AnnounceDown
  <2>1. Notify(FALSE) BY <1>2 DEF AnnounceDown
  <2> QED BY <2>1, NotifyTyped
<1>3. CASE ReadState
  <2>1. stateCh # <<>> /\ stateCh' = Tail(stateCh) BY <1>3 DEF ReadState
  <2>2. stateCh' \in Seq(BOOLEAN) /\ Len(stateCh') = Len(stateCh) - 1
    BY <2>1, HeadTailProperties DEF ChannelOK
  <2>3. Len(stateCh) \in Nat BY LenProperties DEF ChannelOK
  <2> QED BY <2>2, <2>3, BoundsAssumption DEF ChannelOK
<1>4. CASE UNCHANGED stateCh
  BY <1>4 DEF ChannelOK
<1>5. AnnounceUp \/ AnnounceDown \/ ReadState \/ UNCHANGED stateCh
  BY DEF Next, Run, Query, Environment, vars, DialSucceeds, DialFails, BackoffElapses,
     RunCancelled, GoOnline, TakeRedial, TakeDone, GoOffline, CloseManager,
     QueryBegin, QueryAnswer, QueryEnd, ManagerHangs, ManagerLeaves, Cancel
<1> QED BY <1>1, <1>2, <1>3, <1>4, <1>5

LEMMA StepFlagsOK == ASSUME FlagsOK, ChannelOK, [Next]_vars PROVE FlagsOK'
<1>1. CASE ReadState
  <2>1. stateCh # <<>> /\ heard' = Head(stateCh) BY <1>1 DEF ReadState
  <2>2. heard' \in BOOLEAN BY <2>1 DEF ChannelOK
  <2>3. UNCHANGED <<online, redial, ctxDone>> BY <1>1 DEF ReadState, locked
  <2> QED BY <2>2, <2>3 DEF FlagsOK
<1>2. CASE QueryEnd
  <2>1. redial' \in {redial, TRUE} /\ UNCHANGED <<online, ctxDone, heard>>
    BY <1>2 DEF QueryEnd, Judge
  <2> QED BY <2>1 DEF FlagsOK
<1>3. CASE /\ online' \in {online, TRUE, FALSE} /\ redial' \in {redial, FALSE}
           /\ ctxDone' \in {ctxDone, TRUE} /\ heard' = heard
  BY <1>3 DEF FlagsOK
<1>4. CASE Run
  <2>1. UNCHANGED <<ctxDone, heard>>
    BY <1>4 DEF Run, DialSucceeds, DialFails, BackoffElapses, RunCancelled, GoOnline,
       AnnounceUp, TakeRedial, TakeDone, GoOffline, AnnounceDown, CloseManager
  <2>2. online' \in {online, TRUE, FALSE} /\ redial' \in {redial, FALSE}
    BY <1>4 DEF Run, DialSucceeds, DialFails, BackoffElapses, RunCancelled, GoOnline,
       AnnounceUp, TakeRedial, TakeDone, GoOffline, AnnounceDown, CloseManager, locked
  <2> QED BY <2>1, <2>2, <1>3
<1>5. ASSUME Next, ~Run, ~ReadState, ~QueryEnd
      PROVE  UNCHANGED <<online, redial, heard>> /\ ctxDone' \in {ctxDone, TRUE}
  BY <1>5 DEF Next, Query, Environment, QueryBegin, QueryAnswer, ManagerHangs,
     ManagerLeaves, Cancel, locked
<1>6. CASE UNCHANGED vars BY <1>6, <1>3 DEF vars, locked
<1> QED BY <1>1, <1>2, <1>3, <1>4, <1>5, <1>6

LEMMA StepNumbersOK == ASSUME NumbersOK, QueryOK, [Next]_vars PROVE NumbersOK'
<1> USE DEF NumbersOK, RunPcs, GotoRun, locked, health, history
<1>1. CASE DialSucceeds BY <1>1 DEF DialSucceeds
<1>2. CASE DialFails BY <1>2 DEF DialFails
<1>3. CASE BackoffElapses BY <1>3 DEF BackoffElapses
<1>4. CASE RunCancelled BY <1>4 DEF RunCancelled
<1>5. CASE GoOnline BY <1>5 DEF GoOnline
<1>6. CASE AnnounceUp BY <1>6 DEF AnnounceUp
<1>7. CASE TakeRedial BY <1>7 DEF TakeRedial
<1>8. CASE TakeDone BY <1>8 DEF TakeDone
<1>9. CASE GoOffline BY <1>9 DEF GoOffline
<1>10. CASE AnnounceDown BY <1>10 DEF AnnounceDown
<1>11. CASE CloseManager BY <1>11 DEF CloseManager
<1>12. CASE QueryBegin BY <1>12 DEF QueryBegin
<1>13. CASE \E r \in Results : QueryAnswer(r)
  <2> PICK r \in Results : QueryAnswer(r) BY <1>13
  <2>1. query.gen \in Nat BY DEF QueryOK
  <2>2. struck' \subseteq Nat BY <2>1 DEF QueryAnswer
  <2>3. condemned' \subseteq Nat BY <2>1 DEF QueryAnswer
  <2>4. faults' \in Nat BY DEF QueryAnswer
  <2>5. UNCHANGED <<cur, gen, conn, failures, runPc, open, hung, gone>>
    BY DEF QueryAnswer
  <2> QED BY <2>2, <2>3, <2>4, <2>5
<1>14. CASE QueryEnd BY <1>14 DEF QueryEnd, Judge
<1>15. CASE \E m \in open : ManagerHangs(m) \/ ManagerLeaves(m)
  <2> PICK m \in open : ManagerHangs(m) \/ ManagerLeaves(m) BY <1>15
  <2>1. hung' \in {hung, hung \cup {m}} /\ gone' \in {gone, gone \cup {m}}
    BY DEF ManagerHangs, ManagerLeaves
  <2>2. faults' = faults + 1 /\ UNCHANGED <<cur, gen, conn, failures, runPc, open, history>>
    BY DEF ManagerHangs, ManagerLeaves
  <2> QED BY <2>1, <2>2
<1>16. CASE Cancel BY <1>16 DEF Cancel
<1>17. CASE ReadState BY <1>17 DEF ReadState
<1>18. CASE UNCHANGED vars BY <1>18 DEF vars
<1> QED
  BY <1>1, <1>2, <1>3, <1>4, <1>5, <1>6, <1>7, <1>8, <1>9, <1>10, <1>11, <1>12,
     <1>13, <1>14, <1>15, <1>16, <1>17, <1>18 DEF Next, Run, Query, Environment

LEMMA StepQueryOK == ASSUME NumbersOK, QueryOK, [Next]_vars PROVE QueryOK'
<1>1. CASE QueryBegin BY <1>1 DEF QueryBegin, QueryOK, NumbersOK
<1>2. CASE \E r \in Results : QueryAnswer(r) BY <1>2 DEF QueryAnswer, QueryOK
<1>3. CASE QueryEnd BY <1>3 DEF QueryEnd, QueryOK
<1>4. CASE UNCHANGED query BY <1>4 DEF QueryOK
<1>5. Query \/ UNCHANGED query
  BY DEF Next, Run, Environment, vars, DialSucceeds, DialFails, BackoffElapses,
     RunCancelled, GoOnline, AnnounceUp, TakeRedial, TakeDone, GoOffline,
     AnnounceDown, CloseManager, ManagerHangs, ManagerLeaves, Cancel, ReadState
<1> QED BY <1>1, <1>2, <1>3, <1>4, <1>5 DEF Query

LEMMA StepTypeOK == ASSUME TypeOK, [Next]_vars PROVE TypeOK'
  BY StepNumbersOK, StepFlagsOK, StepChannelOK, StepQueryOK DEF TypeOK

\* The variables keep their types whatever fails: failures never passes 1, and
\* stateCh never holds more than its capacity.
THEOREM TypeCorrect == Spec => []TypeOK
<1>1. Init => TypeOK BY InitIInv DEF IInv
<1>2. TypeOK /\ [Next]_vars => TypeOK' BY StepTypeOK
<1> QED BY <1>1, <1>2, PTL DEF Spec

-----------------------------------------------------------------------------
(* Phases *)

LEMMA StepPhases == ASSUME TypeOK, Phases, [Next]_vars PROVE Phases'
<1> USE DEF Phases, OneConnection, Serving, GotoRun, locked, health
<1>0. NumbersOK BY DEF TypeOK
<1>1. CASE DialSucceeds BY <1>0, <1>1 DEF DialSucceeds, NumbersOK
<1>2. CASE DialFails BY <1>2 DEF DialFails
<1>3. CASE BackoffElapses BY <1>3 DEF BackoffElapses
<1>4. CASE RunCancelled BY <1>4 DEF RunCancelled
<1>5. CASE GoOnline BY <1>0, <1>5 DEF GoOnline, NumbersOK
<1>6. CASE AnnounceUp BY <1>6 DEF AnnounceUp
<1>7. CASE TakeRedial BY <1>7 DEF TakeRedial
<1>8. CASE TakeDone BY <1>8 DEF TakeDone
<1>9. CASE GoOffline BY <1>9 DEF GoOffline
<1>10. CASE AnnounceDown BY <1>10 DEF AnnounceDown
<1>11. CASE CloseManager BY <1>11 DEF CloseManager
<1>12. CASE UNCHANGED <<cur, online, gen, runPc, conn, open>> BY <1>12
<1>13. Run \/ UNCHANGED <<cur, online, gen, runPc, conn, open>>
  BY DEF Next, Query, Environment, vars, QueryBegin, QueryAnswer, QueryEnd,
     ManagerHangs, ManagerLeaves, Cancel, ReadState
<1> QED
  BY <1>1, <1>2, <1>3, <1>4, <1>5, <1>6, <1>7, <1>8, <1>9, <1>10, <1>11, <1>12,
     <1>13 DEF Run

-----------------------------------------------------------------------------
(* The evidence *)

\* Nothing but QueryAnswer touches the record of answers, and it only withdraws a
\* strike of the manager that answers.
LEMMA EvidenceGrows ==
  ASSUME [Next]_vars
  PROVE  /\ condemned \subseteq condemned'
         /\ (\E r \in Results : QueryAnswer(r)) \/ UNCHANGED <<struck, condemned>>
  BY DEF Next, Run, Query, Environment, vars, history, DialSucceeds, DialFails,
     BackoffElapses, RunCancelled, GoOnline, AnnounceUp, TakeRedial, TakeDone,
     GoOffline, AnnounceDown, CloseManager, QueryBegin, QueryAnswer, QueryEnd,
     ManagerHangs, ManagerLeaves, Cancel, ReadState

LEMMA StepAnswered ==
  ASSUME TypeOK, Phases, Answered, Counted, [Next]_vars PROVE Answered'
<1>0. gen \in Nat /\ failures \in {0, 1} /\ QueryOK BY DEF TypeOK, NumbersOK
<1>1. CASE QueryBegin
  <2>1. cur # 0 /\ UNCHANGED gen /\ query' = [query EXCEPT !.pc = "asking", !.gen = gen]
    BY <1>1 DEF QueryBegin, locked
  <2>2. gen # 0 BY <2>1 DEF Phases
  <2> QED BY <1>0, <2>1, <2>2 DEF QueryOK, Answered
<1>2. CASE \E r \in Results : QueryAnswer(r)
  <2> PICK r \in Results : QueryAnswer(r) BY <1>2
  <2>1. /\ query' = [query EXCEPT !.pc = "answered", !.err = r]
        /\ query.pc = "asking" /\ UNCHANGED <<failures, gen>>
    BY DEF QueryAnswer, locked
  <2>2. query'.gen = query.gen /\ query'.err = r /\ query.gen \in 1..gen
    BY <2>1 DEF QueryOK, Answered, TypeOK
  <2>3. r = "disconnect" => query.gen \in condemned' BY DEF QueryAnswer
  <2>4. r = "fail" => query.gen \in struck' BY DEF QueryAnswer
  <2>5. r = "fail" /\ query.gen \in struck => query.gen \in condemned' BY DEF QueryAnswer
  <2>6. failures = 1 => gen \in struck BY <2>1 DEF Counted
  <2> QED BY <2>1, <2>2, <2>3, <2>4, <2>5, <2>6 DEF Answered
<1>3. CASE QueryEnd
  <2>1. query'.pc = "idle" BY <1>0, <1>3 DEF QueryEnd, QueryOK
  <2> QED BY <2>1 DEF Answered
<1>4. CASE GoOnline
  <2>1. failures' = 0 /\ gen' = gen + 1 /\ UNCHANGED <<query, struck, condemned>>
    BY <1>4 DEF GoOnline, history
  <2> QED BY <1>0, <2>1 DEF Answered, QueryOK
<1>5. CASE UNCHANGED <<query, gen, failures, struck, condemned>>
  BY <1>5 DEF Answered
<1>6. Query \/ GoOnline \/ UNCHANGED <<query, gen, failures, struck, condemned>>
  BY DEF Next, Run, Environment, vars, locked, history, DialSucceeds, DialFails,
     BackoffElapses, RunCancelled, AnnounceUp, TakeRedial, TakeDone, GoOffline,
     AnnounceDown, CloseManager, ManagerHangs, ManagerLeaves, Cancel, ReadState
<1> QED BY <1>1, <1>2, <1>3, <1>4, <1>5, <1>6 DEF Query

LEMMA StepCounted ==
  ASSUME TypeOK, Answered, Counted, [Next]_vars PROVE Counted'
<1>0. gen \in Nat /\ failures \in {0, 1} /\ QueryOK BY DEF TypeOK, NumbersOK
<1>1. CASE QueryBegin
  <2>1. UNCHANGED <<failures, gen, struck>> /\ query.pc = "idle"
    BY <1>1 DEF QueryBegin, locked, history
  <2> QED BY <2>1 DEF Counted
<1>2. CASE \E r \in Results : QueryAnswer(r)
  <2> PICK r \in Results : QueryAnswer(r) BY <1>2
  <2>1. /\ query' = [query EXCEPT !.pc = "answered", !.err = r]
        /\ query.pc = "asking" /\ UNCHANGED <<failures, gen>>
        /\ struck \ {query.gen} \subseteq struck'
    BY DEF QueryAnswer, locked
  <2>2. query'.gen = query.gen /\ query'.pc = "answered" BY <1>0, <2>1 DEF QueryOK
  <2> QED BY <2>1, <2>2 DEF Counted
<1>3. CASE QueryEnd
  <2>1. query.pc = "answered" /\ UNCHANGED <<gen, struck>> BY <1>3 DEF QueryEnd, history
  <2>2. CASE query.gen = gen /\ query.err = "fail"
    BY <2>1, <2>2 DEF Answered, Counted
  <2>3. CASE query.gen = gen /\ query.err # "fail"
    <3>1. failures' = 0 BY <1>3, <2>3 DEF QueryEnd, Judge
    <3> QED BY <3>1 DEF Counted
  <2>4. CASE query.gen # gen
    <3>1. failures' = failures BY <1>3, <2>4 DEF QueryEnd
    <3> QED BY <2>1, <2>4, <3>1 DEF Counted
  <2> QED BY <2>2, <2>3, <2>4
<1>4. CASE GoOnline BY <1>4 DEF GoOnline, Counted
<1>5. CASE UNCHANGED <<query, gen, failures, struck>> BY <1>5 DEF Counted
<1>6. Query \/ GoOnline \/ UNCHANGED <<query, gen, failures, struck>>
  BY DEF Next, Run, Environment, vars, locked, history, DialSucceeds, DialFails,
     BackoffElapses, RunCancelled, AnnounceUp, TakeRedial, TakeDone, GoOffline,
     AnnounceDown, CloseManager, ManagerHangs, ManagerLeaves, Cancel, ReadState
<1> QED BY <1>1, <1>2, <1>3, <1>4, <1>5, <1>6 DEF Query

LEMMA StepConvicted ==
  ASSUME TypeOK, Answered, Counted, Convicted, [Next]_vars PROVE Convicted'
<1>0. /\ condemned \subseteq condemned'
      /\ gen \in Nat /\ failures \in {0, 1} /\ QueryOK
  BY EvidenceGrows DEF TypeOK, NumbersOK
<1>1. CASE TakeRedial
  <2>1. gen \in condemned BY <1>1 DEF TakeRedial, GotoRun, Convicted
  <2> QED BY <1>0, <1>1, <2>1 DEF TakeRedial, GotoRun, Convicted, locked
<1>2. CASE TakeDone
  BY <1>2 DEF TakeDone, GotoRun, Convicted
<1>3. CASE GoOnline BY <1>3 DEF GoOnline, GotoRun, Convicted
<1>4. CASE AnnounceUp BY <1>0, <1>4 DEF AnnounceUp, GotoRun, Convicted, locked
<1>5. CASE QueryEnd
  <2>1. query.pc = "answered" /\ UNCHANGED <<gen, runPc, ctxDone, condemned>>
    BY <1>5 DEF QueryEnd, history
  <2>2. redial' => redial \/ gen \in condemned
    <3>1. CASE query.gen # gen BY <1>5, <3>1 DEF QueryEnd
    <3>2. CASE query.gen = gen /\ query.err = "ok" BY <1>5, <3>2 DEF QueryEnd, Judge
    <3>3. CASE query.gen = gen /\ query.err = "disconnect" BY <2>1, <3>3 DEF Answered
    <3>4. CASE query.gen = gen /\ query.err = "fail"
      <4>1. CASE failures = 1 BY <2>1, <3>4, <4>1 DEF Answered
      <4>2. CASE failures = 0
        <5>1. UNCHANGED redial BY <1>5, <3>4, <4>2 DEF QueryEnd, Judge
        <5> QED BY <5>1
      <4> QED BY <1>0, <4>1, <4>2
    <3> QED BY <1>0, <3>1, <3>2, <3>3, <3>4 DEF QueryOK, Results
  <2> QED BY <2>1, <2>2 DEF Convicted
<1>6. CASE runPc' \notin {"up", "serve", "drop"} BY <1>6 DEF Convicted
<1>7. CASE UNCHANGED <<redial, runPc, gen>> /\ (ctxDone => ctxDone')
  BY <1>0, <1>7 DEF Convicted
<1>8. \/ TakeRedial \/ TakeDone \/ GoOnline \/ AnnounceUp \/ QueryEnd
      \/ runPc' \notin {"up", "serve", "drop"}
      \/ UNCHANGED <<redial, runPc, gen>> /\ (ctxDone => ctxDone')
  BY DEF Next, Run, Query, Environment, vars, locked, GotoRun, DialSucceeds, DialFails,
     BackoffElapses, RunCancelled, GoOffline, AnnounceDown, CloseManager, QueryBegin,
     QueryAnswer, ManagerHangs, ManagerLeaves, Cancel, ReadState
<1> QED BY <1>1, <1>2, <1>3, <1>4, <1>5, <1>6, <1>7, <1>8

LEMMA StepIInv == IInv /\ [Next]_vars => IInv'
  BY StepTypeOK, StepPhases, StepAnswered, StepCounted, StepConvicted DEF IInv

LEMMA Inductive == Spec => []IInv
  BY InitIInv, StepIInv, PTL DEF Spec

\* One connection at most, always the one Run holds, and none once it returned.
THEOREM ConnectionsAccounted == Spec => []OneConnection
<1>1. IInv => OneConnection BY DEF IInv, Phases
<1> QED BY <1>1, Inductive, PTL

\* No manager loses its connection without evidence against that very manager.
THEOREM NoUndeservedRedial == Spec => RedialDeserved
<1> DEFINE Deserved ==
      runPc = "serve" /\ runPc' = "drop" /\ ~ctxDone => gen \in condemned
<1>1. IInv /\ [Next]_vars => [Deserved]_vars
  <2> SUFFICES ASSUME IInv, [Next]_vars, runPc = "serve", runPc' = "drop", ~ctxDone
               PROVE  gen \in condemned
    OBVIOUS
  <2>1. redial
    BY DEF Next, Run, Query, Environment, vars, GotoRun, DialSucceeds, DialFails,
       BackoffElapses, RunCancelled, GoOnline, AnnounceUp, TakeRedial, TakeDone,
       GoOffline, AnnounceDown, CloseManager, QueryBegin, QueryAnswer, QueryEnd,
       ManagerHangs, ManagerLeaves, Cancel, ReadState
  <2> QED BY <2>1 DEF IInv, Convicted
<1> QED BY <1>1, Inductive, PTL DEF Spec, RedialDeserved

-----------------------------------------------------------------------------
(* Refinement *)

\* The supervisor implements BusSession: its critical sections and answers map to
\* sessions that are established, found dead and lost, and all the rest to stuttering.
THEOREM SupervisorRefinesSession == Spec => ImplementsSession
<1>1. Init => Session!Init BY DEF Init, Session!Init
<1>2. IInv /\ [Next]_vars => [Session!Next]_Session!session
  <2> SUFFICES ASSUME IInv, [Next]_vars PROVE [Session!Next]_Session!session
    OBVIOUS
  <2> USE DEF Session!session, Session!Next
  <2>1. CASE GoOnline
    <3>1. ~online BY <2>1 DEF IInv, Phases, OneConnection, Serving, GoOnline, GotoRun
    <3> QED BY <2>1, <3>1 DEF GoOnline, Session!Establish, history
  <2>2. CASE GoOffline
    <3>1. cur = gen /\ gen # 0 /\ (gen \in condemned \/ ctxDone)
      BY <2>2 DEF IInv, Phases, Serving, GoOffline, GotoRun, Convicted
    <3>2. online BY <3>1 DEF IInv, Phases, OneConnection
    <3> QED BY <2>2, <3>1, <3>2 DEF GoOffline, Session!Lose, history
  <2>3. CASE \E r \in Results : QueryAnswer(r)
    <3> PICK r \in Results : QueryAnswer(r) BY <2>3
    <3>1. query.gen \in 1..gen BY DEF QueryAnswer, IInv, Answered
    <3>2. condemned' \in {condemned, condemned \cup {query.gen}} BY DEF QueryAnswer
    <3>3. UNCHANGED <<online, gen, ctxDone>> BY DEF QueryAnswer, locked
    <3> QED BY <3>1, <3>2, <3>3 DEF Session!FindDead
  <2>4. CASE Cancel BY <2>4 DEF Cancel, Session!End, locked, history
  <2>5. CASE UNCHANGED <<online, gen, condemned, ctxDone>> BY <2>5
  <2>6. \/ GoOnline \/ GoOffline \/ (\E r \in Results : QueryAnswer(r)) \/ Cancel
        \/ UNCHANGED <<online, gen, condemned, ctxDone>>
    BY DEF Next, Run, Query, Environment, vars, locked, history, DialSucceeds,
       DialFails, BackoffElapses, RunCancelled, AnnounceUp, TakeRedial, TakeDone,
       AnnounceDown, CloseManager, QueryBegin, QueryEnd, ManagerHangs, ManagerLeaves,
       ReadState
  <2> QED BY <2>1, <2>2, <2>3, <2>4, <2>5, <2>6
<1> QED BY <1>1, <1>2, Inductive, PTL DEF Spec, ImplementsSession, Session!Spec

=============================================================================
