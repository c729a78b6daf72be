--------------------------- MODULE MailboxProofs ---------------------------
(***************************************************************************)
(* offerReplace never loses the newest command and implements a place that *)
(* the next command overwrites, for any number of commands.                *)
(***************************************************************************)
EXTENDS Mailbox, TLAPS

LEMMA InitIInv == Init => IInv
<1> SUFFICES ASSUME Init PROVE IInv
  OBVIOUS
<1>1. pc = "idle" /\ box = offered /\ taken = offered
  BY DEF Init
<1>2. TypeOK
  BY DEF Init, TypeOK
<1> QED
  BY <1>1, <1>2 DEF IInv, Resendable

\* The steps of offerReplace.
LEMMA StepLoop == ASSUME IInv, Offer \/ Loop PROVE IInv'
<1>1. CASE Offer
  BY <1>1 DEF IInv, TypeOK, Resendable, Offer
<1>2. CASE Send
  BY <1>2 DEF IInv, TypeOK, Resendable, Send
<1>3. CASE Drain
  BY <1>3 DEF IInv, TypeOK, Resendable, Drain
<1>4. CASE Resend
  BY <1>4 DEF IInv, TypeOK, Resendable, Resend
<1> QED
  BY <1>1, <1>2, <1>3, <1>4 DEF Loop

\* The steps of the worker, and the end of the daemon.
LEMMA StepWorker ==
    ASSUME IInv, Take \/ JobEnds \/ WorkerEnds \/ Cancel \/ UNCHANGED vars PROVE IInv'
<1>1. CASE Take
  BY <1>1 DEF IInv, TypeOK, Resendable, Take
<1>2. CASE JobEnds
  BY <1>2 DEF IInv, TypeOK, Resendable, JobEnds
<1>3. CASE WorkerEnds
  BY <1>3 DEF IInv, TypeOK, Resendable, WorkerEnds
<1>4. CASE Cancel
  BY <1>4 DEF IInv, TypeOK, Resendable, Cancel
<1>5. CASE UNCHANGED vars
  BY <1>5 DEF IInv, TypeOK, Resendable, vars
<1> QED
  BY <1>1, <1>2, <1>3, <1>4, <1>5

LEMMA Inductive == IInv /\ [Next]_vars => IInv'
BY StepLoop, StepWorker DEF Next

\* Whatever the worker does in the middle of offerReplace, it is never the new command
\* that gets lost (commands.go:99-101).
THEOREM NewestNeverLost == Spec => []NewestKept
<1>1. IInv => NewestKept
  BY DEF IInv, Resendable, NewestKept
<1> QED
  BY InitIInv, Inductive, <1>1, PTL DEF Spec

-----------------------------------------------------------------------------
(* The refinement *)

\* A step of offerReplace gives the new command or changes nothing to be seen.
LEMMA LoopRefines == ASSUME IInv, Offer \/ Loop PROVE [Latest!Next]_Latest!commands
<1> USE DEF Latest!Next, Latest!Give, Latest!Take, Latest!commands
<1>1. CASE Offer
  BY <1>1 DEF IInv, TypeOK, Offer
<1>2. CASE Send
  BY <1>2 DEF IInv, TypeOK, Send
<1>3. CASE Drain
  BY <1>3 DEF IInv, TypeOK, Drain
<1>4. CASE Resend
  BY <1>4 DEF IInv, TypeOK, Resendable, Resend
<1> QED
  BY <1>1, <1>2, <1>3, <1>4 DEF Loop

\* What the worker takes is what waits.
LEMMA WorkerRefines ==
    ASSUME IInv, Take \/ JobEnds \/ WorkerEnds \/ Cancel \/ UNCHANGED vars
    PROVE  [Latest!Next]_Latest!commands
<1> USE DEF Latest!Next, Latest!Give, Latest!Take, Latest!commands
<1>1. CASE Take
  BY <1>1 DEF IInv, TypeOK, Resendable, Take
<1>2. CASE JobEnds
  BY <1>2 DEF JobEnds
<1>3. CASE WorkerEnds
  BY <1>3 DEF WorkerEnds
<1>4. CASE Cancel
  BY <1>4 DEF Cancel
<1>5. CASE UNCHANGED vars
  BY <1>5 DEF vars
<1> QED
  BY <1>1, <1>2, <1>3, <1>4, <1>5

\* The three channel operations of offerReplace, interleaved with the worker in any way,
\* amount to overwriting the command that waits.
THEOREM MailboxRefinesLatest == Spec => ImplementsLatest
<1>1. Init => Latest!Init
  BY DEF Init, Latest!Init
<1>2. IInv /\ [Next]_vars => [Latest!Next]_Latest!commands
  BY LoopRefines, WorkerRefines DEF Next
<1> QED
  BY InitIInv, Inductive, <1>1, <1>2, PTL DEF Spec, ImplementsLatest, Latest!Spec

=============================================================================
