------------------------------ MODULE Mailbox ------------------------------
(***************************************************************************)
(* The cap-1 mailbox between the event loop and a worker: offerReplace as  *)
(* the three non-blocking channel operations it is, interleaved with the   *)
(* worker that receives from the same channel and runs one job at a time.  *)
(* (internal/app/commands.go: dispatchUnit, offerReplace, unitWorker.run,  *)
(* and in the same way dispatchTemplate, templateWorker.run)               *)
(*                                                                         *)
(* Commands are numbered in the order they are given; 0 stands for none.   *)
(***************************************************************************)
EXTENDS Naturals

CONSTANTS MaxOffers     \* bound: commands given

ASSUME MailboxAssumption == MaxOffers \in Nat

VARIABLES
    box,            \* the mailbox: the command in it, or 0
    offered,        \* the last command given
    pc,             \* where offerReplace stands
    worker,         \* where the worker stands
    taken,          \* the last command it took
    ctxDone         \* the daemon's context is cancelled

vars == <<box, offered, pc, worker, taken, ctxDone>>

TypeOK ==
    /\ box \in Nat /\ offered \in Nat /\ taken \in Nat
    /\ pc \in {"idle", "send", "drain", "resend"}
    /\ worker \in {"select", "job", "done"}
    /\ ctxDone \in BOOLEAN

Init ==
    /\ box = 0 /\ offered = 0 /\ taken = 0
    /\ pc = "idle" /\ worker = "select" /\ ctxDone = FALSE

-----------------------------------------------------------------------------
(* offerReplace, which the loop alone calls *)

Offer ==
    /\ pc = "idle" /\ pc' = "send"
    /\ offered < MaxOffers /\ offered' = offered + 1
    /\ UNCHANGED <<box, worker, taken, ctxDone>>

\* The first attempt: all is done when the box is free.
Send ==
    /\ pc = "send"
    /\ IF box = 0 THEN box' = offered /\ pc' = "idle" ELSE pc' = "drain" /\ UNCHANGED box
    /\ UNCHANGED <<offered, worker, taken, ctxDone>>

\* A faulty form of Drain: the worker's part of emptying the box is relied upon.
DrainNothing ==
    /\ pc = "drain" /\ pc' = "resend"
    /\ UNCHANGED <<box, offered, worker, taken, ctxDone>>

\* What waits is dropped, if the worker has not taken it meanwhile.
Drain ==
    /\ pc = "drain" /\ pc' = "resend" /\ box' = 0
    /\ UNCHANGED <<offered, worker, taken, ctxDone>>

\* The second attempt; a full box would lose the new command.
Resend ==
    /\ pc = "resend" /\ pc' = "idle"
    /\ box' = IF box = 0 THEN offered ELSE box
    /\ UNCHANGED <<offered, worker, taken, ctxDone>>

-----------------------------------------------------------------------------
(* The worker *)

\* A faulty form of Take: the command is looked at and left in the box.
TakeKeeping ==
    /\ worker = "select" /\ box # 0
    /\ worker' = "job" /\ taken' = box
    /\ UNCHANGED <<box, offered, pc, ctxDone>>

\* With the context cancelled its select may still prefer the mailbox.
Take ==
    /\ worker = "select" /\ box # 0
    /\ worker' = "job" /\ taken' = box /\ box' = 0
    /\ UNCHANGED <<offered, pc, ctxDone>>

\* The job has ended or its timeout has passed, and its outcome is on the queue.
JobEnds ==
    /\ worker = "job" /\ worker' = "select"
    /\ UNCHANGED <<box, offered, pc, taken, ctxDone>>

WorkerEnds ==
    /\ worker = "select" /\ ctxDone /\ worker' = "done"
    /\ UNCHANGED <<box, offered, pc, taken, ctxDone>>

Cancel ==
    /\ ~ctxDone /\ ctxDone' = TRUE
    /\ UNCHANGED <<box, offered, pc, worker, taken>>

-----------------------------------------------------------------------------

Loop == Send \/ Drain \/ Resend
Next == Offer \/ Loop \/ Take \/ JobEnds \/ WorkerEnds \/ Cancel

Spec == Init /\ [][Next]_vars

\* offerReplace never waits; the worker gets to run, and every job ends by its timeout.
FairSpec == Spec /\ WF_vars(Loop) /\ WF_vars(Take \/ JobEnds \/ WorkerEnds)

-----------------------------------------------------------------------------
(* What the mailbox promises *)

\* Between two offers the last command given is in the box or was taken: whatever the
\* worker does in the middle of offerReplace, it is never the new command that gets
\* lost (commands.go:99-101).
NewestKept == pc = "idle" => box = offered \/ (box = 0 /\ taken = offered)

\* "A burst of clicks ends with the last click winning" (commands.go:101): in the end
\* the command that ran last is the last one given, unless the daemon ends first.
LastClickWins == <>[](ctxDone \/ taken = offered)

\* The mailbox implements a place that the next command overwrites.  A new command
\* takes effect when it enters the box or when the box is drained for it.
Latest == INSTANCE LatestCommand
            WITH newest  <- IF pc \in {"send", "drain"} THEN offered - 1 ELSE offered,
                 waiting <- IF pc = "resend" THEN offered ELSE box
ImplementsLatest == Latest!Spec

-----------------------------------------------------------------------------
(* The inductive invariant: the box is free when the second attempt comes *)

Resendable ==
    /\ pc \in {"idle", "send", "drain"} =>
         LET last == IF pc = "idle" THEN offered ELSE offered - 1
         IN  box = last \/ (box = 0 /\ taken = last)
    /\ pc = "resend" => box = 0
    /\ pc # "idle" => offered > 0

IInv == TypeOK /\ Resendable

=============================================================================
