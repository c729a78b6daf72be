--------------------------- MODULE LatestCommand ---------------------------
(***************************************************************************)
(* What a command mailbox promises (internal/app/commands.go:99-101): a    *)
(* place for one command, which the next one overwrites, and a worker that *)
(* takes what is there.  Commands are numbered in the order they are given *)
(* and 0 stands for none.                                                  *)
(***************************************************************************)
EXTENDS Naturals

VARIABLES
    newest,         \* the last command given
    waiting,        \* the command that waits, or 0
    taken           \* the last command the worker took

commands == <<newest, waiting, taken>>

Init == newest = 0 /\ waiting = 0 /\ taken = 0

\* A new command takes the place of the one that waits.
Give == newest' = newest + 1 /\ waiting' = newest + 1 /\ UNCHANGED taken

Take == waiting # 0 /\ taken' = waiting /\ waiting' = 0 /\ UNCHANGED newest

Next == Give \/ Take

Spec == Init /\ [][Next]_commands

=============================================================================
