----------------------------- MODULE BusSession -----------------------------
(***************************************************************************)
(* What a Supervisor promises to the rest of the daemon, without its locks,*)
(* channels, counters and calls: a scope is connected or not, sessions are *)
(* numbered, and a session ends only after evidence against that session   *)
(* or because the daemon ends.  (internal/systemd/supervisor.go:12-19)     *)
(***************************************************************************)
EXTENDS Naturals

VARIABLES
    up,             \* a session is established
    serial,         \* number of the present or else the last session
    evidence,       \* the sessions that were found dead
    ending          \* the daemon is to stop

session == <<up, serial, evidence, ending>>

Init == up = FALSE /\ serial = 0 /\ evidence = {} /\ ending = FALSE

Establish ==
    /\ ~up /\ up' = TRUE
    /\ serial' = serial + 1
    /\ UNCHANGED <<evidence, ending>>

\* Only a session that exists or existed can be found dead.
FindDead ==
    /\ \E n \in 1..serial : evidence' = evidence \cup {n}
    /\ UNCHANGED <<up, serial, ending>>

Lose ==
    /\ up /\ up' = FALSE
    /\ serial \in evidence \/ ending
    /\ UNCHANGED <<serial, evidence, ending>>

End == ending' = TRUE /\ UNCHANGED <<up, serial, evidence>>

Next == Establish \/ FindDead \/ Lose \/ End

Spec == Init /\ [][Next]_session

=============================================================================
