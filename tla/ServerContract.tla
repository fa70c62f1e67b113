--------------------------- MODULE ServerContract ---------------------------
(***************************************************************************)
(* What the spawn task of src/backend/server.rs promises to whoever holds  *)
(* a ServerHandle, without pipes, channels or tasks: a process runs until  *)
(* it exits, a holder may ask for it to be killed, an accepted request is  *)
(* always carried out, and the exit is announced once, never before the    *)
(* process is dead.                                                        *)
(***************************************************************************)

VARIABLES
    alive,      \* the llama-server process runs
    asked,      \* some kill request was accepted (kill_server returned Ok)
    announced   \* the exit notification was sent

vars == <<alive, asked, announced>>

TypeOK == alive \in BOOLEAN /\ asked \in BOOLEAN /\ announced \in BOOLEAN

Init == alive = TRUE /\ asked = FALSE /\ announced = FALSE

Ask == asked' = TRUE /\ UNCHANGED <<alive, announced>>

\* A process may exit on its own at any time.
Die == alive /\ alive' = FALSE /\ UNCHANGED <<asked, announced>>

\* Only a dead process is announced.
Announce == ~alive /\ announced' = TRUE /\ UNCHANGED <<alive, asked>>

Next == Ask \/ Die \/ Announce

Spec == Init /\ [][Next]_vars

-----------------------------------------------------------------------------
(* A dead process never runs again, an accepted request is never taken      *)
(* back, and an announcement is final.                                      *)
NeverUndone ==
    [][ /\ ~alive => ~alive'
        /\ asked => asked'
        /\ announced => announced' ]_vars

\* The kill promise, stated here for the specifications that implement it.
KillPromise == asked ~> ~alive
=============================================================================
