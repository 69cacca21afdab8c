---------------------------- MODULE SpawnPromise ----------------------------
(***************************************************************************)
(* What a spawned flowgraph promises its supervisor, with the sockets, the *)
(* tasks and their interleavings left out: it stops cleanly only after a   *)
(* stop was accepted and the engine has settled, and it says so once,      *)
(* before it exits with code 0.  It may fail at any moment.                *)
(***************************************************************************)
VARIABLES
    accepted,   \* the stop command was accepted
    settled,    \* the engine is gone
    acked,      \* `stopped` was sent
    exit        \* "none", "zero" or "nonzero"

vars == <<accepted, settled, acked, exit>>

Init == /\ accepted = FALSE /\ settled = FALSE /\ acked = FALSE
        /\ exit = "none"

Running == exit = "none"

Accept == /\ Running /\ ~accepted
          /\ accepted' = TRUE
          /\ UNCHANGED <<settled, acked, exit>>

Settle == /\ Running /\ ~settled
          /\ settled' = TRUE
          /\ UNCHANGED <<accepted, acked, exit>>

\* The acknowledgement, and with it or later the clean exit.
Acknowledge == /\ Running /\ accepted /\ settled /\ ~acked
               /\ acked' = TRUE
               /\ exit' \in {"none", "zero"}
               /\ UNCHANGED <<accepted, settled>>

ExitClean == /\ Running /\ acked
             /\ exit' = "zero"
             /\ UNCHANGED <<accepted, settled, acked>>

ExitFailed == /\ Running
              /\ exit' = "nonzero"
              /\ UNCHANGED <<accepted, settled, acked>>

Next == Accept \/ Settle \/ Acknowledge \/ ExitClean \/ ExitFailed

Spec == Init /\ [][Next]_vars
=============================================================================
