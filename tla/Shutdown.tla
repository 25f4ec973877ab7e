------------------------------ MODULE Shutdown ------------------------------
(***************************************************************************)
(* What a client and its governor promise each other about the channels by *)
(* which they end (client.go, dispatch.go).  The client closes out, for a  *)
(* soft stop, or gctl, for a hard one, each once and gctl never after out. *)
(* The governor closes done once, and only after one of the two.           *)
(* Client and Governor, each of which has the other as its environment,    *)
(* both implement this module.                                             *)
(***************************************************************************)

VARIABLES
    out,   \* Client.out is closed
    gctl,  \* Client.gctl, the governor's ctl, is closed
    done   \* Client.cdone, the governor's done, is closed

chans == <<out, gctl, done>>

Init == out = FALSE /\ gctl = FALSE /\ done = FALSE

\* close(c.out) in Stop
CloseOut ==
    /\ ~out
    /\ out' = TRUE
    /\ UNCHANGED <<gctl, done>>

\* close(c.gctl) in Kill
CloseGctl ==
    /\ ~gctl /\ ~out
    /\ gctl' = TRUE
    /\ UNCHANGED <<out, done>>

\* close(g.done) at the end of the governor's run
CloseDone ==
    /\ ~done /\ (out \/ gctl)
    /\ done' = TRUE
    /\ UNCHANGED <<out, gctl>>

Next == CloseOut \/ CloseGctl \/ CloseDone

Spec == Init /\ [][Next]_chans

=============================================================================
