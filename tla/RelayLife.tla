----------------------------- MODULE RelayLife ------------------------------
(***************************************************************************)
(* What TcpServer and TcpRelay count on of each other, as the life of one  *)
(* relay.  The relay promises to emit finished() at most MaxFinished times *)
(* and, once it has been deleted, never again; the server promises to make *)
(* and to delete it, and not before it has finished, unless the server     *)
(* itself goes away.  TcpRelay implements this for the relay it describes, *)
(* TcpServer for every place at which a relay can live.                    *)
(***************************************************************************)
EXTENDS Naturals

CONSTANT MaxFinished

VARIABLES
    alive,          \* there is a relay
    emitted,        \* how often it has emitted finished()
    stopping        \* the server is being destroyed

lifeVars == <<alive, emitted, stopping>>

Init == alive \in BOOLEAN /\ emitted = 0 /\ stopping = FALSE

Make ==
    /\ ~alive /\ ~stopping
    /\ alive' = TRUE /\ UNCHANGED <<emitted, stopping>>

(* One slot of the relay may emit the signal several times.                *)
Finish ==
    /\ alive /\ emitted' \in emitted + 1 .. MaxFinished
    /\ UNCHANGED <<alive, stopping>>

Delete ==
    /\ alive /\ (emitted > 0 \/ stopping)
    /\ alive' = FALSE /\ emitted' = 0 /\ UNCHANGED stopping

Stop == stopping' = TRUE /\ UNCHANGED <<alive, emitted>>

Next == Make \/ Finish \/ Delete \/ Stop

Spec == Init /\ [][Next]_lifeVars
=============================================================================
