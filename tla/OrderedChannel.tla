--------------------------- MODULE OrderedChannel ---------------------------
(***************************************************************************)
(* What one direction of a TcpRelay promises its two peers: the segments   *)
(* it accepts on one socket leave by the other one, in order, none of them *)
(* lost or doubled.  On the encrypting side the first segment, and only    *)
(* that one, is preceded by the cipher's IV.  Segments accepted before the *)
(* far side is there are held back and leave together.  A closed channel   *)
(* accepts nothing, but may still let go of what it held.                  *)
(***************************************************************************)
EXTENDS Naturals, Sequences

CONSTANT Framed         \* the first segment carries the IV (encrypting side)

VARIABLES
    accepted,           \* number of segments taken in
    delivered,          \* the segments handed to the far socket
    closed

chanVars == <<accepted, delivered, closed>>

(* The i-th segment as it leaves: as it came, encrypted, or encrypted and   *)
(* preceded by the IV.                                                     *)
Segment(i) ==
    [n |-> i,
     form |-> IF ~Framed THEN "plain" ELSE IF i = 1 THEN "framed" ELSE "cipher"]

Stream(n) == [i \in 1 .. n |-> Segment(i)]

Init == accepted = 0 /\ delivered = <<>> /\ closed = FALSE

(* One segment comes in: it is held, or everything leaves with it; the     *)
(* connection attempt it triggers may fail at once and close the channel.  *)
Accept ==
    /\ ~closed
    /\ accepted' = accepted + 1
    /\ \/ delivered' = delivered /\ delivered = <<>> /\ closed' \in BOOLEAN
       \/ delivered' = Stream(accepted') /\ UNCHANGED closed

(* The far socket is there: everything held back leaves.                   *)
Forward ==
    /\ delivered = <<>>
    /\ delivered' = Stream(accepted)
    /\ UNCHANGED <<accepted, closed>>

Close == ~closed /\ closed' = TRUE /\ UNCHANGED <<accepted, delivered>>

Next == Accept \/ Forward \/ Close

Safety == Init /\ [][Next]_chanVars

(* Held segments do not stay held: they leave, or the channel is closed.   *)
Settle == ~closed /\ delivered # Stream(accepted) /\ (Forward \/ Close)

Spec == Safety /\ WF_chanVars(Settle)
=============================================================================
