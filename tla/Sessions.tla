------------------------------ MODULE Sessions ------------------------------
(***************************************************************************)
(* What a UdpRelay promises, as a translator of datagrams: whoever sends   *)
(* to it while it is open, and is not banned, has a session until it is    *)
(* closed; a datagram goes out only for the client whose it is, and comes  *)
(* back only to a client that has a session; and each datagram that leaves *)
(* encrypted bears a number (an IV) that none before it had.  It takes one *)
(* datagram at a time: a ban stops all but the one taken before it.        *)
(***************************************************************************)
EXTENDS Naturals

CONSTANT Clients

VARIABLES
    encryptsUp,     \* a client's relay encrypts upwards, a server's downwards
    open,
    session,        \* the clients that have one
    taken,          \* the client whose datagram is on its way out
    banned,
    nextIV,         \* the number the next encrypted datagram gets
    last            \* the last datagram sent

sessionVars == <<encryptsUp, open, session, taken, banned, nextIV, last>>

None == [way |-> "none"]

Init ==
    /\ encryptsUp \in BOOLEAN /\ open = FALSE /\ session = {} /\ taken = {} /\ banned = {}
    /\ nextIV = 1 /\ last = None

Open ==
    /\ taken = {} /\ ~open /\ open' = TRUE
    /\ UNCHANGED <<encryptsUp, session, taken, banned, nextIV, last>>

(* Numbers may be drawn for nothing.                                       *)
Skip == nextIV' \in {nextIV, nextIV + 1} /\ UNCHANGED last

Close ==
    /\ taken = {} /\ open' = FALSE /\ session' = {} /\ Skip
    /\ UNCHANGED <<encryptsUp, taken, banned>>

Encrypts(way) == (way = "up") = encryptsUp

Send(way, client) ==
    /\ last' = [way |-> way, client |-> client,
                iv |-> IF Encrypts(way) THEN nextIV ELSE 0]
    /\ nextIV' = IF Encrypts(way) THEN nextIV + 1 ELSE nextIV

(* A datagram that is taken, or lost.                                      *)
Take(client) ==
    /\ taken = {} /\ open /\ client \notin banned
    /\ session' = session \cup {client}
    /\ \/ taken' = {client} /\ UNCHANGED <<nextIV, last>>
       \/ UNCHANGED taken /\ Skip
    /\ UNCHANGED <<encryptsUp, open, banned>>

Pass(client) ==
    /\ taken = {client} /\ taken' = {}
    /\ Send("up", client) \/ Skip
    /\ UNCHANGED <<encryptsUp, open, session, banned>>

Answer(client) ==
    /\ taken = {} /\ open /\ client \in session
    /\ Send("down", client)
    /\ UNCHANGED <<encryptsUp, open, session, taken, banned>>

(* A datagram that leads to none.                                          *)
Drop == taken = {} /\ Skip /\ UNCHANGED <<encryptsUp, open, session, taken, banned>>

(* Only a server bans.                                                     *)
Ban(client) ==
    /\ ~encryptsUp /\ banned' = banned \cup {client}
    /\ UNCHANGED <<encryptsUp, open, session, taken, nextIV, last>>

Next ==
    \/ Open \/ Close \/ Drop
    \/ \E client \in Clients : Take(client) \/ Pass(client) \/ Answer(client) \/ Ban(client)

Spec == Init /\ [][Next]_sessionVars
=============================================================================
