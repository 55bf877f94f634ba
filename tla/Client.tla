------------------------------- MODULE Client -------------------------------
(***************************************************************************)
(* The program of client.cpp and main.cpp: start() replaces the Controller *)
(* and, in client mode, tests the server with an AddressTester of its own, *)
(* which is deleted when its verdict is in.  The Controllers are reduced   *)
(* to what start() makes of them (Controller.tla has the rest): the port   *)
(* each listens on, and that its destructor closes it.                     *)
(***************************************************************************)
EXTENDS AddressTester, Header

CONSTANTS
    MaxStarts,      \* bound: calls of Client::start()
    AppTesters,     \* testers that another application of the library keeps
    Ports

ASSUME ClientAssumption ==
    /\ MaxStarts \in Nat
    /\ Testers = (1 .. MaxStarts) \cup AppTesters /\ AppTesters \cap (1 .. MaxStarts) = {}
    /\ 0 \notin Ports

VARIABLES
    starts,         \* how many Controllers were made; the last one is lc
    port,           \* the port each Controller's TCP server listens on, or 0
    doomed,         \* Controllers whose deleteLater() is not carried out yet
    running,        \* what the last start() returned
    printed,        \* verdicts printed for each tester
    deleted,        \* testers that were deleted
    debug           \* profile.debug

clientVars == <<starts, port, doomed, running, printed, deleted, debug>>
vars == <<testVars, clientVars>>

Controllers == 1 .. MaxStarts
lc == starts

TypeOK ==
    /\ TesterTypeOK
    /\ starts \in 0 .. MaxStarts
    /\ port \in [Controllers -> Ports \cup {0}]
    /\ doomed \subseteq Controllers
    /\ running \in BOOLEAN /\ debug \in BOOLEAN
    /\ printed \in [Controllers -> 0 .. 1]
    /\ deleted \subseteq Controllers

Init ==
    /\ TesterInit
    /\ starts = 0 /\ port = [c \in Controllers |-> 0] /\ doomed = {}
    /\ running = FALSE
    /\ printed = [t \in Controllers |-> 0] /\ deleted = {}
    /\ debug \in BOOLEAN

-----------------------------------------------------------------------------
(* An IPv4 and an IPv6 address survive being packed and parsed.            *)
headerTest ==
    LET v6 == [type |-> IPV6, port |-> <<0, 56>>,
               host |-> <<32, 1, 13, 184, 133, 163, 0, 0, 0, 0, 138, 46, 16, 16, 32, 32>>]
        v4 == [type |-> IPV4, port |-> <<0, 56>>, host |-> <<1, 2, 3, 4>>]
    IN  \A a \in {v6, v4} : parseHeader(packAddress(a)).dest = a

(* Controller::start() on port p: nothing listens when the port is taken   *)
(* or cannot be bound; TCP listens and UDP does not; or both do.           *)
Listens(p) ==
    \/ port' = [port EXCEPT ![starts'] = 0] /\ running' = FALSE
    \/ /\ \A c \in Controllers : port[c] # p
       /\ port' = [port EXCEPT ![starts'] = p] /\ running' \in BOOLEAN

startKeepsOld(isServer) ==
    /\ starts < MaxStarts
    /\ debug => headerTest
    /\ starts' = starts + 1
    /\ UNCHANGED doomed
    /\ IF isServer THEN UNCHANGED testVars
       ELSE \E to \in {"ip", "null"} : startConnectivityTest(starts', to)
    /\ \E p \in Ports : Listens(p)
    /\ printed' = [printed EXCEPT ![starts'] = Len(verdicts'[starts'])]
    /\ UNCHANGED <<deleted, debug>>

(* start().  The old Controller goes when the event loop gets to it; until *)
(* then it listens on.  setup() may name a method that is not usable, and  *)
(* then start() listens on nothing: the first outcome of Listens.          *)
start(isServer) ==
    /\ starts < MaxStarts
    /\ debug => headerTest
    /\ starts' = starts + 1
    /\ doomed' = IF starts > 0 THEN doomed \cup {lc} ELSE doomed
    /\ IF isServer THEN UNCHANGED testVars
       ELSE \E to \in {"ip", "null"} : startConnectivityTest(starts', to)
    /\ \E p \in Ports : Listens(p)
    /\ printed' = [printed EXCEPT ![starts'] = Len(verdicts'[starts'])]
    /\ UNCHANGED <<deleted, debug>>

(* ~Controller(), from the event loop.                                     *)
DeleteController ==
    /\ \E c \in doomed : doomed' = doomed \ {c} /\ port' = [port EXCEPT ![c] = 0]
    /\ UNCHANGED <<testVars, starts, running, printed, deleted, debug>>

(* A slot of a tester of the client, with onConnectivityResultArrived() in *)
(* it when a verdict is emitted.                                           *)
TesterSlot(t) ==
    /\ t \notin deleted /\ Slot(t)
    /\ printed' = [printed EXCEPT ![t] = @ + (Len(verdicts'[t]) - Len(verdicts[t]))]
    /\ UNCHANGED <<starts, port, doomed, running, deleted, debug>>

(* sender()->deleteLater()                                                 *)
DeleteTester ==
    /\ \E t \in Controllers \ deleted : printed[t] > 0 /\ deleted' = deleted \cup {t}
    /\ UNCHANGED <<testVars, starts, port, doomed, running, printed, debug>>

(* Another application: it may keep a tester and use it for both tests.    *)
AppTests(t) ==
    /\ startConnectivityTest(t, "ip") \/ startLagTest(t)
    /\ UNCHANGED clientVars

AppSlot(t) == Slot(t) /\ UNCHANGED clientVars

Next ==
    \/ \E isServer \in BOOLEAN : start(isServer)
    \/ DeleteController \/ DeleteTester
    \/ \E t \in Controllers : TesterSlot(t)
    \/ \E t \in AppTesters : AppTests(t) \/ AppSlot(t)

(* The event loop serves timers and deferred deletes.  It owes nobody an   *)
(* answer from the server.                                                 *)
Spec ==
    /\ Init /\ [][Next]_vars
    /\ WF_vars(DeleteController)
    /\ \A t \in Controllers : WF_vars(timer[t] /\ TesterSlot(t))
    /\ \A t \in AppTesters : WF_vars(timer[t] /\ AppSlot(t))

-----------------------------------------------------------------------------
(* Properties.                                                             *)

(* A test that was started reports a latency or an error, and a verdict    *)
(* unless its server has accepted the connection and keeps silent: then no *)
(* timer runs (addresstester.cpp:72) and the tester waits for ever.        *)
TestAnswered ==
    \A t \in Testers :
        socket[t] = "Connecting" ~>
            /\ lags[t] # <<>>
            /\ testingConnectivity[t] => Answered(t) \/ WaitsForEver(t)

(* Of several Controllers only the last one listens, once the event loop   *)
(* has run, and it does if start() said so (client.cpp:72-91).             *)
OnlyTheLastProxy ==
    /\ \A c \in Controllers : port[c] # 0 => c = lc \/ c \in doomed
    /\ running => port[lc] # 0 /\ lc \notin doomed
=============================================================================
