----------------------------- MODULE TcpServer ------------------------------
(***************************************************************************)
(* lib/tcpserver.cpp: the QTcpServer that lives in the main thread, accepts *)
(* connections, hands each one to a TcpRelay moved to a worker thread, and *)
(* deletes the relay once it has emitted finished().  A relay is known by  *)
(* its address (the pointer kept in conList and carried by the queued      *)
(* finished() events), which the allocator may give to a later relay.  Of  *)
(* TcpRelay only what the server sees is here: it emits finished() once or *)
(* more (at most TcpRelay!MaxFinished times) and may ban its peer first.   *)
(***************************************************************************)
EXTENDS Naturals, Sequences, SequencesExt

CONSTANTS
    Addrs,          \* addresses the allocator can give to a TcpRelay
    Peers,          \* remote IP addresses of the clients
    TotalWorkers,   \* std::thread::hardware_concurrency(), at least 1
    Bans,           \* server mode with autoBan
    ReusesAddress,  \* the allocator may reuse an address still named by a queued event
    MaxEmit,        \* bound: finished() emissions of one relay
    MaxQueue        \* bound: finished() events waiting for the main thread

ASSUME ServerAssumption ==
    /\ TotalWorkers \in Nat \ {0} /\ MaxEmit \in Nat \ {0} /\ MaxQueue \in Nat
    /\ Bans \in BOOLEAN /\ ReusesAddress \in BOOLEAN

Workers == 0 .. TotalWorkers - 1

VARIABLES
    phase,          \* what the main thread is doing (see Phases)
    listening,      \* QTcpServer::isListening()
    running,        \* the worker threads whose event loop runs
    relay,          \* by address: the relay that lives there, or Freed
    accepting,      \* the peer whose connection incomingConnection() has in hand
    conList,
    doomed,         \* relays with a deferred delete posted to their thread
    queue,          \* finished() events posted to the main thread, by sender
    banned,         \* Common's bannedAddressVector
    workerThreadID

vars == <<phase, listening, running, relay, accepting, conList, doomed, queue,
          banned, workerThreadID>>

(* "closing": blocked in thread->wait() inside close(); "destroying": the  *)
(* same inside the destructor; "destroyed": the destructor has returned;   *)
(* "abandoned": it has, and had found the server closed already.           *)
Phases == {"idle", "closing", "destroying", "destroyed", "abandoned"}

Relays == [emitted : 0 .. MaxEmit, peer : Peers, worker : Workers]
Freed  == [emitted |-> "freed"]

Alive == {a \in Addrs : relay[a] # Freed}
Open  == {a \in Alive : relay[a].emitted = 0}

(* The life of whoever lives at the address.                               *)
Life(a) ==
    INSTANCE RelayLife
    WITH alive <- a \in Alive, MaxFinished <- MaxEmit,
         emitted <- IF a \in Alive THEN relay[a].emitted ELSE 0,
         stopping <- phase \in {"destroying", "destroyed", "abandoned"}

Init ==
    /\ phase = "idle" /\ listening = FALSE /\ running = {}
    /\ relay = [a \in Addrs |-> Freed]
    /\ accepting = {} /\ conList = {} /\ doomed = {} /\ queue = <<>> /\ banned = {}
    /\ workerThreadID = 0

-----------------------------------------------------------------------------
(* The main thread.  It goes on while the worker threads do, and does one  *)
(* thing at a time.                                                        *)

MainLoop == phase = "idle" /\ accepting = {}

listen ==
    /\ MainLoop /\ ~listening
    /\ listening' = TRUE /\ running' = Workers
    /\ UNCHANGED <<phase, relay, accepting, conList, doomed, queue, banned, workerThreadID>>

NewAddress(a) == a \notin Alive /\ (ReusesAddress \/ a \notin ToSet(queue))

NextWorkerUnwrapped(id) == id + 1
NextWorker(id) == (id + 1) % TotalWorkers

incomingConnectionUnchecked(peer) ==
    /\ MainLoop /\ listening /\ \E a \in Addrs : NewAddress(a)
    /\ accepting' = {peer}
    /\ UNCHANGED <<phase, listening, running, relay, conList, doomed, queue, banned,
                   workerThreadID>>

(* The ban list's mutex is free again once the peer has been looked up: a  *)
(* worker thread may ban the peer before it has its relay.  (That there is *)
(* a free address is a bound of the model.)                                *)
incomingConnection(peer) ==
    /\ MainLoop /\ listening /\ \E a \in Addrs : NewAddress(a)
    /\ accepting' = IF Bans /\ peer \in banned THEN {} ELSE {peer}
    /\ UNCHANGED <<phase, listening, running, relay, conList, doomed, queue, banned,
                   workerThreadID>>

newTcpRelay ==
    /\ accepting' = {}
    /\ \E peer \in accepting, a \in Addrs :
          /\ NewAddress(a)
          /\ relay' = [relay EXCEPT ![a] = [emitted |-> 0, peer |-> peer,
                                            worker |-> workerThreadID]]
          /\ conList' = conList \cup {a}
    /\ workerThreadID' = NextWorker(workerThreadID)
    /\ UNCHANGED <<phase, listening, running, doomed, queue, banned>>

onConnectionFinishedForgets ==
    /\ MainLoop /\ queue # <<>>
    /\ queue' = Tail(queue)
    /\ conList' = conList \ {Head(queue)}
    /\ UNCHANGED <<phase, listening, running, relay, accepting, doomed, banned,
                   workerThreadID>>

onConnectionFinishedTakesAny ==
    /\ MainLoop /\ queue # <<>>
    /\ queue' = Tail(queue)
    /\ \E con \in conList : conList' = conList \ {con} /\ doomed' = doomed \cup {con}
    /\ UNCHANGED <<phase, listening, running, relay, accepting, banned, workerThreadID>>

(* sender() is null if no relay lives at the address any more; conList     *)
(* holds none such.                                                        *)
onConnectionFinished ==
    /\ MainLoop /\ queue # <<>>
    /\ queue' = Tail(queue)
    /\ LET con == Head(queue)
       IN  IF con \in conList
           THEN conList' = conList \ {con} /\ doomed' = doomed \cup {con}
           ELSE UNCHANGED <<conList, doomed>>
    /\ UNCHANGED <<phase, listening, running, relay, accepting, banned, workerThreadID>>

(* close(): every thread is told to quit, and the main thread waits.       *)
close ==
    /\ MainLoop
    /\ phase' = "closing"
    /\ UNCHANGED <<listening, running, relay, accepting, conList, doomed, queue, banned,
                   workerThreadID>>

destructorClosesFirst ==
    /\ MainLoop
    /\ phase' = IF listening THEN "destroying" ELSE "abandoned"
    /\ UNCHANGED <<listening, running, relay, accepting, conList, doomed, queue, banned,
                   workerThreadID>>

destructor ==
    /\ MainLoop
    /\ phase' = IF listening THEN "destroying" ELSE "abandoned"
    /\ doomed' = doomed \cup conList
    /\ UNCHANGED <<listening, running, relay, accepting, conList, queue, banned,
                   workerThreadID>>

(* The last wait() returns.                                                *)
closed ==
    /\ phase \in {"closing", "destroying"} /\ running = {}
    /\ phase' = IF phase = "closing" THEN "idle" ELSE "destroyed"
    /\ listening' = FALSE
    /\ UNCHANGED <<running, relay, accepting, conList, doomed, queue, banned,
                   workerThreadID>>

-----------------------------------------------------------------------------
(* The worker threads.  Their loops go on until they see the quit.         *)

finished(a) ==
    /\ a \in Alive /\ relay[a].worker \in running
    /\ relay[a].emitted < MaxEmit /\ Len(queue) < MaxQueue
    /\ relay' = [relay EXCEPT ![a].emitted = @ + 1]
    /\ queue' = Append(queue, a)
    /\ banned' \in {banned} \cup
          (IF Bans /\ relay[a].emitted = 0 THEN {banned \cup {relay[a].peer}} ELSE {})
    /\ UNCHANGED <<phase, listening, running, accepting, conList, doomed, workerThreadID>>

(* The UDP relay bans an address.                                          *)
banAddress(peer) ==
    /\ MainLoop /\ Bans /\ peer \notin banned
    /\ banned' = banned \cup {peer}
    /\ UNCHANGED <<phase, listening, running, relay, accepting, conList, doomed, queue,
                   workerThreadID>>

DeleteAll(dead) ==
    /\ relay' = [a \in Addrs |-> IF a \in dead THEN Freed ELSE relay[a]]
    /\ doomed' = doomed \ dead
    /\ UNCHANGED <<listening, accepting, conList, queue, banned, workerThreadID, phase>>

deferredDelete(a) ==
    /\ a \in doomed /\ relay[a].worker \in running
    /\ DeleteAll({a}) /\ UNCHANGED running

(* A thread that leaves its loop carries out its deferred deletes.         *)
threadFinished(w) ==
    /\ phase \in {"closing", "destroying"} /\ w \in running
    /\ running' = running \ {w}
    /\ DeleteAll({a \in doomed : relay[a].worker = w})

Over == phase \in {"destroyed", "abandoned"} /\ UNCHANGED vars

Next ==
    \/ listen \/ close \/ closed \/ destructor \/ newTcpRelay \/ onConnectionFinished
    \/ \E peer \in Peers : incomingConnection(peer) \/ banAddress(peer)
    \/ \E a \in Addrs : finished(a) \/ deferredDelete(a)
    \/ \E w \in Workers : threadFinished(w)
    \/ Over

Safety == Init /\ [][Next]_vars

(* Every event loop serves the events posted to it, and a thread told to   *)
(* quit does.                                                              *)
Spec ==
    /\ Safety
    /\ WF_vars(newTcpRelay) /\ WF_vars(onConnectionFinished) /\ WF_vars(closed)
    /\ \A a \in Addrs : WF_vars(deferredDelete(a))
    /\ \A w \in Workers : WF_vars(threadFinished(w))

-----------------------------------------------------------------------------
(* Properties.                                                             *)

(* Types; the index into threadList stays in range.                        *)
TypeOK ==
    /\ phase \in Phases /\ listening \in BOOLEAN /\ running \subseteq Workers
    /\ relay \in [Addrs -> {Freed} \cup Relays] /\ accepting \subseteq Peers
    /\ conList \subseteq Addrs /\ doomed \subseteq Addrs
    /\ queue \in Seq(Addrs) /\ banned \subseteq Peers
    /\ workerThreadID \in Workers

(* conList and the pending deletions account for every relay: one that is  *)
(* alive is in one or the other, never in both, and until the server is    *)
(* destroyed neither names a relay that was freed.                         *)
NoOrphan ==
    /\ Alive \subseteq conList \cup doomed
    /\ phase \in {"idle", "closing"} =>
          conList \cap doomed = {} /\ conList \cup doomed \subseteq Alive

(* Nobody's connection is cut: only a relay that has finished is deleted,  *)
(* until the server is destroyed.  ("sometimes the finished signal from    *)
(* TcpRelay gets emitted multiple times", tcpserver.cpp:72.)               *)
LiveRelayKept ==
    phase \in {"idle", "closing"} => doomed \cap Open = {}

(* The destructor of a listening server takes every relay with it.         *)
DestroyedLeavesNothing == phase = "destroyed" => Alive = {}

(* To the relays the server keeps what they count on: whoever lives at an  *)
(* address lives there until it has finished, however many finished() of   *)
(* it and of others are still queued, or until the server is destroyed.    *)
LivesAsPromised ==
    /\ \A a \in Addrs : Life(a)!Init
    /\ [][\A a \in Addrs : [Life(a)!Next]_(Life(a)!lifeVars)]_vars

NewRelayFor(peer) ==
    \E a \in Addrs : a \notin Alive /\ a \in Alive' /\ relay'[a].peer = peer

(* A ban is for good.  What races with it is one connection at most: the   *)
(* one that passed the check when the ban was not yet made still gets its  *)
(* relay, and whatever the peer opens after that does not.                 *)
BanHolds ==
    [][\A peer \in banned :
          /\ peer \in banned'
          /\ NewRelayFor(peer) => peer \in accepting \ accepting'
          /\ peer \in accepting' => peer \in accepting]_vars

(* A relay that has finished is deleted, unless the server is closed.      *)
FinishedRelayFreed ==
    \A a \in Addrs :
        (a \in Alive \ Open) ~> (a \notin Alive \/ phase # "idle" \/ ~listening)
=============================================================================
