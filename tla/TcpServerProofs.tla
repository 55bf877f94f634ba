-------------------------- MODULE TcpServerProofs --------------------------
(***************************************************************************)
(* Proofs about TcpServer: the accounting of relays between conList, the   *)
(* queued finished() events and the deferred deletes, for any number of    *)
(* addresses, clients and worker threads.                                  *)
(***************************************************************************)
EXTENDS TcpServer, TLAPS

(* Between calls from outside the threads run exactly while the server     *)
(* listens; close() leaves none running.                                   *)
ThreadsFollow ==
    phase = "idle" => running = IF listening THEN Workers ELSE {}

(* No call is made while a connection is in hand.                          *)
CallsWait == phase = "idle" \/ accepting = {}

(* While the destructor waits, every relay is due to be deleted by a       *)
(* thread that still runs.                                                 *)
DestructorCatchesAll ==
    phase = "destroying" =>
        \A a \in Alive : a \in doomed /\ relay[a].worker \in running

BansOnlyIfAsked == ~Bans => banned = {}

IInv ==
    /\ TypeOK /\ NoOrphan /\ DestroyedLeavesNothing
    /\ ThreadsFollow /\ CallsWait /\ DestructorCatchesAll /\ BansOnlyIfAsked

-----------------------------------------------------------------------------
(* Facts about relays.                                                     *)

LEMMA FreedIsNoRelay == Freed \notin Relays
  <1>1. \A r \in Relays : "peer" \in DOMAIN r
    BY DEF Relays
  <1>2. "peer" \notin DOMAIN Freed
    BY DEF Freed
  <1> QED BY <1>1, <1>2

LEMMA RelayFacts ==
    ASSUME relay \in [Addrs -> {Freed} \cup Relays], NEW a \in Alive
    PROVE  relay[a] \in Relays /\ a \in Addrs
  BY FreedIsNoRelay DEF Alive

(* The round robin stays inside threadList.                               *)
LEMMA ThreadOfNext ==
    ASSUME ServerAssumption, workerThreadID \in Workers
    PROVE  NextWorker(workerThreadID) \in Workers /\ 0 \in Workers
  BY DEF ServerAssumption, Workers, NextWorker

(* A set of doomed relays is freed: they leave Alive and doomed together.  *)
LEMMA DeletionKeeps ==
    ASSUME IInv, NEW dead, dead \subseteq doomed, DeleteAll(dead)
    PROVE  /\ relay' \in [Addrs -> {Freed} \cup Relays]
           /\ Alive' = Alive \ dead
           /\ \A a \in Alive' : relay'[a] = relay[a]
           /\ NoOrphan'
  <1>1. relay \in [Addrs -> {Freed} \cup Relays]
    BY DEF IInv, TypeOK, Relays
  <1>2. relay' \in [Addrs -> {Freed} \cup Relays]
    BY <1>1 DEF DeleteAll
  <1>3. Alive' = Alive \ dead
    BY <1>1 DEF DeleteAll, Alive
  <1>4. NoOrphan'
    BY <1>3 DEF DeleteAll, NoOrphan, IInv
  <1>5. \A a \in Alive' : relay'[a] = relay[a]
    BY <1>1, <1>3 DEF DeleteAll, Alive
  <1> QED BY <1>2, <1>3, <1>4, <1>5

-----------------------------------------------------------------------------
(* The invariant holds at first, and every action keeps it.                *)

LEMMA InitHolds == ServerAssumption /\ Init => IInv
  <1> SUFFICES ASSUME ServerAssumption, Init PROVE IInv
    OBVIOUS
  <1>1. Alive = {}
    BY DEF Init, Alive
  <1>2. relay \in [Addrs -> {Freed} \cup Relays] /\ queue \in Seq(Addrs)
    BY DEF Init
  <1>3. workerThreadID \in Workers
    BY DEF Init, Workers, ServerAssumption
  <1>4. TypeOK
    BY <1>2, <1>3 DEF Init, TypeOK, Phases, Relays
  <1> QED BY <1>1, <1>4 DEF Init, IInv, NoOrphan, DestroyedLeavesNothing,
             ThreadsFollow, CallsWait, DestructorCatchesAll, BansOnlyIfAsked

(* The check of incomingConnection() touches nothing but its own answer.   *)
LEMMA IncomingKeeps ==
    ASSUME IInv, NEW peer \in Peers, incomingConnection(peer) PROVE IInv'
  BY DEF incomingConnection, MainLoop, IInv, TypeOK, NoOrphan, DestroyedLeavesNothing,
         ThreadsFollow, CallsWait, DestructorCatchesAll, BansOnlyIfAsked, Alive

(* A connection is in hand only while the main thread is in its loop.      *)
LEMMA NewRelayEffect ==
    ASSUME ServerAssumption, IInv, newTcpRelay
    PROVE  \E peer \in accepting, a \in Addrs :
              /\ relay' = [relay EXCEPT ![a] = [emitted |-> 0, peer |-> peer,
                                                worker |-> workerThreadID]]
              /\ relay' \in [Addrs -> {Freed} \cup Relays] /\ relay'[a] \in Relays
              /\ relay'[a].peer = peer /\ relay'[a].emitted = 0
              /\ NewAddress(a) /\ conList' = conList \cup {a}
              /\ Alive' = Alive \cup {a} /\ a \notin Alive
              /\ \A c \in Alive : relay'[c] = relay[c]
  <1>1. PICK peer \in accepting, a \in Addrs :
            /\ NewAddress(a)
            /\ relay' = [relay EXCEPT ![a] = [emitted |-> 0, peer |-> peer,
                                              worker |-> workerThreadID]]
            /\ conList' = conList \cup {a}
    BY DEF newTcpRelay
  <1> DEFINE new == [emitted |-> 0, peer |-> peer, worker |-> workerThreadID]
  <1>2. relay \in [Addrs -> {Freed} \cup Relays] /\ workerThreadID \in Workers
        /\ peer \in Peers
    BY DEF IInv, TypeOK, Relays
  <1>3. new \in Relays /\ new.peer = peer /\ new.emitted = 0
    BY <1>2 DEF Relays, ServerAssumption
  <1>4. relay' = [relay EXCEPT ![a] = new]
    BY <1>1
  <1> HIDE DEF new
  <1>5. relay' \in [Addrs -> {Freed} \cup Relays] /\ relay'[a] = new
    BY <1>2, <1>3, <1>4
  <1>6. /\ Alive' = Alive \cup {a} /\ a \notin Alive
        /\ \A c \in Alive : relay'[c] = relay[c]
    BY <1>1, <1>2, <1>3, <1>4, FreedIsNoRelay DEF Alive, NewAddress
  <1> QED BY <1>1, <1>3, <1>5, <1>6

LEMMA NewRelayKeeps == ASSUME ServerAssumption, IInv, newTcpRelay PROVE IInv'
  <1>1. PICK a \in Addrs :
            /\ relay' \in [Addrs -> {Freed} \cup Relays] /\ conList' = conList \cup {a}
            /\ Alive' = Alive \cup {a} /\ a \notin Alive
    BY NewRelayEffect
  <1>2. phase = "idle" \/ accepting = {}
    BY DEF IInv, CallsWait
  <1>3. accepting # {}
    BY DEF newTcpRelay
  <1>4. TypeOK'
    BY <1>1, ThreadOfNext DEF newTcpRelay, IInv, TypeOK, Relays
  <1>5. NoOrphan'
    BY <1>1 DEF newTcpRelay, IInv, NoOrphan
  <1> QED BY <1>2, <1>3, <1>4, <1>5 DEF newTcpRelay, IInv, CallsWait,
             DestroyedLeavesNothing, ThreadsFollow, CallsWait, DestructorCatchesAll,
             BansOnlyIfAsked

LEMMA ReapKeeps == ASSUME IInv, onConnectionFinished PROVE IInv'
  <1> DEFINE con == Head(queue)
  <1>1. queue' \in Seq(Addrs) /\ con \in Addrs
    BY DEF MainLoop, onConnectionFinished, IInv, TypeOK
  <1>2. Alive' = Alive
    BY DEF MainLoop, onConnectionFinished, Alive
  <1>3. TypeOK' /\ NoOrphan'
    BY <1>1, <1>2 DEF MainLoop, onConnectionFinished, IInv, TypeOK, NoOrphan
  <1> QED BY <1>2, <1>3 DEF MainLoop, onConnectionFinished, IInv, DestroyedLeavesNothing,
             ThreadsFollow, CallsWait, DestructorCatchesAll, BansOnlyIfAsked

(* finished(a) changes nothing of a relay but its count.                   *)
LEMMA FinishedEffect ==
    ASSUME ServerAssumption, IInv, NEW a \in Addrs, finished(a)
    PROVE  /\ relay[a] \in Relays
           /\ relay' \in [Addrs -> {Freed} \cup Relays] /\ Alive' = Alive
           /\ \A b \in Alive : relay'[b].worker = relay[b].worker
           /\ Open' = Open \ {a}
  <1>1. relay \in [Addrs -> {Freed} \cup Relays] /\ a \in Alive
    BY DEF IInv, TypeOK, Relays, finished
  <1>2. relay[a] \in Relays
    BY <1>1, RelayFacts
  <1> DEFINE after == [emitted |-> relay[a].emitted + 1, peer |-> relay[a].peer,
                       worker |-> relay[a].worker]
  <1>3. after \in Relays
    BY <1>2 DEF Relays, finished, ServerAssumption
  <1>4. relay' = [relay EXCEPT ![a] = after]
    <2>1. relay' = [relay EXCEPT ![a] = [relay[a] EXCEPT !.emitted = relay[a].emitted + 1]]
      BY DEF finished
    <2>2. [relay[a] EXCEPT !.emitted = relay[a].emitted + 1] = after
      BY <1>2 DEF Relays
    <2> QED BY <2>1, <2>2
  <1> HIDE DEF after
  <1>5. relay' \in [Addrs -> {Freed} \cup Relays] /\ Alive' = Alive
    BY <1>1, <1>3, <1>4, FreedIsNoRelay DEF Alive
  <1>6. \A b \in Alive : relay'[b].worker = relay[b].worker
    <2>1. after.worker = relay[a].worker
      BY DEF after
    <2> QED BY <1>1, <1>4, <2>1 DEF Alive
  <1>7. Open' = Open \ {a}
    <2>1. after.emitted # 0 /\ after # Freed
      BY <1>2, <1>3, FreedIsNoRelay DEF after, Relays
    <2> QED BY <1>1, <1>4, <1>5, <2>1 DEF Open
  <1> QED BY <1>2, <1>5, <1>6, <1>7

LEMMA FinishedKeeps ==
    ASSUME ServerAssumption, IInv, NEW a \in Addrs, finished(a) PROVE IInv'
  <1>1. /\ relay[a] \in Relays
        /\ relay' \in [Addrs -> {Freed} \cup Relays] /\ Alive' = Alive
        /\ \A b \in Alive : relay'[b].worker = relay[b].worker
    BY FinishedEffect
  <1>2. banned' \subseteq Peers /\ (~Bans => banned' = {})
    BY <1>1 DEF finished, IInv, TypeOK, Relays, BansOnlyIfAsked
  <1>3. queue' \in Seq(Addrs)
    BY DEF finished, IInv, TypeOK
  <1>4. TypeOK'
    BY <1>1, <1>2, <1>3 DEF finished, IInv, TypeOK, Relays
  <1> QED BY <1>1, <1>2, <1>4 DEF finished, IInv, NoOrphan,
             DestroyedLeavesNothing, ThreadsFollow, CallsWait, DestructorCatchesAll,
             BansOnlyIfAsked

LEMMA DeferredDeleteKeeps ==
    ASSUME IInv, NEW a \in Addrs, deferredDelete(a) PROVE IInv'
  <1>1. {a} \subseteq doomed /\ DeleteAll({a}) /\ running' = running
    BY DEF deferredDelete
  <1>2. /\ relay' \in [Addrs -> {Freed} \cup Relays] /\ Alive' = Alive \ {a}
        /\ \A b \in Alive' : relay'[b] = relay[b]
        /\ NoOrphan'
    BY <1>1, DeletionKeeps
  <1>3. TypeOK'
    BY <1>1, <1>2 DEF DeleteAll, IInv, TypeOK, Relays
  <1> QED BY <1>1, <1>2, <1>3 DEF DeleteAll, IInv, DestroyedLeavesNothing,
             ThreadsFollow, CallsWait, DestructorCatchesAll, BansOnlyIfAsked

LEMMA ThreadFinishedKeeps ==
    ASSUME IInv, NEW w \in Workers, threadFinished(w) PROVE IInv'
  <1> DEFINE dead == {a \in doomed : relay[a].worker = w}
  <1>1. dead \subseteq doomed /\ DeleteAll(dead) /\ running' = running \ {w}
    BY DEF threadFinished
  <1>2. /\ relay' \in [Addrs -> {Freed} \cup Relays] /\ Alive' = Alive \ dead
        /\ \A b \in Alive' : relay'[b] = relay[b]
        /\ NoOrphan'
    BY <1>1, DeletionKeeps
  <1>3. TypeOK'
    BY <1>1, <1>2 DEF DeleteAll, IInv, TypeOK, Relays
  <1>4. DestructorCatchesAll'
    BY <1>1, <1>2 DEF DeleteAll, IInv, DestructorCatchesAll
  <1> QED BY <1>1, <1>2, <1>3, <1>4 DEF threadFinished, DeleteAll, IInv,
             DestroyedLeavesNothing, ThreadsFollow, CallsWait, BansOnlyIfAsked

(* The actions of the main thread that touch no relay.                     *)
LEMMA CallsKeep ==
    ASSUME IInv, listen \/ close \/ closed \/ destructor PROVE IInv'
  <1>1. Alive' = Alive /\ UNCHANGED <<relay, conList, banned>>
    BY DEF MainLoop, listen, close, closed, destructor, Alive
  <1>2. TypeOK'
    BY DEF MainLoop, listen, close, closed, destructor, IInv, TypeOK, Phases
  <1>3. NoOrphan'
    BY <1>1 DEF MainLoop, listen, close, closed, destructor, IInv, NoOrphan
  <1>4. ThreadsFollow'
    BY DEF MainLoop, listen, close, closed, destructor, IInv, ThreadsFollow
  <1>5. DestructorCatchesAll' /\ DestroyedLeavesNothing'
    <2>1. CASE destructor
      <3>1. \A a \in Alive : relay[a].worker \in Workers
        BY RelayFacts DEF IInv, TypeOK, Relays
      <3>2. Alive \subseteq doomed' /\ running' = running
        BY <2>1 DEF MainLoop, destructor, IInv, NoOrphan
      <3> QED BY <1>1, <2>1, <3>1, <3>2 DEF MainLoop, destructor, IInv, ThreadsFollow,
                 DestructorCatchesAll, DestroyedLeavesNothing
    <2>2. CASE closed
      BY <1>1, <2>2 DEF MainLoop, closed, IInv, DestructorCatchesAll, DestroyedLeavesNothing
    <2>3. CASE listen \/ close
      BY <1>1, <2>3 DEF MainLoop, listen, close, IInv, DestructorCatchesAll,
                        DestroyedLeavesNothing
    <2> QED BY <2>1, <2>2, <2>3
  <1>6. CallsWait'
    BY DEF MainLoop, listen, close, closed, destructor, IInv, CallsWait
  <1> QED BY <1>1, <1>2, <1>3, <1>4, <1>5, <1>6 DEF IInv, BansOnlyIfAsked

LEMMA BanAddressKeeps ==
    ASSUME IInv, NEW peer \in Peers, banAddress(peer) PROVE IInv'
  BY DEF MainLoop, banAddress, IInv, TypeOK, NoOrphan, DestroyedLeavesNothing, ThreadsFollow,
         CallsWait, DestructorCatchesAll, BansOnlyIfAsked, Alive

LEMMA StutterKeeps == ASSUME IInv, UNCHANGED vars PROVE IInv'
  BY DEF vars, IInv, TypeOK, NoOrphan, DestroyedLeavesNothing, ThreadsFollow,
         CallsWait, DestructorCatchesAll, BansOnlyIfAsked, Alive

THEOREM Invariance == Safety => []IInv
  <1>1. Init => IInv
    BY InitHolds, ServerAssumption
  <1>2. IInv /\ [Next]_vars => IInv'
    <2> SUFFICES ASSUME IInv, [Next]_vars PROVE IInv'
      OBVIOUS
    <2>1. CASE listen \/ close \/ closed \/ destructor
      BY <2>1, CallsKeep
    <2>2. CASE onConnectionFinished
      BY <2>2, ReapKeeps
    <2>3. ASSUME NEW peer \in Peers, incomingConnection(peer) PROVE IInv'
      BY <2>3, IncomingKeeps
    <2>4. ASSUME NEW a \in Addrs, finished(a) PROVE IInv'
      BY <2>4, FinishedKeeps, ServerAssumption
    <2>5. ASSUME NEW a \in Addrs, deferredDelete(a) PROVE IInv'
      BY <2>5, DeferredDeleteKeeps
    <2>6. ASSUME NEW w \in Workers, threadFinished(w) PROVE IInv'
      BY <2>6, ThreadFinishedKeeps
    <2>7. CASE Over \/ UNCHANGED vars
      BY <2>7, StutterKeeps DEF Over
    <2>8. ASSUME NEW peer \in Peers, banAddress(peer) PROVE IInv'
      BY <2>8, BanAddressKeeps
    <2>9. CASE newTcpRelay
      BY <2>9, NewRelayKeeps, ServerAssumption
    <2> QED BY <2>1, <2>2, <2>3, <2>4, <2>5, <2>6, <2>7, <2>8, <2>9 DEF Next
  <1> QED BY <1>1, <1>2, PTL DEF Safety

(* Types are kept, and with them the index into threadList.                *)
THEOREM ServerTypeCorrect == Safety => []TypeOK
  BY Invariance, PTL DEF IInv

(* conList and the deferred deletes account for every relay: none is lost  *)
(* by the bookkeeping of onConnectionFinished() and the destructor.        *)
THEOREM NothingOrphaned == Safety => []NoOrphan
  BY Invariance, PTL DEF IInv

(* ~TcpServer() of a listening server leaves no relay behind.              *)
THEOREM DestructorFreesAll == Safety => []DestroyedLeavesNothing
  BY Invariance, PTL DEF IInv

-----------------------------------------------------------------------------
(* A ban is never lifted, and a banned peer gets no relay but for the      *)
(* connection that was in hand when it was banned.                         *)

LEMMA BanStep ==
    ASSUME IInv, [Next]_vars, NEW peer \in banned
    PROVE  /\ peer \in banned'
           /\ NewRelayFor(peer) => peer \in accepting \ accepting'
           /\ peer \in accepting' => peer \in accepting
  <1> DEFINE Goal == /\ peer \in banned'
                     /\ NewRelayFor(peer) => peer \in accepting \ accepting'
                     /\ peer \in accepting' => peer \in accepting
  <1>1. relay \in [Addrs -> {Freed} \cup Relays] /\ Bans
    BY DEF IInv, TypeOK, Relays, BansOnlyIfAsked
  <1>2. ASSUME UNCHANGED <<relay, accepting>>, banned \subseteq banned' PROVE Goal
    BY <1>2 DEF Alive, NewRelayFor
  <1>3. ASSUME NEW b \in Addrs, finished(b) PROVE Goal
    BY <1>3, FinishedEffect, ServerAssumption DEF finished, NewRelayFor
  <1>4. ASSUME NEW dead, DeleteAll(dead) PROVE Goal
    BY <1>1, <1>4 DEF DeleteAll, Alive, NewRelayFor
  <1>5. ASSUME NEW p \in Peers, incomingConnection(p) PROVE Goal
    BY <1>1, <1>5 DEF incomingConnection, Alive, NewRelayFor
  <1>6. ASSUME newTcpRelay PROVE Goal
    <2>1. PICK p \in accepting, b \in Addrs :
              relay'[b].peer = p /\ Alive' = Alive \cup {b}
      BY NewRelayEffect, <1>6, ServerAssumption
    <2>2. accepting' = {} /\ banned' = banned
      BY <1>6 DEF newTcpRelay
    <2> QED BY <2>1, <2>2 DEF NewRelayFor
  <1> HIDE DEF Goal
  <1>7. ASSUME \/ listen \/ close \/ closed \/ destructor \/ onConnectionFinished
               \/ \E p \in Peers : banAddress(p)
               \/ Over \/ UNCHANGED vars
        PROVE  Goal
    <2>1. UNCHANGED <<relay, accepting>> /\ banned \subseteq banned'
      BY <1>7 DEF vars, Over, listen, close, closed, destructor, onConnectionFinished,
         banAddress
    <2> QED BY <2>1, <1>2
  <1>8. ASSUME NEW a \in Addrs, deferredDelete(a) PROVE Goal
    BY <1>4, <1>8 DEF deferredDelete
  <1>9. ASSUME NEW w \in Workers, threadFinished(w) PROVE Goal
    BY <1>4, <1>9 DEF threadFinished
  <1>10. Goal
    BY <1>3, <1>5, <1>6, <1>7, <1>8, <1>9 DEF Next
  <1> QED BY <1>10 DEF Goal

(* A ban made by any thread, between the check of incomingConnection() and *)
(* the relay it makes as well as at any other moment, is for good and lets *)
(* through no connection but the one in hand.                              *)
THEOREM BansHold == Safety => BanHolds
  <1>1. IInv /\ [Next]_vars =>
            [\A peer \in banned :
                /\ peer \in banned'
                /\ NewRelayFor(peer) => peer \in accepting \ accepting'
                /\ peer \in accepting' => peer \in accepting]_vars
    BY BanStep
  <1> QED BY <1>1, Invariance, PTL DEF Safety, BanHolds

-----------------------------------------------------------------------------
(* If no relay is given an address that a queued finished() still names,   *)
(* no connection is cut by another one's end.  (TcpServer's run with       *)
(* ReusesAddress shows that the assumption is needed.)                     *)

QueueNamesFinished == \A i \in DOMAIN queue : queue[i] \notin Open

NoneCut == QueueNamesFinished /\ LiveRelayKept

LEMMA NoneCutStep ==
    ASSUME ~ReusesAddress, IInv, IInv', NoneCut, [Next]_vars PROVE NoneCut'
  <1>1. relay \in [Addrs -> {Freed} \cup Relays] /\ queue \in Seq(Addrs)
    BY DEF IInv, TypeOK, Relays
  <1>2. CASE UNCHANGED <<relay, queue>> /\ doomed' = doomed
             /\ (phase' \in {"idle", "closing"} => phase \in {"idle", "closing"})
    BY <1>2 DEF NoneCut, QueueNamesFinished, LiveRelayKept, Open, Alive
  <1>3. CASE destructor
    BY <1>3 DEF MainLoop, destructor, NoneCut, QueueNamesFinished, LiveRelayKept, Open, Alive
  <1>4. CASE onConnectionFinished
    <2>1. Open' = Open
      BY <1>4 DEF MainLoop, onConnectionFinished, Open, Alive
    <2>2. Head(queue) \notin Open
      BY <1>1, <1>4 DEF MainLoop, onConnectionFinished, NoneCut, QueueNamesFinished
    <2>3. \A i \in DOMAIN queue' : queue'[i] \notin Open
      BY <1>1, <1>4 DEF MainLoop, onConnectionFinished, NoneCut, QueueNamesFinished
    <2> QED BY <1>4, <2>1, <2>2, <2>3 DEF MainLoop, onConnectionFinished, NoneCut,
               QueueNamesFinished, LiveRelayKept
  <1>5. ASSUME NEW a \in Addrs, finished(a) PROVE NoneCut'
    <2>1. Open' = Open \ {a}
      BY <1>5, FinishedEffect, ServerAssumption
    <2>2. \A i \in DOMAIN queue' :
              queue'[i] = a \/ (i \in DOMAIN queue /\ queue'[i] = queue[i])
      BY <1>1, <1>5 DEF finished
    <2> QED BY <1>5, <2>1, <2>2 DEF finished, NoneCut, QueueNamesFinished, LiveRelayKept
  <1>6. ASSUME NEW dead, DeleteAll(dead) PROVE NoneCut'
    <2>1. Open' \subseteq Open
      BY <1>1, <1>6 DEF DeleteAll, Open, Alive
    <2> QED BY <1>6, <2>1 DEF DeleteAll, NoneCut, QueueNamesFinished, LiveRelayKept
  <1>7. CASE newTcpRelay
    <2>1. PICK b \in Addrs :
              NewAddress(b) /\ Alive' = Alive \cup {b} /\ \A c \in Alive : relay'[c] = relay[c]
      BY NewRelayEffect, <1>7, ServerAssumption
    <2>2. Open' \subseteq Open \cup {b}
      BY <2>1 DEF Open
    <2>3. \A i \in DOMAIN queue : queue[i] # b
      BY <2>1 DEF NewAddress, ToSet
    <2>4. b \notin doomed
      BY <1>7, <2>1 DEF newTcpRelay, NewAddress, IInv, NoOrphan, CallsWait
    <2> QED BY <1>7, <2>2, <2>3, <2>4 DEF newTcpRelay, NoneCut, QueueNamesFinished,
               LiveRelayKept
  <1>8. ASSUME NEW p \in Peers, incomingConnection(p) PROVE NoneCut'
    BY <1>8, <1>2 DEF incomingConnection
  <1> QED BY <1>2, <1>3, <1>4, <1>5, <1>6, <1>7, <1>8 DEF Next, vars, Over, listen,
             close, closed, deferredDelete, threadFinished, banAddress, MainLoop

THEOREM NoConnectionCut == ~ReusesAddress /\ Safety => []LiveRelayKept
  <1>1. Init => NoneCut
    BY DEF Init, NoneCut, QueueNamesFinished, LiveRelayKept
  <1>2. ~ReusesAddress /\ IInv /\ IInv' /\ NoneCut /\ [Next]_vars => NoneCut'
    BY NoneCutStep
  <1>3. NoneCut => LiveRelayKept
    BY DEF NoneCut
  <1>4. CASE ~ReusesAddress
    <2>1. IInv /\ IInv' /\ NoneCut /\ [Next]_vars => NoneCut'
      BY <1>2, <1>4
    <2> QED BY <1>1, <2>1, <1>3, Invariance, PTL DEF Safety
  <1>5. CASE ReusesAddress
    BY <1>5
  <1> QED BY <1>4, <1>5

-----------------------------------------------------------------------------
(* The contract with the relays, one address at a time.                    *)

(* What the relay at an address has emitted, and whether there is one, is  *)
(* all that the contract sees of it.                                       *)
LEMMA SameLife ==
    ASSUME IInv, UNCHANGED <<relay, phase>>, NEW a \in Addrs
    PROVE  UNCHANGED Life(a)!lifeVars
  BY DEF Life!lifeVars, Alive

LEMMA FinishedLives ==
    ASSUME IInv, NEW b \in Addrs, finished(b), NEW a \in Addrs
    PROVE  [Life(a)!Next]_(Life(a)!lifeVars)
  <1>1. relay \in [Addrs -> {Freed} \cup Relays] /\ b \in Alive
    BY DEF IInv, TypeOK, Relays, finished
  <1>2. relay[b] \in Relays /\ relay[b].emitted < MaxEmit /\ MaxEmit \in Nat
    BY <1>1, RelayFacts, ServerAssumption DEF finished, ServerAssumption
  <1>3. Alive' = Alive /\ phase' = phase
    BY FinishedEffect, ServerAssumption DEF finished
  <1>4. CASE a = b
    <2>1. relay'[a].emitted = relay[a].emitted + 1
      BY <1>1, <1>2, <1>4 DEF finished, Relays
    <2>2. relay[a].emitted + 1 \in relay[a].emitted + 1 .. MaxEmit
      BY <1>2, <1>4 DEF Relays
    <2>3. Life(a)!Finish
      BY <1>1, <1>3, <1>4, <2>1, <2>2 DEF Life!Finish
    <2> QED BY <2>3 DEF Life!Next
  <1>5. CASE a # b
    BY <1>1, <1>3, <1>5 DEF finished, Life!lifeVars
  <1> QED BY <1>4, <1>5

(* Only relays that are doomed are freed, and until the destructor runs    *)
(* those have finished.                                                    *)
LEMMA DeletionLives ==
    ASSUME IInv, NoneCut, NEW dead, dead \subseteq doomed, DeleteAll(dead),
           NEW a \in Addrs
    PROVE  [Life(a)!Next]_(Life(a)!lifeVars)
  <1>1. relay \in [Addrs -> {Freed} \cup Relays] /\ phase \in Phases
    BY DEF IInv, TypeOK, Relays
  <1>2. Alive' = Alive \ dead /\ phase' = phase /\ \A b \in Alive' : relay'[b] = relay[b]
    BY DeletionKeeps DEF DeleteAll
  <1>3. CASE a \in Alive /\ a \in dead
    <2>1. relay[a].emitted \in Nat
      BY <1>1, <1>3, RelayFacts DEF Relays
    <2>2. phase \in {"idle", "closing"} => relay[a].emitted # 0
      BY <1>3 DEF NoneCut, LiveRelayKept, Open
    <2>3. Life(a)!Delete
      BY <1>1, <1>2, <1>3, <2>1, <2>2 DEF Life!Delete, Phases
    <2> QED BY <2>3 DEF Life!Next
  <1>4. CASE ~(a \in Alive /\ a \in dead)
    BY <1>2, <1>4 DEF Life!lifeVars
  <1> QED BY <1>3, <1>4

LEMMA NewRelayLives ==
    ASSUME IInv, newTcpRelay, NEW a \in Addrs
    PROVE  [Life(a)!Next]_(Life(a)!lifeVars)
  <1>1. phase = "idle" /\ phase' = "idle"
    BY DEF newTcpRelay, IInv, CallsWait
  <1>2. PICK b \in Addrs :
            /\ Alive' = Alive \cup {b} /\ b \notin Alive
            /\ \A c \in Alive : relay'[c] = relay[c]
            /\ relay'[b].emitted = 0
    BY NewRelayEffect, ServerAssumption
  <1>3. CASE a = b
    BY <1>1, <1>2, <1>3 DEF Life!Next, Life!Make
  <1>4. CASE a # b
    BY <1>1, <1>2, <1>4 DEF Life!lifeVars
  <1> QED BY <1>3, <1>4

LEMMA CallsLive ==
    ASSUME IInv, listen \/ close \/ closed \/ destructor, NEW a \in Addrs
    PROVE  [Life(a)!Next]_(Life(a)!lifeVars)
  <1>1. Alive' = Alive /\ relay' = relay /\ phase \in Phases
    BY DEF MainLoop, listen, close, closed, destructor, Alive, IInv, TypeOK
  <1>2. CASE destructor
    BY <1>1, <1>2 DEF MainLoop, destructor, Life!Next, Life!Stop
  <1>3. CASE listen \/ close \/ closed
    BY <1>1, <1>3 DEF MainLoop, listen, close, closed, Phases, Life!lifeVars
  <1> QED BY <1>2, <1>3

LEMMA StepLives ==
    ASSUME IInv, NoneCut, [Next]_vars, NEW a \in Addrs
    PROVE  [Life(a)!Next]_(Life(a)!lifeVars)
  <1>1. CASE listen \/ close \/ closed \/ destructor
    BY <1>1, CallsLive
  <1>2. CASE onConnectionFinished
    BY <1>2, SameLife DEF MainLoop, onConnectionFinished
  <1>3. ASSUME NEW peer \in Peers, incomingConnection(peer)
        PROVE  [Life(a)!Next]_(Life(a)!lifeVars)
    BY <1>3, SameLife DEF incomingConnection
  <1>4. ASSUME NEW peer \in Peers, banAddress(peer)
        PROVE  [Life(a)!Next]_(Life(a)!lifeVars)
    BY <1>4, SameLife DEF MainLoop, banAddress
  <1>5. ASSUME NEW b \in Addrs, finished(b)
        PROVE  [Life(a)!Next]_(Life(a)!lifeVars)
    BY <1>5, FinishedLives
  <1>6. ASSUME NEW b \in Addrs, deferredDelete(b)
        PROVE  [Life(a)!Next]_(Life(a)!lifeVars)
    BY <1>6, DeletionLives DEF deferredDelete
  <1>7. ASSUME NEW w \in Workers, threadFinished(w)
        PROVE  [Life(a)!Next]_(Life(a)!lifeVars)
    <2>1. {b \in doomed : relay[b].worker = w} \subseteq doomed
      OBVIOUS
    <2> QED BY <1>7, <2>1, DeletionLives DEF threadFinished
  <1>8. CASE Over \/ UNCHANGED vars
    BY <1>8, SameLife DEF Over, vars
  <1>9. CASE newTcpRelay
    BY <1>9, NewRelayLives
  <1> QED BY <1>1, <1>2, <1>3, <1>4, <1>5, <1>6, <1>7, <1>8, <1>9 DEF Next

(* TcpServer keeps its side of the contract with every relay: it deletes   *)
(* none that has not finished, unless it is itself destroyed, and counts   *)
(* on no more of a relay than the contract gives it.                       *)
THEOREM RelaysLiveAsPromised == ~ReusesAddress /\ Safety => LivesAsPromised
  <1>1. ASSUME ~ReusesAddress PROVE Safety => LivesAsPromised
    <2>1. Init => NoneCut
      BY DEF Init, NoneCut, QueueNamesFinished, LiveRelayKept
    <2>2. IInv /\ IInv' /\ NoneCut /\ [Next]_vars => NoneCut'
      BY <1>1, NoneCutStep
    <2>3. Init => \A a \in Addrs : Life(a)!Init
      BY DEF Init, Alive, Life!Init
    <2>4. IInv /\ NoneCut /\ [Next]_vars
              => [\A a \in Addrs : [Life(a)!Next]_(Life(a)!lifeVars)]_vars
      BY StepLives
    <2> QED BY <2>1, <2>2, <2>3, <2>4, Invariance, PTL DEF Safety, LivesAsPromised
  <1> QED BY <1>1

=============================================================================
