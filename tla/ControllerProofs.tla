-------------------------- MODULE ControllerProofs --------------------------
(***************************************************************************)
(* Proofs about Controller for any number of peers, sockets, profiles and  *)
(* threads: the TCP server that listens was opened with the profile in     *)
(* force, and nothing goes on after stop().  Then: the two components, composed, still do     *)
(* what their own modules say, so that what is proved of each of them      *)
(* holds here, and bans made by one hold for the other.                    *)
(***************************************************************************)
EXTENDS Controller, TLAPS

(* The inductive invariant.  Between the assignments of setup() and the    *)
(* end of TcpServer::close() the TCP server listens for the old profile.   *)
(* What the main thread has in hand it took from a server that listens, in *)
(* its loop, and it has one thing in hand at most.                         *)
AnnouncedIsUdp == announced = udpListening

OpenedForProfile == task # "setup" /\ tcpListening => openedFor = profile /\ valid

ThreadsStopped == ~tcpListening => running = {}

CacheEmptied == ~udpListening => \A c \in Peers : cache[c] = NoSocket

HandOK ==
    /\ accepting = {} \/ sending = Udp!Nothing
    /\ accepting # {} => tcpListening /\ task = "idle"
    /\ sending # Udp!Nothing => udpListening /\ task = "idle"

Inv == AnnouncedIsUdp /\ OpenedForProfile /\ ThreadsStopped /\ CacheEmptied /\ HandOK

-----------------------------------------------------------------------------
(* Each action keeps the invariant.                                        *)

(* What setup() does to the UDP relay: isListening() is FALSE.             *)
LEMMA UdpSetupIs ==
    ASSUME NEW method, Udp!setup(method)
    PROVE  /\ UNCHANGED <<isLocal, udpListening, cache, sending, out, banned>>
           /\ valid' \in BOOLEAN
  BY DEF Udp!setup, Udp!isListening, Udp!sockets

LEMMA setupKeeps == ASSUME Inv, NEW p \in Profiles, setup(p) PROVE Inv'
  <1>1. CASE tcpListening
    BY <1>1 DEF setup, CallThatCloses, MainLoop, Tcp!close, udp, Inv, AnnouncedIsUdp,
                OpenedForProfile, ThreadsStopped, CacheEmptied, HandOK
  <1>2. CASE ~tcpListening
    <2>1. UNCHANGED <<tcpListening, running, accepting, task, announced, udpListening,
                      cache, sending>>
      BY <1>2, UdpSetupIs DEF setup, tcp
    <2> QED BY <1>2, <2>1 DEF Inv, AnnouncedIsUdp, OpenedForProfile, ThreadsStopped,
               CacheEmptied, HandOK
  <1> QED BY <1>1, <1>2

LEMMA setupClosedKeeps == ASSUME Inv, setupClosed PROVE Inv'
  <1>1. ~tcpListening' /\ running' = {} /\ UNCHANGED <<announced, accepting>>
    BY DEF setupClosed, Tcp!closed
  <1>2. UNCHANGED <<udpListening, cache, sending>>
    BY UdpSetupIs DEF setupClosed
  <1>3. accepting = {} /\ sending = Udp!Nothing
    BY DEF setupClosed, Inv, HandOK
  <1> QED BY <1>1, <1>2, <1>3 DEF Inv, AnnouncedIsUdp, OpenedForProfile,
             ThreadsStopped, CacheEmptied, HandOK

LEMMA startKeeps == ASSUME Inv, start PROVE Inv'
  <1>1. ~tcpListening /\ tcpListening' /\ accepting' = {} /\ sending' = Udp!Nothing
    BY DEF start, Tcp!listen, MainLoop, Udp!listen, udp
  <1>2. openedFor' = profile' /\ valid'
    BY DEF start, Udp!listen, Udp!ep, udp
  <1>3. AnnouncedIsUdp'
    BY DEF start, udp, Udp!listen, Inv, AnnouncedIsUdp
  <1>4. CacheEmptied'
    <2>1. CASE Udp!listen
      BY <2>1 DEF Udp!listen, CacheEmptied
    <2>2. CASE UNCHANGED udp
      BY <2>2 DEF udp, Inv, CacheEmptied
    <2> QED BY <2>1, <2>2 DEF start
  <1> QED BY <1>1, <1>2, <1>3, <1>4 DEF Inv, OpenedForProfile, ThreadsStopped, HandOK

LEMMA stopClosedKeeps == ASSUME Inv, stopClosed PROVE Inv'
  BY DEF stopClosed, Tcp!closed, Udp!stop, Udp!MainLoop, Udp!close, Inv, AnnouncedIsUdp,
         OpenedForProfile, ThreadsStopped, CacheEmptied, HandOK

(* The calls that only begin to close, the last of the destructor, and the *)
(* answers of the resolver.                                                *)
LEMMA CallsKeep ==
    ASSUME Inv,
           stop \/ destructor \/ deleteChildren \/ \E name \in Names : onLookUpFinished(name)
    PROVE  Inv'
  <1>1. UNCHANGED <<tcpListening, running, accepting, udp, profile, openedFor, announced>>
    BY DEF stop, destructor, deleteChildren, onLookUpFinished, Tcp!close,
           Tcp!destructor, tcp
  <1>2. task' # "setup" => task # "setup"
    BY DEF stop, destructor, deleteChildren, onLookUpFinished, MainLoop, CallThatCloses
  <1>3. HandOK'
    BY <1>1 DEF stop, destructor, deleteChildren, onLookUpFinished, MainLoop,
                CallThatCloses, Inv, HandOK, udp, Tcp!destructor, Tcp!MainLoop
  <1> QED BY <1>1, <1>2, <1>3 DEF udp, Inv, AnnouncedIsUdp, OpenedForProfile,
             ThreadsStopped, CacheEmptied

TcpSide == TcpSlot \/ newTcpRelay \/ Worker \/ \E w \in Tcp!Workers : threadFinished(w)
UdpSide == UdpSlot \/ writeDatagram

(* What the slots of the TCP server and its threads leave alone.           *)
LEMMA TcpSideIs ==
    ASSUME TcpSide
    PROVE  /\ UNCHANGED <<tcpListening, phase, own, udp>> /\ running' \subseteq running
           /\ accepting' = accepting \/ accepting' = {} \/ (MainLoop /\ tcpListening)
  <1>1. CASE TcpSlot
    BY <1>1 DEF TcpSlot, Tcp!onConnectionFinished, Tcp!incomingConnection
  <1>2. CASE newTcpRelay
    BY <1>2 DEF newTcpRelay, Tcp!newTcpRelay
  <1>3. CASE Worker \/ \E w \in Tcp!Workers : threadFinished(w)
    BY <1>3 DEF Worker, threadFinished, Tcp!finished, Tcp!deferredDelete,
           Tcp!threadFinished, Tcp!DeleteAll
  <1> QED BY <1>1, <1>2, <1>3 DEF TcpSide

LEMMA TcpSideKeeps == ASSUME Inv, TcpSide PROVE Inv'
  <1>1. UNCHANGED <<tcpListening, own, udp>> /\ running' \subseteq running
    BY TcpSideIs
  <1>2. HandOK'
    BY TcpSideIs DEF own, udp, MainLoop, Inv, HandOK
  <1> QED BY <1>1, <1>2 DEF own, udp, Inv, AnnouncedIsUdp, OpenedForProfile,
             ThreadsStopped, CacheEmptied

LEMMA UdpSideIs ==
    ASSUME UdpSide
    PROVE  /\ UNCHANGED <<own, tcp, udpListening, valid, isLocal>>
           /\ sending' = sending \/ sending' = Udp!Nothing \/ (MainLoop /\ udpListening)
           /\ ~udpListening => UNCHANGED cache
  <1>1. ASSUME NEW client \in Peers, NEW kind \in Udp!Kinds, MainLoop,
               Udp!onServerUdpSocketReadyRead(client, kind), UNCHANGED <<own, tcp>>
        PROVE  /\ UNCHANGED <<own, tcp, udpListening, valid, isLocal>>
               /\ MainLoop /\ udpListening
    BY <1>1 DEF Udp!onServerUdpSocketReadyRead, Udp!ep
  <1>2. ASSUME NEW s \in Sockets, Udp!onClientUdpSocketReadyRead(s) \/ Udp!deferredDelete(s),
               UNCHANGED <<own, tcp>>
        PROVE  UNCHANGED <<own, tcp, udpListening, valid, isLocal, sending, cache>>
    BY <1>2 DEF Udp!onClientUdpSocketReadyRead, Udp!deferredDelete, Udp!ep, Udp!sockets
  <1>3. CASE UdpSlot
    BY <1>1, <1>2, <1>3 DEF UdpSlot
  <1>4. CASE writeDatagram
    BY <1>4 DEF writeDatagram, Udp!writeDatagram, Udp!ep, Udp!sockets
  <1> QED BY <1>3, <1>4 DEF UdpSide

LEMMA UdpSideKeeps == ASSUME Inv, UdpSide PROVE Inv'
  <1>1. UNCHANGED <<own, tcp, udpListening, valid>>
    BY UdpSideIs
  <1>2. CacheEmptied'
    BY UdpSideIs DEF Inv, CacheEmptied
  <1>3. HandOK'
    BY UdpSideIs DEF own, tcp, MainLoop, Inv, HandOK
  <1> QED BY <1>1, <1>2, <1>3 DEF own, tcp, Inv, AnnouncedIsUdp, OpenedForProfile,
             ThreadsStopped

LEMMA StutterKeeps == ASSUME Inv, UNCHANGED vars PROVE Inv'
  BY DEF vars, own, tcp, udp, Inv, AnnouncedIsUdp, OpenedForProfile, ThreadsStopped,
         CacheEmptied, HandOK

(* The invariant holds in every reachable state of the Controller.         *)
LEMMA Invariance == Spec => []Inv
  <1>1. Init => Inv
    BY DEF Init, Tcp!Init, Udp!Init, Inv, AnnouncedIsUdp, OpenedForProfile,
           ThreadsStopped, CacheEmptied, HandOK
  <1>2. Inv /\ [Next]_vars => Inv'
    BY setupKeeps, setupClosedKeeps, startKeeps, stopClosedKeeps, CallsKeep,
       TcpSideKeeps, UdpSideKeeps, StutterKeeps DEF Next, TcpSide, UdpSide
  <1> QED BY <1>1, <1>2, PTL DEF Spec

(* A TCP server that listens was opened with the profile in force and a    *)
(* usable method, and what was announced is what the UDP relay does:       *)
(* whatever calls come, and whichever of their steps fail.                 *)
THEOREM OpenForTheProfile == Spec => []ListensForProfile
  <1>1. Inv => ListensForProfile
    BY DEF Inv, AnnouncedIsUdp, OpenedForProfile, ListensForProfile
  <1> QED BY <1>1, Invariance, PTL

(* While the TCP server is closed no thread runs and nothing is in hand.   *)
LEMMA ClosedKeepsRelays ==
    ASSUME Inv, Next, ~tcpListening, ~tcpListening' PROVE UNCHANGED relay
  <1>1. running = {} /\ accepting = {}
    BY DEF Inv, ThreadsStopped, HandOK
  <1>2. CASE (\E p \in Profiles : setup(p)) \/ setupClosed \/ start \/ stop \/ stopClosed
                \/ destructor \/ deleteChildren \/ \E name \in Names : onLookUpFinished(name)
    BY <1>2 DEF setup, setupClosed, start, stop, stopClosed, destructor, deleteChildren,
                onLookUpFinished, Tcp!close, Tcp!closed, Tcp!listen, Tcp!destructor, tcp
  <1>3. CASE TcpSide
    BY <1>1, <1>3 DEF TcpSide, TcpSlot, newTcpRelay, Worker, threadFinished,
       Tcp!onConnectionFinished, Tcp!incomingConnection, Tcp!newTcpRelay, Tcp!finished,
       Tcp!deferredDelete, Tcp!threadFinished
  <1>4. CASE UdpSide
    BY <1>4, UdpSideIs DEF tcp
  <1> QED BY <1>2, <1>3, <1>4 DEF Next, TcpSide, UdpSide

(* While the UDP relay is closed no client has a socket.                   *)
LEMMA ClosedSendsNothing ==
    ASSUME Inv, Next, ~udpListening PROVE UNCHANGED out
  <1>1. sending = Udp!Nothing /\ \A c \in Peers : cache[c] = NoSocket
    BY DEF Inv, CacheEmptied, HandOK
  <1>2. CASE (\E p \in Profiles : setup(p)) \/ setupClosed
    BY <1>2, UdpSetupIs DEF setup, setupClosed, udp
  <1>3. CASE start \/ stop \/ stopClosed \/ destructor \/ deleteChildren
                \/ \E name \in Names : onLookUpFinished(name)
    BY <1>3 DEF start, stop, stopClosed, destructor, deleteChildren, onLookUpFinished,
                Udp!stop, Udp!listen, udp
  <1>4. CASE TcpSide
    BY <1>4, TcpSideIs DEF udp
  <1>5. CASE UdpSide
    <2>1. \A s \in Sockets, c \in Peers : cache[c] # s
      BY <1>1, ComponentAssumptions DEF Udp!UdpAssumption
    <2> QED BY <1>1, <1>5, <2>1 DEF UdpSide, UdpSlot, writeDatagram, Udp!writeDatagram,
               Udp!onServerUdpSocketReadyRead, Udp!onClientUdpSocketReadyRead,
               Udp!deferredDelete
  <1> QED BY <1>2, <1>3, <1>4, <1>5 DEF Next, TcpSide, UdpSide

(* After stop() no connection moves and no datagram leaves; after a        *)
(* setup() alone, which leaves the UDP relay as it is, no connection moves. *)
THEOREM QuietAfterStop == Spec => StoppedIsQuiet
  <1> DEFINE Quiet == /\ ~tcpListening /\ ~tcpListening' => UNCHANGED relay
                      /\ ~announced => UNCHANGED out
  <1>1. ASSUME Inv, [Next]_vars PROVE [Quiet]_vars
    BY <1>1, ClosedKeepsRelays, ClosedSendsNothing DEF Inv, AnnouncedIsUdp
  <1> QED BY <1>1, Invariance, PTL DEF Spec, StoppedIsQuiet

-----------------------------------------------------------------------------
(* The components in their context.                                        *)

TcpTheorems == INSTANCE TcpServerProofs WITH listening <- tcpListening,
                                             Bans <- ~IsLocal /\ AutoBan

UdpTheorems == INSTANCE UdpRelayProofs WITH Clients <- Peers, listening <- udpListening,
                                            doomed <- udpDoomed

(* What the main thread is in, and what it has been given.                 *)
PhaseOfTask ==
    /\ task = "idle" => phase = "idle"
    /\ task \in {"setup", "stop", "destroy"} => phase = "closing"

OwnTypes ==
    /\ task \in Tasks /\ profile \in Profiles \cup {NoProfile}
    /\ openedFor \in Profiles \cup {NoProfile}
    /\ boundFor \in Profiles \cup {NoProfile} /\ announced \in BOOLEAN
    /\ ip \in Names \cup Literals \cup {NoIP}
    /\ lookups \in [Names -> 0 .. MaxLookups]

Context ==
    OwnTypes /\ PhaseOfTask /\ isLocal = IsLocal /\ (task = "setup" => profile \in Profiles)

LEMMA ContextStep == ASSUME Context, [Next]_vars PROVE Context'
  <1>1. ASSUME NEW p \in Profiles, setup(p) PROVE Context'
    <2>1. /\ ip' \in Names \cup Literals \cup {NoIP}
          /\ lookups' \in [Names -> 0 .. MaxLookups]
      <3>1. p.server \in Names \cup Literals
        BY DEF Profiles
      <3>2. CASE p.server \in Names
        BY <1>1, <3>1, <3>2, ControllerAssumption
        DEF setup, SetServerAddress, Context, OwnTypes, ControllerAssumption
      <3>3. CASE p.server \notin Names
        BY <1>1, <3>1, <3>3 DEF setup, SetServerAddress, Context, OwnTypes
      <3> QED BY <3>2, <3>3
    <2>2. task' \in Tasks /\ PhaseOfTask' /\ isLocal' = isLocal
      <3>1. CASE tcpListening
        BY <1>1, <3>1 DEF setup, Tcp!close, udp, Tasks, PhaseOfTask
      <3>2. CASE ~tcpListening
        BY <1>1, <3>2, UdpSetupIs DEF setup, tcp, Context, OwnTypes, PhaseOfTask
      <3> QED BY <3>1, <3>2
    <2> QED BY <1>1, <2>1, <2>2 DEF setup, Context, OwnTypes
  <1>2. CASE setupClosed
    BY <1>2, UdpSetupIs DEF setupClosed, Tcp!closed, Context, OwnTypes, PhaseOfTask, Tasks
  <1>3. CASE start
    <2>1. isLocal' = isLocal /\ announced' \in BOOLEAN
      BY <1>3 DEF start, Udp!listen, udp, Context, OwnTypes
    <2> QED BY <1>3, <2>1 DEF start, MainLoop, Tcp!listen, Context, OwnTypes, PhaseOfTask
  <1>4. CASE stop \/ destructor
    BY <1>4 DEF stop, destructor, Tcp!close, tcp, udp, Context, OwnTypes, PhaseOfTask, Tasks
  <1>5. CASE stopClosed
    BY <1>5 DEF stopClosed, Tcp!closed, Udp!stop, Context, OwnTypes, PhaseOfTask, Tasks
  <1>6. CASE deleteChildren
    BY <1>6 DEF deleteChildren, udp, Context, OwnTypes, PhaseOfTask, Tasks
  <1>7. ASSUME NEW name \in Names, onLookUpFinished(name) PROVE Context'
    <2>1. lookups' \in [Names -> 0 .. MaxLookups]
      BY <1>7, ControllerAssumption
      DEF onLookUpFinished, Context, OwnTypes, ControllerAssumption
    <2> QED BY <1>7, <2>1 DEF onLookUpFinished, tcp, udp, Context, OwnTypes, PhaseOfTask
  <1>8. CASE TcpSide
    BY <1>8, TcpSideIs DEF own, udp, Context, OwnTypes, PhaseOfTask
  <1>9. CASE UdpSide
    BY <1>9, UdpSideIs DEF own, tcp, Context, OwnTypes, PhaseOfTask
  <1>10. CASE UNCHANGED vars
    BY <1>10 DEF vars, own, tcp, udp, Context, OwnTypes, PhaseOfTask
  <1> QED BY <1>1, <1>2, <1>3, <1>4, <1>5, <1>6, <1>7, <1>8, <1>9, <1>10
          DEF Next, TcpSide, UdpSide

LEMMA ContextHolds == Spec => []Context
  <1>1. Init => Context
    <2> SUFFICES ASSUME Init PROVE Context
      OBVIOUS
    <2>1. lookups \in [Names -> 0 .. MaxLookups]
      BY ControllerAssumption DEF Init, ControllerAssumption
    <2>2. announced \in BOOLEAN /\ isLocal = IsLocal
      BY DEF Init
    <2> QED BY <2>1, <2>2 DEF Init, Tcp!Init, Context, OwnTypes, PhaseOfTask, Tasks
  <1> QED BY <1>1, ContextStep, PTL DEF Spec

(* The composition does to the TCP server what its module expects: it      *)
(* calls it from an idle main thread, and bans from elsewhere are the UDP  *)
(* relay's.                                                                *)
LEMMA TcpStep ==
    ASSUME Context, [Next]_vars PROVE [Tcp!Next]_(Tcp!vars)
  <1>1. CASE UNCHANGED <<tcp, banned>>
    BY <1>1 DEF tcp, Tcp!vars
  <1>2. ASSUME NEW p \in Profiles, setup(p) PROVE Tcp!close \/ UNCHANGED <<tcp, banned>>
    BY <1>2, UdpSetupIs DEF setup
  <1>3. CASE setupClosed \/ start \/ stop \/ stopClosed \/ deleteChildren
    BY <1>3 DEF setupClosed, start, stop, stopClosed, deleteChildren, Tcp!Next
  <1>4. CASE destructor
    BY <1>1, <1>4 DEF destructor, Tcp!Next
  <1>5. CASE \E name \in Names : onLookUpFinished(name)
    BY <1>1, <1>5 DEF onLookUpFinished
  <1>6. CASE TcpSide
    BY <1>6 DEF TcpSide, TcpSlot, newTcpRelay, Worker, threadFinished, Tcp!Next
  <1>7. CASE UdpSlot
    <2>1. UNCHANGED tcp /\ phase = "idle" /\ accepting = {} /\ isLocal = IsLocal
      BY <1>7 DEF UdpSlot, MainLoop, Context, PhaseOfTask
    <2>2. banned' = banned \/ \E peer \in Peers :
              ~isLocal /\ AutoBan /\ banned' = banned \cup {peer}
      BY <1>7 DEF UdpSlot, Udp!onServerUdpSocketReadyRead, Udp!Serves, Udp!Reject,
         Udp!Forward, Udp!onClientUdpSocketReadyRead, Udp!deferredDelete
    <2>3. banned' = banned \/ \E peer \in Peers : Tcp!banAddress(peer)
      BY <2>1, <2>2 DEF Tcp!banAddress, Tcp!MainLoop, tcp
    <2> QED BY <1>1, <2>1, <2>3 DEF Tcp!Next
  <1>9. CASE writeDatagram
    BY <1>1, <1>9 DEF writeDatagram, Udp!writeDatagram
  <1>8. CASE UNCHANGED vars
    BY <1>1, <1>8 DEF vars
  <1> QED BY <1>1, <1>2, <1>3, <1>4, <1>5, <1>6, <1>7, <1>8, <1>9
          DEF Next, TcpSide, Tcp!Next

(* The TCP server of a Controller is a TcpServer.                          *)
THEOREM TcpInContext == Spec => Tcp!Safety
  <1>1. Init => Tcp!Init
    BY DEF Init
  <1> QED BY <1>1, TcpStep, ContextHolds, PTL DEF Spec, Tcp!Safety

(* The same for the UDP relay.  A peer that a TCP relay bans is a client.  *)
LEMMA UdpStep ==
    ASSUME Context, Tcp!TypeOK, [Next]_vars PROVE [Udp!Next]_(Udp!vars)
  <1>1. CASE UNCHANGED <<udp, banned>>
    BY <1>1 DEF udp, Udp!vars, Udp!ep, Udp!sockets, Udp!encryptor
  <1>2. ASSUME NEW p \in Profiles, setup(p)
        PROVE  (\E m \in Methods : Udp!setup(m)) \/ UNCHANGED <<udp, banned>>
    BY <1>2 DEF setup, Profiles
  <1>3. CASE setupClosed
    <2>1. profile.method \in Methods
      BY <1>3 DEF setupClosed, Context, Profiles
    <2> QED BY <1>3, <2>1 DEF setupClosed, Udp!Next
  <1>4. CASE start
    BY <1>1, <1>4 DEF start, Tcp!listen, Udp!Next
  <1>5. CASE stop \/ destructor \/ deleteChildren \/ \E name \in Names : onLookUpFinished(name)
    BY <1>1, <1>5 DEF stop, destructor, deleteChildren, onLookUpFinished, Tcp!close,
                      Tcp!destructor
  <1>6. CASE stopClosed
    BY <1>6 DEF stopClosed, Udp!Next
  <1>7. CASE TcpSlot \/ newTcpRelay \/ \E w \in Tcp!Workers : threadFinished(w)
    BY <1>1, <1>7 DEF TcpSlot, newTcpRelay, threadFinished, Tcp!onConnectionFinished,
       Tcp!incomingConnection, Tcp!newTcpRelay, Tcp!threadFinished, Tcp!DeleteAll
  <1>8. ASSUME NEW a \in Addrs, ~aborted, UNCHANGED udp,
               Tcp!finished(a) \/ Tcp!deferredDelete(a)
        PROVE  UNCHANGED <<udp, banned>> \/ \E client \in Peers : Udp!banAddress(client)
    <2>1. CASE UNCHANGED banned
      BY <1>8, <2>1
    <2>2. CASE ~UNCHANGED banned
      <3>1. /\ a \in Tcp!Alive /\ ~IsLocal /\ AutoBan
            /\ banned' = banned \cup {relay[a].peer}
        BY <1>8, <2>2 DEF Tcp!finished, Tcp!deferredDelete, Tcp!DeleteAll
      <3>2. relay[a].peer \in Peers
        BY <3>1 DEF Tcp!TypeOK, Tcp!Relays, Tcp!Alive
      <3>3. relay[a].peer \notin banned
        BY <2>2, <3>1
      <3> QED BY <1>8, <3>1, <3>2, <3>3 DEF Udp!banAddress, Context, udp, Udp!ep,
                 Udp!sockets, Udp!encryptor
    <2> QED BY <2>1, <2>2
  <1>9. CASE Worker
    BY <1>1, <1>8, <1>9 DEF Worker, Udp!Next
  <1>10. CASE UdpSlot \/ writeDatagram
    BY <1>10 DEF UdpSlot, writeDatagram, Udp!Next
  <1>11. CASE UNCHANGED vars
    BY <1>1, <1>11 DEF vars
  <1> QED BY <1>1, <1>2, <1>3, <1>4, <1>5, <1>6, <1>7, <1>9, <1>10, <1>11
          DEF Next, Udp!Next

(* The theorems of TcpServerProofs are about another instance of the same  *)
(* module: expanded, its definitions are those of Tcp.                     *)
LEMMA SameTcp == [Tcp!Next]_(Tcp!vars) => [TcpTheorems!Next]_(TcpTheorems!vars)
  BY DEF Tcp!Next, Tcp!vars, Tcp!Freed, Tcp!Alive, Tcp!Workers, Tcp!NewAddress,
         Tcp!NextWorker, Tcp!ToSet, Tcp!listen, Tcp!close, Tcp!closed, Tcp!destructor,
         Tcp!onConnectionFinished, Tcp!incomingConnection, Tcp!newTcpRelay,
         Tcp!MainLoop, Tcp!banAddress, Tcp!finished,
         Tcp!deferredDelete, Tcp!DeleteAll, Tcp!threadFinished, Tcp!Over,
         TcpTheorems!Next, TcpTheorems!vars, TcpTheorems!Freed, TcpTheorems!Alive,
         TcpTheorems!Workers, TcpTheorems!NewAddress, TcpTheorems!NextWorker,
         TcpTheorems!ToSet, TcpTheorems!listen, TcpTheorems!close, TcpTheorems!closed,
         TcpTheorems!destructor, TcpTheorems!onConnectionFinished,
         TcpTheorems!incomingConnection, TcpTheorems!newTcpRelay, TcpTheorems!MainLoop,
         TcpTheorems!banAddress, TcpTheorems!finished,
         TcpTheorems!deferredDelete, TcpTheorems!DeleteAll,
         TcpTheorems!threadFinished, TcpTheorems!Over

LEMMA TcpKnown == Spec => []Tcp!TypeOK /\ TcpTheorems!BanHolds
  <1>1. TcpTheorems!ServerAssumption
    BY ComponentAssumptions DEF Tcp!ServerAssumption, TcpTheorems!ServerAssumption
  <1>2. Tcp!Init => TcpTheorems!Init
    BY DEF Tcp!Init, TcpTheorems!Init, Tcp!Freed, TcpTheorems!Freed
  <1>3. TcpTheorems!TypeOK => Tcp!TypeOK
    BY DEF Tcp!TypeOK, Tcp!Freed, Tcp!Phases, Tcp!Relays, Tcp!Workers,
           TcpTheorems!TypeOK, TcpTheorems!Freed, TcpTheorems!Phases,
           TcpTheorems!Relays, TcpTheorems!Workers
  <1>4. TcpTheorems!Safety => []TcpTheorems!TypeOK /\ TcpTheorems!BanHolds
    BY <1>1, TcpTheorems!ServerTypeCorrect, TcpTheorems!BansHold, PTL
  <1> QED BY <1>2, <1>3, <1>4, TcpInContext, SameTcp, PTL
      DEF Tcp!Safety, TcpTheorems!Safety

(* The UDP relay of a Controller is a UdpRelay.                            *)
THEOREM UdpInContext == Spec => Udp!Spec
  <1>1. Init => Udp!Init
    BY DEF Init
  <1> QED BY <1>1, TcpKnown, UdpStep, ContextHolds, PTL DEF Spec, Udp!Spec

LEMMA SameUdp == [Udp!Next]_(Udp!vars) => [UdpTheorems!Next]_(UdpTheorems!vars)
  BY DEF Udp!Next, Udp!vars, Udp!ep, Udp!sockets, Udp!encryptor, Udp!Kinds, Udp!Alive,
         Udp!Cached, Udp!NoIV, Udp!listen, Udp!stop, Udp!setup, Udp!close, Udp!reset,
         Udp!DrawIV, Udp!Crash, Udp!Fatal, Udp!encryptAll, Udp!decryptAll, Udp!Datagram,
         Udp!SocketOf, Udp!Forward, Udp!Reject, Udp!Serves, Udp!banAddress,
         Udp!onServerUdpSocketReadyRead, Udp!onClientUdpSocketReadyRead,
         Udp!deferredDelete, Udp!MainLoop, Udp!isListening, Udp!Nothing, Udp!writeDatagram,
         UdpTheorems!Next, UdpTheorems!vars, UdpTheorems!ep, UdpTheorems!sockets,
         UdpTheorems!encryptor, UdpTheorems!Kinds, UdpTheorems!Alive,
         UdpTheorems!Cached, UdpTheorems!NoIV, UdpTheorems!listen, UdpTheorems!stop,
         UdpTheorems!setup, UdpTheorems!close, UdpTheorems!reset, UdpTheorems!DrawIV,
         UdpTheorems!Crash, UdpTheorems!Fatal, UdpTheorems!encryptAll, UdpTheorems!decryptAll,
         UdpTheorems!Datagram, UdpTheorems!SocketOf,
         UdpTheorems!Forward, UdpTheorems!Reject, UdpTheorems!Serves,
         UdpTheorems!banAddress, UdpTheorems!onServerUdpSocketReadyRead,
         UdpTheorems!onClientUdpSocketReadyRead, UdpTheorems!deferredDelete,
         UdpTheorems!MainLoop, UdpTheorems!isListening, UdpTheorems!Nothing,
         UdpTheorems!writeDatagram

LEMMA UdpKnown ==
    Spec => []Udp!TypeOK /\ [](Udp!CacheSound /\ Udp!OwnSocket /\ Udp!IVUsedOnce)
                         /\ UdpTheorems!BanSparesOne /\ UdpTheorems!KeepsSessions
  <1>1. UdpTheorems!UdpAssumption
    BY ComponentAssumptions DEF Udp!UdpAssumption, UdpTheorems!UdpAssumption
  <1>2. Udp!Init => UdpTheorems!Init
    BY DEF Udp!Init, UdpTheorems!Init, Udp!Nothing, UdpTheorems!Nothing
  <1>3. UdpTheorems!TypeOK => Udp!TypeOK
    BY DEF Udp!TypeOK, Udp!Alive, Udp!IVs, Udp!NoIV, Udp!Nothing, Udp!Datagrams,
           UdpTheorems!TypeOK, UdpTheorems!Alive, UdpTheorems!IVs, UdpTheorems!NoIV,
           UdpTheorems!Nothing, UdpTheorems!Datagrams
  <1>4. /\ UdpTheorems!CacheSound => Udp!CacheSound
        /\ UdpTheorems!OwnSocket => Udp!OwnSocket
        /\ UdpTheorems!IVUsedOnce => Udp!IVUsedOnce
    BY DEF Udp!CacheSound, Udp!Alive, Udp!Cached, Udp!OwnSocket, Udp!Nothing,
           Udp!IVUsedOnce, Udp!NoIV, Udp!NextIV,
           UdpTheorems!CacheSound, UdpTheorems!Alive, UdpTheorems!Cached,
           UdpTheorems!OwnSocket, UdpTheorems!Nothing, UdpTheorems!IVUsedOnce,
           UdpTheorems!NoIV, UdpTheorems!NextIV
  <1>5. UdpTheorems!Spec =>
            /\ []UdpTheorems!TypeOK /\ []UdpTheorems!CacheSound
            /\ []UdpTheorems!OwnSocket /\ []UdpTheorems!IVUsedOnce
            /\ UdpTheorems!BanSparesOne /\ UdpTheorems!KeepsSessions
    BY <1>1, UdpTheorems!UdpTypeCorrect, UdpTheorems!CacheIsSound,
       UdpTheorems!EachItsOwnSocket, UdpTheorems!NoIVTwice,
       UdpTheorems!BansSpareOne, UdpTheorems!SessionsKept, PTL
  <1> QED BY <1>2, <1>3, <1>4, <1>5, UdpInContext, SameUdp, PTL
      DEF Udp!Spec, UdpTheorems!Spec

(* Every variable of the whole has its type.                               *)
THEOREM ControllerTypeCorrect == Spec => []TypeOK
  <1>1. Context /\ Tcp!TypeOK /\ Udp!TypeOK => TypeOK
    BY DEF Context, OwnTypes, TypeOK
  <1> QED BY <1>1, ContextHolds, TcpKnown, UdpKnown, PTL

LEMMA SameSessions ==
    /\ UdpTheorems!Outside!Init => Udp!Outside!Init
    /\ [UdpTheorems!Outside!Next]_(UdpTheorems!Outside!sessionVars)
          => [Udp!Outside!Next]_(Udp!Outside!sessionVars)
  <1>1. UdpTheorems!Outside!Init => Udp!Outside!Init
    BY DEF Udp!Outside!Init, Udp!Outside!None, Udp!Nothing, Udp!NextIV, Udp!NoIV,
           UdpTheorems!Outside!Init, UdpTheorems!Outside!None, UdpTheorems!Nothing,
           UdpTheorems!NextIV, UdpTheorems!NoIV
  <1>2. [UdpTheorems!Outside!Next]_(UdpTheorems!Outside!sessionVars)
          => [Udp!Outside!Next]_(Udp!Outside!sessionVars)
    BY DEF Udp!Outside!Next, Udp!Outside!sessionVars, Udp!Outside!Open,
           Udp!Outside!Close, Udp!Outside!Drop, Udp!Outside!Take, Udp!Outside!Pass,
           Udp!Outside!Answer,
           Udp!Outside!Ban, Udp!Outside!Skip, Udp!Outside!Send, Udp!Outside!Encrypts,
           Udp!Nothing, Udp!NextIV, Udp!NoIV,
           UdpTheorems!Outside!Next, UdpTheorems!Outside!sessionVars,
           UdpTheorems!Outside!Open, UdpTheorems!Outside!Close,
           UdpTheorems!Outside!Drop, UdpTheorems!Outside!Take,
           UdpTheorems!Outside!Pass, UdpTheorems!Outside!Answer, UdpTheorems!Outside!Ban,
           UdpTheorems!Outside!Skip, UdpTheorems!Outside!Send,
           UdpTheorems!Outside!Encrypts, UdpTheorems!Nothing, UdpTheorems!NextIV,
           UdpTheorems!NoIV
  <1> QED BY <1>1, <1>2

(* In the whole, too, each UDP client has its own socket, no IV is used    *)
(* twice, and clients have sessions as Sessions promises them.             *)
THEOREM UdpPromisesKept ==
    /\ Spec => [](Udp!CacheSound /\ Udp!OwnSocket /\ Udp!IVUsedOnce)
    /\ Spec => Udp!KeepsSessions
  <1>1. Spec => [](Udp!CacheSound /\ Udp!OwnSocket /\ Udp!IVUsedOnce)
    BY UdpKnown, PTL
  <1>2. UdpTheorems!KeepsSessions => Udp!KeepsSessions
    BY SameSessions, PTL DEF UdpTheorems!KeepsSessions, UdpTheorems!Outside!Spec,
       Udp!KeepsSessions, Udp!Outside!Spec
  <1> QED BY <1>1, <1>2, UdpKnown, PTL

LEMMA SameLife ==
    ASSUME NEW a \in Addrs
    PROVE  /\ TcpTheorems!Life(a)!Init => Tcp!Life(a)!Init
           /\ [TcpTheorems!Life(a)!Next]_(TcpTheorems!Life(a)!lifeVars)
                 => [Tcp!Life(a)!Next]_(Tcp!Life(a)!lifeVars)
  BY DEF Tcp!Life!Init, Tcp!Life!Next, Tcp!Life!lifeVars, Tcp!Life!Make,
         Tcp!Life!Finish, Tcp!Life!Delete, Tcp!Life!Stop, Tcp!Alive, Tcp!Freed,
         TcpTheorems!Life!Init, TcpTheorems!Life!Next, TcpTheorems!Life!lifeVars,
         TcpTheorems!Life!Make, TcpTheorems!Life!Finish, TcpTheorems!Life!Delete,
         TcpTheorems!Life!Stop, TcpTheorems!Alive, TcpTheorems!Freed

(* In the whole, too, conList and the deferred deletes account for every   *)
(* TCP relay, also for those that setup() and stop() leave frozen; and if  *)
(* no address is reused while a queued finished() names it, relays live as *)
(* RelayLife promises: only those that have finished are deleted.          *)
THEOREM ServerPromisesKept ==
    /\ Spec => [](Tcp!NoOrphan /\ Tcp!DestroyedLeavesNothing)
    /\ ~ReusesAddress /\ Spec => []Tcp!LiveRelayKept /\ Tcp!LivesAsPromised
  <1>1. TcpTheorems!ServerAssumption
    BY ComponentAssumptions DEF Tcp!ServerAssumption, TcpTheorems!ServerAssumption
  <1>2. Tcp!Init => TcpTheorems!Init
    BY DEF Tcp!Init, TcpTheorems!Init, Tcp!Freed, TcpTheorems!Freed
  <1>3. /\ TcpTheorems!NoOrphan => Tcp!NoOrphan
        /\ TcpTheorems!DestroyedLeavesNothing => Tcp!DestroyedLeavesNothing
        /\ TcpTheorems!LiveRelayKept => Tcp!LiveRelayKept
    BY DEF Tcp!NoOrphan, Tcp!DestroyedLeavesNothing, Tcp!LiveRelayKept, Tcp!Alive,
           Tcp!Freed, Tcp!Open,
           TcpTheorems!NoOrphan, TcpTheorems!DestroyedLeavesNothing,
           TcpTheorems!LiveRelayKept, TcpTheorems!Alive, TcpTheorems!Freed,
           TcpTheorems!Open
  <1>4. TcpTheorems!LivesAsPromised => Tcp!LivesAsPromised
    <2>1. (\A a \in Addrs : TcpTheorems!Life(a)!Init) => \A a \in Addrs : Tcp!Life(a)!Init
      BY SameLife
    <2>2. [\A a \in Addrs :
              [TcpTheorems!Life(a)!Next]_(TcpTheorems!Life(a)!lifeVars)]_(TcpTheorems!vars)
          => [\A a \in Addrs : [Tcp!Life(a)!Next]_(Tcp!Life(a)!lifeVars)]_(Tcp!vars)
      BY SameLife DEF Tcp!vars, TcpTheorems!vars
    <2> QED BY <2>1, <2>2, PTL DEF Tcp!LivesAsPromised, TcpTheorems!LivesAsPromised
  <1>5. /\ TcpTheorems!Safety => []TcpTheorems!NoOrphan
        /\ TcpTheorems!Safety => []TcpTheorems!DestroyedLeavesNothing
        /\ ~ReusesAddress /\ TcpTheorems!Safety => []TcpTheorems!LiveRelayKept
        /\ ~ReusesAddress /\ TcpTheorems!Safety => TcpTheorems!LivesAsPromised
    BY <1>1, TcpTheorems!NothingOrphaned, TcpTheorems!DestructorFreesAll,
       TcpTheorems!NoConnectionCut, TcpTheorems!RelaysLiveAsPromised, PTL
  <1>6. Spec => TcpTheorems!Safety
    BY <1>2, TcpInContext, SameTcp, PTL DEF Tcp!Safety, TcpTheorems!Safety
  <1> QED BY <1>3, <1>4, <1>5, <1>6, PTL

(* The main thread does one thing at a time.                               *)
LEMMA OneHand == ASSUME [Next]_vars PROVE UNCHANGED accepting \/ UNCHANGED sending
  <1>1. CASE (\E p \in Profiles : setup(p)) \/ setupClosed
    BY <1>1 DEF setup, setupClosed, Tcp!close, Tcp!closed, tcp
  <1>2. CASE \/ start \/ stop \/ stopClosed \/ destructor \/ deleteChildren
             \/ \E name \in Names : onLookUpFinished(name)
    BY <1>2 DEF start, stop, stopClosed, destructor, deleteChildren, onLookUpFinished,
                Tcp!listen, Tcp!close, Tcp!closed, Tcp!destructor, tcp
  <1>3. CASE TcpSide
    BY <1>3, TcpSideIs DEF udp
  <1>4. CASE UdpSide
    BY <1>4, UdpSideIs DEF tcp
  <1>5. CASE UNCHANGED vars
    BY <1>5 DEF vars, tcp
  <1> QED BY <1>1, <1>2, <1>3, <1>4, <1>5 DEF Next, TcpSide, UdpSide

(* A ban made by either protocol holds for both, whenever it is made: what *)
(* still gets through is the one connection or datagram that the main      *)
(* thread had in hand, having found its peer not banned.                   *)
THEOREM BansHoldForBoth == Spec => BannedEverywhere
  <1> DEFINE TcpBans ==
                 \A peer \in banned :
                     /\ peer \in banned'
                     /\ Tcp!NewRelayFor(peer) => peer \in accepting \ accepting'
                     /\ peer \in accepting' => peer \in accepting
             UdpBans ==
                 \A client \in banned :
                     /\ client \in banned'
                     /\ out' # out /\ out'.way = "up" /\ out'.client = client
                           => sending # Udp!Nothing /\ sending.client = client
                                 /\ sending' = Udp!Nothing
                     /\ sending' # Udp!Nothing /\ sending'.client = client
                           => sending' = sending
             Both ==
                 /\ accepting = {} \/ sending = Udp!Nothing
                 /\ \A peer \in banned :
                       /\ peer \in banned'
                       /\ Served(peer) => peer \in InHand \ InHand'
                       /\ peer \in InHand' => peer \in InHand
  <1>1. TcpTheorems!BanHolds => [][TcpBans]_(Tcp!vars)
    BY PTL DEF TcpTheorems!BanHolds, TcpTheorems!NewRelayFor, TcpTheorems!Alive,
               TcpTheorems!Freed, TcpTheorems!vars, Tcp!NewRelayFor, Tcp!Alive,
               Tcp!Freed, Tcp!vars
  <1>2. UdpTheorems!BanSparesOne => [][UdpBans]_(Udp!vars)
    BY PTL DEF UdpTheorems!BanSparesOne, UdpTheorems!vars, UdpTheorems!ep,
               UdpTheorems!sockets, UdpTheorems!encryptor, UdpTheorems!Nothing,
               Udp!vars, Udp!ep, Udp!sockets, Udp!encryptor, Udp!Nothing
  <1>3. Inv /\ [Next]_vars /\ [TcpBans]_(Tcp!vars) /\ [UdpBans]_(Udp!vars) => [Both]_vars
    <2> SUFFICES ASSUME Inv, [Next]_vars, TcpBans, UdpBans PROVE Both
      <3>1. UNCHANGED Tcp!vars => TcpBans
        BY DEF Tcp!vars, Tcp!Alive, Tcp!NewRelayFor
      <3>2. UNCHANGED Udp!vars => UdpBans
        BY DEF Udp!vars
      <3> QED BY <3>1, <3>2
    <2>1. accepting = {} \/ sending = Udp!Nothing
      BY DEF Inv, HandOK
    <2>2. UNCHANGED accepting \/ UNCHANGED sending
      BY OneHand
    <2>3. ASSUME NEW peer \in banned, Served(peer) PROVE peer \in InHand \ InHand'
      <3>1. CASE Tcp!NewRelayFor(peer)
        <4>1. peer \in accepting \ accepting'
          BY <3>1
        <4>2. sending = Udp!Nothing /\ sending' = Udp!Nothing
          BY <2>1, <2>2, <4>1
        <4> QED BY <4>1, <4>2 DEF InHand, Udp!Nothing
      <3>2. CASE out' # out /\ out'.way = "up" /\ out'.client = peer
        <4>1. sending # Udp!Nothing /\ sending.client = peer /\ sending' = Udp!Nothing
          BY <3>2
        <4>2. accepting' = {}
          BY <2>1, <2>2, <4>1
        <4> QED BY <4>1, <4>2 DEF InHand, Udp!Nothing
      <3> QED BY <2>3, <3>1, <3>2 DEF Served
    <2>4. ASSUME NEW peer \in banned, peer \in InHand' PROVE peer \in InHand
      <3>1. CASE peer \in accepting'
        BY <3>1 DEF InHand
      <3>2. CASE sending' # Udp!Nothing /\ sending'.client = peer
        BY <3>2 DEF InHand
      <3> QED BY <2>4, <3>1, <3>2 DEF InHand, Udp!Nothing
    <2> QED BY <2>1, <2>3, <2>4
  <1> QED BY <1>1, <1>2, <1>3, TcpKnown, UdpKnown, Invariance, PTL
      DEF Spec, BannedEverywhere

-----------------------------------------------------------------------------
(* The proxy that the application sees.                                    *)

(* start() opens the servers for a profile, never before setup().          *)
OpenedForOne ==
    /\ tcpListening => openedFor # NoProfile
    /\ udpListening => boundFor # NoProfile

LEMMA OpenedForOneStep == ASSUME OpenedForOne, [Next]_vars PROVE OpenedForOne'
  <1>1. CASE start
    <2>1. profile # NoProfile /\ openedFor' = profile
      BY <1>1 DEF start
    <2>2. boundFor' = profile \/ UNCHANGED <<udpListening, boundFor>>
      BY <1>1 DEF start, udp
    <2> QED BY <2>1, <2>2 DEF OpenedForOne
  <1>2. CASE setupClosed
    BY <1>2, UdpSetupIs DEF setupClosed, Tcp!closed, OpenedForOne
  <1>3. CASE stopClosed
    BY <1>3 DEF stopClosed, Tcp!closed, Udp!stop, Udp!close, OpenedForOne
  <1>4. ASSUME NEW p \in Profiles, setup(p) PROVE OpenedForOne'
    BY <1>4, UdpSetupIs DEF setup, Tcp!close, tcp, udp, OpenedForOne
  <1>5. CASE \/ stop \/ destructor \/ deleteChildren
             \/ \E name \in Names : onLookUpFinished(name)
    BY <1>5 DEF stop, destructor, deleteChildren, onLookUpFinished, Tcp!close,
                Tcp!destructor, tcp, udp, OpenedForOne
  <1>6. CASE TcpSide
    BY <1>6, TcpSideIs DEF own, udp, OpenedForOne
  <1>7. CASE UdpSide
    BY <1>7, UdpSideIs DEF own, tcp, OpenedForOne
  <1>8. CASE UNCHANGED vars
    BY <1>8 DEF vars, own, tcp, udp, OpenedForOne
  <1> QED BY <1>1, <1>2, <1>3, <1>4, <1>5, <1>6, <1>7, <1>8 DEF Next, TcpSide, UdpSide

(* What the proxy sees is unchanged by a step of which this is true.       *)
LEMMA Unseen ==
    ASSUME UNCHANGED <<tcpListening, openedFor, boundFor, profile, valid, udpListening,
                       announced, relay, out>>
    PROVE  UNCHANGED Outside!proxyVars
  BY DEF Outside!proxyVars, Outside!settings, Outside!state, Outside!traffic

(* setup() closes one half of the proxy and changes its profile at one     *)
(* point: at once, if the TCP server is closed, and otherwise when the     *)
(* threads have ended.                                                     *)
LEMMA SetupLooks ==
    ASSUME Context, setupClosed \/ \E p \in Profiles : setup(p)
    PROVE  [Outside!Next]_(Outside!proxyVars)
  <1>1. ASSUME NEW p \in Profiles, profile' = p, valid' \in BOOLEAN, ~tcpListening',
               UNCHANGED <<boundFor, udpListening, announced, relay, out>>
        PROVE  Outside!Next
    BY <1>1 DEF Outside!Next, Outside!Setup, Outside!traffic
  <1>2. CASE setupClosed
    <2>1. profile \in Profiles /\ profile' = profile /\ ~tcpListening'
      BY <1>2 DEF setupClosed, Context, Tcp!closed
    <2>2. valid' \in BOOLEAN /\ UNCHANGED <<boundFor, udpListening, announced, relay, out>>
      BY <1>2, UdpSetupIs DEF setupClosed, Tcp!closed
    <2> QED BY <1>1, <2>1, <2>2
  <1>3. ASSUME NEW p \in Profiles, setup(p)
        PROVE  [Outside!Next]_(Outside!proxyVars)
    <2>1. CASE tcpListening
      <3>1. UNCHANGED <<tcpListening, openedFor, boundFor, valid, udpListening, announced,
                        relay, out>>
        BY <1>3, <2>1 DEF setup, Tcp!close, udp
      <3>2. UNCHANGED Outside!proxyVars
        BY <2>1, <3>1 DEF Outside!proxyVars, Outside!settings, Outside!state,
                          Outside!traffic
      <3> QED BY <3>2
    <2>2. CASE ~tcpListening
      <3>1. profile' = p /\ valid' \in BOOLEAN /\ ~tcpListening'
        BY <1>3, <2>2, UdpSetupIs DEF setup, tcp
      <3>2. UNCHANGED <<boundFor, udpListening, announced, relay, out>>
        BY <1>3, <2>2, UdpSetupIs DEF setup, tcp
      <3> QED BY <1>1, <3>1, <3>2
    <2> QED BY <2>1, <2>2
  <1> QED BY <1>2, <1>3

(* start() opens it for the profile in force, or the half that is closed.  *)
LEMMA StartLooks == ASSUME start PROVE Outside!Start
  <1>1. /\ ~tcpListening /\ tcpListening' = TRUE /\ profile # NoProfile /\ valid
        /\ openedFor' = profile /\ profile' = profile /\ relay' = relay
    BY DEF start, Tcp!listen
  <1>2. valid' = valid /\ out' = out
    BY DEF start, Udp!listen, Udp!ep, udp
  <1>3. \/ /\ ~udpListening /\ udpListening' = TRUE /\ announced' = TRUE
           /\ boundFor' = profile
        \/ UNCHANGED <<udpListening, boundFor, announced>>
    BY DEF start, Udp!listen, udp
  <1> QED BY <1>1, <1>2, <1>3 DEF Outside!Start, Outside!settings, Outside!traffic

(* stop() closes both halves when the threads have ended.                  *)
LEMMA StopLooks == ASSUME Inv, stopClosed PROVE Outside!Stop
  <1>1. /\ ~tcpListening' /\ udpListening' = FALSE /\ announced' = FALSE
        /\ UNCHANGED <<profile, valid, relay, out>>
    BY DEF stopClosed, Tcp!closed, Udp!stop, Udp!close, Udp!ep
  <1>2. tcpListening => openedFor = profile
    BY DEF Inv, OpenedForProfile, stopClosed
  <1> QED BY <1>1, <1>2 DEF Outside!Stop, Outside!settings, Outside!traffic

(* Slots and threads only move the traffic of a half that is open.         *)
LEMMA SlotsLook ==
    ASSUME Inv, OpenedForOne, TcpSide \/ UdpSide
    PROVE  [Outside!Next]_(Outside!proxyVars)
  <1>1. UNCHANGED <<tcpListening, openedFor, boundFor, profile, valid, udpListening,
                    announced>>
    <2>1. CASE TcpSide
      BY <2>1, TcpSideIs DEF own, udp
    <2>2. CASE UdpSide
      BY <2>2, UdpSideIs DEF own, tcp
    <2> QED BY <2>1, <2>2
  <1>2. CASE TcpSide
    <2>1. UNCHANGED out
      BY <1>2, TcpSideIs DEF udp
    <2>2. CASE tcpListening
      <3>1. Outside!Connect
        BY <1>1, <2>1, <2>2 DEF Outside!Connect, Outside!settings, Outside!state,
                                OpenedForOne
      <3> QED BY <3>1 DEF Outside!Next
    <2>3. CASE ~tcpListening
      <3>1. UNCHANGED relay
        BY <1>1, <1>2, <2>3, ClosedKeepsRelays DEF Next, TcpSide
      <3> QED BY <1>1, <2>1, <3>1, Unseen
    <2> QED BY <2>2, <2>3
  <1>3. CASE UdpSide
    <2>1. UNCHANGED relay
      BY <1>3, UdpSideIs DEF tcp
    <2>2. CASE udpListening
      <3>1. Outside!Relay
        BY <1>1, <2>1, <2>2 DEF Outside!Relay, Outside!settings, Outside!state,
                                OpenedForOne
      <3> QED BY <3>1 DEF Outside!Next
    <2>3. CASE ~udpListening
      <3>1. UNCHANGED out
        BY <1>3, <2>3, ClosedSendsNothing DEF Next, UdpSide
      <3> QED BY <1>1, <2>1, <3>1, Unseen
    <2> QED BY <2>2, <2>3
  <1> QED BY <1>2, <1>3

(* The Controller implements Proxy, the proxy in two halves of which       *)
(* setup() closes one.                                                     *)
THEOREM ActsLikeAProxy == Spec => ActsAsProxy
  <1>1. Init => Outside!Init
    BY DEF Init, Tcp!Init, Udp!Init, Outside!Init
  <1>2. Init => OpenedForOne
    BY DEF Init, Tcp!Init, Udp!Init, OpenedForOne
  <1>3. ASSUME Inv, Context, OpenedForOne, [Next]_vars
        PROVE  [Outside!Next]_(Outside!proxyVars)
    <2>1. CASE setupClosed \/ \E p \in Profiles : setup(p)
      BY <1>3, <2>1, SetupLooks
    <2>2. CASE start
      BY <2>2, StartLooks DEF Outside!Next
    <2>3. CASE stopClosed
      BY <1>3, <2>3, StopLooks DEF Outside!Next
    <2>4. CASE \/ stop \/ destructor \/ deleteChildren
               \/ \E name \in Names : onLookUpFinished(name)
      <3>1. UNCHANGED <<tcpListening, openedFor, boundFor, profile, valid, udpListening,
                        announced, relay, out>>
        BY <2>4 DEF stop, destructor, deleteChildren, onLookUpFinished, Tcp!close,
                    Tcp!destructor, tcp, udp
      <3> QED BY <3>1, Unseen
    <2>5. CASE TcpSide \/ UdpSide
      BY <1>3, <2>5, SlotsLook
    <2>6. CASE UNCHANGED vars
      BY <2>6, Unseen DEF vars, own, tcp, udp
    <2> QED BY <1>3, <2>1, <2>2, <2>3, <2>4, <2>5, <2>6 DEF Next, TcpSide, UdpSide
  <1> QED BY <1>1, <1>2, <1>3, OpenedForOneStep, Invariance, ContextHolds, PTL
      DEF Spec, ActsAsProxy, Outside!Spec

-----------------------------------------------------------------------------
(* Where DatagramsFollowProfile ends (see the run controller_setup): a UDP *)
(* relay that listens for the profile in force, or not at all, goes on so  *)
(* until setup() is called while it listens.                               *)

Follows == udpListening => boundFor = profile

FollowsUntilSetup ==
    [][Follows /\ (UNCHANGED profile \/ ~udpListening) => Follows']_vars

(* setup() of a Controller whose UDP relay is open is the only way to one  *)
(* that listens for another profile: stop() before setup() avoids it.      *)
THEOREM OnlySetupLeavesItOpen == Spec => FollowsUntilSetup
  <1> DEFINE Stays ==
          Follows /\ (UNCHANGED profile \/ ~udpListening) => Follows'
  <1>1. ASSUME UNCHANGED <<udpListening, boundFor>> PROVE Stays
    BY <1>1 DEF Follows
  <1>2. ASSUME setupClosed \/ \E p \in Profiles : setup(p) PROVE Stays
    BY <1>1, <1>2, UdpSetupIs DEF setupClosed, setup, udp
  <1>3. ASSUME start PROVE Stays
    BY <1>1, <1>3 DEF start, udp, Follows
  <1>4. ASSUME stopClosed PROVE Stays
    BY <1>4 DEF stopClosed, Udp!stop, Udp!close, Follows
  <1>5. ASSUME \/ stop \/ destructor \/ deleteChildren
               \/ \E name \in Names : onLookUpFinished(name)
        PROVE  Stays
    BY <1>1, <1>5 DEF stop, destructor, deleteChildren, onLookUpFinished, udp
  <1>6. ASSUME TcpSide \/ UdpSide PROVE Stays
    <2>1. UNCHANGED <<udpListening, boundFor>>
      BY <1>6, TcpSideIs, UdpSideIs DEF own, udp
    <2> QED BY <1>1, <2>1
  <1>7. [Next]_vars => [Stays]_vars
    <2> HIDE DEF Stays
    <2> QED BY <1>2, <1>3, <1>4, <1>5, <1>6 DEF Next, TcpSide, UdpSide
  <1> QED BY <1>7, PTL DEF Spec, FollowsUntilSetup

-----------------------------------------------------------------------------
(* Where AddressOfProfile ends (see the run controller_lookup): the IP     *)
(* address stays right as long as nothing but the profile's own server is  *)
(* being looked up, and a setup() that finds no lookup under way makes it  *)
(* so.  Every wrong address is due to a setup() during a lookup.           *)

Settled ==
    profile # NoProfile =>
        /\ ip \in {NoIP, profile.server}
        /\ \A name \in Names \ {profile.server} : lookups[name] = 0

AddressStaysRight ==
    [][Settled /\ (UNCHANGED profile \/ \A name \in Names : lookups[name] = 0)
          => Settled']_vars

(* A late answer of the resolver is the only way to a wrong address.       *)
THEOREM WrongOnlyByLateAnswer == Spec => AddressStaysRight
  <1> DEFINE Stays == Settled /\ (UNCHANGED profile \/ \A name \in Names : lookups[name] = 0)
                         => Settled'
  <1>1. ASSUME Context, NEW p \in Profiles, setup(p) PROVE Stays
    <2>1. profile' = p /\ SetServerAddress(p.server) /\ p # NoProfile
      BY <1>1, ControllerAssumption DEF setup, ControllerAssumption
    <2>2. SUFFICES ASSUME Settled,
                          UNCHANGED profile \/ \A name \in Names : lookups[name] = 0
                   PROVE  Settled'
      OBVIOUS
    <2>3. \A name \in Names \ {p.server} : lookups[name] = 0
      BY <2>1, <2>2 DEF Settled
    <2>4. \A name \in Names \ {p.server} : lookups'[name] = 0
      BY <1>1, <2>1, <2>3 DEF SetServerAddress, Context, OwnTypes
    <2>5. ip' \in {NoIP, p.server}
      BY <2>1 DEF SetServerAddress
    <2> QED BY <2>1, <2>4, <2>5 DEF Settled
  <1>2. ASSUME Context, NEW name \in Names, onLookUpFinished(name) PROVE Stays
    <2>1. SUFFICES ASSUME Settled, profile # NoProfile PROVE Settled'
      BY <1>2 DEF onLookUpFinished, Settled
    <2>2. name = profile.server
      BY <1>2, <2>1 DEF onLookUpFinished, Settled, Context, OwnTypes
    <2> QED BY <1>2, <2>1, <2>2 DEF onLookUpFinished, Settled, Context, OwnTypes
  <1>3. ASSUME UNCHANGED <<profile, ip, lookups>> PROVE Stays
    BY <1>3 DEF Settled
  <1>4. ASSUME \/ setupClosed \/ start \/ stop \/ stopClosed \/ destructor
               \/ deleteChildren
        PROVE  Stays
    BY <1>3, <1>4 DEF setupClosed, start, stop, stopClosed, destructor, deleteChildren
  <1>5. ASSUME TcpSide \/ UdpSide PROVE Stays
    <2>1. UNCHANGED <<profile, ip, lookups>>
      BY <1>5, TcpSideIs, UdpSideIs DEF own
    <2> QED BY <1>3, <2>1
  <1>6. Context /\ [Next]_vars => [Stays]_vars
    <2> HIDE DEF Stays
    <2> QED BY <1>1, <1>2, <1>4, <1>5 DEF Next, TcpSide, UdpSide
  <1> QED BY <1>6, ContextHolds, PTL DEF Spec, AddressStaysRight

=============================================================================
