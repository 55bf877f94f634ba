----------------------------- MODULE Controller -----------------------------
(***************************************************************************)
(* lib/controller.cpp: it owns one TcpServer and one UdpRelay, both of     *)
(* them composed here with what it does to them.  They share the ban list  *)
(* (lib/common.cpp) and the main thread, which setup(), stop() and the     *)
(* destructor keep busy while TcpServer::close() waits for the worker      *)
(* threads.  lib/address.cpp is here as far as the address of the          *)
(* shadowsocks server goes.  An IP address is the server it belongs to.    *)
(***************************************************************************)
EXTENDS Naturals, Sequences

CONSTANTS
    IsLocal, AutoBan,
    Peers, Addrs, TotalWorkers, ReusesAddress,  \* see TcpServer
    Sockets, NoSocket, Methods,                 \* see UdpRelay
    Names, Literals,    \* servers given by host name, and by IP address
    NoIP,               \* an empty ipAddrList
    NoProfile,          \* before setup()
    MaxEmit, MaxQueue, MaxIVs,                  \* bounds: see there
    MaxLookups          \* bound: answers of the resolver waited for, by name

Profiles == [server : Names \cup Literals, method : Methods]

ASSUME ControllerAssumption ==
    /\ IsLocal \in BOOLEAN /\ AutoBan \in BOOLEAN
    /\ Names \cap Literals = {} /\ NoIP \notin Names \cup Literals
    /\ NoProfile \notin Profiles /\ MaxLookups \in Nat

VARIABLES
    task,           \* what the main thread is in (see Tasks)
    profile,
    openedFor,      \* the profile with which the TCP server was last opened
    boundFor,       \* the same of the UDP relay
    announced,      \* the last runningStateChanged()
    ip,             \* serverAddress.ipAddrList
    lookups,        \* by name: lookups begun and not answered
    \* TcpServer
    phase, tcpListening, running, relay, accepting, conList, doomed, queue,
    workerThreadID,
    \* UdpRelay and its encryptor
    isLocal, ivLen, valid, udpListening, cache, madeFor, udpDoomed, enCipher,
    enCipherIV, deCipher, sending, out, aborted,
    \* Common
    banned

own   == <<task, profile, openedFor, boundFor, announced, ip, lookups>>
tcp   == <<phase, tcpListening, running, relay, accepting, conList, doomed, queue,
           workerThreadID>>
udp   == <<isLocal, ivLen, valid, udpListening, cache, madeFor, udpDoomed, enCipher,
           enCipherIV, deCipher, sending, out, aborted>>
vars  == <<own, tcp, udp, banned>>

Tcp == INSTANCE TcpServer WITH listening <- tcpListening, Bans <- ~IsLocal /\ AutoBan

Udp == INSTANCE UdpRelay WITH Clients <- Peers, listening <- udpListening,
                              doomed <- udpDoomed

ASSUME ComponentAssumptions == Tcp!ServerAssumption /\ Udp!UdpAssumption

(* The proxy that the application sees.  While setup() waits for the old   *)
(* server to close, the old profile is still in force.                     *)
Outside == INSTANCE Proxy
           WITH profile <- IF tcpListening THEN openedFor ELSE profile,
                usable <- valid,
                openFor <- IF tcpListening THEN openedFor ELSE NoProfile,
                boundFor <- IF udpListening THEN boundFor ELSE NoProfile,
                connections <- relay, datagrams <- out

(* "setup", "stop", "destroy": blocked in tcpServer->close(); "deleting":  *)
(* in ~QObject(), which deletes the children.                              *)
Tasks == {"idle", "setup", "stop", "destroy", "deleting", "destroyed"}

Init ==
    /\ task = "idle" /\ profile = NoProfile
    /\ openedFor = NoProfile /\ boundFor = NoProfile
    /\ announced = FALSE /\ ip = NoIP /\ lookups = [name \in Names |-> 0]
    /\ Tcp!Init /\ Udp!Init /\ isLocal = IsLocal

(* No call and no slot is under way.                                       *)
MainLoop == task = "idle" /\ ~aborted /\ accepting = {} /\ sending = Udp!Nothing

(* Closing the UDP relay may draw an IV (and MaxIVs is only a bound).      *)
CallThatCloses == MainLoop /\ enCipherIV.id < MaxIVs

-----------------------------------------------------------------------------
(* Calls from the application.                                             *)

(* serverAddress = Address(...), and lookUp() of a name.                   *)
SetServerAddress(server) ==
    IF server \in Names
    THEN /\ ip' = NoIP /\ lookups[server] < MaxLookups
         /\ lookups' = [lookups EXCEPT ![server] = @ + 1]
    ELSE ip' = server /\ UNCHANGED lookups

setupLeavesOpen(p) ==
    /\ CallThatCloses
    /\ profile' = p /\ SetServerAddress(p.server)
    /\ Udp!setup(p.method)
    /\ UNCHANGED <<task, openedFor, boundFor, announced, tcp>>

(* A method that the library lacks is seen at the end of setup(); an       *)
(* unknown one ends the program (encryptorprivate.cpp:15).  ep changes     *)
(* before the server closes: the main thread sees that only afterwards.    *)
setup(p) ==
    /\ CallThatCloses
    /\ profile' = p /\ SetServerAddress(p.server)
    /\ IF tcpListening
       THEN Tcp!close /\ task' = "setup" /\ UNCHANGED <<udp, banned>>
       ELSE Udp!setup(p.method) /\ UNCHANGED <<tcp, task>>
    /\ UNCHANGED <<openedFor, boundFor, announced>>

setupClosedDrains ==
    /\ task = "setup" /\ queue = <<>> /\ Tcp!closed /\ Udp!setup(profile.method)
    /\ task' = "idle"
    /\ UNCHANGED <<profile, openedFor, boundFor, announced, ip, lookups>>

setupClosed ==
    /\ task = "setup" /\ Tcp!closed /\ Udp!setup(profile.method)
    /\ task' = "idle"
    /\ UNCHANGED <<profile, openedFor, boundFor, announced, ip, lookups>>

startAnnouncesAnyway ==
    /\ MainLoop /\ profile # NoProfile /\ valid
    /\ Tcp!listen /\ openedFor' = profile /\ announced' = TRUE
    /\ \/ Udp!listen /\ boundFor' = profile
       \/ UNCHANGED <<udp, boundFor>>
    /\ UNCHANGED <<task, profile, ip, lookups>>

(* The TCP server first, and the UDP relay if that went well, which it     *)
(* does not when the socket is bound already.  A start() that fails before *)
(* changes nothing.                                                        *)
start ==
    /\ MainLoop /\ profile # NoProfile /\ valid
    /\ Tcp!listen /\ openedFor' = profile
    /\ \/ Udp!listen /\ boundFor' = profile /\ announced' = TRUE
       \/ UNCHANGED <<udp, boundFor, announced>>
    /\ UNCHANGED <<task, profile, ip, lookups>>

(* Also called by onTcpServerError() when the address is in use.           *)
stop ==
    /\ CallThatCloses /\ Tcp!close /\ task' = "stop"
    /\ UNCHANGED <<profile, openedFor, boundFor, announced, ip, lookups, udp>>

stopClosedTcpOnly ==
    /\ task \in {"stop", "destroy"} /\ Tcp!closed
    /\ announced' = FALSE
    /\ task' = IF task = "stop" THEN "idle" ELSE "deleting"
    /\ UNCHANGED <<profile, openedFor, boundFor, ip, lookups, udp>>

stopClosed ==
    /\ task \in {"stop", "destroy"} /\ Tcp!closed /\ Udp!stop
    /\ announced' = FALSE
    /\ task' = IF task = "stop" THEN "idle" ELSE "deleting"
    /\ UNCHANGED <<profile, openedFor, boundFor, ip, lookups>>

destructor ==
    /\ CallThatCloses
    /\ IF tcpListening
       THEN Tcp!close /\ task' = "destroy"
       ELSE task' = "deleting" /\ UNCHANGED <<tcp, banned>>
    /\ UNCHANGED <<profile, openedFor, boundFor, announced, ip, lookups, udp>>

deleteChildren ==
    /\ task = "deleting" /\ Tcp!destructor /\ task' = "destroyed"
    /\ UNCHANGED <<profile, openedFor, boundFor, announced, ip, lookups, udp>>

-----------------------------------------------------------------------------
(* The resolver answers, in any order, for the name it was asked.          *)
onLookUpFinished(name) ==
    /\ MainLoop /\ lookups[name] > 0
    /\ lookups' = [lookups EXCEPT ![name] = @ - 1]
    /\ ip' \in {ip, name}
    /\ UNCHANGED <<task, profile, openedFor, boundFor, announced, tcp, udp, banned>>

(* Slots of the two servers, and the worker threads, which nothing stops   *)
(* but the end of the program.                                             *)
TcpSlot ==
    /\ MainLoop
    /\ Tcp!onConnectionFinished \/ \E peer \in Peers : Tcp!incomingConnection(peer)
    /\ UNCHANGED <<own, udp>>

UdpSlot ==
    /\ MainLoop
    /\ \/ \E client \in Peers, kind \in Udp!Kinds :
             Udp!onServerUdpSocketReadyRead(client, kind)
       \/ \E s \in Sockets : Udp!onClientUdpSocketReadyRead(s) \/ Udp!deferredDelete(s)
    /\ UNCHANGED <<own, tcp>>

(* A slot goes on after what it did with the ban list's mutex free.        *)
newTcpRelay   == ~aborted /\ Tcp!newTcpRelay /\ UNCHANGED <<own, udp>>
writeDatagram == Udp!writeDatagram /\ UNCHANGED <<own, tcp>>

threadFinished(w) == ~aborted /\ Tcp!threadFinished(w) /\ UNCHANGED <<own, udp>>

Worker ==
    /\ ~aborted
    /\ \E a \in Addrs : Tcp!finished(a) \/ Tcp!deferredDelete(a)
    /\ UNCHANGED <<own, udp>>

Next ==
    \/ \E p \in Profiles : setup(p)
    \/ setupClosed \/ start \/ stop \/ stopClosed \/ destructor \/ deleteChildren
    \/ \E name \in Names : onLookUpFinished(name)
    \/ TcpSlot \/ newTcpRelay \/ UdpSlot \/ writeDatagram \/ Worker
    \/ \E w \in Tcp!Workers : threadFinished(w)

(* A thread told to quit does, and wait() returns when all have.           *)
Spec ==
    /\ Init /\ [][Next]_vars
    /\ WF_vars(setupClosed) /\ WF_vars(stopClosed) /\ WF_vars(deleteChildren)
    /\ \A w \in Tcp!Workers : WF_vars(threadFinished(w))

-----------------------------------------------------------------------------
(* Properties.                                                             *)

TypeOK ==
    /\ task \in Tasks /\ profile \in Profiles \cup {NoProfile}
    /\ openedFor \in Profiles \cup {NoProfile}
    /\ boundFor \in Profiles \cup {NoProfile} /\ announced \in BOOLEAN
    /\ ip \in Names \cup Literals \cup {NoIP}
    /\ lookups \in [Names -> 0 .. MaxLookups]
    /\ Tcp!TypeOK /\ Udp!TypeOK

(* After every call: a TCP server that listens was opened with the profile *)
(* in force and a method that can be used, and runningStateChanged() last  *)
(* told what the UDP relay does, whichever of start()'s steps failed and   *)
(* whatever setup() has closed since.                                      *)
ListensForProfile ==
    task = "idle" =>
        /\ tcpListening => openedFor = profile /\ valid
        /\ announced = udpListening

(* After stop(), or a setup() that was not followed by start(), nothing    *)
(* happens to a connection; and once runningStateChanged(false) was sent   *)
(* no datagram leaves.                                                     *)
StoppedIsQuiet ==
    [][/\ ~tcpListening /\ ~tcpListening' => UNCHANGED relay
       /\ ~announced => UNCHANGED out]_vars

(* Whom the main thread is serving.                                        *)
InHand == accepting \cup (IF sending = Udp!Nothing THEN {} ELSE {sending.client})

Served(peer) ==
    \/ Tcp!NewRelayFor(peer)
    \/ out' # out /\ out'.way = "up" /\ out'.client = peer

(* A ban made by either protocol holds for both.  What races with it is    *)
(* one connection or one datagram, not one of each: what the main thread   *)
(* had in hand when a worker thread made the ban.                          *)
BannedEverywhere ==
    [][/\ accepting = {} \/ sending = Udp!Nothing
       /\ \A peer \in banned :
             /\ peer \in banned'
             /\ Served(peer) => peer \in InHand \ InHand'
             /\ peer \in InHand' => peer \in InHand]_vars

(* To the application the Controller is a proxy in two halves, as Proxy    *)
(* says: that setup() and stop() wait for threads that go on relaying, and *)
(* that the halves are opened one after the other, cannot be told from     *)
(* outside.                                                                *)
ActsAsProxy == Outside!Spec

(* No call leaves the main thread waiting for its worker threads for ever. *)
CallsReturn == [](task # "idle" => <>(task \in {"idle", "destroyed"}))

(* "This function can also be used to change the Profile without the need  *)
(* to create a new Controller" (controller.h:31): the server's IP address  *)
(* is that of the server the profile names.                                *)
AddressOfProfile == profile # NoProfile => ip \in {NoIP, profile.server}

(* The same sentence of controller.h:31: a UDP relay that listens does so  *)
(* for the profile in force.                                               *)
DatagramsFollowProfile == task = "idle" /\ udpListening => boundFor = profile
=============================================================================
