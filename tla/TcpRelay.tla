------------------------------ MODULE TcpRelay ------------------------------
(***************************************************************************)
(* One TcpRelay of lib/tcprelay.cpp: the object that carries one TCP       *)
(* connection between a client (socket "local") and a destination or the   *)
(* shadowsocks server (socket "remote"), in client mode (IsLocal) or in    *)
(* server mode.  An action is one slot run by the worker's event loop,     *)
(* with everything that Qt runs synchronously inside it: close() re-enters *)
(* itself through the sockets' disconnected signals, connectToHost() may   *)
(* succeed or fail before it returns, lookUp() answers at once for an IP.  *)
(***************************************************************************)
EXTENDS Naturals, Sequences

CONSTANTS
    IsLocal,        \* client mode (a SOCKS5 proxy) or server mode
    AutoBan,        \* the server bans addresses whose header does not parse
    MaxUp,          \* bound: segments to forward from local to remote
    MaxDown         \* bound: segments to forward from remote to local

ASSUME RelayAssumption ==
    /\ IsLocal \in BOOLEAN /\ AutoBan \in BOOLEAN
    /\ MaxUp \in Nat /\ MaxDown \in Nat

VARIABLES
    stage,          \* enum STAGE
    dataToWrite,    \* segments held until remote is connected
    enCipher,       \* encryptor->enCipher exists: the IV has been emitted
    deCipher,       \* encryptor->deCipher: absent, or set up on the right IV or not
    local, remote,  \* state of the two QTcpSockets
    timer,          \* the QTimer runs
    lookup,         \* the asynchronous host lookup and its queued result
    finished,       \* how many times finished() has been emitted
    deleted,        \* the deleteLater() asked for by TcpServer was carried out
    banned,         \* this relay put its peer on the ban list
    wellFormed,     \* the header the client sends is well formed (never changes)
    nUp, nDown,     \* segments taken in to be forwarded
    toRemote,       \* everything written to remote, in order
    toLocal         \* everything written to local, in order

sockets  == <<stage, local, remote, finished>>          \* what Close assigns
upstream == <<dataToWrite, toRemote, nUp>>
services == <<toLocal, enCipher, lookup, banned>>
others   == <<deCipher, timer, nDown, deleted, wellFormed>>
vars     == <<sockets, upstream, services, others>>

Stages == {"INIT", "ADDR", "UDP_ASSOC", "DNS", "CONNECTING", "STREAM", "DESTROYED"}

(* "Closing": close() was called with bytes still to be written.           *)
(* "Abandoned": close() was called while connecting (Qt's pendingClose).   *)
SocketStates == {"Unconnected", "Connecting", "Abandoned", "Connected", "Closing"}

(* A segment as the encryptor sees it: shorter than the IV, just the IV,   *)
(* or longer.                                                              *)
Segments == {"short", "iv", "data"}

(* A segment as it leaves: as it came, encrypted, encrypted after the IV.  *)
Forms == {"plain", "cipher", "framed"}

Up == INSTANCE OrderedChannel
      WITH Framed <- IsLocal, accepted <- nUp, delivered <- toRemote,
           closed <- finished > 0

MaxFinished == 4

Life == INSTANCE RelayLife
        WITH alive <- ~deleted, emitted <- IF deleted THEN 0 ELSE finished,
             stopping <- FALSE

TypeOK ==
    /\ stage \in Stages
    /\ dataToWrite \in Seq([n : Nat, form : Forms])
    /\ enCipher \in BOOLEAN
    /\ deCipher \in {"none", "lost", "aligned", "misaligned"}
    /\ local \in SocketStates /\ remote \in SocketStates
    /\ timer \in BOOLEAN
    /\ lookup \in {"none", "resolving", "resolved", "failed"}
    /\ finished \in 0 .. MaxFinished
    /\ deleted \in BOOLEAN /\ banned \in BOOLEAN /\ wellFormed \in BOOLEAN
    /\ nUp \in 0 .. MaxUp /\ nDown \in 0 .. MaxDown
    /\ toRemote \in Seq([n : Nat, form : Forms])
    /\ toLocal \in Seq([what : {"accept", "reject", "reply", "udpReply", "data"},
                        n : Nat, form : Forms])

(* The constructor.  The timer is not started.                             *)
Init ==
    /\ stage = "INIT" /\ dataToWrite = <<>>
    /\ enCipher = FALSE /\ deCipher = "none"
    /\ local = "Connected" /\ remote = "Unconnected"
    /\ timer = FALSE /\ lookup = "none"
    /\ finished = 0 /\ deleted = FALSE
    /\ banned = FALSE /\ wellFormed \in BOOLEAN
    /\ nUp = 0 /\ nDown = 0 /\ toRemote = <<>> /\ toLocal = <<>>

-----------------------------------------------------------------------------
(* The encryptor.                                                          *)

Encrypt(n) == [n |-> n, form |-> IF enCipher THEN "cipher" ELSE "framed"]
Plain(n)   == [n |-> n, form |-> "plain"]

(* decrypt() sets the cipher up on the first segment that holds a whole    *)
(* IV; a shorter one is dropped, and then the next one starts mid-IV.      *)
HasDeCipher == deCipher \in {"aligned", "misaligned"}

DeCipherAfter(segment) ==
    CASE HasDeCipher         -> deCipher
      [] ~HasDeCipher /\ segment = "short" -> "lost"
      [] ~HasDeCipher /\ segment # "short" ->
            IF deCipher = "none" THEN "aligned" ELSE "misaligned"

Decrypts(segment) == HasDeCipher \/ segment = "data"    \* to something

ForRemoteHeldPlain(n) == IF IsLocal /\ stage = "STREAM" THEN Encrypt(n) ELSE Plain(n)
ForRemote(n) == IF IsLocal THEN Encrypt(n) ELSE Plain(n)

ForLocalPlain(n) == Plain(n)
ForLocal(n)  == IF IsLocal THEN Plain(n) ELSE Encrypt(n)

Write(what, segment) ==
    toLocal' = Append(toLocal, [what |-> what, n |-> segment.n, form |-> segment.form])

Answer(what) == Write(what, Plain(0))

-----------------------------------------------------------------------------
(* close(), called with stage s while the sockets are in states l and r.   *)
(* A "Failed" socket is a connected one on which Qt is reporting an error: *)
(* Qt takes it to Unconnected whatever close() does.  Closing a connected  *)
(* socket with nothing left to write emits disconnected() inside close(),  *)
(* which runs close() again before stage is DESTROYED: one more finished().*)

Count(b) == IF b THEN 1 ELSE 0

DrainedNow(socket, written) ==
    IF socket \notin {"Connected", "Failed"} THEN {FALSE}
    ELSE IF written = <<>> THEN {TRUE} ELSE BOOLEAN

ClosedSocket(socket, drained) ==
    CASE socket = "Failed"     -> "Unconnected"
      [] socket = "Connecting" -> "Abandoned"
      [] socket = "Connected"  -> IF drained THEN "Unconnected" ELSE "Closing"
      [] OTHER                 -> socket

CloseWhileDestroyed(s, l, r) ==
    \E dl \in DrainedNow(l, toLocal'), dr \in DrainedNow(r, toRemote') :
        /\ stage' = "DESTROYED"
        /\ local' = ClosedSocket(l, dl) /\ remote' = ClosedSocket(r, dr)
        /\ finished' = finished + 1 + Count(dl) + Count(dr)

CloseRemoteOnly(s, l, r) ==
    \E dr \in DrainedNow(r, toRemote') :
        /\ stage' = "DESTROYED"
        /\ local' = l /\ remote' = ClosedSocket(r, dr)
        /\ finished' = IF s = "DESTROYED" THEN finished ELSE finished + 1 + Count(dr)

Close(s, l, r) ==
    IF s = "DESTROYED"
    THEN /\ stage' = s /\ UNCHANGED finished
         /\ local' = IF l = "Failed" THEN "Unconnected" ELSE l
         /\ remote' = IF r = "Failed" THEN "Unconnected" ELSE r
    ELSE \E dl \in DrainedNow(l, toLocal'), dr \in DrainedNow(r, toRemote') :
            /\ stage' = "DESTROYED"
            /\ local' = ClosedSocket(l, dl) /\ remote' = ClosedSocket(r, dr)
            /\ finished' = finished + 1 + Count(dl) + Count(dr)

-----------------------------------------------------------------------------
(* Reaching remote.                                                        *)

FlushWithoutClear(held) == toRemote' = toRemote \o held /\ dataToWrite' = held
Flush(held) == toRemote' = toRemote \o held /\ dataToWrite' = <<>>

Hold(held) == dataToWrite' = held /\ UNCHANGED toRemote

ConnectThenSetStage(held) ==
    \/ /\ stage' = "CONNECTING" /\ remote' \in {"Connecting", "Connected"}
       /\ IF remote' = "Connected" THEN Flush(held) ELSE Hold(held)
       /\ UNCHANGED <<local, finished>>
    \/ Hold(held) /\ Close("CONNECTING", local, "Unconnected")

(* onDNSResolved(true), held being what dataToWrite contains: the attempt  *)
(* is under way, or connected() or error() comes before connectToHost()    *)
(* returns.                                                                *)
ConnectToHost(held) ==
    \/ /\ stage' = "CONNECTING" /\ remote' = "Connecting"
       /\ Hold(held) /\ UNCHANGED <<local, finished>>
    \/ /\ stage' = "STREAM" /\ remote' = "Connected"
       /\ Flush(held) /\ UNCHANGED <<local, finished>>
    \/ Hold(held) /\ Close("CONNECTING", local, "Unconnected")

(* stage = DNS, then Address::lookUp(): an address that has an IP emits    *)
(* lookedUp at once, another starts an asynchronous lookup.                *)
LookUp(held) ==
    \/ ConnectToHost(held) /\ UNCHANGED lookup
    \/ /\ stage' = "DNS" /\ lookup' = "resolving"
       /\ Hold(held) /\ UNCHANGED <<local, remote, finished>>

-----------------------------------------------------------------------------
(* The branches of onLocalTcpSocketReadyRead.                              *)

TakeUp == nUp < MaxUp /\ nUp' = nUp + 1

LocalStream ==
    /\ stage = "STREAM" /\ TakeUp
    /\ toRemote' = IF remote = "Connected" THEN Append(toRemote, ForRemote(nUp'))
                                           ELSE toRemote
    /\ enCipher' = IF IsLocal THEN TRUE ELSE enCipher
    /\ UNCHANGED <<sockets, dataToWrite, toLocal, lookup, banned>>

(* A client that does not speak SOCKS5 is told so, and served all the same. *)
LocalGreeting ==
    /\ IsLocal /\ stage = "INIT"
    /\ stage' = "ADDR"
    /\ Answer("accept") \/ Answer("reject")
    /\ UNCHANGED <<upstream, local, remote, finished, enCipher, lookup, banned>>

LocalHoldOverwrites ==
    /\ stage \in {"DNS", "CONNECTING"} /\ TakeUp
    /\ Hold(<<ForRemote(nUp')>>)
    /\ enCipher' = IF IsLocal THEN TRUE ELSE enCipher
    /\ UNCHANGED <<sockets, toLocal, lookup, banned>>

LocalHold ==
    /\ stage \in {"DNS", "CONNECTING"} /\ TakeUp
    /\ Hold(Append(dataToWrite, ForRemote(nUp')))
    /\ enCipher' = IF IsLocal THEN TRUE ELSE enCipher
    /\ UNCHANGED <<sockets, toLocal, lookup, banned>>

(* Client mode: the SOCKS5 request, whose address goes upstream as the     *)
(* first encrypted segment.                                                *)
RequestUdpForgotten ==
    Answer("udpReply") /\ UNCHANGED <<sockets, upstream, enCipher, lookup, banned>>

RequestUdpAssociate ==
    /\ Answer("udpReply") /\ stage' = "UDP_ASSOC"
    /\ UNCHANGED <<upstream, local, remote, finished, enCipher, lookup, banned>>

RequestConnect ==
    /\ TakeUp /\ Answer("reply")
    /\ enCipher' = TRUE /\ UNCHANGED banned
    /\ LookUp(Append(dataToWrite, Encrypt(nUp')))

RequestRefused ==
    UNCHANGED <<upstream, services>> /\ Close(stage, local, remote)

(* Server mode: the header, alone or with the first bytes of the stream.   *)
HeaderOk ==
    /\ UNCHANGED <<toLocal, enCipher, banned>>
    /\ \/ UNCHANGED nUp /\ LookUp(dataToWrite)
       \/ TakeUp /\ LookUp(Append(dataToWrite, ForRemote(nUp')))

HeaderBadGoesOn ==
    /\ banned' = (banned \/ AutoBan)
    /\ UNCHANGED <<toLocal, enCipher, nUp>> /\ LookUp(dataToWrite)

HeaderBad ==
    /\ banned' = (banned \/ AutoBan)
    /\ UNCHANGED <<upstream, toLocal, enCipher, lookup>>
    /\ Close(stage, local, remote)

(* A header that arrives whole parses.  One cut short by the end of the    *)
(* segment, malformed, or decrypted on the wrong IV usually does not, but  *)
(* may (only its port is missing, garbage that happens to parse).          *)
HeadersSeen ==
    IF wellFormed /\ deCipher' # "misaligned" THEN {"whole", "cut"} ELSE {"garbage"}

HandleStageAddr ==
    /\ stage = (IF IsLocal THEN "ADDR" ELSE "INIT")
    /\ \/ IsLocal /\ (RequestUdpAssociate \/ RequestRefused \/ RequestConnect)
       \/ ~IsLocal /\ \E header \in HeadersSeen :
                          HeaderOk \/ (header # "whole" /\ HeaderBad)

LocalIgnored ==
    /\ stage \in {"UDP_ASSOC", "DESTROYED"}
    /\ UNCHANGED <<sockets, upstream, services>>

-----------------------------------------------------------------------------
(* The slots.  A deleted relay runs none.  A readyRead starts the timer.   *)

OnLocalTcpSocketReadyRead ==
    /\ ~deleted /\ local = "Connected"
    /\ timer' = TRUE
    /\ UNCHANGED <<nDown, deleted, wellFormed>>
    /\ \/ /\ UNCHANGED <<upstream, services, deCipher>>       \* empty data
          /\ Close(stage, local, remote)
       \/ \E segment \in IF IsLocal THEN {"data"} ELSE Segments :
             /\ deCipher' = IF IsLocal THEN deCipher ELSE DeCipherAfter(segment)
             /\ IF IsLocal \/ Decrypts(segment)
                THEN LocalStream \/ LocalGreeting \/ LocalHold
                        \/ HandleStageAddr \/ LocalIgnored
                ELSE UNCHANGED <<sockets, upstream, services>>

(* Bytes from remote; those that come after local was closed go nowhere.   *)
OnRemoteTcpSocketReadyRead ==
    /\ ~deleted /\ remote = "Connected"
    /\ timer' = TRUE
    /\ UNCHANGED <<upstream, lookup, banned, deleted, wellFormed>>
    /\ \/ /\ UNCHANGED <<toLocal, enCipher, deCipher, nDown>> \* empty data
          /\ Close(stage, local, remote)
       \/ /\ UNCHANGED sockets
          /\ enCipher' = IF IsLocal THEN enCipher ELSE TRUE
          /\ \E segment \in IF IsLocal THEN Segments ELSE {"data"} :
                /\ deCipher' = IF IsLocal THEN DeCipherAfter(segment) ELSE deCipher
                /\ IF (IsLocal => Decrypts(segment)) /\ local = "Connected"
                   THEN /\ nDown < MaxDown /\ nDown' = nDown + 1
                        /\ Write("data", ForLocal(nDown'))
                   ELSE UNCHANGED <<nDown, toLocal>>

(* connected().  On an abandoned attempt the device is closed, so the      *)
(* write fails and what was held is lost; Qt then disconnects the socket,  *)
(* and disconnected() calls close() with stage = STREAM.                   *)
OnRemoteConnected ==
    /\ ~deleted
    /\ UNCHANGED <<nUp, services, others>>
    /\ \/ /\ remote = "Connecting"
          /\ stage' = "STREAM" /\ remote' = "Connected" /\ Flush(dataToWrite)
          /\ UNCHANGED <<local, finished>>
       \/ /\ remote = "Abandoned"
          /\ dataToWrite' = <<>> /\ UNCHANGED toRemote
          /\ Close("STREAM", local, "Unconnected")

(* Address::onLookUpFinished, in the thread the Address lives in; its      *)
(* lookedUp signal is queued to the relay's thread.                        *)
OnLookUpFinished ==
    /\ ~deleted /\ lookup = "resolving"
    /\ lookup' \in {"resolved", "failed"}
    /\ UNCHANGED <<sockets, upstream, toLocal, enCipher, banned, others>>

LookedUp ==
    /\ ~deleted /\ lookup \in {"resolved", "failed"} /\ lookup' = "none"
    /\ UNCHANGED <<nUp, toLocal, enCipher, banned, others>>

OnDNSResolved ==
    /\ LookedUp
    /\ \/ lookup = "resolved" /\ ConnectToHost(dataToWrite)
       \/ lookup = "failed" /\ Hold(dataToWrite) /\ Close(stage, local, remote)

(* The slots that only call close(): errors, disconnected() once the last  *)
(* bytes of a closed socket are out, and the timer.                        *)
JustClose(l, r) ==
    ~deleted /\ UNCHANGED <<upstream, services, others>> /\ Close(stage, l, r)

OnLocalTcpSocketError == local \in {"Connected", "Closing"} /\ JustClose("Failed", remote)

OnRemoteTcpSocketError ==
    \/ remote \in {"Connecting", "Abandoned"} /\ JustClose(local, "Unconnected")
    \/ remote \in {"Connected", "Closing"} /\ JustClose(local, "Failed")

LocalDisconnected  == local = "Closing" /\ JustClose("Unconnected", remote)
RemoteDisconnected == remote = "Closing" /\ JustClose(local, "Unconnected")

OnTimeoutWhileStreaming == timer /\ stage = "STREAM" /\ JustClose(local, remote)
OnTimeout == timer /\ JustClose(local, remote)

(* TcpServer::onConnectionFinished -> deleteLater(), some time after the   *)
(* first finished().                                                       *)
Delete ==
    /\ ~deleted /\ finished > 0 /\ deleted' = TRUE
    /\ UNCHANGED <<sockets, upstream, services, deCipher, timer, nDown, wellFormed>>

Next ==
    \/ OnLocalTcpSocketReadyRead \/ OnRemoteTcpSocketReadyRead
    \/ OnRemoteConnected \/ OnLookUpFinished \/ OnDNSResolved
    \/ OnLocalTcpSocketError \/ OnRemoteTcpSocketError
    \/ LocalDisconnected \/ RemoteDisconnected \/ OnTimeout \/ Delete

Safety == Init /\ [][Next]_vars

(* The event loop serves timers, lookup results and connection attempts    *)
(* (Qt gives an attempt up after 30 s); it owes nobody any traffic.  Every *)
(* read restarts the timer, but MaxUp and MaxDown bound the traffic: in    *)
(* the end every behaviour is silent, and then the timer does fire.        *)
ConnectionSettles ==
    remote = "Connecting" /\ (OnRemoteConnected \/ OnRemoteTcpSocketError)

Spec ==
    /\ Safety
    /\ WF_vars(OnTimeout) /\ WF_vars(ConnectionSettles)
    /\ WF_vars(OnLookUpFinished) /\ WF_vars(OnDNSResolved)

-----------------------------------------------------------------------------
(* Properties.                                                             *)

(* While the relay is open, what was written to remote followed by what is *)
(* held in dataToWrite is exactly what the client sent: nothing is lost,   *)
(* doubled or reordered between the stages, and in client mode the first   *)
(* segment, and no other, carries the IV.  After it has closed, what was   *)
(* written is still all or nothing of it.                                  *)
UpstreamIntact ==
    /\ finished = 0 => toRemote \o dataToWrite = Up!Stream(nUp)
    /\ toRemote \in {<<>>, Up!Stream(nUp)}

(* stage says what the sockets and the lookup are doing.  A closed relay   *)
(* (finished > 0) may be brought back to CONNECTING or STREAM by a lookup  *)
(* that was under way, but then local is closed.                           *)
StageMatchesSockets ==
    /\ stage = "STREAM" <=> remote = "Connected"
    /\ stage = "CONNECTING" <=> remote = "Connecting"
    /\ stage = "DNS" => lookup # "none"
    /\ lookup # "none" => remote = "Unconnected" /\ stage \in {"DNS", "DESTROYED"}
    /\ finished = 0 <=> local = "Connected"
    /\ finished = 0 => stage # "DESTROYED"
    /\ finished > 0 => stage \in {"DESTROYED", "CONNECTING", "STREAM"}

(* What local receives: in client mode the greeting's answer, the          *)
(* request's answer, then remote's segments in order and only after the    *)
(* answer to a CONNECT; in server mode remote's segments in order, the     *)
(* first one, and no other, carrying the IV.                               *)
ClientStreamWellFormed ==
    \A i \in DOMAIN toLocal :
        \/ ~IsLocal /\ toLocal[i] = 
                [what |-> "data", n |-> i, form |-> IF i = 1 THEN "framed" ELSE "cipher"]
        \/ IsLocal /\ i = 1 /\ toLocal[i].what \in {"accept", "reject"}
        \/ IsLocal /\ i = 2 /\ toLocal[i].what \in {"reply", "udpReply"}
        \/ /\ IsLocal /\ i > 2 /\ toLocal[2].what = "reply"
           /\ toLocal[i] = [what |-> "data", n |-> i - 2, form |-> "plain"]

(* Once finished() has been emitted nothing more is taken from the client  *)
(* or written to it, whatever late lookup or connection result arrives.    *)
ClosedToClient == [][finished > 0 => UNCHANGED <<nUp, nDown, toLocal>>]_vars

(* A client that was banned gets no connection out of this relay.          *)
BannedNeverConnected ==
    banned => toRemote = <<>> /\ remote = "Unconnected" /\ lookup = "none"

(* The upstream direction is an ordered channel that delivers or closes.   *)
UpstreamChannel == Up!Spec

(* The relay keeps what TcpServer counts on: whatever re-entrant calls of  *)
(* close() and late results come together, it emits finished() at most     *)
(* four times, and never after it was deleted.                             *)
LivesAsPromised == Life!Spec

(* Once anything was read, a connection that falls silent is closed.       *)
SilentConnectionCloses == timer ~> finished > 0

(* "Automatically ban IPs that send malformed header." (main.cpp:34)       *)
BanOnlyMalformed == banned => ~wellFormed
=============================================================================
