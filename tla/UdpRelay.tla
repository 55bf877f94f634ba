------------------------------ MODULE UdpRelay ------------------------------
(***************************************************************************)
(* lib/udprelay.cpp with the datagram half of lib/encryptor.cpp and the    *)
(* calls that lib/controller.cpp makes to them.  Everything runs in the    *)
(* main thread, one slot at a time; only the ban list is also written by   *)
(* the TCP relays' threads, also while a slot is under way.  Any client's  *)
(* datagram may be the next one the listening socket reads, and any        *)
(* datagram the next one for a client's own socket, also when that socket  *)
(* only waits for its deferred delete.                                     *)
(* (A datagram larger than RemoteRecvSize cannot exist.)                   *)
(***************************************************************************)
EXTENDS Naturals

CONSTANTS
    Clients,        \* the clients, each at an IP address of its own
    Sockets,        \* bound: the QUdpSockets that can be alive at a time
    NoSocket,       \* a null QUdpSocket pointer
    Methods,        \* the IV lengths of the configurable methods
    AutoBan,        \* of the server; ignored in client mode
    MaxIVs          \* bound: IVs drawn

ASSUME UdpAssumption ==
    /\ NoSocket \notin Sockets /\ "freed" \notin Clients
    /\ Methods \subseteq Nat \ {0}
    /\ AutoBan \in BOOLEAN /\ MaxIVs \in Nat \ {0}

VARIABLES
    isLocal,        \* client or server mode (never changes)
    ivLen,          \* ep.ivLen: 0 until setup() is called
    valid,          \* ep.isValid(): FALSE until then, and for a method without a cipher
    listening,
    cache,          \* by client: its socket
    madeFor,        \* by socket: the client it was made for, or "freed"
    doomed,         \* the sockets with a deferred delete pending
    enCipher,       \* encryptor->enCipher exists
    enCipherIV,     \* the IV the next datagram gets: the id-th one drawn
    deCipher,       \* "none", "live", or "dangling": the cipher was deleted
    banned,
    sending,        \* the datagram whose destination blockingLookUp() is looking up
    out,            \* the last datagram sent, with what it should have been
    aborted         \* the program has ended by qFatal() or a crash

encryptor == <<enCipher, enCipherIV, deCipher>>
sockets   == <<cache, madeFor, doomed>>
ep        == <<ivLen, valid>>
vars      == <<isLocal, ep, listening, sockets, encryptor, banned, sending, out,
               aborted>>

IVs       == [id : 1 .. MaxIVs, len : Methods \cup {0}]
NoIV      == [id |-> 0]
Nothing   == [way |-> "none"]
Datagrams == [way : {"up", "down"}, client : Clients, owner : Clients,
              iv : IVs \cup {NoIV}, ivLen : Methods]
Alive     == {s \in Sockets : madeFor[s] # "freed"}

(* The number of the IV that the next datagram to be sent gets.            *)
NextIV == IF sending # Nothing /\ sending.iv # NoIV THEN sending.iv.id ELSE enCipherIV.id

Outside == INSTANCE Sessions
           WITH encryptsUp <- isLocal, open <- listening,
                session <- {c \in Clients : cache[c] # NoSocket},
                taken <- IF sending = Nothing THEN {} ELSE {sending.client},
                nextIV <- NextIV,
                last <- IF out = Nothing THEN Nothing
                        ELSE [way |-> out.way, client |-> out.client, iv |-> out.iv.id]

(* The constructor draws an IV for a method that is not known yet.         *)
Init ==
    /\ isLocal \in BOOLEAN /\ ivLen = 0 /\ valid = FALSE /\ listening = FALSE
    /\ cache = [c \in Clients |-> NoSocket]
    /\ madeFor = [s \in Sockets |-> "freed"] /\ doomed = {}
    /\ enCipher = FALSE /\ enCipherIV = [id |-> 1, len |-> 0] /\ deCipher = "none"
    /\ banned = {} /\ sending = Nothing /\ out = Nothing /\ aborted = FALSE

MainLoop == ~aborted /\ sending = Nothing

-----------------------------------------------------------------------------
(* The encryptor.                                                          *)

DrawIV(length) ==
    enCipherIV.id < MaxIVs /\ enCipherIV' = [id |-> enCipherIV.id + 1, len |-> length]

(* deleteLater() of a cipher that is gone is undefined.                    *)
Crash == IF deCipher = "dangling" THEN BOOLEAN ELSE {FALSE}

reset(length) ==
    /\ enCipher' = FALSE /\ deCipher' = "none" /\ aborted' \in Crash
    /\ IF enCipher THEN DrawIV(length) ELSE UNCHANGED enCipherIV

(* A cipher that the library does not have ends the program; so do some    *)
(* ciphers when given an IV that is not of the method's length.            *)
Fatal(length) ==
    IF ~valid THEN {TRUE} ELSE IF length = ivLen THEN {FALSE} ELSE BOOLEAN

encryptAllKeepsIV ==
    /\ enCipher' = TRUE /\ UNCHANGED <<enCipherIV, deCipher>>
    /\ aborted' \in Fatal(enCipherIV.len)

(* encryptAll() of a datagram, sent or not.                                *)
encryptAll ==
    /\ enCipher' = TRUE /\ DrawIV(ivLen) /\ UNCHANGED deCipher
    /\ aborted' \in Fatal(enCipherIV.len)

(* decryptAll() deletes the last cipher; a datagram that is too short to   *)
(* hold an IV gets no new one, and deCipher is not reset.                  *)
decryptAll(short) ==
    /\ deCipher' = IF ~short THEN "live"
                   ELSE IF deCipher = "none" THEN "none" ELSE "dangling"
    /\ \E crash \in Crash, refused \in (IF short THEN {FALSE} ELSE Fatal(ivLen)) :
          aborted' = (crash \/ refused)
    /\ UNCHANGED <<enCipher, enCipherIV>>

Datagram(way, client, owner, iv) ==
    [way |-> way, client |-> client, owner |-> owner, iv |-> iv, ivLen |-> ivLen]

-----------------------------------------------------------------------------
(* Calls from the Controller.                                              *)

listen ==
    /\ MainLoop /\ ~listening /\ valid
    /\ listening' = TRUE
    /\ UNCHANGED <<isLocal, ep, sockets, encryptor, banned, sending, out, aborted>>

Cached == {cache[c] : c \in Clients}

closeKeepsCache(length) ==
    /\ listening' = FALSE /\ reset(length)
    /\ doomed' = doomed \cup (Cached \ {NoSocket})
    /\ UNCHANGED <<cache, madeFor>>

closeNullToo(length) ==
    /\ listening' = FALSE /\ reset(length)
    /\ doomed' = doomed \cup Cached
    /\ cache' = [c \in Clients |-> NoSocket] /\ UNCHANGED madeFor

close(length) ==
    /\ listening' = FALSE /\ reset(length)
    /\ doomed' = doomed \cup (Cached \ {NoSocket})
    /\ cache' = [c \in Clients |-> NoSocket] /\ UNCHANGED madeFor

stop ==
    /\ MainLoop /\ close(ivLen)
    /\ UNCHANGED <<isLocal, ep, banned, sending, out>>

(* isListening() is listenSocket.isOpen(), which asks for the open mode of *)
(* the QIODevice.  bind() gives a QUdpSocket an address and a port but no  *)
(* open mode (connectToHost() would), so the answer is always no.          *)
isListening == FALSE

(* setup() sets the new method and closes a relay that says it listens.    *)
setup(method) ==
    /\ MainLoop /\ ivLen' = method /\ valid' \in BOOLEAN
    /\ IF isListening THEN close(method)
       ELSE UNCHANGED <<listening, sockets, encryptor, aborted>>
    /\ UNCHANGED <<isLocal, banned, sending, out>>

-----------------------------------------------------------------------------
(* The slots.  A datagram is a SOCKS5 "fragment", "malformed", or neither. *)

Kinds == {"fragment", "malformed", "wellFormed"}

SocketOfAnyone(client) ==
    \/ Cached # {NoSocket} /\ UNCHANGED <<madeFor, doomed>>
       /\ \E s \in Cached \ {NoSocket} : cache' = [cache EXCEPT ![client] = s]
    \/ /\ Cached = {NoSocket} /\ UNCHANGED doomed
       /\ \E s \in Sockets \ Alive :
             /\ cache' = [cache EXCEPT ![client] = s]
             /\ madeFor' = [madeFor EXCEPT ![s] = client]

(* The client's socket, from the cache or new.                             *)
SocketOf(client) ==
    \/ cache[client] # NoSocket /\ UNCHANGED sockets
    \/ /\ cache[client] = NoSocket
       /\ \E s \in Sockets \ Alive :
             /\ cache' = [cache EXCEPT ![client] = s]
             /\ madeFor' = [madeFor EXCEPT ![s] = client]
             /\ UNCHANGED doomed

(* Everything up to blockingLookUp().                                      *)
Forward(client) ==
    /\ SocketOf(client)
    /\ IF isLocal THEN encryptAll ELSE decryptAll(FALSE)
    /\ sending' = IF aborted' THEN Nothing
                  ELSE Datagram("up", client, madeFor'[cache'[client]],
                                IF isLocal THEN enCipherIV ELSE NoIV)
    /\ UNCHANGED <<banned, out>>

Reject(client) ==
    /\ IF isLocal THEN UNCHANGED <<encryptor, aborted>>
       ELSE \E short \in BOOLEAN : decryptAll(short)
    /\ banned' = IF ~isLocal /\ AutoBan THEN banned \cup {client} ELSE banned
    /\ UNCHANGED <<sockets, sending, out>>

ServesBanned(client, kind) ==
    IF kind = "malformed" THEN Reject(client) ELSE Forward(client)

(* A banned client's datagram is not looked at; a malformed one bans.      *)
Serves(client, kind) ==
    IF ~isLocal /\ AutoBan /\ client \in banned
    THEN UNCHANGED <<sockets, encryptor, banned, sending, out, aborted>>
    ELSE IF kind = "malformed" THEN Reject(client) ELSE Forward(client)

onServerUdpSocketReadyRead(client, kind) ==
    /\ MainLoop /\ listening
    /\ IF kind = "fragment"
       THEN isLocal /\ UNCHANGED <<sockets, encryptor, banned, sending, out, aborted>>
       ELSE Serves(client, kind)
    /\ UNCHANGED <<isLocal, ep, listening>>

(* The slot goes on.  Without an address for the name nothing is sent.     *)
writeDatagram ==
    /\ ~aborted /\ sending # Nothing
    /\ sending' = Nothing /\ out' \in {out, sending}
    /\ UNCHANGED <<isLocal, ep, listening, sockets, encryptor, banned, aborted>>

(* A server encrypts the answer before it looks up the client it is for; a *)
(* client may find no header in it.                                        *)
onClientUdpSocketReadyRead(s) ==
    /\ MainLoop /\ s \in Alive
    /\ \/ isLocal /\ decryptAll(TRUE) /\ UNCHANGED out
       \/ /\ IF isLocal THEN decryptAll(FALSE) ELSE encryptAll
          /\ \/ (isLocal \/ aborted' \/ s \notin Cached) /\ UNCHANGED out
             \/ /\ ~aborted'
                /\ \E c \in Clients :
                      /\ cache[c] = s
                      /\ out' = Datagram("down", c, madeFor[s],
                                         IF isLocal THEN NoIV ELSE enCipherIV)
    /\ UNCHANGED <<isLocal, ep, listening, sockets, banned, sending>>

deferredDelete(s) ==
    /\ MainLoop /\ s \in doomed
    /\ doomed' = doomed \ {s} /\ madeFor' = [madeFor EXCEPT ![s] = "freed"]
    /\ UNCHANGED <<isLocal, ep, listening, cache, encryptor, banned, sending, out, aborted>>

(* A TcpRelay's thread bans an address, whatever the main thread is doing. *)
banAddress(client) ==
    /\ ~aborted /\ ~isLocal /\ AutoBan /\ client \notin banned
    /\ banned' = banned \cup {client}
    /\ UNCHANGED <<isLocal, ep, listening, sockets, encryptor, sending, out, aborted>>

Next ==
    \/ listen \/ stop \/ writeDatagram \/ \E method \in Methods : setup(method)
    \/ \E client \in Clients :
          \/ banAddress(client)
          \/ \E kind \in Kinds : onServerUdpSocketReadyRead(client, kind)
    \/ \E s \in Sockets : onClientUdpSocketReadyRead(s) \/ deferredDelete(s)

Spec == Init /\ [][Next]_vars

-----------------------------------------------------------------------------
(* Properties.                                                             *)

(* Types; a deferred delete is pending only for a living socket.           *)
TypeOK ==
    /\ isLocal \in BOOLEAN /\ ivLen \in Methods \cup {0} /\ valid \in BOOLEAN
    /\ listening \in BOOLEAN
    /\ cache \in [Clients -> Sockets \cup {NoSocket}]
    /\ madeFor \in [Sockets -> Clients \cup {"freed"}] /\ doomed \subseteq Alive
    /\ enCipher \in BOOLEAN /\ enCipherIV \in IVs
    /\ deCipher \in {"none", "live", "dangling"}
    /\ banned \subseteq Clients /\ aborted \in BOOLEAN
    /\ sending \in Datagrams \cup {Nothing} /\ out \in Datagrams \cup {Nothing}

(* The cache and the sockets agree: a cached socket is alive, was made for *)
(* that client and is not about to be deleted; any other living socket is. *)
CacheSound ==
    /\ \A c \in Clients :
          cache[c] # NoSocket => cache[c] \in Alive \ doomed /\ madeFor[cache[c]] = c
    /\ Alive \ doomed \subseteq Cached

(* A client's datagrams leave by the socket made for it, and it receives   *)
(* what arrives on that socket only, over any number of close and listen.  *)
OwnSocket == out # Nothing => out.client = out.owner

(* Between close() and listen() nothing is sent, although the sockets that *)
(* wait for their deferred delete go on receiving.                         *)
ClosedIsQuiet == [][~listening => UNCHANGED out]_vars

(* No IV is used for two datagrams, however reset() and encryptAll()       *)
(* alternate: the next datagram gets one drawn after the last one's.       *)
IVUsedOnce == out # Nothing /\ out.iv # NoIV => out.iv.id < NextIV

(* Seen from outside, the relay is a translator with a session for every   *)
(* client that has sent something since it was opened: cache, sockets that *)
(* wait for their delete and ciphers kept or reset make no difference.  A  *)
(* ban made while a datagram is under way comes too late for that one      *)
(* datagram, and for no other.                                             *)
KeepsSessions == Outside!Spec

(* "keyIvMap contains required key length and IV length" (cipher.h:38):    *)
(* what is sent encrypted carries an IV of the method's length.            *)
IVFits == out # Nothing /\ out.iv # NoIV => out.iv.len = out.ivLen
=============================================================================
