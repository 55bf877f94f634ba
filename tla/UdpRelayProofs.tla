--------------------------- MODULE UdpRelayProofs ---------------------------
(***************************************************************************)
(* Proofs about UdpRelay for any number of clients, sockets, methods and   *)
(* IVs: the agreement of the cache with the sockets, and what follows from *)
(* it for who receives what; the use of IVs; bans; silence while closed.   *)
(***************************************************************************)
EXTENDS UdpRelay, TLAPS

(* The inductive invariant: the properties, and that a relay that listens  *)
(* or has a socket was given a method, one that does not listen has        *)
(* forgotten its sockets, and a datagram under way is of a relay that      *)
(* listens and bears the IV drawn last but one.                            *)
SocketsOK ==
    /\ cache \in [Clients -> Sockets \cup {NoSocket}]
    /\ madeFor \in [Sockets -> Clients \cup {"freed"}] /\ doomed \subseteq Alive
    /\ CacheSound

EncryptorOK ==
    enCipher \in BOOLEAN /\ enCipherIV \in IVs /\ deCipher \in {"none", "live", "dangling"}

OutOK == out \in Datagrams \cup {Nothing} /\ OwnSocket /\ IVUsedOnce

SendingOK ==
    sending # Nothing =>
        /\ sending \in Datagrams /\ listening
        /\ sending.way = "up" /\ sending.owner = sending.client
        /\ IF isLocal THEN sending.iv \in IVs /\ sending.iv.id + 1 = enCipherIV.id
           ELSE sending.iv = NoIV

BansAsked == banned \subseteq Clients /\ (banned # {} => ~isLocal /\ AutoBan)

RestOK ==
    /\ isLocal \in BOOLEAN /\ ivLen \in Methods \cup {0} /\ valid \in BOOLEAN
    /\ listening \in BOOLEAN /\ aborted \in BOOLEAN /\ BansAsked

ListenOK ==
    /\ valid \/ listening \/ Alive # {} => ivLen # 0
    /\ ~listening => \A c \in Clients : cache[c] = NoSocket

IInv == SocketsOK /\ EncryptorOK /\ SendingOK /\ OutOK /\ RestOK /\ ListenOK

-----------------------------------------------------------------------------
(* What the parts of an action do to the parts of the invariant.           *)

(* Each IV drawn is later than the one before.                             *)
LEMMA DrawIVNext ==
    ASSUME UdpAssumption, EncryptorOK, NEW length \in Methods \cup {0}, DrawIV(length)
    PROVE  enCipherIV' \in IVs /\ enCipherIV.id < enCipherIV'.id
  <1>1. enCipherIV.id \in 1 .. MaxIVs /\ MaxIVs \in Nat
    BY DEF EncryptorOK, IVs, UdpAssumption
  <1>2. enCipherIV.id + 1 \in 1 .. MaxIVs
    BY <1>1 DEF DrawIV
  <1> QED BY <1>1, <1>2 DEF DrawIV, IVs

(* reset() keeps the encryptor's type and never goes back to an old IV.    *)
LEMMA ResetKeeps ==
    ASSUME UdpAssumption, EncryptorOK, NEW length \in Methods \cup {0}, reset(length)
    PROVE  EncryptorOK' /\ aborted' \in BOOLEAN /\ enCipherIV.id <= enCipherIV'.id
  <1>1. enCipher' \in BOOLEAN /\ aborted' \in BOOLEAN /\ deCipher' = "none"
    BY DEF reset, Crash
  <1>2. enCipherIV' \in IVs /\ (enCipherIV' = enCipherIV \/ enCipherIV.id < enCipherIV'.id)
    <2>1. DrawIV(length) \/ enCipherIV' = enCipherIV
      BY DEF reset
    <2> QED BY <2>1, DrawIVNext DEF EncryptorOK
  <1>3. enCipherIV.id \in Nat /\ enCipherIV'.id \in Nat
    BY <1>2 DEF EncryptorOK, IVs, UdpAssumption
  <1>4. enCipherIV.id <= enCipherIV'.id
    BY <1>2, <1>3
  <1> QED BY <1>1, <1>2, <1>4 DEF EncryptorOK

LEMMA FatalBoolean == ASSUME NEW length PROVE Fatal(length) \subseteq BOOLEAN
  <1>1. CASE ~valid
    BY <1>1 DEF Fatal
  <1>2. CASE valid /\ length = ivLen
    BY <1>2 DEF Fatal
  <1>3. CASE valid /\ length # ivLen
    BY <1>3 DEF Fatal
  <1> QED BY <1>1, <1>2, <1>3

(* decryptAll() draws no IV.                                               *)
LEMMA DecryptAllKeeps ==
    ASSUME UdpAssumption, EncryptorOK, NEW short \in BOOLEAN, decryptAll(short)
    PROVE  EncryptorOK' /\ aborted' \in BOOLEAN /\ enCipherIV.id <= enCipherIV'.id
  <1>1. PICK crash \in Crash, refused \in (IF short THEN {FALSE} ELSE Fatal(ivLen)) :
            aborted' = (crash \/ refused)
    BY DEF decryptAll
  <1>2. crash \in BOOLEAN /\ refused \in BOOLEAN
    BY FatalBoolean DEF Crash
  <1>3. aborted' \in BOOLEAN
    BY <1>1, <1>2
  <1>4. EncryptorOK'
    BY DEF decryptAll, EncryptorOK
  <1>5. enCipherIV' = enCipherIV /\ enCipherIV.id \in Nat
    BY DEF decryptAll, EncryptorOK, IVs, UdpAssumption
  <1> QED BY <1>3, <1>4, <1>5

(* encryptAll() leaves the IV it used behind.                              *)
LEMMA EncryptAllKeeps ==
    ASSUME UdpAssumption, EncryptorOK, ivLen \in Methods \cup {0}, encryptAll
    PROVE  /\ EncryptorOK' /\ aborted' \in BOOLEAN
           /\ enCipherIV.id < enCipherIV'.id /\ enCipherIV'.id = enCipherIV.id + 1
  <1>1. /\ enCipherIV' \in IVs /\ enCipherIV.id < enCipherIV'.id
        /\ enCipherIV'.id = enCipherIV.id + 1
    BY DrawIVNext DEF encryptAll, DrawIV
  <1>2. aborted' \in BOOLEAN /\ enCipher' = TRUE /\ deCipher' = deCipher
    BY FatalBoolean DEF encryptAll
  <1> QED BY <1>1, <1>2 DEF EncryptorOK

(* The number of the next IV: the last one drawn, or, while a datagram is  *)
(* under way that bears one, the one before.                               *)
LEMMA NextIVIs ==
    ASSUME UdpAssumption, EncryptorOK, SendingOK, isLocal \in BOOLEAN
    PROVE  /\ NextIV \in Nat /\ enCipherIV.id \in Nat
           /\ IF sending # Nothing /\ isLocal
              THEN NextIV = sending.iv.id /\ NextIV + 1 = enCipherIV.id
              ELSE NextIV = enCipherIV.id
  <1>1. enCipherIV.id \in Nat
    BY DEF EncryptorOK, IVs, UdpAssumption
  <1>2. \A iv \in IVs : iv.id \in Nat /\ iv # NoIV
    BY DEF IVs, NoIV, UdpAssumption
  <1> QED BY <1>1, <1>2 DEF NextIV, SendingOK

(* While nothing is sent, a later IV does not hurt.                        *)
LEMMA OutStays ==
    ASSUME UdpAssumption, OutOK, NextIV \in Nat, NextIV' \in Nat, UNCHANGED out,
           NextIV <= NextIV'
    PROVE  OutOK'
  <1>1. IVUsedOnce'
    <2> SUFFICES ASSUME out # Nothing, out.iv # NoIV
                 PROVE  out.iv.id < NextIV'
      BY DEF IVUsedOnce
    <2>1. out.iv.id \in Nat
      <3>1. out.iv \in IVs
        BY DEF OutOK, Datagrams
      <3> QED BY <3>1 DEF IVs, UdpAssumption
    <2> QED BY <2>1 DEF OutOK, IVUsedOnce
  <1> QED BY <1>1 DEF OutOK, OwnSocket

(* The same while nothing is under way, before and after.                  *)
LEMMA OutStaysIdle ==
    ASSUME UdpAssumption, OutOK, EncryptorOK, EncryptorOK', UNCHANGED out,
           isLocal \in BOOLEAN, isLocal' \in BOOLEAN, sending = Nothing, sending' = Nothing,
           enCipherIV.id <= enCipherIV'.id
    PROVE  OutOK' /\ SendingOK'
  <1>1. SendingOK /\ SendingOK'
    BY DEF SendingOK
  <1>2. NextIV \in Nat /\ NextIV = enCipherIV.id
    BY <1>1, NextIVIs
  <1>3. NextIV' \in Nat /\ NextIV' = enCipherIV'.id
    <2>1. NextIV' = enCipherIV'.id
      BY DEF NextIV
    <2> QED BY <2>1 DEF EncryptorOK, IVs, UdpAssumption
  <1> QED BY <1>1, <1>2, <1>3, OutStays

(* What is said of datagrams depends on no socket and no ban.              *)
LEMMA DatagramsStay ==
    ASSUME SendingOK, OutOK, UNCHANGED <<isLocal, listening, encryptor, sending, out>>
    PROVE  SendingOK' /\ OutOK'
  BY DEF SendingOK, OutOK, OwnSocket, IVUsedOnce, NextIV, encryptor

LEMMA DatagramIs ==
    ASSUME NEW way \in {"up", "down"}, NEW client \in Clients,
           NEW iv \in IVs \cup {NoIV}, ivLen \in Methods
    PROVE  LET new == Datagram(way, client, client, iv)
           IN  /\ new \in Datagrams /\ new # Nothing
               /\ new.way = way /\ new.client = client /\ new.owner = client /\ new.iv = iv
  <1> DEFINE new == [way |-> way, client |-> client, owner |-> client, iv |-> iv,
                     ivLen |-> ivLen]
  <1>1. Datagram(way, client, client, iv) = new
    BY DEF Datagram
  <1>2. /\ new.way = way /\ new.client = client /\ new.owner = client /\ new.iv = iv
        /\ new \in Datagrams
    BY DEF Datagrams
  <1> HIDE DEF new
  <1>3. new # Nothing
    BY <1>2 DEF Nothing
  <1> QED BY <1>1, <1>2, <1>3

(* close() dooms every socket and forgets them all.                        *)
LEMMA CloseKeeps ==
    ASSUME UdpAssumption, SocketsOK, NEW length, close(length)
    PROVE  SocketsOK' /\ Alive' = Alive /\ listening' = FALSE
  <1>1. Alive' = Alive
    BY DEF close, Alive
  <1>2. \A c \in Clients : cache[c] # NoSocket => cache[c] \in Alive
    BY DEF SocketsOK, CacheSound
  <1>3. doomed' \subseteq Alive'
    BY <1>1, <1>2 DEF close, SocketsOK, Cached
  <1>4. Alive \subseteq doomed'
    <2>1. NoSocket \notin Alive
      BY DEF UdpAssumption, Alive
    <2> QED BY <2>1 DEF close, SocketsOK, CacheSound
  <1>5. CacheSound'
    BY <1>1, <1>4 DEF close, CacheSound
  <1> QED BY <1>1, <1>3, <1>5 DEF close, SocketsOK

(* The client's socket is the one that was made for it.                    *)
LEMMA SocketOfKeeps ==
    ASSUME UdpAssumption, SocketsOK, NEW client \in Clients, SocketOf(client)
    PROVE  /\ SocketsOK'
           /\ cache'[client] \in Sockets /\ madeFor'[cache'[client]] = client
  <1>1. CASE cache[client] # NoSocket /\ UNCHANGED sockets
    <2>1. SocketsOK'
      BY <1>1 DEF sockets, SocketsOK, CacheSound, Alive, Cached
    <2> QED BY <1>1, <2>1 DEF sockets, SocketsOK, CacheSound, Alive
  <1>2. CASE cache[client] = NoSocket
    <2>1. PICK s \in Sockets \ Alive :
              /\ cache' = [cache EXCEPT ![client] = s]
              /\ madeFor' = [madeFor EXCEPT ![s] = client]
              /\ UNCHANGED doomed
      BY <1>2 DEF SocketOf
    <2>2. Alive' = Alive \cup {s}
      BY <2>1 DEF Alive, SocketsOK, UdpAssumption
    <2>3. s \notin doomed /\ s # NoSocket
      BY <2>1 DEF SocketsOK, UdpAssumption
    <2>4. \A c \in Clients : cache[c] # s
      BY <2>1, <2>3 DEF SocketsOK, CacheSound
    <2>5. Cached' = {cache'[c] : c \in Clients}
      BY DEF Cached
    <2>6. Cached \ {NoSocket} \subseteq Cached' /\ s \in Cached'
      BY <1>2, <2>1, <2>5 DEF Cached, SocketsOK
    <2>7. CacheSound'
      <3>1. ASSUME NEW c \in Clients, cache'[c] # NoSocket
            PROVE  cache'[c] \in Alive' \ doomed' /\ madeFor'[cache'[c]] = c
        <4>1. CASE c = client
          BY <4>1, <2>1, <2>2, <2>3 DEF SocketsOK
        <4>2. CASE c # client
          BY <4>2, <3>1, <2>1, <2>2, <2>4 DEF SocketsOK, CacheSound, Alive
        <4> QED BY <4>1, <4>2
      <3>2. NoSocket \notin Alive
        BY DEF UdpAssumption, Alive
      <3>3. Alive' \ doomed' \subseteq Cached'
        BY <2>1, <2>2, <2>6, <3>2 DEF SocketsOK, CacheSound
      <3> QED BY <3>1, <3>3 DEF CacheSound
    <2> QED BY <2>1, <2>2, <2>7 DEF SocketsOK
  <1> QED BY <1>1, <1>2 DEF SocketOf

-----------------------------------------------------------------------------
(* Each action keeps the invariant.                                        *)

LEMMA listenKeeps ==
    ASSUME UdpAssumption, IInv, listen
    PROVE  IInv'
  <1>1. SocketsOK' /\ EncryptorOK'
    BY DEF IInv, listen, sockets, encryptor, SocketsOK, CacheSound, Alive, Cached,
           EncryptorOK
  <1>2. SendingOK' /\ OutOK'
    BY DEF IInv, listen, MainLoop, encryptor, SendingOK, OutOK, OwnSocket, IVUsedOnce,
           NextIV
  <1>3. RestOK' /\ ListenOK'
    BY DEF IInv, listen, RestOK, BansAsked, ListenOK, ep
  <1> QED BY <1>1, <1>2, <1>3 DEF IInv

LEMMA stopKeeps ==
    ASSUME UdpAssumption, IInv, stop
    PROVE  IInv'
  <1>0. ivLen \in Methods \cup {0} /\ close(ivLen)
    BY DEF IInv, RestOK, stop
  <1>1. SocketsOK' /\ Alive' = Alive /\ listening' = FALSE
    BY <1>0, CloseKeeps DEF IInv
  <1>2. EncryptorOK' /\ aborted' \in BOOLEAN /\ enCipherIV.id <= enCipherIV'.id
    BY <1>0, ResetKeeps DEF IInv, close
  <1>3. OutOK' /\ SendingOK'
    BY <1>2, OutStaysIdle DEF IInv, RestOK, stop, MainLoop
  <1>4. RestOK'
    BY <1>1, <1>2 DEF IInv, RestOK, BansAsked, ep, stop
  <1>5. ListenOK'
    BY <1>0, <1>1 DEF IInv, ListenOK, UdpAssumption, close, ep, stop
  <1> QED BY <1>1, <1>2, <1>3, <1>4, <1>5 DEF IInv

(* setup() never closes: isListening() is always false.                    *)
LEMMA setupKeeps ==
    ASSUME UdpAssumption, IInv, NEW method \in Methods, setup(method)
    PROVE  IInv'
  <1>1. UNCHANGED <<listening, sockets, encryptor, aborted>>
    BY DEF setup, isListening
  <1>2. SocketsOK' /\ EncryptorOK'
    BY <1>1 DEF IInv, sockets, encryptor, SocketsOK, CacheSound, Alive, Cached, EncryptorOK
  <1>3. SendingOK' /\ OutOK'
    BY <1>1, DatagramsStay DEF IInv, setup
  <1>4. RestOK' /\ ListenOK'
    BY <1>1 DEF IInv, setup, RestOK, BansAsked, ListenOK, UdpAssumption, sockets, Alive
  <1> QED BY <1>2, <1>3, <1>4 DEF IInv

(* A datagram on its way is to go out by its client's socket, under an IV  *)
(* that no other has.                                                      *)
LEMMA ForwardKeeps ==
    ASSUME UdpAssumption, IInv, MainLoop, listening, NEW client \in Clients,
           Forward(client), UNCHANGED <<isLocal, ep, listening>>
    PROVE  IInv'
  <1>1. SocketsOK' /\ madeFor'[cache'[client]] = client
    BY SocketOfKeeps DEF IInv, Forward
  <1>2. /\ EncryptorOK' /\ aborted' \in BOOLEAN
        /\ enCipherIV'.id = IF isLocal THEN enCipherIV.id + 1 ELSE enCipherIV.id
    <2>1. CASE isLocal
      BY <2>1, EncryptAllKeeps DEF IInv, RestOK, Forward
    <2>2. CASE ~isLocal
      BY <2>2, DecryptAllKeeps DEF IInv, Forward, decryptAll
    <2> QED BY <2>1, <2>2
  <1>3. ivLen \in Methods /\ isLocal \in BOOLEAN /\ sending = Nothing
    BY DEF IInv, RestOK, ListenOK, MainLoop
  <1>4. NextIV = enCipherIV.id /\ NextIV \in Nat
    BY <1>3, NextIVIs DEF IInv
  <1>5. SendingOK'
    <2>1. CASE sending' = Nothing
      BY <2>1 DEF SendingOK
    <2>2. CASE sending' # Nothing
      <3> DEFINE iv == IF isLocal THEN enCipherIV ELSE NoIV
      <3>1. sending' = Datagram("up", client, client, iv)
        BY <1>1, <2>2 DEF Forward
      <3>2. iv \in IVs \cup {NoIV} /\ (isLocal => iv \in IVs)
        BY DEF IInv, EncryptorOK
      <3>3. /\ sending' \in Datagrams /\ sending'.way = "up" /\ sending'.iv = iv
            /\ sending'.owner = sending'.client
        <4> HIDE DEF iv
        <4> QED BY <1>3, <3>1, <3>2, DatagramIs
      <3> QED BY <1>2, <3>2, <3>3 DEF SendingOK
    <2> QED BY <2>1, <2>2
  <1>6. OutOK'
    <2>1. NextIV' \in Nat /\ NextIV <= NextIV'
      <3>1. /\ NextIV' \in Nat /\ enCipherIV'.id \in Nat
            /\ IF sending' # Nothing /\ isLocal'
               THEN NextIV' = sending'.iv.id /\ NextIV' + 1 = enCipherIV'.id
               ELSE NextIV' = enCipherIV'.id
        <4>1. enCipherIV'.id \in Nat /\ \A iv \in IVs : iv.id \in Nat /\ iv # NoIV
          BY <1>2 DEF EncryptorOK, IVs, NoIV, UdpAssumption
        <4> QED BY <1>3, <1>5, <4>1 DEF NextIV, SendingOK
      <3> QED BY <1>2, <1>3, <1>4, <3>1
    <2> QED BY <1>4, <2>1, OutStays DEF IInv, Forward
  <1>7. RestOK'
    BY <1>2 DEF IInv, RestOK, BansAsked, Forward, ep
  <1>8. ListenOK'
    BY DEF IInv, ListenOK, ep
  <1> QED BY <1>1, <1>2, <1>5, <1>6, <1>7, <1>8 DEF IInv

(* What was under way leaves as it is, or nothing leaves.                  *)
LEMMA writeDatagramKeeps ==
    ASSUME UdpAssumption, IInv, writeDatagram
    PROVE  IInv'
  <1>1. SocketsOK' /\ EncryptorOK' /\ RestOK' /\ ListenOK'
    BY DEF IInv, writeDatagram, sockets, encryptor, SocketsOK, CacheSound, Alive, Cached,
           EncryptorOK, RestOK, BansAsked, ListenOK, ep
  <1>2. SendingOK'
    BY DEF writeDatagram, SendingOK
  <1>3. /\ NextIV \in Nat /\ enCipherIV.id \in Nat
        /\ IF isLocal THEN NextIV = sending.iv.id /\ NextIV + 1 = enCipherIV.id
           ELSE NextIV = enCipherIV.id
    BY NextIVIs DEF IInv, RestOK, writeDatagram
  <1>4. NextIV' = enCipherIV.id
    BY DEF NextIV, writeDatagram, encryptor
  <1>5. OutOK'
    <2>1. CASE UNCHANGED out
      BY <1>3, <1>4, <2>1, OutStays DEF IInv
    <2>2. CASE out' = sending
      <3>1. sending \in Datagrams /\ sending.client = sending.owner
        BY DEF IInv, SendingOK, writeDatagram
      <3>2. sending.iv # NoIV => sending.iv.id < enCipherIV.id
        BY <1>3 DEF IInv, SendingOK, writeDatagram
      <3> QED BY <1>4, <2>2, <3>1, <3>2 DEF OutOK, OwnSocket, IVUsedOnce
    <2> QED BY <2>1, <2>2 DEF writeDatagram
  <1> QED BY <1>1, <1>2, <1>5 DEF IInv

(* Nothing but the ban list changes.                                       *)
LEMMA BanKeeps ==
    ASSUME UdpAssumption, IInv, BansAsked',
           UNCHANGED <<isLocal, ep, listening, sockets, encryptor, sending, out, aborted>>
    PROVE  IInv'
  <1>1. SocketsOK' /\ EncryptorOK'
    BY DEF IInv, sockets, encryptor, SocketsOK, CacheSound, Alive, Cached, EncryptorOK
  <1>2. SendingOK' /\ OutOK'
    BY DatagramsStay DEF IInv
  <1>3. RestOK'
    BY DEF IInv, RestOK, ep
  <1>4. ListenOK'
    BY DEF IInv, ListenOK, sockets, Alive, ep
  <1> QED BY <1>1, <1>2, <1>3, <1>4 DEF IInv

LEMMA RejectKeeps ==
    ASSUME UdpAssumption, IInv, MainLoop, NEW client \in Clients, Reject(client),
           UNCHANGED <<isLocal, ep, listening>>
    PROVE  IInv'
  <1>1. BansAsked'
    BY DEF Reject, IInv, RestOK, BansAsked
  <1>2. CASE isLocal
    BY <1>1, <1>2, BanKeeps DEF Reject
  <1>3. CASE ~isLocal
    <2>1. PICK short \in BOOLEAN : decryptAll(short)
      BY <1>3 DEF Reject
    <2>2. EncryptorOK' /\ aborted' \in BOOLEAN /\ enCipherIV.id <= enCipherIV'.id
      BY <2>1, DecryptAllKeeps DEF IInv
    <2>3. SocketsOK' /\ ListenOK'
      BY DEF IInv, Reject, sockets, SocketsOK, CacheSound, Alive, Cached, ListenOK, ep
    <2>4. OutOK' /\ SendingOK'
      BY <2>2, OutStaysIdle DEF IInv, RestOK, Reject, MainLoop
    <2>5. RestOK'
      BY <1>1, <2>2 DEF IInv, RestOK, ep
    <2> QED BY <2>2, <2>3, <2>4, <2>5 DEF IInv
  <1> QED BY <1>2, <1>3

LEMMA onServerUdpSocketReadyReadKeeps ==
    ASSUME UdpAssumption, IInv, NEW client \in Clients, NEW kind \in Kinds,
           onServerUdpSocketReadyRead(client, kind)
    PROVE  IInv'
  <1>1. CASE Forward(client)
    BY <1>1, ForwardKeeps DEF onServerUdpSocketReadyRead
  <1>2. CASE Reject(client)
    BY <1>2, RejectKeeps DEF onServerUdpSocketReadyRead
  <1>3. CASE UNCHANGED <<sockets, encryptor, banned, sending, out, aborted>>
    <2>1. BansAsked'
      BY <1>3 DEF IInv, RestOK, BansAsked, onServerUdpSocketReadyRead
    <2> QED BY <1>3, <2>1, BanKeeps DEF onServerUdpSocketReadyRead
  <1> QED BY <1>1, <1>2, <1>3 DEF onServerUdpSocketReadyRead, Serves

(* An answer goes to the client its socket was made for.                   *)
LEMMA onClientUdpSocketReadyReadKeeps ==
    ASSUME UdpAssumption, IInv, NEW s \in Sockets, onClientUdpSocketReadyRead(s)
    PROVE  IInv'
  <1>0. ivLen \in Methods
    BY DEF IInv, RestOK, ListenOK, onClientUdpSocketReadyRead
  <1>1. /\ EncryptorOK' /\ aborted' \in BOOLEAN
        /\ enCipherIV.id <= enCipherIV'.id
        /\ ~isLocal => enCipherIV.id < enCipherIV'.id
    <2>1. CASE ~isLocal
      <3>1. EncryptorOK' /\ aborted' \in BOOLEAN /\ enCipherIV.id < enCipherIV'.id
        BY <1>0, <2>1, EncryptAllKeeps DEF IInv, onClientUdpSocketReadyRead
      <3>2. enCipherIV.id \in Nat /\ enCipherIV'.id \in Nat
        BY <3>1 DEF IInv, EncryptorOK, IVs, UdpAssumption
      <3> QED BY <3>1, <3>2
    <2>2. CASE isLocal
      BY <2>2, DecryptAllKeeps DEF IInv, onClientUdpSocketReadyRead
    <2> QED BY <2>1, <2>2
  <1>2. OutOK' /\ SendingOK'
    <2>0. SendingOK' /\ isLocal' \in BOOLEAN /\ sending = Nothing /\ sending' = Nothing
      BY DEF IInv, RestOK, SendingOK, onClientUdpSocketReadyRead, MainLoop
    <2>1. CASE UNCHANGED out
      BY <2>0, <2>1, <1>1, OutStaysIdle DEF IInv, RestOK
    <2>2. ASSUME NEW c \in Clients, cache[c] = s,
                 out' = Datagram("down", c, madeFor[s],
                                 IF isLocal THEN NoIV ELSE enCipherIV)
          PROVE  OutOK'
      <3> DEFINE iv == IF isLocal THEN NoIV ELSE enCipherIV
      <3>1. madeFor[s] = c
        BY <2>2 DEF IInv, SocketsOK, CacheSound, UdpAssumption
      <3>2. out' = Datagram("down", c, c, iv)
        BY <2>2, <3>1
      <3>3. iv \in IVs \cup {NoIV} /\ (iv # NoIV => iv.id < enCipherIV'.id)
        BY <1>1 DEF IInv, EncryptorOK
      <3> HIDE DEF iv
      <3>4. out' \in Datagrams /\ out'.client = out'.owner /\ out'.iv = iv
        BY <1>0, <3>2, <3>3, DatagramIs
      <3>5. NextIV' = enCipherIV'.id
        BY <2>0 DEF NextIV
      <3> QED BY <3>3, <3>4, <3>5 DEF OutOK, OwnSocket, IVUsedOnce
    <2> QED BY <2>0, <2>1, <2>2 DEF onClientUdpSocketReadyRead
  <1>3. SocketsOK' /\ ListenOK'
    BY DEF IInv, onClientUdpSocketReadyRead, sockets, SocketsOK, CacheSound, Alive,
           Cached, ListenOK, ep
  <1>4. RestOK'
    BY <1>1 DEF IInv, RestOK, BansAsked, onClientUdpSocketReadyRead, ep
  <1> QED BY <1>1, <1>2, <1>3, <1>4 DEF IInv

LEMMA deferredDeleteKeeps ==
    ASSUME UdpAssumption, IInv, NEW s \in Sockets, deferredDelete(s)
    PROVE  IInv'
  <1>1. Alive' = Alive \ {s}
    BY DEF deferredDelete, Alive, IInv, SocketsOK
  <1>2. SocketsOK'
    <2>1. ASSUME NEW c \in Clients, cache'[c] # NoSocket
          PROVE  cache'[c] \in Alive' \ doomed' /\ madeFor'[cache'[c]] = c
      <3>1. cache[c] \in Alive \ doomed /\ madeFor[cache[c]] = c
        BY <2>1 DEF deferredDelete, IInv, SocketsOK, CacheSound
      <3>2. cache[c] # s
        BY <3>1 DEF deferredDelete
      <3> QED BY <3>1, <3>2, <1>1 DEF deferredDelete, IInv, SocketsOK, Alive
    <2>2. Alive' \ doomed' \subseteq Cached'
      BY <1>1 DEF deferredDelete, IInv, SocketsOK, CacheSound, Cached
    <2>3. doomed' \subseteq Alive'
      BY <1>1 DEF deferredDelete, IInv, SocketsOK
    <2>4. CacheSound'
      BY <2>1, <2>2 DEF CacheSound
    <2> QED BY <2>3, <2>4 DEF deferredDelete, IInv, SocketsOK
  <1>3. EncryptorOK'
    BY DEF deferredDelete, encryptor, IInv, EncryptorOK
  <1>4. OutOK' /\ SendingOK'
    BY DatagramsStay DEF deferredDelete, IInv
  <1>5. RestOK' /\ ListenOK'
    BY <1>1 DEF deferredDelete, IInv, RestOK, BansAsked, ListenOK, ep
  <1> QED BY <1>2, <1>3, <1>4, <1>5 DEF IInv

LEMMA banAddressKeeps ==
    ASSUME UdpAssumption, IInv, NEW client \in Clients, banAddress(client)
    PROVE  IInv'
  <1>1. BansAsked'
    BY DEF banAddress, IInv, RestOK, BansAsked
  <1> QED BY <1>1, BanKeeps DEF banAddress

-----------------------------------------------------------------------------
(* The invariant holds in every reachable state of the UDP relay.          *)
LEMMA Invariance == UdpAssumption => (Spec => []IInv)
  <1> SUFFICES ASSUME UdpAssumption PROVE Spec => []IInv
    OBVIOUS
  <1>1. ASSUME Init PROVE IInv
    <2>1. Alive = {}
      BY <1>1 DEF Init, Alive
    <2>2. SocketsOK
      BY <1>1, <2>1 DEF Init, SocketsOK, CacheSound
    <2>3. EncryptorOK
      <3>1. enCipher \in BOOLEAN /\ deCipher \in {"none", "live", "dangling"}
        BY <1>1 DEF Init
      <3>2. enCipherIV \in IVs
        BY <1>1 DEF Init, IVs, UdpAssumption
      <3> QED BY <3>1, <3>2 DEF EncryptorOK
    <2>4. OutOK /\ SendingOK
      BY <1>1 DEF Init, OutOK, OwnSocket, IVUsedOnce, SendingOK
    <2>5. RestOK /\ ListenOK
      BY <1>1, <2>1 DEF Init, RestOK, BansAsked, ListenOK
    <2> QED BY <2>2, <2>3, <2>4, <2>5 DEF IInv
  <1>2. ASSUME IInv, [Next]_vars PROVE IInv'
    <2>1. CASE UNCHANGED vars
      <3>1. BansAsked'
        BY <1>2, <2>1 DEF vars, IInv, RestOK, BansAsked
      <3> QED BY <1>2, <2>1, <3>1, BanKeeps DEF vars
    <2>2. CASE Next
      BY <1>2, <2>2, listenKeeps, stopKeeps, setupKeeps, banAddressKeeps,
         onServerUdpSocketReadyReadKeeps, onClientUdpSocketReadyReadKeeps,
         writeDatagramKeeps, deferredDeleteKeeps DEF Next
    <2> QED BY <1>2, <2>1, <2>2
  <1> QED BY <1>1, <1>2, PTL DEF Spec

(* Every variable has its type, and only living sockets wait for a delete. *)
THEOREM UdpTypeCorrect == UdpAssumption => (Spec => []TypeOK)
  <1>1. IInv => TypeOK
    BY DEF IInv, SocketsOK, EncryptorOK, SendingOK, OutOK, RestOK, BansAsked, TypeOK
  <1> QED BY <1>1, Invariance, PTL

(* The cache and the sockets agree, over any number of close and listen.   *)
THEOREM CacheIsSound == UdpAssumption => (Spec => []CacheSound)
  <1>1. IInv => CacheSound
    BY DEF IInv, SocketsOK
  <1> QED BY <1>1, Invariance, PTL

(* No client's datagram leaves by another's socket, and no answer reaches  *)
(* another client.                                                         *)
THEOREM EachItsOwnSocket == UdpAssumption => (Spec => []OwnSocket)
  <1>1. IInv => OwnSocket
    BY DEF IInv, OutOK
  <1> QED BY <1>1, Invariance, PTL

(* No IV is used for two datagrams.                                        *)
THEOREM NoIVTwice == UdpAssumption => (Spec => []IVUsedOnce)
  <1>1. IInv => IVUsedOnce
    BY DEF IInv, OutOK
  <1> QED BY <1>1, Invariance, PTL

(* While the relay is closed no datagram leaves it: its sockets go on      *)
(* receiving until they are deleted, but nobody is found in the cache.     *)
THEOREM ClosedRelayIsQuiet == UdpAssumption => (Spec => ClosedIsQuiet)
  <1> SUFFICES ASSUME UdpAssumption PROVE Spec => ClosedIsQuiet
    OBVIOUS
  <1>1. ASSUME IInv, Next, ~listening PROVE UNCHANGED out
    <2>1. CASE \E s \in Sockets : onClientUdpSocketReadyRead(s)
      <3>1. PICK s \in Sockets : onClientUdpSocketReadyRead(s)
        BY <2>1
      <3>2. \A c \in Clients : cache[c] # s
        BY <1>1 DEF IInv, ListenOK, UdpAssumption
      <3> QED BY <3>1, <3>2 DEF onClientUdpSocketReadyRead
    <2>2. CASE writeDatagram
      BY <1>1, <2>2 DEF writeDatagram, IInv, SendingOK
    <2>6. ASSUME NEW client \in Clients, NEW kind \in Kinds,
                 onServerUdpSocketReadyRead(client, kind)
          PROVE  FALSE
      BY <1>1, <2>6 DEF onServerUdpSocketReadyRead
    <2>3. CASE listen \/ stop \/ \E method \in Methods : setup(method)
      BY <2>3 DEF listen, stop, setup
    <2>4. CASE \E s \in Sockets : deferredDelete(s)
      BY <2>4 DEF deferredDelete
    <2>5. CASE \E client \in Clients : banAddress(client)
      BY <2>5 DEF banAddress
    <2> QED BY <1>1, <2>1, <2>2, <2>3, <2>4, <2>5, <2>6 DEF Next
  <1>2. ASSUME IInv, [Next]_vars PROVE [~listening => UNCHANGED out]_vars
    BY <1>1, <1>2 DEF vars
  <1> QED BY <1>2, Invariance, PTL DEF Spec, ClosedIsQuiet

(* A ban, whenever it is made, is for good, and comes too late for the one *)
(* datagram that is under way: no other of the client's goes up.           *)
BanSparesOne ==
    [][\A client \in banned :
          /\ client \in banned'
          /\ out' # out /\ out'.way = "up" /\ out'.client = client
                => sending # Nothing /\ sending.client = client /\ sending' = Nothing
          /\ sending' # Nothing /\ sending'.client = client => sending' = sending]_vars

(* The same over blockingLookUp(), which leaves a TCP relay's thread the   *)
(* time to ban between the check of the ban list and writeDatagram().      *)
THEOREM BansSpareOne == UdpAssumption => (Spec => BanSparesOne)
  <1> SUFFICES ASSUME UdpAssumption PROVE Spec => BanSparesOne
    OBVIOUS
  <1> DEFINE Spares ==
          \A client \in banned :
              /\ client \in banned'
              /\ out' # out /\ out'.way = "up" /\ out'.client = client
                    => sending # Nothing /\ sending.client = client /\ sending' = Nothing
              /\ sending' # Nothing /\ sending'.client = client => sending' = sending
  <1>1. ASSUME UNCHANGED <<sending, out>>, banned \subseteq banned' PROVE Spares
    BY <1>1
  <1>2. ASSUME IInv, NEW client \in Clients, NEW kind \in Kinds,
               onServerUdpSocketReadyRead(client, kind)
        PROVE  Spares
    <2>1. CASE Forward(client) /\ ~(~isLocal /\ AutoBan /\ client \in banned)
      <3>1. client \notin banned
        BY <1>2, <2>1 DEF IInv, RestOK, BansAsked
      <3>2. sending' # Nothing => sending'.client = client
        BY <2>1 DEF Forward, Datagram
      <3> QED BY <2>1, <3>1, <3>2 DEF Forward
    <2>2. CASE Reject(client)
      BY <1>1, <2>2 DEF Reject
    <2>3. CASE UNCHANGED <<sockets, encryptor, banned, sending, out, aborted>>
      BY <1>1, <2>3
    <2> QED BY <1>2, <2>1, <2>2, <2>3 DEF onServerUdpSocketReadyRead, Serves
  <1>3. ASSUME NEW s \in Sockets, onClientUdpSocketReadyRead(s) PROVE Spares
    <2>1. ASSUME out' # out PROVE out'.way = "down"
      <3>1. PICK c \in Clients :
                out' = Datagram("down", c, madeFor[s], IF isLocal THEN NoIV ELSE enCipherIV)
        BY <1>3, <2>1 DEF onClientUdpSocketReadyRead
      <3> QED BY <3>1 DEF Datagram
    <2> QED BY <1>3, <2>1 DEF onClientUdpSocketReadyRead
  <1>4. ASSUME writeDatagram PROVE Spares
    BY <1>4 DEF writeDatagram
  <1>5. ASSUME \/ listen \/ stop \/ (\E method \in Methods : setup(method))
               \/ (\E s \in Sockets : deferredDelete(s))
               \/ (\E client \in Clients : banAddress(client))
        PROVE  Spares
    <2>1. UNCHANGED <<sending, out>> /\ banned \subseteq banned'
      BY <1>5 DEF listen, stop, setup, deferredDelete, banAddress
    <2> QED BY <1>1, <2>1
  <1>6. ASSUME IInv, [Next]_vars PROVE [Spares]_vars
    <2> HIDE DEF Spares
    <2> QED BY <1>2, <1>3, <1>4, <1>5, <1>6 DEF Next
  <1> QED BY <1>6, Invariance, PTL DEF Spec, BanSparesOne

(* Where IVFits ends (see the run udp_iv): once an IV of the right length  *)
(* is at hand, or one datagram has been encrypted, the next IV is right,   *)
(* until setup() changes the method.                                       *)
FitsFromThen ==
    [][UNCHANGED ivLen /\ (enCipherIV.len = ivLen \/ (enCipher' /\ ~UNCHANGED enCipherIV))
          => enCipherIV'.len = ivLen]_vars

(* An IV is drawn for the method in force: the next one misfits only before *)
(* the first is drawn under a method, and after a setup() that changed it.  *)
THEOREM OnlyFirstIVMisfits == Spec => FitsFromThen
  <1> DEFINE Fits ==
          UNCHANGED ivLen /\ (enCipherIV.len = ivLen \/ (enCipher' /\ ~UNCHANGED enCipherIV))
             => enCipherIV'.len = ivLen
  <1>1. ASSUME UNCHANGED enCipherIV \/ DrawIV(ivLen) PROVE Fits
    BY <1>1 DEF DrawIV
  <1>2. ASSUME listen \/ stop PROVE Fits
    BY <1>1, <1>2 DEF listen, stop, ep, close, reset, encryptor
  <1>9. ASSUME writeDatagram PROVE Fits
    BY <1>1, <1>9 DEF writeDatagram, encryptor
  <1>3. ASSUME NEW method \in Methods, setup(method) PROVE Fits
    BY <1>1, <1>3 DEF setup, isListening, encryptor
  <1>4. ASSUME NEW client \in Clients, NEW kind \in Kinds,
               onServerUdpSocketReadyRead(client, kind)
        PROVE  Fits
    <2>1. CASE Forward(client)
      BY <1>1, <2>1 DEF Forward, encryptAll, decryptAll
    <2>2. CASE Reject(client)
      BY <1>1, <2>2 DEF Reject, encryptor, decryptAll
    <2>3. CASE UNCHANGED <<sockets, encryptor, banned, sending, out, aborted>>
      BY <1>1, <2>3 DEF encryptor
    <2> QED BY <1>4, <2>1, <2>2, <2>3 DEF onServerUdpSocketReadyRead, Serves
  <1>5. ASSUME NEW s \in Sockets, onClientUdpSocketReadyRead(s) PROVE Fits
    BY <1>1, <1>5 DEF onClientUdpSocketReadyRead, encryptAll, decryptAll
  <1>6. ASSUME NEW s \in Sockets, deferredDelete(s) PROVE Fits
    BY <1>1, <1>6 DEF deferredDelete, encryptor
  <1>7. ASSUME NEW client \in Clients, banAddress(client) PROVE Fits
    BY <1>1, <1>7 DEF banAddress, encryptor
  <1>8. [Next]_vars => [Fits]_vars
    BY <1>2, <1>3, <1>4, <1>5, <1>6, <1>7, <1>9 DEF Next
  <1> QED BY <1>8, PTL DEF Spec, FitsFromThen

-----------------------------------------------------------------------------
(* What a translator of datagrams with sessions sees of a step.            *)

HaveSession == {c \in Clients : cache[c] # NoSocket}
LastSent    == IF out = Nothing THEN Nothing
               ELSE [way |-> out.way, client |-> out.client, iv |-> out.iv.id]

(* An IV that is drawn gets the next number.                               *)
LEMMA Numbered ==
    ASSUME NEW length, DrawIV(length) \/ UNCHANGED enCipherIV
    PROVE  /\ enCipherIV'.id \in {enCipherIV.id, enCipherIV.id + 1}
           /\ DrawIV(length) => enCipherIV'.id = enCipherIV.id + 1
  BY DEF DrawIV

UnderWay    == IF sending = Nothing THEN {} ELSE {sending.client}

LEMMA SentIs ==
    ASSUME out' \in Datagrams
    PROVE  LastSent' = [way |-> out'.way, client |-> out'.client, iv |-> out'.iv.id]
  <1>1. out' # Nothing
    <2>1. DOMAIN Nothing = {"way"} /\ "client" \in DOMAIN out'
      BY DEF Nothing, Datagrams
    <2> QED BY <2>1
  <1> QED BY <1>1 DEF LastSent

(* close() ends every session.                                             *)
LEMMA CloseLooks ==
    ASSUME UdpAssumption, IInv, stop
    PROVE  Outside!Close
  <1>1. listening' = FALSE /\ HaveSession' = {} /\ UNCHANGED <<isLocal, banned, out>>
    BY DEF stop, close, HaveSession
  <1>2. sending = Nothing /\ sending' = Nothing
    BY DEF stop, MainLoop
  <1>3. enCipherIV'.id \in {enCipherIV.id, enCipherIV.id + 1}
    <2>1. DrawIV(ivLen) \/ UNCHANGED enCipherIV
      BY DEF stop, close, reset
    <2> QED BY <2>1, Numbered
  <1>4. NextIV' \in {NextIV, NextIV + 1}
    BY <1>2, <1>3 DEF NextIV
  <1> QED BY <1>1, <1>2, <1>4 DEF Outside!Close, Outside!Skip, HaveSession

(* What changes neither sockets nor what was sent is a datagram dropped.   *)
LEMMA DropLooks ==
    ASSUME NEW length, DrawIV(length) \/ UNCHANGED enCipherIV, sending = Nothing,
           UNCHANGED <<isLocal, listening, cache, banned, sending, out>>
    PROVE  Outside!Drop
  <1>1. NextIV' \in {NextIV, NextIV + 1}
    BY Numbered DEF NextIV
  <1> QED BY <1>1 DEF Outside!Drop, Outside!Skip

(* A datagram that is forwarded gives its client a session.                *)
LEMMA ForwardLooks ==
    ASSUME UdpAssumption, IInv, IInv', MainLoop, listening, NEW client \in Clients,
           ~(~isLocal /\ AutoBan /\ client \in banned), Forward(client),
           UNCHANGED <<isLocal, listening>>
    PROVE  Outside!Take(client)
  <1>1. client \notin banned /\ sending = Nothing
    BY DEF IInv, RestOK, BansAsked, MainLoop
  <1>2. HaveSession' = HaveSession \cup {client}
    <2>1. CASE cache[client] # NoSocket /\ UNCHANGED sockets
      BY <2>1 DEF sockets, HaveSession
    <2>2. ASSUME NEW s \in Sockets, cache' = [cache EXCEPT ![client] = s]
          PROVE  HaveSession' = HaveSession \cup {client}
      BY <2>2 DEF HaveSession, UdpAssumption, IInv, SocketsOK
    <2> QED BY <2>1, <2>2 DEF Forward, SocketOf
  <1>3. IF isLocal THEN DrawIV(ivLen) ELSE UNCHANGED enCipherIV
    BY DEF Forward, encryptAll, decryptAll
  <1>4. enCipherIV'.id = IF isLocal THEN enCipherIV.id + 1 ELSE enCipherIV.id
    BY <1>3, Numbered
  <1>5. NextIV = enCipherIV.id
    BY <1>1 DEF NextIV
  <1>6. CASE sending' = Nothing
    <2>1. NextIV' = enCipherIV'.id
      BY <1>6 DEF NextIV
    <2>2. Outside!Skip
      BY <1>4, <1>5, <2>1 DEF Outside!Skip, Forward
    <2> QED BY <1>1, <1>2, <1>6, <2>2 DEF Outside!Take, Forward, HaveSession
  <1>7. CASE sending' # Nothing
    <2>1. IF isLocal THEN sending'.iv \in IVs /\ sending'.iv.id + 1 = enCipherIV'.id
          ELSE sending'.iv = NoIV
      BY <1>7 DEF IInv, SendingOK
    <2>2. sending' = Datagram("up", client, madeFor'[cache'[client]],
                              IF isLocal THEN enCipherIV ELSE NoIV)
      BY <1>7 DEF Forward
    <2>3. sending'.client = client /\ (isLocal => sending'.iv = enCipherIV)
      BY <2>2 DEF Datagram
    <2>4. NextIV' = enCipherIV.id
      <3>1. \A iv \in IVs : iv # NoIV
        BY DEF IVs, NoIV, UdpAssumption
      <3> QED BY <1>4, <1>7, <2>1, <2>3, <3>1 DEF NextIV
    <2>5. UnderWay' = {client}
      BY <1>7, <2>3 DEF UnderWay
    <2> QED BY <1>1, <1>2, <1>5, <2>4, <2>5 DEF Outside!Take, Forward, HaveSession, UnderWay
  <1> QED BY <1>6, <1>7

(* What was under way leaves, for its client and under the next number, or *)
(* is lost.                                                                *)
LEMMA WriteLooks ==
    ASSUME UdpAssumption, IInv, IInv', writeDatagram
    PROVE  Outside!Next
  <1>1. /\ sending # Nothing /\ sending' = Nothing /\ isLocal \in BOOLEAN
        /\ sending \in Datagrams /\ sending.way = "up" /\ sending.client \in Clients
        /\ IF isLocal THEN sending.iv \in IVs ELSE sending.iv = NoIV
    BY DEF writeDatagram, IInv, SendingOK, RestOK, Datagrams
  <1>2. /\ NextIV \in Nat
        /\ IF isLocal THEN NextIV = sending.iv.id /\ NextIV + 1 = enCipherIV.id
           ELSE NextIV = enCipherIV.id
    BY <1>1, NextIVIs DEF IInv
  <1>3. NextIV' = IF isLocal THEN NextIV + 1 ELSE NextIV
    BY <1>1, <1>2 DEF NextIV, writeDatagram, encryptor
  <1>4. UnderWay = {sending.client} /\ UnderWay' = {}
    BY <1>1 DEF UnderWay
  <1>5. Outside!Send("up", sending.client) \/ Outside!Skip
    <2>1. CASE UNCHANGED out
      BY <1>3, <2>1 DEF Outside!Skip
    <2>2. CASE out' = sending
      <3>1. LastSent' = [way |-> "up", client |-> sending.client, iv |-> sending.iv.id]
        BY <1>1, <2>2, SentIs
      <3>2. sending.iv.id = IF isLocal THEN NextIV ELSE 0
        BY <1>1, <1>2 DEF NoIV
      <3> QED BY <1>1, <1>3, <3>1, <3>2 DEF Outside!Send, Outside!Encrypts, LastSent
    <2> QED BY <2>1, <2>2 DEF writeDatagram
  <1>6. Outside!Pass(sending.client)
    BY <1>4, <1>5 DEF Outside!Pass, UnderWay, writeDatagram, sockets
  <1> QED BY <1>1, <1>6 DEF Outside!Next

(* A malformed one at most bans.                                           *)
LEMMA RejectLooks ==
    ASSUME NEW client \in Clients, MainLoop, Reject(client), UNCHANGED <<isLocal, listening>>
    PROVE  Outside!Drop \/ Outside!Ban(client)
  <1>1. UNCHANGED <<cache, out, sending, NextIV>> /\ sending = Nothing
    BY DEF Reject, sockets, encryptor, decryptAll, NextIV, MainLoop
  <1>2. CASE ~isLocal /\ AutoBan
    BY <1>1, <1>2 DEF Reject, Outside!Ban
  <1>3. CASE ~(~isLocal /\ AutoBan)
    BY <1>1, <1>3 DEF Reject, Outside!Drop, Outside!Skip
  <1> QED BY <1>2, <1>3

LEMMA UpstreamLooks ==
    ASSUME UdpAssumption, IInv, IInv', NEW client \in Clients, NEW kind \in Kinds,
           onServerUdpSocketReadyRead(client, kind)
    PROVE  Outside!Next
  <1>1. MainLoop /\ listening /\ UNCHANGED <<isLocal, listening>>
    BY DEF onServerUdpSocketReadyRead
  <1>2. CASE UNCHANGED <<sockets, encryptor, banned, sending, out, aborted>>
    <2>1. Outside!Drop
      BY <1>1, <1>2, DropLooks DEF sockets, encryptor, MainLoop
    <2> QED BY <2>1 DEF Outside!Next
  <1>3. CASE Reject(client)
    <2>1. Outside!Drop \/ Outside!Ban(client)
      BY <1>1, <1>3, RejectLooks
    <2> QED BY <2>1 DEF Outside!Next
  <1>4. CASE ~(~isLocal /\ AutoBan /\ client \in banned) /\ Forward(client)
    <2>1. Outside!Take(client)
      BY <1>1, <1>4, ForwardLooks
    <2> QED BY <2>1 DEF Outside!Next
  <1> QED BY <1>2, <1>3, <1>4 DEF onServerUdpSocketReadyRead, Serves

(* An answer reaches the client in whose session it came, or nobody.       *)
LEMMA DownstreamLooks ==
    ASSUME UdpAssumption, IInv, IInv', NEW s \in Sockets, onClientUdpSocketReadyRead(s)
    PROVE  Outside!Next
  <1>1. /\ UNCHANGED <<isLocal, listening, cache, banned, sending>>
        /\ sending = Nothing /\ sending' = Nothing
    BY DEF onClientUdpSocketReadyRead, sockets, MainLoop
  <1>2. CASE UNCHANGED out
    <2>1. DrawIV(ivLen) \/ UNCHANGED enCipherIV
      BY DEF onClientUdpSocketReadyRead, encryptAll, decryptAll
    <2>2. Outside!Drop
      BY <1>1, <1>2, <2>1, DropLooks
    <2> QED BY <2>2 DEF Outside!Next
  <1>3. ASSUME NEW c \in Clients, cache[c] = s, ~UNCHANGED out,
               out' = Datagram("down", c, madeFor[s],
                               IF isLocal THEN NoIV ELSE enCipherIV)
        PROVE  Outside!Next
    <2>1. listening /\ cache[c] # NoSocket
      BY <1>3 DEF IInv, ListenOK, RestOK, UdpAssumption
    <2>2. IF isLocal THEN UNCHANGED enCipherIV ELSE DrawIV(ivLen)
      BY <1>3 DEF onClientUdpSocketReadyRead, encryptAll, decryptAll
    <2>3. enCipherIV'.id = IF isLocal THEN enCipherIV.id ELSE enCipherIV.id + 1
      BY <2>2, Numbered
    <2>4. NextIV = enCipherIV.id /\ NextIV' = enCipherIV'.id
      BY <1>1 DEF NextIV
    <2>5. /\ out'.way = "down" /\ out'.client = c
          /\ out'.iv = IF isLocal THEN NoIV ELSE enCipherIV
      BY <1>3 DEF Datagram
    <2>6. out' \in Datagrams
      <3>1. out' # Nothing
        BY <2>5 DEF Nothing
      <3> QED BY <3>1 DEF IInv, OutOK
    <2>7. LastSent' = [way |-> "down", client |-> c, iv |-> out'.iv.id]
      BY <2>5, <2>6, SentIs
    <2>8. out'.iv.id = IF isLocal THEN 0 ELSE enCipherIV.id
      BY <2>5 DEF NoIV
    <2>9. Outside!Send("down", c)
      BY <2>3, <2>4, <2>7, <2>8 DEF Outside!Send, Outside!Encrypts, LastSent, IInv, RestOK
    <2>10. Outside!Answer(c)
      BY <1>1, <2>1, <2>9 DEF Outside!Answer
    <2> QED BY <2>10 DEF Outside!Next
  <1> QED BY <1>2, <1>3 DEF onClientUdpSocketReadyRead

LEMMA CallsLook ==
    ASSUME UdpAssumption, IInv, listen \/ stop \/ \E method \in Methods : setup(method)
    PROVE  [Outside!Next]_(Outside!sessionVars)
  <1>1. CASE listen
    <2>1. Outside!Open
      BY <1>1 DEF listen, MainLoop, sockets, encryptor, NextIV, Outside!Open
    <2> QED BY <2>1 DEF Outside!Next
  <1>2. CASE stop
    <2>1. Outside!Close
      BY <1>2, CloseLooks
    <2> QED BY <2>1 DEF Outside!Next
  <1>3. CASE \E method \in Methods : setup(method)
    BY <1>3 DEF setup, isListening, sockets, encryptor, NextIV, Outside!sessionVars
  <1> QED BY <1>1, <1>2, <1>3

(* The UDP relay implements Sessions: every client that sent something it  *)
(* forwarded has a session from then to the next close(), answers go to    *)
(* sessions only, and every encrypted datagram has an IV of its own.       *)
THEOREM SessionsKept == UdpAssumption => (Spec => KeepsSessions)
  <1> SUFFICES ASSUME UdpAssumption PROVE Spec => KeepsSessions
    OBVIOUS
  <1>1. Init => Outside!Init
    BY DEF Init, Outside!Init, Outside!None, Nothing, NextIV
  <1>2. ASSUME IInv, IInv', [Next]_vars PROVE [Outside!Next]_(Outside!sessionVars)
    <2>1. CASE listen \/ stop \/ \E method \in Methods : setup(method)
      BY <1>2, <2>1, CallsLook
    <2>2. ASSUME NEW client \in Clients, banAddress(client)
          PROVE  [Outside!Next]_(Outside!sessionVars)
      <3>1. Outside!Ban(client)
        BY <2>2 DEF banAddress, sockets, encryptor, NextIV, Outside!Ban
      <3> QED BY <3>1 DEF Outside!Next
    <2>3. ASSUME NEW client \in Clients, NEW kind \in Kinds,
                 onServerUdpSocketReadyRead(client, kind)
          PROVE  [Outside!Next]_(Outside!sessionVars)
      BY <1>2, <2>3, UpstreamLooks
    <2>4. ASSUME NEW s \in Sockets, onClientUdpSocketReadyRead(s)
          PROVE  [Outside!Next]_(Outside!sessionVars)
      BY <1>2, <2>4, DownstreamLooks
    <2>5. ASSUME NEW s \in Sockets, deferredDelete(s)
          PROVE  [Outside!Next]_(Outside!sessionVars)
      BY <2>5 DEF deferredDelete, encryptor, NextIV, Outside!sessionVars
    <2>6. CASE UNCHANGED vars
      BY <2>6 DEF vars, sockets, encryptor, NextIV, Outside!sessionVars
    <2>7. CASE writeDatagram
      BY <1>2, <2>7, WriteLooks
    <2> QED BY <1>2, <2>1, <2>2, <2>3, <2>4, <2>5, <2>6, <2>7 DEF Next
  <1> QED BY <1>1, <1>2, Invariance, PTL DEF Spec, KeepsSessions, Outside!Spec

=============================================================================
