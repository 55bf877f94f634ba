------------------------------- MODULE Tunnel -------------------------------
(***************************************************************************)
(* One encrypted connection, byte by byte, from the Encryptor of a client  *)
(* (its TcpRelay or its AddressTester) over TCP to the Encryptor and the   *)
(* header parser of a server's TcpRelay.  The client sends a header and a  *)
(* payload, cut into calls of encrypt() as it likes; TCP hands the server  *)
(* the bytes in order, cut into segments as it likes.  Each side has a     *)
(* ChaCha cipher of its own; a call of update() takes several steps, and   *)
(* the two sides interleave.                                               *)
(***************************************************************************)
EXTENDS ChaCha, Header

CONSTANTS
    Addresses,      \* destinations the client may ask for
    Payload,        \* the bytes that follow the header
    IVLength        \* of the method; the IV's bytes are not told apart

ASSUME TunnelAssumption ==
    /\ \A a \in Addresses : IsAddress(a)
    /\ Payload \in Seq(Bytes)
    /\ IVLength \in Nat \ {0}

VARIABLES
    to, iv,         \* the destination and (its part that counts) the IV; constant
    en,             \* client: encryptor->enCipher
    wire,           \* the encrypted bytes sent so far, behind the IV
    read,           \* server: how many bytes, the IV's included, it has read
    deCipher,       \* encryptor->deCipher: absent, or set up on the right IV or not
    de,             \* the cipher behind it
    plain,          \* what decrypt() has returned so far
    first,          \* the length of its first answer that was not empty
    stage,          \* INIT, DNS (and the stages that follow it), DESTROYED
    dest,           \* remoteAddress
    forwarded       \* what is to go to the destination

client == <<en, wire>>
relay  == <<stage, first, dest, forwarded>>
server == <<read, deCipher, de, plain, relay>>
vars   == <<to, iv, client, server>>

Noise == 256        \* a byte decrypted with the wrong key byte: any byte

Stream == packAddress(to) \o Payload

Encrypted == [plain : Bytes, key : KeyBytes]

TypeOK ==
    /\ to \in Addresses /\ iv \in Words
    /\ en \in Ciphers /\ de \in Ciphers
    /\ wire \in Seq(Encrypted)
    /\ read \in Nat /\ deCipher \in {"none", "lost", "aligned", "misaligned"}
    /\ plain \in Seq(Bytes \cup {Noise}) /\ first \in Nat
    /\ stage \in {"INIT", "DNS", "DESTROYED"}
    /\ forwarded \in Seq(Bytes \cup {Noise})

(* enCipher is made by the first encrypt(), from the IV drawn before.      *)
Init ==
    /\ to \in Addresses /\ iv \in Words
    /\ en = setIV(iv) /\ wire = <<>>
    /\ read = 0 /\ deCipher = "none" /\ de = setIV(0)
    /\ plain = <<>> /\ first = 0
    /\ stage = "INIT" /\ dest = Unparsed.dest /\ forwarded = <<>>

-----------------------------------------------------------------------------
(* The client.                                                             *)

EncryptAnew(n) == en' = update(setIV(iv), n) /\ UNCHANGED wire

(* encrypt() of the next n bytes.                                          *)
Encrypt(n) == en' = update(en, n) /\ UNCHANGED wire
encrypt ==
    /\ ~en.busy
    /\ \E n \in 1 .. Len(Stream) - Len(wire) : Encrypt(n)
    /\ UNCHANGED <<to, iv, server>>

EncryptRound ==
    Loops(en) /\ en' = Round(en) /\ UNCHANGED <<to, iv, wire, server>>

(* update() returns, and the result is written to the socket.              *)
EncryptReturns ==
    /\ Ends(en) /\ en' = Rest(en)
    /\ wire' = wire \o [i \in 1 .. Len(en'.xored) |->
                          [plain |-> Stream[Len(wire) + i], key |-> en'.xored[i]]]
    /\ UNCHANGED <<to, iv, server>>

-----------------------------------------------------------------------------
(* The server.                                                             *)

Available == IF wire = <<>> THEN 0 ELSE IVLength + Len(wire)

HasDeCipher == deCipher \in {"aligned", "misaligned"}

(* decrypt() of a segment of m bytes.  One that does not hold a whole IV   *)
(* is dropped, and then the next one is taken to begin with the IV.        *)
Decrypt(m) ==
    \/ HasDeCipher /\ de' = update(de, m) /\ UNCHANGED deCipher
    \/ /\ ~HasDeCipher /\ m < IVLength
       /\ deCipher' = "lost" /\ UNCHANGED de
    \/ /\ ~HasDeCipher /\ m >= IVLength
       /\ deCipher' = IF deCipher = "none" THEN "aligned" ELSE "misaligned"
       /\ \E w \in IF deCipher = "none" THEN {iv} ELSE Words :
             de' = update(setIV(w), m - IVLength)

(* onLocalTcpSocketReadyRead(), with a segment that TCP has cut.           *)
ReadyRead ==
    /\ ~de.busy /\ stage # "DESTROYED"
    /\ \E m \in 1 .. Available - read : read' = read + m /\ Decrypt(m)
    /\ UNCHANGED <<to, iv, client, plain, relay>>

DecryptRound ==
    /\ Loops(de) /\ de' = Round(de)
    /\ UNCHANGED <<to, iv, client, read, deCipher, plain, relay>>

(* A header read through the wrong cipher is garbage, which may parse.     *)
Garbage(n) ==
    {[header_length |-> h, dest |-> Unparsed.dest] :
        h \in {0} \cup IF n > 2 THEN 4 .. n + 2 ELSE {}}

HandleStageAddr(data) ==
    /\ first' = Len(data)
    /\ \E header \in IF data[1] = Noise THEN Garbage(Len(data)) ELSE {parseHeader(data)} :
          \/ /\ header.header_length = 0
             /\ stage' = "DESTROYED" /\ UNCHANGED <<dest, forwarded>>
          \/ /\ header.header_length > 0
             /\ stage' = "DNS" /\ dest' = header.dest
             /\ forwarded' = SubSeq(data, header.header_length + 1, Len(data))

Xor(byte, key) ==
    IF deCipher = "aligned" /\ byte.key = key THEN byte.plain ELSE Noise

(* update() returns; the rest of the slot.                                 *)
DecryptReturns ==
    /\ Ends(de) /\ de' = Rest(de)
    /\ LET n    == Len(de'.xored)
           from == read - IVLength - n
           data == [i \in 1 .. n |-> Xor(wire[from + i], de'.xored[i])]
       IN  /\ plain' = plain \o data
           /\ \/ data = <<>> /\ UNCHANGED relay
              \/ data # <<>> /\ stage = "INIT" /\ HandleStageAddr(data)
              \/ /\ data # <<>> /\ stage = "DNS"
                 /\ forwarded' = forwarded \o data /\ UNCHANGED <<stage, first, dest>>
    /\ UNCHANGED <<to, iv, client, read, deCipher>>

Next ==
    \/ encrypt \/ EncryptRound \/ EncryptReturns
    \/ ReadyRead \/ DecryptRound \/ DecryptReturns

Spec == Init /\ [][Next]_vars

-----------------------------------------------------------------------------
(* Properties.                                                             *)

(* Both ciphers use the bytes of the key stream in order, each once, from  *)
(* the first on, however encrypt() calls and segments cut the data; also   *)
(* when a word of the block counter overflows (chacha.cpp:106, 118-131).   *)
KeysInOrder ==
    FollowsKeyStream(en, iv) /\ (deCipher = "aligned" => FollowsKeyStream(de, iv))

(* No two bytes of a connection are encrypted with the same byte of the    *)
(* key stream: the low word may overflow, its carry must lead to blocks    *)
(* never made before, until the two words have gone through all of their   *)
(* values (chacha.cpp:106-107).                                            *)
KeyUsedOnce ==
    \A i, j \in 1 .. Len(wire) :
        i < j /\ j <= BLOCK * (WORD * WORD) => wire[i].key # wire[j].key

(* No round of update() reads past the block, not even for no byte at all  *)
(* (chacha.cpp:130, common.cpp:121).                                       *)
StaysInBuffer == StaysInBlock(en) /\ StaysInBlock(de)

(* If the first segment holds the whole IV, the server gets back what the  *)
(* client encrypted, in order, nothing twice (encryptor.cpp:28-59).        *)
Deciphered == deCipher = "aligned" => plain = SubSeq(Stream, 1, Len(plain))

(* What the parser makes of the first decrypted bytes.  A whole header is  *)
(* never refused, gives the destination that the client packed, and the    *)
(* payload begins right behind it.  Of one that was cut only a host header *)
(* passes, and only if it lacks nothing but bytes of the port: the host is *)
(* right, and the missing bytes go to the destination ahead of the payload *)
(* (common.cpp:71-113, tcprelay.cpp:100-131).                              *)
HeaderUnderstood ==
    LET h == Len(packAddress(to))
    IN  deCipher = "aligned" =>
        /\ stage = "DESTROYED" => first < h
        /\ stage = "DNS" =>
              /\ dest.type = to.type /\ dest.host = to.host
              /\ first >= h => dest.port = to.port
              /\ first < h => to.type = HOST /\ first >= h - 2
              /\ forwarded = SubSeq(Stream, (IF first < h THEN first ELSE h) + 1, Len(plain))
=============================================================================
