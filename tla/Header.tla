------------------------------- MODULE Header -------------------------------
(***************************************************************************)
(* The shadowsocks header of lib/common.cpp, byte by byte: a type, an      *)
(* address and a port.  A byte is a number; an address (lib/address.h) is  *)
(* its type, the bytes of its name or of its IP, and its two port bytes.   *)
(* A name is taken to be one that setAddress() keeps as it is: UTF-8, with *)
(* no white space around it to trim, and not the spelling of an IP         *)
(* address, into which it would be turned.                                 *)
(***************************************************************************)
EXTENDS Naturals, Sequences

(* enum ATYP *)
IPV4 == 1
HOST == 3
IPV6 == 4

Bytes == 0 .. 255

IsAddress(a) ==
    /\ a \in [type : {HOST, IPV4, IPV6}, host : Seq(Bytes), port : Seq(Bytes)]
    /\ Len(a.port) = 2
    /\ a.type = IPV4 => Len(a.host) = 4
    /\ a.type = IPV6 => Len(a.host) = 16
    /\ a.type = HOST => Len(a.host) \in 1 .. 255    \* "can't be longer than 255"

packAddress(a) ==
    (IF a.type = HOST THEN <<a.type, Len(a.host)>> ELSE <<a.type>>) \o a.host \o a.port

ParsedWithoutType(data, type, from, n) ==
    LET end == from + n
    IN  [header_length |-> end,
         dest |-> [type |-> type,
                   host |-> SubSeq(data, from, end - 1),
                   port |-> SubSeq(data, end,
                                   IF end + 1 <= Len(data) THEN end + 1 ELSE Len(data))]]

(* The result of parseHeader(): header_length, 0 when nothing was parsed,  *)
(* and dest.  Only those bytes of the port that are there are given: when  *)
(* the data ends in the port the code reads past it.                       *)
Parsed(data, type, from, n) ==
    LET end == from + n
    IN  [header_length |-> end + 1,
         dest |-> [type |-> type,
                   host |-> SubSeq(data, from, end - 1),
                   port |-> SubSeq(data, end,
                                   IF end + 1 <= Len(data) THEN end + 1 ELSE Len(data))]]

Unparsed == [header_length |-> 0, dest |-> [type |-> HOST, host |-> <<>>, port |-> <<>>]]

ADDRESS_MASK(atyp) == atyp % 16     \* atyp & 0x0f

parseHeader(data) ==
    LET addrtype == ADDRESS_MASK(data[1])
    IN  CASE addrtype = HOST /\ Len(data) > 2 /\ Len(data) >= 2 + data[2]
                -> Parsed(data, HOST, 3, data[2])
          [] addrtype = IPV4 /\ Len(data) >= 7  -> Parsed(data, IPV4, 2, 4)
          [] addrtype = IPV6 /\ Len(data) >= 19 -> Parsed(data, IPV6, 2, 16)
          [] OTHER -> Unparsed

=============================================================================
