---------------------------- MODULE TunnelProofs ----------------------------
(***************************************************************************)
(* Proofs about Tunnel.tla, for any destination, payload, length of the IV *)
(* and size of a block and of a counter word: however the calls and the    *)
(* segments cut the stream, the server decrypts with the key bytes that    *)
(* the client encrypted with, and its parser understands what it gets.     *)
(***************************************************************************)
EXTENDS Tunnel, ChaChaProofs

Data == Bytes \cup {Noise}

-----------------------------------------------------------------------------
(* Sequences.                                                              *)

(* A piece of a sequence, also an empty one.                               *)
LEMMA PieceOf ==
    ASSUME NEW S, NEW s \in Seq(S), NEW m \in Nat \ {0}, NEW n \in Nat, n <= Len(s)
    PROVE  /\ SubSeq(s, m, n) \in Seq(S)
           /\ Len(SubSeq(s, m, n)) = IF m <= n THEN n - m + 1 ELSE 0
           /\ \A i \in 1 .. Len(SubSeq(s, m, n)) : SubSeq(s, m, n)[i] = s[m + i - 1]
  OBVIOUS

(* What stands where in two sequences put together.                        *)
LEMMA Joined ==
    ASSUME NEW S, NEW s \in Seq(S), NEW t \in Seq(S)
    PROVE  /\ s \o t \in Seq(S) /\ Len(s \o t) = Len(s) + Len(t)
           /\ \A i \in 1 .. Len(s) : (s \o t)[i] = s[i]
           /\ \A i \in 1 .. Len(t) : (s \o t)[Len(s) + i] = t[i]
  OBVIOUS

(* Sequences are equal if their elements are.                              *)
LEMMA SameElements ==
    ASSUME NEW S, NEW s \in Seq(S), NEW T, NEW t \in Seq(T), Len(s) = Len(t),
           \A i \in 1 .. Len(s) : s[i] = t[i]
    PROVE  s = t
  OBVIOUS

(* A prefix is the piece up to its length.                                 *)
LEMMA PrefixOf ==
    ASSUME NEW S, NEW s \in Seq(S), NEW T, NEW t \in Seq(T), Len(s) <= Len(t),
           \A i \in 1 .. Len(s) : s[i] = t[i]
    PROVE  s = SubSeq(t, 1, Len(s))
<1>1. /\ SubSeq(t, 1, Len(s)) \in Seq(T)
      /\ Len(SubSeq(t, 1, Len(s))) = Len(s)
      /\ \A i \in 1 .. Len(s) : SubSeq(t, 1, Len(s))[i] = t[i]
  BY PieceOf
<1> QED BY <1>1, SameElements

(* A function on the first numbers is a sequence.                          *)
LEMMA Listed ==
    ASSUME NEW S, NEW n \in Nat, NEW f \in [1 .. n -> S]
    PROVE  f \in Seq(S) /\ Len(f) = n
  OBVIOUS

LEMMA EmptyPiece ==
    ASSUME NEW S, NEW s \in Seq(S), NEW m \in Nat \ {0}, NEW n \in Nat, n <= Len(s), n < m
    PROVE  SubSeq(s, m, n) = <<>>
<1> DEFINE x == SubSeq(s, m, n)
<1>1. x \in Seq(S) /\ Len(x) = 0
  BY PieceOf
<1> HIDE DEF x
<1>2. x = <<>>
  BY <1>1
<1> QED BY <1>2 DEF x

(* The end of a prefix is a piece of the whole.                            *)
LEMMA SamePiece ==
    ASSUME NEW S, NEW s \in Seq(S), NEW t \in Seq(S), Len(s) <= Len(t),
           \A i \in 1 .. Len(s) : s[i] = t[i], NEW m \in Nat \ {0}
    PROVE  SubSeq(s, m, Len(s)) = SubSeq(t, m, Len(s))
<1> DEFINE n == Len(s)
           x == SubSeq(s, m, n)
           y == SubSeq(t, m, n)
<1>1. n \in Nat /\ n <= Len(s) /\ n <= Len(t)
  OBVIOUS
<1>2. /\ x \in Seq(S) /\ y \in Seq(S) /\ Len(x) = Len(y)
      /\ Len(x) = IF m <= n THEN n - m + 1 ELSE 0
      /\ \A i \in 1 .. Len(x) : x[i] = s[m + i - 1]
      /\ \A i \in 1 .. Len(y) : y[i] = t[m + i - 1]
  BY <1>1, PieceOf
<1> HIDE DEF x, y
<1>3. ASSUME NEW i \in 1 .. Len(x) PROVE x[i] = y[i]
  <2>1. m + i - 1 \in 1 .. n
    BY <1>1, <1>2
  <2> QED BY <1>2, <2>1
<1>4. x = y
  BY <1>2, <1>3, SameElements
<1> QED BY <1>4 DEF x, y

(* A piece and what comes next are a piece.                                *)
LEMMA LongerPiece ==
    ASSUME NEW S, NEW s \in Seq(S), NEW t \in Seq(S), NEW c \in Nat, NEW k \in Nat, c <= k,
           k + Len(t) <= Len(s), \A i \in 1 .. Len(t) : t[i] = s[k + i]
    PROVE  SubSeq(s, c + 1, k) \o t = SubSeq(s, c + 1, k + Len(t))
<1> DEFINE n == Len(t)
           x == SubSeq(s, c + 1, k)
           y == SubSeq(s, c + 1, k + n)
<1>1. n \in Nat /\ k <= Len(s) /\ k + n \in Nat /\ c + 1 \in Nat \ {0}
  OBVIOUS
<1>2. /\ x \in Seq(S) /\ Len(x) = k - c
      /\ \A i \in 1 .. Len(x) : x[i] = s[(c + 1) + i - 1]
  <2>1. (IF c + 1 <= k THEN k - (c + 1) + 1 ELSE 0) = k - c
    OBVIOUS
  <2> QED BY <1>1, <2>1, PieceOf
<1>3. /\ y \in Seq(S) /\ Len(y) = k + n - c
      /\ \A i \in 1 .. Len(y) : y[i] = s[(c + 1) + i - 1]
  <2>1. (IF c + 1 <= k + n THEN (k + n) - (c + 1) + 1 ELSE 0) = k + n - c
    BY <1>1
  <2> QED BY <1>1, <2>1, PieceOf
<1> HIDE DEF x, y
<1>4. /\ x \o t \in Seq(S) /\ Len(x \o t) = Len(x) + n
      /\ \A i \in 1 .. Len(x) : (x \o t)[i] = x[i]
      /\ \A i \in 1 .. n : (x \o t)[Len(x) + i] = t[i]
  <2>1. x \in Seq(S) /\ t \in Seq(S)
    BY <1>2
  <2> QED BY <2>1, Joined
<1> DEFINE z == x \o t
<1> HIDE DEF z
<1>5. z \in Seq(S) /\ Len(z) = Len(y) /\ Len(y) = (k - c) + n
  BY <1>1, <1>2, <1>3, <1>4 DEF z
<1>6. ASSUME NEW i \in 1 .. Len(y) PROVE z[i] = y[i]
  <2>1. y[i] = s[c + i]
    BY <1>3, <1>5
  <2>2. CASE i <= k - c
    <3>1. i \in 1 .. Len(x)
      BY <1>1, <1>2, <2>2
    <3> QED BY <1>2, <1>4, <2>1, <3>1 DEF z
  <2>3. CASE i > k - c
    <3> DEFINE j == i - (k - c)
    <3>1. j \in 1 .. n /\ Len(x) + j = i /\ k + j = c + i
      BY <1>1, <1>2, <1>5, <2>3
    <3> HIDE DEF j
    <3> QED BY <1>4, <2>1, <3>1 DEF z
  <2> QED BY <1>1, <1>5, <2>2, <2>3
<1>7. z = y
  BY <1>3, <1>5, <1>6, SameElements
<1> QED BY <1>7 DEF x, y, z

-----------------------------------------------------------------------------
(* The header.                                                             *)

(* What packAddress() makes of an address, byte by byte.                   *)
LEMMA PackedHost ==
    ASSUME NEW a, IsAddress(a), a.type = HOST
    PROVE  LET p == packAddress(a)
               L == Len(a.host)
           IN  /\ p \in Seq(Bytes) /\ Len(p) = L + 4
               /\ p[1] = HOST /\ p[2] = L
               /\ \A i \in 1 .. L : p[2 + i] = a.host[i]
               /\ \A i \in 1 .. 2 : p[2 + L + i] = a.port[i]
<1> DEFINE L == Len(a.host)
           s == <<a.type, L>>
           t == s \o a.host
<1>1. /\ a.host \in Seq(Bytes) /\ a.port \in Seq(Bytes) /\ Len(a.port) = 2
      /\ L \in 1 .. 255 /\ a.type \in Bytes
  BY DEF IsAddress, HOST, Bytes
<1>2. s \in Seq(Bytes) /\ Len(s) = 2 /\ s[1] = a.type /\ s[2] = L
  BY <1>1 DEF Bytes
<1>3. packAddress(a) = t \o a.port
  BY DEF packAddress
<1> HIDE DEF s
<1>4. /\ t \in Seq(Bytes) /\ Len(t) = 2 + L
      /\ t[1] = a.type /\ t[2] = L /\ \A i \in 1 .. L : t[2 + i] = a.host[i]
  <2>1. /\ t \in Seq(Bytes) /\ Len(t) = 2 + L /\ t[1] = s[1] /\ t[2] = s[2]
        /\ \A i \in 1 .. L : t[2 + i] = a.host[i]
    BY <1>1, <1>2, Joined
  <2> QED BY <1>2, <2>1
<1> HIDE DEF t, L
<1>5. L \in Nat
  BY <1>1
<1>6. /\ t \o a.port \in Seq(Bytes) /\ Len(t \o a.port) = L + 4
      /\ \A i \in 1 .. L + 2 : (t \o a.port)[i] = t[i]
      /\ \A i \in 1 .. 2 : (t \o a.port)[2 + L + i] = a.port[i]
  <2>0. t \in Seq(Bytes) /\ a.port \in Seq(Bytes)
    BY <1>1, <1>4
  <2>1. /\ t \o a.port \in Seq(Bytes) /\ Len(t \o a.port) = Len(t) + Len(a.port)
        /\ \A i \in 1 .. Len(t) : (t \o a.port)[i] = t[i]
        /\ \A i \in 1 .. Len(a.port) : (t \o a.port)[Len(t) + i] = a.port[i]
    BY <2>0, Joined
  <2>2. Len(t) = L + 2 /\ Len(t) = 2 + L /\ Len(a.port) = 2
    BY <1>1, <1>4, <1>5
  <2> QED BY <2>1, <2>2, <1>5
<1>7. \A i \in 1 .. L : 2 + i \in 1 .. L + 2
  BY <1>5
<1>8. 1 \in 1 .. L + 2 /\ 2 \in 1 .. L + 2
  BY <1>5
<1>9. \A i \in 1 .. L : (t \o a.port)[2 + i] = a.host[i]
  BY <1>4, <1>6, <1>7
<1> QED BY <1>1, <1>3, <1>4, <1>6, <1>8, <1>9 DEF L

LEMMA PackedIP ==
    ASSUME NEW a, IsAddress(a), a.type # HOST
    PROVE  LET p == packAddress(a)
               L == Len(a.host)
           IN  /\ p \in Seq(Bytes) /\ Len(p) = L + 3
               /\ p[1] = a.type
               /\ L = IF a.type = IPV4 THEN 4 ELSE 16
               /\ \A i \in 1 .. L : p[1 + i] = a.host[i]
               /\ \A i \in 1 .. 2 : p[1 + L + i] = a.port[i]
<1> DEFINE L == Len(a.host)
           s == <<a.type>>
           t == s \o a.host
<1>1. /\ a.host \in Seq(Bytes) /\ a.port \in Seq(Bytes) /\ Len(a.port) = 2
      /\ L = IF a.type = IPV4 THEN 4 ELSE 16
      /\ a.type \in Bytes /\ a.type \in {IPV4, IPV6}
  BY DEF IsAddress, HOST, IPV4, IPV6, Bytes
<1>2. s \in Seq(Bytes) /\ Len(s) = 1 /\ s[1] = a.type
  BY <1>1
<1>3. packAddress(a) = t \o a.port
  BY DEF packAddress
<1> HIDE DEF s
<1>4. /\ t \in Seq(Bytes) /\ Len(t) = 1 + L
      /\ t[1] = a.type /\ \A i \in 1 .. L : t[1 + i] = a.host[i]
  <2>1. /\ t \in Seq(Bytes) /\ Len(t) = 1 + L /\ t[1] = s[1]
        /\ \A i \in 1 .. L : t[1 + i] = a.host[i]
    BY <1>1, <1>2, Joined
  <2> QED BY <1>2, <2>1
<1> HIDE DEF t, L
<1>5. L \in Nat
  BY <1>1
<1>6. /\ t \o a.port \in Seq(Bytes) /\ Len(t \o a.port) = L + 3
      /\ \A i \in 1 .. L + 1 : (t \o a.port)[i] = t[i]
      /\ \A i \in 1 .. 2 : (t \o a.port)[1 + L + i] = a.port[i]
  <2>0. t \in Seq(Bytes) /\ a.port \in Seq(Bytes)
    BY <1>1, <1>4
  <2>1. /\ t \o a.port \in Seq(Bytes) /\ Len(t \o a.port) = Len(t) + Len(a.port)
        /\ \A i \in 1 .. Len(t) : (t \o a.port)[i] = t[i]
        /\ \A i \in 1 .. Len(a.port) : (t \o a.port)[Len(t) + i] = a.port[i]
    BY <2>0, Joined
  <2>2. Len(t) = L + 1 /\ Len(t) = 1 + L /\ Len(a.port) = 2
    BY <1>1, <1>4, <1>5
  <2> QED BY <2>1, <2>2, <1>5
<1>7. \A i \in 1 .. L : 1 + i \in 1 .. L + 1
  BY <1>5
<1>8. 1 \in 1 .. L + 1 /\ 1 \in 1 .. L + 1
  BY <1>5
<1>9. \A i \in 1 .. L : (t \o a.port)[1 + i] = a.host[i]
  BY <1>4, <1>6, <1>7
<1> QED BY <1>1, <1>3, <1>4, <1>6, <1>8, <1>9 DEF L

(* The fields of a parsed header are pieces of the data.                   *)
LEMMA ParsedFields ==
    ASSUME NEW data \in Seq(Bytes), NEW type, NEW from \in Nat \ {0}, NEW n \in Nat,
           Len(data) + 1 >= from + n
    PROVE  LET r == Parsed(data, type, from, n)
           IN  /\ r.header_length = from + n + 1
               /\ r.dest.type = type
               /\ r.dest.host \in Seq(Bytes) /\ Len(r.dest.host) = n
               /\ \A i \in 1 .. n : r.dest.host[i] = data[from + i - 1]
               /\ Len(data) > from + n =>
                     /\ r.dest.port \in Seq(Bytes) /\ Len(r.dest.port) = 2
                     /\ \A i \in 1 .. 2 : r.dest.port[i] = data[from + n + i - 1]
<1> DEFINE end == from + n
           host == SubSeq(data, from, end - 1)
           upto == IF end + 1 <= Len(data) THEN end + 1 ELSE Len(data)
           port == SubSeq(data, end, upto)
<1>1. /\ end \in Nat \ {0} /\ end - 1 \in Nat /\ end - 1 <= Len(data)
      /\ upto \in Nat /\ upto <= Len(data)
  OBVIOUS
<1>2. /\ host \in Seq(Bytes) /\ Len(host) = n
      /\ \A i \in 1 .. n : host[i] = data[from + i - 1]
  <2>1. Len(host) = IF from <= end - 1 THEN (end - 1) - from + 1 ELSE 0
    BY <1>1, PieceOf
  <2>2. Len(host) = n
    BY <2>1
  <2> QED BY <1>1, <2>2, PieceOf
<1>3. ASSUME Len(data) > end
      PROVE  /\ port \in Seq(Bytes) /\ Len(port) = 2
             /\ \A i \in 1 .. 2 : port[i] = data[end + i - 1]
  <2>1. upto = end + 1
    BY <1>1, <1>3
  <2> QED BY <1>1, <2>1, PieceOf
<1> QED BY <1>2, <1>3 DEF Parsed

(* The parser on the first bytes of a stream that begins with a header: it *)
(* refuses none that is whole and understands what it does not refuse.     *)
LEMMA HeaderOfPrefix ==
    ASSUME NEW a, IsAddress(a), NEW more \in Seq(Bytes),
           NEW data \in Seq(Bytes), Len(data) >= 1,
           Len(data) <= Len(packAddress(a) \o more),
           \A i \in 1 .. Len(data) : data[i] = (packAddress(a) \o more)[i]
    PROVE  LET r == parseHeader(data)
               h == Len(packAddress(a))
           IN  /\ r.header_length = 0 => Len(data) < h
               /\ r.header_length # 0 =>
                     /\ r.header_length = h
                     /\ r.dest.type = a.type /\ r.dest.host = a.host
                     /\ Len(data) >= h => r.dest.port = a.port
                     /\ Len(data) < h => a.type = HOST /\ Len(data) >= h - 2
<1> DEFINE p == packAddress(a)
           h == Len(p)
           L == Len(a.host)
           N == Len(data)
           r == parseHeader(data)
<1>1. /\ a.host \in Seq(Bytes) /\ a.port \in Seq(Bytes) /\ Len(a.port) = 2
      /\ L \in Nat /\ a.type \in {HOST, IPV4, IPV6}
      /\ a.type = HOST => L \in 1 .. 255
  BY DEF IsAddress
<1>2. p \in Seq(Bytes)
  BY PackedHost, PackedIP
<1>3. \A i \in 1 .. h : i <= N => data[i] = p[i]
  <2> HIDE DEF p
  <2>1. \A i \in 1 .. h : (p \o more)[i] = p[i]
    BY <1>2, Joined
  <2>2. \A i \in 1 .. N : data[i] = (p \o more)[i]
    BY DEF p
  <2> QED BY <1>2, <2>1, <2>2
<1>4. N \in Nat /\ N >= 1
  OBVIOUS
<1>5. CASE a.type = HOST
  <2>1. /\ h = L + 4 /\ p[1] = HOST /\ p[2] = L
        /\ \A i \in 1 .. L : p[2 + i] = a.host[i]
        /\ \A i \in 1 .. 2 : p[2 + L + i] = a.port[i]
    BY <1>5, PackedHost
  <2> HIDE DEF p, h, L
  <2>0. L \in Nat /\ L >= 1 /\ h \in Nat /\ N \in Nat /\ 1 \in 1 .. h /\ 2 \in 1 .. h
    <3>1. L \in 1 .. 255 /\ L \in Nat
      BY <1>1, <1>5
    <3>2. h = L + 4
      BY <2>1
    <3>3. L >= 1 /\ h \in Nat /\ 1 \in 1 .. h /\ 2 \in 1 .. h
      BY <3>1, <3>2
    <3> QED BY <1>4, <3>1, <3>3
  <2>2. data[1] = HOST /\ ADDRESS_MASK(data[1]) = HOST
    <3>1. data[1] = HOST
      <4>1. data[1] = p[1]
        BY <1>3, <1>4, <2>0
      <4> QED BY <2>1, <4>1
    <3> QED BY <3>1, SMT DEF ADDRESS_MASK, HOST
  <2>3. N > 2 => data[2] = L
    BY <2>0, <1>3, <2>1
  <2>4. CASE N > 2 /\ N >= 2 + L
    <3>1. r = Parsed(data, HOST, 3, L)
      BY <2>2, <2>3, <2>4 DEF parseHeader, HOST, IPV4, IPV6
    <3>2. \A i \in 1 .. L : data[3 + i - 1] = a.host[i]
      <4> TAKE i \in 1 .. L
      <4>1. 2 + i \in 1 .. h /\ 2 + i <= N /\ 3 + i - 1 = 2 + i
        BY <2>0, <2>1, <2>4
      <4> QED BY <4>1, <1>3, <2>1
    <3>3. \A i \in 1 .. 2 : 3 + L + i - 1 <= N => data[3 + L + i - 1] = a.port[i]
      <4> TAKE i \in 1 .. 2
      <4>1. 2 + L + i \in 1 .. h /\ 3 + L + i - 1 = 2 + L + i
        BY <1>1, <2>1
      <4> QED BY <4>1, <1>3, <2>1
    <3>4. /\ r.header_length = 3 + L + 1 /\ r.dest.type = HOST /\ r.dest.host = a.host
          /\ N > 3 + L => r.dest.port = a.port
      <4>1. N + 1 >= 3 + L /\ L \in Nat /\ Len(a.host) = L
        BY <2>0, <2>4 DEF L
      <4>2. a.host \in Seq(Bytes) /\ a.port \in Seq(Bytes) /\ Len(a.port) = 2
        BY <1>1
      <4>3. 3 \in Nat \ {0}
        OBVIOUS
      <4> DEFINE q == Parsed(data, HOST, 3, L)
      <4>4. /\ q.header_length = 3 + L + 1 /\ q.dest.type = HOST
            /\ q.dest.host \in Seq(Bytes) /\ Len(q.dest.host) = L
            /\ \A i \in 1 .. L : q.dest.host[i] = data[3 + i - 1]
            /\ N > 3 + L =>
                  /\ q.dest.port \in Seq(Bytes) /\ Len(q.dest.port) = 2
                  /\ \A i \in 1 .. 2 : q.dest.port[i] = data[3 + L + i - 1]
        BY <4>1, <4>3, ParsedFields
      <4> HIDE DEF q
      <4>5. q.dest.host = a.host
        <5> DEFINE x == q.dest.host
                   y == a.host
        <5>1. x \in Seq(Bytes) /\ y \in Seq(Bytes) /\ Len(x) = Len(y)
          BY <4>1, <4>2, <4>4
        <5>2. \A i \in 1 .. Len(x) : x[i] = y[i]
          BY <4>4, <3>2
        <5> HIDE DEF x, y
        <5>3. x = y
          BY <5>1, <5>2, SameElements
        <5> QED BY <5>3 DEF x, y
      <4>6. ASSUME N > 3 + L PROVE q.dest.port = a.port
        <5> DEFINE x == q.dest.port
                   y == a.port
        <5>1. x \in Seq(Bytes) /\ y \in Seq(Bytes) /\ Len(x) = 2 /\ Len(y) = 2
          BY <4>2, <4>4, <4>6
        <5>2. \A i \in 1 .. 2 : x[i] = y[i]
          BY <4>4, <4>6, <3>3, <2>0
        <5> HIDE DEF x, y
        <5>3. x = y
          BY <5>1, <5>2, SameElements
        <5> QED BY <5>3 DEF x, y
      <4> QED BY <4>4, <4>5, <4>6, <3>1 DEF q
    <3> HIDE DEF r
    <3>5. N >= h => N > 3 + L
      BY <1>1, <1>4, <2>1
    <3>6. N < h => N >= h - 2
      BY <1>1, <1>4, <2>1, <2>4
    <3>7. r.header_length = h /\ r.header_length # 0
      BY <1>1, <2>1, <3>4
    <3> QED BY <1>5, <3>4, <3>5, <3>6, <3>7 DEF r, h, p
  <2>5. CASE ~(N > 2 /\ N >= 2 + L)
    <3>1. r = Unparsed
      BY <2>2, <2>3, <2>5 DEF parseHeader, HOST, IPV4, IPV6
    <3>2. N < h /\ r.header_length = 0
      BY <1>1, <1>4, <1>5, <2>1, <2>5, <3>1 DEF Unparsed
    <3> QED BY <3>2 DEF r, h, p
  <2> QED BY <2>4, <2>5
<1>6. CASE a.type # HOST
  <2>1. /\ h = L + 3 /\ p[1] = a.type
        /\ L = IF a.type = IPV4 THEN 4 ELSE 16
        /\ \A i \in 1 .. L : p[1 + i] = a.host[i]
        /\ \A i \in 1 .. 2 : p[1 + L + i] = a.port[i]
    BY <1>6, PackedIP
  <2>0. L \in Nat /\ L >= 1 /\ h \in Nat /\ N \in Nat
    BY <1>1, <1>4, <1>6, <2>1
  <2> HIDE DEF p, h, L
  <2>2. ADDRESS_MASK(data[1]) = a.type
    <3>1. data[1] = a.type
      BY <1>1, <1>3, <1>4, <2>1
    <3> QED BY <1>1, <1>6, <3>1, SMT DEF ADDRESS_MASK, HOST, IPV4, IPV6
  <2>3. CASE N >= h
    <3>1. r = Parsed(data, a.type, 2, L)
      BY <1>1, <1>6, <2>1, <2>2, <2>3 DEF parseHeader, HOST, IPV4, IPV6
    <3>2. \A i \in 1 .. L : data[2 + i - 1] = a.host[i]
      <4> TAKE i \in 1 .. L
      <4>1. 1 + i \in 1 .. h /\ 1 + i <= N /\ 2 + i - 1 = 1 + i
        BY <1>1, <1>4, <2>1, <2>3
      <4> QED BY <4>1, <1>3, <2>1
    <3>3. \A i \in 1 .. 2 : 2 + L + i - 1 <= N => data[2 + L + i - 1] = a.port[i]
      <4> TAKE i \in 1 .. 2
      <4>1. 1 + L + i \in 1 .. h /\ 2 + L + i - 1 = 1 + L + i
        BY <1>1, <2>1
      <4> QED BY <4>1, <1>3, <2>1
    <3>4. /\ r.header_length = 2 + L + 1 /\ r.dest.type = a.type /\ r.dest.host = a.host
          /\ N > 2 + L => r.dest.port = a.port
      <4>1. N + 1 >= 2 + L /\ L \in Nat /\ Len(a.host) = L
        BY <2>0, <2>1, <2>3 DEF L
      <4>2. a.host \in Seq(Bytes) /\ a.port \in Seq(Bytes) /\ Len(a.port) = 2
        BY <1>1
      <4>3. 2 \in Nat \ {0}
        OBVIOUS
      <4> DEFINE q == Parsed(data, a.type, 2, L)
      <4>4. /\ q.header_length = 2 + L + 1 /\ q.dest.type = a.type
            /\ q.dest.host \in Seq(Bytes) /\ Len(q.dest.host) = L
            /\ \A i \in 1 .. L : q.dest.host[i] = data[2 + i - 1]
            /\ N > 2 + L =>
                  /\ q.dest.port \in Seq(Bytes) /\ Len(q.dest.port) = 2
                  /\ \A i \in 1 .. 2 : q.dest.port[i] = data[2 + L + i - 1]
        BY <4>1, <4>3, ParsedFields
      <4> HIDE DEF q
      <4>5. q.dest.host = a.host
        <5> DEFINE x == q.dest.host
                   y == a.host
        <5>1. x \in Seq(Bytes) /\ y \in Seq(Bytes) /\ Len(x) = Len(y)
          BY <4>1, <4>2, <4>4
        <5>2. \A i \in 1 .. Len(x) : x[i] = y[i]
          BY <4>4, <3>2
        <5> HIDE DEF x, y
        <5>3. x = y
          BY <5>1, <5>2, SameElements
        <5> QED BY <5>3 DEF x, y
      <4>6. ASSUME N > 2 + L PROVE q.dest.port = a.port
        <5> DEFINE x == q.dest.port
                   y == a.port
        <5>1. x \in Seq(Bytes) /\ y \in Seq(Bytes) /\ Len(x) = 2 /\ Len(y) = 2
          BY <4>2, <4>4, <4>6
        <5>2. \A i \in 1 .. 2 : x[i] = y[i]
          BY <4>4, <4>6, <3>3, <2>0
        <5> HIDE DEF x, y
        <5>3. x = y
          BY <5>1, <5>2, SameElements
        <5> QED BY <5>3 DEF x, y
      <4> QED BY <4>4, <4>5, <4>6, <3>1 DEF q
    <3> HIDE DEF r
    <3>5. N > 2 + L /\ ~(N < h)
      BY <2>0, <2>1, <2>3
    <3>6. r.header_length = h /\ r.header_length # 0
      BY <1>1, <2>1, <3>4
    <3> QED BY <3>4, <3>5, <3>6 DEF r, h, p
  <2>4. CASE N < h
    <3>1. r = Unparsed
      BY <1>1, <1>6, <2>1, <2>2, <2>4 DEF parseHeader, HOST, IPV4, IPV6
    <3>2. r.header_length = 0
      BY <3>1 DEF Unparsed
    <3> QED BY <2>4, <3>2 DEF r, h, p
  <2>5. h \in Nat
    BY <1>2 DEF h
  <2> QED BY <1>4, <2>3, <2>4, <2>5
<1> QED BY <1>5, <1>6

-----------------------------------------------------------------------------
(* The inductive invariant.                                                *)

(* What a call of update() has still to do.                                *)
Pending(c) == IF c.busy THEN c.length ELSE 0

(* Between calls the position in the key stream is the number of bytes     *)
(* returned; during one, total is.                                         *)
Returned(c, n) == IF c.busy THEN c.total = n ELSE Position(c) = n

(* The wire holds the stream, byte i with byte i of the key stream.        *)
ClientInv ==
    /\ InStep(en, iv)
    /\ Returned(en, Len(wire))
    /\ Position(en) + Pending(en) <= Len(Stream)
    /\ Len(wire) <= Len(Stream)
    /\ \A i \in 1 .. Len(wire) : wire[i] = [plain |-> Stream[i], key |-> KeyByte(iv, i - 1)]

(* The server's cipher is in step with some stream, and if its first       *)
(* segment held the IV with the client's: it is where the reading is.      *)
ServerInv ==
    /\ \E w \in Words : InStep(de, w) /\ (deCipher = "aligned" => w = iv)
    /\ Returned(de, Len(plain))
    /\ ~HasDeCipher => ~de.busy /\ plain = <<>>
    /\ deCipher = "none" => read = 0
    /\ deCipher = "aligned" =>
          /\ read = IVLength + Position(de) + Pending(de)
          /\ \A i \in 1 .. Len(plain) : plain[i] = Stream[i]

RelayInv ==
    /\ stage = "INIT" => plain = <<>>
    /\ stage # "INIT" => first \in 1 .. Len(plain)
    /\ HeaderUnderstood

IInv ==
    TypeOK /\ ClientInv /\ ServerInv /\ RelayInv /\ read <= Available

LEMMA StreamType ==
    ASSUME to \in Addresses
    PROVE  /\ IsAddress(to)
           /\ packAddress(to) \in Seq(Bytes)
           /\ Stream \in Seq(Bytes)
           /\ Len(packAddress(to)) <= Len(Stream)
<1>1. IsAddress(to) /\ Payload \in Seq(Bytes)
  BY TunnelAssumption
<1>2. packAddress(to) \in Seq(Bytes)
  BY <1>1, PackedHost, PackedIP
<1> DEFINE p == packAddress(to)
<1>3. p \o Payload \in Seq(Bytes) /\ Len(p \o Payload) = Len(p) + Len(Payload)
  <2> HIDE DEF p
  <2>1. p \in Seq(Bytes)
    BY <1>2 DEF p
  <2> QED BY <1>1, <2>1, Joined
<1> QED BY <1>1, <1>2, <1>3 DEF Stream

(* The key byte of a byte on the wire.                                     *)
LEMMA KeyOnWire ==
    ASSUME IInv, NEW k \in 1 .. Len(wire)
    PROVE  wire[k].key = KeyByte(iv, k - 1)
<1> DEFINE byte == KeyByte(iv, k - 1)
<1>1. wire[k] = [plain |-> Stream[k], key |-> byte]
  BY DEF IInv, ClientInv
<1> HIDE DEF byte
<1>2. wire[k].key = byte
  BY <1>1
<1> QED BY <1>2 DEF byte

(* The properties that the runs check follow.                              *)
LEMMA InvImplies ==
    ASSUME IInv
    PROVE  /\ TypeOK /\ KeysInOrder /\ KeyUsedOnce /\ StaysInBuffer
           /\ Deciphered /\ HeaderUnderstood
<1>1. KeysInOrder
  BY DEF IInv, ClientInv, ServerInv, InStep, KeysInOrder
<1>2. StaysInBuffer
  BY InStepStaysInBlock DEF IInv, ClientInv, ServerInv, StaysInBuffer
<1>3. Deciphered
  <2> SUFFICES ASSUME deCipher = "aligned" PROVE plain = SubSeq(Stream, 1, Len(plain))
    BY DEF Deciphered
  <2>1. /\ Stream \in Seq(Bytes) /\ plain \in Seq(Data)
        /\ \A i \in 1 .. Len(plain) : plain[i] = Stream[i]
    BY StreamType DEF IInv, TypeOK, ServerInv, Data
  <2>2. Len(plain) <= Len(Stream)
    <3>1. Len(plain) <= Position(de) + Pending(de)
      BY DEF IInv, TypeOK, ServerInv, Returned, Pending, Position, Ciphers
    <3>2. Position(de) + Pending(de) \in Nat
      BY DEF IInv, TypeOK, Pending, Position, Ciphers
    <3>3. Position(de) + Pending(de) <= Len(wire)
      <4>1. Position(de) \in Nat /\ Pending(de) \in Nat
        BY DEF IInv, TypeOK, Pending, Position, Ciphers
      <4>2. read = IVLength + Position(de) + Pending(de) /\ read <= Available
        BY DEF IInv, ServerInv
      <4>3. IVLength \in Nat /\ IVLength > 0 /\ Len(wire) \in Nat
        BY TunnelAssumption DEF IInv, TypeOK
      <4>4. Available = IF wire = <<>> THEN 0 ELSE IVLength + Len(wire)
        BY DEF Available
      <4> QED BY <4>1, <4>2, <4>3, <4>4
    <3> QED BY <2>1, <3>1, <3>2, <3>3 DEF IInv, ClientInv, TypeOK
  <2> QED BY <2>1, <2>2, PrefixOf
<1>4. KeyUsedOnce
  <2> DEFINE period == BLOCK * (WORD * WORD)
  <2> SUFFICES ASSUME NEW i \in 1 .. Len(wire), NEW j \in 1 .. Len(wire),
                      i < j, j <= period, wire[i].key = wire[j].key
               PROVE  FALSE
    BY DEF KeyUsedOnce
  <2>1. Len(wire) \in Nat /\ iv \in Words /\ period \in Nat
    BY CipherAssumption DEF IInv, TypeOK
  <2> HIDE DEF period
  <2>2. i - 1 \in Nat /\ j - 1 \in Nat /\ i - 1 < period /\ j - 1 < period
    BY <2>1
  <2>3. wire[i].key = KeyByte(iv, i - 1) /\ wire[j].key = KeyByte(iv, j - 1)
    BY KeyOnWire
  <2>4. i - 1 = j - 1
    BY <2>1, <2>2, <2>3, StreamNeverRepeats DEF period
  <2> QED BY <2>1, <2>4
<1> QED BY <1>1, <1>2, <1>3, <1>4 DEF IInv, RelayInv

LEMMA InitInv == Init => IInv
<1> SUFFICES ASSUME Init PROVE IInv
  OBVIOUS
<1>1. 0 \in Words
  BY CipherAssumption DEF Words
<1>2. /\ InStep(en, iv) /\ en.xored = <<>> /\ en.total = 0 /\ ~en.busy
      /\ InStep(de, 0) /\ de.xored = <<>> /\ de.total = 0 /\ ~de.busy
  BY <1>1, FreshInStep DEF Init
<1>3. Position(en) = 0 /\ Position(de) = 0
  BY <1>2 DEF Position
<1>4. Stream \in Seq(Bytes)
  BY StreamType DEF Init
<1>5. TypeOK
  BY <1>2 DEF Init, TypeOK, InStep
<1>6. ClientInv
  BY <1>2, <1>3, <1>4 DEF Init, ClientInv, Returned, Pending
<1>7. ServerInv
  BY <1>1, <1>2, <1>3 DEF Init, ServerInv, Returned, HasDeCipher
<1>8. RelayInv
  BY DEF Init, RelayInv, HeaderUnderstood
<1> QED BY <1>5, <1>6, <1>7, <1>8 DEF IInv, Init, Available

-----------------------------------------------------------------------------
(* The client's steps.  None of them touches the server.                   *)

LEMMA ServerUntouched ==
    ASSUME IInv, UNCHANGED <<to, iv, server>>
    PROVE  ServerInv' /\ RelayInv'
<1>1. Stream' = Stream
  BY DEF Stream
<1>2. ServerInv'
  BY <1>1 DEF IInv, ServerInv, server, HasDeCipher
<1>3. RelayInv'
  BY <1>1 DEF IInv, RelayInv, HeaderUnderstood, server, relay
<1> QED BY <1>2, <1>3

LEMMA encryptKeeps == ASSUME IInv, encrypt PROVE IInv'
<1>1. PICK n \in 1 .. Len(Stream) - Len(wire) : en' = update(en, n)
  BY DEF encrypt, Encrypt
<1>2. /\ ~en.busy /\ wire' = wire /\ to' = to /\ iv' = iv
      /\ UNCHANGED <<to, iv, server>>
  BY <1>1 DEF encrypt, Encrypt
<1>3. /\ en \in Ciphers /\ iv \in Words /\ InStep(en, iv) /\ wire \in Seq(Encrypted)
      /\ Stream \in Seq(Bytes) /\ Position(en) = Len(wire)
  BY <1>2, StreamType DEF IInv, TypeOK, ClientInv, Returned
<1>4. n \in Nat /\ Len(wire) + n <= Len(Stream)
  BY <1>3
<1>5. InStep(en', iv)
  BY <1>1, <1>3, <1>4, UpdateInStep
<1>6. /\ en' \in Ciphers /\ en'.xored = <<>> /\ en'.total = en.total + Len(en.xored)
      /\ en'.length = n /\ en'.busy = TRUE
  BY <1>1, <1>3, <1>4, UpdateFields
<1>7. en'.total = Len(wire) /\ Position(en') = Len(wire)
  BY <1>3, <1>6 DEF Position, Ciphers
<1>8. Stream' = Stream
  BY <1>2 DEF Stream
<1>9. ClientInv'
  BY <1>2, <1>4, <1>5, <1>6, <1>7, <1>8 DEF IInv, ClientInv, Returned, Pending
<1>10. TypeOK'
  BY <1>2, <1>6 DEF IInv, TypeOK, server, relay
<1>11. (read <= Available)'
  BY <1>2 DEF IInv, Available, server
<1> QED BY <1>2, <1>9, <1>10, <1>11, ServerUntouched DEF IInv

LEMMA EncryptRoundKeeps == ASSUME IInv, EncryptRound PROVE IInv'
<1>1. /\ Loops(en) /\ en' = Round(en) /\ wire' = wire /\ to' = to /\ iv' = iv
      /\ UNCHANGED <<to, iv, server>>
  BY DEF EncryptRound
<1>2. en \in Ciphers /\ iv \in Words /\ InStep(en, iv)
  BY DEF IInv, TypeOK, ClientInv
<1>3. InStep(en', iv) /\ Position(en') = Position(en) + delta(en)
  BY <1>1, <1>2, RoundInStep
<1>4. /\ en'.busy /\ en'.total = en.total /\ en'.length = en.length - delta(en)
      /\ en.busy /\ delta(en) \in Nat
  BY <1>1, <1>2, <1>3, RoundFields DEF Loops
<1>5. Position(en') + Pending(en') = Position(en) + Pending(en)
  <2>1. Position(en) \in Nat /\ en.length \in Nat
    BY <1>2 DEF Ciphers, Position
  <2> QED BY <1>3, <1>4, <2>1 DEF Pending
<1>6. Stream' = Stream
  BY <1>1 DEF Stream
<1>7. ClientInv'
  BY <1>1, <1>3, <1>4, <1>5, <1>6 DEF IInv, ClientInv, Returned, Pending
<1>8. TypeOK'
  BY <1>1, <1>3 DEF IInv, TypeOK, InStep, server, relay
<1>9. (read <= Available)'
  BY <1>1 DEF IInv, Available, server
<1> QED BY <1>1, <1>7, <1>8, <1>9, ServerUntouched DEF IInv

LEMMA EncryptReturnsKeeps == ASSUME IInv, EncryptReturns PROVE IInv'
<1> DEFINE n == Len(en'.xored)
           p == Len(wire)
           piece == [i \in 1 .. n |-> [plain |-> Stream[p + i], key |-> en'.xored[i]]]
<1>1. /\ Ends(en) /\ en' = Rest(en) /\ to' = to /\ iv' = iv
      /\ UNCHANGED <<to, iv, server>> /\ wire' = wire \o piece
  BY DEF EncryptReturns
<1>2. /\ en \in Ciphers /\ iv \in Words /\ InStep(en, iv) /\ wire \in Seq(Encrypted)
      /\ Stream \in Seq(Bytes)
      /\ Position(en) + Pending(en) <= Len(Stream)
      /\ en.busy /\ en.total = p /\ Pending(en) = en.length
  BY <1>1, StreamType DEF IInv, TypeOK, ClientInv, Ends, Returned, Pending
<1>3. /\ InStep(en', iv) /\ ~en'.busy /\ en'.total = p
      /\ Position(en') = Position(en) + en.length
  BY <1>1, <1>2, RestInStep
<1>4. /\ en' \in Ciphers /\ n \in Nat /\ p \in Nat /\ en'.xored \in Seq(KeyBytes)
      /\ \A i \in 1 .. n : en'.xored[i] = KeyByte(iv, p + (i - 1))
  BY <1>2, <1>3 DEF InStep, FollowsKeyStream, Ciphers
<1>5. Position(en') = p + n /\ p + n <= Len(Stream)
  BY <1>2, <1>3, <1>4 DEF Position
<1>6. piece \in Seq(Encrypted) /\ Len(piece) = n
  <2>1. ASSUME NEW i \in 1 .. n
        PROVE  [plain |-> Stream[p + i], key |-> en'.xored[i]] \in Encrypted
    <3>1. p + i \in 1 .. Len(Stream)
      BY <1>2, <1>4, <1>5
    <3> QED BY <1>2, <1>4, <3>1 DEF Encrypted
  <2> HIDE DEF n
  <2> QED BY <1>4, <2>1
<1>7. \A i \in 1 .. n : piece[i] = [plain |-> Stream[p + i], key |-> KeyByte(iv, p + (i - 1))]
  BY <1>4
<1> HIDE DEF piece
<1>8. /\ wire' \in Seq(Encrypted) /\ Len(wire') = p + n
      /\ \A i \in 1 .. p : wire'[i] = wire[i]
      /\ \A i \in 1 .. n : wire'[p + i] = piece[i]
  BY <1>1, <1>2, <1>6, Joined
<1> HIDE DEF n
<1>9. Stream' = Stream
  BY <1>1 DEF Stream
<1>10. ASSUME NEW i \in 1 .. p + n
       PROVE  wire'[i] = [plain |-> Stream[i], key |-> KeyByte(iv, i - 1)]
  <2>1. CASE i \in 1 .. p
    BY <1>8, <2>1 DEF IInv, ClientInv
  <2>2. CASE i \in p + 1 .. p + n
    <3> DEFINE j == i - p
    <3>1. j \in 1 .. n /\ p + j = i /\ p + (j - 1) = i - 1
      BY <1>4, <2>2
    <3> HIDE DEF j
    <3> QED BY <1>7, <1>8, <3>1
  <2> QED BY <1>4, <2>1, <2>2
<1>11. ClientInv'
  <2>1. Len(wire') = p + n /\ iv' = iv /\ InStep(en', iv')
    BY <1>1, <1>3, <1>8
  <2>2. Returned(en', Len(wire')) /\ Position(en') + Pending(en') = p + n
    BY <1>3, <1>4, <1>5, <2>1 DEF Returned, Pending
  <2>3. \A i \in 1 .. Len(wire') :
          wire'[i] = [plain |-> Stream'[i], key |-> KeyByte(iv', i - 1)]
    BY <1>9, <1>10, <2>1
  <2> QED BY <1>5, <1>9, <2>1, <2>2, <2>3 DEF ClientInv
<1>12. TypeOK'
  BY <1>1, <1>4, <1>8 DEF IInv, TypeOK, server, relay
<1>13. (read <= Available)'
  <2>1. read' = read /\ read \in Nat /\ read <= Available
    BY <1>1 DEF IInv, TypeOK, server
  <2>2. Len(wire') = p + n /\ (wire # <<>> => p > 0 /\ wire' # <<>>)
    BY <1>2, <1>4, <1>8
  <2>3. Available \in Nat /\ Available' \in Nat /\ Available <= Available'
    BY <1>2, <1>4, <1>8, <2>2, TunnelAssumption DEF Available
  <2> QED BY <2>1, <2>3
<1> QED BY <1>1, <1>11, <1>12, <1>13, ServerUntouched DEF IInv

-----------------------------------------------------------------------------
(* The server's steps.  None of them touches the client.                   *)

LEMMA ClientUntouched ==
    ASSUME IInv, UNCHANGED <<to, iv, client>>
    PROVE  ClientInv' /\ Stream' = Stream /\ Available' = Available
  BY DEF IInv, ClientInv, Stream, Available, client

LEMMA ReadyReadKeeps == ASSUME IInv, ReadyRead PROVE IInv'
<1>1. PICK m \in 1 .. Available - read : read' = read + m /\ Decrypt(m)
  BY DEF ReadyRead
<1>2. /\ ~de.busy /\ UNCHANGED <<to, iv, client>> /\ UNCHANGED <<plain, relay>>
  BY DEF ReadyRead
<1>3. /\ de \in Ciphers /\ iv \in Words /\ read \in Nat /\ plain \in Seq(Data)
      /\ Available \in Nat
      /\ Position(de) = Len(plain) /\ Position(de) \in Nat /\ Len(plain) \in Nat
  <2>1. Available \in Nat
    BY TunnelAssumption DEF IInv, TypeOK, Available
  <2> QED BY <1>2, <2>1 DEF IInv, TypeOK, ServerInv, Returned, Position, Ciphers, Data
<1>4. m \in Nat /\ m > 0 /\ read' \in Nat /\ read' <= Available
  BY <1>1, <1>3
<1>5. Stream' = Stream /\ Available' = Available /\ ClientInv'
  BY <1>2, ClientUntouched
<1>6. IVLength \in Nat \ {0}
  BY TunnelAssumption
<1>7. RelayInv'
  <2>1. CASE HasDeCipher
    <3>1. deCipher' = deCipher
      BY <1>1, <2>1 DEF Decrypt
    <3> QED BY <1>2, <1>5, <3>1 DEF IInv, RelayInv, HeaderUnderstood, relay
  <2>2. CASE ~HasDeCipher
    <3>1. plain = <<>> /\ stage = "INIT"
      BY <2>2 DEF IInv, ServerInv, RelayInv
    <3> QED BY <1>2, <3>1 DEF RelayInv, HeaderUnderstood, relay
  <2> QED BY <2>1, <2>2
<1>8. TypeOK' /\ ServerInv'
  <2>1. CASE HasDeCipher /\ de' = update(de, m) /\ UNCHANGED deCipher
    <3>1. PICK w \in Words : InStep(de, w) /\ (deCipher = "aligned" => w = iv)
      BY DEF IInv, ServerInv
    <3>2. InStep(de', w)
      BY <1>4, <2>1, <3>1, UpdateInStep
    <3>3. /\ de' \in Ciphers /\ de'.xored = <<>> /\ de'.total = de.total + Len(de.xored)
          /\ de'.length = m /\ de'.busy = TRUE
      BY <1>3, <1>4, <2>1, UpdateFields
    <3>4. de'.total = Len(plain) /\ Position(de') = Position(de) /\ Pending(de') = m
      BY <1>3, <3>3 DEF Position, Pending, Ciphers
    <3>5. Returned(de', Len(plain))
      BY <3>3, <3>4 DEF Returned
    <3>6. deCipher = "aligned" => read' = IVLength + Position(de') + Pending(de')
      <4> SUFFICES ASSUME deCipher = "aligned"
                   PROVE  read' = IVLength + Position(de') + Pending(de')
        OBVIOUS
      <4>1. read = IVLength + Position(de) + Pending(de) /\ Pending(de) = 0
        BY <1>2 DEF IInv, ServerInv, Pending
      <4> QED BY <1>1, <1>3, <1>4, <1>6, <3>4, <4>1
    <3>7. ServerInv'
      BY <1>2, <1>5, <2>1, <3>1, <3>2, <3>5, <3>6 DEF IInv, ServerInv, HasDeCipher
    <3>8. TypeOK'
      BY <1>2, <1>4, <2>1, <3>3 DEF IInv, TypeOK, client, relay
    <3> QED BY <3>7, <3>8
  <2>2. CASE ~HasDeCipher /\ m < IVLength /\ deCipher' = "lost" /\ UNCHANGED de
    <3>1. ServerInv'
      BY <1>2, <1>5, <2>2 DEF IInv, ServerInv, HasDeCipher
    <3>2. TypeOK'
      BY <1>2, <1>4, <2>2 DEF IInv, TypeOK, client, relay
    <3> QED BY <3>1, <3>2
  <2>3. CASE /\ ~HasDeCipher /\ m >= IVLength
             /\ deCipher' = IF deCipher = "none" THEN "aligned" ELSE "misaligned"
             /\ \E w \in IF deCipher = "none" THEN {iv} ELSE Words :
                   de' = update(setIV(w), m - IVLength)
    <3>1. PICK w \in Words : /\ de' = update(setIV(w), m - IVLength)
                             /\ deCipher = "none" => w = iv
      BY <1>3, <2>3
    <3> DEFINE c == setIV(w)
               k == m - IVLength
    <3>2. k \in Nat
      BY <1>4, <1>6, <2>3
    <3>3. InStep(c, w) /\ c \in Ciphers /\ c.xored = <<>> /\ c.total = 0
      BY FreshInStep DEF InStep
    <3> HIDE DEF c, k
    <3>4. de' = update(c, k)
      BY <3>1 DEF c, k
    <3>5. InStep(de', w)
      BY <3>2, <3>3, <3>4, UpdateInStep
    <3>6. /\ de' \in Ciphers /\ de'.xored = <<>> /\ de'.total = c.total + Len(c.xored)
          /\ de'.length = k /\ de'.busy = TRUE
      BY <3>2, <3>3, <3>4, UpdateFields
    <3>7. de'.total = 0 /\ Position(de') = 0 /\ Pending(de') = k
      BY <3>3, <3>6 DEF Position, Pending
    <3>8. plain = <<>> /\ (deCipher = "none" => read = 0)
      BY <2>3 DEF IInv, ServerInv
    <3>9. Returned(de', Len(plain))
      BY <3>6, <3>7, <3>8 DEF Returned
    <3>10. deCipher' = "aligned" => w = iv /\ read' = IVLength + Position(de') + Pending(de')
      BY <1>1, <1>4, <1>6, <2>3, <3>1, <3>7, <3>8 DEF k
    <3>11. HasDeCipher' /\ deCipher' # "none"
      BY <2>3 DEF HasDeCipher
    <3>12. ServerInv'
      BY <1>2, <3>5, <3>8, <3>9, <3>10, <3>11 DEF ServerInv
    <3>13. TypeOK'
      BY <1>2, <1>4, <2>3, <3>6 DEF IInv, TypeOK, client, relay
    <3> QED BY <3>12, <3>13
  <2> QED BY <1>1, <2>1, <2>2, <2>3 DEF Decrypt
<1> QED BY <1>4, <1>5, <1>7, <1>8 DEF IInv

LEMMA DecryptRoundKeeps == ASSUME IInv, DecryptRound PROVE IInv'
<1>1. /\ Loops(de) /\ de' = Round(de) /\ UNCHANGED <<to, iv, client>>
      /\ UNCHANGED <<read, deCipher, plain, relay>>
  BY DEF DecryptRound
<1>2. PICK w \in Words : InStep(de, w) /\ (deCipher = "aligned" => w = iv)
  BY DEF IInv, ServerInv
<1>3. de \in Ciphers
  BY DEF IInv, TypeOK
<1>4. InStep(de', w) /\ Position(de') = Position(de) + delta(de) /\ de' \in Ciphers
  BY <1>1, <1>2, RoundInStep DEF InStep
<1>5. /\ de'.busy /\ de'.total = de.total /\ de'.length = de.length - delta(de)
      /\ de.busy /\ delta(de) \in Nat
  BY <1>1, <1>2, RoundFields DEF Loops
<1>6. Position(de') + Pending(de') = Position(de) + Pending(de)
  <2>1. Position(de) \in Nat /\ de.length \in Nat
    BY <1>3 DEF Ciphers, Position
  <2> QED BY <1>4, <1>5, <2>1 DEF Pending
<1>7. Stream' = Stream /\ Available' = Available /\ ClientInv'
  BY <1>1, ClientUntouched
<1>8. ServerInv'
  <2>1. deCipher = "aligned" => read = IVLength + Position(de') + Pending(de')
    <3>1. /\ Position(de) \in Nat /\ Pending(de) \in Nat
          /\ Position(de') \in Nat /\ Pending(de') \in Nat
      BY <1>3, <1>4 DEF Ciphers, Position, Pending
    <3>2. IVLength \in Nat
      BY TunnelAssumption
    <3>3. deCipher = "aligned" => read = IVLength + Position(de) + Pending(de)
      BY DEF IInv, ServerInv
    <3> QED BY <1>6, <3>1, <3>2, <3>3
  <2>2. Returned(de', Len(plain))
    BY <1>5 DEF IInv, ServerInv, Returned
  <2>3. HasDeCipher' = HasDeCipher /\ HasDeCipher
    BY <1>1, <1>5 DEF IInv, ServerInv, HasDeCipher
  <2> QED BY <1>1, <1>2, <1>4, <1>7, <2>1, <2>2, <2>3 DEF IInv, ServerInv
<1>9. RelayInv'
  BY <1>1, <1>7 DEF IInv, RelayInv, HeaderUnderstood, relay
<1>10. TypeOK'
  BY <1>1, <1>4 DEF IInv, TypeOK, client, relay
<1> QED BY <1>1, <1>7, <1>8, <1>9, <1>10 DEF IInv

(* What the end of update() hands to the relay: the next bytes of the      *)
(* stream, or noise.                                                       *)
Handed ==
    [i \in 1 .. Len(de'.xored) |->
        Xor(wire[read - IVLength - Len(de'.xored) + i], de'.xored[i])]

LEMMA NextBytes ==
    ASSUME IInv, DecryptReturns
    PROVE  LET n == Len(de'.xored)
               k == Len(plain)
               data == Handed
           IN  /\ n \in Nat /\ k \in Nat
               /\ data \in Seq(Data) /\ Len(data) = n
               /\ Position(de') = k + n /\ ~de'.busy /\ de' \in Ciphers
               /\ Position(de') = Position(de) + Pending(de)
               /\ \E w \in Words : InStep(de', w) /\ (deCipher = "aligned" => w = iv)
               /\ deCipher # "aligned" => \A i \in 1 .. n : data[i] = Noise
               /\ deCipher = "aligned" =>
                     /\ k + n <= Len(Stream) /\ data \in Seq(Bytes)
                     /\ \A i \in 1 .. n : data[i] = Stream[k + i]
<1> DEFINE n == Len(de'.xored)
           k == Len(plain)
           data == Handed
<1>0. data = [i \in 1 .. n |-> Xor(wire[read - IVLength - n + i], de'.xored[i])]
  BY DEF Handed
<1>8. n = Len(de'.xored) /\ k = Len(plain)
  OBVIOUS
<1> HIDE DEF n, k, data
<1>1. Ends(de) /\ de' = Rest(de) /\ de.busy /\ UNCHANGED <<to, iv, client, read, deCipher>>
  BY DEF DecryptReturns, Ends
<1>2. PICK w \in Words : InStep(de, w) /\ (deCipher = "aligned" => w = iv)
  BY DEF IInv, ServerInv
<1>3. /\ InStep(de', w) /\ ~de'.busy /\ de'.total = de.total
      /\ Position(de') = Position(de) + de.length
  BY <1>1, <1>2, RestInStep
<1>4. /\ de \in Ciphers /\ de' \in Ciphers /\ de.total = k /\ Pending(de) = de.length
      /\ n \in Nat /\ k \in Nat /\ de'.xored \in Seq(KeyBytes)
      /\ \A i \in 1 .. n : de'.xored[i] = KeyByte(w, k + (i - 1))
  <2>1. /\ de \in Ciphers /\ de' \in Ciphers /\ de.total = k /\ Pending(de) = de.length
    BY <1>1, <1>3, <1>8 DEF IInv, TypeOK, ServerInv, Returned, Pending, InStep
  <2>2. n \in Nat /\ k \in Nat /\ de'.xored \in Seq(KeyBytes)
    BY <1>8, <2>1 DEF IInv, TypeOK, Ciphers
  <2>3. \A i \in 1 .. n : de'.xored[i] = KeyByte(w, k + (i - 1))
    BY <1>3, <1>8, <2>1 DEF InStep, FollowsKeyStream
  <2> QED BY <2>1, <2>2, <2>3
<1>5. Position(de') = k + n /\ Position(de') = Position(de) + Pending(de)
  BY <1>3, <1>4, <1>8 DEF Position
<1>6. ASSUME deCipher # "aligned"
      PROVE  /\ \A i \in 1 .. n : data[i] = Noise
             /\ data \in Seq(Data) /\ Len(data) = n
  <2>1. \A i \in 1 .. n : data[i] = Noise
    BY <1>0, <1>4, <1>6 DEF Xor
  <2>2. data \in Seq(Data) /\ Len(data) = n
    <3>1. data = [i \in 1 .. n |-> Noise]
      BY <1>0, <1>6 DEF Xor
    <3>2. Noise \in Data
      BY DEF Data
    <3> QED BY <1>4, <3>1, <3>2
  <2> QED BY <2>1, <2>2
<1>7. ASSUME deCipher = "aligned"
      PROVE  /\ k + n <= Len(Stream) /\ data \in Seq(Bytes)
             /\ data \in Seq(Data) /\ Len(data) = n
             /\ \A i \in 1 .. n : data[i] = Stream[k + i]
  <2>1. read - IVLength - n = k /\ k + n <= Len(wire)
    <3>1. read = IVLength + Position(de) + Pending(de) /\ read <= Available
      BY <1>7 DEF IInv, ServerInv
    <3>2. Available = IF wire = <<>> THEN 0 ELSE IVLength + Len(wire)
      BY DEF Available
    <3>3. /\ IVLength \in Nat /\ IVLength > 0 /\ Len(wire) \in Nat
          /\ Position(de) \in Nat /\ Pending(de) \in Nat
      BY <1>4, TunnelAssumption DEF IInv, TypeOK, Position, Ciphers
    <3>4. read = IVLength + (k + n)
      <4>1. Position(de) + Pending(de) = k + n
        BY <1>5
      <4> QED BY <3>1, <3>3, <4>1
    <3>5. k \in Nat /\ n \in Nat
      BY <1>4
    <3> HIDE DEF k, n
    <3>6. read - IVLength - n = k
      BY <3>3, <3>4, <3>5
    <3>7. wire # <<>>
      BY <3>1, <3>2, <3>3, <3>4, <3>5
    <3>8. IVLength + (k + n) <= IVLength + Len(wire)
      BY <3>1, <3>2, <3>4, <3>7
    <3> QED BY <3>3, <3>5, <3>6, <3>8
  <2>2. /\ Len(wire) <= Len(Stream) /\ wire \in Seq(Encrypted) /\ Stream \in Seq(Bytes)
        /\ \A i \in 1 .. Len(wire) :
              wire[i] = [plain |-> Stream[i], key |-> KeyByte(iv, i - 1)]
    BY StreamType DEF IInv, TypeOK, ClientInv
  <2>3. k + n <= Len(Stream)
    BY <1>4, <2>1, <2>2
  <2>4. ASSUME NEW i \in 1 .. n
        PROVE  /\ data[i] = Stream[k + i] /\ Stream[k + i] \in Bytes
               /\ Xor(wire[read - IVLength - n + i], de'.xored[i]) = Stream[k + i]
    <3>1. k + i \in 1 .. Len(wire) /\ k + i \in 1 .. Len(Stream) /\ k + (i - 1) = (k + i) - 1
      BY <1>4, <2>1, <2>2, <2>3
    <3>2. wire[k + i] = [plain |-> Stream[k + i], key |-> KeyByte(iv, (k + i) - 1)]
      BY <2>2, <3>1
    <3>3. de'.xored[i] = KeyByte(iv, (k + i) - 1)
      BY <1>2, <1>4, <1>7, <3>1
    <3>4. Xor(wire[k + i], de'.xored[i]) = Stream[k + i]
      BY <1>7, <3>2, <3>3 DEF Xor
    <3>5. data[i] = Xor(wire[read - IVLength - n + i], de'.xored[i])
      BY <1>0
    <3> QED BY <2>1, <2>2, <3>1, <3>4, <3>5
  <2>5. data = [i \in 1 .. n |-> Stream[k + i]]
    BY <1>0, <2>4
  <2>6. data \in Seq(Bytes) /\ Len(data) = n
    <3>1. data \in [1 .. n -> Bytes]
      BY <2>4, <2>5
    <3> QED BY <1>4, <3>1, Listed
  <2>7. data \in Seq(Data)
    BY <2>6 DEF Data
  <2> QED BY <2>3, <2>4, <2>6, <2>7
<1>9. \E v \in Words : InStep(de', v) /\ (deCipher = "aligned" => v = iv)
  BY <1>2, <1>3
<1> QED BY <1>3, <1>4, <1>5, <1>6, <1>7, <1>9 DEF n, k, data

(* The relay on its first bytes.                                           *)
LEMMA FirstBytes ==
    ASSUME IInv, NEW data \in Seq(Data), Len(data) >= 1,
           HandleStageAddr(data), to' = to, deCipher' = deCipher, plain' = data,
           deCipher # "aligned" => data[1] = Noise,
           deCipher = "aligned" =>
              /\ Len(data) <= Len(Stream) /\ data \in Seq(Bytes)
              /\ \A i \in 1 .. Len(data) : data[i] = Stream[i]
    PROVE  /\ stage' \in {"DNS", "DESTROYED"} /\ first' = Len(data)
           /\ forwarded' \in Seq(Data)
           /\ HeaderUnderstood'
<1> DEFINE N == Len(data)
           p == packAddress(to)
           h == Len(p)
<1>1. N \in Nat /\ N >= 1 /\ first' = N /\ forwarded \in Seq(Data)
  BY DEF HandleStageAddr, IInv, TypeOK, Data
<1>2. PICK header \in IF data[1] = Noise THEN Garbage(N) ELSE {parseHeader(data)} :
        \/ header.header_length = 0 /\ stage' = "DESTROYED" /\ UNCHANGED <<dest, forwarded>>
        \/ /\ header.header_length > 0 /\ stage' = "DNS" /\ dest' = header.dest
           /\ forwarded' = SubSeq(data, header.header_length + 1, N)
  BY DEF HandleStageAddr
<1>3. ASSUME NEW l \in Nat PROVE SubSeq(data, l + 1, N) \in Seq(Data)
  BY <1>1, PieceOf
<1>4. CASE deCipher # "aligned"
  <2>1. header.header_length \in Nat
    BY <1>1, <1>2, <1>4 DEF Garbage
  <2>2. HeaderUnderstood'
    BY <1>4 DEF HeaderUnderstood
  <2> QED BY <1>1, <1>2, <1>3, <2>1, <2>2
<1>5. CASE deCipher = "aligned"
  <2>1. /\ IsAddress(to) /\ p \in Seq(Bytes) /\ Stream \in Seq(Bytes) /\ Payload \in Seq(Bytes)
        /\ Stream = p \o Payload /\ h \in Nat
    BY StreamType, TunnelAssumption DEF IInv, TypeOK, Stream
  <2>2. header = parseHeader(data)
    <3>1. data[1] \in Bytes
      BY <1>1, <1>5
    <3>2. \A b \in Bytes : b # Noise
      BY DEF Noise, Bytes
    <3>3. data[1] # Noise
      BY <3>1, <3>2
    <3> QED BY <1>2, <3>3
  <2>3. /\ header.header_length = 0 => N < h
        /\ header.header_length # 0 =>
              /\ header.header_length = h
              /\ header.dest.type = to.type /\ header.dest.host = to.host
              /\ N >= h => header.dest.port = to.port
              /\ N < h => to.type = HOST /\ N >= h - 2
    BY <1>1, <1>5, <2>1, <2>2, HeaderOfPrefix
  <2>4. CASE header.header_length = 0
    <3>1. stage' = "DESTROYED" /\ forwarded' = forwarded /\ N < h
      BY <1>2, <2>3, <2>4
    <3> QED BY <1>1, <3>1 DEF HeaderUnderstood
  <2>5. CASE header.header_length # 0
    <3>1. /\ stage' = "DNS" /\ dest' = header.dest /\ header.header_length = h
          /\ forwarded' = SubSeq(data, h + 1, N)
      BY <1>2, <2>3, <2>5
    <3>2. forwarded' \in Seq(Data)
      BY <1>3, <2>1, <3>1
    <3>3. forwarded' = SubSeq(Stream, (IF N < h THEN N ELSE h) + 1, N)
      <4>1. SubSeq(data, h + 1, N) = SubSeq(Stream, h + 1, N)
        BY <1>5, <2>1, SamePiece
      <4>2. CASE N < h
        <5> HIDE DEF h
        <5>1. SubSeq(data, h + 1, N) = <<>>
          BY <1>1, <2>1, <4>2, EmptyPiece
        <5>2. SubSeq(Stream, N + 1, N) = <<>>
          BY <1>1, <1>5, <2>1, EmptyPiece
        <5> QED BY <3>1, <4>2, <5>1, <5>2
      <4>3. CASE ~(N < h)
        BY <3>1, <4>1, <4>3
      <4> QED BY <4>2, <4>3
    <3> HIDE DEF N, h
    <3>4. /\ dest'.type = to.type /\ dest'.host = to.host
          /\ first' >= h => dest'.port = to.port
          /\ first' < h => to.type = HOST /\ first' >= h - 2
      BY <1>1, <2>3, <2>5, <3>1
    <3>5. Stream' = Stream /\ h' = h /\ Len(plain') = N
      BY DEF Stream, h, N
    <3>6. forwarded' = SubSeq(Stream, (IF first' < h THEN first' ELSE h) + 1, Len(plain'))
      BY <1>1, <3>3, <3>5
    <3>7. HeaderUnderstood'
      BY <3>1, <3>4, <3>5, <3>6 DEF HeaderUnderstood, h
    <3> QED BY <1>1, <3>1, <3>2, <3>7 DEF N
  <2> QED BY <2>4, <2>5
<1> QED BY <1>4, <1>5

LEMMA DecryptReturnsKeeps == ASSUME IInv, DecryptReturns PROVE IInv'
<1> DEFINE n == Len(de'.xored)
           k == Len(plain)
           data == Handed
<1>1. /\ UNCHANGED <<to, iv, client, read, deCipher>>
      /\ plain' = plain \o data
      /\ \/ data = <<>> /\ UNCHANGED relay
         \/ data # <<>> /\ stage = "INIT" /\ HandleStageAddr(data)
         \/ /\ data # <<>> /\ stage = "DNS"
            /\ forwarded' = forwarded \o data /\ UNCHANGED <<stage, first, dest>>
      /\ de.busy
  BY DEF DecryptReturns, Ends, Handed
<1>2. /\ n \in Nat /\ k \in Nat /\ data \in Seq(Data) /\ Len(data) = n
      /\ Position(de') = k + n /\ ~de'.busy /\ de' \in Ciphers
      /\ Position(de') = Position(de) + Pending(de)
      /\ \E w \in Words : InStep(de', w) /\ (deCipher = "aligned" => w = iv)
      /\ deCipher # "aligned" => \A i \in 1 .. n : data[i] = Noise
      /\ deCipher = "aligned" =>
            /\ k + n <= Len(Stream) /\ data \in Seq(Bytes)
            /\ \A i \in 1 .. n : data[i] = Stream[k + i]
  BY NextBytes
<1> HIDE DEF data, n
<1>3. /\ plain \in Seq(Data) /\ forwarded \in Seq(Data) /\ read \in Nat
      /\ Stream \in Seq(Bytes)
  BY StreamType DEF IInv, TypeOK, Data
<1>4. /\ plain' \in Seq(Data) /\ Len(plain') = k + n
      /\ \A i \in 1 .. k : plain'[i] = plain[i]
      /\ \A i \in 1 .. n : plain'[k + i] = data[i]
  <2>1. plain \in Seq(Data) /\ data \in Seq(Data)
    BY <1>2, <1>3
  <2>2. /\ plain \o data \in Seq(Data) /\ Len(plain \o data) = k + n
        /\ \A i \in 1 .. k : (plain \o data)[i] = plain[i]
        /\ \A i \in 1 .. n : (plain \o data)[k + i] = data[i]
    <3>1. Len(data) = n /\ Len(plain) = k
      BY <1>2
    <3>2. /\ plain \o data \in Seq(Data) /\ Len(plain \o data) = Len(plain) + Len(data)
          /\ \A i \in 1 .. Len(plain) : (plain \o data)[i] = plain[i]
          /\ \A i \in 1 .. Len(data) : (plain \o data)[Len(plain) + i] = data[i]
      BY <2>1, Joined
    <3> HIDE DEF k
    <3> QED BY <3>1, <3>2
  <2>3. plain' = plain \o data
    BY <1>1
  <2> HIDE DEF k
  <2> QED BY <2>2, <2>3
<1>5. Stream' = Stream /\ Available' = Available /\ ClientInv'
  BY <1>1, ClientUntouched
<1>6. HasDeCipher /\ HasDeCipher'
  BY <1>1 DEF IInv, ServerInv, HasDeCipher
<1>7. ASSUME deCipher = "aligned", NEW i \in 1 .. k + n PROVE plain'[i] = Stream[i]
  <2>1. CASE i \in 1 .. k
    BY <1>4, <1>7, <2>1 DEF IInv, ServerInv
  <2>2. CASE i \in k + 1 .. k + n
    <3> DEFINE j == i - k
    <3>1. j \in 1 .. n /\ k + j = i
      BY <1>2, <2>2
    <3> HIDE DEF j, k
    <3> QED BY <1>2, <1>4, <1>7, <3>1
  <2> QED BY <1>2, <2>1, <2>2
<1>8. ServerInv'
  <2>1. Returned(de', Len(plain')) /\ Pending(de') = 0
    BY <1>2, <1>4 DEF Returned, Pending
  <2>2. deCipher = "aligned" => read = IVLength + Position(de') + Pending(de')
    <3>1. deCipher = "aligned" => read = IVLength + Position(de) + Pending(de)
      BY DEF IInv, ServerInv
    <3>2. /\ IVLength \in Nat /\ Position(de) \in Nat /\ Pending(de) \in Nat
      BY TunnelAssumption DEF IInv, TypeOK, Position, Pending, Ciphers
    <3>3. /\ Position(de') = Position(de) + Pending(de) /\ Pending(de') = 0
          /\ Position(de') \in Nat
      BY <1>2, <2>1, <3>2
    <3> QED BY <3>1, <3>2, <3>3
  <2>3. deCipher = "aligned" => \A i \in 1 .. Len(plain') : plain'[i] = Stream'[i]
    BY <1>4, <1>5, <1>7
  <2>4. deCipher' # "none"
    BY <1>6 DEF HasDeCipher
  <2> QED BY <1>1, <1>2, <1>6, <2>1, <2>2, <2>3, <2>4 DEF ServerInv
<1>9. /\ RelayInv' /\ forwarded' \in Seq(Data)
      /\ stage' \in {"INIT", "DNS", "DESTROYED"} /\ first' \in Nat
  <2>1. CASE data = <<>> /\ UNCHANGED relay
    <3>1. n = 0
      BY <1>2, <2>1
    <3>2. plain' = plain
      BY <1>3, <1>4, <3>1, SameElements
    <3> QED BY <1>1, <1>3, <1>5, <2>1, <3>2
        DEF IInv, TypeOK, RelayInv, HeaderUnderstood, relay
  <2>2. CASE data # <<>> /\ stage = "INIT" /\ HandleStageAddr(data)
    <3>1. plain = <<>> /\ k = 0
      BY <2>2 DEF IInv, RelayInv
    <3>2. n >= 1
      BY <1>2, <2>2
    <3>3. plain' = data
      BY <1>2, <1>4, <3>1, SameElements
    <3>4. /\ Len(data) >= 1 /\ to' = to /\ deCipher' = deCipher
          /\ deCipher # "aligned" => data[1] = Noise
          /\ deCipher = "aligned" =>
                /\ Len(data) <= Len(Stream) /\ data \in Seq(Bytes)
                /\ \A i \in 1 .. Len(data) : data[i] = Stream[i]
      BY <1>1, <1>2, <3>1, <3>2
    <3>5. /\ stage' \in {"DNS", "DESTROYED"} /\ first' = Len(data)
          /\ forwarded' \in Seq(Data) /\ HeaderUnderstood'
      BY <1>2, <2>2, <3>3, <3>4, FirstBytes
    <3> QED BY <1>2, <3>2, <3>3, <3>5 DEF RelayInv
  <2>3. CASE /\ data # <<>> /\ stage = "DNS"
             /\ forwarded' = forwarded \o data /\ UNCHANGED <<stage, first, dest>>
    <3>1. first \in 1 .. k /\ first' = first /\ stage' = "DNS" /\ dest' = dest
      BY <2>3 DEF IInv, RelayInv
    <3>2. forwarded' \in Seq(Data)
      BY <1>2, <1>3, <2>3, Joined
    <3>3. HeaderUnderstood'
      <4> DEFINE h == Len(packAddress(to))
                 c == IF first < h THEN first ELSE h
      <4> SUFFICES ASSUME deCipher = "aligned" PROVE HeaderUnderstood'
        BY <1>1 DEF HeaderUnderstood
      <4>1. h \in Nat /\ h' = h
        BY <1>1, StreamType DEF IInv, TypeOK
      <4>2. /\ dest.type = to.type /\ dest.host = to.host
            /\ first >= h => dest.port = to.port
            /\ first < h => to.type = HOST /\ first >= h - 2
            /\ forwarded = SubSeq(Stream, c + 1, k)
        BY <2>3 DEF IInv, RelayInv, HeaderUnderstood
      <4>3. c \in Nat /\ c <= k
        BY <1>2, <3>1, <4>1
      <4> HIDE DEF c, h, k
      <4>4. SubSeq(Stream, c + 1, k) \o data = SubSeq(Stream, c + 1, k + Len(data))
        <5>1. /\ Stream \in Seq(Bytes) /\ data \in Seq(Bytes) /\ c \in Nat /\ k \in Nat
              /\ c <= k /\ k + Len(data) <= Len(Stream)
              /\ \A i \in 1 .. Len(data) : data[i] = Stream[k + i]
          BY <1>2, <1>3, <4>3
        <5> QED BY <5>1, LongerPiece
      <4>5. forwarded' = SubSeq(Stream', c + 1, Len(plain'))
        BY <1>2, <1>4, <1>5, <2>3, <4>2, <4>4
      <4> QED BY <1>1, <3>1, <4>1, <4>2, <4>5 DEF HeaderUnderstood, c, h
    <3>4. first' \in 1 .. Len(plain')
      BY <1>2, <1>4, <3>1
    <3> QED BY <3>1, <3>2, <3>3, <3>4 DEF RelayInv
  <2> QED BY <1>1, <2>1, <2>2, <2>3
<1>10. TypeOK'
  BY <1>1, <1>2, <1>4, <1>9 DEF IInv, TypeOK, client, Data
<1> QED BY <1>1, <1>5, <1>8, <1>9, <1>10 DEF IInv

-----------------------------------------------------------------------------
(* The theorems.                                                           *)

LEMMA StepInv == IInv /\ [Next]_vars => IInv'
<1> SUFFICES ASSUME IInv, [Next]_vars PROVE IInv'
  OBVIOUS
<1>1. CASE UNCHANGED vars
  <2>1. UNCHANGED <<to, iv, client>> /\ UNCHANGED <<to, iv, server>>
    BY <1>1 DEF vars
  <2>2. ClientInv' /\ ServerInv' /\ RelayInv' /\ Available' = Available
    BY <2>1, ClientUntouched, ServerUntouched
  <2>3. TypeOK'
    BY <2>1 DEF IInv, TypeOK, client, server, relay
  <2> QED BY <2>1, <2>2, <2>3 DEF IInv, server
<1>2. CASE Next
  BY <1>2, encryptKeeps, EncryptRoundKeeps, EncryptReturnsKeeps, ReadyReadKeeps,
     DecryptRoundKeeps, DecryptReturnsKeeps DEF Next
<1> QED BY <1>1, <1>2

LEMMA Invariant == Spec => []IInv
  BY InitInv, StepInv, PTL DEF Spec

(* Both ciphers, the wire and what the server has made of it have their    *)
(* types.                                                                  *)
THEOREM TunnelTypeCorrect == Spec => []TypeOK
  BY Invariant, InvImplies, PTL

(* However encrypt() calls and segments cut the stream, and wherever the   *)
(* block counter overflows, each side uses the key stream in order, each   *)
(* byte once (chacha.cpp:106, 118-131).                                    *)
THEOREM KeyStreamInOrder == Spec => []KeysInOrder
  BY Invariant, InvImplies, PTL

(* No byte of the key stream encrypts two bytes of a connection, for any   *)
(* IV and as long as the two counter words last: 2^70 bytes in the code    *)
(* (chacha.cpp:106-107).                                                   *)
THEOREM NoKeyByteReused == Spec => []KeyUsedOnce
  BY Invariant, InvImplies, PTL

(* exclusive_or(), though it touches a byte when asked for none, never     *)
(* leaves the block (chacha.cpp:130, common.cpp:121).                      *)
THEOREM NeverPastTheBlock == Spec => []StaysInBuffer
  BY Invariant, InvImplies, PTL

(* A server whose first segment held the IV decrypts what the client       *)
(* encrypted (encryptor.cpp:28-59).                                        *)
THEOREM DecryptsTheStream == Spec => []Deciphered
  BY Invariant, InvImplies, PTL

(* A whole header in the first segment is understood, for any address, and *)
(* nothing of the payload is lost or added (common.cpp:71-113).            *)
THEOREM UnderstandsTheHeader == Spec => []HeaderUnderstood
  BY Invariant, InvImplies, PTL
=============================================================================
