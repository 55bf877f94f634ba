---------------------------- MODULE ChaChaProofs ----------------------------
(***************************************************************************)
(* Lemmas on the operators of ChaCha.tla, for any size of a block and of a *)
(* counter word: a cipher that is in step with its key stream stays in     *)
(* step, whatever update() is given and however it is cut.                 *)
(***************************************************************************)
EXTENDS ChaCha, TLAPS

-----------------------------------------------------------------------------
(* Arithmetic.                                                             *)

(* Quotient and remainder are unique.                                      *)

LEMMA DivModUnique ==
    ASSUME NEW N \in Nat \ {0}, NEW q \in Nat, NEW r \in Nat, r < N
    PROVE  (q * N + r) \div N = q /\ (q * N + r) % N = r
<1> DEFINE n == q * N + r
           d == n \div N
           m == n % N
<1>1. q * N \in Nat /\ n \in Nat
  OBVIOUS
<1>2. d \in Nat /\ m \in 0 .. N - 1 /\ n = d * N + m
  BY <1>1, SMT
<1>3. (q - d) * N = m - r
  BY <1>1, <1>2, SMT
<1>4. q = d
  BY <1>2, <1>3, SMT
<1> QED BY <1>2, <1>3, <1>4, SMT

(* Counting on by one, in the remainder and in the quotient.               *)
LEMMA NextQuotient ==
    ASSUME NEW N \in Nat \ {0}, NEW n \in Nat
    PROVE  /\ (n + 1) % N = ((n % N) + 1) % N
           /\ (n + 1) \div N = IF (n + 1) % N = 0 THEN n \div N + 1 ELSE n \div N
  BY SMT

(* A number is its quotient and its remainder, and the quotient of one     *)
(* below N * M is below M.                                                 *)
LEMMA Quotient ==
    ASSUME NEW N \in Nat \ {0}, NEW M \in Nat, NEW n \in Nat, n < N * M
    PROVE  /\ n = (n \div N) * N + (n % N)
           /\ n \div N \in 0 .. M - 1 /\ n % N \in 0 .. N - 1
<1> DEFINE d == n \div N
           m == n % N
<1>1. d \in Nat /\ m \in 0 .. N - 1 /\ n = d * N + m
  BY SMT
<1> HIDE DEF d, m
<1>2. d < M
  <2>1. d * N <= n /\ n < M * N
    BY <1>1, SMT
  <2>2. ASSUME d >= M PROVE d * N >= M * N
    BY <1>1, <2>2, SMT
  <2>3. d * N \in Nat /\ M * N \in Nat
    BY <1>1, SMT
  <2> QED BY <1>1, <2>1, <2>2, <2>3
<1>3. d \in 0 .. M - 1
  BY <1>1, <1>2
<1>4. n = d * N + m /\ d \in 0 .. M - 1 /\ m \in 0 .. N - 1
  BY <1>1, <1>3
<1> QED BY <1>4 DEF d, m

(* Adding a constant modulo N tells the numbers below N apart.             *)
LEMMA SameResidue ==
    ASSUME NEW N \in Nat \ {0}, NEW h \in 0 .. N - 1,
           NEW q \in 0 .. N - 1, NEW r \in 0 .. N - 1, (h + q) % N = (h + r) % N
    PROVE  q = r
<1>1. ASSUME NEW t \in 0 .. N - 1
      PROVE  (h + t) % N = IF h + t < N THEN h + t ELSE h + t - N
  <2>1. CASE h + t < N
    <3>1. h + t \in Nat /\ 0 * N + (h + t) = h + t /\ 0 \in Nat
      OBVIOUS
    <3>2. (0 * N + (h + t)) % N = h + t
      BY <2>1, <3>1, DivModUnique
    <3> QED BY <2>1, <3>1, <3>2
  <2>2. CASE ~(h + t < N)
    <3>1. h + t - N \in Nat /\ h + t - N < N /\ 1 * N + (h + t - N) = h + t
      BY <2>2
    <3>2. (1 * N + (h + t - N)) % N = h + t - N
      BY <3>1, DivModUnique
    <3> QED BY <2>2, <3>1, <3>2
  <2> QED BY <2>1, <2>2
<1>2. /\ (h + q) % N = IF h + q < N THEN h + q ELSE h + q - N
      /\ (h + r) % N = IF h + r < N THEN h + r ELSE h + r - N
  BY <1>1
<1>3. (IF h + q < N THEN h + q ELSE h + q - N) = (IF h + r < N THEN h + r ELSE h + r - N)
  BY <1>2
<1> QED BY <1>3

-----------------------------------------------------------------------------
(* The block counter.                                                      *)

LEMMA BlockAtType ==
    ASSUME NEW h \in Words, NEW b \in Nat
    PROVE  BlockAt(h, b) \in Blocks
<1>1. b % WORD \in Words /\ b \div WORD \in Nat
  BY CipherAssumption, SMT DEF Words
<1>2. (h + b \div WORD) % WORD \in Words
  BY <1>1, CipherAssumption, SMT DEF Words
<1> QED BY <1>1, <1>2 DEF BlockAt, Blocks

(* Two words with a carry count like one number.                           *)
LEMMA CounterCounts ==
    ASSUME NEW h \in Words, NEW b \in Nat
    PROVE  Next32(BlockAt(h, b)) = BlockAt(h, b + 1)
<1> DEFINE q == b \div WORD
           low == (b + 1) % WORD
<1>1. q \in Nat /\ h \in Nat
  BY CipherAssumption, SMT DEF Words
<1>2. low = ((b % WORD) + 1) % WORD /\ (b + 1) \div WORD = IF low = 0 THEN q + 1 ELSE q
  BY CipherAssumption, NextQuotient
<1>3. (h + (q + 1)) % WORD = (((h + q) % WORD) + 1) % WORD
  <2>1. h + q \in Nat /\ (h + q) + 1 = h + (q + 1)
    BY <1>1
  <2>2. ((h + q) + 1) % WORD = (((h + q) % WORD) + 1) % WORD
    BY <2>1, CipherAssumption, NextQuotient
  <2> QED BY <2>1, <2>2
<1>4. (((h + q) % WORD) + 0) % WORD = (h + q) % WORD
  BY <1>1, CipherAssumption, SMT
<1>5. CASE low = 0
  BY <1>2, <1>3, <1>5 DEF Next32, BlockAt
<1>6. CASE low # 0
  BY <1>2, <1>4, <1>6 DEF Next32, BlockAt
<1> QED BY <1>5, <1>6

(* The stream, block by block.                                             *)
LEMMA KeyByteInBlock ==
    ASSUME NEW h, NEW b \in Nat, NEW r \in 0 .. BLOCK - 1
    PROVE  KeyByte(h, b * BLOCK + r) = [block |-> BlockAt(h, b), at |-> r]
<1>1. (b * BLOCK + r) \div BLOCK = b /\ (b * BLOCK + r) % BLOCK = r
  BY CipherAssumption, DivModUnique
<1> QED BY <1>1 DEF KeyByte

-----------------------------------------------------------------------------
(* A cipher in step: it is b blocks and m_position bytes into the stream,  *)
(* its buffer holds block b, its counter is at block b + 1, and what the   *)
(* last call used are the key bytes that lead up to here.                  *)
InStepAt(c, h, b) ==
    /\ Position(c) = b * BLOCK + c.m_position
    /\ c.m_buffer = BlockAt(h, b)
    /\ c.m_state = BlockAt(h, b + 1)

InStep(c, h) ==
    /\ c \in Ciphers
    /\ \E b \in Nat : InStepAt(c, h, b)
    /\ FollowsKeyStream(c, h)

(* What the operators that change a record leave in it.                    *)
LEMMA ChachaFields ==
    ASSUME NEW c \in Ciphers, Next32(c.m_state) \in Blocks
    PROVE  /\ chacha(c) \in Ciphers
           /\ chacha(c).m_buffer = c.m_state
           /\ chacha(c).m_state = Next32(c.m_state)
           /\ chacha(c).m_position = 0
           /\ chacha(c).xored = c.xored /\ chacha(c).total = c.total
           /\ chacha(c).length = c.length /\ chacha(c).busy = c.busy
<1> DEFINE s == Next32(c.m_state)
<1>1. s \in Blocks /\ c.m_state \in Blocks /\ 0 \in 0 .. BLOCK - 1
  BY CipherAssumption DEF Ciphers
<1>2. chacha(c) = [c EXCEPT !.m_buffer = c.m_state, !.m_state = s, !.m_position = 0]
  BY DEF chacha
<1> HIDE DEF s
<1>3. chacha(c) \in Ciphers
  BY <1>1, <1>2 DEF Ciphers
<1>4. /\ chacha(c).m_buffer = c.m_state /\ chacha(c).m_state = s
      /\ chacha(c).m_position = 0
      /\ chacha(c).xored = c.xored /\ chacha(c).total = c.total
      /\ chacha(c).length = c.length /\ chacha(c).busy = c.busy
  BY <1>2 DEF Ciphers
<1> QED BY <1>3, <1>4 DEF s

LEMMA UpdateFields ==
    ASSUME NEW c \in Ciphers, NEW n \in Nat
    PROVE  /\ update(c, n) \in Ciphers
           /\ update(c, n).m_buffer = c.m_buffer /\ update(c, n).m_state = c.m_state
           /\ update(c, n).m_position = c.m_position
           /\ update(c, n).xored = <<>> /\ update(c, n).total = c.total + Len(c.xored)
           /\ update(c, n).length = n /\ update(c, n).busy = TRUE
<1> DEFINE t == c.total + Len(c.xored)
<1>1. t \in Nat /\ <<>> \in Seq(KeyBytes)
  BY DEF Ciphers
<1>2. update(c, n) = [c EXCEPT !.busy = TRUE, !.length = n, !.xored = <<>>, !.total = t]
  BY DEF update
<1> HIDE DEF t
<1>3. update(c, n) \in Ciphers
  BY <1>1, <1>2 DEF Ciphers
<1>4. /\ update(c, n).m_buffer = c.m_buffer /\ update(c, n).m_state = c.m_state
      /\ update(c, n).m_position = c.m_position
      /\ update(c, n).xored = <<>> /\ update(c, n).total = t
      /\ update(c, n).length = n /\ update(c, n).busy = TRUE
  BY <1>2 DEF Ciphers
<1> QED BY <1>3, <1>4 DEF t

LEMMA FreshInStep ==
    ASSUME NEW h \in Words
    PROVE  InStep(setIV(h), h) /\ setIV(h).xored = <<>> /\ setIV(h).total = 0 /\ ~setIV(h).busy
<1> DEFINE first == [low |-> 0, high |-> h]
           c == setIV(h)
<1>1. first = BlockAt(h, 0) /\ first \in Blocks
  <2>1. 0 % WORD = 0 /\ 0 \div WORD = 0 /\ 0 \in Words
    BY CipherAssumption, SMT DEF Words
  <2>2. (h + 0) % WORD = h
    BY CipherAssumption, SMT DEF Words
  <2> QED BY <2>1, <2>2 DEF BlockAt, Blocks
<1> DEFINE raw == [m_state |-> first, m_buffer |-> first, m_position |-> 0,
                   busy |-> FALSE, length |-> 0, xored |-> <<>>, total |-> 0]
<1>2. c = chacha(raw)
  BY DEF setIV
<1>3. Next32(first) = BlockAt(h, 0 + 1) /\ BlockAt(h, 0 + 1) \in Blocks
  BY <1>1, CounterCounts, BlockAtType
<1>4. /\ raw \in Ciphers /\ raw.m_state = first /\ raw.xored = <<>>
      /\ raw.total = 0 /\ ~raw.busy
  BY <1>1, CipherAssumption DEF Ciphers
<1> HIDE DEF raw, c, first
<1>5. /\ c \in Ciphers /\ c.m_buffer = first /\ c.m_state = Next32(first)
      /\ c.m_position = 0 /\ c.xored = <<>> /\ c.total = 0 /\ ~c.busy
  BY <1>2, <1>3, <1>4, ChachaFields
<1>6. Position(c) = 0 * BLOCK + c.m_position
  BY <1>5, CipherAssumption DEF Position
<1>7. InStepAt(c, h, 0)
  BY <1>1, <1>3, <1>5, <1>6 DEF InStepAt
<1>8. FollowsKeyStream(c, h)
  BY <1>5 DEF FollowsKeyStream
<1>9. InStep(c, h)
  BY <1>5, <1>7, <1>8 DEF InStep
<1> QED BY <1>5, <1>9 DEF c

(* A call of update() begins.                                              *)
LEMMA UpdateInStep ==
    ASSUME NEW h, NEW c, InStep(c, h), NEW n \in Nat
    PROVE  InStep(update(c, n), h)
<1> DEFINE u == update(c, n)
<1>1. c \in Ciphers
  BY DEF InStep
<1>2. /\ u \in Ciphers /\ u.m_buffer = c.m_buffer /\ u.m_state = c.m_state
      /\ u.m_position = c.m_position /\ u.xored = <<>> /\ u.total = c.total + Len(c.xored)
  BY <1>1, UpdateFields
<1> HIDE DEF u
<1>3. Position(u) = Position(c)
  BY <1>1, <1>2 DEF Ciphers, Position
<1>4. PICK b \in Nat : InStepAt(c, h, b)
  BY DEF InStep
<1>5. InStepAt(u, h, b)
  BY <1>2, <1>3, <1>4 DEF InStepAt
<1>6. FollowsKeyStream(u, h)
  BY <1>2 DEF FollowsKeyStream
<1>7. InStep(u, h)
  BY <1>2, <1>5, <1>6 DEF InStep
<1> QED BY <1>7 DEF u

(* exclusive_or() of n bytes that are left in the block uses the next n of *)
(* the stream.                                                             *)
LEMMA ExclusiveOrFollows ==
    ASSUME NEW h \in Words, NEW c, InStep(c, h), NEW n \in 0 .. delta(c), n <= c.length
    PROVE  LET x == exclusive_or(c, n)
           IN  /\ x \in Ciphers
               /\ Len(x.xored) = Len(c.xored) + n
               /\ FollowsKeyStream(x, h)
               /\ x.m_buffer = c.m_buffer /\ x.m_state = c.m_state
               /\ x.m_position = c.m_position /\ x.total = c.total /\ x.busy = c.busy
<1> DEFINE new == [i \in 1 .. n |-> [block |-> c.m_buffer, at |-> c.m_position + (i - 1)]]
           x == exclusive_or(c, n)
           k == Len(c.xored)
<1>1. c \in Ciphers /\ n \in Nat /\ n <= BLOCK - c.m_position
  BY CipherAssumption DEF InStep, delta, Ciphers
<1> DEFINE ks == c.xored \o new
           l == c.length - n
<1>0. x = [c EXCEPT !.length = l, !.xored = ks]
  BY <1>1 DEF exclusive_or, Ciphers
<1>3. new \in Seq(KeyBytes) /\ Len(new) = n
  BY <1>1, CipherAssumption DEF KeyBytes, Ciphers
<1>4. /\ ks \in Seq(KeyBytes)
      /\ Len(ks) = k + n
      /\ \A i \in 1 .. k : ks[i] = c.xored[i]
      /\ \A i \in k + 1 .. k + n : ks[i] = new[i - k]
  BY <1>1, <1>3 DEF Ciphers
<1>8. l \in Nat
  BY <1>1 DEF Ciphers
<1>20. ASSUME NEW i \in k + 1 .. k + n
       PROVE  ks[i] = [block |-> c.m_buffer, at |-> c.m_position + (i - k - 1)]
  <2>1. i - k \in 1 .. n
    BY <1>1 DEF Ciphers
  <2> QED BY <2>1, <1>4
<1> HIDE DEF x, new, ks, l
<1>2. x \in Ciphers
  BY <1>0, <1>1, <1>4, <1>8 DEF Ciphers
<1>9. /\ x.xored = ks
      /\ x.m_buffer = c.m_buffer /\ x.m_state = c.m_state
      /\ x.m_position = c.m_position /\ x.total = c.total /\ x.busy = c.busy
  BY <1>0, <1>1 DEF Ciphers
<1>5. PICK b \in Nat : InStepAt(c, h, b)
  BY DEF InStep
<1>6. ASSUME NEW i \in 1 .. k + n
      PROVE  x.xored[i] = KeyByte(h, x.total + (i - 1))
  <2>1. CASE i \in 1 .. k
    BY <1>9, <1>4, <2>1 DEF InStep, FollowsKeyStream
  <2>2. CASE i \in k + 1 .. k + n
    <3> DEFINE r == c.m_position + (i - k - 1)
    <3>1. k \in Nat /\ i - k \in 1 .. n
      BY <1>1, <2>2 DEF Ciphers
    <3>2. r \in 0 .. BLOCK - 1
      BY <1>1, <3>1, CipherAssumption DEF Ciphers
    <3>3. x.xored[i] = [block |-> BlockAt(h, b), at |-> r]
      BY <1>9, <1>20, <1>5, <2>2 DEF InStepAt
    <3>4. c.total + (i - 1) = b * BLOCK + r
      <4> DEFINE start == b * BLOCK
      <4>1. c.total + k = start + c.m_position
        BY <1>5 DEF InStepAt, Position
      <4>2. start \in Nat /\ c.total \in Nat /\ c.m_position \in Nat
        BY <1>1, CipherAssumption DEF Ciphers
      <4>3. i \in Nat /\ k \in Nat
        BY <3>1, <1>1, <2>2
      <4> HIDE DEF start, k
      <4>4. c.total + (i - 1) = start + r
        BY <4>1, <4>2, <4>3
      <4> QED BY <4>4 DEF start
    <3>5. KeyByte(h, b * BLOCK + r) = [block |-> BlockAt(h, b), at |-> r]
      BY <3>2, KeyByteInBlock
    <3> QED BY <1>9, <3>3, <3>4, <3>5
  <2> QED BY <2>1, <2>2, <1>1 DEF Ciphers
<1>7. FollowsKeyStream(x, h)
  BY <1>9, <1>4, <1>6 DEF FollowsKeyStream
<1> QED BY <1>2, <1>4, <1>7, <1>9 DEF x

(* A round of the loop uses up the block and makes the next one.           *)
LEMMA RoundInStep ==
    ASSUME NEW h \in Words, NEW c, InStep(c, h), Loops(c)
    PROVE  InStep(Round(c), h) /\ Position(Round(c)) = Position(c) + delta(c)
<1> DEFINE n == delta(c)
           x == exclusive_or(c, n)
           d == Round(c)
<1>1. c \in Ciphers /\ n \in 1 .. BLOCK /\ n <= c.length /\ n = BLOCK - c.m_position
  BY CipherAssumption DEF InStep, delta, Ciphers, Loops
<1>2. /\ x \in Ciphers /\ Len(x.xored) = Len(c.xored) + n /\ FollowsKeyStream(x, h)
      /\ x.m_state = c.m_state /\ x.total = c.total
  <2>1. n \in 0 .. delta(c) /\ n <= c.length
    BY <1>1
  <2> QED BY <2>1, ExclusiveOrFollows
<1>3. d = chacha(x)
  BY DEF Round
<1>4. PICK b \in Nat : InStepAt(c, h, b)
  BY DEF InStep
<1> HIDE DEF x
<1>5. /\ x.m_state = BlockAt(h, b + 1) /\ BlockAt(h, (b + 1) + 1) \in Blocks
      /\ Next32(BlockAt(h, b + 1)) = BlockAt(h, (b + 1) + 1)
  <2>1. x.m_state = BlockAt(h, b + 1)
    BY <1>2, <1>4 DEF InStepAt
  <2>2. b + 1 \in Nat /\ (b + 1) + 1 \in Nat
    OBVIOUS
  <2>3. BlockAt(h, (b + 1) + 1) \in Blocks
    BY <2>2, BlockAtType
  <2>4. Next32(BlockAt(h, b + 1)) = BlockAt(h, (b + 1) + 1)
    BY <2>2, CounterCounts
  <2> QED BY <2>1, <2>3, <2>4
<1>7. /\ d \in Ciphers /\ d.m_buffer = BlockAt(h, b + 1)
      /\ d.m_state = BlockAt(h, (b + 1) + 1)
      /\ d.m_position = 0 /\ d.xored = x.xored /\ d.total = c.total
  BY <1>2, <1>3, <1>5, ChachaFields
<1> HIDE DEF d
<1>8. Position(d) = (b + 1) * BLOCK + 0 /\ Position(d) = Position(c) + n
  <2>1. Position(c) = b * BLOCK + c.m_position /\ Position(c) \in Nat
    BY <1>1, <1>4 DEF InStepAt, Position, Ciphers
  <2>2. Position(d) = Position(c) + n
    BY <1>1, <1>2, <1>7 DEF Position, Ciphers
  <2>3. b * BLOCK \in Nat /\ (b + 1) * BLOCK = b * BLOCK + BLOCK
    BY CipherAssumption
  <2>4. c.m_position \in Nat /\ BLOCK \in Nat /\ n = BLOCK - c.m_position
    BY <1>1, CipherAssumption DEF Ciphers
  <2> HIDE DEF n
  <2> QED BY <2>1, <2>2, <2>3, <2>4
<1>9. InStepAt(d, h, b + 1)
  BY <1>7, <1>8 DEF InStepAt
<1>10. FollowsKeyStream(d, h)
  BY <1>2, <1>7 DEF FollowsKeyStream
<1>11. InStep(d, h)
  BY <1>7, <1>9, <1>10 DEF InStep
<1> QED BY <1>8, <1>11 DEF d

(* What a round leaves of the call.                                        *)
LEMMA RoundFields ==
    ASSUME NEW h \in Words, NEW c, InStep(c, h), Loops(c)
    PROVE  /\ Round(c).busy = c.busy /\ Round(c).total = c.total
           /\ Round(c).length = c.length - delta(c)
           /\ delta(c) \in Nat
<1> DEFINE n == delta(c)
           x == exclusive_or(c, n)
<1>1. c \in Ciphers /\ n \in 1 .. BLOCK /\ n <= c.length
  BY CipherAssumption DEF InStep, delta, Ciphers, Loops
<1>2. x \in Ciphers /\ x.m_state = c.m_state /\ x.total = c.total /\ x.busy = c.busy
  <2>1. n \in 0 .. delta(c) /\ n <= c.length
    BY <1>1
  <2> QED BY <2>1, ExclusiveOrFollows
<1>3. x.length = c.length - n
  BY <1>1 DEF exclusive_or, Ciphers
<1>4. PICK b \in Nat : InStepAt(c, h, b)
  BY DEF InStep
<1>5. Next32(x.m_state) \in Blocks
  <2>1. Next32(BlockAt(h, b + 1)) = BlockAt(h, (b + 1) + 1)
    BY CounterCounts
  <2>2. BlockAt(h, (b + 1) + 1) \in Blocks
    BY BlockAtType
  <2> QED BY <1>2, <1>4, <2>1, <2>2 DEF InStepAt
<1>6. Round(c) = chacha(x)
  BY DEF Round
<1> HIDE DEF x
<1> QED BY <1>1, <1>2, <1>3, <1>5, <1>6, ChachaFields

(* The rest of the call.                                                   *)
LEMMA RestInStep ==
    ASSUME NEW h \in Words, NEW c, InStep(c, h), Ends(c)
    PROVE  /\ InStep(Rest(c), h) /\ ~Rest(c).busy
           /\ Position(Rest(c)) = Position(c) + c.length
           /\ Rest(c).total = c.total
<1> DEFINE n == c.length
           x == exclusive_or(c, n)
           d == Rest(c)
<1>1. c \in Ciphers /\ n \in Nat /\ n < BLOCK - c.m_position /\ n \in 0 .. delta(c)
  BY CipherAssumption DEF InStep, delta, Ciphers, Ends, Loops
<1>2. /\ x \in Ciphers /\ Len(x.xored) = Len(c.xored) + n /\ FollowsKeyStream(x, h)
      /\ x.m_buffer = c.m_buffer /\ x.m_state = c.m_state /\ x.total = c.total
  <2>1. n \in 0 .. delta(c) /\ n <= c.length
    BY <1>1
  <2> QED BY <2>1, ExclusiveOrFollows
<1>3. d = [x EXCEPT !.m_position = c.m_position + n, !.busy = FALSE]
  BY DEF Rest
<1>4. PICK b \in Nat : InStepAt(c, h, b)
  BY DEF InStep
<1>5. c.m_position + n \in 0 .. BLOCK - 1
  BY <1>1, CipherAssumption DEF Ciphers
<1> HIDE DEF x, d
<1>6. d \in Ciphers
  BY <1>2, <1>3, <1>5 DEF Ciphers
<1>7. /\ d.m_buffer = c.m_buffer /\ d.m_state = c.m_state
      /\ d.m_position = c.m_position + n /\ d.xored = x.xored /\ d.total = c.total
      /\ ~d.busy
  BY <1>2, <1>3 DEF Ciphers
<1>8. Position(d) = b * BLOCK + d.m_position /\ Position(d) = Position(c) + n
  <2>1. Position(c) = b * BLOCK + c.m_position
    BY <1>4 DEF InStepAt
  <2>2. Position(d) = Position(c) + n
    BY <1>1, <1>2, <1>7 DEF Position, Ciphers
  <2>3. b * BLOCK \in Nat /\ c.m_position \in Nat /\ n \in Nat
    BY <1>1, CipherAssumption DEF Ciphers
  <2> HIDE DEF n
  <2> QED BY <2>1, <2>2, <2>3, <1>7
<1>9. InStepAt(d, h, b)
  BY <1>4, <1>7, <1>8 DEF InStepAt
<1>10. FollowsKeyStream(d, h)
  BY <1>2, <1>7 DEF FollowsKeyStream
<1>11. InStep(d, h)
  BY <1>6, <1>9, <1>10 DEF InStep
<1> QED BY <1>7, <1>8, <1>11 DEF d

(* In step, a cipher has a byte left in its block at any time, so that not *)
(* even an exclusive_or() of no byte reads past it.                        *)
LEMMA InStepStaysInBlock ==
    ASSUME NEW h, NEW c, InStep(c, h)
    PROVE  StaysInBlock(c)
<1>1. c.m_position \in 0 .. BLOCK - 1 /\ c.length \in Nat /\ c.busy \in BOOLEAN
  BY DEF InStep, Ciphers
<1>2. CASE Loops(c)
  BY <1>1, <1>2, CipherAssumption DEF StaysInBlock, delta
<1>3. CASE ~Loops(c)
  BY <1>1, <1>3, CipherAssumption DEF StaysInBlock, Loops, delta
<1> QED BY <1>2, <1>3

(* Of the reference KeyByte: a stream whose counter carries does not share *)
(* a key byte with itself before the counter has gone through both words,  *)
(* wherever the high word starts.                                          *)
LEMMA StreamNeverRepeats ==
    ASSUME NEW h \in Words, NEW i \in Nat, NEW j \in Nat,
           i < BLOCK * (WORD * WORD), j < BLOCK * (WORD * WORD),
           KeyByte(h, i) = KeyByte(h, j)
    PROVE  i = j
<1> DEFINE a == i \div BLOCK
           b == j \div BLOCK
<1>1. WORD \in Nat \ {0} /\ BLOCK \in Nat \ {0} /\ WORD * WORD \in Nat
  BY CipherAssumption
<1>2. /\ i = a * BLOCK + (i % BLOCK) /\ j = b * BLOCK + (j % BLOCK)
      /\ a \in 0 .. WORD * WORD - 1 /\ b \in 0 .. WORD * WORD - 1
  <2> DEFINE M == WORD * WORD
  <2>1. M \in Nat /\ i < BLOCK * M /\ j < BLOCK * M
    BY <1>1
  <2> HIDE DEF M
  <2>2. /\ i = a * BLOCK + (i % BLOCK) /\ j = b * BLOCK + (j % BLOCK)
        /\ a \in 0 .. M - 1 /\ b \in 0 .. M - 1
    BY <1>1, <2>1, Quotient
  <2> QED BY <2>2 DEF M
<1>3. i % BLOCK = j % BLOCK /\ BlockAt(h, a) = BlockAt(h, b)
  BY DEF KeyByte
<1> HIDE DEF a, b
<1>4. a % WORD = b % WORD /\ (h + a \div WORD) % WORD = (h + b \div WORD) % WORD
  BY <1>3 DEF BlockAt
<1>5. a \in Nat /\ b \in Nat /\ a < WORD * WORD /\ b < WORD * WORD
  <2> DEFINE M == WORD * WORD
  <2>1. M \in Nat /\ a \in 0 .. M - 1 /\ b \in 0 .. M - 1
    BY <1>1, <1>2
  <2> HIDE DEF M
  <2>2. a \in Nat /\ b \in Nat /\ a < M /\ b < M
    BY <2>1
  <2> QED BY <2>2 DEF M
<1>6. /\ a = (a \div WORD) * WORD + (a % WORD) /\ b = (b \div WORD) * WORD + (b % WORD)
      /\ a \div WORD \in 0 .. WORD - 1 /\ b \div WORD \in 0 .. WORD - 1
  BY <1>1, <1>5, Quotient
<1>7. a \div WORD = b \div WORD
  BY <1>1, <1>4, <1>6, SameResidue DEF Words
<1>8. a = b
  BY <1>4, <1>6, <1>7
<1> QED BY <1>2, <1>3, <1>8
=============================================================================
