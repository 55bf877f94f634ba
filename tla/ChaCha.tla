------------------------------- MODULE ChaCha -------------------------------
(***************************************************************************)
(* The ChaCha20 stream cipher of lib/chacha.cpp, without its arithmetic: a *)
(* byte is encrypted by XORing it with a byte of the key stream, and that  *)
(* byte is known by the block it comes from and its place there.  A block  *)
(* is known by the two words of m_state that tell the blocks of one key    *)
(* and IV apart, m_state[12] (low) and m_state[13] (high).                 *)
(*                                                                         *)
(* A cipher is a record, an operator a piece of the code that changes one. *)
(* update() is a loop; it is taken apart into its call, one round that     *)
(* uses up the block, and the rest, so that whoever has a cipher can take  *)
(* these as actions.                                                       *)
(***************************************************************************)
EXTENDS Naturals, Sequences

CONSTANTS
    BLOCK,          \* m_buffer.size(): 64 in the code
    WORD            \* the values of a quint32: 2^32 in the code

ASSUME CipherAssumption == BLOCK \in Nat \ {0} /\ WORD \in Nat \ {0}

Words  == 0 .. WORD - 1
Blocks == [low : Words, high : Words]
KeyBytes == [block : Blocks, at : 0 .. BLOCK - 1]

Ciphers ==
    [m_state    : Blocks,           \* the block that chacha() makes next
     m_buffer   : Blocks,           \* the block made last
     m_position : 0 .. BLOCK - 1,   \* how much of it is used
     busy       : BOOLEAN,          \* a call of update() has not returned
     length     : Nat,              \* what that call has still to do
     xored      : Seq(KeyBytes),    \* the key bytes the last call has used
     total      : Nat]              \* how many the calls before it used

NoCarry(block) == [low |-> (block.low + 1) % WORD, high |-> block.high]

(* ++m_state[12]; m_state[13] += (m_state[12] == 0)                        *)
Next32(block) ==
    LET low == (block.low + 1) % WORD
    IN  [low |-> low, high |-> (block.high + (IF low = 0 THEN 1 ELSE 0)) % WORD]

chacha(c) ==
    [c EXCEPT !.m_buffer = c.m_state, !.m_state = Next32(c.m_state), !.m_position = 0]

(* The constructor.  An IV of 12 bytes gives m_state[13] its first word,   *)
(* one of 8 bytes leaves it 0; any other length throws.                    *)
setIV(high) ==
    LET first == [low |-> 0, high |-> high]
    IN  chacha([m_state |-> first, m_buffer |-> first, m_position |-> 0,
                busy |-> FALSE, length |-> 0, xored |-> <<>>, total |-> 0])

delta(c) == BLOCK - c.m_position

exclusive_or(c, n) ==
    [c EXCEPT !.length = @ - n,
              !.xored = @ \o [i \in 1 .. n |->
                                [block |-> c.m_buffer, at |-> c.m_position + (i - 1)]]]

update(c, n) ==
    [c EXCEPT !.busy = TRUE, !.length = n, !.xored = <<>>,
              !.total = c.total + Len(c.xored)]

LoopsTooRarely(c) == c.busy /\ c.length > delta(c)

(* for (delta = ...; length >= delta; delta = ...)                         *)
Loops(c) == c.busy /\ c.length >= delta(c)
Round(c) == chacha(exclusive_or(c, delta(c)))

Ends(c) == c.busy /\ ~Loops(c)
Rest(c) ==
    [exclusive_or(c, c.length) EXCEPT !.m_position = c.m_position + c.length,
                                      !.busy = FALSE]

-----------------------------------------------------------------------------
(* What a cipher must do.                                                  *)

(* Block b of the stream whose first block has the high word h: a counter  *)
(* of two words that starts at h.                                          *)
BlockAt(h, b) == [low |-> b % WORD, high |-> (h + b \div WORD) % WORD]

(* Byte i of that stream.                                                  *)
KeyByte(h, i) == [block |-> BlockAt(h, i \div BLOCK), at |-> i % BLOCK]

Position(c) == c.total + Len(c.xored)

(* The i-th byte given to update(), over all its calls, is XORed with the  *)
(* i-th byte of the key stream, however the input is cut into calls.       *)
FollowsKeyStream(c, h) ==
    \A i \in 1 .. Len(c.xored) : c.xored[i] = KeyByte(h, c.total + (i - 1))

(* exclusive_or() is a do-while loop: asked for no byte it touches one all *)
(* the same.  The key byte it reads is still one of m_buffer, which has to *)
(* hold whenever a round or the rest comes next.                           *)
StaysInBlock(c) ==
    LET n == IF Loops(c) THEN delta(c) ELSE c.length
    IN  c.busy => c.m_position + (IF n = 0 THEN 1 ELSE n) <= BLOCK
=============================================================================
