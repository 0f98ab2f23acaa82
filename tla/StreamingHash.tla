---------------------------- MODULE StreamingHash ----------------------------
(***************************************************************************)
(* The incremental digest of src/src/appliances/v86/sha256-stream.ts: how  *)
(* chunks of any size become blocks.  The compression function is taken to *)
(* be without collisions, so that a state is the sequence of the blocks    *)
(* compressed into it.  A block has Block bytes (64 in the code), of which *)
(* the last one ends with the length in LengthBytes (8).                   *)
(***************************************************************************)
EXTENDS Integers, Sequences
LOCAL Seqs == INSTANCE SequencesExt

CONSTANTS Block, LengthBytes

ASSUME HashAssumption == Block \in Nat /\ LengthBytes \in 1 .. Block - 1

Mark == 128
Zeros(n) == [i \in 1 .. n |-> 0]

(* The length in bits, with its most significant byte first.                  *)
BitLength(n) ==
  [i \in 1 .. LengthBytes |-> ((8 * n) \div (256 ^ (LengthBytes - i))) % 256]

(* set(s, at): the bytes of s replace those that follow the first `at`.       *)
Put(array, at, s) ==
  [i \in 1 .. Block |-> IF i > at /\ i <= at + Len(s) THEN s[i - at] ELSE array[i]]

Initial == [state |-> <<>>, buffer |-> Zeros(Block), length |-> 0, bytes |-> 0]

Compress(h, block) == [h EXCEPT !.state = Append(@, block)]

(* The buffer is filled and compressed first; whole blocks are compressed     *)
(* where they are; the rest waits at the start of the buffer.                 *)
Update(h, input) ==
  LET room == Block - h.length
      copied == IF h.length = 0 THEN 0 ELSE IF room < Len(input) THEN room ELSE Len(input)
      begun == [h EXCEPT !.bytes = @ + Len(input), !.length = @ + copied,
                         !.buffer = Put(@, h.length, SubSeq(input, 1, copied))]
      ready == IF begun.length < Block THEN begun
               ELSE [Compress(begun, begun.buffer) EXCEPT !.length = 0]
      whole == (Len(input) - copied) \div Block
      offset == copied + whole * Block
      block(i) == SubSeq(input, copied + (i - 1) * Block + 1, copied + i * Block)
      passed == [ready EXCEPT !.state = @ \o [i \in 1 .. whole |-> block(i)]]
      rest == SubSeq(input, offset + 1, Len(input))
  IN  IF rest = <<>> THEN passed
      ELSE [passed EXCEPT !.buffer = Put(@, 0, rest), !.length = Len(rest)]

(* digest(): the mark, and another block if the length does not fit behind it.*)
Digest(h) ==
  LET end == Block - LengthBytes
      marked == Put(h.buffer, h.length, <<Mark>>)
      length == h.length + 1
      padded == Put(marked, length, Zeros(Block - length))
      last(array, from) == Put(Put(array, from, Zeros(end - from)), end, BitLength(h.bytes))
  IN  IF length > end THEN Compress(Compress(h, padded), last(padded, 0)).state
      ELSE Compress(h, last(marked, length)).state

(* sha256Stream: the digest and the size of what arrives in chunks.           *)
Sha256Stream(chunks) ==
  LET h == Seqs!FoldLeft(Update, Initial, chunks) IN [sha256 |-> Digest(h), size |-> h.bytes]

-----------------------------------------------------------------------------
(* The digest by its definition: the message, the mark, as few zeros as make  *)
(* whole blocks, and the length.                                              *)
Sha256(message) ==
  LET n == Len(message) + 1 + LengthBytes
      zeros == CHOOSE z \in 0 .. Block - 1 : (n + z) % Block = 0
      all == message \o <<Mark>> \o Zeros(zeros) \o BitLength(Len(message))
  IN  [i \in 1 .. (n + zeros) \div Block |-> SubSeq(all, (i - 1) * Block + 1, i * Block)]
=============================================================================
