--------------------------- MODULE MemoryInterface -------------------------
(***************************************************************************)
(* How an access to a block of bytes is split into accesses of bytes,      *)
(* halfwords and blocks of words (memory_interface.py), and a block of     *)
(* words into transactions that do not cross the page within which the     *)
(* MEM-AP increments its address (ap.py).  Sizes are in bytes.             *)
(***************************************************************************)
EXTENDS Integers, Sequences, SequencesExt

Piece(addr, size, count) == [addr |-> addr, size |-> size, count |-> count]

\* What is left of a block after count elements of a size are taken off its front.
Take(block, size, count) ==
  IF count = 0 THEN block
  ELSE [addr   |-> block.addr + size * count,
        left   |-> block.left - size * count,
        pieces |-> Append(block.pieces, Piece(block.addr, size, count))]

\* (A wrong variant of Pieces: what is left after the words is one access.)
PiecesRestAtOnce(addr, length) ==
  LET whole == [addr |-> addr, left |-> length, pieces |-> << >>]
      byte  == Take(whole, 1, IF whole.left > 0 /\ whole.addr % 2 = 1 THEN 1 ELSE 0)
      half  == Take(byte, 2, IF byte.left > 1 /\ byte.addr % 4 >= 2 THEN 1 ELSE 0)
      words == Take(half, 4, half.left \div 4)
  IN Take(words, words.left, IF words.left > 0 THEN 1 ELSE 0).pieces

\* read_memory_block8 and write_memory_block8: the address and the bytes left
\* decide at each of the five stages.
Pieces(addr, length) ==
  LET whole == [addr |-> addr, left |-> length, pieces |-> << >>]
      byte  == Take(whole, 1, IF whole.left > 0 /\ whole.addr % 2 = 1 THEN 1 ELSE 0)
      half  == Take(byte, 2, IF byte.left > 1 /\ byte.addr % 4 >= 2 THEN 1 ELSE 0)
      words == Take(half, 4, half.left \div 4)
      half2 == Take(words, 2, IF words.left > 1 THEN 1 ELSE 0)
      byte2 == Take(half2, 1, IF half2.left > 0 THEN 1 ELSE 0)
  IN byte2.pieces

Smaller(a, b) == IF a < b THEN a ELSE b
Greater(a, b) == IF a < b THEN b ELSE a

\* (A wrong variant of Transactions: the page is not looked at.)
TransactionsUnpaged(addr, count, page) == <<Piece(addr, 4, count)>>

\* _write_memory_block32 and _read_memory_block32: one transaction per page.
Transactions(addr, count, page) ==
  LET end   == addr + 4 * count
      first == addr \div page
  IN [k \in 1..((end - 1) \div page - first + 1) |->
        LET begin == Greater(addr, (first + k - 1) * page)
        IN Piece(begin, 4, (Smaller(end, (first + k) * page) - begin) \div 4)]
=============================================================================
