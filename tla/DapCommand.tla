----------------------------- MODULE DapCommand -----------------------------
(***************************************************************************)
(* The packing of register requests into one CMSIS-DAP packet: class       *)
(* _Command of pyocd/probe/pydapaccess/dap_access_cmsis_dap.py.            *)
(*                                                                         *)
(* A command is what the host has decided to put into one packet.  The     *)
(* list of (count, request, data) that the code keeps is abstracted to the *)
(* two counts it derives from it; the words of the list are named by their *)
(* place in the stream of all words ever requested, so that a command is   *)
(* the interval [first, first + readCount + writeCount) of that stream and *)
(* its reads are the interval [firstRead, firstRead + readCount) of the    *)
(* stream of all words ever read.                                          *)
(***************************************************************************)
EXTENDS Integers

CONSTANTS
  ReadRequests,   \* request bytes with the READ bit: one per register
  WriteRequests,  \* request bytes without it
  NoRequest,      \* None, the block request of an empty command
  PacketSize,     \* bytes in a packet, DAP_Info(MAX_PACKET_SIZE)
  MaxCount        \* 255: what the count byte of a DAP_Transfer can hold

Requests == ReadRequests \cup WriteRequests

ASSUME RequestsAssumption ==
  /\ ReadRequests \cap WriteRequests = {}
  /\ NoRequest \notin Requests

\* A packet holds at least one word either way (64 bytes is the least a
\* probe reports), and one request can always be counted.
ASSUME PacketAssumption ==
  /\ PacketSize \in Nat /\ PacketSize >= 9
  /\ MaxCount \in Nat /\ MaxCount >= 1

Command ==
  [first : Nat, firstRead : Nat, readCount : Nat, writeCount : Nat,
   blockAllowed : BOOLEAN, blockRequest : Requests \cup {NoRequest}]

NewCommand(word, readWord) ==
  [first |-> word, firstRead |-> readWord, readCount |-> 0, writeCount |-> 0,
   blockAllowed |-> TRUE, blockRequest |-> NoRequest]

Size(cmd) == cmd.readCount + cmd.writeCount

GetEmpty(cmd) == Size(cmd) = 0

AtMost(a, b) == IF a < b THEN a ELSE b

\* Words that still fit, in a DAP_TransferBlock (header of 5 bytes out and 4
\* back, one request byte for all) or in a DAP_Transfer (3 bytes each way and
\* a request byte per word).
FreeWords(cmd, blockAllowed, isRead) ==
  LET blockSend == PacketSize - 5 - 4 * cmd.writeCount
      blockRecv == PacketSize - 4 - 4 * cmd.readCount
      send == PacketSize - 3 - cmd.readCount - 5 * cmd.writeCount
      recv == PacketSize - 3 - 4 * cmd.readCount
  IN  CASE blockAllowed /\ isRead   -> blockRecv \div 4
        [] blockAllowed /\ ~isRead  -> blockSend \div 4
        [] ~blockAllowed /\ isRead  -> AtMost(send, recv \div 4)
        [] ~blockAllowed /\ ~isRead -> send \div 5

\* (Variants of the next definition, wrong on purpose: without the bound by
\* count, and without asking whether this request keeps the block.)
GetRequestSpaceUncapped(cmd, count, request) ==
  LET size == FreeWords(cmd, cmd.blockAllowed, request \in ReadRequests)
  IN  IF size > 0 THEN size ELSE 0

GetRequestSpaceAsBlock(cmd, count, request) ==
  LET size == AtMost(count, FreeWords(cmd, cmd.blockAllowed, request \in ReadRequests))
  IN  IF size > 0 THEN size ELSE 0

\* How many of count words of a request this command can still take.  A
\* negative number of free words (the command is already too full to become a
\* DAP_Transfer) counts as none.
GetRequestSpace(cmd, count, request) ==
  LET block == cmd.blockAllowed /\ cmd.blockRequest \in {NoRequest, request}
      fits  == AtMost(count, FreeWords(cmd, block, request \in ReadRequests))
      size  == IF block THEN fits ELSE AtMost(MaxCount - Size(cmd), fits)
  IN  IF size > 0 THEN size ELSE 0

GetFull(cmd) == \E isRead \in BOOLEAN : FreeWords(cmd, cmd.blockAllowed, isRead) = 0

Add(cmd, count, request) ==
  LET asRead == IF request \in ReadRequests THEN count ELSE 0
      same == cmd.blockRequest \in {NoRequest, request}
  IN  [cmd EXCEPT !.readCount = @ + asRead,
                  !.writeCount = @ + (count - asRead),
                  !.blockAllowed = @ /\ same,
                  !.blockRequest = IF @ = NoRequest THEN request ELSE @]

(***************************************************************************)
(* The packet can be sent and its answer can come back: neither is longer  *)
(* than PacketSize, the words of a DAP_Transfer can be counted in its one  *)
(* byte, and a DAP_TransferBlock does not mix reads and writes (it has one *)
(* request byte for all).  encode_data writes into a bytearray of exactly  *)
(* that size and asserts the latter.                                       *)
(***************************************************************************)
Encodable(cmd) ==
  /\ cmd.blockAllowed =>
       /\ cmd.readCount = 0 \/ cmd.writeCount = 0
       /\ 5 + 4 * cmd.writeCount <= PacketSize
       /\ 4 + 4 * cmd.readCount <= PacketSize
  /\ ~cmd.blockAllowed =>
       /\ Size(cmd) <= MaxCount
       /\ 3 + cmd.readCount + 5 * cmd.writeCount <= PacketSize
       /\ 3 + 4 * cmd.readCount <= PacketSize
=============================================================================
