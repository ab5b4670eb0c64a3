------------------------- MODULE DapPipelineProofs --------------------------
(***************************************************************************)
(* For every packet size, packet count, set of requests and way the probe  *)
(* and the USB interface fail: the pipeline's variables keep their types,  *)
(* every packet can be encoded and answered, and what is settled stays.    *)
(*                                                                         *)
(* The second half: when no access to the interface fails, but the probe   *)
(* may refuse what it likes, what is on the wire is what the host expects, *)
(* so that the probe never holds more packets than it can, a read that     *)
(* completes has its own words, the reads are those of DapAccess, and      *)
(* everything requested has been executed when flush returns.              *)
(***************************************************************************)
EXTENDS DapPipeline, SequenceLemmas

-----------------------------------------------------------------------------
(* The inductive invariant.                                                *)

\* Which label may stand directly below which: who calls whom.
MayCall(callee, caller) ==
  \/ callee \in {"send", "put"} /\ caller \in {"fill", "drain"}
  \/ callee \in {"read", "attach"} /\ caller \in {"put", "drain", "get"}
  \/ callee = "fill" /\ caller = "now"
  \/ callee = "drain" /\ caller \in {"now", "get", "defer", "protoPut"}
  \/ callee = "now" /\ caller = "get"
  \/ callee \in {"protoPut", "protoGet"} /\ caller = "protoPut"
  \/ callee = "abortDrain" /\ caller = "abortDrain"

Stacked(labels) == \A i \in 1..Len(labels) - 1 : MayCall(labels[i], labels[i + 1])

\* A read has been called for a command that is there, and a write for one
\* there is room for.
ReadHasCommand == At("read") => commandsToRead # << >>

WritesNext == At("put") \/ (At("attach") /\ Len(todo) >= 2 /\ todo[2] = "put")

HasRoom ==
  /\ Len(commandsToRead) <= MaxPackets
  /\ WritesNext => Len(commandsToRead) < MaxPackets
  /\ At("abortDrain") => Len(todo) <= MaxPackets

\* No command is outstanding where responses are read for something else.
Quiet ==
  At("protoPut") \/ At("protoGet") \/ At("abortDrain") => commandsToRead = << >>

\* Words are left to request only while _write runs.
InWrite ==
  \/ At("fill")
  \/ Len(todo) >= 2 /\ todo[1] \in {"send", "put"} /\ todo[2] = "fill"
  \/ Len(todo) >= 3 /\ todo[1] \in {"read", "attach"} /\ todo[2] = "put" /\ todo[3] = "fill"

Writing == op.left > 0 => op.request \in Requests /\ InWrite

\* Whoever returns or fetches a transfer has one.
HandsOut(labels) == \E i \in 1..Len(labels) : labels[i] \in {"now", "get"}

HasTransfer == HandsOut(todo) => op.transfer \in 1..Len(transfers)

\* Only a protocol command is answered by DAP_ERROR.
RefusalsAreProtocol ==
  \A i \in 1..Len(usbIn) : usbIn[i].status = "DAP_ERROR" => usbIn[i].kind = "OTHER"

Control ==
  Stacked(todo) /\ ReadHasCommand /\ HasRoom /\ Quiet /\ Writing /\ HasTransfer

\* The reads of the commands to read follow each other, the current one last.
ReadsEnd(cmd) == cmd.firstRead + cmd.readCount

CommandsInOrder ==
  \A i \in 1..Len(commandsToRead) :
    /\ ReadsEnd(commandsToRead[i]) =
         IF i = Len(commandsToRead) THEN crntCmd.firstRead ELSE commandsToRead[i + 1].firstRead
    /\ ReadsEnd(commandsToRead[i]) <= crntCmd.firstRead

\* The first word not received, the first one not handed out, and the one
\* after the last that is going to be requested.
NextUnread ==
  IF commandsToRead = << >> THEN crntCmd.firstRead ELSE commandsToRead[1].firstRead
NextUngiven == NextUnread - Len(responseBuf)
ReadsToCome == NextRead + (IF op.request \in ReadRequests THEN op.left ELSE 0)

\* The waiting transfers share out exactly the words from the one to the other.
Wants(i) == transfers[transferList[i]].firstRead
WantsEnd(i) == transfers[transferList[i]].firstRead + transfers[transferList[i]].count

TransfersInOrder ==
  /\ transferList = << >> => NextUngiven = ReadsToCome
  /\ transferList # << >> => Wants(1) = NextUngiven
  /\ \A i \in 1..Len(transferList) :
       WantsEnd(i) = IF i = Len(transferList) THEN ReadsToCome ELSE Wants(i + 1)

Order == CommandsInOrder /\ TransfersInOrder

\* A command can be encoded as it is, and remembers which kind of words a
\* DAP_TransferBlock has.
Fits(cmd) ==
  /\ Encodable(cmd)
  /\ cmd.blockRequest = NoRequest => Size(cmd) = 0
  /\ cmd.blockAllowed /\ cmd.blockRequest \in ReadRequests => cmd.writeCount = 0
  /\ cmd.blockAllowed /\ cmd.blockRequest \in WriteRequests => cmd.readCount = 0

AllFit == Fits(crntCmd) /\ \A i \in 1..Len(commandsToRead) : Encodable(commandsToRead[i])

IInv == TypeOK /\ Control /\ RefusalsAreProtocol /\ Order /\ AllFit

-----------------------------------------------------------------------------
(* Commands and packets.                                                   *)

\* The room in a command, as a number of words.
LEMMA FreeWordsType ==
  ASSUME NEW cmd \in Command, NEW block \in BOOLEAN, NEW isRead \in BOOLEAN
  PROVE  FreeWords(cmd, block, isRead) \in Int
<1> DEFINE r == cmd.readCount
           w == cmd.writeCount
<1>1. r \in Nat /\ w \in Nat /\ PacketSize \in Nat
  BY PacketAssumption DEF Command
<1>2. FreeWords(cmd, block, isRead) \in
        {(PacketSize - 4 - 4 * r) \div 4, (PacketSize - 5 - 4 * w) \div 4,
         PacketSize - 3 - r - 5 * w, (PacketSize - 3 - 4 * r) \div 4,
         (PacketSize - 3 - r - 5 * w) \div 5}
  BY Zenon DEF FreeWords, AtMost
<1> HIDE DEF r, w
<1> QED BY <1>1, <1>2

\* What is added to a command is part of what is left to request.
LEMMA SpaceType ==
  ASSUME NEW cmd \in Command, NEW count \in Nat, NEW request
  PROVE  GetRequestSpace(cmd, count, request) \in 0..count
<1> DEFINE block == cmd.blockAllowed /\ cmd.blockRequest \in {NoRequest, request}
           isRead == request \in ReadRequests
           free == FreeWords(cmd, block, isRead)
<1>1. free \in Int
  <2>1. block \in BOOLEAN
    OBVIOUS
  <2>2. isRead \in BOOLEAN
    OBVIOUS
  <2> HIDE DEF block, isRead
  <2> QED BY <2>1, <2>2, FreeWordsType
<1>2. Size(cmd) \in Nat /\ MaxCount \in Nat
  BY PacketAssumption DEF Command, Size
<1> HIDE DEF block, isRead, free
<1>3. GetRequestSpace(cmd, count, request) =
        LET fits == AtMost(count, free)
            size == IF block THEN fits ELSE AtMost(MaxCount - Size(cmd), fits)
        IN  IF size > 0 THEN size ELSE 0
  BY DEF GetRequestSpace, block, isRead, free
<1> QED BY <1>1, <1>2, <1>3 DEF AtMost

\* Adding words, and starting a new command.
LEMMA AddType ==
  ASSUME NEW cmd \in Command, NEW count \in Nat, NEW request \in Requests \cup {NoRequest}
  PROVE  /\ Add(cmd, count, request) \in Command
         /\ Add(cmd, count, request).first = cmd.first
         /\ Add(cmd, count, request).firstRead = cmd.firstRead
         /\ Size(Add(cmd, count, request)) = Size(cmd) + count
         /\ Add(cmd, count, request).readCount =
              cmd.readCount + (IF request \in ReadRequests THEN count ELSE 0)
         /\ Add(cmd, count, request).writeCount =
              cmd.writeCount + (IF request \in ReadRequests THEN 0 ELSE count)
         /\ Add(cmd, count, request).blockAllowed =
              (cmd.blockAllowed /\ cmd.blockRequest \in {NoRequest, request})
         /\ Add(cmd, count, request).blockRequest =
              IF cmd.blockRequest = NoRequest THEN request ELSE cmd.blockRequest
<1> DEFINE asRead == IF request \in ReadRequests THEN count ELSE 0
           same == cmd.blockRequest \in {NoRequest, request}
           new == Add(cmd, count, request)
<1>1. asRead \in Nat /\ count - asRead \in Nat
  OBVIOUS
<1>2. same \in BOOLEAN
  OBVIOUS
<1>3. count - asRead = IF request \in ReadRequests THEN 0 ELSE count
  OBVIOUS
<1>4. Add(cmd, count, request) =
        [cmd EXCEPT !.readCount = @ + asRead,
                    !.writeCount = @ + (count - asRead),
                    !.blockAllowed = @ /\ same,
                    !.blockRequest = IF @ = NoRequest THEN request ELSE @]
  BY DEF Add
<1> HIDE DEF asRead, same, new
<1>5. new \in Command
  <2>1. /\ cmd.readCount + asRead \in Nat
        /\ cmd.writeCount + (count - asRead) \in Nat
    BY <1>1 DEF Command
  <2>2. (cmd.blockAllowed /\ same) \in BOOLEAN
    OBVIOUS
  <2>3. (IF cmd.blockRequest = NoRequest THEN request ELSE cmd.blockRequest)
          \in Requests \cup {NoRequest}
    BY DEF Command
  <2> QED BY <2>1, <2>2, <2>3, <1>4 DEF Command, new
<1>6. /\ new.first = cmd.first /\ new.firstRead = cmd.firstRead
      /\ new.readCount = cmd.readCount + asRead
      /\ new.writeCount = cmd.writeCount + (count - asRead)
      /\ new.blockAllowed = (cmd.blockAllowed /\ same)
      /\ new.blockRequest = IF cmd.blockRequest = NoRequest THEN request ELSE cmd.blockRequest
  BY <1>4 DEF Command, new
<1>7. Size(new) = Size(cmd) + count
  BY <1>1, <1>6 DEF Command, Size
<1> QED BY <1>3, <1>5, <1>6, <1>7 DEF new, asRead, same

\* A new command is a command, and holds nothing.
LEMMA NewCommandType ==
  ASSUME NEW word \in Nat, NEW readWord \in Nat
  PROVE  /\ NewCommand(word, readWord) \in Command
         /\ NewCommand(word, readWord).first = word
         /\ NewCommand(word, readWord).firstRead = readWord
         /\ NewCommand(word, readWord).readCount = 0
         /\ Size(NewCommand(word, readWord)) = 0
BY DEF NewCommand, Command, Size

\* A new command fits a packet.
LEMMA NewCommandFits ==
  ASSUME NEW word, NEW readWord
  PROVE  Fits(NewCommand(word, readWord))
<1> DEFINE cmd == NewCommand(word, readWord)
<1>1. /\ cmd.readCount = 0 /\ cmd.writeCount = 0
      /\ cmd.blockAllowed = TRUE /\ cmd.blockRequest = NoRequest
  BY DEF NewCommand
<1> HIDE DEF cmd
<1>2. Fits(cmd)
  BY <1>1, PacketAssumption, RequestsAssumption DEF Size, Fits, Encodable
<1> QED BY <1>2 DEF cmd

\* Whatever is added to a command within the space it reports, the packet can
\* still be sent and answered.
LEMMA AddFits ==
  ASSUME NEW cmd \in Command, Fits(cmd), NEW request \in Requests, NEW count \in Nat,
         GetRequestSpace(cmd, count, request) > 0
  PROVE  Fits(Add(cmd, GetRequestSpace(cmd, count, request), request))
<1> DEFINE block == cmd.blockAllowed /\ cmd.blockRequest \in {NoRequest, request}
           isRead == request \in ReadRequests
           free == FreeWords(cmd, block, isRead)
           size == GetRequestSpace(cmd, count, request)
           r == cmd.readCount
           w == cmd.writeCount
           new == Add(cmd, size, request)
<1>1. r \in Nat /\ w \in Nat /\ PacketSize \in Nat /\ PacketSize >= 9 /\ MaxCount \in Nat
  BY PacketAssumption DEF Command
<1>2. size \in Nat /\ size > 0
  BY SpaceType
<1>3. block \in BOOLEAN /\ isRead \in BOOLEAN /\ free \in Int /\ Size(cmd) \in Nat
  <2>1. block \in BOOLEAN
    OBVIOUS
  <2>2. isRead \in BOOLEAN
    OBVIOUS
  <2>3. Size(cmd) \in Nat
    BY DEF Command, Size
  <2> HIDE DEF block, isRead
  <2> QED BY <2>1, <2>2, <2>3, FreeWordsType
<1>4. size <= free /\ (~block => size <= MaxCount - Size(cmd))
  <2> HIDE DEF free, block
  <2>1. size = LET fits == AtMost(count, free)
                   n == IF block THEN fits ELSE AtMost(MaxCount - Size(cmd), fits)
               IN  IF n > 0 THEN n ELSE 0
    BY DEF GetRequestSpace, block, free
  <2> QED BY <1>1, <1>2, <1>3, <2>1 DEF AtMost
<1>5. /\ new.blockAllowed = block
      /\ new.blockRequest = IF cmd.blockRequest = NoRequest THEN request ELSE cmd.blockRequest
      /\ new.readCount = r + (IF isRead THEN size ELSE 0)
      /\ new.writeCount = w + (IF isRead THEN 0 ELSE size)
      /\ Size(new) = Size(cmd) + size
  BY <1>2, AddType
<1>6. Size(cmd) = r + w
  BY DEF Size
<1>7. block => /\ cmd.blockAllowed
               /\ IF isRead THEN w = 0 ELSE r = 0
  BY RequestsAssumption, <1>1, <1>6 DEF Fits, Requests
<1>8. free = CASE block /\ isRead   -> (PacketSize - 4 - 4 * r) \div 4
               [] block /\ ~isRead  -> (PacketSize - 5 - 4 * w) \div 4
               [] ~block /\ isRead  -> AtMost(PacketSize - 3 - r - 5 * w,
                                              (PacketSize - 3 - 4 * r) \div 4)
               [] ~block /\ ~isRead -> (PacketSize - 3 - r - 5 * w) \div 5
  BY DEF FreeWords
<1>9. Encodable(cmd)
  BY DEF Fits
<1> HIDE DEF block, isRead, free, size, r, w, new
<1>10. ASSUME block, isRead PROVE 4 + 4 * (r + size) <= PacketSize
  <2>1. size <= (PacketSize - 4 - 4 * r) \div 4
    BY <1>4, <1>8, <1>10
  <2> QED BY <2>1, <1>1, <1>2
<1>11. ASSUME block, ~isRead PROVE 5 + 4 * (w + size) <= PacketSize
  <2>1. size <= (PacketSize - 5 - 4 * w) \div 4
    BY <1>4, <1>8, <1>11
  <2> QED BY <2>1, <1>1, <1>2
<1>12. ASSUME ~block, isRead
       PROVE  3 + (r + size) + 5 * w <= PacketSize /\ 3 + 4 * (r + size) <= PacketSize
  <2>1. size <= PacketSize - 3 - r - 5 * w /\ size <= (PacketSize - 3 - 4 * r) \div 4
    BY <1>1, <1>2, <1>4, <1>8, <1>12 DEF AtMost
  <2> QED BY <2>1, <1>1, <1>2
<1>13. ASSUME ~block, ~isRead
       PROVE  3 + r + 5 * (w + size) <= PacketSize /\ 3 + 4 * r <= PacketSize
  <2>1. size <= (PacketSize - 3 - r - 5 * w) \div 5
    BY <1>4, <1>8, <1>13
  <2>2. 3 + 4 * r <= PacketSize
    BY <1>1, <1>9 DEF Encodable, r
  <2> QED BY <2>1, <2>2, <1>1, <1>2
<1>14. Encodable(new)
  BY <1>1, <1>2, <1>3, <1>4, <1>5, <1>6, <1>7, <1>10, <1>11, <1>12, <1>13 DEF Encodable
<1>15. block => new.blockRequest = request
  BY <1>5 DEF block
<1>16. /\ new.blockAllowed /\ new.blockRequest \in ReadRequests => new.writeCount = 0
       /\ new.blockAllowed /\ new.blockRequest \in WriteRequests => new.readCount = 0
  BY <1>1, <1>5, <1>7, <1>15, RequestsAssumption DEF isRead
<1>17. new.blockRequest = NoRequest => Size(new) = 0
  BY <1>5, RequestsAssumption
<1> QED BY <1>14, <1>16, <1>17 DEF Fits, new, size

-----------------------------------------------------------------------------
(* Stacks of labels.                                                       *)

\* A call puts its label on the stack; what it stands on may call it.
LEMMA StackedPush ==
  ASSUME NEW s \in Seq(Labels), Stacked(s), NEW x \in Labels,
         s # << >> => MayCall(x, s[1])
  PROVE  /\ <<x>> \o s \in Seq(Labels)
         /\ <<x>> \o s # << >>
         /\ Len(<<x>> \o s) = Len(s) + 1
         /\ Head(<<x>> \o s) = x /\ (<<x>> \o s)[1] = x
         /\ \A i \in 1..Len(s) : (<<x>> \o s)[i + 1] = s[i]
         /\ Stacked(<<x>> \o s)
<1> DEFINE new == <<x>> \o s
<1>1. /\ new \in Seq(Labels) /\ new # << >> /\ Len(new) = Len(s) + 1
      /\ Head(new) = x /\ new[1] = x
      /\ \A i \in 1..Len(s) : new[i + 1] = s[i]
  OBVIOUS
<1>2. Len(s) \in Nat
  OBVIOUS
<1>3. s # << >> => Len(s) >= 1
  OBVIOUS
<1> HIDE DEF new
<1>4. Stacked(new)
  <2> SUFFICES ASSUME NEW i \in 1..Len(new) - 1 PROVE MayCall(new[i], new[i + 1])
    BY DEF Stacked
  <2>1. CASE i = 1
    <3>1. Len(s) >= 1 /\ s # << >>
      BY <2>1, <1>1, <1>2, EmptySeq
    <3>2. new[2] = s[1]
      BY <3>1, <1>1, <1>2
    <3> QED BY <3>1, <3>2, <2>1, <1>1
  <2>2. CASE i > 1
    <3>1. i - 1 \in 1..Len(s) - 1 /\ i - 1 \in 1..Len(s) /\ i \in 1..Len(s)
      BY <2>2, <1>1, <1>2
    <3>2. new[(i - 1) + 1] = s[i - 1] /\ new[i + 1] = s[i]
      BY <3>1, <1>1
    <3>3. MayCall(s[i - 1], s[(i - 1) + 1])
      BY <3>1 DEF Stacked
    <3> QED BY <3>2, <3>3
  <2> QED BY <2>1, <2>2
<1> QED BY <1>1, <1>4 DEF new

\* A return uncovers the caller.
LEMMA StackedPop ==
  ASSUME NEW s \in Seq(Labels), Stacked(s), s # << >>
  PROVE  /\ Tail(s) \in Seq(Labels) /\ Stacked(Tail(s))
         /\ Len(Tail(s)) = Len(s) - 1 /\ Len(s) \in Nat \ {0}
         /\ \A i \in 1..Len(s) - 1 : Tail(s)[i] = s[i + 1]
         /\ s[1] = Head(s) /\ s[1] \in Labels
         /\ Tail(s) # << >> =>
              /\ Len(s) >= 2 /\ Head(Tail(s)) = s[2] /\ Tail(s)[1] = s[2]
              /\ s[2] \in Labels /\ MayCall(s[1], s[2])
<1>1. /\ Tail(s) \in Seq(Labels) /\ Len(Tail(s)) = Len(s) - 1 /\ Len(s) \in Nat \ {0}
      /\ \A i \in 1..Len(s) - 1 : Tail(s)[i] = s[i + 1]
      /\ s[1] = Head(s) /\ s[1] \in Labels
  BY DropHead
<1>2. Tail(s) # << >> => Len(Tail(s)) >= 1
  BY <1>1
<1> DEFINE n == Len(s)
           rest == Tail(s)
<1>3. rest \in Seq(Labels) => (rest # << >> => Head(rest) = rest[1])
  OBVIOUS
<1>4. \A i \in 1..n : s[i] \in Labels
  OBVIOUS
<1> HIDE DEF n, rest
<1>5. rest # << >> => n >= 2 /\ rest[1] = s[2] /\ s[2] \in Labels /\ MayCall(s[1], s[2])
  <2> SUFFICES ASSUME rest # << >>
               PROVE  n >= 2 /\ rest[1] = s[2] /\ s[2] \in Labels /\ MayCall(s[1], s[2])
    OBVIOUS
  <2>1. n >= 2 /\ n \in Nat
    BY <1>1, <1>2 DEF n, rest
  <2>2. 1 \in 1..n - 1 /\ 2 \in 1..n
    BY <2>1
  <2>3. rest[1] = s[1 + 1] /\ MayCall(s[1], s[1 + 1])
    BY <2>2, <1>1 DEF n, rest, Stacked
  <2> QED BY <2>1, <2>2, <2>3, <1>4
<1>6. Stacked(rest)
  <2> SUFFICES ASSUME NEW i \in 1..Len(rest) - 1 PROVE MayCall(rest[i], rest[i + 1])
    BY DEF Stacked
  <2>1. Len(rest) = n - 1 /\ n \in Nat \ {0}
    BY <1>1 DEF n, rest
  <2>2. i \in 1..n - 1 /\ i + 1 \in 1..n - 1
    BY <2>1
  <2>3. rest[i] = s[i + 1] /\ rest[i + 1] = s[(i + 1) + 1] /\ MayCall(s[i + 1], s[(i + 1) + 1])
    BY <2>2, <1>1 DEF n, rest, Stacked
  <2> QED BY <2>3
<1> QED BY <1>1, <1>3, <1>5, <1>6 DEF n, rest

\* Who is still to hand out a transfer after a call or a return.
LEMMA HandsOutPush ==
  ASSUME NEW s \in Seq(Labels), NEW x \in Labels, HandsOut(<<x>> \o s)
  PROVE  x \in {"now", "get"} \/ HandsOut(s)
<1> DEFINE new == <<x>> \o s
<1>1. Len(new) = Len(s) + 1 /\ new[1] = x /\ \A i \in 1..Len(s) : new[i + 1] = s[i]
  OBVIOUS
<1>2. Len(s) \in Nat
  OBVIOUS
<1>3. HandsOut(new)
  OBVIOUS
<1> HIDE DEF new
<1>4. PICK i \in 1..Len(new) : new[i] \in {"now", "get"}
  BY <1>3 DEF HandsOut
<1>5. CASE i = 1
  BY <1>1, <1>4, <1>5
<1>6. CASE i > 1
  <2>1. i - 1 \in 1..Len(s)
    BY <1>1, <1>2, <1>6
  <2>2. new[(i - 1) + 1] = s[i - 1]
    BY <1>1, <2>1
  <2> QED BY <1>4, <2>1, <2>2 DEF HandsOut
<1> QED BY <1>5, <1>6

\* Whoever is still to hand out a transfer after a return was so before it.
LEMMA HandsOutPop ==
  ASSUME NEW s \in Seq(Labels), s # << >>, HandsOut(Tail(s))
  PROVE  HandsOut(s)
<1> DEFINE rest == Tail(s)
<1>1. Len(rest) = Len(s) - 1 /\ \A i \in 1..Len(s) - 1 : rest[i] = s[i + 1]
  BY DropHead
<1>2. Len(s) \in Nat /\ HandsOut(rest)
  OBVIOUS
<1> HIDE DEF rest
<1>3. PICK i \in 1..Len(rest) : rest[i] \in {"now", "get"}
  BY <1>2 DEF HandsOut
<1>4. i + 1 \in 1..Len(s) /\ rest[i] = s[i + 1]
  BY <1>1, <1>2
<1> QED BY <1>3, <1>4 DEF HandsOut

\* A method goes on as another of its labels: whoever may call the one may
\* call the other.
LEMMA StackedSwap ==
  ASSUME NEW s \in Seq(Labels), Stacked(s), s # << >>, NEW x \in Labels,
         \A caller \in Labels : MayCall(s[1], caller) => MayCall(x, caller)
  PROVE  /\ <<x>> \o Tail(s) \in Seq(Labels) /\ <<x>> \o Tail(s) # << >>
         /\ Len(<<x>> \o Tail(s)) = Len(s)
         /\ Head(<<x>> \o Tail(s)) = x /\ (<<x>> \o Tail(s))[1] = x
         /\ \A i \in 2..Len(s) : (<<x>> \o Tail(s))[i] = s[i]
         /\ Stacked(<<x>> \o Tail(s))
         /\ HandsOut(<<x>> \o Tail(s)) => x \in {"now", "get"} \/ HandsOut(s)
<1>1. /\ Tail(s) \in Seq(Labels) /\ Stacked(Tail(s))
      /\ Tail(s) # << >> => Tail(s)[1] = s[2] /\ s[2] \in Labels /\ MayCall(s[1], s[2])
  BY StackedPop
<1>2. Stacked(<<x>> \o Tail(s))
  BY <1>1, StackedPush
<1>3. HandsOut(<<x>> \o Tail(s)) => x \in {"now", "get"} \/ HandsOut(s)
  BY <1>1, HandsOutPush, HandsOutPop
<1> QED BY <1>2, <1>3, ReplaceHead

\* The label on top, by its place.
LEMMA TopLabel ==
  ASSUME NEW s \in Seq(Labels)
  PROVE  /\ Len(s) \in Nat
         /\ s # << >> <=> Len(s) >= 1
         /\ s # << >> => Head(s) = s[1] /\ s[1] \in Labels
         /\ s = << >> => Len(s) = 0
OBVIOUS

\* Two calls at once, the first on top of the second.
LEMMA PushTwo ==
  ASSUME NEW s \in Seq(Labels), NEW x \in Labels, NEW y \in Labels
  PROVE  <<x, y>> \o s = <<x>> \o (<<y>> \o s)
<1> DEFINE two == <<x>> \o <<y>>
           pair == <<x, y>>
<1>1. /\ <<x>> \in Seq(Labels) /\ <<y>> \in Seq(Labels)
      /\ pair \in Seq(Labels) /\ Len(pair) = 2 /\ pair[1] = x /\ pair[2] = y
  OBVIOUS
<1>2. two \in Seq(Labels) /\ Len(two) = 2 /\ two[1] = x /\ two[2] = y
  OBVIOUS
<1> HIDE DEF two, pair
<1>3. two = pair
  <2>1. \A i \in 1..2 : two[i] = pair[i]
    <3>1. \A i \in 1..2 : i = 1 \/ i = 2
      OBVIOUS
    <3> QED BY <3>1, <1>1, <1>2
  <2> QED BY <2>1, <1>1, <1>2, SeqEqual
<1>4. \A a, b \in Seq(Labels) : (a \o b) \o s = a \o (b \o s)
  BY ConcatAssociative
<1>5. two \o s = <<x>> \o (<<y>> \o s)
  BY <1>1, <1>4, Zenon DEF two
<1> QED BY <1>3, <1>5 DEF pair

\* The labels, one by one.
LEMMA LabelsAre ==
  /\ "fill" \in Labels /\ "send" \in Labels /\ "put" \in Labels /\ "read" \in Labels
  /\ "attach" \in Labels /\ "drain" \in Labels /\ "get" \in Labels /\ "defer" \in Labels
  /\ "now" \in Labels /\ "protoPut" \in Labels /\ "protoGet" \in Labels
  /\ "abortDrain" \in Labels
BY DEF Labels

-----------------------------------------------------------------------------
(* The types of what the steps compute.                                    *)

\* The next word's number, a packet and a new command.
LEMMA NextTypes ==
  ASSUME TypeOK
  PROVE  /\ NextWord \in Nat /\ NextRead \in Nat
         /\ crntCmd.firstRead \in Nat /\ crntCmd.readCount \in Nat /\ crntCmd.first \in Nat
         /\ NextRead = crntCmd.firstRead + crntCmd.readCount
         /\ Packet(crntCmd) \in Packets
         /\ NewCommand(NextWord, NextRead) \in Command
<1>1. crntCmd \in Command
  BY DEF TypeOK
<1>2. /\ crntCmd.first \in Nat /\ crntCmd.firstRead \in Nat /\ crntCmd.readCount \in Nat
      /\ Size(crntCmd) \in Nat
  BY <1>1 DEF Command, Size
<1>3. Kind(crntCmd) \in Kinds
  BY DEF Kind, Kinds
<1>4. Packet(crntCmd) \in Packets
  BY <1>2, <1>3 DEF Packet, Packets
<1>5. NextWord \in Nat /\ NextRead \in Nat /\ NextRead = crntCmd.firstRead + crntCmd.readCount
  BY <1>2 DEF NextWord, NextRead
<1> QED BY <1>2, <1>4, <1>5, NewCommandType

\* An abort marks transfers, and changes nothing else about them.
LEMMA FailWaitingType ==
  ASSUME TypeOK, NEW error \in Errors
  PROVE  /\ FailWaiting(error) \in Seq(Transfer)
         /\ Len(FailWaiting(error)) = Len(transfers)
         /\ \A t \in 1..Len(transfers) :
              FailWaiting(error)[t].result = transfers[t].result
              /\ FailWaiting(error)[t].firstRead = transfers[t].firstRead
              /\ FailWaiting(error)[t].count = transfers[t].count
<1> DEFINE n == Len(transfers)
           new == FailWaiting(error)
<1>1. n \in Nat /\ \A t \in 1..n : transfers[t] \in Transfer
  BY DEF TypeOK
<1>2. \A t \in 1..n : /\ [transfers[t] EXCEPT !.error = error] \in Transfer
                      /\ [transfers[t] EXCEPT !.error = error].result = transfers[t].result
                      /\ [transfers[t] EXCEPT !.error = error].firstRead = transfers[t].firstRead
                      /\ [transfers[t] EXCEPT !.error = error].count = transfers[t].count
  BY <1>1 DEF Transfer
<1> HIDE DEF n
<1>3. new = [t \in 1..n |-> IF \E i \in 1..Len(transferList) : transferList[i] = t
                              THEN [transfers[t] EXCEPT !.error = error] ELSE transfers[t]]
  BY DEF FailWaiting, n
<1> HIDE DEF new
<1>4. \A t \in 1..n : /\ new[t] \in Transfer /\ new[t].result = transfers[t].result
                      /\ new[t].firstRead = transfers[t].firstRead
                      /\ new[t].count = transfers[t].count
  <2> SUFFICES ASSUME NEW t \in 1..n
               PROVE  /\ new[t] \in Transfer /\ new[t].result = transfers[t].result
                      /\ new[t].firstRead = transfers[t].firstRead
                      /\ new[t].count = transfers[t].count
    OBVIOUS
  <2>1. new[t] \in {transfers[t], [transfers[t] EXCEPT !.error = error]}
    BY <1>3
  <2> QED BY <2>1, <1>1, <1>2
<1>5. new \in [1..n -> Transfer]
  BY <1>3, <1>4
<1>6. new \in Seq(Transfer) /\ Len(new) = n
  BY <1>1, <1>5
<1> QED BY <1>4, <1>6 DEF new, n

\* The labels of an abort: as many reads as responses are to be ignored.
LEMMA AbortLabels ==
  ASSUME NEW n \in Nat, NEW labels, labels = [i \in 1..n |-> "abortDrain"]
  PROVE  /\ labels \in Seq(Labels) /\ Len(labels) = n
         /\ \A i \in 1..n : labels[i] = "abortDrain"
         /\ Stacked(labels)
<1>1. labels \in [1..n -> Labels]
  BY LabelsAre
<1>2. labels \in Seq(Labels) /\ Len(labels) = n
  BY <1>1
<1>3. \A i \in 1..n : labels[i] = "abortDrain"
  OBVIOUS
<1> QED BY <1>2, <1>3 DEF Stacked, MayCall

\* What a step that aborts everything leaves behind.
LEMMA AbortType ==
  ASSUME TypeOK, NEW error \in Errors, NEW pendingReads \in Nat,
         AbortAllTransfers(error, pendingReads)
  PROVE  /\ transfers' \in Seq(Transfer) /\ Len(transfers') = Len(transfers)
         /\ transferList' = << >> /\ commandsToRead' = << >> /\ responseBuf' = << >>
         /\ transferList' \in Seq(Nat) /\ Len(transferList') = 0
         /\ commandsToRead' \in Seq(Command) /\ responseBuf' \in Seq(Nat)
         /\ crntCmd' \in Command /\ crntCmd' = NewCommand(NextWord, NextRead)
         /\ op' = NoOp /\ op'.left = 0 /\ op'.request = NoRequest /\ op'.transfer = 0
         /\ op' \in [request : Requests \cup {NoRequest}, left : Nat,
                     transfer : 0..Len(transfers)]
         /\ owed' \in Nat /\ raised' \in Errors \cup {NoError}
         /\ todo' \in Seq(Labels) /\ Stacked(todo')
         /\ \A i \in 1..Len(todo') : todo'[i] = "abortDrain"
         /\ error \in TransferErrors => Len(todo') = pendingReads
         /\ error \notin TransferErrors => todo' = << >>
         /\ Len(todo') <= pendingReads
<1>1. transfers' \in Seq(Transfer) /\ Len(transfers') = Len(transfers)
  BY FailWaitingType DEF AbortAllTransfers
<1>2. crntCmd' \in Command /\ crntCmd' = NewCommand(NextWord, NextRead) /\ owed' \in Nat
  BY NextTypes DEF AbortAllTransfers
<1>3. /\ op' = NoOp /\ op'.left = 0 /\ op'.request = NoRequest /\ op'.transfer = 0
      /\ op' \in [request : Requests \cup {NoRequest}, left : Nat, transfer : 0..Len(transfers)]
  <2>1. op' = NoOp /\ Len(transfers) \in Nat
    BY DEF AbortAllTransfers, TypeOK
  <2> QED BY <2>1 DEF NoOp, NoTransfer
<1>4. /\ todo' \in Seq(Labels) /\ Stacked(todo')
      /\ \A i \in 1..Len(todo') : todo'[i] = "abortDrain"
      /\ error \in TransferErrors => Len(todo') = pendingReads
      /\ error \notin TransferErrors => todo' = << >>
      /\ Len(todo') <= pendingReads
  <2>1. CASE error \in TransferErrors
    BY <2>1, AbortLabels DEF AbortAllTransfers
  <2>2. CASE error \notin TransferErrors
    BY <2>2 DEF AbortAllTransfers, Stacked
  <2> QED BY <2>1, <2>2
<1>5. /\ transferList' = << >> /\ commandsToRead' = << >> /\ responseBuf' = << >>
      /\ transferList' \in Seq(Nat) /\ Len(transferList') = 0
      /\ commandsToRead' \in Seq(Command) /\ responseBuf' \in Seq(Nat)
      /\ raised' = error
  BY DEF AbortAllTransfers
<1> QED BY <1>1, <1>2, <1>3, <1>4, <1>5

\* However a response differs from what the command expects, it yields as many
\* words as the command has reads.
LEMMA DecodeType ==
  ASSUME NEW cmd \in Command, NEW response \in Responses
  PROVE  /\ Decode(cmd, response) \in Seq(Nat)
         /\ Len(Decode(cmd, response)) = cmd.readCount
         /\ \A i \in 1..cmd.readCount : Decode(cmd, response)[i] =
              IF i <= response.readCount THEN response.firstRead + i ELSE 0
<1> DEFINE n == cmd.readCount
           words == Decode(cmd, response)
           first == response.firstRead
           count == response.readCount
<1>1. n \in Nat /\ first \in Nat /\ count \in Nat
  BY DEF Command, Responses
<1>2. words = [i \in 1..n |-> IF i <= count THEN first + i ELSE 0]
  BY DEF Decode
<1> HIDE DEF n, words, first, count
<1>3. words \in [1..n -> Nat]
  BY <1>1, <1>2
<1>4. words \in Seq(Nat) /\ Len(words) = n
  BY <1>1, <1>3
<1>5. \A i \in 1..n : words[i] = IF i <= count THEN first + i ELSE 0
  BY <1>2
<1> QED BY <1>4, <1>5 DEF n, words, first, count

\* Every exception of a response is one the callers know.
LEMMA DecodeErrorType ==
  ASSUME NEW cmd \in Command, NEW response \in Responses,
         response.status = "DAP_ERROR" => response.kind = "OTHER"
  PROVE  /\ DecodeError(cmd, response) \in Errors \cup {NoError}
         /\ DecodeError(cmd, response) # NoError
              => DecodeError(cmd, response) \in Errors
<1>1. Kind(cmd) # "OTHER"
  BY DEF Kind
<1>2. response.status \in Statuses
  BY DEF Responses
<1>3. DecodeError(cmd, response) \in {"DeviceError", "ValueError", "TransferError", NoError}
         \/ /\ DecodeError(cmd, response) = response.status
            /\ response.kind = Kind(cmd) /\ response.status \notin {"OK", "UsbError"}
  BY DEF DecodeError
<1>4. response.kind = Kind(cmd) /\ response.status \notin {"OK", "UsbError"}
        => response.status \in TransferErrors
  BY <1>1, <1>2 DEF Statuses
<1> QED BY <1>3, <1>4 DEF Errors, TransferErrors

-----------------------------------------------------------------------------
(* Every step keeps the stack in order.                                    *)

\* What the rest of Control says, by the labels' places.
LEMMA ControlByPlace ==
  ASSUME todo \in Seq(Labels)
  PROVE  /\ \A label : At(label) <=> Len(todo) >= 1 /\ todo[1] = label
         /\ Idle <=> Len(todo) = 0
         /\ Len(todo) \in Nat
BY TopLabel DEF At, Idle

\* To leave the stack alone is fine when the rest does not disturb it.
LEMMA ControlKept ==
  ASSUME IInv, UNCHANGED <<todo, op>>, Len(transfers') = Len(transfers),
         UNCHANGED commandsToRead
  PROVE  Control'
BY DEF IInv, Control, Stacked, ReadHasCommand, HasRoom, WritesNext, Quiet, Writing, InWrite,
       HasTransfer, HandsOut, At

\* Every step leaves a stack of labels that the code's methods can be in, with
\* the commands, the room and the words left that each of them relies on.
LEMMA ControlStep == IInv /\ [Next]_vars => todo' \in Seq(Labels) /\ Control'
<1> SUFFICES ASSUME IInv, [Next]_vars PROVE todo' \in Seq(Labels) /\ Control'
  OBVIOUS
<1> USE LabelsAre
<1>t. todo \in Seq(Labels) /\ Stacked(todo) /\ Len(todo) \in Nat /\ TypeOK /\ Control
  BY TopLabel DEF IInv, TypeOK, Control
<1>p. /\ MaxPackets \in Nat /\ MaxPackets >= 1 /\ Len(commandsToRead) \in Nat
      /\ commandsToRead = << >> <=> Len(commandsToRead) = 0
      /\ Len(transfers) \in Nat /\ op.left \in Nat
  BY <1>t, PipelineAssumption DEF TypeOK
\* To prove Control', its parts by the places of labels.
<1>c. ASSUME todo' \in Seq(Labels), Stacked(todo'),
             Len(todo') >= 1 /\ todo'[1] = "read" => commandsToRead' # << >>,
             Len(commandsToRead') <= MaxPackets,
             Len(todo') >= 1 /\ todo'[1] = "put" => Len(commandsToRead') < MaxPackets,
             Len(todo') >= 2 /\ todo'[1] = "attach" /\ todo'[2] = "put"
               => Len(commandsToRead') < MaxPackets,
             Len(todo') >= 1 /\ todo'[1] = "abortDrain" => Len(todo') <= MaxPackets,
             Len(todo') >= 1 /\ todo'[1] \in {"protoPut", "protoGet", "abortDrain"}
               => commandsToRead' = << >>,
             op'.left > 0 => op'.request \in Requests /\ InWrite',
             HandsOut(todo') => op'.transfer \in 1..Len(transfers')
      PROVE  Control'
  <2>1. \A label : At(label)' <=> Len(todo') >= 1 /\ todo'[1] = label
    BY <1>c, TopLabel DEF At
  <2> QED BY <1>c, <2>1 DEF Control, ReadHasCommand, HasRoom, WritesNext, Quiet, Writing, HasTransfer
<1>w. ASSUME todo' \in Seq(Labels),
             \/ Len(todo') >= 1 /\ todo'[1] = "fill"
             \/ Len(todo') >= 2 /\ todo'[1] \in {"send", "put"} /\ todo'[2] = "fill"
             \/ /\ Len(todo') >= 3 /\ todo'[1] \in {"read", "attach"}
                /\ todo'[2] = "put" /\ todo'[3] = "fill"
      PROVE  InWrite'
  BY <1>w, TopLabel DEF InWrite, At
<1>a. ASSUME todo' = << >>, op'.left = 0, UNCHANGED commandsToRead
      PROVE  todo' \in Seq(Labels) /\ Control'
  BY <1>a, <1>c, <1>t DEF Stacked, HandsOut, Control, HasRoom
<1>i. /\ \A label : At(label) <=> Len(todo) >= 1 /\ todo[1] = label
      /\ Idle <=> Len(todo) = 0
      /\ Len(commandsToRead) <= MaxPackets
      /\ Len(todo) >= 1 /\ todo[1] = "read" => commandsToRead # << >>
      /\ Len(todo) >= 1 /\ todo[1] = "put" => Len(commandsToRead) < MaxPackets
      /\ Len(todo) >= 2 /\ todo[1] = "attach" /\ todo[2] = "put"
           => Len(commandsToRead) < MaxPackets
      /\ Len(todo) >= 1 /\ todo[1] = "abortDrain" => Len(todo) <= MaxPackets
      /\ Len(todo) >= 1 /\ todo[1] \in {"protoPut", "protoGet", "abortDrain"}
           => commandsToRead = << >>
      /\ op.left > 0 =>
           /\ op.request \in Requests
           /\ \/ Len(todo) >= 1 /\ todo[1] = "fill"
              \/ Len(todo) >= 2 /\ todo[1] \in {"send", "put"} /\ todo[2] = "fill"
              \/ /\ Len(todo) >= 3 /\ todo[1] \in {"read", "attach"}
                 /\ todo[2] = "put" /\ todo[3] = "fill"
      /\ HandsOut(todo) => op.transfer \in 1..Len(transfers)
  BY <1>t, ControlByPlace
     DEF Control, ReadHasCommand, HasRoom, WritesNext, Quiet, Writing, InWrite, HasTransfer
\* What the first labels of the stack are after a return, a change and a call.
<1>pop. ASSUME todo # << >>
        PROVE  LET new == Tail(todo)
               IN  /\ new \in Seq(Labels) /\ Stacked(new) /\ Len(new) = Len(todo) - 1
                   /\ \A i \in 1..Len(todo) - 1 : new[i] = todo[i + 1]
                   /\ Len(new) >= 1 => new[1] = todo[2] /\ MayCall(todo[1], new[1])
                   /\ HandsOut(new) => HandsOut(todo)
                   /\ << >> \o new = new
  <2> DEFINE new == Tail(todo)
  <2>1. /\ new \in Seq(Labels) /\ Stacked(new) /\ Len(new) = Len(todo) - 1
        /\ \A i \in 1..Len(todo) - 1 : new[i] = todo[i + 1]
        /\ new # << >> => new[1] = todo[2] /\ MayCall(todo[1], todo[2])
    BY <1>pop, <1>t, StackedPop
  <2>2. HandsOut(new) => HandsOut(todo)
    BY <1>pop, <1>t, HandsOutPop
  <2> HIDE DEF new
  <2>3. Len(new) >= 1 => new # << >>
    BY <2>1, TopLabel
  <2>4. << >> \o new = new
    BY <2>1, ConcatEmptySeq
  <2> QED BY <2>1, <2>2, <2>3, <2>4 DEF new
<1>swap. ASSUME NEW x \in Labels, todo # << >>,
                \A caller \in Labels : MayCall(todo[1], caller) => MayCall(x, caller)
         PROVE  LET new == <<x>> \o Tail(todo)
                IN  /\ new \in Seq(Labels) /\ Stacked(new) /\ Len(new) = Len(todo)
                    /\ new[1] = x /\ \A i \in 2..Len(todo) : new[i] = todo[i]
                    /\ HandsOut(new) => x \in {"now", "get"} \/ HandsOut(todo)
  BY <1>swap, <1>t, StackedSwap
<1>push. ASSUME NEW x \in Labels, NEW s \in Seq(Labels), Stacked(s),
                s # << >> => MayCall(x, s[1])
         PROVE  LET new == <<x>> \o s
                IN  /\ new \in Seq(Labels) /\ Stacked(new) /\ Len(new) = Len(s) + 1
                    /\ new[1] = x /\ \A i \in 1..Len(s) : new[i + 1] = s[i]
                    /\ HandsOut(new) => x \in {"now", "get"} \/ HandsOut(s)
  BY <1>push, StackedPush, HandsOutPush
<1>abort. ASSUME NEW error \in Errors, NEW n \in Nat, AbortAllTransfers(error, n), n <= MaxPackets
          PROVE  todo' \in Seq(Labels) /\ Control'
  <2>1. /\ todo' \in Seq(Labels) /\ Stacked(todo') /\ Len(todo') <= n
        /\ \A i \in 1..Len(todo') : todo'[i] = "abortDrain"
        /\ commandsToRead' = << >> /\ op'.left = 0
    BY <1>abort, <1>t, AbortType
  <2>2. Len(todo') \in Nat /\ (Len(todo') >= 1 => todo'[1] = "abortDrain")
    BY <2>1, TopLabel
  <2>3. ~HandsOut(todo')
    BY <2>1 DEF HandsOut
  <2> QED BY <2>1, <2>2, <2>3, <1>abort, <1>c, <1>p
\* The calls.
<1>l. ASSUME Idle PROVE op.left = 0
  BY <1>l, <1>i, <1>p, <1>t
<1>1. ASSUME NEW request \in WriteRequests, NEW count \in Counts, WriteReg(request, count)
      PROVE  todo' \in Seq(Labels) /\ Control'
  <2>1. todo' = <<"fill">> /\ op'.request = request /\ commandsToRead' = commandsToRead
    BY <1>1 DEF WriteReg, Start, dapVars
  <2>2. /\ todo' \in Seq(Labels) /\ Len(todo') = 1 /\ todo'[1] = "fill" /\ Stacked(todo')
        /\ ~HandsOut(todo')
    BY <2>1 DEF Stacked, HandsOut
  <2> QED BY <2>1, <2>2, <1>c, <1>i, <1>w, RequestsAssumption DEF Requests
<1>2. ASSUME NEW request \in ReadRequests, NEW count \in Counts, NEW now \in BOOLEAN,
             ReadReg(request, count, now)
      PROVE  todo' \in Seq(Labels) /\ Control'
  <2>1. /\ todo' = IF now THEN <<"fill", "now", "get">> ELSE <<"fill", "now">>
        /\ op'.request = request /\ op'.transfer = Len(transfers) + 1
        /\ Len(transfers') = Len(transfers) + 1 /\ commandsToRead' = commandsToRead
    <3>1. transfers \in Seq(Transfer)
      BY <1>t DEF TypeOK
    <3> QED BY <3>1, <1>2 DEF ReadReg, Start
  <2>2. /\ todo' \in Seq(Labels) /\ Len(todo') >= 1 /\ todo'[1] = "fill" /\ Stacked(todo')
    <3>1. CASE now
      BY <2>1, <3>1 DEF Stacked, MayCall
    <3>2. CASE ~now
      BY <2>1, <3>2 DEF Stacked, MayCall
    <3> QED BY <3>1, <3>2
  <2> QED BY <2>1, <2>2, <1>c, <1>i, <1>p, <1>w DEF Requests
<1>3. ASSUME NEW t \in callbacks, GetResult(t)
      PROVE  todo' \in Seq(Labels) /\ Control'
  <2>1. /\ todo' = <<"get">> /\ op'.left = 0 /\ op'.transfer = t
        /\ UNCHANGED <<transfers, commandsToRead>> /\ t \in 1..Len(transfers)
    BY <1>3, <1>t DEF GetResult, Start, dapVars, TypeOK
  <2>2. /\ todo' \in Seq(Labels) /\ Len(todo') = 1 /\ todo'[1] = "get" /\ Stacked(todo')
    BY <2>1 DEF Stacked
  <2> QED BY <2>1, <2>2, <1>c, <1>i
<1>4. ASSUME Flush
      PROVE  todo' \in Seq(Labels) /\ Control'
  <2>1. todo' = <<"send", "drain">> /\ op' = op /\ commandsToRead' = commandsToRead /\ op.left = 0
    BY <1>4, <1>l DEF Flush, Start, dapVars, callVars
  <2>2. /\ todo' \in Seq(Labels) /\ Len(todo') = 2 /\ todo'[1] = "send" /\ Stacked(todo')
        /\ ~HandsOut(todo')
    BY <2>1 DEF Stacked, HandsOut, MayCall
  <2> QED BY <2>1, <2>2, <1>c, <1>i
<1>5. ASSUME NEW enable \in BOOLEAN, SetDeferredTransfer(enable)
      PROVE  todo' \in Seq(Labels) /\ Control'
  <2>1. /\ todo' \in {<<"defer">>, <<"send", "drain", "defer">>}
        /\ op' = op /\ commandsToRead' = commandsToRead /\ op.left = 0
    BY <1>5, <1>l DEF SetDeferredTransfer, Start, dapVars, callVars
  <2>2. /\ todo' \in Seq(Labels) /\ Len(todo') >= 1 /\ todo'[1] \in {"defer", "send"}
        /\ Stacked(todo') /\ ~HandsOut(todo')
    <3>1. CASE todo' = <<"defer">>
      BY <3>1 DEF Stacked, HandsOut
    <3>2. CASE todo' = <<"send", "drain", "defer">>
      BY <3>2 DEF Stacked, HandsOut, MayCall
    <3> QED BY <2>1, <3>1, <3>2
  <2> QED BY <2>1, <2>2, <1>c, <1>i
<1>6. ASSUME NEW commands \in {<<"protoPut">>, <<"protoPut", "protoPut">>}, ProtocolCommand(commands)
      PROVE  todo' \in Seq(Labels) /\ Control'
  <2>1. /\ todo' = <<"send", "drain">> \o commands
        /\ op' = op /\ commandsToRead' = commandsToRead /\ op.left = 0
    BY <1>6, <1>l DEF ProtocolCommand, Start, dapVars, callVars
  <2>2. /\ commands \in Seq(Labels) /\ Stacked(commands) /\ commands # << >>
        /\ commands[1] = "protoPut" /\ ~HandsOut(commands)
    <3>1. CASE commands = <<"protoPut">>
      BY <3>1 DEF Stacked, HandsOut
    <3>2. CASE commands = <<"protoPut", "protoPut">>
      BY <3>2 DEF Stacked, HandsOut, MayCall
    <3> QED BY <3>1, <3>2
  <2>3. todo' = <<"send">> \o (<<"drain">> \o commands)
    BY <2>1, <2>2, PushTwo
  <2> DEFINE s == <<"drain">> \o commands
  <2>4. s \in Seq(Labels) /\ Stacked(s) /\ s[1] = "drain" /\ ~HandsOut(s)
    BY <2>2, <1>push DEF MayCall
  <2> HIDE DEF s
  <2>5. todo' = <<"send">> \o s
    BY <2>3 DEF s
  <2>6. /\ todo' \in Seq(Labels) /\ Stacked(todo') /\ todo'[1] = "send" /\ ~HandsOut(todo')
    BY <2>4, <2>5, <1>push DEF MayCall
  <2> QED BY <2>1, <2>6, <1>c, <1>i
\* The methods those go through.
<1>h. ASSUME NEW label, At(label) PROVE todo # << >> /\ Len(todo) >= 1 /\ todo[1] = label
  BY <1>h, <1>i DEF At
<1>send. ASSUME At("fill"), todo' = <<"send">> \o todo,
                op'.request = op.request, op'.transfer = op.transfer, op.left > 0,
                UNCHANGED <<commandsToRead, transfers>>
         PROVE  todo' \in Seq(Labels) /\ Control'
  <2>1. /\ todo' \in Seq(Labels) /\ Stacked(todo') /\ Len(todo') = Len(todo) + 1
        /\ todo'[1] = "send" /\ \A i \in 1..Len(todo) : todo'[i + 1] = todo[i]
        /\ HandsOut(todo') => HandsOut(todo)
    BY <1>send, <1>h, <1>t, <1>push DEF MayCall
  <2>2. todo'[1 + 1] = "fill"
    BY <2>1, <1>send, <1>h, <1>t
  <2> QED BY <2>2, <2>1, <1>send, <1>c, <1>i, <1>h, <1>t, <1>w
<1>7. ASSUME FillAdd
      PROVE  todo' \in Seq(Labels) /\ Control'
  <2>1. /\ At("fill") /\ op.left > 0 /\ UNCHANGED <<commandsToRead, transfers>>
        /\ todo' = <<"send">> \o todo \/ todo' = todo
    BY <1>7 DEF FillAdd, Call
  <2>2. op'.request = op.request /\ op'.transfer = op.transfer
    BY <1>7, <1>t DEF FillAdd, TypeOK
  <2>3. CASE todo' = todo
    BY <2>1, <2>2, <2>3, <1>c, <1>i, <1>h, <1>t, <1>w
  <2> QED BY <2>1, <2>2, <2>3, <1>send
<1>8. ASSUME FillNoRoom
      PROVE  todo' \in Seq(Labels) /\ Control'
  BY <1>8, <1>send DEF FillNoRoom, Call, dapVars, callVars
<1>9. ASSUME FillEnd
      PROVE  todo' \in Seq(Labels) /\ Control'
  <2>1. /\ At("fill") /\ op.left = 0 /\ UNCHANGED <<commandsToRead, transfers>>
        /\ \/ todo' = << >> \o Tail(todo)
           \/ todo' = <<"send", "drain">> \o Tail(todo)
    BY <1>9 DEF FillEnd, Become, dapVars
  <2>2. op'.left = 0 /\ op'.transfer = op.transfer
    BY <1>9, <1>t, <2>1 DEF FillEnd, TypeOK
  <2>3. todo # << >> /\ todo[1] = "fill"
    BY <2>1, <1>h
  <2>4. CASE todo' = << >> \o Tail(todo)
    <3>1. /\ todo' \in Seq(Labels) /\ Stacked(todo')
          /\ Len(todo') >= 1 => todo'[1] = "now"
          /\ HandsOut(todo') => HandsOut(todo)
      BY <2>3, <2>4, <1>pop DEF MayCall
    <3> QED BY <2>1, <2>2, <3>1, <1>c, <1>i
  <2>5. CASE todo' = <<"send", "drain">> \o Tail(todo)
    <3> DEFINE s == <<"drain">> \o Tail(todo)
    <3>1. todo' = <<"send">> \o s
      BY <2>3, <2>5, <1>pop, PushTwo
    <3>2. /\ s \in Seq(Labels) /\ Stacked(s) /\ s[1] = "drain"
          /\ HandsOut(s) => HandsOut(todo)
      BY <2>3, <1>swap DEF MayCall
    <3> HIDE DEF s
    <3>3. /\ todo' \in Seq(Labels) /\ Stacked(todo') /\ todo'[1] = "send"
          /\ HandsOut(todo') => HandsOut(todo)
      BY <3>1, <3>2, <1>push DEF MayCall
    <3> QED BY <2>1, <2>2, <3>3, <1>c, <1>i
  <2> QED BY <2>1, <2>4, <2>5
<1>10. ASSUME ReturnTransfer
       PROVE  todo' \in Seq(Labels) /\ Control'
  <2>1. /\ At("now") /\ UNCHANGED <<commandsToRead, transfers>> /\ todo' = Tail(todo)
        /\ Tail(todo) # << >> => op' = op
        /\ Tail(todo) = << >> => op' = NoOp
    BY <1>10 DEF ReturnTransfer, Return, dapVars
  <2>2. todo # << >> /\ todo[1] = "now" /\ op.left = 0
    BY <2>1, <1>h, <1>i, <1>p
  <2>3. /\ todo' \in Seq(Labels) /\ Stacked(todo')
        /\ Len(todo') >= 1 => todo'[1] = "get"
        /\ HandsOut(todo') => HandsOut(todo) /\ Tail(todo) # << >>
    BY <2>1, <2>2, <1>pop DEF MayCall, HandsOut
  <2>4. op'.left = 0
    BY <2>1, <2>2 DEF NoOp
  <2> QED BY <2>1, <2>3, <2>4, <1>c, <1>i
<1>11. ASSUME SendPacket
       PROVE  todo' \in Seq(Labels) /\ Control'
  <2>1. /\ At("send") /\ UNCHANGED <<commandsToRead, transfers, op>>
        /\ \/ todo' = << >> \o Tail(todo)
           \/ todo' = <<"read", "put">> \o Tail(todo) /\ Len(commandsToRead) >= MaxPackets
           \/ todo' = <<"put">> \o Tail(todo) /\ ~(Len(commandsToRead) >= MaxPackets)
    BY <1>11 DEF SendPacket, Become, dapVars, callVars
  <2>2. /\ todo # << >> /\ todo[1] = "send"
        /\ op.left > 0 => op.request \in Requests /\ Len(todo) >= 2 /\ todo[2] = "fill"
    BY <2>1, <1>h, <1>i
  <2>3. CASE todo' = << >> \o Tail(todo)
    <3>1. /\ todo' \in Seq(Labels) /\ Stacked(todo') /\ Len(todo') = Len(todo) - 1
          /\ Len(todo') >= 1 => todo'[1] = todo[2] /\ todo'[1] \in {"fill", "drain"}
          /\ HandsOut(todo') => HandsOut(todo)
      BY <2>2, <2>3, <1>pop DEF MayCall
    <3> QED BY <2>1, <2>2, <3>1, <1>c, <1>i, <1>t, <1>w
  <2>4. CASE todo' = <<"put">> \o Tail(todo) /\ ~(Len(commandsToRead) >= MaxPackets)
    <3>1. /\ todo' \in Seq(Labels) /\ Stacked(todo') /\ Len(todo') = Len(todo)
          /\ todo'[1] = "put" /\ \A i \in 2..Len(todo) : todo'[i] = todo[i]
          /\ HandsOut(todo') => HandsOut(todo)
      BY <2>2, <2>4, <1>swap DEF MayCall
    <3>2. op.left > 0 => InWrite'
      BY <2>2, <3>1, <1>t, <1>w
    <3>3. Len(commandsToRead') < MaxPackets /\ Len(commandsToRead') <= MaxPackets
      BY <2>1, <2>4, <1>p
    <3>4. op'.left > 0 => op'.request \in Requests /\ InWrite'
      BY <2>1, <2>2, <3>2
    <3>5. HandsOut(todo') => op'.transfer \in 1..Len(transfers')
      BY <2>1, <3>1, <1>i
    <3> QED BY <3>1, <3>3, <3>4, <3>5, <1>c
  <2>5. CASE todo' = <<"read", "put">> \o Tail(todo) /\ Len(commandsToRead) >= MaxPackets
    <3> DEFINE s == <<"put">> \o Tail(todo)
    <3>1. todo' = <<"read">> \o s
      BY <2>2, <2>5, <1>pop, PushTwo
    <3>2. /\ s \in Seq(Labels) /\ Stacked(s) /\ Len(s) = Len(todo) /\ s # << >>
          /\ s[1] = "put" /\ \A i \in 2..Len(todo) : s[i] = todo[i]
          /\ HandsOut(s) => HandsOut(todo)
      BY <2>2, <1>swap, <1>t, TopLabel DEF MayCall
    <3> HIDE DEF s
    <3>3. /\ todo' \in Seq(Labels) /\ Stacked(todo') /\ Len(todo') = Len(todo) + 1
          /\ todo'[1] = "read" /\ \A i \in 1..Len(todo) : todo'[i + 1] = s[i]
          /\ HandsOut(todo') => HandsOut(todo)
      BY <3>1, <3>2, <1>push DEF MayCall
    <3>4. op.left > 0 => InWrite'
      <4>1. ASSUME op.left > 0 PROVE Len(todo') >= 3 /\ todo'[2] = "put" /\ todo'[3] = "fill"
        <5>1. Len(todo) >= 2 /\ todo[2] = "fill" /\ 1 \in 1..Len(todo) /\ 2 \in 1..Len(todo)
          BY <4>1, <2>2, <1>t
        <5>2. todo'[1 + 1] = s[1] /\ todo'[2 + 1] = s[2] /\ s[2] = todo[2]
          BY <5>1, <3>2, <3>3, <1>t
        <5> QED BY <5>1, <5>2, <3>2, <3>3, <1>t
      <4> QED BY <4>1, <3>3, <1>w
    <3> QED BY <2>1, <2>2, <2>5, <3>3, <3>4, <1>c, <1>i, <1>p
  <2> QED BY <2>1, <2>3, <2>4, <2>5
<1>12. ASSUME SendPacketWrite
       PROVE  todo' \in Seq(Labels) /\ Control'
  <2>1. /\ At("put") /\ UNCHANGED <<transfers, op>> /\ todo' = Tail(todo)
        /\ commandsToRead' = Append(commandsToRead, crntCmd)
    BY <1>12 DEF SendPacketWrite, Return, callVars
  <2>2. /\ todo # << >> /\ todo[1] = "put" /\ Len(commandsToRead) < MaxPackets
        /\ op.left > 0 => op.request \in Requests /\ Len(todo) >= 2 /\ todo[2] = "fill"
    BY <2>1, <1>h, <1>i
  <2>3. Len(commandsToRead') = Len(commandsToRead) + 1
    BY <2>1, <1>t DEF TypeOK
  <2>4. /\ todo' \in Seq(Labels) /\ Stacked(todo') /\ Len(todo') = Len(todo) - 1
        /\ Len(todo') >= 1 => todo'[1] = todo[2] /\ todo'[1] \in {"fill", "drain"}
        /\ HandsOut(todo') => HandsOut(todo)
    BY <2>1, <2>2, <1>pop DEF MayCall
  <2>5. op.left > 0 => InWrite'
    BY <2>2, <2>4, <1>t, <1>w
  <2> QED BY <2>1, <2>2, <2>3, <2>4, <2>5, <1>c, <1>i, <1>p
<1>13. ASSUME SendPacketFails
       PROVE  todo' \in Seq(Labels) /\ Control'
  BY <1>13, <1>abort, <1>p, <1>i DEF SendPacketFails, Errors
<1>14. ASSUME ReadPacket
       PROVE  todo' \in Seq(Labels) /\ Control'
  <2> DEFINE cmd == Head(commandsToRead)
             error == DecodeError(cmd, Head(usbIn))
  <2>1. At("read") /\ usbIn # << >> /\ todo # << >> /\ todo[1] = "read" /\ commandsToRead # << >>
    BY <1>14, <1>h, <1>i DEF ReadPacket
  <2>2. error # NoError => error \in Errors
    <3>1. cmd \in Command
      BY <2>1, <1>t DEF TypeOK
    <3>2. Head(usbIn) \in Responses /\ Head(usbIn) = usbIn[1] /\ 1 \in 1..Len(usbIn)
      BY <2>1, <1>t DEF TypeOK
    <3>3. Head(usbIn).status = "DAP_ERROR" => Head(usbIn).kind = "OTHER"
      BY <3>2 DEF IInv, RefusalsAreProtocol
    <3> HIDE DEF cmd
    <3> QED BY <3>1, <3>2, <3>3, DecodeErrorType
  <2>3. CASE error # NoError /\ AbortAllTransfers(error, Len(commandsToRead) - 1)
    <3> HIDE DEF error
    <3>1. Len(commandsToRead) - 1 \in Nat /\ Len(commandsToRead) - 1 <= MaxPackets
      BY <2>1, <1>p, <1>i
    <3> QED BY <3>1, <2>2, <2>3, <1>abort
  <2>4. CASE /\ error = NoError /\ commandsToRead' = Tail(commandsToRead)
             /\ Become(<<"attach">>) /\ UNCHANGED <<transfers, op>>
    <3>1. todo' = <<"attach">> \o Tail(todo) /\ Len(commandsToRead') = Len(commandsToRead) - 1
      BY <2>1, <2>4, <1>t DEF Become, TypeOK
    <3>2. /\ todo' \in Seq(Labels) /\ Stacked(todo') /\ Len(todo') = Len(todo)
          /\ todo'[1] = "attach" /\ \A i \in 2..Len(todo) : todo'[i] = todo[i]
          /\ HandsOut(todo') => HandsOut(todo)
      BY <2>1, <3>1, <1>swap DEF MayCall
    <3>3. op.left > 0 => InWrite'
      BY <2>1, <3>2, <1>i, <1>t, <1>w
    <3>4. /\ Len(commandsToRead') < MaxPackets /\ Len(commandsToRead') <= MaxPackets
      BY <3>1, <1>i, <1>p
    <3>5. /\ op'.left > 0 => op'.request \in Requests /\ InWrite'
          /\ HandsOut(todo') => op'.transfer \in 1..Len(transfers')
      BY <2>4, <3>2, <3>3, <1>i
    <3> QED BY <3>2, <3>4, <3>5, <1>c
  <2> QED BY <1>14, <2>3, <2>4 DEF ReadPacket
<1>15. ASSUME Attach
       PROVE  todo' \in Seq(Labels) /\ Control'
  <2>1. /\ At("attach") /\ UNCHANGED <<commandsToRead, op>>
        /\ todo' = Tail(todo) \/ todo' = todo
        /\ Len(transfers') = Len(transfers)
    <3>1. transfers \in Seq(Transfer)
      BY <1>t DEF TypeOK
    <3>2. Len([transfers EXCEPT ![Head(transferList)].result =
                 SubSeq(responseBuf, 1, transfers[Head(transferList)].count)]) = Len(transfers)
      BY <3>1
    <3> QED BY <1>15, <3>2 DEF Attach, Return, dapVars, callVars
  <2>2. /\ todo # << >> /\ todo[1] = "attach"
        /\ op.left > 0 => /\ op.request \in Requests
                          /\ Len(todo) >= 3 /\ todo[2] = "put" /\ todo[3] = "fill"
    BY <2>1, <1>h, <1>i
  <2>3. CASE todo' = todo
    <3>1. op.left > 0 => InWrite'
      BY <2>2, <2>3, <1>t, <1>w
    <3> QED BY <2>1, <2>2, <2>3, <3>1, <1>c, <1>i, <1>t
  <2>4. CASE todo' = Tail(todo)
    <3>1. /\ todo' \in Seq(Labels) /\ Stacked(todo') /\ Len(todo') = Len(todo) - 1
          /\ Len(todo') >= 1 => todo'[1] = todo[2] /\ todo'[1] \in {"put", "drain", "get"}
          /\ \A i \in 1..Len(todo) - 1 : todo'[i] = todo[i + 1]
          /\ HandsOut(todo') => HandsOut(todo)
      BY <2>2, <2>4, <1>pop DEF MayCall
    <3>2. op.left > 0 => InWrite'
      <4>1. ASSUME op.left > 0 PROVE Len(todo') >= 2 /\ todo'[1] = "put" /\ todo'[2] = "fill"
        <5>1. 1 \in 1..Len(todo) - 1 /\ 2 \in 1..Len(todo) - 1
          BY <4>1, <2>2, <1>t
        <5> QED BY <4>1, <5>1, <2>2, <3>1, <1>t
      <4> QED BY <4>1, <3>1, <1>w
    <3>3. Len(todo') >= 1 /\ todo'[1] = "put" => Len(commandsToRead') < MaxPackets
      BY <2>1, <2>2, <3>1, <1>i, <1>t
    <3> QED BY <2>1, <2>2, <3>1, <3>2, <3>3, <1>c, <1>i
  <2> QED BY <2>1, <2>3, <2>4
<1>16. ASSUME Drain
       PROVE  todo' \in Seq(Labels) /\ Control'
  <2>1. /\ At("drain") /\ UNCHANGED <<commandsToRead, transfers, op>>
        /\ \/ commandsToRead = << >> /\ todo' = Tail(todo)
           \/ commandsToRead # << >> /\ todo' = <<"read">> \o todo
    BY <1>16 DEF Drain, Return, Call, dapVars, callVars
  <2>2. todo # << >> /\ todo[1] = "drain" /\ op.left = 0
    BY <2>1, <1>h, <1>i, <1>p
  <2>3. CASE commandsToRead = << >> /\ todo' = Tail(todo)
    <3>1. /\ todo' \in Seq(Labels) /\ Stacked(todo')
          /\ Len(todo') >= 1 => todo'[1] \in {"now", "get", "defer", "protoPut"}
          /\ HandsOut(todo') => HandsOut(todo)
      BY <2>2, <2>3, <1>pop DEF MayCall
    <3> QED BY <2>1, <2>2, <2>3, <3>1, <1>c, <1>i
  <2>4. CASE commandsToRead # << >> /\ todo' = <<"read">> \o todo
    <3>1. /\ todo' \in Seq(Labels) /\ Stacked(todo') /\ todo'[1] = "read"
          /\ HandsOut(todo') => HandsOut(todo)
      BY <2>2, <2>4, <1>t, <1>push DEF MayCall
    <3> QED BY <2>1, <2>2, <2>4, <3>1, <1>c, <1>i
  <2> QED BY <2>1, <2>3, <2>4
<1>17. ASSUME GetResultTurn
       PROVE  todo' \in Seq(Labels) /\ Control'
  <2>1. /\ At("get") /\ UNCHANGED <<commandsToRead, transfers>>
        /\ \/ todo' = Tail(todo) \/ todo' = << >>
           \/ commandsToRead # << >> /\ todo' = <<"read">> \o todo
           \/ todo' = <<"send", "drain">> \o todo
        /\ op' = IF todo' = << >> THEN NoOp ELSE op
    BY <1>17 DEF GetResultTurn, Return, Raise, Call, dapVars
  <2>2. todo # << >> /\ todo[1] = "get" /\ op.left = 0
    BY <2>1, <1>h, <1>i, <1>p
  <2>3. op'.left = 0 /\ (todo' # << >> => op' = op)
    BY <2>1, <2>2 DEF NoOp
  <2>4. CASE todo' = << >>
    BY <2>1, <2>3, <2>4, <1>a
  <2>5. CASE todo' = Tail(todo)
    <3>1. todo' \in Seq(Labels) /\ Len(todo') = 0
      BY <2>2, <2>5, <1>pop, TopLabel DEF MayCall
    <3>2. todo' = << >>
      BY <3>1, LenZero
    <3> QED BY <3>2, <2>4
  <2>6. CASE commandsToRead # << >> /\ todo' = <<"read">> \o todo
    <3>1. /\ todo' \in Seq(Labels) /\ Stacked(todo') /\ todo'[1] = "read"
          /\ HandsOut(todo') => HandsOut(todo) /\ todo' # << >>
      BY <2>2, <2>6, <1>t, <1>push DEF MayCall, HandsOut
    <3> QED BY <2>1, <2>3, <2>6, <3>1, <1>c, <1>i
  <2>7. CASE todo' = <<"send", "drain">> \o todo
    <3> DEFINE s == <<"drain">> \o todo
    <3>1. todo' = <<"send">> \o s
      BY <2>7, <1>t, PushTwo
    <3>2. s \in Seq(Labels) /\ Stacked(s) /\ s[1] = "drain" /\ HandsOut(todo)
          /\ Len(s) = Len(todo) + 1
      BY <2>2, <1>t, <1>push DEF MayCall, HandsOut
    <3> HIDE DEF s
    <3>3. /\ todo' \in Seq(Labels) /\ Stacked(todo') /\ todo'[1] = "send"
          /\ Len(todo') = Len(todo) + 2
      BY <3>1, <3>2, <1>t, <1>push DEF MayCall
    <3>4. todo' # << >>
      BY <3>3, <1>t
    <3> QED BY <2>1, <2>3, <3>2, <3>3, <3>4, <1>c, <1>i
  <2> QED BY <2>1, <2>4, <2>5, <2>6, <2>7
<1>18. ASSUME SetDeferredEnd
       PROVE  todo' \in Seq(Labels) /\ Control'
  <2>1. /\ At("defer") /\ UNCHANGED <<commandsToRead, transfers, op>> /\ todo' = Tail(todo)
    BY <1>18 DEF SetDeferredEnd, Return, dapVars
  <2>2. todo # << >> /\ todo[1] = "defer" /\ op.left = 0
    BY <2>1, <1>h, <1>i, <1>p
  <2>3. todo' \in Seq(Labels) /\ Len(todo') = 0
    BY <2>1, <2>2, <1>pop, TopLabel DEF MayCall
  <2> QED BY <2>1, <2>2, <2>3, LenZero, <1>a
<1>19. ASSUME ProtocolWrite
       PROVE  todo' \in Seq(Labels) /\ Control'
  <2>1. /\ At("protoPut") /\ UNCHANGED <<commandsToRead, transfers, op>>
        /\ todo' = <<"protoGet">> \o Tail(todo)
    BY <1>19 DEF ProtocolWrite, Become, dapVars, callVars
  <2>2. todo # << >> /\ todo[1] = "protoPut" /\ op.left = 0 /\ commandsToRead = << >>
    BY <2>1, <1>h, <1>i, <1>p
  <2>3. /\ todo' \in Seq(Labels) /\ Stacked(todo') /\ todo'[1] = "protoGet"
        /\ HandsOut(todo') => HandsOut(todo)
    BY <2>1, <2>2, <1>swap DEF MayCall
  <2> QED BY <2>1, <2>2, <2>3, <1>c, <1>i
<1>20. ASSUME ProtocolWriteFails
       PROVE  todo' \in Seq(Labels) /\ Control'
  <2>1. /\ At("protoPut") /\ UNCHANGED <<commandsToRead, transfers, op>> /\ todo' = << >>
    BY <1>20 DEF ProtocolWriteFails, Raise, dapVars, callVars
  <2>2. op.left = 0
    BY <2>1, <1>h, <1>i, <1>p
  <2> QED BY <2>1, <2>2, <1>a
<1>21. ASSUME ProtocolRead
       PROVE  todo' \in Seq(Labels) /\ Control'
  <2>1. /\ At("protoGet") /\ UNCHANGED <<commandsToRead, transfers, op>>
        /\ todo' = << >> \/ todo' = Tail(todo)
    BY <1>21 DEF ProtocolRead, Raise, Return, dapVars, callVars
  <2>2. todo # << >> /\ todo[1] = "protoGet" /\ op.left = 0 /\ commandsToRead = << >>
    BY <2>1, <1>h, <1>i, <1>p
  <2>3. CASE todo' = << >>
    BY <2>1, <2>2, <2>3, <1>a
  <2>4. CASE todo' = Tail(todo)
    <3>1. /\ todo' \in Seq(Labels) /\ Stacked(todo')
          /\ Len(todo') >= 1 => todo'[1] = "protoPut"
          /\ HandsOut(todo') => HandsOut(todo)
      BY <2>2, <2>4, <1>pop DEF MayCall
    <3> QED BY <2>1, <2>2, <3>1, <1>c, <1>i
  <2> QED BY <2>1, <2>3, <2>4
<1>22. ASSUME AbortDrain
       PROVE  todo' \in Seq(Labels) /\ Control'
  <2>1. /\ At("abortDrain") /\ UNCHANGED <<commandsToRead, transfers, op>>
        /\ todo' = << >> \/ todo' = Tail(todo)
    BY <1>22 DEF AbortDrain, dapVars, callVars
  <2>2. /\ todo # << >> /\ todo[1] = "abortDrain" /\ op.left = 0 /\ commandsToRead = << >>
        /\ Len(todo) <= MaxPackets
    BY <2>1, <1>h, <1>i, <1>p
  <2>3. CASE todo' = << >>
    BY <2>1, <2>2, <2>3, <1>a
  <2>4. CASE todo' = Tail(todo)
    <3>1. /\ todo' \in Seq(Labels) /\ Stacked(todo') /\ Len(todo') = Len(todo) - 1
          /\ Len(todo') >= 1 => todo'[1] = "abortDrain"
          /\ HandsOut(todo') => HandsOut(todo)
      BY <2>2, <2>4, <1>pop DEF MayCall
    <3> QED BY <2>1, <2>2, <3>1, <1>c, <1>i, <1>p, <1>t
  <2> QED BY <2>1, <2>3, <2>4
\* The probe and the interface leave the host alone.
<1>23. ASSUME UNCHANGED <<transfers, commandsToRead, todo, op>>
       PROVE  todo' \in Seq(Labels) /\ Control'
  BY <1>23, <1>t, ControlKept
<1>24. CASE Probe
  BY <1>23, <1>24 DEF Probe, ProbeExecutes, ProbeFaults, ProbeRefuses, ResponseLost,
                      SpareReadTimesOut, Answer, dapVars, callVars
<1>25. CASE UNCHANGED vars
  BY <1>23, <1>25 DEF vars, dapVars, callVars
<1> QED BY <1>1, <1>2, <1>3, <1>4, <1>5, <1>6, <1>7, <1>8, <1>9, <1>10, <1>11, <1>12, <1>13,
           <1>14, <1>15, <1>16, <1>17, <1>18, <1>19, <1>20, <1>21, <1>22, <1>24, <1>25
           DEF Next, Calls, Host

-----------------------------------------------------------------------------
(* Every step keeps the types.                                             *)

\* No step makes anything but a protocol command be answered by DAP_ERROR.
LEMMA RefusalsStep == IInv /\ [Next]_vars => RefusalsAreProtocol'
<1> SUFFICES ASSUME IInv, [Next]_vars PROVE RefusalsAreProtocol'
  OBVIOUS
<1>1. /\ usbIn \in Seq(Responses) /\ usbOut \in Seq(Packets)
      /\ \A i \in 1..Len(usbIn) : usbIn[i].status = "DAP_ERROR" => usbIn[i].kind = "OTHER"
  BY DEF IInv, TypeOK, RefusalsAreProtocol
<1>2. ASSUME UNCHANGED usbIn PROVE RefusalsAreProtocol'
  BY <1>1, <1>2 DEF RefusalsAreProtocol
<1>3. ASSUME usbIn # << >>, usbIn' = Tail(usbIn) PROVE RefusalsAreProtocol'
  <2> SUFFICES ASSUME NEW i \in 1..Len(usbIn')
               PROVE  usbIn'[i].status = "DAP_ERROR" => usbIn'[i].kind = "OTHER"
    BY DEF RefusalsAreProtocol
  <2>1. i + 1 \in 1..Len(usbIn) /\ usbIn'[i] = usbIn[i + 1]
    BY <1>1, <1>3, DropHead
  <2> QED BY <2>1, <1>1
<1>4. ASSUME NEW r, usbIn' = Append(usbIn, r), r.status = "DAP_ERROR" => r.kind = "OTHER"
      PROVE  RefusalsAreProtocol'
  <2> SUFFICES ASSUME NEW i \in 1..Len(usbIn')
               PROVE  usbIn'[i].status = "DAP_ERROR" => usbIn'[i].kind = "OTHER"
    BY DEF RefusalsAreProtocol
  <2>1. i \in 1..Len(usbIn) + 1
    BY <1>1, <1>4
  <2>2. usbIn'[i] = IF i = Len(usbIn) + 1 THEN r ELSE usbIn[i]
    BY <1>1, <1>4, <2>1
  <2> QED BY <2>1, <2>2, <1>1, <1>4
<1>5. ASSUME NEW status, Answer(status), status # "DAP_ERROR" \/ Head(usbOut).kind = "OTHER"
      PROVE  RefusalsAreProtocol'
  <2> DEFINE p == Head(usbOut)
             r == [kind |-> p.kind, status |-> status, firstRead |-> p.firstRead,
                   readCount |-> p.readCount, size |-> p.size]
  <2>1. usbIn' = Append(usbIn, r)
    BY <1>5 DEF Answer
  <2>2. r.status = "DAP_ERROR" => r.kind = "OTHER"
    BY <1>5
  <2> HIDE DEF r
  <2> QED BY <2>1, <2>2, <1>4
<1>6. CASE Probe
  <2>1. CASE ProbeExecutes
    BY <2>1, <1>5 DEF ProbeExecutes
  <2>2. CASE ProbeFaults
    <3>1. "DAP_ERROR" \notin FaultStatuses
      BY PipelineAssumption
    <3> QED BY <2>2, <3>1, <1>5 DEF ProbeFaults
  <2>3. CASE ProbeRefuses
    BY <2>3, <1>5 DEF ProbeRefuses
  <2>4. CASE ResponseLost
    BY <2>4, <1>5 DEF ResponseLost
  <2>5. CASE SpareReadTimesOut
    <3> DEFINE r == [kind |-> "OTHER", status |-> "UsbError", firstRead |-> 0,
                     readCount |-> 0, size |-> 0]
    <3>1. usbIn' = Append(usbIn, r) /\ (r.status = "DAP_ERROR" => r.kind = "OTHER")
      BY <2>5 DEF SpareReadTimesOut
    <3> HIDE DEF r
    <3> QED BY <3>1, <1>4
  <2> QED BY <1>6, <2>1, <2>2, <2>3, <2>4, <2>5 DEF Probe
<1>7. CASE ReadPacket \/ ProtocolRead \/ AbortDrain
  BY <1>3, <1>7 DEF ReadPacket, ProtocolRead, AbortDrain
<1>8. CASE Calls
  BY <1>2, <1>8 DEF Calls, WriteReg, ReadReg, GetResult, Flush, SetDeferredTransfer,
                    ProtocolCommand, usbVars
<1>9. CASE FillAdd \/ FillNoRoom \/ FillEnd \/ ReturnTransfer \/ SendPacket \/ SendPacketWrite
           \/ SendPacketFails \/ Attach \/ Drain \/ GetResultTurn \/ SetDeferredEnd
           \/ ProtocolWrite \/ ProtocolWriteFails
  BY <1>2, <1>9 DEF FillAdd, FillNoRoom, FillEnd, ReturnTransfer, SendPacket, SendPacketWrite,
                    SendPacketFails, Attach, Drain, GetResultTurn, SetDeferredEnd,
                    ProtocolWrite, ProtocolWriteFails, UsbWriteFails, usbVars
<1>10. CASE UNCHANGED vars
  BY <1>2, <1>10 DEF vars, usbVars
<1> QED BY <1>6, <1>7, <1>8, <1>9, <1>10 DEF Next, Host

\* Words that were received wait for a transfer.
LEMMA SomeoneWaits ==
  ASSUME IInv, responseBuf # << >>
  PROVE  transferList # << >>
<1>1. responseBuf \in Seq(Nat) /\ Len(responseBuf) \in Nat /\ Len(responseBuf) >= 1
  BY DEF IInv, TypeOK
<1>2. /\ commandsToRead \in Seq(Command) /\ crntCmd.firstRead \in Nat /\ crntCmd.readCount \in Nat
      /\ NextRead = crntCmd.firstRead + crntCmd.readCount /\ op.left \in Nat
  BY NextTypes DEF IInv, TypeOK
<1>3. NextUnread \in Nat /\ NextUnread <= crntCmd.firstRead
  <2>1. CASE commandsToRead = << >>
    BY <2>1, <1>2 DEF NextUnread
  <2>2. CASE commandsToRead # << >>
    <3>1. 1 \in 1..Len(commandsToRead) /\ commandsToRead[1] \in Command
      BY <1>2, <2>2
    <3>2. ReadsEnd(commandsToRead[1]) <= crntCmd.firstRead
      BY <3>1 DEF IInv, Order, CommandsInOrder
    <3>3. commandsToRead[1].firstRead \in Nat /\ commandsToRead[1].readCount \in Nat
      BY <3>1 DEF Command
    <3> QED BY <2>2, <3>2, <3>3, <1>2 DEF NextUnread, ReadsEnd
  <2> QED BY <2>1, <2>2
<1>4. ReadsToCome >= NextRead /\ ReadsToCome \in Nat
  <2>1. NextRead \in Nat /\ op.left \in Nat
    BY <1>2
  <2>2. ReadsToCome = NextRead + op.left \/ ReadsToCome = NextRead + 0
    BY DEF ReadsToCome
  <2> QED BY <2>1, <2>2
<1>5. NextUngiven # ReadsToCome
  BY <1>1, <1>2, <1>3, <1>4 DEF NextUngiven
<1> QED BY <1>5 DEF IInv, Order, TransfersInOrder

\* Every step leaves in the variables what the code keeps there.
LEMMA TypeStep == IInv /\ [Next]_vars => TypeOK'
<1> SUFFICES ASSUME IInv, [Next]_vars PROVE TypeOK'
  OBVIOUS
<1> DEFINE OpType(n) == [request : Requests \cup {NoRequest}, left : Nat, transfer : 0..n]
<1>t. TypeOK
  BY DEF IInv
<1>s. todo' \in Seq(Labels)
  BY ControlStep
<1>n. Len(transfers) \in Nat /\ Len(transferList) \in Nat
  BY <1>t DEF TypeOK
\* Three parts of TypeOK', by who assigns their variables.
<1>d. ASSUME transfers' \in Seq(Transfer), transferList' \in Seq(Nat),
             \A i \in 1..Len(transferList') : transferList'[i] \in 1..Len(transfers'),
             crntCmd' \in Command, commandsToRead' \in Seq(Command), responseBuf' \in Seq(Nat),
             deferred' \in BOOLEAN, callbacks' \subseteq 1..Len(transfers'),
             op' \in OpType(Len(transfers')),
             raised' \in Errors \cup {NoError}, owed' \in Nat,
             usbOut' \in Seq(Packets), usbIn' \in Seq(Responses), done' \subseteq Nat,
             spareReads' \in Nat, usbFailures' \in 0..MaxUsbFailures
      PROVE  TypeOK'
  BY <1>d, <1>s DEF TypeOK
<1>k. /\ transfers \in Seq(Transfer) /\ transferList \in Seq(Nat)
      /\ \A i \in 1..Len(transferList) : transferList[i] \in 1..Len(transfers)
      /\ crntCmd \in Command /\ commandsToRead \in Seq(Command) /\ responseBuf \in Seq(Nat)
      /\ deferred \in BOOLEAN /\ callbacks \subseteq 1..Len(transfers)
      /\ op \in OpType(Len(transfers))
      /\ raised \in Errors \cup {NoError} /\ owed \in Nat
      /\ usbOut \in Seq(Packets) /\ usbIn \in Seq(Responses) /\ done \subseteq Nat
      /\ spareReads \in Nat /\ usbFailures \in 0..MaxUsbFailures
  BY <1>t DEF TypeOK
<1>o. /\ op.request \in Requests \cup {NoRequest} /\ op.left \in Nat
      /\ op.transfer \in 0..Len(transfers)
      /\ NoOp \in OpType(Len(transfers))
      /\ \A request \in Requests \cup {NoRequest}, left \in Nat, transfer \in 0..Len(transfers) :
           [request |-> request, left |-> left, transfer |-> transfer] \in OpType(Len(transfers))
  BY <1>k, <1>n DEF NoOp, NoTransfer
<1> HIDE DEF OpType
<1>r. NoError \in Errors \cup {NoError}
  OBVIOUS
<1>h. HandsOut(todo) => op.transfer \in 1..Len(transfers)
  BY DEF IInv, Control, HasTransfer
<1>u. ASSUME UNCHANGED <<dapVars, callVars, usbVars, owed>>, raised' \in Errors \cup {NoError}
      PROVE  TypeOK'
  BY <1>u, <1>d, <1>k DEF dapVars, callVars, usbVars, failVars
\* The calls.
<1>1. ASSUME NEW request \in WriteRequests, NEW count \in Counts, WriteReg(request, count)
      PROVE  TypeOK'
  <2>1. op' = [request |-> request, left |-> count, transfer |-> NoTransfer]
    BY <1>1 DEF WriteReg
  <2>2. /\ request \in Requests \cup {NoRequest} /\ count \in Nat
        /\ NoTransfer \in 0..Len(transfers)
    BY <1>n, PipelineAssumption DEF Requests, NoTransfer
  <2>3. op' \in OpType(Len(transfers))
    BY <2>1, <2>2, <1>o
  <2> QED BY <2>3, <1>1, <1>d, <1>k, <1>r DEF WriteReg, Start, dapVars, usbVars, failVars
<1>2. ASSUME NEW request \in ReadRequests, NEW count \in Counts, NEW now \in BOOLEAN,
             ReadReg(request, count, now)
      PROVE  TypeOK'
  <2> DEFINE new == [firstRead |-> NextRead, count |-> count, result |-> NoResult, error |-> NoError]
  <2>1. new \in Transfer
    BY <1>t, NextTypes, PipelineAssumption DEF Transfer, NoResult
  <2>2. /\ transfers' = Append(transfers, new)
        /\ transferList' = Append(transferList, Len(transfers) + 1)
        /\ op' = [request |-> request, left |-> count, transfer |-> Len(transfers) + 1]
        /\ raised' = NoError /\ owed' = owed
    BY <1>2 DEF ReadReg, Start
  <2> HIDE DEF new
  <2>3. transfers' \in Seq(Transfer) /\ Len(transfers') = Len(transfers) + 1
    BY <2>1, <2>2, <1>k
  <2>4. transferList' \in Seq(Nat) /\ Len(transferList') = Len(transferList) + 1
    BY <2>2, <1>k, <1>n
  <2>5. \A i \in 1..Len(transferList') : transferList'[i] \in 1..Len(transfers')
    <3>1. \A i \in 1..Len(transferList) + 1 :
            transferList'[i] = IF i = Len(transferList) + 1 THEN Len(transfers) + 1
                                                            ELSE transferList[i]
      BY <2>2, <1>k, <1>n
    <3> SUFFICES ASSUME NEW i \in 1..Len(transferList')
                 PROVE  transferList'[i] \in 1..Len(transfers) + 1
      BY <2>3
    <3>2. CASE i = Len(transferList) + 1
      BY <3>1, <3>2, <2>4, <1>n
    <3>3. CASE i # Len(transferList) + 1
      <4>1. i \in 1..Len(transferList) /\ i \in 1..Len(transferList) + 1
        BY <3>3, <2>4, <1>n
      <4>2. transferList'[i] \in 1..Len(transfers)
        BY <4>1, <3>1, <3>3, <1>k
      <4> QED BY <4>2, <1>n
    <3> QED BY <3>2, <3>3
  <2>6. /\ op' \in OpType(Len(transfers'))
        /\ callbacks \subseteq 1..Len(transfers')
    <3>1. request \in Requests \cup {NoRequest} /\ count \in Nat
      BY PipelineAssumption DEF Requests
    <3> QED BY <3>1, <2>2, <2>3, <1>n, <1>k DEF OpType
  <2> QED BY <2>2, <2>3, <2>4, <2>5, <2>6, <1>2, <1>d, <1>k, <1>r
          DEF ReadReg, usbVars, failVars
<1>3. ASSUME NEW t \in callbacks, GetResult(t)
      PROVE  TypeOK'
  <2>1. op' = [request |-> NoRequest, left |-> 0, transfer |-> t] /\ t \in 0..Len(transfers)
    BY <1>3, <1>k, <1>n DEF GetResult
  <2>2. op' \in OpType(Len(transfers))
    BY <2>1, <1>o
  <2> QED BY <2>2, <1>3, <1>d, <1>k, <1>r DEF GetResult, Start, dapVars, usbVars, failVars
<1>4. CASE \/ Flush \/ \E enable \in BOOLEAN : SetDeferredTransfer(enable)
           \/ \E commands \in {<<"protoPut">>, <<"protoPut", "protoPut">>} :
                ProtocolCommand(commands)
  BY <1>4, <1>u, <1>r DEF Flush, SetDeferredTransfer, ProtocolCommand, Start
<1>5. CASE Calls
  BY <1>1, <1>2, <1>3, <1>4, <1>5 DEF Calls
\* The methods those go through.
<1>6. ASSUME FillAdd
      PROVE  TypeOK'
  <2> DEFINE size == GetRequestSpace(crntCmd, op.left, op.request)
  <2>1. size \in 0..op.left
    BY <1>k, <1>o, SpaceType
  <2>2. crntCmd' = Add(crntCmd, size, op.request) /\ op' = [op EXCEPT !.left = @ - size]
    BY <1>6 DEF FillAdd
  <2> HIDE DEF size
  <2>3. crntCmd' \in Command
    BY <2>1, <2>2, <1>k, <1>o, AddType
  <2>4. op' \in OpType(Len(transfers))
    <3>1. op.left - size \in Nat
      BY <2>1, <1>o
    <3> QED BY <3>1, <2>2, <1>k DEF OpType
  <2> QED BY <2>3, <2>4, <1>6, <1>d, <1>k DEF FillAdd, Call, usbVars, failVars
<1>7. CASE FillNoRoom \/ SendPacket \/ Drain
  BY <1>7, <1>u, <1>k DEF FillNoRoom, SendPacket, Drain, Call, Become, Return
<1>8. ASSUME FillEnd
      PROVE  TypeOK'
  <2>1. op' \in OpType(Len(transfers))
    BY <1>8, <1>k DEF FillEnd, OpType
  <2> QED BY <2>1, <1>8, <1>d, <1>k DEF FillEnd, Become, dapVars, usbVars, failVars
<1>9. ASSUME ReturnTransfer
      PROVE  TypeOK'
  <2>1. HandsOut(todo)
    <3>1. todo # << >> /\ Head(todo) = "now" /\ todo \in Seq(Labels)
      BY <1>9, <1>t DEF ReturnTransfer, At, TypeOK
    <3>2. 1 \in 1..Len(todo) /\ todo[1] = "now"
      BY <3>1
    <3> QED BY <3>2 DEF HandsOut
  <2>2. callbacks' \subseteq 1..Len(transfers) /\ op' \in OpType(Len(transfers))
    BY <2>1, <1>9, <1>h, <1>k, <1>o DEF ReturnTransfer
  <2> QED BY <2>2, <1>9, <1>d, <1>k DEF ReturnTransfer, Return, dapVars, usbVars, failVars
<1>10. ASSUME SendPacketWrite
       PROVE  TypeOK'
  <2>1. /\ usbOut' = Append(usbOut, Packet(crntCmd))
        /\ commandsToRead' = Append(commandsToRead, crntCmd)
        /\ crntCmd' = NewCommand(NextWord, NextRead)
    BY <1>10 DEF SendPacketWrite
  <2>2. usbOut' \in Seq(Packets) /\ commandsToRead' \in Seq(Command) /\ crntCmd' \in Command
    BY <2>1, <1>k, <1>t, NextTypes
  <2> QED BY <2>2, <1>10, <1>d, <1>k DEF SendPacketWrite, Return, callVars, failVars
<1>abort. ASSUME NEW error \in Errors, NEW n \in Nat, AbortAllTransfers(error, n),
                 UNCHANGED <<deferred, callbacks>>,
                 usbOut' \in Seq(Packets), usbIn' \in Seq(Responses), done' = done,
                 spareReads' \in Nat, usbFailures' \in 0..MaxUsbFailures
          PROVE  TypeOK'
  <2>1. /\ transfers' \in Seq(Transfer) /\ Len(transfers') = Len(transfers)
        /\ transferList' \in Seq(Nat) /\ Len(transferList') = 0
        /\ commandsToRead' \in Seq(Command) /\ responseBuf' \in Seq(Nat)
        /\ crntCmd' \in Command
        /\ op' \in OpType(Len(transfers))
        /\ owed' \in Nat /\ raised' \in Errors \cup {NoError}
    BY <1>abort, <1>t, AbortType DEF OpType
  <2> QED BY <2>1, <1>abort, <1>d, <1>k
<1>11. ASSUME SendPacketFails
       PROVE  TypeOK'
  <2>1. "USBError" \in Errors /\ Len(commandsToRead) \in Nat
    BY <1>k DEF Errors
  <2>2. usbFailures' \in 0..MaxUsbFailures /\ spareReads' \in Nat
    BY <1>11, <1>k, PipelineAssumption DEF SendPacketFails, UsbWriteFails
  <2> QED BY <2>1, <2>2, <1>11, <1>abort, <1>k DEF SendPacketFails, UsbWriteFails
<1>12. ASSUME ReadPacket
       PROVE  TypeOK'
  <2> DEFINE cmd == Head(commandsToRead)
             response == Head(usbIn)
             error == DecodeError(cmd, response)
  <2>1. usbIn # << >> /\ commandsToRead # << >>
    BY <1>12 DEF ReadPacket, IInv, Control, ReadHasCommand
  <2>2. /\ cmd \in Command /\ response \in Responses
        /\ usbIn' \in Seq(Responses) /\ Tail(commandsToRead) \in Seq(Command)
        /\ Len(commandsToRead) - 1 \in Nat
    BY <2>1, <1>12, <1>k DEF ReadPacket
  <2>3. error # NoError => error \in Errors
    <3>1. response = usbIn[1] /\ 1 \in 1..Len(usbIn)
      BY <2>1, <1>k
    <3>2. response.status = "DAP_ERROR" => response.kind = "OTHER"
      BY <3>1 DEF IInv, RefusalsAreProtocol
    <3> HIDE DEF cmd, response
    <3> QED BY <3>2, <2>2, DecodeErrorType
  <2>4. Decode(cmd, response) \in Seq(Nat)
    <3> HIDE DEF cmd, response
    <3> QED BY <2>2, DecodeType
  <2>5. UNCHANGED <<deferred, callbacks, usbOut, done, spareReads, usbFailures>>
    BY <1>12 DEF ReadPacket, failVars
  <2>6. CASE error # NoError /\ AbortAllTransfers(error, Len(commandsToRead) - 1)
    <3> HIDE DEF error
    <3> QED BY <2>2, <2>3, <2>5, <2>6, <1>abort, <1>k
  <2>7. CASE /\ commandsToRead' = Tail(commandsToRead)
             /\ responseBuf' = responseBuf \o Decode(cmd, response)
             /\ UNCHANGED <<transfers, transferList, crntCmd, op, raised, owed>>
    <3> HIDE DEF cmd, response
    <3>1. responseBuf' \in Seq(Nat)
      BY <2>4, <2>7, <1>k
    <3> QED BY <3>1, <2>2, <2>5, <2>7, <1>d, <1>k
  <2> QED BY <1>12, <2>6, <2>7 DEF ReadPacket, Become
<1>13. ASSUME Attach
       PROVE  TypeOK'
  <2> DEFINE t == Head(transferList)
             size == transfers[t].count
  <2>1. CASE UNCHANGED <<dapVars, callVars, usbVars, raised, owed>>
    BY <2>1, <1>u, <1>k
  <2>2. CASE /\ responseBuf # << >> /\ ~(size > Len(responseBuf))
             /\ transfers' = [transfers EXCEPT ![t].result = SubSeq(responseBuf, 1, size)]
             /\ transferList' = Tail(transferList)
             /\ responseBuf' = SubSeq(responseBuf, size + 1, Len(responseBuf))
             /\ UNCHANGED <<crntCmd, commandsToRead, raised, owed, callVars, usbVars>>
    <3>1. transferList # << >>
      BY <2>2, SomeoneWaits
    <3>2. t = transferList[1] /\ t \in 1..Len(transfers) /\ transfers[t] \in Transfer
      BY <3>1, <1>k
    <3> HIDE DEF t
    <3>3. size \in Nat /\ Len(responseBuf) \in Nat
      <4>1. size \in Nat
        BY <3>2 DEF Transfer
      <4>2. Len(responseBuf) \in Nat
        BY <1>k
      <4> QED BY <4>1, <4>2
    <3> HIDE DEF size
    <3>4. SubSeq(responseBuf, 1, size) \in Seq(Nat) /\ responseBuf' \in Seq(Nat)
      <4>1. size <= Len(responseBuf)
        BY <3>3, <2>2
      <4>2. \A i \in 1..Len(responseBuf) : responseBuf[i] \in Nat
        BY <1>k
      <4>3. /\ \A i \in 1..size : responseBuf[i] \in Nat
            /\ \A i \in size + 1 .. Len(responseBuf) : responseBuf[i] \in Nat
        BY <4>1, <4>2, <3>3
      <4>4. SubSeq(responseBuf, 1, size) \in Seq(Nat)
        BY <4>3, <3>3, SubSeqProperties
      <4>5. SubSeq(responseBuf, size + 1, Len(responseBuf)) \in Seq(Nat)
        BY <4>3, <3>3, SubSeqProperties
      <4> QED BY <4>4, <4>5, <2>2
    <3>5. [transfers[t] EXCEPT !.result = SubSeq(responseBuf, 1, size)] \in Transfer
      BY <3>2, <3>4 DEF Transfer
    <3>6. transfers' \in Seq(Transfer) /\ Len(transfers') = Len(transfers)
      BY <3>2, <3>5, <2>2, <1>k
    <3>7. /\ transferList' \in Seq(Nat)
          /\ \A i \in 1..Len(transferList') : transferList'[i] \in 1..Len(transfers)
      <4>1. /\ transferList' \in Seq(Nat) /\ Len(transferList') = Len(transferList) - 1
            /\ \A i \in 1..Len(transferList) - 1 : transferList'[i] = transferList[i + 1]
        BY <3>1, <2>2, <1>k, DropHead
      <4> SUFFICES ASSUME NEW i \in 1..Len(transferList')
                   PROVE  transferList'[i] \in 1..Len(transfers)
        BY <4>1
      <4>2. i \in 1..Len(transferList) - 1 /\ i + 1 \in 1..Len(transferList)
        BY <4>1, <1>n
      <4> QED BY <4>1, <4>2, <1>k
    <3> QED BY <3>4, <3>6, <3>7, <2>2, <1>d, <1>k DEF callVars, usbVars, failVars
  <2> QED BY <1>13, <2>1, <2>2 DEF Attach, Return
<1>14. ASSUME GetResultTurn
       PROVE  TypeOK'
  <2>1. transfers[op.transfer].error \in Errors \cup {NoError}
    <3>1. todo # << >> /\ Head(todo) = "get" /\ todo \in Seq(Labels)
      BY <1>14, <1>t DEF GetResultTurn, At, TypeOK
    <3>2. 1 \in 1..Len(todo) /\ todo[1] = "get"
      BY <3>1
    <3>3. HandsOut(todo)
      BY <3>2 DEF HandsOut
    <3>4. transfers[op.transfer] \in Transfer
      BY <3>3, <1>h, <1>k
    <3> QED BY <3>4 DEF Transfer
  <2>2. raised' \in Errors \cup {NoError} /\ owed' = owed
    BY <2>1, <1>14, <1>k DEF GetResultTurn, Return, Raise, Call, Errors
  <2>3. op' \in OpType(Len(transfers))
    BY <1>14, <1>k, <1>o DEF GetResultTurn
  <2> QED BY <2>2, <2>3, <1>14, <1>d, <1>k DEF GetResultTurn, dapVars, usbVars, failVars
<1>15. CASE SetDeferredEnd
  BY <1>15, <1>d, <1>k DEF SetDeferredEnd, Return, dapVars, usbVars, failVars
<1>16. ASSUME ProtocolWrite
       PROVE  TypeOK'
  <2>1. ProtoPacket \in Packets
    BY DEF ProtoPacket, Packets, Kinds
  <2>2. usbOut' \in Seq(Packets)
    BY <2>1, <1>16, <1>k DEF ProtocolWrite
  <2> QED BY <2>2, <1>16, <1>d, <1>k DEF ProtocolWrite, Become, dapVars, callVars, failVars
<1>17. ASSUME ProtocolWriteFails
       PROVE  TypeOK'
  <2>1. usbFailures' \in 0..MaxUsbFailures /\ spareReads' \in Nat /\ "USBError" \in Errors
    BY <1>17, <1>k, PipelineAssumption DEF ProtocolWriteFails, UsbWriteFails, Errors
  <2> QED BY <2>1, <1>17, <1>d, <1>k
          DEF ProtocolWriteFails, UsbWriteFails, Raise, dapVars, callVars
<1>18. ASSUME ProtocolRead
       PROVE  TypeOK'
  <2>1. usbIn' \in Seq(Responses)
    BY <1>18, <1>k DEF ProtocolRead
  <2>2. raised' \in Errors \cup {NoError} /\ owed' = owed
    BY <1>18, <1>k DEF ProtocolRead, Raise, Return, Errors
  <2> QED BY <2>1, <2>2, <1>18, <1>d, <1>k DEF ProtocolRead, dapVars, callVars, failVars
<1>19. ASSUME AbortDrain
       PROVE  TypeOK'
  <2>1. usbIn' \in Seq(Responses)
    BY <1>19, <1>k DEF AbortDrain
  <2>2. raised' \in Errors \cup {NoError}
    BY <1>19, <1>k DEF AbortDrain, Errors
  <2> QED BY <2>1, <2>2, <1>19, <1>d, <1>k DEF AbortDrain, dapVars, callVars, failVars
\* The probe.
<1>answer. ASSUME NEW status \in Statuses, Answer(status), usbFailures' \in 0..MaxUsbFailures
           PROVE  TypeOK'
  <2> DEFINE p == Head(usbOut)
             r == [kind |-> p.kind, status |-> status, firstRead |-> p.firstRead,
                   readCount |-> p.readCount, size |-> p.size]
  <2>1. p \in Packets /\ usbOut' \in Seq(Packets)
    BY <1>answer, <1>k DEF Answer
  <2>2. r \in Responses
    BY <2>1, <1>answer DEF Packets, Responses
  <2>3. usbIn' = Append(usbIn, r)
    BY <1>answer DEF Answer
  <2>4. done' \subseteq Nat
    <3>1. p.first \in Nat /\ p.size \in Nat
      BY <2>1 DEF Packets
    <3>2. done' = IF status = "OK" THEN done \cup p.first .. (p.first + p.size - 1) ELSE done
      BY <1>answer DEF Answer
    <3> HIDE DEF p
    <3>3. p.first .. (p.first + p.size - 1) \subseteq Nat
      BY <3>1
    <3> QED BY <3>2, <3>3, <1>k
  <2> HIDE DEF r
  <2>5. usbIn' \in Seq(Responses)
    BY <2>2, <2>3, <1>k
  <2> QED BY <2>1, <2>4, <2>5, <1>answer, <1>d, <1>k DEF Answer, dapVars, callVars
<1>20. CASE Probe
  <2>1. {"OK", "UsbError", "DAP_ERROR"} \cup FaultStatuses \subseteq Statuses
    BY PipelineAssumption DEF Statuses, TransferErrors
  <2>2. CASE ProbeExecutes
    BY <2>1, <2>2, <1>answer, <1>k DEF ProbeExecutes
  <2>3. CASE ProbeFaults
    BY <2>1, <2>3, <1>answer, <1>k DEF ProbeFaults
  <2>4. CASE ProbeRefuses
    BY <2>1, <2>4, <1>answer, <1>k DEF ProbeRefuses
  <2>5. CASE ResponseLost
    <3>1. usbFailures' \in 0..MaxUsbFailures
      BY <2>5, <1>k, PipelineAssumption DEF ResponseLost
    <3> QED BY <3>1, <2>1, <2>5, <1>answer DEF ResponseLost
  <2>6. CASE SpareReadTimesOut
    <3> DEFINE r == [kind |-> "OTHER", status |-> "UsbError", firstRead |-> 0,
                     readCount |-> 0, size |-> 0]
    <3>1. r \in Responses
      BY DEF Responses, Kinds, Statuses
    <3>2. usbIn' = Append(usbIn, r) /\ spareReads' \in Nat
      BY <2>6, <1>k DEF SpareReadTimesOut
    <3> HIDE DEF r
    <3>3. usbIn' \in Seq(Responses)
      BY <3>1, <3>2, <1>k
    <3> QED BY <3>2, <3>3, <2>6, <1>d, <1>k DEF SpareReadTimesOut, dapVars, callVars
  <2> QED BY <1>20, <2>2, <2>3, <2>4, <2>5, <2>6 DEF Probe
<1>21. CASE UNCHANGED vars
  BY <1>21, <1>u, <1>k DEF vars
<1> QED BY <1>5, <1>6, <1>7, <1>8, <1>9, <1>10, <1>11, <1>12, <1>13, <1>14, <1>15, <1>16, <1>17,
           <1>18, <1>19, <1>20, <1>21 DEF Next, Host

-----------------------------------------------------------------------------
(* Every step keeps the order of words.                                    *)

\* The types of what the order of words is about.
LEMMA OrderTypes ==
  ASSUME TypeOK
  PROVE  /\ Len(commandsToRead) \in Nat /\ Len(transferList) \in Nat
         /\ Len(responseBuf) \in Nat /\ Len(transfers) \in Nat
         /\ commandsToRead = << >> <=> Len(commandsToRead) = 0
         /\ transferList = << >> <=> Len(transferList) = 0
         /\ crntCmd.firstRead \in Nat /\ crntCmd.readCount \in Nat /\ NextRead \in Nat
         /\ NextWord \in Nat /\ NextRead = crntCmd.firstRead + crntCmd.readCount
         /\ \A i \in 1..Len(commandsToRead) :
              /\ commandsToRead[i] \in Command
              /\ commandsToRead[i].firstRead \in Nat /\ commandsToRead[i].readCount \in Nat
         /\ \A i \in 1..Len(transferList) :
              /\ transferList[i] \in 1..Len(transfers)
              /\ Wants(i) \in Nat /\ WantsEnd(i) \in Nat
         /\ NextUnread \in Nat /\ NextUngiven = NextUnread - Len(responseBuf)
         /\ NextUngiven \in Int
         /\ ReadsToCome \in Nat /\ (op.left = 0 => ReadsToCome = NextRead)
<1> DEFINE n == Len(commandsToRead)
           k == Len(transferList)
<1>t. /\ transfers \in Seq(Transfer) /\ transferList \in Seq(Nat)
      /\ commandsToRead \in Seq(Command) /\ responseBuf \in Seq(Nat) /\ crntCmd \in Command
      /\ op.left \in Nat
  BY DEF TypeOK
<1>n. /\ n \in Nat /\ k \in Nat /\ Len(responseBuf) \in Nat /\ Len(transfers) \in Nat
      /\ commandsToRead = << >> <=> n = 0
      /\ transferList = << >> <=> k = 0
  BY <1>t
<1>i. /\ crntCmd.firstRead \in Nat /\ crntCmd.readCount \in Nat /\ NextRead \in Nat
      /\ NextWord \in Nat /\ NextRead = crntCmd.firstRead + crntCmd.readCount
  BY <1>t, NextTypes
<1>c. \A i \in 1..n : /\ commandsToRead[i] \in Command
                      /\ commandsToRead[i].firstRead \in Nat /\ commandsToRead[i].readCount \in Nat
  <2> SUFFICES ASSUME NEW i \in 1..n
               PROVE  /\ commandsToRead[i] \in Command
                      /\ commandsToRead[i].firstRead \in Nat /\ commandsToRead[i].readCount \in Nat
    OBVIOUS
  <2>1. commandsToRead[i] \in Command
    BY <1>t
  <2> QED BY <2>1 DEF Command
<1>x. \A i \in 1..k : /\ transferList[i] \in 1..Len(transfers)
                      /\ Wants(i) \in Nat /\ WantsEnd(i) \in Nat
  <2> SUFFICES ASSUME NEW i \in 1..k
               PROVE  /\ transferList[i] \in 1..Len(transfers)
                      /\ Wants(i) \in Nat /\ WantsEnd(i) \in Nat
    OBVIOUS
  <2>1. transferList[i] \in 1..Len(transfers)
    BY <1>t DEF TypeOK
  <2>2. transfers[transferList[i]] \in Transfer
    BY <2>1, <1>t
  <2> QED BY <2>1, <2>2 DEF Wants, WantsEnd, Transfer
<1>g. NextUnread \in Nat /\ NextUngiven = NextUnread - Len(responseBuf) /\ NextUngiven \in Int
  BY <1>c, <1>i, <1>n DEF NextUnread, NextUngiven
<1>r. ReadsToCome \in Nat /\ (op.left = 0 => ReadsToCome = NextRead)
  BY <1>i, <1>t DEF ReadsToCome
<1> QED BY <1>n, <1>i, <1>c, <1>x, <1>g, <1>r

\* Reading the response of the oldest command moves its words from those not
\* received to those not given: the first of either kind stays the same word.
LEMMA ReadKeepsOrder ==
  ASSUME IInv, commandsToRead # << >>, commandsToRead' = Tail(commandsToRead),
         NEW words \in Seq(Nat), Len(words) = commandsToRead[1].readCount,
         responseBuf' = responseBuf \o words, UNCHANGED crntCmd
  PROVE  /\ NextUnread = commandsToRead[1].firstRead
         /\ NextUngiven' = NextUngiven /\ CommandsInOrder'
<1> DEFINE n == Len(commandsToRead)
           cmd == commandsToRead[1]
<1>t. /\ TypeOK /\ CommandsInOrder
      /\ commandsToRead \in Seq(Command) /\ responseBuf \in Seq(Nat)
  BY DEF IInv, Order, TypeOK
<1>n. n \in Nat /\ n >= 1 /\ crntCmd.firstRead \in Nat
  BY <1>t, OrderTypes
<1>1. cmd \in Command
  BY <1>n, <1>t
<1> HIDE DEF cmd
<1>2. /\ Len(commandsToRead') = n - 1
      /\ \A i \in 1..n - 1 : commandsToRead'[i] = commandsToRead[i + 1]
      /\ commandsToRead' \in Seq(Command)
  BY <1>t, DropHead
<1>3. Len(responseBuf') = Len(responseBuf) + cmd.readCount
  <2>1. Len(responseBuf') = Len(responseBuf) + Len(words)
    BY <1>t, ConcatProperties
  <2> QED BY <2>1 DEF cmd
<1> HIDE DEF n
<1>4. /\ NextUnread = cmd.firstRead /\ cmd.firstRead \in Nat /\ cmd.readCount \in Nat
      /\ cmd.firstRead + cmd.readCount =
           IF n = 1 THEN crntCmd.firstRead ELSE commandsToRead[2].firstRead
  <2>1. 1 \in 1..n
    BY <1>n
  <2>2. NextUnread = cmd.firstRead /\ cmd.firstRead \in Nat /\ cmd.readCount \in Nat
    BY <1>1 DEF NextUnread, Command, cmd
  <2>3. ReadsEnd(commandsToRead[1]) =
          IF 1 = n THEN crntCmd.firstRead ELSE commandsToRead[1 + 1].firstRead
    BY <2>1, <1>t DEF CommandsInOrder, n
  <2> QED BY <2>2, <2>3 DEF ReadsEnd, cmd
<1>5. NextUnread' = NextUnread + cmd.readCount
  <2>1. CASE n = 1
    <3>1. commandsToRead' = << >>
      BY <1>2, <2>1, EmptySeq
    <3> QED BY <3>1, <2>1, <1>4 DEF NextUnread
  <2>2. CASE n # 1
    <3>1. commandsToRead' # << >> /\ commandsToRead'[1] = commandsToRead[1 + 1]
      <4>1. 1 \in 1..n - 1 /\ n - 1 # 0
        BY <2>2, <1>n
      <4> QED BY <4>1, <1>2, EmptySeq
    <3> QED BY <3>1, <2>2, <1>4 DEF NextUnread
  <2> QED BY <2>1, <2>2
<1>6. NextUngiven' = NextUngiven
  <2>1. NextUnread \in Nat /\ Len(responseBuf) \in Nat
    BY <1>t, OrderTypes
  <2> QED BY <2>1, <1>3, <1>4, <1>5 DEF NextUngiven
<1>7. CommandsInOrder'
  <2> SUFFICES ASSUME NEW i \in 1..n - 1
               PROVE  /\ ReadsEnd(commandsToRead'[i]) =
                           IF i = n - 1 THEN crntCmd.firstRead
                           ELSE commandsToRead'[i + 1].firstRead
                      /\ ReadsEnd(commandsToRead'[i]) <= crntCmd.firstRead
    BY <1>2 DEF CommandsInOrder, ReadsEnd
  <2>1. i + 1 \in 1..n /\ commandsToRead'[i] = commandsToRead[i + 1]
    BY <1>2, <1>n
  <2>2. /\ ReadsEnd(commandsToRead[i + 1]) =
             IF i + 1 = n THEN crntCmd.firstRead ELSE commandsToRead[(i + 1) + 1].firstRead
        /\ ReadsEnd(commandsToRead[i + 1]) <= crntCmd.firstRead
    BY <2>1, <1>t DEF CommandsInOrder, n
  <2>3. CASE i = n - 1
    <3>1. i + 1 = n
      BY <2>3, <1>n
    <3> QED BY <3>1, <2>1, <2>2, <2>3
  <2>4. CASE i # n - 1
    <3>1. i + 1 \in 1..n - 1 /\ i + 1 # n
      BY <2>4, <1>n
    <3>2. commandsToRead'[i + 1] = commandsToRead[(i + 1) + 1]
      BY <3>1, <1>2
    <3> QED BY <3>1, <3>2, <2>1, <2>2, <2>4
  <2> QED BY <2>3, <2>4
<1> QED BY <1>4, <1>6, <1>7 DEF cmd

\* Handing out words moves the first word not given by as many.
LEMMA GivingMoves ==
  ASSUME IInv, NEW size \in Nat, size <= Len(responseBuf),
         responseBuf' = SubSeq(responseBuf, size + 1, Len(responseBuf)),
         UNCHANGED <<crntCmd, commandsToRead>>
  PROVE  /\ responseBuf' \in Seq(Nat) /\ Len(responseBuf') = Len(responseBuf) - size
         /\ \A i \in 1..Len(responseBuf) - size : responseBuf'[i] = responseBuf[size + i]
         /\ NextUngiven' = NextUngiven + size
<1> DEFINE m == Len(responseBuf)
<1>t. TypeOK /\ m \in Nat /\ \A i \in 1..m : responseBuf[i] \in Nat
  <2>1. TypeOK /\ responseBuf \in Seq(Nat)
    BY DEF IInv, TypeOK
  <2> QED BY <2>1
<1> HIDE DEF m
<1>1. \A i \in size + 1 .. m : responseBuf[i] \in Nat
  BY <1>t
<1>2. /\ responseBuf' \in Seq(Nat)
      /\ Len(responseBuf') = IF size + 1 <= m THEN m - (size + 1) + 1 ELSE 0
      /\ \A i \in 1..m - (size + 1) + 1 : responseBuf'[i] = responseBuf[size + 1 + i - 1]
  BY <1>1, <1>t, SubSeqProperties DEF m
<1>3. Len(responseBuf') = m - size
  BY <1>2, <1>t DEF m
<1>4. \A i \in 1..m - size : responseBuf'[i] = responseBuf[size + i]
  <2> SUFFICES ASSUME NEW i \in 1..m - size PROVE responseBuf'[i] = responseBuf[size + i]
    OBVIOUS
  <2>1. i \in 1..m - (size + 1) + 1 /\ size + 1 + i - 1 = size + i
    BY <1>t
  <2> QED BY <2>1, <1>2
<1>5. NextUnread' = NextUnread
  BY DEF NextUnread
<1>6. NextUngiven' = NextUngiven + size
  <2>1. PICK u \in Nat : u = NextUnread
    BY <1>t, OrderTypes, Zenon
  <2>2. NextUngiven' = u - (m - size)
    BY <2>1, <1>3, <1>5, Zenon DEF NextUngiven
  <2>3. NextUngiven = u - m
    BY <2>1, Zenon DEF NextUngiven, m
  <2>4. u - (m - size) = (u - m) + size
    BY <1>t
  <2> QED BY <2>2, <2>3, <2>4, Zenon
<1> QED BY <1>2, <1>3, <1>4, <1>6 DEF m

\* Sending the current command makes its first word the first of the last
\* command to read; the first word not received stays the same.
LEMMA SendingKeepsUngiven ==
  ASSUME TypeOK, commandsToRead' = Append(commandsToRead, crntCmd),
         crntCmd' = NewCommand(NextWord, NextRead), UNCHANGED responseBuf
  PROVE  /\ NextUnread' = NextUnread /\ NextUngiven' = NextUngiven
         /\ crntCmd'.firstRead = NextRead /\ NextRead' = NextRead
         /\ commandsToRead' # << >> /\ Len(commandsToRead') = Len(commandsToRead) + 1
         /\ \A i \in 1..Len(commandsToRead) : commandsToRead'[i] = commandsToRead[i]
         /\ commandsToRead'[Len(commandsToRead) + 1] = crntCmd
<1> DEFINE n == Len(commandsToRead)
<1>1. crntCmd'.firstRead = NextRead /\ crntCmd'.readCount = 0
  <2>1. PICK word \in Nat, read \in Nat : word = NextWord /\ read = NextRead
    BY OrderTypes, Zenon
  <2>2. crntCmd' = NewCommand(word, read)
    BY <2>1, Zenon
  <2>3. NewCommand(word, read).firstRead = read /\ NewCommand(word, read).readCount = 0
    BY NewCommandType, Zenon
  <2> QED BY <2>1, <2>2, <2>3, Zenon
<1>2. NextRead' = NextRead
  <2>1. PICK read \in Nat : read = NextRead
    BY OrderTypes, Zenon
  <2>2. NextRead' = crntCmd'.firstRead + crntCmd'.readCount
    BY Zenon DEF NextRead
  <2>3. NextRead' = read + 0
    BY <1>1, <2>1, <2>2, Zenon
  <2>4. read + 0 = read
    OBVIOUS
  <2> QED BY <2>1, <2>3, <2>4, Zenon
<1>3. /\ commandsToRead' # << >> /\ Len(commandsToRead') = n + 1
      /\ \A i \in 1..n : commandsToRead'[i] = commandsToRead[i]
      /\ commandsToRead'[n + 1] = crntCmd
  <2>1. commandsToRead \in Seq(Command) /\ crntCmd \in Command
    BY DEF TypeOK
  <2> QED BY <2>1, AppendProperties
<1>4. n \in Nat /\ (commandsToRead = << >> <=> n = 0)
  BY OrderTypes
<1> HIDE DEF n
<1>5. NextUnread' = NextUnread
  <2>1. CASE n = 0
    BY <2>1, <1>3, <1>4 DEF NextUnread
  <2>2. CASE n # 0
    BY <2>2, <1>3, <1>4 DEF NextUnread
  <2> QED BY <2>1, <2>2
<1> QED BY <1>1, <1>2, <1>3, <1>5 DEF NextUngiven, n

\* The reads of the commands and of the transfers stay in order through every
\* step.
LEMMA OrderStep == IInv /\ [Next]_vars => Order'
<1> SUFFICES ASSUME IInv, [Next]_vars PROVE Order'
  OBVIOUS
<1> DEFINE n == Len(commandsToRead)
           k == Len(transferList)
<1>t. /\ TypeOK /\ Control /\ CommandsInOrder /\ TransfersInOrder
      /\ transfers \in Seq(Transfer) /\ transferList \in Seq(Nat)
      /\ commandsToRead \in Seq(Command) /\ responseBuf \in Seq(Nat) /\ crntCmd \in Command
      /\ op.left \in Nat /\ op.request \in Requests \cup {NoRequest}
  BY DEF IInv, Order, TypeOK
<1>n. /\ n \in Nat /\ k \in Nat /\ Len(responseBuf) \in Nat /\ Len(transfers) \in Nat
      /\ commandsToRead = << >> <=> n = 0
      /\ transferList = << >> <=> k = 0
  BY <1>t, OrderTypes
<1>i. /\ crntCmd.firstRead \in Nat /\ crntCmd.readCount \in Nat /\ NextRead \in Nat
      /\ NextWord \in Nat /\ NextRead = crntCmd.firstRead + crntCmd.readCount
      /\ ReadsToCome \in Nat /\ (op.left = 0 => ReadsToCome = NextRead)
  BY <1>t, OrderTypes
<1>c. \A i \in 1..n : commandsToRead[i].firstRead \in Nat /\ commandsToRead[i].readCount \in Nat
  BY <1>t, OrderTypes
<1>x. \A i \in 1..k : transferList[i] \in 1..Len(transfers)
  BY <1>t, OrderTypes
<1> HIDE DEF n, k
\* The two halves of Order.
<1>a. ASSUME UNCHANGED commandsToRead, crntCmd'.firstRead = crntCmd.firstRead
      PROVE  CommandsInOrder' /\ NextUnread' = NextUnread
  BY <1>a, <1>t DEF CommandsInOrder, ReadsEnd, NextUnread
<1>b. ASSUME UNCHANGED <<transfers, transferList>>,
             NextUngiven' = NextUngiven, ReadsToCome' = ReadsToCome
      PROVE  TransfersInOrder'
  BY <1>b, <1>t DEF TransfersInOrder, Wants, WantsEnd
\* Steps that leave the pipeline as it is.
<1>f. ASSUME UNCHANGED dapVars, ReadsToCome' = ReadsToCome
      PROVE  Order'
  <2>1. CommandsInOrder' /\ NextUnread' = NextUnread
    BY <1>f, <1>a DEF dapVars
  <2>2. NextUngiven' = NextUngiven
    BY <2>1, <1>f DEF NextUngiven, dapVars
  <2>3. TransfersInOrder'
    BY <2>2, <1>f, <1>b DEF dapVars
  <2> QED BY <2>1, <2>3 DEF Order
<1>z. ASSUME UNCHANGED dapVars, op.left = 0, op'.left = 0 \/ op'.request \notin ReadRequests
      PROVE  Order'
  <2>1. NextRead' = NextRead
    BY <1>z DEF NextRead, dapVars
  <2>2. ReadsToCome' = ReadsToCome
    BY <2>1, <1>z, <1>i, <1>i DEF ReadsToCome
  <2> QED BY <2>2, <1>z, <1>f
<1>u. ASSUME UNCHANGED <<dapVars, op>> PROVE Order'
  BY <1>u, <1>f DEF ReadsToCome, NextRead, dapVars
<1>l. ASSUME Idle \/ At("get") \/ At("now") PROVE op.left = 0
  <2>1. todo \in Seq(Labels)
    BY <1>t DEF TypeOK
  <2>2. Len(todo) \in Nat /\ (todo = << >> => Len(todo) = 0) /\ (todo # << >> => Head(todo) = todo[1])
    BY <2>1
  <2>3. ~InWrite
    BY <2>2, <1>l DEF Idle, At, InWrite
  <2> QED BY <2>3, <1>t DEF Control, Writing
<1>e. NoOp.left = 0 /\ NoOp.request = NoRequest /\ NoRequest \notin ReadRequests
  BY RequestsAssumption DEF NoOp, Requests
\* An abort leaves nothing that could be out of order.
<1>v. ASSUME NEW error \in Errors, NEW pendingReads \in Nat, AbortAllTransfers(error, pendingReads)
      PROVE  Order'
  <2>1. /\ transferList' = << >> /\ commandsToRead' = << >> /\ responseBuf' = << >>
        /\ crntCmd' = NewCommand(NextWord, NextRead) /\ op' = NoOp
    BY <1>v, <1>t, AbortType
  <2>2. crntCmd'.firstRead = NextRead /\ crntCmd'.readCount = 0
    BY <2>1, <1>i, NewCommandType
  <2>3. NextUngiven' = NextRead
    BY <2>1, <2>2, <1>i DEF NextUngiven, NextUnread
  <2>4. ReadsToCome' = NextRead
    BY <2>1, <2>2, <1>i, <1>e DEF ReadsToCome, NextRead
  <2>5. CommandsInOrder'
    BY <2>1 DEF CommandsInOrder
  <2>6. TransfersInOrder'
    BY <2>1, <2>3, <2>4 DEF TransfersInOrder
  <2> QED BY <2>5, <2>6 DEF Order
\* The calls.
<1>1. CASE \E request \in WriteRequests, count \in Counts : WriteReg(request, count)
  <2>1. PICK request \in WriteRequests, count \in Counts : WriteReg(request, count)
    BY <1>1
  <2>2. UNCHANGED dapVars /\ op'.request \notin ReadRequests /\ op.left = 0
    BY <2>1, <1>l, RequestsAssumption DEF WriteReg
  <2> QED BY <2>2, <1>z
<1>2. CASE \E request \in ReadRequests, count \in Counts, now \in BOOLEAN :
             ReadReg(request, count, now)
  <2>1. PICK request \in ReadRequests, count \in Counts, now \in BOOLEAN :
          ReadReg(request, count, now)
    BY <1>2
  <2> DEFINE new == [firstRead |-> NextRead, count |-> count,
                     result |-> NoResult, error |-> NoError]
             m == Len(transfers) + 1
  <2>2. /\ op.left = 0 /\ ReadsToCome = NextRead /\ count \in Nat
        /\ transfers' = Append(transfers, new) /\ transferList' = Append(transferList, m)
        /\ op'.request \in ReadRequests /\ op'.left = count
        /\ UNCHANGED <<crntCmd, commandsToRead, responseBuf>>
    BY <2>1, <1>l, <1>i, PipelineAssumption DEF ReadReg
  <2>3. CommandsInOrder' /\ NextUnread' = NextUnread
    BY <2>2, <1>a
  <2>4. NextUngiven' = NextUngiven /\ NextRead' = NextRead
    BY <2>2, <2>3 DEF NextUngiven, NextRead
  <2>5. ReadsToCome' = NextRead + count
    BY <2>2, <2>4 DEF ReadsToCome
  <2>6. /\ \A t \in 1..Len(transfers) : transfers'[t] = transfers[t]
        /\ transfers'[m] = new /\ m \in Nat
    BY <2>2, <1>t, <1>n
  <2>8. new.firstRead = NextRead /\ new.count = count
    OBVIOUS
  <2> HIDE DEF new, m
  <2>7. /\ transferList' # << >> /\ Len(transferList') = k + 1
        /\ \A i \in 1..k : transferList'[i] = transferList[i]
        /\ transferList'[k + 1] = m
    <3>1. transferList' = Append(transferList, m) /\ transferList \in Seq(Nat) /\ m \in Nat
      BY <2>2, <2>6, <1>t
    <3> QED BY <3>1, AppendProperties DEF k
  <2>9. \A i : i = k + 1 => Wants(i)' = NextRead /\ WantsEnd(i)' = NextRead + count
    BY <2>6, <2>7, <2>8 DEF Wants, WantsEnd
  <2>10. \A i \in 1..k : Wants(i)' = Wants(i) /\ WantsEnd(i)' = WantsEnd(i)
    BY <2>6, <2>7, <1>x DEF Wants, WantsEnd
  <2>11. Wants(1)' = NextUngiven
    <3>1. CASE k = 0
      <4>1. transferList = << >> /\ 1 = k + 1
        BY <3>1, <1>n DEF k
      <4>2. NextUngiven = NextRead
        BY <4>1, <2>2, <1>t DEF TransfersInOrder
      <4> QED BY <4>1, <4>2, <2>9
    <3>2. CASE k # 0
      <4>1. transferList # << >> /\ 1 \in 1..k
        BY <3>2, <1>n DEF k
      <4> QED BY <4>1, <2>10, <1>t DEF TransfersInOrder
    <3> QED BY <3>1, <3>2
  <2>12. \A i \in 1..k + 1 :
           WantsEnd(i)' = IF i = k + 1 THEN ReadsToCome' ELSE Wants(i + 1)'
    <3> SUFFICES ASSUME NEW i \in 1..k + 1
                 PROVE  WantsEnd(i)' = IF i = k + 1 THEN ReadsToCome' ELSE Wants(i + 1)'
      OBVIOUS
    <3>1. CASE i = k + 1
      BY <3>1, <2>9, <2>5
    <3>2. CASE i = k /\ i # k + 1
      <4>1. i \in 1..k
        BY <3>2, <1>n
      <4>2. WantsEnd(i) = ReadsToCome
        BY <4>1, <3>2, <1>t DEF TransfersInOrder, k
      <4>3. i + 1 = k + 1
        BY <3>2
      <4> QED BY <4>1, <4>2, <4>3, <3>2, <2>9, <2>10, <2>2
    <3>3. CASE i \in 1..k /\ i + 1 \in 1..k
      <4>1. WantsEnd(i) = Wants(i + 1)
        BY <3>3, <1>n, <1>t DEF TransfersInOrder, k
      <4> QED BY <4>1, <3>3, <2>10, <1>n
    <3> QED BY <3>1, <3>2, <3>3, <1>n
  <2>13. TransfersInOrder'
    BY <2>7, <2>11, <2>12, <2>4 DEF TransfersInOrder
  <2> QED BY <2>3, <2>13 DEF Order
<1>3. CASE \E t \in callbacks : GetResult(t)
  <2>1. UNCHANGED dapVars /\ op.left = 0 /\ op'.left = 0
    BY <1>3, <1>l DEF GetResult
  <2> QED BY <2>1, <1>z
<1>4. CASE Flush \/ (\E enable \in BOOLEAN : SetDeferredTransfer(enable))
           \/ (\E commands \in {<<"protoPut">>, <<"protoPut", "protoPut">>} :
                 ProtocolCommand(commands))
  BY <1>4, <1>u DEF Flush, SetDeferredTransfer, ProtocolCommand, callVars
\* The methods.
<1>5. CASE FillAdd
  <2> DEFINE size == GetRequestSpace(crntCmd, op.left, op.request)
             asRead == IF op.request \in ReadRequests THEN size ELSE 0
  <2>1. /\ size \in 0..op.left
        /\ crntCmd' = Add(crntCmd, size, op.request) /\ op' = [op EXCEPT !.left = @ - size]
        /\ UNCHANGED <<transfers, transferList, commandsToRead, responseBuf>>
    BY <1>5, <1>t, SpaceType DEF FillAdd
  <2>2. op'.left = op.left - size /\ op'.request = op.request
    BY <2>1, <1>t DEF TypeOK
  <2>3. size \in Nat
    BY <2>1, <1>t
  <2> HIDE DEF size
  <2>4. crntCmd'.firstRead = crntCmd.firstRead /\ crntCmd'.readCount = crntCmd.readCount + asRead
    BY <2>1, <2>3, <1>t, AddType
  <2>5. CommandsInOrder' /\ NextUngiven' = NextUngiven
    BY <2>1, <2>4, <1>a DEF NextUngiven
  <2>6. NextRead' = NextRead + asRead
    BY <2>4, <2>3, <1>i DEF NextRead
  <2>7. ReadsToCome' = ReadsToCome
    <3>1. CASE op.request \in ReadRequests
      <4>1. NextRead' = NextRead + size /\ op'.request \in ReadRequests
        BY <3>1, <2>2, <2>6
      <4>2. ReadsToCome' = NextRead' + op'.left /\ ReadsToCome = NextRead + op.left
        BY <3>1, <4>1 DEF ReadsToCome
      <4>3. op.left \in Nat /\ NextRead \in Nat
        BY <1>t, <1>i
      <4> QED BY <4>1, <4>2, <4>3, <2>2, <2>3
    <3>2. CASE op.request \notin ReadRequests
      <4>1. NextRead' = NextRead + 0 /\ op'.request \notin ReadRequests
        BY <3>2, <2>2, <2>6
      <4> QED BY <3>2, <4>1, <1>i DEF ReadsToCome
    <3> QED BY <3>1, <3>2
  <2> QED BY <2>1, <2>5, <2>7, <1>b DEF Order
<1>6. CASE FillEnd
  <2>1. UNCHANGED dapVars /\ op.left = 0 /\ op'.left = 0
    BY <1>6, <1>t DEF FillEnd, TypeOK
  <2> QED BY <2>1, <1>z
<1>7. CASE ReturnTransfer \/ GetResultTurn
  <2>1. UNCHANGED dapVars /\ op.left = 0
    BY <1>7, <1>l DEF ReturnTransfer, GetResultTurn
  <2>2. op' = NoOp \/ op' = op
    BY <1>7 DEF ReturnTransfer, GetResultTurn
  <2> QED BY <2>1, <2>2, <1>e, <1>z
<1>8. CASE SendPacketWrite
  <2>1. /\ commandsToRead' = Append(commandsToRead, crntCmd)
        /\ crntCmd' = NewCommand(NextWord, NextRead)
        /\ UNCHANGED <<transfers, transferList, responseBuf, op>>
    BY <1>8 DEF SendPacketWrite, callVars
  <2>2. /\ crntCmd'.firstRead = NextRead /\ NextRead' = NextRead /\ NextUngiven' = NextUngiven
        /\ Len(commandsToRead') = n + 1
        /\ \A i \in 1..n : commandsToRead'[i] = commandsToRead[i]
        /\ commandsToRead'[n + 1] = crntCmd
    BY <2>1, <1>t, SendingKeepsUngiven DEF n
  <2>4. ReadsToCome' = ReadsToCome
    BY <2>2, <2>1 DEF ReadsToCome
  <2>7. TransfersInOrder'
    BY <2>2, <2>4, <2>1, <1>b
  <2>8. CommandsInOrder'
    <3> SUFFICES ASSUME NEW i \in 1..n + 1
                 PROVE  /\ ReadsEnd(commandsToRead'[i]) =
                             IF i = n + 1 THEN NextRead ELSE commandsToRead'[i + 1].firstRead
                        /\ ReadsEnd(commandsToRead'[i]) <= NextRead
      BY <2>2 DEF CommandsInOrder, ReadsEnd
    <3>1. CASE i = n + 1
      BY <3>1, <2>2, <1>i DEF ReadsEnd
    <3>2. ASSUME i \in 1..n PROVE ReadsEnd(commandsToRead[i]) <= NextRead
      <4>1. ReadsEnd(commandsToRead[i]) <= crntCmd.firstRead
        BY <3>2, <1>t DEF CommandsInOrder, n
      <4>2. ReadsEnd(commandsToRead[i]) \in Nat
        BY <3>2, <1>c DEF ReadsEnd
      <4> QED BY <4>1, <4>2, <1>i
    <3>3. CASE i = n /\ i # n + 1
      <4>1. i \in 1..n
        BY <3>3, <1>n
      <4>2. ReadsEnd(commandsToRead[i]) = crntCmd.firstRead
        BY <4>1, <3>3, <1>t DEF CommandsInOrder, n
      <4> QED BY <4>1, <4>2, <3>2, <3>3, <2>2
    <3>4. CASE i \in 1..n /\ i + 1 \in 1..n
      <4>1. ReadsEnd(commandsToRead[i]) = commandsToRead[i + 1].firstRead
        BY <3>4, <1>n, <1>t DEF CommandsInOrder, n
      <4> QED BY <4>1, <3>2, <3>4, <2>2, <1>n
    <3> QED BY <3>1, <3>3, <3>4, <1>n
  <2> QED BY <2>7, <2>8 DEF Order
<1>9. CASE SendPacketFails
  BY <1>9, <1>v, <1>n DEF SendPacketFails, Errors, n
<1>10. CASE ReadPacket
  <2> DEFINE cmd == Head(commandsToRead)
             response == Head(usbIn)
  <2>1. commandsToRead # << >> /\ usbIn # << >>
    BY <1>10, <1>t DEF ReadPacket, Control, ReadHasCommand
  <2>2. cmd \in Command /\ cmd = commandsToRead[1]
    BY <2>1, <1>t
  <2>3. response \in Responses /\ (response.status = "DAP_ERROR" => response.kind = "OTHER")
    <3>1. usbIn \in Seq(Responses)
      BY <1>t DEF TypeOK
    <3>2. response = usbIn[1] /\ 1 \in 1..Len(usbIn) /\ response \in Responses
      BY <3>1, <2>1
    <3> QED BY <3>2 DEF IInv, RefusalsAreProtocol
  <2>4. n >= 1
    BY <2>1, <1>n
  <2> HIDE DEF cmd, response
  <2>5. CASE /\ DecodeError(cmd, response) # NoError
             /\ AbortAllTransfers(DecodeError(cmd, response), n - 1)
    <3>1. n - 1 \in Nat
      BY <2>4, <1>n
    <3> QED BY <3>1, <2>5, <2>2, <2>3, <1>v, DecodeErrorType
  <2>6. CASE /\ commandsToRead' = Tail(commandsToRead)
             /\ responseBuf' = responseBuf \o Decode(cmd, response)
             /\ UNCHANGED <<transfers, transferList, crntCmd, op>>
    <3> DEFINE words == Decode(cmd, response)
    <3>1. words \in Seq(Nat) /\ Len(words) = cmd.readCount
      BY <2>2, <2>3, DecodeType
    <3>2. responseBuf' = responseBuf \o words
      BY <2>6
    <3> HIDE DEF words
    <3>3. NextUngiven' = NextUngiven /\ CommandsInOrder'
      BY <3>1, <3>2, <2>1, <2>2, <2>6, ReadKeepsOrder
    <3>4. TransfersInOrder'
      BY <3>3, <2>6, <1>b DEF ReadsToCome, NextRead
    <3> QED BY <3>3, <3>4 DEF Order
  <2> QED BY <1>10, <2>5, <2>6 DEF ReadPacket, cmd, response, n
<1>11. CASE Attach
  <2> DEFINE t == Head(transferList)
             size == transfers[t].count
  <2>1. CASE UNCHANGED <<dapVars, callVars>>
    BY <2>1, <1>u DEF callVars
  <2>2. CASE /\ responseBuf # << >> /\ ~(size > Len(responseBuf))
             /\ transfers' = [transfers EXCEPT ![t].result = SubSeq(responseBuf, 1, size)]
             /\ transferList' = Tail(transferList)
             /\ responseBuf' = SubSeq(responseBuf, size + 1, Len(responseBuf))
             /\ UNCHANGED <<crntCmd, commandsToRead, op>>
    <3>1. transferList # << >>
      BY <2>2, SomeoneWaits
    <3>2. t = transferList[1] /\ t \in 1..Len(transfers) /\ 1 \in 1..k /\ k >= 1
      <4>1. 1 \in 1..k /\ k >= 1
        BY <3>1, <1>n
      <4> QED BY <4>1, <3>1, <1>t, <1>x
    <3>3. transfers[t] \in Transfer
      BY <3>2, <1>t
    <3>4. size \in Nat /\ WantsEnd(1) = Wants(1) + size
      BY <3>2, <3>3 DEF Transfer, WantsEnd, Wants
    <3>5. /\ Len(transferList') = k - 1
          /\ \A i \in 1..k - 1 : transferList'[i] = transferList[i + 1]
          /\ transferList' \in Seq(Nat)
      BY <3>1, <2>2, <1>t, DropHead DEF k
    <3>6. \A s \in 1..Len(transfers) : /\ transfers'[s].firstRead = transfers[s].firstRead
                                       /\ transfers'[s].count = transfers[s].count
      <4> DEFINE words == SubSeq(responseBuf, 1, size)
      <4>1. transfers' = [transfers EXCEPT ![t].result = words]
        BY <2>2
      <4> HIDE DEF t, words
      <4> SUFFICES ASSUME NEW s \in 1..Len(transfers)
                   PROVE  /\ transfers'[s].firstRead = transfers[s].firstRead
                          /\ transfers'[s].count = transfers[s].count
        OBVIOUS
      <4>2. transfers[s] \in Transfer
        BY <1>t
      <4>3. transfers'[s] \in {transfers[s], [transfers[s] EXCEPT !.result = words]}
        BY <4>1, <1>t
      <4> QED BY <4>2, <4>3 DEF Transfer
    <3>7. size <= Len(responseBuf)
      BY <2>2, <3>4, <1>n
    <3> HIDE DEF size, t
    <3>8. CommandsInOrder' /\ NextUnread' = NextUnread
      BY <2>2, <1>a
    <3>9. NextUngiven' = NextUngiven + size
      BY <3>7, <3>4, <2>2, GivingMoves DEF size, t
    <3>10. NextUngiven' = WantsEnd(1)
      BY <3>9, <3>4, <3>1, <1>t DEF TransfersInOrder
    <3>11. ReadsToCome' = ReadsToCome
      BY <2>2 DEF ReadsToCome, NextRead
    <3>12. \A i \in 1..k - 1 : Wants(i)' = Wants(i + 1) /\ WantsEnd(i)' = WantsEnd(i + 1)
      <4> SUFFICES ASSUME NEW i \in 1..k - 1
                   PROVE  Wants(i)' = Wants(i + 1) /\ WantsEnd(i)' = WantsEnd(i + 1)
        OBVIOUS
      <4>1. i + 1 \in 1..k /\ transferList'[i] = transferList[i + 1]
        BY <3>5, <1>n
      <4>2. transferList[i + 1] \in 1..Len(transfers)
        BY <4>1, <1>x
      <4> QED BY <4>1, <4>2, <3>6 DEF Wants, WantsEnd
    <3>13. \A i \in 1..k : WantsEnd(i) = IF i = k THEN ReadsToCome ELSE Wants(i + 1)
      BY <1>t DEF TransfersInOrder, k
    <3>14. transferList' = << >> => NextUngiven' = ReadsToCome'
      <4> SUFFICES ASSUME transferList' = << >> PROVE NextUngiven' = ReadsToCome'
        OBVIOUS
      <4>1. k = 1
        BY <3>5, <3>2, <1>n
      <4> QED BY <4>1, <3>13, <3>10, <3>11, <3>2
    <3>15. transferList' # << >> => Wants(1)' = NextUngiven'
      <4> SUFFICES ASSUME transferList' # << >> PROVE Wants(1)' = NextUngiven'
        OBVIOUS
      <4>1. k # 1 /\ 1 \in 1..k - 1
        BY <3>5, <3>2, <1>n, EmptySeq
      <4>2. WantsEnd(1) = Wants(1 + 1)
        BY <4>1, <3>13, <3>2
      <4> QED BY <4>1, <4>2, <3>12, <3>10
    <3>16. \A i \in 1..k - 1 : WantsEnd(i)' = IF i = k - 1 THEN ReadsToCome' ELSE Wants(i + 1)'
      <4> SUFFICES ASSUME NEW i \in 1..k - 1
                   PROVE  WantsEnd(i)' = IF i = k - 1 THEN ReadsToCome' ELSE Wants(i + 1)'
        OBVIOUS
      <4>1. i + 1 \in 1..k /\ (i + 1 = k <=> i = k - 1)
        BY <1>n
      <4>2. WantsEnd(i)' = IF i + 1 = k THEN ReadsToCome ELSE Wants((i + 1) + 1)
        BY <4>1, <3>12, <3>13
      <4>3. i # k - 1 => i + 1 \in 1..k - 1
        BY <1>n
      <4> QED BY <4>1, <4>2, <4>3, <3>11, <3>12
    <3>17. TransfersInOrder'
      BY <3>5, <3>14, <3>15, <3>16 DEF TransfersInOrder
    <3> QED BY <3>8, <3>17 DEF Order
  <2> QED BY <1>11, <2>1, <2>2 DEF Attach, Return, callVars
<1>12. CASE FillNoRoom \/ SendPacket \/ Drain \/ SetDeferredEnd \/ ProtocolWrite
            \/ ProtocolWriteFails \/ ProtocolRead \/ AbortDrain
  BY <1>12, <1>u DEF FillNoRoom, SendPacket, Drain, SetDeferredEnd, ProtocolWrite,
                     ProtocolWriteFails, ProtocolRead, AbortDrain, callVars
<1>13. CASE Probe \/ UNCHANGED vars
  BY <1>13, <1>u DEF Probe, ProbeExecutes, ProbeFaults, ProbeRefuses, ResponseLost,
                     SpareReadTimesOut, Answer, callVars, vars
<1> QED BY <1>1, <1>2, <1>3, <1>4, <1>5, <1>6, <1>7, <1>8, <1>9, <1>10, <1>11, <1>12, <1>13
        DEF Next, Calls, Host

-----------------------------------------------------------------------------
(* Every step keeps the commands encodable.                                *)

\* Every step leaves commands that fit: FillAdd adds no more than there is
\* space for.
LEMMA FitStep == IInv /\ [Next]_vars => AllFit'
<1> SUFFICES ASSUME IInv, [Next]_vars PROVE AllFit'
  OBVIOUS
<1>t. /\ TypeOK /\ commandsToRead \in Seq(Command) /\ crntCmd \in Command
      /\ op.left \in Nat /\ op.request \in Requests \cup {NoRequest}
      /\ Fits(crntCmd) /\ Encodable(crntCmd)
      /\ \A i \in 1..Len(commandsToRead) : Encodable(commandsToRead[i])
  BY DEF IInv, TypeOK, AllFit, Fits
<1>u. ASSUME UNCHANGED <<crntCmd, commandsToRead>> PROVE AllFit'
  BY <1>u, <1>t DEF AllFit, Fits, Encodable, Size
<1>v. ASSUME NEW error, NEW pendingReads, AbortAllTransfers(error, pendingReads) PROVE AllFit'
  <2>1. commandsToRead' = << >> /\ crntCmd' = NewCommand(NextWord, NextRead)
    BY <1>v DEF AbortAllTransfers
  <2>2. Fits(crntCmd')
    BY <2>1, NewCommandFits
  <2> QED BY <2>1, <2>2 DEF AllFit
<1>1. CASE FillAdd
  <2> DEFINE size == GetRequestSpace(crntCmd, op.left, op.request)
  <2>1. /\ size > 0 /\ crntCmd' = Add(crntCmd, size, op.request)
        /\ op.left > 0 /\ UNCHANGED commandsToRead
    BY <1>1 DEF FillAdd
  <2>2. op.request \in Requests
    BY <2>1 DEF IInv, Control, Writing
  <2>3. Fits(crntCmd')
    BY <2>1, <2>2, <1>t, AddFits
  <2> QED BY <2>1, <2>3, <1>t DEF AllFit
<1>2. CASE SendPacketWrite
  <2>1. /\ commandsToRead' = Append(commandsToRead, crntCmd)
        /\ crntCmd' = NewCommand(NextWord, NextRead)
    BY <1>2 DEF SendPacketWrite
  <2>2. Fits(crntCmd')
    BY <2>1, NewCommandFits
  <2>3. ASSUME NEW i \in 1..Len(commandsToRead') PROVE Encodable(commandsToRead'[i])
    <3>1. /\ Len(commandsToRead) \in Nat /\ Len(commandsToRead') = Len(commandsToRead) + 1
          /\ \A j \in 1..Len(commandsToRead) : commandsToRead'[j] = commandsToRead[j]
          /\ commandsToRead'[Len(commandsToRead) + 1] = crntCmd
      BY <2>1, <1>t, AppendProperties
    <3>2. i \in 1..Len(commandsToRead) \/ i = Len(commandsToRead) + 1
      BY <3>1
    <3> QED BY <3>1, <3>2, <1>t
  <2> QED BY <2>2, <2>3 DEF AllFit
<1>3. CASE SendPacketFails
  BY <1>3, <1>v DEF SendPacketFails
<1>4. CASE ReadPacket
  <2>1. CASE \E error : AbortAllTransfers(error, Len(commandsToRead) - 1)
    BY <2>1, <1>v
  <2>2. CASE commandsToRead' = Tail(commandsToRead) /\ UNCHANGED crntCmd
    <3>1. commandsToRead # << >>
      BY <1>4 DEF ReadPacket, IInv, Control, ReadHasCommand
    <3>2. ASSUME NEW i \in 1..Len(commandsToRead') PROVE Encodable(commandsToRead'[i])
      <4>1. /\ Len(commandsToRead) \in Nat /\ Len(commandsToRead') = Len(commandsToRead) - 1
            /\ \A j \in 1..Len(commandsToRead) - 1 : commandsToRead'[j] = commandsToRead[j + 1]
        BY <3>1, <2>2, <1>t, DropHead
      <4>2. i + 1 \in 1..Len(commandsToRead) /\ commandsToRead'[i] = commandsToRead[i + 1]
        BY <4>1
      <4> QED BY <4>2, <1>t
    <3>3. Fits(crntCmd')
      BY <2>2, <1>t
    <3> QED BY <3>2, <3>3 DEF AllFit
  <2> QED BY <1>4, <2>1, <2>2 DEF ReadPacket
<1>5. CASE Attach
  BY <1>5, <1>u DEF Attach, dapVars
<1>6. CASE Calls
  BY <1>6, <1>u DEF Calls, WriteReg, ReadReg, GetResult, Flush, SetDeferredTransfer,
                    ProtocolCommand, dapVars
<1>7. CASE FillNoRoom \/ FillEnd \/ ReturnTransfer \/ SendPacket \/ Drain \/ GetResultTurn
           \/ SetDeferredEnd \/ ProtocolWrite \/ ProtocolWriteFails \/ ProtocolRead \/ AbortDrain
  BY <1>7, <1>u DEF FillNoRoom, FillEnd, ReturnTransfer, SendPacket, Drain, GetResultTurn,
                    SetDeferredEnd, ProtocolWrite, ProtocolWriteFails, ProtocolRead, AbortDrain,
                    dapVars
<1>8. CASE Probe \/ UNCHANGED vars
  BY <1>8, <1>u DEF Probe, ProbeExecutes, ProbeFaults, ProbeRefuses, ResponseLost,
                    SpareReadTimesOut, Answer, dapVars, vars
<1> QED BY <1>1, <1>2, <1>3, <1>4, <1>5, <1>6, <1>7, <1>8 DEF Next, Host

-----------------------------------------------------------------------------
(* The invariant, and the types.                                           *)

\* A new DAPAccessCMSISDAP satisfies the invariant.
LEMMA InitIInv == Init => IInv
<1> SUFFICES ASSUME Init PROVE IInv
  OBVIOUS
<1>1. /\ transfers = << >> /\ transferList = << >> /\ commandsToRead = << >>
      /\ responseBuf = << >> /\ todo = << >> /\ usbOut = << >> /\ usbIn = << >>
      /\ crntCmd = NewCommand(0, 0) /\ op = NoOp
  BY DEF Init
<1>2. /\ crntCmd \in Command /\ crntCmd.firstRead = 0 /\ crntCmd.readCount = 0
      /\ Fits(crntCmd)
  BY <1>1, NewCommandType, NewCommandFits
<1>3. TypeOK
  <2>1. /\ << >> \in Seq(Transfer) /\ << >> \in Seq(Nat) /\ << >> \in Seq(Command)
        /\ << >> \in Seq(Labels) /\ << >> \in Seq(Packets) /\ << >> \in Seq(Responses)
        /\ Len(<< >>) = 0
    OBVIOUS
  <2>2. NoOp \in [request : Requests \cup {NoRequest}, left : Nat, transfer : 0..0]
    BY DEF NoOp, NoTransfer
  <2>3. /\ deferred \in BOOLEAN /\ callbacks = {} /\ raised = NoError /\ done = {}
        /\ spareReads = 0 /\ usbFailures = 0 /\ owed = 0 /\ 0 \in 0..MaxUsbFailures
    BY PipelineAssumption DEF Init
  <2> QED BY <1>1, <1>2, <2>1, <2>2, <2>3 DEF TypeOK
<1>4. Control
  <2>1. Len(todo) = 0 /\ Len(commandsToRead) = 0 /\ op.left = 0 /\ MaxPackets \in Nat
    BY <1>1, PipelineAssumption DEF NoOp
  <2>2. Stacked(todo) /\ ~HandsOut(todo)
    BY <2>1 DEF Stacked, HandsOut
  <2>3. HasRoom
    BY <2>1, <1>1, PipelineAssumption DEF HasRoom, WritesNext, At
  <2> QED BY <2>1, <2>2, <2>3, <1>1 DEF Control, ReadHasCommand, Quiet, Writing, HasTransfer, At
<1>5. RefusalsAreProtocol
  BY <1>1 DEF RefusalsAreProtocol
<1>6. Order
  <2>1. NextUngiven = 0 /\ ReadsToCome = 0
    BY <1>1, <1>2 DEF NextUngiven, NextUnread, ReadsToCome, NextRead, NoOp
  <2> QED BY <2>1, <1>1 DEF Order, CommandsInOrder, TransfersInOrder
<1>7. AllFit
  BY <1>1, <1>2 DEF AllFit
<1> QED BY <1>3, <1>4, <1>5, <1>6, <1>7 DEF IInv

\* Every step keeps it.
LEMMA NextIInv == IInv /\ [Next]_vars => IInv'
BY ControlStep, RefusalsStep, TypeStep, OrderStep, FitStep DEF IInv

\* In every behaviour the variables hold what the code keeps in them.
THEOREM PipelineTypeCorrect == Spec => []TypeOK
<1>1. IInv => TypeOK
  BY DEF IInv
<1> QED BY InitIInv, NextIInv, <1>1, PTL DEF Spec

\* _get_request_space keeps encode_data's buffers large enough: whatever is
\* requested and however much the probe's packets hold, every command being
\* filled or waiting for its response fits a packet, and so does its answer.
CommandsEncodable ==
  /\ Encodable(crntCmd)
  /\ \A i \in 1..Len(commandsToRead) : Encodable(commandsToRead[i])

\* In every behaviour the commands can be encoded and answered.
THEOREM PacketsFit == Spec => []CommandsEncodable
<1>1. IInv => CommandsEncodable
  BY DEF IInv, AllFit, Fits, CommandsEncodable
<1> QED BY InitIInv, NextIInv, <1>1, PTL DEF Spec

-----------------------------------------------------------------------------
(* Transfers are settled once.                                             *)

Settled(t) == transfers[t].result # NoResult \/ transfers[t].error # NoError
Waits(t) == \E i \in 1..Len(transferList) : transferList[i] = t

\* The list names each transfer that has neither words nor an error, once and
\* in the order they were requested, and no other.
WaitingInv ==
  /\ \A i, j \in 1..Len(transferList) : i < j => transferList[i] < transferList[j]
  /\ \A t \in 1..Len(transfers) : Settled(t) <=> ~Waits(t)

\* What a step can do to the transfers and their list: nothing; a new
\* one joins; all that wait fail; the oldest of them takes its words.
Requested ==
  /\ transferList' = Append(transferList, Len(transfers) + 1)
  /\ \E new \in Transfer : /\ new.result = NoResult /\ new.error = NoError
                           /\ transfers' = Append(transfers, new)
Aborted == \E error \in Errors : transfers' = FailWaiting(error) /\ transferList' = << >>
Given ==
  /\ transferList # << >> /\ transferList' = Tail(transferList)
  /\ \E words \in Seq(Nat) \ {NoResult} :
       transfers' = [transfers EXCEPT ![Head(transferList)].result = words]

LEMMA WhatBecomesOfTransfers ==
  ASSUME IInv, [Next]_vars
  PROVE  UNCHANGED <<transfers, transferList>> \/ Requested \/ Aborted \/ Given
<1>t. /\ TypeOK /\ responseBuf \in Seq(Nat) /\ Len(responseBuf) \in Nat
      /\ transfers \in Seq(Transfer) /\ Len(transfers) \in Nat
  BY DEF IInv, TypeOK
<1>1. CASE \E request \in ReadRequests, count \in Counts, now \in BOOLEAN :
             ReadReg(request, count, now)
  <2>1. PICK request \in ReadRequests, count \in Counts, now \in BOOLEAN :
          ReadReg(request, count, now)
    BY <1>1
  <2> DEFINE new == [firstRead |-> NextRead, count |-> count,
                     result |-> NoResult, error |-> NoError]
  <2>2. new \in Transfer /\ new.result = NoResult /\ new.error = NoError
    <3>1. NextRead \in Nat /\ count \in Nat \ {0} /\ NoResult \in Seq(Nat)
      BY <1>t, NextTypes, PipelineAssumption DEF PipelineAssumption, NoResult
    <3> QED BY <3>1 DEF Transfer
  <2>3. transfers' = Append(transfers, new) /\ transferList' = Append(transferList, Len(transfers) + 1)
    BY <2>1 DEF ReadReg
  <2> HIDE DEF new
  <2> QED BY <2>2, <2>3 DEF Requested
<1>2. CASE SendPacketFails
  BY <1>2 DEF SendPacketFails, AbortAllTransfers, Aborted, Errors
<1>3. CASE ReadPacket
  <2> DEFINE cmd == Head(commandsToRead)
             response == Head(usbIn)
  <2>1. CASE UNCHANGED <<transfers, transferList>>
    BY <2>1
  <2>2. CASE /\ DecodeError(cmd, response) # NoError
             /\ AbortAllTransfers(DecodeError(cmd, response), Len(commandsToRead) - 1)
    <3>1. cmd \in Command
      BY <1>3 DEF ReadPacket, IInv, TypeOK, Control, ReadHasCommand
    <3>2. /\ usbIn \in Seq(Responses) /\ usbIn # << >>
          /\ response = usbIn[1] /\ 1 \in 1..Len(usbIn) /\ response \in Responses
      BY <1>3 DEF ReadPacket, IInv, TypeOK
    <3>3. response.status = "DAP_ERROR" => response.kind = "OTHER"
      BY <3>2 DEF IInv, RefusalsAreProtocol
    <3> HIDE DEF cmd, response
    <3>4. DecodeError(cmd, response) \in Errors
      BY <3>1, <3>2, <3>3, <2>2, DecodeErrorType
    <3> QED BY <3>4, <2>2 DEF AbortAllTransfers, Aborted
  <2>3. CASE /\ commandsToRead' = Tail(commandsToRead)
             /\ UNCHANGED <<transfers, transferList, crntCmd, op>>
    BY <2>3
  <2> QED BY <1>3, <2>1, <2>2, <2>3 DEF ReadPacket
<1>4. CASE Attach
  <2> DEFINE t == Head(transferList)
             size == transfers[t].count
             words == SubSeq(responseBuf, 1, size)
  <2>1. CASE UNCHANGED dapVars
    BY <2>1 DEF dapVars
  <2>2. CASE /\ responseBuf # << >> /\ ~(size > Len(responseBuf))
             /\ transfers' = [transfers EXCEPT ![t].result = words]
             /\ transferList' = Tail(transferList)
    <3>1. transferList # << >>
      BY <2>2, SomeoneWaits
    <3>2. 1 \in 1..Len(transferList) /\ t = transferList[1]
      BY <3>1 DEF IInv, TypeOK
    <3>3. t \in 1..Len(transfers) /\ transfers[t] \in Transfer
      <4>1. t \in 1..Len(transfers)
        BY <3>2, <1>t, OrderTypes, Zenon
      <4>2. transfers \in Seq(Transfer)
        BY <1>t, Zenon DEF TypeOK
      <4> QED BY <4>1, <4>2
    <3>4. size \in Nat \ {0}
      BY <3>3 DEF Transfer
    <3> HIDE DEF size
    <3>5. size \in 0..Len(responseBuf)
      BY <3>4, <2>2, <1>t
    <3>6. words \in Seq(Nat) /\ Len(words) = size
      BY <3>5, <1>t, TakeFirst
    <3>7. words # NoResult
      BY <3>4, <3>6 DEF NoResult
    <3> HIDE DEF words, t
    <3> QED BY <2>2, <3>1, <3>6, <3>7 DEF Given, t
  <2> QED BY <1>4, <2>1, <2>2 DEF Attach
<1>5. CASE Calls /\ ~(\E request \in ReadRequests, count \in Counts, now \in BOOLEAN :
                        ReadReg(request, count, now))
  BY <1>5 DEF Calls, WriteReg, GetResult, Flush, SetDeferredTransfer, ProtocolCommand, dapVars
<1>6. CASE FillAdd \/ FillNoRoom \/ FillEnd \/ ReturnTransfer \/ SendPacket \/ SendPacketWrite
           \/ Drain \/ GetResultTurn \/ SetDeferredEnd \/ ProtocolWrite \/ ProtocolWriteFails
           \/ ProtocolRead \/ AbortDrain
  BY <1>6 DEF FillAdd, FillNoRoom, FillEnd, ReturnTransfer, SendPacket, SendPacketWrite,
              Drain, GetResultTurn, SetDeferredEnd, ProtocolWrite, ProtocolWriteFails,
              ProtocolRead, AbortDrain, dapVars
<1>7. CASE Probe \/ UNCHANGED vars
  BY <1>7 DEF Probe, ProbeExecutes, ProbeFaults, ProbeRefuses, ResponseLost,
              SpareReadTimesOut, Answer, dapVars, vars
<1> QED BY <1>1, <1>2, <1>3, <1>4, <1>5, <1>6, <1>7 DEF Next, Host

\* What an abort makes of a transfer.
LEMMA FailWaitingIs ==
  ASSUME TypeOK, NEW error
  PROVE  /\ Len(FailWaiting(error)) = Len(transfers)
         /\ DOMAIN FailWaiting(error) = 1..Len(transfers)
         /\ \A t \in 1..Len(transfers) :
              FailWaiting(error)[t] =
                IF Waits(t) THEN [transfers[t] EXCEPT !.error = error] ELSE transfers[t]
<1>1. Len(transfers) \in Nat
  BY DEF TypeOK
<1> DEFINE new == FailWaiting(error)
<1>2. new = [t \in 1..Len(transfers) |->
               IF Waits(t) THEN [transfers[t] EXCEPT !.error = error] ELSE transfers[t]]
  BY DEF FailWaiting, Waits
<1> HIDE DEF new
<1>3. Len(new) = Len(transfers)
  BY <1>1, <1>2
<1> QED BY <1>2, <1>3 DEF new

\* The oldest waiting transfer, and the others.
LEMMA OldestWaits ==
  ASSUME TypeOK, WaitingInv, transferList # << >>
  PROVE  /\ Head(transferList) = transferList[1] /\ Head(transferList) \in 1..Len(transfers)
         /\ Waits(Head(transferList)) /\ ~Settled(Head(transferList))
         /\ \A t \in 1..Len(transfers) : Waits(t) => Head(transferList) <= t
         /\ Len(Tail(transferList)) = Len(transferList) - 1
         /\ \A i \in 1..Len(transferList) - 1 : Tail(transferList)[i] = transferList[i + 1]
         /\ \A t \in 1..Len(transfers) :
              (\E i \in 1..Len(transferList) - 1 : transferList[i + 1] = t)
                <=> Waits(t) /\ t # Head(transferList)
<1> DEFINE n == Len(transferList)
           s == Head(transferList)
<1>1. /\ transferList \in Seq(Nat) /\ n \in Nat \ {0} /\ s = transferList[1]
      /\ \A i \in 1..n : transferList[i] \in 1..Len(transfers) /\ transferList[i] \in Nat
      /\ Len(transfers) \in Nat
      /\ Len(Tail(transferList)) = n - 1
      /\ \A i \in 1..n - 1 : Tail(transferList)[i] = transferList[i + 1]
  BY DEF TypeOK
<1> HIDE DEF n, s
<1>2. 1 \in 1..n /\ s \in 1..Len(transfers) /\ Waits(s)
  BY <1>1 DEF Waits, n
<1>3. ~Settled(s)
  BY <1>2 DEF WaitingInv
<1>4. \A i \in 1..n : i # 1 => s < transferList[i]
  <2> SUFFICES ASSUME NEW i \in 1..n, i # 1 PROVE s < transferList[i]
    OBVIOUS
  <2>1. 1 < i
    BY <1>1
  <2> QED BY <2>1, <1>1, <1>2 DEF WaitingInv, n
<1>5. \A t \in 1..Len(transfers) : Waits(t) => s <= t
  <2> SUFFICES ASSUME NEW t \in 1..Len(transfers), Waits(t) PROVE s <= t
    OBVIOUS
  <2>1. PICK i \in 1..n : transferList[i] = t
    BY DEF Waits, n
  <2>2. s \in Nat /\ t \in Nat
    BY <1>1, <1>2
  <2> QED BY <2>1, <2>2, <1>1, <1>4
<1>6. ASSUME NEW t \in 1..Len(transfers)
      PROVE  (\E i \in 1..n - 1 : transferList[i + 1] = t) <=> Waits(t) /\ t # s
  <2>1. ASSUME NEW i \in 1..n - 1, transferList[i + 1] = t PROVE Waits(t) /\ t # s
    <3>1. i + 1 \in 1..n /\ i + 1 # 1
      BY <1>1
    <3>2. s < t /\ s \in Nat /\ t \in Nat
      BY <3>1, <2>1, <1>1, <1>2, <1>4
    <3> QED BY <3>1, <3>2, <2>1 DEF Waits, n
  <2>2. ASSUME Waits(t), t # s PROVE \E i \in 1..n - 1 : transferList[i + 1] = t
    <3>1. PICK k \in 1..n : transferList[k] = t
      BY <2>2 DEF Waits, n
    <3>2. k # 1
      BY <3>1, <2>2, <1>1
    <3>3. k - 1 \in 1..n - 1 /\ (k - 1) + 1 = k
      BY <3>2, <1>1
    <3> QED BY <3>1, <3>3
  <2> QED BY <2>1, <2>2
<1> QED BY <1>1, <1>2, <1>3, <1>5, <1>6 DEF n, s

\* Who waits has neither words nor an error; everybody else has.
LEMMA WaitingStep ==
  ASSUME IInv, WaitingInv, [Next]_vars
  PROVE  WaitingInv'
<1> DEFINE m == Len(transfers)
           n == Len(transferList)
<1>t. /\ TypeOK /\ transfers \in Seq(Transfer) /\ transferList \in Seq(Nat)
      /\ m \in Nat /\ n \in Nat
      /\ \A i \in 1..n : transferList[i] \in 1..m
  BY DEF IInv, TypeOK
<1>s. /\ \A i, j \in 1..n : i < j => transferList[i] < transferList[j]
      /\ \A t \in 1..m : Settled(t) <=> ~Waits(t)
  BY DEF WaitingInv
<1>1. CASE UNCHANGED <<transfers, transferList>>
  BY <1>1 DEF WaitingInv, Settled, Waits
<1>2. CASE Requested
  <2>1. PICK new \in Transfer : /\ new.result = NoResult /\ new.error = NoError
                                /\ transfers' = Append(transfers, new)
    BY <1>2 DEF Requested
  <2>2. /\ Len(transfers') = m + 1 /\ transfers'[m + 1] = new
        /\ \A t \in 1..m : transfers'[t] = transfers[t]
    BY <2>1, <1>t
  <2>3. /\ Len(transferList') = n + 1 /\ transferList'[n + 1] = m + 1
        /\ \A i \in 1..n : transferList'[i] = transferList[i]
    BY <1>2, <1>t DEF Requested
  <2> HIDE DEF m, n
  <2>4. \A i \in 1..n + 1 : i \in 1..n \/ i = n + 1
    BY <1>t
  <2>5. \A t \in 1..m + 1 : t \in 1..m \/ t = m + 1
    BY <1>t
  <2>6. ASSUME NEW i \in 1..n + 1, NEW j \in 1..n + 1, i < j
        PROVE  transferList'[i] < transferList'[j]
    <3>1. i \in 1..n
      BY <2>6, <1>t
    <3>2. transferList[i] \in 1..m
      BY <3>1, <1>t
    <3> QED BY <3>1, <3>2, <2>3, <2>4, <2>6, <1>t, <1>s
  <2>7. ASSUME NEW t \in 1..m + 1 PROVE Settled(t)' <=> ~Waits(t)'
    <3>1. CASE t = m + 1
      <4>1. ~Settled(t)'
        BY <3>1, <2>1, <2>2 DEF Settled
      <4>2. n + 1 \in 1..n + 1
        BY <1>t
      <4>3. Waits(t)'
        BY <3>1, <2>3, <4>2 DEF Waits
      <4> QED BY <4>1, <4>3
    <3>2. CASE t \in 1..m
      <4>1. Settled(t)' <=> Settled(t)
        BY <3>2, <2>2 DEF Settled
      <4>2. t # m + 1
        BY <3>2, <1>t
      <4>3. Waits(t)' <=> Waits(t)
        <5>1. \A i \in 1..n : i \in 1..n + 1
          BY <1>t
        <5> QED BY <5>1, <4>2, <2>3, <2>4 DEF Waits, n
      <4> QED BY <4>1, <4>3, <3>2, <1>s
    <3> QED BY <3>1, <3>2, <2>5
  <2> QED BY <2>2, <2>3, <2>6, <2>7 DEF WaitingInv
<1>3. CASE Aborted
  <2>1. PICK error \in Errors : transfers' = FailWaiting(error)
    BY <1>3 DEF Aborted
  <2>2. transferList' = << >> /\ Len(transferList') = 0
    BY <1>3 DEF Aborted
  <2>3. error # NoError
    BY DEF Errors, TransferErrors, NoError
  <2>4. Len(transfers') = m
    BY <2>1, <1>t, FailWaitingIs
  <2>5. ASSUME NEW t \in 1..m PROVE Settled(t)' /\ ~Waits(t)'
    <3>1. transfers[t] \in Transfer
      BY <1>t
    <3>2. transfers'[t] = IF Waits(t) THEN [transfers[t] EXCEPT !.error = error] ELSE transfers[t]
      BY <2>1, <1>t, FailWaitingIs
    <3>3. CASE Waits(t)
      <4>1. transfers'[t].error = error
        BY <3>1, <3>2, <3>3 DEF Transfer
      <4> QED BY <4>1, <2>2, <2>3 DEF Settled, Waits
    <3>4. CASE ~Waits(t)
      <4>1. transfers'[t] = transfers[t] /\ Settled(t)
        BY <3>2, <3>4, <1>s
      <4> QED BY <4>1, <2>2 DEF Settled, Waits
    <3> QED BY <3>3, <3>4
  <2> QED BY <2>2, <2>4, <2>5 DEF WaitingInv
<1>4. CASE Given
  <2> DEFINE s == Head(transferList)
  <2>1. PICK words \in Seq(Nat) \ {NoResult} :
          transfers' = [transfers EXCEPT ![s].result = words]
    BY <1>4 DEF Given
  <2>2. transferList # << >> /\ transferList' = Tail(transferList)
    BY <1>4 DEF Given
  <2>3. /\ s \in 1..m /\ transfers[s] \in Transfer
        /\ Len(transferList') = n - 1
        /\ \A i \in 1..n - 1 : transferList'[i] = transferList[i + 1]
        /\ \A t \in 1..m : (\E i \in 1..n - 1 : transferList[i + 1] = t) <=> Waits(t) /\ t # s
    BY <2>2, <1>t, OldestWaits
  <2> HIDE DEF m, s
  <2>4. /\ Len(transfers') = m
        /\ transfers'[s].result = words
        /\ \A t \in 1..m : t # s => transfers'[t] = transfers[t]
    BY <2>1, <2>3, <1>t DEF m, Transfer
  <2> HIDE DEF n
  <2>5. ASSUME NEW i \in 1..n - 1, NEW j \in 1..n - 1, i < j
        PROVE  transferList'[i] < transferList'[j]
    <3>1. i + 1 \in 1..n /\ j + 1 \in 1..n /\ i + 1 < j + 1
      BY <2>5, <1>t
    <3> QED BY <3>1, <2>3, <1>s
  <2>6. ASSUME NEW t \in 1..m PROVE Settled(t)' <=> ~Waits(t)'
    <3>1. Waits(t)' <=> Waits(t) /\ t # s
      <4>1. Waits(t)' <=> \E i \in 1..Len(transferList') : transferList'[i] = t
        BY Zenon DEF Waits
      <4>2. Waits(t)' <=> \E i \in 1..n - 1 : transferList[i + 1] = t
        BY <2>3, <4>1
      <4> QED BY <2>3, <4>2, Zenon
    <3>2. CASE t = s
      BY <3>1, <3>2, <2>4 DEF Settled
    <3>3. CASE t # s
      <4>1. Settled(t)' <=> Settled(t)
        BY <3>3, <2>4 DEF Settled
      <4> QED BY <4>1, <3>1, <3>3, <1>s
    <3> QED BY <3>2, <3>3
  <2> QED BY <2>3, <2>4, <2>5, <2>6 DEF WaitingInv
<1> QED BY <1>1, <1>2, <1>3, <1>4, WhatBecomesOfTransfers

\* A new DAPAccessCMSISDAP has no transfers.
LEMMA InitWaiting == Init => WaitingInv
<1> SUFFICES ASSUME Init PROVE WaitingInv
  OBVIOUS
<1>1. Len(transfers) = 0 /\ Len(transferList) = 0
  BY DEF Init
<1> QED BY <1>1 DEF WaitingInv

\* A transfer that has its words or its error keeps them, whatever fails: words
\* go only to those in the list, and errors too. (_read_packet,
\* _abort_all_transfers)
THEOREM SettledTransfersStay == Spec => SettledStays
<1>1. IInv /\ WaitingInv /\ [Next]_vars =>
        [\A t \in DOMAIN transfers :
           transfers[t].result # NoResult \/ transfers[t].error # NoError
             => transfers'[t] = transfers[t]]_vars
  <2> SUFFICES ASSUME IInv, WaitingInv, [Next]_vars,
                      NEW t \in DOMAIN transfers, Settled(t)
               PROVE  transfers'[t] = transfers[t]
    BY DEF Settled
  <2>t. TypeOK /\ transfers \in Seq(Transfer)
    BY DEF IInv, TypeOK
  <2>1. t \in 1..Len(transfers)
    BY <2>t
  <2>2. ~Waits(t)
    BY <2>1 DEF WaitingInv
  <2>3. CASE UNCHANGED <<transfers, transferList>>
    BY <2>3
  <2>4. CASE Requested
    BY <2>4, <2>1, <2>t DEF Requested
  <2>5. CASE Aborted
    BY <2>5, <2>1, <2>2, <2>t, FailWaitingIs DEF Aborted
  <2>6. CASE Given
    <3>1. t # Head(transferList)
      BY <2>6, <2>2, <2>t, OldestWaits DEF Given
    <3> QED BY <3>1, <2>6, <2>1, <2>t DEF Given
  <2> QED BY <2>3, <2>4, <2>5, <2>6, WhatBecomesOfTransfers
<1>2. IInv /\ WaitingInv /\ [Next]_vars => WaitingInv'
  BY WaitingStep
<1> QED BY <1>1, <1>2, InitIInv, NextIInv, InitWaiting, PTL DEF Spec, SettledStays

-----------------------------------------------------------------------------
(* In step: no access to the interface fails.                              *)

\* No response is an error of the interface, and the words received are the
\* ones that come next.
NoUsbErrors == spareReads = 0 /\ \A i \in 1..Len(usbIn) : usbIn[i].status # "UsbError"

BufferIsNext == \A i \in 1..Len(responseBuf) : responseBuf[i] = NextUngiven + i

InStep == NoUsbErrors /\ Lockstep /\ BufferIsNext /\ ResultIsOwn

-----------------------------------------------------------------------------
(* The wire.                                                               *)

\* What a packet and its response have in common: what Wire keeps of either.
ItemOf(x) == [kind |-> x.kind, firstRead |-> x.firstRead, readCount |-> x.readCount, size |-> x.size]

\* Wire, of any responses and packets.
WireOf(in, out) ==
  [i \in 1..Len(in) + Len(out) |->
     IF i <= Len(in) THEN ItemOf(in[i]) ELSE ItemOf(out[i - Len(in)])]

\* It is that of this command.
Agrees(item, cmd) ==
  /\ item.kind = Kind(cmd) /\ item.size = Size(cmd)
  /\ item.firstRead = cmd.firstRead /\ item.readCount = cmd.readCount

\* Outside of an abort and a protocol command there is one response under way
\* for each command to read.
Plain == ~At("abortDrain") /\ ~At("protoGet")
Matched ==
  /\ Len(Wire) = Len(commandsToRead)
  /\ \A i \in 1..Len(commandsToRead) : Agrees(Wire[i], commandsToRead[i])

\* Responses first, then packets.
LEMMA WireIs ==
  ASSUME NEW in \in Seq(Responses), NEW out \in Seq(Packets)
  PROVE  /\ Len(WireOf(in, out)) = Len(in) + Len(out)
         /\ Len(in) \in Nat /\ Len(out) \in Nat
         /\ \A i \in 1..Len(in) : WireOf(in, out)[i] = ItemOf(in[i])
         /\ \A i \in 1..Len(out) : WireOf(in, out)[Len(in) + i] = ItemOf(out[i])
<1> DEFINE a == Len(in)
           b == Len(out)
           wire == WireOf(in, out)
<1>1. a \in Nat /\ b \in Nat
  OBVIOUS
<1>2. wire = [i \in 1..a + b |-> IF i <= a THEN ItemOf(in[i]) ELSE ItemOf(out[i - a])]
  BY DEF WireOf
<1> HIDE DEF a, b, wire
<1>3. Len(wire) = a + b
  BY <1>1, <1>2
<1>4. \A i \in 1..a : wire[i] = ItemOf(in[i])
  BY <1>1, <1>2
<1>5. \A i \in 1..b : wire[a + i] = ItemOf(out[i])
  <2> SUFFICES ASSUME NEW i \in 1..b PROVE wire[a + i] = ItemOf(out[i])
    OBVIOUS
  <2>1. a + i \in 1..a + b /\ ~(a + i <= a) /\ (a + i) - a = i
    BY <1>1
  <2> QED BY <2>1, <1>2
<1> QED BY <1>1, <1>3, <1>4, <1>5 DEF a, b, wire

\* A packet that is sent comes last.
LEMMA WireSends ==
  ASSUME NEW in \in Seq(Responses), NEW out \in Seq(Packets), NEW p \in Packets
  PROVE  /\ Len(WireOf(in, Append(out, p))) = Len(WireOf(in, out)) + 1
         /\ \A i \in 1..Len(WireOf(in, out)) :
              WireOf(in, Append(out, p))[i] = WireOf(in, out)[i]
         /\ WireOf(in, Append(out, p))[Len(WireOf(in, out)) + 1] = ItemOf(p)
<1> DEFINE a == Len(in)
           b == Len(out)
           new == Append(out, p)
<1>1. /\ new \in Seq(Packets) /\ Len(new) = b + 1 /\ new[b + 1] = p
      /\ \A i \in 1..b : new[i] = out[i]
  BY AppendProperties
<1> DEFINE old == WireOf(in, out)
           wire == WireOf(in, new)
<1>2. /\ Len(old) = a + b /\ a \in Nat /\ b \in Nat
      /\ \A i \in 1..a : old[i] = ItemOf(in[i])
      /\ \A i \in 1..b : old[a + i] = ItemOf(out[i])
  BY WireIs
<1>3. /\ Len(wire) = a + Len(new)
      /\ \A i \in 1..a : wire[i] = ItemOf(in[i])
      /\ \A i \in 1..Len(new) : wire[a + i] = ItemOf(new[i])
  BY <1>1, WireIs
<1> HIDE DEF a, b, new, old, wire
<1>4. Len(wire) = Len(old) + 1
  BY <1>1, <1>2, <1>3
<1>5. ASSUME NEW i \in 1..Len(old) PROVE wire[i] = old[i]
  <2>1. CASE i <= a
    BY <2>1, <1>2, <1>3
  <2>2. CASE i > a
    <3>1. i - a \in 1..b /\ a + (i - a) = i /\ i - a \in 1..Len(new)
      BY <2>2, <1>1, <1>2
    <3> QED BY <3>1, <1>1, <1>2, <1>3
  <2> QED BY <2>1, <2>2, <1>2
<1>6. wire[Len(old) + 1] = ItemOf(p)
  <2>1. b + 1 \in 1..Len(new) /\ Len(old) + 1 = a + (b + 1)
    BY <1>1, <1>2
  <2> QED BY <2>1, <1>1, <1>3
<1> QED BY <1>4, <1>5, <1>6 DEF new, old, wire

\* A packet that is answered becomes its response, in its place.
LEMMA WireAnswers ==
  ASSUME NEW in \in Seq(Responses), NEW out \in Seq(Packets), out # << >>,
         NEW r \in Responses, ItemOf(r) = ItemOf(Head(out))
  PROVE  /\ Len(WireOf(Append(in, r), Tail(out))) = Len(WireOf(in, out))
         /\ \A i \in 1..Len(WireOf(in, out)) :
              WireOf(Append(in, r), Tail(out))[i] = WireOf(in, out)[i]
<1> DEFINE a == Len(in)
           b == Len(out)
           in2 == Append(in, r)
           out2 == Tail(out)
<1>1. /\ in2 \in Seq(Responses) /\ Len(in2) = a + 1 /\ in2[a + 1] = r
      /\ \A i \in 1..a : in2[i] = in[i]
  BY AppendProperties
<1>2. /\ out2 \in Seq(Packets) /\ Len(out2) = b - 1 /\ Head(out) = out[1]
      /\ \A i \in 1..b - 1 : out2[i] = out[i + 1]
  BY DropHead
<1>3. b >= 1
  OBVIOUS
<1> DEFINE old == WireOf(in, out)
           wire == WireOf(in2, out2)
<1>4. /\ Len(old) = a + b /\ a \in Nat /\ b \in Nat
      /\ \A i \in 1..a : old[i] = ItemOf(in[i])
      /\ \A i \in 1..b : old[a + i] = ItemOf(out[i])
  BY WireIs
<1>5. /\ Len(wire) = Len(in2) + Len(out2)
      /\ \A i \in 1..Len(in2) : wire[i] = ItemOf(in2[i])
      /\ \A i \in 1..Len(out2) : wire[Len(in2) + i] = ItemOf(out2[i])
  BY <1>1, <1>2, WireIs
<1> HIDE DEF a, b, in2, out2, old, wire
<1>6. Len(wire) = Len(old)
  BY <1>1, <1>2, <1>4, <1>5
<1>7. ASSUME NEW i \in 1..Len(old) PROVE wire[i] = old[i]
  <2>1. CASE i <= a
    <3>1. i \in 1..a /\ i \in 1..Len(in2)
      BY <2>1, <1>1, <1>4
    <3> QED BY <3>1, <1>1, <1>4, <1>5
  <2>2. CASE i = a + 1
    <3>1. i \in 1..Len(in2) /\ 1 \in 1..b
      BY <2>2, <1>1, <1>3, <1>4
    <3>2. wire[i] = ItemOf(r)
      BY <3>1, <2>2, <1>1, <1>5
    <3>3. old[a + 1] = ItemOf(out[1])
      BY <3>1, <1>4
    <3> QED BY <3>2, <3>3, <2>2, <1>2
  <2>3. CASE i > a + 1
    <3>1. /\ i - a - 1 \in 1..Len(out2) /\ i - a - 1 \in 1..b - 1
          /\ Len(in2) + (i - a - 1) = i
          /\ i - a \in 1..b /\ a + (i - a) = i /\ (i - a - 1) + 1 = i - a
      BY <2>3, <1>1, <1>2, <1>4
    <3>2. wire[i] = ItemOf(out2[i - a - 1]) /\ old[i] = ItemOf(out[i - a])
      BY <3>1, <1>4, <1>5
    <3>3. out2[i - a - 1] = out[(i - a - 1) + 1]
      BY <3>1, <1>2
    <3> QED BY <3>1, <3>2, <3>3
  <2> QED BY <2>1, <2>2, <2>3, <1>4
<1> QED BY <1>6, <1>7 DEF in2, out2, old, wire

\* The response that is read comes first.
LEMMA WireReads ==
  ASSUME NEW in \in Seq(Responses), NEW out \in Seq(Packets), in # << >>
  PROVE  /\ Len(WireOf(Tail(in), out)) = Len(WireOf(in, out)) - 1
         /\ Len(WireOf(in, out)) \in Nat \ {0}
         /\ WireOf(in, out)[1] = ItemOf(Head(in))
         /\ \A i \in 1..Len(WireOf(in, out)) - 1 :
              WireOf(Tail(in), out)[i] = WireOf(in, out)[i + 1]
<1> DEFINE a == Len(in)
           b == Len(out)
           in2 == Tail(in)
<1>1. /\ in2 \in Seq(Responses) /\ Len(in2) = a - 1 /\ Head(in) = in[1]
      /\ \A i \in 1..a - 1 : in2[i] = in[i + 1]
  BY DropHead
<1>2. a >= 1
  OBVIOUS
<1> DEFINE old == WireOf(in, out)
           wire == WireOf(in2, out)
<1>3. /\ Len(old) = a + b /\ a \in Nat /\ b \in Nat
      /\ \A i \in 1..a : old[i] = ItemOf(in[i])
      /\ \A i \in 1..b : old[a + i] = ItemOf(out[i])
  BY WireIs
<1>4. /\ Len(wire) = Len(in2) + b
      /\ \A i \in 1..Len(in2) : wire[i] = ItemOf(in2[i])
      /\ \A i \in 1..b : wire[Len(in2) + i] = ItemOf(out[i])
  BY <1>1, WireIs
<1> HIDE DEF a, b, in2, old, wire
<1>5. Len(wire) = Len(old) - 1 /\ Len(old) \in Nat \ {0}
  BY <1>1, <1>2, <1>3, <1>4
<1>6. old[1] = ItemOf(Head(in))
  BY <1>1, <1>2, <1>3
<1>7. ASSUME NEW i \in 1..Len(old) - 1 PROVE wire[i] = old[i + 1]
  <2>1. CASE i <= a - 1
    <3>1. i \in 1..a - 1 /\ i \in 1..Len(in2) /\ i + 1 \in 1..a
      BY <2>1, <1>1, <1>3
    <3> QED BY <3>1, <1>1, <1>3, <1>4
  <2>2. CASE i > a - 1
    <3>1. /\ i - (a - 1) \in 1..b /\ Len(in2) + (i - (a - 1)) = i
          /\ a + (i - (a - 1)) = i + 1
      BY <2>2, <1>1, <1>3
    <3>2. wire[i] = ItemOf(out[i - (a - 1)]) /\ old[i + 1] = ItemOf(out[i - (a - 1)])
      BY <3>1, <1>3, <1>4
    <3> QED BY <3>2
  <2> QED BY <2>1, <2>2, <1>3
<1> QED BY <1>5, <1>6, <1>7 DEF in2, old, wire

\* What a call or a return puts on top when nothing is being aborted.
LEMMA PlainReturn ==
  ASSUME todo \in Seq(Labels), Stacked(todo), todo # << >>, Plain, todo' = Tail(todo)
  PROVE  Plain'
<1>1. todo[1] = Head(todo) /\ todo[1] # "abortDrain"
  BY StackedPop DEF Plain, At
<1>2. todo' # << >> => Head(todo') = todo[2] /\ MayCall(todo[1], todo[2])
  BY StackedPop
<1> QED BY <1>1, <1>2 DEF Plain, At, MayCall

\* What is put on top when nothing is being ignored.
Fresh == {a \in Seq(Labels) : a # << >> /\ a[1] \notin {"abortDrain", "protoGet"}}

\* A call to, or a going on as, a method other than the reading of ignored or
\* of protocol responses puts that one on top.
LEMMA PlainCall ==
  ASSUME todo \in Seq(Labels), NEW a \in Fresh,
         \/ todo' = a
         \/ todo' = a \o todo
         \/ todo # << >> /\ todo' = a \o Tail(todo)
  PROVE  Plain'
<1>1. a \in Seq(Labels) /\ a # << >> /\ a[1] \notin {"abortDrain", "protoGet"}
  BY DEF Fresh
<1>2. Head(a) = a[1] /\ a \o << >> = a /\ << >> \in Seq(Labels)
  BY <1>1
<1>3. ASSUME NEW s \in Seq(Labels) PROVE Head(a \o s) = a[1]
  BY <1>1
<1>4. todo # << >> => Tail(todo) \in Seq(Labels)
  OBVIOUS
<1>5. Head(todo') = a[1]
  BY <1>2, <1>3, <1>4
<1> QED BY <1>1, <1>5 DEF Plain, At

\* The labels that calls start with or put on top.
LEMMA FreshLabels ==
  /\ \A x \in Labels \ {"abortDrain", "protoGet"}, y \in Labels, z \in Labels :
       <<x>> \in Fresh /\ <<x, y>> \in Fresh /\ <<x, y, z>> \in Fresh
  /\ \A s \in Seq(Labels) : <<"send", "drain">> \o s \in Fresh
<1>1. ASSUME NEW x \in Labels \ {"abortDrain", "protoGet"}, NEW y \in Labels, NEW z \in Labels
      PROVE  <<x>> \in Fresh /\ <<x, y>> \in Fresh /\ <<x, y, z>> \in Fresh
  <2>1. <<x>> \in Seq(Labels) /\ <<x>> # << >> /\ <<x>>[1] = x
    OBVIOUS
  <2>2. <<x, y>> \in Seq(Labels) /\ <<x, y>> # << >> /\ <<x, y>>[1] = x
    OBVIOUS
  <2>3. <<x, y, z>> \in Seq(Labels) /\ <<x, y, z>> # << >> /\ <<x, y, z>>[1] = x
    OBVIOUS
  <2> QED BY <2>1, <2>2, <2>3 DEF Fresh
<1>2. ASSUME NEW s \in Seq(Labels) PROVE <<"send", "drain">> \o s \in Fresh
  <2>1. <<"drain">> \o s \in Seq(Labels)
    BY LabelsAre
  <2>2. <<"send", "drain">> \o s = <<"send">> \o (<<"drain">> \o s)
    BY PushTwo, LabelsAre
  <2> DEFINE t == <<"drain">> \o s
  <2> HIDE DEF t
  <2>3. t \in Seq(Labels) => <<"send">> \o t \in Fresh
    <3> SUFFICES ASSUME t \in Seq(Labels) PROVE <<"send">> \o t \in Fresh
      OBVIOUS
    <3>1. "send" \in Labels
      BY LabelsAre
    <3>2. /\ <<"send">> \o t \in Seq(Labels) /\ <<"send">> \o t # << >>
          /\ (<<"send">> \o t)[1] = "send"
      BY <3>1
    <3> QED BY <3>2 DEF Fresh
  <2> QED BY <2>1, <2>2, <2>3 DEF t
<1> QED BY <1>1, <1>2

-----------------------------------------------------------------------------
(* Lockstep.                                                               *)

\* Without a failing access these actions never happen.
LEMMA NoFailures ==
  ASSUME MaxUsbFailures = 0, TypeOK, NoUsbErrors
  PROVE  ~SendPacketFails /\ ~ProtocolWriteFails /\ ~ResponseLost /\ ~SpareReadTimesOut
<1>1. usbFailures = 0
  BY DEF TypeOK
<1>2. ~(usbFailures < MaxUsbFailures)
  BY <1>1
<1>3. ~(spareReads > 0)
  BY DEF NoUsbErrors
<1> QED BY <1>2, <1>3 DEF SendPacketFails, ProtocolWriteFails, UsbWriteFails, ResponseLost,
                          SpareReadTimesOut

\* No step brings an error of the interface.
LEMMA NoUsbErrorsStep ==
  ASSUME MaxUsbFailures = 0, IInv, NoUsbErrors, [Next]_vars
  PROVE  NoUsbErrors'
<1>1. /\ usbIn \in Seq(Responses) /\ usbOut \in Seq(Packets) /\ spareReads = 0
      /\ \A i \in 1..Len(usbIn) : usbIn[i].status # "UsbError"
  BY DEF IInv, TypeOK, NoUsbErrors
<1>n. ~SendPacketFails /\ ~ProtocolWriteFails /\ ~ResponseLost /\ ~SpareReadTimesOut
  BY NoFailures DEF IInv
<1>2. ASSUME UNCHANGED <<usbIn, spareReads>> PROVE NoUsbErrors'
  BY <1>1, <1>2 DEF NoUsbErrors
<1>3. ASSUME usbIn # << >>, usbIn' = Tail(usbIn), UNCHANGED spareReads PROVE NoUsbErrors'
  <2> SUFFICES ASSUME NEW i \in 1..Len(usbIn') PROVE usbIn'[i].status # "UsbError"
    BY <1>1, <1>3 DEF NoUsbErrors
  <2>1. i + 1 \in 1..Len(usbIn) /\ usbIn'[i] = usbIn[i + 1]
    BY <1>1, <1>3, DropHead
  <2> QED BY <2>1, <1>1
<1>4. ASSUME NEW status, Answer(status), status # "UsbError" PROVE NoUsbErrors'
  <2> DEFINE p == Head(usbOut)
             r == [kind |-> p.kind, status |-> status, firstRead |-> p.firstRead,
                   readCount |-> p.readCount, size |-> p.size]
  <2>1. usbIn' = Append(usbIn, r) /\ spareReads' = 0
    BY <1>4, <1>1 DEF Answer
  <2>2. r.status # "UsbError"
    BY <1>4
  <2> HIDE DEF r
  <2> SUFFICES ASSUME NEW i \in 1..Len(usbIn') PROVE usbIn'[i].status # "UsbError"
    BY <2>1 DEF NoUsbErrors
  <2>3. i \in 1..Len(usbIn) + 1
    BY <1>1, <2>1
  <2>4. usbIn'[i] = IF i = Len(usbIn) + 1 THEN r ELSE usbIn[i]
    BY <1>1, <2>1, <2>3
  <2> QED BY <2>2, <2>3, <2>4, <1>1
<1>5. CASE Probe
  <2>1. "UsbError" \notin FaultStatuses
    BY PipelineAssumption
  <2> QED BY <1>5, <1>n, <2>1, <1>4 DEF Probe, ProbeExecutes, ProbeFaults, ProbeRefuses
<1>6. CASE ReadPacket \/ ProtocolRead \/ AbortDrain
  BY <1>3, <1>6 DEF ReadPacket, ProtocolRead, AbortDrain, failVars
<1>7. CASE Calls
  BY <1>2, <1>7 DEF Calls, WriteReg, ReadReg, GetResult, Flush, SetDeferredTransfer,
                    ProtocolCommand, usbVars, failVars
<1>8. CASE FillAdd \/ FillNoRoom \/ FillEnd \/ ReturnTransfer \/ SendPacket \/ SendPacketWrite
           \/ Attach \/ Drain \/ GetResultTurn \/ SetDeferredEnd \/ ProtocolWrite
  BY <1>2, <1>8 DEF FillAdd, FillNoRoom, FillEnd, ReturnTransfer, SendPacket, SendPacketWrite,
                    Attach, Drain, GetResultTurn, SetDeferredEnd, ProtocolWrite, usbVars, failVars
<1>9. CASE UNCHANGED vars
  BY <1>2, <1>9 DEF vars, usbVars, failVars
<1> QED BY <1>5, <1>6, <1>7, <1>8, <1>9, <1>n DEF Next, Host

\* Lockstep by what runs.
LEMMA LockstepByPlace ==
  /\ Lockstep /\ Plain => Matched
  /\ Lockstep /\ At("abortDrain") => Len(Wire) = Len(todo) /\ commandsToRead = << >>
  /\ Lockstep /\ At("protoGet") =>
       Len(Wire) = 1 /\ Wire[1].kind = "OTHER" /\ commandsToRead = << >>
BY DEF Lockstep, Plain, Matched, Agrees, At

\* The response that _read_packet reads is that of the oldest command; what it
\* may find wrong is only that the probe refused a transfer.
LEMMA ResponseIsOfHead ==
  ASSUME IInv, NoUsbErrors, Lockstep, At("read"), usbIn # << >>
  PROVE  /\ commandsToRead # << >>
         /\ Head(commandsToRead) = commandsToRead[1] /\ commandsToRead[1] \in Command
         /\ Head(usbIn) \in Responses
         /\ Agrees(Head(usbIn), commandsToRead[1])
         /\ DecodeError(commandsToRead[1], Head(usbIn)) \in TransferErrors \cup {NoError}
<1> DEFINE cmd == commandsToRead[1]
           response == Head(usbIn)
<1>1. /\ commandsToRead # << >> /\ Head(commandsToRead) = cmd /\ cmd \in Command
      /\ 1 \in 1..Len(commandsToRead)
  BY DEF IInv, TypeOK, Control, ReadHasCommand
<1>2. /\ usbIn \in Seq(Responses) /\ usbOut \in Seq(Packets)
      /\ response = usbIn[1] /\ 1 \in 1..Len(usbIn) /\ response \in Responses
  BY DEF IInv, TypeOK
<1>3. Plain
  BY DEF Plain, At
<1>4. Agrees(Wire[1], cmd)
  BY <1>1, <1>3, LockstepByPlace DEF Matched
<1>5. Wire[1] = ItemOf(response)
  BY <1>2, WireReads DEF Wire, WireOf, ItemOf
<1>6. Agrees(response, cmd)
  BY <1>4, <1>5 DEF Agrees, ItemOf
<1>7. /\ response.status \in Statuses /\ response.status # "UsbError"
      /\ response.status = "DAP_ERROR" => response.kind = "OTHER"
  BY <1>2 DEF Responses, NoUsbErrors, IInv, RefusalsAreProtocol
<1> HIDE DEF cmd, response
<1>8. Kind(cmd) # "OTHER"
  BY DEF Kind
<1>9. response.status \in TransferErrors \cup {"OK"}
  BY <1>6, <1>7, <1>8 DEF Statuses, Agrees
<1>10. DecodeError(cmd, response) \in TransferErrors \cup {NoError}
  BY <1>6, <1>7, <1>9 DEF DecodeError, Agrees
<1> QED BY <1>1, <1>2, <1>6, <1>10 DEF cmd, response

\* The calls, and the methods that do not touch the interface, leave the wire
\* and the commands to read as they are, and abort nothing.
QuietSteps ==
  \/ Calls
  \/ FillAdd \/ FillNoRoom \/ FillEnd \/ ReturnTransfer \/ SendPacket
  \/ Attach \/ Drain \/ GetResultTurn \/ SetDeferredEnd

\* Such steps neither begin nor end the ignoring of responses or the wait of a
\* protocol command.
LEMMA QuietStepsArePlain ==
  ASSUME IInv, QuietSteps
  PROVE  Plain /\ Plain' /\ UNCHANGED <<commandsToRead, usbIn, usbOut>>
<1>t. todo \in Seq(Labels) /\ Stacked(todo)
  BY DEF IInv, TypeOK, Control
<1>e. Idle => Plain
  BY DEF Idle, Plain, At
<1>k. ASSUME UNCHANGED todo, Plain PROVE Plain'
  BY <1>k DEF Plain, At
<1>z. ASSUME todo' = << >> PROVE Plain'
  BY <1>z DEF Plain, At
<1>b. ASSUME todo' = << >> \o Tail(todo), todo # << >>, Plain PROVE Plain'
  <2>1. Tail(todo) \in Seq(Labels)
    BY <1>t, <1>b
  <2>2. todo' = Tail(todo)
    BY <2>1, <1>b, ConcatEmptySeq
  <2> QED BY <2>2, <1>b, <1>t, PlainReturn
<1>1. CASE Calls
  <2>1. Idle /\ UNCHANGED <<commandsToRead, usbIn, usbOut>>
    BY <1>1 DEF Calls, WriteReg, ReadReg, GetResult, Flush, SetDeferredTransfer,
                ProtocolCommand, usbVars, dapVars
  <2>2. \E a \in Fresh : todo' = a
    <3>1. /\ <<"fill">> \in Fresh /\ <<"fill", "now", "get">> \in Fresh
          /\ <<"fill", "now">> \in Fresh /\ <<"get">> \in Fresh
          /\ <<"send", "drain">> \in Fresh /\ <<"send", "drain", "defer">> \in Fresh
          /\ <<"defer">> \in Fresh
      BY LabelsAre, FreshLabels
    <3>2. ASSUME NEW commands \in {<<"protoPut">>, <<"protoPut", "protoPut">>}
          PROVE  <<"send", "drain">> \o commands \in Fresh
      <4>1. <<"protoPut">> \in Seq(Labels)
        BY LabelsAre
      <4>2. <<"protoPut", "protoPut">> \in Seq(Labels)
        BY LabelsAre
      <4> QED BY <4>1, <4>2, FreshLabels
    <3>3. CASE \E request \in WriteRequests, count \in Counts : WriteReg(request, count)
      BY <3>1, <3>3 DEF WriteReg, Start
    <3>4. CASE \E request \in ReadRequests, count \in Counts, now \in BOOLEAN :
                 ReadReg(request, count, now)
      BY <3>1, <3>4 DEF ReadReg, Start
    <3>5. CASE \E t \in callbacks : GetResult(t)
      BY <3>1, <3>5 DEF GetResult, Start
    <3>6. CASE Flush
      BY <3>1, <3>6 DEF Flush, Start
    <3>7. CASE \E enable \in BOOLEAN : SetDeferredTransfer(enable)
      BY <3>1, <3>7 DEF SetDeferredTransfer, Start
    <3>8. CASE \E commands \in {<<"protoPut">>, <<"protoPut", "protoPut">>} :
                 ProtocolCommand(commands)
      BY <3>2, <3>8 DEF ProtocolCommand, Start
    <3> QED BY <1>1, <3>3, <3>4, <3>5, <3>6, <3>7, <3>8 DEF Calls
  <2>3. Plain'
    BY <2>2, <1>t, PlainCall
  <2> QED BY <2>1, <2>3, <1>e
<1>p. CASE ~Calls
  <2>1. Plain /\ todo # << >> /\ UNCHANGED <<commandsToRead, usbIn, usbOut>>
    BY <1>p DEF QuietSteps, FillAdd, FillNoRoom, FillEnd, ReturnTransfer, SendPacket, Attach,
                Drain, GetResultTurn, SetDeferredEnd, usbVars, dapVars, At, Plain
  <2> SUFFICES Plain'
    BY <2>1
  <2>f. /\ <<"send">> \in Fresh /\ <<"read">> \in Fresh /\ <<"put">> \in Fresh
        /\ <<"send", "drain">> \in Fresh /\ <<"read", "put">> \in Fresh
    BY LabelsAre, FreshLabels
  <2>r. ASSUME Return PROVE Plain'
    BY <2>1, <2>r, <1>t, PlainReturn DEF Return
  <2>c. ASSUME NEW a \in Fresh, Call(a) \/ Become(a) PROVE Plain'
    BY <2>1, <2>c, <1>t, PlainCall DEF Call, Become
  <2>b. ASSUME Become(<< >>) PROVE Plain'
    BY <2>1, <2>b, <1>b DEF Become
  <2>2. CASE FillAdd
    BY <2>2, <2>1, <2>f, <2>c, <1>k DEF FillAdd
  <2>3. CASE FillNoRoom
    BY <2>3, <2>f, <2>c DEF FillNoRoom
  <2>4. CASE FillEnd
    BY <2>4, <2>f, <2>c, <2>b DEF FillEnd
  <2>5. CASE ReturnTransfer
    BY <2>5, <2>r DEF ReturnTransfer
  <2>6. CASE SendPacket
    BY <2>6, <2>f, <2>c, <2>b DEF SendPacket
  <2>7. CASE Attach
    BY <2>7, <2>1, <2>r, <1>k DEF Attach
  <2>8. CASE Drain
    BY <2>8, <2>f, <2>c, <2>r DEF Drain
  <2>9. CASE GetResultTurn
    <3>1. \/ Return \/ Call(<<"read">>) \/ Call(<<"send", "drain">>) \/ todo' = << >>
      BY <2>9 DEF GetResultTurn, Raise
    <3> QED BY <3>1, <2>f, <2>c, <2>r, <1>z
  <2>10. CASE SetDeferredEnd
    BY <2>10, <2>r DEF SetDeferredEnd
  <2> QED BY <1>p, <2>1, <2>2, <2>3, <2>4, <2>5, <2>6, <2>7, <2>8, <2>9, <2>10 DEF QuietSteps
<1> QED BY <1>1, <1>p

\* Every step keeps the wire in step with what the host expects.
LEMMA LockstepStep ==
  ASSUME MaxUsbFailures = 0, IInv, NoUsbErrors, Lockstep, [Next]_vars
  PROVE  Lockstep'
<1>t. /\ todo \in Seq(Labels) /\ Stacked(todo) /\ Quiet
      /\ usbIn \in Seq(Responses) /\ usbOut \in Seq(Packets)
      /\ commandsToRead \in Seq(Command) /\ crntCmd \in Command
      /\ Len(commandsToRead) \in Nat
  BY DEF IInv, TypeOK, Control
<1>n. ~SendPacketFails /\ ~ProtocolWriteFails /\ ~ResponseLost /\ ~SpareReadTimesOut
  BY NoFailures DEF IInv
<1>w. Wire = WireOf(usbIn, usbOut) /\ Wire' = WireOf(usbIn', usbOut')
  BY DEF Wire, WireOf, ItemOf
<1>p. ASSUME Plain', Matched' PROVE Lockstep'
  BY <1>p DEF Plain, Matched, Lockstep, Agrees
<1>z. ASSUME todo' = << >> \/ Plain', commandsToRead' = << >>, Len(Wire') = 0 PROVE Lockstep'
  <2>1. Plain'
    BY <1>z DEF Plain, At
  <2>2. Matched'
    BY <1>z DEF Matched
  <2> QED BY <2>1, <2>2, <1>p
\* What is read off the wire.
<1>r. ASSUME usbIn # << >>, usbIn' = Tail(usbIn), UNCHANGED usbOut
      PROVE  /\ Len(Wire') = Len(Wire) - 1 /\ Len(Wire) \in Nat \ {0}
             /\ Wire[1] = ItemOf(Head(usbIn))
             /\ \A i \in 1..Len(Wire) - 1 : Wire'[i] = Wire[i + 1]
  BY <1>r, <1>w, <1>t, WireReads
\* What reading does while responses are ignored, or after the last.
<1>a. ASSUME Len(Wire') = Len(todo'), commandsToRead' = << >>, todo' \in Seq(Labels),
             \A i \in 1..Len(todo') : todo'[i] = "abortDrain"
      PROVE  Lockstep'
  <2>1. CASE todo' = << >>
    BY <2>1, <1>a, <1>z
  <2>2. CASE todo' # << >>
    <3>1. Head(todo') = todo'[1] /\ 1 \in 1..Len(todo')
      BY <2>2, <1>a
    <3>2. At("abortDrain")'
      BY <3>1, <2>2, <1>a DEF At
    <3>3. ~At("protoGet")'
      BY <3>1, <1>a DEF At
    <3> QED BY <3>2, <3>3, <1>a DEF Lockstep
  <2> QED BY <2>1, <2>2
<1>1. CASE QuietSteps
  <2>1. Plain /\ Plain' /\ UNCHANGED <<commandsToRead, usbIn, usbOut>>
    BY <1>1, QuietStepsArePlain
  <2>2. Matched
    BY <2>1, LockstepByPlace
  <2>3. Matched'
    BY <2>1, <2>2, <1>w DEF Matched
  <2> QED BY <2>1, <2>3, <1>p
<1>2. CASE SendPacketWrite
  <2>1. /\ Plain /\ todo # << >> /\ todo' = Tail(todo) /\ UNCHANGED usbIn
        /\ usbOut' = Append(usbOut, Packet(crntCmd))
        /\ commandsToRead' = Append(commandsToRead, crntCmd)
    BY <1>2 DEF SendPacketWrite, At, Plain, Return
  <2>2. Plain'
    BY <2>1, <1>t, PlainReturn
  <2>3. Matched
    BY <2>1, LockstepByPlace
  <2> DEFINE n == Len(commandsToRead)
  <2>4. /\ Len(Wire') = n + 1 /\ Wire'[n + 1] = ItemOf(Packet(crntCmd))
        /\ \A i \in 1..n : Wire'[i] = Wire[i]
    <3>1. Packet(crntCmd) \in Packets
      BY NextTypes DEF IInv
    <3>2. Len(Wire) = n
      BY <2>3 DEF Matched
    <3> HIDE DEF n
    <3> QED BY <3>1, <3>2, <2>1, <1>w, <1>t, WireSends
  <2>5. /\ Len(commandsToRead') = n + 1 /\ commandsToRead'[n + 1] = crntCmd
        /\ \A i \in 1..n : commandsToRead'[i] = commandsToRead[i]
    BY <2>1, <1>t, AppendProperties
  <2>6. Agrees(ItemOf(Packet(crntCmd)), crntCmd)
    BY DEF Agrees, ItemOf, Packet
  <2>7. \A i \in 1..n : Agrees(Wire[i], commandsToRead[i])
    BY <2>3 DEF Matched
  <2> HIDE DEF n
  <2>8. \A i \in 1..n + 1 : i \in 1..n \/ i = n + 1
    BY <1>t DEF n
  <2>9. Matched'
    <3> SUFFICES ASSUME NEW i \in 1..n + 1 PROVE Agrees(Wire'[i], commandsToRead'[i])
      BY <2>4, <2>5 DEF Matched, Agrees, Kind, Size
    <3> QED BY <2>4, <2>5, <2>6, <2>7, <2>8
  <2> QED BY <2>2, <2>9, <1>p
<1>3. CASE ReadPacket
  <2> DEFINE cmd == commandsToRead[1]
             n == Len(commandsToRead)
             error == DecodeError(cmd, Head(usbIn))
  <2>1. At("read") /\ usbIn # << >> /\ usbIn' = Tail(usbIn) /\ UNCHANGED usbOut
    BY <1>3 DEF ReadPacket
  <2>2. commandsToRead # << >> /\ Head(commandsToRead) = cmd /\ error \in TransferErrors \cup {NoError}
    BY <2>1, ResponseIsOfHead
  <2>3. Plain /\ Matched
    BY <2>1, LockstepByPlace DEF Plain, At
  <2>4. /\ Len(Wire) = n /\ Len(Wire') = n - 1 /\ n \in Nat \ {0}
        /\ \A i \in 1..n - 1 : Wire'[i] = Wire[i + 1]
    <3>1. Len(Wire) = n
      BY <2>3 DEF Matched
    <3> HIDE DEF n
    <3> QED BY <3>1, <2>1, <1>r
  <2> HIDE DEF cmd, error
  <2>5. CASE error # NoError /\ AbortAllTransfers(error, n - 1)
    <3>1. n - 1 \in Nat /\ error \in Errors /\ error \in TransferErrors
      BY <2>4, <2>2, <2>5 DEF Errors
    <3> HIDE DEF n
    <3>2. /\ todo' \in Seq(Labels) /\ \A i \in 1..Len(todo') : todo'[i] = "abortDrain"
          /\ Len(todo') = n - 1 /\ commandsToRead' = << >>
      BY <3>1, <2>5, AbortType DEF IInv
    <3> QED BY <3>2, <2>4, <1>a
  <2>6. CASE commandsToRead' = Tail(commandsToRead) /\ Become(<<"attach">>)
    <3>1. Plain'
      <4>1. <<"attach">> \in Fresh
        BY LabelsAre, FreshLabels
      <4>2. todo # << >> /\ todo' = <<"attach">> \o Tail(todo)
        BY <2>1, <2>6 DEF At, Become
      <4> QED BY <4>1, <4>2, <1>t, PlainCall
    <3>2. /\ Len(commandsToRead') = n - 1
          /\ \A i \in 1..n - 1 : commandsToRead'[i] = commandsToRead[i + 1]
      BY <2>2, <2>6, <1>t, DropHead
    <3>3. \A i \in 1..n : Agrees(Wire[i], commandsToRead[i])
      BY <2>3 DEF Matched
    <3> HIDE DEF n
    <3>4. \A i \in 1..n - 1 : i + 1 \in 1..n
      BY <2>4
    <3>5. Matched'
      <4> SUFFICES ASSUME NEW i \in 1..n - 1 PROVE Agrees(Wire'[i], commandsToRead'[i])
        BY <2>4, <3>2 DEF Matched, Agrees, Kind, Size
      <4> QED BY <2>4, <3>2, <3>3, <3>4
    <3> QED BY <3>1, <3>5, <1>p
  <2> QED BY <1>3, <2>2, <2>5, <2>6 DEF ReadPacket, error
<1>4. CASE ProtocolWrite
  <2>1. /\ At("protoPut") /\ usbOut' = Append(usbOut, ProtoPacket) /\ Become(<<"protoGet">>)
        /\ UNCHANGED <<commandsToRead, usbIn>>
    BY <1>4 DEF ProtocolWrite, dapVars
  <2>2. Plain /\ Matched /\ commandsToRead = << >>
    BY <2>1, <1>t, LockstepByPlace DEF Plain, At, Quiet
  <2>3. Len(Wire) = 0
    BY <2>2 DEF Matched
  <2>4. ProtoPacket \in Packets
    BY DEF ProtoPacket, Packets, Kinds
  <2>5. Len(Wire') = 1 /\ Wire'[1] = ItemOf(ProtoPacket)
    <3>1. Len(Wire') = Len(Wire) + 1 /\ Wire'[Len(Wire) + 1] = ItemOf(ProtoPacket)
      BY <2>1, <2>4, <1>w, <1>t, WireSends
    <3> QED BY <3>1, <2>3
  <2>6. Wire'[1].kind = "OTHER"
    BY <2>5 DEF ItemOf, ProtoPacket
  <2>7. Head(todo') = "protoGet"
    <3>1. todo # << >> /\ todo' = <<"protoGet">> \o Tail(todo) /\ "protoGet" \in Labels
      BY <2>1, LabelsAre DEF Become, At
    <3> QED BY <3>1, <1>t, ReplaceHead
  <2>8. At("protoGet")' /\ ~At("abortDrain")'
    <3>1. todo' # << >>
      BY <2>1, <1>t, LabelsAre, ReplaceHead DEF Become, At
    <3> QED BY <3>1, <2>7 DEF At
  <2> QED BY <2>1, <2>2, <2>5, <2>6, <2>8 DEF Lockstep
<1>5. CASE ProtocolRead
  <2>1. /\ At("protoGet") /\ usbIn # << >> /\ usbIn' = Tail(usbIn)
        /\ UNCHANGED <<usbOut, commandsToRead>>
    BY <1>5 DEF ProtocolRead, dapVars
  <2>2. Len(Wire) = 1 /\ commandsToRead = << >>
    BY <2>1, LockstepByPlace
  <2>3. Len(Wire') = 0
    BY <2>1, <2>2, <1>r
  <2>4. todo' = << >> \/ Plain'
    <3>1. todo' = << >> \/ todo' = Tail(todo)
      BY <1>5 DEF ProtocolRead, Return, Raise
    <3>2. ASSUME todo' = Tail(todo), todo' # << >> PROVE Plain'
      <4>1. Head(todo') = todo[2] /\ MayCall("protoGet", todo[2])
        BY <3>2, <2>1, <1>t, StackedPop DEF At
      <4> QED BY <4>1 DEF MayCall, Plain, At
    <3> QED BY <3>1, <3>2
  <2> QED BY <2>1, <2>2, <2>3, <2>4, <1>z
<1>6. CASE AbortDrain
  <2>1. /\ At("abortDrain") /\ usbIn # << >> /\ usbIn' = Tail(usbIn)
        /\ UNCHANGED <<usbOut, commandsToRead>>
    BY <1>6 DEF AbortDrain, dapVars
  <2>2. Len(Wire) = Len(todo) /\ commandsToRead = << >>
    BY <2>1, LockstepByPlace
  <2>3. todo' = Tail(todo)
    <3>1. Head(usbIn) = usbIn[1] /\ 1 \in 1..Len(usbIn)
      BY <2>1, <1>t
    <3> QED BY <3>1, <1>6 DEF AbortDrain, NoUsbErrors
  <2>4. /\ todo # << >> /\ todo' \in Seq(Labels) /\ Len(todo') = Len(todo) - 1
        /\ todo' # << >> => Head(todo') = todo[2] /\ MayCall("abortDrain", todo[2])
    BY <2>1, <2>3, <1>t, StackedPop DEF At
  <2>5. Len(Wire') = Len(todo')
    BY <2>1, <2>2, <2>4, <1>r
  <2>6. CASE todo' = << >>
    BY <2>6, <2>5, <2>1, <2>2, <1>z
  <2>7. CASE todo' # << >>
    <3>1. At("abortDrain")'
      BY <2>4, <2>7 DEF At, MayCall
    <3>2. ~At("protoGet")'
      BY <3>1 DEF At
    <3> QED BY <3>1, <3>2, <2>1, <2>2, <2>5 DEF Lockstep
  <2> QED BY <2>6, <2>7
<1>7. ASSUME NEW status \in Statuses, Answer(status) PROVE Lockstep'
  <2> DEFINE p == Head(usbOut)
             r == [kind |-> p.kind, status |-> status, firstRead |-> p.firstRead,
                   readCount |-> p.readCount, size |-> p.size]
  <2>1. /\ usbOut # << >> /\ usbIn' = Append(usbIn, r) /\ usbOut' = Tail(usbOut)
        /\ UNCHANGED <<commandsToRead, todo>>
    BY <1>7 DEF Answer, dapVars
  <2>2. p \in Packets
    BY <2>1, <1>t
  <2>3. r \in Responses /\ ItemOf(r) = ItemOf(p)
    BY <2>2 DEF Packets, Responses, ItemOf
  <2> HIDE DEF r
  <2>4. Len(Wire') = Len(Wire) /\ \A i \in 1..Len(Wire) : Wire'[i] = Wire[i]
    BY <2>1, <2>3, <1>w, <1>t, WireAnswers
  <2>5. CASE At("abortDrain")
    BY <2>1, <2>4, <2>5, LockstepByPlace DEF Lockstep, At
  <2>6. CASE At("protoGet")
    <3>1. Len(Wire) = 1 /\ Wire[1].kind = "OTHER" /\ commandsToRead = << >> /\ 1 \in 1..Len(Wire)
      BY <2>6, LockstepByPlace
    <3>2. Len(Wire') = 1 /\ Wire'[1].kind = "OTHER" /\ commandsToRead' = << >>
      BY <3>1, <2>1, <2>4
    <3> QED BY <3>2, <2>1, <2>6 DEF Lockstep, At
  <2>7. CASE Plain
    <3>1. Matched
      BY <2>7, LockstepByPlace
    <3>2. Matched'
      BY <3>1, <2>1, <2>4 DEF Matched
    <3>3. Plain'
      BY <2>7, <2>1 DEF Plain, At
    <3> QED BY <3>2, <3>3, <1>p
  <2> QED BY <2>5, <2>6, <2>7 DEF Plain
<1>8. CASE Probe
  <2>1. {"OK", "DAP_ERROR"} \cup FaultStatuses \subseteq Statuses
    BY PipelineAssumption DEF Statuses, TransferErrors
  <2> QED BY <1>8, <1>n, <2>1, <1>7 DEF Probe, ProbeExecutes, ProbeFaults, ProbeRefuses
<1>9. CASE UNCHANGED vars
  BY <1>9, <1>w DEF vars, usbVars, dapVars, Lockstep, At
<1> QED BY <1>1, <1>2, <1>3, <1>4, <1>5, <1>6, <1>8, <1>9, <1>n DEF Next, Host, QuietSteps

-----------------------------------------------------------------------------
(* Words go to those who asked for them.                                   *)

\* Every step keeps the words received the ones that come next.
LEMMA BufferStep ==
  ASSUME MaxUsbFailures = 0, IInv, NoUsbErrors, Lockstep, BufferIsNext, [Next]_vars
  PROVE  BufferIsNext'
<1>t. /\ TypeOK /\ commandsToRead \in Seq(Command) /\ responseBuf \in Seq(Nat)
      /\ crntCmd \in Command /\ usbIn \in Seq(Responses)
      /\ op.left \in Nat /\ op.request \in Requests \cup {NoRequest}
  BY DEF IInv, TypeOK
<1>n. ~SendPacketFails /\ ~ProtocolWriteFails /\ ~ResponseLost /\ ~SpareReadTimesOut
  BY NoFailures DEF IInv
<1>u. ASSUME UNCHANGED <<responseBuf, commandsToRead>>, crntCmd'.firstRead = crntCmd.firstRead
      PROVE  BufferIsNext'
  BY <1>u DEF BufferIsNext, NextUngiven, NextUnread
<1>1. CASE FillAdd
  <2> DEFINE size == GetRequestSpace(crntCmd, op.left, op.request)
  <2>1. crntCmd' = Add(crntCmd, size, op.request) /\ UNCHANGED <<responseBuf, commandsToRead>>
    BY <1>1 DEF FillAdd
  <2>2. size \in Nat
    <3>1. size \in 0..op.left
      BY <1>t, SpaceType
    <3> QED BY <3>1, <1>t
  <2> HIDE DEF size
  <2>3. crntCmd'.firstRead = crntCmd.firstRead
    <3>1. Add(crntCmd, size, op.request).firstRead = crntCmd.firstRead
      BY <2>2, <1>t, AddType
    <3> QED BY <3>1, <2>1
  <2> QED BY <2>1, <2>3, <1>u
<1>2. CASE SendPacketWrite
  <2>1. /\ commandsToRead' = Append(commandsToRead, crntCmd)
        /\ crntCmd' = NewCommand(NextWord, NextRead) /\ UNCHANGED responseBuf
    BY <1>2 DEF SendPacketWrite
  <2>2. NextUngiven' = NextUngiven
    BY <2>1, <1>t, SendingKeepsUngiven
  <2> QED BY <2>1, <2>2 DEF BufferIsNext
<1>3. CASE ReadPacket
  <2> DEFINE cmd == commandsToRead[1]
             response == Head(usbIn)
             m == Len(responseBuf)
  <2>1. At("read") /\ usbIn # << >>
    BY <1>3 DEF ReadPacket
  <2>2. /\ commandsToRead # << >> /\ Head(commandsToRead) = cmd /\ cmd \in Command
        /\ response \in Responses /\ Agrees(response, cmd)
    BY <2>1, ResponseIsOfHead
  <2>m. m \in Nat
    BY <1>t
  <2> HIDE DEF cmd, response
  <2>3. CASE responseBuf' = << >>
    BY <2>3 DEF BufferIsNext
  <2>4. CASE /\ commandsToRead' = Tail(commandsToRead)
             /\ responseBuf' = responseBuf \o Decode(cmd, response)
             /\ UNCHANGED crntCmd
    <3> DEFINE words == Decode(cmd, response)
    <3>1. /\ words \in Seq(Nat) /\ Len(words) = cmd.readCount
          /\ \A i \in 1..cmd.readCount : words[i] =
               IF i <= response.readCount THEN response.firstRead + i ELSE 0
      BY <2>2, DecodeType
    <3>2. responseBuf' = responseBuf \o words
      BY <2>4
    <3> HIDE DEF words
    <3>3. NextUnread = cmd.firstRead /\ NextUngiven' = NextUngiven
      BY <3>1, <3>2, <2>2, <2>4, ReadKeepsOrder DEF cmd
    <3>4. cmd.readCount \in Nat /\ cmd.firstRead \in Nat
      BY <2>2 DEF Command
    <3>5. \A i \in 1..cmd.readCount : words[i] = cmd.firstRead + i
      BY <3>1, <3>4, <2>2 DEF Agrees
    <3>6. NextUngiven = cmd.firstRead - m
      BY <3>3 DEF NextUngiven
    <3>7. /\ Len(responseBuf') = m + cmd.readCount
          /\ \A i \in 1..m + cmd.readCount :
               responseBuf'[i] = IF i <= m THEN responseBuf[i] ELSE words[i - m]
      <4>1. /\ Len(responseBuf') = m + Len(words)
            /\ \A i \in 1..m + Len(words) :
                 responseBuf'[i] = IF i <= m THEN responseBuf[i] ELSE words[i - m]
        BY <3>1, <3>2, <1>t, ConcatProperties
      <4> QED BY <4>1, <3>1
    <3>8. \A i \in 1..m : responseBuf[i] = NextUngiven + i
      BY DEF BufferIsNext
    <3> HIDE DEF m
    <3> SUFFICES ASSUME NEW i \in 1..m + cmd.readCount PROVE responseBuf'[i] = NextUngiven + i
      BY <3>3, <3>7 DEF BufferIsNext
    <3>9. CASE i <= m
      BY <3>9, <3>7, <3>8, <2>m
    <3>10. CASE i > m
      <4>1. i - m \in 1..cmd.readCount
        BY <3>10, <2>m, <3>4
      <4>2. responseBuf'[i] = cmd.firstRead + (i - m)
        BY <4>1, <3>5, <3>7, <3>10, <2>m
      <4> QED BY <4>1, <4>2, <3>6, <3>4, <2>m
    <3> QED BY <3>9, <3>10, <3>4, <2>m
  <2> QED BY <1>3, <2>2, <2>3, <2>4 DEF ReadPacket, AbortAllTransfers, response
<1>4. CASE Attach
  <2> DEFINE t == Head(transferList)
             size == transfers[t].count
             m == Len(responseBuf)
  <2>1. CASE UNCHANGED dapVars
    BY <2>1, <1>u DEF dapVars
  <2>2. CASE /\ responseBuf # << >> /\ ~(size > m)
             /\ responseBuf' = SubSeq(responseBuf, size + 1, m)
             /\ UNCHANGED <<crntCmd, commandsToRead>>
    <3>1. size \in Nat
      <4>1. transferList # << >> /\ t = transferList[1] /\ t \in 1..Len(transfers)
        <5>1. transferList # << >>
          BY <2>2, SomeoneWaits
        <5>2. 1 \in 1..Len(transferList) /\ t = transferList[1]
          BY <5>1 DEF IInv, TypeOK
        <5> QED BY <5>1, <5>2, <1>t, OrderTypes
      <4>2. transfers[t] \in Transfer
        BY <4>1 DEF IInv, TypeOK
      <4> QED BY <4>2 DEF Transfer
    <3> HIDE DEF size
    <3>2. m \in Nat /\ size <= m
      BY <3>1, <2>2, <1>t
    <3>3. /\ Len(responseBuf') = m - size /\ NextUngiven' = NextUngiven + size
          /\ \A i \in 1..m - size : responseBuf'[i] = responseBuf[size + i]
      BY <3>1, <3>2, <2>2, GivingMoves
    <3>4. NextUngiven \in Int /\ \A i \in 1..m : responseBuf[i] = NextUngiven + i
      BY <1>t, OrderTypes DEF BufferIsNext
    <3> HIDE DEF m
    <3> SUFFICES ASSUME NEW i \in 1..m - size PROVE responseBuf'[i] = NextUngiven' + i
      BY <3>3 DEF BufferIsNext
    <3>5. size + i \in 1..m
      BY <3>1, <3>2
    <3> QED BY <3>1, <3>3, <3>4, <3>5
  <2> QED BY <1>4, <2>1, <2>2 DEF Attach
<1>5. CASE Calls
  BY <1>5, <1>u DEF Calls, WriteReg, ReadReg, GetResult, Flush, SetDeferredTransfer,
                    ProtocolCommand, dapVars
<1>6. CASE FillNoRoom \/ FillEnd \/ ReturnTransfer \/ SendPacket \/ Drain \/ GetResultTurn
           \/ SetDeferredEnd \/ ProtocolWrite \/ ProtocolRead \/ AbortDrain
  BY <1>6, <1>u DEF FillNoRoom, FillEnd, ReturnTransfer, SendPacket, Drain, GetResultTurn,
                    SetDeferredEnd, ProtocolWrite, ProtocolRead, AbortDrain, dapVars
<1>7. CASE Probe \/ UNCHANGED vars
  BY <1>7, <1>n, <1>u DEF Probe, ProbeExecutes, ProbeFaults, ProbeRefuses, Answer, dapVars, vars
<1> QED BY <1>1, <1>2, <1>3, <1>4, <1>5, <1>6, <1>7, <1>n DEF Next, Host

\* Every step that completes a transfer gives it its own words.
LEMMA ResultStep ==
  ASSUME IInv, BufferIsNext, ResultIsOwn, [Next]_vars
  PROVE  ResultIsOwn'
<1>t. /\ TypeOK /\ transfers \in Seq(Transfer) /\ Len(transfers) \in Nat
      /\ responseBuf \in Seq(Nat) /\ Len(responseBuf) \in Nat
      /\ DOMAIN transfers = 1..Len(transfers)
      /\ \A s \in 1..Len(transfers) : transfers[s].result \in {NoResult, Own(s)}
  BY DEF IInv, TypeOK, ResultIsOwn
<1>u. ASSUME UNCHANGED transfers PROVE ResultIsOwn'
  BY <1>u DEF ResultIsOwn, Own
\* What happened to the others.
<1>k. ASSUME NEW s \in 1..Len(transfers),
             transfers'[s].result = transfers[s].result,
             transfers'[s].count = transfers[s].count,
             transfers'[s].firstRead = transfers[s].firstRead
      PROVE  transfers'[s].result \in {NoResult, Own(s)'}
  BY <1>k, <1>t DEF Own
<1>v. ASSUME NEW error \in Errors, NEW pendingReads, AbortAllTransfers(error, pendingReads)
      PROVE  ResultIsOwn'
  <2>1. transfers' = FailWaiting(error)
    BY <1>v DEF AbortAllTransfers
  <2>2. /\ transfers' \in Seq(Transfer) /\ Len(transfers') = Len(transfers)
        /\ \A s \in 1..Len(transfers) : /\ transfers'[s].result = transfers[s].result
                                        /\ transfers'[s].firstRead = transfers[s].firstRead
                                        /\ transfers'[s].count = transfers[s].count
    BY <2>1, <1>t, FailWaitingType
  <2>3. DOMAIN transfers' = 1..Len(transfers)
    BY <2>2
  <2> QED BY <2>2, <2>3, <1>k DEF ResultIsOwn
<1>1. CASE \E request \in ReadRequests, count \in Counts, now \in BOOLEAN :
             ReadReg(request, count, now)
  <2>1. PICK request \in ReadRequests, count \in Counts, now \in BOOLEAN :
          ReadReg(request, count, now)
    BY <1>1
  <2> DEFINE new == [firstRead |-> NextRead, count |-> count,
                     result |-> NoResult, error |-> NoError]
             n == Len(transfers)
  <2>2. transfers' = Append(transfers, new) /\ new.result = NoResult
    BY <2>1 DEF ReadReg
  <2> HIDE DEF new
  <2>3. /\ DOMAIN transfers' = 1..n + 1 /\ transfers'[n + 1] = new
        /\ \A s \in 1..n : transfers'[s] = transfers[s]
    BY <2>2, <1>t
  <2>4. \A s \in 1..n : transfers'[s].result \in {NoResult, Own(s)'}
    BY <2>3, <1>k
  <2>5. \A s \in 1..n + 1 : s \in 1..n \/ s = n + 1
    BY <1>t
  <2> HIDE DEF n
  <2> QED BY <2>2, <2>3, <2>4, <2>5 DEF ResultIsOwn
<1>2. CASE SendPacketFails
  BY <1>2, <1>v DEF SendPacketFails, Errors
<1>3. CASE ReadPacket
  <2> DEFINE cmd == Head(commandsToRead)
             response == Head(usbIn)
  <2>1. CASE UNCHANGED transfers
    BY <2>1, <1>u
  <2>2. CASE /\ DecodeError(cmd, response) # NoError
             /\ AbortAllTransfers(DecodeError(cmd, response), Len(commandsToRead) - 1)
    <3>1. cmd \in Command
      BY <1>3 DEF ReadPacket, IInv, TypeOK, Control, ReadHasCommand
    <3>2. /\ usbIn \in Seq(Responses) /\ usbIn # << >>
          /\ response = usbIn[1] /\ 1 \in 1..Len(usbIn) /\ response \in Responses
      BY <1>3 DEF ReadPacket, IInv, TypeOK
    <3>3. response.status = "DAP_ERROR" => response.kind = "OTHER"
      BY <3>2 DEF IInv, RefusalsAreProtocol
    <3> HIDE DEF cmd, response
    <3>4. DecodeError(cmd, response) \in Errors
      BY <3>1, <3>2, <3>3, <2>2, DecodeErrorType
    <3> QED BY <3>4, <2>2, <1>v
  <2> QED BY <1>3, <2>1, <2>2 DEF ReadPacket
<1>4. CASE Attach
  <2> DEFINE t == Head(transferList)
             size == transfers[t].count
             words == SubSeq(responseBuf, 1, size)
  <2>1. CASE UNCHANGED dapVars
    BY <2>1, <1>u DEF dapVars
  <2>2. CASE /\ responseBuf # << >> /\ ~(size > Len(responseBuf))
             /\ transfers' = [transfers EXCEPT ![t].result = words]
    <3>1. transferList # << >>
      BY <2>2, SomeoneWaits
    <3>2. 1 \in 1..Len(transferList) /\ t = transferList[1]
      BY <3>1 DEF IInv, TypeOK
    <3>3. t \in 1..Len(transfers) /\ transfers[t] \in Transfer
      BY <3>2, <1>t, OrderTypes
    <3>4. size \in Nat /\ transfers[t].firstRead \in Nat
      BY <3>3 DEF Transfer
    <3>5. size <= Len(responseBuf)
      BY <3>4, <2>2, <1>t
    <3>6. transfers[t].firstRead = NextUngiven
      BY <3>1, <3>2 DEF IInv, Order, TransfersInOrder, Wants
    <3> DEFINE first == transfers[t].firstRead
    <3> HIDE DEF size, first
    <3>7. words = [i \in 1..size |-> first + i]
      <4>1. \A i \in 1..size : responseBuf[i] \in Nat /\ responseBuf[i] = first + i
        <5>1. \A i \in 1..size : i \in 1..Len(responseBuf)
          BY <3>4, <3>5, <1>t
        <5> QED BY <5>1, <3>6, <1>t DEF BufferIsNext, first
      <4>2. /\ words \in Seq(Nat) /\ Len(words) = size
            /\ \A i \in 1..size - 1 + 1 : words[i] = responseBuf[1 + i - 1]
        <5>1. /\ words \in Seq(Nat)
              /\ Len(words) = IF 1 <= size THEN size - 1 + 1 ELSE 0
              /\ \A i \in 1..size - 1 + 1 : words[i] = responseBuf[1 + i - 1]
          BY <4>1, <3>4, SubSeqProperties
        <5> QED BY <5>1, <3>4
      <4> HIDE DEF words
      <4>3. \A i \in 1..size : words[i] = first + i
        <5> SUFFICES ASSUME NEW i \in 1..size PROVE words[i] = first + i
          OBVIOUS
        <5>1. i \in 1..size - 1 + 1 /\ 1 + i - 1 = i
          BY <3>4
        <5> QED BY <5>1, <4>1, <4>2
      <4>4. words = [i \in 1..size |-> words[i]]
        BY <4>2
      <4> QED BY <4>3, <4>4
    <3> HIDE DEF t, words
    <3>8. /\ DOMAIN transfers' = 1..Len(transfers)
          /\ transfers'[t] = [transfers[t] EXCEPT !.result = words]
          /\ \A s \in 1..Len(transfers) : s # t => transfers'[s] = transfers[s]
      BY <2>2, <3>3, <1>t
    <3>9. \A s : s = t => transfers'[s].result \in {NoResult, Own(s)'}
      <4>1. /\ transfers'[t].result = words /\ transfers'[t].count = size
            /\ transfers'[t].firstRead = first
        BY <3>8, <3>3 DEF Transfer, size, first
      <4>2. \A s : s = t => Own(s)' = [i \in 1..size |-> first + i]
        BY <4>1 DEF Own
      <4> QED BY <4>1, <4>2, <3>7
    <3>10. \A s \in 1..Len(transfers) : s # t => transfers'[s].result \in {NoResult, Own(s)'}
      <4> SUFFICES ASSUME NEW s \in 1..Len(transfers), s # t
                   PROVE  transfers'[s].result \in {NoResult, Own(s)'}
        OBVIOUS
      <4>1. transfers'[s] = transfers[s]
        BY <3>8
      <4> QED BY <4>1, <1>k
    <3> QED BY <3>8, <3>9, <3>10 DEF ResultIsOwn
  <2> QED BY <1>4, <2>1, <2>2 DEF Attach
<1>5. CASE Calls /\ ~(\E request \in ReadRequests, count \in Counts, now \in BOOLEAN :
                        ReadReg(request, count, now))
  BY <1>5, <1>u DEF Calls, WriteReg, GetResult, Flush, SetDeferredTransfer,
                    ProtocolCommand, dapVars
<1>6. CASE FillAdd \/ FillNoRoom \/ FillEnd \/ ReturnTransfer \/ SendPacket \/ SendPacketWrite
           \/ Drain \/ GetResultTurn \/ SetDeferredEnd \/ ProtocolWrite \/ ProtocolWriteFails
           \/ ProtocolRead \/ AbortDrain
  BY <1>6, <1>u DEF FillAdd, FillNoRoom, FillEnd, ReturnTransfer, SendPacket, SendPacketWrite,
                    Drain, GetResultTurn, SetDeferredEnd, ProtocolWrite, ProtocolWriteFails,
                    ProtocolRead, AbortDrain, dapVars
<1>7. CASE Probe \/ UNCHANGED vars
  BY <1>7, <1>u DEF Probe, ProbeExecutes, ProbeFaults, ProbeRefuses, ResponseLost,
                    SpareReadTimesOut, Answer, dapVars, vars
<1> QED BY <1>1, <1>2, <1>3, <1>4, <1>5, <1>6, <1>7 DEF Next, Host

-----------------------------------------------------------------------------
(* The theorems.                                                           *)

\* Nothing is under way in a new DAPAccessCMSISDAP.
LEMMA InitInStep == Init => InStep
<1> SUFFICES ASSUME Init PROVE InStep
  OBVIOUS
<1>1. /\ usbIn = << >> /\ usbOut = << >> /\ commandsToRead = << >> /\ responseBuf = << >>
      /\ transfers = << >> /\ todo = << >> /\ spareReads = 0
  BY DEF Init
<1>2. NoUsbErrors /\ BufferIsNext /\ ResultIsOwn
  BY <1>1 DEF NoUsbErrors, BufferIsNext, ResultIsOwn
<1>3. Wire = WireOf(usbIn, usbOut) /\ << >> \in Seq(Responses) /\ << >> \in Seq(Packets)
  BY DEF Wire, WireOf, ItemOf
<1>4. Len(Wire) = 0
  <2>1. usbIn \in Seq(Responses) /\ usbOut \in Seq(Packets) /\ Len(usbIn) = 0 /\ Len(usbOut) = 0
    BY <1>1, <1>3
  <2>2. Len(WireOf(usbIn, usbOut)) = Len(usbIn) + Len(usbOut)
    BY <2>1, WireIs
  <2> QED BY <2>1, <2>2, <1>3
<1>5. Lockstep
  BY <1>1, <1>4 DEF Lockstep, At
<1> QED BY <1>2, <1>5 DEF InStep

\* Without a failing access, every step keeps host, wire and words in step.
LEMMA NextInStep ==
  ASSUME MaxUsbFailures = 0
  PROVE  IInv /\ InStep /\ [Next]_vars => InStep'
BY NoUsbErrorsStep, LockstepStep, BufferStep, ResultStep DEF InStep

\* While no access to the interface fails, every response that arrives is
\* that of the oldest command to read: refused transfers, and the responses
\* that _abort_all_transfers ignores after one, shift nothing.
THEOREM StaysInLockstep ==
  ASSUME MaxUsbFailures = 0
  PROVE  Spec => []Lockstep
<1>1. InStep => Lockstep
  BY DEF InStep
<1>2. IInv /\ InStep /\ [Next]_vars => InStep'
  BY NextInStep
<1> QED BY InitIInv, NextIInv, InitInStep, <1>1, <1>2, PTL DEF Spec

\* Then a transfer that completes has the words its own requests read,
\* however they were split over packets and whatever failed before.
THEOREM ReadsReturnTheirOwn ==
  ASSUME MaxUsbFailures = 0
  PROVE  Spec => []ResultIsOwn
<1>1. InStep => ResultIsOwn
  BY DEF InStep
<1>2. IInv /\ InStep /\ [Next]_vars => InStep'
  BY NextInStep
<1> QED BY InitIInv, NextIInv, InitInStep, <1>1, <1>2, PTL DEF Spec

\* And _send_packet keeps what it says: the probe never holds more packets
\* than it has buffers for, and each can be encoded and answered.
THEOREM ProbeIsNotOverrun ==
  ASSUME MaxUsbFailures = 0
  PROVE  Spec => []WithinLimits
<1>1. IInv /\ InStep => WithinLimits
  <2> SUFFICES ASSUME IInv, InStep PROVE WithinLimits
    OBVIOUS
  <2>1. /\ usbIn \in Seq(Responses) /\ usbOut \in Seq(Packets) /\ MaxPackets \in Nat
        /\ MaxPackets >= 1 /\ todo \in Seq(Labels) /\ HasRoom /\ Lockstep
        /\ commandsToRead \in Seq(Command)
    BY PipelineAssumption DEF IInv, InStep, TypeOK, Control
  <2>2. Wire = WireOf(usbIn, usbOut)
    BY DEF Wire, WireOf, ItemOf
  <2>3. /\ Len(Wire) = Len(usbIn) + Len(usbOut)
        /\ Len(usbIn) \in Nat /\ Len(usbOut) \in Nat
    BY <2>1, <2>2, WireIs
  <2>4. Len(Wire) <= MaxPackets
    <3>1. CASE Plain
      BY <3>1, <2>1, LockstepByPlace DEF Matched, HasRoom
    <3>2. CASE At("protoGet")
      BY <3>2, <2>1, LockstepByPlace
    <3>3. CASE At("abortDrain")
      BY <3>3, <2>1, LockstepByPlace DEF HasRoom
    <3> QED BY <3>1, <3>2, <3>3 DEF Plain
  <2>5. Len(usbOut) <= MaxPackets
    BY <2>1, <2>3, <2>4
  <2>6. DOMAIN commandsToRead = 1..Len(commandsToRead)
    BY <2>1
  <2> QED BY <2>5, <2>6 DEF WithinLimits, IInv, AllFit, Fits
<1>2. IInv /\ InStep /\ [Next]_vars => InStep'
  BY NextInStep
<1> QED BY InitIInv, NextIInv, InitInStep, <1>1, <1>2, PTL DEF Spec

-----------------------------------------------------------------------------
(* The pipeline keeps the promise of DapAccess.                            *)

Outcomes == {"pending", "ok", "wrong", "failed"}
Reads == [t \in DOMAIN transfers |-> OutcomeOf(t)]

\* A read is pending as long as it is in the list, and never has other words
\* than its own.
LEMMA OutcomeIs ==
  ASSUME TypeOK, WaitingInv, ResultIsOwn
  PROVE  /\ Len(transfers) \in Nat /\ DOMAIN transfers = 1..Len(transfers)
         /\ Reads \in Seq(Outcomes) /\ Len(Reads) = Len(transfers)
         /\ DOMAIN Reads = 1..Len(transfers)
         /\ \A t \in 1..Len(transfers) :
              /\ Reads[t] = OutcomeOf(t)
              /\ Reads[t] = "pending" <=> Waits(t)
<1> DEFINE m == Len(transfers)
<1>1. m \in Nat /\ DOMAIN transfers = 1..m
  BY DEF TypeOK
<1>2. \A t : OutcomeOf(t) \in Outcomes
  BY DEF OutcomeOf, Outcomes
<1> HIDE DEF m
<1>3. Reads = [t \in 1..m |-> OutcomeOf(t)]
  BY <1>1 DEF Reads
<1>4. ASSUME NEW t \in 1..m PROVE OutcomeOf(t) = "pending" <=> Waits(t)
  <2>1. Settled(t) <=> ~Waits(t)
    BY DEF WaitingInv, m
  <2> QED BY <2>1 DEF OutcomeOf, Settled
<1>5. Reads \in Seq(Outcomes) /\ Len(Reads) = m
  BY <1>1, <1>2, <1>3
<1> QED BY <1>1, <1>3, <1>4, <1>5 DEF m

\* Every step is one of the reads of DapAccess, or none of its business.
LEMMA ReadsStep ==
  ASSUME IInv, WaitingInv, ResultIsOwn, WaitingInv', ResultIsOwn', [Next]_vars
  PROVE  Promise!Next \/ Reads' = Reads
<1> DEFINE m == Len(transfers)
<1>t. TypeOK /\ transfers \in Seq(Transfer)
  BY DEF IInv, TypeOK
<1>r. /\ m \in Nat /\ DOMAIN transfers = 1..m
      /\ Reads \in Seq(Outcomes) /\ Len(Reads) = m /\ DOMAIN Reads = 1..m
      /\ \A t \in 1..m : Reads[t] = OutcomeOf(t) /\ (Reads[t] = "pending" <=> Waits(t))
      /\ Reads = [t \in 1..m |-> OutcomeOf(t)]
  BY <1>t, OutcomeIs DEF Reads
<1>n. Reads' = [t \in DOMAIN transfers' |-> OutcomeOf(t)']
  BY DEF Reads
<1>p. Promise!Pending = {t \in DOMAIN Reads : Reads[t] = "pending"}
  BY DEF Promise!Pending, Reads
<1> HIDE DEF m
<1>k. \A t : transfers'[t] = transfers[t] => OutcomeOf(t)' = OutcomeOf(t)
  BY DEF OutcomeOf, Own
<1>1. CASE UNCHANGED <<transfers, transferList>>
  <2>1. \A t : OutcomeOf(t)' = OutcomeOf(t)
    BY <1>1, <1>k
  <2> QED BY <2>1, <1>1, <1>n DEF Reads
<1>2. CASE Requested
  <2>1. PICK new \in Transfer : /\ new.result = NoResult /\ new.error = NoError
                                /\ transfers' = Append(transfers, new)
    BY <1>2 DEF Requested
  <2>2. /\ DOMAIN transfers' = 1..m + 1 /\ transfers'[m + 1] = new
        /\ \A t \in 1..m : transfers'[t] = transfers[t]
    BY <2>1, <1>t, <1>r DEF m
  <2>3. \A t \in 1..m : OutcomeOf(t)' = OutcomeOf(t)
    BY <2>2, <1>k
  <2>4. \A t : t = m + 1 => OutcomeOf(t)' = "pending"
    <3> SUFFICES ASSUME NEW t, t = m + 1 PROVE OutcomeOf(t)' = "pending"
      OBVIOUS
    <3>1. transfers'[t].result = NoResult /\ transfers'[t].error = NoError
      BY <2>1, <2>2
    <3> QED BY <3>1 DEF OutcomeOf
  <2>5. \A t \in 1..m + 1 : OutcomeOf(t)' = IF t = m + 1 THEN "pending" ELSE Reads[t]
    <3>1. \A t \in 1..m + 1 : t \in 1..m \/ t = m + 1
      BY <1>r
    <3>2. \A t \in 1..m : t # m + 1
      BY <1>r
    <3> QED BY <3>1, <3>2, <2>3, <2>4, <1>r
  <2>6. Reads' = [t \in 1..m + 1 |-> IF t = m + 1 THEN "pending" ELSE Reads[t]]
    BY <2>5, <2>2, <1>n
  <2>7. Append(Reads, "pending") = [t \in 1..m + 1 |-> IF t = m + 1 THEN "pending" ELSE Reads[t]]
    BY <1>r
  <2>8. Reads' = Append(Reads, "pending")
    BY <2>6, <2>7
  <2> QED BY <2>8 DEF Promise!Next, Promise!Request, Reads
<1>3. CASE Aborted
  <2>1. PICK error \in Errors : transfers' = FailWaiting(error)
    BY <1>3 DEF Aborted
  <2>2. error # NoError
    BY DEF Errors, TransferErrors, NoError
  <2>3. /\ DOMAIN transfers' = 1..m
        /\ \A t \in 1..m : transfers'[t] =
             IF Waits(t) THEN [transfers[t] EXCEPT !.error = error] ELSE transfers[t]
    BY <2>1, <1>t, FailWaitingIs DEF m
  <2>4. ASSUME NEW t \in 1..m
        PROVE  OutcomeOf(t)' = IF Waits(t) THEN "failed" ELSE Reads[t]
    <3>1. CASE Waits(t)
      <4>1. transfers[t] \in Transfer
        BY <1>t DEF m
      <4>2. transfers[t].result = NoResult
        BY <3>1 DEF WaitingInv, Settled, m
      <4>3. transfers'[t].result = NoResult /\ transfers'[t].error = error
        BY <4>1, <4>2, <3>1, <2>3 DEF Transfer
      <4> QED BY <4>3, <3>1, <2>2 DEF OutcomeOf
    <3>2. CASE ~Waits(t)
      BY <3>2, <2>3, <1>k, <1>r
    <3> QED BY <3>1, <3>2
  <2>5. Reads' = [t \in 1..m |-> IF Waits(t) THEN "failed" ELSE Reads[t]]
    BY <2>4, <2>3, <1>n
  <2>6. Reads' = [t \in DOMAIN Reads |-> IF t \in Promise!Pending THEN "failed" ELSE Reads[t]]
    BY <2>5, <1>p, <1>r
  <2>7. CASE Promise!Pending = {}
    <3>1. Reads' = [t \in 1..m |-> Reads[t]]
      BY <2>6, <2>7, <1>r
    <3>2. Reads = [t \in 1..m |-> Reads[t]]
      BY <1>r
    <3> QED BY <3>1, <3>2
  <2>8. CASE Promise!Pending # {}
    BY <2>6, <2>8 DEF Promise!Next, Promise!Fail, Reads
  <2> QED BY <2>7, <2>8
<1>4. CASE Given
  <2> DEFINE s == Head(transferList)
  <2>1. PICK words \in Seq(Nat) \ {NoResult} :
          transfers' = [transfers EXCEPT ![s].result = words]
    BY <1>4 DEF Given
  <2>2. /\ s \in 1..m /\ Waits(s)
        /\ \A t \in 1..m : Waits(t) => s <= t
    BY <1>4, <1>t, OldestWaits DEF Given, m
  <2>3. transfers[s] \in Transfer
    BY <2>2, <1>t DEF m
  <2> HIDE DEF s
  <2>4. /\ DOMAIN transfers' = 1..m
        /\ transfers'[s].result = words
        /\ \A t \in 1..m : t # s => transfers'[t] = transfers[t]
    BY <2>1, <2>2, <2>3, <1>r DEF Transfer
  <2>5. \A t : t = s => OutcomeOf(t)' = "ok"
    <3> SUFFICES ASSUME NEW t, t = s PROVE OutcomeOf(t)' = "ok"
      OBVIOUS
    <3>1. transfers'[t].result = words /\ words # NoResult
      BY <2>4
    <3>2. transfers'[t].result \in {NoResult, Own(t)'}
      BY <2>2, <2>4 DEF ResultIsOwn
    <3> QED BY <3>1, <3>2 DEF OutcomeOf
  <2>6. \A t \in 1..m : OutcomeOf(t)' = IF t = s THEN "ok" ELSE Reads[t]
    BY <2>4, <2>5, <1>k, <1>r
  <2>7. Reads' = [t \in 1..m |-> IF t = s THEN "ok" ELSE Reads[t]]
    BY <2>4, <2>6, <1>n
  <2>8. Reads' = [Reads EXCEPT ![s] = "ok"]
    BY <2>7, <1>r
  <2>9. s \in Promise!Pending /\ \A earlier \in Promise!Pending : s <= earlier
    BY <2>2, <1>p, <1>r
  <2> QED BY <2>8, <2>9 DEF Promise!Next, Promise!Complete, Reads
<1> QED BY <1>1, <1>2, <1>3, <1>4, WhatBecomesOfTransfers

\* The reads that callers see are those of DapAccess: pending until they have
\* their own words or an error, completed in the order of the requests, and
\* failed all together; whatever the probe refuses, and however they were
\* packed into packets. (read_reg, reg_read_repeat, _abort_all_transfers)
THEOREM PipelineIsDapAccess ==
  ASSUME MaxUsbFailures = 0
  PROVE  Spec => ImplementsDapAccess
<1>1. Init => Promise!Init
  <2> SUFFICES ASSUME Init PROVE Promise!Init
    OBVIOUS
  <2>1. DOMAIN transfers = {}
    BY DEF Init
  <2> QED BY <2>1 DEF Promise!Init
<1>2. IInv /\ InStep /\ [Next]_vars => InStep'
  BY NextInStep
<1>3. IInv /\ WaitingInv /\ [Next]_vars => WaitingInv'
  BY WaitingStep
<1>4. IInv /\ WaitingInv /\ InStep /\ WaitingInv' /\ InStep' /\ [Next]_vars
        => [Promise!Next]_[t \in DOMAIN transfers |-> OutcomeOf(t)]
  <2>1. IInv /\ WaitingInv /\ InStep /\ WaitingInv' /\ InStep' /\ [Next]_vars
          => Promise!Next \/ Reads' = Reads
    BY ReadsStep DEF InStep
  <2> QED BY <2>1 DEF Reads
<1> QED BY InitIInv, NextIInv, InitInStep, InitWaiting, <1>1, <1>2, <1>3, <1>4, PTL
        DEF Spec, ImplementsDapAccess, Promise!Spec

-----------------------------------------------------------------------------
(* Everything requested is executed by the time flush returns.             *)

\* The words of the commands to read follow each other, the current command's
\* last.
WordsEnd(cmd) == cmd.first + Size(cmd)
WordsOf(cmd) == cmd.first .. WordsEnd(cmd) - 1

WordsInOrder ==
  \A i \in 1..Len(commandsToRead) :
    WordsEnd(commandsToRead[i]) =
      IF i = Len(commandsToRead) THEN crntCmd.first ELSE commandsToRead[i + 1].first

\* What was requested since the last error and has been answered was executed.
NextUnanswered ==
  IF commandsToRead = << >> THEN crntCmd.first ELSE commandsToRead[1].first
OwedDone == owed .. NextUnanswered - 1 \subseteq done

\* And so was what the responses under way say was.
InFlight ==
  Plain =>
    /\ \A i \in 1..Len(usbIn) :
         usbIn[i].status = "OK" => WordsOf(commandsToRead[i]) \subseteq done
    /\ \A i \in 1..Len(usbOut) : usbOut[i].first = commandsToRead[Len(usbIn) + i].first

\* While flush reads the responses there is no command to send.
Draining ==
  \/ At("drain")
  \/ Len(todo) >= 2 /\ todo[1] \in {"read", "attach"} /\ todo[2] = "drain"
DrainEmpty == Draining => GetEmpty(crntCmd)

FlushInv == WordsInOrder /\ OwedDone /\ InFlight /\ DrainEmpty

\* The numbers this is about.
LEMMA WordTypes ==
  ASSUME TypeOK
  PROVE  /\ crntCmd.first \in Nat /\ Size(crntCmd) \in Nat /\ NextUnanswered \in Nat
         /\ NextWord = crntCmd.first + Size(crntCmd) /\ NextWord \in Nat
         /\ owed \in Nat
         /\ \A i \in 1..Len(commandsToRead) :
              /\ commandsToRead[i] \in Command
              /\ commandsToRead[i].first \in Nat /\ Size(commandsToRead[i]) \in Nat
<1>1. ASSUME NEW cmd \in Command PROVE cmd.first \in Nat /\ Size(cmd) \in Nat
  <2>1. cmd.first \in Nat /\ cmd.readCount \in Nat /\ cmd.writeCount \in Nat
    BY DEF Command
  <2> QED BY <2>1 DEF Size
<1>2. /\ crntCmd \in Command /\ commandsToRead \in Seq(Command)
      /\ \A i \in 1..Len(commandsToRead) : commandsToRead[i] \in Command
      /\ commandsToRead # << >> => 1 \in 1..Len(commandsToRead)
  BY DEF TypeOK
<1>3. NextUnanswered \in Nat
  BY <1>1, <1>2 DEF NextUnanswered
<1>4. NextWord = crntCmd.first + Size(crntCmd) /\ NextWord \in Nat
  BY <1>1, <1>2 DEF NextWord
<1> QED BY <1>1, <1>2, <1>3, <1>4 DEF TypeOK

\* What was executed stays so.
LEMMA DoneGrows ==
  ASSUME [Next]_vars
  PROVE  done \subseteq done'
<1>1. CASE Calls
  BY <1>1 DEF Calls, WriteReg, ReadReg, GetResult, Flush, SetDeferredTransfer,
              ProtocolCommand, usbVars
<1>2. CASE Host
  BY <1>2 DEF Host, FillAdd, FillNoRoom, FillEnd, ReturnTransfer, SendPacket, SendPacketWrite,
              SendPacketFails, ReadPacket, Attach, Drain, GetResultTurn, SetDeferredEnd,
              ProtocolWrite, ProtocolWriteFails, ProtocolRead, AbortDrain, UsbWriteFails, usbVars
<1>3. CASE Probe
  <2>1. ASSUME NEW status, Answer(status) PROVE done \subseteq done'
    BY <2>1 DEF Answer
  <2> QED BY <1>3, <2>1 DEF Probe, ProbeExecutes, ProbeFaults, ProbeRefuses, ResponseLost,
                            SpareReadTimesOut
<1>4. CASE UNCHANGED vars
  BY <1>4 DEF vars, usbVars
<1> QED BY <1>1, <1>2, <1>3, <1>4 DEF Next

\* While nothing is sent or read, the commands and their words stay the same.
LEMMA QuietKeepsWords ==
  ASSUME IInv, QuietSteps
  PROVE  /\ UNCHANGED <<commandsToRead, usbIn, usbOut, done, owed>>
         /\ crntCmd'.first = crntCmd.first
<1>1. UNCHANGED <<commandsToRead, usbIn, usbOut>>
  BY QuietStepsArePlain
<1>2. UNCHANGED <<done, owed>>
  BY DEF QuietSteps, Calls, WriteReg, ReadReg, GetResult, Flush, SetDeferredTransfer,
         ProtocolCommand, FillAdd, FillNoRoom, FillEnd, ReturnTransfer, SendPacket, Attach,
         Drain, GetResultTurn, SetDeferredEnd, usbVars, Start, Call, Become, Return, Raise
<1>3. CASE FillAdd
  <2> DEFINE size == GetRequestSpace(crntCmd, op.left, op.request)
  <2>t. crntCmd \in Command /\ op.left \in Nat /\ op.request \in Requests \cup {NoRequest}
    BY DEF IInv, TypeOK
  <2>1. crntCmd' = Add(crntCmd, size, op.request)
    BY <1>3 DEF FillAdd
  <2>2. size \in Nat
    <3>1. size \in 0..op.left
      BY <2>t, SpaceType
    <3> QED BY <3>1, <2>t
  <2> HIDE DEF size
  <2>3. Add(crntCmd, size, op.request).first = crntCmd.first
    BY <2>2, <2>t, AddType
  <2> QED BY <2>1, <2>3, <1>1, <1>2
<1>4. CASE ~FillAdd
  <2>1. UNCHANGED crntCmd
    BY <1>4 DEF QuietSteps, Calls, WriteReg, ReadReg, GetResult, Flush, SetDeferredTransfer,
                ProtocolCommand, FillNoRoom, FillEnd, ReturnTransfer, SendPacket, Attach,
                Drain, GetResultTurn, SetDeferredEnd, dapVars
  <2> QED BY <2>1, <1>1, <1>2
<1> QED BY <1>3, <1>4

\* A response that _read_packet accepts is OK.
LEMMA AcceptedIsOK ==
  ASSUME NEW cmd, NEW response \in Responses, DecodeError(cmd, response) = NoError
  PROVE  response.status = "OK"
BY DEF DecodeError, NoError, Responses, Statuses, TransferErrors

\* What an abort owes from then on is nothing yet.
LEMMA AbortOwesNothing ==
  ASSUME TypeOK, NEW error, NEW n, AbortAllTransfers(error, n)
  PROVE  /\ commandsToRead' = << >> /\ crntCmd' = NewCommand(NextWord, NextRead)
         /\ crntCmd'.first = NextWord /\ owed' = NextWord /\ NextUnanswered' = NextWord
         /\ WordsInOrder' /\ OwedDone' /\ GetEmpty(crntCmd')
<1>1. /\ commandsToRead' = << >> /\ crntCmd' = NewCommand(NextWord, NextRead)
      /\ owed' = NextWord
  BY DEF AbortAllTransfers
<1>2. crntCmd'.first = NextWord /\ GetEmpty(crntCmd')
  BY <1>1 DEF NewCommand, GetEmpty, Size
<1>3. NextUnanswered' = NextWord
  BY <1>1, <1>2 DEF NextUnanswered
<1>4. OwedDone'
  <2>1. NextWord \in Nat
    BY WordTypes
  <2>2. \A k \in Nat : k .. k - 1 = {}
    OBVIOUS
  <2>3. NextWord .. NextWord - 1 = {}
    BY <2>1, <2>2
  <2> QED BY <2>3, <1>1, <1>3 DEF OwedDone
<1>5. WordsInOrder'
  BY <1>1 DEF WordsInOrder
<1> QED BY <1>1, <1>2, <1>3, <1>4, <1>5

\* Every step keeps the words in order, and those answered executed.
LEMMA WordsStep ==
  ASSUME MaxUsbFailures = 0, IInv, InStep, WordsInOrder, OwedDone, InFlight, [Next]_vars
  PROVE  WordsInOrder' /\ OwedDone'
<1> DEFINE n == Len(commandsToRead)
<1>t. /\ TypeOK /\ commandsToRead \in Seq(Command) /\ crntCmd \in Command /\ n \in Nat
      /\ usbIn \in Seq(Responses)
  BY DEF IInv, TypeOK
<1>n. ~SendPacketFails /\ ~ProtocolWriteFails
  BY NoFailures DEF IInv, InStep
<1>d. done \subseteq done'
  BY DoneGrows
<1>u. ASSUME UNCHANGED <<commandsToRead, owed>>, crntCmd'.first = crntCmd.first
      PROVE  WordsInOrder' /\ OwedDone'
  <2>1. WordsInOrder'
    BY <1>u DEF WordsInOrder, WordsEnd, Size
  <2>2. NextUnanswered' = NextUnanswered
    BY <1>u DEF NextUnanswered
  <2> QED BY <2>1, <2>2, <1>u, <1>d DEF OwedDone
<1>1. CASE QuietSteps
  BY <1>1, <1>u, QuietKeepsWords
<1>2. CASE SendPacketWrite
  <2>1. /\ commandsToRead' = Append(commandsToRead, crntCmd)
        /\ crntCmd' = NewCommand(NextWord, NextRead) /\ owed' = owed
    BY <1>2 DEF SendPacketWrite, Return
  <2>2. /\ Len(commandsToRead') = n + 1 /\ commandsToRead'[n + 1] = crntCmd
        /\ \A i \in 1..n : commandsToRead'[i] = commandsToRead[i]
        /\ commandsToRead' # << >>
    BY <2>1, <1>t, AppendProperties
  <2>3. crntCmd'.first = WordsEnd(crntCmd)
    BY <2>1, <1>t, WordTypes DEF NewCommand, WordsEnd
  <2>4. NextUnanswered' = NextUnanswered
    <3>1. CASE commandsToRead = << >>
      BY <3>1, <2>2 DEF NextUnanswered
    <3>2. CASE commandsToRead # << >>
      <4>1. 1 \in 1..n
        BY <3>2, <1>t
      <4> QED BY <4>1, <3>2, <2>2 DEF NextUnanswered
    <3> QED BY <3>1, <3>2
  <2>5. OwedDone'
    BY <2>1, <2>4, <1>d DEF OwedDone
  <2>6. \A i \in 1..n : WordsEnd(commandsToRead[i]) =
          IF i = n THEN crntCmd.first ELSE commandsToRead[i + 1].first
    BY DEF WordsInOrder
  <2> HIDE DEF n
  <2>7. WordsInOrder'
    <3> SUFFICES ASSUME NEW i \in 1..n + 1
                 PROVE  WordsEnd(commandsToRead'[i]) =
                          IF i = n + 1 THEN crntCmd'.first ELSE commandsToRead'[i + 1].first
      BY <2>2 DEF WordsInOrder, WordsEnd, Size
    <3>1. CASE i = n + 1
      BY <3>1, <2>2, <2>3
    <3>2. CASE i = n
      <4>1. i \in 1..n /\ i # n + 1
        BY <3>2, <1>t
      <4> QED BY <4>1, <3>2, <2>2, <2>6
    <3>3. CASE i # n /\ i # n + 1
      <4>1. i \in 1..n /\ i + 1 \in 1..n
        BY <3>3, <1>t
      <4> QED BY <4>1, <3>3, <2>2, <2>6
    <3> QED BY <3>1, <3>2, <3>3
  <2> QED BY <2>5, <2>7
<1>3. CASE ReadPacket
  <2> DEFINE cmd == commandsToRead[1]
             response == Head(usbIn)
  <2>1. At("read") /\ usbIn # << >> /\ Plain
    BY <1>3 DEF ReadPacket, Plain, At
  <2>2. commandsToRead # << >> /\ Head(commandsToRead) = cmd /\ response \in Responses
    BY <2>1, ResponseIsOfHead DEF InStep
  <2>3. response = usbIn[1] /\ 1 \in 1..Len(usbIn) /\ n >= 1 /\ 1 \in 1..n
    BY <2>1, <2>2, <1>t
  <2>4. CASE /\ DecodeError(cmd, response) # NoError
             /\ AbortAllTransfers(DecodeError(cmd, response), n - 1)
    BY <2>4, <1>t, AbortOwesNothing
  <2>5. CASE /\ DecodeError(cmd, response) = NoError
             /\ commandsToRead' = Tail(commandsToRead)
             /\ UNCHANGED <<crntCmd, owed>>
    <3>1. WordsOf(cmd) \subseteq done
      <4>1. response.status = "OK"
        BY <2>2, <2>5, AcceptedIsOK
      <4> QED BY <4>1, <2>1, <2>3 DEF InFlight
    <3>2. /\ Len(commandsToRead') = n - 1
          /\ \A i \in 1..n - 1 : commandsToRead'[i] = commandsToRead[i + 1]
          /\ commandsToRead' \in Seq(Command)
      BY <2>2, <2>5, <1>t, DropHead
    <3>3. \A i \in 1..n : WordsEnd(commandsToRead[i]) =
            IF i = n THEN crntCmd.first ELSE commandsToRead[i + 1].first
      BY DEF WordsInOrder
    <3>4. NextUnanswered = cmd.first /\ cmd.first \in Nat /\ Size(cmd) \in Nat /\ owed \in Nat
      BY <2>2, <2>3, <1>t, WordTypes DEF NextUnanswered
    <3> HIDE DEF n, cmd, response
    <3>5. NextUnanswered' = WordsEnd(cmd)
      <4>1. WordsEnd(cmd) = IF 1 = n THEN crntCmd.first ELSE commandsToRead[1 + 1].first
        BY <3>3, <2>3 DEF cmd
      <4>2. CASE n = 1
        <5>1. commandsToRead' = << >>
          BY <4>2, <3>2, EmptySeq
        <5> QED BY <5>1, <4>1, <4>2, <2>5 DEF NextUnanswered
      <4>3. CASE n # 1
        <5>1. 1 \in 1..n - 1 /\ n - 1 # 0
          BY <4>3, <2>3, <1>t
        <5>2. commandsToRead' # << >> /\ commandsToRead'[1] = commandsToRead[1 + 1]
          BY <5>1, <3>2, EmptySeq
        <5> QED BY <5>2, <4>1, <4>3 DEF NextUnanswered
      <4> QED BY <4>2, <4>3
    <3>6. OwedDone'
      <4>1. owed .. cmd.first - 1 \subseteq done
        BY <3>4 DEF OwedDone
      <4>2. cmd.first .. (cmd.first + Size(cmd)) - 1 \subseteq done
        BY <3>1 DEF WordsOf, WordsEnd
      <4> DEFINE f == cmd.first
                 z == Size(cmd)
      <4> HIDE DEF f, z
      <4>3. f \in Nat /\ z \in Nat /\ owed .. f - 1 \subseteq done /\ f .. (f + z) - 1 \subseteq done
        BY <4>1, <4>2, <3>4 DEF f, z
      <4>4. \A w \in owed .. (f + z) - 1 : w \in owed .. f - 1 \/ w \in f .. (f + z) - 1
        BY <4>3, <3>4
      <4>5. owed .. (f + z) - 1 \subseteq done
        BY <4>3, <4>4
      <4>6. NextUnanswered' = f + z
        BY <3>5 DEF WordsEnd, f, z
      <4> QED BY <4>5, <4>6, <2>5, <1>d DEF OwedDone
    <3>7. WordsInOrder'
      <4> SUFFICES ASSUME NEW i \in 1..n - 1
                   PROVE  WordsEnd(commandsToRead'[i]) =
                            IF i = n - 1 THEN crntCmd.first ELSE commandsToRead'[i + 1].first
        BY <3>2, <2>5 DEF WordsInOrder, WordsEnd, Size
      <4>1. i + 1 \in 1..n /\ commandsToRead'[i] = commandsToRead[i + 1]
        BY <3>2, <1>t DEF n
      <4>2. WordsEnd(commandsToRead[i + 1]) =
              IF i + 1 = n THEN crntCmd.first ELSE commandsToRead[(i + 1) + 1].first
        BY <4>1, <3>3
      <4>3. CASE i = n - 1
        <5>1. i + 1 = n
          BY <4>3, <2>3, <1>t DEF n
        <5> QED BY <5>1, <4>1, <4>2, <4>3
      <4>4. CASE i # n - 1
        <5>1. i + 1 \in 1..n - 1 /\ i + 1 # n
          BY <4>4, <2>3, <1>t DEF n
        <5> QED BY <5>1, <4>1, <4>2, <4>4, <3>2
      <4> QED BY <4>3, <4>4
    <3> QED BY <3>6, <3>7
  <2> QED BY <1>3, <2>2, <2>4, <2>5 DEF ReadPacket, Become
<1>4. CASE ProtocolWrite \/ ProtocolRead \/ AbortDrain \/ Probe \/ UNCHANGED vars
  <2>1. UNCHANGED <<commandsToRead, owed, crntCmd>>
    BY <1>4 DEF ProtocolWrite, ProtocolRead, AbortDrain, Probe, ProbeExecutes, ProbeFaults,
                ProbeRefuses, ResponseLost, SpareReadTimesOut, Answer, vars, dapVars,
                Become, Return, Raise
  <2> QED BY <2>1, <1>u
<1> QED BY <1>1, <1>2, <1>3, <1>4, <1>n DEF Next, Host, QuietSteps

\* Nothing is under way for no command.
LEMMA NothingInFlight ==
  ASSUME usbIn' \in Seq(Responses), usbOut' \in Seq(Packets), Lockstep', commandsToRead' = << >>
  PROVE  InFlight'
<1> SUFFICES ASSUME Plain' PROVE InFlight'
  BY DEF InFlight
<1>1. Len(Wire') = Len(commandsToRead')
  BY DEF Lockstep, Plain, At
<1>2. Len(Wire') = 0
  BY <1>1
<1>3. Wire' = WireOf(usbIn', usbOut')
  BY DEF Wire, WireOf, ItemOf
<1>4. /\ Len(Wire') = Len(usbIn') + Len(usbOut')
      /\ Len(usbIn') \in Nat /\ Len(usbOut') \in Nat
  BY <1>3, WireIs
<1>5. \A a, b \in Nat : a + b = 0 => a = 0 /\ b = 0
  OBVIOUS
<1>6. Len(usbIn') = 0 /\ Len(usbOut') = 0
  BY <1>2, <1>4, <1>5, Zenon
<1> QED BY <1>6 DEF InFlight

\* As many responses and packets as commands to read.
LEMMA FlightLength ==
  ASSUME TypeOK, Lockstep, Plain
  PROVE  /\ Len(usbIn) \in Nat /\ Len(usbOut) \in Nat /\ Len(commandsToRead) \in Nat
         /\ Len(usbIn) + Len(usbOut) = Len(commandsToRead)
<1>1. /\ usbIn \in Seq(Responses) /\ usbOut \in Seq(Packets)
      /\ Len(commandsToRead) \in Nat
  BY DEF TypeOK
<1>2. Len(Wire) = Len(commandsToRead)
  BY LockstepByPlace DEF Matched
<1>3. /\ Len(Wire) = Len(usbIn) + Len(usbOut)
      /\ Len(usbIn) \in Nat /\ Len(usbOut) \in Nat
  BY <1>1, WireIs DEF Wire, WireOf, ItemOf
<1> QED BY <1>1, <1>2, <1>3

\* Every step keeps what the responses under way say true.
LEMMA FlightStep ==
  ASSUME MaxUsbFailures = 0, IInv, InStep, InFlight, [Next]_vars, IInv', InStep'
  PROVE  InFlight'
<1> DEFINE n == Len(commandsToRead)
           a == Len(usbIn)
           b == Len(usbOut)
<1>y. TypeOK /\ Lockstep
  BY Zenon DEF IInv, InStep
<1>s. /\ commandsToRead \in Seq(Command) /\ crntCmd \in Command
      /\ usbIn \in Seq(Responses) /\ usbOut \in Seq(Packets)
  BY <1>y, Zenon DEF TypeOK
<1>l. n \in Nat /\ a \in Nat /\ b \in Nat
  BY <1>s, LenProperties, Zenon
<1>t. /\ TypeOK /\ commandsToRead \in Seq(Command) /\ crntCmd \in Command
      /\ usbIn \in Seq(Responses) /\ usbOut \in Seq(Packets) /\ Lockstep
      /\ n \in Nat /\ a \in Nat /\ b \in Nat
  BY <1>y, <1>s, <1>l, Zenon
<1>n. ~SendPacketFails /\ ~ProtocolWriteFails /\ ~ResponseLost /\ ~SpareReadTimesOut
  BY NoFailures DEF IInv, InStep
<1>z. ASSUME commandsToRead' = << >> PROVE InFlight'
  BY <1>z, NothingInFlight DEF IInv, TypeOK, InStep
<1>f. ASSUME Plain
      PROVE  /\ a + b = n
             /\ \A i \in 1..a : usbIn[i].status = "OK" => WordsOf(commandsToRead[i]) \subseteq done
             /\ \A i \in 1..b : usbOut[i].first = commandsToRead[a + i].first
  BY <1>f, <1>t, FlightLength DEF InFlight
<1>w. \A cmd : WordsOf(cmd)' = WordsOf(cmd)
  BY DEF WordsOf, WordsEnd, Size
<1> HIDE DEF n, a, b
<1>1. CASE QuietSteps
  <2>1. Plain /\ UNCHANGED <<commandsToRead, usbIn, usbOut, done>>
    BY <1>1, QuietStepsArePlain, QuietKeepsWords
  <2> QED BY <2>1 DEF InFlight, WordsOf, WordsEnd, Size
<1>2. CASE SendPacketWrite
  <2>1. /\ Plain /\ commandsToRead' = Append(commandsToRead, crntCmd)
        /\ usbOut' = Append(usbOut, Packet(crntCmd)) /\ UNCHANGED <<usbIn, done>>
    BY <1>2 DEF SendPacketWrite, Plain, At
  <2>2. /\ commandsToRead'[n + 1] = crntCmd
        /\ \A i \in 1..n : commandsToRead'[i] = commandsToRead[i]
    BY <2>1, <1>t, AppendProperties DEF n
  <2>3. Packet(crntCmd) \in Packets
    BY <1>t, NextTypes
  <2>4. /\ Len(usbOut') = b + 1 /\ usbOut'[b + 1] = Packet(crntCmd)
        /\ \A i \in 1..b : usbOut'[i] = usbOut[i]
    BY <2>1, <2>3, <1>t, AppendProperties DEF b
  <2>0. a + b = n
    BY <2>1, <1>f
  <2>5. Packet(crntCmd).first = crntCmd.first
    BY DEF Packet
  <2>6. \A i \in 1..a : usbIn[i].status = "OK" => WordsOf(commandsToRead'[i]) \subseteq done
    <3>1. \A i \in 1..a : i \in 1..n
      BY <2>1, <1>f, <1>t
    <3> QED BY <3>1, <2>1, <2>2, <1>f
  <2>7. ASSUME NEW i \in 1..b + 1 PROVE usbOut'[i].first = commandsToRead'[a + i].first
    <3>1. CASE i = b + 1
      <4>1. a + i = n + 1
        BY <3>1, <2>0, <1>l
      <4> QED BY <4>1, <3>1, <2>2, <2>4, <2>5
    <3>2. CASE i # b + 1
      <4>1. i \in 1..b /\ a + i \in 1..n
        BY <3>2, <2>0, <1>l
      <4> QED BY <4>1, <2>1, <2>2, <2>4, <1>f
    <3> QED BY <3>1, <3>2
  <2> QED BY <2>1, <2>4, <2>6, <2>7 DEF InFlight, a, WordsOf, WordsEnd, Size
<1>3. CASE ReadPacket
  <2>1. At("read") /\ usbIn # << >> /\ usbIn' = Tail(usbIn) /\ UNCHANGED <<usbOut, done>> /\ Plain
    BY <1>3 DEF ReadPacket, Plain, At
  <2>2. commandsToRead # << >>
    BY <2>1, ResponseIsOfHead DEF InStep
  <2>3. CASE commandsToRead' = << >>
    BY <2>3, <1>z
  <2>4. CASE commandsToRead' = Tail(commandsToRead)
    <3>1. /\ Len(commandsToRead') = n - 1
          /\ \A i \in 1..n - 1 : commandsToRead'[i] = commandsToRead[i + 1]
      BY <2>2, <2>4, <1>t, DropHead DEF n
    <3>2. Len(usbIn') = a - 1 /\ \A i \in 1..a - 1 : usbIn'[i] = usbIn[i + 1]
      BY <2>1, <1>t, DropHead DEF a
    <3>3. a >= 1
      BY <2>1, <1>t DEF a
    <3>4. ASSUME NEW i \in 1..a - 1, usbIn'[i].status = "OK"
          PROVE  WordsOf(commandsToRead'[i]) \subseteq done
      <4>1. i + 1 \in 1..a /\ i \in 1..n - 1
        BY <3>3, <2>1, <1>f, <1>t
      <4> QED BY <4>1, <3>1, <3>2, <3>4, <2>1, <1>f
    <3>5. ASSUME NEW i \in 1..b PROVE usbOut[i].first = commandsToRead'[(a - 1) + i].first
      <4>1. (a - 1) + i \in 1..n - 1 /\ ((a - 1) + i) + 1 = a + i
        BY <3>3, <2>1, <1>f, <1>t
      <4> QED BY <4>1, <3>1, <2>1, <1>f
    <3> QED BY <2>1, <3>2, <3>4, <3>5 DEF InFlight, b, WordsOf, WordsEnd, Size
  <2> QED BY <1>3, <2>3, <2>4 DEF ReadPacket, AbortAllTransfers
<1>4. CASE ProtocolWrite
  <2>1. todo # << >> /\ todo' = <<"protoGet">> \o Tail(todo) /\ todo \in Seq(Labels)
    BY <1>4 DEF ProtocolWrite, Become, At, IInv, TypeOK
  <2>2. At("protoGet")'
    BY <2>1, LabelsAre, ReplaceHead DEF At
  <2> QED BY <2>2 DEF InFlight, Plain
<1>5. CASE ProtocolRead \/ AbortDrain
  <2>1. commandsToRead = << >> /\ UNCHANGED commandsToRead
    BY <1>5, <1>t, LockstepByPlace DEF ProtocolRead, AbortDrain, dapVars
  <2> QED BY <2>1, <1>z
<1>6. ASSUME NEW status, Answer(status), status \in Statuses PROVE InFlight'
  <2> DEFINE p == Head(usbOut)
             r == [kind |-> p.kind, status |-> status, firstRead |-> p.firstRead,
                   readCount |-> p.readCount, size |-> p.size]
  <2>1. /\ usbOut # << >> /\ usbIn' = Append(usbIn, r) /\ usbOut' = Tail(usbOut)
        /\ UNCHANGED <<commandsToRead, todo>>
        /\ done' = IF status = "OK" THEN done \cup p.first .. (p.first + p.size - 1) ELSE done
    BY <1>6 DEF Answer, dapVars
  <2>2. p \in Packets /\ p = usbOut[1] /\ b >= 1 /\ 1 \in 1..b
    BY <2>1, <1>t DEF b
  <2>3. r \in Responses /\ r.status = status
    BY <2>2, <1>6 DEF Packets, Responses
  <2>4. CASE ~Plain
    BY <2>1, <2>4 DEF InFlight, Plain, At
  <2>5. CASE Plain
    <3>1. a + b = n
      BY <2>5, <1>f
    <3>2. p.size = Size(commandsToRead[a + 1]) /\ p.first = commandsToRead[a + 1].first
      <4>1. Matched
        BY <2>5, <1>t, LockstepByPlace
      <4>2. a + 1 \in 1..n
        BY <2>2, <3>1, <1>t
      <4>3. Wire[a + 1] = ItemOf(p)
        BY <2>2, <1>t, WireIs DEF Wire, WireOf, ItemOf, a, b
      <4>4. Agrees(Wire[a + 1], commandsToRead[a + 1])
        BY <4>1, <4>2 DEF Matched, n
      <4>5. p.size = Size(commandsToRead[a + 1])
        BY <4>3, <4>4 DEF Agrees, ItemOf
      <4> QED BY <4>5, <2>2, <2>5, <1>f
    <3>3. p.first \in Nat /\ p.size \in Nat
      BY <2>2 DEF Packets
    <3> HIDE DEF r, p
    <3>4. Len(usbIn') = a + 1 /\ usbIn'[a + 1] = r /\ \A i \in 1..a : usbIn'[i] = usbIn[i]
      BY <2>1, <2>3, <1>t, AppendProperties DEF a
    <3>5. Len(usbOut') = b - 1 /\ \A i \in 1..b - 1 : usbOut'[i] = usbOut[i + 1]
      BY <2>1, <1>t, DropHead DEF b
    <3>6. ASSUME NEW i \in 1..a + 1, usbIn'[i].status = "OK"
          PROVE  WordsOf(commandsToRead[i]) \subseteq done'
      <4>1. CASE i = a + 1
        <5>1. status = "OK"
          BY <4>1, <3>4, <3>6, <2>3
        <5>2. p.first .. (p.first + p.size - 1) \subseteq done'
          BY <5>1, <2>1
        <5>3. WordsOf(commandsToRead[i]) = p.first .. (p.first + p.size) - 1
          BY <4>1, <3>2 DEF WordsOf, WordsEnd
        <5>4. (p.first + p.size) - 1 = p.first + p.size - 1
          BY <3>3
        <5> QED BY <5>2, <5>3, <5>4
      <4>2. CASE i # a + 1
        <5>1. i \in 1..a
          BY <4>2, <1>t
        <5>2. done \subseteq done'
          BY <2>1
        <5> QED BY <5>1, <5>2, <3>4, <3>6, <2>5, <1>f
      <4> QED BY <4>1, <4>2
    <3>7. ASSUME NEW i \in 1..b - 1 PROVE usbOut'[i].first = commandsToRead[(a + 1) + i].first
      <4>1. i + 1 \in 1..b /\ a + (i + 1) = (a + 1) + i
        BY <2>2, <1>t
      <4> QED BY <4>1, <3>5, <2>5, <1>f
    <3> QED BY <2>1, <3>4, <3>5, <3>6, <3>7 DEF InFlight, WordsOf, WordsEnd, Size
  <2> QED BY <2>4, <2>5
<1>7. CASE Probe
  <2>1. {"OK", "DAP_ERROR"} \cup FaultStatuses \subseteq Statuses
    BY PipelineAssumption DEF Statuses, TransferErrors
  <2> QED BY <1>7, <1>n, <2>1, <1>6 DEF Probe, ProbeExecutes, ProbeFaults, ProbeRefuses
<1>8. CASE UNCHANGED vars
  BY <1>8 DEF vars, usbVars, dapVars, InFlight, Plain, At, WordsOf, WordsEnd, Size
<1> QED BY <1>1, <1>2, <1>3, <1>4, <1>5, <1>7, <1>8, <1>n DEF Next, Host, QuietSteps

\* Draining, by the labels' places.
LEMMA DrainingByPlace ==
  ASSUME NEW s \in Seq(Labels)
  PROVE  /\ Len(s) \in Nat
         /\ s # << >> => Head(s) = s[1] /\ s[1] \in Labels /\ Len(s) >= 1
         /\ s = << >> => Len(s) = 0
BY TopLabel

\* A stack is not being drained whose top is not one of these.
LEMMA OtherTop ==
  ASSUME todo' \in Seq(Labels), todo' # << >> => todo'[1] \notin {"drain", "read", "attach"}
  PROVE  DrainEmpty'
<1>1. \/ Len(todo') = 0
      \/ todo' # << >> /\ Head(todo') = todo'[1] /\ todo'[1] \notin {"drain", "read", "attach"}
  BY DrainingByPlace
<1>2. CASE Len(todo') = 0
  BY <1>2 DEF DrainEmpty, Draining, At
<1>3. CASE todo' # << >> /\ Head(todo') = todo'[1] /\ todo'[1] \notin {"drain", "read", "attach"}
  BY <1>3 DEF DrainEmpty, Draining, At
<1> QED BY <1>1, <1>2, <1>3

\* Every step that leaves flush to its reading leaves no command to send.
LEMMA DrainEmptyStep ==
  ASSUME MaxUsbFailures = 0, IInv, InStep, DrainEmpty, [Next]_vars, IInv'
  PROVE  DrainEmpty'
<1> USE LabelsAre
<1>t. todo \in Seq(Labels) /\ Stacked(todo) /\ todo' \in Seq(Labels) /\ TypeOK
  BY DEF IInv, TypeOK, Control
<1>n. ~SendPacketFails /\ ~ProtocolWriteFails
  BY NoFailures DEF IInv, InStep
<1>i. /\ \A label : At(label) <=> todo # << >> /\ todo[1] = label
      /\ Draining => GetEmpty(crntCmd)
  BY <1>t, DrainingByPlace DEF At, DrainEmpty
<1>e. ASSUME GetEmpty(crntCmd') PROVE DrainEmpty'
  BY <1>e DEF DrainEmpty, GetEmpty, Size
<1>u. ASSUME UNCHANGED <<todo, crntCmd>> PROVE DrainEmpty'
  BY <1>u DEF DrainEmpty, Draining, At, GetEmpty, Size
\* What is on top after a return, a change and a call.
<1>pop. ASSUME todo # << >>, todo' = Tail(todo)
        PROVE  /\ todo' # << >> => todo'[1] = todo[2] /\ MayCall(todo[1], todo[2])
               /\ todo' # << >> => Len(todo) >= 2
  BY <1>pop, <1>t, StackedPop
<1>swap. ASSUME todo # << >>, NEW x \in Labels, todo' = <<x>> \o Tail(todo)
         PROVE  /\ todo'[1] = x /\ Len(todo') = Len(todo) /\ Len(todo) \in Nat
                /\ Len(todo) >= 2 => todo'[2] = todo[2]
  <2>1. /\ todo'[1] = x /\ Len(todo') = Len(todo) /\ Len(todo) \in Nat
        /\ \A i \in 2..Len(todo) : todo'[i] = todo[i]
    BY <1>swap, <1>t, ReplaceHead
  <2> QED BY <2>1
<1>push. ASSUME todo # << >>, NEW x \in Labels, todo' = <<x>> \o todo
         PROVE  todo'[1] = x /\ todo'[2] = todo[1]
  <2>1. Len(todo) >= 1 /\ Len(todo) \in Nat
    BY <1>push, <1>t
  <2>2. todo'[1] = x /\ \A i \in 1..Len(todo) : todo'[i + 1] = todo[i]
    BY <1>push, <1>t
  <2> QED BY <2>1, <2>2
\* What has two labels, or this label and others, put on top.
<1>two. ASSUME NEW s \in Seq(Labels), NEW x \in Labels, NEW y \in Labels, todo' = <<x, y>> \o s
        PROVE  todo'[1] = x /\ todo'[2] = y
  <2>1. <<y>> \o s \in Seq(Labels) /\ (<<y>> \o s)[1] = y /\ Len(<<y>> \o s) >= 1
    BY <1>two
  <2> DEFINE r == <<y>> \o s
  <2>2. todo' = <<x>> \o r
    BY <1>two, PushTwo
  <2> HIDE DEF r
  <2>3. r \in Seq(Labels) /\ r[1] = y /\ Len(r) >= 1
    BY <2>1 DEF r
  <2>4. todo'[1] = x /\ \A i \in 1..Len(r) : todo'[i + 1] = r[i]
    BY <2>2, <2>3
  <2> QED BY <2>3, <2>4
<1>tail. todo # << >> => Tail(todo) \in Seq(Labels)
  BY <1>t
<1>1. CASE Calls
  <2>1. todo' # << >> => todo'[1] \in {"fill", "get", "send", "defer"}
    <3>1. CASE \E request \in WriteRequests, count \in Counts : WriteReg(request, count)
      BY <3>1 DEF WriteReg, Start
    <3>2. CASE \E request \in ReadRequests, count \in Counts, now \in BOOLEAN :
                 ReadReg(request, count, now)
      BY <3>2 DEF ReadReg, Start
    <3>3. CASE \E t \in callbacks : GetResult(t)
      BY <3>3 DEF GetResult, Start
    <3>4. CASE Flush
      BY <3>4 DEF Flush, Start
    <3>5. CASE \E enable \in BOOLEAN : SetDeferredTransfer(enable)
      BY <3>5 DEF SetDeferredTransfer, Start
    <3>6. CASE \E commands \in {<<"protoPut">>, <<"protoPut", "protoPut">>} :
                 ProtocolCommand(commands)
      <4>1. PICK commands \in {<<"protoPut">>, <<"protoPut", "protoPut">>} :
              todo' = <<"send", "drain">> \o commands
        BY <3>6 DEF ProtocolCommand, Start
      <4>2. commands \in Seq(Labels)
        <5>1. <<"protoPut">> \in Seq(Labels)
          OBVIOUS
        <5>2. <<"protoPut", "protoPut">> \in Seq(Labels)
          OBVIOUS
        <5> QED BY <5>1, <5>2
      <4> QED BY <4>1, <4>2, <1>two
    <3> QED BY <1>1, <3>1, <3>2, <3>3, <3>4, <3>5, <3>6 DEF Calls
  <2> QED BY <2>1, <1>t, OtherTop
<1>2. CASE FillAdd \/ FillNoRoom
  <2>1. todo # << >> /\ todo[1] = "fill"
    BY <1>2, <1>i DEF FillAdd, FillNoRoom
  <2>2. todo' = <<"send">> \o todo \/ todo' = todo
    BY <1>2 DEF FillAdd, FillNoRoom, Call
  <2>3. todo'[1] \in {"send", "fill"}
    BY <2>1, <2>2, <1>push
  <2> QED BY <2>3, <1>t, OtherTop
<1>3. CASE FillEnd
  <2>1. todo # << >> /\ todo[1] = "fill"
    BY <1>3, <1>i DEF FillEnd
  <2>2. todo' = << >> \o Tail(todo) \/ todo' = <<"send", "drain">> \o Tail(todo)
    BY <1>3 DEF FillEnd, Become
  <2>3. todo' = Tail(todo) \/ todo' = <<"send", "drain">> \o Tail(todo)
    BY <2>1, <2>2, <1>tail, ConcatEmptySeq
  <2>4. todo' # << >> => todo'[1] \in {"now", "send"}
    BY <2>1, <2>3, <1>pop, <1>two, <1>tail DEF MayCall
  <2> QED BY <2>4, <1>t, OtherTop
<1>4. CASE ReturnTransfer
  <2>1. todo # << >> /\ todo[1] = "now" /\ todo' = Tail(todo)
    BY <1>4, <1>i DEF ReturnTransfer, Return
  <2>2. todo' # << >> => todo'[1] = "get"
    BY <2>1, <1>pop DEF MayCall
  <2> QED BY <2>2, <1>t, OtherTop
<1>5. CASE SendPacket
  <2>1. todo # << >> /\ UNCHANGED crntCmd
    BY <1>5, <1>i DEF SendPacket, dapVars
  <2>2. CASE GetEmpty(crntCmd)
    BY <2>1, <2>2, <1>e
  <2>3. CASE ~GetEmpty(crntCmd)
    <3>1. todo' = <<"read", "put">> \o Tail(todo) \/ todo' = <<"put">> \o Tail(todo)
      BY <1>5, <2>3 DEF SendPacket, Become
    <3>2. CASE todo' = <<"put">> \o Tail(todo)
      BY <3>2, <2>1, <1>swap, <1>t, OtherTop
    <3>3. CASE todo' = <<"read", "put">> \o Tail(todo)
      <4>1. todo'[1] = "read" /\ todo'[2] = "put"
        BY <3>3, <2>1, <1>two, <1>tail
      <4>2. ~Draining'
        BY <4>1, <1>t, DrainingByPlace DEF Draining, At
      <4> QED BY <4>2 DEF DrainEmpty
    <3> QED BY <3>1, <3>2, <3>3
  <2> QED BY <2>2, <2>3
<1>6. CASE SendPacketWrite
  <2>1. GetEmpty(crntCmd')
    BY <1>6 DEF SendPacketWrite, NewCommand, GetEmpty, Size
  <2> QED BY <2>1, <1>e
<1>7. CASE ReadPacket
  <2>1. todo # << >> /\ todo[1] = "read"
    BY <1>7, <1>i DEF ReadPacket
  <2>2. CASE crntCmd' = NewCommand(NextWord, NextRead)
    <3>1. GetEmpty(crntCmd')
      BY <2>2 DEF NewCommand, GetEmpty, Size
    <3> QED BY <3>1, <1>e
  <2>3. CASE Become(<<"attach">>) /\ UNCHANGED crntCmd
    <3>1. /\ todo'[1] = "attach" /\ Len(todo') = Len(todo) /\ Len(todo) \in Nat
          /\ Len(todo) >= 2 => todo'[2] = todo[2]
      BY <2>1, <2>3, <1>swap DEF Become
    <3>2. Draining' => Draining
      BY <3>1, <2>1, <1>t, DrainingByPlace DEF Draining, At
    <3> QED BY <3>2, <2>3, <1>i DEF DrainEmpty, GetEmpty, Size
  <2> QED BY <1>7, <2>2, <2>3 DEF ReadPacket, AbortAllTransfers
<1>8. CASE Attach
  <2>1. todo # << >> /\ todo[1] = "attach" /\ UNCHANGED crntCmd
    BY <1>8, <1>i DEF Attach, dapVars
  <2>2. CASE UNCHANGED todo
    BY <2>1, <2>2, <1>u
  <2>3. CASE Return
    <3>1. todo' # << >> => todo'[1] = todo[2] /\ todo[2] \in {"put", "drain", "get"} /\ Len(todo) >= 2
      BY <2>1, <2>3, <1>pop DEF Return, MayCall
    <3>2. CASE todo' # << >> /\ todo[2] = "drain"
      <4>1. Draining
        BY <2>1, <3>1, <3>2 DEF Draining
      <4> QED BY <4>1, <2>1, <1>i, <1>e
    <3>3. CASE ~(todo' # << >> /\ todo[2] = "drain")
      <4>1. todo' # << >> => todo'[1] \notin {"drain", "read", "attach"}
        BY <3>1, <3>3
      <4> QED BY <4>1, <1>t, OtherTop
    <3> QED BY <3>2, <3>3
  <2> QED BY <1>8, <2>2, <2>3 DEF Attach
<1>9. CASE Drain
  <2>1. Draining /\ UNCHANGED crntCmd
    BY <1>9 DEF Drain, Draining, dapVars
  <2> QED BY <2>1, <1>i, <1>e
<1>10. CASE GetResultTurn
  <2>1. todo # << >> /\ todo[1] = "get"
    BY <1>10, <1>i DEF GetResultTurn
  <2>2. \/ todo' = Tail(todo) \/ todo' = <<"read">> \o todo
        \/ todo' = <<"send", "drain">> \o todo \/ todo' = << >>
    BY <1>10 DEF GetResultTurn, Raise, Return, Call
  <2>3. CASE todo' = <<"read">> \o todo
    <3>1. todo'[1] = "read" /\ todo'[2] = "get"
      BY <2>1, <2>3, <1>push
    <3>2. ~Draining'
      BY <3>1, <1>t, DrainingByPlace DEF Draining, At
    <3> QED BY <3>2 DEF DrainEmpty
  <2>4. CASE todo' # <<"read">> \o todo
    <3>1. todo' # << >> => todo'[1] = "send"
      BY <2>1, <2>2, <2>4, <1>pop, <1>two, <1>t DEF MayCall
    <3> QED BY <3>1, <1>t, OtherTop
  <2> QED BY <2>3, <2>4
<1>11. CASE SetDeferredEnd
  <2>1. todo # << >> /\ todo[1] = "defer" /\ todo' = Tail(todo)
    BY <1>11, <1>i DEF SetDeferredEnd, Return
  <2>2. todo' = << >>
    BY <2>1, <1>pop DEF MayCall
  <2> QED BY <2>2, <1>t, OtherTop
<1>12. CASE ProtocolWrite
  <2>1. todo # << >> /\ todo' = <<"protoGet">> \o Tail(todo)
    BY <1>12, <1>i DEF ProtocolWrite, Become
  <2> QED BY <2>1, <1>swap, <1>t, OtherTop
<1>13. CASE ProtocolRead \/ AbortDrain
  <2>1. todo # << >> /\ todo[1] \in {"protoGet", "abortDrain"}
    BY <1>13, <1>i DEF ProtocolRead, AbortDrain
  <2>2. todo' = Tail(todo) \/ todo' = << >>
    BY <1>13 DEF ProtocolRead, AbortDrain, Return, Raise
  <2>3. todo' # << >> => todo'[1] \in {"protoPut", "abortDrain"}
    BY <2>1, <2>2, <1>pop DEF MayCall
  <2> QED BY <2>3, <1>t, OtherTop
<1>14. CASE Probe \/ UNCHANGED vars
  <2>1. UNCHANGED <<todo, crntCmd>>
    BY <1>14 DEF Probe, ProbeExecutes, ProbeFaults, ProbeRefuses, ResponseLost,
                 SpareReadTimesOut, Answer, vars, dapVars
  <2> QED BY <2>1, <1>u
<1> QED BY <1>1, <1>2, <1>3, <1>4, <1>5, <1>6, <1>7, <1>8, <1>9, <1>10, <1>11, <1>12, <1>13,
           <1>14, <1>n DEF Next, Host

\* A new DAPAccessCMSISDAP owes nothing.
LEMMA InitFlush == Init => FlushInv
<1> SUFFICES ASSUME Init PROVE FlushInv
  OBVIOUS
<1>1. /\ Len(commandsToRead) = 0 /\ commandsToRead = << >> /\ Len(usbIn) = 0 /\ Len(usbOut) = 0
      /\ todo = << >> /\ Len(todo) = 0 /\ owed = 0 /\ crntCmd.first = 0
  BY DEF Init, NewCommand
<1>2. NextUnanswered = 0
  BY <1>1 DEF NextUnanswered
<1>3. 0 .. 0 - 1 = {}
  OBVIOUS
<1>4. OwedDone
  BY <1>1, <1>2, <1>3 DEF OwedDone
<1> QED BY <1>1, <1>4 DEF FlushInv, WordsInOrder, InFlight, DrainEmpty, Draining, At

\* Whenever flush returns, by itself or in the call that needed it, nothing
\* is left to send and every word requested since the last error was executed
\* by the probe. (flush, set_deferred_transfer)
THEOREM FlushMeansDone ==
  ASSUME MaxUsbFailures = 0
  PROVE  Spec => FlushCompletes
<1>1. IInv /\ InStep /\ [Next]_vars => InStep'
  BY NextInStep
<1>2. IInv /\ InStep /\ FlushInv /\ [Next]_vars /\ IInv' /\ InStep' => FlushInv'
  BY WordsStep, FlightStep, DrainEmptyStep DEF FlushInv
<1>3. IInv /\ FlushInv /\ [Next]_vars =>
        [FlushReturns => GetEmpty(crntCmd) /\ owed .. NextWord - 1 \subseteq done]_vars
  <2> SUFFICES ASSUME IInv, FlushInv, Next, FlushReturns
               PROVE  GetEmpty(crntCmd) /\ owed .. NextWord - 1 \subseteq done
    OBVIOUS
  <2>t. /\ todo \in Seq(Labels) /\ TypeOK /\ At("drain") /\ todo' = Tail(todo)
        /\ todo # << >> /\ Head(todo) = "drain" /\ todo' # todo
    <3>1. todo \in Seq(Labels) /\ TypeOK /\ At("drain") /\ todo' = Tail(todo)
      BY DEF IInv, TypeOK, FlushReturns
    <3>2. todo # << >> /\ Head(todo) = "drain"
      BY <3>1 DEF At
    <3>3. Len(Tail(todo)) = Len(todo) - 1 /\ Len(todo) \in Nat
      BY <3>1, <3>2, DropHead
    <3>4. \A k \in Nat : k - 1 # k
      OBVIOUS
    <3>5. Len(todo') # Len(todo)
      BY <3>1, <3>3, <3>4, Zenon
    <3> QED BY <3>1, <3>2, <3>5
  <2>1. GetEmpty(crntCmd)
    BY <2>t DEF FlushInv, DrainEmpty, Draining
  <2>2. commandsToRead = << >>
    <3>1. Drain
      BY <2>t DEF Next, Calls, Host, Probe, At, Idle,
         WriteReg, ReadReg, GetResult, Flush, SetDeferredTransfer, ProtocolCommand,
         FillAdd, FillNoRoom, FillEnd, ReturnTransfer, SendPacket, SendPacketWrite,
         SendPacketFails, ReadPacket, Attach, GetResultTurn, SetDeferredEnd,
         ProtocolWrite, ProtocolWriteFails, ProtocolRead, AbortDrain,
         ProbeExecutes, ProbeFaults, ProbeRefuses, ResponseLost, SpareReadTimesOut, Answer
    <3>2. CASE Call(<<"read">>)
      <4>1. Len(<<"read">> \o todo) = Len(todo) + 1 /\ Len(Tail(todo)) = Len(todo) - 1
            /\ Len(todo) \in Nat
        BY <2>t, LabelsAre
      <4>2. \A k \in Nat : k - 1 # k + 1
        OBVIOUS
      <4>3. Len(<<"read">> \o todo) # Len(Tail(todo))
        BY <4>1, <4>2, Zenon
      <4> QED BY <4>3, <3>2, <2>t DEF Call
    <3> QED BY <3>1, <3>2 DEF Drain
  <2>3. NextUnanswered = NextWord
    <3>1. NextUnanswered = crntCmd.first
      BY <2>2 DEF NextUnanswered
    <3>2. NextWord = crntCmd.first + Size(crntCmd) /\ Size(crntCmd) = 0 /\ crntCmd.first \in Nat
      BY <2>t, <2>1, WordTypes DEF GetEmpty
    <3> QED BY <3>1, <3>2
  <2> QED BY <2>1, <2>3 DEF FlushInv, OwedDone
<1> QED BY InitIInv, NextIInv, InitInStep, InitFlush, <1>1, <1>2, <1>3, PTL
        DEF Spec, FlushCompletes

=============================================================================
