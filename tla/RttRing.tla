------------------------------ MODULE RttRing -------------------------------
(***************************************************************************)
(* The two RTT ring buffers of the target and the host side of them:       *)
(* aUpRead, aDownWrite and the part of on_tmrRTT_timeout around them in    *)
(* RTTView.py.  The firmware owns WrOff of the up ring and RdOff of the    *)
(* down ring, the host the other two; there is no lock, so correctness     *)
(* rests on the order of the accesses and on one slot that stays free.     *)
(*                                                                         *)
(* The host runs in the GUI thread: a timer tick or a click on Send runs   *)
(* to its end before the next, one access of target memory per step.  The  *)
(* firmware runs between any two of them.  Bytes are numbered in the order *)
(* they are offered, so that a loss, a repetition or a stale byte shows.   *)
(***************************************************************************)
EXTENDS Integers, Sequences

CONSTANTS
  SizeOfBuffer,      \* of both rings
  RawTCPLinkDefined, \* whether aUpRead's first line finds its class
  WriteMemReturns,   \* whether XLink.write_mem ever returns (see XLink)
  ErrorPeriod,       \* 10: a failing tick with this divisor closes the link
  SharedPeriod,      \* 5: a shared link is polled every so many ticks
  AckMayBeLost,      \* whether a write can be performed and still raise
  MaxBytes,          \* bound: bytes offered in each direction
  MaxFailures        \* bound: accesses of target memory that raise

ASSUME RttAssumption ==
  /\ SizeOfBuffer \in Nat /\ SizeOfBuffer >= 2
  /\ {RawTCPLinkDefined, WriteMemReturns, AckMayBeLost} \subseteq BOOLEAN
  /\ ErrorPeriod \in Nat \ {0} /\ SharedPeriod \in Nat \ {0}
  /\ MaxBytes \in Nat /\ MaxFailures \in Nat

VARIABLES
  up, down,     \* RingBuffer: pBuffer's contents, WrOff and RdOff
  sent,         \* bytes the firmware has written to the up ring, published or not
  received,     \* history: the bytes given to the receive window
  lost,         \* history: up bytes whose RdOff update raised
  offered,      \* bytes given to aDownWrite
  taken,        \* history: bytes the firmware has read from the down ring
  accepted,     \* history: bytes of the down ring that were published
  open,         \* the button says 'close the connection'
  isShared,     \* '[Shared]' in cmbDLL.currentText()
  tmrRTT_Cnt,   \* modulo ErrorPeriod * SharedPeriod
  pc,           \* the next access of the host; "idle" between events
  aUp, aDown,   \* the host's copies of WrOff and RdOff
  data,         \* the bytes read, or the bytes that are left to write
  failures

hostVars == <<pc, aUp, aDown, data>>
upVars == <<up, sent, received, lost>>
downVars == <<down, offered, taken, accepted>>
guiVars == <<open, isShared, tmrRTT_Cnt>>
vars == <<hostVars, upVars, downVars, guiVars, failures>>

Offsets == 0..SizeOfBuffer - 1
AtMost(a, b) == IF a < b THEN a ELSE b
Ticks == ErrorPeriod * SharedPeriod

EmptyRing == [pBuffer |-> [i \in Offsets |-> 0], WrOff |-> 0, RdOff |-> 0]

\* What a reader that starts at RdOff finds before WrOff.
Unread(ring) ==
  [i \in 1..(ring.WrOff - ring.RdOff) % SizeOfBuffer |->
     ring.pBuffer[(ring.RdOff + i - 1) % SizeOfBuffer]]

Init ==
  /\ up = EmptyRing /\ down = EmptyRing
  /\ sent = 0 /\ received = << >> /\ lost = {}
  /\ offered = 0 /\ taken = << >> /\ accepted = << >>
  /\ open = TRUE /\ isShared \in BOOLEAN /\ tmrRTT_Cnt = 0
  /\ pc = "idle"
  /\ aUp = [WrOff |-> 0, RdOff |-> 0] /\ aDown = aUp
  /\ data = << >>
  /\ failures = 0

-----------------------------------------------------------------------------
(* The firmware: SEGGER_RTT_Write and SEGGER_RTT_Read, one byte at a time. *)

\* A byte is stored where WrOff points, when that leaves a slot free...
TargetStores ==
  /\ sent < MaxBytes
  /\ (up.WrOff + 1) % SizeOfBuffer # up.RdOff
  /\ up.pBuffer[up.WrOff] # sent + 1
  /\ up' = [up EXCEPT !.pBuffer[up.WrOff] = sent + 1]
  /\ UNCHANGED <<hostVars, sent, received, lost, downVars, guiVars, failures>>

\* ... and then published.
TargetPublishes ==
  /\ up.pBuffer[up.WrOff] = sent + 1
  /\ (up.WrOff + 1) % SizeOfBuffer # up.RdOff
  /\ up' = [up EXCEPT !.WrOff = (@ + 1) % SizeOfBuffer]
  /\ sent' = sent + 1
  /\ UNCHANGED <<hostVars, received, lost, downVars, guiVars, failures>>

TargetReads ==
  /\ down.RdOff # down.WrOff
  /\ taken' = Append(taken, down.pBuffer[down.RdOff])
  /\ down' = [down EXCEPT !.RdOff = (@ + 1) % SizeOfBuffer]
  /\ UNCHANGED <<hostVars, upVars, offered, accepted, guiVars, failures>>

-----------------------------------------------------------------------------
(* on_tmrRTT_timeout and aUpRead.                                          *)

NextTick == (tmrRTT_Cnt + 1) % Ticks
Polls(tick) == isShared => tick % SharedPeriod = 0

\* The handler of an exception: now and then it closes the link, by calling
\* the handler of the button; a shared link it leaves alone.
TickFails(tick) ==
  /\ open' = (isShared \/ tick % ErrorPeriod # 0)
  /\ pc' = "idle" /\ data' = << >>

Tick ==
  /\ pc = "idle" /\ open
  /\ tmrRTT_Cnt' = NextTick
  /\ IF ~Polls(NextTick)
       THEN UNCHANGED <<open, pc, data>>
     ELSE IF RawTCPLinkDefined
       THEN pc' = "upDesc" /\ UNCHANGED <<open, data>>
     ELSE TickFails(NextTick)                      \* NameError
  /\ UNCHANGED <<aUp, aDown, upVars, downVars, isShared, failures>>

\* (Wrong variants of the next definition: the bytes released before they are
\* read, and the bytes after a wrap not noticed.)
UpReadDescReleases ==
  /\ pc = "upDesc"
  /\ aUp' = [WrOff |-> up.WrOff, RdOff |-> up.RdOff]
  /\ up' = [up EXCEPT !.RdOff = up.WrOff]
  /\ pc' = IF up.WrOff = up.RdOff THEN "idle" ELSE "upData"
  /\ UNCHANGED <<aDown, data, sent, received, lost, downVars, guiVars, failures>>

UpReadDescIgnoresWrap ==
  /\ pc = "upDesc"
  /\ aUp' = [WrOff |-> up.WrOff, RdOff |-> up.RdOff]
  /\ pc' = IF up.WrOff <= up.RdOff THEN "idle" ELSE "upData"
  /\ UNCHANGED <<aDown, data, upVars, downVars, guiVars, failures>>

\* The descriptor is read, and what can be read of the ring without wrapping.
\* (Lengths of 1 MiB and more, taken for a bad descriptor, are out of reach.)
UpReadDesc ==
  /\ pc = "upDesc"
  /\ aUp' = [WrOff |-> up.WrOff, RdOff |-> up.RdOff]
  /\ pc' = IF up.WrOff = up.RdOff THEN "idle" ELSE "upData"
  /\ UNCHANGED <<aDown, data, upVars, downVars, guiVars, failures>>

UpCount == IF aUp.RdOff <= aUp.WrOff THEN aUp.WrOff - aUp.RdOff
                                     ELSE SizeOfBuffer - aUp.RdOff

UpReadData ==
  /\ pc = "upData"
  /\ data' = [i \in 1..UpCount |-> up.pBuffer[aUp.RdOff + i - 1]]
  /\ pc' = "upRdOff"
  /\ UNCHANGED <<aUp, aDown, upVars, downVars, guiVars, failures>>

\* (Wrong variants of NewRdOff: not wrapped, and caught up with the firmware
\* although it may have written since.)
NewRdOffUnwrapped == aUp.RdOff + UpCount
NewRdOffFresh == up.WrOff

NewRdOff == (aUp.RdOff + UpCount) % SizeOfBuffer

UpWriteRdOff ==
  /\ pc = "upRdOff"
  /\ up' = [up EXCEPT !.RdOff = NewRdOff]
  /\ received' = received \o data
  /\ pc' = "idle" /\ data' = << >>
  /\ UNCHANGED <<aUp, aDown, sent, lost, downVars, guiVars, failures>>

\* An access of aUpRead raises: nothing is shown.  When the last one raises
\* although it was performed, the bytes are gone.
UpFails ==
  /\ pc \in {"upDesc", "upData", "upRdOff"}
  /\ failures < MaxFailures /\ failures' = failures + 1
  /\ TickFails(tmrRTT_Cnt)
  /\ \/ UNCHANGED <<up, lost>>
     \/ /\ pc = "upRdOff" /\ AckMayBeLost
        /\ up' = [up EXCEPT !.RdOff = NewRdOff]
        /\ lost' = lost \cup {data[i] : i \in DOMAIN data}
  /\ UNCHANGED <<aUp, aDown, sent, received, downVars, isShared, tmrRTT_Cnt>>

-----------------------------------------------------------------------------
(* on_btnSend_clicked and aDownWrite.                                      *)

Send(count) ==
  /\ pc = "idle" /\ open
  /\ offered + count <= MaxBytes
  /\ offered' = offered + count
  /\ data' = [i \in 1..count |-> offered + i]
  /\ pc' = "downDesc"
  /\ UNCHANGED <<aUp, aDown, upVars, down, taken, accepted, guiVars, failures>>

\* After the descriptor, the code writes a first part behind WrOff unless the
\* free space lies elsewhere, and then a second part if bytes are left.
\* (SecondPartNever is a wrong variant.)
SecondPartNever(bytes, rd) == FALSE

SecondPart(bytes, rd) == bytes # << >> /\ rd # 0 /\ rd # 1

DownReadDesc ==
  /\ pc = "downDesc"
  /\ aDown' = [WrOff |-> down.WrOff, RdOff |-> down.RdOff]
  /\ pc' = IF down.WrOff >= down.RdOff THEN "downFirst"
           ELSE IF SecondPart(data, down.RdOff) THEN "downSecond" ELSE "downWrOff"
  /\ UNCHANGED <<aUp, data, upVars, downVars, guiVars, failures>>

\* (A wrong variant of FirstCount, which fills the slot that must stay free.)
FirstCountFull == AtMost(Len(data), SizeOfBuffer - aDown.WrOff)

FirstCount ==
  AtMost(Len(data), IF aDown.RdOff # 0 THEN SizeOfBuffer - aDown.WrOff
                                       ELSE SizeOfBuffer - 1 - aDown.WrOff)
SecondCount == AtMost(Len(data), aDown.RdOff - 1 - aDown.WrOff)

\* write_mem(pBuffer + WrOff, bytes[:cnt]) and what it leaves to write.
WriteMem(count) ==
  /\ WriteMemReturns
  /\ down' = [down EXCEPT !.pBuffer =
                [i \in Offsets |-> IF i \in aDown.WrOff .. aDown.WrOff + count - 1
                                     THEN data[i - aDown.WrOff + 1] ELSE @[i]]]
  /\ data' = SubSeq(data, count + 1, Len(data))

DownWriteFirst ==
  /\ pc = "downFirst"
  /\ WriteMem(FirstCount)
  /\ aDown' = [aDown EXCEPT !.WrOff = (@ + FirstCount) % SizeOfBuffer]
  /\ pc' = IF SecondPart(data', aDown.RdOff) THEN "downSecond" ELSE "downWrOff"
  /\ UNCHANGED <<aUp, upVars, offered, taken, accepted, guiVars, failures>>

DownWriteSecond ==
  /\ pc = "downSecond"
  /\ WriteMem(SecondCount)
  /\ aDown' = [aDown EXCEPT !.WrOff = @ + SecondCount]
  /\ pc' = "downWrOff"
  /\ UNCHANGED <<aUp, upVars, offered, taken, accepted, guiVars, failures>>

\* The bytes behind the old WrOff become the firmware's.
Publish ==
  /\ down' = [down EXCEPT !.WrOff = aDown.WrOff]
  /\ accepted' = accepted \o
       SubSeq(Unread(down'), Len(Unread(down)) + 1, Len(Unread(down')))

\* What is left in data was not written, and nobody is told.
DownWriteWrOff ==
  /\ pc = "downWrOff"
  /\ Publish
  /\ pc' = "idle" /\ data' = << >>
  /\ UNCHANGED <<aUp, aDown, upVars, offered, taken, guiVars, failures>>

\* An access of aDownWrite raises; on_btnSend_clicked prints the exception.
DownFails ==
  /\ pc \in {"downDesc", "downFirst", "downSecond", "downWrOff"}
  /\ failures < MaxFailures /\ failures' = failures + 1
  /\ \/ UNCHANGED <<down, accepted>>
     \/ pc = "downWrOff" /\ AckMayBeLost /\ Publish
  /\ pc' = "idle" /\ data' = << >>
  /\ UNCHANGED <<aUp, aDown, upVars, offered, taken, guiVars>>

-----------------------------------------------------------------------------
Target == TargetStores \/ TargetPublishes \/ TargetReads

UpRead == Tick \/ UpReadDesc \/ UpReadData \/ UpWriteRdOff \/ UpFails

DownAccess == DownReadDesc \/ DownWriteFirst \/ DownWriteSecond \/ DownWriteWrOff \/ DownFails

Next ==
  \/ Target \/ UpRead \/ DownAccess
  \/ \E count \in 1..MaxBytes : Send(count)

Spec == Init /\ [][Next]_vars

\* The Qt timer keeps firing and a handler that has begun runs on; the
\* firmware finishes a byte it has begun and polls the down ring.
FairSpec ==
  Spec /\ WF_vars(UpRead) /\ WF_vars(DownAccess)
       /\ WF_vars(TargetPublishes) /\ WF_vars(TargetReads)

-----------------------------------------------------------------------------
(* Properties.                                                             *)

TypeOK ==
  /\ \A ring \in {up, down} :
       /\ ring.pBuffer \in [Offsets -> 0..MaxBytes]
       /\ ring.WrOff \in Offsets /\ ring.RdOff \in Offsets
  /\ sent \in 0..MaxBytes /\ offered \in 0..MaxBytes
  /\ received \in Seq(1..MaxBytes) /\ taken \in Seq(1..MaxBytes)
  /\ accepted \in Seq(1..MaxBytes) /\ lost \subseteq 1..MaxBytes
  /\ open \in BOOLEAN /\ isShared \in BOOLEAN
  /\ tmrRTT_Cnt \in 0..Ticks - 1
  /\ pc \in {"idle", "upDesc", "upData", "upRdOff",
             "downDesc", "downFirst", "downSecond", "downWrOff"}
  /\ \A copy \in {aUp, aDown} : copy.WrOff \in Offsets /\ copy.RdOff \in Offsets
  /\ data \in Seq(1..MaxBytes)
  /\ failures \in 0..MaxFailures

\* Both rings are channels: what the reader gets is what the writer gave, in
\* order, without a stale or a repeated byte.
UpChannel == INSTANCE RttChannel
  WITH queue <- Unread(up), received <- received, MayLose <- AckMayBeLost
DownChannel == INSTANCE RttChannel
  WITH queue <- Unread(down), received <- taken, MayLose <- FALSE

UpImplementsChannel == UpChannel!Spec
DownImplementsChannel == DownChannel!Spec

\* Every byte the firmware published was shown, was lost with a failing
\* update of RdOff, or is still in the ring: polling loses nothing else.
UpAccounted ==
  LET inRing == {Unread(up)[i] : i \in DOMAIN Unread(up)}
      shown  == {received[i] : i \in DOMAIN received}
  IN  /\ shown \cup lost \cup inRing = 1..sent
      /\ lost \cap inRing = {}

\* "The write must not make WrOff = RdOff, to tell full from empty"
\* (aDownWrite): aDownWrite leaves bytes out only when it filled the ring to
\* the last slot but one of the descriptor it had read, and never more.
DownFillsRing ==
  [][pc = "downWrOff" /\ pc' = "idle" /\ data # << >>
       => (aDown.WrOff + 1) % SizeOfBuffer = aDown.RdOff]_vars

\* While the link is open, what the firmware published is shown or lost.  It is
\* said of the algorithm behind the first line of aUpRead, which names a class
\* that does not exist (RTTView.py:368): with RawTCPLinkDefined as it is in the
\* repository nothing is shown at all.
Delivery ==
  \A n \in 1..MaxBytes :
    sent = n ~> ~open \/ n \in lost \cup {received[i] : i \in DOMAIN received}
=============================================================================
