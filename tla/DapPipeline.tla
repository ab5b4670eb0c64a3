---------------------------- MODULE DapPipeline -----------------------------
(***************************************************************************)
(* The pipeline of deferred transfers between pyOCD and a CMSIS-DAP probe: *)
(* class DAPAccessCMSISDAP of                                              *)
(* pyocd/probe/pydapaccess/dap_access_cmsis_dap.py, with the probe and the *)
(* USB interface it talks to.                                              *)
(*                                                                         *)
(* Register requests are gathered into the current command; a command that *)
(* is full is written to the interface and remembered until its response   *)
(* has been read; several may be outstanding.  The words of a response are *)
(* handed to the oldest transfers that wait for words, so that everything  *)
(* rests on commands, responses and transfers staying in step, through     *)
(* errors included.                                                        *)
(*                                                                         *)
(* One thread at a time is in this class, so the host is one process.  Its *)
(* calls are taken apart at every access to the interface and every turn   *)
(* of a loop: todo is what the call still has to do, innermost first, each *)
(* label standing for the rest of one method.  The probe runs on its own.  *)
(***************************************************************************)
EXTENDS DapCommand, Sequences

CONSTANTS
  MaxPackets,     \* packets the probe can hold, DAP_Info(MAX_PACKET_COUNT)
  FaultStatuses,  \* the error acknowledgements the probe may answer with
  MaxUsbFailures, \* bound: writes and reads of the interface that fail
  Counts,         \* bound: the lengths of transfers that are requested
  MaxWords        \* bound: words requested in one behaviour

ASSUME PipelineAssumption ==
  /\ MaxPackets \in Nat /\ MaxPackets >= 1
  /\ FaultStatuses \subseteq {"TransferFaultError", "TransferTimeoutError", "TransferError"}
  /\ MaxUsbFailures \in Nat
  /\ Counts \subseteq Nat \ {0}
  /\ MaxWords \in Nat

VARIABLES
  transfers,       \* every _Transfer ever created, in order
  transferList,    \* _transfer_list: numbers of the transfers awaiting words
  crntCmd,         \* _crnt_cmd
  commandsToRead,  \* _commands_to_read
  responseBuf,     \* _command_response_buf: the words received, not yet given
  deferred,        \* _deferred_transfer
  callbacks,       \* transfers whose read callback the caller still holds
  op,              \* the request being written, and its transfer if it reads
  todo,            \* what the running call still has to do; << >> outside calls
  raised,          \* the exception the last call ended with, or NoError
  usbOut,          \* packets written that the probe has not executed
  usbIn,           \* responses not read yet: the interface's rcv_data
  spareReads,      \* permits of read_sem for packets that were never written
  usbFailures,
  done,            \* history: the words that were executed
  owed             \* history: the first word the caller was told no error of

dapVars == <<transfers, transferList, crntCmd, commandsToRead, responseBuf>>
callVars == <<deferred, callbacks, op>>
failVars == <<spareReads, usbFailures>>
usbVars == <<usbOut, usbIn, done, failVars>>
vars == <<dapVars, callVars, usbVars, todo, raised, owed>>

NoError == "none"
TransferErrors == {"TransferFaultError", "TransferTimeoutError", "TransferError"}
Errors == TransferErrors \cup
  {"ValueError", "USBError", "DeviceError", "CommandError", "AssertionError"}

Labels == {"fill", "send", "put", "read", "attach", "drain", "get",
           "defer", "now", "protoPut", "protoGet", "abortDrain"}

NoTransfer == 0
NoOp == [request |-> NoRequest, left |-> 0, transfer |-> NoTransfer]
NoResult == << >>

\* The number the next word requested will have.
NextWord == crntCmd.first + Size(crntCmd)
NextRead == crntCmd.firstRead + crntCmd.readCount

\* encode_data: what the probe is told of a command.
Kind(cmd) == IF cmd.blockAllowed THEN "DAP_TRANSFER_BLOCK" ELSE "DAP_TRANSFER"
Packet(cmd) == [kind |-> Kind(cmd), first |-> cmd.first, firstRead |-> cmd.firstRead,
                readCount |-> cmd.readCount, size |-> Size(cmd)]
ProtoPacket == [kind |-> "OTHER", first |-> 0, firstRead |-> 0, readCount |-> 0, size |-> 0]
Kinds == {"DAP_TRANSFER_BLOCK", "DAP_TRANSFER", "OTHER"}
Packets == [kind : Kinds, first : Nat, firstRead : Nat, readCount : Nat, size : Nat]
Statuses == {"OK", "UsbError", "DAP_ERROR"} \cup TransferErrors
Responses == [kind : Kinds, status : Statuses, firstRead : Nat, readCount : Nat, size : Nat]

\* _Transfer: which words it asked for, and what became of them.
Transfer == [firstRead : Nat, count : Nat \ {0},
             result : Seq(Nat), error : Errors \cup {NoError}]

-----------------------------------------------------------------------------
Init ==
  /\ transfers = << >> /\ transferList = << >>
  /\ crntCmd = NewCommand(0, 0)
  /\ commandsToRead = << >> /\ responseBuf = << >>
  /\ deferred \in BOOLEAN
  /\ callbacks = {}
  /\ op = NoOp
  /\ todo = << >> /\ raised = NoError
  /\ usbOut = << >> /\ usbIn = << >>
  /\ spareReads = 0 /\ usbFailures = 0
  /\ done = {} /\ owed = 0

Idle == todo = << >>
At(label) == todo # << >> /\ Head(todo) = label

\* The innermost method returns, calls others, or the whole call ends.
Return == todo' = Tail(todo) /\ UNCHANGED <<raised, owed>>
Call(labels) == todo' = labels \o todo /\ UNCHANGED <<raised, owed>>
Become(labels) == todo' = labels \o Tail(todo) /\ UNCHANGED <<raised, owed>>
Raise(error) == todo' = << >> /\ raised' = error /\ UNCHANGED owed
Start(labels) == todo' = labels /\ raised' = NoError /\ UNCHANGED owed

-----------------------------------------------------------------------------
(* The calls of the layer above.                                           *)

\* _write of a request without the READ bit: write_reg, reg_write_repeat.
WriteReg(request, count) ==
  /\ Idle /\ NextWord + count <= MaxWords
  /\ op' = [request |-> request, left |-> count, transfer |-> NoTransfer]
  /\ Start(<<"fill">>)
  /\ UNCHANGED <<dapVars, deferred, callbacks, usbVars>>

\* read_reg and reg_read_repeat: _write creates the transfer and appends it
\* to the list; with now the callback is called at once, otherwise the
\* caller is given it.
ReadReg(request, count, now) ==
  /\ Idle /\ NextWord + count <= MaxWords
  /\ transfers' = Append(transfers, [firstRead |-> NextRead, count |-> count,
                                     result |-> NoResult, error |-> NoError])
  /\ transferList' = Append(transferList, Len(transfers) + 1)
  /\ op' = [request |-> request, left |-> count, transfer |-> Len(transfers) + 1]
  /\ Start(IF now THEN <<"fill", "now", "get">> ELSE <<"fill", "now">>)
  /\ UNCHANGED <<crntCmd, commandsToRead, responseBuf, deferred, callbacks, usbVars>>

\* The caller calls a callback it was given; each is called once.
GetResult(t) ==
  /\ Idle /\ t \in callbacks
  /\ callbacks' = callbacks \ {t}
  /\ op' = [request |-> NoRequest, left |-> 0, transfer |-> t]
  /\ Start(<<"get">>)
  /\ UNCHANGED <<dapVars, deferred, usbVars>>

\* (A wrong variant of Flush, which forgets the current command.)
FlushWithoutSend ==
  /\ Idle
  /\ Start(<<"drain">>)
  /\ UNCHANGED <<dapVars, callVars, usbVars>>

Flush ==
  /\ Idle
  /\ Start(<<"send", "drain">>)
  /\ UNCHANGED <<dapVars, callVars, usbVars>>

SetDeferredTransfer(enable) ==
  /\ Idle /\ enable # deferred
  /\ Start(IF deferred THEN <<"send", "drain", "defer">> ELSE <<"defer">>)
  /\ UNCHANGED <<dapVars, callVars, usbVars>>

\* assert_reset, is_reset_asserted, set_clock, disconnect (one command) and
\* reset (two): flush, then commands of CMSISDAPProtocol, each one write and
\* one read of the interface.
ProtocolCommand(commands) ==
  /\ Idle
  /\ Start(<<"send", "drain">> \o commands)
  /\ UNCHANGED <<dapVars, callVars, usbVars>>

-----------------------------------------------------------------------------
(* The methods those calls go through.                                     *)

\* One turn of _write's loop that adds words to the current command, and
\* sends the command when that filled it.
FillAdd ==
  /\ At("fill") /\ op.left > 0
  /\ LET size == GetRequestSpace(crntCmd, op.left, op.request)
     IN  /\ size > 0
         /\ crntCmd' = Add(crntCmd, size, op.request)
         /\ op' = [op EXCEPT !.left = @ - size]
  /\ IF GetFull(crntCmd') THEN Call(<<"send">>) ELSE UNCHANGED <<todo, raised, owed>>
  /\ UNCHANGED <<transfers, transferList, commandsToRead, responseBuf, deferred, callbacks, usbVars>>

\* A turn that finds no room sends the command.
FillNoRoom ==
  /\ At("fill") /\ op.left > 0
  /\ GetRequestSpace(crntCmd, op.left, op.request) = 0
  /\ Call(<<"send">>)
  /\ UNCHANGED <<dapVars, callVars, usbVars>>

\* The end of the loop: without deferred transfers everything is flushed.
FillEnd ==
  /\ At("fill") /\ op.left = 0
  /\ Become(IF deferred THEN << >> ELSE <<"send", "drain">>)
  /\ op' = [op EXCEPT !.request = NoRequest]
  /\ UNCHANGED <<dapVars, deferred, callbacks, usbVars>>

\* _write has returned the transfer; the caller gets its callback, or the
\* result right away (the "get" that follows).
ReturnTransfer ==
  /\ At("now")
  /\ IF Tail(todo) = << >>
       THEN callbacks' = callbacks \cup {op.transfer} /\ op' = NoOp
       ELSE UNCHANGED <<callbacks, op>>
  /\ Return
  /\ UNCHANGED <<dapVars, deferred, usbVars>>

\* (A wrong variant of SendPacket, without the look at the probe's buffer.)
SendPacketUnbounded ==
  /\ At("send")
  /\ Become(IF GetEmpty(crntCmd) THEN << >> ELSE <<"put">>)
  /\ UNCHANGED <<dapVars, callVars, usbVars>>

\* _send_packet up to the write: an empty command is not sent, and one
\* response is read first when the probe's buffer is full.
SendPacket ==
  /\ At("send")
  /\ Become(IF GetEmpty(crntCmd) THEN << >>
            ELSE IF Len(commandsToRead) >= MaxPackets THEN <<"read", "put">>
            ELSE <<"put">>)
  /\ UNCHANGED <<dapVars, callVars, usbVars>>

SendPacketWrite ==
  /\ At("put")
  /\ usbOut' = Append(usbOut, Packet(crntCmd))
  /\ commandsToRead' = Append(commandsToRead, crntCmd)
  /\ crntCmd' = NewCommand(NextWord, NextRead)
  /\ Return
  /\ UNCHANGED <<transfers, transferList, responseBuf, callVars, usbIn, done, failVars>>

FailWaiting(error) ==
  [t \in 1..Len(transfers) |->
     IF \E i \in 1..Len(transferList) : transferList[i] = t
       THEN [transfers[t] EXCEPT !.error = error] ELSE transfers[t]]

\* (Wrong variants of the next definition: each forgets one of the things to
\* clear, the responses under way or the waiting list.)
AbortWithoutDrain(error, pendingReads) ==
  /\ transfers' = FailWaiting(error)
  /\ transferList' = << >> /\ crntCmd' = NewCommand(NextWord, NextRead)
  /\ commandsToRead' = << >> /\ responseBuf' = << >>
  /\ owed' = NextWord /\ raised' = error /\ op' = NoOp
  /\ todo' = << >>

AbortKeepingTransferList(error, pendingReads) ==
  /\ transfers' = FailWaiting(error)
  /\ UNCHANGED transferList /\ crntCmd' = NewCommand(NextWord, NextRead)
  /\ commandsToRead' = << >> /\ responseBuf' = << >>
  /\ owed' = NextWord /\ raised' = error /\ op' = NoOp
  /\ todo' = [i \in 1..pendingReads |-> "abortDrain"]

\* _abort_all_transfers: every waiting transfer gets the error, all buffers
\* are new, and for a TransferError the responses still to come are read and
\* ignored.  The caller then raises the error, before or after that.
AbortAllTransfers(error, pendingReads) ==
  /\ transfers' = FailWaiting(error)
  /\ transferList' = << >>
  /\ crntCmd' = NewCommand(NextWord, NextRead)
  /\ commandsToRead' = << >>
  /\ responseBuf' = << >>
  /\ owed' = NextWord /\ raised' = error /\ op' = NoOp
  /\ todo' = IF error \in TransferErrors
               THEN [i \in 1..pendingReads |-> "abortDrain"] ELSE << >>

\* The interface's write raises: nothing reached the probe, but the receive
\* thread was told to read a response before the attempt.
UsbWriteFails ==
  /\ usbFailures < MaxUsbFailures /\ usbFailures' = usbFailures + 1
  /\ spareReads' = spareReads + 1
  /\ UNCHANGED <<usbOut, usbIn, done>>

SendPacketFails ==
  /\ At("put")
  /\ AbortAllTransfers("USBError", Len(commandsToRead))
  /\ UsbWriteFails
  /\ UNCHANGED <<deferred, callbacks>>

\* The words decode_data slices out of a response: it goes by the number of
\* reads of the command it believes answered, a report is as long as the
\* packet size, and what the probe did not fill in is zero.
Decode(cmd, response) ==
  [i \in 1..cmd.readCount |->
     IF i <= response.readCount THEN response.firstRead + i ELSE 0]

\* What decode_data makes of a response: NoError or the exception it raises.
DecodeError(cmd, response) ==
  IF response.status = "UsbError" THEN "DeviceError"
  ELSE IF response.kind # Kind(cmd) THEN "ValueError"
  ELSE IF response.status # "OK"    THEN response.status
  ELSE IF response.size # Size(cmd) THEN "TransferError"
  ELSE NoError

\* _read_packet up to the loop that hands out the words; it blocks until the
\* interface has a response.
ReadPacket ==
  /\ At("read") /\ usbIn # << >>
  /\ LET cmd == Head(commandsToRead)
         error == DecodeError(cmd, Head(usbIn))
     IN  \/ /\ error = NoError
            /\ commandsToRead' = Tail(commandsToRead)
            /\ responseBuf' = responseBuf \o Decode(cmd, Head(usbIn))
            /\ Become(<<"attach">>)
            /\ UNCHANGED <<transfers, transferList, crntCmd, op>>
         \/ /\ error # NoError
            /\ AbortAllTransfers(error, Len(commandsToRead) - 1)
  /\ usbIn' = Tail(usbIn)
  /\ UNCHANGED <<deferred, callbacks, usbOut, done, failVars>>

\* (A wrong variant of Attach, which takes the waiting transfers from the
\* wrong end.)
AttachToNewest ==
  /\ At("attach")
  /\ LET last == Len(transferList)
         t == transferList[last]
         size == transfers[t].count
     IN  IF responseBuf = << >> \/ size > Len(responseBuf)
           THEN /\ Return
                /\ UNCHANGED dapVars
           ELSE /\ transfers' = [transfers EXCEPT ![t].result = SubSeq(responseBuf, 1, size)]
                /\ transferList' = SubSeq(transferList, 1, last - 1)
                /\ responseBuf' = SubSeq(responseBuf, size + 1, Len(responseBuf))
                /\ UNCHANGED <<crntCmd, commandsToRead, todo, raised, owed>>
  /\ UNCHANGED <<callVars, usbVars>>

\* One turn of that loop: the oldest transfer takes its words, if they are
\* all there.
Attach ==
  /\ At("attach")
  /\ LET t == Head(transferList)
         size == transfers[t].count
     IN  IF responseBuf = << >> \/ size > Len(responseBuf)
           THEN /\ Return
                /\ UNCHANGED dapVars
           ELSE /\ transfers' = [transfers EXCEPT ![t].result = SubSeq(responseBuf, 1, size)]
                /\ transferList' = Tail(transferList)
                /\ responseBuf' = SubSeq(responseBuf, size + 1, Len(responseBuf))
                /\ UNCHANGED <<crntCmd, commandsToRead, todo, raised, owed>>
  /\ UNCHANGED <<callVars, usbVars>>

\* flush after its _send_packet: one _read_packet for each command to read.
Drain ==
  /\ At("drain")
  /\ IF commandsToRead = << >> THEN Return ELSE Call(<<"read">>)
  /\ UNCHANGED <<dapVars, callVars, usbVars>>

\* (A wrong variant of GetResultTurn, which only waits for what was sent.)
GetResultTurnWithoutFlush ==
  /\ At("get")
  /\ LET transfer == transfers[op.transfer]
     IN  IF transfer.result # NoResult THEN Return
         ELSE IF commandsToRead # << >> THEN Call(<<"read">>)
         ELSE UNCHANGED <<todo, raised, owed>>
  /\ op' = IF todo' = << >> THEN NoOp ELSE op
  /\ UNCHANGED <<dapVars, deferred, callbacks, usbVars>>

\* get_result: read or flush until there is a result; the assertion fails
\* when there is nothing left that could bring one.
GetResultTurn ==
  /\ At("get")
  /\ LET transfer == transfers[op.transfer]
     IN  CASE transfer.result # NoResult /\ transfer.error = NoError -> Return
           [] transfer.result # NoResult /\ transfer.error # NoError -> Raise(transfer.error)
           [] transfer.result = NoResult /\ commandsToRead # << >>    -> Call(<<"read">>)
           [] transfer.result = NoResult /\ commandsToRead = << >> /\ ~GetEmpty(crntCmd)
                -> Call(<<"send", "drain">>)
           [] OTHER -> Raise("AssertionError")
  /\ op' = IF todo' = << >> THEN NoOp ELSE op
  /\ UNCHANGED <<dapVars, deferred, callbacks, usbVars>>

SetDeferredEnd ==
  /\ At("defer")
  /\ deferred' = ~deferred
  /\ Return
  /\ UNCHANGED <<dapVars, callbacks, op, usbVars>>

\* A command of CMSISDAPProtocol checks the first two bytes of the response:
\* the command it answers and its status.
ProtocolWrite ==
  /\ At("protoPut")
  /\ usbOut' = Append(usbOut, ProtoPacket)
  /\ Become(<<"protoGet">>)
  /\ UNCHANGED <<dapVars, callVars, usbIn, done, failVars>>

ProtocolWriteFails ==
  /\ At("protoPut")
  /\ Raise("USBError")
  /\ UsbWriteFails
  /\ UNCHANGED <<dapVars, callVars>>

ProtocolRead ==
  /\ At("protoGet") /\ usbIn # << >>
  /\ LET response == Head(usbIn)
     IN  CASE response.status = "UsbError" \/ response.kind # "OTHER" -> Raise("DeviceError")
           [] response.status = "DAP_ERROR" /\ response.kind = "OTHER"  -> Raise("CommandError")
           [] OTHER -> Return
  /\ usbIn' = Tail(usbIn)
  /\ UNCHANGED <<dapVars, callVars, usbOut, done, failVars>>

\* The end of _abort_all_transfers: a response is read and ignored; a read
\* that fails replaces the error and leaves the rest unread.
AbortDrain ==
  /\ At("abortDrain") /\ usbIn # << >>
  /\ IF Head(usbIn).status = "UsbError"
       THEN todo' = << >> /\ raised' = "DeviceError"
       ELSE todo' = Tail(todo) /\ UNCHANGED raised
  /\ usbIn' = Tail(usbIn)
  /\ UNCHANGED <<dapVars, callVars, usbOut, done, failVars, owed>>

-----------------------------------------------------------------------------
(* The probe.                                                              *)

Answer(status) ==
  /\ usbOut # << >>
  /\ LET p == Head(usbOut)
     IN  /\ usbIn' = Append(usbIn, [kind |-> p.kind, status |-> status, firstRead |-> p.firstRead,
                                    readCount |-> p.readCount, size |-> p.size])
         /\ done' = IF status = "OK" THEN done \cup p.first .. (p.first + p.size - 1) ELSE done
  /\ usbOut' = Tail(usbOut)
  /\ UNCHANGED <<dapVars, callVars, spareReads, todo, raised, owed>>

ProbeExecutes == Answer("OK") /\ UNCHANGED usbFailures

\* A transfer of the packet is refused; the probe stops there.
ProbeFaults ==
  /\ usbOut # << >> /\ Head(usbOut).kind # "OTHER"
  /\ \E status \in FaultStatuses : Answer(status)
  /\ UNCHANGED usbFailures

\* A protocol command is refused (those that have a status to say so).
ProbeRefuses ==
  /\ usbOut # << >> /\ Head(usbOut).kind = "OTHER"
  /\ Answer("DAP_ERROR")
  /\ UNCHANGED usbFailures

\* The response is lost, and the interface queues the error in its place.
ResponseLost ==
  /\ usbFailures < MaxUsbFailures /\ usbFailures' = usbFailures + 1
  /\ Answer("UsbError")

\* A read that nothing was written for times out, and queues its error too.
SpareReadTimesOut ==
  /\ spareReads > 0
  /\ spareReads' = spareReads - 1
  /\ usbIn' = Append(usbIn, [kind |-> "OTHER", status |-> "UsbError", firstRead |-> 0,
                             readCount |-> 0, size |-> 0])
  /\ UNCHANGED <<dapVars, callVars, usbOut, done, usbFailures, todo, raised, owed>>

-----------------------------------------------------------------------------
Host ==
  \/ FillAdd \/ FillNoRoom \/ FillEnd \/ ReturnTransfer
  \/ SendPacket \/ SendPacketWrite \/ SendPacketFails
  \/ ReadPacket \/ Attach \/ Drain \/ GetResultTurn \/ SetDeferredEnd
  \/ ProtocolWrite \/ ProtocolWriteFails \/ ProtocolRead \/ AbortDrain

Calls ==
  \/ \E request \in WriteRequests, count \in Counts : WriteReg(request, count)
  \/ \E request \in ReadRequests, count \in Counts, now \in BOOLEAN :
       ReadReg(request, count, now)
  \/ \E t \in callbacks : GetResult(t)
  \/ Flush
  \/ \E enable \in BOOLEAN : SetDeferredTransfer(enable)
  \/ \E commands \in {<<"protoPut">>, <<"protoPut", "protoPut">>} : ProtocolCommand(commands)

Probe == ProbeExecutes \/ ProbeFaults \/ ProbeRefuses \/ ResponseLost \/ SpareReadTimesOut

Next == Calls \/ Host \/ Probe

Spec == Init /\ [][Next]_vars

\* A call that has begun is not left alone, and the probe answers: the host
\* is a running Python thread, and the probe's firmware serves every packet.
FairSpec == Spec /\ WF_vars(Host) /\ WF_vars(Probe)

-----------------------------------------------------------------------------
(* Properties.                                                             *)

\* Every variable holds what the code keeps there.
TypeOK ==
  /\ transfers \in Seq(Transfer)
  /\ transferList \in Seq(Nat)
  /\ \A i \in 1..Len(transferList) : transferList[i] \in 1..Len(transfers)
  /\ crntCmd \in Command
  /\ commandsToRead \in Seq(Command)
  /\ responseBuf \in Seq(Nat)
  /\ deferred \in BOOLEAN
  /\ callbacks \subseteq 1..Len(transfers)
  /\ op \in [request : Requests \cup {NoRequest}, left : Nat,
             transfer : 0..Len(transfers)]
  /\ todo \in Seq(Labels)
  /\ raised \in Errors \cup {NoError}
  /\ usbOut \in Seq(Packets)
  /\ usbIn \in Seq(Responses)
  /\ done \subseteq Nat
  /\ spareReads \in Nat /\ usbFailures \in 0..MaxUsbFailures
  /\ owed \in Nat

\* What is on the wire is what the host will read: a packet or a response for
\* each command to read, in order, or one for each response being ignored
\* after an error, or the one a protocol command waits for.  (_read_packet
\* pairs the next response with the oldest command and nothing else says
\* which response belongs to which command.)
Wire ==
  [i \in 1..Len(usbIn) + Len(usbOut) |->
     IF i <= Len(usbIn) THEN [kind |-> usbIn[i].kind, firstRead |-> usbIn[i].firstRead,
                              readCount |-> usbIn[i].readCount, size |-> usbIn[i].size]
     ELSE LET p == usbOut[i - Len(usbIn)]
          IN  [kind |-> p.kind, firstRead |-> p.firstRead, readCount |-> p.readCount, size |-> p.size]]

Lockstep ==
  CASE At("abortDrain") -> Len(Wire) = Len(todo) /\ commandsToRead = << >>
    [] At("protoGet")   -> Len(Wire) = 1 /\ Wire[1].kind = "OTHER" /\ commandsToRead = << >>
    [] OTHER            ->
         /\ Len(Wire) = Len(commandsToRead)
         /\ \A i \in 1..Len(commandsToRead) :
              LET cmd == commandsToRead[i]
              IN  /\ Wire[i].kind = Kind(cmd) /\ Wire[i].size = Size(cmd)
                  /\ Wire[i].firstRead = cmd.firstRead /\ Wire[i].readCount = cmd.readCount

\* A transfer that completed was given exactly the words its own requests
\* read, in order, however they were split over packets.
Own(t) == [i \in 1..transfers[t].count |-> transfers[t].firstRead + i]

ResultIsOwn ==
  \A t \in DOMAIN transfers : transfers[t].result \in {NoResult, Own(t)}

\* "This function guarentees that the number of packets that are stored in
\* daplink's buffer does not exceed the number supported by the given device"
\* (_send_packet), and each of them can be encoded and answered.
WithinLimits ==
  /\ Len(usbOut) <= MaxPackets
  /\ Encodable(crntCmd)
  /\ \A i \in DOMAIN commandsToRead : Encodable(commandsToRead[i])

\* "To guarantee that previous writes are complete call the flush() function"
\* (set_deferred_transfer): whenever flush returns, everything requested
\* since the last error was executed.
FlushReturns == At("drain") /\ todo' = Tail(todo)
FlushCompletes ==
  [][FlushReturns => GetEmpty(crntCmd) /\ owed .. NextWord - 1 \subseteq done]_vars

\* The pipeline keeps the promise of DapAccess.
OutcomeOf(t) ==
  CASE transfers[t].result # NoResult -> IF transfers[t].result = Own(t) THEN "ok" ELSE "wrong"
    [] transfers[t].result = NoResult /\ transfers[t].error = NoError -> "pending"
    [] OTHER -> "failed"

Promise == INSTANCE DapAccess WITH reads <- [t \in DOMAIN transfers |-> OutcomeOf(t)]

ImplementsDapAccess == Promise!Spec

\* A transfer that has its words or its error keeps them: whatever arrives
\* later is for others.
SettledStays ==
  [][\A t \in DOMAIN transfers :
       transfers[t].result # NoResult \/ transfers[t].error # NoError
         => transfers'[t] = transfers[t]]_vars

\* Every call ends: get_result's loop does not spin, flush and _write stop.
CallsReturn == ~Idle ~> Idle

\* get_result "asserts not _crnt_cmd.get_empty()" when it has nothing left to
\* read: a transfer without a result has something under way that brings one.
NoAssertionError == raised # "AssertionError"
=============================================================================
