---------------------------- MODULE ProbeLink ------------------------------
(***************************************************************************)
(* Opening, using and closing a CMSIS-DAP probe: the methods of            *)
(* CMSISDAPProbe and DAPAccessCMSISDAP that are not transfers, the         *)
(* commands of CMSISDAPProtocol they exchange, and the USB backends under  *)
(* them.  PyUSB and PyUSBv2 (backend "pyusb") read in a thread, one read   *)
(* for each permit that write releases; PyWinUSB is called back with every *)
(* report that arrives.                                                    *)
(*                                                                         *)
(* Every method is a list of steps.  A step is a command, exchanged with   *)
(* the probe, or something done on the host.  Transfers are one command,   *)
(* "packet", which is written now and read later; what is in one is the    *)
(* subject of DapPipeline.  The probe has SWO, and an endpoint for it when *)
(* the backend has one (PyUSBv2).                                          *)
(***************************************************************************)
EXTENDS Naturals, Sequences, FiniteSets

CONSTANTS
  PacketCount,  \* what the probe answers to dap_info(MAX_PACKET_COUNT)
  MaxMethods,   \* bound: methods called
  MaxFaults     \* bound: late answers, refusals and failures of USB

ASSUME ProbeLinkAssumption ==
  PacketCount \in Nat \ {0} /\ MaxMethods \in Nat /\ MaxFaults \in Nat

VARIABLES
  backend,    \* "pyusb" or "pywinusb"
  closed,     \* closed of the interface
  rx,         \* what the receive thread is at: none, loop, acquire, reading, ended
  stop,       \* rx_stop_event (closed, in PyUSB)
  permits,    \* read_sem
  received,   \* rcv_data: answers, and the errors of reads that timed out
  executing,  \* the commands that the probe has not answered
  endpoint,   \* the answers that the host has not read
  todo,       \* the steps that remain of the method in progress
  waiting,    \* is the command of the first step written, its answer not read?
  owed,       \* _commands_to_read: packets written, their answers not read
  buffers,    \* has _init_deferred_buffers been called?
  swo,        \* the last SWO thread: none, reading or ended
  orphans,    \* the SWO threads that nobody will join
  swoEvent,   \* swo_stop_event: none, clear or set
  swoOver,    \* is the end of a thread in swo_data?
  outOfStep,  \* history: since it was opened, an answer was given up or passed over
  misread,    \* history: and the last answer read was another command's
  raised,     \* history: a method raised an exception
  excused,    \* history: something happened that may make a method raise
  opened, methods, faults

interface == <<closed, rx, stop, permits, received>>
probe == <<executing, endpoint>>
host == <<todo, waiting, owed, buffers>>
trace == <<swo, orphans, swoEvent, swoOver>>
history == <<outOfStep, misread, raised, excused>>
probeVars == <<backend, interface, probe, host, trace, history, opened, methods, faults>>

-----------------------------------------------------------------------------
(* The methods.                                                            *)

\* CMSISDAPProtocol: the commands that raise CommandError unless the probe
\* answers that it has carried them out, and those that take any answer.
PortCommands == {"connect", "disconnect"}
TransferCommands == {"configure", "clock"}
SwdCommands == {"swd", "sequence"}
JtagCommands == {"jtag", "sequence"}
SwoCommands == {"transport", "mode", "control"}
Confirmed == PortCommands \cup TransferCommands \cup SwdCommands \cup JtagCommands \cup SwoCommands

Queries == {"info", "pins"}
Reports == {"baudrate", "status", "data", "vendor"}
Exchanged == Confirmed \cup Queries \cup Reports

\* _swo_disable sends two commands again, with other arguments.
Code(step) == CASE step = "off" -> "mode" [] step = "unroute" -> "transport" [] OTHER -> step
Direct(step) == Code(step) \in Exchanged

Opening == <<"interface", "info", "info", "info", "info", "buffers", "info">>
Closing == <<"flush", "stop_swo", "stop", "join">>
Connecting == <<"connect", "clock", "configure">>
SwdSequence == <<"swd", "sequence", "sequence", "sequence", "sequence">>
JtagSequence == <<"jtag", "sequence">>
SwoConfigure == <<"transport", "mode", "baudrate">>
SwoDisable == <<"off", "unroute">>
SwoControl == <<"control", "thread">>
SwoRead == IF backend = "pyusb" THEN <<"swo_data">> ELSE <<"data">>

Steps(method) ==
  CASE method = "open"       -> Opening
    [] method = "close"      -> Closing
    [] method = "connect"    -> Connecting
    [] method = "to_swd"     -> SwdSequence
    [] method = "to_jtag"    -> JtagSequence
    [] method = "disconnect" -> <<"flush", "disconnect">>
    [] method = "set_clock"  -> <<"flush", "clock">>
    [] method = "reset"      -> <<"flush", "pins", "pins">>
    [] method = "write"      -> <<"packet">>
    [] method = "flush"      -> <<"flush">>
    [] method = "vendor"     -> <<"vendor">>
    [] method = "swo_start"  -> SwoConfigure \o SwoControl
    [] method = "swo_stop"   -> SwoDisable
    [] method = "swo_read"   -> SwoRead
    [] method = "swo_status" -> <<"status">>

Methods == {"open", "close", "connect", "to_swd", "to_jtag", "disconnect", "set_clock", "reset",
            "write", "flush", "vendor", "swo_start", "swo_stop", "swo_read", "swo_status"}

Idle == todo = << >>
At(step) == ~Idle /\ Head(todo) = step
Done == todo' = Tail(todo) /\ waiting' = FALSE

\* The method in progress raises an exception.
Raise == todo' = << >> /\ waiting' = FALSE /\ raised' = TRUE

Fault == faults < MaxFaults /\ faults' = faults + 1
NoFault == UNCHANGED faults

Exception(code) == [code |-> code, ok |-> FALSE]
IsAnswer(item) == item.code \notin {"error", "end"}

\* How many answers come after the one that is read now?
Behind ==
  Len(executing) + Len(endpoint) + Cardinality({i \in 2..Len(received) : IsAnswer(received[i])})

\* A method is called, before the probe was opened again perhaps: by the GDB
\* server of a session that is over.
CallMethod(method) ==
  /\ Idle /\ methods < MaxMethods /\ methods' = methods + 1
  /\ method # "open" => opened > 0
  /\ todo' = Steps(method)
  /\ excused' = (excused \/ (closed # (method = "open")) \/ (method = "open" /\ opened > 0)
                         \/ (method # "open" /\ ~buffers)
                         \/ (method = "swo_start" /\ swo = "reading"))
  /\ UNCHANGED <<backend, interface, probe, waiting, owed, buffers, trace, outOfStep, misread,
                 raised, opened, faults>>

-----------------------------------------------------------------------------
(* Exchanges.                                                              *)

\* (A wrong variant of Release: no permit.)
ReleaseNone == permits' = permits

\* read_sem.release
Release == permits' = IF backend = "pyusb" THEN permits + 1 ELSE permits

Written(code) ==
  /\ ~closed
  /\ Release /\ executing' = Append(executing, code)
  /\ UNCHANGED <<backend, closed, rx, stop, received, endpoint, trace, misread, raised, opened,
                 methods>>

\* The methods of the protocol write at once: with packets outstanding, it is
\* a packet's answer that comes first.
WriteCommand ==
  /\ ~Idle /\ Direct(Head(todo)) /\ ~waiting
  /\ Written(Code(Head(todo)))
  /\ waiting' = TRUE
  /\ outOfStep' = (outOfStep \/ owed # << >>)
  /\ excused' = (excused \/ owed # << >>)
  /\ NoFault /\ UNCHANGED <<todo, owed, buffers>>

\* _send_packet
WritePacket ==
  /\ At("packet") /\ buffers /\ Len(owed) < PacketCount
  /\ Written("packet")
  /\ owed' = Append(owed, "packet") /\ Done
  /\ NoFault /\ UNCHANGED <<buffers, outOfStep, excused>>

\* The permit is released, then nothing is written: USB fails, or the endpoint
\* is gone because the interface is closed.  _send_packet forgets the packets
\* that it has written.
WriteFails ==
  /\ \/ ~Idle /\ Direct(Head(todo)) /\ ~waiting /\ UNCHANGED <<owed, outOfStep>>
     \/ At("packet") /\ buffers /\ Len(owed) < PacketCount
        /\ owed' = << >> /\ outOfStep' = (outOfStep \/ owed # << >>)
  /\ IF closed THEN NoFault ELSE Fault
  /\ Release /\ Raise /\ excused' = TRUE
  /\ UNCHANGED <<backend, closed, rx, stop, received, probe, buffers, trace, misread, opened,
                 methods>>

\* Is a packet's answer read next: to flush, to make room for one more, or to
\* be dropped after a packet failed?
ReadsPacket ==
  \/ At("flush") /\ buffers /\ owed # << >>
  \/ At("packet") /\ buffers /\ Len(owed) >= PacketCount
  \/ At("discard")

Reads == waiting \/ ReadsPacket

\* Does the answer begin with the byte of another command?
OtherCommand(answer, step) == answer.code # Code(step)

\* The answer of a command, in a method of CMSISDAPProtocol.  To configure SWO
\* is given up quietly when the probe refuses; SWO is started all the same.
ReadAnswer(answer) ==
  /\ waiting
  /\ misread' = (Behind # 0)
  /\ IF OtherCommand(answer, Head(todo)) THEN Raise
     ELSE IF answer.ok THEN Done /\ UNCHANGED raised
     ELSE CASE Head(todo) \in {"transport", "mode", "baudrate"} ->
                 todo' = SwoDisable \o SwoControl /\ waiting' = FALSE /\ UNCHANGED raised
            [] Head(todo) = "off" ->
                 todo' = Tail(Tail(todo)) /\ waiting' = FALSE /\ UNCHANGED raised
            [] Head(todo) = "unroute" -> Done /\ UNCHANGED raised
            [] OTHER -> Raise
  /\ UNCHANGED <<owed, outOfStep>>

\* _read_packet.  A transfer that failed drops the answers of the packets
\* behind it; any other exception only forgets them.
ReadPacket(answer) ==
  /\ ReadsPacket /\ ~At("discard")
  /\ misread' = (Behind # Len(owed) - 1)
  /\ CASE answer.code # "packet" -> owed' = << >> /\ Raise
       [] answer.code = "packet" /\ ~answer.ok ->
            /\ todo' = [i \in 1..Len(owed) - 1 |-> "discard"] /\ owed' = << >>
            /\ waiting' = FALSE /\ raised' = TRUE
       [] OTHER -> owed' = Tail(owed) /\ UNCHANGED <<todo, waiting, raised>>
  /\ outOfStep' = (outOfStep \/ (answer.code # "packet" /\ Len(owed) > 1))

Discard == At("discard") /\ Done /\ UNCHANGED <<owed, raised, misread, outOfStep>>

\* read: the first of what was received.
Read ==
  /\ Reads /\ received # << >>
  /\ received' = Tail(received)
  /\ IF IsAnswer(Head(received))
     THEN (ReadAnswer(Head(received)) \/ ReadPacket(Head(received)) \/ Discard)
     ELSE \* an error of USB: the answer may still come
          /\ Raise /\ outOfStep' = TRUE
          /\ owed' = IF waiting THEN owed ELSE << >>
          /\ UNCHANGED misread
  /\ UNCHANGED <<backend, closed, rx, stop, permits, probe, buffers, trace, excused, opened,
                 methods, faults>>

\* PyWinUSB waits for twenty seconds.
ReadTimesOut ==
  /\ backend = "pywinusb" /\ Reads /\ received = << >>
  /\ IF executing # << >> THEN Fault ELSE NoFault
  /\ Raise /\ outOfStep' = TRUE /\ excused' = TRUE
  /\ owed' = IF waiting THEN owed ELSE << >>
  /\ UNCHANGED <<backend, interface, probe, buffers, trace, misread, opened, methods>>

-----------------------------------------------------------------------------
(* Steps of the host alone.                                                *)

\* (A wrong variant of Drained: what the endpoint holds stays.)
NotDrained == endpoint

\* start_rx reads until nothing comes.
Drained == IF backend = "pyusb" THEN << >> ELSE endpoint

\* open of the interface; its first line asserts that it is closed.
OpenInterface ==
  /\ At("interface") /\ closed
  /\ closed' = FALSE /\ stop' = FALSE
  /\ rx' = IF backend = "pyusb" THEN "loop" ELSE rx
  /\ endpoint' = Drained
  /\ outOfStep' = (outOfStep /\ (executing # << >> \/ (backend = "pywinusb" /\ received # << >>)))
  /\ misread' = FALSE
  /\ opened' = opened + 1
  /\ Done
  /\ UNCHANGED <<backend, permits, received, executing, owed, buffers, trace, raised,
                 excused, methods, faults>>

OpenFails ==
  /\ At("interface")
  /\ IF closed THEN Fault ELSE NoFault
  /\ Raise /\ excused' = TRUE
  /\ UNCHANGED <<backend, interface, probe, owed, buffers, trace, outOfStep, misread, opened,
                 methods>>

\* _init_deferred_buffers
InitBuffers ==
  /\ At("buffers") /\ Done
  /\ buffers' = TRUE /\ owed' = << >>
  /\ outOfStep' = (outOfStep \/ owed # << >>)
  /\ UNCHANGED <<backend, interface, probe, trace, misread, raised, excused, opened, methods,
                 faults>>

\* flush, with nothing more to read.
Flushed ==
  /\ At("flush") /\ buffers /\ owed = << >> /\ Done
  /\ UNCHANGED <<backend, interface, probe, owed, buffers, trace, history, opened, methods, faults>>

\* There are no buffers until the probe was opened once.
NoBuffers ==
  /\ At("flush") \/ At("packet")
  /\ ~buffers /\ Raise
  /\ UNCHANGED <<backend, interface, probe, owed, buffers, trace, outOfStep, misread, excused,
                 opened, methods, faults>>

\* close up to the join, which asserts first that the interface is open.
Stop ==
  /\ At("stop")
  /\ IF closed /\ backend = "pyusb"
     THEN Raise /\ UNCHANGED <<closed, stop, permits>>
     ELSE closed' = TRUE /\ stop' = TRUE /\ Release /\ Done /\ UNCHANGED raised
  /\ UNCHANGED <<backend, rx, received, probe, owed, buffers, trace, outOfStep, misread, excused,
                 opened, methods, faults>>

\* PyWinUSB keeps what it has received.
Join ==
  /\ At("join") /\ Done
  /\ IF backend = "pyusb"
     THEN rx = "ended" /\ rx' = "none" /\ received' = << >> /\ swoOver' = FALSE
     ELSE UNCHANGED <<rx, received, swoOver>>
  /\ UNCHANGED <<backend, closed, stop, permits, probe, owed, buffers, swo, orphans, swoEvent,
                 history, opened, methods, faults>>

\* start_swo: a thread that still runs is left to itself.
StartSwo ==
  /\ At("thread") /\ Done
  /\ IF backend = "pyusb"
     THEN /\ orphans' = IF swo = "reading" THEN orphans + 1 ELSE orphans
          /\ swo' = "reading" /\ swoEvent' = "clear"
     ELSE UNCHANGED <<swo, orphans, swoEvent>>
  /\ UNCHANGED <<backend, interface, probe, owed, buffers, swoOver, history, opened, methods,
                 faults>>

\* stop_swo, which only close calls: swo_stop of the probe leaves the thread.
StopSwo ==
  /\ At("stop_swo")
  /\ IF closed \/ swo = "none" THEN Done /\ UNCHANGED <<swo, swoEvent>>
     ELSE IF swoEvent = "clear"
          THEN swoEvent' = "set" /\ UNCHANGED <<todo, waiting, swo>>
          ELSE swo = "ended" /\ swo' = "none" /\ swoEvent' = "none" /\ Done
  /\ UNCHANGED <<backend, interface, probe, owed, buffers, orphans, swoOver, history, opened,
                 methods, faults>>

\* read_swo: the end of a thread stays where it is.
ReadSwo ==
  /\ At("swo_data")
  /\ IF swoOver THEN Raise ELSE Done /\ UNCHANGED raised
  /\ UNCHANGED <<backend, interface, probe, owed, buffers, trace, outOfStep, misread, excused,
                 opened, methods, faults>>

HostStep ==
  \/ WriteCommand \/ WritePacket \/ WriteFails \/ Read \/ ReadTimesOut
  \/ OpenInterface \/ OpenFails \/ InitBuffers \/ Flushed \/ NoBuffers
  \/ Stop \/ Join \/ StartSwo \/ StopSwo \/ ReadSwo

-----------------------------------------------------------------------------
(* The threads and the probe.                                              *)

RxOnly == UNCHANGED <<backend, closed, stop, executing, host, trace, outOfStep, misread, raised,
                      opened, methods>>

RxLoop ==
  /\ rx = "loop"
  /\ rx' = IF stop THEN "ended" ELSE "acquire"
  /\ received' = IF stop THEN Append(received, Exception("end")) ELSE received
  /\ RxOnly /\ UNCHANGED <<permits, endpoint, excused, faults>>

RxAcquire ==
  /\ rx = "acquire" /\ permits > 0 /\ permits' = permits - 1
  /\ rx' = IF stop THEN "loop" ELSE "reading"
  /\ RxOnly /\ UNCHANGED <<received, endpoint, excused, faults>>

RxReads ==
  /\ rx = "reading" /\ endpoint # << >>
  /\ received' = Append(received, Head(endpoint)) /\ endpoint' = Tail(endpoint)
  /\ rx' = "loop"
  /\ RxOnly /\ UNCHANGED <<permits, excused, faults>>

\* Nothing comes for ten seconds: because the probe is late, or because no
\* command was written for this permit.
RxTimesOut ==
  /\ rx = "reading" /\ endpoint = << >>
  /\ IF executing # << >> THEN Fault /\ excused' = TRUE ELSE NoFault /\ UNCHANGED excused
  /\ received' = Append(received, Exception("error"))
  /\ rx' = "loop"
  /\ RxOnly /\ UNCHANGED <<permits, endpoint>>

RxThread == RxLoop \/ RxAcquire \/ RxReads \/ RxTimesOut

\* swo_rx_task, at the condition of its loop; without an event it raises.
SwoThread ==
  /\ swoEvent # "clear" /\ swoOver' = TRUE
  /\ \/ swo = "reading" /\ swoEvent = "set" /\ swo' = "ended" /\ UNCHANGED orphans
     \/ orphans > 0 /\ orphans' = orphans - 1 /\ UNCHANGED swo
  /\ UNCHANGED <<backend, interface, probe, host, swoEvent, history, opened, methods, faults>>

\* The probe answers the commands in order, and may refuse one.  PyWinUSB's
\* handler takes the answer, unless the interface is closed.
Probe(ok) ==
  /\ executing # << >> /\ executing' = Tail(executing)
  /\ IF ok THEN NoFault /\ UNCHANGED excused
     ELSE Fault /\ excused' = TRUE /\ Head(executing) \in Confirmed \cup {"baudrate", "packet"}
  /\ LET answer == [code |-> Head(executing), ok |-> ok] IN
       IF backend = "pyusb"
       THEN endpoint' = Append(endpoint, answer) /\ UNCHANGED received
       ELSE /\ received' = IF closed THEN received ELSE Append(received, answer)
            /\ UNCHANGED endpoint
  /\ UNCHANGED <<backend, closed, rx, stop, permits, host, trace, outOfStep, misread, raised,
                 opened, methods>>

ProbeInit ==
  /\ backend \in {"pyusb", "pywinusb"}
  /\ closed = TRUE /\ rx = "none" /\ stop = FALSE /\ permits = 0 /\ received = << >>
  /\ executing = << >> /\ endpoint = << >>
  /\ todo = << >> /\ waiting = FALSE /\ owed = << >> /\ buffers = FALSE
  /\ swo = "none" /\ orphans = 0 /\ swoEvent = "none" /\ swoOver = FALSE
  /\ outOfStep = FALSE /\ misread = FALSE /\ raised = FALSE /\ excused = FALSE
  /\ opened = 0 /\ methods = 0 /\ faults = 0

ProbeNext ==
  \/ \E method \in Methods : CallMethod(method)
  \/ HostStep \/ RxThread \/ SwoThread
  \/ \E ok \in BOOLEAN : Probe(ok)

ProbeSpec == ProbeInit /\ [][ProbeNext]_probeVars

\* Threads run on when they can, reads end by an answer or by their time-out,
\* and the probe answers.
ProbeFairness ==
  /\ WF_probeVars(HostStep) /\ WF_probeVars(RxThread) /\ WF_probeVars(SwoThread)
  /\ WF_probeVars(\E ok \in BOOLEAN : Probe(ok))

-----------------------------------------------------------------------------
(* Properties.                                                             *)

AnswerType == [code : Exchanged \cup {"packet"}, ok : BOOLEAN]
ItemType == AnswerType \cup {Exception("error"), Exception("end")}

\* The type of the state, and how far the thread can be behind the host.
ProbeTypeOK ==
  /\ closed \in BOOLEAN /\ rx \in {"none", "loop", "acquire", "reading", "ended"}
  /\ permits \in 0..(MaxMethods * 6) /\ Len(owed) <= PacketCount
  /\ \A i \in 1..Len(received) : received[i] \in ItemType
  /\ \A i \in 1..Len(endpoint) : endpoint[i] \in AnswerType
  /\ swo \in {"none", "reading", "ended"} /\ swoEvent \in {"none", "clear", "set"}
  /\ closed /\ Idle => rx = "none" /\ swo = "none"

\* No command takes the answer of another, though threads read ahead, packets
\* are outstanding and the probe is closed and opened again: unless, since it
\* was opened, an answer was given up or a packet's was passed over.  To open
\* it again with nothing on its way is the cure.
\* (PyUSBv2.write, rx_task, read, close, start_rx, DAPAccessCMSISDAP.flush)
OwnAnswers == misread => outOfStep

\* And nothing raises an exception without a cause: a fault, a command sent
\* with packets outstanding, a method called while the probe is closed, a
\* second start of SWO; or that the probe was opened again, when a permit of
\* the closed interface may have been left over.
RaisesWithCause == raised => excused

\* Both: the answers and the exceptions of the methods are those expected.
AnswersAsExpected == OwnAnswers /\ RaisesWithCause

\* Every method returns: no read waits for what no thread reads, and closing
\* wakes and joins the threads wherever they are. (read, close, stop_swo)
MethodsReturn == ~Idle ~> Idle
=============================================================================
