# Verification of RTTView

TLA+ models of RTTView, the configurations with which TLC checks them, and proofs
that TLAPS checks.  RTTView shows what a microcontroller writes to its SEGGER RTT
buffers, over a J-Link, a CMSIS-DAP probe (through a trimmed copy of pyOCD), OpenOCD
or Keil, and can offer the same link to a GDB client.

Check a model: `tlc -config DapPipeline.cfg DapPipeline.tla`.
Check the proofs: `tlapm XLinkProofs.tla`, and likewise `SequenceLemmas`,
`DapPipelineProofs`, `RttRingProofs`, `SessionProofs`, `AccessPortProofs`, `CortexMProofs` and
`TargetMemoryProofs` (the last four take several minutes each).

## 1. The system

```
 RTTView.py (GUI thread, 10 ms timer)      gdbserver.py (a thread, optional)
     aUpRead / aDownWrite                        GDB packets
              \                                   /
               xlink.py  XLink: one lock around every method
              /      |         |          \
      jlink.py   openocd.py  keil.py   pyocd: CortexM -> AHB_AP -> DebugPort
       (DLL)      (TCP)      + agdi        |
                                       cmsis_dap_probe.py
                                           |
                                       dap_access_cmsis_dap.py   deferred transfers
                                           |
                                       pyusb_v2_backend.py       receive thread
```

### Components, their state and what makes them correct

| Component | State | Operations | What must hold |
|---|---|---|---|
| Deferred transfer pipeline, `dap_access_cmsis_dap.py` | current command, commands to read, waiting transfers, words received | read and write registers (single, repeated, deferred), flush, set_deferred_transfer, protocol commands | every read gets its own words or an error; what is on the wire is what is expected; the probe's buffer is never overrun; flush is a barrier; calls return |
| RTT rings, `RTTView.py` | ring descriptors and bytes in the target, the host's copies, tick counter | timer tick, click on Send, firmware reads and writes | each ring is a FIFO; nothing published is lost silently |
| Facade `xlink.py` | one lock | some twenty methods, some of which call others | one thread at a time at the probe; the lock is always given back |
| Link life cycle, `RTTView.py` | button, `daplink`, `xlk`, `gdb`, list of probes | open, close, detect, address search | what was opened is closed; no thread survives its link |
| GDB server, `gdbserver.py` | socket, client, `running`, unparsed bytes | accept, receive, stop | packets are answered once; stop ends the thread |
| OpenOCD, `openocd.py` | TCP stream | one request and reply per access | a reply belongs to the request before it; halted cores are resumed |
| AGDI receiver, `agdi_receiver.py`, `proxy.cpp` | socket, dictionary of memory | receiver thread, reader | not modelled (section 8) |
| CMSIS-DAP probe, `cmsis_dap_probe.py` | cached SELECT, shared flag | DP and AP reads and writes | an access reaches the bank it names, after errors too |
| USB interface, `pyusb_v2_backend.py` | receive thread, `rcv_data`, semaphore | open, write, read, close | one item read per packet written; close joins the threads |
| Access port and debug port, `ap.py`, `dap.py` | cached CSW, TAR page | memory reads and writes, power up | blocks do not cross a TAR page; CSW is what is cached |
| Core control, `cortex_m.py` | run token, DEMCR | halt, step, resume, reset, registers | combined registers keep their other fields |
| Breakpoints, `fpb.py`, `dwt.py`, `breakpoints/` | comparators, original instructions | add, remove, flush | memory and list agree; reads hide breakpoints |
| Caches, `cache.py` | register and memory contents, run token | read, write, invalidate | never older than the target's last run |
| Memory map and memory interface, `memory_map.py`, `memory_interface.py` | regions | look-ups, splitting of blocks | every byte once, in its lane |
| Utilities: sequencer, graph, notifier | data only | | not modelled (section 8) |
| ELF, SVD, display, probe discovery | tables | parsing and drawing | out of scope, see section 8 |

How they interact.  The timer handler and the button handlers run in the GUI thread,
one at a time.  The GDB server's thread calls the same `XLink` object; the lock of
`XLink` is the only thing between the two.  Everything below `XLink` is written for one
thread.  `DAPAccessCMSISDAP` writes packets to the interface and reads responses later;
the interface's own thread reads USB and queues data or an exception.  With `[Shared]`
another program uses the same probe: RTTView then polls at a fifth of the rate, drops
the cached SELECT before every access and stays silent about exceptions.

What is hard.  Responses carry nothing that says which command they answer, so that
everything depends on the host and the probe staying in step through errors.  The
firmware changes a ring between any two accesses of the host.  Errors of deferred
writes surface in unrelated calls.  USB accesses time out and answer late.  Two threads
meet in a lock that cannot be taken twice.  `PROJECT.json` lists these hazards
at their lines, with the properties that cover them or why none does yet.

## 2. The modules

| Module | Models | Lines up with |
|---|---|---|
| `DapCommand` | packing of requests into one packet | class `_Command` |
| `DapAccess` | what deferred reads promise (abstract) | docstrings of `DAPAccess`, `_Transfer` |
| `DapPipeline` | the pipeline with probe and interface | class `DAPAccessCMSISDAP`, `_Transfer`, `CMSISDAPProtocol` |
| `RttChannel` | a FIFO that may lose a batch (abstract) | the two directions of RTT |
| `RttRing` | both rings, the timer tick, the Send button, the firmware | `aUpRead`, `aDownWrite`, `on_tmrRTT_timeout`, `on_btnSend_clicked`, `RingBuffer` |
| `XLink`, `MCXLink` | the facade; what RTTView's two threads call | class `XLink` and its decorator `locked` |
| `Session` | a session on OpenOCD: GUI thread, GDB server, lock, Tcl RPC, core | `on_btnOpen_clicked`, `GDBServer`, `XLink.locked`, `OpenOCD` |
| `ProbeLink` | the methods of a CMSIS-DAP probe that are not transfers, and the USB backends | `CMSISDAPProbe`, `DAPAccessCMSISDAP`, `CMSISDAPProtocol`, `PyUSBv2`, `PyUSB`, `PyWinUSB` |
| `MCSession` | the choice between the two links | `cmbDLL` |
| `AccessPort` | cached SELECT and CSW over deferred accesses, power up, blocks | `DebugPort`, `MEM_AP`, `CMSISDAPProbe` |
| `MemoryInterface` | splitting of blocks (pure) | `memory_interface.py`, `_read_block32`, `_write_block32` |
| `CoreRegisters` | names of core registers, and lists of them (pure) | `read_core_registers_raw`, `write_core_registers_raw`, `RegisterCache` |
| `CortexM` | run control, resets, register cache, the core | `CortexM`, `RegisterCache`, `DebugContext` |
| `MemoryMap` | ranges and regions (pure) | `memory_map.py` |
| `MemoryCache` | intervals of cached memory (pure) | `MemoryCache` |
| `Breakpoints` | manager and providers, memory with and without them | `BreakpointManager`, `SoftwareBreakpointProvider`, `FPB` |
| `TargetMemory` | cache, breakpoints, watchpoints and the core's program on one memory | `MemoryCache`, `DWT` |
| `MCCortexM`, `MCTargetMemory`, `MCAccess` | instances for TLC | |
| `SequenceLemmas` | facts about sequences, and induction, for the proofs | |
| `XLinkProofs` | theorems about `XLink` | |
| `DapPipelineProofs` | theorems about `DapPipeline`, with and without USB failures | |
| `CortexMProofs` | theorems about `CortexM` | |
| `RttRingProofs` | theorems about `RttRing`, and that it implements `RttChannel` | |
| `SessionProofs` | theorems about `ProbeLink`, about `Session`, and about both in `MCSession` | |
| `AccessPortProofs` | theorems about `AccessPort` and `MemoryInterface` | |
| `TargetMemoryProofs` | theorems about `Breakpoints`, `MemoryCache` and `TargetMemory` | |

Definitions marked as *wrong variants* are not used by any specification.  Each changes
one definition the way a slip in the code would; with it in place of the right one, the
property it is paired with in `PROJECT.json` (`mutants`) is violated.

### `DapCommand` and `DapPipeline`

*Data.*  The words of all requests are numbered in the order they are requested, and the
words of all reads likewise.  A command is an interval of each numbering instead of a
list of values; a response carries the interval it answers.  A read word that reaches the
wrong transfer is a wrong number, and so is a word of a response to another command.

*Control.*  One thread at a time is in the class (that is `XLink`'s lock), so the host is
one process.  `todo` is the stack of what the running call still has to do, innermost
first, and each label stands for the rest of one method:

| Label | Rest of | Action |
|---|---|---|
| `fill` | the loop of `_write` | `FillAdd`, `FillNoRoom`, `FillEnd` |
| `now` | the end of `read_reg`: call the callback, or hand it out | `ReturnTransfer` |
| `send`, `put` | `_send_packet` before and at its write | `SendPacket`, `SendPacketWrite`, `SendPacketFails` |
| `read`, `attach` | `_read_packet`, its loop over waiting transfers | `ReadPacket`, `Attach` |
| `drain` | the loop of `flush` | `Drain` |
| `get` | the loop of `_Transfer.get_result` | `GetResultTurn` |
| `defer` | the end of `set_deferred_transfer` | `SetDeferredEnd` |
| `protoPut`, `protoGet` | a method of `CMSISDAPProtocol` | `ProtocolWrite`, `ProtocolWriteFails`, `ProtocolRead` |
| `abortDrain` | the loop at the end of `_abort_all_transfers` | `AbortDrain` |

An exception empties `todo` and is kept in `raised`.  The probe executes the oldest packet
and answers it, or refuses it (`ProbeFaults`, `ProbeRefuses`).  The interface fails in
three ways: a write raises, and leaves behind a permit for the receive thread to read a
response that will never come (`UsbWriteFails`, `SpareReadTimesOut`); or a response is
replaced by an error (`ResponseLost`).

`done` and `owed` are history: the words the probe executed, and the first word whose
error the caller was not told.

### `RttRing`

Each access of target memory is one step; the firmware stores a byte, publishes it, or
takes one between any two steps.  `pc` is the next access of the running handler.  An
access may raise; a write may raise although it was performed (`AckMayBeLost`), because a
failed transfer of a write says nothing about whether the target saw it.
`RawTCPLinkDefined` says whether the first line of `aUpRead` finds the class it names,
and `WriteMemReturns` whether `XLink.write_mem` returns; in the repository both are false,
so that nothing is received (section 3) and the first click on Send blocks (section 7).  The
run sets them to true, to check the algorithms behind them.

### `XLink`

Every method is a body of steps, a probe operation or a call of another method; where a
body depends on what is read, each way is one possibility.  A thread's stack
holds the running methods with a mark for those that hold the lock.

### `CoreRegisters` and `CortexM`

*Data.*  A register is one bit, and the set of registers is cut down to one of each kind
that the code treats apart: a plain one, three parts of CFBP, two of XPSR (one of them with
the Thumb bit), and two single registers that make a double one.

*Control.*  An operation is a list of steps in `todo`; each step is one access of a debug
register or one change of the host's state (the cache, the run token), in the order of the
code.  `CortexM` builds the lists (`Program`, `StepProgram`, `PerformReset`,
`EmulatedReset`), and one action takes each kind of step.  The core moves between any two
of them: it executes, sleeps, wakes, locks up, hits a breakpoint, takes a reset it was
asked for late, or is reset by somebody else.  DHCSR is its control bits and the two sticky
bits that reading clears (`ReadSticky`).

*Failures.*  The probe defers its transfers (`cmsis_dap_probe.py:139`).  An access that a read
or a flush follows raises in its own operation (`AccessFails`; `reset` catches it in its
polling loop, `_perform_reset` at the write of AIRCR).  A write that nothing follows is
*posted*: the vector catch of `reset_and_halt`, before and after, and the two writes of
`disconnect`.  It may be lost (`PostedLost`); the operation goes on and may return, and the
error is `owed` to the next access that awaits an answer, in whatever operation.

### `MemoryMap`, `MemoryCache`, `Breakpoints`, `TargetMemory`

A memory of eight bytes in three regions.  `shadow` is what it would hold had no
breakpoint ever been set.  Setting, removing and flushing breakpoints are actions with two
failing variants each: `...Fails`, where the access raises in its place, and `...Lost`, where a
deferred write is dropped after the host has recorded it as done, and the error is `owed` to
the next read (`ErrorRaised`).  So are the operations of watchpoints and of the cache; a software breakpoint is set in two steps (`pending`), between which
the core's program may write.  Reads through the core are filtered by size and address as
`filter_memory` does.  The manager keeps what the provider returned: of a hardware breakpoint
that is the record of its comparator, the same object the FPB keeps (`comp`), whose address
changes when the comparator is given away.  `remove_breakpoint` and
`remove_all_breakpoints` work on these entries, not on the provider's list.
`MemoryCache` holds the interval arithmetic of the cache, and
`TargetMemory` its operations over the filtered memory, with the run token, and the
watchpoints with their records and function registers, the former written before the
accesses and the latter by them.

### `MemoryInterface` and `AccessPort`

`Pieces` splits a block of bytes into lanes and words, `Transactions` cuts words at the
page within which TAR increments.  A call is a list of register accesses; each is queued
at the host's pace and executed at the target's, and the host's copies `dpSelect` and `csw`
change when the access is queued.  An error is raised to whichever call waits next; what
the queue still held is dropped (`SkipRest`).  `hw` is what the target's registers really
hold.  Every executed access carries what its caller meant, and `wrong` collects those that
met another AP, bank, address or size, in the packets under way after an error too, unless
the register was left behind by an access that was not executed (`dropped`) or is `lost`.

### `Session`

The GUI thread and the thread of each GDB server call the XLink of their session under its
lock.  A call is the list of commands it still sends, with `halt_required` unfolded once
the state of the core is known.  OpenOCD executes the commands of a connection in order;
the host waits for the answer of each, reads all that has arrived, and may give up
(`TimeOut`), in which case the answer comes later.  The answer of a read may be an error, on
which `int` raises (`NoNumber`) and the `resume` of `halt_required` is never sent.  `server` is where the thread of a server
is: bound, in accept, between packets, in one, in a call, spinning, or ended.

### `ProbeLink`

Every method of a probe that is not a transfer is a list of steps: commands exchanged at
once, or host steps (opening the interface, creating buffers, waiting for a flush, stopping
and joining threads).  `permits` is the semaphore `read_sem`, `rx` the receive thread,
`received` the list `rcv_data`, `endpoint` what the device has ready.  `PyUSB` and `PyUSBv2`
read in the thread for every permit, ten seconds at most; `PyWinUSB` receives by a callback
and waits for twenty seconds.  A method called on a closed probe is included, because
the thread of an abandoned GDB server makes such calls.

*Abstraction.*  A transfer is one command `packet`; what is in it is `DapPipeline`'s
subject, which in turn sees the interface as an answer or an error for each packet.

## 3. What the runs check

| Run | Bounds | Shows |
|---|---|---|
| `dap_pipeline` | packets of 13 bytes, at most 2 counted words, 2 packets outstanding, transfers of 1 and 3 words, 5 words | types; `Lockstep`; `ResultIsOwn`; `WithinLimits`; `FlushCompletes`; refinement of `DapAccess`; `CallsReturn` |
| `dap_usb` | packets of 16 bytes, 3 words, one USB failure | `SettledStays`, `CallsReturn` in spite of it |
| `dap_flush` | two USB failures | violates `FlushCompletes` (finding) |
| `dap_assert` | one refused packet | violates `NoAssertionError` (finding) |
| `rtt_ring` | rings of 3 slots, 4 bytes each way, one failing access | both rings refine `RttChannel`; `UpAccounted`; `DownFillsRing`; `Delivery` |
| `xlink` | two threads calling any method, RISC-V | `ProbeExclusive`, `LockMatchesStack`, `LockIsReleasedUnlessNested` |
| `xlink_releases` | the calls RTTView and the GDB server make | violates `LockIsReleased` (finding) |
| `core` | six sessions with different operations, run token up to 2, one failing access or outside reset | `CacheCoherent`, `OthersWritten`, `DebugStateRestored`, `ResetHaltStops`, `MaskProtocol`, `Returns` |
| `core_write` | a write of CONTROL alone | violates `RegistersWritten` (finding) |
| `memory` | flash, RAM and device regions of 8 bytes, one comparator of the FPB and two of the DWT, four ranges that are read and written, run token up to 1, two accesses that fail at once or late | `TransparentBreakpoints`, `SoftwareBreakpointsInPlace`, `UnitsAgree`, `CacheRight` |
| `access` | two APs, pages of two words, 16 bytes, two queued accesses, one failure, two to five calls | `AccessRight`, `MemoryAsAsked` |
| `session` | OpenOCD: two sessions, three calls, one time-out or stop of the core; a probe: four methods, one fault, two packets | `CoreAsLeft`, `ServerEnds`; `AnswersAsExpected`, `MethodsReturn` |

*Why the bounds are enough.*  A packet of 13 bytes holds two words of a block and one or
two words of a mixed packet, so that a transfer of three words is split, two transfers
share a packet, and a block turns into a mixed packet that is full or too full; two counted words make the bound of
the count byte bite; two packets outstanding make the read before a write happen; five
words reach a third packet and a call after an error.  A ring of three slots wraps after
two bytes and has every relation of `WrOff` and `RdOff`, including `RdOff` 0 and 1, which
`aDownWrite` treats apart; four bytes go round once and a half.  A lock that cannot be
taken twice leaves stacks two deep; the proofs cover any number of threads.

A run token of 2 lets the core run twice between two accesses of the cache: once is enough
to make a value stale, twice shows that it is not found again by accident.  What the menus of
`core` leave out of one another does not interact: run control shares no state with the
register lists except the run token and the state of the core, which the cached sessions
have with a resume, a step, and a reset of each kind.  Register lists that name one part of a combined register, two, and one among others
show all the cases of `write_core_registers_raw`; the third part of CFBP is one that no list
names, and has to keep its value.  The memory has breakpoints in both halves of
a word of RAM, one below the FPB's limit and one above it, inside and at the ends of cached ranges, and one in flash; the comparator
runs out with the first hardware breakpoint, so that the next falls back to software or is refused; the two ranges of RAM
overlap, and what they cache touches, is joined by a write and then contains the range of the next;
a failure that leaves an orphan needs a second one to end in a lost restoring write; watchpoints of a size the device has and
of one it refuses.  A block of 14 bytes that starts at an odd address has a byte, a halfword,
words on two pages, and both kinds of rest.  Two queued accesses let an error overtake one
that the host has already counted on.  With two sessions a server of the first meets the
link of the second; with three calls the GUI and a GDB client interleave twice; one
time-out puts all later answers one behind.  Four methods are what it takes to open,
exchange, close and open again, with a fault anywhere.

*Action properties.*  `FlushCompletes` says of the step in which flush returns that
everything requested since the last error was executed.  `SettledStays` says that a
transfer with words or an error keeps them.  `DownFillsRing` says of the step that
publishes that bytes are left over only if the ring is full.  `MaskProtocol` says of every
step that changes C_MASKINTS that C_HALT is set before and after it.

*Deadlock* is checked for the pipeline and for `core`.  It is off for `XLink`, where a thread that
waits for itself is the point of two properties, for `RttRing`, whose
counters are bounded and whose host without `write_mem` stops, and for `memory`, `access`
and `session`, where a bound on the calls ends every behaviour.

### Where the properties make an exception

The code does less than one would like in many places.  The models do what the code
does; a property that would fail names the case in its comment and excludes it by a history
variable (`excused`, `stale`, `spoilt`, `failed`, `astray`, `disturbed`, `caught`, `dropped`, `lost`,
`outOfStep`).  These cases
are what a reader of the code should know:

*RTT.*
- `aUpRead` begins with a test against `RawTCPLink`, a name nothing defines (`RTTView.py:368`).
  In the repository as it is every poll raises, nothing is received, and the tenth tick closes
  a link that is not shared although no access failed.  `RawTCPLinkDefined` is this
  fact as a constant; `rtt_ring` sets it and checks the algorithm behind that line.

*Core control.*
- Of the parts of CFBP named in one write of registers, the first is dropped, and so is
  the first part of XPSR (`cortex_m.py:1135`): it is read, but not put on the list.  Run
  `core_write` shows it; `OthersWritten` is about all other fields.
- The last writes of `reset_and_halt` and of `disconnect` are posted: when they fail, the
  vector catch stays armed, or the core under debug, after a normal return.
  `DebugStateRestored` asks that the error is then still owed to a later operation.
- An error at the write of AIRCR, which may be that of the posted write of the vector catch
  before it, is swallowed (`cortex_m.py:844`), and `reset_and_halt` returns without having reset
  the core, against its docstring (`cortex_m.py:891`).  `ResetHaltStops` is about the
  operations that caught nothing.
- `Returns` excuses more than it must: the code hangs only when the core is reset under a step,
  the formula excuses every operation from the first reset from outside on.
- An emulated reset leaves the core halted, and `reset_and_halt` that raises leaves the vector
  catch set.  A step that raises leaves interrupts masked and is not counted in the run token.
- The wait of `step` has no time-out: a reset at this moment makes it endless.
- A sleeping core is not `running`, so that the caches keep what was read while it slept,
  although it may wake.
- The single and the double name of a floating point register are cached apart.
- The caches take written values before the target does.
- A reset asked for in AIRCR and taken after the loop of `reset` ended is overlooked by the
  host, as one from outside is: `CacheCoherent` excuses all that is cached when it comes.

*Memory.*
- `filter_memory_aligned_32` passes the address plus the index of a word (`manager.py:164`):
  in blocks of several words breakpoints are hidden in the wrong place.
- What a program or a debugger writes over a BKPT is lost when the breakpoint is removed.
- A software breakpoint whose removal fails goes on filtering; it is known to nobody, and
  one set there again and removed ends in a `KeyError`.
- A posted write is recorded as done and may fail later: a software breakpoint is then recorded
  that is not in memory, a removed one leaves a BKPT that nobody filters any more (its bytes
  are in `spoilt`), and a hardware breakpoint counts without being armed, or is armed without
  being counted.  `CacheRight` makes the same exception of these bytes, and of those
  of a write that failed late (`stale`).
- A comparator whose write raises stays enabled without being counted.  If an access fails
  in `remove_all_breakpoints`, the manager keeps all its entries.
- Such an entry shares its comparator's record with the breakpoint that is given the
  comparator next: removing the one removes the other.  After several failures the FPB's
  count drifts from the number in use, and may fall below zero.
- A watchpoint of a size the device refuses keeps its record.  So does one whose accesses
  failed, and asking for it again reports success; a removal that failed may leave the
  comparator armed without a record.  `UnitsAgree` excuses a comparator one of whose accesses
  failed (`astray`) until it is set or removed again.

*Access ports.*
- Packets under way after an error find the registers as the accesses that were not executed
  left them.  `AccessRight` lets them miss for a register in `dropped`, and
  `MemoryAsAsked` claims nothing of the bytes that such a stray access hit.
- An error raised by `flush`, `set_clock` or `reset` invalidates neither SELECT nor CSW; one in the
  write of TAR of a block does not invalidate CSW; one raised in an access to another AP
  does not either.
- In shared mode only SELECT is dropped, not CSW.
- RTTView makes its own `AHB_AP`, which is not in the list of the `DebugPort`: a reset that
  clears CSW is not told to it.
- `power_up_debug` waits without a limit.

*OpenOCD and the GDB server.*
- After a time-out the answer stays in the stream.
- After an exception `halt_required` leaves the core halted: after a time-out, or after an
  error reply to the read of memory that it surrounds (`openocd.py:105`).  A core that stops by itself
  between `targets` and `resume` is resumed by polling.
- A client that leaves inside a packet makes the server spin.  A server that is told to
  stop before it set `running` listens for ever, and so does one whose opening
  failed afterwards, since nobody stops it.

*Probe.*
- An answer that was given up leaves each later command one answer behind, until the probe
  is closed and opened again.
- `connect`, `vendor` and the SWO commands with packets outstanding read a packet's
  answer.
- `close` releases a permit that the thread does not take when it is at its loop condition; so does a
  method called on a closed interface.  After opening again the thread reads once more than
  commands are written, and ten idle seconds queue an error.
- A `close` whose flush raises leaves the interface open, and so does an `open` that fails once
  the interface is open; the next open then fails.
- `swo_stop` does not stop the SWO thread, and a second `swo_start` orphans it.
  `swo_start` goes on when the probe refused the configuration.

## 4. Fairness

- `DapPipeline`: weak fairness of the host and of the probe.  A call that has begun is a
  running Python thread; a CMSIS-DAP firmware answers every packet, or the interface's
  read times out and queues an error in its place.  New calls are not fair: nobody has to
  use the link.
- `RttRing`: weak fairness of the polling handler (Qt's timer keeps firing), of a handler
  that has begun, of the firmware's publishing of a byte it stored, and of its reading.
  Nothing makes the firmware write, or the user click.
- `XLink`: weak fairness of each thread.  `threading.Lock` is not fair, so no property
  says that a thread gets the lock, only that it is given back.
- `CortexM`: weak fairness of the running operation, of raising an error that is owed, and of
  the core taking a halt or reset it was asked for, leaving reset, and executing while it runs.
  Strong fairness of the time-outs (`Timeout` of two seconds): a loop looks at the clock between
  its accesses, so that the action is enabled again and again but not always.  Nothing
  makes the core sleep, wake or hit a breakpoint.
- `Session`: weak fairness of the GUI inside a call or while it closes, of each
  server's thread where it needs no client, and of OpenOCD.  `recv` and `accept` have time-outs, so a server's
  thread never waits for ever for a client.  The lock is contended, but the GUI's calls
  are bounded: `ServerEnds` does not need the lock to be fair.  (A thread that waits for the
  lock can still time out as if it read a packet, so that `ServerEnds` would not notice a lock
  that is never released; `LockIsReleasedUnlessNested` of `XLink` is what shows that.)
- `ProbeLink`: weak fairness of the running method, of both threads (a read ends by an answer or
  by its time-out), and of the probe.
- `AccessPort` and `TargetMemory` state safety only.


## 5. What is proved

`XLinkProofs`, for any set of threads and any assignment of methods to them
(`XLinkAssumption`: `NoThread` is no thread, and the calls are methods of the class):

- `TypeCorrect`, `ProbeIsExclusive`, `LockIsMatched`.

The inductive invariant `IInv` strengthens them with the shape of a stack: at
most two methods deep, the inner one waiting and the outer one holding the lock (a
non-reentrant lock allows no more), and with what a thread at the probe
has on top of its stack.  Without the shape, giving the lock back at the end of a method could not
be shown to leave no other holder.  `BodiesType` shows for every kind of core and probe
that bodies consist of existing methods.  `OwnStep` reduces each action to the thread
that takes it.

`DapPipelineProofs`, for every packet size and count, set of requests, length of
transfers, and number of USB failures (`RequestsAssumption`: a request reads or writes;
`PacketAssumption`: a packet holds at least one word; `PipelineAssumption`: the probe has
a packet buffer, and no transfer is of length zero):

- `PipelineTypeCorrect`: `TypeOK`.
- `PacketsFit`: the current command and those to read can be encoded and answered.
- `SettledTransfersStay`: `SettledStays`, an action property.

None is inductive.  The invariant `IInv`, which TLC checked on small instances with
and without a USB failure before it was proved, adds:

- `Stacked`: which method calls which, so that a return finds a caller that the rest of
  the invariant allows;
- `ReadHasCommand`, `HasRoom`: `_read_packet` is called only when a command is
  outstanding, and `_send_packet` writes only where there is room;
- `Quiet`, `Writing`, `HasTransfer`: what is empty while a protocol command runs, who may
  have words left to request, and that whoever returns a transfer has one;
- `Order`: the commands to read, the words received and the waiting transfers cut up one
  and the same stream of words.  This is why `_read_packet` may take the first waiting
  transfer without looking whether there is one (`SomeoneWaits`);
- `AllFit`: `AddFits` shows that `get_request_space` leaves room for what `add` adds.

`WaitingInv` says that `_transfer_list` names each transfer without words or error, once and in
order.  `WhatBecomesOfTransfers` reduces every action to one of four things that happen to
the transfers: a new one joins, the oldest takes its words, all that wait fail, or nothing.

Its second half assumes `MaxUsbFailures = 0` and proves, in the presence of any number of
refused transfers and commands:

- `StaysInLockstep`: `Lockstep`,
- `ReadsReturnTheirOwn`: `ResultIsOwn`,
- `ProbeIsNotOverrun`: `WithinLimits`,
- `PipelineIsDapAccess`: the pipeline implements `DapAccess`, step by step,
- `FlushMeansDone`: `FlushCompletes`, an action property.

Its invariant `InStep` adds to `IInv` that the words received are the next ones of the
stream.  `Wire` is handled by three lemmas, one for each thing that can happen to it:
`WireSends`, `WireAnswers`, `WireReads`.  `FlushInv` follows the words to the probe: those of the
commands to read are in order (`WordsInOrder`), those answered since the last error were
executed (`OwedDone`), a response that says OK says it of the words of its own command
(`InFlight`), and while flush reads there is no command left to send (`DrainEmpty`).  The assumption is needed: after a
USB error responses are left unread, which is the subject of the finding of `dap_flush`.

`RttRingProofs`, for rings of every size from two slots on, any number of bytes and of
failing accesses (`RttAssumption`):

- `RttTypeCorrect`: `TypeOK`.
- `UpAccountedFor`: `UpAccounted`; polling loses no byte but those whose update of RdOff
  raised after it was performed.
- `DownFillsTheRing`: `DownFillsRing`, an action property.
- `UpIsChannel`, `DownIsChannel`: both rings implement `RttChannel`, step by step.

The invariant is `Types`, `UpInv` and `DownInv`.  Each side has a copy of the other's
offset that is too old in one direction only: between the reader's offset and its
copy of WrOff lies a prefix of what is unread (`UpCopyIsOld`), and between the
writer's offset and its copy of RdOff lies room that was free and still is
(`DownCopyIsOld`, `DownPlace`), whatever the firmware does between two accesses.  `UpGone`
says which bytes are gone but not shown while RdOff is being written.  `Dist` turns
offsets modulo the size into lengths; its lemmas carry the case of the wrapped ring.

`SessionProofs`, first part (`ProbeLink`), for any number of buffers in the probe, methods and faults
(`ProbeLinkAssumption`):

- `ProbeTypesCorrect`: `ProbeTypeOK`; with it that the permits of the thread are bounded by the
  methods called.
- `ProbeAnswersExpected`: `AnswersAsExpected`; no command takes the answer of another, and
  nothing raises without a cause.
- `ProbeReadsPermitted`: while nothing excuses an exception, the thread has a permit for each
  command that is not read yet and none besides.

The invariant counts.  While nothing is out of step, what is on its way (`OnItsWay`: in the
probe, in the endpoint, in `rcv_data`) is what the host has still to read (`ToRead`); and while
nothing is excused, permits follow the commands (`Permitted`), and the answers on their way are
those of the commands in order (`AllExpected`).  `TodoInOrder` and `Closed` say which steps
follow each other in a method, and what a closed interface looks like; `Unopened` what one
that was never open does.

`SessionProofs`, second part (`Session`), for any number of sessions, calls and troubles (`SessionAssumption`):

- `TypesCorrect`: `TypeOK`, in which the answers that are behind are bounded by the
  command in progress and those that were given up.
- `CoreIsAsLeft`: `CoreAsLeft`; between calls the core runs exactly if whoever debugs left
  it running, unless an answer was given up, the core stopped while it was polled, or an
  error reply made a read raise that had halted it.
- `EitherLinkTypes`, `EitherLinkRight`: the same, and those of the probe, of the
  specification that run `session` checks, whichever link is chosen (`EachLink`).

`SessionInv` says that whoever is in a call holds its XLink's lock (`Locked`), that
only the latest session's connection may be open (`OneConnection`), and so that one thread
drives the core.  While nothing was given up (`~disturbed`), what is on its way is
the awaited command or its answer (`NothingStale`), and the core differs from what
was left only between the `halt` and the `resume` of `halt_required` (`Driven`, with the
lists of commands in `Debts`).

`TargetMemoryProofs`, for any memory map of whole halfwords, number of comparators and of failing
accesses, and whatever the core's program and the cache do (`BreakpointsAssumption`,
`TargetMemoryAssumption`: breakpoints are set at halfwords, since `set_breakpoint` clears
the Thumb bit; ranges that are read and written hold a byte at least, since the cache returns
at once from a read of none, and lie within memory):

- `BreakpointTypes`: `BreakpointsTypeOK`; `TypesOfMemory`: `TypeOK`.
- `ReadsHideBreakpoints`: `TransparentBreakpoints`.
- `BreakpointsAreInPlace`: `SoftwareBreakpointsInPlace`.
- `UnitsAreAsBelieved`: `UnitsAgree`.
- `CacheIsRight`: `CacheRight`; intervals are apart and within regions, and a read through the
  cache returns what memory would show.

`IInv` has three parts and `CacheInv`, of the cache, is a fourth.  `MemoryInv` says what a byte of memory is: what it would be without
breakpoints where there is none (`Clean`); what the provider keeps for a breakpoint, and has
read for one it is about to set, is what would be there (`Originals`, `PendingRight`);
manager and provider hold the same object (`SameInstr`).  Reading through the filter
then gives `shadow` for each size (`ReadsAreTransparent`), because a breakpoint covers whole
halfwords and no two cover a byte (`OneCovers`).  `FPBInv` says that the manager's entries and the
enabled records point at each other and that comparators and count follow them, until
an access fails, at once or late; `DWTInv` the same of each comparator of the DWT, until one
of its own accesses fails, and that no watchpoint has two records, whatever fails.  A lost
write takes the bytes or the comparator it was for out of these claims (`spoilt`, `astray`) in
the step in which the host records it as done.  TLC checked `IInv` on an instance
with two comparators and two failures first.  The proof showed the need of the comparator's
record in the manager's entries, and that removing all breakpoints leaves a
software breakpoint that only the provider knows.

`CacheInv` says that one map of memory holds the bytes of all intervals (`Contents`), and that it is
`shadow` where the cache is valid, the core halted and the byte neither stale nor spoilt
(`KeptRight`).  The map is what makes it inductive: an interval kept by a read that found
the cache invalid, or by a write that failed, still has some bytes, and the steps that
do not touch the cache only have to keep the relation of one map to memory (`CacheUnused`).
The algorithms are proved for any cache whose intervals hold the bytes of a map (`CacheOf`):
`UncachedIs`, that cutting the intervals out of a range in any order leaves apart spans of
exactly the bytes they do not hold; `MergeIs`, that lead, whole intervals and trail
together are the bytes of the range, since sorted intervals that cover it form a chain
(`SortedChain`, `ChainData`); `WriteIs`, that data replaced within an interval, or joined with what was
before and after it, leaves the bytes of the map rewritten.  TLC checked `CacheInv` on the
instance of `memory`.

`AccessPortProofs`, for any set of APs, page size, memory, menus of requests and other calls, and any
bounds on the queue and on failures (`AccessPortAssumption`: requests lie within the memory,
and AP 0, which RTTView opens, exists):

- `TypesCorrect`: `TypeOK`.
- `AccessesRight`: `AccessRight`; an access that meets another AP, bank, address or size has a
  register to blame that is known to be lost, or that an access not executed left behind
  before its error was raised.
- `MemoryRight`: `MemoryAsAsked`; between calls, with the queue empty, memory holds what was
  written, and no read brought anything else.
- `RequestsTransferred`: the bytes, halfwords and words of a request, cut at the pages,
  transfer each of its bytes once, upwards, with CSW and TAR set by the request itself.

`IInv` has three parts.  `AccessRight` speaks of executed accesses, but they are decided on when they
are queued, so `Copies` looks ahead: the value a register will have at the k-th access of the
queue is what the latest access before it sets (`Latest`), or, if none does, what it has now
(`Untouched`).  `dpSelect` and `csw` are that value at the end of the queue (`SelectKnown`,
`CswKnown`), and each queued access finds what it needs (`QueueReady`); so will each transfer of
the call in progress (`TodoReady`).  Both hold while an error is pending too,
with the registers in `dropped` excepted (`HeadLeaves`).  A register whose write a failure dropped is in `dropped`
until an exception says so, and in `lost` from then on, if the copy is not forgotten with it.
`Control` has the shape of calls and the order of power and accesses: none is queued for an AP
before the target is powered.  `MemoryInv` says that a byte differs from what is wanted only if
the queue or the call still writes it or a failure spoilt it (`BytesRight`), and that the
read in progress has its first bytes, and finds the others in order, behind the reads that were
queued before it (`ReadRight`, `Rest`).  TLC checked `IInv` on the instance of run `access`
first.  An opening begins with what an earlier session left in the queue; that `connect`
empties it, and that no transfer is in it, is part of the invariant.

`CortexMProofs`, for any reset types, register lists and sessions, any bound on runs, and any
number of failing accesses and resets from outside (`CortexMAssumption`):

- `TypeCorrect`: `TypeOK`.
- `DebugStateIsRestored`: `DebugStateRestored`; what was changed is restored, or an error is
  owed, and no operation that awaits an answer returns while one is.
- `ResetHaltDoesStop`: `ResetHaltStops`, of the operations that caught no error.
- `MaskIsProtected`: `MaskProtocol`, an action property.
- `CacheIsCoherent`: `CacheCoherent`, between operations a value that the cache would still
  use is the core's.
- `RegistersAreWritten`: `OthersWritten`, if no list of `WriteLists` names a part of CFBP or XPSR
  after the whole register (`PartsFirst`).

`todo`, the list of the steps that are left, is the operation's program counter, and `IInv`
says of each operation which lists it may have and what is true at each (`Where`, one
conjunct per operation).  The core, which moves between any two steps, must not disturb it.
For `step` it is the mask: with `Mask1` and `Unmasking` the core has stopped, or something
failed.  For `reset_and_halt` it is the vector catch: from the moment the reset is done until
the core is found, a caught core is held in reset or stands at reset values (`Rested`),
whatever state the operation reads meanwhile.  `MaskQuiet`, `StepBit` and `Asked` say what no
other operation leaves behind.  `Program`'s lists are taken apart by a few
lemmas (`Wraps`, `Begins`, `IsList`); `Dispatch` and `Advance` give, for the first step of a list,
the one action that takes it and the list that it leaves.

`CacheInv` adds what holds of the cache in the middle of an operation, where it is not
coherent in the plain sense.  A value is right if the core has it or if it is on its way
(`Pending`, the fields of the transfers that a write has left); what is on its way is what was
entered, and no name of its group is in the cache (`Entered`), because a part of CFBP or XPSR is
transferred with the rest of its group.  A run makes the cache's token an old one before the core
is let go (`Counted`), except in `step`, which counts when the core has stopped (`SteppedOff`),
and in a `disconnect` that read a core that was not halted: what a halted core would have had
in the cache is then excused already (`Leaving`).

`WriteInv` follows a write through its transfers: those done have their value and
the fields not named their old one (`Arrived`); a part still to be transferred finds the current value of its
group in `loc.merge`, or the group is still to be read (`MergeReady`); every read comes
before every transfer, and no part after its whole (`Ordered`).  The last is the hypothesis
`PartsFirst`, and the proof does not go without it: of the list PRIMASK, CFBP, CONTROL the code
merges CONTROL into the CFBP it read at the beginning, and PRIMASK gets its old value
back (`cortex_m.py:1151`).  No caller in the repository writes such a list: they write one
register (`OneName`), or, in an emulated reset, CFBP and XPSR as a whole.

`SequenceLemmas` proves what the modules need of sequences, and `InductionInSet`: the
library's induction over the naturals with its parameter, an operator, replaced by a set, which the
provers can instantiate.  With it, `FlattenIs`, `FlattenIn`, `FlattenSingles`, `FlattenRange` and
`FlattenRelated` say what a flattened sequence of sequences is made of, and in which order.

## 6. What is only model-checked

Every invariant, action property and refinement of the passing runs is proved.  What is left to TLC:

- Liveness under fairness is beyond the proof system, and so is ENABLED: `CallsReturn`,
  `Delivery`, `LockIsReleasedUnlessNested`, `Returns`, `ServerEnds`, `MethodsReturn`.
- `OthersWritten` for lists that `PartsFirst` excludes is false of the code, and no run has such a list.

## 7. Findings

1. `dap_assert`: `get_result` never looks at the error of an aborted transfer and runs
   into its assertion (`dap_access_cmsis_dap.py:132`).
2. `dap_flush`: after a USB error the responses under way are left unread, and
   flush is no barrier any more (`dap_access_cmsis_dap.py:1016`).
3. `xlink_releases`: `write_mem` calls a locked method while it holds the lock
   (`xlink.py:134`); a click on Send stops the GUI and the GDB server.
4. `core_write`: a write of one part of CFBP or XPSR, or the first part of a list, is read for
   and never written (`cortex_m.py:1135`), against the docstring (`cortex_m.py:1108`).

## 8. What is not modelled, and why

- In the pipeline: a response that arrives after its read timed
  out (it is in `ProbeLink`); a callback called twice (it would return the same result); the contents of words (values, match masks, wait times, match retries).
- In the rings: a target that is reset while it is polled; descriptors with absurd
  lengths; the decoding and drawing of what was received.
- In the session: `daplink_detect`; the J-Link, Keil and AGDI branches of opening; two XLinks, and so
  two locks, on one CMSIS-DAP probe, which happens when the server of a failed opening
  survives; the bytes of GDB packets and OpenOCD's replies (a read of more than 128
  words that is not a multiple of 128 returns too many, `openocd.py`).
- In core control: `init` with the detection of the core's type and of the FPU, and the
  target description; semihosting.
- In the access ports: the search for APs and ROM tables.  In the USB interfaces: hidapi, and
  the enumeration of devices.
- The AGDI receiver and its proxy, a sketch by their own comments
  (`agdi_receiver.py:48`, `proxy.cpp:50`): nothing stops the receiver's thread, because `close` calls a method
  that it does not have.
- Memory regions of type flash: their constructor imports `pyocd.flash`, which is not in the
  repository; the flash region of the model has the attributes of the class.
- Not at all: ELF, DWARF and SVD parsing, probe enumeration, wrappers of vendor libraries
  (`jlink.py`, `keil.py`), drawing, trace components, utilities, and pyOCD's session and option classes, which RTTView
  does not use.

## 9. Plan

What is left, in this order:

1. Models: framing of GDB packets; `daplink_detect`; two locks on one probe.
2. Proofs about what those models add: every invariant, action property and refinement that a
   passing run checks today is a theorem.
