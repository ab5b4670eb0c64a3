----------------------------- MODULE AccessPort ----------------------------
(***************************************************************************)
(* The debug port (dap.py), its MEM-APs (ap.py) and the probe that keeps a *)
(* copy of SELECT (cmsis_dap_probe.py), over the hardware's registers.     *)
(* Accesses are deferred: they are queued, the target executes them later, *)
(* and an error is raised in whichever call comes next (the pipeline that  *)
(* does so is DapPipeline.tla).  What can go wrong is that an error drops  *)
(* a queued write of SELECT or CSW whose value the host remembers.         *)
(*                                                                         *)
(* A call is a list of steps, todo; a step is a register access that is    *)
(* queued, a wait for what is queued, or a command of the probe.           *)
(***************************************************************************)
EXTENDS Integers, FiniteSets, Functions, MemoryInterface

CONSTANTS
  APs,          \* the MEM-APs of the target
  Registered,   \* those of them in aps of the DebugPort (RTTView puts none there)
  Page,         \* auto_increment_page_size
  Memory,       \* the addresses of bytes
  Menus,        \* bound: what the callers of a session do: their requests (ap, addr,
                \* length and write of each), their other calls and the number of calls
  MaxQueue,     \* bound: accesses queued and not executed
  MaxFailures   \* bound: accesses that fail

ASSUME AccessPortAssumption ==
  /\ Registered \subseteq APs /\ APs \subseteq Nat /\ Memory \subseteq Nat
  /\ 0 \in APs                            \* the AHB_AP that RTTView opens
  /\ Page \in Nat \ {0} /\ Page % 4 = 0
  /\ MaxQueue \in Nat \ {0} /\ MaxFailures \in Nat
  /\ \A menu \in Menus : \A r \in menu.requests :
                         /\ r.ap \in APs /\ r.addr \in Nat /\ r.length \in Nat \ {0}
                         /\ r.write \in BOOLEAN
                         /\ (r.addr..(r.addr + r.length - 1)) \subseteq Memory

VARIABLES
  menu,      \* one of Menus
  phase,     \* closed, opening or open
  todo,      \* the steps left of the call in progress
  dpSelect,  \* _dp_select of the probe: <<AP, bank>>, or Unknown
  csw,       \* _csw of each MEM-AP: the size it selects, or Unset
  queue,     \* accesses the target has not executed
  failure,   \* an error that no call has raised yet
  hw,        \* select, csw, tar, sticky, power: the target's registers
  mem,       \* the target's memory
  wanted,    \* history: what the callers wrote
  spoilt,    \* history: bytes of writes that failed or went astray
  dropped,   \* history: registers left behind by accesses that were not executed,
             \* of an error that no call has raised yet
  lost,      \* history: registers that are not what the host remembers
  reading,   \* history: the read in progress and the bytes it got
  wrong,     \* history: what an access found different from what it was for
  failures, calls

host == <<menu, phase, todo, dpSelect, csw>>
target == <<hw, mem>>
history == <<wanted, spoilt, dropped, lost, reading, wrong>>
counters == <<failures, calls>>
vars == <<host, queue, failure, target, history, counters>>

Unknown == <<-1, 0>>
Unset == 0
NoError == "none"
Select == <<"select", 0>>
NoReading == [ap |-> 0, addr |-> 0, length |-> 0, skip |-> 0, got |-> << >>, sound |-> TRUE]
Before(ap, a) == 50 * (2 * ap + 1) + a   \* the byte at an address: its own, before
Stamp(ap, a) == 50 * (2 * ap + 2) + a    \* and after callers write it

-----------------------------------------------------------------------------
(* Steps of calls.  guarded: an exception of the step resets _csw.         *)
Step(reg, ap, addr, size, write, guarded) ==
  [reg |-> reg, ap |-> ap, addr |-> addr, size |-> size, write |-> write, guarded |-> guarded]

Await(ap, guarded) == Step("await", ap, 0, 0, FALSE, guarded)
Plain(reg) == Step(reg, 0, 0, 0, FALSE, FALSE)
Idr(ap) == Step("idr", ap, 0, 0, FALSE, FALSE)

\* _write_memory and _read_memory.
Single(ap, addr, size, write) ==
  <<Step("csw", ap, 0, size, TRUE, TRUE), Step("tar", ap, addr, 0, TRUE, TRUE),
    Step("drw", ap, addr, size, write, TRUE)>>
  \o (IF write THEN << >> ELSE <<Await(ap, TRUE)>>)

\* _write_block32 and _read_block32: CSW and TAR are written outside the try,
\* so that an exception of the write of TAR leaves _csw alone.
Transaction(ap, piece, write) ==
  <<Step("csw", ap, 0, 4, TRUE, TRUE), Step("tar", ap, piece.addr, 0, TRUE, FALSE)>>
  \o [k \in 1..piece.count |-> Step("drw", ap, piece.addr + 4 * (k - 1), 4, write, TRUE)]
  \o (IF write THEN << >> ELSE <<Await(ap, TRUE)>>)

Block(ap, piece, write) ==
  IF piece.size < 4 THEN Single(ap, piece.addr, piece.size, write)
  ELSE FlattenSeq([k \in DOMAIN Transactions(piece.addr, piece.count, Page) |->
                     Transaction(ap, Transactions(piece.addr, piece.count, Page)[k], write)])

\* A single access when the request is one, else the block of its bytes.
StepsOf(r) ==
  LET pieces == Pieces(r.addr, r.length)
  IN FlattenSeq([k \in DOMAIN pieces |-> Block(r.ap, pieces[k], r.write)])

\* DebugPort.init, power_up_debug and AHB_AP.init, as RTTView opens a link.
Opening ==
  <<Plain("connect"), Plain("idcode"), Plain("idcode2"), Plain("clear"),
    Step("select0", 0, 0, 0, TRUE, FALSE), Plain("power"), Plain("poll"),
    Step("select0", 0, 0, 0, TRUE, FALSE), Idr(0), Await(0, FALSE)>>

RangeOf(e) == IF e.reg = "drw" THEN e.addr..(e.addr + e.size - 1) ELSE {}
WrittenBy(steps) ==
  UNION {{<<steps[k].ap, a>> : a \in RangeOf(steps[k])} : k \in {i \in DOMAIN steps : steps[i].write}}

-----------------------------------------------------------------------------
Init ==
  /\ menu \in Menus
  /\ phase = "closed" /\ todo = << >>
  /\ dpSelect = Unknown /\ csw = [a \in APs |-> Unset]
  /\ queue = << >> /\ failure = NoError
  /\ hw = [select |-> Unknown, csw |-> [a \in APs |-> Unset], tar |-> [a \in APs |-> 0],
           sticky |-> FALSE, power |-> "off"]
  /\ mem = [a \in APs |-> [b \in Memory |-> Before(a, b)]] /\ wanted = mem
  /\ spoilt = {} /\ dropped = {} /\ lost = {} /\ reading = NoReading
  /\ wrong = {} /\ failures = 0 /\ calls = 0

Idle == todo = << >>
Return == todo' = Tail(todo)
Step1 == Head(todo)
At(reg) == todo # << >> /\ Head(todo).reg = reg

\* What callers start, one call after the other.
Call(steps) ==
  /\ todo = << >> /\ todo' = steps
  /\ calls < menu.calls /\ calls' = calls + 1

Open ==
  /\ phase = "closed"
  /\ phase' = "opening" /\ Call(Opening)
  /\ csw' = [a \in APs |-> Unset]          \* the AccessPorts are new objects
  /\ UNCHANGED <<menu, dpSelect, queue, failure, target, history, failures>>

IsRead(e) == e.reg = "drw" /\ ~e.write   \* a deferred one of an earlier call

Access(r) ==
  /\ phase = "open" /\ Call(StepsOf(r))
  /\ LET range == r.addr..(r.addr + r.length - 1) IN
       IF r.write
         THEN /\ wanted' = [wanted EXCEPT ![r.ap] =
                              [b \in Memory |-> IF b \in range THEN Stamp(r.ap, b) ELSE @[b]]]
              /\ spoilt' = spoilt \ {<<r.ap, b>> : b \in range}
              /\ UNCHANGED reading
         ELSE /\ reading' = [NoReading EXCEPT !.ap = r.ap, !.addr = r.addr, !.length = r.length,
                                               !.skip = Cardinality({k \in DOMAIN queue : IsRead(queue[k])})]
              /\ UNCHANGED <<wanted, spoilt>>
  /\ UNCHANGED <<menu, phase, dpSelect, csw, queue, failure, target, dropped, lost, wrong, failures>>

\* read_reg(AP_IDR), a read with now=False and the call of its callback,
\* DebugPort.flush, set_clock and reset.
OtherCall(name, steps) ==
  /\ name \in menu.others
  /\ phase = "open" /\ Call(steps)
  /\ UNCHANGED <<menu, phase, dpSelect, csw, queue, failure, target, history, failures>>

ReadDeferred(r) == OtherCall("deferred", Front(Single(r.ap, r.addr, 1, FALSE)))

\* DebugPort.reset tells the APs it knows, and the probe forgets SELECT, before
\* anything is sent.
Reset ==
  /\ "reset" \in menu.others
  /\ phase = "open" /\ Call(<<Plain("reset")>>)
  /\ csw' = [a \in APs |-> IF a \in Registered THEN Unset ELSE csw[a]]
  /\ dpSelect' = Unknown
  /\ UNCHANGED <<menu, phase, queue, failure, target, history, failures>>

-----------------------------------------------------------------------------
(* The probe: accesses are preceded by a write of SELECT when it changes.  *)
BankOf(e) == IF e.reg = "idr" THEN 15 ELSE 0
IsAccess(e) == e.reg \in {"csw", "tar", "drw", "idr"}
Enqueue(e) == Len(queue) < MaxQueue /\ queue' = Append(queue, e)

MustSelect(e) == dpSelect # <<e.ap, BankOf(e)>>

IssueSelect ==
  /\ todo # << >> /\ IsAccess(Step1) /\ MustSelect(Step1)
  /\ Step1.reg = "csw" => csw[Step1.ap] # Step1.size
  /\ dpSelect' = <<Step1.ap, BankOf(Step1)>>
  /\ Enqueue(Step("select", Step1.ap, BankOf(Step1), 0, TRUE, FALSE))
  /\ UNCHANGED <<menu, phase, todo, csw, failure, target, history, counters>>

\* MEM_AP.write_reg does not write CSW when it has the value already.
IssueCswCached ==
  /\ At("csw") /\ csw[Step1.ap] = Step1.size
  /\ Return
  /\ UNCHANGED <<menu, phase, dpSelect, csw, queue, failure, target, history, counters>>

Issue ==
  /\ todo # << >> /\ IsAccess(Step1) /\ ~MustSelect(Step1)
  /\ Step1.reg = "csw" => csw[Step1.ap] # Step1.size
  /\ csw' = IF Step1.reg = "csw" THEN [csw EXCEPT ![Step1.ap] = Step1.size] ELSE csw
  /\ Enqueue(Step1)
  /\ Return
  /\ UNCHANGED <<menu, phase, dpSelect, failure, target, history, counters>>

\* A read's result, or a flush: everything queued was executed.
Completed ==
  /\ At("await") \/ At("flush")
  /\ queue = << >> /\ failure = NoError
  /\ Return
  /\ IF Tail(todo) = << >>
       THEN /\ reading' = NoReading
            /\ wrong' = IF /\ reading.length > 0 /\ reading.sound
                           /\ ~(/\ Len(reading.got) = reading.length
                                /\ \A k \in 1..reading.length :
                                     LET a == reading.addr + k - 1
                                     IN <<reading.ap, a>> \in spoilt
                                        \/ reading.got[k] = wanted[reading.ap][a])
                          THEN wrong \cup {<<"answer", 0>>} ELSE wrong
            /\ phase' = "open"
       ELSE UNCHANGED <<reading, wrong, phase>>
  /\ UNCHANGED <<menu, dpSelect, csw, queue, failure, target, wanted, spoilt, dropped, lost, counters>>

\* The callback of a deferred read: its response is there before those of
\* later accesses.
ResultThere ==
  /\ At("result") /\ failure = NoError
  /\ Return
  /\ UNCHANGED <<menu, phase, dpSelect, csw, queue, failure, target, history, counters>>

\* Commands of the probe: DAPAccess flushes and then sends them.
ProbeCommand ==
  /\ At("clock") \/ At("reset") \/ At("close")
  /\ queue = << >> /\ failure = NoError
  /\ Return
  /\ phase' = IF At("close") THEN "closed" ELSE phase
  /\ IF At("reset")
       THEN \E a \in SUBSET APs :   \* the APs whose CSW the reset changes
              /\ hw' = [hw EXCEPT !.csw = [b \in APs |-> IF b \in a THEN Unset ELSE @[b]]]
              /\ lost' = lost \cup {<<"csw", b>> : b \in a \ Registered}
       ELSE UNCHANGED <<hw, lost>>
  /\ UNCHANGED <<menu, dpSelect, csw, queue, failure, mem, wanted, spoilt, dropped, reading, wrong,
                 counters>>

\* DebugPort.init: connect, and the IDCODE is read, again when that fails.
Connect ==
  /\ At("connect")
  /\ dpSelect' = Unknown /\ queue' = << >>
  /\ Return
  /\ UNCHANGED <<menu, phase, csw, failure, target, history, counters>>

ReadIdCode ==
  /\ At("idcode") \/ At("idcode2")
  /\ todo' = IF At("idcode") THEN Tail(Tail(todo)) ELSE Tail(todo)
  /\ UNCHANGED <<menu, phase, dpSelect, csw, queue, failure, target, history, counters>>

ReadIdCodeFails ==
  /\ At("idcode") \/ At("idcode2")
  /\ IF At("idcode")
       THEN failures < MaxFailures /\ failures' = failures + 1 /\ Return /\ UNCHANGED phase
       ELSE todo' = << >> /\ phase' = "closed" /\ UNCHANGED failures
  /\ UNCHANGED <<menu, calls, dpSelect, csw, queue, failure, target, history>>

DpWrite ==
  /\ At("clear") \/ At("select0") \/ At("power")
  /\ IF At("select0") /\ dpSelect = <<0, 0>> THEN UNCHANGED <<queue, dpSelect>>
     ELSE /\ Enqueue(IF At("select0") THEN [Step1 EXCEPT !.reg = "select"] ELSE Step1)
          /\ dpSelect' = IF At("select0") THEN <<0, 0>> ELSE dpSelect
  /\ Return
  /\ UNCHANGED <<menu, phase, csw, failure, target, history, counters>>

\* power_up_debug reads CTRL/STAT until it acknowledges the power-up.
PollDone == queue = << >> /\ failure = NoError /\ hw.power = "on"

Poll ==
  /\ At("poll") /\ PollDone
  /\ Return
  /\ UNCHANGED <<menu, phase, dpSelect, csw, queue, failure, target, history, counters>>
-----------------------------------------------------------------------------
(* An error is raised.  Any step that reaches the link may raise what went *)
(* wrong before; one that waits must.                                      *)
\* Which of the caches a raising step resets: the probe's handlers forget
\* SELECT, but those of flush, set_clock and reset do not.
ForgetsSelect == Step1.reg \notin {"clock", "reset", "close", "flush"}

\* (A wrong variant of AfterError: the probe keeps its copy of SELECT.)
AfterErrorSelectKept ==
  /\ dpSelect' = dpSelect
  /\ csw' = IF Step1.guarded THEN [csw EXCEPT ![Step1.ap] = Unset] ELSE csw

AfterError ==
  /\ dpSelect' = IF ForgetsSelect THEN Unknown ELSE dpSelect
  /\ csw' = IF Step1.guarded THEN [csw EXCEPT ![Step1.ap] = Unset] ELSE csw

\* _handle_error clears the sticky errors after a fault and aborts the
\* transfer after a time-out; set_clock and reset are not handled by it.
Handled ==
  IF Step1.reg \in {"clock", "reset", "close"} THEN << >>
  ELSE IF failure = "fault" THEN <<Plain("clear")>>
  ELSE IF failure = "timeout" THEN <<Plain("abort")>> ELSE << >>

\* The register that an access not executed leaves behind: TAR of a transfer.
Missing(e) ==
  IF e.reg = "select" THEN Select ELSE IF e.reg = "drw" THEN <<"tar", e.ap>> ELSE <<e.reg, e.ap>>

Raise ==
  /\ todo # << >> /\ failure # NoError
  /\ ~At("connect") /\ ~(At("csw") /\ csw[Step1.ap] = Step1.size)
  /\ AfterError
  /\ queue' = Handled /\ failure' = NoError
  /\ todo' = << >>
  /\ phase' = IF phase = "opening" \/ At("close") THEN "closed" ELSE phase
  /\ spoilt' = spoilt \cup WrittenBy(todo) \cup WrittenBy(queue)
  /\ LET gone == dropped \cup {Missing(queue[k]) : k \in DOMAIN queue}
         told == (IF ForgetsSelect THEN {Select} ELSE {})
                   \cup (IF Step1.guarded THEN {<<"csw", Step1.ap>>} ELSE {})
     IN lost' = lost \cup (gone \ told)
  /\ dropped' = {} /\ reading' = NoReading
  /\ UNCHANGED <<menu, target, wanted, wrong, counters>>

-----------------------------------------------------------------------------
(* The target.                                                             *)
\* What an access finds other than what it is for.
Amiss(e) ==
  (IF IsAccess(e) /\ hw.select # <<e.ap, BankOf(e)>> THEN {Select} ELSE {})
    \cup (IF e.reg = "drw" /\ hw.csw[e.ap] # e.size THEN {<<"csw", e.ap>>} ELSE {})
    \cup (IF e.reg = "drw" /\ hw.tar[e.ap] # e.addr THEN {<<"tar", e.ap>>} ELSE {})
    \cup (IF IsAccess(e) /\ hw.power # "on" THEN {<<"power", 0>>} ELSE {})

\* Data is placed in the byte lanes of its address; a transfer is of the bytes
\* CSW and TAR say, and TAR is incremented within its page.
Lane(e, l) ==
  IF \E a \in RangeOf(e) : a % 4 = l
    THEN Stamp(e.ap, CHOOSE a \in RangeOf(e) : a % 4 = l) ELSE 0
Hit(ap) == {b \in Memory : /\ hw.csw[ap] # Unset
                           /\ b \div hw.csw[ap] = hw.tar[ap] \div hw.csw[ap]}
Incremented(addr, size) ==
  IF size = Unset THEN addr ELSE Page * (addr \div Page) + ((addr + size) % Page)

Bank0 == hw.select[2] = 0 /\ hw.select[1] \in APs

AfterExecution(e) ==
  LET ap == hw.select[1] IN
  CASE e.reg = "select" -> [hw EXCEPT !.select = <<e.ap, e.addr>>]
    [] e.reg = "clear"  -> [hw EXCEPT !.sticky = FALSE]
    [] e.reg = "power"  -> [hw EXCEPT !.power = IF @ = "on" THEN "on" ELSE "asked"]
    [] e.reg = "csw" /\ Bank0 -> [hw EXCEPT !.csw[ap] = e.size]
    [] e.reg = "tar" /\ Bank0 -> [hw EXCEPT !.tar[ap] = e.addr]
    [] e.reg = "drw" /\ Bank0 -> [hw EXCEPT !.tar[ap] = Incremented(@, hw.csw[ap])]
    [] OTHER -> hw

Execute ==
  /\ queue # << >>
  /\ LET e    == Head(queue)
         ap   == hw.select[1]
         hits == IF e.reg = "drw" /\ Bank0 THEN Hit(ap) ELSE {}
         amiss == Amiss(e)
         excused == amiss \cap (lost \cup dropped) # {}
     IN
     /\ ~hw.sticky \/ e.reg = "clear"
     /\ hw' = AfterExecution(e)
     /\ mem' = IF e.write /\ hits # {}
                 THEN [mem EXCEPT ![ap] = [b \in Memory |-> IF b \in hits THEN Lane(e, b % 4) ELSE @[b]]]
                 ELSE mem
     /\ spoilt' = IF e.write /\ amiss # {} /\ excused
                    THEN spoilt \cup {<<ap, b>> : b \in hits} \cup {<<e.ap, b>> : b \in RangeOf(e)}
                    ELSE spoilt
     /\ reading' = IF ~IsRead(e) \/ reading.length = 0 THEN reading
                   ELSE IF reading.skip > 0 THEN [reading EXCEPT !.skip = @ - 1]
                   ELSE   [reading EXCEPT
                             !.sound = @ /\ (amiss = {} \/ ~excused),
                             !.got = @ \o [k \in 1..e.size |->
                                             LET a == 4 * (hw.tar[e.ap] \div 4) + ((e.addr + k - 1) % 4)
                                             IN IF a \in Memory THEN mem[e.ap][a] ELSE 0]]
     /\ wrong' = wrong \cup (amiss \ (lost \cup dropped))
     /\ lost' = IF e.reg = "select" THEN lost \ {Select}
                ELSE IF e.reg \in {"csw", "tar"}
                  THEN IF amiss = {} THEN lost \ {<<e.reg, e.ap>>}
                       ELSE lost \cup {<<e.reg, e.ap>>, <<e.reg, ap>>}
                ELSE IF e.reg = "drw" /\ amiss # {} THEN lost \cup {<<"tar", e.ap>>, <<"tar", ap>>}
                ELSE lost
     /\ dropped' = IF e.reg = "select" THEN dropped \ {Select} ELSE dropped \ {<<e.reg, e.ap>>}
  /\ queue' = Tail(queue)
  /\ UNCHANGED <<host, failure, wanted, counters>>

Dropped(e) ==
  /\ dropped' = dropped \cup {Missing(e)}
  /\ spoilt' = spoilt \cup WrittenBy(<<e>>)
  /\ queue' = Tail(queue)

\* An access fails: a transfer of memory with a fault, which is sticky, any
\* with a time-out or for lack of an acknowledge.
Fail ==
  /\ queue # << >> /\ failure = NoError
  /\ failures < MaxFailures /\ failures' = failures + 1
  /\ ~hw.sticky
  /\ failure' \in {"timeout", "error"} \cup (IF Head(queue).reg = "drw" THEN {"fault"} ELSE {})
  /\ hw' = [hw EXCEPT !.sticky = failure' = "fault"]
  /\ Dropped(Head(queue))
  /\ UNCHANGED <<calls, host, mem, wanted, lost, reading, wrong>>

\* With a sticky error every access faults but the write that clears it.
Refuse ==
  /\ queue # << >> /\ hw.sticky /\ Head(queue).reg # "clear"
  /\ failure' = IF failure = NoError THEN "fault" ELSE failure
  /\ Dropped(Head(queue))
  /\ UNCHANGED <<host, target, wanted, lost, reading, wrong, counters>>

\* After a failure the rest of its packet is not executed; packets that follow
\* it may be.
SkipRest ==
  /\ queue # << >> /\ failure # NoError /\ ~hw.sticky
  /\ Dropped(Head(queue))
  /\ UNCHANGED <<host, failure, target, wanted, lost, reading, wrong, counters>>

PowersUp ==
  /\ hw.power = "asked"
  /\ hw' = [hw EXCEPT !.power = "on"]
  /\ UNCHANGED <<host, queue, failure, mem, history, counters>>

\* The debugger the probe is shared with uses the registers for itself, and
\* RTTView has the probe forget SELECT before each of its own accesses.
ForeignAccess ==
  /\ "shared" \in menu.others /\ phase = "open"
  /\ \E a \in APs, bank \in {0, 15} :
       hw' = [hw EXCEPT !.select = <<a, bank>>, !.csw[a] = 2, !.tar[a] = 0]
  /\ lost' = lost \cup {Select} \cup ({"csw", "tar"} \X APs)
  /\ UNCHANGED <<host, queue, failure, mem, wanted, spoilt, dropped, reading, wrong, counters>>

InvalidateCache ==
  /\ "shared" \in menu.others /\ phase = "open" /\ Idle /\ dpSelect # Unknown
  /\ dpSelect' = Unknown
  /\ UNCHANGED <<menu, phase, todo, csw, queue, failure, target, history, counters>>
-----------------------------------------------------------------------------
Calls ==
  \/ Open \/ Reset \/ InvalidateCache
  \/ \E r \in menu.requests : Access(r) \/ ReadDeferred(r)
  \/ \E a \in APs : \/ OtherCall("idr", <<Idr(a), Await(a, FALSE)>>)
                     \/ OtherCall("deferred", <<Step("result", a, 0, 0, FALSE, TRUE)>>)
  \/ OtherCall("flush", <<Plain("flush")>>)
  \/ OtherCall("clock", <<Plain("clock")>>)
  \/ OtherCall("close", <<Plain("close")>>)

Steps ==
  \/ IssueSelect \/ IssueCswCached \/ Issue \/ Completed \/ ResultThere \/ ProbeCommand
  \/ Connect \/ ReadIdCode \/ ReadIdCodeFails \/ DpWrite \/ Poll \/ Raise

Next ==
  \/ Calls \/ Steps
  \/ Execute \/ Fail \/ Refuse \/ SkipRest \/ PowersUp \/ ForeignAccess

Spec == Init /\ [][Next]_vars

-----------------------------------------------------------------------------
\* The types of the variables.
TypeOK ==
  /\ phase \in {"closed", "opening", "open"}
  /\ dpSelect \in (APs \X {0, 15}) \cup {Unknown} /\ csw \in [APs -> {Unset, 1, 2, 4}]
  /\ Len(queue) <= MaxQueue /\ failure \in {NoError, "fault", "timeout", "error"}
  /\ hw.select \in (APs \X {0, 15}) \cup {Unknown} /\ hw.csw \in [APs -> {Unset, 1, 2, 4}]
  /\ hw.power \in {"off", "asked", "on"} /\ hw.sticky \in BOOLEAN
  /\ spoilt \subseteq APs \X Memory /\ failures \in 0..MaxFailures
  /\ \A a \in APs : \A b \in Memory : wanted[a][b] \in {Before(a, b), Stamp(a, b)}

\* Every access is executed with the AP, the bank, the address and the transfer
\* size its caller meant, however the caches of SELECT and CSW saved writes of
\* them and whatever errors were raised in between and to whom, those of
\* packets under way when an error occurs included.  A miss may only concern
\*  - a register that an access not executed left behind (a dropped write of
\*    SELECT, CSW or TAR, or a dropped transfer, which would have advanced TAR),
\*    while no call has raised the error yet: later packets find it so; or
\*  - a register known to be lost: the error was raised where the code resets no
\*    copy of it (in a flush, in the write of TAR of a block, in an access to
\*    another AP), a reset changed the CSW of an AP the DebugPort does not know,
\*    an access that missed wrote it, or another debugger did.
AccessRight == wrong \subseteq {<<"answer", 0>>}

\* What callers wrote is what the target holds, and what they read is what it
\* held, once a call has returned and all is executed: of every block, however
\* its ends are aligned and wherever pages divide it, each byte is transferred
\* once, in its lane.  Not claimed of bytes whose write failed, nor of those
\* that a write hit, or a read returned, which missed as AccessRight excuses.
MemoryAsAsked ==
  /\ <<"answer", 0>> \notin wrong
  /\ Idle /\ queue = << >> /\ failure = NoError =>
       \A a \in APs, b \in Memory : <<a, b>> \notin spoilt => mem[a][b] = wanted[a][b]
=============================================================================
