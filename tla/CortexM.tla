------------------------------ MODULE CortexM ------------------------------
(***************************************************************************)
(* Run control of a Cortex-M core (cortex_m.py) and the register cache     *)
(* over it (cache.py, context.py), against the core they control.          *)
(*                                                                         *)
(* An operation of the host is a list of steps, each one access to the     *)
(* debug registers or one change of the host's own state; between any two  *)
(* of them the core may execute, sleep, lock up, hit a breakpoint or be    *)
(* reset.  A step that does not get its answer raises TransferError out of *)
(* the operation, except where reset catches it.                           *)
(*                                                                         *)
(* The probe defers its transfers (cmsis_dap_probe.py:139): a write that   *)
(* no flush and no read follows is posted, and when it fails the operation *)
(* goes on and may return.  The error is then owed to the next access that *)
(* awaits an answer, in whatever operation.  An access stands where the    *)
(* core sees it; that the queue keeps their order is DapPipeline.tla's.    *)
(* One that raises is taken not to have been performed.                    *)
(*                                                                         *)
(* Accesses are slow compared to the core, as cortex_m.py says of S_REGRDY *)
(* (line 1041): the registers transfer at once when the core is halted.    *)
(***************************************************************************)
EXTENDS Naturals, CoreRegisters

CONSTANTS
  ResetTypes,         \* the reset types the operations are called with
  SupportsVectreset,  \* _supports_vectreset
  ReadLists,          \* the register lists that are read
  WriteLists,         \* and those that are written
  Menus,              \* bound: the operations of a session are from one of these sets
  MaxToken,           \* bound: the run token
  MaxTroubles         \* bound: accesses that raise TransferError, and resets of the
                      \* core that the host did not ask for

\* The operations a session calls.
Ops ==
  {[name |-> "halt"], [name |-> "resume"],
   [name |-> "set_vector_catch", on |-> TRUE], [name |-> "set_vector_catch", on |-> FALSE]}
  \cup {[name |-> "step", disable |-> d] : d \in BOOLEAN}
  \cup {[name |-> "disconnect", resume |-> r] : r \in BOOLEAN}
  \cup {[name |-> "reset", type |-> t] : t \in ResetTypes}
  \cup {[name |-> "reset_and_halt", type |-> t] : t \in ResetTypes}
  \cup {[name |-> "read", list |-> l] : l \in ReadLists}
  \cup {[name |-> "write", list |-> l, bit |-> b] : l \in WriteLists, b \in 0..1}

ASSUME CortexMAssumption ==
  /\ ResetTypes \subseteq {"SW", "HW", "SW_SYSRESETREQ", "SW_VECTRESET", "SW_EMULATED"}
  /\ SupportsVectreset \in BOOLEAN
  /\ ReadLists \subseteq Seq(CORE_REGISTER) /\ WriteLists \subseteq Seq(CORE_REGISTER)
  /\ \A m \in Menus : m \subseteq Ops
  /\ MaxToken \in Nat /\ MaxTroubles \in Nat

VARIABLES
  core,     \* what the core does: running, halted, sleeping, lockup or held in reset
  dhcsr,    \* the control bits of DHCSR: C_DEBUGEN, C_HALT, C_STEP and C_MASKINTS
  sticky,   \* S_RESET_ST and S_RETIRE_ST, which reading DHCSR clears
  vc,       \* DEMCR.VC_CORERESET
  regs,     \* the core's registers
  request,  \* a reset requested in AIRCR: none, asked, or overlooked by the host
  menu,     \* the operations of this session
  op,       \* the running operation of the host, or None
  todo,     \* the steps it has still to do
  loc,      \* its locals: the state read, the mask and the values to merge into
  token,    \* _run_token of the core
  cache,    \* _cache of the RegisterCache
  ctoken,   \* its _run_token
  owed,     \* whether a posted write failed whose error was not raised yet
  past,     \* history: what the operation found, and what became of it
  excused,  \* history: the cached names that the code lets go stale
  faults, outside

hardware == <<core, dhcsr, sticky, vc, regs, request>>
host == <<menu, op, todo, loc, token, cache, ctoken, owed>>
history == <<past, excused, faults, outside>>
vars == <<core, dhcsr, sticky, vc, regs, request, menu, op, todo, loc, token, cache, ctoken,
          owed, past, excused, faults, outside>>

None == [name |-> "none"]
NoLocals == [state |-> "unread", vc |-> FALSE, merge |-> [field \in {} |-> 0]]
NoPast == [regs |-> [field \in {} |-> 0], mask |-> FALSE, vc |-> FALSE,
           raised |-> FALSE, disturbed |-> FALSE, caught |-> FALSE]

ResetValues(thumb) == [field \in Fields |-> IF field = "epsr" THEN thumb ELSE 0]

-----------------------------------------------------------------------------
\* The steps of the operations.
Dhcsr(halt, step, mask) ==
  <<"dhcsr", [debugen |-> TRUE, halt |-> halt, step |-> step, mask |-> mask]>>
Halt == Dhcsr(TRUE, FALSE, FALSE)
Put(reg, value) == <<"put", reg, value>>
GetState == <<"state">>

Program(o) ==
  CASE o.name = "halt"       -> <<Halt>>
    [] o.name = "resume"     -> <<GetState, <<"resume">>>>
    [] o.name = "step"       -> <<<<"step">>>>
    [] o.name = "reset"      -> <<<<"reset", o.type>>>>
    [] o.name = "reset_and_halt" ->
         <<Halt, <<"read_demcr">>, <<"write_vc", TRUE>>, <<"reset", o.type>>,
           GetState, <<"await_halt">>, <<"thumb">>, <<"restore_vc">>>>
    [] o.name = "set_vector_catch" -> <<<<"read_demcr">>, <<"write_vc", o.on>>>>
    [] o.name = "disconnect" ->
         <<<<"write_vc", FALSE>>>>
           \o (IF o.resume THEN <<GetState, <<"resume">>, <<"release">>>> ELSE << >>)
    [] o.name = "read"       -> <<GetState, <<"check_cache">>, <<"fill">>>>
    [] o.name = "write"      -> <<GetState, <<"check_cache">>, <<"enter">>>>

\* (Wrong variants of StepProgram: the mask is set by the write that steps;
\* the mask is not restored; the second write does not step.)
StepProgramOneWrite(masked, disable) ==
  LET change == ~masked /\ disable
  IN <<Dhcsr(FALSE, TRUE, masked \/ disable), <<"await_step">>>>
       \o (IF change THEN <<Halt>> ELSE << >>) \o <<<<"count">>>>
StepProgramMasked(masked, disable) ==
  LET change == ~masked /\ disable
  IN (IF change THEN <<Dhcsr(TRUE, FALSE, TRUE)>> ELSE << >>)
       \o <<Dhcsr(FALSE, TRUE, masked \/ disable), <<"await_step">>, <<"count">>>>
StepProgramRuns(masked, disable) ==
  LET change == ~masked /\ disable
  IN (IF change THEN <<Dhcsr(TRUE, FALSE, TRUE)>> ELSE << >>)
       \o <<Dhcsr(FALSE, FALSE, masked \/ disable), <<"await_step">>>>
       \o (IF change THEN <<Halt>> ELSE << >>) \o <<<<"count">>>>

\* step: interrupts are masked and unmasked by writes that set C_HALT.
StepProgram(masked, disable) ==
  LET change == ~masked /\ disable
  IN (IF change THEN <<Dhcsr(TRUE, FALSE, TRUE)>> ELSE << >>)
       \o <<Dhcsr(FALSE, TRUE, masked \/ disable), <<"await_step">>>>
       \o (IF change THEN <<Halt>> ELSE << >>) \o <<<<"count">>>>

\* _get_actual_reset_type; a core has SW and SW_SYSRESETREQ for its defaults.
ActualReset(type) ==
  CASE type = "SW" -> "SW_SYSRESETREQ"
    [] type = "SW_VECTRESET" /\ ~SupportsVectreset -> "SW_EMULATED"
    [] OTHER -> type

\* _perform_emulated_reset: the registers by write_core_registers_raw; the
\* system registers it also writes are not modelled.
EmulatedList == <<"r0", "xpsr", "cfbp", "s0", "s1">>
EmulatedReset ==
  <<Halt>> \o [k \in DOMAIN RegDataList(EmulatedList) |->
                 Put(RegDataList(EmulatedList)[k],
                     ValueOf(ResetValues(1), RegDataList(EmulatedList)[k]))]

PerformReset(type) ==
  CASE type = "HW"          -> <<<<"nreset">>>>
    [] type = "SW_EMULATED" -> EmulatedReset
    [] OTHER                -> <<<<"aircr">>>>

Idle == todo = << >>
Doing(what) == ~Idle /\ Head(todo)[1] = what
Arg == Head(todo)[2]
Then(steps) == todo' = steps \o Tail(todo)
Done == Then(<< >>)

\* What reading DHCSR clears.
ReadSticky == sticky' = [reset |-> core = "held", retire |-> FALSE]

Init ==
  /\ core = "running"
  /\ dhcsr = [debugen |-> TRUE, halt |-> FALSE, step |-> FALSE, mask |-> FALSE]
  /\ sticky = [reset |-> FALSE, retire |-> FALSE]
  /\ vc = FALSE
  /\ regs = ResetValues(1)
  /\ request = "none"
  /\ menu \in Menus
  /\ op = None /\ todo = << >> /\ loc = NoLocals
  /\ token = 0
  /\ cache = EmptyCache /\ ctoken = MaxToken + 1  \* -1 in the code: no token
  /\ owed = FALSE /\ past = NoPast /\ excused = {} /\ faults = 0 /\ outside = 0

-----------------------------------------------------------------------------
\* An operation begins, and returns.
Start(o) ==
  /\ op = None
  /\ token < MaxToken \/ o.name \in {"halt", "set_vector_catch", "read", "write"}
  /\ op' = o
  /\ todo' = Program(o)
  /\ past' = CASE o.name = "step"           -> [NoPast EXCEPT !.mask = dhcsr.mask]
              [] o.name = "reset_and_halt" -> [NoPast EXCEPT !.vc = vc]
              [] OTHER                     -> NoPast
  /\ UNCHANGED <<hardware, menu, loc, token, cache, ctoken, owed, excused, faults, outside>>

Return ==
  /\ op # None /\ Idle
  /\ op' = None /\ past' = NoPast /\ loc' = NoLocals
  /\ UNCHANGED <<hardware, menu, todo, token, cache, ctoken, owed, excused, faults, outside>>

\* Writes of DHCSR.  C_HALT written as 0 lets a halted core go.
WriteDhcsr ==
  /\ Doing("dhcsr")
  /\ dhcsr' = Arg
  /\ core' = IF core = "halted" /\ ~Arg.halt THEN "running" ELSE core
  /\ Done
  /\ UNCHANGED <<sticky, vc, regs, request, menu, op, loc, token, cache, ctoken,
                 history>>

Release ==
  /\ Doing("release")
  /\ dhcsr' = [debugen |-> FALSE, halt |-> FALSE, step |-> FALSE, mask |-> FALSE]
  /\ core' = IF core = "halted" THEN "running" ELSE core
  /\ Done
  /\ UNCHANGED <<sticky, vc, regs, request, menu, op, loc, token, cache, ctoken,
                 history>>

\* get_state.  S_RESET_ST is sticky: when it is set DHCSR is read again, and
\* only a core that is still in reset and retired nothing counts as reset.
ReadState ==
  /\ Doing("state")
  /\ ReadSticky
  /\ loc' = [loc EXCEPT !.state = IF core = "held" THEN "running" ELSE core]
  /\ Then(IF sticky.reset THEN <<<<"state_again">>>> ELSE << >>)
  /\ UNCHANGED <<core, dhcsr, vc, regs, request, menu, op, token, cache, ctoken, history>>

ReadStateAgain ==
  /\ Doing("state_again")
  /\ ReadSticky
  /\ loc' = IF sticky.reset /\ ~sticky.retire THEN [loc EXCEPT !.state = "reset"] ELSE loc
  /\ Done
  /\ UNCHANGED <<core, dhcsr, vc, regs, request, menu, op, token, cache, ctoken, history>>

\* (A wrong variant of Resume: the run token is left alone.)
ResumeUncounted ==
  /\ Doing("resume")
  /\ IF loc.state = "halted"
       THEN token' = token /\ Then(<<Dhcsr(FALSE, FALSE, FALSE)>>)
       ELSE token' = token /\ Done
  /\ UNCHANGED <<hardware, menu, op, loc, cache, ctoken, history>>

\* resume, from the state it read.
Resume ==
  /\ Doing("resume")
  /\ IF loc.state = "halted"
       THEN token' = token + 1 /\ Then(<<Dhcsr(FALSE, FALSE, FALSE)>>)
       ELSE token' = token /\ Done
  /\ UNCHANGED <<hardware, menu, op, loc, cache, ctoken, history>>

\* step: the check of DHCSR that begins it, the wait for C_HALT, which has no
\* time-out, and the flush and count that end it.
BeginStep ==
  /\ Doing("step")
  /\ ReadSticky
  /\ Then(IF dhcsr.halt \/ dhcsr.step THEN StepProgram(dhcsr.mask, op.disable) ELSE << >>)
  /\ UNCHANGED <<core, dhcsr, vc, regs, request, menu, op, loc, token, cache, ctoken,
                 history>>

AwaitStep ==
  /\ Doing("await_step")
  /\ ReadSticky
  /\ IF dhcsr.halt THEN Done ELSE UNCHANGED todo
  /\ UNCHANGED <<core, dhcsr, vc, regs, request, menu, op, loc, token, cache, ctoken,
                 history>>

CountStep ==
  /\ Doing("count")
  /\ token' = token + 1
  /\ Done
  /\ UNCHANGED <<hardware, menu, op, loc, cache, ctoken, history>>

-----------------------------------------------------------------------------
\* reset counts a run whatever becomes of it, performs the reset and waits.
Reset ==
  /\ Doing("reset")
  /\ token' = token + 1
  /\ Then(PerformReset(ActualReset(Arg)) \o <<<<"await_reset">>>>)
  /\ UNCHANGED <<hardware, menu, op, loc, cache, ctoken, history>>

\* DAPAccess.reset drives the reset pin.
HardwareReset ==
  /\ Doing("nreset")
  /\ core' = "held"
  /\ dhcsr' = [dhcsr EXCEPT !.halt = FALSE, !.step = FALSE]
  /\ sticky' = [reset |-> TRUE, retire |-> FALSE]
  /\ Done
  /\ UNCHANGED <<vc, regs, request, menu, op, loc, token, cache, ctoken,
                 history>>

\* An access fails, or raises the error that is owed.
Trouble ==
  /\ owed' = FALSE
  /\ IF owed THEN UNCHANGED faults ELSE faults + outside < MaxTroubles /\ faults' = faults + 1

\* The write of AIRCR asks for a reset, which comes when it comes.  When the
\* access fails the request may have been made or not; the failure is caught,
\* unless the flush that follows fails as well.  So is the error owed for the
\* write of the vector catch before it.
WriteAircr ==
  /\ Doing("aircr")
  /\ request' = "asked"
  /\ Done
  /\ UNCHANGED <<core, dhcsr, sticky, vc, regs, menu, op, loc, token, cache, ctoken, history>>

WriteAircrFails ==
  /\ Doing("aircr") /\ Trouble
  /\ \/ /\ Done /\ past' = [past EXCEPT !.caught = TRUE]
        /\ request' \in {request, "asked"}
     \/ /\ todo' = << >> /\ past' = [past EXCEPT !.raised = TRUE]
        /\ request' \in {request, "overlooked"}
  /\ UNCHANGED <<core, dhcsr, sticky, vc, regs, menu, op, loc, token, cache, ctoken,
                 excused, outside>>

Overlook == request' = IF request = "asked" THEN "overlooked" ELSE request

\* The loop of reset: until DHCSR is read with S_RESET_ST clear.  A core in
\* reset may not answer, which is caught; after two seconds the loop ends.
AwaitReset ==
  /\ Doing("await_reset")
  /\ ReadSticky
  /\ Overlook
  /\ IF sticky.reset THEN UNCHANGED todo ELSE Done
  /\ UNCHANGED <<core, dhcsr, vc, regs, menu, op, loc, token, cache, ctoken,
                 history>>

AwaitTimesOut ==
  /\ Doing("await_reset") \/ Doing("await_halt")
  /\ Overlook
  /\ past' = [past EXCEPT !.disturbed = TRUE]
  /\ Done
  /\ UNCHANGED <<core, dhcsr, sticky, vc, regs, menu, op, loc, token, cache, ctoken, owed,
                 excused, faults, outside>>

\* The loop of reset_and_halt, over get_state.
AwaitHalt ==
  /\ Doing("await_halt")
  /\ IF loc.state \in {"reset", "running"} THEN Then(<<GetState, <<"await_halt">>>>) ELSE Done
  /\ UNCHANGED <<hardware, menu, op, loc, token, cache, ctoken,
                 history>>

\* The vector catch: read with DEMCR, set and put back.
ReadDemcr ==
  /\ Doing("read_demcr")
  /\ loc' = [loc EXCEPT !.vc = vc]
  /\ Done
  /\ UNCHANGED <<hardware, menu, op, token, cache, ctoken, history>>

\* (A wrong variant of WriteVc: the catch is written as it was read.)
WriteVcUnchanged ==
  /\ Doing("write_vc")
  /\ vc' = loc.vc
  /\ Done
  /\ UNCHANGED <<core, dhcsr, sticky, regs, request, menu, op, loc, token, cache, ctoken,
                 history>>

WriteVc ==
  /\ Doing("write_vc")
  /\ vc' = Arg
  /\ Done
  /\ UNCHANGED <<core, dhcsr, sticky, regs, request, menu, op, loc, token, cache, ctoken,
                 history>>

RestoreVc ==
  /\ Doing("restore_vc")
  /\ vc' = loc.vc
  /\ Done
  /\ UNCHANGED <<core, dhcsr, sticky, regs, request, menu, op, loc, token, cache, ctoken,
                 history>>

-----------------------------------------------------------------------------
\* Transfers of core registers, which a halted core performs.  With a core
\* that is not halted S_REGRDY may be clear, and the assertion on it fails, or
\* the transfer has no effect.
Unhalted(names) ==
  /\ past' = [past EXCEPT !.disturbed = TRUE]
  /\ excused' = excused \cup names
  /\ UNCHANGED <<faults, outside>>

SetThumb ==
  /\ Doing("thumb")
  /\ IF core = "halted"
       THEN regs' = [regs EXCEPT !["epsr"] = 1] /\ UNCHANGED history
       ELSE UNCHANGED regs /\ Unhalted({})
  /\ Done
  /\ UNCHANGED <<core, dhcsr, sticky, vc, request, menu, op, loc, token, cache, ctoken>>

\* RegisterCache._check_cache, from the state it read.
CheckCache ==
  /\ Doing("check_cache")
  /\ CASE loc.state = "running" -> cache' = EmptyCache /\ excused' = {} /\ UNCHANGED ctoken
       [] loc.state # "running" /\ ctoken # token ->
            cache' = EmptyCache /\ excused' = {} /\ ctoken' = token
       [] OTHER -> UNCHANGED <<cache, ctoken, excused>>
  /\ Done
  /\ UNCHANGED <<hardware, menu, op, loc, token, past, faults, outside>>

Fill ==
  /\ Doing("fill")
  /\ LET names == Filled(Missing(cache, op.list)) IN
       IF core = "halted" \/ names = {}
         THEN /\ cache' = AfterRead(cache, op.list, regs)
              /\ excused' = excused \ names
              /\ UNCHANGED <<past, faults, outside>>
         ELSE /\ cache' = AfterRead(cache, op.list, regs)
              /\ Unhalted(names)
  /\ Done
  /\ UNCHANGED <<hardware, menu, op, loc, token, ctoken>>

\* The cache takes the new values, then the core's registers are written.
Enter ==
  /\ Doing("enter")
  /\ cache' = AfterWrite(cache, op.list, op.bit)
  /\ excused' = (excused \ ToSet(op.list)) \cup (Aliases(op.list) \cap DOMAIN cache)
  /\ todo' = [k \in DOMAIN ReadFirst(op.list) |-> <<"read_first", ReadFirst(op.list)[k]>>]
               \o [k \in DOMAIN RegDataList(op.list) |->
                     Put(RegDataList(op.list)[k], Data(RegDataList(op.list)[k], op.bit))]
  /\ past' = [past EXCEPT !.regs = regs, !.disturbed = @ \/ core # "halted"]
  /\ UNCHANGED <<hardware, menu, op, loc, token, ctoken, faults, outside>>

ReadFirstRegister ==
  /\ Doing("read_first")
  /\ loc' = [loc EXCEPT !.merge = Merged(@, ValueOf(regs, Arg))]
  /\ IF core = "halted" THEN UNCHANGED history ELSE Unhalted(ToSet(op.list))
  /\ Done
  /\ UNCHANGED <<hardware, menu, op, token, cache, ctoken>>

\* (A wrong variant of PutRegister: the other fields of the register are zero.)
PutRegisterAlone ==
  /\ Doing("put")
  /\ LET reg   == Head(todo)[2]
         group == IF IsCfbpSub(reg) \/ IsPsrSub(reg) THEN FieldsOf(Selectors(reg)[1]) ELSE {}
         merge == Merged([field \in group |-> 0], Head(todo)[3])
     IN /\ loc' = [loc EXCEPT !.merge = Merged(@, merge)]
        /\ IF core = "halted"
             THEN regs' = Merged(regs, merge) /\ UNCHANGED history
             ELSE UNCHANGED regs /\ Unhalted(IF op.name = "write" THEN ToSet(op.list) ELSE {})
  /\ Done
  /\ UNCHANGED <<core, dhcsr, sticky, vc, request, menu, op, token, cache, ctoken>>

\* One transfer of write_core_registers_raw: a part of CFBP or of XPSR is
\* merged into the value read first, which is kept for the writes to come.
PutRegister ==
  /\ Doing("put")
  /\ LET reg   == Head(todo)[2]
         group == IF IsCfbpSub(reg) \/ IsPsrSub(reg) THEN FieldsOf(Selectors(reg)[1]) ELSE {}
         merge == Merged(Restrict(loc.merge, group \cap DOMAIN loc.merge), Head(todo)[3])
     IN /\ loc' = IF group = {} THEN loc ELSE [loc EXCEPT !.merge = Merged(@, merge)]
        /\ IF core = "halted"
             THEN regs' = Merged(regs, merge) /\ UNCHANGED history
             ELSE UNCHANGED regs /\ Unhalted(IF op.name = "write" THEN ToSet(op.list) ELSE {})
  /\ Done
  /\ UNCHANGED <<core, dhcsr, sticky, vc, request, menu, op, token, cache, ctoken>>

NotReady ==
  /\ Doing("thumb") \/ Doing("fill") \/ Doing("read_first") \/ Doing("put")
  /\ core # "halted"
  /\ todo' = << >>
  /\ past' = [past EXCEPT !.raised = TRUE]
  /\ excused' = excused \cup (IF op.name = "write" THEN ToSet(op.list) ELSE {})
  /\ UNCHANGED <<hardware, menu, op, loc, token, cache, ctoken, owed, faults, outside>>

\* A posted write fails, or is dropped with one that did: the operation goes on.
Posted == {"write_vc", "restore_vc", "release"}

PostedLost ==
  /\ ~Idle /\ Head(todo)[1] \in Posted
  /\ owed \/ faults + outside < MaxTroubles
  /\ faults' = IF owed THEN faults ELSE faults + 1
  /\ owed' = TRUE
  /\ Done
  /\ UNCHANGED <<hardware, menu, op, loc, token, cache, ctoken, past, excused, outside>>

\* Any other access may fail, the flush before a step is counted included, and
\* so may a posted write for which there is no room in the packet: the
\* operation raises and the rest of it is not done.  The cached values
\* that a failed write entered stay, and so do those from before a failed
\* step, whose run is not counted.
HostOnly == {"resume", "reset", "check_cache", "enter", "await_halt", "aircr"}

AccessFails ==
  /\ ~Idle /\ Head(todo)[1] \notin HostOnly
  /\ Trouble
  /\ \/ todo' = << >> /\ past' = [past EXCEPT !.raised = TRUE]
     \/ Doing("await_reset") /\ UNCHANGED <<todo, past>>
  /\ excused' = excused \cup (IF op.name = "step" THEN DOMAIN cache
                              ELSE IF op.name = "write" THEN ToSet(op.list) ELSE {})
  /\ Overlook
  /\ UNCHANGED <<core, dhcsr, sticky, vc, regs, menu, op, loc, token, cache, ctoken, outside>>

-----------------------------------------------------------------------------
\* The core.  An instruction changes every register; a step ends in C_HALT.
\* (S_RETIRE_ST is kept only while S_RESET_ST is set: it is read only then.)
Execute ==
  /\ core = "running" /\ ~dhcsr.halt
  /\ regs' = [field \in Fields |-> IF field = "epsr" THEN 1 ELSE 1 - regs["r0"]]
  /\ sticky' = [sticky EXCEPT !.retire = sticky.reset]
  /\ core' = IF dhcsr.step THEN "halted" ELSE "running"
  /\ dhcsr' = [dhcsr EXCEPT !.halt = dhcsr.step]
  /\ UNCHANGED <<vc, request, host, history>>

HitBreakpoint ==
  /\ core = "running" /\ dhcsr.debugen
  /\ core' = "halted" /\ dhcsr' = [dhcsr EXCEPT !.halt = TRUE]
  /\ UNCHANGED <<sticky, vc, regs, request, host, history>>

\* C_HALT, or C_STEP with a core that sleeps, stops the core.
StopRequested ==
  /\ dhcsr.debugen /\ core \in {"running", "sleeping", "lockup"}
  /\ dhcsr.halt \/ (dhcsr.step /\ core # "running")
  /\ core' = "halted" /\ dhcsr' = [dhcsr EXCEPT !.halt = TRUE]
  /\ UNCHANGED <<sticky, vc, regs, request, host, history>>

SleepOrWake ==
  /\ \/ core = "running" /\ core' \in {"sleeping", "lockup"} /\ ~dhcsr.halt /\ ~dhcsr.step
     \/ core = "sleeping" /\ core' = "running"
  /\ UNCHANGED <<dhcsr, sticky, vc, regs, request, host, history>>

IntoReset ==
  /\ core' = "held"
  /\ dhcsr' = [dhcsr EXCEPT !.halt = FALSE, !.step = FALSE]
  /\ sticky' = [reset |-> TRUE, retire |-> FALSE]

TakeReset ==
  /\ request # "none"
  /\ IntoReset
  /\ request' = "none"
  /\ IF request = "overlooked"
       THEN past' = [past EXCEPT !.disturbed = TRUE] /\ excused' = DOMAIN cache
       ELSE UNCHANGED <<past, excused>>
  /\ UNCHANGED <<vc, regs, host, faults, outside>>

OutsideReset ==
  /\ faults + outside < MaxTroubles /\ core # "held"
  /\ IntoReset
  /\ outside' = outside + 1
  /\ past' = [past EXCEPT !.disturbed = TRUE] /\ excused' = DOMAIN cache
  /\ UNCHANGED <<vc, regs, request, host, faults>>

\* The core leaves reset, into debug state when the reset vector is caught.
LeaveReset ==
  /\ core = "held"
  /\ LET caught == vc /\ dhcsr.debugen IN
       /\ core' = IF caught THEN "halted" ELSE "running"
       /\ dhcsr' = [dhcsr EXCEPT !.halt = dhcsr.halt \/ caught]
  /\ \E thumb \in 0..1 : regs' = ResetValues(thumb)
  /\ UNCHANGED <<sticky, vc, request, host, history>>

-----------------------------------------------------------------------------
\* The accesses that await an answer get it when no error is owed.
Awaited ==
  \/ WriteDhcsr \/ ReadState \/ ReadStateAgain \/ BeginStep \/ AwaitStep \/ CountStep
  \/ HardwareReset \/ WriteAircr \/ AwaitReset \/ ReadDemcr
  \/ SetThumb \/ Fill \/ ReadFirstRegister \/ PutRegister

\* (A wrong variant of HostStep: halt and resume do not flush.)
HostStepUnflushed ==
  /\ \/ ~owed /\ Awaited
     \/ WriteDhcsr \/ WriteVc \/ RestoreVc \/ Release
     \/ Resume \/ Reset \/ AwaitHalt \/ CheckCache \/ Enter
  /\ UNCHANGED owed

HostStep ==
  /\ \/ ~owed /\ Awaited
     \/ WriteVc \/ RestoreVc \/ Release
     \/ Resume \/ Reset \/ AwaitHalt \/ CheckCache \/ Enter
  /\ UNCHANGED owed

Hardware ==
  \/ Execute \/ HitBreakpoint \/ StopRequested \/ SleepOrWake
  \/ TakeReset \/ OutsideReset \/ LeaveReset

Next ==
  \/ \E o \in menu : Start(o)
  \/ Return \/ HostStep \/ Hardware
  \/ WriteAircrFails \/ AwaitTimesOut \/ NotReady \/ AccessFails \/ PostedLost

Spec == Init /\ [][Next]_vars

\* The thread that called the operation goes on, errors that are owed are
\* raised, the clock goes on (strong fairness: the loops look at it between
\* their accesses, and sooner or later find it past), and the core executes and
\* takes the requests it is given; whether it sleeps, wakes, hits
\* a breakpoint or is reset from outside is left open.
FairSpec ==
  /\ Spec
  /\ WF_vars(HostStep) /\ SF_vars(AwaitTimesOut) /\ WF_vars(Return)
  /\ WF_vars(owed /\ (AccessFails \/ WriteAircrFails))
  /\ WF_vars(Execute) /\ WF_vars(StopRequested) /\ WF_vars(TakeReset) /\ WF_vars(LeaveReset)

-----------------------------------------------------------------------------
\* The types of the variables; the cache holds values of its names.
TypeOK ==
  /\ core \in {"running", "halted", "sleeping", "lockup", "held"}
  /\ dhcsr \in [debugen : BOOLEAN, halt : BOOLEAN, step : BOOLEAN, mask : BOOLEAN]
  /\ sticky \in [reset : BOOLEAN, retire : BOOLEAN]
  /\ vc \in BOOLEAN
  /\ regs \in [Fields -> 0..1]
  /\ request \in {"none", "asked", "overlooked"}
  /\ op \in Ops \cup {None}
  /\ token \in 0..MaxToken /\ ctoken \in 0..(MaxToken + 1)
  /\ DOMAIN cache \subseteq CORE_REGISTER
  /\ \A reg \in DOMAIN cache : cache[reg] \in [FieldsOf(reg) -> 0..1]
  /\ owed \in BOOLEAN /\ excused \subseteq CORE_REGISTER
  /\ faults \in 0..MaxTroubles /\ outside \in 0..MaxTroubles

\* The operations whose last access awaits an answer.
Awaiting == {"halt", "resume", "step", "reset", "read", "write"}

Returned(name) == Idle /\ op.name = name /\ ~past.raised
Undisturbed == ~past.disturbed /\ request = "none"

\* RegisterCache: between operations, a cached value that the cache would
\* still use is the value in the core, however often the core ran in between.
\* It is not claimed of the names the code lets go stale: those read while the
\* core slept, those of a failed write or from before a failed step, the single
\* and double names of one floating point register, and all of them after a
\* reset the host did not see: one from outside, or its own when the loop of
\* reset ended before the core took it.
CacheCoherent ==
  op = None /\ core = "halted" /\ ctoken = token =>
    \A reg \in DOMAIN cache \ excused : cache[reg] = ValueOf(regs, reg)

\* write_core_registers_raw: "write core registers in reg_list with the
\* associated value" (cortex_m.py:1108).  Not so of the code, which drops the
\* first part of CFBP and of XPSR in the list.
RegistersWritten ==
  Returned("write") /\ Undisturbed /\ core = "halted" =>
    regs = Intended(past.regs, op.list, op.bit)

\* Apart from the fields of the names that are dropped, every register of the
\* list takes its value, and the parts of CFBP and XPSR that were not named keep
\* theirs, although they are transferred with those that were.
OthersWritten ==
  Returned("write") /\ Undisturbed /\ core = "halted" =>
    \A field \in Fields \ DroppedFields(op.list) :
      regs[field] = Intended(past.regs, op.list, op.bit)[field]

\* step and reset_and_halt leave the debug registers as they found them:
\* step "preserves the previous interrupt mask state" (cortex_m.py:665), and
\* reset_and_halt restores the vector catch; disconnect leaves no catch, no
\* mask and no halted core.  The last writes of the latter two are posted: when
\* they fail the error is owed after the return, and the operations that await
\* an answer do not return without having raised it.
DebugStateRestored ==
  /\ Returned("step") => dhcsr.mask = past.mask
  /\ Returned("reset_and_halt") => vc = past.vc \/ owed
  /\ Returned("disconnect") /\ op.resume =>
       owed \/ (~vc /\ ~dhcsr.debugen /\ ~dhcsr.mask /\ core # "halted")
  /\ \A name \in Awaiting : Returned(name) => ~owed

\* reset_and_halt: "perform a reset and stop the core on the reset handler"
\* (cortex_m.py:891).  When it returns and its loops did not time out, the core
\* stands at its reset values with the Thumb bit set, and has executed nothing.
\* Not so of the code when an error was caught at the write of AIRCR
\* (cortex_m.py:844), which may be that of the posted write of the vector
\* catch: reset_and_halt returns without a reset.
ResetHaltStops ==
  Returned("reset_and_halt") /\ Undisturbed /\ ~past.caught =>
    core = "halted" /\ regs = ResetValues(1)

\* C_MASKINTS changes only while C_HALT is set and stays set, as the comments
\* of step demand (cortex_m.py:682 and 698), unless an access failed or the
\* core was reset from outside.
MaskProtocol ==
  [][dhcsr'.mask # dhcsr.mask =>
       (dhcsr.halt /\ dhcsr'.halt) \/ faults > 0 \/ outside > 0 \/ past.disturbed]_vars

\* Every operation returns, by its answers or by its time-outs, unless the core
\* was reset under a step, whose wait has no time-out.  (The formula excuses
\* more: every operation from a reset from outside on.)
Returns == ~Idle ~> (Idle \/ outside > 0 \/ past.disturbed)
=============================================================================
