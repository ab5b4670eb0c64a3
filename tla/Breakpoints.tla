---------------------------- MODULE Breakpoints ----------------------------
(***************************************************************************)
(* Breakpoints of a core: the BreakpointManager (manager.py), its software *)
(* provider (software.py), which puts BKPT instructions into RAM and hides *)
(* them from whoever reads memory, and its hardware provider (fpb.py),     *)
(* which programs comparators.  The memory is the one the core and the     *)
(* debugger share; shadow is what it would hold without breakpoints.       *)
(*                                                                         *)
(* An operation is one action, except that a software breakpoint is set by *)
(* a read and a write between which the core may execute.  Writes are      *)
(* posted (CMSISDAPProbe.open defers transfers): one that fails either     *)
(* raises in its operation, or is lost while the operation goes on as if   *)
(* it had been done, and its error is owed to a later access.              *)
(***************************************************************************)
EXTENDS Integers, FiniteSets, Functions, MemoryMap

CONSTANTS
  Map,          \* the regions of the core's memory map, in order
  FpbLimit,     \* an FPB of revision 1 supports the addresses below this
  FpbRevision,  \* fpb_rev
  Comparators,  \* nb_code
  MaxFaults     \* bound: accesses that fail

VARIABLES
  mem,      \* the bytes of memory
  shadow,   \* history: what they would be without breakpoints
  sw,       \* _breakpoints of the software provider: address to original instruction
  mgr,      \* _breakpoints of the manager: address to type and to what the provider
            \* returned: the original instruction, or the comparator's record
  comps,    \* hw_breakpoints of the FPB: enabled and addr of each
  fpcomp,   \* the comparators themselves: the address each matches, or NoMatch
  fpb,      \* enabled of the FPB and num_hw_breakpoint_used
  pending,  \* set_breakpoint of the software provider between its read and its write
  spoilt,   \* history: bytes written while a BKPT stood on them, or lost with a fault
  failed,   \* history: whether an access to a comparator or a removal failed, or the
            \* write of a BKPT was lost
  faults,
  owed      \* the error of a posted write has not been raised yet

breakpoints == <<mem, shadow, sw, mgr, comps, fpcomp, fpb, pending, spoilt, failed, faults>>

Addresses == UNION {Map[k].start..Map[k].end : k \in DOMAIN Map}
Bkpt == 2                       \* a byte of the BKPT instruction; others hold 0 or 1
Halfwords == {a \in Addresses : a % 2 = 0}
NoMatch == -1
NoPending == [addr |-> NoMatch, instr |-> <<0, 0>>]
Index == 1..Comparators

ASSUME BreakpointsAssumption ==
  /\ \A k \in DOMAIN Map :
       /\ Map[k].start \in Nat /\ Map[k].end \in Nat /\ Map[k].start <= Map[k].end
       /\ Map[k].start % 2 = 0 /\ Map[k].end % 2 = 1     \* whole halfwords
  /\ FpbLimit \in Nat /\ FpbRevision \in {1, 2} /\ Comparators \in Nat /\ MaxFaults \in Nat

\* A dictionary with an entry for addr.
Entered(dict, addr, value) ==
  [a \in DOMAIN dict \cup {addr} |-> IF a = addr THEN value ELSE dict[a]]

Covers(bp, addr) == addr \in {bp, bp + 1}
HasBkpt(addr) == \E bp \in DOMAIN sw : Covers(bp, addr)

(***************************************************************************)
(* Reads are filtered by the software breakpoints.  Which of them a read   *)
(* can see depends on its size: a halfword read only the one at its        *)
(* address.                                                                *)
(***************************************************************************)
Seen(addr, size) ==
  CASE size = 1 -> {addr, addr - 1}
    [] size = 2 -> {addr}
    [] size = 4 -> {addr, addr + 2}

\* (A wrong variant of FilterMemory: only the first byte is put back.)
FilterMemoryFirst(addr, data) ==
  [k \in DOMAIN data |->
     LET hits == {bp \in DOMAIN sw \cap Seen(addr, Len(data)) : bp = addr + k - 1}
     IN IF hits = {} THEN data[k] ELSE LET bp == CHOOSE b \in hits : TRUE IN sw[bp][1]]

FilterMemory(addr, data) ==
  [k \in DOMAIN data |->
     LET hits == {bp \in DOMAIN sw \cap Seen(addr, Len(data)) : Covers(bp, addr + k - 1)}
     IN IF hits = {} THEN data[k]
        ELSE LET bp == CHOOSE b \in hits : TRUE IN sw[bp][addr + k - bp]]

Raw(addr, size) == [k \in 1..size |-> mem[addr + k - 1]]
ReadMemory(addr, size) == FilterMemory(addr, Raw(addr, size))

\* read_memory_block8 filters byte by byte.
FilterUnaligned8(addr) == ReadMemory(addr, 1)[1]

\* read_memory_block32 filters word by word, each with the address of the
\* block plus the index of the word.
FilterAligned32(addr, count) ==
  [i \in 1..count |-> FilterMemory(addr + i - 1, Raw(addr + 4 * (i - 1), 4))]

-----------------------------------------------------------------------------
\* The FPB.
Available == Comparators - fpb.used
CanSupportAddress(addr) == FpbRevision = 2 \/ addr < FpbLimit

(***************************************************************************)
(* BreakpointManager.set_breakpoint: the type a breakpoint gets, or none.  *)
(***************************************************************************)
ChooseType(addr, type) ==
  LET region  == GetRegionForAddress(Map, addr)
      inRange == CanSupportAddress(addr)
      asked   == IF region = NoRegion THEN "hw"
                 ELSE IF type # "auto" THEN type
                 ELSE IF ~inRange \/ region.type = "ram" \/ Available <= 0 THEN "sw" ELSE "hw"
      ranged  == IF asked = "hw" /\ ~inRange
                   THEN (IF region.type = "ram" THEN "sw" ELSE "none") ELSE asked
  IN IF ranged = "none" THEN "none"
     ELSE IF region.type = "flash" THEN (IF inRange /\ Available > 0 THEN "hw" ELSE "none")
     ELSE IF ranged = "hw" /\ Available = 0 THEN "none"
     ELSE IF ranged = "sw" /\ region.type # "ram" THEN "none" ELSE ranged

FirstFree == CHOOSE i \in Index : ~comps[i].enabled /\ \A j \in 1..(i - 1) : comps[j].enabled

InitBreakpoints ==
  /\ mem = [a \in Addresses |-> 0] /\ shadow = mem
  /\ sw = << >> /\ mgr = << >>
  /\ comps = [i \in Index |-> [enabled |-> FALSE, addr |-> 0]]
  /\ fpcomp = [i \in Index |-> NoMatch]
  /\ fpb = [enabled |-> FALSE, used |-> 0]
  /\ pending = NoPending /\ spoilt = {} /\ failed = FALSE /\ faults = 0 /\ owed = FALSE

\* One more access fails, and what is owed afterwards.  While an error is owed
\* it is the one that is raised, and the writes behind it are lost with it.
Trouble(owing) ==
  /\ owed' = owing
  /\ IF owed THEN UNCHANGED faults ELSE faults < MaxFaults /\ faults' = faults + 1

CanSet(addr, type) ==
  /\ pending = NoPending /\ addr \notin DOMAIN mgr
  /\ ChooseType(addr, type) = "hw" => \E i \in Index : ~comps[i].enabled

\* FPB.set_breakpoint takes the first comparator that is not enabled.
TakeComparator(addr) ==
  /\ comps' = [comps EXCEPT ![FirstFree] = [enabled |-> TRUE, addr |-> addr]]
  /\ fpb' = [enabled |-> TRUE, used |-> fpb.used + 1]
  /\ mgr' = Entered(mgr, addr, [type |-> "hw", instr |-> <<0, 0>>, comp |-> FirstFree])

SetHardware(addr, type) ==
  /\ CanSet(addr, type) /\ ChooseType(addr, type) = "hw"
  /\ TakeComparator(addr) /\ fpcomp' = [fpcomp EXCEPT ![FirstFree] = addr]
  /\ UNCHANGED <<mem, shadow, sw, pending, spoilt, failed, faults, owed>>

\* The write that enables the FPB raises, or that of the comparator: it stays
\* enabled, with the address it had before, and is not counted.
SetHardwareFails(addr, type) ==
  /\ CanSet(addr, type) /\ ChooseType(addr, type) = "hw" /\ Trouble(FALSE)
  /\ \/ ~fpb.enabled /\ UNCHANGED <<comps, fpcomp, fpb>>
     \/ /\ comps' = [comps EXCEPT ![FirstFree].enabled = TRUE]
        /\ fpcomp' \in {fpcomp, [fpcomp EXCEPT ![FirstFree] = addr]}
        /\ fpb' = [fpb EXCEPT !.enabled = TRUE]
  /\ failed' = TRUE
  /\ UNCHANGED <<mem, shadow, sw, mgr, pending, spoilt>>

\* One of the two is lost: the breakpoint is recorded and counted as if it were
\* armed.
SetHardwareLost(addr, type) ==
  /\ CanSet(addr, type) /\ ChooseType(addr, type) = "hw" /\ Trouble(TRUE)
  /\ TakeComparator(addr) /\ fpcomp' \in {fpcomp, [fpcomp EXCEPT ![FirstFree] = addr]}
  /\ failed' = TRUE
  /\ UNCHANGED <<mem, shadow, sw, pending, spoilt>>

\* SoftwareBreakpointProvider.set_breakpoint reads the instruction, through
\* the filter, and writes BKPT over it.
ReadInstruction(addr, type) ==
  /\ CanSet(addr, type) /\ ChooseType(addr, type) = "sw" /\ ~owed
  /\ pending' = [addr |-> addr, instr |-> ReadMemory(addr, 2)]
  /\ UNCHANGED <<mem, shadow, sw, mgr, comps, fpcomp, fpb, spoilt, failed, faults, owed>>

InsertBkpt(addr) == [mem EXCEPT ![addr] = Bkpt, ![addr + 1] = Bkpt]

RecordSoftware ==
  /\ sw' = Entered(sw, pending.addr, pending.instr)
  /\ mgr' = Entered(mgr, pending.addr, [type |-> "sw", instr |-> pending.instr, comp |-> 0])
  /\ pending' = NoPending

SetSoftware ==
  /\ pending # NoPending
  /\ RecordSoftware /\ mem' = InsertBkpt(pending.addr)
  /\ UNCHANGED <<shadow, comps, fpcomp, fpb, spoilt, failed, faults, owed>>

\* The write raises: the breakpoint is not set, whether BKPT was written or not.
SetSoftwareFails ==
  /\ pending # NoPending /\ Trouble(FALSE)
  /\ mem' \in {mem, InsertBkpt(pending.addr)}
  /\ spoilt' = spoilt \cup {pending.addr, pending.addr + 1}
  /\ pending' = NoPending
  /\ UNCHANGED <<shadow, sw, mgr, comps, fpcomp, fpb, failed>>

\* The write is lost: a breakpoint is recorded that is not in memory.
SetSoftwareLost ==
  /\ pending # NoPending /\ Trouble(TRUE)
  /\ RecordSoftware /\ failed' = TRUE
  /\ UNCHANGED <<mem, shadow, comps, fpcomp, fpb, spoilt>>

-----------------------------------------------------------------------------
\* What removing breakpoints does to the comparators and to memory.  A software
\* breakpoint restores the instruction kept with it even when the provider has
\* dropped it before (an orphan), and then raises KeyError.  A hardware breakpoint
\* is the record of its comparator, whose address is another one when the
\* comparator was given away since; two that share a record free it once.
RecordAddr(addr) == comps[mgr[addr].comp].addr
Matching(addr) == {i \in Index : comps[i].enabled /\ comps[i].addr = addr}
FirstMatching(addr) == CHOOSE i \in Matching(addr) : \A j \in Matching(addr) : i <= j
Freed(addrs) ==
  {FirstMatching(RecordAddr(a)) :
     a \in {b \in addrs : mgr[b].type = "hw" /\ Matching(RecordAddr(b)) # {}}}
Restored(addrs) == {a \in addrs : mgr[a].type = "sw"}
Orphans == {a \in DOMAIN mgr : mgr[a].type = "sw" /\ a \notin DOMAIN sw}
Bytes(addrs) == {b \in Addresses : \E a \in addrs : Covers(a, b)}

Disabled(freed) == [i \in Index |-> IF i \in freed THEN [comps[i] EXCEPT !.enabled = FALSE]
                                    ELSE comps[i]]
Cleared(freed) == [i \in Index |-> IF i \in freed THEN NoMatch ELSE fpcomp[i]]
Reinstated(addrs) ==
  [b \in Addresses |->
     IF b \in Bytes(addrs)
       THEN LET a == CHOOSE c \in addrs : Covers(c, b) IN mgr[a].instr[b - a + 1]
       ELSE mem[b]]

\* (A wrong variant of Removed: the count is left alone.)
RemovedUncounted(addrs) ==
  /\ comps' = Disabled(Freed(addrs)) /\ fpcomp' = Cleared(Freed(addrs)) /\ fpb' = fpb
  /\ mem' = Reinstated(Restored(addrs)) /\ sw' = Restrict(sw, DOMAIN sw \ Restored(addrs))
  /\ spoilt' = spoilt \cup Bytes(addrs \cap Orphans)

\* (A wrong variant of Removed: the provider keeps what it removed.)
RemovedKept(addrs) ==
  /\ comps' = Disabled(Freed(addrs)) /\ fpcomp' = Cleared(Freed(addrs))
  /\ fpb' = [fpb EXCEPT !.used = @ - Cardinality(Freed(addrs))]
  /\ mem' = Reinstated(Restored(addrs)) /\ sw' = sw
  /\ spoilt' = spoilt \cup Bytes(addrs \cap Orphans)

\* Those of addrs are removed, but of the writes only those of the comparators
\* in cleared and of the instructions in restored are done: a BKPT that is left
\* in memory is not filtered any more.
RemovedButFor(addrs, cleared, restored) ==
  /\ comps' = Disabled(Freed(addrs)) /\ fpcomp' = Cleared(cleared)
  /\ fpb' = [fpb EXCEPT !.used = @ - Cardinality(Freed(addrs))]
  /\ mem' = Reinstated(restored) /\ sw' = Restrict(sw, DOMAIN sw \ Restored(addrs))
  /\ spoilt' = spoilt \cup Bytes(addrs \cap Orphans) \cup Bytes(Restored(addrs) \ restored)

Removed(addrs) == RemovedButFor(addrs, Freed(addrs), Restored(addrs))

\* remove_breakpoint catches the KeyError; remove_all_breakpoints does not, and
\* its last assignment forgets them all.
RemoveBreakpoint(addr) ==
  /\ pending = NoPending /\ addr \in DOMAIN mgr
  /\ Removed({addr})
  /\ mgr' = Restrict(mgr, DOMAIN mgr \ {addr})
  /\ UNCHANGED <<shadow, pending, failed, faults, owed>>

RemoveAllBreakpoints ==
  /\ pending = NoPending /\ mgr # << >> /\ Orphans = {}
  /\ Removed(DOMAIN mgr)
  /\ mgr' = << >>
  /\ UNCHANGED <<shadow, pending, failed, faults, owed>>

\* Whether removing a breakpoint writes anything.
Writes(addr) == mgr[addr].type = "hw" => Matching(RecordAddr(addr)) # {}

\* The write of remove_breakpoint raises.  The manager has forgotten the
\* breakpoint already; a software breakpoint stays with the provider, which
\* goes on filtering, and a comparator is free but counted and perhaps armed.
RemoveBreakpointFails(addr) ==
  /\ pending = NoPending /\ addr \in DOMAIN mgr /\ Writes(addr) /\ Trouble(FALSE)
  /\ mgr' = Restrict(mgr, DOMAIN mgr \ {addr})
  /\ comps' = Disabled(Freed({addr}))
  /\ fpcomp' \in {fpcomp, Cleared(Freed({addr}))}
  /\ mem' \in {mem, Reinstated(Restored({addr}))}
  /\ spoilt' = spoilt \cup Bytes({addr} \cap Orphans)
  /\ failed' = TRUE
  /\ UNCHANGED <<shadow, sw, fpb, pending>>

\* It is lost: all have forgotten the breakpoint, which is still there.
RemoveBreakpointLost(addr) ==
  /\ pending = NoPending /\ addr \in DOMAIN mgr /\ Writes(addr) /\ Trouble(TRUE)
  /\ RemovedButFor({addr}, {}, {})
  /\ mgr' = Restrict(mgr, DOMAIN mgr \ {addr})
  /\ failed' = TRUE
  /\ UNCHANGED <<shadow, pending>>

\* A remove_all_breakpoints that ends, whatever was lost or failed in software,
\* is as if each were removed on its own.  A comparator's write that raises ends
\* the loop: the manager keeps all its breakpoints, those already removed
\* included, and the error may be that of writes it lost before.
RemoveAllBreakpointsFail(addr, done) ==
  /\ pending = NoPending /\ addr \in DOMAIN mgr \ done /\ done \subseteq DOMAIN mgr \ Orphans
  /\ mgr[addr].type = "hw" /\ Matching(RecordAddr(addr)) # {} /\ Trouble(FALSE)
  /\ LET i == FirstMatching(RecordAddr(addr)) IN
       /\ i \notin Freed(done)
       /\ comps' = Disabled(Freed(done) \cup {i})
       /\ \E cleared \in SUBSET (Freed(done) \cup {i}) : fpcomp' = Cleared(cleared)
  /\ fpb' = [fpb EXCEPT !.used = @ - Cardinality(Freed(done))]
  /\ sw' = Restrict(sw, DOMAIN sw \ Restored(done))
  /\ \E restored \in SUBSET Restored(done) :
       /\ mem' = Reinstated(restored)
       /\ spoilt' = spoilt \cup Bytes(Restored(done) \ restored)
  /\ failed' = TRUE
  /\ UNCHANGED <<shadow, mgr, pending>>

\* And so does the KeyError of an orphan, after its instruction is restored;
\* this and other writes may be lost.
RemoveAllBreakpointsOrphaned(addr, done) ==
  /\ pending = NoPending /\ addr \in Orphans /\ done \subseteq DOMAIN mgr \ Orphans
  /\ \/ Removed(done \cup {addr}) /\ UNCHANGED <<faults, owed>>
     \/ /\ \E cleared \in SUBSET Freed(done), restored \in SUBSET Restored(done \cup {addr}) :
             RemovedButFor(done \cup {addr}, cleared, restored)
        /\ Trouble(TRUE)
  /\ UNCHANGED <<shadow, mgr, pending, failed>>

\* A write of memory by the debugger or by the program of the core: the
\* breakpoints do not follow it.
Written(addrs, value) ==
  /\ mem' = [a \in Addresses |-> IF a \in addrs THEN value[a] ELSE mem[a]]
  /\ shadow' = [a \in Addresses |-> IF a \in addrs THEN value[a] ELSE shadow[a]]
  /\ LET covered == {a \in addrs : HasBkpt(a) \/ (pending # NoPending /\ Covers(pending.addr, a))}
     IN spoilt' = (spoilt \ addrs) \cup covered
  /\ UNCHANGED <<sw, mgr, comps, fpcomp, fpb, pending, failed>>

-----------------------------------------------------------------------------
\* The types of the variables.  The FPB's count never exceeds its comparators;
\* after failures it may go below the number of those in use.
BreakpointsTypeOK ==
  /\ mem \in [Addresses -> {0, 1, Bkpt}] /\ shadow \in [Addresses -> {0, 1}]
  /\ DOMAIN sw \subseteq Halfwords
  /\ \A a \in DOMAIN sw : sw[a] \in [1..2 -> {0, 1, Bkpt}]
  /\ DOMAIN mgr \subseteq Halfwords
  /\ \A a \in DOMAIN mgr :
       \/ mgr[a].type = "hw" /\ mgr[a].comp \in Index
       \/ mgr[a].type = "sw" /\ mgr[a].instr \in [1..2 -> {0, 1, Bkpt}]
  /\ comps \in [Index -> [enabled : BOOLEAN, addr : Halfwords \cup {0}]]
  /\ fpcomp \in [Index -> Halfwords \cup {NoMatch}]
  /\ fpb \in [enabled : BOOLEAN, used : Int] /\ fpb.used <= Comparators
  /\ pending # NoPending =>
       pending.addr \in Halfwords /\ pending.instr \in [1..2 -> {0, 1, Bkpt}]
  /\ spoilt \subseteq Addresses /\ failed \in BOOLEAN
  /\ faults \in 0..MaxFaults /\ owed \in BOOLEAN /\ (owed => faults > 0)

\* Reads hide the breakpoints: whatever breakpoints are set and were removed,
\* a byte, halfword or word read through the core is what memory would hold
\* had no breakpoint ever been set.  Not so for bytes written while a BKPT
\* stood on them, which removing it overwrites with the old instruction, for
\* a halfword that was not the one read by the same size, and for the bytes of
\* a breakpoint whose write raised while it was set or whose restoring write
\* was lost: there the BKPT shows.
TransparentBreakpoints ==
  /\ \A a \in Addresses \ spoilt : FilterUnaligned8(a) = shadow[a]
  /\ \A a \in Halfwords : {a, a + 1} \cap spoilt = {} =>
       ReadMemory(a, 2) = <<shadow[a], shadow[a + 1]>>
  /\ \A a \in Addresses : a % 4 = 0 /\ (a..(a + 3)) \subseteq Addresses \ spoilt =>
       FilterAligned32(a, 1) = <<[k \in 1..4 |-> shadow[a + k - 1]]>>

\* Removing restores: a BKPT stands in memory only where a breakpoint of the
\* software provider is, bytes written under one and those of a set that raised
\* or of a restoring write that was lost excepted.  Until a removal failed or a
\* write of BKPT was lost, each of the provider's breakpoints has its BKPT and
\* is known to the manager.
SoftwareBreakpointsInPlace ==
  /\ \A a \in Addresses \ spoilt : mem[a] = Bkpt => HasBkpt(a)
  /\ ~failed => \A a \in DOMAIN sw :
       /\ a \in DOMAIN mgr /\ mgr[a].type = "sw"
       /\ \A b \in {a, a + 1} \ spoilt : mem[b] = Bkpt

\* The manager, the FPB's list, its count and the comparators themselves tell
\* the same breakpoints, until an access to a comparator fails, at once or late.
ComparatorsAgree ==
  ~failed =>
    /\ fpb.used = Cardinality({i \in Index : comps[i].enabled})
    /\ \A i \in Index : fpcomp[i] = IF comps[i].enabled THEN comps[i].addr ELSE NoMatch
    /\ {fpcomp[i] : i \in Index} \ {NoMatch} = {a \in DOMAIN mgr : mgr[a].type = "hw"}
    /\ fpb.used > 0 => fpb.enabled
=============================================================================
