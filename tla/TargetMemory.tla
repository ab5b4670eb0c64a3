---------------------------- MODULE TargetMemory ---------------------------
(***************************************************************************)
(* A debugger's accesses to memory through the MemoryCache (cache.py),     *)
(* over a core that filters breakpoints (Breakpoints.tla) and that runs,   *)
(* sleeps, writes memory itself and is halted (CortexM.tla in detail);     *)
(* and the watchpoints of its DWT (dwt.py).                                *)
(***************************************************************************)
EXTENDS Breakpoints, MemoryCache

CONSTANTS
  BreakAddresses,   \* where breakpoints are set
  CacheRanges,      \* the ranges that are read and written, as <<begin, end>>
  ProgramBytes,     \* the bytes of RAM the program of the core writes
  WatchAddresses,   \* where watchpoints are set
  WatchSizes,       \* the sizes of watchpoints that are set
  MaskSizes,        \* those of them WATCH_SIZE_TO_MASK has
  DeviceWatchSizes, \* and those of these the device's mask register takes
  Watchpoints,      \* the number of DWT comparators
  MaxToken,         \* bound: the run token
  Menus             \* bound: what a session does: subsets of AllMenu

AllMenu == {"hw", "sw", "cache", "write", "watch"}

ASSUME TargetMemoryAssumption ==
  /\ BreakAddresses \subseteq Halfwords       \* set_breakpoint clears the Thumb bit
  /\ \A r \in CacheRanges :
       /\ r[1] \in Nat /\ r[2] \in Nat /\ r[1] < r[2]   \* of no bytes: nothing is done
       /\ r[1]..(r[2] - 1) \subseteq Addresses
  /\ DeviceWatchSizes \subseteq MaskSizes /\ MaskSizes \subseteq WatchSizes
  /\ ProgramBytes \subseteq Addresses
  /\ Watchpoints \in Nat /\ MaxToken \in Nat
  /\ Menus \subseteq SUBSET AllMenu

VARIABLES
  menu,
  core,     \* running, sleeping or halted
  token,    \* its run token
  cache,    \* the intervals of the MemoryCache
  ctoken,   \* its _run_token
  stale,    \* history: cached bytes the code lets go stale
  watch,    \* watchpoints of the DWT: addr, size and func of each; func 0 is free
  func,     \* the function registers of its comparators
  used,     \* watchpoint_used
  refused,  \* history: the watchpoints whose size the device refused
  astray    \* history: those one of whose writes failed, and no later one succeeded

caching == <<cache, ctoken, stale>>
running == <<menu, core, token>>
dwt == <<watch, func, used, refused, astray>>
vars == <<mem, shadow, sw, mgr, comps, fpcomp, fpb, pending, spoilt, failed, faults,
          owed, menu, core, token, cache, ctoken, stale, watch, func, used, refused, astray>>

WatchTypes == {5, 6}   \* WATCH_TYPE_TO_FUNCT of reads and of writes

Init ==
  /\ InitBreakpoints
  /\ menu \in Menus
  /\ core = "halted" /\ token = 0
  /\ cache = {} /\ ctoken = MaxToken + 1 /\ stale = {}   \* -1 in the code: no token
  /\ watch = [i \in 1..Watchpoints |-> [addr |-> 0, size |-> 0, func |-> 0]]
  /\ func = [i \in 1..Watchpoints |-> 0]
  /\ used = 0 /\ refused = {} /\ astray = {}

-----------------------------------------------------------------------------
\* The core: what it does by itself, and what the host has it do.  What reads
\* the core's state first does nothing while an error is owed.
Resume ==
  /\ core = "halted" /\ token < MaxToken /\ ~owed
  /\ core' = "running" /\ token' = token + 1
  /\ UNCHANGED <<menu, breakpoints, owed, caching, dwt>>

\* It raises the error, and so does any other read: of the instruction under a
\* breakpoint (which is not set then) or of the state of the core (_check_cache).
ErrorRaised ==
  /\ owed /\ owed' = FALSE
  /\ UNCHANGED <<breakpoints, running, caching, dwt>>

CoreMoves ==
  /\ \/ core = "running" /\ core' \in {"sleeping", "halted"}
     \/ core = "sleeping" /\ core' \in {"running", "halted"}
  /\ UNCHANGED <<menu, token, breakpoints, owed, caching, dwt>>

\* The program changes a byte; in this model it writes 0 and the debugger 1.
ProgramWrites(addr) ==
  /\ core = "running"
  /\ Written({addr}, [a \in {addr} |-> 0])
  /\ UNCHANGED <<faults, owed, running, caching, dwt>>

-----------------------------------------------------------------------------
\* Breakpoints are set and removed on a core in whatever state.  A session sets
\* those that come out as one of the types of its menu.
BreakpointStep ==
  /\ \/ \E a \in BreakAddresses, type \in {"hw", "sw", "auto"} :
          /\ ChooseType(a, type) \in menu
          /\ \/ SetHardware(a, type) \/ SetHardwareFails(a, type) \/ SetHardwareLost(a, type)
             \/ ReadInstruction(a, type)
     \/ SetSoftware \/ SetSoftwareFails \/ SetSoftwareLost
     \/ \E a \in BreakAddresses :
          RemoveBreakpoint(a) \/ RemoveBreakpointFails(a) \/ RemoveBreakpointLost(a)
     \/ RemoveAllBreakpoints
     \/ \E a \in BreakAddresses, done \in SUBSET BreakAddresses :
          RemoveAllBreakpointsFail(a, done) \/ RemoveAllBreakpointsOrphaned(a, done)
  /\ {"hw", "sw"} \cap menu # {}
  /\ UNCHANGED <<running, caching, dwt>>

-----------------------------------------------------------------------------
\* _check_cache: a running core empties the cache, and so does a run token
\* that is not the cache's.
Checked ==
  IF core = "running" \/ ctoken # token THEN {} ELSE cache
CheckedToken == IF core = "running" THEN ctoken ELSE token
Stale == IF Checked = {} THEN {} ELSE stale

\* The bytes as the context below the cache reads them.
View == [a \in Addresses |-> FilterUnaligned8(a)]

\* (A wrong variant of ReadCached: the run token is not looked at.)
ReadCachedAnyToken(begin, end) ==
  /\ RegionAllows(Map, begin, end) /\ Cacheable(Map, begin, end)
  /\ cache' = AfterCachedRead(IF core = "running" THEN {} ELSE cache, View, begin, end)
  /\ ctoken' = CheckedToken
  /\ stale' = IF core = "halted" THEN stale ELSE stale \cup (Holds(cache') \ Holds(Checked))

\* read_memory_block8.  What is read while the core sleeps is kept: a core
\* that sleeps does not count as running, and it wakes without a new token.
ReadCached(begin, end) ==
  /\ RegionAllows(Map, begin, end) /\ Cacheable(Map, begin, end)
  /\ cache' = AfterCachedRead(Checked, View, begin, end)
  /\ ctoken' = CheckedToken
  /\ stale' = IF core = "halted" THEN Stale
              ELSE Stale \cup (Holds(cache') \ Holds(Checked))

\* An access that crosses the boundary of a region raises after the check of
\* the cache, and one outside the cacheable regions is passed on.
ReadUncacheable(begin, end) ==
  /\ ~(RegionAllows(Map, begin, end) /\ Cacheable(Map, begin, end))
  /\ cache' = Checked /\ ctoken' = CheckedToken /\ stale' = Stale

\* write_memory_block8: the target first, then the cache.
WriteCached(begin, end) ==
  /\ RegionAllows(Map, begin, end) /\ Cacheable(Map, begin, end)
  /\ Written(begin..(end - 1), [a \in begin..(end - 1) |-> 1])
  /\ cache' = AfterCachedWrite(Checked, begin, [k \in 1..(end - begin) |-> 1])
  /\ ctoken' = CheckedToken
  /\ stale' = IF core = "halted" THEN Stale \ (begin..(end - 1))
              ELSE Stale \cup (begin..(end - 1))

\* The write raises after some of its bytes were written: the cache keeps what
\* it had.
WriteCachedFails(begin, end) ==
  /\ RegionAllows(Map, begin, end) /\ Cacheable(Map, begin, end) /\ Trouble(FALSE)
  /\ \E middle \in begin..end :
       /\ Written(begin..(middle - 1), [a \in begin..(middle - 1) |-> 1])
       /\ stale' = Stale \cup (begin..(middle - 1))
  /\ cache' = Checked /\ ctoken' = CheckedToken

\* Some of its bytes are lost: the cache has them all.
WriteCachedLost(begin, end) ==
  /\ RegionAllows(Map, begin, end) /\ Cacheable(Map, begin, end) /\ Trouble(TRUE)
  /\ \E done \in SUBSET (begin..(end - 1)) : Written(done, [a \in done |-> 1])
  /\ cache' = AfterCachedWrite(Checked, begin, [k \in 1..(end - begin) |-> 1])
  /\ ctoken' = CheckedToken
  /\ stale' = Stale \cup (begin..(end - 1))

CacheStep ==
  \/ /\ "cache" \in menu /\ ~owed
     /\ \E r \in CacheRanges : ReadCached(r[1], r[2]) \/ ReadUncacheable(r[1], r[2])
     /\ UNCHANGED <<breakpoints, owed, running, dwt>>
  \/ /\ "write" \in menu /\ ~owed
     /\ \E r \in CacheRanges :
          \/ WriteCached(r[1], r[2]) /\ UNCHANGED <<faults, owed>>
          \/ WriteCachedFails(r[1], r[2]) \/ WriteCachedLost(r[1], r[2])
     /\ UNCHANGED <<running, dwt>>

-----------------------------------------------------------------------------
\* DWT: a watchpoint is found by its address, size and function.
FindWatchpoint(addr, size, f) ==
  {i \in 1..Watchpoints : watch[i] = [addr |-> addr, size |-> size, func |-> f]}
FreeWatch == {i \in 1..Watchpoints : watch[i].func = 0}
FirstOf(S) == CHOOSE i \in S : \A j \in S : i <= j

\* set_watchpoint fills in a record before it asks whether the size is one of
\* its table and one of the device's: the record stays filled in when it is not,
\* and when an access raises.  Asked for once more, the watchpoint is found.
Recorded(i, addr, size, f) ==
  /\ FindWatchpoint(addr, size, f) = {} /\ FreeWatch # {} /\ i = FirstOf(FreeWatch)
  /\ watch' = [watch EXCEPT ![i] = [addr |-> addr, size |-> size, func |-> f]]

\* The mask register is read back, so that nothing is owed when the comparator
\* is written.
SetWatchpoint(i, addr, size, f) ==
  /\ Recorded(i, addr, size, f)
  /\ \/ /\ size \in DeviceWatchSizes /\ ~owed
        /\ func' = [func EXCEPT ![i] = f] /\ used' = used + 1 /\ astray' = astray \ {i}
        /\ UNCHANGED refused
     \/ /\ size \notin DeviceWatchSizes /\ (size \in MaskSizes => ~owed)
        /\ refused' = refused \cup {i} /\ UNCHANGED <<func, used, astray>>
  /\ UNCHANGED <<faults, owed>>

SetWatchpointFails(i, addr, size, f) ==
  /\ Recorded(i, addr, size, f) /\ size \in MaskSizes /\ Trouble(FALSE)
  /\ \/ UNCHANGED func
     \/ size \in DeviceWatchSizes /\ func' = [func EXCEPT ![i] = f]
  /\ astray' = astray \cup {i} /\ UNCHANGED <<used, refused>>

\* The write of the address or of the function is lost: the watchpoint counts.
SetWatchpointLost(i, addr, size, f) ==
  /\ Recorded(i, addr, size, f) /\ size \in DeviceWatchSizes /\ ~owed /\ Trouble(TRUE)
  /\ func' \in {func, [func EXCEPT ![i] = f]} /\ used' = used + 1
  /\ astray' = astray \cup {i} /\ UNCHANGED refused

\* remove_watchpoint: the record is free whatever becomes of the access.
Freeing(i, addr, size, f) ==
  /\ FindWatchpoint(addr, size, f) # {} /\ i = FirstOf(FindWatchpoint(addr, size, f))
  /\ watch' = [watch EXCEPT ![i].func = 0] /\ refused' = refused \ {i}

\* (A wrong variant of RemoveWatchpoint: the comparator is left alone.)
RemoveWatchpointRecordOnly(i, addr, size, f) ==
  /\ Freeing(i, addr, size, f)
  /\ func' = func /\ used' = used - 1 /\ astray' = astray \ {i}
  /\ UNCHANGED <<faults, owed>>

RemoveWatchpoint(i, addr, size, f) ==
  /\ Freeing(i, addr, size, f)
  /\ func' = [func EXCEPT ![i] = 0] /\ used' = used - 1 /\ astray' = astray \ {i}
  /\ UNCHANGED <<faults, owed>>

RemoveWatchpointFails(i, addr, size, f) ==
  /\ Freeing(i, addr, size, f) /\ Trouble(FALSE)
  /\ func' \in {func, [func EXCEPT ![i] = 0]} /\ astray' = astray \cup {i} /\ UNCHANGED used

RemoveWatchpointLost(i, addr, size, f) ==
  /\ Freeing(i, addr, size, f) /\ Trouble(TRUE)
  /\ used' = used - 1 /\ astray' = astray \cup {i} /\ UNCHANGED func

\* remove_all_watchpoints, whose calls each find the watchpoint they ask for.
\* One that an error ends, or that loses writes, is as if each were removed on
\* its own.
RemoveAllWatchpoints ==
  LET taken == {i \in 1..Watchpoints : watch[i].func # 0} IN
    /\ taken # {}
    /\ watch' = [i \in 1..Watchpoints |-> [watch[i] EXCEPT !.func = 0]]
    /\ func' = [i \in 1..Watchpoints |-> IF i \in taken THEN 0 ELSE func[i]]
    /\ used' = used - Cardinality(taken)
    /\ refused' = {} /\ astray' = astray \ taken
    /\ UNCHANGED <<faults, owed>>

WatchStep ==
  /\ "watch" \in menu /\ used > -MaxFaults - 1
  /\ \/ \E i \in 1..Watchpoints, addr \in WatchAddresses, size \in WatchSizes, f \in WatchTypes :
          \/ SetWatchpoint(i, addr, size, f) \/ SetWatchpointFails(i, addr, size, f)
          \/ SetWatchpointLost(i, addr, size, f)
          \/ RemoveWatchpoint(i, addr, size, f) \/ RemoveWatchpointFails(i, addr, size, f)
          \/ RemoveWatchpointLost(i, addr, size, f)
     \/ RemoveAllWatchpoints
  /\ UNCHANGED <<mem, shadow, sw, mgr, comps, fpcomp, fpb, pending, spoilt, failed>>
  /\ UNCHANGED <<running, caching>>

-----------------------------------------------------------------------------
Next ==
  \/ Resume \/ ErrorRaised \/ CoreMoves \/ \E a \in ProgramBytes : ProgramWrites(a)
  \/ BreakpointStep \/ CacheStep \/ WatchStep

Spec == Init /\ [][Next]_vars

-----------------------------------------------------------------------------
\* The types of the variables.
TypeOK ==
  /\ BreakpointsTypeOK
  /\ core \in {"running", "sleeping", "halted"} /\ token \in 0..MaxToken
  /\ \A iv \in cache : iv.begin < iv.end /\ iv.data \in Seq({0, 1, Bkpt})
  /\ stale \subseteq Addresses
  /\ refused \cup astray \subseteq 1..Watchpoints

\* MemoryCache keeps its intervals apart, each as long as its data and within
\* one cacheable region, however reads and writes overlapped: _merge_data and
\* the assertion on its result (cache.py:446) rest on it.
IntervalsDisjoint ==
  /\ \A iv \in cache :
       /\ Len(iv.data) = iv.end - iv.begin
       /\ RegionAllows(Map, iv.begin, iv.end) /\ Cacheable(Map, iv.begin, iv.end)
  /\ \A i, j \in cache : i = j \/ i.end <= j.begin \/ j.end <= i.begin

Ram == {a \in Addresses : GetRegionForAddress(Map, a).type = "ram"}

\* A read through the cache returns, for every range of a cacheable region, as
\* many bytes as it asked for, and those the memory below would show,
\* whether the core ran, breakpoints came and went or parts of the range were
\* read and written before.  It is not claimed of bytes the code lets go
\* stale, which are those read while the core slept and those of a write that
\* raised or was lost later, nor of those TransparentBreakpoints excepts.
CachedReadsRight ==
  core = "halted" /\ ctoken = token =>
    \A begin \in Addresses, length \in 1..4 :
      LET end   == begin + length
          bytes == begin..(end - 1)
      IN bytes \subseteq Ram /\ bytes \cap (stale \cup spoilt) = {} =>
           CachedRead(cache, View, begin, end) = BytesOf(shadow, begin, end)

\* Both of the memory cache.
CacheRight == IntervalsDisjoint /\ CachedReadsRight

\* Every DWT comparator watches for what its record says, and none for a
\* watchpoint that was removed; the records of sizes the device refused are
\* taken without being armed.  It is not claimed of a comparator one of whose
\* accesses failed, at once or late, until one is set or removed again.  No two
\* records are of one watchpoint, whatever failed.
WatchpointsAgree ==
  /\ \A i \in (1..Watchpoints) \ astray : func[i] = IF i \in refused THEN 0 ELSE watch[i].func
  /\ \A i, j \in 1..Watchpoints : watch[i] = watch[j] /\ watch[i].func # 0 => i = j

\* Both units, FPB and DWT, are as their managers believe.
UnitsAgree == ComparatorsAgree /\ WatchpointsAgree
=============================================================================
